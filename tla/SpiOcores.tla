------------------------------ MODULE SpiOcores ------------------------------
(***************************************************************************)
(* The Linux driver spi-ocores on the SPI master spi_top, by interrupts or *)
(* by polling.  The thread that starts a message and the interrupt handler *)
(* run the same functions; each has its own place in them.  A transfer is  *)
(* [len, bits, cs_change, tx, rx]; word <<k, b>> starts at byte b of       *)
(* transfer k, and spi_log is what the slaves have seen of the message.    *)
(***************************************************************************)
EXTENDS Integers, Sequences, FiniteSets

CONSTANTS Messages,     \* the messages (sequences of transfers) clients send
          Slaves        \* chip selects

Transfer == [len : Nat, bits : Nat, cs_change : BOOLEAN, tx : BOOLEAN, rx : BOOLEAN]

ASSUME MessagesAssumption == \A m \in Messages : m \in Seq(Transfer) /\ m # <<>>

VARIABLES
  spi_poll,                            \* SPI_OCORES_FLAG_POLL (never changes)
  go, ie, tx, rx, ss, int_o, spi_log,  \* the SPI master, and what slaves saw
  mesg, cs,                            \* the current message, its chip select
  cur_xfer, cur_tx_buf, cur_rx_buf, cur_len,      \* struct spi_ocores
  stored,                              \* words stored: <<word, place in spi_log>>
  spi_pc                               \* of the thread and of the handler

spi  == <<go, ie, tx, rx, ss, int_o, spi_log>>
cur  == <<cur_xfer, cur_tx_buf, cur_rx_buf, cur_len, stored>>
spiVars == <<spi_poll, spi, mesg, cs, cur, spi_pc>>

NULL == -1
Context == {"thread", "irq"}

SpiInit ==
  /\ spi_poll \in BOOLEAN
  /\ go = FALSE /\ ie = FALSE /\ tx = <<>> /\ rx = 0 /\ ss = {} /\ int_o = FALSE
  /\ spi_log = <<>> /\ mesg = <<>> /\ cs \in Slaves
  /\ cur_xfer = 0 /\ cur_tx_buf = NULL /\ cur_rx_buf = NULL /\ cur_len = 0
  /\ stored = {} /\ spi_pc = [c \in Context |-> "out"]

SpiAt(c, from, to) == spi_pc[c] = from /\ spi_pc' = [spi_pc EXCEPT ![c] = to]

-----------------------------------------------------------------------------
(* The SPI master.  Any access to a register takes the interrupt away.     *)

Shift ==                              \* the last bit of a word
  /\ go /\ go' = FALSE
  /\ spi_log' = Append(spi_log, <<ss, tx>>) /\ rx' = Len(spi_log')
  /\ tx' = <<>>                       \* shifted out by what came in
  /\ int_o' = (ie \/ int_o)
  /\ UNCHANGED <<spi_poll, ie, ss, mesg, cs, cur, spi_pc>>

(* The slaves notice when no chip select is left.                          *)
Select(lines) ==
  /\ ss' = IF go THEN ss ELSE lines
  /\ spi_log' = IF ss # {} /\ ss' = {} THEN Append(spi_log, <<"off">>) ELSE spi_log

-----------------------------------------------------------------------------
(* Words and transfers                                                     *)

Bits == mesg[cur_xfer].bits

Moved(bits) ==                        \* by tx_push8..128 and rx_pop8..128
  CHOOSE n \in {1, 2, 4, 8, 16} :
    bits <= 8 * n /\ \A k \in {1, 2, 4, 8, 16} : bits <= 8 * k => n <= k

Valid(x) == x.bits - 1 \in 0..127 /\ 8 * x.len >= x.bits

(* A driver that pushes the first word of the transfer again.              *)
Mut_spi_ocores_hw_xfer_tx_push ==
  IF cur_tx_buf = NULL THEN UNCHANGED <<tx, cur_tx_buf>>
  ELSE tx' = <<cur_xfer, cur_tx_buf>> /\ UNCHANGED cur_tx_buf

spi_ocores_hw_xfer_tx_push ==
  IF cur_tx_buf = NULL THEN UNCHANGED <<tx, cur_tx_buf>>
  ELSE tx' = <<cur_xfer, cur_tx_buf>> /\ cur_tx_buf' = cur_tx_buf + Moved(Bits)

spi_ocores_hw_xfer_rx_pop ==
  /\ cur_len' = cur_len - (Bits \div 8)
  /\ IF cur_rx_buf = NULL THEN UNCHANGED <<cur_rx_buf, stored>>
     ELSE /\ stored' = stored \cup {<<<<cur_xfer, cur_rx_buf>>, rx>>}
          /\ cur_rx_buf' = cur_rx_buf + Moved(Bits)

(* tx_push and hw_xfer_start: the word, the chip select, GO.               *)
Push(c) ==
  /\ SpiAt(c, "push", IF c = "thread" /\ spi_poll THEN "wait" ELSE "out")
  /\ spi_ocores_hw_xfer_tx_push /\ Select(ss \cup {cs})
  /\ go' = TRUE /\ int_o' = FALSE
  /\ UNCHANGED <<spi_poll, ie, rx, mesg, cs, cur_xfer, cur_rx_buf, cur_len, stored>>

(* The error of the first transfer is ignored: by polling the driver waits *)
(* all the same, by interrupt the message stays where it is.               *)
Refused == IF cur_xfer # 0 THEN "finalize" ELSE IF spi_poll THEN "wait" ELSE "out"

(* A driver that forgets the interrupt enable in CTRL.                     *)
Mut_spi_ocores_sw_xfer_next_init(c) ==
  /\ spi_pc[c] = "next"
  /\ cur_xfer' = IF cur_xfer = Len(mesg) THEN cur_xfer ELSE cur_xfer + 1
  /\ IF cur_xfer' # cur_xfer /\ Valid(mesg[cur_xfer'])
     THEN LET x == mesg[cur_xfer'] IN
          /\ spi_pc' = [spi_pc EXCEPT ![c] = "push"]
          /\ int_o' = FALSE /\ UNCHANGED ie
          /\ cur_tx_buf' = IF x.tx THEN 0 ELSE NULL
          /\ cur_rx_buf' = IF x.rx THEN 0 ELSE NULL
          /\ cur_len' = x.len
     ELSE /\ spi_pc' = [spi_pc EXCEPT ![c] = Refused]
          /\ UNCHANGED <<ie, int_o, cur_tx_buf, cur_rx_buf, cur_len>>
  /\ UNCHANGED <<spi_poll, go, tx, rx, ss, spi_log, mesg, cs, stored>>

(* The next transfer of the message, if there is one and it is valid.      *)
spi_ocores_sw_xfer_next_init(c) ==
  /\ spi_pc[c] = "next"
  /\ cur_xfer' = IF cur_xfer = Len(mesg) THEN cur_xfer ELSE cur_xfer + 1
  /\ IF cur_xfer' # cur_xfer /\ Valid(mesg[cur_xfer'])
     THEN LET x == mesg[cur_xfer'] IN
          /\ spi_pc' = [spi_pc EXCEPT ![c] = "push"]
          /\ ie' = ~spi_poll /\ int_o' = FALSE
          /\ cur_tx_buf' = IF x.tx THEN 0 ELSE NULL
          /\ cur_rx_buf' = IF x.rx THEN 0 ELSE NULL
          /\ cur_len' = x.len
     ELSE /\ spi_pc' = [spi_pc EXCEPT ![c] = Refused]
          /\ UNCHANGED <<ie, int_o, cur_tx_buf, cur_rx_buf, cur_len>>
  /\ UNCHANGED <<spi_poll, go, tx, rx, ss, spi_log, mesg, cs, stored>>

spi_ocores_sw_xfer_finish(c) ==
  /\ SpiAt(c, "finish", "next")
  /\ IF mesg[cur_xfer].cs_change THEN Select(ss \ {cs}) /\ int_o' = FALSE
                                 ELSE UNCHANGED <<ss, spi_log, int_o>>
  /\ cur_tx_buf' = NULL /\ cur_rx_buf' = NULL /\ cur_len' = 0
  /\ UNCHANGED <<spi_poll, go, ie, tx, rx, mesg, cs, cur_xfer, stored>>

(* A driver that keeps pointing at the last transfer of the message.       *)
Mut_spi_ocores_finalize_current_message(c) ==
  /\ SpiAt(c, "finalize", "finalized")
  /\ Select(ss \ {cs}) /\ int_o' = FALSE
  /\ UNCHANGED <<spi_poll, go, ie, tx, rx, mesg, cs, cur>>

spi_ocores_finalize_current_message(c) ==
  /\ SpiAt(c, "finalize", "finalized")
  /\ Select(ss \ {cs}) /\ int_o' = FALSE /\ cur_xfer' = 0
  /\ UNCHANGED <<spi_poll, go, ie, tx, rx, mesg, cs, cur_tx_buf, cur_rx_buf, cur_len, stored>>

(* The core takes the message back, and may send the next one at once.     *)
spi_finalize_current_message(c) ==
  /\ SpiAt(c, "finalized", "out") /\ mesg' = <<>>
  /\ UNCHANGED <<spi_poll, spi, cs, cur>>

(* BUSY, or the word that came and what is next; the read of CTRL acks.    *)
(* The count of bytes is unsigned: below zero is pending, as above.        *)
spi_ocores_process(c) ==
  /\ spi_pc[c] = "process" /\ int_o' = FALSE
  /\ IF go
     THEN spi_pc' = [spi_pc EXCEPT ![c] = "out"] /\ UNCHANGED cur
     ELSE /\ spi_ocores_hw_xfer_rx_pop /\ UNCHANGED <<cur_xfer, cur_tx_buf>>
          /\ spi_pc' = [spi_pc EXCEPT ![c] = IF cur_len' # 0 THEN "push" ELSE "finish"]
  /\ UNCHANGED <<spi_poll, go, ie, tx, rx, ss, spi_log, mesg, cs>>

-----------------------------------------------------------------------------
(* The thread and the handler                                              *)

spi_ocores_transfer_one_message ==
  /\ mesg = <<>> /\ SpiAt("thread", "out", "next")
  /\ mesg' \in Messages /\ cs' \in Slaves
  /\ spi_log' = <<>> /\ stored' = {}
  /\ UNCHANGED <<spi_poll, go, ie, tx, rx, ss, int_o, cur_xfer, cur_tx_buf, cur_rx_buf, cur_len>>

spi_ocores_hw_xfer_wait_complete ==
  /\ SpiAt("thread", "wait", "process") /\ ~go /\ int_o' = FALSE
  /\ UNCHANGED <<spi_poll, go, ie, tx, rx, ss, spi_log, mesg, cs, cur>>

PollTimeout ==                        \* returns, and leaves the message there
  /\ SpiAt("thread", "wait", "stuck") /\ go
  /\ UNCHANGED <<spi_poll, spi, mesg, cs, cur>>

spi_ocores_irq_handler ==
  /\ ~spi_poll /\ int_o /\ SpiAt("irq", "out", "process")
  /\ UNCHANGED <<spi_poll, spi, mesg, cs, cur>>

spi_ocores_unprepare_transfer_hardware ==
  /\ mesg = <<>> /\ spi_pc["thread"] = "out" /\ ie /\ ~go
  /\ ie' = FALSE /\ int_o' = FALSE
  /\ UNCHANGED <<spi_poll, go, tx, rx, ss, spi_log, mesg, cs, cur, spi_pc>>

Step(c) ==
  \/ Push(c) \/ spi_ocores_process(c)
  \/ spi_ocores_sw_xfer_next_init(c) \/ spi_ocores_sw_xfer_finish(c)
  \/ spi_ocores_finalize_current_message(c) \/ spi_finalize_current_message(c)

SpiWorking ==
  \/ Shift \/ spi_ocores_hw_xfer_wait_complete \/ spi_ocores_irq_handler
  \/ \E c \in Context : Step(c)

SpiNext ==
  \/ SpiWorking \/ spi_ocores_transfer_one_message \/ PollTimeout
  \/ spi_ocores_unprepare_transfer_hardware

SpiSpec == SpiInit /\ [][SpiNext]_spiVars /\ WF_spiVars(SpiWorking)

-----------------------------------------------------------------------------
(* Properties                                                              *)

(* What the slaves have to see of message m: place <<k, b>> is the word of  *)
(* transfer k that starts at byte b, <<k, len>> the chip select going off. *)
(* From the first transfer on that the driver refuses there is nothing.    *)
Sent(m) == {k \in DOMAIN m : \A j \in 1..k : Valid(m[j])}

SpiPlaces(m) ==
  UNION {{k} \X {b \in 0..m[k].len : /\ b % Moved(m[k].bits) = 0
                                     /\ \/ b < m[k].len \/ m[k].cs_change
                                        \/ k + 1 \notin Sent(m)} : k \in Sent(m)}

SpiBefore(p, q) == p[1] < q[1] \/ (p[1] = q[1] /\ p[2] < q[2])

SpiNumber(m, p) == Cardinality({q \in SpiPlaces(m) : q = p \/ SpiBefore(q, p)})

SpiEvent(m, s, p) ==
  IF p[2] = m[p[1]].len THEN <<"off">>
                        ELSE <<{s}, IF m[p[1]].tx THEN p ELSE <<>>>>

Read(m) == {p \in SpiPlaces(m) : p[2] < m[p[1]].len /\ m[p[1]].rx}

(* The words of the message reach its slave, and no other, once and in     *)
(* order, and the chip select is held exactly over the transfers that are  *)
(* to be held together, whoever of thread and handler writes the next one. *)
WordsInOrder ==
  mesg # <<>> => \A n \in 1..Len(spi_log) :
                   \E p \in SpiPlaces(mesg) : SpiNumber(mesg, p) = n /\ spi_log[n] = SpiEvent(mesg, cs, p)

(* A message is given back when its last word is exchanged, every word     *)
(* read is at its place, the slave is released, and the driver is ready    *)
(* for the next message.                                                   *)
FinalizedWhenDone ==
  [][mesg # <<>> /\ mesg' = <<>> =>
       /\ Len(spi_log) = Cardinality(SpiPlaces(mesg)) /\ ss = {} /\ ~go
       /\ cur_xfer = 0 /\ cur_len = 0
       /\ \A c \in Context : spi_pc'[c] = "out"
       /\ stored = {<<p, SpiNumber(mesg, p)>> : p \in Read(mesg)}
    ]_spiVars

(* Every message is given back, unless polling gives up on a word: no      *)
(* interrupt is lost to a register access that takes it away.              *)
MessageFinalized == mesg # <<>> ~> (mesg = <<>> \/ spi_pc["thread"] = "stuck")

=============================================================================
