--------------------------- MODULE Drivers_proofs ---------------------------
(***************************************************************************)
(* The driver of the UART: for any sizes of ring, FIFOs and burst, any     *)
(* number of files, one CPU or two: the ring is never overrun nor read     *)
(* empty, and write() leaves no byte behind without the interrupt that     *)
(* sends it; the bytes go out, and come in, once each and in order; and on *)
(* one CPU the enables of the core follow the port, wherever the handler   *)
(* breaks into open() and close().                                         *)
(*                                                                         *)
(* The interrupt controller and its driver: VAR is the vector of the       *)
(* interrupt being served, for any number of interrupts and any vectors:   *)
(* first with every host that leaves the vector table alone while the      *)
(* controller is enabled, then with htvic, which is such a host.           *)
(***************************************************************************)
EXTENDS WbUart, HtVic, SequenceTheorems, FiniteSetTheorems, TLAPS

-----------------------------------------------------------------------------
(* THE DRIVER OF THE UART                                                  *)

Enables == [rx : BOOLEAN, tx : BOOLEAN]

RingOK == nb_bytes \in 0..PAGE_SIZE

(* Who is inside the lock, by place; which places imply what.              *)
LockOK ==
  /\ irq \in {"out", "rx", "tx", "send", "sent", "off"}
  /\ sys \in {"idle", "copied", "check", "on", "activate",
              "close", "close_rx", "close_tx"}
  /\ irq \in {"send", "sent", "off"} <=> lock = "irq"
  /\ sys = "copied" <=> lock = "sys"

PlaceOK ==
  /\ irq = "send" => nb_bytes > 0
  /\ irq = "off" => nb_bytes = 0

EnablesOK == cr \in Enables /\ sysCr \in Enables /\ irqCr \in Enables

PendingOK ==
  nb_bytes > 0 /\ ~left => /\ sys \in {"idle", "activate"} => cr.tx
                           /\ sys = "activate" => sysCr.tx

IInv == RingOK /\ LockOK /\ PlaceOK /\ EnablesOK /\ PendingOK

-----------------------------------------------------------------------------
(* Sequences of bytes                                                      *)

LEMMA InOrderType ==
  ASSUME NEW n \in Nat
  PROVE  /\ [k \in 1 .. n |-> k] \in Seq(Nat)
         /\ \A s \in Seq(Nat) : InOrder(s, n) <=> Len(s) = n /\ \A k \in 1 .. n : s[k] = k
<1>1. [k \in 1 .. n |-> k] \in Seq(Nat) /\ Len([k \in 1 .. n |-> k]) = n
  OBVIOUS
<1>2. ASSUME NEW s \in Seq(Nat), Len(s) = n, \A k \in 1 .. n : s[k] = k
      PROVE  s = [k \in 1 .. n |-> k]
  BY <1>1, <1>2
<1> QED BY <1>1, <1>2 DEF InOrder

LEMMA InOrderAppend ==
  ASSUME NEW n \in Nat, NEW s \in Seq(Nat), InOrder(s, n)
  PROVE  InOrder(Append(s, n+1), n+1)
<1>1. Len(s) = n /\ \A k \in 1 .. n : s[k] = k
  BY InOrderType
<1>2. Append(s, n+1) \in Seq(Nat) /\ Len(Append(s, n+1)) = n+1
      /\ \A k \in 1 .. n+1 : Append(s, n+1)[k] = k
  BY <1>1
<1>3. n + 1 \in Nat
  OBVIOUS
<1> QED BY <1>2, <1>3, InOrderType

LEMMA ConcatRegroups ==
  ASSUME NEW s \in Seq(Nat), NEW t \in Seq(Nat), NEW u \in Seq(Nat)
  PROVE  (s \o t) \o u = s \o (t \o u)
  BY ConcatAssociative, SMTT(30)

LEMMA ConcatAppend ==
  ASSUME NEW s \in Seq(Nat), NEW t \in Seq(Nat), NEW c \in Nat
  PROVE  s \o Append(t, c) = Append(s \o t, c)
<1>1. s \o t \in Seq(Nat) /\ Append(t, c) = t \o <<c>> /\ <<c>> \in Seq(Nat)
  BY AppendIsConcat, ConcatProperties
<1>2. Append(s \o t, c) = (s \o t) \o <<c>>
  BY <1>1, AppendIsConcat
<1>3. (s \o t) \o <<c>> = s \o (t \o <<c>>)
  BY <1>1, ConcatRegroups
<1> QED BY <1>1, <1>2, <1>3

LEMMA HeadThenTail ==
  ASSUME NEW s \in Seq(Nat), s # <<>>
  PROVE  /\ Head(s) \in Nat /\ Tail(s) \in Seq(Nat) /\ <<Head(s)>> \in Seq(Nat)
         /\ <<Head(s)>> \o Tail(s) = s
<1>1. Head(s) \in Nat /\ Tail(s) \in Seq(Nat) /\ <<Head(s)>> \in Seq(Nat)
  BY HeadTailProperties
<1>2. <<Head(s)>> \o Tail(s) = s
  BY <1>1
<1> QED BY <1>1, <1>2

-----------------------------------------------------------------------------
(* The ring, the lock and the interrupt enables                            *)

USE SizeAssumption

LEMMA EnablesClosed ==
  ASSUME NEW c \in Enables
  PROVE  [rx |-> FALSE, tx |-> c.tx] \in Enables /\ [rx |-> c.rx, tx |-> FALSE] \in Enables
  BY DEF Enables

LEMMA InitInv == Init => IInv
  BY DEF Init, IInv, RingOK, LockOK, PlaceOK, EnablesOK, PendingOK, Enables

LEMMA HardwareInv == IInv /\ Hardware => IInv'
  BY DEF Hardware, tx_fifo_fsm, TxDone, RxArrives, rx_fifo_fsm, ring, tty, hand, call,
         IInv, RingOK, LockOK, PlaceOK, EnablesOK, PendingOK, Enables

LEMMA HandlerInv == IInv /\ Handler => IInv'
<1> SUFFICES ASSUME IInv, Handler PROVE IInv'
  OBVIOUS
<1> USE DEF IInv, RingOK, LockOK, PlaceOK, EnablesOK, PendingOK, Enables
<1>1. CASE \E cpu \in {"same", "other"} : wbu_tty_handler(cpu)
  BY <1>1 DEF wbu_tty_handler, ring, tty, call
<1>2. CASE wbu_tty_handler_rx
  BY <1>2 DEF wbu_tty_handler_rx, ring, tty, call
<1>3. CASE wbu_tty_handler_tx
  BY <1>3 DEF wbu_tty_handler_tx, ring, tty, call
<1>4. CASE wbu_tty_tx_send
  <2>1. nb_bytes \in Nat /\ nb_bytes > 0 /\ UNCHANGED <<lock, cr, irqCr, sys, sysCr, left>>
    BY <1>4 DEF wbu_tty_tx_send, call
  <2>2. CASE TxBusy
    BY <1>4, <2>1, <2>2 DEF wbu_tty_tx_send
  <2>3. CASE ~TxBusy
    <3>1. nb_bytes' = nb_bytes - 1 /\ irq' \in {"send", "sent"} /\ irq = "send"
          /\ (irq' = "send" => nb_bytes' > 0)
      BY <1>4, <2>3 DEF wbu_tty_tx_send
    <3> QED
      BY <2>1, <3>1
  <2> QED
    BY <2>2, <2>3
<1>5. CASE HandlerSent
  BY <1>5 DEF HandlerSent, ring, tty, call
<1>6. CASE wbu_disable_tx_interrupts
  BY <1>6 DEF wbu_disable_tx_interrupts, ring, tty
<1> QED
  BY <1>1, <1>2, <1>3, <1>4, <1>5, <1>6 DEF Handler

LEMMA WriteInv == IInv /\ wbu_tty_write => IInv'
<1> SUFFICES ASSUME IInv, wbu_tty_write PROVE IInv'
  OBVIOUS
<1> USE DEF IInv, RingOK, LockOK, PlaceOK, EnablesOK, PendingOK, Enables
<1>1. PICK count \in 1..MaxWrite :
        nb_bytes' = nb_bytes + IF count <= PAGE_SIZE - nb_bytes
                               THEN count ELSE PAGE_SIZE - nb_bytes
  BY DEF wbu_tty_write
<1>2. nb_bytes' \in 0..PAGE_SIZE
  BY <1>1
<1>3. /\ lock = "none" /\ lock' = "sys" /\ sys = "idle" /\ sys' = "copied"
      /\ UNCHANGED <<irq, cr, irqCr, sysCr, left>>
  BY DEF wbu_tty_write, hand, Runs
<1> QED
  BY <1>2, <1>3

LEMMA SysCallInv == IInv /\ SysCall => IInv'
<1> SUFFICES ASSUME IInv, SysCall PROVE IInv'
  OBVIOUS
<1> USE DEF IInv, RingOK, LockOK, PlaceOK, EnablesOK, PendingOK, Enables, Runs
<1>1. CASE WriteUnlock
  <2>1. sys = "copied" /\ lock' = "none" /\ sys' = "check"
        /\ UNCHANGED <<irq, cr, irqCr, sysCr, left, nb_bytes>>
    BY <1>1 DEF WriteUnlock, ring, tty, hand
  <2> QED
    BY <2>1
<1>2. CASE WriteCheck
  BY <1>2 DEF WriteCheck, ring, tty, hand
<1>3. CASE wbu_enable_tx_interrupts
  BY <1>3 DEF wbu_enable_tx_interrupts, ring, tty, hand
<1>4. CASE wbu_port_activate
  BY <1>4 DEF wbu_port_activate, ring, tty, hand
<1>5. CASE wbu_port_shutdown
  <2>1. UNCHANGED <<lock, irq, irqCr, nb_bytes>>
    BY <1>5 DEF wbu_port_shutdown, ring, hand
  <2>2. /\ sys \in {"close", "close_rx", "close_tx"}
        /\ sys' \in {"close_rx", "close_tx", "idle"}
    BY <1>5 DEF wbu_port_shutdown
  <2>3. sys' = "idle" /\ nb_bytes > 0 => left'
    BY <1>5, Zenon DEF wbu_port_shutdown
  <2>4. \/ cr' = [rx |-> FALSE, tx |-> sysCr.tx] /\ sysCr' = sysCr
        \/ cr' = [rx |-> sysCr.rx, tx |-> FALSE] /\ sysCr' = sysCr
        \/ cr' = cr /\ sysCr' = cr
    BY <1>5, Zenon DEF wbu_port_shutdown
  <2>5. cr' \in Enables /\ sysCr' \in Enables
    BY <2>4, EnablesClosed, Zenon
  <2> QED
    BY <2>1, <2>2, <2>3, <2>5
<1>6. ASSUME NEW f \in Files, wbu_tty_open(f) PROVE IInv'
  BY <1>6 DEF wbu_tty_open, ring, hand
<1>7. ASSUME NEW f \in Files, wbu_tty_close(f) PROVE IInv'
  BY <1>7 DEF wbu_tty_close, ring, hand
<1> QED
  BY <1>1, <1>2, <1>3, <1>4, <1>5, <1>6, <1>7, WriteInv DEF SysCall

LEMMA UartInv == Spec => []IInv
<1>1. IInv /\ [Next]_vars => IInv'
  <2>1. IInv /\ UNCHANGED vars => IInv'
    BY DEF vars, ring, hand, call, IInv, RingOK, LockOK, PlaceOK, EnablesOK, PendingOK
  <2> QED
    BY <2>1, HardwareInv, HandlerInv, SysCallInv DEF Next
<1> QED
  BY <1>1, InitInv, PTL DEF Spec

(* However the handler and write() interleave, on one CPU or two, bytes in *)
(* the ring after write() keep the transmit interrupt enabled.             *)
THEOREM UartPendingHasInterrupt == Spec => []PendingHasInterrupt
<1>1. IInv => PendingHasInterrupt
  BY DEF IInv, PendingOK, PendingHasInterrupt
<1> QED
  BY <1>1, UartInv, PTL

(* The ring holds between no byte and PAGE_SIZE: write() never overruns    *)
(* it, and the handler never sends from an empty one.                      *)
THEOREM UartRingBounded == Spec => [](RingOK /\ (irq = "send" => nb_bytes > 0))
<1>1. IInv => RingOK /\ (irq = "send" => nb_bytes > 0)
  BY DEF IInv, PlaceOK
<1> QED
  BY <1>1, UartInv, PTL

-----------------------------------------------------------------------------
(* No byte is lost, doubled or out of its place.  The bytes write() took   *)
(* and the ring no longer holds are on the line, in the transmitter or in  *)
(* its FIFO; the k-th byte of the ring is the k-th after them.             *)

Address == 0 .. (PAGE_SIZE - 1)

Slot(p, k) == (p + k - 1) % PAGE_SIZE

LineOK ==
  /\ sent \in Seq(Nat) /\ shifter \in Seq(Nat) /\ txFifo \in Seq(Nat)
  /\ accepted \in Nat /\ nb_bytes <= accepted
  /\ InOrder(sent \o shifter \o txFifo, accepted - nb_bytes)

SlotsOK ==
  /\ ptr_read \in Address
  /\ ptr_write = (ptr_read + nb_bytes) % PAGE_SIZE
  /\ xmit_buf \in [Address -> Nat]
  /\ \A k \in 1 .. nb_bytes : xmit_buf[Slot(ptr_read, k)] = accepted - nb_bytes + k

ReceivedOK ==
  /\ flip \in Seq(Nat) /\ rxFifo \in Seq(Nat) /\ rdr \in Nat /\ rxRdy \in BOOLEAN
  /\ arrived \in Nat
  /\ InOrder(flip \o (IF rxRdy THEN <<rdr>> ELSE <<>>) \o rxFifo, arrived)

BytesInv == LineOK /\ SlotsOK /\ ReceivedOK

LEMMA SizeFacts == PAGE_SIZE \in Nat /\ PAGE_SIZE >= 1 /\ MaxWrite \in Nat
  OBVIOUS

LEMMA ModIs ==
  ASSUME NEW m \in Nat, m >= 1, NEW a \in 0 .. 2*m-1
  PROVE  a % m = IF a < m THEN a ELSE a - m
<1>1. CASE a < m BY <1>1
<1>2. CASE a >= m BY <1>2
<1> QED BY <1>1, <1>2

LEMMA SlotIs ==
  ASSUME NEW p \in Address, NEW k \in 1 .. PAGE_SIZE
  PROVE  /\ Slot(p, k) = IF p + k - 1 < PAGE_SIZE THEN p + k - 1 ELSE p + k - 1 - PAGE_SIZE
         /\ Slot(p, k) \in Address
<1> DEFINE a == p + k - 1
<1>1. a \in 0 .. 2*PAGE_SIZE-1
  BY SizeFacts DEF Address
<1>2. a % PAGE_SIZE = IF a < PAGE_SIZE THEN a ELSE a - PAGE_SIZE
  <2> HIDE DEF a
  <2> QED BY <1>1, SizeFacts, ModIs
<1> QED BY <1>2, SizeFacts DEF Slot, Address

LEMMA SlotInjective ==
  ASSUME NEW p \in Address, NEW j \in 1 .. PAGE_SIZE, NEW k \in 1 .. PAGE_SIZE,
         Slot(p, j) = Slot(p, k)
  PROVE  j = k
<1>1. /\ p \in Nat /\ p < PAGE_SIZE
      /\ j \in Nat /\ 1 <= j /\ j <= PAGE_SIZE
      /\ k \in Nat /\ 1 <= k /\ k <= PAGE_SIZE
  BY SizeFacts DEF Address
<1>2. \E x \in Nat : /\ x = p + j - 1 \/ x = p + j - 1 - PAGE_SIZE
                     /\ x = p + k - 1 \/ x = p + k - 1 - PAGE_SIZE
  <2>1. /\ Slot(p, j) \in Nat
        /\ Slot(p, j) = p + j - 1 \/ Slot(p, j) = p + j - 1 - PAGE_SIZE
    BY SlotIs, SizeFacts DEF Address
  <2>2. Slot(p, j) = p + k - 1 \/ Slot(p, j) = p + k - 1 - PAGE_SIZE
    BY SlotIs
  <2> QED BY <2>1, <2>2
<1> QED BY <1>1, <1>2, SizeFacts

LEMMA BehindIs ==
  ASSUME NEW p \in Address, NEW n \in 0 .. PAGE_SIZE
  PROVE  /\ (p + n) % PAGE_SIZE = IF p + n < PAGE_SIZE THEN p + n ELSE p + n - PAGE_SIZE
         /\ (p + n) % PAGE_SIZE \in Address
<1> DEFINE a == p + n
<1>1. a \in 0 .. 2*PAGE_SIZE-1
  BY SizeFacts DEF Address
<1>2. a % PAGE_SIZE = IF a < PAGE_SIZE THEN a ELSE a - PAGE_SIZE
  <2> HIDE DEF a
  <2> QED BY <1>1, SizeFacts, ModIs
<1> QED BY <1>1, <1>2, SizeFacts DEF Address

LEMMA SlotBehind ==
  ASSUME NEW p \in Address, NEW n \in 0 .. PAGE_SIZE, NEW j \in 1 .. PAGE_SIZE,
         n + j <= PAGE_SIZE
  PROVE  Slot((p + n) % PAGE_SIZE, j) = Slot(p, n + j)
<1>1. n + j \in 1 .. PAGE_SIZE
  BY SizeFacts
<1> DEFINE w == (p + n) % PAGE_SIZE
<1>2. w \in Address /\ w = IF p + n < PAGE_SIZE THEN p + n ELSE p + n - PAGE_SIZE
  BY BehindIs
<1>3. Slot(w, j) = IF w + j - 1 < PAGE_SIZE THEN w + j - 1 ELSE w + j - 1 - PAGE_SIZE
  <2> HIDE DEF w
  <2> QED BY <1>2, SlotIs
<1>4. Slot(p, n + j) = IF p + (n + j) - 1 < PAGE_SIZE THEN p + (n + j) - 1
                       ELSE p + (n + j) - 1 - PAGE_SIZE
  BY <1>1, SlotIs
<1> HIDE DEF w
<1>5. Slot(w, j) = Slot(p, n + j)
  BY <1>2, <1>3, <1>4, SizeFacts DEF Address
<1> QED BY <1>5 DEF w

LEMMA InitBytes == Init => BytesInv
<1> SUFFICES ASSUME Init PROVE BytesInv
  OBVIOUS
<1>1. <<>> \in Seq(Nat) /\ InOrder(<<>>, 0)
  BY DEF InOrder
<1>2. <<>> \o <<>> \o <<>> = <<>>
  BY <1>1
<1>3. LineOK
  BY <1>1, <1>2 DEF Init, LineOK
<1>4. ReceivedOK
  BY <1>1, <1>2 DEF Init, ReceivedOK
<1>5. SlotsOK
  BY SizeFacts DEF Init, SlotsOK, Address
<1> QED BY <1>3, <1>4, <1>5 DEF BytesInv

(* What leaves all the bytes alone. *)
LEMMA BytesStay ==
  ASSUME BytesInv, UNCHANGED <<hw, flip, ring, accepted>>
  PROVE  BytesInv'
<1>1. LineOK'
  BY DEF BytesInv, LineOK, hw, ring
<1>2. SlotsOK'
  BY DEF BytesInv, SlotsOK, hw, ring
<1>3. ReceivedOK'
  BY DEF BytesInv, ReceivedOK, hw
<1> QED BY <1>1, <1>2, <1>3 DEF BytesInv

LEMMA LineStays ==
  ASSUME BytesInv, UNCHANGED <<txFifo, shifter, sent, ring, accepted>>
  PROVE  LineOK' /\ SlotsOK'
  BY DEF BytesInv, LineOK, SlotsOK, ring

LEMMA ReceivedStays ==
  ASSUME BytesInv, UNCHANGED <<rxFifo, rdr, rxRdy, flip, arrived>>
  PROVE  ReceivedOK'
  BY DEF BytesInv, ReceivedOK

LEMMA TransmitterBytes ==
  ASSUME BytesInv, tx_fifo_fsm \/ TxDone
  PROVE  BytesInv'
<1> USE DEF BytesInv
<1>1. UNCHANGED <<rxFifo, rdr, rxRdy, flip, arrived, ring, accepted>>
  BY DEF tx_fifo_fsm, TxDone, call
<1>2. ASSUME tx_fifo_fsm PROVE LineOK'
  <2>1. /\ shifter = <<>> /\ txFifo # <<>> /\ sent' = sent
        /\ shifter' = <<Head(txFifo)>> /\ txFifo' = Tail(txFifo)
    BY <1>2 DEF tx_fifo_fsm
  <2>2. sent \in Seq(Nat) /\ txFifo \in Seq(Nat)
    BY DEF LineOK
  <2>3. shifter' \in Seq(Nat) /\ txFifo' \in Seq(Nat) /\ shifter' \o txFifo' = txFifo
    BY <2>1, <2>2, HeadThenTail
  <2>4. (sent' \o shifter') \o txFifo' = sent \o (shifter' \o txFifo')
    BY <2>1, <2>2, <2>3, ConcatRegroups
  <2>5. (sent \o shifter) \o txFifo = sent \o txFifo
    BY <2>1, <2>2, ConcatEmptySeq
  <2> QED BY <1>1, <2>1, <2>2, <2>3, <2>4, <2>5 DEF LineOK, ring
<1>3. ASSUME TxDone PROVE LineOK'
  <2>1. sent' = sent \o shifter /\ shifter' = <<>> /\ txFifo' = txFifo
    BY <1>3 DEF TxDone
  <2>2. sent \in Seq(Nat) /\ shifter \in Seq(Nat) /\ sent' \in Seq(Nat) /\ <<>> \in Seq(Nat)
    BY <2>1, ConcatProperties DEF LineOK
  <2>3. (sent' \o shifter') \o txFifo' = (sent \o shifter) \o txFifo
    BY <2>1, <2>2, ConcatEmptySeq
  <2> QED BY <1>1, <2>1, <2>2, <2>3 DEF LineOK, ring
<1>4. LineOK'
  BY <1>2, <1>3
<1>5. SlotsOK'
  BY <1>1 DEF SlotsOK, ring
<1>6. ReceivedOK'
  BY <1>1, ReceivedStays
<1> QED BY <1>4, <1>5, <1>6

LEMMA ArrivalBytes ==
  ASSUME BytesInv, RxArrives
  PROVE  BytesInv'
<1> DEFINE held == flip \o (IF rxRdy THEN <<rdr>> ELSE <<>>)
<1>1. /\ rxFifo' = Append(rxFifo, arrived + 1) /\ arrived' = arrived + 1
      /\ UNCHANGED <<flip, rdr, rxRdy, txFifo, shifter, sent, ring, accepted>>
  BY DEF RxArrives, call
<1>2. /\ flip \in Seq(Nat) /\ rxFifo \in Seq(Nat) /\ rdr \in Nat /\ arrived \in Nat
      /\ rxRdy \in BOOLEAN
  BY DEF BytesInv, ReceivedOK
<1>3. held \in Seq(Nat)
  <2>1. (IF rxRdy THEN <<rdr>> ELSE <<>>) \in Seq(Nat)
    BY <1>2
  <2> QED BY <1>2, <2>1, ConcatProperties
<1>4. held' = held
  BY <1>1
<1>5. InOrder(held \o rxFifo, arrived) /\ held \o rxFifo \in Seq(Nat)
  BY <1>2, <1>3, ConcatProperties DEF BytesInv, ReceivedOK
<1>6. InOrder(held' \o rxFifo', arrived') /\ rxFifo' \in Seq(Nat) /\ arrived' \in Nat
  <2> HIDE DEF held
  <2> arrived + 1 \in Nat
    BY <1>2
  <2>1. held \o rxFifo' = Append(held \o rxFifo, arrived + 1)
    <3>1. held \o Append(rxFifo, arrived + 1) = Append(held \o rxFifo, arrived + 1)
      BY <1>2, <1>3, ConcatAppend
    <3> QED BY <1>1, <3>1
  <2>2. InOrder(Append(held \o rxFifo, arrived + 1), arrived + 1)
    BY <1>2, <1>5, InOrderAppend
  <2>3. rxFifo' \in Seq(Nat) /\ arrived' \in Nat
    BY <1>1, <1>2
  <2> QED BY <1>1, <1>4, <2>1, <2>2, <2>3
<1>7. ReceivedOK'
  BY <1>1, <1>2, <1>6 DEF ReceivedOK
<1> QED BY <1>1, <1>7, LineStays DEF BytesInv

LEMMA ReadBytes ==
  ASSUME BytesInv, rx_fifo_fsm \/ wbu_tty_handler_rx
  PROVE  BytesInv'
<1>1. UNCHANGED <<txFifo, shifter, sent, ring, accepted, arrived>>
  BY DEF rx_fifo_fsm, wbu_tty_handler_rx, call
<1>2. /\ flip \in Seq(Nat) /\ rxFifo \in Seq(Nat) /\ rdr \in Nat /\ arrived \in Nat
      /\ rxRdy \in BOOLEAN
      /\ InOrder((flip \o (IF rxRdy THEN <<rdr>> ELSE <<>>)) \o rxFifo, arrived)
  BY DEF BytesInv, ReceivedOK
<1>3. CASE rx_fifo_fsm
  <2>1. /\ ~rxRdy /\ rxFifo # <<>> /\ flip' = flip
        /\ rdr' = Head(rxFifo) /\ rxRdy' = TRUE /\ rxFifo' = Tail(rxFifo)
    BY <1>3 DEF rx_fifo_fsm
  <2>2. /\ rdr' \in Nat /\ <<rdr'>> \in Seq(Nat) /\ rxFifo' \in Seq(Nat)
        /\ <<rdr'>> \o rxFifo' = rxFifo
    BY <1>2, <2>1, HeadThenTail
  <2>3. (flip \o <<rdr'>>) \o rxFifo' = flip \o rxFifo
    BY <1>2, <2>2, ConcatRegroups
  <2>4. (flip \o <<>>) = flip
    BY <1>2, ConcatEmptySeq
  <2>5. InOrder(flip \o rxFifo, arrived)
    BY <1>2, <2>1, <2>4
  <2>6. InOrder((flip' \o (IF rxRdy' THEN <<rdr'>> ELSE <<>>)) \o rxFifo', arrived')
    BY <1>1, <2>1, <2>3, <2>5
  <2> QED BY <1>1, <1>2, <2>1, <2>2, <2>6, LineStays DEF BytesInv, ReceivedOK
<1>4. CASE wbu_tty_handler_rx /\ ~(rxRdy /\ max_count > 0)
  <2>1. UNCHANGED <<rxFifo, rdr, rxRdy, flip>>
    BY <1>4 DEF wbu_tty_handler_rx
  <2> QED BY <1>1, <2>1, LineStays, ReceivedStays DEF BytesInv
<1>5. CASE wbu_tty_handler_rx /\ rxRdy /\ max_count > 0
  <2>1. flip' = Append(flip, rdr) /\ rxRdy' = FALSE /\ UNCHANGED <<rxFifo, rdr>>
    BY <1>5 DEF wbu_tty_handler_rx
  <2>2. flip' = flip \o <<rdr>> /\ flip' \in Seq(Nat)
    BY <1>2, <2>1, AppendIsConcat
  <2>3. flip' \o <<>> = flip'
    BY <2>2, ConcatEmptySeq
  <2>4. InOrder(flip' \o rxFifo, arrived)
    BY <1>2, <1>5, <2>2
  <2>5. InOrder((flip' \o (IF rxRdy' THEN <<rdr'>> ELSE <<>>)) \o rxFifo', arrived')
    BY <1>1, <2>1, <2>3, <2>4
  <2> QED BY <1>1, <1>2, <2>1, <2>2, <2>5, LineStays DEF BytesInv, ReceivedOK
<1> QED BY <1>3, <1>4, <1>5

(* The oldest byte of the ring is the next of the line. *)
LEMMA SendBytes ==
  ASSUME IInv, BytesInv, wbu_tty_tx_send
  PROVE  BytesInv'
<1>1. /\ UNCHANGED <<shifter, sent, rxFifo, rdr, rxRdy, arrived, flip, xmit_buf, ptr_write>>
      /\ accepted' = accepted
  BY DEF wbu_tty_tx_send, call
<1>2. ReceivedOK'
  BY <1>1, ReceivedStays
<1>3. CASE TxBusy
  <2>1. UNCHANGED <<txFifo, ptr_read, nb_bytes>>
    BY <1>3 DEF wbu_tty_tx_send
  <2> QED BY <1>1, <1>2, <2>1, LineStays DEF BytesInv, ring
<1>4. CASE ~TxBusy
  <2>1. /\ irq = "send" /\ nb_bytes' = nb_bytes - 1 /\ ptr_read' = (ptr_read + 1) % PAGE_SIZE
        /\ txFifo' = Append(txFifo, xmit_buf[ptr_read])
    BY <1>4 DEF wbu_tty_tx_send, WriteTdr, Advance
  <2>2. nb_bytes \in 1 .. PAGE_SIZE /\ nb_bytes' \in 0 .. PAGE_SIZE - 1
    BY <2>1, SizeFacts DEF IInv, RingOK, PlaceOK
  <2>3. /\ ptr_read \in Address /\ xmit_buf \in [Address -> Nat]
        /\ ptr_write = (ptr_read + nb_bytes) % PAGE_SIZE
        /\ \A k \in 1 .. nb_bytes : xmit_buf[Slot(ptr_read, k)] = accepted - nb_bytes + k
    BY DEF BytesInv, SlotsOK
  <2>4. /\ sent \in Seq(Nat) /\ shifter \in Seq(Nat) /\ txFifo \in Seq(Nat)
        /\ sent \o shifter \in Seq(Nat) /\ (sent \o shifter) \o txFifo \in Seq(Nat)
        /\ accepted \in Nat /\ nb_bytes <= accepted
        /\ InOrder((sent \o shifter) \o txFifo, accepted - nb_bytes)
    BY ConcatProperties DEF BytesInv, LineOK
  <2> DEFINE m == accepted - nb_bytes
  <2>5. m \in Nat /\ m + 1 \in Nat /\ m + 1 = accepted - nb_bytes'
    BY <2>1, <2>2, <2>4
  <2>6. xmit_buf[ptr_read] = m + 1
    <3>1. 1 \in 1 .. nb_bytes /\ 1 \in 1 .. PAGE_SIZE
      BY <2>2, SizeFacts
    <3>2. Slot(ptr_read, 1) = ptr_read
      BY <2>3, <3>1, SlotIs, SizeFacts DEF Address
    <3> QED BY <2>3, <3>1, <3>2
  <2> HIDE DEF m
  <2>7. LineOK'
    <3>1. txFifo' = Append(txFifo, m + 1) /\ txFifo' \in Seq(Nat)
      BY <2>1, <2>4, <2>5, <2>6
    <3>2. (sent \o shifter) \o Append(txFifo, m + 1) = Append((sent \o shifter) \o txFifo, m + 1)
      BY <2>4, <2>5, ConcatAppend, ZenonT(30)
    <3>3. InOrder(Append((sent \o shifter) \o txFifo, m + 1), m + 1)
      BY <2>4, <2>5, InOrderAppend DEF m
    <3>4. InOrder((sent' \o shifter') \o txFifo', accepted' - nb_bytes')
      BY <1>1, <2>5, <3>1, <3>2, <3>3
    <3>5. nb_bytes' <= accepted' /\ accepted' \in Nat
      BY <1>1, <2>1, <2>2, <2>4
    <3> QED BY <1>1, <2>4, <3>1, <3>4, <3>5 DEF LineOK
  <2>8. SlotsOK'
    <3>1. 1 \in 0 .. PAGE_SIZE
      BY SizeFacts
    <3>2. ptr_read' \in Address
      BY <2>1, <2>3, <3>1, BehindIs
    <3>3. ASSUME NEW k \in 1 .. nb_bytes'
          PROVE  xmit_buf'[Slot(ptr_read', k)] = accepted' - nb_bytes' + k
      <4>1. k \in 1 .. PAGE_SIZE /\ 1 + k <= PAGE_SIZE /\ 1 + k \in 1 .. nb_bytes
        BY <2>1, <2>2, SizeFacts
      <4>2. Slot(ptr_read', k) = Slot(ptr_read, 1 + k)
        BY <2>1, <2>3, <3>1, <4>1, SlotBehind
      <4>3. xmit_buf[Slot(ptr_read, 1 + k)] = accepted - nb_bytes + (1 + k)
        BY <2>3, <4>1
      <4>4. accepted - nb_bytes + (1 + k) = accepted' - nb_bytes' + k
        <5>1. accepted' = accepted /\ nb_bytes' = nb_bytes - 1
          BY <1>1, <2>1
        <5>2. accepted \in Nat /\ nb_bytes \in Nat /\ k \in Nat
          BY <2>2, <2>4, <4>1, SizeFacts
        <5> QED BY <5>1, <5>2
      <4> QED BY <1>1, <4>2, <4>3, <4>4
    <3>4. ptr_write' = (ptr_read' + nb_bytes') % PAGE_SIZE
      <4>1. /\ (ptr_read + nb_bytes) % PAGE_SIZE
                 = IF ptr_read + nb_bytes < PAGE_SIZE THEN ptr_read + nb_bytes
                   ELSE ptr_read + nb_bytes - PAGE_SIZE
            /\ (ptr_read + 1) % PAGE_SIZE
                 = IF ptr_read + 1 < PAGE_SIZE THEN ptr_read + 1 ELSE ptr_read + 1 - PAGE_SIZE
        BY <2>2, <2>3, <3>1, BehindIs, SizeFacts
      <4>2. (ptr_read' + nb_bytes') % PAGE_SIZE
              = IF ptr_read' + nb_bytes' < PAGE_SIZE THEN ptr_read' + nb_bytes'
                ELSE ptr_read' + nb_bytes' - PAGE_SIZE
        BY <2>2, <3>2, BehindIs, SizeFacts
      <4>3. /\ ptr_read \in Nat /\ ptr_read < PAGE_SIZE
            /\ nb_bytes \in Nat /\ 1 <= nb_bytes /\ nb_bytes <= PAGE_SIZE
        BY <2>2, <2>3, SizeFacts DEF Address
      <4>4. CASE ptr_read + 1 < PAGE_SIZE
        <5>1. ptr_read' = ptr_read + 1 /\ ptr_read' + nb_bytes' = ptr_read + nb_bytes
          BY <2>1, <4>1, <4>3, <4>4
        <5> QED BY <1>1, <2>3, <5>1
      <4>5. CASE ptr_read + 1 >= PAGE_SIZE
        <5>1. ptr_read' = 0 /\ ptr_read = PAGE_SIZE - 1
          BY <2>1, <4>1, <4>3, <4>5, SizeFacts
        <5>2. (ptr_read + nb_bytes) % PAGE_SIZE = nb_bytes - 1
          BY <4>1, <4>3, <5>1, SizeFacts
        <5>3. (ptr_read' + nb_bytes') % PAGE_SIZE = nb_bytes - 1
          BY <2>1, <4>2, <4>3, <5>1, SizeFacts
        <5> QED BY <1>1, <2>3, <5>2, <5>3
      <4> QED BY <4>3, <4>4, <4>5, SizeFacts
    <3> QED BY <1>1, <2>3, <3>2, <3>3, <3>4 DEF SlotsOK
  <2> QED BY <1>2, <2>7, <2>8 DEF BytesInv
<1> QED BY <1>3, <1>4

(* write() fills the slots behind the last byte, which none holds yet. *)
LEMMA WriteBytes ==
  ASSUME IInv, BytesInv, wbu_tty_write
  PROVE  BytesInv'
<1>1. UNCHANGED <<txFifo, shifter, sent, rxFifo, rdr, rxRdy, arrived, flip, ptr_read>>
  BY DEF wbu_tty_write, hw
<1>2. ReceivedOK'
  BY <1>1, ReceivedStays
<1>3. PICK n \in 0 .. PAGE_SIZE - nb_bytes :
        /\ xmit_buf' = [p \in DOMAIN xmit_buf |->
                          IF \E k \in 1 .. n : Slot(ptr_write, k) = p
                          THEN accepted + CHOOSE k \in 1 .. n : Slot(ptr_write, k) = p
                          ELSE xmit_buf[p]]
        /\ ptr_write' = (ptr_write + n) % PAGE_SIZE
        /\ nb_bytes' = nb_bytes + n /\ accepted' = accepted + n
  <2>1. nb_bytes \in 0 .. PAGE_SIZE
    BY DEF IInv, RingOK
  <2>2. PICK count \in 1 .. MaxWrite :
          LET room == PAGE_SIZE - nb_bytes
              n    == IF count <= room THEN count ELSE room
          IN  /\ xmit_buf' = [p \in DOMAIN xmit_buf |->
                                IF \E k \in 1 .. n : Slot(ptr_write, k) = p
                                THEN accepted + CHOOSE k \in 1 .. n : Slot(ptr_write, k) = p
                                ELSE xmit_buf[p]]
              /\ ptr_write' = (ptr_write + n) % PAGE_SIZE
              /\ nb_bytes' = nb_bytes + n /\ accepted' = accepted + n
    BY Zenon DEF wbu_tty_write, Slot
  <2> DEFINE n == IF count <= PAGE_SIZE - nb_bytes THEN count ELSE PAGE_SIZE - nb_bytes
  <2>3. n \in 0 .. PAGE_SIZE - nb_bytes
    BY <2>1, SizeFacts
  <2>4. /\ xmit_buf' = [p \in DOMAIN xmit_buf |->
                          IF \E k \in 1 .. n : Slot(ptr_write, k) = p
                          THEN accepted + CHOOSE k \in 1 .. n : Slot(ptr_write, k) = p
                          ELSE xmit_buf[p]]
        /\ ptr_write' = (ptr_write + n) % PAGE_SIZE
        /\ nb_bytes' = nb_bytes + n /\ accepted' = accepted + n
    BY <2>2, Zenon
  <2> HIDE DEF n
  <2> QED BY <2>3, <2>4, Zenon
<1>4. /\ ptr_read \in Address /\ xmit_buf \in [Address -> Nat]
      /\ ptr_write = (ptr_read + nb_bytes) % PAGE_SIZE
      /\ \A k \in 1 .. nb_bytes : xmit_buf[Slot(ptr_read, k)] = accepted - nb_bytes + k
  BY DEF BytesInv, SlotsOK
<1>5. /\ nb_bytes \in 0 .. PAGE_SIZE /\ accepted \in Nat /\ nb_bytes <= accepted
      /\ nb_bytes + n \in 0 .. PAGE_SIZE /\ n \in Nat
  BY SizeFacts DEF IInv, RingOK, BytesInv, LineOK
<1>6. accepted' - nb_bytes' = accepted - nb_bytes /\ nb_bytes' <= accepted' /\ accepted' \in Nat
  BY <1>3, <1>5
<1>7. LineOK'
  BY <1>1, <1>6 DEF BytesInv, LineOK
<1>8. ptr_write \in Address /\ ptr_write' = (ptr_read + nb_bytes') % PAGE_SIZE
  <2>1. ptr_write \in Address
    BY <1>4, <1>5, BehindIs
  <2>2. /\ ptr_write = IF ptr_read + nb_bytes < PAGE_SIZE THEN ptr_read + nb_bytes
                       ELSE ptr_read + nb_bytes - PAGE_SIZE
        /\ (ptr_read + (nb_bytes + n)) % PAGE_SIZE
             = IF ptr_read + (nb_bytes + n) < PAGE_SIZE THEN ptr_read + (nb_bytes + n)
               ELSE ptr_read + (nb_bytes + n) - PAGE_SIZE
    BY <1>4, <1>5, BehindIs
  <2>3. n \in 0 .. PAGE_SIZE
    BY <1>5, SizeFacts
  <2>4. (ptr_write + n) % PAGE_SIZE
          = IF ptr_write + n < PAGE_SIZE THEN ptr_write + n ELSE ptr_write + n - PAGE_SIZE
    BY <2>1, <2>3, BehindIs
  <2>5. ptr_read \in Nat /\ ptr_read < PAGE_SIZE
    BY <1>4, SizeFacts DEF Address
  <2>6. (ptr_write + n) % PAGE_SIZE = (ptr_read + (nb_bytes + n)) % PAGE_SIZE
    <3>1. CASE ptr_read + nb_bytes < PAGE_SIZE
      <4>1. ptr_write = ptr_read + nb_bytes
        BY <2>2, <3>1
      <4>2. ptr_write + n = ptr_read + (nb_bytes + n)
        BY <1>5, <2>5, <4>1
      <4> QED BY <4>2
    <3>2. CASE ptr_read + nb_bytes >= PAGE_SIZE
      <4>1. ptr_write = ptr_read + nb_bytes - PAGE_SIZE
        BY <1>5, <2>2, <2>5, <3>2, SizeFacts
      <4>2. /\ ~(ptr_read + (nb_bytes + n) < PAGE_SIZE)
            /\ ptr_write + n = ptr_read + (nb_bytes + n) - PAGE_SIZE
            /\ ptr_write + n < PAGE_SIZE
        BY <1>5, <2>5, <3>2, <4>1, SizeFacts
      <4> QED BY <2>2, <2>4, <4>2
    <3> QED BY <1>5, <2>5, <3>1, <3>2, SizeFacts
  <2> QED BY <1>3, <2>1, <2>6
<1>9. ASSUME NEW j \in 1 .. n PROVE xmit_buf'[Slot(ptr_write, j)] = accepted + j
  <2>1. j \in 1 .. PAGE_SIZE /\ \A k \in 1 .. n : k \in 1 .. PAGE_SIZE
    BY <1>5, SizeFacts
  <2>2. Slot(ptr_write, j) \in DOMAIN xmit_buf
    BY <1>4, <1>8, <2>1, SlotIs
  <2>3. \A k \in 1 .. n : Slot(ptr_write, k) = Slot(ptr_write, j) => k = j
    BY <1>8, <2>1, SlotInjective
  <2>4. (CHOOSE k \in 1 .. n : Slot(ptr_write, k) = Slot(ptr_write, j)) = j
    BY <2>3
  <2>5. xmit_buf'[Slot(ptr_write, j)]
          = accepted + CHOOSE k \in 1 .. n : Slot(ptr_write, k) = Slot(ptr_write, j)
    BY <1>3, <2>2, Zenon
  <2> QED BY <2>4, <2>5
<1>10. ASSUME NEW k \in 1 .. nb_bytes'
       PROVE  xmit_buf'[Slot(ptr_read', k)] = accepted' - nb_bytes' + k
  <2>1. k \in 1 .. PAGE_SIZE /\ k \in Nat
    BY <1>3, <1>5, SizeFacts
  <2>2. Slot(ptr_read, k) \in DOMAIN xmit_buf
    BY <1>4, <2>1, SlotIs
  <2>3. ASSUME NEW j \in 1 .. n
        PROVE  j \in 1 .. PAGE_SIZE /\ nb_bytes + j \in 1 .. PAGE_SIZE
               /\ Slot(ptr_write, j) = Slot(ptr_read, nb_bytes + j)
    <3>1. j \in 1 .. PAGE_SIZE /\ nb_bytes + j \in 1 .. PAGE_SIZE /\ nb_bytes + j <= PAGE_SIZE
      BY <1>5, SizeFacts
    <3> QED BY <1>4, <1>5, <3>1, SlotBehind
  <2>4. CASE k <= nb_bytes
    <3>1. \A j \in 1 .. n : Slot(ptr_write, j) # Slot(ptr_read, k)
      <4> SUFFICES ASSUME NEW j \in 1 .. n, Slot(ptr_write, j) = Slot(ptr_read, k)
                   PROVE  FALSE
        OBVIOUS
      <4>1. nb_bytes + j = k
        BY <1>4, <2>1, <2>3, SlotInjective
      <4> QED BY <1>5, <2>1, <2>4, <4>1
    <3>2. xmit_buf'[Slot(ptr_read, k)] = xmit_buf[Slot(ptr_read, k)]
      BY <1>3, <2>2, <3>1, Zenon
    <3>3. k \in 1 .. nb_bytes
      BY <1>5, <2>4
    <3> QED BY <1>1, <1>4, <1>6, <3>2, <3>3
  <2>5. CASE k > nb_bytes
    <3> DEFINE j == k - nb_bytes
    <3>1. j \in 1 .. n /\ nb_bytes + j = k /\ accepted + j = accepted - nb_bytes + k
      BY <1>3, <1>5, <2>1, <2>5
    <3> HIDE DEF j
    <3>2. Slot(ptr_write, j) = Slot(ptr_read, k)
      BY <2>3, <3>1
    <3>3. xmit_buf'[Slot(ptr_write, j)] = accepted + j
      BY <1>9, <3>1
    <3> QED BY <1>1, <1>6, <3>1, <3>2, <3>3
  <2> QED BY <1>5, <2>1, <2>4, <2>5
<1>11. xmit_buf' \in [Address -> Nat]
  <2>1. ASSUME NEW p \in Address PROVE xmit_buf'[p] \in Nat
    <3>1. p \in DOMAIN xmit_buf
      BY <1>4
    <3>2. CASE \E k \in 1 .. n : Slot(ptr_write, k) = p
      <4>1. PICK j \in 1 .. n : Slot(ptr_write, j) = p
        BY <3>2
      <4> QED BY <1>5, <1>9, <4>1
    <3>3. CASE ~ \E k \in 1 .. n : Slot(ptr_write, k) = p
      <4>1. xmit_buf'[p] = xmit_buf[p]
        BY <1>3, <3>1, <3>3, Zenon
      <4> QED BY <1>4, <4>1
    <3> QED BY <3>2, <3>3
  <2>2. DOMAIN xmit_buf' = Address /\ xmit_buf' = [p \in DOMAIN xmit_buf' |-> xmit_buf'[p]]
    BY <1>3, <1>4
  <2> QED BY <2>1, <2>2
<1>12. SlotsOK'
  BY <1>1, <1>4, <1>8, <1>10, <1>11 DEF SlotsOK
<1> QED BY <1>2, <1>7, <1>12 DEF BytesInv

LEMMA OtherHandlerBytes ==
  ASSUME BytesInv,
         \/ \E cpu \in {"same", "other"} : wbu_tty_handler(cpu)
         \/ wbu_tty_handler_tx \/ HandlerSent \/ wbu_disable_tx_interrupts
  PROVE  BytesInv'
<1>1. UNCHANGED <<hw, flip, ring, accepted>>
  BY DEF wbu_tty_handler, wbu_tty_handler_tx, HandlerSent, wbu_disable_tx_interrupts, call
<1> QED BY <1>1, BytesStay

LEMMA OtherCallBytes ==
  ASSUME BytesInv,
         \/ WriteUnlock \/ WriteCheck \/ wbu_enable_tx_interrupts
         \/ wbu_port_activate \/ wbu_port_shutdown
         \/ \E f \in Files : wbu_tty_open(f) \/ wbu_tty_close(f)
  PROVE  BytesInv'
<1>1. UNCHANGED <<hw, flip, ring, accepted>>
  BY Zenon DEF WriteUnlock, WriteCheck, wbu_enable_tx_interrupts, wbu_port_activate,
         wbu_port_shutdown, wbu_tty_open, wbu_tty_close
<1> QED BY <1>1, BytesStay

LEMMA UartBytes == Spec => []BytesInv
<1>1. IInv /\ BytesInv /\ [Next]_vars => BytesInv'
  <2> SUFFICES ASSUME IInv, BytesInv, [Next]_vars PROVE BytesInv'
    OBVIOUS
  <2>1. CASE Hardware
    BY <2>1, TransmitterBytes, ArrivalBytes, ReadBytes DEF Hardware
  <2>2. CASE Handler
    BY <2>2, ReadBytes, SendBytes, OtherHandlerBytes DEF Handler
  <2>3. CASE SysCall
    BY <2>3, WriteBytes, OtherCallBytes DEF SysCall
  <2>4. CASE UNCHANGED vars
    <3>1. UNCHANGED <<hw, flip, ring, accepted>>
      BY <2>4 DEF vars, call
    <3> QED BY <3>1, BytesStay
  <2> QED BY <2>1, <2>2, <2>3, <2>4 DEF Next
<1> QED BY <1>1, InitBytes, UartInv, PTL DEF Spec

(* The line and the ring together are what write() accepted. *)
LEMMA LineThenRing ==
  ASSUME IInv, BytesInv
  PROVE  InOrder(sent \o shifter \o txFifo \o Ring, accepted)
<1> DEFINE line == sent \o shifter \o txFifo
           m == accepted - nb_bytes
<1>1. nb_bytes \in 0 .. PAGE_SIZE /\ accepted \in Nat /\ m \in Nat /\ accepted = m + nb_bytes
  BY SizeFacts DEF IInv, RingOK, BytesInv, LineOK
<1>2. line \in Seq(Nat) /\ InOrder(line, m)
  <2>1. sent \o shifter \in Seq(Nat)
    BY ConcatProperties DEF BytesInv, LineOK
  <2> QED BY <2>1, ConcatProperties DEF BytesInv, LineOK
<1>3. /\ Len(line) = m /\ \A k \in 1 .. m : line[k] = k
  <2> HIDE DEF line, m
  <2> QED BY <1>1, <1>2, InOrderType
<1>4. Ring \in Seq(Nat) /\ Len(Ring) = nb_bytes /\ \A k \in 1 .. nb_bytes : Ring[k] = m + k
  <2>1. \A k \in 1 .. nb_bytes : xmit_buf[Slot(ptr_read, k)] = m + k
    BY DEF BytesInv, SlotsOK
  <2>2. Ring = [k \in 1 .. nb_bytes |-> xmit_buf[Slot(ptr_read, k)]]
    BY DEF Ring, Slot
  <2> HIDE DEF m
  <2>3. \A k \in 1 .. nb_bytes : Ring[k] = m + k
    BY <2>1, <2>2
  <2>4. \A k \in 1 .. nb_bytes : xmit_buf[Slot(ptr_read, k)] \in Nat
    BY <1>1, <2>1
  <2>5. Ring \in Seq(Nat) /\ Len(Ring) = nb_bytes
    BY <1>1, <2>2, <2>4
  <2> QED BY <2>3, <2>5
<1> HIDE DEF line, m
<1>5. line \o Ring \in Seq(Nat) /\ Len(line \o Ring) = accepted
  BY <1>1, <1>2, <1>3, <1>4, ConcatProperties
<1>6. ASSUME NEW k \in 1 .. accepted PROVE (line \o Ring)[k] = k
  <2>1. (line \o Ring)[k] = IF k <= m THEN line[k] ELSE Ring[k - m]
    <3>1. line \in Seq(Nat) /\ Ring \in Seq(Nat) /\ Len(line) = m /\ Len(Ring) = nb_bytes
      BY <1>2, <1>3, <1>4
    <3>2. k \in 1 .. m + nb_bytes
      BY <1>1
    <3> QED BY <3>1, <3>2, ConcatProperties
  <2>2. CASE k <= m
    BY <1>1, <1>3, <2>1, <2>2
  <2>3. CASE k > m
    <3> DEFINE j == k - m
    <3>1. j \in 1 .. nb_bytes /\ m + j = k
      BY <1>1, <2>3
    <3>2. (line \o Ring)[k] = Ring[j]
      BY <1>1, <2>1, <2>3
    <3> HIDE DEF j
    <3> QED BY <1>4, <3>1, <3>2
  <2>4. k <= m \/ k > m
    BY <1>1
  <2> QED BY <2>2, <2>3, <2>4, Zenon
<1>7. InOrder(line \o Ring, accepted)
  BY <1>1, <1>5, <1>6, InOrderType
<1> QED BY <1>7 DEF line

(* Every byte write() accepted is once on its way, in its place, and every *)
(* byte received is once handed to the tty or waits for it, however the    *)
(* handler, the system calls and the UART interleave, whatever the sizes   *)
(* of ring, FIFOs and bursts and the number of CPUs.                       *)
THEOREM UartBytesInOrder == Spec => []BytesOnceInOrder
<1>1. IInv /\ BytesInv => BytesOnceInOrder
  BY LineThenRing DEF BytesOnceInOrder, BytesInv, ReceivedOK
<1> QED BY <1>1, UartInv, UartBytes, PTL

-----------------------------------------------------------------------------
(* The enables follow the opens.  open_count counts the files; a call that *)
(* will write back the receive enable it read finds it unchanged, for on   *)
(* one CPU only the handler runs in between, to its end.                   *)

Users == {f \in Files : file[f] # "none"}

SomeOpen == \E f \in Files : file[f] = "open"

FilesOK ==
  /\ file \in [Files -> {"none", "busy", "open"}]
  /\ IsFiniteSet(Users) /\ open_count = Cardinality(Users)
  /\ sys \in {"activate", "copied", "check", "on"} => SomeOpen
  /\ sys \in {"close", "close_rx", "close_tx"} => Users = {}

OneCpuOK ==
  ~smp => /\ irq # "out" => irqCpu = "same"
          /\ irq = "off" => irqCr = cr
          /\ sys \in {"on", "close_tx"} => sysCr.rx = cr.rx
          /\ sys \in {"idle", "copied", "check", "on"} /\ SomeOpen => cr.rx
          /\ sys \in {"close_rx", "close_tx"} => ~cr.rx
          /\ sys = "idle" /\ Users = {} => ~cr.rx /\ ~cr.tx

PortInv == FilesOK /\ OneCpuOK

LEMMA InitPort == Init => PortInv
<1> SUFFICES ASSUME Init PROVE PortInv
  OBVIOUS
<1>1. Users = {} /\ ~SomeOpen
  BY DEF Init, Users, SomeOpen
<1>2. IsFiniteSet(Users) /\ Cardinality(Users) = 0
  BY <1>1, FS_EmptySet
<1>3. FilesOK
  BY <1>1, <1>2 DEF Init, FilesOK
<1>4. OneCpuOK
  BY <1>1 DEF Init, OneCpuOK
<1> QED BY <1>3, <1>4 DEF PortInv

(* The files and who may use them are the same, and so is the call. *)
LEMMA FilesStay ==
  ASSUME FilesOK, UNCHANGED <<tty, sys>>
  PROVE  FilesOK'
<1>1. UNCHANGED <<file, open_count, sys>>
  BY DEF tty
<1> QED BY <1>1 DEF FilesOK, Users, SomeOpen

LEMMA HandlerPort ==
  ASSUME IInv, PortInv, Hardware \/ Handler
  PROVE  PortInv'
<1>1. UNCHANGED <<smp, file, open_count, sys, sysCr>>
  <2>1. Hardware => UNCHANGED <<smp, file, open_count, sys, sysCr>>
    BY DEF Hardware, tx_fifo_fsm, TxDone, RxArrives, rx_fifo_fsm, tty, call
  <2>2. Handler => UNCHANGED <<smp, file, open_count, sys, sysCr>>
    BY Zenon DEF Handler, wbu_tty_handler, wbu_tty_handler_rx, wbu_tty_handler_tx,
       wbu_tty_tx_send, HandlerSent, wbu_disable_tx_interrupts, tty, call
  <2> QED BY <2>1, <2>2
<1>2. FilesOK'
  BY <1>1, FilesStay DEF PortInv, tty
<1>3. (Users' = Users) /\ (SomeOpen' <=> SomeOpen)
  BY <1>1 DEF Users, SomeOpen
<1>4. ~smp => /\ irq' # "out" => irqCpu' = "same"
              /\ irq' = "off" => irqCr' = cr'
              /\ cr'.rx = cr.rx /\ (cr'.tx = cr.tx \/ cr'.tx = FALSE)
  <2>1. CASE Hardware
    BY <2>1 DEF Hardware, tx_fifo_fsm, TxDone, RxArrives, rx_fifo_fsm, hand, PortInv, OneCpuOK
  <2>2. CASE \E cpu \in {"same", "other"} : wbu_tty_handler(cpu)
    BY <2>2 DEF wbu_tty_handler
  <2>3. CASE wbu_tty_handler_rx
    BY <2>3 DEF wbu_tty_handler_rx, PortInv, OneCpuOK
  <2>4. CASE wbu_tty_handler_tx
    BY <2>4 DEF wbu_tty_handler_tx, PortInv, OneCpuOK
  <2>5. CASE wbu_tty_tx_send
    <3>1. irq = "send" /\ irq' \in {"send", "sent"} /\ UNCHANGED <<irqCpu, cr>>
      BY <2>5, Zenon DEF wbu_tty_tx_send
    <3> QED BY <3>1 DEF PortInv, OneCpuOK
  <2>6. CASE HandlerSent
    BY <2>6 DEF HandlerSent, PortInv, OneCpuOK
  <2>7. CASE wbu_disable_tx_interrupts
    BY <2>7 DEF wbu_disable_tx_interrupts, PortInv, OneCpuOK
  <2> QED BY <2>1, <2>2, <2>3, <2>4, <2>5, <2>6, <2>7 DEF Handler
<1>5. OneCpuOK'
  BY <1>1, <1>3, <1>4 DEF PortInv, OneCpuOK
<1> QED BY <1>2, <1>5 DEF PortInv

(* The calls that leave the files alone. *)
LEMMA SysCallPort ==
  ASSUME IInv, PortInv,
         \/ wbu_tty_write \/ WriteUnlock \/ WriteCheck \/ wbu_enable_tx_interrupts
         \/ wbu_port_activate \/ wbu_port_shutdown
  PROVE  PortInv'
<1>1. UNCHANGED <<smp, file, open_count, hand>> /\ (~smp => irq = "out")
  <2>1. UNCHANGED <<smp, file, open_count, hand>>
    BY Zenon DEF wbu_tty_write, WriteUnlock, WriteCheck, wbu_enable_tx_interrupts,
       wbu_port_activate, wbu_port_shutdown, tty
  <2>2. irq = "out" \/ irqCpu # "same"
    BY Zenon DEF wbu_tty_write, WriteUnlock, WriteCheck, wbu_enable_tx_interrupts,
       wbu_port_activate, wbu_port_shutdown, Runs
  <2> QED BY <2>1, <2>2 DEF PortInv, OneCpuOK
<1>2. (Users' = Users) /\ (SomeOpen' <=> SomeOpen) /\ (SomeOpen => Users # {})
  BY <1>1 DEF Users, SomeOpen
<1>3. \/ sys = "idle" /\ SomeOpen /\ sys' = "copied" /\ UNCHANGED <<cr, sysCr>>
      \/ sys = "copied" /\ sys' = "check" /\ UNCHANGED <<cr, sysCr>>
      \/ sys = "check" /\ sys' = "on" /\ sysCr' = cr /\ cr' = cr
      \/ sys = "check" /\ sys' = "idle" /\ cr' = cr
      \/ sys = "on" /\ sys' = "idle" /\ cr' = [rx |-> sysCr.rx, tx |-> TRUE]
      \/ sys = "activate" /\ sys' = "idle" /\ cr' = [rx |-> TRUE, tx |-> sysCr.tx]
      \/ sys = "close" /\ sys' = "close_rx" /\ cr' = [rx |-> FALSE, tx |-> sysCr.tx]
      \/ sys = "close_rx" /\ sys' = "close_tx" /\ sysCr' = cr /\ cr' = cr
      \/ sys = "close_tx" /\ sys' = "idle" /\ cr' = [rx |-> sysCr.rx, tx |-> FALSE]
  BY Zenon DEF wbu_tty_write, WriteUnlock, WriteCheck, wbu_enable_tx_interrupts,
     wbu_port_activate, wbu_port_shutdown, Runs, SomeOpen
<1>4. FilesOK'
  BY <1>1, <1>2, <1>3 DEF PortInv, FilesOK
<1>5. OneCpuOK'
  BY <1>1, <1>2, <1>3 DEF PortInv, FilesOK, OneCpuOK, hand
<1> QED BY <1>4, <1>5 DEF PortInv

LEMMA OpenPort ==
  ASSUME IInv, PortInv, NEW f \in Files, wbu_tty_open(f)
  PROVE  PortInv'
<1>1. /\ sys = "idle" /\ file[f] = "none" /\ (~smp => irq = "out")
      /\ open_count' = open_count + 1 /\ UNCHANGED <<smp, cr, irq, irqCpu, irqCr>>
  BY DEF wbu_tty_open, Runs, hand, PortInv, OneCpuOK
<1>2. \/ /\ open_count > 0 /\ file' = [file EXCEPT ![f] = "busy"] /\ sys' = "idle"
      \/ /\ ~(open_count > 0) /\ file' = [file EXCEPT ![f] = "open"] /\ sys' = "activate"
  BY Zenon DEF wbu_tty_open, Runs
<1>3. /\ file \in [Files -> {"none", "busy", "open"}]
      /\ IsFiniteSet(Users) /\ open_count = Cardinality(Users) /\ f \notin Users
  BY <1>1 DEF PortInv, FilesOK, Users
<1>4. file' \in [Files -> {"none", "busy", "open"}] /\ Users' = Users \cup {f}
  BY <1>2, <1>3 DEF Users
<1>5. IsFiniteSet(Users') /\ open_count' = Cardinality(Users')
  <2>1. IsFiniteSet(Users \cup {f}) /\ Cardinality(Users \cup {f}) = Cardinality(Users) + 1
    BY <1>3, FS_AddElement
  <2> QED BY <1>1, <1>3, <1>4, <2>1
<1>6. sys' = "activate" => SomeOpen'
  BY <1>2, <1>3 DEF SomeOpen
<1>7. sys' = "idle" => (SomeOpen' => SomeOpen)
  BY <1>2, <1>3 DEF SomeOpen
<1>8. sys' \in {"idle", "activate"} /\ Users' # {}
  BY <1>2, <1>4
<1>9. FilesOK'
  BY <1>4, <1>5, <1>6, <1>8 DEF FilesOK
<1>10. OneCpuOK'
  BY <1>1, <1>7, <1>8 DEF PortInv, OneCpuOK
<1> QED BY <1>9, <1>10 DEF PortInv

LEMMA ClosePort ==
  ASSUME IInv, PortInv, NEW f \in Files, wbu_tty_close(f)
  PROVE  PortInv'
<1>1. /\ sys = "idle" /\ file[f] # "none" /\ (~smp => irq = "out")
      /\ file' = [file EXCEPT ![f] = "none"]
      /\ open_count' = open_count - 1 /\ UNCHANGED <<smp, cr, irq, irqCpu, irqCr>>
  BY DEF wbu_tty_close, Runs, hand, PortInv, OneCpuOK
<1>2. \/ open_count = 1 /\ sys' = "close"
      \/ open_count # 1 /\ sys' = "idle"
  BY Zenon DEF wbu_tty_close, Runs
<1>3. /\ file \in [Files -> {"none", "busy", "open"}]
      /\ IsFiniteSet(Users) /\ open_count = Cardinality(Users) /\ f \in Users
  BY <1>1 DEF PortInv, FilesOK, Users
<1>4. /\ file' \in [Files -> {"none", "busy", "open"}]
      /\ Users' = Users \ {f} /\ (SomeOpen' => SomeOpen)
  BY <1>1, <1>3 DEF Users, SomeOpen
<1>5. /\ IsFiniteSet(Users') /\ open_count' = Cardinality(Users')
      /\ (open_count = 1 <=> Users' = {})
  <2>1. IsFiniteSet(Users \ {f}) /\ Cardinality(Users \ {f}) = Cardinality(Users) - 1
    BY <1>3, FS_RemoveElement
  <2>2. Cardinality(Users) \in Nat
    BY <1>3, FS_CardinalityType
  <2>3. Cardinality(Users \ {f}) = 0 <=> Users \ {f} = {}
    BY <2>1, FS_EmptySet
  <2> QED BY <1>1, <1>3, <1>4, <2>1, <2>2, <2>3
<1>6. FilesOK'
  BY <1>2, <1>4, <1>5 DEF FilesOK
<1>7. OneCpuOK'
  BY <1>1, <1>2, <1>4, <1>5 DEF PortInv, OneCpuOK
<1> QED BY <1>6, <1>7 DEF PortInv

LEMMA UartPort == Spec => []PortInv
<1>1. IInv /\ PortInv /\ [Next]_vars => PortInv'
  <2> SUFFICES ASSUME IInv, PortInv, [Next]_vars PROVE PortInv'
    OBVIOUS
  <2>1. CASE Hardware \/ Handler
    BY <2>1, HandlerPort
  <2>2. CASE SysCall
    BY <2>2, SysCallPort, OpenPort, ClosePort DEF SysCall
  <2>3. CASE UNCHANGED vars
    <3>1. FilesOK' /\ (Users' = Users) /\ (SomeOpen' <=> SomeOpen)
      BY <2>3, FilesStay DEF vars, tty, call, PortInv, Users, SomeOpen
    <3> QED BY <2>3, <3>1 DEF vars, hand, call, PortInv, OneCpuOK
  <2> QED BY <2>1, <2>2, <2>3 DEF Next
<1> QED BY <1>1, InitPort, UartInv, PTL DEF Spec

(* On one CPU, between calls and out of the handler, the receive interrupt *)
(* is enabled while the port is open, and no interrupt when it is closed,  *)
(* however many files were opened, refused and closed, and wherever the    *)
(* handler broke into the calls' reads and writes of the register CR.      *)
THEOREM UartControlFollowsPort == Spec => []ControlFollowsPort
<1>1. PortInv => ControlFollowsPort
  BY DEF PortInv, OneCpuOK, ControlFollowsPort, Users, SomeOpen
<1> QED BY <1>1, UartPort, PTL

-----------------------------------------------------------------------------
(* THE INTERRUPT CONTROLLER AND ITS DRIVER                                 *)

(* The vector is fetched in two clocks, so it is current only because no   *)
(* write of the table is under way in either.                              *)
Fetch ==
  /\ enable => access.reg # "IVT"
  /\ enable /\ state = "PROCESS_IRQ" => data_int = vector_table[current_irq]

VicInv == Fetch /\ VectorIsCurrent

LEMMA VicStart == VicInit => VicInv
BY DEF VicInit, Cleared, VicInv, Fetch, VectorIsCurrent

(* With the controller enabled, the table and its reader keep step. *)
LEMMA TableKept ==
  ASSUME NEW a, Bus(a), enable, enable => access.reg # "IVT"
  PROVE  vector_table' = vector_table
BY DEF Bus

LEMMA NoTableWrite ==
  ASSUME NEW a, Bus(a), HostRule(a)
  PROVE  (enable => access.reg # "IVT")'
BY DEF Bus, HostRule

LEMMA VicStep ==
  ASSUME VicInv, [VicNext]_vicVars
  PROVE  VicInv'
<1>1. CASE UNCHANGED vicVars
  BY <1>1 DEF vicVars, regs, fsm, VicInv, Fetch, VectorIsCurrent
<1>2. ASSUME NEW a \in Accesses, HostRule(a), Clock(a)
      PROVE  VicInv'
  <2>1. Bus(a) /\ data_int' = vector_table[current_irq]
    BY <1>2 DEF Clock
  <2>2. (enable => access.reg # "IVT")'
    BY <1>2, <2>1, NoTableWrite
  <2>3. enable => vector_table' = vector_table
    BY <2>1, TableKept DEF VicInv, Fetch
  <2>4. CASE Disabled
    BY <2>2, <2>4 DEF Disabled, VicInv, Fetch, VectorIsCurrent
  <2>5. CASE WaitIrq
    BY <2>2, <2>5 DEF WaitIrq, VicInv, Fetch, VectorIsCurrent
  <2>6. CASE WaitMem
    BY <2>1, <2>2, <2>3, <2>6 DEF WaitMem, VicInv, Fetch, VectorIsCurrent
  <2>7. CASE ProcessIrq
    BY <2>2, <2>3, <2>7 DEF ProcessIrq, VicInv, Fetch, VectorIsCurrent
  <2>8. CASE Acked
    BY <2>2, <2>8 DEF Acked, VicInv, Fetch, VectorIsCurrent
  <2>9. CASE WaitAck
    BY <2>2, <2>3, <2>9 DEF WaitAck, VicInv, Fetch, VectorIsCurrent
  <2>10. CASE Retry
    BY <2>2, <2>3, <2>10 DEF Retry, VicInv, Fetch, VectorIsCurrent
  <2>11. CASE WaitIdle
    BY <2>2, <2>11 DEF WaitIdle, VicInv, Fetch, VectorIsCurrent
  <2> QED
    BY <1>2, <2>4, <2>5, <2>6, <2>7, <2>8, <2>9, <2>10, <2>11 DEF Clock
<1>3. CASE Reset
  BY <1>3 DEF Reset, Cleared, VicInv, Fetch, VectorIsCurrent
<1> QED
  BY <1>1, <1>2, <1>3 DEF VicNext

(* In WAIT_ACK and RETRY, VAR is the vector of the interrupt being served, *)
(* whatever lines, mask and accesses do meanwhile (wb_vic.vhd:304-351).    *)
THEOREM VicVector == VicSpec => []VectorIsCurrent
<1>1. VicInv /\ [VicNext]_vicVars => VicInv'
  BY VicStep
<1>2. VicInv => VectorIsCurrent
  BY DEF VicInv
<1> QED
  BY <1>1, <1>2, VicStart, PTL DEF VicSpec

-----------------------------------------------------------------------------
(* The driver enables the controller with the last write of its probe, so  *)
(* none of its writes of the table comes later.                            *)
HostInv ==
  /\ idx \in Irqs /\ irqs_i \subseteq Irqs
  /\ probe # "done" => ~enable

LEMMA HostInit == HtInit => HostInv /\ VicInit
BY VicAssumption DEF HtInit, HostInv, VicInit, Cleared, Irqs

LEMMA LinesKept ==
  ASSUME NEW drop, irqs_i \subseteq Irqs, Lines(drop)
  PROVE  irqs_i' \subseteq Irqs
BY DEF Lines

LEMMA AccessKinds ==
  /\ Quiet \in Accesses /\ Read \in Accesses /\ WriteEoir \in Accesses
  /\ \A en \in BOOLEAN, p \in {0, 1}, emu \in BOOLEAN : WriteCtl(en, p, emu) \in Accesses
  /\ \A r \in {"IER", "IDR", "SWIR"}, s \in SUBSET Irqs : WriteSet(r, s) \in Accesses
  /\ \A n \in Irqs, v \in Vectors : WriteIvt(n, v) \in Accesses
<1>1. Quiet \in Accesses /\ Read \in Accesses /\ WriteEoir \in Accesses
  BY DEF Accesses
<1>2. \A en \in BOOLEAN, p \in {0, 1}, emu \in BOOLEAN : WriteCtl(en, p, emu) \in Accesses
  BY DEF Accesses
<1>3. \A r \in {"IER", "IDR", "SWIR"}, s \in SUBSET Irqs : WriteSet(r, s) \in Accesses
  BY DEF Accesses
<1>4. \A n \in Irqs, v \in Vectors : WriteIvt(n, v) \in Accesses
  BY DEF Accesses
<1> QED
  BY <1>1, <1>2, <1>3, <1>4

(* A clock in which nothing but CTL can change ENABLE. *)
LEMMA EnableKept ==
  ASSUME NEW a, Clock(a), a.reg # "CTL"
  PROVE  enable' = enable
BY DEF Clock, Bus

LEMMA ProbeStep ==
  ASSUME HostInv, htvic_probe
  PROVE  /\ \E a \in Accesses : HostRule(a) /\ Clock(a)
         /\ HostInv'
<1> USE DEF HostInv
<1>1. ASSUME NEW from, NEW a \in Accesses, NEW to, Probe(from, a, to)
      PROVE  irqs_i' \subseteq Irqs /\ Clock(a) /\ probe = from /\ probe' = to
  BY <1>1, LinesKept DEF Probe, Do
<1>2. CASE htvic_ack_pending
  <2>1. ASSUME NEW from \in {"RISR", "EOIR"}, NEW to \in {"IVT", "EOIR", "RISR"},
               NEW a \in {Read, WriteEoir}, Probe(from, a, to), UNCHANGED idx
        PROVE  (\E b \in Accesses : HostRule(b) /\ Clock(b)) /\ HostInv'
    <3>1. a \in Accesses /\ a.reg \notin {"CTL", "IVT"}
      BY AccessKinds DEF Read, WriteEoir
    <3>2. irqs_i' \subseteq Irqs /\ Clock(a) /\ probe = from /\ probe' = to
      BY <1>1, <2>1, <3>1
    <3>3. enable' = enable
      BY <3>1, <3>2, EnableKept
    <3> QED
      BY <2>1, <3>1, <3>2, <3>3 DEF HostRule
  <2> QED
    BY <1>2, <2>1 DEF htvic_ack_pending
<1>3. CASE htvic_irq_mapping
  <2>1. WriteIvt(idx, idx) \in Accesses
    BY AccessKinds, HtVicAssumption
  <2>2. PICK to \in {"IVT", "request"} : Probe("IVT", WriteIvt(idx, idx), to)
    BY <1>3 DEF htvic_irq_mapping
  <2>3. /\ irqs_i' \subseteq Irqs /\ Clock(WriteIvt(idx, idx))
        /\ probe = "IVT" /\ probe' = to
    BY <1>1, <2>1, <2>2
  <2>4. enable' = enable
    BY <2>3, EnableKept DEF WriteIvt
  <2>5. idx' \in Irqs
    BY <1>3, VicAssumption DEF htvic_irq_mapping, Irqs
  <2> QED
    BY <2>1, <2>3, <2>4, <2>5 DEF HostRule
<1>4. ASSUME NEW from \in {"CTL", "IDR", "request"}, NEW to \in {"IDR", "RISR", "enable"},
             NEW a \in {WriteCtl(FALSE, 0, FALSE), WriteSet("IDR", Irqs), Quiet},
             Probe(from, a, to), UNCHANGED idx
      PROVE  (\E b \in Accesses : HostRule(b) /\ Clock(b)) /\ HostInv'
  <2>0. /\ WriteCtl(FALSE, 0, FALSE) \in Accesses
        /\ WriteSet("IDR", Irqs) \in Accesses /\ Quiet \in Accesses
    BY AccessKinds
  <2>1. /\ a \in Accesses /\ a.reg # "IVT"
        /\ a.reg = "CTL" => a.enable = FALSE
    <3>1. CASE a = WriteCtl(FALSE, 0, FALSE)
      BY <2>0, <3>1 DEF WriteCtl
    <3>2. CASE a = WriteSet("IDR", Irqs)
      BY <2>0, <3>2 DEF WriteSet
    <3>3. CASE a = Quiet
      BY <2>0, <3>3 DEF Quiet
    <3> QED
      BY <1>4, <3>1, <3>2, <3>3
  <2>2. irqs_i' \subseteq Irqs /\ Clock(a) /\ probe = from /\ probe' = to
    BY <1>1, <1>4, <2>1
  <2>3. enable' = FALSE
    BY <2>1, <2>2 DEF Clock, Bus
  <2> QED
    BY <1>4, <2>1, <2>2, <2>3 DEF HostRule
<1>5. ASSUME NEW p \in {0, 1}, NEW emu \in BOOLEAN,
             Probe("enable", WriteCtl(TRUE, p, emu), "done"), UNCHANGED idx
      PROVE  (\E b \in Accesses : HostRule(b) /\ Clock(b)) /\ HostInv'
  <2>1. WriteCtl(TRUE, p, emu) \in Accesses /\ HostRule(WriteCtl(TRUE, p, emu))
    BY AccessKinds DEF HostRule, WriteCtl
  <2>2. irqs_i' \subseteq Irqs /\ Clock(WriteCtl(TRUE, p, emu)) /\ probe' = "done"
    BY <1>1, <1>5, <2>1
  <2> QED
    BY <1>5, <2>1, <2>2
<1>6. EmuEdge \in BOOLEAN
  BY DEF EmuEdge
<1> QED
  BY <1>2, <1>3, <1>4, <1>5, <1>6 DEF htvic_probe

(* The other steps write neither CTL nor the table. *)
LEMMA OtherStep ==
  ASSUME HostInv, NEW a \in Accesses, Clock(a), a.reg \notin {"CTL", "IVT"},
         UNCHANGED <<probe, idx>>, irqs_i' \subseteq Irqs
  PROVE  HostRule(a) /\ HostInv'
BY EnableKept DEF HostInv, HostRule

LEMMA HandlerStep ==
  ASSUME HostInv, htvic_handler
  PROVE  /\ \E a \in Accesses : HostRule(a) /\ Clock(a)
         /\ HostInv'
<1>1. ASSUME NEW from, NEW to, NEW a \in {Quiet, Read, WriteEoir}, NEW drop,
             Handling(from, a, to), Lines(drop)
      PROVE  (\E b \in Accesses : HostRule(b) /\ Clock(b)) /\ HostInv'
  <2>1. a \in Accesses /\ a.reg \notin {"CTL", "IVT"}
    BY AccessKinds DEF Quiet, Read, WriteEoir
  <2>2. Clock(a) /\ UNCHANGED <<probe, idx>> /\ irqs_i' \subseteq Irqs
    BY <1>1, LinesKept DEF Handling, HostInv
  <2> QED
    BY <2>1, <2>2, OtherStep
<1> QED
  BY <1>1 DEF htvic_handler, Enter, ReadRisr, ReadVar, handle_nested_irq, htvic_eoi, Delay

LEMMA HostStep ==
  ASSUME HostInv, [HtNext]_htVars
  PROVE  [VicNext]_vicVars /\ HostInv'
<1>1. CASE UNCHANGED htVars
  BY <1>1 DEF htVars, driver, vicVars, regs, HostInv
<1>2. ASSUME HtNext
      PROVE  (\E a \in Accesses : HostRule(a) /\ Clock(a)) /\ HostInv'
  <2>1. CASE Idle
    <3>1. Clock(Quiet) /\ UNCHANGED <<probe, idx>> /\ irqs_i' \subseteq Irqs
      BY <2>1, LinesKept DEF Idle, driver, HostInv
    <3> QED
      BY <3>1, AccessKinds, OtherStep DEF Quiet
  <2>2. CASE Quieted
    <3>1. Clock(Quiet) /\ UNCHANGED <<probe, idx>> /\ irqs_i' \subseteq Irqs
      BY <2>2 DEF Quieted, QuietDevice, driver, HostInv
    <3> QED
      BY <3>1, AccessKinds, OtherStep DEF Quiet
  <2>3. ASSUME NEW r \in {"IER", "IDR", "SWIR"}, NEW s \in SUBSET Irqs,
               Clock(WriteSet(r, s)), Lines({}), UNCHANGED <<probe, idx>>
        PROVE  (\E a \in Accesses : HostRule(a) /\ Clock(a)) /\ HostInv'
    <3>1. WriteSet(r, s) \in Accesses /\ WriteSet(r, s).reg \notin {"CTL", "IVT"}
      BY AccessKinds DEF WriteSet
    <3>2. irqs_i' \subseteq Irqs
      BY <2>3, LinesKept DEF HostInv
    <3> QED
      BY <2>3, <3>1, <3>2, OtherStep
  <2>4. CASE Startup
    BY <2>3, <2>4 DEF Startup, htvic_irq_startup, Do
  <2>5. CASE Shutdown
    BY <2>3, <2>5 DEF Shutdown, htvic_irq_shutdown, Do
  <2>6. CASE htvic_dbg_swirq_write
    <3>1. {0} \in SUBSET Irqs
      BY VicAssumption DEF Irqs
    <3> QED
      BY <2>3, <2>6, <3>1 DEF htvic_dbg_swirq_write, driver
  <2> QED
    BY <1>2, <2>1, <2>2, <2>4, <2>5, <2>6, ProbeStep, HandlerStep DEF HtNext
<1> QED
  BY <1>1, <1>2 DEF VicNext, HostInv

(* The driver is a host of the kind Spec allows, so what holds of the      *)
(* controller with every such host holds with it (htvic.c:467-575).        *)
THEOREM HtVicIsHost == HtSpec => VicSpec
<1>1. HostInv /\ [HtNext]_htVars => [VicNext]_vicVars /\ HostInv'
  BY HostStep
<1> QED
  BY <1>1, HostInit, PTL DEF HtSpec, VicSpec

(* With the driver, from the reset of the controller on, VAR is the vector *)
(* of the interrupt being served.                                          *)
THEOREM HtVicVector == HtSpec => []VectorIsCurrent
BY HtVicIsHost, VicVector, PTL

=============================================================================
