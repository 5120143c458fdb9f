------------------------------ MODULE I2cOcores ------------------------------
(***************************************************************************)
(* The Linux driver i2c-ocores on the I2C master with its multiplexer, by  *)
(* interrupts or by polling.  The interrupt handler runs beside the thread *)
(* that transfers; what process_lock protects is one step, and so is an    *)
(* access to a register elsewhere.  A message is [rd, len, nostart]; byte  *)
(* <<k, p>> is byte p of message k, <<k, 0>> its address.                  *)
(*                                                                         *)
(* The driver returns when it has commanded a stop, or given up, and the   *)
(* next transfer may find the master at work and the handler half way.     *)
(* rested tells whether it did not, and log is what the bus has seen of a  *)
(* transfer that found everything at rest.                                 *)
(***************************************************************************)
EXTENDS Naturals, Sequences, FiniteSets

CONSTANTS Transfers,   \* the transfers (sequences of messages) clients ask for
          Buses,       \* interfaces of the multiplexer
          MaxPos       \* bounds pos in a message whose end was missed

Message == [rd : BOOLEAN, len : Nat, nostart : BOOLEAN]

ASSUME TransfersAssumption == \A m \in Transfers : m \in Seq(Message) /\ m # <<>>
ASSUME MaxPosAssumption ==
  MaxPos \in Nat /\ \A m \in Transfers : \A k \in DOMAIN m : m[k].len < MaxPos

VARIABLES
  poll,                            \* OCORES_FLAG_POLL (never changes)
  mux,                             \* register MUX: if_busy, if_num
  en, ien, cr, txr, rxr, rxack, al, irq_flag,     \* registers of the master
  run, busy,                       \* command under way, bus claimed
  rested, log,                     \* history: see above
  msgs, msg, pos, nmsgs, state,    \* struct ocores_i2c
  buf,                             \* bytes stored: <<byte, place in log>>
  pc, target, ret,                 \* the thread, the bus it means, its result
  isr, stat, isrMsg                \* the handler: place, status read, msg read (0: of
                                   \* a list the driver has left)

bus    == <<run, busy, rested, log>>
regs   == <<en, ien, cr, txr, rxr, rxack, al, irq_flag>>
drv    == <<msgs, msg, pos, nmsgs, state, buf>>
thread == <<pc, target, ret>>
hand   == <<isr, stat, isrMsg>>
vars   == <<poll, mux, regs, bus, drv, thread, hand>>

Over == state \in {"DONE", "ERROR"}

(* The software that ran before may have left the multiplexer taken.       *)
Init ==
  /\ poll \in BOOLEAN /\ mux \in [busy : BOOLEAN, num : Buses]
  /\ en = TRUE /\ ien = FALSE /\ cr = "none" /\ txr = <<>> /\ rxr = 0
  /\ rxack = FALSE /\ al = FALSE /\ irq_flag = FALSE
  /\ run = "none" /\ busy = "free" /\ rested = TRUE /\ log = <<>>
  /\ msgs = <<>> /\ msg = 1 /\ pos = 0 /\ nmsgs = 0 /\ state = "DONE" /\ buf = {}
  /\ pc = "idle" /\ target = mux.num /\ ret = "none"
  /\ isr = "out" /\ stat = [nack |-> FALSE, al |-> FALSE] /\ isrMsg = 1

-----------------------------------------------------------------------------
(* The I2C master                                                          *)

Mut_Command(c) ==
  IF en
  THEN /\ irq_flag' = (c = "IACK" /\ irq_flag)
       /\ cr' = IF c = "IACK" THEN "none" ELSE c
       /\ run' = IF run = "none" /\ c # "IACK" THEN c ELSE run
       /\ al' = (al /\ c # "START")
  ELSE UNCHANGED <<irq_flag, cr, run, al>>

(* A write to CR: every command also acknowledges the interrupt, IACK does *)
(* only that.  One that finds another under way takes its place in CR; a   *)
(* disabled core takes none.                                               *)
Command(c) ==
  IF en
  THEN /\ irq_flag' = FALSE
       /\ cr' = IF c = "IACK" THEN "none" ELSE c
       /\ run' = IF run = "none" /\ c # "IACK" THEN c ELSE run
       /\ al' = (al /\ c # "START")
  ELSE UNCHANGED <<irq_flag, cr, run, al>>

(* What the bus sees of the command under way, the last of its bits being  *)
(* nack.                                                                   *)
Answered(entry, nack) == IF nack THEN <<entry, <<"NACK">>>> ELSE <<entry>>

Symbols(nack) ==
  CASE run = "START" -> Answered(<<"S", txr, mux.num>>, nack)
    [] run = "WRITE" -> Answered(<<"W", txr>>, nack)
    [] run = "STOP"  -> <<<<"P">>>>
    [] OTHER         -> <<<<IF nack THEN "RN" ELSE "R">>>>

Logged(entries) == IF rested THEN log \o entries ELSE log

(* The acknowledge of a byte read is the bit that is in CR when its time   *)
(* has come, not the one it was commanded with.                            *)
Nacks ==
  CASE run \in {"START", "WRITE"} -> BOOLEAN
    [] run = "STOP" -> {rxack}
    [] OTHER -> {run = "READ_NACK", cr = "READ_NACK"}

(* A STOP written while a byte is under way follows it; any other command  *)
(* written meanwhile is cleared with the one that is done.                 *)
Finish ==
  /\ run # "none"
  /\ \E nack \in Nacks : rxack' = nack /\ log' = Logged(Symbols(nack))
  /\ rxr' = IF run \in {"READ_ACK", "READ_NACK"} THEN Len(log) + 1 ELSE rxr
  /\ busy' = CASE run = "START" -> "claimed" [] run = "STOP" -> "stopping" [] OTHER -> busy
  /\ IF cr = "STOP" /\ run # "STOP"
     THEN run' = "STOP" /\ UNCHANGED <<cr, irq_flag>>
     ELSE run' = "none" /\ cr' = "none" /\ irq_flag' = TRUE
  /\ UNCHANGED <<poll, mux, en, ien, txr, al, rested, drv, thread, hand>>

LoseArbitration ==
  /\ run \notin {"none", "STOP"}
  /\ log' = Logged(<<<<"AL">>>>) /\ al' = TRUE /\ busy' = "claimed"
  /\ run' = "none" /\ cr' = "none" /\ irq_flag' = TRUE
  /\ UNCHANGED <<poll, mux, en, ien, txr, rxr, rxack, rested, drv, thread, hand>>

(* The stop condition is seen after the command is done.                   *)
BusFree ==
  /\ busy = "stopping" /\ busy' = "free"
  /\ UNCHANGED <<poll, mux, regs, run, rested, log, drv, thread, hand>>

Tip == cr \notin {"none", "STOP"}

-----------------------------------------------------------------------------
(* ocores_process, under process_lock                                      *)

Mut_StopWith(st) ==
  /\ state' = "DONE" /\ Command("STOP")
  /\ UNCHANGED <<txr, msg, pos, nmsgs>>

StopWith(st) ==
  /\ state' = st /\ Command("STOP")
  /\ UNCHANGED <<txr, msg, pos, nmsgs>>

Mut_NextByte(k, m, p) ==
  IF m.rd
  THEN /\ state' = "READ" /\ pos' = p /\ UNCHANGED txr
       /\ Command(IF p = m.len THEN "READ_NACK" ELSE "READ_ACK")
  ELSE /\ state' = "WRITE" /\ pos' = p + 1 /\ txr' = <<k, p + 1>>
       /\ Command("WRITE")

(* The byte after the first p of m, which is message k.                    *)
NextByte(k, m, p) ==
  IF m.rd
  THEN /\ state' = "READ" /\ pos' = p /\ UNCHANGED txr
       /\ Command(IF p = m.len - 1 THEN "READ_NACK" ELSE "READ_ACK")
  ELSE /\ state' = "WRITE" /\ pos' = p + 1 /\ txr' = <<k, p + 1>>
       /\ Command("WRITE")

Start(k) ==
  /\ state' = "START" /\ pos' = 0 /\ txr' = <<k, 0>> /\ Command("START")

EndOfMsg ==
  /\ nmsgs' = nmsgs - 1 /\ msg' = msg + 1
  /\ IF nmsgs = 1
     THEN state' = "DONE" /\ pos' = 0 /\ Command("STOP") /\ UNCHANGED txr
     ELSE IF msgs[msg'].nostart THEN NextByte(msg', msgs[msg'], 0) ELSE Start(msg')

(* What i2c->msg points at: a list the driver has left is its client's     *)
(* again and may hold anything, such as a message that ends here, at the   *)
(* next byte, or later.                                                    *)
Pointed(k) ==
  IF k > 0 THEN {msgs[k]}
  ELSE {[rd |-> r, len |-> n, nostart |-> FALSE] : r \in BOOLEAN, n \in pos..(pos + 2)}

Failed(s) == s.al \/ (s.nack /\ state # "READ")

(* k is i2c->msg as it was before the lock was taken.                      *)
ocores_process(k, s) ==
  /\ \/ /\ Over
        /\ Command("IACK") /\ UNCHANGED <<txr, msg, pos, nmsgs, state, buf>>
     \/ /\ ~Over /\ Failed(s)
        /\ StopWith("ERROR") /\ UNCHANGED buf
     \/ /\ ~Over /\ ~Failed(s) /\ pos < MaxPos
        /\ \E m \in Pointed(k) :
             LET got == IF state = "READ" THEN 1 ELSE 0
             IN  /\ buf' = IF state = "READ" /\ k > 0
                           THEN buf \cup {<<<<k, pos + 1>>, rxr>>} ELSE buf
                 /\ IF pos + got = m.len
                    THEN EndOfMsg
                    ELSE NextByte(k, m, pos + got) /\ UNCHANGED <<msg, nmsgs>>
  /\ UNCHANGED <<en, ien, rxr, rxack, busy, rested, log, msgs>>

-----------------------------------------------------------------------------
(* The interrupt handler                                                   *)

Status == [nack |-> rxack, al |-> al]

ocores_isr ==
  /\ ~poll /\ isr = "out" /\ irq_flag /\ ien
  /\ isr' = "status" /\ stat' = Status
  /\ UNCHANGED <<poll, mux, regs, bus, drv, thread, isrMsg>>

IsrMsg ==
  /\ isr = "status" /\ isr' = "read" /\ isrMsg' = msg
  /\ UNCHANGED <<poll, mux, regs, bus, drv, thread, stat>>

IsrProcess ==
  /\ isr = "read" /\ isr' = "out"
  /\ ocores_process(isrMsg, stat)
  /\ pc' = IF Over /\ pc = "asleep" THEN "wait" ELSE pc     \* wake_up
  /\ stat' = [nack |-> FALSE, al |-> FALSE] /\ isrMsg' = 1   \* gone with the call
  /\ UNCHANGED <<poll, mux, target, ret>>

-----------------------------------------------------------------------------
(* The thread                                                              *)

(* The master has done what it was told, and the handler knows.            *)
Quiet == run = "none" /\ isr = "out" /\ (poll \/ ~irq_flag)

At(from, to) == pc = from /\ pc' = to

ohwr_i2c_mux_select(num) ==
  /\ At("idle", IF mux.busy THEN "deselect" ELSE "selected") /\ en
  /\ mux' = IF mux.busy THEN mux ELSE [busy |-> TRUE, num |-> num]
  /\ target' = num /\ ret' = IF mux.busy THEN "EBUSY" ELSE "none"
  /\ rested' = Quiet /\ log' = <<>>
  /\ UNCHANGED <<poll, regs, run, busy, drv, hand>>

ohwr_i2c_mux_deselect ==
  /\ At("deselect", "idle") /\ mux' = [busy |-> FALSE, num |-> mux.num]
  /\ UNCHANGED <<poll, regs, bus, drv, target, ret, hand>>

XferControl ==
  /\ At("selected", "control") /\ ien' = ~poll
  /\ UNCHANGED <<poll, mux, en, cr, txr, rxr, rxack, al, irq_flag, bus, drv, target, ret, hand>>

(* Without process_lock.  The handler looks at none of it but msg before   *)
(* it has seen the state, which is written last.                           *)
ocores_xfer_core ==
  /\ At("control", "start")
  /\ \E list \in Transfers : msgs' = list /\ nmsgs' = Len(list)
  /\ msg' = 1 /\ pos' = 0 /\ state' = "START" /\ buf' = {}
  /\ isrMsg' = IF isr = "read" THEN 0 ELSE isrMsg
  /\ UNCHANGED <<poll, mux, regs, bus, target, ret, isr, stat>>

XferStart ==
  /\ At("start", IF poll THEN "poll" ELSE "wait")
  /\ txr' = <<msg, 0>> /\ Command("START")
  /\ UNCHANGED <<poll, mux, en, ien, rxr, rxack, busy, rested, log, drv, target, ret, hand>>

wait_event ==
  /\ At("wait", IF Over THEN "result" ELSE "asleep")
  /\ UNCHANGED <<poll, mux, regs, bus, drv, target, ret, hand>>

(* wait_event_timeout looks at the state once more when its time is up.    *)
Expire ==
  /\ At("asleep", IF Over THEN "result" ELSE "expired")
  /\ UNCHANGED <<poll, mux, regs, bus, drv, target, ret, hand>>

Mut_ocores_process_timeout ==
  /\ At("expired", "deselect") /\ ret' = "ETIMEDOUT" /\ state' = "ERROR"
  /\ UNCHANGED <<poll, mux, regs, bus, msgs, msg, pos, nmsgs, buf, target, hand>>

ocores_process_timeout ==
  /\ At("expired", "deselect") /\ ret' = "ETIMEDOUT"
  /\ StopWith("ERROR")
  /\ UNCHANGED <<poll, mux, en, ien, rxr, rxack, busy, rested, log, msgs, buf, target, hand>>

XferResult ==
  /\ At("result", "deselect")
  /\ ret' = IF state = "DONE" THEN "num" ELSE "EIO"
  /\ UNCHANGED <<poll, mux, regs, bus, drv, target, hand>>

PollReady == IF Over THEN busy = "free" ELSE ~Tip

ocores_process_polling ==
  /\ pc = "poll" /\ PollReady
  /\ IF irq_flag
     THEN ocores_process(msg, Status) /\ UNCHANGED pc
     ELSE pc' = "result" /\ UNCHANGED <<regs, bus, drv>>
  /\ UNCHANGED <<poll, mux, target, ret, hand>>

(* TIP or BUSY did not go in time.                                         *)
ocores_poll_wait ==
  /\ At("poll", "result") /\ ~PollReady /\ state' = "ERROR"
  /\ UNCHANGED <<poll, mux, regs, bus, msgs, msg, pos, nmsgs, buf, target, ret, hand>>

(* ocores_init writes IACK while the core is disabled, which has no effect.*)
ocores_i2c_suspend ==
  /\ pc = "idle" /\ en /\ en' = FALSE /\ ien' = FALSE
  /\ UNCHANGED <<poll, mux, cr, txr, rxr, rxack, al, irq_flag, bus, drv, thread, hand>>

ocores_i2c_resume ==
  /\ ~en /\ en' = TRUE /\ ien' = FALSE
  /\ UNCHANGED <<poll, mux, cr, txr, rxr, rxack, al, irq_flag, bus, drv, thread, hand>>

-----------------------------------------------------------------------------
(* The specification.  No client has to ask for a transfer, no timeout has *)
(* to expire, no arbitration to be lost; the rest goes on.                 *)

Working ==
  \/ Finish \/ BusFree \/ ocores_isr \/ IsrMsg \/ IsrProcess
  \/ ohwr_i2c_mux_deselect \/ XferControl \/ ocores_xfer_core \/ XferStart \/ wait_event
  \/ ocores_process_timeout \/ XferResult \/ ocores_process_polling

Next ==
  \/ Working \/ LoseArbitration \/ Expire \/ ocores_poll_wait
  \/ \E num \in Buses : ohwr_i2c_mux_select(num)
  \/ ocores_i2c_suspend \/ ocores_i2c_resume

Spec == Init /\ [][Next]_vars /\ WF_vars(Working)

-----------------------------------------------------------------------------
(* Properties                                                              *)

(* What the bus has to see of messages m: at place <<k, 0>> the address of *)
(* message k, unless it goes on where the one before ends, then its bytes. *)
Places(m) ==
  UNION {{k} \X (IF k > 1 /\ m[k].nostart THEN 1..m[k].len ELSE 0..m[k].len) : k \in DOMAIN m}

Before(p, q) == p[1] < q[1] \/ (p[1] = q[1] /\ p[2] < q[2])

Number(m, p) == Cardinality({q \in Places(m) : q = p \/ Before(q, p)})

Event(m, t, p) ==
  IF p[2] = 0 THEN <<"S", p, t>>
  ELSE IF ~m[p[1]].rd THEN <<"W", p>>
  ELSE IF p[2] < m[p[1]].len THEN <<"R">> ELSE <<"RN">>

ToRead(m) == {p \in Places(m) : p[2] > 0 /\ m[p[1]].rd}

(* The first b entries of the log are the first b places.                  *)
Follows(b) ==
  \A n \in 1..b : \E p \in Places(msgs) : Number(msgs, p) = n /\ log[n] = Event(msgs, target, p)

Refusal == {<<"NACK">>, <<"AL">>}

(* Of a transfer that begins at rest the bus sees the messages, on the     *)
(* selected interface, every byte once, in order, the last one read        *)
(* refused, and nothing after a byte the device refused, lost arbitration  *)
(* or a stop; only a transfer given up in the middle of a byte may         *)
(* acknowledge the last one read.                                          *)
WireFollowsMessages ==
  rested =>
    \E b, e \in 0..Len(log) :
      /\ Follows(b)
      /\ \/ e = b
         \/ e = b + 1 /\ (log[e] \in Refusal \/ (log[e] = <<"R">> /\ state = "ERROR"))
      /\ \A n \in 1..Len(log) : n > e => log[n] = <<"P">>
      /\ e < Len(log) /\ state = "DONE" => e = b /\ b = Cardinality(Places(msgs))

(* A transfer that begins at rest and reports its messages has had all of  *)
(* them acknowledged on the bus and holds each byte read at its place; by  *)
(* interrupt, one that reports an error has met a refusal or lost the bus. *)
ResultTrue ==
  rested =>
    /\ ret = "num" =>
         /\ Len(log) >= Cardinality(Places(msgs)) /\ Follows(Cardinality(Places(msgs)))
         /\ \A n \in 1..Len(log) : n > Cardinality(Places(msgs)) => log[n] = <<"P">>
         /\ buf = {<<p, Number(msgs, p)>> : p \in ToRead(msgs)}
    /\ ret = "EIO" /\ ~poll => \E n \in 1..Len(log) : log[n] \in Refusal

(* By interrupt the bus is given back whatever became of a transfer that   *)
(* began at rest: a stop follows it, also when it times out, or the bus    *)
(* was lost.                                                               *)
BusReleased ==
  ~poll => []<>(\/ ~rested \/ pc \notin {"deselect", "idle"} \/ log = <<>>
                \/ log[Len(log)] \in {<<"P">>, <<"AL">>})

(* A transfer that begins at rest ends without the help of its timeout.    *)
XferReturns == (pc # "idle" /\ rested) ~> pc = "idle"

=============================================================================
