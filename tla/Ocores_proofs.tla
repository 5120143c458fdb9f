---------------------------- MODULE Ocores_proofs ----------------------------
(***************************************************************************)
(* The two drivers of OpenCores masters, for any transfers and messages,   *)
(* by interrupts and by polling: what the bus sees is what the client has  *)
(* asked for, byte for byte and word for word, and what the driver reports *)
(* is what the bus has seen.                                               *)
(***************************************************************************)
EXTENDS I2cOcores, SpiOcores, FiniteSetTheorems, SequenceTheorems, TLAPS

-----------------------------------------------------------------------------
(* THE I2C DRIVER                                                          *)

(* What the driver handles: a message that goes on where the one before    *)
(* ends has a byte.                                                        *)
Filled == \A m \in Transfers : \A k \in 2..Len(m) : m[k].nostart => m[k].len > 0

-----------------------------------------------------------------------------
(* The invariant                                                           *)

Byte == Nat \X Nat

Entries ==
  {<<"R">>, <<"RN">>, <<"NACK">>, <<"AL">>, <<"P">>}
    \cup ({"S"} \X Byte \X Buses) \cup ({"W"} \X Byte)

ByteCommand == {"START", "WRITE", "READ_ACK", "READ_NACK"}

Pc == {"idle", "deselect", "selected", "control", "start", "wait", "asleep", "expired", "poll",
       "result"}

TypeOK ==
  /\ poll \in BOOLEAN /\ mux.num \in Buses /\ target \in Buses
  /\ rxack \in BOOLEAN /\ al \in BOOLEAN /\ irq_flag \in BOOLEAN /\ rested \in BOOLEAN
  /\ run \in ByteCommand \cup {"none", "STOP"}
  /\ state \in {"START", "READ", "WRITE", "DONE", "ERROR"}
  /\ pc \in Pc /\ isr \in {"out", "status", "read"} /\ (poll => isr = "out")
  /\ (pc = "poll" => poll) /\ (pc # "idle" => en)

(* The place before which everything is in the log, ...                    *)
Seen(m, c) == {p \in Places(m) : Before(p, c)}

LogIs(m, t, l, c) ==
  /\ IsFiniteSet(Seen(m, c)) /\ Len(l) = Cardinality(Seen(m, c))
  /\ \A n \in 1..Len(l) : \E p \in Seen(m, c) : Number(m, p) = n /\ l[n] = Event(m, t, p)

(* ... and the one before which everything to read is stored.              *)
BufIs(m, b, c) == b = {<<p, Number(m, p)>> : p \in {q \in ToRead(m) : Before(q, c)}}

(* The command that brings place p about.                                  *)
CommandFor(m, p) ==
  IF p[2] = 0 THEN "START"
  ELSE IF ~m[p[1]].rd THEN "WRITE"
  ELSE IF p[2] < m[p[1]].len THEN "READ_ACK" ELSE "READ_NACK"

(* The place the driver is at, and the one after it.                       *)
Here == <<msg, IF state = "READ" THEN pos + 1 ELSE pos>>
Next0 == <<msg, (IF state = "READ" THEN pos + 1 ELSE pos) + 1>>

UnderWay(c) ==
  /\ c \in Places(msgs) /\ run = CommandFor(msgs, c) /\ LogIs(msgs, target, log, c)
  /\ run \in {"START", "WRITE"} => txr = c

(* The bus after b places: refused, lost or stopped, or about to be.       *)
Followed(m, t, l, b) ==
  /\ b <= Len(l)
  /\ \A n \in 1..b : \E p \in Places(m) : Number(m, p) = n /\ l[n] = Event(m, t, p)

Stopped(l, e) == \A n \in 1..Len(l) : n > e => l[n] = <<"P">>

RefusedLog(m, t, l) ==
  \E b \in Nat : /\ b + 1 <= Len(l) /\ Followed(m, t, l, b)
                 /\ l[b + 1] \in Refusal /\ Stopped(l, b + 1)

(* Given up: nothing more, or a last byte read that was acknowledged.      *)
Cut(m, t, l) ==
  \E b \in Nat :
    /\ Followed(m, t, l, b)
    /\ Stopped(l, b) \/ (b + 1 <= Len(l) /\ l[b + 1] = <<"R">> /\ Stopped(l, b + 1))

(* Before the first command of a transfer.                                 *)
Before0 ==
  /\ log = <<>> /\ run = "none" /\ isr = "out" /\ (poll \/ ~irq_flag)
  /\ ret \in {"none", "EBUSY"}
  /\ \/ pc \in {"deselect", "idle"}
     \/ pc \in {"selected", "control"} /\ mux.num = target
     \/ /\ pc = "start" /\ mux.num = target
        /\ msgs \in Transfers /\ state = "START" /\ buf = {}
        /\ msg = 1 /\ pos = 0 /\ nmsgs = Len(msgs)

(* What the driver believes of its place.                                  *)
PlaceOK ==
  /\ msg \in 1..Len(msgs) /\ pos \in Nat /\ Here \in Places(msgs)
  /\ nmsgs = Len(msgs) + 1 - msg
  /\ state = "START" => pos = 0
  /\ state = "READ" => msgs[msg].rd
  /\ state = "WRITE" => ~msgs[msg].rd /\ pos > 0
  /\ BufIs(msgs, buf, Here)

GoingOK == UnderWay(Here) /\ cr = run /\ ~al /\ ~irq_flag /\ isr = "out"

GoneOK ==
  /\ run = "none" /\ irq_flag
  /\ isr # "out" => stat.nack = rxack /\ stat.al = al
  /\ isr = "read" => isrMsg = msg
  /\ \/ /\ ~al /\ (state = "READ" \/ ~rxack) /\ LogIs(msgs, target, log, Next0)
        /\ state = "READ" => rxr = Len(log)
     \/ (al \/ (rxack /\ state # "READ")) /\ RefusedLog(msgs, target, log)

Live ==
  /\ ~Over /\ ret \in {"none", "EBUSY"}
  /\ pc \in IF poll THEN {"poll"} ELSE {"wait", "asleep", "expired"}
  /\ msgs \in Transfers /\ mux.num = target
  /\ PlaceOK /\ (GoingOK \/ GoneOK)

Complete ==
  /\ Followed(msgs, target, log, Cardinality(Places(msgs)))
  /\ Stopped(log, Cardinality(Places(msgs)))
  /\ buf = {<<p, Number(msgs, p)>> : p \in ToRead(msgs)}

(* A byte the driver no longer waits for, its command replaced by a stop   *)
(* or cleared.                                                             *)
GivenUp(c) == UnderWay(c) /\ cr \in {run, "STOP", "none"}

Closing ==
  /\ Over /\ msgs \in Transfers /\ mux.num = target
  /\ \/ ret \in {"none", "EBUSY"} /\ pc \in {"wait", "asleep", "expired", "poll", "result"}
     \/ ret = "num" /\ state = "DONE" /\ pc \in {"deselect", "idle"}
     \/ ret \in {"EIO", "ETIMEDOUT"} /\ state = "ERROR" /\ pc \in {"deselect", "idle"}
  /\ state = "DONE" => run \in {"none", "STOP"} /\ IsFiniteSet(Places(msgs)) /\ Complete
  /\ state = "ERROR" =>
       \/ run \in {"none", "STOP"} /\ RefusedLog(msgs, target, log)
       \/ /\ poll \/ ret = "ETIMEDOUT"
          /\ \/ run \in {"none", "STOP"} /\ Cut(msgs, target, log)
             \/ \E c \in Places(msgs) : GivenUp(c)

(* A transfer that has found the master and the handler at rest.           *)
RInv == log \in Seq(Entries) /\ (Before0 \/ Live \/ Closing)

IInv == TypeOK /\ (rested => RInv)

-----------------------------------------------------------------------------
(* Places                                                                  *)

LEMMA MessageFacts ==
  ASSUME NEW m \in Transfers, NEW k \in 1..Len(m)
  PROVE  m[k].len \in Nat /\ m[k].rd \in BOOLEAN /\ m[k].nostart \in BOOLEAN /\ k \in Nat
<1>1. m \in Seq(Message)
  BY TransfersAssumption
<1>2. m[k] \in Message /\ k \in Nat
  BY <1>1
<1> QED BY <1>2 DEF Message

LEMMA PlaceIs ==
  ASSUME NEW m \in Transfers, NEW k, NEW b
  PROVE  <<k, b>> \in Places(m) <=>
           k \in 1..Len(m) /\ b \in 0..m[k].len /\ (b = 0 => ~(k > 1 /\ m[k].nostart))
<1> DEFINE B(j) == IF j > 1 /\ m[j].nostart THEN 1..m[j].len ELSE 0..m[j].len
<1>1. m \in Seq(Message) /\ DOMAIN m = 1..Len(m)
  BY TransfersAssumption
<1>2. <<k, b>> \in Places(m) <=> k \in 1..Len(m) /\ b \in B(k)
  BY <1>1 DEF Places
<1>3. ASSUME k \in 1..Len(m)
      PROVE  b \in B(k) <=> b \in 0..m[k].len /\ (b = 0 => ~(k > 1 /\ m[k].nostart))
  <2> DEFINE n == m[k].len
  <2>1. n \in Nat
    BY <1>3, MessageFacts
  <2> HIDE DEF n
  <2>2. b \in (IF k > 1 /\ m[k].nostart THEN 1..n ELSE 0..n)
          <=> b \in 0..n /\ (b = 0 => ~(k > 1 /\ m[k].nostart))
    <3>1. CASE k > 1 /\ m[k].nostart
      BY <2>1, <3>1
    <3>2. CASE ~(k > 1 /\ m[k].nostart)
      BY <2>1, <3>2
    <3> QED BY <3>1, <3>2
  <2> QED BY <2>2 DEF n
<1> QED BY <1>2, <1>3

LEMMA PlaceType ==
  ASSUME NEW m \in Transfers, NEW p \in Places(m)
  PROVE  /\ p = <<p[1], p[2]>> /\ p \in Byte
         /\ p[1] \in 1..Len(m) /\ p[1] \in Nat /\ p[2] \in Nat /\ p[2] <= m[p[1]].len
         /\ p[2] = 0 => ~(p[1] > 1 /\ m[p[1]].nostart)
<1>1. PICK k \in DOMAIN m :
        p \in {k} \X (IF k > 1 /\ m[k].nostart THEN 1..m[k].len ELSE 0..m[k].len)
  BY DEF Places
<1>2. p = <<p[1], p[2]>>
  BY <1>1
<1>3. p[1] \in 1..Len(m) /\ p[2] \in 0..m[p[1]].len
        /\ (p[2] = 0 => ~(p[1] > 1 /\ m[p[1]].nostart))
  BY <1>2, PlaceIs
<1>4. m[p[1]].len \in Nat
  BY <1>3, MessageFacts
<1>5. p[1] \in Nat /\ p[2] \in Nat /\ p[2] <= m[p[1]].len
  BY <1>3, <1>4
<1> QED BY <1>2, <1>3, <1>5 DEF Byte

LEMMA EventType ==
  ASSUME NEW m \in Transfers, NEW t \in Buses, NEW p \in Places(m)
  PROVE  Event(m, t, p) \in Entries
<1>1. p \in Byte
  BY PlaceType
<1>2. <<"S", p, t>> \in Entries /\ <<"W", p>> \in Entries /\ <<"R">> \in Entries
      /\ <<"RN">> \in Entries
  BY <1>1 DEF Entries
<1> QED BY <1>2 DEF Event

-----------------------------------------------------------------------------
(* From one place to the next                                              *)

LEMMA SeenFirst ==
  ASSUME NEW m \in Transfers
  PROVE  Seen(m, <<1, 0>>) = {} /\ <<1, 0>> \in Places(m)
<1>1. ASSUME NEW p \in Places(m) PROVE ~Before(p, <<1, 0>>)
  BY PlaceType DEF Before
<1>2. 1 \in 1..Len(m) /\ 0 \in 0..m[1].len
  BY TransfersAssumption, MessageFacts
<1>3. <<1, 0>> \in Places(m)
  BY <1>2, PlaceIs
<1> QED BY <1>1, <1>3 DEF Seen

LEMMA SeenNext ==
  ASSUME NEW m \in Transfers, NEW k, NEW b, <<k, b>> \in Places(m)
  PROVE  Seen(m, <<k, b + 1>>) = Seen(m, <<k, b>>) \cup {<<k, b>>}
<1>1. k \in Nat /\ b \in Nat
  BY PlaceType
<1>2. ASSUME NEW p \in Places(m)
      PROVE  Before(p, <<k, b + 1>>) <=> (Before(p, <<k, b>>) \/ p = <<k, b>>)
  <2>1. p = <<p[1], p[2]>> /\ p[1] \in Nat /\ p[2] \in Nat
    BY PlaceType
  <2> QED BY <1>1, <2>1 DEF Before
<1> QED BY <1>2 DEF Seen

(* After the last byte of a message comes the next message, or nothing.    *)
LEMMA SeenOver ==
  ASSUME NEW m \in Transfers, NEW k \in 1..Len(m)
  PROVE  /\ Seen(m, <<k + 1, 0>>) = Seen(m, <<k, m[k].len + 1>>)
         /\ k + 1 \in 1..Len(m) /\ m[k + 1].nostart =>
              Seen(m, <<k + 1, 1>>) = Seen(m, <<k, m[k].len + 1>>)
         /\ k = Len(m) => Seen(m, <<k, m[k].len + 1>>) = Places(m)
<1> DEFINE n == m[k].len
<1>1. k \in Nat /\ n \in Nat /\ k >= 1
  BY MessageFacts
<1>2. ASSUME NEW p \in Places(m)
      PROVE  /\ Before(p, <<k + 1, 0>>) <=> Before(p, <<k, n + 1>>)
             /\ (k + 1 \in 1..Len(m) /\ m[k + 1].nostart) =>
                  (Before(p, <<k + 1, 1>>) <=> Before(p, <<k, n + 1>>))
             /\ k = Len(m) => Before(p, <<k, n + 1>>)
  <2>1. /\ p[1] \in Nat /\ p[2] \in Nat /\ p[1] \in 1..Len(m) /\ (p[1] = k => p[2] <= n)
        /\ p[2] = 0 => ~(p[1] > 1 /\ m[p[1]].nostart)
    BY PlaceType
  <2> HIDE DEF n
  <2>2. Before(p, <<k + 1, 0>>) <=> Before(p, <<k, n + 1>>)
    BY <1>1, <2>1 DEF Before
  <2>3. Before(p, <<k + 1, 1>>) <=> p[1] < k + 1 \/ (p[1] = k + 1 /\ p[2] < 1)
    BY DEF Before
  <2>4. Before(p, <<k + 1, 0>>) <=> p[1] < k + 1
    BY <1>1, <2>1 DEF Before
  <2>5. ASSUME m[k + 1].nostart
        PROVE  Before(p, <<k + 1, 1>>) <=> Before(p, <<k, n + 1>>)
    <3>1. ASSUME p[1] = k + 1 PROVE ~(p[2] < 1)
      BY <1>1, <2>1, <2>5, <3>1
    <3> QED BY <2>2, <2>3, <2>4, <3>1
  <2>6. k = Len(m) => Before(p, <<k, n + 1>>)
    BY <1>1, <2>1, <2>2, <2>4
  <2> QED BY <2>2, <2>5, <2>6
<1> HIDE DEF n
<1>3. Seen(m, <<k + 1, 0>>) = Seen(m, <<k, n + 1>>)
  BY <1>2 DEF Seen
<1>4. (k + 1 \in 1..Len(m) /\ m[k + 1].nostart) => Seen(m, <<k + 1, 1>>) = Seen(m, <<k, n + 1>>)
  BY <1>2 DEF Seen
<1>5. k = Len(m) => Seen(m, <<k, n + 1>>) = Places(m)
  BY <1>2 DEF Seen
<1> QED BY <1>3, <1>4, <1>5 DEF n

(* One more place, one more entry of the log.                              *)
LEMMA LogGrows ==
  ASSUME NEW m \in Transfers, NEW t \in Buses, NEW l \in Seq(Entries),
         NEW c \in Places(m), NEW d,
         LogIs(m, t, l, c), Seen(m, d) = Seen(m, c) \cup {c}
  PROVE  /\ LogIs(m, t, Append(l, Event(m, t, c)), d)
         /\ Number(m, c) = Len(l) + 1
<1> DEFINE e == Event(m, t, c)
           u == Append(l, e)
<1>1. IsFiniteSet(Seen(m, c)) /\ Cardinality(Seen(m, c)) = Len(l)
  BY DEF LogIs
<1>2. c \notin Seen(m, c)
  <2>1. c[1] \in Nat /\ c[2] \in Nat
    BY PlaceType
  <2> QED BY <2>1 DEF Seen, Before
<1>3. IsFiniteSet(Seen(m, d)) /\ Cardinality(Seen(m, d)) = Len(l) + 1
  BY <1>1, <1>2, FS_AddElement
<1>4. Number(m, c) = Len(l) + 1
  <2>1. {q \in Places(m) : q = c \/ Before(q, c)} = Seen(m, c) \cup {c}
    BY DEF Seen
  <2> QED BY <1>3, <2>1 DEF Number
<1>5. e \in Entries
  BY EventType
<1>6. Len(u) = Len(l) + 1 /\ u[Len(l) + 1] = e /\ \A n \in 1..Len(l) : u[n] = l[n]
  BY <1>5
<1>7. ASSUME NEW n \in 1..Len(u)
      PROVE  \E p \in Seen(m, d) : Number(m, p) = n /\ u[n] = Event(m, t, p)
  <2>1. CASE n \in 1..Len(l)
    BY <1>6, <2>1 DEF LogIs
  <2>2. CASE n = Len(l) + 1
    BY <1>4, <1>6, <2>2
  <2> QED BY <1>6, <2>1, <2>2
<1> QED BY <1>3, <1>4, <1>6, <1>7 DEF LogIs

(* One more byte read, one more byte stored.                               *)
LEMMA BufGrows ==
  ASSUME NEW m \in Transfers, NEW b, NEW c \in Places(m), NEW d,
         BufIs(m, b, c), Seen(m, d) = Seen(m, c) \cup {c}
  PROVE  BufIs(m, IF c \in ToRead(m) THEN b \cup {<<c, Number(m, c)>>} ELSE b, d)
<1>1. {q \in ToRead(m) : Before(q, d)} =
        {q \in ToRead(m) : Before(q, c)} \cup (IF c \in ToRead(m) THEN {c} ELSE {})
  BY DEF ToRead, Seen
<1> QED BY <1>1 DEF BufIs

LEMMA SeenSame ==
  ASSUME NEW m, NEW t, NEW l, NEW b, NEW c, NEW d, Seen(m, d) = Seen(m, c)
  PROVE  /\ LogIs(m, t, l, c) => LogIs(m, t, l, d)
         /\ BufIs(m, b, c) => BufIs(m, b, d)
<1>1. {q \in ToRead(m) : Before(q, d)} = {q \in ToRead(m) : Before(q, c)}
  BY DEF ToRead, Seen
<1> QED BY <1>1 DEF LogIs, BufIs

-----------------------------------------------------------------------------
(* How a log goes on                                                       *)

LEMMA CutHere ==
  ASSUME NEW m, NEW t, NEW l \in Seq(Entries), NEW c, LogIs(m, t, l, c)
  PROVE  Followed(m, t, l, Len(l)) /\ Stopped(l, Len(l)) /\ Cut(m, t, l)
<1>1. Len(l) \in Nat
  OBVIOUS
<1>2. Followed(m, t, l, Len(l))
  BY <1>1 DEF LogIs, Followed, Seen
<1>3. Stopped(l, Len(l))
  BY <1>1 DEF Stopped
<1> QED BY <1>1, <1>2, <1>3 DEF Cut

(* A byte read that is acknowledged though it was to be refused.           *)
LEMMA CutAfterRead ==
  ASSUME NEW m, NEW t, NEW l \in Seq(Entries), NEW c, LogIs(m, t, l, c)
  PROVE  Cut(m, t, Append(l, <<"R">>)) /\ Append(l, <<"R">>) \in Seq(Entries)
<1> DEFINE u == Append(l, <<"R">>)
           b == Len(l)
<1>1. <<"R">> \in Entries
  BY DEF Entries
<1>2. /\ u \in Seq(Entries) /\ Len(u) = b + 1 /\ u[b + 1] = <<"R">>
      /\ b \in Nat /\ \A n \in 1..b : u[n] = l[n]
  BY <1>1
<1>3. Followed(m, t, l, b)
  BY CutHere
<1> HIDE DEF u, b
<1>4. Followed(m, t, u, b)
  BY <1>2, <1>3 DEF Followed
<1>5. Stopped(u, b + 1)
  BY <1>2 DEF Stopped
<1>6. Cut(m, t, u)
  BY <1>2, <1>4, <1>5 DEF Cut
<1> QED BY <1>2, <1>6 DEF u

LEMMA RefusedHere ==
  ASSUME NEW m, NEW t, NEW l \in Seq(Entries), NEW c, LogIs(m, t, l, c),
         NEW e \in Refusal
  PROVE  RefusedLog(m, t, Append(l, e)) /\ Append(l, e) \in Seq(Entries)
<1> DEFINE u == Append(l, e)
           b == Len(l)
<1>1. e \in Entries
  BY DEF Refusal, Entries
<1>2. /\ u \in Seq(Entries) /\ Len(u) = b + 1 /\ u[b + 1] = e
      /\ b \in Nat /\ \A n \in 1..b : u[n] = l[n]
  BY <1>1
<1>3. Followed(m, t, l, b)
  BY CutHere
<1> HIDE DEF u, b
<1>4. Followed(m, t, u, b)
  BY <1>2, <1>3 DEF Followed
<1>5. Stopped(u, b + 1)
  BY <1>2 DEF Stopped
<1>6. RefusedLog(m, t, u)
  BY <1>2, <1>4, <1>5 DEF RefusedLog
<1> QED BY <1>2, <1>6 DEF u

LEMMA StopGrows ==
  ASSUME NEW m, NEW t, NEW l \in Seq(Entries)
  PROVE  /\ Append(l, <<"P">>) \in Seq(Entries)
         /\ \A b \in Nat : Followed(m, t, l, b) => Followed(m, t, Append(l, <<"P">>), b)
         /\ \A b \in Nat : Stopped(l, b) => Stopped(Append(l, <<"P">>), b)
         /\ Cut(m, t, l) => Cut(m, t, Append(l, <<"P">>))
         /\ RefusedLog(m, t, l) => RefusedLog(m, t, Append(l, <<"P">>))
<1> DEFINE u == Append(l, <<"P">>)
<1>1. <<"P">> \in Entries
  BY DEF Entries
<1>2. /\ u \in Seq(Entries) /\ Len(l) \in Nat /\ Len(u) = Len(l) + 1
      /\ u[Len(l) + 1] = <<"P">>
      /\ \A n \in 1..Len(l) : u[n] = l[n]
  BY <1>1
<1> HIDE DEF u
<1>3. ASSUME NEW b \in Nat, Followed(m, t, l, b) PROVE Followed(m, t, u, b)
  BY <1>2, <1>3 DEF Followed
<1>4. ASSUME NEW b \in Nat, Stopped(l, b) PROVE Stopped(u, b)
  <2>1. \A n \in 1..Len(u) : n \in 1..Len(l) \/ n = Len(l) + 1
    BY <1>2
  <2> QED BY <1>2, <1>4, <2>1 DEF Stopped
<1>5. Cut(m, t, l) => Cut(m, t, u)
  <2> SUFFICES ASSUME NEW b \in Nat, Followed(m, t, l, b),
                      \/ Stopped(l, b)
                      \/ b + 1 <= Len(l) /\ l[b + 1] = <<"R">> /\ Stopped(l, b + 1)
               PROVE  Cut(m, t, u)
    BY DEF Cut
  <2>1. Followed(m, t, u, b)
    BY <1>3
  <2>2. CASE Stopped(l, b)
    BY <1>4, <2>1, <2>2 DEF Cut
  <2>3. CASE b + 1 <= Len(l) /\ l[b + 1] = <<"R">> /\ Stopped(l, b + 1)
    <3>1. b + 1 \in Nat /\ b + 1 <= Len(u) /\ u[b + 1] = l[b + 1]
      BY <1>2, <2>3
    <3>2. Stopped(u, b + 1)
      BY <1>4, <2>3, <3>1
    <3> QED BY <2>1, <2>3, <3>1, <3>2 DEF Cut
  <2> QED BY <2>2, <2>3
<1>6. RefusedLog(m, t, l) => RefusedLog(m, t, u)
  <2> SUFFICES ASSUME NEW b \in Nat, b + 1 <= Len(l), Followed(m, t, l, b), l[b + 1] \in Refusal,
                      Stopped(l, b + 1)
               PROVE  RefusedLog(m, t, u)
    BY DEF RefusedLog
  <2>1. b + 1 \in Nat /\ b + 1 <= Len(u) /\ u[b + 1] = l[b + 1]
    BY <1>2
  <2>2. Followed(m, t, u, b) /\ Stopped(u, b + 1)
    BY <1>3, <1>4, <2>1
  <2> QED BY <2>1, <2>2 DEF RefusedLog
<1> QED BY <1>2, <1>3, <1>4, <1>5, <1>6 DEF u


-----------------------------------------------------------------------------
(* The core of the handler                                                 *)

(* A command that brings place c about, as the bus sees it: the last of    *)
(* its bits is the device's, or the one it was commanded with.             *)
LEMMA SymbolsAre ==
  ASSUME NEW c \in Places(msgs), run = CommandFor(msgs, c), msgs \in Transfers,
         run \in {"START", "WRITE"} => txr = c, mux.num = target
  PROVE  /\ run \in ByteCommand
         /\ run \in {"START", "WRITE"} =>
              /\ Symbols(TRUE) = <<Event(msgs, target, c), <<"NACK">>>>
              /\ Symbols(FALSE) = <<Event(msgs, target, c)>>
         /\ run \notin {"START", "WRITE"} =>
              /\ Symbols(run = "READ_NACK") = <<Event(msgs, target, c)>>
              /\ Symbols(FALSE) = <<<<"R">>>>
<1>1. run \in ByteCommand
  BY DEF CommandFor, ByteCommand
<1>2. c[2] \in Nat /\ msgs[c[1]].rd \in BOOLEAN
  BY PlaceType, MessageFacts
<1>3. CASE c[2] = 0
  <2>1. run = "START" /\ txr = c /\ Event(msgs, target, c) = <<"S", c, target>>
    BY <1>3 DEF CommandFor, Event
  <2>2. Symbols(TRUE) = <<<<"S", c, target>>, <<"NACK">>>> /\ Symbols(FALSE) = <<<<"S", c, target>>>>
    BY <2>1 DEF Symbols, Answered
  <2> QED BY <1>1, <2>1, <2>2
<1>4. CASE c[2] # 0 /\ ~msgs[c[1]].rd
  <2>1. run = "WRITE" /\ txr = c /\ Event(msgs, target, c) = <<"W", c>>
    BY <1>4 DEF CommandFor, Event
  <2>2. Symbols(TRUE) = <<<<"W", c>>, <<"NACK">>>> /\ Symbols(FALSE) = <<<<"W", c>>>>
    BY <2>1 DEF Symbols, Answered
  <2> QED BY <1>1, <2>1, <2>2
<1>5. CASE c[2] # 0 /\ msgs[c[1]].rd /\ c[2] < msgs[c[1]].len
  <2>1. run = "READ_ACK" /\ Event(msgs, target, c) = <<"R">>
    BY <1>5 DEF CommandFor, Event
  <2> QED BY <1>1, <2>1 DEF Symbols
<1>6. CASE c[2] # 0 /\ msgs[c[1]].rd /\ ~(c[2] < msgs[c[1]].len)
  <2>1. run = "READ_NACK" /\ Event(msgs, target, c) = <<"RN">>
    BY <1>6 DEF CommandFor, Event
  <2> QED BY <1>1, <2>1 DEF Symbols
<1> QED BY <1>3, <1>4, <1>5, <1>6

(* What a step that commands a byte leaves.                                *)
LEMMA ByteCommanded ==
  ASSUME msgs \in Transfers, run = "none", en, ~al, NEW k \in 1..Len(msgs), NEW p \in Nat,
         <<k, p + 1>> \in Places(msgs), NextByte(k, msgs[k], p),
         LogIs(msgs, target, log, <<k, p + 1>>), BufIs(msgs, buf', <<k, p + 1>>),
         msgs' = msgs, target' = target, log' = log, msg' = k, nmsgs' = Len(msgs) + 1 - k,
         isr' = "out"
  PROVE  PlaceOK' /\ GoingOK' /\ state' \in {"READ", "WRITE"}
<1> DEFINE n == msgs[k].len
           c == <<k, p + 1>>
<1>1. n \in Nat /\ msgs[k].rd \in BOOLEAN /\ p + 1 <= n /\ p + 1 \in Nat /\ p + 1 # 0
  <2>1. p + 1 \in 0..msgs[k].len
    BY PlaceIs
  <2>2. n \in Nat /\ msgs[k].rd \in BOOLEAN
    BY MessageFacts
  <2> HIDE DEF n
  <2> QED BY <2>1, <2>2 DEF n
<1>2. c[1] = k /\ c[2] = p + 1 /\ c \in Places(msgs)
  OBVIOUS
<1>3. CASE msgs[k].rd
  <2>1. state' = "READ" /\ pos' = p
        /\ Command(IF p = n - 1 THEN "READ_NACK" ELSE "READ_ACK")
    BY <1>3 DEF NextByte
  <2>2. CommandFor(msgs, c) = IF p = n - 1 THEN "READ_NACK" ELSE "READ_ACK"
    <3>1. CommandFor(msgs, c) = IF p + 1 < n THEN "READ_ACK" ELSE "READ_NACK"
      BY <1>1, <1>2, <1>3 DEF CommandFor
    <3>2. p + 1 < n <=> p # n - 1
      <4> HIDE DEF n
      <4> QED BY <1>1
    <3> QED BY <3>1, <3>2
  <2>3. /\ run' = CommandFor(msgs, c) /\ cr' = CommandFor(msgs, c) /\ irq_flag' = FALSE
        /\ al' = FALSE
        /\ run' \in {"READ_NACK", "READ_ACK"}
    <3> DEFINE d == CommandFor(msgs, c)
    <3>1. Command(d) /\ d \in {"READ_NACK", "READ_ACK"}
      BY <2>1, <2>2
    <3> HIDE DEF d
    <3>2. run' = d /\ cr' = d /\ irq_flag' = FALSE /\ al' = FALSE
      BY <3>1 DEF Command
    <3> QED BY <3>1, <3>2 DEF d
  <2>4. Here' = c
    BY <2>1 DEF Here
  <2>5. (UnderWay(Here))'
    BY <1>2, <2>3, <2>4 DEF UnderWay
  <2>6. PlaceOK'
    BY <1>2, <1>3, <2>1, <2>4 DEF PlaceOK
  <2> QED BY <2>1, <2>3, <2>5, <2>6 DEF GoingOK, ByteCommand
<1>4. CASE ~msgs[k].rd
  <2>1. state' = "WRITE" /\ pos' = p + 1 /\ txr' = c /\ Command("WRITE")
    BY <1>4 DEF NextByte
  <2>2. CommandFor(msgs, c) = "WRITE"
    BY <1>1, <1>2, <1>4 DEF CommandFor
  <2>3. run' = "WRITE" /\ cr' = "WRITE" /\ irq_flag' = FALSE /\ al' = FALSE
    BY <2>1 DEF Command
  <2>4. Here' = c
    BY <2>1 DEF Here
  <2>5. (UnderWay(Here))'
    BY <1>2, <2>1, <2>2, <2>3, <2>4 DEF UnderWay
  <2>6. pos' \in Nat /\ pos' > 0
    BY <1>1, <2>1
  <2>7. PlaceOK'
    BY <1>2, <1>4, <2>1, <2>4, <2>6 DEF PlaceOK
  <2> QED BY <2>1, <2>3, <2>5, <2>7 DEF GoingOK, ByteCommand
<1> QED BY <1>1, <1>3, <1>4

LEMMA StartCommanded ==
  ASSUME msgs \in Transfers, run = "none", en, NEW k \in 1..Len(msgs),
         <<k, 0>> \in Places(msgs), state' = "START", pos' = 0, txr' = <<k, 0>>, Command("START"),
         LogIs(msgs, target, log, <<k, 0>>), BufIs(msgs, buf', <<k, 0>>),
         msgs' = msgs, target' = target, log' = log, msg' = k, nmsgs' = Len(msgs) + 1 - k,
         isr' = "out"
  PROVE  PlaceOK' /\ GoingOK'
<1> DEFINE c == <<k, 0>>
<1>1. c[1] = k /\ c[2] = 0 /\ c \in Places(msgs)
  OBVIOUS
<1>2. CommandFor(msgs, c) = "START"
  BY <1>1 DEF CommandFor
<1>3. run' = "START" /\ cr' = "START" /\ irq_flag' = FALSE /\ al' = FALSE
  BY DEF Command
<1>4. Here' = c
  BY DEF Here
<1>5. (UnderWay(Here))'
  BY <1>1, <1>2, <1>3, <1>4 DEF UnderWay
<1>6. PlaceOK'
  BY <1>1, <1>4 DEF PlaceOK
<1> QED BY <1>3, <1>5, <1>6 DEF GoingOK, ByteCommand

(* A driver that is over stays so until the next transfer, whatever the    *)
(* interrupt is acknowledged and wherever the thread is.                   *)
LEMMA StaysClosed ==
  ASSUME Closing, UNCHANGED <<poll, mux, run, txr, log, msgs, buf, state, target, ret>>,
         cr' \in {cr, "none"},
         pc' = pc \/ (ret \in {"none", "EBUSY"} /\ pc \notin {"deselect", "idle"}
                        /\ pc' \in {"wait", "asleep", "expired", "poll", "result"})
  PROVE  Closing'
<1>1. Over' /\ msgs' \in Transfers /\ mux'.num = target'
  BY DEF Closing, Over
<1>2. \/ ret \in {"none", "EBUSY"} /\ pc' \in {"wait", "asleep", "expired", "poll", "result"}
      \/ ret = "num" /\ state = "DONE" /\ pc' \in {"deselect", "idle"}
      \/ ret \in {"EIO", "ETIMEDOUT"} /\ state = "ERROR" /\ pc' \in {"deselect", "idle"}
  BY DEF Closing
<1>3. Complete => Complete'
  BY DEF Complete
<1>4. ASSUME NEW c, GivenUp(c) PROVE GivenUp(c)'
  BY <1>4 DEF GivenUp, UnderWay
<1> QED BY <1>1, <1>2, <1>3, <1>4 DEF Closing

(* The handler's core on an interrupt of a transfer that goes on.          *)
LEMMA ProcessLive ==
  ASSUME Filled, TypeOK, log \in Seq(Entries), Live, GoneOK,
         NEW s, s.nack = rxack, s.al = al, ocores_process(msg, s),
         UNCHANGED <<poll, mux, target, ret, pc>>, isr' = "out"
  PROVE  RInv'
<1>1. /\ rxr' = rxr /\ rxack' = rxack /\ log' = log /\ msgs' = msgs
      /\ poll' = poll /\ mux' = mux /\ target' = target /\ ret' = ret /\ pc' = pc
  BY DEF ocores_process
<1>2. /\ ~Over /\ msgs \in Transfers /\ mux.num = target /\ PlaceOK /\ run = "none"
      /\ irq_flag
      /\ ret \in {"none", "EBUSY"}
      /\ pc \in IF poll THEN {"poll"} ELSE {"wait", "asleep", "expired"}
      /\ en
  BY DEF Live, GoneOK, TypeOK
<1>3. /\ target \in Buses /\ log \in Seq(Entries) /\ al \in BOOLEAN /\ rxack \in BOOLEAN
      /\ state \in {"START", "READ", "WRITE"}
  BY <1>2 DEF TypeOK, Over
<1>4. pc \in {"wait", "asleep", "expired", "poll"}
  BY <1>2
<1>5. CASE al \/ (rxack /\ state # "READ")
  <2>1. StopWith("ERROR") /\ buf' = buf
    BY <1>2, <1>5 DEF ocores_process, Failed
  <2>2. state' = "ERROR" /\ run' = "STOP" /\ irq_flag' = FALSE /\ al' \in BOOLEAN
    BY <1>2, <1>3, <2>1 DEF StopWith, Command
  <2>3. RefusedLog(msgs, target, log)
    BY <1>5 DEF GoneOK
  <2>4. Closing'
    BY <1>1, <1>2, <1>4, <2>2, <2>3 DEF Closing, Over
  <2> QED BY <1>1, <1>3, <2>4 DEF RInv
<1>6. CASE ~(al \/ (rxack /\ state # "READ"))
  <2> DEFINE k == msg
             got == IF state = "READ" THEN 1 ELSE 0
             q == pos + got
             n == msgs[k].len
  <2>1. /\ ~al /\ LogIs(msgs, target, log, Next0) /\ (state = "READ" => rxr = Len(log))
    BY <1>6 DEF GoneOK
  <2>2. /\ buf' = IF state = "READ" THEN buf \cup {<<<<k, pos + 1>>, rxr>>} ELSE buf
        /\ IF q = n THEN EndOfMsg ELSE NextByte(k, msgs[k], q) /\ UNCHANGED <<msg, nmsgs>>
    <3>1. msg > 0
      <4>1. msg \in 1..Len(msgs) /\ Len(msgs) \in Nat
        BY <1>2, TransfersAssumption DEF PlaceOK
      <4> QED BY <4>1
    <3>2. Pointed(msg) = {msgs[msg]}
      BY <3>1 DEF Pointed
    <3>3. ~Failed(s)
      BY <1>6 DEF Failed
    <3> QED BY <1>2, <3>1, <3>2, <3>3 DEF ocores_process
  <2>3. /\ k \in 1..Len(msgs) /\ k \in Nat /\ Len(msgs) \in Nat /\ n \in Nat
        /\ pos \in Nat /\ q \in Nat
        /\ msgs[k].rd \in BOOLEAN /\ nmsgs = Len(msgs) + 1 - k
        /\ (state = "READ" => q = pos + 1) /\ (state # "READ" => q = pos)
    <3>1. k \in 1..Len(msgs) /\ pos \in Nat /\ nmsgs = Len(msgs) + 1 - k
      BY <1>2 DEF PlaceOK
    <3>2. n \in Nat /\ msgs[k].rd \in BOOLEAN /\ k \in Nat /\ Len(msgs) \in Nat
      BY <1>2, <3>1, MessageFacts, TransfersAssumption
    <3> QED BY <3>1, <3>2
  <2>4. Here = <<k, q>> /\ Next0 = <<k, q + 1>>
    BY <2>3 DEF Here, Next0
  <2>5. <<k, q>> \in Places(msgs) /\ BufIs(msgs, buf, <<k, q>>)
    BY <1>2, <2>4 DEF PlaceOK
  <2>6. LogIs(msgs, target, log, <<k, q + 1>>)
    BY <2>1, <2>4
  <2>7. Seen(msgs, <<k, q + 1>>) = Seen(msgs, <<k, q>>) \cup {<<k, q>>}
    BY <1>2, <2>5, SeenNext
  <2>8. <<k, q>> \in ToRead(msgs) <=> state = "READ"
    <3>1. <<k, q>> \in ToRead(msgs) <=> q > 0 /\ msgs[k].rd
      BY <2>5 DEF ToRead
    <3>2. /\ state = "START" => pos = 0
          /\ state = "READ" => msgs[k].rd
          /\ state = "WRITE" => ~msgs[k].rd
      BY <1>2 DEF PlaceOK
    <3> HIDE DEF k, q
    <3>3. state = "READ" => q > 0
      BY <2>3
    <3>4. state = "START" => ~(q > 0)
      BY <2>3, <3>2
    <3> QED BY <1>3, <3>1, <3>2, <3>3, <3>4
  <2>9. Number(msgs, <<k, q>>) = Len(log)
    <3> DEFINE c == <<k, q>>
    <3>1. {p \in Places(msgs) : p = c \/ Before(p, c)} = Seen(msgs, c) \cup {c}
      <4>1. c \in Places(msgs)
        BY <2>5
      <4> HIDE DEF c
      <4> QED BY <4>1 DEF Seen
    <3>2. Number(msgs, c) = Cardinality(Seen(msgs, c) \cup {c})
      <4> HIDE DEF c
      <4> QED BY <3>1 DEF Number
    <3> QED BY <2>6, <2>7, <3>2 DEF LogIs
  <2>10. BufIs(msgs, buf', <<k, q + 1>>)
    <3> DEFINE c == <<k, q>>
    <3>1. BufIs(msgs, IF c \in ToRead(msgs) THEN buf \cup {<<c, Number(msgs, c)>>} ELSE buf,
                <<k, q + 1>>)
      BY <1>2, <2>5, <2>7, BufGrows
    <3>2. buf' = IF c \in ToRead(msgs) THEN buf \cup {<<c, Number(msgs, c)>>} ELSE buf
      <4>1. CASE state = "READ"
        <5>1. buf' = buf \cup {<<<<k, pos + 1>>, rxr>>} /\ q = pos + 1
              /\ rxr = Number(msgs, c)
          BY <2>1, <2>2, <2>3, <2>9, <4>1
        <5> QED BY <2>8, <4>1, <5>1
      <4>2. CASE state # "READ"
        BY <2>2, <2>8, <4>2
      <4> QED BY <4>1, <4>2
    <3> QED BY <3>1, <3>2
  <2> HIDE DEF k, q, n
  <2>11. CASE q # n
    <3>1. NextByte(k, msgs[k], q) /\ msg' = k /\ nmsgs' = Len(msgs) + 1 - k
      BY <2>2, <2>3, <2>11 DEF k
    <3>2. <<k, q + 1>> \in Places(msgs)
      <4>1. q \in 0..n
        BY <1>2, <2>5, PlaceIs DEF n
      <4>2. q + 1 \in 0..n /\ q + 1 # 0
        BY <2>3, <2>11, <4>1
      <4> QED BY <1>2, <2>3, <4>2, PlaceIs DEF n
    <3>3. PlaceOK' /\ GoingOK' /\ state' \in {"READ", "WRITE"}
      BY <1>1, <1>2, <2>1, <2>3, <2>6, <2>10, <3>1, <3>2, ByteCommanded
    <3>4. Live'
      BY <1>1, <1>2, <3>3 DEF Live, Over
    <3> QED BY <1>1, <1>3, <3>4 DEF RInv
  <2>12. CASE q = n /\ nmsgs = 1
    <3>1. state' = "DONE" /\ Command("STOP")
      BY <2>2, <2>12 DEF EndOfMsg
    <3>2. run' = "STOP" /\ irq_flag' = FALSE /\ al' = al
      BY <1>2, <1>3, <3>1 DEF Command
    <3>3. k = Len(msgs)
      BY <2>3, <2>12
    <3>4. Seen(msgs, <<k, q + 1>>) = Places(msgs)
      BY <1>2, <2>3, <2>12, <3>3, SeenOver DEF n
    <3>5. IsFiniteSet(Places(msgs)) /\ Len(log) = Cardinality(Places(msgs))
      BY <2>6, <3>4 DEF LogIs
    <3>6. Followed(msgs, target, log, Len(log)) /\ Stopped(log, Len(log))
      BY <1>3, <2>6, CutHere
    <3>7. buf' = {<<p, Number(msgs, p)>> : p \in ToRead(msgs)}
      <4> DEFINE d == <<k, q + 1>>
      <4>1. Seen(msgs, d) = Places(msgs) /\ BufIs(msgs, buf', d)
        BY <2>10, <3>4
      <4> HIDE DEF d
      <4>2. {p \in ToRead(msgs) : Before(p, d)} = ToRead(msgs)
        BY <4>1 DEF Seen, ToRead
      <4> QED BY <4>1, <4>2 DEF BufIs
    <3>8. Complete'
      BY <1>1, <3>5, <3>6, <3>7 DEF Complete
    <3>9. Closing'
      BY <1>1, <1>2, <1>4, <3>1, <3>2, <3>5, <3>8 DEF Closing, Over
    <3> QED BY <1>1, <1>3, <3>9 DEF RInv
  <2>13. CASE q = n /\ nmsgs # 1
    <3> DEFINE j == k + 1
    <3>1. j \in 1..Len(msgs) /\ j \in Nat /\ j > 1
      BY <2>3, <2>13
    <3>2. msgs[j].len \in Nat /\ msgs[j].nostart \in BOOLEAN
      BY <1>2, <3>1, MessageFacts
    <3>3. msg' = j /\ nmsgs' = Len(msgs) + 1 - j
      <4>1. msg' = j /\ nmsgs' = nmsgs - 1
        BY <2>2, <2>13 DEF EndOfMsg, k
      <4>2. nmsgs - 1 = Len(msgs) + 1 - j
        BY <2>3
      <4> QED BY <4>1, <4>2
    <3>4. IF msgs[j].nostart THEN NextByte(j, msgs[j], 0) ELSE Start(j)
      BY <2>2, <2>13, <3>3 DEF EndOfMsg
    <3>5. CASE msgs[j].nostart
      <4>1. msgs[j].len > 0
        BY <1>2, <3>1, <3>5 DEF Filled
      <4>2. 0 + 1 \in 0..msgs[j].len /\ 0 + 1 # 0
        BY <3>2, <4>1
      <4>3. <<j, 0 + 1>> \in Places(msgs)
        BY <1>2, <3>1, <4>2, PlaceIs
      <4>4. Seen(msgs, <<j, 0 + 1>>) = Seen(msgs, <<k, q + 1>>)
        <5>1. Seen(msgs, <<j, 1>>) = Seen(msgs, <<k, q + 1>>)
          BY <1>2, <2>3, <2>13, <3>1, <3>5, SeenOver DEF n
        <5>2. 0 + 1 = 1
          OBVIOUS
        <5> QED BY <5>1, <5>2
      <4>5. LogIs(msgs, target, log, <<j, 0 + 1>>) /\ BufIs(msgs, buf', <<j, 0 + 1>>)
        BY <2>6, <2>10, <4>4, SeenSame
      <4>6. PlaceOK' /\ GoingOK' /\ state' \in {"READ", "WRITE"}
        <5> HIDE DEF j
        <5> QED BY <1>1, <1>2, <2>1, <3>1, <3>3, <3>4, <3>5, <4>3, <4>5, ByteCommanded
      <4>7. Live'
        BY <1>1, <1>2, <4>6 DEF Live, Over
      <4> QED BY <1>1, <1>3, <4>7 DEF RInv
    <3>6. CASE ~msgs[j].nostart
      <4>1. 0 \in 0..msgs[j].len
        BY <3>2
      <4>2. <<j, 0>> \in Places(msgs)
        BY <1>2, <3>1, <3>6, <4>1, PlaceIs
      <4>3. Seen(msgs, <<j, 0>>) = Seen(msgs, <<k, q + 1>>)
        BY <1>2, <2>3, <2>13, SeenOver DEF n
      <4>4. LogIs(msgs, target, log, <<j, 0>>) /\ BufIs(msgs, buf', <<j, 0>>)
        BY <2>6, <2>10, <4>3, SeenSame
      <4>5. state' = "START" /\ pos' = 0 /\ txr' = <<j, 0>> /\ Command("START")
        BY <3>4, <3>6 DEF Start
      <4>6. PlaceOK' /\ GoingOK'
        <5> HIDE DEF j
        <5> QED BY <1>1, <1>2, <3>1, <3>3, <4>2, <4>4, <4>5, StartCommanded
      <4>7. Live'
        BY <1>1, <1>2, <4>5, <4>6 DEF Live, Over
      <4> QED BY <1>1, <1>3, <4>7 DEF RInv
    <3> QED BY <3>2, <3>5, <3>6
  <2> QED BY <2>11, <2>12, <2>13
<1> QED BY <1>5, <1>6

(* On an interrupt that comes when the transfer is over.                   *)
LEMMA ProcessOver ==
  ASSUME log \in Seq(Entries), Closing, NEW k, NEW s, ocores_process(k, s),
         UNCHANGED <<poll, mux, target, ret>>, isr' = "out",
         pc' = pc \/ (pc = "asleep" /\ pc' = "wait")
  PROVE  RInv'
<1>1. /\ rxack' = rxack /\ log' = log /\ msgs' = msgs /\ Over
      /\ Command("IACK") /\ UNCHANGED <<txr, state, buf>>
  BY DEF ocores_process, Closing
<1>2. run' = run /\ cr' \in {cr, "none"}
  BY <1>1 DEF Command
<1>3. pc = "asleep" => ret \in {"none", "EBUSY"}
  BY DEF Closing
<1>4. Closing'
  BY <1>1, <1>2, <1>3, StaysClosed
<1> QED BY <1>1, <1>4 DEF RInv

-----------------------------------------------------------------------------
(* The types                                                               *)

LEMMA CommandType ==
  ASSUME TypeOK, NEW c \in ByteCommand \cup {"STOP", "IACK"}, Command(c)
  PROVE  irq_flag' \in BOOLEAN /\ al' \in BOOLEAN /\ run' \in ByteCommand \cup {"none", "STOP"}
BY DEF Command, TypeOK, ByteCommand

LEMMA ProcessType ==
  ASSUME TypeOK, NEW k, NEW s, ocores_process(k, s)
  PROVE  /\ irq_flag' \in BOOLEAN /\ al' \in BOOLEAN /\ run' \in ByteCommand \cup {"none", "STOP"}
         /\ state' \in {"START", "READ", "WRITE", "DONE", "ERROR"}
         /\ rxack' = rxack /\ en' = en /\ rested' = rested
<1>1. rxack' = rxack /\ en' = en /\ rested' = rested
  BY DEF ocores_process
<1>2. ASSUME StopWith("ERROR") PROVE Command("STOP") /\ state' = "ERROR"
  BY <1>2 DEF StopWith
<1>3. ASSUME NEW j, NEW m, NEW p, NextByte(j, m, p)
      PROVE  /\ Command("READ_NACK") \/ Command("READ_ACK") \/ Command("WRITE")
             /\ state' \in {"READ", "WRITE"}
  BY <1>3 DEF NextByte
<1>4. ASSUME EndOfMsg
      PROVE  \/ Command("STOP") /\ state' = "DONE"
             \/ NextByte(msg', msgs[msg'], 0)
             \/ Command("START") /\ state' = "START"
  BY <1>4 DEF EndOfMsg, Start
<1>5. \E c \in ByteCommand \cup {"STOP", "IACK"} : Command(c)
  BY <1>2, <1>3, <1>4 DEF ocores_process, ByteCommand
<1>6. state' \in {"START", "READ", "WRITE", "DONE", "ERROR"}
  BY <1>2, <1>3, <1>4 DEF ocores_process, TypeOK
<1> QED BY <1>1, <1>5, <1>6, CommandType

LEMMA BusType ==
  ASSUME TypeOK, Finish \/ LoseArbitration \/ BusFree \/ UNCHANGED vars
  PROVE  TypeOK'
<1>1. CASE Finish
  <2>1. /\ UNCHANGED <<poll, mux, en, al, rested, target, pc, isr, state>>
        /\ rxack' \in Nacks /\ run' \in {"none", "STOP"} /\ irq_flag' \in {irq_flag, TRUE}
    BY <1>1 DEF Finish, drv, thread, hand
  <2>2. Nacks \subseteq BOOLEAN
    BY DEF Nacks, TypeOK
  <2> QED BY <2>1, <2>2 DEF TypeOK
<1>2. CASE LoseArbitration
  BY <1>2 DEF LoseArbitration, TypeOK, drv, thread, hand
<1>3. CASE BusFree \/ UNCHANGED vars
  BY <1>3 DEF BusFree, vars, regs, bus, drv, thread, hand, TypeOK
<1> QED BY <1>1, <1>2, <1>3

LEMMA HandlerType ==
  ASSUME TypeOK, ocores_isr \/ IsrMsg \/ IsrProcess \/ ocores_process_polling
  PROVE  TypeOK'
<1>1. CASE ocores_isr
  BY <1>1 DEF ocores_isr, TypeOK, regs, bus, drv, thread
<1>2. CASE IsrMsg
  BY <1>2 DEF IsrMsg, TypeOK, regs, bus, drv, thread
<1>3. CASE IsrProcess
  <2>1. /\ isr' = "out" /\ UNCHANGED <<poll, mux, target>> /\ ocores_process(isrMsg, stat)
        /\ pc' = pc \/ (pc = "asleep" /\ pc' = "wait")
    BY <1>3 DEF IsrProcess
  <2>2. pc' \in Pc /\ (pc' # "idle" => pc # "idle") /\ (pc' = "poll" => pc = "poll")
    BY <2>1 DEF TypeOK, Pc
  <2> QED BY <2>1, <2>2, ProcessType DEF TypeOK
<1>4. CASE ocores_process_polling
  <2>1. /\ pc = "poll" /\ UNCHANGED <<poll, mux, target, isr>>
        /\ \/ ocores_process(msg, Status) /\ pc' = pc
           \/ pc' = "result" /\ UNCHANGED <<regs, bus, drv>>
    BY <1>4 DEF ocores_process_polling, hand
  <2>2. CASE ocores_process(msg, Status) /\ pc' = pc
    BY <2>1, <2>2, ProcessType DEF TypeOK
  <2>3. CASE pc' = "result" /\ UNCHANGED <<regs, bus, drv>>
    BY <2>1, <2>3 DEF TypeOK, Pc, regs, bus, drv
  <2> QED BY <2>1, <2>2, <2>3
<1> QED BY <1>1, <1>2, <1>3, <1>4

LEMMA ThreadType ==
  ASSUME TypeOK,
         \/ \E num \in Buses : ohwr_i2c_mux_select(num)
         \/ ohwr_i2c_mux_deselect \/ XferControl \/ ocores_xfer_core \/ XferStart
         \/ wait_event \/ Expire \/ ocores_process_timeout \/ XferResult
         \/ ocores_poll_wait \/ ocores_i2c_suspend \/ ocores_i2c_resume
  PROVE  TypeOK'
<1>1. ASSUME NEW num \in Buses, ohwr_i2c_mux_select(num) PROVE TypeOK'
  <2>1. /\ en /\ UNCHANGED <<poll, rxack, al, irq_flag, en, run, state, isr>> /\ target' = num
        /\ mux' \in {mux, [busy |-> TRUE, num |-> num]} /\ rested' = Quiet
        /\ pc' \in {"deselect", "selected"}
    BY <1>1 DEF ohwr_i2c_mux_select, At, regs, drv, hand
  <2>2. mux'.num \in Buses /\ Quiet \in BOOLEAN
    BY <2>1 DEF TypeOK, Quiet
  <2> QED BY <2>1, <2>2 DEF TypeOK, Pc
<1>2. CASE ohwr_i2c_mux_deselect
  BY <1>2 DEF ohwr_i2c_mux_deselect, At, TypeOK, Pc, regs, bus, drv, hand
<1>3. CASE XferControl
  BY <1>3 DEF XferControl, At, TypeOK, Pc, bus, drv, hand
<1>4. CASE ocores_xfer_core
  BY <1>4 DEF ocores_xfer_core, At, TypeOK, Pc, regs, bus
<1>5. CASE XferStart
  <2>1. /\ pc = "start" /\ pc' = (IF poll THEN "poll" ELSE "wait") /\ Command("START")
        /\ UNCHANGED <<poll, mux, en, rxack, rested, state, target, isr>>
    BY <1>5 DEF XferStart, At, drv, hand
  <2>2. pc' \in Pc /\ (pc' = "poll" => poll)
    BY <2>1 DEF TypeOK, Pc
  <2>3. irq_flag' \in BOOLEAN /\ al' \in BOOLEAN /\ run' \in ByteCommand \cup {"none", "STOP"}
    BY <2>1, CommandType DEF ByteCommand
  <2> QED BY <2>1, <2>2, <2>3 DEF TypeOK
<1>6. CASE wait_event \/ Expire
  <2>1. /\ pc \in {"wait", "asleep"} /\ pc' \in {"result", "asleep", "expired"}
        /\ UNCHANGED <<poll, mux, regs, bus, drv, target, isr>>
    BY <1>6 DEF wait_event, Expire, At, hand
  <2> QED BY <2>1 DEF TypeOK, Pc, regs, bus, drv
<1>7. CASE ocores_process_timeout
  <2>1. /\ pc = "expired" /\ pc' = "deselect" /\ Command("STOP") /\ state' = "ERROR"
        /\ UNCHANGED <<poll, mux, en, rxack, rested, target, isr>>
    BY <1>7 DEF ocores_process_timeout, StopWith, At, hand
  <2>2. irq_flag' \in BOOLEAN /\ al' \in BOOLEAN /\ run' \in ByteCommand \cup {"none", "STOP"}
    BY <2>1, CommandType
  <2> QED BY <2>1, <2>2 DEF TypeOK, Pc
<1>8. CASE XferResult
  BY <1>8 DEF XferResult, At, TypeOK, Pc, regs, bus, drv, hand
<1>9. CASE ocores_poll_wait
  BY <1>9 DEF ocores_poll_wait, At, TypeOK, Pc, regs, bus, hand
<1>10. CASE ocores_i2c_suspend
  BY <1>10 DEF ocores_i2c_suspend, TypeOK, bus, drv, thread, hand
<1>11. CASE ocores_i2c_resume
  BY <1>11 DEF ocores_i2c_resume, TypeOK, bus, drv, thread, hand
<1> QED BY <1>1, <1>2, <1>3, <1>4, <1>5, <1>6, <1>7, <1>8, <1>9, <1>10, <1>11

LEMMA NextType ==
  ASSUME TypeOK, [Next]_vars
  PROVE  TypeOK'
BY BusType, HandlerType, ThreadType DEF Next, Working

-----------------------------------------------------------------------------
(* The steps                                                               *)

(* What a step leaves that touches neither bus nor driver.                 *)
LEMMA RestStep ==
  ASSUME RInv, UNCHANGED <<poll, mux, cr, txr, rxr, rxack, al, irq_flag, run, log, drv, target,
                           ret, hand, pc>>
  PROVE  RInv'
<1>1. /\ msgs' = msgs /\ msg' = msg /\ pos' = pos /\ nmsgs' = nmsgs /\ state' = state
      /\ buf' = buf
      /\ isr' = isr /\ stat' = stat /\ isrMsg' = isrMsg
      /\ poll' = poll /\ mux' = mux /\ cr' = cr /\ txr' = txr /\ rxr' = rxr
      /\ rxack' = rxack
      /\ al' = al /\ irq_flag' = irq_flag /\ run' = run /\ log' = log /\ target' = target
      /\ ret' = ret /\ pc' = pc
  BY DEF drv, hand
<1>2. Before0 => Before0'
  BY <1>1 DEF Before0
<1>3. Live => Live'
  BY <1>1 DEF Live, Over, PlaceOK, GoingOK, GoneOK, UnderWay, Here, Next0
<1>4. Closing => Closing'
  BY <1>1, StaysClosed
<1> QED BY <1>1, <1>2, <1>3, <1>4 DEF RInv

LEMMA InitInv ==
  ASSUME Init
  PROVE  IInv
<1>1. mux.num \in Buses
  BY DEF Init
<1>2. log \in Seq(Entries) /\ pc \in Pc
  BY DEF Init, Pc
<1>3. TypeOK
  BY <1>1, <1>2 DEF Init, TypeOK
<1>4. Before0
  BY DEF Init, Before0
<1> QED BY <1>2, <1>3, <1>4 DEF IInv, RInv

LEMMA LogAppended ==
  ASSUME NEW l \in Seq(Entries), NEW e \in Entries, NEW f \in Entries
  PROVE  l \o <<e>> = Append(l, e) /\ l \o <<e, f>> = Append(Append(l, e), f)
OBVIOUS

(* A byte is done, or refused; or a stop.                                  *)
LEMMA FinishStep ==
  ASSUME TypeOK, RInv, rested, Finish
  PROVE  RInv'
<1>1. /\ run # "none" /\ (Live \/ Closing)
      /\ poll' = poll /\ mux' = mux /\ txr' = txr /\ al' = al /\ target' = target
      /\ ret' = ret
      /\ pc' = pc /\ isr' = isr /\ stat' = stat /\ isrMsg' = isrMsg
      /\ msgs' = msgs /\ msg' = msg /\ pos' = pos /\ nmsgs' = nmsgs /\ state' = state
      /\ buf' = buf
  BY DEF Finish, RInv, Before0, drv, thread, hand
<1>2. PICK nack \in Nacks : rxack' = nack /\ log' = log \o Symbols(nack)
  BY DEF Finish, Logged
<1>3. /\ msgs \in Transfers /\ mux.num = target /\ target \in Buses /\ log \in Seq(Entries)
      /\ run \in ByteCommand \cup {"STOP"} /\ nack \in BOOLEAN
  BY <1>1 DEF Live, Closing, TypeOK, RInv, Nacks
<1>4. /\ rxr' = IF run \in {"READ_ACK", "READ_NACK"} THEN Len(log) + 1 ELSE rxr
      /\ IF cr = "STOP" /\ run # "STOP" THEN run' = "STOP" /\ cr' = cr /\ irq_flag' = irq_flag
                                        ELSE run' = "none" /\ irq_flag' = TRUE
  BY DEF Finish
<1>5. run' \in {"none", "STOP"}
  BY <1>4
<1>6. /\ <<"P">> \in Entries /\ <<"NACK">> \in Entries /\ <<"R">> \in Entries
      /\ <<"NACK">> \in Refusal
  BY DEF Entries, Refusal
<1>7. CASE run = "STOP"
  <2>1. Symbols(nack) = <<<<"P">>>>
    BY <1>7 DEF Symbols
  <2>2. log' = Append(log, <<"P">>) /\ log' \in Seq(Entries)
    BY <1>2, <1>3, <1>6, <2>1, LogAppended, StopGrows
  <2>3. Closing
    BY <1>1, <1>3, <1>7, SymbolsAre DEF Live, GoingOK, GoneOK, UnderWay, ByteCommand
  <2>4. state = "DONE" => Complete'
    <3> SUFFICES ASSUME state = "DONE" PROVE Complete'
      OBVIOUS
    <3>1. Complete /\ Cardinality(Places(msgs)) \in Nat
      BY <2>3, FS_CardinalityType DEF Closing
    <3>2. Followed(msgs, target, log', Cardinality(Places(msgs)))
          /\ Stopped(log', Cardinality(Places(msgs)))
      BY <1>3, <2>2, <3>1, StopGrows DEF Complete
    <3> QED BY <1>1, <3>1, <3>2 DEF Complete
  <2>5. Cut(msgs, target, log) => Cut(msgs, target, log')
    BY <1>3, <2>2, StopGrows
  <2>6. RefusedLog(msgs, target, log) => RefusedLog(msgs, target, log')
    BY <1>3, <2>2, StopGrows
  <2>7. ~\E c \in Places(msgs) : GivenUp(c)
    BY <1>3, <1>7, SymbolsAre DEF GivenUp, UnderWay, ByteCommand
  <2>8. Closing'
    BY <1>1, <1>5, <1>7, <2>3, <2>4, <2>5, <2>6, <2>7 DEF Closing, Over
  <2> QED BY <2>2, <2>8 DEF RInv
<1>8. CASE run # "STOP"
  <2> DEFINE Lost == Closing /\ state = "ERROR" /\ (poll \/ ret = "ETIMEDOUT")
  <2>1. PICK c \in Places(msgs) :
          /\ UnderWay(c)
          /\ \/ Live /\ GoingOK /\ c = Here
             \/ Lost /\ GivenUp(c)
    <3>1. CASE Live
      <4>1. GoingOK /\ Here \in Places(msgs)
        BY <1>1, <3>1 DEF Live, GoneOK, PlaceOK
      <4> QED BY <3>1, <4>1 DEF GoingOK
    <3>2. CASE Closing
      BY <1>1, <1>8, <3>2 DEF Closing, Over, GivenUp
    <3> QED BY <1>1, <3>1, <3>2
  <2> DEFINE k == c[1]
             b == c[2]
             e == Event(msgs, target, c)
             l == Append(log, e)
  <2>2. c = <<k, b>> /\ b \in Nat /\ e \in Entries
    BY <1>3, PlaceType, EventType
  <2>3. Seen(msgs, <<k, b + 1>>) = Seen(msgs, c) \cup {c}
    BY <1>3, <2>2, SeenNext
  <2>4. LogIs(msgs, target, log, c)
    BY <2>1 DEF UnderWay
  <2>5. LogIs(msgs, target, l, <<k, b + 1>>)
    BY <1>3, <2>3, <2>4, LogGrows
  <2>6. l \in Seq(Entries) /\ Len(l) = Len(log) + 1
    BY <1>3, <2>2
  <2>7. /\ run \in ByteCommand
        /\ run \in {"START", "WRITE"} =>
             Symbols(nack) = IF nack THEN <<e, <<"NACK">>>> ELSE <<e>>
        /\ run \notin {"START", "WRITE"} =>
             /\ Symbols(run = "READ_NACK") = <<e>>
             /\ Symbols(FALSE) = <<<<"R">>>>
    BY <1>3, <2>1, SymbolsAre DEF UnderWay
  <2> HIDE DEF e
  <2>8. \/ log' = Append(l, <<"NACK">>) /\ nack /\ run \in {"START", "WRITE"}
        \/ log' = l /\ (~nack \/ run \in {"READ_ACK", "READ_NACK"})
        \/ log' = Append(log, <<"R">>) /\ Lost
    <3>1. CASE run \in {"START", "WRITE"}
      <4>1. CASE nack
        <5>1. log' = log \o <<e, <<"NACK">>>>
          BY <1>2, <2>7, <3>1, <4>1
        <5> QED BY <1>3, <1>6, <2>2, <3>1, <4>1, <5>1, LogAppended
      <4>2. CASE ~nack
        <5>1. log' = log \o <<e>>
          BY <1>2, <2>7, <3>1, <4>2
        <5> QED BY <1>3, <2>2, <4>2, <5>1, LogAppended
      <4> QED BY <4>1, <4>2
    <3>2. CASE run \notin {"START", "WRITE"} /\ nack = (run = "READ_NACK")
      <4>1. run \in {"READ_ACK", "READ_NACK"} /\ Symbols(nack) = <<e>>
        BY <2>7, <3>2 DEF ByteCommand
      <4> QED BY <1>2, <1>3, <2>2, <4>1, LogAppended
    <3>3. CASE run \notin {"START", "WRITE"} /\ nack # (run = "READ_NACK")
      <4>1. run \in {"READ_ACK", "READ_NACK"} /\ nack = (cr = "READ_NACK")
        BY <1>2, <1>8, <2>7, <3>3 DEF Nacks, ByteCommand
      <4>2. cr # run
        BY <3>3, <4>1
      <4>3. Lost /\ cr \in {"STOP", "none"}
        BY <2>1, <4>2 DEF GoingOK, GivenUp
      <4>4. Symbols(nack) = <<<<"R">>>>
        BY <2>7, <3>3, <4>1, <4>3
      <4> QED BY <1>2, <1>3, <1>6, <4>3, <4>4, LogAppended
    <3> QED BY <3>1, <3>2, <3>3
  <2>9. CASE log' = Append(l, <<"NACK">>) /\ nack /\ run \in {"START", "WRITE"}
    <3>1. RefusedLog(msgs, target, log') /\ log' \in Seq(Entries)
      <4> HIDE DEF l
      <4> QED BY <1>6, <2>5, <2>6, <2>9, RefusedHere
    <3>2. CASE Live /\ GoingOK /\ c = Here
      <4>1. rxack' = TRUE
        BY <1>2, <1>3, <2>9
      <4>2. cr # "STOP" /\ isr = "out" /\ PlaceOK /\ ~Over
        BY <1>8, <3>2 DEF GoingOK, Live
      <4>3. state # "READ"
        <5> SUFFICES ASSUME state = "READ" PROVE FALSE
          OBVIOUS
        <5>1. msgs[msg].rd /\ pos \in Nat /\ Here = <<msg, pos + 1>>
          BY <4>2 DEF PlaceOK, Here
        <5>2. c[1] = msg /\ c[2] # 0
          BY <3>2, <5>1
        <5>3. run \notin {"START", "WRITE"}
          BY <2>1, <5>1, <5>2 DEF UnderWay, CommandFor
        <5> QED BY <2>9, <5>3
      <4>4. run' = "none" /\ irq_flag' = TRUE
        BY <1>4, <4>2
      <4>5. GoneOK'
        BY <1>1, <3>1, <4>1, <4>2, <4>3, <4>4 DEF GoneOK
      <4>6. PlaceOK'
        BY <1>1, <4>2 DEF PlaceOK, Here
      <4>7. Live'
        BY <1>1, <3>2, <4>5, <4>6 DEF Live, Over
      <4> QED BY <3>1, <4>7 DEF RInv
    <3>3. CASE Lost
      <4>1. Closing'
        BY <1>1, <1>5, <3>1, <3>3 DEF Closing, Over
      <4> QED BY <3>1, <4>1 DEF RInv
    <3> QED BY <2>1, <3>2, <3>3
  <2>10. CASE log' = l /\ (~nack \/ run \in {"READ_ACK", "READ_NACK"})
    <3>1. LogIs(msgs, target, log', <<k, b + 1>>) /\ log' \in Seq(Entries)
          /\ Len(log') = Len(log) + 1
      BY <2>5, <2>6, <2>10
    <3>2. CASE Live /\ GoingOK /\ c = Here
      <4>1. cr # "STOP" /\ isr = "out" /\ PlaceOK /\ ~Over /\ ~al
        BY <1>8, <3>2 DEF GoingOK, Live
      <4>2. run' = "none" /\ irq_flag' = TRUE
        BY <1>4, <4>1
      <4>3. /\ state = "READ" \/ ~rxack'
            /\ state = "READ" => rxr' = Len(log')
        <5>1. CASE state = "READ"
          <6>1. msgs[msg].rd /\ pos \in Nat /\ Here = <<msg, pos + 1>>
            BY <4>1, <5>1 DEF PlaceOK, Here
          <6>2. c[1] = msg /\ c[2] # 0
            BY <3>2, <6>1
          <6>3. run \in {"READ_ACK", "READ_NACK"}
            BY <2>1, <6>1, <6>2 DEF UnderWay, CommandFor
          <6> QED BY <1>4, <3>1, <5>1, <6>3
        <5>2. CASE state # "READ"
          <6>1. Here = <<msg, pos>> /\ (pos = 0 \/ ~msgs[msg].rd)
            BY <4>1, <5>2 DEF PlaceOK, Here, TypeOK, Over
          <6>2. c[1] = msg /\ (c[2] = 0 \/ ~msgs[msg].rd)
            BY <3>2, <6>1
          <6>3. run \in {"START", "WRITE"}
            BY <2>1, <6>2 DEF UnderWay, CommandFor
          <6> QED BY <1>2, <2>10, <5>2, <6>3
        <5> QED BY <5>1, <5>2
      <4>4. Next0' = <<k, b + 1>>
        BY <1>1, <3>2 DEF Next0, Here
      <4>5. (LogIs(msgs, target, log, Next0))'
        BY <1>1, <3>1, <4>4
      <4>6. GoneOK'
        BY <1>1, <4>1, <4>2, <4>3, <4>5 DEF GoneOK
      <4>7. PlaceOK'
        BY <1>1, <4>1 DEF PlaceOK, Here
      <4>8. Live'
        BY <1>1, <3>2, <4>6, <4>7 DEF Live, Over
      <4> QED BY <3>1, <4>8 DEF RInv
    <3>3. CASE Lost
      <4>1. Cut(msgs, target, log')
        BY <3>1, CutHere
      <4>2. Closing'
        BY <1>1, <1>5, <3>3, <4>1 DEF Closing, Over
      <4> QED BY <3>1, <4>2 DEF RInv
    <3> QED BY <2>1, <3>2, <3>3
  <2>11. CASE log' = Append(log, <<"R">>) /\ Lost
    <3>1. Cut(msgs, target, log') /\ log' \in Seq(Entries)
      BY <1>3, <2>4, <2>11, CutAfterRead
    <3>2. Closing'
      BY <1>1, <1>5, <2>11, <3>1 DEF Closing, Over
    <3> QED BY <3>1, <3>2 DEF RInv
  <2> QED BY <2>8, <2>9, <2>10, <2>11
<1> QED BY <1>7, <1>8

LEMMA LoseStep ==
  ASSUME RInv, rested, LoseArbitration
  PROVE  RInv'
<1>1. /\ run \notin {"none", "STOP"} /\ (Live \/ Closing)
      /\ log \in Seq(Entries) /\ log' = log \o <<<<"AL">>>> /\ al' = TRUE /\ run' = "none" /\ irq_flag' = TRUE
      /\ poll' = poll /\ mux' = mux /\ txr' = txr /\ rxr' = rxr /\ rxack' = rxack
      /\ target' = target /\ ret' = ret /\ pc' = pc /\ isr' = isr /\ stat' = stat
      /\ isrMsg' = isrMsg
      /\ msgs' = msgs /\ msg' = msg /\ pos' = pos /\ nmsgs' = nmsgs /\ state' = state
      /\ buf' = buf
  BY DEF LoseArbitration, Logged, RInv, Before0, drv, thread, hand
<1>2. PICK c : /\ LogIs(msgs, target, log, c)
               /\ \/ Live /\ GoingOK
                  \/ Closing /\ state = "ERROR" /\ (poll \/ ret = "ETIMEDOUT")
  <2>1. CASE Live
    BY <1>1, <2>1 DEF Live, GoneOK, GoingOK, UnderWay
  <2>2. CASE Closing
    BY <1>1, <2>2 DEF Closing, Over, GivenUp, UnderWay
  <2> QED BY <1>1, <2>1, <2>2
<1>3. <<"AL">> \in Refusal /\ <<"AL">> \in Entries
  BY DEF Refusal, Entries
<1>4. RefusedLog(msgs, target, log') /\ log' \in Seq(Entries)
  <2>1. log' = Append(log, <<"AL">>)
    BY <1>1, <1>3, LogAppended
  <2> QED BY <1>1, <1>2, <1>3, <2>1, RefusedHere
<1>6. CASE Live /\ GoingOK
  <2>1. isr = "out" /\ PlaceOK
    BY <1>6 DEF GoingOK, Live
  <2>2. GoneOK'
    BY <1>1, <1>4, <2>1 DEF GoneOK
  <2>3. PlaceOK'
    BY <1>1, <2>1 DEF PlaceOK, Here
  <2>4. Live'
    BY <1>1, <1>6, <2>2, <2>3 DEF Live, Over
  <2> QED BY <1>4, <2>4 DEF RInv
<1>7. CASE Closing /\ state = "ERROR" /\ (poll \/ ret = "ETIMEDOUT")
  <2>1. Closing'
    BY <1>1, <1>4, <1>7 DEF Closing, Over
  <2> QED BY <1>4, <2>1 DEF RInv
<1> QED BY <1>2, <1>6, <1>7

(* Thread and handler, where neither bus nor driver moves.                 *)
LEMMA StaysLive ==
  ASSUME Live, UNCHANGED <<poll, mux, cr, txr, rxr, rxack, al, irq_flag, run, log, drv, target,
                           ret, hand>>,
         pc' \in IF poll THEN {"poll"} ELSE {"wait", "asleep", "expired"}
  PROVE  Live'
<1>1. /\ msgs' = msgs /\ msg' = msg /\ pos' = pos /\ nmsgs' = nmsgs /\ state' = state
      /\ buf' = buf
      /\ isr' = isr /\ stat' = stat /\ isrMsg' = isrMsg
  BY DEF drv, hand
<1>2. PlaceOK => PlaceOK'
  BY <1>1 DEF PlaceOK, Here
<1>3. GoingOK => GoingOK'
  BY <1>1 DEF GoingOK, UnderWay, Here
<1>4. GoneOK => GoneOK'
  BY <1>1 DEF GoneOK, Next0
<1> QED BY <1>1, <1>2, <1>3, <1>4 DEF Live, Over

LEMMA ThreadMoves ==
  ASSUME log \in Seq(Entries), Live \/ Closing,
         UNCHANGED <<poll, mux, regs, bus, drv, target, ret, hand>>,
         pc \in {"wait", "asleep"}, pc' \in {"wait", "asleep", "expired", "result"},
         pc' = "result" => Over
  PROVE  RInv'
<1>1. /\ poll' = poll /\ mux' = mux /\ cr' = cr /\ txr' = txr /\ rxr' = rxr
      /\ rxack' = rxack
      /\ al' = al /\ irq_flag' = irq_flag /\ run' = run /\ log' = log /\ target' = target
      /\ ret' = ret /\ drv' = drv /\ hand' = hand /\ msgs' = msgs /\ buf' = buf
      /\ state' = state
      /\ isr' = isr
  BY DEF regs, bus, drv, hand
<1>3. CASE Live
  <2>1. pc' \in IF poll THEN {"poll"} ELSE {"wait", "asleep", "expired"}
    BY <1>3 DEF Live
  <2>2. Live'
    BY <1>1, <1>3, <2>1, StaysLive
  <2> QED BY <1>1, <2>2 DEF RInv
<1>4. CASE Closing
  <2>1. ret \in {"none", "EBUSY"}
    BY <1>4 DEF Closing
  <2>2. Closing'
    BY <1>1, <1>4, <2>1, StaysClosed
  <2> QED BY <1>1, <2>2 DEF RInv
<1> QED BY <1>3, <1>4

LEMMA WaitStep ==
  ASSUME RInv, wait_event
  PROVE  RInv'
<1>1. pc = "wait" /\ pc' = (IF Over THEN "result" ELSE "asleep")
      /\ UNCHANGED <<poll, mux, regs, bus, drv, target, ret, hand>>
  BY DEF wait_event, At
<1>2. log \in Seq(Entries) /\ (Live \/ Closing)
  BY <1>1 DEF RInv, Before0
<1> QED BY <1>1, <1>2, ThreadMoves

LEMMA ExpireStep ==
  ASSUME RInv, Expire
  PROVE  RInv'
<1>1. pc = "asleep" /\ pc' = (IF Over THEN "result" ELSE "expired")
      /\ UNCHANGED <<poll, mux, regs, bus, drv, target, ret, hand>>
  BY DEF Expire, At
<1>2. log \in Seq(Entries) /\ (Live \/ Closing)
  BY <1>1 DEF RInv, Before0
<1> QED BY <1>1, <1>2, ThreadMoves

LEMMA ResultStep ==
  ASSUME RInv, XferResult
  PROVE  RInv'
<1>1. /\ pc = "result" /\ pc' = "deselect" /\ ret' = IF state = "DONE" THEN "num" ELSE "EIO"
      /\ poll' = poll /\ mux' = mux /\ txr' = txr /\ rxack' = rxack /\ al' = al
      /\ irq_flag' = irq_flag /\ run' = run /\ log' = log /\ target' = target
      /\ msgs' = msgs /\ buf' = buf /\ state' = state /\ isr' = isr
      /\ cr' = cr
  BY DEF XferResult, At, regs, bus, drv, hand
<1>2. Closing /\ log \in Seq(Entries)
  BY <1>1 DEF RInv, Before0, Live
<1>3. ret \in {"none", "EBUSY"} /\ ret # "ETIMEDOUT" /\ state \in {"DONE", "ERROR"}
  BY <1>1, <1>2 DEF Closing, Over
<1>4. Complete => Complete'
  BY <1>1 DEF Complete
<1>5. ASSUME NEW c, GivenUp(c) PROVE GivenUp(c)'
  BY <1>1, <1>5 DEF GivenUp, UnderWay
<1>6. Closing'
  BY <1>1, <1>2, <1>3, <1>4, <1>5 DEF Closing, Over
<1> QED BY <1>1, <1>2, <1>6 DEF RInv

(* The timeout, whatever the handler made of the transfer meanwhile.       *)
LEMMA TimeoutStep ==
  ASSUME TypeOK, RInv, ocores_process_timeout
  PROVE  RInv'
<1>1. /\ pc = "expired" /\ pc' = "deselect" /\ ret' = "ETIMEDOUT" /\ state' = "ERROR"
      /\ Command("STOP") /\ txr' = txr
      /\ poll' = poll /\ mux' = mux /\ rxack' = rxack /\ log' = log /\ target' = target
      /\ msgs' = msgs /\ buf' = buf /\ isr' = isr
  BY DEF ocores_process_timeout, StopWith, At, hand
<1>2. Live \/ Closing
  BY <1>1 DEF RInv, Before0
<1>3. /\ msgs \in Transfers /\ mux.num = target /\ log \in Seq(Entries) /\ en
      /\ run \in ByteCommand \cup {"none", "STOP"}
  BY <1>1, <1>2 DEF Live, Closing, TypeOK, RInv
<1>4. run' = (IF run = "none" THEN "STOP" ELSE run) /\ cr' = "STOP"
  BY <1>3, <1>1 DEF Command
<1>5. \/ run \in {"none", "STOP"} /\ (RefusedLog(msgs, target, log) \/ Cut(msgs, target, log))
      \/ \E c \in Places(msgs) : UnderWay(c)
  <2>1. CASE Live
    <3>1. CASE GoingOK /\ Here \in Places(msgs)
      BY <3>1 DEF GoingOK, UnderWay
    <3>2. CASE GoneOK
      BY <1>3, <3>2, CutHere DEF GoneOK
    <3> QED BY <2>1, <3>1, <3>2 DEF Live, PlaceOK
  <2>2. CASE Closing /\ state = "DONE"
    <3>1. Complete /\ Cardinality(Places(msgs)) \in Nat /\ run \in {"none", "STOP"}
      BY <2>2, FS_CardinalityType DEF Closing
    <3> QED BY <3>1 DEF Complete, Cut
  <2>3. CASE Closing /\ state = "ERROR"
    BY <2>3 DEF Closing, GivenUp
  <2> QED BY <1>2, <2>1, <2>2, <2>3 DEF Closing, Over
<1>6. ASSUME NEW c \in Places(msgs), UnderWay(c) PROVE GivenUp(c)'
  <2>1. run # "none"
    BY <1>3, <1>6, SymbolsAre DEF UnderWay, ByteCommand
  <2> QED BY <1>1, <1>4, <1>6, <2>1 DEF GivenUp, UnderWay
<1>7. Closing'
  BY <1>1, <1>3, <1>4, <1>5, <1>6 DEF Closing, Over
<1> QED BY <1>1, <1>3, <1>7 DEF RInv

LEMMA IsrStep ==
  ASSUME RInv, ocores_isr
  PROVE  RInv'
<1>1. /\ isr = "out" /\ irq_flag /\ isr' = "status" /\ stat' = Status
      /\ poll' = poll /\ mux' = mux /\ cr' = cr /\ txr' = txr /\ rxr' = rxr
      /\ rxack' = rxack
      /\ al' = al /\ irq_flag' = irq_flag /\ run' = run /\ log' = log /\ target' = target
      /\ ret' = ret /\ pc' = pc
      /\ msgs' = msgs /\ msg' = msg /\ pos' = pos /\ nmsgs' = nmsgs /\ state' = state
      /\ buf' = buf
  BY DEF ocores_isr, regs, bus, drv, thread
<1>2. (Live \/ Closing) /\ log \in Seq(Entries) /\ ~poll
  BY DEF RInv, Before0, ocores_isr
<1>3. CASE Live
  <2>1. GoneOK /\ PlaceOK
    BY <1>1, <1>3 DEF Live, GoingOK
  <2>2. stat'.nack = rxack /\ stat'.al = al
    BY <1>1 DEF Status
  <2>3. GoneOK'
    BY <1>1, <2>1, <2>2 DEF GoneOK, Next0
  <2>4. PlaceOK'
    BY <1>1, <2>1 DEF PlaceOK, Here
  <2>5. Live'
    BY <1>1, <1>3, <2>3, <2>4 DEF Live, Over
  <2> QED BY <1>1, <1>2, <2>5 DEF RInv
<1>4. CASE Closing
  <2>1. Closing'
    BY <1>1, <1>4, StaysClosed
  <2> QED BY <1>1, <1>2, <2>1 DEF RInv
<1> QED BY <1>2, <1>3, <1>4

LEMMA IsrMsgStep ==
  ASSUME RInv, IsrMsg
  PROVE  RInv'
<1>1. /\ isr = "status" /\ isr' = "read" /\ isrMsg' = msg /\ stat' = stat
      /\ poll' = poll /\ mux' = mux /\ cr' = cr /\ txr' = txr /\ rxr' = rxr
      /\ rxack' = rxack
      /\ al' = al /\ irq_flag' = irq_flag /\ run' = run /\ log' = log /\ target' = target
      /\ ret' = ret /\ pc' = pc
      /\ msgs' = msgs /\ msg' = msg /\ pos' = pos /\ nmsgs' = nmsgs /\ state' = state
      /\ buf' = buf
  BY DEF IsrMsg, regs, bus, drv, thread
<1>2. (Live \/ Closing) /\ log \in Seq(Entries)
  BY <1>1 DEF RInv, Before0
<1>3. CASE Live
  <2>1. GoneOK /\ PlaceOK
    BY <1>1, <1>3 DEF Live, GoingOK
  <2>2. GoneOK'
    BY <1>1, <2>1 DEF GoneOK, Next0
  <2>3. PlaceOK'
    BY <1>1, <2>1 DEF PlaceOK, Here
  <2>4. Live'
    BY <1>1, <1>3, <2>2, <2>3 DEF Live, Over
  <2> QED BY <1>1, <1>2, <2>4 DEF RInv
<1>4. CASE Closing
  <2>1. Closing'
    BY <1>1, <1>4, StaysClosed
  <2> QED BY <1>1, <1>2, <2>1 DEF RInv
<1> QED BY <1>2, <1>3, <1>4

LEMMA IsrProcessStep ==
  ASSUME Filled, TypeOK, RInv, IsrProcess
  PROVE  RInv'
<1>1. /\ isr = "read" /\ isr' = "out" /\ ocores_process(isrMsg, stat)
      /\ pc' = (IF Over /\ pc = "asleep" THEN "wait" ELSE pc)
      /\ UNCHANGED <<poll, mux, target, ret>>
  BY DEF IsrProcess
<1>2. (Live \/ Closing) /\ log \in Seq(Entries)
  BY <1>1 DEF RInv, Before0
<1>3. CASE Live
  <2>1. GoneOK /\ ~Over
    BY <1>1, <1>3 DEF Live, GoingOK
  <2>2. isrMsg = msg /\ stat.nack = rxack /\ stat.al = al
    BY <1>1, <2>1 DEF GoneOK
  <2>3. ocores_process(msg, stat) /\ pc' = pc
    BY <1>1, <2>1, <2>2
  <2> QED BY <1>1, <1>2, <1>3, <2>1, <2>2, <2>3, ProcessLive
<1>4. CASE Closing
  BY <1>1, <1>2, <1>4, ProcessOver
<1> QED BY <1>2, <1>3, <1>4

LEMMA PollingStep ==
  ASSUME Filled, TypeOK, RInv, ocores_process_polling
  PROVE  RInv'
<1>1. /\ pc = "poll" /\ PollReady /\ poll' = poll /\ mux' = mux /\ target' = target
      /\ ret' = ret
      /\ UNCHANGED hand /\ isr' = isr
  BY DEF ocores_process_polling, hand
<1>2. (Live \/ Closing) /\ log \in Seq(Entries)
  BY <1>1 DEF RInv, Before0
<1>3. CASE irq_flag
  <2>1. ocores_process(msg, Status) /\ pc' = pc
    BY <1>3 DEF ocores_process_polling
  <2>2. Status.nack = rxack /\ Status.al = al
    BY DEF Status
  <2>3. CASE Live
    <3>1. GoneOK /\ isr = "out"
      BY <1>1, <1>3, <2>3 DEF Live, GoingOK, TypeOK
    <3> QED BY <1>1, <1>2, <2>1, <2>2, <2>3, <3>1, ProcessLive
  <2>4. CASE Closing
    <3>1. isr' = "out"
      BY <1>1 DEF TypeOK
    <3> QED BY <1>1, <1>2, <2>1, <2>4, <3>1, ProcessOver
  <2> QED BY <1>2, <2>3, <2>4
<1>4. CASE ~irq_flag
  <2>1. pc' = "result" /\ UNCHANGED <<regs, bus, drv>>
    BY <1>4 DEF ocores_process_polling
  <2>2. Over
    <3> SUFFICES ASSUME ~Over PROVE FALSE
      OBVIOUS
    <3>1. cr \in {"none", "STOP"} /\ Live
      BY <1>1, <1>2 DEF PollReady, Tip, Closing
    <3>2. GoingOK /\ Here \in Places(msgs) /\ msgs \in Transfers /\ mux.num = target
      BY <1>4, <3>1 DEF Live, GoneOK, PlaceOK
    <3>3. cr \in ByteCommand
      BY <3>2, SymbolsAre DEF GoingOK, UnderWay
    <3> QED BY <3>1, <3>3 DEF ByteCommand
  <2>3. Closing /\ ret \in {"none", "EBUSY"}
    BY <1>1, <1>2, <2>2 DEF Live, Closing
  <2>4. /\ log' = log /\ run' = run /\ txr' = txr /\ rxack' = rxack /\ al' = al
        /\ irq_flag' = irq_flag /\ msgs' = msgs /\ state' = state /\ buf' = buf
        /\ cr' = cr
    BY <2>1 DEF regs, bus, drv
  <2>5. Closing'
    BY <1>1, <2>1, <2>3, <2>4, StaysClosed
  <2> QED BY <1>2, <2>4, <2>5 DEF RInv
<1> QED BY <1>3, <1>4

(* Polling gives up: on a byte, or on a bus that stays busy.               *)
LEMMA PollWaitStep ==
  ASSUME TypeOK, RInv, ocores_poll_wait
  PROVE  RInv'
<1>1. /\ pc = "poll" /\ pc' = "result" /\ state' = "ERROR" /\ ~PollReady
      /\ poll' = poll /\ mux' = mux /\ txr' = txr /\ rxack' = rxack /\ al' = al
      /\ irq_flag' = irq_flag /\ run' = run /\ log' = log /\ target' = target /\ ret' = ret
      /\ msgs' = msgs /\ buf' = buf /\ cr' = cr
  BY DEF ocores_poll_wait, At, regs, bus
<1>2. (Live \/ Closing) /\ log \in Seq(Entries)
  BY <1>1 DEF RInv, Before0
<1>3. msgs \in Transfers /\ mux.num = target /\ log \in Seq(Entries)
      /\ ret \in {"none", "EBUSY"}
  BY <1>1, <1>2 DEF Live, Closing
<1>4. \/ run \in {"none", "STOP"} /\ RefusedLog(msgs, target, log)
      \/ /\ poll \/ ret = "ETIMEDOUT"
         /\ \/ run \in {"none", "STOP"} /\ Cut(msgs, target, log)
            \/ \E c \in Places(msgs) : GivenUp(c)
  <2>1. CASE Live
    <3>1. poll
      BY <1>1, <2>1 DEF Live
    <3>2. CASE GoingOK /\ Here \in Places(msgs)
      BY <3>1, <3>2 DEF GoingOK, GivenUp
    <3>3. CASE GoneOK
      BY <1>3, <3>1, <3>3, CutHere DEF GoneOK
    <3> QED BY <2>1, <3>2, <3>3 DEF Live, PlaceOK
  <2>2. CASE Closing /\ state = "DONE"
    <3>1. Complete /\ Cardinality(Places(msgs)) \in Nat /\ run \in {"none", "STOP"}
      BY <2>2, FS_CardinalityType DEF Closing
    <3>2. poll
      BY <1>1 DEF TypeOK
    <3> QED BY <3>1, <3>2 DEF Complete, Cut
  <2>3. CASE Closing /\ state = "ERROR"
    BY <2>3 DEF Closing
  <2> QED BY <1>2, <2>1, <2>2, <2>3 DEF Closing, Over
<1>5. ASSUME NEW c, GivenUp(c) PROVE GivenUp(c)'
  BY <1>1, <1>5 DEF GivenUp, UnderWay
<1>6. Closing'
  BY <1>1, <1>3, <1>4, <1>5 DEF Closing, Over
<1> QED BY <1>1, <1>3, <1>6 DEF RInv

(* A transfer begins: whatever the one before has left, the master and the *)
(* handler at rest are all this one needs.                                 *)
LEMMA SelectStep ==
  ASSUME NEW num \in Buses, ohwr_i2c_mux_select(num), rested'
  PROVE  RInv'
<1>1. /\ pc' = (IF mux.busy THEN "deselect" ELSE "selected") /\ Quiet
      /\ mux' = (IF mux.busy THEN mux ELSE [busy |-> TRUE, num |-> num])
      /\ target' = num /\ ret' = (IF mux.busy THEN "EBUSY" ELSE "none") /\ log' = <<>>
      /\ poll' = poll /\ irq_flag' = irq_flag /\ run' = run /\ isr' = isr
  BY DEF ohwr_i2c_mux_select, At, regs, drv, hand
<1>2. run = "none" /\ isr = "out" /\ (poll \/ ~irq_flag)
  BY <1>1 DEF Quiet
<1>3. log' \in Seq(Entries)
  BY <1>1
<1>4. CASE mux.busy
  BY <1>1, <1>2, <1>3, <1>4 DEF Before0, RInv
<1>5. CASE ~mux.busy
  <2>1. mux'.num = num
    BY <1>1, <1>5
  <2> QED BY <1>1, <1>2, <1>3, <1>5, <2>1 DEF Before0, RInv
<1> QED BY <1>4, <1>5

LEMMA DeselectStep ==
  ASSUME RInv, ohwr_i2c_mux_deselect
  PROVE  RInv'
<1>1. /\ pc = "deselect" /\ pc' = "idle" /\ mux'.num = mux.num
      /\ poll' = poll /\ txr' = txr /\ rxack' = rxack /\ al' = al
      /\ irq_flag' = irq_flag /\ run' = run /\ log' = log /\ target' = target /\ ret' = ret
      /\ msgs' = msgs /\ buf' = buf /\ state' = state /\ isr' = isr /\ cr' = cr
  BY DEF ohwr_i2c_mux_deselect, At, regs, bus, drv, hand
<1>2. log \in Seq(Entries) /\ (Before0 \/ Closing)
  BY <1>1 DEF RInv, Live
<1>4. Before0 => Before0'
  BY <1>1 DEF Before0
<1>5. CASE Closing
  <2>1. Complete => Complete'
    BY <1>1 DEF Complete
  <2>2. ASSUME NEW c, GivenUp(c) PROVE GivenUp(c)'
    BY <1>1, <2>2 DEF GivenUp, UnderWay
  <2>3. Closing'
    BY <1>1, <1>5, <2>1, <2>2 DEF Closing, Over
  <2> QED BY <1>1, <1>2, <2>3 DEF RInv
<1> QED BY <1>1, <1>2, <1>4, <1>5 DEF RInv

LEMMA ControlStep ==
  ASSUME RInv, XferControl
  PROVE  RInv'
<1>1. /\ pc = "selected" /\ pc' = "control" /\ UNCHANGED <<poll, mux, irq_flag, run, log,
           target, ret, isr>>
  BY DEF XferControl, At, bus, hand
<1>2. Before0 /\ log \in Seq(Entries)
  BY <1>1 DEF RInv, Live, Closing
<1> QED BY <1>1, <1>2 DEF Before0, RInv

LEMMA CoreStep ==
  ASSUME RInv, ocores_xfer_core
  PROVE  RInv'
<1>1. /\ pc = "control" /\ pc' = "start" /\ msgs' \in Transfers /\ nmsgs' = Len(msgs')
      /\ msg' = 1 /\ pos' = 0 /\ state' = "START" /\ buf' = {}
      /\ poll' = poll /\ mux' = mux /\ irq_flag' = irq_flag /\ run' = run /\ log' = log
      /\ target' = target /\ ret' = ret /\ isr' = isr
  BY DEF ocores_xfer_core, At, regs, bus
<1>2. Before0 /\ log \in Seq(Entries)
  BY <1>1 DEF RInv, Live, Closing
<1> QED BY <1>1, <1>2 DEF Before0, RInv

LEMMA StartStep ==
  ASSUME TypeOK, RInv, XferStart
  PROVE  RInv'
<1>1. /\ pc = "start" /\ pc' = (IF poll THEN "poll" ELSE "wait")
      /\ txr' = <<msg, 0>> /\ Command("START")
      /\ poll' = poll /\ mux' = mux /\ rxack' = rxack /\ log' = log /\ target' = target
      /\ ret' = ret /\ isr' = isr
      /\ msgs' = msgs /\ msg' = msg /\ pos' = pos /\ nmsgs' = nmsgs /\ state' = state
      /\ buf' = buf
  BY DEF XferStart, At, drv, hand
<1>2. Before0 /\ log \in Seq(Entries) /\ en
  BY <1>1 DEF RInv, Live, Closing, TypeOK
<1>3. /\ log = <<>> /\ run = "none" /\ isr = "out" /\ ret \in {"none", "EBUSY"}
      /\ mux.num = target /\ msgs \in Transfers /\ state = "START" /\ buf = {}
      /\ msg = 1 /\ pos = 0 /\ nmsgs = Len(msgs)
  BY <1>1, <1>2 DEF Before0
<1>4. Seen(msgs, <<1, 0>>) = {} /\ <<1, 0>> \in Places(msgs) /\ 1 \in 1..Len(msgs)
  BY <1>3, SeenFirst, PlaceIs
<1>5. LogIs(msgs, target, log, <<1, 0>>)
  <2>1. Len(<<>>) = 0 /\ 1..0 = {}
    OBVIOUS
  <2> QED BY <1>3, <1>4, <2>1, FS_EmptySet DEF LogIs
<1>6. BufIs(msgs, buf', <<1, 0>>)
  BY <1>1, <1>3, <1>4 DEF BufIs, Seen, ToRead
<1>7. nmsgs' = Len(msgs) + 1 - 1
  <2>1. Len(msgs) \in Nat
    BY <1>3, TransfersAssumption
  <2> QED BY <1>1, <1>3, <2>1
<1>8. PlaceOK' /\ GoingOK'
  BY <1>1, <1>2, <1>3, <1>4, <1>5, <1>6, <1>7, StartCommanded
<1>9. Live'
  BY <1>1, <1>3, <1>8 DEF Live, Over
<1> QED BY <1>1, <1>2, <1>9 DEF RInv

LEMMA WorkingInv ==
  ASSUME Filled, TypeOK, RInv, rested, Working
  PROVE  RInv'
<1>1. CASE BusFree
  BY <1>1, RestStep DEF BusFree, regs, thread
<1> QED
  BY <1>1, FinishStep, IsrStep, IsrMsgStep, IsrProcessStep, DeselectStep, ControlStep, CoreStep,
     StartStep, WaitStep, TimeoutStep, ResultStep, PollingStep DEF Working

(* Only the beginning of a transfer decides whether it is at rest.         *)
LEMMA RestedStays ==
  ASSUME [Next]_vars, ~\E num \in Buses : ohwr_i2c_mux_select(num)
  PROVE  rested' = rested
<1>1. ASSUME Working PROVE rested' = rested
  BY <1>1 DEF Working, Finish, BusFree, ocores_isr, IsrMsg, IsrProcess, ohwr_i2c_mux_deselect,
       XferControl, ocores_xfer_core, XferStart, wait_event, ocores_process_timeout,
       XferResult, ocores_process_polling, ocores_process, bus
<1>2. ASSUME \/ LoseArbitration \/ Expire \/ ocores_poll_wait \/ ocores_i2c_suspend
             \/ ocores_i2c_resume \/ UNCHANGED vars
      PROVE  rested' = rested
  BY <1>2 DEF LoseArbitration, Expire, ocores_poll_wait, ocores_i2c_suspend,
       ocores_i2c_resume, vars, bus
<1> QED BY <1>1, <1>2 DEF Next

LEMMA NextInv ==
  ASSUME Filled, IInv, [Next]_vars
  PROVE  IInv'
<1>1. TypeOK'
  BY NextType DEF IInv
<1>2. ASSUME rested' PROVE RInv'
  <2>1. CASE \E num \in Buses : ohwr_i2c_mux_select(num)
    BY <1>2, <2>1, SelectStep
  <2>2. CASE ~\E num \in Buses : ohwr_i2c_mux_select(num)
    <3>1. TypeOK /\ RInv /\ rested
      BY <1>2, <2>2, RestedStays DEF IInv
    <3>2. CASE Working
      BY <3>1, <3>2, WorkingInv
    <3>3. CASE ocores_i2c_suspend
      BY <3>1, <3>3, RestStep DEF ocores_i2c_suspend, bus, thread
    <3>4. CASE ocores_i2c_resume
      BY <3>1, <3>4, RestStep DEF ocores_i2c_resume, bus, thread
    <3>5. CASE UNCHANGED vars
      BY <3>1, <3>5, RestStep DEF vars, regs, bus, thread
    <3> QED
      BY <2>2, <3>1, <3>2, <3>3, <3>4, <3>5, LoseStep, ExpireStep, PollWaitStep DEF Next
  <2> QED BY <2>1, <2>2
<1> QED BY <1>1, <1>2 DEF IInv

LEMMA InvHolds == Filled => (Spec => []IInv)
<1> SUFFICES ASSUME Filled PROVE Spec => []IInv
  OBVIOUS
<1>1. Init => IInv
  BY InitInv
<1>2. IInv /\ [Next]_vars => IInv'
  BY NextInv
<1> QED BY <1>1, <1>2, PTL DEF Spec

-----------------------------------------------------------------------------
(* Theorems                                                                *)

LEMMA WireOf ==
  ASSUME log \in Seq(Entries), NEW b \in Nat, NEW e \in Nat,
         Followed(msgs, target, log, b), Stopped(log, e), e <= Len(log),
         \/ e = b
         \/ e = b + 1 /\ (log[e] \in Refusal \/ (log[e] = <<"R">> /\ state = "ERROR")),
         state = "DONE" => e = b /\ b = Cardinality(Places(msgs))
  PROVE  WireFollowsMessages
<1>1. b \in 0..Len(log) /\ e \in 0..Len(log)
  BY DEF Followed
<1>2. Follows(b)
  BY DEF Followed, Follows
<1> QED BY <1>1, <1>2 DEF WireFollowsMessages, Stopped

(* Of a transfer that begins with the master and the handler at rest, by   *)
(* interrupt or by polling, whatever the interleaving of handler, thread   *)
(* and timeout, the bus sees the messages in order, every byte once, and   *)
(* nothing after a refusal, a lost arbitration or a stop.                  *)
THEOREM I2cWireFollowsMessages == Filled => (Spec => []WireFollowsMessages)
<1> SUFFICES ASSUME Filled PROVE Spec => []WireFollowsMessages
  OBVIOUS
<1>1. ASSUME RInv PROVE WireFollowsMessages
  <2>1. log \in Seq(Entries) /\ Len(log) \in Nat
    BY <1>1 DEF RInv
  <2>2. CASE Before0
    <3>1. Len(log) = 0 /\ 0 \in 0..Len(log)
      BY <2>2 DEF Before0
    <3> QED BY <3>1 DEF WireFollowsMessages, Follows
  <2>3. ASSUME NEW c, LogIs(msgs, target, log, c), state # "DONE" PROVE WireFollowsMessages
    <3>1. Followed(msgs, target, log, Len(log)) /\ Stopped(log, Len(log))
      BY <2>1, <2>3, CutHere
    <3> QED BY <2>1, <2>3, <3>1, WireOf
  <2>4. ASSUME RefusedLog(msgs, target, log), state # "DONE" PROVE WireFollowsMessages
    <3>1. PICK b \in Nat : /\ b + 1 <= Len(log) /\ Followed(msgs, target, log, b)
                           /\ log[b + 1] \in Refusal /\ Stopped(log, b + 1)
      BY <2>4 DEF RefusedLog
    <3>2. b + 1 \in Nat
      OBVIOUS
    <3> QED BY <2>1, <2>4, <3>1, <3>2, WireOf
  <2>5. ASSUME Cut(msgs, target, log), state = "ERROR" PROVE WireFollowsMessages
    <3>1. PICK b \in Nat :
            /\ Followed(msgs, target, log, b)
            /\ \/ Stopped(log, b)
               \/ b + 1 <= Len(log) /\ log[b + 1] = <<"R">> /\ Stopped(log, b + 1)
      BY <2>5 DEF Cut
    <3>2. b <= Len(log) /\ b + 1 \in Nat
      BY <3>1 DEF Followed
    <3>3. CASE Stopped(log, b)
      BY <2>1, <2>5, <3>1, <3>2, <3>3, WireOf
    <3>4. CASE b + 1 <= Len(log) /\ log[b + 1] = <<"R">> /\ Stopped(log, b + 1)
      BY <2>1, <2>5, <3>1, <3>2, <3>4, WireOf
    <3> QED BY <3>1, <3>3, <3>4
  <2>6. CASE Live
    BY <2>3, <2>4, <2>6 DEF Live, Over, GoingOK, GoneOK, UnderWay
  <2>7. CASE Closing /\ state = "DONE"
    <3>1. Complete /\ Cardinality(Places(msgs)) \in Nat
      BY <2>7, FS_CardinalityType DEF Closing
    <3>2. Cardinality(Places(msgs)) <= Len(log)
      BY <3>1 DEF Complete, Followed
    <3> QED BY <2>1, <3>1, <3>2, WireOf DEF Complete
  <2>8. CASE Closing /\ state = "ERROR"
    BY <2>3, <2>4, <2>5, <2>8 DEF Closing, GivenUp, UnderWay
  <2> QED BY <1>1, <2>2, <2>6, <2>7, <2>8 DEF RInv, Closing, Over
<1>2. IInv => WireFollowsMessages
  BY <1>1 DEF IInv, WireFollowsMessages
<1> QED BY <1>2, InvHolds, PTL

(* Of the transfers that begin with the master and the handler at rest,    *)
(* one that reports success has put all of its messages on the bus and     *)
(* holds each byte it read at its place; one that reports an error by      *)
(* interrupt has met a refusal or lost the bus.                            *)
THEOREM I2cResultTrue == Filled => (Spec => []ResultTrue)
<1> SUFFICES ASSUME Filled PROVE Spec => []ResultTrue
  OBVIOUS
<1>1. ASSUME RInv, ret = "num"
      PROVE  /\ Len(log) >= Cardinality(Places(msgs)) /\ Follows(Cardinality(Places(msgs)))
             /\ \A n \in 1..Len(log) : n > Cardinality(Places(msgs)) => log[n] = <<"P">>
             /\ buf = {<<p, Number(msgs, p)>> : p \in ToRead(msgs)}
  <2>1. Complete /\ log \in Seq(Entries) /\ Cardinality(Places(msgs)) \in Nat
    BY <1>1, FS_CardinalityType DEF RInv, Before0, Live, Closing
  <2> DEFINE b == Cardinality(Places(msgs))
  <2>2. b <= Len(log) /\ Follows(b)
    BY <2>1 DEF Complete, Followed, Follows
  <2>3. Len(log) >= b
    <3> HIDE DEF b
    <3> QED BY <2>1, <2>2 DEF b
  <2>4. Stopped(log, b) /\ buf = {<<p, Number(msgs, p)>> : p \in ToRead(msgs)}
    BY <2>1 DEF Complete
  <2> QED BY <2>2, <2>3, <2>4 DEF Stopped
<1>2. ASSUME RInv, ret = "EIO", ~poll
      PROVE  \E n \in 1..Len(log) : log[n] \in Refusal
  <2>1. RefusedLog(msgs, target, log) /\ log \in Seq(Entries)
    BY <1>2 DEF RInv, Before0, Live, Closing
  <2>2. PICK b \in Nat : b + 1 <= Len(log) /\ log[b + 1] \in Refusal
    BY <2>1 DEF RefusedLog
  <2>3. b + 1 \in 1..Len(log)
    BY <2>1, <2>2
  <2> QED BY <2>2, <2>3
<1>3. IInv => ResultTrue
  BY <1>1, <1>2 DEF IInv, ResultTrue
<1> QED BY <1>3, InvHolds, PTL

-----------------------------------------------------------------------------
(* THE SPI DRIVER                                                          *)

(* What the driver handles: the first transfer is not refused, and words   *)
(* are of 8, 16, 32, 64 or 128 bits and fill their transfers.              *)
Whole ==
  \A m \in Messages :
    /\ Valid(m[1])
    /\ \A k \in Sent(m) : /\ m[k].bits = 8 * Moved(m[k].bits)
                          /\ m[k].len % Moved(m[k].bits) = 0

-----------------------------------------------------------------------------
(* The invariant                                                           *)

SpiEntries == {<<"off">>} \cup ((SUBSET Slaves) \X ({<<>>} \cup (Nat \X Nat)))

SpiPc == {"out", "push", "wait", "stuck", "process", "finish", "next", "finalize", "finalized"}

SpiTypeOK ==
  /\ spi_poll \in BOOLEAN /\ go \in BOOLEAN /\ ie \in BOOLEAN /\ int_o \in BOOLEAN
  /\ spi_log \in Seq(SpiEntries) /\ mesg \in Messages \cup {<<>>} /\ cs \in Slaves
  /\ cur_xfer \in Nat /\ cur_len \in Nat /\ spi_pc \in [Context -> SpiPc]
  /\ ss \in {{}, {cs}}

(* The place before which everything is in the log, ...                    *)
SpiSeen(m, c) == {p \in SpiPlaces(m) : SpiBefore(p, c)}

SpiLogIs(m, s, l, c) ==
  /\ IsFiniteSet(SpiSeen(m, c)) /\ Len(l) = Cardinality(SpiSeen(m, c))
  /\ \A n \in 1..Len(l) :
       \E p \in SpiSeen(m, c) : SpiNumber(m, p) = n /\ l[n] = SpiEvent(m, s, p)

(* ... and the one before which everything read is stored.                 *)
StoredIs(m, t, c) == t = {<<p, SpiNumber(m, p)>> : p \in {q \in Read(m) : SpiBefore(q, c)}}

(* Where the driver is in the message: at a word, or between transfers.    *)
SpiHere == <<cur_xfer, mesg[cur_xfer].len - cur_len>>
SpiNext0 == <<cur_xfer, mesg[cur_xfer].len - cur_len + Moved(Bits)>>
After(k) == IF k = 0 THEN <<1, 0>>
            ELSE IF mesg[k].cs_change THEN <<k + 1, 0>> ELSE <<k, mesg[k].len>>

Buffer(on) == IF on THEN mesg[cur_xfer].len - cur_len ELSE NULL

Both(a, b) == spi_pc["thread"] = a /\ spi_pc["irq"] = b

(* One of thread and handler is at place a, the other is out of the way.   *)
One(a) == Both(a, "out") \/ (~spi_poll /\ Both("out", a))

IdleOK ==
  /\ Both("out", "out") /\ ~go /\ ~int_o /\ ss = {} /\ tx = <<>>
  /\ cur_xfer = 0 /\ cur_len = 0

(* cur_xfer has a word that is not done.                                   *)
WordOK ==
  /\ cur_xfer \in Sent(mesg) /\ SpiHere \in SpiPlaces(mesg) /\ cur_len > 0
  /\ spi_poll <=> ~ie
  /\ cur_rx_buf = Buffer(mesg[cur_xfer].rx)
  /\ StoredIs(mesg, stored, SpiHere)

PushOK ==
  /\ One("push") /\ WordOK /\ ~go /\ ~int_o /\ tx = <<>>
  /\ cur_tx_buf = Buffer(mesg[cur_xfer].tx) /\ SpiLogIs(mesg, cs, spi_log, SpiHere)

NextBuf == cur_tx_buf = IF mesg[cur_xfer].tx THEN SpiNext0[2] ELSE NULL

SpiGoingOK ==
  /\ \/ spi_poll /\ (Both("wait", "out") \/ Both("stuck", "out"))
     \/ ~spi_poll /\ Both("out", "out")
  /\ WordOK /\ go /\ ~int_o /\ NextBuf
  /\ <<ss, tx>> = SpiEvent(mesg, cs, SpiHere) /\ SpiLogIs(mesg, cs, spi_log, SpiHere)

SpiGoneOK ==
  /\ \/ /\ spi_poll /\ ~int_o
        /\ Both("wait", "out") \/ Both("stuck", "out") \/ Both("process", "out")
     \/ ~spi_poll /\ (Both("out", "out") \/ Both("out", "process")) /\ int_o
  /\ WordOK /\ ~go /\ NextBuf /\ tx = <<>> /\ ss = {cs}
  /\ SpiLogIs(mesg, cs, spi_log, SpiNext0) /\ rx = Len(spi_log)

FinishOK ==
  /\ One("finish") /\ ~go /\ ~int_o /\ tx = <<>> /\ ss = {cs}
  /\ cur_xfer \in Sent(mesg) /\ cur_len = 0
  /\ SpiLogIs(mesg, cs, spi_log, SpiHere) /\ StoredIs(mesg, stored, SpiHere)

Between(k) ==
  /\ ~go /\ ~int_o /\ tx = <<>> /\ cur_len = 0
  /\ k # 0 => k \in Sent(mesg)
  /\ ss = IF k = 0 \/ mesg[k].cs_change THEN {} ELSE {cs}
  /\ SpiLogIs(mesg, cs, spi_log, After(k)) /\ StoredIs(mesg, stored, After(k))

NextOK == One("next") /\ Between(cur_xfer)

FinalizeOK ==
  One("finalize") /\ \E k \in Sent(mesg) : k + 1 \notin Sent(mesg) /\ Between(k)

FinalizedOK ==
  /\ One("finalized") /\ ~go /\ ~int_o /\ tx = <<>> /\ ss = {}
  /\ cur_xfer = 0 /\ cur_len = 0
  /\ \E c : SpiLogIs(mesg, cs, spi_log, c) /\ SpiSeen(mesg, c) = SpiPlaces(mesg)
  /\ stored = {<<p, SpiNumber(mesg, p)>> : p \in Read(mesg)}

BusyOK == PushOK \/ SpiGoingOK \/ SpiGoneOK \/ FinishOK \/ NextOK \/ FinalizeOK \/ FinalizedOK

SpiInv ==
  /\ SpiTypeOK
  /\ mesg = <<>> => IdleOK
  /\ mesg # <<>> => BusyOK
-----------------------------------------------------------------------------
(* Places                                                                  *)

LEMMA MovedIs ==
  ASSUME NEW bits \in 1..128
  PROVE  Moved(bits) \in {1, 2, 4, 8, 16}
<1> DEFINE P(n) == bits <= 8 * n /\ \A k \in {1, 2, 4, 8, 16} : bits <= 8 * k => n <= k
<1>1. \E n \in {1, 2, 4, 8, 16} : P(n)
  <2>1. CASE bits <= 8
    BY <2>1
  <2>2. CASE 8 < bits /\ bits <= 16
    BY <2>2
  <2>3. CASE 16 < bits /\ bits <= 32
    BY <2>3
  <2>4. CASE 32 < bits /\ bits <= 64
    BY <2>4
  <2>5. CASE 64 < bits
    BY <2>5
  <2> QED BY <2>1, <2>2, <2>3, <2>4, <2>5
<1>2. Moved(bits) = CHOOSE n \in {1, 2, 4, 8, 16} : P(n)
  BY DEF Moved
<1> HIDE DEF P
<1> QED BY <1>1, <1>2

Width(m, k) == Moved(m[k].bits)

(* What is known of a transfer the driver does not refuse.                 *)
LEMMA SentFacts ==
  ASSUME Whole, NEW m \in Messages, NEW k \in Sent(m)
  PROVE  /\ k \in Nat /\ k >= 1 /\ k <= Len(m) /\ m[k] \in Transfer
         /\ m[k].len \in Nat /\ m[k].tx \in BOOLEAN /\ m[k].rx \in BOOLEAN
         /\ m[k].cs_change \in BOOLEAN
         /\ Width(m, k) \in {1, 2, 4, 8, 16}
         /\ m[k].bits \div 8 = Width(m, k)
         /\ m[k].len % Width(m, k) = 0 /\ m[k].len >= Width(m, k)
<1>1. k \in 1..Len(m) /\ m \in Seq(Transfer) /\ Valid(m[k])
  BY MessagesAssumption DEF Sent
<1>2. m[k] \in Transfer
  BY <1>1
<1>3. /\ m[k].len \in Nat /\ m[k].bits \in Nat /\ m[k].tx \in BOOLEAN
      /\ m[k].rx \in BOOLEAN /\ m[k].cs_change \in BOOLEAN
  BY <1>2 DEF Transfer
<1>4. m[k].bits \in 1..128 /\ 8 * m[k].len >= m[k].bits
  BY <1>1, <1>3 DEF Valid
<1>5. Width(m, k) \in {1, 2, 4, 8, 16}
  BY <1>4, MovedIs DEF Width
<1>6. m[k].bits = 8 * Width(m, k) /\ m[k].len % Width(m, k) = 0
  BY DEF Whole, Width
<1> DEFINE w == Width(m, k)
           bits == m[k].bits
           len == m[k].len
<1>7. w \in {1, 2, 4, 8, 16} /\ bits = 8 * w /\ len \in Nat /\ 8 * len >= bits
  BY <1>3, <1>4, <1>5, <1>6
<1> HIDE DEF w, bits, len
<1>8. bits \div 8 = w /\ len >= w
  BY <1>7
<1> QED BY <1>1, <1>2, <1>3, <1>5, <1>6, <1>8 DEF w, bits, len

(* Multiples of the width of a word are at least that far apart.           *)
LEMMA NextMultiple ==
  ASSUME NEW w \in {1, 2, 4, 8, 16}, NEW a \in Nat, NEW b \in Nat,
         a % w = 0, b % w = 0
  PROVE  /\ a < b + w => a <= b
         /\ (a + w) % w = 0
         /\ a < b => a + w <= b
<1>1. CASE w = 1
  BY <1>1
<1>2. CASE w = 2
  BY <1>2
<1>3. CASE w = 4
  BY <1>3
<1>4. CASE w = 8
  BY <1>4
<1>5. CASE w = 16
  BY <1>5
<1> QED BY <1>1, <1>2, <1>3, <1>4, <1>5

LEMMA SpiPlaceIs ==
  ASSUME NEW m, NEW k, NEW b
  PROVE  <<k, b>> \in SpiPlaces(m) <=>
           /\ k \in Sent(m) /\ b \in 0..m[k].len /\ b % Width(m, k) = 0
           /\ b < m[k].len \/ m[k].cs_change \/ k + 1 \notin Sent(m)
  BY DEF SpiPlaces, Width

LEMMA SpiPlaceType ==
  ASSUME Whole, NEW m \in Messages, NEW p \in SpiPlaces(m)
  PROVE  /\ p = <<p[1], p[2]>> /\ p \in Nat \X Nat
         /\ p[1] \in Sent(m) /\ p[1] \in Nat /\ p[1] >= 1 /\ p[2] \in Nat
         /\ p[2] % Width(m, p[1]) = 0 /\ p[2] <= m[p[1]].len
         /\ p[2] < m[p[1]].len \/ m[p[1]].cs_change \/ p[1] + 1 \notin Sent(m)
<1>1. PICK k \in Sent(m) : p \in {k} \X {b \in 0..m[k].len : /\ b % Moved(m[k].bits) = 0
                                     /\ \/ b < m[k].len \/ m[k].cs_change
                                        \/ k + 1 \notin Sent(m)}
  BY DEF SpiPlaces
<1>2. p = <<p[1], p[2]>> /\ p[1] = k /\ p[2] \in 0..m[k].len
  BY <1>1
<1>3. <<p[1], p[2]>> \in SpiPlaces(m)
  BY <1>2
<1>4. k \in Nat /\ k >= 1 /\ m[k].len \in Nat
  BY SentFacts
<1> QED BY <1>2, <1>3, <1>4, SpiPlaceIs

LEMMA SpiEventType ==
  ASSUME Whole, NEW m \in Messages, NEW s \in Slaves, NEW p \in SpiPlaces(m)
  PROVE  SpiEvent(m, s, p) \in SpiEntries
<1>1. p \in Nat \X Nat
  BY SpiPlaceType
<1>2. \/ SpiEvent(m, s, p) = <<"off">> \/ SpiEvent(m, s, p) = <<{s}, p>>
      \/ SpiEvent(m, s, p) = <<{s}, <<>>>>
  BY DEF SpiEvent
<1>3. {s} \in SUBSET Slaves /\ p \in {<<>>} \cup (Nat \X Nat)
      /\ <<>> \in {<<>>} \cup (Nat \X Nat)
  BY <1>1
<1>4. <<{s}, p>> \in SpiEntries /\ <<{s}, <<>>>> \in SpiEntries /\ <<"off">> \in SpiEntries
  BY <1>3 DEF SpiEntries
<1> QED BY <1>2, <1>4

-----------------------------------------------------------------------------
(* From one place to the next                                              *)

LEMMA SpiSeenFirst ==
  ASSUME Whole, NEW m \in Messages
  PROVE  SpiSeen(m, <<1, 0>>) = {}
<1>1. ASSUME NEW p \in SpiPlaces(m) PROVE ~SpiBefore(p, <<1, 0>>)
  BY SpiPlaceType DEF SpiBefore
<1> QED BY <1>1 DEF SpiSeen

LEMMA SeenWord ==
  ASSUME Whole, NEW m \in Messages, NEW k, NEW b, <<k, b>> \in SpiPlaces(m), b < m[k].len
  PROVE  SpiSeen(m, <<k, b + Width(m, k)>>) = SpiSeen(m, <<k, b>>) \cup {<<k, b>>}
<1> DEFINE w == Width(m, k)
<1>1. k \in Sent(m) /\ k \in Nat /\ b \in Nat /\ b % w = 0 /\ w \in {1, 2, 4, 8, 16}
  BY SpiPlaceIs, SentFacts
<1>2. ASSUME NEW p \in SpiPlaces(m)
      PROVE  SpiBefore(p, <<k, b + w>>) <=> (SpiBefore(p, <<k, b>>) \/ p = <<k, b>>)
  <2>1. p = <<p[1], p[2]>> /\ p[1] \in Nat /\ p[2] \in Nat /\ p[2] % Width(m, p[1]) = 0
    BY SpiPlaceType
  <2>2. p[1] = k => (p[2] < b + w <=> p[2] < b \/ p[2] = b)
    <3> SUFFICES ASSUME p[1] = k PROVE p[2] < b + w <=> p[2] < b \/ p[2] = b
      OBVIOUS
    <3> DEFINE a == p[2]
    <3>1. a \in Nat /\ a % w = 0
      BY <2>1
    <3> HIDE DEF a, w
    <3>2. a < b + w => a <= b
      BY <1>1, <3>1, NextMultiple
    <3>3. a < b + w <=> a < b \/ a = b
      BY <1>1, <3>1, <3>2
    <3> QED BY <3>3 DEF a
  <2> HIDE DEF w
  <2> QED BY <1>1, <2>1, <2>2 DEF SpiBefore
<1> HIDE DEF w
<1>3. SpiSeen(m, <<k, b + w>>) = SpiSeen(m, <<k, b>>) \cup {<<k, b>>}
  BY <1>2 DEF SpiSeen
<1> QED BY <1>3 DEF w

LEMMA SeenOff ==
  ASSUME Whole, NEW m \in Messages, NEW k \in Sent(m)
  PROVE  SpiSeen(m, <<k + 1, 0>>) = SpiSeen(m, <<k, m[k].len>>)
                                   \cup ({<<k, m[k].len>>} \cap SpiPlaces(m))
<1> DEFINE len == m[k].len
<1>1. k \in Nat /\ len \in Nat
  BY SentFacts
<1>2. ASSUME NEW p \in SpiPlaces(m)
      PROVE  SpiBefore(p, <<k + 1, 0>>) <=> (SpiBefore(p, <<k, len>>) \/ p = <<k, len>>)
  <2>1. p = <<p[1], p[2]>> /\ p[1] \in Nat /\ p[2] \in Nat /\ (p[1] = k => p[2] <= len)
    BY SpiPlaceType
  <2> HIDE DEF len
  <2> QED BY <1>1, <2>1 DEF SpiBefore
<1>3. SpiSeen(m, <<k + 1, 0>>) = SpiSeen(m, <<k, len>>) \cup ({<<k, len>>} \cap SpiPlaces(m))
  <2> HIDE DEF len
  <2> QED BY <1>2 DEF SpiSeen
<1> QED BY <1>3

LEMMA SeenAll ==
  ASSUME Whole, NEW m \in Messages, NEW k \in Sent(m), k + 1 \notin Sent(m)
  PROVE  SpiSeen(m, <<k + 1, 0>>) = SpiPlaces(m)
<1>1. k \in Nat /\ k <= Len(m) /\ m \in Seq(Transfer)
  BY SentFacts, MessagesAssumption
<1>2. ASSUME NEW p \in SpiPlaces(m) PROVE SpiBefore(p, <<k + 1, 0>>)
  <2>1. p[1] \in Sent(m) /\ p[1] \in Nat
    BY SpiPlaceType
  <2>2. ASSUME p[1] > k PROVE FALSE
    <3>1. k + 1 \in DOMAIN m
      BY <1>1, <2>1, <2>2 DEF Sent
    <3>2. \A j \in 1..k + 1 : Valid(m[j])
      BY <1>1, <2>1, <2>2 DEF Sent
    <3> QED BY <3>1, <3>2 DEF Sent
  <2> QED BY <1>1, <2>1, <2>2 DEF SpiBefore
<1> QED BY <1>2 DEF SpiSeen

(* One more place, one more entry of the log.                              *)
LEMMA SpiLogGrows ==
  ASSUME Whole, NEW m \in Messages, NEW s \in Slaves, NEW l \in Seq(SpiEntries),
         NEW c \in SpiPlaces(m), NEW d,
         SpiLogIs(m, s, l, c), SpiSeen(m, d) = SpiSeen(m, c) \cup {c}
  PROVE  /\ SpiLogIs(m, s, Append(l, SpiEvent(m, s, c)), d)
         /\ SpiNumber(m, c) = Len(l) + 1
<1> DEFINE e == SpiEvent(m, s, c)
           t == Append(l, e)
<1>1. IsFiniteSet(SpiSeen(m, c)) /\ Cardinality(SpiSeen(m, c)) = Len(l)
  BY DEF SpiLogIs
<1>2. c \notin SpiSeen(m, c)
  <2>1. c[1] \in Nat /\ c[2] \in Nat
    BY SpiPlaceType
  <2> QED BY <2>1 DEF SpiSeen, SpiBefore
<1>3. IsFiniteSet(SpiSeen(m, d)) /\ Cardinality(SpiSeen(m, d)) = Len(l) + 1
  BY <1>1, <1>2, FS_AddElement
<1>4. SpiNumber(m, c) = Len(l) + 1
  <2>1. {q \in SpiPlaces(m) : q = c \/ SpiBefore(q, c)} = SpiSeen(m, c) \cup {c}
    BY DEF SpiSeen
  <2> QED BY <1>3, <2>1 DEF SpiNumber
<1>5. e \in SpiEntries
  BY SpiEventType
<1>6. Len(t) = Len(l) + 1 /\ t[Len(l) + 1] = e /\ \A n \in 1..Len(l) : t[n] = l[n]
  BY <1>5
<1>7. ASSUME NEW n \in 1..Len(t)
      PROVE  \E p \in SpiSeen(m, d) : SpiNumber(m, p) = n /\ t[n] = SpiEvent(m, s, p)
  <2>1. CASE n \in 1..Len(l)
    BY <1>6, <2>1 DEF SpiLogIs
  <2>2. CASE n = Len(l) + 1
    BY <1>4, <1>6, <2>2
  <2> QED BY <1>6, <2>1, <2>2
<1> QED BY <1>3, <1>4, <1>6, <1>7 DEF SpiLogIs

(* One more word read, one more place stored.                              *)
LEMMA StoredGrows ==
  ASSUME Whole, NEW m \in Messages, NEW t, NEW k, NEW b, NEW d, <<k, b>> \in SpiPlaces(m),
         b < m[k].len, StoredIs(m, t, <<k, b>>),
         SpiSeen(m, d) = SpiSeen(m, <<k, b>>) \cup {<<k, b>>}
  PROVE  StoredIs(m, IF m[k].rx THEN t \cup {<<<<k, b>>, SpiNumber(m, <<k, b>>)>>} ELSE t, d)
<1> DEFINE c == <<k, b>>
<1>1. c \in SpiPlaces(m) /\ c[1] = k /\ c[2] = b
  OBVIOUS
<1>2. StoredIs(m, t, c) /\ SpiSeen(m, d) = SpiSeen(m, c) \cup {c}
  OBVIOUS
<1> HIDE DEF c
<1>3. {q \in Read(m) : SpiBefore(q, d)} =
        {q \in Read(m) : SpiBefore(q, c)} \cup (IF m[k].rx THEN {c} ELSE {})
  BY <1>1, <1>2 DEF Read, SpiSeen
<1>4. StoredIs(m, IF m[k].rx THEN t \cup {<<c, SpiNumber(m, c)>>} ELSE t, d)
  BY <1>2, <1>3 DEF StoredIs
<1> QED BY <1>4 DEF c
-----------------------------------------------------------------------------
(* Where thread and handler are                                            *)

Alone(c, a) == /\ spi_pc[c] = a /\ \A d \in Context \ {c} : spi_pc[d] = "out"
               /\ c = "irq" => ~spi_poll

LEMMA WhereAt ==
  ASSUME SpiInv, NEW c \in Context
  PROVE  /\ spi_pc[c] = "push" => Alone(c, "push") /\ mesg # <<>> /\ PushOK
         /\ spi_pc[c] = "process" => Alone(c, "process") /\ mesg # <<>> /\ SpiGoneOK
         /\ spi_pc[c] = "finish" => Alone(c, "finish") /\ mesg # <<>> /\ FinishOK
         /\ spi_pc[c] = "next" => Alone(c, "next") /\ mesg # <<>> /\ NextOK
         /\ spi_pc[c] = "finalize" => Alone(c, "finalize") /\ mesg # <<>> /\ FinalizeOK
         /\ spi_pc[c] = "finalized" => Alone(c, "finalized") /\ mesg # <<>> /\ FinalizedOK
<1>1. mesg = <<>> => spi_pc[c] = "out"
  BY DEF SpiInv, IdleOK, Both, Context
<1>2. mesg # <<>> => BusyOK
  BY DEF SpiInv
<1>3. PushOK => (spi_pc[c] = "push" /\ Alone(c, "push")) \/ spi_pc[c] = "out"
  BY DEF PushOK, One, Both, Context, Alone
<1>4. SpiGoingOK => spi_pc[c] \in {"wait", "stuck", "out"}
  BY DEF SpiGoingOK, Both, Context
<1>5. SpiGoneOK => \/ spi_pc[c] \in {"wait", "stuck", "out"}
                   \/ spi_pc[c] = "process" /\ Alone(c, "process")
  BY DEF SpiGoneOK, Both, Context, Alone
<1>6. FinishOK => (spi_pc[c] = "finish" /\ Alone(c, "finish")) \/ spi_pc[c] = "out"
  BY DEF FinishOK, One, Both, Context, Alone
<1>7. NextOK => (spi_pc[c] = "next" /\ Alone(c, "next")) \/ spi_pc[c] = "out"
  BY DEF NextOK, One, Both, Context, Alone
<1>8. FinalizeOK => (spi_pc[c] = "finalize" /\ Alone(c, "finalize")) \/ spi_pc[c] = "out"
  BY DEF FinalizeOK, One, Both, Context, Alone
<1>9. FinalizedOK => (spi_pc[c] = "finalized" /\ Alone(c, "finalized")) \/ spi_pc[c] = "out"
  BY DEF FinalizedOK, One, Both, Context, Alone
<1> QED BY <1>1, <1>2, <1>3, <1>4, <1>5, <1>6, <1>7, <1>8, <1>9 DEF BusyOK

LEMMA Moves ==
  ASSUME spi_pc \in [Context -> SpiPc], NEW c \in Context, NEW a, NEW b \in SpiPc,
         Alone(c, a), spi_pc' = [spi_pc EXCEPT ![c] = b], spi_poll' = spi_poll
  PROVE  /\ spi_pc' \in [Context -> SpiPc]
         /\ c = "thread" => spi_pc'["thread"] = b /\ spi_pc'["irq"] = "out"
         /\ c = "irq" => spi_pc'["irq"] = b /\ spi_pc'["thread"] = "out" /\ ~spi_poll
         /\ One(b)'
<1>1. /\ spi_pc' \in [Context -> SpiPc] /\ spi_pc'[c] = b
      /\ \A d \in Context \ {c} : spi_pc'[d] = spi_pc[d]
  OBVIOUS
<1>2. c = "thread" => spi_pc'["thread"] = b /\ spi_pc'["irq"] = "out"
  BY <1>1 DEF Alone, Context
<1>3. c = "irq" => spi_pc'["irq"] = b /\ spi_pc'["thread"] = "out" /\ ~spi_poll
  BY <1>1 DEF Alone, Context
<1>4. c = "thread" \/ c = "irq"
  BY DEF Context
<1> QED BY <1>1, <1>2, <1>3, <1>4 DEF One, Both

(* A slave is selected at most.                                            *)
LEMMA Deselects ==
  ASSUME ss \in {{}, {cs}}, ~go, Select(ss \ {cs})
  PROVE  ss' = {} /\ spi_log' = IF ss = {} THEN spi_log ELSE Append(spi_log, <<"off">>)
<1>1. ss' = {}
  BY DEF Select
<1> QED BY <1>1 DEF Select

LEMMA Selects ==
  ASSUME ss \in {{}, {cs}}, ~go, Select(ss \cup {cs})
  PROVE  ss' = {cs} /\ spi_log' = spi_log
<1>1. ss' = {cs}
  BY DEF Select
<1> QED BY <1>1 DEF Select

LEMMA CurrentFacts ==
  ASSUME SpiTypeOK, mesg # <<>>
  PROVE  mesg \in Messages
  BY DEF SpiTypeOK

-----------------------------------------------------------------------------
(* The steps                                                               *)

LEMMA PushStep ==
  ASSUME Whole, SpiInv, NEW c \in Context, Push(c)
  PROVE  SpiInv'
<1>1. Alone(c, "push") /\ mesg # <<>> /\ PushOK /\ SpiTypeOK
  BY WhereAt DEF Push, SpiAt, SpiInv
<1>2. mesg \in Messages /\ mesg \in Messages \cup {<<>>} /\ cs \in Slaves
  BY <1>1, CurrentFacts DEF SpiTypeOK
<1>3. /\ spi_poll' = spi_poll /\ ie' = ie /\ rx' = rx /\ mesg' = mesg /\ cs' = cs
      /\ cur_xfer' = cur_xfer /\ cur_rx_buf' = cur_rx_buf /\ cur_len' = cur_len
      /\ stored' = stored /\ go' = TRUE /\ int_o' = FALSE
  BY DEF Push
<1>4. ss' = {cs} /\ spi_log' = spi_log
  BY <1>1, Selects DEF SpiTypeOK, PushOK, Push
<1>5. /\ spi_pc' \in [Context -> SpiPc]
      /\ \/ spi_poll /\ Both("wait", "out")'
         \/ ~spi_poll /\ Both("out", "out")'
  <2>1. CASE c = "thread" /\ spi_poll
    <3>1. spi_pc' = [spi_pc EXCEPT ![c] = "wait"] /\ "wait" \in SpiPc
      BY <2>1 DEF Push, SpiAt, SpiPc
    <3>2. spi_pc' \in [Context -> SpiPc] /\ spi_pc'["thread"] = "wait"
          /\ spi_pc'["irq"] = "out"
      BY <1>1, <1>3, <2>1, <3>1, Moves DEF SpiTypeOK
    <3> QED BY <2>1, <3>2 DEF Both
  <2>2. CASE ~(c = "thread" /\ spi_poll)
    <3>1. spi_pc' = [spi_pc EXCEPT ![c] = "out"] /\ "out" \in SpiPc
      BY <2>2 DEF Push, SpiAt, SpiPc
    <3>2. spi_pc' \in [Context -> SpiPc] /\ One("out")'
      BY <1>1, <1>3, <3>1, Moves DEF SpiTypeOK
    <3>3. ~spi_poll
      BY <1>1, <2>2 DEF Alone, Context
    <3> QED BY <1>3, <3>2, <3>3 DEF One
  <2> QED BY <2>1, <2>2
<1>9. WordOK' /\ SpiHere' = SpiHere
  BY <1>1, <1>3, <1>2 DEF PushOK, WordOK, SpiHere, Buffer, Bits
<1>10. cur_xfer \in Sent(mesg) /\ SpiHere \in SpiPlaces(mesg) /\ cur_len > 0
       /\ cur_len \in Nat
  BY <1>1 DEF PushOK, WordOK, SpiTypeOK
<1>11. /\ mesg[cur_xfer].len \in Nat /\ mesg[cur_xfer].tx \in BOOLEAN
       /\ Width(mesg, cur_xfer) \in Nat
  BY <1>2, <1>10, SentFacts
<1>12. SpiHere[1] = cur_xfer /\ SpiHere[2] = mesg[cur_xfer].len - cur_len
       /\ SpiHere[2] # mesg[cur_xfer].len
  BY <1>10, <1>11 DEF SpiHere
<1>13. SpiHere[2] \in Nat
  BY <1>2, <1>10, SpiPlaceType
<1>14. cur_tx_buf = IF mesg[cur_xfer].tx THEN SpiHere[2] ELSE NULL
  BY <1>1, <1>12 DEF PushOK, Buffer
<1>15. /\ tx' = IF mesg[cur_xfer].tx THEN SpiHere ELSE <<>>
       /\ cur_tx_buf' = IF mesg[cur_xfer].tx THEN SpiHere[2] + Width(mesg, cur_xfer) ELSE NULL
  <2>1. CASE mesg[cur_xfer].tx
    <3>1. cur_tx_buf # NULL
      BY <2>1, <1>13, <1>14 DEF NULL
    <3>2. tx' = <<cur_xfer, cur_tx_buf>> /\ cur_tx_buf' = cur_tx_buf + Width(mesg, cur_xfer)
      BY <3>1 DEF Push, spi_ocores_hw_xfer_tx_push, Bits, Width
    <3> QED BY <2>1, <3>2, <1>12, <1>14 DEF SpiHere
  <2>2. CASE ~mesg[cur_xfer].tx
    <3>1. tx' = tx /\ cur_tx_buf' = cur_tx_buf
      BY <2>2, <1>14 DEF Push, spi_ocores_hw_xfer_tx_push
    <3> QED BY <2>2, <3>1, <1>1, <1>14 DEF PushOK
  <2> QED BY <2>1, <2>2, <1>11
<1>16. NextBuf'
  BY <1>3, <1>9, <1>12, <1>15 DEF NextBuf, SpiNext0, Width, Bits
<1>17. (<<ss, tx>> = SpiEvent(mesg, cs, SpiHere))'
  BY <1>3, <1>4, <1>9, <1>12, <1>15 DEF SpiEvent
<1>18. SpiLogIs(mesg, cs, spi_log, SpiHere)'
  BY <1>1, <1>3, <1>4, <1>9 DEF PushOK
<1>19. SpiGoingOK'
  BY <1>3, <1>5, <1>9, <1>16, <1>17, <1>18 DEF SpiGoingOK
<1>20. SpiTypeOK'
  BY <1>1, <1>3, <1>4, <1>5 DEF SpiTypeOK
<1> QED BY <1>1, <1>3, <1>19, <1>20 DEF SpiInv, BusyOK

LEMMA ShiftStep ==
  ASSUME Whole, SpiInv, Shift
  PROVE  SpiInv'
<1>1. go /\ mesg # <<>> /\ SpiGoingOK /\ SpiTypeOK
  BY DEF Shift, SpiInv, IdleOK, BusyOK, PushOK, SpiGoneOK, FinishOK, NextOK, FinalizeOK,
         FinalizedOK, Between
<1>2. mesg \in Messages /\ cs \in Slaves /\ spi_log \in Seq(SpiEntries)
  BY <1>1, CurrentFacts DEF SpiTypeOK
<1>3. /\ spi_poll' = spi_poll /\ ie' = ie /\ mesg' = mesg /\ cs' = cs /\ ss' = ss
      /\ spi_pc' = spi_pc
      /\ cur_xfer' = cur_xfer /\ cur_rx_buf' = cur_rx_buf /\ cur_len' = cur_len
      /\ cur_tx_buf' = cur_tx_buf /\ stored' = stored
      /\ go' = FALSE /\ tx' = <<>> /\ int_o' = (ie \/ int_o)
      /\ spi_log' = Append(spi_log, <<ss, tx>>) /\ rx' = Len(spi_log')
  BY DEF Shift, cur
<1>4. WordOK' /\ SpiHere' = SpiHere /\ SpiNext0' = SpiNext0
  BY <1>1, <1>3 DEF SpiGoingOK, WordOK, SpiHere, SpiNext0, Buffer, Bits
<1>5. /\ cur_xfer \in Sent(mesg) /\ SpiHere \in SpiPlaces(mesg) /\ cur_len > 0
      /\ cur_len \in Nat
      /\ spi_poll <=> ~ie
  BY <1>1 DEF SpiGoingOK, WordOK, SpiTypeOK
<1>6. mesg[cur_xfer].len \in Nat /\ Width(mesg, cur_xfer) \in Nat
  BY <1>2, <1>5, SentFacts
<1>7. mesg[cur_xfer].len - cur_len < mesg[cur_xfer].len
  BY <1>5, <1>6
<1>8. SpiSeen(mesg, SpiNext0) = SpiSeen(mesg, SpiHere) \cup {SpiHere}
  BY <1>2, <1>5, <1>7, SeenWord DEF SpiHere, SpiNext0, Width, Bits
<1>9. SpiLogIs(mesg, cs, spi_log', SpiNext0)
  BY <1>1, <1>2, <1>3, <1>5, <1>8, SpiLogGrows DEF SpiGoingOK
<1>10. SpiEvent(mesg, cs, SpiHere) \in SpiEntries
  BY <1>2, <1>5, SpiEventType
<1>11. spi_log' \in Seq(SpiEntries)
  BY <1>1, <1>2, <1>3, <1>10 DEF SpiGoingOK
<1>12. ss = {cs}
  <2>1. SpiHere[2] # mesg[SpiHere[1]].len
    BY <1>5, <1>6, <1>7 DEF SpiHere
  <2>2. SpiEvent(mesg, cs, SpiHere) = <<{cs}, IF mesg[SpiHere[1]].tx THEN SpiHere ELSE <<>>>>
    BY <2>1, Zenon DEF SpiEvent
  <2>3. SpiEvent(mesg, cs, SpiHere)[1] = {cs}
    BY <2>2
  <2> QED BY <1>1, <2>3 DEF SpiGoingOK
<1>13. SpiLogIs(mesg, cs, spi_log, SpiNext0)'
  BY <1>3, <1>4, <1>9
<1>14. NextBuf'
  BY <1>1, <1>3, <1>4 DEF SpiGoingOK, NextBuf
<1>15. /\ \/ spi_poll /\ (Both("wait", "out") \/ Both("stuck", "out"))' /\ ~int_o'
          \/ ~spi_poll /\ Both("out", "out")' /\ int_o'
  BY <1>1, <1>3, <1>5 DEF SpiGoingOK, Both
<1>16. SpiGoneOK'
  BY <1>3, <1>4, <1>12, <1>13, <1>14, <1>15 DEF SpiGoneOK
<1>17. SpiTypeOK'
  BY <1>1, <1>3, <1>5, <1>11 DEF SpiTypeOK
<1> QED BY <1>1, <1>3, <1>16, <1>17 DEF SpiInv, BusyOK


(* A word that is read is stored with its number.                          *)
LEMMA ProcessStep ==
  ASSUME Whole, SpiInv, NEW c \in Context, spi_ocores_process(c)
  PROVE  SpiInv'
<1>1. Alone(c, "process") /\ mesg # <<>> /\ SpiGoneOK /\ SpiTypeOK
  BY WhereAt DEF spi_ocores_process, SpiInv
<1>2. mesg \in Messages /\ mesg \in Messages \cup {<<>>} /\ cs \in Slaves
  BY <1>1, CurrentFacts DEF SpiTypeOK
<1> DEFINE w == Width(mesg, cur_xfer)
           len == mesg[cur_xfer].len
           b == len - cur_len
<1>3. /\ ~go /\ cur_xfer \in Sent(mesg) /\ <<cur_xfer, b>> \in SpiPlaces(mesg)
      /\ cur_len > 0 /\ cur_len \in Nat /\ (spi_poll <=> ~ie)
      /\ cur_rx_buf = IF mesg[cur_xfer].rx THEN b ELSE NULL
      /\ StoredIs(mesg, stored, <<cur_xfer, b>>)
  BY <1>1 DEF SpiGoneOK, WordOK, SpiHere, Buffer, SpiTypeOK
<1>4. /\ len \in Nat /\ w \in {1, 2, 4, 8, 16} /\ mesg[cur_xfer].bits \div 8 = w
      /\ len % w = 0 /\ mesg[cur_xfer].rx \in BOOLEAN
  BY <1>2, <1>3, SentFacts
<1>5. b \in Nat /\ b % w = 0 /\ b < len
  <2>1. <<cur_xfer, b>>[2] \in Nat
    BY <1>2, <1>3, SpiPlaceType
  <2>2. b % w = 0
    BY <1>3, SpiPlaceIs
  <2> HIDE DEF w, len
  <2> QED BY <1>3, <1>4, <2>1, <2>2
<1>6. /\ spi_poll' = spi_poll /\ go' = go /\ ie' = ie /\ tx' = tx /\ rx' = rx /\ ss' = ss
      /\ spi_log' = spi_log
      /\ mesg' = mesg /\ cs' = cs /\ cur_xfer' = cur_xfer /\ cur_tx_buf' = cur_tx_buf
      /\ int_o' = FALSE /\ cur_len' = cur_len - w
      /\ spi_ocores_hw_xfer_rx_pop
      /\ spi_pc' = [spi_pc EXCEPT ![c] = IF cur_len' # 0 THEN "push" ELSE "finish"]
  <2>1. spi_ocores_hw_xfer_rx_pop /\ cur_xfer' = cur_xfer /\ cur_tx_buf' = cur_tx_buf
    BY <1>3 DEF spi_ocores_process
  <2>2. cur_len' = cur_len - w
    BY <2>1, <1>4 DEF spi_ocores_hw_xfer_rx_pop, Bits
  <2>3. spi_pc' = [spi_pc EXCEPT ![c] = IF cur_len' # 0 THEN "push" ELSE "finish"]
    BY <1>3 DEF spi_ocores_process
  <2> QED BY <2>1, <2>2, <2>3 DEF spi_ocores_process
<1>7. cur_len' \in Nat /\ len - cur_len' = b + w /\ b + w <= len /\ (b + w) % w = 0
  <2>1. b + w <= len /\ (b + w) % w = 0
    <3> DEFINE p == b
    <3>1. p \in Nat /\ p % w = 0 /\ p < len /\ len \in Nat /\ len % w = 0
      BY <1>4, <1>5
    <3> HIDE DEF w, len, p
    <3>2. p + w <= len /\ (p + w) % w = 0
      BY <1>4, <3>1, NextMultiple
    <3> QED BY <3>2 DEF p
  <2> HIDE DEF w, len
  <2> QED BY <1>3, <1>4, <1>6, <2>1
<1>8. SpiNext0 = <<cur_xfer, b + w>> /\ SpiHere' = <<cur_xfer, b + w>>
  BY <1>6, <1>7 DEF SpiNext0, SpiHere, Width, Bits
<1>9. SpiSeen(mesg, <<cur_xfer, b + w>>) = SpiSeen(mesg, <<cur_xfer, b>>) \cup {<<cur_xfer, b>>}
  BY <1>2, <1>3, <1>5, SeenWord
<1>10. SpiLogIs(mesg, cs, spi_log, <<cur_xfer, b + w>>) /\ rx = Len(spi_log) /\ NextBuf
       /\ tx = <<>> /\ ss = {cs}
  BY <1>1, <1>8 DEF SpiGoneOK
<1>11. rx = SpiNumber(mesg, <<cur_xfer, b>>)
  <2> DEFINE h == <<cur_xfer, b>>
  <2>1. SpiNumber(mesg, h) = Cardinality(SpiSeen(mesg, h) \cup {h})
    <3> HIDE DEF h
    <3>1. {q \in SpiPlaces(mesg) : q = h \/ SpiBefore(q, h)} = SpiSeen(mesg, h) \cup {h}
      BY <1>3 DEF SpiSeen, h
    <3> QED BY <3>1 DEF SpiNumber
  <2> QED BY <1>9, <1>10, <2>1 DEF SpiLogIs
<1>12. /\ stored' = IF mesg[cur_xfer].rx
                    THEN stored \cup {<<<<cur_xfer, b>>, SpiNumber(mesg, <<cur_xfer, b>>)>>}
                    ELSE stored
       /\ cur_rx_buf' = IF mesg[cur_xfer].rx THEN b + w ELSE NULL
  <2>1. CASE mesg[cur_xfer].rx
    <3>1. cur_rx_buf = b /\ cur_rx_buf # NULL
      BY <1>3, <1>5, <2>1 DEF NULL
    <3>2. stored' = stored \cup {<<<<cur_xfer, cur_rx_buf>>, rx>>}
          /\ cur_rx_buf' = cur_rx_buf + w
      BY <1>6, <3>1 DEF spi_ocores_hw_xfer_rx_pop, Bits, Width
    <3> QED BY <2>1, <3>1, <3>2, <1>11
  <2>2. CASE ~mesg[cur_xfer].rx
    BY <1>3, <1>6, <2>2 DEF spi_ocores_hw_xfer_rx_pop
  <2> QED BY <2>1, <2>2, <1>4
<1>13. StoredIs(mesg, stored', <<cur_xfer, b + w>>)
  <2> DEFINE h == <<cur_xfer, b>>
             t == IF mesg[cur_xfer].rx THEN stored \cup {<<h, SpiNumber(mesg, h)>>} ELSE stored
  <2>1. StoredIs(mesg, t, <<cur_xfer, b + w>>)
    BY <1>2, <1>3, <1>5, <1>9, StoredGrows
  <2> QED BY <1>12, <2>1
<1>14. stored' = stored' /\ (StoredIs(mesg, stored, SpiHere))'
       /\ (SpiLogIs(mesg, cs, spi_log, SpiHere))'
  BY <1>6, <1>8, <1>10, <1>13
<1>15. CASE cur_len' # 0
  <2>1. spi_pc' = [spi_pc EXCEPT ![c] = "push"] /\ "push" \in SpiPc
    BY <1>6, <1>15 DEF SpiPc
  <2>2. One("push")' /\ spi_pc' \in [Context -> SpiPc]
    BY <1>1, <1>6, <2>1, Moves DEF SpiTypeOK
  <2>3. cur_len' > 0 /\ b + w < len
    <3> DEFINE v == cur_len'
    <3>1. v \in Nat /\ len - v = b + w /\ v # 0 /\ b \in Nat /\ w \in Nat /\ len \in Nat
      BY <1>4, <1>5, <1>7, <1>15
    <3> HIDE DEF w, len, b, v
    <3>2. v > 0 /\ b + w < len
      BY <3>1
    <3> QED BY <3>2 DEF v
  <2>4. <<cur_xfer, b + w>> \in SpiPlaces(mesg)
    <3> DEFINE p == b + w
    <3>1. p \in 0..len /\ p < len /\ p % w = 0
      <4> HIDE DEF w, len
      <4> QED BY <1>4, <1>5, <1>7, <2>3
    <3> HIDE DEF p
    <3>2. <<cur_xfer, p>> \in SpiPlaces(mesg)
      BY <1>3, <3>1, SpiPlaceIs
    <3> QED BY <3>2 DEF p
  <2>5. Buffer(mesg[cur_xfer].rx)' = (IF mesg[cur_xfer].rx THEN b + w ELSE NULL)
        /\ Buffer(mesg[cur_xfer].tx)' = (IF mesg[cur_xfer].tx THEN b + w ELSE NULL)
    BY <1>6, <1>7 DEF Buffer
  <2>6. WordOK'
    BY <1>3, <1>6, <1>8, <1>12, <1>14, <2>3, <2>4, <2>5 DEF WordOK
  <2>7. cur_tx_buf = IF mesg[cur_xfer].tx THEN b + w ELSE NULL
    BY <1>8, <1>10 DEF NextBuf
  <2>8. PushOK'
    BY <1>3, <1>6, <1>10, <1>14, <2>2, <2>5, <2>6, <2>7 DEF PushOK
  <2>9. SpiTypeOK'
    BY <1>1, <1>6, <1>7, <2>2 DEF SpiTypeOK
  <2> QED BY <1>1, <1>6, <2>8, <2>9 DEF SpiInv, BusyOK
<1>16. CASE cur_len' = 0
  <2>1. spi_pc' = [spi_pc EXCEPT ![c] = "finish"] /\ "finish" \in SpiPc
    BY <1>6, <1>16 DEF SpiPc
  <2>2. One("finish")' /\ spi_pc' \in [Context -> SpiPc]
    BY <1>1, <1>6, <2>1, Moves DEF SpiTypeOK
  <2>3. FinishOK'
    BY <1>3, <1>6, <1>10, <1>14, <1>16, <2>2 DEF FinishOK
  <2>4. SpiTypeOK'
    BY <1>1, <1>6, <1>7, <2>2 DEF SpiTypeOK
  <2> QED BY <1>1, <1>6, <2>3, <2>4 DEF SpiInv, BusyOK
<1> QED BY <1>15, <1>16

(* Nothing is read between the end of a transfer and the next transfer.    *)
LEMMA ReadOff ==
  ASSUME Whole, NEW m \in Messages, NEW k \in Sent(m), NEW t
  PROVE  StoredIs(m, t, <<k, m[k].len>>) <=> StoredIs(m, t, <<k + 1, 0>>)
<1> DEFINE len == m[k].len
<1>1. k \in Nat /\ len \in Nat
  BY SentFacts
<1>2. ASSUME NEW p \in Read(m)
      PROVE  SpiBefore(p, <<k, len>>) <=> SpiBefore(p, <<k + 1, 0>>)
  <2>1. p \in SpiPlaces(m) /\ p[2] < m[p[1]].len
    BY DEF Read
  <2>2. p[1] \in Nat /\ p[2] \in Nat /\ (p[1] = k => p[2] < len)
    BY <2>1, SpiPlaceType
  <2> HIDE DEF len
  <2> QED BY <1>1, <2>2 DEF SpiBefore
<1> HIDE DEF len
<1>3. {q \in Read(m) : SpiBefore(q, <<k, len>>)}
      = {q \in Read(m) : SpiBefore(q, <<k + 1, 0>>)}
  BY <1>2
<1> QED BY <1>3 DEF StoredIs, len

(* The place where a transfer ends, if it is one.                          *)
LEMMA EndPlace ==
  ASSUME Whole, NEW m \in Messages, NEW k \in Sent(m), NEW s
  PROVE  /\ m[k].cs_change \/ k + 1 \notin Sent(m) =>
              <<k, m[k].len>> \in SpiPlaces(m)
              /\ SpiEvent(m, s, <<k, m[k].len>>) = <<"off">>
         /\ ~m[k].cs_change /\ k + 1 \in Sent(m) =>
              SpiSeen(m, <<k + 1, 0>>) = SpiSeen(m, <<k, m[k].len>>)
<1> DEFINE len == m[k].len
<1>1. len \in 0..len /\ len % Width(m, k) = 0 /\ ~(len < len)
  BY SentFacts
<1>2. <<k, len>>[1] = k /\ <<k, len>>[2] = len
  OBVIOUS
<1>3. SpiEvent(m, s, <<k, len>>) = <<"off">>
  BY <1>2 DEF SpiEvent
<1>4. <<k, len>> \in SpiPlaces(m) <=> m[k].cs_change \/ k + 1 \notin Sent(m)
  BY <1>1, SpiPlaceIs
<1>5. ASSUME <<k, len>> \notin SpiPlaces(m)
      PROVE  SpiSeen(m, <<k + 1, 0>>) = SpiSeen(m, <<k, len>>)
  <2> DEFINE e == <<k, len>>
  <2>1. SpiSeen(m, <<k + 1, 0>>) = SpiSeen(m, e) \cup ({e} \cap SpiPlaces(m))
        /\ e \notin SpiPlaces(m)
    BY <1>5, SeenOff
  <2> HIDE DEF e
  <2>2. SpiSeen(m, <<k + 1, 0>>) = SpiSeen(m, e)
    BY <2>1
  <2> QED BY <2>2 DEF e
<1> QED BY <1>3, <1>4, <1>5

LEMMA SpiFinishStep ==
  ASSUME Whole, SpiInv, NEW c \in Context, spi_ocores_sw_xfer_finish(c)
  PROVE  SpiInv'
<1>1. Alone(c, "finish") /\ mesg # <<>> /\ FinishOK /\ SpiTypeOK
  BY WhereAt DEF spi_ocores_sw_xfer_finish, SpiAt, SpiInv
<1>2. mesg \in Messages /\ cs \in Slaves /\ spi_log \in Seq(SpiEntries)
  BY <1>1, CurrentFacts DEF SpiTypeOK
<1> DEFINE k == cur_xfer
           len == mesg[k].len
<1>3. /\ k \in Sent(mesg) /\ cur_len = 0 /\ ~go /\ ~int_o /\ tx = <<>> /\ ss = {cs}
  BY <1>1 DEF FinishOK
<1>4. k \in Nat /\ k >= 1 /\ len \in Nat /\ mesg[k].cs_change \in BOOLEAN
  BY <1>2, <1>3, SentFacts
<1>5. SpiHere = <<k, len>>
  BY <1>3, <1>4 DEF SpiHere
<1>6. SpiLogIs(mesg, cs, spi_log, <<k, len>>) /\ StoredIs(mesg, stored, <<k, len>>)
  BY <1>1, <1>5 DEF FinishOK
<1>7. /\ spi_poll' = spi_poll /\ go' = go /\ ie' = ie /\ tx' = tx /\ rx' = rx
      /\ mesg' = mesg
      /\ cs' = cs /\ cur_xfer' = cur_xfer /\ stored' = stored /\ cur_len' = 0
      /\ spi_pc' = [spi_pc EXCEPT ![c] = "next"] /\ "next" \in SpiPc
  BY DEF spi_ocores_sw_xfer_finish, SpiAt, SpiPc
<1>8. One("next")' /\ spi_pc' \in [Context -> SpiPc]
  BY <1>1, <1>7, Moves DEF SpiTypeOK
<1>9. CASE mesg[k].cs_change
  <2>1. Select(ss \ {cs}) /\ int_o' = FALSE
    BY <1>9 DEF spi_ocores_sw_xfer_finish
  <2>2. ss' = {} /\ spi_log' = Append(spi_log, <<"off">>)
    BY <1>1, <1>2, <1>3, <2>1, Deselects DEF SpiTypeOK
  <2>3. <<k, len>> \in SpiPlaces(mesg) /\ SpiEvent(mesg, cs, <<k, len>>) = <<"off">>
    BY <1>2, <1>3, <1>9, EndPlace
  <2>4. SpiSeen(mesg, <<k + 1, 0>>) = SpiSeen(mesg, <<k, len>>) \cup {<<k, len>>}
    BY <1>2, <1>3, <2>3, SeenOff
  <2>5. SpiLogIs(mesg, cs, Append(spi_log, SpiEvent(mesg, cs, <<k, len>>)), <<k + 1, 0>>)
    BY <1>2, <1>6, <2>3, <2>4, SpiLogGrows
  <2>6. StoredIs(mesg, stored, <<k + 1, 0>>)
    BY <1>2, <1>3, <1>6, ReadOff
  <2>7. After(k) = <<k + 1, 0>>
    BY <1>4, <1>9 DEF After
  <2>8. SpiLogIs(mesg, cs, spi_log', After(k)) /\ StoredIs(mesg, stored, After(k))
    BY <2>2, <2>3, <2>5, <2>6, <2>7
  <2>9. After(cur_xfer)' = After(k)
    BY <1>7 DEF After
  <2>10. (SpiLogIs(mesg, cs, spi_log, After(cur_xfer)))'
         /\ (StoredIs(mesg, stored, After(cur_xfer)))'
    BY <1>7, <2>8, <2>9
  <2>11. NextOK'
    BY <1>3, <1>4, <1>7, <1>8, <1>9, <2>1, <2>2, <2>10 DEF NextOK, Between
  <2>12. spi_log' \in Seq(SpiEntries) /\ ss' \in {{}, {cs}}
    BY <1>2, <2>2 DEF SpiEntries
  <2>13. SpiTypeOK'
    BY <1>1, <1>7, <1>8, <2>1, <2>12 DEF SpiTypeOK
  <2> QED BY <1>1, <1>7, <2>11, <2>13 DEF SpiInv, BusyOK
<1>10. CASE ~mesg[k].cs_change
  <2>1. ss' = ss /\ spi_log' = spi_log /\ int_o' = int_o
    BY <1>10 DEF spi_ocores_sw_xfer_finish
  <2>2. After(k) = <<k, len>>
    BY <1>4, <1>10 DEF After
  <2>3. After(cur_xfer)' = After(k)
    BY <1>7 DEF After
  <2>4. (SpiLogIs(mesg, cs, spi_log, After(cur_xfer)))'
        /\ (StoredIs(mesg, stored, After(cur_xfer)))'
    BY <1>6, <1>7, <2>1, <2>2, <2>3
  <2>5. NextOK'
    BY <1>3, <1>4, <1>7, <1>8, <1>10, <2>1, <2>4 DEF NextOK, Between
  <2>6. SpiTypeOK'
    BY <1>1, <1>7, <1>8, <2>1 DEF SpiTypeOK
  <2> QED BY <1>1, <1>7, <2>5, <2>6 DEF SpiInv, BusyOK
<1> QED BY <1>4, <1>9, <1>10

(* The next transfer starts where the one before it is over.               *)
LEMMA NextStep ==
  ASSUME Whole, SpiInv, NEW c \in Context, spi_ocores_sw_xfer_next_init(c)
  PROVE  SpiInv'
<1>1. Alone(c, "next") /\ mesg # <<>> /\ NextOK /\ SpiTypeOK
  BY WhereAt DEF spi_ocores_sw_xfer_next_init, SpiInv
<1>2. mesg \in Messages /\ cs \in Slaves /\ mesg \in Seq(Transfer) /\ mesg # <<>>
      /\ Len(mesg) \in Nat /\ DOMAIN mesg = 1..Len(mesg) /\ Len(mesg) # 0
  BY <1>1, CurrentFacts, MessagesAssumption DEF SpiTypeOK
<1> DEFINE k == cur_xfer
<1>3. /\ k \in Nat /\ Between(k)
      /\ ~go /\ ~int_o /\ tx = <<>> /\ cur_len = 0 /\ (k # 0 => k \in Sent(mesg))
      /\ ss = IF k = 0 \/ mesg[k].cs_change THEN {} ELSE {cs}
      /\ SpiLogIs(mesg, cs, spi_log, After(k)) /\ StoredIs(mesg, stored, After(k))
  BY <1>1 DEF NextOK, Between, SpiTypeOK
<1>4. /\ spi_poll' = spi_poll /\ go' = go /\ tx' = tx /\ rx' = rx /\ ss' = ss
      /\ spi_log' = spi_log
      /\ mesg' = mesg /\ cs' = cs /\ stored' = stored
      /\ cur_xfer' = IF k = Len(mesg) THEN k ELSE k + 1
  BY DEF spi_ocores_sw_xfer_next_init
<1>5. k <= Len(mesg)
  <2>1. CASE k = 0
    BY <1>2, <2>1
  <2>2. CASE k # 0
    BY <1>2, <1>3, <2>2, SentFacts
  <2> QED BY <2>1, <2>2
<1>6. 1 \in Sent(mesg)
  BY <1>2 DEF Whole, Sent
<1>7. k + 1 \in Sent(mesg) <=> k < Len(mesg) /\ Valid(mesg[k + 1])
  <2>1. CASE k = 0
    BY <1>2, <1>6, <2>1 DEF Sent
  <2>2. CASE k # 0
    BY <1>2, <1>3, <1>5, <2>2 DEF Sent
  <2> QED BY <2>1, <2>2
<1>8. cur_xfer' # cur_xfer /\ Valid(mesg[cur_xfer']) <=> k + 1 \in Sent(mesg)
  <2>1. CASE k = Len(mesg)
    BY <1>3, <1>4, <1>7, <2>1
  <2>2. CASE k # Len(mesg)
    <3>1. cur_xfer' = k + 1
      BY <1>4, <2>2
    <3>2. k < Len(mesg) /\ k + 1 # k
      <4> DEFINE n == Len(mesg)
      <4>1. n \in Nat /\ k \in Nat /\ k <= n /\ k # n
        BY <1>2, <1>3, <1>5, <2>2
      <4> HIDE DEF n, k
      <4> QED BY <4>1 DEF n
    <3> QED BY <1>7, <3>1, <3>2
  <2> QED BY <2>1, <2>2
<1>9. CASE k + 1 \in Sent(mesg)
  <2> DEFINE x == mesg[k + 1]
  <2>1. k < Len(mesg) /\ cur_xfer' = k + 1
    BY <1>3, <1>4, <1>7, <1>9
  <2>2. /\ spi_pc' = [spi_pc EXCEPT ![c] = "push"] /\ "push" \in SpiPc
        /\ ie' = ~spi_poll /\ int_o' = FALSE
        /\ cur_tx_buf' = (IF x.tx THEN 0 ELSE NULL)
        /\ cur_rx_buf' = (IF x.rx THEN 0 ELSE NULL)
        /\ cur_len' = x.len
    BY <1>8, <1>9, <2>1 DEF spi_ocores_sw_xfer_next_init, SpiPc
  <2>3. One("push")' /\ spi_pc' \in [Context -> SpiPc]
    BY <1>1, <1>4, <2>2, Moves DEF SpiTypeOK
  <2>4. /\ x.len \in Nat /\ x.len >= Width(mesg, k + 1)
        /\ Width(mesg, k + 1) \in {1, 2, 4, 8, 16}
    BY <1>2, <1>9, SentFacts
  <2>5. x.len > 0 /\ x.len - x.len = 0 /\ 0 \in 0..x.len /\ 0 % Width(mesg, k + 1) = 0
    <3> DEFINE n == x.len
               w == Width(mesg, k + 1)
    <3>1. n \in Nat /\ n >= w /\ w \in {1, 2, 4, 8, 16}
      BY <2>4
    <3> HIDE DEF n, w
    <3>2. n > 0 /\ n - n = 0 /\ 0 \in 0..n /\ 0 % w = 0
      BY <3>1
    <3> QED BY <3>2 DEF n, w
  <2>6. <<k + 1, 0>> \in SpiPlaces(mesg)
    BY <1>9, <2>5, SpiPlaceIs
  <2>7. SpiHere' = <<k + 1, 0>>
    BY <1>4, <2>1, <2>2, <2>5 DEF SpiHere
  <2>8. SpiLogIs(mesg, cs, spi_log, <<k + 1, 0>>) /\ StoredIs(mesg, stored, <<k + 1, 0>>)
    <3>1. CASE k = 0
      BY <1>3, <3>1 DEF After
    <3>2. CASE k # 0 /\ mesg[k].cs_change
      BY <1>3, <3>2 DEF After
    <3>3. CASE k # 0 /\ ~mesg[k].cs_change
      <4>1. After(k) = <<k, mesg[k].len>>
        BY <3>3 DEF After
      <4>2. SpiSeen(mesg, <<k + 1, 0>>) = SpiSeen(mesg, <<k, mesg[k].len>>)
        BY <1>2, <1>3, <1>9, <3>3, EndPlace
      <4>3. SpiLogIs(mesg, cs, spi_log, <<k + 1, 0>>)
        BY <1>3, <4>1, <4>2 DEF SpiLogIs
      <4> QED BY <1>2, <1>3, <3>3, <4>1, <4>3, ReadOff
    <3> QED BY <3>1, <3>2, <3>3
  <2>9. (SpiLogIs(mesg, cs, spi_log, SpiHere))' /\ (StoredIs(mesg, stored, SpiHere))'
    BY <1>4, <2>7, <2>8
  <2>10. Buffer(mesg[cur_xfer].rx)' = (IF x.rx THEN 0 ELSE NULL)
         /\ Buffer(mesg[cur_xfer].tx)' = (IF x.tx THEN 0 ELSE NULL)
    BY <1>4, <2>1, <2>2, <2>5 DEF Buffer
  <2>11. WordOK'
    BY <1>1, <1>4, <1>9, <2>1, <2>2, <2>5, <2>6, <2>7, <2>9, <2>10 DEF WordOK, SpiTypeOK
  <2>12. PushOK'
    BY <1>3, <1>4, <2>2, <2>3, <2>9, <2>10, <2>11 DEF PushOK
  <2>13. cur_xfer' \in Nat /\ cur_len' \in Nat /\ ie' \in BOOLEAN
    BY <1>1, <1>3, <2>1, <2>2, <2>4 DEF SpiTypeOK
  <2>14. SpiTypeOK'
    BY <1>1, <1>4, <2>2, <2>3, <2>13 DEF SpiTypeOK
  <2> QED BY <1>1, <1>4, <2>12, <2>14 DEF SpiInv, BusyOK
<1>10. CASE k + 1 \notin Sent(mesg)
  <2>1. k # 0
    BY <1>6, <1>10
  <2>2. /\ spi_pc' = [spi_pc EXCEPT ![c] = Refused] /\ ie' = ie /\ int_o' = int_o
        /\ cur_tx_buf' = cur_tx_buf /\ cur_rx_buf' = cur_rx_buf /\ cur_len' = cur_len
    BY <1>8, <1>10 DEF spi_ocores_sw_xfer_next_init
  <2>3. spi_pc' = [spi_pc EXCEPT ![c] = "finalize"] /\ "finalize" \in SpiPc
    BY <2>1, <2>2 DEF Refused, SpiPc
  <2>4. One("finalize")' /\ spi_pc' \in [Context -> SpiPc]
    BY <1>1, <1>4, <2>3, Moves DEF SpiTypeOK
  <2>5. PICK a : a = k
    OBVIOUS
  <2>6. a \in Sent(mesg) /\ a + 1 \notin Sent(mesg) /\ Between(a)
    BY <1>3, <1>10, <2>1, <2>5
  <2>7. FinalizeOK'
    <3>1. Between(a)'
      BY <1>4, <2>2, <2>6 DEF Between, After
    <3> QED BY <1>4, <2>4, <2>6, <3>1 DEF FinalizeOK
  <2>8. cur_xfer' \in Nat
    <3>1. CASE k = Len(mesg)
      BY <1>3, <1>4, <3>1
    <3>2. CASE k # Len(mesg)
      BY <1>3, <1>4, <3>2
    <3> QED BY <3>1, <3>2
  <2>9. SpiTypeOK'
    BY <1>1, <1>4, <2>2, <2>4, <2>8 DEF SpiTypeOK
  <2> QED BY <1>1, <1>4, <2>7, <2>9 DEF SpiInv, BusyOK
<1> QED BY <1>9, <1>10

(* After the last transfer the slave is released, and all is seen.         *)
LEMMA FinalizeStep ==
  ASSUME Whole, SpiInv, NEW c \in Context, spi_ocores_finalize_current_message(c)
  PROVE  SpiInv'
<1>1. Alone(c, "finalize") /\ mesg # <<>> /\ FinalizeOK /\ SpiTypeOK
  BY WhereAt DEF spi_ocores_finalize_current_message, SpiAt, SpiInv
<1>2. mesg \in Messages /\ cs \in Slaves /\ spi_log \in Seq(SpiEntries)
  BY <1>1, CurrentFacts DEF SpiTypeOK
<1>3. PICK k \in Sent(mesg) : k + 1 \notin Sent(mesg) /\ Between(k)
  BY <1>1 DEF FinalizeOK
<1>4. k \in Nat /\ k >= 1 /\ mesg[k].cs_change \in BOOLEAN
  BY <1>2, SentFacts
<1>5. /\ ~go /\ tx = <<>> /\ cur_len = 0
      /\ ss = IF mesg[k].cs_change THEN {} ELSE {cs}
      /\ SpiLogIs(mesg, cs, spi_log, After(k)) /\ StoredIs(mesg, stored, After(k))
  BY <1>3, <1>4 DEF Between
<1>6. /\ spi_poll' = spi_poll /\ go' = go /\ ie' = ie /\ tx' = tx /\ rx' = rx
      /\ mesg' = mesg
      /\ cs' = cs /\ cur_xfer' = 0 /\ cur_len' = cur_len /\ stored' = stored
      /\ int_o' = FALSE
      /\ Select(ss \ {cs})
      /\ spi_pc' = [spi_pc EXCEPT ![c] = "finalized"] /\ "finalized" \in SpiPc
  BY DEF spi_ocores_finalize_current_message, SpiAt, SpiPc
<1>7. One("finalized")' /\ spi_pc' \in [Context -> SpiPc]
  BY <1>1, <1>6, Moves DEF SpiTypeOK
<1>8. ss' = {} /\ spi_log' = IF ss = {} THEN spi_log ELSE Append(spi_log, <<"off">>)
  BY <1>1, <1>5, <1>6, Deselects DEF SpiTypeOK
<1>9. SpiSeen(mesg, <<k + 1, 0>>) = SpiPlaces(mesg)
  BY <1>2, <1>3, SeenAll
<1>10. SpiLogIs(mesg, cs, spi_log', <<k + 1, 0>>) /\ spi_log' \in Seq(SpiEntries)
       /\ StoredIs(mesg, stored, <<k + 1, 0>>)
  <2>1. CASE mesg[k].cs_change
    <3>1. After(k) = <<k + 1, 0>> /\ spi_log' = spi_log
      BY <1>4, <1>5, <1>8, <2>1 DEF After
    <3> QED BY <1>2, <1>5, <3>1
  <2>2. CASE ~mesg[k].cs_change
    <3> DEFINE e == <<k, mesg[k].len>>
    <3>1. After(k) = e
      BY <1>4, <2>2 DEF After
    <3>2. spi_log' = Append(spi_log, <<"off">>)
      BY <1>5, <1>8, <2>2
    <3>3. e \in SpiPlaces(mesg) /\ SpiEvent(mesg, cs, e) = <<"off">>
      BY <1>2, <1>3, EndPlace
    <3>4. SpiSeen(mesg, <<k + 1, 0>>) = SpiSeen(mesg, e) \cup {e}
      BY <1>2, <1>3, <3>3, SeenOff
    <3>5. SpiLogIs(mesg, cs, Append(spi_log, SpiEvent(mesg, cs, e)), <<k + 1, 0>>)
      <4> HIDE DEF e
      <4> QED BY <1>2, <1>5, <3>1, <3>3, <3>4, SpiLogGrows
    <3>6. StoredIs(mesg, stored, <<k + 1, 0>>)
      BY <1>2, <1>5, <3>1, ReadOff
    <3>7. spi_log' \in Seq(SpiEntries)
      BY <1>2, <3>2 DEF SpiEntries
    <3> QED BY <3>2, <3>3, <3>5, <3>6, <3>7
  <2> QED BY <2>1, <2>2, <1>4
<1>11. stored = {<<p, SpiNumber(mesg, p)>> : p \in Read(mesg)}
  <2> DEFINE e == <<k + 1, 0>>
  <2>1. SpiSeen(mesg, e) = SpiPlaces(mesg) /\ StoredIs(mesg, stored, e)
    BY <1>9, <1>10
  <2> HIDE DEF e
  <2>2. {q \in Read(mesg) : SpiBefore(q, e)} = Read(mesg)
    BY <2>1 DEF SpiSeen, Read
  <2> QED BY <2>1, <2>2 DEF StoredIs
<1>12. (\E d : SpiLogIs(mesg, cs, spi_log, d) /\ SpiSeen(mesg, d) = SpiPlaces(mesg))'
  BY <1>6, <1>9, <1>10
<1>13. FinalizedOK'
  BY <1>5, <1>6, <1>7, <1>8, <1>11, <1>12 DEF FinalizedOK
<1>14. SpiTypeOK'
  BY <1>1, <1>6, <1>7, <1>8, <1>10 DEF SpiTypeOK
<1> QED BY <1>1, <1>6, <1>13, <1>14 DEF SpiInv, BusyOK

LEMMA FinalizedStep ==
  ASSUME Whole, SpiInv, NEW c \in Context, spi_finalize_current_message(c)
  PROVE  SpiInv' /\ \A d \in Context : spi_pc'[d] = "out"
<1>1. Alone(c, "finalized") /\ mesg # <<>> /\ FinalizedOK /\ SpiTypeOK
  BY WhereAt DEF spi_finalize_current_message, SpiAt, SpiInv
<1>2. /\ spi_poll' = spi_poll /\ UNCHANGED spi /\ UNCHANGED cs /\ UNCHANGED cur
      /\ mesg' = <<>>
      /\ spi_pc' = [spi_pc EXCEPT ![c] = "out"] /\ "out" \in SpiPc
  BY DEF spi_finalize_current_message, SpiAt, SpiPc
<1>3. One("out")' /\ spi_pc' \in [Context -> SpiPc]
  BY <1>1, <1>2, Moves DEF SpiTypeOK
<1>4. (Both("out", "out"))'
  BY <1>3 DEF One
<1>5. IdleOK'
  BY <1>1, <1>2, <1>4 DEF FinalizedOK, IdleOK, spi, cur
<1>6. SpiTypeOK'
  BY <1>1, <1>2, <1>3 DEF SpiTypeOK, spi, cur
<1>7. \A d \in Context : spi_pc'[d] = "out"
  BY <1>4 DEF Both, Context
<1> QED BY <1>2, <1>5, <1>6, <1>7 DEF SpiInv

-----------------------------------------------------------------------------
(* The thread, the handler and the rest                                    *)

LEMMA SpiStartStep ==
  ASSUME Whole, SpiInv, spi_ocores_transfer_one_message
  PROVE  SpiInv'
<1>1. mesg = <<>> /\ IdleOK /\ SpiTypeOK
  BY DEF spi_ocores_transfer_one_message, SpiInv
<1>2. /\ mesg' \in Messages /\ cs' \in Slaves /\ spi_log' = <<>> /\ stored' = {}
      /\ spi_poll' = spi_poll /\ go' = go /\ ie' = ie /\ tx' = tx /\ ss' = ss
      /\ int_o' = int_o
      /\ cur_xfer' = cur_xfer /\ cur_len' = cur_len
      /\ spi_pc' = [spi_pc EXCEPT !["thread"] = "next"] /\ "next" \in SpiPc
      /\ "thread" \in Context
  BY DEF spi_ocores_transfer_one_message, SpiAt, SpiPc, Context
<1>3. Alone("thread", "out")
  BY <1>1 DEF IdleOK, Both, Alone, Context
<1>4. One("next")' /\ spi_pc' \in [Context -> SpiPc]
  BY <1>1, <1>2, <1>3, Moves DEF SpiTypeOK
<1>5. mesg' # <<>>
  BY <1>2, MessagesAssumption
<1>6. SpiSeen(mesg', <<1, 0>>) = {}
  BY <1>2, SpiSeenFirst
<1>7. SpiLogIs(mesg', cs', <<>>, <<1, 0>>)
  <2>1. Len(<<>>) = 0 /\ 1..0 = {}
    OBVIOUS
  <2> QED BY <1>6, <2>1, FS_EmptySet DEF SpiLogIs
<1>8. StoredIs(mesg', {}, <<1, 0>>)
  BY <1>6 DEF StoredIs, SpiSeen, Read
<1>9. After(cur_xfer)' = <<1, 0>>
  BY <1>1, <1>2 DEF IdleOK, After
<1>10. NextOK'
  BY <1>1, <1>2, <1>4, <1>7, <1>8, <1>9 DEF NextOK, Between, IdleOK
<1>11. spi_log' \in Seq(SpiEntries)
  BY <1>2
<1>12. SpiTypeOK'
  BY <1>1, <1>2, <1>4, <1>11 DEF SpiTypeOK, IdleOK
<1> QED BY <1>5, <1>10, <1>12 DEF SpiInv, BusyOK

(* What only moves the thread or the handler.                              *)
LEMMA StaysAt ==
  ASSUME mesg' = mesg, cs' = cs, cur_xfer' = cur_xfer, cur_len' = cur_len, spi_poll' = spi_poll,
         ie' = ie, spi_log' = spi_log, UNCHANGED cur, WordOK
  PROVE  /\ WordOK' /\ SpiHere' = SpiHere /\ SpiNext0' = SpiNext0
         /\ SpiLogIs(mesg, cs, spi_log, SpiHere) => SpiLogIs(mesg, cs, spi_log, SpiHere)'
         /\ SpiLogIs(mesg, cs, spi_log, SpiNext0) => SpiLogIs(mesg, cs, spi_log, SpiNext0)'
         /\ NextBuf => NextBuf'
         /\ SpiEvent(mesg, cs, SpiHere)' = SpiEvent(mesg, cs, SpiHere)
<1>1. SpiHere' = SpiHere
  BY DEF SpiHere
<1>2. SpiNext0' = SpiNext0
  BY DEF SpiNext0, Bits
<1>3. WordOK'
  BY <1>1 DEF WordOK, Buffer, cur
<1>4. NextBuf => NextBuf'
  BY <1>2 DEF NextBuf, cur
<1> QED BY <1>1, <1>2, <1>3, <1>4

LEMMA SpiWaitStep ==
  ASSUME SpiInv, spi_ocores_hw_xfer_wait_complete
  PROVE  SpiInv'
<1>1. spi_pc["thread"] = "wait" /\ ~go
  BY DEF spi_ocores_hw_xfer_wait_complete, SpiAt
<1>2. mesg # <<>> /\ spi_poll /\ ~int_o /\ SpiGoneOK /\ SpiTypeOK /\ Both("wait", "out")
  BY <1>1 DEF SpiInv, IdleOK, BusyOK, PushOK, SpiGoingOK, SpiGoneOK, FinishOK, NextOK,
              FinalizeOK,
              FinalizedOK, One, Both
<1>3. /\ spi_poll' = spi_poll /\ go' = go /\ ie' = ie /\ tx' = tx /\ rx' = rx /\ ss' = ss
      /\ spi_log' = spi_log
      /\ mesg' = mesg /\ cs' = cs /\ UNCHANGED cur /\ int_o' = FALSE
      /\ cur_xfer' = cur_xfer /\ cur_len' = cur_len
      /\ spi_pc' = [spi_pc EXCEPT !["thread"] = "process"] /\ "process" \in SpiPc
      /\ "thread" \in Context
  BY DEF spi_ocores_hw_xfer_wait_complete, SpiAt, cur, SpiPc, Context
<1>4. Alone("thread", "wait")
  BY <1>2 DEF Both, Alone, Context
<1>5. spi_pc' \in [Context -> SpiPc] /\ (Both("process", "out"))'
  BY <1>2, <1>3, <1>4, Moves DEF SpiTypeOK, Both
<1>6. SpiGoneOK'
  BY <1>2, <1>3, <1>5, StaysAt DEF SpiGoneOK
<1>7. SpiTypeOK'
  BY <1>2, <1>3, <1>5 DEF SpiTypeOK
<1> QED BY <1>2, <1>3, <1>6, <1>7 DEF SpiInv, BusyOK

LEMMA SpiTimeoutStep ==
  ASSUME SpiInv, PollTimeout
  PROVE  SpiInv'
<1>1. spi_pc["thread"] = "wait" /\ go
  BY DEF PollTimeout, SpiAt
<1>2. mesg # <<>> /\ spi_poll /\ SpiGoingOK /\ SpiTypeOK /\ Both("wait", "out")
  BY <1>1 DEF SpiInv, IdleOK, BusyOK, PushOK, SpiGoingOK, SpiGoneOK, FinishOK, NextOK,
              FinalizeOK,
              FinalizedOK, Between, One, Both
<1>3. /\ spi_poll' = spi_poll /\ go' = go /\ ie' = ie /\ tx' = tx /\ rx' = rx /\ ss' = ss
      /\ spi_log' = spi_log
      /\ mesg' = mesg /\ cs' = cs /\ UNCHANGED cur /\ int_o' = int_o
      /\ cur_xfer' = cur_xfer /\ cur_len' = cur_len
      /\ spi_pc' = [spi_pc EXCEPT !["thread"] = "stuck"] /\ "stuck" \in SpiPc
      /\ "thread" \in Context
  BY DEF PollTimeout, SpiAt, cur, spi, SpiPc, Context
<1>4. Alone("thread", "wait")
  BY <1>2 DEF Both, Alone, Context
<1>5. spi_pc' \in [Context -> SpiPc] /\ (Both("stuck", "out"))'
  BY <1>2, <1>3, <1>4, Moves DEF SpiTypeOK, Both
<1>6. WordOK' /\ NextBuf' /\ SpiLogIs(mesg, cs, spi_log, SpiHere)'
      /\ SpiEvent(mesg, cs, SpiHere)' = SpiEvent(mesg, cs, SpiHere)
  BY <1>2, <1>3, StaysAt DEF SpiGoingOK
<1>7. SpiGoingOK'
  BY <1>2, <1>3, <1>5, <1>6 DEF SpiGoingOK
<1>8. SpiTypeOK'
  BY <1>2, <1>3, <1>5 DEF SpiTypeOK
<1> QED BY <1>2, <1>3, <1>7, <1>8 DEF SpiInv, BusyOK

LEMMA HandlerStep ==
  ASSUME SpiInv, spi_ocores_irq_handler
  PROVE  SpiInv'
<1>1. ~spi_poll /\ int_o /\ spi_pc["irq"] = "out"
  BY DEF spi_ocores_irq_handler, SpiAt
<1>2. mesg # <<>> /\ SpiGoneOK /\ SpiTypeOK /\ Both("out", "out")
  BY <1>1 DEF SpiInv, IdleOK, BusyOK, PushOK, SpiGoingOK, SpiGoneOK, FinishOK, NextOK,
              FinalizeOK,
              FinalizedOK, Between, Both
<1>3. /\ spi_poll' = spi_poll /\ go' = go /\ ie' = ie /\ tx' = tx /\ rx' = rx /\ ss' = ss
      /\ spi_log' = spi_log
      /\ mesg' = mesg /\ cs' = cs /\ UNCHANGED cur /\ int_o' = int_o
      /\ cur_xfer' = cur_xfer /\ cur_len' = cur_len
      /\ spi_pc' = [spi_pc EXCEPT !["irq"] = "process"] /\ "process" \in SpiPc
      /\ "irq" \in Context
  BY DEF spi_ocores_irq_handler, SpiAt, cur, spi, SpiPc, Context
<1>4. Alone("irq", "out")
  BY <1>1, <1>2 DEF Both, Alone, Context
<1>5. spi_pc' \in [Context -> SpiPc] /\ (Both("out", "process"))'
  BY <1>2, <1>3, <1>4, Moves DEF SpiTypeOK, Both
<1>6. SpiGoneOK'
  BY <1>1, <1>2, <1>3, <1>5, StaysAt DEF SpiGoneOK
<1>7. SpiTypeOK'
  BY <1>2, <1>3, <1>5 DEF SpiTypeOK
<1> QED BY <1>2, <1>3, <1>6, <1>7 DEF SpiInv, BusyOK

LEMMA UnprepareStep ==
  ASSUME SpiInv, spi_ocores_unprepare_transfer_hardware
  PROVE  SpiInv'
<1>1. mesg = <<>> /\ IdleOK /\ SpiTypeOK
  BY DEF spi_ocores_unprepare_transfer_hardware, SpiInv
<1> QED BY <1>1 DEF spi_ocores_unprepare_transfer_hardware, SpiInv, IdleOK, SpiTypeOK,
                    Both, cur

LEMMA StutterStep ==
  ASSUME SpiInv, UNCHANGED spiVars
  PROVE  SpiInv'
<1>1. /\ spi_poll' = spi_poll /\ go' = go /\ ie' = ie /\ tx' = tx /\ rx' = rx /\ ss' = ss
      /\ spi_log' = spi_log
      /\ mesg' = mesg /\ cs' = cs /\ int_o' = int_o /\ spi_pc' = spi_pc
      /\ cur_xfer' = cur_xfer /\ cur_len' = cur_len /\ cur_tx_buf' = cur_tx_buf
      /\ cur_rx_buf' = cur_rx_buf /\ stored' = stored
  BY DEF spiVars, spi, cur
<1>2. SpiTypeOK'
  BY <1>1 DEF SpiInv, SpiTypeOK
<1>3. IdleOK => IdleOK'
  BY <1>1 DEF IdleOK, Both
<1>4. BusyOK => BusyOK'
  BY <1>1 DEF BusyOK, PushOK, SpiGoingOK, SpiGoneOK, FinishOK, NextOK, FinalizeOK,
              FinalizedOK,
              Between, WordOK, One, Both, SpiHere, SpiNext0, NextBuf, Buffer, Bits, After
<1> QED BY <1>1, <1>2, <1>3, <1>4 DEF SpiInv

LEMMA SpiInitInv ==
  ASSUME SpiInit
  PROVE  SpiInv
<1>1. spi_log \in Seq(SpiEntries) /\ spi_pc \in [Context -> SpiPc]
      /\ spi_pc["thread"] = "out" /\ spi_pc["irq"] = "out"
  BY DEF SpiInit, SpiPc, Context
<1>2. SpiTypeOK
  BY <1>1 DEF SpiInit, SpiTypeOK
<1> QED BY <1>1, <1>2 DEF SpiInit, SpiInv, IdleOK, Both

LEMMA SpiNextInv ==
  ASSUME Whole, SpiInv, [SpiNext]_spiVars
  PROVE  SpiInv'
<1>1. ASSUME NEW c \in Context, Step(c) PROVE SpiInv'
  BY <1>1, PushStep, ProcessStep, NextStep, SpiFinishStep, FinalizeStep,
     FinalizedStep DEF Step
<1>2. CASE SpiWorking
  BY <1>1, <1>2, ShiftStep, SpiWaitStep, HandlerStep DEF SpiWorking
<1> QED BY <1>2, SpiStartStep, SpiTimeoutStep, UnprepareStep, StutterStep DEF SpiNext

LEMMA SpiInvHolds == Whole => (SpiSpec => []SpiInv)
<1> SUFFICES ASSUME Whole PROVE SpiSpec => []SpiInv
  OBVIOUS
<1>1. SpiInit => SpiInv
  BY SpiInitInv
<1>2. SpiInv /\ [SpiNext]_spiVars => SpiInv'
  BY SpiNextInv
<1> QED BY <1>1, <1>2, PTL DEF SpiSpec

-----------------------------------------------------------------------------
(* Theorems                                                                *)

(* For every set of messages, of any number of transfers of any length, and *)
(* for every set of slaves: what the slaves see of a message are its words, *)
(* in order and once each, with its slave selected and no other, and the    *)
(* chip select going off where it has to.                                   *)
THEOREM SpiWordsInOrder == Whole => (SpiSpec => []WordsInOrder)
<1> SUFFICES ASSUME Whole PROVE SpiSpec => []WordsInOrder
  OBVIOUS
<1>1. SpiInv => WordsInOrder
  <2> SUFFICES ASSUME SpiInv, mesg # <<>>, NEW n \in 1..Len(spi_log)
               PROVE  \E p \in SpiPlaces(mesg) :
                        SpiNumber(mesg, p) = n /\ spi_log[n] = SpiEvent(mesg, cs, p)
    BY DEF WordsInOrder
  <2>1. \E d : SpiLogIs(mesg, cs, spi_log, d)
    BY DEF SpiInv, BusyOK, PushOK, SpiGoingOK, SpiGoneOK, FinishOK, NextOK, FinalizeOK,
           FinalizedOK, Between
  <2> QED BY <2>1 DEF SpiLogIs, SpiSeen
<1> QED BY <1>1, SpiInvHolds, PTL

(* A message goes back to the core when all of it is exchanged, what was   *)
(* read is complete and in place, its slave is released, and neither thread *)
(* nor handler is still at work on it.                                      *)
THEOREM SpiFinalizedWhenDone == Whole => (SpiSpec => FinalizedWhenDone)
<1> SUFFICES ASSUME Whole PROVE SpiSpec => FinalizedWhenDone
  OBVIOUS
<1>1. ASSUME SpiInv, [SpiNext]_spiVars, mesg # <<>>, mesg' = <<>>
      PROVE  /\ Len(spi_log) = Cardinality(SpiPlaces(mesg)) /\ ss = {} /\ ~go
             /\ cur_xfer = 0 /\ cur_len = 0
             /\ \A c \in Context : spi_pc'[c] = "out"
             /\ stored = {<<p, SpiNumber(mesg, p)>> : p \in Read(mesg)}
  <2>1. PICK c \in Context : spi_finalize_current_message(c)
    BY <1>1, MessagesAssumption
       DEF SpiNext, SpiWorking, Step, spiVars, Shift, Push, spi_ocores_process,
           spi_ocores_sw_xfer_next_init, spi_ocores_sw_xfer_finish,
           spi_ocores_finalize_current_message, spi_ocores_hw_xfer_wait_complete,
           spi_ocores_irq_handler, spi_ocores_transfer_one_message, PollTimeout,
           spi_ocores_unprepare_transfer_hardware
  <2>2. FinalizedOK
    BY <1>1, <2>1, WhereAt DEF spi_finalize_current_message, SpiAt
  <2>3. \A d \in Context : spi_pc'[d] = "out"
    BY <1>1, <2>1, FinalizedStep
  <2>4. Len(spi_log) = Cardinality(SpiPlaces(mesg))
    BY <2>2 DEF FinalizedOK, SpiLogIs
  <2> QED BY <2>2, <2>3, <2>4 DEF FinalizedOK
<1>2. SpiInv /\ [SpiNext]_spiVars =>
        [mesg # <<>> /\ mesg' = <<>> =>
           /\ Len(spi_log) = Cardinality(SpiPlaces(mesg)) /\ ss = {} /\ ~go
           /\ cur_xfer = 0 /\ cur_len = 0
           /\ \A c \in Context : spi_pc'[c] = "out"
           /\ stored = {<<p, SpiNumber(mesg, p)>> : p \in Read(mesg)}]_spiVars
  BY <1>1
<1> QED BY <1>2, SpiInvHolds, PTL DEF SpiSpec, FinalizedWhenDone

=============================================================================
