-------------------------- MODULE Crossbar_proofs ---------------------------
(***************************************************************************)
(* The connection matrix of Crossbar never joins two masters to a slave    *)
(* nor two slaves to a master, for any number of them, registered or not;  *)
(* it outlives every clock in which CYC stays up; a reply reaches the      *)
(* master that made the request; a cycle goes where it is addressed.  IInv *)
(* is the first of these, of the register behind granted.  RInv adds that  *)
(* whoever is owed a reply is connected (OwedOK), also to the error slave  *)
(* (ErrorOK), and what a cycle's first strobe has met (FirstOK).           *)
(***************************************************************************)
EXTENDS Crossbar, FiniteSetTheorems, SequenceTheorems, TLAPS

IInv == /\ matrix_old \subseteq Masters \X Slaves
        /\ OneToOne(matrix_old)

(* A request in the matrix is the lowest numbered one for its slave.       *)
LEMMA OneSelected ==
  ASSUME NEW m \in Masters, NEW k \in Masters, NEW s \in Slaves,
         selected(m, s), selected(k, s)
  PROVE  m = k
<1>1. request(m, s) /\ request(k, s)
  BY DEF selected
<1>2. m < k \/ k < m \/ m = k
  BY CrossbarAssumption DEF Masters
<1>3. m < k => m \in 0 .. k-1
  BY CrossbarAssumption DEF Masters
<1>4. k < m => k \in 0 .. m-1
  BY CrossbarAssumption DEF Masters
<1> QED BY <1>1, <1>2, <1>3, <1>4 DEF selected

(* A request is for one slave. *)
LEMMA OneRequest ==
  ASSUME NEW m, NEW s, NEW t, selected(m, s), selected(m, t)
  PROVE  s = t
BY DEF selected, request

(* A new matrix is one-to-one if the old one is: a column or a row in use  *)
(* is copied, and otherwise holds nothing but the selected request.        *)
LEMMA MatrixOneToOne ==
  ASSUME IInv
  PROVE  matrix_new \subseteq Masters \X Slaves /\ OneToOne(matrix_new)
<1>1. matrix_new \subseteq Masters \X Slaves
  BY DEF matrix_new
<1>2. ASSUME NEW m \in Masters, NEW k \in Masters, NEW s \in Slaves,
             <<m, s>> \in matrix_new, <<k, s>> \in matrix_new
      PROVE  m = k
  <2>1. CASE sbusy(s)
    <3>1. <<m, s>> \in matrix_old /\ <<k, s>> \in matrix_old
      BY <1>2, <2>1 DEF matrix_new
    <3> QED BY <3>1 DEF IInv, OneToOne
  <2>2. CASE ~sbusy(s)
    <3>1. ASSUME NEW n \in Masters, <<n, s>> \in matrix_new
          PROVE  selected(n, s)
      <4>1. CASE mbusy(n)
        <5>1. <<n, s>> \in matrix_old
          BY <3>1, <4>1 DEF matrix_new
        <5>2. cyc[n]
          BY <4>1 DEF mbusy
        <5> QED BY <5>1, <5>2, <2>2 DEF sbusy
      <4>2. CASE ~mbusy(n)
        BY <3>1, <4>2, <2>2 DEF matrix_new
      <4> QED BY <4>1, <4>2
    <3> QED BY <3>1, <1>2, OneSelected
  <2> QED BY <2>1, <2>2
<1>3. ASSUME NEW m \in Masters, NEW s \in Slaves, NEW t \in Slaves,
             <<m, s>> \in matrix_new, <<m, t>> \in matrix_new
      PROVE  s = t
  <2>1. CASE mbusy(m)
    <3>1. <<m, s>> \in matrix_old /\ <<m, t>> \in matrix_old
      BY <1>3, <2>1 DEF matrix_new
    <3> QED BY <3>1 DEF IInv, OneToOne
  <2>2. CASE ~mbusy(m)
    <3>1. ASSUME NEW u \in Slaves, <<m, u>> \in matrix_new
          PROVE  selected(m, u)
      <4>1. CASE sbusy(u)
        <5>1. <<m, u>> \in matrix_old
          BY <3>1, <4>1 DEF matrix_new
        <5>2. PICK k \in Masters : <<k, u>> \in matrix_old /\ cyc[k]
          BY <4>1 DEF sbusy
        <5>3. k = m
          BY <5>1, <5>2 DEF IInv, OneToOne
        <5> QED BY <5>1, <5>2, <5>3, <2>2 DEF mbusy
      <4>2. CASE ~sbusy(u)
        BY <3>1, <4>2, <2>2 DEF matrix_new
      <4> QED BY <4>1, <4>2
    <3> QED BY <3>1, <1>3, OneRequest
  <2> QED BY <2>1, <2>2
<1>4. ASSUME NEW x \in matrix_new, NEW y \in matrix_new, x[1] = y[1] \/ x[2] = y[2]
      PROVE  x = y
  <2>1. PICK m \in Masters, s \in Slaves : x = <<m, s>>
    BY <1>1
  <2>2. PICK k \in Masters, t \in Slaves : y = <<k, t>>
    BY <1>1
  <2> QED BY <1>2, <1>3, <1>4, <2>1, <2>2
<1> QED BY <1>1, <1>4 DEF OneToOne

(* Whatever the masters and slaves do, and across resets, every column and *)
(* every row of granted has at most one connection.                        *)
THEOREM CrossbarGrants == Spec => []GrantsAreExclusive
<1>1. Init => IInv
  BY DEF Init, IInv, OneToOne
<1>2. IInv /\ [Next]_vars => IInv'
  <2> SUFFICES ASSUME IInv, [Next]_vars PROVE IInv'
    OBVIOUS
  <2>1. CASE Clock
    BY <2>1, MatrixOneToOne DEF Clock, IInv, OneToOne, Masters, Slaves
  <2>2. CASE Reset
    BY <2>2 DEF Reset, IInv, OneToOne
  <2>3. CASE UNCHANGED vars
    BY <2>3 DEF vars, IInv, OneToOne
  <2> QED BY <2>1, <2>2, <2>3 DEF Next
<1>3. IInv => GrantsAreExclusive
  BY MatrixOneToOne DEF GrantsAreExclusive, granted, IInv
<1> QED BY <1>1, <1>2, <1>3, PTL DEF Spec

(* A connection outlives every step at whose end its master still has CYC  *)
(* up: in the register because a busy master's row is copied, in           *)
(* matrix_new because it is copied once more a clock later.                *)
THEOREM CrossbarLocks == Spec => LockedWhileCycle
<1> DEFINE Locked == \A m \in Masters, s \in Slaves :
             <<m, s>> \in granted /\ cyc[m] /\ cyc'[m] => <<m, s>> \in granted'
<1>1. [Next]_vars => [Locked]_vars
  <2> SUFFICES ASSUME Next,
                      NEW m \in Masters, NEW s \in Slaves,
                      <<m, s>> \in granted, cyc[m], cyc'[m]
               PROVE  <<m, s>> \in granted'
    BY DEF Locked
  <2>0. g_registered' = g_registered
    BY DEF Next, Clock, Reset
  <2>1. matrix_old' = matrix_new
    <3>1. ~Reset
      BY DEF Reset, Idle
    <3> QED BY <3>1 DEF Next, Clock
  <2>2. <<m, s>> \in matrix_old => <<m, s>> \in matrix_new
    BY DEF matrix_new, mbusy
  <2>3. <<m, s>> \in matrix_old' => <<m, s>> \in matrix_new'
    BY DEF matrix_new, mbusy
  <2> QED BY <2>0, <2>1, <2>2, <2>3 DEF granted
<1>2. LockedWhileCycle <=> [][Locked]_vars
  BY PTL DEF LockedWhileCycle, Locked
<1> QED BY <1>1, <1>2, PTL DEF Spec

-----------------------------------------------------------------------------
(* Who is connected, in the register, to whom.                             *)
Conn(m, s) == <<m, s>> \in matrix_old /\ cyc[m]

(* A connection carries as many requests as its master waits for, all of   *)
(* them its own; without one there are none.                               *)
OwedOK ==
  /\ \A m \in Masters, s \in Slaves :
       Conn(m, s) => /\ Len(from[s]) = owed[m]
                     /\ \A i \in 1 .. Len(from[s]) : from[s][i] = {m}
  /\ \A s \in Slaves : (\A m \in Masters : ~Conn(m, s)) => from[s] = <<>>
  /\ \A m \in Masters : (\A s \in Slaves : ~Conn(m, s)) => owed[m] = 0

(* The error slave answers a clock later.  A reset may leave its answer    *)
(* behind, for nobody.                                                     *)
ErrorOK == /\ Len(from[ErrorSlave]) <= 1
           /\ (virtual_ERR <=> from[ErrorSlave] # <<>>) \/ \A m \in Masters : ~cyc[m]

(* A master that is connected and has not begun is stalled with its first  *)
(* request, whose address chose the connection.                            *)
FirstOK == \A m \in Masters, s \in Slaves :
             Conn(m, s) /\ ~begun[m] => stb[m] /\ adr[m] = s

PortsOK == /\ from \in [Slaves -> Seq(SUBSET Masters)]
           /\ owed \in [Masters -> Nat]
           /\ cyc \in [Masters -> BOOLEAN] /\ stb \in [Masters -> BOOLEAN]
           /\ adr \in [Masters -> Slaves] /\ begun \in [Masters -> BOOLEAN]
           /\ \A m \in Masters : stb[m] => cyc[m]

RInv == IInv /\ PortsOK /\ OwedOK /\ ErrorOK /\ FirstOK

(* The next connections are old ones that are kept, or new ones between a  *)
(* master and a slave that are both free.                                  *)
LEMMA NewMatrix ==
  ASSUME RInv
  PROVE  /\ OneToOne(matrix_new)
         /\ \A m \in Masters, s \in Slaves : Conn(m, s) => <<m, s>> \in matrix_new
         /\ \A m \in Masters, s \in Slaves :
              <<m, s>> \in matrix_new =>
                /\ cyc[m]
                /\ \/ Conn(m, s)
                   \/ /\ \A t \in Slaves : ~Conn(m, t)
                      /\ \A k \in Masters : ~Conn(k, s)
                      /\ stb[m] /\ adr[m] = s
<1>1. OneToOne(matrix_new)
  BY MatrixOneToOne DEF RInv
<1>2. \A m \in Masters, s \in Slaves : Conn(m, s) => <<m, s>> \in matrix_new
  BY DEF Conn, matrix_new, mbusy
<1>3. ASSUME NEW m \in Masters, NEW s \in Slaves, <<m, s>> \in matrix_new
      PROVE  /\ cyc[m]
             /\ \/ Conn(m, s)
                \/ /\ \A t \in Slaves : ~Conn(m, t)
                   /\ \A k \in Masters : ~Conn(k, s)
                   /\ stb[m] /\ adr[m] = s
  <2>1. CASE mbusy(m)
    <3>1. <<m, s>> \in matrix_old /\ cyc[m]
      BY <1>3, <2>1 DEF matrix_new, mbusy
    <3> QED BY <3>1 DEF Conn
  <2>2. CASE sbusy(s)
    <3>1. PICK k \in Masters : <<k, s>> \in matrix_old /\ cyc[k]
      BY <2>2 DEF sbusy
    <3>2. <<m, s>> \in matrix_old
      BY <1>3, <2>2 DEF matrix_new
    <3>3. k = m
      BY <3>1, <3>2 DEF RInv, IInv, OneToOne
    <3> QED BY <3>1, <3>2, <3>3 DEF Conn
  <2>3. CASE ~mbusy(m) /\ ~sbusy(s)
    BY <1>3, <2>3 DEF matrix_new, selected, request, mbusy, sbusy, Conn
  <2> QED BY <2>1, <2>2, <2>3
<1> QED BY <1>1, <1>2, <1>3

(* The same of granted, whose old connections may have lost their CYC. *)
LEMMA Granted ==
  ASSUME RInv
  PROVE  /\ OneToOne(granted)
         /\ granted \subseteq Masters \X Slaves
         /\ \A m \in Masters, s \in Slaves : Conn(m, s) => <<m, s>> \in granted
         /\ \A m \in Masters, s \in Slaves :
              <<m, s>> \in granted /\ cyc[m] =>
                /\ <<m, s>> \in matrix_new
                /\ \/ Conn(m, s)
                   \/ /\ \A t \in Slaves : ~Conn(m, t)
                      /\ \A k \in Masters : ~Conn(k, s)
                      /\ stb[m] /\ adr[m] = s
<1>1. CASE g_registered
  BY <1>1, NewMatrix DEF granted, RInv, IInv, Conn
<1>2. CASE ~g_registered
  BY <1>2, NewMatrix, MatrixOneToOne DEF granted, RInv
<1> QED BY <1>1, <1>2

(* A connected pair sees nothing of the others. *)
LEMMA Served ==
  ASSUME RInv, NEW m \in Masters, NEW s \in Slaves, <<m, s>> \in granted, cyc[m],
         NEW stall, NEW ack
  PROVE  /\ Drivers(s) = {m}
         /\ STB(s) <=> stb[m]
         /\ STALL(m, stall) <=> stall[s]
         /\ ACK(m, ack) <=> ack[s]
         /\ Len(from[s]) = owed[m]
         /\ \A i \in 1 .. Len(from[s]) : from[s][i] = {m}
<1>0. /\ \A k \in Masters : <<k, s>> \in granted => k = m
      /\ \A t \in Slaves : <<m, t>> \in granted => t = s
  BY Granted DEF OneToOne
<1>1. Drivers(s) = {m}
  BY <1>0 DEF Drivers
<1>2. STB(s) <=> stb[m]
  BY <1>0 DEF STB
<1>3. STALL(m, stall) <=> stall[s]
  BY <1>0 DEF STALL
<1>4. ACK(m, ack) <=> ack[s]
  BY <1>0 DEF ACK
<1>5. /\ Len(from[s]) = owed[m]
      /\ \A i \in 1 .. Len(from[s]) : from[s][i] = {m}
  <2>1. CASE Conn(m, s)
    BY <2>1 DEF RInv, OwedOK
  <2>2. CASE ~Conn(m, s)
    <3>1. owed[m] = 0 /\ from[s] = <<>>
      BY <2>2, Granted DEF RInv, OwedOK
    <3> QED BY <3>1
  <2> QED BY <2>1, <2>2
<1> QED BY <1>1, <1>2, <1>3, <1>4, <1>5

LEMMA Unserved ==
  ASSUME RInv
  PROVE  /\ \A s \in Slaves : (\A m \in Masters : ~(<<m, s>> \in granted /\ cyc[m])) =>
              Drivers(s) = {} /\ from[s] = <<>>
         /\ \A m \in Masters : (\A s \in Slaves : <<m, s>> \notin granted) =>
              owed[m] = 0 /\ \A stall : STALL(m, stall)
<1>1. ASSUME NEW s \in Slaves, \A m \in Masters : ~(<<m, s>> \in granted /\ cyc[m])
      PROVE  Drivers(s) = {} /\ from[s] = <<>>
  <2>1. Drivers(s) = {}
    BY <1>1 DEF Drivers
  <2>2. \A m \in Masters : ~Conn(m, s)
    BY <1>1, Granted DEF Conn
  <2> QED BY <2>1, <2>2 DEF RInv, OwedOK
<1>2. ASSUME NEW m \in Masters, \A s \in Slaves : <<m, s>> \notin granted
      PROVE  owed[m] = 0 /\ \A stall : STALL(m, stall)
  <2>1. \A s \in Slaves : ~Conn(m, s)
    BY <1>2, Granted
  <2> QED BY <1>2, <2>1 DEF RInv, OwedOK, STALL
<1> QED BY <1>1, <1>2

LEMMA FromType ==
  ASSUME RInv, NEW stall, NEW ack, Answers(stall, ack)
  PROVE  from' \in [Slaves -> Seq(SUBSET Masters)]
<1>1. ASSUME NEW s \in Slaves PROVE Asked(s, stall) \in Seq(SUBSET Masters)
  <2>1. from[s] \in Seq(SUBSET Masters) /\ Drivers(s) \in SUBSET Masters
    BY DEF RInv, PortsOK, Drivers
  <2> QED BY <2>1 DEF Asked
<1>2. ASSUME NEW s \in Slaves, Asked(s, stall) # <<>>
      PROVE  Tail(Asked(s, stall)) \in Seq(SUBSET Masters)
  BY <1>1, <1>2
<1>3. from' = [s \in Slaves |-> IF ack[s] /\ Asked(s, stall) # <<>>
                                THEN Tail(Asked(s, stall)) ELSE Asked(s, stall)]
  BY DEF Answers
<1> QED BY <1>1, <1>2, <1>3

(* A clock of a connected pair: the slave's queue and the master's count   *)
(* move together.                                                          *)
LEMMA PairMoves ==
  ASSUME RInv, NEW stall \in [Slaves -> BOOLEAN], NEW ack \in [Slaves -> BOOLEAN],
         Answers(stall, ack), MastersMove(stall, ack),
         NEW m \in Masters, NEW s \in Slaves, <<m, s>> \in granted, cyc[m]
  PROVE  /\ Len(from'[s]) = owed'[m]
         /\ \A i \in 1 .. Len(from'[s]) : from'[s][i] = {m}
<1> DEFINE asked == Asked(s, stall)
           count == IF Taken(m, stall) THEN owed[m] + 1 ELSE owed[m]
<1>1. /\ Drivers(s) = {m} /\ (STB(s) <=> stb[m])
      /\ (STALL(m, stall) <=> stall[s]) /\ (ACK(m, ack) <=> ack[s])
      /\ Len(from[s]) = owed[m]
      /\ \A i \in 1 .. Len(from[s]) : from[s][i] = {m}
  BY Served
<1>2. from[s] \in Seq(SUBSET Masters) /\ {m} \in SUBSET Masters /\ owed[m] \in Nat
  BY DEF RInv, PortsOK
<1>3. Accepts(s, stall) <=> Taken(m, stall)
  BY <1>1 DEF Accepts, Taken
<1>4. /\ asked \in Seq(SUBSET Masters) /\ Len(asked) = count
      /\ \A i \in 1 .. Len(asked) : asked[i] = {m}
  <2>1. CASE Accepts(s, stall)
    <3>1. asked = Append(from[s], {m})
      BY <1>1, <2>1 DEF Asked
    <3> HIDE DEF asked
    <3> QED BY <1>1, <1>2, <1>3, <2>1, <3>1
  <2>2. CASE ~Accepts(s, stall)
    BY <1>1, <1>2, <1>3, <2>2 DEF Asked
  <2> QED BY <2>1, <2>2
<1>5. /\ from'[s] = IF ack[s] /\ asked # <<>> THEN Tail(asked) ELSE asked
      /\ owed'[m] = IF ACK(m, ack) /\ count > 0 THEN count - 1 ELSE count
  BY DEF Answers, MastersMove, NextOwed
<1> HIDE DEF asked, count
<1>6. asked # <<>> <=> Len(asked) > 0
  BY <1>4
<1>7. CASE ack[s] /\ asked # <<>>
  <2>1. /\ Tail(asked) \in Seq(SUBSET Masters) /\ Len(Tail(asked)) = Len(asked) - 1
        /\ \A i \in 1 .. Len(Tail(asked)) : Tail(asked)[i] = asked[i + 1]
    BY <1>4, <1>7
  <2>2. Len(from'[s]) = owed'[m]
    BY <2>1, <1>1, <1>4, <1>5, <1>6, <1>7
  <2>3. ASSUME NEW i \in 1 .. Len(Tail(asked)) PROVE Tail(asked)[i] = {m}
    <3>1. i + 1 \in 1 .. Len(asked)
      BY <2>1, <1>4
    <3> QED BY <2>1, <3>1, <1>4
  <2> QED BY <2>2, <2>3, <1>5, <1>7
<1>8. CASE ~(ack[s] /\ asked # <<>>)
  BY <1>1, <1>4, <1>5, <1>6, <1>8
<1> QED BY <1>7, <1>8

(* A slave nobody drives and a master nothing is granted to wait for       *)
(* nothing.                                                                *)
LEMMA IdleMoves ==
  ASSUME RInv, NEW stall \in [Slaves -> BOOLEAN], NEW ack \in [Slaves -> BOOLEAN],
         Answers(stall, ack), MastersMove(stall, ack)
  PROVE  /\ \A s \in Slaves : (\A m \in Masters : ~(<<m, s>> \in granted /\ cyc[m])) =>
              from'[s] = <<>>
         /\ \A m \in Masters : (\A s \in Slaves : <<m, s>> \notin granted) \/ ~cyc[m] =>
              owed'[m] = 0
<1>1. ASSUME NEW s \in Slaves, \A m \in Masters : ~(<<m, s>> \in granted /\ cyc[m])
      PROVE  from'[s] = <<>>
  <2>1. Drivers(s) = {} /\ from[s] = <<>>
    BY <1>1, Unserved
  <2>2. Asked(s, stall) = <<>>
    BY <2>1 DEF Asked, Accepts
  <2> QED BY <2>2 DEF Answers
<1>2. ASSUME NEW m \in Masters, (\A s \in Slaves : <<m, s>> \notin granted) \/ ~cyc[m]
      PROVE  owed'[m] = 0
  <2>1. owed[m] = 0 /\ ~Taken(m, stall)
    <3>1. CASE ~cyc[m]
      BY <3>1 DEF RInv, OwedOK, Conn, Taken
    <3>2. CASE \A s \in Slaves : <<m, s>> \notin granted
      BY <3>2, Unserved DEF Taken
    <3> QED BY <3>1, <3>2, <1>2
  <2>2. owed'[m] = NextOwed(m, stall, ack)
    BY DEF MastersMove
  <2> QED BY <2>1, <2>2 DEF NextOwed
<1> QED BY <1>1, <1>2

LEMMA ClockOwed ==
  ASSUME RInv, NEW stall \in [Slaves -> BOOLEAN], NEW ack \in [Slaves -> BOOLEAN],
         Answers(stall, ack), MastersMove(stall, ack), matrix_old' = matrix_new
  PROVE  OwedOK'
<1>0. \A m \in Masters, s \in Slaves : Conn(m, s)' <=> <<m, s>> \in matrix_new /\ cyc'[m]
  BY DEF Conn
<1>1. ASSUME NEW m \in Masters, NEW s \in Slaves, Conn(m, s)'
      PROVE  /\ Len(from'[s]) = owed'[m]
             /\ \A i \in 1 .. Len(from'[s]) : from'[s][i] = {m}
  <2>1. <<m, s>> \in matrix_new /\ cyc[m]
    BY <1>0, <1>1, NewMatrix
  <2>2. CASE <<m, s>> \in granted
    BY <2>1, <2>2, PairMoves
  <2>3. CASE <<m, s>> \notin granted
    <3>1. /\ \A t \in Slaves : ~Conn(m, t)
          /\ \A k \in Masters : ~Conn(k, s)
      BY <2>1, <2>3, NewMatrix, Granted
    <3>2. g_registered /\ granted = matrix_old
      BY <2>1, <2>3 DEF granted
    <3>3. /\ \A t \in Slaves : <<m, t>> \notin granted
          /\ \A k \in Masters : ~(<<k, s>> \in granted /\ cyc[k])
      BY <2>1, <3>1, <3>2 DEF Conn
    <3>4. from'[s] = <<>> /\ owed'[m] = 0
      BY <3>3, IdleMoves
    <3> QED BY <3>4
  <2> QED BY <2>2, <2>3
<1>2. ASSUME NEW s \in Slaves, \A m \in Masters : ~Conn(m, s)'
      PROVE  from'[s] = <<>>
  <2>1. CASE \E m \in Masters : <<m, s>> \in granted /\ cyc[m]
    <3>1. PICK m \in Masters : <<m, s>> \in granted /\ cyc[m]
      BY <2>1
    <3>2. <<m, s>> \in matrix_new
      BY <3>1, Granted
    <3>3. ~cyc'[m]
      BY <1>0, <1>2, <3>2
    <3>4. owed'[m] \in Nat /\ ~(owed'[m] > 0)
      <4>1. owed'[m] = NextOwed(m, stall, ack) /\ (owed'[m] > 0 => cyc'[m])
        BY DEF MastersMove
      <4>2. owed[m] \in Nat
        BY DEF RInv, PortsOK
      <4>3. NextOwed(m, stall, ack) \in Nat
        BY <4>2 DEF NextOwed
      <4> QED BY <4>1, <4>3, <3>3
    <3>5. Len(from'[s]) = 0
      BY <3>1, <3>4, PairMoves
    <3>6. from'[s] \in Seq(SUBSET Masters)
      BY FromType
    <3> QED BY <3>5, <3>6
  <2>2. CASE ~\E m \in Masters : <<m, s>> \in granted /\ cyc[m]
    BY <2>2, IdleMoves
  <2> QED BY <2>1, <2>2
<1>3. ASSUME NEW m \in Masters, \A s \in Slaves : ~Conn(m, s)'
      PROVE  owed'[m] = 0
  <2>1. CASE cyc[m] /\ \E s \in Slaves : <<m, s>> \in granted
    <3>1. PICK s \in Slaves : <<m, s>> \in granted
      BY <2>1
    <3>2. ~cyc'[m]
      BY <1>0, <1>3, <2>1, <3>1, Granted
    <3>3. owed'[m] \in Nat /\ ~(owed'[m] > 0)
      <4>1. owed'[m] = NextOwed(m, stall, ack) /\ (owed'[m] > 0 => cyc'[m])
        BY DEF MastersMove
      <4>2. owed[m] \in Nat
        BY DEF RInv, PortsOK
      <4>3. NextOwed(m, stall, ack) \in Nat
        BY <4>2 DEF NextOwed
      <4> QED BY <4>1, <4>3, <3>2
    <3> QED BY <3>3
  <2>2. CASE ~cyc[m] \/ \A s \in Slaves : <<m, s>> \notin granted
    BY <2>2, IdleMoves
  <2> QED BY <2>1, <2>2
<1> QED BY <1>1, <1>2, <1>3 DEF OwedOK

LEMMA ClockPorts ==
  ASSUME RInv, NEW stall, NEW ack, Answers(stall, ack), MastersMove(stall, ack)
  PROVE  PortsOK'
<1>1. from' \in [Slaves -> Seq(SUBSET Masters)]
  BY FromType
<1>2. owed' \in [Masters -> Nat]
  <2>1. ASSUME NEW m \in Masters PROVE NextOwed(m, stall, ack) \in Nat
    <3>1. owed[m] \in Nat
      BY DEF RInv, PortsOK
    <3> QED BY <3>1 DEF NextOwed
  <2>2. owed' = [m \in Masters |-> NextOwed(m, stall, ack)]
    BY DEF MastersMove
  <2> QED BY <2>1, <2>2
<1>3. /\ cyc' \in [Masters -> BOOLEAN] /\ stb' \in [Masters -> BOOLEAN]
      /\ adr' \in [Masters -> Slaves]
      /\ \A m \in Masters : stb'[m] => cyc'[m]
  BY DEF MastersMove
<1>4. begun' \in [Masters -> BOOLEAN]
  <2>1. ASSUME NEW c \in [Masters -> BOOLEAN], NEW m \in Masters
        PROVE  (c[m] /\ (begun[m] \/ Taken(m, stall))) \in BOOLEAN
    OBVIOUS
  <2>2. \E c \in [Masters -> BOOLEAN] :
          begun' = [m \in Masters |-> c[m] /\ (begun[m] \/ Taken(m, stall))]
    BY DEF MastersMove
  <2> QED BY <2>1, <2>2
<1> QED BY <1>1, <1>2, <1>3, <1>4 DEF PortsOK

LEMMA ClockFirst ==
  ASSUME RInv, NEW stall \in [Slaves -> BOOLEAN], NEW ack,
         Answers(stall, ack), MastersMove(stall, ack), matrix_old' = matrix_new
  PROVE  FirstOK'
<1> SUFFICES ASSUME NEW m \in Masters, NEW s \in Slaves, Conn(m, s)', ~begun'[m]
             PROVE  stb'[m] /\ adr'[m] = s
  BY DEF FirstOK
<1>1. <<m, s>> \in matrix_new /\ cyc'[m]
  BY DEF Conn
<1>2. /\ begun'[m] <=> cyc'[m] /\ (begun[m] \/ Taken(m, stall))
      /\ cyc[m] /\ stb[m] /\ STALL(m, stall) => stb'[m] /\ adr'[m] = adr[m]
  BY DEF MastersMove
<1>3. ~begun[m] /\ ~Taken(m, stall)
  BY <1>1, <1>2
<1>4. cyc[m] /\ stb[m] /\ adr[m] = s
  BY <1>1, <1>3, NewMatrix DEF RInv, FirstOK
<1> QED BY <1>2, <1>3, <1>4 DEF Taken

LEMMA LongOrEmpty ==
  \A x \in Seq(SUBSET Masters) : Len(x) \in Nat /\ (x # <<>> <=> Len(x) > 0)
  BY EmptySeq

LEMMA ClockError ==
  ASSUME RInv, NEW stall \in [Slaves -> BOOLEAN], NEW ack \in [Slaves -> BOOLEAN],
         Answers(stall, ack)
  PROVE  ErrorOK'
<1> DEFINE E == ErrorSlave
           asked == Asked(E, stall)
<1>1. E \in Slaves
  BY CrossbarAssumption DEF ErrorSlave, Slaves
<1>2. /\ ~stall[E] /\ ack[E] = virtual_ERR
      /\ from'[E] = IF ack[E] /\ asked # <<>> THEN Tail(asked) ELSE asked
      /\ virtual_ERR' <=> Drivers(E) # {} /\ STB(E)
  BY <1>1 DEF Answers
<1>3. from[E] \in Seq(SUBSET Masters) /\ Len(from[E]) <= 1 /\ Drivers(E) \in SUBSET Masters
  BY <1>1 DEF RInv, PortsOK, ErrorOK, Drivers
<1>4. virtual_ERR' <=> Accepts(E, stall)
  BY <1>2 DEF Accepts
<1>5. virtual_ERR => from[E] # <<>> \/ Drivers(E) = {}
  BY DEF RInv, ErrorOK, Drivers
<1>6. ~virtual_ERR => from[E] = <<>>
  <2>1. ASSUME \A m \in Masters : ~cyc[m] PROVE from[E] = <<>>
    BY <2>1, <1>1 DEF RInv, OwedOK, Conn
  <2> QED BY <2>1 DEF RInv, ErrorOK
<1>7. asked = IF Accepts(E, stall) THEN Append(from[E], Drivers(E)) ELSE from[E]
  BY DEF Asked
<1> HIDE DEF asked, E
<1>8. /\ Len(from'[E]) <= 1
      /\ virtual_ERR' <=> from'[E] # <<>>
  <2>1. CASE Accepts(E, stall)
    <3>1. asked = Append(from[E], Drivers(E)) /\ Len(asked) = Len(from[E]) + 1
      BY <1>3, <1>7, <2>1
    <3>2. asked # <<>> /\ asked \in Seq(SUBSET Masters) /\ Drivers(E) # {}
      BY <1>3, <3>1, <2>1 DEF Accepts
    <3>3. CASE virtual_ERR
      <4>0. from[E] # <<>> /\ Len(from[E]) \in Nat
        BY <3>2, <3>3, <1>3, <1>5
      <4>1. Len(from[E]) = 1
        <5>1. Len(from[E]) \in Nat /\ Len(from[E]) > 0
          BY <4>0, <1>3, LongOrEmpty, Zenon
        <5>2. Len(from[E]) <= 1
          BY <1>3, Zenon
        <5>3. \A k \in Nat : k > 0 /\ k <= 1 => k = 1
          OBVIOUS
        <5> QED BY <5>1, <5>2, <5>3, Zenon
      <4>2. from'[E] = Tail(asked) /\ Len(from'[E]) = 1
        BY <4>1, <3>1, <3>2, <3>3, <1>2
      <4>3. from'[E] # <<>>
        <5>1. from'[E] \in Seq(SUBSET Masters)
          BY <1>1, FromType
        <5>2. Len(from'[E]) > 0
          BY <4>2
        <5> QED BY <5>1, <5>2, LongOrEmpty, Zenon
      <4> QED BY <4>2, <4>3, <1>4, <2>1, SMTT(30)
    <3>4. CASE ~virtual_ERR
      <4>1. from'[E] = asked /\ Len(from[E]) = 0
        BY <3>4, <1>2, <1>6
      <4>2. Len(from'[E]) = 1 /\ from'[E] # <<>>
        BY <4>1, <3>1, <3>2
      <4> QED BY <4>2, <1>4, <2>1
    <3> QED BY <3>3, <3>4
  <2>2. CASE ~Accepts(E, stall)
    <3>1. from'[E] = <<>>
      <4>1. CASE virtual_ERR /\ from[E] # <<>>
        BY <4>1, <2>2, <1>2, <1>3, <1>7
      <4>2. CASE from[E] = <<>>
        BY <4>2, <2>2, <1>2, <1>7
      <4> QED BY <4>1, <4>2, <1>6
    <3> QED BY <3>1, <2>2, <1>4
  <2> QED BY <2>1, <2>2
<1> QED BY <1>8 DEF ErrorOK, E

LEMMA RInvInit == Init => RInv
<1> SUFFICES ASSUME Init PROVE RInv
  OBVIOUS
<1>0. 0 \in Slaves /\ ErrorSlave \in Slaves
  BY CrossbarAssumption DEF Slaves, ErrorSlave
<1>1. PortsOK
  BY <1>0 DEF Init, PortsOK, Idle
<1>2. OwedOK /\ FirstOK
  BY DEF Init, OwedOK, FirstOK, Conn
<1>3. ErrorOK
  BY <1>0 DEF Init, ErrorOK, Idle
<1>4. IInv
  BY DEF Init, IInv, OneToOne
<1> QED BY <1>1, <1>2, <1>3, <1>4 DEF RInv

LEMMA RInvReset == Reset => RInv'
<1> SUFFICES ASSUME Reset PROVE RInv'
  OBVIOUS
<1>0. 0 \in Slaves /\ ErrorSlave \in Slaves
  BY CrossbarAssumption DEF Slaves, ErrorSlave
<1>1. PortsOK'
  BY <1>0 DEF Reset, PortsOK, Idle
<1>2. OwedOK' /\ FirstOK'
  BY DEF Reset, OwedOK, FirstOK, Conn
<1>3. ErrorOK'
  BY <1>0 DEF Reset, ErrorOK, Idle
<1>4. IInv'
  BY DEF Reset, IInv, OneToOne
<1> QED BY <1>1, <1>2, <1>3, <1>4 DEF RInv

LEMMA RInvHolds == Spec => []RInv
<1>1. RInv /\ [Next]_vars => RInv'
  <2> SUFFICES ASSUME RInv, [Next]_vars PROVE RInv'
    OBVIOUS
  <2>1. CASE Clock
    <3>1. PICK stall \in [Slaves -> BOOLEAN], ack \in [Slaves -> BOOLEAN] :
            Answers(stall, ack) /\ MastersMove(stall, ack)
      BY <2>1 DEF Clock
    <3>2. matrix_old' = matrix_new
      BY <2>1 DEF Clock
    <3>3. IInv'
      BY <3>2, MatrixOneToOne DEF RInv, IInv, OneToOne
    <3> QED BY <3>1, <3>2, <3>3, ClockOwed, ClockPorts, ClockFirst, ClockError DEF RInv
  <2>2. CASE Reset
    BY <2>2, RInvReset
  <2>3. CASE UNCHANGED vars
    BY <2>3 DEF vars, RInv, IInv, OneToOne, PortsOK, OwedOK, ErrorOK, FirstOK, Conn
  <2> QED BY <2>1, <2>2, <2>3 DEF Next
<1> QED BY <1>1, RInvInit, PTL DEF Spec

(* Every reply reaches the master that made the request, still connected,  *)
(* and no other, for any number of masters and slaves, registered or not.  *)
THEOREM CrossbarReplies == Spec => []RepliesFindTheirMaster
<1>1. RInv => RepliesFindTheirMaster
  <2> SUFFICES ASSUME RInv PROVE RepliesFindTheirMaster
    OBVIOUS
  <2>1. ASSUME NEW s \in Slaves, NEW i \in 1 .. Len(from[s])
        PROVE  from[s][i] = Drivers(s) /\ Cardinality(Drivers(s)) = 1
    <3>1. PICK m \in Masters : <<m, s>> \in granted /\ cyc[m]
      BY <2>1, Unserved
    <3>2. Drivers(s) = {m} /\ from[s][i] = {m}
      BY <2>1, <3>1, Served
    <3> QED BY <3>2, FS_Singleton
  <2>2. ASSUME NEW m \in Masters, NEW s \in Slaves, m \in Drivers(s)
        PROVE  owed[m] = Len(from[s])
    BY <2>2, Served DEF Drivers
  <2>3. Drivers(ErrorSlave) # {} => (virtual_ERR <=> from[ErrorSlave] # <<>>)
    BY DEF RInv, ErrorOK, Drivers
  <2> QED BY <2>1, <2>2, <2>3 DEF RepliesFindTheirMaster
<1> QED BY <1>1, RInvHolds, PTL

(* The first request of a cycle goes where it is addressed: a connection   *)
(* left over from the cycle before never takes it.                         *)
THEOREM CrossbarAddressed == Spec => []CycleGoesWhereAddressed
<1>1. RInv => CycleGoesWhereAddressed
  <2> SUFFICES ASSUME RInv, NEW m \in Masters, NEW s \in Slaves,
                      <<m, s>> \in granted, cyc[m], stb[m], ~begun[m]
               PROVE  adr[m] = s
    BY DEF CycleGoesWhereAddressed
  <2> QED BY Granted DEF RInv, FirstOK
<1> QED BY <1>1, RInvHolds, PTL
=============================================================================
