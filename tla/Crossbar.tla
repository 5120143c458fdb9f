------------------------------ MODULE Crossbar ------------------------------
(***************************************************************************)
(* xwb_crossbar: masters are connected to slaves by a matrix, kept from    *)
(* clock to clock as long as the master's CYC is high.  Address decoding   *)
(* is taken for what f_ranges_ok makes sure of: an address belongs to one  *)
(* slave or to the virtual error slave, number g_num_slaves.               *)
(*                                                                         *)
(* One step is one clock.  The masters are pipelined Wishbone masters that *)
(* keep CYC until they have the replies; the slaves stall as they like and *)
(* reply in the same clock or any later one.                               *)
(***************************************************************************)
EXTENDS Naturals, Sequences, FiniteSets

CONSTANTS g_num_masters, g_num_slaves,
          MaxOwed   \* how many replies a master waits for at most

ASSUME CrossbarAssumption ==
  /\ g_num_masters \in Nat \ {0} /\ g_num_slaves \in Nat \ {0}
  /\ MaxOwed \in Nat \ {0}

Masters == 0 .. g_num_masters-1
ErrorSlave == g_num_slaves
Slaves == 0 .. g_num_slaves

VARIABLES
  g_registered,   \* never changes
  matrix_old,     \* the registered connections, a set of <<master, slave>>
  virtual_ERR,
  cyc, stb, adr,  \* what each master drives; adr[m] is the slave it decodes to
  owed,           \* how many replies each master waits for
  begun,          \* whether a request of this cycle has been taken
  from            \* for each slave, who made each request it has to answer

vars == <<g_registered, matrix_old, virtual_ERR, cyc, stb, adr, owed, begun, from>>

Idle == [m \in Masters |-> FALSE]

Init == /\ g_registered \in BOOLEAN
        /\ matrix_old = {} /\ virtual_ERR = FALSE
        /\ cyc = Idle /\ stb = Idle /\ adr = [m \in Masters |-> 0]
        /\ owed = [m \in Masters |-> 0] /\ begun = Idle
        /\ from = [s \in Slaves |-> <<>>]

-----------------------------------------------------------------------------
(* The function matrix_logic. *)
sbusy(s) == \E m \in Masters : <<m, s>> \in matrix_old /\ cyc[m]
Mut_mbusy(m) == \E s \in Slaves \ {ErrorSlave} : <<m, s>> \in matrix_old /\ cyc[m]
Mut_mbusy_forever(m) == \E s \in Slaves : <<m, s>> \in matrix_old
mbusy(m) == \E s \in Slaves : <<m, s>> \in matrix_old /\ cyc[m]

request(m, s) == cyc[m] /\ stb[m] /\ adr[m] = s

selected(m, s) == request(m, s) /\ \A k \in 0 .. m-1 : ~request(k, s)

Mut_matrix_new == {ms \in Masters \X Slaves : selected(ms[1], ms[2])}
matrix_new ==
  {ms \in Masters \X Slaves :
     IF sbusy(ms[2]) \/ mbusy(ms[1]) THEN ms \in matrix_old
                                     ELSE selected(ms[1], ms[2])}

granted == IF g_registered THEN matrix_old ELSE matrix_new

(* slave_logic and master_logic, for what the slaves answer in this clock. *)
Drivers(s) == {m \in Masters : <<m, s>> \in granted /\ cyc[m]}
STB(s) == \E m \in Masters : <<m, s>> \in granted /\ stb[m]
Accepts(s, stall) == Drivers(s) # {} /\ STB(s) /\ ~stall[s]

STALL(m, stall) == ~\E s \in Slaves : <<m, s>> \in granted /\ ~stall[s]
ACK(m, ack) == \E s \in Slaves : <<m, s>> \in granted /\ ack[s]

(* What the slaves owe, with the request of this clock. *)
Asked(s, stall) == IF Accepts(s, stall) THEN Append(from[s], Drivers(s)) ELSE from[s]

(* The slaves, and the virtual error slave among them. *)
Answers(stall, ack) ==
  /\ ~stall[ErrorSlave] /\ ack[ErrorSlave] = virtual_ERR
  /\ \A s \in Slaves \ {ErrorSlave} : ack[s] => Asked(s, stall) # <<>>
  /\ from' = [s \in Slaves |-> IF ack[s] /\ Asked(s, stall) # <<>>
                               THEN Tail(Asked(s, stall)) ELSE Asked(s, stall)]
  /\ virtual_ERR' = (Drivers(ErrorSlave) # {} /\ STB(ErrorSlave))

(* The masters: a request that is stalled stays; CYC stays until all is    *)
(* answered.                                                               *)
Taken(m, stall) == cyc[m] /\ stb[m] /\ ~STALL(m, stall)
NextOwed(m, stall, ack) ==
  LET asked == IF Taken(m, stall) THEN owed[m] + 1 ELSE owed[m]
  IN IF cyc[m] /\ ACK(m, ack) /\ asked > 0 THEN asked - 1 ELSE asked

MastersMove(stall, ack) ==
  /\ owed' = [m \in Masters |-> NextOwed(m, stall, ack)]
  /\ \E c, b \in [Masters -> BOOLEAN], a \in [Masters -> Slaves] :
       /\ \A m \in Masters :
            /\ cyc[m] /\ stb[m] /\ STALL(m, stall) => c[m] /\ b[m] /\ a[m] = adr[m]
            /\ owed'[m] > 0 => c[m]
            /\ b[m] => c[m] /\ owed'[m] < MaxOwed
            /\ ~b[m] => a[m] = 0
       /\ cyc' = c /\ stb' = b /\ adr' = a
       /\ begun' = [m \in Masters |-> c[m] /\ (begun[m] \/ Taken(m, stall))]

Clock == \E stall, ack \in [Slaves -> BOOLEAN] :
           /\ Answers(stall, ack)
           /\ MastersMove(stall, ack)
           /\ matrix_old' = matrix_new
           /\ UNCHANGED g_registered

(* A clock of a system-wide reset, at any time. *)
Reset == /\ matrix_old' = {} /\ UNCHANGED g_registered
         /\ virtual_ERR' = (Drivers(ErrorSlave) # {} /\ STB(ErrorSlave))
         /\ cyc' = Idle /\ stb' = Idle /\ adr' = [m \in Masters |-> 0]
         /\ owed' = [m \in Masters |-> 0] /\ begun' = Idle
         /\ from' = [s \in Slaves |-> <<>>]

Next == Clock \/ Reset

Spec == Init /\ [][Next]_vars

-----------------------------------------------------------------------------
TypeOK == /\ g_registered \in BOOLEAN
          /\ matrix_old \subseteq Masters \X Slaves
          /\ virtual_ERR \in BOOLEAN
          /\ cyc \in [Masters -> BOOLEAN] /\ stb \in [Masters -> BOOLEAN]
          /\ adr \in [Masters -> Slaves]
          /\ owed \in [Masters -> 0 .. MaxOwed] /\ begun \in [Masters -> BOOLEAN]
          /\ from \in [Slaves -> Seq(SUBSET Masters)]
          /\ \A s \in Slaves : Len(from[s]) <= MaxOwed

(* No two masters share a slave and no master is on two slaves, whatever   *)
(* mixture of old connections and new requests the matrix is made of: the  *)
(* ORs of slave_logic and master_logic are then multiplexers.              *)
OneToOne(matrix) ==
  \A x, y \in matrix : x[1] = y[1] \/ x[2] = y[2] => x = y

GrantsAreExclusive == OneToOne(granted)

(* A reply finds the master that made the request still connected, and     *)
(* each master gets as many replies as it made requests.                   *)
RepliesFindTheirMaster ==
  /\ \A s \in Slaves : \A i \in 1 .. Len(from[s]) :
       from[s][i] = Drivers(s) /\ Cardinality(Drivers(s)) = 1
  /\ \A m \in Masters : \A s \in Slaves :
       m \in Drivers(s) => owed[m] = Len(from[s])
  /\ Drivers(ErrorSlave) # {} => (virtual_ERR <=> from[ErrorSlave] # <<>>)

(* "The implementation of this crossbar locks a master to a slave so long  *)
(* as CYC_O is held high": no other master's request moves it.             *)
LockedWhileCycle ==
  [][\A m \in Masters, s \in Slaves :
       <<m, s>> \in granted /\ cyc[m] /\ cyc'[m] => <<m, s>> \in granted']_vars

(* The first request of a cycle goes to the slave it addresses, or to the  *)
(* error slave if there is none, and not to where the last one went.       *)
CycleGoesWhereAddressed ==
  \A m \in Masters, s \in Slaves :
    <<m, s>> \in granted /\ cyc[m] /\ stb[m] /\ ~begun[m] => adr[m] = s
=============================================================================
