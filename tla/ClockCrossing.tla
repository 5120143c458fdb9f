--------------------------- MODULE ClockCrossing ----------------------------
(***************************************************************************)
(* xwb_clock_crossing: pipelined Wishbone across two clocks.  mfifo takes  *)
(* requests from the slave port to the master port, and a record with CYC  *)
(* down when the cycle ends; sfifo takes the replies back.  A count of     *)
(* requests against replies, not the FIFOs' full flags, stalls the slave   *)
(* port.                                                                   *)
(*                                                                         *)
(* The n-th request, and its reply, is the number n; the record with CYC   *)
(* down is 0, which is also what q_o holds at power-up.  The WB master     *)
(* ends a cycle of one request or more when it has all its replies, and    *)
(* the WB slave stalls as it likes and replies in order.                   *)
(***************************************************************************)
EXTENDS LaggedFifo

CONSTANTS g_size,
          MaxRequests,     \* bounds the requests of a behaviour
          MaxCycles,       \* bounds the cycles of a behaviour
          MaxOutstanding,  \* how many replies the WB master waits for at most
          MaxOverlap       \* the same if it makes several cycles

ASSUME SizeAssumption == g_size \in Nat /\ g_size >= 2 /\ \E i \in 1 .. 8 : g_size = 2^i
ASSUME BoundsAssumption == {MaxRequests, MaxCycles, MaxOutstanding, MaxOverlap} \subseteq Nat \ {0}

VARIABLES
  cycles,      \* how many cycles the WB master makes at most; never changes
  slave_rst_n, master_rst_n,
  mfifo, sfifo,
  mpushed, mpopped,
  slave_CYC, slave_o_PUSH,
  master_o_STB,
  issued,      \* requests the bridge took from the WB master
  ends,        \* for each cycle that ended, issued when it did
  replied,     \* replies the WB master got, in order
  accepted,    \* requests the WB slave took, in order
  gaps,        \* for each fall of master_o.CYC, Len(accepted) then
  answered     \* how many requests the WB slave has replied to

ports == <<cycles, slave_rst_n, master_rst_n>>
slaveRegs == <<mpushed, mpopped, slave_CYC, slave_o_PUSH>>
slaveUser == <<issued, ends, replied>>
masterUser == <<accepted, gaps, answered>>
vars == <<ports, mfifo, sfifo, slaveRegs, master_o_STB, slaveUser, masterUser>>

(* The values of t_count. *)
Counts == 2 * g_size

Init == /\ cycles \in {1, MaxCycles}
        /\ slave_rst_n = FALSE /\ master_rst_n = FALSE
        /\ mfifo = EmptyFifo(0) /\ sfifo = EmptyFifo(0)
        /\ mpushed = 0 /\ mpopped = g_size
        /\ slave_CYC = FALSE /\ slave_o_PUSH = FALSE /\ master_o_STB = FALSE
        /\ issued = 0 /\ ends = <<>> /\ replied = <<>>
        /\ accepted = <<>> /\ gaps = <<>> /\ answered = 0

-----------------------------------------------------------------------------
(* The slave port, in a cycle where the WB master drives CYC and STB and   *)
(* slave_stall_i is stall.                                                 *)
Mut_full == mfifo.full
full == mpushed = mpopped
Mut_mw_en(cyc, stb) == ~full /\ cyc /\ stb
mw_en(cyc, stb) == (~full /\ cyc /\ stb) \/ (~cyc /\ slave_CYC)
sr_en(stall) == ~sfifo.empty /\ ~stall

LastEnd == IF ends = <<>> THEN 0 ELSE ends[Len(ends)]

Outstanding == IF cycles = 1 THEN MaxOutstanding ELSE MaxOverlap

WBMaster(cyc, stb) ==
  /\ cyc => slave_rst_n /\ Len(ends) < cycles
  /\ stb => /\ cyc
            /\ issued < MaxRequests /\ issued < Len(replied) + Outstanding
  /\ ~cyc /\ slave_CYC => Len(replied) = issued /\ issued > LastEnd

SlavePort(cyc, stb, stall) ==
  LET push == ~full /\ cyc /\ stb
  IN /\ mpushed' = IF push THEN (mpushed + 1) % Counts ELSE mpushed
     /\ mpopped' = IF slave_o_PUSH THEN (mpopped + 1) % Counts ELSE mpopped
     /\ slave_CYC' = cyc
     /\ slave_o_PUSH' = (slave_rst_n /\ sr_en(stall))
     /\ issued' = IF push THEN issued + 1 ELSE issued
     /\ ends' = IF slave_CYC /\ ~cyc THEN Append(ends, issued) ELSE ends
     /\ replied' = IF slave_o_PUSH THEN Append(replied, sfifo.q) ELSE replied

msend(cyc) == IF cyc THEN issued + 1 ELSE 0

(* The master port, given the STALL and the ACK (or ERR, RTY) of the WB    *)
(* slave.                                                                  *)
mrecv_CYC == mfifo.q # 0
mr_en(stall) == ~mfifo.empty /\ (~mrecv_CYC \/ ~master_o_STB \/ ~stall)
sw_en(ack) == ack

Accepts(stall) == mrecv_CYC /\ master_o_STB /\ ~stall
Taken(stall) == IF Accepts(stall) THEN Append(accepted, mfifo.q) ELSE accepted

Mut_NextSTB(stall) == mr_en(stall)
NextSTB(stall) == mr_en(stall) \/ (mrecv_CYC /\ master_o_STB /\ stall)

WBSlave(stall, ack) == ack => answered < Len(Taken(stall))

MasterPort(stall, ack) ==
  /\ master_o_STB' = (master_rst_n /\ NextSTB(stall))
  /\ accepted' = Taken(stall)
  /\ gaps' = IF mrecv_CYC /\ mfifo'.q = 0 THEN Append(gaps, Len(Taken(stall))) ELSE gaps
  /\ answered' = IF ack THEN answered + 1 ELSE answered

ssend(stall, ack) == IF ack THEN Taken(stall)[answered + 1] ELSE 0

MPush(cyc, stb) == Ask(slave_rst_n, mw_en(cyc, stb))
MPop(stall) == Ask(master_rst_n, mr_en(stall))
SPush(ack) == Ask(master_rst_n, sw_en(ack))
SPop(stall) == Ask(slave_rst_n, sr_en(stall))

SlaveEdge(cyc, stb, sstall) ==
  /\ WBMaster(cyc, stb)
  /\ mfifo' \in Edges(g_size, mfifo, MPush(cyc, stb), msend(cyc), Idle)
  /\ sfifo' \in Edges(g_size, sfifo, Idle, 0, SPop(sstall))
  /\ SlavePort(cyc, stb, sstall)
  /\ UNCHANGED <<ports, master_o_STB, masterUser>>

MasterEdge(stall, ack) ==
  /\ WBSlave(stall, ack)
  /\ mfifo' \in Edges(g_size, mfifo, Idle, 0, MPop(stall))
  /\ sfifo' \in Edges(g_size, sfifo, SPush(ack), ssend(stall, ack), Idle)
  /\ MasterPort(stall, ack)
  /\ UNCHANGED <<ports, slaveRegs, slaveUser>>

BothEdges(cyc, stb, sstall, stall, ack) ==
  /\ WBMaster(cyc, stb) /\ WBSlave(stall, ack)
  /\ mfifo' \in Edges(g_size, mfifo, MPush(cyc, stb), msend(cyc), MPop(stall))
  /\ sfifo' \in Edges(g_size, sfifo, SPush(ack), ssend(stall, ack), SPop(sstall))
  /\ SlavePort(cyc, stb, sstall) /\ MasterPort(stall, ack)
  /\ UNCHANGED ports

(* Both domains are reset together, and released in any order. *)
Release ==
  /\ \/ ~slave_rst_n /\ slave_rst_n' = TRUE /\ UNCHANGED master_rst_n
     \/ ~master_rst_n /\ master_rst_n' = TRUE /\ UNCHANGED slave_rst_n
  /\ UNCHANGED <<cycles, mfifo, sfifo, slaveRegs, master_o_STB, slaveUser, masterUser>>

Next == \/ \E cyc, stb, sstall \in BOOLEAN : SlaveEdge(cyc, stb, sstall)
        \/ \E stall, ack \in BOOLEAN : MasterEdge(stall, ack)
        \/ \E cyc, stb, sstall, stall, ack \in BOOLEAN :
             BothEdges(cyc, stb, sstall, stall, ack)
        \/ Release

Spec == Init /\ [][Next]_vars

-----------------------------------------------------------------------------
(* Every request reaches the WB slave once and in order, CYC stays up      *)
(* there while it owes a reply, and the replies come back once each, in    *)
(* order and without a gap.                                                *)
OnceAndInOrder ==
  /\ accepted = [i \in 1 .. Len(accepted) |-> i] /\ Len(accepted) <= issued
  /\ answered < Len(accepted) => mrecv_CYC
  /\ replied = [i \in 1 .. Len(replied) |-> i]

(* Wherever the WB master lets go of CYC, the WB slave sees CYC fall       *)
(* between the same two requests, and nowhere else: two cycles never run   *)
(* into one on the other side, one is never cut in two.                    *)
CyclesKeptApart ==
  /\ Len(gaps) <= Len(ends)
  /\ gaps = SubSeq(ends, 1, Len(gaps))
  /\ \A i \in 1 .. Len(ends) : Len(accepted) > ends[i] => Len(gaps) >= i

(* The comment on t_count: however slow the WB master and bursty the WB    *)
(* slave, counting requests against replies keeps sfifo from overflowing;  *)
(* and as the slave port blocks "even if MFIFO is actually not full",      *)
(* neither a request nor an end of cycle is ever written to a full one.    *)
FifosFindSpace ==
  [][/\ answered' # answered => ~sfifo.full
     /\ issued' # issued \/ ends' # ends => ~mfifo.full]_vars
=============================================================================
