---------------------------- MODULE ClockBridge -----------------------------
(***************************************************************************)
(* xwb_clock_bridge: requests cross from the slave port's clock domain     *)
(* (SDM) to the master port's (MDM) in the S2M FIFO and replies come back  *)
(* in the M2S FIFO.  Both ports are taken in PIPELINED mode, in which      *)
(* wb_slave_adapter passes everything through.                             *)
(*                                                                         *)
(* The n-th request is the number n, and so is its reply.  The WB master   *)
(* keeps CYC until it has all its replies; the WB slave stalls as it likes *)
(* and replies in order to what it has accepted, in the same cycle or any  *)
(* later one.                                                              *)
(***************************************************************************)
EXTENDS LaggedFifo

CONSTANTS g_SIZE,
          MaxRequests,     \* bounds the requests of a behaviour
          MaxOutstanding   \* how many replies the WB master waits for at most

ASSUME SizeAssumption == g_SIZE \in Nat /\ g_SIZE >= 2 /\ \E i \in 1 .. 8 : g_SIZE = 2^i
ASSUME BoundsAssumption == {MaxRequests, MaxOutstanding} \subseteq Nat \ {0}

VARIABLES
  slave_rst_n, master_rst_n,
  s2m, m2s,                       \* the two FIFOs
  sdm_rd_en_d1,
  mdm_rd_en_d1, mdm_wb_new_tr, mdm_pend_cnt,
  issued,                         \* requests the bridge took from the WB master
  replied,                        \* replies the WB master got, in order
  accepted,                       \* requests the WB slave took, in order
  answered                        \* how many of these it has replied to

vars == <<slave_rst_n, master_rst_n, s2m, m2s, sdm_rd_en_d1, mdm_rd_en_d1,
          mdm_wb_new_tr, mdm_pend_cnt, issued, replied, accepted, answered>>

sdmUser == <<issued, replied>>
mdmUser == <<accepted, answered>>

Init == /\ slave_rst_n = FALSE /\ master_rst_n = FALSE
        /\ s2m = EmptyFifo(0) /\ m2s = EmptyFifo(0)
        /\ sdm_rd_en_d1 = FALSE
        /\ mdm_rd_en_d1 = FALSE /\ mdm_wb_new_tr = FALSE /\ mdm_pend_cnt = 0
        /\ issued = 0 /\ replied = <<>> /\ accepted = <<>> /\ answered = 0

-----------------------------------------------------------------------------
(* The slave port. *)
sdm_stall == s2m.full
Mut_sdm_rd_en == ~m2s.empty /\ ~s2m.empty
sdm_rd_en == ~m2s.empty

(* The WB master's side of a slave_clk edge: stb is its STB, and it takes  *)
(* the reply on the port if ACK, ERR or RTY is up.                         *)
SlavePort(stb) ==
  /\ stb => /\ slave_rst_n
            /\ issued < MaxRequests /\ issued < Len(replied) + MaxOutstanding
  /\ issued' = IF stb /\ ~sdm_stall THEN issued + 1 ELSE issued
  /\ replied' = IF sdm_rd_en_d1 THEN Append(replied, m2s.q) ELSE replied
  /\ sdm_rd_en_d1' = sdm_rd_en

(* The master port, given the STALL and the ACK (or ERR, RTY) of the WB    *)
(* slave.                                                                  *)
mdm_pend_tr == mdm_pend_cnt # 0
mdm_cyc == mdm_pend_tr
mdm_stb == mdm_rd_en_d1 \/ mdm_wb_new_tr

mdm_m2s_count == m2s.wr_count % g_SIZE
Mut_mdm_block_lim == g_SIZE - mdm_m2s_count
mdm_block_lim == (g_SIZE - 1) - mdm_m2s_count
mdm_block_en == ~(mdm_pend_cnt < mdm_block_lim)

Mut_mdm_rd_en(stall) == ~s2m.empty /\ ~mdm_block_en
mdm_rd_en(stall) == ~s2m.empty /\ ~mdm_block_en /\ ~(mdm_pend_tr /\ stall)
mdm_wr_en(ack) == mdm_cyc /\ ack

Accepts(stall) == mdm_cyc /\ mdm_stb /\ ~stall

MasterPort(stall, ack) ==
  /\ ack => answered < Len(accepted) + (IF Accepts(stall) THEN 1 ELSE 0)
  /\ accepted' = IF Accepts(stall) THEN Append(accepted, s2m.q) ELSE accepted
  /\ answered' = IF ack THEN answered + 1 ELSE answered
  /\ mdm_rd_en_d1' = mdm_rd_en(stall)
  /\ mdm_wb_new_tr' = (mdm_stb /\ stall)
  /\ mdm_pend_cnt' =
       LET rd == mdm_rd_en(stall)
           wr == mdm_wr_en(ack)
       IN CASE ~master_rst_n -> 0
            [] master_rst_n /\ rd /\ ~wr -> (mdm_pend_cnt + 1) % g_SIZE
            [] master_rst_n /\ ~rd /\ wr -> (mdm_pend_cnt + g_SIZE - 1) % g_SIZE
            [] OTHER -> mdm_pend_cnt

(* The reply the WB slave drives with its ACK. *)
Reply(stall) == (accepted \o (IF Accepts(stall) THEN <<s2m.q>> ELSE <<>>))[answered + 1]

SdmWrite(stb) == Ask(slave_rst_n, stb /\ ~sdm_stall)
SdmRead == Ask(slave_rst_n, sdm_rd_en)
MdmRead(stall) == Ask(master_rst_n, mdm_rd_en(stall))
MdmWrite(ack) == Ask(master_rst_n, mdm_wr_en(ack))

SlaveEdge(stb) ==
  /\ SlavePort(stb)
  /\ s2m' \in Edges(g_SIZE, s2m, SdmWrite(stb), issued + 1, Idle)
  /\ m2s' \in Edges(g_SIZE, m2s, Idle, 0, SdmRead)
  /\ UNCHANGED <<slave_rst_n, master_rst_n, mdm_rd_en_d1, mdm_wb_new_tr,
                 mdm_pend_cnt, mdmUser>>

MasterEdge(stall, ack) ==
  /\ MasterPort(stall, ack)
  /\ s2m' \in Edges(g_SIZE, s2m, Idle, 0, MdmRead(stall))
  /\ m2s' \in Edges(g_SIZE, m2s, MdmWrite(ack), IF ack THEN Reply(stall) ELSE 0, Idle)
  /\ UNCHANGED <<slave_rst_n, master_rst_n, sdm_rd_en_d1, sdmUser>>

BothEdges(stb, stall, ack) ==
  /\ SlavePort(stb) /\ MasterPort(stall, ack)
  /\ s2m' \in Edges(g_SIZE, s2m, SdmWrite(stb), issued + 1, MdmRead(stall))
  /\ m2s' \in Edges(g_SIZE, m2s, MdmWrite(ack), IF ack THEN Reply(stall) ELSE 0, SdmRead)
  /\ UNCHANGED <<slave_rst_n, master_rst_n>>

(* Both domains are reset together, and released in any order. *)
ReleaseSlave == ~slave_rst_n /\ slave_rst_n' = TRUE
                /\ UNCHANGED <<master_rst_n, s2m, m2s, sdm_rd_en_d1, mdm_rd_en_d1,
                               mdm_wb_new_tr, mdm_pend_cnt, sdmUser, mdmUser>>
ReleaseMaster == ~master_rst_n /\ master_rst_n' = TRUE
                 /\ UNCHANGED <<slave_rst_n, s2m, m2s, sdm_rd_en_d1, mdm_rd_en_d1,
                                mdm_wb_new_tr, mdm_pend_cnt, sdmUser, mdmUser>>

Next == \/ \E stb \in BOOLEAN : SlaveEdge(stb)
        \/ \E stall, ack \in BOOLEAN : MasterEdge(stall, ack)
        \/ \E stb, stall, ack \in BOOLEAN : BothEdges(stb, stall, ack)
        \/ ReleaseSlave \/ ReleaseMaster

Spec == Init /\ [][Next]_vars

-----------------------------------------------------------------------------
(* Every request reaches the WB slave once and in order, however it stalls *)
(* while the next one is being fetched, and the replies come back once     *)
(* each, in order and without a gap.                                       *)
OnceAndInOrder ==
  /\ accepted = [i \in 1 .. Len(accepted) |-> i] /\ Len(accepted) <= issued
  /\ replied = [i \in 1 .. Len(replied) |-> i]

(* CYC stays up as long as the WB slave owes a reply, and mdm_pend_cnt is  *)
(* the number of requests fetched and not answered: its few bits never     *)
(* wrap, though fetches and answers come in any mixture.                   *)
CycleCoversReplies ==
  /\ answered < Len(accepted) => mdm_cyc
  /\ mdm_pend_cnt + answered + Len(s2m.queue) = issued

(* The comment on mdm_rd_en: a request is fetched only if "there is enough *)
(* space in the M2S_FIFO to push the new reply, taking into account any    *)
(* pending transactions".                                                  *)
RepliesFindSpace == [][answered' # answered => ~m2s.full]_vars
=============================================================================
