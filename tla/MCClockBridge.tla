--------------------------- MODULE MCClockBridge ----------------------------
(***************************************************************************)
(* ClockBridge with clocks that do not stop and a WB slave that neither    *)
(* stalls for ever nor withholds a reply for ever.  sclk and mclk change   *)
(* at the edges of slave_clk and master_clk.                               *)
(***************************************************************************)
EXTENDS ClockBridge

VARIABLES sclk, mclk

liveVars == <<vars, sclk, mclk>>

LiveInit == Init /\ sclk = FALSE /\ mclk = FALSE

SlaveTick == (\E stb \in BOOLEAN : SlaveEdge(stb)) /\ sclk' = ~sclk /\ UNCHANGED mclk

MasterTick == /\ \E stall, ack \in BOOLEAN : MasterEdge(stall, ack)
              /\ mclk' = ~mclk /\ UNCHANGED sclk

TickBoth == /\ \E stb, stall, ack \in BOOLEAN : BothEdges(stb, stall, ack)
            /\ sclk' = ~sclk /\ mclk' = ~mclk

Release == (ReleaseSlave \/ ReleaseMaster) /\ UNCHANGED <<sclk, mclk>>

LiveNext == SlaveTick \/ MasterTick \/ TickBoth \/ Release

(* What the WB slave may accept or answer at an edge of master_clk alone   *)
(* it may at a common edge too, and the requests of a behaviour are        *)
(* finitely many: strong fairness of MasterTick says that an acceptance or *)
(* an answer that is possible again and again is made, at either edge.     *)
LiveSpec == /\ LiveInit /\ [][LiveNext]_liveVars
            /\ []<><<TRUE>>_sclk /\ []<><<TRUE>>_mclk
            /\ WF_slave_rst_n(Release) /\ WF_master_rst_n(Release)
            /\ SF_accepted(MasterTick) /\ SF_answered(MasterTick)

(* Every request the bridge takes is answered (there are MaxRequests at    *)
(* most): with g_SIZE of them outstanding none is lost, and the two FIFOs  *)
(* and their late flags cannot make the two sides wait for each other.     *)
EveryRequestAnswered == <>[](Len(replied) = issued)
=============================================================================
