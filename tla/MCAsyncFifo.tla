---------------------------- MODULE MCAsyncFifo -----------------------------
(***************************************************************************)
(* AsyncFifo with clocks that never stop.  wclk and rclk change at every   *)
(* edge, so that weak fairness on them says that edges keep coming and     *)
(* nothing about what the two users ask for at them.                       *)
(***************************************************************************)
EXTENDS AsyncFifo

CONSTANT MaxWidth

(* The Gray code keeps its law at every width up to MaxWidth, the widths   *)
(* of the other sizes of FIFO among them.                                  *)
ASSUME GrayAssumptionWide == \A w \in 1 .. MaxWidth : GrayLaw(w)

VARIABLES wclk, rclk

liveVars == <<vars, wclk, rclk>>

LiveInit == Init /\ wclk = FALSE /\ rclk = FALSE

WrClk == \/ WrTick /\ wclk' = ~wclk /\ UNCHANGED rclk
         \/ BothTick /\ wclk' = ~wclk /\ rclk' = ~rclk

RdClk == \/ RdTick /\ rclk' = ~rclk /\ UNCHANGED wclk
         \/ BothTick /\ wclk' = ~wclk /\ rclk' = ~rclk

LiveNext == \/ WrClk
            \/ RdClk
            \/ (AssertReset \/ ReleaseReset) /\ UNCHANGED <<wclk, rclk>>

LiveSpec == /\ LiveInit /\ [][LiveNext]_liveVars
            /\ WF_wclk(WrClk) /\ WF_rclk(RdClk)

(* Neither side waits for the other for ever, although each learns late    *)
(* of what the other did: a stored word is shown to the reader within      *)
(* finitely many edges of its clock, and full_int comes down after a slot  *)
(* was freed, whether the other side goes on or falls silent.              *)
FlagsCatchUp ==
  /\ wbin # rbin ~> (~empty \/ wbin = rbin)
  /\ (full /\ Dist(wbin, rbin) < Size) ~> ~full
=============================================================================
