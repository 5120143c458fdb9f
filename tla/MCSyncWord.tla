---------------------------- MODULE MCSyncWord ------------------------------
(***************************************************************************)
(* The two word synchronisers, one of them per behaviour, each with the    *)
(* pulse synchroniser it contains and with clocks that do not stop.  iclk  *)
(* and oclk change at the edges of clk_in_i and clk_out_i of PulseSync.    *)
(***************************************************************************)
EXTENDS SyncWordWr, SyncWordRd

VARIABLES
  unit,         \* the synchroniser of this behaviour; never changes
  iclk, oclk

mcVars == <<psVars, wrVars, rdVars, unit, iclk, oclk>>

MCInit == /\ WrInit /\ RdInit
          /\ wword = rword /\ unit \in {"wr", "rd"}
          /\ unit = "rd" => ~g_AUTO_WR
          /\ iclk = FALSE /\ oclk = FALSE

TickBoth ==
  /\ iclk' = ~iclk /\ oclk' = ~oclk
  /\ \/ /\ unit = "wr" /\ UNCHANGED rdVars
        /\ \E wr \in BOOLEAN, d \in Data : WrBothEdges(wr, d)
     \/ /\ unit = "rd" /\ UNCHANGED wrVars
        /\ \E rd \in BOOLEAN, d \in Data : RdBothEdges(rd, d)

TickIn ==
  /\ iclk' = ~iclk /\ UNCHANGED oclk
  /\ \/ /\ unit = "wr" /\ UNCHANGED rdVars
        /\ \E wr \in BOOLEAN, d \in Data : WrInEdge(wr, d)
     \/ /\ unit = "rd" /\ UNCHANGED wrVars
        /\ \E rd \in BOOLEAN : RdWbEdge(rd)

TickOut ==
  /\ oclk' = ~oclk /\ UNCHANGED iclk
  /\ \/ unit = "wr" /\ WrOutEdge /\ UNCHANGED rdVars
     \/ /\ unit = "rd" /\ UNCHANGED wrVars
        /\ \E d \in Data : RdUserEdge(d)

MCAssert == \/ unit = "wr" /\ WrAssert /\ UNCHANGED rdVars
            \/ unit = "rd" /\ RdAssert /\ UNCHANGED wrVars

MCRelease == \/ unit = "wr" /\ WrRelease /\ UNCHANGED rdVars
             \/ unit = "rd" /\ RdRelease /\ UNCHANGED wrVars

MCNext == /\ UNCHANGED unit
          /\ \/ TickIn \/ TickOut \/ TickBoth
             \/ (MCAssert \/ MCRelease) /\ UNCHANGED <<iclk, oclk>>

MCSpec == /\ MCInit /\ [][MCNext]_mcVars
          /\ WF_iclk((TickIn \/ TickBoth) /\ UNCHANGED unit)
          /\ WF_oclk((TickOut \/ TickBoth) /\ UNCHANGED unit)
          /\ WF_rst_out_n(MCRelease /\ UNCHANGED <<unit, iclk, oclk>>)

-----------------------------------------------------------------------------
(* A read through gc_sync_word_rd is answered with the word caught for it. *)
ReadsAnswered == unit = "rd" => ReadsGetTheirWord

(* Neither side waits for the other for ever: a pulse that was taken is    *)
(* delivered, and then the synchroniser is ready for the next one, unless  *)
(* it is reset before.                                                     *)
PulseDelivered == ~dirty /\ sent > got ~> d_ready_o \/ dirty
=============================================================================
