-------------------------- MODULE AsyncFifoDualRst --------------------------
(***************************************************************************)
(* inferred_async_fifo_dual_rst: the ring of AsyncFifo with a synchronous  *)
(* reset in each clock domain and none in the synchronisers.  A reset that *)
(* takes effect moves a pointer by several Gray bits at once, so that the  *)
(* other side may latch any word at all; the FIFO is sound again when the  *)
(* resets have been active together long enough to flush the chains, and   *)
(* then whichever is released first.                                       *)
(*                                                                         *)
(* rst_n of AsyncFifo is tied to '1' here.                                 *)
(***************************************************************************)
EXTENDS AsyncFifo

CONSTANT MinEdges   \* the edges each clock has in a reset, at least

(* One clears the pointer, one more each stage of the synchroniser.        *)
ASSUME MinEdgesAssumption == MinEdges \in Nat /\ MinEdges >= 3

VARIABLES
  rst_wr_n, rst_rd_n,
  wr_count,
  wrHeld, rdHeld      \* edges with both resets active, up to MinEdges, the
                      \* other side having had one; MinEdges: flushed

drVars == <<vars, rst_wr_n, rst_rd_n, wr_count, wrHeld, rdHeld>>

DrInit == /\ rst_n = TRUE
          /\ mem = [a \in 0 .. Size-1 |-> ZeroWord]
          /\ wbin = 0 /\ rbin = 0 /\ full = FALSE /\ empty = TRUE
          /\ rx0 = Gray[0] /\ rx1 = Gray[0] /\ wx0 = Gray[0] /\ wx1 = Gray[0]
          /\ q = ZeroWord /\ taken = ZeroWord
          /\ rst_wr_n = FALSE /\ rst_rd_n = FALSE /\ wr_count = 0
          /\ wrHeld = MinEdges /\ rdHeld = MinEdges

Mut_DrWriteSide(we, d) == WriteSide(we, d) /\ wr_count' = IF rst_wr_n THEN Dist(wbin, Bin[rx1]) ELSE wr_count
DrWriteSide(we, d) ==
  IF rst_wr_n THEN WriteSide(we, d) /\ wr_count' = Dist(wbin, Bin[rx1])
  ELSE /\ mem' = IF we_int(we) THEN [mem EXCEPT ![Addr(wbin)] = d] ELSE mem
       /\ wbin' = 0 /\ full' = FALSE /\ rx1' = rx0
       /\ UNCHANGED wr_count

(* taken is about completed reads: under reset rd_int still clocks q_int.  *)
DrReadSide(rd, word) ==
  IF rst_rd_n THEN ReadSide(rd, word)
  ELSE /\ q' = IF Reads(rd) THEN word ELSE q
       /\ rbin' = 0 /\ empty' = TRUE /\ wx1' = wx0
       /\ UNCHANGED taken

(* How long the resets have been active together. *)
BothInReset == ~rst_wr_n /\ ~rst_rd_n
More(n) == IF n < MinEdges THEN n + 1 ELSE n
WrHold == wrHeld' = IF BothInReset /\ (wrHeld = 0 \/ rdHeld > 0) THEN More(wrHeld) ELSE wrHeld
RdHold == rdHeld' = IF BothInReset /\ (rdHeld = 0 \/ wrHeld > 0) THEN More(rdHeld) ELSE rdHeld

DrWrEdge(we, d) == /\ DrWriteSide(we, d) /\ rx0' = Gray[rbin] /\ WrHold
                   /\ UNCHANGED <<rst_n, rdVars, rst_wr_n, rst_rd_n, rdHeld>>

DrRdEdge(rd) == /\ DrReadSide(rd, mem[ReadAddr(rd)]) /\ wx0' = Gray[wbin] /\ RdHold
                /\ UNCHANGED <<rst_n, wrVars, wr_count, rst_wr_n, rst_rd_n, wrHeld>>

DrBothEdges(we, d, rd) ==
  /\ DrWriteSide(we, d) /\ WrHold
  /\ \E word \in ReadDuringWrite(we, rd) : DrReadSide(rd, word) /\ RdHold
  /\ rx0' \in Sampled(Gray[rbin], Gray[rbin'])
  /\ wx0' \in Sampled(Gray[wbin], Gray[wbin'])
  /\ UNCHANGED <<rst_n, rst_wr_n, rst_rd_n>>

(* "If you reset one clock domain, you must reset BOTH": a first reset     *)
(* opens a phase that ends when both have been held and released.          *)
Flushed == wrHeld = MinEdges /\ rdHeld = MinEdges
Reset(wr, rd) ==
  /\ rst_wr_n' = wr /\ rst_rd_n' = rd
  /\ UNCHANGED <<vars, wr_count>>
AssertFirst == /\ rst_wr_n /\ rst_rd_n
               /\ \E wr, rd \in BOOLEAN : ~(wr /\ rd) /\ Reset(wr, rd)
               /\ wrHeld' = 0 /\ rdHeld' = 0
AssertSecond == /\ rst_wr_n # rst_rd_n /\ ~Flushed
                /\ Reset(FALSE, FALSE) /\ UNCHANGED <<wrHeld, rdHeld>>
Release == /\ Flushed
           /\ \/ ~rst_wr_n /\ Reset(TRUE, rst_rd_n)
              \/ ~rst_rd_n /\ Reset(rst_wr_n, TRUE)
           /\ UNCHANGED <<wrHeld, rdHeld>>

DrEdge == \/ \E we \in BOOLEAN, d \in Data : DrWrEdge(we, d)
          \/ \E rd \in BOOLEAN : DrRdEdge(rd)
          \/ \E we, rd \in BOOLEAN, d \in Data : DrBothEdges(we, d, rd)

DrNext == DrEdge \/ AssertFirst \/ AssertSecond \/ Release

DrSpec == DrInit /\ [][DrNext]_drVars

-----------------------------------------------------------------------------
(* From the end of the flush to the next reset, and so through a release   *)
(* of the two resets however far apart, the pointers are in order and the  *)
(* flags are safe: no word from before the reset shows up, none is lost.   *)
SoundOnceFlushed ==
  Flushed => /\ PointersInOrder /\ FlagsAreConservative
             /\ ~rst_rd_n => rbin = 0
             /\ ~rst_wr_n => wbin = 0

(* What one gets by the counters of one side. *)
Lagged == INSTANCE LaggedFifoSpec
  WITH fifo <- [queue |-> Stored,
                freed0 |-> Dist(rbin, Bin[rx0]), freed1 |-> Dist(Bin[rx0], Bin[rx1]),
                fresh0 |-> Dist(wbin, Bin[wx0]), fresh1 |-> Dist(Bin[wx0], Bin[wx1]),
                full |-> full, empty |-> empty, q |-> q, wr_count |-> wr_count]

(* Between resets the Gray pointers and synchronisers behave as the counts *)
(* of LaggedFifo say, edge by edge: what the two clock bridges are         *)
(* composed from is exact.                                                 *)
IsLagged == Lagged!Init /\ [][Flushed /\ Flushed' => Lagged!Next]_drVars
=============================================================================
