----------------------------- MODULE SyncWordWr -----------------------------
(***************************************************************************)
(* gc_sync_word_wr: a word crosses from clk_in_i to clk_out_i beside the   *)
(* pulse of PulseSync, unsynchronised, because it does not change while    *)
(* the pulse is under way.                                                 *)
(***************************************************************************)
EXTENDS PulseSync, Sequences

CONSTANT Data

VARIABLES
  g_AUTO_WR,   \* never changes
  wword,       \* gc_sync_word_data
  dat_out, wr_o,
  written,     \* the words whose transfer was taken since the last reset
  received     \* the words given with wr_o since then

wrVars == <<g_AUTO_WR, wword, dat_out, wr_o, written, received>>

WrInit == /\ Init
          /\ g_AUTO_WR \in BOOLEAN
          /\ wword \in Data /\ dat_out = wword
          /\ wr_o = FALSE /\ written = <<>> /\ received = <<>>

wr_in(wr) == IF g_AUTO_WR THEN d_ready_o ELSE wr

Mut_Saves(wr) == wr_in(wr)
Saves(wr) == d_ready_o /\ wr_in(wr)

(* The process p_writer, which no reset stops. *)
Writer(wr, d) ==
  /\ wword' = IF Saves(wr) THEN d ELSE wword
  /\ UNCHANGED g_AUTO_WR
  /\ written' = CASE ~rst_in_n -> <<>>
                  [] rst_in_n /\ Detected(wr_in(wr)) -> Append(written, d)
                  [] OTHER -> written

(* The process p_reader; sampled is what it finds in gc_sync_word_data. *)
Reader(sampled) ==
  /\ dat_out' = IF q_p_o THEN sampled ELSE dat_out
  /\ wr_o' = q_p_o
  /\ received' = IF q_p_o THEN Append(received, sampled) ELSE received

WrInEdge(wr, d) == /\ InEdge(wr_in(wr)) /\ Writer(wr, d)
                   /\ UNCHANGED <<dat_out, wr_o, received>>
WrOutEdge == OutEdge /\ Reader(wword) /\ UNCHANGED <<g_AUTO_WR, wword, written>>
WrBothEdges(wr, d) ==
  /\ BothEdges(wr_in(wr)) /\ Writer(wr, d)
  /\ \E sampled \in (IF Saves(wr) THEN Data ELSE {wword}) : Reader(sampled)
WrAssert == /\ Assert /\ received' = <<>>
            /\ UNCHANGED <<g_AUTO_WR, wword, dat_out, wr_o, written>>
WrRelease == Release /\ UNCHANGED wrVars

WrNext == \/ \E wr \in BOOLEAN, d \in Data : WrInEdge(wr, d) \/ WrBothEdges(wr, d)
          \/ WrOutEdge
          \/ WrAssert \/ WrRelease

WrSpec == WrInit /\ [][WrNext]_<<psVars, wrVars>>

-----------------------------------------------------------------------------
(* "Data is stable": whenever p_reader looks, the word is the one whose    *)
(* transfer was taken, however wr_i and data_i move meanwhile; the words   *)
(* come out once each and in order, all of them before the acknowledge.    *)
WordsArriveIntact ==
  ~dirty => /\ received = SubSeq(written, 1, Len(received))
            /\ rst_in_n /\ d_ack_p_o => received = written
=============================================================================
