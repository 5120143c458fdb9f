----------------------------- MODULE SyncWordRd -----------------------------
(***************************************************************************)
(* gc_sync_word_rd: a read request crosses from the Wishbone side to the   *)
(* user side as a pulse, the user's word is caught there, and is taken to  *)
(* the Wishbone side with the pulse's acknowledge.                         *)
(*                                                                         *)
(* The pulse goes the other way than the data: clk_in_i of PulseSync is    *)
(* clk_out_i here, and clk_out_i of PulseSync is clk_in_i.  No process     *)
(* drives rd_in_o.                                                         *)
(***************************************************************************)
EXTENDS PulseSync, Sequences

CONSTANT Words

VARIABLES
  rword,      \* gc_sync_word_data
  data_out, ack_out,
  captured,   \* the words caught for a read since the last reset
  answers     \* the words given in answer to a read since then

rdVars == <<rword, data_out, ack_out, captured, answers>>

RdInit == /\ Init
          /\ rword \in Words /\ data_out = rword
          /\ ack_out = FALSE /\ captured = <<>> /\ answers = <<>>

(* The process p_reader, on the user's clock. *)
Capture(d) == /\ rword' = IF q_p_o THEN d ELSE rword
              /\ captured' = IF q_p_o THEN Append(captured, d) ELSE captured

(* The process p_writer, on the Wishbone clock (its wr_in is rd_done); the *)
(* acknowledge that comes with no read after a reset is not counted as an  *)
(* answer.                                                                 *)
Mut_rd_done == d_ack_p_o \/ (in_ext /\ fb0)
rd_done == d_ack_p_o
Answer(sampled) ==
  /\ data_out' = IF rd_done THEN sampled ELSE data_out
  /\ ack_out' = (rd_done /\ rst_in_n)
  /\ answers' = CASE ~rst_in_n -> <<>>
                  [] rst_in_n /\ rd_done /\ sent > 0 -> Append(answers, sampled)
                  [] OTHER -> answers

RdWbEdge(rd) == InEdge(rd) /\ Answer(rword) /\ UNCHANGED <<rword, captured>>
RdUserEdge(d) == OutEdge /\ Capture(d) /\ UNCHANGED <<data_out, ack_out, answers>>
RdBothEdges(rd, d) ==
  /\ BothEdges(rd) /\ Capture(d)
  /\ \E sampled \in (IF q_p_o THEN Words ELSE {rword}) : Answer(sampled)
RdAssert == Assert /\ captured' = <<>> /\ UNCHANGED <<rword, data_out, ack_out, answers>>
RdRelease == Release /\ UNCHANGED rdVars

RdNext == \/ \E rd \in BOOLEAN : RdWbEdge(rd)
          \/ \E d \in Words : RdUserEdge(d)
          \/ \E rd \in BOOLEAN, d \in Words : RdBothEdges(rd, d)
          \/ RdAssert \/ RdRelease

RdSpec == RdInit /\ [][RdNext]_<<psVars, rdVars>>

-----------------------------------------------------------------------------
(* Each read is answered with the word that was caught for it and not with *)
(* the one before, although the word itself is not synchronised.           *)
ReadsGetTheirWord ==
  ~dirty => /\ answers = SubSeq(captured, 1, Len(answers))
            /\ rst_in_n /\ rd_done => Len(captured) = sent
=============================================================================
