----------------------------- MODULE LaggedFifo -----------------------------
(***************************************************************************)
(* The asynchronous FIFO as its users see it, for the modules that compose *)
(* it: pointers are replaced by what they are compared for.  A FIFO is a   *)
(* record                                                                  *)
(*   queue         the words stored, oldest first                          *)
(*   freed0 freed1 the reads not yet in the first, in the second stage of  *)
(*                 the synchroniser that takes the read pointer to the     *)
(*                 write side                                              *)
(*   fresh0 fresh1 the same for the writes on their way to the read side   *)
(*   full empty    full_int and empty_int                                  *)
(*   q             q_o (without show-ahead)                                *)
(*   wr_count      the count register of the write side, all its bits      *)
(* and an edge of one clock, or of both, maps a record to the records the  *)
(* FIFO may go to.                                                         *)
(***************************************************************************)
EXTENDS Naturals, Sequences

EmptyFifo(word) ==
  [queue |-> <<>>, freed0 |-> 0, freed1 |-> 0, fresh0 |-> 0, fresh1 |-> 0,
   full |-> FALSE, empty |-> TRUE, q |-> word, wr_count |-> 0]

(* What a side asks for at an edge of its clock; Idle if it has no edge.   *)
Idle == [edge |-> FALSE, rst_n |-> TRUE, en |-> FALSE]
Ask(rst_n, en) == [edge |-> TRUE, rst_n |-> rst_n, en |-> en]

we_int(f, w) == w.edge /\ w.rst_n /\ w.en /\ ~f.full
rd_int(f, r) == r.edge /\ r.rst_n /\ r.en /\ ~f.empty

(* The occupation each side believes in: too high for the writer, too low  *)
(* for the reader.                                                         *)
WriterSees(f) == Len(f.queue) + f.freed0 + f.freed1
ReaderSees(f) == Len(f.queue) - (f.fresh0 + f.fresh1)

(* A counter of steps of the other side that have not reached stage 0: an  *)
(* edge samples them all, save one taken at this very instant, which it    *)
(* may or may not see.                                                     *)
Unseen(pending, stepped, edge) ==
  CASE edge /\ stepped  -> {0, 1}
    [] edge /\ ~stepped -> {0}
    [] ~edge /\ stepped -> {pending + 1}
    [] OTHER            -> {pending}

(* ... and what is then in stage 0 but not in stage 1. *)
Moved(pending, staged, stepped, edge, unseen) ==
  IF edge THEN pending + (IF stepped THEN 1 ELSE 0) - unseen ELSE staged

(* The records after an edge of the write clock asking for w to store word *)
(* and an edge of the read clock asking for r.                             *)
Edges(Size, f, w, word, r) ==
  LET we == we_int(f, w)
      rd == rd_int(f, r)
      kept == IF rd THEN Tail(f.queue) ELSE f.queue
      occ == WriterSees(f)
      seen == ReaderSees(f)
  IN {[queue  |-> IF we THEN Append(kept, word) ELSE kept,
       freed0 |-> u, freed1 |-> Moved(f.freed0, f.freed1, rd, w.edge, u),
       fresh0 |-> v, fresh1 |-> Moved(f.fresh0, f.fresh1, we, r.edge, v),
       full   |-> IF w.edge THEN w.rst_n /\ (occ = Size \/ (we /\ occ + 1 = Size))
                            ELSE f.full,
       empty  |-> IF r.edge THEN ~r.rst_n \/ seen = 0 \/ (rd /\ seen = 1)
                            ELSE f.empty,
       q      |-> IF rd THEN Head(f.queue) ELSE f.q,
       wr_count |-> IF w.edge /\ w.rst_n THEN occ ELSE f.wr_count] :
      u \in Unseen(f.freed0, rd, w.edge), v \in Unseen(f.fresh0, we, r.edge)}
=============================================================================
