------------------------ MODULE ClockCrossing_proofs ------------------------
(***************************************************************************)
(* For any size of the FIFOs and any number of requests and cycles: the    *)
(* requests and replies cross once each and in order, CYC falls on the     *)
(* other side where it fell on this one, and no FIFO is written when it is *)
(* full, provided a WB master that makes several cycles has fewer requests *)
(* outstanding than the FIFOs hold.  Otherwise that is false: see README.  *)
(***************************************************************************)
EXTENDS ClockCrossing, SequenceTheorems, TLAPS

-----------------------------------------------------------------------------
(* The FIFO                                                                *)

B(x) == IF x THEN 1 ELSE 0

Asked == [edge : BOOLEAN, rst_n : BOOLEAN, en : BOOLEAN]

(* The reader's view is never too high. *)
FifoOK(f) ==
  /\ f.queue \in Seq(Nat)
  /\ f.freed0 \in Nat /\ f.freed1 \in Nat /\ f.fresh0 \in Nat /\ f.fresh1 \in Nat
  /\ f.q \in Nat /\ f.wr_count \in Nat /\ f.full \in BOOLEAN /\ f.empty \in BOOLEAN
  /\ f.fresh0 + f.fresh1 <= Len(f.queue)
  /\ ~f.empty => f.fresh0 + f.fresh1 < Len(f.queue)

(* The numbers n+1, n+2, ... *)
Run(s, n) == \A k \in 1 .. Len(s) : s[k] = n + k

(* How the counts of h follow those of f when the edges w and r come. *)
Counted(size, f, h, w, r) ==
  LET we == we_int(f, w)
      rd == rd_int(f, r)
  IN /\ Len(h.queue) = Len(f.queue) + B(we) - B(rd)
     /\ IF w.edge THEN h.freed0 <= B(rd) /\ h.freed0 + h.freed1 = f.freed0 + B(rd)
                  ELSE h.freed0 = f.freed0 + B(rd) /\ h.freed1 = f.freed1
     /\ IF r.edge THEN h.fresh0 <= B(we) /\ h.fresh0 + h.fresh1 = f.fresh0 + B(we)
                  ELSE h.fresh0 = f.fresh0 + B(we) /\ h.fresh1 = f.fresh1
     /\ w.edge => (h.full <=> w.rst_n /\ \/ WriterSees(f) = size
                                         \/ we /\ WriterSees(f) + 1 = size)
     /\ ~w.edge => h.full = f.full
     /\ r.edge => (h.empty <=> \/ ~r.rst_n \/ ReaderSees(f) = 0
                               \/ rd /\ ReaderSees(f) = 1)
     /\ ~r.edge => h.empty = f.empty

LEMMA IntsBool ==
  ASSUME NEW f, NEW w \in Asked, NEW r \in Asked
  PROVE  we_int(f, w) \in BOOLEAN /\ rd_int(f, r) \in BOOLEAN
  BY DEF we_int, rd_int

LEMMA UnseenIs ==
  ASSUME NEW p, NEW s, NEW e, s \in BOOLEAN, e \in BOOLEAN, NEW u \in Unseen(p, s, e)
  PROVE  /\ e /\ s => u \in {0, 1}
         /\ e /\ ~s => u = 0
         /\ ~e /\ s => u = p + 1
         /\ ~e /\ ~s => u = p
<1>1. e /\ s => Unseen(p, s, e) = {0, 1}
  BY Zenon DEF Unseen
<1>2. e /\ ~s => Unseen(p, s, e) = {0}
  BY Zenon DEF Unseen
<1>3. ~e /\ s => Unseen(p, s, e) = {p + 1}
  BY Zenon DEF Unseen
<1>4. ~e /\ ~s => Unseen(p, s, e) = {p}
  BY Zenon DEF Unseen
<1> QED BY <1>1, <1>2, <1>3, <1>4

(* A pending count and its stage after an edge. *)
LEMMA MovedIs ==
  ASSUME NEW p \in Nat, NEW st \in Nat, NEW s \in BOOLEAN, NEW e \in BOOLEAN,
         NEW u \in Unseen(p, s, e)
  PROVE  /\ u \in Nat /\ Moved(p, st, s, e, u) \in Nat
         /\ IF e THEN u <= B(s) /\ u + Moved(p, st, s, e, u) = p + B(s)
                 ELSE u = p + B(s) /\ Moved(p, st, s, e, u) = st
<1>1. CASE e /\ s
  <2>1. u \in {0, 1}
    BY <1>1, UnseenIs, Zenon
  <2> QED BY <1>1, <2>1 DEF Moved, B
<1>2. CASE e /\ ~s
  <2>1. u = 0
    BY <1>2, UnseenIs, Zenon
  <2> QED BY <1>2, <2>1 DEF Moved, B
<1>3. CASE ~e /\ s
  <2>1. u = p + 1
    BY <1>3, UnseenIs, Zenon
  <2> QED BY <1>3, <2>1 DEF Moved, B
<1>4. CASE ~e /\ ~s
  <2>1. u = p
    BY <1>4, UnseenIs, Zenon
  <2> QED BY <1>4, <2>1 DEF Moved, B
<1> QED BY <1>1, <1>2, <1>3, <1>4

(* x, y: a pending count and its stage after an edge; what they are. *)
Sampled(p, st, s, e, x, y) == \E u \in Unseen(p, s, e) : x = u /\ y = Moved(p, st, s, e, u)

Staged(p, st, s, e, x, y) ==
  /\ x \in Nat /\ y \in Nat
  /\ IF e THEN x <= B(s) /\ x + y = p + B(s) ELSE x = p + B(s) /\ y = st

LEMMA StageIs ==
  ASSUME NEW p, NEW st, NEW s, NEW e, NEW x, NEW y,
         p \in Nat, st \in Nat, s \in BOOLEAN, e \in BOOLEAN, Sampled(p, st, s, e, x, y)
  PROVE  Staged(p, st, s, e, x, y)
<1>1. PICK u \in Unseen(p, s, e) : x = u /\ y = Moved(p, st, s, e, u)
  BY DEF Sampled
<1> QED BY <1>1, MovedIs DEF Staged

LEMMA RunAppend ==
  ASSUME NEW s \in Seq(Nat), NEW n \in Nat, Run(s, n)
  PROVE  Run(Append(s, n + Len(s) + 1), n)
  BY DEF Run

(* A read needs a word: it is there if the reader thinks so. *)
LEMMA ReadsWord ==
  ASSUME NEW f, FifoOK(f), NEW r \in Asked, rd_int(f, r)
  PROVE  f.queue # <<>> /\ ReaderSees(f) \in Nat /\ ReaderSees(f) > 0
  BY DEF FifoOK, rd_int, ReaderSees

LEMMA EdgesFields ==
  ASSUME NEW size, NEW f, NEW h, NEW w, NEW r, NEW word, h \in Edges(size, f, w, word, r)
  PROVE  /\ h.queue = IF we_int(f, w)
                      THEN Append(IF rd_int(f, r) THEN Tail(f.queue) ELSE f.queue, word)
                      ELSE IF rd_int(f, r) THEN Tail(f.queue) ELSE f.queue
         /\ h.q = IF rd_int(f, r) THEN Head(f.queue) ELSE f.q
         /\ h.wr_count = IF w.edge /\ w.rst_n THEN WriterSees(f) ELSE f.wr_count
         /\ h.full = IF w.edge
                     THEN w.rst_n /\ \/ WriterSees(f) = size
                                     \/ we_int(f, w) /\ WriterSees(f) + 1 = size
                     ELSE f.full
         /\ h.empty = IF r.edge
                      THEN ~r.rst_n \/ ReaderSees(f) = 0 \/ (rd_int(f, r) /\ ReaderSees(f) = 1)
                      ELSE f.empty
         /\ \E u \in Unseen(f.freed0, rd_int(f, r), w.edge) :
              h.freed0 = u /\ h.freed1 = Moved(f.freed0, f.freed1, rd_int(f, r), w.edge, u)
         /\ \E v \in Unseen(f.fresh0, we_int(f, w), r.edge) :
              h.fresh0 = v /\ h.fresh1 = Moved(f.fresh0, f.fresh1, we_int(f, w), r.edge, v)
<1> DEFINE we == we_int(f, w)
           rd == rd_int(f, r)
           queue == IF we THEN Append(IF rd THEN Tail(f.queue) ELSE f.queue, word)
                    ELSE IF rd THEN Tail(f.queue) ELSE f.queue
           is_full == IF w.edge
                      THEN w.rst_n /\ (WriterSees(f) = size \/ (we /\ WriterSees(f) + 1 = size))
                      ELSE f.full
           empty == IF r.edge
                    THEN ~r.rst_n \/ ReaderSees(f) = 0 \/ (rd /\ ReaderSees(f) = 1)
                    ELSE f.empty
           word_q == IF rd THEN Head(f.queue) ELSE f.q
           count == IF w.edge /\ w.rst_n THEN WriterSees(f) ELSE f.wr_count
           freed1(u) == Moved(f.freed0, f.freed1, rd, w.edge, u)
           fresh1(v) == Moved(f.fresh0, f.fresh1, we, r.edge, v)
<1>1. \E u \in Unseen(f.freed0, rd, w.edge), v \in Unseen(f.fresh0, we, r.edge) :
        h = [queue |-> queue, freed0 |-> u, freed1 |-> freed1(u),
             fresh0 |-> v, fresh1 |-> fresh1(v),
             full |-> is_full, empty |-> empty, q |-> word_q, wr_count |-> count]
  BY DEF Edges
<1> HIDE DEF we, rd, queue, is_full, empty, word_q, count, freed1, fresh1
<1>2. /\ h.queue = queue /\ h.full = is_full /\ h.empty = empty
      /\ h.q = word_q /\ h.wr_count = count
      /\ \E u \in Unseen(f.freed0, rd, w.edge) : h.freed0 = u /\ h.freed1 = freed1(u)
      /\ \E v \in Unseen(f.fresh0, we, r.edge) : h.fresh0 = v /\ h.fresh1 = fresh1(v)
  BY <1>1
<1> QED BY <1>2 DEF we, rd, queue, is_full, empty, word_q, count, freed1, fresh1

LEMMA EdgesOnFifo ==
  ASSUME NEW size, NEW f, NEW h, NEW w \in Asked, NEW r \in Asked, NEW word,
         FifoOK(f), h \in Edges(size, f, w, word, r), we_int(f, w) => word \in Nat
  PROVE  FifoOK(h) /\ Counted(size, f, h, w, r)
<1> DEFINE we == we_int(f, w)
           rd == rd_int(f, r)
           kept == IF rd THEN Tail(f.queue) ELSE f.queue
<1>0. we \in BOOLEAN /\ rd \in BOOLEAN /\ w.edge \in BOOLEAN /\ w.rst_n \in BOOLEAN
      /\ r.edge \in BOOLEAN /\ r.rst_n \in BOOLEAN
  BY IntsBool DEF Asked
<1>f. /\ h.queue = IF we THEN Append(kept, word) ELSE kept
      /\ h.q = IF rd THEN Head(f.queue) ELSE f.q
      /\ h.wr_count = IF w.edge /\ w.rst_n THEN WriterSees(f) ELSE f.wr_count
      /\ h.full = IF w.edge
                  THEN w.rst_n /\ (WriterSees(f) = size \/ (we /\ WriterSees(f) + 1 = size))
                  ELSE f.full
      /\ h.empty = IF r.edge
                   THEN ~r.rst_n \/ ReaderSees(f) = 0 \/ (rd /\ ReaderSees(f) = 1)
                   ELSE f.empty
      /\ \E u \in Unseen(f.freed0, rd, w.edge) :
           h.freed0 = u /\ h.freed1 = Moved(f.freed0, f.freed1, rd, w.edge, u)
      /\ \E v \in Unseen(f.fresh0, we, r.edge) :
           h.fresh0 = v /\ h.fresh1 = Moved(f.fresh0, f.fresh1, we, r.edge, v)
  BY EdgesFields
<1>1. /\ f.queue \in Seq(Nat) /\ Len(f.queue) \in Nat
      /\ f.freed0 \in Nat /\ f.freed1 \in Nat /\ f.fresh0 \in Nat /\ f.fresh1 \in Nat
      /\ f.q \in Nat /\ f.wr_count \in Nat /\ f.full \in BOOLEAN /\ f.empty \in BOOLEAN
      /\ f.fresh0 + f.fresh1 <= Len(f.queue)
  BY DEF FifoOK
<1>2. rd => f.queue # <<>> /\ ReaderSees(f) > 0
  BY ReadsWord
<1>3. kept \in Seq(Nat) /\ Len(kept) = Len(f.queue) - B(rd)
  <2>1. CASE rd
    BY <1>1, <1>2, <2>1, HeadTailProperties DEF B
  <2>2. CASE ~rd
    BY <1>1, <2>2 DEF B
  <2> QED BY <2>1, <2>2
<1>4. h.queue \in Seq(Nat) /\ Len(h.queue) = Len(f.queue) + B(we) - B(rd)
  <2>1. h.queue = IF we THEN Append(kept, word) ELSE kept
    BY <1>f, Zenon
  <2> HIDE DEF kept
  <2>2. CASE we
    <3>1. word \in Nat /\ h.queue = Append(kept, word)
      BY <2>1, <2>2
    <3>2. h.queue \in Seq(Nat) /\ Len(h.queue) = Len(kept) + 1
      BY <1>3, <3>1
    <3> HIDE DEF we, rd
    <3> QED BY <1>0, <1>1, <1>3, <2>2, <3>2 DEF B
  <2>3. CASE ~we
    <3> HIDE DEF we, rd
    <3> QED BY <1>0, <1>1, <1>3, <2>1, <2>3 DEF B
  <2> QED BY <2>2, <2>3
<1>5. h.q \in Nat
  <2>1. rd => Head(f.queue) \in Nat
    BY <1>1, <1>2, HeadTailProperties
  <2>2. h.q = IF rd THEN Head(f.queue) ELSE f.q
    BY <1>f, Zenon
  <2> QED BY <1>1, <2>1, <2>2
<1>6. h.wr_count \in Nat
  <2>1. h.wr_count = IF w.edge /\ w.rst_n THEN WriterSees(f) ELSE f.wr_count
    BY <1>f, Zenon
  <2>2. WriterSees(f) \in Nat
    BY <1>1 DEF WriterSees
  <2> QED BY <1>1, <2>1, <2>2
<1>7. /\ h.freed0 \in Nat /\ h.freed1 \in Nat
      /\ IF w.edge THEN h.freed0 <= B(rd) /\ h.freed0 + h.freed1 = f.freed0 + B(rd)
                   ELSE h.freed0 = f.freed0 + B(rd) /\ h.freed1 = f.freed1
  <2>1. Sampled(f.freed0, f.freed1, rd, w.edge, h.freed0, h.freed1)
    BY <1>f, Zenon DEF Sampled
  <2> HIDE DEF rd
  <2>2. Staged(f.freed0, f.freed1, rd, w.edge, h.freed0, h.freed1)
    BY <1>0, <1>1, <2>1, StageIs, Zenon
  <2> QED BY <2>2, Zenon DEF Staged
<1>8. /\ h.fresh0 \in Nat /\ h.fresh1 \in Nat
      /\ IF r.edge THEN h.fresh0 <= B(we) /\ h.fresh0 + h.fresh1 = f.fresh0 + B(we)
                   ELSE h.fresh0 = f.fresh0 + B(we) /\ h.fresh1 = f.fresh1
  <2>1. Sampled(f.fresh0, f.fresh1, we, r.edge, h.fresh0, h.fresh1)
    BY <1>f, Zenon DEF Sampled
  <2> HIDE DEF we
  <2>2. Staged(f.fresh0, f.fresh1, we, r.edge, h.fresh0, h.fresh1)
    BY <1>0, <1>1, <2>1, StageIs, Zenon
  <2> QED BY <2>2, Zenon DEF Staged
<1>9. /\ h.full \in BOOLEAN
      /\ w.edge => (h.full <=> w.rst_n /\ \/ WriterSees(f) = size
                                          \/ we /\ WriterSees(f) + 1 = size)
      /\ ~w.edge => h.full = f.full
  <2>1. h.full = IF w.edge
                 THEN w.rst_n /\ (WriterSees(f) = size \/ (we /\ WriterSees(f) + 1 = size))
                 ELSE f.full
    BY <1>f, Zenon
  <2>2. (w.rst_n /\ (WriterSees(f) = size \/ (we /\ WriterSees(f) + 1 = size))) \in BOOLEAN
    BY <1>0, Zenon
  <2> QED BY <1>0, <1>1, <2>1, <2>2, Zenon
<1>10. /\ h.empty \in BOOLEAN
       /\ r.edge => (h.empty <=> \/ ~r.rst_n \/ ReaderSees(f) = 0
                                 \/ rd /\ ReaderSees(f) = 1)
       /\ ~r.edge => h.empty = f.empty
  <2>1. h.empty = IF r.edge
                  THEN ~r.rst_n \/ ReaderSees(f) = 0 \/ (rd /\ ReaderSees(f) = 1)
                  ELSE f.empty
    BY <1>f, Zenon
  <2>2. (~r.rst_n \/ ReaderSees(f) = 0 \/ (rd /\ ReaderSees(f) = 1)) \in BOOLEAN
    BY <1>0, Zenon
  <2> QED BY <1>0, <1>1, <2>1, <2>2, Zenon
<1>11. Counted(size, f, h, w, r)
  BY <1>4, <1>7, <1>8, <1>9, <1>10, Zenon DEF Counted
<1>12. /\ h.fresh0 + h.fresh1 <= Len(h.queue)
       /\ ~h.empty => h.fresh0 + h.fresh1 < Len(h.queue)
  <2> DEFINE s == ReaderSees(f)
             bw == B(we)
             br == B(rd)
  <2>1. s = Len(f.queue) - (f.fresh0 + f.fresh1) /\ s \in Nat
    BY <1>1 DEF ReaderSees
  <2>2. /\ rd => s > 0
        /\ ~f.empty => s > 0
    BY <1>1, <1>2, <2>1 DEF FifoOK
  <2>3. bw \in {0, 1} /\ br \in {0, 1} /\ (rd <=> br = 1)
    BY <1>0 DEF B
  <2>4. rd => ~f.empty /\ r.edge
    BY DEF rd_int
  <2>5. /\ Len(h.queue) \in Nat /\ Len(h.queue) = Len(f.queue) + bw - br
        /\ h.fresh0 \in Nat /\ h.fresh1 \in Nat /\ h.empty \in BOOLEAN
        /\ r.edge => h.fresh0 + h.fresh1 = f.fresh0 + bw
        /\ ~r.edge => h.fresh0 = f.fresh0 + bw /\ h.fresh1 = f.fresh1
    BY <1>4, <1>8, <1>10
  <2>6. (r.edge /\ ~h.empty => s # 0 /\ ~(rd /\ s = 1)) /\ (~r.edge => (h.empty <=> f.empty))
    BY <1>1, <1>10
  <2> HIDE DEF s, bw, br, we, rd
  <2>7. CASE r.edge
    <3>1. h.fresh0 + h.fresh1 = f.fresh0 + bw
      BY <2>5, <2>7
    <3>2. (br = 1 => s > 0) /\ (~h.empty => s # 0 /\ ~(br = 1 /\ s = 1))
      BY <2>2, <2>3, <2>6, <2>7
    <3>3. Len(h.queue) = Len(f.queue) + bw - br
      BY <2>5
    <3>4. /\ f.fresh0 + bw <= Len(f.queue) + bw - br
          /\ ~h.empty => f.fresh0 + bw < Len(f.queue) + bw - br
      BY <1>1, <2>1, <2>3, <3>2
    <3> QED BY <3>1, <3>3, <3>4, Zenon
  <2>8. CASE ~r.edge
    <3>1. br = 0
      BY <2>3, <2>4, <2>8
    <3>2. Len(h.queue) - (h.fresh0 + h.fresh1) = s
      BY <1>1, <2>1, <2>3, <2>5, <2>8, <3>1
    <3> QED BY <2>1, <2>2, <2>5, <2>6, <2>8, <3>2
  <2> QED BY <1>0, <2>7, <2>8
<1>13. FifoOK(h)
  BY <1>4, <1>5, <1>6, <1>7, <1>8, <1>9, <1>10, <1>12 DEF FifoOK
<1> QED BY <1>11, <1>13


(* The words of a FIFO after a step, one by one.                           *)
Shifted(f, h, rd, word) ==
  /\ h.q = IF rd THEN f.queue[1] ELSE f.q
  /\ \A k \in 1 .. Len(h.queue) :
       h.queue[k] = IF k + B(rd) <= Len(f.queue) THEN f.queue[k + B(rd)] ELSE word

LEMMA EdgesWords ==
  ASSUME NEW size, NEW f, NEW h, NEW w \in Asked, NEW r \in Asked, NEW word,
         FifoOK(f), h \in Edges(size, f, w, word, r), we_int(f, w) => word \in Nat
  PROVE  Shifted(f, h, rd_int(f, r), word)
<1> DEFINE we == we_int(f, w)
           rd == rd_int(f, r)
           kept == IF rd THEN Tail(f.queue) ELSE f.queue
<1>1. /\ h.queue = IF we THEN Append(kept, word) ELSE kept
      /\ h.q = IF rd THEN Head(f.queue) ELSE f.q
  BY EdgesFields
<1>2. f.queue \in Seq(Nat) /\ (rd => f.queue # <<>>)
  BY ReadsWord DEF FifoOK
<1>3. we \in BOOLEAN /\ rd \in BOOLEAN
  BY IntsBool
<1> DEFINE b == B(rd)
<1>4. /\ kept \in Seq(Nat) /\ Len(kept) = Len(f.queue) - b /\ b \in Nat
      /\ \A k \in 1 .. Len(kept) : kept[k] = f.queue[k + b]
      /\ rd => Head(f.queue) = f.queue[1]
  <2>1. CASE rd
    BY <1>2, <2>1 DEF B
  <2>2. CASE ~rd
    BY <1>2, <2>2 DEF B
  <2> QED BY <1>3, <2>1, <2>2
<1> HIDE DEF we, rd, kept, b
<1>5. \A k \in 1 .. Len(h.queue) :
        h.queue[k] = IF k + b <= Len(f.queue) THEN f.queue[k + b] ELSE word
  <2>1. CASE we
    BY <1>1, <1>2, <1>4, <2>1
  <2>2. CASE ~we
    BY <1>1, <1>2, <1>4, <2>2
  <2> QED BY <1>3, <2>1, <2>2
<1>6. h.q = IF rd THEN f.queue[1] ELSE f.q
  BY <1>1, <1>4, Zenon
<1> QED BY <1>5, <1>6, Zenon DEF rd, b, Shifted

-----------------------------------------------------------------------------
(* The crossing                                                            *)

(* A WB master of several cycles has fewer requests outstanding than mfifo *)
(* has words: one of them may be taken by the record that ends a cycle.    *)
Spaced == MaxCycles = 1 \/ MaxOverlap < g_size

TypeOK ==
  /\ cycles \in {1, MaxCycles} /\ issued \in Nat /\ answered \in Nat
  /\ slave_rst_n \in BOOLEAN /\ master_rst_n \in BOOLEAN /\ slave_CYC \in BOOLEAN
  /\ slave_o_PUSH \in BOOLEAN /\ master_o_STB \in BOOLEAN
  /\ ends \in Seq(Nat) /\ replied \in Seq(Nat) /\ accepted \in Seq(Nat) /\ gaps \in Seq(Nat)
  /\ FifoOK(mfifo) /\ FifoOK(sfifo)

(* Words written to mfifo are numbered as well: request n of the running   *)
(* cycle is number n and the ends so far, the last end is number Mark.     *)
Mark == LastEnd + Len(ends)
Popped == issued + Len(ends) - Len(mfifo.queue)
Fetched == IF Popped < Mark THEN LastEnd ELSE Popped - Len(ends)
WordAt(j) == IF j = Mark THEN 0 ELSE j - Len(ends)

(* Replies that left sfifo, and requests that wait for one.                *)
Got == Len(replied) + B(slave_o_PUSH)
Waits == issued - Len(replied)

EndsOK == /\ LastEnd <= Len(replied) /\ LastEnd <= issued
          /\ ends # <<>> => LastEnd > 0
          /\ Len(ends) <= cycles
          /\ slave_CYC => Len(ends) < cycles

(* mfifo holds what the master port has not read: requests of the running  *)
(* cycle, after the record that ends the last one, if that is still there. *)
RequestsOK == /\ Popped >= 0 /\ Popped + 1 >= Mark
              /\ \A k \in 1 .. Len(mfifo.queue) : mfifo.queue[k] = WordAt(Popped + k)
              /\ mfifo.q = IF Popped = Mark THEN 0 ELSE Fetched

AcceptedOK == /\ Run(accepted, 0) /\ answered <= Len(accepted)
              /\ Len(accepted) + B(mrecv_CYC /\ master_o_STB) = Fetched

RepliedOK == /\ Run(replied, 0) /\ Run(sfifo.queue, Got)
             /\ Got + Len(sfifo.queue) = answered
             /\ slave_o_PUSH => sfifo.q = Got

GapsOK == /\ Len(gaps) = IF Popped < Mark THEN Len(ends) - 1 ELSE Len(ends)
          /\ \A i \in 1 .. Len(gaps) : gaps[i] = ends[i]

ResetOK == /\ ~master_rst_n => Popped = 0 /\ mfifo.empty /\ ~master_o_STB
           /\ ~slave_rst_n => issued = 0 /\ sfifo.empty /\ ~slave_o_PUSH /\ ~slave_CYC

(* mpushed and mpopped count modulo Counts.                                *)
CountOK == /\ mpushed \in 0 .. Counts-1 /\ mpopped \in 0 .. Counts-1
           /\ Waits \in 0 .. g_size
           /\ mpopped \in {mpushed + g_size - Waits, mpushed - g_size - Waits}

(* Room in sfifo.  What the WB slave may be asked at all, what has come    *)
(* to the second and to the first stage of mfifo's synchroniser, is within *)
(* g_size of the replies taken from sfifo as far as the master port sees   *)
(* that, at the same stage.                                                *)
RepliesFit ==
  /\ Fetched + (sfifo.freed0 + sfifo.freed1) <= g_size + Got
  /\ issued - mfifo.fresh0 + sfifo.freed0 <= g_size + Got
  /\ issued - (mfifo.fresh0 + mfifo.fresh1) + (sfifo.freed0 + sfifo.freed1) <= g_size + Got
  /\ sfifo.full => answered = Fetched

(* Room in mfifo.  When the slave port sees a reply in sfifo it has seen   *)
(* the read of its request from mfifo, stage by stage.                     *)
Replied1 == answered - (sfifo.fresh0 + sfifo.fresh1)
Replied0 == answered - sfifo.fresh0
Freed1 == Popped - (mfifo.freed0 + mfifo.freed1)
Freed0 == Popped - mfifo.freed0
RequestsFit ==
  /\ Freed1 >= 0 /\ Freed1 + 1 >= Mark
  /\ Replied1 > LastEnd => Freed1 >= Replied1 + Len(ends)
  /\ Replied0 > LastEnd => Freed0 >= Replied0 + Len(ends)
  /\ mfifo.full => \/ Waits = g_size
                   \/ Len(ends) = cycles
                   \/ cycles # 1 /\ Waits + 1 >= g_size

CInv == /\ TypeOK /\ EndsOK /\ RequestsOK /\ AcceptedOK /\ RepliedOK /\ GapsOK
        /\ ResetOK /\ CountOK /\ RepliesFit /\ RequestsFit

LEMMA SizeIs == g_size \in Nat /\ g_size >= 2
  BY SizeAssumption

(* The edges of either clock or of both as one action; i.se and i.me tell  *)
(* which.                                                                  *)
Inputs == [se : BOOLEAN, cyc : BOOLEAN, stb : BOOLEAN, sstall : BOOLEAN,
           me : BOOLEAN, stall : BOOLEAN, ack : BOOLEAN]

MW(i) == IF i.se THEN MPush(i.cyc, i.stb) ELSE Idle
MR(i) == IF i.me THEN MPop(i.stall) ELSE Idle
SW(i) == IF i.me THEN SPush(i.ack) ELSE Idle
SR(i) == IF i.se THEN SPop(i.sstall) ELSE Idle
MWord(i) == IF i.se THEN msend(i.cyc) ELSE 0
SWord(i) == IF i.me THEN ssend(i.stall, i.ack) ELSE 0

Step(i) ==
  /\ i.se => WBMaster(i.cyc, i.stb) /\ SlavePort(i.cyc, i.stb, i.sstall)
  /\ ~i.se => UNCHANGED <<mpushed, mpopped, slave_CYC, slave_o_PUSH, issued, ends, replied>>
  /\ i.me => WBSlave(i.stall, i.ack) /\ MasterPort(i.stall, i.ack)
  /\ ~i.me => UNCHANGED <<master_o_STB, accepted, gaps, answered>>
  /\ mfifo' \in Edges(g_size, mfifo, MW(i), MWord(i), MR(i))
  /\ sfifo' \in Edges(g_size, sfifo, SW(i), SWord(i), SR(i))
  /\ cycles' = cycles /\ slave_rst_n' = slave_rst_n /\ master_rst_n' = master_rst_n

Rests == /\ slave_rst_n' \in BOOLEAN /\ master_rst_n' \in BOOLEAN
         /\ slave_rst_n => slave_rst_n'
         /\ master_rst_n => master_rst_n'
         /\ UNCHANGED <<cycles, mfifo, sfifo, slaveRegs, master_o_STB, slaveUser, masterUser>>

LEMMA NextIsStep ==
  ASSUME TypeOK, [Next]_vars
  PROVE  (\E i \in Inputs : Step(i)) \/ Rests
<1>1. ASSUME NEW cyc \in BOOLEAN, NEW stb \in BOOLEAN, NEW sstall \in BOOLEAN,
             SlaveEdge(cyc, stb, sstall)
      PROVE  \E i \in Inputs : Step(i)
  <2> DEFINE i == [se |-> TRUE, cyc |-> cyc, stb |-> stb, sstall |-> sstall,
                   me |-> FALSE, stall |-> FALSE, ack |-> FALSE]
  <2>1. i \in Inputs /\ i.se = TRUE /\ i.cyc = cyc /\ i.stb = stb /\ i.sstall = sstall
        /\ i.me = FALSE
    BY DEF Inputs
  <2> HIDE DEF i
  <2>2. /\ MW(i) = MPush(cyc, stb) /\ MR(i) = Idle /\ SW(i) = Idle /\ SR(i) = SPop(sstall)
        /\ MWord(i) = msend(cyc) /\ SWord(i) = 0
    BY <2>1, Zenon DEF MW, MR, SW, SR, MWord, SWord
  <2>3. Step(i)
    BY <1>1, <2>1, <2>2, Zenon DEF SlaveEdge, Step, ports, masterUser
  <2> QED BY <2>1, <2>3
<1>2. ASSUME NEW stall \in BOOLEAN, NEW ack \in BOOLEAN, MasterEdge(stall, ack)
      PROVE  \E i \in Inputs : Step(i)
  <2> DEFINE i == [se |-> FALSE, cyc |-> FALSE, stb |-> FALSE, sstall |-> FALSE,
                   me |-> TRUE, stall |-> stall, ack |-> ack]
  <2>1. i \in Inputs /\ i.se = FALSE /\ i.me = TRUE /\ i.stall = stall /\ i.ack = ack
    BY DEF Inputs
  <2> HIDE DEF i
  <2>2. /\ MW(i) = Idle /\ MR(i) = MPop(stall) /\ SW(i) = SPush(ack) /\ SR(i) = Idle
        /\ MWord(i) = 0 /\ SWord(i) = ssend(stall, ack)
    BY <2>1, Zenon DEF MW, MR, SW, SR, MWord, SWord
  <2>3. Step(i)
    BY <1>2, <2>1, <2>2, Zenon DEF MasterEdge, Step, ports, slaveRegs, slaveUser
  <2> QED BY <2>1, <2>3
<1>3. ASSUME NEW cyc \in BOOLEAN, NEW stb \in BOOLEAN, NEW sstall \in BOOLEAN,
             NEW stall \in BOOLEAN, NEW ack \in BOOLEAN,
             BothEdges(cyc, stb, sstall, stall, ack)
      PROVE  \E i \in Inputs : Step(i)
  <2> DEFINE i == [se |-> TRUE, cyc |-> cyc, stb |-> stb, sstall |-> sstall,
                   me |-> TRUE, stall |-> stall, ack |-> ack]
  <2>1. /\ i \in Inputs /\ i.se = TRUE /\ i.cyc = cyc /\ i.stb = stb /\ i.sstall = sstall
        /\ i.me = TRUE /\ i.stall = stall /\ i.ack = ack
    BY DEF Inputs
  <2> HIDE DEF i
  <2>2. /\ MW(i) = MPush(cyc, stb) /\ MR(i) = MPop(stall)
        /\ SW(i) = SPush(ack) /\ SR(i) = SPop(sstall)
        /\ MWord(i) = msend(cyc) /\ SWord(i) = ssend(stall, ack)
    BY <2>1, Zenon DEF MW, MR, SW, SR, MWord, SWord
  <2>3. Step(i)
    BY <1>3, <2>1, <2>2, Zenon DEF BothEdges, Step, ports
  <2> QED BY <2>1, <2>3
<1>4. Release => Rests
  <2> SUFFICES ASSUME Release PROVE Rests
    OBVIOUS
  <2>1. UNCHANGED <<cycles, mfifo, sfifo, slaveRegs, master_o_STB, slaveUser, masterUser>>
    BY DEF Release
  <2>2. \/ slave_rst_n' = TRUE /\ master_rst_n' = master_rst_n
        \/ master_rst_n' = TRUE /\ slave_rst_n' = slave_rst_n
    BY DEF Release
  <2>3. slave_rst_n \in BOOLEAN /\ master_rst_n \in BOOLEAN
    BY DEF TypeOK
  <2>4. /\ slave_rst_n' \in BOOLEAN /\ master_rst_n' \in BOOLEAN
        /\ slave_rst_n => slave_rst_n'
        /\ master_rst_n => master_rst_n'
    BY <2>2, <2>3
  <2> QED BY <2>1, <2>4, Zenon DEF Rests
<1>5. UNCHANGED vars => Rests
  BY DEF vars, ports, Rests, TypeOK
<1> QED BY <1>1, <1>2, <1>3, <1>4, <1>5, Zenon DEF Next

(* What an edge does: the slave port takes a request or the end of a       *)
(* cycle, the master port fetches a word, the WB slave accepts a request   *)
(* and answers one, a reply leaves sfifo and is given to the WB master.    *)
Takes(i) == i.se /\ ~full /\ i.cyc /\ i.stb
Closes(i) == i.se /\ ~i.cyc /\ slave_CYC
Fetches(i) == i.me /\ mr_en(i.stall)
Accepted(i) == i.me /\ Accepts(i.stall)
Answers(i) == i.me /\ i.ack
Gets(i) == i.se /\ sr_en(i.sstall)
Gives(i) == i.se /\ slave_o_PUSH

LEMMA InputBits ==
  ASSUME NEW i \in Inputs
  PROVE  /\ i.se \in BOOLEAN /\ i.cyc \in BOOLEAN /\ i.stb \in BOOLEAN
         /\ i.sstall \in BOOLEAN /\ i.me \in BOOLEAN /\ i.stall \in BOOLEAN
         /\ i.ack \in BOOLEAN
  BY DEF Inputs

LEMMA BIs ==
  ASSUME NEW x, NEW y, x <=> y
  PROVE  B(x) = B(y) /\ B(x) \in {0, 1}
  BY DEF B

(* The invariant in plain numbers.                                         *)
LEMMA Numbers ==
  ASSUME CInv
  PROVE  /\ issued \in Nat /\ answered \in Nat /\ cycles \in Nat
         /\ Len(ends) \in Nat /\ LastEnd \in Nat /\ Len(replied) \in Nat
         /\ Len(accepted) \in Nat /\ Len(gaps) \in Nat
         /\ Len(mfifo.queue) \in Nat /\ Len(sfifo.queue) \in Nat
         /\ Mark = LastEnd + Len(ends)
         /\ Popped \in Nat /\ Popped + Len(mfifo.queue) = issued + Len(ends)
         /\ Popped + 1 >= Mark
         /\ Fetched \in Nat
         /\ Popped < Mark => Fetched = LastEnd
         /\ Popped >= Mark => Fetched + Len(ends) = Popped
         /\ Got \in Nat /\ Got + Len(sfifo.queue) = answered
         /\ Len(replied) <= Got /\ Got <= Len(replied) + 1
         /\ LastEnd <= Len(replied)
         /\ answered <= Len(accepted) /\ Len(accepted) <= Fetched /\ Fetched <= issued
         /\ Len(ends) > 0 => LastEnd > 0
         /\ Len(ends) = 0 => LastEnd = 0
<1>1. /\ ends \in Seq(Nat) /\ replied \in Seq(Nat) /\ accepted \in Seq(Nat) /\ gaps \in Seq(Nat)
      /\ issued \in Nat /\ answered \in Nat /\ cycles \in Nat
  BY BoundsAssumption DEF CInv, TypeOK
<1>2. mfifo.queue \in Seq(Nat) /\ sfifo.queue \in Seq(Nat)
  BY DEF CInv, TypeOK, FifoOK
<1> DEFINE E == Len(ends)
           L == Len(mfifo.queue)
           K == Len(sfifo.queue)
           R == Len(replied)
           C == Len(accepted)
           u == B(slave_o_PUSH)
           c == B(mrecv_CYC /\ master_o_STB)
<1>3. E \in Nat /\ L \in Nat /\ K \in Nat /\ R \in Nat /\ C \in Nat /\ Len(gaps) \in Nat
  BY <1>1, <1>2
<1>4. /\ LastEnd \in Nat
      /\ E > 0 => LastEnd > 0
      /\ E = 0 => LastEnd = 0
  <2>1. CASE ends = <<>>
    BY <2>1, <1>1 DEF LastEnd
  <2>2. CASE ends # <<>>
    <3>1. E > 0 /\ LastEnd > 0
      BY <1>1, <2>2 DEF CInv, EndsOK
    <3> QED BY <1>1, <2>2, <3>1 DEF LastEnd
  <2> QED BY <2>1, <2>2
<1>5. u \in {0, 1} /\ c \in {0, 1}
  BY DEF B
<1>6. /\ Mark = LastEnd + E
      /\ Popped = issued + E - L
      /\ Fetched = IF Popped < Mark THEN LastEnd ELSE Popped - E
      /\ Got = R + u
  BY Zenon DEF Mark, Popped, Fetched, Got
<1>7. /\ Popped >= 0 /\ Popped + 1 >= Mark
      /\ answered <= C /\ C + c = Fetched
      /\ Got + K = answered
      /\ LastEnd <= R /\ LastEnd <= issued
  BY Zenon DEF CInv, RequestsOK, AcceptedOK, RepliedOK, EndsOK
<1> HIDE DEF E, L, K, R, C, u, c
<1>8. /\ Popped \in Nat /\ Popped + L = issued + E
      /\ Fetched \in Nat
      /\ Popped < Mark => Fetched = LastEnd
      /\ Popped >= Mark => Fetched + E = Popped
      /\ Got \in Nat /\ R <= Got /\ Got <= R + 1
      /\ C <= Fetched /\ Fetched <= issued
  BY <1>1, <1>3, <1>4, <1>5, <1>6, <1>7
<1> QED BY <1>1, <1>3, <1>4, <1>6, <1>7, <1>8, Zenon DEF E, L, K, R, C

(* The counts decide as the numbers of requests and replies do. *)
LEMMA FullIs ==
  ASSUME CInv
  PROVE  full <=> Waits = g_size
<1>1. /\ mpushed \in 0 .. Counts-1 /\ mpopped \in 0 .. Counts-1
      /\ Waits \in 0 .. g_size /\ g_size \in Nat /\ g_size >= 2
      /\ mpopped = mpushed + g_size - Waits \/ mpopped = mpushed - g_size - Waits
  BY SizeIs DEF CInv, CountOK
<1> QED BY <1>1 DEF full, Counts

(* Neither FIFO is written when it is full. *)
LEMMA NeverToFull ==
  ASSUME Spaced, CInv, NEW i \in Inputs, Step(i)
  PROVE  /\ Takes(i) \/ Closes(i) => ~mfifo.full
         /\ Answers(i) => ~sfifo.full
<1>1. Answers(i) => ~sfifo.full
  <2>1. SUFFICES ASSUME Answers(i) PROVE answered # Fetched
    BY DEF CInv, RepliesFit
  <2>2. answered < Len(Taken(i.stall))
    BY <2>1 DEF Answers, Step, WBSlave
  <2>3. Len(Taken(i.stall)) = Len(accepted) + B(Accepts(i.stall))
    <3>1. accepted \in Seq(Nat)
      BY DEF CInv, TypeOK
    <3> QED BY <3>1 DEF Taken, B
  <2>4. Accepts(i.stall) => mrecv_CYC /\ master_o_STB
    BY DEF Accepts
  <2>5. /\ Len(accepted) + B(mrecv_CYC /\ master_o_STB) = Fetched
        /\ answered \in Nat /\ Len(accepted) \in Nat
    BY Numbers DEF CInv, AcceptedOK
  <2>6. Len(Taken(i.stall)) <= Fetched
    BY <2>3, <2>4, <2>5 DEF B
  <2> QED BY <2>2, <2>3, <2>5, <2>6 DEF B
<1>2. mfifo.full => ~Takes(i) /\ ~Closes(i)
  <2> SUFFICES ASSUME mfifo.full PROVE ~Takes(i) /\ ~Closes(i)
    OBVIOUS
  <2>0. /\ g_size \in Nat /\ g_size >= 2 /\ issued \in Nat /\ Len(replied) \in Nat
        /\ Len(ends) \in Nat /\ cycles \in Nat /\ slave_CYC \in BOOLEAN
        /\ Waits = issued - Len(replied)
        /\ slave_CYC => Len(ends) < cycles
    BY SizeIs, Numbers DEF Waits, CInv, EndsOK, TypeOK
  <2>1. /\ Takes(i) => ~full /\ Len(ends) < cycles /\ issued < Len(replied) + Outstanding
        /\ Closes(i) => slave_CYC /\ Len(replied) = issued
    BY DEF Step, WBMaster, Takes, Closes
  <2>2. CASE Waits = g_size
    BY <2>0, <2>1, <2>2, FullIs
  <2>3. CASE Len(ends) = cycles
    BY <2>0, <2>1, <2>3
  <2>4. CASE cycles # 1 /\ Waits + 1 >= g_size
    <3>1. Outstanding = MaxOverlap /\ MaxOverlap \in Nat
      BY <2>4, BoundsAssumption DEF Outstanding
    <3>2. MaxCycles # 1 => MaxOverlap < g_size
      BY DEF Spaced
    <3>3. cycles \in {1, MaxCycles}
      BY DEF CInv, TypeOK
    <3> QED BY <2>0, <2>1, <2>4, <3>1, <3>2, <3>3
  <2> QED BY <2>2, <2>3, <2>4 DEF CInv, RequestsFit
<1> QED BY <1>1, <1>2

(* The WB slave answers what it was asked. *)
LEMMA AnswersAsked ==
  ASSUME CInv, NEW i \in Inputs, Step(i)
  PROVE  /\ Accepted(i) => mrecv_CYC /\ master_o_STB
         /\ Answers(i) => answered < Len(accepted) + B(Accepted(i))
         /\ Answers(i) => answered < Fetched
<1>1. Accepted(i) => mrecv_CYC /\ master_o_STB
  BY DEF Accepted, Accepts
<1>2. Answers(i) => answered < Len(accepted) + B(Accepted(i))
  <2> SUFFICES ASSUME Answers(i) PROVE answered < Len(accepted) + B(Accepted(i))
    OBVIOUS
  <2>1. answered < Len(Taken(i.stall)) /\ i.me
    BY DEF Answers, Step, WBSlave
  <2>2. accepted \in Seq(Nat)
    BY DEF CInv, TypeOK
  <2> QED BY <2>1, <2>2 DEF Taken, B, Accepted
<1>3. B(Accepted(i)) <= B(mrecv_CYC /\ master_o_STB)
  BY <1>1 DEF B
<1>4. Len(accepted) + B(mrecv_CYC /\ master_o_STB) = Fetched
  BY DEF CInv, AcceptedOK
<1>5. /\ B(Accepted(i)) \in {0, 1} /\ B(mrecv_CYC /\ master_o_STB) \in {0, 1}
      /\ Len(accepted) \in Nat /\ answered \in Nat
  BY Numbers DEF B
<1> QED BY <1>1, <1>2, <1>3, <1>4, <1>5

LEMMA Bits ==
  ASSUME Spaced, CInv, NEW i \in Inputs, Step(i)
  PROVE  /\ MW(i) \in Asked /\ MR(i) \in Asked /\ SW(i) \in Asked /\ SR(i) \in Asked
         /\ MW(i).edge = i.se /\ MR(i).edge = i.me /\ SW(i).edge = i.me /\ SR(i).edge = i.se
         /\ i.me => MR(i).rst_n = master_rst_n /\ SW(i).rst_n = master_rst_n
         /\ i.se => MW(i).rst_n = slave_rst_n /\ SR(i).rst_n = slave_rst_n
         /\ we_int(mfifo, MW(i)) <=> Takes(i) \/ Closes(i)
         /\ rd_int(mfifo, MR(i)) <=> Fetches(i)
         /\ we_int(sfifo, SW(i)) <=> Answers(i)
         /\ rd_int(sfifo, SR(i)) <=> Gets(i)
<1>1. /\ slave_rst_n \in BOOLEAN /\ master_rst_n \in BOOLEAN
      /\ mfifo.full \in BOOLEAN /\ mfifo.empty \in BOOLEAN
      /\ sfifo.full \in BOOLEAN /\ sfifo.empty \in BOOLEAN
      /\ i.se \in BOOLEAN /\ i.me \in BOOLEAN
  BY InputBits DEF CInv, TypeOK, FifoOK
<1>2. /\ mw_en(i.cyc, i.stb) \in BOOLEAN /\ mr_en(i.stall) \in BOOLEAN
      /\ sw_en(i.ack) \in BOOLEAN /\ sr_en(i.sstall) \in BOOLEAN
  BY InputBits, Zenon DEF mw_en, mr_en, sw_en, sr_en
<1>3. MW(i) \in Asked /\ MR(i) \in Asked /\ SW(i) \in Asked /\ SR(i) \in Asked
  BY <1>1, <1>2 DEF MW, MR, SW, SR, MPush, MPop, SPush, SPop, Ask, Idle, Asked
<1>4. /\ i.se => MW(i) = Ask(slave_rst_n, mw_en(i.cyc, i.stb))
                 /\ SR(i) = Ask(slave_rst_n, sr_en(i.sstall))
      /\ ~i.se => MW(i) = Idle /\ SR(i) = Idle
      /\ i.me => MR(i) = Ask(master_rst_n, mr_en(i.stall))
                 /\ SW(i) = Ask(master_rst_n, sw_en(i.ack))
      /\ ~i.me => MR(i) = Idle /\ SW(i) = Idle
  BY Zenon DEF MW, MR, SW, SR, MPush, MPop, SPush, SPop
<1>5. /\ i.se => /\ MW(i).edge = TRUE /\ MW(i).rst_n = slave_rst_n
                 /\ MW(i).en = mw_en(i.cyc, i.stb)
      /\ i.se => /\ SR(i).edge = TRUE /\ SR(i).rst_n = slave_rst_n
                 /\ SR(i).en = sr_en(i.sstall)
      /\ i.me => /\ MR(i).edge = TRUE /\ MR(i).rst_n = master_rst_n
                 /\ MR(i).en = mr_en(i.stall)
      /\ i.me => /\ SW(i).edge = TRUE /\ SW(i).rst_n = master_rst_n
                 /\ SW(i).en = sw_en(i.ack)
  <2>2. i.se => /\ MW(i).edge = TRUE /\ MW(i).rst_n = slave_rst_n
                /\ MW(i).en = mw_en(i.cyc, i.stb)
    BY <1>1, <1>2 DEF MW, MPush, Ask
  <2>3. i.se => /\ SR(i).edge = TRUE /\ SR(i).rst_n = slave_rst_n
                /\ SR(i).en = sr_en(i.sstall)
    BY <1>1, <1>2 DEF SR, SPop, Ask
  <2>4. i.me => /\ MR(i).edge = TRUE /\ MR(i).rst_n = master_rst_n
                /\ MR(i).en = mr_en(i.stall)
    BY <1>1, <1>2 DEF MR, MPop, Ask
  <2>5. i.me => /\ SW(i).edge = TRUE /\ SW(i).rst_n = master_rst_n
                /\ SW(i).en = sw_en(i.ack)
    BY <1>1, <1>2 DEF SW, SPush, Ask
  <2> QED BY <2>2, <2>3, <2>4, <2>5
<1>6. ~i.se => MW(i).edge = FALSE /\ SR(i).edge = FALSE
  BY <1>4 DEF Idle
<1>6a. ~i.me => MR(i).edge = FALSE /\ SW(i).edge = FALSE
  BY <1>4 DEF Idle
<1>7. /\ MW(i).edge = i.se /\ MR(i).edge = i.me /\ SW(i).edge = i.me /\ SR(i).edge = i.se
  BY <1>1, <1>5, <1>6, <1>6a
<1>8. /\ Takes(i) \/ Closes(i) => ~mfifo.full /\ slave_rst_n
      /\ Fetches(i) => ~mfifo.empty /\ master_rst_n
      /\ Answers(i) => ~sfifo.full /\ master_rst_n
      /\ Gets(i) => ~sfifo.empty /\ slave_rst_n
  <2>1. /\ ~slave_rst_n => sfifo.empty /\ ~slave_CYC
        /\ ~master_rst_n => mfifo.empty /\ Popped = 0
    BY DEF CInv, ResetOK
  <2>2. Takes(i) => slave_rst_n
    BY DEF Takes, Step, WBMaster
  <2>3. Closes(i) => slave_CYC
    BY DEF Closes
  <2>4. Fetches(i) => ~mfifo.empty
    BY DEF Fetches, mr_en
  <2>5. Gets(i) => ~sfifo.empty
    BY DEF Gets, sr_en
  <2>6. Popped = 0 => ~Answers(i)
    BY AnswersAsked, Numbers
  <2> QED BY <1>1, <2>1, <2>2, <2>3, <2>4, <2>5, <2>6, NeverToFull
<1>9. /\ i.se => (mw_en(i.cyc, i.stb) <=> Takes(i) \/ Closes(i))
      /\ i.me => (mr_en(i.stall) <=> Fetches(i))
      /\ i.me => (sw_en(i.ack) <=> Answers(i))
      /\ i.se => (sr_en(i.sstall) <=> Gets(i))
      /\ Takes(i) \/ Closes(i) => i.se
      /\ Fetches(i) \/ Answers(i) => i.me
      /\ Gets(i) => i.se
  BY Zenon DEF mw_en, sw_en, Takes, Closes, Fetches, Answers, Gets
<1>10. we_int(mfifo, MW(i)) <=> Takes(i) \/ Closes(i)
  BY <1>1, <1>5, <1>7, <1>8, <1>9, Zenon DEF we_int
<1>11. rd_int(mfifo, MR(i)) <=> Fetches(i)
  BY <1>1, <1>5, <1>7, <1>8, <1>9, Zenon DEF rd_int
<1>12. we_int(sfifo, SW(i)) <=> Answers(i)
  BY <1>1, <1>5, <1>7, <1>8, <1>9, Zenon DEF we_int
<1>13. rd_int(sfifo, SR(i)) <=> Gets(i)
  BY <1>1, <1>5, <1>7, <1>8, <1>9, Zenon DEF rd_int
<1> QED BY <1>3, <1>5, <1>7, <1>10, <1>11, <1>12, <1>13, Zenon

(* The slave port ... *)
LEMMA SlaveStep ==
  ASSUME Spaced, CInv, NEW i \in Inputs, Step(i)
  PROVE  /\ issued' = issued + B(Takes(i))
         /\ ends' \in Seq(Nat) /\ Len(ends') = Len(ends) + B(Closes(i))
         /\ \A k \in 1 .. Len(ends) : ends'[k] = ends[k]
         /\ LastEnd' = IF Closes(i) THEN issued ELSE LastEnd
         /\ replied' = IF Gives(i) THEN Append(replied, sfifo.q) ELSE replied
         /\ Len(replied') = Len(replied) + B(Gives(i))
         /\ slave_o_PUSH' = IF i.se THEN Gets(i) ELSE slave_o_PUSH
         /\ slave_CYC' = IF i.se THEN i.cyc ELSE slave_CYC
         /\ Got' = Got + B(Gets(i))
         /\ slave_o_PUSH' \in BOOLEAN /\ slave_CYC' \in BOOLEAN
         /\ Takes(i) => Waits < g_size /\ ~Closes(i)
         /\ Takes(i) \/ (i.se /\ i.cyc) => slave_rst_n /\ Len(ends) < cycles
         /\ Closes(i) => /\ slave_CYC /\ issued = Len(replied) /\ issued > LastEnd
                         /\ ~Gives(i)
<1>0. /\ issued \in Nat /\ ends \in Seq(Nat) /\ replied \in Seq(Nat) /\ sfifo.q \in Nat
      /\ slave_o_PUSH \in BOOLEAN /\ slave_CYC \in BOOLEAN /\ slave_rst_n \in BOOLEAN
      /\ i.se \in BOOLEAN /\ i.cyc \in BOOLEAN /\ i.stb \in BOOLEAN
      /\ LastEnd \in Nat /\ Len(replied) \in Nat /\ Len(ends) \in Nat
  BY InputBits, Numbers DEF CInv, TypeOK, FifoOK
<1>1. CASE ~i.se
  <2>1. UNCHANGED <<mpushed, mpopped, slave_CYC, slave_o_PUSH, issued, ends, replied>>
    BY <1>1 DEF Step
  <2>2. ~Takes(i) /\ ~Closes(i) /\ ~Gives(i) /\ ~Gets(i)
    BY <1>1 DEF Takes, Closes, Gives, Gets
  <2>3. Got' = Got /\ LastEnd' = LastEnd
    BY <2>1 DEF Got, LastEnd
  <2>4. Got \in Nat
    BY Numbers
  <2> QED BY <1>0, <1>1, <2>1, <2>2, <2>3, <2>4 DEF B
<1>2. CASE i.se
  <2>1. WBMaster(i.cyc, i.stb) /\ SlavePort(i.cyc, i.stb, i.sstall)
    BY <1>2 DEF Step
  <2>2. /\ Takes(i) <=> ~full /\ i.cyc /\ i.stb
        /\ Closes(i) <=> slave_CYC /\ ~i.cyc
        /\ Gives(i) <=> slave_o_PUSH
        /\ Gets(i) <=> sr_en(i.sstall)
    BY <1>2, Zenon DEF Takes, Closes, Gives, Gets
  <2>3. /\ issued' = issued + B(Takes(i))
        /\ ends' = IF Closes(i) THEN Append(ends, issued) ELSE ends
        /\ replied' = IF Gives(i) THEN Append(replied, sfifo.q) ELSE replied
        /\ slave_CYC' = i.cyc
    <3>1. issued' = IF ~full /\ i.cyc /\ i.stb THEN issued + 1 ELSE issued
      BY <2>1, Zenon DEF SlavePort
    <3>2. /\ ends' = IF slave_CYC /\ ~i.cyc THEN Append(ends, issued) ELSE ends
          /\ replied' = IF slave_o_PUSH THEN Append(replied, sfifo.q) ELSE replied
          /\ slave_CYC' = i.cyc
      BY <2>1, Zenon DEF SlavePort
    <3>3. issued' = issued + B(Takes(i))
      BY <1>0, <2>2, <3>1 DEF B
    <3> QED BY <2>2, <3>2, <3>3, Zenon
  <2>4. slave_o_PUSH' = Gets(i) /\ Gets(i) \in BOOLEAN
    <3>1. slave_o_PUSH' = (slave_rst_n /\ sr_en(i.sstall))
      BY <2>1 DEF SlavePort
    <3>2. Gets(i) => slave_rst_n
      BY <1>0 DEF Gets, sr_en, CInv, ResetOK
    <3>3. (slave_rst_n /\ sr_en(i.sstall)) <=> Gets(i)
      BY <2>2, <3>2
    <3>4. Gets(i) \in BOOLEAN
      BY Zenon DEF Gets
    <3> QED BY <3>1, <3>3, <3>4
  <2>5. /\ ends' \in Seq(Nat) /\ Len(ends') = Len(ends) + B(Closes(i))
        /\ \A k \in 1 .. Len(ends) : ends'[k] = ends[k]
        /\ LastEnd' = IF Closes(i) THEN issued ELSE LastEnd
    <3>1. CASE Closes(i)
      <4>1. ends' = Append(ends, issued)
        BY <2>3, <3>1
      <4>2. /\ ends' \in Seq(Nat) /\ Len(ends') = Len(ends) + 1 /\ ends' # <<>>
            /\ ends'[Len(ends')] = issued
            /\ \A k \in 1 .. Len(ends) : ends'[k] = ends[k]
        <5> DEFINE e == Append(ends, issued)
        <5>1. e \in Seq(Nat) /\ Len(e) = Len(ends) + 1 /\ e[Len(ends) + 1] = issued
          BY <1>0
        <5>2. \A k \in 1 .. Len(ends) : e[k] = ends[k]
          BY <1>0
        <5>3. e # <<>>
          BY <1>0, <5>1
        <5>4. e[Len(e)] = issued
          BY <5>1, Zenon
        <5>5. ends' = e
          BY <4>1
        <5> HIDE DEF e
        <5> QED BY <5>1, <5>2, <5>3, <5>4, <5>5
      <4> QED BY <3>1, <4>2 DEF B, LastEnd
    <3>2. CASE ~Closes(i)
      BY <1>0, <2>3, <3>2 DEF B, LastEnd
    <3> QED BY <3>1, <3>2
  <2>6. Len(replied') = Len(replied) + B(Gives(i))
    BY <1>0, <2>3 DEF B
  <2>7. Got' = Got + B(Gets(i))
    <3>1. Got = Len(replied) + B(Gives(i)) /\ Got' = Len(replied') + B(Gets(i))
      BY <2>2, <2>4, BIs DEF Got
    <3> QED BY <2>6, <3>1
  <2>8. /\ Takes(i) => Waits < g_size /\ ~Closes(i)
    <3>1. Takes(i) => Waits # g_size
      BY <2>2, FullIs
    <3> QED BY <2>2, <3>1, SizeIs DEF CInv, CountOK
  <2>9. Takes(i) \/ (i.se /\ i.cyc) => slave_rst_n /\ Len(ends) < cycles
    BY <2>1, <2>2 DEF WBMaster
  <2>10. Closes(i) => slave_CYC /\ issued = Len(replied) /\ issued > LastEnd
    BY <2>1, <2>2 DEF WBMaster
  <2>11. Closes(i) => ~Gives(i)
    <3>1. Gives(i) => Got = Len(replied) + 1
      BY <2>2 DEF Got, B
    <3>2. Got <= issued
      BY Numbers
    <3> QED BY <1>0, <2>10, <3>1, <3>2
  <2> QED BY <1>0, <1>2, <2>3, <2>4, <2>5, <2>6, <2>7, <2>8, <2>9, <2>10, <2>11, Zenon
<1> QED BY <1>1, <1>2

LEMMA CountStep ==
  ASSUME Spaced, CInv, NEW i \in Inputs, Step(i)
  PROVE  CountOK'
<1> DEFINE t == B(Takes(i))
           v == B(Gives(i))
           N == 2 * g_size
<1>0. /\ t \in {0, 1} /\ v \in {0, 1} /\ issued \in Nat /\ Len(replied) \in Nat
      /\ g_size \in Nat /\ g_size >= 2
      /\ mpushed \in 0 .. N-1 /\ mpopped \in 0 .. N-1
      /\ Waits \in 0 .. g_size /\ Waits = issued - Len(replied)
      /\ mpopped = mpushed + g_size - Waits \/ mpopped = mpushed - g_size - Waits
  BY SizeIs, Numbers DEF B, CInv, CountOK, Counts, Waits
<1>1. /\ mpushed' = IF t = 1 THEN (mpushed + 1) % N ELSE mpushed
      /\ mpopped' = IF v = 1 THEN (mpopped + 1) % N ELSE mpopped
  <2>1. CASE ~i.se
    <3>1. mpushed' = mpushed /\ mpopped' = mpopped /\ ~Takes(i) /\ ~Gives(i)
      BY <2>1 DEF Step, Takes, Gives
    <3> QED BY <3>1 DEF B
  <2>2. CASE i.se
    <3>1. /\ mpushed' = IF ~full /\ i.cyc /\ i.stb THEN (mpushed + 1) % N ELSE mpushed
          /\ mpopped' = IF slave_o_PUSH THEN (mpopped + 1) % N ELSE mpopped
      BY <2>2, Zenon DEF Step, SlavePort, Counts
    <3>2. /\ Takes(i) <=> ~full /\ i.cyc /\ i.stb
          /\ Gives(i) <=> slave_o_PUSH
      BY <2>2, Zenon DEF Takes, Gives
    <3>3. (Takes(i) <=> t = 1) /\ (Gives(i) <=> v = 1)
      BY DEF B
    <3> HIDE DEF N, t, v
    <3> QED BY <3>1, <3>2, <3>3, Zenon
  <2> QED BY <2>1, <2>2, InputBits
<1>2. Waits' = Waits + t - v /\ (t = 1 => Waits < g_size) /\ (v = 1 => Waits > 0)
  <2>1. issued' = issued + t /\ Len(replied') = Len(replied) + v
    BY SlaveStep
  <2>2. Waits' = issued' - Len(replied')
    BY DEF Waits
  <2>3. t = 1 => Waits < g_size
    BY SlaveStep DEF B
  <2>4. v = 1 => Waits > 0
    <3>1. v = 1 => Got = Len(replied) + 1
      BY DEF B, Got, Gives
    <3>2. Got <= issued
      BY Numbers
    <3> QED BY <1>0, <3>1, <3>2
  <2> QED BY <1>0, <2>1, <2>2, <2>3, <2>4
<1>3. ASSUME NEW x \in 0 .. N-1
      PROVE  (x + 1) % N = IF x + 1 = N THEN 0 ELSE x + 1
  BY <1>0
<1>4. /\ mpushed' = IF t = 1 THEN (IF mpushed + 1 = N THEN 0 ELSE mpushed + 1) ELSE mpushed
      /\ mpopped' = IF v = 1 THEN (IF mpopped + 1 = N THEN 0 ELSE mpopped + 1) ELSE mpopped
  BY <1>0, <1>1, <1>3, Zenon
<1> HIDE DEF t, v
<1>5. /\ Waits' \in 0 .. g_size
      /\ mpushed' \in 0 .. N-1 /\ mpopped' \in 0 .. N-1
      /\ \/ mpopped' = mpushed' + g_size - Waits'
         \/ mpopped' = mpushed' - g_size - Waits'
  <2>0. mpushed \in Nat /\ mpopped \in Nat /\ Waits \in Nat /\ N \in Nat /\ N = 2 * g_size
        /\ mpushed < N /\ mpopped < N /\ Waits <= g_size
    BY <1>0
  <2> HIDE DEF N
  <2>1. CASE t = 0 /\ v = 0
    BY <1>0, <1>2, <1>4, <2>0, <2>1
  <2>2. CASE t = 1 /\ v = 0
    BY <1>0, <1>2, <1>4, <2>0, <2>2
  <2>3. CASE t = 0 /\ v = 1
    BY <1>0, <1>2, <1>4, <2>0, <2>3
  <2>4. CASE t = 1 /\ v = 1
    BY <1>0, <1>2, <1>4, <2>0, <2>4
  <2> QED BY <1>0, <2>1, <2>2, <2>3, <2>4
<1> QED BY <1>5 DEF CountOK, Counts

LEMMA EndsStep ==
  ASSUME Spaced, CInv, NEW i \in Inputs, Step(i)
  PROVE  EndsOK' /\ issued' \in Nat /\ cycles' = cycles
<1> DEFINE t == B(Takes(i))
           n == B(Closes(i))
           v == B(Gives(i))
           E == Len(ends)
           EE == Len(ends')
           R == Len(replied)
           RR == Len(replied')
<1>0. /\ t \in {0, 1} /\ v \in {0, 1} /\ n \in {0, 1} /\ (Closes(i) <=> n = 1)
      /\ i.se \in BOOLEAN /\ i.cyc \in BOOLEAN /\ slave_CYC \in BOOLEAN
  BY InputBits DEF B, CInv, TypeOK
<1>1. /\ issued \in Nat /\ E \in Nat /\ R \in Nat /\ LastEnd \in Nat /\ cycles \in Nat
      /\ LastEnd <= R
      /\ E > 0 => LastEnd > 0
  BY Numbers
<1>2. /\ LastEnd <= issued /\ E <= cycles
      /\ slave_CYC => E < cycles
  BY Zenon DEF CInv, EndsOK
<1>3. /\ issued' = issued + t /\ EE = E + n /\ RR = R + v /\ ends' \in Seq(Nat)
      /\ LastEnd' = IF Closes(i) THEN issued ELSE LastEnd
      /\ slave_CYC' = IF i.se THEN i.cyc ELSE slave_CYC
      /\ i.se /\ i.cyc => E < cycles
      /\ Closes(i) => slave_CYC /\ issued = R /\ issued > LastEnd
      /\ Closes(i) => i.se /\ ~i.cyc
  <2>1. Closes(i) => i.se /\ ~i.cyc
    BY DEF Closes
  <2> QED BY <2>1, SlaveStep
<1>4. cycles' = cycles
  BY DEF Step
<1>5. ends' # <<>> => EE > 0
  BY <1>3
<1> HIDE DEF t, n, v, E, EE, R, RR
<1>6. /\ LastEnd' <= RR /\ LastEnd' <= issued'
      /\ EE > 0 => LastEnd' > 0
      /\ EE <= cycles
      /\ slave_CYC' => EE < cycles
      /\ issued' \in Nat
  BY <1>0, <1>1, <1>2, <1>3
<1> QED BY <1>4, <1>5, <1>6 DEF EndsOK, EE, RR

(* ... what becomes of the two FIFOs ...                                   *)
LEMMA MfifoStep ==
  ASSUME Spaced, CInv, NEW i \in Inputs, Step(i)
  PROVE  /\ FifoOK(mfifo')
         /\ Len(mfifo'.queue) = Len(mfifo.queue) + (B(Takes(i)) + B(Closes(i))) - B(Fetches(i))
         /\ i.se => /\ mfifo'.freed0 <= B(Fetches(i))
                    /\ mfifo'.freed0 + mfifo'.freed1 = mfifo.freed0 + B(Fetches(i))
                    /\ mfifo'.full => Len(mfifo.queue) + mfifo.freed0 + mfifo.freed1
                                        + (B(Takes(i)) + B(Closes(i))) >= g_size
         /\ ~i.se => /\ mfifo'.freed0 = mfifo.freed0 + B(Fetches(i))
                     /\ mfifo'.freed1 = mfifo.freed1 /\ mfifo'.full = mfifo.full
         /\ i.me => mfifo'.fresh0 + mfifo'.fresh1 = mfifo.fresh0 + (B(Takes(i)) + B(Closes(i)))
         /\ ~i.me => /\ mfifo'.fresh0 = mfifo.fresh0 + (B(Takes(i)) + B(Closes(i)))
                     /\ mfifo'.fresh1 = mfifo.fresh1
         /\ Fetches(i) => mfifo.fresh0 + mfifo.fresh1 < Len(mfifo.queue)
         /\ ~master_rst_n => mfifo'.empty
         /\ mfifo'.q = IF Fetches(i) THEN mfifo.queue[1] ELSE mfifo.q
         /\ \A k \in 1 .. Len(mfifo'.queue) :
              mfifo'.queue[k] = IF k + B(Fetches(i)) <= Len(mfifo.queue)
                                THEN mfifo.queue[k + B(Fetches(i))] ELSE MWord(i)
<1> DEFINE w == MW(i)
           r == MR(i)
           we == we_int(mfifo, w)
           rd == rd_int(mfifo, r)
           tn == B(Takes(i)) + B(Closes(i))
           f == B(Fetches(i))
<1>1. /\ w \in Asked /\ r \in Asked /\ w.edge = i.se /\ r.edge = i.me
      /\ i.me => r.rst_n = master_rst_n
      /\ we <=> Takes(i) \/ Closes(i)
      /\ rd <=> Fetches(i)
  BY Bits
<1>2. mfifo' \in Edges(g_size, mfifo, w, MWord(i), r) /\ FifoOK(mfifo)
  BY DEF Step, CInv, TypeOK
<1>3. we => MWord(i) \in Nat
  BY <1>1, Numbers DEF MWord, msend, Takes, Closes
<1>4. B(we) = tn /\ tn \in {0, 1} /\ B(rd) = f /\ f \in {0, 1}
  <2>1. ~(Takes(i) /\ Closes(i))
    BY SlaveStep
  <2> HIDE DEF we, rd
  <2> QED BY <1>1, <2>1 DEF B
<1> HIDE DEF w, r
<1>5. FifoOK(mfifo') /\ Counted(g_size, mfifo, mfifo', w, r)
  BY <1>1, <1>2, <1>3, EdgesOnFifo, Zenon
<1>6. /\ mfifo'.q = IF rd THEN mfifo.queue[1] ELSE mfifo.q
      /\ \A k \in 1 .. Len(mfifo'.queue) :
           mfifo'.queue[k] = IF k + B(rd) <= Len(mfifo.queue)
                             THEN mfifo.queue[k + B(rd)] ELSE MWord(i)
  <2>1. Shifted(mfifo, mfifo', rd_int(mfifo, r), MWord(i))
    BY <1>1, <1>2, <1>3, EdgesWords, Zenon
  <2> QED BY <2>1, Zenon DEF Shifted
<1>7. /\ Len(mfifo'.queue) = Len(mfifo.queue) + B(we) - B(rd)
      /\ IF w.edge THEN /\ mfifo'.freed0 <= B(rd)
                        /\ mfifo'.freed0 + mfifo'.freed1 = mfifo.freed0 + B(rd)
                   ELSE mfifo'.freed0 = mfifo.freed0 + B(rd) /\ mfifo'.freed1 = mfifo.freed1
      /\ IF r.edge THEN mfifo'.fresh0 + mfifo'.fresh1 = mfifo.fresh0 + B(we)
                   ELSE mfifo'.fresh0 = mfifo.fresh0 + B(we) /\ mfifo'.fresh1 = mfifo.fresh1
      /\ w.edge => (mfifo'.full => \/ WriterSees(mfifo) = g_size
                                   \/ we /\ WriterSees(mfifo) + 1 = g_size)
      /\ ~w.edge => mfifo'.full = mfifo.full
      /\ r.edge /\ ~r.rst_n => mfifo'.empty
      /\ ~r.edge => mfifo'.empty = mfifo.empty
  BY <1>5, Zenon DEF Counted
<1>8. i.se /\ mfifo'.full
        => Len(mfifo.queue) + mfifo.freed0 + mfifo.freed1 + tn >= g_size
  <2> DEFINE L == Len(mfifo.queue)
  <2>1. /\ L \in Nat /\ mfifo.freed0 \in Nat /\ mfifo.freed1 \in Nat
        /\ we => ~mfifo.full
    BY <1>2, Numbers DEF FifoOK, we_int
  <2>2. WriterSees(mfifo) = L + mfifo.freed0 + mfifo.freed1
    BY DEF WriterSees
  <2>3. (we <=> tn = 1)
    BY <1>4 DEF B
  <2> HIDE DEF L, we, tn, rd
  <2> DEFINE ws == WriterSees(mfifo)
  <2>4. i.se /\ mfifo'.full => ws = g_size \/ (we /\ ws + 1 = g_size)
    BY <1>1, <1>7, Zenon
  <2>5. ws = L + mfifo.freed0 + mfifo.freed1
    BY <2>2, Zenon
  <2> HIDE DEF ws
  <2>7. i.se /\ mfifo'.full => ws + tn >= g_size
    BY <1>4, <2>1, <2>3, <2>4, <2>5, SizeIs
  <2> QED BY <2>5, <2>7, <2>1, <1>4 DEF L
<1>9. Fetches(i) => mfifo.fresh0 + mfifo.fresh1 < Len(mfifo.queue)
  BY <1>2 DEF FifoOK, Fetches, mr_en
<1>10. ~master_rst_n => mfifo'.empty
  BY <1>1, <1>7, Zenon DEF CInv, ResetOK
<1> HIDE DEF we, rd, tn, f
<1>11. /\ FifoOK(mfifo')
       /\ Len(mfifo'.queue) = Len(mfifo.queue) + tn - f
       /\ i.se => /\ mfifo'.freed0 <= f
                  /\ mfifo'.freed0 + mfifo'.freed1 = mfifo.freed0 + f
       /\ ~i.se => /\ mfifo'.freed0 = mfifo.freed0 + f
                   /\ mfifo'.freed1 = mfifo.freed1 /\ mfifo'.full = mfifo.full
       /\ i.me => mfifo'.fresh0 + mfifo'.fresh1 = mfifo.fresh0 + tn
       /\ ~i.me => /\ mfifo'.fresh0 = mfifo.fresh0 + tn
                   /\ mfifo'.fresh1 = mfifo.fresh1
       /\ mfifo'.q = IF Fetches(i) THEN mfifo.queue[1] ELSE mfifo.q
       /\ \A k \in 1 .. Len(mfifo'.queue) :
            mfifo'.queue[k] = IF k + f <= Len(mfifo.queue)
                              THEN mfifo.queue[k + f] ELSE MWord(i)
  BY <1>1, <1>4, <1>5, <1>6, <1>7, Zenon
<1> QED BY <1>8, <1>9, <1>10, <1>11, Zenon DEF tn, f

LEMMA SfifoStep ==
  ASSUME Spaced, CInv, NEW i \in Inputs, Step(i)
  PROVE  /\ FifoOK(sfifo')
         /\ Len(sfifo'.queue) = Len(sfifo.queue) + B(Answers(i)) - B(Gets(i))
         /\ i.me => /\ sfifo'.freed0 <= B(Gets(i))
                    /\ sfifo'.freed0 + sfifo'.freed1 = sfifo.freed0 + B(Gets(i))
                    /\ sfifo'.full => Len(sfifo.queue) + sfifo.freed0 + sfifo.freed1
                                        + B(Answers(i)) >= g_size
         /\ ~i.me => /\ sfifo'.freed0 = sfifo.freed0 + B(Gets(i))
                     /\ sfifo'.freed1 = sfifo.freed1 /\ sfifo'.full = sfifo.full
         /\ i.se => sfifo'.fresh0 + sfifo'.fresh1 = sfifo.fresh0 + B(Answers(i))
         /\ ~i.se => /\ sfifo'.fresh0 = sfifo.fresh0 + B(Answers(i))
                     /\ sfifo'.fresh1 = sfifo.fresh1
         /\ Gets(i) => sfifo.fresh0 + sfifo.fresh1 < Len(sfifo.queue)
         /\ ~slave_rst_n => sfifo'.empty
         /\ sfifo'.q = IF Gets(i) THEN sfifo.queue[1] ELSE sfifo.q
         /\ \A k \in 1 .. Len(sfifo'.queue) :
              sfifo'.queue[k] = IF k + B(Gets(i)) <= Len(sfifo.queue)
                                THEN sfifo.queue[k + B(Gets(i))] ELSE answered + 1
<1> DEFINE w == SW(i)
           r == SR(i)
           we == we_int(sfifo, w)
           rd == rd_int(sfifo, r)
           a == B(Answers(i))
           b == B(Gets(i))
<1>1. /\ w \in Asked /\ r \in Asked /\ w.edge = i.me /\ r.edge = i.se
      /\ i.se => r.rst_n = slave_rst_n
      /\ we <=> Answers(i)
      /\ rd <=> Gets(i)
  BY Bits
<1>2. sfifo' \in Edges(g_size, sfifo, w, SWord(i), r) /\ FifoOK(sfifo)
  BY DEF Step, CInv, TypeOK
<1>3. we => SWord(i) = answered + 1
  <2> SUFFICES ASSUME we PROVE SWord(i) = answered + 1
    OBVIOUS
  <2>1. i.me /\ i.ack /\ Answers(i)
    BY <1>1 DEF Answers
  <2>2. SWord(i) = Taken(i.stall)[answered + 1]
    BY <2>1 DEF SWord, ssend
  <2>3. /\ Taken(i.stall) = IF Accepted(i) THEN Append(accepted, mfifo.q) ELSE accepted
        /\ answered < Len(accepted) + B(Accepted(i))
        /\ accepted \in Seq(Nat) /\ mfifo.q \in Nat /\ answered \in Nat /\ Run(accepted, 0)
    BY <2>1, AnswersAsked DEF Taken, Accepted, CInv, TypeOK, FifoOK, AcceptedOK
  <2>4. Accepted(i) => mfifo.q = Len(accepted) + 1
    BY AnswersAsked, Numbers DEF CInv, AcceptedOK, RequestsOK, mrecv_CYC, B
  <2>5. CASE Accepted(i)
    <3> DEFINE e == Append(accepted, mfifo.q)
    <3>1. /\ Len(e) = Len(accepted) + 1 /\ e[Len(accepted) + 1] = Len(accepted) + 1
          /\ \A k \in 1 .. Len(accepted) : e[k] = k
      <4>1. \A k \in 1 .. Len(accepted) : accepted[k] = k
        BY <2>3 DEF Run
      <4> QED BY <2>3, <2>4, <2>5, <4>1
    <3>2. answered < Len(accepted) + 1 /\ Len(accepted) \in Nat
      BY <2>3, <2>5 DEF B
    <3>3. Taken(i.stall) = e
      BY <2>3, <2>5
    <3> HIDE DEF e
    <3>4. e[answered + 1] = answered + 1
      BY <2>3, <3>1, <3>2
    <3> QED BY <2>2, <3>3, <3>4
  <2>6. CASE ~Accepted(i)
    BY <2>2, <2>3, <2>6 DEF B, Run
  <2> QED BY <2>5, <2>6
<1>4. B(we) = a /\ a \in {0, 1} /\ B(rd) = b /\ b \in {0, 1}
  <2> HIDE DEF we, rd
  <2> QED BY <1>1 DEF B
<1>n. answered \in Nat
  BY Numbers
<1> HIDE DEF w, r
<1>5. FifoOK(sfifo') /\ Counted(g_size, sfifo, sfifo', w, r)
  <2>1. we => SWord(i) \in Nat
    BY <1>3, <1>n
  <2> QED BY <1>1, <1>2, <2>1, EdgesOnFifo, Zenon
<1>6. /\ sfifo'.q = IF rd THEN sfifo.queue[1] ELSE sfifo.q
      /\ \A k \in 1 .. Len(sfifo'.queue) :
           sfifo'.queue[k] = IF k + B(rd) <= Len(sfifo.queue)
                             THEN sfifo.queue[k + B(rd)] ELSE SWord(i)
  <2>1. we => SWord(i) \in Nat
    BY <1>3, <1>n
  <2>2. Shifted(sfifo, sfifo', rd_int(sfifo, r), SWord(i))
    BY <1>1, <1>2, <2>1, EdgesWords, Zenon
  <2> QED BY <2>2, Zenon DEF Shifted
<1>7. /\ Len(sfifo'.queue) = Len(sfifo.queue) + B(we) - B(rd)
      /\ IF w.edge THEN /\ sfifo'.freed0 <= B(rd)
                        /\ sfifo'.freed0 + sfifo'.freed1 = sfifo.freed0 + B(rd)
                   ELSE sfifo'.freed0 = sfifo.freed0 + B(rd) /\ sfifo'.freed1 = sfifo.freed1
      /\ IF r.edge THEN sfifo'.fresh0 + sfifo'.fresh1 = sfifo.fresh0 + B(we)
                   ELSE sfifo'.fresh0 = sfifo.fresh0 + B(we) /\ sfifo'.fresh1 = sfifo.fresh1
      /\ w.edge => (sfifo'.full => \/ WriterSees(sfifo) = g_size
                                   \/ we /\ WriterSees(sfifo) + 1 = g_size)
      /\ ~w.edge => sfifo'.full = sfifo.full
      /\ r.edge /\ ~r.rst_n => sfifo'.empty
      /\ ~r.edge => sfifo'.empty = sfifo.empty
  BY <1>5, Zenon DEF Counted
<1>8. i.me /\ sfifo'.full
        => Len(sfifo.queue) + sfifo.freed0 + sfifo.freed1 + a >= g_size
  <2> DEFINE L == Len(sfifo.queue)
             ws == WriterSees(sfifo)
  <2>1. L \in Nat /\ sfifo.freed0 \in Nat /\ sfifo.freed1 \in Nat
    BY <1>2, Numbers DEF FifoOK
  <2>2. ws = L + sfifo.freed0 + sfifo.freed1
    BY DEF WriterSees
  <2>3. we => a = 1
    BY <1>4 DEF B
  <2> HIDE DEF L, we, a, rd
  <2>4. i.me /\ sfifo'.full => ws = g_size \/ (we /\ ws + 1 = g_size)
    BY <1>1, <1>7, Zenon
  <2> HIDE DEF ws
  <2>5. i.me /\ sfifo'.full => ws + a >= g_size
    BY <1>4, <2>1, <2>2, <2>3, <2>4, SizeIs
  <2> QED BY <1>4, <2>1, <2>2, <2>5 DEF L
<1>9. Gets(i) => sfifo.fresh0 + sfifo.fresh1 < Len(sfifo.queue)
  BY <1>2 DEF FifoOK, Gets, sr_en
<1>10. ~slave_rst_n => sfifo'.empty
  BY <1>1, <1>7, Zenon DEF CInv, ResetOK
<1>11. \A k \in 1 .. Len(sfifo'.queue) :
         sfifo'.queue[k] = IF k + b <= Len(sfifo.queue)
                           THEN sfifo.queue[k + b] ELSE answered + 1
  <2> SUFFICES ASSUME NEW k \in 1 .. Len(sfifo'.queue)
               PROVE  sfifo'.queue[k] = IF k + b <= Len(sfifo.queue)
                                        THEN sfifo.queue[k + b] ELSE answered + 1
    BY Zenon
  <2>1. sfifo'.queue[k] = IF k + b <= Len(sfifo.queue) THEN sfifo.queue[k + b] ELSE SWord(i)
    BY <1>4, <1>6, Zenon
  <2>2. ~(k + b <= Len(sfifo.queue)) => we
    <3> DEFINE L == Len(sfifo.queue)
               LL == Len(sfifo'.queue)
    <3>1. LL = L + a - b /\ L \in Nat /\ k \in 1 .. LL
      BY <1>4, <1>7, Numbers
    <3>2. ~we => a = 0
      BY <1>4 DEF B
    <3> HIDE DEF L, LL, we, rd, a, b
    <3>3. ~(k + b <= L) => we
      BY <1>4, <3>1, <3>2
    <3> QED BY <3>3 DEF L
  <2> HIDE DEF we, rd, b
  <2> QED BY <1>3, <2>1, <2>2, Zenon
<1> HIDE DEF we, rd, a, b
<1>12. /\ FifoOK(sfifo')
       /\ Len(sfifo'.queue) = Len(sfifo.queue) + a - b
       /\ i.me => /\ sfifo'.freed0 <= b
                  /\ sfifo'.freed0 + sfifo'.freed1 = sfifo.freed0 + b
       /\ ~i.me => /\ sfifo'.freed0 = sfifo.freed0 + b
                   /\ sfifo'.freed1 = sfifo.freed1 /\ sfifo'.full = sfifo.full
       /\ i.se => sfifo'.fresh0 + sfifo'.fresh1 = sfifo.fresh0 + a
       /\ ~i.se => /\ sfifo'.fresh0 = sfifo.fresh0 + a
                   /\ sfifo'.fresh1 = sfifo.fresh1
       /\ sfifo'.q = IF Gets(i) THEN sfifo.queue[1] ELSE sfifo.q
  BY <1>1, <1>4, <1>5, <1>6, <1>7, Zenon
<1> QED BY <1>8, <1>9, <1>10, <1>11, <1>12, Zenon DEF a, b

(* ... and the master port.                                                *)
LEMMA MasterStep ==
  ASSUME Spaced, CInv, NEW i \in Inputs, Step(i)
  PROVE  /\ accepted' \in Seq(Nat) /\ Run(accepted', 0)
         /\ Len(accepted') = Len(accepted) + B(Accepted(i))
         /\ answered' = answered + B(Answers(i))
         /\ answered' <= Len(accepted')
         /\ gaps' = IF i.me /\ mrecv_CYC /\ mfifo'.q = 0
                    THEN Append(gaps, Len(accepted')) ELSE gaps
         /\ master_o_STB' \in BOOLEAN
         /\ i.me => (master_o_STB' <=> \/ Fetches(i)
                                       \/ mrecv_CYC /\ master_o_STB /\ i.stall)
         /\ ~i.me => master_o_STB' = master_o_STB
         /\ Accepted(i) <=> i.me /\ mrecv_CYC /\ master_o_STB /\ ~i.stall
         /\ Fetches(i) => ~(mrecv_CYC /\ master_o_STB /\ i.stall)
<1>1. /\ accepted \in Seq(Nat) /\ mfifo.q \in Nat /\ answered \in Nat /\ Run(accepted, 0)
      /\ master_o_STB \in BOOLEAN /\ master_rst_n \in BOOLEAN
      /\ i.me \in BOOLEAN /\ i.stall \in BOOLEAN /\ i.ack \in BOOLEAN
      /\ ~master_rst_n => mfifo.empty /\ ~master_o_STB
  BY InputBits, Numbers DEF CInv, TypeOK, FifoOK, AcceptedOK, ResetOK
<1>2. Accepted(i) <=> i.me /\ mrecv_CYC /\ master_o_STB /\ ~i.stall
  BY DEF Accepted, Accepts
<1>3. Fetches(i) => ~(mrecv_CYC /\ master_o_STB /\ i.stall) /\ i.me
  BY DEF Fetches, mr_en
<1>4. Accepted(i) => mfifo.q = Len(accepted) + 1
  BY AnswersAsked, Numbers DEF CInv, AcceptedOK, RequestsOK, mrecv_CYC, B
<1>5. accepted' = IF Accepted(i) THEN Append(accepted, mfifo.q) ELSE accepted
  <2>1. i.me => accepted' = Taken(i.stall)
    BY DEF Step, MasterPort
  <2>2. ~i.me => accepted' = accepted
    BY DEF Step
  <2> QED BY <1>1, <2>1, <2>2 DEF Taken, Accepted
<1>6. /\ accepted' \in Seq(Nat) /\ Run(accepted', 0)
      /\ Len(accepted') = Len(accepted) + B(Accepted(i))
  <2>1. CASE Accepted(i)
    <3>1. Append(accepted, mfifo.q) = Append(accepted, 0 + Len(accepted) + 1)
      BY <1>1, <1>4, <2>1
    <3>2. Run(Append(accepted, mfifo.q), 0)
      BY <1>1, <3>1, RunAppend
    <3>3. accepted' = Append(accepted, mfifo.q)
      BY <1>5, <2>1
    <3>4. Run(accepted', 0)
      BY <3>2, <3>3
    <3> QED BY <1>1, <2>1, <3>3, <3>4 DEF B
  <2>2. CASE ~Accepted(i)
    BY <1>1, <1>5, <2>2 DEF B
  <2> QED BY <2>1, <2>2
<1>7. answered' = answered + B(Answers(i))
  <2>1. CASE i.me
    <3>1. answered' = IF i.ack THEN answered + 1 ELSE answered
      BY <2>1 DEF Step, MasterPort
    <3> QED BY <1>1, <2>1, <3>1 DEF Answers, B
  <2>2. CASE ~i.me
    BY <1>1, <2>2 DEF Step, Answers, B
  <2> QED BY <2>1, <2>2
<1>8. answered' <= Len(accepted')
  <2>1. /\ answered <= Len(accepted) /\ Len(accepted) \in Nat
        /\ Answers(i) => answered < Len(accepted) + B(Accepted(i))
        /\ B(Accepted(i)) \in {0, 1}
    BY Numbers, AnswersAsked DEF B
  <2> QED BY <1>1, <1>6, <1>7, <2>1 DEF B
<1>9. gaps' = IF i.me /\ mrecv_CYC /\ mfifo'.q = 0 THEN Append(gaps, Len(accepted')) ELSE gaps
  <2>1. CASE i.me
    <3>1. /\ gaps' = IF mrecv_CYC /\ mfifo'.q = 0 THEN Append(gaps, Len(Taken(i.stall))) ELSE gaps
          /\ accepted' = Taken(i.stall)
      BY <2>1 DEF Step, MasterPort
    <3> QED BY <2>1, <3>1, Zenon
  <2>2. CASE ~i.me
    BY <2>2 DEF Step
  <2> QED BY <2>1, <2>2
<1>10. /\ master_o_STB' \in BOOLEAN
       /\ i.me => (master_o_STB' <=> \/ Fetches(i)
                                     \/ mrecv_CYC /\ master_o_STB /\ i.stall)
       /\ ~i.me => master_o_STB' = master_o_STB
  <2>1. CASE i.me
    <3>1. master_o_STB' = (master_rst_n /\ NextSTB(i.stall))
      BY <2>1, Zenon DEF Step, MasterPort
    <3>2. NextSTB(i.stall) <=> Fetches(i) \/ (mrecv_CYC /\ master_o_STB /\ i.stall)
      BY <2>1 DEF NextSTB, Fetches
    <3>3. Fetches(i) => ~mfifo.empty
      BY DEF Fetches, mr_en
    <3> QED BY <1>1, <2>1, <3>1, <3>2, <3>3
  <2>2. CASE ~i.me
    BY <1>1, <2>2 DEF Step
  <2> QED BY <2>1, <2>2
<1> QED BY <1>2, <1>3, <1>6, <1>7, <1>8, <1>9, <1>10, Zenon

(* Where the words of mfifo are after the step. *)
LEMMA Moves ==
  ASSUME Spaced, CInv, NEW i \in Inputs, Step(i)
  PROVE  /\ Popped' = Popped + B(Fetches(i))
         /\ Mark' = IF Closes(i) THEN issued + Len(ends) + 1 ELSE Mark
         /\ Fetched' = IF Fetches(i) /\ Popped >= Mark THEN Fetched + 1 ELSE Fetched
         /\ Fetches(i) => Fetched' <= issued - (mfifo.fresh0 + mfifo.fresh1)
         /\ Fetches(i) \/ Gets(i) \/ Takes(i) \/ Answers(i) => ~Closes(i)
         /\ Closes(i) => /\ Len(mfifo.queue) = 0 /\ Popped = issued + Len(ends)
                         /\ Fetched = issued /\ answered = issued /\ Got = issued
                         /\ Popped > Mark
<1> DEFINE t == B(Takes(i))
           n == B(Closes(i))
           f == B(Fetches(i))
           E == Len(ends)
           EE == Len(ends')
           L == Len(mfifo.queue)
           LL == Len(mfifo'.queue)
           K == Len(sfifo.queue)
           R == Len(replied)
           x == mfifo.fresh0 + mfifo.fresh1
           y == sfifo.fresh0 + sfifo.fresh1
<1>1. /\ issued \in Nat /\ answered \in Nat /\ E \in Nat /\ LastEnd \in Nat /\ R \in Nat
      /\ L \in Nat /\ K \in Nat
      /\ Mark = LastEnd + E
      /\ Popped \in Nat /\ Popped + L = issued + E /\ Popped + 1 >= Mark
      /\ Fetched \in Nat
      /\ Popped < Mark => Fetched = LastEnd
      /\ Popped >= Mark => Fetched + E = Popped
      /\ Got \in Nat /\ Got + K = answered
      /\ R <= Got /\ LastEnd <= R
      /\ answered <= Fetched /\ Fetched <= issued
  BY Numbers
<1>2. /\ issued' = issued + t /\ EE = E + n
      /\ LastEnd' = IF Closes(i) THEN issued ELSE LastEnd
      /\ Takes(i) => ~Closes(i)
      /\ Closes(i) => issued = R /\ issued > LastEnd
  BY SlaveStep
<1>3. /\ LL = L + (t + n) - f
      /\ Fetches(i) => x < L
  BY MfifoStep
<1>4. /\ Gets(i) => y < K
  BY SfifoStep
<1>5. Answers(i) => answered < Fetched
  BY AnswersAsked
<1>6. /\ Popped' = issued' + EE - LL
      /\ Mark' = LastEnd' + EE
      /\ Fetched' = IF Popped' < Mark' THEN LastEnd' ELSE Popped' - EE
  BY Zenon DEF Popped, Mark, Fetched
<1>7. /\ t \in {0, 1} /\ n \in {0, 1} /\ f \in {0, 1}
      /\ (Takes(i) <=> t = 1) /\ (Closes(i) <=> n = 1) /\ (Fetches(i) <=> f = 1)
  BY DEF B
<1>8. x \in Nat /\ y \in Nat
  <2>1. /\ mfifo.fresh0 \in Nat /\ mfifo.fresh1 \in Nat
        /\ sfifo.fresh0 \in Nat /\ sfifo.fresh1 \in Nat
    BY DEF CInv, TypeOK, FifoOK
  <2> QED BY <2>1
<1> HIDE DEF t, n, f, E, EE, L, LL, K, R, x, y
<1>9. Closes(i) => /\ L = 0 /\ K = 0 /\ Popped = issued + E /\ Fetched = issued
                   /\ answered = issued /\ Got = issued /\ Popped > Mark
  BY <1>1, <1>2
<1>10. Fetches(i) \/ Gets(i) \/ Takes(i) \/ Answers(i) => ~Closes(i)
  BY <1>1, <1>2, <1>3, <1>4, <1>5, <1>8, <1>9
<1>11. Popped' = Popped + f /\ Mark' = IF Closes(i) THEN issued + E + 1 ELSE Mark
  BY <1>1, <1>2, <1>3, <1>6, <1>7
<1>12. Fetched' = IF Fetches(i) /\ Popped >= Mark THEN Fetched + 1 ELSE Fetched
  <2>1. CASE Closes(i)
    BY <1>1, <1>2, <1>6, <1>7, <1>9, <1>10, <1>11, <2>1
  <2>2. CASE ~Closes(i)
    <3>1. Mark' = Mark /\ EE = E /\ LastEnd' = LastEnd
      BY <1>1, <1>2, <1>7, <1>11, <2>2
    <3> QED BY <1>1, <1>6, <1>7, <1>11, <3>1
  <2> QED BY <2>1, <2>2
<1>13. Fetches(i) => Fetched' <= issued - x
  <2> SUFFICES ASSUME Fetches(i) PROVE Fetched' <= issued - x
    OBVIOUS
  <2>1. Popped + 1 <= issued + E - x
    BY <1>1, <1>3, <1>8
  <2>2. CASE Popped >= Mark
    BY <1>1, <1>8, <1>12, <2>1, <2>2
  <2>3. CASE Popped < Mark
    BY <1>1, <1>8, <1>12, <2>1, <2>3
  <2> QED BY <1>1, <2>2, <2>3
<1> QED BY <1>9, <1>10, <1>11, <1>12, <1>13, Zenon DEF f, E, L, x

(* Each part of the invariant after the step.                              *)
LEMMA RequestsStep ==
  ASSUME Spaced, CInv, NEW i \in Inputs, Step(i)
  PROVE  RequestsOK'
<1> DEFINE t == B(Takes(i))
           n == B(Closes(i))
           f == B(Fetches(i))
           E == Len(ends)
           EE == Len(ends')
           L == Len(mfifo.queue)
           LL == Len(mfifo'.queue)
<1>1. /\ issued \in Nat /\ E \in Nat /\ LastEnd \in Nat /\ L \in Nat
      /\ Mark = LastEnd + E
      /\ Popped \in Nat /\ Popped + L = issued + E /\ Popped + 1 >= Mark
      /\ Fetched \in Nat
      /\ Popped < Mark => Fetched = LastEnd
      /\ Popped >= Mark => Fetched + E = Popped
      /\ Fetched <= issued
  BY Numbers
<1>2. /\ Popped' = Popped + f
      /\ Mark' = IF Closes(i) THEN issued + E + 1 ELSE Mark
      /\ Fetched' = IF Fetches(i) /\ Popped >= Mark THEN Fetched + 1 ELSE Fetched
      /\ Fetches(i) => ~Closes(i)
      /\ Takes(i) => ~Closes(i)
      /\ Closes(i) => L = 0 /\ Popped = issued + E /\ Fetched = issued /\ Popped > Mark
  BY Moves
<1>3. /\ EE = E + n
      /\ LastEnd' = IF Closes(i) THEN issued ELSE LastEnd
      /\ LastEnd <= issued
  BY SlaveStep, Zenon DEF CInv, EndsOK
<1>4. /\ LL = L + (t + n) - f
      /\ Fetches(i) => mfifo.fresh0 + mfifo.fresh1 < L
      /\ mfifo'.q = IF Fetches(i) THEN mfifo.queue[1] ELSE mfifo.q
      /\ \A k \in 1 .. LL :
           mfifo'.queue[k] = IF k + f <= L THEN mfifo.queue[k + f] ELSE MWord(i)
  BY MfifoStep
<1>5. /\ \A k \in 1 .. L : mfifo.queue[k] = WordAt(Popped + k)
      /\ mfifo.q = IF Popped = Mark THEN 0 ELSE Fetched
  BY Zenon DEF CInv, RequestsOK
<1>6. /\ t \in {0, 1} /\ n \in {0, 1} /\ f \in {0, 1}
      /\ (Takes(i) <=> t = 1) /\ (Closes(i) <=> n = 1) /\ (Fetches(i) <=> f = 1)
  BY DEF B
<1>7. mfifo.fresh0 \in Nat /\ mfifo.fresh1 \in Nat
  BY DEF CInv, TypeOK, FifoOK
<1>8. /\ Takes(i) => MWord(i) = issued + 1
      /\ Closes(i) => MWord(i) = 0
  BY DEF Takes, Closes, MWord, msend
<1> HIDE DEF t, n, f, E, EE, L, LL
<1>11. Popped' >= 0 /\ Popped' + 1 >= Mark'
  BY <1>1, <1>2, <1>6
<1>12. \A k \in 1 .. LL : mfifo'.queue[k] = IF Popped' + k = Mark' THEN 0 ELSE (Popped' + k) - EE
  <2> DEFINE x(k) == mfifo'.queue[k]
  <2> HIDE DEF x
  <2> SUFFICES ASSUME NEW k \in 1 .. LL
               PROVE  x(k) = IF Popped' + k = Mark' THEN 0 ELSE (Popped' + k) - EE
    BY Zenon DEF x
  <2>1. x(k) = IF k + f <= L THEN mfifo.queue[k + f] ELSE MWord(i)
    BY <1>4, Zenon DEF x
  <2>2. CASE k + f <= L
    <3>1. k + f \in 1 .. L /\ ~Closes(i)
      BY <1>1, <1>2, <1>6, <2>2
    <3>2. x(k) = WordAt(Popped + (k + f))
      BY <1>5, <2>1, <2>2, <3>1, Zenon
    <3>3. x(k) = IF Popped + (k + f) = Mark THEN 0 ELSE (Popped + (k + f)) - E
      BY <3>2, Zenon DEF WordAt, E
    <3> QED BY <1>1, <1>2, <1>3, <1>6, <3>1, <3>3
  <2>3. CASE ~(k + f <= L)
    <3>1. x(k) = MWord(i) /\ t + n >= 1 /\ k + f = L + 1
      BY <1>1, <1>2, <1>4, <1>6, <2>1, <2>3
    <3>2. CASE Takes(i)
      <4>1. x(k) = issued + 1 /\ Mark' = Mark /\ EE = E /\ Popped' + k = issued + E + 1
        BY <1>1, <1>2, <1>3, <1>6, <1>8, <3>1, <3>2
      <4>2. Popped' + k # Mark' /\ (Popped' + k) - EE = issued + 1
        <5>1. EE \in Nat /\ Popped' + k = issued + EE + 1 /\ Mark' = LastEnd + EE
          BY <1>1, <4>1
        <5> QED BY <1>1, <1>3, <5>1
      <4> QED BY <4>1, <4>2
    <3>3. CASE Closes(i)
      <4>1. x(k) = 0 /\ Popped' + k = Mark'
        BY <1>1, <1>2, <1>6, <1>8, <3>1, <3>3
      <4> QED BY <4>1
    <3> QED BY <1>6, <3>1, <3>2, <3>3
  <2> QED BY <2>2, <2>3
<1>13. mfifo'.q = IF Popped' = Mark' THEN 0 ELSE Fetched'
  <2>1. CASE Fetches(i)
    <3>1. 1 \in 1 .. L
      BY <1>1, <1>4, <1>7, <2>1
    <3>2. mfifo'.q = IF Popped + 1 = Mark THEN 0 ELSE (Popped + 1) - E
      BY <1>4, <1>5, <2>1, <3>1, Zenon DEF WordAt, E
    <3> QED BY <1>1, <1>2, <1>6, <2>1, <3>2
  <2>2. CASE ~Fetches(i)
    <3>1. mfifo'.q = IF Popped = Mark THEN 0 ELSE Fetched
      BY <1>4, <1>5, <2>2, Zenon
    <3> QED BY <1>1, <1>2, <1>6, <2>2, <3>1
  <2> QED BY <2>1, <2>2
<1> QED BY <1>11, <1>12, <1>13 DEF RequestsOK, WordAt, EE, LL

LEMMA AcceptedStep ==
  ASSUME Spaced, CInv, NEW i \in Inputs, Step(i)
  PROVE  AcceptedOK' /\ (Fetches(i) => Len(accepted') = Fetched)
<1> DEFINE a == B(Accepted(i))
           C == Len(accepted)
           CC == Len(accepted')
           E == Len(ends)
           up == mrecv_CYC /\ master_o_STB
<1>1. /\ Run(accepted', 0) /\ answered' <= CC /\ CC = C + a
      /\ i.me => (master_o_STB' <=> Fetches(i) \/ (up /\ i.stall))
      /\ ~i.me => master_o_STB' = master_o_STB
      /\ Accepted(i) <=> i.me /\ up /\ ~i.stall
      /\ Fetches(i) => ~(up /\ i.stall)
      /\ master_o_STB' \in BOOLEAN
  BY MasterStep
<1>2. /\ C \in Nat /\ Fetched \in Nat /\ Popped \in Nat /\ E \in Nat /\ LastEnd \in Nat
      /\ Mark = LastEnd + E /\ Popped + 1 >= Mark
      /\ Popped < Mark => Fetched = LastEnd
      /\ Popped >= Mark => Fetched + E = Popped
      /\ E = 0 => LastEnd = 0
      /\ E > 0 => LastEnd > 0
  BY Numbers
<1>3. /\ Popped' = Popped + B(Fetches(i))
      /\ Mark' = IF Closes(i) THEN issued + E + 1 ELSE Mark
      /\ Fetched' = IF Fetches(i) /\ Popped >= Mark THEN Fetched + 1 ELSE Fetched
      /\ Fetches(i) => ~Closes(i)
  BY Moves
<1>4. C + B(up) = Fetched
  BY DEF CInv, AcceptedOK
<1>5. (mrecv_CYC <=> mfifo.q # 0) /\ (mrecv_CYC' <=> mfifo'.q # 0)
  BY DEF mrecv_CYC
<1>6. mfifo'.q = IF Popped' = Mark' THEN 0 ELSE Fetched'
  BY RequestsStep, Zenon DEF RequestsOK
<1>7. ~Fetches(i) => mfifo'.q = mfifo.q
  BY MfifoStep
<1>8. Fetches(i) => i.me
  BY DEF Fetches
<1>9. i.me \in BOOLEAN /\ i.stall \in BOOLEAN /\ up \in BOOLEAN /\ master_o_STB \in BOOLEAN
  BY InputBits DEF CInv, TypeOK
<1>10. Fetches(i) => CC = Fetched
  <2>1. Fetches(i) => a = B(up)
    BY <1>1, <1>8, <1>9 DEF B
  <2> HIDE DEF a, up
  <2> QED BY <1>1, <1>4, <2>1
<1>11. CC + B(mrecv_CYC' /\ master_o_STB') = Fetched'
  <2>1. CASE Fetches(i)
    <3>1. master_o_STB' /\ CC = Fetched /\ Mark' = Mark /\ Popped' = Popped + 1
      BY <1>1, <1>2, <1>3, <1>8, <1>10, <2>1 DEF B
    <3>2. mrecv_CYC' <=> Popped >= Mark
      <4>1. Popped >= Mark => Fetched' = Fetched + 1 /\ Popped' # Mark'
        <5>1. Popped >= Mark => Fetched' = Fetched + 1
          BY <1>3, <2>1, Zenon
        <5>2. Popped \in Nat /\ Mark \in Nat
          BY <1>2
        <5> HIDE DEF E, CC
        <5>3. Popped >= Mark => Popped' # Mark'
          BY <3>1, <5>2
        <5> QED BY <5>1, <5>3
      <4>2. ~(Popped >= Mark) => Popped' = Mark'
        BY <1>2, <3>1
      <4>3. Popped >= Mark => mfifo'.q = Fetched + 1
        BY <1>6, <4>1, Zenon
      <4>4. ~(Popped >= Mark) => mfifo'.q = 0
        BY <1>6, <4>2, Zenon
      <4> QED BY <1>2, <1>5, <4>3, <4>4
    <3>3. Fetched' = IF Popped >= Mark THEN Fetched + 1 ELSE Fetched
      BY <1>3, <2>1
    <3>4. B(mrecv_CYC' /\ master_o_STB') = IF Popped >= Mark THEN 1 ELSE 0
      BY <3>1, <3>2, Zenon DEF B
    <3> HIDE DEF CC
    <3> QED BY <1>2, <3>1, <3>3, <3>4
  <2>2. CASE ~Fetches(i)
    <3>1. Fetched' = Fetched /\ (mrecv_CYC' <=> mrecv_CYC)
      BY <1>3, <1>5, <1>7, <2>2
    <3>2. a + B(mrecv_CYC' /\ master_o_STB') = B(up)
      <4>1. CASE i.me
        <5>1. (mrecv_CYC' /\ master_o_STB') <=> (up /\ i.stall)
          BY <1>1, <2>2, <3>1, <4>1
        <5> QED BY <1>1, <1>9, <4>1, <5>1 DEF B
      <4>2. CASE ~i.me
        <5>1. (mrecv_CYC' /\ master_o_STB') <=> up
          BY <1>1, <3>1, <4>2
        <5> QED BY <1>1, <1>9, <4>2, <5>1 DEF B
      <4> QED BY <1>9, <4>1, <4>2
    <3>3. a \in Nat /\ B(mrecv_CYC' /\ master_o_STB') \in Nat /\ B(up) \in Nat
      BY DEF B
    <3> HIDE DEF a, up, C, CC
    <3> QED BY <1>1, <1>2, <1>4, <3>1, <3>2, <3>3
  <2> QED BY <2>1, <2>2
<1> QED BY <1>1, <1>10, <1>11, Zenon DEF AcceptedOK, CC

LEMMA RepliedStep ==
  ASSUME Spaced, CInv, NEW i \in Inputs, Step(i)
  PROVE  RepliedOK' /\ replied' \in Seq(Nat)
<1> DEFINE a == B(Answers(i))
           b == B(Gets(i))
           K == Len(sfifo.queue)
           KK == Len(sfifo'.queue)
<1>1. /\ replied' = IF Gives(i) THEN Append(replied, sfifo.q) ELSE replied
      /\ Got' = Got + b
      /\ slave_o_PUSH' = IF i.se THEN Gets(i) ELSE slave_o_PUSH
  BY SlaveStep
<1>2. /\ KK = K + a - b
      /\ sfifo'.q = IF Gets(i) THEN sfifo.queue[1] ELSE sfifo.q
      /\ \A k \in 1 .. KK :
           sfifo'.queue[k] = IF k + b <= K THEN sfifo.queue[k + b] ELSE answered + 1
      /\ Gets(i) => sfifo.fresh0 + sfifo.fresh1 < K
  BY SfifoStep
<1>3. answered' = answered + a
  BY MasterStep
<1>4. /\ Got \in Nat /\ K \in Nat /\ answered \in Nat /\ Got + K = answered
      /\ replied \in Seq(Nat) /\ sfifo.q \in Nat /\ sfifo.fresh0 \in Nat /\ sfifo.fresh1 \in Nat
  BY Numbers DEF CInv, TypeOK, FifoOK
<1>5. /\ Run(replied, 0)
      /\ \A k \in 1 .. K : sfifo.queue[k] = Got + k
      /\ slave_o_PUSH => sfifo.q = Got
  BY Zenon DEF CInv, RepliedOK, Run
<1>6. a \in {0, 1} /\ b \in {0, 1} /\ (Gets(i) <=> b = 1)
  BY DEF B
<1>7. (Gets(i) => i.se) /\ (Gives(i) => slave_o_PUSH)
  BY DEF Gets, Gives
<1>8. Run(replied', 0) /\ replied' \in Seq(Nat)
  <2>1. CASE Gives(i)
    <3>1. sfifo.q = Len(replied) + 1
      BY <1>5, <1>7, <2>1 DEF Got, B
    <3>2. Append(replied, sfifo.q) = Append(replied, 0 + Len(replied) + 1)
      BY <1>4, <3>1
    <3>3. Run(Append(replied, sfifo.q), 0)
      BY <1>4, <1>5, <3>2, RunAppend
    <3> QED BY <1>1, <1>4, <2>1, <3>3
  <2>2. CASE ~Gives(i)
    BY <1>1, <1>4, <1>5, <2>2
  <2> QED BY <2>1, <2>2
<1> HIDE DEF a, b, K, KK
<1>9. \A k \in 1 .. KK : sfifo'.queue[k] = Got' + k
  <2> DEFINE x(k) == sfifo'.queue[k]
             z(k) == sfifo.queue[k]
  <2>1. /\ \A k \in 1 .. KK : x(k) = IF k + b <= K THEN z(k + b) ELSE answered + 1
        /\ \A k \in 1 .. K : z(k) = Got + k
    BY <1>2, <1>5, Zenon
  <2> HIDE DEF x, z
  <2> SUFFICES ASSUME NEW k \in 1 .. KK PROVE x(k) = Got' + k
    BY Zenon DEF x
  <2>2. x(k) = IF k + b <= K THEN z(k + b) ELSE answered + 1
    BY <2>1
  <2>3. CASE k + b <= K
    <3>1. k + b \in 1 .. K
      BY <1>4, <1>6, <2>3
    <3>2. x(k) = Got + (k + b)
      BY <2>1, <2>2, <2>3, <3>1, Zenon
    <3> QED BY <1>1, <1>4, <1>6, <3>2
  <2>4. CASE ~(k + b <= K)
    <3>1. KK = K + a - b
      BY <1>2
    <3>2. k + b = K + 1
      BY <1>4, <1>6, <2>4, <3>1
    <3>3. x(k) = answered + 1
      BY <2>2, <2>4
    <3> QED BY <1>1, <1>4, <1>6, <3>2, <3>3
  <2> QED BY <2>3, <2>4
<1>10. Got' + KK = answered'
  BY <1>1, <1>2, <1>3, <1>4, <1>6
<1>11. slave_o_PUSH' => sfifo'.q = Got'
  <2>1. CASE Gets(i)
    <3>1. 1 \in 1 .. K
      BY <1>2, <1>4, <2>1
    <3>2. sfifo'.q = Got + 1
      BY <1>2, <1>5, <2>1, <3>1, Zenon
    <3> QED BY <1>1, <1>6, <2>1, <3>2, Zenon
  <2>2. CASE ~Gets(i)
    <3>1. sfifo'.q = sfifo.q /\ Got' = Got
      BY <1>1, <1>2, <1>4, <1>6, <2>2
    <3>2. slave_o_PUSH' => slave_o_PUSH
      BY <1>1, <2>2
    <3> QED BY <1>5, <3>1, <3>2
  <2> QED BY <2>1, <2>2
<1> QED BY <1>8, <1>9, <1>10, <1>11 DEF RepliedOK, Run, KK

LEMMA GapsStep ==
  ASSUME Spaced, CInv, NEW i \in Inputs, Step(i)
  PROVE  GapsOK' /\ gaps' \in Seq(Nat)
<1> DEFINE E == Len(ends)
           EE == Len(ends')
           G == Len(gaps)
           GG == Len(gaps')
           CC == Len(accepted')
<1>1. /\ E \in Nat /\ G \in Nat /\ LastEnd \in Nat /\ Popped \in Nat /\ Fetched \in Nat
      /\ Mark = LastEnd + E /\ Popped + 1 >= Mark
      /\ Popped < Mark => Fetched = LastEnd
      /\ E = 0 => LastEnd = 0
      /\ E > 0 => LastEnd > 0
      /\ issued \in Nat
  BY Numbers
<1>2. gaps \in Seq(Nat) /\ ends \in Seq(Nat) /\ accepted' \in Seq(Nat)
  BY MasterStep DEF CInv, TypeOK
<1>3. /\ EE = E + B(Closes(i))
      /\ \A k \in 1 .. E : ends'[k] = ends[k]
  BY SlaveStep
<1>4. /\ Popped' = Popped + B(Fetches(i))
      /\ Mark' = IF Closes(i) THEN issued + E + 1 ELSE Mark
      /\ Fetched' = IF Fetches(i) /\ Popped >= Mark THEN Fetched + 1 ELSE Fetched
      /\ Fetches(i) => ~Closes(i)
      /\ Closes(i) => Popped = issued + E /\ Popped > Mark
  BY Moves
<1>5. /\ mfifo.q = IF Popped = Mark THEN 0 ELSE Fetched
      /\ mfifo'.q = IF Popped' = Mark' THEN 0 ELSE Fetched'
      /\ ~Fetches(i) => mfifo'.q = mfifo.q
  BY RequestsStep, MfifoStep, Zenon DEF CInv, RequestsOK
<1>6. /\ G = IF Popped < Mark THEN E - 1 ELSE E
      /\ \A k \in 1 .. G : gaps[k] = ends[k]
  BY Zenon DEF CInv, GapsOK
<1>7. gaps' = IF i.me /\ mfifo.q # 0 /\ mfifo'.q = 0 THEN Append(gaps, CC) ELSE gaps
  BY MasterStep, Zenon DEF mrecv_CYC
<1>8. Fetches(i) => CC = Fetched /\ i.me
  BY AcceptedStep DEF Fetches
<1>9. Popped < Mark => E > 0 /\ LastEnd = ends[E]
  <2>1. Popped < Mark => E > 0
    BY <1>1
  <2>2. E > 0 => LastEnd = ends[E]
    BY <1>2 DEF LastEnd
  <2> QED BY <2>1, <2>2
<1>10. CASE Fetches(i) /\ Popped < Mark
  <2>1. Popped' = Mark' /\ EE = E /\ Mark' = Mark
    BY <1>1, <1>3, <1>4, <1>10 DEF B
  <2>2. mfifo.q # 0 /\ mfifo'.q = 0
    BY <1>1, <1>5, <1>9, <1>10, <2>1
  <2>3. gaps' = Append(gaps, CC)
    BY <1>7, <1>8, <1>10, <2>2
  <2>4. CC = ends[E] /\ G = E - 1 /\ E > 0
    BY <1>1, <1>6, <1>8, <1>9, <1>10
  <2> DEFINE e == Append(gaps, CC)
  <2>5. CC \in Nat
    BY <1>2
  <2> HIDE DEF CC
  <2>6. /\ e \in Seq(Nat) /\ Len(e) = G + 1 /\ e[G + 1] = CC
        /\ \A k \in 1 .. G : e[k] = gaps[k]
    BY <1>2, <2>5
  <2>7. gaps' = e
    BY <2>3
  <2> HIDE DEF e, G
  <2>8. /\ Len(e) = E
        /\ \A k \in 1 .. E : e[k] = ends[k]
    BY <1>1, <1>6, <2>4, <2>6
  <2>9. Len(gaps') = Len(ends') /\ ~(Popped' < Mark')
    BY <1>1, <1>4, <2>1, <2>7, <2>8 DEF B
  <2>10. \A k \in 1 .. Len(gaps') : gaps'[k] = ends'[k]
    BY <1>3, <2>7, <2>8
  <2>11. gaps' \in Seq(Nat)
    BY <2>6, <2>7
  <2> QED BY <2>9, <2>10, <2>11 DEF GapsOK
<1>11. CASE ~(Fetches(i) /\ Popped < Mark)
  <2>1. gaps' = gaps
    <3>1. CASE Fetches(i)
      <4>1. Popped >= Mark /\ Fetched' = Fetched + 1 /\ Popped' = Popped + 1 /\ Mark' = Mark
        BY <1>1, <1>4, <1>11, <3>1 DEF B
      <4>2. mfifo'.q = Fetched + 1
        BY <1>1, <1>5, <4>1
      <4> QED BY <1>1, <1>7, <4>2
    <3>2. CASE ~Fetches(i)
      BY <1>5, <1>7, <3>2
    <3> QED BY <3>1, <3>2
  <2>2. GG = G /\ gaps' \in Seq(Nat)
    BY <1>2, <2>1
  <2>3. G = IF Popped' < Mark' THEN EE - 1 ELSE EE
    <3>1. CASE Closes(i)
      BY <1>1, <1>3, <1>4, <1>6, <3>1 DEF B
    <3>2. CASE ~Closes(i)
      BY <1>1, <1>3, <1>4, <1>6, <1>11, <3>2 DEF B
    <3> QED BY <3>1, <3>2
  <2>4. G <= E
    BY <1>1, <1>6
  <2> HIDE DEF G, E
  <2>5. \A k \in 1 .. G : gaps'[k] = ends'[k]
    BY <1>1, <1>3, <1>6, <2>1, <2>4
  <2> QED BY <2>2, <2>3, <2>5 DEF GapsOK
<1> QED BY <1>10, <1>11

LEMMA ResetStep ==
  ASSUME Spaced, CInv, NEW i \in Inputs, Step(i)
  PROVE  ResetOK' /\ TypeOK'
<1>1. /\ issued \in Nat /\ answered \in Nat /\ Popped \in Nat
      /\ slave_rst_n \in BOOLEAN /\ master_rst_n \in BOOLEAN /\ i.se \in BOOLEAN
      /\ slave_CYC \in BOOLEAN /\ slave_o_PUSH \in BOOLEAN /\ i.me \in BOOLEAN
      /\ i.cyc \in BOOLEAN
      /\ cycles \in {1, MaxCycles}
  BY Numbers, InputBits DEF CInv, TypeOK
<1>2. cycles' = cycles /\ slave_rst_n' = slave_rst_n /\ master_rst_n' = master_rst_n
  BY DEF Step
<1>3. /\ ~master_rst_n => Popped = 0 /\ mfifo.empty /\ ~master_o_STB
      /\ ~slave_rst_n => issued = 0 /\ sfifo.empty /\ ~slave_o_PUSH /\ ~slave_CYC
  BY DEF CInv, ResetOK
<1>4. /\ issued' = issued + B(Takes(i))
      /\ slave_o_PUSH' = IF i.se THEN Gets(i) ELSE slave_o_PUSH
      /\ slave_CYC' = IF i.se THEN i.cyc ELSE slave_CYC
      /\ Takes(i) \/ (i.se /\ i.cyc) => slave_rst_n
      /\ slave_o_PUSH' \in BOOLEAN /\ slave_CYC' \in BOOLEAN
      /\ ends' \in Seq(Nat)
  BY SlaveStep
<1>5. /\ i.me => (master_o_STB' <=> Fetches(i) \/ (mrecv_CYC /\ master_o_STB /\ i.stall))
      /\ ~i.me => master_o_STB' = master_o_STB
      /\ master_o_STB' \in BOOLEAN
      /\ accepted' \in Seq(Nat) /\ answered' = answered + B(Answers(i))
  BY MasterStep
<1>6. Popped' = Popped + B(Fetches(i))
  BY Moves
<1>7. /\ ~master_rst_n => mfifo'.empty
      /\ FifoOK(mfifo')
  BY MfifoStep
<1>8. /\ ~slave_rst_n => sfifo'.empty
      /\ FifoOK(sfifo')
  BY SfifoStep
<1>9. (Fetches(i) => ~mfifo.empty) /\ (Gets(i) => ~sfifo.empty)
  BY DEF Fetches, mr_en, Gets, sr_en
<1>10. ~master_rst_n => Popped' = 0 /\ ~master_o_STB'
  BY <1>1, <1>3, <1>5, <1>6, <1>9 DEF B
<1>11. ~slave_rst_n => issued' = 0 /\ ~slave_o_PUSH' /\ ~slave_CYC'
  BY <1>1, <1>3, <1>4, <1>9 DEF B
<1>12. ResetOK'
  BY <1>2, <1>7, <1>8, <1>10, <1>11 DEF ResetOK
<1>13. issued' \in Nat /\ answered' \in Nat
  BY <1>1, <1>4, <1>5 DEF B
<1>14. replied' \in Seq(Nat) /\ gaps' \in Seq(Nat)
  BY RepliedStep, GapsStep
<1>15. TypeOK'
  BY <1>1, <1>2, <1>4, <1>5, <1>7, <1>8, <1>13, <1>14, Zenon DEF TypeOK
<1> QED BY <1>12, <1>15

LEMMA RepliesFitStep ==
  ASSUME Spaced, CInv, NEW i \in Inputs, Step(i)
  PROVE  RepliesFit'
<1> DEFINE t == B(Takes(i))
           n == B(Closes(i))
           a == B(Answers(i))
           b == B(Gets(i))
           v == B(Gives(i))
           m0 == mfifo.fresh0
           m1 == mfifo.fresh1
           s0 == sfifo.freed0
           s1 == sfifo.freed1
           mm0 == mfifo'.fresh0
           mm1 == mfifo'.fresh1
           ss0 == sfifo'.freed0
           ss1 == sfifo'.freed1
           K == Len(sfifo.queue)
           R == Len(replied)
           RR == Len(replied')
<1>1. /\ issued \in Nat /\ answered \in Nat /\ R \in Nat /\ K \in Nat
      /\ Fetched \in Nat /\ Got \in Nat /\ Got + K = answered /\ R <= Got
      /\ Fetched <= issued /\ answered <= Fetched
  BY Numbers
<1>2. /\ issued' = issued + t /\ RR = R + v /\ Got' = Got + b
  BY SlaveStep
<1>3. /\ i.me => mm0 + mm1 = m0 + (t + n)
      /\ ~i.me => mm0 = m0 + (t + n) /\ mm1 = m1
      /\ mm0 \in Nat /\ mm1 \in Nat
  BY MfifoStep DEF FifoOK
<1>4. /\ i.me => /\ ss0 <= b /\ ss0 + ss1 = s0 + b
                 /\ sfifo'.full => K + s0 + s1 + a >= g_size
      /\ ~i.me => ss0 = s0 + b /\ ss1 = s1 /\ sfifo'.full = sfifo.full
      /\ ss0 \in Nat /\ ss1 \in Nat
  BY SfifoStep DEF FifoOK
<1>5. answered' = answered + a
  BY MasterStep
<1>6. /\ Fetched' = IF Fetches(i) /\ Popped >= Mark THEN Fetched + 1 ELSE Fetched
      /\ Fetches(i) => Fetched' <= issued - (m0 + m1)
      /\ Fetches(i) => i.me
  BY Moves DEF Fetches
<1>7. a = 1 => answered < Fetched
  BY AnswersAsked DEF B
<1>8. a = 1 => i.me
  BY DEF Answers, B
<1>9. /\ Fetched + (s0 + s1) <= g_size + Got
      /\ issued - m0 + s0 <= g_size + Got
      /\ issued - (m0 + m1) + (s0 + s1) <= g_size + Got
      /\ sfifo.full => answered = Fetched
  BY Zenon DEF CInv, RepliesFit
<1>10. /\ t \in {0, 1} /\ n \in {0, 1} /\ a \in {0, 1} /\ b \in {0, 1} /\ v \in {0, 1}
  BY DEF B
<1>11. /\ m0 \in Nat /\ m1 \in Nat /\ s0 \in Nat /\ s1 \in Nat
       /\ g_size \in Nat
  BY SizeIs DEF CInv, TypeOK, FifoOK
<1>12. issued + t <= g_size + RR
  <2>1. Waits' \in 0 .. g_size /\ Waits' = issued' - RR
    BY CountStep, Zenon DEF CountOK, Waits
  <2> HIDE DEF RR, t, v
  <2>2. (issued + t) - RR \in 0 .. g_size
    BY <1>2, <2>1, Zenon
  <2>3. RR \in Nat
    BY <1>1, <1>2, <1>10
  <2> QED BY <1>1, <1>10, <1>11, <2>2, <2>3
<1>13. RR <= Got
  <2>1. Gives(i) => Got = R + 1
    BY DEF Gives, Got, B
  <2> QED BY <1>1, <1>2, <2>1 DEF B
<1> DEFINE f == B(Fetches(i) /\ Popped >= Mark)
<1>14. /\ Fetched' = Fetched + f /\ f \in {0, 1}
       /\ f = 1 => Fetched + f <= issued - (m0 + m1) /\ i.me
  BY <1>1, <1>6 DEF B
<1> HIDE DEF f
<1> HIDE DEF t, n, a, b, v, m0, m1, s0, s1, mm0, mm1, ss0, ss1, K, R, RR
<1>15. (Fetched + f) + (s0 + s1) <= g_size + Got
  BY <1>1, <1>9, <1>11, <1>14
<1>16. CASE i.me
  <2>1. ss0 <= b /\ ss0 + ss1 = s0 + b /\ mm0 + mm1 = m0 + (t + n)
    BY <1>3, <1>4, <1>16
  <2>2. Fetched' + (ss0 + ss1) <= g_size + Got'
    BY <1>1, <1>2, <1>4, <1>10, <1>11, <1>14, <1>15, <2>1
  <2>3. issued' - mm0 + ss0 <= g_size + Got'
    BY <1>1, <1>2, <1>3, <1>4, <1>10, <1>11, <1>12, <1>13, <2>1
  <2>4. issued' - (mm0 + mm1) + (ss0 + ss1) <= g_size + Got'
    BY <1>1, <1>2, <1>9, <1>10, <1>11, <2>1
  <2>5. sfifo'.full => answered' = Fetched'
    <3> SUFFICES ASSUME sfifo'.full PROVE answered' = Fetched'
      OBVIOUS
    <3>1. K + s0 + s1 + a >= g_size
      BY <1>4, <1>16
    <3>2. answered' >= Fetched'
      <4>1. answered + (s0 + s1) + a >= g_size + Got
        BY <1>1, <1>10, <1>11, <3>1
      <4>2. answered + a >= Fetched + f
        BY <1>1, <1>10, <1>11, <1>14, <1>15, <4>1
      <4> QED BY <1>5, <1>14, <4>2
    <3>3. answered' <= Fetched
      BY <1>1, <1>5, <1>7, <1>10
    <3> QED BY <1>1, <1>5, <1>10, <1>14, <3>2, <3>3
  <2> QED BY <2>2, <2>3, <2>4, <2>5, Zenon DEF RepliesFit, mm0, mm1, ss0, ss1
<1>17. CASE ~i.me
  <2>1. /\ ss0 = s0 + b /\ ss1 = s1 /\ sfifo'.full = sfifo.full
        /\ mm0 = m0 + (t + n) /\ mm1 = m1 /\ a = 0 /\ Fetched' = Fetched
    BY <1>3, <1>4, <1>6, <1>8, <1>10, <1>17
  <2>2. Fetched' + (ss0 + ss1) <= g_size + Got'
    BY <1>1, <1>2, <1>9, <1>10, <1>11, <2>1
  <2>3. issued' - mm0 + ss0 <= g_size + Got'
    BY <1>1, <1>2, <1>9, <1>10, <1>11, <2>1
  <2>4. issued' - (mm0 + mm1) + (ss0 + ss1) <= g_size + Got'
    BY <1>1, <1>2, <1>9, <1>10, <1>11, <2>1
  <2>5. sfifo'.full => answered' = Fetched'
    BY <1>1, <1>5, <1>9, <2>1
  <2> QED BY <2>2, <2>3, <2>4, <2>5, Zenon DEF RepliesFit, mm0, mm1, ss0, ss1
<1> QED BY <1>16, <1>17

LEMMA RequestsFitStep ==
  ASSUME Spaced, CInv, NEW i \in Inputs, Step(i)
  PROVE  RequestsFit'
<1> DEFINE t == B(Takes(i))
           n == B(Closes(i))
           a == B(Answers(i))
           v == B(Gives(i))
           f == B(Fetches(i))
           y0 == sfifo.fresh0
           y1 == sfifo.fresh1
           yy0 == sfifo'.fresh0
           yy1 == sfifo'.fresh1
           z0 == mfifo.freed0
           z1 == mfifo.freed1
           zz0 == mfifo'.freed0
           zz1 == mfifo'.freed1
           E == Len(ends)
           EE == Len(ends')
           L == Len(mfifo.queue)
           K == Len(sfifo.queue)
           R == Len(replied)
           RR == Len(replied')
<1>1. /\ issued \in Nat /\ answered \in Nat /\ R \in Nat /\ K \in Nat /\ L \in Nat /\ E \in Nat
      /\ LastEnd \in Nat /\ Popped \in Nat /\ Mark = LastEnd + E
      /\ Popped + L = issued + E /\ Fetched \in Nat
      /\ Popped < Mark => Fetched = LastEnd
      /\ Popped >= Mark => Fetched + E = Popped
      /\ E = 0 => LastEnd = 0
      /\ Got \in Nat /\ Got + K = answered /\ R <= Got /\ answered <= Fetched
      /\ LastEnd <= R /\ cycles \in Nat
  BY Numbers
<1>2. /\ issued' = issued + t /\ RR = R + v /\ EE = E + n
      /\ LastEnd' = IF Closes(i) THEN issued ELSE LastEnd
      /\ Closes(i) => issued = R /\ issued > LastEnd
  BY SlaveStep
<1>3. /\ i.se => /\ zz0 <= f /\ zz0 + zz1 = z0 + f
                 /\ mfifo'.full => L + z0 + z1 + (t + n) >= g_size
      /\ ~i.se => zz0 = z0 + f /\ zz1 = z1 /\ mfifo'.full = mfifo.full
      /\ zz0 \in Nat /\ zz1 \in Nat
  BY MfifoStep DEF FifoOK
<1>4. /\ i.se => yy0 + yy1 = y0 + a
      /\ ~i.se => yy0 = y0 + a /\ yy1 = y1
      /\ yy0 \in Nat /\ yy1 \in Nat
  BY SfifoStep DEF FifoOK
<1>5. answered' = answered + a
  BY MasterStep
<1>6. /\ Popped' = Popped + f
      /\ Mark' = IF Closes(i) THEN issued + E + 1 ELSE Mark
      /\ Closes(i) => answered = issued /\ Got = issued /\ a = 0
  BY Moves DEF B
<1>7. a = 1 => answered < Fetched
  BY AnswersAsked DEF B
<1>8. /\ t \in {0, 1} /\ n \in {0, 1} /\ a \in {0, 1} /\ v \in {0, 1} /\ f \in {0, 1}
      /\ (Closes(i) <=> n = 1)
      /\ n = 1 => t = 0
      /\ n = 1 \/ t = 1 \/ v = 1 => i.se
  <2>1. Closes(i) => ~Takes(i)
    BY SlaveStep
  <2>2. Closes(i) \/ Takes(i) \/ Gives(i) => i.se
    BY DEF Closes, Takes, Gives
  <2> QED BY <2>1, <2>2 DEF B
<1>9. /\ y0 \in Nat /\ y1 \in Nat /\ z0 \in Nat /\ z1 \in Nat /\ y0 + y1 <= K
      /\ g_size \in Nat /\ g_size >= 2
  BY SizeIs DEF CInv, TypeOK, FifoOK
<1>10. /\ Replied1 = answered - (y0 + y1) /\ Replied1' = answered' - (yy0 + yy1)
       /\ Replied0 = answered - y0 /\ Replied0' = answered' - yy0
       /\ Freed1 = Popped - (z0 + z1) /\ Freed1' = Popped' - (zz0 + zz1)
       /\ Freed0 = Popped - z0 /\ Freed0' = Popped' - zz0
  BY Zenon DEF Replied1, Replied0, Freed1, Freed0
<1>11. /\ Freed1 >= 0 /\ Freed1 + 1 >= Mark
       /\ Replied1 > LastEnd => Freed1 >= Replied1 + E
       /\ Replied0 > LastEnd => Freed0 >= Replied0 + E
       /\ mfifo.full => Waits = g_size \/ E = cycles \/ (cycles # 1 /\ Waits + 1 >= g_size)
  BY Zenon DEF CInv, RequestsFit
<1>12. Waits' = issued' - RR /\ Waits = issued - R /\ Waits' \in 0 .. g_size
  BY CountStep, Zenon DEF CountOK, Waits
<1>13. EE <= cycles /\ cycles' = cycles
  BY EndsStep DEF EndsOK
<1>14. v = 1 => Got = R + 1
  BY DEF Gives, Got, B
<1> HIDE DEF t, n, a, v, f, y0, y1, yy0, yy1, z0, z1, zz0, zz1, E, EE, L, K, R, RR
<1>15. SUFFICES /\ Freed1' >= 0 /\ Freed1' + 1 >= Mark'
                /\ Replied1' > LastEnd' => Freed1' >= Replied1' + EE
                /\ Replied0' > LastEnd' => Freed0' >= Replied0' + EE
                /\ mfifo'.full => \/ Waits' = g_size \/ EE = cycles
                                  \/ cycles # 1 /\ Waits' + 1 >= g_size
  BY <1>13 DEF RequestsFit, EE
<1>16. CASE ~i.se
  <2>1. t = 0 /\ n = 0 /\ v = 0 /\ ~Closes(i)
    BY <1>8, <1>16
  <2>2. /\ Replied1' = Replied1 /\ Replied0' = Replied0 /\ Freed1' = Freed1 /\ Freed0' = Freed0
    BY <1>1, <1>3, <1>4, <1>5, <1>6, <1>8, <1>9, <1>10, <1>16
  <2>3. Mark' = Mark /\ LastEnd' = LastEnd /\ EE = E /\ Waits' = Waits
        /\ mfifo'.full = mfifo.full
    BY <1>1, <1>2, <1>3, <1>6, <1>12, <1>16, <2>1
  <2> QED BY <1>11, <2>2, <2>3
<1>17. CASE i.se
  <2>1. /\ Replied1' = Replied0 /\ Freed1' = Freed0
        /\ Replied0' <= answered + a /\ Freed0' >= Popped
        /\ Freed0 >= Freed1 /\ Replied0 >= Replied1 /\ Replied1 >= Got
        /\ Freed0 \in Int /\ Freed1 \in Int /\ Replied0 \in Int /\ Replied1 \in Int
        /\ Freed0' \in Int /\ Replied0' \in Int
    BY <1>1, <1>3, <1>4, <1>5, <1>6, <1>8, <1>9, <1>10, <1>17
  <2>2. answered + a <= Fetched
    BY <1>1, <1>7, <1>8
  <2>3. mfifo'.full => issued' + (E + n) - g_size >= Freed1
    BY <1>1, <1>2, <1>3, <1>8, <1>9, <1>10, <1>17
  <2>4. RR <= Got
    BY <1>1, <1>2, <1>8, <1>14
  <2>5. CASE Closes(i)
    <3>1. n = 1 /\ t = 0 /\ a = 0 /\ issued = R /\ issued > LastEnd /\ answered = issued
          /\ Got = issued /\ Mark' = issued + E + 1 /\ LastEnd' = issued /\ EE = E + 1
          /\ issued' = issued
      BY <1>1, <1>2, <1>6, <1>8, <2>5
    <3>2. Freed0 >= Replied0 + E /\ Replied0 >= issued
      BY <1>1, <1>11, <2>1, <3>1
    <3>3. Freed1' >= 0 /\ Freed1' + 1 >= Mark'
      BY <1>1, <1>11, <2>1, <3>1, <3>2
    <3>4. ~(Replied1' > LastEnd') /\ ~(Replied0' > LastEnd')
      BY <1>1, <1>9, <1>10, <2>1, <3>1
    <3>5. ~mfifo'.full
      <4>1. Freed1 >= issued + E
        BY <1>1, <1>11, <2>1, <3>1
      <4> QED BY <1>1, <1>9, <2>1, <2>3, <3>1, <4>1
    <3> QED BY <3>3, <3>4, <3>5
  <2>6. CASE ~Closes(i)
    <3>1. n = 0 /\ Mark' = Mark /\ LastEnd' = LastEnd /\ EE = E
      BY <1>1, <1>2, <1>6, <1>8, <2>6
    <3>2. Freed1' >= 0 /\ Freed1' + 1 >= Mark'
      BY <1>1, <1>11, <2>1, <3>1
    <3>3. Replied1' > LastEnd' => Freed1' >= Replied1' + EE
      BY <1>11, <2>1, <3>1
    <3>4. Replied0' > LastEnd' => Freed0' >= Replied0' + EE
      <4> DEFINE q == (answered + a) - yy0
                 p == (Popped + f) - zz0
      <4>0. Replied0' = q /\ Freed0' = p
        BY <1>5, <1>6, <1>10, Zenon
      <4>1. q <= Fetched /\ q \in Int /\ p >= Popped /\ p \in Int
        BY <1>1, <1>3, <1>4, <1>8, <1>17, <2>2
      <4>2. Fetched > LastEnd => Popped = Fetched + E
        BY <1>1
      <4> HIDE DEF q, p
      <4>3. q > LastEnd => p >= q + E
        BY <1>1, <4>1, <4>2
      <4> QED BY <3>1, <4>0, <4>3, Zenon
    <3>5. mfifo'.full => \/ Waits' = g_size \/ EE = cycles
                         \/ cycles # 1 /\ Waits' + 1 >= g_size
      <4> SUFFICES ASSUME mfifo'.full
                   PROVE  \/ Waits' = g_size \/ EE = cycles
                          \/ cycles # 1 /\ Waits' + 1 >= g_size
        OBVIOUS
      <4> DEFINE J == issued + t
      <4>1. issued' = J /\ J \in Nat /\ RR \in Nat
        BY <1>1, <1>2, <1>8
      <4>2. J + E >= Freed1 + g_size
        BY <2>3, <3>1, <1>1, <1>2, <1>8, <1>9, <2>1
      <4>3. J - RR \in 0 .. g_size /\ Waits' = J - RR
        BY <1>12, <4>1, Zenon
      <4> HIDE DEF J
      <4>4. CASE Replied1 > LastEnd
        <5>1. J >= g_size + RR
          BY <1>1, <1>9, <1>11, <2>1, <2>4, <4>1, <4>2, <4>4
        <5>2. J - RR = g_size
          BY <1>9, <4>1, <4>3, <5>1
        <5> QED BY <4>3, <5>2, Zenon
      <4>5. CASE ~(Replied1 > LastEnd)
        <5>1. RR = LastEnd
          BY <1>1, <1>2, <1>8, <2>1, <2>4, <4>5
        <5>2. J + 1 >= g_size + RR
          BY <1>1, <1>9, <1>11, <2>1, <4>1, <4>2, <5>1
        <5>3. E = 0 => J - RR = g_size
          <6> SUFFICES ASSUME E = 0 PROVE J - RR = g_size
            OBVIOUS
          <6>1. J >= g_size + RR
            BY <1>1, <1>9, <1>11, <2>1, <4>1, <4>2, <5>1
          <6> QED BY <1>9, <4>1, <4>3, <6>1
        <5>4. cycles = 1 => E = 0 \/ EE = cycles
          BY <1>1, <1>13, <3>1
        <5>5. (J - RR) + 1 >= g_size
          BY <1>9, <4>1, <5>2
        <5> QED BY <4>3, <5>3, <5>4, <5>5, Zenon
      <4> QED BY <4>4, <4>5
    <3> QED BY <3>2, <3>3, <3>4, <3>5
  <2> QED BY <2>5, <2>6
<1> QED BY <1>16, <1>17

LEMMA StepKeeps ==
  ASSUME Spaced, CInv, NEW i \in Inputs, Step(i)
  PROVE  CInv'
<1>1. TypeOK' /\ ResetOK'
  BY ResetStep
<1>2. EndsOK' /\ RequestsOK' /\ AcceptedOK' /\ RepliedOK' /\ GapsOK'
  BY EndsStep, RequestsStep, AcceptedStep, RepliedStep, GapsStep
<1>3. CountOK' /\ RepliesFit' /\ RequestsFit'
  BY CountStep, RepliesFitStep, RequestsFitStep
<1> QED BY <1>1, <1>2, <1>3 DEF CInv

(* The release of a reset, and a stutter.                                  *)
LEMMA RestsKeeps ==
  ASSUME CInv, Rests
  PROVE  CInv'
<1>1. /\ cycles' = cycles /\ mfifo' = mfifo /\ sfifo' = sfifo
      /\ mpushed' = mpushed /\ mpopped' = mpopped /\ slave_CYC' = slave_CYC
      /\ slave_o_PUSH' = slave_o_PUSH /\ master_o_STB' = master_o_STB
      /\ issued' = issued /\ ends' = ends /\ replied' = replied
      /\ accepted' = accepted /\ gaps' = gaps /\ answered' = answered
      /\ slave_rst_n' \in BOOLEAN /\ master_rst_n' \in BOOLEAN
      /\ slave_rst_n => slave_rst_n'
      /\ master_rst_n => master_rst_n'
  BY DEF Rests, slaveRegs, slaveUser, masterUser
<1>2. /\ LastEnd' = LastEnd /\ Got' = Got /\ Waits' = Waits /\ mrecv_CYC' = mrecv_CYC
  BY <1>1, Zenon DEF LastEnd, Got, Waits, mrecv_CYC
<1>3. Mark' = Mark /\ Popped' = Popped
  BY <1>1, <1>2, Zenon DEF Mark, Popped
<1>4. Fetched' = Fetched
  BY <1>1, <1>2, <1>3, Zenon DEF Fetched
<1>5. TypeOK'
  BY <1>1, Zenon DEF CInv, TypeOK
<1>6. EndsOK'
  BY <1>1, <1>2, Zenon DEF CInv, EndsOK
<1>7. RequestsOK'
  BY <1>1, <1>2, <1>3, <1>4 DEF CInv, RequestsOK, WordAt
<1>8. AcceptedOK'
  BY <1>1, <1>2, <1>4, Zenon DEF CInv, AcceptedOK
<1>9. RepliedOK'
  BY <1>1, <1>2, Zenon DEF CInv, RepliedOK
<1>10. GapsOK'
  BY <1>1, <1>3, Zenon DEF CInv, GapsOK
<1>11. ResetOK'
  BY <1>1, <1>3, Zenon DEF CInv, ResetOK
<1>12. CountOK'
  BY <1>1, <1>2, Zenon DEF CInv, CountOK
<1>13. RepliesFit'
  BY <1>1, <1>2, <1>4, Zenon DEF CInv, RepliesFit
<1>14. RequestsFit'
  <2>1. Replied1' = Replied1 /\ Replied0' = Replied0 /\ Freed1' = Freed1 /\ Freed0' = Freed0
    BY <1>1, <1>3, Zenon DEF Replied1, Replied0, Freed1, Freed0
  <2> QED BY <1>1, <1>2, <1>3, <2>1, Zenon DEF CInv, RequestsFit
<1> QED BY <1>5, <1>6, <1>7, <1>8, <1>9, <1>10, <1>11, <1>12, <1>13, <1>14 DEF CInv

LEMMA InitHolds ==
  ASSUME Init
  PROVE  CInv
<1>1. FifoOK(EmptyFifo(0))
  BY DEF FifoOK, EmptyFifo
<1>2. /\ cycles \in {1, MaxCycles}
      /\ slave_rst_n = FALSE /\ master_rst_n = FALSE
      /\ mfifo = EmptyFifo(0) /\ sfifo = EmptyFifo(0)
      /\ mpushed = 0 /\ mpopped = g_size
      /\ slave_CYC = FALSE /\ slave_o_PUSH = FALSE /\ master_o_STB = FALSE
      /\ issued = 0 /\ ends = <<>> /\ replied = <<>>
      /\ accepted = <<>> /\ gaps = <<>> /\ answered = 0
  BY DEF Init
<1>3. /\ mfifo.queue = <<>> /\ mfifo.q = 0 /\ mfifo.empty = TRUE /\ mfifo.full = FALSE
      /\ mfifo.freed0 = 0 /\ mfifo.freed1 = 0 /\ mfifo.fresh0 = 0 /\ mfifo.fresh1 = 0
      /\ sfifo.queue = <<>> /\ sfifo.q = 0 /\ sfifo.empty = TRUE /\ sfifo.full = FALSE
      /\ sfifo.freed0 = 0 /\ sfifo.freed1 = 0 /\ sfifo.fresh0 = 0 /\ sfifo.fresh1 = 0
  BY <1>2 DEF EmptyFifo
<1>4. LastEnd = 0 /\ Mark = 0 /\ Popped = 0 /\ Fetched = 0 /\ Got = 0 /\ Waits = 0
  <2>1. Len(ends) = 0 /\ Len(mfifo.queue) = 0 /\ Len(replied) = 0 /\ B(slave_o_PUSH) = 0
    BY <1>2, <1>3 DEF B
  <2>2. LastEnd = 0
    BY <1>2, Zenon DEF LastEnd
  <2>3. Mark = 0 + 0 /\ Popped = 0 + 0 - 0 /\ Got = 0 + 0 /\ Waits = 0 - 0
    BY <1>2, <2>1, <2>2, Zenon DEF Mark, Popped, Got, Waits
  <2>4. Mark = 0 /\ Popped = 0 /\ Got = 0 /\ Waits = 0
    BY <2>3
  <2>5. Fetched = 0
    BY <2>1, <2>2, <2>4 DEF Fetched
  <2> QED BY <2>2, <2>4, <2>5
<1>5. TypeOK
  <2>1. FifoOK(mfifo) /\ FifoOK(sfifo)
    BY <1>1, <1>2, Zenon
  <2>2. issued \in Nat /\ answered \in Nat
    BY <1>2
  <2>3. /\ ends \in Seq(Nat) /\ replied \in Seq(Nat)
        /\ accepted \in Seq(Nat) /\ gaps \in Seq(Nat)
    BY <1>2
  <2>4. /\ slave_rst_n \in BOOLEAN /\ master_rst_n \in BOOLEAN /\ slave_CYC \in BOOLEAN
        /\ slave_o_PUSH \in BOOLEAN /\ master_o_STB \in BOOLEAN
    BY <1>2
  <2> QED BY <1>2, <2>1, <2>2, <2>3, <2>4, Zenon DEF TypeOK
<1>6. EndsOK /\ ResetOK
  <2>1. cycles \in Nat /\ Len(ends) = 0 /\ Len(replied) = 0
    BY <1>2, BoundsAssumption
  <2>2. EndsOK
    BY <1>2, <1>4, <2>1 DEF EndsOK
  <2> QED BY <1>2, <1>3, <1>4, <2>2 DEF ResetOK
<1>7. RequestsOK
  BY <1>3, <1>4 DEF RequestsOK
<1>8. AcceptedOK /\ RepliedOK /\ GapsOK
  <2>1. \A n : Run(<<>>, n)
    BY DEF Run
  <2>2. AcceptedOK
    BY <1>2, <1>4, <2>1 DEF AcceptedOK, B
  <2>3. RepliedOK
    BY <1>2, <1>3, <1>4, <2>1 DEF RepliedOK
  <2> QED BY <1>2, <1>4, <2>2, <2>3 DEF GapsOK
<1>9. CountOK
  BY <1>2, <1>4, SizeIs DEF CountOK, Counts
<1>10. RepliesFit /\ RequestsFit
  <2>1. Replied1 = 0 /\ Replied0 = 0 /\ Freed1 = 0 /\ Freed0 = 0
    BY <1>2, <1>3, <1>4 DEF Replied1, Replied0, Freed1, Freed0
  <2> QED BY <1>2, <1>3, <1>4, <2>1, SizeIs DEF RepliesFit, RequestsFit
<1> QED BY <1>5, <1>6, <1>7, <1>8, <1>9, <1>10 DEF CInv

LEMMA NextKeeps ==
  ASSUME Spaced, CInv, [Next]_vars
  PROVE  CInv'
<1>1. (\E i \in Inputs : Step(i)) \/ Rests
  BY NextIsStep DEF CInv
<1> QED BY <1>1, StepKeeps, RestsKeeps

LEMMA CInvHolds ==
  ASSUME Spaced
  PROVE  Spec => []CInv
<1>1. Init => CInv
  BY InitHolds
<1>2. CInv /\ [Next]_vars => CInv'
  BY NextKeeps
<1> QED BY <1>1, <1>2, PTL DEF Spec

-----------------------------------------------------------------------------
(* A sequence that numbers its elements is that function.                  *)
LEMMA RunIs ==
  ASSUME NEW s \in Seq(Nat), Run(s, 0)
  PROVE  s = [i \in 1 .. Len(s) |-> i]
  BY DEF Run

(* Requests and replies cross the bridge once each and in order, and the   *)
(* WB slave sees CYC up as long as it owes a reply.                        *)
THEOREM RequestsCrossOnce == Spaced => (Spec => []OnceAndInOrder)
<1>1. CInv => OnceAndInOrder
  <2> SUFFICES ASSUME CInv PROVE OnceAndInOrder
    OBVIOUS
  <2>1. /\ accepted \in Seq(Nat) /\ replied \in Seq(Nat)
        /\ Run(accepted, 0) /\ Run(replied, 0)
    BY DEF CInv, TypeOK, AcceptedOK, RepliedOK
  <2>2. /\ accepted = [i \in 1 .. Len(accepted) |-> i]
        /\ replied = [i \in 1 .. Len(replied) |-> i]
    BY <2>1, RunIs
  <2> DEFINE C == Len(accepted)
             E == Len(ends)
             R == Len(replied)
             K == Len(sfifo.queue)
  <2>3. /\ issued \in Nat /\ answered \in Nat /\ C \in Nat /\ Fetched \in Nat /\ E \in Nat
        /\ LastEnd \in Nat /\ Popped \in Nat /\ R \in Nat /\ K \in Nat /\ Got \in Nat
        /\ C <= Fetched /\ Fetched <= issued /\ answered <= C
        /\ Mark = LastEnd + E
        /\ Popped >= Mark => Fetched + E = Popped
        /\ LastEnd <= R /\ R <= Got /\ Got + K = answered
    BY Numbers
  <2>4. mfifo.q = IF Popped = Mark THEN 0 ELSE Fetched
    BY Zenon DEF CInv, RequestsOK
  <2>5. mrecv_CYC <=> mfifo.q # 0
    BY DEF mrecv_CYC
  <2> HIDE DEF C, E, R, K
  <2>6. answered < C => mrecv_CYC
    BY <2>3, <2>4, <2>5
  <2>7. C <= issued
    BY <2>3
  <2> QED BY <2>2, <2>6, <2>7, Zenon DEF OnceAndInOrder, C
<1> SUFFICES ASSUME Spaced PROVE Spec => []OnceAndInOrder
  OBVIOUS
<1>2. Spec => []CInv
  BY CInvHolds
<1> QED BY <1>1, <1>2, PTL

(* CYC falls for the WB slave exactly between the requests where the WB    *)
(* master let go of it.                                                    *)
THEOREM CyclesStayApart == Spaced => (Spec => []CyclesKeptApart)
<1>1. CInv => CyclesKeptApart
  <2> SUFFICES ASSUME CInv PROVE CyclesKeptApart
    OBVIOUS
  <2> DEFINE C == Len(accepted)
             E == Len(ends)
             G == Len(gaps)
  <2>1. /\ C \in Nat /\ E \in Nat /\ G \in Nat /\ Fetched \in Nat /\ LastEnd \in Nat
        /\ Popped \in Nat /\ Mark = LastEnd + E /\ C <= Fetched
        /\ Popped < Mark => Fetched = LastEnd
        /\ Popped + 1 >= Mark
    BY Numbers
  <2>2. /\ G = IF Popped < Mark THEN E - 1 ELSE E
        /\ \A i \in 1 .. G : gaps[i] = ends[i]
    BY Zenon DEF CInv, GapsOK
  <2>3. ends \in Seq(Nat) /\ gaps \in Seq(Nat)
    BY DEF CInv, TypeOK
  <2>4. E > 0 => ends[E] = LastEnd
    BY <2>3 DEF LastEnd
  <2>5. G <= E
    BY <2>1, <2>2
  <2>6. gaps = SubSeq(ends, 1, G)
    <3>1. /\ SubSeq(ends, 1, G) \in Seq(Nat) /\ Len(SubSeq(ends, 1, G)) = G
          /\ \A i \in 1 .. G : SubSeq(ends, 1, G)[i] = ends[i]
      BY <2>1, <2>3, <2>5
    <3> DEFINE s == SubSeq(ends, 1, G)
    <3>2. /\ s \in Seq(Nat) /\ Len(s) = Len(gaps)
          /\ \A i \in 1 .. Len(s) : s[i] = gaps[i]
      BY <2>2, <3>1
    <3> HIDE DEF s
    <3>3. s = gaps
      BY <2>3, <3>2, SeqEqual
    <3> QED BY <3>3 DEF s
  <2>7. \A i \in 1 .. E : C > ends[i] => G >= i
    <3> SUFFICES ASSUME NEW i \in 1 .. E, C > ends[i], ~(G >= i) PROVE FALSE
      OBVIOUS
    <3> HIDE DEF C, E, G
    <3>1. i = E /\ Popped < Mark /\ E > 0
      BY <2>1, <2>2
    <3>2. ends[i] = LastEnd
      BY <2>4, <3>1
    <3> QED BY <2>1, <3>1, <3>2
  <2> QED BY <2>5, <2>6, <2>7, Zenon DEF CyclesKeptApart
<1> SUFFICES ASSUME Spaced PROVE Spec => []CyclesKeptApart
  OBVIOUS
<1>2. Spec => []CInv
  BY CInvHolds
<1> QED BY <1>1, <1>2, PTL

(* Neither FIFO is ever written when it is full: counting requests against *)
(* replies is enough for sfifo, and for mfifo as well, ends included.      *)
THEOREM FifosHaveSpace == Spaced => (Spec => FifosFindSpace)
<1> DEFINE Room == /\ answered' # answered => ~sfifo.full
                   /\ issued' # issued \/ ends' # ends => ~mfifo.full
<1> SUFFICES ASSUME Spaced PROVE Spec => FifosFindSpace
  OBVIOUS
<1>1. CInv /\ [Next]_vars => Room
  <2> SUFFICES ASSUME CInv, [Next]_vars PROVE Room
    OBVIOUS
  <2>1. ASSUME NEW i \in Inputs, Step(i) PROVE Room
    <3>1. /\ Takes(i) \/ Closes(i) => ~mfifo.full
          /\ Answers(i) => ~sfifo.full
      BY <2>1, NeverToFull
    <3>2. answered' = IF Answers(i) THEN answered + 1 ELSE answered
      BY <2>1, Zenon DEF Step, MasterPort, Answers
    <3>3. /\ issued' = IF Takes(i) THEN issued + 1 ELSE issued
          /\ ends' = IF Closes(i) THEN Append(ends, issued) ELSE ends
      <4>1. CASE i.se
        BY <2>1, <4>1, Zenon DEF Step, SlavePort, Takes, Closes
      <4>2. CASE ~i.se
        BY <2>1, <4>2, Zenon DEF Step, Takes, Closes
      <4> QED BY <4>1, <4>2
    <3> QED BY <3>1, <3>2, <3>3, Zenon
  <2>2. CASE Rests
    BY <2>2 DEF Rests, slaveUser, masterUser
  <2> QED BY <2>1, <2>2, NextIsStep DEF CInv
<1>2. Spec => []CInv
  BY CInvHolds
<1>3. Spec => [][Room]_vars
  BY <1>1, <1>2, PTL DEF Spec
<1> QED BY <1>3 DEF FifosFindSpace
=============================================================================
