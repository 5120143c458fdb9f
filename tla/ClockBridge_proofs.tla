------------------------- MODULE ClockBridge_proofs -------------------------
(***************************************************************************)
(* For any size of the FIFOs and any number of requests: requests cross    *)
(* the bridge once each and in order, CYC covers the replies and           *)
(* mdm_pend_cnt never wraps.  If the WB master has at most g_SIZE requests *)
(* outstanding, no reply meets a full FIFO, and the replies come back once *)
(* each and in order.  With more outstanding that is false: see README.    *)
(***************************************************************************)
EXTENDS ClockBridge, SequenceTheorems, TLAPS

-----------------------------------------------------------------------------
(* The FIFO                                                                *)

B(x) == IF x THEN 1 ELSE 0

Asked == [edge : BOOLEAN, rst_n : BOOLEAN, en : BOOLEAN]

(* The reader's view is never too high. *)
FifoOK(f) ==
  /\ f.queue \in Seq(Nat)
  /\ f.freed0 \in Nat /\ f.freed1 \in Nat /\ f.fresh0 \in Nat /\ f.fresh1 \in Nat
  /\ f.q \in Nat /\ f.wr_count \in Nat /\ f.full \in BOOLEAN /\ f.empty \in BOOLEAN
  /\ f.fresh0 + f.fresh1 <= Len(f.queue)
  /\ ~f.empty => f.fresh0 + f.fresh1 < Len(f.queue)

(* The numbers n+1, n+2, ... *)
Run(s, n) == \A k \in 1 .. Len(s) : s[k] = n + k

(* How the counts of h follow those of f when the edges w and r come. *)
Counted(size, f, h, w, r) ==
  LET we == we_int(f, w)
      rd == rd_int(f, r)
  IN /\ Len(h.queue) = Len(f.queue) + B(we) - B(rd)
     /\ IF w.edge THEN h.freed0 <= B(rd) /\ h.freed0 + h.freed1 = f.freed0 + B(rd)
                  ELSE h.freed0 = f.freed0 + B(rd) /\ h.freed1 = f.freed1
     /\ IF r.edge THEN h.fresh0 <= B(we) /\ h.fresh0 + h.fresh1 = f.fresh0 + B(we)
                  ELSE h.fresh0 = f.fresh0 + B(we) /\ h.fresh1 = f.fresh1
     /\ w.edge => (h.full <=> w.rst_n /\ \/ WriterSees(f) = size
                                         \/ we /\ WriterSees(f) + 1 = size)
     /\ ~w.edge => h.full = f.full
     /\ r.edge => (h.empty <=> \/ ~r.rst_n \/ ReaderSees(f) = 0
                               \/ rd /\ ReaderSees(f) = 1)
     /\ ~r.edge => h.empty = f.empty

LEMMA IntsBool ==
  ASSUME NEW f, NEW w \in Asked, NEW r \in Asked
  PROVE  we_int(f, w) \in BOOLEAN /\ rd_int(f, r) \in BOOLEAN
  BY DEF we_int, rd_int

LEMMA UnseenIs ==
  ASSUME NEW p, NEW s, NEW e, s \in BOOLEAN, e \in BOOLEAN, NEW u \in Unseen(p, s, e)
  PROVE  /\ e /\ s => u \in {0, 1}
         /\ e /\ ~s => u = 0
         /\ ~e /\ s => u = p + 1
         /\ ~e /\ ~s => u = p
<1>1. e /\ s => Unseen(p, s, e) = {0, 1}
  BY Zenon DEF Unseen
<1>2. e /\ ~s => Unseen(p, s, e) = {0}
  BY Zenon DEF Unseen
<1>3. ~e /\ s => Unseen(p, s, e) = {p + 1}
  BY Zenon DEF Unseen
<1>4. ~e /\ ~s => Unseen(p, s, e) = {p}
  BY Zenon DEF Unseen
<1> QED BY <1>1, <1>2, <1>3, <1>4

(* A pending count and its stage after an edge. *)
LEMMA MovedIs ==
  ASSUME NEW p \in Nat, NEW st \in Nat, NEW s \in BOOLEAN, NEW e \in BOOLEAN,
         NEW u \in Unseen(p, s, e)
  PROVE  /\ u \in Nat /\ Moved(p, st, s, e, u) \in Nat
         /\ IF e THEN u <= B(s) /\ u + Moved(p, st, s, e, u) = p + B(s)
                 ELSE u = p + B(s) /\ Moved(p, st, s, e, u) = st
<1>1. CASE e /\ s
  <2>1. u \in {0, 1}
    BY <1>1, UnseenIs, Zenon
  <2> QED BY <1>1, <2>1 DEF Moved, B
<1>2. CASE e /\ ~s
  <2>1. u = 0
    BY <1>2, UnseenIs, Zenon
  <2> QED BY <1>2, <2>1 DEF Moved, B
<1>3. CASE ~e /\ s
  <2>1. u = p + 1
    BY <1>3, UnseenIs, Zenon
  <2> QED BY <1>3, <2>1 DEF Moved, B
<1>4. CASE ~e /\ ~s
  <2>1. u = p
    BY <1>4, UnseenIs, Zenon
  <2> QED BY <1>4, <2>1 DEF Moved, B
<1> QED BY <1>1, <1>2, <1>3, <1>4

(* x, y: a pending count and its stage after an edge; what they are. *)
Sampled(p, st, s, e, x, y) == \E u \in Unseen(p, s, e) : x = u /\ y = Moved(p, st, s, e, u)

Staged(p, st, s, e, x, y) ==
  /\ x \in Nat /\ y \in Nat
  /\ IF e THEN x <= B(s) /\ x + y = p + B(s) ELSE x = p + B(s) /\ y = st

LEMMA StageIs ==
  ASSUME NEW p, NEW st, NEW s, NEW e, NEW x, NEW y,
         p \in Nat, st \in Nat, s \in BOOLEAN, e \in BOOLEAN, Sampled(p, st, s, e, x, y)
  PROVE  Staged(p, st, s, e, x, y)
<1>1. PICK u \in Unseen(p, s, e) : x = u /\ y = Moved(p, st, s, e, u)
  BY DEF Sampled
<1> QED BY <1>1, MovedIs DEF Staged

LEMMA RunTail ==
  ASSUME NEW s \in Seq(Nat), s # <<>>, NEW n \in Nat, Run(s, n)
  PROVE  Head(s) = n + 1 /\ Tail(s) \in Seq(Nat) /\ Len(Tail(s)) = Len(s) - 1
         /\ Run(Tail(s), n + 1)
  BY DEF Run

LEMMA RunAppend ==
  ASSUME NEW s \in Seq(Nat), NEW n \in Nat, Run(s, n)
  PROVE  Run(Append(s, n + Len(s) + 1), n)
  BY DEF Run

(* A read needs a word: it is there if the reader thinks so. *)
LEMMA ReadsWord ==
  ASSUME NEW f, FifoOK(f), NEW r \in Asked, rd_int(f, r)
  PROVE  f.queue # <<>> /\ ReaderSees(f) \in Nat /\ ReaderSees(f) > 0
  BY DEF FifoOK, rd_int, ReaderSees

LEMMA EdgesFields ==
  ASSUME NEW size, NEW f, NEW h, NEW w, NEW r, NEW word, h \in Edges(size, f, w, word, r)
  PROVE  /\ h.queue = IF we_int(f, w)
                      THEN Append(IF rd_int(f, r) THEN Tail(f.queue) ELSE f.queue, word)
                      ELSE IF rd_int(f, r) THEN Tail(f.queue) ELSE f.queue
         /\ h.q = IF rd_int(f, r) THEN Head(f.queue) ELSE f.q
         /\ h.wr_count = IF w.edge /\ w.rst_n THEN WriterSees(f) ELSE f.wr_count
         /\ h.full = IF w.edge
                     THEN w.rst_n /\ \/ WriterSees(f) = size
                                     \/ we_int(f, w) /\ WriterSees(f) + 1 = size
                     ELSE f.full
         /\ h.empty = IF r.edge
                      THEN ~r.rst_n \/ ReaderSees(f) = 0 \/ (rd_int(f, r) /\ ReaderSees(f) = 1)
                      ELSE f.empty
         /\ \E u \in Unseen(f.freed0, rd_int(f, r), w.edge) :
              h.freed0 = u /\ h.freed1 = Moved(f.freed0, f.freed1, rd_int(f, r), w.edge, u)
         /\ \E v \in Unseen(f.fresh0, we_int(f, w), r.edge) :
              h.fresh0 = v /\ h.fresh1 = Moved(f.fresh0, f.fresh1, we_int(f, w), r.edge, v)
<1> DEFINE we == we_int(f, w)
           rd == rd_int(f, r)
           queue == IF we THEN Append(IF rd THEN Tail(f.queue) ELSE f.queue, word)
                    ELSE IF rd THEN Tail(f.queue) ELSE f.queue
           full == IF w.edge
                   THEN w.rst_n /\ (WriterSees(f) = size \/ (we /\ WriterSees(f) + 1 = size))
                   ELSE f.full
           empty == IF r.edge
                    THEN ~r.rst_n \/ ReaderSees(f) = 0 \/ (rd /\ ReaderSees(f) = 1)
                    ELSE f.empty
           word_q == IF rd THEN Head(f.queue) ELSE f.q
           count == IF w.edge /\ w.rst_n THEN WriterSees(f) ELSE f.wr_count
           freed1(u) == Moved(f.freed0, f.freed1, rd, w.edge, u)
           fresh1(v) == Moved(f.fresh0, f.fresh1, we, r.edge, v)
<1>1. \E u \in Unseen(f.freed0, rd, w.edge), v \in Unseen(f.fresh0, we, r.edge) :
        h = [queue |-> queue, freed0 |-> u, freed1 |-> freed1(u),
             fresh0 |-> v, fresh1 |-> fresh1(v),
             full |-> full, empty |-> empty, q |-> word_q, wr_count |-> count]
  BY DEF Edges
<1> HIDE DEF we, rd, queue, full, empty, word_q, count, freed1, fresh1
<1>2. /\ h.queue = queue /\ h.full = full /\ h.empty = empty
      /\ h.q = word_q /\ h.wr_count = count
      /\ \E u \in Unseen(f.freed0, rd, w.edge) : h.freed0 = u /\ h.freed1 = freed1(u)
      /\ \E v \in Unseen(f.fresh0, we, r.edge) : h.fresh0 = v /\ h.fresh1 = fresh1(v)
  BY <1>1
<1> QED BY <1>2 DEF we, rd, queue, full, empty, word_q, count, freed1, fresh1

LEMMA EdgesOnFifo ==
  ASSUME NEW size, NEW f, NEW h, NEW w \in Asked, NEW r \in Asked, NEW word,
         FifoOK(f), h \in Edges(size, f, w, word, r), we_int(f, w) => word \in Nat
  PROVE  FifoOK(h) /\ Counted(size, f, h, w, r)
<1> DEFINE we == we_int(f, w)
           rd == rd_int(f, r)
           kept == IF rd THEN Tail(f.queue) ELSE f.queue
<1>0. we \in BOOLEAN /\ rd \in BOOLEAN /\ w.edge \in BOOLEAN /\ w.rst_n \in BOOLEAN
      /\ r.edge \in BOOLEAN /\ r.rst_n \in BOOLEAN
  BY IntsBool DEF Asked
<1>f. /\ h.queue = IF we THEN Append(kept, word) ELSE kept
      /\ h.q = IF rd THEN Head(f.queue) ELSE f.q
      /\ h.wr_count = IF w.edge /\ w.rst_n THEN WriterSees(f) ELSE f.wr_count
      /\ h.full = IF w.edge
                  THEN w.rst_n /\ (WriterSees(f) = size \/ (we /\ WriterSees(f) + 1 = size))
                  ELSE f.full
      /\ h.empty = IF r.edge
                   THEN ~r.rst_n \/ ReaderSees(f) = 0 \/ (rd /\ ReaderSees(f) = 1)
                   ELSE f.empty
      /\ \E u \in Unseen(f.freed0, rd, w.edge) :
           h.freed0 = u /\ h.freed1 = Moved(f.freed0, f.freed1, rd, w.edge, u)
      /\ \E v \in Unseen(f.fresh0, we, r.edge) :
           h.fresh0 = v /\ h.fresh1 = Moved(f.fresh0, f.fresh1, we, r.edge, v)
  BY EdgesFields
<1>1. /\ f.queue \in Seq(Nat) /\ Len(f.queue) \in Nat
      /\ f.freed0 \in Nat /\ f.freed1 \in Nat /\ f.fresh0 \in Nat /\ f.fresh1 \in Nat
      /\ f.q \in Nat /\ f.wr_count \in Nat /\ f.full \in BOOLEAN /\ f.empty \in BOOLEAN
      /\ f.fresh0 + f.fresh1 <= Len(f.queue)
  BY DEF FifoOK
<1>2. rd => f.queue # <<>> /\ ReaderSees(f) > 0
  BY ReadsWord
<1>3. kept \in Seq(Nat) /\ Len(kept) = Len(f.queue) - B(rd)
  <2>1. CASE rd
    BY <1>1, <1>2, <2>1, HeadTailProperties DEF B
  <2>2. CASE ~rd
    BY <1>1, <2>2 DEF B
  <2> QED BY <2>1, <2>2
<1>4. h.queue \in Seq(Nat) /\ Len(h.queue) = Len(f.queue) + B(we) - B(rd)
  <2>1. h.queue = IF we THEN Append(kept, word) ELSE kept
    BY <1>f, Zenon
  <2> HIDE DEF kept
  <2>2. CASE we
    <3>1. word \in Nat /\ h.queue = Append(kept, word)
      BY <2>1, <2>2
    <3>2. h.queue \in Seq(Nat) /\ Len(h.queue) = Len(kept) + 1
      BY <1>3, <3>1
    <3> HIDE DEF we, rd
    <3> QED BY <1>0, <1>1, <1>3, <2>2, <3>2 DEF B
  <2>3. CASE ~we
    <3> HIDE DEF we, rd
    <3> QED BY <1>0, <1>1, <1>3, <2>1, <2>3 DEF B
  <2> QED BY <2>2, <2>3
<1>5. h.q \in Nat
  <2>1. rd => Head(f.queue) \in Nat
    BY <1>1, <1>2, HeadTailProperties
  <2>2. h.q = IF rd THEN Head(f.queue) ELSE f.q
    BY <1>f, Zenon
  <2> QED BY <1>1, <2>1, <2>2
<1>6. h.wr_count \in Nat
  <2>1. h.wr_count = IF w.edge /\ w.rst_n THEN WriterSees(f) ELSE f.wr_count
    BY <1>f, Zenon
  <2>2. WriterSees(f) \in Nat
    BY <1>1 DEF WriterSees
  <2> QED BY <1>1, <2>1, <2>2
<1>7. /\ h.freed0 \in Nat /\ h.freed1 \in Nat
      /\ IF w.edge THEN h.freed0 <= B(rd) /\ h.freed0 + h.freed1 = f.freed0 + B(rd)
                   ELSE h.freed0 = f.freed0 + B(rd) /\ h.freed1 = f.freed1
  <2>1. Sampled(f.freed0, f.freed1, rd, w.edge, h.freed0, h.freed1)
    BY <1>f, Zenon DEF Sampled
  <2> HIDE DEF rd
  <2>2. Staged(f.freed0, f.freed1, rd, w.edge, h.freed0, h.freed1)
    BY <1>0, <1>1, <2>1, StageIs, Zenon
  <2> QED BY <2>2, Zenon DEF Staged
<1>8. /\ h.fresh0 \in Nat /\ h.fresh1 \in Nat
      /\ IF r.edge THEN h.fresh0 <= B(we) /\ h.fresh0 + h.fresh1 = f.fresh0 + B(we)
                   ELSE h.fresh0 = f.fresh0 + B(we) /\ h.fresh1 = f.fresh1
  <2>1. Sampled(f.fresh0, f.fresh1, we, r.edge, h.fresh0, h.fresh1)
    BY <1>f, Zenon DEF Sampled
  <2> HIDE DEF we
  <2>2. Staged(f.fresh0, f.fresh1, we, r.edge, h.fresh0, h.fresh1)
    BY <1>0, <1>1, <2>1, StageIs, Zenon
  <2> QED BY <2>2, Zenon DEF Staged
<1>9. /\ h.full \in BOOLEAN
      /\ w.edge => (h.full <=> w.rst_n /\ \/ WriterSees(f) = size
                                          \/ we /\ WriterSees(f) + 1 = size)
      /\ ~w.edge => h.full = f.full
  <2>1. h.full = IF w.edge
                 THEN w.rst_n /\ (WriterSees(f) = size \/ (we /\ WriterSees(f) + 1 = size))
                 ELSE f.full
    BY <1>f, Zenon
  <2>2. (w.rst_n /\ (WriterSees(f) = size \/ (we /\ WriterSees(f) + 1 = size))) \in BOOLEAN
    BY <1>0, Zenon
  <2> QED BY <1>0, <1>1, <2>1, <2>2, Zenon
<1>10. /\ h.empty \in BOOLEAN
       /\ r.edge => (h.empty <=> \/ ~r.rst_n \/ ReaderSees(f) = 0
                                 \/ rd /\ ReaderSees(f) = 1)
       /\ ~r.edge => h.empty = f.empty
  <2>1. h.empty = IF r.edge
                  THEN ~r.rst_n \/ ReaderSees(f) = 0 \/ (rd /\ ReaderSees(f) = 1)
                  ELSE f.empty
    BY <1>f, Zenon
  <2>2. (~r.rst_n \/ ReaderSees(f) = 0 \/ (rd /\ ReaderSees(f) = 1)) \in BOOLEAN
    BY <1>0, Zenon
  <2> QED BY <1>0, <1>1, <2>1, <2>2, Zenon
<1>11. Counted(size, f, h, w, r)
  BY <1>4, <1>7, <1>8, <1>9, <1>10, Zenon DEF Counted
<1>12. /\ h.fresh0 + h.fresh1 <= Len(h.queue)
       /\ ~h.empty => h.fresh0 + h.fresh1 < Len(h.queue)
  <2> DEFINE s == ReaderSees(f)
             bw == B(we)
             br == B(rd)
  <2>1. s = Len(f.queue) - (f.fresh0 + f.fresh1) /\ s \in Nat
    BY <1>1 DEF ReaderSees
  <2>2. /\ rd => s > 0
        /\ ~f.empty => s > 0
    BY <1>1, <1>2, <2>1 DEF FifoOK
  <2>3. bw \in {0, 1} /\ br \in {0, 1} /\ (rd <=> br = 1)
    BY <1>0 DEF B
  <2>4. rd => ~f.empty /\ r.edge
    BY DEF rd_int
  <2>5. /\ Len(h.queue) \in Nat /\ Len(h.queue) = Len(f.queue) + bw - br
        /\ h.fresh0 \in Nat /\ h.fresh1 \in Nat /\ h.empty \in BOOLEAN
        /\ r.edge => h.fresh0 + h.fresh1 = f.fresh0 + bw
        /\ ~r.edge => h.fresh0 = f.fresh0 + bw /\ h.fresh1 = f.fresh1
    BY <1>4, <1>8, <1>10
  <2>6. (r.edge /\ ~h.empty => s # 0 /\ ~(rd /\ s = 1)) /\ (~r.edge => (h.empty <=> f.empty))
    BY <1>1, <1>10
  <2> HIDE DEF s, bw, br, we, rd
  <2>7. CASE r.edge
    <3>1. h.fresh0 + h.fresh1 = f.fresh0 + bw
      BY <2>5, <2>7
    <3>2. (br = 1 => s > 0) /\ (~h.empty => s # 0 /\ ~(br = 1 /\ s = 1))
      BY <2>2, <2>3, <2>6, <2>7
    <3>3. Len(h.queue) = Len(f.queue) + bw - br
      BY <2>5
    <3>4. /\ f.fresh0 + bw <= Len(f.queue) + bw - br
          /\ ~h.empty => f.fresh0 + bw < Len(f.queue) + bw - br
      <4>1. /\ f.fresh0 \in Nat /\ f.fresh1 \in Nat /\ Len(f.queue) \in Nat
            /\ f.fresh0 + f.fresh1 <= Len(f.queue)
        BY <1>1
      <4>2. br = 0 \/ (br = 1 /\ s > 0)
        <5>1. br \in {0, 1}
          BY <2>3, Zenon
        <5>2. CASE br = 0
          BY <5>2
        <5>3. CASE br = 1
          BY <5>3, <3>2
        <5> QED BY <5>1, <5>2, <5>3
      <4>3. f.fresh0 + bw <= Len(f.queue) + bw - br
        BY <2>1, <2>3, <4>1, <4>2
      <4>4. ASSUME ~h.empty PROVE f.fresh0 + bw < Len(f.queue) + bw - br
        BY <2>1, <2>3, <3>2, <4>1, <4>2, <4>4
      <4> QED BY <4>3, <4>4
    <3> QED BY <3>1, <3>3, <3>4, Zenon
  <2>8. CASE ~r.edge
    <3>1. br = 0
      BY <2>3, <2>4, <2>8
    <3>2. Len(h.queue) - (h.fresh0 + h.fresh1) = s
      BY <1>1, <2>1, <2>3, <2>5, <2>8, <3>1
    <3> QED BY <2>1, <2>2, <2>5, <2>6, <2>8, <3>2
  <2> QED BY <1>0, <2>7, <2>8
<1>13. FifoOK(h)
  BY <1>4, <1>5, <1>6, <1>7, <1>8, <1>9, <1>10, <1>12 DEF FifoOK
<1> QED BY <1>11, <1>13

(* The sequence that is left when its head may be read and a word added. *)
Served(s, rd, we, word) ==
  IF we THEN Append(IF rd THEN Tail(s) ELSE s, word) ELSE IF rd THEN Tail(s) ELSE s

(* A FIFO that holds the numbers n+1, n+2, ... goes on holding such a run  *)
(* if each new word is the next number.                                    *)
LEMMA RunServed ==
  ASSUME NEW s, NEW n, NEW rd, NEW we, NEW word, s \in Seq(Nat), n \in Nat,
         rd \in BOOLEAN, we \in BOOLEAN, Run(s, n), rd => s # <<>>,
         we => word = n + Len(s) + 1
  PROVE  Run(Served(s, rd, we, word), n + B(rd)) /\ (rd => Head(s) = n + 1)
<1> DEFINE kept == IF rd THEN Tail(s) ELSE s
           m == n + B(rd)
<1>1. rd => /\ Head(s) = n + 1 /\ Tail(s) \in Seq(Nat)
            /\ Len(Tail(s)) = Len(s) - 1 /\ Run(Tail(s), n + 1)
  BY RunTail
<1>2. m \in Nat /\ kept \in Seq(Nat) /\ Run(kept, m) /\ m + Len(kept) = n + Len(s)
  <2>1. CASE rd
    BY <1>1, <2>1 DEF B
  <2>2. CASE ~rd
    BY <2>2 DEF B
  <2> QED BY <2>1, <2>2
<1>3. Run(Served(s, rd, we, word), m)
  <2>1. CASE we
    <3>1. word = m + Len(kept) + 1
      BY <1>2, <2>1
    <3>2. Served(s, rd, we, word) = Append(kept, m + Len(kept) + 1)
      BY <2>1, <3>1, Zenon DEF Served
    <3> HIDE DEF kept, m
    <3> QED BY <1>2, <3>2, RunAppend
  <2>2. CASE ~we
    BY <1>2, <2>2, Zenon DEF Served
  <2> QED BY <2>1, <2>2
<1> QED BY <1>1, <1>3

LEMMA EdgesRun ==
  ASSUME NEW size, NEW f, NEW h, NEW w \in Asked, NEW r \in Asked, NEW word, NEW n \in Nat,
         FifoOK(f), Run(f.queue, n), h \in Edges(size, f, w, word, r),
         we_int(f, w) => word = n + Len(f.queue) + 1
  PROVE  /\ Run(h.queue, n + B(rd_int(f, r)))
         /\ h.q = IF rd_int(f, r) THEN n + 1 ELSE f.q
<1>1. we_int(f, w) \in BOOLEAN /\ rd_int(f, r) \in BOOLEAN
  BY IntsBool
<1>2. /\ h.queue = Served(f.queue, rd_int(f, r), we_int(f, w), word)
      /\ h.q = IF rd_int(f, r) THEN Head(f.queue) ELSE f.q
  BY EdgesFields DEF Served
<1>3. rd_int(f, r) => f.queue # <<>>
  BY ReadsWord
<1>4. f.queue \in Seq(Nat)
  BY DEF FifoOK
<1>5. /\ Run(Served(f.queue, rd_int(f, r), we_int(f, w), word), n + B(rd_int(f, r)))
      /\ rd_int(f, r) => Head(f.queue) = n + 1
  BY <1>1, <1>3, <1>4, RunServed, Zenon
<1> QED BY <1>2, <1>5, Zenon

-----------------------------------------------------------------------------
(* The bridge                                                              *)

TypeOK ==
  /\ issued \in Nat /\ answered \in Nat /\ mdm_pend_cnt \in Nat /\ mdm_pend_cnt < g_SIZE
  /\ slave_rst_n \in BOOLEAN /\ master_rst_n \in BOOLEAN /\ sdm_rd_en_d1 \in BOOLEAN
  /\ mdm_rd_en_d1 \in BOOLEAN /\ mdm_wb_new_tr \in BOOLEAN
  /\ accepted \in Seq(Nat)
  /\ FifoOK(s2m) /\ FifoOK(m2s)

(* A FIFO is empty for its reader as long as that one is in reset. *)
ResetOK == /\ ~master_rst_n => s2m.empty /\ mdm_pend_cnt = 0
           /\ ~slave_rst_n => m2s.empty

(* The S2M FIFO holds the requests that were not fetched yet. *)
Fetched == mdm_pend_cnt + answered
RequestsOK == Fetched + Len(s2m.queue) = issued /\ Run(s2m.queue, Fetched)

(* The WB slave has all that was fetched, but for the request on STB. *)
AcceptedOK ==
  /\ Run(accepted, 0) /\ answered <= Len(accepted)
  /\ mdm_stb => Len(accepted) + 1 = Fetched /\ s2m.q = Fetched
  /\ ~mdm_stb => Len(accepted) = Fetched

BInv == TypeOK /\ ResetOK /\ RequestsOK /\ AcceptedOK

(* The edges of either clock or of both as one action: se, me tell which.  *)
SWrite(se, stb) == IF se THEN SdmWrite(stb) ELSE Idle
SRead(me, stall) == IF me THEN MdmRead(stall) ELSE Idle
MWrite(me, ack) == IF me THEN MdmWrite(ack) ELSE Idle
MRead(se) == IF se THEN SdmRead ELSE Idle
SWord(se) == IF se THEN issued + 1 ELSE 0
MWord(me, stall, ack) == IF me /\ ack THEN Reply(stall) ELSE 0

Step(se, me, stb, stall, ack) ==
  /\ se => SlavePort(stb)
  /\ ~se => UNCHANGED <<sdm_rd_en_d1, sdmUser>>
  /\ me => MasterPort(stall, ack)
  /\ ~me => UNCHANGED <<mdm_rd_en_d1, mdm_wb_new_tr, mdm_pend_cnt, mdmUser>>
  /\ s2m' \in Edges(g_SIZE, s2m, SWrite(se, stb), SWord(se), SRead(me, stall))
  /\ m2s' \in Edges(g_SIZE, m2s, MWrite(me, ack), MWord(me, stall, ack), MRead(se))
  /\ UNCHANGED <<slave_rst_n, master_rst_n>>

Release == /\ slave_rst_n' \in BOOLEAN /\ master_rst_n' \in BOOLEAN
           /\ slave_rst_n => slave_rst_n'
           /\ master_rst_n => master_rst_n'
           /\ UNCHANGED <<s2m, m2s, sdm_rd_en_d1, mdm_rd_en_d1,
                          mdm_wb_new_tr, mdm_pend_cnt, sdmUser, mdmUser>>

LEMMA NextIsStep ==
  ASSUME TypeOK, [Next]_vars
  PROVE  \/ \E se, me, stb, stall, ack \in BOOLEAN : Step(se, me, stb, stall, ack)
         \/ Release
<1>1. ASSUME NEW stb \in BOOLEAN, SlaveEdge(stb)
      PROVE  Step(TRUE, FALSE, stb, TRUE, FALSE)
  BY <1>1 DEF SlaveEdge, Step, SWrite, SRead, MWrite, MRead, SWord, MWord
<1>2. ASSUME NEW stall \in BOOLEAN, NEW ack \in BOOLEAN, MasterEdge(stall, ack)
      PROVE  Step(FALSE, TRUE, TRUE, stall, ack)
  BY <1>2 DEF MasterEdge, Step, SWrite, SRead, MWrite, MRead, SWord, MWord
<1>3. ASSUME NEW stb \in BOOLEAN, NEW stall \in BOOLEAN, NEW ack \in BOOLEAN,
             BothEdges(stb, stall, ack)
      PROVE  Step(TRUE, TRUE, stb, stall, ack)
  BY <1>3 DEF BothEdges, Step, SWrite, SRead, MWrite, MRead, SWord, MWord
<1>4. ReleaseSlave \/ ReleaseMaster \/ UNCHANGED vars => Release
  <2>1. ReleaseSlave => Release
    BY DEF ReleaseSlave, Release, TypeOK
  <2>2. ReleaseMaster => Release
    BY DEF ReleaseMaster, Release, TypeOK
  <2>3. UNCHANGED vars => Release
    BY DEF vars, Release, TypeOK, sdmUser, mdmUser
  <2> QED BY <2>1, <2>2, <2>3
<1> QED BY <1>1, <1>2, <1>3, <1>4, Zenon DEF Next

(* What an edge does: a request is taken, fetched, answered, its reply is  *)
(* written, and read.                                                      *)
Takes(se, stb) == se /\ stb /\ ~s2m.full
Fetches(me, stall) == me /\ mdm_rd_en(stall)
Answers(me, ack) == me /\ ack
Writes(me, ack) == me /\ ack /\ ~m2s.full
Gets(se) == se /\ ~m2s.empty

(* CYC is up whenever the WB slave answers. *)
LEMMA CycUp ==
  ASSUME BInv, NEW stall \in BOOLEAN, answered < Len(accepted) + B(Accepts(stall))
  PROVE  mdm_pend_cnt > 0
<1>1. CASE Accepts(stall)
  BY <1>1 DEF Accepts, mdm_cyc, mdm_pend_tr, BInv, TypeOK
<1>2. CASE ~Accepts(stall)
  <2>1. answered < Len(accepted)
    BY <1>2 DEF B, BInv, TypeOK
  <2>2. Len(accepted) <= Fetched /\ Len(accepted) \in Nat
    BY DEF BInv, TypeOK, AcceptedOK, Fetched
  <2> QED BY <2>1, <2>2 DEF Fetched, BInv, TypeOK
<1> QED BY <1>1, <1>2

LEMMA Bits ==
  ASSUME BInv, NEW se \in BOOLEAN, NEW me \in BOOLEAN, NEW stb \in BOOLEAN,
         NEW stall \in BOOLEAN, NEW ack \in BOOLEAN, Step(se, me, stb, stall, ack)
  PROVE  /\ SWrite(se, stb) \in Asked /\ SRead(me, stall) \in Asked
         /\ MWrite(me, ack) \in Asked /\ MRead(se) \in Asked
         /\ SWrite(se, stb).edge = se /\ SRead(me, stall).edge = me
         /\ MWrite(me, ack).edge = me /\ MRead(se).edge = se
         /\ SWrite(se, stb).rst_n = (se => slave_rst_n)
         /\ SRead(me, stall).rst_n = (me => master_rst_n)
         /\ MWrite(me, ack).rst_n = (me => master_rst_n)
         /\ MRead(se).rst_n = (se => slave_rst_n)
         /\ we_int(s2m, SWrite(se, stb)) <=> Takes(se, stb)
         /\ rd_int(s2m, SRead(me, stall)) <=> Fetches(me, stall)
         /\ we_int(m2s, MWrite(me, ack)) <=> Writes(me, ack)
         /\ rd_int(m2s, MRead(se)) <=> Gets(se)
         /\ Answers(me, ack) => mdm_pend_cnt > 0
<1>1. /\ slave_rst_n \in BOOLEAN /\ master_rst_n \in BOOLEAN
      /\ s2m.full \in BOOLEAN /\ s2m.empty \in BOOLEAN
      /\ m2s.full \in BOOLEAN /\ m2s.empty \in BOOLEAN
  BY DEF BInv, TypeOK, FifoOK
<1>2. Answers(me, ack) => mdm_pend_cnt > 0
  <2>1. me /\ ack => answered < Len(accepted) + B(Accepts(stall))
    BY DEF Step, MasterPort, B
  <2> QED BY <2>1, CycUp DEF Answers
<1>3. me /\ mdm_wr_en(ack) <=> Answers(me, ack)
  BY <1>2 DEF Answers, mdm_wr_en, mdm_cyc, mdm_pend_tr, BInv, TypeOK
<1>4. se /\ stb => slave_rst_n
  BY DEF Step, SlavePort
<1>5. /\ Answers(me, ack) => master_rst_n
      /\ ~master_rst_n => s2m.empty
      /\ ~slave_rst_n => m2s.empty
  BY <1>1, <1>2 DEF BInv, ResetOK, TypeOK
<1>6. /\ (stb /\ ~sdm_stall) \in BOOLEAN /\ sdm_rd_en \in BOOLEAN
      /\ mdm_rd_en(stall) \in BOOLEAN /\ mdm_wr_en(ack) \in BOOLEAN
  BY <1>1, Zenon DEF sdm_stall, sdm_rd_en, mdm_rd_en, mdm_wr_en
<1>7. /\ SWrite(se, stb) \in Asked /\ SRead(me, stall) \in Asked
      /\ MWrite(me, ack) \in Asked /\ MRead(se) \in Asked
  BY <1>1, <1>6 DEF SWrite, SRead, MWrite, MRead, SdmWrite, SdmRead, MdmRead, MdmWrite,
                    Ask, Idle, Asked
<1>8. /\ SWrite(se, stb).edge = se /\ SRead(me, stall).edge = me
      /\ MWrite(me, ack).edge = me /\ MRead(se).edge = se
      /\ SWrite(se, stb).rst_n = (se => slave_rst_n)
      /\ SRead(me, stall).rst_n = (me => master_rst_n)
      /\ MWrite(me, ack).rst_n = (me => master_rst_n)
      /\ MRead(se).rst_n = (se => slave_rst_n)
      /\ SWrite(se, stb).en = (se /\ stb /\ ~s2m.full)
      /\ SRead(me, stall).en = (me /\ mdm_rd_en(stall))
      /\ MWrite(me, ack).en = (me /\ mdm_wr_en(ack))
      /\ MRead(se).en = (se /\ ~m2s.empty)
  BY <1>1, <1>6 DEF SWrite, SRead, MWrite, MRead, SdmWrite, SdmRead, MdmRead, MdmWrite,
                    Ask, Idle, sdm_stall, sdm_rd_en
<1>9. mdm_rd_en(stall) => ~s2m.empty
  BY DEF mdm_rd_en
<1>10. we_int(s2m, SWrite(se, stb)) <=> Takes(se, stb)
  BY <1>1, <1>4, <1>8 DEF we_int, Takes
<1>11. rd_int(s2m, SRead(me, stall)) <=> Fetches(me, stall)
  BY <1>1, <1>5, <1>6, <1>8, <1>9 DEF rd_int, Fetches
<1>12. we_int(m2s, MWrite(me, ack)) <=> Writes(me, ack)
  BY <1>1, <1>3, <1>5, <1>6, <1>8 DEF we_int, Writes, Answers
<1>13. rd_int(m2s, MRead(se)) <=> Gets(se)
  BY <1>1, <1>5, <1>8 DEF rd_int, Gets
<1> QED BY <1>2, <1>7, <1>8, <1>10, <1>11, <1>12, <1>13, Zenon

LEMMA BIs ==
  ASSUME NEW x, NEW y, x <=> y
  PROVE  B(x) = B(y) /\ B(x) \in {0, 1}
  BY DEF B

(* The S2M FIFO takes and gives a request ... *)
LEMMA S2mStep ==
  ASSUME BInv, NEW se \in BOOLEAN, NEW me \in BOOLEAN, NEW stb \in BOOLEAN,
         NEW stall \in BOOLEAN, NEW ack \in BOOLEAN, Step(se, me, stb, stall, ack)
  PROVE  /\ FifoOK(s2m')
         /\ Run(s2m'.queue, Fetched + B(Fetches(me, stall)))
         /\ s2m'.q = IF Fetches(me, stall) THEN Fetched + 1 ELSE s2m.q
         /\ Len(s2m'.queue) = Len(s2m.queue) + B(Takes(se, stb)) - B(Fetches(me, stall))
         /\ me => s2m'.fresh0 + s2m'.fresh1 = s2m.fresh0 + B(Takes(se, stb))
         /\ ~me => s2m'.fresh0 = s2m.fresh0 + B(Takes(se, stb)) /\ s2m'.fresh1 = s2m.fresh1
         /\ ~master_rst_n => s2m'.empty
<1> DEFINE w == SWrite(se, stb)
           r == SRead(me, stall)
<1>1. /\ w \in Asked /\ r \in Asked /\ r.edge = me /\ r.rst_n = (me => master_rst_n)
      /\ we_int(s2m, w) <=> Takes(se, stb)
      /\ rd_int(s2m, r) <=> Fetches(me, stall)
  BY Bits
<1>2. s2m' \in Edges(g_SIZE, s2m, w, SWord(se), r)
  BY DEF Step
<1>3. FifoOK(s2m) /\ Fetched \in Nat /\ Run(s2m.queue, Fetched)
      /\ issued = Fetched + Len(s2m.queue) /\ issued \in Nat
  <2>1. Fetched \in Nat
    BY DEF BInv, TypeOK, Fetched
  <2> QED BY <2>1, Zenon DEF BInv, TypeOK, RequestsOK
<1>4. we_int(s2m, w) => SWord(se) = Fetched + Len(s2m.queue) + 1 /\ SWord(se) \in Nat
  BY <1>1, <1>3 DEF SWord, Takes
<1> HIDE DEF w, r
<1>5. FifoOK(s2m') /\ Counted(g_SIZE, s2m, s2m', w, r)
  BY <1>1, <1>2, <1>3, <1>4, EdgesOnFifo, Zenon
<1>6. /\ Run(s2m'.queue, Fetched + B(rd_int(s2m, r)))
      /\ s2m'.q = IF rd_int(s2m, r) THEN Fetched + 1 ELSE s2m.q
  BY <1>1, <1>2, <1>3, <1>4, EdgesRun, Zenon
<1>7. B(we_int(s2m, w)) = B(Takes(se, stb)) /\ B(rd_int(s2m, r)) = B(Fetches(me, stall))
  BY <1>1, BIs, Zenon
<1>8. /\ Len(s2m'.queue) = Len(s2m.queue) + B(we_int(s2m, w)) - B(rd_int(s2m, r))
      /\ IF r.edge
         THEN s2m'.fresh0 + s2m'.fresh1 = s2m.fresh0 + B(we_int(s2m, w))
         ELSE s2m'.fresh0 = s2m.fresh0 + B(we_int(s2m, w)) /\ s2m'.fresh1 = s2m.fresh1
      /\ r.edge /\ ~r.rst_n => s2m'.empty
      /\ ~r.edge => s2m'.empty = s2m.empty
  BY <1>5, Zenon DEF Counted
<1>9. ~master_rst_n => s2m'.empty
  BY <1>1, <1>8, Zenon DEF BInv, ResetOK
<1> QED BY <1>1, <1>5, <1>6, <1>7, <1>8, <1>9, Zenon

(* ... and so does the M2S FIFO with the replies. *)
LEMMA M2sStep ==
  ASSUME BInv, NEW se \in BOOLEAN, NEW me \in BOOLEAN, NEW stb \in BOOLEAN,
         NEW stall \in BOOLEAN, NEW ack \in BOOLEAN, Step(se, me, stb, stall, ack),
         Answers(me, ack) => Reply(stall) = answered + 1
  PROVE  /\ FifoOK(m2s')
         /\ Counted(g_SIZE, m2s, m2s', MWrite(me, ack), MRead(se))
         /\ ~slave_rst_n => m2s'.empty
         /\ \A n \in Nat : Run(m2s.queue, n) /\ n + Len(m2s.queue) = answered =>
              /\ Run(m2s'.queue, n + B(Gets(se)))
              /\ m2s'.q = IF Gets(se) THEN n + 1 ELSE m2s.q
<1> DEFINE w == MWrite(me, ack)
           r == MRead(se)
<1>1. /\ w \in Asked /\ r \in Asked /\ r.edge = se /\ r.rst_n = (se => slave_rst_n)
      /\ we_int(m2s, w) <=> Writes(me, ack)
      /\ rd_int(m2s, r) <=> Gets(se)
  BY Bits
<1>2. m2s' \in Edges(g_SIZE, m2s, w, MWord(me, stall, ack), r)
  BY DEF Step
<1>3. FifoOK(m2s) /\ answered \in Nat
  BY DEF BInv, TypeOK
<1>4. we_int(m2s, w) => MWord(me, stall, ack) = answered + 1 /\ MWord(me, stall, ack) \in Nat
  BY <1>1, <1>3 DEF MWord, Writes, Answers
<1> HIDE DEF w, r
<1>5. FifoOK(m2s') /\ Counted(g_SIZE, m2s, m2s', w, r)
  BY <1>1, <1>2, <1>3, <1>4, EdgesOnFifo, Zenon
<1>6. ASSUME NEW n \in Nat, Run(m2s.queue, n), n + Len(m2s.queue) = answered
      PROVE  /\ Run(m2s'.queue, n + B(Gets(se)))
             /\ m2s'.q = IF Gets(se) THEN n + 1 ELSE m2s.q
  <2>1. we_int(m2s, w) => MWord(me, stall, ack) = n + Len(m2s.queue) + 1
    BY <1>4, <1>6, Zenon
  <2>2. /\ Run(m2s'.queue, n + B(rd_int(m2s, r)))
        /\ m2s'.q = IF rd_int(m2s, r) THEN n + 1 ELSE m2s.q
    BY <1>1, <1>2, <1>3, <1>6, <2>1, EdgesRun, Zenon
  <2>3. B(rd_int(m2s, r)) = B(Gets(se))
    BY <1>1, BIs, Zenon
  <2> QED BY <1>1, <2>2, <2>3, Zenon
<1>7. /\ r.edge /\ ~r.rst_n => m2s'.empty
      /\ ~r.edge => m2s'.empty = m2s.empty
  BY <1>5, Zenon DEF Counted
<1>8. ~slave_rst_n => m2s'.empty
  BY <1>1, <1>7, Zenon DEF BInv, ResetOK
<1> QED BY <1>5, <1>6, <1>8, Zenon DEF w, r

(* mdm_pend_cnt counts fetches and answers and does not wrap. *)
LEMMA PendStep ==
  ASSUME BInv, NEW se \in BOOLEAN, NEW me \in BOOLEAN, NEW stb \in BOOLEAN,
         NEW stall \in BOOLEAN, NEW ack \in BOOLEAN, Step(se, me, stb, stall, ack)
  PROVE  /\ mdm_pend_cnt' \in Nat /\ mdm_pend_cnt' < g_SIZE
         /\ mdm_pend_cnt' = mdm_pend_cnt + B(Fetches(me, stall)) - B(Answers(me, ack))
         /\ answered' = answered + B(Answers(me, ack))
         /\ ~master_rst_n => mdm_pend_cnt' = 0
<1> DEFINE rd == mdm_rd_en(stall)
           wr == mdm_wr_en(ack)
<1>1. /\ mdm_pend_cnt \in Nat /\ mdm_pend_cnt < g_SIZE /\ answered \in Nat
      /\ g_SIZE \in Nat /\ g_SIZE >= 2 /\ m2s.wr_count \in Nat
      /\ ~master_rst_n => s2m.empty /\ mdm_pend_cnt = 0
  BY SizeAssumption DEF BInv, TypeOK, ResetOK, FifoOK
<1>2. rd => mdm_pend_cnt + 1 < g_SIZE /\ ~s2m.empty
  <2> DEFINE x == m2s.wr_count % g_SIZE
  <2>1. x \in Nat
    BY <1>1
  <2>2. rd => mdm_pend_cnt < (g_SIZE - 1) - x
    BY DEF mdm_rd_en, mdm_block_en, mdm_block_lim, mdm_m2s_count
  <2>3. rd => ~s2m.empty
    BY DEF mdm_rd_en
  <2> HIDE DEF x, rd
  <2> QED BY <1>1, <2>1, <2>2, <2>3
<1>3. Answers(me, ack) => mdm_pend_cnt > 0
  BY Bits
<1>4. me => (wr <=> ack)
  BY <1>1, <1>3 DEF Answers, mdm_wr_en, mdm_cyc, mdm_pend_tr
<1>5. rd \in BOOLEAN /\ wr \in BOOLEAN /\ master_rst_n \in BOOLEAN
  BY Zenon DEF mdm_rd_en, mdm_wr_en, BInv, TypeOK
<1>6. answered' = answered + B(Answers(me, ack))
  BY <1>1 DEF Step, MasterPort, Answers, B, mdmUser
<1>7. CASE ~me
  <2>1. mdm_pend_cnt' = mdm_pend_cnt
    BY <1>7 DEF Step
  <2>2. B(Fetches(me, stall)) = 0 /\ B(Answers(me, ack)) = 0
    BY <1>7 DEF Fetches, Answers, B
  <2> QED BY <1>1, <1>6, <2>1, <2>2
<1>8. CASE me
  <2>1. mdm_pend_cnt' = CASE ~master_rst_n -> 0
                          [] master_rst_n /\ rd /\ ~wr -> (mdm_pend_cnt + 1) % g_SIZE
                          [] master_rst_n /\ ~rd /\ wr -> (mdm_pend_cnt + g_SIZE - 1) % g_SIZE
                          [] OTHER -> mdm_pend_cnt
    BY <1>8, Zenon DEF Step, MasterPort
  <2>2. B(Fetches(me, stall)) = B(rd) /\ B(Answers(me, ack)) = B(wr)
    BY <1>4, <1>5, <1>8 DEF Fetches, Answers, B
  <2>3. wr => mdm_pend_cnt > 0
    BY <1>1 DEF mdm_wr_en, mdm_cyc, mdm_pend_tr
  <2> HIDE DEF rd, wr
  <2>4. CASE ~master_rst_n
    <3>1. mdm_pend_cnt' = 0
      BY <2>1, <2>4, Zenon
    <3>2. mdm_pend_cnt = 0 /\ ~rd /\ ~wr
      BY <1>1, <1>2, <2>3, <2>4
    <3> QED BY <1>1, <1>6, <2>2, <3>1, <3>2 DEF B
  <2>5. CASE master_rst_n /\ rd /\ ~wr
    <3>1. mdm_pend_cnt' = (mdm_pend_cnt + 1) % g_SIZE
      BY <2>1, <2>5, Zenon
    <3>2. (mdm_pend_cnt + 1) % g_SIZE = mdm_pend_cnt + 1
      BY <1>1, <1>2, <2>5
    <3> QED BY <1>1, <1>2, <1>6, <2>2, <2>5, <3>1, <3>2 DEF B
  <2>6. CASE master_rst_n /\ ~rd /\ wr
    <3>1. mdm_pend_cnt' = (mdm_pend_cnt + g_SIZE - 1) % g_SIZE
      BY <2>1, <2>6, Zenon
    <3>2. (mdm_pend_cnt + g_SIZE - 1) % g_SIZE = mdm_pend_cnt - 1
      BY <1>1, <2>3, <2>6
    <3> QED BY <1>1, <1>6, <2>2, <2>3, <2>6, <3>1, <3>2 DEF B
  <2>7. CASE master_rst_n /\ (rd <=> wr)
    <3>1. mdm_pend_cnt' = mdm_pend_cnt
      BY <1>5, <2>1, <2>7, Zenon
    <3> QED BY <1>1, <1>5, <1>6, <2>2, <2>7, <3>1 DEF B
  <2> QED BY <1>5, <2>4, <2>5, <2>6, <2>7, Zenon
<1> QED BY <1>7, <1>8

(* The WB slave's reply is the next number. *)
LEMMA ReplyIs ==
  ASSUME BInv, NEW stall \in BOOLEAN, answered < Len(accepted) + B(Accepts(stall))
  PROVE  Reply(stall) = answered + 1
<1>1. /\ accepted \in Seq(Nat) /\ answered \in Nat /\ Run(accepted, 0)
      /\ answered <= Len(accepted) /\ Len(accepted) \in Nat
  BY DEF BInv, TypeOK, AcceptedOK
<1>2. CASE Accepts(stall)
  <2>1. s2m.q = Len(accepted) + 1 /\ s2m.q \in Nat
    BY <1>1, <1>2 DEF Accepts, BInv, TypeOK, FifoOK, AcceptedOK
  <2>2. Reply(stall) = (accepted \o <<s2m.q>>)[answered + 1]
    BY <1>2 DEF Reply
  <2>3. CASE answered < Len(accepted)
    BY <1>1, <2>1, <2>2, <2>3 DEF Run
  <2>4. CASE answered = Len(accepted)
    BY <1>1, <2>1, <2>2, <2>4
  <2> QED BY <1>1, <2>3, <2>4
<1>3. CASE ~Accepts(stall)
  <2>1. Reply(stall) = (accepted \o <<>>)[answered + 1]
    BY <1>3 DEF Reply
  <2>2. accepted \o <<>> = accepted
    BY <1>1
  <2>3. answered + 1 \in 1 .. Len(accepted)
    BY <1>1, <1>3 DEF B
  <2> QED BY <1>1, <2>1, <2>2, <2>3 DEF Run
<1> QED BY <1>2, <1>3

(* The WB slave takes the request on STB, or it stays there, or another    *)
(* one follows at once: fetching stops while one is stalled.               *)
LEMMA AcceptedStep ==
  ASSUME BInv, NEW se \in BOOLEAN, NEW me \in BOOLEAN, NEW stb \in BOOLEAN,
         NEW stall \in BOOLEAN, NEW ack \in BOOLEAN, Step(se, me, stb, stall, ack)
  PROVE  AcceptedOK' /\ accepted' \in Seq(Nat)
         /\ mdm_rd_en_d1' \in BOOLEAN /\ mdm_wb_new_tr' \in BOOLEAN
<1> DEFINE o == Fetches(me, stall)
<1>1. /\ accepted \in Seq(Nat) /\ answered \in Nat /\ Run(accepted, 0) /\ mdm_pend_cnt \in Nat
      /\ answered <= Len(accepted) /\ Len(accepted) \in Nat /\ s2m.q \in Nat
      /\ mdm_rd_en_d1 \in BOOLEAN /\ mdm_wb_new_tr \in BOOLEAN
      /\ mdm_stb => Len(accepted) + 1 = Fetched /\ s2m.q = Fetched
      /\ ~mdm_stb => Len(accepted) = Fetched
      /\ Fetched = mdm_pend_cnt + answered
  BY DEF BInv, TypeOK, AcceptedOK, FifoOK, Fetched
<1>2. /\ mdm_stb <=> mdm_rd_en_d1 \/ mdm_wb_new_tr
      /\ mdm_stb' <=> mdm_rd_en_d1' \/ mdm_wb_new_tr'
  BY DEF mdm_stb
<1>3. Fetched' = Fetched + B(o) /\ B(o) \in {0, 1} /\ (o <=> B(o) = 1) /\ Fetched \in Nat
  <2>1. /\ mdm_pend_cnt' = mdm_pend_cnt + B(o) - B(Answers(me, ack))
        /\ answered' = answered + B(Answers(me, ack))
    BY PendStep
  <2>2. B(o) \in {0, 1} /\ B(Answers(me, ack)) \in {0, 1} /\ (o <=> B(o) = 1)
    BY BIs DEF B
  <2>3. /\ Fetched' = mdm_pend_cnt' + answered'
        /\ mdm_pend_cnt \in Nat /\ answered \in Nat /\ Fetched = mdm_pend_cnt + answered
    BY <1>1 DEF Fetched
  <2> DEFINE bo == B(o)
             ba == B(Answers(me, ack))
  <2>4. /\ mdm_pend_cnt' = mdm_pend_cnt + bo - ba /\ answered' = answered + ba
        /\ bo \in {0, 1} /\ ba \in {0, 1}
    BY <2>1, <2>2
  <2> HIDE DEF bo, ba
  <2>5. Fetched' = Fetched + bo /\ Fetched \in Nat
    BY <2>3, <2>4
  <2> QED BY <2>2, <2>5, Zenon DEF bo
<1>4. s2m'.q = IF o THEN Fetched + 1 ELSE s2m.q
  BY S2mStep
<1>5. CASE ~me
  <2>1. /\ UNCHANGED <<accepted, answered, mdm_rd_en_d1, mdm_wb_new_tr>>
        /\ ~o
    BY <1>5 DEF Step, mdmUser, Fetches
  <2>2. Fetched' = Fetched /\ s2m'.q = s2m.q
    BY <1>3, <1>4, <2>1
  <2>3. mdm_stb' <=> mdm_stb
    BY <1>2, <2>1
  <2> QED BY <1>1, <2>1, <2>2, <2>3 DEF AcceptedOK
<1>6. CASE me
  <2>1. /\ accepted' = IF Accepts(stall) THEN Append(accepted, s2m.q) ELSE accepted
        /\ mdm_rd_en_d1' = mdm_rd_en(stall)
        /\ mdm_wb_new_tr' = (mdm_stb /\ stall)
        /\ ack => answered < Len(accepted) + B(Accepts(stall))
        /\ answered' = IF ack THEN answered + 1 ELSE answered
        /\ o <=> mdm_rd_en(stall)
    BY <1>6 DEF Step, MasterPort, B, Fetches
  <2>2. mdm_rd_en_d1' \in BOOLEAN /\ mdm_wb_new_tr' \in BOOLEAN
    BY <2>1, Zenon DEF mdm_rd_en, mdm_stb
  <2>3. mdm_stb' <=> o \/ (mdm_stb /\ stall)
    BY <1>2, <2>1, Zenon
  <2>4. mdm_stb => mdm_cyc
    BY <1>1 DEF mdm_cyc, mdm_pend_tr
  <2>5. Accepts(stall) <=> mdm_stb /\ ~stall
    BY <2>4 DEF Accepts
  <2>6. o => ~(mdm_stb /\ stall)
    BY <2>1, <2>4 DEF mdm_rd_en, mdm_cyc
  <2>7. /\ accepted' \in Seq(Nat) /\ Run(accepted', 0)
        /\ Len(accepted') = Len(accepted) + B(Accepts(stall))
    <3>1. CASE Accepts(stall)
      <4>1. accepted' = Append(accepted, 0 + Len(accepted) + 1)
        BY <1>1, <2>1, <2>5, <3>1
      <4> QED BY <1>1, <3>1, <4>1, RunAppend DEF B
    <3>2. CASE ~Accepts(stall)
      BY <1>1, <2>1, <3>2 DEF B
    <3> QED BY <3>1, <3>2
  <2>8. B(Accepts(stall)) \in {0, 1} /\ (Accepts(stall) <=> B(Accepts(stall)) = 1)
    BY DEF B
  <2>9. answered' <= Len(accepted')
    BY <1>1, <2>1, <2>7, <2>8
  <2> HIDE DEF o
  <2>10. /\ mdm_stb' => Len(accepted') + 1 = Fetched' /\ s2m'.q = Fetched'
         /\ ~mdm_stb' => Len(accepted') = Fetched'
    BY <1>1, <1>3, <1>4, <2>3, <2>5, <2>6, <2>7, <2>8
  <2> QED BY <2>2, <2>7, <2>9, <2>10, Zenon DEF AcceptedOK
<1> QED BY <1>5, <1>6

LEMMA SdmStep ==
  ASSUME BInv, NEW se \in BOOLEAN, NEW me \in BOOLEAN, NEW stb \in BOOLEAN,
         NEW stall \in BOOLEAN, NEW ack \in BOOLEAN, Step(se, me, stb, stall, ack)
  PROVE  /\ issued' = issued + B(Takes(se, stb)) /\ issued' \in Nat
         /\ Takes(se, stb) => issued < Len(replied) + MaxOutstanding
         /\ sdm_rd_en_d1' = IF se THEN Gets(se) ELSE sdm_rd_en_d1
         /\ sdm_rd_en_d1' \in BOOLEAN
         /\ replied' = IF se /\ sdm_rd_en_d1 THEN Append(replied, m2s.q) ELSE replied
<1>1. issued \in Nat /\ sdm_rd_en_d1 \in BOOLEAN
  BY DEF BInv, TypeOK
<1>2. CASE ~se
  BY <1>1, <1>2 DEF Step, sdmUser, Takes, B
<1>3. CASE se
  <2>1. SlavePort(stb)
    BY <1>3 DEF Step
  <2>2. /\ issued' = IF stb /\ ~s2m.full THEN issued + 1 ELSE issued
        /\ stb => issued < Len(replied) + MaxOutstanding
        /\ replied' = IF sdm_rd_en_d1 THEN Append(replied, m2s.q) ELSE replied
    BY <2>1, Zenon DEF SlavePort, sdm_stall
  <2>3. sdm_rd_en_d1' = Gets(se) /\ Gets(se) \in BOOLEAN
    BY <2>1, <1>3 DEF SlavePort, sdm_rd_en, Gets
  <2>4. Takes(se, stb) <=> stb /\ ~s2m.full
    BY <1>3 DEF Takes
  <2>5. issued' = issued + B(Takes(se, stb)) /\ issued' \in Nat
    BY <1>1, <2>2, <2>4 DEF B
  <2> QED BY <1>3, <2>2, <2>3, <2>4, <2>5, Zenon
<1> QED BY <1>2, <1>3

LEMMA BInvCounts ==
  ASSUME BInv
  PROVE  /\ mdm_pend_cnt \in Nat /\ answered \in Nat /\ issued \in Nat
         /\ Len(s2m.queue) \in Nat /\ Len(accepted) \in Nat
         /\ Fetched = mdm_pend_cnt + answered /\ Fetched + Len(s2m.queue) = issued
         /\ answered <= Len(accepted) /\ Len(accepted) <= Fetched
<1>1. s2m.queue \in Seq(Nat) /\ accepted \in Seq(Nat)
  BY DEF BInv, TypeOK, FifoOK
<1>2. Len(s2m.queue) \in Nat /\ Len(accepted) \in Nat
  BY <1>1
<1>3. mdm_pend_cnt \in Nat /\ answered \in Nat /\ issued \in Nat
  BY DEF BInv, TypeOK
<1>4. Fetched = mdm_pend_cnt + answered /\ Fetched + Len(s2m.queue) = issued
  BY Zenon DEF BInv, RequestsOK, Fetched
<1>5. /\ answered <= Len(accepted)
      /\ Len(accepted) + 1 = Fetched \/ Len(accepted) = Fetched
  BY Zenon DEF BInv, AcceptedOK
<1>6. Len(accepted) <= Fetched
  BY <1>2, <1>3, <1>4, <1>5
<1> QED BY <1>2, <1>3, <1>4, <1>5, <1>6, Zenon

LEMMA BInvInit == Init => BInv
<1> SUFFICES ASSUME Init PROVE BInv
  OBVIOUS
<1>1. FifoOK(EmptyFifo(0)) /\ EmptyFifo(0).empty /\ EmptyFifo(0).queue = <<>>
  BY DEF FifoOK, EmptyFifo
<1>2. FifoOK(s2m) /\ FifoOK(m2s) /\ s2m.empty /\ m2s.empty /\ s2m.queue = <<>>
  BY <1>1, Zenon DEF Init
<1>3. TypeOK
  <2>1. 0 \in Nat /\ 0 < g_SIZE /\ <<>> \in Seq(Nat)
    BY SizeAssumption
  <2> QED BY <1>2, <2>1, Zenon DEF Init, TypeOK
<1>4. ResetOK
  BY <1>2 DEF Init, ResetOK
<1>5. Fetched = 0
  BY DEF Init, Fetched
<1>6. RequestsOK
  BY <1>2, <1>5 DEF Init, RequestsOK, Run
<1>7. AcceptedOK
  BY <1>5 DEF Init, AcceptedOK, mdm_stb, Run
<1> QED BY <1>3, <1>4, <1>6, <1>7 DEF BInv

LEMMA BInvStep ==
  ASSUME BInv, NEW se \in BOOLEAN, NEW me \in BOOLEAN, NEW stb \in BOOLEAN,
         NEW stall \in BOOLEAN, NEW ack \in BOOLEAN, Step(se, me, stb, stall, ack)
  PROVE  BInv'
<1>1. /\ FifoOK(s2m')
      /\ Run(s2m'.queue, Fetched + B(Fetches(me, stall)))
      /\ Len(s2m'.queue) = Len(s2m.queue) + B(Takes(se, stb)) - B(Fetches(me, stall))
      /\ ~master_rst_n => s2m'.empty
  BY S2mStep
<1>2. Answers(me, ack) => Reply(stall) = answered + 1
  <2>1. me /\ ack => answered < Len(accepted) + B(Accepts(stall))
    BY DEF Step, MasterPort, B
  <2> QED BY <2>1, ReplyIs DEF Answers
<1>3. FifoOK(m2s') /\ (~slave_rst_n => m2s'.empty)
  BY <1>2, M2sStep
<1>4. /\ mdm_pend_cnt' \in Nat /\ mdm_pend_cnt' < g_SIZE
      /\ mdm_pend_cnt' = mdm_pend_cnt + B(Fetches(me, stall)) - B(Answers(me, ack))
      /\ answered' = answered + B(Answers(me, ack))
      /\ ~master_rst_n => mdm_pend_cnt' = 0
  BY PendStep
<1>5. /\ issued' = issued + B(Takes(se, stb)) /\ issued' \in Nat
      /\ sdm_rd_en_d1' \in BOOLEAN
  BY SdmStep
<1>6. AcceptedOK' /\ accepted' \in Seq(Nat)
      /\ mdm_rd_en_d1' \in BOOLEAN /\ mdm_wb_new_tr' \in BOOLEAN
  BY AcceptedStep
<1>7. slave_rst_n' = slave_rst_n /\ master_rst_n' = master_rst_n
  BY DEF Step
<1>8. ResetOK'
  BY <1>1, <1>3, <1>4, <1>7 DEF ResetOK
<1>9. answered' \in Nat /\ RequestsOK'
  <2> DEFINE i == B(Takes(se, stb))
             o == B(Fetches(me, stall))
             a == B(Answers(me, ack))
  <2>1. i \in {0, 1} /\ o \in {0, 1} /\ a \in {0, 1}
    BY BIs
  <2> DEFINE l == Len(s2m.queue)
             k == Len(s2m'.queue)
  <2>2. /\ mdm_pend_cnt \in Nat /\ answered \in Nat /\ issued \in Nat /\ l \in Nat
        /\ Fetched = mdm_pend_cnt + answered /\ Fetched + l = issued
    BY BInvCounts
  <2>3. Fetched' = mdm_pend_cnt' + answered'
    BY Zenon DEF Fetched
  <2>4. /\ mdm_pend_cnt' = mdm_pend_cnt + o - a /\ answered' = answered + a
        /\ issued' = issued + i /\ k = l + i - o
    BY <1>1, <1>4, <1>5, Zenon
  <2> HIDE DEF i, o, a, l, k
  <2>5. answered' \in Nat /\ Fetched' = Fetched + o /\ Fetched' + k = issued'
    BY <2>1, <2>2, <2>3, <2>4
  <2> QED BY <1>1, <2>5, Zenon DEF RequestsOK, o, k
<1>10. TypeOK'
  BY <1>1, <1>3, <1>4, <1>5, <1>6, <1>7, <1>9 DEF TypeOK, BInv
<1> QED BY <1>6, <1>8, <1>9, <1>10 DEF BInv

LEMMA BInvRelease ==
  ASSUME BInv, Release
  PROVE  BInv'
<1>1. /\ UNCHANGED <<s2m, m2s, sdm_rd_en_d1, mdm_rd_en_d1, mdm_wb_new_tr,
                     mdm_pend_cnt, issued, replied, accepted, answered>>
      /\ slave_rst_n' \in BOOLEAN /\ master_rst_n' \in BOOLEAN
      /\ slave_rst_n => slave_rst_n'
      /\ master_rst_n => master_rst_n'
  BY DEF Release, sdmUser, mdmUser
<1>2. TypeOK'
  BY <1>1 DEF BInv, TypeOK
<1>3. ResetOK'
  BY <1>1 DEF BInv, ResetOK, TypeOK
<1>4. RequestsOK'
  BY <1>1 DEF BInv, RequestsOK, Fetched
<1>5. AcceptedOK'
  BY <1>1 DEF BInv, AcceptedOK, Fetched, mdm_stb
<1> QED BY <1>2, <1>3, <1>4, <1>5 DEF BInv

LEMMA BInvHolds == Spec => []BInv
<1>1. BInv /\ [Next]_vars => BInv'
  <2> SUFFICES ASSUME BInv, [Next]_vars PROVE BInv'
    OBVIOUS
  <2>1. \/ \E se, me, stb, stall, ack \in BOOLEAN : Step(se, me, stb, stall, ack)
        \/ Release
    BY NextIsStep DEF BInv
  <2> QED BY <2>1, BInvStep, BInvRelease
<1> QED BY <1>1, BInvInit, PTL DEF Spec

(* CYC stays up while replies are owed and the counter of the pending ones *)
(* is exact, for any FIFO size and however many requests are outstanding.  *)
THEOREM ClockBridgeCycle == Spec => []CycleCoversReplies
<1>1. BInv => CycleCoversReplies
  <2> SUFFICES ASSUME BInv PROVE CycleCoversReplies
    OBVIOUS
  <2>1. mdm_pend_cnt + answered + Len(s2m.queue) = issued
    BY BInvCounts, Zenon
  <2>2. answered < Len(accepted) => mdm_pend_cnt # 0
    <3> DEFINE l == Len(accepted)
    <3>1. /\ mdm_pend_cnt \in Nat /\ answered \in Nat /\ l \in Nat
          /\ l <= mdm_pend_cnt + answered
      BY BInvCounts
    <3> HIDE DEF l
    <3>2. answered < l => mdm_pend_cnt # 0
      BY <3>1
    <3> QED BY <3>2 DEF l
  <2> QED BY <2>1, <2>2 DEF CycleCoversReplies, mdm_cyc, mdm_pend_tr
<1> QED BY <1>1, BInvHolds, PTL

(* Every request reaches the WB slave once, in order and without a gap,    *)
(* again however many are outstanding.                                     *)
THEOREM ClockBridgeRequests ==
  Spec => [](/\ accepted = [k \in 1 .. Len(accepted) |-> k]
             /\ Len(accepted) <= issued)
<1> DEFINE Ordered == /\ accepted = [k \in 1 .. Len(accepted) |-> k]
                      /\ Len(accepted) <= issued
<1>1. BInv => Ordered
  <2> SUFFICES ASSUME BInv PROVE Ordered
    OBVIOUS
  <2>1. accepted \in Seq(Nat) /\ Run(accepted, 0)
    BY DEF BInv, TypeOK, AcceptedOK
  <2>2. accepted = [k \in 1 .. Len(accepted) |-> k]
    BY <2>1 DEF Run
  <2>3. Len(accepted) <= issued
    <3> DEFINE l == Len(accepted)
               q == Len(s2m.queue)
    <3>1. l \in Nat /\ q \in Nat /\ issued \in Nat /\ l <= Fetched /\ Fetched + q = issued
          /\ mdm_pend_cnt \in Nat /\ answered \in Nat /\ Fetched = mdm_pend_cnt + answered
      BY BInvCounts
    <3> HIDE DEF l, q
    <3>2. l <= issued
      BY <3>1
    <3> QED BY <3>2 DEF l
  <2> QED BY <2>2, <2>3
<1> QED BY <1>1, BInvHolds, PTL

-----------------------------------------------------------------------------
(* The replies, when the WB master waits for no more of them than the M2S  *)
(* FIFO can hold.                                                          *)
Fits == MaxOutstanding <= g_SIZE

(* The M2S FIFO holds the replies the slave port has not read, the one     *)
(* read last is on the port or taken.                                      *)
Got == Len(replied) + B(sdm_rd_en_d1)
RepliedOK ==
  /\ replied \in Seq(Nat) /\ Run(replied, 0)
  /\ Got + Len(m2s.queue) = answered /\ Run(m2s.queue, Got)
  /\ sdm_rd_en_d1 => m2s.q = Got

(* Whatever the write side of the M2S FIFO believes to be in it, and what  *)
(* is still to be answered, fits in it: a request that is on its way to    *)
(* the master port may have been issued for a read not seen there yet.     *)
RoomOK ==
  /\ issued <= Len(replied) + g_SIZE
  /\ Len(m2s.queue) + m2s.freed0 + mdm_pend_cnt + Len(s2m.queue) <= g_SIZE + s2m.fresh0
  /\ Len(m2s.queue) + m2s.freed0 + m2s.freed1 + mdm_pend_cnt + Len(s2m.queue)
       <= g_SIZE + s2m.fresh0 + s2m.fresh1
  /\ m2s.full => mdm_pend_cnt = 0

FInv == BInv /\ RepliedOK /\ RoomOK

(* While a reply is owed the M2S FIFO is not full. *)
LEMMA AnswerFits ==
  ASSUME FInv, NEW se \in BOOLEAN, NEW me \in BOOLEAN, NEW stb \in BOOLEAN,
         NEW stall \in BOOLEAN, NEW ack \in BOOLEAN, Step(se, me, stb, stall, ack)
  PROVE  /\ Answers(me, ack) => ~m2s.full
         /\ Writes(me, ack) <=> Answers(me, ack)
<1>1. Answers(me, ack) => mdm_pend_cnt > 0
  BY Bits DEF FInv
<1>2. m2s.full => mdm_pend_cnt = 0
  BY DEF FInv, RoomOK
<1>3. Answers(me, ack) => ~m2s.full
  BY <1>1, <1>2
<1> QED BY <1>3, Zenon DEF Writes, Answers

(* The M2S FIFO in terms of the bits of an edge. *)
LEMMA M2sCounts ==
  ASSUME FInv, NEW se \in BOOLEAN, NEW me \in BOOLEAN, NEW stb \in BOOLEAN,
         NEW stall \in BOOLEAN, NEW ack \in BOOLEAN, Step(se, me, stb, stall, ack)
  PROVE  /\ Len(m2s'.queue) = Len(m2s.queue) + B(Answers(me, ack)) - B(Gets(se))
         /\ me => /\ m2s'.freed0 <= B(Gets(se))
                  /\ m2s'.freed0 + m2s'.freed1 = m2s.freed0 + B(Gets(se))
                  /\ m2s'.full => \/ WriterSees(m2s) = g_SIZE
                                  \/ Answers(me, ack) /\ WriterSees(m2s) + 1 = g_SIZE
         /\ ~me => /\ m2s'.freed0 = m2s.freed0 + B(Gets(se)) /\ m2s'.freed1 = m2s.freed1
                   /\ m2s'.full = m2s.full
         /\ Run(m2s'.queue, Got + B(Gets(se)))
         /\ m2s'.q = IF Gets(se) THEN Got + 1 ELSE m2s.q
<1> DEFINE w == MWrite(me, ack)
           r == MRead(se)
<1>1. Answers(me, ack) => Reply(stall) = answered + 1
  <2>1. me /\ ack => answered < Len(accepted) + B(Accepts(stall))
    BY DEF Step, MasterPort, B
  <2> QED BY <2>1, ReplyIs DEF Answers, FInv
<1>2. /\ w.edge = me
      /\ we_int(m2s, w) <=> Writes(me, ack)
      /\ rd_int(m2s, r) <=> Gets(se)
  BY Bits DEF FInv
<1>3. we_int(m2s, w) <=> Answers(me, ack)
  BY <1>2, AnswerFits
<1>4. B(we_int(m2s, w)) = B(Answers(me, ack)) /\ B(rd_int(m2s, r)) = B(Gets(se))
  BY <1>2, <1>3, BIs, Zenon
<1>5. Counted(g_SIZE, m2s, m2s', w, r)
  BY <1>1, M2sStep DEF FInv
<1>6. \A n \in Nat : Run(m2s.queue, n) /\ n + Len(m2s.queue) = answered =>
              /\ Run(m2s'.queue, n + B(Gets(se)))
              /\ m2s'.q = IF Gets(se) THEN n + 1 ELSE m2s.q
  BY <1>1, M2sStep DEF FInv
<1>7. Got \in Nat
  BY DEF FInv, RepliedOK, Got, B
<1>8. /\ Run(m2s'.queue, Got + B(Gets(se)))
      /\ m2s'.q = IF Gets(se) THEN Got + 1 ELSE m2s.q
  BY <1>6, <1>7, Zenon DEF FInv, RepliedOK
<1> HIDE DEF w, r
<1>9. /\ Len(m2s'.queue) = Len(m2s.queue) + B(we_int(m2s, w)) - B(rd_int(m2s, r))
      /\ IF w.edge THEN /\ m2s'.freed0 <= B(rd_int(m2s, r))
                        /\ m2s'.freed0 + m2s'.freed1 = m2s.freed0 + B(rd_int(m2s, r))
                   ELSE m2s'.freed0 = m2s.freed0 + B(rd_int(m2s, r)) /\ m2s'.freed1 = m2s.freed1
      /\ w.edge => (m2s'.full => \/ WriterSees(m2s) = g_SIZE
                                 \/ we_int(m2s, w) /\ WriterSees(m2s) + 1 = g_SIZE)
      /\ ~w.edge => m2s'.full = m2s.full
  BY <1>5, Zenon DEF Counted
<1> QED BY <1>2, <1>3, <1>4, <1>8, <1>9, Zenon

LEMMA RepliedStep ==
  ASSUME FInv, NEW se \in BOOLEAN, NEW me \in BOOLEAN, NEW stb \in BOOLEAN,
         NEW stall \in BOOLEAN, NEW ack \in BOOLEAN, Step(se, me, stb, stall, ack)
  PROVE  /\ RepliedOK' /\ Len(replied') \in Nat
         /\ Len(replied) <= Len(replied') /\ Len(replied') <= Got
         /\ Got' = Got + B(Gets(se)) /\ (se => Got' = Len(replied') + B(Gets(se)))
<1> DEFINE v == B(Gets(se))
           d == B(sdm_rd_en_d1)
<1>1. /\ replied \in Seq(Nat) /\ Run(replied, 0) /\ Len(replied) \in Nat
      /\ sdm_rd_en_d1 \in BOOLEAN /\ m2s.q \in Nat /\ answered \in Nat
      /\ sdm_rd_en_d1 => m2s.q = Got
  BY DEF FInv, RepliedOK, BInv, TypeOK, FifoOK
<1>2. /\ v \in {0, 1} /\ d \in {0, 1} /\ Gets(se) \in BOOLEAN
      /\ Got = Len(replied) + d
      /\ sdm_rd_en_d1 => d = 1
      /\ ~sdm_rd_en_d1 => d = 0
      /\ Gets(se) => v = 1
      /\ ~Gets(se) => v = 0
  BY <1>1 DEF B, Got, Gets
<1>3. /\ sdm_rd_en_d1' = IF se THEN Gets(se) ELSE sdm_rd_en_d1
      /\ replied' = IF se /\ sdm_rd_en_d1 THEN Append(replied, m2s.q) ELSE replied
  BY SdmStep DEF FInv
<1>4. /\ Run(m2s'.queue, Got + v)
      /\ m2s'.q = IF Gets(se) THEN Got + 1 ELSE m2s.q
      /\ Len(m2s'.queue) = Len(m2s.queue) + B(Answers(me, ack)) - v
  BY M2sCounts
<1>5. ~se => ~Gets(se)
  BY DEF Gets
<1>6. /\ replied' \in Seq(Nat) /\ Run(replied', 0)
      /\ Len(replied') = IF se THEN Got ELSE Len(replied)
  <2>1. CASE se /\ sdm_rd_en_d1
    <3>0. Got = Len(replied) + 1 /\ m2s.q = Got
      BY <1>1, <1>2, <2>1
    <3>a. replied' = Append(replied, m2s.q)
      BY <1>3, <2>1, Zenon
    <3>b. m2s.q = 0 + Len(replied) + 1
      BY <1>1, <3>0
    <3>1. replied' = Append(replied, 0 + Len(replied) + 1) /\ Got = Len(replied) + 1
      BY <3>0, <3>a, <3>b, Zenon
    <3> QED BY <1>1, <2>1, <3>1, RunAppend
  <2>2. CASE ~(se /\ sdm_rd_en_d1)
    BY <1>1, <1>2, <1>3, <2>2
  <2> QED BY <2>1, <2>2
<1>7. Got' = Len(replied') + B(sdm_rd_en_d1')
  BY DEF Got
<1>8. Got' = Got + v
  <2>1. CASE se
    BY <1>3, <1>6, <1>7, <2>1
  <2>2. CASE ~se
    BY <1>1, <1>2, <1>3, <1>5, <1>6, <1>7, <2>2
  <2> QED BY <2>1, <2>2
<1>9. se => Got' = Len(replied') + v
  BY <1>3, <1>7
<1>10. sdm_rd_en_d1' => m2s'.q = Got'
  <2>1. CASE Gets(se)
    <3>1. Got' = Got + 1
      BY <1>2, <1>8, <2>1
    <3> QED BY <1>4, <2>1, <3>1, Zenon
  <2>2. CASE ~Gets(se)
    <3>1. sdm_rd_en_d1' => sdm_rd_en_d1
      BY <1>3, <2>2, Zenon
    <3>2. v = 0 /\ Got \in Nat
      BY <1>1, <1>2, <2>2
    <3>3. Got' = Got
      BY <1>8, <3>2
    <3>4. m2s'.q = m2s.q
      BY <1>4, <2>2, Zenon
    <3> QED BY <1>1, <3>1, <3>3, <3>4, Zenon
  <2> QED BY <1>2, <2>1, <2>2
<1>11. Got' + Len(m2s'.queue) = answered'
  <2> DEFINE l == Len(m2s.queue)
             k == Len(m2s'.queue)
             a == B(Answers(me, ack))
  <2>1. answered' = answered + a /\ a \in {0, 1}
    BY PendStep DEF FInv, B
  <2>2. Got + l = answered /\ l \in Nat /\ Got \in Nat
    <3>1. m2s.queue \in Seq(Nat)
      BY DEF FInv, BInv, TypeOK, FifoOK
    <3>2. l \in Nat
      BY <3>1
    <3>3. Got + l = answered
      BY Zenon DEF FInv, RepliedOK
    <3>4. Got \in Nat
      BY <1>1, <1>2
    <3> QED BY <3>2, <3>3, <3>4
  <2>3. k = l + a - v
    BY <1>4
  <2> HIDE DEF l, k, a, v
  <2>4. Got' + k = answered'
    BY <1>2, <1>8, <2>1, <2>2, <2>3
  <2> QED BY <2>4 DEF k
<1>12. RepliedOK'
  BY <1>4, <1>6, <1>8, <1>10, <1>11, Zenon DEF RepliedOK
<1>13. Len(replied') \in Nat /\ Len(replied) <= Len(replied') /\ Len(replied') <= Got
  BY <1>1, <1>2, <1>6
<1> QED BY <1>8, <1>9, <1>12, <1>13

LEMMA RoomStep ==
  ASSUME Fits, FInv, NEW se \in BOOLEAN, NEW me \in BOOLEAN, NEW stb \in BOOLEAN,
         NEW stall \in BOOLEAN, NEW ack \in BOOLEAN, Step(se, me, stb, stall, ack)
  PROVE  RoomOK'
<1> DEFINE i == B(Takes(se, stb))
           o == B(Fetches(me, stall))
           a == B(Answers(me, ack))
           v == B(Gets(se))
           L == Len(m2s.queue)
           Q == Len(s2m.queue)
           P == mdm_pend_cnt
           N == Len(replied)
           f0 == m2s.freed0
           f1 == m2s.freed1
           r0 == s2m.fresh0
           r1 == s2m.fresh1
           LL == Len(m2s'.queue)
           QQ == Len(s2m'.queue)
           PP == mdm_pend_cnt'
           NN == Len(replied')
           ff0 == m2s'.freed0
           ff1 == m2s'.freed1
           rr0 == s2m'.fresh0
           rr1 == s2m'.fresh1
           WS == WriterSees(m2s)
<1>1. i \in {0, 1} /\ o \in {0, 1} /\ a \in {0, 1} /\ v \in {0, 1}
  BY BIs
<1>2. /\ L \in Nat /\ Q \in Nat /\ N \in Nat /\ P \in Nat /\ issued \in Nat /\ answered \in Nat
      /\ f0 \in Nat /\ f1 \in Nat /\ r0 \in Nat /\ r1 \in Nat
      /\ g_SIZE \in Nat /\ MaxOutstanding \in Nat /\ MaxOutstanding <= g_SIZE
  <2>1. m2s.queue \in Seq(Nat) /\ s2m.queue \in Seq(Nat) /\ replied \in Seq(Nat)
    BY DEF FInv, BInv, TypeOK, FifoOK, RepliedOK
  <2>2. L \in Nat /\ Q \in Nat /\ N \in Nat
    BY <2>1
  <2>3. g_SIZE \in Nat /\ MaxOutstanding \in Nat /\ MaxOutstanding <= g_SIZE
    BY SizeAssumption, BoundsAssumption DEF Fits
  <2> QED BY <2>2, <2>3 DEF FInv, BInv, TypeOK, FifoOK
<1>3. /\ rr0 \in Nat /\ rr1 \in Nat /\ ff0 \in Nat /\ ff1 \in Nat
  <2>1. FifoOK(s2m)' /\ FifoOK(m2s)'
    <3>1. BInv'
      BY BInvStep DEF FInv
    <3> QED BY <3>1 DEF BInv, TypeOK
  <2> QED BY <2>1 DEF FifoOK
<1>4. /\ issued <= N + g_SIZE
      /\ L + f0 + P + Q <= g_SIZE + r0
      /\ L + f0 + f1 + P + Q <= g_SIZE + r0 + r1
      /\ m2s.full => P = 0
  BY Zenon DEF FInv, RoomOK
<1>5. P + answered + Q = issued /\ Got + L = answered
  <2>1. Fetched + Q = issued /\ Got + L = answered
    BY Zenon DEF FInv, BInv, RequestsOK, RepliedOK
  <2> QED BY <2>1, Zenon DEF Fetched
<1>6. /\ N <= NN /\ NN \in Nat /\ NN <= Got
      /\ Got' = Got + v /\ (se => Got' = NN + v)
      /\ ~se => v = 0
  <2>1. ~se => v = 0
    BY DEF Gets, B
  <2> QED BY <2>1, RepliedStep
<1>7. /\ issued' = issued + i
      /\ Takes(se, stb) => issued < N + MaxOutstanding
      /\ PP = P + o - a
      /\ QQ = Q + i - o
      /\ LL = L + a - v
  BY SdmStep, PendStep, S2mStep, M2sCounts DEF FInv
<1>8. /\ i = 1 => Takes(se, stb)
      /\ o = 1 => Fetches(me, stall)
      /\ Answers(me, ack) => a = 1 /\ P > 0
      /\ Fetches(me, stall) => me
      /\ Answers(me, ack) => me
  <2>1. Answers(me, ack) => P > 0
    BY Bits DEF FInv
  <2> QED BY <2>1 DEF B, Fetches, Answers
<1>9. /\ me => rr0 + rr1 = r0 + i
      /\ ~me => rr0 = r0 + i /\ rr1 = r1
      /\ me => ff0 <= v /\ ff0 + ff1 = f0 + v
      /\ ~me => ff0 = f0 + v /\ ff1 = f1
  BY S2mStep, M2sCounts DEF FInv
<1>10. /\ r0 + r1 <= Q
       /\ Fetches(me, stall) => r0 + r1 < Q
  <2>1. /\ r0 + r1 <= Q
        /\ ~s2m.empty => r0 + r1 < Q
    BY DEF FInv, BInv, TypeOK, FifoOK
  <2>2. Fetches(me, stall) => ~s2m.empty
    BY DEF Fetches, mdm_rd_en
  <2> QED BY <2>1, <2>2
<1>11. WS = L + f0 + f1
  BY DEF WriterSees
<1>12. /\ me /\ m2s'.full => WS = g_SIZE \/ (Answers(me, ack) /\ WS + 1 = g_SIZE)
       /\ ~me => m2s'.full = m2s.full
  BY M2sCounts
<1> HIDE DEF i, o, a, v, L, Q, P, N, f0, f1, r0, r1, LL, QQ, PP, NN, ff0, ff1, rr0, rr1, WS
<1>13. issued' <= NN + g_SIZE
  BY <1>1, <1>2, <1>4, <1>6, <1>7, <1>8
<1>14. LL + PP + QQ = L + P + Q + i - v /\ LL + PP + QQ + Got + v = issued + i
  <2>1. Got \in Nat
    BY DEF FInv, RepliedOK, Got, B
  <2> QED BY <1>1, <1>2, <1>5, <1>7, <2>1
<1>15. LL + ff0 + PP + QQ <= g_SIZE + rr0
  <2>1. CASE ~me
    BY <1>1, <1>2, <1>3, <1>4, <1>7, <1>9, <1>14, <2>1
  <2>2. CASE me
    <3>1. Got \in Nat
      BY DEF FInv, RepliedOK, Got, B
    <3>2. Got + v >= NN + v \/ v = 0
      BY <1>1, <1>2, <1>6, <3>1
    <3>3. LL + PP + QQ + v <= g_SIZE
      BY <1>1, <1>2, <1>6, <1>7, <1>13, <1>14, <3>1
    <3> QED BY <1>1, <1>2, <1>3, <1>7, <1>9, <2>2, <3>3
  <2> QED BY <2>1, <2>2
<1>16. LL + ff0 + ff1 + PP + QQ <= g_SIZE + rr0 + rr1
  BY <1>1, <1>2, <1>3, <1>4, <1>7, <1>9, <1>14
<1>17. m2s'.full => PP = 0
  <2>1. CASE ~me
    <3>1. ~Fetches(me, stall) /\ ~Answers(me, ack)
      BY <1>8, <2>1
    <3>2. PP = P
      BY PendStep, <2>1 DEF Step, P, PP
    <3> QED BY <1>4, <1>12, <2>1, <3>2
  <2>2. CASE me /\ m2s'.full /\ WS = g_SIZE
    <3>1. P = 0 /\ r0 + r1 = Q
      BY <1>2, <1>4, <1>10, <1>11, <2>2
    <3>2. o = 0 /\ a = 0
      <4>1. ~Fetches(me, stall) /\ ~Answers(me, ack)
        BY <1>2, <1>8, <1>10, <3>1
      <4> QED BY <4>1 DEF o, a, B
    <3> QED BY <1>7, <3>1, <3>2
  <2>3. CASE me /\ m2s'.full /\ Answers(me, ack) /\ WS + 1 = g_SIZE
    <3>1. P = 1 /\ a = 1 /\ r0 + r1 = Q
      BY <1>2, <1>4, <1>8, <1>10, <1>11, <2>3
    <3>2. o = 0
      <4>1. ~Fetches(me, stall)
        BY <1>2, <1>10, <3>1
      <4> QED BY <4>1 DEF o, B
    <3> QED BY <1>7, <3>1, <3>2
  <2> QED BY <1>12, <2>1, <2>2, <2>3
<1> QED BY <1>13, <1>15, <1>16, <1>17, Zenon
        DEF RoomOK, LL, PP, QQ, NN, ff0, ff1, rr0, rr1

LEMMA FInvHolds == Fits => (Spec => []FInv)
<1> SUFFICES ASSUME Fits PROVE Spec => []FInv
  OBVIOUS
<1>1. Init => FInv
  <2> SUFFICES ASSUME Init PROVE FInv
    OBVIOUS
  <2>1. /\ m2s.queue = <<>> /\ m2s.freed0 = 0 /\ m2s.freed1 = 0 /\ m2s.full = FALSE
        /\ s2m.queue = <<>> /\ s2m.fresh0 = 0 /\ s2m.fresh1 = 0
    BY DEF Init, EmptyFifo
  <2>2. Got = 0 /\ g_SIZE \in Nat
    BY SizeAssumption DEF Init, Got, B
  <2>3. RepliedOK
    BY <2>1, <2>2 DEF Init, RepliedOK, Run
  <2>4. RoomOK
    BY <2>1, <2>2 DEF Init, RoomOK
  <2> QED BY <2>3, <2>4, BInvInit DEF FInv
<1>2. FInv /\ [Next]_vars => FInv'
  <2> SUFFICES ASSUME FInv, [Next]_vars PROVE FInv'
    OBVIOUS
  <2>1. \/ \E se, me, stb, stall, ack \in BOOLEAN : Step(se, me, stb, stall, ack)
        \/ Release
    BY NextIsStep DEF FInv, BInv
  <2>2. ASSUME NEW se \in BOOLEAN, NEW me \in BOOLEAN, NEW stb \in BOOLEAN,
               NEW stall \in BOOLEAN, NEW ack \in BOOLEAN, Step(se, me, stb, stall, ack)
        PROVE  FInv'
    <3>1. BInv'
      BY <2>2, BInvStep DEF FInv
    <3>2. RepliedOK'
      BY <2>2, RepliedStep
    <3>3. RoomOK'
      BY <2>2, RoomStep
    <3> QED BY <3>1, <3>2, <3>3 DEF FInv
  <2>3. ASSUME Release PROVE FInv'
    <3>1. BInv'
      BY <2>3, BInvRelease DEF FInv
    <3>2. UNCHANGED <<s2m, m2s, sdm_rd_en_d1, mdm_pend_cnt, issued, replied, answered>>
      BY <2>3 DEF Release, sdmUser, mdmUser
    <3>3. RepliedOK'
      BY <3>2 DEF FInv, RepliedOK, Got
    <3>4. RoomOK'
      BY <3>2 DEF FInv, RoomOK
    <3> QED BY <3>1, <3>3, <3>4 DEF FInv
  <2> QED BY <2>1, <2>2, <2>3
<1> QED BY <1>1, <1>2, PTL DEF Spec

(* Requests reach the WB slave and replies reach the WB master once each,  *)
(* in order and without a gap.                                             *)
THEOREM ClockBridgeOrder == Fits => (Spec => []OnceAndInOrder)
<1> SUFFICES ASSUME Fits PROVE Spec => []OnceAndInOrder
  OBVIOUS
<1>1. FInv => OnceAndInOrder
  <2> SUFFICES ASSUME FInv PROVE OnceAndInOrder
    OBVIOUS
  <2>1. /\ accepted \in Seq(Nat) /\ replied \in Seq(Nat)
        /\ Run(accepted, 0) /\ Run(replied, 0)
    BY DEF FInv, BInv, TypeOK, AcceptedOK, RepliedOK
  <2>2. ASSUME NEW s \in Seq(Nat), Run(s, 0)
        PROVE  s = [k \in 1 .. Len(s) |-> k]
    BY <2>2 DEF Run
  <2>3. Len(accepted) <= issued
    <3> DEFINE l == Len(accepted)
               q == Len(s2m.queue)
    <3>1. l \in Nat /\ q \in Nat /\ issued \in Nat /\ l <= Fetched /\ Fetched + q = issued
          /\ mdm_pend_cnt \in Nat /\ answered \in Nat /\ Fetched = mdm_pend_cnt + answered
      BY BInvCounts DEF FInv
    <3> HIDE DEF l, q
    <3>2. l <= issued
      BY <3>1
    <3> QED BY <3>2 DEF l
  <2> QED BY <2>1, <2>2, <2>3 DEF OnceAndInOrder
<1> QED BY <1>1, FInvHolds, PTL

(* The comment on mdm_rd_en holds: no reply meets a full M2S FIFO.         *)
THEOREM ClockBridgeSpace == Fits => (Spec => RepliesFindSpace)
<1> SUFFICES ASSUME Fits PROVE Spec => RepliesFindSpace
  OBVIOUS
<1>1. FInv /\ [Next]_vars => [answered' # answered => ~m2s.full]_vars
  <2> SUFFICES ASSUME FInv, [Next]_vars, answered' # answered PROVE ~m2s.full
    OBVIOUS
  <2>1. \/ \E se, me, stb, stall, ack \in BOOLEAN : Step(se, me, stb, stall, ack)
        \/ Release
    BY NextIsStep DEF FInv, BInv
  <2>2. ASSUME NEW se \in BOOLEAN, NEW me \in BOOLEAN, NEW stb \in BOOLEAN,
               NEW stall \in BOOLEAN, NEW ack \in BOOLEAN, Step(se, me, stb, stall, ack)
        PROVE  ~m2s.full
    <3>1. Answers(me, ack)
      BY <2>2 DEF Step, MasterPort, mdmUser, Answers
    <3> QED BY <2>2, <3>1, AnswerFits
  <2>3. ~Release
    BY DEF Release, mdmUser
  <2> QED BY <2>1, <2>2, <2>3
<1> QED BY <1>1, FInvHolds, PTL DEF Spec, RepliesFindSpace
=============================================================================
