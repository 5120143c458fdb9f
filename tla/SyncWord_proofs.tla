--------------------------- MODULE SyncWord_proofs --------------------------
(***************************************************************************)
(* Proofs about the pulse synchroniser and the two word synchronisers.     *)
(***************************************************************************)
EXTENDS MCSyncWord, TLAPS

TypeOK ==
  /\ rst_in_n \in BOOLEAN /\ rst_out_n \in BOOLEAN
  /\ ready \in BOOLEAN /\ d_ack \in BOOLEAN /\ d_ack_d0 \in BOOLEAN
  /\ d_p_d0 \in BOOLEAN /\ in_ext \in BOOLEAN
  /\ fb0 \in BOOLEAN /\ fb1 \in BOOLEAN
  /\ ext0 \in BOOLEAN /\ ext1 \in BOOLEAN /\ dff \in BOOLEAN
  /\ dirty \in BOOLEAN
  /\ sent \in Nat /\ got \in Nat /\ acked \in Nat

(* What a reset holds at its value. *)
ResetOK ==
  /\ ~rst_in_n => ~fb0 /\ ~fb1
  /\ ~rst_out_n => ~ext0 /\ ~ext1 /\ ~dff
  /\ ~rst_in_n /\ ~rst_out_n => got = 0
  /\ ~dirty /\ ~rst_in_n => /\ ready /\ ~d_ack /\ ~d_ack_d0 
                            /\ sent = 0 /\ acked = 0

Rising == in_ext /\ ~ready
Falling == ~in_ext /\ ~ready
Idle == ~in_ext /\ ready

(* The level goes round the loop in_ext, ext0, ext1, fb0, fb1 with one     *)
(* front at a time. *)
FrontOK ==
  ~dirty => /\ in_ext => ~ready
            /\ Rising => /\ fb1 => fb0
                         /\ fb0 => ext1
                         /\ ext1 => ext0
                         /\ ext0 /\ ~ext1 => ~dff
            /\ Falling => /\ ext0 => ext1
                          /\ ext1 => fb0
                          /\ fb0 => fb1
                          /\ ext1 /\ ~ext0 => dff
            /\ Idle => ~ext0 /\ ~ext1 /\ ~fb0 /\ ~fb1

(* The pulse of the level that is going round is yet to be given. *)
Owed == \/ Rising /\ ~(ext1 /\ dff)
        \/ Falling /\ ext1 /\ ~dff

CountOK ==
  ~dirty => /\ Owed => sent = got + 1
            /\ ~Owed => sent = got
            /\ d_ack => ready
            /\ acked <= sent + 1
            /\ ~(d_ack /\ d_ack_d0) => acked <= sent

PsInv == TypeOK /\ ResetOK /\ FrontOK /\ CountOK


LEMMA PsInitInv == Init => PsInv
<1> SUFFICES ASSUME Init PROVE PsInv OBVIOUS
<1>1. TypeOK BY DEF Init, TypeOK
<1>2. ResetOK BY DEF Init, ResetOK
<1>3. FrontOK BY DEF Init, FrontOK
<1>4. CountOK BY DEF Init, CountOK
<1> QED BY <1>1, <1>2, <1>3, <1>4 DEF PsInv

LEMMA InSideType ==
  ASSUME TypeOK, NEW d_p \in BOOLEAN, NEW s \in BOOLEAN, InSide(d_p, s)
  PROVE  /\ ready' \in BOOLEAN /\ d_ack' \in BOOLEAN /\ d_ack_d0' \in BOOLEAN
         /\ d_p_d0' \in BOOLEAN /\ in_ext' \in BOOLEAN
         /\ fb0' \in BOOLEAN /\ fb1' \in BOOLEAN
         /\ sent' \in Nat /\ acked' \in Nat
<1>1. sent' \in Nat /\ acked' \in Nat
  BY DEF TypeOK, InSide
<1>2. ready' \in BOOLEAN /\ d_ack' \in BOOLEAN /\ in_ext' \in BOOLEAN
  <2>1. CASE rst_in_n BY <2>1, Zenon DEF TypeOK, InSide, Handshake
  <2>2. CASE ~rst_in_n BY <2>2, Zenon DEF TypeOK, InSide, Handshake
  <2> QED BY <2>1, <2>2
<1>3. /\ d_ack_d0' \in BOOLEAN /\ d_p_d0' \in BOOLEAN
      /\ fb0' \in BOOLEAN /\ fb1' \in BOOLEAN
  <2>1. CASE rst_in_n BY <2>1, Zenon DEF TypeOK, InSide
  <2>2. CASE ~rst_in_n BY <2>2, Zenon DEF TypeOK, InSide
  <2> QED BY <2>1, <2>2
<1> QED BY <1>1, <1>2, <1>3

LEMMA OutSideType ==
  ASSUME TypeOK, NEW s \in BOOLEAN, OutSide(s)
  PROVE  /\ ext0' \in BOOLEAN /\ ext1' \in BOOLEAN /\ dff' \in BOOLEAN
         /\ got' \in Nat
<1>1. got' \in Nat BY DEF TypeOK, OutSide
<1>2. /\ ext0' \in BOOLEAN /\ ext1' \in BOOLEAN /\ dff' \in BOOLEAN
  <2>1. CASE rst_out_n BY <2>1, Zenon DEF TypeOK, OutSide
  <2>2. CASE ~rst_out_n BY <2>2, Zenon DEF TypeOK, OutSide, outRegs
  <2> QED BY <2>1, <2>2
<1> QED BY <1>1, <1>2

LEMMA DirtyType ==
  ASSUME dirty' = (dirty /\ (rst_in_n \/ rst_out_n))
  PROVE  dirty' \in BOOLEAN
OBVIOUS

LEMMA InEdgeInv ==
  ASSUME PsInv, NEW d_p \in BOOLEAN, InEdge(d_p)
  PROVE  PsInv'
<1>1. TypeOK'
  <2>1. dirty' \in BOOLEAN BY DirtyType, Zenon DEF InEdge
  <2>2. ext1 \in BOOLEAN BY DEF PsInv, TypeOK
  <2> QED BY <2>1, <2>2, InSideType DEF PsInv, TypeOK, InEdge, outRegs
<1>2. ResetOK'
  BY DEF PsInv, TypeOK, ResetOK, InEdge, InSide, Handshake, Detected, outRegs
<1>3. FrontOK'
  BY DEF PsInv, TypeOK, ResetOK, FrontOK, Rising, Falling, Idle, InEdge, InSide,
         Handshake, Detected, outRegs
<1>4. CountOK'
  BY DEF PsInv, TypeOK, ResetOK, FrontOK, CountOK, Owed, Rising, Falling, Idle,
         InEdge, InSide, Handshake, Detected, d_ack_p_o, outRegs
<1> QED BY <1>1, <1>2, <1>3, <1>4 DEF PsInv

LEMMA OutEdgeInv ==
  ASSUME PsInv, OutEdge
  PROVE  PsInv'
<1>1. TypeOK'
  BY OutSideType DEF PsInv, TypeOK, OutEdge, inRegs
<1>2. ResetOK'
  BY DEF PsInv, TypeOK, ResetOK, OutEdge, OutSide, inRegs, outRegs
<1>3. FrontOK'
  BY DEF PsInv, TypeOK, ResetOK, FrontOK, Rising, Falling, Idle, OutEdge, OutSide,
         inRegs, outRegs
<1>4. CountOK'
  BY DEF PsInv, TypeOK, ResetOK, FrontOK, CountOK, Owed, Rising, Falling, Idle,
         OutEdge, OutSide, q_p_o, inRegs, outRegs
<1> QED BY <1>1, <1>2, <1>3, <1>4 DEF PsInv

LEMMA BothEdgesInv ==
  ASSUME PsInv, NEW d_p \in BOOLEAN, BothEdges(d_p)
  PROVE  PsInv'
<1>1. PICK s \in Metastable(ext1, rst_out_n /\ ext0) : InSide(d_p, s)
  BY DEF BothEdges
<1>2. PICK t \in Metastable(in_ext, in_ext') : OutSide(t)
  BY DEF BothEdges
<1>3. s \in BOOLEAN BY DEF PsInv, TypeOK, Metastable
<1>4. t \in BOOLEAN BY <1>1, <1>3, InSideType DEF PsInv, TypeOK, Metastable
<1>5. s = ext1 \/ s = (rst_out_n /\ ext0) BY DEF Metastable
<1>6. t = in_ext \/ t = in_ext' BY DEF Metastable
<1>7. TypeOK'
  <2>1. dirty' \in BOOLEAN BY DirtyType, Zenon DEF BothEdges
  <2> QED BY <2>1, <1>1, <1>2, <1>3, <1>4, InSideType, OutSideType
          DEF PsInv, TypeOK, BothEdges
<1>8. ResetOK'
  BY <1>1, <1>2, <1>3, <1>4 DEF PsInv, TypeOK, ResetOK, BothEdges, InSide, OutSide, outRegs, Handshake, Detected
<1>9. FrontOK'
  BY <1>1, <1>2, <1>3, <1>4, <1>5, <1>6
  DEF PsInv, TypeOK, ResetOK, FrontOK, Rising, Falling, Idle, BothEdges, InSide,
      OutSide, Handshake, Detected, outRegs
<1>10. CountOK'
  BY <1>1, <1>2, <1>3, <1>4, <1>5, <1>6
  DEF PsInv, TypeOK, ResetOK, FrontOK, CountOK, Owed, Rising, Falling, Idle,
      BothEdges, InSide, OutSide, Handshake, Detected, d_ack_p_o, q_p_o, outRegs
<1> QED BY <1>7, <1>8, <1>9, <1>10 DEF PsInv

LEMMA AssertInv ==
  ASSUME PsInv, Assert
  PROVE  PsInv'
<1> USE DEF PsInv, Assert, AssertIn, AssertOut, inRegs, outRegs
<1>1. TypeOK' BY DEF TypeOK
<1>2. ResetOK' BY DEF TypeOK, ResetOK
<1>3. FrontOK' /\ CountOK' BY DEF FrontOK, CountOK
<1> QED BY <1>1, <1>2, <1>3

LEMMA ReleaseInv ==
  ASSUME PsInv, Release
  PROVE  PsInv'
<1> USE DEF PsInv, Release, inRegs, outRegs, counts
<1>1. TypeOK' BY ZenonT(30) DEF TypeOK
<1>2. ResetOK' BY DEF TypeOK, ResetOK
<1>3. FrontOK' BY DEF TypeOK, FrontOK, Rising, Falling, Idle
<1>4. CountOK' BY DEF TypeOK, CountOK, Owed, Rising, Falling
<1> QED BY <1>1, <1>2, <1>3, <1>4

LEMMA PsStutter == PsInv /\ UNCHANGED psVars => PsInv'
  BY DEF PsInv, TypeOK, ResetOK, FrontOK, CountOK, Rising, Falling, Idle, Owed,
         psVars, inRegs, outRegs, counts

LEMMA PsNextInv == PsInv /\ [Next]_psVars => PsInv'
  BY InEdgeInv, OutEdgeInv, BothEdgesInv, AssertInv, ReleaseInv, PsStutter DEF Next

(* However the edges fall and in whatever order the resets are released.   *)
LEMMA PsInvMeans == PsInv => OnePulsePerRequest
  BY DEF PsInv, TypeOK, FrontOK, CountOK, Owed, Rising, Falling, Idle, 
         OnePulsePerRequest, d_ready_o, d_ack_p_o

(* Pulses in, pulses out: gc_pulse_synchronizer2 loses none and doubles    *)
(* none, and is ready and acknowledges only when the pulse has come out.   *)
THEOREM PulseSyncSafe == Spec => []OnePulsePerRequest
<1>1. Init => PsInv
  BY PsInitInv
<1>2. PsInv /\ [Next]_psVars => PsInv'
  BY PsNextInv
<1> QED
  BY <1>1, <1>2, PsInvMeans, PTL DEF Spec

-----------------------------------------------------------------------------
(* A sequence is a prefix of another when it agrees with it so far.        *)
LEMMA PrefixByElements ==
  ASSUME NEW S, NEW r \in Seq(S), NEW w \in Seq(S), Len(r) <= Len(w),
         \A i \in 1..Len(r) : r[i] = w[i]
  PROVE  r = SubSeq(w, 1, Len(r))
  OBVIOUS

LEMMA EqualByElements ==
  ASSUME NEW S, NEW r \in Seq(S), NEW w \in Seq(S), Len(r) = Len(w),
         \A i \in 1..Len(r) : r[i] = w[i]
  PROVE  r = w
  OBVIOUS

LEMMA EmptyIsSeq ==
  ASSUME NEW S
  PROVE  <<>> \in Seq(S) /\ Len(<<>>) = 0
  OBVIOUS

(* The words written and received, one of each for every pulse, and the    *)
(* word that waits for the pulse under way.                                *)
WrType == /\ g_AUTO_WR \in BOOLEAN /\ wword \in Data
          /\ written \in Seq(Data) /\ received \in Seq(Data)
          /\ Len(written) = sent /\ Len(received) = got
WrWords == ~dirty => /\ \A i \in 1..got : received[i] = written[i]
                     /\ Owed => wword = written[sent]
WrInv == PsInv /\ WrType /\ WrWords

LEMMA WriterSteps ==
  ASSUME NEW wr, NEW d, Writer(wr, d)
  PROVE  /\ ~rst_in_n => written' = <<>>
         /\ rst_in_n /\ Detected(wr_in(wr)) => written' = Append(written, d)
         /\ rst_in_n /\ ~Detected(wr_in(wr)) => written' = written
<1>1. ASSUME ~rst_in_n PROVE written' = <<>>
  BY <1>1, Zenon DEF Writer
<1>2. ASSUME rst_in_n, Detected(wr_in(wr)) PROVE written' = Append(written, d)
  BY <1>2, Zenon DEF Writer
<1>3. ASSUME rst_in_n, ~Detected(wr_in(wr)) PROVE written' = written
  BY <1>3, Zenon DEF Writer
<1> QED BY <1>1, <1>2, <1>3

(* A pulse detected is one whose word is saved, and no word is saved while *)
(* a pulse is under way.                                                   *)
LEMMA SavesWhenIdle ==
  ASSUME NEW wr
  PROVE  /\ Detected(wr_in(wr)) => Saves(wr)
         /\ PsInv /\ ~dirty /\ Saves(wr) => ~Owed /\ ~q_p_o
<1>1. Detected(wr_in(wr)) => Saves(wr)
  BY DEF Detected, Saves, d_ready_o
<1>2. PsInv /\ ~dirty /\ Saves(wr) => ~Owed /\ ~q_p_o
  BY DEF PsInv, TypeOK, FrontOK, Saves, d_ready_o, Owed, Rising, Falling, Idle, q_p_o
<1> QED BY <1>1, <1>2

(* An edge of clk_in_i: one more word written for one more pulse.          *)
LEMMA WriterInv ==
  ASSUME PsInv, PsInv', WrType, WrWords, NEW wr \in BOOLEAN, NEW d \in Data,
         NEW s, InSide(wr_in(wr), s), Writer(wr, d)
  PROVE  /\ g_AUTO_WR' \in BOOLEAN /\ wword' \in Data
         /\ written' \in Seq(Data) /\ Len(written') = sent'
         /\ ~dirty => \A i \in 1..got : i <= sent' => received[i] = written'[i]
         /\ ~dirty /\ rst_in_n /\ Detected(wr_in(wr)) => wword' = written'[sent']
         /\ ~dirty /\ ~Saves(wr) => wword' = wword /\ written' = written /\ sent' = sent
<1>1. g_AUTO_WR' \in BOOLEAN /\ wword' \in Data
  BY DEF WrType, Writer
<1>w. \/ written' = <<>> /\ sent' = 0
      \/ written' = Append(written, d) /\ sent' = sent + 1
      \/ written' = written /\ sent' = sent
  BY WriterSteps, Zenon DEF InSide
<1>t. written \in Seq(Data) /\ Len(written) = sent /\ sent \in Nat
  BY DEF WrType, PsInv, TypeOK
<1>2. written' \in Seq(Data) /\ Len(written') = sent'
  <2>1. CASE written' = <<>> /\ sent' = 0 BY <2>1
  <2>2. CASE written' = Append(written, d) /\ sent' = sent + 1 BY <1>t, <2>2
  <2>3. CASE written' = written /\ sent' = sent BY <1>t, <2>3
  <2> QED BY <1>w, <2>1, <2>2, <2>3
<1>3. ~dirty => \A i \in 1..got : i <= sent' => received[i] = written'[i]
  <2> SUFFICES ASSUME ~dirty, NEW i \in 1..got, i <= sent'
               PROVE  received[i] = written'[i]
    OBVIOUS
  <2>1. received[i] = written[i] /\ got <= sent
    BY DEF WrWords, PsInv, TypeOK, CountOK
  <2>2. i \in 1..Len(written) /\ i # 0 /\ i # sent + 1
    BY <1>t, <2>1 DEF PsInv, TypeOK
  <2>3. CASE written' = <<>> /\ sent' = 0 BY <2>2, <2>3
  <2>4. CASE written' = Append(written, d) /\ sent' = sent + 1
    BY <1>t, <2>1, <2>2, <2>4
  <2>5. CASE written' = written /\ sent' = sent BY <2>1, <2>5
  <2> QED BY <1>w, <2>3, <2>4, <2>5
<1>4. ~dirty /\ rst_in_n /\ Detected(wr_in(wr)) => wword' = written'[sent']
  BY WriterSteps, SavesWhenIdle DEF WrType, Writer, InSide, PsInv, TypeOK
<1>5. ~dirty /\ ~Saves(wr) => wword' = wword /\ written' = written /\ sent' = sent
  BY WriterSteps, SavesWhenIdle DEF WrType, Writer, InSide, PsInv, TypeOK, ResetOK
<1> QED BY <1>1, <1>2, <1>3, <1>4, <1>5

(* p_reader: one more word received for one more pulse given. *)
LEMMA ReaderInv ==
  ASSUME PsInv, WrType, NEW s, OutSide(s), NEW x \in Data, Reader(x)
  PROVE  /\ received' \in Seq(Data) /\ Len(received') = got'
         /\ q_p_o => got' = got + 1 /\ received' = Append(received, x)
         /\ ~q_p_o => got' = got /\ received' = received
  BY DEF PsInv, TypeOK, ResetOK, WrType, OutSide, Reader, q_p_o, outRegs

(* The pulse that is owed after an edge was owed before it or is new.      *)
LEMMA OwedInEdge ==
  ASSUME PsInv, NEW d_p \in BOOLEAN, InEdge(d_p) \/ BothEdges(d_p), ~dirty', Owed'
  PROVE  ~dirty /\ rst_in_n /\ (Detected(d_p) \/ (Owed /\ sent' = sent))
<1>1. CASE InEdge(d_p)
  BY <1>1 DEF PsInv, TypeOK, ResetOK, FrontOK, Owed, Rising, Falling, Idle, InEdge,
         InSide, Handshake, Detected, outRegs
<1>2. CASE BothEdges(d_p)
  <2>1. PICK s : InSide(d_p, s)
    BY <1>2 DEF BothEdges
  <2>2. PICK t \in Metastable(in_ext, in_ext') : OutSide(t)
    BY <1>2 DEF BothEdges
  <2>3. t = in_ext \/ t = in_ext' BY DEF Metastable
  <2> QED
    BY <1>2, <2>1, <2>2, <2>3
    DEF PsInv, TypeOK, ResetOK, FrontOK, Owed, Rising, Falling, Idle, BothEdges,
        InSide, OutSide, Handshake, Detected, outRegs
<1> QED BY <1>1, <1>2

LEMMA OwedOutEdge ==
  ASSUME PsInv, ~dirty, OutEdge
  PROVE  /\ q_p_o => Owed
         /\ Owed' => Owed
  BY DEF PsInv, TypeOK, ResetOK, FrontOK, Owed, Rising, Falling, Idle, OutEdge,
         OutSide, q_p_o, inRegs, outRegs

LEMMA WrInitInv == WrInit => WrInv
  BY PsInitInv, EmptyIsSeq DEF WrInit, WrInv, WrType, WrWords, Init

LEMMA WrInEdgeInv ==
  ASSUME WrInv, NEW wr \in BOOLEAN, NEW d \in Data, WrInEdge(wr, d)
  PROVE  WrInv'
<1> DEFINE dp == wr_in(wr)
<1> USE DEF WrInv
<1>1. dp \in BOOLEAN
  BY DEF wr_in, d_ready_o, PsInv, TypeOK, WrType
<1>2. InEdge(dp) /\ InSide(dp, ext1) /\ Writer(wr, d)
  BY DEF WrInEdge, InEdge
<1>3. PsInv' BY <1>1, <1>2, InEdgeInv
<1>4. received' = received /\ got' = got
  BY <1>2 DEF WrInEdge, InEdge
<1>5. WrType' BY <1>2, <1>3, <1>4, WriterInv DEF WrType
<1>6. ASSUME ~dirty' PROVE \A i \in 1..got' : received'[i] = written'[i]
  <2>1. CASE ~dirty
    <3>1. got' <= sent'
      <4>1. sent' = got' + 1 \/ sent' = got' BY <1>3, <1>6 DEF PsInv, CountOK
      <4>2. got' \in Nat BY <1>3 DEF PsInv, TypeOK
      <4> QED BY <4>1, <4>2
    <3> QED BY <2>1, <3>1, <1>2, <1>3, <1>4, WriterInv DEF PsInv, TypeOK
  <2>2. CASE dirty
    <3>1. got' = 0 BY <2>2, <1>2, <1>6 DEF InEdge, PsInv, TypeOK, ResetOK
    <3> QED BY <3>1
  <2> QED BY <2>1, <2>2
<1>7. ASSUME ~dirty', Owed' PROVE wword' = written'[sent']
  <2>1. ~dirty /\ rst_in_n /\ (Detected(dp) \/ (Owed /\ sent' = sent))
    BY <1>1, <1>2, <1>7, OwedInEdge
  <2>2. CASE Detected(dp) BY <2>1, <2>2, <1>2, <1>3, WriterInv
  <2>3. CASE Owed /\ sent' = sent
    BY <2>1, <2>3, <1>2, <1>3, WriterInv, SavesWhenIdle DEF WrWords
  <2> QED BY <2>1, <2>2, <2>3
<1> QED BY <1>3, <1>5, <1>6, <1>7 DEF WrWords

LEMMA WrOutEdgeInv ==
  ASSUME WrInv, WrOutEdge
  PROVE  WrInv'
<1> USE DEF WrInv
<1>1. PsInv' BY OutEdgeInv DEF WrOutEdge
<1>2. wword \in Data /\ OutSide(in_ext) /\ Reader(wword)
  BY DEF WrType, WrOutEdge, OutEdge
<1>3. UNCHANGED <<g_AUTO_WR, wword, written, sent, dirty>>
  BY DEF WrOutEdge, OutEdge
<1>4. WrType' BY <1>2, <1>3, ReaderInv DEF WrType
<1>5. ASSUME ~dirty PROVE WrWords'
  <2>1. (q_p_o => Owed) /\ (Owed' => Owed) BY <1>5, OwedOutEdge DEF WrOutEdge
  <2>2. \A i \in 1..got' : received'[i] = written'[i]
    <3>1. CASE q_p_o
      <4>1. sent = got + 1 /\ wword = written[sent]
        BY <2>1, <3>1, <1>5 DEF PsInv, CountOK, WrWords
      <4>2. got' = got + 1 /\ received' = Append(received, wword)
        BY <3>1, <1>2, ReaderInv
      <4> QED BY <4>1, <4>2, <1>3, <1>5 DEF WrWords, WrType, PsInv, TypeOK
    <3>2. CASE ~q_p_o
      BY <3>2, <1>2, <1>3, <1>5, ReaderInv DEF WrWords
    <3> QED BY <3>1, <3>2
  <2> QED BY <2>1, <2>2, <1>3, <1>5 DEF WrWords
<1> QED BY <1>1, <1>3, <1>4, <1>5 DEF WrWords

LEMMA WrBothEdgesInv ==
  ASSUME WrInv, NEW wr \in BOOLEAN, NEW d \in Data, WrBothEdges(wr, d)
  PROVE  WrInv'
<1> DEFINE dp == wr_in(wr)
<1> USE DEF WrInv
<1>1. dp \in BOOLEAN
  BY DEF wr_in, d_ready_o, PsInv, TypeOK, WrType
<1>2. BothEdges(dp) /\ Writer(wr, d) BY DEF WrBothEdges
<1>3. PICK s : InSide(dp, s) BY <1>2 DEF BothEdges
<1>4. PICK t : OutSide(t) BY <1>2 DEF BothEdges
<1>5. PICK x \in (IF Saves(wr) THEN Data ELSE {wword}) : Reader(x)
  BY DEF WrBothEdges
<1>6. x \in Data /\ (~Saves(wr) => x = wword)
  BY <1>5 DEF WrType
<1>7. PsInv' BY <1>1, <1>2, BothEdgesInv
<1>8. WrType' BY <1>2, <1>3, <1>4, <1>5, <1>6, <1>7, WriterInv, ReaderInv DEF WrType
<1>9. ASSUME ~dirty' PROVE \A i \in 1..got' : received'[i] = written'[i]
  <2>1. CASE ~dirty
    <3>1. got' <= sent'
      <4>1. sent' = got' + 1 \/ sent' = got' BY <1>7, <1>9 DEF PsInv, CountOK
      <4>2. got' \in Nat BY <1>7 DEF PsInv, TypeOK
      <4> QED BY <4>1, <4>2
    <3>2. CASE q_p_o
      <4>1. Owed /\ ~Saves(wr)
        BY <2>1, <3>2, SavesWhenIdle DEF q_p_o, PsInv, FrontOK, Owed, Rising, Falling, Idle
      <4>2. sent = got + 1 /\ wword = written[sent]
        BY <2>1, <4>1 DEF PsInv, CountOK, WrWords
      <4>3. got' = got + 1 /\ received' = Append(received, wword)
        BY <3>2, <4>1, <1>4, <1>5, <1>6, ReaderInv
      <4>4. written' = written
        BY <2>1, <4>1, <1>2, <1>3, <1>7, WriterInv
      <4> QED BY <2>1, <4>2, <4>3, <4>4 DEF WrWords, WrType, PsInv, TypeOK
    <3>3. CASE ~q_p_o
      <4>1. got' = got /\ received' = received BY <3>3, <1>4, <1>5, <1>6, ReaderInv
      <4> QED BY <2>1, <3>1, <4>1, <1>2, <1>3, <1>7, WriterInv DEF PsInv, TypeOK
    <3> QED BY <3>2, <3>3
  <2>2. CASE dirty
    <3>1. got' = 0
      BY <2>2, <1>2, <1>4, <1>9 DEF BothEdges, OutSide, PsInv, TypeOK, ResetOK
    <3> QED BY <3>1
  <2> QED BY <2>1, <2>2
<1>10. ASSUME ~dirty', Owed' PROVE wword' = written'[sent']
  <2>1. ~dirty /\ rst_in_n /\ (Detected(dp) \/ (Owed /\ sent' = sent))
    BY <1>1, <1>2, <1>10, OwedInEdge
  <2>2. CASE Detected(dp) BY <2>1, <2>2, <1>2, <1>3, <1>7, WriterInv
  <2>3. CASE Owed /\ sent' = sent
    BY <2>1, <2>3, <1>2, <1>3, <1>7, WriterInv, SavesWhenIdle DEF WrWords
  <2> QED BY <2>1, <2>2, <2>3
<1> QED BY <1>7, <1>8, <1>9, <1>10 DEF WrWords

LEMMA WrAssertInv ==
  ASSUME WrInv, WrAssert
  PROVE  WrInv'
  BY AssertInv, EmptyIsSeq DEF WrInv, WrAssert, WrType, WrWords, Assert, PsInv, TypeOK

LEMMA WrReleaseInv ==
  ASSUME WrInv, WrRelease
  PROVE  WrInv'
<1>1. Owed' = Owed
  BY DEF WrRelease, Release, Owed, Rising, Falling, inRegs, outRegs
<1> QED
  BY <1>1, ReleaseInv DEF WrInv, WrRelease, Release, WrType, WrWords, wrVars, counts

LEMMA WrStutter == WrInv /\ UNCHANGED <<psVars, wrVars>> => WrInv'
<1> SUFFICES ASSUME WrInv, UNCHANGED <<psVars, wrVars>> PROVE WrInv'
  OBVIOUS
<1>1. Owed' = Owed
  BY DEF Owed, Rising, Falling, psVars, inRegs, outRegs
<1> QED
  BY <1>1, PsStutter DEF WrInv, WrType, WrWords, psVars, wrVars, counts

LEMMA WrInvMeans == WrInv => WordsArriveIntact
<1> SUFFICES ASSUME WrInv, ~dirty
             PROVE  /\ received = SubSeq(written, 1, Len(received))
                    /\ rst_in_n /\ d_ack_p_o => received = written
  BY DEF WordsArriveIntact
<1>1. Len(received) = got /\ Len(written) = sent /\ got <= sent
  BY DEF WrInv, WrType, PsInv, TypeOK, CountOK
<1>2. received = SubSeq(written, 1, Len(received))
  BY <1>1, PrefixByElements DEF WrInv, WrType, WrWords
<1>3. ASSUME rst_in_n, d_ack_p_o PROVE received = written
  BY <1>1, <1>3, PsInvMeans, EqualByElements
  DEF OnePulsePerRequest, WrInv, WrType, WrWords
<1> QED BY <1>2, <1>3

(* gc_sync_word_wr: every word whose transfer is taken comes out once,     *)
(* unchanged and in order, and before its acknowledge, although the word   *)
(* itself is not synchronised.                                             *)
THEOREM WordsSafe == WrSpec => []WordsArriveIntact
<1>1. WrInit => WrInv
  BY WrInitInv
<1>2. WrInv /\ [WrNext]_<<psVars, wrVars>> => WrInv'
  BY WrInEdgeInv, WrOutEdgeInv, WrBothEdgesInv, WrAssertInv, WrReleaseInv, WrStutter
  DEF WrNext
<1> QED
  BY <1>1, <1>2, WrInvMeans, PTL DEF WrSpec

-----------------------------------------------------------------------------
(* The words caught and the answers given: a word for every pulse given,   *)
(* an answer for every pulse that has come back and been acknowledged.     *)
(* Known is the data of both synchronisers.                                *)
Known == Words \cup Data

Answered == sent > 0 /\ ready /\ d_ack_d0

RdType == /\ rword \in Known
          /\ captured \in Seq(Known) /\ answers \in Seq(Known)
          /\ Len(captured) = got
          /\ got > 0 => rword = captured[got]
RdAnswers == ~dirty => /\ Len(answers) = IF sent = 0 \/ Answered THEN sent ELSE sent - 1
                       /\ sent > 0 /\ ready => d_ack
                       /\ ~ready => sent > 0
                       /\ \A i \in 1..Len(answers) : answers[i] = captured[i]
RdInv == PsInv /\ RdType /\ RdAnswers

LEMMA AnswerSteps ==
  ASSUME NEW x, Answer(x)
  PROVE  /\ ~rst_in_n => answers' = <<>>
         /\ rst_in_n /\ rd_done /\ sent > 0 => answers' = Append(answers, x)
         /\ rst_in_n /\ ~(rd_done /\ sent > 0) => answers' = answers
<1>1. ASSUME ~rst_in_n PROVE answers' = <<>>
  BY <1>1, Zenon DEF Answer
<1>2. ASSUME rst_in_n, rd_done, sent > 0 PROVE answers' = Append(answers, x)
  BY <1>2, Zenon DEF Answer
<1>3. ASSUME rst_in_n, ~(rd_done /\ sent > 0) PROVE answers' = answers
  BY <1>3, Zenon DEF Answer
<1> QED BY <1>1, <1>2, <1>3

(* An edge of the user's clock: one more word caught for one more pulse.   *)
LEMMA CaptureInv ==
  ASSUME PsInv, RdType, NEW s, OutSide(s), NEW d \in Known, Capture(d)
  PROVE  /\ rword' \in Known /\ captured' \in Seq(Known) /\ Len(captured') = got'
         /\ got' > 0 => rword' = captured'[got']
         /\ q_p_o => captured' = Append(captured, d)
         /\ ~q_p_o => captured' = captured /\ rword' = rword
         /\ \A i \in 1..got : captured'[i] = captured[i]
<1>1. captured \in Seq(Known) /\ Len(captured) = got /\ got \in Nat
  BY DEF RdType, PsInv, TypeOK
<1>2. CASE q_p_o
  <2>1. rword' = d /\ captured' = Append(captured, d) /\ got' = got + 1
    BY <1>2 DEF PsInv, ResetOK, OutSide, Capture, q_p_o
  <2> QED BY <1>1, <1>2, <2>1
<1>3. CASE ~q_p_o
  <2>1. rword' = rword /\ captured' = captured /\ got' = got
    BY <1>3 DEF PsInv, ResetOK, OutSide, Capture, q_p_o, outRegs
  <2> QED BY <1>1, <1>3, <2>1 DEF RdType
<1> QED BY <1>2, <1>3

(* An edge of the Wishbone clock: the answer is the word caught last.      *)
LEMMA AnswerInv ==
  ASSUME PsInv, RdType, RdAnswers, NEW rd \in BOOLEAN, NEW s, InSide(rd, s),
         NEW x \in Known, ~q_p_o => x = rword, Answer(x)
  PROVE  /\ answers' \in Seq(Known)
         /\ ~dirty => /\ Len(answers') = IF sent' = 0 \/ Answered' THEN sent' ELSE sent' - 1
                      /\ sent' > 0 /\ ready' => d_ack'
                      /\ ~ready' => sent' > 0
                      /\ Len(answers') <= got
                      /\ \A i \in 1..Len(answers') : answers'[i] = captured[i]
<1>1. answers' = <<>> \/ answers' = Append(answers, x) \/ answers' = answers
  BY AnswerSteps, Zenon
<1>2. answers \in Seq(Known) /\ captured \in Seq(Known) /\ Len(captured) = got
  BY DEF RdType
<1>3. answers' \in Seq(Known)
  <2>1. CASE answers' = <<>> BY <2>1
  <2>2. CASE answers' = Append(answers, x) BY <1>2, <2>2
  <2> QED BY <1>1, <1>2, <2>1, <2>2
<1>4. ASSUME ~dirty
      PROVE  /\ Len(answers') = IF sent' = 0 \/ Answered' THEN sent' ELSE sent' - 1
             /\ sent' > 0 /\ ready' => d_ack'
             /\ ~ready' => sent' > 0
             /\ Len(answers') <= got
             /\ \A i \in 1..Len(answers') : answers'[i] = captured[i]
  <2> sent \in Nat /\ got \in Nat
    BY DEF PsInv, TypeOK
  <2>1. CASE ~rst_in_n
    <3>1. answers' = <<>> /\ sent' = 0 /\ ready'
      BY <2>1, AnswerSteps DEF InSide
    <3> QED BY <3>1
  <2>2. CASE rst_in_n
    <3>1. /\ sent' = IF Detected(rd) THEN sent + 1 ELSE sent
          /\ d_ack_d0' = d_ack /\ Handshake(rd)
      BY <2>2 DEF InSide
    <3>2. /\ sent' > 0 /\ ready' => d_ack'
          /\ ~ready' => sent' > 0
      BY <3>1, <1>4 DEF RdAnswers, Handshake, Detected, PsInv, TypeOK
    <3>3. CASE rd_done /\ sent > 0
      <4>1. ready /\ got = sent /\ ~q_p_o
        BY <1>4, <3>3 DEF rd_done, d_ack_p_o, q_p_o, PsInv, TypeOK, FrontOK, CountOK,
           Owed, Rising, Falling, Idle
      <4>2. Len(answers) = sent - 1
        BY <1>4, <3>3 DEF RdAnswers, Answered, rd_done, d_ack_p_o
      <4>3. answers' = Append(answers, rword)
        BY <2>2, <3>3, <4>1, AnswerSteps
      <4>4. rword = captured[sent] /\ rword \in Known
        BY <3>3, <4>1 DEF RdType
      <4>5. Len(answers') = sent
        BY <4>2, <4>3, <4>4, <1>2
      <4>6. \A i \in 1..Len(answers') : answers'[i] = captured[i]
        BY <4>2, <4>3, <4>4, <4>5, <1>2, <1>4 DEF RdAnswers
      <4>7. Detected(rd) => ~ready'
        BY <3>1 DEF Handshake
      <4>8. ~Detected(rd) => ready' /\ d_ack_d0'
        BY <3>1, <3>3, <4>1 DEF Handshake, rd_done, d_ack_p_o
      <4> QED BY <3>1, <3>2, <4>1, <4>5, <4>6, <4>7, <4>8, <3>3 DEF Answered
    <3>4. CASE ~(rd_done /\ sent > 0)
      <4>1. answers' = answers BY <2>2, <3>4, AnswerSteps
      <4>2. Len(answers) <= got /\ (Detected(rd) => Len(answers) = sent)
        BY <1>4, <3>4 DEF RdAnswers, Answered, rd_done, d_ack_p_o, PsInv, TypeOK,
           CountOK, FrontOK, Owed, Rising, Falling, Idle, Detected
      <4>3. Detected(rd) => ~ready'
        BY <3>1 DEF Handshake
      <4>4. ~Detected(rd) /\ sent > 0 => (Answered' <=> Answered)
        BY <3>1, <3>4, <1>4 DEF Handshake, rd_done, d_ack_p_o, Answered, RdAnswers,
           PsInv, TypeOK, CountOK
      <4> QED BY <3>1, <3>2, <4>1, <4>2, <4>3, <4>4, <1>4 DEF RdAnswers, Answered
    <3> QED BY <3>3, <3>4
  <2> QED BY <2>1, <2>2
<1> QED BY <1>3, <1>4

LEMMA RdInitInv == RdInit => RdInv
  BY PsInitInv, EmptyIsSeq
  DEF RdInit, RdInv, RdType, RdAnswers, Answered, Init, Known

(* When a reset has been seen, both sides start from nothing.              *)
LEMMA RdCleared ==
  ASSUME PsInv, dirty, NEW s, NEW rd \in BOOLEAN, InSide(rd, s), NEW x, Answer(x),
         dirty' = (dirty /\ (rst_in_n \/ rst_out_n)), ~dirty'
  PROVE  answers' = <<>> /\ sent' = 0 /\ ready'
  BY AnswerSteps DEF PsInv, TypeOK, ResetOK, InSide

LEMMA RdWbEdgeInv ==
  ASSUME RdInv, NEW rd \in BOOLEAN, RdWbEdge(rd)
  PROVE  RdInv'
<1> USE DEF RdInv
<1>1. PsInv' BY InEdgeInv DEF RdWbEdge
<1>2. /\ InSide(rd, ext1) /\ Answer(rword) /\ rword \in Known
      /\ dirty' = (dirty /\ (rst_in_n \/ rst_out_n))
      /\ UNCHANGED <<rword, captured, got>>
  BY DEF RdWbEdge, InEdge, RdType
<1>3. RdType'
  <2>1. answers' \in Seq(Known) BY <1>2, AnswerInv
  <2> QED BY <1>2, <2>1 DEF RdType
<1>4. ASSUME ~dirty' PROVE RdAnswers'
  <2>1. CASE ~dirty BY <2>1, <1>2, AnswerInv DEF RdAnswers
  <2>2. CASE dirty
    BY <2>2, <1>2, <1>4, RdCleared DEF RdAnswers
  <2> QED BY <2>1, <2>2
<1> QED BY <1>1, <1>3, <1>4 DEF RdAnswers

LEMMA RdUserEdgeInv ==
  ASSUME RdInv, NEW d \in Known, RdUserEdge(d)
  PROVE  RdInv'
<1> USE DEF RdInv
<1>1. PsInv' BY OutEdgeInv DEF RdUserEdge
<1>2. /\ OutSide(in_ext) /\ Capture(d)
      /\ UNCHANGED <<answers, sent, ready, d_ack, d_ack_d0, dirty>>
  BY DEF RdUserEdge, OutEdge, inRegs
<1>3. RdType' BY <1>2, CaptureInv DEF RdType
<1>4. ASSUME ~dirty PROVE RdAnswers'
  <2>1. \A i \in 1..got : captured'[i] = captured[i] BY <1>2, CaptureInv
  <2>2. Len(answers) <= got
    BY <1>4 DEF RdAnswers, Answered, PsInv, TypeOK, FrontOK, CountOK, Owed, Rising, Falling, Idle
  <2>3. Len(answers) \in Nat BY DEF RdType
  <2>4. \A i \in 1..Len(answers) : answers'[i] = captured'[i]
    BY <2>1, <2>2, <2>3, <1>2, <1>4 DEF RdAnswers, PsInv, TypeOK
  <2> QED BY <2>4, <1>2, <1>4 DEF RdAnswers, Answered
<1> QED BY <1>1, <1>2, <1>3, <1>4 DEF RdAnswers

LEMMA RdBothEdgesInv ==
  ASSUME RdInv, NEW rd \in BOOLEAN, NEW d \in Known, RdBothEdges(rd, d)
  PROVE  RdInv'
<1> USE DEF RdInv
<1>1. PsInv' BY BothEdgesInv DEF RdBothEdges
<1>2. PICK s : InSide(rd, s) BY DEF RdBothEdges, BothEdges
<1>3. PICK t : OutSide(t) BY DEF RdBothEdges, BothEdges
<1>4. PICK x \in (IF q_p_o THEN Words ELSE {rword}) : Answer(x)
  BY DEF RdBothEdges
<1>5. x \in Known /\ (~q_p_o => x = rword)
  BY <1>4 DEF RdType, Known
<1>6. Capture(d) /\ dirty' = (dirty /\ (rst_in_n \/ rst_out_n))
  BY DEF RdBothEdges, BothEdges
<1>7. RdType'
  <2>1. answers' \in Seq(Known) BY <1>2, <1>4, <1>5, AnswerInv
  <2> QED BY <2>1, <1>3, <1>6, CaptureInv DEF RdType
<1>8. ASSUME ~dirty' PROVE RdAnswers'
  <2>1. CASE ~dirty
    <3>1. /\ Len(answers') = IF sent' = 0 \/ Answered' THEN sent' ELSE sent' - 1
          /\ sent' > 0 /\ ready' => d_ack'
          /\ ~ready' => sent' > 0
          /\ Len(answers') <= got
          /\ \A i \in 1..Len(answers') : answers'[i] = captured[i]
      BY <2>1, <1>2, <1>4, <1>5, AnswerInv
    <3>2. \A i \in 1..got : captured'[i] = captured[i]
      BY <1>3, <1>6, CaptureInv
    <3>3. got \in Nat /\ Len(answers') \in Nat
      BY <1>7 DEF PsInv, TypeOK, RdType
    <3>4. \A i \in 1..Len(answers') : answers'[i] = captured'[i]
      BY <3>1, <3>2, <3>3
    <3> QED BY <3>1, <3>4 DEF RdAnswers
  <2>2. CASE dirty
    BY <2>2, <1>2, <1>4, <1>6, <1>8, RdCleared DEF RdAnswers
  <2> QED BY <2>1, <2>2
<1> QED BY <1>1, <1>7, <1>8 DEF RdAnswers

LEMMA RdAssertInv ==
  ASSUME RdInv, RdAssert
  PROVE  RdInv'
  BY AssertInv, EmptyIsSeq DEF RdInv, RdAssert, RdType, RdAnswers, Assert

LEMMA RdReleaseInv ==
  ASSUME RdInv, RdRelease
  PROVE  RdInv'
<1> USE DEF RdInv, RdRelease
<1>1. PsInv' BY ReleaseInv
<1>2. UNCHANGED <<rdVars, inRegs, counts, dirty>> BY DEF Release
<1>3. RdType' BY <1>2 DEF RdType, rdVars, counts
<1>4. RdAnswers' BY <1>2 DEF RdAnswers, Answered, rdVars, inRegs, counts
<1> QED BY <1>1, <1>3, <1>4

LEMMA RdStutter == RdInv /\ UNCHANGED <<psVars, rdVars>> => RdInv'
<1> SUFFICES ASSUME RdInv, UNCHANGED <<psVars, rdVars>> PROVE RdInv'
  OBVIOUS
<1> USE DEF RdInv, psVars, rdVars, inRegs, counts
<1>1. PsInv' BY PsStutter
<1>2. RdType' BY DEF RdType
<1>3. RdAnswers' BY DEF RdAnswers, Answered
<1> QED BY <1>1, <1>2, <1>3

LEMMA RdInvMeans == RdInv => ReadsGetTheirWord
<1> SUFFICES ASSUME RdInv, ~dirty
             PROVE  /\ answers = SubSeq(captured, 1, Len(answers))
                    /\ rst_in_n /\ rd_done => Len(captured) = sent
  BY DEF ReadsGetTheirWord
<1> USE DEF RdInv
<1>1. Len(answers) <= Len(captured)
  BY DEF RdType, RdAnswers, Answered, PsInv, TypeOK, FrontOK, CountOK, Owed,
     Rising, Falling, Idle
<1>2. answers = SubSeq(captured, 1, Len(answers))
  BY <1>1, PrefixByElements DEF RdType, RdAnswers
<1>3. rst_in_n /\ rd_done => Len(captured) = sent
  BY PsInvMeans DEF OnePulsePerRequest, rd_done, RdType
<1> QED BY <1>2, <1>3

(* gc_sync_word_rd: each read is answered once with the word that was      *)
(* caught for it, never with the one before.                               *)
THEOREM ReadsSafe == RdSpec => []ReadsGetTheirWord
<1>1. RdInit => RdInv
  BY RdInitInv
<1>2. RdInv /\ [RdNext]_<<psVars, rdVars>> => RdInv'
  BY RdWbEdgeInv, RdUserEdgeInv, RdBothEdgesInv, RdAssertInv, RdReleaseInv, RdStutter
  DEF RdNext, Known
<1> QED
  BY <1>1, <1>2, RdInvMeans, PTL DEF RdSpec

-----------------------------------------------------------------------------
(* One of the two synchronisers, with clocks that do not stop: the other's *)
(* registers stand still.                                                  *)
MCInv == \/ unit = "wr" /\ WrInv
         \/ unit = "rd" /\ RdInv

(* A read is answered with its word in the composition as well, whose      *)
(* clocks tick as they like.                                               *)
THEOREM MCReadsSafe == MCSpec => []ReadsAnswered
<1>1. MCInit => MCInv
  BY WrInitInv, RdInitInv DEF MCInit, MCInv
<1>2. MCInv /\ [MCNext]_mcVars => MCInv'
  <2> SUFFICES ASSUME MCInv, [MCNext]_mcVars PROVE MCInv'
    OBVIOUS
  <2>1. CASE unit = "wr"
    <3>1. WrInv BY <2>1 DEF MCInv
    <3>2. unit' = "wr" /\ [WrNext]_<<psVars, wrVars>>
      BY <2>1 DEF MCNext, TickBoth, TickIn, TickOut, MCAssert, MCRelease, WrNext, mcVars
    <3>3. WrInv'
      BY <3>1, <3>2, WrInEdgeInv, WrOutEdgeInv, WrBothEdgesInv, WrAssertInv,
         WrReleaseInv, WrStutter DEF WrNext
    <3> QED BY <3>2, <3>3 DEF MCInv
  <2>2. CASE unit = "rd"
    <3>1. RdInv BY <2>2 DEF MCInv
    <3>2. /\ unit' = "rd"
          /\ \/ \E rd \in BOOLEAN, d \in Data : RdBothEdges(rd, d)
             \/ \E rd \in BOOLEAN : RdWbEdge(rd)
             \/ \E d \in Data : RdUserEdge(d)
             \/ RdAssert \/ RdRelease
             \/ UNCHANGED <<psVars, rdVars>>
      BY <2>2 DEF MCNext, TickBoth, TickIn, TickOut, MCAssert, MCRelease, mcVars
    <3>3. RdInv'
      BY <3>1, <3>2, RdWbEdgeInv, RdUserEdgeInv, RdBothEdgesInv, RdAssertInv,
         RdReleaseInv, RdStutter DEF Known
    <3> QED BY <3>2, <3>3 DEF MCInv
  <2> QED BY <2>1, <2>2 DEF MCInv
<1>3. MCInv => ReadsAnswered
  BY RdInvMeans DEF MCInv, ReadsAnswered
<1> QED
  BY <1>1, <1>2, <1>3, PTL DEF MCSpec
=============================================================================
