-------------------------- MODULE AsyncFifo_proofs --------------------------
(***************************************************************************)
(* Safety of the asynchronous FIFO for every power-of-two size, every data *)
(* type and every interleaving of the two clocks; and that it implements   *)
(* Fifo: the words between its pointers are the abstract queue, and every  *)
(* step of the ring puts, gets, does both, clears or changes nothing the   *)
(* users can tell.  The last part is about the FIFO with two resets.       *)
(***************************************************************************)
EXTENDS AsyncFifoDualRst, SequenceTheorems, TLAPS

(* The order of the six pointers around the ring, as a relation on values: *)
(* w wrote, y and x are its delayed copies, r read, b and a its copies.    *)
InOrder(w, y, x, r, b, a) ==
  /\ Dist(w, a) <= Size
  /\ Dist(w, y) + Dist(y, x) + Dist(x, r) + Dist(r, b) + Dist(b, a) = Dist(w, a)

LEMMA IncType == \A b \in Pointer : Inc(b) \in Pointer
  BY SizeAssumption DEF Inc, Pointer

LEMMA AddrType == \A b \in Pointer : Addr(b) \in 0 .. Size-1
  BY SizeAssumption DEF Addr, Pointer

LEMMA DistType == \A a, b \in Pointer : Dist(a, b) \in Pointer
  BY SizeAssumption DEF Dist, Pointer

(* What an edge of clk_wr_i does to the order: the pointer may step, and   *)
(* the copies of the read pointer move up by one flip-flop.                *)
LEMMA OrderWrEdge ==
  ASSUME NEW w \in Pointer, NEW y \in Pointer, NEW x \in Pointer,
         NEW r \in Pointer, NEW b \in Pointer, NEW a \in Pointer,
         InOrder(w, y, x, r, b, a),
         NEW w2 \in Pointer, w2 = w \/ (w2 = Inc(w) /\ Dist(w, a) < Size)
  PROVE  InOrder(w2, y, x, r, r, b)
  BY SizeAssumption DEF InOrder, Dist, Inc, Pointer

(* The same for clk_rd_i and the copies of the write pointer. *)
LEMMA OrderRdEdge ==
  ASSUME NEW w \in Pointer, NEW y \in Pointer, NEW x \in Pointer,
         NEW r \in Pointer, NEW b \in Pointer, NEW a \in Pointer,
         InOrder(w, y, x, r, b, a),
         NEW r2 \in Pointer, r2 = r \/ (r2 = Inc(r) /\ Dist(x, r) >= 1)
  PROVE  InOrder(w, w, y, r2, b, a)
  BY SizeAssumption DEF InOrder, Dist, Inc, Pointer

(* When both clocks tick at once each copy is taken before or after the    *)
(* step of its pointer: w and r are the pointers before, w2 and r2 after.  *)
LEMMA OrderMixed ==
  ASSUME NEW w \in Pointer, NEW r \in Pointer, NEW w2 \in Pointer,
         NEW r2 \in Pointer, NEW x \in Pointer, NEW a \in Pointer,
         w2 \in {w, Inc(w)}, InOrder(w2, w2, x, r2, r, a),
         InOrder(w, w, x, r2, r, a), NEW y \in {w, w2}, NEW b \in {r, r2}
  PROVE  InOrder(w2, y, x, r2, b, a)
  BY SizeAssumption DEF InOrder, Dist, Inc, Pointer

(* full_int after an edge: the writer, where it is now, is less than a     *)
(* turn ahead of what it will know of the reader.                          *)
LEMMA TurnAheadIsSize ==
  \A w, a \in Pointer : TurnAhead(w, a) <=> Dist(w, a) = Size
  BY SizeAssumption DEF TurnAhead, Addr, Dist, Pointer

LEMMA RoomAfterWrite ==
  ASSUME NEW w \in Pointer, NEW y \in Pointer, NEW x \in Pointer,
         NEW r \in Pointer, NEW b \in Pointer, NEW a \in Pointer,
         InOrder(w, y, x, r, b, a),
         NEW w2 \in Pointer, w2 = w \/ (w2 = Inc(w) /\ Dist(w, a) < Size),
         Dist(w2, a) # Size
  PROVE  Dist(w2, b) < Size
  BY SizeAssumption DEF InOrder, Dist, Inc, Pointer

(* empty_int after an edge. *)
LEMMA WordAfterRead ==
  ASSUME NEW w \in Pointer, NEW y \in Pointer, NEW x \in Pointer,
         NEW r \in Pointer, NEW b \in Pointer, NEW a \in Pointer,
         InOrder(w, y, x, r, b, a),
         NEW r2 \in Pointer, r2 = r \/ (r2 = Inc(r) /\ Dist(x, r) >= 1),
         r2 # x
  PROVE  Dist(y, r2) >= 1 /\ Dist(x, r2) >= 1
  BY SizeAssumption DEF InOrder, Dist, Inc, Pointer

(* A word the reader knows of is not where the writer writes. *)
LEMMA WriteMissesRead ==
  ASSUME NEW w \in Pointer, NEW y \in Pointer, NEW x \in Pointer,
         NEW r \in Pointer, NEW b \in Pointer, NEW a \in Pointer,
         InOrder(w, y, x, r, b, a), Dist(w, a) < Size,
         NEW r2 \in Pointer, r2 = r \/ (r2 = Inc(r) /\ Dist(x, r) >= 1),
         Dist(x, r2) >= 1
  PROVE  Addr(w) # Addr(r2)
  BY SizeAssumption DEF InOrder, Dist, Inc, Addr, Pointer

-----------------------------------------------------------------------------
(* Gray words: GrayAssumption in terms of the pointers. *)
GrayWords == {Gray[b] : b \in Pointer}

LEMMA PointerModulus == Pointer = 0 .. 2^c_counter_bits - 1
  BY SizeAssumption DEF Pointer

LEMMA GrayIsWord == \A b \in Pointer : Gray[b] \in SUBSET (0 .. c_counter_bits-1)
<1> TAKE b \in Pointer
<1> DEFINE W == Bits(b, c_counter_bits)
<1>1. W \in SUBSET (0 .. c_counter_bits-1)
  BY DEF Bits
<1>2. ShiftRight(W, 1) \in SUBSET (0 .. c_counter_bits-1)
  <2> HIDE DEF W
  <2> SUFFICES ASSUME NEW i \in W, i >= 1 PROVE i - 1 \in 0 .. c_counter_bits-1
    BY DEF ShiftRight
  <2> QED BY <1>1, SizeAssumption
<1>3. Gray[b] = XorWord(W, ShiftRight(W, 1))
  BY DEF Gray, f_gray_encode
<1> HIDE DEF W
<1> QED BY <1>1, <1>2, <1>3 DEF XorWord

LEMMA BinGray == \A b \in Pointer : Bin[Gray[b]] = b
<1> TAKE b \in Pointer
<1>1. Bin[Gray[b]] = f_gray_decode(Gray[b], c_counter_bits)
  BY GrayIsWord DEF Bin
<1>2. Gray[b] = f_gray_encode(b, c_counter_bits)
  BY DEF Gray
<1> QED BY <1>1, <1>2, GrayAssumption, PointerModulus DEF GrayLaw

LEMMA SampledStep ==
  \A b \in Pointer : Sampled(Gray[b], Gray[Inc(b)]) = {Gray[b], Gray[Inc(b)]}
<1> TAKE b \in Pointer
<1>1. Gray[b] = f_gray_encode(b, c_counter_bits)
  BY DEF Gray
<1>2. Gray[Inc(b)] = f_gray_encode(Inc(b), c_counter_bits)
  BY IncType DEF Gray
<1>3. Inc(b) = IF b + 1 = 2^c_counter_bits THEN 0 ELSE b + 1
  BY SizeAssumption DEF Inc
<1> QED BY <1>1, <1>2, <1>3, GrayAssumption, PointerModulus DEF GrayLaw

LEMMA SampledSame == \A w : Sampled(w, w) = {w}
  BY DEF Sampled, XorWord

(* A copy of a pointer that may be stepping is the old or the new one. *)
LEMMA SampledPointer ==
  \A b \in Pointer : \A c \in {b, Inc(b)} :
    Sampled(Gray[b], Gray[c]) \subseteq {Gray[b], Gray[c]}
<1> SUFFICES ASSUME NEW b \in Pointer, NEW c \in {b, Inc(b)}
             PROVE  Sampled(Gray[b], Gray[c]) \subseteq {Gray[b], Gray[c]}
  OBVIOUS
<1>1. CASE c = b
  BY <1>1, SampledSame
<1>2. CASE c = Inc(b)
  BY <1>2, SampledStep
<1> QED BY <1>1, <1>2

LEMMA GrayWordsBin == \A w \in GrayWords : Bin[w] \in Pointer /\ Gray[Bin[w]] = w
  BY BinGray DEF GrayWords

LEMMA GrayEq == \A b \in Pointer, w \in GrayWords : Gray[b] = w <=> b = Bin[w]
  BY BinGray, GrayWordsBin

-----------------------------------------------------------------------------
(* The inductive invariant.  PointersInOrder carries the argument: full    *)
(* and empty are decided on delayed copies, and only the place of every    *)
(* copy makes the decision safe.  ResetHolds is what keeps a read or a     *)
(* write under reset from moving anything.                                 *)
IInv == TypeOK /\ PointersInOrder /\ FlagsAreConservative /\ ResetHolds
          /\ HeadOnDisplay

Ordered == InOrder(wbin, Bin[wx0], Bin[wx1], rbin, Bin[rx0], Bin[rx1])

LEMMA OrderedIsInOrder == PointersInOrder <=> Ordered
  BY DEF PointersInOrder, Ordered, InOrder

LEMMA TypeFacts ==
  ASSUME TypeOK
  PROVE  /\ wbin \in Pointer /\ rbin \in Pointer
         /\ {rx0, rx1, wx0, wx1} \subseteq GrayWords
         /\ Bin[rx0] \in Pointer /\ Bin[rx1] \in Pointer
         /\ Bin[wx0] \in Pointer /\ Bin[wx1] \in Pointer
  BY GrayWordsBin DEF TypeOK, GrayWords

LEMMA ZeroPointer == 0 \in Pointer /\ Dist(0, 0) = 0
  BY SizeAssumption DEF Pointer, Dist

LEMMA InitIInv == Init => IInv
<1> SUFFICES ASSUME Init PROVE IInv
  OBVIOUS
<1>1. TypeOK
  BY ZeroPointer, DataAssumption DEF Init, TypeOK
<1>2. PointersInOrder
  BY ZeroPointer, BinGray, SizeAssumption DEF Init, PointersInOrder
<1>3. FlagsAreConservative /\ ResetHolds /\ HeadOnDisplay
  BY ZeroPointer, BinGray, SizeAssumption
     DEF Init, FlagsAreConservative, ResetHolds, HeadOnDisplay
<1> QED BY <1>1, <1>2, <1>3 DEF IInv

(* What each side does at an edge of its clock, in terms of the pointers. *)
LEMMA WriteSideFacts ==
  ASSUME IInv, NEW we \in BOOLEAN, NEW d \in Data, WriteSide(we, d)
  PROVE  /\ mem' \in [0 .. Size-1 -> Data]
         /\ wbin' \in Pointer
         /\ wbin' = wbin \/ (wbin' = Inc(wbin) /\ Dist(wbin, Bin[rx1]) < Size)
         /\ full' \in BOOLEAN
         /\ rst_n => rx1' = rx0
         /\ ~rst_n => wbin' = wbin /\ full' = full /\ rx1' = rx1
         /\ rst_n /\ ~full' => Dist(wbin', Bin[rx0]) < Size
         /\ \A r \in 0 .. Size-1 : mem'[r] # mem[r] => we_int(we) /\ r = Addr(wbin)
<1>0. /\ TypeOK /\ PointersInOrder /\ FlagsAreConservative /\ Ordered
      /\ wbin \in Pointer /\ rbin \in Pointer
      /\ Bin[rx0] \in Pointer /\ Bin[rx1] \in Pointer
      /\ Bin[wx0] \in Pointer /\ Bin[wx1] \in Pointer
  BY TypeFacts, OrderedIsInOrder DEF IInv
<1>1. mem' \in [0 .. Size-1 -> Data]
  BY <1>0 DEF WriteSide, TypeOK
<1>2. wbin' \in Pointer
  BY <1>0, IncType DEF WriteSide
<1>3. wbin' = wbin \/ (wbin' = Inc(wbin) /\ Dist(wbin, Bin[rx1]) < Size)
  BY <1>0 DEF WriteSide, we_int, FlagsAreConservative
<1>4. full' \in BOOLEAN
  BY <1>0 DEF WriteSide, going_full, we_int, TurnAhead, TypeOK
<1>5. ASSUME rst_n, ~full' PROVE Dist(wbin', Bin[rx0]) < Size
  <2>1. Dist(wbin', Bin[rx1]) # Size
    BY <1>0, <1>5, TurnAheadIsSize, IncType DEF WriteSide, going_full
  <2>2. InOrder(wbin, Bin[wx0], Bin[wx1], rbin, Bin[rx0], Bin[rx1])
    BY <1>0 DEF Ordered
  <2> QED BY <1>0, <1>2, <1>3, <2>1, <2>2, RoomAfterWrite, SMTT(30)
<1>6. \A r \in 0 .. Size-1 : mem'[r] # mem[r] => we_int(we) /\ r = Addr(wbin)
  BY <1>0, AddrType DEF WriteSide, TypeOK
<1> QED BY <1>1, <1>2, <1>3, <1>4, <1>5, <1>6 DEF WriteSide

LEMMA ReadSideFacts ==
  ASSUME IInv, NEW rd \in BOOLEAN, NEW word \in Data, ReadSide(rd, word)
  PROVE  /\ q' \in Data /\ taken' \in Data
         /\ rbin' \in Pointer
         /\ rbin' = rbin \/ (rbin' = Inc(rbin) /\ Dist(Bin[wx1], rbin) >= 1)
         /\ empty' \in BOOLEAN
         /\ rst_n => wx1' = wx0
         /\ ~rst_n => rbin' = rbin /\ empty' = empty /\ wx1' = wx1
         /\ rst_n /\ ~empty' => /\ Dist(Bin[wx0], rbin') >= 1
                                /\ Dist(Bin[wx1], rbin') >= 1
         /\ rst_n /\ ShowAhead => q' = word /\ ReadAddr(rd) = Addr(rbin')
<1>0. /\ TypeOK /\ PointersInOrder /\ FlagsAreConservative /\ Ordered
      /\ wbin \in Pointer /\ rbin \in Pointer
      /\ Bin[rx0] \in Pointer /\ Bin[rx1] \in Pointer
      /\ Bin[wx0] \in Pointer /\ Bin[wx1] \in Pointer
      /\ wx1 \in GrayWords
  BY TypeFacts, OrderedIsInOrder DEF IInv
<1>1. q' \in Data /\ taken' \in Data
  BY <1>0 DEF ReadSide, TypeOK
<1>2. rbin' \in Pointer
  BY <1>0, IncType DEF ReadSide
<1>3. rbin' = rbin \/ (rbin' = Inc(rbin) /\ Dist(Bin[wx1], rbin) >= 1)
  BY <1>0 DEF ReadSide, rd_int, FlagsAreConservative
<1>4. empty' \in BOOLEAN
  BY <1>0 DEF ReadSide, going_empty, rd_int, TypeOK
<1>5. ASSUME rst_n, ~empty'
      PROVE  Dist(Bin[wx0], rbin') >= 1 /\ Dist(Bin[wx1], rbin') >= 1
  <2>1. rbin' # Bin[wx1]
    BY <1>0, <1>5, IncType, GrayEq DEF ReadSide, going_empty
  <2>2. InOrder(wbin, Bin[wx0], Bin[wx1], rbin, Bin[rx0], Bin[rx1])
    BY <1>0 DEF Ordered
  <2> QED BY <1>0, <1>2, <1>3, <2>1, <2>2, WordAfterRead, SMTT(30)
<1>6. ASSUME rst_n, ShowAhead PROVE q' = word /\ ReadAddr(rd) = Addr(rbin')
  BY <1>6 DEF ReadSide, Reads, ReadAddr
<1> QED BY <1>1, <1>2, <1>3, <1>4, <1>5, <1>6 DEF ReadSide

-----------------------------------------------------------------------------
(* Each action keeps the inductive invariant. *)
LEMMA WrEdgeIInv ==
  ASSUME IInv, NEW we \in BOOLEAN, NEW d \in Data, WrEdge(we, d)
  PROVE  IInv'
<1>0. /\ TypeOK /\ Ordered /\ FlagsAreConservative /\ ResetHolds /\ HeadOnDisplay
      /\ wbin \in Pointer /\ rbin \in Pointer
      /\ {rx0, rx1, wx0, wx1} \subseteq GrayWords
      /\ Bin[rx0] \in Pointer /\ Bin[rx1] \in Pointer
      /\ Bin[wx0] \in Pointer /\ Bin[wx1] \in Pointer
  BY TypeFacts, OrderedIsInOrder DEF IInv
<1>w. /\ WriteSide(we, d)
      /\ rst_n => rx0' = Gray[rbin]
      /\ ~rst_n => rx0' = rx0
      /\ rst_n' = rst_n /\ UNCHANGED rdVars
  BY DEF WrEdge
<1>f. /\ mem' \in [0 .. Size-1 -> Data]
      /\ wbin' \in Pointer
      /\ wbin' = wbin \/ (wbin' = Inc(wbin) /\ Dist(wbin, Bin[rx1]) < Size)
      /\ full' \in BOOLEAN
      /\ rst_n => rx1' = rx0
      /\ ~rst_n => wbin' = wbin /\ full' = full /\ rx1' = rx1
      /\ rst_n /\ ~full' => Dist(wbin', Bin[rx0]) < Size
      /\ \A r \in 0 .. Size-1 : mem'[r] # mem[r] => we_int(we) /\ r = Addr(wbin)
  BY <1>w, WriteSideFacts
<1>u. rbin' = rbin /\ empty' = empty /\ wx0' = wx0 /\ wx1' = wx1 /\ q' = q
      /\ taken' = taken
  BY <1>w DEF rdVars
<1>1. TypeOK'
  <2>1. {rx0', rx1'} \subseteq GrayWords
    BY <1>0, <1>w, <1>f DEF GrayWords
  <2> QED BY <1>0, <1>w, <1>f, <1>u, <2>1 DEF TypeOK, GrayWords
<1>2. Ordered'
  <2>1. CASE rst_n
    <3>1. InOrder(wbin', Bin[wx0], Bin[wx1], rbin, rbin, Bin[rx0])
      BY <1>0, <1>f, OrderWrEdge DEF Ordered
    <3>2. Bin[rx0'] = rbin
      BY <2>1, <1>0, <1>w, BinGray
    <3> QED BY <2>1, <1>f, <1>u, <3>1, <3>2 DEF Ordered
  <2>2. CASE ~rst_n
    BY <2>2, <1>0, <1>w, <1>f, <1>u DEF Ordered
  <2> QED BY <2>1, <2>2, <1>0 DEF TypeOK
<1>3. FlagsAreConservative'
  BY <1>0, <1>f, <1>u DEF FlagsAreConservative, TypeOK
<1>4. ResetHolds'
  BY <1>0, <1>w, <1>f, <1>u DEF ResetHolds
<1>5. HeadOnDisplay'
  <2> SUFFICES ASSUME ShowAhead, ~empty PROVE mem'[Addr(rbin)] = mem[Addr(rbin)]
    BY <1>0, <1>u DEF HeadOnDisplay
  <2>1. SUFFICES ASSUME we_int(we), Addr(rbin) = Addr(wbin) PROVE FALSE
    BY <1>0, <1>f, AddrType
  <2>2. Dist(wbin, Bin[rx1]) < Size /\ Dist(Bin[wx1], rbin) >= 1
    BY <1>0, <2>1 DEF FlagsAreConservative, we_int
  <2>3. InOrder(wbin, Bin[wx0], Bin[wx1], rbin, Bin[rx0], Bin[rx1])
    BY <1>0 DEF Ordered
  <2>4. Addr(wbin) # Addr(rbin)
    BY <1>0, <2>2, <2>3, WriteMissesRead
  <2> QED BY <2>1, <2>4
<1> QED BY <1>1, <1>2, <1>3, <1>4, <1>5, OrderedIsInOrder, PTL DEF IInv

LEMMA RdEdgeIInv ==
  ASSUME IInv, NEW rd \in BOOLEAN, RdEdge(rd)
  PROVE  IInv'
<1>0. /\ TypeOK /\ Ordered /\ FlagsAreConservative /\ ResetHolds /\ HeadOnDisplay
      /\ wbin \in Pointer /\ rbin \in Pointer
      /\ {rx0, rx1, wx0, wx1} \subseteq GrayWords
      /\ Bin[rx0] \in Pointer /\ Bin[rx1] \in Pointer
      /\ Bin[wx0] \in Pointer /\ Bin[wx1] \in Pointer
  BY TypeFacts, OrderedIsInOrder DEF IInv
<1> DEFINE word == mem[ReadAddr(rd)]
<1>t. word \in Data
  BY <1>0, AddrType, IncType DEF ReadAddr, TypeOK
<1>r. /\ ReadSide(rd, word)
      /\ rst_n => wx0' = Gray[wbin]
      /\ ~rst_n => wx0' = wx0
      /\ rst_n' = rst_n /\ UNCHANGED wrVars
  BY DEF RdEdge
<1> HIDE DEF word
<1>f. /\ q' \in Data /\ taken' \in Data
      /\ rbin' \in Pointer
      /\ rbin' = rbin \/ (rbin' = Inc(rbin) /\ Dist(Bin[wx1], rbin) >= 1)
      /\ empty' \in BOOLEAN
      /\ rst_n => wx1' = wx0
      /\ ~rst_n => rbin' = rbin /\ empty' = empty /\ wx1' = wx1
      /\ rst_n /\ ~empty' => /\ Dist(Bin[wx0], rbin') >= 1
                             /\ Dist(Bin[wx1], rbin') >= 1
      /\ rst_n /\ ShowAhead => q' = word /\ ReadAddr(rd) = Addr(rbin')
  BY <1>t, <1>r, ReadSideFacts
<1>u. mem' = mem /\ wbin' = wbin /\ full' = full /\ rx0' = rx0 /\ rx1' = rx1
  BY <1>r DEF wrVars
<1>1. TypeOK'
  <2>1. {wx0', wx1'} \subseteq GrayWords
    BY <1>0, <1>r, <1>f DEF GrayWords
  <2> QED BY <1>0, <1>r, <1>f, <1>u, <2>1 DEF TypeOK, GrayWords
<1>2. Ordered'
  <2>1. CASE rst_n
    <3>1. InOrder(wbin, wbin, Bin[wx0], rbin', Bin[rx0], Bin[rx1])
      BY <1>0, <1>f, OrderRdEdge DEF Ordered
    <3>2. Bin[wx0'] = wbin
      BY <2>1, <1>0, <1>r, BinGray
    <3> QED BY <2>1, <1>f, <1>u, <3>1, <3>2 DEF Ordered
  <2>2. CASE ~rst_n
    BY <2>2, <1>0, <1>r, <1>f, <1>u DEF Ordered
  <2> QED BY <2>1, <2>2, <1>0 DEF TypeOK
<1>3. FlagsAreConservative'
  BY <1>0, <1>f, <1>u DEF FlagsAreConservative, TypeOK
<1>4. ResetHolds'
  BY <1>0, <1>r, <1>f, <1>u DEF ResetHolds
<1>5. HeadOnDisplay'
  <2> SUFFICES ASSUME ShowAhead, ~empty' PROVE q' = mem[Addr(rbin')]
    BY <1>u DEF HeadOnDisplay
  <2>1. rst_n
    BY <1>0, <1>f DEF ResetHolds, TypeOK
  <2> QED BY <1>f, <2>1 DEF word
<1> QED BY <1>1, <1>2, <1>3, <1>4, <1>5, OrderedIsInOrder, PTL DEF IInv

(* The two sides meet only in the samples they take of each other's        *)
(* pointer, old or new, and in a RAM word read while it is written; the    *)
(* last is never a word the reader is told of.                             *)
LEMMA BothEdgesIInv ==
  ASSUME IInv, NEW we \in BOOLEAN, NEW d \in Data, NEW rd \in BOOLEAN,
         BothEdges(we, d, rd)
  PROVE  IInv'
<1>0. /\ TypeOK /\ Ordered /\ FlagsAreConservative /\ ResetHolds /\ HeadOnDisplay
      /\ wbin \in Pointer /\ rbin \in Pointer
      /\ {rx0, rx1, wx0, wx1} \subseteq GrayWords
      /\ Bin[rx0] \in Pointer /\ Bin[rx1] \in Pointer
      /\ Bin[wx0] \in Pointer /\ Bin[wx1] \in Pointer
  BY TypeFacts, OrderedIsInOrder DEF IInv
<1>b. PICK word \in ReadDuringWrite(we, rd) : ReadSide(rd, word)
  BY DEF BothEdges
<1>s. /\ WriteSide(we, d)
      /\ rst_n => /\ rx0' \in Sampled(Gray[rbin], Gray[rbin'])
                  /\ wx0' \in Sampled(Gray[wbin], Gray[wbin'])
      /\ ~rst_n => rx0' = rx0 /\ wx0' = wx0
      /\ rst_n' = rst_n
  BY DEF BothEdges
<1>t. word \in Data
  <2>1. ReadAddr(rd) \in 0 .. Size-1
    BY <1>0, AddrType, IncType DEF ReadAddr
  <2>2. mem[ReadAddr(rd)] \in Data
    BY <2>1, <1>0 DEF TypeOK
  <2> QED BY <1>b, <2>2 DEF ReadDuringWrite
<1>w. /\ mem' \in [0 .. Size-1 -> Data]
      /\ wbin' \in Pointer
      /\ wbin' = wbin \/ (wbin' = Inc(wbin) /\ Dist(wbin, Bin[rx1]) < Size)
      /\ full' \in BOOLEAN
      /\ rst_n => rx1' = rx0
      /\ ~rst_n => wbin' = wbin /\ full' = full /\ rx1' = rx1
      /\ rst_n /\ ~full' => Dist(wbin', Bin[rx0]) < Size
      /\ \A r \in 0 .. Size-1 : mem'[r] # mem[r] => we_int(we) /\ r = Addr(wbin)
  BY <1>s, WriteSideFacts
<1>r. /\ q' \in Data /\ taken' \in Data
      /\ rbin' \in Pointer
      /\ rbin' = rbin \/ (rbin' = Inc(rbin) /\ Dist(Bin[wx1], rbin) >= 1)
      /\ empty' \in BOOLEAN
      /\ rst_n => wx1' = wx0
      /\ ~rst_n => rbin' = rbin /\ empty' = empty /\ wx1' = wx1
      /\ rst_n /\ ~empty' => /\ Dist(Bin[wx0], rbin') >= 1
                             /\ Dist(Bin[wx1], rbin') >= 1
      /\ rst_n /\ ShowAhead => q' = word /\ ReadAddr(rd) = Addr(rbin')
  BY <1>b, <1>t, ReadSideFacts
<1>x. rst_n => rx0' \in {Gray[rbin], Gray[rbin']} /\ wx0' \in {Gray[wbin], Gray[wbin']}
  <2>1. /\ Sampled(Gray[rbin], Gray[rbin']) \subseteq {Gray[rbin], Gray[rbin']}
        /\ Sampled(Gray[wbin], Gray[wbin']) \subseteq {Gray[wbin], Gray[wbin']}
    <3>1. rbin' \in {rbin, Inc(rbin)} /\ wbin' \in {wbin, Inc(wbin)}
      BY <1>w, <1>r
    <3> QED BY <1>0, <3>1, SampledPointer
  <2> QED BY <2>1, <1>s
<1>i. InOrder(wbin, Bin[wx0], Bin[wx1], rbin, Bin[rx0], Bin[rx1])
  BY <1>0 DEF Ordered
<1>1. TypeOK'
  <2>1. {rx0', rx1', wx0', wx1'} \subseteq GrayWords
    BY <1>0, <1>s, <1>w, <1>r, <1>x DEF GrayWords
  <2> QED BY <1>0, <1>s, <1>w, <1>r, <2>1 DEF TypeOK, GrayWords
<1>2. Ordered'
  <2>1. CASE rst_n
    <3>1. Bin[rx0'] \in {rbin, rbin'} /\ Bin[wx0'] \in {wbin, wbin'}
      BY <2>1, <1>0, <1>w, <1>r, <1>x, BinGray
    <3>2. \A y \in {wbin, wbin'}, b \in {rbin, rbin'} :
            InOrder(wbin', y, Bin[wx0], rbin', b, Bin[rx0])
      <4>1. InOrder(wbin', Bin[wx0], Bin[wx1], rbin, rbin, Bin[rx0])
        BY <1>0, <1>w, <1>i, OrderWrEdge
      <4>2. InOrder(wbin', wbin', Bin[wx0], rbin', rbin, Bin[rx0])
        BY <4>1, <1>0, <1>w, <1>r, OrderRdEdge
      <4>3. InOrder(wbin, Bin[wx0], Bin[wx1], rbin, rbin, Bin[rx0])
        BY <1>0, <1>i, OrderWrEdge
      <4>4. InOrder(wbin, wbin, Bin[wx0], rbin', rbin, Bin[rx0])
        BY <4>3, <1>0, <1>r, OrderRdEdge
      <4>5. wbin' \in {wbin, Inc(wbin)}
        BY <1>w
      <4>6. /\ wbin \in Pointer /\ rbin \in Pointer /\ wbin' \in Pointer /\ rbin' \in Pointer
            /\ Bin[wx0] \in Pointer /\ Bin[rx0] \in Pointer
        BY <1>0, <1>w, <1>r
      <4> TAKE y \in {wbin, wbin'}, b \in {rbin, rbin'}
      <4> DEFINE w2 == wbin'
                 r2 == rbin'
                 x == Bin[wx0]
                 a == Bin[rx0]
      <4>7. /\ w2 \in {wbin, Inc(wbin)} /\ y \in {wbin, w2} /\ b \in {rbin, r2}
            /\ InOrder(w2, w2, x, r2, rbin, a) /\ InOrder(wbin, wbin, x, r2, rbin, a)
        BY <4>2, <4>4, <4>5
      <4>8. wbin \in Pointer /\ rbin \in Pointer /\ w2 \in Pointer /\ r2 \in Pointer
            /\ x \in Pointer /\ a \in Pointer
        BY <4>6
      <4> HIDE DEF w2, r2, x, a
      <4>9. InOrder(w2, y, x, r2, b, a)
        BY <4>7, <4>8, OrderMixed
      <4> QED BY <4>9 DEF w2, r2, x, a
    <3> QED BY <2>1, <1>w, <1>r, <3>1, <3>2 DEF Ordered
  <2>2. CASE ~rst_n
    BY <2>2, <1>0, <1>s, <1>w, <1>r DEF Ordered
  <2> QED BY <2>1, <2>2, <1>0 DEF TypeOK
<1>3. FlagsAreConservative'
  BY <1>0, <1>w, <1>r DEF FlagsAreConservative, TypeOK
<1>4. ResetHolds'
  BY <1>0, <1>s, <1>w, <1>r DEF ResetHolds
<1>5. HeadOnDisplay'
  <2> SUFFICES ASSUME ShowAhead, ~empty' PROVE q' = mem'[Addr(rbin')]
    BY DEF HeadOnDisplay
  <2>1. rst_n
    BY <1>0, <1>r DEF ResetHolds, TypeOK
  <2>2. q' = word /\ ReadAddr(rd) = Addr(rbin')
    BY <2>1, <1>r
  <2>3. we_int(we) => Addr(wbin) # Addr(rbin')
    <3>1. we_int(we) => Dist(wbin, Bin[rx1]) < Size
      BY <1>0 DEF FlagsAreConservative, we_int
    <3>2. Dist(Bin[wx1], rbin') >= 1
      BY <2>1, <1>r
    <3> QED BY <1>0, <1>r, <1>i, <3>1, <3>2, WriteMissesRead, SMTT(30)
  <2>4. word = mem[Addr(rbin')]
    BY <2>2, <2>3 DEF ReadDuringWrite
  <2> QED BY <1>r, <1>w, <2>2, <2>3, <2>4, AddrType
<1> QED BY <1>1, <1>2, <1>3, <1>4, <1>5, OrderedIsInOrder, PTL DEF IInv

LEMMA ResetIInv ==
  ASSUME IInv, AssertReset \/ ReleaseReset
  PROVE  IInv'
<1>0. TypeOK /\ Ordered /\ FlagsAreConservative /\ ResetHolds /\ HeadOnDisplay
  BY OrderedIsInOrder DEF IInv
<1>1. CASE AssertReset
  <2>1. TypeOK'
    BY <1>0, <1>1, ZeroPointer DEF AssertReset, TypeOK
  <2>2. PointersInOrder'
    BY <1>1, ZeroPointer, BinGray, SizeAssumption DEF AssertReset, PointersInOrder
  <2>3. FlagsAreConservative' /\ ResetHolds' /\ HeadOnDisplay'
    BY <1>1, ZeroPointer, BinGray, SizeAssumption
       DEF AssertReset, FlagsAreConservative, ResetHolds, HeadOnDisplay
  <2> QED BY <2>1, <2>2, <2>3 DEF IInv
<1>2. CASE ReleaseReset
  BY <1>2 DEF ReleaseReset, wrVars, rdVars, IInv, TypeOK, PointersInOrder,
              FlagsAreConservative, ResetHolds, HeadOnDisplay
<1> QED BY <1>1, <1>2

LEMMA NextIInv == IInv /\ [Next]_vars => IInv'
<1> SUFFICES ASSUME IInv, [Next]_vars PROVE IInv'
  OBVIOUS
<1>1. CASE WrTick
  BY <1>1, WrEdgeIInv DEF WrTick
<1>2. CASE RdTick
  BY <1>2, RdEdgeIInv DEF RdTick
<1>3. CASE BothTick
  BY <1>3, BothEdgesIInv DEF BothTick
<1>4. CASE AssertReset \/ ReleaseReset
  BY <1>4, ResetIInv
<1>5. CASE UNCHANGED vars
  BY <1>5 DEF vars, wrVars, rdVars, IInv, TypeOK, PointersInOrder,
              FlagsAreConservative, ResetHolds, HeadOnDisplay
<1> QED BY <1>1, <1>2, <1>3, <1>4, <1>5 DEF Next

LEMMA IInvHolds == Spec => []IInv
  BY InitIInv, NextIInv, PTL DEF Spec

-----------------------------------------------------------------------------
(* The registers of inferred_async_fifo keep their types. *)
THEOREM AsyncFifoTypes == Spec => []TypeOK
<1>1. IInv => TypeOK
  BY DEF IInv
<1> QED BY <1>1, IInvHolds, PTL

(* The pointers and their synchronised copies never overtake each other:   *)
(* the FIFO neither overflows nor underflows, for any size and any clocks. *)
THEOREM AsyncFifoOrder == Spec => []PointersInOrder
<1>1. IInv => PointersInOrder
  BY DEF IInv
<1> QED BY <1>1, IInvHolds, PTL

(* A write full_int lets through finds room and a read empty_int lets      *)
(* through finds a word.                                                   *)
THEOREM AsyncFifoFlags == Spec => []FlagsAreConservative
<1>1. IInv => FlagsAreConservative
  BY DEF IInv
<1> QED BY <1>1, IInvHolds, PTL

(* With g_show_ahead, q_o is the oldest word whenever rd_empty_o is low.   *)
THEOREM AsyncFifoHead == Spec => []HeadOnDisplay
<1>1. IInv => HeadOnDisplay
  BY DEF IInv
<1> QED BY <1>1, IInvHolds, PTL
-----------------------------------------------------------------------------
(* The words from pointer r up to pointer w in memory m. *)
Words(m, w, r) == [i \in 1 .. Dist(w, r) |-> m[Addr(Plus(r, i - 1))]]

Memory == [0 .. Size-1 -> Data]

LEMMA StoredIsWords == Stored = Words(mem, wbin, rbin)
  BY DEF Stored, Words

LEMMA PlusType == \A b \in Pointer, k \in Pointer : Plus(b, k) \in Pointer
  BY SizeAssumption DEF Plus, Pointer

LEMMA WordsIsSeq ==
  ASSUME NEW m \in Memory, NEW w \in Pointer, NEW r \in Pointer
  PROVE  /\ Words(m, w, r) \in Seq(Data)
         /\ Len(Words(m, w, r)) = Dist(w, r)
         /\ \A i \in 1 .. Dist(w, r) : Words(m, w, r)[i] = m[Addr(Plus(r, i - 1))]
<1> DEFINE n == Dist(w, r)
<1>1. n \in Pointer /\ n \in Nat
  <2>1. n \in Pointer
    BY DistType
  <2> QED BY <2>1, SizeAssumption DEF Pointer
<1>2. \A i \in 1 .. n : m[Addr(Plus(r, i - 1))] \in Data
  <2> TAKE i \in 1 .. n
  <2>1. i - 1 \in Pointer
    BY <1>1, SizeAssumption DEF Pointer
  <2>2. Addr(Plus(r, i - 1)) \in 0 .. Size-1
    BY <2>1, PlusType, AddrType
  <2> QED BY <2>2 DEF Memory
<1>3. Words(m, w, r) = [i \in 1 .. n |-> m[Addr(Plus(r, i - 1))]]
  BY DEF Words
<1> HIDE DEF n
<1>4. Words(m, w, r) \in [1 .. n -> Data]
  BY <1>2, <1>3
<1>5. Words(m, w, r) \in Seq(Data) /\ Len(Words(m, w, r)) = n
  BY <1>1, <1>4
<1> QED BY <1>1, <1>3, <1>5 DEF n

(* Writing the next word appends it. *)
LEMMA WordsPut ==
  ASSUME NEW m \in Memory, NEW w \in Pointer, NEW r \in Pointer,
         Dist(w, r) < Size, NEW d \in Data
  PROVE  Words([m EXCEPT ![Addr(w)] = d], Inc(w), r) = Append(Words(m, w, r), d)
<1> DEFINE m2 == [m EXCEPT ![Addr(w)] = d]
           s == Words(m, w, r)
           t == Words(m2, Inc(w), r)
<1>1. m2 \in Memory /\ Inc(w) \in Pointer /\ Dist(w, r) \in Nat
  <2>1. Dist(w, r) \in Nat
    BY DistType, SizeAssumption DEF Pointer
  <2> QED BY <2>1, IncType DEF Memory
<1>2. Dist(Inc(w), r) = Dist(w, r) + 1
  BY SizeAssumption DEF Inc, Dist, Pointer
<1>3. s \in Seq(Data) /\ Len(s) = Dist(w, r)
  BY WordsIsSeq
<1>4. t \in Seq(Data) /\ Len(t) = Dist(w, r) + 1
  BY <1>1, <1>2, WordsIsSeq
<1>5. ASSUME NEW i \in 1 .. Dist(w, r) PROVE t[i] = s[i]
  <2>1. Plus(r, i - 1) \in Pointer /\ Addr(Plus(r, i - 1)) # Addr(w)
    BY SizeAssumption DEF Plus, Addr, Dist, Pointer
  <2>2. s[i] = m[Addr(Plus(r, i - 1))]
    BY WordsIsSeq
  <2>3. t[i] = m2[Addr(Plus(r, i - 1))]
    <3>1. i \in 1 .. Dist(Inc(w), r)
      BY <1>1, <1>2
    <3> HIDE DEF m2
    <3> QED BY <1>1, <3>1, WordsIsSeq
  <2> QED BY <2>1, <2>2, <2>3, AddrType DEF Memory
<1>6. t[Dist(w, r) + 1] = d
  <2> DEFINE j == Dist(w, r) + 1
  <2>1. Plus(r, j - 1) = w
    BY SizeAssumption DEF Plus, Dist, Pointer
  <2>2. j \in 1 .. Dist(Inc(w), r)
    BY <1>1, <1>2
  <2>3. m2[Addr(w)] = d
    BY AddrType DEF Memory
  <2> HIDE DEF m2, j
  <2>4. t[j] = m2[Addr(Plus(r, j - 1))]
    BY <1>1, <2>2, WordsIsSeq
  <2>5. t[j] = d
    BY <2>1, <2>3, <2>4
  <2> QED BY <2>5 DEF j
<1> HIDE DEF s, t, m2
<1>7. /\ Append(s, d) \in Seq(Data) /\ Len(Append(s, d)) = Len(s) + 1
      /\ \A i \in 1 .. Len(s) : Append(s, d)[i] = s[i]
      /\ Append(s, d)[Len(s) + 1] = d
  BY <1>3
<1>8. \A i \in 1 .. Len(t) : t[i] = Append(s, d)[i]
  BY <1>1, <1>3, <1>4, <1>5, <1>6, <1>7
<1>9. t = Append(s, d)
  BY <1>3, <1>4, <1>7, <1>8, SeqEqual
<1> QED BY <1>9 DEF s, t, m2

(* Moving the read pointer takes the oldest word off. *)
LEMMA WordsGet ==
  ASSUME NEW m \in Memory, NEW w \in Pointer, NEW r \in Pointer, Dist(w, r) >= 1
  PROVE  /\ Words(m, w, r) # <<>>
         /\ Head(Words(m, w, r)) = m[Addr(r)]
         /\ Words(m, w, Inc(r)) = Tail(Words(m, w, r))
<1> DEFINE s == Words(m, w, r)
           t == Words(m, w, Inc(r))
<1>1. Inc(r) \in Pointer /\ Dist(w, r) \in Nat
  BY IncType, DistType, SizeAssumption DEF Pointer
<1>2. Dist(w, Inc(r)) = Dist(w, r) - 1
  BY SizeAssumption DEF Inc, Dist, Pointer
<1>3. s \in Seq(Data) /\ Len(s) = Dist(w, r)
  BY WordsIsSeq
<1>4. t \in Seq(Data) /\ Len(t) = Dist(w, r) - 1
  BY <1>1, <1>2, WordsIsSeq
<1>5. ASSUME NEW i \in 1 .. Dist(w, r) - 1 PROVE t[i] = s[i + 1]
  <2>1. Plus(Inc(r), i - 1) = Plus(r, i + 1 - 1)
    BY <1>1, SizeAssumption DEF Plus, Inc, Dist, Pointer
  <2>2. s[i + 1] = m[Addr(Plus(r, i + 1 - 1))]
    <3> DEFINE j == i + 1
    <3>1. j \in 1 .. Dist(w, r)
      BY <1>1
    <3> HIDE DEF j
    <3>2. s[j] = m[Addr(Plus(r, j - 1))]
      BY <3>1, WordsIsSeq
    <3> QED BY <3>2 DEF j
  <2>3. t[i] = m[Addr(Plus(Inc(r), i - 1))]
    BY <1>1, <1>2, WordsIsSeq
  <2> QED BY <2>1, <2>2, <2>3
<1>6. s[1] = m[Addr(r)]
  <2> DEFINE j == 1
  <2>1. Plus(r, j - 1) = r
    BY SizeAssumption DEF Plus, Pointer
  <2>2. j \in 1 .. Dist(w, r)
    BY <1>1
  <2> HIDE DEF j
  <2>3. s[j] = m[Addr(Plus(r, j - 1))]
    BY <2>2, WordsIsSeq
  <2>4. s[j] = m[Addr(r)]
    BY <2>1, <2>3
  <2> QED BY <2>4 DEF j
<1> HIDE DEF s, t
<1>7. s # <<>> /\ Head(s) = s[1]
  BY <1>1, <1>3
<1>8. /\ Tail(s) \in Seq(Data) /\ Len(Tail(s)) = Len(s) - 1
      /\ \A i \in 1 .. Len(Tail(s)) : Tail(s)[i] = s[i + 1]
  BY <1>3, <1>7, HeadTailProperties
<1>9. t = Tail(s)
  BY <1>1, <1>3, <1>4, <1>5, <1>8, SeqEqual
<1> QED BY <1>6, <1>7, <1>9 DEF s, t

LEMMA TailOfAppend ==
  ASSUME NEW s \in Seq(Data), NEW d \in Data, s # <<>>
  PROVE  Tail(Append(s, d)) = Append(Tail(s), d)
<1> DEFINE n == Len(s)
           t == Tail(s)
           a == Append(s, d)
<1>1. n \in Nat /\ n >= 1
  BY EmptySeq
<1>2. /\ a \in Seq(Data) /\ a # <<>> /\ Len(a) = n + 1
      /\ \A i \in 1 .. n : a[i] = s[i]
      /\ a[n + 1] = d
  BY AppendProperties
<1>3. t \in Seq(Data) /\ Len(t) = n - 1 /\ \A i \in 1 .. n - 1 : t[i] = s[i + 1]
  BY <1>1, HeadTailProperties
<1> HIDE DEF n, t, a
<1>4. /\ Tail(a) \in Seq(Data) /\ Len(Tail(a)) = n
      /\ \A i \in 1 .. n : Tail(a)[i] = a[i + 1]
  BY <1>1, <1>2, HeadTailProperties
<1>5. /\ Append(t, d) \in Seq(Data) /\ Len(Append(t, d)) = n
      /\ \A i \in 1 .. n - 1 : Append(t, d)[i] = t[i]
      /\ Append(t, d)[n] = d
  BY <1>1, <1>3, AppendProperties
<1>6. ASSUME NEW i \in 1 .. n PROVE Tail(a)[i] = Append(t, d)[i]
  <2>1. CASE i = n
    BY <2>1, <1>1, <1>2, <1>4, <1>5
  <2>2. CASE i # n
    <3>1. i \in 1 .. n - 1 /\ i + 1 \in 1 .. n
      BY <2>2, <1>1
    <3> QED BY <3>1, <1>2, <1>3, <1>4, <1>5
  <2> QED BY <2>1, <2>2
<1>7. Tail(a) = Append(t, d)
  BY <1>4, <1>5, <1>6, SeqEqual
<1> QED BY <1>7 DEF a, t

LEMMA WordsNone ==
  ASSUME NEW m \in Memory, NEW w \in Pointer, NEW r \in Pointer, Dist(w, r) = 0
  PROVE  Words(m, w, r) = <<>>
  BY WordsIsSeq

-----------------------------------------------------------------------------
(* Between the copies: what the two flags let through is safe for the ring *)
(* as it is, not only as each side sees it.                                *)
LEMMA RingIsSafe ==
  ASSUME IInv
  PROVE  /\ ~full => Dist(wbin, rbin) < Size
         /\ ~empty => Dist(wbin, rbin) >= 1
         /\ ~full /\ ~empty => Addr(wbin) # Addr(rbin)
<1>0. /\ FlagsAreConservative /\ Ordered
      /\ wbin \in Pointer /\ rbin \in Pointer
      /\ Bin[rx0] \in Pointer /\ Bin[rx1] \in Pointer
      /\ Bin[wx0] \in Pointer /\ Bin[wx1] \in Pointer
  BY TypeFacts, OrderedIsInOrder DEF IInv
<1>1. InOrder(wbin, Bin[wx0], Bin[wx1], rbin, Bin[rx0], Bin[rx1])
  BY <1>0 DEF Ordered
<1>2. Dist(wbin, rbin) <= Dist(wbin, Bin[rx1]) /\ Dist(Bin[wx1], rbin) <= Dist(wbin, rbin)
  BY <1>0, <1>1, SizeAssumption DEF InOrder, Dist, Pointer
<1>3. /\ Dist(wbin, rbin) \in Int /\ Dist(wbin, Bin[rx1]) \in Int
      /\ Dist(Bin[wx1], rbin) \in Int
  <2>1. /\ Dist(wbin, rbin) \in Pointer /\ Dist(wbin, Bin[rx1]) \in Pointer
        /\ Dist(Bin[wx1], rbin) \in Pointer
    BY <1>0, DistType
  <2> QED BY <2>1, SizeAssumption DEF Pointer
<1>4. ~full => Dist(wbin, rbin) < Size
  BY <1>0, <1>2, <1>3, SizeAssumption DEF FlagsAreConservative
<1>5. ~empty => Dist(wbin, rbin) >= 1
  BY <1>0, <1>2, <1>3 DEF FlagsAreConservative
<1>6. ~full /\ ~empty => Addr(wbin) # Addr(rbin)
  BY <1>0, <1>4, <1>5, SizeAssumption DEF Addr, Dist, Pointer
<1> QED BY <1>4, <1>5, <1>6

LEMMA WriteSideWords ==
  ASSUME IInv, NEW we \in BOOLEAN, NEW d \in Data, WriteSide(we, d)
  PROVE  /\ mem' \in Memory /\ wbin' \in Pointer
         /\ rst_n /\ we_int(we) =>
              /\ Dist(wbin, rbin) < Size
              /\ Dist(wbin', rbin) = Dist(wbin, rbin) + 1
              /\ Words(mem', wbin', rbin) = Append(Stored, d)
         /\ ~(rst_n /\ we_int(we)) =>
              /\ wbin' = wbin
              /\ Words(mem', wbin', rbin) = Stored
<1>0. /\ TypeOK /\ ResetHolds /\ wbin \in Pointer /\ rbin \in Pointer /\ mem \in Memory
  BY TypeFacts DEF IInv, TypeOK, Memory
<1>1. mem' \in Memory /\ wbin' \in Pointer
  BY WriteSideFacts DEF Memory
<1>2. ASSUME rst_n, we_int(we)
      PROVE  /\ Dist(wbin, rbin) < Size
             /\ Dist(wbin', rbin) = Dist(wbin, rbin) + 1
             /\ Words(mem', wbin', rbin) = Append(Stored, d)
  <2>1. Dist(wbin, rbin) < Size
    BY <1>2, RingIsSafe DEF we_int
  <2>2. mem' = [mem EXCEPT ![Addr(wbin)] = d] /\ wbin' = Inc(wbin)
    BY <1>2 DEF WriteSide
  <2>3. Dist(Inc(wbin), rbin) = Dist(wbin, rbin) + 1
    BY <2>1, <1>0, SizeAssumption DEF Inc, Dist, Pointer
  <2> QED BY <2>1, <2>2, <2>3, <1>0, WordsPut, StoredIsWords
<1>3. ASSUME ~(rst_n /\ we_int(we))
      PROVE  wbin' = wbin /\ Words(mem', wbin', rbin) = Stored
  <2>1. wbin' = wbin
    BY <1>3 DEF WriteSide
  <2>2. CASE we_int(we)
    <3>1. Dist(wbin, rbin) = 0
      BY <1>3, <2>2, <1>0, ZeroPointer DEF ResetHolds
    <3> QED BY <3>1, <2>1, <1>0, <1>1, WordsNone, StoredIsWords
  <2>3. CASE ~we_int(we)
    BY <2>1, <2>3, StoredIsWords DEF WriteSide
  <2> QED BY <2>1, <2>2, <2>3
<1> QED BY <1>1, <1>2, <1>3

LEMMA ReadSidePointer ==
  ASSUME IInv, NEW rd \in BOOLEAN, NEW word, ReadSide(rd, word),
         rd_int(rd) /\ ~ShowAhead => word = mem[Addr(rbin)]
  PROVE  /\ rd_int(rd) => /\ rbin' = Inc(rbin)
                          /\ Dist(wbin, rbin) >= 1
                          /\ taken' = mem[Addr(rbin)]
         /\ ~rd_int(rd) => rbin' = rbin /\ taken' = taken
<1>0. TypeOK /\ ResetHolds /\ HeadOnDisplay
  BY DEF IInv
<1>1. ASSUME rd_int(rd)
      PROVE  rbin' = Inc(rbin) /\ Dist(wbin, rbin) >= 1 /\ taken' = mem[Addr(rbin)]
  <2>1. ~empty
    BY <1>1 DEF rd_int
  <2>2. rst_n
    BY <2>1, <1>0 DEF ResetHolds, TypeOK
  <2>3. Dist(wbin, rbin) >= 1
    BY <2>1, RingIsSafe
  <2>4. taken' = mem[Addr(rbin)]
    BY <2>1, <1>1, <1>0 DEF ReadSide, HeadOnDisplay
  <2> QED BY <1>1, <2>2, <2>3, <2>4 DEF ReadSide
<1>2. ASSUME ~rd_int(rd) PROVE rbin' = rbin /\ taken' = taken
  BY <1>2 DEF ReadSide
<1> QED BY <1>1, <1>2

-----------------------------------------------------------------------------
(* The step simulation, one lemma per kind of step. *)
LEMMA StoredPrime == Stored' = Words(mem', wbin', rbin')
  BY DEF Stored, Words

LEMMA WrEdgeRefines ==
  ASSUME IInv, NEW we \in BOOLEAN, NEW d \in Data, WrEdge(we, d)
  PROVE  [Abstract!Next]_Abstract!vars
<1>0. /\ WriteSide(we, d) /\ rbin' = rbin /\ taken' = taken
      /\ Stored \in Seq(Data) /\ Len(Stored) = Dist(wbin, rbin)
  <2>1. mem \in Memory /\ wbin \in Pointer /\ rbin \in Pointer
    BY TypeFacts DEF IInv, TypeOK, Memory
  <2> QED BY <2>1, WordsIsSeq, StoredIsWords DEF WrEdge, rdVars
<1>1. CASE rst_n /\ we_int(we)
  <2>1. Abstract!Put(d)
    BY <1>0, <1>1, WriteSideWords, StoredPrime DEF Abstract!Put
  <2> QED BY <2>1 DEF Abstract!Next
<1>2. CASE ~(rst_n /\ we_int(we))
  BY <1>0, <1>2, WriteSideWords, StoredPrime DEF Abstract!vars
<1> QED BY <1>1, <1>2

LEMMA RdEdgeRefines ==
  ASSUME IInv, NEW rd \in BOOLEAN, RdEdge(rd)
  PROVE  [Abstract!Next]_Abstract!vars
<1>0. mem \in Memory /\ wbin \in Pointer /\ rbin \in Pointer
  BY TypeFacts DEF IInv, TypeOK, Memory
<1>1. ReadSide(rd, mem[ReadAddr(rd)]) /\ mem' = mem /\ wbin' = wbin
  BY DEF RdEdge, wrVars
<1>2. /\ rd_int(rd) => /\ rbin' = Inc(rbin)
                       /\ Dist(wbin, rbin) >= 1
                       /\ taken' = mem[Addr(rbin)]
      /\ ~rd_int(rd) => rbin' = rbin /\ taken' = taken
  <2>1. rd_int(rd) /\ ~ShowAhead => mem[ReadAddr(rd)] = mem[Addr(rbin)]
    BY DEF ReadAddr
  <2> QED BY <1>1, <2>1, ReadSidePointer
<1>3. CASE rd_int(rd)
  <2>1. Abstract!Get
    BY <1>0, <1>1, <1>2, <1>3, WordsGet, StoredIsWords, StoredPrime DEF Abstract!Get
  <2> QED BY <2>1 DEF Abstract!Next
<1>4. CASE ~rd_int(rd)
  BY <1>1, <1>2, <1>4, StoredIsWords, StoredPrime DEF Abstract!vars
<1> QED BY <1>3, <1>4

LEMMA BothEdgesRefines ==
  ASSUME IInv, NEW we \in BOOLEAN, NEW d \in Data, NEW rd \in BOOLEAN,
         BothEdges(we, d, rd)
  PROVE  [Abstract!Next]_Abstract!vars
<1>0. mem \in Memory /\ wbin \in Pointer /\ rbin \in Pointer
  BY TypeFacts DEF IInv, TypeOK, Memory
<1>1. PICK word \in ReadDuringWrite(we, rd) : ReadSide(rd, word)
  BY DEF BothEdges
<1>2. WriteSide(we, d)
  BY DEF BothEdges
<1>w. /\ mem' \in Memory /\ wbin' \in Pointer
      /\ rst_n /\ we_int(we) =>
           /\ Dist(wbin, rbin) < Size
           /\ Dist(wbin', rbin) = Dist(wbin, rbin) + 1
           /\ Words(mem', wbin', rbin) = Append(Stored, d)
      /\ ~(rst_n /\ we_int(we)) =>
           /\ wbin' = wbin
           /\ Words(mem', wbin', rbin) = Stored
  BY <1>2, WriteSideWords
<1>r. /\ rd_int(rd) => /\ rbin' = Inc(rbin)
                       /\ Dist(wbin, rbin) >= 1
                       /\ taken' = mem[Addr(rbin)]
      /\ ~rd_int(rd) => rbin' = rbin /\ taken' = taken
  <2>1. ASSUME rd_int(rd), ~ShowAhead PROVE word = mem[Addr(rbin)]
    <3>1. ReadAddr(rd) = Addr(rbin)
      BY <2>1 DEF ReadAddr
    <3>2. ~(we_int(we) /\ Addr(wbin) = Addr(rbin))
      BY <2>1, RingIsSafe DEF we_int, rd_int
    <3> QED BY <3>1, <3>2 DEF ReadDuringWrite
  <2> QED BY <1>1, <2>1, ReadSidePointer
<1>s. Stored \in Seq(Data) /\ Len(Stored) = Dist(wbin, rbin) /\ Dist(wbin, rbin) \in Nat
  <2>1. Dist(wbin, rbin) \in Nat
    BY <1>0, DistType, SizeAssumption DEF Dist, Pointer
  <2> QED BY <2>1, <1>0, WordsIsSeq, StoredIsWords
<1>3. CASE (rst_n /\ we_int(we)) /\ rd_int(rd)
  <2>1. Stored # <<>> /\ Head(Stored) = mem[Addr(rbin)]
    BY <1>0, <1>r, <1>3, WordsGet, StoredIsWords
  <2>2. Dist(wbin', rbin) >= 1
    BY <1>w, <1>3, <1>s
  <2>3. Stored' = Tail(Append(Stored, d))
    BY <2>2, <1>0, <1>w, <1>r, <1>3, WordsGet, StoredPrime
  <2>4. Tail(Append(Stored, d)) = Append(Tail(Stored), d)
    BY <2>1, <1>s, TailOfAppend
  <2>5. Abstract!PutGet(d)
    BY <2>1, <2>3, <2>4, <1>w, <1>r, <1>s, <1>3 DEF Abstract!PutGet
  <2> QED BY <2>5 DEF Abstract!Next
<1>4. CASE (rst_n /\ we_int(we)) /\ ~rd_int(rd)
  <2>1. Abstract!Put(d)
    BY <1>w, <1>r, <1>s, <1>4, StoredPrime DEF Abstract!Put
  <2> QED BY <2>1 DEF Abstract!Next
<1>5. CASE ~(rst_n /\ we_int(we)) /\ rd_int(rd)
  <2>1. Stored # <<>> /\ Head(Stored) = mem[Addr(rbin)]
    BY <1>0, <1>r, <1>5, WordsGet, StoredIsWords
  <2>2. Stored' = Tail(Stored)
    BY <1>0, <1>w, <1>r, <1>5, WordsGet, StoredPrime
  <2>3. Abstract!Get
    BY <2>1, <2>2, <1>r, <1>5 DEF Abstract!Get
  <2> QED BY <2>3 DEF Abstract!Next
<1>6. CASE ~(rst_n /\ we_int(we)) /\ ~rd_int(rd)
  BY <1>w, <1>r, <1>6, StoredPrime DEF Abstract!vars
<1> QED BY <1>3, <1>4, <1>5, <1>6

LEMMA ResetRefines ==
  ASSUME IInv, AssertReset \/ ReleaseReset
  PROVE  [Abstract!Next]_Abstract!vars
<1>1. CASE AssertReset
  <2>1. Stored' = <<>>
    <3>1. mem' \in Memory
      BY <1>1 DEF AssertReset, IInv, TypeOK, Memory
    <3> QED BY <1>1, <3>1, ZeroPointer, WordsNone, StoredPrime DEF AssertReset
  <2>2. Abstract!Clear
    BY <1>1, <2>1 DEF AssertReset, Abstract!Clear
  <2> QED BY <2>2 DEF Abstract!Next
<1>2. CASE ReleaseReset
  BY <1>2, StoredIsWords, StoredPrime DEF ReleaseReset, wrVars, rdVars, Abstract!vars
<1> QED BY <1>1, <1>2

(* inferred_async_fifo is a FIFO of g_size words: for every size, every    *)
(* word type and every order of the edges, each word comes out once, in    *)
(* order and unaltered, and no more than g_size are ever stored.           *)
THEOREM AsyncFifoIsFifo == Spec => IsFifo
<1>1. Init => Abstract!Init
  <2> SUFFICES ASSUME Init PROVE Abstract!Init
    OBVIOUS
  <2>1. mem \in Memory /\ wbin = 0 /\ rbin = 0
    BY DataAssumption DEF Init, Memory
  <2> QED BY <2>1, ZeroPointer, WordsNone, StoredIsWords, DataAssumption
          DEF Init, Abstract!Init
<1>2. IInv /\ [Next]_vars => [Abstract!Next]_Abstract!vars
  <2> SUFFICES ASSUME IInv, [Next]_vars PROVE [Abstract!Next]_Abstract!vars
    OBVIOUS
  <2>1. CASE WrTick
    BY <2>1, WrEdgeRefines DEF WrTick
  <2>2. CASE RdTick
    BY <2>2, RdEdgeRefines DEF RdTick
  <2>3. CASE BothTick
    BY <2>3, BothEdgesRefines DEF BothTick
  <2>4. CASE AssertReset \/ ReleaseReset
    BY <2>4, ResetRefines
  <2>5. CASE UNCHANGED vars
    BY <2>5, StoredIsWords, StoredPrime DEF vars, wrVars, rdVars, Abstract!vars
  <2> QED BY <2>1, <2>2, <2>3, <2>4, <2>5 DEF Next
<1> QED BY <1>1, <1>2, IInvHolds, PTL DEF Spec, IsFifo, Abstract!Spec

-----------------------------------------------------------------------------
(* The two resets: sound from the end of a flush to the next reset, and    *)
(* then, edge by edge, as LaggedFifo says.                                 *)
DrTypeOK ==
  /\ rst_n = TRUE
  /\ mem \in Memory /\ q \in Data /\ taken \in Data
  /\ wbin \in Pointer /\ rbin \in Pointer
  /\ full \in BOOLEAN /\ empty \in BOOLEAN
  /\ rst_wr_n \in BOOLEAN /\ rst_rd_n \in BOOLEAN
  /\ wrHeld \in 0 .. MinEdges /\ rdHeld \in 0 .. MinEdges

(* Edges are counted with both resets active, and until the flush is over  *)
(* neither is released.                                                    *)
PhaseOK ==
  ~Flushed => /\ ~rst_wr_n \/ ~rst_rd_n
              /\ wrHeld >= 1 \/ rdHeld >= 1 => BothInReset

(* What the edges of a flush have cleared: the pointers first, then the    *)
(* two stages behind each, which only then take in the zero.               *)
FlushOK ==
  BothInReset => /\ wrHeld >= 1 => wbin = 0 /\ ~full
                 /\ rdHeld >= 1 => rbin = 0 /\ empty
                 /\ wrHeld >= 2 => rdHeld >= 1 /\ rx0 = Gray[0]
                 /\ rdHeld >= 2 => wrHeld >= 1 /\ wx0 = Gray[0]
                 /\ wrHeld >= 3 => rx1 = Gray[0]
                 /\ rdHeld >= 3 => wx1 = Gray[0]

(* Afterwards all is as in AsyncFifo, and the side still in reset keeps    *)
(* its pointer at zero, which is also what the other side has of it.       *)
WriterAtZero == wbin = 0 /\ wx0 = Gray[0] /\ wx1 = Gray[0] /\ ~full
ReaderAtZero == rbin = 0 /\ rx0 = Gray[0] /\ rx1 = Gray[0] /\ empty

SoundOK ==
  Flushed => /\ IInv
             /\ ~rst_wr_n => WriterAtZero /\ ReaderAtZero
             /\ ~rst_rd_n => ReaderAtZero

DrInv == DrTypeOK /\ PhaseOK /\ FlushOK /\ SoundOK

-----------------------------------------------------------------------------
LEMMA Three == MinEdges \in Nat /\ MinEdges >= 3
  BY MinEdgesAssumption

LEMMA AtZeroIsSound == DrTypeOK /\ WriterAtZero /\ ReaderAtZero => IInv
<1> SUFFICES ASSUME DrTypeOK, WriterAtZero, ReaderAtZero PROVE IInv
  OBVIOUS
<1>1. TypeOK
  BY ZeroPointer DEF DrTypeOK, WriterAtZero, ReaderAtZero, TypeOK, Memory
<1>2. PointersInOrder
  BY ZeroPointer, BinGray, SizeAssumption DEF WriterAtZero, ReaderAtZero, PointersInOrder
<1>3. FlagsAreConservative /\ ResetHolds /\ HeadOnDisplay
  BY ZeroPointer, BinGray, SizeAssumption
     DEF DrTypeOK, WriterAtZero, ReaderAtZero, FlagsAreConservative, ResetHolds, HeadOnDisplay
<1> QED BY <1>1, <1>2, <1>3 DEF IInv

LEMMA DrWriteTypes ==
  ASSUME DrTypeOK, NEW we \in BOOLEAN, NEW d \in Data, DrWriteSide(we, d)
  PROVE  /\ mem' \in Memory /\ wbin' \in Pointer /\ full' \in BOOLEAN
         /\ rx1' = rx0
         /\ ~rst_wr_n => wbin' = 0 /\ ~full'
<1>1. mem' = IF we_int(we) THEN [mem EXCEPT ![Addr(wbin)] = d] ELSE mem
  BY DEF DrWriteSide, WriteSide
<1>2. mem' \in Memory
  BY <1>1, AddrType DEF DrTypeOK, Memory
<1>3. wbin' \in Pointer
  BY IncType, ZeroPointer DEF DrWriteSide, WriteSide, DrTypeOK
<1>4. full' \in BOOLEAN
  BY DEF DrWriteSide, WriteSide, DrTypeOK, going_full, we_int, TurnAhead
<1>5. rx1' = rx0
  BY DEF DrWriteSide, WriteSide, DrTypeOK
<1>6. ~rst_wr_n => wbin' = 0 /\ ~full'
  BY DEF DrWriteSide
<1> QED BY <1>2, <1>3, <1>4, <1>5, <1>6

LEMMA DrReadTypes ==
  ASSUME DrTypeOK, NEW rd \in BOOLEAN, NEW word \in Data, DrReadSide(rd, word)
  PROVE  /\ q' \in Data /\ taken' \in Data /\ rbin' \in Pointer /\ empty' \in BOOLEAN
         /\ wx1' = wx0
         /\ ~rst_rd_n => rbin' = 0 /\ empty'
         /\ empty => rbin' \in {0, rbin} /\ taken' = taken
         /\ Gray[rbin] = wx1 => empty'
<1>1. q' \in Data /\ taken' \in Data
  BY DEF DrReadSide, ReadSide, DrTypeOK
<1>2. rbin' \in Pointer
  BY IncType, ZeroPointer DEF DrReadSide, ReadSide, DrTypeOK
<1>3. empty' \in BOOLEAN
  BY DEF DrReadSide, ReadSide, DrTypeOK, going_empty, rd_int
<1>4. wx1' = wx0
  BY DEF DrReadSide, ReadSide, DrTypeOK
<1>5. ~rst_rd_n => rbin' = 0 /\ empty'
  BY DEF DrReadSide
<1>6. empty => rbin' \in {0, rbin} /\ taken' = taken
  BY DEF DrReadSide, ReadSide, rd_int, DrTypeOK
<1>7. Gray[rbin] = wx1 => empty'
  BY DEF DrReadSide, ReadSide, going_empty, DrTypeOK
<1> QED BY <1>1, <1>2, <1>3, <1>4, <1>5, <1>6, <1>7

LEMMA ReadTypes ==
  ASSUME DrTypeOK, NEW we \in BOOLEAN, NEW rd \in BOOLEAN
  PROVE  /\ mem[ReadAddr(rd)] \in Data
         /\ ReadDuringWrite(we, rd) \subseteq Data
<1>1. ReadAddr(rd) \in 0 .. Size-1
  BY AddrType, IncType DEF ReadAddr, DrTypeOK
<1>2. mem[ReadAddr(rd)] \in Data
  BY <1>1 DEF DrTypeOK, Memory
<1> QED BY <1>2 DEF ReadDuringWrite

(* What an edge does in any state, reset or not, flushed or not: ew and er *)
(* tell which clocks have it.                                              *)
Moves(ew, er) ==
  /\ UNCHANGED <<rst_wr_n, rst_rd_n>>
  /\ ew => /\ rx1' = rx0 /\ WrHold
           /\ ~rst_wr_n => wbin' = 0 /\ ~full'
           /\ rbin = 0 /\ rbin' = 0 => rx0' = Gray[0]
  /\ ~ew => wbin' = wbin /\ full' = full /\ rx0' = rx0 /\ rx1' = rx1 /\ wrHeld' = wrHeld
  /\ er => /\ wx1' = wx0 /\ RdHold
           /\ ~rst_rd_n => rbin' = 0 /\ empty'
           /\ empty => rbin' \in {0, rbin}
           /\ Gray[rbin] = wx1 => empty'
           /\ wbin = 0 /\ wbin' = 0 => wx0' = Gray[0]
  /\ ~er => rbin' = rbin /\ empty' = empty /\ wx0' = wx0 /\ wx1' = wx1 /\ rdHeld' = rdHeld

LEMMA HoldTypes ==
  ASSUME DrTypeOK
  PROVE  /\ WrHold => wrHeld' \in 0 .. MinEdges
         /\ RdHold => rdHeld' \in 0 .. MinEdges
  BY Three DEF DrTypeOK, WrHold, RdHold, More

LEMMA EdgeMoves ==
  ASSUME DrTypeOK, DrEdge
  PROVE  DrTypeOK' /\ \E ew, er \in BOOLEAN : Moves(ew, er)
<1>t. DrTypeOK
  OBVIOUS
<1>1. CASE \E we \in BOOLEAN, d \in Data : DrWrEdge(we, d)
  <2>1. PICK we \in BOOLEAN, d \in Data : DrWrEdge(we, d)
    BY <1>1
  <2>2. /\ DrWriteSide(we, d) /\ rx0' = Gray[rbin] /\ WrHold
        /\ rst_n' = rst_n /\ UNCHANGED <<rst_wr_n, rst_rd_n>> /\ rdHeld' = rdHeld
        /\ rbin' = rbin /\ empty' = empty /\ wx0' = wx0 /\ wx1' = wx1
        /\ q' = q /\ taken' = taken
    BY <2>1 DEF DrWrEdge, rdVars
  <2>3. /\ mem' \in Memory /\ wbin' \in Pointer /\ full' \in BOOLEAN
        /\ rx1' = rx0 /\ (~rst_wr_n => wbin' = 0 /\ ~full')
    BY <2>2, DrWriteTypes
  <2>4. DrTypeOK'
    BY <2>2, <2>3, HoldTypes DEF DrTypeOK
  <2>5. Moves(TRUE, FALSE)
    BY <2>2, <2>3 DEF Moves
  <2> QED BY <2>4, <2>5
<1>2. CASE \E rd \in BOOLEAN : DrRdEdge(rd)
  <2>1. PICK rd \in BOOLEAN : DrRdEdge(rd)
    BY <1>2
  <2> DEFINE word == mem[ReadAddr(rd)]
  <2>2. /\ DrReadSide(rd, word) /\ wx0' = Gray[wbin] /\ RdHold
        /\ rst_n' = rst_n /\ UNCHANGED <<rst_wr_n, rst_rd_n>> /\ wrHeld' = wrHeld
        /\ mem' = mem /\ wbin' = wbin /\ full' = full /\ rx0' = rx0 /\ rx1' = rx1
    BY <2>1 DEF DrRdEdge, wrVars
  <2>w. word \in Data
    BY ReadTypes
  <2> HIDE DEF word
  <2>3. /\ q' \in Data /\ taken' \in Data /\ rbin' \in Pointer /\ empty' \in BOOLEAN
        /\ wx1' = wx0
        /\ ~rst_rd_n => rbin' = 0 /\ empty'
        /\ empty => rbin' \in {0, rbin}
        /\ Gray[rbin] = wx1 => empty'
    BY <2>2, <2>w, DrReadTypes
  <2>4. DrTypeOK'
    BY <2>2, <2>3, HoldTypes DEF DrTypeOK
  <2>5. Moves(FALSE, TRUE)
    BY <2>2, <2>3 DEF Moves
  <2> QED BY <2>4, <2>5
<1>3. CASE \E we, rd \in BOOLEAN, d \in Data : DrBothEdges(we, d, rd)
  <2>1. PICK we \in BOOLEAN, rd \in BOOLEAN, d \in Data : DrBothEdges(we, d, rd)
    BY <1>3
  <2>2. PICK word \in ReadDuringWrite(we, rd) : DrReadSide(rd, word) /\ RdHold
    BY <2>1 DEF DrBothEdges
  <2>3. /\ DrWriteSide(we, d) /\ WrHold
        /\ rst_n' = rst_n /\ UNCHANGED <<rst_wr_n, rst_rd_n>>
        /\ rx0' \in Sampled(Gray[rbin], Gray[rbin'])
        /\ wx0' \in Sampled(Gray[wbin], Gray[wbin'])
    BY <2>1 DEF DrBothEdges
  <2>4. /\ mem' \in Memory /\ wbin' \in Pointer /\ full' \in BOOLEAN
        /\ rx1' = rx0 /\ (~rst_wr_n => wbin' = 0 /\ ~full')
    BY <2>3, DrWriteTypes
  <2>5. /\ q' \in Data /\ taken' \in Data /\ rbin' \in Pointer /\ empty' \in BOOLEAN
        /\ wx1' = wx0
        /\ ~rst_rd_n => rbin' = 0 /\ empty'
        /\ empty => rbin' \in {0, rbin}
        /\ Gray[rbin] = wx1 => empty'
    <3>1. word \in Data
      BY <2>2, ReadTypes
    <3> QED BY <2>2, <3>1, DrReadTypes
  <2>6. /\ rbin = 0 /\ rbin' = 0 => rx0' = Gray[0]
        /\ wbin = 0 /\ wbin' = 0 => wx0' = Gray[0]
    BY <2>3, SampledSame
  <2>7. DrTypeOK'
    BY <2>2, <2>3, <2>4, <2>5, HoldTypes DEF DrTypeOK
  <2>8. Moves(TRUE, TRUE)
    BY <2>2, <2>3, <2>4, <2>5, <2>6 DEF Moves
  <2> QED BY <2>7, <2>8
<1> QED BY <1>1, <1>2, <1>3 DEF DrEdge

(* The flush goes on. *)
LEMMA EdgePhase ==
  ASSUME DrTypeOK, PhaseOK, NEW ew \in BOOLEAN, NEW er \in BOOLEAN, Moves(ew, er)
  PROVE  PhaseOK'
  BY Three DEF DrTypeOK, PhaseOK, Flushed, BothInReset, Moves, WrHold, RdHold, More

LEMMA EdgeFlush ==
  ASSUME DrTypeOK, FlushOK, NEW ew \in BOOLEAN, NEW er \in BOOLEAN, Moves(ew, er)
  PROVE  FlushOK'
  BY Three DEF DrTypeOK, FlushOK, BothInReset, Moves, WrHold, RdHold, More

LEMMA FlushedAtZero == FlushOK /\ BothInReset /\ Flushed => WriterAtZero /\ ReaderAtZero
  BY Three DEF FlushOK, Flushed, WriterAtZero, ReaderAtZero

(* With both resets released an edge is one of AsyncFifo. *)
LEMMA ReleasedEdge ==
  ASSUME DrTypeOK, IInv, rst_wr_n, rst_rd_n, DrEdge
  PROVE  IInv'
<1>1. CASE \E we \in BOOLEAN, d \in Data : DrWrEdge(we, d)
  <2>1. PICK we \in BOOLEAN, d \in Data : DrWrEdge(we, d)
    BY <1>1
  <2>2. WrEdge(we, d)
    BY <2>1 DEF DrTypeOK, DrWrEdge, DrWriteSide, WrEdge
  <2> QED BY <2>2, WrEdgeIInv
<1>2. CASE \E rd \in BOOLEAN : DrRdEdge(rd)
  <2>1. PICK rd \in BOOLEAN : DrRdEdge(rd)
    BY <1>2
  <2>2. RdEdge(rd)
    BY <2>1 DEF DrTypeOK, DrRdEdge, DrReadSide, RdEdge
  <2> QED BY <2>2, RdEdgeIInv
<1>3. CASE \E we, rd \in BOOLEAN, d \in Data : DrBothEdges(we, d, rd)
  <2>1. PICK we \in BOOLEAN, rd \in BOOLEAN, d \in Data : DrBothEdges(we, d, rd)
    BY <1>3
  <2>2. BothEdges(we, d, rd)
    BY <2>1 DEF DrTypeOK, DrBothEdges, DrWriteSide, DrReadSide, BothEdges
  <2> QED BY <2>2, BothEdgesIInv
<1> QED BY <1>1, <1>2, <1>3 DEF DrEdge

(* A reader in reset stays where it is; the writer may go on. *)
LEMMA HeldReader ==
  ASSUME DrTypeOK, DrTypeOK', IInv, rst_wr_n, ~rst_rd_n, ReaderAtZero, DrEdge
  PROVE  IInv' /\ ReaderAtZero'
<1>0. /\ TypeOK /\ Ordered /\ FlagsAreConservative /\ rst_n = TRUE
      /\ wbin \in Pointer /\ rbin \in Pointer
      /\ {rx0, rx1, wx0, wx1} \subseteq GrayWords
      /\ Bin[rx0] \in Pointer /\ Bin[rx1] \in Pointer
      /\ Bin[wx0] \in Pointer /\ Bin[wx1] \in Pointer
  BY TypeFacts, OrderedIsInOrder DEF IInv, DrTypeOK
<1>i. InOrder(wbin, Bin[wx0], Bin[wx1], rbin, Bin[rx0], Bin[rx1])
  BY <1>0 DEF Ordered
<1>m. PICK ew \in BOOLEAN, er \in BOOLEAN : Moves(ew, er)
  BY EdgeMoves
<1>z. ReaderAtZero'
  BY <1>m DEF ReaderAtZero, Moves
<1>r. rbin' = rbin /\ empty' /\ rbin = 0
  BY <1>z DEF ReaderAtZero
<1>1. CASE \E we \in BOOLEAN, d \in Data : DrWrEdge(we, d)
  <2>1. PICK we \in BOOLEAN, d \in Data : DrWrEdge(we, d)
    BY <1>1
  <2>2. WrEdge(we, d)
    BY <2>1, <1>0 DEF DrWrEdge, DrWriteSide, WrEdge
  <2> QED BY <2>2, <1>z, WrEdgeIInv
<1>2. CASE ~\E we \in BOOLEAN, d \in Data : DrWrEdge(we, d)
  <2>1. /\ wbin' = wbin \/ (wbin' = Inc(wbin) /\ Dist(wbin, Bin[rx1]) < Size)
        /\ full' = full \/ (~full' => Dist(wbin', Bin[rx0]) < Size)
        /\ wx1' = wx0 /\ wx0' \in {Gray[wbin], Gray[wbin']}
        /\ \/ rx0' = rx0 /\ rx1' = rx1 /\ wbin' = wbin /\ full' = full
           \/ rx1' = rx0 /\ (~full' => Dist(wbin', Bin[rx0]) < Size)
    <3>1. CASE \E rd \in BOOLEAN : DrRdEdge(rd)
      <4>1. PICK rd \in BOOLEAN : DrRdEdge(rd)
        BY <3>1
      <4> QED BY <4>1 DEF DrRdEdge, DrReadSide, wrVars
    <3>2. CASE \E we, rd \in BOOLEAN, d \in Data : DrBothEdges(we, d, rd)
      <4>1. PICK we \in BOOLEAN, rd \in BOOLEAN, d \in Data : DrBothEdges(we, d, rd)
        BY <3>2
      <4>2. WriteSide(we, d) /\ wx0' \in Sampled(Gray[wbin], Gray[wbin'])
        BY <4>1 DEF DrBothEdges, DrWriteSide
      <4>3. wx1' = wx0
        BY <4>1 DEF DrBothEdges, DrReadSide
      <4>4. /\ wbin' \in Pointer
            /\ wbin' = wbin \/ (wbin' = Inc(wbin) /\ Dist(wbin, Bin[rx1]) < Size)
            /\ rx1' = rx0
            /\ ~full' => Dist(wbin', Bin[rx0]) < Size
        BY <4>2, <1>0, WriteSideFacts
      <4>5. Sampled(Gray[wbin], Gray[wbin']) \subseteq {Gray[wbin], Gray[wbin']}
        BY <4>4, <1>0, SampledPointer
      <4> QED BY <4>2, <4>3, <4>4, <4>5
    <3> QED BY <3>1, <3>2, <1>2 DEF DrEdge
  <2>2. wbin' \in Pointer
    BY DEF DrTypeOK
  <2>3. TypeOK'
    <3>1. {rx0', rx1', wx0', wx1'} \subseteq GrayWords
      <4>1. wx0' \in GrayWords /\ wx1' \in GrayWords
        BY <2>1, <2>2, <1>0 DEF GrayWords
      <4>2. rx0' \in GrayWords /\ rx1' \in GrayWords
        BY <1>z, ZeroPointer DEF ReaderAtZero, GrayWords
      <4> QED BY <4>1, <4>2
    <3> QED BY <3>1 DEF DrTypeOK, TypeOK, GrayWords, Memory
  <2>4. Ordered'
    <3>1. Bin[wx0'] \in {wbin, wbin'} /\ Bin[rx0] = rbin /\ Bin[rx1] = rbin
      BY <1>0, <2>1, <2>2, BinGray DEF ReaderAtZero
    <3>2. \A y \in {wbin, wbin'}, b \in {rbin, rbin} :
            InOrder(wbin', y, Bin[wx0], rbin, b, Bin[rx0])
      <4>1. InOrder(wbin', Bin[wx0], Bin[wx1], rbin, rbin, Bin[rx0])
        BY <1>0, <2>1, <2>2, <1>i, OrderWrEdge
      <4>2. InOrder(wbin', wbin', Bin[wx0], rbin, rbin, Bin[rx0])
        BY <4>1, <1>0, <2>2, OrderRdEdge
      <4>3. InOrder(wbin, Bin[wx0], Bin[wx1], rbin, rbin, Bin[rx0])
        BY <1>0, <1>i, OrderWrEdge
      <4>4. InOrder(wbin, wbin, Bin[wx0], rbin, rbin, Bin[rx0])
        BY <4>3, <1>0, OrderRdEdge
      <4>5. wbin' \in {wbin, Inc(wbin)}
        BY <2>1
      <4>6. wbin \in Pointer /\ rbin \in Pointer /\ Bin[wx0] \in Pointer /\ Bin[rx0] \in Pointer
        BY <1>0
      <4> TAKE y \in {wbin, wbin'}, b \in {rbin, rbin}
      <4> DEFINE w2 == wbin'
                 x == Bin[wx0]
                 a == Bin[rx0]
      <4>7. /\ w2 \in {wbin, Inc(wbin)} /\ y \in {wbin, w2} /\ b \in {rbin, rbin}
            /\ InOrder(w2, w2, x, rbin, rbin, a) /\ InOrder(wbin, wbin, x, rbin, rbin, a)
        BY <4>2, <4>4, <4>5
      <4>8. wbin \in Pointer /\ rbin \in Pointer /\ w2 \in Pointer
            /\ x \in Pointer /\ a \in Pointer
        BY <2>2, <4>6
      <4> HIDE DEF w2, x, a
      <4>9. InOrder(w2, y, x, rbin, b, a)
        BY <4>7, <4>8, OrderMixed
      <4> QED BY <4>9 DEF w2, x, a
    <3>3. InOrder(wbin', Bin[wx0'], Bin[wx0], rbin, rbin, rbin)
      BY <3>1, <3>2
    <3>4. Bin[rx0'] = rbin /\ Bin[rx1'] = rbin
      BY <1>z, <1>r, <1>0, BinGray DEF ReaderAtZero
    <3> QED BY <2>1, <3>3, <3>4, <1>r DEF Ordered
  <2>5. FlagsAreConservative'
    <3>1. Bin[rx0] = rbin /\ Bin[rx1] = rbin /\ Bin[rx1'] = rbin
      BY <1>z, <1>r, <1>0, BinGray DEF ReaderAtZero
    <3> QED BY <3>1, <1>0, <1>r, <2>1 DEF FlagsAreConservative
  <2>6. ResetHolds' /\ HeadOnDisplay'
    BY <1>r DEF ResetHolds, HeadOnDisplay, DrTypeOK
  <2> QED BY <2>3, <2>4, <2>5, <2>6, <1>z, OrderedIsInOrder, PTL DEF IInv
<1> QED BY <1>1, <1>2

LEMMA EdgeSound ==
  ASSUME DrInv, DrEdge
  PROVE  DrInv'
<1>1. DrTypeOK /\ PhaseOK /\ FlushOK /\ SoundOK
  BY DEF DrInv
<1>2. DrTypeOK' /\ \E ew, er \in BOOLEAN : Moves(ew, er)
  BY <1>1, EdgeMoves
<1>3. PICK ew \in BOOLEAN, er \in BOOLEAN : Moves(ew, er)
  BY <1>2
<1>4. PhaseOK' /\ FlushOK'
  BY <1>1, <1>3, EdgePhase, EdgeFlush
<1>5. rst_wr_n' = rst_wr_n /\ rst_rd_n' = rst_rd_n
  BY <1>3 DEF Moves
<1>6. SoundOK'
  <2>1. CASE BothInReset
    <3>1. BothInReset'
      BY <2>1, <1>5 DEF BothInReset
    <3>2. Flushed' => WriterAtZero' /\ ReaderAtZero'
      BY <3>1, <1>4, FlushedAtZero, PTL
    <3>3. Flushed' => IInv'
      BY <3>2, <1>2, AtZeroIsSound, PTL
    <3> QED BY <3>2, <3>3 DEF SoundOK
  <2>2. CASE ~BothInReset
    <3>1. Flushed' => Flushed
      BY <2>2, <1>1, <1>3, Three
         DEF PhaseOK, Flushed, DrTypeOK, Moves, WrHold, RdHold
    <3>2. CASE ~Flushed
      BY <3>1, <3>2 DEF SoundOK
    <3>3. CASE Flushed /\ ~rst_wr_n
      <4>1. WriterAtZero /\ ReaderAtZero
        BY <3>3, <1>1 DEF SoundOK
      <4>2. WriterAtZero' /\ ReaderAtZero'
        <5>1. wbin' = 0 /\ rbin' = 0
          BY <4>1, <3>3, <1>3 DEF Moves, WriterAtZero, ReaderAtZero
        <5>2. ~full' /\ rx0' = Gray[0] /\ rx1' = Gray[0]
          BY <5>1, <4>1, <3>3, <1>3 DEF Moves, WriterAtZero, ReaderAtZero
        <5>3. empty' /\ wx0' = Gray[0] /\ wx1' = Gray[0]
          BY <5>1, <4>1, <3>3, <1>3 DEF Moves, WriterAtZero, ReaderAtZero
        <5> QED BY <5>1, <5>2, <5>3 DEF WriterAtZero, ReaderAtZero
      <4>3. IInv'
        BY <4>2, <1>2, AtZeroIsSound, PTL
      <4> QED BY <4>2, <4>3 DEF SoundOK
    <3>4. CASE (Flushed /\ rst_wr_n) /\ ~rst_rd_n
      <4>1. IInv /\ ReaderAtZero
        BY <3>4, <1>1 DEF SoundOK
      <4>2. IInv' /\ ReaderAtZero'
        BY <4>1, <3>4, <1>1, <1>2, HeldReader
      <4> QED BY <4>2, <3>4, <1>5 DEF SoundOK
    <3>5. CASE (Flushed /\ rst_wr_n) /\ rst_rd_n
      <4>1. IInv
        BY <3>5, <1>1 DEF SoundOK
      <4>2. IInv'
        BY <4>1, <3>5, <1>1, ReleasedEdge
      <4> QED BY <4>2, <3>5, <1>5 DEF SoundOK
    <3> QED BY <3>2, <3>3, <3>4, <3>5
  <2> QED BY <2>1, <2>2
<1> QED BY <1>2, <1>4, <1>6 DEF DrInv

(* Asserting and releasing the resets moves nothing else. *)
LEMMA IInvStands == IInv /\ UNCHANGED vars => IInv'
  BY DEF vars, wrVars, rdVars, IInv, TypeOK, PointersInOrder,
         FlagsAreConservative, ResetHolds, HeadOnDisplay

LEMMA ResetSound ==
  ASSUME DrInv, (AssertFirst \/ AssertSecond) \/ Release
  PROVE  DrInv'
<1>0. DrTypeOK /\ PhaseOK /\ FlushOK /\ SoundOK
  BY DEF DrInv
<1>1. UNCHANGED vars /\ rst_wr_n' \in BOOLEAN /\ rst_rd_n' \in BOOLEAN
  BY <1>0 DEF AssertFirst, AssertSecond, Release, Reset, DrTypeOK
<1>v. /\ rst_n' = rst_n /\ mem' = mem /\ q' = q /\ taken' = taken /\ wbin' = wbin
      /\ rbin' = rbin /\ full' = full /\ empty' = empty
      /\ rx0' = rx0 /\ rx1' = rx1 /\ wx0' = wx0 /\ wx1' = wx1
  BY <1>1 DEF vars, wrVars, rdVars
<1>2. DrTypeOK'
  <2>1. wrHeld' \in 0 .. MinEdges /\ rdHeld' \in 0 .. MinEdges
    <3>1. \/ wrHeld' = 0 /\ rdHeld' = 0
          \/ wrHeld' = wrHeld /\ rdHeld' = rdHeld
      BY DEF AssertFirst, AssertSecond, Release
    <3> QED BY <1>0, <3>1, Three DEF DrTypeOK
  <2> QED BY <1>0, <1>1, <1>v, <2>1 DEF DrTypeOK
<1>3. CASE AssertFirst
  <2>1. wrHeld' = 0 /\ rdHeld' = 0 /\ (~rst_wr_n' \/ ~rst_rd_n')
    BY <1>3 DEF AssertFirst, Reset
  <2>2. PhaseOK' /\ FlushOK' /\ SoundOK'
    BY <2>1, Three DEF PhaseOK, FlushOK, SoundOK, Flushed
  <2> QED BY <1>2, <2>2 DEF DrInv
<1>4. CASE AssertSecond
  <2>1. wrHeld' = wrHeld /\ rdHeld' = rdHeld /\ ~rst_wr_n' /\ ~rst_rd_n' /\ ~Flushed
        /\ rst_wr_n # rst_rd_n
    BY <1>4 DEF AssertSecond, Reset
  <2>2. wrHeld = 0 /\ rdHeld = 0
    BY <2>1, <1>0 DEF PhaseOK, BothInReset, DrTypeOK
  <2>3. PhaseOK' /\ FlushOK' /\ SoundOK'
    BY <2>1, <2>2, Three DEF PhaseOK, FlushOK, SoundOK, Flushed, BothInReset
  <2> QED BY <1>2, <2>3 DEF DrInv
<1>5. CASE Release
  <2>1. /\ wrHeld' = wrHeld /\ rdHeld' = rdHeld /\ Flushed /\ Flushed'
        /\ ~rst_wr_n' => ~rst_wr_n
        /\ ~rst_rd_n' => ~rst_rd_n
    BY <1>5 DEF Release, Reset, Flushed
  <2>2. ~BothInReset'
    BY <1>5 DEF Release, Reset, BothInReset
  <2>3. IInv'
    BY <1>0, <1>1, <2>1, IInvStands DEF SoundOK
  <2>4. SoundOK'
    BY <1>0, <1>v, <2>1, <2>3 DEF SoundOK, WriterAtZero, ReaderAtZero
  <2>5. PhaseOK' /\ FlushOK'
    BY <2>1, <2>2 DEF PhaseOK, FlushOK
  <2> QED BY <1>2, <2>4, <2>5 DEF DrInv
<1> QED BY <1>3, <1>4, <1>5

LEMMA DrInvHolds == DrSpec => []DrInv
<1>1. DrInit => DrInv
  <2> SUFFICES ASSUME DrInit PROVE DrInv
    OBVIOUS
  <2>1. DrTypeOK
    <3>1. mem \in Memory /\ q \in Data /\ taken \in Data
      BY DataAssumption DEF DrInit, Memory
    <3>2. wrHeld \in 0 .. MinEdges /\ rdHeld \in 0 .. MinEdges
      BY Three DEF DrInit
    <3> QED BY <3>1, <3>2, ZeroPointer DEF DrInit, DrTypeOK
  <2>2. WriterAtZero /\ ReaderAtZero
    BY DEF DrInit, WriterAtZero, ReaderAtZero
  <2>3. PhaseOK /\ FlushOK
    BY <2>2, Three DEF DrInit, PhaseOK, FlushOK, Flushed, WriterAtZero, ReaderAtZero
  <2>4. SoundOK
    BY <2>1, <2>2, AtZeroIsSound DEF SoundOK
  <2> QED BY <2>1, <2>3, <2>4 DEF DrInv
<1>2. DrInv /\ [DrNext]_drVars => DrInv'
  <2> SUFFICES ASSUME DrInv, [DrNext]_drVars PROVE DrInv'
    OBVIOUS
  <2>1. CASE UNCHANGED drVars
    <3>1. UNCHANGED vars /\ UNCHANGED <<rst_wr_n, rst_rd_n, wrHeld, rdHeld>>
      BY <2>1 DEF drVars
    <3>2. IInv => IInv'
      BY <3>1, IInvStands
    <3> QED BY <3>1, <3>2 DEF DrInv, DrTypeOK, PhaseOK, FlushOK, SoundOK, Flushed,
          BothInReset, WriterAtZero, ReaderAtZero, vars, wrVars, rdVars
  <2> QED BY <2>1, EdgeSound, ResetSound DEF DrNext
<1> QED BY <1>1, <1>2, PTL DEF DrSpec

(* Once both resets have been held long enough, and through their release  *)
(* one long after the other, the pointers are in order and the flags safe; *)
(* a side in reset is at zero.                                             *)
THEOREM DualRstSound == DrSpec => []SoundOnceFlushed
<1>1. DrInv => SoundOnceFlushed
  BY DEF DrInv, SoundOK, SoundOnceFlushed, IInv, WriterAtZero, ReaderAtZero
<1> QED BY <1>1, DrInvHolds, PTL

-----------------------------------------------------------------------------
(* LaggedFifo.  Without show-ahead: with it q_o is the word to come.       *)
Plain == ~ShowAhead

Wr(ew, we) == ew /\ rst_wr_n /\ we /\ ~full
Rd(er, rd) == er /\ rst_rd_n /\ rd /\ ~empty
Occupied == Dist(wbin, Bin[rx1])
Visible == Dist(Bin[wx1], rbin)

(* What each side does at an edge, or without one, once the FIFO is        *)
(* flushed, in or out of reset.                                            *)
WriterMoves(ew, we, d) ==
  /\ mem' \in Memory
  /\ Wr(ew, we) => /\ Occupied < Size /\ wbin' = Inc(wbin)
                   /\ Words(mem', wbin', rbin) = Append(Stored, d)
  /\ ~Wr(ew, we) => wbin' = wbin /\ Words(mem', wbin', rbin) = Stored
  /\ ew => /\ rx1' = rx0
           /\ full' <=> /\ rst_wr_n
                        /\ Occupied = Size \/ (Wr(ew, we) /\ Occupied + 1 = Size)
           /\ wr_count' = IF rst_wr_n THEN Occupied ELSE wr_count
  /\ ~ew => full' = full /\ wr_count' = wr_count

ReaderMoves(er, rd) ==
  /\ Rd(er, rd) => Visible >= 1 /\ rbin' = Inc(rbin) /\ q' = mem[Addr(rbin)]
  /\ ~Rd(er, rd) => rbin' = rbin /\ q' = q
  /\ er => /\ wx1' = wx0
           /\ empty' <=> \/ ~rst_rd_n
                         \/ Visible = 0
                         \/ Rd(er, rd) /\ Visible = 1
  /\ ~er => empty' = empty

(* The synchronisers: a copy is taken before or after the pointer's step.  *)
CopiesMove(ew, er) ==
  /\ ew => rx1' = rx0 /\ rx0' \in {Gray[rbin], Gray[rbin']}
  /\ ~ew => rx1' = rx1 /\ rx0' = rx0
  /\ er => wx1' = wx0 /\ wx0' \in {Gray[wbin], Gray[wbin']}
  /\ ~er => wx1' = wx1 /\ wx0' = wx0

LEMMA FlushedFacts ==
  ASSUME DrInv, Flushed
  PROVE  /\ IInv /\ rst_n /\ TypeOK /\ FlagsAreConservative /\ mem \in Memory
         /\ wbin \in Pointer /\ rbin \in Pointer
         /\ {rx0, rx1, wx0, wx1} \subseteq GrayWords
         /\ Bin[rx0] \in Pointer /\ Bin[rx1] \in Pointer
         /\ Bin[wx0] \in Pointer /\ Bin[wx1] \in Pointer
         /\ InOrder(wbin, Bin[wx0], Bin[wx1], rbin, Bin[rx0], Bin[rx1])
         /\ ~rst_wr_n => WriterAtZero /\ ReaderAtZero
         /\ ~rst_rd_n => ReaderAtZero
         /\ rst_wr_n \in BOOLEAN /\ rst_rd_n \in BOOLEAN
<1>1. /\ IInv /\ (~rst_wr_n => WriterAtZero /\ ReaderAtZero)
      /\ ~rst_rd_n => ReaderAtZero
  BY DEF DrInv, SoundOK
<1>2. TypeOK /\ FlagsAreConservative /\ Ordered
  BY <1>1, OrderedIsInOrder DEF IInv
<1>3. rst_n /\ mem \in Memory /\ rst_wr_n \in BOOLEAN /\ rst_rd_n \in BOOLEAN
  BY DEF DrInv, DrTypeOK
<1> QED BY <1>1, <1>2, <1>3, TypeFacts DEF Ordered

LEMMA DistInc ==
  ASSUME NEW w \in Pointer, NEW a \in Pointer, Dist(w, a) < 2*Size - 1
  PROVE  Dist(Inc(w), a) = Dist(w, a) + 1
  BY SizeAssumption DEF Dist, Inc, Pointer

LEMMA WriterStep ==
  ASSUME DrInv, Flushed, NEW we \in BOOLEAN, NEW d \in Data, DrWriteSide(we, d)
  PROVE  WriterMoves(TRUE, we, d)
<1>0. /\ IInv /\ rst_n /\ FlagsAreConservative /\ mem \in Memory
      /\ wbin \in Pointer /\ rbin \in Pointer /\ Bin[rx1] \in Pointer
      /\ ~rst_wr_n => WriterAtZero /\ ReaderAtZero
  BY FlushedFacts
<1>1. mem' \in Memory /\ full' \in BOOLEAN /\ rx1' = rx0 /\ wbin' \in Pointer
  BY DrWriteTypes DEF DrInv
<1>2. CASE rst_wr_n
  <2>1. WriteSide(we, d) /\ wr_count' = Occupied /\ (Wr(TRUE, we) <=> we_int(we))
    BY <1>2 DEF DrWriteSide, Wr, we_int, Occupied
  <2>2. /\ we_int(we) => Words(mem', wbin', rbin) = Append(Stored, d)
        /\ ~we_int(we) => wbin' = wbin /\ Words(mem', wbin', rbin) = Stored
    BY <2>1, <1>0, WriteSideWords
  <2>3. we_int(we) => wbin' = Inc(wbin) /\ Occupied < Size
    BY <2>1, <1>0 DEF WriteSide, we_int, FlagsAreConservative, Occupied
  <2>4. full' <=> \/ Occupied = Size \/ (we_int(we) /\ Occupied + 1 = Size)
    <3>1. full' <=> going_full(we)
      BY <2>1, <1>0 DEF WriteSide
    <3>2. TurnAhead(wbin, Bin[rx1]) <=> Occupied = Size
      BY <1>0, TurnAheadIsSize DEF Occupied
    <3>3. we_int(we) => (TurnAhead(Inc(wbin), Bin[rx1]) <=> Occupied + 1 = Size)
      <4>1. SUFFICES ASSUME we_int(we)
                     PROVE  TurnAhead(Inc(wbin), Bin[rx1]) <=> Occupied + 1 = Size
        OBVIOUS
      <4>2. Dist(Inc(wbin), Bin[rx1]) = Occupied + 1
        <5>1. Occupied \in 0 .. 2*Size - 1 /\ Occupied < Size
          BY <2>3, <4>1, <1>0, DistType DEF Occupied, Pointer
        <5>2. Occupied < 2*Size - 1
          BY <5>1, SizeAssumption
        <5> QED BY <5>2, <1>0, DistInc DEF Occupied
      <4> QED BY <4>2, <1>0, IncType, TurnAheadIsSize
    <3> QED BY <3>1, <3>2, <3>3 DEF going_full
  <2> QED BY <1>1, <1>2, <2>1, <2>2, <2>3, <2>4 DEF WriterMoves
<1>3. CASE ~rst_wr_n
  <2>1. wbin' = 0 /\ ~full' /\ wr_count' = wr_count /\ wbin = 0 /\ rbin = 0
    BY <1>3, <1>0 DEF DrWriteSide, WriterAtZero, ReaderAtZero
  <2>2. Words(mem', wbin', rbin) = Stored
    BY <2>1, <1>0, <1>1, ZeroPointer, WordsNone, StoredIsWords
  <2> QED BY <1>1, <1>3, <2>1, <2>2 DEF WriterMoves, Wr
<1> QED BY <1>2, <1>3

LEMMA ReaderStep ==
  ASSUME Plain, DrInv, Flushed, NEW rd \in BOOLEAN, NEW word \in Data,
         DrReadSide(rd, word), rd_int(rd) => word = mem[Addr(rbin)]
  PROVE  ReaderMoves(TRUE, rd)
<1>0. /\ rst_n /\ FlagsAreConservative /\ wbin \in Pointer /\ rbin \in Pointer
      /\ Bin[wx1] \in Pointer /\ wx1 \in GrayWords
      /\ ~rst_rd_n => ReaderAtZero
  BY FlushedFacts
<1>1. empty' \in BOOLEAN /\ wx1' = wx0
  BY DrReadTypes DEF DrInv
<1>2. CASE rst_rd_n
  <2>1. ReadSide(rd, word) /\ (Rd(TRUE, rd) <=> rd_int(rd))
    BY <1>2 DEF DrReadSide, Rd, rd_int
  <2>2. rd_int(rd) => Visible >= 1 /\ rbin' = Inc(rbin) /\ q' = mem[Addr(rbin)]
    BY <2>1, <1>0 DEF ReadSide, Reads, rd_int, FlagsAreConservative, Visible
  <2>3. ~rd_int(rd) => rbin' = rbin /\ q' = q
    BY <2>1, <1>0 DEF ReadSide, Reads, Plain
  <2>4. empty' <=> Visible = 0 \/ (rd_int(rd) /\ Visible = 1)
    <3>1. empty' <=> going_empty(rd)
      BY <2>1, <1>0 DEF ReadSide
    <3>2. Gray[rbin] = wx1 <=> Visible = 0
      <4>1. Gray[rbin] = wx1 <=> rbin = Bin[wx1]
        BY <1>0, GrayEq
      <4>2. rbin = Bin[wx1] <=> Visible = 0
        BY <1>0, SizeAssumption DEF Visible, Dist, Pointer
      <4> QED BY <4>1, <4>2
    <3>3. wx1 = Gray[Inc(rbin)] <=> Visible = 1
      <4>1. Gray[Inc(rbin)] = wx1 <=> Inc(rbin) = Bin[wx1]
        BY <1>0, IncType, GrayEq
      <4>2. Inc(rbin) = Bin[wx1] <=> Visible = 1
        BY <1>0, SizeAssumption DEF Visible, Dist, Inc, Pointer
      <4> QED BY <4>1, <4>2
    <3> QED BY <3>1, <3>2, <3>3 DEF going_empty
  <2> QED BY <1>1, <1>2, <2>1, <2>2, <2>3, <2>4 DEF ReaderMoves
<1>3. CASE ~rst_rd_n
  <2>1. rbin' = rbin /\ empty' /\ q' = q
    BY <1>3, <1>0 DEF DrReadSide, ReaderAtZero, Reads, rd_int, Plain
  <2> QED BY <1>1, <1>3, <2>1 DEF ReaderMoves, Rd
<1> QED BY <1>2, <1>3

(* A side without an edge. *)
LEMMA WriterStands ==
  ASSUME DrInv, mem' = mem, wbin' = wbin, full' = full, wr_count' = wr_count, NEW we, NEW d
  PROVE  WriterMoves(FALSE, we, d)
<1>1. mem \in Memory /\ Words(mem', wbin', rbin) = Stored
  BY StoredIsWords DEF DrInv, DrTypeOK
<1> QED BY <1>1 DEF WriterMoves, Wr

LEMMA ReaderStands ==
  ASSUME rbin' = rbin, empty' = empty, q' = q, NEW rd
  PROVE  ReaderMoves(FALSE, rd)
  BY DEF ReaderMoves, Rd

LEMMA EdgeOfSides ==
  ASSUME Plain, DrInv, Flushed, DrEdge
  PROVE  \E ew, er, we, rd \in BOOLEAN, d \in Data :
           WriterMoves(ew, we, d) /\ ReaderMoves(er, rd) /\ CopiesMove(ew, er)
<1>0. DrTypeOK /\ IInv /\ wbin \in Pointer /\ rbin \in Pointer
  BY FlushedFacts DEF DrInv
<1>1. CASE \E we \in BOOLEAN, d \in Data : DrWrEdge(we, d)
  <2>1. PICK we \in BOOLEAN, d \in Data : DrWrEdge(we, d)
    BY <1>1
  <2>2. /\ DrWriteSide(we, d) /\ rx0' = Gray[rbin]
        /\ rbin' = rbin /\ empty' = empty /\ wx0' = wx0 /\ wx1' = wx1 /\ q' = q
    BY <2>1 DEF DrWrEdge, rdVars
  <2>3. WriterMoves(TRUE, we, d) /\ rx1' = rx0
    BY <2>2, <1>0, WriterStep, DrWriteTypes
  <2>4. ReaderMoves(FALSE, FALSE)
    BY <2>2, ReaderStands
  <2>5. CopiesMove(TRUE, FALSE)
    BY <2>2, <2>3 DEF CopiesMove
  <2> QED BY <2>3, <2>4, <2>5
<1>2. CASE \E rd \in BOOLEAN : DrRdEdge(rd)
  <2>1. PICK rd \in BOOLEAN : DrRdEdge(rd)
    BY <1>2
  <2> DEFINE word == mem[ReadAddr(rd)]
  <2>2. /\ DrReadSide(rd, word) /\ wx0' = Gray[wbin] /\ wr_count' = wr_count
        /\ mem' = mem /\ wbin' = wbin /\ full' = full /\ rx0' = rx0 /\ rx1' = rx1
    BY <2>1 DEF DrRdEdge, wrVars
  <2>3. word \in Data /\ word = mem[Addr(rbin)]
    BY <1>0, ReadTypes DEF ReadAddr, Plain
  <2> HIDE DEF word
  <2>4. ReaderMoves(TRUE, rd) /\ wx1' = wx0
    BY <2>2, <2>3, <1>0, ReaderStep, DrReadTypes
  <2>5. WriterMoves(FALSE, FALSE, ZeroWord)
    BY <2>2, WriterStands
  <2>6. CopiesMove(FALSE, TRUE)
    BY <2>2, <2>4 DEF CopiesMove
  <2> QED BY <2>4, <2>5, <2>6, DataAssumption
<1>3. CASE \E we, rd \in BOOLEAN, d \in Data : DrBothEdges(we, d, rd)
  <2>1. PICK we \in BOOLEAN, rd \in BOOLEAN, d \in Data : DrBothEdges(we, d, rd)
    BY <1>3
  <2>2. PICK word \in ReadDuringWrite(we, rd) : DrReadSide(rd, word)
    BY <2>1 DEF DrBothEdges
  <2>3. /\ DrWriteSide(we, d)
        /\ rx0' \in Sampled(Gray[rbin], Gray[rbin'])
        /\ wx0' \in Sampled(Gray[wbin], Gray[wbin'])
    BY <2>1 DEF DrBothEdges
  <2>4. word \in Data
    BY <1>0, ReadTypes
  <2>5. rd_int(rd) => word = mem[Addr(rbin)]
    <3>1. ReadAddr(rd) = Addr(rbin)
      BY DEF ReadAddr, Plain
    <3>2. rd_int(rd) => ~(we_int(we) /\ Addr(wbin) = Addr(rbin))
      BY <1>0, RingIsSafe DEF we_int, rd_int
    <3> QED BY <3>1, <3>2 DEF ReadDuringWrite
  <2>6. WriterMoves(TRUE, we, d) /\ rx1' = rx0
    BY <2>3, <1>0, WriterStep, DrWriteTypes
  <2>7. ReaderMoves(TRUE, rd) /\ wx1' = wx0
    BY <2>2, <2>4, <2>5, <1>0, ReaderStep, DrReadTypes
  <2>8. CopiesMove(TRUE, TRUE)
    <3>1. wbin' \in {wbin, Inc(wbin)} /\ rbin' \in {rbin, Inc(rbin)}
      BY <2>6, <2>7 DEF WriterMoves, ReaderMoves
    <3>2. /\ Sampled(Gray[rbin], Gray[rbin']) \subseteq {Gray[rbin], Gray[rbin']}
          /\ Sampled(Gray[wbin], Gray[wbin']) \subseteq {Gray[wbin], Gray[wbin']}
      BY <3>1, <1>0, SampledPointer
    <3> QED BY <3>2, <2>3, <2>6, <2>7 DEF CopiesMove
  <2> QED BY <2>6, <2>7, <2>8
<1> QED BY <1>1, <1>2, <1>3 DEF DrEdge

(* A pointer p and its two copies b and a, in terms of what LaggedFifo     *)
(* counts: the steps that are not in b, and those in b and not in a.       *)
Copied(p, b, a, stepped, edge, p2, b2, a2) ==
  /\ p2 = IF stepped THEN Inc(p) ELSE p
  /\ edge => b2 \in {p, p2} /\ a2 = b
  /\ ~edge => b2 = b /\ a2 = a

Counted(p, b, a, stepped, edge, p2, b2, a2) ==
  /\ Dist(p2, b2) \in Lagged!Unseen(Dist(p, b), stepped, edge)
  /\ Dist(b2, a2) = Lagged!Moved(Dist(p, b), Dist(b, a), stepped, edge, Dist(p2, b2))

LEMMA CopyCounts ==
  ASSUME NEW p \in Pointer, NEW b \in Pointer, NEW a, Dist(p, b) < 2*Size - 1,
         NEW stepped \in BOOLEAN, NEW edge \in BOOLEAN, NEW p2, NEW b2, NEW a2,
         Copied(p, b, a, stepped, edge, p2, b2, a2)
  PROVE  Counted(p, b, a, stepped, edge, p2, b2, a2)
<1>0. /\ p2 = IF stepped THEN Inc(p) ELSE p
      /\ edge => b2 \in {p, p2} /\ a2 = b
      /\ ~edge => b2 = b /\ a2 = a
  BY DEF Copied
<1>1. p2 \in Pointer /\ Dist(p, b) \in Nat
  <2>1. p2 \in Pointer
    BY <1>0, IncType
  <2>2. Dist(p, b) \in Pointer
    BY DistType
  <2> QED BY <2>1, <2>2, SizeAssumption DEF Pointer
<1>2. stepped => Dist(Inc(p), b) = Dist(p, b) + 1
  BY DistInc
<1>3. Dist(p, p) = 0 /\ Dist(Inc(p), Inc(p)) = 0 /\ Dist(Inc(p), p) = 1
  BY SizeAssumption DEF Dist, Inc, Pointer
<1>4. CASE edge
  <2>1. CASE stepped
    <3>1. Dist(p2, b2) \in {0, 1}
      BY <1>0, <1>3, <1>4, <2>1
    <3>2. Dist(b2, b) = Dist(p, b) + 1 - Dist(p2, b2)
      <4>1. CASE b2 = p
        BY <4>1, <1>0, <1>1, <1>3, <2>1
      <4>2. CASE b2 = p2
        BY <4>2, <1>0, <1>1, <1>2, <1>3, <2>1
      <4> QED BY <4>1, <4>2, <1>0, <1>4
    <3> QED BY <3>1, <3>2, <1>0, <1>4, <2>1 DEF Counted, Lagged!Unseen, Lagged!Moved
  <2>2. CASE ~stepped
    <3>1. p2 = p /\ b2 = p /\ Dist(p2, b2) = 0
      BY <1>0, <1>3, <1>4, <2>2
    <3>2. Dist(b2, b) = Dist(p, b) + 0 - Dist(p2, b2)
      BY <3>1, <1>1
    <3> QED BY <3>1, <3>2, <1>0, <1>4, <2>2 DEF Counted, Lagged!Unseen, Lagged!Moved
  <2> QED BY <2>1, <2>2
<1>5. CASE ~edge
  <2>1. Dist(p2, b2) = IF stepped THEN Dist(p, b) + 1 ELSE Dist(p, b)
    BY <1>0, <1>2, <1>5
  <2> QED BY <2>1, <1>0, <1>5 DEF Counted, Lagged!Unseen, Lagged!Moved
<1> QED BY <1>4, <1>5

(* The FIFO as a record of LaggedFifo. *)
Now == [queue |-> Stored,
        freed0 |-> Dist(rbin, Bin[rx0]), freed1 |-> Dist(Bin[rx0], Bin[rx1]),
        fresh0 |-> Dist(wbin, Bin[wx0]), fresh1 |-> Dist(Bin[wx0], Bin[wx1]),
        full |-> full, empty |-> empty, q |-> q, wr_count |-> wr_count]

Asked(edge, rst_m, en) == IF edge THEN Lagged!Ask(rst_m, en) ELSE Lagged!Idle

(* The counts between the pointers add up to what each side believes. *)
LEMMA Beliefs ==
  ASSUME DrInv, Flushed
  PROVE  /\ Stored \in Seq(Data) /\ Len(Stored) = Dist(wbin, rbin)
         /\ Lagged!WriterSees(Now) = Occupied
         /\ Lagged!ReaderSees(Now) = Visible
         /\ Occupied \in 0 .. Size /\ Visible \in 0 .. Size
         /\ Dist(rbin, Bin[rx0]) <= Size /\ Dist(wbin, Bin[wx0]) <= Size
         /\ Dist(rbin, Bin[rx0]) \in Nat /\ Dist(wbin, Bin[wx0]) \in Nat
<1>0. /\ mem \in Memory
      /\ wbin \in Pointer /\ rbin \in Pointer
      /\ Bin[rx0] \in Pointer /\ Bin[rx1] \in Pointer
      /\ Bin[wx0] \in Pointer /\ Bin[wx1] \in Pointer
      /\ InOrder(wbin, Bin[wx0], Bin[wx1], rbin, Bin[rx0], Bin[rx1])
  BY FlushedFacts
<1>1. Stored \in Seq(Data) /\ Len(Stored) = Dist(wbin, rbin)
  BY <1>0, WordsIsSeq, StoredIsWords
<1>2. ASSUME NEW w \in Pointer, NEW y \in Pointer, NEW x \in Pointer,
             NEW r \in Pointer, NEW b \in Pointer, NEW a \in Pointer,
             InOrder(w, y, x, r, b, a)
      PROVE  /\ Dist(w, r) + Dist(r, b) + Dist(b, a) = Dist(w, a)
             /\ Dist(w, r) - (Dist(w, y) + Dist(y, x)) = Dist(x, r)
             /\ Dist(w, a) \in 0 .. Size /\ Dist(x, r) \in 0 .. Size
             /\ Dist(r, b) \in 0 .. Size /\ Dist(w, y) \in 0 .. Size
  BY <1>2, SizeAssumption DEF InOrder, Dist, Pointer
<1>3. /\ Dist(wbin, rbin) + Dist(rbin, Bin[rx0]) + Dist(Bin[rx0], Bin[rx1]) = Occupied
      /\ Dist(wbin, rbin) - (Dist(wbin, Bin[wx0]) + Dist(Bin[wx0], Bin[wx1])) = Visible
      /\ Occupied \in 0 .. Size /\ Visible \in 0 .. Size
      /\ Dist(rbin, Bin[rx0]) \in 0 .. Size /\ Dist(wbin, Bin[wx0]) \in 0 .. Size
  BY <1>0, <1>2 DEF Occupied, Visible
<1>4. /\ Now.queue = Stored /\ Now.freed0 = Dist(rbin, Bin[rx0])
      /\ Now.freed1 = Dist(Bin[rx0], Bin[rx1])
      /\ Now.fresh0 = Dist(wbin, Bin[wx0]) /\ Now.fresh1 = Dist(Bin[wx0], Bin[wx1])
  BY DEF Now
<1>5. /\ Lagged!WriterSees(Now) = Occupied
      /\ Lagged!ReaderSees(Now) = Visible
  <2> HIDE DEF Now
  <2> QED BY <1>1, <1>3, <1>4 DEF Lagged!WriterSees, Lagged!ReaderSees
<1> QED BY <1>1, <1>3, <1>5, SizeAssumption

(* What Edges makes of the record f; wi and ri tell whether a word is      *)
(* written and read, u and v choose what the synchronisers see.            *)
Result(f, w, r, d, wi, ri, u, v) ==
  [queue  |-> IF wi THEN Append(IF ri THEN Tail(f.queue) ELSE f.queue, d)
              ELSE IF ri THEN Tail(f.queue) ELSE f.queue,
   freed0 |-> u, freed1 |-> Lagged!Moved(f.freed0, f.freed1, ri, w.edge, u),
   fresh0 |-> v, fresh1 |-> Lagged!Moved(f.fresh0, f.fresh1, wi, r.edge, v),
   full   |-> IF w.edge
              THEN w.rst_n /\ (Lagged!WriterSees(f) = Size
                                \/ (wi /\ Lagged!WriterSees(f) + 1 = Size))
              ELSE f.full,
   empty  |-> IF r.edge
              THEN ~r.rst_n \/ Lagged!ReaderSees(f) = 0
                             \/ (ri /\ Lagged!ReaderSees(f) = 1)
              ELSE f.empty,
   q      |-> IF ri THEN Head(f.queue) ELSE f.q,
   wr_count |-> IF w.edge /\ w.rst_n THEN Lagged!WriterSees(f) ELSE f.wr_count]

LEMMA EdgesHave ==
  ASSUME NEW f, NEW w, NEW r, NEW d,
         NEW u \in Lagged!Unseen(f.freed0, Lagged!rd_int(f, r), w.edge),
         NEW v \in Lagged!Unseen(f.fresh0, Lagged!we_int(f, w), r.edge)
  PROVE  Result(f, w, r, d, Lagged!we_int(f, w), Lagged!rd_int(f, r), u, v)
         \in Lagged!Edges(Size, f, w, d, r)
<1> DEFINE we == Lagged!we_int(f, w)
           rd == Lagged!rd_int(f, r)
           U == Lagged!Unseen(f.freed0, rd, w.edge)
           V == Lagged!Unseen(f.fresh0, we, r.edge)
           g(x, y) == Result(f, w, r, d, we, rd, x, y)
<1>1. Lagged!Edges(Size, f, w, d, r) = {g(x, y) : x \in U, y \in V}
  BY DEF Lagged!Edges, Result
<1>2. u \in U /\ v \in V
  OBVIOUS
<1> HIDE DEF U, V, g
<1>3. g(u, v) \in {g(x, y) : x \in U, y \in V}
  BY <1>2
<1> QED BY <1>1, <1>3 DEF g

LEMMA AskedIs ==
  ASSUME NEW edge \in BOOLEAN, NEW rst_m \in BOOLEAN, NEW en \in BOOLEAN
  PROVE  /\ Asked(edge, rst_m, en) \in Lagged!Asks
         /\ Asked(edge, rst_m, en).edge = edge
         /\ edge => /\ Asked(edge, rst_m, en).rst_n = rst_m
                    /\ Asked(edge, rst_m, en).en = en
<1>1. CASE edge = TRUE
  <2>1. Asked(edge, rst_m, en) = Lagged!Ask(rst_m, en)
    BY <1>1 DEF Asked
  <2>2. Lagged!Ask(rst_m, en) = [edge |-> TRUE, rst_n |-> rst_m, en |-> en]
    BY DEF Lagged!Ask
  <2>3. Lagged!Ask(rst_m, en) \in {Lagged!Ask(a, b) : a, b \in BOOLEAN}
    OBVIOUS
  <2>4. Lagged!Ask(rst_m, en) \in Lagged!Asks
    BY <2>3 DEF Lagged!Asks
  <2>5. /\ Lagged!Ask(rst_m, en).edge = TRUE
        /\ Lagged!Ask(rst_m, en).rst_n = rst_m
        /\ Lagged!Ask(rst_m, en).en = en
    BY <2>2
  <2> QED BY <1>1, <2>1, <2>4, <2>5, Zenon
<1>2. CASE edge = FALSE
  <2>1. Asked(edge, rst_m, en) = Lagged!Idle
    BY <1>2 DEF Asked
  <2>2. Lagged!Idle = [edge |-> FALSE, rst_n |-> TRUE, en |-> FALSE]
    BY DEF Lagged!Idle
  <2>3. Lagged!Idle \in Lagged!Asks
    BY DEF Lagged!Asks
  <2>4. Lagged!Idle.edge = FALSE
    BY <2>2, Zenon
  <2> QED BY <1>2, <2>1, <2>3, <2>4, Zenon
<1>3. edge = TRUE \/ edge = FALSE
  OBVIOUS
<1> QED BY <1>1, <1>2, <1>3

(* The words after the step. *)
LEMMA QueueStep ==
  ASSUME DrInv, Flushed, DrTypeOK',
         NEW ew \in BOOLEAN, NEW er \in BOOLEAN, NEW we \in BOOLEAN, NEW rd \in BOOLEAN,
         NEW d \in Data, WriterMoves(ew, we, d), ReaderMoves(er, rd)
  PROVE  /\ Stored' = IF Wr(ew, we)
                      THEN Append(IF Rd(er, rd) THEN Tail(Stored) ELSE Stored, d)
                      ELSE IF Rd(er, rd) THEN Tail(Stored) ELSE Stored
         /\ q' = IF Rd(er, rd) THEN Head(Stored) ELSE q
<1> DEFINE wi == Wr(ew, we)
           ri == Rd(er, rd)
           now == Words(mem', wbin', rbin)
<1>0. /\ IInv /\ mem \in Memory /\ wbin \in Pointer /\ rbin \in Pointer
      /\ mem' \in Memory /\ wbin' \in Pointer
      /\ Stored \in Seq(Data) /\ Len(Stored) = Dist(wbin, rbin)
  BY FlushedFacts, Beliefs DEF DrTypeOK
<1>1. now = IF wi THEN Append(Stored, d) ELSE Stored
  BY DEF WriterMoves
<1>2. now \in Seq(Data) /\ Len(now) = Dist(wbin', rbin)
  BY <1>0, WordsIsSeq
<1>3. CASE ~ri
  <2>1. rbin' = rbin /\ q' = q
    BY <1>3 DEF ReaderMoves
  <2> QED BY <1>1, <1>3, <2>1, StoredPrime
<1>4. CASE ri
  <2>1. rbin' = Inc(rbin) /\ q' = mem[Addr(rbin)] /\ ~empty
    BY <1>4 DEF ReaderMoves, Rd
  <2>2. Dist(wbin, rbin) >= 1
    BY <2>1, <1>0, RingIsSafe
  <2>3. Stored # <<>> /\ Head(Stored) = mem[Addr(rbin)]
    BY <2>2, <1>0, WordsGet, StoredIsWords
  <2>4. Dist(wbin', rbin) >= 1
    <3>1. Len(Append(Stored, d)) = Len(Stored) + 1
      BY <1>0
    <3>2. Len(Stored) >= 1 /\ Len(Stored) \in Nat
      BY <1>0, <2>2
    <3> HIDE DEF now
    <3> QED BY <3>1, <3>2, <1>1, <1>2
  <2>5. Stored' = Tail(now)
    BY <1>0, <2>1, <2>4, WordsGet, StoredPrime
  <2>6. Tail(Append(Stored, d)) = Append(Tail(Stored), d)
    BY <1>0, <2>3, TailOfAppend
  <2> QED BY <1>1, <1>4, <2>1, <2>3, <2>5, <2>6
<1> QED BY <1>3, <1>4

LEMMA CountsStep ==
  ASSUME DrInv, Flushed, DrTypeOK',
         NEW ew \in BOOLEAN, NEW er \in BOOLEAN, NEW we \in BOOLEAN, NEW rd \in BOOLEAN,
         NEW d \in Data, WriterMoves(ew, we, d), ReaderMoves(er, rd), CopiesMove(ew, er)
  PROVE  /\ Now'.freed0 \in Lagged!Unseen(Now.freed0, Rd(er, rd), ew)
         /\ Now'.freed1 = Lagged!Moved(Now.freed0, Now.freed1, Rd(er, rd), ew, Now'.freed0)
         /\ Now'.fresh0 \in Lagged!Unseen(Now.fresh0, Wr(ew, we), er)
         /\ Now'.fresh1 = Lagged!Moved(Now.fresh0, Now.fresh1, Wr(ew, we), er, Now'.fresh0)
<1> DEFINE wi == Wr(ew, we)
           ri == Rd(er, rd)
<1>0. /\ wbin \in Pointer /\ rbin \in Pointer /\ wbin' \in Pointer /\ rbin' \in Pointer
      /\ Bin[rx0] \in Pointer /\ Bin[wx0] \in Pointer
  BY FlushedFacts DEF DrTypeOK
<1>1. wi \in BOOLEAN /\ ri \in BOOLEAN
  BY DEF Wr, Rd, DrInv, DrTypeOK
<1>2. /\ wbin' = IF wi THEN Inc(wbin) ELSE wbin
      /\ rbin' = IF ri THEN Inc(rbin) ELSE rbin
  BY DEF WriterMoves, ReaderMoves
<1>3. /\ ew => Bin[rx0'] \in {rbin, rbin'} /\ Bin[rx1'] = Bin[rx0]
      /\ ~ew => Bin[rx0'] = Bin[rx0] /\ Bin[rx1'] = Bin[rx1]
      /\ er => Bin[wx0'] \in {wbin, wbin'} /\ Bin[wx1'] = Bin[wx0]
      /\ ~er => Bin[wx0'] = Bin[wx0] /\ Bin[wx1'] = Bin[wx1]
  BY <1>0, BinGray DEF CopiesMove
<1>4. Dist(rbin, Bin[rx0]) < 2*Size - 1 /\ Dist(wbin, Bin[wx0]) < 2*Size - 1
  BY Beliefs, SizeAssumption
<1> HIDE DEF wi, ri
<1>5. Counted(rbin, Bin[rx0], Bin[rx1], ri, ew, rbin', Bin[rx0'], Bin[rx1'])
  <2>1. Copied(rbin, Bin[rx0], Bin[rx1], ri, ew, rbin', Bin[rx0'], Bin[rx1'])
    BY <1>2, <1>3 DEF Copied
  <2> QED BY <2>1, <1>0, <1>1, <1>4, CopyCounts, Zenon
<1>6. Counted(wbin, Bin[wx0], Bin[wx1], wi, er, wbin', Bin[wx0'], Bin[wx1'])
  <2>1. Copied(wbin, Bin[wx0], Bin[wx1], wi, er, wbin', Bin[wx0'], Bin[wx1'])
    BY <1>2, <1>3 DEF Copied
  <2> QED BY <2>1, <1>0, <1>1, <1>4, CopyCounts, Zenon
<1>7. /\ Now.freed0 = Dist(rbin, Bin[rx0]) /\ Now.freed1 = Dist(Bin[rx0], Bin[rx1])
      /\ Now.fresh0 = Dist(wbin, Bin[wx0]) /\ Now.fresh1 = Dist(Bin[wx0], Bin[wx1])
      /\ Now'.freed0 = Dist(rbin', Bin[rx0']) /\ Now'.freed1 = Dist(Bin[rx0'], Bin[rx1'])
      /\ Now'.fresh0 = Dist(wbin', Bin[wx0']) /\ Now'.fresh1 = Dist(Bin[wx0'], Bin[wx1'])
  BY DEF Now
<1> QED BY <1>5, <1>6, <1>7, Zenon DEF wi, ri, Counted

LEMMA LaggedStep ==
  ASSUME DrInv, Flushed, DrTypeOK',
         NEW ew \in BOOLEAN, NEW er \in BOOLEAN, NEW we \in BOOLEAN, NEW rd \in BOOLEAN,
         NEW d \in Data, WriterMoves(ew, we, d), ReaderMoves(er, rd), CopiesMove(ew, er)
  PROVE  Now' \in Lagged!Edges(Size, Now, Asked(ew, rst_wr_n, we), d,
                               Asked(er, rst_rd_n, rd))
<1> DEFINE w == Asked(ew, rst_wr_n, we)
           r == Asked(er, rst_rd_n, rd)
           wi == Wr(ew, we)
           ri == Rd(er, rd)
<1>b. /\ rst_wr_n \in BOOLEAN /\ rst_rd_n \in BOOLEAN /\ full \in BOOLEAN
      /\ empty \in BOOLEAN /\ full' \in BOOLEAN /\ empty' \in BOOLEAN
  BY DEF DrInv, DrTypeOK
<1>w. w.edge = ew /\ (ew => w.rst_n = rst_wr_n /\ w.en = we)
  BY <1>b, AskedIs
<1>r. r.edge = er /\ (er => r.rst_n = rst_rd_n /\ r.en = rd)
  BY <1>b, AskedIs
<1>n. /\ Now.queue = Stored /\ Now.full = full /\ Now.empty = empty /\ Now.q = q
      /\ Now.wr_count = wr_count
  BY DEF Now
<1> HIDE DEF w, r
<1>1. Lagged!we_int(Now, w) = wi
  <2>1. Lagged!we_int(Now, w) <=> wi
    BY <1>w, <1>n, <1>b DEF Lagged!we_int, Wr
  <2> QED BY <2>1 DEF Lagged!we_int, Wr
<1>2. Lagged!rd_int(Now, r) = ri
  <2>1. Lagged!rd_int(Now, r) <=> ri
    BY <1>r, <1>n, <1>b DEF Lagged!rd_int, Rd
  <2> QED BY <2>1 DEF Lagged!rd_int, Rd
<1>3. /\ Now'.freed0 \in Lagged!Unseen(Now.freed0, ri, w.edge)
      /\ Now'.freed1 = Lagged!Moved(Now.freed0, Now.freed1, ri, w.edge, Now'.freed0)
      /\ Now'.fresh0 \in Lagged!Unseen(Now.fresh0, wi, r.edge)
      /\ Now'.fresh1 = Lagged!Moved(Now.fresh0, Now.fresh1, wi, r.edge, Now'.fresh0)
  <2>1. /\ Now'.freed0 \in Lagged!Unseen(Now.freed0, Rd(er, rd), ew)
        /\ Now'.freed1 = Lagged!Moved(Now.freed0, Now.freed1, Rd(er, rd), ew, Now'.freed0)
        /\ Now'.fresh0 \in Lagged!Unseen(Now.fresh0, Wr(ew, we), er)
        /\ Now'.fresh1 = Lagged!Moved(Now.fresh0, Now.fresh1, Wr(ew, we), er, Now'.fresh0)
    BY CountsStep
  <2> QED BY <2>1, <1>w, <1>r, Zenon
<1>4. /\ Stored' = IF wi THEN Append(IF ri THEN Tail(Now.queue) ELSE Now.queue, d)
                   ELSE IF ri THEN Tail(Now.queue) ELSE Now.queue
      /\ q' = IF ri THEN Head(Now.queue) ELSE Now.q
  <2>1. /\ Stored' = IF Wr(ew, we)
                      THEN Append(IF Rd(er, rd) THEN Tail(Stored) ELSE Stored, d)
                      ELSE IF Rd(er, rd) THEN Tail(Stored) ELSE Stored
        /\ q' = IF Rd(er, rd) THEN Head(Stored) ELSE q
    BY QueueStep
  <2> QED BY <2>1, <1>n, Zenon
<1>5. full' = IF w.edge
              THEN w.rst_n /\ (Lagged!WriterSees(Now) = Size
                                \/ (wi /\ Lagged!WriterSees(Now) + 1 = Size))
              ELSE Now.full
  <2>1. Lagged!WriterSees(Now) = Occupied
    BY Beliefs
  <2>2. CASE ew
    <3>1. full' <=> rst_wr_n /\ (Occupied = Size \/ (wi /\ Occupied + 1 = Size))
      BY <2>2 DEF WriterMoves
    <3>2. full' = (rst_wr_n /\ (Occupied = Size \/ (wi /\ Occupied + 1 = Size)))
      BY <3>1, <1>b
    <3> QED BY <2>1, <2>2, <3>2, <1>w, Zenon
  <2>3. CASE ~ew
    BY <2>3, <1>w, <1>n DEF WriterMoves
  <2> QED BY <2>2, <2>3
<1>6. empty' = IF r.edge
               THEN ~r.rst_n \/ Lagged!ReaderSees(Now) = 0
                             \/ (ri /\ Lagged!ReaderSees(Now) = 1)
               ELSE Now.empty
  <2>1. Lagged!ReaderSees(Now) = Visible
    BY Beliefs
  <2>2. CASE er
    <3>1. empty' <=> ~rst_rd_n \/ Visible = 0 \/ (ri /\ Visible = 1)
      BY <2>2 DEF ReaderMoves
    <3>2. empty' = (~rst_rd_n \/ Visible = 0 \/ (ri /\ Visible = 1))
      BY <3>1, <1>b
    <3> QED BY <2>1, <2>2, <3>2, <1>r, Zenon
  <2>3. CASE ~er
    BY <2>3, <1>r, <1>n DEF ReaderMoves
  <2> QED BY <2>2, <2>3
<1>7. wr_count' = IF w.edge /\ w.rst_n THEN Lagged!WriterSees(Now) ELSE Now.wr_count
  <2>1. Lagged!WriterSees(Now) = Occupied
    BY Beliefs
  <2> QED BY <2>1, <1>w, <1>n, <1>b DEF WriterMoves
<1>8. Now' = [queue |-> Stored', freed0 |-> Now'.freed0, freed1 |-> Now'.freed1,
              fresh0 |-> Now'.fresh0, fresh1 |-> Now'.fresh1,
              full |-> full', empty |-> empty', q |-> q', wr_count |-> wr_count']
  BY DEF Now
<1> HIDE DEF wi, ri
<1>9. Now' = Result(Now, w, r, d, wi, ri, Now'.freed0, Now'.fresh0)
  BY <1>3, <1>4, <1>5, <1>6, <1>7, <1>8, Zenon DEF Result
<1>10. Now' \in Lagged!Edges(Size, Now, w, d, r)
  <2>1. Result(Now, w, r, d, Lagged!we_int(Now, w), Lagged!rd_int(Now, r), Now'.freed0, Now'.fresh0)
          \in Lagged!Edges(Size, Now, w, d, r)
    BY <1>1, <1>2, <1>3, EdgesHave, Zenon
  <2> QED BY <2>1, <1>1, <1>2, <1>9, Zenon
<1> QED BY <1>10 DEF w, r

LEMMA LaggedInit == DrInit => Lagged!Init
<1> SUFFICES ASSUME DrInit PROVE Lagged!Init
  OBVIOUS
<1>1. mem \in Memory /\ Bin[Gray[0]] = 0
  BY DataAssumption, ZeroPointer, BinGray DEF DrInit, Memory
<1>2. Stored = <<>>
  <2>1. wbin = 0 /\ rbin = 0
    BY DEF DrInit
  <2> QED BY <1>1, <2>1, ZeroPointer, WordsNone, StoredIsWords
<1>3. Dist(rbin, Bin[rx0]) = 0 /\ Dist(Bin[rx0], Bin[rx1]) = 0
  BY <1>1, ZeroPointer DEF DrInit
<1>4. Dist(wbin, Bin[wx0]) = 0 /\ Dist(Bin[wx0], Bin[wx1]) = 0
  BY <1>1, ZeroPointer DEF DrInit
<1>5. full = FALSE /\ empty = TRUE /\ q = ZeroWord /\ wr_count = 0
  BY DEF DrInit
<1> QED BY <1>2, <1>3, <1>4, <1>5, Zenon DEF Lagged!Init, Lagged!EmptyFifo

LEMMA LaggedNext ==
  ASSUME Plain, DrInv, DrTypeOK', DrNext, Flushed, Flushed'
  PROVE  Lagged!Next
<1>1. \E ew, er, we, rd \in BOOLEAN, d \in Data :
        WriterMoves(ew, we, d) /\ ReaderMoves(er, rd) /\ CopiesMove(ew, er)
  <2>1. CASE DrEdge
    BY <2>1, EdgeOfSides
  <2>2. CASE Release
    <3>1. UNCHANGED vars /\ wr_count' = wr_count
      BY <2>2 DEF Release, Reset
    <3>2. PICK d \in Data : TRUE
      BY DataAssumption
    <3>3. WriterMoves(FALSE, FALSE, d)
      <4>1. mem' = mem /\ wbin' = wbin /\ full' = full /\ wr_count' = wr_count
        BY <3>1 DEF vars, wrVars
      <4> QED BY <4>1, WriterStands
    <3>4. ReaderMoves(FALSE, FALSE)
      <4>1. rbin' = rbin /\ empty' = empty /\ q' = q
        BY <3>1 DEF vars, rdVars
      <4> QED BY <4>1, ReaderStands
    <3>5. CopiesMove(FALSE, FALSE)
      BY <3>1 DEF vars, wrVars, rdVars, CopiesMove
    <3> QED BY <3>3, <3>4, <3>5
  <2>3. ~AssertFirst
    BY Three DEF AssertFirst, Flushed
  <2>4. ~AssertSecond
    BY DEF AssertSecond
  <2> QED BY <2>1, <2>2, <2>3, <2>4 DEF DrNext
<1>2. PICK ew \in BOOLEAN, er \in BOOLEAN, we \in BOOLEAN, rd \in BOOLEAN, d \in Data :
        WriterMoves(ew, we, d) /\ ReaderMoves(er, rd) /\ CopiesMove(ew, er)
  BY <1>1
<1> DEFINE w == Asked(ew, rst_wr_n, we)
           r == Asked(er, rst_rd_n, rd)
<1>3. Now' \in Lagged!Edges(Size, Now, w, d, r)
  BY <1>2, LaggedStep
<1>4. w \in Lagged!Asks /\ r \in Lagged!Asks
  BY AskedIs DEF DrInv, DrTypeOK
<1> HIDE DEF w, r
<1>5. \E a, b \in Lagged!Asks, e \in Data : Now' \in Lagged!Edges(Size, Now, a, e, b)
  BY <1>3, <1>4
<1> QED BY <1>5, Zenon DEF Lagged!Next, Now

(* Without show-ahead, as both bridges instantiate the FIFO, each of its   *)
(* steps between two flushes is a step of LaggedFifo, whatever the two     *)
(* clocks, the sampling of the Gray words and the order in which the       *)
(* resets are released: what is proved of the bridges over LaggedFifo      *)
(* holds over the FIFO with pointers and synchronisers.                    *)
THEOREM DualRstIsLagged == Plain => (DrSpec => IsLagged)
<1> SUFFICES ASSUME Plain PROVE DrSpec => IsLagged
  OBVIOUS
<1>1. DrInv /\ DrInv' /\ [DrNext]_drVars
        => [Flushed /\ Flushed' => Lagged!Next]_drVars
  <2> SUFFICES ASSUME DrInv, DrInv', DrNext, Flushed, Flushed'
               PROVE  Lagged!Next
    OBVIOUS
  <2>1. DrTypeOK'
    BY DEF DrInv
  <2> QED BY <2>1, LaggedNext
<1> QED BY <1>1, DrInvHolds, LaggedInit, PTL DEF DrSpec, IsLagged
=============================================================================
