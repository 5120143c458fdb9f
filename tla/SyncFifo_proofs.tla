--------------------------- MODULE SyncFifo_proofs --------------------------
(***************************************************************************)
(* Proofs about the synchronous FIFO, for every size and in every mode.    *)
(***************************************************************************)
EXTENDS SyncFifo, SequenceTheorems, TLAPS

(* With g_show_ahead the guard bit that a write and a read leave set on a  *)
(* ring of two words hides that it is empty: not that ring.                *)
Usable == Size > 2 \/ "ahead" \notin Modes

Memory == [0 .. Size-1 -> Data]
Address == 0 .. Size-1

(* k words further round the ring. *)
Plus(p, k) == IF p + k < Size THEN p + k ELSE p + k - Size

TypeOK ==
  /\ mode \in Modes /\ mem \in Memory /\ q \in Data
  /\ wr_ptr \in Address /\ rd_ptr \in Address /\ n \in 0 .. Size
  /\ usedw \in 0 .. 2*Size-1 /\ resets \in {0, 1, 2}
  /\ guard_bit \in BOOLEAN /\ full_r \in BOOLEAN /\ empty_r \in BOOLEAN
  /\ almost_full \in BOOLEAN /\ almost_empty \in BOOLEAN /\ held \in BOOLEAN

(* The pointers are as far apart as there are words, modulo a turn. *)
RingOK == /\ n <= Capacity /\ wr_ptr = Plus(rd_ptr, n)
          /\ resets # 0 => n = 0

CountOK == /\ usedw = n
           /\ almost_full <=> usedw >= AlmostFull
           /\ almost_empty <=> usedw <= AlmostEmpty

(* What tells a full ring from an empty one.  The guard bit is set by a    *)
(* write to the last slot, and also when a word is read meanwhile.         *)
FlagsOK ==
  /\ mode = "registered" => (full_r <=> n = Size-1) /\ (empty_r <=> n = 0)
  /\ mode \in {"comb", "ahead"} => /\ guard_bit => n >= Size-1
                                   /\ n = Size => guard_bit
  /\ mode = "ahead" => /\ ~empty_r => n > 0
                       /\ n = Size => ~empty_r
  /\ mode = "legacy_ahead" /\ resets # 1 /\ ~empty_r => n > 0

(* What is on q_o, and the slot behind the reader. *)
OutputOK ==
  /\ resets # 1 /\ ShowAhead /\ ~empty_r => q = mem[rd_ptr]
  /\ mode = "registered" /\ held => /\ q = taken
                                    /\ mem[Plus(rd_ptr, Size-1)] = taken

IInv == TypeOK /\ RingOK /\ CountOK /\ FlagsOK /\ OutputOK

-----------------------------------------------------------------------------
LEMMA SizeFacts ==
  /\ Size \in Nat /\ Size >= 2
  /\ AlmostEmpty \in 0 .. Size-2 /\ AlmostFull \in 1 .. Size-1
  /\ Modes \subseteq {"registered", "comb", "ahead", "legacy_ahead"}
  BY SyncFifoAssumption

(* Addresses that wrap are sums that are taken back by one turn. *)
LEMMA ModIs ==
  ASSUME NEW m \in Nat, m >= 1, NEW a \in 0 .. 2*m-1
  PROVE  a % m = IF a < m THEN a ELSE a - m
<1>1. CASE a < m BY <1>1
<1>2. CASE a >= m BY <1>2
<1> QED BY <1>1, <1>2

LEMMA IncIs == \A p \in Address : Inc(p) = Plus(p, 1) /\ Inc(p) \in Address
<1> TAKE p \in Address
<1> DEFINE a == p + 1
<1>1. a \in 0 .. 2*Size-1 /\ Size \in Nat /\ Size >= 1
  BY SizeFacts DEF Address
<1>2. a % Size = IF a < Size THEN a ELSE a - Size
  <2> HIDE DEF a
  <2> QED BY <1>1, ModIs
<1> QED BY <1>2, SizeFacts DEF Inc, Plus, Address

LEMMA BehindIs == \A p \in Address : (p + Size - 1) % Size = Plus(p, Size-1)
<1> TAKE p \in Address
<1> DEFINE a == p + Size - 1
<1>1. a \in 0 .. 2*Size-1 /\ Size \in Nat /\ Size >= 1
  BY SizeFacts DEF Address
<1>2. a % Size = IF a < Size THEN a ELSE a - Size
  <2> HIDE DEF a
  <2> QED BY <1>1, ModIs
<1> QED BY <1>2, SizeFacts DEF Plus, Address

LEMMA PlusType == \A p \in Address, k \in 0 .. Size : Plus(p, k) \in Address
  BY SizeFacts DEF Plus, Address

LEMMA UsedwIs ==
  ASSUME usedw \in 0 .. Size
  PROVE  /\ usedw < Size => (usedw + 1) % (2*Size) = usedw + 1
         /\ usedw > 0 => (usedw + 2*Size - 1) % (2*Size) = usedw - 1
<1>1. 2*Size \in Nat /\ 2*Size >= 1 BY SizeFacts
<1>2. ASSUME usedw < Size PROVE (usedw + 1) % (2*Size) = usedw + 1
  <2>1. usedw + 1 \in 0 .. 2*(2*Size)-1 /\ usedw + 1 < 2*Size BY <1>2, SizeFacts
  <2> QED BY <2>1, <1>1, ModIs
<1>3. ASSUME usedw > 0 PROVE (usedw + 2*Size - 1) % (2*Size) = usedw - 1
  <2>1. /\ usedw + 2*Size - 1 \in 0 .. 2*(2*Size)-1
        /\ ~(usedw + 2*Size - 1 < 2*Size)
        /\ usedw + 2*Size - 1 - 2*Size = usedw - 1
    BY <1>3, SizeFacts
  <2> QED BY <2>1, <1>1, ModIs
<1> QED BY <1>2, <1>3

(* What each mode makes of its generics. *)
LEMMA ModeFacts ==
  ASSUME mode \in Modes
  PROVE  mode \in {"registered", "comb", "ahead", "legacy_ahead"}
  BY SizeFacts

LEMMA FullIs ==
  /\ mode = "registered" => (full <=> full_r)
  /\ mode = "legacy_ahead" => (full <=> Inc(wr_ptr) = rd_ptr)
  /\ mode \in {"comb", "ahead"} => (full <=> wr_ptr = rd_ptr /\ guard_bit)
<1>1. mode = "registered" => (full <=> full_r)
  BY Zenon DEF full
<1>2. mode = "legacy_ahead" => (full <=> Inc(wr_ptr) = rd_ptr)
  BY Zenon DEF full
<1>3. mode \in {"comb", "ahead"} => (full <=> wr_ptr = rd_ptr /\ guard_bit)
  <2>1. mode \in {"comb", "ahead"} => mode # "registered" /\ mode # "legacy_ahead"
    OBVIOUS
  <2> QED BY <2>1, Zenon DEF full
<1> QED BY <1>1, <1>2, <1>3

LEMMA MuxedIs ==
  ASSUME NEW rd
  PROVE  /\ rd_int(rd) /\ ShowAhead => rd_ptr_muxed(rd) = Inc(rd_ptr)
         /\ rd_int(rd) /\ ~ShowAhead => rd_ptr_muxed(rd) = rd_ptr
         /\ ~rd_int(rd) /\ ShowAhead => rd_ptr_muxed(rd) = rd_ptr
         /\ ~rd_int(rd) /\ ~ShowAhead => rd_ptr_muxed(rd) = (rd_ptr + Size - 1) % Size
<1>1. rd_int(rd) /\ ShowAhead => rd_ptr_muxed(rd) = Inc(rd_ptr)
  BY Zenon DEF rd_ptr_muxed
<1>2. rd_int(rd) /\ ~ShowAhead => rd_ptr_muxed(rd) = rd_ptr
  BY Zenon DEF rd_ptr_muxed
<1>3. ~rd_int(rd) /\ ShowAhead => rd_ptr_muxed(rd) = rd_ptr
  BY Zenon DEF rd_ptr_muxed
<1>4. ~rd_int(rd) /\ ~ShowAhead => rd_ptr_muxed(rd) = (rd_ptr + Size - 1) % Size
  BY Zenon DEF rd_ptr_muxed
<1> QED BY <1>1, <1>2, <1>3, <1>4

LEMMA NextEmptyIs ==
  ASSUME NEW we, NEW rd
  PROVE  /\ mode = "registered" =>
              (NextEmpty(we, rd) = IF usedw = 1 /\ rd_int(rd) /\ ~we_int(we) THEN TRUE
                                   ELSE IF we_int(we) /\ ~rd_int(rd) THEN FALSE ELSE empty_r)
         /\ mode = "legacy_ahead" =>
              (NextEmpty(we, rd) <=> (Inc(rd_ptr) = wr_ptr /\ rd_int(rd)) \/ rd_ptr = wr_ptr)
         /\ mode = "ahead" =>
              (NextEmpty(we, rd) <=> wr_ptr = rd_ptr_muxed(rd) /\ ~guard_bit)
         /\ mode = "comb" => NextEmpty(we, rd) = empty_r
<1>1. mode = "registered" =>
        (NextEmpty(we, rd) = IF usedw = 1 /\ rd_int(rd) /\ ~we_int(we) THEN TRUE
                             ELSE IF we_int(we) /\ ~rd_int(rd) THEN FALSE ELSE empty_r)
  BY Zenon DEF NextEmpty
<1>2. mode = "legacy_ahead" =>
        (NextEmpty(we, rd) <=> (Inc(rd_ptr) = wr_ptr /\ rd_int(rd)) \/ rd_ptr = wr_ptr)
  BY Zenon DEF NextEmpty
<1>3. mode = "ahead" =>
        (NextEmpty(we, rd) <=> wr_ptr = rd_ptr_muxed(rd) /\ ~guard_bit)
  BY Zenon DEF NextEmpty
<1>4. mode = "comb" => NextEmpty(we, rd) = empty_r
  BY Zenon DEF NextEmpty
<1> QED BY <1>1, <1>2, <1>3, <1>4

LEMMA NextUsedwIs ==
  ASSUME NEW we, NEW rd
  PROVE  /\ we_int(we) /\ ~rd_int(rd) => NextUsedw(we, rd) = (usedw + 1) % (2*Size)
         /\ ~we_int(we) /\ rd_int(rd) => NextUsedw(we, rd) = (usedw + 2*Size - 1) % (2*Size)
         /\ (we_int(we) <=> rd_int(rd)) => NextUsedw(we, rd) = usedw
<1>1. we_int(we) /\ ~rd_int(rd) => NextUsedw(we, rd) = (usedw + 1) % (2*Size)
  BY Zenon DEF NextUsedw
<1>2. ~we_int(we) /\ rd_int(rd) => NextUsedw(we, rd) = (usedw + 2*Size - 1) % (2*Size)
  BY Zenon DEF NextUsedw
<1>3. (we_int(we) <=> rd_int(rd)) => NextUsedw(we, rd) = usedw
  BY Zenon DEF NextUsedw
<1> QED BY <1>1, <1>2, <1>3

-----------------------------------------------------------------------------
LEMMA FullMeans ==
  ASSUME IInv
  PROVE  full <=> n = Capacity
<1>0. /\ mode \in {"registered", "comb", "ahead", "legacy_ahead"}
      /\ wr_ptr = Plus(rd_ptr, n) /\ n \in 0 .. Capacity
      /\ wr_ptr \in Address /\ rd_ptr \in Address
  BY ModeFacts DEF IInv, TypeOK, RingOK
<1>1. CASE mode = "registered"
  BY <1>1, FullIs DEF IInv, FlagsOK, Capacity
<1>2. CASE mode = "legacy_ahead"
  <2>1. Inc(wr_ptr) = rd_ptr <=> n = Size-1
    BY <1>0, <1>2, IncIs, SizeFacts DEF Plus, Address, Capacity
  <2> QED BY <1>2, <2>1, FullIs DEF Capacity
<1>3. CASE mode \in {"comb", "ahead"}
  <2>1. wr_ptr = rd_ptr <=> n = 0 \/ n = Size
    BY <1>0, <1>3, SizeFacts DEF Plus, Address, Capacity
  <2> QED BY <1>0, <1>3, <2>1, FullIs, SizeFacts DEF IInv, FlagsOK, Capacity
<1> QED BY <1>0, <1>1, <1>2, <1>3

LEMMA EmptyMeans ==
  ASSUME IInv, resets # 1
  PROVE  /\ ~empty => n > 0
         /\ ~ShowAhead /\ empty => n = 0
         /\ mode # "comb" => (empty <=> empty_r)
<1>0. /\ mode \in {"registered", "comb", "ahead", "legacy_ahead"}
      /\ wr_ptr = Plus(rd_ptr, n) /\ n \in 0 .. Capacity
      /\ wr_ptr \in Address /\ rd_ptr \in Address
  BY ModeFacts DEF IInv, TypeOK, RingOK
<1>1. CASE mode = "comb"
  <2>1. wr_ptr = rd_ptr <=> n = 0 \/ n = Size
    BY <1>0, <1>1, SizeFacts DEF Plus, Address, Capacity
  <2> QED BY <1>0, <1>1, <2>1, SizeFacts DEF IInv, FlagsOK, empty, Capacity
<1>2. CASE mode # "comb"
  BY <1>0, <1>2, SizeFacts DEF IInv, FlagsOK, empty, ShowAhead
<1> QED BY <1>1, <1>2

(* What a clock lets through: a write finds room and a read a word, and    *)
(* the two never meet at one slot.                                         *)
LEMMA Moves ==
  ASSUME IInv, resets # 1, NEW we \in BOOLEAN, NEW rd \in BOOLEAN
  PROVE  /\ we_int(we) => n < Capacity
         /\ rd_int(rd) => n > 0
         /\ we_int(we) /\ rd_int(rd) => wr_ptr # rd_ptr
<1>1. we_int(we) => n < Capacity
  BY FullMeans, SizeFacts DEF we_int, IInv, TypeOK, RingOK, Capacity
<1>2. rd_int(rd) => n > 0
  BY EmptyMeans DEF rd_int
<1>3. we_int(we) /\ rd_int(rd) => wr_ptr # rd_ptr
  BY <1>1, <1>2, SizeFacts DEF IInv, TypeOK, RingOK, Plus, Address, Capacity
<1> QED BY <1>1, <1>2, <1>3

LEMMA ClockNumbers ==
  ASSUME IInv, NEW we \in BOOLEAN, NEW rd \in BOOLEAN, NEW d \in Data, Clock(we, d, rd)
  PROVE  /\ we_int(we) /\ ~rd_int(rd) => /\ n' = n + 1 /\ usedw' = usedw + 1
                                         /\ wr_ptr' = Plus(wr_ptr, 1) /\ rd_ptr' = rd_ptr
         /\ ~we_int(we) /\ rd_int(rd) => /\ n' = n - 1 /\ usedw' = usedw - 1
                                         /\ wr_ptr' = wr_ptr /\ rd_ptr' = Plus(rd_ptr, 1)
         /\ we_int(we) /\ rd_int(rd) => /\ n' = n /\ usedw' = usedw
                                        /\ wr_ptr' = Plus(wr_ptr, 1)
                                        /\ rd_ptr' = Plus(rd_ptr, 1)
         /\ ~we_int(we) /\ ~rd_int(rd) => /\ n' = n /\ usedw' = usedw
                                          /\ wr_ptr' = wr_ptr /\ rd_ptr' = rd_ptr
<1>0. /\ usedw = n /\ n \in 0 .. Capacity /\ wr_ptr \in Address /\ rd_ptr \in Address
      /\ usedw \in 0 .. Size
  BY SizeFacts DEF IInv, TypeOK, CountOK, RingOK, Capacity
<1>1. /\ wr_ptr' = IF we_int(we) THEN Plus(wr_ptr, 1) ELSE wr_ptr
      /\ rd_ptr' = IF rd_int(rd) THEN Plus(rd_ptr, 1) ELSE rd_ptr
  BY <1>0, IncIs, Zenon DEF Clock
<1>2. /\ n' = n + (IF we_int(we) THEN 1 ELSE 0) - (IF rd_int(rd) THEN 1 ELSE 0)
      /\ usedw' = NextUsedw(we, rd)
  BY DEF Clock
<1>3. (we_int(we) => n < Capacity) /\ (rd_int(rd) => n > 0)
  BY Moves DEF Clock
<1>4. (we_int(we) => usedw < Size) /\ (rd_int(rd) => usedw > 0)
  BY <1>0, <1>3, SizeFacts DEF Capacity
<1>5. CASE we_int(we) /\ ~rd_int(rd)
  BY <1>0, <1>1, <1>2, <1>4, <1>5, NextUsedwIs, UsedwIs
<1>6. CASE ~we_int(we) /\ rd_int(rd)
  BY <1>0, <1>1, <1>2, <1>4, <1>6, NextUsedwIs, UsedwIs
<1>7. CASE we_int(we) /\ rd_int(rd)
  BY <1>0, <1>1, <1>2, <1>7, NextUsedwIs
<1>8. CASE ~we_int(we) /\ ~rd_int(rd)
  BY <1>0, <1>1, <1>2, <1>8, NextUsedwIs
<1> QED BY <1>5, <1>6, <1>7, <1>8

LEMMA RamFacts ==
  ASSUME IInv, NEW we \in BOOLEAN, NEW rd \in BOOLEAN, NEW d \in Data, Ram(we, d, rd)
  PROVE  /\ mem' \in Memory /\ q' \in Data
         /\ we_int(we) => mem' = [mem EXCEPT ![wr_ptr] = d]
         /\ ~we_int(we) => mem' = mem
         /\ ~(we_int(we) /\ rd_ptr_muxed(rd) = wr_ptr) => q' = mem[rd_ptr_muxed(rd)]
<1>0. /\ mode \in Modes /\ mem \in Memory /\ wr_ptr \in Address /\ rd_ptr \in Address
  BY DEF IInv, TypeOK
<1>1. rd_ptr_muxed(rd) \in Address
  <2>1. Plus(rd_ptr, Size-1) \in Address BY <1>0, PlusType, SizeFacts
  <2>2. (rd_ptr + Size - 1) % Size \in Address BY <1>0, <2>1, BehindIs
  <2>3. Inc(rd_ptr) \in Address BY <1>0, IncIs
  <2> QED BY <1>0, <2>2, <2>3, MuxedIs, Zenon
<1>2. mem[rd_ptr_muxed(rd)] \in Data
  BY <1>0, <1>1 DEF Memory, Address
<1>3. q' \in RamOutput(we, rd) /\ mem' = IF we_int(we) THEN [mem EXCEPT ![wr_ptr] = d] ELSE mem
  BY DEF Ram
<1>4. q' \in Data
  BY <1>2, <1>3 DEF RamOutput
<1>5. ~(we_int(we) /\ rd_ptr_muxed(rd) = wr_ptr) => q' = mem[rd_ptr_muxed(rd)]
  BY <1>3 DEF RamOutput
<1>6. mem' \in Memory
  BY <1>0, <1>3 DEF Memory
<1> QED BY <1>3, <1>4, <1>5, <1>6

LEMMA ClockType ==
  ASSUME IInv, NEW we \in BOOLEAN, NEW rd \in BOOLEAN, NEW d \in Data, Clock(we, d, rd)
  PROVE  TypeOK' /\ RingOK' /\ CountOK'
<1>0. /\ mode \in Modes /\ usedw = n /\ n \in 0 .. Capacity /\ Capacity \in {Size, Size-1}
      /\ wr_ptr \in Address /\ rd_ptr \in Address /\ wr_ptr = Plus(rd_ptr, n)
      /\ mode' = mode /\ resets' = 0
  BY SizeFacts DEF IInv, TypeOK, CountOK, RingOK, Capacity, Clock
<1>1. /\ we_int(we) => n < Capacity
      /\ rd_int(rd) => n > 0
  BY Moves DEF Clock
<1>2. Capacity' = Capacity
  BY <1>0 DEF Capacity
<1>3. /\ n' \in 0 .. Capacity /\ n' \in 0 .. Size /\ usedw' = n' /\ usedw' \in 0 .. 2*Size-1
      /\ wr_ptr' \in Address /\ rd_ptr' \in Address
  <2>1. Plus(wr_ptr, 1) \in Address /\ Plus(rd_ptr, 1) \in Address
    BY <1>0, PlusType, SizeFacts
  <2>2. n' \in 0 .. Capacity /\ usedw' = n'
    BY <1>0, <1>1, ClockNumbers, SizeFacts
  <2>3. wr_ptr' \in Address /\ rd_ptr' \in Address
    BY <1>0, <2>1, ClockNumbers
  <2> QED BY <1>0, <2>2, <2>3, SizeFacts
<1>4. wr_ptr' = Plus(rd_ptr', n')
  <2>1. CASE we_int(we) /\ ~rd_int(rd)
    BY <2>1, <1>0, <1>1, ClockNumbers, SizeFacts DEF Plus, Address
  <2>2. CASE ~we_int(we) /\ rd_int(rd)
    BY <2>2, <1>0, <1>1, ClockNumbers, SizeFacts DEF Plus, Address
  <2>3. CASE we_int(we) /\ rd_int(rd)
    BY <2>3, <1>0, <1>1, ClockNumbers, SizeFacts DEF Plus, Address
  <2>4. CASE ~we_int(we) /\ ~rd_int(rd)
    BY <2>4, <1>0, ClockNumbers
  <2> QED BY <2>1, <2>2, <2>3, <2>4
<1>5. RingOK'
  BY <1>0, <1>2, <1>3, <1>4 DEF RingOK, Plus
<1>6. /\ almost_full' <=> usedw' >= AlmostFull
      /\ almost_empty' <=> usedw' <= AlmostEmpty
      /\ almost_full' \in BOOLEAN /\ almost_empty' \in BOOLEAN
  <2>1. /\ almost_full' = NextAlmostFull(we, rd) /\ almost_empty' = NextAlmostEmpty(we, rd)
    BY DEF Clock
  <2>2. /\ almost_full <=> usedw >= AlmostFull
        /\ almost_empty <=> usedw <= AlmostEmpty
        /\ almost_full \in BOOLEAN /\ almost_empty \in BOOLEAN
        /\ usedw \in Nat
    BY DEF IInv, CountOK, TypeOK
  <2>3. CASE we_int(we) /\ ~rd_int(rd)
    <3>1. usedw' = usedw + 1
      BY <2>3, ClockNumbers
    <3>2. /\ almost_full' = IF usedw = AlmostFull-1 THEN TRUE ELSE almost_full
          /\ almost_empty' = IF usedw = AlmostEmpty THEN FALSE ELSE almost_empty
      BY <2>1, <2>3 DEF NextAlmostFull, NextAlmostEmpty
    <3>3. almost_full' \in BOOLEAN /\ almost_empty' \in BOOLEAN
      BY <2>2, <3>2
    <3>4. almost_full' <=> usedw' >= AlmostFull
      BY <2>2, <3>1, <3>2, SizeFacts
    <3>5. almost_empty' <=> usedw' <= AlmostEmpty
      BY <2>2, <3>1, <3>2, SizeFacts
    <3> QED BY <3>3, <3>4, <3>5
  <2>4. CASE ~we_int(we) /\ rd_int(rd)
    <3>1. usedw' = usedw - 1
      BY <2>4, ClockNumbers
    <3>2. /\ almost_full' = IF usedw = AlmostFull THEN FALSE ELSE almost_full
          /\ almost_empty' = IF usedw = AlmostEmpty+1 THEN TRUE ELSE almost_empty
      BY <2>1, <2>4 DEF NextAlmostFull, NextAlmostEmpty
    <3>3. almost_full' \in BOOLEAN /\ almost_empty' \in BOOLEAN
      BY <2>2, <3>2
    <3>4. almost_full' <=> usedw' >= AlmostFull
      BY <2>2, <3>1, <3>2, SizeFacts
    <3>5. almost_empty' <=> usedw' <= AlmostEmpty
      BY <2>2, <3>1, <3>2, SizeFacts
    <3> QED BY <3>3, <3>4, <3>5
  <2>5. CASE we_int(we) <=> rd_int(rd)
    BY <2>1, <2>2, <2>5, ClockNumbers DEF NextAlmostFull, NextAlmostEmpty
  <2> QED BY <2>3, <2>4, <2>5
<1>7. guard_bit' \in BOOLEAN /\ full_r' \in BOOLEAN /\ held' \in BOOLEAN
  <2>1. guard_bit' = NextGuard(we, rd) /\ full_r' = NextFull(we, rd)
        /\ held' = (held \/ rd_int(rd)) /\ full_r \in BOOLEAN
    BY DEF Clock, IInv, TypeOK
  <2>2. guard_bit' \in BOOLEAN BY <2>1 DEF NextGuard
  <2>3. full_r' \in BOOLEAN BY <2>1 DEF NextFull
  <2>4. held' \in BOOLEAN BY <2>1
  <2> QED BY <2>2, <2>3, <2>4
<1>8. empty_r' \in BOOLEAN
  <2>1. empty_r' = NextEmpty(we, rd) /\ empty_r \in BOOLEAN
    BY DEF Clock, IInv, TypeOK
  <2>2. CASE mode = "registered" BY <2>1, <2>2, NextEmptyIs
  <2>3. CASE mode = "comb" BY <2>1, <2>3, NextEmptyIs
  <2>4. CASE mode = "ahead" BY <2>1, <2>4, Zenon DEF NextEmpty
  <2>5. CASE mode = "legacy_ahead" BY <2>1, <2>5, Zenon DEF NextEmpty
  <2> QED BY <1>0, ModeFacts, <2>2, <2>3, <2>4, <2>5
<1>9. mem' \in Memory /\ q' \in Data
  BY RamFacts DEF Clock
<1>10. TypeOK'
  BY <1>0, <1>3, <1>6, <1>7, <1>8, <1>9 DEF TypeOK
<1>11. CountOK'
  BY <1>3, <1>6 DEF CountOK
<1> QED BY <1>5, <1>10, <1>11

LEMMA ClockFlags ==
  ASSUME Usable, IInv, NEW we \in BOOLEAN, NEW rd \in BOOLEAN, NEW d \in Data,
         Clock(we, d, rd)
  PROVE  FlagsOK'
<1>0. /\ usedw = n /\ n \in 0 .. Capacity /\ mode' = mode
      /\ wr_ptr \in Address /\ rd_ptr \in Address /\ wr_ptr = Plus(rd_ptr, n)
  BY DEF IInv, TypeOK, CountOK, RingOK, Capacity, Clock
<1>1. /\ we_int(we) => n < Capacity
      /\ rd_int(rd) => n > 0
  BY Moves DEF Clock
<1>2. Inc(wr_ptr) = rd_ptr <=> n = Size-1
  BY <1>0, IncIs, SizeFacts DEF Plus, Address, Capacity
<1>3. ASSUME mode = "registered"
      PROVE  (full_r' <=> n' = Size-1) /\ (empty_r' <=> n' = 0)
  <2>1. Capacity = Size-1 /\ (full_r <=> n = Size-1) /\ (empty_r <=> n = 0)
    BY <1>3 DEF IInv, FlagsOK, Capacity
  <2>2. full_r' = NextFull(we, rd)
    BY DEF Clock
  <2>3. empty_r' = IF usedw = 1 /\ rd_int(rd) /\ ~we_int(we) THEN TRUE
                   ELSE IF we_int(we) /\ ~rd_int(rd) THEN FALSE ELSE empty_r
    BY <1>3, NextEmptyIs DEF Clock
  <2>4. full_r' <=> n' = Size-1
    BY <1>0, <1>1, <2>1, <2>2, ClockNumbers, SizeFacts DEF NextFull
  <2>5. empty_r' <=> n' = 0
    BY <1>0, <1>1, <2>1, <2>3, ClockNumbers, SizeFacts
  <2> QED BY <2>4, <2>5
<1>4. ASSUME mode \in {"comb", "ahead"}
      PROVE  (guard_bit' => n' >= Size-1) /\ (n' = Size => guard_bit')
  <2>1. /\ Capacity = Size
        /\ guard_bit => n >= Size-1
        /\ n = Size => guard_bit
    BY <1>4 DEF IInv, FlagsOK, Capacity
  <2>2. guard_bit' <=> (n = Size-1 /\ we_int(we)) \/ (guard_bit /\ ~rd)
    BY <1>2 DEF Clock, NextGuard
  <2>3. n = Size => ~empty
    BY <1>4, EmptyMeans, SizeFacts, <2>1 DEF IInv, FlagsOK, empty, Clock, ShowAhead
  <2>4. n = Size /\ ~rd_int(rd) => ~rd
    BY <2>3 DEF rd_int
  <2>5. guard_bit' => n' >= Size-1
    BY <1>0, <1>1, <2>1, <2>2, ClockNumbers, SizeFacts DEF rd_int
  <2>6. n' = Size => guard_bit'
    BY <1>0, <1>1, <2>1, <2>2, <2>4, ClockNumbers, SizeFacts
  <2> QED BY <2>5, <2>6
<1>5. ASSUME mode = "ahead"
      PROVE  (~empty_r' => n' > 0) /\ (n' = Size => ~empty_r')
  <2>1. Capacity = Size /\ Size > 2 /\ ShowAhead /\ (guard_bit => n >= Size-1)
        /\ (n = Size => guard_bit)
    BY <1>5, SizeFacts DEF Usable, IInv, TypeOK, Capacity, ShowAhead, FlagsOK
  <2>2. /\ rd_int(rd) => rd_ptr_muxed(rd) = Plus(rd_ptr, 1)
        /\ ~rd_int(rd) => rd_ptr_muxed(rd) = rd_ptr
    BY <1>0, <2>1, MuxedIs, IncIs
  <2>3. empty_r' <=> wr_ptr = rd_ptr_muxed(rd) /\ ~guard_bit
    BY <1>5, NextEmptyIs DEF Clock
  <2>4. CASE rd_int(rd)
    <3>1. wr_ptr = rd_ptr_muxed(rd) <=> n = 1
      BY <1>0, <1>1, <2>1, <2>2, <2>4, SizeFacts DEF Plus, Address
    <3> QED BY <3>1, <1>0, <1>1, <2>1, <2>3, <2>4, ClockNumbers, SizeFacts
  <2>5. CASE ~rd_int(rd)
    <3>1. wr_ptr = rd_ptr_muxed(rd) <=> n = 0 \/ n = Size
      BY <1>0, <2>1, <2>2, <2>5, SizeFacts DEF Plus, Address
    <3> QED BY <3>1, <1>0, <1>1, <2>1, <2>3, <2>5, ClockNumbers, SizeFacts
  <2> QED BY <2>4, <2>5
<1>6. ASSUME mode = "legacy_ahead", ~empty_r' PROVE n' > 0
  <2>1. Capacity = Size-1 BY <1>6 DEF Capacity
  <2>2. ~((Inc(rd_ptr) = wr_ptr /\ rd_int(rd)) \/ rd_ptr = wr_ptr)
    BY <1>6, NextEmptyIs DEF Clock
  <2>3. n # 0 /\ (rd_int(rd) => n # 1)
    BY <2>1, <2>2, <1>0, IncIs, SizeFacts DEF Plus, Address
  <2> QED BY <2>3, <1>0, ClockNumbers, SizeFacts DEF Capacity
<1> QED BY <1>0, <1>3, <1>4, <1>5, <1>6 DEF FlagsOK

(* The word that the RAM puts out is the one at the new read pointer, and  *)
(* the empty flag is up when that is the slot being written.               *)
LEMMA ClockOutput ==
  ASSUME Usable, IInv, NEW we \in BOOLEAN, NEW rd \in BOOLEAN, NEW d \in Data,
         Clock(we, d, rd)
  PROVE  OutputOK'
<1>0. /\ n \in 0 .. Capacity /\ mode' = mode /\ mode \in Modes /\ mem \in Memory
      /\ wr_ptr \in Address /\ rd_ptr \in Address /\ wr_ptr = Plus(rd_ptr, n)
      /\ ShowAhead' = ShowAhead
  BY DEF IInv, TypeOK, RingOK, Capacity, Clock, ShowAhead
<1>1. /\ we_int(we) => n < Capacity
      /\ rd_int(rd) => n > 0
  BY Moves DEF Clock
<1>2. /\ we_int(we) => mem' = [mem EXCEPT ![wr_ptr] = d]
      /\ ~we_int(we) => mem' = mem
      /\ ~(we_int(we) /\ rd_ptr_muxed(rd) = wr_ptr) => q' = mem[rd_ptr_muxed(rd)]
  BY RamFacts DEF Clock
<1>m. ASSUME NEW a \in Address, ~(we_int(we) /\ a = wr_ptr) PROVE mem'[a] = mem[a]
  BY <1>m, <1>2, <1>0 DEF Memory, Address
<1>3. ASSUME ShowAhead, ~empty_r' PROVE q' = mem'[rd_ptr']
  <2>1. rd_ptr' = rd_ptr_muxed(rd) /\ rd_ptr' \in Address
    BY <1>0, <1>3, MuxedIs, IncIs DEF Clock
  <2>2. ~(we_int(we) /\ rd_ptr_muxed(rd) = wr_ptr)
    <3>1. CASE mode = "legacy_ahead"
      <4>1. ~((Inc(rd_ptr) = wr_ptr /\ rd_int(rd)) \/ rd_ptr = wr_ptr)
        BY <3>1, <1>3, NextEmptyIs DEF Clock
      <4> QED BY <4>1, <1>3, MuxedIs
    <3>2. CASE mode = "ahead"
      <4>1. Size > 2 /\ (guard_bit => n >= Size-1) /\ Capacity = Size
        BY <3>2, <1>0, SizeFacts DEF Usable, IInv, FlagsOK, Capacity
      <4>2. ~(wr_ptr = rd_ptr_muxed(rd) /\ ~guard_bit)
        BY <3>2, <1>3, NextEmptyIs DEF Clock
      <4>3. rd_ptr_muxed(rd) = rd_ptr \/ rd_ptr_muxed(rd) = Plus(rd_ptr, 1)
        BY <1>0, <1>3, MuxedIs, IncIs
      <4>4. n = Size-1 => wr_ptr # rd_ptr_muxed(rd)
        BY <4>1, <4>3, <1>0, SizeFacts DEF Plus, Address
      <4> QED BY <4>1, <4>2, <4>4, <1>0, <1>1, SizeFacts
    <3> QED BY <3>1, <3>2, <1>3 DEF ShowAhead
  <2> QED BY <2>1, <2>2, <1>2, <1>m
<1>4. ASSUME mode = "registered", held'
      PROVE  q' = taken' /\ mem'[Plus(rd_ptr', Size-1)] = taken'
  <2>1. ~ShowAhead /\ Capacity = Size-1
    BY <1>4 DEF ShowAhead, Capacity
  <2>2. CASE rd_int(rd)
    <3>1. rd_ptr_muxed(rd) = rd_ptr /\ rd_ptr # wr_ptr
      BY <2>1, <2>2, <1>0, <1>1, MuxedIs, SizeFacts DEF Plus, Address
    <3>2. taken' = q' /\ q' = mem[rd_ptr] /\ mem'[rd_ptr] = mem[rd_ptr]
      BY <3>1, <2>1, <2>2, <1>0, <1>2, <1>m DEF Clock
    <3>3. rd_ptr' = Plus(rd_ptr, 1)
      BY <2>2, <1>0, IncIs DEF Clock
    <3>4. Plus(Plus(rd_ptr, 1), Size-1) = rd_ptr
      BY <1>0, SizeFacts DEF Plus, Address
    <3> QED BY <3>2, <3>3, <3>4 DEF Plus
  <2>3. CASE ~rd_int(rd)
    <3>1. rd_ptr_muxed(rd) = Plus(rd_ptr, Size-1)
      BY <2>1, <2>3, <1>0, MuxedIs, BehindIs
    <3>2. /\ taken' = taken /\ held /\ rd_ptr' = rd_ptr
          /\ q = taken /\ mem[Plus(rd_ptr, Size-1)] = taken
      BY <2>3, <1>4 DEF Clock, IInv, OutputOK
    <3>3. we_int(we) => Plus(rd_ptr, Size-1) # wr_ptr
      BY <2>1, <1>0, <1>1, SizeFacts DEF Plus, Address
    <3>4. Plus(rd_ptr, Size-1) \in Address
      BY <1>0, PlusType, SizeFacts
    <3> QED BY <3>1, <3>2, <3>3, <3>4, <1>2, <1>m
  <2> QED BY <2>2, <2>3
<1> QED BY <1>0, <1>3, <1>4 DEF OutputOK

-----------------------------------------------------------------------------
LEMMA InitInv == Init => IInv
<1> SUFFICES ASSUME Init PROVE IInv OBVIOUS
<1>z. 0 \in Address /\ 0 \in 0 .. Size /\ 0 \in 0 .. 2*Size-1
  BY SizeFacts DEF Address
<1>1. TypeOK
  BY <1>z DEF Init, TypeOK, Memory
<1>2. RingOK
  BY SizeFacts DEF Init, RingOK, Plus, Capacity
<1>3. CountOK
  BY SizeFacts DEF Init, CountOK
<1>4. FlagsOK
  BY SizeFacts DEF Init, FlagsOK
<1>5. OutputOK
  BY DEF Init, OutputOK
<1> QED BY <1>1, <1>2, <1>3, <1>4, <1>5 DEF IInv

LEMMA ResetInv ==
  ASSUME IInv, NEW we \in BOOLEAN, NEW rd \in BOOLEAN, NEW d \in Data, Reset(we, d, rd)
  PROVE  IInv'
<1>1. /\ mem' \in Memory /\ q' \in Data /\ mode' = mode /\ mode \in Modes
      /\ wr_ptr' = 0 /\ rd_ptr' = 0 /\ usedw' = 0 /\ n' = 0 /\ guard_bit' = FALSE
      /\ full_r' = FALSE /\ almost_full' = FALSE /\ almost_empty' = TRUE /\ held' = FALSE
      /\ resets' = IF resets = 0 THEN 1 ELSE 2
  BY RamFacts DEF Reset, IInv, TypeOK
<1>2. /\ mode # "legacy_ahead" => empty_r' = TRUE
      /\ mode = "legacy_ahead" => empty_r' = NextEmpty(we, rd)
  BY DEF Reset
<1>3. empty_r' \in BOOLEAN
  <2>1. NextEmpty(we, rd) \in BOOLEAN \/ mode # "legacy_ahead"
    BY Zenon DEF NextEmpty
  <2> QED BY <1>2, <2>1
<1>4. mode = "legacy_ahead" /\ resets' # 1 => empty_r'
  <2>1. ASSUME mode = "legacy_ahead", resets' # 1 PROVE rd_ptr = wr_ptr
    BY <1>1, <2>1, SizeFacts DEF IInv, TypeOK, RingOK, Plus, Address
  <2>2. mode = "legacy_ahead" => (NextEmpty(we, rd) <=> (Inc(rd_ptr) = wr_ptr /\ rd_int(rd)) \/ rd_ptr = wr_ptr)
    BY NextEmptyIs
  <2> QED BY <1>2, <2>1, <2>2
<1>z. 0 \in Address /\ 0 \in 0 .. Size /\ 0 \in 0 .. 2*Size-1
  BY SizeFacts DEF Address
<1>5. TypeOK'
  <2>1. resets' \in {0, 1, 2} BY <1>1
  <2> QED BY <1>z, <1>1, <1>3, <2>1 DEF TypeOK
<1>6. RingOK' /\ CountOK'
  BY <1>1, SizeFacts DEF RingOK, CountOK, Plus, Capacity
<1>7. FlagsOK'
  BY <1>1, <1>2, <1>4, SizeFacts DEF FlagsOK
<1>8. OutputOK'
  <2>1. resets' # 1 /\ ShowAhead' => empty_r'
    BY <1>1, <1>2, <1>4 DEF ShowAhead
  <2> QED BY <2>1, <1>1 DEF OutputOK
<1> QED BY <1>5, <1>6, <1>7, <1>8 DEF IInv

LEMMA NextInv == Usable /\ IInv /\ [Next]_vars => IInv'
<1> SUFFICES ASSUME Usable, IInv, [Next]_vars PROVE IInv'
  OBVIOUS
<1>1. ASSUME NEW we \in BOOLEAN, NEW rd \in BOOLEAN, NEW d \in Data, Clock(we, d, rd)
      PROVE  IInv'
  BY <1>1, ClockType, ClockFlags, ClockOutput DEF IInv
<1>2. CASE UNCHANGED vars
  BY <1>2 DEF vars, ptrs, flags, IInv, TypeOK, RingOK, CountOK, FlagsOK, OutputOK,
     Capacity, ShowAhead, Plus
<1> QED BY <1>1, <1>2, ResetInv DEF Next

LEMMA IInvHolds == Usable => (Spec => []IInv)
<1> SUFFICES ASSUME Usable PROVE Spec => []IInv
  OBVIOUS
<1>1. Init => IInv
  BY InitInv
<1>2. IInv /\ [Next]_vars => IInv'
  BY NextInv
<1> QED BY <1>1, <1>2, PTL DEF Spec

(* full_o is high exactly when the FIFO holds what its mode allows.  The   *)
(* excluded case is real: with g_show_ahead and two words it is not.       *)
THEOREM SyncFifoFull == Usable => (Spec => []FullMeansFull)
<1> SUFFICES ASSUME Usable PROVE Spec => []FullMeansFull
  OBVIOUS
<1>1. IInv => FullMeansFull
  BY FullMeans DEF FullMeansFull
<1> QED BY <1>1, IInvHolds, PTL

(* The counter, the empty flag and the almost flags agree with the number  *)
(* of words, although some are only set and cleared one by one.            *)
THEOREM SyncFifoFlags == Usable => (Spec => []FlagsAgree)
<1> SUFFICES ASSUME Usable PROVE Spec => []FlagsAgree
  OBVIOUS
<1>1. IInv => FlagsAgree
  BY EmptyMeans DEF FlagsAgree, Running, IInv, CountOK
<1> QED BY <1>1, IInvHolds, PTL

(* The oldest word is on q_o with show-ahead, and the word last read stays *)
(* there with registered flags.                                            *)
THEOREM SyncFifoOutput == Usable => (Spec => []WordOnOutput)
<1> SUFFICES ASSUME Usable PROVE Spec => []WordOnOutput
  OBVIOUS
<1>1. IInv => WordOnOutput
  <2> SUFFICES ASSUME IInv, resets = 0
               PROVE  /\ ShowAhead /\ ~empty => q = Stored[1]
                      /\ held /\ mode = "registered" => q = taken
    BY DEF WordOnOutput, Running
  <2>1. ASSUME ShowAhead, ~empty PROVE q = Stored[1]
    <3>1. q = mem[rd_ptr] /\ n > 0
      BY <2>1, EmptyMeans DEF IInv, OutputOK, ShowAhead
    <3>2. (rd_ptr + 1 - 1) % Size = rd_ptr
      BY SizeFacts DEF IInv, TypeOK, Address
    <3>3. 1 \in 1 .. n
      BY <3>1 DEF IInv, TypeOK
    <3> QED BY <3>1, <3>2, <3>3 DEF Stored
  <2>2. held /\ mode = "registered" => q = taken
    BY DEF IInv, OutputOK
  <2> QED BY <2>1, <2>2
<1> QED BY <1>1, IInvHolds, PTL

-----------------------------------------------------------------------------
(* The k words from pointer r on in memory m. *)
Words(m, r, k) == [i \in 1 .. k |-> m[Plus(r, i - 1)]]

LEMMA AddressIs ==
  ASSUME NEW r \in Address, NEW k \in 0 .. Size, NEW i \in 1 .. k
  PROVE  (r + i - 1) % Size = Plus(r, i - 1)
<1> DEFINE a == r + i - 1
<1>1. a \in 0 .. 2*Size-1 /\ Size \in Nat /\ Size >= 1
  BY SizeFacts DEF Address
<1>2. a % Size = IF a < Size THEN a ELSE a - Size
  <2> HIDE DEF a
  <2> QED BY <1>1, ModIs
<1> QED BY <1>2, SizeFacts DEF Plus, Address

LEMMA StoredIsWords ==
  /\ rd_ptr \in Address /\ n \in 0 .. Size => Stored = Words(mem, rd_ptr, n)
  /\ rd_ptr' \in Address /\ n' \in 0 .. Size => Stored' = Words(mem', rd_ptr', n')
<1>1. rd_ptr \in Address /\ n \in 0 .. Size => Stored = Words(mem, rd_ptr, n)
  BY AddressIs DEF Stored, Words
<1>2. rd_ptr' \in Address /\ n' \in 0 .. Size => Stored' = Words(mem', rd_ptr', n')
  BY AddressIs DEF Stored, Words
<1> QED BY <1>1, <1>2

LEMMA WordsIsSeq ==
  ASSUME NEW m \in Memory, NEW r \in Address, NEW k \in 0 .. Size
  PROVE  /\ Words(m, r, k) \in Seq(Data)
         /\ Len(Words(m, r, k)) = k
         /\ \A i \in 1 .. k : Words(m, r, k)[i] = m[Plus(r, i - 1)]
<1>1. \A i \in 1 .. k : m[Plus(r, i - 1)] \in Data
  <2> TAKE i \in 1 .. k
  <2>1. i - 1 \in 0 .. Size
    BY SizeFacts
  <2>2. Plus(r, i - 1) \in Address
    BY <2>1, PlusType
  <2> QED BY <2>2 DEF Memory, Address
<1>2. Words(m, r, k) \in [1 .. k -> Data]
  BY <1>1 DEF Words
<1>3. k \in Nat BY SizeFacts
<1> QED BY <1>2, <1>3 DEF Words

(* Writing the next word appends it. *)
LEMMA WordsPut ==
  ASSUME NEW m \in Memory, NEW r \in Address, NEW k \in 0 .. Size-1, NEW d \in Data
  PROVE  Words([m EXCEPT ![Plus(r, k)] = d], r, k + 1) = Append(Words(m, r, k), d)
<1> DEFINE w == Plus(r, k)
           m2 == [m EXCEPT ![w] = d]
           s == Words(m, r, k)
           t == Words(m2, r, k + 1)
<1>1. w \in Address /\ m2 \in Memory /\ k \in 0 .. Size /\ k + 1 \in 0 .. Size /\ k \in Nat
  <2>1. k \in 0 .. Size /\ k + 1 \in 0 .. Size /\ k \in Nat BY SizeFacts
  <2>2. w \in Address BY <2>1, PlusType
  <2> QED BY <2>1, <2>2 DEF Memory
<1>2. s \in Seq(Data) /\ Len(s) = k /\ \A i \in 1 .. k : s[i] = m[Plus(r, i - 1)]
  BY <1>1, WordsIsSeq
<1>3. /\ t \in Seq(Data) /\ Len(t) = k + 1
      /\ \A i \in 1 .. k + 1 : t[i] = m2[Plus(r, i - 1)]
  <2> HIDE DEF m2
  <2> QED BY <1>1, WordsIsSeq
<1>4. ASSUME NEW i \in 1 .. k PROVE t[i] = s[i]
  <2>1. Plus(r, i - 1) \in Address /\ Plus(r, i - 1) # w
    BY <1>1, SizeFacts DEF Plus, Address
  <2>2. m2[Plus(r, i - 1)] = m[Plus(r, i - 1)]
    BY <2>1 DEF Memory, Address
  <2>3. i \in 1 .. k + 1 BY <1>1
  <2> QED BY <1>2, <1>3, <2>2, <2>3
<1>5. t[k + 1] = d
  <2>1. k + 1 \in 1 .. k + 1 /\ k + 1 - 1 = k BY <1>1
  <2>2. m2[w] = d BY <1>1 DEF Memory, Address
  <2>3. t[k + 1] = m2[Plus(r, k + 1 - 1)]
    <3> DEFINE j == k + 1
    <3> HIDE DEF t, m2, w
    <3>1. j \in 1 .. k + 1 BY <2>1
    <3>2. t[j] = m2[Plus(r, j - 1)]
      <4> HIDE DEF j
      <4> QED BY <1>3, <3>1
    <3> QED BY <3>2
  <2> QED BY <2>1, <2>2, <2>3
<1> HIDE DEF s, t, m2, w
<1>6. /\ Append(s, d) \in Seq(Data) /\ Len(Append(s, d)) = k + 1
      /\ \A i \in 1 .. k : Append(s, d)[i] = s[i]
      /\ Append(s, d)[k + 1] = d
  BY <1>2, AppendProperties
<1>7. \A i \in 1 .. k + 1 : t[i] = Append(s, d)[i]
  BY <1>1, <1>4, <1>5, <1>6
<1>8. t = Append(s, d)
  BY <1>3, <1>6, <1>7, SeqEqual
<1> QED BY <1>8 DEF s, t, m2, w

(* Moving the read pointer takes the oldest word off. *)
LEMMA WordsGet ==
  ASSUME NEW m \in Memory, NEW r \in Address, NEW k \in 1 .. Size
  PROVE  /\ Words(m, r, k) # <<>>
         /\ Head(Words(m, r, k)) = m[r]
         /\ Words(m, Plus(r, 1), k - 1) = Tail(Words(m, r, k))
<1> DEFINE r2 == Plus(r, 1)
           s == Words(m, r, k)
           t == Words(m, r2, k - 1)
<1>1. r2 \in Address /\ k \in 0 .. Size /\ k - 1 \in 0 .. Size /\ k \in Nat
  BY PlusType, SizeFacts
<1>2. s \in Seq(Data) /\ Len(s) = k /\ \A i \in 1 .. k : s[i] = m[Plus(r, i - 1)]
  BY <1>1, WordsIsSeq
<1>3. /\ t \in Seq(Data) /\ Len(t) = k - 1
      /\ \A i \in 1 .. k - 1 : t[i] = m[Plus(r2, i - 1)]
  <2> HIDE DEF r2
  <2> QED BY <1>1, WordsIsSeq
<1>4. ASSUME NEW i \in 1 .. k - 1 PROVE t[i] = s[i + 1]
  <2> DEFINE j == i + 1
  <2>1. Plus(r2, i - 1) = Plus(r, j - 1)
    BY <1>1, SizeFacts DEF Plus, Address
  <2>2. j \in 1 .. k BY <1>1
  <2>3. s[j] = m[Plus(r, j - 1)]
    <3> HIDE DEF j
    <3> QED BY <1>2, <2>2
  <2> QED BY <1>3, <2>1, <2>3
<1>5. s[1] = m[r]
  <2>1. Plus(r, 1 - 1) = r BY SizeFacts DEF Plus, Address
  <2>2. 1 \in 1 .. k BY <1>1
  <2> QED BY <1>2, <2>1, <2>2
<1> HIDE DEF s, t
<1>6. s # <<>> /\ Head(s) = s[1]
  BY <1>1, <1>2
<1>7. /\ Tail(s) \in Seq(Data) /\ Len(Tail(s)) = k - 1
      /\ \A i \in 1 .. k - 1 : Tail(s)[i] = s[i + 1]
  BY <1>1, <1>2, <1>6, HeadTailProperties
<1>8. t = Tail(s)
  BY <1>3, <1>4, <1>7, SeqEqual
<1> QED BY <1>5, <1>6, <1>8 DEF s, t

(* One word on, one word off: it does not matter in which order. *)
LEMMA TailOfAppend ==
  ASSUME NEW s \in Seq(Data), NEW d \in Data, s # <<>>
  PROVE  Tail(Append(s, d)) = Append(Tail(s), d)
<1> DEFINE k == Len(s)
           a == Append(s, d)
           b == Append(Tail(s), d)
<1>1. k \in Nat /\ k >= 1
  BY EmptySeq
<1>2. /\ a \in Seq(Data) /\ a # <<>> /\ Len(a) = k + 1
      /\ \A i \in 1 .. k : a[i] = s[i]
      /\ a[k + 1] = d
  BY AppendProperties
<1>3. /\ Tail(s) \in Seq(Data) /\ Len(Tail(s)) = k - 1
      /\ \A i \in 1 .. k - 1 : Tail(s)[i] = s[i + 1]
  BY <1>1, HeadTailProperties
<1>4. /\ b \in Seq(Data) /\ Len(b) = k
      /\ \A i \in 1 .. k - 1 : b[i] = Tail(s)[i]
      /\ b[k] = d
  BY <1>1, <1>3, AppendProperties
<1> HIDE DEF k, a, b
<1>5. /\ Tail(a) \in Seq(Data) /\ Len(Tail(a)) = k
      /\ \A i \in 1 .. k : Tail(a)[i] = a[i + 1]
  BY <1>1, <1>2, HeadTailProperties
<1>6. \A i \in 1 .. k : Tail(a)[i] = b[i]
  <2> TAKE i \in 1 .. k
  <2>1. CASE i = k
    BY <2>1, <1>1, <1>2, <1>4, <1>5
  <2>2. CASE i # k
    <3>1. i \in 1 .. k - 1 /\ i + 1 \in 1 .. k
      BY <2>2, <1>1
    <3> QED BY <3>1, <1>2, <1>3, <1>4, <1>5
  <2> QED BY <2>1, <2>2
<1>7. Tail(a) = b
  BY <1>4, <1>5, <1>6, SeqEqual
<1> QED BY <1>7 DEF a, b

LEMMA ClockRefines ==
  ASSUME Usable, IInv, NEW we \in BOOLEAN, NEW rd \in BOOLEAN, NEW d \in Data,
         Clock(we, d, rd)
  PROVE  [Abstract!Next]_Abstract!vars
<1>0. /\ mem \in Memory /\ rd_ptr \in Address /\ wr_ptr \in Address
      /\ n \in 0 .. Size /\ n \in 0 .. Capacity /\ Capacity <= Size /\ wr_ptr = Plus(rd_ptr, n)
  BY SizeFacts DEF IInv, TypeOK, RingOK, Capacity
<1>1. TypeOK'
  BY ClockType
<1>2. /\ we_int(we) => n < Capacity /\ n \in 0 .. Size-1
      /\ rd_int(rd) => n \in 1 .. Size
      /\ we_int(we) /\ rd_int(rd) => wr_ptr # rd_ptr
  <2>1. /\ we_int(we) => n < Capacity
        /\ rd_int(rd) => n > 0
        /\ we_int(we) /\ rd_int(rd) => wr_ptr # rd_ptr
    BY Moves DEF Clock
  <2> QED BY <2>1, <1>0, SizeFacts DEF Capacity
<1>3. Stored = Words(mem, rd_ptr, n) /\ Stored \in Seq(Data) /\ Len(Stored) = n
  BY <1>0, StoredIsWords, WordsIsSeq
<1>4. Stored' = Words(mem', rd_ptr', n')
  <2>1. rd_ptr' \in Address /\ n' \in 0 .. Size
    BY <1>1 DEF TypeOK
  <2> QED BY <2>1, StoredIsWords
<1>5. /\ we_int(we) => mem' = [mem EXCEPT ![Plus(rd_ptr, n)] = d]
      /\ ~we_int(we) => mem' = mem
      /\ mem' \in Memory
  BY <1>0, RamFacts DEF Clock
<1>6. /\ rd_int(rd) => taken' = mem[rd_ptr]
      /\ ~rd_int(rd) => taken' = taken
  <2>1. ASSUME rd_int(rd), ShowAhead PROVE taken' = mem[rd_ptr]
    <3>1. ~empty_r /\ resets # 1
      BY <2>1, EmptyMeans DEF rd_int, Clock, ShowAhead
    <3> QED BY <3>1, <2>1 DEF Clock, IInv, OutputOK
  <2>2. ASSUME rd_int(rd), ~ShowAhead PROVE taken' = mem[rd_ptr]
    <3>1. rd_ptr_muxed(rd) = rd_ptr
      BY <2>2, MuxedIs
    <3>2. ~(we_int(we) /\ rd_ptr_muxed(rd) = wr_ptr)
      BY <3>1, <2>2, <1>2
    <3>3. q' = mem[rd_ptr]
      BY <3>1, <3>2, RamFacts DEF Clock
    <3> QED BY <3>3, <2>2 DEF Clock
  <2>3. ~rd_int(rd) => taken' = taken
    BY DEF Clock
  <2> QED BY <2>1, <2>2, <2>3
<1>7. CASE we_int(we) /\ ~rd_int(rd)
  <2>1. Stored' = Append(Stored, d)
    BY <1>7, <1>0, <1>2, <1>3, <1>4, <1>5, ClockNumbers, WordsPut
  <2>2. Abstract!Put(d)
    BY <2>1, <1>7, <1>0, <1>2, <1>3, <1>6, SizeFacts DEF Abstract!Put
  <2> QED BY <2>2 DEF Abstract!Next
<1>8. CASE ~we_int(we) /\ rd_int(rd)
  <2>1. Stored # <<>> /\ Head(Stored) = mem[rd_ptr] /\ Stored' = Tail(Stored)
    BY <1>8, <1>0, <1>2, <1>3, <1>4, <1>5, ClockNumbers, WordsGet
  <2>2. Abstract!Get
    BY <2>1, <1>8, <1>6 DEF Abstract!Get
  <2> QED BY <2>2 DEF Abstract!Next
<1>9. CASE we_int(we) /\ rd_int(rd)
  <2>1. Stored # <<>> /\ Head(Stored) = mem[rd_ptr]
    BY <1>9, <1>0, <1>2, <1>3, WordsGet
  <2>2. Words(mem', rd_ptr, n + 1) = Append(Stored, d)
    BY <1>9, <1>0, <1>2, <1>3, <1>5, WordsPut
  <2>3. Words(mem', Plus(rd_ptr, 1), n) = Tail(Append(Stored, d))
    <3> DEFINE k == n + 1
    <3>1. k \in 1 .. Size /\ k - 1 = n
      BY <1>9, <1>2, SizeFacts
    <3>2. Words(mem', Plus(rd_ptr, 1), k - 1) = Tail(Words(mem', rd_ptr, k))
      <4> HIDE DEF k
      <4> QED BY <1>0, <1>5, <3>1, WordsGet
    <3> QED BY <3>1, <3>2, <2>2
  <2>4. Stored' = Append(Tail(Stored), d)
    BY <1>9, <1>3, <1>4, <2>1, <2>3, ClockNumbers, TailOfAppend
  <2>5. Abstract!PutGet(d)
    BY <2>1, <2>4, <1>9, <1>0, <1>2, <1>3, <1>6, SizeFacts DEF Abstract!PutGet
  <2> QED BY <2>5 DEF Abstract!Next
<1>10. CASE ~we_int(we) /\ ~rd_int(rd)
  BY <1>10, <1>3, <1>4, <1>5, <1>6, ClockNumbers DEF Abstract!vars
<1> QED BY <1>7, <1>8, <1>9, <1>10

LEMMA ResetRefines ==
  ASSUME IInv, NEW we \in BOOLEAN, NEW rd \in BOOLEAN, NEW d \in Data, Reset(we, d, rd)
  PROVE  [Abstract!Next]_Abstract!vars
<1>1. Stored' = <<>>
  BY DEF Stored, Reset
<1>2. Abstract!Clear
  BY <1>1 DEF Abstract!Clear, Reset
<1> QED BY <1>2 DEF Abstract!Next

(* inferred_sync_fifo implements the abstract FIFO in every mode: whatever *)
(* tells full from empty, each word comes out once, in order and unaltered.*)
THEOREM SyncFifoIsFifo == Usable => (Spec => IsFifo)
<1> SUFFICES ASSUME Usable PROVE Spec => IsFifo
  OBVIOUS
<1>1. Init => Abstract!Init
  BY DEF Init, Stored, Abstract!Init
<1>2. IInv /\ [Next]_vars => [Abstract!Next]_Abstract!vars
  <2> SUFFICES ASSUME IInv, [Next]_vars PROVE [Abstract!Next]_Abstract!vars
    OBVIOUS
  <2>1. CASE UNCHANGED vars
    BY <2>1 DEF vars, ptrs, Stored, Abstract!vars
  <2> QED BY <2>1, ClockRefines, ResetRefines DEF Next
<1> QED BY <1>1, <1>2, IInvHolds, PTL DEF Spec, IsFifo, Abstract!Spec
=============================================================================
