------------------------------ MODULE SyncFifo ------------------------------
(***************************************************************************)
(* inferred_sync_fifo: one clock, two pointers of just the address bits,   *)
(* and four modes, chosen by generics, of telling a full ring from an      *)
(* empty one:                                                              *)
(*   registered    g_register_flag_outputs, from the word counter usedw    *)
(*   comb          the pointers and guard_bit                              *)
(*   ahead         g_show_ahead, the same with a registered empty flag     *)
(*   legacy_ahead  g_show_ahead_legacy_mode, full one word early           *)
(*                                                                         *)
(* One step is one clock.  A reset lasts two clocks or more; the empty     *)
(* flag of legacy_ahead has no reset and needs the second one.             *)
(***************************************************************************)
EXTENDS Integers, Sequences

CONSTANTS Size,   \* g_size
          Modes, Data,
          AlmostEmpty, AlmostFull   \* the thresholds

ASSUME SyncFifoAssumption ==
  /\ Size \in Nat /\ Size >= 2 /\ \E i \in 1 .. 16 : Size = 2^i
  /\ Modes \subseteq {"registered", "comb", "ahead", "legacy_ahead"}
  /\ AlmostEmpty \in 0 .. Size-2 /\ AlmostFull \in 1 .. Size-1

VARIABLES
  mode,                \* never changes
  mem, wr_ptr, rd_ptr, usedw, guard_bit,
  full_r, empty_r,     \* the registers behind full and empty, where there are
  almost_full, almost_empty,
  q,                   \* q_comb, the RAM's output register
  resets,              \* clocks in reset: 0, 1, or 2 for more
  n,                   \* words stored: writes let through less reads let through
  taken,               \* the word the reader got when it last asked for one
  held                 \* whether it asked since the reset

ptrs == <<wr_ptr, rd_ptr>>
flags == <<guard_bit, full_r, empty_r, almost_full, almost_empty>>
vars == <<mode, mem, ptrs, usedw, flags, q, resets, n, taken, held>>

ShowAhead == mode \in {"ahead", "legacy_ahead"}

Init == /\ mode \in Modes
        /\ mem \in [0 .. Size-1 -> Data] /\ q \in Data /\ taken = q
        /\ wr_ptr = 0 /\ rd_ptr = 0 /\ usedw = 0 /\ guard_bit = FALSE
        /\ full_r = FALSE /\ empty_r = TRUE
        /\ almost_full = FALSE /\ almost_empty = TRUE
        /\ resets = 2 /\ n = 0 /\ held = FALSE

-----------------------------------------------------------------------------
Inc(p) == (p + 1) % Size

Mut_full == IF mode = "registered" THEN full_r ELSE wr_ptr = rd_ptr /\ guard_bit
full == CASE mode = "registered"   -> full_r
          [] mode = "legacy_ahead" -> Inc(wr_ptr) = rd_ptr
          [] OTHER                 -> wr_ptr = rd_ptr /\ guard_bit
empty == IF mode = "comb" THEN wr_ptr = rd_ptr /\ ~guard_bit ELSE empty_r

we_int(we) == we /\ ~full
rd_int(rd) == rd /\ ~empty

Mut_rd_ptr_muxed(rd) == rd_ptr
rd_ptr_muxed(rd) == CASE rd_int(rd) /\ ShowAhead  -> Inc(rd_ptr)
                      [] rd_int(rd) /\ ~ShowAhead -> rd_ptr
                      [] ~rd_int(rd) /\ ShowAhead -> rd_ptr
                      [] OTHER                    -> (rd_ptr + Size - 1) % Size

(* g_addr_conflict_resolution is "dont_care". *)
RamOutput(we, rd) == IF we_int(we) /\ rd_ptr_muxed(rd) = wr_ptr
                     THEN Data ELSE {mem[rd_ptr_muxed(rd)]}

Ram(we, d, rd) == /\ mem' = IF we_int(we) THEN [mem EXCEPT ![wr_ptr] = d] ELSE mem
                  /\ q' \in RamOutput(we, rd)

Mut_NextGuard(we, rd) ==
  (Inc(wr_ptr) = rd_ptr /\ we_int(we)) \/ (guard_bit /\ ~(rd /\ we))
NextGuard(we, rd) == (Inc(wr_ptr) = rd_ptr /\ we_int(we)) \/ (guard_bit /\ ~rd)

Mut_NextEmpty(we, rd) ==
  CASE mode = "registered" -> IF usedw = 1 /\ rd_int(rd) THEN TRUE
                              ELSE IF we_int(we) /\ ~rd_int(rd) THEN FALSE ELSE empty_r
    [] OTHER               -> wr_ptr = rd_ptr /\ ~guard_bit
NextEmpty(we, rd) ==
  CASE mode = "registered" ->
         IF usedw = 1 /\ rd_int(rd) /\ ~we_int(we) THEN TRUE
         ELSE IF we_int(we) /\ ~rd_int(rd) THEN FALSE ELSE empty_r
    [] mode = "legacy_ahead" -> (Inc(rd_ptr) = wr_ptr /\ rd_int(rd)) \/ rd_ptr = wr_ptr
    [] mode = "ahead" -> wr_ptr = rd_ptr_muxed(rd) /\ ~guard_bit
    [] OTHER -> empty_r

Mut_NextFull(we, rd) ==
  IF usedw = Size-1 /\ we_int(we) /\ ~rd_int(rd) THEN TRUE
  ELSE IF usedw = Size-1 /\ rd_int(rd) /\ ~we_int(we) THEN FALSE ELSE full_r
NextFull(we, rd) ==
  IF usedw = Size-2 /\ we_int(we) /\ ~rd_int(rd) THEN TRUE
  ELSE IF usedw = Size-1 /\ rd_int(rd) /\ ~we_int(we) THEN FALSE ELSE full_r

(* usedw has a bit more than a pointer. *)
NextUsedw(we, rd) == CASE we_int(we) /\ ~rd_int(rd) -> (usedw + 1) % (2*Size)
                       [] ~we_int(we) /\ rd_int(rd) -> (usedw + 2*Size - 1) % (2*Size)
                       [] OTHER -> usedw

(* The almost flags are set and cleared as usedw goes past a threshold.    *)
Mut_NextAlmostFull(we, rd) ==
  IF usedw = AlmostFull-1 /\ we_int(we) THEN TRUE
  ELSE IF usedw = AlmostFull /\ rd_int(rd) THEN FALSE ELSE almost_full
NextAlmostFull(we, rd) ==
  IF usedw = AlmostFull-1 /\ we_int(we) /\ ~rd_int(rd) THEN TRUE
  ELSE IF usedw = AlmostFull /\ rd_int(rd) /\ ~we_int(we) THEN FALSE ELSE almost_full
NextAlmostEmpty(we, rd) ==
  IF usedw = AlmostEmpty+1 /\ rd_int(rd) /\ ~we_int(we) THEN TRUE
  ELSE IF usedw = AlmostEmpty /\ we_int(we) /\ ~rd_int(rd) THEN FALSE ELSE almost_empty

Clock(we, d, rd) ==
  /\ resets # 1 /\ resets' = 0 /\ UNCHANGED mode
  /\ Ram(we, d, rd)
  /\ wr_ptr' = IF we_int(we) THEN Inc(wr_ptr) ELSE wr_ptr
  /\ rd_ptr' = IF rd_int(rd) THEN Inc(rd_ptr) ELSE rd_ptr
  /\ guard_bit' = NextGuard(we, rd)
  /\ empty_r' = NextEmpty(we, rd) /\ full_r' = NextFull(we, rd)
  /\ usedw' = NextUsedw(we, rd)
  /\ almost_full' = NextAlmostFull(we, rd) /\ almost_empty' = NextAlmostEmpty(we, rd)
  /\ n' = n + (IF we_int(we) THEN 1 ELSE 0) - (IF rd_int(rd) THEN 1 ELSE 0)
  /\ taken' = IF rd_int(rd) THEN (IF ShowAhead THEN q ELSE q') ELSE taken
  /\ held' = (held \/ rd_int(rd))

Reset(we, d, rd) ==
  /\ resets' = (IF resets = 0 THEN 1 ELSE 2) /\ UNCHANGED mode
  /\ Ram(we, d, rd)
  /\ wr_ptr' = 0 /\ rd_ptr' = 0 /\ usedw' = 0 /\ guard_bit' = FALSE
  /\ full_r' = FALSE
  /\ empty_r' = IF mode = "legacy_ahead" THEN NextEmpty(we, rd) ELSE TRUE
  /\ almost_full' = FALSE /\ almost_empty' = TRUE
  /\ n' = 0 /\ held' = FALSE /\ UNCHANGED taken

Next == \E we, rd \in BOOLEAN, d \in Data : Clock(we, d, rd) \/ Reset(we, d, rd)

Spec == Init /\ [][Next]_vars

-----------------------------------------------------------------------------
(* In legacy mode, and with registered flags as well, one word is lost.    *)
Capacity == IF mode \in {"comb", "ahead"} THEN Size ELSE Size - 1

Running == resets = 0

(* The words come out once each, in order and unaltered, whichever way     *)
(* full and empty are told apart.                                          *)
Stored == [i \in 1 .. n |-> mem[(rd_ptr + i - 1) % Size]]
Abstract == INSTANCE Fifo WITH Capacity <- Size, queue <- Stored, taken <- taken
IsFifo == Abstract!Spec

(* "In this mode, the full flag is asserted at g_SIZE-1", in the others at *)
(* g_SIZE, and at no other time.                                           *)
FullMeansFull == Running => (full <=> n = Capacity)

(* The other flags never lose touch with the count, although some are set  *)
(* and cleared one by one as words come and go: empty may be late to fall, *)
(* in the show-ahead modes, but never to rise.                             *)
FlagsAgree ==
  Running => /\ ~empty => n > 0
             /\ ~ShowAhead /\ empty => n = 0
             /\ usedw = n
             /\ almost_full <=> usedw >= AlmostFull
             /\ almost_empty <=> usedw <= AlmostEmpty

(* With show-ahead, q_o is the oldest word whenever empty_o is low.  With  *)
(* registered flags it keeps the word last read: the slot it is read from  *)
(* again at every clock is the next to be written, but not before the      *)
(* reader has moved on.                                                    *)
WordOnOutput ==
  Running => /\ ShowAhead /\ ~empty => q = Stored[1]
             /\ held /\ mode = "registered" => q = taken
=============================================================================
