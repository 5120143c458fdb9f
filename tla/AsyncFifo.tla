----------------------------- MODULE AsyncFifo ------------------------------
(***************************************************************************)
(* inferred_async_fifo: a ring of words between a write clock and a read   *)
(* clock that know nothing of each other.  Each side keeps a binary        *)
(* pointer with one bit more than an address and sees the other side's     *)
(* pointer as a Gray word that went through two flip-flops.                *)
(*                                                                         *)
(* The edges of the two clocks come in any order and may coincide; when    *)
(* they do, a flip-flop that samples the other side's pointer settles on   *)
(* any mixture of old and new bits, and a RAM word read at the instant it  *)
(* is written reads as anything.                                           *)
(***************************************************************************)
EXTENDS GrayCode, Sequences

CONSTANTS Size,         \* g_size
          Data,         \* the words of g_data_width bits
          ZeroWord,     \* what mem and q_int hold at power-up
          ShowAhead     \* g_show_ahead

f_log2_ceil[N \in Nat] == IF N <= 2 THEN 1 ELSE 1 + f_log2_ceil[(N + 1) \div 2]

c_counter_bits == f_log2_ceil[Size] + 1

ASSUME SizeAssumption == /\ Size \in Nat /\ Size >= 2
                         /\ 2^f_log2_ceil[Size] = Size
                         /\ c_counter_bits \in Nat /\ 2^c_counter_bits = 2*Size
ASSUME GrayAssumption == GrayLaw(c_counter_bits)
ASSUME DataAssumption == ZeroWord \in Data /\ ShowAhead \in BOOLEAN

(* The values of t_counter, their increment and difference modulo 2 * Size *)
(* and the address bits.                                                   *)
Pointer == 0 .. 2*Size - 1
Inc(b) == IF b + 1 = 2*Size THEN 0 ELSE b + 1
Dist(a, b) == IF a >= b THEN a - b ELSE a + 2*Size - b
Addr(b) == IF b >= Size THEN b - Size ELSE b

(* The Gray words of the pointers, and back. *)
Mut_Gray == [b \in Pointer |-> Bits(b, c_counter_bits)]
Gray == [b \in Pointer |-> f_gray_encode(b, c_counter_bits)]
Bin == [w \in SUBSET (0 .. c_counter_bits-1) |-> f_gray_decode(w, c_counter_bits)]

VARIABLES
  rst_n,    \* rst_n_i, the asynchronous reset both sides share
  mem,
  wbin,     \* wcb.bin; wcb.gray is always its Gray word
  full,     \* full_int
  rx0, rx1, \* U_Sync1: rcb.gray on its way to rcb.gray_x
  rbin,     \* rcb.bin
  empty,    \* empty_int
  wx0, wx1, \* U_Sync2: wcb.gray on its way to wcb.gray_x
  q,        \* q_int
  taken     \* the word the reader got when it last asked for one

wrVars == <<mem, wbin, full, rx0, rx1>>
rdVars == <<rbin, empty, wx0, wx1, q, taken>>
vars == <<rst_n, wrVars, rdVars>>

Init == /\ rst_n = FALSE
        /\ mem = [a \in 0 .. Size-1 |-> ZeroWord]
        /\ wbin = 0 /\ rbin = 0
        /\ full = FALSE /\ empty = TRUE
        /\ rx0 = Gray[0] /\ rx1 = Gray[0] /\ wx0 = Gray[0] /\ wx1 = Gray[0]
        /\ q = ZeroWord /\ taken = ZeroWord

-----------------------------------------------------------------------------
(* Protect against overflow and underflow. *)
we_int(we) == we /\ ~full
Mut_rd_int(rd) == rd
rd_int(rd) == rd /\ ~empty

(* The other pointer, less its top bit, is the address and the top bits    *)
(* differ: a whole turn of the ring apart.                                 *)
TurnAhead(w, r) == Addr(w) = Addr(r) /\ w # r

going_full(we) == \/ TurnAhead(wbin, Bin[rx1])
                  \/ we_int(we) /\ TurnAhead(Inc(wbin), Bin[rx1])

Mut_going_empty_sticky(rd) == wx1 \in {Gray[rbin], Gray[Inc(rbin)]}
Mut_going_empty(rd) == Gray[rbin] = wx1
going_empty(rd) == \/ Gray[rbin] = wx1
                   \/ rd_int(rd) /\ wx1 = Gray[Inc(rbin)]

(* A rising edge of clk_wr_i with we_i = we and d_i = d.  The RAM is not   *)
(* reset: a write with the reset asserted goes to address 0.               *)
WriteSide(we, d) ==
  /\ mem' = IF we_int(we) THEN [mem EXCEPT ![Addr(wbin)] = d] ELSE mem
  /\ IF rst_n THEN /\ wbin' = IF we_int(we) THEN Inc(wbin) ELSE wbin
                   /\ full' = going_full(we)
                   /\ rx1' = rx0
              ELSE UNCHANGED <<wbin, full, rx1>>

(* The address the RAM is read at, show-ahead or not, and whether it is. *)
Mut_ReadAddr(rd) == Addr(rbin)
ReadAddr(rd) == IF rd_int(rd) /\ ShowAhead THEN Addr(Inc(rbin)) ELSE Addr(rbin)
Reads(rd) == rd_int(rd) \/ ShowAhead

(* A rising edge of clk_rd_i with rd_i = rd, the RAM's output word being   *)
(* given.  With show-ahead the reader takes what is on q_o at the edge,    *)
(* otherwise what q_o holds after it.                                      *)
ReadSide(rd, word) ==
  /\ q' = IF Reads(rd) THEN word ELSE q
  /\ taken' = IF rd_int(rd) THEN (IF ShowAhead THEN q ELSE word) ELSE taken
  /\ IF rst_n THEN /\ rbin' = IF rd_int(rd) THEN Inc(rbin) ELSE rbin
                   /\ empty' = going_empty(rd)
                   /\ wx1' = wx0
              ELSE UNCHANGED <<rbin, empty, wx1>>

WrEdge(we, d) == /\ WriteSide(we, d)
                 /\ rx0' = IF rst_n THEN Gray[rbin] ELSE rx0
                 /\ UNCHANGED <<rst_n, rdVars>>

RdEdge(rd) == /\ ReadSide(rd, mem[ReadAddr(rd)])
              /\ wx0' = IF rst_n THEN Gray[wbin] ELSE wx0
              /\ UNCHANGED <<rst_n, wrVars>>

(* What the RAM delivers while a write is going on at another port. *)
ReadDuringWrite(we, rd) ==
  IF we_int(we) /\ Addr(wbin) = ReadAddr(rd) THEN Data ELSE {mem[ReadAddr(rd)]}

BothEdges(we, d, rd) ==
  /\ WriteSide(we, d)
  /\ \E word \in ReadDuringWrite(we, rd) : ReadSide(rd, word)
  /\ IF rst_n THEN /\ rx0' \in Sampled(Gray[rbin], Gray[rbin'])
                   /\ wx0' \in Sampled(Gray[wbin], Gray[wbin'])
              ELSE UNCHANGED <<rx0, wx0>>
  /\ UNCHANGED rst_n

(* The asynchronous reset clears the registers that have one. *)
AssertReset == /\ rst_n' = FALSE
               /\ wbin' = 0 /\ rbin' = 0
               /\ full' = FALSE /\ empty' = TRUE
               /\ rx0' = Gray[0] /\ rx1' = Gray[0]
               /\ wx0' = Gray[0] /\ wx1' = Gray[0]
               /\ UNCHANGED <<mem, q, taken>>

ReleaseReset == ~rst_n /\ rst_n' = TRUE /\ UNCHANGED <<wrVars, rdVars>>

WrTick == \E we \in BOOLEAN, d \in Data : WrEdge(we, d)
RdTick == \E rd \in BOOLEAN : RdEdge(rd)
BothTick == \E we, rd \in BOOLEAN, d \in Data : BothEdges(we, d, rd)

Next == WrTick \/ RdTick \/ BothTick \/ AssertReset \/ ReleaseReset

Spec == Init /\ [][Next]_vars

-----------------------------------------------------------------------------
(* The words between the two pointers, oldest first. *)
Plus(b, k) == IF b + k >= 2*Size THEN b + k - 2*Size ELSE b + k
Stored == [i \in 1 .. Dist(wbin, rbin) |-> mem[Addr(Plus(rbin, i - 1))]]

TypeOK ==
  /\ rst_n \in BOOLEAN
  /\ mem \in [0 .. Size-1 -> Data]
  /\ wbin \in Pointer /\ rbin \in Pointer
  /\ full \in BOOLEAN /\ empty \in BOOLEAN
  /\ {rx0, rx1, wx0, wx1} \subseteq {Gray[b] : b \in Pointer}
  /\ q \in Data /\ taken \in Data

(* Around the ring the pointers and their delayed copies keep their order: *)
(* what the writer knows of the reader is behind the reader, the reader is *)
(* behind what it knows of the writer, that is behind the writer, and all  *)
(* of them lie within one turn.  Hence the ring is never written past the  *)
(* oldest word nor read past the newest.                                   *)
PointersInOrder ==
  /\ Dist(wbin, Bin[rx1]) <= Size
  /\ Dist(wbin, Bin[wx0]) + Dist(Bin[wx0], Bin[wx1]) + Dist(Bin[wx1], rbin)
       + Dist(rbin, Bin[rx0]) + Dist(Bin[rx0], Bin[rx1]) = Dist(wbin, Bin[rx1])

(* full_int and empty_int are late but err on the safe side: a write that  *)
(* is let through finds a free slot, a read that is let through a word     *)
(* whose write the reader has seen.                                        *)
FlagsAreConservative ==
  /\ ~full => Dist(wbin, Bin[rx1]) < Size
  /\ ~empty => Dist(Bin[wx1], rbin) >= 1

(* While the reset is asserted nothing is stored and both users may go on. *)
ResetHolds == ~rst_n => wbin = 0 /\ rbin = 0 /\ ~full /\ empty

(* With show-ahead, q_o is the oldest stored word whenever the FIFO says   *)
(* it is not empty, although the RAM may have been read while that very    *)
(* word was being written.                                                 *)
HeadOnDisplay == ShowAhead /\ ~empty => q = mem[Addr(rbin)]

(* The whole is a FIFO of Size words: whatever the order of the edges, the *)
(* words come out once each, in order and unaltered.                       *)
Abstract == INSTANCE Fifo WITH Capacity <- Size, queue <- Stored, taken <- taken
IsFifo == Abstract!Spec
=============================================================================
