------------------------------ MODULE GrayCode ------------------------------
(***************************************************************************)
(* The Gray code functions of gencores_pkg, on which every counter that    *)
(* crosses a clock domain relies.  A word of w bits is the set of the      *)
(* positions of its '1' bits; numbers are unsigned.                        *)
(***************************************************************************)
EXTENDS Naturals

(* The bits of the unsigned number x in a vector of w bits. *)
Bits(x, w) == {i \in 0 .. w-1 : (x \div 2^i) % 2 = 1}

(* The number a vector of w bits stands for: to_integer(unsigned(...)). *)
ToInteger(word, w) == CHOOSE x \in 0 .. 2^w - 1 : Bits(x, w) = word

XorWord(a, b) == (a \ b) \union (b \ a)

ShiftRight(word, n) == {i - n : i \in {j \in word : j >= n}}

(* x xor (x >> 1), the top bit standing for itself. *)
Mut_f_gray_encode(x, w) == Bits(x, w)
f_gray_encode(x, w) == XorWord(Bits(x, w), ShiftRight(Bits(x, w), 1))

(* The code folds the word onto itself with doubling shifts until the      *)
(* shift leaves the word; it is called with step = 1.                      *)
Mut_f_gray_decode(word, w) == ToInteger(XorWord(word, ShiftRight(word, 1)), w)
f_gray_decode(word, w) ==
  LET fold[step \in 1 .. 2*w, y \in SUBSET (0 .. w-1)] ==
        IF step >= w THEN y
        ELSE fold[2*step, XorWord(y, ShiftRight(y, step))]
  IN ToInteger(fold[1, word], w)

(* What w flip-flops may hold after sampling a register that goes from     *)
(* word a to word b at the same instant: every bit that changes settles    *)
(* independently on its old or its new value (gc_sync_register, which      *)
(* "doesn't ensure coherency").                                            *)
Sampled(a, b) == {(a \intersect b) \union s : s \in SUBSET XorWord(a, b)}

-----------------------------------------------------------------------------
(* What the crossing needs of the code for a modulus m = 2^w counter:      *)
(* decoding inverts encoding, and a word sampled while the counter steps   *)
(* is the old or the new count, also at the wrap from m-1 to 0.            *)
GrayLaw(w) ==
  \A x \in 0 .. 2^w - 1 :
    LET next == IF x + 1 = 2^w THEN 0 ELSE x + 1
    IN /\ f_gray_decode(f_gray_encode(x, w), w) = x
       /\ Sampled(f_gray_encode(x, w), f_gray_encode(next, w))
            = {f_gray_encode(x, w), f_gray_encode(next, w)}
=============================================================================
