----------------------------- MODULE PulseSync ------------------------------
(***************************************************************************)
(* gc_pulse_synchronizer2: a pulse crosses from clk_in_i to clk_out_i as a *)
(* level, in_ext, that is cleared when it has come back.                   *)
(*                                                                         *)
(* Resets come in rounds: both domains are reset, with an edge of clk_in_i *)
(* while both are, and released in either order.                           *)
(***************************************************************************)
EXTENDS Naturals

CONSTANT MaxPulses   \* bounds the pulses of a behaviour

ASSUME MaxPulsesAssumption == MaxPulses \in Nat \ {0}

VARIABLES
  rst_in_n, rst_out_n,
  ready, d_ack, d_ack_d0, d_p_d0, in_ext,
  fb0, fb1,             \* cmp_out2in_sync; fb1 is out_feedback
  ext0, ext1,           \* cmp_in2out_sync; ext1 is out_ext
  dff,                  \* cmp_pulse_out
  dirty,                \* a round of resets has begun and has not had its edge
  sent, got, acked      \* pulses taken from d_p_i, given at q_p_o, at d_ack_p_o

inRegs == <<ready, d_ack, d_ack_d0, d_p_d0, in_ext>>
outRegs == <<ext0, ext1, dff>>
counts == <<sent, got, acked>>
psVars == <<rst_in_n, rst_out_n, inRegs, fb0, fb1, outRegs, dirty, counts>>

(* Power-up, in reset. *)
Init == /\ rst_in_n = FALSE /\ rst_out_n = FALSE
        /\ ready = TRUE /\ d_ack = TRUE /\ d_ack_d0 = FALSE /\ d_p_d0 = FALSE
        /\ in_ext = FALSE /\ fb0 = FALSE /\ fb1 = FALSE
        /\ ext0 = FALSE /\ ext1 = FALSE /\ dff = FALSE
        /\ dirty = TRUE /\ sent = 0 /\ got = 0 /\ acked = 0

-----------------------------------------------------------------------------
q_p_o == ext1 /\ ~dff
d_ack_p_o == d_ack /\ ~d_ack_d0
d_ready_o == ready

Detected(d_p) == ready /\ d_p /\ ~d_p_d0

(* An edge of clk_in_i with d_p_i = d_p; p_input_ack. *)
Mut_Handshake(d_p) ==
  \/ /\ Detected(d_p)
     /\ in_ext' = TRUE /\ d_ack' = FALSE /\ ready' = FALSE
  \/ /\ ~Detected(d_p) /\ in_ext /\ fb1
     /\ in_ext' = FALSE /\ d_ack' = TRUE /\ ready' = TRUE
  \/ /\ ~Detected(d_p) /\ ~(in_ext /\ fb1)
     /\ UNCHANGED <<in_ext, d_ack, ready>>
Mut_HandshakeStuck(d_p) ==
  \/ /\ Detected(d_p)
     /\ in_ext' = TRUE /\ d_ack' = FALSE /\ ready' = FALSE
  \/ /\ ~Detected(d_p) /\ in_ext /\ fb1
     /\ d_ack' = TRUE /\ UNCHANGED <<in_ext, ready>>
  \/ /\ ~Detected(d_p) /\ ~(in_ext /\ fb1)
     /\ UNCHANGED <<in_ext, d_ack, ready>>
Handshake(d_p) ==
  \/ /\ Detected(d_p)
     /\ in_ext' = TRUE /\ d_ack' = FALSE /\ ready' = FALSE
  \/ /\ ~Detected(d_p) /\ in_ext /\ fb1
     /\ in_ext' = FALSE /\ UNCHANGED <<d_ack, ready>>
  \/ /\ ~Detected(d_p) /\ ~in_ext /\ ~fb1
     /\ d_ack' = TRUE /\ ready' = TRUE /\ UNCHANGED in_ext
  \/ /\ ~Detected(d_p) /\ in_ext # fb1
     /\ UNCHANGED <<in_ext, d_ack, ready>>

InSide(d_p, sampled) ==
  /\ Detected(d_p) => sent < MaxPulses
  /\ IF rst_in_n
     THEN /\ Handshake(d_p)
          /\ d_p_d0' = d_p /\ d_ack_d0' = d_ack
          /\ fb0' = sampled /\ fb1' = fb0
          /\ sent' = IF Detected(d_p) THEN sent + 1 ELSE sent
          /\ acked' = IF d_ack_p_o THEN acked + 1 ELSE acked
     ELSE /\ d_p_d0' = FALSE /\ d_ack' = FALSE /\ d_ack_d0' = FALSE
          /\ ready' = TRUE /\ in_ext' = FALSE
          /\ UNCHANGED <<fb0, fb1>>
          /\ sent' = 0 /\ acked' = 0

OutSide(sampled) ==
  IF rst_out_n
  THEN /\ ext0' = sampled /\ ext1' = ext0 /\ dff' = ext1
       /\ got' = IF q_p_o THEN got + 1 ELSE got
  ELSE UNCHANGED <<outRegs, got>>

(* A flip-flop that samples a bit at the instant it changes.               *)
Metastable(old, new) == {old, new}

InEdge(d_p) ==
  /\ InSide(d_p, ext1)
  /\ dirty' = (dirty /\ (rst_in_n \/ rst_out_n))
  /\ UNCHANGED <<rst_in_n, rst_out_n, outRegs, got>>

OutEdge == /\ OutSide(in_ext)
           /\ UNCHANGED <<rst_in_n, rst_out_n, inRegs, fb0, fb1, dirty, sent, acked>>

BothEdges(d_p) ==
  /\ \E s \in Metastable(ext1, rst_out_n /\ ext0) : InSide(d_p, s)
  /\ \E s \in Metastable(in_ext, in_ext') : OutSide(s)
  /\ dirty' = (dirty /\ (rst_in_n \/ rst_out_n))
  /\ UNCHANGED <<rst_in_n, rst_out_n>>

(* The synchronisers and the edge detector clear at once, the rest with    *)
(* the clock.                                                              *)
AssertIn == /\ rst_in_n' = FALSE /\ fb0' = FALSE /\ fb1' = FALSE
AssertOut == /\ rst_out_n' = FALSE /\ ext0' = FALSE /\ ext1' = FALSE /\ dff' = FALSE

Assert ==
  /\ (rst_in_n /\ rst_out_n) \/ (dirty /\ rst_in_n # rst_out_n)
  /\ \/ AssertIn /\ AssertOut
     \/ rst_in_n /\ AssertIn /\ UNCHANGED <<rst_out_n, outRegs>>
     \/ rst_out_n /\ AssertOut /\ UNCHANGED <<rst_in_n, fb0, fb1>>
  /\ dirty' = TRUE /\ got' = 0 /\ UNCHANGED <<inRegs, sent, acked>>

Release ==
  /\ ~dirty
  /\ \/ ~rst_in_n /\ rst_in_n' = TRUE /\ UNCHANGED rst_out_n
     \/ ~rst_out_n /\ rst_out_n' = TRUE /\ UNCHANGED rst_in_n
  /\ UNCHANGED <<inRegs, fb0, fb1, outRegs, dirty, counts>>

Next == \/ \E d_p \in BOOLEAN : InEdge(d_p) \/ BothEdges(d_p)
        \/ OutEdge
        \/ Assert \/ Release

Spec == Init /\ [][Next]_psVars

-----------------------------------------------------------------------------
(* However the edges fall and in whatever order the resets are released,   *)
(* "when HI, a pulse coming to d_p_i will be correctly transferred": each  *)
(* pulse taken comes out once, and d_ready_o is high, and the acknowledge  *)
(* given, only when it has.                                                *)
OnePulsePerRequest ==
  ~dirty => /\ got <= sent /\ sent <= got + 1
            /\ d_ready_o => got = sent
            /\ rst_in_n => /\ d_ack_p_o => got = sent
                           /\ acked <= sent + 1
=============================================================================
