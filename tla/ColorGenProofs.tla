--------------------------- MODULE ColorGenProofs ---------------------------
(* The counters of the color generator never wrap, for every setting that   *)
(* satisfies RangeAssumption.                                               *)
EXTENDS ColorGen, Integers, TLAPS

\* A number below the modulus is its own remainder.
LEMMA ModSmall == ASSUME NEW a \in Nat, NEW b \in Nat, a < b PROVE a % b = a
  BY SMT

\* One modulus too many is taken off.
LEMMA ModWrap == ASSUME NEW a \in Nat, NEW b \in Nat, b <= a, a < b + b PROVE a % b = a - b
  BY SMT

\* InRange made inductive: the first variant is taken before any hue is used.
IInv ==
    /\ cv \in [h : Nat, s : Nat, l : Nat] /\ pc \in {"new", "idle", "draw"}
    /\ pc = "new" => h = H_START
    /\ InRange

HueOK(x) == x \in H_START .. (H_END + H_INT)
SatOK(x) == x \in (S_END - S_DOWN) .. S_START

\* A step down of d, added as W - d to an unsigned counter, subtracts d.
LEMMA StepDown ==
  ASSUME NEW a \in Nat, NEW d \in Nat, d <= a, a < W, d > 0, W \in Nat
  PROVE  (a + (W - d)) % W = a - d
<1>1. a + (W - d) \in Nat /\ W <= a + (W - d) /\ a + (W - d) < W + W
  OBVIOUS
<1>2. (a + (W - d)) % W = (a + (W - d)) - W
  BY <1>1, ModWrap
<1> QED
  BY <1>2

\* What get_colorvar() hands out and keeps is in range, unless it is exhausted.
LEMMA AdvanceOK ==
  ASSUME NEW h0, NEW s0, HueOK(h0), SatOK(s0), ~Exhausted(h0, s0)
  PROVE  LET a == Advance(h0, s0) IN
         /\ HueOK(a.h) /\ SatOK(a.s) /\ a.vh \in H_START .. H_END /\ SatOK(a.vs)
<1> USE DEF HueOK, SatOK
<1>0. /\ H_START \in Nat /\ H_END \in Nat /\ H_INT \in Nat /\ H_START <= H_END
      /\ S_START \in Nat /\ S_END \in Nat /\ S_DOWN \in Nat /\ 0 < S_DOWN /\ S_DOWN <= S_END
      /\ H_END + H_INT < 512 /\ S_START < 512 /\ S_END <= S_START /\ W \in Nat /\ 512 <= W
  BY RangeAssumption
<1>1. h0 \in Nat /\ s0 \in Nat /\ s0 < W
  BY <1>0
<1>2. CASE h0 > H_END
  <2>1. S_END <= s0 /\ S_DOWN <= s0
    BY <1>0, <1>1, <1>2 DEF Exhausted
  <2>2. (s0 + S_INT) % W = s0 - S_DOWN
    BY <1>0, <1>1, <2>1, StepDown DEF S_INT
  <2>3. Advance(h0, s0) = [h |-> H_START, s |-> s0 - S_DOWN, vh |-> H_START, vs |-> s0 - S_DOWN]
    BY <1>2, <2>2 DEF Advance
  <2> QED
    BY <1>0, <1>1, <2>1, <2>3
<1>3. CASE ~(h0 > H_END)
  <2>1. h0 + H_INT \in Nat /\ h0 + H_INT < W /\ h0 <= H_END
    BY <1>0, <1>1, <1>3
  <2>2. (h0 + H_INT) % W = h0 + H_INT
    BY <1>0, <2>1, ModSmall
  <2>3. Advance(h0, s0) = [h |-> h0 + H_INT, s |-> s0, vh |-> h0, vs |-> s0]
    BY <1>3, <2>2 DEF Advance
  <2> QED
    BY <1>0, <1>1, <2>1, <2>3
<1> QED
  BY <1>2, <1>3

\* The assignments of a successful get_colorvar() keep the invariant.
LEMMA TakeVariantOK ==
  ASSUME NEW h0, NEW s0, HueOK(h0), SatOK(s0), ~Exhausted(h0, s0), TakeVariant(h0, s0),
         pc' \in {"idle", "draw"}
  PROVE  IInv'
<1> DEFINE a == Advance(h0, s0)
<1>1. HueOK(a.h) /\ SatOK(a.s) /\ a.vh \in H_START .. H_END /\ SatOK(a.vs)
  BY AdvanceOK
<1>2. h' = a.h /\ s' = a.s /\ cv' = [h |-> a.vh, s |-> a.vs, l |-> L_START]
  BY DEF TakeVariant
<1> HIDE DEF a
<1>3. a.vh \in Nat /\ a.vs \in Nat /\ L_START \in Nat /\ L_START > 0
  BY <1>1, RangeAssumption DEF SatOK
<1>4. cv' \in [h : Nat, s : Nat, l : Nat]
  BY <1>2, <1>3
<1>5. InRange'
  BY <1>1, <1>2, <1>3, RangeAssumption DEF InRange, HueOK, SatOK
<1> QED
  BY <1>4, <1>5 DEF IInv

\* No counter of colorgen_t or colorvargen_t wraps around.
THEOREM NeverWraps == Spec => []InRange
<1>1. Init => IInv
  BY RangeAssumption DEF Init, IInv, InRange
<1>2. IInv /\ [Next]_vars => IInv'
  <2> SUFFICES ASSUME IInv, [Next]_vars PROVE IInv'
    OBVIOUS
  <2>0. HueOK(h) /\ SatOK(s) /\ HueOK(H_START) /\ SatOK(S_START) /\ ~Exhausted(H_START, S_START)
    BY RangeAssumption DEF IInv, InRange, HueOK, SatOK, Exhausted
  <2>1. CASE get_colorvar
    <3>1. CASE Exhausted(h, s)
      <4>1. pc # "new"
        BY <3>1, RangeAssumption DEF Exhausted, IInv
      <4> QED
        BY <2>1, <3>1, <4>1 DEF get_colorvar, IInv, InRange
    <3>2. CASE ~Exhausted(h, s)
      BY <2>0, <2>1, <3>2, TakeVariantOK DEF get_colorvar
    <3> QED
      BY <3>1, <3>2
  <2>2. CASE BeginDraw
    BY <2>2 DEF BeginDraw, IInv, InRange
  <2>3. CASE DrawColor
    <3>1. cv.l \in Nat /\ L_END < cv.l /\ cv.l <= L_START /\ W \in Nat
      BY <2>3, RangeAssumption DEF DrawColor, IInv, InRange
    <3>2. (cv.l + L_INT) % W = cv.l - L_DOWN
      BY <3>1, StepDown, RangeAssumption DEF L_INT
    <3>3. cv' = [cv EXCEPT !.l = cv.l - L_DOWN] /\ pc' = "idle" /\ h' = h /\ s' = s
      BY <2>3, <3>2 DEF DrawColor
    <3> QED
      BY <3>1, <3>3, RangeAssumption DEF IInv, InRange
  <2>4. CASE NewVariant
    <3>1. pc' \in {"idle", "draw"}
      BY <2>4 DEF NewVariant
    <3>2. CASE Exhausted(h, s)
      BY <2>0, <2>4, <3>1, <3>2, TakeVariantOK DEF NewVariant
    <3>3. CASE ~Exhausted(h, s)
      BY <2>0, <2>4, <3>1, <3>3, TakeVariantOK DEF NewVariant
    <3> QED
      BY <3>2, <3>3
  <2>5. CASE UNCHANGED vars
    BY <2>5 DEF vars, IInv, InRange
  <2> QED
    BY <2>1, <2>2, <2>3, <2>4, <2>5 DEF Next
<1>3. IInv => InRange
  BY DEF IInv
<1> QED
  BY <1>1, <1>2, <1>3, PTL DEF Spec
=============================================================================
