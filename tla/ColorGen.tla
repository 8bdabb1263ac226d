------------------------------ MODULE ColorGen ------------------------------
(***************************************************************************)
(* The color generator (colorgen.cpp) as the highlighting code of the view  *)
(* uses it: get_colorvar() for each super group, get_color_anyway() for     *)
(* each of its node groups. A color is the <<hue, saturation, luminance>>   *)
(* handed to HSLtoRGB; the generator treats the RGB value 0 as "no color",  *)
(* which HSLtoRGB returns for no luminance above L_END. Arithmetic is       *)
(* unsigned: it wraps at W, and a negative step is W minus its size.        *)
(***************************************************************************)
EXTENDS Naturals

CONSTANTS
    W,                       \* 2^32 in the code
    H_START, H_END, H_INT,
    S_START, S_END, S_DOWN,  \* S_INT = -S_DOWN
    L_START, L_END, L_DOWN   \* L_INT = -L_DOWN

S_INT == W - S_DOWN
L_INT == W - L_DOWN

\* What the defaults of colorgen.h and DECL_CG (plugin.cpp) satisfy.
ASSUME RangeAssumption ==
    /\ {W, H_START, H_END, H_INT, S_START, S_END, S_DOWN, L_START, L_END, L_DOWN} \subseteq Nat
    /\ H_START <= H_END /\ H_END < 256 /\ 0 < H_INT /\ H_INT < 256
    /\ S_DOWN <= S_END /\ 0 < S_DOWN /\ S_END <= S_START /\ S_START < 256
    /\ L_DOWN <= L_END /\ 0 < L_DOWN /\ L_END < L_START /\ L_START < 256
    /\ 512 <= W

VARIABLES
    h, s,         \* colorgen_t
    cv,           \* colorvargen_t: [h, s, l]
    pc            \* "new": cv has no variant yet; "idle"; "draw": in the loop
                  \* of get_color_anyway
vars == <<h, s, cv, pc>>

Init ==
    /\ h = H_START /\ s = S_START
    /\ cv = [h |-> H_START, s |-> S_START, l |-> 0]     \* uninitialized, not read
    /\ pc = "new"

-----------------------------------------------------------------------------
\* "Nothing else to do": all hues of all saturations were given out.
Exhausted(h0, s0) == h0 > H_END /\ s0 < S_END

Mut_Advance(h0, s0) ==
    IF h0 > H_END THEN [h |-> H_START, s |-> (s0 + S_INT) % W, vh |-> h0, vs |-> (s0 + S_INT) % W]
    ELSE [h |-> h0 + H_INT, s |-> s0, vh |-> h0, vs |-> s0]

\* The generator's next hue and saturation, and the variant's. When the hues
\* are used up the saturation advances and the hue starts again; the new
\* start is handed out without advancing past it.
Advance(h0, s0) ==
    IF h0 > H_END THEN [h |-> H_START, s |-> (s0 + S_INT) % W, vh |-> H_START, vs |-> (s0 + S_INT) % W]
    ELSE [h |-> (h0 + H_INT) % W, s |-> s0, vh |-> h0, vs |-> s0]

\* The assignments of a successful get_colorvar() that starts at h0, s0.
TakeVariant(h0, s0) ==
    LET a == Advance(h0, s0) IN
    /\ h' = a.h /\ s' = a.s
    /\ cv' = [h |-> a.vh, s |-> a.vs, l |-> L_START]

\* highlight_nodes() asks for a variant for the next super group and does not
\* look at the result: on false cv stays what it was.
get_colorvar ==
    /\ pc \in {"new", "idle"} /\ pc' = "idle"
    /\ IF Exhausted(h, s) THEN UNCHANGED <<h, s, cv>> ELSE TakeVariant(h, s)

\* get_color_anyway(cv) is called for the next node group.
BeginDraw == pc = "idle" /\ pc' = "draw" /\ UNCHANGED <<h, s, cv>>

\* cv.get_color() has a luminance left: the color is <<cv.h, cv.s, cv.l>>.
DrawColor ==
    /\ pc = "draw" /\ cv.l > L_END
    /\ cv' = [cv EXCEPT !.l = (@ + L_INT) % W]
    /\ pc' = "idle"
    /\ UNCHANGED <<h, s>>

Mut_NewVariant ==
    /\ pc = "draw" /\ cv.l <= L_END
    /\ IF Exhausted(h, s) THEN UNCHANGED <<h, s, cv>> ELSE TakeVariant(h, s)
    /\ UNCHANGED pc

\* It has none: the next variant, after a rewind() when there is no other.
NewVariant ==
    /\ pc = "draw" /\ cv.l <= L_END
    /\ IF Exhausted(h, s) THEN TakeVariant(H_START, S_START) ELSE TakeVariant(h, s)
    /\ UNCHANGED pc

Next == get_colorvar \/ BeginDraw \/ DrawColor \/ NewVariant

\* The loop of get_color_anyway runs to its end.
Spec == Init /\ [][Next]_vars /\ WF_vars(DrawColor \/ NewVariant)

-----------------------------------------------------------------------------
(* Properties *)

\* No unsigned counter wraps: the generator stays within a step of its bounds,
\* and the variant within them. What HSLtoRGB divides by 255 is then a byte, and
\* no color it computes is 0.
InRange ==
    /\ h \in H_START .. (H_END + H_INT) /\ s \in (S_END - S_DOWN) .. S_START
    /\ cv.h \in H_START .. H_END /\ cv.s \in (S_END - S_DOWN) .. S_START
    /\ cv.l \in 0 .. L_START /\ (pc # "new" => cv.l > 0)

\* The endless loop of get_color_anyway() ends: a new variant, after a rewind
\* if need be, has a color.
DrawReturns == pc = "draw" ~> pc = "idle"
=============================================================================
