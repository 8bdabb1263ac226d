------------------------- MODULE BBGroupFileProofs -------------------------
(***************************************************************************)
(* What the bbgroup file keeps of a manager of any size, that what was      *)
(* saved is accepted again, and that a save which is cut off anywhere       *)
(* leaves a file that loads as a sound manager.                             *)
(***************************************************************************)
EXTENDS BBGroupFile, FiniteSetTheorems, SequenceTheorems, WellFoundedInduction, TLAPS

-----------------------------------------------------------------------------
(* Induction over a sequence, and FlattenSeq *)

\* A set that has the empty sequence, and with a sequence every longer one, has
\* all sequences: the shortest one it had not would be longer than one it has.
LEMMA SeqInduction ==
  ASSUME NEW T, NEW S, <<>> \in S, \A s \in Seq(T), x \in T : s \in S => Append(s, x) \in S
  PROVE  Seq(T) \subseteq S
<1> SUFFICES ASSUME NEW t \in Seq(T), t \notin S PROVE FALSE
  OBVIOUS
<1> DEFINE Bad == {n \in Nat : \E s \in Seq(T) : Len(s) = n /\ s \notin S}
<1>1. Len(t) \in Bad
  OBVIOUS
<1>2. PICK n \in Bad : \A m \in Bad : ~(<<m, n>> \in OpToRel(<, Nat))
  BY <1>1, NatLessThanWellFounded, WFMin
<1>3. \A m \in Bad : ~(m < n)
  BY <1>2 DEF OpToRel
<1>4. PICK s \in Seq(T) : Len(s) = n /\ s \notin S
  BY <1>2
<1>5. n \in Nat /\ n # 0
  <2>1. n = 0 => s = <<>>
    BY <1>4
  <2> QED BY <1>4, <2>1
<1> DEFINE f == SubSeq(s, 1, n - 1)
<1>6. f \in Seq(T) /\ Len(f) = n - 1 /\ s[n] \in T /\ s = Append(f, s[n])
  BY <1>4, <1>5
<1>7. f \notin S
  BY <1>4, <1>6
<1>8. n - 1 \in Bad /\ n - 1 < n
  <2>1. n - 1 \in Nat /\ n - 1 < n
    BY <1>5
  <2>2. \E u \in Seq(T) : Len(u) = n - 1 /\ u \notin S
    BY <1>6, <1>7
  <2> QED BY <2>1, <2>2
<1> QED BY <1>3, <1>8

\* The equation by which FlattenSeq adds up the sequences of ss.
Adds(ss, f) == f = [i \in 1 .. Len(ss) |-> IF i = 1 THEN ss[i] ELSE f[i - 1] \o ss[i]]

LEMMA FlattenDef ==
  ASSUME NEW ss, Len(ss) # 0
  PROVE  FlattenSeq(ss) = (CHOOSE f : Adds(ss, f))[Len(ss)]
BY DEF FlattenSeq, Adds

\* One function satisfies it: that of one sequence less, and one value more.
LEMMA AddsOne ==
  ASSUME NEW T
  PROVE  \A ss \in Seq(Seq(T)) :
            \E f \in [1 .. Len(ss) -> Seq(T)] : Adds(ss, f) /\ \A g : Adds(ss, g) => g = f
<1> DEFINE S == {ss \in Seq(Seq(T)) :
                   \E f \in [1 .. Len(ss) -> Seq(T)] : Adds(ss, f) /\ \A g : Adds(ss, g) => g = f}
<1>1. <<>> \in S
  <2> DEFINE f == [i \in 1 .. 0 |-> <<>>]
  <2>1. Len(<<>>) = 0 /\ f \in [1 .. 0 -> Seq(T)]
    OBVIOUS
  <2>2. ASSUME NEW g PROVE Adds(<<>>, g) <=> g = f
    <3> DEFINE e == [i \in 1 .. Len(<<>>) |-> IF i = 1 THEN <<>>[i] ELSE g[i - 1] \o <<>>[i]]
    <3>1. 1 .. Len(<<>>) = {} /\ 1 .. 0 = {}
      OBVIOUS
    <3>2. e = f
      BY <3>1
    <3> QED BY <3>2 DEF Adds
  <2>3. Adds(<<>>, f) /\ \A g : Adds(<<>>, g) => g = f
    BY <2>2
  <2> HIDE DEF f
  <2>4. f \in [1 .. Len(<<>>) -> Seq(T)]
    BY <2>1
  <2>5. <<>> \in Seq(Seq(T))
    OBVIOUS
  <2> QED BY <2>3, <2>4, <2>5
<1>2. ASSUME NEW ss \in Seq(Seq(T)), NEW x \in Seq(T), ss \in S
      PROVE  Append(ss, x) \in S
  <2> DEFINE n == Len(ss)
             tt == Append(ss, x)
  <2>1. /\ n \in Nat /\ tt \in Seq(Seq(T)) /\ Len(tt) = n + 1 /\ tt[n + 1] = x
        /\ \A i \in 1 .. n : tt[i] = ss[i]
    OBVIOUS
  <2>2. PICK f \in [1 .. n -> Seq(T)] : Adds(ss, f) /\ \A g : Adds(ss, g) => g = f
    BY <1>2
  <2> HIDE DEF n, tt
  <2> DEFINE h == [i \in 1 .. n + 1 |-> IF i <= n THEN f[i] ELSE IF n = 0 THEN x ELSE f[n] \o x]
  <2>3. h \in [1 .. n + 1 -> Seq(T)]
    BY <2>1, <2>2
  <2>4. \A i \in 1 .. n : f[i] = IF i = 1 THEN ss[i] ELSE f[i - 1] \o ss[i]
    BY <2>2 DEF Adds, n
  <2>5. \A i \in 1 .. n + 1 : h[i] = IF i = 1 THEN tt[i] ELSE h[i - 1] \o tt[i]
    <3> TAKE i \in 1 .. n + 1
    <3>1. CASE i <= n
      <4>1. i \in 1 .. n /\ h[i] = f[i] /\ tt[i] = ss[i]
        BY <2>1, <3>1
      <4>2. i # 1 => i - 1 \in 1 .. n + 1 /\ i - 1 <= n
        BY <2>1, <3>1
      <4>3. i # 1 => h[i - 1] = f[i - 1]
        BY <4>2
      <4> QED BY <2>4, <4>1, <4>3
    <3>2. CASE i = n + 1
      <4>1. h[i] = (IF n = 0 THEN x ELSE f[n] \o x) /\ tt[i] = x
        BY <2>1, <3>2
      <4>2. n # 0 => h[i - 1] = f[n]
        BY <2>1, <3>2
      <4>3. n = 0 <=> i = 1
        BY <2>1, <3>2
      <4> QED BY <4>1, <4>2, <4>3
    <3> QED BY <2>1, <3>1, <3>2
  <2>6. Adds(tt, h)
    BY <2>1, <2>5 DEF Adds
  <2>7. ASSUME NEW g, Adds(tt, g) PROVE g = h
    <3>1. /\ g = [i \in 1 .. n + 1 |-> g[i]]
          /\ \A i \in 1 .. n + 1 : g[i] = IF i = 1 THEN tt[i] ELSE g[i - 1] \o tt[i]
      BY <2>1, <2>7 DEF Adds
    <3> DEFINE r == [i \in 1 .. n |-> g[i]]
    <3>2. \A i \in 1 .. n : r[i] = IF i = 1 THEN ss[i] ELSE r[i - 1] \o ss[i]
      <4> TAKE i \in 1 .. n
      <4>1. r[i] = g[i] /\ i \in 1 .. n + 1 /\ tt[i] = ss[i]
        BY <2>1
      <4>2. i # 1 => r[i - 1] = g[i - 1]
        BY <2>1
      <4> QED BY <3>1, <4>1, <4>2
    <3>3. Adds(ss, r)
      BY <3>2 DEF Adds, n
    <3>4. r = f
      BY <2>2, <3>3
    <3>5. \A i \in 1 .. n : g[i] = f[i]
      BY <3>4
    <3>6. g[n + 1] = IF n = 0 THEN x ELSE f[n] \o x
      <4> DEFINE k == n + 1
      <4>1. k \in 1 .. n + 1 /\ k - 1 = n /\ (k = 1 <=> n = 0) /\ tt[k] = x
        BY <2>1
      <4> HIDE DEF k
      <4>2. g[k] = IF k = 1 THEN tt[k] ELSE g[k - 1] \o tt[k]
        BY <3>1, <4>1
      <4> QED BY <4>1, <4>2, <3>5, <2>1 DEF k
    <3>7. \A i \in 1 .. n + 1 : g[i] = h[i]
      BY <2>1, <3>5, <3>6
    <3> QED BY <3>1, <3>7
  <2>8. \E e \in [1 .. Len(tt) -> Seq(T)] : Adds(tt, e) /\ \A g : Adds(tt, g) => g = e
    <3> HIDE DEF h
    <3> QED BY <2>1, <2>3, <2>6, <2>7
  <2> QED BY <2>1, <2>8 DEF tt
<1>3. Seq(Seq(T)) \subseteq S
  BY <1>1, <1>2, SeqInduction
<1> QED BY <1>3

\* Flattening one sequence more appends it.
LEMMA FlattenFact ==
  ASSUME NEW T
  PROVE  /\ FlattenSeq(<<>>) = <<>>
         /\ \A ss \in Seq(Seq(T)) :
               /\ FlattenSeq(ss) \in Seq(T)
               /\ \A x \in Seq(T) : FlattenSeq(Append(ss, x)) = FlattenSeq(ss) \o x
<1>1. FlattenSeq(<<>>) = <<>>
  BY DEF FlattenSeq
<1>2. ASSUME NEW ss \in Seq(Seq(T)) PROVE FlattenSeq(ss) \in Seq(T)
  <2>1. CASE Len(ss) = 0
    <3>1. ss = <<>>
      BY <2>1
    <3>2. <<>> \in Seq(T)
      OBVIOUS
    <3> QED BY <3>1, <3>2, <1>1
  <2>2. CASE Len(ss) # 0
    <3>1. PICK f \in [1 .. Len(ss) -> Seq(T)] : Adds(ss, f) /\ \A g : Adds(ss, g) => g = f
      BY AddsOne
    <3>2. (CHOOSE g : Adds(ss, g)) = f
      BY <3>1
    <3>3. FlattenSeq(ss) = f[Len(ss)]
      BY <2>2, <3>2, FlattenDef
    <3>4. Len(ss) \in 1 .. Len(ss)
      BY <2>2
    <3> QED BY <3>1, <3>3, <3>4
  <2> QED BY <2>1, <2>2
<1>3. ASSUME NEW ss \in Seq(Seq(T)), NEW x \in Seq(T)
      PROVE  FlattenSeq(Append(ss, x)) = FlattenSeq(ss) \o x
  <2> DEFINE tt == Append(ss, x)
             n == Len(ss)
  <2>1. tt \in Seq(Seq(T)) /\ n \in Nat /\ Len(tt) = n + 1 /\ tt[n + 1] = x /\ \A i \in 1 .. n : tt[i] = ss[i]
    OBVIOUS
  <2> HIDE DEF tt, n
  <2>2. PICK h \in [1 .. Len(tt) -> Seq(T)] : Adds(tt, h) /\ \A g : Adds(tt, g) => g = h
    <3>1. tt \in Seq(Seq(T))
      BY <2>1
    <3> QED BY <3>1, AddsOne
  <2>3. (CHOOSE g : Adds(tt, g)) = h
    BY <2>2
  <2>4. FlattenSeq(tt) = h[n + 1]
    BY <2>1, <2>3, FlattenDef
  <2>5. \A i \in 1 .. n + 1 : h[i] = IF i = 1 THEN tt[i] ELSE h[i - 1] \o tt[i]
    BY <2>1, <2>2 DEF Adds
  <2>6. CASE n = 0
    <3>1. ss = <<>>
      BY <2>6 DEF n
    <3>2. h[n + 1] = x
      BY <2>1, <2>5, <2>6
    <3> QED BY <1>1, <2>4, <3>1, <3>2 DEF tt
  <2>7. CASE n # 0
    <3> DEFINE r == [i \in 1 .. n |-> h[i]]
    <3>1. \A i \in 1 .. n : r[i] = IF i = 1 THEN ss[i] ELSE r[i - 1] \o ss[i]
      <4> TAKE i \in 1 .. n
      <4>1. r[i] = h[i] /\ i \in 1 .. n + 1 /\ tt[i] = ss[i]
        BY <2>1
      <4>2. i # 1 => r[i - 1] = h[i - 1]
        BY <2>1
      <4> QED BY <2>5, <4>1, <4>2
    <3>2. Adds(ss, r)
      BY <3>1 DEF Adds, n
    <3>3. (CHOOSE g : Adds(ss, g)) = r
      <4>1. PICK f \in [1 .. Len(ss) -> Seq(T)] : Adds(ss, f) /\ \A g : Adds(ss, g) => g = f
        BY AddsOne
      <4> QED BY <3>2, <4>1
    <3>4. FlattenSeq(ss) = h[n]
      <4>1. FlattenSeq(ss) = (CHOOSE g : Adds(ss, g))[n]
        BY <2>7, FlattenDef DEF n
      <4>2. n \in 1 .. n
        BY <2>1, <2>7
      <4> QED BY <3>3, <4>1, <4>2
    <3>5. h[n + 1] = h[n] \o x
      <4> DEFINE k == n + 1
      <4>1. k \in 1 .. n + 1 /\ k - 1 = n /\ (k = 1 <=> n = 0) /\ tt[k] = x
        BY <2>1
      <4> HIDE DEF k
      <4>2. h[k] = IF k = 1 THEN tt[k] ELSE h[k - 1] \o tt[k]
        BY <2>5, <4>1
      <4> QED BY <4>1, <4>2, <2>7 DEF k
    <3> QED BY <2>4, <3>4, <3>5 DEF tt
  <2> QED BY <2>6, <2>7
<1> QED BY <1>1, <1>2, <1>3

\* A sequence is the concatenation of two when it has the elements of both.
LEMMA ConcatIs ==
  ASSUME NEW T, NEW a \in Seq(T), NEW b \in Seq(T), NEW h \in Seq(T), Len(h) = Len(a) + Len(b),
         \A i \in 1 .. Len(a) : h[i] = a[i], \A j \in 1 .. Len(b) : h[Len(a) + j] = b[j]
  PROVE  h = a \o b
<1>1. a \o b \in Seq(T) /\ Len(a \o b) = Len(h)
  OBVIOUS
<1>2. \A i \in 1 .. Len(h) : h[i] = (a \o b)[i]
  <2> TAKE i \in 1 .. Len(h)
  <2>1. CASE i <= Len(a)
    BY <2>1
  <2>2. CASE ~(i <= Len(a))
    <3>1. i - Len(a) \in 1 .. Len(b) /\ Len(a) + (i - Len(a)) = i
      BY <2>2
    <3>2. (a \o b)[i] = b[i - Len(a)]
      BY <2>2
    <3> QED BY <3>1, <3>2
  <2> QED BY <2>1, <2>2
<1> QED BY <1>1, <1>2

LEMMA FlattenConcat ==
  ASSUME NEW T, NEW ss \in Seq(Seq(T)), NEW tt \in Seq(Seq(T))
  PROVE  FlattenSeq(ss \o tt) = FlattenSeq(ss) \o FlattenSeq(tt)
<1> DEFINE S == {uu \in Seq(Seq(T)) : FlattenSeq(ss \o uu) = FlattenSeq(ss) \o FlattenSeq(uu)}
<1>1. FlattenSeq(ss) \in Seq(T)
  BY FlattenFact
<1>2. <<>> \in S
  <2>1. ss \o <<>> = ss /\ FlattenSeq(ss) \o <<>> = FlattenSeq(ss) /\ <<>> \in Seq(Seq(T))
    BY <1>1
  <2>2. FlattenSeq(<<>>) = <<>>
    BY FlattenFact
  <2> QED BY <2>1, <2>2
<1>3. ASSUME NEW uu \in Seq(Seq(T)), NEW x \in Seq(T), uu \in S
      PROVE  Append(uu, x) \in S
  <2>1. FlattenSeq(uu) \in Seq(T) /\ ss \o uu \in Seq(Seq(T)) /\ Append(uu, x) \in Seq(Seq(T))
    BY FlattenFact
  <2>2. ss \o Append(uu, x) = Append(ss \o uu, x)
    OBVIOUS
  <2>3. FlattenSeq(Append(ss \o uu, x)) = FlattenSeq(ss \o uu) \o x
    BY <2>1, FlattenFact
  <2>4. FlattenSeq(Append(uu, x)) = FlattenSeq(uu) \o x
    BY FlattenFact
  <2>5. (FlattenSeq(ss) \o FlattenSeq(uu)) \o x = FlattenSeq(ss) \o (FlattenSeq(uu) \o x)
    BY <1>1, <2>1
  <2>6. FlattenSeq(ss \o uu) = FlattenSeq(ss) \o FlattenSeq(uu)
    BY <1>3
  <2> QED BY <2>1, <2>2, <2>3, <2>4, <2>5, <2>6
<1>4. Seq(Seq(T)) \subseteq S
  BY <1>2, <1>3, SeqInduction
<1> QED BY <1>4

LEMMA FlattenOne ==
  ASSUME NEW T, NEW x \in Seq(T)
  PROVE  FlattenSeq(<<x>>) = x
<1>1. <<x>> = Append(<<>>, x) /\ <<>> \in Seq(Seq(T)) /\ <<>> \o x = x
  OBVIOUS
<1>2. FlattenSeq(Append(<<>>, x)) = FlattenSeq(<<>>) \o x /\ FlattenSeq(<<>>) = <<>>
  BY <1>1, FlattenFact
<1> QED BY <1>1, <1>2

LEMMA ConcatRange ==
  ASSUME NEW T, NEW a \in Seq(T), NEW b \in Seq(T)
  PROVE  \A x : x \in Range(a \o b) <=> x \in Range(a) \/ x \in Range(b)
<1> DEFINE c == a \o b
<1>1. \A i \in DOMAIN a : i \in DOMAIN c /\ c[i] = a[i]
  OBVIOUS
<1>2. \A i \in DOMAIN b : Len(a) + i \in DOMAIN c /\ c[Len(a) + i] = b[i]
  OBVIOUS
<1>3. \A i \in DOMAIN c : i \in DOMAIN a \/ \E j \in DOMAIN b : i = Len(a) + j
  <2> TAKE i \in DOMAIN c
  <2>1. i \notin DOMAIN a => i - Len(a) \in DOMAIN b /\ i = Len(a) + (i - Len(a))
    OBVIOUS
  <2> QED BY <2>1
<1> HIDE DEF c
<1>4. ASSUME NEW x \in Range(c) PROVE x \in Range(a) \/ x \in Range(b)
  <2>1. PICK i \in DOMAIN c : x = c[i]
    BY DEF Range
  <2>2. CASE i \in DOMAIN a
    BY <1>1, <2>1, <2>2 DEF Range
  <2>3. CASE \E j \in DOMAIN b : i = Len(a) + j
    BY <1>2, <2>1, <2>3 DEF Range
  <2> QED BY <1>3, <2>2, <2>3
<1>5. ASSUME NEW x \in Range(a) PROVE x \in Range(c)
  BY <1>1 DEF Range
<1>6. ASSUME NEW x \in Range(b) PROVE x \in Range(c)
  BY <1>2 DEF Range
<1> QED BY <1>4, <1>5, <1>6 DEF c

\* Flattening keeps the elements, and adds none.
LEMMA FlattenRange ==
  ASSUME NEW T, NEW ss \in Seq(Seq(T))
  PROVE  \A x : x \in Range(FlattenSeq(ss)) <=> \E i \in DOMAIN ss : x \in Range(ss[i])
<1> DEFINE S == {uu \in Seq(Seq(T)) :
                   \A x : x \in Range(FlattenSeq(uu)) <=> \E i \in DOMAIN uu : x \in Range(uu[i])}
<1>1. <<>> \in S
  <2>1. FlattenSeq(<<>>) = <<>>
    BY FlattenFact
  <2>2. <<>> \in Seq(Seq(T)) /\ DOMAIN <<>> = {}
    OBVIOUS
  <2> QED BY <2>1, <2>2 DEF Range
<1>2. ASSUME NEW uu \in Seq(Seq(T)), NEW y \in Seq(T), uu \in S
      PROVE  Append(uu, y) \in S
  <2> DEFINE F == FlattenSeq(uu)
             vv == Append(uu, y)
  <2>1. F \in Seq(T) /\ FlattenSeq(vv) = F \o y
    BY FlattenFact
  <2>2. vv \in Seq(Seq(T)) /\ DOMAIN vv = 1 .. Len(uu) + 1 /\ vv[Len(uu) + 1] = y /\ DOMAIN uu = 1 .. Len(uu)
        /\ Len(uu) \in Nat /\ \A i \in 1 .. Len(uu) : vv[i] = uu[i]
    OBVIOUS
  <2>3. \A x : x \in Range(F) <=> \E i \in DOMAIN uu : x \in Range(uu[i])
    BY <1>2
  <2> HIDE DEF F, vv
  <2>4. \A x : x \in Range(F \o y) <=> x \in Range(F) \/ x \in Range(y)
    BY <2>1, ConcatRange
  <2>5. \A x : (\E i \in DOMAIN vv : x \in Range(vv[i])) <=> (\E i \in DOMAIN uu : x \in Range(uu[i])) \/ x \in Range(y)
    <3>1. \A i \in DOMAIN vv : (i \in DOMAIN uu /\ vv[i] = uu[i]) \/ vv[i] = y
      BY <2>2
    <3>2. \A i \in DOMAIN uu : i \in DOMAIN vv /\ vv[i] = uu[i]
      BY <2>2
    <3>3. Len(uu) + 1 \in DOMAIN vv /\ vv[Len(uu) + 1] = y
      BY <2>2
    <3> QED BY <3>1, <3>2, <3>3, Zenon
  <2>6. \A x : x \in Range(FlattenSeq(vv)) <=> \E i \in DOMAIN vv : x \in Range(vv[i])
    BY <2>1, <2>3, <2>4, <2>5
  <2> QED BY <2>2, <2>6 DEF vv
<1>3. Seq(Seq(T)) \subseteq S
  BY <1>1, <1>2, SeqInduction
<1> QED BY <1>3

\* What Pick flattens.
Chosen(s, P) == [i \in DOMAIN s |-> IF i \in P THEN <<s[i]>> ELSE <<>>]

LEMMA ChosenType ==
  ASSUME NEW T, NEW s \in Seq(T), NEW P
  PROVE  Chosen(s, P) \in Seq(Seq(T)) /\ Len(Chosen(s, P)) = Len(s) /\ DOMAIN Chosen(s, P) = DOMAIN s
<1>1. \A i \in 1 .. Len(s) : s[i] \in T
  OBVIOUS
<1>2. \A i \in 1 .. Len(s) : (IF i \in P THEN <<s[i]>> ELSE <<>>) \in Seq(T)
  BY <1>1
<1>3. DOMAIN s = 1 .. Len(s) /\ Len(s) \in Nat
  OBVIOUS
<1>4. Chosen(s, P) \in [1 .. Len(s) -> Seq(T)]
  BY <1>2, <1>3 DEF Chosen
<1> QED BY <1>3, <1>4

\* Pick returns the elements at the positions it is given.
LEMMA PickFact ==
  ASSUME NEW T, NEW s \in Seq(T), NEW P
  PROVE  /\ Pick(s, P) \in Seq(T)
         /\ \A x : x \in Range(Pick(s, P)) <=> \E i \in DOMAIN s : i \in P /\ x = s[i]
<1> DEFINE C == Chosen(s, P)
<1>1. Pick(s, P) = FlattenSeq(C)
  BY DEF Pick, Chosen
<1>2. C \in Seq(Seq(T)) /\ DOMAIN C = DOMAIN s
  BY ChosenType
<1>3. \A i \in DOMAIN s : C[i] = IF i \in P THEN <<s[i]>> ELSE <<>>
  BY DEF Chosen
<1> HIDE DEF C
<1>4. Pick(s, P) \in Seq(T)
  BY <1>1, <1>2, FlattenFact
<1>5. \A x : x \in Range(FlattenSeq(C)) <=> \E i \in DOMAIN C : x \in Range(C[i])
  BY <1>2, FlattenRange
<1>6. \A x : \A i \in DOMAIN s : x \in Range(C[i]) <=> i \in P /\ x = s[i]
  <2> TAKE x
  <2> TAKE i \in DOMAIN s
  <2>1. DOMAIN <<>> = {} /\ DOMAIN <<s[i]>> = {1} /\ <<s[i]>>[1] = s[i]
    OBVIOUS
  <2>2. x \notin Range(<<>>) /\ (x \in Range(<<s[i]>>) <=> x = s[i])
    BY <2>1 DEF Range
  <2> QED BY <1>3, <2>2
<1> QED BY <1>1, <1>2, <1>4, <1>5, <1>6

LEMMA PickSame ==
  ASSUME NEW s, NEW P, NEW Q, \A i \in DOMAIN s : i \in P <=> i \in Q
  PROVE  Pick(s, P) = Pick(s, Q)
BY DEF Pick

\* A sequence without elements is empty.
LEMMA EmptyRange ==
  ASSUME NEW T, NEW s \in Seq(T)
  PROVE  s = <<>> <=> Range(s) = {}
<1>1. s = <<>> => Range(s) = {}
  BY DEF Range
<1>2. Range(s) = {} => s = <<>>
  <2>1. SUFFICES ASSUME s # <<>> PROVE s[1] \in Range(s)
    OBVIOUS
  <2>2. 1 \in DOMAIN s
    BY <2>1
  <2> QED BY <2>2 DEF Range
<1> QED BY <1>1, <1>2

LEMMA PickNone ==
  ASSUME NEW T, NEW s \in Seq(T), NEW P, \A i \in DOMAIN s : i \notin P
  PROVE  Pick(s, P) = <<>>
<1>1. Pick(s, P) \in Seq(T) /\ \A x : x \notin Range(Pick(s, P))
  BY PickFact
<1> QED BY <1>1, EmptyRange

LEMMA PickOne ==
  ASSUME NEW T, NEW x \in T, NEW P
  PROVE  Pick(<<x>>, P) = IF 1 \in P THEN <<x>> ELSE <<>>
<1>1. <<x>> \in Seq(T) /\ DOMAIN <<x>> = {1} /\ <<x>>[1] = x /\ <<>> \in Seq(T)
  OBVIOUS
<1> DEFINE e == IF 1 \in P THEN <<x>> ELSE <<>>
<1>2. Chosen(<<x>>, P) = <<e>>
  <2>1. Chosen(<<x>>, P) = [i \in {1} |-> e]
    BY <1>1 DEF Chosen
  <2>2. <<e>> = [i \in {1} |-> e]
    OBVIOUS
  <2> QED BY <2>1, <2>2
<1>3. e \in Seq(T)
  BY <1>1
<1> HIDE DEF e
<1>4. FlattenSeq(<<e>>) = e
  BY <1>3, FlattenOne
<1> QED BY <1>2, <1>4 DEF Pick, Chosen, e

\* Picking from a concatenation is picking from both parts.
LEMMA PickConcat ==
  ASSUME NEW T, NEW a \in Seq(T), NEW b \in Seq(T), NEW P, NEW A, NEW B,
         \A i \in DOMAIN a : i \in P <=> i \in A,
         \A j \in DOMAIN b : Len(a) + j \in P <=> j \in B
  PROVE  Pick(a \o b, P) = Pick(a, A) \o Pick(b, B)
<1> DEFINE h == Chosen(a \o b, P)
           ca == Chosen(a, A)
           cb == Chosen(b, B)
<1>1. a \o b \in Seq(T) /\ Len(a \o b) = Len(a) + Len(b) /\ Len(a) \in Nat /\ Len(b) \in Nat
  OBVIOUS
<1>2. /\ h \in Seq(Seq(T)) /\ Len(h) = Len(a) + Len(b)
      /\ ca \in Seq(Seq(T)) /\ Len(ca) = Len(a)
      /\ cb \in Seq(Seq(T)) /\ Len(cb) = Len(b)
  BY <1>1, ChosenType
<1>3. \A i \in 1 .. Len(a) : h[i] = ca[i]
  <2> TAKE i \in 1 .. Len(a)
  <2>1. i \in DOMAIN a /\ i \in DOMAIN (a \o b) /\ (a \o b)[i] = a[i]
    OBVIOUS
  <2> QED BY <2>1 DEF Chosen
<1>4. \A j \in 1 .. Len(b) : h[Len(a) + j] = cb[j]
  <2> TAKE j \in 1 .. Len(b)
  <2>1. j \in DOMAIN b /\ Len(a) + j \in DOMAIN (a \o b) /\ (a \o b)[Len(a) + j] = b[j]
    OBVIOUS
  <2> QED BY <2>1 DEF Chosen
<1> HIDE DEF h, ca, cb
<1>5. h = ca \o cb
  <2>1. /\ Len(h) = Len(ca) + Len(cb)
        /\ \A i \in 1 .. Len(ca) : h[i] = ca[i]
        /\ \A j \in 1 .. Len(cb) : h[Len(ca) + j] = cb[j]
    BY <1>2, <1>3, <1>4
  <2>2. h \in Seq(Seq(T)) /\ ca \in Seq(Seq(T)) /\ cb \in Seq(Seq(T))
    BY <1>2
  <2> QED BY <2>1, <2>2, ConcatIs
<1>6. FlattenSeq(h) = FlattenSeq(ca) \o FlattenSeq(cb)
  BY <1>2, <1>5, FlattenConcat
<1> QED BY <1>6 DEF Pick, Chosen, h, ca, cb

Distinct(s) == \A i, j \in DOMAIN s : s[i] = s[j] => i = j

LEMMA PickDistinct ==
  ASSUME NEW T, NEW P
  PROVE  \A s \in Seq(T) : Distinct(s) => Distinct(Pick(s, P))
<1> DEFINE S == {s \in Seq(T) : Distinct(s) => Distinct(Pick(s, P))}
<1>1. <<>> \in S
  <2>1. <<>> \in Seq(T) /\ \A i \in DOMAIN <<>> : i \notin P
    OBVIOUS
  <2>2. Pick(<<>>, P) = <<>>
    BY <2>1, PickNone
  <2> QED BY <2>1, <2>2
<1>2. ASSUME NEW s \in Seq(T), NEW x \in T, s \in S PROVE Append(s, x) \in S
  <2> DEFINE r == Append(s, x)
             p == Pick(s, P)
             q == IF Len(s) + 1 \in P THEN <<x>> ELSE <<>>
  <2>1. r \in Seq(T) /\ r = s \o <<x>> /\ Len(r) = Len(s) + 1 /\ Len(s) \in Nat
    BY AppendProperties, AppendIsConcat, LenProperties
  <2>2. (\A i \in 1 .. Len(s) : r[i] = s[i]) /\ r[Len(s) + 1] = x
    BY AppendProperties
  <2>3. Pick(r, P) = p \o q
    <3> DEFINE B == {j \in {1} : Len(s) + j \in P}
    <3>1. <<x>> \in Seq(T) /\ DOMAIN <<x>> = {1}
      OBVIOUS
    <3>2. \A j \in DOMAIN <<x>> : Len(s) + j \in P <=> j \in B
      BY <3>1
    <3> HIDE DEF B
    <3>3. Pick(s \o <<x>>, P) = p \o Pick(<<x>>, B)
      <4> DEFINE b == <<x>>
      <4>1. b \in Seq(T) /\ (\A j \in DOMAIN b : Len(s) + j \in P <=> j \in B) /\ \A i \in DOMAIN s : i \in P <=> i \in P
        BY <3>1, <3>2
      <4> HIDE DEF b, p
      <4>2. Pick(s \o b, P) = Pick(s, P) \o Pick(b, B)
        BY <4>1, PickConcat
      <4> QED BY <4>2 DEF b, p
    <3>4. Pick(<<x>>, B) = IF 1 \in B THEN <<x>> ELSE <<>>
      BY PickOne
    <3>5. 1 \in B <=> Len(s) + 1 \in P
      BY DEF B
    <3> QED BY <2>1, <3>3, <3>4, <3>5
  <2>4. SUFFICES ASSUME Distinct(r) PROVE Distinct(p \o q)
    BY <2>1, <2>3
  <2> HIDE DEF r
  <2>5. Distinct(s) /\ x \notin Range(s)
    <3>1. DOMAIN s = 1 .. Len(s) /\ DOMAIN r = 1 .. Len(s) + 1
      BY <2>1, LenProperties
    <3>2. \A i, j \in 1 .. Len(s) + 1 : r[i] = r[j] => i = j
      BY <2>4, <3>1 DEF Distinct
    <3>3. \A i, j \in 1 .. Len(s) : s[i] = s[j] => i = j
      BY <2>1, <2>2, <3>2
    <3>4. \A i \in 1 .. Len(s) : s[i] # x
      BY <2>1, <2>2, <3>2
    <3> QED BY <3>1, <3>3, <3>4 DEF Distinct, Range
  <2>6. p \in Seq(T) /\ Distinct(p) /\ x \notin Range(p)
    <3>1. p \in Seq(T) /\ \A y : y \in Range(p) <=> \E i \in DOMAIN s : i \in P /\ y = s[i]
      BY PickFact
    <3>2. Distinct(p)
      BY <1>2, <2>5
    <3> QED BY <2>5, <3>1, <3>2 DEF Range
  <2> HIDE DEF p
  <2>7. CASE Len(s) + 1 \in P
    <3> DEFINE u == Append(p, x)
    <3>1. p \o q = u
      BY <2>6, <2>7, AppendIsConcat
    <3>2. u \in Seq(T) /\ Len(u) = Len(p) + 1 /\ (\A i \in 1 .. Len(p) : u[i] = p[i]) /\ u[Len(p) + 1] = x
      BY <2>6, AppendProperties
    <3>3. Len(p) \in Nat /\ DOMAIN p = 1 .. Len(p) /\ DOMAIN u = 1 .. Len(p) + 1
      BY <2>6, <3>2, LenProperties
    <3> HIDE DEF u
    <3>4. (\A i, j \in 1 .. Len(p) : p[i] = p[j] => i = j) /\ \A i \in 1 .. Len(p) : p[i] # x
      BY <2>6, <3>3 DEF Distinct, Range
    <3>5. \A i, j \in 1 .. Len(p) + 1 : u[i] = u[j] => i = j
      BY <3>2, <3>3, <3>4
    <3> QED BY <3>1, <3>3, <3>5 DEF Distinct
  <2>8. CASE Len(s) + 1 \notin P
    <3>1. p \o q = p
      BY <2>6, <2>8, ConcatEmptySeq
    <3> QED BY <2>6, <3>1
  <2> QED BY <2>7, <2>8
<1> HIDE DEF S
<1>3. Seq(T) \subseteq S
  BY <1>1, <1>2, SeqInduction
<1> QED BY <1>3 DEF S

LEMMA PickAppend ==
  ASSUME NEW T, NEW P, NEW s \in Seq(T), NEW x \in T
  PROVE  Pick(Append(s, x), P) = IF Len(s) + 1 \in P THEN Append(Pick(s, P), x) ELSE Pick(s, P)
<1> DEFINE B == {j \in {1} : Len(s) + j \in P}
           p == Pick(s, P)
<1>1. <<x>> \in Seq(T) /\ DOMAIN <<x>> = {1} /\ Append(s, x) = s \o <<x>>
  BY AppendIsConcat
<1>2. \A j \in DOMAIN <<x>> : Len(s) + j \in P <=> j \in B
  BY <1>1
<1>3. 1 \in B <=> Len(s) + 1 \in P
  OBVIOUS
<1>4. p \in Seq(T)
  BY PickFact
<1> HIDE DEF B, p
<1>5. Pick(s \o <<x>>, P) = p \o Pick(<<x>>, B)
  <2> DEFINE b == <<x>>
  <2>1. b \in Seq(T) /\ (\A j \in DOMAIN b : Len(s) + j \in P <=> j \in B) /\ \A i \in DOMAIN s : i \in P <=> i \in P
    BY <1>1, <1>2
  <2> HIDE DEF b
  <2>2. Pick(s \o b, P) = Pick(s, P) \o Pick(b, B)
    BY <2>1, PickConcat
  <2> QED BY <2>2 DEF b, p
<1>6. Pick(<<x>>, B) = IF 1 \in B THEN <<x>> ELSE <<>>
  BY PickOne
<1>7. p \o <<x>> = Append(p, x) /\ p \o <<>> = p
  BY <1>4, AppendIsConcat, ConcatEmptySeq
<1> QED BY <1>1, <1>3, <1>5, <1>6, <1>7 DEF p

\* Every element of Pick(s, P) comes from a position of its own.
From(s, P, f) ==
    /\ f \in [DOMAIN Pick(s, P) -> DOMAIN s \cap P]
    /\ \A a \in DOMAIN Pick(s, P) : Pick(s, P)[a] = s[f[a]]
    /\ IsInjective(f)

LEMMA PickIndex ==
  ASSUME NEW T, NEW P
  PROVE  \A s \in Seq(T) : \E f : From(s, P, f)
<1> DEFINE S == {s \in Seq(T) : \E f : From(s, P, f)}
<1>1. <<>> \in S
  <2>1. <<>> \in Seq(T) /\ (\A i \in DOMAIN <<>> : i \notin P) /\ DOMAIN <<>> = {}
    OBVIOUS
  <2>2. Pick(<<>>, P) = <<>>
    BY <2>1, PickNone
  <2> DEFINE f == [a \in {} |-> a]
  <2>3. f \in [{} -> DOMAIN <<>> \cap P] /\ IsInjective(f)
    BY DEF IsInjective
  <2>4. From(<<>>, P, f)
    <3> HIDE DEF f
    <3> QED BY <2>1, <2>2, <2>3 DEF From
  <2> HIDE DEF f
  <2> QED BY <2>1, <2>4
<1>2. ASSUME NEW s \in Seq(T), NEW x \in T, s \in S PROVE Append(s, x) \in S
  <2> DEFINE r == Append(s, x)
             n == Len(s)
             p == Pick(s, P)
             q == Pick(r, P)
             m == Len(p)
  <2>1. r \in Seq(T) /\ n \in Nat /\ DOMAIN s = 1 .. n /\ DOMAIN r = 1 .. n + 1 /\ (\A i \in 1 .. n : r[i] = s[i]) /\ r[n + 1] = x
    BY AppendProperties, LenProperties
  <2>2. p \in Seq(T) /\ m \in Nat /\ DOMAIN p = 1 .. m
    BY PickFact, LenProperties
  <2>3. q = IF n + 1 \in P THEN Append(p, x) ELSE p
    BY PickAppend
  <2>4. PICK f : From(s, P, f)
    BY <1>2
  <2> HIDE DEF r, n, p, m
  <2>5. f \in [1 .. m -> 1 .. n \cap P] /\ (\A a \in 1 .. m : p[a] = s[f[a]]) /\ \A a, b \in 1 .. m : f[a] = f[b] => a = b
    BY <2>1, <2>2, <2>4 DEF From, p, IsInjective
  <2> HIDE DEF q
  <2>6. CASE n + 1 \in P
    <3> DEFINE h == [a \in 1 .. m + 1 |-> IF a <= m THEN f[a] ELSE n + 1]
    <3>1. q = Append(p, x)
      BY <2>3, <2>6
    <3>2. DOMAIN q = 1 .. m + 1 /\ (\A a \in 1 .. m : q[a] = p[a]) /\ q[m + 1] = x
      BY <2>2, <3>1, AppendProperties, LenProperties DEF m
    <3>3. \A a \in 1 .. m + 1 : (a \in 1 .. m /\ h[a] = f[a] /\ f[a] \in 1 .. n \cap P) \/ (a = m + 1 /\ h[a] = n + 1)
      BY <2>2, <2>5
    <3>4. \A a \in 1 .. m + 1 : h[a] \in 1 .. n + 1 \cap P
      BY <2>1, <2>6, <3>3
    <3>5. h \in [1 .. m + 1 -> 1 .. n + 1 \cap P]
      BY <3>4
    <3> HIDE DEF h
    <3>6. \A a \in 1 .. m + 1 : q[a] = r[h[a]]
      BY <2>1, <2>5, <3>2, <3>3
    <3>7. \A a, b \in 1 .. m + 1 : h[a] = h[b] => a = b
      BY <2>1, <2>2, <2>5, <3>3
    <3>8. DOMAIN h = 1 .. m + 1
      BY <3>5
    <3>9. IsInjective(h)
      BY <3>7, <3>8 DEF IsInjective
    <3>10. From(r, P, h)
      BY <2>1, <3>2, <3>5, <3>6, <3>9 DEF From, q
    <3> QED BY <2>1, <3>10 DEF r
  <2>7. CASE n + 1 \notin P
    <3>1. q = p
      BY <2>3, <2>7
    <3>2. f \in [1 .. m -> 1 .. n + 1 \cap P] /\ \A a \in 1 .. m : f[a] \in 1 .. n
      BY <2>1, <2>5
    <3>3. \A a \in 1 .. m : q[a] = r[f[a]]
      BY <2>1, <2>5, <3>1, <3>2
    <3>4. DOMAIN q = 1 .. m /\ IsInjective(f)
      BY <2>2, <2>4, <3>1 DEF From
    <3>5. From(r, P, f)
      BY <2>1, <3>2, <3>3, <3>4 DEF From, q
    <3> QED BY <2>1, <3>5 DEF r
  <2> QED BY <2>6, <2>7
<1> HIDE DEF S
<1>3. Seq(T) \subseteq S
  BY <1>1, <1>2, SeqInduction
<1> QED BY <1>3 DEF S

LEMMA ConcatDistinct ==
  ASSUME NEW T, NEW a \in Seq(T), NEW b \in Seq(T), Distinct(a), Distinct(b), Range(a) \cap Range(b) = {}
  PROVE  Distinct(a \o b)
<1> DEFINE c == a \o b
<1>1. Len(a) \in Nat /\ Len(b) \in Nat /\ DOMAIN a = 1 .. Len(a) /\ DOMAIN b = 1 .. Len(b) /\ DOMAIN c = 1 .. Len(a) + Len(b)
  OBVIOUS
<1>2. \A i \in DOMAIN c : (i \in DOMAIN a /\ c[i] = a[i]) \/ (i - Len(a) \in DOMAIN b /\ c[i] = b[i - Len(a)])
  OBVIOUS
<1> HIDE DEF c
<1>3. ASSUME NEW i \in DOMAIN c, NEW j \in DOMAIN c, c[i] = c[j] PROVE i = j
  <2>1. CASE i \in DOMAIN a /\ c[i] = a[i] /\ j \in DOMAIN a /\ c[j] = a[j]
    BY <1>3, <2>1 DEF Distinct
  <2>2. CASE i - Len(a) \in DOMAIN b /\ c[i] = b[i - Len(a)] /\ j - Len(a) \in DOMAIN b /\ c[j] = b[j - Len(a)]
    <3>1. i - Len(a) = j - Len(a)
      BY <1>3, <2>2 DEF Distinct
    <3>2. i \in Nat /\ j \in Nat
      BY <1>1
    <3> QED BY <1>1, <3>1, <3>2
  <2>3. ASSUME NEW u \in DOMAIN a, NEW v \in DOMAIN b PROVE a[u] # b[v]
    BY DEF Range
  <2> QED BY <1>2, <1>3, <2>1, <2>2, <2>3
<1> QED BY <1>3 DEF Distinct, c

LEMMA FlattenDistinct ==
  ASSUME NEW T
  PROVE  \A ss \in Seq(Seq(T)) :
            (/\ \A i \in DOMAIN ss : Distinct(ss[i])
             /\ \A i, j \in DOMAIN ss : i # j => Range(ss[i]) \cap Range(ss[j]) = {})
            => Distinct(FlattenSeq(ss))
<1> DEFINE Apart(ss) == /\ \A i \in DOMAIN ss : Distinct(ss[i])
                        /\ \A i, j \in DOMAIN ss : i # j => Range(ss[i]) \cap Range(ss[j]) = {}
           S == {ss \in Seq(Seq(T)) : Apart(ss) => Distinct(FlattenSeq(ss))}
<1>1. <<>> \in S
  <2>1. <<>> \in Seq(Seq(T)) /\ Distinct(<<>>)
    BY DEF Distinct
  <2>2. FlattenSeq(<<>>) = <<>>
    BY FlattenFact
  <2> HIDE DEF Apart
  <2> QED BY <2>1, <2>2
<1>2. ASSUME NEW ss \in Seq(Seq(T)), NEW x \in Seq(T), ss \in S PROVE Append(ss, x) \in S
  <2> DEFINE r == Append(ss, x)
             n == Len(ss)
  <2>1. r \in Seq(Seq(T)) /\ n \in Nat /\ DOMAIN ss = 1 .. n /\ DOMAIN r = 1 .. n + 1 /\ (\A i \in 1 .. n : r[i] = ss[i]) /\ r[n + 1] = x
    BY AppendProperties, LenProperties
  <2>2. FlattenSeq(ss) \in Seq(T) /\ FlattenSeq(r) = FlattenSeq(ss) \o x
    BY FlattenFact
  <2> HIDE DEF r, n
  <2>3. ASSUME Apart(r) PROVE Distinct(FlattenSeq(r))
    <3>1. \A i \in 1 .. n : i \in 1 .. n + 1 /\ i # n + 1
      BY <2>1
    <3>2. Apart(ss)
      BY <2>1, <2>3, <3>1
    <3>3. n + 1 \in DOMAIN r
      BY <2>1
    <3>4. Distinct(x) /\ \A i \in DOMAIN ss : Range(ss[i]) \cap Range(x) = {}
      BY <2>1, <2>3, <3>1, <3>3
    <3>5. Range(FlattenSeq(ss)) \cap Range(x) = {}
      <4>1. \A y : y \in Range(FlattenSeq(ss)) <=> \E i \in DOMAIN ss : y \in Range(ss[i])
        BY FlattenRange
      <4> QED BY <3>4, <4>1
    <3>6. Distinct(FlattenSeq(ss))
      BY <1>2, <3>2
    <3> HIDE DEF Apart
    <3> QED BY <2>2, <3>4, <3>5, <3>6, ConcatDistinct
  <2> HIDE DEF Apart
  <2> QED BY <2>1, <2>3 DEF r
<1> HIDE DEF S
<1>3. Seq(Seq(T)) \subseteq S
  BY <1>1, <1>2, SeqInduction
<1> HIDE DEF Apart
<1>4. \A ss \in Seq(Seq(T)) : Apart(ss) => Distinct(FlattenSeq(ss))
  BY <1>3 DEF S
<1> QED BY <1>4 DEF Apart

-----------------------------------------------------------------------------
(* One line *)

Vals == Strings \cup Groups

LEMMA EmptyString == Empty \in Strings /\ Empty.blank = FALSE /\ Empty.word = "" /\ skip_spaces(Empty) = Empty
<1>1. Empty = [blank |-> FALSE, word |-> ""]
  BY DEF Empty, Word
<1>2. Empty.blank = FALSE /\ Empty.word = ""
  BY <1>1
<1>3. Empty \in Strings
  BY <1>1, FileAssumption DEF Strings
<1>4. skip_spaces(Empty) = Empty
  BY <1>2 DEF skip_spaces, Empty
<1> QED BY <1>2, <1>3, <1>4

LEMMA InSeqOf ==
  ASSUME NEW T, NEW s \in Seq(T), NEW U, \A x \in Range(s) : x \in U
  PROVE  s \in Seq(U)
<1>1. \A i \in 1 .. Len(s) : s[i] \in U
  BY DEF Range
<1>2. s = [i \in 1 .. Len(s) |-> s[i]] /\ Len(s) \in Nat
  OBVIOUS
<1>3. s \in [1 .. Len(s) -> U]
  BY <1>1, <1>2
<1>4. \E n \in Nat : s \in [1 .. n -> U]
  BY <1>2, <1>3
<1>5. Seq(U) = UNION {[1 .. n -> U] : n \in Nat}
  BY SeqDef
<1> QED BY <1>4, <1>5, Zenon

LEMMA FieldsFact ==
  ASSUME NEW c
  PROVE  /\ Fields(c).section = "" /\ Fields(c).fields = c
         /\ c \in Seq(FieldTypes) => Fields(c) \in LineTypes
BY DEF Fields, LineTypes

LEMMA SectionFact ==
  ASSUME NEW x \in {"PATHINFO", "SIMILARINFO", "other"}
  PROVE  Section(x).section = x /\ Section(x).fields = <<>> /\ Section(x) \in LineTypes
BY DEF Section, LineTypes

\* The value of each field, at its place.
ValsOf(fields) == [i \in DOMAIN fields |-> fields[i].val]

LEMMA ValsType ==
  ASSUME NEW fields \in Seq(FieldTypes)
  PROVE  ValsOf(fields) \in Seq(Vals) /\ Len(ValsOf(fields)) = Len(fields) /\ DOMAIN ValsOf(fields) = DOMAIN fields
<1>1. \A f \in FieldTypes : f.val \in Vals
  BY EmptyString DEF FieldTypes, Vals
<1>2. DOMAIN fields = 1 .. Len(fields) /\ Len(fields) \in Nat /\ \A i \in 1 .. Len(fields) : fields[i] \in FieldTypes
  OBVIOUS
<1>3. ValsOf(fields) \in [1 .. Len(fields) -> Vals]
  BY <1>1, <1>2 DEF ValsOf
<1> QED BY <1>2, <1>3

LEMMA ValuesAre ==
  ASSUME NEW line, NEW k
  PROVE  ValuesOf(line, k) = Pick(ValsOf(line.fields), {i \in DOMAIN line.fields : line.fields[i].key = k})
BY DEF ValuesOf, ValsOf

LEMMA ValuesConcat ==
  ASSUME NEW a \in Seq(FieldTypes), NEW b \in Seq(FieldTypes), NEW k
  PROVE  ValuesOf(Fields(a \o b), k) = ValuesOf(Fields(a), k) \o ValuesOf(Fields(b), k)
<1> DEFINE c == a \o b
           K(s) == {i \in DOMAIN s : s[i].key = k}
<1>1. c \in Seq(FieldTypes) /\ Len(c) = Len(a) + Len(b) /\ Len(a) \in Nat /\ Len(b) \in Nat
  OBVIOUS
<1>2. \A i \in DOMAIN a : i \in DOMAIN c /\ c[i] = a[i]
  OBVIOUS
<1>3. \A j \in DOMAIN b : Len(a) + j \in DOMAIN c /\ c[Len(a) + j] = b[j]
  OBVIOUS
<1>4. DOMAIN a = 1 .. Len(a) /\ DOMAIN b = 1 .. Len(b)
  OBVIOUS
<1> HIDE DEF c
<1>5. /\ ValsOf(a) \in Seq(Vals) /\ Len(ValsOf(a)) = Len(a) /\ DOMAIN ValsOf(a) = DOMAIN a
      /\ ValsOf(b) \in Seq(Vals) /\ Len(ValsOf(b)) = Len(b) /\ DOMAIN ValsOf(b) = DOMAIN b
      /\ ValsOf(c) \in Seq(Vals) /\ Len(ValsOf(c)) = Len(c)
  BY <1>1, ValsType
<1>6. ValsOf(c) = ValsOf(a) \o ValsOf(b)
  <2>1. \A i \in 1 .. Len(ValsOf(a)) : ValsOf(c)[i] = ValsOf(a)[i]
    BY <1>2, <1>4, <1>5 DEF ValsOf
  <2>2. \A j \in 1 .. Len(ValsOf(b)) : ValsOf(c)[Len(ValsOf(a)) + j] = ValsOf(b)[j]
    <3> TAKE j \in 1 .. Len(ValsOf(b))
    <3>1. j \in DOMAIN b /\ Len(ValsOf(a)) + j = Len(a) + j
      BY <1>4, <1>5
    <3>2. ValsOf(c)[Len(a) + j] = c[Len(a) + j].val /\ ValsOf(b)[j] = b[j].val
      BY <1>3, <3>1 DEF ValsOf
    <3> QED BY <1>3, <3>1, <3>2
  <2>3. Len(ValsOf(c)) = Len(ValsOf(a)) + Len(ValsOf(b))
    BY <1>1, <1>5
  <2> QED BY <1>5, <2>1, <2>2, <2>3, ConcatIs
<1>7. \A i \in DOMAIN ValsOf(a) : i \in K(c) <=> i \in K(a)
  BY <1>2, <1>5
<1>8. \A j \in DOMAIN ValsOf(b) : Len(ValsOf(a)) + j \in K(c) <=> j \in K(b)
  BY <1>3, <1>5
<1> DEFINE P == K(c)
           A == K(a)
           B == K(b)
           va == ValsOf(a)
           vb == ValsOf(b)
<1>9. Pick(va \o vb, P) = Pick(va, A) \o Pick(vb, B)
  <2>1. /\ va \in Seq(Vals) /\ vb \in Seq(Vals)
        /\ \A i \in DOMAIN va : i \in P <=> i \in A
        /\ \A j \in DOMAIN vb : Len(va) + j \in P <=> j \in B
    BY <1>5, <1>7, <1>8
  <2> HIDE DEF va, vb, P, A, B
  <2> QED BY <2>1, PickConcat
<1> QED BY <1>6, <1>9, ValuesAre DEF Fields, c, K

LEMMA ValuesOne ==
  ASSUME NEW f \in FieldTypes, NEW k
  PROVE  ValuesOf(Fields(<<f>>), k) = IF f.key = k THEN <<f.val>> ELSE <<>>
<1>1. DOMAIN <<f>> = {1} /\ <<f>>[1] = f /\ <<f>> \in Seq(FieldTypes)
  OBVIOUS
<1>2. ValsOf(<<f>>) = <<f.val>>
  <2>1. ValsOf(<<f>>) = [i \in {1} |-> f.val]
    BY <1>1 DEF ValsOf
  <2>2. <<f.val>> = [i \in {1} |-> f.val]
    OBVIOUS
  <2> QED BY <2>1, <2>2
<1>3. f.val \in {f.val}
  OBVIOUS
<1> DEFINE K == {i \in DOMAIN <<f>> : <<f>>[i].key = k}
<1>4. 1 \in K <=> f.key = k
  BY <1>1
<1> HIDE DEF K
<1>5. Pick(<<f.val>>, K) = IF 1 \in K THEN <<f.val>> ELSE <<>>
  BY <1>3, PickOne
<1> QED BY <1>2, <1>4, <1>5, ValuesAre DEF Fields, K

LEMMA ValuesNone ==
  ASSUME NEW a \in Seq(FieldTypes), NEW k, \A i \in DOMAIN a : a[i].key # k
  PROVE  ValuesOf(Fields(a), k) = <<>>
<1>1. ValsOf(a) \in Seq(Vals) /\ DOMAIN ValsOf(a) = DOMAIN a
  BY ValsType
<1>2. \A i \in DOMAIN ValsOf(a) : i \notin {j \in DOMAIN a : a[j].key = k}
  OBVIOUS
<1>3. Pick(ValsOf(a), {j \in DOMAIN a : a[j].key = k}) = <<>>
  BY <1>1, <1>2, PickNone
<1> QED BY <1>3, ValuesAre DEF Fields

LEMMA ParseLineType ==
  ASSUME NEW line \in LineTypes
  PROVE  parse_line(line) \in SuperGroups
<1>1. line.fields \in Seq(FieldTypes)
  <2>1. <<>> \in Seq(FieldTypes)
    OBVIOUS
  <2> QED BY <2>1 DEF LineTypes
<1> DEFINE v == ValsOf(line.fields)
           K(k) == {i \in DOMAIN line.fields : line.fields[i].key = k}
<1>2. v \in Seq(Vals) /\ DOMAIN v = DOMAIN line.fields
  BY <1>1, ValsType
<1>3. \A i \in DOMAIN line.fields : line.fields[i] \in FieldTypes /\ v[i] = line.fields[i].val
  BY <1>1 DEF ValsOf
<1>4. \A f \in FieldTypes : /\ f.key = "NODESET" => f.val \in Groups
                            /\ f.key \in {"ID", "GROUPNAME"} => f.val \in Strings
  BY DEF FieldTypes
<1>5. \A k : ValuesOf(line, k) = Pick(v, K(k))
  BY ValuesAre
<1> HIDE DEF v
<1>6. \A k : /\ Pick(v, K(k)) \in Seq(Vals)
             /\ \A x \in Range(Pick(v, K(k))) : \E i \in DOMAIN line.fields : line.fields[i].key = k /\ x = v[i]
  <2> TAKE k
  <2>1. /\ Pick(v, K(k)) \in Seq(Vals)
        /\ \A x : x \in Range(Pick(v, K(k))) <=> \E i \in DOMAIN v : i \in K(k) /\ x = v[i]
    <3> HIDE DEF K
    <3> QED BY <1>2, PickFact
  <2> QED BY <1>2, <2>1
<1> HIDE DEF K
<1>7. ValuesOf(line, "NODESET") \in Seq(Groups)
  <2>1. \A x \in Range(Pick(v, K("NODESET"))) : x \in Groups
    BY <1>3, <1>4, <1>6
  <2> QED BY <1>5, <1>6, <2>1, InSeqOf
<1>8. ASSUME NEW k \in {"ID", "GROUPNAME"} PROVE LastOf(ValuesOf(line, k)) \in Strings
  <2>1. \A x \in Range(Pick(v, K(k))) : x \in Strings
    BY <1>3, <1>4, <1>6, <1>8
  <2>2. ValuesOf(line, k) \in Seq(Strings)
    BY <1>5, <1>6, <2>1, InSeqOf
  <2>3. ValuesOf(line, k) # <<>> => Last(ValuesOf(line, k)) \in Strings
    BY <2>2 DEF Last
  <2>4. \A s \in Strings : skip_spaces(s) \in Strings
    BY DEF Strings, skip_spaces, Word
  <2> QED BY <2>3, <2>4, EmptyString DEF LastOf
<1>9. FlattenSeq(ValuesOf(line, "NODESET")) \in Groups
  BY <1>7, FlattenFact DEF Groups
<1> QED BY <1>8, <1>9 DEF parse_line, SuperGroup, SuperGroups

\* What a file keeps of one super group, and whether it keeps it.
KeptOf(sg) == SuperGroup(skip_spaces(sg.id), skip_spaces(sg.name), FALSE, sg.groups)
Said(sg) == ~(sg.id = Empty /\ sg.name = Empty /\ sg.groups = <<>>)

\* The fields emit_sg() writes.
IdField(sg) == IF sg.id = Empty THEN <<>> ELSE <<Field("ID", sg.id)>>
NameField(sg) == IF sg.name = Empty THEN <<>> ELSE <<Field("GROUPNAME", sg.name)>>
NodeField(sg) == IF sg.groups = <<>> THEN <<>> ELSE <<Field("NODESET", sg.groups)>>

LEMMA FieldFact ==
  ASSUME NEW sg \in SuperGroups
  PROVE  /\ Field("ID", sg.id) \in FieldTypes /\ Field("GROUPNAME", sg.name) \in FieldTypes
         /\ Field("NODESET", sg.groups) \in FieldTypes
         /\ IdField(sg) \in Seq(FieldTypes) /\ NameField(sg) \in Seq(FieldTypes) /\ NodeField(sg) \in Seq(FieldTypes)
         /\ emit_sg(sg) = Fields(IdField(sg) \o NameField(sg) \o NodeField(sg))
<1>1. sg.id \in Strings /\ sg.name \in Strings /\ sg.groups \in Groups
  BY DEF SuperGroups
<1>2. /\ Field("ID", sg.id) \in FieldTypes /\ Field("GROUPNAME", sg.name) \in FieldTypes
      /\ Field("NODESET", sg.groups) \in FieldTypes
  BY <1>1 DEF Field, FieldTypes
<1>3. IdField(sg) \in Seq(FieldTypes) /\ NameField(sg) \in Seq(FieldTypes) /\ NodeField(sg) \in Seq(FieldTypes)
  BY <1>2 DEF IdField, NameField, NodeField
<1>4. emit_sg(sg) = Fields(IdField(sg) \o NameField(sg) \o NodeField(sg))
  BY DEF emit_sg, IdField, NameField, NodeField
<1> QED BY <1>2, <1>3, <1>4

\* The values of a line with up to one field of each key.
LEMMA ValuesEmitted ==
  ASSUME NEW sg \in SuperGroups
  PROVE  /\ ValuesOf(emit_sg(sg), "ID") = IF sg.id = Empty THEN <<>> ELSE <<sg.id>>
         /\ ValuesOf(emit_sg(sg), "GROUPNAME") = IF sg.name = Empty THEN <<>> ELSE <<sg.name>>
         /\ ValuesOf(emit_sg(sg), "NODESET") = IF sg.groups = <<>> THEN <<>> ELSE <<sg.groups>>
<1> DEFINE I == IdField(sg)
           N == NameField(sg)
           G == NodeField(sg)
           V(fs, k) == ValuesOf(Fields(fs), k)
<1>1. I \in Seq(FieldTypes) /\ N \in Seq(FieldTypes) /\ G \in Seq(FieldTypes) /\ emit_sg(sg) = Fields(I \o N \o G)
  BY FieldFact
<1>2. I \o N \in Seq(FieldTypes) /\ <<>> \in Seq(FieldTypes) /\ DOMAIN <<>> = {}
  BY <1>1
<1>3. \A k : V(I \o N \o G, k) = V(I, k) \o V(N, k) \o V(G, k)
  <2> HIDE DEF I, N, G
  <2> TAKE k
  <2> DEFINE c == I \o N
  <2>1. ValuesOf(Fields(c \o G), k) = ValuesOf(Fields(c), k) \o ValuesOf(Fields(G), k)
    <3>1. c \in Seq(FieldTypes)
      BY <1>2
    <3> HIDE DEF c
    <3> QED BY <1>1, <3>1, ValuesConcat
  <2>2. ValuesOf(Fields(I \o N), k) = ValuesOf(Fields(I), k) \o ValuesOf(Fields(N), k)
    BY <1>1, ValuesConcat
  <2> QED BY <2>1, <2>2
<1>4. \A k : V(<<>>, k) = <<>>
  BY <1>2, ValuesNone
<1>5. \A k : V(I, k) = IF sg.id # Empty /\ k = "ID" THEN <<sg.id>> ELSE <<>>
  <2>1. \A k : V(<<Field("ID", sg.id)>>, k) = IF "ID" = k THEN <<sg.id>> ELSE <<>>
    BY FieldFact, ValuesOne DEF Field
  <2> QED BY <1>4, <2>1 DEF IdField
<1>6. \A k : V(N, k) = IF sg.name # Empty /\ k = "GROUPNAME" THEN <<sg.name>> ELSE <<>>
  <2>1. \A k : V(<<Field("GROUPNAME", sg.name)>>, k) = IF "GROUPNAME" = k THEN <<sg.name>> ELSE <<>>
    BY FieldFact, ValuesOne DEF Field
  <2> QED BY <1>4, <2>1 DEF NameField
<1>7. \A k : V(G, k) = IF sg.groups # <<>> /\ k = "NODESET" THEN <<sg.groups>> ELSE <<>>
  <2>1. \A k : V(<<Field("NODESET", sg.groups)>>, k) = IF "NODESET" = k THEN <<sg.groups>> ELSE <<>>
    BY FieldFact, ValuesOne DEF Field
  <2> QED BY <1>4, <2>1 DEF NodeField
<1>8. \A x : <<x>> \o <<>> \o <<>> = <<x>> /\ <<>> \o <<x>> \o <<>> = <<x>> /\ <<>> \o <<>> \o <<x>> = <<x>>
  OBVIOUS
<1>9. <<>> \o <<>> \o <<>> = <<>>
  OBVIOUS
<1>10. \A k : ValuesOf(emit_sg(sg), k) = V(I, k) \o V(N, k) \o V(G, k)
  BY <1>1, <1>3
<1> HIDE DEF V, I, N, G
<1> QED BY <1>5, <1>6, <1>7, <1>8, <1>9, <1>10

\* parse() reads from the line of a super group what a file keeps of it; the
\* line is blank just when nothing is kept.
LEMMA ParseEmitted ==
  ASSUME NEW sg \in SuperGroups
  PROVE  /\ emit_sg(sg) \in LineTypes /\ emit_sg(sg).section = ""
         /\ emit_sg(sg).fields # <<>> <=> Said(sg)
         /\ parse_line(emit_sg(sg)) = KeptOf(sg)
<1> DEFINE I == IdField(sg)
           N == NameField(sg)
           G == NodeField(sg)
<1>1. I \in Seq(FieldTypes) /\ N \in Seq(FieldTypes) /\ G \in Seq(FieldTypes) /\ emit_sg(sg) = Fields(I \o N \o G)
  BY FieldFact
<1> DEFINE c == I \o N \o G
<1>a. emit_sg(sg) = Fields(c) /\ c \in Seq(FieldTypes)
  BY <1>1
<1> HIDE DEF c
<1>2. emit_sg(sg).section = "" /\ emit_sg(sg).fields = c
  BY <1>a, FieldsFact
<1>3. emit_sg(sg) \in LineTypes
  BY <1>a, FieldsFact
<1>4. emit_sg(sg).fields # <<>> <=> Said(sg)
  <2>1. I \o N \o G = <<>> <=> I = <<>> /\ N = <<>> /\ G = <<>>
    <3> HIDE DEF I, N, G
    <3>1. Len(I \o N \o G) = Len(I) + Len(N) + Len(G) /\ I \o N \o G \in Seq(FieldTypes)
      BY <1>1
    <3>2. \A s \in Seq(FieldTypes) : s = <<>> <=> Len(s) = 0
      OBVIOUS
    <3> QED BY <1>1, <3>1, <3>2
  <2>2. (I = <<>> <=> sg.id = Empty) /\ (N = <<>> <=> sg.name = Empty) /\ (G = <<>> <=> sg.groups = <<>>)
    BY DEF IdField, NameField, NodeField
  <2> QED BY <1>2, <2>1, <2>2 DEF Said, c
<1>5. parse_line(emit_sg(sg)) = KeptOf(sg)
  <2>1. sg.groups \in Seq(Seq(Nat))
    BY DEF SuperGroups, Groups
  <2>2. FlattenSeq(<<sg.groups>>) = sg.groups /\ FlattenSeq(<<>>) = <<>>
    BY <2>1, FlattenOne, FlattenFact
  <2>3. FlattenSeq(ValuesOf(emit_sg(sg), "NODESET")) = sg.groups
    BY <2>2, ValuesEmitted
  <2>4. \A s : LastOf(<<s>>) = skip_spaces(s)
    BY DEF LastOf, Last
  <2>5. LastOf(<<>>) = skip_spaces(Empty)
    BY EmptyString DEF LastOf
  <2>6. LastOf(ValuesOf(emit_sg(sg), "ID")) = skip_spaces(sg.id)
    BY <2>4, <2>5, ValuesEmitted
  <2>7. LastOf(ValuesOf(emit_sg(sg), "GROUPNAME")) = skip_spaces(sg.name)
    BY <2>4, <2>5, ValuesEmitted
  <2> QED BY <2>3, <2>6, <2>7 DEF parse_line, KeptOf
<1> QED BY <1>2, <1>3, <1>4, <1>5

-----------------------------------------------------------------------------
(* The sections of a file *)

LEMMA MaxFact ==
  ASSUME NEW n \in Nat, NEW S \in SUBSET (1 .. n), S # {}
  PROVE  Max(S) \in S /\ \A y \in S : Max(S) >= y
<1> DEFINE D == {d \in Nat : n - d \in S}
<1>1. \A y \in S : y \in 1 .. n /\ n - y \in D
  <2> TAKE y \in S
  <2>1. y \in 1 .. n /\ n - y \in Nat /\ n - (n - y) = y
    OBVIOUS
  <2> QED BY <2>1
<1>2. D # {}
  BY <1>1
<1>3. PICK d \in D : \A e \in D : ~(<<e, d>> \in OpToRel(<, Nat))
  BY <1>2, NatLessThanWellFounded, WFMin
<1>4. \A e \in D : ~(e < d)
  BY <1>3 DEF OpToRel
<1>5. n - d \in S /\ d \in Nat
  BY <1>3
<1>6. \A y \in S : n - d >= y
  <2> TAKE y \in S
  <2>1. ~(n - y < d) /\ y \in 1 .. n
    BY <1>1, <1>4
  <2> QED BY <1>5, <2>1
<1> QED BY <1>5, <1>6 DEF Max

Switches(file, i) == {j \in 1 .. i : file[j].section # ""}

LEMMA SectionAtAre ==
  ASSUME NEW file, NEW i
  PROVE  SectionAt(file, i) = IF Switches(file, i) = {} THEN "PATHINFO" ELSE file[Max(Switches(file, i))].section
BY DEF SectionAt, Switches

\* What follows a line does not change its section.
LEMMA SectionPrefix ==
  ASSUME NEW a \in Seq(LineTypes), NEW b \in Seq(LineTypes), NEW i \in 0 .. Len(a)
  PROVE  SectionAt(a \o b, i) = SectionAt(a, i)
<1> DEFINE c == a \o b
           S == Switches(a, i)
<1>1. i \in Nat /\ \A j \in 1 .. i : c[j] = a[j]
  OBVIOUS
<1> HIDE DEF c
<1>2. Switches(c, i) = S
  BY <1>1 DEF Switches
<1>3. S \in SUBSET (1 .. i)
  BY DEF Switches
<1> HIDE DEF S
<1>4. S # {} => Max(S) \in 1 .. i
  BY <1>1, <1>3, MaxFact
<1>5. S # {} => c[Max(S)] = a[Max(S)]
  BY <1>1, <1>4
<1> QED BY <1>2, <1>5, SectionAtAre DEF c, S

Parsed(file) == [i \in DOMAIN file |-> parse_line(file[i])]
InSection(file, s) == {i \in DOMAIN file : file[i].fields # <<>> /\ SectionAt(file, i) = s}

\* The super groups of lines that are all of one section.
Plain(lines) == Pick(Parsed(lines), {i \in DOMAIN lines : lines[i].fields # <<>>})

LEMMA ParsedType ==
  ASSUME NEW file \in Seq(LineTypes)
  PROVE  /\ Parsed(file) \in Seq(SuperGroups) /\ Len(Parsed(file)) = Len(file)
         /\ DOMAIN Parsed(file) = DOMAIN file
<1>1. DOMAIN file = 1 .. Len(file) /\ Len(file) \in Nat /\ \A i \in 1 .. Len(file) : file[i] \in LineTypes
  OBVIOUS
<1>2. Parsed(file) \in [1 .. Len(file) -> SuperGroups]
  BY <1>1, ParseLineType DEF Parsed
<1> QED BY <1>1, <1>2

LEMMA ParseType ==
  ASSUME NEW file \in Seq(LineTypes), NEW s
  PROVE  parse_sgl(file, s) \in Seq(SuperGroups) /\ parse_sgl(file, s) = Pick(Parsed(file), InSection(file, s))
<1>1. parse_sgl(file, s) = Pick(Parsed(file), InSection(file, s))
  BY DEF parse_sgl, Parsed, InSection
<1> QED BY <1>1, ParsedType, PickFact

LEMMA ParsedConcat ==
  ASSUME NEW a \in Seq(LineTypes), NEW b \in Seq(LineTypes)
  PROVE  Parsed(a \o b) = Parsed(a) \o Parsed(b)
<1> DEFINE c == a \o b
<1>1. c \in Seq(LineTypes) /\ Len(c) = Len(a) + Len(b) /\ Len(a) \in Nat /\ Len(b) \in Nat
  OBVIOUS
<1>2. \A i \in DOMAIN a : i \in DOMAIN c /\ c[i] = a[i]
  OBVIOUS
<1>3. \A j \in DOMAIN b : Len(a) + j \in DOMAIN c /\ c[Len(a) + j] = b[j]
  OBVIOUS
<1>4. DOMAIN a = 1 .. Len(a) /\ DOMAIN b = 1 .. Len(b)
  OBVIOUS
<1> HIDE DEF c
<1>5. /\ Parsed(a) \in Seq(SuperGroups) /\ Len(Parsed(a)) = Len(a)
      /\ Parsed(b) \in Seq(SuperGroups) /\ Len(Parsed(b)) = Len(b)
      /\ Parsed(c) \in Seq(SuperGroups) /\ Len(Parsed(c)) = Len(c)
  BY <1>1, ParsedType
<1>6. \A i \in 1 .. Len(Parsed(a)) : Parsed(c)[i] = Parsed(a)[i]
  BY <1>2, <1>4, <1>5 DEF Parsed
<1>7. \A j \in 1 .. Len(Parsed(b)) : Parsed(c)[Len(Parsed(a)) + j] = Parsed(b)[j]
  <2> TAKE j \in 1 .. Len(Parsed(b))
  <2>1. j \in DOMAIN b /\ Len(Parsed(a)) + j = Len(a) + j
    BY <1>4, <1>5
  <2>2. Parsed(c)[Len(a) + j] = parse_line(c[Len(a) + j]) /\ Parsed(b)[j] = parse_line(b[j])
    BY <1>3, <2>1 DEF Parsed
  <2> QED BY <1>3, <2>1, <2>2
<1>8. Len(Parsed(c)) = Len(Parsed(a)) + Len(Parsed(b))
  BY <1>1, <1>5
<1> QED BY <1>5, <1>6, <1>7, <1>8, ConcatIs DEF c

\* The lines of b that add to section s after the lines a.
Adding(a, b, s) == {j \in DOMAIN b : b[j].fields # <<>> /\ SectionAt(a \o b, Len(a) + j) = s}

\* What a file says, and what the lines b after it add.
LEMMA ParseConcat ==
  ASSUME NEW a \in Seq(LineTypes), NEW b \in Seq(LineTypes), NEW s
  PROVE  parse_sgl(a \o b, s) = parse_sgl(a, s) \o Pick(Parsed(b), Adding(a, b, s))
<1> DEFINE c == a \o b
           pa == Parsed(a)
           pb == Parsed(b)
           P == InSection(c, s)
           A == InSection(a, s)
           B == Adding(a, b, s)
<1>1. c \in Seq(LineTypes)
  OBVIOUS
<1>2. \A i \in DOMAIN a : i \in DOMAIN c /\ c[i] = a[i] /\ SectionAt(c, i) = SectionAt(a, i)
  BY SectionPrefix
<1>3. \A j \in DOMAIN b : Len(a) + j \in DOMAIN c /\ c[Len(a) + j] = b[j]
  OBVIOUS
<1>4. pa \in Seq(SuperGroups) /\ Len(pa) = Len(a) /\ DOMAIN pa = DOMAIN a /\ pb \in Seq(SuperGroups) /\ DOMAIN pb = DOMAIN b
  BY ParsedType
<1>5. \A i \in DOMAIN pa : i \in P <=> i \in A
  <2> HIDE DEF c
  <2> QED BY <1>2, <1>4 DEF InSection
<1>6. \A j \in DOMAIN pb : Len(pa) + j \in P <=> j \in B
  <2>1. \A j \in DOMAIN b : SectionAt(c, Len(a) + j) = s /\ b[j].fields # <<>> <=> j \in B
    BY DEF Adding
  <2> HIDE DEF c
  <2> QED BY <1>3, <1>4, <2>1 DEF InSection
<1>7. Parsed(c) = pa \o pb
  BY ParsedConcat
<1>8. parse_sgl(c, s) = Pick(Parsed(c), P) /\ parse_sgl(a, s) = Pick(pa, A)
  BY <1>1, ParseType
<1> HIDE DEF c, pa, pb, P, A, B
<1>9. Pick(pa \o pb, P) = Pick(pa, A) \o Pick(pb, B)
  <2>1. pa \in Seq(SuperGroups) /\ pb \in Seq(SuperGroups)
    BY <1>4
  <2> QED BY <2>1, <1>5, <1>6, PickConcat
<1> QED BY <1>7, <1>8, <1>9 DEF c, pb, B

NoSwitch(lines) == \A j \in DOMAIN lines : lines[j].section = ""

\* Lines that do not switch the section add their super groups to the section
\* the file is in.
LEMMA ParsePlain ==
  ASSUME NEW a \in Seq(LineTypes), NEW b \in Seq(LineTypes), NoSwitch(b)
  PROVE  /\ SectionAt(a \o b, Len(a) + Len(b)) = SectionAt(a, Len(a))
         /\ \A s : parse_sgl(a \o b, s) = parse_sgl(a, s) \o (IF SectionAt(a, Len(a)) = s THEN Plain(b) ELSE <<>>)
<1> DEFINE c == a \o b
           n == Len(a)
           cur == SectionAt(a, n)
<1>1. n \in Nat /\ Len(b) \in Nat /\ DOMAIN b = 1 .. Len(b)
  OBVIOUS
<1>2. \A j \in DOMAIN b : c[n + j] = b[j]
  OBVIOUS
<1>3. SectionAt(c, n) = cur
  <2>1. n \in 0 .. Len(a)
    OBVIOUS
  <2> QED BY <2>1, SectionPrefix
<1> HIDE DEF c, n, cur
<1>4. ASSUME NEW j \in 0 .. Len(b) PROVE SectionAt(c, n + j) = cur
  <2>1. \A i \in 1 .. n + j : i \in 1 .. n \/ c[i].section = ""
    <3> TAKE i \in 1 .. n + j
    <3>1. i \notin 1 .. n => i - n \in DOMAIN b /\ i = n + (i - n)
      BY <1>1
    <3>2. i \notin 1 .. n => c[i] = b[i - n]
      BY <1>2, <3>1
    <3> QED BY <3>1, <3>2 DEF NoSwitch
  <2>2. \A i \in 1 .. n : i \in 1 .. n + j
    BY <1>1
  <2>3. Switches(c, n + j) = Switches(c, n)
    BY <2>1, <2>2 DEF Switches
  <2> QED BY <1>3, <2>3, SectionAtAre
<1>5. ASSUME NEW s PROVE parse_sgl(c, s) = parse_sgl(a, s) \o (IF cur = s THEN Plain(b) ELSE <<>>)
  <2> DEFINE B == IF cur = s THEN {i \in DOMAIN b : b[i].fields # <<>>} ELSE {}
  <2>1. \A j \in DOMAIN b : SectionAt(c, n + j) = cur
    BY <1>1, <1>4
  <2>2. Adding(a, b, s) = B
    BY <2>1 DEF Adding, c, n
  <2>3. Pick(Parsed(b), B) = IF cur = s THEN Plain(b) ELSE <<>>
    <3>1. CASE cur = s
      BY <3>1 DEF Plain
    <3>2. CASE cur # s
      <4>1. Parsed(b) \in Seq(SuperGroups)
        BY ParsedType
      <4>2. B = {} /\ \A i \in DOMAIN Parsed(b) : i \notin {}
        BY <3>2
      <4>3. Pick(Parsed(b), {}) = <<>>
        BY <4>1, <4>2, PickNone
      <4> QED BY <3>2, <4>2, <4>3
    <3> QED BY <3>1, <3>2
  <2> HIDE DEF B
  <2>4. parse_sgl(a \o b, s) = parse_sgl(a, s) \o Pick(Parsed(b), B)
    BY <2>2, ParseConcat
  <2> QED BY <2>3, <2>4 DEF c
<1>6. SectionAt(c, n + Len(b)) = cur
  <2>1. Len(b) \in 0 .. Len(b)
    BY <1>1
  <2> QED BY <1>4, <2>1
<1> QED BY <1>5, <1>6 DEF c, n, cur

\* A switch adds nothing, and the file is in its section after it.
LEMMA ParseSwitch ==
  ASSUME NEW a \in Seq(LineTypes), NEW x \in {"PATHINFO", "SIMILARINFO", "other"}
  PROVE  /\ SectionAt(a \o <<Section(x)>>, Len(a) + 1) = x
         /\ \A s : parse_sgl(a \o <<Section(x)>>, s) = parse_sgl(a, s)
<1> DEFINE l == Section(x)
<1>0. l \in LineTypes
  BY SectionFact
<1>a. l.section = x /\ l.fields = <<>> /\ x # ""
  BY SectionFact
<1> HIDE DEF l
<1> DEFINE b == <<l>>
           c == a \o b
           n == Len(a)
<1>1. n \in Nat /\ b \in Seq(LineTypes) /\ DOMAIN b = {1} /\ b[1] = l /\ c[n + 1] = l
  BY <1>0
<1> HIDE DEF b
<1>2. SectionAt(c, n + 1) = x
  <2> HIDE DEF c, n
  <2> DEFINE S == Switches(c, n + 1)
  <2>1. n + 1 \in S /\ S \in SUBSET (1 .. n + 1)
    <3>1. n + 1 \in 1 .. n + 1
      BY <1>1
    <3>2. c[n + 1].section # ""
      BY <1>a, <1>1
    <3> QED BY <3>1, <3>2 DEF Switches
  <2>2. n + 1 \in Nat /\ S # {}
    BY <1>1, <2>1
  <2>3. Max(S) \in S /\ Max(S) >= n + 1
    <3> HIDE DEF S
    <3> QED BY <2>1, <2>2, MaxFact
  <2>4. Max(S) = n + 1
    BY <1>1, <2>1, <2>3
  <2> QED BY <1>a, <1>1, <2>2, <2>4, SectionAtAre
<1>3. ASSUME NEW s PROVE parse_sgl(c, s) = parse_sgl(a, s)
  <2>1. Adding(a, b, s) = {}
    BY <1>a, <1>1 DEF Adding
  <2>2. parse_sgl(c, s) = parse_sgl(a, s) \o Pick(Parsed(b), {})
    <3>1. parse_sgl(c, s) = parse_sgl(a, s) \o Pick(Parsed(b), Adding(a, b, s))
      BY <1>1, ParseConcat
    <3> QED BY <2>1, <3>1
  <2>3. Pick(Parsed(b), {}) = <<>>
    <3>1. Parsed(b) \in Seq(SuperGroups) /\ \A i \in DOMAIN Parsed(b) : i \notin {}
      BY <1>1, ParsedType
    <3> QED BY <3>1, PickNone
  <2>4. parse_sgl(a, s) \in Seq(SuperGroups)
    BY ParseType
  <2> QED BY <2>2, <2>3, <2>4
<1> QED BY <1>2, <1>3 DEF b, l

-----------------------------------------------------------------------------
(* What is written is what is read *)

Managers == [path : Seq(SuperGroups), similar : Seq(SuperGroups)]

\* The lines of a list of super groups say what a file keeps of it.
LEMMA EmitList ==
  ASSUME NEW sgl \in Seq(SuperGroups)
  PROVE  /\ emit_sgl(sgl) \in Seq(LineTypes) /\ Len(emit_sgl(sgl)) = Len(sgl) /\ NoSwitch(emit_sgl(sgl))
         /\ Plain(emit_sgl(sgl)) = Kept(sgl)
<1> DEFINE e == emit_sgl(sgl)
<1>1. DOMAIN sgl = 1 .. Len(sgl) /\ Len(sgl) \in Nat /\ \A i \in 1 .. Len(sgl) : sgl[i] \in SuperGroups
  OBVIOUS
<1>2. DOMAIN e = DOMAIN sgl /\ \A i \in DOMAIN sgl : e[i] = emit_sg(sgl[i])
  BY DEF emit_sgl
<1>3. \A i \in DOMAIN sgl : /\ emit_sg(sgl[i]) \in LineTypes /\ emit_sg(sgl[i]).section = ""
                            /\ emit_sg(sgl[i]).fields # <<>> <=> Said(sgl[i])
                            /\ parse_line(emit_sg(sgl[i])) = KeptOf(sgl[i])
  BY <1>1, ParseEmitted
<1>4. e \in [1 .. Len(sgl) -> LineTypes]
  BY <1>1, <1>3 DEF emit_sgl
<1>5. e \in Seq(LineTypes) /\ Len(e) = Len(sgl)
  BY <1>1, <1>4
<1> HIDE DEF e
<1>6. NoSwitch(e)
  BY <1>2, <1>3 DEF NoSwitch
<1> DEFINE k == [i \in DOMAIN sgl |-> KeptOf(sgl[i])]
           S == {i \in DOMAIN sgl : Said(sgl[i])}
<1>7. Parsed(e) = k
  BY <1>2, <1>3 DEF Parsed
<1>8. {i \in DOMAIN e : e[i].fields # <<>>} = S
  BY <1>2, <1>3
<1>9. Kept(sgl) = Pick(k, S)
  BY DEF Kept, KeptOf, Said
<1>10. Plain(e) = Kept(sgl)
  BY <1>7, <1>8, <1>9 DEF Plain
<1> QED BY <1>5, <1>6, <1>10 DEF e

\* The beginning of a file up to the end of its path section.
PathPart(sgl) == <<Section("PATHINFO")>> \o emit_sgl(sgl)

LEMMA ParsePath ==
  ASSUME NEW sgl \in Seq(SuperGroups)
  PROVE  /\ PathPart(sgl) \in Seq(LineTypes) /\ Len(PathPart(sgl)) = Len(sgl) + 1
         /\ SectionAt(PathPart(sgl), Len(PathPart(sgl))) = "PATHINFO"
         /\ parse_sgl(PathPart(sgl), "PATHINFO") = Kept(sgl)
         /\ parse_sgl(PathPart(sgl), "SIMILARINFO") = <<>>
<1> DEFINE l == Section("PATHINFO")
           b == emit_sgl(sgl)
<1>1. l \in LineTypes
  BY SectionFact
<1>2. <<>> \in Seq(LineTypes) /\ Len(<<>>) = 0 /\ DOMAIN <<>> = {}
  OBVIOUS
<1>3. \A s : parse_sgl(<<>>, s) = <<>>
  <2> TAKE s
  <2>1. parse_sgl(<<>>, s) = Pick(Parsed(<<>>), InSection(<<>>, s))
    BY <1>2, ParseType
  <2>2. Parsed(<<>>) \in Seq(SuperGroups) /\ \A i \in DOMAIN Parsed(<<>>) : i \notin InSection(<<>>, s)
    BY <1>2, ParsedType
  <2> QED BY <2>1, <2>2, PickNone
<1>4. SectionAt(<<>> \o <<l>>, Len(<<>>) + 1) = "PATHINFO" /\ \A s : parse_sgl(<<>> \o <<l>>, s) = parse_sgl(<<>>, s)
  BY <1>2, ParseSwitch
<1> HIDE DEF l
<1> DEFINE a == <<l>>
<1>5. a \in Seq(LineTypes) /\ Len(a) = 1 /\ <<>> \o <<l>> = a
  BY <1>1
<1>6. SectionAt(a, Len(a)) = "PATHINFO" /\ \A s : parse_sgl(a, s) = <<>>
  BY <1>2, <1>3, <1>4, <1>5
<1>7. b \in Seq(LineTypes) /\ Len(b) = Len(sgl) /\ NoSwitch(b) /\ Plain(b) = Kept(sgl)
  BY EmitList
<1> HIDE DEF a, b
<1>8. /\ SectionAt(a \o b, Len(a) + Len(b)) = "PATHINFO"
      /\ \A s : parse_sgl(a \o b, s) = <<>> \o (IF "PATHINFO" = s THEN Plain(b) ELSE <<>>)
  <2>1. a \in Seq(LineTypes) /\ b \in Seq(LineTypes) /\ NoSwitch(b)
    BY <1>5, <1>7
  <2>2. /\ SectionAt(a \o b, Len(a) + Len(b)) = SectionAt(a, Len(a))
        /\ \A s : parse_sgl(a \o b, s) = parse_sgl(a, s) \o (IF SectionAt(a, Len(a)) = s THEN Plain(b) ELSE <<>>)
    BY <2>1, ParsePlain
  <2> QED BY <1>6, <2>2
<1>9. a \o b \in Seq(LineTypes) /\ Len(a \o b) = Len(a) + Len(b) /\ Len(a) + Len(b) = Len(sgl) + 1
  <2>1. a \in Seq(LineTypes) /\ b \in Seq(LineTypes) /\ Len(sgl) \in Nat
    BY <1>5, <1>7
  <2>2. Len(a) = 1 /\ Len(b) = Len(sgl)
    BY <1>5, <1>7
  <2>3. a \o b \in Seq(LineTypes) /\ Len(a \o b) = Len(a) + Len(b)
    BY <2>1
  <2>4. Len(a) + Len(b) = Len(sgl) + 1
    BY <2>1, <2>2
  <2> QED BY <2>3, <2>4
<1>10. Kept(sgl) \in Seq(SuperGroups)
  <2>1. parse_sgl(b, "PATHINFO") \in Seq(SuperGroups) /\ Parsed(b) \in Seq(SuperGroups)
    BY <1>7, ParseType, ParsedType
  <2>2. Plain(b) \in Seq(SuperGroups)
    BY <2>1, PickFact DEF Plain
  <2> QED BY <1>7, <2>2
<1>11. <<>> \o Kept(sgl) = Kept(sgl) /\ <<>> \o <<>> = <<>>
  BY <1>10
<1>12. PathPart(sgl) = a \o b
  BY DEF PathPart, a, b, l
<1> QED BY <1>7, <1>8, <1>9, <1>11, <1>12

\* The file from the switch to the similar section on, whole or not: nothing of
\* the path section is added or lost.
LEMMA ParseSimilar ==
  ASSUME NEW sgl \in Seq(SuperGroups), NEW b \in Seq(LineTypes), NoSwitch(b)
  PROVE  LET f == PathPart(sgl) \o <<Section("SIMILARINFO")>> \o b
         IN  parse_sgl(f, "PATHINFO") = Kept(sgl) /\ parse_sgl(f, "SIMILARINFO") = Plain(b)
<1> DEFINE l == Section("SIMILARINFO")
           p == PathPart(sgl)
           a == p \o <<l>>
<1>1. l \in LineTypes
  BY SectionFact
<1>2. /\ p \in Seq(LineTypes)
      /\ parse_sgl(p, "PATHINFO") = Kept(sgl)
      /\ parse_sgl(p, "SIMILARINFO") = <<>>
  BY ParsePath
<1>3. SectionAt(p \o <<l>>, Len(p) + 1) = "SIMILARINFO" /\ \A s : parse_sgl(p \o <<l>>, s) = parse_sgl(p, s)
  <2> HIDE DEF p
  <2> QED BY <1>2, ParseSwitch
<1> HIDE DEF l, p
<1>4. a \in Seq(LineTypes) /\ Len(a) = Len(p) + 1
  BY <1>1, <1>2
<1>5. SectionAt(a, Len(a)) = "SIMILARINFO" /\ parse_sgl(a, "PATHINFO") = Kept(sgl) /\ parse_sgl(a, "SIMILARINFO") = <<>>
  BY <1>2, <1>3, <1>4
<1> HIDE DEF a
<1>6. \A s : parse_sgl(a \o b, s) = parse_sgl(a, s) \o (IF SectionAt(a, Len(a)) = s THEN Plain(b) ELSE <<>>)
  BY <1>4, ParsePlain
<1>7. Kept(sgl) \in Seq(SuperGroups) /\ Plain(b) \in Seq(SuperGroups)
  <2>1. Parsed(b) \in Seq(SuperGroups)
    BY ParsedType
  <2>2. Plain(b) \in Seq(SuperGroups)
    BY <2>1, PickFact DEF Plain
  <2> QED BY <1>4, <1>5, <2>2, ParseType
<1>8. Kept(sgl) \o <<>> = Kept(sgl) /\ <<>> \o Plain(b) = Plain(b)
  BY <1>7
<1>9. parse_sgl(a \o b, "PATHINFO") = Kept(sgl) /\ parse_sgl(a \o b, "SIMILARINFO") = Plain(b)
  BY <1>5, <1>6, <1>8
<1> QED BY <1>9 DEF a, p, l

LEMMA EmitIs ==
  ASSUME NEW m \in Managers
  PROVE  /\ emit(m) = PathPart(m.path) \o <<Section("SIMILARINFO")>> \o emit_sgl(m.similar)
         /\ emit(m) \in Seq(LineTypes)
<1>1. m.path \in Seq(SuperGroups) /\ m.similar \in Seq(SuperGroups)
  BY DEF Managers
<1>2. PathPart(m.path) \in Seq(LineTypes) /\ emit_sgl(m.similar) \in Seq(LineTypes) /\ Section("SIMILARINFO") \in LineTypes
  BY <1>1, ParsePath, EmitList, SectionFact
<1>3. emit(m) = PathPart(m.path) \o <<Section("SIMILARINFO")>> \o emit_sgl(m.similar)
  BY DEF emit, PathPart
<1> QED BY <1>2, <1>3

LEMMA ParseEmit ==
  ASSUME NEW m \in Managers
  PROVE  parse(emit(m)) = [path |-> Kept(m.path), similar |-> Kept(m.similar)]
<1>1. m.path \in Seq(SuperGroups) /\ m.similar \in Seq(SuperGroups)
  BY DEF Managers
<1> DEFINE b == emit_sgl(m.similar)
<1>2. b \in Seq(LineTypes) /\ NoSwitch(b) /\ Plain(b) = Kept(m.similar)
  BY <1>1, EmitList
<1> HIDE DEF b
<1>3. LET f == PathPart(m.path) \o <<Section("SIMILARINFO")>> \o b
      IN  parse_sgl(f, "PATHINFO") = Kept(m.path) /\ parse_sgl(f, "SIMILARINFO") = Plain(b)
  BY <1>1, <1>2, ParseSimilar
<1>4. emit(m) = PathPart(m.path) \o <<Section("SIMILARINFO")>> \o b
  BY EmitIs DEF b
<1> QED BY <1>2, <1>3, <1>4 DEF parse

-----------------------------------------------------------------------------
(* No id twice *)

LEMMA GroupsOf ==
  ASSUME NEW sgl \in Seq(SuperGroups)
  PROVE  /\ Len(sgl) \in Nat /\ DOMAIN sgl = 1 .. Len(sgl)
         /\ \A i \in DOMAIN sgl : sgl[i] \in SuperGroups /\ sgl[i].groups \in Seq(Seq(Nat))
<1>1. \A sg \in SuperGroups : sg.groups \in Seq(Seq(Nat))
  BY DEF SuperGroups, Groups
<1>2. \A i \in DOMAIN sgl : sgl[i] \in SuperGroups
  OBVIOUS
<1> QED BY <1>1, <1>2

\* NamedOnce() by the indices of super groups and groups.
OnceIn(sgl) ==
    \A i \in DOMAIN sgl : \A j \in DOMAIN sgl[i].groups :
       /\ Distinct(sgl[i].groups[j])
       /\ \A i2 \in DOMAIN sgl : \A j2 \in DOMAIN sgl[i2].groups :
             i # i2 \/ j # j2 => Range(sgl[i].groups[j]) \cap Range(sgl[i2].groups[j2]) = {}

LEMMA NamedOnceIs ==
  ASSUME NEW sgl
  PROVE  NamedOnce(sgl) <=> OnceIn(sgl)
<1>1. \A p : p \in Positions(sgl) <=> \E i \in DOMAIN sgl : \E j \in DOMAIN sgl[i].groups : p = <<i, j>>
  BY DEF Positions
<1>2. \A i, j : GroupAt(sgl, <<i, j>>) = sgl[i].groups[j]
  BY DEF GroupAt
<1>3. \A f : IsInjective(f) <=> Distinct(f)
  BY DEF IsInjective, Distinct
<1>4. ASSUME NamedOnce(sgl) PROVE OnceIn(sgl)
  <2> SUFFICES ASSUME NEW i \in DOMAIN sgl, NEW j \in DOMAIN sgl[i].groups
               PROVE  /\ Distinct(sgl[i].groups[j])
                      /\ \A i2 \in DOMAIN sgl : \A j2 \in DOMAIN sgl[i2].groups :
                            i # i2 \/ j # j2 => Range(sgl[i].groups[j]) \cap Range(sgl[i2].groups[j2]) = {}
    BY DEF OnceIn
  <2> DEFINE p == <<i, j>>
  <2>1. p \in Positions(sgl) /\ GroupAt(sgl, p) = sgl[i].groups[j]
    BY <1>1, <1>2
  <2>2. Distinct(sgl[i].groups[j])
    BY <1>3, <1>4, <2>1 DEF NamedOnce
  <2>3. ASSUME NEW i2 \in DOMAIN sgl, NEW j2 \in DOMAIN sgl[i2].groups, i # i2 \/ j # j2
        PROVE  Range(sgl[i].groups[j]) \cap Range(sgl[i2].groups[j2]) = {}
    <3> DEFINE q == <<i2, j2>>
    <3>1. q \in Positions(sgl) /\ GroupAt(sgl, q) = sgl[i2].groups[j2]
      BY <1>1, <1>2
    <3>2. q # p
      BY <2>3
    <3> HIDE DEF p, q
    <3>3. Range(GroupAt(sgl, p)) \cap Range(GroupAt(sgl, q)) = {}
      BY <1>4, <2>1, <3>1, <3>2 DEF NamedOnce
    <3> QED BY <2>1, <3>1, <3>3
  <2> QED BY <2>2, <2>3
<1>5. ASSUME OnceIn(sgl) PROVE NamedOnce(sgl)
  <2> SUFFICES ASSUME NEW p \in Positions(sgl)
               PROVE  /\ IsInjective(GroupAt(sgl, p))
                      /\ \A q \in Positions(sgl) \ {p} : Range(GroupAt(sgl, p)) \cap Range(GroupAt(sgl, q)) = {}
    BY DEF NamedOnce
  <2>1. PICK i \in DOMAIN sgl : \E j \in DOMAIN sgl[i].groups : p = <<i, j>>
    BY <1>1
  <2>2. PICK j \in DOMAIN sgl[i].groups : p = <<i, j>>
    BY <2>1
  <2>3. GroupAt(sgl, p) = sgl[i].groups[j]
    BY <1>2, <2>2
  <2>4. IsInjective(GroupAt(sgl, p))
    BY <1>3, <1>5, <2>3 DEF OnceIn
  <2>5. ASSUME NEW q \in Positions(sgl) \ {p} PROVE Range(GroupAt(sgl, p)) \cap Range(GroupAt(sgl, q)) = {}
    <3>1. PICK i2 \in DOMAIN sgl : \E j2 \in DOMAIN sgl[i2].groups : q = <<i2, j2>>
      BY <1>1
    <3>2. PICK j2 \in DOMAIN sgl[i2].groups : q = <<i2, j2>>
      BY <3>1
    <3>3. GroupAt(sgl, q) = sgl[i2].groups[j2] /\ (i # i2 \/ j # j2)
      BY <1>2, <2>2, <3>2
    <3> QED BY <1>5, <2>3, <3>3 DEF OnceIn
  <2> QED BY <2>4, <2>5
<1> QED BY <1>4, <1>5

LEMMA OnceSame ==
  ASSUME NEW p, NEW q, DOMAIN p = DOMAIN q, \A i \in DOMAIN p : p[i].groups = q[i].groups, OnceIn(p)
  PROVE  OnceIn(q)
<1>1. ASSUME NEW i \in DOMAIN q, NEW j \in DOMAIN q[i].groups
      PROVE  /\ Distinct(q[i].groups[j])
             /\ \A i2 \in DOMAIN q : \A j2 \in DOMAIN q[i2].groups :
                   i # i2 \/ j # j2 => Range(q[i].groups[j]) \cap Range(q[i2].groups[j2]) = {}
  <2>1. i \in DOMAIN p /\ j \in DOMAIN p[i].groups /\ p[i].groups = q[i].groups
    OBVIOUS
  <2>2. Distinct(q[i].groups[j])
    BY <2>1 DEF OnceIn
  <2>3. ASSUME NEW i2 \in DOMAIN q, NEW j2 \in DOMAIN q[i2].groups, i # i2 \/ j # j2
        PROVE  Range(q[i].groups[j]) \cap Range(q[i2].groups[j2]) = {}
    <3>1. i2 \in DOMAIN p /\ j2 \in DOMAIN p[i2].groups /\ p[i2].groups = q[i2].groups
      OBVIOUS
    <3>2. Range(p[i].groups[j]) \cap Range(p[i2].groups[j2]) = {}
      BY <2>1, <2>3, <3>1 DEF OnceIn
    <3> QED BY <2>1, <3>1, <3>2
  <2> QED BY <2>2, <2>3
<1> QED BY <1>1 DEF OnceIn

\* What Pick leaves of the super groups still names no id twice.
LEMMA OncePick ==
  ASSUME NEW sgl \in Seq(SuperGroups), NEW P, OnceIn(sgl)
  PROVE  OnceIn(Pick(sgl, P))
<1> DEFINE q == Pick(sgl, P)
<1>1. PICK f : From(sgl, P, f)
  BY PickIndex
<1>2. /\ \A a \in DOMAIN q : f[a] \in DOMAIN sgl /\ q[a] = sgl[f[a]]
      /\ \A a, b \in DOMAIN q : f[a] = f[b] => a = b
  BY <1>1 DEF From, IsInjective
<1> HIDE DEF q
<1>3. ASSUME NEW i \in DOMAIN q, NEW j \in DOMAIN q[i].groups
      PROVE  /\ Distinct(q[i].groups[j])
             /\ \A i2 \in DOMAIN q : \A j2 \in DOMAIN q[i2].groups :
                   i # i2 \/ j # j2 => Range(q[i].groups[j]) \cap Range(q[i2].groups[j2]) = {}
  <2>1. f[i] \in DOMAIN sgl /\ j \in DOMAIN sgl[f[i]].groups /\ q[i].groups[j] = sgl[f[i]].groups[j]
    BY <1>2
  <2>2. Distinct(q[i].groups[j])
    BY <2>1 DEF OnceIn
  <2>3. ASSUME NEW i2 \in DOMAIN q, NEW j2 \in DOMAIN q[i2].groups, i # i2 \/ j # j2
        PROVE  Range(q[i].groups[j]) \cap Range(q[i2].groups[j2]) = {}
    <3>1. f[i2] \in DOMAIN sgl /\ j2 \in DOMAIN sgl[f[i2]].groups /\ q[i2].groups[j2] = sgl[f[i2]].groups[j2]
      BY <1>2
    <3>2. f[i] # f[i2] \/ j # j2
      BY <1>2, <2>3
    <3> QED BY <2>1, <3>1, <3>2 DEF OnceIn
  <2> QED BY <2>2, <2>3
<1> QED BY <1>3 DEF OnceIn, q

LEMMA OnceKeptSGs ==
  ASSUME NEW sgl \in Seq(SuperGroups), NEW S, OnceIn(sgl)
  PROVE  OnceIn(KeptSGs(sgl, S))
BY OncePick DEF KeptSGs

-----------------------------------------------------------------------------
(* The commands keep a manager a manager, and a tidy one with no id twice tidy *)

\* What Reloadable needs of the manager: a first group with a node.
Solid(m) == m.path # <<>> /\ Tidy(m)
Sound(m) == Solid(m) /\ NamedOnce(m.path)

LEMMA ManagerFact ==
  ASSUME NEW m \in Managers, NEW p \in Seq(SuperGroups)
  PROVE  /\ m.path \in Seq(SuperGroups) /\ m.similar \in Seq(SuperGroups)
         /\ [m EXCEPT !.path = p] \in Managers
         /\ [m EXCEPT !.path = p].path = p /\ [m EXCEPT !.path = p].similar = m.similar
BY DEF Managers

LEMMA WithGroups ==
  ASSUME NEW sg \in SuperGroups, NEW gs \in Groups
  PROVE  [sg EXCEPT !.groups = gs] \in SuperGroups /\ [sg EXCEPT !.groups = gs].groups = gs
BY DEF SuperGroups

\* A list of super groups made from the positions of another one.
LEMMA ListType ==
  ASSUME NEW T, NEW U, NEW s \in Seq(T), NEW f, f = [i \in DOMAIN s |-> f[i]], \A i \in DOMAIN s : f[i] \in U
  PROVE  f \in Seq(U) /\ Len(f) = Len(s) /\ DOMAIN f = DOMAIN s
<1>1. DOMAIN s = 1 .. Len(s) /\ Len(s) \in Nat
  OBVIOUS
<1>2. f \in [1 .. Len(s) -> U]
  BY <1>1
<1> QED BY <1>1, <1>2

\* The groups the sanitizer makes of missing blocks.
Alone(missing) == Pick([k \in 1 .. NBlocks |-> <<k - 1>>], {n + 1 : n \in missing})

LEMMA AloneFact ==
  ASSUME NEW missing \in SUBSET Blocks
  PROVE  /\ Alone(missing) \in Groups
         /\ \A g : g \in Range(Alone(missing)) <=> \E n \in missing : g = <<n>>
<1> DEFINE s == [k \in 1 .. NBlocks |-> <<k - 1>>]
           P == {n + 1 : n \in missing}
<1>1. NBlocks \in Nat
  BY FileAssumption
<1>2. \A k \in 1 .. NBlocks : <<k - 1>> \in Seq(Nat)
  <2> TAKE k \in 1 .. NBlocks
  <2>1. k - 1 \in Nat
    BY <1>1
  <2> QED BY <2>1
<1>3. s \in [1 .. NBlocks -> Seq(Nat)]
  BY <1>2
<1>4. s \in Seq(Seq(Nat)) /\ DOMAIN s = 1 .. NBlocks
  BY <1>1, <1>3
<1>5. \A k \in 1 .. NBlocks : s[k] = <<k - 1>>
  OBVIOUS
<1> HIDE DEF s, P
<1>6. Pick(s, P) \in Seq(Seq(Nat)) /\ \A g : g \in Range(Pick(s, P)) <=> \E i \in DOMAIN s : i \in P /\ g = s[i]
  <2>1. s \in Seq(Seq(Nat))
    BY <1>4
  <2> QED BY <2>1, PickFact
<1>7. \A n \in missing : n \in Nat /\ n + 1 \in 1 .. NBlocks /\ (n + 1) - 1 = n
  BY <1>1 DEF Blocks
<1>8. ASSUME NEW g PROVE (\E i \in DOMAIN s : i \in P /\ g = s[i]) <=> \E n \in missing : g = <<n>>
  <2>1. ASSUME NEW i \in DOMAIN s, i \in P, g = s[i] PROVE \E n \in missing : g = <<n>>
    <3>1. PICK n \in missing : i = n + 1
      BY <2>1 DEF P
    <3>2. i - 1 = n /\ s[i] = <<i - 1>>
      BY <1>4, <1>5, <1>7, <3>1
    <3> QED BY <2>1, <3>1, <3>2
  <2>2. ASSUME NEW n \in missing, g = <<n>> PROVE \E i \in DOMAIN s : i \in P /\ g = s[i]
    <3> DEFINE i == n + 1
    <3>1. i \in DOMAIN s /\ i \in P /\ i - 1 = n
      BY <1>4, <1>7 DEF P
    <3> HIDE DEF i
    <3>2. s[i] = <<i - 1>>
      BY <1>4, <1>5, <3>1
    <3> QED BY <2>2, <3>1, <3>2
  <2> QED BY <2>1, <2>2
<1> QED BY <1>6, <1>8 DEF Alone, Groups, s, P

Missing(m) == {n \in Blocks : n \notin NodesIn(m.path) /\ n \notin NodesIn(m.similar)}
OrphanSG(m) == SuperGroup(Word(Orphans), Word(Orphans), TRUE, Alone(Missing(m)))

LEMMA SanitizeIs ==
  ASSUME NEW m
  PROVE  sanitize_groupman(m) = IF Missing(m) = {} THEN m ELSE [m EXCEPT !.path = Append(m.path, OrphanSG(m))]
BY DEF sanitize_groupman, Missing, OrphanSG, Alone

LEMMA OrphanFact ==
  ASSUME NEW m
  PROVE  OrphanSG(m) \in SuperGroups /\ OrphanSG(m).groups = Alone(Missing(m))
<1>1. Word(Orphans) \in Strings
  BY FileAssumption DEF Word, Strings
<1>2. Alone(Missing(m)) \in Groups
  BY AloneFact DEF Missing
<1> QED BY <1>1, <1>2 DEF OrphanSG, SuperGroup, SuperGroups

LEMMA SanitizeFact ==
  ASSUME NEW m \in Managers
  PROVE  sanitize_groupman(m) \in Managers /\ (Solid(m) => Solid(sanitize_groupman(m)))
<1> DEFINE o == OrphanSG(m)
           p == Append(m.path, o)
<1>1. CASE Missing(m) = {}
  BY <1>1, SanitizeIs
<1>2. CASE Missing(m) # {}
  <2>1. m.path \in Seq(SuperGroups) /\ o \in SuperGroups /\ o.groups = Alone(Missing(m))
    BY OrphanFact DEF Managers
  <2>2. Alone(Missing(m)) \in Groups /\ \A g : g \in Range(Alone(Missing(m))) <=> \E n \in Missing(m) : g = <<n>>
    BY AloneFact DEF Missing
  <2> HIDE DEF o
  <2>3. p \in Seq(SuperGroups) /\ p # <<>>
    BY <2>1
  <2>4. \A sg \in Range(p) : sg \in Range(m.path) \/ sg = o
    <3>1. p = m.path \o <<o>> /\ <<o>> \in Seq(SuperGroups) /\ DOMAIN <<o>> = {1} /\ <<o>>[1] = o
      BY <2>1
    <3>2. \A x : x \in Range(m.path \o <<o>>) <=> x \in Range(m.path) \/ x \in Range(<<o>>)
      BY <2>1, <3>1, ConcatRange
    <3>3. \A x \in Range(<<o>>) : x = o
      BY <3>1 DEF Range
    <3> QED BY <3>1, <3>2, <3>3
  <2>5. o.groups # <<>> /\ <<>> \notin Range(o.groups)
    <3>1. \A n : <<n>> # <<>>
      OBVIOUS
    <3>2. Range(<<>>) = {}
      BY DEF Range
    <3> QED BY <1>2, <2>1, <2>2, <3>1, <3>2
  <2> HIDE DEF p
  <2>6. [m EXCEPT !.path = p] \in Managers /\ [m EXCEPT !.path = p].path = p
    BY <2>3, ManagerFact
  <2>7. sanitize_groupman(m) = [m EXCEPT !.path = p]
    BY <1>2, SanitizeIs DEF p, o
  <2>8. Solid(m) => Solid([m EXCEPT !.path = p])
    BY <2>3, <2>4, <2>5, <2>6 DEF Solid, Tidy
  <2> QED BY <2>6, <2>7, <2>8
<1> QED BY <1>1, <1>2

LEMMA LoadFact ==
  ASSUME NEW file \in Seq(LineTypes)
  PROVE  parse(file) \in Managers /\ (HasFirstNode(parse(file)) /\ Tidy(parse(file)) => Solid(parse(file)))
<1>1. parse_sgl(file, "PATHINFO") \in Seq(SuperGroups) /\ parse_sgl(file, "SIMILARINFO") \in Seq(SuperGroups)
  BY ParseType
<1>2. parse(file) \in Managers
  BY <1>1 DEF parse, Managers
<1> QED BY <1>2 DEF HasFirstNode, Solid

\* The super groups of an analysis, or of the blocks one by one.
LEMMA BuildFact ==
  ASSUME NEW r \in Results, build_groupman(r)
  PROVE  mem' \in Managers /\ Solid(mem')
<1> DEFINE sgs == IF r = <<>> THEN [k \in 1 .. NBlocks |-> <<<<k - 1>>>>] ELSE r
           path == [k \in DOMAIN sgs |-> SuperGroup(Word("ID"), Word("SG"), FALSE, sgs[k])]
           m == [similar |-> <<>>, path |-> path]
<1>1. mem' = sanitize_groupman(m)
  BY DEF build_groupman
<1>2. sgs \in Seq(Groups) /\ sgs # <<>> /\ \A k \in DOMAIN sgs : sgs[k] # <<>> /\ <<>> \notin Range(sgs[k])
  <2>1. CASE r = <<>>
    <3> DEFINE s == [k \in 1 .. NBlocks |-> <<<<k - 1>>>>]
    <3>1. NBlocks \in Nat /\ 1 \in 1 .. NBlocks
      <4>1. NBlocks \in Nat \ {0}
        BY FileAssumption
      <4> QED BY <4>1
    <3>2. ASSUME NEW k \in 1 .. NBlocks
          PROVE  <<<<k - 1>>>> \in Groups /\ <<<<k - 1>>>> # <<>> /\ <<>> \notin Range(<<<<k - 1>>>>)
      <4> DEFINE g == <<k - 1>>
      <4>1. k - 1 \in Nat
        BY <3>1
      <4>2. g \in Seq(Nat) /\ g # <<>>
        BY <4>1
      <4> HIDE DEF g
      <4>3. <<g>> \in Groups /\ <<g>> # <<>> /\ DOMAIN <<g>> = {1} /\ <<g>>[1] = g
        BY <4>2 DEF Groups
      <4>4. <<>> \notin Range(<<g>>)
        BY <4>2, <4>3 DEF Range
      <4> QED BY <4>3, <4>4 DEF g
    <3>3. s \in [1 .. NBlocks -> Groups] /\ \A k \in 1 .. NBlocks : s[k] = <<<<k - 1>>>>
      BY <3>2
    <3>4. \A k \in 1 .. NBlocks : s[k] # <<>> /\ <<>> \notin Range(s[k])
      BY <3>2, <3>3
    <3>5. sgs = s
      BY <2>1
    <3> HIDE DEF s, sgs
    <3>6. s \in Seq(Groups) /\ DOMAIN s = 1 .. NBlocks /\ s # <<>>
      BY <3>1, <3>3
    <3> QED BY <3>4, <3>5, <3>6
  <2>2. CASE r # <<>>
    <3>1. sgs = r
      BY <2>2
    <3>2. r \in Seq(Groups) /\ \A gs \in Range(r) : gs # <<>> /\ <<>> \notin Range(gs)
      BY FileAssumption
    <3>3. \A k \in DOMAIN r : r[k] \in Range(r)
      BY DEF Range
    <3> QED BY <2>2, <3>1, <3>2, <3>3
  <2> QED BY <2>1, <2>2
<1> HIDE DEF sgs
<1>3. Word("ID") \in Strings /\ Word("SG") \in Strings
  BY FileAssumption DEF Word, Strings
<1>4. \A k \in DOMAIN sgs : /\ path[k] \in SuperGroups
                            /\ path[k].groups = sgs[k]
  <2> TAKE k \in DOMAIN sgs
  <2>1. sgs[k] \in Groups
    BY <1>2
  <2> QED BY <1>3, <2>1 DEF SuperGroup, SuperGroups
<1>5. path = [k \in DOMAIN sgs |-> path[k]]
  OBVIOUS
<1> HIDE DEF path
<1>6. path \in Seq(SuperGroups) /\ Len(path) = Len(sgs) /\ DOMAIN path = DOMAIN sgs
  <2>1. sgs \in Seq(Groups)
    BY <1>2
  <2>2. \A k \in DOMAIN sgs : path[k] \in SuperGroups
    BY <1>4
  <2> QED BY <1>5, <2>1, <2>2, ListType
<1>7. m \in Managers /\ m.path = path
  <2>1. <<>> \in Seq(SuperGroups)
    OBVIOUS
  <2> QED BY <1>6, <2>1 DEF Managers
<1>8. path # <<>>
  <2>1. 1 \in DOMAIN sgs
    BY <1>2
  <2>2. DOMAIN <<>> = {}
    OBVIOUS
  <2> QED BY <1>6, <2>1, <2>2
<1>9. \A sg \in Range(path) : sg.groups # <<>> /\ <<>> \notin Range(sg.groups)
  <2> TAKE sg \in Range(path)
  <2>1. PICK k \in DOMAIN path : sg = path[k]
    BY DEF Range
  <2> QED BY <1>2, <1>4, <1>6, <2>1
<1> HIDE DEF m
<1>10. Solid(m)
  BY <1>7, <1>8, <1>9 DEF Solid, Tidy
<1> QED BY <1>1, <1>7, <1>10, SanitizeFact

LEMMA EditFact ==
  ASSUME mem \in Managers, NEW i \in DOMAIN mem.path, NEW s \in Names, edit_sg_description(i, s)
  PROVE  mem' \in Managers /\ (Sound(mem) => Sound(mem'))
<1> DEFINE p == mem.path
           q == [p EXCEPT ![i] = [p[i] EXCEPT !.name = s]]
<1>1. p \in Seq(SuperGroups) /\ s \in Strings
  BY FileAssumption DEF Managers
<1>2. mem' = [mem EXCEPT !.path = q]
  BY DEF edit_sg_description, Managers
<1>3. p[i] \in SuperGroups
  BY <1>1
<1>4. [p[i] EXCEPT !.name = s] \in SuperGroups /\ [p[i] EXCEPT !.name = s].groups = p[i].groups
  BY <1>1, <1>3 DEF SuperGroups
<1> HIDE DEF p
<1>5. \A j \in DOMAIN p : q[j] \in SuperGroups /\ q[j].groups = p[j].groups
  BY <1>1, <1>4 DEF p
<1>6. q = [j \in DOMAIN p |-> q[j]]
  OBVIOUS
<1> HIDE DEF q
<1>7. q \in Seq(SuperGroups) /\ DOMAIN q = DOMAIN p
  <2>1. \A j \in DOMAIN p : q[j] \in SuperGroups
    BY <1>5
  <2> QED BY <1>1, <1>6, <2>1, ListType
<1>8. mem' \in Managers /\ mem'.path = q
  BY <1>2, <1>7, ManagerFact
<1>9. ASSUME Sound(mem) PROVE Sound(mem')
  <2>0. Solid(mem) /\ OnceIn(p)
    BY <1>9, NamedOnceIs DEF Sound, p
  <2>1. q # <<>>
    <3>1. DOMAIN <<>> = {} /\ i \in DOMAIN p
      BY DEF p
    <3> QED BY <1>7, <3>1
  <2>2. ASSUME NEW sg \in Range(q) PROVE sg.groups # <<>> /\ <<>> \notin Range(sg.groups)
    <3>1. PICK j \in DOMAIN q : sg = q[j]
      BY DEF Range
    <3>2. p[j] \in Range(p) /\ sg.groups = p[j].groups
      BY <1>5, <1>7, <3>1 DEF Range
    <3> QED BY <2>0, <3>2 DEF Solid, Tidy, p
  <2>3. NamedOnce(q)
    BY <1>5, <1>7, <2>0, OnceSame, NamedOnceIs
  <2> QED BY <1>8, <2>1, <2>2, <2>3 DEF Sound, Solid, Tidy
<1> QED BY <1>8, <1>9

-----------------------------------------------------------------------------
(* The groups of a list *)

GroupLists(sgl) == [i \in DOMAIN sgl |-> sgl[i].groups]

LEMMA GroupListsType ==
  ASSUME NEW sgl \in Seq(SuperGroups)
  PROVE  /\ GroupLists(sgl) \in Seq(Seq(Seq(Nat))) /\ Len(GroupLists(sgl)) = Len(sgl)
         /\ DOMAIN GroupLists(sgl) = DOMAIN sgl /\ \A i \in DOMAIN sgl : GroupLists(sgl)[i] = sgl[i].groups
<1> DEFINE f == GroupLists(sgl)
<1>1. \A i \in DOMAIN sgl : f[i] = sgl[i].groups /\ sgl[i] \in SuperGroups
  BY DEF GroupLists
<1>2. \A sg \in SuperGroups : sg.groups \in Seq(Seq(Nat))
  BY DEF SuperGroups, Groups
<1>3. \A i \in DOMAIN sgl : f[i] \in Seq(Seq(Nat))
  BY <1>1, <1>2
<1>4. f = [i \in DOMAIN sgl |-> f[i]]
  BY DEF GroupLists
<1> HIDE DEF f
<1>5. f \in Seq(Seq(Seq(Nat))) /\ Len(f) = Len(sgl) /\ DOMAIN f = DOMAIN sgl
  BY <1>3, <1>4, ListType
<1> QED BY <1>1, <1>5 DEF f

LEMMA GroupsInFact ==
  ASSUME NEW sgl \in Seq(SuperGroups)
  PROVE  /\ GroupsIn(sgl) \in Groups
         /\ \A g : g \in Range(GroupsIn(sgl)) <=> \E i \in DOMAIN sgl : g \in Range(sgl[i].groups)
<1> DEFINE f == GroupLists(sgl)
<1>1. f \in Seq(Seq(Seq(Nat)))
  BY GroupListsType
<1>2. DOMAIN f = DOMAIN sgl /\ \A i \in DOMAIN sgl : f[i] = sgl[i].groups
  BY GroupListsType
<1>3. GroupsIn(sgl) = FlattenSeq(f)
  BY DEF GroupsIn, GroupLists
<1> HIDE DEF f
<1>4. FlattenSeq(f) \in Seq(Seq(Nat)) /\ \A g : g \in Range(FlattenSeq(f)) <=> \E i \in DOMAIN f : g \in Range(f[i])
  BY <1>1, FlattenFact, FlattenRange
<1> QED BY <1>2, <1>3, <1>4 DEF Groups

LEMMA GroupsInConcat ==
  ASSUME NEW a \in Seq(SuperGroups), NEW b \in Seq(SuperGroups)
  PROVE  GroupsIn(a \o b) = GroupsIn(a) \o GroupsIn(b)
<1> DEFINE c == a \o b
           fa == GroupLists(a)
           fb == GroupLists(b)
           fc == GroupLists(c)
<1>1. c \in Seq(SuperGroups) /\ Len(c) = Len(a) + Len(b)
  OBVIOUS
<1>2. \A i \in DOMAIN a : i \in DOMAIN c /\ c[i] = a[i]
  OBVIOUS
<1>3. \A j \in DOMAIN b : Len(a) + j \in DOMAIN c /\ c[Len(a) + j] = b[j]
  OBVIOUS
<1>a. DOMAIN a = 1 .. Len(a) /\ DOMAIN b = 1 .. Len(b)
  OBVIOUS
<1> HIDE DEF c
<1>4. fa \in Seq(Seq(Seq(Nat))) /\ fb \in Seq(Seq(Seq(Nat))) /\ fc \in Seq(Seq(Seq(Nat)))
  BY <1>1, GroupListsType
<1>5. Len(fa) = Len(a) /\ Len(fb) = Len(b) /\ Len(fc) = Len(c)
  BY <1>1, GroupListsType
<1>6. /\ \A i \in DOMAIN a : fa[i] = a[i].groups
      /\ \A i \in DOMAIN b : fb[i] = b[i].groups
      /\ \A i \in DOMAIN c : fc[i] = c[i].groups
  BY DEF GroupLists
<1> HIDE DEF fa, fb, fc
<1>7. \A i \in 1 .. Len(fa) : fc[i] = fa[i]
  BY <1>2, <1>a, <1>5, <1>6
<1>8. \A j \in 1 .. Len(fb) : fc[Len(fa) + j] = fb[j]
  <2> TAKE j \in 1 .. Len(fb)
  <2>1. j \in DOMAIN b /\ Len(fa) + j = Len(a) + j
    BY <1>a, <1>5
  <2>2. fc[Len(a) + j] = c[Len(a) + j].groups /\ fb[j] = b[j].groups
    BY <1>3, <1>6, <2>1
  <2> QED BY <1>3, <2>1, <2>2
<1>9. Len(fc) = Len(fa) + Len(fb)
  BY <1>1, <1>5
<1>10. fc = fa \o fb
  BY <1>4, <1>7, <1>8, <1>9, ConcatIs
<1>11. FlattenSeq(fc) = FlattenSeq(fa) \o FlattenSeq(fb)
  BY <1>4, <1>10, FlattenConcat
<1> QED BY <1>11 DEF GroupsIn, GroupLists, fa, fb, fc, c

LEMMA GroupsInOne ==
  ASSUME NEW sg \in SuperGroups
  PROVE  GroupsIn(<<sg>>) = sg.groups /\ GroupsIn(<<>>) = <<>>
<1>1. sg.groups \in Seq(Seq(Nat))
  BY DEF SuperGroups, Groups
<1>2. GroupLists(<<sg>>) = <<sg.groups>>
  <2>1. DOMAIN <<sg>> = {1} /\ <<sg>>[1] = sg
    OBVIOUS
  <2>2. GroupLists(<<sg>>) = [i \in {1} |-> sg.groups]
    BY <2>1 DEF GroupLists
  <2>3. <<sg.groups>> = [i \in {1} |-> sg.groups]
    OBVIOUS
  <2> QED BY <2>2, <2>3
<1>3. FlattenSeq(<<sg.groups>>) = sg.groups
  BY <1>1, FlattenOne
<1>4. GroupsIn(<<>>) = <<>>
  <2>1. <<>> \in Seq(SuperGroups) /\ Len(<<>>) = 0
    OBVIOUS
  <2>2. GroupLists(<<>>) \in Seq(Seq(Seq(Nat))) /\ Len(GroupLists(<<>>)) = 0
    BY <2>1, GroupListsType
  <2>3. GroupLists(<<>>) = <<>>
    BY <2>2
  <2> QED BY <2>3, FlattenFact DEF GroupsIn, GroupLists
<1> QED BY <1>2, <1>3, <1>4 DEF GroupsIn, GroupLists

LEMMA NodesInFact ==
  ASSUME NEW sgl \in Seq(SuperGroups), NEW n
  PROVE  n \in NodesIn(sgl) <=> \E i \in DOMAIN sgl : \E g \in Range(sgl[i].groups) : n \in Range(g)
<1>1. n \in NodesIn(sgl) <=> \E g \in Range(GroupsIn(sgl)) : n \in Range(g)
  BY DEF NodesIn
<1> QED BY <1>1, GroupsInFact

-----------------------------------------------------------------------------
(* Lookups *)

\* The lookup of an id is a place that names it.
LEMMA LocFact ==
  ASSUME mem \in Managers, NEW n \in NodesIn(mem.path)
  PROVE  \E i \in DOMAIN mem.path : \E j \in DOMAIN mem.path[i].groups : \E k \in DOMAIN mem.path[i].groups[j] :
            Loc(n) = <<i, j, k>> /\ mem.path[i].groups[j][k] = n
<1> DEFINE path == mem.path
           I == {h \in DOMAIN path : n \in NamedBy(h)}
           i == Max(I)
           gs == path[i].groups
           J == {h \in DOMAIN gs : n \in Range(gs[h])}
           j == Max(J)
           g == gs[j]
           K == {h \in DOMAIN g : g[h] = n}
           k == Max(K)
<1>1. path \in Seq(SuperGroups)
  BY DEF Managers
<1>2. Loc(n) = <<i, j, k>>
  BY DEF Loc
<1>3. Len(path) \in Nat /\ DOMAIN path = 1 .. Len(path) /\ \A h \in DOMAIN path : path[h].groups \in Seq(Seq(Nat))
  BY <1>1, GroupsOf
<1>4. i \in I
  <2>1. PICK h \in DOMAIN path : \E e \in Range(path[h].groups) : n \in Range(e)
    BY <1>1, NodesInFact
  <2>2. h \in I
    BY <2>1 DEF NamedBy
  <2>3. I \in SUBSET (1 .. Len(path))
    BY <1>3
  <2> HIDE DEF I
  <2> QED BY <1>3, <2>2, <2>3, MaxFact
<1>5. i \in DOMAIN path /\ n \in NamedBy(i)
  BY <1>4
<1>6. gs \in Seq(Seq(Nat)) /\ \E e \in Range(gs) : n \in Range(e)
  <2> HIDE DEF i
  <2> QED BY <1>3, <1>5 DEF NamedBy
<1> HIDE DEF gs
<1>7. j \in J
  <2>1. PICK h \in DOMAIN gs : n \in Range(gs[h])
    BY <1>6 DEF Range
  <2>2. h \in J
    BY <2>1
  <2>3. Len(gs) \in Nat /\ DOMAIN gs = 1 .. Len(gs)
    BY <1>6
  <2>4. J \in SUBSET (1 .. Len(gs))
    BY <2>3
  <2> HIDE DEF J
  <2> QED BY <2>2, <2>3, <2>4, MaxFact
<1>8. j \in DOMAIN gs /\ n \in Range(gs[j])
  BY <1>7
<1>9. g \in Seq(Nat) /\ \E h \in DOMAIN g : g[h] = n
  <2> HIDE DEF j
  <2> QED BY <1>6, <1>8 DEF Range
<1> HIDE DEF g
<1>10. k \in K
  <2>1. PICK h \in DOMAIN g : g[h] = n
    BY <1>9
  <2>2. h \in K
    BY <2>1
  <2>3. Len(g) \in Nat /\ DOMAIN g = 1 .. Len(g)
    BY <1>9
  <2>4. K \in SUBSET (1 .. Len(g))
    BY <2>3
  <2> HIDE DEF K
  <2> QED BY <2>2, <2>3, <2>4, MaxFact
<1>11. k \in DOMAIN g /\ g[k] = n
  BY <1>10
<1> HIDE DEF i, j, k
<1> QED BY <1>2, <1>5, <1>8, <1>11 DEF g, gs

\* When no id is named twice, a node definition is what the lookup of its id has.
LEMMA HomeFact ==
  ASSUME mem \in Managers, OnceIn(mem.path), NEW i \in DOMAIN mem.path, NEW j \in DOMAIN mem.path[i].groups,
         NEW k \in DOMAIN mem.path[i].groups[j]
  PROVE  LET n == mem.path[i].groups[j][k] IN n \in NodesIn(mem.path) /\ Loc(n) = <<i, j, k>>
<1> DEFINE n == mem.path[i].groups[j][k]
<1>1. mem.path \in Seq(SuperGroups)
  BY DEF Managers
<1>2. n \in Range(mem.path[i].groups[j]) /\ mem.path[i].groups[j] \in Range(mem.path[i].groups)
  BY DEF Range
<1>3. n \in NodesIn(mem.path)
  BY <1>1, <1>2, NodesInFact
<1>4. PICK i2 \in DOMAIN mem.path : \E j2 \in DOMAIN mem.path[i2].groups : \E k2 \in DOMAIN mem.path[i2].groups[j2] :
            Loc(n) = <<i2, j2, k2>> /\ mem.path[i2].groups[j2][k2] = n
  BY <1>3, LocFact
<1>5. PICK j2 \in DOMAIN mem.path[i2].groups : \E k2 \in DOMAIN mem.path[i2].groups[j2] :
            Loc(n) = <<i2, j2, k2>> /\ mem.path[i2].groups[j2][k2] = n
  BY <1>4
<1>6. PICK k2 \in DOMAIN mem.path[i2].groups[j2] : Loc(n) = <<i2, j2, k2>> /\ mem.path[i2].groups[j2][k2] = n
  BY <1>5
<1>7. n \in Range(mem.path[i2].groups[j2])
  BY <1>6 DEF Range
<1>8. i2 = i /\ j2 = j
  BY <1>2, <1>7 DEF OnceIn
<1>9. Distinct(mem.path[i].groups[j])
  BY DEF OnceIn
<1>10. k2 = k
  BY <1>6, <1>8, <1>9 DEF Distinct
<1> QED BY <1>3, <1>6, <1>8, <1>10

-----------------------------------------------------------------------------
(* The two combinations *)

LEMMA KeptSGsFact ==
  ASSUME NEW sgl \in Seq(SuperGroups), NEW S
  PROVE  /\ KeptSGs(sgl, S) \in Seq(SuperGroups)
         /\ \A sg : sg \in Range(KeptSGs(sgl, S)) <=> \E i \in DOMAIN sgl : (i \in S => sgl[i].groups # <<>>) /\ sg = sgl[i]
<1> DEFINE P == {i \in DOMAIN sgl : i \in S => sgl[i].groups # <<>>}
<1>1. \A i \in DOMAIN sgl : i \in P <=> (i \in S => sgl[i].groups # <<>>)
  OBVIOUS
<1> HIDE DEF P
<1>2. Pick(sgl, P) \in Seq(SuperGroups) /\ \A sg : sg \in Range(Pick(sgl, P)) <=> \E i \in DOMAIN sgl : i \in P /\ sg = sgl[i]
  BY PickFact
<1> QED BY <1>1, <1>2 DEF KeptSGs, P

LEMMA ShownFinite ==
  ASSUME mem \in Managers
  PROVE  IsFiniteSet(Shown)
<1> DEFINE F == [n \in Located |-> <<Loc(n)[1], Loc(n)[2]>>]
<1>1. IsFiniteSet(Blocks)
  <2>1. NBlocks \in Nat
    BY FileAssumption
  <2>2. 0 \in Int /\ NBlocks - 1 \in Int
    BY <2>1
  <2> QED BY <2>2, FS_Interval DEF Blocks
<1>2. IsFiniteSet(Located)
  <2>1. Located \in SUBSET Blocks
    BY DEF Located
  <2> QED BY <1>1, <2>1, FS_Subset
<1>3. F \in Surjection(Located, Shown)
  BY DEF Shown, Surjection
<1> QED BY <1>2, <1>3, FS_Surjection

LEMMA ShownFact ==
  ASSUME mem \in Managers, NEW p \in Shown
  PROVE  /\ p[1] \in DOMAIN mem.path /\ p[2] \in DOMAIN mem.path[p[1]].groups /\ p = <<p[1], p[2]>>
         /\ At(p) = mem.path[p[1]].groups[p[2]] /\ At(p) \in Seq(Nat) /\ At(p) # <<>>
<1>1. mem.path \in Seq(SuperGroups)
  BY DEF Managers
<1>2. PICK n \in Located : p = <<Loc(n)[1], Loc(n)[2]>>
  BY DEF Shown
<1>3. PICK i \in DOMAIN mem.path : \E j \in DOMAIN mem.path[i].groups : \E k \in DOMAIN mem.path[i].groups[j] :
            Loc(n) = <<i, j, k>> /\ mem.path[i].groups[j][k] = n
  BY LocFact DEF Located
<1>4. PICK j \in DOMAIN mem.path[i].groups : \E k \in DOMAIN mem.path[i].groups[j] :
            Loc(n) = <<i, j, k>> /\ mem.path[i].groups[j][k] = n
  BY <1>3
<1>5. PICK k \in DOMAIN mem.path[i].groups[j] : Loc(n) = <<i, j, k>>
  BY <1>4
<1>6. p = <<i, j>> /\ p[1] = i /\ p[2] = j
  BY <1>2, <1>5
<1>7. mem.path[i].groups \in Seq(Seq(Nat))
  BY <1>1, GroupsOf
<1>8. mem.path[i].groups[j] \in Seq(Nat) /\ mem.path[i].groups[j] # <<>>
  <2> DEFINE gs == mem.path[i].groups
  <2>1. gs \in Seq(Seq(Nat)) /\ j \in DOMAIN gs /\ k \in DOMAIN gs[j]
    BY <1>7
  <2> HIDE DEF gs
  <2>2. gs[j] \in Seq(Nat) /\ gs[j] # <<>>
    BY <2>1
  <2> QED BY <2>2 DEF gs
<1> QED BY <1>6, <1>8 DEF At, GroupAt

\* Lists picked from others, whose groups name no id twice.
LEMMA OncePicked ==
  ASSUME NEW sgl, NEW G, NEW P,
         \A i \in DOMAIN sgl : G[i] \in Seq(Seq(Nat)) /\ sgl[i].groups = Pick(G[i], P[i]),
         \A i \in DOMAIN sgl : \A j \in DOMAIN G[i] \cap P[i] :
            /\ Distinct(G[i][j])
            /\ \A i2 \in DOMAIN sgl : \A j2 \in DOMAIN G[i2] \cap P[i2] :
                  i # i2 \/ j # j2 => Range(G[i][j]) \cap Range(G[i2][j2]) = {}
  PROVE  OnceIn(sgl)
<1> DEFINE T == Seq(Nat)
<1>1. \A i \in DOMAIN sgl : G[i] \in Seq(T)
  OBVIOUS
<1> HIDE DEF T
<1>2. \A i \in DOMAIN sgl : \E f : From(G[i], P[i], f)
  BY <1>1, PickIndex
<1> DEFINE F == [i \in DOMAIN sgl |-> CHOOSE f : From(G[i], P[i], f)]
<1>3. \A i \in DOMAIN sgl : From(G[i], P[i], F[i])
  BY <1>2
<1> HIDE DEF F
<1>4. \A i \in DOMAIN sgl :
         /\ \A j \in DOMAIN sgl[i].groups : F[i][j] \in DOMAIN G[i] \cap P[i] /\ sgl[i].groups[j] = G[i][F[i][j]]
         /\ \A j, k \in DOMAIN sgl[i].groups : F[i][j] = F[i][k] => j = k
  <2> TAKE i \in DOMAIN sgl
  <2>1. sgl[i].groups = Pick(G[i], P[i]) /\ From(G[i], P[i], F[i])
    BY <1>3
  <2> QED BY <2>1 DEF From, IsInjective
<1>5. ASSUME NEW i \in DOMAIN sgl, NEW j \in DOMAIN sgl[i].groups
      PROVE  /\ Distinct(sgl[i].groups[j])
             /\ \A i2 \in DOMAIN sgl : \A j2 \in DOMAIN sgl[i2].groups :
                   i # i2 \/ j # j2 => Range(sgl[i].groups[j]) \cap Range(sgl[i2].groups[j2]) = {}
  <2>1. F[i][j] \in DOMAIN G[i] \cap P[i] /\ sgl[i].groups[j] = G[i][F[i][j]]
    BY <1>4
  <2>2. Distinct(sgl[i].groups[j])
    BY <2>1
  <2>3. ASSUME NEW i2 \in DOMAIN sgl, NEW j2 \in DOMAIN sgl[i2].groups, i # i2 \/ j # j2
        PROVE  Range(sgl[i].groups[j]) \cap Range(sgl[i2].groups[j2]) = {}
    <3>1. F[i2][j2] \in DOMAIN G[i2] \cap P[i2] /\ sgl[i2].groups[j2] = G[i2][F[i2][j2]]
      BY <1>4
    <3>2. i # i2 \/ F[i][j] # F[i2][j2]
      BY <1>4, <2>3
    <3>3. Range(G[i][F[i][j]]) \cap Range(G[i2][F[i2][j2]]) = {}
      BY <2>1, <3>1, <3>2
    <3> QED BY <2>1, <3>1, <3>3
  <2> QED BY <2>2, <2>3
<1> QED BY <1>5 DEF OnceIn

LEMMA CombineFact ==
  ASSUME mem \in Managers, NEW S \in SUBSET Shown, NEW dest \in S, combine_ngl(S, dest)
  PROVE  mem' \in Managers /\ (Sound(mem) => Sound(mem'))
<1> DEFINE X == S \ {dest}
           path == mem.path
           sg(p) == Loc(At(p)[1])[1]
<1>1. PICK others \in SetToSeqs(X) :
         LET moved  == FlattenSeq([k \in DOMAIN others |-> At(others[k])])
             After(p) == IF p = dest THEN At(p) \o moved ELSE IF p \in S THEN <<>> ELSE At(p)
             Left(i) == Pick([j \in DOMAIN mem.path[i].groups |-> After(<<i, j>>)],
                             {j \in DOMAIN mem.path[i].groups : <<i, j>> \in X => sg(<<i, j>>) # i})
             sgl == [i \in DOMAIN mem.path |-> [mem.path[i] EXCEPT !.groups = Left(i)]]
         IN  mem' = [mem EXCEPT !.path = KeptSGs(sgl, {sg(p) : p \in X})]
  BY DEF combine_ngl
<1> DEFINE t == [k \in DOMAIN others |-> At(others[k])]
           moved == FlattenSeq(t)
           After(p) == IF p = dest THEN At(p) \o moved ELSE IF p \in S THEN <<>> ELSE At(p)
           G(i) == [j \in DOMAIN path[i].groups |-> After(<<i, j>>)]
           Stay(i) == {j \in DOMAIN path[i].groups : <<i, j>> \in X => sg(<<i, j>>) # i}
           Left(i) == Pick(G(i), Stay(i))
           sgl == [i \in DOMAIN path |-> [path[i] EXCEPT !.groups = Left(i)]]
           Lost == {sg(p) : p \in X}
<1>2. mem' = [mem EXCEPT !.path = KeptSGs(sgl, Lost)]
  BY <1>1
<1>3. path \in Seq(SuperGroups) /\ \A i \in DOMAIN path : path[i] \in SuperGroups /\ path[i].groups \in Seq(Seq(Nat))
  <2>1. path \in Seq(SuperGroups)
    BY DEF Managers
  <2> QED BY <2>1, GroupsOf
<1>4. \A p \in S : At(p) \in Seq(Nat) /\ At(p) # <<>>
  BY ShownFact
<1>5. t \in Seq(Seq(Nat)) /\ (\A k \in DOMAIN t : others[k] \in X /\ t[k] = At(others[k]))
      /\ (\A k, l \in DOMAIN t : k # l => others[k] # others[l])
  <2> DEFINE c == Cardinality(X)
  <2>1. c \in Nat
    <3>1. IsFiniteSet(Shown) /\ X \in SUBSET Shown
      BY ShownFinite
    <3>2. IsFiniteSet(X)
      BY <3>1, FS_Subset
    <3> QED BY <3>2, FS_CardinalityType
  <2>2. others \in [1 .. c -> X] /\ \A k, l \in 1 .. c : k # l => others[k] # others[l]
    BY DEF SetToSeqs
  <2> HIDE DEF c
  <2>3. t \in [1 .. c -> Seq(Nat)] /\ \A k \in 1 .. c : t[k] = At(others[k])
    BY <1>4, <2>2
  <2> HIDE DEF t
  <2>4. t \in Seq(Seq(Nat)) /\ DOMAIN t = 1 .. c
    BY <2>1, <2>3
  <2> QED BY <2>2, <2>3, <2>4
<1> HIDE DEF t
<1>6. moved \in Seq(Nat)
  BY <1>5, FlattenFact
<1>7. \A x : x \in Range(moved) <=> \E k \in DOMAIN t : x \in Range(t[k])
  BY <1>5, FlattenRange
<1> HIDE DEF moved
<1>8. At(dest) \o moved \in Seq(Nat) /\ At(dest) \o moved # <<>>
  BY <1>4, <1>6
<1>9. ASSUME NEW i \in DOMAIN path
      PROVE  /\ G(i) \in Seq(Seq(Nat)) /\ DOMAIN G(i) = DOMAIN path[i].groups
             /\ \A j \in DOMAIN path[i].groups :
                   G(i)[j] = IF <<i, j>> = dest THEN At(dest) \o moved
                             ELSE IF <<i, j>> \in S THEN <<>> ELSE path[i].groups[j]
  <2> DEFINE gs == path[i].groups
             g == G(i)
  <2>1. gs \in Seq(Seq(Nat))
    BY <1>3
  <2>2. \A j \in DOMAIN gs : g[j] = IF <<i, j>> = dest THEN At(dest) \o moved
                                    ELSE IF <<i, j>> \in S THEN <<>> ELSE gs[j]
    BY DEF At, GroupAt
  <2>3. g = [j \in DOMAIN gs |-> g[j]]
    OBVIOUS
  <2> HIDE DEF g, gs
  <2>4. \A j \in DOMAIN gs : g[j] \in Seq(Nat)
    <3> TAKE j \in DOMAIN gs
    <3>1. gs[j] \in Seq(Nat) /\ <<>> \in Seq(Nat)
      BY <2>1
    <3> QED BY <1>8, <2>2, <3>1
  <2>5. g \in Seq(Seq(Nat)) /\ DOMAIN g = DOMAIN gs
    BY <2>1, <2>3, <2>4, ListType
  <2> QED BY <2>2, <2>5 DEF g, gs
<1> HIDE DEF G
<1>10. ASSUME NEW i \in DOMAIN path
       PROVE  /\ Left(i) \in Groups
              /\ \A g : g \in Range(Left(i)) <=> \E j \in DOMAIN path[i].groups : j \in Stay(i) /\ g = G(i)[j]
  <2> DEFINE g == G(i)
             P == Stay(i)
  <2>1. g \in Seq(Seq(Nat)) /\ DOMAIN g = DOMAIN path[i].groups
    BY <1>9
  <2> HIDE DEF g, P
  <2>2. Pick(g, P) \in Seq(Seq(Nat)) /\ \A x : x \in Range(Pick(g, P)) <=> \E j \in DOMAIN g : j \in P /\ x = g[j]
    <3>1. g \in Seq(Seq(Nat))
      BY <2>1
    <3> QED BY <3>1, PickFact
  <2> QED BY <2>1, <2>2 DEF Groups, g, P
<1> HIDE DEF Left
<1>11. \A i \in DOMAIN path : sgl[i] \in SuperGroups /\ sgl[i].groups = Left(i)
  <2> TAKE i \in DOMAIN path
  <2>1. [path[i] EXCEPT !.groups = Left(i)] \in SuperGroups /\ [path[i] EXCEPT !.groups = Left(i)].groups = Left(i)
    BY <1>3, <1>10, WithGroups
  <2> QED BY <2>1
<1>12. sgl = [i \in DOMAIN path |-> sgl[i]]
  OBVIOUS
<1> HIDE DEF sgl
<1>13. sgl \in Seq(SuperGroups) /\ DOMAIN sgl = DOMAIN path
  <2>1. \A i \in DOMAIN path : sgl[i] \in SuperGroups
    BY <1>11
  <2>2. path \in Seq(SuperGroups)
    BY <1>3
  <2> HIDE DEF path
  <2> QED BY <1>12, <2>1, <2>2, ListType
<1> DEFINE q == KeptSGs(sgl, Lost)
<1> HIDE DEF Lost
<1>14. /\ q \in Seq(SuperGroups)
       /\ \A s : s \in Range(q) <=> \E i \in DOMAIN sgl : (i \in Lost => sgl[i].groups # <<>>) /\ s = sgl[i]
  BY <1>13, KeptSGsFact
<1>15. OnceIn(sgl) => OnceIn(q)
  BY <1>13, OnceKeptSGs
<1> HIDE DEF q
<1>16. mem' \in Managers /\ mem'.path = q
  BY <1>2, <1>14, ManagerFact DEF q
<1>17. ASSUME Sound(mem) PROVE Sound(mem')
  <2>1. Solid(mem) /\ OnceIn(path)
    BY <1>17, NamedOnceIs DEF Sound
  <2>2. \A i \in DOMAIN path : path[i].groups # <<>> /\ <<>> \notin Range(path[i].groups)
    <3> TAKE i \in DOMAIN path
    <3>1. path[i] \in Range(path)
      BY DEF Range
    <3> QED BY <2>1, <3>1 DEF Solid, Tidy
  <2>3. ASSUME NEW p \in S
        PROVE  /\ p[1] \in DOMAIN path /\ p[2] \in DOMAIN path[p[1]].groups /\ p = <<p[1], p[2]>>
               /\ At(p) = path[p[1]].groups[p[2]] /\ sg(p) = p[1]
    <3>1. /\ p[1] \in DOMAIN path /\ p[2] \in DOMAIN path[p[1]].groups /\ p = <<p[1], p[2]>>
          /\ At(p) = path[p[1]].groups[p[2]]
      BY ShownFact
    <3>2. 1 \in DOMAIN path[p[1]].groups[p[2]]
      BY <1>4, <3>1
    <3>3. Loc(path[p[1]].groups[p[2]][1]) = <<p[1], p[2], 1>>
      BY <2>1, <3>1, <3>2, HomeFact
    <3> QED BY <3>1, <3>3
  <2>4. \A i \in DOMAIN path : \A j \in DOMAIN path[i].groups : j \in Stay(i) <=> <<i, j>> \notin X
    <3> SUFFICES ASSUME NEW i \in DOMAIN path, NEW j \in DOMAIN path[i].groups, <<i, j>> \in X
                 PROVE  sg(<<i, j>>) = i
      OBVIOUS
    <3> DEFINE p == <<i, j>>
    <3>1. p \in S /\ p[1] = i
      OBVIOUS
    <3> HIDE DEF p
    <3>2. sg(p) = i
      BY <2>3, <3>1
    <3> QED BY <3>2 DEF p
  <2>5. \A i \in Lost : \E p \in X : p[1] = i
    BY <2>3 DEF Lost
  <2> HIDE DEF sg, Stay
  <2>6. ASSUME NEW i \in DOMAIN path, NEW j \in DOMAIN path[i].groups, j \in Stay(i)
        PROVE  G(i)[j] = IF <<i, j>> = dest THEN At(dest) \o moved ELSE path[i].groups[j]
    <3>1. <<i, j>> = dest \/ <<i, j>> \notin S
      BY <2>4, <2>6
    <3> QED BY <1>9, <3>1
  <2>7. q # <<>>
    <3> DEFINE i == dest[1]
               j == dest[2]
    <3>1. i \in DOMAIN path /\ j \in DOMAIN path[i].groups /\ dest = <<i, j>>
      BY <2>3
    <3> HIDE DEF i, j
    <3>2. j \in Stay(i)
      BY <2>4, <3>1
    <3>3. G(i)[j] \in Range(Left(i))
      BY <1>10, <3>1, <3>2
    <3>4. sgl[i].groups # <<>>
      BY <1>10, <1>11, <3>1, <3>3, EmptyRange DEF Groups
    <3>5. sgl[i] \in Range(q)
      BY <1>13, <1>14, <3>1, <3>4
    <3> QED BY <1>14, <3>5, EmptyRange
  <2>8. ASSUME NEW s \in Range(q) PROVE s.groups # <<>> /\ <<>> \notin Range(s.groups)
    <3>1. PICK i \in DOMAIN path : (i \in Lost => sgl[i].groups # <<>>) /\ s = sgl[i]
      BY <1>13, <1>14
    <3>2. s.groups = Left(i)
      BY <1>11, <3>1
    <3>3. path[i].groups # <<>> /\ <<>> \notin Range(path[i].groups)
      BY <2>2
    <3>4. Left(i) # <<>>
      <4>1. CASE i \in Lost
        BY <1>11, <3>1, <4>1
      <4>2. CASE i \notin Lost
        <5>1. 1 \in DOMAIN path[i].groups
          BY <1>3, <3>3
        <5>2. <<i, 1>> \notin X
          <6>1. <<i, 1>>[1] = i
            OBVIOUS
          <6>2. ASSUME NEW p \in X, p[1] = i PROVE FALSE
            <7>1. sg(p) = i
              BY <2>3, <6>2
            <7> QED BY <4>2, <7>1 DEF Lost
          <6> QED BY <6>1, <6>2
        <5>3. 1 \in Stay(i)
          BY <2>4, <5>1, <5>2
        <5>4. G(i)[1] \in Range(Left(i))
          BY <1>10, <5>1, <5>3
        <5> QED BY <1>10, <5>4, EmptyRange DEF Groups
      <4> QED BY <4>1, <4>2
    <3>5. <<>> \notin Range(Left(i))
      <4>1. \A j \in DOMAIN path[i].groups : path[i].groups[j] # <<>>
        BY <3>3 DEF Range
      <4>2. \A j \in DOMAIN path[i].groups : j \in Stay(i) => G(i)[j] # <<>>
        BY <1>8, <2>6, <4>1
      <4>3. \A g : g \in Range(Left(i)) <=> \E j \in DOMAIN path[i].groups : j \in Stay(i) /\ g = G(i)[j]
        BY <1>10
      <4> QED BY <4>2, <4>3
    <3> QED BY <3>2, <3>4, <3>5
  <2>9. ASSUME NEW p \in S, NEW i \in DOMAIN path, NEW j \in DOMAIN path[i].groups, <<i, j>> # p
        PROVE  Range(At(p)) \cap Range(path[i].groups[j]) = {}
    <3>1. i # p[1] \/ j # p[2]
      BY <2>3, <2>9
    <3> QED BY <2>1, <2>3, <3>1 DEF OnceIn
  <2>10. \A p \in S : Distinct(At(p))
    BY <2>1, <2>3 DEF OnceIn
  <2>11. \A p, r \in S : p # r => Range(At(p)) \cap Range(At(r)) = {}
    <3> SUFFICES ASSUME NEW p \in S, NEW r \in S, p # r PROVE Range(At(p)) \cap Range(At(r)) = {}
      OBVIOUS
    <3>1. r[1] \in DOMAIN path /\ r[2] \in DOMAIN path[r[1]].groups /\ r = <<r[1], r[2]>> /\ At(r) = path[r[1]].groups[r[2]]
      BY <2>3
    <3>2. <<r[1], r[2]>> # p
      BY <3>1
    <3> QED BY <2>9, <3>1, <3>2
  <2>12. Distinct(moved) /\ Range(At(dest)) \cap Range(moved) = {}
    <3>1. \A k \in DOMAIN t : Distinct(t[k]) /\ t[k] = At(others[k]) /\ others[k] \in S /\ others[k] # dest
      BY <1>5, <2>10
    <3>2. \A k, l \in DOMAIN t : k # l => Range(t[k]) \cap Range(t[l]) = {}
      BY <1>5, <2>11, <3>1
    <3>3. Distinct(moved)
      BY <1>5, <3>1, <3>2, FlattenDistinct DEF moved
    <3>4. \A k \in DOMAIN t : Range(At(dest)) \cap Range(t[k]) = {}
      BY <2>11, <3>1
    <3> QED BY <1>7, <3>3, <3>4
  <2> DEFINE D == At(dest) \o moved
  <2>13. Distinct(D)
    BY <1>4, <1>6, <2>10, <2>12, ConcatDistinct
  <2>14. ASSUME NEW i \in DOMAIN path, NEW j \in DOMAIN path[i].groups, j \in Stay(i), <<i, j>> # dest
         PROVE  Range(D) \cap Range(path[i].groups[j]) = {}
    <3>1. <<i, j>> \notin S
      BY <2>4, <2>14
    <3>2. \A x : x \in Range(D) <=> x \in Range(At(dest)) \/ x \in Range(moved)
      BY <1>4, <1>6, ConcatRange
    <3>3. \A p \in S : Range(At(p)) \cap Range(path[i].groups[j]) = {}
      BY <2>9, <3>1
    <3>4. \A k \in DOMAIN t : Range(t[k]) \cap Range(path[i].groups[j]) = {}
      BY <1>5, <3>3
    <3> HIDE DEF D
    <3> QED BY <1>7, <3>2, <3>3, <3>4
  <2>15. OnceIn(sgl)
    <3> DEFINE GG == [i \in DOMAIN sgl |-> G(i)]
               PP == [i \in DOMAIN sgl |-> Stay(i)]
    <3>1. \A i \in DOMAIN sgl : GG[i] \in Seq(Seq(Nat)) /\ sgl[i].groups = Pick(GG[i], PP[i]) /\ DOMAIN GG[i] = DOMAIN path[i].groups
      BY <1>9, <1>11, <1>13 DEF Left
    <3>2. ASSUME NEW i \in DOMAIN sgl, NEW j \in DOMAIN GG[i] \cap PP[i]
          PROVE  /\ i \in DOMAIN path /\ j \in DOMAIN path[i].groups /\ j \in Stay(i)
                 /\ GG[i][j] = IF <<i, j>> = dest THEN D ELSE path[i].groups[j]
      BY <1>13, <2>6, <3>1
    <3> HIDE DEF GG, PP, D
    <3>3. ASSUME NEW i \in DOMAIN sgl, NEW j \in DOMAIN GG[i] \cap PP[i]
          PROVE  /\ Distinct(GG[i][j])
                 /\ \A i2 \in DOMAIN sgl : \A j2 \in DOMAIN GG[i2] \cap PP[i2] :
                       i # i2 \/ j # j2 => Range(GG[i][j]) \cap Range(GG[i2][j2]) = {}
      <4>1. /\ i \in DOMAIN path /\ j \in DOMAIN path[i].groups /\ j \in Stay(i)
            /\ GG[i][j] = IF <<i, j>> = dest THEN D ELSE path[i].groups[j]
        BY <3>2
      <4>2. Distinct(GG[i][j])
        BY <2>1, <2>13, <4>1 DEF OnceIn
      <4>3. ASSUME NEW i2 \in DOMAIN sgl, NEW j2 \in DOMAIN GG[i2] \cap PP[i2], i # i2 \/ j # j2
            PROVE  Range(GG[i][j]) \cap Range(GG[i2][j2]) = {}
        <5>1. /\ i2 \in DOMAIN path /\ j2 \in DOMAIN path[i2].groups /\ j2 \in Stay(i2)
              /\ GG[i2][j2] = IF <<i2, j2>> = dest THEN D ELSE path[i2].groups[j2]
          BY <3>2
        <5>2. <<i, j>> # <<i2, j2>>
          BY <4>3
        <5>3. CASE <<i, j>> = dest
          BY <2>14, <4>1, <5>1, <5>2, <5>3
        <5>4. CASE <<i2, j2>> = dest
          BY <2>14, <4>1, <5>1, <5>2, <5>4
        <5>5. CASE <<i, j>> # dest /\ <<i2, j2>> # dest
          BY <2>1, <4>1, <4>3, <5>1, <5>5 DEF OnceIn
        <5> QED BY <5>3, <5>4, <5>5
      <4> QED BY <4>2, <4>3
    <3> QED BY <3>1, <3>3, OncePicked
  <2>16. OnceIn(q) /\ NamedOnce(q)
    BY <1>15, <2>15, NamedOnceIs
  <2> QED BY <1>16, <2>7, <2>8, <2>16 DEF Sound, Solid, Tidy
<1> QED BY <1>16, <1>17

LEMMA MoveFact ==
  ASSUME mem \in Managers, NEW sel \in SUBSET Blocks, move_nodes_to_ng(sel)
  PROVE  mem' \in Managers /\ (Sound(mem) => Sound(mem'))
<1> DEFINE path == mem.path
           nodes == Pick([k \in 1 .. NBlocks |-> k - 1], {n + 1 : n \in sel \cap Located})
           Taken(i, j) == {k \in DOMAIN path[i].groups[j] : \E n \in sel \cap Located : Loc(n) = <<i, j, k>>}
           Rest(i, j) == Pick(path[i].groups[j], DOMAIN path[i].groups[j] \ Taken(i, j))
           Holding == {Loc(n)[1] : n \in sel \cap Located}
           Rests(i) == [j \in DOMAIN path[i].groups |-> Rest(i, j)]
           Stay(i) == {j \in DOMAIN path[i].groups : Taken(i, j) = {} \/ Rest(i, j) # <<>>}
           Left(i) == Pick(Rests(i), Stay(i))
           New(i) == IF Loc(nodes[1])[1] = i THEN <<nodes>> ELSE <<>>
           sgl == [i \in DOMAIN path |-> [path[i] EXCEPT !.groups = Left(i) \o New(i)]]
<1>1. nodes # <<>> /\ mem' = [mem EXCEPT !.path = KeptSGs(sgl, Holding)]
  BY DEF move_nodes_to_ng
<1>2. path \in Seq(SuperGroups) /\ \A i \in DOMAIN path : path[i] \in SuperGroups /\ path[i].groups \in Seq(Seq(Nat))
  <2>1. path \in Seq(SuperGroups)
    BY DEF Managers
  <2> QED BY <2>1, GroupsOf
<1>3. nodes \in Seq(Nat) /\ Distinct(nodes) /\ (\A x \in Range(nodes) : x \in sel \cap Located) /\ nodes[1] \in sel \cap Located
  <2> DEFINE s == [k \in 1 .. NBlocks |-> k - 1]
             P == {n + 1 : n \in sel \cap Located}
  <2>1. NBlocks \in Nat
    BY FileAssumption
  <2>2. s \in [1 .. NBlocks -> Nat] /\ \A k \in 1 .. NBlocks : s[k] = k - 1
    BY <2>1
  <2> HIDE DEF s
  <2>3. s \in Seq(Nat) /\ DOMAIN s = 1 .. NBlocks
    BY <2>1, <2>2
  <2>4. \A i \in DOMAIN s : i \in P => s[i] \in sel \cap Located
    <3> SUFFICES ASSUME NEW i \in DOMAIN s, i \in P PROVE s[i] \in sel \cap Located
      OBVIOUS
    <3>1. PICK n \in sel \cap Located : i = n + 1
      OBVIOUS
    <3>2. n \in Nat
      BY <2>1 DEF Blocks
    <3>3. s[i] = n
      BY <2>2, <2>3, <3>1, <3>2
    <3> QED BY <3>3
  <2>5. Distinct(s)
    <3>1. \A i, j \in 1 .. NBlocks : i - 1 = j - 1 => i = j
      BY <2>1
    <3> QED BY <2>2, <2>3, <3>1 DEF Distinct
  <2> HIDE DEF P
  <2>6. s \in Seq(Nat)
    BY <2>3
  <2>7. Pick(s, P) \in Seq(Nat) /\ (\A x : x \in Range(Pick(s, P)) <=> \E i \in DOMAIN s : i \in P /\ x = s[i]) /\ Distinct(Pick(s, P))
    BY <2>5, <2>6, PickFact, PickDistinct
  <2>8. nodes = Pick(s, P)
    BY DEF s, P
  <2> HIDE DEF nodes
  <2>9. nodes[1] \in Range(nodes)
    <3>1. nodes \in Seq(Nat) /\ nodes # <<>>
      BY <1>1, <2>7, <2>8
    <3>2. 1 \in DOMAIN nodes
      BY <3>1
    <3> QED BY <3>2 DEF Range
  <2> QED BY <2>4, <2>7, <2>8, <2>9
<1> HIDE DEF nodes
<1>4. PICK i0 \in DOMAIN path : Loc(nodes[1])[1] = i0 /\ i0 \in Holding
  <2>1. nodes[1] \in NodesIn(path)
    BY <1>3 DEF Located
  <2>2. \E i \in DOMAIN path : \E j \in DOMAIN path[i].groups : \E k \in DOMAIN path[i].groups[j] : Loc(nodes[1]) = <<i, j, k>>
    BY <2>1, LocFact
  <2>3. \A i, j, k : <<i, j, k>>[1] = i
    OBVIOUS
  <2> QED BY <1>3, <2>2, <2>3
<1>5. \A i \in DOMAIN path : i \notin Holding => \A j \in DOMAIN path[i].groups : Taken(i, j) = {}
  <2>1. \A i, j, k : <<i, j, k>>[1] = i
    OBVIOUS
  <2> QED BY <2>1
<1>6. ASSUME NEW i \in DOMAIN path, NEW j \in DOMAIN path[i].groups
      PROVE  /\ Rest(i, j) \in Seq(Nat)
             /\ \A x : x \in Range(Rest(i, j)) <=> \E k \in DOMAIN path[i].groups[j] : k \notin Taken(i, j) /\ x = path[i].groups[j][k]
             /\ Distinct(path[i].groups[j]) => Distinct(Rest(i, j))
  <2> DEFINE g == path[i].groups[j]
             P == DOMAIN g \ Taken(i, j)
  <2>1. g \in Seq(Nat)
    <3> DEFINE gs == path[i].groups
    <3>1. gs \in Seq(Seq(Nat)) /\ j \in DOMAIN gs
      BY <1>2
    <3> HIDE DEF gs
    <3>2. gs[j] \in Seq(Nat)
      BY <3>1
    <3> QED BY <3>2 DEF gs
  <2>2. \A k \in DOMAIN g : k \in P <=> k \notin Taken(i, j)
    OBVIOUS
  <2> HIDE DEF P, g, Taken
  <2>3. Pick(g, P) \in Seq(Nat) /\ (\A x : x \in Range(Pick(g, P)) <=> \E k \in DOMAIN g : k \in P /\ x = g[k])
        /\ (Distinct(g) => Distinct(Pick(g, P)))
    BY <2>1, PickFact, PickDistinct
  <2> QED BY <2>2, <2>3 DEF g, P
<1>7. ASSUME NEW i \in DOMAIN path, NEW j \in DOMAIN path[i].groups, j \in Stay(i), path[i].groups[j] # <<>>
      PROVE  Rest(i, j) # <<>>
  <2>1. CASE Taken(i, j) = {}
    <3> DEFINE gs == path[i].groups
    <3>1. gs \in Seq(Seq(Nat)) /\ j \in DOMAIN gs /\ gs[j] # <<>>
      BY <1>2, <1>7
    <3> HIDE DEF gs
    <3>2. 1 \in DOMAIN gs[j]
      BY <3>1
    <3>3. 1 \in DOMAIN path[i].groups[j] /\ 1 \notin Taken(i, j)
      BY <2>1, <3>2 DEF gs
    <3> HIDE DEF Taken, Rest
    <3>4. path[i].groups[j][1] \in Range(Rest(i, j))
      BY <1>6, <3>3
    <3> QED BY <1>6, <3>4, EmptyRange
  <2>2. CASE Taken(i, j) # {}
    BY <1>7, <2>2
  <2> QED BY <2>1, <2>2
<1> HIDE DEF Rest
<1>8. ASSUME NEW i \in DOMAIN path
      PROVE  Rests(i) \in Seq(Seq(Nat)) /\ DOMAIN Rests(i) = DOMAIN path[i].groups
             /\ \A j \in DOMAIN path[i].groups : Rests(i)[j] = Rest(i, j)
  <2> DEFINE R == Rests(i)
             gs == path[i].groups
  <2>1. \A j \in DOMAIN gs : R[j] = Rest(i, j)
    OBVIOUS
  <2>2. R = [j \in DOMAIN gs |-> R[j]]
    OBVIOUS
  <2>3. gs \in Seq(Seq(Nat))
    BY <1>2
  <2>4. \A j \in DOMAIN gs : R[j] \in Seq(Nat)
    BY <1>6, <2>1
  <2> HIDE DEF R, gs
  <2>5. R \in Seq(Seq(Nat)) /\ DOMAIN R = DOMAIN gs
    BY <2>2, <2>3, <2>4, ListType
  <2> QED BY <2>1, <2>5 DEF R, gs
<1> HIDE DEF Rests, Stay, Taken
<1>9. ASSUME NEW i \in DOMAIN path
      PROVE  Left(i) \in Seq(Seq(Nat)) /\ \A x : x \in Range(Left(i)) <=> \E j \in DOMAIN path[i].groups : j \in Stay(i) /\ x = Rest(i, j)
  <2> DEFINE R == Rests(i)
  <2>1. R \in Seq(Seq(Nat)) /\ DOMAIN R = DOMAIN path[i].groups /\ \A j \in DOMAIN R : R[j] = Rest(i, j)
    BY <1>8
  <2> HIDE DEF R
  <2>2. Pick(R, Stay(i)) \in Seq(Seq(Nat)) /\ \A x : x \in Range(Pick(R, Stay(i))) <=> \E j \in DOMAIN R : j \in Stay(i) /\ x = R[j]
    <3>1. R \in Seq(Seq(Nat))
      BY <2>1
    <3> QED BY <3>1, PickFact
  <2> QED BY <2>1, <2>2 DEF R
<1>10. \A i : /\ New(i) \in Seq(Seq(Nat)) /\ (\A g \in Range(New(i)) : g = nodes)
              /\ \A j \in DOMAIN New(i) : j = 1 /\ New(i)[j] = nodes /\ i = i0
              /\ Pick(New(i), {1}) = New(i)
  <2> DEFINE T == Seq(Nat)
  <2>1. <<nodes>> \in Seq(T) /\ <<>> \in Seq(T) /\ nodes \in T
    BY <1>3
  <2>2. DOMAIN <<nodes>> = {1} /\ <<nodes>>[1] = nodes /\ DOMAIN <<>> = {}
    OBVIOUS
  <2>3. (\A g \in Range(<<nodes>>) : g = nodes) /\ Range(<<>>) = {}
    BY <2>2 DEF Range
  <2> HIDE DEF T
  <2>4. Pick(<<nodes>>, {1}) = <<nodes>>
    BY <2>1, PickOne
  <2>5. Pick(<<>>, {1}) = <<>>
    BY <2>1, <2>2, PickNone
  <2> QED BY <1>4, <2>1, <2>2, <2>3, <2>4, <2>5 DEF T
<1>11. New(i0) = <<nodes>>
  BY <1>4
<1> HIDE DEF New
<1>12. ASSUME NEW i \in DOMAIN path
       PROVE  /\ Left(i) \o New(i) \in Groups
              /\ \A x : x \in Range(Left(i) \o New(i)) <=> x \in Range(Left(i)) \/ x \in Range(New(i))
  <2>1. Left(i) \in Seq(Seq(Nat)) /\ New(i) \in Seq(Seq(Nat))
    BY <1>9, <1>10
  <2> HIDE DEF Left
  <2>2. \A x : x \in Range(Left(i) \o New(i)) <=> x \in Range(Left(i)) \/ x \in Range(New(i))
    BY <2>1, ConcatRange
  <2>3. Left(i) \o New(i) \in Seq(Seq(Nat))
    BY <2>1
  <2> QED BY <2>2, <2>3 DEF Groups
<1>13. \A i \in DOMAIN path : sgl[i] \in SuperGroups /\ sgl[i].groups = Left(i) \o New(i)
  <2> TAKE i \in DOMAIN path
  <2> DEFINE gs == Left(i) \o New(i)
  <2>1. path[i] \in SuperGroups /\ gs \in Groups
    BY <1>2, <1>12
  <2>2. sgl[i] = [path[i] EXCEPT !.groups = gs]
    OBVIOUS
  <2> HIDE DEF gs, sgl
  <2>3. [path[i] EXCEPT !.groups = gs] \in SuperGroups /\ [path[i] EXCEPT !.groups = gs].groups = gs
    BY <2>1, WithGroups
  <2> QED BY <2>2, <2>3 DEF gs
<1>14. sgl = [i \in DOMAIN path |-> sgl[i]]
  OBVIOUS
<1> HIDE DEF sgl, Left
<1>15. sgl \in Seq(SuperGroups) /\ DOMAIN sgl = DOMAIN path
  <2>1. \A i \in DOMAIN path : sgl[i] \in SuperGroups
    BY <1>13
  <2>2. path \in Seq(SuperGroups)
    BY <1>2
  <2> HIDE DEF path
  <2> QED BY <1>14, <2>1, <2>2, ListType
<1> DEFINE q == KeptSGs(sgl, Holding)
<1> HIDE DEF Holding
<1>16. /\ q \in Seq(SuperGroups)
       /\ \A s : s \in Range(q) <=> \E i \in DOMAIN sgl : (i \in Holding => sgl[i].groups # <<>>) /\ s = sgl[i]
  BY <1>15, KeptSGsFact
<1>17. OnceIn(sgl) => OnceIn(q)
  BY <1>15, OnceKeptSGs
<1>18. mem' \in Managers /\ mem'.path = q
  <2> HIDE DEF q
  <2> QED BY <1>1, <1>16, ManagerFact DEF q
<1> HIDE DEF q
<1>19. ASSUME Sound(mem) PROVE Sound(mem')
  <2>1. Solid(mem) /\ OnceIn(path)
    BY <1>19, NamedOnceIs DEF Sound
  <2>2. \A i \in DOMAIN path : path[i].groups # <<>> /\ <<>> \notin Range(path[i].groups)
    <3> TAKE i \in DOMAIN path
    <3>1. path[i] \in Range(path)
      BY DEF Range
    <3> QED BY <2>1, <3>1 DEF Solid, Tidy
  <2>3. q # <<>>
    <3>1. <<nodes>>[1] = nodes /\ DOMAIN <<nodes>> = {1}
      OBVIOUS
    <3>2. nodes \in Range(New(i0))
      BY <1>11, <3>1 DEF Range
    <3>3. nodes \in Range(Left(i0) \o New(i0)) /\ Left(i0) \o New(i0) \in Groups
      BY <1>12, <3>2
    <3>4. sgl[i0].groups # <<>>
      <4> DEFINE T == Seq(Nat)
                 gs == Left(i0) \o New(i0)
      <4>1. gs \in Seq(T) /\ nodes \in Range(gs) /\ sgl[i0].groups = gs
        BY <1>13, <3>3 DEF Groups
      <4> HIDE DEF T, gs
      <4> QED BY <4>1, EmptyRange
    <3>5. sgl[i0] \in Range(q)
      BY <1>15, <1>16, <3>4
    <3> QED BY <1>16, <3>5, EmptyRange
  <2>4. ASSUME NEW s \in Range(q) PROVE s.groups # <<>> /\ <<>> \notin Range(s.groups)
    <3>1. PICK i \in DOMAIN path : (i \in Holding => sgl[i].groups # <<>>) /\ s = sgl[i]
      BY <1>15, <1>16
    <3>2. \A j \in DOMAIN path[i].groups : path[i].groups[j] # <<>>
      BY <2>2 DEF Range
    <3>3. <<>> \notin Range(Left(i))
      BY <1>7, <1>9, <3>2
    <3>4. <<>> \notin Range(New(i))
      BY <1>1, <1>10
    <3>5. s.groups = Left(i) \o New(i) /\ <<>> \notin Range(s.groups)
      BY <1>12, <1>13, <3>1, <3>3, <3>4
    <3>6. s.groups # <<>>
      <4>1. CASE i \in Holding
        BY <3>1, <4>1
      <4>2. CASE i \notin Holding
        <5>1. 1 \in DOMAIN path[i].groups
          BY <1>2, <2>2
        <5>2. 1 \in Stay(i)
          BY <1>5, <4>2, <5>1 DEF Stay
        <5>3. Rest(i, 1) \in Range(Left(i) \o New(i))
          BY <1>9, <1>12, <5>1, <5>2
        <5> DEFINE T == Seq(Nat)
                   gs == Left(i) \o New(i)
        <5>4. gs \in Seq(T) /\ Rest(i, 1) \in Range(gs) /\ s.groups = gs
          BY <1>12, <3>5, <5>3 DEF Groups
        <5> HIDE DEF T, gs
        <5> QED BY <5>4, EmptyRange
      <4> QED BY <4>1, <4>2
    <3> QED BY <3>5, <3>6
  <2>5. ASSUME NEW i \in DOMAIN path, NEW j \in DOMAIN path[i].groups
        PROVE  /\ Distinct(Rest(i, j)) /\ Range(Rest(i, j)) \cap Range(nodes) = {}
               /\ \A i2 \in DOMAIN path : \A j2 \in DOMAIN path[i2].groups :
                     i # i2 \/ j # j2 => Range(Rest(i, j)) \cap Range(Rest(i2, j2)) = {}
    <3>1. Distinct(Rest(i, j))
      BY <1>6, <2>1 DEF OnceIn
    <3>2. ASSUME NEW x \in Range(Rest(i, j)), x \in Range(nodes) PROVE FALSE
      <4>1. PICK k \in DOMAIN path[i].groups[j] : k \notin Taken(i, j) /\ x = path[i].groups[j][k]
        BY <1>6, <3>2
      <4>2. Loc(x) = <<i, j, k>>
        BY <2>1, <4>1, HomeFact
      <4>3. x \in sel \cap Located
        BY <1>3, <3>2
      <4> QED BY <4>1, <4>2, <4>3 DEF Taken
    <3>3. ASSUME NEW i2 \in DOMAIN path, NEW j2 \in DOMAIN path[i2].groups, i # i2 \/ j # j2
          PROVE  Range(Rest(i, j)) \cap Range(Rest(i2, j2)) = {}
      <4>1. Range(path[i].groups[j]) \cap Range(path[i2].groups[j2]) = {}
        BY <2>1, <3>3 DEF OnceIn
      <4>2. ASSUME NEW h \in DOMAIN path, NEW l \in DOMAIN path[h].groups, NEW x \in Range(Rest(h, l))
            PROVE  x \in Range(path[h].groups[l])
        <5>1. PICK k \in DOMAIN path[h].groups[l] : x = path[h].groups[l][k]
          BY <1>6
        <5> QED BY <5>1 DEF Range
      <4> QED BY <4>1, <4>2
    <3> QED BY <3>1, <3>2, <3>3
  <2>6. OnceIn(sgl)
    <3> DEFINE GG == [i \in DOMAIN sgl |-> Rests(i) \o New(i)]
               PP == [i \in DOMAIN sgl |-> Stay(i) \cup {Len(Rests(i)) + 1}]
    <3>1. ASSUME NEW i \in DOMAIN sgl
          PROVE  GG[i] \in Seq(Seq(Nat)) /\ sgl[i].groups = Pick(GG[i], PP[i])
                 /\ \A j \in DOMAIN GG[i] \cap PP[i] :
                       \/ j \in DOMAIN path[i].groups /\ GG[i][j] = Rest(i, j)
                       \/ i = i0 /\ j = Len(Rests(i0)) + 1 /\ GG[i][j] = nodes
      <4> DEFINE T == Seq(Nat)
                 R == Rests(i)
                 N == New(i)
                 P == PP[i]
      <4>1. i \in DOMAIN path /\ P = Stay(i) \cup {Len(R) + 1} /\ GG[i] = R \o N
        BY <1>15
      <4>2. R \in Seq(T) /\ N \in Seq(T) /\ DOMAIN R = DOMAIN path[i].groups /\ \A j \in DOMAIN R : R[j] = Rest(i, j)
        BY <1>8, <1>10, <4>1
      <4>3. (\A j \in DOMAIN N : j = 1 /\ N[j] = nodes /\ i = i0) /\ Pick(N, {1}) = N
        BY <1>10
      <4>4. sgl[i].groups = Pick(R, Stay(i)) \o N
        BY <1>13, <4>1 DEF Left
      <4>5. \A j \in Stay(i) : j \in DOMAIN R
        BY <4>2 DEF Stay
      <4> HIDE DEF GG, PP, P, T, R, N
      <4>6. Len(R) \in Nat /\ DOMAIN R = 1 .. Len(R)
        BY <4>2
      <4>7. (\A j \in DOMAIN R : j \in P <=> j \in Stay(i)) /\ (\A j \in DOMAIN N : Len(R) + j \in P <=> j \in {1})
        BY <4>1, <4>3, <4>6
      <4>8. Pick(R \o N, P) = Pick(R, Stay(i)) \o Pick(N, {1})
        <5> DEFINE A == Stay(i)
                   C == {1}
        <5>1. (\A j \in DOMAIN R : j \in P <=> j \in A) /\ (\A j \in DOMAIN N : Len(R) + j \in P <=> j \in C)
          BY <4>7
        <5> HIDE DEF A, C
        <5>2. Pick(R \o N, P) = Pick(R, A) \o Pick(N, C)
          BY <4>2, <5>1, PickConcat
        <5> QED BY <5>2 DEF A, C
      <4>9. R \o N \in Seq(T)
        BY <4>2
      <4>10. \A j \in DOMAIN (R \o N) : (j \in DOMAIN R /\ (R \o N)[j] = R[j]) \/ (j - Len(R) \in DOMAIN N /\ (R \o N)[j] = N[j - Len(R)] /\ j \in Nat)
        BY <4>2
      <4>11. ASSUME NEW j \in DOMAIN (R \o N), j - Len(R) \in DOMAIN N, (R \o N)[j] = N[j - Len(R)], j \in Nat
             PROVE  i = i0 /\ j = Len(R) + 1 /\ (R \o N)[j] = nodes
        <5>1. j - Len(R) = 1 /\ N[j - Len(R)] = nodes /\ i = i0
          BY <4>3, <4>11
        <5> QED BY <4>6, <4>11, <5>1
      <4>12. GG[i] \in Seq(Seq(Nat)) /\ sgl[i].groups = Pick(GG[i], PP[i])
        BY <4>1, <4>3, <4>4, <4>8, <4>9 DEF P, T
      <4>13. ASSUME NEW j \in DOMAIN GG[i] \cap PP[i]
             PROVE  \/ j \in DOMAIN path[i].groups /\ GG[i][j] = Rest(i, j)
                    \/ i = i0 /\ j = Len(Rests(i0)) + 1 /\ GG[i][j] = nodes
        <5>1. j \in DOMAIN (R \o N)
          BY <4>1
        <5>2. CASE j \in DOMAIN R /\ (R \o N)[j] = R[j]
          BY <4>1, <4>2, <5>2
        <5>3. CASE j - Len(R) \in DOMAIN N /\ (R \o N)[j] = N[j - Len(R)] /\ j \in Nat
          BY <4>1, <4>11, <5>1, <5>3 DEF R
        <5> QED BY <4>10, <5>1, <5>2, <5>3
      <4> QED BY <4>12, <4>13
    <3> HIDE DEF GG, PP
    <3>2. ASSUME NEW i \in DOMAIN sgl, NEW j \in DOMAIN GG[i] \cap PP[i]
          PROVE  /\ Distinct(GG[i][j])
                 /\ \A i2 \in DOMAIN sgl : \A j2 \in DOMAIN GG[i2] \cap PP[i2] :
                       i # i2 \/ j # j2 => Range(GG[i][j]) \cap Range(GG[i2][j2]) = {}
      <4>1. i \in DOMAIN path
        BY <1>15
      <4>2. \/ j \in DOMAIN path[i].groups /\ GG[i][j] = Rest(i, j)
            \/ i = i0 /\ j = Len(Rests(i0)) + 1 /\ GG[i][j] = nodes
        BY <3>1
      <4>3. Distinct(GG[i][j])
        BY <1>3, <2>5, <4>1, <4>2
      <4>4. ASSUME NEW i2 \in DOMAIN sgl, NEW j2 \in DOMAIN GG[i2] \cap PP[i2], i # i2 \/ j # j2
            PROVE  Range(GG[i][j]) \cap Range(GG[i2][j2]) = {}
        <5>1. i2 \in DOMAIN path
          BY <1>15
        <5>2. \/ j2 \in DOMAIN path[i2].groups /\ GG[i2][j2] = Rest(i2, j2)
              \/ i2 = i0 /\ j2 = Len(Rests(i0)) + 1 /\ GG[i2][j2] = nodes
          BY <3>1
        <5>3. CASE j \in DOMAIN path[i].groups /\ GG[i][j] = Rest(i, j) /\ j2 \in DOMAIN path[i2].groups /\ GG[i2][j2] = Rest(i2, j2)
          BY <2>5, <4>1, <4>4, <5>1, <5>3
        <5>4. CASE j \in DOMAIN path[i].groups /\ GG[i][j] = Rest(i, j) /\ GG[i2][j2] = nodes
          BY <2>5, <4>1, <5>4
        <5>5. CASE GG[i][j] = nodes /\ j2 \in DOMAIN path[i2].groups /\ GG[i2][j2] = Rest(i2, j2)
          BY <2>5, <5>1, <5>5
        <5>6. CASE i = i0 /\ j = Len(Rests(i0)) + 1 /\ i2 = i0 /\ j2 = Len(Rests(i0)) + 1
          BY <4>4, <5>6
        <5> QED BY <4>2, <5>2, <5>3, <5>4, <5>5, <5>6
      <4> QED BY <4>3, <4>4
    <3> QED BY <3>1, <3>2, OncePicked
  <2>7. OnceIn(q) /\ NamedOnce(q)
    BY <1>17, <2>6, NamedOnceIs
  <2> QED BY <1>18, <2>3, <2>4, <2>7 DEF Sound, Solid, Tidy
<1> QED BY <1>18, <1>19

-----------------------------------------------------------------------------
(* A line that was cut off *)

LEMMA CutFieldFact ==
  ASSUME NEW f \in FieldTypes, NEW c \in CutField(f)
  PROVE  /\ c \in FieldTypes
         /\ c.key = "NODESET" => /\ f.key = "NODESET"
                                 /\ \E n \in 0 .. Len(f.val) : c.val = SubSeq(f.val, 1, n)
<1>1. CASE c = Field("none", Empty)
  BY <1>1 DEF Field, FieldTypes
<1>2. CASE f.key = "NODESET" /\ \E n \in 0 .. Len(f.val) : c = [f EXCEPT !.val = SubSeq(f.val, 1, n)]
  <2>1. f \in [key : {"NODESET"}, val : Groups]
    BY <1>2 DEF FieldTypes
  <2>2. PICK n \in 0 .. Len(f.val) : c = [f EXCEPT !.val = SubSeq(f.val, 1, n)]
    BY <1>2
  <2>3. f.val \in Seq(Seq(Nat))
    BY <2>1 DEF Groups
  <2>4. SubSeq(f.val, 1, n) \in Seq(Seq(Nat))
    BY <2>3
  <2>5. c \in [key : {"NODESET"}, val : Groups] /\ c.val = SubSeq(f.val, 1, n)
    BY <2>1, <2>2, <2>4 DEF Groups
  <2> QED BY <1>2, <2>5 DEF FieldTypes
<1>3. CASE f.key # "NODESET" /\ c = [f EXCEPT !.val = Empty]
  <2>1. f \in [key : {"ID", "GROUPNAME"}, val : Strings] \/ f \in [key : {"none"}, val : {Empty}]
    BY <1>3 DEF FieldTypes
  <2>2. c \in [key : {"ID", "GROUPNAME"}, val : Strings] \/ c \in [key : {"none"}, val : {Empty}]
    BY <1>3, <2>1, EmptyString
  <2> QED BY <2>2 DEF FieldTypes
<1>4. CASE f.key # "NODESET" /\ c = f
  BY <1>4
<1> QED BY <1>1, <1>2, <1>3, <1>4 DEF CutField

LEMMA CutType ==
  ASSUME NEW line \in LineTypes, NEW l \in Cut(line)
  PROVE  /\ l \in LineTypes
         /\ line.section = "" => l.section = ""
         /\ line.section # "" => l = Fields(<<Field("none", Empty)>>) \/ l = Section("other")
<1>1. CASE line.section # ""
  <2>1. l = Fields(<<Field("none", Empty)>>) \/ l = Section("other")
    BY <1>1 DEF Cut
  <2>2. <<Field("none", Empty)>> \in Seq(FieldTypes)
    <3>1. Field("none", Empty) \in FieldTypes
      BY DEF Field, FieldTypes
    <3> QED BY <3>1
  <2>3. Fields(<<Field("none", Empty)>>) \in LineTypes /\ Section("other") \in LineTypes
    BY <2>2, FieldsFact, SectionFact
  <2> QED BY <1>1, <2>1, <2>3
<1>2. CASE line.section = ""
  <2> DEFINE F == line.fields
  <2>1. F \in Seq(FieldTypes)
    <3>1. <<>> \in Seq(FieldTypes)
      OBVIOUS
    <3> QED BY <3>1 DEF LineTypes
  <2>2. \/ \E k \in 0 .. Len(F) : l = Fields(SubSeq(F, 1, k))
        \/ \E k \in DOMAIN F : \E c \in CutField(F[k]) : l = Fields(Append(SubSeq(F, 1, k - 1), c))
    BY <1>2 DEF Cut
  <2> HIDE DEF F
  <2>3. ASSUME NEW k \in 0 .. Len(F), l = Fields(SubSeq(F, 1, k)) PROVE l \in LineTypes /\ l.section = ""
    <3>1. SubSeq(F, 1, k) \in Seq(FieldTypes)
      BY <2>1
    <3> QED BY <2>3, <3>1, FieldsFact
  <2>4. ASSUME NEW k \in DOMAIN F, NEW c \in CutField(F[k]), l = Fields(Append(SubSeq(F, 1, k - 1), c))
        PROVE  l \in LineTypes /\ l.section = ""
    <3>1. F[k] \in FieldTypes
      BY <2>1
    <3>2. c \in FieldTypes
      BY <3>1, CutFieldFact
    <3>3. SubSeq(F, 1, k - 1) \in Seq(FieldTypes)
      BY <2>1
    <3>4. Append(SubSeq(F, 1, k - 1), c) \in Seq(FieldTypes)
      BY <3>2, <3>3
    <3> QED BY <2>4, <3>4, FieldsFact
  <2> QED BY <1>2, <2>2, <2>3, <2>4
<1> QED BY <1>1, <1>2

\* Of the groups of a super group whose line was cut off the first ones are left.
LEMMA CutGroups ==
  ASSUME NEW sg \in SuperGroups, NEW l \in Cut(emit_sg(sg))
  PROVE  \E n \in 0 .. Len(sg.groups) : parse_line(l).groups = SubSeq(sg.groups, 1, n)
<1> DEFINE A == IdField(sg) \o NameField(sg)
           G == NodeField(sg)
           F == A \o G
           gs == sg.groups
<1>1. gs \in Seq(Seq(Nat)) /\ gs \in Groups
  BY DEF SuperGroups, Groups
<1>2. IdField(sg) \in Seq(FieldTypes) /\ NameField(sg) \in Seq(FieldTypes) /\ G \in Seq(FieldTypes)
  BY FieldFact
<1>3. emit_sg(sg) = Fields(F)
  BY FieldFact
<1>4. emit_sg(sg).section = "" /\ emit_sg(sg).fields = F
  <2> HIDE DEF F
  <2> QED BY <1>3, FieldsFact
<1>5. A \in Seq(FieldTypes) /\ \A i \in DOMAIN A : A[i].key # "NODESET"
  <2>1. \A i \in DOMAIN IdField(sg) : IdField(sg)[i].key = "ID"
    BY DEF IdField, Field
  <2>2. \A i \in DOMAIN NameField(sg) : NameField(sg)[i].key = "GROUPNAME"
    BY DEF NameField, Field
  <2>3. A \in Seq(FieldTypes)
    BY <1>2
  <2>4. \A x : x \in Range(A) <=> x \in Range(IdField(sg)) \/ x \in Range(NameField(sg))
    BY <1>2, ConcatRange
  <2>5. \A x \in Range(A) : x.key # "NODESET"
    BY <2>1, <2>2, <2>4 DEF Range
  <2> HIDE DEF A
  <2> QED BY <2>3, <2>5 DEF Range
<1>6. G = <<>> \/ (Len(G) = 1 /\ G[1] = Field("NODESET", gs))
  BY DEF NodeField
<1> HIDE DEF A, G
<1>7. F \in Seq(FieldTypes) /\ Len(F) = Len(A) + Len(G)
  BY <1>2, <1>5
<1>8. ASSUME NEW i \in DOMAIN F, F[i].key = "NODESET"
      PROVE  i = Len(F) /\ F[i] = Field("NODESET", gs)
  <2>1. i \notin DOMAIN A
    <3>1. i \in DOMAIN A => F[i] = A[i]
      BY <1>2, <1>5
    <3> QED BY <1>5, <1>8, <3>1
  <2>2. Len(G) = 1 /\ i = Len(A) + 1
    <3>1. Len(G) = 0 \/ Len(G) = 1
      BY <1>6
    <3>2. Len(A) \in Nat /\ DOMAIN A = 1 .. Len(A) /\ i \in 1 .. Len(A) + Len(G)
      BY <1>5, <1>7
    <3> DEFINE na == Len(A)
               ng == Len(G)
    <3>3. na \in Nat /\ (ng = 0 \/ ng = 1) /\ i \in 1 .. na + ng /\ i \notin 1 .. na
      BY <2>1, <3>1, <3>2
    <3> HIDE DEF na, ng
    <3>4. ng = 1 /\ i = na + 1
      BY <3>3
    <3> QED BY <3>4 DEF na, ng
  <2>3. F[i] = G[1]
    BY <1>2, <1>5, <2>2
  <2>4. G # <<>>
    BY <2>2
  <2> QED BY <1>6, <1>7, <2>2, <2>3, <2>4
<1> HIDE DEF F
<1>9. ASSUME NEW fs \in Seq(FieldTypes)
      PROVE  parse_line(Fields(fs)).groups = FlattenSeq(ValuesOf(Fields(fs), "NODESET"))
  BY DEF parse_line, SuperGroup
<1>10. FlattenSeq(<<>>) = <<>> /\ \A x \in Seq(Seq(Nat)) : FlattenSeq(<<x>>) = x
  BY FlattenFact, FlattenOne
<1>11. 0 \in 0 .. Len(gs) /\ Len(gs) \in 0 .. Len(gs) /\ SubSeq(gs, 1, 0) = <<>> /\ SubSeq(gs, 1, Len(gs)) = gs
  BY <1>1
<1>12. ASSUME NEW k \in Nat, k < Len(F)
       PROVE  SubSeq(F, 1, k) \in Seq(FieldTypes) /\ ValuesOf(Fields(SubSeq(F, 1, k)), "NODESET") = <<>>
  <2> DEFINE fs == SubSeq(F, 1, k)
  <2>1. fs \in Seq(FieldTypes)
    BY <1>7, <1>12
  <2>2. \A i \in DOMAIN fs : i \in DOMAIN F /\ i # Len(F) /\ fs[i] = F[i]
    BY <1>7, <1>12
  <2> HIDE DEF fs
  <2>3. \A i \in DOMAIN fs : fs[i].key # "NODESET"
    BY <1>8, <2>2
  <2>4. ValuesOf(Fields(fs), "NODESET") = <<>>
    BY <2>1, <2>3, ValuesNone
  <2> QED BY <2>1, <2>4 DEF fs
<1>13. \/ \E k \in 0 .. Len(F) : l = Fields(SubSeq(F, 1, k))
       \/ \E k \in DOMAIN F : \E c \in CutField(F[k]) : l = Fields(Append(SubSeq(F, 1, k - 1), c))
  BY <1>4 DEF Cut
<1>14. ASSUME NEW k \in 0 .. Len(F), l = Fields(SubSeq(F, 1, k))
       PROVE  \E n \in 0 .. Len(gs) : parse_line(l).groups = SubSeq(gs, 1, n)
  <2>1. CASE k < Len(F)
    <3>1. SubSeq(F, 1, k) \in Seq(FieldTypes) /\ ValuesOf(Fields(SubSeq(F, 1, k)), "NODESET") = <<>>
      BY <1>12, <2>1
    <3>2. parse_line(l).groups = <<>>
      BY <1>9, <1>10, <1>14, <3>1
    <3> QED BY <1>11, <3>2
  <2>2. CASE k = Len(F)
    <3>1. SubSeq(F, 1, k) = F
      BY <1>7, <2>2
    <3>2. parse_line(l) = KeptOf(sg)
      BY <1>3, <1>14, <3>1, ParseEmitted
    <3>3. parse_line(l).groups = gs
      BY <3>2 DEF KeptOf, SuperGroup
    <3> QED BY <1>11, <3>3
  <2>3. k < Len(F) \/ k = Len(F)
    BY <1>7
  <2> QED BY <2>1, <2>2, <2>3
<1>15. ASSUME NEW k \in DOMAIN F, NEW c \in CutField(F[k]), l = Fields(Append(SubSeq(F, 1, k - 1), c))
       PROVE  \E n \in 0 .. Len(gs) : parse_line(l).groups = SubSeq(gs, 1, n)
  <2> DEFINE pre == SubSeq(F, 1, k - 1)
  <2>1. F[k] \in FieldTypes /\ k - 1 \in Nat /\ k - 1 < Len(F)
    BY <1>7
  <2>2. pre \in Seq(FieldTypes) /\ ValuesOf(Fields(pre), "NODESET") = <<>>
    BY <1>12, <2>1
  <2>3. /\ c \in FieldTypes
        /\ c.key = "NODESET" => /\ F[k].key = "NODESET"
                                /\ \E n \in 0 .. Len(F[k].val) : c.val = SubSeq(F[k].val, 1, n)
    BY <2>1, CutFieldFact
  <2> HIDE DEF pre
  <2>4. Append(pre, c) = pre \o <<c>> /\ <<c>> \in Seq(FieldTypes) /\ Append(pre, c) \in Seq(FieldTypes)
    BY <2>2, <2>3
  <2>5. ValuesOf(Fields(pre \o <<c>>), "NODESET") = ValuesOf(Fields(pre), "NODESET") \o ValuesOf(Fields(<<c>>), "NODESET")
    BY <2>2, <2>4, ValuesConcat
  <2>6. ValuesOf(Fields(<<c>>), "NODESET") = IF c.key = "NODESET" THEN <<c.val>> ELSE <<>>
    BY <2>3, ValuesOne
  <2>7. <<>> \o <<>> = <<>> /\ <<>> \o <<c.val>> = <<c.val>>
    OBVIOUS
  <2>8. ValuesOf(Fields(Append(pre, c)), "NODESET") = IF c.key = "NODESET" THEN <<c.val>> ELSE <<>>
    BY <2>2, <2>4, <2>5, <2>6, <2>7
  <2>9. parse_line(l).groups = FlattenSeq(IF c.key = "NODESET" THEN <<c.val>> ELSE <<>>)
    BY <1>9, <1>15, <2>4, <2>8 DEF pre
  <2>10. CASE c.key = "NODESET"
    <3>1. F[k] = Field("NODESET", gs)
      BY <1>8, <2>3, <2>10
    <3>2. F[k].val = gs
      BY <3>1 DEF Field
    <3>3. PICK n \in 0 .. Len(gs) : c.val = SubSeq(gs, 1, n)
      BY <2>3, <2>10, <3>2
    <3>4. SubSeq(gs, 1, n) \in Seq(Seq(Nat))
      BY <1>1
    <3> QED BY <1>10, <2>9, <2>10, <3>3, <3>4
  <2>11. CASE c.key # "NODESET"
    BY <1>10, <1>11, <2>9, <2>11
  <2> QED BY <2>10, <2>11
<1> QED BY <1>13, <1>14, <1>15

-----------------------------------------------------------------------------
(* A file that was cut off *)

KeptList(sgl) == [i \in DOMAIN sgl |-> KeptOf(sgl[i])]
SaidAt(sgl) == {i \in DOMAIN sgl : Said(sgl[i])}

LEMMA KeptType ==
  ASSUME NEW sgl \in Seq(SuperGroups)
  PROVE  /\ Kept(sgl) = Pick(KeptList(sgl), SaidAt(sgl)) /\ Kept(sgl) \in Seq(SuperGroups)
         /\ KeptList(sgl) \in Seq(SuperGroups) /\ Len(KeptList(sgl)) = Len(sgl) /\ DOMAIN KeptList(sgl) = DOMAIN sgl
<1> DEFINE f == KeptList(sgl)
<1>1. \A sg \in SuperGroups : KeptOf(sg) \in SuperGroups
  BY DEF KeptOf, SuperGroup, SuperGroups, skip_spaces, Word, Strings
<1>2. \A i \in DOMAIN sgl : f[i] \in SuperGroups
  <2> TAKE i \in DOMAIN sgl
  <2>1. sgl[i] \in SuperGroups /\ f[i] = KeptOf(sgl[i])
    BY DEF KeptList
  <2> QED BY <1>1, <2>1
<1>3. f = [i \in DOMAIN sgl |-> f[i]]
  BY DEF KeptList
<1> HIDE DEF f
<1>4. f \in Seq(SuperGroups) /\ Len(f) = Len(sgl) /\ DOMAIN f = DOMAIN sgl
  BY <1>2, <1>3, ListType
<1>5. Kept(sgl) = Pick(f, SaidAt(sgl))
  BY DEF Kept, KeptList, SaidAt, KeptOf, Said, f
<1>6. Pick(f, SaidAt(sgl)) \in Seq(SuperGroups)
  <2>1. f \in Seq(SuperGroups)
    BY <1>4
  <2> QED BY <2>1, PickFact
<1> QED BY <1>4, <1>5, <1>6 DEF f

LEMMA KeptAppend ==
  ASSUME NEW a \in Seq(SuperGroups), NEW sg \in SuperGroups
  PROVE  Kept(Append(a, sg)) = Kept(a) \o (IF Said(sg) THEN <<KeptOf(sg)>> ELSE <<>>)
<1> DEFINE b == <<KeptOf(sg)>>
           c == Append(a, sg)
           ka == KeptList(a)
           B == {i \in {1} : Said(sg)}
<1>1. c \in Seq(SuperGroups) /\ Len(c) = Len(a) + 1 /\ c[Len(a) + 1] = sg
  OBVIOUS
<1>2. \A i \in DOMAIN a : i \in DOMAIN c /\ c[i] = a[i]
  OBVIOUS
<1>a. DOMAIN a = 1 .. Len(a) /\ DOMAIN c = 1 .. Len(a) + 1 /\ Len(a) \in Nat
  OBVIOUS
<1> HIDE DEF c
<1>3. ka \in Seq(SuperGroups) /\ Len(ka) = Len(a) /\ DOMAIN ka = DOMAIN a
  BY KeptType
<1>4. KeptList(c) \in Seq(SuperGroups) /\ Len(KeptList(c)) = Len(c)
  BY <1>1, KeptType
<1>5. KeptOf(sg) \in SuperGroups
  BY DEF KeptOf, SuperGroup, SuperGroups, skip_spaces, Word, Strings
<1>6. b \in Seq(SuperGroups) /\ Len(b) = 1 /\ b[1] = KeptOf(sg) /\ DOMAIN b = {1}
  BY <1>5
<1> HIDE DEF b
<1>7. KeptList(c) = ka \o b
  <2>1. \A i \in 1 .. Len(ka) : KeptList(c)[i] = ka[i]
    BY <1>2, <1>3, <1>a DEF KeptList
  <2>2. \A j \in 1 .. Len(b) : KeptList(c)[Len(ka) + j] = b[j]
    <3> TAKE j \in 1 .. Len(b)
    <3>1. j = 1
      BY <1>6
    <3>2. Len(a) + 1 \in DOMAIN c
      BY <1>a
    <3>3. KeptList(c)[Len(a) + 1] = KeptOf(sg)
      BY <1>1, <3>2 DEF KeptList
    <3> QED BY <1>3, <1>6, <3>1, <3>3
  <2>3. Len(KeptList(c)) = Len(ka) + Len(b)
    BY <1>1, <1>3, <1>4, <1>6
  <2>4. KeptList(c) \in Seq(SuperGroups) /\ ka \in Seq(SuperGroups) /\ b \in Seq(SuperGroups)
    BY <1>3, <1>4, <1>6
  <2> HIDE DEF ka
  <2> QED BY <2>1, <2>2, <2>3, <2>4, ConcatIs
<1> DEFINE P == SaidAt(c)
           A == SaidAt(a)
<1>8. Pick(ka \o b, P) = Pick(ka, A) \o Pick(b, B)
  <2>1. \A i \in DOMAIN ka : i \in P <=> i \in A
    BY <1>2, <1>3 DEF SaidAt
  <2>2. \A j \in DOMAIN b : Len(ka) + j \in P <=> j \in B
    <3> TAKE j \in DOMAIN b
    <3>1. j = 1 /\ Len(ka) + j = Len(a) + 1
      BY <1>3, <1>6
    <3>2. Len(a) + 1 \in DOMAIN c
      BY <1>a
    <3>3. Len(a) + 1 \in P <=> Said(sg)
      BY <1>1, <3>2 DEF SaidAt
    <3> QED BY <3>1, <3>3
  <2>3. ka \in Seq(SuperGroups) /\ b \in Seq(SuperGroups)
    BY <1>3, <1>6
  <2> HIDE DEF ka, P, A, B
  <2> QED BY <2>1, <2>2, <2>3, PickConcat
<1>9. Pick(b, B) = IF Said(sg) THEN b ELSE <<>>
  <2>1. 1 \in B <=> Said(sg)
    OBVIOUS
  <2> HIDE DEF B
  <2> QED BY <1>5, <2>1, PickOne DEF b
<1>10. Kept(c) = Pick(KeptList(c), P) /\ Kept(a) = Pick(ka, A)
  BY <1>1, KeptType
<1> QED BY <1>7, <1>8, <1>9, <1>10 DEF b, c

\* A file keeps all groups.
LEMMA KeptGroups ==
  ASSUME NEW sgl \in Seq(SuperGroups)
  PROVE  GroupsIn(Kept(sgl)) = GroupsIn(sgl)
<1> DEFINE S == {s \in Seq(SuperGroups) : GroupsIn(Kept(s)) = GroupsIn(s)}
<1>1. <<>> \in S
  <2>1. <<>> \in Seq(SuperGroups) /\ DOMAIN <<>> = {}
    OBVIOUS
  <2>2. Kept(<<>>) = Pick(KeptList(<<>>), SaidAt(<<>>)) /\ KeptList(<<>>) \in Seq(SuperGroups) /\ DOMAIN KeptList(<<>>) = {}
    BY <2>1, KeptType
  <2>3. Pick(KeptList(<<>>), SaidAt(<<>>)) = <<>>
    BY <2>2, PickNone
  <2> QED BY <2>1, <2>2, <2>3
<1>2. ASSUME NEW s \in Seq(SuperGroups), NEW sg \in SuperGroups, s \in S
      PROVE  Append(s, sg) \in S
  <2> DEFINE k == IF Said(sg) THEN <<KeptOf(sg)>> ELSE <<>>
  <2>1. Kept(Append(s, sg)) = Kept(s) \o k
    BY KeptAppend
  <2>2. KeptOf(sg) \in SuperGroups /\ KeptOf(sg).groups = sg.groups
    BY DEF KeptOf, SuperGroup, SuperGroups, skip_spaces, Word, Strings
  <2>3. k \in Seq(SuperGroups)
    BY <2>2
  <2>4. GroupsIn(k) = sg.groups
    <3>1. GroupsIn(<<KeptOf(sg)>>) = sg.groups /\ GroupsIn(<<>>) = <<>>
      BY <2>2, GroupsInOne
    <3> QED BY <3>1 DEF Said
  <2> HIDE DEF k
  <2>5. Kept(s) \in Seq(SuperGroups)
    BY KeptType
  <2>6. GroupsIn(Kept(s) \o k) = GroupsIn(Kept(s)) \o GroupsIn(k)
    BY <2>3, <2>5, GroupsInConcat
  <2>7. Append(s, sg) = s \o <<sg>> /\ <<sg>> \in Seq(SuperGroups) /\ Append(s, sg) \in Seq(SuperGroups)
    OBVIOUS
  <2>8. GroupsIn(s \o <<sg>>) = GroupsIn(s) \o GroupsIn(<<sg>>) /\ GroupsIn(<<sg>>) = sg.groups
    BY <2>7, GroupsInConcat, GroupsInOne
  <2>9. GroupsIn(Kept(s)) = GroupsIn(s)
    BY <1>2
  <2> QED BY <2>1, <2>4, <2>6, <2>7, <2>8, <2>9
<1>3. Seq(SuperGroups) \subseteq S
  BY <1>1, <1>2, SeqInduction
<1> QED BY <1>3

\* The lines a are of the path section and hold the groups gs.
InPath(a, gs) ==
    /\ a \in Seq(LineTypes) /\ SectionAt(a, Len(a)) = "PATHINFO"
    /\ parse_sgl(a, "SIMILARINFO") = <<>> /\ GroupsIn(parse_sgl(a, "PATHINFO")) = gs

LEMMA InPathEmpty == InPath(<<>>, <<>>)
<1>1. <<>> \in Seq(LineTypes) /\ Len(<<>>) = 0 /\ DOMAIN <<>> = {}
  OBVIOUS
<1>2. \A s : parse_sgl(<<>>, s) = <<>>
  <2> TAKE s
  <2>1. parse_sgl(<<>>, s) = Pick(Parsed(<<>>), InSection(<<>>, s))
    BY <1>1, ParseType
  <2>2. Parsed(<<>>) \in Seq(SuperGroups) /\ \A i \in DOMAIN Parsed(<<>>) : i \notin InSection(<<>>, s)
    BY <1>1, ParsedType
  <2> QED BY <2>1, <2>2, PickNone
<1>3. SectionAt(<<>>, 0) = "PATHINFO"
  <2>1. Switches(<<>>, 0) = {}
    BY DEF Switches
  <2> QED BY <2>1, SectionAtAre
<1>4. GroupsIn(<<>>) = <<>>
  <2>1. FlattenSeq(<<>>) = <<>>
    BY FlattenFact
  <2>2. [i \in DOMAIN <<>> |-> <<>>[i].groups] = <<>>
    BY <1>1
  <2> QED BY <2>1, <2>2 DEF GroupsIn
<1> QED BY <1>1, <1>2, <1>3, <1>4 DEF InPath

LEMMA InPathPart ==
  ASSUME NEW sgl \in Seq(SuperGroups)
  PROVE  InPath(PathPart(sgl), GroupsIn(sgl))
BY ParsePath, KeptGroups DEF InPath

LEMMA NoSwitchOne ==
  ASSUME NEW l
  PROVE  l.section = "" => NoSwitch(<<l>>)
<1>1. DOMAIN <<l>> = {1} /\ <<l>>[1] = l
  OBVIOUS
<1> QED BY <1>1 DEF NoSwitch

LEMMA InPathLine ==
  ASSUME NEW a, NEW gs, InPath(a, gs), NEW l \in LineTypes, NoSwitch(<<l>>)
  PROVE  LET f == a \o <<l>>
         IN  parse_sgl(f, "SIMILARINFO") = <<>> /\ GroupsIn(parse_sgl(f, "PATHINFO")) = gs \o parse_line(l).groups
<1> DEFINE b == <<l>>
           p == parse_sgl(a, "PATHINFO")
           sg == parse_line(l)
<1>1. a \in Seq(LineTypes) /\ b \in Seq(LineTypes) /\ DOMAIN b = {1} /\ b[1] = l
  BY DEF InPath
<1>2. NoSwitch(b)
  OBVIOUS
<1> HIDE DEF b
<1>3. \A s : parse_sgl(a \o b, s) = parse_sgl(a, s) \o (IF SectionAt(a, Len(a)) = s THEN Plain(b) ELSE <<>>)
  BY <1>1, <1>2, ParsePlain
<1>4. SectionAt(a, Len(a)) = "PATHINFO" /\ parse_sgl(a, "SIMILARINFO") = <<>> /\ GroupsIn(p) = gs
  BY DEF InPath
<1>5. parse_sgl(a \o b, "SIMILARINFO") = <<>> \o <<>> /\ parse_sgl(a \o b, "PATHINFO") = p \o Plain(b)
  BY <1>3, <1>4
<1>6. sg \in SuperGroups
  BY ParseLineType
<1>7. Plain(b) = IF l.fields # <<>> THEN <<sg>> ELSE <<>>
  <2>1. Parsed(b) = <<sg>>
    <3>1. Parsed(b) = [i \in {1} |-> sg]
      BY <1>1 DEF Parsed
    <3>2. <<sg>> = [i \in {1} |-> sg]
      OBVIOUS
    <3> QED BY <3>1, <3>2
  <2> DEFINE P == {i \in DOMAIN b : b[i].fields # <<>>}
  <2>2. 1 \in P <=> l.fields # <<>>
    BY <1>1
  <2>3. Plain(b) = Pick(<<sg>>, P)
    BY <2>1 DEF Plain
  <2> HIDE DEF P, sg
  <2> QED BY <1>6, <2>2, <2>3, PickOne
<1>8. l.fields = <<>> => sg.groups = <<>>
  <2>1. SUFFICES ASSUME l.fields = <<>> PROVE sg.groups = <<>>
    OBVIOUS
  <2>2. ValuesOf(l, "NODESET") = Pick(ValsOf(l.fields), {i \in DOMAIN l.fields : l.fields[i].key = "NODESET"})
    BY ValuesAre
  <2>3. <<>> \in Seq(FieldTypes) /\ DOMAIN <<>> = {}
    OBVIOUS
  <2>4. ValsOf(<<>>) \in Seq(Vals) /\ DOMAIN ValsOf(<<>>) = {}
    BY <2>3, ValsType
  <2>5. \A P : Pick(ValsOf(<<>>), P) = <<>>
    BY <2>4, PickNone
  <2>6. ValuesOf(l, "NODESET") = <<>>
    BY <2>1, <2>2, <2>5
  <2>7. FlattenSeq(<<>>) = <<>>
    BY FlattenFact
  <2> QED BY <2>6, <2>7 DEF parse_line, SuperGroup
<1>9. p \in Seq(SuperGroups)
  BY <1>1, ParseType
<1> HIDE DEF p, sg
<1>10. GroupsIn(p \o Plain(b)) = gs \o sg.groups
  <2>1. Plain(b) \in Seq(SuperGroups)
    BY <1>6, <1>7
  <2>2. GroupsIn(p \o Plain(b)) = GroupsIn(p) \o GroupsIn(Plain(b))
    BY <1>9, <2>1, GroupsInConcat
  <2>3. GroupsIn(<<sg>>) = sg.groups /\ GroupsIn(<<>>) = <<>>
    BY <1>6, GroupsInOne
  <2>4. GroupsIn(Plain(b)) = sg.groups
    BY <1>7, <1>8, <2>3
  <2> QED BY <1>4, <2>2, <2>4
<1>11. <<>> \o <<>> = <<>>
  OBVIOUS
<1> QED BY <1>5, <1>10, <1>11 DEF b, p, sg

LEMMA InPathOther ==
  ASSUME NEW a, NEW gs, InPath(a, gs)
  PROVE  LET f == a \o <<Section("other")>>
         IN  parse_sgl(f, "SIMILARINFO") = <<>> /\ GroupsIn(parse_sgl(f, "PATHINFO")) = gs
<1>1. \A s : parse_sgl(a \o <<Section("other")>>, s) = parse_sgl(a, s)
  BY ParseSwitch DEF InPath
<1> QED BY <1>1 DEF InPath

LEMMA SubSeqConcat ==
  ASSUME NEW T, NEW a \in Seq(T), NEW b \in Seq(T), NEW k \in 0 .. Len(a) + Len(b)
  PROVE  /\ k <= Len(a) => SubSeq(a \o b, 1, k) = SubSeq(a, 1, k)
         /\ k >= Len(a) => SubSeq(a \o b, 1, k) = a \o SubSeq(b, 1, k - Len(a))
<1> DEFINE c == a \o b
           s == SubSeq(c, 1, k)
<1>1. c \in Seq(T) /\ Len(c) = Len(a) + Len(b) /\ Len(a) \in Nat /\ Len(b) \in Nat
  OBVIOUS
<1>2. s \in Seq(T) /\ Len(s) = k /\ \A i \in 1 .. k : s[i] = c[i]
  <2> HIDE DEF c
  <2> QED BY <1>1
<1>3. ASSUME k <= Len(a) PROVE s = SubSeq(a, 1, k)
  <2> DEFINE t == SubSeq(a, 1, k)
  <2>1. t \in Seq(T) /\ Len(t) = k /\ \A i \in 1 .. k : t[i] = a[i] /\ c[i] = a[i]
    BY <1>3
  <2> HIDE DEF s, t, c
  <2>2. \A i \in 1 .. k : s[i] = t[i]
    BY <1>2, <2>1
  <2>3. s = t
    BY <1>2, <2>1, <2>2
  <2> QED BY <2>3 DEF s, t
<1>4. ASSUME k >= Len(a) PROVE s = a \o SubSeq(b, 1, k - Len(a))
  <2> DEFINE t == SubSeq(b, 1, k - Len(a))
  <2>1. k - Len(a) \in 0 .. Len(b)
    BY <1>1, <1>4
  <2>2. t \in Seq(T) /\ Len(t) = k - Len(a) /\ \A j \in 1 .. Len(t) : t[j] = b[j]
    BY <2>1
  <2> HIDE DEF t
  <2>3. \A i \in 1 .. Len(a) : s[i] = a[i]
    <3>1. \A i \in 1 .. Len(a) : i \in 1 .. k /\ c[i] = a[i]
      BY <1>1, <1>4
    <3> HIDE DEF c, s
    <3> QED BY <1>2, <3>1
  <2>4. \A j \in 1 .. Len(t) : s[Len(a) + j] = t[j]
    <3> TAKE j \in 1 .. Len(t)
    <3>1. Len(a) + j \in 1 .. k /\ j \in 1 .. Len(b)
      BY <1>1, <2>1, <2>2
    <3>2. c[Len(a) + j] = b[j]
      BY <3>1
    <3> HIDE DEF c, s
    <3> QED BY <1>2, <2>2, <3>1, <3>2
  <2>5. Len(s) = Len(a) + Len(t)
    BY <1>1, <1>2, <2>1, <2>2
  <2>6. s \in Seq(T)
    BY <1>2
  <2> HIDE DEF s
  <2>7. s = a \o t
    BY <2>2, <2>3, <2>4, <2>5, <2>6, ConcatIs
  <2> QED BY <2>7 DEF t
<1> QED BY <1>3, <1>4

LEMMA PathPrefix ==
  ASSUME NEW sgl \in Seq(SuperGroups), NEW j \in 0 .. Len(sgl)
  PROVE  /\ SubSeq(PathPart(sgl), 1, j + 1) = PathPart(SubSeq(sgl, 1, j))
         /\ SubSeq(sgl, 1, j) \in Seq(SuperGroups)
<1> DEFINE l == Section("PATHINFO")
           e == emit_sgl(sgl)
           p == SubSeq(sgl, 1, j)
           a == <<l>>
<1>1. l \in LineTypes
  BY SectionFact
<1> HIDE DEF l
<1>2. a \in Seq(LineTypes) /\ Len(a) = 1
  BY <1>1
<1>3. e \in Seq(LineTypes) /\ Len(e) = Len(sgl)
  BY EmitList
<1>4. p \in Seq(SuperGroups) /\ Len(p) = j /\ \A i \in 1 .. j : p[i] = sgl[i]
  OBVIOUS
<1> HIDE DEF p
<1>5. emit_sgl(p) \in Seq(LineTypes) /\ Len(emit_sgl(p)) = j
  BY <1>4, EmitList
<1>6. SubSeq(e, 1, j) = emit_sgl(p)
  <2>1. DOMAIN p = 1 .. j /\ DOMAIN sgl = 1 .. Len(sgl) /\ j \in Nat /\ Len(sgl) \in Nat
    BY <1>4
  <2>2. \A i \in 1 .. j : emit_sgl(p)[i] = emit_sg(p[i])
    BY <2>1 DEF emit_sgl
  <2>3. \A i \in 1 .. j : e[i] = emit_sg(sgl[i])
    BY <2>1 DEF emit_sgl
  <2> HIDE DEF e
  <2>4. \A i \in 1 .. j : emit_sgl(p)[i] = e[i]
    BY <1>4, <2>2, <2>3
  <2>5. SubSeq(e, 1, j) \in Seq(LineTypes) /\ Len(SubSeq(e, 1, j)) = j /\ \A i \in 1 .. j : SubSeq(e, 1, j)[i] = e[i]
    BY <1>3, <2>1
  <2> QED BY <1>5, <2>1, <2>4, <2>5
<1> HIDE DEF a, e
<1>7. SubSeq(a \o e, 1, j + 1) = a \o SubSeq(e, 1, (j + 1) - Len(a))
  <2>1. j + 1 \in 0 .. Len(a) + Len(e) /\ j + 1 >= Len(a)
    BY <1>2, <1>3
  <2> QED BY <1>2, <1>3, <2>1, SubSeqConcat
<1>8. (j + 1) - Len(a) = j
  BY <1>2
<1> QED BY <1>4, <1>6, <1>7, <1>8 DEF PathPart, a, e, p, l

\* The lines of the file of m, and what its first k lines are.
LEMMA EmitLines ==
  ASSUME NEW m \in Managers, NEW k \in 0 .. Len(emit(m))
  PROVE  LET E == emit(m)
             P == Len(m.path)
         IN  /\ k = 0 => SubSeq(E, 1, k) = <<>>
             /\ k \in 1 .. P + 1 => SubSeq(E, 1, k) = PathPart(SubSeq(m.path, 1, k - 1))
             /\ k >= P + 2 => \E b \in Seq(LineTypes) :
                                 NoSwitch(b) /\ SubSeq(E, 1, k) = PathPart(m.path) \o <<Section("SIMILARINFO")>> \o b
             /\ k = 1 => E[k] = Section("PATHINFO")
             /\ k \in 2 .. P + 1 => E[k] = emit_sg(m.path[k - 1])
             /\ k = P + 2 => E[k] = Section("SIMILARINFO")
             /\ k >= P + 3 => E[k].section = ""
<1> DEFINE E == emit(m)
           P == Len(m.path)
           h == PathPart(m.path)
           l == Section("SIMILARINFO")
           s == emit_sgl(m.similar)
           hl == h \o <<l>>
<1>1. m.path \in Seq(SuperGroups) /\ m.similar \in Seq(SuperGroups)
  BY DEF Managers
<1>2. h \in Seq(LineTypes) /\ Len(h) = P + 1 /\ P \in Nat
  BY <1>1, ParsePath
<1>3. s \in Seq(LineTypes) /\ NoSwitch(s)
  BY <1>1, EmitList
<1>4. l \in LineTypes
  BY SectionFact
<1>5. E = hl \o s /\ E \in Seq(LineTypes)
  BY EmitIs
<1>b. \A i \in DOMAIN m.path : emit_sgl(m.path)[i] = emit_sg(m.path[i])
  BY DEF emit_sgl
<1>6. /\ h[1] = Section("PATHINFO")
      /\ \A i \in 2 .. P + 1 : h[i] = emit_sg(m.path[i - 1])
  <2> DEFINE e == emit_sgl(m.path)
             x == Section("PATHINFO")
  <2>1. e \in Seq(LineTypes) /\ Len(e) = P
    BY <1>1, EmitList
  <2>2. x \in LineTypes
    BY SectionFact
  <2> HIDE DEF e, x
  <2>3. (<<x>> \o e)[1] = x /\ \A i \in 2 .. P + 1 : (<<x>> \o e)[i] = e[i - 1]
    BY <1>2, <2>1, <2>2
  <2>4. \A i \in 2 .. P + 1 : i - 1 \in DOMAIN m.path
    BY <1>1, <1>2
  <2>5. h = <<x>> \o e
    BY DEF PathPart, e, x
  <2> HIDE DEF h, P
  <2>6. \A i \in 2 .. P + 1 : e[i - 1] = emit_sg(m.path[i - 1])
    BY <1>b, <2>4 DEF e
  <2> QED BY <2>3, <2>5, <2>6 DEF x
<1> HIDE DEF E, P, h, l, s
<1>7. hl \in Seq(LineTypes) /\ Len(hl) = P + 2 /\ hl[P + 2] = l /\ \A i \in 1 .. P + 1 : hl[i] = h[i]
  BY <1>2, <1>4
<1>8. k \in 0 .. Len(E) /\ Len(E) = Len(hl) + Len(s) /\ Len(s) \in Nat /\ k \in Nat
  <2> HIDE DEF hl
  <2>1. k \in 0 .. Len(E)
    BY DEF E
  <2>2. Len(s) \in Nat /\ Len(E) \in Nat /\ Len(hl \o s) = Len(hl) + Len(s)
    <3>1. s \in Seq(LineTypes) /\ hl \in Seq(LineTypes) /\ E \in Seq(LineTypes)
      BY <1>3, <1>5, <1>7
    <3> QED BY <3>1, ConcatProperties, LenProperties
  <2>3. Len(E) = Len(hl) + Len(s)
    BY <1>5, <2>2
  <2>4. k \in Nat
    <3> HIDE DEF E
    <3> QED BY <2>1, <2>2
  <2> QED BY <2>1, <2>2, <2>3, <2>4
<1>9. SubSeq(E, 1, 0) = <<>>
  BY <1>5
<1>10. ASSUME k \in 1 .. P + 1 PROVE SubSeq(E, 1, k) = PathPart(SubSeq(m.path, 1, k - 1))
  <2>1. SubSeq(hl \o s, 1, k) = SubSeq(hl, 1, k)
    <3> HIDE DEF hl
    <3>1. k \in 0 .. Len(hl) + Len(s) /\ k <= Len(hl)
      BY <1>2, <1>7, <1>8, <1>10
    <3> QED BY <1>3, <1>7, <3>1, SubSeqConcat
  <2>2. SubSeq(h \o <<l>>, 1, k) = SubSeq(h, 1, k)
    <3>1. <<l>> \in Seq(LineTypes) /\ Len(<<l>>) = 1
      BY <1>4
    <3>2. k \in 0 .. Len(h) + Len(<<l>>) /\ k <= Len(h)
      BY <1>2, <1>10, <3>1
    <3> QED BY <1>2, <3>1, <3>2, SubSeqConcat
  <2>3. SubSeq(h, 1, k) = PathPart(SubSeq(m.path, 1, k - 1))
    <3>1. k - 1 \in 0 .. Len(m.path) /\ (k - 1) + 1 = k
      BY <1>2, <1>10 DEF P
    <3>2. SubSeq(PathPart(m.path), 1, (k - 1) + 1) = PathPart(SubSeq(m.path, 1, k - 1))
      BY <1>1, <3>1, PathPrefix
    <3> QED BY <3>1, <3>2 DEF h
  <2> QED BY <1>5, <2>1, <2>2, <2>3
<1>11. ASSUME k >= P + 2
       PROVE  \E b \in Seq(LineTypes) : NoSwitch(b) /\ SubSeq(E, 1, k) = hl \o b
  <2> DEFINE b == SubSeq(s, 1, k - Len(hl))
  <2>1. k - Len(hl) \in 0 .. Len(s) /\ k >= Len(hl)
    <3> HIDE DEF hl
    <3> QED BY <1>2, <1>7, <1>8, <1>11
  <2>2. b \in Seq(LineTypes) /\ \A i \in DOMAIN b : i \in DOMAIN s /\ b[i] = s[i]
    <3> DEFINE n == k - Len(hl)
    <3> HIDE DEF n
    <3>1. n \in 0 .. Len(s)
      BY <2>1 DEF n
    <3>2. SubSeq(s, 1, n) \in Seq(LineTypes) /\ \A i \in DOMAIN SubSeq(s, 1, n) : i \in DOMAIN s /\ SubSeq(s, 1, n)[i] = s[i]
      BY <1>3, <3>1
    <3> QED BY <3>2 DEF n
  <2>3. SubSeq(hl \o s, 1, k) = hl \o b
    <3> HIDE DEF hl
    <3>1. k \in 0 .. Len(hl) + Len(s)
      BY <1>8
    <3> QED BY <1>3, <1>7, <2>1, <3>1, SubSeqConcat
  <2> HIDE DEF b
  <2>4. NoSwitch(b)
    BY <1>3, <2>2 DEF NoSwitch
  <2> QED BY <1>5, <2>2, <2>3, <2>4
<1>12. \A i \in 1 .. P + 2 : E[i] = hl[i]
  <2> HIDE DEF hl
  <2> QED BY <1>2, <1>3, <1>5, <1>7
<1>13. ASSUME k >= P + 3 PROVE E[k].section = ""
  <2> HIDE DEF hl
  <2>1. k - Len(hl) \in DOMAIN s
    BY <1>2, <1>3, <1>7, <1>8, <1>13
  <2>2. E[k] = s[k - Len(hl)]
    BY <1>2, <1>3, <1>5, <1>7, <1>8, <1>13
  <2> QED BY <1>3, <2>1, <2>2 DEF NoSwitch
<1>14. k = 1 => E[k] = Section("PATHINFO")
  <2>1. 1 \in 1 .. P + 2 /\ 1 \in 1 .. P + 1
    BY <1>2
  <2> QED BY <1>6, <1>7, <1>12, <2>1
<1>15. k \in 2 .. P + 1 => E[k] = emit_sg(m.path[k - 1])
  <2>1. k \in 2 .. P + 1 => k \in 1 .. P + 2 /\ k \in 1 .. P + 1
    BY <1>2
  <2> QED BY <1>6, <1>7, <1>12, <2>1
<1>16. k = P + 2 => E[k] = l
  <2>1. P + 2 \in 1 .. P + 2
    BY <1>2
  <2> QED BY <1>7, <1>12, <2>1
<1> QED BY <1>9, <1>10, <1>11, <1>13, <1>14, <1>15, <1>16 DEF E, P, h, l

LEMMA SplitAt ==
  ASSUME NEW T, NEW s \in Seq(T), NEW j \in 0 .. Len(s)
  PROVE  /\ SubSeq(s, 1, j) \in Seq(T)
         /\ \E rest \in Seq(T) : s = SubSeq(s, 1, j) \o rest
<1>1. SubSeq(s, 1, j) \in Seq(T)
  BY SubSeqProperties
<1>2. SubSeq(s, j + 1, Len(s)) \in Seq(T)
  BY SubSeqProperties
<1>3. s = SubSeq(s, 1, j) \o SubSeq(s, j + 1, Len(s))
  <2>1. SubSeq(s, 1, j) \o SubSeq(s, j + 1, Len(s)) = SubSeq(s, 1, Len(s))
    <3>1. 1 \in 1 .. Len(s) + 1 /\ j \in 1 - 1 .. Len(s) /\ Len(s) \in j .. Len(s)
      BY LenProperties
    <3> QED BY <3>1, ConcatAdjacentSubSeq, Zenon
  <2>2. SubSeq(s, 1, Len(s)) = s
    BY SubSeqFull
  <2> QED BY <2>1, <2>2
<1> QED BY <1>1, <1>2, <1>3

LEMMA ConcatAssoc ==
  ASSUME NEW T, NEW a \in Seq(T), NEW b \in Seq(T), NEW c \in Seq(T)
  PROVE  a \o (b \o c) = (a \o b) \o c
OBVIOUS

LEMMA GroupsAssoc ==
  /\ \A a, b, c \in Groups : a \o (b \o c) = (a \o b) \o c
  /\ \A a, b \in Groups : a \o b \in Groups
<1> SUFFICES ASSUME NEW a \in Groups, NEW b \in Groups, NEW c \in Groups
             PROVE  a \o (b \o c) = (a \o b) \o c /\ a \o b \in Groups
  OBVIOUS
<1> DEFINE T == Seq(Nat)
<1>1. a \in Seq(T) /\ b \in Seq(T) /\ c \in Seq(T) /\ Groups = Seq(T)
  BY DEF Groups
<1> HIDE DEF T
<1>2. a \o b \in Seq(T)
  BY <1>1
<1> QED BY <1>1, <1>2, ConcatAssoc

\* The groups of the first super groups, and those of the next one too or some
\* of them, come first among all groups.
LEMMA SplitGroups ==
  ASSUME NEW sgl \in Seq(SuperGroups), NEW j \in 0 .. Len(sgl)
  PROVE  /\ GroupsIn(SubSeq(sgl, 1, j)) \in Groups
         /\ \E rest \in Groups : GroupsIn(sgl) = GroupsIn(SubSeq(sgl, 1, j)) \o rest
<1>1. SubSeq(sgl, 1, j) \in Seq(SuperGroups)
  BY SplitAt
<1>2. PICK r \in Seq(SuperGroups) : sgl = SubSeq(sgl, 1, j) \o r
  BY SplitAt
<1>3. GroupsIn(sgl) = GroupsIn(SubSeq(sgl, 1, j)) \o GroupsIn(r)
  BY <1>1, <1>2, GroupsInConcat
<1>4. GroupsIn(SubSeq(sgl, 1, j)) \in Groups /\ GroupsIn(r) \in Groups
  BY <1>1, GroupsInFact
<1> QED BY <1>3, <1>4

LEMMA SplitNext ==
  ASSUME NEW sgl \in Seq(SuperGroups), NEW j \in 1 .. Len(sgl), NEW n \in 0 .. Len(sgl[j].groups)
  PROVE  LET gs == GroupsIn(SubSeq(sgl, 1, j - 1)) \o SubSeq(sgl[j].groups, 1, n)
         IN  gs \in Groups /\ \E rest \in Groups : GroupsIn(sgl) = gs \o rest
<1> DEFINE a == SubSeq(sgl, 1, j - 1)
           ga == GroupsIn(a)
           g == sgl[j].groups
           b == SubSeq(g, 1, n)
<1>1. j - 1 \in 0 .. Len(sgl) /\ j \in 0 .. Len(sgl) /\ Len(sgl) \in Nat
  OBVIOUS
<1>2. a \in Seq(SuperGroups) /\ ga \in Groups
  BY <1>1, SplitAt, SplitGroups
<1>3. sgl[j] \in SuperGroups
  BY ElementOfSeq
<1>4. g \in Groups
  BY <1>3 DEF SuperGroups
<1>5. SubSeq(sgl, 1, j) = a \o <<sgl[j]>>
  <2>1. SubSeq(sgl, 1, j) = Append(a, sgl[j])
    BY <1>1, SubSeqRecursiveSecond
  <2> HIDE DEF a
  <2>2. Append(a, sgl[j]) = a \o <<sgl[j]>>
    BY <1>2, <1>3, AppendIsConcat
  <2> QED BY <2>1, <2>2
<1>6. GroupsIn(SubSeq(sgl, 1, j)) = ga \o g
  <2>1. <<sgl[j]>> \in Seq(SuperGroups)
    BY <1>3
  <2>2. GroupsIn(a \o <<sgl[j]>>) = ga \o GroupsIn(<<sgl[j]>>)
    BY <1>2, <2>1, GroupsInConcat
  <2>3. GroupsIn(<<sgl[j]>>) = g
    BY <1>3, GroupsInOne
  <2> QED BY <1>5, <2>2, <2>3
<1>7. PICK r \in Groups : GroupsIn(sgl) = (ga \o g) \o r
  BY <1>1, <1>6, SplitGroups
<1> HIDE DEF a, ga, g
<1>8. b \in Groups /\ \E q \in Groups : g = b \o q
  <2>1. g \in Seq(Seq(Nat)) /\ n \in 0 .. Len(g)
    BY <1>4 DEF Groups, g
  <2> QED BY <2>1, SplitAt DEF Groups
<1>9. PICK q \in Groups : g = b \o q
  BY <1>8
<1> HIDE DEF b
<1>10. ga \o b \in Groups /\ q \o r \in Groups /\ (ga \o (b \o q)) \o r = (ga \o b) \o (q \o r)
  <2>1. ga \o b \in Groups /\ q \o r \in Groups
    BY <1>2, <1>8, GroupsAssoc
  <2>a. \A x, y, z \in Groups : x \o (y \o z) = (x \o y) \o z
    BY GroupsAssoc, Zenon
  <2>2. ga \o (b \o q) = (ga \o b) \o q
    BY <1>2, <1>8, <2>a, Zenon
  <2>3. (ga \o b) \o (q \o r) = ((ga \o b) \o q) \o r
    BY <2>1, <2>a, Zenon
  <2> QED BY <2>1, <2>2, <2>3
<1>11. GroupsIn(sgl) = (ga \o b) \o (q \o r)
  BY <1>7, <1>9, <1>10
<1> QED BY <1>10, <1>11 DEF a, ga, b, g

\* What is read of the lines of a torn file: all groups of the path list of m,
\* or the first of them and nothing of the other list.
Torn(m, p) ==
    \/ GroupsIn(p.path) = GroupsIn(m.path)
    \/ p.similar = <<>> /\ \E rest \in Groups : GroupsIn(m.path) = GroupsIn(p.path) \o rest

LEMMA TornPath ==
  ASSUME NEW m, NEW f, NEW gs, parse_sgl(f, "SIMILARINFO") = <<>>, GroupsIn(parse_sgl(f, "PATHINFO")) = gs,
         \E rest \in Groups : GroupsIn(m.path) = gs \o rest
  PROVE  Torn(m, parse(f))
BY DEF Torn, parse

\* The line a section line that was cut off reads as.
LEMMA NoneLine ==
  LET l == Fields(<<Field("none", Empty)>>)
  IN  l \in LineTypes /\ NoSwitch(<<l>>) /\ parse_line(l).groups = <<>>
<1> DEFINE f == Field("none", Empty)
           l == Fields(<<f>>)
<1>1. f \in FieldTypes /\ f.key = "none"
  BY EmptyString DEF Field, FieldTypes
<1> HIDE DEF f
<1>2. <<f>> \in Seq(FieldTypes)
  BY <1>1
<1>3. l \in LineTypes /\ NoSwitch(<<l>>)
  BY <1>2, FieldsFact, NoSwitchOne
<1>4. ValuesOf(l, "NODESET") = <<>>
  BY <1>1, ValuesOne
<1>5. FlattenSeq(<<>>) = <<>>
  BY FlattenFact
<1>6. parse_line(l).groups = FlattenSeq(ValuesOf(l, "NODESET"))
  BY DEF parse_line, SuperGroup
<1> QED BY <1>3, <1>4, <1>5, <1>6 DEF f

LEMMA TornSection ==
  ASSUME NEW m, NEW a, NEW gs \in Groups, InPath(a, gs), NEW l,
         l = Fields(<<Field("none", Empty)>>) \/ l = Section("other"),
         \E rest \in Groups : GroupsIn(m.path) = gs \o rest
  PROVE  Torn(m, parse(a \o <<l>>))
<1> DEFINE n == Fields(<<Field("none", Empty)>>)
<1>1. n \in LineTypes /\ NoSwitch(<<n>>) /\ parse_line(n).groups = <<>>
  BY NoneLine
<1>2. l = n \/ l = Section("other")
  OBVIOUS
<1> HIDE DEF n
<1>3. gs \o <<>> = gs
  BY ConcatEmptySeq DEF Groups
<1>4. CASE l = n
  <2>1. parse_sgl(a \o <<n>>, "SIMILARINFO") = <<>> /\ GroupsIn(parse_sgl(a \o <<n>>, "PATHINFO")) = gs
    BY <1>1, <1>3, InPathLine
  <2> QED BY <1>4, <2>1, TornPath
<1>5. CASE l = Section("other")
  <2>1. LET f == a \o <<Section("other")>>
        IN  parse_sgl(f, "SIMILARINFO") = <<>> /\ GroupsIn(parse_sgl(f, "PATHINFO")) = gs
    BY InPathOther
  <2> QED BY <1>5, <2>1, TornPath
<1> QED BY <1>2, <1>4, <1>5

LEMMA PrefixType ==
  ASSUME NEW T, NEW s \in Seq(T)
  PROVE  /\ \A k \in 0 .. Len(s) : SubSeq(s, 1, k) \in Seq(T)
         /\ \A k \in DOMAIN s : k - 1 \in 0 .. Len(s) /\ k \in 0 .. Len(s) /\ s[k] \in T
<1>1. \A k \in 0 .. Len(s) : SubSeq(s, 1, k) \in Seq(T)
  BY SplitAt
<1>2. \A k \in DOMAIN s : k - 1 \in 0 .. Len(s) /\ k \in 0 .. Len(s) /\ s[k] \in T
  OBVIOUS
<1> QED BY <1>1, <1>2

\* A beginning of a file is a file: its lines, or those before a line and what a
\* cut leaves of that one.
LEMMA BeginningIs ==
  ASSUME NEW file \in Seq(LineTypes), NEW f \in Beginnings(file)
  PROVE  /\ f \in Seq(LineTypes)
         /\ \/ \E k \in 0 .. Len(file) : f = SubSeq(file, 1, k)
            \/ \E k \in DOMAIN file : \E l \in Cut(file[k]) :
                  l \in LineTypes /\ f = SubSeq(file, 1, k - 1) \o <<l>>
<1>1. \/ \E k \in 0 .. Len(file) : f = SubSeq(file, 1, k)
      \/ \E k \in DOMAIN file : \E l \in Cut(file[k]) : f = Append(SubSeq(file, 1, k - 1), l)
  BY DEF Beginnings
<1>2. CASE \E k \in 0 .. Len(file) : f = SubSeq(file, 1, k)
  BY <1>2, PrefixType
<1>3. ASSUME NEW k \in DOMAIN file, NEW l \in Cut(file[k]), f = Append(SubSeq(file, 1, k - 1), l)
      PROVE  f \in Seq(LineTypes) /\ l \in LineTypes /\ f = SubSeq(file, 1, k - 1) \o <<l>>
  <2> DEFINE a == SubSeq(file, 1, k - 1)
  <2>1. a \in Seq(LineTypes) /\ file[k] \in LineTypes
    BY PrefixType
  <2>2. l \in LineTypes
    BY <2>1, CutType
  <2> HIDE DEF a
  <2>3. Append(a, l) \in Seq(LineTypes) /\ Append(a, l) = a \o <<l>>
    BY <2>1, <2>2, AppendProperties, AppendIsConcat
  <2> QED BY <1>3, <2>2, <2>3 DEF a
<1> QED BY <1>1, <1>2, <1>3

LEMMA WholeBeginning ==
  ASSUME NEW file \in Seq(LineTypes)
  PROVE  file \in Beginnings(file)
<1>1. SubSeq(file, 1, Len(file)) = file /\ Len(file) \in 0 .. Len(file)
  BY SubSeqFull, LenProperties
<1> QED BY <1>1 DEF Beginnings

LEMMA TornLines ==
  ASSUME NEW m \in Managers, NEW k \in 0 .. Len(emit(m))
  PROVE  Torn(m, parse(SubSeq(emit(m), 1, k)))
<1> DEFINE E == emit(m)
           P == Len(m.path)
           f == SubSeq(E, 1, k)
<1>1. m.path \in Seq(SuperGroups) /\ P \in Nat /\ Len(E) \in Nat
  BY EmitIs, LenProperties DEF Managers
<1>2. k \in Nat
  BY <1>1
<1>3. k = 0 \/ k \in 1 .. P + 1 \/ k >= P + 2
  <2> HIDE DEF P
  <2> QED BY <1>1, <1>2
<1>4. CASE k = 0
  <2>1. f = <<>>
    BY <1>4, EmitLines
  <2>2. GroupsIn(m.path) \in Groups
    BY <1>1, GroupsInFact
  <2>3. GroupsIn(m.path) = <<>> \o GroupsIn(m.path)
    BY <2>2, ConcatEmptySeq DEF Groups
  <2>4. InPath(f, <<>>)
    BY <2>1, InPathEmpty
  <2> QED BY <2>2, <2>3, <2>4, TornPath DEF InPath
<1>5. CASE k \in 1 .. P + 1
  <2> DEFINE q == SubSeq(m.path, 1, k - 1)
  <2>1. f = PathPart(q)
    BY <1>5, EmitLines
  <2>2. k - 1 \in 0 .. P
    <3> HIDE DEF P
    <3> QED BY <1>1, <1>2, <1>5
  <2>3. q \in Seq(SuperGroups) /\ \E rest \in Groups : GroupsIn(m.path) = GroupsIn(q) \o rest
    BY <1>1, <2>2, SplitAt, SplitGroups
  <2> HIDE DEF q
  <2>4. InPath(f, GroupsIn(q))
    BY <2>1, <2>3, InPathPart
  <2> QED BY <2>3, <2>4, TornPath DEF InPath
<1>6. CASE k >= P + 2
  <2>1. PICK b \in Seq(LineTypes) : NoSwitch(b) /\ f = PathPart(m.path) \o <<Section("SIMILARINFO")>> \o b
    BY <1>6, EmitLines
  <2>2. parse_sgl(f, "PATHINFO") = Kept(m.path)
    BY <1>1, <2>1, ParseSimilar
  <2>3. GroupsIn(Kept(m.path)) = GroupsIn(m.path)
    BY <1>1, KeptGroups
  <2> QED BY <2>2, <2>3 DEF Torn, parse
<1> QED BY <1>3, <1>4, <1>5, <1>6

LEMMA TornLine ==
  ASSUME NEW m \in Managers, NEW k \in DOMAIN emit(m), NEW l \in Cut(emit(m)[k]), l \in LineTypes
  PROVE  Torn(m, parse(SubSeq(emit(m), 1, k - 1) \o <<l>>))
<1> DEFINE E == emit(m)
           P == Len(m.path)
           a == SubSeq(E, 1, k - 1)
<1>1. m.path \in Seq(SuperGroups) /\ P \in Nat /\ E \in Seq(LineTypes)
  BY EmitIs, LenProperties DEF Managers
<1>2. k - 1 \in 0 .. Len(E) /\ k \in 0 .. Len(E) /\ k \in Nat /\ k >= 1 /\ E[k] \in LineTypes
  <2> HIDE DEF E
  <2> QED BY <1>1, PrefixType DEF E
<1>3. k = 1 \/ k \in 2 .. P + 1 \/ k = P + 2 \/ k >= P + 3
  <2> HIDE DEF P, E
  <2> QED BY <1>1, <1>2
<1>4. GroupsIn(m.path) \in Groups
  BY <1>1, GroupsInFact
<1>5. CASE k = 1
  <2>1. a = <<>> /\ E[k] = Section("PATHINFO")
    <3>1. k - 1 = 0
      BY <1>5
    <3>2. a = <<>>
      BY <1>2, <3>1, EmitLines
    <3>3. E[k] = Section("PATHINFO")
      BY <1>2, <1>5, EmitLines
    <3> QED BY <3>2, <3>3
  <2>2. E[k].section # ""
    BY <2>1, SectionFact
  <2>3. l = Fields(<<Field("none", Empty)>>) \/ l = Section("other")
    BY <1>2, <2>2, CutType
  <2>4. <<>> \in Groups /\ GroupsIn(m.path) = <<>> \o GroupsIn(m.path)
    BY <1>4, ConcatEmptySeq, EmptySeq DEF Groups
  <2>5. InPath(a, <<>>)
    BY <2>1, InPathEmpty
  <2> HIDE DEF a
  <2>6. Torn(m, parse(a \o <<l>>))
    BY <1>4, <2>3, <2>4, <2>5, TornSection
  <2> QED BY <2>6 DEF a
<1>6. CASE k \in 2 .. P + 1
  <2> DEFINE q == SubSeq(m.path, 1, (k - 1) - 1)
             sg == m.path[k - 1]
  <2>1. (k - 1) \in 1 .. P + 1 /\ k - 1 \in 1 .. P
    <3> HIDE DEF P, E
    <3> QED BY <1>1, <1>2, <1>6
  <2>2. a = PathPart(q)
    BY <1>2, <2>1, EmitLines
  <2>3. E[k] = emit_sg(sg)
    BY <1>2, <1>6, EmitLines
  <2>4. sg \in SuperGroups /\ q \in Seq(SuperGroups)
    <3>1. (k - 1) - 1 \in 0 .. P
      <4> HIDE DEF P, E
      <4> QED BY <1>1, <2>1
    <3> QED BY <1>1, <2>1, <3>1, ElementOfSeq, SplitAt
  <2>5. PICK n \in 0 .. Len(sg.groups) : parse_line(l).groups = SubSeq(sg.groups, 1, n)
    <3> HIDE DEF sg
    <3> QED BY <2>3, <2>4, CutGroups
  <2> DEFINE gs == GroupsIn(q) \o SubSeq(sg.groups, 1, n)
  <2>6. gs \in Groups /\ \E rest \in Groups : GroupsIn(m.path) = gs \o rest
    BY <1>1, <2>1, SplitNext
  <2>7. NoSwitch(<<l>>)
    <3>1. E[k].section = ""
      BY <2>3, <2>4, ParseEmitted
    <3> QED BY <1>2, <3>1, CutType, NoSwitchOne
  <2>8. InPath(a, GroupsIn(q))
    BY <2>2, <2>4, InPathPart
  <2> HIDE DEF a, q, sg
  <2>9. parse_sgl(a \o <<l>>, "SIMILARINFO") = <<>> /\ GroupsIn(parse_sgl(a \o <<l>>, "PATHINFO")) = gs
    BY <2>5, <2>7, <2>8, InPathLine
  <2> HIDE DEF gs
  <2>10. Torn(m, parse(a \o <<l>>))
    BY <2>6, <2>9, TornPath
  <2> QED BY <2>10 DEF a
<1>7. CASE k = P + 2
  <2>1. (k - 1) \in 1 .. P + 1 /\ (k - 1) - 1 = P
    <3> HIDE DEF P, E
    <3> QED BY <1>1, <1>7
  <2>2. a = PathPart(m.path)
    <3>1. a = PathPart(SubSeq(m.path, 1, (k - 1) - 1))
      BY <1>2, <2>1, EmitLines
    <3>2. SubSeq(m.path, 1, Len(m.path)) = m.path
      BY <1>1, SubSeqFull
    <3> QED BY <2>1, <3>1, <3>2
  <2>3. E[k] = Section("SIMILARINFO")
    BY <1>2, <1>7, EmitLines
  <2>4. E[k].section # ""
    BY <2>3, SectionFact
  <2>5. l = Fields(<<Field("none", Empty)>>) \/ l = Section("other")
    BY <1>2, <2>4, CutType
  <2>6. InPath(a, GroupsIn(m.path))
    BY <1>1, <2>2, InPathPart
  <2>7. <<>> \in Groups /\ GroupsIn(m.path) = GroupsIn(m.path) \o <<>>
    BY <1>4, ConcatEmptySeq, EmptySeq DEF Groups
  <2> HIDE DEF a
  <2>8. Torn(m, parse(a \o <<l>>))
    BY <1>4, <2>5, <2>6, <2>7, TornSection
  <2> QED BY <2>8 DEF a
<1>8. CASE k >= P + 3
  <2>1. k - 1 >= P + 2
    <3> HIDE DEF P, E
    <3> QED BY <1>1, <1>2, <1>8
  <2>2. PICK b \in Seq(LineTypes) : NoSwitch(b) /\ a = PathPart(m.path) \o <<Section("SIMILARINFO")>> \o b
    BY <1>2, <2>1, EmitLines
  <2>3. E[k].section = ""
    BY <1>2, <1>8, EmitLines
  <2>4. l.section = ""
    BY <1>2, <2>3, CutType
  <2> DEFINE h == PathPart(m.path) \o <<Section("SIMILARINFO")>>
             c == b \o <<l>>
  <2>5. h \in Seq(LineTypes)
    <3>1. PathPart(m.path) \in Seq(LineTypes) /\ Section("SIMILARINFO") \in LineTypes
      BY <1>1, ParsePath, SectionFact
    <3> QED BY <3>1
  <2>6. c \in Seq(LineTypes) /\ NoSwitch(c)
    <3> DEFINE d == <<l>>
    <3>a. d \in Seq(LineTypes)
      OBVIOUS
    <3>b. NoSwitch(d)
      BY <2>4, NoSwitchOne
    <3>1. d \in Seq(LineTypes) /\ NoSwitch(d)
      BY <3>a, <3>b
    <3> HIDE DEF d
    <3>2. b \o d \in Seq(LineTypes)
      BY <3>1, ConcatProperties
    <3>3. \A x : x \in Range(b \o d) <=> x \in Range(b) \/ x \in Range(d)
      BY <3>1, ConcatRange
    <3>4. \A s \in Seq(LineTypes) : NoSwitch(s) <=> \A x \in Range(s) : x.section = ""
      BY DEF NoSwitch, Range
    <3>5. NoSwitch(b \o d)
      BY <2>2, <3>1, <3>2, <3>3, <3>4
    <3> QED BY <3>2, <3>5 DEF d
  <2>7. h \o c = a \o <<l>>
    <3>1. <<l>> \in Seq(LineTypes)
      OBVIOUS
    <3>2. h \o (b \o <<l>>) = (h \o b) \o <<l>>
      <4> HIDE DEF h
      <4> QED BY <2>2, <2>5, <3>1, ConcatAssoc
    <3> QED BY <2>2, <3>2
  <2> HIDE DEF a, c
  <2>8. parse_sgl(h \o c, "PATHINFO") = Kept(m.path)
    BY <1>1, <2>6, ParseSimilar
  <2>9. GroupsIn(Kept(m.path)) = GroupsIn(m.path)
    BY <1>1, KeptGroups
  <2>10. GroupsIn(parse_sgl(a \o <<l>>, "PATHINFO")) = GroupsIn(m.path)
    BY <2>7, <2>8, <2>9
  <2>11. Torn(m, parse(a \o <<l>>))
    BY <2>10 DEF Torn, parse
  <2> QED BY <2>11 DEF a
<1> QED BY <1>3, <1>5, <1>6, <1>7, <1>8

\* Any beginning of the file of m is such a torn file.
LEMMA TornFact ==
  ASSUME NEW m \in Managers, NEW f \in Beginnings(emit(m))
  PROVE  f \in Seq(LineTypes) /\ Torn(m, parse(f))
<1>1. emit(m) \in Seq(LineTypes)
  BY EmitIs
<1> QED BY <1>1, BeginningIs, TornLines, TornLine

-----------------------------------------------------------------------------
(* Loading a torn file *)

\* Where groups mention a node.
Mention(gs, k, j, n) == k \in DOMAIN gs /\ j \in DOMAIN gs[k] /\ gs[k][j] = n
Once(gs, n) ==
    \E k, j : Mention(gs, k, j, n) /\ \A k2, j2 : Mention(gs, k2, j2, n) => k2 = k /\ j2 = j

LEMMA PlacesAre ==
  ASSUME NEW gs, NEW n
  PROVE  (\E p \in Places(gs, n) : Places(gs, n) = {p}) <=> Once(gs, n)
<1>1. \A p : p \in Places(gs, n) <=> \E k, j : Mention(gs, k, j, n) /\ p = <<k, j>>
  BY DEF Places, Mention
<1>2. ASSUME NEW p \in Places(gs, n), Places(gs, n) = {p} PROVE Once(gs, n)
  <2>1. PICK k, j : Mention(gs, k, j, n) /\ p = <<k, j>>
    BY <1>1
  <2>2. \A k2, j2 : Mention(gs, k2, j2, n) => <<k2, j2>> = <<k, j>>
    BY <1>1, <1>2, <2>1
  <2>3. \A k2, j2 : Mention(gs, k2, j2, n) => k2 = k /\ j2 = j
    BY <2>2
  <2> QED BY <2>1, <2>3 DEF Once
<1>3. ASSUME Once(gs, n) PROVE \E p \in Places(gs, n) : Places(gs, n) = {p}
  <2>1. PICK k, j : Mention(gs, k, j, n) /\ \A k2, j2 : Mention(gs, k2, j2, n) => k2 = k /\ j2 = j
    BY <1>3 DEF Once
  <2>2. \A p : p \in Places(gs, n) <=> p = <<k, j>>
    BY <1>1, <2>1
  <2> DEFINE q == <<k, j>>
  <2>3. q \in Places(gs, n)
    BY <2>2
  <2> HIDE DEF q
  <2>4. Places(gs, n) = {q}
    BY <2>2 DEF q
  <2> QED BY <2>3, <2>4
<1> QED BY <1>2, <1>3

LEMMA CompleteIs ==
  ASSUME NEW m
  PROVE  Complete(m) <=> \A n \in Blocks : Once(GroupsIn(m.path), n)
BY PlacesAre DEF Complete

LEMMA MentionedIn ==
  ASSUME NEW sgl \in Seq(SuperGroups), NEW n
  PROVE  n \in NodesIn(sgl) <=> \E k, j : Mention(GroupsIn(sgl), k, j, n)
BY DEF NodesIn, Mention, Range

LEMMA AloneDistinct ==
  ASSUME NEW missing \in SUBSET Blocks
  PROVE  Distinct(Alone(missing))
<1> DEFINE s == [k \in 1 .. NBlocks |-> <<k - 1>>]
           P == {n + 1 : n \in missing}
           T == Seq(Nat)
<1>1. NBlocks \in Nat
  BY FileAssumption
<1>2. \A k \in 1 .. NBlocks : <<k - 1>> \in Seq(Nat)
  <2> TAKE k \in 1 .. NBlocks
  <2>1. k - 1 \in Nat
    BY <1>1
  <2> QED BY <2>1
<1>3. s \in [1 .. NBlocks -> T]
  BY <1>2
<1>4. s \in Seq(T) /\ DOMAIN s = 1 .. NBlocks
  BY <1>1, <1>3
<1>5. \A k \in 1 .. NBlocks : s[k] = <<k - 1>>
  OBVIOUS
<1> HIDE DEF s, P, T
<1>6. Distinct(s)
  <2> SUFFICES ASSUME NEW i \in 1 .. NBlocks, NEW j \in 1 .. NBlocks, s[i] = s[j] PROVE i = j
    BY <1>4 DEF Distinct
  <2>1. <<i - 1>> = <<j - 1>>
    BY <1>5
  <2>2. i - 1 = j - 1
    BY <2>1
  <2> QED BY <1>1, <2>2
<1>7. Distinct(Pick(s, P))
  BY <1>4, <1>6, PickDistinct
<1> QED BY <1>7 DEF Alone, s, P

LEMMA AloneMention ==
  ASSUME NEW missing \in SUBSET Blocks, NEW n
  PROVE  /\ \A k, j : Mention(Alone(missing), k, j, n) => n \in missing
         /\ n \in missing => Once(Alone(missing), n)
<1> DEFINE A == Alone(missing)
<1>1. A \in Groups /\ \A g : g \in Range(A) <=> \E x \in missing : g = <<x>>
  BY AloneFact
<1>2. Distinct(A)
  BY AloneDistinct
<1> HIDE DEF A
<1>3. \A k, j : Mention(A, k, j, n) => n \in missing /\ j = 1 /\ A[k] = <<n>>
  <2> SUFFICES ASSUME NEW k, NEW j, k \in DOMAIN A, j \in DOMAIN A[k], A[k][j] = n
               PROVE  n \in missing /\ j = 1 /\ A[k] = <<n>>
    BY DEF Mention
  <2>1. PICK x \in missing : A[k] = <<x>>
    BY <1>1 DEF Range
  <2>2. j \in DOMAIN <<x>> /\ <<x>>[j] = n
    BY <2>1
  <2>3. j = 1 /\ x = n
    BY <2>2
  <2> QED BY <2>1, <2>3
<1>4. ASSUME n \in missing PROVE Once(A, n)
  <2>1. PICK k \in DOMAIN A : A[k] = <<n>>
    BY <1>1, <1>4 DEF Range
  <2>2. Mention(A, k, 1, n)
    <3>1. 1 \in DOMAIN <<n>> /\ <<n>>[1] = n
      OBVIOUS
    <3> QED BY <2>1, <3>1 DEF Mention
  <2>3. \A k2, j2 : Mention(A, k2, j2, n) => k2 = k /\ j2 = 1
    <3> SUFFICES ASSUME NEW k2, NEW j2, Mention(A, k2, j2, n) PROVE k2 = k /\ j2 = 1
      OBVIOUS
    <3>1. k2 \in DOMAIN A /\ j2 = 1 /\ A[k2] = A[k]
      BY <1>3, <2>1 DEF Mention
    <3> QED BY <1>2, <3>1 DEF Distinct
  <2> QED BY <2>2, <2>3 DEF Once
<1> QED BY <1>3, <1>4 DEF A

LEMMA ConcatMention ==
  ASSUME NEW a \in Groups, NEW b \in Groups, NEW n, NEW j
  PROVE  /\ \A k : Mention(a, k, j, n) => Mention(a \o b, k, j, n)
         /\ \A k : Mention(b, k, j, n) => Mention(a \o b, Len(a) + k, j, n)
         /\ \A k : Mention(a \o b, k, j, n) =>
                      Mention(a, k, j, n) \/ \E i : Mention(b, i, j, n) /\ k = Len(a) + i
<1> DEFINE c == a \o b
           T == Seq(Nat)
<1>0. a \in Seq(T) /\ b \in Seq(T)
  BY DEF Groups
<1> HIDE DEF T
<1>1. c \in Seq(T) /\ Len(c) = Len(a) + Len(b) /\ Len(a) \in Nat /\ Len(b) \in Nat
  BY <1>0
<1>2. DOMAIN a = 1 .. Len(a) /\ DOMAIN b = 1 .. Len(b) /\ DOMAIN c = 1 .. Len(a) + Len(b)
  BY <1>0, <1>1
<1>3. (\A k \in 1 .. Len(a) : c[k] = a[k]) /\ \A k \in 1 .. Len(b) : c[Len(a) + k] = b[k]
  BY <1>0
<1> HIDE DEF c
<1>4. ASSUME NEW k, Mention(a, k, j, n) PROVE Mention(c, k, j, n)
  <2>1. k \in 1 .. Len(a) /\ k \in 1 .. Len(a) + Len(b)
    BY <1>1, <1>2, <1>4 DEF Mention
  <2> QED BY <1>2, <1>3, <1>4, <2>1 DEF Mention
<1>5. ASSUME NEW k, Mention(b, k, j, n) PROVE Mention(c, Len(a) + k, j, n)
  <2>1. k \in 1 .. Len(b) /\ Len(a) + k \in 1 .. Len(a) + Len(b)
    BY <1>1, <1>2, <1>5 DEF Mention
  <2> QED BY <1>2, <1>3, <1>5, <2>1 DEF Mention
<1>6. ASSUME NEW k, Mention(c, k, j, n)
      PROVE  Mention(a, k, j, n) \/ \E i : Mention(b, i, j, n) /\ k = Len(a) + i
  <2>1. k \in 1 .. Len(a) + Len(b)
    BY <1>2, <1>6 DEF Mention
  <2>2. CASE k \in 1 .. Len(a)
    BY <1>2, <1>3, <1>6, <2>2 DEF Mention
  <2>3. CASE k \notin 1 .. Len(a)
    <3> DEFINE i == k - Len(a)
    <3>1. i \in 1 .. Len(b) /\ k = Len(a) + i
      BY <1>1, <2>1, <2>3
    <3> HIDE DEF i
    <3>2. c[k] = b[i]
      BY <1>3, <3>1
    <3>3. Mention(b, i, j, n)
      BY <1>2, <1>6, <3>1, <3>2 DEF Mention
    <3> QED BY <3>1, <3>3
  <2> QED BY <2>2, <2>3
<1> QED BY <1>4, <1>5, <1>6 DEF c

\* Groups that are the first of groups with every block once, with those blocks
\* alone that they do not mention, have every block once.
LEMMA OnceAfter ==
  ASSUME NEW gs \in Groups, NEW rest \in Groups, NEW missing \in SUBSET Blocks,
         missing = {x \in Blocks : ~\E k, j : Mention(gs, k, j, x)},
         NEW n \in Blocks, Once(gs \o rest, n)
  PROVE  Once(gs \o Alone(missing), n)
<1> DEFINE A == Alone(missing)
<1>1. A \in Groups
  BY AloneFact
<1>2. (\A k, j : Mention(A, k, j, n) => n \in missing) /\ (n \in missing => Once(A, n))
  BY AloneMention
<1> HIDE DEF A
<1>3. CASE n \notin missing
  <2>1. PICK k, j : Mention(gs, k, j, n)
    BY <1>3
  <2>2. Mention(gs \o A, k, j, n)
    BY <1>1, <2>1, ConcatMention
  <2>3. ASSUME NEW k2, NEW j2, Mention(gs \o A, k2, j2, n) PROVE k2 = k /\ j2 = j
    <3>1. ~\E i : Mention(A, i, j2, n)
      BY <1>2, <1>3
    <3>2. Mention(gs, k2, j2, n)
      BY <1>1, <2>3, <3>1, ConcatMention
    <3>3. Mention(gs \o rest, k, j, n) /\ Mention(gs \o rest, k2, j2, n)
      BY <2>1, <3>2, ConcatMention
    <3> QED BY <3>3 DEF Once
  <2>4. Once(gs \o A, n)
    BY <2>2, <2>3 DEF Once
  <2> QED BY <2>4 DEF A
<1>4. CASE n \in missing
  <2>1. PICK k, j : Mention(A, k, j, n) /\ \A k2, j2 : Mention(A, k2, j2, n) => k2 = k /\ j2 = j
    BY <1>2, <1>4 DEF Once
  <2>2. Mention(gs \o A, Len(gs) + k, j, n)
    BY <1>1, <2>1, ConcatMention
  <2>3. ASSUME NEW k2, NEW j2, Mention(gs \o A, k2, j2, n) PROVE k2 = Len(gs) + k /\ j2 = j
    <3>1. ~Mention(gs, k2, j2, n)
      BY <1>4
    <3>2. PICK i : Mention(A, i, j2, n) /\ k2 = Len(gs) + i
      BY <1>1, <2>3, <3>1, ConcatMention
    <3> QED BY <2>1, <3>2
  <2>4. Once(gs \o A, n)
    BY <2>2, <2>3 DEF Once
  <2> QED BY <2>4 DEF A
<1> QED BY <1>3, <1>4

\* sanitize_groupman() leaves the groups and adds the blocks that are missing.
LEMMA SanitizeGroups ==
  ASSUME NEW m \in Managers
  PROVE  GroupsIn(sanitize_groupman(m).path) = GroupsIn(m.path) \o Alone(Missing(m))
<1> DEFINE M == Missing(m)
           o == OrphanSG(m)
<1>1. m.path \in Seq(SuperGroups)
  BY DEF Managers
<1>2. M \in SUBSET Blocks
  BY DEF Missing
<1>3. o \in SuperGroups /\ o.groups = Alone(M)
  BY OrphanFact
<1>4. GroupsIn(m.path) \in Groups
  BY <1>1, GroupsInFact
<1>5. sanitize_groupman(m) = IF M = {} THEN m ELSE [m EXCEPT !.path = Append(m.path, o)]
  BY SanitizeIs
<1> HIDE DEF M, o
<1>6. CASE M = {}
  <2>1. Alone(M) \in Seq(Seq(Nat)) /\ Range(Alone(M)) = {}
    BY <1>2, <1>6, AloneFact DEF Groups
  <2>2. Alone(M) = <<>>
    BY <2>1, EmptyRange
  <2>3. GroupsIn(m.path) \o <<>> = GroupsIn(m.path)
    BY <1>4, ConcatEmptySeq DEF Groups
  <2> QED BY <1>5, <1>6, <2>2, <2>3 DEF M
<1>7. CASE M # {}
  <2>1. Append(m.path, o) \in Seq(SuperGroups) /\ Append(m.path, o) = m.path \o <<o>>
    BY <1>1, <1>3, AppendProperties, AppendIsConcat
  <2>2. sanitize_groupman(m).path = m.path \o <<o>>
    BY <1>5, <1>7, <2>1, ManagerFact
  <2>3. <<o>> \in Seq(SuperGroups) /\ GroupsIn(<<o>>) = Alone(M)
    BY <1>3, GroupsInOne
  <2>4. GroupsIn(m.path \o <<o>>) = GroupsIn(m.path) \o GroupsIn(<<o>>)
    BY <1>1, <2>3, GroupsInConcat
  <2> QED BY <2>2, <2>3, <2>4 DEF M
<1> QED BY <1>6, <1>7

\* A torn file of a complete manager is loaded as a complete one, whose groups
\* of several blocks were saved.
LEMMA TornLoad ==
  ASSUME NEW m \in Managers, Complete(m), NEW p \in Managers, Torn(m, p)
  PROVE  LET r == sanitize_groupman(p)
         IN  /\ Complete(r)
             /\ \A g \in Range(GroupsIn(r.path)) : Len(g) > 1 => g \in Range(GroupsIn(m.path))
<1> DEFINE G == GroupsIn(p.path)
           G0 == GroupsIn(m.path)
           M == Missing(p)
           r == sanitize_groupman(p)
<1>1. p.path \in Seq(SuperGroups) /\ p.similar \in Seq(SuperGroups) /\ m.path \in Seq(SuperGroups)
  BY DEF Managers
<1>2. G \in Groups /\ G0 \in Groups /\ M \in SUBSET Blocks
  BY <1>1, GroupsInFact DEF Missing
<1>3. \A n \in Blocks : Once(G0, n)
  BY CompleteIs
<1>4. \A n : n \in NodesIn(p.path) <=> \E k, j : Mention(G, k, j, n)
  BY <1>1, MentionedIn
<1>5. /\ \E rest \in Groups : G0 = G \o rest
      /\ M = {n \in Blocks : ~\E k, j : Mention(G, k, j, n)}
  <2>1. CASE G = G0
    <3>1. <<>> \in Groups /\ G0 = G0 \o <<>>
      <4> HIDE DEF G, G0
      <4> QED BY <1>2, ConcatEmptySeq, EmptySeq DEF Groups
    <3>2. \A n \in Blocks : \E k, j : Mention(G, k, j, n)
      BY <1>3, <2>1 DEF Once
    <3>3. \A n \in Blocks : n \in NodesIn(p.path)
      BY <1>4, <3>2
    <3>4. M = {}
      BY <3>3 DEF Missing
    <3> HIDE DEF G, G0, M
    <3>5. M = {n \in Blocks : ~\E k, j : Mention(G, k, j, n)}
      BY <3>2, <3>4
    <3> QED BY <2>1, <3>1, <3>5
  <2>2. CASE p.similar = <<>> /\ \E rest \in Groups : G0 = G \o rest
    <3>1. \A n : n \notin NodesIn(<<>>)
      <4>1. <<>> \in Seq(SuperGroups) /\ DOMAIN <<>> = {}
        OBVIOUS
      <4> QED BY <4>1, NodesInFact
    <3>2. M = {n \in Blocks : n \notin NodesIn(p.path)}
      BY <2>2, <3>1 DEF Missing
    <3> HIDE DEF G, G0, M
    <3>3. M = {n \in Blocks : ~\E k, j : Mention(G, k, j, n)}
      BY <1>4, <3>2
    <3> QED BY <2>2, <3>3
  <2> QED BY <2>1, <2>2 DEF Torn
<1>6. PICK rest \in Groups : G0 = G \o rest
  BY <1>5
<1>7. GroupsIn(r.path) = G \o Alone(M)
  BY SanitizeGroups
<1>8. Complete(r)
  <2> HIDE DEF G, G0, M, r
  <2>1. \A n \in Blocks : Once(G \o Alone(M), n)
    BY <1>2, <1>3, <1>5, <1>6, OnceAfter
  <2> QED BY <1>7, <2>1, CompleteIs
<1>9. ASSUME NEW g \in Range(GroupsIn(r.path)), Len(g) > 1 PROVE g \in Range(G0)
  <2> HIDE DEF G, G0, M, r
  <2>1. Alone(M) \in Groups /\ \A h : h \in Range(Alone(M)) <=> \E n \in M : h = <<n>>
    BY <1>2, AloneFact
  <2>2. g \in Range(G) \/ g \in Range(Alone(M))
    <3> DEFINE T == Seq(Nat)
    <3>1. G \in Seq(T) /\ Alone(M) \in Seq(T)
      BY <1>2, <2>1 DEF Groups
    <3> HIDE DEF T
    <3>2. \A x : x \in Range(G \o Alone(M)) <=> x \in Range(G) \/ x \in Range(Alone(M))
      BY <3>1, ConcatRange
    <3> QED BY <1>7, <1>9, <3>2
  <2>3. g \notin Range(Alone(M))
    <3>1. \A n : Len(<<n>>) = 1
      OBVIOUS
    <3>2. \A n : g # <<n>>
      <4> SUFFICES ASSUME NEW n, g = <<n>> PROVE FALSE
        OBVIOUS
      <4>1. Len(g) = 1
        BY <3>1
      <4> QED BY <1>9, <4>1
    <3> QED BY <2>1, <3>2
  <2>4. g \in Range(G \o rest)
    <3> DEFINE T == Seq(Nat)
    <3>1. G \in Seq(T) /\ rest \in Seq(T)
      BY <1>2 DEF Groups
    <3> HIDE DEF T
    <3>2. \A x : x \in Range(G \o rest) <=> x \in Range(G) \/ x \in Range(rest)
      BY <3>1, ConcatRange
    <3> QED BY <2>2, <2>3, <3>2
  <2> QED BY <1>6, <2>4
<1> QED BY <1>8, <1>9

-----------------------------------------------------------------------------
(* The invariant *)

\* The file is a beginning of what was written of a manager with every block once.
SavedFrom(m) == m \in Managers /\ Complete(m) /\ saved = Range(GroupsIn(m.path)) /\ disk \in Beginnings(emit(m))

MemInv   == mem # NULL => mem \in Managers /\ (tidy /\ once => Sound(mem))
DiskInv  == disk # NULL => disk \in Seq(LineTypes)
SavedInv == saved # NULL => \E m : SavedFrom(m)
FileInv  == MemInv /\ DiskInv /\ SavedInv

LEMMA FileInit == Init => FileInv
BY FileAssumption DEF Init, FileInv, MemInv, DiskInv, SavedInv

\* The commands that leave the file alone.
LEMMA SavedStays ==
  ASSUME FileInv, UNCHANGED <<disk, saved>>
  PROVE  DiskInv' /\ SavedInv'
BY DEF FileInv, DiskInv, SavedInv, SavedFrom

LEMMA SaveFact ==
  ASSUME mem \in Managers, disk' \in Beginnings(emit(mem)), saved' = SavedOf(mem)
  PROVE  DiskInv' /\ SavedInv'
<1>1. disk' \in Seq(LineTypes)
  BY TornFact
<1>2. ASSUME saved' # NULL PROVE (\E m : SavedFrom(m))'
  <2>1. Complete(mem) /\ saved' = Range(GroupsIn(mem.path))
    BY <1>2 DEF SavedOf
  <2> DEFINE m == mem
  <2>2. m \in Managers /\ Complete(m) /\ saved' = Range(GroupsIn(m.path)) /\ disk' \in Beginnings(emit(m))
    BY <2>1
  <2> QED BY <2>2 DEF SavedFrom
<1> QED BY <1>1, <1>2 DEF DiskInv, SavedInv, SavedFrom

LEMMA KeptFirst ==
  \A sgl \in Seq(SuperGroups) :
     sgl # <<>> /\ Said(sgl[1]) => Kept(sgl) # <<>> /\ Kept(sgl)[1] = KeptOf(sgl[1])
<1> DEFINE First(s) == s # <<>> /\ Said(s[1]) => Kept(s) # <<>> /\ Kept(s)[1] = KeptOf(s[1])
           S == {s \in Seq(SuperGroups) : First(s)}
<1>1. <<>> \in S
  BY EmptySeq
<1>2. ASSUME NEW s \in Seq(SuperGroups), NEW x \in SuperGroups, s \in S PROVE Append(s, x) \in S
  <2> DEFINE r == Append(s, x)
             q == IF Said(x) THEN <<KeptOf(x)>> ELSE <<>>
  <2>1. r \in Seq(SuperGroups)
    BY AppendProperties
  <2>2. Kept(r) = Kept(s) \o q
    BY KeptAppend
  <2>3. Kept(s) \in Seq(SuperGroups)
    BY KeptType
  <2>4. KeptOf(x) \in SuperGroups
    BY ParseEmitted, ParseLineType
  <2>5. SUFFICES ASSUME Said(r[1]) PROVE Kept(r) # <<>> /\ Kept(r)[1] = KeptOf(r[1])
    BY <2>1
  <2>6. CASE s = <<>>
    <3>1. r[1] = x
      BY <2>6
    <3>2. Kept(<<>>) = <<>>
      <4>1. <<>> \in Seq(SuperGroups) /\ DOMAIN <<>> = {}
        OBVIOUS
      <4>2. KeptList(<<>>) \in Seq(SuperGroups) /\ DOMAIN KeptList(<<>>) = {} /\ Kept(<<>>) = Pick(KeptList(<<>>), SaidAt(<<>>))
        BY <4>1, KeptType
      <4> QED BY <4>2, PickNone
    <3>3. Kept(r) = <<>> \o <<KeptOf(x)>>
      BY <2>2, <2>5, <2>6, <3>1, <3>2
    <3>4. <<>> \o <<KeptOf(x)>> = <<KeptOf(x)>>
      OBVIOUS
    <3> QED BY <3>1, <3>3, <3>4
  <2>7. CASE s # <<>>
    <3>1. r[1] = s[1]
      BY <2>7
    <3>2. Kept(s) # <<>> /\ Kept(s)[1] = KeptOf(s[1])
      BY <1>2, <2>5, <2>7, <3>1
    <3>3. q \in Seq(SuperGroups)
      BY <2>4
    <3> DEFINE a == Kept(s)
    <3> HIDE DEF a, q
    <3>4. a \in Seq(SuperGroups) /\ a # <<>>
      BY <2>3, <3>2 DEF a
    <3>5. a \o q # <<>> /\ (a \o q)[1] = a[1]
      BY <3>3, <3>4
    <3> QED BY <2>2, <3>1, <3>2, <3>5 DEF a
  <2> QED BY <2>6, <2>7
<1> HIDE DEF S
<1>3. Seq(SuperGroups) \subseteq S
  BY <1>1, <1>2, SeqInduction
<1> QED BY <1>3 DEF S

\* The file of a manager without empty groups and super groups is not refused.
LEMMA SolidFirst ==
  ASSUME NEW m \in Managers, Solid(m)
  PROVE  HasFirstNode(parse(emit(m)))
<1> DEFINE sg == m.path[1]
           k == Kept(m.path)
<1>1. m.path \in Seq(SuperGroups) /\ m.path # <<>>
  BY DEF Managers, Solid
<1>2. 1 \in DOMAIN m.path /\ sg \in SuperGroups
  BY <1>1
<1>3. sg.groups # <<>> /\ <<>> \notin Range(sg.groups)
  BY <1>2 DEF Solid, Tidy, Range
<1>4. sg.groups \in Seq(Seq(Nat))
  BY <1>2 DEF SuperGroups, Groups
<1>5. sg.groups[1] # <<>>
  <2> DEFINE gs == sg.groups
  <2>1. gs \in Seq(Seq(Nat)) /\ gs # <<>> /\ <<>> \notin Range(gs)
    BY <1>3, <1>4
  <2> HIDE DEF gs
  <2>2. 1 \in DOMAIN gs
    BY <2>1
  <2>3. gs[1] # <<>>
    BY <2>1, <2>2 DEF Range
  <2> QED BY <2>3 DEF gs
<1>6. Said(sg)
  BY <1>3 DEF Said
<1>7. k # <<>> /\ k[1] = KeptOf(sg)
  BY <1>1, <1>6, KeptFirst
<1>8. parse(emit(m)).path = k
  BY ParseEmit
<1>9. KeptOf(sg).groups = sg.groups
  BY DEF KeptOf, SuperGroup
<1> QED BY <1>3, <1>5, <1>7, <1>8, <1>9 DEF HasFirstNode

LEMMA FileStep == FileInv /\ [Next]_vars => FileInv'
<1> SUFFICES ASSUME FileInv, [Next]_vars PROVE FileInv'
  OBVIOUS
<1>0. MemInv /\ DiskInv /\ SavedInv
  BY DEF FileInv
<1>1. CASE UNCHANGED vars
  <2>1. mem' = mem /\ tidy' = tidy /\ once' = once /\ UNCHANGED <<disk, saved>>
    BY <1>1 DEF vars
  <2>2. MemInv'
    BY <1>0, <2>1 DEF MemInv, Sound, Solid, Tidy, NamedOnce, Positions, GroupAt
  <2> QED BY <2>1, <2>2, SavedStays DEF FileInv
<1>2. CASE load_file
  <2>1. disk \in Seq(LineTypes) /\ HasFirstNode(parse(disk))
    BY <1>0, <1>2 DEF load_file, DiskInv
  <2>2. parse(disk) \in Managers /\ (Tidy(parse(disk)) => Solid(parse(disk)))
    BY <2>1, LoadFact
  <2>3. mem' = sanitize_groupman(parse(disk)) /\ tidy' = Tidy(parse(disk)) /\ once' = NamedOnce(mem'.path)
    BY <1>2 DEF load_file
  <2>4. mem' \in Managers /\ (tidy' => Solid(mem'))
    BY <2>2, <2>3, SanitizeFact
  <2>5. MemInv'
    BY <2>3, <2>4 DEF MemInv, Sound, Solid, Tidy, NamedOnce, Positions, GroupAt
  <2>6. UNCHANGED <<disk, saved>>
    BY <1>2 DEF load_file
  <2> QED BY <2>5, <2>6, SavedStays DEF FileInv
<1>3. ASSUME NEW r \in Results, build_groupman(r) PROVE FileInv'
  <2>1. mem' \in Managers /\ Solid(mem')
    BY <1>3, BuildFact
  <2>2. MemInv'
    <3>1. once' = NamedOnce(mem'.path)
      BY <1>3 DEF build_groupman
    <3> QED BY <2>1, <3>1 DEF MemInv, Sound, Solid, Tidy, NamedOnce, Positions, GroupAt
  <2>3. UNCHANGED <<disk, saved>>
    BY <1>3 DEF build_groupman
  <2> QED BY <2>2, <2>3, SavedStays DEF FileInv
<1>4. ASSUME mem # NULL PROVE mem \in Managers /\ (tidy /\ once => Sound(mem))
  BY <1>0, <1>4 DEF MemInv
<1>5. ASSUME mem # NULL, NEW S \in SUBSET Shown, NEW dest \in S, combine_ngl(S, dest) PROVE FileInv'
  <2>1. mem' \in Managers /\ (Sound(mem) => Sound(mem'))
    BY <1>4, <1>5, CombineFact
  <2>2. UNCHANGED <<disk, saved, tidy, once>>
    BY <1>5 DEF combine_ngl
  <2>3. MemInv'
    BY <1>4, <1>5, <2>1, <2>2 DEF MemInv, Sound, Solid, Tidy, NamedOnce, Positions, GroupAt
  <2> QED BY <2>2, <2>3, SavedStays DEF FileInv
<1>6. ASSUME mem # NULL, NEW sel \in SUBSET Blocks, move_nodes_to_ng(sel) PROVE FileInv'
  <2>1. mem' \in Managers /\ (Sound(mem) => Sound(mem'))
    BY <1>4, <1>6, MoveFact
  <2>2. UNCHANGED <<disk, saved, tidy, once>>
    BY <1>6 DEF move_nodes_to_ng
  <2>3. MemInv'
    BY <1>4, <1>6, <2>1, <2>2 DEF MemInv, Sound, Solid, Tidy, NamedOnce, Positions, GroupAt
  <2> QED BY <2>2, <2>3, SavedStays DEF FileInv
<1>7. ASSUME mem # NULL, NEW i \in DOMAIN mem.path, NEW s \in Names, edit_sg_description(i, s) PROVE FileInv'
  <2>1. mem' \in Managers /\ (Sound(mem) => Sound(mem'))
    BY <1>4, <1>7, EditFact
  <2>2. UNCHANGED <<disk, saved, tidy, once>>
    BY <1>7 DEF edit_sg_description
  <2>3. MemInv'
    BY <1>4, <1>7, <2>1, <2>2 DEF MemInv, Sound, Solid, Tidy, NamedOnce, Positions, GroupAt
  <2> QED BY <2>2, <2>3, SavedStays DEF FileInv
<1>8. ASSUME mem # NULL, onmenu_save_bbfile PROVE FileInv'
  <2>1. disk' = emit(mem) /\ saved' = SavedOf(mem) /\ UNCHANGED <<mem, tidy, once>>
    BY <1>8 DEF onmenu_save_bbfile
  <2>2. emit(mem) \in Beginnings(emit(mem))
    BY <1>4, <1>8, EmitIs, WholeBeginning
  <2>3. DiskInv' /\ SavedInv'
    BY <1>4, <1>8, <2>1, <2>2, SaveFact
  <2>4. MemInv'
    BY <1>0, <2>1 DEF MemInv, Sound, Solid, Tidy, NamedOnce, Positions, GroupAt
  <2> QED BY <2>3, <2>4 DEF FileInv
<1>9. ASSUME mem # NULL, CrashInSave PROVE FileInv'
  <2>1. DiskInv' /\ SavedInv'
    BY <1>4, <1>9, SaveFact DEF CrashInSave
  <2>2. MemInv'
    BY <1>9 DEF CrashInSave, MemInv
  <2> QED BY <2>1, <2>2 DEF FileInv
<1> QED BY <1>1, <1>2, <1>3, <1>5, <1>6, <1>7, <1>8, <1>9 DEF Next, Commands

LEMMA FileInvariant == Spec => []FileInv
BY FileInit, FileStep, PTL DEF Spec

\* groupman_t::parse() reads what groupman_t::emit() wrote: whatever commands led
\* to the manager, both lists come back with every super group that says
\* something, its groups and their nodes in order.
THEOREM FileKeepsAll == Spec => []RoundTrip
<1>1. FileInv => RoundTrip
  BY ParseEmit DEF FileInv, MemInv, RoundTrip
<1> QED BY <1>1, FileInvariant, PTL

\* After any regrouping and renaming, what the plugin saves of a manager it got
\* from tidy input that names no id twice is not refused by load_file(): each
\* group that combine_ngl() empties is in the super group it removes it from.
THEOREM SavedIsReloadable == Spec => []Reloadable
<1>1. FileInv => Reloadable
  BY SolidFirst DEF FileInv, MemInv, Reloadable, Sound
<1> QED BY <1>1, FileInvariant, PTL

\* Wherever the end of IDA cuts a save off, load_file() gets from what is left of
\* the file a manager with every block once, none in a group of several that was
\* not saved: sanitize_groupman() adds the lost blocks, each alone.
THEOREM TornSavesLoad == Spec => SavesTearSafely
<1> DEFINE A == load_file /\ saved # NULL
                  => /\ Complete(mem')
                     /\ \A g \in Range(GroupsIn(mem'.path)) : Len(g) > 1 => g \in saved
<1>1. FileInv => A
  <2> SUFFICES ASSUME FileInv, load_file, saved # NULL
               PROVE  /\ Complete(mem')
                      /\ \A g \in Range(GroupsIn(mem'.path)) : Len(g) > 1 => g \in saved
    OBVIOUS
  <2>1. PICK m : SavedFrom(m)
    BY DEF FileInv, SavedInv
  <2>2. m \in Managers /\ Complete(m) /\ saved = Range(GroupsIn(m.path)) /\ disk \in Beginnings(emit(m))
    BY <2>1 DEF SavedFrom
  <2>3. disk \in Seq(LineTypes) /\ Torn(m, parse(disk))
    BY <2>2, TornFact
  <2>4. parse(disk) \in Managers
    BY <2>3, LoadFact
  <2>5. mem' = sanitize_groupman(parse(disk))
    BY DEF load_file
  <2> QED BY <2>2, <2>3, <2>4, <2>5, TornLoad
<1>2. FileInv => [A]_vars
  BY <1>1
<1> QED BY <1>2, FileInvariant, PTL DEF SavesTearSafely
=============================================================================
