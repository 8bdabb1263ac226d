----------------------------- MODULE BlockHash -----------------------------
(***************************************************************************)
(* How the matcher compares two basic blocks (bbgroup/bb_ida.py, and        *)
(* bbMatcherClass.match of bbgroup/bb_match.py). The code of a block is the *)
(* sequence of its instructions, an instruction [itype, ops]: the number of *)
(* its type as a sequence of digits, and the (index, type) of its operands. *)
(* SHA-1 is taken to be injective, a product of primes is the bag of its    *)
(* factors, and every (index, type) has a prime of its own, as has every    *)
(* itype.                                                                   *)
(***************************************************************************)
EXTENDS Naturals, Sequences, FiniteSets

\* Every count of an instruction in a block of up to six divides it: the unit in
\* which percentages of counts are whole numbers.
Scale == 60

InstrsOf(c) == {c[k] : k \in DOMAIN c}

\* The types of the instructions in their order, as digits without a separator:
\* the types 1 and 12 hash as the types 11 and 2 do.
hash_itype1(c) ==
    LET join[k \in 0 .. Len(c)] == IF k = 0 THEN <<>> ELSE join[k - 1] \o c[k].itype
    IN  join[Len(c)]

\* The primes of an instruction: get_cmd_prime_characteristics() multiplies them.
PrimesOf(i) == {<<"itype", i.itype>>} \cup {<<"op", o>> : o \in i.ops}

\* The product of the primes of all instructions, in whatever order.
hash_itype2(c) ==
    [p \in UNION {PrimesOf(i) : i \in InstrsOf(c)} |-> Cardinality({k \in DOMAIN c : p \in PrimesOf(c[k])})]

\* How often the instruction i is in c, and how many instructions of S are.
Freq(c, i)  == Cardinality({k \in DOMAIN c : c[k] = i})
Count(c, S) == Cardinality({k \in DOMAIN c : c[k] \in S})

Common(c1, c2) == InstrsOf(c1) \cap InstrsOf(c2)

\* The sum over the common instructions of min(v1, v2) * 100 / max(v1, v2), in
\* 1/Scale percent: per instruction and per n.
CommonPercent(c1, c2) ==
    LET S == Common(c1, c2)
        pct == [i \in S |-> IF Freq(c1, i) < Freq(c2, i)
                           THEN (100 * Scale * Freq(c1, i)) \div Freq(c2, i)
                           ELSE (100 * Scale * Freq(c2, i)) \div Freq(c1, i)]
        sum[T \in SUBSET S] ==
            IF T = {} THEN 0 ELSE LET i == CHOOSE j \in T : TRUE IN pct[i] + sum[T \ {i}]
    IN  sum[S]

\* match_block_frequencies() for two blocks that are not empty (it divides by
\* their lengths). The smaller table's common count is divided by the length of
\* the FIRST block, whichever block the smaller table is of.
match_block_frequencies(c1, c2, p1, p2) ==
    LET S == Common(c1, c2)
        swapped == Cardinality(InstrsOf(c1)) > Cardinality(InstrsOf(c2))
        ct1 == IF swapped THEN Count(c2, S) ELSE Count(c1, S)
        ct2 == IF swapped THEN Count(c1, S) ELSE Count(c2, S)
    IN  /\ 100 * ct1 > p1 * Len(c1) /\ 100 * ct2 > p1 * Len(c2)
        /\ S # {} /\ CommonPercent(c1, c2) > p2 * Scale * Cardinality(S)

\* The coverage that is asked for depends on the shorter block.
Coverage(a, b) ==
    IF a <= 4 \/ b <= 4 THEN 50 ELSE IF a <= 6 \/ b <= 6 THEN 60 ELSE IF a <= 8 \/ b <= 8 THEN 75 ELSE 85

match(c1, c2, hashType) ==
    CASE hashType = "hash_itype1" -> hash_itype1(c1) = hash_itype1(c2)
      [] hashType = "hash_itype2" -> hash_itype2(c1) = hash_itype2(c2)
      [] hashType = "freq" -> /\ c1 # <<>> /\ c2 # <<>>
                              /\ match_block_frequencies(c1, c2, Coverage(Len(c1), Len(c2)), 95)
=============================================================================
