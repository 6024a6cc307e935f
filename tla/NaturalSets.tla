----------------------------- MODULE NaturalSets -----------------------------
(***************************************************************************)
(* Facts about the natural numbers the other proofs need with sets and     *)
(* functions in place of operators: a set has a least element, induction,  *)
(* and definition by recursion.                                            *)
(***************************************************************************)
EXTENDS FiniteSetTheorems, WellFoundedInduction, TLAPS

\* A set of natural numbers has a least element.
LEMMA LeastNatural ==
    ASSUME NEW S \in SUBSET Nat, S # {}
    PROVE  \E m \in S : \A k \in S : m <= k
<1>1. PICK n \in S : TRUE
    OBVIOUS
<1> DEFINE low == {k \in S : k <= n}
           upTo == {0 .. k : k \in low}
<1>2. upTo # {} /\ upTo \subseteq FiniteSubsetsOf(0 .. n)
    <2>1. IsFiniteSet(0 .. n) /\ n \in Nat /\ 0 \in Nat
        BY FS_Interval
    <2>2. \A T \in SUBSET (0 .. n) : IsFiniteSet(T)
        BY <2>1, FS_Subset
    <2>3. upTo # {} /\ upTo \subseteq SUBSET (0 .. n)
        BY <1>1
    <2> HIDE DEF upTo
    <2>. QED BY <2>2, <2>3 DEF FiniteSubsetsOf
<1>3. PICK m \in low : \A k \in low : <<0 .. k, 0 .. m>> \notin StrictSubsetOrdering(0 .. n)
    <2>0. IsFiniteSet(0 .. n)
        BY FS_Interval
    <2> HIDE DEF upTo
    <2>1. \E x \in upTo : \A y \in upTo : <<y, x>> \notin StrictSubsetOrdering(0 .. n)
        BY <1>2, <2>0, WFMin, FS_StrictSubsetOrderingWellFounded, Zenon
    <2>. QED BY <2>1 DEF upTo
<1>4. ASSUME NEW k \in low, k < m PROVE FALSE
    <2>1. 0 .. k \subseteq 0 .. m /\ m \in 0 .. m /\ m \notin 0 .. k /\ 0 .. m \subseteq 0 .. n
        BY <1>4
    <2>. QED BY <1>3, <2>1 DEF StrictSubsetOrdering
<1>5. \A k \in S : m <= k
    BY <1>4
<1>. QED BY <1>5

\* Induction over a set.
LEMMA SetInduction ==
    ASSUME NEW S, 0 \in S, \A n \in Nat : n \in S => n + 1 \in S
    PROVE  Nat \subseteq S
<1> SUFFICES ASSUME Nat \ S # {} PROVE FALSE
    OBVIOUS
<1>1. PICK m \in Nat \ S : \A k \in Nat \ S : m <= k
    BY LeastNatural
<1>2. m - 1 \in Nat /\ m - 1 \in S
    BY <1>1
<1>. QED BY <1>1, <1>2

\* A start and a step determine a sequence, and one there is.
LEMMA Recursion ==
    ASSUME NEW D, NEW a \in D, NEW step \in [D -> D]
    PROVE  \E f \in [Nat -> D] : f[0] = a /\ \A n \in Nat : f[n + 1] = step[f[n]]
\* The initial stretches of it, and what they say of each place.
<1> DEFINE Upto(n, g) == /\ g \in [0 .. n -> D] /\ g[0] = a
                         /\ \A i \in 0 .. n : i # n => g[i + 1] = step[g[i]]
           some == {n \in Nat : \E g : Upto(n, g)}
           g(n) == CHOOSE h : Upto(n, h)
<1>1. some = Nat
    <2>1. 0 \in some
        <3>1. Upto(0, [i \in 0 .. 0 |-> a])
            OBVIOUS
        <3>. QED BY <3>1
    <2>2. ASSUME NEW n \in Nat, n \in some PROVE n + 1 \in some
        <3>1. PICK h : Upto(n, h)
            BY <2>2
        <3> DEFINE k == [i \in 0 .. n + 1 |-> IF i = n + 1 THEN step[h[n]] ELSE h[i]]
        <3>2. Upto(n + 1, k)
            <4>1. /\ h \in [0 .. n -> D] /\ h[0] = a
                  /\ \A i \in 0 .. n : i # n => h[i + 1] = step[h[i]]
                BY <3>1
            <4>2. k \in [0 .. n + 1 -> D] /\ k[0] = a
                BY <4>1
            <4>3. ASSUME NEW i \in 0 .. n + 1, i # n + 1
                  PROVE  k[i + 1] = step[k[i]]
                <5>1. i \in 0 .. n /\ k[i] = h[i] /\ i + 1 \in 0 .. n + 1
                    BY <4>3
                <5>2. CASE i = n
                    BY <5>1, <5>2
                <5>3. CASE i # n
                    <6>1. h[i + 1] = step[h[i]] /\ k[i + 1] = h[i + 1]
                        BY <4>1, <5>1, <5>3
                    <6>. QED BY <5>1, <6>1
                <5>. QED BY <5>2, <5>3
            <4> HIDE DEF k
            <4>. QED BY <4>2, <4>3
        <3> HIDE DEF Upto
        <3>. QED BY <3>2
    <2> HIDE DEF some
    <2>3. Nat \subseteq some
        BY <2>1, <2>2, SetInduction
    <2>. QED BY <2>3 DEF some
<1>2. \A n \in Nat : Upto(n, g(n))
    <2> HIDE DEF Upto
    <2>. QED BY <1>1
<1>3. \A n \in Nat : g(n + 1)[n] = g(n)[n]
    <2> DEFINE agree(n) == {i \in Nat : i <= n => g(n + 1)[i] = g(n)[i]}
    <2> HIDE DEF g
    <2> SUFFICES ASSUME NEW n \in Nat PROVE Nat \subseteq agree(n)
        OBVIOUS
    <2>1. Upto(n, g(n)) /\ Upto(n + 1, g(n + 1))
        <3> HIDE DEF Upto
        <3>. QED BY <1>2
    <2>2. 0 \in agree(n)
        BY <2>1
    <2>3. ASSUME NEW i \in Nat, i \in agree(n) PROVE i + 1 \in agree(n)
        <3> SUFFICES ASSUME i + 1 <= n PROVE g(n + 1)[i + 1] = g(n)[i + 1]
            OBVIOUS
        <3>1. i \in 0 .. n /\ i # n /\ i \in 0 .. n + 1 /\ i # n + 1
            OBVIOUS
        <3>2. g(n)[i + 1] = step[g(n)[i]] /\ g(n + 1)[i + 1] = step[g(n + 1)[i]]
            BY <2>1, <3>1
        <3>. QED BY <2>3, <3>1, <3>2
    <2> HIDE DEF agree
    <2>. QED BY <2>2, <2>3, SetInduction
<1> DEFINE f == [n \in Nat |-> g(n)[n]]
<1>4. f \in [Nat -> D] /\ f[0] = a
    <2> HIDE DEF g
    <2>1. ASSUME NEW n \in Nat PROVE g(n)[n] \in D
        BY <1>2
    <2>. QED BY <1>2, <2>1
<1>5. ASSUME NEW n \in Nat PROVE f[n + 1] = step[f[n]]
    <2> HIDE DEF g
    <2>1. g(n + 1)[n + 1] = step[g(n + 1)[n]]
        <3>1. Upto(n + 1, g(n + 1)) /\ n \in 0 .. n + 1 /\ n # n + 1
            BY <1>2
        <3>. QED BY <3>1
    <2>. QED BY <1>3, <2>1
<1>. QED BY <1>4, <1>5
=============================================================================
