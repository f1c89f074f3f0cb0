---------------------------- MODULE NaturalLemmas ----------------------------
(***************************************************************************)
(* Facts about natural numbers that the proofs about the model share: two  *)
(* forms of induction, powers of two, and division by them.                *)
(***************************************************************************)
EXTENDS Integers, FiniteSetTheorems, WellFoundedInduction, TLAPS

-----------------------------------------------------------------------------
(* Induction.  Stated of a set and not of a predicate, so that a proof can *)
(* apply it to the set of the numbers it is about.                         *)

\* A set of naturals that is not empty has a least element.
LEMMA LeastElement ==
    ASSUME NEW T \in SUBSET Nat, T # {}
    PROVE  \E n \in T : \A m \in T : n <= m
<1> DEFINE Below == {pair \in Nat \X Nat : pair[1] < pair[2]}
<1>1. IsWellFoundedOn(Below, Nat)
    BY NatLessThanWellFounded, Zenon DEF OpToRel
<1>2. \A m, n \in Nat : <<m, n>> \in Below <=> m < n
    OBVIOUS
<1> HIDE DEF Below
<1>3. PICK n \in T : \A m \in T : ~ (<<m, n>> \in Below)
    BY <1>1, WFMin
<1>4. ASSUME NEW m \in T PROVE n <= m
    <2>1. m \in Nat /\ n \in Nat /\ ~ (<<m, n>> \in Below)
        BY <1>3
    <2> QED
        BY <1>2, <2>1
<1> QED
    BY <1>4

\* A set that holds 0 and with every number the next one holds all.
LEMMA SetInduction ==
    ASSUME NEW T \in SUBSET Nat, 0 \in T, \A n \in T : n + 1 \in T
    PROVE  \A n \in Nat : n \in T
<1> SUFFICES ASSUME Nat \ T # {} PROVE FALSE
    OBVIOUS
<1>1. PICK n \in Nat \ T : \A m \in Nat \ T : n <= m
    BY LeastElement
<1>2. n # 0 /\ n - 1 \in Nat /\ n - 1 < n
    BY <1>1
<1>3. n - 1 \in T
    BY <1>1, <1>2
<1> QED
    BY <1>1, <1>2, <1>3

\* A set of numbers up to a bound that holds 0 and with every number below the
\* bound the next one.
LEMMA BoundedInduction ==
    ASSUME NEW bound \in Nat, NEW T, 0 \in T,
           \A n \in 0 .. bound : n < bound /\ n \in T => n + 1 \in T
    PROVE  \A n \in 0 .. bound : n \in T
<1> DEFINE Reached == {n \in Nat : n <= bound => n \in T}
<1>1. 0 \in Reached
    OBVIOUS
<1>2. ASSUME NEW n \in Reached PROVE n + 1 \in Reached
    BY <1>2
<1>3. \A n \in Nat : n \in Reached
    <2>1. Reached \in SUBSET Nat
        OBVIOUS
    <2> HIDE DEF Reached
    <2> QED
        BY <1>1, <1>2, <2>1, SetInduction
<1> QED
    BY <1>3

\* The value of f at i is what step[i] makes of the one before it.
Follows(f, n, first, step) == f[0] = first /\ \A i \in 1 .. n : f[i] = step[i][f[i - 1]]

\* Such a function exists.
LEMMA PrimitiveRecursion ==
    ASSUME NEW n \in Nat, NEW Values, NEW first \in Values,
           NEW step \in [1 .. n -> [Values -> Values]]
    PROVE  \E f \in [0 .. n -> Values] : Follows(f, n, first, step)
<1> DEFINE Begins(f, k) == f[0] = first /\ \A i \in 1 .. k : f[i] = step[i][f[i - 1]]
<1> DEFINE Defined == {k \in 0 .. n : \E f \in [0 .. k -> Values] : Begins(f, k)}
<1>1. 0 \in Defined
    <2> DEFINE g == [i \in 0 .. 0 |-> first]
    <2>1. g \in [0 .. 0 -> Values] /\ Begins(g, 0)
        OBVIOUS
    <2> HIDE DEF g, Begins
    <2> QED
        BY <2>1
<1>2. ASSUME NEW k \in 0 .. n, k < n, k \in Defined PROVE k + 1 \in Defined
    <2>1. PICK f \in [0 .. k -> Values] : Begins(f, k)
        BY <1>2
    <2> DEFINE g == [i \in 0 .. k + 1 |-> IF i <= k THEN f[i] ELSE step[i][f[i - 1]]]
    <2>2. k + 1 \in 1 .. n /\ k \in 0 .. k /\ f[k] \in Values
        BY <1>2, <2>1
    <2>3. step[k + 1] \in [Values -> Values]
        BY <2>2
    <2>4. step[k + 1][f[k]] \in Values
        BY <2>2, <2>3
    <2>5. g \in [0 .. k + 1 -> Values]
        <3>1. ASSUME NEW i \in 0 .. k + 1 PROVE g[i] \in Values
            <4>1. CASE i <= k
                BY <2>1, <4>1
            <4>2. CASE i = k + 1
                BY <2>2, <2>4, <4>2
            <4> QED
                BY <4>1, <4>2
        <3> QED
            BY <3>1
    <2>6. Begins(g, k + 1)
        <3>1. g[0] = first
            BY <2>1
        <3>2. ASSUME NEW i \in 1 .. k + 1 PROVE g[i] = step[i][g[i - 1]]
            <4>1. g[i - 1] = f[i - 1]
                BY <2>2
            <4>2. CASE i <= k
                BY <2>1, <4>1, <4>2
            <4>3. CASE i = k + 1
                BY <2>2, <4>1, <4>3
            <4> QED
                BY <4>2, <4>3
        <3> QED
            BY <3>1, <3>2
    <2> HIDE DEF g, Begins
    <2> QED
        BY <2>2, <2>5, <2>6
<1>3. n \in Defined
    <2> HIDE DEF Defined
    <2>1. \A k \in 0 .. n : k \in Defined
        BY <1>1, <1>2, BoundedInduction
    <2> QED
        BY <2>1
<1> QED
    BY <1>3 DEF Follows

-----------------------------------------------------------------------------
(* Powers of two.                                                          *)

\* The provers know no law of powers; this one follows from how many subsets a
\* set has: adding an element to the set adds as many as there were.
LEMMA PowerDoubles ==
    ASSUME NEW n \in Nat
    PROVE  2^n \in Nat /\ 2^(n + 1) = 2 * 2^n
<1> DEFINE Old == SUBSET (1 .. n)
<1> DEFINE New == {U \cup {n + 1} : U \in Old}
<1>1. /\ IsFiniteSet(1 .. n) /\ Cardinality(1 .. n) = n
      /\ IsFiniteSet(1 .. n + 1) /\ Cardinality(1 .. n + 1) = n + 1
    BY FS_Interval
<1>2. IsFiniteSet(Old) /\ Cardinality(Old) = 2^n
    BY <1>1, FS_SUBSET
<1>3. Cardinality(SUBSET (1 .. n + 1)) = 2^(n + 1)
    BY <1>1, FS_SUBSET
<1>4. n + 1 \notin 1 .. n /\ 1 .. n + 1 = (1 .. n) \cup {n + 1}
    OBVIOUS
<1>5. SUBSET (1 .. n + 1) = Old \cup New
    <2>1. ASSUME NEW U \in SUBSET (1 .. n + 1), n + 1 \in U
          PROVE  U \in New
        <3>1. U \ {n + 1} \in Old /\ U = (U \ {n + 1}) \cup {n + 1}
            BY <1>4, <2>1
        <3> QED
            BY <3>1
    <2>2. ASSUME NEW U \in SUBSET (1 .. n + 1), n + 1 \notin U
          PROVE  U \in Old
        BY <1>4, <2>2
    <2>3. Old \cup New \subseteq SUBSET (1 .. n + 1)
        BY <1>4
    <2> QED
        BY <2>1, <2>2, <2>3
<1>6. Old \cap New = {}
    BY <1>4
<1>7. IsFiniteSet(New) /\ Cardinality(New) = Cardinality(Old)
    <2> DEFINE f == [U \in Old |-> U \cup {n + 1}]
    <2>1. f \in [Old -> New]
        OBVIOUS
    <2>2. ASSUME NEW U \in Old, NEW V \in Old, f[U] = f[V]
          PROVE  U = V
        <3>1. U \cup {n + 1} = V \cup {n + 1}
            BY <2>2
        <3>2. n + 1 \notin U /\ n + 1 \notin V
            BY <1>4
        <3> QED
            BY <3>1, <3>2
    <2>3. \A V \in New : \E U \in Old : f[U] = V
        OBVIOUS
    <2>4. f \in Bijection(Old, New)
        BY <2>1, <2>2, <2>3 DEF Bijection, Injection, IsInjective, Surjection
    <2> QED
        BY <1>2, <2>4, FS_Bijection DEF ExistsBijection
<1> HIDE DEF Old, New
<1>8. Cardinality(Old \cup New) = Cardinality(Old) + Cardinality(New) - 0
    BY <1>2, <1>6, <1>7, FS_Union, FS_EmptySet
<1>9. Cardinality(Old) \in Nat
    BY <1>2, FS_CardinalityType
<1>10. 2^n \in Nat
    BY <1>2, <1>9
<1>11. Cardinality(Old \cup New) = 2 * Cardinality(Old)
    BY <1>7, <1>8, <1>9
<1>12. 2^(n + 1) = 2 * Cardinality(Old)
    BY <1>3, <1>5, <1>11
<1>13. 2^(n + 1) = 2 * 2^n
    BY <1>2, <1>12
<1> QED
    BY <1>10, <1>13

\* 2^0 counts the subsets of the empty set.
LEMMA PowerOfZero == 2^0 = 1
<1>1. IsFiniteSet({}) /\ Cardinality({}) = 0
    BY FS_EmptySet
<1>2. Cardinality(SUBSET {}) = 2^0
    BY <1>1, FS_SUBSET
<1>3. SUBSET {} = {{}} /\ Cardinality({{}}) = 1
    BY FS_Singleton
<1> QED
    BY <1>2, <1>3

\* So they are what they are known to be.
LEMMA SmallPowers ==
    /\ 2^0 = 1 /\ 2^1 = 2 /\ 2^2 = 4 /\ 2^3 = 8 /\ 2^4 = 16
    /\ 2^5 = 32 /\ 2^6 = 64 /\ 2^7 = 128 /\ 2^8 = 256
<1>1. \A n \in Nat : 2^(n + 1) = 2 * 2^n
    BY PowerDoubles
<1>2. 2^(0 + 1) = 2 * 2^0 /\ 2^(1 + 1) = 2 * 2^1 /\ 2^(2 + 1) = 2 * 2^2 /\ 2^(3 + 1) = 2 * 2^3
    BY <1>1
<1>3. 2^(4 + 1) = 2 * 2^4 /\ 2^(5 + 1) = 2 * 2^5 /\ 2^(6 + 1) = 2 * 2^6 /\ 2^(7 + 1) = 2 * 2^7
    BY <1>1
<1> QED
    BY <1>2, <1>3, PowerOfZero

\* Powers of two are positive.
LEMMA PowerPositive == \A n \in Nat : 2^n \in Nat \ {0}
<1> DEFINE T == {n \in Nat : 2^n \in Nat \ {0}}
<1>1. 0 \in T
    BY PowerOfZero
<1>2. ASSUME NEW n \in T PROVE n + 1 \in T
    <2>1. 2^n \in Nat \ {0} /\ 2^(n + 1) = 2 * 2^n
        BY <1>2, PowerDoubles
    <2> QED
        BY <2>1
<1>3. \A n \in Nat : n \in T
    <2>1. T \in SUBSET Nat
        OBVIOUS
    <2> HIDE DEF T
    <2> QED
        BY <1>1, <1>2, <2>1, SetInduction
<1> QED
    BY <1>3

\* The power of a sum is the product of the powers.
LEMMA PowerOfSum ==
    ASSUME NEW m \in Nat
    PROVE  \A n \in Nat : 2^(m + n) = 2^m * 2^n
<1> DEFINE T == {n \in Nat : 2^(m + n) = 2^m * 2^n}
<1>1. 0 \in T
    BY PowerOfZero, PowerPositive
<1>2. ASSUME NEW n \in T PROVE n + 1 \in T
    <2>1. 2^((m + n) + 1) = 2 * 2^(m + n) /\ 2^(n + 1) = 2 * 2^n
        BY PowerDoubles
    <2>2. 2^(m + n) = 2^m * 2^n /\ 2^m \in Nat /\ 2^n \in Nat
        BY PowerPositive
    <2>3. 2^(m + (n + 1)) = 2 * (2^m * 2^n)
        BY <2>1, <2>2
    <2>4. 2 * (2^m * 2^n) = 2^m * (2 * 2^n)
        <3> DEFINE a == 2^m
                   b == 2^n
        <3>1. a \in Nat /\ b \in Nat
            BY <2>2
        <3> HIDE DEF a, b
        <3>2. 2 * (a * b) = a * (2 * b)
            BY <3>1
        <3> QED
            BY <3>2 DEF a, b
    <2> QED
        BY <2>1, <2>3, <2>4
<1>3. \A n \in Nat : n \in T
    <2>1. T \in SUBSET Nat
        OBVIOUS
    <2> HIDE DEF T
    <2> QED
        BY <1>1, <1>2, <2>1, SetInduction
<1> QED
    BY <1>3

-----------------------------------------------------------------------------
(* Division.                                                               *)

\* What division is.
LEMMA DivisionIs ==
    ASSUME NEW x \in Nat, NEW a \in Nat \ {0}
    PROVE  /\ x \div a \in Nat /\ x % a \in 0 .. a - 1
           /\ x = a * (x \div a) + (x % a)
OBVIOUS

\* Nothing else is.
LEMMA DivisionUnique ==
    ASSUME NEW a \in Nat \ {0}, NEW q \in Nat, NEW r \in 0 .. a - 1
    PROVE  (a * q + r) \div a = q /\ (a * q + r) % a = r
<1> DEFINE x == a * q + r
<1>1. x \in Nat
    OBVIOUS
<1>2. x \div a \in Nat /\ x % a \in 0 .. a - 1 /\ x = a * (x \div a) + (x % a)
    BY <1>1, DivisionIs
<1> DEFINE p == x \div a
           s == x % a
<1>3. p \in Nat /\ s \in 0 .. a - 1 /\ a * q + r = a * p + s
    BY <1>2
<1> HIDE DEF p, s, x
<1>4. ~ (p < q)
    <2> SUFFICES ASSUME p < q PROVE FALSE
        OBVIOUS
    <2>1. a * (p + 1) <= a * q /\ a * (p + 1) = a * p + a
        BY <1>3
    <2> QED
        BY <1>3, <2>1
<1>5. ~ (q < p)
    <2> SUFFICES ASSUME q < p PROVE FALSE
        OBVIOUS
    <2>1. a * (q + 1) <= a * p /\ a * (q + 1) = a * q + a
        BY <1>3
    <2> QED
        BY <1>3, <2>1
<1>6. p = q /\ s = r
    BY <1>3, <1>4, <1>5
<1> QED
    BY <1>6 DEF p, s, x

\* Two divisions are one.
LEMMA DivideTwice ==
    ASSUME NEW x \in Nat, NEW a \in Nat \ {0}, NEW b \in Nat \ {0}
    PROVE  (x \div a) \div b = x \div (a * b)
<1> DEFINE q == x \div a
           r == x % a
           p == q \div b
           s == q % b
           ab == a * b
           rest == a * s + r
<1>1. q \in Nat /\ r \in 0 .. a - 1 /\ x = a * q + r
    BY DivisionIs
<1>2. p \in Nat /\ s \in 0 .. b - 1 /\ q = b * p + s
    BY <1>1, DivisionIs
<1> HIDE DEF q, r, p, s
<1>3. a * (b * p + s) = (a * b) * p + a * s
    BY <1>2
<1>4. x = ab * p + rest
    BY <1>1, <1>2, <1>3
<1>5. a * s \in Nat /\ a * s <= a * (b - 1) /\ a * (b - 1) = a * b - a /\ a * b \in Nat \ {0}
    BY <1>2
<1>6. ab \in Nat \ {0} /\ rest \in 0 .. ab - 1
    BY <1>1, <1>5
<1> HIDE DEF ab, rest
<1>7. x \div ab = p
    BY <1>2, <1>4, <1>6, DivisionUnique
<1> QED
    BY <1>7 DEF ab, p, q

\* Two shifts to the right are one.
LEMMA ShiftTwice ==
    ASSUME NEW x \in Nat, NEW m \in Nat, NEW n \in Nat
    PROVE  (x \div 2^m) \div 2^n = x \div 2^(m + n)
<1>1. 2^m \in Nat \ {0} /\ 2^n \in Nat \ {0} /\ 2^(m + n) = 2^m * 2^n
    BY PowerPositive, PowerOfSum
<1> DEFINE a == 2^m
           b == 2^n
<1>2. a \in Nat \ {0} /\ b \in Nat \ {0}
    BY <1>1
<1> HIDE DEF a, b
<1>3. (x \div a) \div b = x \div (a * b)
    BY <1>2, DivideTwice
<1> QED
    BY <1>1, <1>3 DEF a, b
=============================================================================
