----------------------------- MODULE FoldTheorems -----------------------------
(***************************************************************************)
(* What is counted or made one item after the other, and the whole numbers *)
(* it is counted in.                                                       *)
(*                                                                         *)
(* Sums over finite sets, as the caches count the bytes they hold: a sum   *)
(* is taken one element after the other, in an order that is left open     *)
(* (MapThenSumSet); that it does not depend on the order, and so grows by  *)
(* what is added and shrinks by what is taken away, is proved here once.   *)
(* And folds of sequences from the left (FoldLeft): that there is such a   *)
(* fold, and the states it goes through.  Of whole numbers, the least and  *)
(* the greatest of a set, powers of two, and quotients with what is left   *)
(* over them.                                                              *)
(*                                                                         *)
(* The inductions are over the finite subsets of the set summed or folded, *)
(* each time as the absence of a least counterexample.                     *)
(***************************************************************************)
EXTENDS Integers, FiniteSetsExt, FiniteSetTheorems, WellFoundedInduction, TLAPS

CONSTANT Folding(_, _, _) \* one step of a fold (see the last section)

-----------------------------------------------------------------------------
(* Whole numbers, the least and the greatest of them.                      *)

\* Of the whole numbers in a set one is least.
LEMMA LeastOf ==
    ASSUME NEW S, S \subseteq Nat, S # {}
    PROVE  Min(S) \in S /\ \A n \in S : Min(S) <= n
<1> DEFINE before == {p \in Nat \X Nat : p[1] < p[2]}
<1>1. IsWellFoundedOn(before, Nat)
  BY NatLessThanWellFounded DEF OpToRel
<1>2. \A i, j \in Nat : i < j => <<i, j>> \in before
  OBVIOUS
<1> HIDE DEF before
<1>3. PICK n \in S : \A k \in S : <<k, n>> \notin before
  BY <1>1, WFMin
<1>4. \A k \in S : n <= k
  <2> SUFFICES ASSUME NEW k \in S, k < n PROVE FALSE
    OBVIOUS
  <2>1. k \in Nat /\ n \in Nat /\ <<k, n>> \notin before
    BY <1>3
  <2> QED
    BY <1>2, <2>1
<1> QED
  BY <1>4 DEF Min

\* And one is greatest, if none is beyond a bound.
LEMMA GreatestOf ==
    ASSUME NEW S, NEW b \in Nat, S \subseteq 0..b, S # {}
    PROVE  Max(S) \in S /\ \A n \in S : n <= Max(S)
<1> DEFINE T == {b - n : n \in S}
<1>1. T \subseteq Nat /\ T # {}
  <2>1. \A n \in S : b - n \in Nat
    OBVIOUS
  <2> QED
    BY <2>1
<1>2. PICK n \in S : b - n = Min(T) /\ \A t \in T : Min(T) <= t
  <2>1. Min(T) \in T /\ \A t \in T : Min(T) <= t
    BY <1>1, LeastOf
  <2> QED
    BY <2>1
<1>3. \A k \in S : n >= k
  <2> SUFFICES ASSUME NEW k \in S PROVE n >= k
    OBVIOUS
  <2>1. b - k \in T /\ b - n <= b - k
    BY <1>2
  <2> QED
    BY <2>1
<1> QED
  BY <1>3 DEF Max

\* The same between any two bounds.
LEMMA LeastBetween ==
    ASSUME NEW lo \in Int, NEW hi \in Int, NEW S, S \subseteq lo..hi, S # {}
    PROVE  Min(S) \in S /\ \A n \in S : Min(S) <= n
<1> DEFINE T == {n - lo : n \in S}
<1>1. T \subseteq Nat /\ T # {}
  <2>1. \A n \in S : n - lo \in Nat
    OBVIOUS
  <2> QED
    BY <2>1
<1>2. Min(T) \in T /\ \A t \in T : Min(T) <= t
  BY <1>1, LeastOf
<1>3. PICK n \in S : n - lo = Min(T)
  BY <1>2
<1>4. \A k \in S : n <= k
  <2> SUFFICES ASSUME NEW k \in S PROVE n <= k
    OBVIOUS
  <2>1. k - lo \in T /\ n - lo <= k - lo
    BY <1>2, <1>3
  <2> QED
    BY <2>1
<1> QED
  BY <1>4 DEF Min

LEMMA GreatestBetween ==
    ASSUME NEW lo \in Int, NEW hi \in Int, NEW S, S \subseteq lo..hi, S # {}
    PROVE  Max(S) \in S /\ \A n \in S : n <= Max(S)
<1> DEFINE T == {hi - n : n \in S}
<1>1. T \subseteq Nat /\ T # {}
  <2>1. \A n \in S : hi - n \in Nat
    OBVIOUS
  <2> QED
    BY <2>1
<1>2. Min(T) \in T /\ \A t \in T : Min(T) <= t
  BY <1>1, LeastOf
<1>3. PICK n \in S : hi - n = Min(T)
  BY <1>2
<1>4. \A k \in S : n >= k
  <2> SUFFICES ASSUME NEW k \in S PROVE n >= k
    OBVIOUS
  <2>1. hi - k \in T /\ hi - n <= hi - k
    BY <1>2, <1>3
  <2> QED
    BY <2>1
<1> QED
  BY <1>4 DEF Max

\* What holds of 0, and of each number up to n if of the one before it.
LEMMA OneByOne ==
    ASSUME NEW n \in Nat, NEW H, 0 \in H, \A i \in 1..n : i - 1 \in H => i \in H
    PROVE  \A i \in 0..n : i \in H
<1> DEFINE without == {i \in 0..n : i \notin H}
<1> SUFFICES ASSUME without # {} PROVE FALSE
  OBVIOUS
<1>1. without \subseteq Nat
  OBVIOUS
<1>2. Min(without) \in without /\ \A i \in without : Min(without) <= i
  <2> HIDE DEF without
  <2> QED
    BY <1>1, LeastOf
<1> DEFINE i == Min(without)
<1>3. i \in 1..n /\ i - 1 \in 0..n /\ i - 1 < i
  BY <1>2
<1>4. i - 1 \in H
  BY <1>2, <1>3
<1> QED
  BY <1>2, <1>3, <1>4

-----------------------------------------------------------------------------
(* Powers of two, quotients and what is left over them.                    *)

\* A power of two counts the subsets of so many things.
LEMMA PowerDoubles ==
    ASSUME NEW n \in Nat
    PROVE  2 ^ n \in Nat \ {0} /\ 2 ^ (n + 1) = 2 * 2 ^ n
<1> DEFINE S == SUBSET (1..n)
           T == {s \union {n + 1} : s \in S}
<1>1. /\ IsFiniteSet(1..n) /\ Cardinality(1..n) = n
      /\ IsFiniteSet(1..(n + 1)) /\ Cardinality(1..(n + 1)) = n + 1
  BY FS_Interval
<1>2. /\ IsFiniteSet(S) /\ Cardinality(S) = 2 ^ n
      /\ Cardinality(SUBSET (1..(n + 1))) = 2 ^ (n + 1)
  <2>1. \A A : IsFiniteSet(A) => IsFiniteSet(SUBSET A) /\ Cardinality(SUBSET A) = 2 ^ Cardinality(A)
    BY FS_SUBSET
  <2> QED
    BY <1>1, <2>1, Zenon
<1>3. SUBSET (1..(n + 1)) = S \union T
  <2>1. ASSUME NEW t \in SUBSET (1..(n + 1)) PROVE t \in S \union T
    <3>1. CASE n + 1 \in t
      <4>1. t \ {n + 1} \in S /\ t = (t \ {n + 1}) \union {n + 1}
        BY <3>1
      <4> QED
        BY <4>1
    <3>2. CASE n + 1 \notin t
      BY <3>2
    <3> QED
      BY <3>1, <3>2
  <2>2. S \union T \subseteq SUBSET (1..(n + 1))
    <3>1. n + 1 \in 1..(n + 1) /\ \A i \in 1..n : i \in 1..(n + 1)
      OBVIOUS
    <3> QED
      BY <3>1
  <2> QED
    BY <2>1, <2>2
<1>4. S \intersect T = {}
  <2>1. \A s \in S : n + 1 \notin s
    OBVIOUS
  <2> QED
    BY <2>1
<1>5. IsFiniteSet(T) /\ Cardinality(T) = Cardinality(S)
  <2> DEFINE f == [s \in S |-> s \union {n + 1}]
  <2>1. \A r, s \in S : f[r] = f[s] => r = s
    <3> TAKE r \in S, s \in S
    <3>1. n + 1 \notin r /\ n + 1 \notin s
      OBVIOUS
    <3> QED
      BY <3>1
  <2>2. f \in [S -> T] /\ \A t \in T : \E s \in S : f[s] = t
    OBVIOUS
  <2> HIDE DEF S, T, f
  <2>3. f \in Bijection(S, T)
    BY <2>1, <2>2, Zenon DEF Bijection, Injection, Surjection, IsInjective
  <2> QED
    BY <1>2, <2>3, FS_Bijection DEF ExistsBijection
<1> HIDE DEF S, T
<1>6. Cardinality(S \union T) = Cardinality(S) + Cardinality(T) - Cardinality(S \intersect T)
  BY <1>2, <1>5, FS_Union
<1>7. Cardinality(S) \in Nat /\ Cardinality({}) = 0
  BY <1>2, FS_CardinalityType, FS_EmptySet
<1>8. Cardinality(S) # 0
  <2>1. {} \in S
    BY DEF S
  <2> QED
    BY <1>2, <2>1, FS_EmptySet
<1>9. Cardinality(SUBSET (1..(n + 1))) = Cardinality(S) + Cardinality(S) - 0
  BY <1>3, <1>4, <1>5, <1>6, <1>7, Zenon
<1>10. PICK a \in Nat \ {0} : a = Cardinality(S)
  BY <1>7, <1>8
<1>11. 2 ^ n = a /\ 2 ^ (n + 1) = a + a - 0
  BY <1>2, <1>9, <1>10
<1> QED
  BY <1>10, <1>11

LEMMA PowersSplit ==
    ASSUME NEW m \in Nat, NEW n \in Nat
    PROVE  2 ^ (m + n) = 2 ^ m * 2 ^ n
<1> DEFINE H == {i \in 0..n : 2 ^ (m + i) = 2 ^ m * 2 ^ i}
<1>1. 0 \in H
  <2>1. Cardinality({}) = 0 /\ IsFiniteSet({})
    BY FS_EmptySet
  <2>2. Cardinality(SUBSET {}) = 2 ^ 0
    BY <2>1, FS_SUBSET
  <2>3. SUBSET {} = {{}} /\ Cardinality({{}}) = 1
    BY FS_Singleton
  <2>4. 2 ^ m \in Nat
    BY PowerDoubles
  <2> QED
    BY <2>2, <2>3, <2>4
<1>2. ASSUME NEW i \in 1..n, i - 1 \in H PROVE i \in H
  <2>1. i - 1 \in Nat /\ m + (i - 1) \in Nat /\ (i - 1) + 1 = i /\ (m + (i - 1)) + 1 = m + i
    OBVIOUS
  <2>2. 2 ^ i = 2 * 2 ^ (i - 1) /\ 2 ^ (m + i) = 2 * 2 ^ (m + (i - 1))
        /\ 2 ^ m \in Nat /\ 2 ^ (i - 1) \in Nat
    BY <2>1, PowerDoubles
  <2>3. 2 ^ (m + (i - 1)) = 2 ^ m * 2 ^ (i - 1)
    BY <1>2
  <2>4. \A a, b \in Nat : 2 * (a * b) = a * (2 * b)
    OBVIOUS
  <2> QED
    BY <2>2, <2>3, <2>4
<1> HIDE DEF H
<1>3. \A i \in 0..n : i \in H
  BY <1>1, <1>2, OneByOne
<1> QED
  BY <1>3 DEF H

LEMMA TimesIsMore == ASSUME NEW a \in Nat, NEW b \in Nat \ {0} PROVE a * b \in Nat /\ a * b >= a
  OBVIOUS

LEMMA DivMod ==
    ASSUME NEW x \in Int, NEW d \in Nat \ {0}
    PROVE  /\ x \div d \in Int /\ x % d \in 0..d - 1
           /\ x = d * (x \div d) + (x % d)
           /\ x >= 0 => x \div d >= 0
  OBVIOUS

LEMMA QuotientAndRest ==
    ASSUME NEW x \in Int, NEW d \in Nat \ {0}
    PROVE  \E q \in Int, r \in 0..d - 1 : q = x \div d /\ r = x % d /\ x = d * q + r /\ (x >= 0 => q >= 0)
<1>1. /\ x \div d \in Int /\ x % d \in 0..d - 1
      /\ x = d * (x \div d) + (x % d)
      /\ x >= 0 => x \div d >= 0
  BY DivMod
<1> QED
  BY <1>1

LEMMA OneQuotient ==
    ASSUME NEW d \in Nat \ {0}, NEW q \in Int, NEW r \in 0..d - 1,
           NEW p \in Int, NEW s \in 0..d - 1, d * q + r = d * p + s
    PROVE  q = p /\ r = s
<1>1. CASE q > p
  <2>1. d * (q - p) >= d
    BY <1>1
  <2>2. d * (q - p) = s - r
    OBVIOUS
  <2> QED
    BY <2>1, <2>2
<1>2. CASE q < p
  <2>1. d * (p - q) >= d
    BY <1>2
  <2>2. d * (p - q) = r - s
    OBVIOUS
  <2> QED
    BY <2>1, <2>2
<1> QED
  BY <1>1, <1>2

\* The quotient and the rest of what lies so far into a stretch.
LEMMA RestIs ==
    ASSUME NEW d \in Nat \ {0}, NEW q \in Int, NEW r \in 0..d - 1, NEW x \in Int, x = d * q + r
    PROVE  x \div d = q /\ x % d = r
<1>2. PICK p \in Int, s \in 0..d - 1 : p = x \div d /\ s = x % d /\ x = d * p + s
  BY QuotientAndRest
<1>3. p = q /\ s = r
  BY <1>2, OneQuotient
<1> QED
  BY <1>2, <1>3

LEMMA TurnsAway ==
    ASSUME NEW d \in Nat \ {0}, NEW x \in Int, NEW k \in Int
    PROVE  (x - d * k) % d = x % d
<1>1. PICK q \in Int, r \in 0..d - 1 : r = x % d /\ x = d * q + r
  BY QuotientAndRest
<1>2. PICK p \in Int : p = q - k
  OBVIOUS
<1>3. d * (q - k) = d * q - d * k
  OBVIOUS
<1>4. PICK y \in Int : y = x - d * k
  OBVIOUS
<1>5. y = d * p + r
  BY <1>1, <1>2, <1>3, <1>4
<1>6. y % d = r
  BY <1>5, RestIs
<1> QED
  BY <1>1, <1>4, <1>6

\* What is left within a turn of the world's edge.
LEMMA OneTurn ==
    ASSUME NEW d \in Nat \ {0}, NEW x \in Int
    PROVE  /\ 0 <= x /\ x < d => x % d = x
           /\ d <= x /\ x < 2 * d => x % d = x - d
           /\ -d <= x /\ x < 0 => x % d = x + d
<1>1. ASSUME 0 <= x, x < d PROVE x % d = x
  <2>1. x \in 0..d - 1 /\ x = d * 0 + x /\ 0 \in Int
    BY <1>1
  <2> QED
    BY <2>1, RestIs
<1>2. ASSUME d <= x, x < 2 * d PROVE x % d = x - d
  <2>1. PICK q \in Int, r \in 0..d - 1 : q = 1 /\ r = x - d /\ x = d * q + r
    <3>1. x - d \in 0..d - 1 /\ x = d * 1 + (x - d) /\ 1 \in Int
      BY <1>2
    <3> QED
      BY <3>1
  <2>2. x % d = r
    BY <2>1, RestIs
  <2> QED
    BY <2>1, <2>2
<1>3. ASSUME -d <= x, x < 0 PROVE x % d = x + d
  <2>1. PICK q \in Int, r \in 0..d - 1 : q = -1 /\ r = x + d /\ x = d * q + r
    <3>1. x + d \in 0..d - 1 /\ x = d * (-1) + (x + d) /\ -1 \in Int
      BY <1>3
    <3> QED
      BY <3>1
  <2>2. x % d = r
    BY <2>1, RestIs
  <2> QED
    BY <2>1, <2>2
<1> QED
  BY <1>1, <1>2, <1>3

\* What goes further has a quotient no less.
LEMMA QuotientRises ==
    ASSUME NEW d \in Nat \ {0}, NEW u \in Int, NEW w \in Int, u <= w
    PROVE  u \div d <= w \div d
<1>1. PICK p \in Int, r \in 0..d - 1 : p = u \div d /\ u = d * p + r
  BY QuotientAndRest
<1>2. PICK q \in Int, s \in 0..d - 1 : q = w \div d /\ w = d * q + s
  BY QuotientAndRest
<1>3. SUFFICES ASSUME p > q PROVE FALSE
  BY <1>1, <1>2
<1>4. d * (p - q) >= d
  BY <1>3
<1>5. d * (p - q) = d * p - d * q
  OBVIOUS
<1> QED
  BY <1>1, <1>2, <1>4, <1>5

-----------------------------------------------------------------------------
(* Places in an order.                                                     *)

\* In a strict total order each place is somebody's.
LEMMA PlacesAreTaken ==
    ASSUME NEW S, IsFiniteSet(S), NEW before,
           \A x \in S : <<x, x>> \notin before,
           \A x, y \in S : x # y => <<x, y>> \in before \/ <<y, x>> \in before,
           \A x, y, z \in S : <<x, y>> \in before /\ <<y, z>> \in before => <<x, z>> \in before
    PROVE  \A k \in 1..Cardinality(S) : \E x \in S : Cardinality({y \in S : <<y, x>> \in before}) = k - 1
<1> DEFINE Below(x) == {y \in S : <<y, x>> \in before}
           n == Cardinality(S)
           f == [x \in S |-> Cardinality(Below(x))]
           T == 0..(n - 1)
<1>1. n \in Nat
  BY FS_CardinalityType
<1>2. ASSUME NEW x \in S
      PROVE  IsFiniteSet(Below(x)) /\ Cardinality(Below(x)) \in Nat /\ Cardinality(Below(x)) < n
  <2>1. Below(x) \in SUBSET S /\ Below(x) # S
    OBVIOUS
  <2> HIDE DEF Below
  <2>2. IsFiniteSet(Below(x)) /\ Cardinality(Below(x)) <= n /\ Cardinality(Below(x)) # n
    BY <2>1, FS_Subset
  <2>3. Cardinality(Below(x)) \in Nat
    BY <2>2, FS_CardinalityType
  <2> QED
    BY <1>1, <2>2, <2>3
<1>3. f \in [S -> T]
  <2>1. ASSUME NEW x \in S PROVE Cardinality(Below(x)) \in T
    BY <1>1, <1>2
  <2> HIDE DEF Below, T
  <2> QED
    BY <2>1
<1>4. ASSUME NEW x \in S, NEW y \in S, <<x, y>> \in before PROVE f[x] < f[y]
  <2>1. Below(x) \in SUBSET Below(y) /\ Below(x) # Below(y)
    BY <1>4
  <2>2. IsFiniteSet(Below(y)) /\ Cardinality(Below(x)) \in Nat /\ Cardinality(Below(y)) \in Nat
    BY <1>2
  <2>3. f[x] = Cardinality(Below(x)) /\ f[y] = Cardinality(Below(y))
    OBVIOUS
  <2> HIDE DEF Below, f
  <2>4. Cardinality(Below(x)) <= Cardinality(Below(y)) /\ Cardinality(Below(x)) # Cardinality(Below(y))
    BY <2>1, <2>2, FS_Subset
  <2> QED
    BY <2>2, <2>3, <2>4
<1>5. \A x, y \in S : f[x] = f[y] => x = y
  <2> SUFFICES ASSUME NEW x \in S, NEW y \in S, x # y, f[x] = f[y] PROVE FALSE
    OBVIOUS
  <2>1. <<x, y>> \in before \/ <<y, x>> \in before
    OBVIOUS
  <2>2. f[x] \in Int /\ f[y] \in Int
    BY <1>2
  <2> HIDE DEF f
  <2> QED
    BY <1>4, <2>1, <2>2
<1>6. IsFiniteSet(T) /\ Cardinality(T) = n
  <2>1. n - 1 \in Int /\ (IF 0 > n - 1 THEN 0 ELSE (n - 1) - 0 + 1) = n
    BY <1>1
  <2> HIDE DEF n
  <2> QED
    BY <2>1, FS_Interval
<1> HIDE DEF f, T
<1>7. f \in Injection(S, T)
  BY <1>3, <1>5 DEF Injection, IsInjective
<1>8. f \in Surjection(S, T)
  BY <1>6, <1>7, FS_Injection
<1>9. \A t \in T : \E x \in S : f[x] = t
  BY <1>8 DEF Surjection
<1> QED
  <2> TAKE k \in 1..Cardinality(S)
  <2>1. k - 1 \in T
    BY <1>1 DEF T
  <2> QED
    BY <1>9, <2>1 DEF f

-----------------------------------------------------------------------------
(* The sums of a set's parts.                                              *)

\* The sums of f over the subsets of S.
SumsUp(g, f, S) ==
    g = [s \in SUBSET S |->
            IF s = {} THEN 0
            ELSE f[CHOOSE x \in s : TRUE] + g[s \ {CHOOSE x \in s : TRUE}]]

\* The sum of f over S: of f.x, FiniteSetsExt's MapThenSumSet(LAMBDA x : f[x], S).
SumOf(f, S) == (CHOOSE g : SumsUp(g, f, S))[S]

-----------------------------------------------------------------------------
(* There are such sums.                                                    *)

\* The sums over subsets of at most n elements.
SumsTo(g, f, S, n) ==
    g = [s \in {t \in SUBSET S : Cardinality(t) <= n} |->
            IF s = {} THEN 0
            ELSE f[CHOOSE x \in s : TRUE] + g[s \ {CHOOSE x \in s : TRUE}]]

LEMMA OneFewer ==
    ASSUME NEW S, IsFiniteSet(S), NEW s \in SUBSET S, s # {}
    PROVE  LET c == CHOOSE x \in s : TRUE
           IN  /\ c \in s /\ s \ {c} \in SUBSET S
               /\ Cardinality(s) \in Nat /\ Cardinality(s) >= 1
               /\ Cardinality(s \ {c}) = Cardinality(s) - 1
<1> DEFINE c == CHOOSE x \in s : TRUE
<1>1. c \in s
  OBVIOUS
<1> HIDE DEF c
<1>2. IsFiniteSet(s)
  BY FS_Subset
<1>3. Cardinality(s) \in Nat /\ Cardinality(s \ {c}) = Cardinality(s) - 1
  BY <1>1, <1>2, FS_RemoveElement, FS_CardinalityType
<1>4. Cardinality(s \ {c}) \in Nat
  BY <1>2, FS_RemoveElement, FS_CardinalityType
<1> QED
  BY <1>1, <1>3, <1>4 DEF c

LEMMA SumsOfMore ==
    ASSUME NEW f, NEW S, IsFiniteSet(S), NEW n \in Nat, NEW g, SumsTo(g, f, S, n)
    PROVE  \E h : SumsTo(h, f, S, n + 1)
<1> DEFINE Upto(m) == {t \in SUBSET S : Cardinality(t) <= m}
           fewer(s) == s \ {CHOOSE x \in s : TRUE}
           h == [s \in Upto(n + 1) |->
                    IF s = {} THEN 0 ELSE f[CHOOSE x \in s : TRUE] + g[fewer(s)]]
<1>1. ASSUME NEW s \in Upto(n + 1), s # {}
      PROVE  fewer(s) \in Upto(n) /\ fewer(s) \in Upto(n + 1)
  BY <1>1, OneFewer
<1>2. ASSUME NEW t \in Upto(n), t \in Upto(n + 1)
      PROVE  h[t] = g[t]
  <2>1. g[t] = IF t = {} THEN 0 ELSE f[CHOOSE x \in t : TRUE] + g[fewer(t)]
    BY DEF SumsTo
  <2> QED
    BY <1>2, <2>1
<1>3. \A s \in Upto(n + 1) : s # {} => h[fewer(s)] = g[fewer(s)]
  BY <1>1, <1>2
<1> DEFINE k == [s \in Upto(n + 1) |->
                    IF s = {} THEN 0 ELSE f[CHOOSE x \in s : TRUE] + h[fewer(s)]]
<1>4. \A s \in Upto(n + 1) : h[s] = k[s]
  <2> SUFFICES ASSUME NEW s \in Upto(n + 1), s # {} PROVE h[s] = k[s]
    OBVIOUS
  <2>1. h[s] = f[CHOOSE x \in s : TRUE] + g[fewer(s)]
    OBVIOUS
  <2>2. h[fewer(s)] = g[fewer(s)]
    BY <1>3
  <2> HIDE DEF h
  <2>3. k[s] = f[CHOOSE x \in s : TRUE] + h[fewer(s)]
    OBVIOUS
  <2> QED
    BY <2>1, <2>2, <2>3
<1>5. h = k
  <2>1. h = [s \in Upto(n + 1) |-> h[s]]
    OBVIOUS
  <2> HIDE DEF h
  <2>2. k = [s \in Upto(n + 1) |-> k[s]]
    OBVIOUS
  <2> HIDE DEF k, Upto
  <2> QED
    BY <1>4, <2>1, <2>2
<1> HIDE DEF h
<1>6. SumsTo(h, f, S, n + 1)
  BY <1>5 DEF SumsTo
<1> QED
  BY <1>6

LEMMA SumsExist ==
    ASSUME NEW f, NEW S, IsFiniteSet(S)
    PROVE  \E g : SumsUp(g, f, S)
<1> DEFINE without == {n \in Nat : ~ \E g : SumsTo(g, f, S, n)}
<1>1. 0 \notin without
  <2> DEFINE none == [s \in {t \in SUBSET S : Cardinality(t) <= 0} |-> 0]
  <2>1. ASSUME NEW t \in SUBSET S, Cardinality(t) <= 0 PROVE t = {}
    <3>1. t # {} => Cardinality(t) \in Nat /\ Cardinality(t) >= 1
      BY OneFewer
    <3> QED
      BY <2>1, <3>1
  <2>2. SumsTo(none, f, S, 0)
    BY <2>1 DEF SumsTo
  <2> QED
    BY <2>2
<1>2. ASSUME NEW n \in Nat, n + 1 \in without PROVE n \in without
  BY <1>2, SumsOfMore
<1>3. without = {}
  <2> SUFFICES ASSUME without # {} PROVE FALSE
    OBVIOUS
  <2> DEFINE before == {p \in Nat \X Nat : p[1] < p[2]}
  <2>1. IsWellFoundedOn(before, Nat)
    BY NatLessThanWellFounded DEF OpToRel
  <2>2. \A i, j \in Nat : i < j => <<i, j>> \in before
    OBVIOUS
  <2>3. without \subseteq Nat
    OBVIOUS
  <2> HIDE DEF before, without
  <2>4. PICK n \in without : \A m \in without : <<m, n>> \notin before
    BY <2>1, <2>3, WFMin
  <2>5. n \in Nat /\ n # 0
    BY <1>1, <2>3, <2>4
  <2>6. n - 1 \in Nat /\ (n - 1) + 1 = n
    BY <2>5
  <2>7. n - 1 \in without
    BY <1>2, <2>4, <2>6
  <2>8. <<n - 1, n>> \in before
    BY <2>2, <2>5, <2>6
  <2> QED
    BY <2>4, <2>7, <2>8
<1>4. PICK g : SumsTo(g, f, S, Cardinality(S))
  BY <1>3, FS_CardinalityType
<1>5. {t \in SUBSET S : Cardinality(t) <= Cardinality(S)} = SUBSET S
  BY FS_Subset
<1> QED
  BY <1>4, <1>5 DEF SumsUp, SumsTo

-----------------------------------------------------------------------------
(* What they are.                                                          *)

\* Of the subsets of a finite set of which something holds, one is least.
LEMMA LeastSubset ==
    ASSUME NEW S, IsFiniteSet(S), NEW X, X \subseteq SUBSET S, X # {}
    PROVE  \E s \in X : \A t \in X : t \subseteq s => t = s
<1> DEFINE less == StrictSubsetOrdering(S)
           all  == FiniteSubsetsOf(S)
<1>1. all = SUBSET S
  BY FS_FiniteSubsetsOfFinite
<1>2. IsWellFoundedOn(less, all)
  BY FS_StrictSubsetOrderingWellFounded
<1>3. \A s, t \in SUBSET S : t \subseteq s /\ t # s => <<t, s>> \in less
  BY DEF StrictSubsetOrdering
<1> HIDE DEF less, all
<1>4. PICK s \in X : \A t \in X : <<t, s>> \notin less
  BY <1>1, <1>2, WFMin
<1> QED
  BY <1>3, <1>4

\* Sums depend on nothing but what is summed.
LEMMA SumsAgree ==
    ASSUME NEW f, NEW S, NEW g, SumsUp(g, f, S), IsFiniteSet(S),
           NEW e, NEW R, NEW h, SumsUp(h, e, R), S \subseteq R,
           \A x \in S : f[x] = e[x]
    PROVE  g[S] = h[S]
<1> DEFINE apart == {s \in SUBSET S : g[s] # h[s]}
<1> SUFFICES ASSUME apart # {} PROVE FALSE
  OBVIOUS
<1>1. PICK s \in apart : \A t \in apart : t \subseteq s => t = s
  <2>1. apart \subseteq SUBSET S
    OBVIOUS
  <2> HIDE DEF apart
  <2> QED
    BY <2>1, LeastSubset
<1> DEFINE c == CHOOSE x \in s : TRUE
<1>2. /\ g[s] = IF s = {} THEN 0 ELSE f[c] + g[s \ {c}]
      /\ h[s] = IF s = {} THEN 0 ELSE e[c] + h[s \ {c}]
  BY DEF SumsUp
<1>3. CASE s = {}
  BY <1>2, <1>3
<1>4. CASE s # {}
  <2>1. c \in s /\ s \ {c} \in SUBSET S
    BY <1>4
  <2> HIDE DEF c
  <2>2. s \ {c} \notin apart
    BY <1>1, <2>1
  <2>3. g[s \ {c}] = h[s \ {c}] /\ f[c] = e[c]
    BY <2>1, <2>2
  <2> QED
    BY <1>2, <1>4, <2>3
<1> QED
  BY <1>3, <1>4

LEMMA SumsAreNumbers ==
    ASSUME NEW f, NEW S, NEW g, SumsUp(g, f, S), IsFiniteSet(S),
           \A x \in S : f[x] \in Int
    PROVE  \A s \in SUBSET S : g[s] \in Int
<1> DEFINE odd == {s \in SUBSET S : g[s] \notin Int}
<1> SUFFICES ASSUME odd # {} PROVE FALSE
  OBVIOUS
<1>1. PICK s \in odd : \A t \in odd : t \subseteq s => t = s
  <2>1. odd \subseteq SUBSET S
    OBVIOUS
  <2> HIDE DEF odd
  <2> QED
    BY <2>1, LeastSubset
<1> DEFINE c == CHOOSE x \in s : TRUE
<1>2. g[s] = IF s = {} THEN 0 ELSE f[c] + g[s \ {c}]
  BY DEF SumsUp
<1>3. CASE s = {}
  BY <1>2, <1>3
<1>4. CASE s # {}
  <2>1. c \in s /\ s \ {c} \in SUBSET S
    BY <1>4
  <2> HIDE DEF c
  <2>2. s \ {c} \notin odd
    BY <1>1, <2>1
  <2>3. g[s \ {c}] \in Int /\ f[c] \in Int
    BY <2>1, <2>2
  <2> QED
    BY <1>2, <1>4, <2>3
<1> QED
  BY <1>3, <1>4

\* Any element may be the one taken first.
LEMMA AnyFirst ==
    ASSUME NEW f, NEW S, NEW g, SumsUp(g, f, S), IsFiniteSet(S),
           \A x \in S : f[x] \in Int
    PROVE  \A s \in SUBSET S : \A x \in s : g[s] = f[x] + g[s \ {x}]
<1> DEFINE odd == {s \in SUBSET S : \E x \in s : g[s] # f[x] + g[s \ {x}]}
<1> SUFFICES ASSUME odd # {} PROVE FALSE
  OBVIOUS
<1>1. PICK s \in odd : \A t \in odd : t \subseteq s => t = s
  <2>1. odd \subseteq SUBSET S
    OBVIOUS
  <2> HIDE DEF odd
  <2> QED
    BY <2>1, LeastSubset
<1>2. PICK x \in s : g[s] # f[x] + g[s \ {x}]
  OBVIOUS
<1>3. PICK c \in s : g[s] = f[c] + g[s \ {c}]
  <2>1. g[s] = f[CHOOSE y \in s : TRUE] + g[s \ {CHOOSE y \in s : TRUE}]
    BY <1>2 DEF SumsUp
  <2>2. (CHOOSE y \in s : TRUE) \in s
    BY <1>2
  <2> QED
    BY <2>1, <2>2
<1>4. x # c
  BY <1>2, <1>3
<1>5. s \ {c} \notin odd /\ s \ {x} \notin odd
  <2>1. s \ {c} # s /\ s \ {x} # s
    OBVIOUS
  <2> HIDE DEF odd
  <2> QED
    BY <1>1, <2>1
<1> DEFINE rest == (s \ {x}) \ {c}
<1>6. rest = (s \ {c}) \ {x}
  OBVIOUS
<1>7. g[s \ {c}] = f[x] + g[rest]
  BY <1>4, <1>5, <1>6
<1>8. g[s \ {x}] = f[c] + g[rest]
  BY <1>4, <1>5
<1>9. f[x] \in Int /\ f[c] \in Int /\ g[rest] \in Int
  BY SumsAreNumbers
<1> HIDE DEF rest, odd
<1> QED
  BY <1>2, <1>3, <1>7, <1>8, <1>9

-----------------------------------------------------------------------------
(* Sums.                                                                   *)

LEMMA SumOfSumsUp ==
    ASSUME NEW f, NEW S, IsFiniteSet(S)
    PROVE  SumsUp(CHOOSE g : SumsUp(g, f, S), f, S)
BY SumsExist, Zenon

\* Two functions that are one on S have one sum over it.
LEMMA SumsOfSame ==
    ASSUME NEW S, IsFiniteSet(S), NEW f, NEW e, \A x \in S : f[x] = e[x]
    PROVE  SumOf(f, S) = SumOf(e, S)
BY SumOfSumsUp, SumsAgree DEF SumOf

LEMMA SumOfNone == ASSUME NEW f PROVE SumOf(f, {}) = 0
<1> DEFINE g == CHOOSE g : SumsUp(g, f, {})
<1>1. SumsUp(g, f, {})
  BY SumOfSumsUp, FS_EmptySet
<1> HIDE DEF g
<1>2. g[{}] = 0
  BY <1>1 DEF SumsUp
<1> QED
  BY <1>2 DEF SumOf, g

LEMMA SumIsANumber ==
    ASSUME NEW S, IsFiniteSet(S), NEW f, \A x \in S : f[x] \in Int
    PROVE  SumOf(f, S) \in Int
BY SumOfSumsUp, SumsAreNumbers DEF SumOf

\* A sum is what is taken out of it and the sum of the others.
LEMMA SumWithout ==
    ASSUME NEW S, IsFiniteSet(S), NEW f, \A x \in S : f[x] \in Int, NEW x \in S
    PROVE  SumOf(f, S) = f[x] + SumOf(f, S \ {x})
<1> DEFINE g == CHOOSE g : SumsUp(g, f, S)
           h == CHOOSE h : SumsUp(h, f, S \ {x})
<1>1. SumsUp(g, f, S)
  BY SumOfSumsUp
<1>2. IsFiniteSet(S \ {x})
  BY FS_RemoveElement
<1>3. SumsUp(h, f, S \ {x})
  BY <1>2, SumOfSumsUp
<1> HIDE DEF g, h
<1>4. g[S] = f[x] + g[S \ {x}]
  BY <1>1, AnyFirst
<1>5. g[S \ {x}] = h[S \ {x}]
  BY <1>1, <1>2, <1>3, SumsAgree
<1>6. SumOf(f, S) = g[S] /\ SumOf(f, S \ {x}) = h[S \ {x}]
  BY DEF SumOf, g, h
<1> QED
  BY <1>4, <1>5, <1>6

LEMMA SumWith ==
    ASSUME NEW S, IsFiniteSet(S), NEW x, x \notin S, NEW f, \A y \in S \cup {x} : f[y] \in Int
    PROVE  SumOf(f, S \cup {x}) = f[x] + SumOf(f, S)
<1>1. IsFiniteSet(S \cup {x}) /\ (S \cup {x}) \ {x} = S
  BY FS_AddElement
<1> QED
  BY <1>1, SumWithout

\* A sum is the sum of a part and that of the rest.
LEMMA SumSplits ==
    ASSUME NEW S, IsFiniteSet(S), NEW T \in SUBSET S, NEW f, \A x \in S : f[x] \in Int
    PROVE  SumOf(f, S) = SumOf(f, T) + SumOf(f, S \ T)
<1> DEFINE odd == {t \in SUBSET S : SumOf(f, S) # SumOf(f, t) + SumOf(f, S \ t)}
<1> SUFFICES ASSUME odd # {} PROVE FALSE
  OBVIOUS
<1>1. PICK t \in odd : \A u \in odd : u \subseteq t => u = t
  <2>1. odd \subseteq SUBSET S
    OBVIOUS
  <2> HIDE DEF odd
  <2> QED
    BY <2>1, LeastSubset
<1>2. SumOf(f, {}) = 0 /\ SumOf(f, S) \in Int
  BY SumOfNone, SumIsANumber
<1>3. t # {}
  <2> SUFFICES ASSUME t = {} PROVE FALSE
    OBVIOUS
  <2>1. S \ t = S /\ SumOf(f, t) = 0
    BY <1>2
  <2>2. SumOf(f, S) # SumOf(f, t) + SumOf(f, S \ t)
    BY <1>1
  <2> HIDE DEF odd
  <2> QED
    BY <1>2, <2>1, <2>2
<1>4. PICK x \in t : TRUE
  BY <1>3
<1>5. t \ {x} \notin odd
  <2>1. t \ {x} # t /\ t \ {x} \subseteq t
    OBVIOUS
  <2> HIDE DEF odd
  <2> QED
    BY <1>1, <2>1
<1>6. SumOf(f, S) = SumOf(f, t \ {x}) + SumOf(f, S \ (t \ {x}))
  BY <1>5
<1>7. IsFiniteSet(t) /\ IsFiniteSet(t \ {x}) /\ IsFiniteSet(S \ t)
  BY FS_Subset
<1>8. SumOf(f, t) = f[x] + SumOf(f, t \ {x})
  BY <1>7, SumWithout
<1>9. SumOf(f, S \ (t \ {x})) = f[x] + SumOf(f, S \ t)
  <2>1. S \ (t \ {x}) = (S \ t) \cup {x}
    OBVIOUS
  <2> QED
    BY <1>7, <2>1, SumWith
<1>10. /\ f[x] \in Int /\ SumOf(f, t \ {x}) \in Int /\ SumOf(f, S \ t) \in Int
  BY <1>7, SumIsANumber
<1>11. SumOf(f, S) # SumOf(f, t) + SumOf(f, S \ t)
  BY <1>1
<1> HIDE DEF odd
<1> QED
  BY <1>6, <1>8, <1>9, <1>10, <1>11

\* A sum of natural numbers is one, and no less than that of any part.
LEMMA SumIsNatural ==
    ASSUME NEW S, IsFiniteSet(S), NEW f, \A x \in S : f[x] \in Nat
    PROVE  SumOf(f, S) \in Nat
<1> DEFINE odd == {t \in SUBSET S : SumOf(f, t) \notin Nat}
<1> SUFFICES ASSUME odd # {} PROVE FALSE
  OBVIOUS
<1>1. PICK t \in odd : \A u \in odd : u \subseteq t => u = t
  <2>1. odd \subseteq SUBSET S
    OBVIOUS
  <2> HIDE DEF odd
  <2> QED
    BY <2>1, LeastSubset
<1>2. PICK x \in t : TRUE
  BY SumOfNone
<1>3. t \ {x} \notin odd
  <2>1. t \ {x} # t /\ t \ {x} \subseteq t
    OBVIOUS
  <2> HIDE DEF odd
  <2> QED
    BY <1>1, <2>1
<1>4. SumOf(f, t) = f[x] + SumOf(f, t \ {x})
  BY FS_Subset, SumWithout
<1>5. SumOf(f, t \ {x}) \in Nat /\ f[x] \in Nat
  BY <1>3
<1> QED
  BY <1>1, <1>4, <1>5

LEMMA SumOfPart ==
    ASSUME NEW S, IsFiniteSet(S), NEW T \in SUBSET S, NEW f, \A x \in S : f[x] \in Nat
    PROVE  SumOf(f, T) <= SumOf(f, S)
<1>1. IsFiniteSet(T) /\ IsFiniteSet(S \ T)
  BY FS_Subset
<1>2. SumOf(f, T) \in Nat /\ SumOf(f, S \ T) \in Nat
  BY <1>1, SumIsNatural
<1>3. SumOf(f, S) = SumOf(f, T) + SumOf(f, S \ T)
  BY SumSplits
<1> QED
  BY <1>2, <1>3

\* The sum of a function's values is one of these sums.
LEMMA SumOfAFunction == ASSUME NEW f PROVE SumFunction(f) = SumOf(f, DOMAIN f)
BY DEF SumFunction, SumFunctionOnSet, FoldFunctionOnSet, MapThenFoldSet, SumOf, SumsUp

-----------------------------------------------------------------------------
(* Folds of sequences from the left.  Folding(k, state, item) is the state *)
(* after one item more, k what every step is given besides; a module takes *)
(* these lemmas for a step of its own by INSTANCE ... WITH Folding <- it,  *)
(* and leaves Folding open where it is about sums alone.                   *)

\* The folds of the items at each set of places, the last place last.
FoldsUp(g, k, base, seq) ==
    g = [s \in SUBSET DOMAIN seq |->
            IF s = {} THEN base ELSE Folding(k, g[s \ {Max(s)}], seq[Max(s)])]

\* SequencesExt's FoldLeft(LAMBDA state, item : Folding(k, state, item), base, seq).
FoldOf(k, base, seq) == (CHOOSE g : FoldsUp(g, k, base, seq))[DOMAIN seq]

\* The folds over sets of at most m places.
FoldsTo(g, k, base, seq, m) ==
    g = [s \in {t \in SUBSET DOMAIN seq : Cardinality(t) <= m} |->
            IF s = {} THEN base ELSE Folding(k, g[s \ {Max(s)}], seq[Max(s)])]

LEMMA LastIsOne ==
    ASSUME NEW n \in Nat, NEW s \in SUBSET (1..n), s # {}
    PROVE  /\ Max(s) \in s /\ s \ {Max(s)} \in SUBSET (1..n)
           /\ Cardinality(s) \in Nat /\ Cardinality(s) >= 1
           /\ Cardinality(s \ {Max(s)}) = Cardinality(s) - 1
<1>1. Max(s) \in s
  <2>1. s \subseteq 0..n
    OBVIOUS
  <2> QED
    BY <2>1, GreatestOf
<1>2. IsFiniteSet(s)
  <2>1. IsFiniteSet(1..n)
    BY FS_Interval
  <2> QED
    BY <2>1, FS_Subset
<1>3. Cardinality(s) \in Nat /\ Cardinality(s \ {Max(s)}) = Cardinality(s) - 1
  BY <1>1, <1>2, FS_RemoveElement, FS_CardinalityType
<1>4. Cardinality(s \ {Max(s)}) \in Nat
  BY <1>1, <1>2, FS_RemoveElement, FS_CardinalityType
<1>5. s \ {Max(s)} \in SUBSET (1..n)
  OBVIOUS
<1>6. Cardinality(s) >= 1
  BY <1>3, <1>4
<1> QED
  BY <1>1, <1>3, <1>5, <1>6, Zenon

LEMMA FoldsOfMore ==
    ASSUME NEW k, NEW base, NEW seq, NEW n \in Nat, DOMAIN seq = 1..n,
           NEW m \in Nat, NEW g, FoldsTo(g, k, base, seq, m)
    PROVE  \E h : FoldsTo(h, k, base, seq, m + 1)
<1> DEFINE Upto(q) == {t \in SUBSET DOMAIN seq : Cardinality(t) <= q}
           fewer(s) == s \ {Max(s)}
           h == [s \in Upto(m + 1) |-> IF s = {} THEN base ELSE Folding(k, g[fewer(s)], seq[Max(s)])]
<1>1. ASSUME NEW s \in Upto(m + 1), s # {}
      PROVE  fewer(s) \in Upto(m) /\ fewer(s) \in Upto(m + 1)
  <2>1. s \in SUBSET (1..n) /\ Cardinality(s) <= m + 1
    OBVIOUS
  <2>2. /\ fewer(s) \in SUBSET (1..n) /\ Cardinality(s) \in Nat
        /\ Cardinality(fewer(s)) = Cardinality(s) - 1
    BY <1>1, <2>1, LastIsOne, Zenon
  <2>3. Cardinality(fewer(s)) <= m /\ Cardinality(fewer(s)) <= m + 1
    BY <2>1, <2>2
  <2> QED
    BY <2>2, <2>3
<1>2. ASSUME NEW t \in Upto(m), t \in Upto(m + 1)
      PROVE  h[t] = g[t]
  <2>1. g[t] = IF t = {} THEN base ELSE Folding(k, g[fewer(t)], seq[Max(t)])
    BY DEF FoldsTo
  <2> QED
    BY <1>2, <2>1
<1>3. \A s \in Upto(m + 1) : s # {} => h[fewer(s)] = g[fewer(s)]
  BY <1>1, <1>2
<1> DEFINE j == [s \in Upto(m + 1) |-> IF s = {} THEN base ELSE Folding(k, h[fewer(s)], seq[Max(s)])]
<1>4. \A s \in Upto(m + 1) : h[s] = j[s]
  <2> SUFFICES ASSUME NEW s \in Upto(m + 1), s # {} PROVE h[s] = j[s]
    OBVIOUS
  <2>1. h[s] = Folding(k, g[fewer(s)], seq[Max(s)])
    OBVIOUS
  <2>2. h[fewer(s)] = g[fewer(s)]
    BY <1>3
  <2> HIDE DEF h
  <2>3. j[s] = Folding(k, h[fewer(s)], seq[Max(s)])
    OBVIOUS
  <2> QED
    BY <2>1, <2>2, <2>3
<1>5. h = j
  <2>1. h = [s \in Upto(m + 1) |-> h[s]]
    OBVIOUS
  <2> HIDE DEF h
  <2>2. j = [s \in Upto(m + 1) |-> j[s]]
    OBVIOUS
  <2> HIDE DEF j, Upto
  <2> QED
    BY <1>4, <2>1, <2>2
<1> HIDE DEF h
<1>6. FoldsTo(h, k, base, seq, m + 1)
  BY <1>5 DEF FoldsTo
<1> QED
  BY <1>6

LEMMA FoldsExist ==
    ASSUME NEW k, NEW base, NEW seq, NEW n \in Nat, DOMAIN seq = 1..n
    PROVE  \E g : FoldsUp(g, k, base, seq)
<1> DEFINE with == {m \in Nat : \E g : FoldsTo(g, k, base, seq, m)}
<1>1. 0 \in with
  <2> DEFINE none == [s \in {t \in SUBSET DOMAIN seq : Cardinality(t) <= 0} |-> base]
  <2>1. ASSUME NEW t \in SUBSET DOMAIN seq, Cardinality(t) <= 0 PROVE t = {}
    <3>1. t # {} => Cardinality(t) \in Nat /\ Cardinality(t) >= 1
      BY LastIsOne
    <3> QED
      BY <2>1, <3>1
  <2>2. FoldsTo(none, k, base, seq, 0)
    BY <2>1 DEF FoldsTo
  <2> QED
    BY <2>2
<1>2. ASSUME NEW m \in 1..n, m - 1 \in with PROVE m \in with
  <2>1. m - 1 \in Nat /\ (m - 1) + 1 = m
    OBVIOUS
  <2> QED
    BY <1>2, <2>1, FoldsOfMore
<1>3. n \in with
  <2> HIDE DEF with
  <2> QED
    BY <1>1, <1>2, OneByOne
<1>4. PICK g : FoldsTo(g, k, base, seq, n)
  BY <1>3
<1>5. {t \in SUBSET DOMAIN seq : Cardinality(t) <= n} = SUBSET DOMAIN seq
  BY FS_Subset, FS_Interval
<1> QED
  BY <1>4, <1>5 DEF FoldsUp, FoldsTo

\* The states a fold goes through, from the first to the last.
FoldPasses(f, k, base, seq, n) ==
  /\ f[0] = base /\ f[n] = FoldOf(k, base, seq)
  /\ \A i \in 1..n : f[i] = Folding(k, f[i - 1], seq[i])

LEMMA FoldSteps ==
    ASSUME NEW k, NEW base, NEW seq, NEW n \in Nat, DOMAIN seq = 1..n
    PROVE  \E f : FoldPasses(f, k, base, seq, n)
<1> DEFINE g == CHOOSE g : FoldsUp(g, k, base, seq)
           f == [i \in 0..n |-> g[1..i]]
<1>1. FoldsUp(g, k, base, seq)
  BY FoldsExist, Zenon
<1> HIDE DEF g
<1>2. f[0] = base
  <2>1. g[{}] = base
    BY <1>1 DEF FoldsUp
  <2>2. 1..0 = {}
    OBVIOUS
  <2> QED
    BY <2>1, <2>2
<1>3. f[n] = FoldOf(k, base, seq)
  BY DEF FoldOf, g
<1>4. ASSUME NEW i \in 1..n PROVE f[i] = Folding(k, f[i - 1], seq[i])
  <2>1. (1..i) \in SUBSET DOMAIN seq /\ 1..i # {} /\ (1..i) \ {i} = 1..(i - 1)
    <3>1. \A x \in 1..i : x \in 1..n
      OBVIOUS
    <3>2. i \in 1..i /\ (1..i) \ {i} = 1..(i - 1)
      OBVIOUS
    <3> QED
      BY <3>1, <3>2
  <2>2. Max(1..i) = i
    <3>1. Max(1..i) \in 1..i /\ \A x \in 1..i : x <= Max(1..i)
      <4>1. i \in Nat /\ i \in 1..i /\ \A x \in 1..i : x \in 0..i
        OBVIOUS
      <4> QED
        BY <4>1, GreatestOf
    <3> QED
      BY <3>1
  <2>3. g[1..i] = Folding(k, g[(1..i) \ {Max(1..i)}], seq[Max(1..i)])
    BY <1>1, <2>1 DEF FoldsUp
  <2>4. f[i] = g[1..i] /\ f[i - 1] = g[1..(i - 1)]
    OBVIOUS
  <2> HIDE DEF f
  <2> QED
    BY <2>1, <2>2, <2>3, <2>4
<1> HIDE DEF f
<1> QED
  BY <1>2, <1>3, <1>4 DEF FoldPasses
================================================================================
