--------------------------------- MODULE Sums ---------------------------------
(***************************************************************************)
(* Lemmas about finite sets, remainders, powers of 2, sums, ranges of      *)
(* numbers and filtered sequences.  Induction is stated about the set of   *)
(* what is good, subsets or numbers, since the provers instantiate         *)
(* theorems about sets but not about predicates.                           *)
(***************************************************************************)
EXTENDS Integers, FiniteSets, Functions, Filter, FiniteSetTheorems, FunctionTheorems,
        SequenceTheorems, WellFoundedInduction, TLAPS

\* A finite set is good if each of its subsets is that is good without any
\* one of its elements: there is no smallest one that is not.

LEMMA SetInduction ==
  ASSUME NEW S, IsFiniteSet(S), NEW Good, {} \in Good,
         \A T \in SUBSET S : T # {} /\ (\A x \in T : T \ {x} \in Good) => T \in Good
  PROVE  S \in Good
<1> DEFINE Bad == {T \in SUBSET S : T \notin Good}
<1>1. SUFFICES ASSUME Bad # {} PROVE FALSE
  OBVIOUS
<1>2. IsWellFoundedOn(StrictSubsetOrdering(S), SUBSET S)
  BY FS_StrictSubsetOrderingWellFounded, FS_FiniteSubsetsOfFinite
<1>3. Bad \subseteq SUBSET S
  OBVIOUS
<1>4. PICK T \in Bad : \A U \in Bad : ~(<<U, T>> \in StrictSubsetOrdering(S))
  <2> HIDE DEF Bad
  <2> QED BY <1>1, <1>2, <1>3, WFMin
<1>5. ASSUME NEW x \in T PROVE T \ {x} \in Good
  <2>1. T \ {x} \in SUBSET S /\ T \ {x} \subseteq T /\ T \ {x} # T
    BY <1>5
  <2>2. <<T \ {x}, T>> \in StrictSubsetOrdering(S)
    BY <2>1 DEF StrictSubsetOrdering
  <2> QED BY <1>4, <2>1, <2>2
<1> QED BY <1>4, <1>5

\* The recursion of FoldFunctionOnSet, for a sum.
Pick(s) == CHOOSE x \in s : TRUE
IsSumOf(g, f, S) ==
  g = [s \in SUBSET S |-> IF s = {} THEN 0 ELSE f[Pick(s)] + g[s \ {Pick(s)}]]

\* The element a sum takes first is one of the set's.
LEMMA PickIn == \A s : s # {} => Pick(s) \in s
  BY DEF Pick

\* SumFunctionOnSet is the recursion it is defined by.
LEMMA SumIsChoice ==
  ASSUME NEW f, NEW S
  PROVE  SumFunctionOnSet(f, S) = (CHOOSE g : IsSumOf(g, f, S))[S]
  BY DEF SumFunctionOnSet, FoldFunctionOnSet, MapThenFoldSet, IsSumOf, Pick

\* Two sums of one function agree where both are defined.
LEMMA SumUnique ==
  ASSUME NEW f, NEW S, IsFiniteSet(S), NEW T, NEW U, S \subseteq T, S \subseteq U,
         NEW g, IsSumOf(g, f, T), NEW h, IsSumOf(h, f, U)
  PROVE  g[S] = h[S]
<1> DEFINE Good == {s \in SUBSET S : g[s] = h[s]}
<1>1. {} \in Good
  BY DEF IsSumOf
<1>2. ASSUME NEW s \in SUBSET S, s # {}, \A x \in s : s \ {x} \in Good
      PROVE  s \in Good
  <2>1. g[s] = f[Pick(s)] + g[s \ {Pick(s)}] /\ h[s] = f[Pick(s)] + h[s \ {Pick(s)}]
    BY <1>2 DEF IsSumOf
  <2>2. s \ {Pick(s)} \in Good
    BY <1>2, PickIn
  <2> QED BY <2>1, <2>2
<1>3. S \in Good
  <2> HIDE DEF Good
  <2> QED BY <1>1, <1>2, SetInduction
<1> QED BY <1>3

\* There is such a recursive function for every finite set.
LEMMA SumExists ==
  ASSUME NEW f, NEW S, IsFiniteSet(S)
  PROVE  \E g : IsSumOf(g, f, S)
<1> DEFINE Good == {T \in SUBSET S : \E g : IsSumOf(g, f, T)}
           sum(T) == (CHOOSE g : IsSumOf(g, f, T))[T]
<1>1. {} \in Good
  <2>1. IsSumOf([s \in SUBSET {} |-> 0], f, {})
    BY DEF IsSumOf
  <2> QED BY <2>1
<1>2. ASSUME NEW T \in SUBSET S, T # {}, \A x \in T : T \ {x} \in Good
      PROVE  T \in Good
  <2> DEFINE g == [s \in SUBSET T |-> IF s = {} THEN 0 ELSE f[Pick(s)] + sum(s \ {Pick(s)})]
  <2>1. ASSUME NEW s \in SUBSET T, s # T
        PROVE  g[s] = sum(s)
    <3>1. PICK x \in T : s \subseteq T \ {x}
      BY <2>1
    <3>2. PICK h : IsSumOf(h, f, T \ {x})
      BY <1>2
    <3>3. ASSUME NEW u \in SUBSET (T \ {x}) PROVE sum(u) = h[u]
      <4>1. IsSumOf([v \in SUBSET u |-> h[v]], f, u)
        <5>1. \A v \in SUBSET u : v \in SUBSET (T \ {x}) /\ (v \ {Pick(v)}) \in SUBSET u
          OBVIOUS
        <5>2. \A v \in SUBSET u : h[v] = IF v = {} THEN 0 ELSE f[Pick(v)] + h[v \ {Pick(v)}]
          BY <3>2, <5>1 DEF IsSumOf
        <5> QED BY <5>1, <5>2 DEF IsSumOf
      <4>2. IsSumOf(CHOOSE k : IsSumOf(k, f, u), f, u)
        BY <4>1
      <4>3. IsFiniteSet(u)
        BY FS_Subset
      <4> HIDE DEF g
      <4> QED BY <3>2, <4>2, <4>3, SumUnique
    <3>4. h[s] = IF s = {} THEN 0 ELSE f[Pick(s)] + h[s \ {Pick(s)}]
      BY <3>1, <3>2 DEF IsSumOf
    <3>5. s \ {Pick(s)} \in SUBSET (T \ {x})
      BY <3>1
    <3> HIDE DEF sum
    <3>6. g[s] = h[s]
      BY <3>3, <3>4, <3>5
    <3> QED BY <3>1, <3>3, <3>6
  <2>2. ASSUME NEW s \in SUBSET T, s # {} PROVE g[s \ {Pick(s)}] = sum(s \ {Pick(s)})
    <3>1. s \ {Pick(s)} # T /\ s \ {Pick(s)} \in SUBSET T
      BY <2>2, PickIn
    <3> HIDE DEF g, sum
    <3> QED BY <2>1, <3>1
  <2> HIDE DEF sum
  <2>3. IsSumOf(g, f, T)
    BY <2>2 DEF IsSumOf
  <2> QED BY <2>3
<1>3. S \in Good
  <2> HIDE DEF Good
  <2> QED BY <1>1, <1>2, SetInduction
<1> QED BY <1>3

\* The recursion, unfolded.
LEMMA SumEquation ==
  ASSUME NEW f, NEW S, IsFiniteSet(S)
  PROVE  SumFunctionOnSet(f, S) =
           IF S = {} THEN 0 ELSE f[Pick(S)] + SumFunctionOnSet(f, S \ {Pick(S)})
<1>1. PICK g : IsSumOf(g, f, S) /\ SumFunctionOnSet(f, S) = g[S]
  BY SumExists, SumIsChoice
<1>2. PICK R : R = S \ {Pick(S)}
  OBVIOUS
<1>3. IsFiniteSet(R) /\ R \subseteq S /\ R \subseteq R
  BY <1>2, FS_Subset
<1>4. PICK h : IsSumOf(h, f, R) /\ SumFunctionOnSet(f, R) = h[R]
  BY <1>3, SumExists, SumIsChoice
<1>5. g[R] = h[R]
  BY <1>1, <1>3, <1>4, SumUnique
<1>6. g[S] = IF S = {} THEN 0 ELSE f[Pick(S)] + g[R]
  BY <1>1, <1>2, <1>3 DEF IsSumOf
<1> QED BY <1>1, <1>2, <1>4, <1>5, <1>6

\* Quotient and remainder.
LEMMA DivMod ==
  ASSUME NEW a \in Int, NEW M \in Nat \ {0}
  PROVE  a % M \in Int /\ 0 <= a % M /\ a % M < M /\ a \div M \in Int /\ a = M * (a \div M) + (a % M)
  OBVIOUS

\* Multiples are numbers, and next to each other M apart.
LEMMA Times ==
  ASSUME NEW a \in Int, NEW b \in Int, NEW c \in Int
  PROVE  /\ a * b \in Int /\ a * (b + c) = a * b + a * c /\ a * (b - c) = a * b - a * c
         /\ a * b = b * a /\ (b + c) * a = b * a + c * a
  OBVIOUS

\* A number has one quotient and one remainder.
LEMMA RemainderUnique ==
  ASSUME NEW M \in Nat \ {0}, NEW p \in Int, NEW q \in Int, NEW r \in Int, NEW s \in Int,
         0 <= r, r < M, 0 <= s, s < M, M * p + r = M * q + s
  PROVE  r = s
<1>1. M * (p - q) = s - r
  BY Times
<1>2. CASE p - q >= 1
  <2>1. M * (p - q) >= M
    BY <1>2
  <2> QED BY <1>1, <2>1
<1>3. CASE p - q <= -1
  <2>1. M * (p - q) <= -M
    BY <1>3
  <2> QED BY <1>1, <2>1
<1>4. CASE p = q
  BY <1>4
<1> QED BY <1>2, <1>3, <1>4

\* Equal remainders are a multiple of M apart.
LEMMA ModEqual ==
  ASSUME NEW a \in Int, NEW b \in Int, NEW M \in Nat \ {0}
  PROVE  a % M = b % M <=> \E q \in Int : a = b + M * q
<1> DEFINE x == a \div M
           y == b \div M
<1>1. /\ a % M \in Int /\ 0 <= a % M /\ a % M < M /\ x \in Int /\ a = M * x + (a % M)
      /\ b % M \in Int /\ 0 <= b % M /\ b % M < M /\ y \in Int /\ b = M * y + (b % M)
  BY DivMod
<1> HIDE DEF x, y
<1>2. ASSUME a % M = b % M PROVE \E q \in Int : a = b + M * q
  <2>1. x - y \in Int /\ M * (x - y) = M * x - M * y /\ M * x \in Int /\ M * y \in Int
    BY <1>1, Times
  <2>2. a = b + M * (x - y)
    BY <1>1, <1>2, <2>1
  <2> QED BY <2>1, <2>2
<1>3. ASSUME NEW q \in Int, a = b + M * q PROVE a % M = b % M
  <2>1. y + q \in Int /\ M * (y + q) = M * y + M * q /\ M * y \in Int /\ M * q \in Int
    BY <1>1, Times
  <2>2. M * x + (a % M) = M * (y + q) + (b % M)
    BY <1>1, <1>3, <2>1
  <2> QED BY <1>1, <2>1, <2>2, RemainderUnique
<1> QED BY <1>2, <1>3

Congruent(a, b, M) == a % M = b % M

LEMMA CongruentIff ==
  ASSUME NEW a \in Int, NEW b \in Int, NEW M \in Nat \ {0}
  PROVE  Congruent(a, b, M) <=> \E q \in Int : a = b + M * q
  BY ModEqual DEF Congruent

\* Remainders may be taken before adding.
LEMMA CongruentPlus ==
  ASSUME NEW a \in Int, NEW b \in Int, NEW c \in Int, NEW d \in Int, NEW M \in Nat \ {0},
         Congruent(a, b, M), Congruent(c, d, M)
  PROVE  Congruent(a + c, b + d, M)
<1>1. PICK p \in Int : a = b + M * p
  BY CongruentIff
<1>2. PICK q \in Int : c = d + M * q
  BY CongruentIff
<1>3. PICK x \in Int, y \in Int, z \in Int : x = a + c /\ y = b + d /\ z = p + q
  OBVIOUS
<1>4. M * z = M * p + M * q /\ M * p \in Int /\ M * q \in Int
  BY <1>3, Times
<1>5. x = y + M * z
  BY <1>1, <1>2, <1>3, <1>4
<1>6. \E n \in Int : x = y + M * n
  BY <1>5
<1>7. Congruent(x, y, M)
  BY <1>6, CongruentIff
<1> QED BY <1>3, <1>7

\* A number and its remainder.
LEMMA CongruentMod ==
  ASSUME NEW a \in Int, NEW M \in Nat \ {0}
  PROVE  a % M \in Int /\ Congruent(a % M, a, M) /\ Congruent(a, a % M, M)
<1>1. a % M \in Int /\ a \div M \in Int /\ -(a \div M) \in Int /\ a = M * (a \div M) + (a % M)
  BY DivMod
<1>2. M * (-(a \div M)) = -(M * (a \div M)) /\ M * (a \div M) \in Int
  BY <1>1
<1>3. a % M = a + M * (-(a \div M))
  BY <1>1, <1>2
<1>4. (a % M) % M = a % M
  BY <1>1, <1>3, ModEqual
<1> QED BY <1>1, <1>4 DEF Congruent

\* A remainder is no more than its number.
LEMMA ModLe ==
  ASSUME NEW a \in Nat, NEW M \in Nat \ {0}
  PROVE  a % M \in Nat /\ a % M <= a
<1>1. a % M \in Int /\ 0 <= a % M /\ a % M < M /\ a \div M \in Int /\ a = M * (a \div M) + (a % M)
  BY DivMod
<1>2. a \div M >= 0
  <2>1. SUFFICES ASSUME a \div M <= -1 PROVE FALSE
    BY <1>1
  <2>2. M * (a \div M) <= -M
    BY <1>1, <2>1
  <2> QED BY <1>1, <2>2
<1>3. M * (a \div M) >= 0
  BY <1>1, <1>2
<1> QED BY <1>1, <1>3

-----------------------------------------------------------------------------
(* Sums. *)

LEMMA SumEmpty == \A f : SumFunctionOnSet(f, {}) = 0
  BY SumEquation, FS_EmptySet

\* A sum of integers is an integer.
LEMMA SumType ==
  ASSUME NEW S, IsFiniteSet(S), NEW f, \A x \in S : f[x] \in Int
  PROVE  SumFunctionOnSet(f, S) \in Int
<1> DEFINE Good == {T \in SUBSET S : SumFunctionOnSet(f, T) \in Int}
<1>1. {} \in Good
  BY SumEmpty
<1>2. ASSUME NEW T \in SUBSET S, T # {}, \A x \in T : T \ {x} \in Good PROVE T \in Good
  <2>1. Pick(T) \in T /\ IsFiniteSet(T)
    BY <1>2, PickIn, FS_Subset
  <2>2. SumFunctionOnSet(f, T) = f[Pick(T)] + SumFunctionOnSet(f, T \ {Pick(T)})
    BY <1>2, <2>1, SumEquation
  <2> QED BY <1>2, <2>1, <2>2
<1>3. S \in Good
  <2> HIDE DEF Good
  <2> QED BY <1>1, <1>2, SetInduction
<1> QED BY <1>3

\* A sum is any of its terms and the sum of the others.
LEMMA SumSplit ==
  ASSUME NEW S, IsFiniteSet(S), NEW f, \A x \in S : f[x] \in Int
  PROVE  \A x \in S : SumFunctionOnSet(f, S) = f[x] + SumFunctionOnSet(f, S \ {x})
<1> DEFINE Good == {T \in SUBSET S : \A x \in T : SumFunctionOnSet(f, T) = f[x] + SumFunctionOnSet(f, T \ {x})}
<1>1. {} \in Good
  OBVIOUS
<1>2. ASSUME NEW T \in SUBSET S, T # {}, \A x \in T : T \ {x} \in Good PROVE T \in Good
  <2>1. PICK y : y = Pick(T)
    OBVIOUS
  <2>2. y \in T /\ IsFiniteSet(T)
    BY <1>2, <2>1, PickIn, FS_Subset
  <2>3. SumFunctionOnSet(f, T) = f[y] + SumFunctionOnSet(f, T \ {y})
    BY <1>2, <2>1, <2>2, SumEquation
  <2>4. ASSUME NEW x \in T, x # y PROVE SumFunctionOnSet(f, T) = f[x] + SumFunctionOnSet(f, T \ {x})
    <3>1. PICK R : R = (T \ {y}) \ {x} /\ R = (T \ {x}) \ {y}
      OBVIOUS
    <3>2. SumFunctionOnSet(f, T \ {y}) = f[x] + SumFunctionOnSet(f, R)
      BY <1>2, <2>2, <2>4, <3>1
    <3>3. SumFunctionOnSet(f, T \ {x}) = f[y] + SumFunctionOnSet(f, R)
      BY <1>2, <2>2, <2>4, <3>1
    <3>4. SumFunctionOnSet(f, R) \in Int
      <4>1. IsFiniteSet(R) /\ \A z \in R : f[z] \in Int
        BY <2>2, <3>1, FS_Subset
      <4> QED BY <4>1, SumType
    <3>5. f[x] \in Int /\ f[y] \in Int
      BY <2>2, <2>4
    <3> HIDE DEF Good
    <3> QED BY <2>3, <3>2, <3>3, <3>4, <3>5
  <2> QED BY <2>3, <2>4
<1>3. S \in Good
  <2> HIDE DEF Good
  <2> QED BY <1>1, <1>2, SetInduction
<1> QED BY <1>3

\* A sum of natural numbers is a natural number.
LEMMA SumNat ==
  ASSUME NEW S, IsFiniteSet(S), NEW f, \A x \in S : f[x] \in Nat
  PROVE  SumFunctionOnSet(f, S) \in Nat
<1> DEFINE Good == {T \in SUBSET S : SumFunctionOnSet(f, T) \in Nat}
<1>1. {} \in Good
  BY SumEmpty
<1>2. ASSUME NEW T \in SUBSET S, T # {}, \A x \in T : T \ {x} \in Good PROVE T \in Good
  <2>1. PICK x \in T : TRUE
    BY <1>2
  <2>2. IsFiniteSet(T) /\ IsFiniteSet(T \ {x}) /\ T \ {x} \in SUBSET S
    BY FS_Subset
  <2>3. SumFunctionOnSet(f, T) = f[x] + SumFunctionOnSet(f, T \ {x})
    BY <2>2, SumSplit
  <2> QED BY <1>2, <2>1, <2>3
<1>3. S \in Good
  <2> HIDE DEF Good
  <2> QED BY <1>1, <1>2, SetInduction
<1> QED BY <1>3

\* A sum of natural numbers is at least each of its terms.
LEMMA SumMember ==
  ASSUME NEW S, IsFiniteSet(S), NEW f, \A x \in S : f[x] \in Nat
  PROVE  \A x \in S : f[x] <= SumFunctionOnSet(f, S)
<1> SUFFICES ASSUME NEW x \in S PROVE f[x] <= SumFunctionOnSet(f, S)
  OBVIOUS
<1>1. SumFunctionOnSet(f, S) = f[x] + SumFunctionOnSet(f, S \ {x})
  BY SumSplit
<1>2. IsFiniteSet(S \ {x})
  BY FS_Subset
<1>3. SumFunctionOnSet(f, S \ {x}) \in Nat
  BY <1>2, SumNat
<1> QED BY <1>1, <1>3

\* Terms that are not more make a sum that is not more.
LEMMA SumLe ==
  ASSUME NEW S, IsFiniteSet(S), NEW f, NEW g,
         \A x \in S : f[x] \in Int /\ g[x] \in Int /\ f[x] <= g[x]
  PROVE  SumFunctionOnSet(f, S) <= SumFunctionOnSet(g, S)
<1> DEFINE Good == {T \in SUBSET S : SumFunctionOnSet(f, T) <= SumFunctionOnSet(g, T)}
<1>1. {} \in Good
  BY SumEmpty
<1>2. ASSUME NEW T \in SUBSET S, T # {}, \A x \in T : T \ {x} \in Good PROVE T \in Good
  <2>1. PICK x \in T : TRUE
    BY <1>2
  <2>2. IsFiniteSet(T) /\ IsFiniteSet(T \ {x}) /\ T \ {x} \in SUBSET S
    BY FS_Subset
  <2>3. SumFunctionOnSet(f, T) = f[x] + SumFunctionOnSet(f, T \ {x})
    BY <2>2, SumSplit
  <2>4. SumFunctionOnSet(g, T) = g[x] + SumFunctionOnSet(g, T \ {x})
    BY <2>2, SumSplit
  <2>5. SumFunctionOnSet(f, T \ {x}) \in Int /\ SumFunctionOnSet(g, T \ {x}) \in Int
    BY <2>2, SumType
  <2>6. SumFunctionOnSet(f, T \ {x}) <= SumFunctionOnSet(g, T \ {x})
    BY <1>2
  <2> QED BY <2>3, <2>4, <2>5, <2>6
<1>3. S \in Good
  <2> HIDE DEF Good
  <2> QED BY <1>1, <1>2, SetInduction
<1> QED BY <1>3

\* Equal terms make equal sums.
LEMMA SumSame ==
  ASSUME NEW S, IsFiniteSet(S), NEW f, NEW g,
         \A x \in S : f[x] \in Int /\ f[x] = g[x]
  PROVE  SumFunctionOnSet(f, S) = SumFunctionOnSet(g, S)
<1> DEFINE Good == {T \in SUBSET S : SumFunctionOnSet(f, T) = SumFunctionOnSet(g, T)}
<1>1. {} \in Good
  BY SumEmpty
<1>2. ASSUME NEW T \in SUBSET S, T # {}, \A x \in T : T \ {x} \in Good PROVE T \in Good
  <2>1. PICK x \in T : TRUE
    BY <1>2
  <2>2. IsFiniteSet(T) /\ IsFiniteSet(T \ {x}) /\ T \ {x} \in SUBSET S
    BY FS_Subset
  <2>3. SumFunctionOnSet(f, T) = f[x] + SumFunctionOnSet(f, T \ {x})
    BY <2>2, SumSplit
  <2>4. SumFunctionOnSet(g, T) = g[x] + SumFunctionOnSet(g, T \ {x})
    BY <2>2, SumSplit
  <2>5. SumFunctionOnSet(f, T \ {x}) = SumFunctionOnSet(g, T \ {x})
    BY <1>2
  <2> QED BY <2>3, <2>4, <2>5
<1>3. S \in Good
  <2> HIDE DEF Good
  <2> QED BY <1>1, <1>2, SetInduction
<1> QED BY <1>3

\* The sums of two functions add up to the sum of their sum.
LEMMA SumPlus ==
  ASSUME NEW S, IsFiniteSet(S), NEW f, NEW g, NEW h,
         \A x \in S : f[x] \in Int /\ g[x] \in Int /\ h[x] = f[x] + g[x]
  PROVE  SumFunctionOnSet(h, S) = SumFunctionOnSet(f, S) + SumFunctionOnSet(g, S)
<1> DEFINE Good == {T \in SUBSET S : SumFunctionOnSet(h, T) = SumFunctionOnSet(f, T) + SumFunctionOnSet(g, T)}
<1>1. {} \in Good
  BY SumEmpty
<1>2. ASSUME NEW T \in SUBSET S, T # {}, \A x \in T : T \ {x} \in Good PROVE T \in Good
  <2>1. PICK x \in T : TRUE
    BY <1>2
  <2>2. IsFiniteSet(T) /\ IsFiniteSet(T \ {x}) /\ T \ {x} \in SUBSET S
    BY FS_Subset
  <2>3. SumFunctionOnSet(f, T) = f[x] + SumFunctionOnSet(f, T \ {x})
    BY <2>2, SumSplit
  <2>4. SumFunctionOnSet(g, T) = g[x] + SumFunctionOnSet(g, T \ {x})
    BY <2>2, SumSplit
  <2>5. SumFunctionOnSet(h, T) = h[x] + SumFunctionOnSet(h, T \ {x})
    BY <2>2, SumSplit
  <2>6. SumFunctionOnSet(f, T \ {x}) \in Int /\ SumFunctionOnSet(g, T \ {x}) \in Int
    BY <2>2, SumType
  <2>7. SumFunctionOnSet(h, T \ {x}) = SumFunctionOnSet(f, T \ {x}) + SumFunctionOnSet(g, T \ {x})
    BY <1>2
  <2>8. f[x] \in Int /\ g[x] \in Int /\ h[x] = f[x] + g[x]
    OBVIOUS
  <2> HIDE DEF Good
  <2>9. SumFunctionOnSet(h, T) = SumFunctionOnSet(f, T) + SumFunctionOnSet(g, T)
    BY <2>3, <2>4, <2>5, <2>6, <2>7, <2>8
  <2> QED BY <2>9 DEF Good
<1>3. S \in Good
  <2> HIDE DEF Good
  <2> QED BY <1>1, <1>2, SetInduction
<1> QED BY <1>3

\* Terms that are the same modulo M make sums that are.
LEMMA SumMod ==
  ASSUME NEW S, IsFiniteSet(S), NEW f, NEW g, NEW M \in Nat \ {0},
         \A x \in S : f[x] \in Int /\ g[x] \in Int /\ Congruent(f[x], g[x], M)
  PROVE  Congruent(SumFunctionOnSet(f, S), SumFunctionOnSet(g, S), M)
<1> DEFINE Good == {T \in SUBSET S : Congruent(SumFunctionOnSet(f, T), SumFunctionOnSet(g, T), M)}
<1>1. {} \in Good
  BY SumEmpty DEF Congruent
<1>2. ASSUME NEW T \in SUBSET S, T # {}, \A x \in T : T \ {x} \in Good PROVE T \in Good
  <2>1. PICK x \in T : TRUE
    BY <1>2
  <2>2. IsFiniteSet(T) /\ IsFiniteSet(T \ {x}) /\ T \ {x} \in SUBSET S
    BY FS_Subset
  <2>3. SumFunctionOnSet(f, T) = f[x] + SumFunctionOnSet(f, T \ {x})
    BY <2>2, SumSplit
  <2>4. SumFunctionOnSet(g, T) = g[x] + SumFunctionOnSet(g, T \ {x})
    BY <2>2, SumSplit
  <2>5. SumFunctionOnSet(f, T \ {x}) \in Int /\ SumFunctionOnSet(g, T \ {x}) \in Int
    BY <2>2, SumType
  <2>6. Congruent(SumFunctionOnSet(f, T \ {x}), SumFunctionOnSet(g, T \ {x}), M)
    BY <1>2
  <2>7. f[x] \in Int /\ g[x] \in Int /\ Congruent(f[x], g[x], M)
    OBVIOUS
  <2> HIDE DEF Good
  <2>8. Congruent(f[x] + SumFunctionOnSet(f, T \ {x}), g[x] + SumFunctionOnSet(g, T \ {x}), M)
    BY <2>5, <2>6, <2>7, CongruentPlus
  <2> QED BY <2>3, <2>4, <2>8 DEF Good
<1>3. S \in Good
  <2> HIDE DEF Good
  <2> QED BY <1>1, <1>2, SetInduction
<1> QED BY <1>3

\* One term changes.
OneDiffers(S, f, g, x) ==
  /\ IsFiniteSet(S) /\ x \in S
  /\ \A y \in S : f[y] \in Int /\ g[y] \in Int
  /\ \A y \in S \ {x} : g[y] = f[y]

LEMMA SumChange ==
  ASSUME NEW S, NEW f, NEW g, NEW x, OneDiffers(S, f, g, x)
  PROVE  SumFunctionOnSet(g, S) = SumFunctionOnSet(f, S) - f[x] + g[x]
<1> USE DEF OneDiffers
<1>1. SumFunctionOnSet(f, S) = f[x] + SumFunctionOnSet(f, S \ {x})
  BY SumSplit
<1>2. SumFunctionOnSet(g, S) = g[x] + SumFunctionOnSet(g, S \ {x})
  BY SumSplit
<1>3. IsFiniteSet(S \ {x})
  BY FS_Subset
<1>4. SumFunctionOnSet(g, S \ {x}) = SumFunctionOnSet(f, S \ {x})
  BY <1>3, SumSame
<1>5. SumFunctionOnSet(f, S \ {x}) \in Int
  BY <1>3, SumType
<1> QED BY <1>1, <1>2, <1>4, <1>5

\* Nothing adds up to nothing.
LEMMA SumZero ==
  ASSUME NEW S, IsFiniteSet(S), NEW f, \A x \in S : f[x] = 0
  PROVE  SumFunctionOnSet(f, S) = 0
<1> DEFINE Good == {T \in SUBSET S : SumFunctionOnSet(f, T) = 0}
<1>1. {} \in Good
  BY SumEmpty
<1>2. ASSUME NEW T \in SUBSET S, T # {}, \A x \in T : T \ {x} \in Good PROVE T \in Good
  <2>1. PICK x \in T : TRUE
    BY <1>2
  <2>2. IsFiniteSet(T) /\ IsFiniteSet(T \ {x}) /\ T \ {x} \in SUBSET S
    BY FS_Subset
  <2>3. SumFunctionOnSet(f, T) = f[x] + SumFunctionOnSet(f, T \ {x})
    BY <2>2, SumSplit
  <2> QED BY <1>2, <2>1, <2>3
<1>3. S \in Good
  <2> HIDE DEF Good
  <2> QED BY <1>1, <1>2, SetInduction
<1> QED BY <1>3

\* The same number for the members of a set adds up to as many times the number.
EqualTerms(S, U, w, f) ==
  IsFiniteSet(S) /\ w \in Nat /\ \A x \in S : f[x] = IF x \in U THEN w ELSE 0

LEMMA SumOfEqual ==
  ASSUME NEW S, NEW U, NEW w, NEW f, EqualTerms(S, U, w, f)
  PROVE  SumFunctionOnSet(f, S) = Cardinality(S \cap U) * w
<1> USE DEF EqualTerms
<1> DEFINE Good == {T \in SUBSET S : SumFunctionOnSet(f, T) = Cardinality(T \cap U) * w}
<1>1. {} \in Good
  BY SumEmpty, FS_EmptySet
<1>2. ASSUME NEW T \in SUBSET S, T # {}, \A x \in T : T \ {x} \in Good PROVE T \in Good
  <2>1. PICK x \in T : TRUE
    BY <1>2
  <2>2. IsFiniteSet(T) /\ IsFiniteSet(T \ {x}) /\ T \ {x} \in SUBSET S
    BY FS_Subset
  <2>3. SumFunctionOnSet(f, T) = f[x] + SumFunctionOnSet(f, T \ {x})
    BY <2>2, SumSplit
  <2>4. SumFunctionOnSet(f, T \ {x}) = Cardinality((T \ {x}) \cap U) * w
    BY <1>2
  <2> HIDE DEF Good
  <2>5. PICK R : R = T \cap U /\ R \ {x} = (T \ {x}) \cap U
    OBVIOUS
  <2>6. IsFiniteSet(R) /\ IsFiniteSet(R \ {x}) /\ Cardinality(R) \in Nat
    BY <2>2, <2>5, FS_Subset, FS_CardinalityType
  <2>7. SumFunctionOnSet(f, T) = Cardinality(R) * w
    <3>1. CASE x \notin U
      <4>1. R \ {x} = R /\ f[x] = 0
        BY <2>5, <3>1
      <4>2. SumFunctionOnSet(f, T \ {x}) = Cardinality(R) * w
        BY <2>4, <2>5, <4>1
      <4>3. Cardinality(R) * w \in Int
        BY <2>6
      <4> QED BY <2>3, <4>1, <4>2, <4>3
    <3>2. CASE x \in U
      <4>1. x \in R /\ f[x] = w
        BY <2>5, <3>2
      <4>2. Cardinality(R \ {x}) = Cardinality(R) - 1
        BY <2>6, <4>1, FS_RemoveElement
      <4>3. SumFunctionOnSet(f, T \ {x}) = (Cardinality(R) - 1) * w
        BY <2>4, <2>5, <4>2
      <4>4. (Cardinality(R) - 1) * w = Cardinality(R) * w - w /\ Cardinality(R) * w \in Int
        BY <2>6
      <4> QED BY <2>3, <4>1, <4>3, <4>4
    <3> QED BY <3>1, <3>2
  <2> QED BY <2>5, <2>7 DEF Good
<1>3. S \in Good
  <2> HIDE DEF Good
  <2> QED BY <1>1, <1>2, SetInduction
<1> QED BY <1>3

-----------------------------------------------------------------------------
(* Powers of 2 and quotients.                                              *)

\* Powers of 2 count subsets.
LEMMA PowerCounts ==
  ASSUME NEW S, IsFiniteSet(S)
  PROVE  /\ IsFiniteSet(SUBSET S) /\ Cardinality(SUBSET S) = 2 ^ Cardinality(S)
         /\ 2 ^ Cardinality(S) \in Nat \ {0}
         /\ S # {} => 2 ^ Cardinality(S) # 1
<1>1. IsFiniteSet(SUBSET S) /\ Cardinality(SUBSET S) = 2 ^ Cardinality(S)
  BY FS_SUBSET
<1>2. Cardinality(SUBSET S) \in Nat /\ Cardinality(SUBSET S) # 0
  BY <1>1, FS_CardinalityType, FS_EmptySet
<1>3. ASSUME S # {}, Cardinality(SUBSET S) = 1 PROVE FALSE
  <2>1. PICK x : SUBSET S = {x}
    BY <1>1, <1>3, FS_Singleton
  <2>2. {} \in SUBSET S /\ S \in SUBSET S
    OBVIOUS
  <2> QED BY <1>3, <2>1, <2>2
<1> QED BY <1>1, <1>2, <1>3

\* A power of 2 is positive, and more than 1 but for the first.
LEMMA PowerType ==
  ASSUME NEW n \in Nat
  PROVE  2 ^ n \in Nat \ {0} /\ (n # 0 => 2 ^ n # 1)
<1>1. IsFiniteSet(1 .. n) /\ Cardinality(1 .. n) = n
  BY FS_Interval
<1>2. n # 0 => 1 .. n # {}
  OBVIOUS
<1> QED BY <1>1, <1>2, PowerCounts

\* The subsets of two sets apart are the subsets of both, put together.
LEMMA PowerPlus ==
  ASSUME NEW a \in Nat, NEW b \in Nat
  PROVE  2 ^ (a + b) = 2 ^ a * 2 ^ b
<1> DEFINE A == 1 .. a
           B == (a + 1) .. (a + b)
           C == 1 .. (a + b)
           join == [p \in (SUBSET A) \X (SUBSET B) |-> p[1] \cup p[2]]
<1>1. /\ IsFiniteSet(A) /\ Cardinality(A) = a
      /\ IsFiniteSet(C) /\ Cardinality(C) = a + b
  <2>1. \A n \in Nat : IsFiniteSet(1 .. n) /\ Cardinality(1 .. n) = n
    BY FS_Interval
  <2>2. a + b \in Nat
    OBVIOUS
  <2> QED BY <2>1, <2>2
<1>2. IsFiniteSet(B) /\ Cardinality(B) = b
  <2>1. /\ IsFiniteSet((a + 1) .. (a + b))
        /\ Cardinality((a + 1) .. (a + b)) = IF a + 1 > a + b THEN 0 ELSE (a + b) - (a + 1) + 1
    BY FS_Interval
  <2> QED BY <2>1
<1>3. A \cup B = C /\ A \cap B = {}
  OBVIOUS
<1> HIDE DEF A, B, C
<1>4. join \in [(SUBSET A) \X (SUBSET B) -> SUBSET C]
  BY <1>3
<1>5. ASSUME NEW p \in (SUBSET A) \X (SUBSET B), NEW q \in (SUBSET A) \X (SUBSET B),
             join[p] = join[q]
      PROVE  p = q
  <2>1. p[1] \cup p[2] = q[1] \cup q[2]
    BY <1>5
  <2>2. p[1] = (p[1] \cup p[2]) \cap A /\ q[1] = (q[1] \cup q[2]) \cap A
    BY <1>3
  <2>3. p[2] = (p[1] \cup p[2]) \cap B /\ q[2] = (q[1] \cup q[2]) \cap B
    BY <1>3
  <2> QED BY <2>1, <2>2, <2>3
<1>6. ASSUME NEW s \in SUBSET C
      PROVE  \E p \in (SUBSET A) \X (SUBSET B) : join[p] = s
  <2>1. <<s \cap A, s \cap B>> \in (SUBSET A) \X (SUBSET B)
    OBVIOUS
  <2>2. join[<<s \cap A, s \cap B>>] = (s \cap A) \cup (s \cap B)
    BY <2>1
  <2> QED BY <1>3, <2>1, <2>2
<1> HIDE DEF join
<1>7. join \in Bijection((SUBSET A) \X (SUBSET B), SUBSET C)
  BY <1>4, <1>5, <1>6, Fun_IsBij
<1>8. /\ IsFiniteSet(SUBSET A) /\ Cardinality(SUBSET A) = 2 ^ a
      /\ IsFiniteSet(SUBSET B) /\ Cardinality(SUBSET B) = 2 ^ b
      /\ Cardinality(SUBSET C) = 2 ^ (a + b)
  BY <1>1, <1>2, PowerCounts
<1>9. /\ IsFiniteSet((SUBSET A) \X (SUBSET B))
      /\ Cardinality((SUBSET A) \X (SUBSET B)) = 2 ^ a * 2 ^ b
  BY <1>8, FS_Product
<1> QED BY <1>7, <1>8, <1>9, FS_Bijection DEF ExistsBijection

\* Multiples of one number that are equal are of one number.
LEMMA Cancel ==
  ASSUME NEW M \in Nat \ {0}, NEW a \in Int, NEW b \in Int
  PROVE  /\ M * a = M * b => a = b
         /\ a < b <=> M * a < M * b
         /\ a < b => M * a + M <= M * b
<1>1. M * (b - a) = M * b - M * a /\ M * a \in Int /\ M * b \in Int
  BY Times
<1>2. ASSUME a < b PROVE M * a + M <= M * b
  <2>1. M * (b - a) >= M
    BY <1>2
  <2> QED BY <1>1, <2>1
<1>3. ASSUME b < a PROVE M * b + M <= M * a
  <2>1. M * (b - a) <= -M
    BY <1>3
  <2> QED BY <1>1, <2>1
<1>4. CASE a < b
  BY <1>1, <1>2, <1>4
<1>5. CASE b < a
  BY <1>1, <1>3, <1>5
<1>6. CASE a = b
  BY <1>1, <1>6
<1> QED BY <1>4, <1>5, <1>6

\* Numbers of one quotient are those that lie between its multiple and the next.
LEMMA SameQuotient ==
  ASSUME NEW M \in Nat \ {0}, NEW x \in Int, NEW y \in Int
  PROVE  (y - (y % M) <= x /\ x <= y - (y % M) + M - 1) <=> x \div M = y \div M
<1> DEFINE a == x \div M
           b == y \div M
           r == x % M
           s == y % M
<1>1. /\ r \in Int /\ 0 <= r /\ r < M /\ a \in Int /\ x = M * a + r
      /\ s \in Int /\ 0 <= s /\ s < M /\ b \in Int /\ y = M * b + s
  BY DivMod
<1> HIDE DEF a, b, r, s
<1>2. M * a \in Int /\ M * b \in Int
  BY <1>1, Times
<1>3. y - s = M * b
  BY <1>1, <1>2
<1>4. (M * b <= M * a + r /\ M * a + r <= M * b + M - 1) <=> a = b
  BY <1>1, <1>2, Cancel
<1> QED BY <1>1, <1>3, <1>4 DEF a, b, s

\* A number below M is its own remainder.
LEMMA Small ==
  ASSUME NEW M \in Nat \ {0}, NEW x \in Nat, x < M
  PROVE  x % M = x /\ x \div M = 0
<1>1. x % M \in Int /\ 0 <= x % M /\ x % M < M /\ x \div M \in Int /\ x = M * (x \div M) + (x % M)
  BY DivMod
<1>2. PICK q \in Int, r \in Int : q = x \div M /\ r = x % M
  BY <1>1
<1>3. M * q \in Int /\ M * 0 = 0 /\ M * 1 = M /\ M * (-1) = -M
  BY Times
<1>4. ~(q < 0) /\ ~(0 < q)
  BY <1>1, <1>2, <1>3, Cancel
<1> QED BY <1>1, <1>2, <1>3, <1>4

\* A set of numbers has a last one.
LEMMA LastOf ==
  ASSUME NEW S, IsFiniteSet(S), S \subseteq Int, S # {}
  PROVE  \E x \in S : \A y \in S : y <= x
<1> DEFINE Good == {T \in SUBSET S : T = {} \/ \E x \in T : \A y \in T : y <= x}
<1>1. {} \in Good
  OBVIOUS
<1>2. ASSUME NEW T \in SUBSET S, T # {}, \A x \in T : T \ {x} \in Good PROVE T \in Good
  <2>1. PICK x \in T : TRUE
    BY <1>2
  <2>2. CASE T \ {x} = {}
    BY <2>2
  <2>3. CASE T \ {x} # {}
    <3>1. PICK z \in T \ {x} : \A y \in T \ {x} : y <= z
      BY <1>2, <2>3
    <3> QED BY <3>1
  <2> QED BY <2>2, <2>3
<1> HIDE DEF Good
<1>3. S \in Good
  BY <1>1, <1>2, SetInduction
<1> QED BY <1>3 DEF Good

\* A set of numbers has a first one.
LEMMA FirstOf ==
  ASSUME NEW S, IsFiniteSet(S), S \subseteq Int, S # {}
  PROVE  \E x \in S : \A y \in S : x <= y
<1> DEFINE Good == {T \in SUBSET S : T = {} \/ \E x \in T : \A y \in T : x <= y}
<1>1. {} \in Good
  OBVIOUS
<1>2. ASSUME NEW T \in SUBSET S, T # {}, \A x \in T : T \ {x} \in Good PROVE T \in Good
  <2>1. PICK x \in T : TRUE
    BY <1>2
  <2>2. CASE T \ {x} = {}
    BY <2>2
  <2>3. CASE T \ {x} # {}
    <3>1. PICK z \in T \ {x} : \A y \in T \ {x} : z <= y
      BY <1>2, <2>3
    <3> QED BY <3>1
  <2> QED BY <2>2, <2>3
<1> HIDE DEF Good
<1>3. S \in Good
  BY <1>1, <1>2, SetInduction
<1> QED BY <1>3 DEF Good

\* It has a k-th one, for each k up to how many there are.
UpToHere(S, i) == {j \in S : j <= i}

LEMMA NthOf ==
  ASSUME NEW S, IsFiniteSet(S), S \subseteq Int
  PROVE  /\ Cardinality(S) \in Nat
         /\ \A k \in 1 .. Cardinality(S) : \E i \in S : Cardinality(UpToHere(S, i)) = k
<1> DEFINE Good == {T \in SUBSET S : \A k \in 1 .. Cardinality(T) :
                                       \E i \in T : Cardinality(UpToHere(T, i)) = k}
<1>1. {} \in Good
  <2>1. Cardinality({}) = 0
    BY FS_EmptySet
  <2> QED BY <2>1
<1>2. ASSUME NEW T \in SUBSET S, T # {}, \A x \in T : T \ {x} \in Good PROVE T \in Good
  <2>1. IsFiniteSet(T) /\ T \subseteq Int
    BY FS_Subset
  <2>2. PICK m \in T : \A y \in T : y <= m
    BY <1>2, <2>1, LastOf
  <2>3. PICK n \in Nat : n = Cardinality(T \ {m}) /\ Cardinality(T) = n + 1
    <3>1. Cardinality(T) \in Nat /\ Cardinality(T \ {m}) \in Nat
      BY <2>1, FS_CardinalityType, FS_RemoveElement
    <3>2. Cardinality(T \ {m}) = Cardinality(T) - 1
      BY <2>1, FS_RemoveElement
    <3> QED BY <3>1, <3>2
  <2>4. ASSUME NEW k \in 1 .. n + 1 PROVE \E i \in T : Cardinality(UpToHere(T, i)) = k
    <3>1. CASE k = n + 1
      <4>1. UpToHere(T, m) = T
        BY <2>2 DEF UpToHere
      <4> QED BY <2>3, <3>1, <4>1
    <3>2. CASE k # n + 1
      <4>1. k \in 1 .. n
        BY <3>2
      <4>2. \A x \in T : T \ {x} \in Good
        BY <1>2
      <4>3. PICK i \in T \ {m} : Cardinality(UpToHere(T \ {m}, i)) = k
        BY <2>3, <4>1, <4>2
      <4>4. i \in Int /\ m \in Int /\ i <= m /\ i # m
        BY <2>1, <2>2
      <4>5. UpToHere(T \ {m}, i) = UpToHere(T, i)
        BY <4>4 DEF UpToHere
      <4> QED BY <4>3, <4>5
    <3> QED BY <3>1, <3>2
  <2> QED BY <2>3, <2>4
<1> HIDE DEF Good
<1>3. S \in Good
  BY <1>1, <1>2, SetInduction
<1> QED BY <1>3, FS_CardinalityType DEF Good

\* What holds of 0 and passes on from each number to the next holds up to N.
LEMMA UpTo ==
  ASSUME NEW N \in Nat, NEW Good, 0 \in Good, \A n \in 0 .. N - 1 : n \in Good => n + 1 \in Good
  PROVE  0 .. N \subseteq Good
<1> DEFINE Reach == {n \in 0 .. N : 0 .. n \subseteq Good}
<1>1. IsFiniteSet(Reach) /\ Reach \subseteq Int
  <2>1. IsFiniteSet(0 .. N)
    BY FS_Interval
  <2> QED BY <2>1, FS_Subset
<1>2. 0 \in Reach
  OBVIOUS
<1>3. PICK x \in Reach : \A y \in Reach : y <= x
  <2> HIDE DEF Reach
  <2> QED BY <1>1, <1>2, LastOf
<1>4. CASE x = N
  BY <1>4
<1>5. CASE x # N
  <2>1. x \in 0 .. N - 1 /\ x + 1 \in Good
    BY <1>5
  <2>2. x + 1 \in Reach
    BY <2>1
  <2> QED BY <1>3, <2>2
<1> QED BY <1>4, <1>5

-----------------------------------------------------------------------------
(* Filtered sequences.                                                     *)

\* The recursion of Kept.
IsKept(f, n, item, mark) ==
  f = [i \in 0 .. n |->
        IF i = 0 THEN <<>> ELSE IF mark[i] THEN Append(f[i - 1], item[i]) ELSE f[i - 1]]

LEMMA KeptIsChoice ==
  ASSUME NEW n, NEW item, NEW mark
  PROVE  Kept(n, item, mark) = (CHOOSE f : IsKept(f, n, item, mark))[n]
  BY Zenon DEF Kept, IsKept

\* Two such functions agree where both are defined.
LEMMA KeptUnique ==
  ASSUME NEW item, NEW mark, NEW m \in Nat, NEW n \in Nat, NEW k \in Nat, k <= m, k <= n,
         NEW f, IsKept(f, m, item, mark), NEW g, IsKept(g, n, item, mark)
  PROVE  f[k] = g[k]
<1> DEFINE Good == {i \in 0 .. k : f[i] = g[i]}
<1>1. 0 \in Good
  BY DEF IsKept
<1>2. ASSUME NEW i \in 0 .. k - 1, i \in Good PROVE i + 1 \in Good
  <2>1. /\ i + 1 \in 0 .. m /\ i + 1 \in 0 .. n /\ i + 1 # 0 /\ (i + 1) - 1 = i
        /\ i + 1 \in 0 .. k
    OBVIOUS
  <2>2. f[i + 1] = IF mark[i + 1] THEN Append(f[i], item[i + 1]) ELSE f[i]
    BY <2>1 DEF IsKept
  <2>3. g[i + 1] = IF mark[i + 1] THEN Append(g[i], item[i + 1]) ELSE g[i]
    BY <2>1 DEF IsKept
  <2> QED BY <1>2, <2>1, <2>2, <2>3
<1> HIDE DEF Good
<1>3. 0 .. k \subseteq Good
  BY <1>1, <1>2, UpTo
<1> QED BY <1>3 DEF Good

\* There is such a function for every n.
LEMMA KeptExists ==
  ASSUME NEW item, NEW mark, NEW n \in Nat
  PROVE  \E f : IsKept(f, n, item, mark)
<1> DEFINE Good == {i \in 0 .. n : \E f : IsKept(f, i, item, mark)}
<1>1. 0 \in Good
  <2>1. IsKept([i \in 0 .. 0 |-> <<>>], 0, item, mark)
    BY DEF IsKept
  <2> QED BY <2>1
<1>2. ASSUME NEW i \in 0 .. n - 1, i \in Good PROVE i + 1 \in Good
  <2>1. PICK f : IsKept(f, i, item, mark)
    BY <1>2
  <2> DEFINE last == IF mark[i + 1] THEN Append(f[i], item[i + 1]) ELSE f[i]
             g == [j \in 0 .. i + 1 |-> IF j = i + 1 THEN last ELSE f[j]]
  <2>2. g[i + 1] = last /\ \A j \in 0 .. i : g[j] = f[j]
    OBVIOUS
  <2>3. \A j \in 0 .. i :
          f[j] = IF j = 0 THEN <<>> ELSE IF mark[j] THEN Append(f[j - 1], item[j]) ELSE f[j - 1]
    BY <2>1 DEF IsKept
  <2>4. \A j \in 0 .. i + 1 :
          g[j] = IF j = 0 THEN <<>> ELSE IF mark[j] THEN Append(g[j - 1], item[j]) ELSE g[j - 1]
    <3>1. (i + 1) - 1 = i /\ i \in 0 .. i /\ i + 1 # 0
      OBVIOUS
    <3>2. \A j \in 0 .. i : j = 0 \/ j - 1 \in 0 .. i
      OBVIOUS
    <3>3. \A j \in 0 .. i + 1 : j = i + 1 \/ j \in 0 .. i
      OBVIOUS
    <3> HIDE DEF g
    <3> QED BY <2>2, <2>3, <3>1, <3>2, <3>3
  <2>5. g = [j \in 0 .. i + 1 |->
              IF j = 0 THEN <<>> ELSE IF mark[j] THEN Append(g[j - 1], item[j]) ELSE g[j - 1]]
    <3>1. g = [j \in 0 .. i + 1 |-> g[j]]
      OBVIOUS
    <3> HIDE DEF g
    <3> QED BY <2>4, <3>1
  <2> HIDE DEF g
  <2>6. IsKept(g, i + 1, item, mark)
    BY <2>5, Zenon DEF IsKept
  <2> QED BY <2>6
<1> HIDE DEF Good
<1>3. 0 .. n \subseteq Good
  BY <1>1, <1>2, UpTo
<1> QED BY <1>3 DEF Good

\* Kept, item by item.
LEMMA KeptNext ==
  ASSUME NEW item, NEW mark
  PROVE  /\ Kept(0, item, mark) = <<>>
         /\ \A n \in Nat : Kept(n + 1, item, mark) =
              IF mark[n + 1] THEN Append(Kept(n, item, mark), item[n + 1]) ELSE Kept(n, item, mark)
<1> DEFINE it(n) == CHOOSE f : IsKept(f, n, item, mark)
<1>1. ASSUME NEW n \in Nat PROVE IsKept(it(n), n, item, mark) /\ Kept(n, item, mark) = it(n)[n]
  BY KeptExists, KeptIsChoice
<1>2. Kept(0, item, mark) = <<>>
  <2>1. IsKept(it(0), 0, item, mark) /\ Kept(0, item, mark) = it(0)[0]
    BY <1>1
  <2> HIDE DEF it
  <2>2. it(0)[0] = <<>>
    BY <2>1 DEF IsKept
  <2> QED BY <2>1, <2>2
<1>3. ASSUME NEW n \in Nat
      PROVE  Kept(n + 1, item, mark) =
               IF mark[n + 1] THEN Append(Kept(n, item, mark), item[n + 1]) ELSE Kept(n, item, mark)
  <2>1. PICK m \in Nat : m = n + 1 /\ m - 1 = n /\ m # 0
    OBVIOUS
  <2>2. /\ IsKept(it(n), n, item, mark) /\ Kept(n, item, mark) = it(n)[n]
        /\ IsKept(it(m), m, item, mark) /\ Kept(m, item, mark) = it(m)[m]
    BY <1>1
  <2> HIDE DEF it
  <2>3. it(m)[n] = it(n)[n]
    BY <2>1, <2>2, KeptUnique
  <2>4. it(m)[m] = IF mark[m] THEN Append(it(m)[m - 1], item[m]) ELSE it(m)[m - 1]
    <3>1. m \in 0 .. m
      OBVIOUS
    <3> QED BY <2>1, <2>2, <3>1 DEF IsKept
  <2> QED BY <2>1, <2>2, <2>3, <2>4
<1> QED BY <1>2, <1>3

\* What is kept of items of one set is a sequence of them.
AllIn(n, item, S) == \A i \in 1 .. n : item[i] \in S

LEMMA KeptType ==
  ASSUME NEW S, NEW n \in Nat, NEW item, NEW mark, AllIn(n, item, S)
  PROVE  Kept(n, item, mark) \in Seq(S)
<1> DEFINE Good == {i \in 0 .. n : Kept(i, item, mark) \in Seq(S)}
<1>1. 0 \in Good
  <2>0. 0 \in 0 .. n
    OBVIOUS
  <2>1. Kept(0, item, mark) = <<>> /\ <<>> \in Seq(S)
    BY KeptNext
  <2> QED BY <2>0, <2>1, Zenon
<1>2. ASSUME NEW i \in 0 .. n - 1, i \in Good PROVE i + 1 \in Good
  <2>1. i \in Nat /\ i + 1 \in 1 .. n /\ i + 1 \in 0 .. n
    OBVIOUS
  <2>2. Kept(i + 1, item, mark) =
          IF mark[i + 1] THEN Append(Kept(i, item, mark), item[i + 1]) ELSE Kept(i, item, mark)
    BY <2>1, KeptNext
  <2>3. Kept(i, item, mark) \in Seq(S) /\ item[i + 1] \in S
    BY <1>2, <2>1 DEF AllIn
  <2>4. Kept(i + 1, item, mark) \in Seq(S)
    <3>1. PICK s, e : s = Kept(i, item, mark) /\ e = item[i + 1]
      OBVIOUS
    <3>2. Append(s, e) \in Seq(S)
      BY <2>3, <3>1, AppendProperties
    <3> QED BY <2>2, <2>3, <3>1, <3>2
  <2> QED BY <2>1, <2>4, Zenon
<1> HIDE DEF Good
<1>3. 0 .. n \subseteq Good
  BY <1>1, <1>2, UpTo
<1> QED BY <1>3 DEF Good

\* Only the first n items and marks matter.
LEMMA KeptSame ==
  ASSUME NEW n \in Nat, NEW item, NEW mark, NEW item2, NEW mark2,
         \A i \in 1 .. n : item[i] = item2[i] /\ mark[i] = mark2[i]
  PROVE  Kept(n, item, mark) = Kept(n, item2, mark2)
<1> DEFINE Good == {i \in 0 .. n : Kept(i, item, mark) = Kept(i, item2, mark2)}
<1>1. 0 \in Good
  BY KeptNext
<1>2. ASSUME NEW i \in 0 .. n - 1, i \in Good PROVE i + 1 \in Good
  <2>1. i \in Nat /\ i + 1 \in 1 .. n /\ i + 1 \in 0 .. n
    OBVIOUS
  <2>2. Kept(i + 1, item, mark) =
          IF mark[i + 1] THEN Append(Kept(i, item, mark), item[i + 1]) ELSE Kept(i, item, mark)
    BY <2>1, KeptNext
  <2>3. Kept(i + 1, item2, mark2) =
          IF mark2[i + 1] THEN Append(Kept(i, item2, mark2), item2[i + 1]) ELSE Kept(i, item2, mark2)
    BY <2>1, KeptNext
  <2>4. item[i + 1] = item2[i + 1] /\ mark[i + 1] = mark2[i + 1]
    BY <2>1
  <2> QED BY <1>2, <2>1, <2>2, <2>3, <2>4
<1> HIDE DEF Good
<1>3. 0 .. n \subseteq Good
  BY <1>1, <1>2, UpTo
<1> QED BY <1>3 DEF Good

\* Nothing is kept of what is not marked.
LEMMA KeptNone ==
  ASSUME NEW n \in Nat, NEW item, NEW mark, \A i \in 1 .. n : ~mark[i]
  PROVE  Kept(n, item, mark) = <<>>
<1> DEFINE Good == {i \in 0 .. n : Kept(i, item, mark) = <<>>}
<1>1. 0 \in Good
  BY KeptNext
<1>2. ASSUME NEW i \in 0 .. n - 1, i \in Good PROVE i + 1 \in Good
  <2>1. i \in Nat /\ i + 1 \in 1 .. n /\ i + 1 \in 0 .. n
    OBVIOUS
  <2>2. Kept(i + 1, item, mark) =
          IF mark[i + 1] THEN Append(Kept(i, item, mark), item[i + 1]) ELSE Kept(i, item, mark)
    BY <2>1, KeptNext
  <2> QED BY <1>2, <2>1, <2>2
<1> HIDE DEF Good
<1>3. 0 .. n \subseteq Good
  BY <1>1, <1>2, UpTo
<1> QED BY <1>3 DEF Good

\* The last b of a + b items, and their marks.
LastOnes(S, a, b, item, mark, item2, mark2) ==
  /\ a \in Nat /\ b \in Nat
  /\ AllIn(a + b, item, S)
  /\ \A i \in 1 .. b : item2[i] = item[a + i] /\ mark2[i] = mark[a + i]

\* What is kept of them comes after what is kept of the others.

LEMMA KeptPlus ==
  ASSUME NEW S, NEW a, NEW b, NEW item, NEW mark, NEW item2, NEW mark2,
         LastOnes(S, a, b, item, mark, item2, mark2)
  PROVE  Kept(a, item, mark) \o Kept(b, item2, mark2) = Kept(a + b, item, mark)
<1> DEFINE Good == {i \in 0 .. b : Kept(a, item, mark) \o Kept(i, item2, mark2) = Kept(a + i, item, mark)}
<1>0. a \in Nat /\ b \in Nat
  BY DEF LastOnes
<1>1. Kept(a, item, mark) \in Seq(S)
  <2>1. AllIn(a, item, S)
    BY DEF AllIn, LastOnes
  <2> QED BY <1>0, <2>1, KeptType
<1>2. 0 \in Good
  BY <1>0, <1>1, KeptNext
<1>3. ASSUME NEW i \in 0 .. b - 1, i \in Good PROVE i + 1 \in Good
  <2>1. PICK k \in Nat : k = a + i
    BY <1>0
  <2>2. i \in Nat /\ i + 1 \in 1 .. b /\ i + 1 \in 0 .. b /\ a + (i + 1) = k + 1 /\ k + 1 \in 1 .. a + b
    BY <1>0, <2>1
  <2>3. Kept(i + 1, item2, mark2) =
          IF mark2[i + 1] THEN Append(Kept(i, item2, mark2), item2[i + 1]) ELSE Kept(i, item2, mark2)
    BY <2>2, KeptNext
  <2>4. Kept(k + 1, item, mark) =
          IF mark[k + 1] THEN Append(Kept(k, item, mark), item[k + 1]) ELSE Kept(k, item, mark)
    BY <2>2, KeptNext
  <2>5. item2[i + 1] = item[k + 1] /\ mark2[i + 1] = mark[k + 1] /\ item[k + 1] \in S
    BY <2>1, <2>2 DEF AllIn, LastOnes
  <2>6. Kept(i, item2, mark2) \in Seq(S)
    <3>1. AllIn(i, item2, S)
      <4>1. \A j \in 1 .. i : j \in 1 .. b /\ a + j \in 1 .. a + b
        BY <1>0
      <4> QED BY <4>1 DEF AllIn, LastOnes
    <3> QED BY <2>2, <3>1, KeptType
  <2>7. Kept(a, item, mark) \o Kept(i, item2, mark2) = Kept(k, item, mark)
    BY <1>3, <2>1
  <2>8. PICK x, y, e : x = Kept(a, item, mark) /\ y = Kept(i, item2, mark2) /\ e = item[k + 1]
    OBVIOUS
  <2>9. x \in Seq(S) /\ y \in Seq(S) /\ e \in S
    BY <1>1, <2>5, <2>6, <2>8
  <2>10. x \o Append(y, e) = Append(x \o y, e)
    <3>1. /\ Append(y, e) = y \o <<e>> /\ x \o y \in Seq(S)
          /\ Append(x \o y, e) = (x \o y) \o <<e>> /\ <<e>> \in Seq(S)
      BY <2>9, AppendIsConcat, ConcatProperties
    <3>2. (x \o y) \o <<e>> = x \o (y \o <<e>>)
      BY <2>9, <3>1, ConcatAssociative
    <3> QED BY <3>1, <3>2
  <2>11. Kept(a, item, mark) \o Kept(i + 1, item2, mark2) = Kept(k + 1, item, mark)
    BY <2>3, <2>4, <2>5, <2>7, <2>8, <2>10
  <2> QED BY <2>2, <2>11
<1> HIDE DEF Good
<1>4. 0 .. b \subseteq Good
  BY <1>0, <1>2, <1>3, UpTo
<1>5. b \in Good
  BY <1>0, <1>4
<1> QED BY <1>5 DEF Good
=============================================================================
