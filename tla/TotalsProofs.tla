------------------------------ MODULE TotalsProofs ------------------------------
(***************************************************************************)
(* Theorems about the minutes students are shown, for any set of users,    *)
(* session ids, concurrent requests and corrections, any length of a       *)
(* minute, a day and a week, and any cap:                                  *)
(*   MinutesCounted  from the rows' order and LifetimesDisjoint            *)
(*   BoardAgrees     from the rows' order                                  *)
(*   DaysAddUp       from the rows' order and AuditChain                   *)
(* A total is a sum over the rows of one user, so the first part is about  *)
(* sums over finite sets.                                                  *)
(***************************************************************************)
EXTENDS StudySessionsProofs, StudyTotals, FiniteSetTheorems

-----------------------------------------------------------------------------
(* Induction, and sums over finite sets *)

\* Induction over the natural numbers, for a set of them.
LEMMA NaturalsReached ==
  ASSUME NEW P, 0 \in P, \A n \in Nat : n \in P => n + 1 \in P
  PROVE  Nat \subseteq P
<1> DEFINE Bad == {n \in Nat : n \notin P}
<1>1. SUFFICES ASSUME Bad # {} PROVE FALSE
  OBVIOUS
<1>2. PICK m \in Bad : \A n \in Bad : m <= n
  BY <1>1, LeastNatural
<1>3. m \in Nat /\ m # 0
  OBVIOUS
<1>4. m - 1 \in Nat /\ m - 1 \notin Bad
  BY <1>2, <1>3
<1>5. QED
  BY <1>3, <1>4

\* Induction over the subsets of a finite set, for a set of them: T is reached
\* when all that have one element less are.
LEMMA SizesReached ==
  ASSUME NEW S, IsFiniteSet(S), NEW P,
         \A T \in SUBSET S :
            (\A U \in SUBSET S : Cardinality(U) + 1 = Cardinality(T) => U \in P) => T \in P
  PROVE  SUBSET S \subseteq P
<1> DEFINE Q == {n \in Nat : \A T \in SUBSET S : Cardinality(T) = n => T \in P}
<1>1. \A T \in SUBSET S : Cardinality(T) \in Nat
  BY FS_Subset, FS_CardinalityType
<1>2. 0 \in Q
  <2>1. ASSUME NEW T \in SUBSET S, Cardinality(T) = 0
        PROVE  T \in P
    <3>1. \A U \in SUBSET S : Cardinality(U) + 1 # Cardinality(T)
      BY <1>1, <2>1
    <3>2. QED
      BY <3>1
  <2>2. QED
    BY <2>1
<1>3. ASSUME NEW n \in Nat, n \in Q, NEW T \in SUBSET S, Cardinality(T) = n + 1
      PROVE  T \in P
  <2>1. \A U \in SUBSET S : Cardinality(U) + 1 = Cardinality(T) => Cardinality(U) = n
    BY <1>1, <1>3
  <2>2. QED
    BY <1>3, <2>1
<1>4. Nat \subseteq Q
  <2>1. \A n \in Nat : n \in Q => n + 1 \in Q
    BY <1>3
  <2> HIDE DEF Q
  <2>2. QED
    BY <1>2, <2>1, NaturalsReached
<1>5. QED
  BY <1>1, <1>4

LEMMA OneLess ==
  ASSUME NEW T, IsFiniteSet(T), NEW x \in T
  PROVE  Cardinality(T \ {x}) + 1 = Cardinality(T)
<1>1. Cardinality(T \ {x}) = Cardinality(T) - 1 /\ Cardinality(T) \in Nat
  BY FS_RemoveElement, FS_CardinalityType
<1>2. QED
  BY <1>1

Pick(s) == CHOOSE x \in s : TRUE

\* it holds the sums of f over the subsets of S.
IsSums(it, f, S) ==
  it = [s \in SUBSET S |-> IF s = {} THEN 0 ELSE f[Pick(s)] + it[s \ {Pick(s)}]]

LEMMA SumIsSums ==
  ASSUME NEW f, NEW S
  PROVE  SumFunctionOnSet(f, S) = (CHOOSE it : IsSums(it, f, S))[S]
BY DEF SumFunctionOnSet, FoldFunctionOnSet, MapThenFoldSet, IsSums, Pick

LEMMA PickIn ==
  ASSUME NEW s, s # {}
  PROVE  Pick(s) \in s
BY DEF Pick

LEMMA SumsExist ==
  ASSUME NEW S, IsFiniteSet(S), NEW f, \A x \in S : f[x] \in Int
  PROVE  \E it : IsSums(it, f, S)
<1> DEFINE Upto(n) == {s \in SUBSET S : Cardinality(s) <= n}
           Step(it, s) == IF s = {} THEN 0 ELSE f[Pick(s)] + it[s \ {Pick(s)}]
           Good == {n \in Nat : \E it \in [Upto(n) -> Int] : \A s \in Upto(n) : it[s] = Step(it, s)}
<1>1. \A s \in SUBSET S : IsFiniteSet(s) /\ Cardinality(s) \in Nat
  BY FS_Subset, FS_CardinalityType
<1>2. \A s \in SUBSET S : s # {} => /\ Pick(s) \in S
                                    /\ s \ {Pick(s)} \in SUBSET S
                                    /\ Cardinality(s \ {Pick(s)}) = Cardinality(s) - 1
  BY <1>1, PickIn, FS_RemoveElement
<1>3. 0 \in Good
  <2> DEFINE it == [s \in Upto(0) |-> 0]
  <2>1. \A s \in Upto(0) : s = {}
    BY <1>1, FS_EmptySet
  <2>2. it \in [Upto(0) -> Int] /\ \A s \in Upto(0) : it[s] = Step(it, s)
    BY <2>1
  <2>3. QED
    BY <2>2
<1>4. ASSUME NEW n \in Nat, n \in Good
      PROVE  n + 1 \in Good
  <2>1. PICK it \in [Upto(n) -> Int] : \A s \in Upto(n) : it[s] = Step(it, s)
    BY <1>4
  <2> DEFINE more == [s \in Upto(n + 1) |-> IF s \in Upto(n) THEN it[s] ELSE Step(it, s)]
  <2>2. \A s \in Upto(n + 1) : s # {} => s \ {Pick(s)} \in Upto(n)
    BY <1>1, <1>2
  <2>3. \A s \in Upto(n + 1) : Step(it, s) \in Int
    BY <1>2, <2>1, <2>2
  <2>4. more \in [Upto(n + 1) -> Int]
    BY <2>1, <2>3
  <2>5. Upto(n) \subseteq Upto(n + 1)
    BY <1>1
  <2>6. ASSUME NEW s \in Upto(n + 1)
        PROVE  more[s] = Step(more, s)
    <3>1. s # {} => more[s \ {Pick(s)}] = it[s \ {Pick(s)}]
      BY <2>2, <2>5
    <3>2. Step(more, s) = Step(it, s)
      BY <3>1
    <3>3. more[s] = Step(it, s)
      BY <2>1
    <3>4. QED
      BY <3>2, <3>3
  <2> HIDE DEF more, Upto, Step
  <2>7. \E w \in [Upto(n + 1) -> Int] : \A s \in Upto(n + 1) : w[s] = Step(w, s)
    BY <2>4, <2>6
  <2>8. QED
    BY <2>7
<1>5. Cardinality(S) \in Good
  <2>1. \A n \in Nat : n \in Good => n + 1 \in Good
    BY <1>4
  <2> HIDE DEF Good
  <2>2. QED
    BY <1>1, <1>3, <2>1, NaturalsReached
<1>6. Upto(Cardinality(S)) = SUBSET S
  BY <1>1, FS_Subset
<1>7. PICK it \in [SUBSET S -> Int] : \A s \in SUBSET S : it[s] = Step(it, s)
  BY <1>5, <1>6
<1>8. IsSums(it, f, S)
  BY <1>7 DEF IsSums
<1>9. QED
  BY <1>8

\* The recursion that SumFunctionOnSet is defined by.
LEMMA SumRecursion ==
  ASSUME NEW S, IsFiniteSet(S), NEW f, \A x \in S : f[x] \in Int
  PROVE  \E it : IsSums(it, f, S) /\ SumFunctionOnSet(f, S) = it[S]
<1>1. IsSums(CHOOSE it : IsSums(it, f, S), f, S)
  BY SumsExist
<1>2. QED
  BY <1>1, SumIsSums

\* Two such recursions agree on every set both are about.
LEMMA SumsAgree ==
  ASSUME NEW S, IsFiniteSet(S), NEW T, T \subseteq S, NEW f, NEW g, \A x \in T : f[x] = g[x] /\ f[x] \in Int,
         NEW a, IsSums(a, f, S), NEW b, IsSums(b, g, T)
  PROVE  a[T] = b[T] /\ a[T] \in Int
<1> DEFINE P == {U \in SUBSET T : a[U] = b[U] /\ a[U] \in Int}
<1>0. IsFiniteSet(T) /\ \A U \in SUBSET T : IsFiniteSet(U)
  BY FS_Subset
<1>1. ASSUME NEW U \in SUBSET T, \A V \in SUBSET T : Cardinality(V) + 1 = Cardinality(U) => V \in P
      PROVE  U \in P
  <2>1. /\ a[U] = IF U = {} THEN 0 ELSE f[Pick(U)] + a[U \ {Pick(U)}]
        /\ b[U] = IF U = {} THEN 0 ELSE g[Pick(U)] + b[U \ {Pick(U)}]
    BY DEF IsSums
  <2>2. CASE U = {}
    BY <2>1, <2>2
  <2>3. CASE U # {}
    <3>1. Pick(U) \in U
      BY <2>3, PickIn
    <3>2. U \ {Pick(U)} \in P
      BY <1>0, <1>1, <3>1, OneLess
    <3>3. QED
      BY <2>1, <2>3, <3>1, <3>2
  <2>4. QED
    BY <2>2, <2>3
<1>2. SUBSET T \subseteq P
  <2> HIDE DEF P
  <2>1. QED
    BY <1>0, <1>1, SizesReached
<1>3. QED
  BY <1>2

\* A sum depends on what is summed alone.
LEMMA SumCongruent ==
  ASSUME NEW S, IsFiniteSet(S), NEW f, NEW g, \A x \in S : f[x] = g[x] /\ f[x] \in Int
  PROVE  SumFunctionOnSet(f, S) = SumFunctionOnSet(g, S) /\ SumFunctionOnSet(f, S) \in Int
<1>1. PICK a : IsSums(a, f, S) /\ SumFunctionOnSet(f, S) = a[S]
  BY SumRecursion
<1>2. PICK b : IsSums(b, g, S) /\ SumFunctionOnSet(g, S) = b[S]
  BY SumRecursion
<1>3. QED
  BY <1>1, <1>2, SumsAgree

LEMMA SumPicked ==
  ASSUME NEW S, IsFiniteSet(S), S # {}, NEW f, \A x \in S : f[x] \in Int
  PROVE  SumFunctionOnSet(f, S) = f[Pick(S)] + SumFunctionOnSet(f, S \ {Pick(S)})
<1>1. PICK a : IsSums(a, f, S) /\ SumFunctionOnSet(f, S) = a[S]
  BY SumRecursion
<1> DEFINE T == S \ {Pick(S)}
<1>2. T \subseteq S /\ IsFiniteSet(T)
  BY FS_Subset
<1>3. PICK b : IsSums(b, f, T) /\ SumFunctionOnSet(f, T) = b[T]
  BY <1>2, SumRecursion
<1>4. a[T] = b[T]
  <2> HIDE DEF T
  <2>1. \A x \in T : f[x] = f[x] /\ f[x] \in Int
    BY <1>2
  <2>2. QED
    BY <1>1, <1>2, <1>3, <2>1, SumsAgree
<1>5. a[S] = f[Pick(S)] + a[T]
  BY <1>1 DEF IsSums
<1>6. QED
  BY <1>1, <1>3, <1>4, <1>5

LEMMA SumOfNothing ==
  ASSUME NEW f
  PROVE  SumFunctionOnSet(f, {}) = 0
<1>1. IsFiniteSet({}) /\ \A x \in {} : f[x] \in Int
  BY FS_EmptySet
<1>2. PICK a : IsSums(a, f, {}) /\ SumFunctionOnSet(f, {}) = a[{}]
  BY <1>1, SumRecursion
<1>3. QED
  BY <1>2 DEF IsSums

\* Any one term may be taken out of a sum.
LEMMA SumSplit ==
  ASSUME NEW S, IsFiniteSet(S), NEW f, \A x \in S : f[x] \in Int, NEW y \in S
  PROVE  SumFunctionOnSet(f, S) = f[y] + SumFunctionOnSet(f, S \ {y})
<1> DEFINE Sum(T) == SumFunctionOnSet(f, T)
           P == {T \in SUBSET S : \A x \in T : Sum(T) = f[x] + Sum(T \ {x})}
<1>0. \A T \in SUBSET S : IsFiniteSet(T) /\ Sum(T) \in Int
  BY FS_Subset, SumCongruent
<1>1. ASSUME NEW T \in SUBSET S, \A U \in SUBSET S : Cardinality(U) + 1 = Cardinality(T) => U \in P
      PROVE  T \in P
  <2>1. SUFFICES ASSUME NEW x \in T PROVE Sum(T) = f[x] + Sum(T \ {x})
    OBVIOUS
  <2>p. PICK p \in T : p = Pick(T)
    BY PickIn
  <2>2. Sum(T) = f[p] + Sum(T \ {p})
    BY <1>0, <2>p, SumPicked
  <2>3. SUFFICES ASSUME x # p PROVE Sum(T) = f[x] + Sum(T \ {x})
    BY <2>2
  <2>4. T \ {p} \in P /\ T \ {x} \in P
    <3>1. Cardinality(T \ {p}) + 1 = Cardinality(T) /\ Cardinality(T \ {x}) + 1 = Cardinality(T)
      BY <1>0, OneLess
    <3>2. QED
      BY <1>1, <3>1
  <2>5. Sum(T \ {p}) = f[x] + Sum((T \ {p}) \ {x}) /\ Sum(T \ {x}) = f[p] + Sum((T \ {x}) \ {p})
    BY <2>3, <2>4
  <2>6. (T \ {p}) \ {x} = (T \ {x}) \ {p}
    OBVIOUS
  <2>7. PICK r \in Int : r = Sum((T \ {p}) \ {x})
    BY <1>0
  <2>8. f[p] \in Int /\ f[x] \in Int /\ f[p] + (f[x] + r) = f[x] + (f[p] + r)
    OBVIOUS
  <2> HIDE DEF Sum, P
  <2>9. QED
    BY <2>2, <2>5, <2>6, <2>7, <2>8
<1>2. SUBSET S \subseteq P
  <2> HIDE DEF P
  <2>1. QED
    BY <1>1, SizesReached
<1>3. QED
  BY <1>2


\* What a sum of integers is built from, one term at a time.
LEMMA SumExtended ==
  ASSUME NEW S, IsFiniteSet(S), NEW f, \A x \in S : f[x] \in Int, NEW T \in SUBSET S, NEW y \in S \ T
  PROVE  SumFunctionOnSet(f, T \cup {y}) = f[y] + SumFunctionOnSet(f, T)
<1>1. IsFiniteSet(T \cup {y}) /\ (T \cup {y}) \ {y} = T /\ \A x \in T \cup {y} : f[x] \in Int
  BY FS_Subset
<1>2. QED
  BY <1>1, SumSplit

LEMMA SubsetsReached ==
  ASSUME NEW S, IsFiniteSet(S), NEW P, {} \in P,
         \A T \in SUBSET S : \A y \in S \ T : T \in P => T \cup {y} \in P
  PROVE  S \in P
<1>1. ASSUME NEW T \in SUBSET S, \A U \in SUBSET S : Cardinality(U) + 1 = Cardinality(T) => U \in P
      PROVE  T \in P
  <2>1. SUFFICES ASSUME T # {} PROVE T \in P
    OBVIOUS
  <2>2. PICK y \in T : TRUE
    BY <2>1
  <2>3. T \ {y} \in P
    BY <1>1, OneLess, FS_Subset
  <2>4. T = (T \ {y}) \cup {y} /\ y \in S \ (T \ {y}) /\ T \ {y} \in SUBSET S
    OBVIOUS
  <2>5. QED
    BY <2>3, <2>4
<1>2. QED
  BY <1>1, SizesReached

\* Sums of larger terms are larger.
LEMMA SumMonotone ==
  ASSUME NEW S, IsFiniteSet(S), NEW f, NEW g,
         \A x \in S : f[x] \in Int /\ g[x] \in Int /\ f[x] <= g[x]
  PROVE  SumFunctionOnSet(f, S) <= SumFunctionOnSet(g, S)
<1> DEFINE P == {T \in SUBSET S : SumFunctionOnSet(f, T) <= SumFunctionOnSet(g, T)}
<1>0. \A T \in SUBSET S : SumFunctionOnSet(f, T) \in Int /\ SumFunctionOnSet(g, T) \in Int
  BY FS_Subset, SumCongruent
<1>1. {} \in P
  BY SumOfNothing
<1>2. ASSUME NEW T \in SUBSET S, NEW y \in S \ T, T \in P
      PROVE  T \cup {y} \in P
  <2>1. /\ SumFunctionOnSet(f, T \cup {y}) = f[y] + SumFunctionOnSet(f, T)
        /\ SumFunctionOnSet(g, T \cup {y}) = g[y] + SumFunctionOnSet(g, T)
    BY SumExtended
  <2>2. PICK a \in Int, b \in Int : a = SumFunctionOnSet(f, T) /\ b = SumFunctionOnSet(g, T)
    BY <1>0
  <2>3. a <= b /\ f[y] + a <= g[y] + b
    <3>1. a <= b
      BY <1>2, <2>2
    <3>2. QED
      BY <3>1
  <2>4. QED
    BY <2>1, <2>2, <2>3
<1>3. S \in P
  <2> HIDE DEF P
  <2>1. QED
    BY <1>1, <1>2, SubsetsReached
<1>4. QED
  BY <1>3

\* The sum of sums.
LEMMA SumAdded ==
  ASSUME NEW S, IsFiniteSet(S), NEW f, NEW g, NEW h,
         \A x \in S : f[x] \in Int /\ g[x] \in Int /\ h[x] = f[x] + g[x]
  PROVE  SumFunctionOnSet(h, S) = SumFunctionOnSet(f, S) + SumFunctionOnSet(g, S)
<1> DEFINE P == {T \in SUBSET S : SumFunctionOnSet(h, T) = SumFunctionOnSet(f, T) + SumFunctionOnSet(g, T)}
<1>0. \A T \in SUBSET S : SumFunctionOnSet(f, T) \in Int /\ SumFunctionOnSet(g, T) \in Int
  BY FS_Subset, SumCongruent
<1>1. {} \in P
  BY SumOfNothing
<1>2. ASSUME NEW T \in SUBSET S, NEW y \in S \ T, T \in P
      PROVE  T \cup {y} \in P
  <2>1. /\ SumFunctionOnSet(f, T \cup {y}) = f[y] + SumFunctionOnSet(f, T)
        /\ SumFunctionOnSet(g, T \cup {y}) = g[y] + SumFunctionOnSet(g, T)
        /\ SumFunctionOnSet(h, T \cup {y}) = h[y] + SumFunctionOnSet(h, T)
    BY SumExtended
  <2>2. PICK a \in Int, b \in Int : a = SumFunctionOnSet(f, T) /\ b = SumFunctionOnSet(g, T)
    BY <1>0
  <2>3. SumFunctionOnSet(h, T) = a + b
    BY <1>2, <2>2
  <2>4. h[y] + (a + b) = (f[y] + a) + (g[y] + b)
    OBVIOUS
  <2>5. QED
    BY <2>1, <2>2, <2>3, <2>4
<1>3. S \in P
  <2> HIDE DEF P
  <2>1. QED
    BY <1>1, <1>2, SubsetsReached
<1>4. QED
  BY <1>3

\* Terms that are nothing may be left out.
LEMMA SumOfPart ==
  ASSUME NEW S, IsFiniteSet(S), NEW f, \A x \in S : f[x] \in Int,
         NEW R \in SUBSET S, \A x \in S \ R : f[x] = 0
  PROVE  SumFunctionOnSet(f, R) = SumFunctionOnSet(f, S)
<1> DEFINE P == {T \in SUBSET S : SumFunctionOnSet(f, T \cap R) = SumFunctionOnSet(f, T)}
<1>1. {} \in P
  OBVIOUS
<1>2. ASSUME NEW T \in SUBSET S, NEW y \in S \ T, T \in P
      PROVE  T \cup {y} \in P
  <2>1. SumFunctionOnSet(f, T \cup {y}) = f[y] + SumFunctionOnSet(f, T)
    BY SumExtended
  <2>2. SumFunctionOnSet(f, T) \in Int
    BY FS_Subset, SumCongruent
  <2>3. CASE y \in R
    <3>1. (T \cup {y}) \cap R = (T \cap R) \cup {y} /\ T \cap R \in SUBSET S /\ y \in S \ (T \cap R)
      BY <2>3
    <3>2. SumFunctionOnSet(f, (T \cup {y}) \cap R) = f[y] + SumFunctionOnSet(f, T \cap R)
      BY <3>1, SumExtended
    <3>3. QED
      BY <1>2, <2>1, <3>2
  <2>4. CASE y \notin R
    <3>1. (T \cup {y}) \cap R = T \cap R /\ f[y] = 0
      BY <2>4
    <3>2. PICK a \in Int : a = SumFunctionOnSet(f, T)
      BY <2>2
    <3>3. SumFunctionOnSet(f, (T \cup {y}) \cap R) = a /\ SumFunctionOnSet(f, T \cup {y}) = 0 + a
      BY <1>2, <2>1, <3>1, <3>2
    <3>4. QED
      BY <3>3
  <2>5. QED
    BY <2>3, <2>4
<1>3. S \in P
  <2> HIDE DEF P
  <2>1. QED
    BY <1>1, <1>2, SubsetsReached
<1>4. S \cap R = R
  OBVIOUS
<1>5. QED
  BY <1>3, <1>4

\* What several finite sets have together: no more than each of them, summed, and
\* just that when no two meet.
LEMMA SizeOfParts ==
  ASSUME NEW S, IsFiniteSet(S), NEW B, \A x \in S : IsFiniteSet(B[x]),
         NEW f, \A x \in S : f[x] = Cardinality(B[x])
  PROVE  LET U == UNION {B[x] : x \in S} IN
         /\ IsFiniteSet(U)
         /\ Cardinality(U) <= SumFunctionOnSet(f, S)
         /\ (\A x, y \in S : x # y => B[x] \cap B[y] = {}) => Cardinality(U) = SumFunctionOnSet(f, S)
<1> DEFINE U(T) == UNION {B[x] : x \in T}
           Apart == \A x, y \in S : x # y => B[x] \cap B[y] = {}
           P == {T \in SUBSET S : /\ IsFiniteSet(U(T))
                                  /\ Cardinality(U(T)) <= SumFunctionOnSet(f, T)
                                  /\ Apart => Cardinality(U(T)) = SumFunctionOnSet(f, T)}
<1>0. \A x \in S : f[x] \in Int
  BY FS_CardinalityType
<1>1. {} \in P
  <2>1. U({}) = {} /\ SumFunctionOnSet(f, {}) = 0 /\ IsFiniteSet({}) /\ Cardinality({}) = 0
    BY SumOfNothing, FS_EmptySet
  <2> HIDE DEF U, Apart
  <2>2. QED
    BY <2>1
<1>2. ASSUME NEW T \in SUBSET S, NEW y \in S \ T, T \in P
      PROVE  T \cup {y} \in P
  <2>1. SumFunctionOnSet(f, T \cup {y}) = f[y] + SumFunctionOnSet(f, T)
    BY <1>0, SumExtended
  <2>2. U(T \cup {y}) = U(T) \cup B[y]
    OBVIOUS
  <2>3. IsFiniteSet(U(T)) /\ IsFiniteSet(B[y])
    BY <1>2
  <2>4. /\ IsFiniteSet(U(T) \cup B[y])
        /\ Cardinality(U(T) \cup B[y]) = Cardinality(U(T)) + Cardinality(B[y]) - Cardinality(U(T) \cap B[y])
    <3> HIDE DEF U
    <3>1. QED
      BY <2>3, FS_Union
  <2>5. Apart => U(T) \cap B[y] = {}
    BY <1>2
  <2>6. IsFiniteSet(U(T) \cap B[y])
    <3>1. U(T) \cap B[y] \in SUBSET B[y]
      OBVIOUS
    <3> HIDE DEF U
    <3>2. QED
      BY <2>3, <3>1, FS_Subset
  <2>7. PICK a \in Nat, b \in Nat, c \in Nat : /\ a = Cardinality(U(T)) /\ b = Cardinality(B[y])
                                               /\ c = Cardinality(U(T) \cap B[y])
    <3> HIDE DEF U
    <3>1. QED
      BY <2>3, <2>6, FS_CardinalityType
  <2>8. Apart => c = 0
    <3> HIDE DEF U, Apart
    <3>1. QED
      BY <2>5, <2>7, FS_EmptySet
  <2>9. PICK m \in Int : m = SumFunctionOnSet(f, T)
    BY <1>0, FS_Subset, SumCongruent
  <2>10. f[y] = b /\ a <= m /\ (Apart => a = m)
    <3> HIDE DEF U, Apart
    <3>1. QED
      BY <1>2, <2>7, <2>9
  <2>11. a + b - c <= b + m /\ (Apart => a + b - c = b + m)
    <3> HIDE DEF Apart
    <3>1. QED
      BY <2>8, <2>10
  <2>12. /\ Cardinality(U(T \cup {y})) = a + b - c /\ SumFunctionOnSet(f, T \cup {y}) = b + m
         /\ IsFiniteSet(U(T \cup {y}))
    <3> HIDE DEF U
    <3>1. QED
      BY <2>1, <2>2, <2>4, <2>7, <2>9, <2>10
  <2>13. T \cup {y} \in SUBSET S
    OBVIOUS
  <2> HIDE DEF U, Apart
  <2>14. QED
    BY <2>11, <2>12, <2>13
<1>3. S \in P
  <2> HIDE DEF P
  <2>1. QED
    BY <1>1, <1>2, SubsetsReached
<1>4. QED
  BY <1>3

\* A factor common to all terms of a sum is one of the sum.
LEMMA SumScaled ==
  ASSUME NEW S, IsFiniteSet(S), NEW k \in Int, NEW f, NEW g,
         \A x \in S : f[x] \in Int /\ g[x] = f[x] * k
  PROVE  SumFunctionOnSet(g, S) = SumFunctionOnSet(f, S) * k
<1> DEFINE P == {T \in SUBSET S : SumFunctionOnSet(g, T) = SumFunctionOnSet(f, T) * k}
<1>0. \A x \in S : g[x] \in Int
  OBVIOUS
<1>1. {} \in P
  <2>1. 0 * k = 0
    OBVIOUS
  <2>2. QED
    BY <2>1, SumOfNothing
<1>2. ASSUME NEW T \in SUBSET S, NEW y \in S \ T, T \in P
      PROVE  T \cup {y} \in P
  <2>1. /\ SumFunctionOnSet(f, T \cup {y}) = f[y] + SumFunctionOnSet(f, T)
        /\ SumFunctionOnSet(g, T \cup {y}) = g[y] + SumFunctionOnSet(g, T)
    BY <1>0, SumExtended
  <2>2. PICK a \in Int : a = SumFunctionOnSet(f, T)
    BY FS_Subset, SumCongruent
  <2>3. PICK b \in Int : b = f[y]
    OBVIOUS
  <2>4. g[y] = b * k /\ SumFunctionOnSet(g, T) = a * k
    BY <1>2, <2>2, <2>3
  <2>5. b * k + a * k = (b + a) * k
    OBVIOUS
  <2>6. QED
    BY <2>1, <2>2, <2>3, <2>4, <2>5
<1>3. S \in P
  <2> HIDE DEF P
  <2>1. QED
    BY <1>1, <1>2, SubsetsReached
<1>4. QED
  BY <1>3

\* As much for each of some elements.
LEMMA SumOfMarked ==
  ASSUME NEW S, IsFiniteSet(S), NEW R \in SUBSET S, NEW k \in Int,
         NEW f, \A x \in S : f[x] = IF x \in R THEN k ELSE 0
  PROVE  SumFunctionOnSet(f, S) = Cardinality(R) * k
<1> DEFINE one == [x \in R |-> 1]
           B == [x \in R |-> {x}]
<1>1. IsFiniteSet(R) /\ Cardinality(R) \in Nat
  BY FS_Subset, FS_CardinalityType
<1>2. SumFunctionOnSet(f, R) = SumFunctionOnSet(f, S)
  BY SumOfPart
<1>3. Cardinality(R) = SumFunctionOnSet(one, R)
  <2>1. \A x \in R : IsFiniteSet(B[x]) /\ one[x] = Cardinality(B[x])
    BY FS_Singleton
  <2>2. \A x, y \in R : x # y => B[x] \cap B[y] = {}
    OBVIOUS
  <2>3. UNION {B[x] : x \in R} = R
    OBVIOUS
  <2> HIDE DEF one, B
  <2>4. QED
    BY <1>1, <2>1, <2>2, <2>3, SizeOfParts
<1>4. \A x \in R : one[x] \in Int /\ f[x] = one[x] * k
  OBVIOUS
<1> HIDE DEF one
<1>5. SumFunctionOnSet(f, R) = SumFunctionOnSet(one, R) * k
  BY <1>1, <1>4, SumScaled
<1>6. QED
  BY <1>2, <1>3, <1>5

-----------------------------------------------------------------------------
(* Whole minutes *)

Whole(n) == n \div MinuteLength

\* Less than a minute is cut off.
LEMMA WholeBounds ==
  ASSUME NEW n \in Nat
  PROVE  /\ Whole(n) \in Nat
         /\ Whole(n) * MinuteLength <= n
         /\ n <= Whole(n) * MinuteLength + (MinuteLength - 1)
<1>1. ASSUME NEW m \in Nat \ {0}
      PROVE  n \div m \in Nat /\ (n \div m) * m <= n /\ n < (n \div m) * m + m
  OBVIOUS
<1>2. PICK m \in Nat \ {0} : m = MinuteLength
  BY MinuteAssumption
<1>3. PICK q \in Nat : q = n \div m
  BY <1>1
<1>4. q * m <= n /\ n < q * m + m /\ q * m \in Nat
  BY <1>1, <1>3
<1>5. n <= q * m + (m - 1)
  BY <1>4
<1>6. QED
  BY <1>2, <1>3, <1>4, <1>5 DEF Whole

\* Cutting two parts down one by one costs a minute at most beside cutting their sum.
LEMMA WholeParts ==
  ASSUME NEW x \in Nat, NEW y \in Nat
  PROVE  /\ Whole(x) + Whole(y) <= Whole(x + y)
         /\ Whole(x + y) <= Whole(x) + Whole(y) + 1
<1>1. PICK m \in Nat \ {0} : m = MinuteLength
  BY MinuteAssumption
<1>2. PICK a \in Nat, b \in Nat, c \in Nat : a = Whole(x) /\ b = Whole(y) /\ c = Whole(x + y)
  BY WholeBounds
<1>3. /\ a * m <= x /\ x <= a * m + (m - 1)
      /\ b * m <= y /\ y <= b * m + (m - 1)
      /\ c * m <= x + y /\ x + y <= c * m + (m - 1)
  BY <1>1, <1>2, WholeBounds
<1>4. /\ (a + b) * m = a * m + b * m /\ (c + 1) * m = c * m + m
      /\ ((a + b) + 2) * m = (a * m + b * m) + 2 * m
      /\ a * m \in Nat /\ b * m \in Nat /\ c * m \in Nat
  OBVIOUS
<1>5. (a + b) * m < (c + 1) * m /\ c * m < ((a + b) + 2) * m
  BY <1>3, <1>4
<1>6. a + b < c + 1 /\ c < (a + b) + 2
  <2>1. ASSUME NEW i \in Nat, NEW j \in Nat, i * m < j * m
        PROVE  i < j
    BY <2>1
  <2>2. a + b \in Nat /\ c + 1 \in Nat /\ (a + b) + 2 \in Nat
    OBVIOUS
  <2>3. QED
    BY <1>5, <2>1, <2>2
<1>7. QED
  BY <1>2, <1>6

LEMMA WholeNothing == Whole(0) = 0
<1>1. ASSUME NEW m \in Nat \ {0}
      PROVE  0 \div m = 0
  OBVIOUS
<1>2. QED
  BY <1>1, MinuteAssumption DEF Whole

LEMMA MinutesAreWhole ==
  ASSUME NEW x, NEW y
  PROVE  MinutesBetween(x, y) = Whole(IF y > x THEN y - x ELSE 0)
BY WholeNothing DEF MinutesBetween, Whole

LEMMA WholeOrder ==
  ASSUME NEW x \in Nat, NEW y \in Nat, x <= y
  PROVE  Whole(x) <= Whole(y)
<1>1. PICK d \in Nat : y = x + d
  <2>1. y - x \in Nat /\ y = x + (y - x)
    OBVIOUS
  <2>2. QED
    BY <2>1
<1>2. Whole(x) \in Nat /\ Whole(d) \in Nat /\ Whole(x + d) \in Nat /\ Whole(x) + Whole(d) <= Whole(x + d)
  BY WholeBounds, WholeParts
<1>3. QED
  BY <1>1, <1>2

-----------------------------------------------------------------------------
(* The table and the calendar *)

Rows == {s \in SessionId : sessions[s].status # "absent"}

\* The table never holds infinitely many rows: an INSERT adds one and nothing else adds any.
LEMMA AlwaysFinite == Spec => []IsFiniteSet(Rows)
<1>1. Init => IsFiniteSet(Rows)
  <2>1. SUFFICES ASSUME Init PROVE Rows = {}
    BY FS_EmptySet
  <2>2. \A s \in SessionId : sessions[s].status = "absent"
    BY <2>1 DEF Init, NoRow
  <2>3. QED
    BY <2>2 DEF Rows
<1>2. ASSUME Consistent, IsFiniteSet(Rows), [Next]_vars
      PROVE  IsFiniteSet(Rows')
  <2>1. CASE UNCHANGED <<sessions, audit>>
    <3>1. Rows' = Rows
      BY <2>1 DEF Rows
    <3>2. QED
      BY <1>2, <3>1
  <2>2. ASSUME NEW p \in Request, NEW s \in SessionId, StartInsert(p, s)
        PROVE  IsFiniteSet(Rows')
    <3>1. Rows' = Rows \cup {s}
      BY <1>2, <2>2, InsertStep DEF Rows
    <3>2. QED
      BY <1>2, <3>1, FS_AddElement
  <2>3. ASSUME NEW p \in Request, FinishUpdate(p)
        PROVE  IsFiniteSet(Rows')
    <3>1. PICK s : s = req[p].session
      OBVIOUS
    <3>2. /\ sessions[s].status = "active" /\ sessions'[s].status = "finished"
          /\ \A t \in SessionId : t # s => sessions'[t] = sessions[t]
      BY <1>2, <2>3, <3>1, CloseStep
    <3>3. Rows' = Rows
      BY <3>2 DEF Rows
    <3>4. QED
      BY <1>2, <3>3
  <2>4. ASSUME NEW a \in Admin, CorrectionCommit(a)
        PROVE  IsFiniteSet(Rows')
    <3>1. PICK c : c = adm[a].session
      OBVIOUS
    <3>2. c \in SessionId /\ sessions' = Patched(a)
      BY <1>2, <2>4, <3>1, CommitStep
    <3>3. \A s \in SessionId : sessions'[s].status = sessions[s].status
      BY <1>2, <3>1, <3>2, PatchedRows
    <3>4. Rows' = Rows
      BY <3>3 DEF Rows
    <3>5. QED
      BY <1>2, <3>4
  <2>5. QED
    BY <1>2, <2>1, <2>2, <2>3, <2>4, TableWriters
<1>3. Consistent /\ IsFiniteSet(Rows) /\ [Next]_vars => IsFiniteSet(Rows)'
  BY <1>2
<1>4. QED
  BY <1>1, <1>3, AlwaysConsistent, PTL DEF Spec

\* The rows of one user, and the order of their times.
LEMMA RowsOfUser ==
  ASSUME Consistent, IsFiniteSet(Rows), NEW u
  PROVE  /\ IsFiniteSet(SessionsOf(u))
         /\ clock \in Nat
         /\ \A s \in SessionsOf(u) :
              /\ s \in SessionId /\ sessions[s].user = u /\ u \in User
              /\ sessions[s].status \in {"active", "finished"}
              /\ sessions[s].started \in Nat /\ sessions[s].created \in Nat
              /\ sessions[s].started <= sessions[s].created /\ sessions[s].created <= clock
              /\ sessions[s].status = "active" => sessions[s].ended = None
              /\ sessions[s].status = "finished" => /\ sessions[s].ended \in Nat
                                                    /\ sessions[s].created <= sessions[s].ended
                                                    /\ sessions[s].ended <= clock
<1>1. SessionsOf(u) \in SUBSET Rows
  BY DEF SessionsOf, Rows
<1>2. IsFiniteSet(SessionsOf(u))
  BY <1>1, FS_Subset
<1>3. clock \in Nat /\ \A s \in SessionId : sessions[s].status \in {"absent", "active", "finished"}
  BY DEF Consistent, TypeOK, Row, Time
<1>4. QED
  BY <1>2, <1>3 DEF SessionsOf, Consistent, RowConsistent

\* The end of a session, or the time of the reader while there is none.
LEMMA EndOfRow ==
  ASSUME Consistent, IsFiniteSet(Rows), NEW u, NEW s \in SessionsOf(u), NEW now \in Nat, now <= clock
  PROVE  /\ EndOr(s, now) \in Nat /\ EndOr(s, now) <= clock
         /\ sessions[s].ended = None => EndOr(s, now) = now
         /\ sessions[s].ended # None => EndOr(s, now) = sessions[s].ended
BY RowsOfUser, NoneIsNoTime DEF EndOr

LEMMA SmallerOfTwo ==
  ASSUME NEW a \in Int, NEW b \in Int
  PROVE  Min({a, b}) = IF a <= b THEN a ELSE b
<1> DEFINE m == IF a <= b THEN a ELSE b
<1>1. m \in {a, b} /\ \A x \in {a, b} : m <= x
  OBVIOUS
<1>2. \A n \in {a, b} : (\A x \in {a, b} : n <= x) => n = m
  BY <1>1
<1> HIDE DEF m
<1>3. Min({a, b}) = m
  BY <1>1, <1>2 DEF Min
<1>4. QED
  BY <1>3 DEF m

\* The part of a session inside a window, without Min and Larger.
LEMMA ClippedTo ==
  ASSUME Consistent, IsFiniteSet(Rows), NEW u, NEW s \in SessionsOf(u), NEW now \in Nat, now <= clock,
         NEW from \in Nat, NEW to \in Nat
  PROVE  LET b == IF sessions[s].started > from THEN sessions[s].started ELSE from
             e == IF EndOr(s, now) <= to THEN EndOr(s, now) ELSE to
             n == IF e > b THEN e - b ELSE 0
         IN  /\ Clipped(s, from, to, now) = Whole(n)
             /\ n \in Nat
             /\ Clipped(s, from, to, now) \in Nat
<1>1. EndOr(s, now) \in Nat /\ sessions[s].started \in Nat
  BY RowsOfUser, EndOfRow
<1>2. Min({EndOr(s, now), to}) = IF EndOr(s, now) <= to THEN EndOr(s, now) ELSE to
  BY <1>1, SmallerOfTwo
<1> DEFINE b == IF sessions[s].started > from THEN sessions[s].started ELSE from
           e == IF EndOr(s, now) <= to THEN EndOr(s, now) ELSE to
           n == IF e > b THEN e - b ELSE 0
<1>3. b \in Nat /\ e \in Nat
  BY <1>1
<1>4. n \in Nat
  <2> HIDE DEF b, e
  <2>1. QED
    BY <1>3
<1>5. Clipped(s, from, to, now) = MinutesBetween(b, e)
  BY <1>2 DEF Clipped, Larger
<1>6. MinutesBetween(b, e) = Whole(n)
  <2> HIDE DEF b, e
  <2>1. QED
    BY MinutesAreWhole
<1> HIDE DEF b, e, n
<1>7. Whole(n) \in Nat
  BY <1>4, WholeBounds
<1>8. QED
  BY <1>4, <1>5, <1>6, <1>7 DEF b, e, n

LEMMA ClippedIsNatural ==
  ASSUME Consistent, IsFiniteSet(Rows), NEW u, NEW s \in SessionsOf(u), NEW now \in Nat, now <= clock,
         NEW from \in Nat, NEW to \in Nat
  PROVE  Clipped(s, from, to, now) \in Nat
BY ClippedTo

\* The rows outside the window contribute nothing.
LEMMA ClippedOutside ==
  ASSUME Consistent, IsFiniteSet(Rows), NEW u, NEW now \in Nat, now <= clock,
         NEW from \in Nat, NEW to \in Nat, NEW s \in SessionsOf(u) \ ListOverlapping(u, from, to)
  PROVE  Clipped(s, from, to, now) = 0
<1>1. /\ sessions[s].started \in Nat /\ EndOr(s, now) \in Nat
      /\ sessions[s].ended # None => EndOr(s, now) = sessions[s].ended
  BY RowsOfUser, EndOfRow
<1>2. sessions[s].started >= to \/ (sessions[s].ended # None /\ EndOr(s, now) <= from)
  BY <1>1 DEF ListOverlapping
<1> DEFINE b == IF sessions[s].started > from THEN sessions[s].started ELSE from
           e == IF EndOr(s, now) <= to THEN EndOr(s, now) ELSE to
<1>3. ~ (e > b)
  BY <1>1, <1>2
<1>4. s \in SessionsOf(u)
  OBVIOUS
<1>5. Clipped(s, from, to, now) = Whole(IF e > b THEN e - b ELSE 0)
  BY <1>4, ClippedTo
<1> HIDE DEF b, e
<1>6. QED
  BY <1>3, <1>5, WholeNothing

\* sumMinutes may as well add up all rows of the user.
LEMMA SumOverRows ==
  ASSUME Consistent, IsFiniteSet(Rows), NEW u, NEW now \in Nat, now <= clock,
         NEW from \in Nat, NEW to \in Nat,
         NEW f, \A s \in SessionsOf(u) : f[s] = Clipped(s, from, to, now)
  PROVE  /\ SumMinutes(u, from, to, now) = SumFunctionOnSet(f, SessionsOf(u))
         /\ SumMinutes(u, from, to, now) \in Int
<1> DEFINE g == [s \in SessionsOf(u) |-> Clipped(s, from, to, now)]
           R == ListOverlapping(u, from, to)
<1>1. IsFiniteSet(SessionsOf(u)) /\ R \in SUBSET SessionsOf(u)
  BY RowsOfUser DEF ListOverlapping
<1>2. /\ \A s \in SessionsOf(u) : g[s] = f[s] /\ g[s] \in Int
      /\ \A s \in SessionsOf(u) \ R : g[s] = 0
  <2>1. \A s \in SessionsOf(u) : g[s] = Clipped(s, from, to, now)
    OBVIOUS
  <2>2. \A s \in SessionsOf(u) : Clipped(s, from, to, now) \in Nat
    BY ClippedIsNatural
  <2>3. \A s \in SessionsOf(u) \ R : Clipped(s, from, to, now) = 0
    BY ClippedOutside
  <2> HIDE DEF g, R
  <2>4. QED
    BY <2>1, <2>2, <2>3
<1>3. SumMinutes(u, from, to, now) = SumFunctionOnSet(g, R)
  BY DEF SumMinutes
<1> HIDE DEF g, R
<1>4. SumFunctionOnSet(g, R) = SumFunctionOnSet(g, SessionsOf(u))
  BY <1>1, <1>2, SumOfPart
<1>5. /\ SumFunctionOnSet(g, SessionsOf(u)) = SumFunctionOnSet(f, SessionsOf(u))
      /\ SumFunctionOnSet(g, SessionsOf(u)) \in Int
  BY <1>1, <1>2, SumCongruent
<1>6. QED
  BY <1>3, <1>4, <1>5

LEMMA SumOfClipped ==
  ASSUME Consistent, IsFiniteSet(Rows), NEW u, NEW now \in Nat, now <= clock,
         NEW from \in Nat, NEW to \in Nat
  PROVE  SumMinutes(u, from, to, now)
         = SumFunctionOnSet([s \in SessionsOf(u) |-> Clipped(s, from, to, now)], SessionsOf(u))
<1> DEFINE c == [s \in SessionsOf(u) |-> Clipped(s, from, to, now)]
<1>1. \A s \in SessionsOf(u) : c[s] = Clipped(s, from, to, now)
  OBVIOUS
<1> HIDE DEF c
<1>2. SumMinutes(u, from, to, now) = SumFunctionOnSet(c, SessionsOf(u))
  BY <1>1, SumOverRows
<1>3. QED
  BY <1>2 DEF c

\* The factors of a product of positive numbers keep its order.
LEMMA ProductOrder ==
  ASSUME NEW m \in Nat, NEW n \in Nat, NEW k \in Nat \ {0}
  PROVE  /\ m * k \in Nat /\ n * k \in Nat
         /\ m <= n => m * k <= n * k
         /\ m * k < n * k => m < n
         /\ (m + 1) * k = m * k + k
OBVIOUS

LEMMA ProductRegrouped ==
  ASSUME NEW m \in Nat, NEW n \in Nat, NEW k \in Nat
  PROVE  m * n \in Nat /\ m * (n * k) = (m * n) * k /\ m * (n * k) + n * k = (m * n + n) * k
OBVIOUS

\* A day lies within its week, and the present within both.
LEMMA DayInWeek ==
  ASSUME NEW now \in Nat
  PROVE  /\ WeekLength \in Nat \ {0}
         /\ StartOfWeek(now) \in Nat /\ StartOfDay(now) \in Nat
         /\ StartOfWeek(now) <= StartOfDay(now)
         /\ StartOfDay(now) <= now /\ now < StartOfDay(now) + DayLength
         /\ StartOfDay(now) + DayLength <= StartOfWeek(now) + WeekLength
<1> DEFINE L == DayLength
           W == WeekDays
           d == now \div L
           k == now \div (W * L)
<1>1. L \in Nat \ {0} /\ W \in Nat \ {0} /\ W * L \in Nat \ {0}
  BY DayAssumption, TotalsAssumption
<1>2. d \in Nat /\ d * L <= now /\ now < d * L + L
  BY <1>1
<1>3. k \in Nat /\ k * (W * L) <= now /\ now < k * (W * L) + W * L
  <2>1. ASSUME NEW m \in Nat \ {0}
        PROVE  now \div m \in Nat /\ (now \div m) * m <= now /\ now < (now \div m) * m + m
    OBVIOUS
  <2>2. QED
    BY <1>1, <2>1
<1>4. k * W \in Nat /\ k * (W * L) = (k * W) * L /\ k * (W * L) + W * L = (k * W + W) * L
  <2> HIDE DEF L, W, k
  <2>1. QED
    BY <1>1, <1>3, ProductRegrouped
<1>5. k * W < d + 1 /\ d < k * W + W
  <2>1. (k * W) * L < (d + 1) * L
    BY <1>1, <1>2, <1>3, <1>4, ProductOrder
  <2>2. d * L < (k * W + W) * L
    BY <1>1, <1>2, <1>3, <1>4, ProductOrder
  <2>3. d + 1 \in Nat /\ k * W + W \in Nat
    BY <1>1, <1>2, <1>4
  <2> HIDE DEF L, W, d, k
  <2>4. QED
    BY <1>1, <1>2, <1>4, <2>1, <2>2, <2>3, ProductOrder
<1>6. k * W <= d /\ d + 1 <= k * W + W
  BY <1>1, <1>2, <1>4, <1>5
<1>7. (k * W) * L <= d * L /\ (d + 1) * L <= (k * W + W) * L /\ (d + 1) * L = d * L + L
  <2>1. d + 1 \in Nat /\ k * W + W \in Nat
    BY <1>1, <1>2, <1>4
  <2> HIDE DEF L, W, d, k
  <2>2. QED
    BY <1>1, <1>2, <1>4, <1>6, <2>1, ProductOrder
<1>8. StartOfWeek(now) = k * (W * L) /\ StartOfDay(now) = d * L /\ WeekLength = W * L
  BY DEF StartOfWeek, StartOfDay, WeekLength, Day
<1>9. k * (W * L) \in Nat /\ d * L \in Nat
  BY <1>1, <1>2, <1>3
<1> HIDE DEF L, W, d, k
<1>10. QED
  BY <1>1, <1>2, <1>4, <1>7, <1>8, <1>9 DEF L

\* A time lies in its week.
LEMMA WeekAhead ==
  ASSUME NEW now \in Nat
  PROVE  /\ StartOfWeek(now) \in Nat /\ StartOfWeek(now) <= now
         /\ StartOfWeek(now) + WeekLength \in Nat /\ now <= StartOfWeek(now) + WeekLength
<1>1. PICK w \in Nat : w = StartOfWeek(now)
  BY DayInWeek
<1>2. PICK d \in Nat : d = StartOfDay(now)
  BY DayInWeek
<1>3. /\ w <= d /\ d <= now /\ now < d + DayLength /\ d + DayLength <= w + WeekLength
      /\ WeekLength \in Nat
  BY <1>1, <1>2, DayInWeek
<1>4. now <= w + WeekLength
  BY <1>3, DayAssumption
<1>5. QED
  BY <1>1, <1>3, <1>4

-----------------------------------------------------------------------------
(* The leaderboard *)

\* What the leaderboard counts of one row is between nothing and what sumMinutes
\* counts, and just that when the row ended in time and fits the cap.
LEMMA CappedTerm ==
  ASSUME Consistent, IsFiniteSet(Rows), NEW u, NEW s \in SessionsOf(u), NEW now \in Nat, now <= clock,
         NEW from \in Nat, NEW to \in Nat, now <= to
  PROVE  LET c == Clipped(s, from, now, now)
             m == Min({SessionCap, c})
         IN  /\ m \in Nat
             /\ m <= Clipped(s, from, to, now)
             /\ c = 0 => m = 0
             /\ EndOr(s, now) <= now /\ c <= SessionCap => m = Clipped(s, from, to, now)
<1>1. PICK c \in Nat : c = Clipped(s, from, now, now)
  BY ClippedIsNatural
<1>2. PICK w \in Nat : w = Clipped(s, from, to, now)
  BY ClippedIsNatural
<1>3. c <= w /\ (EndOr(s, now) <= now => c = w)
  <2>1. EndOr(s, now) \in Nat /\ sessions[s].started \in Nat
    BY EndOfRow, RowsOfUser
  <2> DEFINE b == IF sessions[s].started > from THEN sessions[s].started ELSE from
             e == IF EndOr(s, now) <= now THEN EndOr(s, now) ELSE now
             f == IF EndOr(s, now) <= to THEN EndOr(s, now) ELSE to
             i == IF e > b THEN e - b ELSE 0
             j == IF f > b THEN f - b ELSE 0
  <2>2. c = Whole(i) /\ w = Whole(j)
    BY <1>1, <1>2, ClippedTo
  <2>3. e <= f /\ (EndOr(s, now) <= now => e = f) /\ b \in Nat /\ e \in Nat /\ f \in Nat
    BY <2>1
  <2>4. i \in Nat /\ j \in Nat /\ i <= j /\ (EndOr(s, now) <= now => i = j)
    <3> HIDE DEF b, e, f
    <3>1. QED
      BY <2>3
  <2> HIDE DEF i, j
  <2>5. QED
    BY <2>2, <2>4, WholeOrder
<1>4. Min({SessionCap, c}) = IF SessionCap <= c THEN SessionCap ELSE c
  BY TotalsAssumption, SmallerOfTwo
<1>5. PICK m : m = Min({SessionCap, c})
  OBVIOUS
<1>6. /\ m \in Nat /\ m <= w /\ (c = 0 => m = 0)
      /\ EndOr(s, now) <= now /\ c <= SessionCap => m = w
  BY <1>3, <1>4, <1>5, TotalsAssumption
<1>7. QED
  BY <1>1, <1>2, <1>5, <1>6

LEMMA BoardHolds ==
  ASSUME Consistent, IsFiniteSet(Rows)
  PROVE  BoardAgrees
<1> SUFFICES ASSUME NEW u \in User, NEW now \in 0..clock
             PROVE  LET board == WeeklyTotal(u, StartOfWeek(now), now)
                        week  == WeekMinutes(u, now)
                    IN  /\ board <= week
                        /\ (\A s \in SessionsOf(u) : /\ EndOr(s, now) <= now
                                                     /\ Clipped(s, StartOfWeek(now), now, now) <= SessionCap)
                           => board = week
  BY DEF BoardAgrees
<1>1. now \in Nat /\ now <= clock
  BY RowsOfUser
<1>2. PICK from \in Nat : from = StartOfWeek(now)
  BY <1>1, DayInWeek
<1>3. PICK to \in Nat : to = StartOfWeek(now) + WeekLength
  BY <1>1, WeekAhead
<1>4. from \in Nat /\ to \in Nat /\ now <= to
  BY <1>1, <1>3, WeekAhead
<1> DEFINE S == SessionsOf(u)
           R == ListOverlapping(u, from, now)
           g == [s \in SessionsOf(u) |-> Clipped(s, from, to, now)]
           h == [s \in SessionsOf(u) |-> Min({SessionCap, Clipped(s, from, now, now)})]
           inTime == \A s \in SessionsOf(u) : /\ EndOr(s, now) <= now
                                              /\ Clipped(s, from, now, now) <= SessionCap
<1>5. IsFiniteSet(S) /\ R \in SUBSET S
  BY RowsOfUser DEF ListOverlapping
<1>6. ASSUME NEW s \in S
      PROVE  /\ g[s] \in Nat /\ h[s] \in Nat /\ h[s] <= g[s]
             /\ s \notin R => h[s] = 0
             /\ inTime => h[s] = g[s]
  <2>1. PICK c : c = Clipped(s, from, now, now)
    OBVIOUS
  <2>2. PICK w : w = Clipped(s, from, to, now)
    OBVIOUS
  <2>3. PICK m : m = Min({SessionCap, c})
    OBVIOUS
  <2>4. w \in Nat /\ (s \notin R => c = 0)
    BY <1>1, <1>4, <2>1, <2>2, ClippedIsNatural, ClippedOutside
  <2>5. /\ m \in Nat /\ m <= w /\ (c = 0 => m = 0)
        /\ EndOr(s, now) <= now /\ c <= SessionCap => m = w
    BY <1>1, <1>4, <2>1, <2>2, <2>3, CappedTerm
  <2>6. g[s] = w /\ h[s] = m
    BY <2>1, <2>2, <2>3
  <2>7. inTime => EndOr(s, now) <= now /\ c <= SessionCap
    BY <2>1
  <2> HIDE DEF g, h, R, S, inTime
  <2>8. QED
    BY <2>4, <2>5, <2>6, <2>7
<1>7. WeeklyTotal(u, from, now) = SumFunctionOnSet(h, R)
  BY DEF WeeklyTotal
<1>8. WeekMinutes(u, now) = SumFunctionOnSet(g, S)
  <2>1. \A s \in SessionsOf(u) : g[s] = Clipped(s, from, to, now)
    OBVIOUS
  <2> HIDE DEF g
  <2>2. SumMinutes(u, from, to, now) = SumFunctionOnSet(g, SessionsOf(u))
    BY <1>1, <1>4, <2>1, SumOverRows
  <2>3. QED
    BY <1>2, <1>3, <2>2 DEF WeekMinutes
<1> HIDE DEF g, h, R, S
<1>9. SumFunctionOnSet(h, R) = SumFunctionOnSet(h, S)
  BY <1>5, <1>6, SumOfPart
<1>10. SumFunctionOnSet(h, S) <= SumFunctionOnSet(g, S)
  BY <1>5, <1>6, SumMonotone
<1>11. inTime => SumFunctionOnSet(h, S) = SumFunctionOnSet(g, S)
  BY <1>5, <1>6, SumCongruent
<1>12. QED
  BY <1>2, <1>7, <1>8, <1>9, <1>10, <1>11

\* The leaderboard and the week of /user/me agree as far as they can: the board
\* never shows more, and the same unless a session ended after the time was
\* taken or is longer than the cap (session_repository.go:193-258 beside
\* session_service.go:254-280).
THEOREM BoardIsRight == Spec => []BoardAgrees
<1>1. Consistent /\ IsFiniteSet(Rows) => BoardAgrees
  BY BoardHolds
<1>2. QED
  BY <1>1, AlwaysConsistent, AlwaysFinite, PTL

-----------------------------------------------------------------------------
(* The days of a lifetime *)

\* Minutes of s before the instant t.
MinutesUntil(s, t) ==
  LET e == EndOr(s, clock) IN MinutesBetween(sessions[s].started, IF e <= t THEN e ELSE t)

\* A window that starts where the minutes before it end adds its own, and what the
\* two parts of a session lose is a minute at most.
LEMMA WindowAdds ==
  ASSUME Consistent, IsFiniteSet(Rows), NEW u, NEW s \in SessionsOf(u),
         NEW from \in Nat, NEW to \in Nat, from <= to,
         NEW k, k = IF sessions[s].started < from /\ from < EndOr(s, clock) THEN 1 ELSE 0
  PROVE  LET c == Clipped(s, from, to, clock)
             f == MinutesUntil(s, from)
             g == MinutesUntil(s, to)
         IN  /\ c \in Nat /\ f \in Nat /\ g \in Nat
             /\ c + f <= g
             /\ g <= (c + f) + k
<1>0. clock \in Nat /\ clock <= clock
  BY RowsOfUser
<1>1. PICK b \in Nat, e \in Nat : b = sessions[s].started /\ e = EndOr(s, clock)
  BY <1>0, RowsOfUser, EndOfRow
<1>2. b <= e
  BY <1>0, <1>1, RowsOfUser, EndOfRow
<1> DEFINE Before(t) == LET y == IF e <= t THEN e ELSE t IN IF y > b THEN y - b ELSE 0
           inside == LET x == IF b > from THEN b ELSE from
                         y == IF e <= to THEN e ELSE to
                     IN  IF y > x THEN y - x ELSE 0
<1>3. Clipped(s, from, to, clock) = Whole(inside)
  BY <1>0, <1>1, ClippedTo
<1>4. \A t \in Nat : MinutesUntil(s, t) = Whole(Before(t))
  BY <1>1, MinutesAreWhole DEF MinutesUntil
<1>5. Before(from) \in Nat /\ Before(to) \in Nat /\ inside \in Nat
  BY <1>1
<1>6. Before(to) = inside + Before(from)
  BY <1>2
<1>7. ~ (b < from /\ from < e) => Before(from) = 0 \/ inside = 0
  BY <1>2
<1> HIDE DEF Before, inside
<1>8. PICK x \in Nat, y \in Nat : x = inside /\ y = Before(from) /\ Before(to) = x + y
  BY <1>5, <1>6
<1>9. PICK c \in Nat, f \in Nat, g \in Nat : c = Whole(x) /\ f = Whole(y) /\ g = Whole(x + y)
  BY WholeBounds
<1>10. c + f <= g /\ g <= (c + f) + 1
  BY <1>9, WholeParts
<1>11. k \in {0, 1} /\ (k = 0 => g = c + f)
  <2>1. ASSUME k = 0
        PROVE  g = c + f
    <3>1. y = 0 \/ x = 0
      BY <1>1, <1>7, <1>8, <2>1
    <3>2. (x + y = x /\ y = 0) \/ (x + y = y /\ x = 0)
      BY <3>1
    <3>3. (g = c /\ f = 0) \/ (g = f /\ c = 0)
      BY <1>9, <3>2, WholeNothing
    <3>4. QED
      BY <3>3
  <2>2. QED
    BY <2>1
<1>12. g <= (c + f) + k
  BY <1>10, <1>11
<1>13. Clipped(s, from, to, clock) = c /\ MinutesUntil(s, from) = f /\ MinutesUntil(s, to) = g
  BY <1>3, <1>4, <1>8, <1>9
<1>14. QED
  BY <1>10, <1>12, <1>13

\* The midnights before day m that a session lies across.
Crossed(s, m) ==
  {d \in 1..(m - 1) : sessions[s].started < d * DayLength /\ d * DayLength < EndOr(s, clock)}

LEMMA CrossedToNext ==
  ASSUME Consistent, IsFiniteSet(Rows), NEW u, NEW s \in SessionsOf(u), NEW m \in Nat,
         NEW k, k = IF sessions[s].started < m * DayLength /\ m * DayLength < EndOr(s, clock) THEN 1 ELSE 0
  PROVE  /\ Cardinality(Crossed(s, m)) \in Nat
         /\ Cardinality(Crossed(s, m + 1)) = Cardinality(Crossed(s, m)) + k
<1>0. sessions[s].started \in Nat
  BY RowsOfUser
<1> DEFINE Across(d) == sessions[s].started < d * DayLength /\ d * DayLength < EndOr(s, clock)
<1>1. IsFiniteSet(Crossed(s, m)) /\ Cardinality(Crossed(s, m)) \in Nat
  <2>1. IsFiniteSet(1..(m - 1))
    BY FS_Interval
  <2>2. Crossed(s, m) \in SUBSET (1..(m - 1))
    BY DEF Crossed
  <2>3. QED
    BY <2>1, <2>2, FS_Subset, FS_CardinalityType
<1>2. \A d : d \in 1..((m + 1) - 1) <=> d \in 1..(m - 1) \/ (d = m /\ m # 0)
  OBVIOUS
<1>3. m = 0 => ~ Across(m)
  <2>1. 0 * DayLength = 0
    BY DayAssumption
  <2>2. QED
    BY <1>0, <2>1
<1>4. \A n \in Nat : Crossed(s, n) = {d \in 1..(n - 1) : Across(d)}
  BY DEF Crossed
<1>5. m \notin Crossed(s, m)
  BY DEF Crossed
<1>6. k = IF Across(m) THEN 1 ELSE 0
  OBVIOUS
<1>7. m + 1 \in Nat
  OBVIOUS
<1> HIDE DEF Across
<1>8. CASE Across(m)
  <2>1. Crossed(s, m + 1) = Crossed(s, m) \cup {m}
    BY <1>2, <1>3, <1>4, <1>7, <1>8
  <2>2. QED
    BY <1>1, <1>5, <1>6, <1>8, <2>1, FS_AddElement
<1>9. CASE ~ Across(m)
  <2>1. Crossed(s, m + 1) = Crossed(s, m)
    BY <1>2, <1>4, <1>7, <1>9
  <2>2. QED
    BY <1>1, <1>6, <1>9, <2>1
<1>10. QED
  BY <1>8, <1>9

LEMMA SumToNext ==
  ASSUME NEW f, \A d \in Nat : f[d] \in Int, NEW m \in Nat
  PROVE  SumFunctionOnSet(f, 0..m) = f[m] + SumFunctionOnSet(f, 0..(m - 1))
<1>1. PICK I, J : I = 0..m /\ J = 0..(m - 1)
  OBVIOUS
<1>2. IsFiniteSet(I)
  BY <1>1, FS_Interval
<1>3. m \in I /\ I \ {m} = J /\ \A d \in I : f[d] \in Int
  BY <1>1
<1>4. SumFunctionOnSet(f, I) = f[m] + SumFunctionOnSet(f, I \ {m})
  BY <1>2, <1>3, SumSplit
<1>5. QED
  BY <1>1, <1>3, <1>4

\* The days before day n hold what the sessions lasted until it began, but for a
\* minute at most for each midnight across which one of them lay.
LEMMA DaysUntil ==
  ASSUME Consistent, IsFiniteSet(Rows), NEW u, NEW n \in Nat,
         NEW E, \A d \in Nat : E[d] = SumMinutes(u, d * DayLength, (d + 1) * DayLength, clock)
  PROVE  LET S    == SessionsOf(u)
             days == SumFunctionOnSet(E, 0..(n - 1))
             all  == SumFunctionOnSet([s \in SessionsOf(u) |-> MinutesUntil(s, n * DayLength)], S)
             cuts == SumFunctionOnSet([s \in SessionsOf(u) |-> Cardinality(Crossed(s, n))], S)
         IN  /\ days \in Int /\ all \in Int /\ cuts \in Int
             /\ days <= all /\ all <= days + cuts
<1> DEFINE S == SessionsOf(u)
           Until(m) == [s \in SessionsOf(u) |-> MinutesUntil(s, m * DayLength)]
           Cuts(m) == [s \in SessionsOf(u) |-> Cardinality(Crossed(s, m))]
           Days(m) == SumFunctionOnSet(E, 0..(m - 1))
           Q == {m \in Nat : /\ Days(m) \in Int
                             /\ Days(m) <= SumFunctionOnSet(Until(m), S)
                             /\ SumFunctionOnSet(Until(m), S) <= Days(m) + SumFunctionOnSet(Cuts(m), S)}
<1>0. IsFiniteSet(S) /\ clock \in Nat /\ clock <= clock
  BY RowsOfUser
<1>1. \A m \in Nat : m * DayLength \in Nat /\ (m + 1) * DayLength \in Nat /\ m * DayLength <= (m + 1) * DayLength
  BY DayAssumption, ProductOrder
<1>2. \A m \in Nat : \A s \in S : Until(m)[s] \in Nat /\ Cuts(m)[s] \in Nat
  <2>1. ASSUME NEW m \in Nat, NEW s \in S
        PROVE  Until(m)[s] \in Nat /\ Cuts(m)[s] \in Nat
    <3>1. Until(m)[s] = MinutesUntil(s, m * DayLength) /\ Cuts(m)[s] = Cardinality(Crossed(s, m))
      OBVIOUS
    <3>2. MinutesUntil(s, m * DayLength) \in Nat
      BY <1>1, WindowAdds
    <3>3. Cardinality(Crossed(s, m)) \in Nat
      BY CrossedToNext
    <3> HIDE DEF Until, Cuts
    <3>4. QED
      BY <3>1, <3>2, <3>3
  <2> HIDE DEF Until, Cuts, S
  <2>2. QED
    BY <2>1
<1>3. \A m \in Nat : SumFunctionOnSet(Until(m), S) \in Int /\ SumFunctionOnSet(Cuts(m), S) \in Int
  <2>1. ASSUME NEW f, \A s \in S : f[s] \in Nat
        PROVE  SumFunctionOnSet(f, S) \in Int
    <3>1. \A s \in S : f[s] = f[s] /\ f[s] \in Int
      BY <2>1
    <3> HIDE DEF S
    <3>2. QED
      BY <1>0, <3>1, SumCongruent
  <2> HIDE DEF Until, Cuts, S
  <2>2. QED
    BY <1>2, <2>1
<1>4. 0 \in Q
  <2>1. \A s \in S : MinutesUntil(s, 0) = 0
    <3>1. ASSUME NEW s \in S PROVE MinutesUntil(s, 0) = 0
      <4>1. sessions[s].started \in Nat /\ EndOr(s, clock) \in Nat
        BY <1>0, RowsOfUser, EndOfRow
      <4>2. QED
        BY <4>1 DEF MinutesUntil, MinutesBetween
    <3>2. QED
      BY <3>1
  <2>2. 0 * DayLength = 0
    BY DayAssumption
  <2>3. \A s \in S : Until(0)[s] = 0
    BY <2>1, <2>2
  <2>4. 0..(0 - 1) = {}
    OBVIOUS
  <2>5. Days(0) = 0
    BY <2>4, SumOfNothing
  <2> HIDE DEF Until, Cuts, S, Days
  <2>6. SumFunctionOnSet(Until(0), S) = 0
    <3>1. {} \in SUBSET S /\ \A s \in S : Until(0)[s] \in Int
      BY <2>3
    <3>2. SumFunctionOnSet(Until(0), {}) = SumFunctionOnSet(Until(0), S)
      BY <1>0, <2>3, <3>1, SumOfPart
    <3>3. QED
      BY <3>2, SumOfNothing
  <2>7. 0 <= SumFunctionOnSet(Cuts(0), S)
    <3>1. \A s \in S : Until(0)[s] \in Int /\ Cuts(0)[s] \in Int /\ Until(0)[s] <= Cuts(0)[s]
      BY <1>2, <2>3
    <3>2. SumFunctionOnSet(Until(0), S) <= SumFunctionOnSet(Cuts(0), S)
      BY <1>0, <3>1, SumMonotone
    <3>3. QED
      BY <2>6, <3>2
  <2>8. QED
    BY <1>3, <2>5, <2>6, <2>7
<1>5. ASSUME NEW m \in Nat, m \in Q
      PROVE  m + 1 \in Q
  <2>1. PICK from \in Nat : from = m * DayLength
    BY <1>1
  <2>2. PICK to \in Nat : to = (m + 1) * DayLength
    BY <1>1
  <2>3. from <= to
    BY <1>1, <2>1, <2>2
  <2> DEFINE c == [s \in SessionsOf(u) |-> Clipped(s, from, to, clock)]
             k == [s \in SessionsOf(u) |->
                     IF sessions[s].started < from /\ from < EndOr(s, clock) THEN 1 ELSE 0]
             f == Until(m)
             g == Until(m + 1)
             x == Cuts(m)
             y == Cuts(m + 1)
             cf == [s \in SessionsOf(u) |-> c[s] + f[s]]
             cfk == [s \in SessionsOf(u) |-> cf[s] + k[s]]
  <2>4. ASSUME NEW s \in S
        PROVE  /\ c[s] \in Int /\ k[s] \in Int /\ f[s] \in Int /\ g[s] \in Int /\ x[s] \in Int /\ y[s] \in Int
               /\ cf[s] \in Int /\ cf[s] = c[s] + f[s]
               /\ cfk[s] \in Int /\ cfk[s] = cf[s] + k[s]
               /\ cf[s] <= g[s] /\ g[s] <= cfk[s]
               /\ y[s] = x[s] + k[s]
    <3>1. PICK i : i = IF sessions[s].started < from /\ from < EndOr(s, clock) THEN 1 ELSE 0
      OBVIOUS
    <3>2. /\ c[s] = Clipped(s, from, to, clock) /\ f[s] = MinutesUntil(s, from)
          /\ g[s] = MinutesUntil(s, to) /\ k[s] = i
      BY <2>1, <2>2, <3>1
    <3>3. x[s] = Cardinality(Crossed(s, m)) /\ y[s] = Cardinality(Crossed(s, m + 1))
      OBVIOUS
    <3>4. cf[s] = c[s] + f[s] /\ cfk[s] = cf[s] + k[s]
      OBVIOUS
    <3> HIDE DEF c, k, f, g, x, y, cf, cfk
    <3>5. /\ c[s] \in Nat /\ f[s] \in Nat /\ g[s] \in Nat
          /\ c[s] + f[s] <= g[s] /\ g[s] <= (c[s] + f[s]) + i
      BY <2>3, <3>1, <3>2, WindowAdds
    <3>6. x[s] \in Nat /\ y[s] = x[s] + i
      BY <2>1, <3>1, <3>3, CrossedToNext
    <3>7. i \in Nat
      BY <3>1
    <3>8. cf[s] \in Nat /\ cfk[s] \in Nat /\ y[s] \in Nat
      BY <3>2, <3>4, <3>5, <3>6, <3>7
    <3>9. QED
      BY <3>2, <3>4, <3>5, <3>6, <3>7, <3>8
  <2>5. E[m] = SumFunctionOnSet(c, S)
    <3> HIDE DEF k, f, g, x, y, cf, cfk, Until, Cuts, Days, Q
    <3>1. SumMinutes(u, from, to, clock) = SumFunctionOnSet(c, S)
      BY <1>0, SumOfClipped
    <3>2. QED
      BY <2>1, <2>2, <3>1
  <2>6. \A d \in Nat : E[d] \in Int
    <3>1. ASSUME NEW d \in Nat
          PROVE  E[d] \in Int
      <4> DEFINE h == [s \in SessionsOf(u) |-> Clipped(s, d * DayLength, (d + 1) * DayLength, clock)]
      <4>1. \A s \in SessionsOf(u) : h[s] = Clipped(s, d * DayLength, (d + 1) * DayLength, clock)
        OBVIOUS
      <4> HIDE DEF h
      <4>2. SumMinutes(u, d * DayLength, (d + 1) * DayLength, clock) \in Int
        BY <1>0, <1>1, <4>1, SumOverRows
      <4>3. QED
        BY <4>2
    <3>2. QED
      BY <3>1
  <2>7. Days(m + 1) = E[m] + Days(m)
    <3>1. SumFunctionOnSet(E, 0..m) = E[m] + SumFunctionOnSet(E, 0..(m - 1))
      BY <2>6, SumToNext
    <3>2. (m + 1) - 1 = m
      OBVIOUS
    <3>3. QED
      BY <3>1, <3>2
  <2> HIDE DEF c, k, f, g, x, y, cf, cfk, S, Days, Until, Cuts
  <2>8. SumFunctionOnSet(cf, S) = SumFunctionOnSet(c, S) + SumFunctionOnSet(f, S)
    BY <1>0, <2>4, SumAdded
  <2>9. SumFunctionOnSet(cfk, S) = SumFunctionOnSet(cf, S) + SumFunctionOnSet(k, S)
    BY <1>0, <2>4, SumAdded
  <2>10. SumFunctionOnSet(y, S) = SumFunctionOnSet(x, S) + SumFunctionOnSet(k, S)
    BY <1>0, <2>4, SumAdded
  <2>11. SumFunctionOnSet(cf, S) <= SumFunctionOnSet(g, S) /\ SumFunctionOnSet(g, S) <= SumFunctionOnSet(cfk, S)
    BY <1>0, <2>4, SumMonotone
  <2>12. PICK C \in Int, K \in Int, F \in Int, G \in Int, X \in Int, D \in Int :
           /\ C = SumFunctionOnSet(c, S) /\ K = SumFunctionOnSet(k, S) /\ F = SumFunctionOnSet(f, S)
           /\ G = SumFunctionOnSet(g, S) /\ X = SumFunctionOnSet(x, S) /\ D = Days(m)
    <3>1. /\ SumFunctionOnSet(c, S) \in Int /\ SumFunctionOnSet(k, S) \in Int
          /\ SumFunctionOnSet(f, S) \in Int /\ SumFunctionOnSet(g, S) \in Int
          /\ SumFunctionOnSet(x, S) \in Int
      BY <1>0, <2>4, SumCongruent
    <3>2. QED
      BY <1>5, <3>1
  <2>13. D <= F /\ F <= D + X
    BY <1>5, <2>12 DEF f, x
  <2>14. /\ Days(m + 1) = C + D
         /\ SumFunctionOnSet(y, S) = X + K
         /\ C + F <= G /\ G <= (C + F) + K
    BY <2>5, <2>7, <2>8, <2>9, <2>10, <2>11, <2>12
  <2>15. C + D \in Int /\ C + D <= G /\ G <= (C + D) + (X + K)
    BY <2>13, <2>14
  <2>16. m + 1 \in Nat
    OBVIOUS
  <2>17. QED
    BY <2>12, <2>14, <2>15, <2>16 DEF g, y
<1>6. n \in Q
  <2>1. \A m \in Nat : m \in Q => m + 1 \in Q
    BY <1>5
  <2> HIDE DEF Q
  <2>2. QED
    BY <1>4, <2>1, NaturalsReached
<1>7. QED
  BY <1>3, <1>6

\* What a row that no correction has touched says of its minutes.
LEMMA UntouchedDuration ==
  ASSUME Consistent, AuditChain, NEW u, NEW s \in SessionsOf(u), audit[s] = <<>>,
         sessions[s].status = "finished"
  PROVE  sessions[s].duration = MinutesBetween(sessions[s].started, sessions[s].ended)
<1>1. s \in SessionId
  BY DEF SessionsOf
<1>2. OutcomeOf(s) = ClosingOutcome(s)
  BY <1>1 DEF AuditChain
<1>3. QED
  BY <1>2 DEF OutcomeOf, ClosingOutcome

LEMMA DaysHold ==
  ASSUME Consistent, IsFiniteSet(Rows), AuditChain
  PROVE  DaysAddUp
<1> SUFFICES ASSUME NEW u \in User, \A s \in SessionsOf(u) : audit[s] = <<>>
             PROVE  LET days  == SumFunction([d \in 0..Day(clock) |->
                                    SumMinutes(u, d * DayLength, (d + 1) * DayLength, clock)])
                        whole == LifetimeMinutes(u)
                                 + SumFunction([s \in ActiveOf(u) |-> MinutesBetween(sessions[s].started, clock)])
                    IN  /\ days <= whole
                        /\ whole <= days + SumFunction([s \in SessionsOf(u) |-> Cardinality(Midnights(s))])
  BY DEF DaysAddUp
<1>0. /\ clock \in Nat /\ clock <= clock /\ Day(clock) \in Nat
      /\ Day(clock) + 1 \in Nat /\ (Day(clock) + 1) - 1 = Day(clock)
  BY RowsOfUser, DayIsNatural
<1> DEFINE S == SessionsOf(u)
           N == Day(clock) + 1
           F == [d \in 0..Day(clock) |-> SumMinutes(u, d * DayLength, (d + 1) * DayLength, clock)]
           E == [d \in Nat |-> SumMinutes(u, d * DayLength, (d + 1) * DayLength, clock)]
           G == [s \in SessionsOf(u) |-> MinutesUntil(s, N * DayLength)]
           cuts == [s \in SessionsOf(u) |-> Cardinality(Midnights(s))]
           Fin == {s \in SessionsOf(u) : sessions[s].status = "finished"}
           Act == ActiveOf(u)
           fin == [s \in {r \in SessionsOf(u) : sessions[r].status = "finished"} |-> sessions[s].duration]
           act == [s \in ActiveOf(u) |-> MinutesBetween(sessions[s].started, clock)]
           p == [s \in SessionsOf(u) |-> IF sessions[s].status = "finished" THEN G[s] ELSE 0]
           q == [s \in SessionsOf(u) |-> IF sessions[s].status = "active" THEN G[s] ELSE 0]
<1>1. IsFiniteSet(S) /\ Fin \in SUBSET S /\ Act \in SUBSET S
  BY RowsOfUser DEF ActiveOf, SessionsOf
<1>2. SumFunction(F) = SumFunctionOnSet(E, 0..(N - 1))
  <2>1. \A d \in 0..Day(clock) : d \in Nat /\ F[d] = E[d]
    BY <1>0
  <2>2. \A d \in 0..Day(clock) : F[d] \in Int
    <3>1. ASSUME NEW d \in 0..Day(clock)
          PROVE  F[d] \in Int
      <4>1. d * DayLength \in Nat /\ (d + 1) * DayLength \in Nat
        BY <2>1, DayAssumption
      <4> DEFINE k == [s \in SessionsOf(u) |-> Clipped(s, d * DayLength, (d + 1) * DayLength, clock)]
      <4>2. \A s \in SessionsOf(u) : k[s] = Clipped(s, d * DayLength, (d + 1) * DayLength, clock)
        OBVIOUS
      <4> HIDE DEF k
      <4>3. SumMinutes(u, d * DayLength, (d + 1) * DayLength, clock) \in Int
        BY <1>0, <4>1, <4>2, SumOverRows
      <4>4. QED
        BY <4>3
    <3>2. QED
      BY <3>1
  <2>3. DOMAIN F = 0..Day(clock) /\ 0..Day(clock) = 0..(N - 1)
    BY <1>0
  <2>4. IsFiniteSet(0..Day(clock))
    BY <1>0, FS_Interval
  <2> HIDE DEF E, F, N
  <2>5. SumFunctionOnSet(F, 0..Day(clock)) = SumFunctionOnSet(E, 0..Day(clock))
    BY <2>1, <2>2, <2>4, SumCongruent
  <2>6. QED
    BY <2>3, <2>5 DEF SumFunction
<1>3. /\ SumFunctionOnSet(E, 0..(N - 1)) \in Int /\ SumFunctionOnSet(G, S) \in Int /\ SumFunction(cuts) \in Int
      /\ SumFunctionOnSet(E, 0..(N - 1)) <= SumFunctionOnSet(G, S)
      /\ SumFunctionOnSet(G, S) <= SumFunctionOnSet(E, 0..(N - 1)) + SumFunction(cuts)
  <2>1. \A d \in Nat : E[d] = SumMinutes(u, d * DayLength, (d + 1) * DayLength, clock)
    OBVIOUS
  <2>2. N \in Nat
    BY <1>0
  <2>3. \A s : Midnights(s) = Crossed(s, N)
    BY <1>0 DEF Midnights, Crossed
  <2>4. cuts = [s \in SessionsOf(u) |-> Cardinality(Crossed(s, N))]
    BY <2>3
  <2>5. DOMAIN cuts = S
    OBVIOUS
  <2> HIDE DEF E, N, cuts
  <2>6. SumFunction(cuts) = SumFunctionOnSet([s \in SessionsOf(u) |-> Cardinality(Crossed(s, N))], S)
    BY <2>4, <2>5 DEF SumFunction
  <2>7. QED
    BY <2>1, <2>2, <2>6, DaysUntil
<1>4. ASSUME NEW s \in S
      PROVE  G[s] = MinutesBetween(sessions[s].started, EndOr(s, clock)) /\ G[s] \in Nat
  <2>1. EndOr(s, clock) \in Nat /\ EndOr(s, clock) <= clock /\ sessions[s].started \in Nat
    BY <1>0, RowsOfUser, EndOfRow
  <2>2. clock < N * DayLength /\ N * DayLength \in Nat
    BY <1>0, DayAssumption DEF Day
  <2>3. EndOr(s, clock) <= N * DayLength
    BY <1>0, <2>1, <2>2
  <2> HIDE DEF N
  <2>4. QED
    BY <2>1, <2>3, MinutesAreNatural DEF MinutesUntil
<1>5. ASSUME NEW s \in S
      PROVE  /\ p[s] \in Int /\ q[s] \in Int /\ G[s] = p[s] + q[s]
             /\ s \in Fin => p[s] = fin[s] /\ fin[s] \in Int
             /\ s \notin Fin => p[s] = 0
             /\ s \in Act => q[s] = act[s] /\ act[s] \in Int
             /\ s \notin Act => q[s] = 0
  <2>1. PICK m \in Nat : m = G[s]
    BY <1>4
  <2>2. /\ s \in SessionId /\ sessions[s].user = u
        /\ sessions[s].status \in {"active", "finished"}
        /\ sessions[s].status = "active" => sessions[s].ended = None
        /\ sessions[s].status = "finished" => sessions[s].ended \in Nat
    BY RowsOfUser
  <2>3. p[s] = (IF sessions[s].status = "finished" THEN m ELSE 0)
    BY <2>1
  <2>4. q[s] = (IF sessions[s].status = "active" THEN m ELSE 0)
    BY <2>1
  <2>5. s \in Fin <=> sessions[s].status = "finished"
    OBVIOUS
  <2>6. s \in Act <=> sessions[s].status = "active"
    BY <2>2 DEF ActiveOf
  <2>7. s \in Fin => fin[s] = m
    <3>1. SUFFICES ASSUME s \in Fin PROVE fin[s] = m
      OBVIOUS
    <3>2. fin[s] = sessions[s].duration
      BY <3>1
    <3>3. sessions[s].duration = MinutesBetween(sessions[s].started, sessions[s].ended)
      BY <2>5, <3>1, UntouchedDuration
    <3>4. EndOr(s, clock) = sessions[s].ended
      BY <2>2, <2>5, <3>1, NoneIsNoTime DEF EndOr
    <3>5. QED
      BY <1>4, <2>1, <3>2, <3>3, <3>4
  <2>8. s \in Act => act[s] = m
    <3>1. SUFFICES ASSUME s \in Act PROVE act[s] = m
      OBVIOUS
    <3>2. act[s] = MinutesBetween(sessions[s].started, clock)
      BY <3>1
    <3>3. EndOr(s, clock) = clock
      BY <2>2, <2>6, <3>1 DEF EndOr
    <3>4. QED
      BY <1>4, <2>1, <3>2, <3>3
  <2> HIDE DEF p, q, G, fin, act, Fin, Act, S
  <2>9. QED
    BY <2>1, <2>2, <2>3, <2>4, <2>5, <2>6, <2>7, <2>8
<1>6. LifetimeMinutes(u) = SumFunctionOnSet(fin, Fin)
  <2>1. DOMAIN fin = Fin
    OBVIOUS
  <2>2. LifetimeMinutes(u) = SumFunction(fin)
    BY DEF LifetimeMinutes
  <2> HIDE DEF fin, Fin
  <2>3. QED
    BY <2>1, <2>2 DEF SumFunction
<1>7. SumFunction(act) = SumFunctionOnSet(act, Act)
  <2>1. DOMAIN act = Act
    OBVIOUS
  <2> HIDE DEF act, Act
  <2>2. QED
    BY <2>1 DEF SumFunction
<1> HIDE DEF S, N, F, E, G, Fin, Act, fin, act, p, q, cuts
<1>8. SumFunctionOnSet(G, S) = SumFunctionOnSet(p, S) + SumFunctionOnSet(q, S)
  BY <1>1, <1>5, SumAdded
<1>9. SumFunctionOnSet(p, S) = SumFunctionOnSet(fin, Fin)
  <2>1. SumFunctionOnSet(p, Fin) = SumFunctionOnSet(p, S)
    BY <1>1, <1>5, SumOfPart
  <2>2. IsFiniteSet(Fin) /\ \A s \in Fin : p[s] = fin[s] /\ p[s] \in Int
    BY <1>1, <1>5, FS_Subset
  <2>3. QED
    BY <2>1, <2>2, SumCongruent
<1>10. SumFunctionOnSet(q, S) = SumFunctionOnSet(act, Act)
  <2>1. SumFunctionOnSet(q, Act) = SumFunctionOnSet(q, S)
    BY <1>1, <1>5, SumOfPart
  <2>2. IsFiniteSet(Act) /\ \A s \in Act : q[s] = act[s] /\ q[s] \in Int
    BY <1>1, <1>5, FS_Subset
  <2>3. QED
    BY <2>1, <2>2, SumCongruent
<1>11. SumFunctionOnSet(G, S) = LifetimeMinutes(u) + SumFunction(act)
  BY <1>6, <1>7, <1>8, <1>9, <1>10
<1>12. /\ SumFunction(F) <= LifetimeMinutes(u) + SumFunction(act)
       /\ LifetimeMinutes(u) + SumFunction(act) <= SumFunction(F) + SumFunction(cuts)
  BY <1>2, <1>3, <1>11
<1>13. QED
  BY <1>12 DEF F, act, cuts

\* A session over midnight is split between its days: while no correction has touched a
\* row, the days' minutes sum to no more than total_minutes and the running session, and
\* to less by at most a minute for each midnight a session lies across, where both parts
\* are cut down to whole minutes (session_service.go:268-277, utils/time.go:29-34).
THEOREM DaysMakeALifetime == Spec => []DaysAddUp
<1>1. Consistent /\ IsFiniteSet(Rows) /\ AuditChain => DaysAddUp
  BY DaysHold
<1>2. QED
  BY <1>1, AlwaysConsistent, AlwaysFinite, AuditIsChain, PTL

-----------------------------------------------------------------------------
(* The minutes of a week *)

\* They are an interval, of the size one expects.
LEMMA OpenSize ==
  ASSUME Consistent, IsFiniteSet(Rows), NEW u, NEW s \in SessionsOf(u), NEW from \in Nat, NEW to \in Nat
  PROVE  LET b == IF sessions[s].created > from THEN sessions[s].created ELSE from
             e == IF EndOr(s, clock) <= to THEN EndOr(s, clock) ELSE to
         IN  /\ IsFiniteSet(OpenIn(s, from, to))
             /\ Cardinality(OpenIn(s, from, to)) = IF e > b THEN e - b ELSE 0
<1>0. clock \in Nat /\ clock <= clock
  BY RowsOfUser
<1>1. PICK c \in Nat, f \in Nat : c = sessions[s].created /\ f = EndOr(s, clock)
  BY <1>0, RowsOfUser, EndOfRow
<1> DEFINE b == IF c > from THEN c ELSE from
           e == IF f <= to THEN f ELSE to
<1>2. b \in Nat /\ e \in Nat /\ b \in Int /\ e - 1 \in Int
  OBVIOUS
<1>3. OpenIn(s, from, to) = b..(e - 1)
  BY <1>1 DEF OpenIn
<1>4. IsFiniteSet(b..(e - 1)) /\ Cardinality(b..(e - 1)) = IF b > e - 1 THEN 0 ELSE (e - 1) - b + 1
  <2> HIDE DEF b, e
  <2>1. QED
    BY <1>2, FS_Interval
<1>5. (IF b > e - 1 THEN 0 ELSE (e - 1) - b + 1) = IF e > b THEN e - b ELSE 0
  <2> HIDE DEF b, e
  <2>1. QED
    BY <1>2
<1>6. QED
  BY <1>1, <1>3, <1>4, <1>5

LEMMA StudiedTogether ==
  ASSUME NEW u, NEW from, NEW to, NEW B, \A s \in SessionsOf(u) : B[s] = OpenIn(s, from, to)
  PROVE  Studied(u, from, to) = Cardinality(UNION {B[s] : s \in SessionsOf(u)})
<1>1. {OpenIn(s, from, to) : s \in SessionsOf(u)} = {B[s] : s \in SessionsOf(u)}
  OBVIOUS
<1>2. QED
  BY <1>1 DEF Studied

\* Of one user's sessions no two are open at the same instant.
LEMMA OpenApart ==
  ASSUME Consistent, IsFiniteSet(Rows), Disjoint, NEW u \in User, NEW from \in Nat, NEW to \in Nat,
         NEW s \in SessionsOf(u), NEW r \in SessionsOf(u), s # r
  PROVE  OpenIn(s, from, to) \cap OpenIn(r, from, to) = {}
<1>0. clock \in Nat /\ clock <= clock
  BY RowsOfUser
<1>1. ASSUME NEW x \in SessionsOf(u), NEW y \in SessionsOf(u), Precedes(x, y)
      PROVE  OpenIn(x, from, to) \cap OpenIn(y, from, to) = {}
  <2>1. /\ sessions[x].ended \in Nat /\ sessions[x].ended <= sessions[y].created
        /\ sessions[y].created \in Nat
    BY <1>1, RowsOfUser DEF Precedes
  <2>2. EndOr(x, clock) = sessions[x].ended
    BY <2>1, NoneIsNoTime DEF EndOr
  <2>3. \A t \in from..(to - 1) : ~ (t < sessions[x].ended /\ sessions[y].created <= t)
    BY <2>1
  <2>4. QED
    BY <2>2, <2>3 DEF OpenIn
<1>2. Precedes(s, r) \/ Precedes(r, s)
  BY RowsOfUser, NoneIsNoId DEF Disjoint
<1>3. QED
  BY <1>1, <1>2

\* What sumMinutes counts of a row: the time it was open until now exceeds that by less
\* than a minute, and it stands for no more than the time it was open until the reading
\* and the delay of its INSERT.
LEMMA CountedTerm ==
  ASSUME Consistent, IsFiniteSet(Rows), NEW u, NEW s \in SessionsOf(u), NEW now \in Nat, now <= clock,
         NEW from \in Nat, NEW to \in Nat, now <= to, NEW until \in Nat,
         until = IF to <= clock THEN to ELSE clock
  PROVE  LET w == Clipped(s, from, to, now) * MinuteLength
             r == IF OpenIn(s, from, now) = {} THEN 0 ELSE MinuteLength - 1
         IN  /\ w \in Nat
             /\ Cardinality(OpenIn(s, from, now)) <= w + r
             /\ w <= Cardinality(OpenIn(s, from, until)) + (sessions[s].created - sessions[s].started)
<1>0. clock \in Nat /\ clock <= clock
  BY RowsOfUser
<1>1. PICK a \in Nat, c \in Nat : a = sessions[s].started /\ c = sessions[s].created
  BY RowsOfUser
<1>2. PICK f \in Nat, g \in Nat : f = EndOr(s, now) /\ g = EndOr(s, clock)
  BY <1>0, EndOfRow
<1>3. a <= c /\ f <= g /\ g <= clock /\ (g <= f \/ f = now)
  BY <1>0, <1>1, <1>2, RowsOfUser, EndOfRow
<1>4. PICK k \in Nat : k = LET b == IF a > from THEN a ELSE from
                              e == IF f <= to THEN f ELSE to
                          IN  IF e > b THEN e - b ELSE 0
  <2>1. ASSUME NEW b \in Nat, NEW e \in Nat
        PROVE  (IF e > b THEN e - b ELSE 0) \in Nat
    OBVIOUS
  <2>2. (IF a > from THEN a ELSE from) \in Nat /\ (IF f <= to THEN f ELSE to) \in Nat
    OBVIOUS
  <2>3. QED
    BY <2>1, <2>2
<1>5. PICK m \in Nat, n \in Nat : m = Cardinality(OpenIn(s, from, now)) /\ n = Cardinality(OpenIn(s, from, until))
  BY OpenSize, FS_CardinalityType
<1>6. Clipped(s, from, to, now) = Whole(k)
  BY <1>1, <1>2, <1>4, ClippedTo
<1>7. m = LET b == IF c > from THEN c ELSE from
              e == IF g <= now THEN g ELSE now
          IN  IF e > b THEN e - b ELSE 0
  BY <1>1, <1>2, <1>5, OpenSize
<1>8. n = LET b == IF c > from THEN c ELSE from
              e == IF g <= until THEN g ELSE until
          IN  IF e > b THEN e - b ELSE 0
  BY <1>1, <1>2, <1>5, OpenSize
<1>9. m <= k
  BY <1>3, <1>4, <1>7
<1>10. k <= n + (c - a)
  BY <1>0, <1>3, <1>4, <1>8
<1>11. PICK l \in Nat : l = MinuteLength - 1
  BY MinuteAssumption
<1>12. PICK w \in Nat : w = Whole(k) * MinuteLength
  BY WholeBounds, MinuteAssumption
<1>13. w <= k /\ k <= w + l
  BY <1>11, <1>12, WholeBounds
<1>14. OpenIn(s, from, now) = {} => m = 0
  BY <1>5, FS_EmptySet
<1>15. m <= w + l /\ (m = 0 => m <= w + 0) /\ w <= n + (c - a)
  BY <1>3, <1>9, <1>10, <1>13
<1>16. QED
  BY <1>1, <1>5, <1>6, <1>11, <1>12, <1>14, <1>15

LEMMA MinutesHold ==
  ASSUME Consistent, IsFiniteSet(Rows), Disjoint
  PROVE  MinutesCounted
<1> SUFFICES ASSUME NEW u \in User, NEW now \in 0..clock
             PROVE  LET from    == StartOfWeek(now)
                        to      == from + WeekLength
                        sum     == WeekMinutes(u, now)
                        counted == {s \in SessionsOf(u) : OpenIn(s, from, now) # {}}
                    IN  /\ Studied(u, from, now) <= sum * MinuteLength + Cardinality(counted) * (MinuteLength - 1)
                        /\ sum * MinuteLength <= Studied(u, from, Min({to, clock})) + Delays(u)
                        /\ TodayMinutes(u, now) <= sum
  BY DEF MinutesCounted
<1>1. now \in Nat /\ now <= clock /\ clock \in Nat
  BY RowsOfUser
<1>2. PICK from \in Nat : from = StartOfWeek(now)
  BY <1>1, DayInWeek
<1>3. PICK to \in Nat : to = StartOfWeek(now) + WeekLength
  BY <1>1, WeekAhead
<1>4. now <= to
  BY <1>1, <1>3, WeekAhead
<1>5. PICK until \in Nat : until = IF to <= clock THEN to ELSE clock
  BY <1>1
<1>6. Min({to, clock}) = until
  BY <1>1, <1>5, SmallerOfTwo
<1>7. PICK day \in Nat, dayEnd \in Nat : day = StartOfDay(now) /\ dayEnd = StartOfDay(now) + DayLength
  BY <1>1, DayInWeek, DayAssumption
<1>8. from <= day /\ dayEnd <= to
  BY <1>1, <1>2, <1>3, <1>7, DayInWeek
<1> DEFINE S == SessionsOf(u)
           g == [s \in SessionsOf(u) |-> Clipped(s, from, to, now)]
           h == [s \in SessionsOf(u) |-> Clipped(s, day, dayEnd, now)]
           A == [s \in SessionsOf(u) |-> OpenIn(s, from, now)]
           B == [s \in SessionsOf(u) |-> OpenIn(s, from, until)]
           a == [s \in SessionsOf(u) |-> Cardinality(OpenIn(s, from, now))]
           b == [s \in SessionsOf(u) |-> Cardinality(OpenIn(s, from, until))]
           d == [s \in SessionsOf(u) |-> sessions[s].created - sessions[s].started]
           e == [s \in SessionsOf(u) |-> b[s] + d[s]]
           w == [s \in SessionsOf(u) |-> g[s] * MinuteLength]
           C == {s \in SessionsOf(u) : OpenIn(s, from, now) # {}}
           r == [s \in SessionsOf(u) |-> IF s \in C THEN MinuteLength - 1 ELSE 0]
           v == [s \in SessionsOf(u) |-> w[s] + r[s]]
<1>9. IsFiniteSet(S)
  BY RowsOfUser
<1>10. WeekMinutes(u, now) = SumFunctionOnSet(g, S)
  <2>1. \A s \in SessionsOf(u) : g[s] = Clipped(s, from, to, now)
    OBVIOUS
  <2> HIDE DEF g
  <2>2. SumMinutes(u, from, to, now) = SumFunctionOnSet(g, SessionsOf(u))
    BY <1>1, <2>1, SumOverRows
  <2>3. QED
    BY <1>2, <1>3, <2>2 DEF WeekMinutes
<1>11. TodayMinutes(u, now) = SumFunctionOnSet(h, S)
  <2>1. \A s \in SessionsOf(u) : h[s] = Clipped(s, day, dayEnd, now)
    OBVIOUS
  <2> HIDE DEF h
  <2>2. SumMinutes(u, day, dayEnd, now) = SumFunctionOnSet(h, SessionsOf(u))
    BY <1>1, <2>1, SumOverRows
  <2>3. QED
    BY <1>7, <2>2 DEF TodayMinutes
<1>12. Delays(u) = SumFunctionOnSet(d, S)
  <2>1. DOMAIN d = S /\ Delays(u) = SumFunction(d)
    BY DEF Delays
  <2> HIDE DEF d, S
  <2>2. QED
    BY <2>1 DEF SumFunction
<1>13. ASSUME NEW s \in S
       PROVE  /\ IsFiniteSet(A[s]) /\ a[s] = Cardinality(A[s]) /\ a[s] \in Int
              /\ IsFiniteSet(B[s]) /\ b[s] = Cardinality(B[s]) /\ b[s] \in Int
              /\ d[s] \in Int /\ e[s] \in Int /\ e[s] = b[s] + d[s]
              /\ g[s] \in Int /\ h[s] \in Int /\ w[s] \in Int /\ w[s] = g[s] * MinuteLength
              /\ r[s] = (IF s \in C THEN MinuteLength - 1 ELSE 0) /\ r[s] \in Int
              /\ v[s] = w[s] + r[s] /\ v[s] \in Int
              /\ a[s] <= v[s] /\ w[s] <= e[s] /\ h[s] <= g[s]
  <2>1. /\ IsFiniteSet(A[s]) /\ a[s] = Cardinality(A[s])
        /\ IsFiniteSet(B[s]) /\ b[s] = Cardinality(B[s])
    <3>1. A[s] = OpenIn(s, from, now) /\ B[s] = OpenIn(s, from, until)
      OBVIOUS
    <3>2. IsFiniteSet(OpenIn(s, from, now)) /\ IsFiniteSet(OpenIn(s, from, until))
      BY <1>1, OpenSize
    <3>3. QED
      BY <3>1, <3>2
  <2>2. a[s] \in Int /\ b[s] \in Int
    <3> HIDE DEF A, B, a, b
    <3>1. QED
      BY <2>1, FS_CardinalityType
  <2>3. d[s] = sessions[s].created - sessions[s].started /\ d[s] \in Int
    BY RowsOfUser
  <2>4. e[s] = b[s] + d[s] /\ e[s] \in Int
    <3>1. e[s] = b[s] + d[s]
      OBVIOUS
    <3> HIDE DEF b, d, e
    <3>2. QED
      BY <2>2, <2>3, <3>1
  <2>5. g[s] = Clipped(s, from, to, now) /\ h[s] = Clipped(s, day, dayEnd, now)
    OBVIOUS
  <2>6. g[s] \in Nat /\ h[s] \in Nat
    <3>1. s \in SessionsOf(u)
      OBVIOUS
    <3>2. Clipped(s, from, to, now) \in Nat
      BY <1>1, <3>1, ClippedIsNatural
    <3>3. Clipped(s, day, dayEnd, now) \in Nat
      BY <1>1, <3>1, ClippedIsNatural
    <3> HIDE DEF g, h
    <3>4. QED
      BY <2>5, <3>2, <3>3
  <2>7. a[s] = Cardinality(OpenIn(s, from, now)) /\ b[s] = Cardinality(OpenIn(s, from, until))
    OBVIOUS
  <2>8. h[s] <= g[s]
    <3>1. PICK x \in Nat, y \in Nat : x = sessions[s].started /\ y = EndOr(s, now)
      BY <1>1, RowsOfUser, EndOfRow
    <3> DEFINE i == LET p == IF x > day THEN x ELSE day
                        q == IF y <= dayEnd THEN y ELSE dayEnd
                    IN  IF q > p THEN q - p ELSE 0
               j == LET p == IF x > from THEN x ELSE from
                        q == IF y <= to THEN y ELSE to
                    IN  IF q > p THEN q - p ELSE 0
    <3>2. s \in SessionsOf(u)
      OBVIOUS
    <3>3. h[s] = Whole(i) /\ g[s] = Whole(j)
      <4> HIDE DEF S, A, B, C, a, b, d, e, w, r, v, g, h
      <4>1. Clipped(s, day, dayEnd, now) = Whole(i)
        BY <1>1, <3>1, <3>2, ClippedTo
      <4>2. Clipped(s, from, to, now) = Whole(j)
        BY <1>1, <3>1, <3>2, ClippedTo
      <4> HIDE DEF i, j
      <4>3. QED
        BY <2>5, <4>1, <4>2
    <3>4. i \in Nat /\ j \in Nat /\ i <= j
      <4>1. ASSUME NEW m \in Nat, NEW n \in Nat
            PROVE  (IF n > m THEN n - m ELSE 0) \in Nat
        OBVIOUS
      <4>2. /\ (IF x > day THEN x ELSE day) \in Nat /\ (IF y <= dayEnd THEN y ELSE dayEnd) \in Nat
            /\ (IF x > from THEN x ELSE from) \in Nat /\ (IF y <= to THEN y ELSE to) \in Nat
        BY <3>1
      <4>3. i \in Nat /\ j \in Nat
        BY <4>1, <4>2
      <4>4. i <= j
        BY <1>8, <3>1
      <4>5. QED
        BY <4>3, <4>4
    <3> HIDE DEF g, h, i, j
    <3>5. QED
      BY <3>3, <3>4, WholeOrder
  <2>9. w[s] = g[s] * MinuteLength /\ r[s] = (IF s \in C THEN MinuteLength - 1 ELSE 0) /\ v[s] = w[s] + r[s]
    OBVIOUS
  <2>10. s \in C <=> OpenIn(s, from, now) # {}
    OBVIOUS
  <2>11. s \in SessionsOf(u)
    OBVIOUS
  <2> HIDE DEF g, h, A, B, a, b, d, e, w, r, v, C, S
  <2>12. MinuteLength - 1 \in Nat
    BY MinuteAssumption
  <2>13. PICK l \in Nat : l = IF OpenIn(s, from, now) = {} THEN 0 ELSE MinuteLength - 1
    BY <2>12
  <2>14. r[s] = l
    BY <2>9, <2>10, <2>13
  <2>15. w[s] \in Nat /\ a[s] <= w[s] + l /\ w[s] <= b[s] + d[s]
    <3>1. PICK x : x = Clipped(s, from, to, now) * MinuteLength
      OBVIOUS
    <3>2. /\ x \in Nat
          /\ Cardinality(OpenIn(s, from, now)) <= x + l
          /\ x <= Cardinality(OpenIn(s, from, until)) + (sessions[s].created - sessions[s].started)
      BY <1>1, <1>4, <1>5, <2>11, <2>13, <3>1, CountedTerm
    <3>3. w[s] = x
      BY <2>5, <2>9, <3>1
    <3>4. QED
      BY <2>3, <2>7, <3>2, <3>3
  <2>16. v[s] \in Int
    BY <2>9, <2>14, <2>15
  <2>17. QED
    BY <2>1, <2>2, <2>3, <2>4, <2>6, <2>8, <2>9, <2>14, <2>15, <2>16
<1>14. Studied(u, from, now) = Cardinality(UNION {A[s] : s \in S})
  <2>1. \A s \in SessionsOf(u) : A[s] = OpenIn(s, from, now)
    OBVIOUS
  <2> HIDE DEF A
  <2>2. QED
    BY <2>1, StudiedTogether
<1>15. Studied(u, from, until) = Cardinality(UNION {B[s] : s \in S})
  <2>1. \A s \in SessionsOf(u) : B[s] = OpenIn(s, from, until)
    OBVIOUS
  <2> HIDE DEF B
  <2>2. QED
    BY <2>1, StudiedTogether
<1>16. \A s, other \in S : s # other => B[s] \cap B[other] = {}
  <2>1. \A s \in S : B[s] = OpenIn(s, from, until)
    OBVIOUS
  <2> HIDE DEF B
  <2>2. QED
    BY <2>1, OpenApart
<1>17. C \in SUBSET S
  OBVIOUS
<1>18. PICK k \in Int, l \in Int : k = MinuteLength /\ l = MinuteLength - 1
  BY MinuteAssumption
<1> HIDE DEF S, g, h, A, B, a, b, d, e, w, r, v, C
<1>19. SumFunctionOnSet(w, S) = SumFunctionOnSet(g, S) * MinuteLength
  BY <1>9, <1>13, <1>18, SumScaled
<1>20. SumFunctionOnSet(r, S) = Cardinality(C) * (MinuteLength - 1)
  <2>1. \A s \in S : r[s] = IF s \in C THEN l ELSE 0
    BY <1>13, <1>18
  <2>2. SumFunctionOnSet(r, S) = Cardinality(C) * l
    BY <1>9, <1>17, <2>1, SumOfMarked
  <2>3. QED
    BY <1>18, <2>2
<1>21. Studied(u, from, now)
         <= SumFunctionOnSet(g, S) * MinuteLength + Cardinality(C) * (MinuteLength - 1)
  <2>0. \A s \in S : IsFiniteSet(A[s]) /\ a[s] = Cardinality(A[s])
    BY <1>13
  <2>1. Cardinality(UNION {A[s] : s \in S}) <= SumFunctionOnSet(a, S) /\ IsFiniteSet(UNION {A[s] : s \in S})
    BY <1>9, <2>0, SizeOfParts
  <2>2. SumFunctionOnSet(a, S) <= SumFunctionOnSet(v, S)
    BY <1>9, <1>13, SumMonotone
  <2>3. SumFunctionOnSet(a, S) \in Int /\ SumFunctionOnSet(v, S) \in Int
    BY <1>9, <1>13, SumCongruent
  <2>4. Cardinality(UNION {A[s] : s \in S}) \in Int
    BY <2>1, FS_CardinalityType
  <2>5. SumFunctionOnSet(v, S) = SumFunctionOnSet(w, S) + SumFunctionOnSet(r, S)
    BY <1>9, <1>13, SumAdded
  <2>6. Cardinality(UNION {A[s] : s \in S}) <= SumFunctionOnSet(v, S)
    BY <2>1, <2>2, <2>3, <2>4
  <2>7. QED
    BY <1>14, <1>19, <1>20, <2>5, <2>6
<1>22. SumFunctionOnSet(g, S) * MinuteLength <= Studied(u, from, until) + Delays(u)
  <2>1. Cardinality(UNION {B[s] : s \in S}) = SumFunctionOnSet(b, S)
    BY <1>9, <1>13, <1>16, SizeOfParts
  <2>2. SumFunctionOnSet(e, S) = SumFunctionOnSet(b, S) + SumFunctionOnSet(d, S)
    BY <1>9, <1>13, SumAdded
  <2>3. SumFunctionOnSet(w, S) <= SumFunctionOnSet(e, S)
    BY <1>9, <1>13, SumMonotone
  <2>4. QED
    BY <1>12, <1>15, <1>19, <2>1, <2>2, <2>3
<1>23. SumFunctionOnSet(h, S) <= SumFunctionOnSet(g, S)
  BY <1>9, <1>13, SumMonotone
<1>24. C = {s \in SessionsOf(u) : OpenIn(s, StartOfWeek(now), now) # {}}
  BY <1>2 DEF C
<1>25. QED
  BY <1>2, <1>3, <1>6, <1>10, <1>11, <1>21, <1>22, <1>23, <1>24

\* Nothing studied is counted twice in the week, and less than a minute of each session
\* is lost to the rounding, however late the rows are read and however the calls that
\* wrote them overlapped (session_service.go:210-220, utils/time.go:29-34).
THEOREM MinutesAreCounted == Spec => []MinutesCounted
<1>1. Consistent /\ IsFiniteSet(Rows) /\ Disjoint => MinutesCounted
  BY MinutesHold
<1>2. QED
  BY <1>1, AlwaysConsistent, AlwaysFinite, AlwaysDisjoint, PTL
================================================================================
