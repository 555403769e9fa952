-------------------------- MODULE LimitedDraftProofs --------------------------
(***************************************************************************)
(* What a draft keeps while packs go round the table, for any number of    *)
(* seats, any size of booster and any number of rounds.                    *)
(*                                                                         *)
(* Induction goes over the subsets of a finite set, given as a set of the  *)
(* subsets a fact holds of (SubsetInd): the folds of the draft are what    *)
(* they are of a set less one of its elements.                             *)
(***************************************************************************)
EXTENDS LimitedDraft, TLAPS, FiniteSetTheorems, SequenceTheorems

(***************************************************************************)
(* Induction and folds.                                                    *)
(***************************************************************************)

(* What holds of a set when it holds of the smaller ones holds of all.     *)
LEMMA SubsetInd ==
  ASSUME NEW S, IsFiniteSet(S), NEW G,
         \A T \in SUBSET S : (\A U \in SUBSET T : U # T => U \in G) => T \in G
  PROVE  SUBSET S \subseteq G
<1> DEFINE Bad == { T \in SUBSET S : T \notin G }
<1> SUFFICES ASSUME Bad # {} PROVE FALSE
  OBVIOUS
<1>1. PICK T \in Bad : \A U \in Bad : ~(<<U, T>> \in StrictSubsetOrdering(S))
  <2>1. IsWellFoundedOn(StrictSubsetOrdering(S), SUBSET S)
    <3>1. IsWellFoundedOn(StrictSubsetOrdering(S), FiniteSubsetsOf(S))
      BY FS_StrictSubsetOrderingWellFounded
    <3>2. FiniteSubsetsOf(S) = SUBSET S
      BY FS_FiniteSubsetsOfFinite
    <3> QED BY <3>1, <3>2, Zenon
  <2>2. Bad \subseteq SUBSET S
    OBVIOUS
  <2> DEFINE P == SUBSET S
             R == StrictSubsetOrdering(S)
  <2> HIDE DEF Bad, P, R
  <2>3. IsWellFoundedOn(R, P) /\ Bad \subseteq P
    BY <2>1, <2>2 DEF P, R
  <2>4. \E T \in Bad : \A U \in Bad : ~(<<U, T>> \in R)
    BY <2>3, WFMin
  <2> QED BY <2>4 DEF R
<1>2. ASSUME NEW U \in SUBSET T, U # T
      PROVE  U \in G
  BY <1>1, <1>2 DEF StrictSubsetOrdering
<1> QED BY <1>2

LEMMA NatInd ==
  ASSUME NEW G, 0 \in G, \A n \in Nat : n \in G => n + 1 \in G
  PROVE  Nat \subseteq G
<1> DEFINE Bad == { n \in Nat : n \notin G }
<1> SUFFICES ASSUME Bad # {} PROVE FALSE
  OBVIOUS
<1>1. PICK n \in Bad : \A m \in Bad : ~(<<m, n>> \in OpToRel(<, Nat))
  <2>1. Bad \subseteq Nat
    OBVIOUS
  <2> HIDE DEF Bad
  <2> QED BY <2>1, NatLessThanWellFounded, WFMin
<1>2. n # 0 /\ n - 1 \in Nat
  OBVIOUS
<1>3. <<n - 1, n>> \in OpToRel(<, Nat)
  BY <1>2 DEF OpToRel
<1>4. n - 1 \in G
  BY <1>1, <1>2, <1>3
<1> QED BY <1>2, <1>4

(* One element of a set, as the folds choose it.                           *)
One(s) == CHOOSE x \in s : TRUE

LEMMA OneOf ==
  ASSUME NEW S, NEW s \in SUBSET S, s # {}
  PROVE  One(s) \in s /\ One(s) \in S /\ s \ {One(s)} \in SUBSET S /\ s \ {One(s)} # s
BY DEF One

(* A fold is a function of the subsets: there is one as long as each step  *)
(* stays in D.                                                             *)
Iterates(it, S, D, base, h) ==
  /\ it \in [SUBSET S -> D]
  /\ \A s \in SUBSET S : it[s] = IF s = {} THEN base ELSE h[<<One(s), it[s \ {One(s)}]>>]

LEMMA FoldDefined ==
  ASSUME NEW S, IsFiniteSet(S), NEW D, NEW base \in D, NEW h \in [S \X D -> D]
  PROVE  \E it : Iterates(it, S, D, base, h)
<1> DEFINE Upto(n) == { s \in SUBSET S : Cardinality(s) <= n }
           Step(it, s) == IF s = {} THEN base ELSE h[<<One(s), it[s \ {One(s)}]>>]
           G == { n \in Nat : \E it \in [SUBSET S -> D] : \A s \in Upto(n) : it[s] = Step(it, s) }
<1>0. \A s \in SUBSET S : IsFiniteSet(s) /\ Cardinality(s) \in Nat
  BY FS_Subset, FS_CardinalityType
<1>1. ASSUME NEW it \in [SUBSET S -> D], NEW s \in SUBSET S
      PROVE  Step(it, s) \in D
  <2>1. CASE s # {}
    <3>1. One(s) \in S /\ it[s \ {One(s)}] \in D
      BY <2>1, OneOf
    <3> QED BY <2>1, <3>1
  <2> QED BY <2>1
<1>2. 0 \in G
  <2> DEFINE it == [s \in SUBSET S |-> base]
  <2>1. it \in [SUBSET S -> D]
    OBVIOUS
  <2>2. \A s \in Upto(0) : s = {}
    BY <1>0, FS_EmptySet
  <2>3. \A s \in Upto(0) : it[s] = Step(it, s)
    BY <2>2
  <2> HIDE DEF it, Step, Upto
  <2> QED BY <2>1, <2>3
<1>3. ASSUME NEW n \in Nat, n \in G
      PROVE  n + 1 \in G
  <2>1. PICK it \in [SUBSET S -> D] : \A s \in Upto(n) : it[s] = Step(it, s)
    BY <1>3
  <2> DEFINE on == [s \in SUBSET S |-> IF s \in Upto(n) THEN it[s] ELSE Step(it, s)]
  <2>2. on \in [SUBSET S -> D]
    BY <1>1
  <2>3. ASSUME NEW s \in Upto(n + 1)
        PROVE  on[s] = Step(on, s)
    <3>1. CASE s = {}
      BY <3>1, <2>1
    <3>2. CASE s # {}
      <4> DEFINE t == s \ {One(s)}
      <4>1. s \in SUBSET S /\ t \in SUBSET S /\ One(s) \in s
        BY <3>2, OneOf
      <4>2. Cardinality(t) = Cardinality(s) - 1
        BY <4>1, <1>0, FS_RemoveElement
      <4>3. t \in Upto(n)
        BY <4>1, <4>2, <1>0
      <4>4. on[t] = it[t]
        BY <4>3
      <4>5. on[s] = Step(it, s)
        BY <4>1, <2>1
      <4> QED BY <3>2, <4>4, <4>5
    <3> QED BY <3>1, <3>2
  <2> HIDE DEF on, Step, Upto
  <2> QED BY <2>2, <2>3
<1>4. Nat \subseteq G
  <2> HIDE DEF G
  <2> QED BY <1>2, <1>3, NatInd
<1>5. PICK it \in [SUBSET S -> D] : \A s \in Upto(Cardinality(S)) : it[s] = Step(it, s)
  BY <1>4, <1>0
<1>6. \A s \in SUBSET S : s \in Upto(Cardinality(S))
  BY <1>0, FS_Subset
<1>7. Iterates(it, S, D, base, h)
  BY <1>5, <1>6 DEF Iterates
<1> QED BY <1>7

(***************************************************************************)
(* Sums.                                                                   *)
(***************************************************************************)
Total(f, S) == MapThenSumSet(LAMBDA x : f[x], S)
Sums(f, S, it) ==
  it = [s \in SUBSET S |-> IF s = {} THEN 0 ELSE f[One(s)] + it[s \ {One(s)}]]
SumOf(f, S) == CHOOSE it : Sums(f, S, it)

LEMMA TotalIsSum == ASSUME NEW f, NEW S PROVE Total(f, S) = SumOf(f, S)[S]
BY Zenon DEF Total, SumOf, Sums, One, MapThenSumSet, MapThenFoldSet

LEMMA SumExists ==
  ASSUME NEW S, IsFiniteSet(S), NEW f, \A x \in S : f[x] \in Int
  PROVE  Sums(f, S, SumOf(f, S)) /\ SumOf(f, S) \in [SUBSET S -> Int]
<1> DEFINE h == [y \in S \X Int |-> f[y[1]] + y[2]]
<1>1. h \in [S \X Int -> Int]
  OBVIOUS
<1>2. PICK it \in [SUBSET S -> Int] :
        \A s \in SUBSET S : it[s] = IF s = {} THEN 0 ELSE h[<<One(s), it[s \ {One(s)}]>>]
  <2> DEFINE D == Int
             base == 0
  <2>1. base \in D /\ h \in [S \X D -> D]
    BY <1>1
  <2> HIDE DEF h, D, base
  <2>2. \E it : Iterates(it, S, D, base, h)
    BY <2>1, FoldDefined
  <2> QED BY <2>2 DEF D, base, Iterates
<1>3. \A s \in SUBSET S : s # {} => h[<<One(s), it[s \ {One(s)}]>>] = f[One(s)] + it[s \ {One(s)}]
  <2> SUFFICES ASSUME NEW s \in SUBSET S, s # {}
               PROVE  h[<<One(s), it[s \ {One(s)}]>>] = f[One(s)] + it[s \ {One(s)}]
    OBVIOUS
  <2>1. One(s) \in S /\ it[s \ {One(s)}] \in Int
    BY OneOf
  <2> QED BY <2>1
<1>4. Sums(f, S, it)
  BY <1>2, <1>3 DEF Sums
<1>5. Sums(f, S, SumOf(f, S))
  BY <1>4 DEF SumOf
<1> DEFINE g == SumOf(f, S)
           G == { s \in SUBSET S : g[s] \in Int }
<1>6. \A s \in SUBSET S : g[s] = IF s = {} THEN 0 ELSE f[One(s)] + g[s \ {One(s)}]
  BY <1>5 DEF Sums
<1>8. g = [s \in SUBSET S |-> g[s]]
  BY <1>5 DEF Sums
<1>9. Sums(f, S, g)
  BY <1>5
<1> HIDE DEF g, h
<1>7. SUBSET S \subseteq G
  <2>1. ASSUME NEW T \in SUBSET S, \A U \in SUBSET T : U # T => U \in G
        PROVE  T \in G
    <3>1. CASE T # {}
      <4>1. One(T) \in S /\ T \ {One(T)} \in G
        BY <2>1, <3>1, OneOf
      <4>2. g[T \ {One(T)}] \in Int /\ f[One(T)] \in Int
        BY <4>1
      <4>3. g[T] = f[One(T)] + g[T \ {One(T)}]
        BY <1>6, <3>1
      <4>4. g[T] \in Int
        BY <4>2, <4>3
      <4> QED BY <4>4
    <3>2. CASE T = {}
      <4>1. g[T] = 0
        BY <1>6, <3>2
      <4> QED BY <4>1
    <3> QED BY <3>1, <3>2
  <2> HIDE DEF G
  <2> QED BY <2>1, SubsetInd
<1>10. g \in [SUBSET S -> Int]
  BY <1>7, <1>8
<1> QED BY <1>9, <1>10 DEF g

LEMMA SumSteps ==
  ASSUME NEW S, IsFiniteSet(S), NEW f, \A x \in S : f[x] \in Int
  PROVE  /\ \A s \in SUBSET S : SumOf(f, S)[s] \in Int
         /\ SumOf(f, S)[{}] = 0
         /\ \A s \in SUBSET S : s # {} =>
              SumOf(f, S)[s] = f[One(s)] + SumOf(f, S)[s \ {One(s)}]
<1> DEFINE g == SumOf(f, S)
<1>1. Sums(f, S, g) /\ g \in [SUBSET S -> Int]
  BY SumExists
<1> HIDE DEF g
<1>2. \A s \in SUBSET S : g[s] = IF s = {} THEN 0 ELSE f[One(s)] + g[s \ {One(s)}]
  BY <1>1 DEF Sums
<1>3. {} \in SUBSET S
  OBVIOUS
<1>4. g[{}] = 0 /\ \A s \in SUBSET S : s # {} => g[s] = f[One(s)] + g[s \ {One(s)}]
  BY <1>2, <1>3
<1> QED BY <1>1, <1>4 DEF g

(* The sum over a set chooses its way through the smaller ones as theirs do. *)
LEMMA SumOfSmaller ==
  ASSUME NEW S, IsFiniteSet(S), NEW f, \A x \in S : f[x] \in Int, NEW T \in SUBSET S
  PROVE  SumOf(f, S)[T] = Total(f, T)
<1> DEFINE a == SumOf(f, S)
           b == SumOf(f, T)
           G == { U \in SUBSET T : a[U] = b[U] }
<1>1. IsFiniteSet(T) /\ \A x \in T : f[x] \in Int
  BY FS_Subset
<1>2. /\ a[{}] = 0 /\ \A s \in SUBSET S : s # {} => a[s] = f[One(s)] + a[s \ {One(s)}]
      /\ b[{}] = 0 /\ \A s \in SUBSET T : s # {} => b[s] = f[One(s)] + b[s \ {One(s)}]
  BY <1>1, SumSteps
<1> HIDE DEF a, b
<1>3. SUBSET T \subseteq G
  <2>1. ASSUME NEW U \in SUBSET T, \A V \in SUBSET U : V # U => V \in G
        PROVE  U \in G
    <3>1. CASE U # {}
      <4>1. U \ {One(U)} \in G
        BY <2>1, <3>1, OneOf
      <4> QED BY <1>2, <3>1, <4>1
    <3> QED BY <3>1, <1>2
  <2> HIDE DEF G
  <2> QED BY <1>1, <2>1, SubsetInd
<1>4. a[T] = b[T]
  BY <1>3
<1> QED BY <1>4, TotalIsSum DEF a, b

LEMMA TotalStep ==
  ASSUME NEW S, IsFiniteSet(S), NEW f, \A x \in S : f[x] \in Int
  PROVE  /\ Total(f, S) \in Int
         /\ S = {} => Total(f, S) = 0
         /\ S # {} => Total(f, S) = f[One(S)] + Total(f, S \ {One(S)})
<1>1. /\ SumOf(f, S)[S] \in Int
      /\ S = {} => SumOf(f, S)[S] = 0
      /\ S # {} => SumOf(f, S)[S] = f[One(S)] + SumOf(f, S)[S \ {One(S)}]
  <2>1. S \in SUBSET S
    OBVIOUS
  <2> QED BY <2>1, SumSteps
<1>2. SumOf(f, S)[S \ {One(S)}] = Total(f, S \ {One(S)})
  <2>1. S \ {One(S)} \in SUBSET S
    OBVIOUS
  <2> QED BY <2>1, SumOfSmaller
<1> QED BY <1>1, <1>2, TotalIsSum

(* Whichever element is taken out.                                         *)
LEMMA TotalRemove ==
  ASSUME NEW S, IsFiniteSet(S), NEW f, \A x \in S : f[x] \in Int, NEW x \in S
  PROVE  Total(f, S) = f[x] + Total(f, S \ {x})
<1> DEFINE Ok(T) == \A y \in T : Total(f, T) = f[y] + Total(f, T \ {y})
           G == { T \in SUBSET S : Ok(T) }
<1>1. \A T \in SUBSET S : IsFiniteSet(T) /\ Total(f, T) \in Int
  BY FS_Subset, TotalStep
<1>2. ASSUME NEW T \in SUBSET S, \A U \in SUBSET T : U # T => U \in G
      PROVE  T \in G
  <2> SUFFICES ASSUME NEW y \in T PROVE Total(f, T) = f[y] + Total(f, T \ {y})
    OBVIOUS
  <2> DEFINE c == One(T)
  <2>1. c \in T /\ Total(f, T) = f[c] + Total(f, T \ {c})
    BY OneOf, TotalStep, <1>1
  <2>2. CASE c = y
    BY <2>1, <2>2
  <2>3. CASE c # y
    <3> HIDE DEF c
    <3>1. /\ T \ {c} \in SUBSET T /\ T \ {c} # T /\ y \in T \ {c}
          /\ T \ {y} \in SUBSET T /\ T \ {y} # T /\ c \in T \ {y}
      BY <2>1, <2>3
    <3>2. /\ Total(f, T \ {c}) = f[y] + Total(f, (T \ {c}) \ {y})
          /\ Total(f, T \ {y}) = f[c] + Total(f, (T \ {y}) \ {c})
      BY <3>1, <1>2
    <3>3. (T \ {c}) \ {y} = (T \ {y}) \ {c}
      OBVIOUS
    <3>4. /\ f[c] \in Int /\ f[y] \in Int /\ Total(f, (T \ {c}) \ {y}) \in Int
      BY <2>1, <1>1
    <3> DEFINE u == Total(f, T)
               v == Total(f, T \ {c})
               w == Total(f, T \ {y})
               z == Total(f, (T \ {c}) \ {y})
               k == f[c]
               l == f[y]
    <3>5. u = k + v /\ v = l + z /\ w = k + z /\ k \in Int /\ l \in Int /\ z \in Int
      BY <2>1, <3>2, <3>3, <3>4
    <3>6. u = l + w
      <4> HIDE DEF u, v, w, z, k, l
      <4> QED BY <3>5
    <3> QED BY <3>6
  <2> QED BY <2>2, <2>3
<1>3. SUBSET S \subseteq G
  <2> HIDE DEF G
  <2> QED BY <1>2, SubsetInd
<1>4. S \in G
  BY <1>3
<1> QED BY <1>4

LEMMA TotalSame ==
  ASSUME NEW S, IsFiniteSet(S), NEW f, NEW g, \A x \in S : f[x] \in Int /\ g[x] = f[x]
  PROVE  Total(g, S) = Total(f, S)
<1> DEFINE G == { T \in SUBSET S : Total(g, T) = Total(f, T) }
<1>1. ASSUME NEW T \in SUBSET S, \A U \in SUBSET T : U # T => U \in G
      PROVE  T \in G
  <2>1. IsFiniteSet(T)
    BY FS_Subset
  <2>2. CASE T # {}
    <3>1. One(T) \in S /\ T \ {One(T)} \in G
      BY <1>1, <2>2, OneOf
    <3> QED BY <2>1, <2>2, <3>1, TotalStep
  <2>3. CASE T = {}
    BY <2>1, <2>3, TotalStep
  <2> QED BY <2>2, <2>3
<1>2. SUBSET S \subseteq G
  <2> HIDE DEF G
  <2> QED BY <1>1, SubsetInd
<1> QED BY <1>2

(* One summand changes.                                                    *)
LEMMA TotalUpdate ==
  ASSUME NEW S, IsFiniteSet(S), NEW f \in [S -> Int], NEW x \in S, NEW g \in [S -> Int],
         \A y \in S \ {x} : g[y] = f[y]
  PROVE  Total(g, S) = Total(f, S) - f[x] + g[x]
<1>1. Total(g, S) = g[x] + Total(g, S \ {x}) /\ Total(f, S) = f[x] + Total(f, S \ {x})
  BY TotalRemove
<1>2. IsFiniteSet(S \ {x})
  BY FS_Subset
<1>3. Total(g, S \ {x}) = Total(f, S \ {x}) /\ Total(f, S \ {x}) \in Int
  BY <1>2, TotalSame, TotalStep
<1> QED BY <1>1, <1>3

(* Sums of the same summand, and of bounded ones.                          *)
LEMMA TotalConst ==
  ASSUME NEW S, IsFiniteSet(S), NEW c \in Int, NEW f, \A x \in S : f[x] = c
  PROVE  Total(f, S) = Cardinality(S) * c
<1> DEFINE G == { T \in SUBSET S : Total(f, T) = Cardinality(T) * c }
<1>1. ASSUME NEW T \in SUBSET S, \A U \in SUBSET T : U # T => U \in G
      PROVE  T \in G
  <2>1. IsFiniteSet(T) /\ Cardinality(T) \in Nat
    BY FS_Subset, FS_CardinalityType
  <2>2. CASE T # {}
    <3> DEFINE m == Cardinality(T \ {One(T)})
    <3>1. One(T) \in T /\ T \ {One(T)} \in G
      BY <1>1, <2>2, OneOf
    <3>2. Cardinality(T) = m + 1 /\ m \in Nat
      <4>1. IsFiniteSet(T \ {One(T)}) /\ m = Cardinality(T) - 1
        BY <2>1, <3>1, FS_RemoveElement
      <4>2. m \in Nat
        BY <4>1, FS_CardinalityType
      <4> HIDE DEF m
      <4> QED BY <2>1, <4>1, <4>2
    <3>3. Total(f, T) = c + m * c
      BY <2>1, <2>2, <3>1, TotalStep
    <3> HIDE DEF m
    <3>4. c + m * c = (m + 1) * c
      BY <3>2
    <3> QED BY <3>2, <3>3, <3>4
  <2>3. CASE T = {}
    <3>1. Total(f, T) = 0
      BY <2>1, <2>3, TotalStep
    <3>2. Cardinality(T) = 0
      BY <2>3, FS_EmptySet
    <3> QED BY <3>1, <3>2
  <2> QED BY <2>2, <2>3
<1>2. SUBSET S \subseteq G
  <2> HIDE DEF G
  <2> QED BY <1>1, SubsetInd
<1> QED BY <1>2

(* Bounded summands, one of them below the bound.                          *)
LEMMA TotalBound ==
  ASSUME NEW S, IsFiniteSet(S), NEW c \in Int, NEW f, \A x \in S : f[x] \in Nat /\ f[x] <= c
  PROVE  0 <= Total(f, S) /\ Total(f, S) <= Cardinality(S) * c
<1> DEFINE G == { T \in SUBSET S : 0 <= Total(f, T) /\ Total(f, T) <= Cardinality(T) * c }
<1>1. ASSUME NEW T \in SUBSET S, \A U \in SUBSET T : U # T => U \in G
      PROVE  T \in G
  <2>1. IsFiniteSet(T) /\ Cardinality(T) \in Nat
    BY FS_Subset, FS_CardinalityType
  <2>2. CASE T # {}
    <3> DEFINE m == Cardinality(T \ {One(T)})
               x == f[One(T)]
               r == Total(f, T \ {One(T)})
    <3>1. One(T) \in T /\ T \ {One(T)} \in G
      BY <1>1, <2>2, OneOf
    <3>2. IsFiniteSet(T \ {One(T)}) /\ m = Cardinality(T) - 1
      BY <2>1, <3>1, FS_RemoveElement
    <3>3. m \in Nat /\ Cardinality(T) = m + 1
      <4>1. m \in Nat
        BY <3>2, FS_CardinalityType
      <4> HIDE DEF m
      <4> QED BY <2>1, <3>2, <4>1
    <3>4. Total(f, T) = x + r /\ r \in Int /\ x \in Nat /\ x <= c /\ 0 <= r /\ r <= m * c
      <4>1. /\ \A y \in T : f[y] \in Int
            /\ \A y \in T \ {One(T)} : f[y] \in Int
        OBVIOUS
      <4>2. Total(f, T) = x + r
        BY <2>1, <2>2, <4>1, TotalStep
      <4>3. r \in Int
        BY <3>2, <4>1, TotalStep
      <4>4. x \in Nat /\ x <= c
        BY <3>1
      <4> QED BY <3>1, <4>2, <4>3, <4>4
    <3> HIDE DEF m, x, r, G
    <3>5. (m + 1) * c = m * c + c /\ m * c \in Int
      BY <3>3
    <3>6. 0 <= x + r /\ x + r <= m * c + c
      BY <3>4, <3>5
    <3> QED BY <3>3, <3>4, <3>5, <3>6 DEF G
  <2>3. CASE T = {}
    <3>1. Total(f, T) = 0 /\ Cardinality(T) = 0
      BY <2>1, <2>3, TotalStep, FS_EmptySet
    <3> QED BY <3>1
  <2> QED BY <2>2, <2>3
<1>2. SUBSET S \subseteq G
  <2> HIDE DEF G
  <2> QED BY <1>1, SubsetInd
<1> QED BY <1>2

LEMMA TotalBelow ==
  ASSUME NEW S, IsFiniteSet(S), NEW c \in Int, NEW f, \A x \in S : f[x] \in Nat /\ f[x] <= c,
         NEW y \in S, f[y] < c
  PROVE  Total(f, S) < Cardinality(S) * c
<1> DEFINE m == Cardinality(S \ {y})
           r == Total(f, S \ {y})
<1>1. Total(f, S) = f[y] + r
  BY TotalRemove
<1>2. IsFiniteSet(S \ {y}) /\ m = Cardinality(S) - 1 /\ Cardinality(S) \in Nat
  BY FS_RemoveElement, FS_CardinalityType
<1>3. m \in Nat
  BY <1>2, FS_CardinalityType
<1>4. r <= m * c /\ r \in Int
  <2>1. /\ \A x \in S \ {y} : f[x] \in Nat /\ f[x] <= c
        /\ \A x \in S \ {y} : f[x] \in Int
    OBVIOUS
  <2>2. r <= m * c
    BY <1>2, <2>1, TotalBound
  <2>3. r \in Int
    BY <1>2, <2>1, TotalStep
  <2> QED BY <2>2, <2>3
<1>5. Cardinality(S) = m + 1
  <2> HIDE DEF m
  <2> QED BY <1>2, <1>3
<1> HIDE DEF m, r
<1>6. (m + 1) * c = m * c + c /\ m * c \in Int
  BY <1>3
<1>7. f[y] + r < m * c + c
  BY <1>4, <1>6
<1> QED BY <1>1, <1>5, <1>6, <1>7

(* Sums over the places of a sequence.                                     *)
LEMMA TotalUpto ==
  ASSUME NEW n \in Nat, NEW f, \A i \in 1..(n + 1) : f[i] \in Int
  PROVE  Total(f, 1..(n + 1)) = Total(f, 1..n) + f[n + 1] /\ Total(f, 1..n) \in Int
<1>1. IsFiniteSet(1..(n + 1)) /\ IsFiniteSet(1..n)
  BY FS_Interval
<1>2. (1..(n + 1)) \ {n + 1} = 1..n /\ n + 1 \in 1..(n + 1)
  OBVIOUS
<1>3. Total(f, 1..(n + 1)) = f[n + 1] + Total(f, (1..(n + 1)) \ {n + 1})
  BY <1>1, <1>2, TotalRemove
<1>4. Total(f, 1..n) \in Int
  <2>1. \A i \in 1..n : f[i] \in Int
    OBVIOUS
  <2> QED BY <1>1, <2>1, TotalStep
<1>5. Total(f, 1..(n + 1)) = f[n + 1] + Total(f, 1..n)
  BY <1>2, <1>3
<1>6. f[n + 1] \in Int
  BY <1>2
<1> QED BY <1>4, <1>5, <1>6

LEMMA TotalShift ==
  ASSUME NEW n \in Nat, NEW f, \A i \in 1..(n + 1) : f[i] \in Int,
         NEW g, \A i \in 1..n : g[i] = f[i + 1]
  PROVE  Total(g, 1..n) = Total(f, 1..(n + 1)) - f[1]
<1> DEFINE G == { m \in Nat : m <= n => Total(g, 1..m) = Total(f, 1..(m + 1)) - f[1] }
<1>1. 0 \in G
  <2>1. 1..0 = {} /\ IsFiniteSet({}) /\ 1..(0 + 1) = 1..1
    BY FS_EmptySet
  <2>2. Total(g, {}) = 0 /\ Total(f, {}) = 0
    BY <2>1, TotalStep
  <2>3. Total(f, 1..(0 + 1)) = Total(f, 1..0) + f[0 + 1]
    <3>1. \A i \in 1..(0 + 1) : f[i] \in Int
      OBVIOUS
    <3> QED BY <3>1, TotalUpto
  <2>4. Total(g, 1..0) = 0 /\ Total(f, 1..(0 + 1)) = f[1] /\ f[1] \in Int
    BY <2>1, <2>2, <2>3
  <2> QED BY <2>4
<1>2. ASSUME NEW m \in Nat, m \in G
      PROVE  m + 1 \in G
  <2> SUFFICES ASSUME m + 1 <= n
               PROVE  Total(g, 1..(m + 1)) = Total(f, 1..((m + 1) + 1)) - f[1]
    OBVIOUS
  <2>1. Total(g, 1..m) = Total(f, 1..(m + 1)) - f[1]
    BY <1>2
  <2>2. Total(g, 1..(m + 1)) = Total(g, 1..m) + g[m + 1]
    <3>1. \A i \in 1..(m + 1) : g[i] \in Int
      OBVIOUS
    <3> QED BY <3>1, TotalUpto
  <2>3. Total(f, 1..((m + 1) + 1)) = Total(f, 1..(m + 1)) + f[(m + 1) + 1]
        /\ Total(f, 1..(m + 1)) \in Int
    <3>1. m + 1 \in Nat /\ \A i \in 1..((m + 1) + 1) : f[i] \in Int
      OBVIOUS
    <3> QED BY <3>1, TotalUpto
  <2>4. g[m + 1] = f[(m + 1) + 1] /\ f[(m + 1) + 1] \in Int /\ f[1] \in Int
    OBVIOUS
  <2> QED BY <2>1, <2>2, <2>3, <2>4
<1>3. Nat \subseteq G
  <2> HIDE DEF G
  <2> QED BY <1>1, <1>2, NatInd
<1> QED BY <1>3

(* Neighbours.                                                             *)
SeatCount == Cardinality(Seats)
Before(s, round) == Neighbour(s, round + 1)

LEMMA SeatsAre == SeatCount \in 2..8 /\ Seats = 1..SeatCount /\ IsFiniteSet(Seats)
<1>1. PICK n \in 2..8 : Seats = 1..n
  BY SeatAssumption
<1>2. IsFiniteSet(1..n) /\ Cardinality(1..n) = IF 1 > n THEN 0 ELSE n - 1 + 1
  BY FS_Interval
<1>3. IsFiniteSet(Seats) /\ Cardinality(Seats) = n
  BY <1>1, <1>2
<1> QED BY <1>1, <1>3 DEF SeatCount

LEMMA Neighbours ==
  ASSUME NEW s \in Seats, NEW round \in Nat
  PROVE  /\ Neighbour(s, round) \in Seats /\ Before(s, round) \in Seats
         /\ Neighbour(s, round) # s
         /\ Before(Neighbour(s, round), round) = s
         /\ Neighbour(Before(s, round), round) = s
<1>1. SeatCount \in 2..8 /\ s \in 1..SeatCount /\ Seats = 1..SeatCount
  BY SeatsAre
<1>2. \A r \in Nat, t \in 1..SeatCount : Neighbour(t, r) = IF r % 2 = 1 THEN (t % SeatCount) + 1 ELSE ((t + SeatCount - 2) % SeatCount) + 1
  BY DEF Neighbour, SeatCount
<1>3. \A n \in {2, 3, 4, 5, 6, 7, 8} : \A t \in 1..n :
        /\ (t % n) + 1 = IF t = n THEN 1 ELSE t + 1
        /\ ((t + n - 2) % n) + 1 = IF t = 1 THEN n ELSE t - 1
  OBVIOUS
<1>4. SeatCount \in {2, 3, 4, 5, 6, 7, 8}
  BY <1>1
<1>5. \A t \in 1..SeatCount : /\ (t % SeatCount) + 1 = IF t = SeatCount THEN 1 ELSE t + 1
                      /\ ((t + SeatCount - 2) % SeatCount) + 1 = IF t = 1 THEN SeatCount ELSE t - 1
  BY <1>3, <1>4
<1>6. CASE round % 2 = 1
  <2>1. (round + 1) % 2 # 1
    BY <1>6
  <2>2. \A t \in 1..SeatCount : /\ Neighbour(t, round) = IF t = SeatCount THEN 1 ELSE t + 1
                        /\ Before(t, round) = IF t = 1 THEN SeatCount ELSE t - 1
    BY <1>2, <1>5, <1>6, <2>1 DEF Before
  <2> DEFINE a == Neighbour(s, round)
             b == Before(s, round)
  <2>3. /\ a = IF s = SeatCount THEN 1 ELSE s + 1
        /\ b = IF s = 1 THEN SeatCount ELSE s - 1
    BY <2>2, <1>1
  <2>4. a \in 1..SeatCount /\ b \in 1..SeatCount /\ a # s
    BY <2>3, <1>1
  <2>5. Before(a, round) = s /\ Neighbour(b, round) = s
    BY <2>2, <2>3, <2>4, <1>1
  <2> QED BY <2>4, <2>5, <1>1
<1>7. CASE round % 2 # 1
  <2>1. (round + 1) % 2 = 1
    BY <1>7
  <2>2. \A t \in 1..SeatCount : /\ Before(t, round) = IF t = SeatCount THEN 1 ELSE t + 1
                        /\ Neighbour(t, round) = IF t = 1 THEN SeatCount ELSE t - 1
    BY <1>2, <1>5, <1>7, <2>1 DEF Before
  <2> QED BY <2>2, <1>1
<1> QED BY <1>6, <1>7

LEMMA MinOf ==
  ASSUME NEW S \in SUBSET Seats, S # {}
  PROVE  Min(S) \in S
<1>1. S \subseteq Nat
  BY SeatsAre
<1>2. PICK x \in S : \A y \in S : ~(<<y, x>> \in OpToRel(<, Nat))
  BY <1>1, NatLessThanWellFounded, WFMin
<1>3. \A y \in S : x <= y
  <2> SUFFICES ASSUME NEW y \in S, ~(x <= y) PROVE FALSE
    OBVIOUS
  <2>1. y < x /\ y \in Nat /\ x \in Nat
    BY <1>1
  <2>2. <<y, x>> \in OpToRel(<, Nat)
    BY <2>1 DEF OpToRel
  <2> QED BY <1>2, <2>2
<1> QED BY <1>3 DEF Min

(***************************************************************************)
(* The draft.                                                              *)
(***************************************************************************)

(* How many packs of this round a seat has picked from and has been        *)
(* brought: its own, and one for every pick of the seat before it.         *)
Picks(d, s) == d.pool[s] - (d.round - 1) * PackSize
Came(d, s) ==
  LET b == Picks(d, Before(s, d.round)) IN IF b < PackSize THEN b + 1 ELSE PackSize
(* Packs come in the order they were opened: the i-th has lost i - 1 cards. *)
InOrder(d) ==
  \A s \in Seats :
    /\ Picks(d, s) \in 0..Came(d, s)
    /\ Len(d.hand[s]) = Came(d, s) - Picks(d, s)
    /\ \A k \in 1..Len(d.hand[s]) : d.hand[s][k] = (PackSize - Picks(d, s)) - k + 1

Cards(d) == [s \in Seats |-> d.pool[s] + Total(d.hand[s], 1..Len(d.hand[s]))]

Shape(d) == d = [hand |-> d.hand, pool |-> d.pool, seq |-> d.seq, timers |-> d.timers,
                 timed |-> d.timed, round |-> d.round, left |-> d.left, done |-> d.done]
Typed(d) ==
  /\ Shape(d)
  /\ d.hand \in [Seats -> Seq(1..PackSize)]
  /\ d.pool \in [Seats -> 0..FullPool]
  /\ d.timed \in BOOLEAN
  /\ d.round \in 1..DraftRounds
  /\ d.left \in Nat
  /\ d.done = FALSE
Counted(d) ==
  /\ IsFiniteSet(OnTable(d)) /\ d.left = Cardinality(OnTable(d))
  /\ Total(Cards(d), Seats) = d.round * SeatCount * PackSize
Tabled(d) == Typed(d) /\ InOrder(d) /\ Counted(d)

LEMMA Boosters ==
  ASSUME NEW r \in 1..DraftRounds
  PROVE  /\ (r - 1) * PackSize \in Nat
         /\ (r - 1) * PackSize + PackSize = r * PackSize
         /\ r * PackSize \in Nat
         /\ r * PackSize <= FullPool
         /\ r < DraftRounds => r * PackSize + PackSize <= FullPool
         /\ FullPool \in Nat /\ PackSize \in Nat /\ PackSize > 0
<1>1. PackSize \in Nat /\ PackSize > 0 /\ DraftRounds \in Nat /\ r \in Nat /\ r <= DraftRounds
  BY PackAssumption
<1>2. \A a, b \in Nat : a * b \in Nat
  OBVIOUS
<1>3. r - 1 \in Nat /\ DraftRounds - r \in Nat
  BY <1>1
<1>4. (r - 1) * PackSize + PackSize = r * PackSize
  BY <1>1
<1>5. r * PackSize + (DraftRounds - r) * PackSize = FullPool
  BY <1>1 DEF FullPool
<1>6. r < DraftRounds => (DraftRounds - r) * PackSize >= PackSize
  <2> SUFFICES ASSUME r < DraftRounds PROVE (DraftRounds - r) * PackSize >= PackSize
    OBVIOUS
  <2> DEFINE m == DraftRounds - r - 1
  <2>1. m \in Nat /\ DraftRounds - r = m + 1
    BY <1>1
  <2> HIDE DEF m
  <2>2. (m + 1) * PackSize = m * PackSize + PackSize /\ m * PackSize \in Nat
    BY <1>1, <1>2, <2>1
  <2> QED BY <1>1, <2>1, <2>2
<1>7. /\ (r - 1) * PackSize \in Nat /\ r * PackSize \in Nat
      /\ (DraftRounds - r) * PackSize \in Nat /\ FullPool \in Nat
  BY <1>1, <1>2, <1>3 DEF FullPool
<1> QED BY <1>1, <1>4, <1>5, <1>6, <1>7

LEMMA Held ==
  ASSUME NEW d, Typed(d), InOrder(d), NEW s \in Seats
  PROVE  /\ Picks(d, s) \in 0..PackSize /\ Came(d, s) \in 1..PackSize
         /\ d.pool[s] = Picks(d, s) + (d.round - 1) * PackSize
         /\ Len(d.hand[s]) \in Nat
         /\ d.hand[s] # <<>> =>
              /\ Picks(d, s) < Came(d, s)
              /\ d.hand[s][1] = PackSize - Picks(d, s) /\ d.hand[s][1] \in 1..PackSize
              /\ Head(d.hand[s]) = d.hand[s][1]
              /\ d.pool[s] < FullPool
<1> DEFINE b == Picks(d, Before(s, d.round))
           p == Picks(d, s)
           base == (d.round - 1) * PackSize
<1>1. d.round \in 1..DraftRounds /\ d.round \in Nat
  BY PackAssumption DEF Typed
<1>2. /\ base \in Nat /\ base + PackSize = d.round * PackSize /\ d.round * PackSize <= FullPool
      /\ FullPool \in Nat /\ PackSize \in Nat /\ PackSize > 0 /\ d.round * PackSize \in Nat
  BY <1>1, Boosters
<1>3. Before(s, d.round) \in Seats
  BY <1>1, Neighbours
<1>4. \A u \in Seats : d.pool[u] \in Int /\ Picks(d, u) = d.pool[u] - base
  BY <1>2 DEF Typed, Picks
<1>b. base \in Nat /\ PackSize \in Nat /\ PackSize > 0
  BY <1>2
<1> HIDE DEF base
<1>5. \A u \in Seats : Picks(d, u) \in Int
  <2> SUFFICES ASSUME NEW u \in Seats PROVE Picks(d, u) \in Int
    OBVIOUS
  <2>1. d.pool[u] \in Int /\ Picks(d, u) = d.pool[u] - base
    BY <1>4
  <2> QED BY <1>b, <2>1
<1>6. \A u \in Seats : Came(d, u) \in Int
  <2> SUFFICES ASSUME NEW u \in Seats PROVE Came(d, u) \in Int
    OBVIOUS
  <2>1. Before(u, d.round) \in Seats
    BY <1>1, Neighbours
  <2>2. Picks(d, Before(u, d.round)) \in Int
    BY <1>5, <2>1
  <2> QED BY <1>b, <2>2 DEF Came
<1>7. \A u \in Seats : Picks(d, u) >= 0
  <2> SUFFICES ASSUME NEW u \in Seats PROVE Picks(d, u) >= 0
    OBVIOUS
  <2>1. Picks(d, u) \in 0..Came(d, u) /\ Picks(d, u) \in Int /\ Came(d, u) \in Int
    BY <1>5, <1>6 DEF InOrder
  <2> QED BY <2>1
<1>8. Came(d, s) \in 1..PackSize
  <2>1. b >= 0 /\ b \in Int
    BY <1>3, <1>5, <1>7
  <2>2. Came(d, s) = IF b < PackSize THEN b + 1 ELSE PackSize
    BY DEF Came
  <2> HIDE DEF b
  <2> QED BY <1>2, <2>1, <2>2
<1>9. p \in 0..Came(d, s)
  BY DEF InOrder
<1>10. p \in 0..PackSize /\ d.pool[s] = p + base
  <2>1. p = d.pool[s] - base /\ d.pool[s] \in Int
    BY <1>4
  <2> HIDE DEF p
  <2> QED BY <1>2, <2>1, <1>8, <1>9
<1>11. d.hand[s] \in Seq(1..PackSize) /\ Len(d.hand[s]) \in Nat
  BY DEF Typed
<1>12. ASSUME d.hand[s] # <<>>
       PROVE  /\ p < Came(d, s)
              /\ d.hand[s][1] = PackSize - p /\ d.hand[s][1] \in 1..PackSize
              /\ Head(d.hand[s]) = d.hand[s][1]
              /\ d.pool[s] < FullPool
  <2>1. Len(d.hand[s]) > 0 /\ 1 \in 1..Len(d.hand[s]) /\ Head(d.hand[s]) = d.hand[s][1]
        /\ d.hand[s][1] \in 1..PackSize
    <3> DEFINE h == d.hand[s]
    <3> HIDE DEF h
    <3>1. h \in Seq(1..PackSize) /\ h # <<>> /\ PackSize \in Nat
      BY <1>b, <1>11, <1>12 DEF h
    <3>2. Len(h) > 0 /\ 1 \in 1..Len(h) /\ Head(h) = h[1] /\ h[1] \in 1..PackSize
      BY <3>1
    <3> QED BY <3>2 DEF h
  <2>2. Len(d.hand[s]) = Came(d, s) - p /\ d.hand[s][1] = (PackSize - p) - 1 + 1
    BY <2>1 DEF InOrder
  <2> HIDE DEF p, base
  <2>3. p < Came(d, s) /\ d.hand[s][1] = PackSize - p
    BY <1>2, <1>8, <1>10, <2>1, <2>2
  <2>4. d.pool[s] < FullPool
    BY <1>2, <1>8, <1>10, <2>3
  <2> QED BY <2>1, <2>3, <2>4
<1> QED BY <1>8, <1>10, <1>11, <1>12 DEF base

(***************************************************************************)
(* One pick: a pack is taken from and handed on, whatever is timed.        *)
(***************************************************************************)
Taken(d, s) == [d EXCEPT !.hand[s] = Tail(@), !.pool[s] = @ + 1]
Moved(d, s) ==
  IF Head(d.hand[s]) - 1 > 0
  THEN [Taken(d, s) EXCEPT !.hand[Neighbour(s, d.round)] = Append(@, Head(d.hand[s]) - 1)]
  ELSE [Taken(d, s) EXCEPT !.left = @ - 1]

(* What a pick changes of the hands.                                       *)
Handed(d, e, s, t) ==
  /\ e.hand[s] = Tail(d.hand[s])
  /\ e.hand[t] = IF d.hand[s][1] > 1 THEN Append(d.hand[t], d.hand[s][1] - 1) ELSE d.hand[t]
  /\ \A u \in Seats : u # s /\ u # t => e.hand[u] = d.hand[u]
Scored(d, e, s) ==
  /\ e.pool[s] = d.pool[s] + 1
  /\ \A u \in Seats : u # s => e.pool[u] = d.pool[u]

LEMMA MovedFields ==
  ASSUME NEW d, Typed(d), InOrder(d), NEW s \in Seats, d.hand[s] # <<>>
  PROVE  LET e == Moved(d, s)
         IN /\ Shape(e) /\ e.seq = d.seq /\ e.timers = d.timers /\ e.timed = d.timed
            /\ e.round = d.round /\ e.done = d.done
            /\ e.left = IF d.hand[s][1] > 1 THEN d.left ELSE d.left - 1
            /\ e.hand \in [Seats -> Seq(1..PackSize)] /\ e.pool \in [Seats -> 0..FullPool]
            /\ Handed(d, e, s, Neighbour(s, d.round))
            /\ Scored(d, e, s)
<1> DEFINE t == Neighbour(s, d.round)
           c == Head(d.hand[s])
           h == [d.hand EXCEPT ![s] = Tail(d.hand[s])]
           p == [d.pool EXCEPT ![s] = d.pool[s] + 1]
<1>1. /\ Shape(d) /\ d.hand \in [Seats -> Seq(1..PackSize)] /\ d.pool \in [Seats -> 0..FullPool]
      /\ d.round \in Nat /\ d.round \in 1..DraftRounds
  BY PackAssumption DEF Typed
<1>2. t \in Seats /\ t # s
  BY <1>1, Neighbours
<1>3. c = d.hand[s][1] /\ c \in 1..PackSize /\ d.pool[s] < FullPool
  BY Held
<1>4. PackSize \in Nat /\ FullPool \in Nat
  BY <1>1, Boosters
<1>5. Tail(d.hand[s]) \in Seq(1..PackSize)
  <2> DEFINE g == d.hand[s]
  <2>1. g \in Seq(1..PackSize) /\ g # <<>>
    BY <1>1
  <2> HIDE DEF g
  <2>2. Tail(g) \in Seq(1..PackSize)
    BY <2>1, <1>4
  <2> QED BY <2>2 DEF g
<1>6. h \in [Seats -> Seq(1..PackSize)] /\ h[s] = Tail(d.hand[s])
      /\ \A u \in Seats : u # s => h[u] = d.hand[u]
  BY <1>1, <1>5
<1>7. p \in [Seats -> 0..FullPool] /\ p[s] = d.pool[s] + 1
      /\ \A u \in Seats : u # s => p[u] = d.pool[u]
  <2>1. d.pool[s] + 1 \in 0..FullPool
    BY <1>1, <1>3, <1>4
  <2> QED BY <1>1, <2>1
<1> DEFINE k == Taken(d, s)
<1>8. /\ Shape(k) /\ k.hand = h /\ k.pool = p /\ k.seq = d.seq /\ k.timers = d.timers
      /\ k.timed = d.timed /\ k.round = d.round /\ k.left = d.left /\ k.done = d.done
  <2>1. k = [d EXCEPT !.hand = h, !.pool = p]
    BY DEF Taken
  <2> HIDE DEF k, h, p
  <2> QED BY <1>1, <2>1 DEF Shape
<1>9. CASE c > 1
  <2> DEFINE e == [k EXCEPT !.hand[t] = Append(@, c - 1)]
             g == [h EXCEPT ![t] = Append(h[t], c - 1)]
  <2>1. Moved(d, s) = e
    BY <1>3, <1>4, <1>9 DEF Moved
  <2>2. /\ Shape(e) /\ e.hand = g /\ e.pool = p /\ e.seq = d.seq /\ e.timers = d.timers
        /\ e.timed = d.timed /\ e.round = d.round /\ e.left = d.left /\ e.done = d.done
    <3> HIDE DEF k, h, p
    <3> QED BY <1>8 DEF Shape
  <2>3. Append(h[t], c - 1) \in Seq(1..PackSize) /\ h[t] = d.hand[t]
    <3>1. h[t] \in Seq(1..PackSize) /\ c - 1 \in 1..PackSize
      BY <1>2, <1>3, <1>4, <1>6, <1>9
    <3>2. h[t] = d.hand[t]
      BY <1>2, <1>6
    <3> QED BY <3>1, <3>2
  <2>4. /\ g \in [Seats -> Seq(1..PackSize)] /\ g[t] = Append(d.hand[t], c - 1)
        /\ \A u \in Seats : u # t => g[u] = h[u]
    <3> HIDE DEF h
    <3> QED BY <1>2, <1>6, <2>3
  <2> HIDE DEF k, e, h, g, p
  <2>5. Handed(d, e, s, t)
    BY <2>2, <2>4, <1>2, <1>3, <1>6, <1>9 DEF Handed
  <2>6. Scored(d, e, s)
    BY <2>2, <1>7 DEF Scored
  <2> QED BY <2>1, <2>2, <2>4, <2>5, <2>6, <1>3, <1>7, <1>9
<1>10. CASE ~(c > 1)
  <2> DEFINE e == [k EXCEPT !.left = @ - 1]
  <2>1. Moved(d, s) = e
    BY <1>3, <1>4, <1>10 DEF Moved
  <2>2. /\ Shape(e) /\ e.hand = h /\ e.pool = p /\ e.seq = d.seq /\ e.timers = d.timers
        /\ e.timed = d.timed /\ e.round = d.round /\ e.left = d.left - 1 /\ e.done = d.done
    <3> HIDE DEF k, h, p
    <3> QED BY <1>8 DEF Shape
  <2> HIDE DEF k, e, h, p
  <2>5. Handed(d, e, s, t)
    BY <2>2, <1>2, <1>3, <1>6, <1>10 DEF Handed
  <2>6. Scored(d, e, s)
    BY <2>2, <1>7 DEF Scored
  <2> QED BY <2>1, <2>2, <2>5, <2>6, <1>3, <1>6, <1>7, <1>10
<1> QED BY <1>9, <1>10

(* The order of the packs is kept.                                         *)
LEMMA MovedOrder ==
  ASSUME NEW d, Typed(d), InOrder(d), NEW s \in Seats, d.hand[s] # <<>>, NEW e,
         e.round = d.round, Handed(d, e, s, Neighbour(s, d.round)), Scored(d, e, s)
  PROVE  InOrder(e)
<1> DEFINE t == Neighbour(s, d.round)
           base == (d.round - 1) * PackSize
           q == Picks(d, s)
<1>1. d.round \in Nat /\ d.round \in 1..DraftRounds
  BY PackAssumption DEF Typed
<1>2. t \in Seats /\ t # s /\ Before(t, d.round) = s
  BY <1>1, Neighbours
<1>3. base \in Nat /\ PackSize \in Nat /\ PackSize > 0
  BY <1>1, Boosters
<1>4. \A u \in Seats : /\ Before(u, d.round) \in Seats
                       /\ Before(u, d.round) = s => u = t
  BY <1>1, Neighbours
<1>5. \A u \in Seats : d.pool[u] \in Int
  BY <1>1, Boosters DEF Typed
<1>6. \A u \in Seats : Picks(e, u) = IF u = s THEN Picks(d, u) + 1 ELSE Picks(d, u)
  <2> SUFFICES ASSUME NEW u \in Seats
               PROVE  Picks(e, u) = IF u = s THEN Picks(d, u) + 1 ELSE Picks(d, u)
    OBVIOUS
  <2>1. Picks(e, u) = e.pool[u] - base /\ Picks(d, u) = d.pool[u] - base /\ d.pool[u] \in Int
    BY <1>5 DEF Picks
  <2>2. e.pool[u] = IF u = s THEN d.pool[u] + 1 ELSE d.pool[u]
    BY DEF Scored
  <2> HIDE DEF base
  <2> QED BY <1>3, <2>1, <2>2
<1>7. \A u \in Seats : /\ Picks(d, u) \in 0..PackSize /\ Came(d, u) \in 1..PackSize
                       /\ Len(d.hand[u]) \in Nat /\ d.hand[u] \in Seq(1..PackSize)
                       /\ Picks(d, u) \in 0..Came(d, u)
                       /\ Len(d.hand[u]) = Came(d, u) - Picks(d, u)
                       /\ \A k \in 1..Len(d.hand[u]) : d.hand[u][k] = (PackSize - Picks(d, u)) - k + 1
  BY Held DEF InOrder, Typed
<1>8. /\ q \in 0..PackSize /\ q < Came(d, s) /\ d.hand[s][1] = PackSize - q
      /\ q < PackSize
  <2>1. q < Came(d, s) /\ d.hand[s][1] = PackSize - q
    BY Held
  <2> QED BY <2>1, <1>3, <1>7
<1>9. \A u \in Seats : u # t => Came(e, u) = Came(d, u)
  BY <1>4, <1>6 DEF Came
<1> HIDE DEF t, base
<1>10. Came(d, t) = q + 1 /\ Came(e, t) = IF q + 1 < PackSize THEN q + 2 ELSE PackSize
  <2>1. Came(d, t) = IF q < PackSize THEN q + 1 ELSE PackSize
    BY <1>2 DEF Came
  <2>2. Came(e, t) = IF q + 1 < PackSize THEN (q + 1) + 1 ELSE PackSize
    BY <1>2, <1>6 DEF Came
  <2> HIDE DEF q
  <2> QED BY <1>3, <1>8, <2>1, <2>2
<1>11. ASSUME NEW u \in Seats, u # s, u # t
       PROVE  /\ Picks(e, u) \in 0..Came(e, u)
              /\ Len(e.hand[u]) = Came(e, u) - Picks(e, u)
              /\ \A k \in 1..Len(e.hand[u]) : e.hand[u][k] = (PackSize - Picks(e, u)) - k + 1
  <2>1. e.hand[u] = d.hand[u] /\ Picks(e, u) = Picks(d, u) /\ Came(e, u) = Came(d, u)
    BY <1>6, <1>9, <1>11 DEF Handed, t
  <2> QED BY <1>7, <2>1
<1>12. /\ Picks(e, s) \in 0..Came(e, s)
       /\ Len(e.hand[s]) = Came(e, s) - Picks(e, s)
       /\ \A k \in 1..Len(e.hand[s]) : e.hand[s][k] = (PackSize - Picks(e, s)) - k + 1
  <2> DEFINE L == Len(d.hand[s])
             C == Came(d, s)
  <2>1. /\ e.hand[s] = Tail(d.hand[s]) /\ Picks(e, s) = q + 1 /\ Came(e, s) = C
    BY <1>2, <1>6, <1>9 DEF Handed
  <2>2. /\ L = C - q /\ C \in 1..PackSize /\ L \in Nat
        /\ \A k \in 1..L : d.hand[s][k] = (PackSize - q) - k + 1
    BY <1>7
  <2>3. Len(Tail(d.hand[s])) = L - 1 /\ \A k \in 1..(L - 1) : Tail(d.hand[s])[k] = d.hand[s][k + 1]
    <3>1. d.hand[s] \in Seq(1..PackSize) /\ d.hand[s] # <<>> /\ PackSize \in Nat
      BY <1>3, <1>7
    <3> QED BY <3>1
  <2>4. q \in Nat /\ q < C
    BY <1>3, <1>8
  <2> HIDE DEF L, C, q
  <2>5. q + 1 \in 0..C /\ L - 1 = C - (q + 1)
    BY <1>3, <2>2, <2>4
  <2>6. ASSUME NEW k \in 1..(L - 1)
        PROVE  Tail(d.hand[s])[k] = (PackSize - (q + 1)) - k + 1
    <3>1. k + 1 \in 1..L /\ k \in Int
      BY <2>2
    <3>2. d.hand[s][k + 1] = (PackSize - q) - (k + 1) + 1
      BY <2>2, <3>1
    <3>3. (PackSize - q) - (k + 1) + 1 = (PackSize - (q + 1)) - k + 1
      BY <1>3, <2>4, <3>1
    <3> QED BY <2>3, <3>2, <3>3
  <2> QED BY <2>1, <2>3, <2>5, <2>6
<1>13. /\ Picks(e, t) \in 0..Came(e, t)
       /\ Len(e.hand[t]) = Came(e, t) - Picks(e, t)
       /\ \A k \in 1..Len(e.hand[t]) : e.hand[t][k] = (PackSize - Picks(e, t)) - k + 1
  <2> DEFINE L == Len(d.hand[t])
             p == Picks(d, t)
  <2>1. Picks(e, t) = p
    BY <1>2, <1>6
  <2>2. /\ L = (q + 1) - p /\ p \in 0..(q + 1) /\ L \in Nat /\ d.hand[t] \in Seq(1..PackSize)
        /\ p \in Int
        /\ \A k \in 1..L : d.hand[t][k] = (PackSize - p) - k + 1
    BY <1>2, <1>3, <1>7, <1>10
  <2>3. q \in Nat /\ q < PackSize /\ d.hand[s][1] = PackSize - q
    BY <1>3, <1>8
  <2>4. CASE q + 1 < PackSize
    <3>1. e.hand[t] = Append(d.hand[t], PackSize - q - 1)
      <4>1. d.hand[s][1] > 1
        <5> HIDE DEF q
        <5> QED BY <1>3, <2>3, <2>4
      <4> QED BY <2>3, <4>1 DEF Handed, t
    <3>2. Came(e, t) = q + 2
      BY <1>10, <2>4
    <3>3. Len(e.hand[t]) = L + 1 /\ \A k \in 1..(L + 1) : e.hand[t][k] = IF k <= L THEN d.hand[t][k] ELSE PackSize - q - 1
      <4>1. d.hand[t] \in Seq(1..PackSize) /\ PackSize \in Nat
        BY <1>3, <2>2
      <4> HIDE DEF p, q
      <4> QED BY <3>1, <4>1
    <3> HIDE DEF p, q, L
    <3>4. p \in 0..(q + 2) /\ L + 1 = (q + 2) - p
      BY <2>2, <2>3
    <3>5. ASSUME NEW k \in 1..(L + 1)
          PROVE  e.hand[t][k] = (PackSize - p) - k + 1
      <4>1. CASE k <= L
        <5>1. k \in 1..L
          BY <2>2, <4>1
        <5> QED BY <2>2, <3>3, <4>1, <5>1
      <4>2. CASE ~(k <= L)
        <5>1. k = L + 1
          BY <2>2, <4>2
        <5>2. (PackSize - p) - (L + 1) + 1 = PackSize - q - 1
          BY <1>3, <2>2, <2>3
        <5> QED BY <3>3, <4>2, <5>1, <5>2
      <4> QED BY <4>1, <4>2
    <3> QED BY <2>1, <3>2, <3>3, <3>4, <3>5
  <2>5. CASE ~(q + 1 < PackSize)
    <3>1. e.hand[t] = d.hand[t]
      <4>1. ~(d.hand[s][1] > 1)
        <5> HIDE DEF q
        <5> QED BY <1>3, <2>3, <2>5
      <4> QED BY <4>1 DEF Handed, t
    <3>2. Came(e, t) = q + 1
      <4> HIDE DEF q
      <4> QED BY <1>3, <1>10, <2>3, <2>5
    <3> QED BY <2>1, <2>2, <3>1, <3>2
  <2> QED BY <2>4, <2>5
<1> QED BY <1>11, <1>12, <1>13 DEF InOrder

LEMMA HandSeq ==
  ASSUME NEW h \in Seq(1..PackSize)
  PROVE  /\ Len(h) \in Nat /\ DOMAIN h = 1..Len(h)
         /\ \A k \in 1..Len(h) : h[k] \in Int /\ h[k] \in 1..PackSize
         /\ h # <<>> => /\ Len(h) > 0 /\ Len(Tail(h)) = Len(h) - 1
                       /\ \A k \in 1..(Len(h) - 1) : Tail(h)[k] = h[k + 1]
         /\ \A x : /\ Len(Append(h, x)) = Len(h) + 1
                   /\ Append(h, x)[Len(h) + 1] = x
                   /\ \A k \in 1..Len(h) : Append(h, x)[k] = h[k]
<1>1. PackSize \in Nat
  BY PackAssumption
<1> QED BY <1>1

LEMMA OnTableIs ==
  ASSUME NEW d, d.hand \in [Seats -> Seq(1..PackSize)]
  PROVE  OnTable(d) = { p \in Seats \X Nat : p[2] \in 1..Len(d.hand[p[1]]) }
<1>1. \A s \in Seats : DOMAIN d.hand[s] = 1..Len(d.hand[s]) /\ Len(d.hand[s]) \in Nat
  <2> SUFFICES ASSUME NEW s \in Seats
               PROVE  DOMAIN d.hand[s] = 1..Len(d.hand[s]) /\ Len(d.hand[s]) \in Nat
    OBVIOUS
  <2>1. d.hand[s] \in Seq(1..PackSize)
    OBVIOUS
  <2> QED BY <2>1, HandSeq
<1>2. OnTable(d) = UNION { {s} \X (1..Len(d.hand[s])) : s \in Seats }
  BY <1>1 DEF OnTable
<1>3. \A s \in Seats : 1..Len(d.hand[s]) \subseteq Nat
  <2> SUFFICES ASSUME NEW s \in Seats, NEW k \in 1..Len(d.hand[s]) PROVE k \in Nat
    OBVIOUS
  <2>1. Len(d.hand[s]) \in Nat
    BY <1>1
  <2> QED BY <2>1
<1> QED BY <1>2, <1>3

LEMMA CardsTyped ==
  ASSUME NEW d, d.hand \in [Seats -> Seq(1..PackSize)], d.pool \in [Seats -> 0..FullPool]
  PROVE  /\ Cards(d) \in [Seats -> Int]
         /\ \A s \in Seats : /\ Cards(d)[s] = d.pool[s] + Total(d.hand[s], 1..Len(d.hand[s]))
                             /\ Total(d.hand[s], 1..Len(d.hand[s])) \in Int
<1>1. ASSUME NEW s \in Seats
      PROVE  /\ Total(d.hand[s], 1..Len(d.hand[s])) \in Int
             /\ d.pool[s] \in Int
  <2>1. /\ d.hand[s] \in Seq(1..PackSize) /\ d.pool[s] \in 0..FullPool
        /\ PackSize \in Nat /\ FullPool \in Nat
    BY PackAssumption DEF FullPool
  <2>2. Len(d.hand[s]) \in Nat /\ \A i \in 1..Len(d.hand[s]) : d.hand[s][i] \in Int
    BY <2>1, HandSeq
  <2>3. IsFiniteSet(1..Len(d.hand[s]))
    BY <2>2, FS_Interval
  <2>4. Total(d.hand[s], 1..Len(d.hand[s])) \in Int
    BY <2>2, <2>3, TotalStep
  <2> QED BY <2>1, <2>4
<1> QED BY <1>1 DEF Cards

LEMMA MovedCounted ==
  ASSUME NEW d, Tabled(d), NEW s \in Seats, d.hand[s] # <<>>, NEW e,
         e.round = d.round, e.hand \in [Seats -> Seq(1..PackSize)], e.pool \in [Seats -> 0..FullPool],
         e.left = IF d.hand[s][1] > 1 THEN d.left ELSE d.left - 1,
         Handed(d, e, s, Neighbour(s, d.round)), Scored(d, e, s)
  PROVE  Counted(e) /\ e.left \in Nat
<1> DEFINE t == Neighbour(s, d.round)
           c == d.hand[s][1]
           A == Len(d.hand[s])
           B == Len(d.hand[t])
<1>1. /\ d.hand \in [Seats -> Seq(1..PackSize)] /\ d.pool \in [Seats -> 0..FullPool]
      /\ d.round \in Nat /\ d.left \in Nat
      /\ PackSize \in Nat /\ FullPool \in Nat
  <2>1. PackSize \in Nat /\ FullPool \in Nat /\ DraftRounds \in Nat
    BY PackAssumption DEF FullPool
  <2> QED BY <2>1 DEF Typed, Tabled
<1>2. t \in Seats /\ t # s
  BY <1>1, Neighbours
<1>3. c \in 1..PackSize
  BY Held DEF Tabled
<1>4. A \in Nat /\ A > 0 /\ B \in Nat
  <2>1. d.hand[s] \in Seq(1..PackSize) /\ d.hand[s] # <<>> /\ d.hand[t] \in Seq(1..PackSize)
    BY <1>1, <1>2
  <2> QED BY <2>1, HandSeq
<1>5. /\ e.hand[s] = Tail(d.hand[s])
      /\ e.hand[t] = IF c > 1 THEN Append(d.hand[t], c - 1) ELSE d.hand[t]
      /\ \A u \in Seats : u # s /\ u # t => e.hand[u] = d.hand[u]
  BY DEF Handed
<1> HIDE DEF t
<1>6. /\ Len(e.hand[s]) = A - 1
      /\ \A k \in 1..(A - 1) : e.hand[s][k] = d.hand[s][k + 1]
      /\ \A k \in 1..A : d.hand[s][k] \in Int
  <2>1. d.hand[s] \in Seq(1..PackSize) /\ d.hand[s] # <<>>
    BY <1>1
  <2> QED BY <1>5, <2>1, HandSeq
<1>7. /\ \A k \in 1..B : d.hand[t][k] \in Int
      /\ c > 1 => /\ Len(e.hand[t]) = B + 1 /\ e.hand[t][B + 1] = c - 1
                  /\ \A k \in 1..B : e.hand[t][k] = d.hand[t][k]
      /\ ~(c > 1) => e.hand[t] = d.hand[t]
  <2>1. d.hand[t] \in Seq(1..PackSize)
    BY <1>1, <1>2
  <2>2. \A k \in 1..B : d.hand[t][k] \in Int
    BY <2>1, HandSeq
  <2>3. ASSUME c > 1
        PROVE  /\ Len(e.hand[t]) = B + 1 /\ e.hand[t][B + 1] = c - 1
               /\ \A k \in 1..B : e.hand[t][k] = d.hand[t][k]
    <3>1. e.hand[t] = Append(d.hand[t], c - 1)
      BY <1>5, <2>3
    <3> HIDE DEF c
    <3> QED BY <2>1, <3>1, HandSeq
  <2> QED BY <1>5, <2>2, <2>3
<1> HIDE DEF A, B, c
<1> DEFINE P == OnTable(d)
           last == <<s, A>>
           next == <<t, B + 1>>
<1>8. /\ P = { p \in Seats \X Nat : p[2] \in 1..Len(d.hand[p[1]]) }
      /\ OnTable(e) = { p \in Seats \X Nat : p[2] \in 1..Len(e.hand[p[1]]) }
  BY <1>1, OnTableIs
<1>9. last \in P /\ next \notin P
  BY <1>2, <1>4, <1>8 DEF A, B
<1>10. OnTable(e) = IF c > 1 THEN (P \ {last}) \cup {next} ELSE P \ {last}
  <2> DEFINE a(u) == Len(d.hand[u])
             b(u) == Len(e.hand[u])
  <2>0. a(s) = A /\ a(t) = B
    BY DEF A, B
  <2>1. /\ b(s) = A - 1
        /\ b(t) = IF c > 1 THEN B + 1 ELSE B
        /\ \A u \in Seats : u # s /\ u # t => b(u) = a(u)
    BY <1>5, <1>6, <1>7, <2>0
  <2>2. /\ P = { p \in Seats \X Nat : p[2] \in 1..a(p[1]) }
        /\ OnTable(e) = { p \in Seats \X Nat : p[2] \in 1..b(p[1]) }
    BY <1>8
  <2> HIDE DEF a, b, P, last, next
  <2>3. ASSUME NEW u \in Seats, NEW k \in Nat
        PROVE  /\ <<u, k>> \in P <=> k \in 1..a(u)
               /\ <<u, k>> \in OnTable(e) <=> k \in 1..b(u)
               /\ <<u, k>> = last <=> u = s /\ k = A
               /\ <<u, k>> = next <=> u = t /\ k = B + 1
    BY <2>2 DEF last, next
  <2>4. ASSUME NEW u \in Seats, NEW k \in Nat
        PROVE  k \in 1..b(u) <=>
                 IF c > 1 THEN (k \in 1..a(u) /\ ~(u = s /\ k = A)) \/ (u = t /\ k = B + 1)
                 ELSE k \in 1..a(u) /\ ~(u = s /\ k = A)
    <3>1. CASE u = s
      BY <1>2, <1>4, <2>0, <2>1, <3>1
    <3>2. CASE u = t
      BY <1>2, <1>4, <2>0, <2>1, <3>2
    <3>3. CASE u # s /\ u # t
      BY <2>1, <3>3
    <3> QED BY <3>1, <3>2, <3>3
  <2>5. /\ \A p \in P : p \in Seats \X Nat
        /\ \A p \in OnTable(e) : p \in Seats \X Nat
        /\ next \in Seats \X Nat
    BY <1>2, <1>4, <2>2 DEF next
  <2> DEFINE Q == IF c > 1 THEN (P \ {last}) \cup {next} ELSE P \ {last}
  <2>6. ASSUME NEW u \in Seats, NEW k \in Nat
        PROVE  <<u, k>> \in OnTable(e) <=> <<u, k>> \in Q
    BY <2>3, <2>4
  <2>7. \A p \in Q : p \in Seats \X Nat
    BY <2>5
  <2> HIDE DEF Q
  <2>8. \A p \in Seats \X Nat : p \in OnTable(e) <=> p \in Q
    BY <2>6
  <2>9. OnTable(e) = Q
    BY <2>5, <2>7, <2>8
  <2> QED BY <2>9 DEF Q
<1>11. IsFiniteSet(P) /\ d.left = Cardinality(P)
  BY DEF Tabled, Counted
<1> HIDE DEF P, last, next
<1>12. IsFiniteSet(P \ {last}) /\ Cardinality(P \ {last}) = d.left - 1
  BY <1>9, <1>11, FS_RemoveElement
<1>13. Cardinality(P \ {last}) \in Nat
  BY <1>12, FS_CardinalityType
<1>14. IsFiniteSet(OnTable(e)) /\ e.left = Cardinality(OnTable(e)) /\ e.left \in Nat
  <2>1. CASE c > 1
    <3>1. next \notin P \ {last}
      BY <1>9
    <3>2. /\ IsFiniteSet((P \ {last}) \cup {next})
          /\ Cardinality((P \ {last}) \cup {next}) = Cardinality(P \ {last}) + 1
      BY <1>12, <3>1, FS_AddElement
    <3>3. e.left = d.left
      BY <2>1 DEF c
    <3> QED BY <1>1, <1>10, <1>12, <2>1, <3>2, <3>3
  <2>2. CASE ~(c > 1)
    <3>1. e.left = d.left - 1
      BY <2>2 DEF c
    <3> QED BY <1>10, <1>12, <1>13, <2>2, <3>1
  <2> QED BY <2>1, <2>2
<1> DEFINE f == Cards(d)
           g == Cards(e)
           m == [f EXCEPT ![s] = g[s]]
<1>15. f \in [Seats -> Int] /\ g \in [Seats -> Int]
  BY <1>1, CardsTyped
<1>16. g[s] = f[s] + 1 - c
  <2> DEFINE n == A - 1
  <2>1. n \in Nat /\ A = n + 1
    BY <1>4
  <2> HIDE DEF n
  <2>2. Total(e.hand[s], 1..n) = Total(d.hand[s], 1..(n + 1)) - d.hand[s][1]
    <3>1. /\ \A k \in 1..(n + 1) : d.hand[s][k] \in Int
          /\ \A k \in 1..n : e.hand[s][k] = d.hand[s][k + 1]
      BY <1>6, <2>1
    <3> QED BY <2>1, <3>1, TotalShift
  <2>3. /\ f[s] = d.pool[s] + Total(d.hand[s], 1..(n + 1))
        /\ g[s] = d.pool[s] + 1 + Total(e.hand[s], 1..n)
        /\ Total(d.hand[s], 1..(n + 1)) \in Int
    <3>1. Len(d.hand[s]) = n + 1 /\ Len(e.hand[s]) = n /\ e.pool[s] = d.pool[s] + 1
      BY <1>6, <2>1 DEF A, Scored
    <3>2. /\ f[s] = d.pool[s] + Total(d.hand[s], 1..Len(d.hand[s]))
          /\ Total(d.hand[s], 1..Len(d.hand[s])) \in Int
      BY <1>1, CardsTyped
    <3>3. g[s] = e.pool[s] + Total(e.hand[s], 1..Len(e.hand[s]))
      BY CardsTyped
    <3> QED BY <3>1, <3>2, <3>3
  <2>4. d.pool[s] \in Int /\ c \in Int /\ c = d.hand[s][1]
    BY <1>1, <1>3 DEF c
  <2> DEFINE x == Total(d.hand[s], 1..(n + 1))
             y == Total(e.hand[s], 1..n)
             l == f[s]
             r == g[s]
             v == d.pool[s]
  <2>5. y = x - c /\ l = v + x /\ r = v + 1 + y /\ x \in Int /\ v \in Int /\ c \in Int
    BY <2>2, <2>3, <2>4
  <2> HIDE DEF f, g, x, y, l, r, v
  <2>6. r = l + 1 - c
    BY <2>5
  <2> QED BY <2>6 DEF r, l
<1>17. g[t] = f[t] + c - 1
  <2>1. d.pool[t] \in Int /\ e.pool[t] = d.pool[t] /\ c \in Int /\ c >= 1
    BY <1>1, <1>2, <1>3 DEF Scored
  <2>2. /\ f[t] = d.pool[t] + Total(d.hand[t], 1..B)
        /\ Total(d.hand[t], 1..B) \in Int
    BY <1>1, <1>2, CardsTyped DEF B
  <2>3. g[t] = d.pool[t] + Total(e.hand[t], 1..Len(e.hand[t]))
    BY <1>2, <2>1, CardsTyped
  <2>4. CASE c > 1
    <3>1. Len(e.hand[t]) = B + 1 /\ e.hand[t][B + 1] = c - 1
          /\ \A k \in 1..B : e.hand[t][k] = d.hand[t][k]
      BY <1>7, <2>4
    <3>2. \A k \in 1..(B + 1) : e.hand[t][k] \in Int
      <4> SUFFICES ASSUME NEW k \in 1..(B + 1) PROVE e.hand[t][k] \in Int
        OBVIOUS
      <4>1. CASE k = B + 1
        BY <2>1, <3>1, <4>1
      <4>2. CASE k # B + 1
        <5>1. k \in 1..B
          BY <1>4, <4>2
        <5> QED BY <1>7, <3>1, <5>1
      <4> QED BY <4>1, <4>2
    <3>3. Total(e.hand[t], 1..(B + 1)) = Total(e.hand[t], 1..B) + (c - 1)
      BY <1>4, <3>1, <3>2, TotalUpto
    <3>4. Total(e.hand[t], 1..B) = Total(d.hand[t], 1..B)
      <4>1. IsFiniteSet(1..B)
        <5>1. B \in Int
          BY <1>4
        <5> QED BY <5>1, FS_Interval
      <4> QED BY <4>1, <1>7, <3>1, TotalSame
    <3> HIDE DEF f, g
    <3> QED BY <2>1, <2>2, <2>3, <3>1, <3>3, <3>4
  <2>5. CASE ~(c > 1)
    <3>1. c = 1 /\ e.hand[t] = d.hand[t]
      BY <1>7, <2>1, <2>5
    <3> HIDE DEF f, g
    <3> QED BY <2>1, <2>2, <2>3, <3>1 DEF B
  <2> QED BY <2>4, <2>5
<1>18. \A u \in Seats : u # s /\ u # t => g[u] = f[u]
  BY <1>5 DEF Cards, Scored
<1> HIDE DEF f, g
<1>19. /\ m \in [Seats -> Int] /\ m[s] = g[s] /\ \A y \in Seats \ {s} : m[y] = f[y]
       /\ \A y \in Seats \ {t} : g[y] = m[y]
  BY <1>15, <1>18
<1> HIDE DEF m
<1>20. Total(m, Seats) = Total(f, Seats) - f[s] + m[s]
  <2>1. /\ IsFiniteSet(Seats) /\ f \in [Seats -> Int] /\ m \in [Seats -> Int]
        /\ \A y \in Seats \ {s} : m[y] = f[y]
    BY <1>15, <1>19, SeatsAre
  <2> QED BY <2>1, TotalUpdate
<1>21. Total(g, Seats) = Total(m, Seats) - m[t] + g[t]
  <2>1. /\ IsFiniteSet(Seats) /\ t \in Seats /\ g \in [Seats -> Int] /\ m \in [Seats -> Int]
        /\ \A y \in Seats \ {t} : g[y] = m[y]
    BY <1>2, <1>15, <1>19, SeatsAre
  <2> QED BY <2>1, TotalUpdate
<1>22. Total(f, Seats) = d.round * SeatCount * PackSize
  BY DEF Tabled, Counted, f
<1>23. Total(f, Seats) \in Int
  <2>1. IsFiniteSet(Seats) /\ \A y \in Seats : f[y] \in Int
    BY <1>15, SeatsAre
  <2> QED BY <2>1, TotalStep
<1>24. m[t] = f[t] /\ f[s] \in Int /\ f[t] \in Int /\ c \in Int
  BY <1>2, <1>3, <1>15, <1>19 DEF c
<1>25. Total(g, Seats) = Total(f, Seats)
  <2> DEFINE a == Total(f, Seats)
             b == Total(m, Seats)
             z == Total(g, Seats)
             x == f[s]
             y == f[t]
  <2>1. b = a - x + (x + 1 - c) /\ z = b - y + (y + c - 1)
        /\ a \in Int /\ x \in Int /\ y \in Int /\ c \in Int
    BY <1>16, <1>17, <1>19, <1>20, <1>21, <1>23, <1>24
  <2> HIDE DEF a, b, z, x, y
  <2>2. z = a
    BY <2>1
  <2> QED BY <2>2 DEF z, a
<1> QED BY <1>14, <1>22, <1>25 DEF Counted, g

(***************************************************************************)
(* What times the packs.                                                   *)
(***************************************************************************)

(* Apart from how its packs are numbered and timed, e is d.                *)
Alike(d, e) ==
  /\ e.hand = d.hand /\ e.pool = d.pool /\ e.timed = d.timed
  /\ e.round = d.round /\ e.left = d.left /\ e.done = d.done

(* No seat has more packs numbered than it has picked from or holds; those *)
(* of X hold one that has yet to be numbered, and timed if it is to be.    *)
Numbered(d, X) ==
  /\ d.seq \in [Seats -> Nat] /\ d.timers \subseteq Timer
  /\ \A s \in Seats :
       d.seq[s] <= IF s \in X \/ d.hand[s] = <<>> THEN d.pool[s] ELSE d.pool[s] + 1
TimedBut(d, auto, X) ==
  d.timed => \A s \in Seats : s \notin auto /\ s \notin X /\ d.hand[s] # <<>> =>
               [seat |-> s, seq |-> d.seq[s]] \in d.timers
Clocked(d, auto, X) == Numbered(d, X) /\ TimedBut(d, auto, X)

LEMMA AlikeTabled ==
  ASSUME NEW d, NEW e, Tabled(d), Alike(d, e), Shape(e)
  PROVE  Tabled(e)
<1>1. Typed(e)
  BY DEF Tabled, Typed, Alike
<1>2. \A s : Picks(e, s) = Picks(d, s)
  BY DEF Alike, Picks
<1>3. \A s : Came(e, s) = Came(d, s)
  BY <1>2 DEF Alike, Came
<1>4. InOrder(e)
  BY <1>2, <1>3 DEF Tabled, InOrder, Alike
<1>5. OnTable(e) = OnTable(d) /\ Cards(e) = Cards(d)
  BY DEF Alike, OnTable, Cards
<1>6. Counted(e)
  BY <1>5 DEF Tabled, Counted, Alike
<1> QED BY <1>1, <1>4, <1>6 DEF Tabled

LEMMA ArmedClock ==
  ASSUME NEW d, NEW auto, NEW X, NEW s \in X, s \in Seats, Tabled(d), d.hand[s] # <<>>,
         Clocked(d, auto, X)
  PROVE  LET e == Armed(d, s, auto)
         IN /\ Alike(d, e) /\ Tabled(e)
            /\ Clocked(e, auto, X \ {s})
<1> DEFINE e == Armed(d, s, auto)
<1>1. /\ Shape(d) /\ d.pool \in [Seats -> 0..FullPool] /\ d.timed \in BOOLEAN
      /\ FullPool \in Nat
  BY PackAssumption DEF Tabled, Typed, FullPool
<1>2. d.seq \in [Seats -> Nat] /\ d.timers \subseteq Timer /\ d.seq[s] <= d.pool[s]
  BY DEF Clocked, Numbered
<1>3. d.pool[s] < FullPool
  BY Held DEF Tabled
<1>4. CASE ~d.timed \/ s \in auto
  <2>1. e = d
    BY <1>4 DEF Armed
  <2>2. Numbered(d, X \ {s})
    <3> SUFFICES ASSUME NEW u \in Seats
                 PROVE  d.seq[u] <= IF u \in X \ {s} \/ d.hand[u] = <<>> THEN d.pool[u]
                                    ELSE d.pool[u] + 1
      BY <1>2 DEF Numbered
    <3>1. d.seq[u] \in Nat /\ d.pool[u] \in Nat
          /\ d.seq[u] <= IF u \in X \/ d.hand[u] = <<>> THEN d.pool[u] ELSE d.pool[u] + 1
      BY <1>1, <1>2 DEF Clocked, Numbered
    <3> QED BY <3>1
  <2>3. TimedBut(d, auto, X \ {s})
    BY <1>4 DEF Clocked, TimedBut
  <2> QED BY <2>1, <2>2, <2>3 DEF Alike, Clocked
<1>5. CASE d.timed /\ s \notin auto
  <2> DEFINE q == [d.seq EXCEPT ![s] = d.seq[s] + 1]
             new == [seat |-> s, seq |-> d.seq[s] + 1]
             ts == { t \in d.timers : t.seat = s => t.seq = d.seq[s] } \cup {new}
  <2>1. e = [d EXCEPT !.seq = q, !.timers = ts]
    BY <1>5 DEF Armed
  <2> HIDE DEF e, q, ts
  <2>2. Shape(e) /\ Alike(d, e) /\ e.seq = q /\ e.timers = ts
    BY <1>1, <2>1 DEF Shape, Alike
  <2>3. q \in [Seats -> Nat] /\ q[s] = d.seq[s] + 1 /\ \A u \in Seats : u # s => q[u] = d.seq[u]
    BY <1>2 DEF q
  <2>4. d.seq[s] + 1 \in 1..FullPool
    BY <1>1, <1>2, <1>3
  <2>5. ts \subseteq Timer
    BY <1>2, <2>4 DEF ts, Timer
  <2>6. Numbered(e, X \ {s})
    <3> SUFFICES ASSUME NEW u \in Seats
                 PROVE  e.seq[u] <= IF u \in X \ {s} \/ e.hand[u] = <<>> THEN e.pool[u]
                                    ELSE e.pool[u] + 1
      BY <2>2, <2>3, <2>5 DEF Numbered
    <3>1. d.seq[u] \in Nat /\ d.pool[u] \in Nat /\ e.hand[u] = d.hand[u] /\ e.pool[u] = d.pool[u]
          /\ d.seq[u] <= IF u \in X \/ d.hand[u] = <<>> THEN d.pool[u] ELSE d.pool[u] + 1
      BY <1>1, <1>2, <2>2 DEF Clocked, Numbered, Alike
    <3>2. CASE u = s
      BY <3>1, <3>2, <1>2, <2>2, <2>3
    <3>3. CASE u # s
      BY <3>1, <3>3, <2>2, <2>3
    <3> QED BY <3>2, <3>3
  <2>7. TimedBut(e, auto, X \ {s})
    <3> SUFFICES ASSUME NEW u \in Seats, u \notin auto, u \notin X \ {s}, e.hand[u] # <<>>
                 PROVE  [seat |-> u, seq |-> e.seq[u]] \in e.timers
      BY DEF TimedBut
    <3>1. CASE u = s
      BY <3>1, <2>2, <2>3 DEF ts
    <3>2. CASE u # s
      <4>1. [seat |-> u, seq |-> d.seq[u]] \in d.timers
        BY <3>2, <1>5, <2>2 DEF Clocked, TimedBut, Alike
      <4>2. [seat |-> u, seq |-> d.seq[u]] \in ts
        BY <3>2, <4>1 DEF ts
      <4> QED BY <3>2, <4>2, <2>2, <2>3
    <3> QED BY <3>1, <3>2
  <2>8. Tabled(e)
    BY <2>2, AlikeTabled
  <2> QED BY <2>2, <2>6, <2>7, <2>8 DEF Clocked, e
<1> QED BY <1>1, <1>4, <1>5

(* A seat picks and hands the pack on.                                     *)
LEMMA PassedKeeps ==
  ASSUME NEW d, NEW auto, NEW s \in Seats, Tabled(d), d.hand[s] # <<>>,
         Numbered(d, {}), TimedBut(d, auto, {s})
  PROVE  LET e == Passed(d, s, auto)
         IN Tabled(e) /\ Clocked(e, auto, {s}) /\ Scored(d, e, s)
<1> DEFINE t == Neighbour(s, d.round)
           e == Moved(d, s)
           p == Passed(d, s, auto)
<1>0. t \in Seats /\ t # s
  <2>1. d.round \in Nat
    BY PackAssumption DEF Tabled, Typed
  <2> QED BY <2>1, Neighbours
<1>1. Typed(d) /\ InOrder(d)
  BY DEF Tabled
<1>2. /\ Shape(e) /\ e.seq = d.seq /\ e.timers = d.timers /\ e.timed = d.timed
      /\ e.round = d.round /\ e.done = d.done
      /\ e.left = IF d.hand[s][1] > 1 THEN d.left ELSE d.left - 1
      /\ e.hand \in [Seats -> Seq(1..PackSize)] /\ e.pool \in [Seats -> 0..FullPool]
      /\ Handed(d, e, s, t) /\ Scored(d, e, s)
  BY <1>1, MovedFields
<1>3. p = IF d.hand[s][1] > 1 /\ d.hand[t] = <<>> THEN Armed(e, t, auto) ELSE e
  <2> DEFINE k == Taken(d, s)
  <2>1. Head(d.hand[s]) = d.hand[s][1] /\ d.hand[s][1] \in 1..PackSize /\ PackSize \in Nat
    BY <1>1, Held, PackAssumption
  <2>2. k.hand[t] = d.hand[t]
    <3>1. Shape(d) /\ d.hand \in [Seats -> Seq(1..PackSize)]
      BY <1>1 DEF Typed
    <3>2. k.hand = [d.hand EXCEPT ![s] = Tail(d.hand[s])]
      BY <3>1 DEF Taken, Shape
    <3> QED BY <1>0, <3>1, <3>2
  <2>3. p = IF Head(d.hand[s]) - 1 > 0 THEN Given(k, t, Head(d.hand[s]) - 1, auto)
            ELSE [k EXCEPT !.left = @ - 1]
    BY DEF Passed, Taken
  <2> HIDE DEF k, t, p
  <2>4. CASE d.hand[s][1] > 1
    <3>1. Head(d.hand[s]) - 1 > 0
      BY <2>1, <2>4
    <3>2. p = Given(k, t, Head(d.hand[s]) - 1, auto)
      BY <2>3, <3>1
    <3>3. e = [k EXCEPT !.hand[t] = Append(@, Head(d.hand[s]) - 1)]
      BY <3>1 DEF Moved, k, t
    <3>4. p = IF k.hand[t] = <<>> THEN Armed(e, t, auto) ELSE e
      BY <3>2, <3>3 DEF Given
    <3> QED BY <2>2, <2>4, <3>4
  <2>5. CASE ~(d.hand[s][1] > 1)
    <3>1. ~(Head(d.hand[s]) - 1 > 0)
      BY <2>1, <2>5
    <3> QED BY <2>3, <2>5, <3>1 DEF Moved, k, t
  <2> QED BY <2>4, <2>5
<1> HIDE DEF e, t, p
<1>4. InOrder(e)
  BY <1>1, <1>2, MovedOrder DEF t
<1>5. Counted(e) /\ e.left \in Nat
  BY <1>2, MovedCounted DEF t
<1>6. Tabled(e)
  BY <1>1, <1>2, <1>4, <1>5 DEF Tabled, Typed
<1> DEFINE X == IF d.hand[s][1] > 1 /\ d.hand[t] = <<>> THEN {s, t} ELSE {s}
<1>7. /\ d.pool \in [Seats -> 0..FullPool] /\ d.hand \in [Seats -> Seq(1..PackSize)]
      /\ FullPool \in Nat
      /\ d.seq \in [Seats -> Nat] /\ d.timers \subseteq Timer
  <2> HIDE DEF X
  <2>1. FullPool \in Nat
    BY PackAssumption DEF FullPool
  <2>2. d.pool \in [Seats -> 0..FullPool] /\ d.hand \in [Seats -> Seq(1..PackSize)]
    BY DEF Tabled, Typed
  <2>3. d.seq \in [Seats -> Nat] /\ d.timers \subseteq Timer
    BY DEF Numbered
  <2> QED BY <2>1, <2>2, <2>3
<1>8. \A u \in Seats : u # s /\ u \notin X => (e.hand[u] = <<>>) = (d.hand[u] = <<>>)
  <2> SUFFICES ASSUME NEW u \in Seats, u # s, u \notin X
               PROVE  (e.hand[u] = <<>>) = (d.hand[u] = <<>>)
    OBVIOUS
  <2>1. CASE u # t \/ ~(d.hand[s][1] > 1)
    BY <1>2, <2>1 DEF Handed
  <2>2. CASE u = t /\ d.hand[s][1] > 1
    <3>1. e.hand[t] = Append(d.hand[t], d.hand[s][1] - 1) /\ d.hand[t] # <<>>
      BY <1>2, <2>2 DEF Handed
    <3>2. d.hand[t] \in Seq(1..PackSize)
      BY <1>0, <1>7
    <3>3. Len(e.hand[t]) = Len(d.hand[t]) + 1 /\ Len(d.hand[t]) \in Nat
      BY <3>1, <3>2, HandSeq
    <3>4. e.hand[t] # <<>>
      BY <3>3
    <3> QED BY <2>2, <3>1, <3>4
  <2> QED BY <2>1, <2>2
<1>9. Numbered(e, X)
  <2> SUFFICES ASSUME NEW u \in Seats
               PROVE  d.seq[u] <= IF u \in X \/ e.hand[u] = <<>> THEN e.pool[u]
                                  ELSE e.pool[u] + 1
    BY <1>2, <1>7 DEF Numbered
  <2>1. d.seq[u] \in Nat /\ d.pool[u] \in Nat
        /\ d.seq[u] <= IF d.hand[u] = <<>> THEN d.pool[u] ELSE d.pool[u] + 1
    BY <1>7 DEF Numbered
  <2>2. CASE u = s
    <3>1. e.pool[u] = d.pool[u] + 1
      BY <1>2, <2>2 DEF Scored
    <3> QED BY <2>1, <3>1
  <2>3. CASE u # s /\ u \in X
    <3>1. e.pool[u] = d.pool[u] /\ d.hand[u] = <<>>
      BY <1>2, <2>3 DEF Scored
    <3> QED BY <2>1, <2>3, <3>1
  <2>4. CASE u # s /\ u \notin X
    <3>1. e.pool[u] = d.pool[u]
      BY <1>2, <2>4 DEF Scored
    <3> QED BY <2>1, <2>4, <3>1, <1>8
  <2> QED BY <2>2, <2>3, <2>4
<1>10. TimedBut(e, auto, X)
  <2> SUFFICES ASSUME d.timed, NEW u \in Seats, u \notin auto, u \notin X, e.hand[u] # <<>>
               PROVE  [seat |-> u, seq |-> d.seq[u]] \in d.timers
    BY <1>2 DEF TimedBut
  <2>1. u # s
    OBVIOUS
  <2>2. d.hand[u] # <<>>
    BY <1>8, <2>1
  <2> QED BY <2>1, <2>2 DEF TimedBut
<1>11. CASE d.hand[s][1] > 1 /\ d.hand[t] = <<>>
  <2>1. X \ {t} = {s} /\ t \in X
    BY <1>0, <1>11
  <2>2. e.hand[t] # <<>>
    <3>1. e.hand[t] = Append(d.hand[t], d.hand[s][1] - 1)
      BY <1>2, <1>11 DEF Handed
    <3>2. d.hand[t] \in Seq(1..PackSize)
      BY <1>0, <1>7
    <3>3. Len(e.hand[t]) = Len(d.hand[t]) + 1 /\ Len(d.hand[t]) \in Nat
      BY <3>1, <3>2, HandSeq
    <3> QED BY <3>3
  <2> HIDE DEF X
  <2>3. Alike(e, p) /\ Tabled(p) /\ Clocked(p, auto, X \ {t})
    <3>1. p = Armed(e, t, auto)
      BY <1>3, <1>11
    <3>2. Clocked(e, auto, X)
      BY <1>9, <1>10 DEF Clocked
    <3> QED BY <3>1, <3>2, <1>0, <1>6, <2>1, <2>2, ArmedClock
  <2> QED BY <1>2, <2>1, <2>3 DEF p, Alike, Scored
<1>12. CASE ~(d.hand[s][1] > 1 /\ d.hand[t] = <<>>)
  <2>1. X = {s} /\ p = e
    BY <1>3, <1>12
  <2> QED BY <1>2, <1>6, <1>9, <1>10, <2>1 DEF p, Clocked
<1> QED BY <1>11, <1>12

LEMMA TurnedKeeps ==
  ASSUME NEW d, NEW auto, NEW s \in Seats, Tabled(d), Clocked(d, auto, {s})
  PROVE  LET e == Turned(d, s, auto)
         IN Tabled(e) /\ Clocked(e, auto, {}) /\ Alike(d, e)
<1>1. CASE d.hand[s] = <<>>
  <2>1. Turned(d, s, auto) = d
    BY <1>1 DEF Turned
  <2>2. Clocked(d, auto, {})
    BY <1>1 DEF Clocked, Numbered, TimedBut
  <2> QED BY <2>1, <2>2 DEF Alike
<1>2. CASE d.hand[s] # <<>>
  <2>1. Turned(d, s, auto) = Armed(d, s, auto)
    BY <1>2 DEF Turned
  <2>2. {s} \ {s} = {} /\ s \in {s}
    OBVIOUS
  <2> DEFINE X == {s}
             e == Armed(d, s, auto)
  <2>3. Alike(d, e) /\ Tabled(e) /\ Clocked(e, auto, X \ {s})
    <3>1. s \in X /\ Clocked(d, auto, X)
      OBVIOUS
    <3> HIDE DEF X
    <3> QED BY <3>1, <1>2, ArmedClock
  <2> QED BY <2>1, <2>2, <2>3
<1> QED BY <1>1, <1>2

(***************************************************************************)
(* Rounds of the draft.                                                    *)
(***************************************************************************)

(* When no pack is left on the table every seat has picked a booster's     *)
(* worth: whoever were behind, the seat before it would be further behind. *)
LEMMA Emptied ==
  ASSUME NEW d, Tabled(d), d.left = 0, NEW s \in Seats
  PROVE  d.hand[s] = <<>> /\ d.pool[s] = d.round * PackSize
<1>1. /\ d.hand \in [Seats -> Seq(1..PackSize)] /\ d.round \in 1..DraftRounds /\ d.round \in Nat
      /\ PackSize \in Nat /\ PackSize > 0
  BY PackAssumption DEF Tabled, Typed
<1>2. OnTable(d) = {}
  BY FS_EmptySet DEF Tabled, Counted
<1>3. ASSUME NEW u \in Seats
      PROVE  d.hand[u] = <<>> /\ Picks(d, u) = Came(d, u)
             /\ Picks(d, u) \in 0..PackSize
  <2>1. d.hand[u] \in Seq(1..PackSize)
    BY <1>1
  <2>2. Len(d.hand[u]) \in Nat
    BY <2>1, HandSeq
  <2>3. <<u, 1>> \notin OnTable(d)
    BY <1>2
  <2>4. ~(1 \in 1..Len(d.hand[u]))
    BY <2>3, <1>1, OnTableIs
  <2>5. Len(d.hand[u]) = 0
    BY <2>2, <2>4
  <2>6. d.hand[u] = <<>>
    <3> DEFINE h == d.hand[u]
    <3>1. h \in Seq(1..PackSize) /\ Len(h) = 0
      BY <2>1, <2>5
    <3> HIDE DEF h
    <3>2. h = <<>>
      BY <3>1, HandSeq
    <3> QED BY <3>2 DEF h
  <2>7. Picks(d, u) \in 0..PackSize /\ Came(d, u) \in 1..PackSize
    BY Held DEF Tabled
  <2>8. 0 = Came(d, u) - Picks(d, u)
    BY <2>5 DEF Tabled, InOrder
  <2> QED BY <1>1, <2>6, <2>7, <2>8
<1> DEFINE G == { n \in Nat : n < PackSize => \A u \in Seats : Picks(d, u) # n }
<1>4. ASSUME NEW u \in Seats, Picks(d, u) < PackSize
      PROVE  Before(u, d.round) \in Seats /\ Picks(d, Before(u, d.round)) = Picks(d, u) - 1
  <2> DEFINE b == Picks(d, Before(u, d.round))
             p == Picks(d, u)
  <2>1. Before(u, d.round) \in Seats
    BY <1>1, Neighbours
  <2>2. b \in 0..PackSize /\ p \in 0..PackSize
    BY <1>3, <2>1
  <2>3. p = IF b < PackSize THEN b + 1 ELSE PackSize
    BY <1>3 DEF Came
  <2>4. p < PackSize
    BY <1>4
  <2> HIDE DEF b, p
  <2>5. b = p - 1
    BY <1>1, <2>2, <2>3, <2>4
  <2> QED BY <2>1, <2>5 DEF b, p
<1>5. 0 \in G
  <2> SUFFICES ASSUME NEW u \in Seats, Picks(d, u) = 0, 0 < PackSize PROVE FALSE
    OBVIOUS
  <2>1. Before(u, d.round) \in Seats /\ Picks(d, Before(u, d.round)) = 0 - 1
    BY <1>4
  <2>2. Picks(d, Before(u, d.round)) \in 0..PackSize
    BY <1>3, <2>1
  <2> QED BY <1>1, <2>1, <2>2
<1>6. ASSUME NEW n \in Nat, n \in G
      PROVE  n + 1 \in G
  <2> SUFFICES ASSUME NEW u \in Seats, Picks(d, u) = n + 1, n + 1 < PackSize PROVE FALSE
    OBVIOUS
  <2>1. Before(u, d.round) \in Seats /\ Picks(d, Before(u, d.round)) = (n + 1) - 1
    BY <1>4
  <2>2. n < PackSize /\ Picks(d, Before(u, d.round)) = n
    BY <1>1, <2>1
  <2> QED BY <1>6, <2>1, <2>2
<1>7. Nat \subseteq G
  <2> HIDE DEF G
  <2> QED BY <1>5, <1>6, NatInd
<1>8. Picks(d, s) = PackSize
  <2>1. Picks(d, s) \in 0..PackSize
    BY <1>3
  <2>2. Picks(d, s) \in G
    BY <1>1, <1>7, <2>1
  <2> QED BY <1>1, <2>1, <2>2
<1>9. d.pool[s] = d.round * PackSize
  <2>1. d.pool[s] = Picks(d, s) + (d.round - 1) * PackSize
    BY Held DEF Tabled
  <2>2. (d.round - 1) * PackSize + PackSize = d.round * PackSize /\ (d.round - 1) * PackSize \in Nat
    BY <1>1, Boosters
  <2> QED BY <1>1, <1>8, <2>1, <2>2
<1> QED BY <1>3, <1>9

(* Every seat opens a booster, which is numbered and timed.                *)
Opened(d) == [d EXCEPT !.round = @ + 1, !.left = Cardinality(Seats),
                       !.hand = [s \in Seats |-> <<PackSize>>]]
Arms(d, auto, it) ==
  it = [T \in SUBSET Seats |->
          IF T = {} THEN Opened(d) ELSE Armed(it[T \ {One(T)}], One(T), auto)]

LEMMA DealtIs ==
  ASSUME NEW d, NEW auto
  PROVE  Dealt(d, auto) = (CHOOSE it : Arms(d, auto, it))[Seats]
BY Zenon DEF Dealt, Arms, Opened, One, FoldSet, MapThenFoldSet

(* A draft whose seats have all picked as much is ready for another round. *)
Between(d) ==
  /\ Shape(d)
  /\ d.pool \in [Seats -> 0..FullPool]
  /\ d.round \in 0..(DraftRounds - 1)
  /\ d.timed \in BOOLEAN /\ d.done = FALSE
  /\ d.seq \in [Seats -> Nat] /\ d.timers \subseteq Timer
  /\ \A s \in Seats : d.pool[s] = d.round * PackSize /\ d.seq[s] <= d.pool[s]

LEMMA OpenedTabled ==
  ASSUME NEW d, Between(d), NEW auto
  PROVE  LET e == Opened(d)
         IN /\ Tabled(e) /\ Clocked(e, auto, Seats)
            /\ e.left > 0 /\ e.pool = d.pool
            /\ \A s \in Seats : e.hand[s] # <<>>
<1> DEFINE e == Opened(d)
           h == [s \in Seats |-> <<PackSize>>]
           r == d.round
<1>1. /\ PackSize \in Nat /\ PackSize > 0 /\ DraftRounds \in Nat /\ r \in Nat
      /\ r + 1 \in 1..DraftRounds /\ FullPool \in Nat
  BY PackAssumption DEF Between, FullPool
<1>2. SeatCount \in Nat /\ SeatCount >= 2 /\ IsFiniteSet(Seats) /\ Cardinality(Seats) = SeatCount
  BY SeatsAre DEF SeatCount
<1>3. /\ Shape(e) /\ e.hand = h /\ e.pool = d.pool /\ e.seq = d.seq /\ e.timers = d.timers
      /\ e.timed = d.timed /\ e.round = r + 1 /\ e.left = SeatCount /\ e.done = FALSE
  <2>1. e = [d EXCEPT !.round = r + 1, !.left = SeatCount, !.hand = h]
    BY DEF Opened, SeatCount
  <2>2. Shape(d) /\ d.done = FALSE
    BY DEF Between
  <2> HIDE DEF e, h, r
  <2> QED BY <2>1, <2>2 DEF Shape
<1>4. h \in [Seats -> Seq(1..PackSize)]
  <2>1. <<PackSize>> \in Seq(1..PackSize)
    <3>1. PackSize \in 1..PackSize
      BY <1>1
    <3> QED BY <3>1
  <2> QED BY <2>1
<1> HIDE DEF e, r
<1>5. Typed(e)
  BY <1>1, <1>2, <1>3, <1>4 DEF Typed, Between
<1>6. \A s \in Seats : Picks(e, s) = 0
  <2>1. (r + 1) - 1 = r /\ r * PackSize \in Nat
    BY <1>1
  <2>2. \A s \in Seats : d.pool[s] = r * PackSize
    BY DEF Between, r
  <2>3. e.round - 1 = r
    BY <1>1, <1>3
  <2> SUFFICES ASSUME NEW s \in Seats PROVE Picks(e, s) = 0
    OBVIOUS
  <2>4. Picks(e, s) = r * PackSize - r * PackSize
    BY <1>3, <2>2, <2>3 DEF Picks
  <2> DEFINE x == r * PackSize
  <2>5. x \in Nat /\ Picks(e, s) = x - x
    BY <2>1, <2>4
  <2> HIDE DEF x
  <2> QED BY <2>5
<1>7. \A s \in Seats : Came(e, s) = 1
  <2> SUFFICES ASSUME NEW s \in Seats PROVE Came(e, s) = 1
    OBVIOUS
  <2>1. Before(s, e.round) \in Seats
    BY <1>1, <1>3, Neighbours
  <2>2. Picks(e, Before(s, e.round)) = 0
    BY <1>6, <2>1
  <2> QED BY <1>1, <2>2 DEF Came
<1>8. \A s \in Seats : /\ e.hand[s] = <<PackSize>> /\ e.hand[s] # <<>>
                       /\ Len(e.hand[s]) = 1 /\ e.hand[s][1] = PackSize
  <2> DEFINE b == <<PackSize>>
  <2>1. b # <<>> /\ Len(b) = 1 /\ b[1] = PackSize
    OBVIOUS
  <2>2. \A s \in Seats : e.hand[s] = b
    BY <1>3
  <2> HIDE DEF b, h
  <2>3. \A s \in Seats : e.hand[s] = b /\ e.hand[s] # <<>>
                         /\ Len(e.hand[s]) = 1 /\ e.hand[s][1] = PackSize
    BY <2>1, <2>2
  <2> QED BY <2>3 DEF b
<1>9. InOrder(e)
  <2> SUFFICES ASSUME NEW s \in Seats
               PROVE  /\ Picks(e, s) \in 0..Came(e, s)
                      /\ Len(e.hand[s]) = Came(e, s) - Picks(e, s)
                      /\ \A k \in 1..Len(e.hand[s]) :
                           e.hand[s][k] = (PackSize - Picks(e, s)) - k + 1
    BY DEF InOrder
  <2>1. Picks(e, s) = 0 /\ Came(e, s) = 1 /\ Len(e.hand[s]) = 1 /\ e.hand[s][1] = PackSize
    BY <1>6, <1>7, <1>8
  <2>2. 0 \in 0..1 /\ 1 - 0 = 1 /\ (PackSize - 0) - 1 + 1 = PackSize
        /\ \A k \in 1..1 : k = 1
    BY <1>1
  <2> QED BY <2>1, <2>2
<1>10. IsFiniteSet(OnTable(e)) /\ e.left = Cardinality(OnTable(e))
  <2>1. OnTable(e) = { p \in Seats \X Nat : p[2] \in 1..Len(e.hand[p[1]]) }
    BY <1>3, <1>4, OnTableIs
  <2> DEFINE at == [s \in Seats |-> <<s, 1>>]
             P == OnTable(e)
  <2>2. \A p \in Seats \X Nat : p \in P <=> p[2] = 1
    BY <1>8, <2>1
  <2>3. P \subseteq Seats \X Nat
    BY <2>1
  <2> HIDE DEF P
  <2>4. at \in Bijection(Seats, P)
    <3>1. \A s \in Seats : at[s] \in P
      BY <2>2
    <3>2. \A s, u \in Seats : at[s] = at[u] => s = u
      OBVIOUS
    <3>3. \A p \in P : \E s \in Seats : at[s] = p
      <4> SUFFICES ASSUME NEW p \in P PROVE at[p[1]] = p /\ p[1] \in Seats
        OBVIOUS
      <4> QED BY <2>2, <2>3
    <3> HIDE DEF at
    <3>4. at \in [Seats -> P]
      BY <3>1 DEF at
    <3> QED BY <3>2, <3>3, <3>4 DEF Bijection, Injection, Surjection, IsInjective
  <2>5. ExistsBijection(Seats, P)
    BY <2>4 DEF ExistsBijection
  <2>6. IsFiniteSet(P) /\ Cardinality(P) = Cardinality(Seats)
    BY <1>2, <2>5, FS_Bijection
  <2> QED BY <1>2, <1>3, <2>6 DEF P
<1>11. Total(Cards(e), Seats) = e.round * SeatCount * PackSize
  <2> DEFINE c == r * PackSize + PackSize
  <2>0. r * PackSize \in Nat /\ c \in Int
    BY <1>1
  <2>1. \A s \in Seats : Cards(e)[s] = c
    <3> SUFFICES ASSUME NEW s \in Seats PROVE Cards(e)[s] = c
      OBVIOUS
    <3>1. Cards(e)[s] = e.pool[s] + Total(e.hand[s], 1..1)
      BY <1>8 DEF Cards
    <3> DEFINE x == e.hand[s]
    <3>2. Total(x, 1..(0 + 1)) = Total(x, 1..0) + x[0 + 1]
      <4>1. \A i \in 1..(0 + 1) : x[i] \in Int
        BY <1>1, <1>8
      <4> HIDE DEF x
      <4> QED BY <4>1, TotalUpto
    <3>3. Total(x, {}) = 0
      BY FS_EmptySet, TotalStep
    <3>4. 1..0 = {} /\ 0 + 1 = 1
      OBVIOUS
    <3>5. Total(x, 1..1) = PackSize
      BY <1>1, <1>8, <3>2, <3>3, <3>4
    <3>6. e.pool[s] = r * PackSize
      BY <1>3 DEF Between, r
    <3> QED BY <3>1, <3>5, <3>6
  <2> HIDE DEF c
  <2>2. Total(Cards(e), Seats) = SeatCount * c
    BY <1>2, <2>0, <2>1, TotalConst
  <2>3. SeatCount * c = (r + 1) * SeatCount * PackSize
    <3>1. c = (r + 1) * PackSize
      BY <1>1 DEF c
    <3>2. \A a, b, k \in Nat : a * (b * k) = b * a * k
      OBVIOUS
    <3> QED BY <1>1, <1>2, <3>1, <3>2
  <2> QED BY <1>3, <2>2, <2>3
<1>12. Tabled(e)
  BY <1>5, <1>9, <1>10, <1>11 DEF Tabled, Counted
<1>13. Numbered(e, Seats)
  BY <1>3 DEF Numbered, Between
<1>14. TimedBut(e, auto, Seats)
  BY DEF TimedBut
<1>15. e.left > 0
  BY <1>2, <1>3
<1>16. \A s \in Seats : e.hand[s] # <<>>
  BY <1>8
<1> QED BY <1>3, <1>12, <1>13, <1>14, <1>15, <1>16 DEF Clocked, e

(* Whatever is numbered and timed, the rest of the draft stays.            *)
Clockings(d) ==
  [hand : {d.hand}, pool : {d.pool}, seq : [Seats -> Nat],
   timers : SUBSET [seat : Seats, seq : Nat],
   timed : {d.timed}, round : {d.round}, left : {d.left}, done : {d.done}]

LEMMA ArmedClocking ==
  ASSUME NEW d, NEW auto, NEW s \in Seats, NEW e \in Clockings(d)
  PROVE  Armed(e, s, auto) \in Clockings(d)
<1> DEFINE q == [e.seq EXCEPT ![s] = e.seq[s] + 1]
           ts == { t \in e.timers : t.seat = s => t.seq = e.seq[s] }
                 \cup {[seat |-> s, seq |-> e.seq[s] + 1]}
<1>1. Armed(e, s, auto) = IF ~e.timed \/ s \in auto THEN e
                          ELSE [e EXCEPT !.seq = q, !.timers = ts]
  BY DEF Armed
<1>2. e.seq \in [Seats -> Nat] /\ e.timers \in SUBSET [seat : Seats, seq : Nat]
  BY DEF Clockings
<1>3. q \in [Seats -> Nat] /\ e.seq[s] + 1 \in Nat
  BY <1>2
<1>4. ts \in SUBSET [seat : Seats, seq : Nat]
  BY <1>2, <1>3
<1> HIDE DEF q, ts
<1> QED BY <1>1, <1>3, <1>4 DEF Clockings

LEMMA DealtKeeps ==
  ASSUME NEW d, Between(d), NEW auto
  PROVE  LET e == Dealt(d, auto)
         IN Tabled(e) /\ Clocked(e, auto, {}) /\ e.left > 0 /\ e.pool = d.pool
<1> DEFINE o == Opened(d)
           D == Clockings(o)
           h == [x \in Seats \X D |-> Armed(x[2], x[1], auto)]
           step(it, T) == IF T = {} THEN o ELSE Armed(it[T \ {One(T)}], One(T), auto)
<1>1. /\ Tabled(o) /\ Clocked(o, auto, Seats) /\ o.left > 0 /\ o.pool = d.pool
      /\ \A s \in Seats : o.hand[s] # <<>>
  BY OpenedTabled
<1>2. IsFiniteSet(Seats)
  BY SeatsAre
<1>3. o \in D
  <2>1. Shape(o) /\ o.seq \in [Seats -> Nat] /\ o.timers \subseteq [seat : Seats, seq : Nat]
    <3>1. \A t \in Timer : t \in [seat : Seats, seq : Nat]
      BY PackAssumption DEF Timer, FullPool
    <3> QED BY <1>1, <3>1 DEF Tabled, Typed, Clocked, Numbered
  <2> HIDE DEF o
  <2> QED BY <2>1 DEF Clockings, Shape
<1>4. \A s \in Seats, e \in D : Armed(e, s, auto) \in D
  BY ArmedClocking
<1> HIDE DEF o, D
<1>5. h \in [Seats \X D -> D]
  <2>1. \A x \in Seats \X D : Armed(x[2], x[1], auto) \in D
    BY <1>4
  <2> QED BY <2>1
<1>6. \A s \in Seats, e \in D : h[<<s, e>>] = Armed(e, s, auto)
  OBVIOUS
<1>7. \E it : Arms(d, auto, it)
  <2> HIDE DEF h
  <2>1. PICK it : Iterates(it, Seats, D, o, h)
    BY <1>2, <1>3, <1>5, FoldDefined
  <2>2. /\ it \in [SUBSET Seats -> D]
        /\ \A T \in SUBSET Seats : it[T] = IF T = {} THEN o ELSE h[<<One(T), it[T \ {One(T)}]>>]
    BY <2>1 DEF Iterates
  <2>3. \A T \in SUBSET Seats : it[T] = step(it, T)
    <3> SUFFICES ASSUME NEW T \in SUBSET Seats PROVE it[T] = step(it, T)
      OBVIOUS
    <3>1. CASE T = {}
      BY <2>2, <3>1
    <3>2. CASE T # {}
      <4>1. One(T) \in Seats /\ it[T \ {One(T)}] \in D
        BY <2>2, <3>2, OneOf
      <4>2. h[<<One(T), it[T \ {One(T)}]>>] = Armed(it[T \ {One(T)}], One(T), auto)
        BY <1>6, <4>1
      <4> QED BY <2>2, <3>2, <4>2
    <3> QED BY <3>1, <3>2
  <2>4. it = [T \in SUBSET Seats |-> step(it, T)]
    <3> HIDE DEF step
    <3> QED BY <2>2, <2>3
  <2> QED BY <2>4 DEF Arms, o
<1> DEFINE it == CHOOSE i : Arms(d, auto, i)
<1>8. Arms(d, auto, it)
  BY <1>7
<1>9. Dealt(d, auto) = it[Seats]
  BY DealtIs
<1> HIDE DEF it, h
<1>10. \A T \in SUBSET Seats : it[T] = step(it, T)
  BY <1>8 DEF Arms, o
<1> DEFINE G == { T \in SUBSET Seats : /\ Alike(o, it[T]) /\ Tabled(it[T])
                                       /\ Clocked(it[T], auto, Seats \ T) }
<1>11. ASSUME NEW T \in SUBSET Seats, \A U \in SUBSET T : U # T => U \in G
       PROVE  T \in G
  <2>1. CASE T = {}
    <3>1. it[T] = o /\ Seats \ T = Seats
      BY <1>10, <2>1
    <3> QED BY <1>1, <3>1 DEF Alike
  <2>2. CASE T # {}
    <3> DEFINE s == One(T)
               U == T \ {s}
               X == Seats \ U
               e == it[U]
    <3>1. s \in T /\ s \in Seats /\ U \in SUBSET T /\ U # T
      BY <2>2, OneOf
    <3>2. U \in G
      BY <1>11, <3>1
    <3>3. Alike(o, e) /\ Tabled(e) /\ Clocked(e, auto, X)
      BY <3>2
    <3>4. it[T] = Armed(e, s, auto)
      BY <1>10, <2>2
    <3>5. s \in X /\ X \ {s} = Seats \ T
      BY <3>1
    <3>6. e.hand[s] # <<>>
      BY <1>1, <3>1, <3>3 DEF Alike
    <3> HIDE DEF s, U, X, e, G
    <3>7. Alike(e, it[T]) /\ Tabled(it[T]) /\ Clocked(it[T], auto, X \ {s})
      BY <3>1, <3>3, <3>4, <3>5, <3>6, ArmedClock
    <3>8. Alike(o, it[T])
      BY <3>3, <3>7 DEF Alike
    <3> QED BY <3>5, <3>7, <3>8 DEF G
  <2> QED BY <2>1, <2>2
<1>12. SUBSET Seats \subseteq G
  <2> HIDE DEF G
  <2> QED BY <1>2, <1>11, SubsetInd
<1>13. Seats \in G /\ Seats \ Seats = {}
  BY <1>12
<1> QED BY <1>1, <1>9, <1>13 DEF Alike

(***************************************************************************)
(* The draft as it goes on, and as it ends.                                *)
(***************************************************************************)
Full(d) == d \in Draft /\ d.done /\ \A s \in Seats : d.pool[s] = FullPool
Dealing(d, auto) == Tabled(d) /\ Clocked(d, auto, {}) /\ d.left > 0
Going(d, auto) == Full(d) \/ Dealing(d, auto)

LEMMA DealingDraft ==
  ASSUME NEW d, NEW auto, Tabled(d), Numbered(d, {})
  PROVE  d \in Draft /\ d.done = FALSE
<1>1. /\ Shape(d) /\ d.hand \in [Seats -> Seq(1..PackSize)]
      /\ d.pool \in [Seats -> 0..FullPool] /\ d.timed \in BOOLEAN
      /\ d.round \in 0..DraftRounds /\ d.left \in Nat /\ d.done = FALSE
      /\ d.timers \subseteq Timer
  BY PackAssumption DEF Tabled, Typed, Numbered
<1>2. d.seq \in [Seats -> 0..FullPool]
  <2> SUFFICES ASSUME NEW s \in Seats PROVE d.seq[s] \in 0..FullPool
    BY DEF Numbered
  <2>1. d.pool[s] \in 0..FullPool /\ FullPool \in Nat
    BY <1>1, PackAssumption DEF FullPool
  <2>2. d.seq[s] \in Nat /\ d.seq[s] <= IF d.hand[s] = <<>> THEN d.pool[s] ELSE d.pool[s] + 1
    BY DEF Numbered
  <2>3. d.hand[s] # <<>> => d.pool[s] < FullPool
    BY Held DEF Tabled
  <2> QED BY <2>1, <2>2, <2>3
<1> QED BY <1>1, <1>2 DEF Draft, Shape

LEMMA FinalFull ==
  ASSUME NEW p \in [Seats -> 0..FullPool], \A s \in Seats : p[s] = FullPool
  PROVE  Full(Final(p)) /\ Final(p).pool = p
<1> DEFINE f == Final(p)
<1>1. f = [hand |-> [s \in Seats |-> <<>>], pool |-> p,
           seq |-> [s \in Seats |-> 0], timers |-> {}, timed |-> FALSE,
           round |-> 0, left |-> 0, done |-> TRUE]
  <2> DEFINE h == [s \in Seats |-> <<>>]
             z == [s \in Seats |-> 0]
  <2>1. f = [[hand |-> h, pool |-> z, seq |-> z, timers |-> {}, timed |-> FALSE,
              round |-> 0, left |-> 0, done |-> FALSE] EXCEPT !.pool = p, !.done = TRUE]
    BY Zenon DEF Final, NoDraft
  <2> HIDE DEF h, z, f
  <2>2. f = [hand |-> h, pool |-> p, seq |-> z, timers |-> {}, timed |-> FALSE,
             round |-> 0, left |-> 0, done |-> TRUE]
    BY <2>1
  <2> QED BY <2>2 DEF h, z
<1>2. /\ [s \in Seats |-> <<>>] \in [Seats -> Seq(1..PackSize)]
      /\ [s \in Seats |-> 0] \in [Seats -> 0..FullPool]
      /\ 0 \in 0..DraftRounds
  BY PackAssumption DEF FullPool
<1> HIDE DEF f
<1> QED BY <1>1, <1>2 DEF Full, Draft, f

LEMMA AdvancedKeeps ==
  ASSUME NEW d, NEW auto, Tabled(d), Clocked(d, auto, {})
  PROVE  Going(Advanced(d, auto), auto) /\ Advanced(d, auto).pool = d.pool
<1>1. d.left \in Nat /\ d.round \in 1..DraftRounds /\ DraftRounds \in Nat
  BY PackAssumption DEF Tabled, Typed
<1>2. CASE d.left > 0
  BY <1>2 DEF Advanced, Going, Dealing
<1>3. CASE d.left = 0
  <2>1. \A s \in Seats : d.hand[s] = <<>> /\ d.pool[s] = d.round * PackSize
    BY <1>3, Emptied
  <2>2. CASE d.round < DraftRounds
    <3>1. Between(d)
      <4>1. d.round \in 0..(DraftRounds - 1)
        BY <1>1, <2>2
      <4>2. \A s \in Seats : d.seq[s] <= d.pool[s]
        BY <2>1 DEF Clocked, Numbered
      <4> QED BY <2>1, <4>1, <4>2 DEF Between, Tabled, Typed, Clocked, Numbered
    <3>2. Advanced(d, auto) = Dealt(d, auto)
      BY <1>3, <2>2 DEF Advanced
    <3> QED BY <3>1, <3>2, DealtKeeps DEF Going, Dealing
  <2>3. CASE ~(d.round < DraftRounds)
    <3>1. d.round = DraftRounds
      BY <1>1, <2>3
    <3>2. \A s \in Seats : d.pool[s] = FullPool
      <4>1. DraftRounds * PackSize = FullPool
        BY PackAssumption DEF FullPool
      <4> QED BY <2>1, <3>1, <4>1
    <3>3. Advanced(d, auto) = Final(d.pool)
      BY <1>3, <2>3 DEF Advanced
    <3>4. d.pool \in [Seats -> 0..FullPool]
      BY DEF Tabled, Typed
    <3> QED BY <3>2, <3>3, <3>4, FinalFull DEF Going
  <2> QED BY <2>2, <2>3
<1> QED BY <1>1, <1>2, <1>3

LEMMA PickedKeeps ==
  ASSUME NEW d, NEW auto, NEW s \in Seats, Tabled(d), d.hand[s] # <<>>,
         Numbered(d, {}), TimedBut(d, auto, {s})
  PROVE  Going(Picked(d, s, auto), auto) /\ Scored(d, Picked(d, s, auto), s)
<1> DEFINE p == Passed(d, s, auto)
           t == Turned(p, s, auto)
<1>1. Tabled(p) /\ Clocked(p, auto, {s}) /\ Scored(d, p, s)
  BY PassedKeeps
<1> HIDE DEF p
<1>2. Tabled(t) /\ Clocked(t, auto, {}) /\ Alike(p, t)
  BY <1>1, TurnedKeeps
<1> HIDE DEF t
<1>3. Going(Advanced(t, auto), auto) /\ Advanced(t, auto).pool = t.pool
  BY <1>2, AdvancedKeeps
<1>4. Picked(d, s, auto) = Advanced(t, auto)
  BY DEF Picked, p, t
<1> QED BY <1>1, <1>2, <1>3, <1>4 DEF Alike, Scored

(***************************************************************************)
(* The seats the server drives pick until none of them holds a pack: every *)
(* pick adds a card to a pool, and there are no more cards than that.      *)
(***************************************************************************)
Quiet(d, auto) == d.done \/ \A s \in auto : d.hand[s] = <<>>

LEMMA GoingDraft ==
  ASSUME NEW d, NEW auto, Going(d, auto)
  PROVE  d \in Draft /\ d.pool \in [Seats -> 0..FullPool]
         /\ \A s \in Seats : d.pool[s] \in Int /\ d.pool[s] \in Nat /\ d.pool[s] <= FullPool
<1>1. d \in Draft
  BY DealingDraft DEF Going, Full, Dealing, Clocked
<1>2. d.pool \in [Seats -> 0..FullPool] /\ FullPool \in Nat
  BY <1>1, PackAssumption DEF Draft, FullPool
<1> QED BY <1>1, <1>2

LEMMA BotPickKeeps ==
  ASSUME NEW d, NEW auto \in SUBSET Seats, Going(d, auto)
  PROVE  LET e == BotPick(d, auto)
         IN /\ Going(e, auto)
            /\ Quiet(d, auto) => e = d
            /\ ~Quiet(d, auto) => Total(e.pool, Seats) = Total(d.pool, Seats) + 1
<1> DEFINE e == BotPick(d, auto)
           ready == { s \in auto : d.hand[s] # <<>> }
           s == Min(ready)
<1>1. CASE Quiet(d, auto)
  <2>1. e = d
    BY <1>1 DEF BotPick, Quiet
  <2> QED BY <1>1, <2>1
<1>2. CASE ~Quiet(d, auto)
  <2>1. ~d.done /\ ready # {} /\ ready \in SUBSET Seats
    BY <1>2 DEF Quiet
  <2>2. s \in ready
    <3> HIDE DEF ready
    <3> QED BY <2>1, MinOf
  <2>3. s \in Seats /\ s \in auto /\ d.hand[s] # <<>>
    BY <2>2
  <2>4. e = Picked(d, s, auto)
    BY <2>1 DEF BotPick
  <2> HIDE DEF s, e, ready
  <2>5. Tabled(d) /\ Clocked(d, auto, {})
    BY <2>1 DEF Going, Full, Dealing
  <2>6. Numbered(d, {}) /\ TimedBut(d, auto, {s})
    BY <2>5 DEF Clocked, TimedBut
  <2>7. Going(e, auto) /\ Scored(d, e, s)
    BY <2>3, <2>4, <2>5, <2>6, PickedKeeps
  <2>8. Total(e.pool, Seats) = Total(d.pool, Seats) + 1
    <3> DEFINE f == d.pool
               g == e.pool
    <3>1. /\ f \in [Seats -> Int] /\ g \in [Seats -> Int]
          /\ \A y \in Seats \ {s} : g[y] = f[y]
          /\ g[s] = f[s] + 1 /\ f[s] \in Int
      <4>1. f \in [Seats -> 0..FullPool] /\ g \in [Seats -> 0..FullPool] /\ FullPool \in Nat
        BY <2>7, GoingDraft, PackAssumption DEF FullPool
      <4>2. \A n \in 0..FullPool : n \in Int
        BY <4>1
      <4> QED BY <2>3, <2>7, <4>1, <4>2 DEF Scored
    <3> HIDE DEF f, g
    <3>2. IsFiniteSet(Seats)
      BY SeatsAre
    <3>3. Total(g, Seats) = Total(f, Seats) - f[s] + g[s]
      BY <2>3, <3>1, <3>2, TotalUpdate
    <3>4. Total(f, Seats) \in Int
      <4>1. \A y \in Seats : f[y] \in Int
        BY <3>1
      <4> QED BY <3>2, <4>1, TotalStep
    <3> DEFINE a == Total(f, Seats)
               b == Total(g, Seats)
               x == f[s]
    <3>5. a \in Int /\ x \in Int /\ b = a - x + (x + 1)
      BY <3>1, <3>3, <3>4
    <3> HIDE DEF a, b, x
    <3>6. b = a + 1
      BY <3>5
    <3> QED BY <3>6 DEF a, b, f, g
  <2> QED BY <1>2, <2>7, <2>8 DEF e
<1> QED BY <1>1, <1>2

Slots == 1..(Cardinality(Seats) * FullPool)
Bottoms(d, auto, it) ==
  it = [T \in SUBSET Slots |-> IF T = {} THEN d ELSE BotPick(it[T \ {One(T)}], auto)]

LEMMA BotsPickedIs ==
  ASSUME NEW d, NEW auto
  PROVE  BotsPicked(d, auto) = (CHOOSE it : Bottoms(d, auto, it))[Slots]
BY Zenon DEF BotsPicked, Bottoms, Slots, One, FoldSet, MapThenFoldSet

LEMMA BotsPickedKeeps ==
  ASSUME NEW d, NEW auto \in SUBSET Seats, Going(d, auto)
  PROVE  Going(BotsPicked(d, auto), auto) /\ Quiet(BotsPicked(d, auto), auto)
<1> DEFINE D == { e \in Draft : Going(e, auto) }
           h == [x \in Slots \X D |-> BotPick(x[2], auto)]
           step(it, T) == IF T = {} THEN d ELSE BotPick(it[T \ {One(T)}], auto)
           limit == SeatCount * FullPool
           sum(e) == Total(e.pool, Seats)
<1>1. /\ FullPool \in Nat /\ SeatCount \in Nat /\ limit \in Nat /\ IsFiniteSet(Seats)
      /\ SeatCount = Cardinality(Seats)
  <2>1. FullPool \in Nat /\ SeatCount \in Nat /\ IsFiniteSet(Seats)
    BY SeatsAre, PackAssumption DEF FullPool
  <2> QED BY <2>1 DEF SeatCount
<1>2. IsFiniteSet(Slots) /\ Cardinality(Slots) = limit
  <2>1. Slots = 1..limit
    BY DEF Slots, SeatCount
  <2> HIDE DEF limit
  <2>l. limit \in Int
    BY <1>1
  <2>2. IsFiniteSet(1..limit) /\ Cardinality(1..limit) = IF 1 > limit THEN 0 ELSE limit - 1 + 1
    BY <2>l, FS_Interval
  <2> QED BY <1>1, <2>1, <2>2
<1>3. d \in D
  BY GoingDraft
<1>4. \A e \in D : BotPick(e, auto) \in D
  BY BotPickKeeps, GoingDraft
<1>d. \A e \in D : Going(e, auto)
  OBVIOUS
<1> HIDE DEF D
<1>5. h \in [Slots \X D -> D]
  BY <1>4
<1>6. \A i \in Slots, e \in D : h[<<i, e>>] = BotPick(e, auto)
  OBVIOUS
<1>7. \E it : Bottoms(d, auto, it)
  <2> HIDE DEF h
  <2>1. PICK it : Iterates(it, Slots, D, d, h)
    BY <1>2, <1>3, <1>5, FoldDefined
  <2>2. /\ it \in [SUBSET Slots -> D]
        /\ \A T \in SUBSET Slots : it[T] = IF T = {} THEN d ELSE h[<<One(T), it[T \ {One(T)}]>>]
    BY <2>1 DEF Iterates
  <2>3. \A T \in SUBSET Slots : it[T] = step(it, T)
    <3> SUFFICES ASSUME NEW T \in SUBSET Slots PROVE it[T] = step(it, T)
      OBVIOUS
    <3>1. CASE T = {}
      BY <2>2, <3>1
    <3>2. CASE T # {}
      <4>1. One(T) \in Slots /\ it[T \ {One(T)}] \in D
        BY <2>2, <3>2, OneOf
      <4>2. h[<<One(T), it[T \ {One(T)}]>>] = BotPick(it[T \ {One(T)}], auto)
        BY <1>6, <4>1
      <4> QED BY <2>2, <3>2, <4>2
    <3> QED BY <3>1, <3>2
  <2>4. it = [T \in SUBSET Slots |-> step(it, T)]
    <3> HIDE DEF step
    <3> QED BY <2>2, <2>3
  <2> QED BY <2>4 DEF Bottoms
<1> DEFINE it == CHOOSE i : Bottoms(d, auto, i)
<1>8. Bottoms(d, auto, it)
  BY <1>7
<1>9. BotsPicked(d, auto) = it[Slots]
  BY BotsPickedIs
<1> HIDE DEF it, h
<1>10. \A T \in SUBSET Slots : it[T] = step(it, T)
  BY <1>8 DEF Bottoms
<1> HIDE DEF limit
<1> DEFINE G == { T \in SUBSET Slots :
                    /\ Going(it[T], auto)
                    /\ Quiet(it[T], auto) \/ sum(it[T]) >= Cardinality(T) }
<1>s. ASSUME NEW e, Going(e, auto)
      PROVE  sum(e) \in Int /\ sum(e) >= 0
  <2> DEFINE f == e.pool
  <2>1. \A y \in Seats : f[y] \in Nat /\ f[y] <= FullPool
    BY <1>s, GoingDraft
  <2>2. \A y \in Seats : f[y] \in Int
    BY <1>s, GoingDraft
  <2> HIDE DEF f
  <2>3. Total(f, Seats) \in Int
    BY <1>1, <2>2, TotalStep
  <2>4. 0 <= Total(f, Seats)
    BY <1>1, <2>1, TotalBound
  <2> QED BY <2>3, <2>4 DEF f
<1>11. ASSUME NEW T \in SUBSET Slots, \A U \in SUBSET T : U # T => U \in G
       PROVE  T \in G
  <2>1. CASE T = {}
    <3>1. it[T] = d
      BY <1>10, <2>1
    <3>2. Cardinality(T) = 0 /\ sum(d) >= 0
      BY <1>s, <2>1, FS_EmptySet
    <3> HIDE DEF sum
    <3> QED BY <3>1, <3>2
  <2>2. CASE T # {}
    <3> DEFINE U == T \ {One(T)}
               e == it[U]
               n == Cardinality(U)
    <3>1. U \in SUBSET T /\ U # T /\ One(T) \in T
      BY <2>2, OneOf
    <3>2. U \in G
      BY <1>11, <3>1
    <3>3. Going(e, auto) /\ (Quiet(e, auto) \/ sum(e) >= n)
      BY <3>2
    <3>4. it[T] = BotPick(e, auto)
      BY <1>10, <2>2
    <3>5. Cardinality(T) = n + 1 /\ n \in Nat
      <4>1. IsFiniteSet(T) /\ Cardinality(T) \in Nat
        BY <1>2, FS_Subset, FS_CardinalityType
      <4>2. IsFiniteSet(U) /\ n = Cardinality(T) - 1
        BY <3>1, <4>1, FS_RemoveElement
      <4>3. n \in Nat
        BY <4>2, FS_CardinalityType
      <4> HIDE DEF n
      <4> QED BY <4>1, <4>2, <4>3
    <3> HIDE DEF U, e, n, G
    <3>6. /\ Going(it[T], auto)
          /\ Quiet(e, auto) => it[T] = e
          /\ ~Quiet(e, auto) => sum(it[T]) = sum(e) + 1
      BY <3>3, <3>4, BotPickKeeps
    <3>7. sum(e) \in Int
      BY <1>s, <3>3
    <3> HIDE DEF sum
    <3>8. Quiet(it[T], auto) \/ sum(it[T]) >= Cardinality(T)
      <4>1. CASE Quiet(e, auto)
        BY <3>6, <4>1
      <4>2. CASE ~Quiet(e, auto)
        <5>1. sum(e) >= n /\ sum(it[T]) = sum(e) + 1
          BY <3>3, <3>6, <4>2
        <5> QED BY <3>5, <3>7, <5>1
      <4> QED BY <4>1, <4>2
    <3> QED BY <3>6, <3>8 DEF G
  <2> QED BY <2>1, <2>2
<1>12. SUBSET Slots \subseteq G
  <2> HIDE DEF G
  <2> QED BY <1>2, <1>11, SubsetInd
<1> DEFINE e == it[Slots]
<1>13. Going(e, auto) /\ (Quiet(e, auto) \/ sum(e) >= limit)
  <2>1. Slots \in G
    BY <1>12
  <2> QED BY <1>2, <2>1
<1> HIDE DEF e
<1>14. Quiet(e, auto)
  <2> SUFFICES ASSUME ~Quiet(e, auto), sum(e) >= limit PROVE FALSE
    BY <1>13
  <2>1. PICK s \in auto : e.hand[s] # <<>>
    BY DEF Quiet
  <2>2. s \in Seats /\ Tabled(e)
    BY <1>13 DEF Quiet, Going, Full, Dealing
  <2>3. e.pool[s] < FullPool
    BY <2>1, <2>2, Held DEF Tabled
  <2> DEFINE f == e.pool
  <2>4. (\A y \in Seats : f[y] \in Nat /\ f[y] <= FullPool) /\ f[s] < FullPool
    BY <1>13, <2>3, GoingDraft
  <2> HIDE DEF f
  <2>5. Total(f, Seats) < Cardinality(Seats) * FullPool
    <3>1. IsFiniteSet(Seats) /\ FullPool \in Int /\ s \in Seats
      BY <1>1, <2>2
    <3> QED BY <2>4, <3>1, TotalBelow
  <2>6. sum(e) < limit /\ sum(e) \in Int
    BY <1>1, <1>13, <1>s, <2>5 DEF f, limit
  <2> HIDE DEF sum
  <2> QED BY <1>1, <2>6
<1> QED BY <1>9, <1>13, <1>14 DEF e

(***************************************************************************)
(* The start of a draft, and what its cards add up to.                     *)
(***************************************************************************)

LEMMA StartedKeeps ==
  ASSUME NEW timed \in BOOLEAN, NEW auto \in SUBSET Seats
  PROVE  Going(Started(timed, auto), auto) /\ Quiet(Started(timed, auto), auto)
<1> DEFINE h == [s \in Seats |-> <<>>]
           z == [s \in Seats |-> 0]
           d == [NoDraft EXCEPT !.timed = timed]
<1>1. d = [[hand |-> h, pool |-> z, seq |-> z, timers |-> {}, timed |-> FALSE,
            round |-> 0, left |-> 0, done |-> FALSE] EXCEPT !.timed = timed]
  BY Zenon DEF NoDraft
<1>2. /\ PackSize \in Nat /\ FullPool \in Nat /\ 0 * PackSize = 0
      /\ 0 \in 0..(DraftRounds - 1)
  BY PackAssumption DEF FullPool
<1>3. z \in [Seats -> 0..FullPool] /\ z \in [Seats -> Nat] /\ \A s \in Seats : z[s] = 0
  BY <1>2
<1> HIDE DEF h, z, d
<1>4. d = [hand |-> h, pool |-> z, seq |-> z, timers |-> {}, timed |-> timed,
           round |-> 0, left |-> 0, done |-> FALSE]
  BY <1>1
<1>5. Between(d)
  BY <1>2, <1>3, <1>4 DEF Between, Shape
<1>6. Going(Dealt(d, auto), auto)
  BY <1>5, DealtKeeps DEF Going, Dealing
<1>7. Started(timed, auto) = BotsPicked(Dealt(d, auto), auto)
  BY DEF Started, d
<1> QED BY <1>6, <1>7, BotsPickedKeeps
=============================================================================
