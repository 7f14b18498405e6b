----------------------------- MODULE SumLemmas -----------------------------
(***************************************************************************)
(* What the sum of a function over a finite set obeys, for the components  *)
(* whose invariants are about sums: the quantities of lots, the movements  *)
(* of a product, the amounts of journal lines.                             *)
(*                                                                         *)
(* SumFunctionOnSet is a fold, defined by recursion over the subsets of    *)
(* the set. The induction is done by hand, over a set of good subsets.     *)
(***************************************************************************)
EXTENDS Integers, Functions, FiniteSets, FiniteSetTheorems, WellFoundedInduction, TLAPS

\* Induction over the naturals, for a set of good ones.
LEMMA NaturalsByStep ==
  ASSUME NEW G, 0 \in G, \A n \in Nat : n \in G => n + 1 \in G
  PROVE  Nat \subseteq G
<1> DEFINE Bad == Nat \ G
<1> SUFFICES ASSUME Bad # {} PROVE FALSE
  OBVIOUS
<1>1. PICK m \in Bad : \A y \in Bad : ~ (<<y, m>> \in OpToRel(<, Nat))
  BY WFMin, NatLessThanWellFounded
<1>2. \A y \in Bad : ~ (y < m)
  BY <1>1 DEF OpToRel
<1>3. m # 0 /\ m - 1 \in Nat /\ m - 1 \in G
  BY <1>2
<1> QED
  BY <1>3

\* Induction over the subsets of a finite set, for a set of good ones.
LEMMA SubsetsByRemoval ==
  ASSUME NEW S, IsFiniteSet(S), NEW Good,
         \A T \in SUBSET S : (\A x \in T : T \ {x} \in Good) => T \in Good
  PROVE  S \in Good
<1> DEFINE G == {n \in Nat : \A T \in SUBSET S : Cardinality(T) <= n => T \in Good}
<1>1. \A T \in SUBSET S : IsFiniteSet(T) /\ Cardinality(T) \in Nat
  BY FS_Subset, FS_CardinalityType
<1>2. 0 \in G
  <2> SUFFICES ASSUME NEW T \in SUBSET S, Cardinality(T) <= 0 PROVE T \in Good
    OBVIOUS
  <2> QED
    BY <1>1, FS_EmptySet
<1>3. ASSUME NEW n \in Nat, n \in G PROVE n + 1 \in G
  <2> SUFFICES ASSUME NEW T \in SUBSET S, Cardinality(T) <= n + 1 PROVE T \in Good
    OBVIOUS
  <2> SUFFICES ASSUME NEW x \in T PROVE T \ {x} \in Good
    OBVIOUS
  <2>1. Cardinality(T \ {x}) = Cardinality(T) - 1
    BY <1>1, FS_RemoveElement
  <2> QED
    BY <1>1, <1>3, <2>1
<1>4. Cardinality(S) \in G
  <2>1. Nat \subseteq G
    <3> HIDE DEF G
    <3> QED
      BY <1>2, <1>3, NaturalsByStep
  <2> QED
    BY <1>1, <2>1
<1> QED
  BY <1>1, <1>4

-----------------------------------------------------------------------------
(* The recursion behind the fold has a solution, and only one.             *)

First(s) == CHOOSE x \in s : TRUE

\* One step of the recursion: the sum over s, by g of the rest.
StepOf(f, g, s) == IF s = {} THEN 0 ELSE f[First(s)] + g[s \ {First(s)}]

\* g is the recursion's function on the subsets of S.
Solves(f, g, S) == g = [s \in SUBSET S |-> StepOf(f, g, s)]

LEMMA SolutionExists ==
  ASSUME NEW S, IsFiniteSet(S), NEW f
  PROVE  \E g : Solves(f, g, S)
<1> DEFINE D(n) == {s \in SUBSET S : Cardinality(s) <= n}
           G == {n \in Nat : \E g : g = [s \in D(n) |-> StepOf(f, g, s)]}
<1>1. \A T \in SUBSET S : IsFiniteSet(T) /\ Cardinality(T) \in Nat /\ Cardinality(T) <= Cardinality(S)
  BY FS_Subset, FS_CardinalityType
<1>2. \A T \in SUBSET S : T # {} =>
        /\ First(T) \in T
        /\ T \ {First(T)} \in SUBSET S
        /\ Cardinality(T \ {First(T)}) = Cardinality(T) - 1
  BY <1>1, FS_RemoveElement DEF First
<1>3. 0 \in G
  <2>1. D(0) = {{}}
    BY <1>1, FS_EmptySet
  <2> DEFINE g == [s \in D(0) |-> 0]
  <2>2. g = [s \in D(0) |-> StepOf(f, g, s)]
    BY <2>1 DEF StepOf
  <2> QED
    BY <2>2
<1>4. ASSUME NEW n \in Nat, n \in G PROVE n + 1 \in G
  <2>1. PICK g : g = [s \in D(n) |-> StepOf(f, g, s)]
    BY <1>4
  <2> DEFINE h == [s \in D(n + 1) |-> StepOf(f, g, s)]
  <2>2. \A s \in D(n) : g[s] = StepOf(f, g, s)
    BY <2>1
  <2>3. ASSUME NEW s \in D(n + 1) PROVE StepOf(f, g, s) = StepOf(f, h, s)
    <3>1. CASE s = {}
      BY <3>1 DEF StepOf
    <3>2. CASE s # {}
      <4> DEFINE r == s \ {First(s)}
      <4>1. r \in D(n) /\ r \in D(n + 1)
        BY <1>1, <1>2, <3>2
      <4>2. g[r] = h[r]
        BY <2>2, <4>1
      <4> QED
        BY <4>2 DEF StepOf
    <3> QED
      BY <3>1, <3>2
  <2>4. h = [s \in D(n + 1) |-> StepOf(f, h, s)]
    BY <2>3
  <2>5. n + 1 \in Nat /\ \E k : k = [s \in D(n + 1) |-> StepOf(f, k, s)]
    <3> HIDE DEF h
    <3> QED
      BY <2>4
  <2> QED
    BY <2>5
<1>5. Cardinality(S) \in G
  <2>1. Nat \subseteq G
    <3> HIDE DEF G
    <3> QED
      BY <1>3, <1>4, NaturalsByStep
  <2> QED
    BY <1>1, <2>1
<1>6. D(Cardinality(S)) = SUBSET S
  BY <1>1
<1> QED
  BY <1>5, <1>6 DEF Solves

\* Solutions for S and for a part of it agree on the part.
LEMMA SolutionUnique ==
  ASSUME NEW S, IsFiniteSet(S), NEW f, NEW T \in SUBSET S, NEW g, NEW h,
         Solves(f, g, S), Solves(f, h, T)
  PROVE  g[T] = h[T]
<1> DEFINE Good == {s \in SUBSET T : g[s] = h[s]}
<1>1. \A s \in SUBSET T : g[s] = StepOf(f, g, s) /\ h[s] = StepOf(f, h, s)
  BY DEF Solves
<1>2. ASSUME NEW s \in SUBSET T, \A x \in s : s \ {x} \in Good PROVE s \in Good
  <2>1. CASE s = {}
    BY <1>1, <2>1 DEF StepOf
  <2>2. CASE s # {}
    <3>1. First(s) \in s
      BY <2>2 DEF First
    <3>2. g[s \ {First(s)}] = h[s \ {First(s)}]
      BY <1>2, <3>1
    <3> QED
      BY <1>1, <3>2, <2>2 DEF StepOf
  <2> QED
    BY <2>1, <2>2
<1>3. T \in Good
  <2> HIDE DEF Good
  <2>1. IsFiniteSet(T)
    BY FS_Subset
  <2> QED
    BY <1>2, <2>1, SubsetsByRemoval
<1> QED
  BY <1>3

\* The fold is the value of a solution.
LEMMA SumSolves ==
  ASSUME NEW S, IsFiniteSet(S), NEW f
  PROVE  \E g : Solves(f, g, S) /\ SumFunctionOnSet(f, S) = g[S]
<1> DEFINE g == CHOOSE h : Solves(f, h, S)
<1>1. Solves(f, g, S)
  BY SolutionExists
<1>2. SumFunctionOnSet(f, S) = g[S]
  BY DEF SumFunctionOnSet, FoldFunctionOnSet, MapThenFoldSet, Solves, StepOf, First
<1> QED
  BY <1>1, <1>2

\* The equation of the sum, with the element the fold happens to choose.
LEMMA SumUnfold ==
  ASSUME NEW S, IsFiniteSet(S), NEW f
  PROVE  SumFunctionOnSet(f, S) =
           IF S = {} THEN 0
           ELSE f[First(S)] + SumFunctionOnSet(f, S \ {First(S)})
<1>1. PICK g : Solves(f, g, S) /\ SumFunctionOnSet(f, S) = g[S]
  BY SumSolves
<1>2. g[S] = StepOf(f, g, S)
  BY <1>1 DEF Solves
<1> DEFINE R == S \ {First(S)}
<1>3. R \in SUBSET S /\ IsFiniteSet(R)
  BY FS_Subset
<1>4. PICK h : Solves(f, h, R) /\ SumFunctionOnSet(f, R) = h[R]
  BY <1>3, SumSolves
<1>5. g[R] = h[R]
  BY <1>1, <1>3, <1>4, SolutionUnique
<1> QED
  BY <1>1, <1>2, <1>4, <1>5 DEF StepOf

-----------------------------------------------------------------------------
(* What the components use.                                                *)

LEMMA SumEmpty ==
  ASSUME NEW f
  PROVE  SumFunctionOnSet(f, {}) = 0
BY SumUnfold, FS_EmptySet

\* Only the values at the members count.
LEMMA SumSame ==
  ASSUME NEW S, IsFiniteSet(S), NEW f, NEW g, \A x \in S : f[x] = g[x]
  PROVE  SumFunctionOnSet(f, S) = SumFunctionOnSet(g, S)
<1> DEFINE Good == {T \in SUBSET S : SumFunctionOnSet(f, T) = SumFunctionOnSet(g, T)}
<1>1. ASSUME NEW T \in SUBSET S, \A x \in T : T \ {x} \in Good PROVE T \in Good
  <2>1. IsFiniteSet(T)
    BY FS_Subset
  <2>2. CASE T = {}
    BY <2>2, SumEmpty
  <2>3. CASE T # {}
    <3>1. First(T) \in T
      BY <2>3 DEF First
    <3>2. SumFunctionOnSet(f, T \ {First(T)}) = SumFunctionOnSet(g, T \ {First(T)})
      BY <1>1, <3>1
    <3>3. f[First(T)] = g[First(T)]
      BY <3>1
    <3> QED
      BY <2>1, <2>3, <3>2, <3>3, SumUnfold
  <2> QED
    BY <2>2, <2>3
<1>2. S \in Good
  <2> HIDE DEF Good
  <2> QED
    BY <1>1, SubsetsByRemoval
<1> QED
  BY <1>2

\* A sum of integers is an integer.
LEMMA SumInt ==
  ASSUME NEW S, IsFiniteSet(S), NEW f, \A x \in S : f[x] \in Int
  PROVE  SumFunctionOnSet(f, S) \in Int
<1> DEFINE Good == {T \in SUBSET S : SumFunctionOnSet(f, T) \in Int}
<1>1. ASSUME NEW T \in SUBSET S, \A x \in T : T \ {x} \in Good PROVE T \in Good
  <2>1. IsFiniteSet(T)
    BY FS_Subset
  <2>2. CASE T = {}
    BY <2>2, SumEmpty
  <2>3. CASE T # {}
    <3>1. First(T) \in T
      BY <2>3 DEF First
    <3>2. SumFunctionOnSet(f, T \ {First(T)}) \in Int
      BY <1>1, <3>1
    <3>3. f[First(T)] \in Int
      BY <3>1
    <3>4. SumFunctionOnSet(f, T) = f[First(T)] + SumFunctionOnSet(f, T \ {First(T)})
      BY <2>1, <2>3, SumUnfold
    <3> QED
      BY <3>2, <3>3, <3>4
  <2> QED
    BY <2>2, <2>3
<1>2. S \in Good
  <2> HIDE DEF Good
  <2> QED
    BY <1>1, SubsetsByRemoval
<1> QED
  BY <1>2

\* Any member can be taken out, not only the one the fold chooses.
LEMMA SumRemove ==
  ASSUME NEW S, IsFiniteSet(S), NEW f, \A x \in S : f[x] \in Int, NEW a \in S
  PROVE  SumFunctionOnSet(f, S) = f[a] + SumFunctionOnSet(f, S \ {a})
<1> DEFINE Good == {T \in SUBSET S :
             \A x \in T : SumFunctionOnSet(f, T) = f[x] + SumFunctionOnSet(f, T \ {x})}
<1>1. ASSUME NEW T \in SUBSET S, \A x \in T : T \ {x} \in Good PROVE T \in Good
  <2> SUFFICES ASSUME NEW x \in T
               PROVE  SumFunctionOnSet(f, T) = f[x] + SumFunctionOnSet(f, T \ {x})
    OBVIOUS
  <2> DEFINE c == First(T)
             R == (T \ {c}) \ {x}
  <2>1. c \in T /\ IsFiniteSet(T)
    BY FS_Subset DEF First
  <2>2. SumFunctionOnSet(f, T) = f[c] + SumFunctionOnSet(f, T \ {c})
    BY <2>1, SumUnfold
  <2>3. CASE x = c
    BY <2>2, <2>3
  <2>4. CASE x # c
    <3>1. SumFunctionOnSet(f, T \ {c}) = f[x] + SumFunctionOnSet(f, R)
      BY <1>1, <2>1, <2>4
    <3>2. SumFunctionOnSet(f, T \ {x}) = f[c] + SumFunctionOnSet(f, R)
      <4>1. (T \ {x}) \ {c} = R
        OBVIOUS
      <4> QED
        BY <1>1, <2>1, <2>4, <4>1
    <3>3. f[x] \in Int /\ f[c] \in Int /\ SumFunctionOnSet(f, R) \in Int
      <4>1. R \in SUBSET S /\ IsFiniteSet(R)
        BY FS_Subset
      <4> QED
        BY <2>1, <4>1, SumInt
    <3> QED
      BY <2>2, <3>1, <3>2, <3>3
  <2> QED
    BY <2>3, <2>4
<1>2. S \in Good
  <2> HIDE DEF Good
  <2> QED
    BY <1>1, SubsetsByRemoval
<1> QED
  BY <1>2

LEMMA SumAdd ==
  ASSUME NEW S, IsFiniteSet(S), NEW f, \A x \in S : f[x] \in Int,
         NEW a, a \notin S, f[a] \in Int
  PROVE  SumFunctionOnSet(f, S \cup {a}) = SumFunctionOnSet(f, S) + f[a]
<1> DEFINE T == S \cup {a}
<1>1. IsFiniteSet(T) /\ T \ {a} = S /\ a \in T /\ \A x \in T : f[x] \in Int
  BY FS_AddElement
<1>2. SumFunctionOnSet(f, T) = f[a] + SumFunctionOnSet(f, S)
  BY <1>1, SumRemove
<1>3. SumFunctionOnSet(f, S) \in Int
  BY SumInt
<1> QED
  BY <1>2, <1>3

LEMMA SumMonotone ==
  ASSUME NEW S, IsFiniteSet(S), NEW f, NEW g,
         \A x \in S : f[x] \in Int /\ g[x] \in Int /\ f[x] <= g[x]
  PROVE  SumFunctionOnSet(f, S) <= SumFunctionOnSet(g, S)
<1> DEFINE Good == {T \in SUBSET S : SumFunctionOnSet(f, T) <= SumFunctionOnSet(g, T)}
<1>1. ASSUME NEW T \in SUBSET S, \A x \in T : T \ {x} \in Good PROVE T \in Good
  <2>1. CASE T = {}
    BY <2>1, SumEmpty
  <2>2. CASE T # {}
    <3>1. PICK a \in T : TRUE
      BY <2>2
    <3> DEFINE R == T \ {a}
    <3>2. IsFiniteSet(T) /\ IsFiniteSet(R)
      BY FS_Subset
    <3>3. SumFunctionOnSet(f, T) = f[a] + SumFunctionOnSet(f, R)
      BY <3>2, SumRemove
    <3>4. SumFunctionOnSet(g, T) = g[a] + SumFunctionOnSet(g, R)
      BY <3>2, SumRemove
    <3>5. SumFunctionOnSet(f, R) \in Int /\ SumFunctionOnSet(g, R) \in Int
      BY <3>2, SumInt
    <3>6. SumFunctionOnSet(f, R) <= SumFunctionOnSet(g, R)
      BY <1>1
    <3>7. f[a] \in Int /\ g[a] \in Int /\ f[a] <= g[a]
      OBVIOUS
    <3>8. SumFunctionOnSet(f, T) <= SumFunctionOnSet(g, T)
      BY <3>3, <3>4, <3>5, <3>6, <3>7
    <3> QED
      BY <3>8
  <2> QED
    BY <2>1, <2>2
<1>2. S \in Good
  <2> HIDE DEF Good
  <2> QED
    BY <1>1, SubsetsByRemoval
<1> QED
  BY <1>2

\* A sum of zeros.
LEMMA SumZero ==
  ASSUME NEW S, IsFiniteSet(S), NEW f, \A x \in S : f[x] = 0
  PROVE  SumFunctionOnSet(f, S) = 0
<1> DEFINE Good == {T \in SUBSET S : SumFunctionOnSet(f, T) = 0}
<1>1. ASSUME NEW T \in SUBSET S, \A x \in T : T \ {x} \in Good PROVE T \in Good
  <2>1. CASE T = {}
    BY <2>1, SumEmpty
  <2>2. CASE T # {}
    <3>1. PICK a \in T : TRUE
      BY <2>2
    <3>2. SumFunctionOnSet(f, T) = f[a] + SumFunctionOnSet(f, T \ {a})
      BY FS_Subset, SumRemove
    <3>3. SumFunctionOnSet(f, T \ {a}) = 0 /\ f[a] = 0
      BY <1>1
    <3>4. SumFunctionOnSet(f, T) = 0
      BY <3>2, <3>3
    <3> QED
      BY <3>4
  <2> QED
    BY <2>1, <2>2
<1>2. S \in Good
  <2> HIDE DEF Good
  <2> QED
    BY <1>1, SubsetsByRemoval
<1> QED
  BY <1>2

\* A sum of natural numbers is one.
LEMMA SumNat ==
  ASSUME NEW S, IsFiniteSet(S), NEW f, \A x \in S : f[x] \in Nat
  PROVE  SumFunctionOnSet(f, S) \in Nat
<1> DEFINE z == [x \in S |-> 0]
<1>1. SumFunctionOnSet(z, S) = 0
  BY SumZero
<1>2. SumFunctionOnSet(z, S) <= SumFunctionOnSet(f, S)
  BY SumMonotone
<1>3. SumFunctionOnSet(f, S) \in Int
  BY SumInt
<1> QED
  BY <1>1, <1>2, <1>3

\* What is set aside can be added separately.
LEMMA SumDisjoint ==
  ASSUME NEW S, IsFiniteSet(S), NEW T, IsFiniteSet(T), S \cap T = {},
         NEW f, \A x \in S \cup T : f[x] \in Int
  PROVE  SumFunctionOnSet(f, S \cup T) = SumFunctionOnSet(f, S) + SumFunctionOnSet(f, T)
<1> DEFINE Good == {U \in SUBSET T :
             SumFunctionOnSet(f, S \cup U) = SumFunctionOnSet(f, S) + SumFunctionOnSet(f, U)}
<1>1. SumFunctionOnSet(f, S) \in Int
  BY SumInt
<1>2. ASSUME NEW U \in SUBSET T, \A x \in U : U \ {x} \in Good PROVE U \in Good
  <2>1. CASE U = {}
    <3>1. SumFunctionOnSet(f, S \cup U) = SumFunctionOnSet(f, S)
      <4>1. S \cup U = S
        BY <2>1
      <4> QED
        BY <4>1, Zenon
    <3>2. SumFunctionOnSet(f, U) = 0
      BY <2>1, SumEmpty
    <3>3. SumFunctionOnSet(f, S \cup U) = SumFunctionOnSet(f, S) + SumFunctionOnSet(f, U)
      BY <1>1, <3>1, <3>2
    <3> QED
      BY <3>3
  <2>2. CASE U # {}
    <3>1. PICK a \in U : TRUE
      BY <2>2
    <3> DEFINE R == U \ {a}
    <3>2. IsFiniteSet(U) /\ IsFiniteSet(R) /\ IsFiniteSet(S \cup U)
      BY FS_Subset, FS_Union
    <3>3. SumFunctionOnSet(f, U) = f[a] + SumFunctionOnSet(f, R)
      BY <3>2, SumRemove
    <3>4. (S \cup U) \ {a} = S \cup R
      OBVIOUS
    <3>5. SumFunctionOnSet(f, S \cup U) = f[a] + SumFunctionOnSet(f, S \cup R)
      BY <3>2, <3>4, SumRemove
    <3>6. SumFunctionOnSet(f, S \cup R) = SumFunctionOnSet(f, S) + SumFunctionOnSet(f, R)
      BY <1>2
    <3>7. SumFunctionOnSet(f, R) \in Int /\ f[a] \in Int
      BY <3>2, SumInt
    <3>8. SumFunctionOnSet(f, S \cup U) = SumFunctionOnSet(f, S) + SumFunctionOnSet(f, U)
      BY <1>1, <3>3, <3>5, <3>6, <3>7
    <3> QED
      BY <3>8
  <2> QED
    BY <2>1, <2>2
<1>3. T \in Good
  <2> HIDE DEF Good
  <2> QED
    BY <1>2, SubsetsByRemoval
<1> QED
  BY <1>3

\* A sum of sums.
LEMMA SumPlus ==
  ASSUME NEW S, IsFiniteSet(S), NEW f, NEW g, NEW h,
         \A x \in S : f[x] \in Int /\ g[x] \in Int /\ h[x] = f[x] + g[x]
  PROVE  SumFunctionOnSet(h, S) = SumFunctionOnSet(f, S) + SumFunctionOnSet(g, S)
<1> DEFINE Good == {T \in SUBSET S :
             SumFunctionOnSet(h, T) = SumFunctionOnSet(f, T) + SumFunctionOnSet(g, T)}
<1>1. ASSUME NEW T \in SUBSET S, \A x \in T : T \ {x} \in Good PROVE T \in Good
  <2>1. CASE T = {}
    BY <2>1, SumEmpty
  <2>2. CASE T # {}
    <3>1. PICK a \in T : TRUE
      BY <2>2
    <3> DEFINE R == T \ {a}
    <3>2. IsFiniteSet(T) /\ IsFiniteSet(R)
      BY FS_Subset
    <3>3. \A x \in T : f[x] \in Int /\ g[x] \in Int /\ h[x] \in Int
      OBVIOUS
    <3>4. SumFunctionOnSet(f, T) = f[a] + SumFunctionOnSet(f, R)
      BY <3>2, <3>3, SumRemove
    <3>5. SumFunctionOnSet(g, T) = g[a] + SumFunctionOnSet(g, R)
      BY <3>2, <3>3, SumRemove
    <3>6. SumFunctionOnSet(h, T) = h[a] + SumFunctionOnSet(h, R)
      BY <3>2, <3>3, SumRemove
    <3>7. SumFunctionOnSet(f, R) \in Int /\ SumFunctionOnSet(g, R) \in Int
      BY <3>2, <3>3, SumInt
    <3>8. SumFunctionOnSet(h, R) = SumFunctionOnSet(f, R) + SumFunctionOnSet(g, R)
      BY <1>1
    <3>9. SumFunctionOnSet(h, T) = SumFunctionOnSet(f, T) + SumFunctionOnSet(g, T)
      BY <3>3, <3>4, <3>5, <3>6, <3>7, <3>8
    <3> QED
      BY <3>9
  <2> QED
    BY <2>1, <2>2
<1>2. S \in Good
  <2> HIDE DEF Good
  <2> QED
    BY <1>1, SubsetsByRemoval
<1> QED
  BY <1>2

\* Renaming the members one to one changes nothing.
LEMMA SumRenamed ==
  ASSUME NEW S, IsFiniteSet(S), NEW r, NEW f, NEW g,
         \A x, y \in S : r[x] = r[y] => x = y,
         \A x \in S : f[x] \in Int /\ g[r[x]] = f[x]
  PROVE  /\ IsFiniteSet({r[x] : x \in S})
         /\ SumFunctionOnSet(g, {r[x] : x \in S}) = SumFunctionOnSet(f, S)
<1> DEFINE Im(T) == {r[x] : x \in T}
           Good == {T \in SUBSET S :
             IsFiniteSet(Im(T)) /\ SumFunctionOnSet(g, Im(T)) = SumFunctionOnSet(f, T)}
<1>1. ASSUME NEW T \in SUBSET S, \A x \in T : T \ {x} \in Good PROVE T \in Good
  <2>1. CASE T = {}
    <3>1. Im(T) = {}
      BY <2>1
    <3> QED
      BY <2>1, <3>1, SumEmpty, FS_EmptySet
  <2>2. CASE T # {}
    <3>1. PICK a \in T : TRUE
      BY <2>2
    <3> DEFINE R == T \ {a}
               A == Im(R)
               B == Im(T)
    <3>2. IsFiniteSet(T) /\ IsFiniteSet(R)
      BY FS_Subset
    <3>3. B = A \cup {r[a]} /\ r[a] \notin A
      OBVIOUS
    <3>4. IsFiniteSet(A) /\ SumFunctionOnSet(g, A) = SumFunctionOnSet(f, R)
      BY <1>1
    <3>5. \A y \in A : g[y] \in Int
      OBVIOUS
    <3>6. g[r[a]] = f[a] /\ f[a] \in Int
      OBVIOUS
    <3>7. SumFunctionOnSet(f, T) = f[a] + SumFunctionOnSet(f, R)
      BY <3>2, SumRemove
    <3>8. SumFunctionOnSet(f, R) \in Int
      BY <3>2, SumInt
    <3>9. IsFiniteSet(B) /\ SumFunctionOnSet(g, B) = SumFunctionOnSet(f, T)
      <4> HIDE DEF A, B, R
      <4>1. SumFunctionOnSet(g, B) = SumFunctionOnSet(g, A) + g[r[a]]
        BY <3>3, <3>4, <3>5, <3>6, SumAdd
      <4>2. IsFiniteSet(B)
        BY <3>3, <3>4, FS_AddElement
      <4> QED
        BY <3>4, <3>6, <3>7, <3>8, <4>1, <4>2
    <3> QED
      BY <3>9
  <2> QED
    BY <2>1, <2>2
<1>2. S \in Good
  <2> HIDE DEF Good
  <2> QED
    BY <1>1, SubsetsByRemoval
<1> QED
  BY <1>2

\* A change at one point changes the sum by as much.
LEMMA SumChanged ==
  ASSUME NEW S, IsFiniteSet(S), NEW f, NEW g, NEW a \in S,
         \A x \in S : f[x] \in Int /\ g[x] \in Int,
         \A x \in S \ {a} : f[x] = g[x]
  PROVE  SumFunctionOnSet(g, S) = SumFunctionOnSet(f, S) + (g[a] - f[a])
<1> DEFINE R == S \ {a}
<1>1. IsFiniteSet(R)
  BY FS_Subset
<1>2. SumFunctionOnSet(f, S) = f[a] + SumFunctionOnSet(f, R)
  BY SumRemove
<1>3. SumFunctionOnSet(g, S) = g[a] + SumFunctionOnSet(g, R)
  BY SumRemove
<1>4. SumFunctionOnSet(f, R) = SumFunctionOnSet(g, R) /\ SumFunctionOnSet(f, R) \in Int
  BY <1>1, SumSame, SumInt
<1>5. f[a] \in Int /\ g[a] \in Int
  OBVIOUS
<1> QED
  BY <1>2, <1>3, <1>4, <1>5

\* The sum over one index.
LEMMA SumAlone ==
  ASSUME NEW f, NEW a, f[a] \in Int
  PROVE  SumFunctionOnSet(f, {a}) = f[a]
<1>1. IsFiniteSet({a}) /\ {a} \ {a} = {}
  BY FS_Singleton
<1>2. SumFunctionOnSet(f, {a}) = f[a] + SumFunctionOnSet(f, {a} \ {a})
  BY <1>1, SumRemove
<1>3. SumFunctionOnSet(f, {a} \ {a}) = 0
  BY <1>1, SumEmpty, Zenon
<1> QED
  BY <1>2, <1>3

\* The same, for a set that is known to be the image.
LEMMA SumRelabelled ==
  ASSUME NEW S, IsFiniteSet(S), NEW r, NEW f, NEW g, NEW T,
         \A x, y \in S : r[x] = r[y] => x = y,
         \A x \in S : f[x] \in Int /\ g[r[x]] = f[x],
         \A x \in S : r[x] \in T,
         \A y \in T : \E x \in S : y = r[x]
  PROVE  IsFiniteSet(T) /\ SumFunctionOnSet(g, T) = SumFunctionOnSet(f, S)
<1>1. /\ IsFiniteSet({r[x] : x \in S})
      /\ SumFunctionOnSet(g, {r[x] : x \in S}) = SumFunctionOnSet(f, S)
  BY SumRenamed
<1>2. T = {r[x] : x \in S}
  OBVIOUS
<1> QED
  BY <1>1, <1>2, Zenon

\* h is f up to m, and g from there on.
Joins(h, f, m, g, n) ==
  /\ \A i \in 1 .. m : f[i] \in Int /\ h[i] = f[i]
  /\ \A i \in 1 .. n : g[i] \in Int /\ h[m + i] = g[i]

\* The sum of one sequence followed by another.
LEMMA SumJoined ==
  ASSUME NEW m \in Nat, NEW n \in Nat, NEW k, k = m + n, NEW f, NEW g, NEW h,
         Joins(h, f, m, g, n)
  PROVE  SumFunctionOnSet(h, 1 .. k)
           = SumFunctionOnSet(f, 1 .. m) + SumFunctionOnSet(g, 1 .. n)
<1> DEFINE r == [i \in 1 .. n |-> m + i]
           S == 1 .. m
           T == {r[i] : i \in 1 .. n}
<1>1. IsFiniteSet(1 .. m) /\ IsFiniteSet(1 .. n)
  BY FS_Interval
<1>2. /\ \A x, y \in 1 .. n : r[x] = r[y] => x = y
      /\ \A x \in 1 .. n : g[x] \in Int /\ h[r[x]] = g[x]
  BY DEF Joins
<1>3. S \cap T = {} /\ S \cup T = 1 .. k
  <2>1. \A x \in T : x \in (m + 1) .. (m + n)
    OBVIOUS
  <2>2. \A x \in (m + 1) .. (m + n) : x - m \in 1 .. n /\ r[x - m] = x
    OBVIOUS
  <2>3. T = (m + 1) .. (m + n)
    BY <2>1, <2>2
  <2> HIDE DEF T
  <2> QED
    BY <2>3
<1>4. \A x \in S \cup T : h[x] \in Int
  <2>1. \A x \in S : h[x] \in Int
    BY DEF Joins
  <2>2. \A x \in T : h[x] \in Int
    BY <1>2
  <2> QED
    BY <2>1, <2>2
<1> HIDE DEF r
<1>5. IsFiniteSet(T) /\ SumFunctionOnSet(h, T) = SumFunctionOnSet(g, 1 .. n)
  <2> DEFINE U == 1 .. n
  <2>1. IsFiniteSet(U)
    BY <1>1
  <2>2. \A x, y \in U : r[x] = r[y] => x = y
    BY <1>2
  <2>3. \A x \in U : g[x] \in Int /\ h[r[x]] = g[x]
    BY <1>2
  <2>4. \A x \in U : r[x] \in T
    OBVIOUS
  <2>5. \A y \in T : \E x \in U : y = r[x]
    OBVIOUS
  <2> HIDE DEF S, T, U
  <2>6. IsFiniteSet(T) /\ SumFunctionOnSet(h, T) = SumFunctionOnSet(g, U)
    BY <2>1, <2>2, <2>3, <2>4, <2>5, SumRelabelled
  <2> QED
    BY <2>6 DEF U
<1>6. SumFunctionOnSet(h, S) = SumFunctionOnSet(f, S)
  <2>1. \A x \in S : h[x] = f[x]
    BY DEF Joins
  <2> QED
    BY <1>1, <2>1, SumSame
<1> HIDE DEF S, T
<1>7. SumFunctionOnSet(h, S \cup T) = SumFunctionOnSet(h, S) + SumFunctionOnSet(h, T)
  <2>1. IsFiniteSet(S)
    BY <1>1 DEF S
  <2> QED
    BY <1>3, <1>4, <1>5, <2>1, SumDisjoint
<1>8. SumFunctionOnSet(h, S \cup T) = SumFunctionOnSet(h, 1 .. k)
  BY <1>3, Zenon
<1> QED
  BY <1>5, <1>6, <1>7, <1>8 DEF S
=============================================================================
