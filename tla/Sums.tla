---------------------------------- MODULE Sums ----------------------------------
(******************************************************************************)
(* Facts about SumFunctionOnSet of the module Functions, for every finite set *)
(* of indices: what the sum of no amounts is, and how a sum follows a change  *)
(* of one of its terms.                                                       *)
(******************************************************************************)
EXTENDS Integers, FiniteSets, Functions, FiniteSetTheorems, TLAPS

\* The element a sum takes next, and what it adds up.
Picked(s) == CHOOSE x \in s : TRUE

Adds(f, g, D) == g = [s \in D |-> IF s = {} THEN 0 ELSE f[Picked(s)] + g[s \ {Picked(s)}]]

Partial(f, S) == CHOOSE g : Adds(f, g, SUBSET S)

LEMMA SumUnfolds ==
    ASSUME NEW f, NEW S
    PROVE  SumFunctionOnSet(f, S) = Partial(f, S)[S]
  BY Zenon DEF SumFunctionOnSet, FoldFunctionOnSet, MapThenFoldSet, Partial, Adds, Picked

\* What holds of a set once it holds of all smaller ones holds of every subset.
LEMMA SubsetInduction ==
    ASSUME NEW S, IsFiniteSet(S), NEW Good \in SUBSET SUBSET S,
           \A s \in SUBSET S : (\A u \in SUBSET s : u # s => u \in Good) => s \in Good
    PROVE  Good = SUBSET S
  <1> DEFINE Bad == (SUBSET S) \ Good
  <1> SUFFICES ASSUME Bad # {} PROVE FALSE
    OBVIOUS
  <1>1. IsWellFoundedOn(StrictSubsetOrdering(S), SUBSET S)
    <2>1. FiniteSubsetsOf(S) = SUBSET S
      BY FS_FiniteSubsetsOfFinite
    <2>2. IsWellFoundedOn(StrictSubsetOrdering(S), FiniteSubsetsOf(S))
      BY FS_StrictSubsetOrderingWellFounded
    <2> QED
      BY <2>1, <2>2, Zenon
  <1>2. PICK s \in Bad : \A u \in Bad : ~ (<<u, s>> \in StrictSubsetOrdering(S))
    <2>1. PICK R, U, T : R = StrictSubsetOrdering(S) /\ U = SUBSET S /\ T = Bad
      OBVIOUS
    <2>2. IsWellFoundedOn(R, U)
      BY <1>1, <2>1
    <2>3. T \subseteq U /\ T # {}
      BY <2>1
    <2>4. \E x \in T : \A y \in T : ~ (<<y, x>> \in R)
      BY <2>2, <2>3, WFMin
    <2> QED
      BY <2>1, <2>4
  <1>3. \A u \in SUBSET s : u # s => u \in Good
    <2> SUFFICES ASSUME NEW u \in SUBSET s, u # s, u \in Bad PROVE FALSE
      OBVIOUS
    <2> QED
      BY <1>2 DEF StrictSubsetOrdering
  <1> QED
    BY <1>3

LEMMA PickedIn ==
    ASSUME NEW s, s # {}
    PROVE  Picked(s) \in s /\ s \ {Picked(s)} # s
  BY DEF Picked

\* The sums of the subsets exist: those of at most n terms need only those of
\* fewer.
LEMMA SumsExist ==
    ASSUME NEW S, IsFiniteSet(S), NEW f, \A t \in S : f[t] \in Int
    PROVE  /\ Partial(f, S) \in [SUBSET S -> Int]
           /\ Adds(f, Partial(f, S), SUBSET S)
  <1> DEFINE UpTo(n) == {s \in SUBSET S : Cardinality(s) <= n}
             Has(n) == \E g \in [UpTo(n) -> Int] : Adds(f, g, UpTo(n))
             Good == {s \in SUBSET S : Has(Cardinality(s))}
  <1>1. \A s \in SUBSET S : IsFiniteSet(s) /\ Cardinality(s) \in Nat /\ (Cardinality(s) = 0 <=> s = {})
    BY FS_Subset, FS_CardinalityType, FS_EmptySet
  <1>2. \A s \in SUBSET S : s # {} => Cardinality(s \ {Picked(s)}) = Cardinality(s) - 1
    BY <1>1, FS_RemoveElement, PickedIn
  <1>3. Has(0)
    <2> DEFINE g == [s \in UpTo(0) |-> 0]
    <2>1. UpTo(0) = {{}}
      BY <1>1
    <2>2. g \in [UpTo(0) -> Int] /\ Adds(f, g, UpTo(0))
      BY <2>1 DEF Adds
    <2> QED
      BY <2>2
  <1>4. ASSUME NEW n \in Nat, Has(n)
        PROVE  Has(n + 1)
    <2>1. PICK g \in [UpTo(n) -> Int] : Adds(f, g, UpTo(n))
      BY <1>4
    <2> DEFINE h == [s \in UpTo(n + 1) |-> IF s = {} THEN 0 ELSE f[Picked(s)] + g[s \ {Picked(s)}]]
    <2>2. \A s \in UpTo(n + 1) : s # {} => /\ s \ {Picked(s)} \in UpTo(n) /\ s \ {Picked(s)} \in UpTo(n + 1)
                                           /\ Picked(s) \in S
      BY <1>1, <1>2, PickedIn
    <2>3. h \in [UpTo(n + 1) -> Int]
      BY <2>2
    <2>4. \A s \in UpTo(n) : h[s] = g[s]
      <3>1. \A s \in UpTo(n) : g[s] = IF s = {} THEN 0 ELSE f[Picked(s)] + g[s \ {Picked(s)}]
        BY <2>1 DEF Adds
      <3>2. \A s \in UpTo(n) : s \in UpTo(n + 1)
        BY <1>1
      <3> QED
        BY <3>1, <3>2
    <2>5. \A s \in UpTo(n + 1) : s # {} => g[s \ {Picked(s)}] = h[s \ {Picked(s)}]
      BY <2>2, <2>4
    <2>6. h = [s \in UpTo(n + 1) |-> IF s = {} THEN 0 ELSE f[Picked(s)] + h[s \ {Picked(s)}]]
      BY <2>5
    <2> HIDE DEF h
    <2>7. Adds(f, h, UpTo(n + 1))
      BY <2>6 DEF Adds
    <2> QED
      BY <2>3, <2>7
  <1>5. Good = SUBSET S
    <2>1. ASSUME NEW s \in SUBSET S, \A u \in SUBSET s : u # s => u \in Good
          PROVE  Has(Cardinality(s))
      <3> HIDE DEF Has
      <3>1. CASE s = {}
        BY <1>1, <1>3, <3>1
      <3>2. CASE s # {}
        <4>1. s \ {Picked(s)} \in Good
          BY <2>1, <3>2, PickedIn
        <4>2. Has(Cardinality(s) - 1) /\ Cardinality(s) - 1 \in Nat
          BY <1>1, <1>2, <3>2, <4>1
        <4>3. Has((Cardinality(s) - 1) + 1)
          BY <1>4, <4>2
        <4>4. (Cardinality(s) - 1) + 1 = Cardinality(s)
          BY <1>1
        <4> QED
          BY <4>3, <4>4
      <3> QED
        BY <3>1, <3>2
    <2> HIDE DEF Has
    <2>2. \A s \in SUBSET S : (\A u \in SUBSET s : u # s => u \in Good) => s \in Good
      BY <2>1
    <2> HIDE DEF Good
    <2>3. Good \in SUBSET SUBSET S
      BY DEF Good
    <2> QED
      BY <2>2, <2>3, SubsetInduction
  <1>6. \E g \in [SUBSET S -> Int] : Adds(f, g, SUBSET S)
    <2>1. Has(Cardinality(S))
      BY <1>5
    <2>2. UpTo(Cardinality(S)) = SUBSET S
      BY FS_Subset
    <2> QED
      BY <2>1, <2>2
  <1>7. Adds(f, Partial(f, S), SUBSET S)
    BY <1>6 DEF Partial
  <1>8. Partial(f, S) \in [SUBSET S -> Int]
    <2> DEFINE g == Partial(f, S)
               Whole == {s \in SUBSET S : g[s] \in Int}
    <2>1. g = [s \in SUBSET S |-> IF s = {} THEN 0 ELSE f[Picked(s)] + g[s \ {Picked(s)}]]
      BY <1>7 DEF Adds
    <2> HIDE DEF g
    <2>2. \A s \in SUBSET S : (\A u \in SUBSET s : u # s => u \in Whole) => s \in Whole
      <3> SUFFICES ASSUME NEW s \in SUBSET S, \A u \in SUBSET s : u # s => u \in Whole
                   PROVE  g[s] \in Int
        OBVIOUS
      <3>1. CASE s = {}
        BY <2>1, <3>1
      <3>2. CASE s # {}
        <4>1. Picked(s) \in S /\ s \ {Picked(s)} \in SUBSET s /\ s \ {Picked(s)} # s
          BY <3>2, PickedIn
        <4>2. s \ {Picked(s)} \in Whole
          BY <4>1
        <4>3. f[Picked(s)] \in Int /\ g[s \ {Picked(s)}] \in Int
          BY <4>1, <4>2
        <4>4. g[s] = f[Picked(s)] + g[s \ {Picked(s)}]
          BY <2>1, <3>2
        <4> QED
          BY <4>3, <4>4
      <3> QED
        BY <3>1, <3>2
    <2>3. Whole = SUBSET S
      <3> HIDE DEF Whole
      <3>1. Whole \in SUBSET SUBSET S
        BY DEF Whole
      <3> QED
        BY <2>2, <3>1, SubsetInduction
    <2>4. \A s \in SUBSET S : g[s] \in Int
      BY <2>3
    <2>5. g \in [SUBSET S -> Int]
      BY <2>1, <2>4
    <2> QED
      BY <2>5 DEF g
  <1> QED
    BY <1>7, <1>8

LEMMA SumType ==
    ASSUME NEW S, IsFiniteSet(S), NEW f, \A t \in S : f[t] \in Int
    PROVE  SumFunctionOnSet(f, S) \in Int
  BY SumsExist, SumUnfolds

LEMMA SumOfNothing ==
    ASSUME NEW S, IsFiniteSet(S), NEW f, \A t \in S : f[t] = 0
    PROVE  SumFunctionOnSet(f, S) = 0
  <1>1. PICK g \in [SUBSET S -> Int] : g = Partial(f, S) /\ Adds(f, g, SUBSET S)
    <2>1. \A t \in S : f[t] \in Int
      OBVIOUS
    <2> QED
      BY <2>1, SumsExist
  <1> DEFINE Zero == {s \in SUBSET S : g[s] = 0}
  <1>2. ASSUME NEW s \in SUBSET S, \A u \in SUBSET s : u # s => u \in Zero
        PROVE  g[s] = 0
    <2>1. g[s] = IF s = {} THEN 0 ELSE f[Picked(s)] + g[s \ {Picked(s)}]
      BY <1>1 DEF Adds
    <2>2. s # {} => f[Picked(s)] = 0 /\ g[s \ {Picked(s)}] = 0
      BY <1>2, PickedIn
    <2> QED
      BY <2>1, <2>2
  <1>3. \A s \in SUBSET S : (\A u \in SUBSET s : u # s => u \in Zero) => s \in Zero
    BY <1>2
  <1>4. Zero = SUBSET S
    <2>1. Zero \in SUBSET SUBSET S
      OBVIOUS
    <2> HIDE DEF Zero
    <2> QED
      BY <1>3, <2>1, SubsetInduction
  <1>5. g[S] = 0
    BY <1>4
  <1> QED
    BY <1>1, <1>5, SumUnfolds

\* A sum follows the change of one of its terms.
LEMMA SumFollows ==
    ASSUME NEW S, IsFiniteSet(S), NEW f, \A u \in S : f[u] \in Int,
           NEW t, NEW d \in Int, NEW h,
           \A u \in S : h[u] = IF u = t THEN f[u] + d ELSE f[u]
    PROVE  SumFunctionOnSet(h, S) = IF t \in S THEN SumFunctionOnSet(f, S) + d
                                               ELSE SumFunctionOnSet(f, S)
  <1>1. PICK g \in [SUBSET S -> Int] : g = Partial(f, S) /\ Adds(f, g, SUBSET S)
    BY SumsExist
  <1>2. \A u \in S : h[u] \in Int
    OBVIOUS
  <1>3. PICK k \in [SUBSET S -> Int] : k = Partial(h, S) /\ Adds(h, k, SUBSET S)
    BY <1>2, SumsExist
  <1> DEFINE Follows == {s \in SUBSET S : k[s] = IF t \in s THEN g[s] + d ELSE g[s]}
  <1>4. ASSUME NEW s \in SUBSET S, \A u \in SUBSET s : u # s => u \in Follows
        PROVE  k[s] = IF t \in s THEN g[s] + d ELSE g[s]
    <2>1. /\ k[s] = IF s = {} THEN 0 ELSE h[Picked(s)] + k[s \ {Picked(s)}]
          /\ g[s] = IF s = {} THEN 0 ELSE f[Picked(s)] + g[s \ {Picked(s)}]
      BY <1>1, <1>3 DEF Adds
    <2>2. CASE s = {}
      BY <2>1, <2>2
    <2>3. CASE s # {}
      <3>1. PICK x, r : x = Picked(s) /\ r = s \ {x}
        OBVIOUS
      <3>2. x \in s /\ r \in SUBSET s /\ r # s /\ r \in SUBSET S
        BY <2>3, <3>1, PickedIn
      <3>3. k[r] = IF t \in r THEN g[r] + d ELSE g[r]
        BY <1>4, <3>2
      <3>4. k[s] = h[x] + k[r] /\ g[s] = f[x] + g[r]
        BY <2>1, <2>3, <3>1
      <3>5. g[r] \in Int /\ f[x] \in Int /\ h[x] = (IF x = t THEN f[x] + d ELSE f[x])
        BY <3>2
      <3>6. t \in s <=> (x = t \/ t \in r)
        BY <3>1, <3>2
      <3>7. t \in r => x # t
        BY <3>1
      <3> QED
        BY <3>3, <3>4, <3>5, <3>6, <3>7
    <2> QED
      BY <2>2, <2>3
  <1>5. \A s \in SUBSET S : (\A u \in SUBSET s : u # s => u \in Follows) => s \in Follows
    BY <1>4
  <1>6. Follows = SUBSET S
    <2>1. Follows \in SUBSET SUBSET S
      OBVIOUS
    <2> HIDE DEF Follows
    <2> QED
      BY <1>5, <2>1, SubsetInduction
  <1>7. k[S] = IF t \in S THEN g[S] + d ELSE g[S]
    BY <1>6
  <1> QED
    BY <1>1, <1>3, <1>7, SumUnfolds

================================================================================
