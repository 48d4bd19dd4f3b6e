---------------------------- MODULE SumTheorems ----------------------------
(***************************************************************************)
(* Facts about SumFunction of the community module Functions, which sums   *)
(* the values of a function in an order that CHOOSE picks: the sum is a    *)
(* number, a change of one value changes it by as much, and a sum of       *)
(* naturals is at least each of its terms.                                 *)
(*                                                                         *)
(* They are proved by induction over sets of numbers (NatSet).             *)
(***************************************************************************)
EXTENDS Integers, Functions, FiniteSetsExt, FiniteSetTheorems, WellFoundedInduction, TLAPS

\* A set of naturals with 0 and the successor of each of its elements is Nat: induction,
\* for a set in place of a predicate.
LEMMA NatSet ==
  ASSUME NEW G \in SUBSET Nat, 0 \in G, \A n \in Nat : n \in G => n + 1 \in G
  PROVE  G = Nat
<1> DEFINE R == OpToRel(<, Nat)
<1> DEFINE T == Nat \ G
<1> SUFFICES ASSUME T # {} PROVE FALSE
  OBVIOUS
<1>1. IsWellFoundedOn(R, Nat)
  BY NatLessThanWellFounded
<1>2. \A m, n \in Nat : m < n => <<m, n>> \in R
  BY DEF OpToRel
<1> HIDE DEF R
<1>3. PICK x \in T : \A y \in T : ~(<<y, x>> \in R)
  BY <1>1, WFMin
<1>4. x # 0 /\ x \in Nat
  OBVIOUS
<1>5. x - 1 \in Nat /\ x - 1 < x
  BY <1>4
<1>6. x - 1 \in G
  BY <1>2, <1>3, <1>4, <1>5
<1> QED
  BY <1>4, <1>5, <1>6

\* The element that is added first, and the sum of s when g has the sums of smaller sets.
pick(s) == CHOOSE x \in s : TRUE
Adds(f, g, s) == IF s = {} THEN 0 ELSE f[pick(s)] + g[s \ {pick(s)}]

\* g has the sums of the subsets of S.
Sums(f, g, S) == g = [s \in SUBSET S |-> Adds(f, g, s)]

\* The fold of the library, as a function of sets.
LEMMA SumIs ==
  ASSUME NEW f, NEW S
  PROVE  SumFunctionOnSet(f, S) = (CHOOSE g : Sums(f, g, S))[S]
BY DEF SumFunctionOnSet, FoldFunctionOnSet, MapThenFoldSet, Sums, Adds, pick

\* The subsets with at most n elements.
UpTo(S, n) == {s \in SUBSET S : Cardinality(s) <= n}

\* Taking out the first element leads to a smaller set.
LEMMA PickSmaller ==
  ASSUME NEW S, IsFiniteSet(S), NEW n \in Nat, NEW s \in UpTo(S, n + 1), s # {}
  PROVE  pick(s) \in s /\ s \ {pick(s)} \in UpTo(S, n)
<1>1. pick(s) \in s
  BY DEF pick
<1>2. IsFiniteSet(s) /\ s \in SUBSET S /\ Cardinality(s) <= n + 1
  BY FS_Subset DEF UpTo
<1> HIDE DEF pick
<1>3. /\ Cardinality(s \ {pick(s)}) = Cardinality(s) - 1
      /\ Cardinality(s) \in Nat
  BY <1>1, <1>2, FS_RemoveElement, FS_CardinalityType
<1>4. Cardinality(s \ {pick(s)}) <= n
  BY <1>2, <1>3
<1> QED
  BY <1>1, <1>2, <1>4 DEF UpTo

\* The subsets of at most as many elements as S has are all its subsets.
LEMMA UpToAll ==
  ASSUME NEW S, IsFiniteSet(S)
  PROVE  Cardinality(S) \in Nat /\ UpTo(S, Cardinality(S)) = SUBSET S
<1>1. Cardinality(S) \in Nat
  BY FS_CardinalityType
<1>2. \A s \in SUBSET S : Cardinality(s) <= Cardinality(S)
  BY FS_Subset
<1> QED
  BY <1>1, <1>2 DEF UpTo

\* The empty set is the only one without elements.
LEMMA UpToZero ==
  ASSUME NEW S, IsFiniteSet(S), NEW s \in UpTo(S, 0)
  PROVE  s = {}
<1>1. IsFiniteSet(s) /\ Cardinality(s) <= 0
  BY FS_Subset DEF UpTo
<1>2. Cardinality(s) = 0
  BY <1>1, FS_CardinalityType
<1> QED
  BY <1>1, <1>2, FS_EmptySet

\* The sums exist: they are built for larger and larger subsets.
LEMMA SumsExist ==
  ASSUME NEW S, IsFiniteSet(S), NEW f \in [S -> Int]
  PROVE  \E g : Sums(f, g, S)
<1> DEFINE Good(g, n) == \A s \in UpTo(S, n) : g[s] = Adds(f, g, s)
<1> DEFINE G == {n \in Nat : \E g \in [SUBSET S -> Int] : Good(g, n)}
<1>1. 0 \in G
  <2> DEFINE g == [s \in SUBSET S |-> 0]
  <2>1. g \in [SUBSET S -> Int]
    OBVIOUS
  <2>2. \A s \in UpTo(S, 0) : s = {} /\ s \in SUBSET S
    BY UpToZero DEF UpTo
  <2>3. Good(g, 0)
    BY <2>2 DEF Adds
  <2> QED
    BY <2>1, <2>3
<1>2. ASSUME NEW n \in Nat, n \in G PROVE n + 1 \in G
  <2>1. PICK g \in [SUBSET S -> Int] : Good(g, n)
    BY <1>2
  <2> DEFINE h == [s \in SUBSET S |-> Adds(f, g, s)]
  <2>2. ASSUME NEW s \in SUBSET S PROVE Adds(f, g, s) \in Int
    <3>1. CASE s = {}
      BY <3>1 DEF Adds
    <3>2. CASE s # {}
      <4>1. pick(s) \in s
        BY <3>2 DEF pick
      <4>2. f[pick(s)] \in Int /\ g[s \ {pick(s)}] \in Int
        BY <4>1
      <4> QED
        BY <3>2, <4>2 DEF Adds
    <3> QED
      BY <3>1, <3>2
  <2>3. h \in [SUBSET S -> Int]
    BY <2>2
  <2>4. ASSUME NEW s \in UpTo(S, n) PROVE h[s] = g[s]
    BY <2>1 DEF UpTo
  <2>5. ASSUME NEW s \in UpTo(S, n + 1) PROVE h[s] = Adds(f, h, s)
    <3>1. s \in SUBSET S
      BY DEF UpTo
    <3>2. h[s] = Adds(f, g, s)
      BY <3>1
    <3> HIDE DEF h
    <3>3. CASE s = {}
      BY <3>2, <3>3 DEF Adds
    <3>4. CASE s # {}
      <4>1. h[s \ {pick(s)}] = g[s \ {pick(s)}]
        BY <2>4, <3>4, PickSmaller
      <4> QED
        BY <3>2, <3>4, <4>1 DEF Adds
    <3> QED
      BY <3>3, <3>4
  <2> HIDE DEF h
  <2> QED
    BY <2>3, <2>5
<1>3. G = Nat
  <2> HIDE DEF G
  <2>1. G \in SUBSET Nat
    BY DEF G
  <2> QED
    BY <2>1, <1>1, <1>2, NatSet
<1>4. PICK g \in [SUBSET S -> Int] : Good(g, Cardinality(S))
  BY <1>3, UpToAll
<1>5. \A s \in SUBSET S : g[s] = Adds(f, g, s)
  BY <1>4, UpToAll
<1>6. Sums(f, g, S)
  BY <1>5 DEF Sums
<1> QED
  BY <1>6

\* What the sums are.
LEMMA SumsChosen ==
  ASSUME NEW S, IsFiniteSet(S), NEW f \in [S -> Int]
  PROVE  \E g : /\ SumFunctionOnSet(f, S) = g[S]
                /\ Sums(f, g, S)
<1> DEFINE g == CHOOSE h : Sums(f, h, S)
<1>1. Sums(f, g, S)
  BY SumsExist
<1>2. SumFunctionOnSet(f, S) = g[S]
  BY SumIs
<1> HIDE DEF g
<1> QED
  BY <1>1, <1>2

\* A fact about the sums of a function that holds for the empty set and is handed on when
\* an element is added holds for the sum of all; the facts below are proved along
\*     g[s] = f[pick(s)] + g[s \ {pick(s)}].
LEMMA SumsEmpty ==
  ASSUME NEW S, NEW f, NEW g, Sums(f, g, S)
  PROVE  g[{}] = 0
<1>1. g[{}] = Adds(f, g, {})
  BY DEF Sums
<1> QED
  BY <1>1 DEF Adds

\* x is added to the sum of the rest of s, which is smaller.
First(S, f, g, n, s, x) ==
  /\ x \in s /\ x \in S /\ s \ {x} \in UpTo(S, n)
  /\ g[s] = f[x] + g[s \ {x}]

\* A sum is that of the chosen element and of the rest.
LEMMA SumsStep ==
  ASSUME NEW S, IsFiniteSet(S), NEW f, NEW g, Sums(f, g, S),
         NEW n \in Nat, NEW s \in UpTo(S, n + 1), s # {}
  PROVE  First(S, f, g, n, s, pick(s))
<1>1. s \in SUBSET S
  BY DEF UpTo
<1>2. g[s] = Adds(f, g, s)
  BY <1>1 DEF Sums
<1>3. pick(s) \in s /\ s \ {pick(s)} \in UpTo(S, n)
  BY PickSmaller
<1>4. g[s] = f[pick(s)] + g[s \ {pick(s)}]
  BY <1>2 DEF Adds
<1> QED
  BY <1>1, <1>3, <1>4 DEF First

\* The sum of nothing is 0.
LEMMA SumsZero ==
  ASSUME NEW S, IsFiniteSet(S), NEW f, NEW g, Sums(f, g, S),
         NEW s \in UpTo(S, 0)
  PROVE  s = {} /\ g[s] = 0
<1>1. s = {} /\ s \in SUBSET S
  BY UpToZero DEF UpTo
<1>2. g[s] = Adds(f, g, s)
  BY <1>1 DEF Sums
<1> QED
  BY <1>1, <1>2 DEF Adds

\* The sum of integers is an integer.
THEOREM SumType ==
  ASSUME NEW S, IsFiniteSet(S), NEW f \in [S -> Int]
  PROVE  SumFunction(f) \in Int
<1>1. PICK g : /\ SumFunctionOnSet(f, S) = g[S]
               /\ Sums(f, g, S)
  BY SumsChosen
<1> DEFINE G == {n \in Nat : \A s \in UpTo(S, n) : g[s] \in Int}
<1>2. 0 \in G
  BY <1>1, SumsZero
<1>3. ASSUME NEW n \in Nat, n \in G PROVE n + 1 \in G
  <2>1. ASSUME NEW s \in UpTo(S, n + 1) PROVE g[s] \in Int
    <3>0. Sums(f, g, S)
      BY <1>1
    <3>1. CASE s = {}
      <4>1. g[{}] = 0
        BY <3>0, SumsEmpty
      <4> QED
        BY <3>1, <4>1
    <3>2. CASE s # {}
      <4> DEFINE x == pick(s)
      <4>0. First(S, f, g, n, s, x)
        BY <3>0, <3>2, SumsStep, Zenon
      <4> HIDE DEF x
      <4>1. /\ x \in s /\ x \in S /\ s \ {x} \in UpTo(S, n)
            /\ g[s] = f[x] + g[s \ {x}]
        BY <4>0 DEF First
      <4>2. f[x] \in Int /\ g[s \ {x}] \in Int
        BY <1>3, <4>1
      <4> QED
        BY <4>1, <4>2
    <3> QED
      BY <3>1, <3>2
  <2> QED
    BY <2>1
<1>4. G = Nat
  <2> HIDE DEF G
  <2>1. G \in SUBSET Nat
    BY DEF G
  <2> QED
    BY <2>1, <1>2, <1>3, NatSet
<1>5. g[S] \in Int
  BY <1>4, UpToAll
<1> QED
  BY <1>1, <1>5 DEF SumFunction

\* Changing one value changes the sum by as much.
THEOREM SumUpdate ==
  ASSUME NEW S, IsFiniteSet(S), NEW f \in [S -> Int], NEW h \in [S -> Int], NEW a \in S,
         \A x \in S \ {a} : h[x] = f[x]
  PROVE  SumFunction(h) = SumFunction(f) + (h[a] - f[a])
<1>1. PICK g : /\ SumFunctionOnSet(f, S) = g[S]
               /\ Sums(f, g, S)
  BY SumsChosen
<1>2. PICK k : /\ SumFunctionOnSet(h, S) = k[S]
               /\ Sums(h, k, S)
  BY SumsChosen
<1> DEFINE d == h[a] - f[a]
<1> DEFINE G == {n \in Nat : \A s \in UpTo(S, n) :
                   /\ g[s] \in Int
                   /\ a \in s => k[s] = g[s] + d
                   /\ a \notin s => k[s] = g[s]}
<1>3. 0 \in G
  BY <1>1, <1>2, SumsZero
<1>4. ASSUME NEW n \in Nat, n \in G PROVE n + 1 \in G
  <2>1. ASSUME NEW s \in UpTo(S, n + 1)
        PROVE  g[s] \in Int /\ (a \in s => k[s] = g[s] + d) /\ (a \notin s => k[s] = g[s])
    <3>0. Sums(f, g, S) /\ Sums(h, k, S)
      BY <1>1, <1>2
    <3>1. CASE s = {}
      <4>1. g[{}] = 0
        BY <3>0, SumsEmpty
      <4>2. k[{}] = 0
        BY <3>0, SumsEmpty
      <4> QED
        BY <3>1, <4>1, <4>2
    <3>2. CASE s # {}
      <4> DEFINE x == pick(s)
      <4>0. First(S, f, g, n, s, x)
        BY <3>0, <3>2, SumsStep, Zenon
      <4> HIDE DEF x
      <4>1. /\ x \in s /\ x \in S /\ s \ {x} \in UpTo(S, n)
            /\ g[s] = f[x] + g[s \ {x}]
        BY <4>0 DEF First
      <4> DEFINE t == s \ {x}
      <4>7. First(S, h, k, n, s, x)
        BY <3>0, <3>2, SumsStep, Zenon DEF x
      <4>2. k[s] = h[x] + k[t]
        BY <4>7 DEF First
      <4>3. /\ g[t] \in Int
            /\ a \in t => k[t] = g[t] + d
            /\ a \notin t => k[t] = g[t]
        BY <1>4, <4>1
      <4>4. f[x] \in Int /\ h[x] \in Int /\ d \in Int
        BY <4>1
      <4>5. CASE x = a
        BY <4>1, <4>2, <4>3, <4>4, <4>5
      <4>6. CASE x # a
        <5>1. h[x] = f[x] /\ (a \in s <=> a \in t)
          BY <4>1, <4>6
        <5> HIDE DEF d, t
        <5>2. g[s] = f[x] + g[t]
          BY <4>1 DEF t
        <5>3. CASE a \in s
          BY <4>2, <4>3, <4>4, <5>1, <5>2, <5>3
        <5>4. CASE a \notin s
          BY <4>2, <4>3, <4>4, <5>1, <5>2, <5>4
        <5> QED
          BY <5>3, <5>4
      <4> QED
        BY <4>5, <4>6
    <3> QED
      BY <3>1, <3>2
  <2> QED
    BY <2>1
<1>5. G = Nat
  <2> HIDE DEF G
  <2>1. G \in SUBSET Nat
    BY DEF G
  <2> QED
    BY <2>1, <1>3, <1>4, NatSet
<1>6. k[S] = g[S] + d
  BY <1>5, UpToAll
<1> QED
  BY <1>1, <1>2, <1>6 DEF SumFunction

\* A sum of naturals is a natural, and at least each of its terms.
THEOREM SumNat ==
  ASSUME NEW S, IsFiniteSet(S), NEW f \in [S -> Nat]
  PROVE  SumFunction(f) \in Nat /\ \A a \in S : f[a] <= SumFunction(f)
<1>0. f \in [S -> Int]
  OBVIOUS
<1>1. PICK g : /\ SumFunctionOnSet(f, S) = g[S]
               /\ Sums(f, g, S)
  BY <1>0, SumsChosen
<1> DEFINE G == {n \in Nat : \A s \in UpTo(S, n) : g[s] \in Nat /\ \A a \in s : f[a] <= g[s]}
<1>2. 0 \in G
  BY <1>1, SumsZero
<1>3. ASSUME NEW n \in Nat, n \in G PROVE n + 1 \in G
  <2>1. ASSUME NEW s \in UpTo(S, n + 1) PROVE g[s] \in Nat /\ \A a \in s : f[a] <= g[s]
    <3>0. Sums(f, g, S)
      BY <1>1
    <3>1. CASE s = {}
      <4>1. g[{}] = 0
        BY <3>0, SumsEmpty
      <4> QED
        BY <3>1, <4>1
    <3>2. CASE s # {}
      <4> DEFINE x == pick(s)
      <4>0. First(S, f, g, n, s, x)
        BY <3>0, <3>2, SumsStep, Zenon
      <4> HIDE DEF x
      <4>1. /\ x \in s /\ x \in S /\ s \ {x} \in UpTo(S, n)
            /\ g[s] = f[x] + g[s \ {x}]
        BY <4>0 DEF First
      <4>2. f[x] \in Nat /\ g[s \ {x}] \in Nat /\ \A a \in s \ {x} : f[a] <= g[s \ {x}]
        BY <1>3, <4>1
      <4>3. g[s] \in Nat /\ f[x] <= g[s] /\ g[s \ {x}] <= g[s]
        BY <4>1, <4>2
      <4>4. \A a \in s : f[a] \in Nat
        BY DEF UpTo
      <4> QED
        BY <4>2, <4>3, <4>4
    <3> QED
      BY <3>1, <3>2
  <2> QED
    BY <2>1
<1>4. G = Nat
  <2> HIDE DEF G
  <2>1. G \in SUBSET Nat
    BY DEF G
  <2> QED
    BY <2>1, <1>2, <1>3, NatSet
<1>5. g[S] \in Nat /\ \A a \in S : f[a] <= g[S]
  BY <1>4, UpToAll
<1> QED
  BY <1>1, <1>5 DEF SumFunction

\* The sum of nothing but zeros.
THEOREM SumZero ==
  ASSUME NEW S, IsFiniteSet(S), NEW f \in [S -> Int], \A x \in S : f[x] = 0
  PROVE  SumFunction(f) = 0
<1>1. PICK g : /\ SumFunctionOnSet(f, S) = g[S]
               /\ Sums(f, g, S)
  BY SumsChosen
<1> DEFINE G == {n \in Nat : \A s \in UpTo(S, n) : g[s] = 0}
<1>2. 0 \in G
  BY <1>1, SumsZero
<1>3. ASSUME NEW n \in Nat, n \in G PROVE n + 1 \in G
  <2>1. ASSUME NEW s \in UpTo(S, n + 1) PROVE g[s] = 0
    <3>0. Sums(f, g, S)
      BY <1>1
    <3>1. CASE s = {}
      <4>1. g[{}] = 0
        BY <3>0, SumsEmpty
      <4> QED
        BY <3>1, <4>1
    <3>2. CASE s # {}
      <4> DEFINE x == pick(s)
      <4>0. First(S, f, g, n, s, x)
        BY <3>0, <3>2, SumsStep, Zenon
      <4> HIDE DEF x
      <4>1. /\ x \in s /\ x \in S /\ s \ {x} \in UpTo(S, n)
            /\ g[s] = f[x] + g[s \ {x}]
        BY <4>0 DEF First
      <4>2. f[x] = 0 /\ g[s \ {x}] = 0
        BY <1>3, <4>1
      <4> QED
        BY <4>1, <4>2
    <3> QED
      BY <3>1, <3>2
  <2> QED
    BY <2>1
<1>4. G = Nat
  <2> HIDE DEF G
  <2>1. G \in SUBSET Nat
    BY DEF G
  <2> QED
    BY <2>1, <1>2, <1>3, NatSet
<1> QED
  BY <1>1, <1>4, UpToAll DEF SumFunction

\* A sum of n values that are at most m is at most n times m.
LEMMA SumAtMost ==
  ASSUME NEW S, IsFiniteSet(S), NEW m \in Nat, NEW f \in [S -> Int], \A x \in S : f[x] <= m
  PROVE  SumFunction(f) <= Cardinality(S) * m
<1>1. PICK g : /\ SumFunctionOnSet(f, S) = g[S]
               /\ Sums(f, g, S)
  BY SumsChosen
<1> DEFINE G == {n \in Nat : \A s \in UpTo(S, n) : g[s] \in Int /\ g[s] <= n * m}
<1>2. 0 \in G
  BY <1>1, SumsZero
<1>3. ASSUME NEW n \in Nat, n \in G PROVE n + 1 \in G
  <2> DEFINE b == n * m
  <2>0. b \in Nat /\ (n + 1) * m = b + m
    OBVIOUS
  <2>1. ASSUME NEW s \in UpTo(S, n + 1) PROVE g[s] \in Int /\ g[s] <= b + m
    <3>0. Sums(f, g, S)
      BY <1>1
    <3>1. CASE s = {}
      <4>1. g[{}] = 0
        BY <3>0, SumsEmpty
      <4> HIDE DEF b
      <4> QED
        BY <2>0, <3>1, <4>1
    <3>2. CASE s # {}
      <4> DEFINE x == pick(s)
      <4>0. First(S, f, g, n, s, x)
        BY <3>0, <3>2, SumsStep, Zenon
      <4> HIDE DEF x
      <4>1. /\ x \in s /\ x \in S /\ s \ {x} \in UpTo(S, n)
            /\ g[s] = f[x] + g[s \ {x}]
        BY <4>0 DEF First
      <4>2. g[s \ {x}] \in Int /\ g[s \ {x}] <= b
        BY <1>3, <4>1
      <4>3. f[x] \in Int /\ f[x] <= m
        BY <4>1
      <4> HIDE DEF b
      <4> QED
        BY <2>0, <4>1, <4>2, <4>3
    <3> QED
      BY <3>1, <3>2
  <2> QED
    BY <2>0, <2>1
<1>4. G = Nat
  <2> HIDE DEF G
  <2>1. G \in SUBSET Nat
    BY DEF G
  <2> QED
    BY <2>1, <1>2, <1>3, NatSet
<1>5. g[S] <= Cardinality(S) * m
  BY <1>4, UpToAll
<1> QED
  BY <1>1, <1>5 DEF SumFunction

\* When one of the n values is 0, n - 1 times m is enough.
THEOREM SumOfOthers ==
  ASSUME NEW S, IsFiniteSet(S), NEW m \in Nat, NEW f \in [S -> Int], \A x \in S : f[x] <= m,
         NEW a \in S, f[a] = 0
  PROVE  SumFunction(f) <= (Cardinality(S) - 1) * m
<1> DEFINE h == [f EXCEPT ![a] = m]
<1>1. h \in [S -> Int] /\ (\A x \in S : h[x] <= m) /\ h[a] = m /\ \A x \in S \ {a} : h[x] = f[x]
  OBVIOUS
<1> HIDE DEF h
<1>2. SumFunction(h) = SumFunction(f) + (m - 0) /\ SumFunction(f) \in Int
  BY <1>1, SumUpdate, SumType
<1> DEFINE c == Cardinality(S)
<1>3. SumFunction(h) <= c * m
  BY <1>1, SumAtMost
<1>4. c \in Nat
  BY FS_CardinalityType
<1> HIDE DEF c
<1> DEFINE b == (c - 1) * m
<1>5. c * m = b + m /\ b \in Int
  BY <1>4
<1> HIDE DEF b
<1>6. SumFunction(f) <= b
  BY <1>2, <1>3, <1>5
<1> QED
  BY <1>6 DEF b, c

-----------------------------------------------------------------------------
(* The smallest and the largest number of a set.                           *)

\* A set of naturals has a smallest element.
LEMMA MinIs ==
  ASSUME NEW S \in SUBSET Nat, S # {}
  PROVE  Min(S) \in S /\ \A y \in S : Min(S) <= y
<1> DEFINE R == OpToRel(<, Nat)
<1>1. IsWellFoundedOn(R, Nat)
  BY NatLessThanWellFounded
<1>2. \A m, n \in Nat : m < n => <<m, n>> \in R
  BY DEF OpToRel
<1> HIDE DEF R
<1>3. PICK x \in S : \A y \in S : ~(<<y, x>> \in R)
  BY <1>1, WFMin
<1>4. \A y \in S : ~(y < x)
  BY <1>2, <1>3, Zenon
<1>5. \A y \in S : x <= y
  BY <1>4
<1> QED
  BY <1>5 DEF Min

\* A bounded set of numbers has a largest element: the bound less the smallest distance to it.
LEMMA MaxIs ==
  ASSUME NEW S \in SUBSET Nat, NEW e \in Nat, \A x \in S : x <= e, S # {}
  PROVE  Max(S) \in S /\ \A y \in S : Max(S) >= y
<1> DEFINE T == {n \in Nat : e - n \in S}
<1>1. T # {}
  <2> PICK x \in S : TRUE
    OBVIOUS
  <2>1. e - x \in Nat /\ e - (e - x) = x
    OBVIOUS
  <2> QED
    BY <2>1
<1>2. Min(T) \in T /\ \A y \in T : Min(T) <= y
  BY <1>1, MinIs
<1> DEFINE m == e - Min(T)
<1>3. m \in S
  BY <1>2
<1>4. \A y \in S : m >= y
  <2> TAKE y \in S
  <2>1. e - y \in Nat /\ e - (e - y) = y
    OBVIOUS
  <2>2. e - y \in T
    BY <2>1
  <2>3. Min(T) <= e - y /\ Min(T) \in Nat
    BY <1>2, <2>2
  <2> QED
    BY <2>3
<1> HIDE DEF m
<1> QED
  BY <1>3, <1>4 DEF Max

\* A finite set of naturals is bounded, by the sum of its elements.
THEOREM MaxOfFinite ==
  ASSUME NEW S \in SUBSET Nat, IsFiniteSet(S), S # {}
  PROVE  Max(S) \in S /\ \A y \in S : y <= Max(S)
<1> DEFINE f == [x \in S |-> x]
<1>1. f \in [S -> Nat] /\ \A x \in S : f[x] = x
  OBVIOUS
<1> HIDE DEF f
<1>2. PICK e \in Nat : \A x \in S : x <= e
  BY <1>1, SumNat
<1>3. Max(S) \in S /\ \A y \in S : Max(S) >= y
  BY <1>2, MaxIs
<1> QED
  BY <1>3
=============================================================================
