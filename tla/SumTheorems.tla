---------------------------- MODULE SumTheorems -----------------------------
(***************************************************************************)
(* Facts about SumFunctionOnSet of the Functions module, for finite sets   *)
(* of any size.  They are proved by induction on the set: a counterexample *)
(* that is minimal for inclusion is empty or has an element to take out.   *)
(***************************************************************************)
EXTENDS Integers, FiniteSets, Functions, FiniteSetTheorems,
        WellFoundedInduction, TLAPS

\* The element that a fold over s takes first.
Pick(s) == CHOOSE x \in s : TRUE

\* Induction on finite sets: among some subsets of a finite set one is minimal.
LEMMA MinimalSet ==
  ASSUME NEW S, IsFiniteSet(S), NEW T, T \subseteq SUBSET S, T # {}
  PROVE  \E s \in T : \A u \in T : u \subseteq s => u = s
<1>1. IsWellFoundedOn(StrictSubsetOrdering(S), SUBSET S)
  BY Zenon, FS_StrictSubsetOrderingWellFounded, FS_FiniteSubsetsOfFinite
<1>2. PICK s \in T : \A u \in T : ~ (<<u, s>> \in StrictSubsetOrdering(S))
  BY Zenon, <1>1, WFMin
<1>3. ASSUME NEW u \in T, u \subseteq s, u # s
      PROVE  <<u, s>> \in StrictSubsetOrdering(S)
  BY Zenon, <1>3 DEF StrictSubsetOrdering
<1>4. \A u \in T : u \subseteq s => u = s
  BY Zenon, <1>2, <1>3
<1> QED BY Zenon, <1>4

\* g is the fold with step from base, for all subsets of S.
Folds1(g, S, base, step) ==
  \A s \in SUBSET S :
    g[s] = IF s = {} THEN base ELSE step[<<Pick(s), g[s \ {Pick(s)}]>>]

\* A set that is not empty has an element to pick.
LEMMA PickIn == ASSUME NEW s, s # {} PROVE Pick(s) \in s
BY Zenon DEF Pick

\* Two folds agree where both are defined.
LEMMA FoldUnique ==
  ASSUME NEW S, IsFiniteSet(S), NEW base, NEW step,
         NEW T \in SUBSET S, NEW U \in SUBSET S, NEW g, NEW h,
         Folds1(g, T, base, step), Folds1(h, U, base, step)
  PROVE  \A s \in SUBSET (T \cap U) : g[s] = h[s]
<1> DEFINE Bad == {s \in SUBSET (T \cap U) : g[s] # h[s]}
<1> SUFFICES ASSUME Bad # {} PROVE FALSE
  BY Zenon
<1>0. Bad \subseteq SUBSET S
  BY Zenon
<1>1. PICK s \in Bad : \A u \in Bad : u \subseteq s => u = s
  <2> HIDE DEF Bad
  <2> QED BY <1>0, MinimalSet
<1>2. s # {}
  BY Zenon DEF Folds1
<1>3. Pick(s) \in s
  BY Zenon, <1>2, PickIn
<1>4. /\ s \ {Pick(s)} \subseteq s
      /\ s \ {Pick(s)} # s
  BY Zenon, <1>3
<1>5. g[s \ {Pick(s)}] = h[s \ {Pick(s)}]
  BY Zenon, <1>1, <1>4
<1>6. /\ s \in SUBSET T /\ s \in SUBSET U
  BY Zenon
<1>7. g[s] = step[<<Pick(s), g[s \ {Pick(s)}]>>]
  BY Zenon, <1>2, <1>6 DEF Folds1
<1>8. h[s] = step[<<Pick(s), h[s \ {Pick(s)}]>>]
  BY Zenon, <1>2, <1>6 DEF Folds1
<1> QED BY Zenon, <1>5, <1>7, <1>8

\* Every step function can be folded over a finite set.
LEMMA FoldExists ==
  ASSUME NEW S, IsFiniteSet(S), NEW V, NEW base \in V, NEW step \in [S \X V -> V]
  PROVE  \E g \in [SUBSET S -> V] : Folds1(g, S, base, step)
<1> DEFINE Good(g, s) == g \in [SUBSET s -> V] /\ Folds1(g, s, base, step)
           Bad == {s \in SUBSET S : ~ \E g : Good(g, s)}
<1> SUFFICES ASSUME Bad # {} PROVE FALSE
  BY Zenon
<1>0. Bad \subseteq SUBSET S
  BY Zenon
<1>1. PICK s \in Bad : \A u \in Bad : u \subseteq s => u = s
  <2> HIDE DEF Bad
  <2> QED BY <1>0, MinimalSet
<1> DEFINE rest(t) == t \ {Pick(t)}
           below(t) == CHOOSE g : Good(g, rest(t))
           G == [t \in SUBSET s |-> IF t = {} THEN base ELSE step[<<Pick(t), below(t)[rest(t)]>>]]
<1>2. ASSUME NEW t \in SUBSET s, t # {}
      PROVE  /\ Pick(t) \in t
             /\ rest(t) \in SUBSET S
             /\ rest(t) \in SUBSET s
             /\ Good(below(t), rest(t))
  <2>1. Pick(t) \in t
    BY Zenon, <1>2, PickIn
  <2>2. rest(t) \subseteq s /\ rest(t) # s
    BY Zenon, <2>1
  <2>3. rest(t) \notin Bad
    BY Zenon, <2>2, <1>1
  <2>4. \E g : Good(g, rest(t))
    BY Zenon, <2>2, <2>3
  <2> HIDE DEF Good
  <2>5. Good(below(t), rest(t))
    BY Zenon, <2>4
  <2> QED BY Zenon, <2>1, <2>2, <2>5
<1>3. G \in [SUBSET s -> V]
  <2> SUFFICES ASSUME NEW t \in SUBSET s, t # {} PROVE step[<<Pick(t), below(t)[rest(t)]>>] \in V
    BY Zenon
  <2>1. below(t)[rest(t)] \in V
    <3> HIDE DEF below, rest
    <3> QED BY Zenon, <1>2
  <2> HIDE DEF below, rest
  <2> QED BY Zenon, <2>1, <1>2
<1>4. Folds1(G, s, base, step)
  <2> SUFFICES ASSUME NEW t \in SUBSET s, t # {}
               PROVE  G[t] = step[<<Pick(t), G[rest(t)]>>]
    <3>1. \A t \in SUBSET s : t # {} => G[t] = step[<<Pick(t), G[rest(t)]>>]
      <4> HIDE DEF G, rest, below
      <4> QED BY Zenon
    <3>2. \A t \in SUBSET s : t = {} => G[t] = base
      BY Zenon
    <3> HIDE DEF G, below
    <3> QED BY Zenon, <3>1, <3>2 DEF Folds1
  <2>1. rest(t) \in SUBSET s /\ rest(t) \in SUBSET S /\ Good(below(t), rest(t))
    BY Zenon, <1>2
  <2>2. below(t)[rest(t)] = G[rest(t)]
    <3>1. CASE rest(t) = {}
      <4>1. below(t)[rest(t)] = base
        <5> HIDE DEF below, rest
        <5> QED BY Zenon, <2>1, <3>1 DEF Folds1
      <4> QED BY Zenon, <4>1, <3>1, <2>1
    <3>2. CASE rest(t) # {}
      <4> DEFINE r == rest(t)
      <4>1. /\ Pick(r) \in r /\ rest(r) \in SUBSET s /\ rest(r) \in SUBSET S /\ Good(below(r), rest(r))
        <5> HIDE DEF below, rest
        <5> QED BY Zenon, <2>1, <3>2, <1>2
      <4>2. below(t)[rest(r)] = below(r)[rest(r)]
        <5>1. rest(r) \in SUBSET (r \cap rest(r))
          BY Zenon
        <5> HIDE DEF below, rest
        <5> QED BY <5>1, <4>1, <2>1, FoldUnique
      <4>3. below(t)[r] = step[<<Pick(r), below(t)[rest(r)]>>]
        <5> HIDE DEF below
        <5> QED BY Zenon, <2>1, <3>2 DEF Folds1
      <4>4. G[r] = step[<<Pick(r), below(r)[rest(r)]>>]
        <5> HIDE DEF below, rest
        <5> QED BY Zenon, <2>1, <3>2
      <4> QED BY Zenon, <4>2, <4>3, <4>4
    <3> QED BY Zenon, <3>1, <3>2
  <2>3. G[t] = step[<<Pick(t), below(t)[rest(t)]>>]
    <3> HIDE DEF below, rest
    <3> QED BY Zenon
  <2> HIDE DEF G, below, rest
  <2> QED BY Zenon, <2>2, <2>3
<1> HIDE DEF G, below, rest
<1>5. Good(G, s)
  BY Zenon, <1>3, <1>4
<1> QED BY Zenon, <1>1, <1>5

\* g sums f over the subsets of S, one picked element after another.
Sums(g, S, f) ==
  \A s \in SUBSET S : g[s] = IF s = {} THEN 0 ELSE f[Pick(s)] + g[s \ {Pick(s)}]

\* There is such a sum for every function into the integers.
LEMMA SumExists ==
  ASSUME NEW S, IsFiniteSet(S), NEW f, \A x \in S : f[x] \in Int
  PROVE  \E g \in [SUBSET S -> Int] : Sums(g, S, f)
<1> DEFINE step == [xv \in S \X Int |-> f[xv[1]] + xv[2]]
<1>1. step \in [S \X Int -> Int]
  OBVIOUS
<1>2. \A x \in S, v \in Int : step[<<x, v>>] = f[x] + v
  BY Zenon
<1> HIDE DEF step
<1>3. PICK g \in [SUBSET S -> Int] : Folds1(g, S, 0, step)
  <2>1. 0 \in Int
    OBVIOUS
  <2> QED BY Zenon, <1>1, <2>1, FoldExists
<1>4. ASSUME NEW s \in SUBSET S, s # {}
      PROVE  g[s] = f[Pick(s)] + g[s \ {Pick(s)}]
  <2>1. Pick(s) \in S /\ g[s \ {Pick(s)}] \in Int
    BY Zenon, <1>4, PickIn
  <2> QED BY Zenon, <2>1, <1>2, <1>3, <1>4 DEF Folds1
<1>5. g[{}] = 0
  BY Zenon, <1>3 DEF Folds1
<1> QED BY Zenon, <1>4, <1>5 DEF Sums

\* SumFunctionOnSet, which chooses a solution of its recursion, is the sum.
LEMMA SumIs ==
  ASSUME NEW S, IsFiniteSet(S), NEW f, \A x \in S : f[x] \in Int
  PROVE  \E g \in [SUBSET S -> Int] : Sums(g, S, f) /\ SumFunctionOnSet(f, S) = g[S]
<1> DEFINE Body(g) == [s \in SUBSET S |-> IF s = {} THEN 0 ELSE f[Pick(s)] + g[s \ {Pick(s)}]]
           iter == CHOOSE g : g = Body(g)
<1>1. SumFunctionOnSet(f, S) = iter[S]
  BY Zenon DEF SumFunctionOnSet, FoldFunctionOnSet, MapThenFoldSet, Pick
<1>2. PICK g \in [SUBSET S -> Int] : Sums(g, S, f)
  BY Zenon, SumExists
<1>3. g = Body(g)
  BY Zenon, <1>2 DEF Sums
<1>4. iter = Body(iter)
  <2> HIDE DEF Body
  <2> QED BY Zenon, <1>3
<1> HIDE DEF iter
<1>5. Sums(iter, S, f)
  BY Zenon, <1>4 DEF Sums
<1>6. iter \in [SUBSET S -> Int]
  <2> DEFINE Bad == {s \in SUBSET S : iter[s] \notin Int}
  <2> SUFFICES ASSUME Bad # {} PROVE FALSE
    BY Zenon, <1>4
  <2>0. Bad \subseteq SUBSET S
    BY Zenon
  <2>1. PICK s \in Bad : \A u \in Bad : u \subseteq s => u = s
    <3> HIDE DEF Bad
    <3> QED BY <2>0, MinimalSet
  <2>a. s \in SUBSET S /\ iter[s] \notin Int
    BY Zenon
  <2>b. iter[{}] = 0
    BY Zenon, <1>5 DEF Sums
  <2>2. s # {}
    <3>1. iter[{}] \in Int
      BY <2>b
    <3> HIDE DEF Bad
    <3> QED BY Zenon, <3>1, <2>a
  <2>3. Pick(s) \in s /\ s \ {Pick(s)} # s /\ s \ {Pick(s)} \subseteq s
    BY Zenon, <2>2, PickIn
  <2>4. iter[s \ {Pick(s)}] \in Int
    BY Zenon, <2>1, <2>3
  <2>5. iter[s] = f[Pick(s)] + iter[s \ {Pick(s)}]
    BY Zenon, <2>a, <2>2, <1>5 DEF Sums
  <2>6. f[Pick(s)] \in Int
    BY Zenon, <2>a, <2>3
  <2> QED BY <2>a, <2>4, <2>5, <2>6
<1> QED BY Zenon, <1>1, <1>5, <1>6

\* Sums of functions that agree are equal, whichever set they were built for.
LEMMA SumsAgree ==
  ASSUME NEW S, IsFiniteSet(S), NEW T \in SUBSET S, NEW f, NEW h,
         NEW g, NEW k, Sums(g, S, f), Sums(k, T, h), \A x \in T : f[x] = h[x]
  PROVE  g[T] = k[T]
<1> DEFINE Bad == {s \in SUBSET T : g[s] # k[s]}
<1> SUFFICES ASSUME Bad # {} PROVE FALSE
  BY Zenon
<1>0. Bad \subseteq SUBSET S
  BY Zenon
<1>1. PICK s \in Bad : \A u \in Bad : u \subseteq s => u = s
  <2> HIDE DEF Bad
  <2> QED BY <1>0, MinimalSet
<1>2. s \in SUBSET T /\ s \in SUBSET S /\ g[s] # k[s]
  BY Zenon
<1>3. s # {}
  <2>1. g[{}] = 0 /\ k[{}] = 0
    BY Zenon DEF Sums
  <2> QED BY Zenon, <2>1, <1>2
<1>4. Pick(s) \in s /\ s \ {Pick(s)} # s /\ s \ {Pick(s)} \subseteq s
  BY Zenon, <1>3, PickIn
<1>5. g[s \ {Pick(s)}] = k[s \ {Pick(s)}]
  BY Zenon, <1>1, <1>4
<1>6. g[s] = f[Pick(s)] + g[s \ {Pick(s)}]
  BY Zenon, <1>2, <1>3 DEF Sums
<1>7. k[s] = h[Pick(s)] + k[s \ {Pick(s)}]
  BY Zenon, <1>2, <1>3 DEF Sums
<1>8. f[Pick(s)] = h[Pick(s)]
  BY Zenon, <1>2, <1>4
<1> QED BY Zenon, <1>2, <1>5, <1>6, <1>7, <1>8

\* The order does not matter: any element can be taken out first.
LEMMA SumsRemove ==
  ASSUME NEW S, IsFiniteSet(S), NEW f, \A x \in S : f[x] \in Int,
         NEW g, \A s \in SUBSET S : g[s] \in Int, Sums(g, S, f), NEW t \in SUBSET S, NEW z \in t
  PROVE  g[t] = f[z] + g[t \ {z}]
<1> DEFINE Bad == {s \in SUBSET S : ~ \A y \in s : g[s] = f[y] + g[s \ {y}]}
<1> SUFFICES ASSUME Bad # {} PROVE FALSE
  BY Zenon
<1>0. Bad \subseteq SUBSET S
  BY Zenon
<1>1. PICK s \in Bad : \A u \in Bad : u \subseteq s => u = s
  <2> HIDE DEF Bad
  <2> QED BY <1>0, MinimalSet
<1>2. s \in SUBSET S
  BY Zenon
<1>3. PICK y \in s : g[s] # f[y] + g[s \ {y}]
  BY Zenon
<1> DEFINE p == Pick(s)
<1>4. s # {} /\ p \in s
  BY Zenon, <1>3, PickIn
<1>5. g[s] = f[p] + g[s \ {p}]
  BY Zenon, <1>2, <1>4 DEF Sums
<1> HIDE DEF p
<1>6. p # y
  BY Zenon, <1>3, <1>5
<1>7. s \ {p} \notin Bad /\ s \ {y} \notin Bad
  BY Zenon, <1>1, <1>3, <1>4
<1>8. g[s \ {p}] = f[y] + g[(s \ {p}) \ {y}]
  BY Zenon, <1>2, <1>3, <1>6, <1>7
<1>9. g[s \ {y}] = f[p] + g[(s \ {y}) \ {p}]
  BY Zenon, <1>2, <1>4, <1>6, <1>7
<1>10. (s \ {p}) \ {y} = (s \ {y}) \ {p}
  BY Zenon
<1>11. f[p] \in Int /\ f[y] \in Int /\ g[(s \ {y}) \ {p}] \in Int
  BY Zenon, <1>2, <1>3, <1>4
<1>12. g[s] = f[p] + (f[y] + g[(s \ {y}) \ {p}]) /\ g[s \ {y}] = f[p] + g[(s \ {y}) \ {p}]
  BY Zenon, <1>5, <1>8, <1>9, <1>10
<1>13. \A a, b, c \in Int : a + (b + c) = b + (a + c)
  OBVIOUS
<1> HIDE DEF Bad
<1>14. f[p] + (f[y] + g[(s \ {y}) \ {p}]) = f[y] + (f[p] + g[(s \ {y}) \ {p}])
  BY Zenon, <1>11, <1>13
<1>15. g[s] = f[y] + g[s \ {y}]
  BY Zenon, <1>12, <1>14
<1> QED BY Zenon, <1>3, <1>15

\* The sum over no elements.
LEMMA SumEmpty == ASSUME NEW f PROVE SumFunctionOnSet(f, {}) = 0
<1>1. IsFiniteSet({}) /\ \A x \in {} : f[x] \in Int
  BY Zenon, FS_EmptySet
<1>2. PICK g : Sums(g, {}, f) /\ SumFunctionOnSet(f, {}) = g[{}]
  BY Zenon, <1>1, SumIs
<1> QED BY Zenon, <1>2 DEF Sums

\* A sum of integers is an integer.
LEMMA SumType ==
  ASSUME NEW S, IsFiniteSet(S), NEW f, \A x \in S : f[x] \in Int
  PROVE  SumFunctionOnSet(f, S) \in Int
<1>1. PICK g \in [SUBSET S -> Int] : SumFunctionOnSet(f, S) = g[S]
  BY Zenon, SumIs
<1> QED BY Zenon, <1>1

\* Only the values on the set count.
LEMMA SumSame ==
  ASSUME NEW S, IsFiniteSet(S), NEW f, NEW h, \A x \in S : f[x] \in Int /\ f[x] = h[x]
  PROVE  SumFunctionOnSet(f, S) = SumFunctionOnSet(h, S)
<1>1. PICK g : Sums(g, S, f) /\ SumFunctionOnSet(f, S) = g[S]
  BY Zenon, SumIs
<1>2. PICK k : Sums(k, S, h) /\ SumFunctionOnSet(h, S) = k[S]
  BY Zenon, SumIs
<1> QED BY <1>1, <1>2, SumsAgree

\* A sum is one of its terms and the sum of the others.
LEMMA SumRemove ==
  ASSUME NEW S, IsFiniteSet(S), NEW f, \A x \in S : f[x] \in Int, NEW y \in S
  PROVE  SumFunctionOnSet(f, S) = f[y] + SumFunctionOnSet(f, S \ {y})
<1>1. PICK g \in [SUBSET S -> Int] : Sums(g, S, f) /\ SumFunctionOnSet(f, S) = g[S]
  BY Zenon, SumIs
<1>2. IsFiniteSet(S \ {y})
  BY Zenon, FS_RemoveElement
<1>3. PICK k : Sums(k, S \ {y}, f) /\ SumFunctionOnSet(f, S \ {y}) = k[S \ {y}]
  BY Zenon, <1>2, SumIs
<1>4. g[S \ {y}] = k[S \ {y}]
  BY <1>1, <1>3, SumsAgree
<1>5. g[S] = f[y] + g[S \ {y}]
  <2>1. S \in SUBSET S /\ \A s \in SUBSET S : g[s] \in Int
    BY Zenon
  <2> QED BY <1>1, <2>1, SumsRemove
<1> QED BY Zenon, <1>1, <1>3, <1>4, <1>5

\* Larger terms give a larger sum.
LEMMA SumMonotone ==
  ASSUME NEW S, IsFiniteSet(S), NEW f, NEW h,
         \A x \in S : f[x] \in Int /\ h[x] \in Int /\ f[x] <= h[x]
  PROVE  SumFunctionOnSet(f, S) <= SumFunctionOnSet(h, S)
<1>1. PICK g \in [SUBSET S -> Int] : Sums(g, S, f) /\ SumFunctionOnSet(f, S) = g[S]
  BY Zenon, SumIs
<1>2. PICK k \in [SUBSET S -> Int] : Sums(k, S, h) /\ SumFunctionOnSet(h, S) = k[S]
  BY Zenon, SumIs
<1> DEFINE Bad == {s \in SUBSET S : ~ g[s] <= k[s]}
<1> SUFFICES ASSUME Bad # {} PROVE FALSE
  BY Zenon, <1>1, <1>2
<1>0. Bad \subseteq SUBSET S
  BY Zenon
<1>3. PICK s \in Bad : \A u \in Bad : u \subseteq s => u = s
  <2> HIDE DEF Bad
  <2> QED BY <1>0, MinimalSet
<1>4. s \in SUBSET S /\ ~ g[s] <= k[s]
  BY Zenon
<1>5. s # {}
  <2>1. g[{}] = 0 /\ k[{}] = 0
    BY Zenon, <1>1, <1>2 DEF Sums
  <2>2. g[{}] <= k[{}]
    BY <2>1
  <2> HIDE DEF Bad
  <2> QED BY Zenon, <2>2, <1>4
<1>6. Pick(s) \in s /\ s \ {Pick(s)} # s /\ s \ {Pick(s)} \subseteq s
  BY Zenon, <1>5, PickIn
<1>7. g[s \ {Pick(s)}] <= k[s \ {Pick(s)}]
  BY Zenon, <1>3, <1>6
<1>8. g[s] = f[Pick(s)] + g[s \ {Pick(s)}] /\ k[s] = h[Pick(s)] + k[s \ {Pick(s)}]
  BY Zenon, <1>4, <1>5, <1>1, <1>2 DEF Sums
<1>9. /\ f[Pick(s)] \in Int /\ h[Pick(s)] \in Int /\ f[Pick(s)] <= h[Pick(s)]
      /\ g[s \ {Pick(s)}] \in Int /\ k[s \ {Pick(s)}] \in Int
  BY Zenon, <1>4, <1>6
<1> HIDE DEF Bad
<1> QED BY <1>4, <1>7, <1>8, <1>9

\* A sum of natural numbers is one.
LEMMA SumNat ==
  ASSUME NEW S, IsFiniteSet(S), NEW f, \A x \in S : f[x] \in Nat
  PROVE  SumFunctionOnSet(f, S) \in Nat
<1> DEFINE Bad == {s \in SUBSET S : SumFunctionOnSet(f, s) \notin Nat}
<1> SUFFICES ASSUME Bad # {} PROVE FALSE
  BY Zenon
<1>0. Bad \subseteq SUBSET S
  BY Zenon
<1>1. PICK s \in Bad : \A u \in Bad : u \subseteq s => u = s
  <2> HIDE DEF Bad
  <2> QED BY <1>0, MinimalSet
<1>2. s \in SUBSET S /\ SumFunctionOnSet(f, s) \notin Nat
  BY Zenon
<1>3. s # {}
  BY <1>2, SumEmpty
<1>4. Pick(s) \in s /\ s \ {Pick(s)} # s /\ s \ {Pick(s)} \subseteq s
  BY Zenon, <1>3, PickIn
<1>5. SumFunctionOnSet(f, s \ {Pick(s)}) \in Nat
  BY Zenon, <1>1, <1>2, <1>4
<1>6. f[Pick(s)] \in Nat
  BY Zenon, <1>2, <1>4
<1>7. SumFunctionOnSet(f, s) = f[Pick(s)] + SumFunctionOnSet(f, s \ {Pick(s)})
  <2>1. IsFiniteSet(s) /\ \A x \in s : f[x] \in Int
    BY <1>2, FS_Subset
  <2> QED BY Zenon, <1>4, <2>1, SumRemove
<1> HIDE DEF Bad
<1> QED BY <1>2, <1>5, <1>6, <1>7

\* One more term.
LEMMA SumAdd ==
  ASSUME NEW S, IsFiniteSet(S), NEW y, y \notin S, NEW f,
         \A x \in S \cup {y} : f[x] \in Int
  PROVE  SumFunctionOnSet(f, S \cup {y}) = f[y] + SumFunctionOnSet(f, S)
<1>1. IsFiniteSet(S \cup {y})
  BY Zenon, FS_AddElement
<1>2. (S \cup {y}) \ {y} = S
  BY Zenon
<1>3. y \in S \cup {y}
  BY Zenon
<1> QED BY <1>1, <1>2, <1>3, SumRemove

\* Terms that are zero may be left out.
LEMMA SumZeros ==
  ASSUME NEW S, IsFiniteSet(S), NEW T \in SUBSET S, NEW f,
         \A x \in S : f[x] \in Int, \A x \in S \ T : f[x] = 0
  PROVE  SumFunctionOnSet(f, S) = SumFunctionOnSet(f, T)
<1> DEFINE Bad == {s \in SUBSET S : T \subseteq s
                     /\ SumFunctionOnSet(f, s) # SumFunctionOnSet(f, T)}
<1> SUFFICES ASSUME Bad # {} PROVE FALSE
  BY Zenon
<1>0. Bad \subseteq SUBSET S
  BY Zenon
<1>1. PICK s \in Bad : \A u \in Bad : u \subseteq s => u = s
  <2> HIDE DEF Bad
  <2> QED BY <1>0, MinimalSet
<1>2. s \in SUBSET S /\ T \subseteq s
      /\ SumFunctionOnSet(f, s) # SumFunctionOnSet(f, T)
  BY Zenon
<1>3. PICK y \in s : y \notin T
  BY <1>2
<1>4. SumFunctionOnSet(f, s) = f[y] + SumFunctionOnSet(f, s \ {y})
  <2>1. IsFiniteSet(s) /\ \A x \in s : f[x] \in Int
    BY Zenon, <1>2, FS_Subset
  <2> QED BY <2>1, SumRemove
<1>5. SumFunctionOnSet(f, s \ {y}) = SumFunctionOnSet(f, T)
  BY <1>1, <1>2, <1>3
<1>6. SumFunctionOnSet(f, T) \in Int
  <2>1. IsFiniteSet(T) /\ \A x \in T : f[x] \in Int
    BY Zenon, FS_Subset
  <2> QED BY Zenon, <2>1, SumType
<1>7. f[y] = 0
  BY Zenon, <1>2, <1>3
<1> HIDE DEF Bad
<1> QED BY <1>2, <1>4, <1>5, <1>6, <1>7

\* A sum of natural numbers over more elements is at least as large.
LEMMA SumSubset ==
  ASSUME NEW S, IsFiniteSet(S), NEW T \in SUBSET S, NEW f, \A x \in S : f[x] \in Nat
  PROVE  SumFunctionOnSet(f, T) <= SumFunctionOnSet(f, S)
<1> DEFINE g == [x \in S |-> IF x \in T THEN f[x] ELSE 0]
<1>1. SumFunctionOnSet(g, S) = SumFunctionOnSet(g, T)
  <2>1. (\A x \in S : g[x] \in Int) /\ (\A x \in S \ T : g[x] = 0)
    OBVIOUS
  <2> HIDE DEF g
  <2> QED BY Zenon, <2>1, SumZeros
<1>2. SumFunctionOnSet(g, T) = SumFunctionOnSet(f, T)
  <2>1. IsFiniteSet(T)
    BY Zenon, FS_Subset
  <2>2. \A x \in T : g[x] \in Int /\ g[x] = f[x]
    OBVIOUS
  <2> HIDE DEF g
  <2> QED BY Zenon, <2>1, <2>2, SumSame
<1>3. SumFunctionOnSet(g, S) <= SumFunctionOnSet(f, S)
  <2>1. \A x \in S : g[x] \in Int /\ f[x] \in Int /\ g[x] <= f[x]
    OBVIOUS
  <2> HIDE DEF g
  <2> QED BY Zenon, <2>1, SumMonotone
<1> HIDE DEF g
<1> QED BY Zenon, <1>1, <1>2, <1>3

\* When one term grows by d, so does the sum.
LEMMA SumChange ==
  ASSUME NEW S, IsFiniteSet(S), NEW y \in S, NEW d \in Int, NEW f, NEW h,
         \A x \in S : f[x] \in Int,
         \A x \in S \ {y} : h[x] = f[x], h[y] = f[y] + d
  PROVE  SumFunctionOnSet(h, S) = SumFunctionOnSet(f, S) + d
<1>1. \A x \in S : h[x] \in Int
  OBVIOUS
<1>2. SumFunctionOnSet(f, S) = f[y] + SumFunctionOnSet(f, S \ {y})
  BY Zenon, SumRemove
<1>3. SumFunctionOnSet(h, S) = h[y] + SumFunctionOnSet(h, S \ {y})
  BY Zenon, <1>1, SumRemove
<1>4. SumFunctionOnSet(f, S \ {y}) = SumFunctionOnSet(h, S \ {y})
      /\ SumFunctionOnSet(f, S \ {y}) \in Int
  <2>1. IsFiniteSet(S \ {y}) /\ \A x \in S \ {y} : f[x] \in Int /\ f[x] = h[x]
    BY Zenon, FS_RemoveElement
  <2> QED BY Zenon, <2>1, SumSame, SumType
<1> QED BY <1>2, <1>3, <1>4
=============================================================================
