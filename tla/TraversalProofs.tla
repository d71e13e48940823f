--------------------------- MODULE TraversalProofs ---------------------------
(***************************************************************************)
(* Proofs about Traversal: the searches of the code graph, the search for  *)
(* circles of files and the context of a query, for any nodes, rows,       *)
(* bounds and arguments.                                                   *)
(*                                                                         *)
(* What a search finds is compared with sets that are defined by the       *)
(* number of steps, so the proofs rest on induction over that number, and  *)
(* this on a least element of a set of numbers.                            *)
(***************************************************************************)
EXTENDS Traversal, FiniteSetTheorems, SequenceTheorems, WellFoundedInduction, TLAPS

-----------------------------------------------------------------------------
(* Induction over the natural numbers, for sets of them.                    *)

\* The order of the numbers has no descending chain without end.
LEMMA LessIsWellFounded ==
    \E R : IsWellFoundedOn(R, Nat) /\ \A k, m \in Nat : k < m => <<k, m>> \in R
<1> DEFINE R == OpToRel(<, Nat)
<1>1. IsWellFoundedOn(R, Nat)
  BY NatLessThanWellFounded
<1>2. \A k, m \in Nat : k < m => <<k, m>> \in R
  BY DEF OpToRel
<1> HIDE DEF R
<1>3. QED
  BY <1>1, <1>2, Zenon

\* A set of numbers that is not empty has a least one.
LEMMA LeastNumber ==
    ASSUME NEW S \in SUBSET Nat, S # {}
    PROVE  \E m \in S : \A k \in S : m <= k
<1>1. PICK R : IsWellFoundedOn(R, Nat) /\ \A k, m \in Nat : k < m => <<k, m>> \in R
  BY LessIsWellFounded
<1>2. IsWellFoundedOn(R, Nat) /\ S \subseteq Nat
  BY <1>1
<1>3. \E m \in S : \A k \in S : ~(<<k, m>> \in R)
  BY <1>2, WFMin, ZenonT(30)
<1>4. PICK m \in S : \A k \in S : ~(<<k, m>> \in R)
  BY <1>3
<1>5. ASSUME NEW k \in S PROVE m <= k
  <2>1. ~(k < m)
    BY <1>1, <1>4, <1>5
  <2>2. k \in Nat /\ m \in Nat
    OBVIOUS
  <2>3. QED
    BY <2>1, <2>2
<1>6. QED
  BY <1>5

\* A set of numbers that has 0 and the successors of its members has all.
LEMMA Induction ==
    ASSUME NEW S \in SUBSET Nat, 0 \in S, \A d \in S : d + 1 \in S
    PROVE  \A d \in Nat : d \in S
<1>1. SUFFICES ASSUME Nat \ S # {} PROVE FALSE
  OBVIOUS
<1>2. PICK m \in Nat \ S : \A k \in Nat \ S : m <= k
  BY <1>1, LeastNumber
<1>3. m - 1 \in Nat /\ ~(m <= m - 1) /\ m - 1 + 1 = m
  BY <1>2
<1>4. m - 1 \in S
  BY <1>2, <1>3
<1>5. QED
  BY <1>2, <1>3, <1>4

-----------------------------------------------------------------------------
(* What is near a node.                                                     *)

\* The equation of the function that Iterate chooses
Iterates(W, f, x) == W = [i \in Nat |-> IF i = 0 THEN x ELSE f[W[i - 1]]]

\* Iterate chooses a function that starts with x and goes on by f.
LEMMA IterateChosen ==
    ASSUME NEW f, NEW x
    PROVE  Iterate(f, x) = CHOOSE W : Iterates(W, f, x)
BY DEF Iterate, Iterates

\* The function that Iterate chooses exists: two functions that agree with the
\* equation up to a number agree with each other up to it, so that what each
\* number has by itself makes one function.
LEMMA IterateExists ==
    ASSUME NEW f, NEW x
    PROVE  \E W : Iterates(W, f, x)
<1> DEFINE Upto(g, n) == \A i \in 0..n : g[i] = IF i = 0 THEN x ELSE f[g[i - 1]]
           OK(g, n) == g = [i \in 0..n |-> g[i]] /\ Upto(g, n)
           S == {n \in Nat : /\ \E g : OK(g, n)
                             /\ \A g, h : Upto(g, n) /\ Upto(h, n) => g[n] = h[n]}
<1>1. 0 \in S
  <2>1. OK([i \in 0..0 |-> x], 0)
    OBVIOUS
  <2>2. \A g, h : Upto(g, 0) /\ Upto(h, 0) => g[0] = h[0]
    OBVIOUS
  <2>3. QED
    BY <2>1, <2>2
<1>2. ASSUME NEW n \in S PROVE n + 1 \in S
  <2>1. PICK g : OK(g, n)
    OBVIOUS
  <2>2. n \in Nat /\ n + 1 \in Nat /\ n \in 0..n
    OBVIOUS
  <2> DEFINE h == [i \in 0..(n + 1) |-> IF i = n + 1 THEN f[g[n]] ELSE g[i]]
  <2>3. OK(h, n + 1)
    <3>1. \A i \in 0..(n+1) : i # n + 1 => i \in 0..n /\ h[i] = g[i]
      BY <2>2
    <3>2. ASSUME NEW i \in 0..(n + 1) PROVE h[i] = IF i = 0 THEN x ELSE f[h[i - 1]]
      <4>1. CASE i = n + 1
        <5>1. i # 0 /\ i - 1 = n /\ n \in 0..(n + 1) /\ n # n + 1
          BY <2>2, <4>1
        <5>2. h[i] = f[g[n]] /\ h[n] = g[n]
          BY <4>1, <5>1
        <5>3. QED
          BY <5>1, <5>2
      <4>2. CASE i # n + 1
        <5>1. i \in 0..n /\ h[i] = g[i]
          BY <4>2, <3>1
        <5>2. i # 0 => i - 1 \in 0..(n+1) /\ i - 1 # n + 1
          BY <2>2, <5>1
        <5>3. i # 0 => h[i-1] = g[i-1]
          BY <5>2, <3>1
        <5>4. QED
          BY <5>1, <5>3, <2>1
      <4>3. QED
        BY <4>1, <4>2
    <3>3. QED
      BY <3>2
  <2>4. ASSUME NEW a, NEW b, Upto(a, n + 1), Upto(b, n + 1) PROVE a[n + 1] = b[n + 1]
    <3>1. Upto(a, n) /\ Upto(b, n)
      BY <2>2, <2>4
    <3>2. a[n] = b[n]
      BY <3>1
    <3>3. a[n+1] = f[a[n]] /\ b[n + 1] = f[b[n]]
      <4>1. n + 1 \in 0..(n + 1) /\ n + 1 # 0 /\ (n + 1) - 1 = n
        BY <2>2
      <4>2. QED
        BY <4>1, <2>4
    <3>4. QED
      BY <3>2, <3>3
  <2> HIDE DEF h
  <2>5. QED
    BY <2>2, <2>3, <2>4
<1>3. \A n \in Nat : n \in S
  <2> HIDE DEF S
  <2>1. S \in SUBSET Nat
    BY DEF S
  <2>2. QED
    BY <1>1, <1>2, <2>1, Induction
<1> DEFINE W == [n \in Nat |-> (CHOOSE g : OK(g, n))[n]]
<1>4. \A n \in Nat : OK(CHOOSE g : OK(g, n), n)
  BY <1>3
<1>5. ASSUME NEW i \in Nat PROVE W[i] = IF i = 0 THEN x ELSE f[W[i - 1]]
  <2> DEFINE g == CHOOSE g : OK(g, i)
             h == CHOOSE h : OK(h, i - 1)
  <2>1. OK(g, i) /\ i \in 0..i /\ W[i] = g[i]
    BY <1>4
  <2>2. CASE i = 0
    BY <2>1, <2>2
  <2>3. CASE i # 0
    <3>1. i - 1 \in Nat /\ i - 1 \in S
      BY <1>3, <2>3, SMTT(30)
    <3>2. OK(h, i - 1) /\ W[i - 1] = h[i - 1]
      BY <3>1, <1>4
    <3>3. Upto(g, i - 1)
      <4>1. \A j \in 0..(i - 1) : j \in 0..i
        BY <3>1
      <4>2. QED
        BY <2>1, <4>1
    <3>4. g[i - 1] = h[i - 1]
      BY <3>1, <3>2, <3>3
    <3>5. QED
      BY <2>1, <2>3, <3>2, <3>4
  <2>4. QED
    BY <2>2, <2>3
<1>6. W = [i \in Nat |-> W[i]]
  OBVIOUS
<1> HIDE DEF W
<1>7. Iterates(W, f, x)
  BY <1>5, <1>6 DEF Iterates
<1>8. QED
  BY <1>7

\* There is such a function, so Iterate starts with x and goes on by f.
LEMMA IterateStep ==
    ASSUME NEW f, NEW x
    PROVE  /\ Iterate(f, x)[0] = x
           /\ \A d \in Nat : Iterate(f, x)[d + 1] = f[Iterate(f, x)[d]]
<1>1. Iterate(f, x) = CHOOSE W : Iterates(W, f, x)
  BY IterateChosen
<1>2. \E W : Iterates(W, f, x)
  BY IterateExists
<1>3. Iterates(Iterate(f, x), f, x)
  BY <1>1, <1>2, Zenon
<1> DEFINE W == Iterate(f, x)
<1>4. W = [i \in Nat |-> IF i = 0 THEN x ELSE f[W[i - 1]]]
  BY <1>3 DEF Iterates
<1> HIDE DEF W
<1>5. W[0] = x /\ \A d \in Nat : d + 1 \in Nat /\ d + 1 # 0 /\ (d + 1) - 1 = d
  BY <1>4
<1>6. QED
  BY <1>4, <1>5 DEF W

Relations == [Nodes -> SUBSET Nodes]

\* One step further than a set of nodes
Spread(step) == [S \in SUBSET Nodes |-> S \cup UNION {step[m] : m \in S}]

\* No step leads to the node itself, and one step more to what is one step away.
LEMMA WithinStep ==
    ASSUME NEW n \in Nodes, NEW step \in Relations
    PROVE  /\ Within(n, 0, step) = {n}
           /\ \A d \in Nat :
                /\ Within(n, d, step) \subseteq Nodes
                /\ Within(n, d + 1, step) =
                     Within(n, d, step) \cup UNION {step[m] : m \in Within(n, d, step)}
<1> DEFINE It == Iterate(Spread(step), {n})
           W(d) == Within(n, d, step)
           S == {d \in Nat : W(d) \subseteq Nodes}
<1>1. \A d : W(d) = It[d]
  BY DEF Within, Spread
<1>2. It[0] = {n} /\ \A d \in Nat : It[d + 1] = Spread(step)[It[d]]
  BY IterateStep
<1>3. \A T \in SUBSET Nodes :
        /\ Spread(step)[T] = T \cup UNION {step[m] : m \in T}
        /\ Spread(step)[T] \subseteq Nodes
  BY DEF Spread, Relations
<1> HIDE DEF It, W
<1>4. 0 \in S
  BY <1>1, <1>2
<1>5. \A d \in S : d + 1 \in S
  BY <1>1, <1>2, <1>3
<1>6. \A d \in Nat : d \in S
  BY <1>4, <1>5, Induction
<1>7. \A d \in Nat : W(d) \subseteq Nodes
  BY <1>6
<1>8. W(0) = {n} /\ \A d \in Nat : W(d + 1) = W(d) \cup UNION {step[m] : m \in W(d)}
  BY <1>1, <1>2, <1>3, <1>7
<1>9. QED
  BY <1>7, <1>8 DEF W

\* More steps lead to no less.
LEMMA WithinGrows ==
    ASSUME NEW n \in Nodes, NEW step \in Relations, NEW d \in Nat, NEW e \in Nat, d <= e
    PROVE  Within(n, d, step) \subseteq Within(n, e, step)
<1> DEFINE W(k) == Within(n, k, step)
           S == {k \in Nat : W(d) \subseteq W(d + k)}
<1>1. \A k \in Nat : W(k) \subseteq W(k + 1)
  BY WithinStep
<1> HIDE DEF W
<1>2. 0 \in S
  OBVIOUS
<1>3. ASSUME NEW k \in S PROVE k + 1 \in S
  <2>1. d + k \in Nat /\ d + (k + 1) = d + k + 1
    OBVIOUS
  <2>2. W(d + k) \subseteq W(d + (k + 1))
    BY <1>1, <2>1
  <2>3. QED
    BY <2>2
<1>4. \A k \in Nat : k \in S
  BY <1>2, <1>3, Induction
<1>5. e - d \in Nat /\ d + (e - d) = e
  OBVIOUS
<1>6. QED
  BY <1>4, <1>5 DEF W

\* What the nodes within a distance lead to is one step further.
LEMMA WithinNext ==
    ASSUME NEW n \in Nodes, NEW step \in Relations, NEW d \in Nat, NEW M \in Nat, d < M,
           NEW m \in Within(n, d, step), NEW k \in step[m]
    PROVE  k \in Within(n, d + 1, step) /\ k \in Within(n, M, step)
<1>1. k \in Within(n, d + 1, step)
  BY WithinStep
<1>2. d + 1 \in Nat /\ d + 1 <= M
  OBVIOUS
<1>3. QED
  BY <1>1, <1>2, WithinGrows

\* A set that has the node and, with a node less than M steps away, what one
\* step leads to has what M steps lead to.
LEMMA WithinInside ==
    ASSUME NEW n \in Nodes, NEW step \in Relations, NEW M \in Nat, NEW T, n \in T,
           \A d \in Nat : d < M => \A m \in T \cap Within(n, d, step) : step[m] \subseteq T
    PROVE  Within(n, M, step) \subseteq T
<1> DEFINE W(d) == Within(n, d, step)
           S == {d \in Nat : d <= M => W(d) \subseteq T}
<1>1. W(0) = {n} /\ \A d \in Nat : W(d + 1) = W(d) \cup UNION {step[m] : m \in W(d)}
  BY WithinStep
<1>2. \A d \in Nat : d < M => \A m \in T \cap W(d) : step[m] \subseteq T
  OBVIOUS
<1> HIDE DEF W
<1>3. 0 \in S
  BY <1>1
<1>4. ASSUME NEW d \in S PROVE d + 1 \in S
  <2>1. SUFFICES ASSUME d + 1 <= M PROVE W(d + 1) \subseteq T
    OBVIOUS
  <2>2. d < M /\ d <= M
    BY <2>1
  <2>3. W(d) \subseteq T
    BY <2>2
  <2>4. QED
    BY <1>1, <1>2, <2>2, <2>3
<1>5. \A d \in Nat : d \in S
  BY <1>3, <1>4, Induction
<1>6. QED
  BY <1>5 DEF W

\* A closure is closed, and within any closed set that has what it starts with.
LEMMA ClosureIsLeast ==
    ASSUME NEW S \in SUBSET Nodes, NEW step \in Relations
    PROVE  /\ Closure(S, step) \in SUBSET Nodes /\ S \subseteq Closure(S, step)
           /\ \A m \in Closure(S, step) : step[m] \subseteq Closure(S, step)
           /\ \A T \in SUBSET Nodes :
                S \subseteq T /\ (\A m \in T : step[m] \subseteq T) => Closure(S, step) \subseteq T
<1>1. Closure(S, step) \in SUBSET Nodes /\ S \subseteq Closure(S, step)
  BY DEF Closure
<1>2. ASSUME NEW m \in Closure(S, step), NEW k \in step[m] PROVE k \in Closure(S, step)
  <2>1. k \in Nodes
    BY <1>1 DEF Relations
  <2>2. ASSUME NEW T \in SUBSET Nodes, S \subseteq T, \A i \in T : step[i] \subseteq T
        PROVE  k \in T
    BY <2>2 DEF Closure
  <2>3. QED
    BY <2>1, <2>2 DEF Closure
<1>3. QED
  BY <1>1, <1>2 DEF Closure

-----------------------------------------------------------------------------
(* The relations of the graph, and what depends on a node.                  *)

\* The relations of a graph lead from nodes to nodes.
LEMMA RelationsTyped ==
    ASSUME edges \in SUBSET Rows
    PROVE  /\ \A kinds : Targets(kinds) \in Relations /\ Sources(kinds) \in Relations
           /\ Members \in Relations
           /\ \A direction : Neighbours(direction) \in Relations
<1>1. \A e \in edges : e.source \in Nodes /\ e.target \in Nodes
  BY GraphAssumption
<1>2. ASSUME NEW kinds PROVE Targets(kinds) \in Relations /\ Sources(kinds) \in Relations
  BY <1>1 DEF Targets, Sources, Relations, getOutgoingEdges, getIncomingEdges
<1>3. \A kinds : \A n \in Nodes :
        Targets(kinds)[n] \in SUBSET Nodes /\ Sources(kinds)[n] \in SUBSET Nodes
  BY <1>2 DEF Relations
<1>4. Members \in Relations
  BY <1>3 DEF Members, Relations
<1>5. ASSUME NEW direction PROVE Neighbours(direction) \in Relations
  BY <1>3 DEF Neighbours, Relations
<1>6. QED
  BY <1>2, <1>4, <1>5

References == Sources(Kinds \ {"contains"})

\* Dependents of depth 0 are the members, and each depth more adds what refers to them
\* and the members of that.
LEMMA DependentsStep ==
    ASSUME NEW n \in Nodes, edges \in SUBSET Rows
    PROVE  /\ Dependents(n, 0) = Closure({n}, Members)
           /\ \A d \in Nat :
                /\ Dependents(n, d) \in SUBSET Nodes
                /\ Dependents(n, d + 1) =
                     Closure(Dependents(n, d) \cup UNION {References[m] : m \in Dependents(n, d)},
                             Members)
<1> DEFINE F == [S \in SUBSET Nodes |->
                   Closure(S \cup UNION {References[m] : m \in S}, Members)]
           It == Iterate(F, Closure({n}, Members))
           D(d) == Dependents(n, d)
           S == {d \in Nat : D(d) \in SUBSET Nodes}
<1>1. \A d : D(d) = It[d]
  BY DEF Dependents, References
<1> HIDE DEF F
<1>2. It[0] = Closure({n}, Members) /\ \A d \in Nat : It[d + 1] = F[It[d]]
  BY IterateStep
<1>3. Members \in Relations /\ \A m \in Nodes : References[m] \in SUBSET Nodes
  BY RelationsTyped DEF References, Relations
<1>4. \A T \in SUBSET Nodes :
        /\ F[T] = Closure(T \cup UNION {References[m] : m \in T}, Members)
        /\ F[T] \in SUBSET Nodes
  <2>1. ASSUME NEW T \in SUBSET Nodes
        PROVE  T \cup UNION {References[m] : m \in T} \in SUBSET Nodes
    BY <1>3
  <2>2. QED
    BY <1>3, <2>1, ClosureIsLeast DEF F
<1> HIDE DEF It, D
<1>5. 0 \in S
  <2>1. {n} \in SUBSET Nodes
    OBVIOUS
  <2>2. QED
    BY <1>1, <1>2, <1>3, <2>1, ClosureIsLeast
<1>6. ASSUME NEW d \in S PROVE d + 1 \in S
  <2>1. D(d) \in SUBSET Nodes /\ D(d + 1) = F[D(d)]
    BY <1>1, <1>2
  <2>2. F[D(d)] \in SUBSET Nodes
    BY <1>4, <2>1
  <2>3. QED
    BY <2>1, <2>2
<1>7. \A d \in Nat : d \in S
  BY <1>5, <1>6, Induction
<1>8. \A d \in Nat : D(d) \in SUBSET Nodes
  BY <1>7
<1>9. /\ D(0) = Closure({n}, Members)
      /\ \A d \in Nat : D(d + 1) = Closure(D(d) \cup UNION {References[m] : m \in D(d)}, Members)
  BY <1>1, <1>2, <1>4, <1>8
<1>10. QED
  BY <1>8, <1>9 DEF D

\* The dependents a number of references away have the members of each, and all
\* of them and what refers to them are among those one reference further.
LEMMA DependentsNext ==
    ASSUME NEW n \in Nodes, edges \in SUBSET Rows, NEW d \in Nat
    PROVE  /\ n \in Dependents(n, d)
           /\ \A m \in Dependents(n, d) : Members[m] \subseteq Dependents(n, d)
           /\ Dependents(n, d) \subseteq Dependents(n, d + 1)
           /\ \A m \in Dependents(n, d) : References[m] \subseteq Dependents(n, d + 1)
<1> DEFINE D(k) == Dependents(n, k)
           Base(k) == IF k = 0 THEN {n} ELSE D(k - 1) \cup UNION {References[m] : m \in D(k - 1)}
           S == {k \in Nat : n \in D(k)}
<1>1. Members \in Relations /\ \A m \in Nodes : References[m] \in SUBSET Nodes
  BY RelationsTyped DEF References, Relations
<1>2. ASSUME NEW k \in Nat PROVE D(k) = Closure(Base(k), Members) /\ Base(k) \in SUBSET Nodes
  <2>1. CASE k = 0
    BY <2>1, DependentsStep
  <2>2. CASE k # 0
    <3>1. k - 1 \in Nat /\ k - 1 + 1 = k
      BY <2>2
    <3>2. D(k - 1) \in SUBSET Nodes /\ D(k) = Closure(Base(k), Members)
      <4>1. D(k - 1 + 1) = Closure(Base(k), Members)
        BY <2>2, <3>1, DependentsStep
      <4>2. QED
        BY <3>1, <4>1, DependentsStep
    <3>3. QED
      BY <1>1, <2>2, <3>2
  <2>3. QED
    BY <2>1, <2>2
<1>3. ASSUME NEW k \in Nat
      PROVE  Base(k) \subseteq D(k) /\ \A m \in D(k) : Members[m] \subseteq D(k)
  <2> HIDE DEF D, Base
  <2>1. QED
    BY <1>1, <1>2, ClosureIsLeast
<1>4. ASSUME NEW k \in Nat
      PROVE  D(k) \subseteq D(k + 1) /\ \A m \in D(k) : References[m] \subseteq D(k + 1)
  <2>1. k + 1 \in Nat /\ k + 1 # 0 /\ k + 1 - 1 = k
    OBVIOUS
  <2>2. Base(k + 1) = D(k) \cup UNION {References[m] : m \in D(k)}
    BY <2>1
  <2>3. Base(k + 1) \subseteq D(k + 1)
    BY <1>3, <2>1
  <2> HIDE DEF D, Base
  <2>4. QED
    BY <2>2, <2>3
<1>5. 0 \in S
  BY <1>3
<1> HIDE DEF D
<1>6. \A k \in S : k + 1 \in S
  BY <1>4
<1>7. \A k \in Nat : k \in S
  BY <1>5, <1>6, Induction
<1>8. QED
  BY <1>3, <1>4, <1>7 DEF D

\* A greater depth has no fewer dependents.
LEMMA DependentsGrow ==
    ASSUME NEW n \in Nodes, edges \in SUBSET Rows, NEW d \in Nat, NEW e \in Nat, d <= e
    PROVE  Dependents(n, d) \subseteq Dependents(n, e)
<1> DEFINE D(k) == Dependents(n, k)
           S == {k \in Nat : D(d) \subseteq D(d + k)}
<1>1. \A k \in Nat : D(k) \subseteq D(k + 1)
  BY DependentsNext
<1> HIDE DEF D
<1>2. 0 \in S
  OBVIOUS
<1>3. ASSUME NEW k \in S PROVE k + 1 \in S
  <2>1. d + k \in Nat /\ d + (k + 1) = d + k + 1
    OBVIOUS
  <2>2. D(d + k) \subseteq D(d + (k + 1))
    BY <1>1, <2>1
  <2>3. QED
    BY <2>2
<1>4. \A k \in Nat : k \in S
  BY <1>2, <1>3, Induction
<1>5. e - d \in Nat /\ d + (e - d) = e
  OBVIOUS
<1>6. QED
  BY <1>4, <1>5 DEF D

\* A set that has the node, the members of its nodes and what refers to them has
\* all dependents.
LEMMA DependentsInside ==
    ASSUME NEW n \in Nodes, edges \in SUBSET Rows, NEW T \in SUBSET Nodes, n \in T,
           \A m \in T : Members[m] \subseteq T /\ References[m] \subseteq T, NEW d \in Nat
    PROVE  Dependents(n, d) \subseteq T
<1> DEFINE D(k) == Dependents(n, k)
           S == {k \in Nat : D(k) \subseteq T}
<1>1. Members \in Relations
  BY RelationsTyped
<1>2. ASSUME NEW B \in SUBSET T PROVE Closure(B, Members) \subseteq T
  <2>1. B \in SUBSET Nodes
    OBVIOUS
  <2>2. QED
    BY <1>1, <2>1, ClosureIsLeast
<1>3. 0 \in S
  <2>1. {n} \in SUBSET T
    OBVIOUS
  <2>2. QED
    BY <1>2, <2>1, DependentsStep
<1>4. ASSUME NEW k \in S PROVE k + 1 \in S
  <2>1. D(k + 1) = Closure(D(k) \cup UNION {References[m] : m \in D(k)}, Members)
    BY DependentsStep
  <2> HIDE DEF D
  <2>2. D(k) \cup UNION {References[m] : m \in D(k)} \in SUBSET T
    OBVIOUS
  <2>3. QED
    BY <1>2, <2>1, <2>2
<1>5. \A k \in Nat : k \in S
  <2> HIDE DEF D
  <2>1. QED
    BY <1>3, <1>4, Induction
<1>6. QED
  BY <1>5

-----------------------------------------------------------------------------
(* The edges that a function looks at, and where they lead.                 *)

Calls == {"getCallersRecursive", "getCalleesRecursive"}
DepthFirst == Calls \cup {"dfsRecursive", "getTypeAncestors", "getTypeDescendants",
                          "getImpactRecursive"}

\* What one step of a function leads to
StepOf(f, o) == [n \in Nodes |-> {Other(e, n) : e \in EdgesOf(f, o, n)}]

\* Parting cases here lets a proof use EdgesOf without its CASE.
LEMMA EdgesOfEach ==
    /\ \A o : \A n :
         /\ EdgesOf("traverseBFS", o, n) = getAdjacentEdges(n, o.direction)
         /\ EdgesOf("dfsRecursive", o, n) = getAdjacentEdges(n, o.direction)
         /\ EdgesOf("findPath", o, n) = getOutgoingEdges(n, Kinds)
         /\ EdgesOf("getCallersRecursive", o, n) = getIncomingEdges(n, CallKinds)
         /\ EdgesOf("getCalleesRecursive", o, n) = getOutgoingEdges(n, CallKinds)
         /\ EdgesOf("getTypeAncestors", o, n) = getOutgoingEdges(n, TypeKinds)
         /\ EdgesOf("getTypeDescendants", o, n) = getIncomingEdges(n, TypeKinds)
         /\ EdgesOf("getImpactRecursive", o, n) = DependsOn(n)
BY DEF EdgesOf

\* The edges that a function looks at are edges of the node.
LEMMA EdgesOfTyped ==
    ASSUME edges \in SUBSET Rows, NEW f \in BreadthFirst \cup DepthFirst, NEW o, NEW n \in Nodes
    PROVE  /\ EdgesOf(f, o, n) \in SUBSET edges
           /\ MemberEdges(f, n) \in SUBSET edges
           /\ \A e \in EdgesOf(f, o, n) \cup MemberEdges(f, n) :
                /\ n \in Ends(e) /\ Other(e, n) \in Nodes /\ Ends(e) = {n, Other(e, n)}
                /\ e \in Rows
           /\ f # "getImpactRecursive" => MemberEdges(f, n) = {}
<1>1. \A e \in edges : e.source \in Nodes /\ e.target \in Nodes
  BY GraphAssumption
<1>2. \A kinds : getOutgoingEdges(n, kinds) \in SUBSET edges /\ getIncomingEdges(n, kinds) \in SUBSET edges
  BY DEF getOutgoingEdges, getIncomingEdges
<1>3. EdgesOf(f, o, n) \in SUBSET {e \in edges : e.source = n \/ e.target = n}
  BY EdgesOfEach
     DEF BreadthFirst, DepthFirst, Calls, getAdjacentEdges, DependsOn, getOutgoingEdges, getIncomingEdges
<1>4. MemberEdges(f, n) \in SUBSET {e \in edges : e.source = n}
  BY DEF MemberEdges, getOutgoingEdges
<1>5. ASSUME NEW e \in EdgesOf(f, o, n) \cup MemberEdges(f, n)
      PROVE  n \in Ends(e) /\ Other(e, n) \in Nodes /\ Ends(e) = {n, Other(e, n)} /\ e \in Rows
  <2>1. e \in edges /\ (e.source = n \/ e.target = n)
    BY <1>3, <1>4
  <2>2. QED
    BY <1>1, <2>1 DEF Ends, Other
<1>6. QED
  BY <1>3, <1>4, <1>5 DEF MemberEdges

\* The relations that the properties name are the steps of the functions.
LEMMA StepsOfFunctions ==
    ASSUME edges \in SUBSET Rows, NEW o
    PROVE  /\ StepOf("traverseBFS", o) = Neighbours(o.direction)
           /\ StepOf("dfsRecursive", o) = Neighbours(o.direction)
           /\ StepOf("findPath", o) = Targets(Kinds)
           /\ StepOf("getCallersRecursive", o) = Sources(CallKinds)
           /\ StepOf("getCalleesRecursive", o) = Targets(CallKinds)
           /\ StepOf("getTypeAncestors", o) = Targets(TypeKinds)
           /\ StepOf("getImpactRecursive", o) = References
<1>1. ASSUME NEW n \in Nodes, NEW kinds
      PROVE  /\ {Other(e, n) : e \in getOutgoingEdges(n, kinds)} = Targets(kinds)[n]
             /\ {Other(e, n) : e \in getIncomingEdges(n, kinds)} = Sources(kinds)[n]
  <2>1. \A e \in getOutgoingEdges(n, kinds) : Other(e, n) = e.target
    BY DEF getOutgoingEdges, Other
  <2>2. \A e \in getIncomingEdges(n, kinds) : Other(e, n) = e.source
    BY DEF getIncomingEdges, Other
  <2>3. QED
    BY <2>1, <2>2 DEF Targets, Sources
<1>2. ASSUME NEW n \in Nodes, NEW direction
      PROVE  {Other(e, n) : e \in getAdjacentEdges(n, direction)} = Neighbours(direction)[n]
  <2>1. {Other(e, n) : e \in getAdjacentEdges(n, direction)} =
          (IF direction = "incoming" THEN {} ELSE {Other(e, n) : e \in getOutgoingEdges(n, Kinds)})
          \cup (IF direction = "outgoing" THEN {} ELSE {Other(e, n) : e \in getIncomingEdges(n, Kinds)})
    BY DEF getAdjacentEdges
  <2>2. QED
    BY <1>1, <2>1 DEF Neighbours
<1>3. \A kinds : Targets(kinds) = [n \in Nodes |-> Targets(kinds)[n]]
                 /\ Sources(kinds) = [n \in Nodes |-> Sources(kinds)[n]]
  BY DEF Targets, Sources
<1>4. \A direction : Neighbours(direction) = [n \in Nodes |-> Neighbours(direction)[n]]
  BY DEF Neighbours
<1>5. StepOf("traverseBFS", o) = Neighbours(o.direction)
      /\ StepOf("dfsRecursive", o) = Neighbours(o.direction)
  BY <1>2, <1>4, EdgesOfEach DEF StepOf
<1>6. StepOf("findPath", o) = Targets(Kinds)
  BY <1>1, <1>3, EdgesOfEach DEF StepOf
<1>7. StepOf("getCallersRecursive", o) = Sources(CallKinds)
  BY <1>1, <1>3, EdgesOfEach DEF StepOf
<1>8. StepOf("getCalleesRecursive", o) = Targets(CallKinds)
  BY <1>1, <1>3, EdgesOfEach DEF StepOf
<1>9. StepOf("getTypeAncestors", o) = Targets(TypeKinds)
  BY <1>1, <1>3, EdgesOfEach DEF StepOf
<1>10. StepOf("getImpactRecursive", o) = References
  <2> DEFINE kinds == Kinds \ {"contains"}
  <2>1. \A n : EdgesOf("getImpactRecursive", o, n) = getIncomingEdges(n, kinds)
    BY EdgesOfEach DEF DependsOn
  <2>2. References = Sources(kinds)
    BY DEF References
  <2> HIDE DEF kinds
  <2>3. QED
    BY <1>1, <1>3, <2>1, <2>2 DEF StepOf
<1>11. QED
  BY <1>5, <1>6, <1>7, <1>8, <1>9, <1>10

\* Where a function goes from a node is a relation of nodes.
LEMMA StepOfTyped ==
    ASSUME edges \in SUBSET Rows, NEW f \in BreadthFirst \cup DepthFirst, NEW o
    PROVE  StepOf(f, o) \in Relations
BY EdgesOfTyped DEF StepOf, Relations

\* The edges that getImpactRecursive looks at first lead to the members.
LEMMA MembersReached ==
    ASSUME edges \in SUBSET Rows, NEW n \in Nodes
    PROVE  {Other(e, n) : e \in MemberEdges("getImpactRecursive", n)} = Members[n]
<1>1. \A e \in getOutgoingEdges(n, {"contains"}) : Other(e, n) = e.target
  BY DEF getOutgoingEdges, Other
<1>2. QED
  BY <1>1 DEF MemberEdges, Members, Targets

\* A new frame has all edges of its node yet to look at.
LEMMA FrameTyped ==
    ASSUME edges \in SUBSET Rows, NEW f \in BreadthFirst \cup DepthFirst, NEW o, NEW n \in Nodes,
           NEW path \in Seq(Rows), NEW depth \in Nat
    PROVE  /\ Frame(f, o, n, path, depth) \in Frames
           /\ Frame(f, o, n, path, depth).node = n
           /\ Frame(f, o, n, path, depth).path = path
           /\ Frame(f, o, n, path, depth).depth = depth
           /\ Frame(f, o, n, path, depth).members = MemberEdges(f, n)
           /\ Frame(f, o, n, path, depth).rest = EdgesOf(f, o, n)
<1>1. EdgesOf(f, o, n) \in SUBSET Rows /\ MemberEdges(f, n) \in SUBSET Rows
  BY EdgesOfTyped
<1>2. QED
  BY <1>1 DEF Frame, Frames

-----------------------------------------------------------------------------
(* The steps of a search.                                                   *)

Functions == BreadthFirst \cup DepthFirst

\* Which function runs for which method, and which variables it has no use for.
Phases ==
    /\ \/ AtRest
       \/ search \in BreadthFirst /\ running = search
       \/ search = "traverseDFS" /\ running = "dfsRecursive"
       \/ search \in {"getCallers", "getCallGraph"} /\ running = "getCallersRecursive"
       \/ search \in {"getCallees", "getCallGraph"} /\ running = "getCalleesRecursive"
       \/ search = "getTypeHierarchy" /\ running \in {"getTypeAncestors", "getTypeDescendants"}
       \/ search = "getImpactRadius" /\ running = "getImpactRecursive"
    /\ running \notin BreadthFirst => queue = <<>>
    /\ running \in BreadthFirst => Len(stack) <= 1

\* The edges that a call has yet to look at are edges of its node.
FramesOwn ==
    \A i \in 1..Len(stack) :
        /\ stack[i].members \subseteq MemberEdges(running, stack[i].node)
        /\ stack[i].rest \subseteq EdgesOf(running, opts, stack[i].node)

SearchShape == SearchTypeOK /\ Phases /\ FramesOwn

\* While a search is on, one of its functions runs, with arguments.
LEMMA PhasesKnown ==
    ASSUME SearchShape, search # "none"
    PROVE  running \in Functions /\ opts \in Options /\ opts.from \in Nodes /\ opts.maxDepth \in Nat
BY DEF SearchShape, Phases, SearchTypeOK, AtRest, Functions, BreadthFirst, DepthFirst, Calls, Options

\* What begins a search, what goes on with it, what ends it
Begins ==
    \E o \in Options :
        \/ StartBreadthFirst("traverseBFS", o, {o.from})
        \/ StartBreadthFirst("findPath", o, {})
        \/ StartDepthFirst("traverseDFS", "dfsRecursive", o, {o.from})
        \/ StartDepthFirst("getCallers", "getCallersRecursive", o, {})
        \/ StartDepthFirst("getCallees", "getCalleesRecursive", o, {})
        \/ StartDepthFirst("getCallGraph", "getCallersRecursive", o, {o.from})
        \/ StartDepthFirst("getTypeHierarchy", "getTypeAncestors", o, {o.from})
        \/ StartDepthFirst("getImpactRadius", "getImpactRecursive", o, {o.from})

\* The arguments of a method are options of a search.
LEMMA ArgumentsTyped ==
    ASSUME NEW n \in Nodes, NEW d \in Nat
    PROVE  Arguments(n, d) \in Options /\ Arguments(n, d).from = n
BY DEF Arguments, Options, Directions

\* Each method begins a search by breadth or by depth.
LEMMA SearchesBegin ==
    ASSUME NEW n \in Nodes, NEW to \in Nodes, NEW direction \in Directions, NEW d \in Nat,
           NEW limit \in Nat,
           \/ traverseBFS(n, direction, d, limit) \/ traverseDFS(n, direction, d, limit)
           \/ getCallers(n, d) \/ getCallees(n, d) \/ getCallGraph(n, d)
           \/ getImpactRadius(n, d) \/ getTypeHierarchy(n) \/ findPath(n, to)
    PROVE  Begins
<1> DEFINE o == [Arguments(n, d) EXCEPT !.direction = direction, !.limit = limit]
           p == [Arguments(n, 0) EXCEPT !.to = to]
<1>1. Arguments(n, d) \in Options /\ Arguments(n, d).from = n
  BY ArgumentsTyped
<1>2. Arguments(n, 0) \in Options /\ Arguments(n, 0).from = n
  BY ArgumentsTyped
<1>3. o \in Options /\ o.from = n /\ p \in Options /\ p.from = n
  BY DEF Arguments, Options, Directions
<1>4. traverseBFS(n, direction, d, limit) => StartBreadthFirst("traverseBFS", o, {o.from})
  BY <1>3 DEF traverseBFS
<1>5. traverseDFS(n, direction, d, limit) => StartDepthFirst("traverseDFS", "dfsRecursive", o, {o.from})
  BY <1>3 DEF traverseDFS
<1>6. findPath(n, to) => StartBreadthFirst("findPath", p, {})
  BY DEF findPath
<1> HIDE DEF o, p
<1>7. CASE traverseBFS(n, direction, d, limit) \/ traverseDFS(n, direction, d, limit)
  BY <1>3, <1>4, <1>5, <1>7 DEF Begins
<1>8. CASE findPath(n, to)
  BY <1>3, <1>6, <1>8 DEF Begins
<1>9. CASE getCallers(n, d) \/ getCallees(n, d) \/ getCallGraph(n, d) \/ getImpactRadius(n, d)
  BY <1>1, <1>9 DEF Begins, getCallers, getCallees, getCallGraph, getImpactRadius
<1>10. CASE getTypeHierarchy(n)
  BY <1>2, <1>10 DEF Begins, getTypeHierarchy
<1>11. QED
  BY <1>7, <1>8, <1>9, <1>10

\* The call that a depth-first function starts with
LEMMA FirstCallMade ==
    ASSUME edges \in SUBSET Rows, NEW f \in DepthFirst, NEW o \in Options,
           NEW seen \in SUBSET Nodes, NEW result, FirstCall(f, o, seen, result)
    PROVE  \/ stack' = <<>> /\ visited' = seen /\ Refused(f, o, o.from, 0, seen, result)
           \/ /\ ~Refused(f, o, o.from, 0, seen, result)
              /\ o.from \notin seen /\ visited' = seen \cup {o.from}
              /\ Len(stack') = 1 /\ stack' \in Seq(Frames)
              /\ stack'[1] = Frame(f, o, o.from, <<>>, 0)
<1>1. o.from \in Nodes /\ <<>> \in Seq(Rows) /\ 0 \in Nat
  BY DEF Options
<1>2. Frame(f, o, o.from, <<>>, 0) \in Frames
  BY <1>1, FrameTyped
<1>3. CASE Refused(f, o, o.from, 0, seen, result)
  BY <1>3 DEF FirstCall
<1>4. CASE ~Refused(f, o, o.from, 0, seen, result)
  <2>1. o.from \notin seen
    BY <1>4 DEF Refused
  <2>2. stack' = <<Frame(f, o, o.from, <<>>, 0)>> /\ visited' = seen \cup {o.from}
    BY <1>4 DEF FirstCall
  <2>3. QED
    BY <1>2, <1>4, <2>1, <2>2
<1>5. QED
  BY <1>3, <1>4

\* A search begins in a state of the right shape.
LEMMA BeginsTyped ==
    ASSUME SearchShape, Begins, edges' = edges
    PROVE  SearchShape'
<1>1. edges \in SUBSET Rows /\ edges' \in SUBSET Rows /\ AtRest
  BY DEF SearchShape, SearchTypeOK, Begins, StartBreadthFirst, StartDepthFirst, Phases, BreadthFirst
<1>2. PICK o \in Options :
        \/ StartBreadthFirst("traverseBFS", o, {o.from})
        \/ StartBreadthFirst("findPath", o, {})
        \/ StartDepthFirst("traverseDFS", "dfsRecursive", o, {o.from})
        \/ StartDepthFirst("getCallers", "getCallersRecursive", o, {})
        \/ StartDepthFirst("getCallees", "getCalleesRecursive", o, {})
        \/ StartDepthFirst("getCallGraph", "getCallersRecursive", o, {o.from})
        \/ StartDepthFirst("getTypeHierarchy", "getTypeAncestors", o, {o.from})
        \/ StartDepthFirst("getImpactRadius", "getImpactRecursive", o, {o.from})
  BY DEF Begins
<1>3. o.from \in Nodes
  BY DEF Options
<1>4. ASSUME NEW f \in BreadthFirst, NEW result \in SUBSET Nodes, StartBreadthFirst(f, o, result)
      PROVE  SearchShape'
  <2>1. [node |-> o.from, path |-> <<>>, depth |-> 0] \in Steps
    BY <1>3 DEF Steps
  <2>2. SearchTypeOK'
    BY <1>1, <1>4, <2>1 DEF SearchTypeOK, StartBreadthFirst, AtRest, BreadthFirst
  <2>3. Phases' /\ FramesOwn'
    BY <1>1, <1>4 DEF Phases, FramesOwn, StartBreadthFirst, AtRest, BreadthFirst
  <2>4. QED
    BY <2>2, <2>3 DEF SearchShape
<1>5. ASSUME NEW f \in DepthFirst, NEW m, NEW result \in SUBSET Nodes, StartDepthFirst(m, f, o, result),
             <<m, f>> \in {<<"traverseDFS", "dfsRecursive">>, <<"getCallers", "getCallersRecursive">>,
                           <<"getCallees", "getCalleesRecursive">>,
                           <<"getCallGraph", "getCallersRecursive">>,
                           <<"getTypeHierarchy", "getTypeAncestors">>,
                           <<"getImpactRadius", "getImpactRecursive">>}
      PROVE  SearchShape'
  <2>1. /\ search' = m /\ opts' = o /\ running' = f /\ nodes' = result
        /\ FirstCall(f, o, {}, result) /\ UNCHANGED <<queue, found>>
    BY <1>5 DEF StartDepthFirst
  <2>2. \/ stack' = <<>> /\ visited' = {}
        \/ /\ visited' = {o.from} /\ Len(stack') = 1 /\ stack' \in Seq(Frames)
           /\ stack'[1] = Frame(f, o, o.from, <<>>, 0)
    <3>1. {} \in SUBSET Nodes
      OBVIOUS
    <3>2. FirstCall(f, o, {}, result)
      BY <2>1
    <3>3. \/ stack' = <<>> /\ visited' = {} /\ Refused(f, o, o.from, 0, {}, result)
          \/ /\ ~Refused(f, o, o.from, 0, {}, result)
             /\ o.from \notin {} /\ visited' = {} \cup {o.from}
             /\ Len(stack') = 1 /\ stack' \in Seq(Frames)
             /\ stack'[1] = Frame(f, o, o.from, <<>>, 0)
      BY <1>1, <3>1, <3>2, FirstCallMade
    <3>4. QED
      BY <3>3
  <2>3. SearchTypeOK'
    <3>1. stack' \in Seq(Frames) /\ visited' \in SUBSET Nodes
      <4>1. <<>> \in Seq(Frames) /\ {} \in SUBSET Nodes /\ {o.from} \in SUBSET Nodes
        BY <1>3
      <4>2. QED
        BY <2>2, <4>1
    <3>2. queue' \in Seq(Steps) /\ found' \in Seq(Rows) /\ nodes' \in SUBSET Nodes
      BY <1>1, <2>1 DEF AtRest
    <3>3. QED
      BY <1>1, <1>5, <2>1, <3>1, <3>2 DEF SearchTypeOK
  <2>4. Phases'
    BY <1>1, <1>5, <2>1 DEF Phases, AtRest, BreadthFirst
  <2>5. FramesOwn'
    <3>1. /\ Frame(f, o, o.from, <<>>, 0).node = o.from
          /\ Frame(f, o, o.from, <<>>, 0).members = MemberEdges(f, o.from)
          /\ Frame(f, o, o.from, <<>>, 0).rest = EdgesOf(f, o, o.from)
      BY DEF Frame
    <3>2. MemberEdges(f, o.from)' = MemberEdges(f, o.from) /\ EdgesOf(f, o, o.from)' = EdgesOf(f, o, o.from)
      BY DEF MemberEdges, EdgesOf, getAdjacentEdges, getOutgoingEdges, getIncomingEdges, DependsOn
    <3>3. QED
      BY <2>1, <2>2, <3>1, <3>2 DEF FramesOwn
  <2>6. QED
    BY <2>3, <2>4, <2>5 DEF SearchShape
<1>6. {o.from} \in SUBSET Nodes /\ {} \in SUBSET Nodes
  BY <1>3
<1>7. CASE StartBreadthFirst("traverseBFS", o, {o.from}) \/ StartBreadthFirst("findPath", o, {})
  BY <1>4, <1>6, <1>7 DEF BreadthFirst
<1>8. CASE ~(StartBreadthFirst("traverseBFS", o, {o.from}) \/ StartBreadthFirst("findPath", o, {}))
  BY <1>2, <1>5, <1>6, <1>8 DEF DepthFirst, Calls
<1>9. QED
  BY <1>7, <1>8

\* As long as the table stays as it is, the edges of a node are the same.
LEMMA EdgesOfSame ==
    ASSUME edges' = edges
    PROVE  \A f, o : \A n : /\ EdgesOf(f, o, n)' = EdgesOf(f, o, n)
                            /\ MemberEdges(f, n)' = MemberEdges(f, n)
                            /\ \A path, depth : Frame(f, o, n, path, depth)' = Frame(f, o, n, path, depth)
BY DEF Frame, MemberEdges, EdgesOf, getAdjacentEdges, getOutgoingEdges, getIncomingEdges, DependsOn

\* What becomes of the first step of the queue
Skipped == Head(queue).node \in visited /\ UNCHANGED <<stack, visited, nodes, found>>

Expanded ==
    LET s == Head(queue)
    IN  /\ s.node \notin visited /\ visited' = visited \cup {s.node} /\ nodes' = nodes
        /\ found' = IF running = "traverseBFS" THEN found \o s.path ELSE found
        /\ \/ stack' = <<>> /\ running = "traverseBFS" /\ s.depth >= opts.maxDepth
           \/ /\ Len(stack') = 1 /\ stack' \in Seq(Frames)
              /\ stack'[1] = Frame(running, opts, s.node, s.path, s.depth)
              /\ running = "traverseBFS" => ~(s.depth >= opts.maxDepth)

\* TakeStep ends a search for a path, skips a node or expands it.
LEMMA TakeStepOutcome ==
    ASSUME SearchShape, TakeStep
    PROVE  /\ running \in BreadthFirst /\ stack = <<>> /\ queue # <<>>
           /\ Head(queue) \in Steps /\ Head(queue) = queue[1] /\ 1 \in 1..Len(queue)
           /\ UNCHANGED <<search, opts, running>>
           /\ \/ running = "findPath" /\ Head(queue).node = opts.to /\ PathFound(Head(queue))
              \/ /\ running = "findPath" => Head(queue).node # opts.to
                 /\ queue' = Tail(queue)
                 /\ Skipped \/ Expanded
<1> DEFINE s == Head(queue)
<1>1. /\ running \in BreadthFirst /\ stack = <<>> /\ queue # <<>> /\ UNCHANGED <<search, opts, running>>
      /\ edges \in SUBSET Rows /\ queue \in Seq(Steps)
  BY DEF TakeStep, SearchShape, SearchTypeOK
<1>2. s \in Steps /\ s = queue[1] /\ Len(queue) \in Nat /\ Len(queue) # 0
  BY <1>1
<1>3. s.node \in Nodes /\ s.path \in Seq(Rows) /\ s.depth \in Nat
  BY <1>2 DEF Steps
<1>4. running \in Functions /\ running \in BreadthFirst \cup DepthFirst
  BY <1>1 DEF Functions
<1>5. Frame(running, opts, s.node, s.path, s.depth) \in Frames
  BY <1>1, <1>3, <1>4, FrameTyped
<1> HIDE DEF s
<1>6. Expand(s) => queue' = Tail(queue) /\ (Skipped \/ Expanded)
  <2>1. SUFFICES ASSUME Expand(s) PROVE queue' = Tail(queue) /\ (Skipped \/ Expanded)
    OBVIOUS
  <2>2. queue' = Tail(queue) /\ nodes' = nodes
    BY <2>1 DEF Expand
  <2>3. CASE s.node \in visited
    BY <2>1, <2>2, <2>3 DEF Expand, Skipped, s
  <2>4. CASE s.node \notin visited
    <3>1. /\ visited' = visited \cup {s.node}
          /\ found' = (IF running = "traverseBFS" THEN found \o s.path ELSE found)
          /\ stack' = IF AtDepth(s) THEN <<>>
                      ELSE <<Frame(running, opts, s.node, s.path, s.depth)>>
      BY <2>1, <2>4 DEF Expand
    <3>2. CASE AtDepth(s)
      BY <2>2, <2>4, <3>1, <3>2 DEF AtDepth, Expanded, s
    <3>3. CASE ~AtDepth(s)
      <4>1. stack' = <<Frame(running, opts, s.node, s.path, s.depth)>>
        BY <3>1, <3>3
      <4>2. Len(stack') = 1 /\ stack' \in Seq(Frames)
            /\ stack'[1] = Frame(running, opts, s.node, s.path, s.depth)
        BY <4>1, <1>5
      <4>3. QED
        BY <2>2, <2>4, <3>1, <3>3, <4>2 DEF AtDepth, Expanded, s
    <3>4. QED
      BY <3>2, <3>3
  <2>5. QED
    BY <2>2, <2>3, <2>4
<1>7. \/ running = "traverseBFS" /\ Expand(s)
      \/ running = "findPath" /\ s.node = opts.to /\ PathFound(s)
      \/ running = "findPath" /\ s.node # opts.to /\ Expand(s)
  BY DEF TakeStep, s
<1>8. QED
  BY <1>1, <1>2, <1>6, <1>7 DEF s

\* TakeStep keeps the shape.
LEMMA TakeStepTyped ==
    ASSUME SearchShape, TakeStep, edges' = edges
    PROVE  SearchShape'
<1> DEFINE s == Head(queue)
<1>1. /\ running \in BreadthFirst /\ stack = <<>> /\ s \in Steps
      /\ UNCHANGED <<search, opts, running>>
      /\ \/ PathFound(s)
         \/ queue' = Tail(queue) /\ (Skipped \/ Expanded)
      /\ queue # <<>>
  BY TakeStepOutcome
<1>2. SearchTypeOK /\ Phases /\ FramesOwn
  BY DEF SearchShape
<1>3. s.node \in Nodes /\ s.path \in Seq(Rows) /\ s.depth \in Nat /\ Tail(queue) \in Seq(Steps)
  BY <1>1, <1>2 DEF Steps, SearchTypeOK
<1>4. running \in BreadthFirst \cup DepthFirst /\ edges \in SUBSET Rows
  BY <1>1, <1>2 DEF SearchTypeOK
<1>5. CASE PathFound(s)
  <2>1. queue' = <<>> /\ found' = s.path /\ UNCHANGED <<stack, visited>>
        /\ nodes' = {s.node} \cup {s.path[i].source : i \in DOMAIN s.path}
    BY <1>5 DEF PathFound
  <2>2. \A i \in DOMAIN s.path : s.path[i] \in Rows
    BY <1>3
  <2>3. nodes' \in SUBSET Nodes
    BY <1>3, <2>1, <2>2, GraphAssumption
  <2>4. SearchTypeOK'
    <3>1. queue' \in Seq(Steps) /\ found' \in Seq(Rows)
      BY <1>3, <2>1
    <3>2. QED
      BY <1>1, <1>2, <2>1, <2>3, <3>1 DEF SearchTypeOK
  <2>5. Phases' /\ FramesOwn'
    BY <1>1, <1>2, <2>1 DEF Phases, FramesOwn, AtRest, BreadthFirst
  <2>6. QED
    BY <2>4, <2>5 DEF SearchShape
<1>6. CASE queue' = Tail(queue) /\ Skipped
  <2>1. SearchTypeOK'
    BY <1>1, <1>2, <1>3, <1>6 DEF SearchTypeOK, Skipped
  <2>2. Phases' /\ FramesOwn'
    BY <1>1, <1>2, <1>6 DEF Phases, FramesOwn, AtRest, BreadthFirst, Skipped
  <2>3. QED
    BY <2>1, <2>2 DEF SearchShape
<1>7. CASE queue' = Tail(queue) /\ Expanded
  <2>1. /\ visited' = visited \cup {s.node} /\ nodes' = nodes
        /\ found' = (IF running = "traverseBFS" THEN found \o s.path ELSE found)
        /\ \/ stack' = <<>>
           \/ /\ Len(stack') = 1 /\ stack' \in Seq(Frames)
              /\ stack'[1] = Frame(running, opts, s.node, s.path, s.depth)
    BY <1>7 DEF Expanded
  <2> HIDE DEF s
  <2>2. SearchTypeOK'
    <3>1. found' \in Seq(Rows)
      BY <1>2, <1>3, <2>1 DEF SearchTypeOK
    <3>2. stack' \in Seq(Frames) /\ visited' \in SUBSET Nodes /\ nodes' \in SUBSET Nodes
      <4>1. <<>> \in Seq(Frames)
        OBVIOUS
      <4>2. QED
        BY <1>2, <1>3, <2>1, <4>1 DEF SearchTypeOK
    <3>3. QED
      BY <1>1, <1>2, <1>3, <1>7, <3>1, <3>2 DEF SearchTypeOK
  <2>3. Phases'
    <3>1. Len(stack') <= 1
      <4>1. stack' = <<>> \/ Len(stack') = 1
        BY <2>1
      <4>2. CASE stack' = <<>>
        BY <4>2
      <4>3. CASE Len(stack') = 1
        BY <4>3
      <4>4. QED
        BY <4>1, <4>2, <4>3
    <3>2. QED
      BY <1>1, <1>2, <3>1 DEF Phases, AtRest, BreadthFirst
  <2>4. FramesOwn'
    <3>1. /\ Frame(running, opts, s.node, s.path, s.depth).node = s.node
          /\ Frame(running, opts, s.node, s.path, s.depth).members = MemberEdges(running, s.node)
          /\ Frame(running, opts, s.node, s.path, s.depth).rest = EdgesOf(running, opts, s.node)
      BY DEF Frame
    <3>2. CASE stack' = <<>>
      BY <3>2 DEF FramesOwn
    <3>3. CASE stack' # <<>>
      <4>1. \A i \in 1..Len(stack') : i = 1
        <5>1. Len(stack') = 1
          BY <2>1, <3>3
        <5>2. QED
          BY <5>1
      <4>2. stack'[1].members = MemberEdges(running, s.node) /\ stack'[1].rest = EdgesOf(running, opts, s.node)
            /\ stack'[1].node = s.node
        BY <2>1, <3>1, <3>3
      <4>3. QED
        BY <1>1, <4>1, <4>2, EdgesOfSame DEF FramesOwn
    <3>4. QED
      BY <3>2, <3>3
  <2>5. QED
    BY <2>2, <2>3, <2>4 DEF SearchShape
<1>8. QED
  BY <1>1, <1>5, <1>6, <1>7

\* The neighbour that the head of a breadth-first search looks at
LEMMA QueueNeighbourOutcome ==
    ASSUME SearchShape, NEW e \in edges, QueueNeighbour(e)
    PROVE  LET f == stack[1]
               next == Other(e, f.node)
               path == IF running = "traverseBFS" THEN <<e>> ELSE Append(f.path, e)
               s == [node |-> next, path |-> path, depth |-> f.depth + 1]
           IN  /\ running \in BreadthFirst /\ Len(stack) = 1 /\ f \in Frames /\ stack # <<>>
               /\ e \in f.rest /\ next \in Nodes /\ s \in Steps
               /\ UNCHANGED <<search, opts, running, visited, found>>
               /\ Len(stack') = 1 /\ stack' \in Seq(Frames)
               /\ stack'[1].node = f.node /\ stack'[1].path = f.path /\ stack'[1].depth = f.depth
               /\ stack'[1].members = f.members /\ stack'[1].rest = f.rest \ {e}
               /\ \/ next \in visited /\ UNCHANGED <<queue, nodes>>
                  \/ /\ next \notin visited /\ queue' = Append(queue, s)
                     /\ nodes' = IF running = "traverseBFS" THEN nodes \cup {next} ELSE nodes
<1> DEFINE f == stack[1]
           next == Other(e, f.node)
           path == IF running = "traverseBFS" THEN <<e>> ELSE Append(f.path, e)
           s == [node |-> next, path |-> path, depth |-> f.depth + 1]
           g == [f EXCEPT !.rest = @ \ {e}]
<1>1. SearchTypeOK /\ Phases
  BY DEF SearchShape
<1>2. /\ running \in BreadthFirst /\ stack # <<>> /\ e \in f.rest
      /\ UNCHANGED <<search, opts, running, visited, found>>
      /\ stack' = <<g>>
      /\ IF next \in visited THEN UNCHANGED <<queue, nodes>>
         ELSE /\ queue' = Append(queue, s)
              /\ nodes' = IF running = "traverseBFS" THEN nodes \cup {next} ELSE nodes
  BY DEF QueueNeighbour
<1>3. Len(stack) = 1 /\ f \in Frames
  BY <1>1, <1>2 DEF Phases, SearchTypeOK
<1>4. e \in Rows /\ next \in Nodes
  BY <1>1, GraphAssumption DEF SearchTypeOK, Other
<1>5. f.path \in Seq(Rows) /\ f.depth + 1 \in Nat /\ f.rest \in SUBSET Rows
  BY <1>3 DEF Frames
<1>6. path \in Seq(Rows)
  BY <1>4, <1>5
<1>7. s \in Steps
  BY <1>4, <1>5, <1>6 DEF Steps
<1>8. g \in Frames /\ g.node = f.node /\ g.path = f.path /\ g.depth = f.depth
      /\ g.members = f.members /\ g.rest = f.rest \ {e}
  BY <1>3, <1>5 DEF Frames
<1>9. Len(stack') = 1 /\ stack' \in Seq(Frames) /\ stack'[1] = g
  BY <1>2, <1>8
<1> HIDE DEF g, s, path, next
<1>10. /\ running \in BreadthFirst /\ Len(stack) = 1 /\ f \in Frames /\ stack # <<>>
       /\ e \in f.rest /\ next \in Nodes /\ s \in Steps
       /\ UNCHANGED <<search, opts, running, visited, found>>
       /\ Len(stack') = 1 /\ stack' \in Seq(Frames)
       /\ stack'[1].node = f.node /\ stack'[1].path = f.path /\ stack'[1].depth = f.depth
       /\ stack'[1].members = f.members /\ stack'[1].rest = f.rest \ {e}
       /\ \/ next \in visited /\ UNCHANGED <<queue, nodes>>
          \/ /\ next \notin visited /\ queue' = Append(queue, s)
             /\ nodes' = IF running = "traverseBFS" THEN nodes \cup {next} ELSE nodes
  BY <1>2, <1>3, <1>4, <1>7, <1>8, <1>9
<1>11. QED
  BY <1>10 DEF next, path, s

\* QueueNeighbour keeps the shape.
LEMMA QueueNeighbourTyped ==
    ASSUME SearchShape, NEW e \in edges, QueueNeighbour(e), edges' = edges
    PROVE  SearchShape'
<1> DEFINE f == stack[1]
           next == Other(e, f.node)
           path == IF running = "traverseBFS" THEN <<e>> ELSE Append(f.path, e)
           s == [node |-> next, path |-> path, depth |-> f.depth + 1]
<1>1. /\ running \in BreadthFirst /\ Len(stack) = 1 /\ f \in Frames
      /\ e \in f.rest /\ next \in Nodes /\ s \in Steps
      /\ UNCHANGED <<search, opts, running, visited, found>>
      /\ Len(stack') = 1 /\ stack' \in Seq(Frames)
      /\ stack'[1].node = f.node
      /\ stack'[1].members = f.members /\ stack'[1].rest = f.rest \ {e}
      /\ \/ next \in visited /\ UNCHANGED <<queue, nodes>>
         \/ /\ next \notin visited /\ queue' = Append(queue, s)
            /\ nodes' = IF running = "traverseBFS" THEN nodes \cup {next} ELSE nodes
  BY QueueNeighbourOutcome
<1>2. SearchTypeOK /\ Phases /\ FramesOwn
  BY DEF SearchShape
<1> HIDE DEF s, next
<1>3. queue' \in Seq(Steps) /\ nodes' \in SUBSET Nodes
  <2>1. queue \in Seq(Steps) /\ nodes \in SUBSET Nodes
    BY <1>2 DEF SearchTypeOK
  <2>2. Append(queue, s) \in Seq(Steps) /\ nodes \cup {next} \in SUBSET Nodes
    BY <1>1, <2>1
  <2>3. QED
    BY <1>1, <2>1, <2>2
<1>4. SearchTypeOK'
  BY <1>1, <1>2, <1>3 DEF SearchTypeOK
<1>5. Phases'
  BY <1>1, <1>2 DEF Phases, AtRest, BreadthFirst
<1>6. FramesOwn'
  <2>1. f.members \subseteq MemberEdges(running, f.node) /\ f.rest \subseteq EdgesOf(running, opts, f.node)
    BY <1>1, <1>2 DEF FramesOwn
  <2>2. \A i \in 1..Len(stack') : i = 1
    BY <1>1
  <2>3. QED
    BY <1>1, <2>1, <2>2, EdgesOfSame DEF FramesOwn
<1>7. QED
  BY <1>4, <1>5, <1>6 DEF SearchShape

\* The innermost call, and the edge e as it looks at it
Innermost == stack[Len(stack)]
Inside == Innermost.members # {}
NextOf(e) == Other(e, Innermost.node)
NextDepth == IF Inside THEN Innermost.depth ELSE Innermost.depth + 1
LeftAfter(e) ==
    [stack EXCEPT ![Len(stack)] =
        [Innermost EXCEPT !.members = @ \ {e}, !.rest = IF Inside THEN @ ELSE @ \ {e}]]

\* Look passes over a known node, adds one and is refused, or adds one and calls.
LEMMA LookOutcome ==
    ASSUME SearchShape, NEW e \in edges, Look(e)
    PROVE  /\ running \in DepthFirst /\ stack # <<>> /\ Len(stack) \in Nat \ {0}
           /\ Len(stack) \in 1..Len(stack) /\ Innermost \in Frames
           /\ e \in (IF Inside THEN Innermost.members ELSE Innermost.rest)
           /\ NextOf(e) \in Nodes /\ NextDepth \in Nat /\ e \in Rows
           /\ UNCHANGED <<search, opts, running, queue>>
           /\ \/ Known(NextOf(e), Inside) /\ stack' = LeftAfter(e) /\ UNCHANGED <<visited, nodes, found>>
              \/ /\ ~Known(NextOf(e), Inside)
                 /\ nodes' = nodes \cup {NextOf(e)} /\ found' = Append(found, e)
                 /\ \/ /\ Refused(running, opts, NextOf(e), NextDepth, visited, nodes')
                       /\ stack' = LeftAfter(e) /\ visited' = visited
                    \/ /\ ~Refused(running, opts, NextOf(e), NextDepth, visited, nodes')
                       /\ stack' = Append(LeftAfter(e), Frame(running, opts, NextOf(e), <<>>, NextDepth))
                       /\ visited' = visited \cup {NextOf(e)}
<1>1. SearchTypeOK /\ Phases
  BY DEF SearchShape
<1>2. running \notin BreadthFirst /\ stack # <<>> /\ UNCHANGED <<search, opts, running, queue>>
  BY DEF Look
<1>3. running \in DepthFirst
  BY <1>1, <1>2 DEF Phases, DepthFirst, Calls, AtRest
<1>4. Len(stack) \in Nat \ {0} /\ Len(stack) \in 1..Len(stack) /\ Innermost \in Frames
  BY <1>1, <1>2 DEF SearchTypeOK, Innermost
<1>5. e \in Rows /\ NextOf(e) \in Nodes
  BY <1>1, GraphAssumption DEF SearchTypeOK, NextOf, Other
<1>6. NextDepth \in Nat
  BY <1>4 DEF NextDepth, Frames
<1>7. /\ e \in (IF Inside THEN Innermost.members ELSE Innermost.rest)
      /\ IF Known(NextOf(e), Inside)
         THEN stack' = LeftAfter(e) /\ UNCHANGED <<visited, nodes, found>>
         ELSE /\ nodes' = nodes \cup {NextOf(e)} /\ found' = Append(found, e)
              /\ IF Refused(running, opts, NextOf(e), NextDepth, visited, nodes')
                 THEN stack' = LeftAfter(e) /\ UNCHANGED visited
                 ELSE /\ stack' = Append(LeftAfter(e), Frame(running, opts, NextOf(e), <<>>, NextDepth))
                      /\ visited' = visited \cup {NextOf(e)}
  BY Zenon DEF Look, Innermost, Inside, NextOf, NextDepth, LeftAfter
<1>8. QED
  BY <1>2, <1>3, <1>4, <1>5, <1>6, <1>7

\* Only the innermost call changes, and of it only what it has yet to look at.
LEMMA LeftAfterIs ==
    ASSUME SearchShape, stack # <<>>, NEW e
    PROVE  /\ LeftAfter(e) \in Seq(Frames) /\ Len(LeftAfter(e)) = Len(stack)
           /\ \A i \in 1..Len(stack) :
                /\ LeftAfter(e)[i].node = stack[i].node /\ LeftAfter(e)[i].depth = stack[i].depth
                /\ LeftAfter(e)[i].members \subseteq stack[i].members
                /\ LeftAfter(e)[i].rest \subseteq stack[i].rest
                /\ stack[i].members \cup stack[i].rest \subseteq
                     LeftAfter(e)[i].members \cup LeftAfter(e)[i].rest \cup {e}
                /\ i # Len(stack) => LeftAfter(e)[i] = stack[i]
<1>1. stack \in Seq(Frames)
  BY DEF SearchShape, SearchTypeOK
<1>2. Len(stack) \in Nat \ {0} /\ Innermost \in Frames /\ Len(stack) \in 1..Len(stack)
  BY <1>1 DEF Innermost
<1> DEFINE g == [Innermost EXCEPT !.members = @ \ {e}, !.rest = IF Inside THEN @ ELSE @ \ {e}]
<1>3. /\ g \in Frames /\ g.node = Innermost.node /\ g.depth = Innermost.depth
      /\ g.members = Innermost.members \ {e}
      /\ g.rest = IF Inside THEN Innermost.rest ELSE Innermost.rest \ {e}
  BY <1>2 DEF Frames
<1>4. LeftAfter(e) = [stack EXCEPT ![Len(stack)] = g]
  BY DEF LeftAfter
<1> HIDE DEF g
<1>5. /\ LeftAfter(e) \in Seq(Frames) /\ Len(LeftAfter(e)) = Len(stack)
      /\ \A i \in 1..Len(stack) : LeftAfter(e)[i] = IF i = Len(stack) THEN g ELSE stack[i]
  BY <1>1, <1>2, <1>3, <1>4
<1>6. QED
  BY <1>2, <1>3, <1>5 DEF Innermost

\* Frames with edges of their nodes only are frames of their own.
LEMMA FramesOwnKept ==
    ASSUME edges' = edges, running' = running, opts' = opts,
           \A i \in 1..Len(stack') :
              /\ stack'[i].members \subseteq MemberEdges(running, stack'[i].node)
              /\ stack'[i].rest \subseteq EdgesOf(running, opts, stack'[i].node)
    PROVE  FramesOwn'
BY EdgesOfSame DEF FramesOwn

\* Look keeps the shape.
LEMMA LookTyped ==
    ASSUME SearchShape, NEW e \in edges, Look(e), edges' = edges
    PROVE  SearchShape'
<1>1. SearchTypeOK /\ Phases /\ FramesOwn
  BY DEF SearchShape
<1> DEFINE n == NextOf(e)
           fr == Frame(running, opts, n, <<>>, NextDepth)
<1>2. /\ running \in DepthFirst /\ stack # <<>> /\ n \in Nodes /\ NextDepth \in Nat /\ e \in Rows
      /\ UNCHANGED <<search, opts, running, queue>>
      /\ nodes' = nodes \/ nodes' = nodes \cup {n}
      /\ found' = found \/ found' = Append(found, e)
      /\ visited' = visited \/ visited' = visited \cup {n}
      /\ stack' = LeftAfter(e) \/ stack' = Append(LeftAfter(e), fr)
  BY LookOutcome
<1>3. running \in BreadthFirst \cup DepthFirst /\ edges \in SUBSET Rows /\ <<>> \in Seq(Rows)
  BY <1>1, <1>2 DEF SearchTypeOK
<1>4. fr \in Frames /\ fr.node = n /\ fr.members = MemberEdges(running, n) /\ fr.rest = EdgesOf(running, opts, n)
  <2>1. fr \in Frames
    BY <1>2, <1>3, FrameTyped
  <2>2. QED
    BY <2>1 DEF Frame
<1> HIDE DEF n, fr
<1>5. /\ LeftAfter(e) \in Seq(Frames) /\ Len(LeftAfter(e)) = Len(stack)
      /\ \A i \in 1..Len(stack) :
           /\ LeftAfter(e)[i].node = stack[i].node
           /\ LeftAfter(e)[i].members \subseteq stack[i].members
           /\ LeftAfter(e)[i].rest \subseteq stack[i].rest
  BY <1>2, LeftAfterIs
<1>6. Append(LeftAfter(e), fr) \in Seq(Frames) /\ stack' \in Seq(Frames)
  BY <1>2, <1>4, <1>5
<1>7. SearchTypeOK'
  <2>1. found' \in Seq(Rows) /\ nodes' \in SUBSET Nodes /\ visited' \in SUBSET Nodes
    <3>1. found \in Seq(Rows) /\ nodes \in SUBSET Nodes /\ visited \in SUBSET Nodes
      BY <1>1 DEF SearchTypeOK
    <3>2. Append(found, e) \in Seq(Rows)
      BY <1>2, <3>1
    <3>3. QED
      BY <1>2, <3>1, <3>2
  <2>2. QED
    BY <1>1, <1>2, <1>6, <2>1 DEF SearchTypeOK
<1>8. Phases'
  <2>1. running \notin BreadthFirst
    BY <1>2 DEF DepthFirst, Calls, BreadthFirst
  <2>2. QED
    BY <1>1, <1>2, <2>1 DEF Phases, AtRest
<1>9. FramesOwn'
  <2>1. \A i \in 1..Len(stack) :
           /\ LeftAfter(e)[i].members \subseteq MemberEdges(running, LeftAfter(e)[i].node)
           /\ LeftAfter(e)[i].rest \subseteq EdgesOf(running, opts, LeftAfter(e)[i].node)
    BY <1>1, <1>5 DEF FramesOwn
  <2>2. CASE stack' = LeftAfter(e)
    BY <1>2, <1>5, <2>1, <2>2, FramesOwnKept
  <2>3. CASE stack' = Append(LeftAfter(e), fr)
    <3>1. /\ Len(stack') = Len(stack) + 1 /\ stack'[Len(stack) + 1] = fr
          /\ \A i \in 1..Len(stack) : stack'[i] = LeftAfter(e)[i]
      BY <1>4, <1>5, <2>3
    <3>2. \A i \in 1..Len(stack') : i \in 1..Len(stack) \/ i = Len(stack) + 1
      BY <3>1, <1>1 DEF SearchTypeOK
    <3>3. \A i \in 1..Len(stack') :
              /\ stack'[i].members \subseteq MemberEdges(running, stack'[i].node)
              /\ stack'[i].rest \subseteq EdgesOf(running, opts, stack'[i].node)
      BY <1>4, <2>1, <3>1, <3>2
    <3>4. QED
      BY <1>2, <3>3, FramesOwnKept
  <2>4. QED
    BY <1>2, <2>2, <2>3
<1>10. QED
  BY <1>7, <1>8, <1>9 DEF SearchShape

\* Leave drops the innermost frame, which has no edge left.
LEMMA LeaveOutcome ==
    ASSUME SearchShape, Leave
    PROVE  /\ stack # <<>> /\ Len(stack) \in Nat \ {0} /\ Innermost \in Frames
           /\ Innermost.members = {} /\ Innermost.rest = {}
           /\ stack' \in Seq(Frames) /\ Len(stack') = Len(stack) - 1
           /\ \A i \in 1..(Len(stack) - 1) : stack'[i] = stack[i]
           /\ UNCHANGED <<search, opts, running, queue, visited, nodes, found>>
<1>1. stack \in Seq(Frames) /\ stack # <<>>
  BY DEF SearchShape, SearchTypeOK, Leave
<1>2. stack' = SubSeq(stack, 1, Len(stack) - 1)
  BY DEF Leave
<1>3. Len(stack) \in Nat \ {0} /\ Innermost \in Frames
  BY <1>1 DEF Innermost
<1>4. /\ stack' \in Seq(Frames) /\ Len(stack') = Len(stack) - 1
      /\ \A i \in 1..(Len(stack) - 1) : stack'[i] = stack[i]
  <2>1. Len(stack) - 1 <= Len(stack) /\ 1 <= Len(stack) - 1 + 1 /\ Len(stack) - 1 \in Nat
    BY <1>3
  <2> DEFINE k == Len(stack) - 1
  <2>2. 1 \in 1..(Len(stack) + 1) /\ k \in (1 - 1)..Len(stack)
    BY <1>3, <2>1
  <2>3. /\ SubSeq(stack, 1, k) \in Seq(Frames)
        /\ Len(SubSeq(stack, 1, k)) = IF 1 <= k THEN k - 1 + 1 ELSE 0
        /\ \A i \in 1..(k - 1 + 1) : SubSeq(stack, 1, k)[i] = stack[1 + i - 1]
    BY <1>1, <2>2, SubSeqProperties
  <2>4. k \in Nat /\ k = Len(stack) - 1 /\ stack' = SubSeq(stack, 1, k)
    BY <1>2, <2>1
  <2> HIDE DEF k
  <2>5. Len(SubSeq(stack, 1, k)) = k
    BY <2>3, <2>4
  <2>6. \A i \in 1..k : SubSeq(stack, 1, k)[i] = stack[i]
    <3>1. \A i \in 1..k : i \in 1..(k - 1 + 1) /\ 1 + i - 1 = i
      BY <2>4
    <3>2. QED
      BY <2>3, <3>1
  <2>7. QED
    BY <2>3, <2>4, <2>5, <2>6
<1>5. QED
  BY <1>1, <1>3, <1>4 DEF Leave, Innermost

\* Leave keeps the shape.
LEMMA LeaveTyped ==
    ASSUME SearchShape, Leave, edges' = edges
    PROVE  SearchShape'
<1>1. SearchTypeOK /\ Phases /\ FramesOwn
  BY DEF SearchShape
<1>2. /\ Len(stack) \in Nat \ {0} /\ stack' \in Seq(Frames) /\ Len(stack') = Len(stack) - 1
      /\ \A i \in 1..(Len(stack) - 1) : stack'[i] = stack[i]
      /\ UNCHANGED <<search, opts, running, queue, visited, nodes, found>> /\ stack # <<>>
  BY LeaveOutcome
<1>3. SearchTypeOK'
  BY <1>1, <1>2 DEF SearchTypeOK
<1>4. Phases'
  BY <1>1, <1>2 DEF Phases, AtRest, BreadthFirst
<1>5. FramesOwn'
  BY <1>1, <1>2, EdgesOfSame DEF FramesOwn
<1>6. QED
  BY <1>3, <1>4, <1>5 DEF SearchShape

\* The second half of a search of two functions begins.
LEMMA SecondTyped ==
    ASSUME SearchShape, CalleesNext \/ DescendantsNext, edges' = edges
    PROVE  SearchShape'
<1>1. SearchTypeOK /\ Phases /\ FramesOwn
  BY DEF SearchShape
<1>2. PICK seen \in {{}, visited}, f \in {"getCalleesRecursive", "getTypeDescendants"} :
        /\ running' = f /\ FirstCall(f, opts, seen, nodes) /\ stack = <<>>
        /\ UNCHANGED <<search, opts, queue, nodes, found>>
        /\ \/ search = "getCallGraph" /\ f = "getCalleesRecursive" /\ running = "getCallersRecursive"
           \/ running = "getTypeAncestors" /\ f = "getTypeDescendants"
  BY DEF CalleesNext, DescendantsNext
<1>3. /\ f \in DepthFirst /\ seen \in SUBSET Nodes /\ edges \in SUBSET Rows
      /\ search # "none" /\ opts \in Options /\ opts.from \in Nodes
  BY <1>1, <1>2 DEF DepthFirst, Calls, SearchTypeOK, Phases, AtRest, Options, BreadthFirst
<1>4. \/ stack' = <<>> /\ visited' = seen
      \/ /\ visited' = seen \cup {opts.from} /\ Len(stack') = 1 /\ stack' \in Seq(Frames)
         /\ stack'[1] = Frame(f, opts, opts.from, <<>>, 0)
  BY <1>2, <1>3, FirstCallMade
<1>5. SearchTypeOK'
  <2>1. stack' \in Seq(Frames) /\ visited' \in SUBSET Nodes
    <3>1. <<>> \in Seq(Frames)
      OBVIOUS
    <3>2. QED
      BY <1>3, <1>4, <3>1
  <2>2. QED
    BY <1>1, <1>2, <2>1 DEF SearchTypeOK
<1>6. Phases'
  BY <1>1, <1>2 DEF Phases, AtRest, BreadthFirst
<1>7. FramesOwn'
  <2>1. /\ Frame(f, opts, opts.from, <<>>, 0).node = opts.from
        /\ Frame(f, opts, opts.from, <<>>, 0).members = MemberEdges(f, opts.from)
        /\ Frame(f, opts, opts.from, <<>>, 0).rest = EdgesOf(f, opts, opts.from)
    BY DEF Frame
  <2>2. CASE stack' = <<>>
    BY <2>2 DEF FramesOwn
  <2>3. CASE Len(stack') = 1 /\ stack'[1] = Frame(f, opts, opts.from, <<>>, 0)
    <3>1. \A i \in 1..Len(stack') : i = 1
      BY <2>3
    <3>2. QED
      BY <1>2, <2>1, <2>3, <3>1, EdgesOfSame DEF FramesOwn
  <2>4. QED
    BY <1>4, <2>2, <2>3
<1>8. QED
  BY <1>5, <1>6, <1>7 DEF SearchShape

\* A search that has returned leaves nothing behind.
LEMMA ReturnedTyped ==
    ASSUME SearchShape, Returned, edges' \in SUBSET Rows
    PROVE  SearchShape'
<1>1. AtRest'
  BY DEF Returned, AtRest
<1>2. SearchTypeOK'
  BY <1>1 DEF AtRest, SearchTypeOK
<1>3. QED
  BY <1>1, <1>2 DEF AtRest, SearchShape, Phases, FramesOwn, BreadthFirst

\* Every step of a search keeps the shape.
LEMMA SearchStepTyped ==
    ASSUME SearchShape, SearchStep, edges' = edges
    PROVE  SearchShape'
<1>1. CASE TakeStep
  BY <1>1, TakeStepTyped
<1>2. CASE CalleesNext \/ DescendantsNext
  BY <1>2, SecondTyped
<1>3. CASE Leave
  BY <1>3, LeaveTyped
<1>4. CASE \E e \in edges : QueueNeighbour(e)
  BY <1>4, QueueNeighbourTyped
<1>5. CASE \E e \in edges : Look(e)
  BY <1>5, LookTyped
<1>6. QED
  BY <1>1, <1>2, <1>3, <1>4, <1>5 DEF SearchStep

-----------------------------------------------------------------------------
(* The steps of Traversal, as a search sees them.                           *)

\* A division rounded up gives a number.
LEMMA DividedUpTyped ==
    ASSUME NEW a \in Nat, NEW b \in Nat \ {0}
    PROVE  DividedUp(a, b) \in Nat
<1>1. a + b - 1 \in Nat
  OBVIOUS
<1>2. \A x \in Nat : x \div b \in Nat
  OBVIOUS
<1>3. QED
  BY <1>1, <1>2 DEF DividedUp

\* Sets of nodes are finite.
LEMMA CardinalitiesTyped ==
    \A S \in SUBSET Nodes :
        IsFiniteSet(S) /\ Cardinality(S) \in Nat /\ (S # {} => Cardinality(S) # 0)
<1>1. SUFFICES ASSUME NEW S \in SUBSET Nodes
      PROVE  IsFiniteSet(S) /\ Cardinality(S) \in Nat /\ (S # {} => Cardinality(S) # 0)
  OBVIOUS
<1>2. IsFiniteSet(S)
  BY FS_Subset, GraphAssumption
<1>3. QED
  BY <1>2, FS_CardinalityType, FS_EmptySet

\* A context that is collected has entry points.
ContextShape == ContextTypeOK /\ (stage # "none" => entry # {})

\* A step of Traversal leaves the search alone, or begins, continues or ends one over the
\* same table.
LEMMA SearchMoves ==
    ASSUME SearchShape, ContextShape, [Next]_vars
    PROVE  \/ /\ UNCHANGED searchVars /\ edges' \in SUBSET Rows
              /\ edges' = edges \/ search = "none"
           \/ edges' = edges /\ (Begins \/ SearchStep \/ Returned)
<1>1. edges \in SUBSET Rows
  BY DEF SearchShape, SearchTypeOK
<1>2. Depths \subseteq Nat /\ Limits \subseteq Nat
  BY SearchAssumption
<1>3. {searchLimit, maxNodes, traversalDepth, maxPerFile, maxNonProd} \subseteq Nat \ {0}
  BY ContextAssumption
<1>4. CASE Insert
  BY <1>1, <1>4 DEF Insert, InsertEdge, Quiet
<1>5. CASE Searching
  <2>1. edges' = edges
    BY <1>5 DEF Searching
  <2>2. CASE StartSearch
    <3>1. PICK n \in Nodes, to \in Nodes, direction \in Directions, d \in Depths, limit \in Limits :
             \/ traverseBFS(n, direction, d, limit) \/ traverseDFS(n, direction, d, limit)
             \/ getCallers(n, d) \/ getCallees(n, d) \/ getCallGraph(n, d)
             \/ getImpactRadius(n, d) \/ getTypeHierarchy(n) \/ findPath(n, to)
      BY <2>2 DEF StartSearch
    <3>2. d \in Nat /\ limit \in Nat
      BY <1>2
    <3>3. QED
      BY <2>1, <3>1, <3>2, SearchesBegin
  <2>3. QED
    BY <1>5, <2>1, <2>2 DEF Searching
<1>6. CASE Collecting
  <2>1. edges' = edges
    BY <1>6 DEF Collecting
  <2>2. ASSUME NEW n \in Nodes, AskHierarchy(n) PROVE Begins
    <3>1. getTypeHierarchy(n) /\ "outgoing" \in Directions /\ 0 \in Nat
      BY <2>2 DEF AskHierarchy, Directions
    <3>2. QED
      BY <3>1, SearchesBegin
  <2>3. ASSUME NEW n \in Nodes, AskTraversal(n) PROVE Begins
    <3>1. Cardinality(entry) \in Nat \ {0}
      BY <2>3, CardinalitiesTyped DEF AskTraversal, ContextShape, ContextTypeOK
    <3>2. DividedUp(maxNodes, Cardinality(entry)) \in Nat
      BY <1>3, <3>1, DividedUpTyped
    <3>3. traverseBFS(n, "both", traversalDepth, DividedUp(maxNodes, Cardinality(entry)))
          /\ "both" \in Directions /\ traversalDepth \in Nat
      BY <1>3, <2>3 DEF AskTraversal, Directions
    <3>4. QED
      BY <3>2, <3>3, SearchesBegin
  <2>4. \/ UNCHANGED searchVars \/ Returned
        \/ \E n \in Nodes : AskHierarchy(n) \/ AskTraversal(n)
    BY <1>6 DEF Collecting, ContextStep, StartContext, findRelevantContext, AddHierarchy, CapFiles,
                CapTests, Trim, HierarchiesAdded, AddTraversal, TraversalsAdded, FilterEdges,
                ContextReturned
  <2>5. QED
    BY <1>1, <2>1, <2>2, <2>3, <2>4
<1>7. CASE Tracing
  BY <1>1, <1>7 DEF Tracing
<1>8. CASE UNCHANGED vars
  BY <1>1, <1>8 DEF vars
<1>9. QED
  BY <1>4, <1>5, <1>6, <1>7, <1>8 DEF Next

\* Every step of Traversal keeps the shape of the search.
LEMMA SearchShapeKept ==
    ASSUME SearchShape, ContextShape, [Next]_vars
    PROVE  SearchShape'
<1>1. CASE UNCHANGED searchVars /\ edges' \in SUBSET Rows /\ (edges' = edges \/ search = "none")
  <2>1. UNCHANGED <<search, opts, running, queue, stack, visited, nodes, found>>
    BY <1>1 DEF searchVars
  <2>2. SearchTypeOK' /\ Phases'
    BY <1>1, <2>1 DEF SearchShape, SearchTypeOK, Phases, AtRest
  <2>3. FramesOwn'
    <3>1. CASE edges' = edges
      BY <2>1, <3>1, EdgesOfSame DEF FramesOwn, SearchShape
    <3>2. CASE search = "none"
      <4>1. stack' = <<>>
        BY <2>1, <3>2 DEF SearchShape, Phases, AtRest, BreadthFirst
      <4>2. QED
        BY <4>1 DEF FramesOwn
    <3>3. QED
      BY <1>1, <3>1, <3>2
  <2>4. QED
    BY <2>2, <2>3 DEF SearchShape
<1>2. CASE edges' = edges /\ Begins
  BY <1>2, BeginsTyped
<1>3. CASE edges' = edges /\ SearchStep
  BY <1>3, SearchStepTyped
<1>4. CASE edges' = edges /\ Returned
  <2>1. edges' \in SUBSET Rows
    BY <1>4 DEF SearchShape, SearchTypeOK
  <2>2. QED
    BY <1>4, <2>1, ReturnedTyped
<1>5. QED
  BY <1>1, <1>2, <1>3, <1>4, SearchMoves

\* Every step of a context, and what it leaves alone
LEMMA ContextShapeKept ==
    ASSUME SearchShape, ContextShape, [Next]_vars
    PROVE  ContextShape'
<1>1. /\ stage \in Stages /\ entry \subseteq Nodes /\ todo \subseteq Nodes /\ gathered \subseteq Nodes
      /\ roots \subseteq entry /\ links \subseteq Rows /\ added \in Nat
      /\ stage # "none" => entry # {}
  BY DEF ContextShape, ContextTypeOK
<1>2. nodes \subseteq Nodes /\ edges \subseteq Rows /\ \A i \in DOMAIN found : found[i] \in Rows
  BY DEF SearchShape, SearchTypeOK
<1>3. CASE UNCHANGED contextVars
  BY <1>1, <1>3 DEF contextVars, ContextShape, ContextTypeOK
<1>4. CASE StartContext
  BY <1>1, <1>4 DEF StartContext, findRelevantContext, ContextShape, ContextTypeOK, Stages
<1>5. CASE \E n \in Nodes : AskHierarchy(n) \/ AskTraversal(n)
  BY <1>1, <1>5 DEF AskHierarchy, AskTraversal, ContextShape, ContextTypeOK, Stages
<1>6. ASSUME NEW S \in SUBSET Nodes, AddHierarchy(S) PROVE ContextShape'
  <2>1. Cardinality(S) \in Nat
    BY CardinalitiesTyped
  <2>2. links' \subseteq Rows
    BY <1>1, <1>2, <1>6 DEF AddHierarchy
  <2>3. QED
    BY <1>1, <1>6, <2>1, <2>2 DEF AddHierarchy, ContextShape, ContextTypeOK
<1>7. CASE HierarchiesAdded \/ TraversalsAdded
  BY <1>1, <1>7 DEF HierarchiesAdded, TraversalsAdded, ContextShape, ContextTypeOK, Stages
<1>8. CASE AddTraversal
  BY <1>1, <1>2, <1>8 DEF AddTraversal, ContextShape, ContextTypeOK
<1>9. ASSUME NEW S \in SUBSET Nodes, CapFiles(S) \/ CapTests(S) \/ \E ids \in SUBSET Nodes : Trim(S, ids)
      PROVE  ContextShape'
  BY <1>1, <1>9 DEF CapFiles, CapTests, Trim, ContextShape, ContextTypeOK, Stages
<1>10. CASE FilterEdges \/ ContextReturned
  BY <1>1, <1>2, <1>10 DEF FilterEdges, EdgesLeft, ContextReturned, ContextShape, ContextTypeOK, Stages
<1>11. CASE ContextStep
  BY <1>5, <1>6, <1>7, <1>8, <1>9, <1>10, <1>11 DEF ContextStep
<1>12. QED
  BY <1>3, <1>4, <1>11 DEF Next, Insert, Searching, Collecting, Tracing, vars

-----------------------------------------------------------------------------
(* The context of a query.                                                  *)

\* The entry points do not exceed the caps on nodes and on those of a file.
EntriesFit ==
    /\ Cardinality(entry) <= maxNodes
    /\ \A f \in Files : Cardinality({n \in entry : FileOf[n] = f}) <= maxPerFile

ContextKept ==
    /\ stage \in {"files", "tests", "edges", "done"} => Cardinality(gathered) <= maxNodes
    /\ stage = "done" => UNION {Ends(e) : e \in links} \subseteq gathered
    /\ EntriesFit => roots \subseteq gathered

\* If not all fit, what a cut keeps has all that come first, as long as these fit.
LEMMA FirstOnesKept ==
    ASSUME NEW of \in SUBSET Nodes, NEW kept, NEW first \in SUBSET Nodes, NEW room \in Nat,
           Preferred(kept, of, first, room), NEW R \in SUBSET (of \cap first),
           \A S \in SUBSET first : S \subseteq of => Cardinality(S) <= room
    PROVE  R \subseteq kept /\ Cardinality(kept) <= room
<1>1. kept \in SUBSET Nodes /\ kept \subseteq of
  BY DEF Preferred
<1>2. Cardinality(kept) \in Nat /\ Cardinality(of) \in Nat
  BY <1>1, CardinalitiesTyped
<1>3. Cardinality(kept) <= room
  BY <1>2 DEF Preferred
<1>4. CASE Cardinality(of) <= room
  BY <1>3, <1>4 DEF Preferred
<1>5. CASE ~(Cardinality(of) <= room) /\ of \cap first \subseteq kept
  BY <1>3, <1>5
<1>6. CASE ~(Cardinality(of) <= room) /\ kept \subseteq first
  <2>1. Cardinality(kept) = room
    BY <1>6 DEF Preferred
  <2>2. kept \in SUBSET (of \cap first) /\ of \cap first \in SUBSET Nodes
    BY <1>1, <1>6
  <2>3. Cardinality(of \cap first) <= room /\ IsFiniteSet(of \cap first)
        /\ Cardinality(of \cap first) \in Nat
    BY <2>2, CardinalitiesTyped
  <2>4. Cardinality(kept) <= Cardinality(of \cap first)
    BY <2>2, <2>3, FS_Subset
  <2>5. Cardinality(of \cap first) = Cardinality(kept)
    BY <2>1, <2>3, <2>4
  <2>6. kept = of \cap first
    BY <2>2, <2>3, <2>5, FS_Subset
  <2>7. QED
    BY <1>3, <2>6
<1>7. QED
  BY <1>4, <1>5, <1>6 DEF Preferred

\* Every step of Traversal keeps what the stages of a context have established.
LEMMA ContextKeptNext ==
    ASSUME SearchShape, ContextShape, ContextKept, [Next]_vars
    PROVE  ContextKept'
<1>1. /\ stage \in Stages /\ entry \subseteq Nodes /\ todo \subseteq Nodes /\ gathered \subseteq Nodes
      /\ roots \subseteq entry /\ maxNodes \in Nat /\ maxPerFile \in Nat
  BY ContextAssumption DEF ContextShape, ContextTypeOK
<1>2. ContextShape'
  BY ContextShapeKept
<1>3. gathered' \subseteq Nodes
  BY <1>2 DEF ContextShape, ContextTypeOK
<1>4. entry' = entry => EntriesFit' = EntriesFit
  BY DEF EntriesFit
<1>5. ASSUME NEW S \in SUBSET gathered, gathered' = S, Cardinality(gathered) <= maxNodes
      PROVE  Cardinality(gathered') <= maxNodes
  <2>1. IsFiniteSet(gathered) /\ Cardinality(gathered) \in Nat /\ Cardinality(S) \in Nat
    BY <1>1, CardinalitiesTyped
  <2>2. Cardinality(S) <= Cardinality(gathered)
    BY <2>1, FS_Subset
  <2>3. QED
    BY <1>1, <1>5, <2>1, <2>2
<1>6. CASE UNCHANGED contextVars
  BY <1>4, <1>6 DEF contextVars, ContextKept
<1>7. CASE StartContext
  BY <1>7 DEF StartContext, findRelevantContext, ContextKept
<1>8. CASE \E n \in Nodes : AskHierarchy(n) \/ AskTraversal(n)
  BY <1>4, <1>8 DEF AskHierarchy, AskTraversal, ContextKept
<1>9. CASE HierarchiesAdded \/ TraversalsAdded
  BY <1>4, <1>9 DEF HierarchiesAdded, TraversalsAdded, ContextKept
<1>10. CASE AddTraversal \/ \E S \in SUBSET Nodes : AddHierarchy(S)
  BY <1>4, <1>10 DEF AddTraversal, AddHierarchy, ContextKept
<1>11. ASSUME NEW S \in SUBSET Nodes, NEW ids \in SUBSET Nodes, Trim(S, ids) PROVE ContextKept'
  <2>1. /\ stage' = "files" /\ gathered' = S /\ UNCHANGED <<entry, links, roots>>
        /\ IF Cardinality(gathered) <= maxNodes THEN S = gathered
           ELSE Preferred(S, gathered, roots, maxNodes)
    BY <1>11 DEF Trim
  <2>2. CASE Cardinality(gathered) <= maxNodes
    BY <1>4, <2>1, <2>2 DEF ContextKept
  <2>3. CASE ~(Cardinality(gathered) <= maxNodes)
    <3>1. Preferred(S, gathered, roots, maxNodes) /\ roots \in SUBSET Nodes
      BY <1>1, <2>1, <2>3
    <3>2. Cardinality(gathered) \in Nat /\ Cardinality(S) \in Nat
      BY <1>1, CardinalitiesTyped
    <3>3. Cardinality(S) <= maxNodes
      BY <1>1, <2>3, <3>1, <3>2 DEF Preferred
    <3>4. ASSUME EntriesFit PROVE roots \subseteq S
      <4>1. \A T \in SUBSET roots : T \subseteq gathered => Cardinality(T) <= maxNodes
        <5>1. IsFiniteSet(entry) /\ Cardinality(entry) \in Nat /\ Cardinality(entry) <= maxNodes
          BY <1>1, <3>4, CardinalitiesTyped DEF EntriesFit
        <5>2. \A T \in SUBSET entry : Cardinality(T) <= Cardinality(entry) /\ Cardinality(T) \in Nat
          BY <1>1, <5>1, FS_Subset, CardinalitiesTyped
        <5>3. QED
          BY <1>1, <5>1, <5>2
      <4>2. roots \in SUBSET (gathered \cap roots)
        BY <3>4 DEF ContextKept
      <4>3. QED
        BY <1>1, <3>1, <4>1, <4>2, FirstOnesKept
    <3>5. QED
      BY <1>4, <2>1, <3>3, <3>4 DEF ContextKept
  <2>4. QED
    BY <2>2, <2>3
<1>12. ASSUME NEW S \in SUBSET Nodes, CapFiles(S) PROVE ContextKept'
  <2>1. /\ stage = "files" /\ stage' = "tests" /\ gathered' = S /\ S \subseteq gathered
        /\ UNCHANGED <<entry, links, roots>>
        /\ \A f \in Files : Preferred({n \in S : FileOf[n] = f}, {n \in gathered : FileOf[n] = f},
                                      roots, maxPerFile)
    BY <1>12 DEF CapFiles
  <2>2. Cardinality(gathered') <= maxNodes
    BY <1>5, <2>1 DEF ContextKept
  <2>3. ASSUME EntriesFit, NEW r \in roots PROVE r \in S
    <3>1. r \in gathered /\ r \in Nodes /\ FileOf[r] \in Files
      BY <1>1, <2>3 DEF ContextKept, Files
    <3> DEFINE f == FileOf[r]
               of == {n \in gathered : FileOf[n] = f}
               mine == {n \in entry : FileOf[n] = f}
               kept == {n \in S : FileOf[n] = f}
    <3>2. Preferred(kept, of, roots, maxPerFile)
      BY <2>1, <3>1
    <3>3. of \in SUBSET Nodes /\ roots \in SUBSET Nodes /\ mine \in SUBSET Nodes
      BY <1>1
    <3>4. \A T \in SUBSET roots : T \subseteq of => Cardinality(T) <= maxPerFile
      <4>1. IsFiniteSet(mine) /\ Cardinality(mine) \in Nat /\ Cardinality(mine) <= maxPerFile
        BY <2>3, <3>1, <3>3, CardinalitiesTyped DEF EntriesFit
      <4>2. \A T \in SUBSET mine : Cardinality(T) <= Cardinality(mine) /\ Cardinality(T) \in Nat
        BY <3>3, <4>1, FS_Subset, CardinalitiesTyped
      <4>3. \A T \in SUBSET roots : T \subseteq of => T \in SUBSET mine
        BY <1>1
      <4>4. QED
        BY <1>1, <4>1, <4>2, <4>3
    <3>5. {r} \in SUBSET (of \cap roots)
      BY <2>3, <3>1
    <3> HIDE DEF of, kept
    <3>6. {r} \subseteq kept
      <4>1. maxPerFile \in Nat
        BY <1>1
      <4>2. \A R \in SUBSET (of \cap roots) : R \subseteq kept
        BY <3>2, <3>3, <3>4, <4>1, FirstOnesKept
      <4>3. QED
        BY <3>5, <4>2
    <3>7. QED
      BY <3>6 DEF kept
  <2>4. QED
    BY <1>4, <2>1, <2>2, <2>3 DEF ContextKept
<1>13. ASSUME NEW S \in SUBSET Nodes, CapTests(S) PROVE ContextKept'
  <2>1. /\ stage = "tests" /\ stage' = "edges" /\ gathered' = gathered \ S /\ roots' = roots \ S
        /\ UNCHANGED <<entry, links>>
    BY <1>13 DEF CapTests
  <2>2. gathered \ S \in SUBSET gathered
    OBVIOUS
  <2>3. Cardinality(gathered') <= maxNodes
    BY <1>5, <2>1, <2>2 DEF ContextKept
  <2>4. QED
    BY <1>4, <2>1, <2>3 DEF ContextKept
<1>14. CASE FilterEdges
  <2>1. /\ stage = "edges" /\ stage' = "done" /\ UNCHANGED <<entry, gathered, roots>>
        /\ \A e \in links' : Ends(e) \subseteq gathered
    BY <1>14 DEF FilterEdges, EdgesLeft
  <2>2. UNION {Ends(e) : e \in links'} \subseteq gathered'
    BY <2>1
  <2>3. QED
    BY <1>4, <2>1, <2>2 DEF ContextKept, Ends
<1>15. CASE ContextReturned
  BY <1>15 DEF ContextReturned, ContextKept
<1>16. CASE ContextStep
  BY <1>8, <1>9, <1>10, <1>11, <1>12, <1>13, <1>14, <1>15, <1>16 DEF ContextStep
<1>17. QED
  BY <1>6, <1>7, <1>16 DEF Next, Insert, Searching, Collecting, Tracing, vars

\* Nothing runs in an initial state.
LEMMA ShapeInit ==
    Init => SearchShape /\ ContextShape /\ ContextKept
<1>1. SUFFICES ASSUME Init PROVE SearchShape /\ ContextShape /\ ContextKept
  OBVIOUS
<1>2. AtRest /\ edges = {} /\ ContextAtRest
  BY <1>1 DEF Init, SearchInit
<1>3. SearchTypeOK
  BY <1>2 DEF AtRest, SearchTypeOK
<1>4. Phases /\ FramesOwn
  BY <1>2 DEF AtRest, Phases, FramesOwn, BreadthFirst
<1>5. ContextShape /\ ContextKept
  BY <1>2 DEF ContextAtRest, ContextShape, ContextTypeOK, ContextKept, Stages
<1>6. QED
  BY <1>3, <1>4, <1>5 DEF SearchShape

\* A context has no more nodes than asked for, no edge that leads out of it, and the
\* entry points that it names, whatever the caps evict (context/index.ts:934-1141).
THEOREM ContextsAreClosed == Spec => []ContextIsClosed
<1>1. Init => SearchShape /\ ContextShape /\ ContextKept
  BY ShapeInit
<1>2. SearchShape /\ ContextShape /\ ContextKept /\ [Next]_vars
        => (SearchShape /\ ContextShape /\ ContextKept)'
  BY SearchShapeKept, ContextShapeKept, ContextKeptNext
<1>3. ContextKept => ContextIsClosed
  BY DEF ContextKept, ContextIsClosed, EntriesFit
<1>4. QED
  BY <1>1, <1>2, <1>3, PTL DEF Spec

-----------------------------------------------------------------------------
(* Circles of files.                                                        *)

deps(f) == getDependencyFilePaths(f)

\* The files whose dfs has returned
Done == traced \ {calls[i].file : i \in 1..Len(calls)}

IsCircle(c) ==
    /\ Len(c) > 0
    /\ \A i, j \in 1..Len(c) : c[i] = c[j] => i = j
    /\ \A i \in 1..Len(c) : (IF i = Len(c) THEN c[1] ELSE c[i + 1]) \in deps(c[i])

\* The files on the recursion stack are a path of dependencies.
CallsArePath ==
    /\ \A i \in 1..Len(calls) : calls[i].file \in traced /\ calls[i].rest \subseteq deps(calls[i].file)
    /\ \A i, j \in 1..Len(calls) : calls[i].file = calls[j].file => i = j
    /\ \A i \in 1..Len(calls) : i # Len(calls) => calls[i + 1].file \in deps(calls[i].file)

CycleShape ==
    /\ CycleTypeOK /\ CallsArePath
    /\ ~looking => starts = {} /\ calls = <<>> /\ traced = {} /\ cycles = {}
    /\ looking => Files \subseteq starts \cup traced

\* As long as nothing is reported: what a file that is done depends on is done,
\* and so is what a file on the stack depends on, but what is to come and the
\* next file on the stack; and no part of what is done is a knot.
NoKnot ==
    /\ \A f \in Done : deps(f) \subseteq Done
    /\ \A i \in 1..Len(calls) : \A g \in deps(calls[i].file) :
          \/ g \in calls[i].rest \/ g \in Done
          \/ i # Len(calls) /\ g = calls[i + 1].file
    /\ \A S \in SUBSET Done : S # {} => \E f \in S : deps(f) \cap S = {}

CyclesKept ==
    /\ \A c \in cycles : IsCircle(c)
    /\ cycles = {} => NoKnot

\* A file depends on other files.
LEMMA DependenciesTyped ==
    ASSUME edges \in SUBSET Rows, NEW f
    PROVE  deps(f) \in SUBSET Files /\ f \notin deps(f)
BY GraphAssumption DEF deps, getDependencyFilePaths, Files

\* As long as the table stays as it is, the dependencies are the same.
LEMMA DependenciesSame ==
    ASSUME edges' = edges
    PROVE  /\ \A f : deps(f)' = deps(f) /\ getDependencyFilePaths(f)' = getDependencyFilePaths(f)
           /\ \A c : IsCircle(c)' <=> IsCircle(c)
<1>1. \A f : deps(f)' = deps(f) /\ getDependencyFilePaths(f)' = getDependencyFilePaths(f)
  BY DEF deps, getDependencyFilePaths
<1>2. QED
  BY <1>1 DEF IsCircle

Called == [file : Files, rest : SUBSET Files]

\* dfs is called for a file that was not visited.
LEMMA EnterIs ==
    ASSUME CycleShape, edges \in SUBSET Rows, NEW f \in Files, NEW under \in Seq(Called), Enter(f, under),
           NEW n \in Nat, Len(under) = n
    PROVE  /\ calls' \in Seq(Called) /\ Len(calls') = n + 1
           /\ \A i \in 1..n : calls'[i] = under[i]
           /\ calls'[n + 1].file = f /\ calls'[n + 1].rest = deps(f)
           /\ traced' = traced \cup {f}
<1>1. deps(f) \in SUBSET Files
  BY DependenciesTyped
<1>2. calls' = Append(under, [file |-> f, rest |-> deps(f)]) /\ traced' = traced \cup {f}
  BY DEF Enter, deps
<1>3. [file |-> f, rest |-> deps(f)] \in Called
  BY <1>1 DEF Called
<1>4. QED
  BY <1>2, <1>3

\* A round of the outer loop keeps the invariant of the circles.
LEMMA NextFileKept ==
    ASSUME CycleShape, CyclesKept, edges \in SUBSET Rows, edges' = edges, NEW f \in Files, NextFile(f)
    PROVE  CycleShape' /\ CyclesKept'
<1>1. /\ looking /\ calls = <<>> /\ f \in starts /\ starts' = starts \ {f}
      /\ UNCHANGED <<looking, cycles>>
      /\ IF f \in traced THEN UNCHANGED <<calls, traced>> ELSE Enter(f, <<>>)
  BY DEF NextFile
<1>2. CASE f \in traced
  <2>1. UNCHANGED <<calls, traced>>
    BY <1>1, <1>2
  <2>2. CycleShape'
    BY <1>1, <1>2, <2>1 DEF CycleShape, CycleTypeOK, CallsArePath
  <2>3. Done' = Done
    BY <2>1 DEF Done
  <2>4. CyclesKept'
    BY <1>1, <2>1, <2>3, DependenciesSame DEF CyclesKept, NoKnot
  <2>5. QED
    BY <2>2, <2>4
<1>3. CASE f \notin traced
  <2>1. <<>> \in Seq(Called) /\ Len(<<>>) = 0
    OBVIOUS
  <2>2. /\ calls' \in Seq(Called) /\ Len(calls') = 1
        /\ calls'[1].file = f /\ calls'[1].rest = deps(f) /\ traced' = traced \cup {f}
    <3>1. Enter(f, <<>>) /\ 0 \in Nat
      BY <1>1, <1>3
    <3>2. /\ calls' \in Seq(Called) /\ Len(calls') = 0 + 1
          /\ calls'[0 + 1].file = f /\ calls'[0 + 1].rest = deps(f) /\ traced' = traced \cup {f}
      BY <2>1, <3>1, EnterIs
    <3>3. QED
      BY <3>2
  <2>3. \A i \in 1..Len(calls') : i = 1
    BY <2>2
  <2>4. CallsArePath'
    BY <2>2, <2>3, DependenciesSame DEF CallsArePath
  <2>5. CycleShape'
    <3>1. CycleTypeOK'
      BY <1>1, <2>2 DEF CycleShape, CycleTypeOK, Called
    <3>2. QED
      BY <1>1, <2>2, <2>4, <3>1 DEF CycleShape
  <2>6. Done' = Done
    <3>1. Done = traced
      BY <1>1 DEF Done
    <3>2. {calls'[i].file : i \in 1..Len(calls')} = {f}
      BY <2>2, <2>3
    <3>3. QED
      BY <1>3, <2>2, <3>1, <3>2 DEF Done
  <2>7. CyclesKept'
    BY <1>1, <2>2, <2>3, <2>6, DependenciesSame DEF CyclesKept, NoKnot
  <2>8. QED
    BY <2>5, <2>7
<1>4. QED
  BY <1>2, <1>3

\* What is cut out of the path where the recursion stack meets itself is a circle.
LEMMA CircleFound ==
    ASSUME CycleShape, NEW i \in 1..Len(calls), calls[i].file \in deps(calls[Len(calls)].file)
    PROVE  /\ SubSeq(Path, i, Len(calls)) \in Seq(Files)
           /\ IsCircle(SubSeq(Path, i, Len(calls)))
<1> DEFINE n == Len(calls)
           c == SubSeq(Path, i, n)
           m == n - i + 1
<1>1. calls \in Seq(Called) /\ n \in Nat /\ i \in Nat /\ i <= n /\ DOMAIN calls = 1..n
  BY DEF CycleShape, CycleTypeOK, Called
<1>2. \A k \in 1..n : calls[k] \in Called /\ calls[k].file \in Files
  <2>1. \A k \in 1..n : calls[k] \in Called
    BY <1>1
  <2>2. QED
    BY <2>1 DEF Called
<1>3. Path = [k \in 1..n |-> calls[k].file]
  BY <1>1 DEF Path
<1>4. \A k \in i..n : Path[k] \in Files /\ Path[k] = calls[k].file
  BY <1>1, <1>2, <1>3
<1>5. n \in Int /\ i \in Int /\ m \in Nat \ {0}
  BY <1>1
<1> HIDE DEF n
<1>6. /\ c \in Seq(Files) /\ Len(c) = m
      /\ \A k \in 1..m : c[k] = Path[i + k - 1]
  BY <1>1, <1>4, <1>5, SubSeqProperties
<1> HIDE DEF c
<1>7. \A k \in 1..m : /\ i + k - 1 \in i..n /\ i + k - 1 \in 1..n
                      /\ c[k] = calls[i + k - 1].file
                      /\ k = m <=> i + k - 1 = n
  BY <1>1, <1>4, <1>6
<1>8. /\ \A k, l \in 1..n : calls[k].file = calls[l].file => k = l
      /\ \A k \in 1..n : k # n => calls[k + 1].file \in deps(calls[k].file)
      /\ calls[i].file \in deps(calls[n].file)
  BY DEF CycleShape, CallsArePath, n
<1>9. ASSUME NEW k \in 1..m, NEW l \in 1..m, c[k] = c[l] PROVE k = l
  <2>1. i + k - 1 = i + l - 1
    BY <1>7, <1>8, <1>9
  <2>2. QED
    BY <1>1, <2>1
<1>10. ASSUME NEW k \in 1..m PROVE (IF k = m THEN c[1] ELSE c[k + 1]) \in deps(c[k])
  <2>1. CASE k = m
    <3>1. 1 \in 1..m /\ i + 1 - 1 = i
      BY <1>1, <1>5
    <3>2. c[1] = calls[i].file
      BY <1>7, <3>1
    <3>3. c[k] = calls[n].file
      BY <1>7, <2>1
    <3>4. QED
      BY <1>8, <2>1, <3>2, <3>3
  <2>2. CASE k # m
    <3>1. k + 1 \in 1..m /\ i + (k + 1) - 1 = (i + k - 1) + 1
      BY <1>1, <1>5, <2>2
    <3>2. c[k + 1] = calls[(i + k - 1) + 1].file
      BY <1>7, <3>1
    <3>3. i + k - 1 \in 1..n /\ i + k - 1 # n /\ c[k] = calls[i + k - 1].file
      BY <1>7, <2>2
    <3>4. QED
      BY <1>8, <2>2, <3>2, <3>3
  <2>3. QED
    BY <2>1, <2>2
<1>11. c \in Seq(Files) /\ IsCircle(c)
  <2>1. Len(c) > 0
    BY <1>5, <1>6
  <2> HIDE DEF m
  <2>2. QED
    BY <1>6, <1>9, <1>10, <2>1 DEF IsCircle
<1>12. QED
  BY <1>11 DEF c, n

\* The calls, with one dependency followed.
LEMMA UnderIs ==
    ASSUME CycleShape, calls # <<>>, NEW g
    PROVE  LET n == Len(calls)
               under == [calls EXCEPT ![n].rest = @ \ {g}]
           IN  /\ n \in Nat \ {0} /\ n \in 1..n
               /\ under \in Seq(Called) /\ Len(under) = n
               /\ \A i \in 1..n : under[i].file = calls[i].file
               /\ \A i \in 1..n : i # n => under[i].rest = calls[i].rest
               /\ under[n].rest = calls[n].rest \ {g}
<1> DEFINE n == Len(calls)
           c == [calls[n] EXCEPT !.rest = @ \ {g}]
           under == [calls EXCEPT ![n].rest = @ \ {g}]
<1>1. calls \in Seq(Called)
  BY DEF CycleShape, CycleTypeOK, Called
<1>2. n \in Nat \ {0} /\ n \in 1..n /\ calls[n] \in Called
  BY <1>1
<1>3. c \in Called /\ c.file = calls[n].file /\ c.rest = calls[n].rest \ {g}
  BY <1>2 DEF Called
<1>4. under = [calls EXCEPT ![n] = c]
  OBVIOUS
<1> HIDE DEF c, under
<1>5. under \in Seq(Called) /\ Len(under) = n /\ \A i \in 1..n : under[i] = IF i = n THEN c ELSE calls[i]
  BY <1>1, <1>2, <1>3, <1>4
<1>6. /\ \A i \in 1..n : under[i].file = calls[i].file
      /\ \A i \in 1..n : i # n => under[i].rest = calls[i].rest
      /\ under[n].rest = calls[n].rest \ {g}
  BY <1>2, <1>3, <1>5
<1>7. QED
  BY <1>2, <1>5, <1>6 DEF under

\* The recursion stack is a path, if its files are.
LEMMA CallsArePathKept ==
    ASSUME edges' = edges, NEW n, Len(calls') = n,
           \A i \in 1..n : calls'[i].file \in traced' /\ calls'[i].rest \subseteq deps(calls'[i].file),
           \A i, j \in 1..n : calls'[i].file = calls'[j].file => i = j,
           \A i \in 1..n : i # n => calls'[i + 1].file \in deps(calls'[i].file)
    PROVE  CallsArePath'
BY DependenciesSame DEF CallsArePath

\* A call of dfs keeps it: a file on the recursion stack closes a circle.
LEMMA FollowKept ==
    ASSUME CycleShape, CyclesKept, edges \in SUBSET Rows, edges' = edges, NEW g \in Files, Follow(g)
    PROVE  CycleShape' /\ CyclesKept'
<1> DEFINE n == Len(calls)
           under == [calls EXCEPT ![n].rest = @ \ {g}]
<1>1. /\ calls # <<>> /\ g \in calls[n].rest /\ UNCHANGED <<looking, starts>>
      /\ IF OnStack(g)
         THEN /\ \E i \in {j \in DOMAIN calls : calls[j].file = g} :
                   cycles' = cycles \cup {SubSeq(Path, i, n)}
              /\ calls' = under /\ UNCHANGED traced
         ELSE /\ IF g \in traced THEN calls' = under /\ UNCHANGED traced ELSE Enter(g, under)
              /\ UNCHANGED cycles
  BY DEF Follow
<1>2. /\ n \in Nat \ {0} /\ n \in 1..n
      /\ under \in Seq(Called) /\ Len(under) = n
      /\ \A i \in 1..n : under[i].file = calls[i].file
      /\ \A i \in 1..n : i # n => under[i].rest = calls[i].rest
      /\ under[n].rest = calls[n].rest \ {g}
  BY <1>1, UnderIs
<1> HIDE DEF under
<1>3. calls \in Seq(Called) /\ DOMAIN calls = 1..n /\ CycleTypeOK /\ CallsArePath /\ looking
  BY <1>1 DEF CycleShape, CycleTypeOK, Called
<1> HIDE DEF n
<1>4. /\ \A i \in 1..n : calls[i].file \in traced /\ calls[i].rest \subseteq deps(calls[i].file)
      /\ \A i, j \in 1..n : calls[i].file = calls[j].file => i = j
      /\ \A i \in 1..n : i # n => calls[i + 1].file \in deps(calls[i].file)
      /\ OnStack(g) <=> \E i \in 1..n : calls[i].file = g
  BY <1>3 DEF CallsArePath, OnStack, n
<1>5. g \in deps(calls[n].file)
  BY <1>1, <1>2, <1>4
<1>6. Files \subseteq starts \cup traced
  BY <1>3 DEF CycleShape
<1>7. Done = traced \ {calls[i].file : i \in 1..n}
  BY DEF Done, n
<1>8. NoKnot => /\ \A f \in Done : deps(f) \subseteq Done
                /\ \A i \in 1..n : \A h \in deps(calls[i].file) :
                      h \in calls[i].rest \/ h \in Done \/ (i # n /\ h = calls[i + 1].file)
                /\ \A S \in SUBSET Done : S # {} => \E f \in S : deps(f) \cap S = {}
  BY DEF NoKnot, n
<1>9. cycles \in SUBSET Seq(Files) /\ (\A c \in cycles : IsCircle(c)) /\ (cycles = {} => NoKnot)
  BY <1>3 DEF CycleTypeOK, CyclesKept
<1>10. CASE calls' = under /\ UNCHANGED traced
  <2>1. Len(calls') = n /\ calls' \in Seq(Called)
    BY <1>2, <1>10
  <2>2. CallsArePath'
    <3>1. \A i \in 1..n : i # n => i + 1 \in 1..n
      BY <1>2
    <3>2. \A i \in 1..n : calls'[i].file = calls[i].file /\ calls'[i].rest \subseteq calls[i].rest
      BY <1>2, <1>10
    <3>3. /\ \A i \in 1..n : calls'[i].file \in traced' /\ calls'[i].rest \subseteq deps(calls'[i].file)
          /\ \A i, j \in 1..n : calls'[i].file = calls'[j].file => i = j
          /\ \A i \in 1..n : i # n => calls'[i + 1].file \in deps(calls'[i].file)
      BY <1>4, <1>10, <3>1, <3>2
    <3>4. QED
      BY <2>1, <3>3, CallsArePathKept
  <2>3. Done' = Done
    BY <1>2, <1>7, <1>10 DEF Done
  <2>4. ASSUME cycles' \in SUBSET Seq(Files) PROVE CycleShape'
    BY <1>1, <1>3, <1>6, <1>10, <2>1, <2>2, <2>4 DEF CycleShape, CycleTypeOK, Called
  <2>5. CASE OnStack(g)
    <3>1. PICK i \in 1..n : calls[i].file = g /\ cycles' = cycles \cup {SubSeq(Path, i, n)}
      BY <1>1, <1>3, <2>5
    <3>2. SubSeq(Path, i, n) \in Seq(Files) /\ IsCircle(SubSeq(Path, i, n))
      BY <1>5, <3>1, CircleFound DEF n
    <3> DEFINE c == SubSeq(Path, i, n)
    <3> HIDE DEF c
    <3>3. cycles' = cycles \cup {c} /\ c \in Seq(Files) /\ IsCircle(c)
      BY <3>1, <3>2 DEF c
    <3>4. CyclesKept'
      BY <1>9, <3>3, DependenciesSame DEF CyclesKept
    <3>5. QED
      BY <1>9, <2>4, <3>3, <3>4
  <2>6. CASE ~OnStack(g)
    <3>1. g \in traced /\ cycles' = cycles
      <4>1. CASE g \in traced
        BY <1>1, <2>6, <4>1
      <4>2. CASE g \notin traced
        <5>1. Enter(g, under)
          BY <1>1, <2>6, <4>2
        <5>2. Len(calls') = n + 1
          BY <1>2, <5>1, EnterIs
        <5>3. QED
          BY <1>2, <2>1, <5>2
      <4>3. QED
        BY <4>1, <4>2
    <3>2. g \in Done
      BY <1>4, <1>7, <2>6, <3>1
    <3>3. ASSUME NoKnot PROVE NoKnot'
      <4>1. \A i \in 1..n : \A h \in deps(calls'[i].file) :
               h \in calls'[i].rest \/ h \in Done \/ (i # n /\ h = calls'[i + 1].file)
        <5>1. ASSUME NEW i \in 1..n, NEW h \in deps(calls[i].file)
              PROVE  h \in calls'[i].rest \/ h \in Done \/ (i # n /\ h = calls'[i + 1].file)
          <6>1. h \in calls[i].rest \/ h \in Done \/ (i # n /\ h = calls[i + 1].file)
            BY <1>8, <3>3, <5>1
          <6>2. i # n => i + 1 \in 1..n
            BY <1>2
          <6>3. QED
            BY <1>2, <1>10, <3>2, <6>1, <6>2
        <5>2. QED
          BY <1>2, <1>10, <5>1
      <4>2. QED
        BY <1>8, <2>1, <2>3, <3>3, <4>1, DependenciesSame DEF NoKnot
    <3>4. CyclesKept'
      BY <1>9, <3>1, <3>3, DependenciesSame DEF CyclesKept
    <3>5. QED
      BY <1>9, <2>4, <3>1, <3>4
  <2>7. QED
    BY <2>5, <2>6
<1>11. CASE g \notin traced
  <2>1. ~OnStack(g)
    BY <1>4, <1>11
  <2>2. Enter(g, under) /\ cycles' = cycles
    BY <1>1, <1>11, <2>1
  <2>3. /\ calls' \in Seq(Called) /\ Len(calls') = n + 1
        /\ \A i \in 1..n : calls'[i] = under[i]
        /\ calls'[n + 1].file = g /\ calls'[n + 1].rest = deps(g)
        /\ traced' = traced \cup {g}
    BY <1>2, <2>2, EnterIs
  <2>4. \A i \in 1..(n + 1) : i \in 1..n \/ i = n + 1
    BY <1>2
  <2>5. /\ \A i \in 1..n : calls'[i].file = calls[i].file /\ calls'[i].rest \subseteq calls[i].rest
        /\ \A i \in 1..n : calls[i].rest \subseteq calls'[i].rest \cup (IF i = n THEN {g} ELSE {})
    BY <1>2, <2>3
  <2>6. CallsArePath'
    <3>1. \A i \in 1..(n + 1) : calls'[i].file \in traced' /\ calls'[i].rest \subseteq deps(calls'[i].file)
      BY <1>4, <2>3, <2>4, <2>5
    <3>2. \A i, j \in 1..(n + 1) : calls'[i].file = calls'[j].file => i = j
      BY <1>4, <1>11, <2>3, <2>4, <2>5
    <3>3. ASSUME NEW i \in 1..(n + 1), i # n + 1 PROVE calls'[i + 1].file \in deps(calls'[i].file)
      <4>1. i \in 1..n /\ (i # n => i + 1 \in 1..n)
        BY <1>2, <3>3
      <4>2. CASE i = n
        BY <1>5, <2>3, <2>5, <4>1, <4>2
      <4>3. CASE i # n
        BY <1>4, <2>5, <4>1, <4>3
      <4>4. QED
        BY <4>2, <4>3
    <3>4. QED
      BY <2>3, <3>1, <3>2, <3>3, DependenciesSame DEF CallsArePath
  <2>7. CycleShape'
    BY <1>1, <1>3, <1>6, <2>2, <2>3, <2>6 DEF CycleShape, CycleTypeOK, Called
  <2>8. Done' = Done
    <3>1. {calls'[i].file : i \in 1..(n + 1)} = {calls[i].file : i \in 1..n} \cup {g}
      <4>1. \A i \in 1..n : i \in 1..(n + 1)
        BY <1>2
      <4>2. n + 1 \in 1..(n + 1)
        BY <1>2
      <4>3. QED
        BY <2>3, <2>4, <2>5, <4>1, <4>2
    <3>2. QED
      BY <1>7, <1>11, <2>3, <3>1 DEF Done
  <2>9. ASSUME NoKnot PROVE NoKnot'
    <3>1. ASSUME NEW i \in 1..(n + 1), NEW h \in deps(calls'[i].file)
          PROVE  h \in calls'[i].rest \/ h \in Done \/ (i # n + 1 /\ h = calls'[i + 1].file)
      <4>1. CASE i = n + 1
        BY <2>3, <3>1, <4>1
      <4>2. CASE i \in 1..n
        <5>1. h \in calls[i].rest \/ h \in Done \/ (i # n /\ h = calls[i + 1].file)
          BY <1>8, <2>5, <2>9, <3>1, <4>2
        <5>2. (i # n => i + 1 \in 1..n) /\ i # n + 1
          BY <1>2, <4>2
        <5>3. CASE h \in calls[i].rest
          BY <2>3, <2>5, <4>2, <5>2, <5>3
        <5>4. CASE i # n /\ h = calls[i + 1].file
          BY <2>5, <5>2, <5>4
        <5>5. QED
          BY <5>1, <5>3, <5>4
      <4>3. QED
        BY <2>4, <4>1, <4>2
    <3>2. QED
      BY <1>8, <2>3, <2>8, <2>9, <3>1, DependenciesSame DEF NoKnot
  <2>10. CyclesKept'
    BY <1>9, <2>2, <2>9, DependenciesSame DEF CyclesKept
  <2>11. QED
    BY <2>7, <2>10
<1>12. QED
  BY <1>1, <1>10, <1>11

\* The return from dfs keeps it: the file is done, and depends on none that is not.
LEMMA ReturnFromDfsKept ==
    ASSUME CycleShape, CyclesKept, edges \in SUBSET Rows, edges' = edges, ReturnFromDfs
    PROVE  CycleShape' /\ CyclesKept'
<1> DEFINE n == Len(calls)
           f == calls[n].file
           m == n - 1
<1>1. /\ calls # <<>> /\ calls[n].rest = {} /\ calls' = SubSeq(calls, 1, n - 1)
      /\ UNCHANGED <<looking, starts, traced, cycles>>
  BY DEF ReturnFromDfs
<1>2. calls \in Seq(Called) /\ CycleTypeOK /\ CallsArePath /\ looking
  BY <1>1 DEF CycleShape, CycleTypeOK, Called
<1>3. n \in Nat \ {0} /\ m \in Nat /\ n \in 1..n /\ n = m + 1 /\ \A i \in 1..m : i \in 1..n /\ i # n
  BY <1>1, <1>2
<1>4. /\ calls' \in Seq(Called) /\ Len(calls') = m
      /\ \A i \in 1..m : calls'[i] = calls[i]
  <2>1. m - 1 + 1 = m /\ (1 <= m \/ m = 0) /\ \A i \in 1..m : calls[i] \in Called /\ 1 + i - 1 = i
    <3> HIDE DEF m, n
    <3>1. m - 1 + 1 = m /\ (1 <= m \/ m = 0) /\ \A i \in 1..m : 1 + i - 1 = i
      BY <1>3
    <3>2. \A i \in 1..n : calls[i] \in Called
      BY <1>2 DEF n
    <3>3. QED
      BY <1>3, <3>1, <3>2
  <2>2. calls' = SubSeq(calls, 1, m)
    BY <1>1
  <2> HIDE DEF m, n
  <2>3. /\ SubSeq(calls, 1, m) \in Seq(Called)
        /\ Len(SubSeq(calls, 1, m)) = IF 1 <= m THEN m - 1 + 1 ELSE 0
        /\ \A i \in 1..(m - 1 + 1) : SubSeq(calls, 1, m)[i] = calls[1 + i - 1]
    BY <1>3, <2>1, SubSeqProperties
  <2>4. QED
    BY <1>3, <2>1, <2>2, <2>3
<1>5. /\ \A i \in 1..n : calls[i].file \in traced /\ calls[i].rest \subseteq deps(calls[i].file)
      /\ \A i, j \in 1..n : calls[i].file = calls[j].file => i = j
      /\ \A i \in 1..n : i # n => calls[i + 1].file \in deps(calls[i].file)
  BY <1>2 DEF CallsArePath
<1>6. Done = traced \ {calls[i].file : i \in 1..n} /\ Files \subseteq starts \cup traced
  BY <1>2 DEF Done, CycleShape
<1>7. NoKnot => /\ \A h \in Done : deps(h) \subseteq Done
                /\ \A i \in 1..n : \A h \in deps(calls[i].file) :
                      h \in calls[i].rest \/ h \in Done \/ (i # n /\ h = calls[i + 1].file)
                /\ \A S \in SUBSET Done : S # {} => \E h \in S : deps(h) \cap S = {}
  BY DEF NoKnot
<1>8. cycles \in SUBSET Seq(Files) /\ (\A c \in cycles : IsCircle(c)) /\ (cycles = {} => NoKnot)
  BY <1>2 DEF CycleTypeOK, CyclesKept
<1>9. f \in traced /\ f \notin deps(f)
  BY <1>3, <1>5, DependenciesTyped
<1> HIDE DEF n, m
<1>10. CallsArePath'
  <2>1. \A i \in 1..m : i # m => i + 1 \in 1..m
    BY <1>3
  <2>2. /\ \A i \in 1..m : calls'[i].file \in traced' /\ calls'[i].rest \subseteq deps(calls'[i].file)
        /\ \A i, j \in 1..m : calls'[i].file = calls'[j].file => i = j
        /\ \A i \in 1..m : i # m => calls'[i + 1].file \in deps(calls'[i].file)
    BY <1>1, <1>3, <1>4, <1>5, <2>1
  <2>3. QED
    BY <1>4, <2>2, CallsArePathKept
<1>11. CycleShape'
  BY <1>1, <1>2, <1>4, <1>6, <1>10 DEF CycleShape, CycleTypeOK, Called
<1>12. f \notin Done /\ Done' = Done \cup {f}
  <2>1. \A i \in 1..n : i \in 1..m \/ i = n
    BY <1>3
  <2>2. {calls[i].file : i \in 1..n} = {calls'[i].file : i \in 1..m} \cup {f}
    BY <1>3, <1>4, <2>1
  <2>3. f \notin {calls'[i].file : i \in 1..m}
    BY <1>3, <1>4, <1>5, SMTT(30)
  <2>4. Done' = traced \ {calls'[i].file : i \in 1..m}
    BY <1>1, <1>4 DEF Done
  <2> HIDE DEF f
  <2>5. QED
    BY <1>6, <1>9, <2>2, <2>3, <2>4
<1>13. ASSUME NoKnot PROVE NoKnot'
  <2>1. deps(f) \subseteq Done
    BY <1>1, <1>3, <1>7, <1>13 DEF n
  <2>2. ASSUME NEW i \in 1..m, NEW h \in deps(calls'[i].file)
        PROVE  h \in calls'[i].rest \/ h \in Done' \/ (i # m /\ h = calls'[i + 1].file)
    <3>1. h \in calls[i].rest \/ h \in Done \/ h = calls[i + 1].file
      BY <1>3, <1>4, <1>7, <1>13, <2>2
    <3>2. CASE i = m
      BY <1>3, <1>4, <1>12, <3>1, <3>2
    <3>3. CASE i # m
      <4>1. i + 1 \in 1..m
        BY <1>3, <3>3
      <4>2. QED
        BY <1>4, <1>12, <3>1, <3>3, <4>1
    <3>4. QED
      BY <3>2, <3>3
  <2>3. ASSUME NEW S \in SUBSET (Done \cup {f}), S # {} PROVE \E h \in S : deps(h) \cap S = {}
    <3> HIDE DEF f
    <3>1. CASE f \notin S
      <4>1. S \in SUBSET Done
        BY <3>1
      <4>2. QED
        BY <1>7, <1>13, <2>3, <4>1
    <3>2. CASE S = {f}
      BY <1>9, <3>2
    <3>3. CASE f \in S /\ S # {f}
      <4>1. S \ {f} \in SUBSET Done /\ S \ {f} # {}
        BY <3>3
      <4>2. PICK h \in S \ {f} : deps(h) \cap (S \ {f}) = {}
        BY <1>7, <1>13, <4>1
      <4>3. f \notin deps(h)
        BY <1>7, <1>12, <1>13, <4>1
      <4>4. deps(h) \cap S = {}
        BY <4>2, <4>3
      <4>5. QED
        BY <4>4
    <3>4. QED
      BY <3>1, <3>2, <3>3
  <2>4. \A h \in Done' : deps(h) \subseteq Done'
    BY <1>7, <1>12, <1>13, <2>1
  <2>5. QED
    BY <1>4, <1>12, <2>2, <2>3, <2>4, DependenciesSame DEF NoKnot
<1>14. CyclesKept'
  BY <1>1, <1>8, <1>13, DependenciesSame DEF CyclesKept
<1>15. QED
  BY <1>11, <1>14

\* Before a search for circles has looked at a file, and when none runs
LEMMA NothingTraced ==
    ASSUME calls' = <<>>, traced' = {}, cycles' = {},
           \/ starts' = Files /\ looking' = TRUE
           \/ starts' = {} /\ looking' = FALSE
    PROVE  CycleShape' /\ CyclesKept'
<1>1. Done' = {}
  BY DEF Done
<1>2. CallsArePath' /\ NoKnot'
  BY <1>1 DEF CallsArePath, NoKnot
<1>3. Files' = Files
  BY DEF Files
<1>4. CycleTypeOK'
  <2>1. <<>> \in Seq(Called)
    OBVIOUS
  <2>2. calls' \in Seq(Called) /\ starts' \subseteq Files /\ looking' \in BOOLEAN
    BY <2>1
  <2>3. QED
    BY <1>3, <2>2 DEF CycleTypeOK, Called
<1>5. QED
  BY <1>2, <1>3, <1>4 DEF CycleShape, CyclesKept

\* Every step of Traversal keeps it.
LEMMA CyclesKeptNext ==
    ASSUME CycleShape, CyclesKept, edges \in SUBSET Rows, [Next]_vars
    PROVE  CycleShape' /\ CyclesKept'
<1>1. CASE UNCHANGED cycleVars /\ edges' = edges
  <2>1. UNCHANGED <<looking, starts, calls, traced, cycles>> /\ Done' = Done
    BY <1>1 DEF cycleVars, Done
  <2>2. CallsArePath' /\ CyclesKept'
    BY <1>1, <2>1, DependenciesSame DEF CycleShape, CallsArePath, CyclesKept, NoKnot
  <2>3. QED
    BY <2>1, <2>2 DEF CycleShape, CycleTypeOK
<1>2. CASE UNCHANGED cycleVars /\ ~looking
  <2>1. UNCHANGED <<looking, starts, calls, traced, cycles>>
    BY <1>2 DEF cycleVars
  <2>2. starts' = {} /\ calls' = <<>> /\ traced' = {} /\ cycles' = {} /\ looking' = FALSE
    BY <1>2, <2>1 DEF CycleShape, CycleTypeOK
  <2>3. QED
    BY <2>2, NothingTraced
<1>3. CASE findCircularDependencies /\ ~looking
  <2>1. starts' = Files /\ calls' = <<>> /\ traced' = {} /\ cycles' = {} /\ looking' = TRUE
    BY <1>3 DEF CycleShape, findCircularDependencies
  <2>2. QED
    BY <2>1, NothingTraced
<1>4. CASE CyclesReturned
  <2>1. starts' = {} /\ calls' = <<>> /\ traced' = {} /\ cycles' = {} /\ looking' = FALSE
    BY <1>4 DEF CyclesReturned, AllLookedAt
  <2>2. QED
    BY <2>1, NothingTraced
<1>5. CASE CycleStep /\ edges' = edges
  BY <1>5, NextFileKept, FollowKept, ReturnFromDfsKept DEF CycleStep
<1>6. Insert => UNCHANGED cycleVars /\ ~looking
  BY DEF Insert, Quiet
<1>7. Searching \/ Collecting \/ UNCHANGED vars => UNCHANGED cycleVars /\ edges' = edges
  BY DEF Searching, Collecting, vars
<1>8. Tracing => edges' = edges /\ ((findCircularDependencies /\ ~looking) \/ CycleStep \/ CyclesReturned)
  BY DEF Tracing, Quiet
<1>9. QED
  BY <1>1, <1>2, <1>3, <1>4, <1>5, <1>6, <1>7, <1>8 DEF Next

\* When every file has been looked at, the circles are what the definition says.
LEMMA CyclesExact ==
    ASSUME CycleShape, CyclesKept
    PROVE  AllLookedAt => CyclesAreExact
<1>1. SUFFICES ASSUME AllLookedAt PROVE CyclesAreExact
  OBVIOUS
<1>2. Files \subseteq traced /\ calls = <<>> /\ looking
  BY <1>1 DEF CycleShape, AllLookedAt
<1>3. Done = traced
  BY <1>2 DEF Done
<1>4. \A c \in cycles : IsCircle(c)
  BY DEF CyclesKept
<1>5. cycles = {} => \A S \in SUBSET Files : S # {} => \E f \in S : deps(f) \cap S = {}
  BY <1>2, <1>3 DEF CyclesKept, NoKnot
<1>6. QED
  BY <1>4, <1>5 DEF CyclesAreExact, IsCircle, deps

-----------------------------------------------------------------------------
(* Breadth first.                                                           *)

StepNow == StepOf(running, opts)
Near(d) == Within(opts.from, d, StepNow)

\* Whether a node at depth d is expanded
Allowed(d) == running = "traverseBFS" => d < opts.maxDepth

Queued == {queue[i] : i \in 1..Len(queue)}
Head1 == stack[1]

\* The queue is sorted by depth, and spans no more than two depths, that of the
\* node being expanded and the next.
QueueSorted ==
    /\ \A i, j \in 1..Len(queue) :
          i <= j => queue[i].depth <= queue[j].depth /\ queue[j].depth <= queue[i].depth + 1
    /\ stack # <<>> =>
          \A q \in Queued : Head1.depth <= q.depth /\ q.depth <= Head1.depth + 1

\* What is queued or expanded is as near as its depth says, and what is expanded
\* is no nearer.
DepthsRight ==
    /\ \A q \in Queued : /\ q.node \in Near(q.depth)
                         /\ running = "traverseBFS" => q.depth <= opts.maxDepth
    /\ stack # <<>> => /\ Head1.node \in visited \cap Near(Head1.depth)
                       /\ Allowed(Head1.depth)
                       /\ \A k \in Nat : k < Head1.depth => Head1.node \notin Near(k)

\* What a visited node leads to is visited, or queued at a depth at most one more,
\* or still to be looked at.
StepsTaken ==
    /\ opts.from \in visited \/ \E q \in Queued : q.node = opts.from /\ q.depth = 0
    /\ \A k \in Nat : Allowed(k) =>
          \A v \in visited \cap Near(k) : \A m \in StepNow[v] :
              \/ m \in visited
              \/ \E q \in Queued : q.node = m /\ q.depth <= k + 1
              \/ /\ stack # <<>> /\ Head1.node = v
                 /\ \E e \in Head1.rest : m = Other(e, v)

Breadth == QueueSorted /\ DepthsRight /\ StepsTaken

\* A path has been found: nothing of the above is needed any more.
Answered == running = "findPath" /\ nodes # {}

\* What is near the start of a search, by the steps of the function that runs.
LEMMA NearTyped ==
    ASSUME SearchShape, running \in Functions
    PROVE  /\ opts.from \in Nodes /\ StepNow \in Relations /\ opts.maxDepth \in Nat
           /\ \A d \in Nat : Near(d) \subseteq Nodes
           /\ \A d, k \in Nat : d <= k => Near(d) \subseteq Near(k)
           /\ \A d \in Nat : \A m \in Near(d) : StepNow[m] \subseteq Near(d + 1)
           /\ \A m \in Nodes : StepNow[m] = {Other(e, m) : e \in EdgesOf(running, opts, m)}
           /\ Near(0) = {opts.from}
<1>1. edges \in SUBSET Rows /\ opts \in Options
  BY DEF SearchShape, SearchTypeOK, Phases, AtRest, Functions, BreadthFirst, DepthFirst, Calls
<1>2. opts.from \in Nodes /\ opts.maxDepth \in Nat
  BY <1>1 DEF Options
<1>3. StepNow \in Relations
  BY <1>1, StepOfTyped DEF StepNow, Functions
<1> HIDE DEF StepNow
<1>4. \A d \in Nat : Near(d) \subseteq Nodes /\ Near(0) = {opts.from}
  BY <1>2, <1>3, WithinStep DEF Near
<1>5. \A d, k \in Nat : d <= k => Near(d) \subseteq Near(k)
  BY <1>2, <1>3, WithinGrows DEF Near
<1>6. \A d \in Nat : \A m \in Near(d) : StepNow[m] \subseteq Near(d + 1)
  <2>1. ASSUME NEW d \in Nat
        PROVE  Near(d + 1) = Near(d) \cup UNION {StepNow[m] : m \in Near(d)}
    BY <1>2, <1>3, WithinStep DEF Near
  <2>2. QED
    BY <2>1
<1>7. \A m \in Nodes : StepNow[m] = {Other(e, m) : e \in EdgesOf(running, opts, m)}
  BY DEF StepNow, StepOf
<1>8. QED
  BY <1>2, <1>3, <1>4, <1>5, <1>6, <1>7

\* A state of the same search over the same graph has the same nodes near.
LEMMA NearSame ==
    ASSUME edges' = edges, opts' = opts, running' = running
    PROVE  /\ StepNow' = StepNow
           /\ \A d : Near(d)' = Near(d) /\ Allowed(d)' = Allowed(d)
<1>1. StepNow' = StepNow
  BY EdgesOfSame DEF StepNow, StepOf
<1>2. \A d : Near(d)' = Near(d)
  BY <1>1 DEF Near, Within
<1>3. QED
  BY <1>1, <1>2 DEF Allowed

\* Once nothing at a distance of k is to come, all that is within it is visited.
LEMMA NearerVisited ==
    ASSUME SearchShape, running \in BreadthFirst, Breadth, NEW k \in Nat,
           \A q \in Queued : q.depth > k, stack # <<>> => Head1.depth > k,
           \A d \in Nat : d < k => Allowed(d)
    PROVE  Near(k) \subseteq visited
<1>1. running \in Functions
  BY DEF Functions
<1>2. opts.from \in Nodes /\ StepNow \in Relations
  BY <1>1, NearTyped
<1>3. \A q \in Queued : q \in Steps
  BY DEF SearchShape, SearchTypeOK, Queued
<1>4. opts.from \in visited
  BY DEF Breadth, StepsTaken
<1>5. ASSUME NEW d \in Nat, d < k, NEW v \in visited \cap Near(d), NEW m \in StepNow[v]
      PROVE  m \in visited
  <2>1. Allowed(d)
    BY <1>5
  <2>2. \/ m \in visited
        \/ \E q \in Queued : q.node = m /\ q.depth <= d + 1
        \/ stack # <<>> /\ Head1.node = v
    BY <1>5, <2>1 DEF Breadth, StepsTaken
  <2>3. ~ \E q \in Queued : q.depth <= d + 1
    <3>1. SUFFICES ASSUME NEW q \in Queued, q.depth <= d + 1 PROVE FALSE
      OBVIOUS
    <3>2. q.depth \in Nat /\ q.depth > k
      BY <1>3, <3>1 DEF Steps
    <3>3. QED
      BY <1>5, <3>1, <3>2
  <2>4. ~(stack # <<>> /\ Head1.node = v)
    <3>1. SUFFICES ASSUME stack # <<>>, Head1.node = v PROVE FALSE
      OBVIOUS
    <3>2. Head1 \in Frames /\ Head1.depth > k
      BY <3>1 DEF SearchShape, SearchTypeOK, Head1
    <3>3. Head1.depth \in Nat /\ d < Head1.depth
      BY <1>5, <3>2 DEF Frames
    <3>4. v \notin Near(d)
      BY <3>1, <3>3 DEF Breadth, DepthsRight
    <3>5. QED
      BY <1>5, <3>4
  <2>5. QED
    BY <2>2, <2>3, <2>4
<1>6. QED
  BY <1>2, <1>4, <1>5, WithinInside DEF Near

\* The queue without its first step.
LEMMA QueueTail ==
    ASSUME SearchShape, queue # <<>>, queue' = Tail(queue)
    PROVE  /\ Len(queue') = Len(queue) - 1 /\ Len(queue) \in Nat \ {0}
           /\ \A i \in 1..Len(queue') : i + 1 \in 1..Len(queue) /\ queue'[i] = queue[i + 1]
           /\ Queued = Queued' \cup {queue[1]} /\ queue[1] \in Queued
           /\ \A q \in Queued : q \in Steps /\ q.node \in Nodes /\ q.depth \in Nat /\ q.path \in Seq(Rows)
<1>1. queue \in Seq(Steps)
  BY DEF SearchShape, SearchTypeOK
<1>2. Len(queue) \in Nat \ {0}
  BY <1>1
<1>3. Len(queue') = Len(queue) - 1
  BY <1>1, <1>2
<1>4. \A i \in 1..Len(queue') : i + 1 \in 1..Len(queue) /\ queue'[i] = queue[i + 1]
  BY <1>1, <1>2, <1>3
<1>5. \A i \in 1..Len(queue) : i = 1 \/ (i - 1 \in 1..Len(queue') /\ (i - 1) + 1 = i)
  BY <1>2, <1>3
<1>6. 1 \in 1..Len(queue)
  BY <1>2
<1>7. Queued \subseteq Queued' \cup {queue[1]}
  <2>1. ASSUME NEW i \in 1..Len(queue), i # 1 PROVE queue[i] \in Queued'
    <3>1. i - 1 \in 1..Len(queue') /\ (i - 1) + 1 = i
      BY <1>5, <2>1
    <3>2. queue'[i - 1] = queue[i]
      BY <1>4, <3>1
    <3>3. QED
      BY <3>1, <3>2 DEF Queued
  <2>2. QED
    BY <2>1 DEF Queued
<1>8. Queued' \cup {queue[1]} \subseteq Queued
  BY <1>4, <1>6 DEF Queued
<1>9. \A q \in Queued : q \in Steps
  BY <1>1 DEF Queued
<1>10. \A q \in Queued : q.node \in Nodes /\ q.depth \in Nat /\ q.path \in Seq(Rows)
  BY <1>9 DEF Steps
<1>11. QED
  BY <1>2, <1>3, <1>4, <1>6, <1>7, <1>8, <1>9, <1>10

\* The queue with one step more.
LEMMA QueueAppend ==
    ASSUME SearchShape, NEW s \in Steps, queue' = Append(queue, s)
    PROVE  /\ Len(queue') = Len(queue) + 1 /\ Len(queue) \in Nat
           /\ \A i \in 1..Len(queue) : queue'[i] = queue[i]
           /\ queue'[Len(queue) + 1] = s
           /\ Queued' = Queued \cup {s}
           /\ \A q \in Queued' : q \in Steps /\ q.node \in Nodes /\ q.depth \in Nat /\ q.path \in Seq(Rows)
<1>1. queue \in Seq(Steps)
  BY DEF SearchShape, SearchTypeOK
<1>2. /\ Len(queue') = Len(queue) + 1 /\ Len(queue) \in Nat
      /\ \A i \in 1..Len(queue) : queue'[i] = queue[i]
      /\ queue'[Len(queue) + 1] = s
  BY <1>1
<1>3. \A i \in 1..Len(queue') : i \in 1..Len(queue) \/ i = Len(queue) + 1
  BY <1>2
<1>4. \A i \in 1..Len(queue) : i \in 1..Len(queue')
  BY <1>2
<1>5. Len(queue) + 1 \in 1..Len(queue')
  BY <1>2
<1>6. Queued' = Queued \cup {s}
  BY <1>2, <1>3, <1>4, <1>5 DEF Queued
<1>7. \A q \in Queued' : q \in Steps
  BY <1>1, <1>6 DEF Queued
<1>8. \A q \in Queued' : q.node \in Nodes /\ q.depth \in Nat /\ q.path \in Seq(Rows)
  BY <1>7 DEF Steps
<1>9. QED
  BY <1>2, <1>6, <1>7, <1>8

\* The first node of the queue, not visited before, is no nearer than its depth.
LEMMA HeadFresh ==
    ASSUME SearchShape, running \in BreadthFirst, Breadth, queue # <<>>, stack = <<>>,
           queue[1].node \notin visited, NEW k \in Nat, k < queue[1].depth
    PROVE  queue[1].node \notin Near(k)
<1> DEFINE h == queue[1].depth
<1>1. running \in Functions
  BY DEF Functions
<1>2. queue \in Seq(Steps) /\ queue[1] \in Steps /\ Len(queue) \in Nat \ {0} /\ 1 \in 1..Len(queue)
  BY DEF SearchShape, SearchTypeOK
<1>3. h \in Nat /\ h - 1 \in Nat /\ k <= h - 1 /\ queue[1] \in Queued
  BY <1>2 DEF Steps, Queued
<1>4. \A q \in Queued : q.depth \in Nat /\ h <= q.depth
  <2>1. ASSUME NEW i \in 1..Len(queue) PROVE queue[i].depth \in Nat /\ h <= queue[i].depth
    <3>1. 1 <= i /\ queue[i] \in Steps
      BY <1>2
    <3>2. QED
      BY <1>2, <3>1 DEF Breadth, QueueSorted, Steps
  <2>2. QED
    BY <2>1 DEF Queued
<1>5. opts.maxDepth \in Nat /\ (running = "traverseBFS" => h <= opts.maxDepth)
  BY <1>1, <1>3, NearTyped DEF Breadth, DepthsRight
<1> HIDE DEF h
<1>6. \A q \in Queued : q.depth > h - 1
  BY <1>3, <1>4
<1>7. \A d \in Nat : d < h - 1 => Allowed(d)
  BY <1>3, <1>5 DEF Allowed
<1>8. Near(h - 1) \subseteq visited
  BY <1>3, <1>6, <1>7, NearerVisited
<1>9. Near(k) \subseteq Near(h - 1)
  BY <1>1, <1>3, NearTyped
<1>10. QED
  BY <1>8, <1>9

\* A node that was visited before may be skipped: it is near for fewer steps already.
LEMMA BreadthSkipped ==
    ASSUME SearchShape, running \in BreadthFirst, Breadth, stack = <<>>, queue # <<>>,
           queue' = Tail(queue), Skipped, UNCHANGED <<search, opts, running>>, edges' = edges
    PROVE  Breadth'
<1>1. /\ Len(queue') = Len(queue) - 1 /\ Len(queue) \in Nat \ {0}
      /\ \A i \in 1..Len(queue') : i + 1 \in 1..Len(queue) /\ queue'[i] = queue[i + 1]
      /\ Queued = Queued' \cup {queue[1]} /\ queue[1] \in Queued
      /\ \A q \in Queued : q \in Steps /\ q.node \in Nodes /\ q.depth \in Nat /\ q.path \in Seq(Rows)
  BY QueueTail
<1>2. queue[1].node \in visited /\ UNCHANGED <<stack, visited, nodes, found>>
  <2>1. Head(queue) = queue[1]
    BY DEF SearchShape, SearchTypeOK
  <2>2. QED
    BY <2>1 DEF Skipped
<1>3. StepNow' = StepNow /\ \A d : Near(d)' = Near(d) /\ Allowed(d)' = Allowed(d)
  BY NearSame
<1>4. QueueSorted'
  BY <1>1, <1>2 DEF Breadth, QueueSorted
<1>5. DepthsRight'
  BY <1>1, <1>2, <1>3 DEF Breadth, DepthsRight
<1>6. StepsTaken'
  BY <1>1, <1>2, <1>3 DEF Breadth, StepsTaken
<1>7. QED
  BY <1>4, <1>5, <1>6 DEF Breadth

\* A node is expanded at its distance.
LEMMA BreadthExpanded ==
    ASSUME SearchShape, running \in BreadthFirst, Breadth, stack = <<>>, queue # <<>>,
           queue' = Tail(queue), Expanded, UNCHANGED <<search, opts, running>>, edges' = edges
    PROVE  Breadth'
<1> DEFINE s == queue[1]
           v == s.node
           h == s.depth
<1>1. /\ Len(queue') = Len(queue) - 1 /\ Len(queue) \in Nat \ {0}
      /\ \A i \in 1..Len(queue') : i + 1 \in 1..Len(queue) /\ queue'[i] = queue[i + 1]
      /\ Queued = Queued' \cup {s} /\ s \in Queued
      /\ \A q \in Queued : q \in Steps /\ q.node \in Nodes /\ q.depth \in Nat /\ q.path \in Seq(Rows)
  BY QueueTail
<1>2. Head(queue) = s
  BY DEF SearchShape, SearchTypeOK
<1>3. /\ v \notin visited /\ visited' = visited \cup {v}
      /\ \/ stack' = <<>> /\ running = "traverseBFS" /\ h >= opts.maxDepth
         \/ /\ Len(stack') = 1 /\ stack'[1] = Frame(running, opts, v, s.path, h)
            /\ running = "traverseBFS" => ~(h >= opts.maxDepth)
  BY <1>2 DEF Expanded
<1>4. StepNow' = StepNow /\ \A d : Near(d)' = Near(d) /\ Allowed(d)' = Allowed(d)
  BY NearSame
<1>5. v \in Nodes /\ h \in Nat /\ running \in Functions /\ v \in Near(h) /\ opts.maxDepth \in Nat
  BY <1>1, NearTyped DEF Functions, Breadth, DepthsRight
<1>6. \A k \in Nat : k < h => v \notin Near(k)
  BY <1>3, HeadFresh
<1>7. stack' # <<>> => /\ stack'[1].node = v /\ stack'[1].depth = h
                       /\ stack'[1].rest = EdgesOf(running, opts, v)
                       /\ Allowed(h)
  <2>1. stack' # <<>> => /\ stack'[1] = Frame(running, opts, v, s.path, h)
                         /\ running = "traverseBFS" => ~(h >= opts.maxDepth)
    BY <1>3
  <2> HIDE DEF s
  <2>2. QED
    BY <1>5, <2>1 DEF Frame, Allowed
<1>8. Allowed(h) => stack' # <<>>
  BY <1>3, <1>5 DEF Allowed
<1>9. \A q \in Queued : h <= q.depth /\ q.depth <= h + 1
  <2>1. ASSUME NEW i \in 1..Len(queue) PROVE h <= queue[i].depth /\ queue[i].depth <= h + 1
    <3>1. 1 <= i /\ 1 \in 1..Len(queue)
      BY <1>1
    <3>2. QED
      BY <3>1 DEF Breadth, QueueSorted
  <2>2. QED
    BY <2>1 DEF Queued
<1> HIDE DEF h, v, s
<1>10. QueueSorted'
  <2>1. \A i, j \in 1..Len(queue') :
          i <= j => queue'[i].depth <= queue'[j].depth /\ queue'[j].depth <= queue'[i].depth + 1
    BY <1>1 DEF Breadth, QueueSorted
  <2>2. QED
    BY <1>1, <1>7, <1>9, <2>1 DEF QueueSorted, Head1
<1>11. DepthsRight'
  BY <1>1, <1>3, <1>4, <1>5, <1>6, <1>7 DEF Breadth, DepthsRight, Head1, s
<1>12. StepsTaken'
  <2>1. opts.from \in visited' \/ \E q \in Queued' : q.node = opts.from /\ q.depth = 0
    BY <1>1, <1>3 DEF Breadth, StepsTaken, v, s
  <2>2. ASSUME NEW k \in Nat, Allowed(k), NEW w \in visited' \cap Near(k), NEW m \in StepNow[w]
        PROVE  \/ m \in visited'
               \/ \E q \in Queued' : q.node = m /\ q.depth <= k + 1
               \/ /\ stack' # <<>> /\ stack'[1].node = w
                  /\ \E e \in stack'[1].rest : m = Other(e, w)
    <3>1. CASE w = v
      <4>1. h <= k
        BY <1>5, <1>6, <2>2, <3>1
      <4>2. Allowed(h)
        BY <1>5, <2>2, <4>1 DEF Allowed
      <4>3. StepNow[v] = {Other(e, v) : e \in EdgesOf(running, opts, v)}
        BY <1>5, NearTyped
      <4>4. QED
        BY <1>7, <1>8, <2>2, <3>1, <4>2, <4>3
    <3>2. CASE w \in visited
      <4>1. m \in visited \/ \E q \in Queued : q.node = m /\ q.depth <= k + 1
        BY <2>2, <3>2 DEF Breadth, StepsTaken
      <4>2. QED
        BY <1>1, <1>3, <4>1 DEF v
    <3>3. QED
      BY <1>3, <2>2, <3>1, <3>2
  <2>3. QED
    BY <1>4, <2>1, <2>2 DEF StepsTaken, Head1
<1>13. QED
  BY <1>10, <1>11, <1>12 DEF Breadth

\* A node whose edges were looked at leaves nothing behind.
LEMMA BreadthLeft ==
    ASSUME SearchShape, running \in BreadthFirst, Breadth, Leave, edges' = edges
    PROVE  Breadth'
<1>1. /\ stack # <<>> /\ Len(stack) \in Nat \ {0} /\ Innermost.rest = {}
      /\ stack' \in Seq(Frames) /\ Len(stack') = Len(stack) - 1
      /\ UNCHANGED <<search, opts, running, queue, visited, nodes, found>>
  BY LeaveOutcome
<1>2. Len(stack) = 1 /\ stack' = <<>> /\ Head1.rest = {}
  BY <1>1 DEF SearchShape, Phases, Innermost, Head1
<1>3. StepNow' = StepNow /\ \A d : Near(d)' = Near(d) /\ Allowed(d)' = Allowed(d)
  BY <1>1, NearSame
<1>4. Queued' = Queued
  BY <1>1 DEF Queued
<1>5. QueueSorted'
  BY <1>1, <1>2, <1>4 DEF Breadth, QueueSorted
<1>6. DepthsRight'
  BY <1>1, <1>2, <1>3, <1>4 DEF Breadth, DepthsRight
<1>7. StepsTaken'
  BY <1>1, <1>2, <1>3, <1>4 DEF Breadth, StepsTaken
<1>8. QED
  BY <1>5, <1>6, <1>7 DEF Breadth

\* An edge that is looked at leads to a node that is visited or queued now.
LEMMA BreadthQueued ==
    ASSUME SearchShape, running \in BreadthFirst, Breadth, NEW e \in edges, QueueNeighbour(e),
           edges' = edges
    PROVE  Breadth'
<1> DEFINE f == Head1
           next == Other(e, f.node)
           path == IF running = "traverseBFS" THEN <<e>> ELSE Append(f.path, e)
           s == [node |-> next, path |-> path, depth |-> f.depth + 1]
<1>1. /\ Len(stack) = 1 /\ f \in Frames /\ stack # <<>>
      /\ e \in f.rest /\ next \in Nodes /\ s \in Steps
      /\ UNCHANGED <<search, opts, running, visited, found>>
      /\ Len(stack') = 1
      /\ stack'[1].node = f.node /\ stack'[1].depth = f.depth /\ stack'[1].rest = f.rest \ {e}
      /\ \/ next \in visited /\ UNCHANGED <<queue, nodes>>
         \/ next \notin visited /\ queue' = Append(queue, s)
  BY QueueNeighbourOutcome DEF Head1
<1>2. s.node = next /\ s.depth = f.depth + 1
  OBVIOUS
<1>3. f.depth \in Nat /\ f.node \in Nodes /\ running \in Functions /\ f.depth + 1 \in Nat
  BY <1>1 DEF Frames, Functions
<1> HIDE DEF s, f, next, path
<1>4. StepNow' = StepNow /\ \A d : Near(d)' = Near(d) /\ Allowed(d)' = Allowed(d)
  BY <1>1, NearSame
<1>5. /\ f.node \in visited \cap Near(f.depth) /\ Allowed(f.depth)
      /\ \A k \in Nat : k < f.depth => f.node \notin Near(k)
  BY <1>1 DEF Breadth, DepthsRight, f
<1>6. next \in Near(f.depth + 1)
  <2>1. next \in StepNow[f.node]
    <3>1. e \in EdgesOf(running, opts, f.node)
      BY <1>1 DEF SearchShape, FramesOwn, f, Head1
    <3>2. QED
      BY <1>3, <3>1, NearTyped DEF next
  <2>2. QED
    BY <1>3, <1>5, <2>1, NearTyped
<1>7. stack' # <<>> /\ Head1' = stack'[1]
  BY <1>1 DEF Head1
<1>8. CASE next \in visited /\ UNCHANGED <<queue, nodes>>
  <2>1. Queued' = Queued
    BY <1>8 DEF Queued
  <2>2. QueueSorted'
    BY <1>1, <1>7, <1>8, <2>1 DEF Breadth, QueueSorted, f
  <2>3. DepthsRight'
    BY <1>1, <1>4, <1>7, <2>1 DEF Breadth, DepthsRight, f
  <2>4. StepsTaken'
    <3>1. ASSUME NEW k \in Nat, Allowed(k), NEW v \in visited \cap Near(k), NEW m \in StepNow[v]
          PROVE  \/ m \in visited
                 \/ \E q \in Queued : q.node = m /\ q.depth <= k + 1
                 \/ stack'[1].node = v /\ \E d \in stack'[1].rest : m = Other(d, v)
      <4>1. \/ m \in visited
            \/ \E q \in Queued : q.node = m /\ q.depth <= k + 1
            \/ f.node = v /\ \E d \in f.rest : m = Other(d, v)
        BY <3>1 DEF Breadth, StepsTaken, f
      <4>2. QED
        BY <1>1, <1>8, <4>1 DEF next
    <3>2. opts.from \in visited \/ \E q \in Queued : q.node = opts.from /\ q.depth = 0
      BY DEF Breadth, StepsTaken
    <3>3. QED
      BY <1>1, <1>4, <1>7, <2>1, <3>1, <3>2 DEF StepsTaken
  <2>5. QED
    BY <2>2, <2>3, <2>4 DEF Breadth
<1>9. CASE next \notin visited /\ queue' = Append(queue, s)
  <2>1. /\ Len(queue') = Len(queue) + 1 /\ Len(queue) \in Nat
        /\ \A i \in 1..Len(queue) : queue'[i] = queue[i]
        /\ queue'[Len(queue) + 1] = s
        /\ Queued' = Queued \cup {s}
        /\ \A q \in Queued' : q.node \in Nodes /\ q.depth \in Nat
    BY <1>1, <1>9, QueueAppend
  <2>2. QueueSorted'
    <3>1. \A q \in Queued : f.depth <= q.depth /\ q.depth <= f.depth + 1
      BY <1>1 DEF Breadth, QueueSorted, f
    <3>2. \A q \in Queued' : f.depth <= q.depth /\ q.depth <= f.depth + 1
      BY <1>2, <1>3, <2>1, <3>1
    <3>3. ASSUME NEW i \in 1..Len(queue'), NEW j \in 1..Len(queue'), i <= j
          PROVE  queue'[i].depth <= queue'[j].depth /\ queue'[j].depth <= queue'[i].depth + 1
      <4>1. queue'[i] \in Queued' /\ queue'[j] \in Queued'
        BY DEF Queued
      <4>2. CASE j = Len(queue) + 1
        <5>1. queue'[j].depth = f.depth + 1
          BY <1>2, <2>1, <4>2
        <5>2. queue'[i].depth \in Nat /\ f.depth <= queue'[i].depth /\ queue'[i].depth <= f.depth + 1
          BY <2>1, <3>2, <4>1
        <5>3. QED
          BY <1>3, <5>1, <5>2
      <4>3. CASE j # Len(queue) + 1
        <5>1. i \in 1..Len(queue) /\ j \in 1..Len(queue)
          BY <2>1, <3>3, <4>3
        <5>2. QED
          BY <2>1, <3>3, <5>1 DEF Breadth, QueueSorted
      <4>4. QED
        BY <4>2, <4>3
    <3>4. QED
      BY <1>1, <1>7, <3>2, <3>3 DEF QueueSorted
  <2>3. DepthsRight'
    <3>1. \A q \in Queued' : q.node \in Near(q.depth) /\ (running = "traverseBFS" => q.depth <= opts.maxDepth)
      <4>1. running = "traverseBFS" => s.depth <= opts.maxDepth
        BY <1>2, <1>3, <1>5, NearTyped DEF Allowed
      <4>2. QED
        BY <1>2, <1>6, <2>1, <4>1 DEF Breadth, DepthsRight
    <3>2. QED
      BY <1>1, <1>4, <1>5, <1>7, <3>1 DEF DepthsRight
  <2>4. StepsTaken'
    <3>1. ASSUME NEW k \in Nat, Allowed(k), NEW v \in visited \cap Near(k), NEW m \in StepNow[v]
          PROVE  \/ m \in visited
                 \/ \E q \in Queued' : q.node = m /\ q.depth <= k + 1
                 \/ stack'[1].node = v /\ \E d \in stack'[1].rest : m = Other(d, v)
      <4>1. \/ m \in visited
            \/ \E q \in Queued : q.node = m /\ q.depth <= k + 1
            \/ f.node = v /\ \E d \in f.rest : m = Other(d, v)
        BY <3>1 DEF Breadth, StepsTaken, f
      <4>2. CASE f.node = v /\ m = Other(e, v)
        <5>1. f.depth <= k
          BY <1>3, <1>5, <3>1, <4>2
        <5>2. s.node = m /\ s.depth <= k + 1 /\ s \in Queued'
          BY <1>2, <1>3, <2>1, <4>2, <5>1 DEF next
        <5>3. QED
          BY <5>2
      <4>3. QED
        BY <1>1, <2>1, <4>1, <4>2
    <3>2. opts.from \in visited \/ \E q \in Queued' : q.node = opts.from /\ q.depth = 0
      BY <2>1 DEF Breadth, StepsTaken
    <3>3. QED
      BY <1>1, <1>4, <1>7, <3>1, <3>2 DEF StepsTaken
  <2>5. QED
    BY <2>2, <2>3, <2>4 DEF Breadth
<1>10. QED
  BY <1>1, <1>8, <1>9

\* A search by breadth begins with its start queued.
LEMMA BreadthBegins ==
    ASSUME SearchShape, NEW o \in Options, NEW f \in BreadthFirst, NEW result \in SUBSET Nodes,
           StartBreadthFirst(f, o, result), edges' = edges, SearchShape'
    PROVE  Breadth' /\ running' = f /\ Queued' = {queue'[1]} /\ Len(queue') = 1
<1> DEFINE s == [node |-> o.from, path |-> <<>>, depth |-> 0]
<1>1. /\ AtRest /\ search' = f /\ opts' = o /\ running' = f /\ queue' = <<s>> /\ nodes' = result
      /\ UNCHANGED <<stack, visited, found>>
  BY DEF StartBreadthFirst, SearchShape, Phases, BreadthFirst
<1>2. stack' = <<>> /\ visited' = {} /\ found' = <<>>
  BY <1>1 DEF AtRest
<1>3. Len(queue') = 1 /\ queue'[1] = s /\ \A i \in 1..Len(queue') : i = 1
  BY <1>1
<1>4. Queued' = {s}
  BY <1>3 DEF Queued
<1>5. s.node = o.from /\ s.depth = 0
  OBVIOUS
<1>6. Near(0)' = {o.from} /\ opts'.maxDepth \in Nat
  <2>1. StepNow' = StepOf(f, o)
    BY <1>1, EdgesOfSame DEF StepNow, StepOf
  <2>2. Near(0)' = Within(o.from, 0, StepOf(f, o))
    BY <1>1, <2>1 DEF Near, Within
  <2>3. edges \in SUBSET Rows /\ o.from \in Nodes
    BY DEF SearchShape, SearchTypeOK, Options
  <2>4. StepOf(f, o) \in Relations
    BY <2>3, StepOfTyped
  <2>5. Within(o.from, 0, StepOf(f, o)) = {o.from}
    BY <2>3, <2>4, WithinStep
  <2>6. QED
    BY <1>1, <2>2, <2>5 DEF Options
<1> HIDE DEF s
<1>7. QueueSorted'
  BY <1>2, <1>3, <1>5 DEF QueueSorted
<1>8. DepthsRight'
  BY <1>1, <1>2, <1>4, <1>5, <1>6 DEF DepthsRight
<1>9. StepsTaken'
  BY <1>1, <1>2, <1>4, <1>5 DEF StepsTaken
<1>10. QED
  BY <1>1, <1>3, <1>4, <1>7, <1>8, <1>9 DEF Breadth

\* What a step that leaves a breadth-first search running can be
LEMMA BreadthMoves ==
    ASSUME SearchShape, Begins \/ SearchStep \/ Returned, running' \in BreadthFirst
    PROVE  \/ /\ UNCHANGED <<search, opts, running>> /\ running \in BreadthFirst
              /\ TakeStep \/ Leave \/ \E e \in edges : QueueNeighbour(e)
           \/ \E o \in Options : \/ StartBreadthFirst("traverseBFS", o, {o.from})
                                 \/ StartBreadthFirst("findPath", o, {})
<1>1. CASE Begins
  <2>1. PICK o \in Options :
        \/ StartBreadthFirst("traverseBFS", o, {o.from})
        \/ StartBreadthFirst("findPath", o, {})
        \/ StartDepthFirst("traverseDFS", "dfsRecursive", o, {o.from})
        \/ StartDepthFirst("getCallers", "getCallersRecursive", o, {})
        \/ StartDepthFirst("getCallees", "getCalleesRecursive", o, {})
        \/ StartDepthFirst("getCallGraph", "getCallersRecursive", o, {o.from})
        \/ StartDepthFirst("getTypeHierarchy", "getTypeAncestors", o, {o.from})
        \/ StartDepthFirst("getImpactRadius", "getImpactRecursive", o, {o.from})
    BY <1>1 DEF Begins
  <2>2. \A m, f, r : StartDepthFirst(m, f, o, r) => running' = f
    BY DEF StartDepthFirst
  <2>3. QED
    BY <2>1, <2>2 DEF BreadthFirst
<1>2. CASE SearchStep
  <2>1. CASE TakeStep
    BY <2>1 DEF TakeStep
  <2>2. CASE CalleesNext \/ DescendantsNext
    BY <2>2 DEF CalleesNext, DescendantsNext, BreadthFirst
  <2>3. CASE Leave
    BY <2>3 DEF Leave
  <2>4. ASSUME NEW e \in edges, QueueNeighbour(e)
        PROVE  UNCHANGED <<search, opts, running>> /\ running \in BreadthFirst
    BY <2>4 DEF QueueNeighbour
  <2>5. ASSUME NEW e \in edges, Look(e)
        PROVE  FALSE
    BY <2>5 DEF Look
  <2>6. QED
    BY <1>2, <2>1, <2>2, <2>3, <2>4, <2>5 DEF SearchStep
<1>3. CASE Returned
  BY <1>3 DEF Returned, BreadthFirst
<1>4. QED
  BY <1>1, <1>2, <1>3

\* The nodes of the result are those visited or queued.
BreadthNodes ==
    /\ opts.from \in nodes /\ visited \subseteq nodes /\ nodes \subseteq Near(opts.maxDepth)
    /\ \A q \in Queued : q.node \in nodes
    /\ \A n \in nodes : n \in visited \/ \E q \in Queued : q.node = n

\* The ends of the edges that were found
EndsOf(p) == {n \in Nodes : \E i \in 1..Len(p) : n \in Ends(p[i])}

\* The ends of the edges of a path, and of a path with one edge more.
LEMMA EndsAdded ==
    /\ EndsOf(<<>>) = {}
    /\ \A p \in Seq(Rows) : \A e \in Rows : EndsOf(Append(p, e)) = EndsOf(p) \cup Ends(e)
    /\ \A p \in Seq(Rows) : EndsOf(p) = UNION {Ends(p[i]) : i \in DOMAIN p}
<1>1. \A e \in Rows : Ends(e) \subseteq Nodes
  BY GraphAssumption DEF Ends
<1>2. EndsOf(<<>>) = {}
  <2>1. 1..Len(<<>>) = {}
    OBVIOUS
  <2>2. QED
    BY <2>1 DEF EndsOf
<1>3. ASSUME NEW p \in Seq(Rows), NEW e \in Rows
      PROVE  EndsOf(Append(p, e)) = EndsOf(p) \cup Ends(e)
  <2>1. /\ Len(Append(p, e)) = Len(p) + 1 /\ Len(p) \in Nat
        /\ \A i \in 1..Len(p) : Append(p, e)[i] = p[i]
        /\ Append(p, e)[Len(p) + 1] = e
    OBVIOUS
  <2>2. \A i \in 1..(Len(p) + 1) : i \in 1..Len(p) \/ i = Len(p) + 1
    BY <2>1
  <2>3. Len(p) + 1 \in 1..(Len(p) + 1) /\ \A i \in 1..Len(p) : i \in 1..(Len(p) + 1)
    BY <2>1
  <2>4. \A n \in Nodes : (\E i \in 1..(Len(p) + 1) : n \in Ends(Append(p, e)[i]))
                           <=> n \in Ends(e) \/ \E i \in 1..Len(p) : n \in Ends(p[i])
    BY <2>1, <2>2, <2>3
  <2>5. EndsOf(Append(p, e)) = {n \in Nodes : \E i \in 1..(Len(p) + 1) : n \in Ends(Append(p, e)[i])}
    BY <2>1 DEF EndsOf
  <2>6. QED
    BY <1>1, <2>4, <2>5 DEF EndsOf
<1>4. ASSUME NEW p \in Seq(Rows)
      PROVE  EndsOf(p) = UNION {Ends(p[i]) : i \in DOMAIN p}
  <2>1. DOMAIN p = 1..Len(p) /\ \A i \in 1..Len(p) : p[i] \in Rows
    OBVIOUS
  <2>2. QED
    BY <1>1, <2>1 DEF EndsOf
<1>5. QED
  BY <1>2, <1>3, <1>4

\* Each visited node but the first has an edge, to a node visited before it.
BreadthEdges ==
    \/ /\ visited = {} /\ found = <<>> /\ stack = <<>> /\ Len(queue) = 1
       /\ queue[1].path = <<>> /\ queue[1].node = opts.from
    \/ /\ opts.from \in visited /\ Len(found) = Cardinality(visited) - 1
       /\ visited = {opts.from} \cup EndsOf(found)
       /\ \A q \in Queued : \E e \in Rows : \E v \in visited :
             q.path = <<e>> /\ Ends(e) = {v, q.node}

BreadthResult == running = "traverseBFS" => BreadthNodes /\ BreadthEdges

\* The nodes of the result are those visited or queued, after an edge too.
LEMMA BreadthNodesQueued ==
    ASSUME SearchShape, running = "traverseBFS", Breadth, BreadthNodes,
           NEW e \in edges, QueueNeighbour(e), edges' = edges
    PROVE  BreadthNodes'
<1> DEFINE f == Head1
           next == Other(e, f.node)
           s == [node |-> next, path |-> <<e>>, depth |-> f.depth + 1]
<1>1. /\ f \in Frames /\ stack # <<>> /\ e \in f.rest /\ Len(stack) = 1
      /\ next \in Nodes /\ s \in Steps
      /\ UNCHANGED <<search, opts, running, visited, found>>
      /\ \/ next \in visited /\ UNCHANGED <<queue, nodes>>
         \/ next \notin visited /\ queue' = Append(queue, s) /\ nodes' = nodes \cup {next}
  BY QueueNeighbourOutcome DEF Head1
<1>2. f.depth \in Nat /\ f.node \in Nodes /\ running \in Functions
  BY <1>1 DEF Frames, Functions, BreadthFirst
<1>3. /\ opts.maxDepth \in Nat
      /\ \A d, k \in Nat : d <= k => Near(d) \subseteq Near(k)
      /\ \A d \in Nat : \A m \in Near(d) : StepNow[m] \subseteq Near(d + 1)
      /\ \A m \in Nodes : StepNow[m] = {Other(x, m) : x \in EdgesOf(running, opts, m)}
  BY <1>2, NearTyped
<1>4. \A d : Near(d)' = Near(d)
  BY <1>1, NearSame
<1>5. s.node = next
  OBVIOUS
<1>6. e \in EdgesOf(running, opts, f.node)
  BY <1>1 DEF SearchShape, FramesOwn, Head1
<1>7. next \in StepNow[f.node]
  BY <1>2, <1>3, <1>6
<1>8. f.node \in Near(f.depth) /\ f.depth < opts.maxDepth
  BY <1>1 DEF Breadth, DepthsRight, Allowed
<1>9. next \in Near(opts.maxDepth)
  <2>1. next \in Near(f.depth + 1)
    BY <1>2, <1>3, <1>7, <1>8
  <2>2. f.depth + 1 \in Nat /\ f.depth + 1 <= opts.maxDepth
    BY <1>2, <1>3, <1>8
  <2>3. QED
    BY <1>3, <2>1, <2>2
<1> HIDE DEF f, next, s
<1>10. CASE next \in visited /\ UNCHANGED <<queue, nodes>>
  BY <1>1, <1>4, <1>10 DEF BreadthNodes, Queued
<1>11. CASE next \notin visited /\ queue' = Append(queue, s) /\ nodes' = nodes \cup {next}
  <2>1. Queued' = Queued \cup {s}
    BY <1>1, <1>11, QueueAppend
  <2>2. QED
    BY <1>1, <1>4, <1>5, <1>9, <1>11, <2>1 DEF BreadthNodes
<1>12. QED
  BY <1>1, <1>10, <1>11

\* The edges of the result lead to the nodes visited, after an edge too.
LEMMA BreadthEdgesQueued ==
    ASSUME SearchShape, running = "traverseBFS", Breadth, BreadthEdges,
           NEW e \in edges, QueueNeighbour(e), edges' = edges
    PROVE  BreadthEdges'
<1> DEFINE f == Head1
           next == Other(e, f.node)
           s == [node |-> next, path |-> <<e>>, depth |-> f.depth + 1]
<1>1. /\ f \in Frames /\ stack # <<>> /\ e \in f.rest /\ Len(stack) = 1
      /\ next \in Nodes /\ s \in Steps
      /\ UNCHANGED <<search, opts, running, visited, found>>
      /\ \/ next \in visited /\ UNCHANGED <<queue, nodes>>
         \/ next \notin visited /\ queue' = Append(queue, s) /\ nodes' = nodes \cup {next}
  BY QueueNeighbourOutcome DEF Head1
<1>2. f.node \in Nodes /\ running \in BreadthFirst \cup DepthFirst /\ edges \in SUBSET Rows
  BY <1>1 DEF Frames, BreadthFirst, SearchShape, SearchTypeOK
<1>3. e \in EdgesOf(running, opts, f.node)
  BY <1>1 DEF SearchShape, FramesOwn, Head1
<1>4. e \in Rows /\ Ends(e) = {f.node, next}
  BY <1>2, <1>3, EdgesOfTyped
<1>5. s.node = next /\ s.path = <<e>>
  OBVIOUS
<1>6. f.node \in visited
  BY <1>1 DEF Breadth, DepthsRight
<1> HIDE DEF f, next, s
<1>7. CASE next \in visited /\ UNCHANGED <<queue, nodes>>
  BY <1>1, <1>7 DEF BreadthEdges, Queued
<1>8. CASE next \notin visited /\ queue' = Append(queue, s) /\ nodes' = nodes \cup {next}
  <2>1. Queued' = Queued \cup {s}
    BY <1>1, <1>8, QueueAppend
  <2>2. \A q \in Queued' : \E d \in Rows : \E v \in visited : q.path = <<d>> /\ Ends(d) = {v, q.node}
    BY <1>1, <1>4, <1>5, <1>6, <2>1 DEF BreadthEdges
  <2>3. stack # <<>>
    BY <1>1
  <2>4. QED
    BY <1>1, <2>2, <2>3 DEF BreadthEdges
<1>9. QED
  BY <1>1, <1>7, <1>8

\* Both hold after a step of the queue.
LEMMA BreadthResultTaken ==
    ASSUME SearchShape, running = "traverseBFS", Breadth, BreadthNodes, BreadthEdges,
           TakeStep, edges' = edges
    PROVE  BreadthNodes' /\ BreadthEdges'
<1> DEFINE s == queue[1]
<1>1. /\ stack = <<>> /\ queue # <<>> /\ Head(queue) = s
      /\ UNCHANGED <<search, opts, running>>
      /\ queue' = Tail(queue)
      /\ Skipped \/ Expanded
  BY TakeStepOutcome
<1>2. /\ Len(queue) \in Nat \ {0} /\ Len(queue') = Len(queue) - 1
      /\ Queued = Queued' \cup {s} /\ s \in Queued
      /\ \A q \in Queued : q.node \in Nodes
  BY <1>1, QueueTail
<1>3. \A d : Near(d)' = Near(d)
  BY <1>1, NearSame
<1>4. found \in Seq(Rows) /\ visited \in SUBSET Nodes
  BY DEF SearchShape, SearchTypeOK
<1>5. IsFiniteSet(visited) /\ Cardinality(visited) \in Nat
  BY <1>4, CardinalitiesTyped
<1>6. s.node \in nodes
  BY <1>2 DEF BreadthNodes
<1> HIDE DEF s
<1>7. CASE Skipped
  <2>1. s.node \in visited /\ UNCHANGED <<stack, visited, nodes, found>>
    BY <1>1, <1>7 DEF Skipped
  <2>2. BreadthNodes'
    BY <1>1, <1>2, <1>3, <2>1 DEF BreadthNodes
  <2>3. BreadthEdges'
    BY <1>1, <1>2, <2>1 DEF BreadthEdges
  <2>4. QED
    BY <2>2, <2>3
<1>8. CASE Expanded
  <2>1. /\ s.node \notin visited /\ visited' = visited \cup {s.node} /\ nodes' = nodes
        /\ found' = found \o s.path
    BY <1>1, <1>8 DEF Expanded
  <2>2. BreadthNodes'
    BY <1>1, <1>2, <1>3, <1>6, <2>1 DEF BreadthNodes
  <2>3. Cardinality(visited') = Cardinality(visited) + 1
    BY <1>5, <2>1, FS_AddElement
  <2>4. CASE visited = {} /\ found = <<>> /\ Len(queue) = 1 /\ queue[1].path = <<>> /\ queue[1].node = opts.from
    <3>1. found' = <<>> /\ visited' = {opts.from}
      BY <2>1, <2>4 DEF s
    <3>2. Len(queue') = 0 /\ Queued' = {}
      BY <1>2, <2>4 DEF Queued
    <3>3. Cardinality(visited) = 0
      BY <2>4, FS_EmptySet
    <3>4. Len(found') = 0 /\ EndsOf(found') = {}
      BY <3>1, EndsAdded
    <3>5. QED
      BY <1>1, <2>2, <2>3, <3>1, <3>2, <3>3, <3>4 DEF BreadthEdges
  <2>5. CASE /\ opts.from \in visited /\ Len(found) = Cardinality(visited) - 1
             /\ visited = {opts.from} \cup EndsOf(found)
             /\ \A q \in Queued : \E e \in Rows : \E v \in visited :
                   q.path = <<e>> /\ Ends(e) = {v, q.node}
    <3>1. PICK e \in Rows : \E v \in visited : s.path = <<e>> /\ Ends(e) = {v, s.node}
      BY <1>2, <2>5
    <3>2. PICK v \in visited : Ends(e) = {v, s.node}
      BY <3>1
    <3>3. found' = Append(found, e)
      BY <1>4, <2>1, <3>1
    <3>4. Len(found') = Len(found) + 1 /\ Len(found) \in Nat
      BY <1>4, <3>3
    <3>5. EndsOf(found') = EndsOf(found) \cup Ends(e)
      BY <1>4, <3>3, EndsAdded
    <3>6. visited' = {opts'.from} \cup EndsOf(found')
      BY <1>1, <2>1, <2>5, <3>2, <3>5
    <3>7. Len(found') = Cardinality(visited') - 1
      <4>1. Len(found) = Cardinality(visited) - 1
        BY <2>5
      <4>2. Cardinality(visited) = Len(found) + 1
        BY <1>5, <3>4, <4>1
      <4>3. Cardinality(visited') = Len(found') + 1
        BY <2>3, <3>4, <4>2
      <4>4. QED
        BY <3>4, <4>3
    <3>8. \A q \in Queued' : \E d \in Rows : \E w \in visited' : q.path = <<d>> /\ Ends(d) = {w, q.node}
      BY <1>2, <2>1, <2>5
    <3>9. opts'.from \in visited'
      BY <1>1, <2>1, <2>5
    <3>10. QED
      BY <2>2, <3>6, <3>7, <3>8, <3>9 DEF BreadthEdges
  <2>6. QED
    BY <2>4, <2>5 DEF BreadthEdges
<1>9. QED
  BY <1>1, <1>7, <1>8

\* Both hold after the edges of a node.
LEMMA BreadthResultLeft ==
    ASSUME SearchShape, BreadthNodes, BreadthEdges, Leave, edges' = edges
    PROVE  BreadthNodes' /\ BreadthEdges'
<1>1. /\ stack # <<>> /\ UNCHANGED <<search, opts, running, queue, visited, nodes, found>>
  BY LeaveOutcome
<1>2. \A d : Near(d)' = Near(d)
  BY <1>1, NearSame
<1>3. Queued' = Queued
  BY <1>1 DEF Queued
<1>4. BreadthNodes'
  BY <1>1, <1>2, <1>3 DEF BreadthNodes
<1>5. BreadthEdges'
  BY <1>1, <1>3 DEF BreadthEdges
<1>6. QED
  BY <1>4, <1>5

\* A breadth-first search that has looked at all it queued has found what is near.
LEMMA BreadthFirstEnds ==
    ASSUME SearchShape, Breadth, BreadthResult, Finished, search = "traverseBFS"
    PROVE  BreadthFirstIsExact
<1>1. running = "traverseBFS" /\ running \in Functions /\ running \in BreadthFirst
  BY DEF SearchShape, Phases, AtRest, BreadthFirst, Functions
<1>2. BreadthNodes /\ BreadthEdges /\ stack = <<>>
  BY <1>1 DEF BreadthResult, Finished
<1>3. edges \in SUBSET Rows /\ found \in Seq(Rows) /\ visited \in SUBSET Nodes /\ nodes \in SUBSET Nodes
  BY DEF SearchShape, SearchTypeOK
<1>4. opts.maxDepth \in Nat /\ opts \in Options
  BY PhasesKnown DEF Finished
<1>5. Near(opts.maxDepth) = Within(opts.from, opts.maxDepth, Neighbours(opts.direction))
  <2>1. StepNow = Neighbours(opts.direction)
    BY <1>1, <1>3, StepsOfFunctions DEF StepNow
  <2>2. QED
    BY <2>1 DEF Near
<1>6. nodes \subseteq Near(opts.maxDepth)
  BY <1>2 DEF BreadthNodes
<1> DEFINE linked == UNION {Ends(found[i]) : i \in DOMAIN found}
<1>7. ASSUME Cardinality(nodes) < opts.limit
      PROVE  /\ nodes = Near(opts.maxDepth)
             /\ Len(found) = Cardinality(Near(opts.maxDepth)) - 1
             /\ {opts.from} \cup linked = Near(opts.maxDepth)
  <2>1. queue = <<>>
    <3>1. opts.limit \in Nat /\ Cardinality(nodes) \in Nat
      BY <1>3, <1>4, CardinalitiesTyped DEF Options
    <3>2. QED
      BY <1>1, <1>7, <3>1 DEF Finished
  <2>2. Queued = {}
    BY <2>1 DEF Queued
  <2>3. \A d \in Nat : d < opts.maxDepth => Allowed(d)
    BY DEF Allowed
  <2>4. Near(opts.maxDepth) \subseteq visited
    BY <1>1, <1>2, <1>4, <2>2, <2>3, NearerVisited
  <2>5. visited = Near(opts.maxDepth) /\ nodes = Near(opts.maxDepth)
    BY <1>2, <2>2, <2>4 DEF BreadthNodes
  <2>6. opts.from \in visited
    BY <1>2, <2>5 DEF BreadthNodes
  <2>7. EndsOf(found) = linked
    BY <1>3, EndsAdded
  <2> HIDE DEF linked
  <2>8. Len(found) = Cardinality(visited) - 1 /\ visited = {opts.from} \cup EndsOf(found)
    BY <1>2, <2>6 DEF BreadthEdges
  <2>9. {opts.from} \cup EndsOf(found) = visited
    BY <2>8
  <2>10. Len(found) = Cardinality(Near(opts.maxDepth)) - 1
    BY <2>5, <2>8
  <2>11. {opts.from} \cup linked = Near(opts.maxDepth)
    BY <2>5, <2>7, <2>9
  <2>12. QED
    BY <2>5, <2>10, <2>11
<1>8. QED
  <2> HIDE DEF linked
  <2> DEFINE near == Within(opts.from, opts.maxDepth, Neighbours(opts.direction))
  <2>1. nodes \subseteq near
    BY <1>5, <1>6
  <2>2. Cardinality(nodes) < opts.limit =>
          nodes = near /\ Len(found) = Cardinality(near) - 1 /\ {opts.from} \cup linked = near
    BY <1>5, <1>7
  <2> HIDE DEF near
  <2>3. QED
    BY <2>1, <2>2 DEF BreadthFirstIsExact, linked, near

\* The edges of p lead from the start of the search to n.
Leads(p, n) ==
    /\ \A i \in 1..Len(p) : p[i].source = IF i = 1 THEN opts.from ELSE p[i - 1].target
    /\ n = IF p = <<>> THEN opts.from ELSE p[Len(p)].target

\* What is queued or expanded knows a path to it, as long as it is deep; the path
\* that was found leads to the end, which is no nearer than that.
PathsKnown ==
    /\ nodes = {} =>
         /\ found = <<>> /\ opts.to \notin visited
         /\ \A q \in Queued : Leads(q.path, q.node) /\ Len(q.path) = q.depth
         /\ stack # <<>> => Leads(Head1.path, Head1.node) /\ Len(Head1.path) = Head1.depth
    /\ nodes # {} =>
         /\ stack = <<>> /\ queue = <<>> /\ Leads(found, opts.to)
         /\ found # <<>> => opts.to \notin Near(Len(found) - 1)

PathResult == running = "findPath" => PathsKnown

\* A path with one edge more leads to the target of that edge.
LEMMA LeadsFurther ==
    ASSUME NEW p \in Seq(Rows), NEW e \in Rows, Leads(p, e.source)
    PROVE  Leads(Append(p, e), e.target)
<1> DEFINE q == Append(p, e)
<1>1. /\ Len(q) = Len(p) + 1 /\ Len(p) \in Nat /\ q # <<>>
      /\ \A i \in 1..Len(p) : q[i] = p[i]
      /\ q[Len(p) + 1] = e
  OBVIOUS
<1> HIDE DEF q
<1>2. p # <<>> => Len(p) \in 1..Len(p)
  BY <1>1
<1>3. p = <<>> => Len(p) = 0
  OBVIOUS
<1>4. ASSUME NEW i \in 1..Len(q)
      PROVE  q[i].source = IF i = 1 THEN opts.from ELSE q[i - 1].target
  <2>1. CASE i \in 1..Len(p)
    <3>1. i # 1 => i - 1 \in 1..Len(p)
      BY <1>1, <2>1
    <3>2. QED
      BY <1>1, <2>1, <3>1 DEF Leads
  <2>2. CASE i = Len(p) + 1
    <3>1. q[i].source = e.source
      BY <1>1, <2>2
    <3>2. CASE p = <<>>
      BY <1>3, <2>2, <3>1, <3>2 DEF Leads
    <3>3. CASE p # <<>>
      <4>1. i - 1 = Len(p) /\ i # 1 /\ q[i - 1] = p[Len(p)]
        BY <1>1, <1>2, <2>2, <3>3
      <4>2. QED
        BY <3>1, <3>3, <4>1 DEF Leads
    <3>4. QED
      BY <3>2, <3>3
  <2>3. QED
    BY <1>1, <1>4, <2>1, <2>2
<1>5. e.target = q[Len(q)].target
  BY <1>1
<1>6. Leads(q, e.target)
  BY <1>1, <1>4, <1>5 DEF Leads
<1>7. QED
  BY <1>6 DEF q

\* The paths of another state of the same search
LEMMA LeadsSame ==
    ASSUME opts' = opts
    PROVE  \A p, n : Leads(p, n)' <=> Leads(p, n)
BY DEF Leads

\* The paths of findPath lead to their nodes, after a step of the queue.
LEMMA PathsKnownTaken ==
    ASSUME SearchShape, running = "findPath", nodes = {} => Breadth, PathsKnown, TakeStep,
           edges' = edges
    PROVE  PathsKnown'
<1> DEFINE s == queue[1]
<1>1. /\ stack = <<>> /\ queue # <<>> /\ Head(queue) = s /\ s \in Steps
      /\ UNCHANGED <<search, opts, running>>
      /\ \/ s.node = opts.to /\ PathFound(s)
         \/ s.node # opts.to /\ queue' = Tail(queue) /\ (Skipped \/ Expanded)
  BY TakeStepOutcome
<1>2. nodes = {} /\ Breadth /\ found = <<>> /\ opts.to \notin visited
  BY <1>1 DEF PathsKnown
<1>3. \A d : Near(d)' = Near(d)
  BY <1>1, NearSame
<1>4. running \in BreadthFirst
  BY DEF BreadthFirst
<1>5. s \in Queued
  <2>1. 1 \in 1..Len(queue)
    BY <1>1 DEF SearchShape, SearchTypeOK
  <2>2. QED
    BY <2>1 DEF Queued
<1>6. Leads(s.path, s.node) /\ Len(s.path) = s.depth
  BY <1>2, <1>5 DEF PathsKnown
<1>7. s.node \in Nodes /\ s.depth \in Nat /\ s.path \in Seq(Rows)
  BY <1>1 DEF Steps
<1> HIDE DEF s
<1>8. CASE s.node = opts.to /\ PathFound(s)
  <2>1. queue' = <<>> /\ found' = s.path /\ stack' = <<>> /\ nodes' # {}
    BY <1>1, <1>8 DEF PathFound
  <2>2. Leads(found, opts.to)'
    BY <1>1, <1>6, <1>8, <2>1 DEF Leads
  <2>3. ASSUME found' # <<>> PROVE opts.to \notin Near(Len(found') - 1)
    <3>1. s.depth > 0 /\ Len(found') - 1 = s.depth - 1 /\ s.depth - 1 \in Nat
      BY <1>6, <1>7, <2>1, <2>3
    <3>2. s.node \notin Near(s.depth - 1)
      BY <1>1, <1>2, <1>4, <1>7, <1>8, <3>1, HeadFresh DEF s
    <3>3. QED
      BY <1>8, <3>1, <3>2
  <2>4. QED
    BY <1>1, <1>3, <2>1, <2>2, <2>3 DEF PathsKnown
<1>9. CASE s.node # opts.to /\ queue' = Tail(queue) /\ Skipped
  <2>1. UNCHANGED <<stack, visited, nodes, found>>
    BY <1>9 DEF Skipped
  <2>2. Queued' \subseteq Queued
    BY <1>1, <1>9, QueueTail
  <2>3. QED
    BY <1>1, <1>2, <2>1, <2>2, LeadsSame DEF PathsKnown
<1>10. CASE s.node # opts.to /\ queue' = Tail(queue) /\ Expanded
  <2>1. /\ visited' = visited \cup {s.node} /\ nodes' = nodes /\ found' = found
        /\ stack'[1] = Frame(running, opts, s.node, s.path, s.depth)
    BY <1>1, <1>10 DEF Expanded
  <2>2. Queued' \subseteq Queued
    BY <1>1, <1>10, QueueTail
  <2>3. Head1'.path = s.path /\ Head1'.node = s.node /\ Head1'.depth = s.depth
    BY <2>1 DEF Head1, Frame
  <2>4. QED
    BY <1>1, <1>2, <1>6, <1>10, <2>1, <2>2, <2>3, LeadsSame DEF PathsKnown
<1>11. QED
  BY <1>1, <1>8, <1>9, <1>10

\* So they do after an edge.
LEMMA PathsKnownQueued ==
    ASSUME SearchShape, running = "findPath", PathsKnown, NEW e \in edges, QueueNeighbour(e),
           edges' = edges
    PROVE  PathsKnown'
<1> DEFINE f == Head1
           next == Other(e, f.node)
           s == [node |-> next, path |-> Append(f.path, e), depth |-> f.depth + 1]
<1>1. /\ f \in Frames /\ stack # <<>> /\ e \in f.rest /\ Len(stack) = 1
      /\ next \in Nodes /\ s \in Steps
      /\ UNCHANGED <<search, opts, running, visited, found>>
      /\ Len(stack') = 1
      /\ stack'[1].node = f.node /\ stack'[1].path = f.path /\ stack'[1].depth = f.depth
      /\ nodes' = nodes
      /\ queue' = queue \/ queue' = Append(queue, s)
  BY QueueNeighbourOutcome DEF Head1
<1>2. nodes = {} /\ found = <<>> /\ opts.to \notin visited
  BY <1>1 DEF PathsKnown
<1>3. Leads(f.path, f.node) /\ Len(f.path) = f.depth
  BY <1>1, <1>2 DEF PathsKnown
<1>4. f.path \in Seq(Rows) /\ e \in Rows /\ f.node \in Nodes
  BY <1>1 DEF SearchShape, SearchTypeOK, Frames
<1>5. e.source = f.node
  <2>1. e \in EdgesOf(running, opts, f.node)
    BY <1>1 DEF SearchShape, FramesOwn, Head1
  <2>2. e \in getOutgoingEdges(f.node, Kinds)
    BY <2>1, EdgesOfEach
  <2>3. QED
    BY <2>2 DEF getOutgoingEdges
<1>6. s.node = e.target /\ s.path = Append(f.path, e) /\ s.depth = f.depth + 1
  BY <1>5 DEF Other
<1>7. Head1'.node = f.node /\ Head1'.path = f.path /\ Head1'.depth = f.depth
  BY <1>1 DEF Head1
<1> HIDE DEF f, next, s
<1>8. Leads(s.path, s.node)
  BY <1>3, <1>4, <1>5, <1>6, LeadsFurther
<1>9. Len(s.path) = s.depth
  BY <1>3, <1>4, <1>6
<1>10. Queued' \subseteq Queued \cup {s}
  <2>1. CASE queue' = queue
    BY <2>1 DEF Queued
  <2>2. CASE queue' = Append(queue, s)
    BY <1>1, <2>2, QueueAppend
  <2>3. QED
    BY <1>1, <2>1, <2>2
<1>11. \A q \in Queued' : Leads(q.path, q.node) /\ Len(q.path) = q.depth
  BY <1>2, <1>8, <1>9, <1>10 DEF PathsKnown
<1>12. QED
  BY <1>1, <1>2, <1>3, <1>7, <1>11, LeadsSame DEF PathsKnown

\* So they do after the edges of a node.
LEMMA PathsKnownLeft ==
    ASSUME SearchShape, PathsKnown, Leave, running \in BreadthFirst, edges' = edges
    PROVE  PathsKnown'
<1>1. /\ stack # <<>> /\ UNCHANGED <<search, opts, running, queue, visited, nodes, found>>
      /\ Len(stack') = Len(stack) - 1 /\ Len(stack) \in Nat /\ stack' \in Seq(Frames)
  BY LeaveOutcome
<1>2. stack' = <<>>
  BY <1>1 DEF SearchShape, Phases
<1>3. Queued' = Queued
  BY <1>1 DEF Queued
<1>4. QED
  BY <1>1, <1>2, <1>3, LeadsSame DEF PathsKnown

\* The path that is returned is a shortest one, and when none is there is none.
LEMMA PathEnds ==
    ASSUME SearchShape, ~Answered => Breadth, PathResult, Finished, search = "findPath"
    PROVE  PathIsShortest
<1>1. running = "findPath" /\ running \in Functions /\ running \in BreadthFirst
  BY DEF SearchShape, Phases, AtRest, BreadthFirst, Functions
<1>2. PathsKnown /\ stack = <<>> /\ queue = <<>>
  BY <1>1 DEF PathResult, Finished
<1>3. edges \in SUBSET Rows /\ found \in Seq(Rows) /\ Cardinality(Nodes) \in Nat
  BY GraphAssumption, CardinalitiesTyped DEF SearchShape, SearchTypeOK
<1>4. \A d : Within(opts.from, d, Targets(Kinds)) = Near(d)
  BY <1>1, <1>3, StepsOfFunctions DEF Near, StepNow
<1>5. ASSUME nodes = {} PROVE opts.to \notin Near(Cardinality(Nodes))
  <2>1. Queued = {}
    BY <1>2 DEF Queued
  <2>2. \A d \in Nat : Allowed(d)
    BY <1>1 DEF Allowed
  <2>3. Breadth
    BY <1>5 DEF Answered
  <2>4. Near(Cardinality(Nodes)) \subseteq visited
    BY <1>1, <1>2, <1>3, <2>1, <2>2, <2>3, NearerVisited
  <2>5. QED
    BY <1>2, <1>5, <2>4 DEF PathsKnown
<1>6. ASSUME nodes # {}
      PROVE  Leads(found, opts.to) /\ (found # <<>> => opts.to \notin Near(Len(found) - 1))
  BY <1>2, <1>6 DEF PathsKnown
<1>7. DOMAIN found = 1..Len(found)
  BY <1>3
<1>8. QED
  BY <1>4, <1>5, <1>6, <1>7 DEF PathIsShortest, Leads

BreadthInv ==
    running \in BreadthFirst => (~Answered => Breadth) /\ BreadthResult /\ PathResult

\* A search by breadth begins in its invariant.
LEMMA BreadthResultBegins ==
    ASSUME SearchShape, NEW o \in Options, edges' = edges, SearchShape',
           \/ StartBreadthFirst("traverseBFS", o, {o.from})
           \/ StartBreadthFirst("findPath", o, {})
    PROVE  BreadthInv'
<1>1. PICK f \in BreadthFirst, result \in {{o.from}, {}} :
        /\ StartBreadthFirst(f, o, result)
        /\ f = "traverseBFS" => result = {o.from}
        /\ f = "findPath" => result = {}
  <2>1. "traverseBFS" # "findPath" /\ "traverseBFS" \in BreadthFirst /\ "findPath" \in BreadthFirst
    BY DEF BreadthFirst
  <2>2. QED
    BY <2>1
<1>2. o.from \in Nodes /\ o.maxDepth \in Nat /\ result \in SUBSET Nodes
  BY DEF Options
<1>3. Breadth' /\ running' = f /\ Queued' = {queue'[1]} /\ Len(queue') = 1
  BY <1>1, <1>2, BreadthBegins
<1>4. /\ opts' = o /\ queue' = <<[node |-> o.from, path |-> <<>>, depth |-> 0]>>
      /\ nodes' = result /\ AtRest /\ UNCHANGED <<stack, visited, found>>
  BY <1>1 DEF StartBreadthFirst, SearchShape, Phases, BreadthFirst
<1>5. stack' = <<>> /\ visited' = {} /\ found' = <<>>
  BY <1>4 DEF AtRest
<1>6. queue'[1].node = o.from /\ queue'[1].path = <<>> /\ queue'[1].depth = 0
  BY <1>4
<1>7. o.from \in Near(o.maxDepth)'
  <2>1. StepNow' = StepOf(f, o)
    BY <1>3, <1>4, EdgesOfSame DEF StepNow, StepOf
  <2>2. Near(o.maxDepth)' = Within(o.from, o.maxDepth, StepOf(f, o))
    BY <1>4, <2>1 DEF Near, Within
  <2>3. StepOf(f, o) \in Relations
    BY <1>1, StepOfTyped DEF SearchShape, SearchTypeOK
  <2>4. o.from \in Within(o.from, 0, StepOf(f, o))
    BY <1>2, <2>3, WithinStep
  <2>5. QED
    BY <1>2, <2>2, <2>3, <2>4, WithinGrows
<1>8. BreadthResult'
  <2>1. SUFFICES ASSUME running' = "traverseBFS" PROVE BreadthNodes' /\ BreadthEdges'
    BY DEF BreadthResult
  <2>2. result = {o.from}
    BY <1>1, <1>3, <2>1
  <2>3. BreadthNodes'
    BY <1>3, <1>4, <1>5, <1>6, <1>7, <2>2 DEF BreadthNodes
  <2>4. BreadthEdges'
    BY <1>3, <1>4, <1>5, <1>6 DEF BreadthEdges
  <2>5. QED
    BY <2>3, <2>4
<1>9. PathResult'
  <2>1. SUFFICES ASSUME running' = "findPath" PROVE PathsKnown'
    BY DEF PathResult
  <2>2. nodes' = {}
    BY <1>1, <1>3, <1>4, <2>1
  <2>3. Leads(<<>>, o.from)'
    BY <1>4 DEF Leads
  <2>4. Len(queue'[1].path) = queue'[1].depth
    BY <1>6
  <2>5. QED
    BY <1>3, <1>4, <1>5, <1>6, <2>2, <2>3, <2>4 DEF PathsKnown
<1>10. QED
  BY <1>3, <1>8, <1>9 DEF BreadthInv

\* Every step of Traversal keeps the invariant of a search by breadth.
LEMMA BreadthInvKept ==
    ASSUME SearchShape, ContextShape, BreadthInv, [Next]_vars
    PROVE  BreadthInv'
<1> SUFFICES ASSUME running' \in BreadthFirst
             PROVE  (~Answered => Breadth)' /\ BreadthResult' /\ PathResult'
  BY DEF BreadthInv
<1>1. SearchShape'
  BY SearchShapeKept
<1>2. CASE UNCHANGED searchVars /\ (edges' = edges \/ search = "none")
  <2>1. running \in BreadthFirst /\ edges' = edges
    BY <1>2 DEF searchVars, SearchShape, Phases, AtRest, BreadthFirst
  <2>2. UNCHANGED <<search, opts, running, queue, stack, visited, nodes, found>>
    BY <1>2 DEF searchVars
  <2>3. StepNow' = StepNow /\ \A d : Near(d)' = Near(d) /\ Allowed(d)' = Allowed(d)
    BY <2>1, <2>2, NearSame
  <2>4. Queued' = Queued /\ Head1' = Head1
    BY <2>2 DEF Queued, Head1
  <2>5. Answered' = Answered
    BY <2>2 DEF Answered
  <2>6. Breadth => Breadth'
    <3>1. SUFFICES ASSUME Breadth PROVE Breadth'
      OBVIOUS
    <3>2. QueueSorted'
      BY <2>2, <2>4, <3>1 DEF Breadth, QueueSorted
    <3>3. DepthsRight'
      BY <2>2, <2>3, <2>4, <3>1 DEF Breadth, DepthsRight
    <3>4. StepsTaken'
      BY <2>2, <2>3, <2>4, <3>1 DEF Breadth, StepsTaken
    <3>5. QED
      BY <3>2, <3>3, <3>4 DEF Breadth
  <2>7. BreadthResult'
    BY <2>1, <2>2, <2>3, <2>4 DEF BreadthInv, BreadthResult, BreadthNodes, BreadthEdges
  <2>8. PathResult'
    BY <2>1, <2>2, <2>3, <2>4, LeadsSame DEF BreadthInv, PathResult, PathsKnown
  <2>9. QED
    BY <2>1, <2>5, <2>6, <2>7, <2>8 DEF BreadthInv
<1>3. CASE edges' = edges /\ (Begins \/ SearchStep \/ Returned)
  <2>1. CASE \E o \in Options : \/ StartBreadthFirst("traverseBFS", o, {o.from})
                                \/ StartBreadthFirst("findPath", o, {})
    BY <1>1, <1>3, <2>1, BreadthResultBegins DEF BreadthInv
  <2>2. CASE /\ UNCHANGED <<search, opts, running>> /\ running \in BreadthFirst
             /\ TakeStep \/ Leave \/ \E e \in edges : QueueNeighbour(e)
    <3>1. (~Answered => Breadth) /\ BreadthResult /\ PathResult
      BY <2>2 DEF BreadthInv
    <3>2. stack # <<>> \/ queue # <<>>
      <4>1. TakeStep => queue # <<>>
        BY DEF TakeStep
      <4>2. Leave => stack # <<>>
        BY DEF Leave
      <4>3. \A e : QueueNeighbour(e) => stack # <<>>
        BY DEF QueueNeighbour
      <4>4. QED
        BY <2>2, <4>1, <4>2, <4>3
    <3>3. ~Answered /\ Breadth
      BY <3>1, <3>2 DEF Answered, PathResult, PathsKnown
    <3>4. CASE running = "traverseBFS"
      <4>1. PathResult' /\ (Answered' <=> FALSE) /\ BreadthNodes /\ BreadthEdges
        BY <2>2, <3>1, <3>4 DEF PathResult, Answered, BreadthResult
      <4>2. CASE TakeStep
        <5>1. /\ stack = <<>> /\ queue # <<>> /\ queue' = Tail(queue) /\ (Skipped \/ Expanded)
          BY <3>4, <4>2, TakeStepOutcome
        <5>2. Breadth'
          BY <1>3, <2>2, <3>3, <5>1, BreadthSkipped, BreadthExpanded
        <5>3. QED
          BY <1>3, <3>3, <3>4, <4>1, <4>2, <5>2, BreadthResultTaken DEF BreadthResult
      <4>3. CASE Leave
        BY <1>3, <2>2, <3>3, <4>1, <4>3, BreadthLeft, BreadthResultLeft DEF BreadthResult
      <4>4. ASSUME NEW e \in edges, QueueNeighbour(e)
            PROVE  Breadth' /\ BreadthNodes' /\ BreadthEdges'
        BY <1>3, <2>2, <3>3, <3>4, <4>1, <4>4, BreadthQueued, BreadthNodesQueued, BreadthEdgesQueued
      <4>5. QED
        BY <2>2, <4>1, <4>2, <4>3, <4>4 DEF BreadthResult
    <3>5. CASE running = "findPath"
      <4>1. BreadthResult' /\ PathsKnown
        BY <2>2, <3>1, <3>5 DEF BreadthResult, PathResult
      <4>2. CASE TakeStep
        <5>1. PathsKnown'
          BY <1>3, <3>3, <3>5, <4>1, <4>2, PathsKnownTaken
        <5>2. /\ stack = <<>> /\ queue # <<>>
              /\ \/ PathFound(Head(queue))
                 \/ queue' = Tail(queue) /\ (Skipped \/ Expanded)
          BY <4>2, TakeStepOutcome
        <5>3. PathFound(Head(queue)) => Answered'
          BY <2>2, <3>5 DEF PathFound, Answered
        <5>4. CASE queue' = Tail(queue) /\ (Skipped \/ Expanded)
          BY <1>3, <2>2, <3>3, <4>1, <5>1, <5>2, <5>4, BreadthSkipped, BreadthExpanded DEF PathResult
        <5>5. QED
          BY <4>1, <5>1, <5>2, <5>3, <5>4 DEF PathResult
      <4>3. CASE Leave
        BY <1>3, <2>2, <3>3, <4>1, <4>3, BreadthLeft, PathsKnownLeft DEF PathResult
      <4>4. ASSUME NEW e \in edges, QueueNeighbour(e)
            PROVE  Breadth' /\ PathsKnown'
        BY <1>3, <2>2, <3>3, <3>5, <4>1, <4>4, BreadthQueued, PathsKnownQueued
      <4>5. QED
        BY <2>2, <4>1, <4>2, <4>3, <4>4 DEF PathResult
    <3>6. QED
      BY <2>2, <3>4, <3>5 DEF BreadthFirst
  <2>3. QED
    BY <1>3, <2>1, <2>2, BreadthMoves
<1>4. QED
  BY <1>2, <1>3, SearchMoves

-----------------------------------------------------------------------------
(* Depth first.                                                             *)

\* What may be found at a depth, and where a node leads to at once
ReachOf(f, o, d) ==
    IF f = "getImpactRecursive" THEN Dependents(o.from, d) ELSE Within(o.from, d, StepOf(f, o))
OnwardOf(f, o, n) == {Other(e, n) : e \in MemberEdges(f, n) \cup EdgesOf(f, o, n)}

\* Dependents, with the relations it depends on as arguments
DependentsBy(n, d, refers, has) ==
    Iterate([S \in SUBSET Nodes |-> Closure(S \cup UNION {refers[m] : m \in S}, has)],
            Closure({n}, has))[d]

\* As long as the table stays as it is, what a search may reach is the same.
LEMMA ReachSame ==
    ASSUME edges' = edges
    PROVE  /\ \A f, o : \A d : ReachOf(f, o, d)' = ReachOf(f, o, d)
           /\ \A f, o : \A n : OnwardOf(f, o, n)' = OnwardOf(f, o, n)
<1>1. ASSUME NEW f, NEW o PROVE StepOf(f, o)' = StepOf(f, o)
  BY EdgesOfSame DEF StepOf
<1>2. References' = References /\ Members' = Members
  BY DEF References, Members, Sources, Targets, getIncomingEdges, getOutgoingEdges
<1>3. ASSUME NEW n, NEW d PROVE Dependents(n, d)' = Dependents(n, d)
  <2>1. Dependents(n, d) = DependentsBy(n, d, References, Members)
    BY DEF Dependents, DependentsBy, References
  <2>2. Dependents(n, d)' = DependentsBy(n, d, References', Members')
    BY DEF Dependents, DependentsBy, References
  <2>3. QED
    BY <1>2, <2>1, <2>2
<1>4. ASSUME NEW f, NEW o, NEW d PROVE ReachOf(f, o, d)' = ReachOf(f, o, d)
  <2>1. Within(o.from, d, StepOf(f, o))' = Within(o.from, d, StepOf(f, o))
    BY <1>1 DEF Within
  <2>2. QED
    BY <1>3, <2>1 DEF ReachOf
<1>5. ASSUME NEW f, NEW o, NEW n PROVE OnwardOf(f, o, n)' = OnwardOf(f, o, n)
  BY EdgesOfSame DEF OnwardOf
<1>6. QED
  BY <1>4, <1>5

\* A member is as near as its container, any other end of an edge one step farther.
LEMMA ReachTyped ==
    ASSUME edges \in SUBSET Rows, NEW f \in DepthFirst, NEW o \in Options
    PROVE  /\ o.from \in Nodes /\ o.maxDepth \in Nat
           /\ o.from \in ReachOf(f, o, 0)
           /\ \A d, k \in Nat : d <= k => ReachOf(f, o, d) \subseteq ReachOf(f, o, k)
           /\ \A d \in Nat : ReachOf(f, o, d) \subseteq Nodes
           /\ \A d \in Nat : \A n \in ReachOf(f, o, d) :
                /\ \A e \in MemberEdges(f, n) : Other(e, n) \in ReachOf(f, o, d)
                /\ \A e \in EdgesOf(f, o, n) : Other(e, n) \in ReachOf(f, o, d + 1)
<1>1. o.from \in Nodes /\ o.maxDepth \in Nat
  BY DEF Options
<1>2. CASE f = "getImpactRecursive"
  <2>1. \A d : ReachOf(f, o, d) = Dependents(o.from, d)
    BY <1>2 DEF ReachOf
  <2>2. \A d \in Nat : Dependents(o.from, d) \in SUBSET Nodes
    BY <1>1, DependentsStep
  <2>3. \A d, k \in Nat : d <= k => Dependents(o.from, d) \subseteq Dependents(o.from, k)
    BY <1>1, DependentsGrow
  <2>4. o.from \in Dependents(o.from, 0)
    BY <1>1, DependentsNext
  <2>5. ASSUME NEW d \in Nat, NEW n \in Dependents(o.from, d)
        PROVE  /\ \A e \in MemberEdges(f, n) : Other(e, n) \in Dependents(o.from, d)
               /\ \A e \in EdgesOf(f, o, n) : Other(e, n) \in Dependents(o.from, d + 1)
    <3>1. n \in Nodes
      BY <2>2, <2>5
    <3>2. Members[n] \subseteq Dependents(o.from, d) /\ References[n] \subseteq Dependents(o.from, d + 1)
      BY <1>1, <2>5, DependentsNext
    <3>3. {Other(e, n) : e \in MemberEdges(f, n)} = Members[n]
      BY <1>2, <3>1, MembersReached
    <3>4. StepOf(f, o) = References
      BY <1>2, StepsOfFunctions
    <3>5. StepOf(f, o)[n] = {Other(e, n) : e \in EdgesOf(f, o, n)}
      BY <3>1 DEF StepOf
    <3>6. QED
      BY <3>2, <3>3, <3>4, <3>5
  <2>6. QED
    BY <1>1, <2>1, <2>2, <2>3, <2>4, <2>5
<1>3. CASE f # "getImpactRecursive"
  <2> DEFINE step == StepOf(f, o)
  <2>1. \A d : ReachOf(f, o, d) = Within(o.from, d, step)
    BY <1>3 DEF ReachOf
  <2>2. step \in Relations
    BY StepOfTyped
  <2>3. ASSUME NEW n \in Nodes
        PROVE  MemberEdges(f, n) = {} /\ step[n] = {Other(e, n) : e \in EdgesOf(f, o, n)}
    BY <1>3, EdgesOfTyped DEF StepOf
  <2> HIDE DEF step
  <2>4. /\ Within(o.from, 0, step) = {o.from}
        /\ \A d \in Nat : /\ Within(o.from, d, step) \subseteq Nodes
                          /\ Within(o.from, d + 1, step) =
                               Within(o.from, d, step) \cup UNION {step[m] : m \in Within(o.from, d, step)}
    BY <1>1, <2>2, WithinStep
  <2>5. \A d, k \in Nat : d <= k => Within(o.from, d, step) \subseteq Within(o.from, k, step)
    BY <1>1, <2>2, WithinGrows
  <2>6. ASSUME NEW d \in Nat, NEW n \in Within(o.from, d, step)
        PROVE  /\ \A e \in MemberEdges(f, n) : Other(e, n) \in Within(o.from, d, step)
               /\ \A e \in EdgesOf(f, o, n) : Other(e, n) \in Within(o.from, d + 1, step)
    <3>1. n \in Nodes
      BY <2>4, <2>6
    <3>2. step[n] \subseteq Within(o.from, d + 1, step)
      BY <2>4, <2>6
    <3>3. QED
      BY <2>3, <3>1, <3>2
  <2>7. QED
    BY <1>1, <2>1, <2>4, <2>5, <2>6
<1>4. QED
  BY <1>2, <1>3

-----------------------------------------------------------------------------
(* The inductive invariant of a search by depth.                            *)

Reach(d) == ReachOf(running, opts, d)
Onward(n) == OnwardOf(running, opts, n)
TypeFunctions == {"getTypeAncestors", "getTypeDescendants"}
Callers == Within(opts.from, opts.maxDepth, Sources(CallKinds))
Callees == Within(opts.from, opts.maxDepth, Targets(CallKinds))

\* The calls under way are for different nodes, and each is at most as deep as
\* the stack below it is high.
DepthStack ==
    /\ visited \subseteq nodes \cup {opts.from}
    /\ search \notin {"getCallers", "getCallees"} => opts.from \in nodes
    /\ stack # <<>> => opts.from \in visited
    /\ \A i \in 1..Len(stack) :
          /\ stack[i].node \in visited /\ stack[i].depth <= i - 1
          /\ running \notin TypeFunctions => stack[i].depth < opts.maxDepth
    /\ \A i, j \in 1..Len(stack) : stack[i].node = stack[j].node => i = j

\* What is found is no farther away than asked for.
DepthSound ==
    /\ \A i \in 1..Len(stack) : stack[i].node \in Reach(stack[i].depth)
    /\ search \in {"getCallers", "getCallees"} => opts.from \notin nodes
    /\ search \notin {"getTypeHierarchy", "getCallGraph"} => nodes \subseteq Reach(opts.maxDepth)
    /\ search = "getCallGraph" => nodes \subseteq Callers \cup Callees

\* A search that no depth and no limit cuts short, or that is to go one step
OneStep == running \in Calls /\ opts.maxDepth = 1
Tracked ==
    /\ running \in DepthFirst \ {"getTypeDescendants"}
    /\ OneStep \/ running = "getTypeAncestors" \/ opts.maxDepth >= Cardinality(Nodes)
    /\ running = "dfsRecursive" => Cardinality(nodes) < opts.limit

Reached == IF OneStep THEN nodes \cup {opts.from} ELSE visited

\* The node n is the other end of an edge that a call for v has yet to look at.
Pending(v, n) ==
    \E i \in 1..Len(stack) :
        /\ stack[i].node = v
        /\ \E e \in stack[i].members \cup stack[i].rest : n = Other(e, v)

\* What a visited node leads to is reached or will be.
DepthComplete ==
    Tracked =>
        /\ opts.from \in visited
        /\ \A v \in visited : \A n \in Onward(v) : n \in Reached \/ Pending(v, n)
        /\ OneStep => visited = {opts.from}
        /\ running \in {"getTypeAncestors", "getImpactRecursive"} => nodes \subseteq visited

\* What the first function of a search has left to the second
DepthSecond ==
    /\ running = "getTypeDescendants" =>
          stack = <<>> /\ Closure({opts.from}, Targets(TypeKinds)) \subseteq nodes
    /\ /\ search = "getCallGraph" /\ running = "getCalleesRecursive"
       /\ opts.maxDepth = 1 \/ opts.maxDepth >= Cardinality(Nodes)
       => Callers \subseteq nodes

DepthInv == running \in DepthFirst => DepthStack /\ DepthSound /\ DepthComplete /\ DepthSecond

\* The first call of the only or of the first function, or of the callees
LEMMA DepthBegins ==
    ASSUME edges \in SUBSET Rows, edges' = edges, NEW o \in Options,
           NEW f \in DepthFirst \ {"getTypeDescendants"}, FirstCall(f, o, {}, nodes'),
           running' = f, opts' = o, nodes' \in SUBSET Nodes,
           search' \notin {"getCallers", "getCallees"} => o.from \in nodes',
           search' \in {"getCallers", "getCallees"} => o.from \notin nodes',
           search' \notin {"getTypeHierarchy", "getCallGraph"} => nodes' \subseteq {o.from},
           search' = "getCallGraph" => nodes' \subseteq Callers' \cup Callees',
           f \in {"getTypeAncestors", "getImpactRecursive"} => nodes' \subseteq {o.from}
    PROVE  DepthStack' /\ DepthSound' /\ DepthComplete'
<1>1. f \in DepthFirst /\ f # "getTypeDescendants"
  OBVIOUS
<1>2. \/ stack' = <<>> /\ visited' = {} /\ Refused(f, o, o.from, 0, {}, nodes')
      \/ /\ ~Refused(f, o, o.from, 0, {}, nodes')
         /\ visited' = {o.from} /\ Len(stack') = 1
         /\ stack'[1] = Frame(f, o, o.from, <<>>, 0)
  <2> DEFINE none == {}
  <2>1. none \in SUBSET Nodes /\ FirstCall(f, o, none, nodes') /\ none \cup {o.from} = {o.from}
    OBVIOUS
  <2> HIDE DEF none
  <2>2. \/ stack' = <<>> /\ visited' = none /\ Refused(f, o, o.from, 0, none, nodes')
        \/ /\ ~Refused(f, o, o.from, 0, none, nodes')
           /\ visited' = none \cup {o.from} /\ Len(stack') = 1
           /\ stack'[1] = Frame(f, o, o.from, <<>>, 0)
    BY <1>1, <2>1, FirstCallMade
  <2>3. QED
    BY <2>1, <2>2 DEF none
<1>3. /\ o.from \in Nodes /\ o.maxDepth \in Nat
      /\ o.from \in ReachOf(f, o, 0)
      /\ \A d, k \in Nat : d <= k => ReachOf(f, o, d) \subseteq ReachOf(f, o, k)
  BY <1>1, ReachTyped
<1>4. \A d : ReachOf(f, o, d)' = ReachOf(f, o, d)
  BY ReachSame
<1>5. \A d : Reach(d)' = ReachOf(f, o, d)
  BY <1>4 DEF Reach
<1>6. \A n : Onward(n)' = OnwardOf(f, o, n)
  <2>1. \A n : OnwardOf(f, o, n)' = OnwardOf(f, o, n)
    BY ReachSame
  <2>2. QED
    BY <2>1 DEF Onward
<1>7. o.from \in ReachOf(f, o, o.maxDepth)
  BY <1>3
<1>8. Cardinality(Nodes) \in Nat /\ Cardinality(Nodes) > 0
  BY <1>3, CardinalitiesTyped
<1>9. \A i \in 1..Len(stack') : i = 1 /\ stack' # <<>>
  <2>1. CASE stack' = <<>>
    <3>1. 1..Len(stack') = {}
      BY <2>1
    <3>2. QED
      BY <3>1
  <2>2. CASE Len(stack') = 1 /\ stack' # <<>>
    BY <2>2
  <2>3. QED
    BY <1>2, <2>1, <2>2
<1>10. stack' # <<>> =>
         /\ stack'[1].node = o.from /\ stack'[1].depth = 0
         /\ stack'[1].members = MemberEdges(f, o.from) /\ stack'[1].rest = EdgesOf(f, o, o.from)
         /\ visited' = {o.from} /\ ~Refused(f, o, o.from, 0, {}, nodes') /\ Len(stack') = 1
  BY <1>2 DEF Frame
<1>11. stack' # <<>> => (f \notin TypeFunctions => 0 < o.maxDepth)
  BY <1>3, <1>10 DEF Refused, TypeFunctions
<1>12. DepthStack'
  BY <1>2, <1>9, <1>10, <1>11 DEF DepthStack
<1>13. DepthSound'
  BY <1>3, <1>5, <1>7, <1>9, <1>10 DEF DepthSound
<1>14. DepthComplete'
  <2>1. SUFFICES ASSUME Tracked'
        PROVE  (/\ opts.from \in visited
                /\ \A v \in visited : \A n \in Onward(v) : n \in Reached \/ Pending(v, n)
                /\ OneStep => visited = {opts.from}
                /\ running \in {"getTypeAncestors", "getImpactRecursive"} => nodes \subseteq visited)'
    BY DEF DepthComplete
  <2>2. stack' # <<>>
    <3>1. \/ f \in Calls /\ o.maxDepth = 1
          \/ f = "getTypeAncestors"
          \/ o.maxDepth >= Cardinality(Nodes)
      BY <2>1 DEF Tracked, OneStep
    <3>2. f = "dfsRecursive" => Cardinality(nodes') < o.limit
      BY <2>1 DEF Tracked
    <3>3. o.limit \in Nat /\ Cardinality(nodes') \in Nat
      BY CardinalitiesTyped DEF Options
    <3>4. ~Refused(f, o, o.from, 0, {}, nodes')
      BY <1>3, <1>8, <3>1, <3>2, <3>3 DEF Refused, Calls
    <3>5. QED
      BY <1>2, <3>4
  <2>3. visited' = {o.from}
    BY <1>10, <2>2
  <2>4. \A n \in OnwardOf(f, o, o.from) : Pending(o.from, n)'
    <3>1. \A n \in OnwardOf(f, o, o.from) :
            \E e \in stack'[1].members \cup stack'[1].rest : n = Other(e, o.from)
      BY <1>10, <2>2 DEF OnwardOf
    <3>2. 1 \in 1..Len(stack') /\ stack'[1].node = o.from
      BY <1>10, <2>2
    <3>3. QED
      BY <3>1, <3>2 DEF Pending
  <2>5. QED
    BY <1>6, <2>3, <2>4
<1>15. QED
  BY <1>12, <1>13, <1>14

\* What is not visited is left for a call that would be no deeper than nodes are many.
LEMMA StackShorter ==
    ASSUME SearchShape, DepthStack, NEW n \in Nodes \ visited
    PROVE  Len(stack) + 1 <= Cardinality(Nodes) /\ Len(stack) \in Nat /\ Cardinality(Nodes) \in Nat
<1> DEFINE k == Len(stack)
           S == {stack[i].node : i \in 1..k}
           f == [i \in 1..k |-> stack[i].node]
<1>1. stack \in Seq(Frames) /\ visited \in SUBSET Nodes
  BY DEF SearchShape, SearchTypeOK
<1>2. k \in Nat
  BY <1>1
<1>3. S \subseteq visited /\ S \in SUBSET Nodes
  BY <1>1 DEF DepthStack
<1>4. f \in Bijection(1..k, S)
  <2>1. f \in [1..k -> S] /\ \A i \in 1..k : f[i] = stack[i].node
    OBVIOUS
  <2>2. \A i, j \in 1..k : f[i] = f[j] => i = j
    BY <2>1 DEF DepthStack
  <2>3. \A m \in S : \E i \in 1..k : f[i] = m
    BY <2>1
  <2> HIDE DEF f, S
  <2>4. QED
    BY <2>1, <2>2, <2>3 DEF Bijection, Injection, Surjection, IsInjective
<1>5. IsFiniteSet(1..k) /\ Cardinality(1..k) = k
  BY <1>2, FS_Interval, SMTT(30)
<1>6. IsFiniteSet(S) /\ Cardinality(S) = k
  BY <1>4, <1>5, FS_Bijection DEF ExistsBijection
<1> HIDE DEF S, f
<1>7. n \notin S
  BY <1>3
<1>8. Cardinality(S \cup {n}) = k + 1
  BY <1>6, <1>7, FS_AddElement
<1>9. S \cup {n} \subseteq Nodes /\ IsFiniteSet(Nodes) /\ Cardinality(Nodes) \in Nat
  BY <1>3, GraphAssumption, CardinalitiesTyped
<1>10. Cardinality(S \cup {n}) <= Cardinality(Nodes)
  BY <1>9, FS_Subset
<1>11. QED
  BY <1>2, <1>8, <1>9, <1>10

\* The calls under way before a step of the innermost are under way after it.
LEMMA LookStack ==
    ASSUME SearchShape, NEW e \in edges, Look(e)
    PROVE  /\ \A i \in 1..Len(stack) :
                /\ i \in 1..Len(stack')
                /\ stack'[i].node = stack[i].node /\ stack'[i].depth = stack[i].depth
                /\ stack[i].members \cup stack[i].rest \subseteq
                     stack'[i].members \cup stack'[i].rest \cup {e}
                /\ i # Len(stack) => stack'[i] = stack[i]
           /\ \A i \in 1..Len(stack') : i \in 1..Len(stack) \/ i = Len(stack) + 1
           /\ \/ visited' = visited /\ Len(stack') = Len(stack)
              \/ /\ NextOf(e) \notin visited /\ visited' = visited \cup {NextOf(e)}
                 /\ ~Refused(running, opts, NextOf(e), NextDepth, visited, nodes')
                 /\ Len(stack') = Len(stack) + 1 /\ Len(stack) + 1 \in 1..Len(stack')
                 /\ stack'[Len(stack) + 1].node = NextOf(e)
                 /\ stack'[Len(stack) + 1].depth = NextDepth
                 /\ stack'[Len(stack) + 1].members = MemberEdges(running, NextOf(e))
                 /\ stack'[Len(stack) + 1].rest = EdgesOf(running, opts, NextOf(e))
<1> DEFINE n == NextOf(e)
           fr == Frame(running, opts, n, <<>>, NextDepth)
<1>1. /\ running \in DepthFirst /\ stack # <<>> /\ n \in Nodes /\ NextDepth \in Nat
      /\ \/ stack' = LeftAfter(e) /\ visited' = visited
         \/ /\ ~Known(n, Inside)
            /\ ~Refused(running, opts, n, NextDepth, visited, nodes')
            /\ stack' = Append(LeftAfter(e), fr) /\ visited' = visited \cup {n}
  BY LookOutcome
<1>2. /\ LeftAfter(e) \in Seq(Frames) /\ Len(LeftAfter(e)) = Len(stack)
      /\ \A i \in 1..Len(stack) :
           /\ LeftAfter(e)[i].node = stack[i].node /\ LeftAfter(e)[i].depth = stack[i].depth
           /\ stack[i].members \cup stack[i].rest \subseteq
                LeftAfter(e)[i].members \cup LeftAfter(e)[i].rest \cup {e}
           /\ i # Len(stack) => LeftAfter(e)[i] = stack[i]
  BY <1>1, LeftAfterIs
<1>3. /\ fr.node = n /\ fr.depth = NextDepth
      /\ fr.members = MemberEdges(running, n) /\ fr.rest = EdgesOf(running, opts, n)
  BY DEF Frame
<1>4. Len(stack) \in Nat
  BY DEF SearchShape, SearchTypeOK
<1> HIDE DEF fr, n
<1>5. CASE stack' = LeftAfter(e) /\ visited' = visited
  BY <1>2, <1>4, <1>5
<1>6. CASE /\ ~Known(n, Inside)
           /\ ~Refused(running, opts, n, NextDepth, visited, nodes')
           /\ stack' = Append(LeftAfter(e), fr) /\ visited' = visited \cup {n}
  <2>1. /\ Len(stack') = Len(stack) + 1 /\ stack'[Len(stack) + 1] = fr
        /\ \A i \in 1..Len(stack) : stack'[i] = LeftAfter(e)[i]
    BY <1>2, <1>6
  <2>2. n \notin visited
    BY <1>6 DEF Known
  <2>3. QED
    BY <1>2, <1>3, <1>4, <1>6, <2>1, <2>2 DEF n
<1>7. QED
  BY <1>1, <1>5, <1>6

\* Where the edge leads is as near as the next call would be deep.
LEMMA LookReach ==
    ASSUME SearchShape, DepthStack, DepthSound, NEW e \in edges, Look(e)
    PROVE  /\ NextOf(e) \in Reach(NextDepth) /\ NextDepth \in Nat /\ NextDepth <= Len(stack)
           /\ running \notin TypeFunctions => NextOf(e) \in Reach(opts.maxDepth)
           /\ running \in Calls => NextDepth >= 1
           /\ \E d \in {e} : NextOf(e) = Other(d, Innermost.node)
<1>1. /\ running \in DepthFirst /\ stack # <<>> /\ Len(stack) \in 1..Len(stack) /\ Innermost \in Frames
      /\ e \in (IF Inside THEN Innermost.members ELSE Innermost.rest) /\ NextDepth \in Nat
  BY LookOutcome
<1>2. edges \in SUBSET Rows /\ opts \in Options /\ running \in BreadthFirst \cup DepthFirst
  BY <1>1 DEF SearchShape, SearchTypeOK, Phases, AtRest, DepthFirst, Calls
<1> DEFINE f == Innermost
<1>3. /\ f.depth \in Nat /\ f.node \in Nodes /\ f.depth <= Len(stack) - 1
      /\ running \notin TypeFunctions => f.depth < opts.maxDepth
      /\ f.node \in Reach(f.depth)
  BY <1>1 DEF Innermost, Frames, DepthStack, DepthSound
<1>4. f.members \subseteq MemberEdges(running, f.node) /\ f.rest \subseteq EdgesOf(running, opts, f.node)
  BY <1>1 DEF SearchShape, FramesOwn, Innermost
<1>5. /\ opts.maxDepth \in Nat
      /\ \A d, k \in Nat : d <= k => Reach(d) \subseteq Reach(k)
      /\ \A d \in Nat : \A n \in Reach(d) :
           /\ \A x \in MemberEdges(running, n) : Other(x, n) \in Reach(d)
           /\ \A x \in EdgesOf(running, opts, n) : Other(x, n) \in Reach(d + 1)
  BY <1>1, <1>2, ReachTyped DEF Reach
<1>6. NextOf(e) = Other(e, f.node)
  BY DEF NextOf
<1>7. Len(stack) \in Nat
  BY DEF SearchShape, SearchTypeOK
<1> HIDE DEF f
<1>8. CASE Inside
  <2>1. NextDepth = f.depth /\ e \in f.members
    BY <1>1, <1>8 DEF NextDepth, f
  <2>2. NextOf(e) \in Reach(f.depth)
    BY <1>3, <1>4, <1>5, <1>6, <2>1
  <2>3. running \notin Calls
    <3>1. MemberEdges(running, f.node) # {}
      BY <1>4, <2>1
    <3>2. running = "getImpactRecursive"
      BY <1>2, <1>3, <3>1, EdgesOfTyped
    <3>3. QED
      BY <3>2 DEF Calls
  <2>4. QED
    BY <1>3, <1>5, <1>6, <1>7, <2>1, <2>2, <2>3 DEF f
<1>9. CASE ~Inside
  <2>1. NextDepth = f.depth + 1 /\ e \in f.rest
    BY <1>1, <1>9 DEF NextDepth, f
  <2>2. NextOf(e) \in Reach(f.depth + 1)
    BY <1>3, <1>4, <1>5, <1>6, <2>1
  <2>3. running \notin TypeFunctions => f.depth + 1 <= opts.maxDepth /\ f.depth + 1 \in Nat
    BY <1>3, <1>5
  <2>4. QED
    BY <1>3, <1>5, <1>6, <1>7, <2>1, <2>2, <2>3 DEF f
<1>10. QED
  BY <1>8, <1>9

\* A call is for a node that no call is under way for, and one deeper at most.
LEMMA DepthStackLooked ==
    ASSUME SearchShape, DepthStack, DepthSound, NEW e \in edges, Look(e), edges' = edges
    PROVE  DepthStack'
<1> DEFINE n == NextOf(e)
           top == Len(stack)
<1>1. /\ running \in DepthFirst /\ stack # <<>>
      /\ UNCHANGED <<search, opts, running, queue>>
      /\ (nodes' = nodes /\ visited' = visited) \/ nodes' = nodes \cup {n}
  BY LookOutcome
<1>2. /\ \A i \in 1..top : stack'[i].node = stack[i].node /\ stack'[i].depth = stack[i].depth
      /\ \A i \in 1..Len(stack') : i \in 1..top \/ i = top + 1
      /\ \/ visited' = visited /\ Len(stack') = top
         \/ /\ n \notin visited /\ visited' = visited \cup {n}
            /\ ~Refused(running, opts, n, NextDepth, visited, nodes')
            /\ Len(stack') = top + 1
            /\ stack'[top + 1].node = n /\ stack'[top + 1].depth = NextDepth
  BY LookStack
<1>3. NextDepth \in Nat /\ NextDepth <= top /\ top \in Nat /\ opts.maxDepth \in Nat
  <2>1. search # "none"
    BY <1>1 DEF SearchShape, Phases, AtRest, DepthFirst, Calls
  <2>2. top \in Nat
    BY DEF SearchShape, SearchTypeOK
  <2>3. QED
    BY <2>1, <2>2, LookReach, PhasesKnown
<1> HIDE DEF n, top
<1>4. visited' \subseteq nodes' \cup {opts'.from}
  BY <1>1, <1>2 DEF DepthStack
<1>5. search' \notin {"getCallers", "getCallees"} => opts'.from \in nodes'
  BY <1>1 DEF DepthStack
<1>6. opts'.from \in visited'
  BY <1>1, <1>2 DEF DepthStack
<1>7. ASSUME NEW i \in 1..Len(stack')
      PROVE  /\ stack'[i].node \in visited' /\ stack'[i].depth <= i - 1
             /\ running \notin TypeFunctions => stack'[i].depth < opts.maxDepth
  <2>1. CASE i \in 1..top
    BY <1>2, <2>1 DEF DepthStack, top
  <2>2. CASE i = top + 1 /\ i \notin 1..top
    <3>1. /\ visited' = visited \cup {n} /\ ~Refused(running, opts, n, NextDepth, visited, nodes')
          /\ stack'[i].node = n /\ stack'[i].depth = NextDepth
      BY <1>2, <1>3, <1>7, <2>2
    <3>2. running \notin TypeFunctions => NextDepth < opts.maxDepth
      BY <1>3, <3>1 DEF Refused, TypeFunctions
    <3>3. QED
      BY <1>3, <2>2, <3>1, <3>2
  <2>3. QED
    BY <1>2, <2>1, <2>2
<1>8. ASSUME NEW i \in 1..Len(stack'), NEW j \in 1..Len(stack'), stack'[i].node = stack'[j].node
      PROVE  i = j
  <2>1. \A k \in 1..top : stack'[k].node \in visited
    BY <1>2 DEF DepthStack, top
  <2>2. \A k \in 1..Len(stack') : k \notin 1..top => k = top + 1 /\ stack'[k].node \notin visited
    BY <1>2
  <2>3. CASE i \in 1..top /\ j \in 1..top
    BY <1>2, <1>8, <2>3 DEF DepthStack, top
  <2>4. QED
    BY <1>8, <2>1, <2>2, <2>3
<1>9. QED
  BY <1>1, <1>4, <1>5, <1>6, <1>7, <1>8 DEF DepthStack

\* A state of the same search over the same graph
LEMMA DepthSame ==
    ASSUME edges' = edges, opts' = opts, running' = running
    PROVE  /\ \A d : Reach(d)' = Reach(d)
           /\ \A n : Onward(n)' = Onward(n)
           /\ Callers' = Callers /\ Callees' = Callees /\ OneStep' = OneStep
           /\ Targets(TypeKinds)' = Targets(TypeKinds)
<1>1. \A d : Reach(d)' = Reach(d)
  BY ReachSame DEF Reach
<1>2. \A n : Onward(n)' = Onward(n)
  BY ReachSame DEF Onward
<1>3. \A kinds : Sources(kinds)' = Sources(kinds) /\ Targets(kinds)' = Targets(kinds)
  BY DEF Sources, Targets, getIncomingEdges, getOutgoingEdges
<1>4. Callers' = Callers
  BY <1>3 DEF Callers, Within
<1>5. Callees' = Callees
  BY <1>3 DEF Callees, Within
<1>6. QED
  BY <1>1, <1>2, <1>3, <1>4, <1>5 DEF OneStep

\* What a search for calls may find are the callers and the callees.
LEMMA CallsReach ==
    ASSUME SearchShape
    PROVE  /\ running = "getCallersRecursive" => Reach(opts.maxDepth) = Callers
           /\ running = "getCalleesRecursive" => Reach(opts.maxDepth) = Callees
<1>1. edges \in SUBSET Rows
  BY DEF SearchShape, SearchTypeOK
<1>2. QED
  BY <1>1, StepsOfFunctions DEF Reach, ReachOf, Callers, Callees

\* What is added is as near as the depth of the call allows.
LEMMA DepthSoundLooked ==
    ASSUME SearchShape, DepthStack, DepthSound, NEW e \in edges, Look(e), edges' = edges
    PROVE  DepthSound'
<1> DEFINE n == NextOf(e)
           top == Len(stack)
<1>1. /\ running \in DepthFirst /\ stack # <<>>
      /\ UNCHANGED <<search, opts, running, queue>>
      /\ nodes' = nodes \/ (nodes' = nodes \cup {n} /\ ~Known(n, Inside))
  BY LookOutcome
<1>2. /\ \A i \in 1..top : stack'[i].node = stack[i].node /\ stack'[i].depth = stack[i].depth
      /\ \A i \in 1..Len(stack') : i \in 1..top \/ i = top + 1
      /\ \/ visited' = visited /\ Len(stack') = top
         \/ stack'[top + 1].node = n /\ stack'[top + 1].depth = NextDepth
  BY LookStack
<1>3. n \in Reach(NextDepth) /\ (running \notin TypeFunctions => n \in Reach(opts.maxDepth))
  BY LookReach
<1>4. \A d : Reach(d)' = Reach(d)
  BY <1>1, DepthSame
<1>5. Callers' = Callers /\ Callees' = Callees
  BY <1>1, DepthSame
<1>6. top \in Nat
  BY DEF SearchShape, SearchTypeOK
<1>7. n # opts.from \/ nodes' = nodes
  BY <1>1 DEF Known, DepthStack
<1> HIDE DEF n, top
<1>8. \A i \in 1..Len(stack') : stack'[i].node \in Reach(stack'[i].depth)
  <2>1. ASSUME NEW i \in 1..top PROVE stack'[i].node \in Reach(stack'[i].depth)
    BY <1>2, <2>1 DEF DepthSound, top
  <2>2. top + 1 \in 1..Len(stack') => stack'[top + 1].node \in Reach(stack'[top + 1].depth)
    BY <1>2, <1>3, <1>6
  <2>3. QED
    BY <1>2, <2>1, <2>2
<1>9. search # "getTypeHierarchy" => n \in Reach(opts.maxDepth)
  <2>1. running \in TypeFunctions => search = "getTypeHierarchy"
    BY DEF TypeFunctions, SearchShape, Phases, AtRest, BreadthFirst
  <2>2. QED
    BY <1>3, <2>1
<1>10. search = "getCallGraph" => Reach(opts.maxDepth) \subseteq Callers \cup Callees
  BY <1>1, CallsReach DEF SearchShape, Phases, AtRest, BreadthFirst
<1>11. QED
  BY <1>1, <1>4, <1>5, <1>7, <1>8, <1>9, <1>10 DEF DepthSound

\* A search that is tracked calls itself for every node it adds, unless it is to go
\* one step.
LEMMA LookNotRefused ==
    ASSUME SearchShape, DepthStack, DepthSound, NEW e \in edges, Look(e), Tracked', edges' = edges,
           NextOf(e) \notin visited
    PROVE  OneStep <=> Refused(running, opts, NextOf(e), NextDepth, visited, nodes')
<1>1. /\ running \in DepthFirst /\ NextOf(e) \in Nodes /\ NextDepth \in Nat
      /\ UNCHANGED <<search, opts, running, queue>>
  BY LookOutcome
<1>2. NextDepth <= Len(stack) /\ (running \in Calls => NextDepth >= 1)
  BY LookReach
<1>3. Len(stack) + 1 <= Cardinality(Nodes) /\ Len(stack) \in Nat /\ Cardinality(Nodes) \in Nat
  BY <1>1, StackShorter
<1>4. search # "none"
  BY <1>1 DEF SearchShape, Phases, AtRest, DepthFirst, Calls
<1>5. opts \in Options /\ opts.maxDepth \in Nat /\ opts.limit \in Nat
  BY <1>4, PhasesKnown DEF Options
<1>6. Cardinality(nodes') \in Nat
  <2>1. nodes' \in SUBSET Nodes
    BY LookTyped DEF SearchShape, SearchTypeOK
  <2>2. QED
    BY <2>1, CardinalitiesTyped
<1>7. /\ OneStep \/ running = "getTypeAncestors" \/ opts.maxDepth >= Cardinality(Nodes)
      /\ running = "dfsRecursive" => Cardinality(nodes') < opts.limit
  BY <1>1 DEF Tracked, OneStep
<1>8. CASE OneStep
  BY <1>1, <1>2, <1>8 DEF OneStep, Refused, Calls
<1>9. CASE ~OneStep
  BY <1>1, <1>2, <1>3, <1>5, <1>6, <1>7, <1>9 DEF Refused
<1>10. QED
  BY <1>8, <1>9

\* An edge that was looked at leads to what is reached, or the search is cut short.
LEMMA DepthCompleteLooked ==
    ASSUME SearchShape, DepthStack, DepthSound, DepthComplete, NEW e \in edges, Look(e),
           edges' = edges
    PROVE  DepthComplete'
<1> DEFINE n == NextOf(e)
           top == Len(stack)
<1>1. /\ running \in DepthFirst /\ stack # <<>> /\ n \in Nodes /\ top \in 1..top /\ top \in Nat
      /\ UNCHANGED <<search, opts, running, queue>>
      /\ \/ Known(n, Inside) /\ UNCHANGED <<visited, nodes, found>>
         \/ /\ ~Known(n, Inside) /\ nodes' = nodes \cup {n}
            /\ \/ Refused(running, opts, n, NextDepth, visited, nodes') /\ visited' = visited
               \/ /\ ~Refused(running, opts, n, NextDepth, visited, nodes')
                  /\ visited' = visited \cup {n}
  BY LookOutcome
<1>2. /\ \A i \in 1..top :
           /\ i \in 1..Len(stack')
           /\ stack'[i].node = stack[i].node
           /\ stack[i].members \cup stack[i].rest \subseteq
                stack'[i].members \cup stack'[i].rest \cup {e}
           /\ i # top => stack'[i] = stack[i]
      /\ \/ visited' = visited
         \/ /\ n \notin visited /\ visited' = visited \cup {n}
            /\ ~Refused(running, opts, n, NextDepth, visited, nodes')
            /\ top + 1 \in 1..Len(stack')
            /\ stack'[top + 1].node = n
            /\ stack'[top + 1].members = MemberEdges(running, n)
            /\ stack'[top + 1].rest = EdgesOf(running, opts, n)
  BY LookStack
<1>3. n = Other(e, stack[top].node)
  BY DEF NextOf, Innermost
<1>4. /\ \A m : Onward(m)' = Onward(m)
      /\ OneStep' = OneStep
  BY <1>1, DepthSame
<1> SUFFICES ASSUME Tracked'
    PROVE  /\ opts.from \in visited'
           /\ \A v \in visited' : \A m \in Onward(v) : m \in Reached' \/ Pending(v, m)'
           /\ OneStep => visited' = {opts.from}
           /\ running \in {"getTypeAncestors", "getImpactRecursive"} => nodes' \subseteq visited'
  BY <1>1, <1>4 DEF DepthComplete
<1>5. nodes \subseteq nodes' /\ nodes' \in SUBSET Nodes /\ nodes \in SUBSET Nodes /\ visited \subseteq visited'
  <2>1. nodes' \in SUBSET Nodes
    BY LookTyped DEF SearchShape, SearchTypeOK
  <2>2. QED
    BY <1>1, <2>1 DEF SearchShape, SearchTypeOK
<1>6. Tracked
  <2>1. running = "dfsRecursive" => Cardinality(nodes) < opts.limit
    <3>1. Cardinality(nodes) <= Cardinality(nodes') /\ Cardinality(nodes) \in Nat /\ Cardinality(nodes') \in Nat
      BY <1>5, CardinalitiesTyped, FS_Subset
    <3>2. opts.limit \in Nat
      <4>1. search # "none"
        BY <1>1 DEF SearchShape, Phases, AtRest, DepthFirst, Calls
      <4>2. QED
        BY <4>1, PhasesKnown DEF Options
    <3>3. running = "dfsRecursive" => Cardinality(nodes') < opts.limit
      BY <1>1 DEF Tracked
    <3>4. QED
      BY <3>1, <3>2, <3>3
  <2>2. QED
    BY <1>1, <1>4, <2>1 DEF Tracked
<1>7. /\ opts.from \in visited
      /\ \A v \in visited : \A m \in Onward(v) : m \in Reached \/ Pending(v, m)
      /\ OneStep => visited = {opts.from}
      /\ running \in {"getTypeAncestors", "getImpactRecursive"} => nodes \subseteq visited
  BY <1>6 DEF DepthComplete
<1>8. n \notin visited => (OneStep <=> Refused(running, opts, n, NextDepth, visited, nodes'))
  BY LookNotRefused
<1>9. Reached \subseteq Reached'
  BY <1>1, <1>4, <1>5 DEF Reached
<1>10. OneStep => visited' = visited
  BY <1>2, <1>8
<1>11. n \in Reached'
  <2>1. CASE Known(n, Inside)
    <3>1. n \in visited \/ (running \in {"getTypeAncestors", "getImpactRecursive"} /\ n \in nodes)
      BY <1>6, <2>1 DEF Known, Tracked
    <3>2. n \in visited
      BY <1>7, <3>1
    <3>3. QED
      BY <1>5, <1>7, <1>4, <1>1, <3>2 DEF Reached
  <2>2. CASE ~Known(n, Inside)
    <3>1. nodes' = nodes \cup {n} /\ n \notin visited
      BY <1>1, <2>2 DEF Known
    <3>2. CASE OneStep
      BY <1>4, <3>1, <3>2 DEF Reached
    <3>3. CASE ~OneStep
      BY <1>1, <1>4, <1>8, <2>2, <3>1, <3>3 DEF Reached
    <3>4. QED
      BY <3>2, <3>3
  <2>3. QED
    BY <2>1, <2>2
<1> HIDE DEF n, top
<1>12. ASSUME NEW v \in visited, NEW m \in Onward(v)
       PROVE  m \in Reached' \/ Pending(v, m)'
  <2>1. CASE m \in Reached
    BY <1>9, <2>1
  <2>2. CASE Pending(v, m)
    <3>1. PICK i \in 1..top : /\ stack[i].node = v
                              /\ \E d \in stack[i].members \cup stack[i].rest : m = Other(d, v)
      BY <2>2 DEF Pending, top
    <3>2. PICK d \in stack[i].members \cup stack[i].rest : m = Other(d, v)
      BY <3>1
    <3>3. CASE d \in stack'[i].members \cup stack'[i].rest
      BY <1>2, <3>1, <3>2, <3>3 DEF Pending
    <3>4. CASE d \notin stack'[i].members \cup stack'[i].rest
      <4>1. d = e
        BY <1>2, <3>2, <3>4
      <4>2. i = top
        BY <1>2, <3>2, <3>4
      <4>3. m = n
        BY <1>3, <3>1, <3>2, <4>1, <4>2
      <4>4. QED
        BY <1>11, <4>3
    <3>5. QED
      BY <3>3, <3>4
  <2>3. QED
    BY <1>7, <1>12, <2>1, <2>2
<1>13. ASSUME NEW w, w = n, NEW m \in Onward(w), visited' # visited
       PROVE  Pending(w, m)'
  <2>1. /\ top + 1 \in 1..Len(stack') /\ stack'[top + 1].node = w
        /\ stack'[top + 1].members = MemberEdges(running, w)
        /\ stack'[top + 1].rest = EdgesOf(running, opts, w)
    BY <1>2, <1>13
  <2>2. \E d \in stack'[top + 1].members \cup stack'[top + 1].rest : m = Other(d, w)
    BY <1>13, <2>1 DEF Onward, OnwardOf
  <2>3. QED
    BY <2>1, <2>2 DEF Pending
<1>14. \A v \in visited' : \A m \in Onward(v) : m \in Reached' \/ Pending(v, m)'
  BY <1>2, <1>12, <1>13
<1>15. running \in {"getTypeAncestors", "getImpactRecursive"} => nodes' \subseteq visited'
  <2>1. SUFFICES ASSUME running \in {"getTypeAncestors", "getImpactRecursive"}
                 PROVE  nodes' \subseteq visited'
    OBVIOUS
  <2>2. ~OneStep
    BY <2>1 DEF OneStep, Calls
  <2>3. n \in visited'
    BY <1>4, <1>11, <2>2 DEF Reached
  <2>4. QED
    BY <1>1, <1>5, <1>7, <2>1, <2>3
<1>16. QED
  BY <1>5, <1>7, <1>10, <1>14, <1>15

\* What the first function has left to the second stays.
LEMMA DepthSecondLooked ==
    ASSUME SearchShape, DepthSecond, NEW e \in edges, Look(e), edges' = edges
    PROVE  DepthSecond'
<1>1. /\ stack # <<>> /\ UNCHANGED <<search, opts, running, queue>> /\ nodes \subseteq nodes'
  BY LookOutcome
<1>2. Callers' = Callers
  BY <1>1, DepthSame
<1>3. QED
  BY <1>1, <1>2 DEF DepthSecond

\* A frame that is left had no edge to look at.
LEMMA DepthLeft ==
    ASSUME SearchShape, DepthStack, DepthSound, DepthComplete, DepthSecond, Leave, edges' = edges
    PROVE  DepthStack' /\ DepthSound' /\ DepthComplete' /\ DepthSecond'
<1>1. /\ stack # <<>> /\ Len(stack) \in Nat \ {0}
      /\ Innermost.members = {} /\ Innermost.rest = {}
      /\ Len(stack') = Len(stack) - 1
      /\ \A i \in 1..(Len(stack) - 1) : stack'[i] = stack[i]
      /\ UNCHANGED <<search, opts, running, queue, visited, nodes, found>>
  BY LeaveOutcome
<1>2. /\ \A d : Reach(d)' = Reach(d)
      /\ \A n : Onward(n)' = Onward(n)
      /\ Callers' = Callers /\ Callees' = Callees /\ OneStep' = OneStep
  BY <1>1, DepthSame
<1>3. \A i \in 1..Len(stack') : i \in 1..Len(stack) /\ i \in 1..(Len(stack) - 1) /\ stack'[i] = stack[i]
  BY <1>1
<1>4. DepthStack'
  BY <1>1, <1>3 DEF DepthStack
<1>5. DepthSound'
  BY <1>1, <1>2, <1>3 DEF DepthSound
<1>6. DepthComplete'
  <2>1. Tracked' = Tracked /\ Reached' = Reached
    BY <1>1, <1>2 DEF Tracked, Reached
  <2>2. ASSUME NEW v, NEW n, Pending(v, n) PROVE Pending(v, n)'
    <3>1. PICK i \in 1..Len(stack) :
            /\ stack[i].node = v
            /\ \E e \in stack[i].members \cup stack[i].rest : n = Other(e, v)
      BY <2>2 DEF Pending
    <3>2. i # Len(stack)
      BY <1>1, <3>1 DEF Innermost
    <3>3. i \in 1..(Len(stack) - 1) /\ i \in 1..Len(stack')
      BY <1>1, <3>1, <3>2
    <3>4. stack'[i] = stack[i]
      BY <1>1, <3>3
    <3>5. QED
      BY <3>1, <3>3, <3>4 DEF Pending
  <2>3. QED
    BY <1>1, <1>2, <2>1, <2>2 DEF DepthComplete
<1>7. DepthSecond'
  BY <1>1, <1>2 DEF DepthSecond
<1>8. QED
  BY <1>4, <1>5, <1>6, <1>7

\* A search that nothing cut short has found all when no call is left.
LEMMA DepthEnds ==
    ASSUME SearchShape, DepthStack, DepthComplete, Tracked, stack = <<>>
    PROVE  /\ opts.from \in visited
           /\ running # "getTypeAncestors" => Reach(opts.maxDepth) \subseteq nodes \cup {opts.from}
           /\ running = "getTypeAncestors" =>
                Closure({opts.from}, Targets(TypeKinds)) \subseteq nodes \cup {opts.from}
<1>1. running \in DepthFirst \ {"getTypeDescendants"} /\ edges \in SUBSET Rows
  BY DEF Tracked, SearchShape, SearchTypeOK
<1>2. search # "none"
  BY <1>1 DEF SearchShape, Phases, AtRest, DepthFirst, Calls
<1>3. opts \in Options /\ opts.from \in Nodes /\ opts.maxDepth \in Nat
  BY <1>2, PhasesKnown
<1>4. ASSUME NEW v \in visited PROVE Onward(v) \subseteq Reached
  <2>1. 1..Len(stack) = {}
    OBVIOUS
  <2>2. QED
    BY <2>1, <1>4 DEF DepthComplete, Pending
<1>5. opts.from \in visited /\ (OneStep => visited = {opts.from})
  BY DEF DepthComplete
<1>6. Reached \subseteq nodes \cup {opts.from} /\ visited \subseteq nodes \cup {opts.from}
  BY DEF Reached, DepthStack
<1>7. visited \in SUBSET Nodes
  BY DEF SearchShape, SearchTypeOK
<1> DEFINE step == StepOf(running, opts)
<1>8. step \in Relations
  BY <1>1, StepOfTyped
<1>9. \A m \in Nodes : step[m] = {Other(e, m) : e \in EdgesOf(running, opts, m)}
  BY DEF StepOf
<1>10. \A m \in Nodes : step[m] \subseteq Onward(m)
  BY <1>9 DEF Onward, OnwardOf
<1> HIDE DEF step
<1>11. CASE OneStep
  <2>1. running \in Calls /\ opts.maxDepth = 1 /\ Reached = nodes \cup {opts.from}
    BY <1>11 DEF OneStep, Reached
  <2>2. Within(opts.from, 0, step) = {opts.from}
    BY <1>3, <1>8, WithinStep
  <2>3. ASSUME NEW d \in Nat, d < 1, NEW m \in Reached \cap Within(opts.from, d, step)
        PROVE  step[m] \subseteq Reached
    <3>1. d = 0
      BY <2>3
    <3>2. m = opts.from
      BY <2>2, <2>3, <3>1
    <3>3. QED
      BY <1>3, <1>4, <1>5, <1>10, <3>2
  <2>4. Within(opts.from, 1, step) \subseteq Reached
    BY <1>3, <1>8, <2>1, <2>3, WithinInside
  <2>5. Reach(opts.maxDepth) = Within(opts.from, 1, step)
    BY <2>1 DEF Reach, ReachOf, Calls, step
  <2>6. QED
    BY <1>5, <1>6, <2>1, <2>4, <2>5 DEF Calls
<1>12. CASE ~OneStep
  <2>1. Reached = visited
    BY <1>12 DEF Reached
  <2>2. \A m \in visited : step[m] \subseteq visited
    BY <1>4, <1>7, <1>10, <2>1
  <2>3. CASE running = "getImpactRecursive"
    <3>1. step = References
      BY <1>1, <2>3, StepsOfFunctions DEF step
    <3>2. ASSUME NEW m \in visited PROVE Members[m] \subseteq visited
      <4>1. Members[m] = {Other(e, m) : e \in MemberEdges(running, m)}
        BY <1>1, <1>7, <2>3, MembersReached
      <4>2. Members[m] \subseteq Onward(m)
        BY <4>1 DEF Onward, OnwardOf
      <4>3. QED
        BY <1>4, <2>1, <4>2
    <3>3. Dependents(opts.from, opts.maxDepth) \subseteq visited
      BY <1>1, <1>3, <1>5, <1>7, <2>2, <3>1, <3>2, DependentsInside
    <3>4. Reach(opts.maxDepth) = Dependents(opts.from, opts.maxDepth)
      BY <2>3 DEF Reach, ReachOf
    <3>5. QED
      BY <1>5, <1>6, <2>3, <3>3, <3>4
  <2>4. CASE running = "getTypeAncestors"
    <3>1. step = Targets(TypeKinds)
      BY <1>1, <2>4, StepsOfFunctions DEF step
    <3>2. Closure({opts.from}, step) \subseteq visited
      <4>1. {opts.from} \in SUBSET Nodes /\ {opts.from} \subseteq visited
        BY <1>3, <1>5
      <4>2. QED
        BY <1>7, <1>8, <2>2, <4>1, ClosureIsLeast
    <3>3. QED
      BY <1>5, <1>6, <2>4, <3>1, <3>2
  <2>5. CASE running \notin {"getImpactRecursive", "getTypeAncestors"}
    <3>1. Within(opts.from, opts.maxDepth, step) \subseteq visited
      BY <1>3, <1>5, <1>8, <2>2, WithinInside
    <3>2. Reach(opts.maxDepth) = Within(opts.from, opts.maxDepth, step)
      BY <2>5 DEF Reach, ReachOf, step
    <3>3. QED
      BY <1>5, <1>6, <2>5, <3>1, <3>2
  <2>6. QED
    BY <2>3, <2>4, <2>5
<1>13. QED
  BY <1>11, <1>12

\* The callers are known: the callees are next.
LEMMA CalleesNextKept ==
    ASSUME SearchShape, DepthInv, CalleesNext, edges' = edges
    PROVE  DepthStack' /\ DepthSound' /\ DepthComplete' /\ DepthSecond'
<1> DEFINE g == "getCalleesRecursive"
<1>1. /\ search = "getCallGraph" /\ running = "getCallersRecursive" /\ stack = <<>>
      /\ running' = g /\ search' = search /\ opts' = opts /\ nodes' = nodes
      /\ FirstCall(g, opts, {}, nodes')
  BY DEF CalleesNext
<1>2. DepthStack /\ DepthSound /\ DepthComplete
  BY <1>1 DEF DepthInv, DepthFirst, Calls
<1>3. edges \in SUBSET Rows /\ opts \in Options /\ nodes \in SUBSET Nodes /\ opts.maxDepth \in Nat
  <2>1. search # "none"
    BY <1>1
  <2>2. QED
    BY <2>1, PhasesKnown DEF SearchShape, SearchTypeOK
<1>4. opts.from \in nodes /\ nodes \subseteq Callers \cup Callees
  BY <1>1, <1>2 DEF DepthStack, DepthSound
<1>5. Callers' = Callers /\ Callees' = Callees
  <2>1. \A kinds : Sources(kinds)' = Sources(kinds) /\ Targets(kinds)' = Targets(kinds)
    BY DEF Sources, Targets, getIncomingEdges, getOutgoingEdges
  <2>2. QED
    BY <1>1, <2>1 DEF Callers, Callees, Within
<1>6. g \in DepthFirst \ {"getTypeDescendants"}
  BY DEF DepthFirst, Calls
<1>7. DepthStack' /\ DepthSound' /\ DepthComplete'
  BY <1>1, <1>3, <1>4, <1>5, <1>6, DepthBegins
<1>8. opts.maxDepth = 1 \/ opts.maxDepth >= Cardinality(Nodes) => Callers \subseteq nodes
  <2>1. SUFFICES ASSUME opts.maxDepth = 1 \/ opts.maxDepth >= Cardinality(Nodes)
                 PROVE  Callers \subseteq nodes
    OBVIOUS
  <2>2. Tracked
    BY <1>1, <2>1 DEF Tracked, OneStep, DepthFirst, Calls
  <2>3. Reach(opts.maxDepth) \subseteq nodes \cup {opts.from}
    BY <1>1, <1>2, <2>2, DepthEnds
  <2>4. QED
    BY <1>1, <1>4, <2>3, CallsReach
<1>9. DepthSecond'
  BY <1>1, <1>5, <1>8 DEF DepthSecond
<1>10. QED
  BY <1>7, <1>9

\* The ancestors are known. The node itself is among what was visited, so that the
\* call for its descendants returns at once.
LEMMA DescendantsNextKept ==
    ASSUME SearchShape, DepthInv, DescendantsNext, edges' = edges
    PROVE  DepthStack' /\ DepthSound' /\ DepthComplete' /\ DepthSecond'
<1> DEFINE g == "getTypeDescendants"
<1>1. /\ running = "getTypeAncestors" /\ stack = <<>>
      /\ running' = g /\ search' = search /\ opts' = opts /\ nodes' = nodes
      /\ FirstCall(g, opts, visited, nodes)
  BY DEF DescendantsNext
<1>2. DepthStack /\ DepthSound /\ DepthComplete
  BY <1>1 DEF DepthInv, DepthFirst, Calls
<1>3. search = "getTypeHierarchy"
  BY <1>1 DEF SearchShape, Phases, AtRest, BreadthFirst
<1>4. Tracked
  BY <1>1 DEF Tracked, DepthFirst
<1>5. /\ opts.from \in visited
      /\ Closure({opts.from}, Targets(TypeKinds)) \subseteq nodes \cup {opts.from}
  BY <1>1, <1>2, <1>4, DepthEnds
<1>6. opts.from \in nodes
  BY <1>2, <1>3 DEF DepthStack
<1>7. stack' = <<>> /\ visited' = visited
  BY <1>1, <1>5 DEF FirstCall, Refused
<1>8. Targets(TypeKinds)' = Targets(TypeKinds)
  BY DEF Targets, getOutgoingEdges
<1>9. 1..Len(stack') = {}
  BY <1>7
<1>10. DepthStack'
  BY <1>1, <1>2, <1>7, <1>9 DEF DepthStack
<1>11. DepthSound'
  BY <1>1, <1>3, <1>9 DEF DepthSound
<1>12. DepthComplete'
  BY <1>1 DEF DepthComplete, Tracked
<1>13. DepthSecond'
  BY <1>1, <1>3, <1>5, <1>6, <1>7, <1>8 DEF DepthSecond
<1>14. QED
  BY <1>10, <1>11, <1>12, <1>13

\* What a step that leaves a depth-first search running can be
LEMMA DepthMoves ==
    ASSUME SearchShape, Begins \/ SearchStep \/ Returned, running' \in DepthFirst
    PROVE  \/ running \in DepthFirst /\ (Leave \/ \E e \in edges : Look(e))
           \/ CalleesNext \/ DescendantsNext
           \/ \E o \in Options :
                \/ StartDepthFirst("traverseDFS", "dfsRecursive", o, {o.from})
                \/ StartDepthFirst("getCallers", "getCallersRecursive", o, {})
                \/ StartDepthFirst("getCallees", "getCalleesRecursive", o, {})
                \/ StartDepthFirst("getCallGraph", "getCallersRecursive", o, {o.from})
                \/ StartDepthFirst("getTypeHierarchy", "getTypeAncestors", o, {o.from})
                \/ StartDepthFirst("getImpactRadius", "getImpactRecursive", o, {o.from})
<1>1. running' \notin BreadthFirst /\ running' # "none"
  BY DEF DepthFirst, Calls, BreadthFirst
<1>2. CASE Begins
  <2>1. \A o : /\ ~StartBreadthFirst("traverseBFS", o, {o.from})
               /\ ~StartBreadthFirst("findPath", o, {})
    BY <1>1 DEF StartBreadthFirst, BreadthFirst
  <2>2. QED
    BY <1>2, <2>1 DEF Begins
<1>3. CASE SearchStep
  <2>1. ~TakeStep
    BY <1>1 DEF TakeStep
  <2>2. \A e : ~QueueNeighbour(e)
    BY <1>1 DEF QueueNeighbour
  <2>3. Leave => running \in DepthFirst
    BY DEF Leave
  <2>4. \A e : Look(e) => running \in DepthFirst
    BY DEF Look
  <2>5. QED
    BY <1>3, <2>1, <2>2, <2>3, <2>4 DEF SearchStep
<1>4. CASE Returned
  BY <1>1, <1>4 DEF Returned
<1>5. QED
  BY <1>2, <1>3, <1>4

\* A search by depth begins in its invariant.
LEMMA DepthInvBegins ==
    ASSUME SearchShape, edges' = edges, NEW o \in Options, SearchShape',
           \/ StartDepthFirst("traverseDFS", "dfsRecursive", o, {o.from})
           \/ StartDepthFirst("getCallers", "getCallersRecursive", o, {})
           \/ StartDepthFirst("getCallees", "getCalleesRecursive", o, {})
           \/ StartDepthFirst("getCallGraph", "getCallersRecursive", o, {o.from})
           \/ StartDepthFirst("getTypeHierarchy", "getTypeAncestors", o, {o.from})
           \/ StartDepthFirst("getImpactRadius", "getImpactRecursive", o, {o.from})
    PROVE  DepthInv'
<1>1. PICK f \in DepthFirst \ {"getTypeDescendants"} :
        /\ running' = f /\ opts' = o /\ FirstCall(f, o, {}, nodes')
        /\ search' # "getCallGraph" \/ f = "getCallersRecursive"
        /\ nodes' \in {{o.from}, {}}
        /\ nodes' = {} <=> search' \in {"getCallers", "getCallees"}
  BY DEF StartDepthFirst, DepthFirst, Calls
<1>2. edges \in SUBSET Rows /\ o.from \in Nodes /\ o.maxDepth \in Nat
  BY DEF SearchShape, SearchTypeOK, Options
<1>3. nodes' \in SUBSET Nodes
  BY DEF SearchShape, SearchTypeOK
<1>4. o.from \in Callers'
  <2>1. Sources(CallKinds) \in Relations
    BY <1>2, RelationsTyped
  <2>2. Sources(CallKinds)' = Sources(CallKinds)
    BY DEF Sources, getIncomingEdges
  <2>3. Callers' = Within(o.from, o.maxDepth, Sources(CallKinds))
    BY <1>1, <2>2 DEF Callers, Within
  <2>4. Within(o.from, 0, Sources(CallKinds)) = {o.from}
    BY <1>2, <2>1, WithinStep
  <2>5. Within(o.from, 0, Sources(CallKinds)) \subseteq Within(o.from, o.maxDepth, Sources(CallKinds))
    BY <1>2, <2>1, WithinGrows
  <2>6. QED
    BY <2>3, <2>4, <2>5
<1>5. DepthStack' /\ DepthSound' /\ DepthComplete'
  <2>1. nodes' \subseteq {o.from}
    BY <1>1
  <2>2. search' \notin {"getCallers", "getCallees"} => o.from \in nodes'
    BY <1>1
  <2>3. search' \in {"getCallers", "getCallees"} => o.from \notin nodes'
    BY <1>1
  <2>4. QED
    BY <1>1, <1>2, <1>3, <1>4, <2>1, <2>2, <2>3, DepthBegins
<1>6. DepthSecond'
  BY <1>1 DEF DepthSecond
<1>7. QED
  BY <1>5, <1>6 DEF DepthInv

\* Every step of Traversal keeps the invariant of a search by depth.
LEMMA DepthInvKept ==
    ASSUME SearchShape, ContextShape, DepthInv, [Next]_vars
    PROVE  DepthInv'
<1> SUFFICES ASSUME running' \in DepthFirst
             PROVE  DepthStack' /\ DepthSound' /\ DepthComplete' /\ DepthSecond'
  BY DEF DepthInv
<1>1. SearchShape'
  BY SearchShapeKept
<1>2. CASE UNCHANGED searchVars /\ (edges' = edges \/ search = "none")
  <2>1. UNCHANGED <<search, opts, running, queue, stack, visited, nodes, found>>
    BY <1>2 DEF searchVars
  <2>2. running \in DepthFirst /\ edges' = edges
    BY <1>2, <2>1 DEF SearchShape, Phases, AtRest, DepthFirst, Calls
  <2>3. /\ \A d : Reach(d)' = Reach(d)
        /\ \A n : Onward(n)' = Onward(n)
        /\ Callers' = Callers /\ Callees' = Callees /\ OneStep' = OneStep
        /\ Targets(TypeKinds)' = Targets(TypeKinds)
    BY <2>1, <2>2, DepthSame
  <2>4. DepthStack /\ DepthSound /\ DepthComplete /\ DepthSecond
    BY <2>2 DEF DepthInv
  <2>5. DepthStack' /\ DepthSound'
    BY <2>1, <2>3, <2>4 DEF DepthStack, DepthSound
  <2>6. DepthComplete'
    <3>1. Tracked' = Tracked /\ Reached' = Reached /\ \A v, n : Pending(v, n)' <=> Pending(v, n)
      BY <2>1, <2>3 DEF Tracked, Reached, Pending
    <3>2. QED
      BY <2>1, <2>3, <2>4, <3>1 DEF DepthComplete
  <2>7. DepthSecond'
    BY <2>1, <2>3, <2>4 DEF DepthSecond
  <2>8. QED
    BY <2>5, <2>6, <2>7
<1>3. CASE edges' = edges /\ (Begins \/ SearchStep \/ Returned)
  <2>1. CASE running \in DepthFirst /\ (Leave \/ \E e \in edges : Look(e))
    <3>1. DepthStack /\ DepthSound /\ DepthComplete /\ DepthSecond
      BY <2>1 DEF DepthInv
    <3>2. CASE Leave
      BY <1>3, <3>1, <3>2, DepthLeft
    <3>3. ASSUME NEW e \in edges, Look(e)
          PROVE  DepthStack' /\ DepthSound' /\ DepthComplete' /\ DepthSecond'
      BY <1>3, <3>1, <3>3, DepthStackLooked, DepthSoundLooked, DepthCompleteLooked, DepthSecondLooked
    <3>4. QED
      BY <2>1, <3>2, <3>3
  <2>2. CASE CalleesNext
    BY <1>3, <2>2, CalleesNextKept
  <2>3. CASE DescendantsNext
    BY <1>3, <2>3, DescendantsNextKept
  <2>4. CASE \E o \in Options :
               \/ StartDepthFirst("traverseDFS", "dfsRecursive", o, {o.from})
               \/ StartDepthFirst("getCallers", "getCallersRecursive", o, {})
               \/ StartDepthFirst("getCallees", "getCalleesRecursive", o, {})
               \/ StartDepthFirst("getCallGraph", "getCallersRecursive", o, {o.from})
               \/ StartDepthFirst("getTypeHierarchy", "getTypeAncestors", o, {o.from})
               \/ StartDepthFirst("getImpactRadius", "getImpactRecursive", o, {o.from})
    <3>1. DepthInv'
      BY <1>1, <1>3, <2>4, DepthInvBegins
    <3>2. QED
      BY <3>1 DEF DepthInv
  <2>5. QED
    BY <1>3, <2>1, <2>2, <2>3, <2>4, DepthMoves
<1>4. QED
  BY <1>2, <1>3, SearchMoves

-----------------------------------------------------------------------------
(* What the searches by depth have found when they end.                     *)

\* traverseDFS ends with what its definition says.
LEMMA DepthFirstEnds ==
    ASSUME SearchShape, DepthInv, Finished, search = "traverseDFS"
    PROVE  DepthFirstIsExact
<1>1. running = "dfsRecursive" /\ running \in DepthFirst
  BY DEF SearchShape, Phases, AtRest, BreadthFirst, DepthFirst
<1>2. DepthStack /\ DepthSound /\ DepthComplete /\ stack = <<>>
  BY <1>1 DEF DepthInv, Finished
<1>3. edges \in SUBSET Rows /\ opts.from \in nodes /\ nodes \subseteq Reach(opts.maxDepth)
  BY <1>2 DEF SearchShape, SearchTypeOK, DepthStack, DepthSound
<1>4. Reach(opts.maxDepth) = Within(opts.from, opts.maxDepth, Neighbours(opts.direction))
  BY <1>1, <1>3, StepsOfFunctions DEF Reach, ReachOf
<1>5. ASSUME Cardinality(nodes) < opts.limit, opts.maxDepth >= Cardinality(Nodes)
      PROVE  nodes = Reach(opts.maxDepth)
  <2>1. Tracked
    BY <1>1, <1>5 DEF Tracked
  <2>2. Reach(opts.maxDepth) \subseteq nodes \cup {opts.from}
    BY <1>1, <1>2, <2>1, DepthEnds
  <2>3. QED
    BY <1>3, <2>2
<1>6. QED
  BY <1>3, <1>4, <1>5 DEF DepthFirstIsExact

\* So do the searches for callers and callees.
LEMMA CallsEnd ==
    ASSUME SearchShape, DepthInv, Finished, search \in {"getCallers", "getCallees", "getCallGraph"}
    PROVE  CallsAreExact
<1>1. /\ search = "getCallers" => running = "getCallersRecursive"
      /\ search # "getCallers" => running = "getCalleesRecursive"
      /\ running \in DepthFirst
  BY DEF Finished, SearchShape, Phases, AtRest, BreadthFirst, DepthFirst, Calls
<1>2. DepthStack /\ DepthSound /\ DepthComplete /\ DepthSecond /\ stack = <<>>
  BY <1>1 DEF DepthInv, Finished
<1>3. /\ search = "getCallers" => Reach(opts.maxDepth) = Callers
      /\ search # "getCallers" => Reach(opts.maxDepth) = Callees
  BY <1>1, CallsReach
<1>4. ASSUME opts.maxDepth = 1 \/ opts.maxDepth >= Cardinality(Nodes)
      PROVE  Reach(opts.maxDepth) \subseteq nodes \cup {opts.from}
  <2>1. Tracked
    BY <1>1, <1>4 DEF Tracked, OneStep, Calls
  <2>2. QED
    BY <1>1, <1>2, <2>1, DepthEnds
<1>5. CASE search = "getCallers"
  <2>1. nodes \subseteq Callers \ {opts.from}
    BY <1>2, <1>3, <1>5 DEF DepthSound
  <2>2. opts.maxDepth = 1 \/ opts.maxDepth >= Cardinality(Nodes) => nodes = Callers \ {opts.from}
    BY <1>3, <1>4, <1>5, <2>1
  <2>3. QED
    BY <1>5, <2>1, <2>2 DEF CallsAreExact, Callers
<1>6. CASE search = "getCallees"
  <2>1. nodes \subseteq Callees \ {opts.from}
    BY <1>2, <1>3, <1>6 DEF DepthSound
  <2>2. opts.maxDepth = 1 \/ opts.maxDepth >= Cardinality(Nodes) => nodes = Callees \ {opts.from}
    BY <1>3, <1>4, <1>6, <2>1
  <2>3. QED
    BY <1>6, <2>1, <2>2 DEF CallsAreExact, Callees
<1>7. CASE search = "getCallGraph"
  <2>1. nodes \subseteq Callers \cup Callees /\ opts.from \in nodes
    BY <1>2, <1>7 DEF DepthSound, DepthStack
  <2>2. opts.maxDepth = 1 \/ opts.maxDepth >= Cardinality(Nodes) => nodes = Callers \cup Callees
    BY <1>1, <1>2, <1>3, <1>4, <1>7, <2>1 DEF DepthSecond
  <2>3. QED
    BY <1>7, <2>1, <2>2 DEF CallsAreExact, Callers, Callees
<1>8. QED
  BY <1>5, <1>6, <1>7

\* So does the search for the impact of a node.
LEMMA ImpactEnds ==
    ASSUME SearchShape, DepthInv, Finished, search = "getImpactRadius"
    PROVE  ImpactIsExact
<1>1. running = "getImpactRecursive" /\ running \in DepthFirst
  BY DEF SearchShape, Phases, AtRest, BreadthFirst, DepthFirst
<1>2. DepthStack /\ DepthSound /\ DepthComplete /\ stack = <<>>
  BY <1>1 DEF DepthInv, Finished
<1>3. opts.from \in nodes /\ nodes \subseteq Reach(opts.maxDepth)
  BY <1>2 DEF DepthStack, DepthSound
<1>4. Reach(opts.maxDepth) = Dependents(opts.from, opts.maxDepth)
  BY <1>1 DEF Reach, ReachOf
<1>5. ASSUME opts.maxDepth >= Cardinality(Nodes) PROVE nodes = Reach(opts.maxDepth)
  <2>1. Tracked
    BY <1>1, <1>5 DEF Tracked
  <2>2. Reach(opts.maxDepth) \subseteq nodes \cup {opts.from}
    BY <1>1, <1>2, <2>1, DepthEnds
  <2>3. QED
    BY <1>3, <2>2
<1>6. QED
  BY <1>3, <1>4, <1>5 DEF ImpactIsExact

\* So does the search for a hierarchy, as to the ancestors.
LEMMA HierarchyEnds ==
    ASSUME SearchShape, DepthInv, Finished, search = "getTypeHierarchy"
    PROVE  AncestorsAreThere
<1>1. running = "getTypeDescendants" /\ running \in DepthFirst
  BY DEF Finished, SearchShape, Phases, AtRest, BreadthFirst, DepthFirst
<1>2. QED
  BY <1>1 DEF DepthInv, DepthSecond, AncestorsAreThere

-----------------------------------------------------------------------------
(* The theorems.                                                            *)

\* What holds of every state of a search, of a context and of a search for circles
Inv ==
    /\ SearchShape /\ ContextShape /\ CycleShape
    /\ BreadthInv /\ DepthInv /\ CyclesKept

\* The inductive invariant holds throughout.
LEMMA InvHolds == Spec => []Inv
<1>1. Init => Inv
  <2>1. SUFFICES ASSUME Init PROVE Inv
    OBVIOUS
  <2>2. SearchShape /\ ContextShape
    BY <2>1, ShapeInit
  <2>3. BreadthInv /\ DepthInv
    BY <2>1 DEF Init, SearchInit, AtRest, BreadthInv, DepthInv, BreadthFirst, DepthFirst, Calls
  <2>4. CycleShape /\ CyclesKept
    <3>1. calls = <<>> /\ traced = {} /\ cycles = {} /\ starts = {} /\ looking = FALSE
      BY <2>1 DEF Init, CycleInit
    <3>2. 1..Len(calls) = {}
      BY <3>1
    <3>3. Done = {}
      BY <3>1 DEF Done
    <3>4. CallsArePath /\ NoKnot
      BY <3>2, <3>3 DEF CallsArePath, NoKnot
    <3>5. <<>> \in Seq(Called)
      OBVIOUS
    <3>6. CycleTypeOK
      BY <3>1, <3>5 DEF CycleTypeOK, Called
    <3>7. QED
      BY <3>1, <3>4, <3>6 DEF CycleShape, CyclesKept
  <2>5. QED
    BY <2>2, <2>3, <2>4 DEF Inv
<1>2. Inv /\ [Next]_vars => Inv'
  <2>1. SUFFICES ASSUME Inv, [Next]_vars PROVE Inv'
    OBVIOUS
  <2>2. edges \in SUBSET Rows
    BY <2>1 DEF Inv, SearchShape, SearchTypeOK
  <2>3. SearchShape' /\ ContextShape' /\ CycleShape' /\ CyclesKept'
    BY <2>1, <2>2, SearchShapeKept, ContextShapeKept, CyclesKeptNext DEF Inv
  <2>4. BreadthInv' /\ DepthInv'
    BY <2>1, BreadthInvKept, DepthInvKept DEF Inv
  <2>5. QED
    BY <2>3, <2>4 DEF Inv
<1>3. QED
  BY <1>1, <1>2, PTL DEF Spec

\* The variables of Traversal have the types that TypeOK says.
THEOREM TypesAreRight == Spec => []TypeOK
<1>1. Inv => TypeOK
  BY DEF Inv, TypeOK, SearchShape, ContextShape, CycleShape
<1>2. QED
  BY <1>1, InvHolds, PTL

\* A search by breadth, by depth or for a path, and the search for circles, end with
\* what their definitions say, whatever the graph (traversal.ts:48-199, :550-607,
\* graph/queries.ts:226-264).
THEOREM SearchesFindExactly == Spec => []SearchesAreExact
<1>1. Inv => SearchesAreExact
  <2>1. SUFFICES ASSUME Inv PROVE SearchesAreExact
    OBVIOUS
  <2>2. AllLookedAt => CyclesAreExact
    BY <2>1, CyclesExact DEF Inv
  <2>3. ASSUME Finished, search = "traverseBFS" PROVE BreadthFirstIsExact
    <3>1. running = "traverseBFS"
      BY <2>1, <2>3 DEF Inv, SearchShape, Phases, AtRest, BreadthFirst
    <3>2. Breadth /\ BreadthResult
      BY <2>1, <3>1 DEF Inv, BreadthInv, Answered, BreadthFirst
    <3>3. QED
      BY <2>1, <2>3, <3>2, BreadthFirstEnds DEF Inv
  <2>4. ASSUME Finished, search = "findPath" PROVE PathIsShortest
    <3>1. running = "findPath"
      BY <2>1, <2>4 DEF Inv, SearchShape, Phases, AtRest, BreadthFirst
    <3>2. (~Answered => Breadth) /\ PathResult
      BY <2>1, <3>1 DEF Inv, BreadthInv, BreadthFirst
    <3>3. QED
      BY <2>1, <2>4, <3>2, PathEnds DEF Inv
  <2>5. ASSUME Finished, search = "traverseDFS" PROVE DepthFirstIsExact
    BY <2>1, <2>5, DepthFirstEnds DEF Inv
  <2>6. QED
    BY <2>2, <2>3, <2>4, <2>5 DEF SearchesAreExact
<1>2. QED
  BY <1>1, InvHolds, PTL

\* Callers, callees, the impact of a node and the ancestors of a type are found,
\* whatever the graph (traversal.ts:230-540).
THEOREM DependentsFound == Spec => []DependentsAreFound
<1>1. Inv => DependentsAreFound
  <2>1. SUFFICES ASSUME Inv, Finished PROVE DependentsAreFound
    BY DEF DependentsAreFound
  <2>2. SearchShape /\ DepthInv
    BY <2>1 DEF Inv
  <2>3. search \in {"getCallers", "getCallees", "getCallGraph"} => CallsAreExact
    BY <2>1, <2>2, CallsEnd
  <2>4. search = "getImpactRadius" => ImpactIsExact
    BY <2>1, <2>2, ImpactEnds
  <2>5. search = "getTypeHierarchy" => AncestorsAreThere
    BY <2>1, <2>2, HierarchyEnds
  <2>6. QED
    BY <2>3, <2>4, <2>5 DEF DependentsAreFound
<1>2. QED
  BY <1>1, InvHolds, PTL

=============================================================================
