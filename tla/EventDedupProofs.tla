--------------------------- MODULE EventDedupProofs ---------------------------
(***************************************************************************)
(* Proofs about EventDedup for any number of items, any graph, and any     *)
(* weights: union-find with path halving finds the components, and the     *)
(* first of the heaviest of each of them is kept.  An end of links is      *)
(* described by the sets that are closed under links, as a component is by *)
(* the sets that are closed under pairs, so that no path is ever counted.  *)
(***************************************************************************)
EXTENDS EventDedup, TLAPS, FiniteSetTheorems, WellFoundedInduction

USE EventAssumption DEF EventAssumption

\* Where the loops are, and what they hold on to there.
Positions ==
    /\ n > TooMany => sim = {}
    /\ pc = "start" => parent = [m \in Nodes |-> m]
    /\ pc \in {"scan", "findA", "findB"} => i \in Nodes /\ j \in Nodes /\ i < j
    /\ pc \in {"findA", "findB"} => <<i, j>> \in sim /\ x \in Nodes
    /\ pc = "findB" => ra \in Nodes /\ parent[ra] = ra
    /\ pc = "list" => i \in 1..(n + 1)
    /\ pc = "find" => i \in Nodes /\ x \in Nodes

Closed(C) == \A m \in C : parent[m] \in C

\* root maps each item to the end of its links: it is an end, it is the same
\* for an item and its parent, and whatever is closed under links and has the
\* item in it has its end in it too.  So there are no cycles.
LeadsTo(root) ==
    \A m \in Nodes :
        /\ parent[root[m]] = root[m]
        /\ root[parent[m]] = root[m]
        /\ \A C \in SUBSET Nodes : m \in C /\ Closed(C) => root[m] \in C

\* Two items have one end just if pairs of E connect them.
Matches(root, E) == \A m, k \in Nodes : root[m] = root[k] <=> Connected(E, m, k)

Separates(root) == Matches(root, sim \cap Compared)

\* What find returns, and has returned, is the end of the item it was asked for.
Finds(root) ==
    /\ pc = "findA" => root[x] = root[i]
    /\ pc = "findB" => ra = root[i] /\ root[x] = root[j]
    /\ pc = "find" => root[x] = root[i]
    /\ pc \in {"list", "find"} => \A m \in 1..(i - 1) : group[m] = root[m]
    /\ pc = "pick" => \A m \in Nodes : group[m] = root[m]

ForestInv == \E root \in [Nodes -> Nodes] : LeadsTo(root) /\ Separates(root) /\ Finds(root)

IndInv == TypeOK /\ Positions /\ ForestInv /\ OneWinnerPerEvent
-----------------------------------------------------------------------------
\* A non-empty set of numbers has a least one: the initial segments up to its
\* members are finite sets, which inclusion orders without endless descent.
LEMMA LeastNumber ==
    ASSUME NEW S \in SUBSET Nat, S # {}
    PROVE  \E m \in S : \A k \in S : m <= k
<1> DEFINE T == {0..m : m \in S}
<1>1. \A m \in S : 0..m \in FiniteSubsetsOf(Nat)
  BY FS_Interval DEF FiniteSubsetsOf
<1>2. T \subseteq FiniteSubsetsOf(Nat) /\ T # {}
  BY <1>1
<1>3. IsWellFoundedOn(StrictSubsetOrdering(Nat), FiniteSubsetsOf(Nat))
  BY FS_StrictSubsetOrderingWellFounded
<1>4. PICK I \in T : \A J \in T : <<J, I>> \notin StrictSubsetOrdering(Nat)
  <2> HIDE DEF T
  <2> QED BY <1>2, <1>3, WFMin
<1>5. PICK m \in S : I = 0..m
  OBVIOUS
<1>6. ASSUME NEW k \in S, k < m PROVE FALSE
  <2>1. 0..k \in T /\ 0..k \subseteq 0..m /\ 0..k # 0..m
    BY <1>6
  <2>2. <<0..k, 0..m>> \in StrictSubsetOrdering(Nat)
    BY <2>1 DEF StrictSubsetOrdering
  <2> QED BY <1>4, <1>5, <2>1, <2>2
<1> QED BY <1>6

\* Items are numbered from 1.
LEMMA Numbers ==
    ASSUME TypeOK
    PROVE  n \in Nat /\ \A m \in Nodes : m \in Nat /\ 1 <= m /\ m <= n
<1>1. n \in 0..MaxItems
  BY DEF TypeOK
<1>2. n \in Nat
  BY <1>1
<1> QED BY <1>2 DEF Nodes

\* Of any items one is the first of the heaviest, so max() is defined on them.
LEMMA WinnerExists ==
    ASSUME TypeOK, NEW G \in SUBSET Nodes, G # {}
    PROVE  /\ PickWinner(G) \in G
           /\ \A k \in G : \/ weight[k] < weight[PickWinner(G)]
                           \/ weight[k] = weight[PickWinner(G)] /\ PickWinner(G) <= k
<1> DEFINE Lacks == {MaxWeight - weight[m] : m \in G}
<1>1. \A m \in G : m \in Nat /\ weight[m] \in 0..MaxWeight
  <2>1. weight \in [Nodes -> 0..MaxWeight]
    BY DEF TypeOK
  <2> QED BY <2>1, Numbers
<1>2. Lacks \subseteq Nat /\ Lacks # {}
  BY <1>1
<1>3. PICK lack \in Lacks : \A k \in Lacks : lack <= k
  <2> HIDE DEF Lacks
  <2> QED BY <1>2, LeastNumber
<1>4. PICK h \in G : \A k \in G : weight[k] <= weight[h]
  <2>1. PICK h \in G : lack = MaxWeight - weight[h]
    BY <1>3
  <2>2. \A k \in G : MaxWeight - weight[h] <= MaxWeight - weight[k]
    BY <1>3, <2>1
  <2> QED BY <1>1, <2>2
<1> DEFINE Heaviest == {m \in G : weight[m] = weight[h]}
<1>5. PICK w \in Heaviest : \A k \in Heaviest : w <= k
  <2>1. Heaviest \subseteq Nat /\ Heaviest # {}
    BY <1>1
  <2> HIDE DEF Heaviest
  <2> QED BY <2>1, LeastNumber
<1>6. \A k \in G : weight[k] < weight[w] \/ (weight[k] = weight[w] /\ w <= k)
  BY <1>1, <1>4, <1>5
<1> QED BY <1>6 DEF PickWinner
-----------------------------------------------------------------------------
\* Being connected is an equivalence that holds of each pair.
LEMMA ConnectedSelf ==
    ASSUME NEW E, NEW a PROVE Connected(E, a, a)
  BY DEF Connected

LEMMA ConnectedBack ==
    ASSUME NEW E \in SUBSET (Nodes \X Nodes), NEW a \in Nodes, NEW b \in Nodes,
           Connected(E, a, b)
    PROVE  Connected(E, b, a)
<1> SUFFICES ASSUME NEW C \in SUBSET Nodes, b \in C, \A p \in E : p[1] \in C <=> p[2] \in C,
                    a \notin C
             PROVE  FALSE
  BY DEF Connected
<1> DEFINE D == Nodes \ C
<1>1. \A p \in E : p[1] \in D <=> p[2] \in D
  <2>1. \A p \in E : p[1] \in Nodes /\ p[2] \in Nodes
    OBVIOUS
  <2> QED BY <2>1
<1>2. D \in SUBSET Nodes /\ a \in D /\ b \notin D
  OBVIOUS
<1> QED BY <1>1, <1>2 DEF Connected

LEMMA ConnectedOn ==
    ASSUME NEW E, NEW a, NEW b, NEW c, Connected(E, a, b), Connected(E, b, c)
    PROVE  Connected(E, a, c)
  BY DEF Connected

LEMMA ConnectedMore ==
    ASSUME NEW E, NEW F, E \subseteq F, NEW a, NEW b, Connected(E, a, b)
    PROVE  Connected(F, a, b)
  BY DEF Connected

LEMMA ConnectedPair ==
    ASSUME NEW E, NEW a, NEW b, <<a, b>> \in E
    PROVE  Connected(E, a, b)
<1> SUFFICES ASSUME NEW C \in SUBSET Nodes, a \in C, \A p \in E : p[1] \in C <=> p[2] \in C
             PROVE  b \in C
  BY DEF Connected
<1>1. <<a, b>>[1] = a /\ <<a, b>>[2] = b
  OBVIOUS
<1> QED BY <1>1

Joins(joined, root, a, b) ==
    \A m \in Nodes : joined[m] = IF root[m] = a THEN b ELSE root[m]

\* One more pair joins the components of its items and no others.
LEMMA ConnectedByPair ==
    ASSUME NEW E \in SUBSET (Nodes \X Nodes), i \in Nodes, j \in Nodes,
           NEW root \in [Nodes -> Nodes], NEW joined \in [Nodes -> Nodes],
           Matches(root, E), Joins(joined, root, root[i], root[j]),
           NEW F, F = E \cup {<<i, j>>}
    PROVE  Matches(joined, F)
<1> USE DEF Joins, Matches
<1>1. F \in SUBSET (Nodes \X Nodes)
  OBVIOUS
<1>2. ASSUME NEW m \in Nodes, NEW k \in Nodes, Connected(F, m, k)
      PROVE  joined[m] = joined[k]
  <2> DEFINE C == {q \in Nodes : joined[q] = joined[m]}
  <2>1. ASSUME NEW p \in E PROVE joined[p[1]] = joined[p[2]] /\ p[1] \in Nodes /\ p[2] \in Nodes
    <3>1. p[1] \in Nodes /\ p[2] \in Nodes /\ p = <<p[1], p[2]>>
      OBVIOUS
    <3>2. Connected(E, p[1], p[2])
      BY <3>1, ConnectedPair
    <3>3. root[p[1]] = root[p[2]]
      BY <3>1, <3>2
    <3> QED BY <3>1, <3>3
  <2>2. joined[i] = joined[j]
    OBVIOUS
  <2>3. ASSUME NEW p \in F PROVE p[1] \in C <=> p[2] \in C
    <3>1. CASE p \in E
      BY <3>1, <2>1
    <3>2. CASE p = <<i, j>>
      BY <3>2, <2>2
    <3> QED BY <3>1, <3>2
  <2>4. C \in SUBSET Nodes /\ m \in C
    OBVIOUS
  <2>5. k \in C
    <3> HIDE DEF C
    <3> QED BY <1>2, <2>3, <2>4 DEF Connected
  <2> QED BY <2>5
<1>3. ASSUME NEW m \in Nodes, NEW k \in Nodes, joined[m] = joined[k]
      PROVE  Connected(F, m, k)
  <2>1. \A c, d \in Nodes : root[c] = root[d] => Connected(F, c, d)
    BY ConnectedMore
  <2>2. Connected(F, i, j) /\ Connected(F, j, i)
    <3>1. Connected(F, i, j)
      BY ConnectedPair
    <3> QED BY <3>1, <1>1, ConnectedBack
  <2>3. CASE root[m] = root[k]
    BY <2>1, <2>3
  <2>4. CASE root[m] = root[i] /\ root[k] = root[j]
    <3>1. Connected(F, m, i) /\ Connected(F, j, k)
      BY <2>1, <2>4
    <3>2. Connected(F, m, j)
      BY <3>1, <2>2, ConnectedOn
    <3> QED BY <3>1, <3>2, ConnectedOn
  <2>5. CASE root[m] = root[j] /\ root[k] = root[i]
    <3>1. Connected(F, m, j) /\ Connected(F, i, k)
      BY <2>1, <2>5
    <3>2. Connected(F, m, i)
      BY <3>1, <2>2, ConnectedOn
    <3> QED BY <3>1, <3>2, ConnectedOn
  <2> QED BY <1>3, <2>3, <2>4, <2>5
<1> QED BY <1>2, <1>3
-----------------------------------------------------------------------------
\* An end is its own end.
LEMMA EndOfEnd ==
    ASSUME NEW root \in [Nodes -> Nodes], LeadsTo(root), NEW r \in Nodes, parent[r] = r
    PROVE  root[r] = r
<1>1. Closed({r}) /\ {r} \in SUBSET Nodes
  BY DEF Closed
<1>2. root[r] \in {r}
  BY <1>1 DEF LeadsTo
<1> QED BY <1>2

\* So the links lead from an item to its end and nowhere else.
LEMMA RootsAre ==
    ASSUME TypeOK, NEW root \in [Nodes -> Nodes], LeadsTo(root), NEW m \in Nodes
    PROVE  Roots(m) = {root[m]}
<1>1. root[m] \in Roots(m)
  BY DEF Roots, LeadsTo, Closed
<1>2. ASSUME NEW r \in Roots(m) PROVE r = root[m]
  <2> DEFINE C == {k \in Nodes : root[k] = root[m]}
  <2>1. Closed(C) /\ C \in SUBSET Nodes /\ m \in C
    BY DEF Closed, LeadsTo, TypeOK
  <2>2. r \in C /\ parent[r] = r
    <3> HIDE DEF C
    <3> QED BY <2>1 DEF Roots, Closed
  <2>3. root[r] = r
    BY <2>2, EndOfEnd
  <2> QED BY <2>2, <2>3
<1> QED BY <1>1, <1>2

\* Path halving moves a link along its own path, and no end.
LEMMA HalvingKeepsEnds ==
    ASSUME TypeOK, x \in Nodes, NEW root \in [Nodes -> Nodes], LeadsTo(root), UNCHANGED n, Halve
    PROVE  LeadsTo(root)' /\ root[x'] = root[x] /\ x' \in Nodes
<1>1. /\ parent \in [Nodes -> Nodes]
      /\ parent' = [parent EXCEPT ![x] = parent[parent[x]]]
      /\ x' = parent[parent[x]]
      /\ Nodes' = Nodes
  BY DEF TypeOK, Halve, Nodes
<1>2. x' \in Nodes /\ root[x'] = root[x]
  BY <1>1 DEF LeadsTo
<1>3. ASSUME NEW m \in Nodes PROVE parent'[root[m]] = root[m] /\ root[parent'[m]] = root[m]
  <2>1. parent[root[m]] = root[m] /\ root[parent[m]] = root[m]
    BY DEF LeadsTo
  <2>2. root[parent[parent[x]]] = root[x]
    BY <1>1, <1>2
  <2> QED BY <1>1, <2>1, <2>2
<1>4. ASSUME NEW m \in Nodes, NEW C \in SUBSET Nodes, m \in C, \A k \in C : parent'[k] \in C
      PROVE  root[m] \in C
  <2>1. CASE x \notin C
    <3>1. Closed(C)
      BY <1>1, <1>4, <2>1 DEF Closed
    <3> QED BY <3>1, <1>4 DEF LeadsTo
  <2>2. CASE x \in C
    <3> DEFINE D == C \cup {parent[x]}
    <3>1. parent[parent[x]] \in C
      BY <1>1, <1>4, <2>2
    <3>2. ASSUME NEW k \in D PROVE parent[k] \in D
      <4>1. CASE k = x \/ k = parent[x]
        BY <4>1, <3>1
      <4>2. CASE k # x /\ k \in C
        <5>1. parent'[k] = parent[k] /\ parent'[k] \in C
          BY <4>2, <1>1, <1>4
        <5> QED BY <5>1
      <4> QED BY <4>1, <4>2
    <3>3. D \in SUBSET Nodes /\ m \in D /\ Closed(D)
      BY <1>1, <1>4, <3>2 DEF Closed
    <3>4. root[m] \in D /\ parent[root[m]] = root[m]
      <4> HIDE DEF D
      <4> QED BY <3>3 DEF LeadsTo
    <3> QED BY <3>1, <3>4
  <2> QED BY <2>1, <2>2
<1>5. LeadsTo(root)'
  BY <1>1, <1>3, <1>4 DEF LeadsTo, Closed
<1> QED BY <1>2, <1>5

\* Linking an end to another end gives its tree the other's end.
LEMMA LinkingMovesEnds ==
    ASSUME TypeOK, NEW root \in [Nodes -> Nodes], LeadsTo(root), UNCHANGED n,
           NEW a \in Nodes, NEW b \in Nodes, parent[a] = a, parent[b] = b, a # b, Link(a, b),
           NEW joined \in [Nodes -> Nodes], Joins(joined, root, a, b)
    PROVE  LeadsTo(joined)'
<1> USE DEF Joins
<1>1. /\ parent \in [Nodes -> Nodes]
      /\ parent' = [parent EXCEPT ![a] = b]
      /\ Nodes' = Nodes
  BY DEF TypeOK, Link, Nodes
<1>2. root[a] = a /\ root[b] = b
  BY EndOfEnd
<1>3. ASSUME NEW m \in Nodes PROVE parent'[joined[m]] = joined[m] /\ joined[parent'[m]] = joined[m]
  <2>1. parent[root[m]] = root[m] /\ root[parent[m]] = root[m] /\ parent[m] \in Nodes
    BY <1>1 DEF LeadsTo
  <2>2. joined[a] = b /\ joined[b] = b
    BY <1>2
  <2>3. joined[parent'[m]] = joined[m]
    <3>1. CASE m = a
      BY <3>1, <1>1, <2>2
    <3>2. CASE m # a
      BY <3>2, <1>1, <2>1
    <3> QED BY <3>1, <3>2
  <2> QED BY <1>1, <2>1, <2>3
<1>4. ASSUME NEW m \in Nodes, NEW C \in SUBSET Nodes, m \in C, \A k \in C : parent'[k] \in C
      PROVE  joined[m] \in C
  <2>1. Closed(C)
    BY <1>1, <1>4 DEF Closed
  <2>2. root[m] \in C
    BY <1>4, <2>1 DEF LeadsTo
  <2>3. a \in C => b \in C
    BY <1>1, <1>4
  <2> QED BY <2>2, <2>3
<1> QED BY <1>1, <1>3, <1>4 DEF LeadsTo, Closed

-----------------------------------------------------------------------------
LEMMA PairsAre ==
    ASSUME NEW m \in Nat, NEW p \in Pairs(m)
    PROVE  /\ p = <<p[1], p[2]>>
           /\ p[1] \in 1..m /\ p[2] \in 1..m /\ p[1] < p[2]
<1>1. p \in (1..m) \X (1..m) /\ p[1] < p[2]
  BY DEF Pairs
<1> QED BY <1>1

\* The two nested loops meet every pair, each one once and in order.
LEMMA NextPairCompares ==
    ASSUME TypeOK, UNCHANGED n, i \in Nodes, j \in Nodes, i < j,
           pc \in {"scan", "findB"}, NextPair
    PROVE  /\ Compared' = Compared \cup {<<i, j>>}
           /\ pc' = "scan" => i' \in Nodes /\ j' \in Nodes /\ i' < j'
           /\ pc' = "list" => i' = 1 /\ j' = 0
           /\ pc' \in {"scan", "list"}
           /\ {i', j'} \subseteq 0..MaxItems + 1
<1>1. n \in Nat /\ i \in Nat /\ j \in Nat /\ 1 <= i /\ i < j /\ j <= n /\ n <= MaxItems
  <2>1. n \in 0..MaxItems
    BY DEF TypeOK
  <2>2. n \in Nat /\ \A m \in Nodes : m \in Nat /\ 1 <= m /\ m <= n
    BY Numbers
  <2>3. i \in Nat /\ j \in Nat /\ 1 <= i /\ j <= n
    BY <2>2
  <2> QED BY <2>1, <2>2, <2>3
<1>2. Pairs(n)' = Pairs(n)
  BY DEF Pairs
<1>3. \A p \in Pairs(n) : /\ p = <<p[1], p[2]>> /\ p[1] \in Nat /\ p[2] \in Nat
                          /\ 1 <= p[1] /\ p[1] < p[2] /\ p[2] <= n
  BY <1>1, PairsAre
<1>4. <<i, j>> \in Pairs(n)
  BY <1>1 DEF Pairs
<1>5. Compared = {p \in Pairs(n) : p[1] < i \/ (p[1] = i /\ p[2] < j)}
  BY DEF Compared
<1>6. CASE j = n /\ i + 1 = n
  <2>1. pc' = "list" /\ i' = 1 /\ j' = 0
    BY <1>6 DEF NextPair
  <2>2. Compared' = Pairs(n)
    BY <2>1, <1>2 DEF Compared
  <2>3. \A p \in Pairs(n) : p \in Compared \cup {<<i, j>>}
    BY <1>1, <1>3, <1>5, <1>6
  <2> QED BY <2>1, <2>2, <2>3, <1>1, <1>4, <1>5
<1>7. CASE j = n /\ i + 1 # n
  <2>1. pc' = "scan" /\ i' = i + 1 /\ j' = i + 2
    BY <1>7 DEF NextPair
  <2>2. Compared' = {p \in Pairs(n) : p[1] < i + 1 \/ (p[1] = i + 1 /\ p[2] < i + 2)}
    BY <2>1, <1>2 DEF Compared
  <2>3. i' \in Nodes /\ j' \in Nodes /\ i' < j'
    BY <2>1, <1>1, <1>7 DEF Nodes
  <2>4. \A p \in Pairs(n) : p \in Compared' <=> (p \in Compared \/ p = <<i, j>>)
    BY <2>2, <1>1, <1>3, <1>5, <1>7
  <2> QED BY <2>1, <2>2, <2>3, <2>4, <1>1, <1>4, <1>5
<1>8. CASE j # n
  <2>1. pc' = "scan" /\ i' = i /\ j' = j + 1
    BY <1>8 DEF NextPair
  <2>2. Compared' = {p \in Pairs(n) : p[1] < i \/ (p[1] = i /\ p[2] < j + 1)}
    BY <2>1, <1>2 DEF Compared
  <2>3. i' \in Nodes /\ j' \in Nodes /\ i' < j'
    BY <2>1, <1>1, <1>8 DEF Nodes
  <2>4. \A p \in Pairs(n) : p \in Compared' <=> (p \in Compared \/ p = <<i, j>>)
    BY <2>2, <1>1, <1>3, <1>5, <1>8
  <2> QED BY <2>1, <2>2, <2>3, <2>4, <1>1, <1>4, <1>5
<1> QED BY <1>6, <1>7, <1>8
-----------------------------------------------------------------------------
\* What a step must show of the forest, and what it gets from what it leaves alone.
LEMMA ForestBy ==
    ASSUME UNCHANGED n, NEW root \in [Nodes -> Nodes],
           LeadsTo(root)', Separates(root)', Finds(root)'
    PROVE  ForestInv'
<1>1. root \in [Nodes' -> Nodes']
  BY DEF Nodes
<1> QED BY <1>1 DEF ForestInv

LEMMA LeadsToStays ==
    ASSUME UNCHANGED <<n, parent>>, NEW root \in [Nodes -> Nodes], LeadsTo(root)
    PROVE  LeadsTo(root)'
  BY DEF LeadsTo, Closed, Nodes

LEMMA SeparatesBy ==
    ASSUME UNCHANGED n, NEW E, (sim \cap Compared)' = E, NEW root \in [Nodes -> Nodes], Matches(root, E)
    PROVE  Separates(root)'
<1>1. Nodes' = Nodes
  BY DEF Nodes
<1> QED BY <1>1 DEF Separates, Matches, Connected

LEMMA SeparatesStays ==
    ASSUME UNCHANGED n, (sim \cap Compared)' = sim \cap Compared,
           NEW root \in [Nodes -> Nodes], Separates(root)
    PROVE  Separates(root)'
<1> DEFINE E == sim \cap Compared
<1>1. (sim \cap Compared)' = E
  OBVIOUS
<1>2. Matches(root, E)
  BY DEF Separates
<1> HIDE DEF E
<1> QED BY <1>1, <1>2, SeparatesBy

\* The winner that K has for the event of m.
Wins(K, m) ==
    \E w \in K : /\ {v \in K : Connected(sim, m, v[1])} = {w}
                 /\ w[2] = Cardinality({k \in Nodes : Connected(sim, m, k)})
                 /\ weight[m] < weight[w[1]] \/ (weight[m] = weight[w[1]] /\ w[1] <= m)

LEMMA OneWinnerBy ==
    ASSUME UNCHANGED <<n, sim, weight>>, NEW K, K = kept',
           pc' = "done" /\ n <= TooMany => \A m \in Nodes : Wins(K, m)
    PROVE  OneWinnerPerEvent'
<1>1. Nodes' = Nodes
  BY DEF Nodes
<1>2. \A a, b : Connected(sim, a, b)' <=> Connected(sim, a, b)
  BY <1>1 DEF Connected
<1> SUFFICES ASSUME pc' = "done", n <= TooMany, NEW m \in Nodes
             PROVE  \E w \in K : /\ {v \in K : Connected(sim, m, v[1])'} = {w}
                                 /\ w[2] = Cardinality({k \in Nodes : Connected(sim, m, k)'})
                                 /\ \/ weight[m] < weight[w[1]]
                                    \/ weight[m] = weight[w[1]] /\ w[1] <= m
  BY <1>1 DEF OneWinnerPerEvent
<1>3. {v \in K : Connected(sim, m, v[1])'} = {v \in K : Connected(sim, m, v[1])}
  BY <1>2
<1>4. {k \in Nodes : Connected(sim, m, k)'} = {k \in Nodes : Connected(sim, m, k)}
  BY <1>2
<1> QED BY <1>3, <1>4 DEF Wins

\* The pairs compared are pairs of items.
LEMMA EdgesAre ==
    ASSUME TypeOK
    PROVE  sim \cap Compared \in SUBSET (Nodes \X Nodes)
<1>1. sim \subseteq Pairs(n)
  BY DEF TypeOK
<1> QED BY <1>1 DEF Pairs, Nodes

LEMMA StartStep ==
    ASSUME TypeOK, Positions, ForestInv, Start
    PROVE  TypeOK' /\ Positions' /\ ForestInv' /\ OneWinnerPerEvent'
<1>1. /\ n \in Nat /\ n <= MaxItems /\ n' = n /\ sim' = sim /\ weight' = weight
      /\ parent' = parent /\ group' = group /\ x' = x /\ ra' = ra
      /\ pc = "start" /\ Nodes' = Nodes /\ sim \subseteq Pairs(n)
      /\ (n > TooMany => sim = {})
  BY Numbers DEF TypeOK, Positions, Start, Nodes
<1>2. CASE n <= 1 \/ n > TooMany
  <2>1. pc' = "done" /\ kept' = Nodes \X {1} /\ i' = i /\ j' = j
    BY <1>2 DEF Start
  <2>2. TypeOK'
    BY <1>1, <2>1 DEF TypeOK
  <2>3. Positions'
    BY <1>1, <2>1 DEF Positions
  <2>4. sim = {}
    <3>1. CASE n > TooMany
      BY <3>1, <1>1
    <3>2. CASE n <= 1
      <4>1. ASSUME NEW p \in Pairs(n) PROVE FALSE
        BY <3>2, <4>1, <1>1, PairsAre
      <4> QED BY <4>1, <1>1
    <3> QED BY <1>2, <3>1, <3>2
  <2>5. ForestInv'
    <3>1. PICK root \in [Nodes -> Nodes] : LeadsTo(root) /\ Separates(root)
      BY DEF ForestInv
    <3>2. (sim \cap Compared)' = sim \cap Compared
      BY <1>1, <2>4
    <3>3. LeadsTo(root)' /\ Separates(root)' /\ Finds(root)'
      BY <1>1, <2>1, <3>1, <3>2, LeadsToStays, SeparatesStays DEF Finds
    <3> QED BY <1>1, <3>3, ForestBy
  <2>6. OneWinnerPerEvent'
    <3> SUFFICES ASSUME NEW K, K = kept', NEW m \in Nodes, n <= TooMany
                 PROVE  Wins(K, m)
      BY <1>1, OneWinnerBy
    <3>1. Nodes = {1} /\ m = 1
      BY <1>1, <1>2 DEF Nodes
    <3>2. K = {<<1, 1>>}
      BY <2>1, <3>1
    <3>3. Connected(sim, 1, 1)
      BY ConnectedSelf
    <3>4. <<1, 1>>[1] = 1 /\ <<1, 1>>[2] = 1
      OBVIOUS
    <3>5. {v \in K : Connected(sim, m, v[1])} = {<<1, 1>>}
      BY <3>1, <3>2, <3>3, <3>4
    <3>6. {k \in Nodes : Connected(sim, m, k)} = {1}
      BY <3>1, <3>3
    <3>7. Cardinality({1}) = 1
      BY FS_Singleton
    <3> QED BY <3>1, <3>2, <3>4, <3>5, <3>6, <3>7 DEF Wins
  <2> QED BY <2>2, <2>3, <2>5, <2>6
<1>3. CASE n > 1 /\ n <= TooMany
  <2>1. pc' = "scan" /\ kept' = kept /\ i' = 1 /\ j' = 2
    BY <1>1, <1>3 DEF Start
  <2>2. TypeOK'
    BY <1>1, <1>3, <2>1 DEF TypeOK
  <2>3. Positions'
    BY <1>1, <1>3, <2>1 DEF Positions, Nodes
  <2>4. ForestInv'
    <3>1. PICK root \in [Nodes -> Nodes] : LeadsTo(root) /\ Separates(root)
      BY DEF ForestInv
    <3>2. Compared = {}
      BY <1>1 DEF Compared
    <3>3. Compared' = {p \in Pairs(n) : p[1] < 1 \/ (p[1] = 1 /\ p[2] < 2)}
      BY <1>1, <2>1 DEF Compared, Pairs
    <3>4. Compared' = {}
      BY <1>1, <3>3, PairsAre
    <3>5. LeadsTo(root)' /\ Separates(root)' /\ Finds(root)'
      BY <1>1, <2>1, <3>1, <3>2, <3>4, LeadsToStays, SeparatesStays DEF Finds
    <3> QED BY <1>1, <3>5, ForestBy
  <2>5. OneWinnerPerEvent'
    BY <2>1 DEF OneWinnerPerEvent
  <2> QED BY <2>2, <2>3, <2>4, <2>5
<1> QED BY <1>1, <1>2, <1>3

LEMMA CompareStep ==
    ASSUME TypeOK, Positions, ForestInv, Compare
    PROVE  TypeOK' /\ Positions' /\ ForestInv' /\ pc' # "done"
<1>1. /\ n' = n /\ sim' = sim /\ weight' = weight /\ parent' = parent /\ ra' = ra
      /\ group' = group /\ kept' = kept /\ pc = "scan" /\ Nodes' = Nodes
      /\ i \in Nodes /\ j \in Nodes /\ i < j
  BY DEF Compare, Positions, Nodes
<1>2. PICK root \in [Nodes -> Nodes] : LeadsTo(root) /\ Separates(root)
  BY DEF ForestInv
<1>3. CASE <<i, j>> \in sim
  <2>1. x' = i /\ pc' = "findA" /\ i' = i /\ j' = j
    BY <1>3 DEF Compare
  <2>2. TypeOK'
    BY <1>1, <2>1 DEF TypeOK
  <2>3. Positions'
    BY <1>1, <1>3, <2>1 DEF Positions
  <2>4. Compared' = Compared
    BY <1>1, <2>1 DEF Compared, Pairs
  <2>5. LeadsTo(root)' /\ Separates(root)' /\ Finds(root)'
    BY <1>1, <1>2, <2>1, <2>4, LeadsToStays, SeparatesStays DEF Finds
  <2> QED BY <1>1, <2>1, <2>2, <2>3, <2>5, ForestBy
<1>4. CASE <<i, j>> \notin sim
  <2>1. x' = x /\ NextPair
    BY <1>4 DEF Compare
  <2>2. /\ Compared' = Compared \cup {<<i, j>>}
        /\ pc' = "scan" => i' \in Nodes /\ j' \in Nodes /\ i' < j'
        /\ pc' = "list" => i' = 1 /\ j' = 0
        /\ pc' \in {"scan", "list"}
        /\ {i', j'} \subseteq 0..MaxItems + 1
    BY <1>1, <2>1, NextPairCompares
  <2>3. TypeOK'
    BY <1>1, <2>1, <2>2 DEF TypeOK
  <2>4. Positions'
    BY <1>1, <2>1, <2>2, Numbers DEF Positions
  <2>5. (sim \cap Compared)' = sim \cap Compared
    BY <1>1, <1>4, <2>2
  <2>6. Finds(root)'
    BY <2>2 DEF Finds
  <2>7. LeadsTo(root)' /\ Separates(root)'
    BY <1>1, <1>2, <2>5, LeadsToStays, SeparatesStays
  <2> QED BY <1>1, <2>2, <2>3, <2>4, <2>6, <2>7, ForestBy
<1> QED BY <1>3, <1>4

LEMMA FindStep ==
    ASSUME TypeOK, Positions, ForestInv, Find
    PROVE  TypeOK' /\ Positions' /\ ForestInv' /\ pc' # "done"
<1>1. /\ n' = n /\ sim' = sim /\ weight' = weight /\ i' = i /\ j' = j /\ ra' = ra
      /\ group' = group /\ kept' = kept /\ pc' = pc /\ Nodes' = Nodes
      /\ pc \in {"findA", "findB", "find"} /\ parent[x] # x /\ Halve /\ x \in Nodes
  BY DEF Find, Positions, Nodes
<1>2. PICK root \in [Nodes -> Nodes] : LeadsTo(root) /\ Separates(root) /\ Finds(root)
  BY DEF ForestInv
<1>3. LeadsTo(root)' /\ root[x'] = root[x] /\ x' \in Nodes
  BY <1>1, <1>2, HalvingKeepsEnds
<1>4. Compared' = Compared
  BY <1>1 DEF Compared, Pairs
<1>5. Separates(root)'
  BY <1>1, <1>2, <1>4, SeparatesStays
<1>6. Finds(root)'
  BY <1>1, <1>2, <1>3 DEF Finds
<1>7. parent' \in [Nodes -> Nodes] /\ (parent[ra] = ra => parent'[ra] = ra)
  BY <1>1 DEF TypeOK, Halve
<1>8. TypeOK'
  BY <1>1, <1>3, <1>7, Numbers DEF TypeOK
<1>9. Positions'
  BY <1>1, <1>3, <1>7 DEF Positions
<1> QED BY <1>1, <1>3, <1>5, <1>6, <1>8, <1>9, ForestBy

LEMMA FoundAStep ==
    ASSUME TypeOK, Positions, ForestInv, FoundA
    PROVE  TypeOK' /\ Positions' /\ ForestInv' /\ pc' # "done"
<1>1. /\ n' = n /\ sim' = sim /\ weight' = weight /\ parent' = parent /\ i' = i /\ j' = j
      /\ group' = group /\ kept' = kept /\ Nodes' = Nodes /\ pc = "findA" /\ pc' = "findB"
      /\ ra' = x /\ x' = j /\ parent[x] = x /\ x \in Nodes /\ i \in Nodes /\ j \in Nodes
      /\ i < j /\ <<i, j>> \in sim
  BY DEF FoundA, Positions, Nodes
<1>2. PICK root \in [Nodes -> Nodes] : LeadsTo(root) /\ Separates(root) /\ Finds(root)
  BY DEF ForestInv
<1>3. root[x] = x /\ root[x] = root[i]
  BY <1>1, <1>2, EndOfEnd DEF Finds
<1>4. Compared' = Compared
  BY <1>1 DEF Compared, Pairs
<1>5. LeadsTo(root)' /\ Separates(root)'
  BY <1>1, <1>2, <1>4, LeadsToStays, SeparatesStays
<1>6. Finds(root)'
  BY <1>1, <1>3 DEF Finds
<1>7. TypeOK'
  BY <1>1 DEF TypeOK
<1>8. Positions'
  BY <1>1 DEF Positions
<1> QED BY <1>1, <1>5, <1>6, <1>7, <1>8, ForestBy

LEMMA FoundBStep ==
    ASSUME TypeOK, Positions, ForestInv, FoundB
    PROVE  TypeOK' /\ Positions' /\ ForestInv' /\ pc' # "done"
<1>1. /\ n' = n /\ sim' = sim /\ weight' = weight /\ x' = x /\ ra' = ra
      /\ group' = group /\ kept' = kept /\ Nodes' = Nodes /\ pc = "findB" /\ NextPair
      /\ parent[x] = x /\ parent[ra] = ra /\ x \in Nodes /\ ra \in Nodes
      /\ i \in Nodes /\ j \in Nodes /\ i < j /\ <<i, j>> \in sim
      /\ IF ra # x THEN Link(ra, x) ELSE parent' = parent
  BY DEF FoundB, Positions, Nodes
<1>2. PICK root \in [Nodes -> Nodes] : LeadsTo(root) /\ Separates(root) /\ Finds(root)
  BY DEF ForestInv
<1>3. x = root[j] /\ ra = root[i]
  BY <1>1, <1>2, EndOfEnd DEF Finds
<1>4. /\ Compared' = Compared \cup {<<i, j>>}
      /\ pc' = "scan" => i' \in Nodes /\ j' \in Nodes /\ i' < j'
      /\ pc' = "list" => i' = 1 /\ j' = 0
      /\ pc' \in {"scan", "list"}
      /\ {i', j'} \subseteq 0..MaxItems + 1
  BY <1>1, NextPairCompares
<1>5. parent' \in [Nodes -> Nodes]
  BY <1>1 DEF TypeOK, Link
<1>6. TypeOK'
  BY <1>1, <1>4, <1>5 DEF TypeOK
<1>7. Positions'
  BY <1>1, <1>4, Numbers DEF Positions
<1>8. ForestInv'
  <2> DEFINE E == sim \cap Compared
             F == E \cup {<<i, j>>}
  <2>1. PICK joined \in [Nodes -> Nodes] : Joins(joined, root, root[i], root[j])
    <3> DEFINE J == [m \in Nodes |-> IF root[m] = root[i] THEN root[j] ELSE root[m]]
    <3>1. J \in [Nodes -> Nodes] /\ Joins(J, root, root[i], root[j])
      BY <1>1 DEF Joins
    <3> QED BY <3>1
  <2>2. Matches(joined, F)
    <3>1. E \in SUBSET (Nodes \X Nodes) /\ F = E \cup {<<i, j>>}
      BY EdgesAre
    <3>2. Matches(root, E)
      BY <1>2 DEF Separates
    <3>3. i \in Nodes /\ j \in Nodes
      BY <1>1
    <3> HIDE DEF E, F
    <3> QED BY <2>1, <3>1, <3>2, <3>3, ConnectedByPair
  <2>3. (sim \cap Compared)' = F
    BY <1>1, <1>4
  <2>4. LeadsTo(joined)'
    <3>1. CASE ra # x
      <4>1. Joins(joined, root, ra, x)
        BY <1>3, <2>1
      <4> QED BY <1>1, <1>2, <3>1, <4>1, LinkingMovesEnds
    <3>2. CASE ra = x
      <4>1. joined = root
        BY <1>3, <2>1, <3>2 DEF Joins
      <4>2. LeadsTo(root)'
        BY <1>1, <1>2, <3>2, LeadsToStays
      <4> QED BY <4>1, <4>2
    <3> QED BY <3>1, <3>2
  <2>5. Separates(joined)'
    <3> HIDE DEF E, F
    <3> QED BY <1>1, <2>2, <2>3, SeparatesBy
  <2>6. Finds(joined)'
    BY <1>4 DEF Finds
  <2> QED BY <1>1, <2>1, <2>4, <2>5, <2>6, ForestBy
<1> QED BY <1>4, <1>6, <1>7, <1>8

LEMMA ListStep ==
    ASSUME TypeOK, Positions, ForestInv, List
    PROVE  TypeOK' /\ Positions' /\ ForestInv' /\ pc' # "done"
<1>1. /\ n' = n /\ sim' = sim /\ weight' = weight /\ parent' = parent /\ i' = i /\ j' = j
      /\ ra' = ra /\ group' = group /\ kept' = kept /\ Nodes' = Nodes
      /\ n \in Nat /\ i \in 1..(n + 1) /\ pc = "list"
      /\ IF i <= n THEN x' = i /\ pc' = "find" ELSE pc' = "pick" /\ x' = x
  BY Numbers DEF List, Positions, Nodes
<1>2. PICK root \in [Nodes -> Nodes] : LeadsTo(root) /\ Separates(root) /\ Finds(root)
  BY DEF ForestInv
<1>3. Compared' = Compared
  BY <1>1 DEF Compared, Pairs
<1>4. LeadsTo(root)' /\ Separates(root)'
  BY <1>1, <1>2, <1>3, LeadsToStays, SeparatesStays
<1>5. \A m \in 1..(i - 1) : group[m] = root[m]
  BY <1>1, <1>2 DEF Finds
<1>6. CASE i <= n
  <2>1. TypeOK'
    BY <1>1, <1>6 DEF TypeOK
  <2>2. Positions'
    BY <1>1, <1>6 DEF Positions, Nodes
  <2>3. Finds(root)'
    BY <1>1, <1>5, <1>6 DEF Finds
  <2> QED BY <1>1, <1>4, <1>6, <2>1, <2>2, <2>3, ForestBy
<1>7. CASE i > n
  <2>1. pc' = "pick" /\ x' = x /\ Nodes = 1..(i - 1)
    BY <1>1, <1>7 DEF Nodes
  <2>2. TypeOK'
    BY <1>1, <2>1 DEF TypeOK
  <2>3. Positions'
    BY <1>1, <2>1 DEF Positions
  <2>4. Finds(root)'
    BY <1>1, <1>5, <2>1 DEF Finds
  <2> QED BY <1>1, <1>4, <2>1, <2>2, <2>3, <2>4, ForestBy
<1> QED BY <1>1, <1>6, <1>7

LEMMA ListedStep ==
    ASSUME TypeOK, Positions, ForestInv, Listed
    PROVE  TypeOK' /\ Positions' /\ ForestInv' /\ pc' # "done"
<1>1. /\ n' = n /\ sim' = sim /\ weight' = weight /\ parent' = parent /\ j' = j /\ x' = x
      /\ ra' = ra /\ kept' = kept /\ Nodes' = Nodes /\ n \in Nat
      /\ i \in Nodes /\ x \in Nodes /\ parent[x] = x /\ pc = "find" /\ pc' = "list"
      /\ i' = i + 1 /\ group' = [group EXCEPT ![i] = x] /\ group \in [Nodes -> 0..n]
  BY Numbers DEF Listed, Positions, Nodes, TypeOK
<1>2. PICK root \in [Nodes -> Nodes] : LeadsTo(root) /\ Separates(root) /\ Finds(root)
  BY DEF ForestInv
<1>3. Compared' = Compared
  BY <1>1 DEF Compared, Pairs
<1>4. LeadsTo(root)' /\ Separates(root)'
  BY <1>1, <1>2, <1>3, LeadsToStays, SeparatesStays
<1>5. x = root[i]
  BY <1>1, <1>2, EndOfEnd DEF Finds
<1>6. \A m \in 1..(i' - 1) : group'[m] = root[m]
  <2>1. \A m \in 1..(i - 1) : group[m] = root[m]
    BY <1>1, <1>2 DEF Finds
  <2>2. n \in Nat /\ i \in 1..n /\ Nodes = 1..n
    BY <1>1 DEF Nodes
  <2>3. i' - 1 = i
    BY <1>1, <2>2
  <2>4. ASSUME NEW m \in 1..i PROVE m \in 1..n /\ (m = i \/ m \in 1..(i - 1))
    BY <2>2
  <2>5. \A m \in Nodes : group'[m] = IF m = i THEN x ELSE group[m]
    BY <1>1
  <2> QED BY <1>5, <2>1, <2>2, <2>3, <2>4, <2>5
<1>7. Finds(root)'
  BY <1>1, <1>6 DEF Finds
<1>8. TypeOK'
  <2>1. group' \in [Nodes -> 0..n]
    <3>1. x \in 0..n
      BY <1>1 DEF Nodes
    <3> QED BY <1>1, <3>1
  <2>2. i + 1 \in 0..MaxItems + 1
    BY <1>1 DEF TypeOK, Nodes
  <2> QED BY <1>1, <2>1, <2>2 DEF TypeOK
<1>9. Positions'
  BY <1>1 DEF Positions, Nodes
<1> QED BY <1>1, <1>4, <1>7, <1>8, <1>9, ForestBy

\* Groups are listed under their ends, so a group is a component, and the
\* winner of a group stands for the component of each item in it.
LEMMA PickStep ==
    ASSUME TypeOK, Positions, ForestInv, Pick
    PROVE  TypeOK' /\ Positions' /\ ForestInv' /\ OneWinnerPerEvent'
<1>1. /\ n' = n /\ sim' = sim /\ weight' = weight /\ parent' = parent /\ i' = i /\ j' = j
      /\ x' = x /\ ra' = ra /\ group' = group /\ Nodes' = Nodes
      /\ pc = "pick" /\ pc' = "done" /\ n \in Nat
      /\ kept' = {<<PickWinner(Members(r)), Cardinality(Members(r))>> :
                     r \in {group[m] : m \in Nodes}}
  BY Numbers DEF Pick, Nodes
<1>2. PICK root \in [Nodes -> Nodes] : LeadsTo(root) /\ Separates(root) /\ Finds(root)
  BY DEF ForestInv
<1>3. \A m \in Nodes : group[m] = root[m]
  BY <1>1, <1>2 DEF Finds
<1>4. Compared' = Compared /\ sim \cap Compared = sim
  BY <1>1 DEF Compared, Pairs, TypeOK
<1>5. \A m, k \in Nodes : root[m] = root[k] <=> Connected(sim, m, k)
  BY <1>2, <1>4 DEF Separates, Matches
<1>6. \A m \in Nodes : Members(root[m]) = {k \in Nodes : root[k] = root[m]}
  BY <1>3 DEF Members
<1>7. ASSUME NEW m \in Nodes
      PROVE  LET w == PickWinner(Members(root[m]))
             IN  /\ w \in Nodes /\ root[w] = root[m]
                 /\ \A k \in Nodes : root[k] = root[m] =>
                       weight[k] < weight[w] \/ (weight[k] = weight[w] /\ w <= k)
  <2>1. m \in Members(root[m]) /\ Members(root[m]) \in SUBSET Nodes
    BY <1>6
  <2>2. LET w == PickWinner(Members(root[m]))
        IN  /\ w \in Members(root[m])
            /\ \A k \in Members(root[m]) :
                  weight[k] < weight[w] \/ (weight[k] = weight[w] /\ w <= k)
    BY <2>1, WinnerExists
  <2> QED BY <1>6, <2>2
<1>8. \A r : Cardinality(Members(r)) \in Nat
  <2>1. IsFiniteSet(Nodes)
    BY <1>1, FS_Interval DEF Nodes
  <2> QED BY <2>1, FS_Subset, FS_CardinalityType DEF Members
<1> DEFINE Entry(m) == <<PickWinner(Members(root[m])), Cardinality(Members(root[m]))>>
<1>9. kept' = {Entry(m) : m \in Nodes}
  BY <1>1, <1>3
<1>10. TypeOK'
  <2>1. kept' \subseteq Nodes \X Nat
    BY <1>7, <1>8, <1>9
  <2> QED BY <1>1, <2>1 DEF TypeOK
<1>11. Positions'
  BY <1>1 DEF Positions
<1>12. ForestInv'
  <2>1. LeadsTo(root)' /\ Separates(root)'
    BY <1>1, <1>2, <1>4, LeadsToStays, SeparatesStays
  <2>2. Finds(root)'
    BY <1>1 DEF Finds
  <2> QED BY <1>1, <2>1, <2>2, ForestBy
<1>13. OneWinnerPerEvent'
  <2> SUFFICES ASSUME NEW K, K = kept', NEW m \in Nodes
               PROVE  Wins(K, m)
    BY <1>1, OneWinnerBy
  <2>1. \A k \in Nodes : /\ Entry(k)[1] = PickWinner(Members(root[k]))
                         /\ Entry(k)[2] = Cardinality(Members(root[k]))
    OBVIOUS
  <2>2. Entry(m) \in K
    BY <1>9
  <2>3. ASSUME NEW k \in Nodes
        PROVE  Connected(sim, m, Entry(k)[1]) <=> root[k] = root[m]
    BY <1>5, <1>7, <2>1
  <2>4. \A k \in Nodes : root[k] = root[m] => Entry(k) = Entry(m)
    OBVIOUS
  <2>5. {v \in K : Connected(sim, m, v[1])} = {Entry(m)}
    <3> HIDE DEF Entry
    <3> QED BY <1>9, <2>2, <2>3, <2>4
  <2>6. {k \in Nodes : Connected(sim, m, k)} = Members(root[m])
    BY <1>5, <1>6
  <2>7. \/ weight[m] < weight[Entry(m)[1]]
        \/ weight[m] = weight[Entry(m)[1]] /\ Entry(m)[1] <= m
    BY <1>7, <2>1
  <2>8. Entry(m)[2] = Cardinality({k \in Nodes : Connected(sim, m, k)})
    BY <2>1, <2>6
  <2> HIDE DEF Entry
  <2> QED BY <2>2, <2>5, <2>7, <2>8 DEF Wins
<1> QED BY <1>10, <1>11, <1>12, <1>13
-----------------------------------------------------------------------------
LEMMA InitForest ==
    ASSUME Init
    PROVE  IndInv
<1>1. /\ n \in 0..MaxItems /\ sim \subseteq Pairs(n) /\ weight \in [Nodes -> 0..MaxWeight]
      /\ parent = [m \in Nodes |-> m] /\ i = 0 /\ j = 0 /\ x = 0 /\ ra = 0
      /\ group = [m \in Nodes |-> 0] /\ kept = {} /\ pc = "start"
      /\ (n > TooMany => sim = {})
  BY DEF Init
<1>2. TypeOK
  BY <1>1 DEF TypeOK
<1>3. Positions
  BY <1>1 DEF Positions
<1>4. ForestInv
  <2>1. parent \in [Nodes -> Nodes]
    BY <1>1
  <2>2. LeadsTo(parent)
    BY <1>1 DEF LeadsTo
  <2>3. Separates(parent)
    <3>1. Compared = {}
      BY <1>1 DEF Compared
    <3>2. ASSUME NEW m \in Nodes, NEW k \in Nodes, Connected({}, m, k) PROVE m = k
      <4>1. {m} \in SUBSET Nodes /\ m \in {m}
        OBVIOUS
      <4> QED BY <3>2, <4>1 DEF Connected
    <3> QED BY <1>1, <3>1, <3>2, ConnectedSelf DEF Separates, Matches
  <2>4. Finds(parent)
    BY <1>1 DEF Finds
  <2> QED BY <2>1, <2>2, <2>3, <2>4 DEF ForestInv
<1>5. OneWinnerPerEvent
  BY <1>1 DEF OneWinnerPerEvent
<1> QED BY <1>2, <1>3, <1>4, <1>5 DEF IndInv

LEMMA NextForest ==
    ASSUME IndInv, [Next]_vars
    PROVE  IndInv'
<1> USE DEF IndInv
<1>1. CASE Start
  BY <1>1, StartStep
<1>2. CASE Compare
  BY <1>2, CompareStep DEF OneWinnerPerEvent
<1>3. CASE Find
  BY <1>3, FindStep DEF OneWinnerPerEvent
<1>4. CASE FoundA
  BY <1>4, FoundAStep DEF OneWinnerPerEvent
<1>5. CASE FoundB
  BY <1>5, FoundBStep DEF OneWinnerPerEvent
<1>6. CASE List
  BY <1>6, ListStep DEF OneWinnerPerEvent
<1>7. CASE Listed
  BY <1>7, ListedStep DEF OneWinnerPerEvent
<1>8. CASE Pick
  BY <1>8, PickStep
<1>9. CASE UNCHANGED vars
  <2>1. /\ n' = n /\ sim' = sim /\ weight' = weight /\ parent' = parent /\ i' = i /\ j' = j
        /\ x' = x /\ ra' = ra /\ group' = group /\ kept' = kept /\ pc' = pc
    BY <1>9 DEF vars
  <2>2. TypeOK' /\ Positions'
    BY <2>1 DEF TypeOK, Positions, Nodes, Pairs
  <2>3. Compared' = Compared
    BY <2>1 DEF Compared, Pairs
  <2>4. ForestInv'
    <3>1. PICK root \in [Nodes -> Nodes] : LeadsTo(root) /\ Separates(root) /\ Finds(root)
      BY DEF ForestInv
    <3>2. LeadsTo(root)' /\ Separates(root)'
      BY <2>1, <2>3, <3>1, LeadsToStays, SeparatesStays
    <3>3. Finds(root)'
      BY <2>1, <3>1 DEF Finds, Nodes
    <3> QED BY <2>1, <3>2, <3>3, ForestBy
  <2>5. OneWinnerPerEvent'
    <3>1. pc = "done" /\ n <= TooMany => \A m \in Nodes : Wins(kept, m)
      BY DEF OneWinnerPerEvent, Wins
    <3> QED BY <2>1, <3>1, OneWinnerBy
  <2> QED BY <2>2, <2>4, <2>5
<1> QED BY <1>1, <1>2, <1>3, <1>4, <1>5, <1>6, <1>7, <1>8, <1>9 DEF Next

\* The forest stays a forest whose ends are the components seen so far, for any
\* number of items, any similarities and any weights.
THEOREM ForestInvariant == Spec => []IndInv
<1>1. Init => IndInv
  BY InitForest
<1>2. IndInv /\ [Next]_vars => IndInv'
  BY NextForest
<1> QED BY <1>1, <1>2, PTL DEF Spec

\* Between two pairs the trees of _group_by_similarity are the components of
\* the graph of the pairs compared so far: halving paths moves no item.
THEOREM TreesCorrect == Spec => []TreesAreComponents
<1>1. IndInv => TreesAreComponents
  <2> SUFFICES ASSUME IndInv, NEW m \in Nodes, NEW k \in Nodes
               PROVE  Roots(m) = Roots(k) <=> Connected(sim \cap Compared, m, k)
    BY DEF TreesAreComponents
  <2>1. PICK root \in [Nodes -> Nodes] : LeadsTo(root) /\ Separates(root)
    BY DEF IndInv, ForestInv
  <2>2. Roots(m) = {root[m]} /\ Roots(k) = {root[k]}
    BY <2>1, RootsAre DEF IndInv
  <2> QED BY <2>1, <2>2 DEF Separates, Matches
<1> QED BY <1>1, ForestInvariant, PTL

\* What deduplicate_events returns has one item for each component, the first
\* of the heaviest in it, with the number of its items as source_count.
THEOREM OneWinner == Spec => []OneWinnerPerEvent
<1>1. IndInv => OneWinnerPerEvent
  BY DEF IndInv
<1> QED BY <1>1, ForestInvariant, PTL
=============================================================================
