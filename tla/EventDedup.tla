----------------------------- MODULE EventDedup -----------------------------
(***************************************************************************)
(* src/src/classifiers/event_dedup.py on the items of one topic:           *)
(* _group_by_similarity, a union-find with path halving, step by step, and *)
(* the winners that _pick_winner chooses.  deduplicate_events treats the   *)
(* topics one after another and independently.                             *)
(***************************************************************************)
EXTENDS Naturals, FiniteSets

CONSTANTS MaxItems,   \* bound on the items of the topic
          TooMany,    \* 100: larger topics are passed through
          MaxWeight   \* (score or 0) + relevance * 100 is 0..MaxWeight

ASSUME EventAssumption == MaxItems \in Nat /\ TooMany \in Nat /\ MaxWeight \in Nat

VARIABLES
    n,        \* number of items
    sim,      \* pairs i < j with title_similarity >= 0.80
    weight,   \* weight[i], the key of _pick_winner
    parent,   \* the forest
    i, j,     \* the pair at hand, or the item at hand once all pairs are done
    x,        \* find's argument as it moves
    ra,       \* result of the first find of a union
    group,    \* group[i]: the root under which item i is listed
    kept,     \* the result: item, size of its group
    pc

vars == <<n, sim, weight, parent, i, j, x, ra, group, kept, pc>>

Nodes == 1..n

Pairs(m) == {p \in (1..m) \X (1..m) : p[1] < p[2]}

TypeOK ==
    /\ n \in 0..MaxItems
    /\ sim \subseteq Pairs(n)
    /\ weight \in [Nodes -> 0..MaxWeight]
    /\ parent \in [Nodes -> Nodes]
    /\ group \in [Nodes -> 0..n]
    /\ kept \subseteq Nodes \X Nat
    /\ {i, j, x, ra} \subseteq 0..MaxItems + 1
    /\ pc \in {"start", "scan", "findA", "findB", "list", "find", "pick", "done"}

\* The graphs and weights of more than TooMany items do not matter.
Init ==
    /\ n \in 0..MaxItems
    /\ sim \in SUBSET Pairs(n)
    /\ weight \in [Nodes -> 0..MaxWeight]
    /\ n > TooMany => sim = {} /\ weight = [m \in Nodes |-> 0]
    /\ parent = [m \in Nodes |-> m]
    /\ i = 0 /\ j = 0 /\ x = 0 /\ ra = 0
    /\ group = [m \in Nodes |-> 0]
    /\ kept = {}
    /\ pc = "start"
-----------------------------------------------------------------------------
\* deduplicate_events leaves single items and very large topics alone.
Start ==
    /\ pc = "start"
    /\ IF n <= 1 \/ n > TooMany
       THEN /\ kept' = Nodes \X {1}
            /\ pc' = "done"
            /\ UNCHANGED <<i, j>>
       ELSE /\ i' = 1 /\ j' = 2
            /\ pc' = "scan"
            /\ UNCHANGED kept
    /\ UNCHANGED <<n, sim, weight, parent, x, ra, group>>

\* The next pair of the two nested loops.
NextPair ==
    /\ pc' = IF j = n /\ i + 1 = n THEN "list" ELSE "scan"
    /\ IF j = n /\ i + 1 = n THEN i' = 1 /\ j' = 0
       ELSE IF j = n THEN i' = i + 1 /\ j' = i + 2
       ELSE i' = i /\ j' = j + 1

\* Compare a pair: union(i, j), or on to the next one.
Compare ==
    /\ pc = "scan"
    /\ IF <<i, j>> \in sim
       THEN x' = i /\ pc' = "findA" /\ UNCHANGED <<i, j>>
       ELSE NextPair /\ UNCHANGED x
    /\ UNCHANGED <<n, sim, weight, parent, ra, group, kept>>

\* Faulty variant: x stays where it is.
HalveInPlace ==
    /\ parent' = [parent EXCEPT ![x] = parent[parent[x]]]
    /\ x' = x

\* One turn of find's loop: x is linked to its grandparent and moves there.
Halve ==
    /\ parent' = [parent EXCEPT ![x] = parent[parent[x]]]
    /\ x' = parent[parent[x]]

Find ==
    /\ pc \in {"findA", "findB", "find"}
    /\ parent[x] # x
    /\ Halve
    /\ UNCHANGED <<n, sim, weight, i, j, ra, group, kept, pc>>

FoundA ==
    /\ pc = "findA"
    /\ parent[x] = x
    /\ ra' = x
    /\ x' = j
    /\ pc' = "findB"
    /\ UNCHANGED <<n, sim, weight, parent, i, j, group, kept>>

\* Faulty variant: the node is linked, not its root.
LinkNode(a, b) == parent' = [parent EXCEPT ![i] = b]

Link(a, b) == parent' = [parent EXCEPT ![a] = b]

FoundB ==
    /\ pc = "findB"
    /\ parent[x] = x
    /\ IF ra # x THEN Link(ra, x) ELSE UNCHANGED parent
    /\ NextPair
    /\ UNCHANGED <<n, sim, weight, x, ra, group, kept>>

\* The roots are looked up once more, item by item, to list the groups.
List ==
    /\ pc = "list"
    /\ IF i <= n THEN x' = i /\ pc' = "find" ELSE pc' = "pick" /\ UNCHANGED x
    /\ UNCHANGED <<n, sim, weight, parent, i, j, ra, group, kept>>

Listed ==
    /\ pc = "find"
    /\ parent[x] = x
    /\ group' = [group EXCEPT ![i] = x]
    /\ i' = i + 1
    /\ pc' = "list"
    /\ UNCHANGED <<n, sim, weight, parent, j, x, ra, kept>>

Members(r) == {m \in Nodes : group[m] = r}

\* Faulty variant: the root of a group stands for it.
PickRoot(G) == CHOOSE m \in G : group[m] = m

\* max() returns the first item of the greatest weight.
PickWinner(G) ==
    CHOOSE m \in G : \A k \in G : weight[k] < weight[m] \/ (weight[k] = weight[m] /\ m <= k)

Pick ==
    /\ pc = "pick"
    /\ kept' = {<<PickWinner(Members(r)), Cardinality(Members(r))>> : r \in {group[m] : m \in Nodes}}
    /\ pc' = "done"
    /\ UNCHANGED <<n, sim, weight, parent, i, j, x, ra, group>>

Next == Start \/ Compare \/ Find \/ FoundA \/ FoundB \/ List \/ Listed \/ Pick

Spec == Init /\ [][Next]_vars /\ WF_vars(Next)
-----------------------------------------------------------------------------
\* The pairs that have been compared.
Compared ==
    IF pc \in {"scan", "findA", "findB"}
    THEN {p \in Pairs(n) : p[1] < i \/ (p[1] = i /\ p[2] < j)}
    ELSE IF pc = "start" THEN {} ELSE Pairs(n)

\* Connected by a chain of pairs of E: no set closed under E separates a and b.
Connected(E, a, b) ==
    \A C \in SUBSET Nodes : a \in C /\ (\A p \in E : p[1] \in C <=> p[2] \in C) => b \in C

\* The roots to which the links lead from m.
Roots(m) ==
    {r \in Nodes : /\ parent[r] = r
                   /\ \A C \in SUBSET Nodes : m \in C /\ (\A k \in C : parent[k] \in C) => r \in C}

\* Between two pairs, the trees are the components of the graph seen so far.
TreesAreComponents ==
    pc \in {"scan", "list", "pick"} =>
        \A m, k \in Nodes : Roots(m) = Roots(k) <=> Connected(sim \cap Compared, m, k)

\* The result has one item per event, the best and among equals the first, and
\* its source_count is the number of items about the event.
OneWinnerPerEvent ==
    pc = "done" /\ n <= TooMany =>
        \A m \in Nodes :
            \E w \in kept :
                  /\ {v \in kept : Connected(sim, m, v[1])} = {w}
                  /\ w[2] = Cardinality({k \in Nodes : Connected(sim, m, k)})
                  /\ weight[m] < weight[w[1]] \/ (weight[m] = weight[w[1]] /\ w[1] <= m)

\* The loops end, find's included, for any graph.
GroupingEnds == <>(pc = "done")
=============================================================================
