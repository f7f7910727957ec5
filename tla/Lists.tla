-------------------------------- MODULE Lists --------------------------------
(***************************************************************************)
(* Lists that are made of the places of a list: some of them, in their     *)
(* order or in another.                                                    *)
(***************************************************************************)
EXTENDS Naturals, FiniteSets

\* The members of a finite set of numbers, in the order of the pairs in R.
InOrder(P, R) ==
    [k \in 1..Cardinality(P) |->
        CHOOSE n \in P : Cardinality({m \in P : <<m, n>> \in R}) = k]

\* The items of s at the places in P, as a loop over s comes to them.
Only(s, P) ==
    LET places == InOrder(P, {p \in P \X P : p[1] <= p[2]})
    IN  [k \in DOMAIN places |-> s[places[k]]]

=============================================================================
