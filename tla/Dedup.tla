-------------------------------- MODULE Dedup --------------------------------
(***************************************************************************)
(* What src/src/pipeline/dedup.py (deduplicate_items) may return when the  *)
(* order of its input is not known: the relation between a set of items    *)
(* and the sets it can be reduced to.  Curation.tla has the algorithm on   *)
(* lists, and checks it against this relation.                             *)
(***************************************************************************)
EXTENDS Naturals

CONSTANT NoUrl   \* the url of an item without one: its url_hash is None

\* Pass 1 of deduplicate_items keeps the first item of each content hash:
\* some item per url and title.
OnePerContent(I) ==
    {F \in SUBSET I :
        /\ \A i, j \in F : i.url = j.url /\ i.title = j.title => i = j
        /\ \A i \in I : \E j \in F : i.url = j.url /\ i.title = j.title}

\* Pass 2 keeps a best-scored survivor per url, and every item without one.
BestPerUrl(F) ==
    {B \in SUBSET F :
        /\ \A i, j \in B : i.url = j.url /\ i.url # NoUrl => i = j
        /\ \A i \in F : \E j \in B : i.url = j.url /\ i.score <= j.score
        /\ {i \in F : i.url = NoUrl} \subseteq B}

Deduplicated(I) == UNION {BestPerUrl(F) : F \in OnePerContent(I)}
=============================================================================
