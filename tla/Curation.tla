------------------------------ MODULE Curation ------------------------------
(***************************************************************************)
(* The passes that thin out a list of items, as the code runs them, on     *)
(* lists: dedup.py (deduplicate_items), variant_collapse.py                *)
(* (collapse_variants) and credibility.py (_filter_noise).  Each is a loop *)
(* over its input that keeps an ordered accumulator, here a fold.  The     *)
(* only step of the specification extends the input by an item, so the     *)
(* state graph is the tree of all inputs up to a length.                   *)
(***************************************************************************)
EXTENDS Naturals, SequencesExt, Dedup

CONSTANTS Candidates,     \* the items an input may hold
          MaxLen,         \* bound on the length of an input
          BaseModel,      \* normalize_model_name, a function on titles
          NoModel,        \* its result for a title that is no org/model
          Similar,        \* pairs of titles with Jaccard similarity >= 0.65
          LowEngagement   \* 5 in _filter_noise

ASSUME CurationAssumption ==
    /\ \A i \in Candidates : /\ i.title \in DOMAIN BaseModel
                             /\ i.score \in Nat
                             /\ i.credible \in BOOLEAN /\ i.leading \in BOOLEAN
    /\ \A p \in Similar : <<p[2], p[1]>> \in Similar
    /\ MaxLen \in Nat
    /\ LowEngagement \in Nat

VARIABLE items

Init == items = <<>>

Extend(i) ==
    /\ Len(items) < MaxLen
    /\ items' = Append(items, i)

Next == \E i \in Candidates : Extend(i)

Spec == Init /\ [][Next]_items
-----------------------------------------------------------------------------
(***************************************************************************)
(* deduplicate_items.                                                      *)
(***************************************************************************)
SameContent(i, j) == i.url = j.url /\ i.title = j.title

KeepFirst(kept, i) ==
    IF \E j \in ToSet(kept) : SameContent(i, j) THEN kept ELSE Append(kept, i)

FirstPerContent(s) == FoldLeft(KeepFirst, <<>>, s)

\* Faulty variant: the first item of a url wins.
PutFirst(map, i) ==
    IF \E k \in DOMAIN map : map[k].url = i.url THEN map ELSE Append(map, i)

\* Faulty variant: the last item of a url wins.
PutAlways(map, i) ==
    LET k == SelectInSeq(map, LAMBDA j : j.url = i.url)
    IN  IF k = 0 THEN Append(map, i) ELSE ReplaceAt(map, k, i)

\* A dict keeps the place of a key whose value it replaces.
Put(map, i) ==
    LET k == SelectInSeq(map, LAMBDA j : j.url = i.url)
    IN  IF k = 0 THEN Append(map, i)
        ELSE IF i.score > map[k].score THEN ReplaceAt(map, k, i)
        ELSE map

\* url_map and no_url, as the second loop fills them.
Place(pass2, i) ==
    IF i.url = NoUrl THEN [pass2 EXCEPT !.noUrl = Append(@, i)]
    ELSE [pass2 EXCEPT !.map = Put(@, i)]

BestByUrl(s) == FoldLeft(Place, [map |-> <<>>, noUrl |-> <<>>], s)

Deduplicate(s) ==
    LET pass2 == BestByUrl(FirstPerContent(s))
    IN  pass2.map \o pass2.noUrl
-----------------------------------------------------------------------------
(***************************************************************************)
(* collapse_variants, on rows of news_items. The classification stage      *)
(* calls it as well, on ClassifiedItems, where it finds none of the        *)
(* attributes it reads (theirs are one level down, in .item) and returns   *)
(* what it was given: only the feed collapses variants.                    *)
(***************************************************************************)
\* The group of x, or NoModel if it passes through.
Group(x) == IF x.source = "huggingface" THEN BaseModel[x.title] ELSE NoModel

\* Faulty variant: a tie goes to the later variant, and so does a loss.
KeepLater(best, x) == Append(SelectSeq(best, LAMBDA y : Group(y) # Group(x)), x)

\* max() of a group keeps the first of equals, at the group's place.
KeepBest(best, x) ==
    LET k == SelectInSeq(best, LAMBDA y : Group(y) = Group(x))
    IN  IF k = 0 THEN Append(best, x)
        ELSE IF x.score > best[k].score THEN ReplaceAt(best, k, x)
        ELSE best

\* non_hf, and the best of each of hf_groups.
Sort(kept, x) ==
    IF Group(x) = NoModel THEN [kept EXCEPT !.nonHf = Append(@, x)]
    ELSE [kept EXCEPT !.best = KeepBest(@, x)]

BestVariants(s) == FoldLeft(Sort, [nonHf |-> <<>>, best |-> <<>>], s)

CollapseVariants(s) == BestVariants(s).nonHf \o BestVariants(s).best
-----------------------------------------------------------------------------
(***************************************************************************)
(* _filter_noise.                                                          *)
(***************************************************************************)
TooLow(i) == i.source \in {"hackernews", "reddit"} /\ ~i.leading /\ i.score < LowEngagement

Passes(i) == i.credible /\ ~TooLow(i)

\* Faulty variant: an item is compared with the last accepted one only.
RepeatsLast(i, accepted) ==
    accepted # <<>> /\ <<i.title, Last(accepted).title>> \in Similar

Repeats(i, accepted) == \E j \in ToSet(accepted) : <<i.title, j.title>> \in Similar

Accept(accepted, i) ==
    IF Passes(i) /\ ~Repeats(i, accepted) THEN Append(accepted, i) ELSE accepted

FilterNoise(s) == FoldLeft(Accept, <<>>, s)
-----------------------------------------------------------------------------
\* The list algorithm returns what the relation allows, the one the model of
\* the pipeline builds on, and nothing twice.
DedupImplementsRelation ==
    LET kept == Deduplicate(items)
    IN  /\ ToSet(kept) \in Deduplicated(ToSet(items))
        /\ Len(kept) = Cardinality(ToSet(kept))

\* A further item, at any place of the input, costs no url its place in the
\* result. The item that stands for a url is a worse one only if the further
\* item has its title too and comes before all others of that title: then the
\* first pass keeps that one, and the url gets nothing worse than it.
OnlyRepostsHurt ==
    \A n \in DOMAIN items :
        LET without == Deduplicate(RemoveAt(items, n))
            Displaces(i) == /\ SameContent(items[n], i)
                            /\ \A m \in 1..(n - 1) : ~SameContent(items[m], i)
        IN  \A i \in ToSet(without) : i.url # NoUrl =>
                \E j \in ToSet(Deduplicate(items)) :
                    /\ j.url = i.url
                    /\ j.score >= i.score \/ (Displaces(i) /\ j.score >= items[n].score)

\* Of the variants of a model the feed keeps the first of the best, and it
\* keeps every item that is no variant.
FeedKeepsBestVariant ==
    LET kept == CollapseVariants(items)
    IN  /\ \A x \in ToSet(items) : Group(x) = NoModel => x \in ToSet(kept)
        /\ \A x \in ToSet(items) : Group(x) # NoModel =>
              Cardinality({k \in DOMAIN kept : Group(kept[k]) = Group(x)}) = 1
        /\ \A k \in DOMAIN kept : \A n \in DOMAIN items :
              Group(kept[k]) # NoModel /\ Group(items[n]) = Group(kept[k]) =>
                 \/ items[n].score < kept[k].score
                 \/ items[n].score = kept[k].score
                       /\ SelectInSeq(items, LAMBDA x : x = kept[k]) <= n

\* The noise filter accepts a maximal set of dissimilar items: no two of them
\* are similar, and a credible, engaging item is dropped only for a similar one.
NoiseFilterIsMaximal ==
    LET kept == FilterNoise(items)
    IN  /\ \A m, n \in DOMAIN kept : m # n => <<kept[n].title, kept[m].title>> \notin Similar
        /\ \A i \in ToSet(items) \ ToSet(kept) : Passes(i) => Repeats(i, kept)
=============================================================================
