-------------------------------- MODULE Feed --------------------------------
(***************************************************************************)
(* The diversified feed over the rows that an input of Curation leaves in  *)
(* the table: feed_builder.py (window, pool of candidates, live score,     *)
(* collapse of variants, page), mmr_ranker.py (a greedy choice), and the   *)
(* scrolling of FeedPage.tsx, which asks for one page after another.  Each *)
(* page reads the table anew, by a clock of its own: ages in a list of     *)
(* rows are those at the time of the page that reads it.                   *)
(* Similarities are in tenths, and so is lambda.                           *)
(***************************************************************************)
EXTENDS Selection, Scorer

CONSTANTS NoScore,        \* composite_score IS NULL
          NoAuthor,       \* an empty or missing author
          Multiplier,     \* feed_candidate_multiplier
          MaxAge,         \* feed_latest_max_age_hours
          Expansions,     \* _EXPANSION_WINDOWS, which are in ascending order
          MinItems,       \* feed_latest_min_items
          Lambdas,        \* the values of lambda to try, in tenths
          PageSizes,      \* the values of limit to try
          Pause           \* hours a reader takes for a page

ASSUME FeedAssumption ==
    /\ Lambdas \subseteq 0..10
    /\ PageSizes \subseteq Nat \ {0}
    /\ NoScore \in Int
    /\ Multiplier \in Nat /\ MaxAge \in Nat /\ MinItems \in Nat /\ Pause \in Nat
    /\ Expansions \subseteq Nat /\ IsFiniteSet(Expansions)
    /\ RecencyWindow \in Nat \ {0}
    /\ \A k \in DOMAIN Threshold : Threshold[k] \in Nat \ {0}
    /\ \A t \in DOMAIN TopicWeight : TopicWeight[t] \in Nat
    /\ \A i \in Candidates : /\ {"source", "dated", "paper", "age", "born"} \subseteq DOMAIN i
                             /\ i.stored \in Int /\ i.relevance \in 0..100
                             /\ i.age \in Int /\ i.born \in Int
                             /\ i.dated \in BOOLEAN /\ i.paper \in BOOLEAN
                             /\ i.topic \in DOMAIN TopicWeight
                             /\ Kind(i) \in DOMAIN Threshold \cup {"rss", "arxiv"}

\* The table holds what a run made of its items.
Rows == Deduplicate(items)

Prefix(s, n) == SubSeq(s, 1, Min({n, Len(s)}))

\* ORDER BY composite_score DESC, effective_date DESC.
StoredBefore(x, y) == x.stored > y.stored \/ (x.stored = y.stored /\ x.age < y.age)

Covers(hours, x) == x.stored # NoScore /\ x.age <= hours

\* A row's place in the order is after those that it does not precede.
AddRow(t, x) ==
    InsertAt(t, 1 + Cardinality({n \in DOMAIN t : ~StoredBefore(x, t[n])}), x)

InWindow(rows, hours) ==
    LET found[n \in 0..Len(rows)] ==
            IF n = 0 THEN <<>>
            ELSE IF Covers(hours, rows[n]) THEN AddRow(found[n - 1], rows[n])
            ELSE found[n - 1]
    IN  found[Len(rows)]

Windows == {MaxAge} \cup {w \in Expansions : w > MaxAge}

\* The first window with enough candidates, or the widest.
Pool(rows, size) ==
    LET fetched(w) == Prefix(InWindow(rows, w), size)
        enough == {w \in Windows : Len(fetched(w)) >= MinItems}
    IN  fetched(IF enough = {} THEN Max(Windows) ELSE Min(enough))
-----------------------------------------------------------------------------
(***************************************************************************)
(* mmr_rank.                                                               *)
(***************************************************************************)
TitleOverlap(x, y) ==
    IF x.title = y.title THEN 2 ELSE IF <<x.title, y.title>> \in Similar THEN 1 ELSE 0

Similarity(x, y) ==
    (IF x.source = y.source THEN 3 ELSE 0)
        + (IF x.topic = y.topic THEN 3 ELSE 0)
        + (IF x.author # NoAuthor /\ x.author = y.author THEN 2 ELSE 0)
        + TitleOverlap(x, y)

MaxSimilarity(x, shown) ==
    IF shown = <<>> THEN 0 ELSE Max({Similarity(x, y) : y \in ToSet(shown)})

\* Faulty variant: the two weights are swapped.
GainSwapped(x, shown, lambda) ==
    (10 - lambda) * Score(x) - lambda * 10 * Unit * MaxSimilarity(x, shown)

\* A tenth of similarity weighs as much as a tenth of score.
Gain(x, shown, lambda) ==
    lambda * Score(x) - (10 - lambda) * 10 * Unit * MaxSimilarity(x, shown)

\* The place of the first candidate of the greatest gain.
Choice(left, shown, lambda) ==
    CHOOSE n \in DOMAIN left :
        /\ \A m \in DOMAIN left :
              Gain(left[m], shown, lambda) <= Gain(left[n], shown, lambda)
        /\ \A m \in 1..(n - 1) : Gain(left[m], shown, lambda) < Gain(left[n], shown, lambda)

\* One turn of the loop.
Show(state, lambda) ==
    LET n == Choice(state.left, state.shown, lambda)
    IN  [left |-> RemoveAt(state.left, n), shown |-> Append(state.shown, state.left[n])]

\* What is left and what is selected after n turns, for every n.
Turn(candidates, lambda) ==
    LET state[n \in 0..Len(candidates)] ==
            IF n = 0 THEN [left |-> candidates, shown |-> <<>>] ELSE Show(state[n - 1], lambda)
    IN  state

Rank(candidates, lambda, limit) ==
    Turn(candidates, lambda)[Min({limit, Len(candidates)})].shown
-----------------------------------------------------------------------------
(***************************************************************************)
(* build, and who pages through it.                                        *)
(***************************************************************************)
\* Faulty variant: the ranking is cut at the size of a page.
RankOnePage(candidates, lambda, limit, offset) == Rank(candidates, lambda, limit)

RankUpToPage(candidates, lambda, limit, offset) == Rank(candidates, lambda, offset + limit)

\* The pool, and with it the window and the total, depends on the offset.
Page(rows, lambda, limit, offset) ==
    LET candidates == CollapseVariants(Pool(rows, limit * Multiplier + offset))
        ranked == RankUpToPage(candidates, lambda, limit, offset)
    IN  [data |-> SubSeq(ranked, offset + 1, Min({offset + limit, Len(ranked)})),
         total |-> Len(candidates)]

\* getNextPageParam: the offset of the next page is what is loaded, and there
\* is no next page after the total of this one or after a short page.
WithPage(state, page, limit) ==
    LET loaded == state.loaded \o page.data
    IN  IF state.over THEN state
        ELSE [loaded |-> loaded, total |-> page.total,
              over |-> Len(loaded) >= page.total \/ Len(page.data) < limit]

\* queryFn: one request, of what the table holds by then.
Load(state, rows, lambda, limit) ==
    WithPage(state, Page(rows, lambda, limit, Len(state.loaded)), limit)

\* An article, some hours on.
Later(x, hours) ==
    [x EXCEPT !.age = @ + hours, !.born = IF @ = NoBirth THEN NoBirth ELSE @ + hours]

\* What page n reads of a reader who starts when the first items have been
\* stored: one item more for each page before, and all articles are older.
TableAt(first, n) ==
    LET rows == Deduplicate(Prefix(items, first + n - 1))
    IN  [k \in DOMAIN rows |-> Later(rows[k], (n - 1) * Pause)]

\* The state of the page after as many requests as there are items, and one.
Scroll(first, lambda, limit) ==
    LET state[n \in 0..(Len(items) + 1)] ==
            IF n = 0 THEN [loaded |-> <<>>, total |-> 0, over |-> FALSE]
            ELSE Load(state[n - 1], TableAt(first, n), lambda, limit)
    IN  state[Len(items) + 1]
-----------------------------------------------------------------------------
\* Pages rank different pools, of a table and by a clock that move on between
\* them, and from a window that depends on the offset. Scrolling ends all the
\* same, and never before as many articles are loaded as the last page counts.
ScrollEndsAtTotal ==
    \A limit \in PageSizes, lambda \in Lambdas, first \in 0..Len(items) :
        LET scroll == Scroll(first, lambda, limit)
        IN  scroll.over /\ Len(scroll.loaded) >= scroll.total

\* What the ranking trades: with some weight on quality an article may only
\* precede a better one if it is less like those before it, and with some
\* weight on diversity one that is more like them only if it is better.
RankingTradesFairly ==
    \A lambda \in Lambdas :
        LET all == CollapseVariants(Pool(Rows, Len(Rows)))
            ranking == Rank(all, lambda, Len(all))
            Like(n, m) == MaxSimilarity(ranking[n], SubSeq(ranking, 1, m - 1))
        IN  \A m, n \in DOMAIN ranking : m < n =>
                /\ lambda > 0 /\ Score(ranking[m]) < Score(ranking[n]) => Like(m, m) < Like(n, m)
                /\ lambda < 10 /\ Like(m, m) > Like(n, m) => Score(ranking[m]) > Score(ranking[n])
=============================================================================
