------------------------------ MODULE Extractors ------------------------------
(***************************************************************************)
(* extract() of each source in src/src/extractors/: it asks its endpoints  *)
(* (queries, domains, categories, subreddits, feeds, pages), reads their   *)
(* answers in a loop over the posts, and keeps some of what it took.  All  *)
(* loops of one extraction share the set of ids seen so far, and an error  *)
(* of an endpoint is logged and forgotten, whatever was seen before it.    *)
(*                                                                         *)
(* A post is [id, score, aside, stale, gone]: aside if the loop passes     *)
(* over it before it looks the id up (stickied, cross-listed, quantized,   *)
(* on another host, without link), stale if it does so only afterwards     *)
(* (too old, off topic), gone if it is an article that cannot be read.     *)
(* A page fetches an address once, so its links to it are gone together.   *)
(* The score of a feed's entry is its date.                                *)
(***************************************************************************)
EXTENDS Integers, SequencesExt, Lists

CONSTANTS Kinds,      \* the extractors to run
          MaxPages,   \* endpoints of a source
          Pages,      \* what an endpoint may answer, sequences of posts
          MaxItems,   \* max_items_per_source
          Slots       \* the semaphore of rss.py, 5

Sources ==
    {"hackernews", "hackernews_leading", "arxiv", "reddit", "rss", "github_search", "github",
     "huggingface", "webscraper"}

ASSUME ExtractorsAssumption ==
    /\ Kinds \subseteq Sources
    /\ \A posts \in Pages :
          /\ posts \in Seq(ToSet(posts))
          /\ \A p \in ToSet(posts) : p.score \in Int
          /\ \A p, q \in ToSet(posts) : p.id = q.id => p.gone = q.gone
    /\ MaxPages \in Nat \ {0, 1}
    /\ MaxItems \in Nat
    /\ Slots \in Nat \ {0}

VARIABLES
    kind,      \* which extractor this is
    state,     \* state[e]: where endpoint e is
    page,      \* what it answered, up to the post that broke the loop
    seen,      \* seen_ids, seen_urls
    taken,     \* taken[e]: the items made from its posts
    limited,   \* the rate limit told github_search to stop
    outcome,   \* "pending", "returned" or "raised"
    result     \* the list extract returns

extractVars == <<kind, state, page, seen, taken, limited, outcome, result>>
-----------------------------------------------------------------------------
(***************************************************************************)
(* The loops over the posts of an answer: what they took, and what they    *)
(* have seen.                                                              *)
(***************************************************************************)
Posts == UNION {ToSet(posts) : posts \in Pages}
Plain == {p \in Posts : ~p.aside}
Current == {p \in Posts : ~p.stale}

\* The places of posts among early whose id is seen there for the first time.
Fresh(posts, already, early) ==
    {n \in DOMAIN posts :
        /\ posts[n] \in early /\ posts[n].id \notin already
        /\ \A m \in 1..(n - 1) : posts[m] \in early => posts[m].id # posts[n].id}

\* Faulty variant: an id counts as seen before the post is looked at.
LoopMarksAll(posts, already, early, late) ==
    LET fresh == Fresh(posts, already, Posts)
    IN  [seen |-> already \cup {posts[n].id : n \in fresh},
         taken |-> Only(posts, {n \in fresh : posts[n] \in early \cap late})]

\* Posts outside early are skipped before their id is noted, those outside late
\* after it.
Loop(posts, already, early, late) ==
    LET fresh == Fresh(posts, already, early)
    IN  [seen |-> already \cup {posts[n].id : n \in fresh},
         taken |-> Only(posts, {n \in fresh : posts[n] \in late})]

Stories(posts, already) == Loop(posts, already, Posts, Posts)
LeadingStories(posts, already) == Loop(posts, already, Plain, Posts)
NewPapers(posts, already) == Loop(posts, already, Plain, Current)
TopPosts(posts, already) == Loop(posts, already, Plain, Posts)
FeedEntries(posts, already) == Loop(posts, already, Plain, Current)
FoundRepos(posts, already) == Loop(posts, already, Posts, Current)
Models(posts, already) == Loop(posts, already, Plain, Current)
DailyPapers(posts, already) == Loop(posts, already, Plain, Posts)

\* No ids here: the page lists a repository once.
TrendingRepos(posts, already) ==
    [seen |-> already, taken |-> Only(posts, {n \in DOMAIN posts : ~posts[n].aside})]

\* The links of an index page, each once; other index pages do not matter.
ArticleLinks(posts) == Loop(posts, {}, Plain, Posts).taken

\* An article that cannot be read has used up its place in the budget.
Articles(posts, already, budget) ==
    LET links == ArticleLinks(posts)
    IN  [seen |-> already,
         taken |-> Only(links, {n \in DOMAIN links : n <= budget /\ ~links[n].gone})]
-----------------------------------------------------------------------------
(***************************************************************************)
(* How each extract() goes about its endpoints.                            *)
(***************************************************************************)
HackerNews == [ends |-> "after all", keeps |-> "best", broken |-> "nothing"]
HackerNewsLeading == [ends |-> "when full", keeps |-> "first", broken |-> "nothing"]
Arxiv == [ends |-> "after all", keeps |-> "best", broken |-> "nothing"]
Reddit == [ends |-> "after all", keeps |-> "best", broken |-> "nothing"]
Rss == [ends |-> "after all", keeps |-> "best", broken |-> "nothing"]
GitHub == [ends |-> "when limited", keeps |-> "best", broken |-> "nothing"]
GitHubTrending == [ends |-> "after one", keeps |-> "best", broken |-> "raises"]
HuggingFace == [ends |-> "after two", keeps |-> "best", broken |-> "what it had"]
WebScraper == [ends |-> "when full", keeps |-> "first", broken |-> "nothing"]

Policy ==
    CASE kind = "hackernews" -> HackerNews
      [] kind = "hackernews_leading" -> HackerNewsLeading
      [] kind = "arxiv" -> Arxiv
      [] kind = "reddit" -> Reddit
      [] kind = "rss" -> Rss
      [] kind = "github_search" -> GitHub
      [] kind = "github" -> GitHubTrending
      [] kind = "huggingface" -> HuggingFace
      [] kind = "webscraper" -> WebScraper

Endpoints ==
    1..(CASE Policy.ends = "after one" -> 1 [] Policy.ends = "after two" -> 2 [] OTHER -> MaxPages)

Items == FlattenSeq(taken)

Read(e, posts) ==
    CASE kind = "hackernews" -> Stories(posts, seen)
      [] kind = "hackernews_leading" -> LeadingStories(posts, seen)
      [] kind = "arxiv" -> NewPapers(posts, seen)
      [] kind = "reddit" -> TopPosts(posts, seen)
      [] kind = "rss" -> FeedEntries(posts, seen)
      [] kind = "github_search" -> FoundRepos(posts, seen)
      [] kind = "github" -> TrendingRepos(posts, seen)
      [] kind = "huggingface" -> IF e = 1 THEN Models(posts, seen) ELSE DailyPapers(posts, seen)
      [] kind = "webscraper" -> Articles(posts, seen, MaxItems - Len(Items))
-----------------------------------------------------------------------------
ExtractInit ==
    /\ kind \in Kinds
    /\ state = [e \in 1..MaxPages |-> "waiting"]
    /\ page = [e \in 1..MaxPages |-> <<>>]
    /\ seen = {}
    /\ taken = [e \in 1..MaxPages |-> <<>>]
    /\ limited = FALSE
    /\ outcome = "pending" /\ result = <<>>

Ended == {"read", "broken", "failed"}

Stops ==
    \/ limited
    \/ Policy.ends = "when full" /\ Len(Items) >= MaxItems

\* gather over tasks that the semaphore lets in in their order.
SlotFree(e) ==
    /\ Cardinality({f \in Endpoints : state[f] = "asked"}) < Slots
    /\ \A f \in 1..(e - 1) : state[f] # "waiting"

Ask(e) ==
    /\ outcome = "pending" /\ state[e] = "waiting" /\ ~Stops
    /\ IF kind = "rss" THEN SlotFree(e) ELSE \A f \in 1..(e - 1) : state[f] \in Ended
    /\ state' = [state EXCEPT ![e] = "asked"]
    /\ UNCHANGED <<kind, page, seen, taken, limited, outcome, result>>

\* The loop over an answer has no await in it; only the web scraper goes on
\* to fetch, and it shares nothing with what runs meanwhile.
Answer(e, posts) ==
    /\ state[e] = "asked"
    /\ state' = [state EXCEPT ![e] = "read"]
    /\ page' = [page EXCEPT ![e] = posts]
    /\ seen' = Read(e, posts).seen
    /\ taken' = [taken EXCEPT ![e] = Read(e, posts).taken]
    /\ limited' \in {FALSE, kind = "github_search"}
    /\ UNCHANGED <<kind, outcome, result>>

\* What a loop that breaks leaves: nothing, or for the lists of huggingface what
\* was made so far; daily papers are noted first and made into items later.
Saved(e, posts) ==
    LET made == Read(e, Front(posts)).taken
    IN  CASE Policy.broken # "what it had" -> {<<>>}
          [] Policy.broken = "what it had" -> {made} \cup (IF e = 2 THEN {<<>>} ELSE {})

\* An exception at the last of these posts, after its id was noted.
Break(e, posts) ==
    /\ state[e] = "asked" /\ posts # <<>>
    /\ state' = [state EXCEPT ![e] = "broken"]
    /\ page' = [page EXCEPT ![e] = posts]
    /\ seen' = Read(e, posts).seen
    /\ \E items \in Saved(e, posts) : taken' = [taken EXCEPT ![e] = items]
    /\ outcome' = IF Policy.broken = "raises" THEN "raised" ELSE "pending"
    /\ UNCHANGED <<kind, limited, result>>

\* No answer, or an error status.
Fail(e) ==
    /\ state[e] = "asked"
    /\ state' = [state EXCEPT ![e] = "failed"]
    /\ UNCHANGED <<kind, page, seen, taken, limited, outcome, result>>

\* A stable sort.
BestFirst(s) ==
    LET Places == DOMAIN s
        Better(m, n) == s[m].score > s[n].score \/ (s[m].score = s[n].score /\ m <= n)
        order == InOrder(Places, {p \in Places \X Places : Better(p[1], p[2])})
    IN  [k \in DOMAIN order |-> s[order[k]]]

\* Faulty variant: the list is cut before it is sorted.
KeepUnsorted(s) == BestFirst(SubSeq(s, 1, Min({MaxItems, Len(s)})))

Keep(s) ==
    LET list == IF Policy.keeps = "best" THEN BestFirst(s) ELSE s
    IN  SubSeq(list, 1, Min({MaxItems, Len(list)}))

Finish ==
    /\ outcome = "pending"
    /\ \A e \in Endpoints : state[e] \in Ended \/ (Stops /\ state[e] = "waiting")
    /\ result' = Keep(Items)
    /\ outcome' = "returned"
    /\ UNCHANGED <<kind, state, page, seen, taken, limited>>

Reply(e) ==
    \/ \E posts \in Pages : Answer(e, posts) \/ Break(e, posts)
    \/ Fail(e)

ExtractNext ==
    \/ \E e \in Endpoints : Ask(e) \/ Reply(e)
    \/ Finish

ExtractSpec == ExtractInit /\ [][ExtractNext]_extractVars
-----------------------------------------------------------------------------
Returned == outcome = "returned"

Takes(e, p) ==
    CASE kind \in {"hackernews"} -> TRUE
      [] kind \in {"hackernews_leading", "reddit", "github"} -> ~p.aside
      [] kind \in {"arxiv", "rss"} -> ~p.aside /\ ~p.stale
      [] kind = "github_search" -> ~p.stale
      [] kind = "huggingface" -> ~p.aside /\ (e = 1 => ~p.stale)
      [] kind = "webscraper" -> ~p.aside /\ ~p.gone

\* A post on a page that was read to its end is returned, or there is no room
\* for it, or its id was met before under a stale post, under a lesser one, or
\* on a page that broke: no other failure and no order of answers costs a post
\* its place.
OnlyFailuresLoseItems ==
    Returned => \A e \in Endpoints : \A p \in ToSet(page[e]) :
        state[e] = "read" /\ Takes(e, p) =>
            \/ \E q \in ToSet(result) : q.id = p.id
            \/ Len(result) = MaxItems
                  /\ (Policy.keeps = "best" => \A q \in ToSet(result) : q.score >= p.score)
            \/ \E f \in Endpoints : \E q \in ToSet(page[f]) :
                  q.id = p.id /\ (state[f] = "broken" \/ q.stale \/ q.score < p.score)
            \/ kind = "webscraper" /\ Len(page[e]) > MaxItems - Len(FlattenSeq(SubSeq(taken, 1, e - 1)))

\* Within its limit an extraction returns the best of what it took, and what
\* two endpoints list it returns once (the web scraper, which compares within
\* an index page only, and the one page of github excepted).
BestAreKept ==
    Returned =>
        /\ kind \notin {"webscraper", "github"} =>
              \A m, n \in DOMAIN result : result[m].id = result[n].id => m = n
        /\ Len(result) = Min({MaxItems, Len(Items)})
        /\ Policy.keeps = "best" =>
              \A p \in ToSet(Items) \ ToSet(result) : \A q \in ToSet(result) : q.score >= p.score

=============================================================================
