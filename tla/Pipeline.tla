------------------------------ MODULE Pipeline ------------------------------
(***************************************************************************)
(* src/src/pipeline/pipeline.py (run_pipeline) with the stages that touch  *)
(* the database: seen_filter.py and store.py.  Several runs, one per       *)
(* scheduler tier, share a Postgres database; each step below is the code  *)
(* between two awaits, so the runs interleave wherever the program can be  *)
(* preempted.  A run may raise at any await, be cancelled by SIGTERM, or   *)
(* vanish with its process.                                                *)
(*                                                                         *)
(* Data.  An item is its url, its title (content_hash is a hash of both)   *)
(* and the three scores store.py compares and merges; the last two are     *)
(* those classify and score_items will give it, read by nothing before.    *)
(* The columns are nullable, the scores are not: extractors, classifier    *)
(* and run_scoring set numbers, and an API's explicit null is left out.    *)
(* Lists are sets where only their order is lost; the order of             *)
(* store_classified_items is any order.  Postgres is external: READ        *)
(* COMMITTED, row locks held to the end of a transaction, a deadlock       *)
(* detector that aborts one of the runs.                                   *)
(***************************************************************************)
EXTENDS Naturals, FiniteSets, Dedup

CONSTANTS Runs,              \* pipeline runs
          Urls,              \* url_hash values (Dedup declares NoUrl)
          Titles, NoTitle,   \* titles; NoTitle is an empty one
          Similar,           \* pairs with title_similarity >= 0.80
          MaxScore,          \* scores are 0..MaxScore
          Feeds,             \* Feeds[r]: what extraction may return to run r
          NoRow, NoItem,     \* absent row, absent item
          Batch,             \* _BATCH_COMMIT_SIZE
          TitleLimit,        \* .limit(2000) in filter_already_seen
          EmbedLimit,        \* .limit(500) in embed_new_items_with_status
          EmbeddingEnabled,  \* settings.embedding_api_key is set
          MaxStops,          \* bound on SIGTERMs
          MaxCrashes         \* bound on crashes

Items == [url : Urls \cup {NoUrl}, title : Titles \cup {NoTitle},
          score : 0..MaxScore, relevance : 0..MaxScore, composite : 0..MaxScore]
Rows == [title : Titles,
         score : 0..MaxScore, relevance : 0..MaxScore, composite : 0..MaxScore]

ASSUME PipelineAssumption ==
    /\ NoUrl \notin Urls
    /\ NoTitle \notin Titles
    /\ NoRow \notin Rows
    /\ NoItem \notin Items
    /\ MaxScore \in Nat
    /\ Similar \subseteq Titles \X Titles
    /\ Feeds \in [Runs -> SUBSET SUBSET Items]
    /\ Batch \in Nat \ {0}
    /\ TitleLimit \in Nat
    /\ EmbedLimit \in Nat
    /\ EmbeddingEnabled \in BOOLEAN
    /\ MaxStops \in Nat
    /\ MaxCrashes \in Nat

VARIABLES
    news,       \* news_items, committed
    recent,     \* urls whose created_at is within seen_window_days
    embedded,   \* urls of rows with an item_embeddings row
    briefing,   \* daily_briefings.total_items
    log,        \* pipeline_runs: pairs <<run, status>>
    pc,         \* where run r is
    batch,      \* the items in hand before classification
    updates,    \* content_updates of the seen filter
    validated,  \* the items handed to store_classified_items
    todo,       \* those without a statement yet
    waiting,    \* the item whose INSERT waits for a row lock
    locked,     \* urls locked by the open transaction of run r
    draft,      \* the uncommitted version of the locked rows
    pending,    \* statements since the last commit
    stored,     \* the count store_classified_items will return
    published,  \* auxiliary: stored at the last commit
    briefed,    \* auxiliary: runs whose briefing is committed
    pick,       \* rows selected for embedding
    failed,     \* runs with embed_failed
    stops, crashes

database == <<news, recent, embedded, briefing, log>>
filterVars == <<batch, updates>>
storeVars == <<validated, todo, waiting, locked, draft, pending, stored, published>>
tailVars == <<briefed, pick, failed>>
faultVars == <<stops, crashes>>
vars == <<database, pc, filterVars, storeVars, tailVars, faultVars>>

\* Phases in which a run awaits inside the try block of run_pipeline.
Awaiting == {"extract", "seen", "titles", "classify", "store", "brief", "embed",
             "vectors", "final", "empty", "returning"}

Phases == Awaiting \cup {"idle", "failing", "cancelling", "done", "dead"}

Statuses == {"success", "degraded", "empty", "error", "interrupted"}

Storable == [url : Urls, title : Titles,
             score : 0..MaxScore, relevance : 0..MaxScore, composite : 0..MaxScore]

TypeOK ==
    /\ news \in [Urls -> Rows \cup {NoRow}]
    /\ recent \in SUBSET Urls
    /\ embedded \in SUBSET Urls
    /\ briefing \in Nat
    /\ log \in SUBSET (Runs \X Statuses)
    /\ pc \in [Runs -> Phases]
    /\ batch \in [Runs -> SUBSET Items]
    /\ updates \in [Runs -> SUBSET Items]
    /\ validated \in [Runs -> SUBSET Storable]
    /\ todo \in [Runs -> SUBSET Storable]
    /\ waiting \in [Runs -> Storable \cup {NoItem}]
    /\ locked \in [Runs -> SUBSET Urls]
    /\ draft \in [Runs -> [Urls -> Rows \cup {NoRow}]]
    /\ pending \in [Runs -> Nat]
    /\ stored \in [Runs -> Nat]
    /\ published \in [Runs -> Nat]
    /\ briefed \in SUBSET Runs
    /\ pick \in [Runs -> SUBSET Urls]
    /\ failed \in SUBSET Runs
    /\ stops \in 0..MaxStops
    /\ crashes \in 0..MaxCrashes

Init ==
    /\ news = [u \in Urls |-> NoRow]
    /\ recent = {}
    /\ embedded = {}
    /\ briefing = 0
    /\ log = {}
    /\ pc = [r \in Runs |-> "idle"]
    /\ batch = [r \in Runs |-> {}]
    /\ updates = [r \in Runs |-> {}]
    /\ validated = [r \in Runs |-> {}]
    /\ todo = [r \in Runs |-> {}]
    /\ waiting = [r \in Runs |-> NoItem]
    /\ locked = [r \in Runs |-> {}]
    /\ draft = [r \in Runs |-> [u \in Urls |-> NoRow]]
    /\ pending = [r \in Runs |-> 0]
    /\ stored = [r \in Runs |-> 0]
    /\ published = [r \in Runs |-> 0]
    /\ briefed = {}
    /\ pick = [r \in Runs |-> {}]
    /\ failed = {}
    /\ stops = 0
    /\ crashes = 0
-----------------------------------------------------------------------------
(***************************************************************************)
(* Pure helpers.                                                           *)
(***************************************************************************)

\* validate_extracted_item returns no error.
Valid(i) == i.title # NoTitle /\ i.url # NoUrl

\* The results of a LIMIT n query without a decisive order.
Limited(S, n) == {T \in SUBSET S : Cardinality(T) = n \/ (T = S /\ Cardinality(S) <= n)}

\* No score of a row or item a is below that of b.
AtLeast(a, b) ==
    a.score >= b.score /\ a.relevance >= b.relevance /\ a.composite >= b.composite

\* Faulty variant: a better score alone is not worth an update.
ImprovesTitle(row, i) == row = NoRow \/ row.title # i.title

\* The WHERE clause of the upsert: another title, or some score that the row
\* does not reach; a new row always counts.
Improves(row, i) == row = NoRow \/ row.title # i.title \/ ~AtLeast(row, i)

RowOf(i) == [title |-> i.title, score |-> i.score,
             relevance |-> i.relevance, composite |-> i.composite]

Greatest(x, y) == IF x > y THEN x ELSE y

\* Faulty variant: the last writer wins.
Overwrite(row, i) == RowOf(i)

\* The row after the upsert: the item's title, and of each score the greatest.
Merge(row, i) ==
    IF row = NoRow THEN RowOf(i)
    ELSE [title |-> i.title,
          score |-> Greatest(row.score, i.score),
          relevance |-> Greatest(row.relevance, i.relevance),
          composite |-> Greatest(row.composite, i.composite)]

\* The row of u that a statement of run r sees once it has the lock.
Visible(r, u) == IF u \in locked[r] THEN draft[r][u] ELSE news[u]

LockedByOther(r, u) == \E q \in Runs \ {r} : u \in locked[q]
-----------------------------------------------------------------------------
(***************************************************************************)
(* A run, from extraction to the seen filter.                              *)
(***************************************************************************)

\* A stopping process starts no run.
Begin(r) ==
    /\ pc[r] = "idle"
    /\ \A q \in Runs : pc[q] # "cancelling"
    /\ pc' = [pc EXCEPT ![r] = "extract"]
    /\ UNCHANGED <<database, filterVars, storeVars, tailVars, faultVars>>

\* run_extraction returned, and deduplicate_items ran on its items.
Extracted(r) ==
    \E I \in Feeds[r] : \E D \in Deduplicated(I) :
        /\ pc[r] = "extract"
        /\ batch' = [batch EXCEPT ![r] = D]
        /\ pc' = [pc EXCEPT ![r] = IF I = {} THEN "empty" ELSE "seen"]
        /\ UNCHANGED <<database, updates, storeVars, tailVars, faultVars>>

\* Pass 1 of the seen filter: an item stored in the window with the same title
\* is dropped, one stored with another title skips pass 2.
ReadUrls(r) ==
    LET known == {i \in batch[r] : i.url \in recent /\ news[i.url] # NoRow}
        changed == {i \in known : news[i.url].title # i.title}
        candidates == batch[r] \ known
    IN  /\ pc[r] = "seen"
        /\ updates' = [updates EXCEPT ![r] = changed]
        /\ batch' = [batch EXCEPT ![r] = IF candidates = {} THEN changed ELSE candidates]
        /\ pc' = [pc EXCEPT ![r] = IF candidates = {} THEN "classify" ELSE "titles"]
        /\ UNCHANGED <<database, storeVars, tailVars, faultVars>>

\* Pass 2, a second query: the title is compared with recently stored ones.
ReadTitles(r) ==
    \E seen \in Limited({u \in recent : news[u] # NoRow}, TitleLimit) :
        LET fresh == {i \in batch[r] : \A u \in seen : <<i.title, news[u].title>> \notin Similar}
        IN  /\ pc[r] = "titles"
            /\ batch' = [batch EXCEPT ![r] = fresh \cup updates[r]]
            /\ pc' = [pc EXCEPT ![r] = "classify"]
            /\ UNCHANGED <<database, updates, storeVars, tailVars, faultVars>>

\* Pre-validation, classification, scoring and the credibility filter: the
\* items that come out are any valid ones. What went in is not used again.
Classify(r) ==
    \E V \in SUBSET {i \in batch[r] : Valid(i)} :
        /\ pc[r] = "classify"
        /\ validated' = [validated EXCEPT ![r] = V]
        /\ todo' = [todo EXCEPT ![r] = V]
        /\ pc' = [pc EXCEPT ![r] = "store"]
        /\ batch' = [batch EXCEPT ![r] = {}]
        /\ updates' = [updates EXCEPT ![r] = {}]
        /\ UNCHANGED <<database, waiting, locked, draft, pending, stored, published, tailVars,
                       faultVars>>
-----------------------------------------------------------------------------
(***************************************************************************)
(* store_classified_items, save_briefing, embed_new_items_with_status and  *)
(* the PipelineRun row.                                                    *)
(***************************************************************************)

\* The INSERT of the next item blocks: another transaction holds its row.
WaitForLock(r, i) ==
    /\ pc[r] = "store"
    /\ pending[r] < Batch
    /\ i \in todo[r]
    /\ waiting[r] = NoItem
    /\ LockedByOther(r, i.url)
    /\ waiting' = [waiting EXCEPT ![r] = i]
    /\ UNCHANGED <<database, pc, filterVars, validated, todo, locked, draft, pending, stored,
                   published, tailVars, faultVars>>

\* INSERT ... ON CONFLICT (url_hash) DO UPDATE ... WHERE: the row is locked
\* even when the WHERE clause leaves it as it is.
StoreItem(r, i) ==
    LET row == Visible(r, i.url)
    IN  /\ pc[r] = "store"
        /\ pending[r] < Batch
        /\ i \in todo[r]
        /\ waiting[r] \in {NoItem, i}
        /\ ~LockedByOther(r, i.url)
        /\ waiting' = [waiting EXCEPT ![r] = NoItem]
        /\ todo' = [todo EXCEPT ![r] = @ \ {i}]
        /\ locked' = [locked EXCEPT ![r] = @ \cup {i.url}]
        /\ draft' = [draft EXCEPT ![r][i.url] = IF Improves(row, i) THEN Merge(row, i) ELSE row]
        /\ stored' = [stored EXCEPT ![r] = IF Improves(row, i) THEN @ + 1 ELSE @]
        /\ pending' = [pending EXCEPT ![r] = @ + 1]
        /\ UNCHANGED <<database, pc, filterVars, validated, published, tailVars, faultVars>>

\* The commit of a full batch or the last one.  A row's created_at is set when
\* the row is new and never refreshed.
CommitStore(r) ==
    /\ pc[r] = "store"
    /\ waiting[r] = NoItem
    /\ pending[r] = Batch \/ todo[r] = {}
    /\ news' = [u \in Urls |-> IF u \in locked[r] THEN draft[r][u] ELSE news[u]]
    /\ recent' = recent \cup {u \in locked[r] : news[u] = NoRow}
    /\ locked' = [locked EXCEPT ![r] = {}]
    /\ pending' = [pending EXCEPT ![r] = 0]
    /\ published' = [published EXCEPT ![r] = stored[r]]
    /\ pc' = [pc EXCEPT ![r] = IF todo[r] = {} THEN "brief" ELSE "store"]
    /\ UNCHANGED <<embedded, briefing, log, filterVars, validated, todo, waiting, draft, stored,
                   tailVars, faultVars>>

\* Faulty variant: the day's total is the count of the last run.
ReplaceBriefing(r) ==
    /\ pc[r] = "brief"
    /\ briefing' = stored[r]
    /\ briefed' = briefed \cup {r}
    /\ pc' = [pc EXCEPT ![r] = IF EmbeddingEnabled THEN "embed" ELSE "final"]
    /\ UNCHANGED <<news, recent, embedded, log, filterVars, storeVars, pick, failed, faultVars>>

\* One upsert adds this run's count to the day's total, and commits.
SaveBriefing(r) ==
    /\ pc[r] = "brief"
    /\ briefing' = briefing + stored[r]
    /\ briefed' = briefed \cup {r}
    /\ pc' = [pc EXCEPT ![r] = IF EmbeddingEnabled THEN "embed" ELSE "final"]
    /\ UNCHANGED <<news, recent, embedded, log, filterVars, storeVars, pick, failed, faultVars>>

Unembedded == {u \in Urls \ embedded : news[u] # NoRow}

\* Rows of any run that have no vector yet.
EmbedSelect(r) ==
    \E P \in Limited(Unembedded, EmbedLimit) :
        /\ pc[r] = "embed"
        /\ pick' = [pick EXCEPT ![r] = P]
        /\ pc' = [pc EXCEPT ![r] = IF P = {} THEN "final" ELSE "vectors"]
        /\ UNCHANGED <<database, filterVars, storeVars, briefed, failed, faultVars>>

\* The API answered; vectors another run stored meanwhile are left alone.
EmbedStore(r) ==
    /\ pc[r] = "vectors"
    /\ embedded' = embedded \cup pick[r]
    /\ pc' = [pc EXCEPT ![r] = "final"]
    /\ UNCHANGED <<news, recent, briefing, log, filterVars, storeVars, tailVars, faultVars>>

\* Faulty variant: a failed batch looks like an empty one.
EmbedFailsSilently(r) ==
    /\ pc[r] = "vectors"
    /\ pc' = [pc EXCEPT ![r] = "final"]
    /\ UNCHANGED <<database, filterVars, storeVars, tailVars, faultVars>>

EmbedFails(r) ==
    /\ pc[r] = "vectors"
    /\ failed' = failed \cup {r}
    /\ pc' = [pc EXCEPT ![r] = "final"]
    /\ UNCHANGED <<database, filterVars, storeVars, briefed, pick, faultVars>>

\* The PipelineRun row is committed in the database; its acknowledgement is
\* still on the way.
WriteRun(r) ==
    /\ pc[r] \in {"final", "empty"}
    /\ log' = log \cup {<<r, IF pc[r] = "empty" THEN "empty"
                             ELSE IF r \in failed THEN "degraded" ELSE "success">>}
    /\ pc' = [pc EXCEPT ![r] = "returning"]
    /\ UNCHANGED <<news, recent, embedded, briefing, filterVars, storeVars, tailVars, faultVars>>

Return(r) ==
    /\ pc[r] = "returning"
    /\ pc' = [pc EXCEPT ![r] = "done"]
    /\ UNCHANGED <<database, filterVars, storeVars, tailVars, faultVars>>
-----------------------------------------------------------------------------
(***************************************************************************)
(* Failures.  An exception and a cancellation leave the transaction open,  *)
(* with its locks, until the handler rolls it back or the session closes.  *)
(***************************************************************************)
\* Faulty variant: the transaction of a failed run stays open.
NoRollback(r) ==
    /\ waiting' = [waiting EXCEPT ![r] = NoItem]
    /\ UNCHANGED <<validated, todo, locked, draft, pending, stored, published>>

Rollback(r) ==
    /\ locked' = [locked EXCEPT ![r] = {}]
    /\ waiting' = [waiting EXCEPT ![r] = NoItem]
    /\ UNCHANGED <<validated, todo, draft, pending, stored, published>>

\* Whatever is awaited raises: the LLM, the network, the database.
Raises(r) ==
    /\ pc[r] \in Awaiting
    /\ pc' = [pc EXCEPT ![r] = "failing"]
    /\ UNCHANGED <<database, filterVars, storeVars, tailVars, faultVars>>

\* except Exception: roll back, try to save an "error" row, re-raise.
HandleError(r) ==
    /\ pc[r] = "failing"
    /\ log' \in {log, log \cup {<<r, "error">>}}
    /\ pc' = [pc EXCEPT ![r] = "dead"]
    /\ Rollback(r)
    /\ UNCHANGED <<news, recent, embedded, briefing, filterVars, tailVars, faultVars>>

\* Each run of a deadlock set waits for a row that another one of them holds.
Deadlocked(S) ==
    /\ S # {}
    /\ \A r \in S : /\ waiting[r] # NoItem
                    /\ \E q \in S \ {r} : waiting[r].url \in locked[q]

\* The deadlock detector aborts one transaction: its locks go at once.
DeadlockVictim(r) ==
    /\ pc[r] = "store"
    /\ \E S \in SUBSET Runs : r \in S /\ Deadlocked(S)
    /\ pc' = [pc EXCEPT ![r] = "failing"]
    /\ Rollback(r)
    /\ UNCHANGED <<database, filterVars, tailVars, faultVars>>

\* SIGTERM cancels every task.  A run in its error handler has no handler left
\* for the cancellation, and its row is lost.
Sigterm ==
    /\ stops < MaxStops
    /\ stops' = stops + 1
    /\ pc' = [r \in Runs |-> IF pc[r] \in Awaiting THEN "cancelling"
                             ELSE IF pc[r] = "failing" THEN "dead" ELSE pc[r]]
    /\ locked' = [r \in Runs |-> IF pc[r] = "failing" THEN {} ELSE locked[r]]
    /\ waiting' = [r \in Runs |-> IF pc[r] = "failing" THEN NoItem ELSE waiting[r]]
    /\ UNCHANGED <<database, filterVars, validated, todo, draft, pending, stored, published,
                   tailVars, crashes>>

\* except CancelledError: the row is saved on a session of its own, or not at
\* all within the five seconds it is given; then the run's session closes.
HandleCancel(r) ==
    /\ pc[r] = "cancelling"
    /\ log' \in {log, log \cup {<<r, "interrupted">>}}
    /\ pc' = [pc EXCEPT ![r] = "dead"]
    /\ Rollback(r)
    /\ UNCHANGED <<news, recent, embedded, briefing, filterVars, tailVars, faultVars>>

\* The process is gone; Postgres rolls its transactions back.
Crash ==
    /\ crashes < MaxCrashes
    /\ crashes' = crashes + 1
    /\ pc' = [r \in Runs |-> IF pc[r] \in {"idle", "done"} THEN pc[r] ELSE "dead"]
    /\ locked' = [r \in Runs |-> {}]
    /\ waiting' = [r \in Runs |-> NoItem]
    /\ UNCHANGED <<database, filterVars, validated, todo, draft, pending, stored, published,
                   tailVars, stops>>

\* A row leaves the seen window.
AgeOut(u) ==
    /\ u \in recent
    /\ recent' = recent \ {u}
    /\ UNCHANGED <<news, embedded, briefing, log, pc, filterVars, storeVars, tailVars, faultVars>>

\* What run r does when nothing goes wrong around it.
Proceed(r) ==
    \/ Extracted(r)
    \/ ReadUrls(r)
    \/ ReadTitles(r)
    \/ Classify(r)
    \/ \E i \in todo[r] : WaitForLock(r, i) \/ StoreItem(r, i)
    \/ CommitStore(r)
    \/ SaveBriefing(r)
    \/ EmbedSelect(r)
    \/ EmbedStore(r)
    \/ EmbedFails(r)
    \/ WriteRun(r)
    \/ Return(r)
    \/ HandleError(r)
    \/ HandleCancel(r)

Next ==
    \/ \E r \in Runs : Begin(r) \/ Proceed(r) \/ Raises(r) \/ DeadlockVictim(r)
    \/ Sigterm
    \/ Crash
    \/ \E u \in Urls : AgeOut(u)

Spec == Init /\ [][Next]_vars

\* Every await ends: HTTP and LLM calls have timeouts, and Postgres aborts a
\* deadlocked transaction. The condition is the weakest one, that some run
\* moves as long as one can.
FairSpec == Spec /\ WF_vars(\E r \in Runs : Proceed(r) \/ DeadlockVictim(r))
-----------------------------------------------------------------------------
Completed(r) == <<r, "success">> \in log \/ <<r, "degraded">> \in log

\* The row of item i has at least each of its scores.
Carries(row, i) == row # NoRow /\ AtLeast(row, i)

\* A run is recorded as completed only when each item it accepted is in the
\* database with at least the scores it was given, whatever other runs did to
\* the same rows before, meanwhile and since.
SuccessIsDurable ==
    \A r \in Runs : Completed(r) => \A i \in validated[r] : Carries(news[i.url], i)

\* A recorded success also means that the rows of the run have vectors, unless
\* the backlog exceeded the query's limit; a run that could not get them is
\* recorded as degraded.
SuccessMeansEmbedded ==
    \A r \in Runs :
        /\ <<r, "success">> \in log
        /\ EmbeddingEnabled
        /\ Cardinality(pick[r]) < EmbedLimit
        => {i.url : i \in validated[r]} \subseteq embedded

\* Stored rows are never lost and their scores never drop, although concurrent
\* runs overwrite each other's rows.
ScoresNeverDrop ==
    [][\A u \in Urls : news[u] # NoRow => news'[u] # NoRow /\ AtLeast(news'[u], news[u])]_vars

\* Every run that begins ends, two runs that lock each other's rows included.
\* (A run begins once, so again and again a moment without unfinished runs.)
EveryRunEnds == []<>(\A r \in Runs : pc[r] \in {"idle", "done", "dead"})

\* The inductive invariant behind the safety properties: who may hold locks,
\* that an uncommitted row never falls below the committed one, and where the
\* items a run has already handled are.
Locks ==
    /\ \A r, q \in Runs : r # q => locked[r] \cap locked[q] = {}
    /\ \A r \in Runs : locked[r] # {} => pc[r] \in {"store", "failing", "cancelling"}

DraftsGrow ==
    \A r \in Runs : \A u \in locked[r] :
        /\ draft[r][u] # NoRow
        /\ news[u] # NoRow => AtLeast(draft[r][u], news[u])

HandledItems ==
    \A r \in Runs :
        /\ pc[r] = "store" =>
              \A i \in validated[r] :
                  \/ i \in todo[r]
                  \/ i.url \in locked[r] /\ Carries(draft[r][i.url], i)
                  \/ Carries(news[i.url], i)
        /\ pc[r] \in {"brief", "embed", "vectors", "final"} =>
              \A i \in validated[r] : Carries(news[i.url], i)

RowsComeLast ==
    \A r \in Runs :
        /\ pc[r] \in {"idle", "extract", "seen", "titles", "classify", "empty"} =>
              validated[r] = {} /\ ~Completed(r)
        /\ todo[r] \subseteq validated[r]

IndInv ==
    /\ TypeOK
    /\ Locks
    /\ DraftsGrow
    /\ HandledItems
    /\ RowsComeLast
    /\ SuccessIsDurable

\* The runs implement the ledger.  A run owes the changes it has committed and
\* not added to the briefing.
Ledger == INSTANCE NewsLedger WITH
              accepted <- validated,
              owed <- [r \in Runs |-> IF r \in briefed THEN 0 ELSE published[r]],
              total <- briefing,
              closed <- {r \in Runs : Completed(r)}

LedgerSpec == Ledger!Spec

=============================================================================
