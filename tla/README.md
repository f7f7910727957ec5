# Verification of the AI news platform

The platform collects news about AI from a dozen sources, drops what it has
seen, classifies the rest with an LLM, stores it in Postgres with embeddings and
serves it through an HTTP API, an MCP server and a web frontend. This directory
holds TLA+ modules of the parts of it that keep state, run concurrently or
decide something, the TLC configurations that check them, and TLAPS proofs about
eight of them. Paths below are relative to the repository (`src/` is its Python
package).

## 1. Inventory

| Part (source) | State | Operations | Talks to | What is hard |
|---|---|---|---|---|
| Scheduler (`src/pipeline/scheduler.py`) | five APScheduler jobs ("tiers"), at most one instance of each; all of it in memory | `run_scheduled_pipeline` per tier, start and stop of the process | breaker, pipeline | tiers overlap at every await; SIGTERM cancels runs anywhere |
| Circuit breaker (`src/pipeline/circuit_breaker.py`) | failures and opening time per source, in memory, one for all tiers | `record_failure`, `record_success`, `is_open` | called by the scheduler and by every extraction | failures are recorded in two places; expiry happens in the reader |
| Extraction (`src/pipeline/stages/extract.py`, `src/extractors/`) | none between runs; per call a set of ids that its endpoints share | one `extract()` per source, concurrently | sources over HTTP, breaker | an answer that breaks in the middle leaves ids behind; most errors become an empty list, which is a success |
| Pipeline run (`src/pipeline/pipeline.py`, `src/pipeline/stages/`) | rows of `news_items`, `daily_briefings`, `item_embeddings`, `pipeline_runs`; row locks | extract, validate, seen filter, classify, score, store, briefing, embed, write run row | Postgres, classifier, embedding API | no transaction spans a run; concurrent upserts of a url; cancellation; crash |
| Selection (`src/pipeline/dedup.py`, `src/pipeline/stages/classify.py`, `src/classifiers/`, `src/validators/credibility.py`) | none: lists in, lists out | deduplicate, keyword pass, answer of the model, merge events, filter noise | pipeline | order of the input, similarity that is not transitive, indexes the model makes up |
| LLM classifier (`src/classifiers/llm.py`) | semaphore, tasks and attempts of a call | `classify`, one task per batch | provider over HTTP | some errors must fail the run, others must not; tasks that outlive their call |
| Scorer and feed (`src/feed/`, `composite_scorer.py`, `frontend/src/pages/FeedPage.tsx`) | none; read rows | candidates, live score, collapse, MMR, page, scroll | Postgres, API | every page ranks a candidate set of its own |
| Health (`src/pipeline/health*.py`, `scripts/pipeline_healthcheck.py`) | none; read run rows | six rules and a container check | run rows | rows are ordered by start, written at the end, and sometimes not at all |
| Chat (`src/rag/`, `src/api/routes/chat.py`) | one stream per request | embed, search twice, stream, sources, done | embedding API, provider, client | deadline and disconnect in the middle of a stream |
| MCP client and server (`src/mcp/`) | one guest token and its lock | one tool per endpoint | API | several calls meet the same expired token |
| Web client (`frontend/src/lib/`, `pages/Search.tsx`) | guest token in storage, one promise in flight, an abort switch and the state of a page | fetches | API | late answers, late 401s, aborted requests that still fail |
| Backfill script (`scripts/backfill.py`, `src/pipeline/backfill/`) | checkpoint file, `raw_extractions`, `news_items`, money spent | extract by month, classify under a budget, embed | sources, provider, Postgres | killed and resumed; concurrent batches share a budget |
| Recovery and rescoring (`scripts/recover_outage.py`, `scripts/rescore_*.py`) | the tables | one pass over rows | Postgres, the running pipeline | pages of a table that grows |
| Read API (`src/api/`) | rate limiter, tokens (stateless JWT) | queries | Postgres | pagination while rows change |
| Core, migrations, operations scripts | settings, tables | | | |

How they interact: the scheduler starts runs and asks the breaker, extraction
tells the breaker, and the scheduler tells it too when a run fails. Runs of
several tiers share the tables and nothing else. Feed, health, chat and the read
API are readers of those tables while runs write them. Clients share one token
each among their concurrent requests. The backfill is a process of its own.

Correctness, per part, in a sentence:

- *Scheduler and breaker.* A source that failed often enough is not called for
  exactly one cooldown, is tried again afterwards, and no tier's failures touch
  another tier's sources.
- *Extraction.* A post that a source has answered is returned unless there is no
  room for it, and what an endpoint's failure may cost the others is bounded.
- *Pipeline.* A run recorded as complete has left every item it accepted in the
  table, for good; rows never get worse; the briefing counts each committed
  change at most once; every run ends.
- *Selection.* The loops compute the relation they are meant to: one item per
  content and per url, the best one; connected components of similarity; no two
  accepted near-duplicates; nothing that the model made up.
- *LLM classifier.* Configuration and account errors fail the run, nothing else
  does, and every batch ends.
- *Feed.* Scrolling ends with as many articles as there are, although each page
  ranks a table and by a clock of its own, and the ranking trades quality for
  diversity and for nothing else.
- *Health.* A streak of bad runs raises its alert and the alert goes away again;
  a scheduler with which nothing is amiss is called silent only if its runs were
  long.
- *Chat.* Every response is well formed and ends; the model is given as much
  context as there is.
- *MCP and web client.* One renewal at a time, no retry with a token that was
  refused, every call ends, and a page shows what was searched for last.
- *Backfill.* What the checkpoint says is done is in the table, and the budget
  is overspent by no more than the batches in flight.

## 2. Modules

| Module | Models | Used by |
|---|---|---|
| `CircuitBreaker` | the three methods of the breaker over a clock | `Scheduler` |
| `Scheduler` | tiers, circuit check, extraction outcomes, failed runs, restart | |
| `SourceGate` | abstract: what a paused source is | refined by `Scheduler` |
| `Extractors` | the nine `extract()` methods: endpoints, shared ids, failures, rate limit, cut | |
| `Lists` | a list made of places of another: some of them, or all in another order | `Selection`, `Extractors` |
| `Dedup` | what `deduplicate_items` returns, as a relation | `Pipeline`, `Curation` |
| `Pipeline` | runs over shared tables, an action per await | |
| `NewsLedger` | abstract: rows, what a run owes to the briefing, completion | refined by `Pipeline` |
| `Curation` | the loops of deduplication, variant collapse and noise filter, over the tree of all inputs | `Selection` |
| `Selection` | keyword pass, answers of the model, merge of events, what a run keeps | `Feed` |
| `Scorer` | the composite score, in integers | `Feed` |
| `Feed` | window, pool, live score, collapse, MMR, page, scrolling | |
| `EventDedup` | union-find of the event deduplication, statement by statement | |
| `LLMClassifier` | batches, slots, attempts, errors | |
| `Health` | rules about silence, failing and degraded runs, over the life of a scheduler | |
| `Chat` | one response: searches, tokens, deadline, errors, slow and leaving clients | |
| `TokenClient` | guest token of the MCP client | |
| `WebClient` | guest token and abort switch of the frontend, state of a search page | |
| `Backfill` | the script, its checkpoint and its budget | |

`MC*.tla` give constants their values; `*Proofs.tla` hold theorems. Several
modules define an operator with the comment "Faulty variant": a plausible bug
in the code, which the specification does not use. Putting it in the place of
the operator it varies makes a property fail; this is how each property has
been shown to depend on the code.

**State and code.** In `Scheduler`, `failures`, `tripped` and `age` are
`_failures`, the keys of `_opened_at` and the time since (`Tick` advances all,
up to `Cooldown`, after which nothing depends on it); `phase`, `active` and
`inflight` are the local state of `run_scheduled_pipeline` and of
`run_extraction`. `badRuns`, `struck` and `outages` are auxiliary: no guard
reads them.

In `Pipeline`, `pc[r]` is the await at which run `r` is suspended; between two
awaits the event loop runs nothing else, so a step is the code from one await to
the next. `news` is what is committed, `draft[r]` and `locked[r]` what
the open transaction of `r` has written and locked; an upsert sees the committed
row after it has the lock (READ COMMITTED), which is why a waiting upsert is a
step of its own. `log` holds the rows of `pipeline_runs`. `validated`, `todo`,
`published`, `briefed` and `recent` are the run's locals, or the part of the
table inside the seen window; `AgeOut` lets a row leave the window.
Classification and the filters are an arbitrary subset of the items; that they
are no more than that is `SelectionIsSubset`, proved of the code's passes. The
items that it excepts (section 4) come twice, which a set does not show, and so do
an index's two topics when `enable_news_validation` is off.

`Curation`, `Selection` and `Feed` have one variable, the input of a run, which grows by
an item per step; the state graph is the tree of all inputs, invariants are about one
input, and `OnlyRepostsHurt` compares it with itself less one item, wherever that
stands. In `Feed` the rows are what a run leaves of the input, and `Page` computes for
an offset what `build` does: the pool, and with it the window, depends on the offset.
When the page scrolls, each request meets a table and a clock of its own (`TableAt`):
more rows, and each older by `Pause` hours. Score terms are in 1/1200 (`Scorer`),
similarities in tenths.

In `Extractors`, `state[e]` is where endpoint `e` is, `seen` the set that the loops
share, `taken[e]` what was made of an answer; `Policy` has, for each extractor, when it
stops asking, whether it sorts before it cuts, and what an exception in the middle of an
answer leaves. A loop over an answer is the set of places at which an id is new
(`Fresh`), of which it keeps some in their order (`Only`). In `LLMClassifier`,
`phase[k][b]` is the task of batch `b` in call `k`; a slot is held from `Acquire` until
the task ends, through every backoff. In `TokenClient`, `token` is the client's, `valid`
what the API accepts; `used[c]` is the local `used_token`. In `WebClient` a step is a
task of the browser with all the continuations it resolves; `posts` and `inflight` are
the request for a token and the promise that waiters share, `aborted` the signals, and
`loading`, `results`, `error` the page's state. In `Health`, `log` holds the runs of the
last window in the order of their starts, those under way and those whose row was lost
included, which the rules cannot see; `outlasting` are the tiers whose run is older than
the window, and `took` is what the last run of a tier took. In `Chat`, `stage` is the
await and `next` what follows once the client has taken an event; `found` is the context
as a set, its order being that of the numbers. In `Backfill`, `pc` is the phase of the
one process, `file` and `memory` the checkpoint file and the object, `paid` what was
really spent and `spent` what the cost tracker knows.

**Abstractions.** Items are records of small sets. In `Pipeline` the three scores
that an upsert compares and merges are small numbers that differ from run to run
(section 7 has the columns' NULL). String similarity is a constant relation or an
arbitrary graph. Time is a counter where it matters (cooldown, health) and
otherwise the freedom to take a step at any moment. A keyword pass sees how many
keywords of each topic a title has; an answer of the LLM is a list of indexes
with a topic and a relevance.

## 3. Runs

Every property of a passing run is stated with a comment in its module.

| Run | Instance | Question |
|---|---|---|
| `scheduler` | 2 tiers, 3 sources, threshold 3, cooldown 2, 1 restart | How many bad runs does it take to pause a source, is the pause exactly one cooldown, and does it end? Is the scheduler a `SourceGate`? |
| `scheduler_outage` | the same, without fairness | Does an outage after extraction pause the sources? **Violated** |
| `pipeline` | 2 runs, 2 urls, an item without url, 1 SIGTERM, 1 crash | Is what is recorded as complete durable, and embedded? Do rows get worse? Is the pipeline a `NewsLedger`? Do runs that lock each other's rows end? |
| `extractors` | nine extractors, 3 endpoints, 6 possible answers, room for 2 items | Which posts can a failure cost, and is what is kept the best of what came? |
| `curation` | all lists of up to 4 out of 11 items, one of them all stop words, 5 answers of the model, topics merged up to 3 items, page sizes 1 and 2, 3 values of lambda, a day between pages | Do the passes compute what they should, and which item can cost another its place? What does a run select, with validation on and off? Does scrolling end, and with all there is? |
| `event_dedup` | all graphs and weights on up to 4 items, 5 for the cutoff | Are events the connected components, each with its best item? Does it stop? |
| `llm` | 1 call, 3 batches, 2 slots, 3 retries | Does a call that met a fatal error never return? Does every batch end, that of a failed call too? |
| `token` | 3 calls, 4 tokens | Is no valid token thrown away and no refused one used again? Does each call end? |
| `webclient` | 3 searches, 1 other request, 2 losses of tokens | Is a renewal shared, is no refused token used again, does the page show its latest search, and does it settle? |
| `backfill` | 3 starts, 2 sources, 2 months, 6 rows, 2 batches in flight | Is the checkpoint never ahead? Is overspending bounded? Does a process that is not killed end? |
| `health` | 2 tiers, runs of any length, a limit of silence of 2 ticks in a window of 3, streaks of 2 | Is every streak of bad runs noticed, when does a working scheduler look dead, and do alerts end? |
| `chat` | 4 items, 2 places, answers of up to 2 tokens | Is every stream well formed, is the context as full as it can be, and does every answer end? |

**Why the bounds are enough.** A threshold of 3 is odd, so the two charges a run
can make overshoot it; two tiers show interference, one with two sources lets a
run be partly paused. Two runs are enough for every conflict on a row, since a
conflict is between two transactions; feeds name the same two urls, because a
deadlock needs two rows taken in different orders, and `Batch = 2` lets a
transaction hold both. No feed has a third item to store, so TLC sees no commit in
the middle of a feed; `Pipeline` has it, and what is proved of `Pipeline` holds of
any feed and batch. Three endpoints have one
before and one after the one that breaks, and two places are filled by one
answer or by two. Four items are a chain of three and one aside, or two pages of
two; the candidates of `MCCuration` have each case of the passes at least once:
equal urls with better and worse scores, variants, titles that are alike but not
transitively, ages and missing dates on both sides of the windows. Three batches
on two slots make one wait; three retries have a first, a middle and a last
attempt. Three callers on four tokens have late refusals for several old tokens
at once; three searches have one that is aborted while another one is. Two
months and two sources give the checkpoint a position inside a source and
between sources; two batches in flight are the least that overspend together.
The health rules are scale-free in their constants: with a window of three
ticks, streaks, neutral runs between them and rows that leave the window all
happen, and so do runs that outlast the limit of silence or the window. Two tokens
put an error before, between and after them.

**Symmetry** is not used: most runs check liveness, for which it is not sound.

**Deadlock checking** is off where processes end for good (runs, calls, requests,
the script, algorithms). The scheduler, the health model and the token client
never end and are checked for deadlock.

## 4. What was met

`scheduler_outage` is a disagreement with a document.
`docs/adr/003-llm-kimi-k26-fail-loud.md:48` says an LLM outage pauses the run's
sources. Each run's extraction succeeds first and resets the counts
(`extract.py`, `record_success`), so the failure that follows counts from zero in
each run: no sequence of such runs opens a circuit.

Met while modelling, in the models as the code has it, and not stated as runs:

- *Two passes, two statements.* `seen_filter.py:56-63` says a content update skips
  the title check. A run that commits the same url between the two passes makes
  the item look like a duplicate of its own row.
- *Two rows for one run.* A SIGTERM that arrives when the server has committed the
  success row adds a row `interrupted` (`pipeline.py:238-263`).
- *Budget over restarts.* `backfill.py:529` says it holds; the cost is saved once,
  after the last batch (`:323`), and a process killed before starts from zero.
- *One transaction.* `backfill.py:358` names one of the two unique indexes of
  `news_items` (`models.py:97`): two accepted items with one url abort the insert
  of all paid results.
- *A gap in the keyword pass.* `classify.py:42` says three matches accept an item.
  With a relevance below `min_relevance_score`, which is 0.8 since the model
  changed, it is dropped, and the LLM is not asked.
- *Twice selected.* `model`, `data` and `new` are stop words of the noise filter
  (`credibility.py:175-181`), and `model` is a keyword. An item whose words are all stop
  words is similar to nothing, itself included (`:287`); if the model answers its
  index under two topics, the item is selected twice. With a url the second write
  raises the relevance of the first at most, and the count of stored rows by one;
  without, it does nothing. No line of the repository says otherwise.
- *Variants.* `collapse_variants` does nothing in the classification stage, whose
  items have the attributes it reads one level down (`classify.py:108`).
- *Unsorted lists.* `base.py:61` promises sorted lists; `hackernews_leading` and the
  web scraper cut the list in the order of discovery.
- *Outages look like success.* Extractors return an empty list when all their
  endpoints fail; for the breaker that is a success.
- *Slots per call.* The bound of three requests in flight is one per call of
  `classify`, and batches go on after their call has raised (`llm.py:294-331`).
- *Health messages.* The silence rule speaks of runs that started, but sees runs
  that ended; the degraded rule of items stored, but counts runs without any. An
  alternation of errors and degraded runs raises neither alert.
- *A long run looks like silence.* Nothing bounds a run: the clients of the LLM and
  of the embeddings retry with timeouts of their own, and `pipeline.py` has none. A
  row is written at the end and dated by the start, so `SCHEDULER_STALE_AFTER`, 45
  minutes, can pass without a row of a scheduler that works. `SilenceMeansLongRuns`
  says what that takes: in each tier the last two runs together took longer than is
  left after an interval, 30 minutes for the most frequent one.
- *Pages of a feed that moves.* Each page takes its own `now` and reads the table
  again (`feed_builder.py:64-72`), from a pool that depends on its offset: an article
  can come on two pages, and one that moved up between two requests on none.
- *A repost can cost a better item.* Pass 1 keeps the first item of a content hash,
  whatever its score (`dedup.py:24-28`): a repost of the same title and url that
  comes earlier displaces a better one. `OnlyRepostsHurt` says that only that does.
- *Resuming with other arguments.* A month is skipped if it is not after the
  checkpoint's (`backfill.py:110`), whatever the process is asked for: an earlier
  `--from`, or the rest of a month that was not over when it was marked, is not read.
- *Direction of diversity.* `items.py:290` documents 0 as quality and 1 as diverse;
  the number is passed on as lambda, where it is the other way round
  (`config.py:128`).
- *A deadline at the wrong moment.* When the thirty seconds of the chat pass while
  the client is being waited for, the cancellation meets the generator at a
  `yield`: the stream breaks off without an event.
- *Renewals that fail.* Each caller of the MCP client that waited for a renewal
  that failed makes a POST of its own (`client.py:101-103`).

## 5. Fairness

Weak fairness of a step says that an await ends, and the code gives each external
request a timeout: `httpx` clients, the LLM and embedding clients, and Postgres,
which aborts one of two deadlocked transactions; the browser ends each of its
requests in some way. Timers of APScheduler fire again and again (`Fire`), and
clocks run (`Tick`). No fairness is assumed of failures, restarts, signals,
crashes, expiry, or of calls being made. In `TokenClient` the lock's queue is
first come, first served (`asyncio.Lock`), which a caller sees as strong fairness
of getting it. In `Chat` the model need not go on in the middle of an answer: the
deadline is what ends it, and a client takes the next event or goes. In
`Backfill` the process as a whole makes progress (`Work`), which is enough as its
batches are finitely many. `EventDedup` is a sequential program, which takes its
next step.

## 6. Proofs

Proved with TLAPS, for all values of the constants that satisfy the named assumptions
(`BreakerAssumption`, `TierAssumption`, `PipelineAssumption`, `LLMAssumption`,
`TokenAssumption`, `WebAssumption`, `BackfillAssumption`, `EventAssumption`,
`CurationAssumption`, `SelectionAssumption`, `ExtractorsAssumption`, `FeedAssumption`,
`HealthAssumption`, `ChatAssumption`). Where two components share a module of proofs,
nothing but the library is common to them.

- `SchedulerProofs`. `IndInv` joins the state properties with `RunShape` (sources of a
  run are not open and not charged until called) and `ChargeBound` (a count is at most
  twice the number of bad runs, less one for a source already charged in a run that goes
  on). Without `RunShape` a late failure could be charged to an open circuit; without
  `ChargeBound` the number of runs it takes to open one has no lower bound. From it
  follow `CircuitMatchesCount`, `CountStopsAtOpening`, `NoCallWhileOpen`,
  `OpeningTakesSeveralRuns`, the action property `CooldownIsExact`, and the refinement
  `SchedulerImplementsGate`, one action after the other.
- `PipelineProofs`. `IndInv` adds to `SuccessIsDurable` who holds locks (`Locks`: no two
  runs one row), that drafts do not fall below what is committed (`DraftsGrow`, in none
  of the three scores), where an accepted item is while a run goes on (`HandledItems`:
  to do, in the draft, or in the table) and that there is nothing accepted before
  classification (`RowsComeLast`). Monotone scores (`ScoresNeverDrop`) are a consequence
  of `DraftsGrow`, and make durability survive the other runs. On top of it,
  `EmbeddingShape` follows a run's rows to their vectors: a selection below the limit is
  the whole backlog, which has them all because they are committed by then;
  `SuccessMeansEmbedded` follows. The refinement `PipelineImplementsLedger` ends the
  module. The code adds one for each statement that improves a row as its transaction
  sees it; the ledger counts rows that a commit changes. `LedgerShape` makes the two
  agree: the items of a run have different urls from deduplication on (`DistinctItems`),
  so no statement meets a row its own transaction has changed (`Uncommitted`), and the
  count is what was published before plus the changed drafts (`Counts`). Without
  `DistinctItems` a row that is improved twice in a batch would be billed twice.
- `LanguageModelProofs`, the classifier. `IndInv` ties a batch's state to the errors
  it has met and a call's to those of its batches. Besides `FailLoud`, three facts
  that no run states follow: only configuration errors raise, keywords are the last
  resort, and no request follows a fatal error of its batch.
  The chat: `StreamGoesOn` says that what is sent, followed by what the stream has
  still to send (`Remaining`, a function of `next`), is a response; an event that goes
  out moves from the second part to the first (`AppendedFirst`), and an error or the
  end of the answer only decides between two endings of a text (`TextThenEnd`).
  `StreamIsWellFormed` follows in every state, also in those in which a deadline or
  the client has cut the stream. For `ContextIsFull`, `EarlyStays` says that items
  keep their vectors and that the second search is made only if there were too few
  recent ones when the question was asked; a search returns all there are or as
  many as the limit (`NearestSuffice`: all that precede the nearest item left out
  were taken, and they are as many as the limit).
- `ApiProofs`, the token of the MCP client. `IndInv`: a POST is made by the holder of
  the lock only, for a token that is still the client's and no longer valid; tokens
  get newer. Hence a retry is fresher than what was refused, and no valid token is
  replaced. A second invariant, `PostsOutstanding`, says that a POST for the present
  token is still under the lock; with it a second one needs the first to have failed.
  The health rules: the table is a list that a start extends at its head, an end
  changes anywhere and a tick cuts (`Steps`, from which `Starts`, `Changes` and
  `Passes` are all that the rest uses). `FailureIsNoticed` counts runs whose rows are
  written in another order than they started. The runs before the latest different
  outcome are the streak; of those after it, `FewAreLate` says that they belong to
  different tiers, and not to that of the other outcome, since a tier has one run at a
  time (`OneAtATime`), so there are fewer than tiers. For
  `SilenceMeansLongRuns` it is not enough that a tier fires: its run may be under way.
  `FiringIsRecorded` says that a tier without a run under way has a row that started
  no longer ago than its last firing and what its last run took, `RunsFollow` that
  one recorded before a run that goes on started at most an interval and that run's
  length before it; both speak of what came after `trouble`, the last lost row, job
  skipped or restart. Nothing is assumed of the length of runs; an assumption that they
  are short would be about no line of the code.
- `WebClientProofs`. The same questions where nothing is locked: `TokenConsistent`
  says that the promise is set while exactly one request for a token is under
  way, and whenever somebody waits; `RetryConsistent` that what a repeated request
  carries is newer than what was refused. The step that needs both is the arrival
  of a token: it is newer than all that were issued, so than any that was refused.
  For the page, `ResultsMatchLatest` is not inductive: why does a late answer not
  land? `PageInv` says that every search but the latest has been aborted
  (`Superseded`), that an aborted one fetches nothing more (`AbortedStops`), that the
  latest one is not aborted as long as the page is there (`LatestGoesOn`), and that
  it has ended when the spinner has stopped (`ShownIsLatest`).
- `BackfillProofs`. `IndInv` adds to the checked properties that a month being
  stored is in `raw` or on its way (`ExtractionShape`), that items at the LLM are
  in disjoint batches that are neither queued nor accepted (`OnePlace`), and the
  size of batches and of the saved cost (`BatchesFit`). From it follow
  `CheckpointIsBehind` (the month that is marked is the least that is due, so
  none is passed over), `ExtractionIsComplete`, and `BudgetHolds`: a batch
  starts below the budget, `UnionOfBounded` bounds what is at the LLM by slots
  times batch size, and an answer moves its cost from there to `spent`.

- `EventDedupProofs`. `TreesAreComponents` and `OneWinnerPerEvent` speak of where the
  parent links lead, which is no formula of first order. It is said with sets instead: a
  set closed under the links that holds an item holds its root. The invariant has a
  function `root` that gives an item and its parent the same end, one that every closed
  set with the item in it contains, so that there are no cycles (`LeadsTo`); two items
  have one end just if similar pairs compared so far connect them (`Separates`); and
  `Finds` says what `find` is looking for. Halving a path keeps it because a grandparent
  has the same root; linking two roots moves the items of one to the other. That a set
  of numbers has a least member, which picks the winner, comes from the library's
  theorem that inclusion of finite sets is well-founded (`LeastNumber`).
- `CurationProofs`. The loops of `Curation` are folds, and a fold is a function that
  `CHOOSE` picks among those that satisfy its equation, so the first thing to prove is
  that there is one (`FoldExists`: extend it by one index at a time) and that two of
  them agree on the indices up to any length (`TurnsAgree`). From this each loop gets
  one lemma: for a longer input it takes one turn more (`NoiseGoes`, `FirstGoes`,
  `BestGoes`, `VariantGoes`). For the noise filter and the variants the rest is an
  invariant of `Spec`, which extends the input item by item: `Maximal` and `VariantsOK`
  (the best of a group against each place of the input). For deduplication it is an
  induction over the beginnings of any list (`PassesAreOK`: what the first pass keeps,
  what `url_map` and `no_url` hold of it), because `OnlyRepostsCost` compares two inputs
  of which neither begins the other. What comes first of its content is kept
  (`FirstsAreKept`), and a url has the best of what is kept for it (`BestOfUrl`). An
  item that stood for a url without the further one is either still first of its content
  or has given way to that one, which has its title and url (`RepostsCost`).
  `CurationAssumption` gives that scores are numbers, without which "better" is no
  order, and that similarity is symmetric; `MaxLen` plays no part in any of the proofs.
  The second half is about `Feed`, whose loops are functions that call themselves for
  the turn before (`RecursionExists`). `TurnIs` and `TurnsGoOn` say what `mmr_rank`
  holds after each turn; since a turn takes nothing back, a ranking cut at any length is
  what a longer one begins with (`RankIs`), and at its turn an article gains at least as
  much as any that comes later (`RankIsGreedy`). With scores and similarities that are
  numbers (`ScoreIsInteger`, `MaxSimilarityIs`) the trade is arithmetic (`Weighing`).
  For the scrolling nothing relates one page to the next, whose table and ages are
  others. What holds of each page alone is that it is shorter than the limit only if its
  total leaves no more above its offset (`PageIs`), and that no total exceeds the number
  of items (`TableIs`, `MembersAreFew`, `CollapsedIs`). So a request ends the scrolling
  or adds an article (`ScrollOK`), and there is one request more than articles.

  `SelectionKeepsToInput` is about a run's selection. Its order of places is one of
  ranks, and a rank for each place up to their number is an injection, hence a
  surjection (`InOrderIs`), so filtering keeps elements only (`OnlyTakes`). An event is
  the last of a chain of sets that begins with the item (`EventIs`), and of finitely
  many weights there is a greatest (`WinnerIs`). From keyword pass to winners everything
  is then a candidate with a topic and a relevance (`Chosen`), and the filter, if it is
  on, keeps no two similar ones (`NoiseKeepsDissimilar`), by induction over its turns,
  since what it is given is not the input. The attempt to prove the property as it first
  stood, without the exception, failed at an item that is not similar to itself; the run
  now has one. `SelectionAssumption` says what the types of the code do (candidates are
  records, counts numbers), that there is a topic, and that being about one event is
  symmetric.

  `BestIsKept` and `OnlyFailuresLose` are about an extraction. Its lists are joined by a
  function that calls itself, which picks out for each item of the whole the list and
  the place it is from (`FlattenIs`, `FlattenMembers`); a stable sort is a permutation
  (`BestFirstIs`), and of what the cut leaves out nothing is better than what it leaves
  in (`KeepIs`). A loop over posts looks at the least place of each id it has not met
  (`LoopLeaves`). `ExtractInv` then ties the set of ids to the lists: every item's id is
  in it, no two items have the same, and an id in it without an item is that of a stale
  post or of a page that broke (`Noted`). Without the last part a post could lose its
  place to nothing at all, which is what the property denies. For the web scraper the
  invariant says that pages come in turn (`InTurn`), so that what it has when a page
  comes is what the pages before have brought (`BudgetIs`), also in the state that the
  property looks back from. The steps split into those in which a page lands
  (`LandsNoted`, `LandsBudgeted`) and the others (`QuietKeeps`). `ExtractorsAssumption`
  says that scores are numbers and answers lists, and that two links of a page to one
  address are gone together, since it is fetched once: without this a first link that
  cannot be read could hide a second that can. How many slots there are plays no part.

**Model-checked only.** Liveness: under fairness it is not within TLAPS's means
here. Every invariant and every action property that a passing run checks is proved.

## 7. Not modelled

- *Read API.* Its handlers are stateless: a query, or an aggregate, and a schema.
  What decides something is in `Feed` (pages of the latest items) and `Health`
  (alerts). The other routes, trend buckets, paging by offset and the statistics
  would be SQL written twice. Its tokens and its rate limiter appear as what the
  two clients see of them.
- *NULL scores.* The three columns are nullable. A comparison with NULL is no reason to
  update (`store.py:103-105`), so a row with a NULL score and the same title keeps it
  when a number comes. Extractors, classifier and `run_scoring` set numbers; rows of
  before those columns, or an explicit `null` of an API, are left out.
- *Arguments that change between starts of the backfill*; section 4 has what the code
  does then.
- *Scripts run by hand* (`recover_outage.py`, `rescore_*.py`): their writes are the
  upserts of `Pipeline`, or one `UPDATE` per row, which may lower a score. Rescoring
  pages by offset over a table that grows, so it can miss rows; the next run of it does
  not.
- *MCP server*: one call of the client per tool, then text.
- *Health rules about counts* (dead sources, nothing stored, no key): each compares
  one value it has read with a constant.
- *The order of the embedding backlog*: 500 rows per run, in whatever order Postgres
  returns them. `Pipeline` selects any subset; whether a bad text comes back each
  time is not decided by this code.
- *Pages of the frontend without state worth the name* (Timeline, Admin), and React
  components as such. `Timeline.tsx` fetches without the abort switch, so an
  earlier answer can arrive last.
- *Feed filters* by topic and source, which only make the table smaller, and the
  second feed query without diversity.
- *Enrichment and embedding in the backfill*, which write nothing the checkpoint
  depends on.
- Parsers, prompts, texts, logging, metrics, settings; vector arithmetic; keyword
  tables; SSRF checks; migrations, backups and benchmarks.

Worth doing next: a model of rescoring by offset beside a pipeline that inserts, if the
scripts ever run on a schedule.
