------------------------------ MODULE Backfill ------------------------------
(***************************************************************************)
(* scripts/backfill.py with pipeline/backfill/checkpoint.py and            *)
(* cost_tracker.py: a process extracts history month by month into         *)
(* raw_extractions, sends what is new to the LLM in concurrent batches     *)
(* under a budget, and stores the results in news_items.  A checkpoint     *)
(* file lets the next process resume.  The process may be killed or die of *)
(* an exception at any await.                                              *)
(*                                                                         *)
(* The unit of cost is what the tracker adds for one item.  The embedding  *)
(* phase is that of Pipeline; a dry run only extracts.  Items are selected *)
(* for --max-items in the order of extracted_at, equal for all items of a  *)
(* transaction: which of them are selected is left open.                   *)
(***************************************************************************)
EXTENDS Naturals, FiniteSets, SequencesExt

CONSTANTS Sources,       \* sequence of the sources that are read by month
          LastMonth,     \* months are 1..LastMonth
          Published,     \* Published[s][m]: what the source has for a month
          Models,        \* what HuggingFace has, read without months
          Relevant,      \* items that pass the keyword filter
          PipelineRows,  \* rows of news_items that were there before
          StoreBatch,    \* _STORE_BATCH_SIZE
          MaxItems,      \* --max-items
          MaxCost,       \* --max-cost
          BatchSize,     \* items of a batch, 10
          Concurrency,   \* batches at a time, 5
          MaxStarts      \* bound on the processes

Months == 1..LastMonth
SourceSet == ToSet(Sources)
Items == Models \cup UNION {Published[s][m] : s \in SourceSet, m \in Months}

ASSUME BackfillAssumption ==
    /\ Sources \in Seq(SourceSet)
    /\ IsInjective(Sources)
    /\ {LastMonth, MaxItems, MaxStarts} \subseteq Nat
    /\ {StoreBatch, MaxCost, BatchSize, Concurrency} \subseteq Nat \ {0}
    /\ IsFiniteSet(Items)

\* The content hash covers the title and the url of an item.
Row(i) == [title |-> i.title, url |-> i.url]
Rows == {Row(i) : i \in Items} \cup PipelineRows

VARIABLES
    raw,       \* raw_extractions
    news,      \* news_items
    file,      \* the checkpoint file
    memory,    \* the process's BackfillCheckpoint
    pending,   \* items fetched and not yet inserted
    stored,    \* total_stored
    queue,     \* items whose batch has not started
    flying,    \* batches at the LLM
    accepted,  \* items it has accepted
    spent,     \* cost_tracker.estimated_cost_usd
    stopped,   \* stopped
    pc,
    starts,    \* processes so far
    paid       \* auxiliary: cost since a start without --resume

persistent == <<raw, news, file>>
extraction == <<memory, pending, stored>>
classification == <<queue, flying, accepted, spent, stopped>>
vars == <<persistent, extraction, classification, pc, starts, paid>>

Fresh == [last |-> [s \in SourceSet |-> 0], cost |-> 0]
Checkpoints == [last : [SourceSet -> 0..LastMonth], cost : Nat]
Extracting == {"extract", "store_month", "store_models", "load"}
Alive == Extracting \cup {"batches", "insert"}
Ended == {"unstarted", "killed", "failed", "done"}

TypeOK ==
    /\ raw \subseteq Items
    /\ news \subseteq Rows
    /\ file \in Checkpoints
    /\ memory \in Checkpoints
    /\ pending \subseteq Items
    /\ stored \in Nat
    /\ queue \subseteq Items
    /\ flying \subseteq SUBSET Items
    /\ accepted \subseteq Items
    /\ spent \in Nat
    /\ stopped \in BOOLEAN
    /\ pc \in Alive \cup Ended
    /\ starts \in 0..MaxStarts
    /\ paid \in Nat

Init ==
    /\ raw = {}
    /\ news = PipelineRows
    /\ file = Fresh /\ memory = Fresh
    /\ pending = {} /\ stored = 0
    /\ queue = {} /\ flying = {} /\ accepted = {}
    /\ spent = 0 /\ stopped = FALSE
    /\ pc = "unstarted"
    /\ starts = 0 /\ paid = 0
-----------------------------------------------------------------------------
\* main, with or without --resume.
Start(resume) ==
    /\ pc \in Ended
    /\ starts < MaxStarts
    /\ starts' = starts + 1
    /\ memory' = IF resume THEN file ELSE Fresh
    /\ spent' = memory'.cost
    /\ paid' = IF resume THEN paid ELSE 0
    /\ stored' = 0
    /\ pending' = {} /\ queue' = {} /\ flying' = {} /\ accepted' = {}
    /\ stopped' = FALSE
    /\ pc' = "extract"
    /\ UNCHANGED persistent

\* Faulty variant: one cursor for all sources.
DueAfterAny(s) == {m \in Months : \A z \in SourceSet : m > memory.last[z]}

\* The months that are not skipped: those after the checkpoint's, whatever
\* months and sources the process is asked for.  Here they are those of the
\* process before: one that resumes with an earlier --from, or after a month
\* that was not yet over, leaves out what was never read.
Due(s) == {m \in Months : m > memory.last[s]}

Unread == {k \in DOMAIN Sources : Due(Sources[k]) # {}}

\* The source that is read, and its month.
Current == Sources[Min(Unread)]

NextMonth == Min(Due(Current))

FetchMonth ==
    /\ pc = "extract"
    /\ stored < MaxItems
    /\ Unread # {}
    /\ pending' = Published[Current][NextMonth]
    /\ pc' = "store_month"
    /\ UNCHANGED <<persistent, memory, stored, classification, starts, paid>>

\* HuggingFace comes last and gives its most downloaded models.
FetchModels ==
    /\ pc = "extract"
    /\ stored < MaxItems
    /\ Unread = {}
    /\ pending' \in SUBSET Models
    /\ pc' = "store_models"
    /\ UNCHANGED <<persistent, memory, stored, classification, starts, paid>>

Storing == pc \in {"store_month", "store_models"}

\* _store_raw_items commits every StoreBatch items, and the rest.
StoreChunk ==
    /\ Storing
    /\ pending # {}
    /\ \E chunk \in SUBSET pending :
          /\ \/ Cardinality(chunk) = StoreBatch
             \/ chunk = pending /\ Cardinality(chunk) < StoreBatch
          /\ raw' = raw \cup chunk
          /\ stored' = stored + Cardinality(chunk \ raw)
          /\ pending' = pending \ chunk
    /\ UNCHANGED <<news, file, memory, classification, pc, starts, paid>>

Mark(cp) ==
    IF pc = "store_month"
    THEN [cp EXCEPT !.last[Current] = NextMonth]
    ELSE cp

\* Faulty variant: a failed chunk does not keep the month from being marked.
SaveUnstored ==
    /\ Storing
    /\ memory' = Mark(memory)
    /\ file' = memory'
    /\ pending' = {}
    /\ pc' = IF pc = "store_month" THEN "extract" ELSE "load"
    /\ UNCHANGED <<raw, news, stored, classification, starts, paid>>

\* update_source and save, which replaces the file in one step.
Save ==
    /\ Storing
    /\ pending = {}
    /\ memory' = Mark(memory)
    /\ file' = memory'
    /\ pc' = IF pc = "store_month" THEN "extract" ELSE "load"
    /\ UNCHANGED <<raw, news, pending, stored, classification, starts, paid>>

ExtractedEnough ==
    /\ pc = "extract"
    /\ stored >= MaxItems
    /\ pc' = "load"
    /\ UNCHANGED <<persistent, extraction, classification, starts, paid>>
-----------------------------------------------------------------------------
\* phase_classify: what is not in news_items and passes the filter, up to
\* --max-items.
Load ==
    /\ pc = "load"
    /\ LET new == {i \in raw \cap Relevant : Row(i) \notin news}
       IN  queue' \in {Q \in SUBSET new :
              IF Cardinality(new) <= MaxItems THEN Q = new ELSE Cardinality(Q) = MaxItems}
    /\ pc' = "batches"
    /\ UNCHANGED <<persistent, extraction, flying, accepted, spent, stopped, starts, paid>>

SlotFree == Cardinality(flying) < Concurrency

\* Faulty variant: the budget is looked at before the wait for a slot.
MayStartUnchecked == ~stopped

MayStart == ~stopped /\ spent < MaxCost

\* A batch gets a slot of the semaphore.
StartBatch ==
    /\ pc = "batches"
    /\ SlotFree
    /\ MayStart
    /\ \E batch \in SUBSET queue :
          /\ batch # {}
          /\ \/ Cardinality(batch) = BatchSize
             \/ batch = queue /\ Cardinality(batch) < BatchSize
          /\ flying' = flying \cup {batch}
          /\ queue' = queue \ batch
    /\ UNCHANGED <<persistent, extraction, accepted, spent, stopped, pc, starts, paid>>

\* Over budget or out of quota, the other batches return without a call.
SkipBatches ==
    /\ pc = "batches"
    /\ queue # {}
    /\ SlotFree
    /\ ~MayStart
    /\ queue' = {}
    /\ UNCHANGED <<persistent, extraction, flying, accepted, spent, stopped, pc, starts, paid>>

\* The LLM accepts some items of the batch, and all of them are charged.
BatchAnswers(batch) ==
    /\ batch \in flying
    /\ \E some \in SUBSET batch : accepted' = accepted \cup some
    /\ flying' = flying \ {batch}
    /\ spent' = spent + Cardinality(batch)
    /\ paid' = paid + Cardinality(batch)
    /\ UNCHANGED <<persistent, extraction, queue, stopped, pc, starts>>

\* Faulty variant: a failed batch is sent again.
FailsAndRetries(batch, noQuota) ==
    /\ batch \in flying
    /\ flying' = flying \ {batch}
    /\ queue' = queue \cup batch
    /\ stopped' = (stopped \/ noQuota)
    /\ UNCHANGED <<persistent, extraction, accepted, spent, pc, starts, paid>>

\* 402 and 429 stop the batches to come, any other error costs this batch.
BatchFails(batch, noQuota) ==
    /\ batch \in flying
    /\ flying' = flying \ {batch}
    /\ stopped' = (stopped \/ noQuota)
    /\ UNCHANGED <<persistent, extraction, queue, accepted, spent, pc, starts, paid>>

\* gather has returned: the cost is saved.
Gathered ==
    /\ pc = "batches"
    /\ queue = {} /\ flying = {}
    /\ memory' = [memory EXCEPT !.cost = spent]
    /\ file' = memory'
    /\ pc' = "insert"
    /\ UNCHANGED <<raw, news, pending, stored, classification, starts, paid>>

\* The rows of what the LLM accepted.
Inserted == {Row(i) : i \in accepted}

\* ON CONFLICT names the content hash only; the url hash has a unique index too.
UrlConflict == \E p \in Inserted, q \in Inserted \cup news : p # q /\ p.url = q.url

\* All results are inserted in one transaction, and the checkpoint is saved again.
Insert ==
    /\ pc = "insert"
    /\ ~UrlConflict
    /\ news' = news \cup Inserted
    /\ pc' = "done"
    /\ UNCHANGED <<raw, file, extraction, classification, starts, paid>>

\* IntegrityError: the transaction is rolled back and the process dies.
InsertFails ==
    /\ pc = "insert"
    /\ UrlConflict
    /\ pc' = "failed"
    /\ UNCHANGED <<persistent, extraction, classification, starts, paid>>

\* The process is killed, or dies of a failed request or connection.
Crash ==
    /\ pc \in Alive
    /\ pc' = "killed"
    /\ flying' = {}
    /\ UNCHANGED <<persistent, extraction, queue, accepted, spent, stopped, starts, paid>>

Work ==
    \/ FetchMonth \/ FetchModels \/ StoreChunk \/ Save \/ ExtractedEnough
    \/ Load \/ StartBatch \/ SkipBatches
    \/ \E batch \in flying :
          BatchAnswers(batch) \/ \E noQuota \in BOOLEAN : BatchFails(batch, noQuota)
    \/ Gathered \/ Insert \/ InsertFails

Next == Work \/ Crash \/ \E resume \in BOOLEAN : Start(resume)

Spec == Init /\ [][Next]_vars

\* Requests have timeouts and the database answers.
FairSpec == Spec /\ WF_vars(Work)
-----------------------------------------------------------------------------
\* The checkpoint may be behind the table and never ahead of it: whatever a
\* resumed process skips is in raw_extractions, however its predecessors died.
CheckpointIsBehind ==
    \A s \in SourceSet, m \in Months :
        m <= file.last[s] \/ m <= memory.last[s] => Published[s][m] \subseteq raw

\* What is fetched of a month is on its way to the table, and the extraction
\* ends with nothing left to read or with --max-items.
ExtractionShape ==
    /\ pc = "store_month" =>
          Unread # {} /\ Published[Current][NextMonth] \subseteq raw \cup pending
    /\ pc = "store_models" => Unread = {}
    /\ pc \in {"load", "batches", "insert", "done"} /\ stored < MaxItems => Unread = {}

\* Past the extraction, all of history is in the table, unless the process
\* itself stored --max-items.
ExtractionIsComplete ==
    pc \in {"load", "batches", "insert", "done"} /\ stored < MaxItems =>
        \A s \in SourceSet, m \in Months : Published[s][m] \subseteq raw

\* The budget is exceeded by less than the batches that may be at the LLM at a
\* time, what they will cost included, and so is the cost in the file.
Overshoot == MaxCost - 1 + Concurrency * BatchSize

BudgetHolds ==
    /\ spent + Cardinality(UNION flying) <= Overshoot
    /\ file.cost <= Overshoot

\* Every item is in one place at a time, and no batch is sent that has been
\* answered: no item is paid for twice by one process.
OnePlace ==
    /\ queue \cap UNION flying = {}
    /\ accepted \cap (queue \cup UNION flying) = {}
    /\ \A b, c \in flying : b # c => b \cap c = {}
    /\ Cardinality(flying) <= Concurrency
    /\ flying # {} => pc = "batches"
    /\ pc \in Extracting => accepted = {}

\* No batch and no saved cost is larger than what the budget allows for.
BatchesFit ==
    /\ \A b \in flying : Cardinality(b) <= BatchSize
    /\ memory.cost <= Overshoot

IndInv ==
    /\ TypeOK
    /\ CheckpointIsBehind
    /\ ExtractionShape
    /\ BudgetHolds
    /\ OnePlace
    /\ BatchesFit

\* A process that is not killed ends, at the latest with an IntegrityError.
ProcessEnds == pc \in Alive ~> pc \in Ended

=============================================================================
