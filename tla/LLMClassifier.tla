---------------------------- MODULE LLMClassifier ----------------------------
(***************************************************************************)
(* src/src/classifiers/llm.py: LLMClassifier.classify splits its items     *)
(* into batches, runs at most Slots of them at a time, retries each one in *)
(* llm_call, and falls back to keywords batch by batch.  asyncio.gather    *)
(* raises its first exception at once and leaves the other batches         *)
(* running, so batches may outlive the call that started them.             *)
(*                                                                         *)
(* A batch is a number, what it contains is left out.  An error is one of  *)
(* the classes the handlers tell apart.                                    *)
(***************************************************************************)
EXTENDS Naturals, FiniteSets

CONSTANTS Calls,       \* calls of classify, of one run after another or of several runs
          NBatches,    \* batches of a call
          Slots,       \* asyncio.Semaphore(3)
          MaxRetries   \* MAX_RETRIES

ASSUME LLMAssumption ==
    /\ NBatches \in Nat
    /\ Slots \in Nat \ {0}
    /\ MaxRetries \in Nat \ {0}

Batches == 1..NBatches

VARIABLES
    caller,    \* what became of each call
    phase,     \* phase[k][b]: where batch b of call k is
    attempts,  \* requests it has made
    cause      \* the class of its last error

vars == <<caller, phase, attempts, cause>>

\* _RETRYABLE_ERRORS without the quota error; a quota 429 and any other 4xx;
\* 5xx and other exceptions, and a response that is no JSON array.
Retryable == {"throttled"}
ConfigOrAccount == {"quota", "rejected"}
Immediate == {"server", "unparseable"}
Errors == Retryable \cup ConfigOrAccount \cup Immediate

Running == {"calling", "backoff"}
Unfinished == {"queued"} \cup Running
Classified == {"llm", "keyword"}

TypeOK ==
    /\ caller \in [Calls -> {"idle", "waiting", "returned", "raised", "cancelled"}]
    /\ phase \in [Calls -> [Batches -> {"idle", "failed", "cancelled"} \cup Unfinished \cup Classified]]
    /\ attempts \in [Calls -> [Batches -> 0..MaxRetries]]
    /\ cause \in [Calls -> [Batches -> Errors \cup {"none"}]]

Init ==
    /\ caller = [k \in Calls |-> "idle"]
    /\ phase = [k \in Calls |-> [b \in Batches |-> "idle"]]
    /\ attempts = [k \in Calls |-> [b \in Batches |-> 0]]
    /\ cause = [k \in Calls |-> [b \in Batches |-> "none"]]

InFlight(k) == {b \in Batches : phase[k][b] \in Running}
-----------------------------------------------------------------------------
Move(k, b, p) == phase' = [phase EXCEPT ![k][b] = p]

\* classify creates one task per batch and awaits them all.
Begin(k) ==
    /\ caller[k] = "idle"
    /\ caller' = [caller EXCEPT ![k] = "waiting"]
    /\ phase' = [phase EXCEPT ![k] = [b \in Batches |-> "queued"]]
    /\ UNCHANGED <<attempts, cause>>

\* The semaphore lets the tasks in in the order they were created; the slot is
\* held through the retries and their sleeps.
Acquire(k, b) ==
    /\ phase[k][b] = "queued"
    /\ \A c \in Batches : phase[k][c] = "queued" => b <= c
    /\ Cardinality(InFlight(k)) < Slots
    /\ Move(k, b, "calling")
    /\ attempts' = [attempts EXCEPT ![k][b] = 1]
    /\ UNCHANGED <<caller, cause>>

Answer(k, b) ==
    /\ phase[k][b] = "calling"
    /\ Move(k, b, "llm")
    /\ UNCHANGED <<caller, attempts, cause>>

\* llm_call goes round its loop for these.
Retries(e) == e \in Retryable

\* _is_config_or_account_error: the exception leaves classify.
Propagates(e) == e \in ConfigOrAccount

\* A request fails: sleep and retry, give the batch to the keyword classifier,
\* or raise.
RequestFails(k, b, e) ==
    /\ phase[k][b] = "calling"
    /\ cause' = [cause EXCEPT ![k][b] = e]
    /\ Move(k, b, IF Retries(e) /\ attempts[k][b] < MaxRetries THEN "backoff"
                  ELSE IF Propagates(e) THEN "failed" ELSE "keyword")
    /\ UNCHANGED <<caller, attempts>>

\* Faulty variant: the retry loop never ends.
RetryUncounted(k, b) ==
    /\ phase[k][b] = "backoff"
    /\ Move(k, b, "calling")
    /\ UNCHANGED <<caller, attempts, cause>>

Retry(k, b) ==
    /\ phase[k][b] = "backoff"
    /\ Move(k, b, "calling")
    /\ attempts' = [attempts EXCEPT ![k][b] = @ + 1]
    /\ UNCHANGED <<caller, cause>>

\* Faulty variant: the call returns what it has once no batch is in flight.
ReturnEarly(k) ==
    /\ caller[k] = "waiting"
    /\ InFlight(k) = {}
    /\ caller' = [caller EXCEPT ![k] = "returned"]
    /\ UNCHANGED <<phase, attempts, cause>>

\* gather has every result.
Return(k) ==
    /\ caller[k] = "waiting"
    /\ \A b \in Batches : phase[k][b] \in Classified
    /\ caller' = [caller EXCEPT ![k] = "returned"]
    /\ UNCHANGED <<phase, attempts, cause>>

\* gather passes the first exception on; the other batches go on.
Raise(k) ==
    /\ caller[k] = "waiting"
    /\ \E b \in Batches : phase[k][b] = "failed"
    /\ caller' = [caller EXCEPT ![k] = "raised"]
    /\ UNCHANGED <<phase, attempts, cause>>

\* The process is stopping: callers and batches, orphans too, are cancelled.
Cancel ==
    /\ \E k \in Calls : \E b \in Batches : phase[k][b] \in Unfinished
    /\ caller' = [k \in Calls |-> IF caller[k] = "waiting" THEN "cancelled" ELSE caller[k]]
    /\ phase' = [k \in Calls |-> [b \in Batches |->
                    IF phase[k][b] \in Unfinished THEN "cancelled" ELSE phase[k][b]]]
    /\ UNCHANGED <<attempts, cause>>

Request(k, b) ==
    \/ Answer(k, b)
    \/ \E e \in Errors : RequestFails(k, b, e)
    \/ Retry(k, b)

Next ==
    \/ \E k \in Calls :
          \/ Begin(k)
          \/ \E b \in Batches : Acquire(k, b) \/ Request(k, b)
          \/ Return(k)
          \/ Raise(k)
    \/ Cancel

Spec == Init /\ [][Next]_vars

\* Requests have a timeout and sleeps end; a free slot is given away.
FairSpec ==
    /\ Spec
    /\ \A k \in Calls :
          /\ WF_vars(Return(k) \/ Raise(k))
          /\ \A b \in Batches : WF_vars(Acquire(k, b)) /\ WF_vars(Request(k, b))
-----------------------------------------------------------------------------
\* The inductive invariant behind the safety properties.
BatchesConsistent ==
    \A k \in Calls : \A b \in Batches :
        /\ caller[k] = "idle" => phase[k][b] = "idle" /\ cause[k][b] = "none"
        /\ cause[k][b] \in ConfigOrAccount <=> phase[k][b] = "failed"
        /\ phase[k][b] = "backoff" => attempts[k][b] < MaxRetries
        /\ phase[k][b] = "keyword" =>
              \/ cause[k][b] \in Immediate
              \/ cause[k][b] \in Retryable /\ attempts[k][b] = MaxRetries

CallersConsistent ==
    \A k \in Calls :
        /\ caller[k] = "returned" => \A b \in Batches : phase[k][b] \in Classified
        /\ caller[k] = "raised" => \E b \in Batches : phase[k][b] = "failed"

IndInv == TypeOK /\ BatchesConsistent /\ CallersConsistent

\* ADR 003, fail loud: a call that met a configuration or account error in any
\* batch never returns, even if all other batches are classified, and a call
\* that returns has a result for every batch.
FailLoud ==
    \A k \in Calls : caller[k] = "returned" =>
        \A b \in Batches : phase[k][b] \in Classified /\ cause[k][b] \notin ConfigOrAccount

\* ADR 003, the other half: a transient outage, of any length and in any
\* number of batches, does not fail the run.
OnlyConfigErrorsRaise ==
    \A k \in Calls : caller[k] = "raised" =>
        \E b \in Batches : cause[k][b] \in ConfigOrAccount

\* A batch is left to the keywords only after an error that retries cannot
\* help, or after the last retry.
FallbackIsLastResort ==
    \A k \in Calls : \A b \in Batches : phase[k][b] = "keyword" =>
        \/ cause[k][b] \in Immediate
        \/ cause[k][b] \in Retryable /\ attempts[k][b] = MaxRetries

\* A suspended account is not asked again: the quota 429, although it is a
\* RateLimitError, ends its batch.
ConfigErrorsEndBatch ==
    [][\A k \in Calls : \A b \in Batches :
          cause[k][b] \in ConfigOrAccount => attempts'[k][b] = attempts[k][b]]_vars

\* Every batch that is queued ends, also when its call has raised before and
\* nobody awaits it, and so does every call.
EveryBatchEnds ==
    \A k \in Calls :
        /\ caller[k] = "waiting" ~> caller[k] # "waiting"
        /\ \A b \in Batches : phase[k][b] = "queued" ~> phase[k][b] \notin Unfinished
=============================================================================
