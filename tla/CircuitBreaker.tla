--------------------------- MODULE CircuitBreaker ---------------------------
(***************************************************************************)
(* src/src/pipeline/circuit_breaker.py: the in-memory, per-source circuit  *)
(* breaker.  Two dictionaries, _failures and _opened_at, hold its state.   *)
(* Every method is synchronous code on one event loop, so each call is     *)
(* atomic; a loop of calls with no await in it is atomic too, which is why *)
(* the operators below take a SET of sources.                              *)
(*                                                                         *)
(* time.monotonic() only ever enters as "now - opened_at >= cooldown", so  *)
(* a timestamp is represented by the time elapsed since it, saturated at   *)
(* Cooldown: no clock, and a finite state space without a clock bound.     *)
(***************************************************************************)
EXTENDS Naturals

CONSTANTS Sources,    \* the extractor sources
          Threshold,  \* consecutive failures that open a circuit
          Cooldown    \* how long a circuit stays open, in clock ticks

ASSUME BreakerAssumption ==
    /\ Threshold \in Nat \ {0}
    /\ Cooldown \in Nat \ {0}

VARIABLES failures,   \* _failures; 0 stands for an absent key
          tripped,    \* the keys of _opened_at
          age         \* time since _opened_at[s]; 0 while s is not tripped

breakerVars == <<failures, tripped, age>>

BreakerTypeOK ==
    /\ failures \in [Sources -> Nat]
    /\ tripped \in SUBSET Sources
    /\ age \in [Sources -> 0..Cooldown]

BreakerInit ==
    /\ failures = [s \in Sources |-> 0]
    /\ tripped = {}
    /\ age = [s \in Sources |-> 0]

\* What is_open returns.
IsOpen(s) ==
    /\ failures[s] >= Threshold
    /\ s \in tripped
    /\ age[s] < Cooldown

\* Faulty variant: any look at an open circuit closes it.
ExpiredAtOnce(S) == {s \in S \cap tripped : failures[s] >= Threshold}

\* The sources whose entry is_open would drop because its cooldown is over.
Expired(S) == {s \in S \cap tripped : failures[s] >= Threshold /\ age[s] >= Cooldown}

\* Both dictionaries lose the keys in S.
Forget(S) ==
    /\ failures' = [s \in Sources |-> IF s \in S THEN 0 ELSE failures[s]]
    /\ tripped' = tripped \ S
    /\ age' = [s \in Sources |-> IF s \in S THEN 0 ELSE age[s]]

\* is_open is not a pure query: it resets a source whose cooldown elapsed.
CheckCircuits(S) == Forget(Expired(S))

RecordSuccess(s) == Forget({s})

\* Faulty variants: every failure stamps opened_at anew; a failure counts twice.
RecordFailuresAnew(S) ==
    /\ failures' = [s \in Sources |-> IF s \in S THEN failures[s] + 1 ELSE failures[s]]
    /\ tripped' = tripped \cup {s \in S : failures[s] + 1 >= Threshold}
    /\ age' = [s \in Sources |-> IF s \in S THEN 0 ELSE age[s]]

RecordFailuresTwice(S) ==
    /\ failures' = [s \in Sources |-> IF s \in S THEN failures[s] + 2 ELSE failures[s]]
    /\ tripped' = tripped \cup {s \in S : failures[s] + 2 >= Threshold}
    /\ age' = [s \in Sources |-> IF s \in S /\ s \notin tripped THEN 0 ELSE age[s]]

\* opened_at is stamped once: an already tripped source keeps its timestamp.
RecordFailures(S) ==
    /\ failures' = [s \in Sources |-> IF s \in S THEN failures[s] + 1 ELSE failures[s]]
    /\ tripped' = tripped \cup {s \in S : failures[s] + 1 >= Threshold}
    /\ age' = [s \in Sources |-> IF s \in S /\ s \notin tripped THEN 0 ELSE age[s]]

\* One unit of the monotonic clock.
Elapse ==
    /\ \E s \in tripped : age[s] < Cooldown
    /\ age' = [s \in Sources |-> IF s \in tripped /\ age[s] < Cooldown THEN age[s] + 1
                                                                       ELSE age[s]]
    /\ UNCHANGED <<failures, tripped>>
=============================================================================
