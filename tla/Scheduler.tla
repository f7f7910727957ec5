------------------------------ MODULE Scheduler ------------------------------
(***************************************************************************)
(* src/src/pipeline/scheduler.py and src/src/pipeline/stages/extract.py:   *)
(* APScheduler fires one job per tier; a job filters its sources by their  *)
(* circuits, extracts them concurrently (each outcome goes to the breaker  *)
(* at once) and runs the rest of the pipeline.  An exception out of the    *)
(* pipeline is charged to every source of the run.  All tiers share one    *)
(* breaker and one event loop.                                             *)
(*                                                                         *)
(* The stages after extraction are the subject of Pipeline.tla; here they  *)
(* only end well (RunEnds) or with an exception (RunFails).                *)
(***************************************************************************)
EXTENDS CircuitBreaker

CONSTANTS Tiers,         \* the APScheduler jobs
          TierSources,   \* the "sources" kwarg of each job
          Enabled,       \* settings.enabled_sources_list
          MaxRestarts    \* bound on process restarts

\* create_scheduler puts every source in one tier only.
ASSUME TierAssumption ==
    /\ TierSources \in [Tiers -> SUBSET Sources]
    /\ \A t, u \in Tiers : t # u => TierSources[t] \cap TierSources[u] = {}
    /\ Enabled \subseteq Sources
    /\ MaxRestarts \in Nat

VARIABLES phase,      \* where the job of a tier is
          active,     \* active_sources of the run
          inflight,   \* sources whose extractor.extract() is awaited
          restarts,   \* process restarts so far
          badRuns,    \* auxiliary: runs since the last reset that recorded a failure
          struck,     \* auxiliary: sources with a failure recorded in their current run
          outages     \* auxiliary: consecutive runs of a tier that ended in an exception

runVars == <<phase, active, inflight>>
auxVars == <<badRuns, struck, outages>>
vars == <<breakerVars, runVars, restarts, auxVars>>

Phases == {"idle", "starting", "running"}

TypeOK ==
    /\ BreakerTypeOK
    /\ phase \in [Tiers -> Phases]
    /\ active \in [Tiers -> SUBSET Sources]
    /\ inflight \in [Tiers -> SUBSET Sources]
    /\ restarts \in 0..MaxRestarts
    /\ badRuns \in [Sources -> Nat]
    /\ struck \in SUBSET Sources
    /\ outages \in [Tiers -> 0..Threshold]

Init ==
    /\ BreakerInit
    /\ phase = [t \in Tiers |-> "idle"]
    /\ active = [t \in Tiers |-> {}]
    /\ inflight = [t \in Tiers |-> {}]
    /\ restarts = 0
    /\ badRuns = [s \in Sources |-> 0]
    /\ struck = {}
    /\ outages = [t \in Tiers |-> 0]
-----------------------------------------------------------------------------
Cleared(S) == [s \in Sources |-> IF s \in S THEN 0 ELSE badRuns[s]]

Charged(S) == [s \in Sources |-> IF s \in S \ struck THEN badRuns[s] + 1 ELSE badRuns[s]]

\* Faulty variant: the filter looks at opened circuits and never resets one.
FireWithoutReset(t) ==
    /\ phase[t] = "idle"
    /\ phase' = [phase EXCEPT ![t] = IF TierSources[t] \subseteq tripped THEN "idle" ELSE "starting"]
    /\ active' = [active EXCEPT ![t] = TierSources[t] \ tripped]
    /\ UNCHANGED <<breakerVars, inflight, restarts, auxVars>>

\* The trigger of tier t fires.  APScheduler runs one instance of a job at a
\* time.  With every circuit open the job returns before it starts a run.
Fire(t) ==
    LET open == {s \in TierSources[t] : IsOpen(s)}
        idle == TierSources[t] \subseteq open
    IN  /\ phase[t] = "idle"
        /\ CheckCircuits(TierSources[t])
        /\ phase' = [phase EXCEPT ![t] = IF idle THEN "idle" ELSE "starting"]
        /\ active' = [active EXCEPT ![t] = TierSources[t] \ open]
        /\ badRuns' = Cleared(Expired(TierSources[t]))
        /\ outages' = [outages EXCEPT ![t] = IF Expired(TierSources[t]) = {} THEN @ ELSE 0]
        /\ UNCHANGED <<inflight, restarts, struck>>

\* run_extraction: gather starts every extractor; an open circuit is skipped.
StartExtraction(t) ==
    LET called == {s \in active[t] \cap Enabled : ~IsOpen(s)}
    IN  /\ phase[t] = "starting"
        /\ CheckCircuits(active[t] \cap Enabled)
        /\ phase' = [phase EXCEPT ![t] = "running"]
        /\ inflight' = [inflight EXCEPT ![t] = called]
        /\ badRuns' = Cleared(Expired(active[t] \cap Enabled))
        /\ UNCHANGED <<active, restarts, struck, outages>>

ExtractSucceeds(t, s) ==
    /\ s \in inflight[t]
    /\ inflight' = [inflight EXCEPT ![t] = @ \ {s}]
    /\ RecordSuccess(s)
    /\ badRuns' = Cleared({s})
    /\ UNCHANGED <<phase, active, restarts, struck, outages>>

ExtractFails(t, s) ==
    /\ s \in inflight[t]
    /\ inflight' = [inflight EXCEPT ![t] = @ \ {s}]
    /\ RecordFailures({s})
    /\ badRuns' = Charged({s})
    /\ struck' = struck \cup {s}
    /\ UNCHANGED <<phase, active, restarts, outages>>

\* run_pipeline returned, True or False: nothing is recorded here.
RunEnds(t) ==
    /\ phase[t] = "running"
    /\ inflight[t] = {}
    /\ phase' = [phase EXCEPT ![t] = "idle"]
    /\ struck' = struck \ active[t]
    /\ active' = [active EXCEPT ![t] = {}]
    /\ outages' = [outages EXCEPT ![t] = 0]
    /\ UNCHANGED <<breakerVars, inflight, restarts, badRuns>>

\* run_pipeline raised, before the extractors were built or after all of them
\* returned: every source of the run is charged, whatever its extraction did.
RunFails(t) ==
    /\ phase[t] \in {"starting", "running"}
    /\ inflight[t] = {}
    /\ phase' = [phase EXCEPT ![t] = "idle"]
    /\ active' = [active EXCEPT ![t] = {}]
    /\ RecordFailures(active[t])
    /\ badRuns' = Charged(active[t])
    /\ struck' = struck \ active[t]
    /\ outages' = [outages EXCEPT ![t] = IF @ < Threshold THEN @ + 1 ELSE @]
    /\ UNCHANGED <<inflight, restarts>>

Tick ==
    /\ Elapse
    /\ UNCHANGED <<runVars, restarts, auxVars>>

\* SIGTERM, crash or deploy: a cancelled run records nothing, and the breaker,
\* a module-level singleton, starts again from nothing.
Restart ==
    /\ restarts < MaxRestarts
    /\ restarts' = restarts + 1
    /\ failures' = [s \in Sources |-> 0]
    /\ tripped' = {}
    /\ age' = [s \in Sources |-> 0]
    /\ phase' = [t \in Tiers |-> "idle"]
    /\ active' = [t \in Tiers |-> {}]
    /\ inflight' = [t \in Tiers |-> {}]
    /\ badRuns' = [s \in Sources |-> 0]
    /\ struck' = {}
    /\ outages' = [t \in Tiers |-> 0]

Next ==
    \/ \E t \in Tiers :
          \/ Fire(t)
          \/ StartExtraction(t)
          \/ RunEnds(t)
          \/ RunFails(t)
          \/ \E s \in Sources : ExtractSucceeds(t, s) \/ ExtractFails(t, s)
    \/ Tick
    \/ Restart

Spec == Init /\ [][Next]_vars

\* Timers fire, extractors and stages have timeouts, the clock advances.
FairSpec ==
    /\ Spec
    /\ WF_vars(Tick)
    /\ \A t \in Tiers :
          /\ WF_vars(Fire(t))
          /\ WF_vars(StartExtraction(t))
          /\ WF_vars(RunEnds(t) \/ RunFails(t))
          /\ \A s \in Sources : WF_vars(ExtractSucceeds(t, s) \/ ExtractFails(t, s))
-----------------------------------------------------------------------------
\* An opened circuit is the trace of at least Threshold failures, and those
\* failures never stay without an opened circuit: the "opened_at is None"
\* branch of is_open is dead code.
CircuitMatchesCount ==
    \A s \in Sources :
        /\ s \in tripped <=> failures[s] >= Threshold
        /\ s \notin tripped => age[s] = 0

\* The counter of a source stops right after its circuit opened: the run that
\* opened it may add one more failure when it then fails as a whole, and no
\* later run may, because the tier no longer includes the source.
CountStopsAtOpening == \A s \in Sources : failures[s] <= Threshold + 1

\* No extractor call is in flight for a source whose circuit is open, although
\* the circuit is read when the job fires and the call starts much later.
NoCallWhileOpen == \A t \in Tiers : inflight[t] \cap tripped = {}

\* One run charges a source at most twice (its extraction, then the run), so a
\* circuit opens after no fewer than Threshold / 2 consecutive bad runs.
OpeningTakesSeveralRuns == \A s \in tripped : 2 * badRuns[s] >= Threshold

\* A pause is neither cut short nor extended: a source leaves the open state
\* only with its whole cooldown elapsed or in a restart, and failures recorded
\* meanwhile do not set its timer back.
CooldownIsExact ==
    [][\A s \in tripped :
          \/ restarts' # restarts
          \/ s \in tripped' /\ age'[s] >= age[s]
          \/ s \notin tripped' /\ age[s] = Cooldown]_vars

\* A paused source is tried again: no pause lasts for ever.
PauseEnds == \A s \in Sources : (s \in tripped) ~> (s \notin tripped)

\* What docs/adr/003 says of a run that keeps failing as a whole: its sources
\* are paused, at the latest by the Threshold-th consecutive failed run.
RepeatedOutagePausesSources ==
    [][\A t \in Tiers :
          outages[t] = Threshold - 1 /\ outages'[t] = Threshold
             => active[t] \subseteq tripped']_vars

\* The inductive invariant behind all of the above.  A run only holds sources
\* of its tier; those it has not called yet, and those being called, are neither
\* open nor charged; a charge belongs to a run in progress; and the two charges
\* a run can make keep the count within twice the number of bad runs.
RunShape ==
    \A t \in Tiers :
        /\ inflight[t] \subseteq active[t]
        /\ active[t] \subseteq TierSources[t]
        /\ phase[t] = "idle" => active[t] = {}
        /\ phase[t] = "starting" => inflight[t] = {} /\ active[t] \cap (tripped \cup struck) = {}
        /\ inflight[t] \cap (tripped \cup struck) = {}
        /\ struck \cap TierSources[t] \subseteq active[t]
        /\ \A s \in active[t] : failures[s] <= Threshold

ChargeBound ==
    \A s \in Sources :
        /\ failures[s] <= 2 * badRuns[s]
        /\ s \in struck => failures[s] < 2 * badRuns[s]

IndInv ==
    /\ TypeOK
    /\ CircuitMatchesCount
    /\ CountStopsAtOpening
    /\ RunShape
    /\ ChargeBound

\* The scheduler implements the gate: a paused source is one whose circuit was
\* opened, and its calls are those of every tier.
Gate == INSTANCE SourceGate WITH paused <- tripped,
                                 waited <- age,
                                 calls <- UNION {inflight[t] : t \in Tiers}

GateSpec == Gate!Spec
=============================================================================
