--------------------------- MODULE SchedulerProofs ---------------------------
(***************************************************************************)
(* Proofs about Scheduler for every set of sources and tiers, threshold    *)
(* and cooldown.  IndInv is inductive; the invariants of the runs follow   *)
(* from it, and with it every step of the scheduler is a step of           *)
(* SourceGate or a stutter.                                                *)
(***************************************************************************)
EXTENDS Scheduler, TLAPS

USE BreakerAssumption, TierAssumption

\* The invariant holds at the start.
LEMMA InitInv == Init => IndInv
  BY DEF Init, BreakerInit, IndInv, TypeOK, BreakerTypeOK, Phases, CircuitMatchesCount,
         CountStopsAtOpening, RunShape, ChargeBound

\* A tier's job keeps it: what the check forgets or skips is accounted for.
LEMMA FireInv ==
    ASSUME IndInv, NEW t \in Tiers, Fire(t)
    PROVE  IndInv'
<1> DEFINE Ex == Expired(TierSources[t])
           Op == {s \in TierSources[t] : IsOpen(s)}
<1> USE DEF IndInv
<1>1. /\ failures' = [s \in Sources |-> IF s \in Ex THEN 0 ELSE failures[s]]
      /\ tripped' = tripped \ Ex
      /\ age' = [s \in Sources |-> IF s \in Ex THEN 0 ELSE age[s]]
      /\ badRuns' = [s \in Sources |-> IF s \in Ex THEN 0 ELSE badRuns[s]]
      /\ active' = [active EXCEPT ![t] = TierSources[t] \ Op]
      /\ phase' = [phase EXCEPT ![t] = IF TierSources[t] \subseteq Op THEN "idle" ELSE "starting"]
      /\ outages' = [outages EXCEPT ![t] = IF Ex = {} THEN @ ELSE 0]
      /\ inflight' = inflight /\ restarts' = restarts /\ struck' = struck
      /\ phase[t] = "idle"
  BY DEF Fire, CheckCircuits, Forget, Cleared
<1>2. Ex \subseteq tripped \cap TierSources[t]
  BY DEF Expired
<1>3. (TierSources[t] \ Op) \cap tripped' = {}
  BY <1>1 DEF TypeOK, BreakerTypeOK, CircuitMatchesCount, IsOpen, Expired
<1>4. TypeOK'
  BY <1>1 DEF TypeOK, BreakerTypeOK, Phases
<1>5. CircuitMatchesCount'
  BY <1>1 DEF TypeOK, BreakerTypeOK, CircuitMatchesCount
<1>6. CountStopsAtOpening'
  BY <1>1 DEF TypeOK, BreakerTypeOK, CountStopsAtOpening
<1>7. RunShape'
  <2> SUFFICES ASSUME NEW u \in Tiers
               PROVE  /\ inflight'[u] \subseteq active'[u]
                      /\ active'[u] \subseteq TierSources[u]
                      /\ phase'[u] = "idle" => active'[u] = {}
                      /\ phase'[u] = "starting" =>
                            inflight'[u] = {} /\ active'[u] \cap (tripped' \cup struck') = {}
                      /\ inflight'[u] \cap (tripped' \cup struck') = {}
                      /\ struck' \cap TierSources[u] \subseteq active'[u]
                      /\ \A s \in active'[u] : failures'[s] <= Threshold
    BY DEF RunShape
  <2>1. CASE u = t
    <3>1. inflight[t] = {} /\ struck \cap TierSources[t] = {}
      BY <1>1 DEF RunShape
    <3>2. \A s \in TierSources[t] \ Op : failures'[s] <= Threshold
      BY <1>1, <1>3, <1>5, <1>4 DEF CircuitMatchesCount, TypeOK, BreakerTypeOK
    <3>3. active'[t] = TierSources[t] \ Op
      BY <1>1 DEF TypeOK
    <3> QED BY <1>1, <1>3, <2>1, <3>1, <3>2, <3>3 DEF TypeOK
  <2>2. CASE u # t
    <3>1. active'[u] = active[u] /\ phase'[u] = phase[u] /\ inflight'[u] = inflight[u]
      BY <1>1, <2>2 DEF TypeOK
    <3>2. \A s \in TierSources[u] : s \in Sources
      OBVIOUS
    <3>3. \A s \in active[u] : failures'[s] <= Threshold
      BY <1>1, <3>2 DEF RunShape, TypeOK, BreakerTypeOK
    <3> QED BY <1>1, <3>1, <3>3 DEF RunShape
  <2> QED BY <2>1, <2>2
<1>8. ChargeBound'
  BY <1>1, <1>2 DEF TypeOK, BreakerTypeOK, ChargeBound, RunShape
<1> QED BY <1>4, <1>5, <1>6, <1>7, <1>8

\* The start of an extraction keeps it.
LEMMA StartExtractionInv ==
    ASSUME IndInv, NEW t \in Tiers, StartExtraction(t)
    PROVE  IndInv'
<1> USE DEF IndInv
<1>1. Expired(active[t] \cap Enabled) = {}
  BY DEF StartExtraction, RunShape, Expired
<1>2. /\ failures' = failures /\ tripped' = tripped /\ age' = age /\ badRuns' = badRuns
      /\ active' = active /\ restarts' = restarts /\ struck' = struck /\ outages' = outages
      /\ phase' = [phase EXCEPT ![t] = "running"]
      /\ phase[t] = "starting"
      /\ inflight' = [inflight EXCEPT ![t] = {s \in active[t] \cap Enabled : ~IsOpen(s)}]
  BY <1>1 DEF StartExtraction, CheckCircuits, Forget, Cleared, TypeOK, BreakerTypeOK
<1>3. TypeOK'
  BY <1>2 DEF TypeOK, BreakerTypeOK, Phases
<1>4. CircuitMatchesCount' /\ CountStopsAtOpening' /\ ChargeBound'
  BY <1>2 DEF CircuitMatchesCount, CountStopsAtOpening, ChargeBound
<1>5. RunShape'
  BY <1>2 DEF RunShape, TypeOK
<1> QED BY <1>3, <1>4, <1>5

\* An extractor's success keeps it.
LEMMA ExtractSucceedsInv ==
    ASSUME IndInv, NEW t \in Tiers, NEW s \in Sources, ExtractSucceeds(t, s)
    PROVE  IndInv'
<1> USE DEF IndInv
<1>1. /\ failures' = [x \in Sources |-> IF x \in {s} THEN 0 ELSE failures[x]]
      /\ tripped' = tripped \ {s}
      /\ age' = [x \in Sources |-> IF x \in {s} THEN 0 ELSE age[x]]
      /\ badRuns' = [x \in Sources |-> IF x \in {s} THEN 0 ELSE badRuns[x]]
      /\ active' = active /\ restarts' = restarts /\ struck' = struck /\ outages' = outages
      /\ phase' = phase
      /\ s \in inflight[t]
      /\ inflight' = [inflight EXCEPT ![t] = @ \ {s}]
  BY DEF ExtractSucceeds, RecordSuccess, Forget, Cleared
<1>2. TypeOK'
  BY <1>1 DEF TypeOK, BreakerTypeOK
<1>3. CircuitMatchesCount' /\ CountStopsAtOpening'
  BY <1>1 DEF CircuitMatchesCount, CountStopsAtOpening, TypeOK, BreakerTypeOK
<1>4. s \notin struck
  BY <1>1 DEF RunShape
<1>5. ChargeBound'
  BY <1>1, <1>4 DEF ChargeBound, TypeOK, BreakerTypeOK
<1>6. RunShape'
  BY <1>1 DEF RunShape, TypeOK, BreakerTypeOK
<1> QED BY <1>2, <1>3, <1>5, <1>6

\* An extractor's failure keeps it.
LEMMA ExtractFailsInv ==
    ASSUME IndInv, NEW t \in Tiers, NEW s \in Sources, ExtractFails(t, s)
    PROVE  IndInv'
<1> USE DEF IndInv
<1>1. /\ failures' = [x \in Sources |-> IF x \in {s} THEN failures[x] + 1 ELSE failures[x]]
      /\ tripped' = tripped \cup {x \in {s} : failures[x] + 1 >= Threshold}
      /\ age' = [x \in Sources |-> IF x \in {s} /\ x \notin tripped THEN 0 ELSE age[x]]
      /\ badRuns' = [x \in Sources |-> IF x \in {s} \ struck THEN badRuns[x] + 1 ELSE badRuns[x]]
      /\ struck' = struck \cup {s}
      /\ active' = active /\ restarts' = restarts /\ outages' = outages
      /\ phase' = phase
      /\ s \in inflight[t]
      /\ inflight' = [inflight EXCEPT ![t] = @ \ {s}]
  BY DEF ExtractFails, RecordFailures, Charged
<1>2. s \notin struck /\ s \notin tripped /\ failures[s] < Threshold
  BY <1>1 DEF RunShape, CircuitMatchesCount, TypeOK, BreakerTypeOK
<1>3. TypeOK'
  BY <1>1 DEF TypeOK, BreakerTypeOK
<1>4. CircuitMatchesCount' /\ CountStopsAtOpening'
  BY <1>1, <1>2 DEF CircuitMatchesCount, CountStopsAtOpening, TypeOK, BreakerTypeOK
<1>5. ChargeBound'
  BY <1>1, <1>2 DEF ChargeBound, TypeOK, BreakerTypeOK
<1>6. \A u \in Tiers \ {t} : s \notin TierSources[u] /\ s \notin inflight[u]
  BY <1>1 DEF RunShape
<1>7. RunShape'
  BY <1>1, <1>2, <1>6 DEF RunShape, TypeOK, BreakerTypeOK
<1> QED BY <1>3, <1>4, <1>5, <1>7

\* The end of a run keeps it.
LEMMA RunEndsInv ==
    ASSUME IndInv, NEW t \in Tiers, RunEnds(t)
    PROVE  IndInv'
<1> USE DEF IndInv
<1>1. TypeOK'
  BY DEF RunEnds, TypeOK, BreakerTypeOK, Phases, breakerVars
<1>2. CircuitMatchesCount' /\ CountStopsAtOpening' /\ ChargeBound'
  BY DEF RunEnds, CircuitMatchesCount, CountStopsAtOpening, ChargeBound, breakerVars
<1>3. RunShape'
  BY DEF RunEnds, RunShape, TypeOK, Phases, breakerVars
<1> QED BY <1>1, <1>2, <1>3

\* A run that fails for all its sources keeps it.
LEMMA RunFailsInv ==
    ASSUME IndInv, NEW t \in Tiers, RunFails(t)
    PROVE  IndInv'
<1> USE DEF IndInv
<1>1. /\ failures' = [x \in Sources |-> IF x \in active[t] THEN failures[x] + 1 ELSE failures[x]]
      /\ tripped' = tripped \cup {x \in active[t] : failures[x] + 1 >= Threshold}
      /\ age' = [x \in Sources |-> IF x \in active[t] /\ x \notin tripped THEN 0 ELSE age[x]]
      /\ badRuns' = [x \in Sources |-> IF x \in active[t] \ struck THEN badRuns[x] + 1 ELSE badRuns[x]]
      /\ struck' = struck \ active[t]
      /\ active' = [active EXCEPT ![t] = {}]
      /\ restarts' = restarts
      /\ outages' = [outages EXCEPT ![t] = IF @ < Threshold THEN @ + 1 ELSE @]
      /\ phase' = [phase EXCEPT ![t] = "idle"]
      /\ inflight' = inflight /\ inflight[t] = {}
  BY DEF RunFails, RecordFailures, Charged
<1>2. active[t] \subseteq TierSources[t] /\ active[t] \subseteq Sources
  BY DEF RunShape, TypeOK
<1>3. TypeOK'
  BY <1>1, <1>2 DEF TypeOK, BreakerTypeOK, Phases
<1>4. CircuitMatchesCount'
  BY <1>1, <1>2 DEF CircuitMatchesCount, TypeOK, BreakerTypeOK
<1>5. CountStopsAtOpening'
  BY <1>1, <1>2 DEF CountStopsAtOpening, RunShape, TypeOK, BreakerTypeOK
<1>6. ChargeBound'
  BY <1>1, <1>2 DEF ChargeBound, TypeOK, BreakerTypeOK
<1>7. \A u \in Tiers \ {t} : active[u] \cap active[t] = {} /\ inflight[u] \cap active[t] = {}
  BY <1>2 DEF RunShape
<1>8. RunShape'
  BY <1>1, <1>2, <1>7 DEF RunShape, TypeOK, BreakerTypeOK
<1> QED BY <1>3, <1>4, <1>5, <1>6, <1>8

\* Time keeps it.
LEMMA TickInv == IndInv /\ Tick => IndInv'
<1> SUFFICES ASSUME IndInv, Tick PROVE IndInv'
  OBVIOUS
<1> USE DEF IndInv
<1>1. TypeOK'
  BY DEF Tick, Elapse, runVars, auxVars, TypeOK, BreakerTypeOK
<1>2. CircuitMatchesCount' /\ CountStopsAtOpening' /\ ChargeBound'
  BY DEF Tick, Elapse, runVars, auxVars, CircuitMatchesCount, CountStopsAtOpening, ChargeBound
<1>3. RunShape'
  BY DEF Tick, Elapse, runVars, auxVars, RunShape
<1> QED BY <1>1, <1>2, <1>3

\* A restart establishes it anew.
LEMMA RestartInv == IndInv /\ Restart => IndInv'
  BY DEF Restart, IndInv, TypeOK, BreakerTypeOK, Phases, CircuitMatchesCount,
         CountStopsAtOpening, RunShape, ChargeBound

\* Every step keeps it.
LEMMA NextInv == IndInv /\ [Next]_vars => IndInv'
<1> SUFFICES ASSUME IndInv, [Next]_vars PROVE IndInv'
  OBVIOUS
<1>1. ASSUME NEW t \in Tiers, Fire(t) PROVE IndInv'
  BY <1>1, FireInv
<1>2. ASSUME NEW t \in Tiers, StartExtraction(t) PROVE IndInv'
  BY <1>2, StartExtractionInv
<1>3. ASSUME NEW t \in Tiers, RunEnds(t) PROVE IndInv'
  BY <1>3, RunEndsInv
<1>4. ASSUME NEW t \in Tiers, RunFails(t) PROVE IndInv'
  BY <1>4, RunFailsInv
<1>5. ASSUME NEW t \in Tiers, NEW s \in Sources, ExtractSucceeds(t, s) PROVE IndInv'
  BY <1>5, ExtractSucceedsInv
<1>6. ASSUME NEW t \in Tiers, NEW s \in Sources, ExtractFails(t, s) PROVE IndInv'
  BY <1>6, ExtractFailsInv
<1>7. CASE Tick
  BY <1>7, TickInv
<1>8. CASE Restart
  BY <1>8, RestartInv
<1>9. CASE UNCHANGED vars
  BY <1>9 DEF vars, breakerVars, runVars, auxVars, IndInv, TypeOK, BreakerTypeOK,
              CircuitMatchesCount, CountStopsAtOpening, RunShape, ChargeBound
<1> QED BY <1>1, <1>2, <1>3, <1>4, <1>5, <1>6, <1>7, <1>8, <1>9 DEF Next

\* The strengthening holds in every reachable state.
THEOREM Inductive == Spec => []IndInv
  BY InitInv, NextInv, PTL DEF Spec

\* Type correctness of the scheduler and its breaker.
THEOREM TypeCorrect == Spec => []TypeOK
<1>1. IndInv => TypeOK
  BY DEF IndInv
<1> QED BY <1>1, Inductive, PTL

\* A circuit is open exactly when Threshold failures were counted.
THEOREM CircuitCoherent == Spec => []CircuitMatchesCount
<1>1. IndInv => CircuitMatchesCount
  BY DEF IndInv
<1> QED BY <1>1, Inductive, PTL

\* The failure count of a source never exceeds Threshold + 1.
THEOREM CountBounded == Spec => []CountStopsAtOpening
<1>1. IndInv => CountStopsAtOpening
  BY DEF IndInv
<1> QED BY <1>1, Inductive, PTL

\* No source is being called while its circuit is open.
THEOREM OpenSourceNotCalled == Spec => []NoCallWhileOpen
<1>1. IndInv => NoCallWhileOpen
  BY DEF IndInv, RunShape, NoCallWhileOpen
<1> QED BY <1>1, Inductive, PTL

\* It takes at least Threshold / 2 consecutive bad runs to open a circuit.
THEOREM OpeningBound == Spec => []OpeningTakesSeveralRuns
<1>1. IndInv => OpeningTakesSeveralRuns
  <2> SUFFICES ASSUME IndInv, NEW s \in tripped PROVE 2 * badRuns[s] >= Threshold
    BY DEF OpeningTakesSeveralRuns
  <2>1. /\ s \in Sources
        /\ badRuns[s] \in Nat /\ failures[s] \in Nat
        /\ failures[s] >= Threshold
        /\ failures[s] <= 2 * badRuns[s]
    BY DEF IndInv, TypeOK, BreakerTypeOK, CircuitMatchesCount, ChargeBound
  <2> QED BY <2>1
<1> QED BY <1>1, Inductive, PTL
-----------------------------------------------------------------------------
(***************************************************************************)
(* Steps.  The lemma says what one step may do to a tripped source; the    *)
(* exactness of the cooldown is a corollary of it.                         *)
(***************************************************************************)
LEMMA TrippedStep ==
    ASSUME IndInv, Next, NEW s \in tripped
    PROVE  \/ restarts' # restarts
           \/ s \in tripped' /\ age'[s] >= age[s]
           \/ s \notin tripped' /\ age[s] = Cooldown
<1> USE DEF IndInv, TypeOK, BreakerTypeOK
<1>0. s \in Sources /\ age[s] \in 0..Cooldown
  OBVIOUS
<1>1. ASSUME NEW S, CheckCircuits(S)
      PROVE  \/ s \in tripped' /\ age'[s] >= age[s]
             \/ s \notin tripped' /\ age[s] = Cooldown
  BY <1>0, <1>1 DEF CheckCircuits, Forget, Expired
<1>2. ASSUME NEW S, RecordFailures(S)
      PROVE  s \in tripped' /\ age'[s] >= age[s]
  BY <1>0, <1>2 DEF RecordFailures
<1>3. ASSUME NEW t \in Tiers, Fire(t) \/ StartExtraction(t)
      PROVE  \/ s \in tripped' /\ age'[s] >= age[s]
             \/ s \notin tripped' /\ age[s] = Cooldown
  BY <1>1, <1>3 DEF Fire, StartExtraction
<1>4. ASSUME NEW t \in Tiers, RunFails(t)
      PROVE  s \in tripped' /\ age'[s] >= age[s]
  BY <1>2, <1>4 DEF RunFails
<1>5. ASSUME NEW t \in Tiers, RunEnds(t)
      PROVE  s \in tripped' /\ age'[s] >= age[s]
  BY <1>0, <1>5 DEF RunEnds, breakerVars
<1>6. ASSUME NEW t \in Tiers, NEW x \in Sources, ExtractSucceeds(t, x)
      PROVE  s \in tripped' /\ age'[s] >= age[s]
  <2>1. x # s
    BY <1>6 DEF ExtractSucceeds, RunShape
  <2> QED BY <1>0, <1>6, <2>1 DEF ExtractSucceeds, RecordSuccess, Forget
<1>7. ASSUME NEW t \in Tiers, NEW x \in Sources, ExtractFails(t, x)
      PROVE  s \in tripped' /\ age'[s] >= age[s]
  BY <1>2, <1>7 DEF ExtractFails
<1>8. ASSUME Tick
      PROVE  s \in tripped' /\ age'[s] >= age[s]
  BY <1>0, <1>8 DEF Tick, Elapse
<1>9. ASSUME Restart
      PROVE  restarts' # restarts
  BY <1>9 DEF Restart
<1> QED BY <1>3, <1>4, <1>5, <1>6, <1>7, <1>8, <1>9 DEF Next

\* A pause is neither cut short nor extended, whatever the tiers do meanwhile.
THEOREM CooldownExact == Spec => CooldownIsExact
<1>1. IndInv /\ [Next]_vars =>
         [\A s \in tripped :
             \/ restarts' # restarts
             \/ s \in tripped' /\ age'[s] >= age[s]
             \/ s \notin tripped' /\ age[s] = Cooldown]_vars
  BY TrippedStep
<1> QED BY <1>1, Inductive, PTL DEF Spec, CooldownIsExact
-----------------------------------------------------------------------------
(***************************************************************************)
(* Refinement: one lemma per kind of step, then the theorem.               *)
(***************************************************************************)
\* The calls in flight, of all tiers.
Calls == UNION {inflight[t] : t \in Tiers}

\* The extractor calls of a tier start together.
LEMMA CallsStart ==
    ASSUME IndInv, NEW t \in Tiers, StartExtraction(t)
    PROVE  \E S \in SUBSET Sources : Gate!Call(S)
<1> DEFINE S == {s \in active[t] \cap Enabled : ~IsOpen(s)}
<1> USE DEF IndInv, TypeOK, BreakerTypeOK
<1>1. Expired(active[t] \cap Enabled) = {} /\ S \cap tripped = {}
  BY DEF StartExtraction, RunShape, Expired
<1>2. tripped' = tripped /\ age' = age
  BY <1>1 DEF StartExtraction, CheckCircuits, Forget
<1>3. inflight' = [inflight EXCEPT ![t] = S] /\ inflight[t] = {}
  BY DEF StartExtraction, RunShape
<1>4. Calls' = Calls \cup S
  BY <1>3 DEF Calls
<1>5. S \in SUBSET Sources
  OBVIOUS
<1> QED BY <1>1, <1>2, <1>4, <1>5 DEF Gate!Call, Calls

\* One call returns, and a failure may trip its source.
LEMMA CallsReturn ==
    ASSUME IndInv, NEW t \in Tiers, NEW s \in Sources,
           ExtractSucceeds(t, s) \/ ExtractFails(t, s)
    PROVE  Gate!Return(s)
<1> USE DEF IndInv, TypeOK, BreakerTypeOK
<1>1. s \in inflight[t] /\ inflight' = [inflight EXCEPT ![t] = @ \ {s}]
  BY DEF ExtractSucceeds, ExtractFails
<1>2. s \notin tripped /\ age[s] = 0
  BY <1>1 DEF RunShape, CircuitMatchesCount
<1>3. \A u \in Tiers \ {t} : s \notin inflight[u]
  BY <1>1 DEF RunShape
<1>4. s \in Calls /\ Calls' = Calls \ {s}
  BY <1>1, <1>3 DEF Calls
<1>5. tripped' \in {tripped, tripped \cup {s}} /\ age' = age
  <2>1. CASE ExtractSucceeds(t, s)
    BY <1>2, <2>1 DEF ExtractSucceeds, RecordSuccess, Forget
  <2>2. CASE ExtractFails(t, s)
    BY <1>2, <2>2 DEF ExtractFails, RecordFailures
  <2> QED BY <2>1, <2>2
<1> QED BY <1>4, <1>5 DEF Gate!Return, Calls

\* A failed run pauses the sources that reach the threshold.
LEMMA RunPauses ==
    ASSUME IndInv, NEW t \in Tiers, RunFails(t)
    PROVE  \E S \in SUBSET Sources : Gate!Pause(S)
<1> DEFINE S == {s \in active[t] : failures[s] + 1 >= Threshold}
<1> USE DEF IndInv, TypeOK, BreakerTypeOK
<1>1. S \in SUBSET Sources /\ tripped' = tripped \cup S /\ inflight' = inflight
  BY DEF RunFails, RecordFailures
<1>2. age' = age
  BY DEF RunFails, RecordFailures, CircuitMatchesCount
<1>3. \A u \in Tiers : S \cap inflight[u] = {}
  <2>1. inflight[t] = {}
    BY DEF RunFails
  <2> QED BY <2>1 DEF RunShape
<1>4. S \cap Calls = {}
  BY <1>3 DEF Calls
<1>5. Calls' = Calls
  BY <1>1 DEF Calls
<1>6. Gate!Pause(S)
  BY <1>1, <1>2, <1>4, <1>5 DEF Gate!Pause, Calls
<1> QED BY <1>1, <1>6

\* A tier's check ends the pauses whose cooldown is over.
LEMMA FireResumes ==
    ASSUME IndInv, NEW t \in Tiers, Fire(t)
    PROVE  \E S \in SUBSET Sources : Gate!Resume(S)
<1> DEFINE S == Expired(TierSources[t])
<1> USE DEF IndInv, TypeOK, BreakerTypeOK
<1>1. S \in SUBSET Sources /\ S \subseteq {s \in tripped : age[s] = Cooldown}
  BY DEF Expired
<1>2. /\ tripped' = tripped \ S
      /\ age' = [s \in Sources |-> IF s \in S THEN 0 ELSE age[s]]
      /\ inflight' = inflight
  BY DEF Fire, CheckCircuits, Forget
<1> QED BY <1>1, <1>2 DEF Gate!Resume

\* The scheduler implements the gate: paused sources are not called, pauses
\* last exactly the cooldown, and only a restart ends one early.
THEOREM SchedulerImplementsGate == Spec => GateSpec
<1>1. Init => Gate!Init
  BY DEF Init, BreakerInit, Gate!Init
<1>2. IndInv /\ [Next]_vars => [Gate!Next]_(Gate!gateVars)
  <2> SUFFICES ASSUME IndInv, [Next]_vars
               PROVE  Gate!Next \/ UNCHANGED Gate!gateVars
    OBVIOUS
  <2>1. ASSUME NEW t \in Tiers, Fire(t) PROVE Gate!Next
    BY <2>1, FireResumes DEF Gate!Next
  <2>2. ASSUME NEW t \in Tiers, StartExtraction(t) PROVE Gate!Next
    BY <2>2, CallsStart DEF Gate!Next
  <2>3. ASSUME NEW t \in Tiers, RunFails(t) PROVE Gate!Next
    BY <2>3, RunPauses DEF Gate!Next
  <2>4. ASSUME NEW t \in Tiers, NEW s \in Sources, ExtractSucceeds(t, s) \/ ExtractFails(t, s)
        PROVE  Gate!Next
    BY <2>4, CallsReturn DEF Gate!Next
  <2>5. ASSUME NEW t \in Tiers, RunEnds(t) PROVE UNCHANGED Gate!gateVars
    BY <2>5 DEF RunEnds, breakerVars, Gate!gateVars
  <2>6. CASE Tick
    BY <2>6 DEF Tick, Elapse, runVars, Gate!Next, Gate!Wait
  <2>7. CASE Restart
    BY <2>7 DEF Restart, Gate!Next, Gate!Restart
  <2>8. CASE UNCHANGED vars
    BY <2>8 DEF vars, breakerVars, runVars, Gate!gateVars
  <2> QED BY <2>1, <2>2, <2>3, <2>4, <2>5, <2>6, <2>7, <2>8 DEF Next
<1> QED BY <1>1, <1>2, Inductive, PTL DEF Spec, GateSpec, Gate!Spec
=============================================================================
