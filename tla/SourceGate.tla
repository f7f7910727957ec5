----------------------------- MODULE SourceGate -----------------------------
(***************************************************************************)
(* What the scheduler and its circuit breaker promise together, without    *)
(* counters, tiers or runs: a source that is paused is not called, it      *)
(* stays paused for the whole cooldown, and nothing else ends the pause    *)
(* but a restart of the process.                                           *)
(***************************************************************************)
EXTENDS Naturals

CONSTANTS Sources, Cooldown

VARIABLES paused,   \* sources that must not be called
          waited,   \* how long a paused source has waited
          calls     \* sources with an extractor call in flight

gateVars == <<paused, waited, calls>>

Init ==
    /\ paused = {}
    /\ waited = [s \in Sources |-> 0]
    /\ calls = {}

\* Calls start, only for sources that are not paused.
Call(S) ==
    /\ S \cap paused = {}
    /\ calls' = calls \cup S
    /\ UNCHANGED <<paused, waited>>

\* A call comes back; a failing one may pause its source.
Return(s) ==
    /\ s \in calls
    /\ calls' = calls \ {s}
    /\ paused' \in {paused, paused \cup {s}}
    /\ UNCHANGED waited

\* Sources that are not being called are paused: their run failed later on.
Pause(S) ==
    /\ S \cap calls = {}
    /\ paused' = paused \cup S
    /\ UNCHANGED <<waited, calls>>

\* A pause ends, and only when all of it has been waited for.
Resume(S) ==
    /\ S \subseteq {s \in paused : waited[s] = Cooldown}
    /\ paused' = paused \ S
    /\ waited' = [s \in Sources |-> IF s \in S THEN 0 ELSE waited[s]]
    /\ UNCHANGED calls

Wait ==
    /\ waited' = [s \in Sources |-> IF s \in paused /\ waited[s] < Cooldown
                                    THEN waited[s] + 1 ELSE waited[s]]
    /\ UNCHANGED <<paused, calls>>

Restart ==
    /\ paused' = {}
    /\ waited' = [s \in Sources |-> 0]
    /\ calls' = {}

Next ==
    \/ \E S \in SUBSET Sources : Call(S) \/ Pause(S) \/ Resume(S)
    \/ \E s \in Sources : Return(s)
    \/ Wait
    \/ Restart

Spec == Init /\ [][Next]_gateVars
=============================================================================
