-------------------------------- MODULE Health --------------------------------
(***************************************************************************)
(* What the health panel and the container's healthcheck conclude from the *)
(* table of runs (pipeline/health_rules.py, pipeline/health.py), over the  *)
(* life of the scheduler that fills it: a row is written when a run ends,  *)
(* with the time at which it started, and sometimes not at all.  Time is   *)
(* counted in ticks of equal length; a job fires on the tick.              *)
(***************************************************************************)
EXTENDS Integers, SequencesExt

CONSTANTS Tiers,
          Interval,     \* Interval[t]: ticks between two firings of tier t
          Stale,        \* SCHEDULER_STALE_AFTER
          Window,       \* RUN_WINDOW
          Streak,       \* RUNS_FAILING_STREAK and RUNS_DEGRADED_STREAK
          Outcomes      \* bound on how runs end

ASSUME HealthAssumption ==
    /\ Tiers # {} /\ IsFiniteSet(Tiers)
    /\ Interval \in [Tiers -> Nat \ {0}]
    /\ {Stale, Window, Streak} \subseteq Nat \ {0}
    /\ Stale <= Window
    /\ Outcomes \subseteq {"success", "degraded", "error", "empty"}

VARIABLES
    log,         \* the runs of the last Window ticks, the latest started first
    outlasting,  \* the tiers with a run under way that started before that
    timer,       \* timer[t]: ticks until tier t fires
    took,        \* took[t]: ticks that the last run of t to end took, capped
    trouble      \* ticks since something kept a run from being recorded, capped

healthVars == <<log, outlasting, timer, took, trouble>>

Neutral == {"empty", "interrupted"}
Informative == {"success", "degraded", "error"}
Statuses == Informative \cup Neutral

\* A run under way has no row yet, and one whose row was lost never gets one.
Unrecorded == {"running", "lost"}

\* Of the properties only are `took`, `trouble` and `answered`: a run of another
\* outcome that the rules still read was recorded later.
Entry == [tier : Tiers, age : 0..Window, answered : BOOLEAN,
          status : Statuses \cup Unrecorded]

\* The caps: what is longer makes no difference to what the rules read.
Calm == Stale + 1
TooLong == Window + 1

HealthTypeOK ==
    /\ log \in Seq(Entry)
    /\ \A i, j \in DOMAIN log : i < j => log[i].age <= log[j].age
    /\ outlasting \subseteq Tiers
    /\ timer \in [Tiers -> Nat] /\ \A t \in Tiers : timer[t] <= Interval[t]
    /\ took \in [Tiers -> 0..TooLong]
    /\ trouble \in 0..Calm

HealthInit ==
    /\ log = <<>>
    /\ outlasting = {}
    /\ timer = Interval
    /\ took = [t \in Tiers |-> 0]
    /\ trouble = 0
-----------------------------------------------------------------------------
(* The rules.                                                              *)

Recorded == {i \in DOMAIN log : log[i].status \in Statuses}

\* Faulty variant: an interrupted run counts as an outcome.
PassedOverEmpty(e) == e.status \in {"empty"} \cup Unrecorded

\* evaluate_health: the runs that say nothing about the pipeline.
PassedOver(e) == e.status \in Neutral \cup Unrecorded

\* _streak: the latest runs that all ended with status s.
LeadingStreak(s) ==
    {i \in DOMAIN log :
        log[i].status = s /\ \A j \in 1..i : log[j].status = s \/ PassedOver(log[j])}

RunsAlert(s) == Cardinality(LeadingStreak(s)) >= Streak

\* Faulty variant: at the threshold it is silent already.
SilentAtThreshold == \A i \in Recorded : log[i].age >= Stale

\* _rule_scheduler_silent, and the healthcheck's verdict.
SchedulerSilent == \A i \in Recorded : log[i].age > Stale
-----------------------------------------------------------------------------
(* The scheduler.                                                          *)

IsRun(i, t) == log[i].tier = t /\ log[i].status = "running"

Running(t) == t \in outlasting \/ \E i \in DOMAIN log : IsRun(i, t)

\* The job of tier t is due.  One that is still running is not started twice;
\* one whose sources are all paused records nothing.
Fire(t) ==
    /\ timer[t] = 0
    /\ timer' = [timer EXCEPT ![t] = Interval[t]]
    /\ \/ /\ ~Running(t)
          /\ log' = <<[tier |-> t, age |-> 0, answered |-> FALSE, status |-> "running"]>> \o log
          /\ UNCHANGED trouble
       \/ Running(t) /\ UNCHANGED <<log, trouble>>
       \/ ~Running(t) /\ trouble' = 0 /\ UNCHANGED log
    /\ UNCHANGED <<outlasting, took>>

\* The row of entry i is written; earlier rows of another outcome are answered.
Recording(i, s) ==
    [j \in DOMAIN log |->
        IF j = i THEN [log[j] EXCEPT !.status = s]
        ELSE [log[j] EXCEPT !.answered =
                 @ \/ (s \in Informative /\ log[j].status \in Informative \ {s})]]

\* A run of t ends: one that is still in the log, or one too old for it, whose
\* row no rule will read.
Ends(t, i) ==
    /\ IsRun(i, t)
    /\ took' = [took EXCEPT ![t] = log[i].age]
    /\ UNCHANGED outlasting

EndsLate(t) ==
    /\ t \in outlasting
    /\ outlasting' = outlasting \ {t}
    /\ took' = [took EXCEPT ![t] = TooLong]
    /\ UNCHANGED log

\* run_pipeline returns or raises.
RunEnds(t) ==
    /\ \/ \E i \in DOMAIN log, s \in Outcomes : Ends(t, i) /\ log' = Recording(i, s)
       \/ EndsLate(t)
    /\ UNCHANGED <<timer, trouble>>

\* The row of a failed run could not be saved.
RowLost(t) ==
    /\ \/ \E i \in DOMAIN log : Ends(t, i) /\ log' = [log EXCEPT ![i].status = "lost"]
       \/ EndsLate(t)
    /\ trouble' = 0
    /\ UNCHANGED timer

\* A deployment, or a crash: every run in flight is interrupted, with a row if
\* there was time, and each job waits a whole interval again.
Restart ==
    /\ \E saved \in SUBSET Tiers :
           log' = [i \in DOMAIN log |->
                      IF log[i].status # "running" THEN log[i]
                      ELSE [log[i] EXCEPT !.status =
                                IF log[i].tier \in saved THEN "interrupted" ELSE "lost"]]
    /\ outlasting' = {}
    /\ timer' = Interval
    /\ took' = [t \in Tiers |-> 0]
    /\ trouble' = 0

\* Faulty variant: rows never leave what the rules read.
OlderForEver(e) == [e EXCEPT !.age = IF @ < Window THEN @ + 1 ELSE @]

Older(e) == [e EXCEPT !.age = @ + 1]

\* The endpoint reads the rows of one window.
InWindow(s) == SubSeq(s, 1, Cardinality({i \in DOMAIN s : s[i].age <= Window}))

Tick ==
    /\ \A t \in Tiers : timer[t] > 0
    /\ log' = InWindow([i \in DOMAIN log |-> Older(log[i])])
    /\ outlasting' = outlasting \cup
           {t \in Tiers : \E i \in DOMAIN log : IsRun(i, t) /\ log[i].age = Window}
    /\ timer' = [t \in Tiers |-> timer[t] - 1]
    /\ trouble' = IF trouble < Calm THEN trouble + 1 ELSE trouble
    /\ UNCHANGED took

HealthNext ==
    \/ \E t \in Tiers : Fire(t) \/ RunEnds(t) \/ RowLost(t)
    \/ Restart
    \/ Tick

HealthSpec == HealthInit /\ [][HealthNext]_healthVars

\* Time passes, jobs fire and runs end.
HealthFairSpec ==
    /\ HealthSpec
    /\ WF_healthVars(Tick)
    /\ \A t \in Tiers : WF_healthVars(Fire(t)) /\ WF_healthVars(RunEnds(t))
-----------------------------------------------------------------------------
\* However runs of several tiers overlap, and in whatever order their rows are
\* written, as many equal outcomes in a row as the rule asks for raise its
\* alert: at most the other tiers' runs were already under way when the last
\* different outcome was recorded.  Runs that were interrupted or found nothing
\* in between do not hide it.
FailureIsNoticed ==
    \A s \in {"error", "degraded"} :
        Cardinality({i \in DOMAIN log : log[i].status = s /\ ~log[i].answered})
            >= Streak + Cardinality(Tiers) - 1 => RunsAlert(s)

\* How long the run of t that is under way has taken, if there is one.
Taking(t) ==
    IF t \in outlasting THEN TooLong
    ELSE IF Running(t) THEN log[CHOOSE i \in DOMAIN log : IsRun(i, t)].age ELSE 0

\* No limit is set to the length of a run, and the row of a run comes only when
\* it ends: a scheduler that is busy, not dead, may be called silent. But then,
\* if for that long no row was lost, no job skipped and nothing restarted, the
\* last two runs of every tier are to blame: together they took longer than the
\* limit of silence leaves after an interval.
SilenceMeansLongRuns ==
    trouble = Calm /\ SchedulerSilent =>
        \A t \in Tiers : took[t] + Taking(t) > Stale - Interval[t]

\* Once runs no longer fail, the alert ends, also if nothing succeeds.
AlertsClear ==
    \A s \in {"error", "degraded"} :
        []<><<\E i \in DOMAIN log : log[i].status = "running" /\ log' = Recording(i, s)>>_healthVars
        \/ <>[]~RunsAlert(s)
-----------------------------------------------------------------------------
\* The inductive invariant behind FailureIsNoticed: a tier has one run under way,
\* and what started before a run with another outcome and was not recorded
\* before it belongs to other tiers, to each of them once.
OneAtATime ==
    /\ \A i, j \in DOMAIN log :
          log[i].status = "running" /\ log[j].status = "running" /\ log[i].tier = log[j].tier => i = j
    /\ \A i \in DOMAIN log : log[i].status = "running" => log[i].tier \notin outlasting

Late(j) ==
    {i \in DOMAIN log :
        i > j /\ (log[i].status = "running"
                  \/ (log[i].status \in Informative \ {log[j].status} /\ ~log[i].answered))}

FewAreLate ==
    \A j \in DOMAIN log : log[j].status \in Informative =>
        \A i, k \in Late(j) :
            log[i].tier # log[j].tier /\ (log[i].tier = log[k].tier => i = k)

\* The one behind SilenceMeansLongRuns: the run that a tier's last firing found
\* under way or started, and the one that the firing before the present run did,
\* has a row that started at most so long ago, or was too long for the window.
Since(t) == Interval[t] - timer[t]

HasRow(runs, age) ==
    age > Window \/ \E i \in DOMAIN runs : runs[i].status \in Statuses /\ runs[i].age <= age

FiringIsRecorded ==
    \A t \in Tiers : ~Running(t) /\ trouble > Since(t) => HasRow(log, Since(t) + took[t])

RunsFollow ==
    \A i \in DOMAIN log : log[i].status = "running" =>
        LET since == log[i].age + Interval[log[i].tier]
        IN  trouble > since => HasRow(log, since + took[log[i].tier])

HealthInv ==
    /\ HealthTypeOK
    /\ OneAtATime /\ FewAreLate
    /\ FiringIsRecorded /\ RunsFollow
=============================================================================
