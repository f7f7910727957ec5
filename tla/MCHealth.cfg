\* The limit of silence is two ticks and the window three, so that runs can
\* outlast either; a streak is two runs.  Success is to each of the two streaks
\* what the other outcome is, and a run that found nothing is to the rules what
\* an interrupted one is.
CONSTANTS
    leading = leading
    hn = hn
    Tiers = {leading, hn}
    Interval <- MCInterval
    Stale = 2
    Window = 3
    Streak = 2
    Outcomes = {"degraded", "error"}
SPECIFICATION HealthFairSpec
INVARIANTS FailureIsNoticed SilenceMeansLongRuns
PROPERTIES AlertsClear
