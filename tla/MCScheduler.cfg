\* An odd threshold, so that the two charges of a run overshoot it; a cooldown
\* long enough to be interrupted.
CONSTANTS
    hn = hn
    rss = rss
    gh = gh
    tier1 = tier1
    tier2 = tier2
    Sources <- MCSources
    Tiers <- MCTiers
    TierSources <- MCTierSources
    Enabled <- MCSources
    Threshold = 3
    Cooldown = 2
    MaxRestarts = 1

SPECIFICATION FairSpec

INVARIANTS
    OpeningTakesSeveralRuns

PROPERTIES
    CooldownIsExact
    GateSpec
    PauseEnds
