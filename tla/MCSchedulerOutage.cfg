\* The instance of MCScheduler.cfg; without fairness, as what is refuted is a
\* statement about single steps.
CONSTANTS
    hn = hn
    rss = rss
    gh = gh
    tier1 = tier1
    tier2 = tier2
    Sources <- MCSources
    Tiers <- MCTiers
    TierSources <- MCTierSources
    Enabled <- MCSources
    Threshold = 3
    Cooldown = 2
    MaxRestarts = 1

SPECIFICATION Spec

PROPERTIES
    RepeatedOutagePausesSources

