\* Two runs on the same two urls, one commit batch as long as a feed, a backlog
\* limit above the number of rows, one stop signal and one crash.  Runs stop for good.
CONSTANTS
    r1 = r1
    r2 = r2
    u1 = u1
    u2 = u2
    t1 = t1
    t2 = t2
    NoUrl = NoUrl
    NoTitle = NoTitle
    NoRow = NoRow
    NoItem = NoItem
    Runs <- MCRuns
    Urls <- MCUrls
    Titles <- MCTitles
    Similar <- MCSimilar
    MaxScore = 1
    Feeds <- MCFeeds
    Batch = 2
    TitleLimit = 1
    EmbedLimit = 3
    EmbeddingEnabled = TRUE
    MaxStops = 1
    MaxCrashes = 1

SPECIFICATION FairSpec

CHECK_DEADLOCK FALSE

INVARIANTS
    SuccessIsDurable
    SuccessMeansEmbedded

PROPERTIES
    ScoresNeverDrop
    LedgerSpec
    EveryRunEnds
