\* Every input of up to four candidates; the last item may only be added while
\* there is room, so the longest inputs have no successor.
CONSTANTS
    NoUrl = "none"
    NoModel = "none"
    NoAuthor = ""
    NoScore <- MCNoScore
    MaxLen = 4
    LowEngagement = 5
    Candidates <- MCCandidates
    BaseModel <- MCBaseModel
    Similar <- MCSimilar
    NoBirth <- MCNoBirth
    TopicOrder <- MCTopicOrder
    KeywordCount <- MCKeywordCount
    Matches <- MCMatches
    NoTopic = "no topic"
    Enabled = {"models", "papers"}
    MinRelevance = 80
    HighConfidence = 3
    SameEvent <- MCSameEvent
    EventLimit = 3
    Answers <- MCAnswers
    Unusable <- MCUnusable
    Threshold <- MCThreshold
    TopicWeight <- MCTopicWeight
    RecencyWindow = 48
    Multiplier = 2
    MaxAge = 48
    MinItems = 2
    Expansions = {48, 72, 168}
    Lambdas = {0, 7, 10}
    PageSizes = {1, 2}
    Pause = 24
SPECIFICATION Spec
INVARIANTS SelectionIsSubset DedupImplementsRelation OnlyRepostsHurt FeedKeepsBestVariant NoiseFilterIsMaximal ScrollEndsAtTotal RankingTradesFairly
CHECK_DEADLOCK FALSE
