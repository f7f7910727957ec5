\* Three starts of the script on two months of two sources, chunks and batches of
\* one item, two batches in flight, a budget of one.  Processes stop for good.
CONSTANTS
    Sources <- MCSources
    LastMonth = 2
    Published <- MCPublished
    Models <- MCModels
    Relevant <- MCRelevant
    PipelineRows <- MCPipelineRows
    StoreBatch = 1
    MaxItems = 4
    MaxCost = 1
    BatchSize = 1
    Concurrency = 2
    MaxStarts = 3
SPECIFICATION FairSpec
INVARIANTS CheckpointIsBehind ExtractionIsComplete BudgetHolds
PROPERTIES ProcessEnds
CHECK_DEADLOCK FALSE
