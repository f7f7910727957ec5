\* One call of three batches on two slots: one batch has to wait; attempts that
\* are the first, one in the middle and the last.  The call and its batches stop
\* for good, so a final state is no deadlock.
CONSTANTS
    Calls = {c1}
    NBatches = 3
    Slots = 2
    MaxRetries = 3
SPECIFICATION FairSpec
INVARIANTS FailLoud
PROPERTIES EveryBatchEnds
CHECK_DEADLOCK FALSE
