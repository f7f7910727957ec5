\* Two items that are recent and on the topic, a nearer one that is old, and one
\* of another topic; the answer has two places for items.  A response is given
\* once, so the model stops.
CONSTANTS
    Items <- MCItems
    Recent <- MCRecent
    OnTopic <- MCOnTopic
    Limit = 2
    MaxTokens = 2
SPECIFICATION ChatFairSpec
INVARIANTS StreamIsWellFormed ContextIsFull
PROPERTIES EveryStreamEnds
CHECK_DEADLOCK FALSE
