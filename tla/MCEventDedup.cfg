\* Every graph on up to four items with every assignment of two weights; a topic
\* of five items is too large.  The algorithm stops.
CONSTANTS
    MaxItems = 5
    TooMany = 4
    MaxWeight = 1
SPECIFICATION Spec
INVARIANTS TreesAreComponents OneWinnerPerEvent
PROPERTIES GroupingEnds
CHECK_DEADLOCK FALSE
