\* Three endpoints, feeds two at a time, and room for two items, which two
\* pages can fill.  An extraction stops for good.
CONSTANTS
    Kinds <- Sources
    MaxPages = 3
    Pages <- MCPages
    MaxItems = 2
    Slots = 2
SPECIFICATION ExtractSpec
INVARIANTS OnlyFailuresLoseItems BestAreKept
CHECK_DEADLOCK FALSE
