\* Three searches of one page and a request of another component, with two
\* moments at which tokens stop being good.  Requests are made once, so the
\* model stops.
CONSTANTS
    Searches = {s1, s2, s3}
    Others = {o1}
    NoSearch = NoSearch
    MaxLosses = 2
SPECIFICATION FairSpec
INVARIANTS OneTokenRequest RetryIsFresh ResultsMatchLatest
PROPERTIES EverythingSettles
CHECK_DEADLOCK FALSE
