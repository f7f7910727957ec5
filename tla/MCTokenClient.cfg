\* Three calls and four tokens: late 401s for every old token.  Once all tokens
\* are issued POSTs only fail.
CONSTANTS
    Callers = {c1, c2, c3}
    MaxTokens = 4
SPECIFICATION FairSpec
INVARIANTS RetryIsFresh
PROPERTIES FreshTokenStays EveryCallEnds
