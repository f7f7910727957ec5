----------------------------- MODULE TokenClient -----------------------------
(***************************************************************************)
(* src/src/mcp/client.py: one APIClient, shared by all tool calls of the   *)
(* MCP server, holds one guest token.  A call that finds no token, or gets *)
(* a 401, acquires one under an asyncio.Lock, which it holds while its     *)
(* POST is on the way.  A call may be cancelled at any await.              *)
(*                                                                         *)
(* The API is external: it issues tokens 1, 2, ..., may refuse to, and     *)
(* lets them expire.                                                       *)
(***************************************************************************)
EXTENDS Naturals, FiniteSets

CONSTANTS Callers,    \* tool calls in progress at a time
          MaxTokens   \* bound on the tokens issued

ASSUME TokenAssumption == MaxTokens \in Nat \ {0}

NoToken == 0
Tokens == 1..MaxTokens

VARIABLES
    token,    \* self.token
    issued,   \* tokens the API has issued
    valid,    \* those it accepts
    answer,   \* the token in the answer on its way to a caller
    lock,     \* callers inside _token_lock
    pc,       \* where each caller is
    used,     \* used_token in _get
    sent,     \* the token its last GET carried
    asked     \* auxiliary: tokens that a POST has replaced or is to replace

vars == <<token, issued, valid, answer, lock, pc, used, sent, asked>>

Waiting == {"ensure", "refresh"}
Posting == {"ensure post", "refresh post"}
Sending == {"get", "retry"}

TypeOK ==
    /\ token \in 0..MaxTokens
    /\ issued \in 0..MaxTokens
    /\ valid \subseteq 1..issued
    /\ answer \in [Callers -> 0..MaxTokens]
    /\ lock \subseteq Callers
    /\ pc \in [Callers -> {"idle"} \cup Waiting \cup Posting \cup Sending]
    /\ used \in [Callers -> 0..MaxTokens]
    /\ sent \in [Callers -> 0..MaxTokens]
    /\ asked \subseteq 0..MaxTokens

Init ==
    /\ token = NoToken
    /\ issued = 0
    /\ valid = {}
    /\ answer = [c \in Callers |-> NoToken]
    /\ lock = {}
    /\ pc = [c \in Callers |-> "idle"]
    /\ used = [c \in Callers |-> NoToken]
    /\ sent = [c \in Callers |-> NoToken]
    /\ asked = {}
-----------------------------------------------------------------------------
Go(c, p) == pc' = [pc EXCEPT ![c] = p]

\* The call is over, and its local variables with it.
Leave(c) ==
    /\ Go(c, "idle")
    /\ answer' = [answer EXCEPT ![c] = NoToken]
    /\ used' = [used EXCEPT ![c] = NoToken]
    /\ sent' = [sent EXCEPT ![c] = NoToken]

\* The GET carries the token of this moment.
Send(c, p) ==
    /\ sent' = [sent EXCEPT ![c] = token]
    /\ Go(c, p)

\* A tool call reaches _get, and without a token the lock of _ensure_token.
Call(c) ==
    /\ pc[c] = "idle"
    /\ IF token = NoToken
       THEN Go(c, "ensure") /\ UNCHANGED <<used, sent>>
       ELSE Send(c, "get") /\ used' = [used EXCEPT ![c] = token]
    /\ UNCHANGED <<token, issued, valid, answer, lock, asked>>

LockFree == lock = {}

\* Faulty variant: what made the caller wait for the lock is not looked at again.
UncheckedStale(c) == TRUE

\* The second check, under the lock: is the token still missing, or still the
\* one that was refused?
StillStale(c) == token = IF pc[c] = "ensure" THEN NoToken ELSE used[c]

\* The lock is taken for a POST.
Post(c) ==
    /\ pc[c] \in Waiting
    /\ LockFree
    /\ StillStale(c)
    /\ lock' = lock \cup {c}
    /\ asked' = asked \cup {token}
    /\ Go(c, IF pc[c] = "ensure" THEN "ensure post" ELSE "refresh post")
    /\ UNCHANGED <<token, issued, valid, answer, used, sent>>

\* The lock is taken and left: another caller has a fresh token already.
Skip(c) ==
    /\ pc[c] \in Waiting
    /\ LockFree
    /\ ~StillStale(c)
    /\ IF pc[c] = "ensure"
       THEN used' = [used EXCEPT ![c] = token] /\ Send(c, "get")
       ELSE Send(c, "retry") /\ UNCHANGED used
    /\ UNCHANGED <<token, issued, valid, answer, lock, asked>>

\* The API issues a token in answer to the POST of c.
Issue(c) ==
    /\ pc[c] \in Posting
    /\ answer[c] = NoToken
    /\ issued < MaxTokens
    /\ issued' = issued + 1
    /\ valid' = valid \cup {issued + 1}
    /\ answer' = [answer EXCEPT ![c] = issued + 1]
    /\ UNCHANGED <<token, lock, pc, used, sent, asked>>

\* Faulty variant: the refresh sends what it was refused with.
StoreForLater(c) ==
    /\ pc[c] \in Posting
    /\ answer[c] # NoToken
    /\ token' = answer[c]
    /\ lock' = lock \ {c}
    /\ sent' = [sent EXCEPT ![c] = token]
    /\ used' = [used EXCEPT ![c] = IF pc[c] = "ensure post" THEN token ELSE @]
    /\ Go(c, IF pc[c] = "ensure post" THEN "get" ELSE "retry")
    /\ answer' = [answer EXCEPT ![c] = NoToken]
    /\ UNCHANGED <<issued, valid, asked>>

\* The answer arrives: the token is stored, the lock released, the GET sent.
Store(c) ==
    /\ pc[c] \in Posting
    /\ answer[c] # NoToken
    /\ token' = answer[c]
    /\ lock' = lock \ {c}
    /\ sent' = [sent EXCEPT ![c] = answer[c]]
    /\ used' = [used EXCEPT ![c] = IF pc[c] = "ensure post" THEN answer[c] ELSE @]
    /\ Go(c, IF pc[c] = "ensure post" THEN "get" ELSE "retry")
    /\ answer' = [answer EXCEPT ![c] = NoToken]
    /\ UNCHANGED <<issued, valid, asked>>

\* Faulty variant: the failure leaves without the lock's release.
FailLocked(c) ==
    /\ pc[c] \in Posting
    /\ Leave(c)
    /\ UNCHANGED <<token, issued, valid, lock, asked>>

\* The POST fails or its answer is lost: APIRequestError, out of the lock.
PostFails(c) ==
    /\ pc[c] \in Posting
    /\ lock' = lock \ {c}
    /\ asked' = asked \ {token}
    /\ Leave(c)
    /\ UNCHANGED <<token, issued, valid>>

\* 401 to the first GET.
Refused(c) ==
    /\ pc[c] = "get"
    /\ sent[c] \notin valid
    /\ Go(c, "refresh")
    /\ UNCHANGED <<token, issued, valid, answer, lock, used, sent, asked>>

\* The last answer to a call, or none: a result or an error, a 401 to the retry
\* among them.
End(c) ==
    /\ pc[c] \in Sending
    /\ Leave(c)
    /\ UNCHANGED <<token, issued, valid, lock, asked>>

\* The call's task is cancelled: async with releases the lock.
Cancelled(c) ==
    /\ pc[c] # "idle"
    /\ lock' = lock \ {c}
    /\ asked' = IF pc[c] \in Posting THEN asked \ {token} ELSE asked
    /\ Leave(c)
    /\ UNCHANGED <<token, issued, valid>>

Expire(t) ==
    /\ t \in valid
    /\ valid' = valid \ {t}
    /\ UNCHANGED <<token, issued, answer, lock, pc, used, sent, asked>>

Step(c) == Post(c) \/ Skip(c) \/ Store(c) \/ PostFails(c) \/ Refused(c) \/ End(c)

Next ==
    \/ \E c \in Callers : Call(c) \/ Step(c) \/ Issue(c) \/ Cancelled(c)
    \/ \E t \in Tokens : Expire(t)

Spec == Init /\ [][Next]_vars

\* Requests time out after 30 seconds, and asyncio.Lock wakes its waiters in
\* the order they came.
FairSpec == Spec /\ \A c \in Callers : SF_vars(Post(c) \/ Skip(c)) /\ WF_vars(Step(c))
-----------------------------------------------------------------------------
\* A retry carries a newer token than the one that was refused, so a call fails
\* with a 401 only if its new token expires on the way.
RetryIsFresh == \A c \in Callers : pc[c] = "retry" => used[c] < sent[c]

\* The inductive invariant behind the safety properties.  At most one POST is
\* on the way, sent under the lock; the token it will replace is the one that
\* is missing or was refused; a refused token is never accepted again; and
\* tokens only get newer.
LockGuardsPosts ==
    /\ \A c, d \in lock : c = d
    /\ lock = {c \in Callers : pc[c] \in Posting}

PostsReplaceStale ==
    \A c \in Callers :
        /\ pc[c] = "ensure post" => token = NoToken
        /\ pc[c] = "refresh post" => token = used[c]
        /\ pc[c] \in {"refresh", "refresh post"} => used[c] \notin valid
        /\ pc[c] = "get" => sent[c] = used[c]

TokensGetNewer ==
    /\ token <= issued
    /\ \A c \in Callers :
          /\ used[c] <= token
          /\ answer[c] <= issued
          /\ answer[c] # NoToken => pc[c] \in Posting /\ token < answer[c]

IndInv == TypeOK /\ LockGuardsPosts /\ PostsReplaceStale /\ TokensGetNewer /\ RetryIsFresh

\* A token that the API still accepts is never replaced: of all the calls that
\* were refused with an old token, however late they learn of it, the first one
\* to get a new token is the last one to ask for one.
FreshTokenStays == [][token' # token => token \notin valid]_vars

\* Every call ends, whatever the calls before it in the lock's queue met.
EveryCallEnds == \A c \in Callers : pc[c] # "idle" ~> pc[c] = "idle"

\* client.py:98, "N coroutines racing on the same expired token make exactly
\* one POST /api/auth/guest": another follows only if that one failed or its
\* caller was cancelled.
OnePostPerToken ==
    [][\A c \in Callers :
          pc[c] \in Waiting /\ pc'[c] \in Posting => token \notin asked]_vars

\* What the proof of it rests on: a POST for the token there is would hold the
\* lock.
PostsOutstanding ==
    /\ \A t \in asked : t <= token
    /\ token \in asked => lock # {}
=============================================================================
