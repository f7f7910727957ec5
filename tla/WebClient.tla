------------------------------ MODULE WebClient ------------------------------
(***************************************************************************)
(* The frontend's requests: the guest token that all of them share         *)
(* (lib/api.ts, lib/auth.ts), and a search page that aborts its previous   *)
(* search (lib/abortable.ts, pages/Search.tsx; Discover.tsx does the same).*)
(* A step is a task of the browser with all the continuations it resolves: *)
(* nothing else runs between the resolution of a promise and the code that *)
(* awaits it.  Tokens are numbered in the order in which they are issued.  *)
(***************************************************************************)
EXTENDS Integers, FiniteSets

CONSTANTS Searches,     \* searches of one page, each started once
          Others,       \* requests of other components
          NoSearch,
          MaxLosses     \* bound on how often tokens stop being good

ASSUME WebAssumption ==
    /\ NoSearch \notin Searches
    /\ Searches \cap Others = {}
    /\ MaxLosses \in Nat

Requests == Searches \cup Others

VARIABLES
    stage,     \* stage[r]: where request r is
    retried,   \* its last attempt is the one after a 401
    used,      \* the token of its last fetch
    refused,   \* the token of the 401 it got
    aborted,   \* signal.aborted
    token,     \* the stored token, 0 for none
    aged,      \* Date.now() has passed the stored time
    issued,    \* tokens issued so far
    dead,      \* the API refuses tokens up to this one
    losses,
    inflight,  \* inflightGuestToken is set
    posts,     \* requests for a token under way
    latest,    \* the page's current search
    mounted,   \* the page is there
    loading,   \* its state: the spinner,
    results,   \* the search its results are of,
    error      \* and whose error it shows

requestVars == <<stage, retried, used, refused, aborted>>
tokenVars == <<token, aged, issued, dead, losses, inflight, posts>>
pageVars == <<latest, mounted, loading, results, error>>
vars == <<requestVars, tokenVars, pageVars>>

TypeOK ==
    /\ stage \in [Requests -> {"idle", "token", "fetch", "body", "done"}]
    /\ retried \in [Requests -> BOOLEAN] /\ aborted \in [Requests -> BOOLEAN]
    /\ used \in [Requests -> Nat] /\ refused \in [Requests -> Nat]
    /\ token \in Nat /\ issued \in Nat /\ dead \in Nat /\ losses \in Nat
    /\ aged \in BOOLEAN /\ inflight \in BOOLEAN /\ posts \in Nat
    /\ mounted \in BOOLEAN /\ loading \in BOOLEAN
    /\ {latest, results, error} \subseteq Searches \cup {NoSearch}

Init ==
    /\ stage = [r \in Requests |-> "idle"]
    /\ retried = [r \in Requests |-> FALSE] /\ aborted = [r \in Requests |-> FALSE]
    /\ used = [r \in Requests |-> 0] /\ refused = [r \in Requests |-> 0]
    /\ token = 0 /\ issued = 0 /\ dead = 0 /\ losses = 0
    /\ aged = FALSE /\ inflight = FALSE /\ posts = 0
    /\ mounted = TRUE /\ loading = FALSE
    /\ latest = NoSearch /\ results = NoSearch /\ error = NoSearch
-----------------------------------------------------------------------------
\* Faulty variant: every request that finds no token asks for one.
AskAlone ==
    /\ inflight' = TRUE
    /\ posts' = posts + 1

\* ensureToken, when there is none: share the request that is under way.
AskForToken ==
    /\ inflight' = TRUE
    /\ posts' = IF inflight THEN posts ELSE posts + 1

\* ensureToken and then the fetch, for request r at its first attempt; the
\* stages of others are those in st.
Send(r, st) ==
    IF token # 0 /\ ~aged
    THEN /\ stage' = [st EXCEPT ![r] = "fetch"]
         /\ used' = [used EXCEPT ![r] = token]
         /\ UNCHANGED <<inflight, posts>>
    ELSE /\ stage' = [st EXCEPT ![r] = "token"]
         /\ AskForToken
         /\ UNCHANGED used

Begin(r) ==
    /\ r \in Others /\ stage[r] = "idle"
    /\ Send(r, stage)
    /\ UNCHANGED <<retried, refused, aborted, token, aged, issued, dead, losses, pageVars>>

\* Faulty variant: the previous search goes on.
AbortedNever == aborted

\* The switch: the signal of the previous search.
AbortedNext == IF latest = NoSearch THEN aborted ELSE [aborted EXCEPT ![latest] = TRUE]

\* The fetch of an aborted request rejects at once; so does the reading of an
\* error's body, but there the code ignores why and reports the error.
Cut == [q \in Requests |->
           IF AbortedNext[q] /\ stage[q] \in {"fetch", "body"} THEN "done" ELSE stage[q]]

Reporting == {q \in Searches : AbortedNext[q] /\ stage[q] = "body"}

\* search(): the state is set before the rejections of the aborted search run.
Search(r) ==
    /\ r \in Searches /\ stage[r] = "idle" /\ mounted
    /\ aborted' = AbortedNext
    /\ Send(r, Cut)
    /\ latest' = r
    /\ loading' = TRUE
    /\ error' = IF Reporting = {} THEN NoSearch ELSE latest
    /\ results' = IF Reporting = {} THEN results ELSE NoSearch
    /\ UNCHANGED <<retried, refused, token, aged, issued, dead, losses, mounted>>

\* The effect's clean-up; nothing is shown after it.
Unmount ==
    /\ mounted
    /\ mounted' = FALSE
    /\ aborted' = AbortedNext
    /\ stage' = Cut
    /\ UNCHANGED <<retried, used, refused, tokenVars, latest, loading, results, error>>

\* The POST answers: whoever waits goes on with its fetch, which rejects at
\* once for an aborted request.
TokenArrives ==
    /\ posts > 0
    /\ issued' = issued + 1
    /\ token' = issued + 1
    /\ aged' = FALSE
    /\ inflight' = FALSE
    /\ posts' = posts - 1
    /\ stage' = [q \in Requests |->
                    IF stage[q] # "token" THEN stage[q] ELSE IF aborted[q] THEN "done" ELSE "fetch"]
    /\ used' = [q \in Requests |->
                   IF stage[q] = "token" /\ ~aborted[q] THEN issued + 1 ELSE used[q]]
    /\ UNCHANGED <<retried, refused, aborted, dead, losses, pageVars>>

\* The page sets a search's error; an aborted one leaves the spinner alone.
Report(S) ==
    IF S = {} THEN UNCHANGED <<loading, results, error>>
    ELSE /\ error' \in S /\ (latest \in S => error' = latest)
         /\ results' = NoSearch
         /\ loading' = (loading /\ latest \notin S)

\* Faulty variant: the rejected promise stays where it is.
TokenFailsForGood ==
    /\ posts > 0
    /\ posts' = posts - 1
    /\ stage' = [q \in Requests |-> IF stage[q] = "token" THEN "done" ELSE stage[q]]
    /\ Report({q \in Searches : stage[q] = "token"})
    /\ UNCHANGED <<retried, used, refused, aborted, token, aged, issued, dead, losses, inflight,
                   latest, mounted>>

\* It fails for all who wait, and the promise is dropped.
TokenFails ==
    /\ posts > 0
    /\ inflight' = FALSE
    /\ posts' = posts - 1
    /\ stage' = [q \in Requests |-> IF stage[q] = "token" THEN "done" ELSE stage[q]]
    /\ Report({q \in Searches : stage[q] = "token"})
    /\ UNCHANGED <<retried, used, refused, aborted, token, aged, issued, dead, losses, latest,
                   mounted>>

Done(r) == stage' = [stage EXCEPT ![r] = "done"]

Succeeds(r) ==
    /\ stage[r] = "fetch"
    /\ Done(r)
    /\ IF r \in Searches
       THEN results' = r /\ loading' = (loading /\ aborted[r]) /\ UNCHANGED error
       ELSE UNCHANGED <<results, loading, error>>
    /\ UNCHANGED <<retried, used, refused, aborted, tokenVars, latest, mounted>>

\* Faulty variant: the retry takes whatever is stored.
RefusedKeepsToken(r) ==
    /\ stage[r] = "fetch" /\ used[r] <= dead /\ ~retried[r]
    /\ retried' = [retried EXCEPT ![r] = TRUE]
    /\ refused' = [refused EXCEPT ![r] = used[r]]
    /\ Send(r, stage)
    /\ UNCHANGED <<token, aborted, aged, issued, dead, losses, pageVars>>

\* A first 401: whatever is stored is cleared, also what is newer than the
\* token that was refused.
Refused(r) ==
    /\ stage[r] = "fetch" /\ used[r] <= dead /\ ~retried[r]
    /\ retried' = [retried EXCEPT ![r] = TRUE]
    /\ refused' = [refused EXCEPT ![r] = used[r]]
    /\ token' = 0
    /\ AskForToken
    /\ stage' = [stage EXCEPT ![r] = "token"]
    /\ UNCHANGED <<used, aborted, aged, issued, dead, losses, pageVars>>

\* An error status, a second 401 among them; its body is read.
ErrorStatus(r) ==
    /\ stage[r] = "fetch"
    /\ stage' = [stage EXCEPT ![r] = "body"]
    /\ UNCHANGED <<retried, used, refused, aborted, tokenVars, pageVars>>

\* The body has been read, or the network failed.
Fails(r) ==
    /\ stage[r] \in {"fetch", "body"}
    /\ Done(r)
    /\ Report({r} \cap Searches)
    /\ UNCHANGED <<retried, used, refused, aborted, tokenVars, latest, mounted>>

Age ==
    /\ token # 0 /\ ~aged
    /\ losses < MaxLosses
    /\ losses' = losses + 1
    /\ aged' = TRUE
    /\ UNCHANGED <<requestVars, token, issued, dead, inflight, posts, pageVars>>

\* The API no longer accepts what it issued: time, or another secret.
LoseTokens ==
    /\ losses < MaxLosses
    /\ losses' = losses + 1
    /\ dead' = issued
    /\ UNCHANGED <<requestVars, token, aged, issued, inflight, posts, pageVars>>

Reply(r) == Succeeds(r) \/ Refused(r) \/ ErrorStatus(r) \/ Fails(r)

Next ==
    \/ \E r \in Requests : Begin(r) \/ Search(r) \/ Reply(r)
    \/ TokenArrives \/ TokenFails
    \/ Unmount \/ Age \/ LoseTokens

Spec == Init /\ [][Next]_vars

\* The browser ends every request somehow.
FairSpec ==
    /\ Spec
    /\ \A r \in Requests : WF_vars(Reply(r))
    /\ WF_vars(TokenArrives \/ TokenFails)
-----------------------------------------------------------------------------
\* What the proofs' inductive invariant consists of: who waits for a token has a
\* request for one under way, tokens are issued in order, and a request that was
\* refused goes on with a newer one.
Waiting == {r \in Requests : stage[r] = "token"}

TokenConsistent ==
    /\ inflight <=> posts > 0
    /\ posts <= 1
    /\ Waiting # {} => inflight
    /\ token <= issued /\ dead <= issued
    /\ \A r \in Requests : refused[r] <= issued /\ used[r] <= issued

RetryConsistent ==
    \A r \in Requests : retried[r] =>
        \/ stage[r] = "token"
        \/ stage[r] \in {"fetch", "body"} /\ used[r] > refused[r]
        \/ stage[r] = "done"

\* However many components start at once or are refused at once, one request
\* for a guest token is under way at a time: the endpoint allows ten a minute.
OneTokenRequest == posts <= 1 /\ (Waiting # {} => posts = 1)

\* A request that was refused is not repeated with the token that was refused,
\* in whatever order the answers of several requests arrive.
RetryIsFresh ==
    \A r \in Requests : retried[r] /\ stage[r] \in {"fetch", "body"} => used[r] > refused[r]

\* What an idle page shows belongs to its latest search: that search's results,
\* or none and an error.
ResultsMatchLatest ==
    mounted /\ ~loading /\ latest # NoSearch =>
        results = latest \/ (results = NoSearch /\ error # NoSearch)

\* The spinner stops, and no request waits for ever.
EverythingSettles ==
    /\ loading ~> ~loading \/ ~mounted
    /\ \A r \in Requests : stage[r] = "token" ~> stage[r] # "token"
=============================================================================
