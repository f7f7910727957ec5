--------------------------- MODULE WebClientProofs ---------------------------
(***************************************************************************)
(* One request for a guest token at a time, no retry with a refused token, *)
(* and a page that shows its latest search, for any number of searches and *)
(* other requests and any number of moments at which tokens stop being     *)
(* good.                                                                   *)
(***************************************************************************)
EXTENDS WebClient, TLAPS

\* The parts of TypeOK that the induction needs: the page's own state is not
\* among them.
RequestsTyped ==
    /\ stage \in [Requests -> {"idle", "token", "fetch", "body", "done"}]
    /\ retried \in [Requests -> BOOLEAN]
    /\ used \in [Requests -> Nat] /\ refused \in [Requests -> Nat]

TokensTyped ==
    /\ token \in Nat /\ issued \in Nat /\ dead \in Nat
    /\ inflight \in BOOLEAN /\ posts \in Nat

Inv == RequestsTyped /\ TokensTyped /\ TokenConsistent /\ RetryConsistent

\* Asking for a token leaves one request for it under way.
LEMMA AskForTokenAsksOnce ==
    ASSUME TokensTyped, TokenConsistent, AskForToken
    PROVE  inflight' = TRUE /\ posts' = 1
BY DEF TokensTyped, TokenConsistent, AskForToken

\* A first attempt goes out with a stored token or waits for one.
LEMMA SendKeepsInv ==
    ASSUME Inv, NEW r \in Requests, NEW st \in [Requests -> {"idle", "token", "fetch", "body", "done"}],
           Send(r, st), ~retried[r],
           \A q \in Requests : st[q] = stage[q] \/ st[q] = "done",
           UNCHANGED <<retried, refused, token, issued, dead>>
    PROVE  Inv'
<1>1. CASE token # 0 /\ ~aged
  <2>1. /\ stage' = [st EXCEPT ![r] = "fetch"]
        /\ used' = [used EXCEPT ![r] = token]
        /\ UNCHANGED <<inflight, posts>>
    BY <1>1 DEF Send
  <2>2. RequestsTyped' BY <2>1 DEF Inv, RequestsTyped, TokensTyped
  <2>3. TokensTyped' BY <2>1 DEF Inv, TokensTyped
  <2>4. TokenConsistent'
    BY <2>1 DEF Inv, RequestsTyped, TokensTyped, TokenConsistent, Waiting
  <2>5. RetryConsistent'
    BY <2>1 DEF Inv, RequestsTyped, TokensTyped, RetryConsistent
  <2> QED BY <2>2, <2>3, <2>4, <2>5 DEF Inv
<1>2. CASE ~(token # 0 /\ ~aged)
  <2>1. stage' = [st EXCEPT ![r] = "token"] /\ AskForToken /\ UNCHANGED used
    BY <1>2 DEF Send
  <2>2. inflight' = TRUE /\ posts' = 1 BY <2>1, AskForTokenAsksOnce DEF Inv
  <2>3. RequestsTyped' BY <2>1 DEF Inv, RequestsTyped
  <2>4. TokensTyped' BY <2>2 DEF Inv, TokensTyped
  <2>5. TokenConsistent'
    BY <2>1, <2>2 DEF Inv, RequestsTyped, TokensTyped, TokenConsistent, Waiting
  <2>6. RetryConsistent'
    BY <2>1 DEF Inv, RequestsTyped, TokensTyped, RetryConsistent
  <2> QED BY <2>3, <2>4, <2>5, <2>6 DEF Inv
<1> QED BY <1>1, <1>2

LEMMA BeginKeepsInv ==
    ASSUME Inv, NEW r \in Requests, Begin(r)
    PROVE  Inv'
<1>1. ~retried[r] BY DEF Inv, RequestsTyped, RetryConsistent, Begin
<1>2. stage \in [Requests -> {"idle", "token", "fetch", "body", "done"}]
  BY DEF Inv, RequestsTyped
<1> QED BY <1>1, <1>2, SendKeepsInv DEF Begin

\* The aborted search stops where it is; the new one is a first attempt.
LEMMA SearchKeepsInv ==
    ASSUME Inv, NEW r \in Requests, Search(r)
    PROVE  Inv'
<1>1. ~retried[r] BY DEF Inv, RequestsTyped, RetryConsistent, Search
<1>2. Cut \in [Requests -> {"idle", "token", "fetch", "body", "done"}]
  BY DEF Inv, RequestsTyped, Cut
<1>3. \A q \in Requests : Cut[q] = stage[q] \/ Cut[q] = "done"
  BY DEF Cut
<1>4. Send(r, Cut) /\ UNCHANGED <<retried, refused, token, issued, dead>>
  BY DEF Search
<1> QED BY <1>1, <1>2, <1>3, <1>4, SendKeepsInv

\* A request that ends disturbs nothing.
LEMMA EndingKeepsInv ==
    ASSUME Inv, UNCHANGED <<retried, used, refused, token, issued, dead, inflight, posts>>,
           stage' \in [Requests -> {"idle", "token", "fetch", "body", "done"}],
           \A q \in Requests : \/ stage'[q] \in {stage[q], "done"}
                               \/ stage[q] = "fetch" /\ stage'[q] = "body"
    PROVE  Inv'
<1>1. RequestsTyped' BY DEF Inv, RequestsTyped
<1>2. TokensTyped' BY DEF Inv, TokensTyped
<1>3. TokenConsistent' BY DEF Inv, TokenConsistent, Waiting, RequestsTyped, TokensTyped
<1>4. RetryConsistent'
  <2> SUFFICES ASSUME NEW q \in Requests, retried[q]
               PROVE  \/ stage'[q] = "token"
                      \/ stage'[q] \in {"fetch", "body"} /\ used[q] > refused[q]
                      \/ stage'[q] = "done"
    BY DEF RetryConsistent
  <2> QED BY DEF Inv, RetryConsistent
<1> QED BY <1>1, <1>2, <1>3, <1>4 DEF Inv

LEMMA UnmountKeepsInv == ASSUME Inv, Unmount PROVE Inv'
<1>1. /\ stage' \in [Requests -> {"idle", "token", "fetch", "body", "done"}]
      /\ \A q \in Requests : stage'[q] \in {stage[q], "done"}
  BY DEF Inv, RequestsTyped, Unmount, Cut
<1>2. UNCHANGED <<retried, used, refused, token, issued, dead, inflight, posts>>
  BY DEF Unmount, tokenVars
<1> QED BY <1>1, <1>2, EndingKeepsInv

\* Everyone who waited goes on with a token newer than any that was refused.
LEMMA TokenArrivesKeepsInv == ASSUME Inv, TokenArrives PROVE Inv'
<1>1. RequestsTyped' BY DEF Inv, RequestsTyped, TokensTyped, TokenArrives
<1>2. TokensTyped'
  <2>1. token' \in Nat /\ issued' \in Nat /\ dead' \in Nat
    BY DEF Inv, TokensTyped, TokenArrives
  <2>2. posts' \in Nat BY DEF Inv, TokensTyped, TokenArrives
  <2>3. inflight' \in BOOLEAN BY Zenon DEF TokenArrives
  <2> QED BY <2>1, <2>2, <2>3 DEF TokensTyped
<1>3. TokenConsistent'
  <2>1. posts' = 0 /\ ~inflight'
    BY DEF Inv, TokensTyped, TokenConsistent, TokenArrives
  <2>2. \A q \in Requests : stage'[q] # "token" BY DEF TokenArrives
  <2>3. token' <= issued' /\ dead' <= issued'
    BY DEF Inv, TokensTyped, TokenConsistent, TokenArrives
  <2>4. \A q \in Requests : refused'[q] <= issued' /\ used'[q] <= issued'
    BY DEF Inv, RequestsTyped, TokensTyped, TokenConsistent, TokenArrives
  <2> QED BY <2>1, <2>2, <2>3, <2>4 DEF TokenConsistent, Waiting
<1>4. RetryConsistent'
  <2> SUFFICES ASSUME NEW q \in Requests, retried'[q]
               PROVE  \/ stage'[q] = "token"
                      \/ stage'[q] \in {"fetch", "body"} /\ used'[q] > refused'[q]
                      \/ stage'[q] = "done"
    BY DEF RetryConsistent
  <2>1. retried[q] /\ refused'[q] = refused[q] BY DEF TokenArrives
  <2>2. CASE stage[q] = "token"
    <3>1. stage'[q] = "done" \/ (stage'[q] = "fetch" /\ used'[q] = issued + 1)
      BY <2>2 DEF TokenArrives
    <3>2. refused[q] <= issued /\ refused[q] \in Nat /\ issued \in Nat
      BY DEF Inv, TokenConsistent, RequestsTyped, TokensTyped
    <3> QED BY <2>1, <3>1, <3>2
  <2>3. CASE stage[q] # "token"
    <3>1. stage'[q] = stage[q] /\ used'[q] = used[q]
      BY <2>3 DEF TokenArrives
    <3> QED BY <2>1, <2>3, <3>1 DEF Inv, RetryConsistent
  <2> QED BY <2>2, <2>3
<1> QED BY <1>1, <1>2, <1>3, <1>4 DEF Inv

LEMMA TokenFailsKeepsInv == ASSUME Inv, TokenFails PROVE Inv'
<1>1. RequestsTyped' BY DEF Inv, RequestsTyped, TokenFails
<1>2. TokensTyped'
  <2>1. token' \in Nat /\ issued' \in Nat /\ dead' \in Nat
    BY DEF Inv, TokensTyped, TokenFails
  <2>2. posts' \in Nat BY DEF Inv, TokensTyped, TokenFails
  <2>3. inflight' \in BOOLEAN BY Zenon DEF TokenFails
  <2> QED BY <2>1, <2>2, <2>3 DEF TokensTyped
<1>3. TokenConsistent'
  <2>1. posts' = 0 /\ ~inflight'
    BY DEF Inv, TokensTyped, TokenConsistent, TokenFails
  <2>2. \A q \in Requests : stage'[q] # "token" BY DEF TokenFails
  <2> QED BY <2>1, <2>2 DEF Inv, TokenConsistent, Waiting, TokenFails
<1>4. RetryConsistent' BY DEF Inv, RetryConsistent, TokenFails
<1> QED BY <1>1, <1>2, <1>3, <1>4 DEF Inv

\* A first 401 makes its request wait; the stored token goes.
LEMMA RefusedKeepsInv ==
    ASSUME Inv, NEW r \in Requests, Refused(r)
    PROVE  Inv'
<1>1. inflight' = TRUE /\ posts' = 1 BY AskForTokenAsksOnce DEF Inv, Refused
<1>2. RequestsTyped' BY DEF Inv, RequestsTyped, Refused
<1>3. TokensTyped' BY <1>1 DEF Inv, TokensTyped, Refused
<1>4. TokenConsistent'
  <2>1. token' <= issued' /\ dead' <= issued'
    BY DEF Inv, TokensTyped, TokenConsistent, Refused
  <2>2. \A q \in Requests : refused'[q] <= issued' /\ used'[q] <= issued'
    BY DEF Inv, RequestsTyped, TokenConsistent, Refused
  <2> QED BY <1>1, <2>1, <2>2 DEF TokenConsistent, Waiting
<1>5. RetryConsistent'
  BY DEF Inv, RequestsTyped, RetryConsistent, Refused
<1> QED BY <1>2, <1>3, <1>4, <1>5 DEF Inv

LEMMA ReplyKeepsInv ==
    ASSUME Inv, NEW r \in Requests, Reply(r)
    PROVE  Inv'
<1>1. CASE Refused(r) BY <1>1, RefusedKeepsInv
<1>2. CASE Succeeds(r) \/ ErrorStatus(r) \/ Fails(r)
  <2>1. UNCHANGED <<retried, used, refused, token, issued, dead, inflight, posts>>
    BY <1>2 DEF Succeeds, ErrorStatus, Fails, tokenVars
  <2>2. /\ stage' \in [Requests -> {"idle", "token", "fetch", "body", "done"}]
        /\ \A q \in Requests : \/ stage'[q] \in {stage[q], "done"}
                               \/ stage[q] = "fetch" /\ stage'[q] = "body"
    BY <1>2 DEF Inv, RequestsTyped, Succeeds, ErrorStatus, Fails, Done
  <2> QED BY <2>1, <2>2, EndingKeepsInv
<1> QED BY <1>1, <1>2 DEF Reply

\* Time and the API touch no request.
LEMMA TimeKeepsInv == ASSUME Inv, Age \/ LoseTokens PROVE Inv'
<1>1. UNCHANGED <<requestVars, token, issued, inflight, posts>>
  BY DEF Age, LoseTokens
<1>2. dead' \in {dead, issued} BY DEF Age, LoseTokens
<1>3. RequestsTyped' BY <1>1 DEF Inv, RequestsTyped, requestVars
<1>4. TokensTyped' BY <1>1, <1>2 DEF Inv, TokensTyped
<1>5. TokenConsistent'
  BY <1>1, <1>2 DEF Inv, TokensTyped, TokenConsistent, Waiting, requestVars
<1>6. RetryConsistent' BY <1>1 DEF Inv, RetryConsistent, requestVars
<1> QED BY <1>3, <1>4, <1>5, <1>6 DEF Inv

LEMMA InvHolds == Spec => []Inv
<1>1. Init => Inv
  <2> SUFFICES ASSUME Init PROVE Inv OBVIOUS
  <2>1. RequestsTyped BY DEF Init, RequestsTyped
  <2>2. token \in Nat /\ issued \in Nat /\ dead \in Nat /\ posts \in Nat BY DEF Init
  <2>3. inflight \in BOOLEAN BY Zenon DEF Init
  <2>4. TokenConsistent BY DEF Init, TokenConsistent, Waiting
  <2>5. RetryConsistent BY DEF Init, RetryConsistent
  <2> QED BY <2>1, <2>2, <2>3, <2>4, <2>5 DEF Inv, TokensTyped
<1>2. Inv /\ [Next]_vars => Inv'
  <2> SUFFICES ASSUME Inv, [Next]_vars PROVE Inv' OBVIOUS
  <2>1. CASE \E r \in Requests : Begin(r) \/ Search(r) \/ Reply(r)
    BY <2>1, BeginKeepsInv, SearchKeepsInv, ReplyKeepsInv
  <2>2. CASE TokenArrives BY <2>2, TokenArrivesKeepsInv
  <2>3. CASE TokenFails BY <2>3, TokenFailsKeepsInv
  <2>4. CASE Unmount BY <2>4, UnmountKeepsInv
  <2>5. CASE Age \/ LoseTokens BY <2>5, TimeKeepsInv
  <2>6. CASE UNCHANGED vars
    BY <2>6 DEF vars, requestVars, tokenVars, Inv, RequestsTyped, TokensTyped, TokenConsistent,
                RetryConsistent, Waiting
  <2> QED BY <2>1, <2>2, <2>3, <2>4, <2>5, <2>6 DEF Next
<1> QED BY <1>1, <1>2, PTL DEF Spec

\* ensureToken (lib/api.ts): one request for a guest token is under way at a
\* time, and whoever waits waits for that one.
THEOREM TokenRequestsAreShared == Spec => []OneTokenRequest
<1>1. Inv => OneTokenRequest
  BY DEF Inv, TokensTyped, TokenConsistent, OneTokenRequest
<1> QED BY <1>1, InvHolds, PTL

\* request (lib/api.ts): the attempt after a 401 never carries the token that
\* was refused.
THEOREM RetriesAreFresh == Spec => []RetryIsFresh
<1>1. Inv => RetryIsFresh
  BY DEF Inv, RetryConsistent, RetryIsFresh
<1> QED BY <1>1, InvHolds, PTL
-----------------------------------------------------------------------------
\* What the search page shows.  A search that is not the latest has been
\* aborted, and an aborted search fetches nothing more: at most it waits for a
\* token.  The latest one is not aborted while the page is there, and once the
\* spinner has stopped it has ended and what is shown is its own.
Superseded == \A q \in Searches : stage[q] # "idle" /\ q # latest => aborted[q]

AbortedStops == \A q \in Searches : aborted[q] => stage[q] \in {"token", "done"}

LatestGoesOn == latest # NoSearch => stage[latest] # "idle" /\ (mounted => ~aborted[latest])

ShownIsLatest ==
    mounted /\ ~loading /\ latest # NoSearch =>
        /\ stage[latest] = "done"
        /\ results = latest \/ (results = NoSearch /\ error # NoSearch)

PageInv ==
    /\ latest \in Searches \cup {NoSearch}
    /\ aborted \in [Requests -> BOOLEAN]
    /\ Superseded /\ AbortedStops /\ LatestGoesOn /\ ShownIsLatest

\* A step that changes nothing on the page: searches that were not aborted go
\* on, or they end.
LEMMA QuietKeepsPage ==
    ASSUME Inv, PageInv, UNCHANGED <<aborted, latest, mounted, loading, results, error>>,
           \A q \in Searches :
               \/ stage'[q] = stage[q]
               \/ stage[q] # "idle" /\ stage'[q] = "done"
               \/ stage[q] \in {"token", "fetch", "body"} /\ ~aborted[q] /\ stage'[q] # "idle"
    PROVE  PageInv'
<1>1. Superseded' BY DEF PageInv, Superseded
<1>2. AbortedStops' BY DEF PageInv, AbortedStops
<1>3. LatestGoesOn' BY DEF PageInv, LatestGoesOn
<1>4. ShownIsLatest' BY DEF PageInv, ShownIsLatest
<1> QED BY <1>1, <1>2, <1>3, <1>4 DEF PageInv

\* Errors of the searches in S are set, and these end.  One of them may have
\* been aborted while it waited for a token: its error is shown all the same.
LEMMA ReportKeepsPage ==
    ASSUME Inv, PageInv, NEW S \in SUBSET Searches, Report(S),
           UNCHANGED <<aborted, latest, mounted>>,
           \A q \in S : stage[q] # "idle",
           \A q \in Searches : stage'[q] = IF q \in S THEN "done" ELSE stage[q]
    PROVE  PageInv'
<1>1. CASE S = {}
  BY <1>1, QuietKeepsPage DEF Report
<1>2. CASE S # {}
  <2>1. /\ error' \in S /\ results' = NoSearch
        /\ loading' = (loading /\ latest \notin S)
    BY <1>2 DEF Report
  <2>2. error' # NoSearch BY <2>1, WebAssumption DEF WebAssumption
  <2>3. Superseded' BY DEF PageInv, Superseded
  <2>4. AbortedStops' BY DEF PageInv, AbortedStops
  <2>5. LatestGoesOn' BY DEF PageInv, LatestGoesOn
  <2>6. ShownIsLatest'
    <3> SUFFICES ASSUME mounted, ~loading', latest # NoSearch
                 PROVE  stage'[latest] = "done"
      BY <2>1, <2>2 DEF ShownIsLatest
    <3>1. CASE latest \in S BY <3>1
    <3>2. CASE latest \notin S
      BY <2>1, <3>2 DEF PageInv, ShownIsLatest
    <3> QED BY <3>1, <3>2
  <2> QED BY <2>3, <2>4, <2>5, <2>6 DEF PageInv
<1> QED BY <1>1, <1>2

\* Only the latest search can succeed, and while it can the spinner turns.
LEMMA SucceedsKeepsPage ==
    ASSUME Inv, PageInv, NEW r \in Requests, Succeeds(r)
    PROVE  PageInv'
<1>1. /\ stage \in [Requests -> {"idle", "token", "fetch", "body", "done"}]
      /\ stage[r] = "fetch" /\ stage' = [stage EXCEPT ![r] = "done"]
      /\ aborted' = aborted /\ latest' = latest /\ mounted' = mounted
  BY DEF Succeeds, Done, Inv, RequestsTyped
<1>2. CASE r \notin Searches
  <2>1. UNCHANGED <<loading, results, error>> BY <1>2 DEF Succeeds
  <2>2. \A q \in Searches : stage'[q] = stage[q]
    BY <1>1, <1>2 DEF Requests
  <2> QED BY <1>1, <2>1, <2>2, QuietKeepsPage
<1>3. CASE r \in Searches
  <2>1. ~aborted[r] BY <1>1, <1>3 DEF PageInv, AbortedStops
  <2>2. r = latest BY <1>1, <1>3, <2>1 DEF PageInv, Superseded
  <2>3. results' = r BY <1>3 DEF Succeeds
  <2>4. Superseded' BY <1>1 DEF PageInv, Superseded
  <2>5. AbortedStops' BY <1>1 DEF PageInv, AbortedStops
  <2>6. LatestGoesOn' BY <1>1 DEF PageInv, LatestGoesOn
  <2>7. ShownIsLatest' BY <1>1, <2>2, <2>3 DEF ShownIsLatest
  <2> QED BY <1>1, <2>4, <2>5, <2>6, <2>7 DEF PageInv
<1> QED BY <1>2, <1>3

\* The switch leaves no search but the new one that is not aborted.
LEMMA SwitchAborts ==
    ASSUME Inv, PageInv
    PROVE  /\ AbortedNext \in [Requests -> BOOLEAN]
           /\ \A q \in Searches : AbortedNext[q] <=> (aborted[q] \/ q = latest)
           /\ \A q \in Searches : stage[q] # "idle" => AbortedNext[q] /\ Cut[q] \in {"token", "done"}
           /\ \A q \in Searches : stage[q] = "idle" => ~AbortedNext[q] /\ Cut[q] = "idle"
<1>1. AbortedNext \in [Requests -> BOOLEAN]
  BY DEF AbortedNext, PageInv
<1>2. ASSUME NEW q \in Searches PROVE AbortedNext[q] <=> (aborted[q] \/ q = latest)
  <2>1. CASE latest = NoSearch
    <3>1. q # latest BY <2>1, WebAssumption DEF WebAssumption
    <3>2. AbortedNext = aborted BY <2>1 DEF AbortedNext
    <3> QED BY <2>1, <3>1, <3>2
  <2>2. CASE latest # NoSearch
    BY <2>2 DEF AbortedNext, PageInv, Requests
  <2> QED BY <2>1, <2>2
<1>3. \A q \in Searches : q \in Requests BY DEF Requests
<1>4. ASSUME NEW q \in Searches, stage[q] # "idle"
      PROVE  AbortedNext[q] /\ Cut[q] \in {"token", "done"}
  <2>1. AbortedNext[q] BY <1>2, <1>3, <1>4 DEF PageInv, Superseded
  <2> QED BY <1>3, <1>4, <2>1 DEF Cut, Inv, RequestsTyped
<1>5. ASSUME NEW q \in Searches, stage[q] = "idle"
      PROVE  ~AbortedNext[q] /\ Cut[q] = "idle"
  <2>1. ~aborted[q] BY <1>5 DEF PageInv, AbortedStops
  <2>2. q # latest BY <1>5, WebAssumption DEF PageInv, LatestGoesOn, WebAssumption
  <2> QED BY <1>2, <1>3, <1>5, <2>1, <2>2 DEF Cut
<1> QED BY <1>1, <1>2, <1>4, <1>5

LEMMA SearchKeepsPage ==
    ASSUME Inv, PageInv, NEW r \in Searches, Search(r)
    PROVE  PageInv'
<1>1. /\ stage[r] = "idle" /\ aborted' = AbortedNext /\ latest' = r
      /\ mounted' = mounted /\ loading' = TRUE /\ Send(r, Cut)
  BY DEF Search
<1>2. \A q \in Searches : /\ q # r => stage'[q] = Cut[q]
                          /\ q = r => stage'[q] \in {"fetch", "token"}
  <2>1. Cut \in [Requests -> {"idle", "token", "fetch", "body", "done"}]
    BY DEF Cut, Inv, RequestsTyped
  <2>2. stage' \in {[Cut EXCEPT ![r] = "fetch"], [Cut EXCEPT ![r] = "token"]}
    BY <1>1 DEF Send
  <2> QED BY <2>1, <2>2 DEF Requests
<1>3. Superseded' BY <1>1, <1>2, SwitchAborts DEF Superseded
<1>4. AbortedStops' BY <1>1, <1>2, SwitchAborts DEF AbortedStops
<1>5. LatestGoesOn' BY <1>1, <1>2, SwitchAborts DEF LatestGoesOn
<1>6. ShownIsLatest' BY <1>1 DEF ShownIsLatest
<1> QED BY <1>1, <1>3, <1>4, <1>5, <1>6, SwitchAborts DEF PageInv

LEMMA UnmountKeepsPage ==
    ASSUME Inv, PageInv, Unmount
    PROVE  PageInv'
<1>1. mounted' = FALSE /\ aborted' = AbortedNext /\ stage' = Cut /\ latest' = latest
  BY DEF Unmount
<1>2. Superseded' BY <1>1, SwitchAborts DEF Superseded
<1>3. AbortedStops' BY <1>1, SwitchAborts DEF AbortedStops
<1>4. LatestGoesOn' BY <1>1, SwitchAborts DEF LatestGoesOn, PageInv
<1>5. ShownIsLatest' BY <1>1 DEF ShownIsLatest
<1> QED BY <1>1, <1>2, <1>3, <1>4, <1>5, SwitchAborts DEF PageInv

LEMMA ReplyKeepsPage ==
    ASSUME Inv, PageInv, NEW r \in Requests, Reply(r)
    PROVE  PageInv'
<1>0. stage \in [Requests -> {"idle", "token", "fetch", "body", "done"}] /\ Searches \subseteq Requests
  BY DEF Inv, RequestsTyped, Requests
<1>1. CASE Succeeds(r) BY <1>1, SucceedsKeepsPage
<1>2. CASE Refused(r) \/ ErrorStatus(r)
  <2>1. /\ UNCHANGED <<aborted, latest, mounted, loading, results, error>>
        /\ stage[r] = "fetch"
        /\ stage' \in {[stage EXCEPT ![r] = "token"], [stage EXCEPT ![r] = "body"]}
    BY <1>2 DEF Refused, ErrorStatus, pageVars
  <2>2. r \in Searches => ~aborted[r] BY <2>1 DEF PageInv, AbortedStops
  <2> QED BY <1>0, <2>1, <2>2, QuietKeepsPage
<1>3. CASE Fails(r)
  <2> DEFINE S == {r} \cap Searches
  <2>1. /\ UNCHANGED <<aborted, latest, mounted>> /\ Report(S)
        /\ stage[r] # "idle" /\ stage' = [stage EXCEPT ![r] = "done"]
    BY <1>3 DEF Fails, Done
  <2>2. /\ S \in SUBSET Searches /\ \A q \in S : stage[q] # "idle"
        /\ \A q \in Searches : stage'[q] = IF q \in S THEN "done" ELSE stage[q]
    BY <1>0, <2>1
  <2> HIDE DEF S
  <2> QED BY <2>1, <2>2, ReportKeepsPage
<1> QED BY <1>1, <1>2, <1>3 DEF Reply

LEMMA BeginKeepsPage ==
    ASSUME Inv, PageInv, NEW r \in Requests, Begin(r)
    PROVE  PageInv'
<1>1. /\ UNCHANGED <<aborted, latest, mounted, loading, results, error>>
      /\ r \in Others /\ Send(r, stage)
  BY DEF Begin, pageVars
<1>2. stage' \in {[stage EXCEPT ![r] = "fetch"], [stage EXCEPT ![r] = "token"]}
  BY <1>1 DEF Send
<1>3. \A q \in Searches : stage'[q] = stage[q]
  BY <1>1, <1>2, WebAssumption DEF Inv, RequestsTyped, WebAssumption, Requests
<1> QED BY <1>1, <1>3, QuietKeepsPage

LEMMA TokensKeepPage ==
    ASSUME Inv, PageInv, TokenArrives \/ TokenFails
    PROVE  PageInv'
<1>1. CASE TokenArrives
  <2>1. UNCHANGED <<aborted, latest, mounted, loading, results, error>>
    BY <1>1 DEF TokenArrives, pageVars
  <2>2. \A q \in Searches :
            stage'[q] = IF stage[q] # "token" THEN stage[q]
                        ELSE IF aborted[q] THEN "done" ELSE "fetch"
    BY <1>1 DEF TokenArrives, Requests
  <2> QED BY <2>1, <2>2, QuietKeepsPage
<1>2. CASE TokenFails
  <2> DEFINE S == {q \in Searches : stage[q] = "token"}
  <2>1. UNCHANGED <<aborted, latest, mounted>> /\ Report(S)
    BY <1>2 DEF TokenFails
  <2>2. /\ S \in SUBSET Searches /\ \A q \in S : stage[q] # "idle"
        /\ \A q \in Searches : stage'[q] = IF q \in S THEN "done" ELSE stage[q]
    BY <1>2 DEF TokenFails, Requests
  <2> HIDE DEF S
  <2> QED BY <2>1, <2>2, ReportKeepsPage
<1> QED BY <1>1, <1>2

LEMMA PageInvHolds == Spec => []PageInv
<1>1. Init => PageInv
  <2> SUFFICES ASSUME Init PROVE PageInv OBVIOUS
  <2>1. /\ aborted = [r \in Requests |-> FALSE] /\ stage = [r \in Requests |-> "idle"]
        /\ latest = NoSearch /\ Searches \subseteq Requests
    BY DEF Init, Requests
  <2> QED BY <2>1 DEF PageInv, Superseded, AbortedStops, LatestGoesOn, ShownIsLatest
<1>2. Inv /\ PageInv /\ [Next]_vars => PageInv'
  <2> SUFFICES ASSUME Inv, PageInv, [Next]_vars PROVE PageInv' OBVIOUS
  <2>1. ASSUME NEW r \in Requests, Begin(r) \/ Search(r) \/ Reply(r) PROVE PageInv'
    BY <2>1, BeginKeepsPage, SearchKeepsPage, ReplyKeepsPage DEF Search
  <2>2. CASE TokenArrives \/ TokenFails BY <2>2, TokensKeepPage
  <2>3. CASE Unmount BY <2>3, UnmountKeepsPage
  <2>4. CASE Age \/ LoseTokens \/ UNCHANGED vars
    <3>1. UNCHANGED <<stage, aborted, latest, mounted, loading, results, error>>
      BY <2>4 DEF Age, LoseTokens, vars, requestVars, pageVars
    <3> QED BY <3>1, QuietKeepsPage
  <2> QED BY <2>1, <2>2, <2>3, <2>4 DEF Next
<1> QED BY <1>1, <1>2, InvHolds, PTL DEF Spec

\* search (pages/Search.tsx): when the spinner has stopped, the page shows the
\* results of its latest search, or none and an error.
THEOREM PageShowsLatest == Spec => []ResultsMatchLatest
<1>1. PageInv => ResultsMatchLatest
  BY DEF PageInv, ShownIsLatest, ResultsMatchLatest
<1> QED BY <1>1, PageInvHolds, PTL
=============================================================================
