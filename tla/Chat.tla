--------------------------------- MODULE Chat ---------------------------------
(***************************************************************************)
(* One answer of the chat endpoint (rag/chat.py, rag/retriever.py): the    *)
(* question is embedded, the nearest items are looked up, and the model's  *)
(* answer is streamed as events, while the pipeline adds items.  Events    *)
(* are handed to the client one at a time; a client may be slow or leave.  *)
(***************************************************************************)
EXTENDS Integers, SequencesExt

CONSTANTS Items,      \* numbered by their distance from the question
          Recent,     \* those of the last thirty days
          OnTopic,    \* those of the topic that is asked for
          Limit,
          MaxTokens   \* bound on the length of an answer

ASSUME ChatAssumption ==
    /\ Items \subseteq Nat /\ IsFiniteSet(Items)
    /\ Recent \subseteq Items /\ OnTopic \subseteq Items
    /\ Limit \in Nat \ {0} /\ MaxTokens \in Nat

VARIABLES
    stage,     \* where chat_stream is
    next,      \* what it does once the client has taken the last event
    events,    \* the types of the events sent
    table,     \* items with a vector
    early,     \* the items that had one when the question was asked
    found,     \* items: the context
    timer,     \* asyncio.timeout: "off", "running", "due"
    outcome    \* how the response ended

chatVars == <<stage, next, events, table, early, found, timer, outcome>>

Stages == {"start", "embed", "recent", "full", "model", "sending", "end"}
EventTypes == {"token", "error", "sources", "done"}

ChatTypeOK ==
    /\ stage \in Stages
    /\ next \in {"model", "sources", "done", "end"}
    /\ events \in Seq(EventTypes)
    /\ table \subseteq Items /\ early \subseteq Items
    /\ found \subseteq Items
    /\ timer \in {"off", "running", "due"}
    /\ outcome \in {"open", "complete", "broken", "cut", "left"}

ChatInit ==
    /\ stage = "start" /\ next = "end"
    /\ events = <<>>
    /\ table \in SUBSET Items /\ early = table
    /\ found = {}
    /\ timer = "off"
    /\ outcome = "open"
-----------------------------------------------------------------------------
\* yield: the event goes out, and the stream waits for the client.
Send(type, then) ==
    /\ events' = Append(events, type)
    /\ stage' = "sending"
    /\ next' = then

End(how) ==
    /\ stage' = "end"
    /\ outcome' = how

\* chat_stream: an empty question is answered with an error.
Ask(empty) ==
    /\ stage = "start"
    /\ early' = table
    /\ IF empty THEN Send("error", "done") ELSE stage' = "embed" /\ UNCHANGED <<next, events>>
    /\ UNCHANGED <<table, found, timer, outcome>>

\* embed_text: without a vector the chat says so, and asks the model nothing.
Embed(fails) ==
    /\ stage = "embed"
    /\ IF fails THEN Send("error", "done") ELSE stage' = "recent" /\ UNCHANGED <<next, events>>
    /\ UNCHANGED <<table, early, found, timer, outcome>>

\* _search: the nearest items that pass the filters.
Nearest(S) ==
    {i \in S \cap OnTopic : Cardinality({j \in S \cap OnTopic : j < i}) < Limit}

\* Entering the timeout and asking the model.
AskModel ==
    /\ stage' = "model"
    /\ timer' = "running"

\* Faulty variant: only what is recent.
SearchRecentOnly ==
    /\ stage = "recent"
    /\ found' = Nearest(table \cap Recent)
    /\ AskModel
    /\ UNCHANGED <<next, events, table, early, outcome>>

\* retrieve: too few recent items start a second search, whose result is taken
\* alone.
SearchRecent ==
    /\ stage = "recent"
    /\ found' = Nearest(table \cap Recent)
    /\ IF Cardinality(found') < Limit THEN stage' = "full" /\ UNCHANGED timer ELSE AskModel
    /\ UNCHANGED <<next, events, table, early, outcome>>

SearchFull ==
    /\ stage = "full"
    /\ found' = Nearest(table)
    /\ AskModel
    /\ UNCHANGED <<next, events, table, early, outcome>>

\* The database fails: nothing handles it, and the response breaks off.
SearchFails ==
    /\ stage \in {"recent", "full"}
    /\ End("broken")
    /\ UNCHANGED <<next, events, table, early, found, timer>>

\* A chunk of the answer.
Token ==
    /\ stage = "model" /\ timer = "running" /\ Len(events) < MaxTokens
    /\ Send("token", "model")
    /\ UNCHANGED <<table, early, found, timer, outcome>>

\* The answer is complete.
Answered ==
    /\ stage = "model" /\ timer = "running"
    /\ timer' = "off"
    /\ Send("sources", "done")
    /\ UNCHANGED <<table, early, found, outcome>>

\* Faulty variant: an error is followed by nothing but the end.
ApologiseAndEnd ==
    /\ timer' = "off"
    /\ Send("error", "end")
    /\ UNCHANGED <<table, early, found, outcome>>

\* The two handlers: an error, and then the sources all the same.
Apologise ==
    /\ timer' = "off"
    /\ Send("error", "sources")
    /\ UNCHANGED <<table, early, found, outcome>>

ModelFails == stage = "model" /\ Apologise

\* Faulty variant: the deadline is for the first chunk.
DeadlineForFirst ==
    /\ timer = "running" /\ events = <<>>
    /\ timer' = "due"
    /\ UNCHANGED <<stage, next, events, table, early, found, outcome>>

\* Thirty seconds after the model was asked.
Deadline ==
    /\ timer = "running"
    /\ timer' = "due"
    /\ UNCHANGED <<stage, next, events, table, early, found, outcome>>

\* The deadline passed while the model was waited for.
TimesOut == stage = "model" /\ timer = "due" /\ Apologise

\* The deadline cancels the task.  Where it waits for the client, outside the
\* generator, nothing turns that into an event.
DeadlineCuts ==
    /\ stage = "sending" /\ timer = "due"
    /\ End("cut")
    /\ UNCHANGED <<next, events, table, early, found, timer>>

\* The client has taken the event.
Taken ==
    /\ stage = "sending" /\ timer # "due"
    /\ \/ next \in {"sources", "done"}
          /\ Send(next, IF next = "sources" THEN "done" ELSE "end")
          /\ UNCHANGED outcome
       \/ next = "model" /\ stage' = "model" /\ UNCHANGED <<next, events, outcome>>
       \/ next = "end" /\ End("complete") /\ UNCHANGED <<next, events>>
    /\ UNCHANGED <<table, early, found, timer>>

\* The client closes the connection.
Leaves ==
    /\ stage # "end"
    /\ End("left")
    /\ UNCHANGED <<next, events, table, early, found, timer>>

\* The pipeline's embedding stage commits.
Embedded ==
    /\ stage \in {"embed", "recent", "full"}
    /\ \E i \in Items \ table : table' = table \cup {i}
    /\ UNCHANGED <<stage, next, events, early, found, timer, outcome>>

Search == SearchRecent \/ SearchFull \/ SearchFails

ChatNext ==
    \/ \E b \in BOOLEAN : Ask(b) \/ Embed(b)
    \/ Search
    \/ Token \/ Answered \/ ModelFails \/ TimesOut
    \/ DeadlineCuts \/ Taken \/ Leaves
    \/ Deadline
    \/ Embedded

ChatSpec == ChatInit /\ [][ChatNext]_chatVars

\* Providers and the database answer or fail, at the latest by a timeout of the
\* client's own; a client takes the next event or goes.  The model may stop in
\* the middle of an answer: only the deadline ends that.
ChatFairSpec ==
    /\ ChatSpec
    /\ WF_chatVars(\E b \in BOOLEAN : Ask(b) \/ Embed(b))
    /\ WF_chatVars(Search)
    /\ WF_chatVars(Deadline) /\ WF_chatVars(TimesOut)
    /\ WF_chatVars(DeadlineCuts \/ Taken \/ (stage = "sending" /\ Leaves))
-----------------------------------------------------------------------------
Searched == stage \in {"model", "sending", "end"} /\ timer # "off"

\* Text and then the sources, with an error between them if one struck; or, for
\* a question that could not be embedded, only an error.
WellFormed(s) ==
    \/ s = <<"error", "done">>
    \/ \E n \in 0..Len(s) :
          /\ \A i \in 1..n : s[i] = "token"
          /\ SubSeq(s, n + 1, Len(s)) \in {<<"sources", "done">>, <<"error", "sources", "done">>}

\* What a client can rely on, wherever an error strikes: text, at most one
\* error, the sources once, and "done" as the last event of every response that
\* was not broken off; an answer that could not be grounded is only an error.
StreamIsWellFormed ==
    /\ \E rest \in {<<>>, <<"done">>, <<"sources", "done">>} : WellFormed(events \o rest)
    /\ outcome = "complete" => WellFormed(events)

\* The model is given as many items as there are, up to the limit, and only
\* recent ones if those suffice, whatever is embedded between the two searches.
ContextIsFull ==
    Searched =>
        /\ Cardinality(found) >= Limit \/ Cardinality(found) >= Cardinality(early \cap OnTopic)
        /\ Cardinality(early \cap Recent \cap OnTopic) >= Limit => found \subseteq Recent

\* Every answer ends, also when the model stalls in the middle of it.
EveryStreamEnds == <>(stage = "end")
-----------------------------------------------------------------------------
\* The inductive invariant: what is sent and what the stream has still to send
\* make a response.
Remaining ==
    CASE next = "sources" -> <<"sources", "done">>
      [] next = "done"    -> <<"done">>
      [] OTHER            -> <<>>

OnlyText == \A i \in 1..Len(events) : events[i] = "token"

StreamGoesOn ==
    /\ stage \in {"start", "embed", "recent", "full"} => events = <<>> /\ timer = "off"
    /\ stage = "model" \/ (stage = "sending" /\ next = "model") => OnlyText
    /\ stage = "sending" /\ next # "model" => WellFormed(events \o Remaining)
    /\ stage = "end" => StreamIsWellFormed
    /\ outcome # "open" => stage = "end"

\* Items only get vectors, and the second search is made when there were too few
\* recent ones to begin with.
EarlyStays ==
    /\ early \subseteq table
    /\ stage = "full" => Cardinality(early \cap Recent \cap OnTopic) < Limit

ChatInv == ChatTypeOK /\ StreamGoesOn /\ EarlyStays /\ ContextIsFull
=============================================================================
