----------------------------- MODULE NewsLedger -----------------------------
(***************************************************************************)
(* What the pipeline promises of its tables, without stages, locks, or     *)
(* failures: rows only ever get better, each published change is owed to   *)
(* the daily briefing by the run that made it and billed once, and a run   *)
(* is closed as complete only when it owes nothing and all it accepted is  *)
(* in the table.  A run may stop anywhere; what it owes then stays unbilled.*)
(***************************************************************************)
EXTENDS Naturals, FiniteSets

CONSTANTS Runs, Urls, NoRow,
          Storable   \* the items a run may publish

VARIABLES news,      \* the rows of the table
          accepted,  \* accepted[r]: the items run r has undertaken to publish
          owed,      \* changes of run r that the briefing does not count yet
          total,     \* the briefing's count
          closed     \* runs recorded as complete

ledgerVars == <<news, accepted, owed, total, closed>>

Init ==
    /\ news = [u \in Urls |-> NoRow]
    /\ accepted = [r \in Runs |-> {}]
    /\ owed = [r \in Runs |-> 0]
    /\ total = 0
    /\ closed = {}

\* A run undertakes its items once.
Accept(r) ==
    /\ r \notin closed
    /\ accepted[r] = {}
    /\ accepted' \in [Runs -> SUBSET Storable]
    /\ \A q \in Runs \ {r} : accepted'[q] = accepted[q]
    /\ UNCHANGED <<news, owed, total, closed>>

AtLeast(a, b) ==
    a.score >= b.score /\ a.relevance >= b.relevance /\ a.composite >= b.composite

\* Some of a run's items are published in one commit.  Every changed row is
\* one of the run's, gets a title the run carries and loses no score.
Publish(r) ==
    LET changed == {u \in Urls : news'[u] # news[u]}
    IN  /\ \A u \in changed :
              /\ \E i \in accepted[r] : i.url = u /\ news'[u].title = i.title
              /\ news[u] # NoRow => AtLeast(news'[u], news[u])
        /\ owed' = [owed EXCEPT ![r] = @ + Cardinality(changed)]
        /\ UNCHANGED <<accepted, total, closed>>

Bill(r) ==
    /\ total' = total + owed[r]
    /\ owed' = [owed EXCEPT ![r] = 0]
    /\ UNCHANGED <<news, accepted, closed>>

Close(r) ==
    /\ owed[r] = 0
    /\ \A i \in accepted[r] : news[i.url] # NoRow /\ AtLeast(news[i.url], i)
    /\ closed' = closed \cup {r}
    /\ UNCHANGED <<news, accepted, owed, total>>

Next == \E r \in Runs : Accept(r) \/ Publish(r) \/ Bill(r) \/ Close(r)

Spec == Init /\ [][Next]_ledgerVars
=============================================================================
