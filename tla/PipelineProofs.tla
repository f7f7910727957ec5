--------------------------- MODULE PipelineProofs ---------------------------
(***************************************************************************)
(* Proofs about Pipeline for every set of runs, urls, titles and feeds and *)
(* every batch size.  Most steps touch neither rows nor drafts: QuietStep  *)
(* covers them at once.  Classify, StoreItem and CommitStore are the steps *)
(* that move an item from "accepted" to "drafted" to "committed".          *)
(***************************************************************************)
EXTENDS Pipeline, TLAPS, FiniteSetTheorems

USE PipelineAssumption

Early == {"idle", "extract", "seen", "titles", "classify", "empty"}
Late == {"brief", "embed", "vectors", "final"}

\* The initial state satisfies the inductive invariant.
LEMMA InitInv == Init => IndInv
<1> SUFFICES ASSUME Init PROVE IndInv
  OBVIOUS
<1> USE DEF Init
<1>1. TypeOK
  BY DEF TypeOK, Phases, Awaiting
<1>2. Locks /\ DraftsGrow /\ HandledItems
  BY DEF Locks, DraftsGrow, HandledItems
<1>3. RowsComeLast /\ SuccessIsDurable
  BY DEF RowsComeLast, SuccessIsDurable, Completed
<1> QED BY <1>1, <1>2, <1>3 DEF IndInv

\* A step that leaves rows, drafts and accepted items alone keeps the invariant
\* if each run stays in its part of the sequence of phases, a run that leaves
\* the store phase early drops its locks or keeps them as failing, and a run
\* completes only out of the final phase.
LEMMA QuietStep ==
    ASSUME IndInv, TypeOK',
           UNCHANGED <<news, validated, todo, draft>>,
           \A r \in Runs :
              /\ locked'[r] \subseteq locked[r]
              /\ Completed(r)' => Completed(r) \/ pc[r] = "final"
              /\ \/ pc'[r] = pc[r] /\ locked'[r] = locked[r]
                 \/ pc'[r] \in {"failing", "cancelling"}
                 \/ pc'[r] \in {"dead", "done", "returning"} /\ locked'[r] = {}
                 \/ pc[r] \in Early /\ pc'[r] \in Early
                 \/ pc[r] \in Late /\ pc'[r] \in Late
    PROVE  IndInv'
<1> USE DEF IndInv
<1>1. Locks'
  BY DEF Locks, Early, Late
<1>2. DraftsGrow'
  BY DEF DraftsGrow
<1>3. HandledItems'
  BY DEF HandledItems, Early, Late
<1>4. RowsComeLast'
  BY DEF RowsComeLast, Early, Late
<1>5. SuccessIsDurable'
  BY DEF SuccessIsDurable, HandledItems
<1> QED BY <1>1, <1>2, <1>3, <1>4, <1>5

\* "At least" is an order on what is stored and what is to be stored.
LEMMA AtLeastIsAnOrder ==
    /\ \A a \in Rows : AtLeast(a, a)
    /\ \A a, b \in Rows, c \in Rows \cup Storable :
          AtLeast(a, b) /\ AtLeast(b, c) => AtLeast(a, c)
BY DEF AtLeast, Rows, Storable

\* What a statement leaves is a row with at least the item's scores and those
\* of the row it found.
LEMMA UpsertGrows ==
    ASSUME NEW i \in Storable, NEW row \in Rows \cup {NoRow}, NEW new,
           new = IF Improves(row, i) THEN Merge(row, i) ELSE row
    PROVE  /\ new \in Rows
           /\ AtLeast(new, i)
           /\ row # NoRow => AtLeast(new, row)
<1>1. CASE row = NoRow
  <2>1. new = RowOf(i)
    BY <1>1 DEF Improves, Merge
  <2> QED BY <1>1, <2>1 DEF RowOf, Rows, Storable, AtLeast
<1>2. CASE row # NoRow /\ Improves(row, i)
  <2>1. row \in Rows
    BY <1>2
  <2>2. new = [title |-> i.title,
               score |-> Greatest(row.score, i.score),
               relevance |-> Greatest(row.relevance, i.relevance),
               composite |-> Greatest(row.composite, i.composite)]
    BY <1>2 DEF Merge
  <2>3. \A x, y \in 0..MaxScore :
           Greatest(x, y) \in 0..MaxScore /\ Greatest(x, y) >= x /\ Greatest(x, y) >= y
    BY PipelineAssumption DEF Greatest
  <2>4. /\ i.title \in Titles
        /\ i.score \in 0..MaxScore /\ i.relevance \in 0..MaxScore /\ i.composite \in 0..MaxScore
        /\ row.score \in 0..MaxScore /\ row.relevance \in 0..MaxScore
        /\ row.composite \in 0..MaxScore
    BY <2>1 DEF Rows, Storable
  <2>5. PICK s, v, c \in 0..MaxScore :
           /\ new = [title |-> i.title, score |-> s, relevance |-> v, composite |-> c]
           /\ s >= row.score /\ s >= i.score
           /\ v >= row.relevance /\ v >= i.relevance
           /\ c >= row.composite /\ c >= i.composite
    BY <2>2, <2>3, <2>4
  <2>6. /\ new.score = s /\ new.relevance = v /\ new.composite = c
        /\ new \in Rows
    BY <2>4, <2>5 DEF Rows
  <2> QED BY <2>5, <2>6 DEF AtLeast
<1>3. CASE row # NoRow /\ ~Improves(row, i)
  <2>1. row \in Rows /\ new = row
    BY <1>3
  <2>2. AtLeast(row, i)
    BY <1>3 DEF Improves
  <2> QED BY <2>1, <2>2, AtLeastIsAnOrder
<1> QED BY <1>1, <1>2, <1>3

\* Every step keeps the types; the ones with a computed value are split off.
LEMMA StoreItemType ==
    ASSUME TypeOK, NEW r \in Runs, NEW i \in todo[r], StoreItem(r, i)
    PROVE  TypeOK'
<1> DEFINE row == Visible(r, i.url)
<1> USE DEF TypeOK
<1>1. i \in Storable /\ i.url \in Urls
  BY DEF Storable
<1>2. row \in Rows \cup {NoRow}
  BY <1>1 DEF Visible
<1>3. (IF Improves(row, i) THEN Merge(row, i) ELSE row) \in Rows
  <2> HIDE DEF TypeOK, row
  <2> QED BY <1>1, <1>2, UpsertGrows
<1>4. /\ draft' = [draft EXCEPT ![r][i.url] = IF Improves(row, i) THEN Merge(row, i) ELSE row]
      /\ stored' = [stored EXCEPT ![r] = IF Improves(row, i) THEN @ + 1 ELSE @]
      /\ pending' = [pending EXCEPT ![r] = @ + 1]
      /\ locked' = [locked EXCEPT ![r] = @ \cup {i.url}]
      /\ todo' = [todo EXCEPT ![r] = @ \ {i}]
      /\ waiting' = [waiting EXCEPT ![r] = NoItem]
      /\ UNCHANGED <<database, pc, filterVars, validated, published, tailVars, faultVars>>
  BY DEF StoreItem
<1>5. draft' \in [Runs -> [Urls -> Rows \cup {NoRow}]]
  BY <1>1, <1>3, <1>4
<1>6. stored' \in [Runs -> Nat] /\ pending' \in [Runs -> Nat]
  BY <1>4
<1>7. locked' \in [Runs -> SUBSET Urls] /\ todo' \in [Runs -> SUBSET Storable]
      /\ waiting' \in [Runs -> Storable \cup {NoItem}]
  BY <1>1, <1>4
<1> QED BY <1>4, <1>5, <1>6, <1>7 DEF database, filterVars, tailVars, faultVars

\* The commit of a store keeps the types: the drafts become rows.
LEMMA CommitStoreType ==
    ASSUME IndInv, NEW r \in Runs, CommitStore(r)
    PROVE  TypeOK'
  BY DEF CommitStore, IndInv, TypeOK, Phases, Awaiting, filterVars, tailVars, faultVars

\* The accepted items of a run are a fresh set: nothing is recorded of it yet.
LEMMA ClassifyInv ==
    ASSUME IndInv, NEW r \in Runs, Classify(r)
    PROVE  IndInv'
<1> USE DEF IndInv
<1>1. PICK V \in SUBSET {i \in batch[r] : Valid(i)} :
         /\ pc[r] = "classify"
         /\ validated' = [validated EXCEPT ![r] = V]
         /\ todo' = [todo EXCEPT ![r] = V]
         /\ pc' = [pc EXCEPT ![r] = "store"]
         /\ batch' = [batch EXCEPT ![r] = {}]
         /\ updates' = [updates EXCEPT ![r] = {}]
         /\ UNCHANGED <<database, waiting, locked, draft, pending, stored, published, tailVars,
                        faultVars>>
  BY DEF Classify
<1>2. V \subseteq Storable
  BY DEF TypeOK, Items, Storable, Valid
<1>3. UNCHANGED <<news, log, locked, draft>>
  BY <1>1 DEF database
<1>4. TypeOK'
  BY <1>1, <1>2 DEF TypeOK, database, tailVars, faultVars, Phases, Awaiting
<1>5. Locks' /\ DraftsGrow'
  BY <1>1, <1>3 DEF Locks, DraftsGrow, TypeOK
<1>6. HandledItems'
  BY <1>1, <1>3 DEF HandledItems, TypeOK
<1>a. pc'[r] = "store" /\ todo'[r] = V /\ validated'[r] = V
  BY <1>1 DEF TypeOK
<1>b. \A q \in Runs \ {r} : pc'[q] = pc[q] /\ todo'[q] = todo[q] /\ validated'[q] = validated[q]
  BY <1>1 DEF TypeOK
<1>c. \A q \in Runs : Completed(q)' <=> Completed(q)
  BY <1>3 DEF Completed
<1>7. RowsComeLast'
  BY <1>a, <1>b, <1>c DEF RowsComeLast
<1>8. SuccessIsDurable'
  <2>1. ~Completed(r)
    BY <1>1 DEF RowsComeLast
  <2> QED BY <1>b, <1>c, <1>3, <2>1 DEF SuccessIsDurable, Carries
<1> QED BY <1>4, <1>5, <1>6, <1>7, <1>8

\* A statement moves its item from todo to a locked draft that carries it and
\* is at least the row it replaces.
LEMMA StoreItemInv ==
    ASSUME IndInv, NEW r \in Runs, NEW i \in todo[r], StoreItem(r, i)
    PROVE  IndInv'
<1> DEFINE row == Visible(r, i.url)
           new == IF Improves(row, i) THEN Merge(row, i) ELSE row
<1> USE DEF IndInv
<1>0. TypeOK'
  BY StoreItemType
<1>1. i \in Storable /\ i.url \in Urls
  BY DEF TypeOK, Storable
<1>2. row \in Rows \cup {NoRow}
  BY <1>1 DEF Visible, TypeOK
<1>3. new \in Rows /\ new # NoRow /\ AtLeast(new, i) /\ (row # NoRow => AtLeast(new, row))
  <2>1. new \in Rows /\ AtLeast(new, i) /\ (row # NoRow => AtLeast(new, row))
    <3> HIDE DEF IndInv, row
    <3> QED BY <1>1, <1>2, UpsertGrows
  <2> HIDE DEF new
  <2> QED BY <2>1, PipelineAssumption
<1>4. /\ draft' = [draft EXCEPT ![r][i.url] = new]
      /\ locked' = [locked EXCEPT ![r] = @ \cup {i.url}]
      /\ todo' = [todo EXCEPT ![r] = @ \ {i}]
      /\ pc[r] = "store"
      /\ ~LockedByOther(r, i.url)
      /\ UNCHANGED <<news, log, pc, validated>>
  BY DEF StoreItem, database
<1>5. Locks'
  BY <1>4 DEF Locks, LockedByOther, TypeOK
<1>6. \A q \in Runs \ {r} : draft'[q] = draft[q] /\ locked'[q] = locked[q] /\ todo'[q] = todo[q]
  BY <1>4 DEF TypeOK
<1>7. /\ draft'[r][i.url] = new
      /\ \A u \in Urls \ {i.url} : draft'[r][u] = draft[r][u]
      /\ locked'[r] = locked[r] \cup {i.url}
      /\ todo'[r] = todo[r] \ {i}
  BY <1>1, <1>4 DEF TypeOK
<1>8. DraftsGrow'
  <2>1. news[i.url] # NoRow => AtLeast(new, news[i.url])
    <3>1. CASE i.url \in locked[r]
      <4>1. row = draft[r][i.url] /\ row # NoRow /\ row \in Rows
        BY <3>1, <1>2 DEF Visible, DraftsGrow
      <4>2. news[i.url] # NoRow => news[i.url] \in Rows /\ AtLeast(row, news[i.url])
        BY <3>1, <4>1, <1>1 DEF DraftsGrow, TypeOK
      <4> HIDE DEF new, row
      <4> QED BY <1>3, <4>1, <4>2, AtLeastIsAnOrder
    <3>2. CASE i.url \notin locked[r]
      BY <3>2, <1>3 DEF Visible
    <3> QED BY <3>1, <3>2
  <2>2. ASSUME NEW q \in Runs, NEW u \in locked'[q]
        PROVE  draft'[q][u] # NoRow /\ (news[u] # NoRow => AtLeast(draft'[q][u], news[u]))
    <3>1. CASE q # r
      BY <1>6, <2>2, <3>1 DEF DraftsGrow
    <3>2. CASE q = r /\ u = i.url
      BY <1>3, <1>7, <2>1, <3>2
    <3>3. CASE q = r /\ u # i.url
      BY <1>7, <2>2, <3>3 DEF DraftsGrow, TypeOK
    <3> QED BY <3>1, <3>2, <3>3
  <2> QED BY <2>2, <1>4 DEF DraftsGrow
<1>9. HandledItems'
  <2>1. ASSUME NEW j \in validated[r]
        PROVE  \/ j \in todo'[r]
               \/ j.url \in locked'[r] /\ Carries(draft'[r][j.url], j)
               \/ Carries(news[j.url], j)
    <3>1. CASE j = i
      BY <1>3, <1>7, <3>1 DEF Carries
    <3>2. CASE j # i /\ j.url # i.url
      BY <1>4, <1>7, <3>2 DEF HandledItems, TypeOK, Storable
    <3>3. CASE j # i /\ j.url = i.url
      <4>1. CASE j.url \in locked[r] /\ Carries(draft[r][j.url], j)
        <5>1. row = draft[r][i.url] /\ row # NoRow /\ row \in Rows /\ AtLeast(row, j)
          BY <3>3, <4>1, <1>2 DEF Visible, Carries
        <5>2. j \in Storable
          BY DEF TypeOK
        <5>3. AtLeast(new, j)
          <6> HIDE DEF new, row
          <6> QED BY <1>3, <5>1, <5>2, AtLeastIsAnOrder
        <5> QED BY <1>3, <1>7, <3>3, <5>3 DEF Carries
      <4> QED BY <1>4, <1>7, <3>3, <4>1 DEF HandledItems
    <3> QED BY <3>1, <3>2, <3>3
  <2> QED BY <1>4, <1>6, <2>1 DEF HandledItems
<1>10. RowsComeLast'
  BY <1>4, <1>6, <1>7 DEF RowsComeLast, Completed
<1>11. SuccessIsDurable'
  BY <1>4 DEF SuccessIsDurable, Completed
<1> QED BY <1>0, <1>5, <1>8, <1>9, <1>10, <1>11

\* A commit replaces the rows of the locked urls by drafts that are no worse.
LEMMA CommittedRows ==
    ASSUME IndInv, NEW r \in Runs, CommitStore(r), NEW u \in Urls, news[u] # NoRow
    PROVE  news'[u] # NoRow /\ AtLeast(news'[u], news[u])
<1>1. news'[u] = IF u \in locked[r] THEN draft[r][u] ELSE news[u]
  BY DEF CommitStore
<1>2. news[u] \in Rows
  BY DEF IndInv, TypeOK
<1> QED BY <1>1, <1>2, AtLeastIsAnOrder DEF IndInv, DraftsGrow

\* The commit of a store keeps the invariant: its drafts are at least the rows they replace.
LEMMA CommitStoreInv ==
    ASSUME IndInv, NEW r \in Runs, CommitStore(r)
    PROVE  IndInv'
<1> USE DEF IndInv
<1>0. TypeOK'
  BY CommitStoreType
<1>1. /\ pc[r] = "store"
      /\ news' = [u \in Urls |-> IF u \in locked[r] THEN draft[r][u] ELSE news[u]]
      /\ locked' = [locked EXCEPT ![r] = {}]
      /\ pc' = [pc EXCEPT ![r] = IF todo[r] = {} THEN "brief" ELSE "store"]
      /\ UNCHANGED <<log, validated, todo, draft>>
  BY DEF CommitStore
<1>2. Locks'
  BY <1>1 DEF Locks, TypeOK
<1>3. \A q \in Runs \ {r} : \A u \in locked[q] : u \in Urls /\ news'[u] = news[u]
  BY <1>1 DEF Locks, TypeOK
<1>4. DraftsGrow'
  <2>1. locked'[r] = {} /\ \A q \in Runs \ {r} : locked'[q] = locked[q]
    BY <1>1 DEF TypeOK
  <2>2. draft' = draft
    BY <1>1
  <2> QED BY <1>3, <2>1, <2>2 DEF DraftsGrow
<1>5. \A u \in Urls : \A i \in Storable : Carries(news[u], i) => Carries(news'[u], i)
  <2> SUFFICES ASSUME NEW u \in Urls, NEW i \in Storable, Carries(news[u], i)
               PROVE  Carries(news'[u], i)
    OBVIOUS
  <2>1. news[u] # NoRow /\ news[u] \in Rows /\ AtLeast(news[u], i)
    BY DEF Carries, TypeOK
  <2>2. news'[u] # NoRow /\ AtLeast(news'[u], news[u])
    BY <2>1, CommittedRows
  <2>3. news'[u] \in Rows
    BY <1>0, <2>2 DEF TypeOK
  <2> QED BY <2>1, <2>2, <2>3, AtLeastIsAnOrder DEF Carries
<1>6. \A q \in Runs : \A i \in validated[q] : i \in Storable /\ i.url \in Urls
  BY DEF TypeOK, Storable
<1>7. \A i \in validated[r] : i \in todo[r] \/ Carries(news'[i.url], i)
  BY <1>1, <1>5, <1>6 DEF HandledItems
<1>8. HandledItems'
  <2>1. ASSUME NEW q \in Runs, pc'[q] = "store", NEW i \in validated[q]
        PROVE  \/ i \in todo[q]
               \/ i.url \in locked'[q] /\ Carries(draft[q][i.url], i)
               \/ Carries(news'[i.url], i)
    <3>1. CASE q = r
      BY <1>7, <3>1, <2>1
    <3>2. CASE q # r
      BY <1>1, <1>5, <1>6, <2>1, <3>2 DEF HandledItems, TypeOK
    <3> QED BY <3>1, <3>2
  <2>2. ASSUME NEW q \in Runs, pc'[q] \in {"brief", "embed", "vectors", "final"},
               NEW i \in validated[q]
        PROVE  Carries(news'[i.url], i)
    <3>1. CASE q = r
      <4>1. todo[r] = {}
        BY <1>1, <2>2, <3>1 DEF TypeOK
      <4> QED BY <1>7, <2>2, <3>1, <4>1
    <3>2. CASE q # r
      BY <1>1, <1>5, <1>6, <2>2, <3>2 DEF HandledItems, TypeOK
    <3> QED BY <3>1, <3>2
  <2> QED BY <1>1, <2>1, <2>2 DEF HandledItems
<1>9. RowsComeLast'
  <2>1. \A q \in Runs : pc'[q] \in Early => pc[q] \in Early
    BY <1>1 DEF Early, TypeOK
  <2>2. \A q \in Runs : Completed(q)' <=> Completed(q)
    BY <1>1 DEF Completed
  <2> QED BY <1>1, <2>1, <2>2 DEF RowsComeLast, Early
<1>10. SuccessIsDurable'
  BY <1>1, <1>5, <1>6 DEF SuccessIsDurable, Completed
<1> QED BY <1>0, <1>2, <1>4, <1>8, <1>9, <1>10

\* The steps before classification and after the store move one run within its
\* part of the phases and touch neither rows nor drafts nor its record.
LEMMA EarlyInv ==
    ASSUME IndInv, NEW r \in Runs,
           Begin(r) \/ Extracted(r) \/ ReadUrls(r) \/ ReadTitles(r)
    PROVE  IndInv'
<1> USE DEF IndInv
<1>1. TypeOK'
  <2>1. CASE Begin(r)
    BY <2>1 DEF Begin, TypeOK, Phases, Awaiting, database, filterVars, storeVars, tailVars, faultVars
  <2>2. CASE Extracted(r)
    <3>1. PICK I \in Feeds[r] : \E D \in Deduplicated(I) :
             /\ batch' = [batch EXCEPT ![r] = D]
             /\ pc' = [pc EXCEPT ![r] = IF I = {} THEN "empty" ELSE "seen"]
             /\ UNCHANGED <<database, updates, storeVars, tailVars, faultVars>>
      BY <2>2 DEF Extracted
    <3>2. I \subseteq Items
      OBVIOUS
    <3>3. \A D \in Deduplicated(I) : D \subseteq Items
      BY <3>2 DEF Deduplicated, BestPerUrl, OnePerContent
    <3> QED BY <3>1, <3>3 DEF TypeOK, Phases, Awaiting, database, storeVars, tailVars, faultVars
  <2>3. CASE ReadUrls(r)
    BY <2>3 DEF ReadUrls, TypeOK, Phases, Awaiting, database, storeVars, tailVars, faultVars
  <2>4. CASE ReadTitles(r)
    BY <2>4 DEF ReadTitles, TypeOK, Phases, Awaiting, database, storeVars, tailVars, faultVars
  <2> QED BY <2>1, <2>2, <2>3, <2>4
<1>2. /\ UNCHANGED <<news, validated, todo, draft, locked, log>>
      /\ pc[r] \in Early /\ pc'[r] \in Early
      /\ \A q \in Runs \ {r} : pc'[q] = pc[q]
  <2>1. CASE Begin(r)
    BY <2>1 DEF Begin, TypeOK, Early, database, storeVars
  <2>2. CASE Extracted(r)
    BY <2>2 DEF Extracted, TypeOK, Early, database, storeVars
  <2>3. CASE ReadUrls(r)
    BY <2>3 DEF ReadUrls, TypeOK, Early, database, storeVars
  <2>4. CASE ReadTitles(r)
    BY <2>4 DEF ReadTitles, TypeOK, Early, database, storeVars
  <2> QED BY <2>1, <2>2, <2>3, <2>4
<1> QED BY <1>1, <1>2, QuietStep DEF Completed

\* The briefing and the embedding of a run keep the invariant.
LEMMA LateInv ==
    ASSUME IndInv, NEW r \in Runs,
           SaveBriefing(r) \/ EmbedSelect(r) \/ EmbedStore(r) \/ EmbedFails(r)
    PROVE  IndInv'
<1> USE DEF IndInv
<1>1. TypeOK'
  <2>1. CASE SaveBriefing(r)
    BY <2>1 DEF SaveBriefing, TypeOK, Phases, Awaiting, filterVars, storeVars, faultVars
  <2>2. CASE EmbedSelect(r)
    BY <2>2 DEF EmbedSelect, Limited, Unembedded, TypeOK, Phases, Awaiting, database, filterVars,
                storeVars, faultVars
  <2>3. CASE EmbedStore(r)
    BY <2>3 DEF EmbedStore, TypeOK, Phases, Awaiting, filterVars, storeVars, tailVars, faultVars
  <2>4. CASE EmbedFails(r)
    BY <2>4 DEF EmbedFails, TypeOK, Phases, Awaiting, database, filterVars, storeVars, faultVars
  <2> QED BY <2>1, <2>2, <2>3, <2>4
<1>2. /\ UNCHANGED <<news, validated, todo, draft, locked, log>>
      /\ pc[r] \in Late /\ pc'[r] \in Late
      /\ \A q \in Runs \ {r} : pc'[q] = pc[q]
  <2>1. CASE SaveBriefing(r)
    BY <2>1 DEF SaveBriefing, TypeOK, Late, storeVars
  <2>2. CASE EmbedSelect(r)
    BY <2>2 DEF EmbedSelect, TypeOK, Late, database, storeVars
  <2>3. CASE EmbedStore(r)
    BY <2>3 DEF EmbedStore, TypeOK, Late, storeVars
  <2>4. CASE EmbedFails(r)
    BY <2>4 DEF EmbedFails, TypeOK, Late, database, storeVars
  <2> QED BY <2>1, <2>2, <2>3, <2>4
<1> QED BY <1>1, <1>2, QuietStep DEF Completed

\* Only the step out of the final phase records a completed run.
LEMMA WriteRunInv ==
    ASSUME IndInv, NEW r \in Runs, WriteRun(r)
    PROVE  IndInv'
<1> USE DEF IndInv
<1> DEFINE status == IF pc[r] = "empty" THEN "empty"
                     ELSE IF r \in failed THEN "degraded" ELSE "success"
<1>1. /\ pc[r] \in {"final", "empty"}
      /\ log' = log \cup {<<r, status>>}
      /\ pc' = [pc EXCEPT ![r] = "returning"]
      /\ UNCHANGED <<news, recent, embedded, briefing, filterVars, storeVars, tailVars, faultVars>>
  BY DEF WriteRun
<1>2. TypeOK'
  BY <1>1 DEF TypeOK, Phases, Awaiting, Statuses, filterVars, storeVars, tailVars, faultVars
<1>3. UNCHANGED <<news, validated, todo, draft, locked>>
  BY <1>1 DEF storeVars
<1>4. locked[r] = {}
  BY <1>1 DEF Locks
<1>5. \A q \in Runs : Completed(q)' => Completed(q) \/ pc[q] = "final"
  BY <1>1 DEF Completed
<1>6. pc'[r] = "returning" /\ \A q \in Runs \ {r} : pc'[q] = pc[q]
  BY <1>1 DEF TypeOK
<1> QED BY <1>2, <1>3, <1>4, <1>5, <1>6, QuietStep

\* The steps that end a run, or take it to a handler.
LEMMA EndingInv ==
    ASSUME IndInv, NEW r \in Runs,
           Return(r) \/ Raises(r) \/ HandleError(r) \/ DeadlockVictim(r) \/ HandleCancel(r)
    PROVE  IndInv'
<1> USE DEF IndInv
<1>1. TypeOK'
  <2>1. CASE Return(r)
    BY <2>1 DEF Return, TypeOK, Phases, database, filterVars, storeVars, tailVars, faultVars
  <2>2. CASE Raises(r)
    BY <2>2 DEF Raises, TypeOK, Phases, database, filterVars, storeVars, tailVars, faultVars
  <2>3. CASE HandleError(r)
    BY <2>3 DEF HandleError, Rollback, TypeOK, Phases, Statuses, filterVars, tailVars, faultVars
  <2>4. CASE DeadlockVictim(r)
    BY <2>4 DEF DeadlockVictim, Rollback, TypeOK, Phases, database, filterVars, tailVars, faultVars
  <2>5. CASE HandleCancel(r)
    BY <2>5 DEF HandleCancel, Rollback, TypeOK, Phases, Statuses, filterVars, tailVars, faultVars
  <2> QED BY <2>1, <2>2, <2>3, <2>4, <2>5
<1>2. UNCHANGED <<news, validated, todo, draft>>
  BY DEF Return, Raises, HandleError, DeadlockVictim, HandleCancel, Rollback, database, storeVars
<1>3. \A q \in Runs : Completed(q)' => Completed(q)
  BY DEF Return, Raises, HandleError, DeadlockVictim, HandleCancel, Completed, database
<1>4. \A q \in Runs \ {r} : pc'[q] = pc[q] /\ locked'[q] = locked[q]
  <2>1. \E p \in {"done", "failing", "dead"} : pc' = [pc EXCEPT ![r] = p]
    BY DEF Return, Raises, HandleError, DeadlockVictim, HandleCancel
  <2>2. locked' = locked \/ locked' = [locked EXCEPT ![r] = {}]
    BY DEF Return, Raises, HandleError, DeadlockVictim, HandleCancel, Rollback, storeVars
  <2>3. pc \in [Runs -> Phases] /\ locked \in [Runs -> SUBSET Urls]
    BY DEF TypeOK
  <2> QED BY <2>1, <2>2, <2>3
<1>5. /\ locked'[r] \subseteq locked[r]
      /\ \/ pc'[r] \in {"failing", "cancelling"}
         \/ pc'[r] \in {"dead", "done"} /\ locked'[r] = {}
  <2>1. CASE Return(r)
    <3>1. pc[r] = "returning" /\ pc' = [pc EXCEPT ![r] = "done"] /\ locked' = locked
      BY <2>1 DEF Return, storeVars
    <3>2. locked[r] = {}
      BY <3>1 DEF Locks
    <3>3. pc'[r] = "done"
      BY <3>1 DEF TypeOK
    <3> QED BY <3>1, <3>2, <3>3
  <2>2. CASE Raises(r)
    BY <2>2 DEF Raises, TypeOK, storeVars
  <2>3. CASE HandleError(r)
    BY <2>3 DEF HandleError, Rollback, TypeOK
  <2>4. CASE DeadlockVictim(r)
    BY <2>4 DEF DeadlockVictim, Rollback, TypeOK
  <2>5. CASE HandleCancel(r)
    BY <2>5 DEF HandleCancel, Rollback, TypeOK
  <2> QED BY <2>1, <2>2, <2>3, <2>4, <2>5
<1> QED BY <1>1, <1>2, <1>3, <1>4, <1>5, QuietStep

\* A run that waits for a lock keeps the invariant.
LEMMA WaitForLockInv ==
    ASSUME IndInv, NEW r \in Runs, NEW i \in todo[r], WaitForLock(r, i)
    PROVE  IndInv'
<1> USE DEF IndInv
<1>1. TypeOK'
  BY DEF WaitForLock, TypeOK, database, filterVars, tailVars, faultVars
<1>2. UNCHANGED <<news, validated, todo, draft, locked, log, pc>>
  BY DEF WaitForLock, database
<1> QED BY <1>1, <1>2, QuietStep DEF Completed

\* The steps of the environment.
LEMMA FaultInv ==
    ASSUME IndInv, Sigterm \/ Crash \/ \E u \in Urls : AgeOut(u)
    PROVE  IndInv'
<1> USE DEF IndInv
<1>1. CASE Sigterm
  <2>1. TypeOK'
    BY <1>1 DEF Sigterm, TypeOK, Phases, database, filterVars, tailVars
  <2>2. UNCHANGED <<news, validated, todo, draft, log>>
    BY <1>1 DEF Sigterm, database
  <2>3. \A r \in Runs :
           \/ pc'[r] = pc[r] /\ locked'[r] = locked[r]
           \/ pc'[r] = "cancelling" /\ locked'[r] = locked[r]
           \/ pc'[r] = "dead" /\ locked'[r] = {}
    BY <1>1 DEF Sigterm, Awaiting
  <2> QED BY <2>1, <2>2, <2>3, QuietStep DEF Completed
<1>2. CASE Crash
  <2>1. TypeOK'
    BY <1>2 DEF Crash, TypeOK, Phases, database, filterVars, tailVars
  <2>2. UNCHANGED <<news, validated, todo, draft, log>>
    BY <1>2 DEF Crash, database
  <2>3. \A r \in Runs : /\ locked'[r] = {}
                       /\ \/ pc'[r] = "dead"
                          \/ pc'[r] = pc[r] /\ locked[r] = {}
    <3> TAKE r \in Runs
    <3>1. locked'[r] = {}
      BY <1>2 DEF Crash
    <3>2. \/ pc'[r] = "dead"
          \/ pc'[r] = pc[r] /\ pc[r] \in {"idle", "done"}
      BY <1>2 DEF Crash
    <3>3. pc[r] \in {"idle", "done"} => locked[r] = {}
      BY DEF Locks
    <3> QED BY <3>1, <3>2, <3>3
  <2> QED BY <2>1, <2>2, <2>3, QuietStep DEF Completed
<1>3. CASE \E u \in Urls : AgeOut(u)
  <2>1. TypeOK'
    BY <1>3 DEF AgeOut, TypeOK, filterVars, storeVars, tailVars, faultVars
  <2>2. UNCHANGED <<news, validated, todo, draft, locked, log, pc>>
    BY <1>3 DEF AgeOut, storeVars
  <2> QED BY <2>1, <2>2, QuietStep DEF Completed
<1> QED BY <1>1, <1>2, <1>3

\* The invariant is inductive.
LEMMA NextInv == IndInv /\ [Next]_vars => IndInv'
<1> SUFFICES ASSUME IndInv, [Next]_vars PROVE IndInv'
  OBVIOUS
<1>1. ASSUME NEW r \in Runs, Begin(r) \/ Proceed(r) \/ Raises(r) \/ DeadlockVictim(r)
      PROVE  IndInv'
  <2>1. ASSUME NEW i \in todo[r], WaitForLock(r, i) \/ StoreItem(r, i) PROVE IndInv'
    BY <2>1, WaitForLockInv, StoreItemInv
  <2>2. CASE Begin(r) \/ Extracted(r) \/ ReadUrls(r) \/ ReadTitles(r)
    BY <2>2, EarlyInv
  <2>3. CASE SaveBriefing(r) \/ EmbedSelect(r) \/ EmbedStore(r) \/ EmbedFails(r)
    BY <2>3, LateInv
  <2>4. CASE Return(r) \/ Raises(r) \/ HandleError(r) \/ DeadlockVictim(r) \/ HandleCancel(r)
    BY <2>4, EndingInv
  <2>5. CASE Classify(r) \/ CommitStore(r) \/ WriteRun(r)
    BY <2>5, ClassifyInv, CommitStoreInv, WriteRunInv
  <2> QED BY <1>1, <2>1, <2>2, <2>3, <2>4, <2>5 DEF Proceed
<1>2. CASE UNCHANGED vars
  <2>1. TypeOK' /\ UNCHANGED <<news, validated, todo, draft, locked, log, pc>>
    BY <1>2 DEF vars, database, filterVars, storeVars, tailVars, faultVars, IndInv, TypeOK
  <2> QED BY <2>1, QuietStep DEF Completed
<1> QED BY <1>1, <1>2, FaultInv DEF Next

\* The strengthening holds in every reachable state.
THEOREM Inductive == Spec => []IndInv
  BY InitInv, NextInv, PTL DEF Spec

\* Type correctness of the pipeline.
THEOREM TypeCorrect == Spec => []TypeOK
<1>1. IndInv => TypeOK
  BY DEF IndInv
<1> QED BY <1>1, Inductive, PTL

\* A run recorded as completed has all its items in the table, for good.
THEOREM Durable == Spec => []SuccessIsDurable
<1>1. IndInv => SuccessIsDurable
  BY DEF IndInv
<1> QED BY <1>1, Inductive, PTL

\* No step of any run removes a row or lowers its score.
THEOREM Monotone == Spec => ScoresNeverDrop
<1> DEFINE Grows == \A u \in Urls :
                       news[u] # NoRow => news'[u] # NoRow /\ AtLeast(news'[u], news[u])
<1>1. ASSUME IndInv, NEW r \in Runs, CommitStore(r) PROVE Grows
  BY <1>1, CommittedRows
<1>2. ASSUME Next, \A r \in Runs : ~CommitStore(r) PROVE news' = news
  <2>1. ASSUME NEW r \in Runs, Begin(r) \/ Extracted(r) \/ ReadUrls(r) \/ ReadTitles(r) \/ Classify(r)
        PROVE  news' = news
    BY <2>1 DEF Begin, Extracted, ReadUrls, ReadTitles, Classify, database
  <2>2. ASSUME NEW r \in Runs, NEW i \in todo[r], WaitForLock(r, i) \/ StoreItem(r, i)
        PROVE  news' = news
    BY <2>2 DEF WaitForLock, StoreItem, database
  <2>3. ASSUME NEW r \in Runs,
               SaveBriefing(r) \/ EmbedSelect(r) \/ EmbedStore(r) \/ EmbedFails(r) \/ WriteRun(r)
        PROVE  news' = news
    BY <2>3 DEF SaveBriefing, EmbedSelect, EmbedStore, EmbedFails, WriteRun, database
  <2>4. ASSUME NEW r \in Runs,
               Return(r) \/ Raises(r) \/ HandleError(r) \/ DeadlockVictim(r) \/ HandleCancel(r)
        PROVE  news' = news
    BY <2>4 DEF Return, Raises, HandleError, DeadlockVictim, HandleCancel, database
  <2>5. ASSUME Sigterm \/ Crash \/ \E u \in Urls : AgeOut(u)
        PROVE  news' = news
    BY <2>5 DEF Sigterm, Crash, AgeOut, database
  <2> QED BY <1>2, <2>1, <2>2, <2>3, <2>4, <2>5 DEF Next, Proceed
<1>3. ASSUME IndInv, news' = news PROVE Grows
  <2>1. \A u \in Urls : news[u] # NoRow => news[u] \in Rows
    BY <1>3 DEF IndInv, TypeOK
  <2> QED BY <1>3, <2>1, AtLeastIsAnOrder
<1>4. IndInv /\ [Next]_vars => [Grows]_vars
  BY <1>1, <1>2, <1>3 DEF vars, database
<1> QED BY <1>4, Inductive, PTL DEF Spec, ScoresNeverDrop
-----------------------------------------------------------------------------
(***************************************************************************)
(* What a recorded success says about vectors.  A run's selection is the   *)
(* whole backlog unless it has the size of the limit, so it has the run's  *)
(* own rows; from then on nothing of it is undone.                         *)
(***************************************************************************)
Unselected == {"idle", "extract", "seen", "titles", "classify", "store", "brief", "embed"}

Succeeded(r) == <<r, "success">> \in log

Accepted(r) == {i.url : i \in validated[r]}

EmbeddingShape ==
    \A r \in Runs :
        /\ pc[r] \in Unselected \cup {"vectors", "final"} => ~Succeeded(r)
        /\ pc[r] = "vectors" /\ Cardinality(pick[r]) < EmbedLimit =>
              Accepted(r) \subseteq embedded \cup pick[r]
        /\ /\ Succeeded(r) \/ (pc[r] = "final" /\ r \notin failed)
           /\ EmbeddingEnabled /\ Cardinality(pick[r]) < EmbedLimit
           => Accepted(r) \subseteq embedded

LEMMA EmbeddingInit == Init => EmbeddingShape
BY DEF Init, EmbeddingShape, Unselected, Succeeded

\* A step keeps the shape if it takes no run to the phases after the selection.
LEMMA EmbeddingQuiet ==
    ASSUME EmbeddingShape, UNCHANGED <<embedded, validated, pick, failed>>,
           \A q \in Runs : Succeeded(q)' => Succeeded(q),
           \A q \in Runs : \/ pc'[q] = pc[q]
                           \/ pc[q] \in Unselected /\ pc'[q] \in Unselected
                           \/ pc'[q] \notin Unselected \cup {"vectors", "final"}
    PROVE  EmbeddingShape'
<1>1. SUFFICES ASSUME NEW q \in Runs
      PROVE  /\ pc'[q] \in Unselected \cup {"vectors", "final"} => ~Succeeded(q)'
             /\ pc'[q] = "vectors" /\ Cardinality(pick[q]) < EmbedLimit =>
                   Accepted(q) \subseteq embedded \cup pick[q]
             /\ /\ Succeeded(q)' \/ (pc'[q] = "final" /\ q \notin failed)
                /\ EmbeddingEnabled /\ Cardinality(pick[q]) < EmbedLimit
                => Accepted(q) \subseteq embedded
  BY DEF EmbeddingShape, Accepted
<1>2. CASE pc'[q] = pc[q]
  BY <1>2 DEF EmbeddingShape
<1>3. CASE pc[q] \in Unselected /\ pc'[q] \in Unselected
  BY <1>3 DEF EmbeddingShape, Unselected
<1>4. CASE pc'[q] \notin Unselected \cup {"vectors", "final"}
  BY <1>4 DEF EmbeddingShape
<1> QED BY <1>2, <1>3, <1>4

\* A selection below the limit is the whole backlog.
LEMMA SelectionIsBacklog ==
    ASSUME NEW S, NEW P \in Limited(S, EmbedLimit), Cardinality(P) < EmbedLimit
    PROVE  P = S
BY DEF Limited

\* The selection has every row of the run that has no vector yet.
LEMMA EmbedSelectKeepsShape ==
    ASSUME IndInv, EmbeddingShape, NEW r \in Runs, EmbedSelect(r)
    PROVE  EmbeddingShape'
<1>1. PICK P \in Limited(Unembedded, EmbedLimit) :
         /\ pc[r] = "embed"
         /\ pick' = [pick EXCEPT ![r] = P]
         /\ pc' = [pc EXCEPT ![r] = IF P = {} THEN "final" ELSE "vectors"]
         /\ UNCHANGED <<database, filterVars, storeVars, briefed, failed, faultVars>>
  BY DEF EmbedSelect
<1>2. UNCHANGED <<embedded, validated, failed, log>>
  BY <1>1 DEF database, storeVars
<1>3. /\ pick'[r] = P
      /\ pc'[r] = IF P = {} THEN "final" ELSE "vectors"
      /\ \A q \in Runs \ {r} : pick'[q] = pick[q] /\ pc'[q] = pc[q]
  BY <1>1 DEF IndInv, TypeOK
<1>4. ~Succeeded(r)
  BY <1>1 DEF EmbeddingShape, Unselected
<1>5. Cardinality(P) < EmbedLimit => Accepted(r) \subseteq embedded \cup P
  <2> SUFFICES ASSUME Cardinality(P) < EmbedLimit, NEW i \in validated[r]
               PROVE  i.url \in embedded \cup P
    BY DEF Accepted
  <2>1. i.url \in Urls
    BY DEF IndInv, TypeOK, Storable
  <2>2. news[i.url] # NoRow
    BY <1>1 DEF IndInv, HandledItems, Carries
  <2>3. P = Unembedded
    BY SelectionIsBacklog
  <2> QED BY <2>1, <2>2, <2>3 DEF Unembedded
<1>6. ASSUME NEW q \in Runs \ {r}
      PROVE  /\ pc'[q] \in Unselected \cup {"vectors", "final"} => ~Succeeded(q)
             /\ pc'[q] = "vectors" /\ Cardinality(pick'[q]) < EmbedLimit =>
                   Accepted(q) \subseteq embedded \cup pick'[q]
             /\ /\ Succeeded(q) \/ (pc'[q] = "final" /\ q \notin failed)
                /\ EmbeddingEnabled /\ Cardinality(pick'[q]) < EmbedLimit
                => Accepted(q) \subseteq embedded
  BY <1>3 DEF EmbeddingShape
<1>7. /\ pc'[r] = "vectors" /\ Cardinality(pick'[r]) < EmbedLimit =>
            Accepted(r) \subseteq embedded \cup pick'[r]
      /\ pc'[r] = "final" /\ Cardinality(pick'[r]) < EmbedLimit => Accepted(r) \subseteq embedded
  BY <1>3, <1>5
<1> QED BY <1>2, <1>4, <1>6, <1>7 DEF EmbeddingShape, Succeeded, Accepted

\* The vectors of the selection are stored, or the run is marked.
LEMMA EmbedEndKeepsShape ==
    ASSUME IndInv, EmbeddingShape, NEW r \in Runs, EmbedStore(r) \/ EmbedFails(r)
    PROVE  EmbeddingShape'
<1>1. /\ pc[r] = "vectors" /\ pc'[r] = "final"
      /\ \A q \in Runs \ {r} : pc'[q] = pc[q]
  BY DEF EmbedStore, EmbedFails, IndInv, TypeOK
<1>2. UNCHANGED <<validated, pick, log>>
  BY DEF EmbedStore, EmbedFails, database, storeVars, tailVars
<1>3. \/ embedded' = embedded \cup pick[r] /\ failed' = failed
      \/ embedded' = embedded /\ failed' = failed \cup {r}
  BY DEF EmbedStore, EmbedFails, database, tailVars
<1>4. ~Succeeded(r)
  BY <1>1 DEF EmbeddingShape
<1>5. Cardinality(pick[r]) < EmbedLimit /\ r \notin failed' => Accepted(r) \subseteq embedded'
  BY <1>1, <1>3 DEF EmbeddingShape
<1>6. ASSUME NEW q \in Runs \ {r}
      PROVE  /\ pc'[q] \in Unselected \cup {"vectors", "final"} => ~Succeeded(q)
             /\ pc'[q] = "vectors" /\ Cardinality(pick[q]) < EmbedLimit =>
                   Accepted(q) \subseteq embedded' \cup pick[q]
             /\ /\ Succeeded(q) \/ (pc'[q] = "final" /\ q \notin failed')
                /\ EmbeddingEnabled /\ Cardinality(pick[q]) < EmbedLimit
                => Accepted(q) \subseteq embedded'
  BY <1>1, <1>3 DEF EmbeddingShape
<1> QED BY <1>1, <1>2, <1>4, <1>5, <1>6 DEF EmbeddingShape, Succeeded, Accepted

\* The row of a run in its last phase says what the shape says of that phase.
LEMMA WriteRunKeepsShape ==
    ASSUME IndInv, EmbeddingShape, NEW r \in Runs, WriteRun(r)
    PROVE  EmbeddingShape'
<1>1. /\ pc'[r] = "returning"
      /\ \A q \in Runs \ {r} : pc'[q] = pc[q]
  BY DEF WriteRun, IndInv, TypeOK
<1>2. UNCHANGED <<embedded, validated, pick, failed>>
  BY DEF WriteRun, storeVars, tailVars
<1>3. \A q \in Runs \ {r} : Succeeded(q)' => Succeeded(q)
  BY DEF WriteRun, Succeeded
<1>4. Succeeded(r)' => Succeeded(r) \/ (pc[r] = "final" /\ r \notin failed)
  BY DEF WriteRun, Succeeded
<1>5. ASSUME NEW q \in Runs \ {r}
      PROVE  /\ pc'[q] \in Unselected \cup {"vectors", "final"} => ~Succeeded(q)'
             /\ pc'[q] = "vectors" /\ Cardinality(pick[q]) < EmbedLimit =>
                   Accepted(q) \subseteq embedded \cup pick[q]
             /\ /\ Succeeded(q)' \/ (pc'[q] = "final" /\ q \notin failed)
                /\ EmbeddingEnabled /\ Cardinality(pick[q]) < EmbedLimit
                => Accepted(q) \subseteq embedded
  BY <1>1, <1>3 DEF EmbeddingShape
<1>6. /\ pc'[r] \notin Unselected \cup {"vectors", "final"}
      /\ Succeeded(r)' /\ EmbeddingEnabled /\ Cardinality(pick[r]) < EmbedLimit =>
            Accepted(r) \subseteq embedded
  BY <1>1, <1>4 DEF EmbeddingShape, Unselected
<1> QED BY <1>1, <1>2, <1>5, <1>6 DEF EmbeddingShape, Accepted

\* A run is classified before it has succeeded.
LEMMA ClassifyKeepsShape ==
    ASSUME IndInv, EmbeddingShape, NEW r \in Runs, Classify(r)
    PROVE  EmbeddingShape'
<1>1. /\ pc[r] = "classify" /\ pc'[r] = "store"
      /\ \A q \in Runs \ {r} : pc'[q] = pc[q] /\ validated'[q] = validated[q]
  BY DEF Classify, IndInv, TypeOK
<1>2. UNCHANGED <<embedded, pick, failed, log>>
  BY DEF Classify, database, tailVars
<1>3. ~Succeeded(r)
  BY <1>1 DEF EmbeddingShape, Unselected
<1> QED BY <1>1, <1>2, <1>3 DEF EmbeddingShape, Succeeded, Accepted

\* Without an embedding key a run goes from the briefing to its last phase.
LEMMA SaveBriefingKeepsShape ==
    ASSUME IndInv, EmbeddingShape, NEW r \in Runs, SaveBriefing(r)
    PROVE  EmbeddingShape'
<1>1. /\ pc[r] = "brief" /\ pc'[r] = IF EmbeddingEnabled THEN "embed" ELSE "final"
      /\ \A q \in Runs \ {r} : pc'[q] = pc[q]
  BY DEF SaveBriefing, IndInv, TypeOK
<1>2. UNCHANGED <<embedded, validated, pick, failed, log>>
  BY DEF SaveBriefing, storeVars
<1>3. ~Succeeded(r)
  BY <1>1 DEF EmbeddingShape, Unselected
<1> QED BY <1>1, <1>2, <1>3 DEF EmbeddingShape, Succeeded, Accepted

\* Every other step of a run is quiet.
LEMMA RunKeepsShape ==
    ASSUME IndInv, EmbeddingShape, NEW r \in Runs,
           \/ Begin(r) \/ Extracted(r) \/ ReadUrls(r) \/ ReadTitles(r) \/ CommitStore(r)
           \/ Return(r) \/ Raises(r) \/ HandleError(r) \/ DeadlockVictim(r) \/ HandleCancel(r)
    PROVE  EmbeddingShape'
<1>1. CASE Begin(r) \/ Extracted(r) \/ ReadUrls(r) \/ ReadTitles(r) \/ CommitStore(r)
  <2>1. UNCHANGED <<embedded, validated, pick, failed, log>>
    BY <1>1 DEF Begin, Extracted, ReadUrls, ReadTitles, CommitStore, database, storeVars, tailVars
  <2>2. /\ pc[r] \in Unselected
        /\ \E p \in Unselected \cup {"empty"} : pc' = [pc EXCEPT ![r] = p]
    BY <1>1 DEF Begin, Extracted, ReadUrls, ReadTitles, CommitStore, Unselected
  <2>3. "empty" \notin Unselected \cup {"vectors", "final"}
    BY DEF Unselected
  <2>4. \A q \in Runs : \/ pc'[q] = pc[q]
                        \/ pc[q] \in Unselected /\ pc'[q] \in Unselected
                        \/ pc'[q] \notin Unselected \cup {"vectors", "final"}
    BY <2>2, <2>3 DEF IndInv, TypeOK
  <2> QED BY <2>1, <2>4, EmbeddingQuiet DEF Succeeded
<1>2. CASE Return(r) \/ Raises(r) \/ HandleError(r) \/ DeadlockVictim(r) \/ HandleCancel(r)
  <2>1. UNCHANGED <<embedded, validated, pick, failed>>
    BY <1>2 DEF Return, Raises, HandleError, DeadlockVictim, HandleCancel, Rollback, database,
                storeVars, tailVars
  <2>2. \A q \in Runs : Succeeded(q)' => Succeeded(q)
    BY <1>2 DEF Return, Raises, HandleError, DeadlockVictim, HandleCancel, database, Succeeded
  <2>3. \E p \in {"done", "failing", "dead"} : pc' = [pc EXCEPT ![r] = p]
    BY <1>2 DEF Return, Raises, HandleError, DeadlockVictim, HandleCancel
  <2>4. \A q \in Runs : pc'[q] = pc[q] \/ pc'[q] \notin Unselected \cup {"vectors", "final"}
    BY <2>3 DEF IndInv, TypeOK, Unselected
  <2> QED BY <2>1, <2>2, <2>4, EmbeddingQuiet
<1> QED BY <1>1, <1>2

LEMMA EmbeddingNext == IndInv /\ EmbeddingShape /\ [Next]_vars => EmbeddingShape'
<1> SUFFICES ASSUME IndInv, EmbeddingShape, [Next]_vars PROVE EmbeddingShape'
  OBVIOUS
<1>1. ASSUME NEW r \in Runs, Begin(r) \/ Proceed(r) \/ Raises(r) \/ DeadlockVictim(r)
      PROVE  EmbeddingShape'
  <2>1. ASSUME NEW i \in todo[r], WaitForLock(r, i) \/ StoreItem(r, i) PROVE EmbeddingShape'
    <3>1. UNCHANGED <<embedded, validated, pick, failed, log, pc>>
      BY <2>1 DEF WaitForLock, StoreItem, database, tailVars
    <3> QED BY <3>1, EmbeddingQuiet DEF Succeeded
  <2>2. CASE EmbedSelect(r) \/ EmbedStore(r) \/ EmbedFails(r)
    BY <2>2, EmbedSelectKeepsShape, EmbedEndKeepsShape
  <2>3. CASE Classify(r) \/ SaveBriefing(r) \/ WriteRun(r)
    BY <2>3, ClassifyKeepsShape, SaveBriefingKeepsShape, WriteRunKeepsShape
  <2> QED BY <1>1, <2>1, <2>2, <2>3, RunKeepsShape DEF Proceed
<1>2. CASE Sigterm \/ Crash \/ (\E u \in Urls : AgeOut(u)) \/ UNCHANGED vars
  <2>1. UNCHANGED <<embedded, validated, pick, failed, log>>
    BY <1>2 DEF Sigterm, Crash, AgeOut, vars, database, storeVars, tailVars
  <2>2. \A q \in Runs : pc'[q] = pc[q] \/ pc'[q] \notin Unselected \cup {"vectors", "final"}
    BY <1>2 DEF Sigterm, Crash, AgeOut, vars, Unselected
  <2> QED BY <2>1, <2>2, EmbeddingQuiet DEF Succeeded
<1> QED BY <1>1, <1>2 DEF Next

\* A run that is recorded as a plain success has vectors for all its rows, if
\* the backlog it selected from was below the limit.
THEOREM SuccessHasVectors == Spec => []SuccessMeansEmbedded
<1>1. EmbeddingShape => SuccessMeansEmbedded
  BY DEF EmbeddingShape, SuccessMeansEmbedded, Succeeded, Accepted
<1> QED BY <1>1, Inductive, EmbeddingInit, EmbeddingNext, PTL DEF Spec
-----------------------------------------------------------------------------
(***************************************************************************)
(* Pipeline implements NewsLedger, for every set of runs, urls and feeds   *)
(* and every batch size.  The ledger counts the rows that a commit         *)
(* changes; the code adds one per statement that improves a row.  The two  *)
(* counts agree because the items of a run have distinct urls and nobody   *)
(* else touches a locked row, which is what LedgerShape says.              *)
(***************************************************************************)
OneItemPerUrl(S) == \A i, j \in S : i.url = j.url /\ i.url # NoUrl => i = j

\* The rows that a commit of run r would change.
Changes(r) == {u \in locked[r] : draft[r][u] # news[u]}

\* deduplicate_items leaves one item per url, and no later step adds another.
DistinctItems ==
    \A r \in Runs :
        /\ OneItemPerUrl(batch[r] \cup updates[r])
        /\ OneItemPerUrl(validated[r])
        /\ pc[r] \in {"idle", "extract"} => updates[r] = {}

\* The counts of a run at each phase, and when it is billed.
Counts ==
    \A r \in Runs :
        /\ pc[r] \in Early \cup {"store", "brief"} => r \notin briefed
        /\ pc[r] \in {"embed", "vectors", "final"} => r \in briefed
        /\ pc[r] \in Early => stored[r] = 0 /\ published[r] = 0
        /\ pc[r] = "brief" => stored[r] = published[r]
        /\ pc[r] = "store" => stored[r] = published[r] + Cardinality(Changes(r))

\* What an open transaction of the store phase holds.
Uncommitted ==
    \A r \in Runs : pc[r] = "store" =>
        /\ IsFiniteSet(locked[r])
        /\ \A i \in todo[r] : i.url \notin locked[r]
        /\ \A u \in Changes(r) :
              \E i \in validated[r] : i.url = u /\ i.title = draft[r][u].title

LedgerShape == DistinctItems /\ Counts /\ Uncommitted

LEMMA ShapeInit == Init => LedgerShape
  BY FS_EmptySet DEF Init, LedgerShape, DistinctItems, Counts, Uncommitted, OneItemPerUrl, Early

\* A step that moves runs along their phases without rows, counts, or items of
\* its own keeps the shape.
LEMMA ShapeQuiet ==
    ASSUME LedgerShape,
           UNCHANGED <<news, validated, todo, draft, stored, published, briefed>>,
           \A r \in Runs :
              /\ batch'[r] \cup updates'[r] \subseteq batch[r] \cup updates[r]
              /\ \/ pc'[r] = pc[r] /\ locked'[r] = locked[r] /\ updates'[r] = updates[r]
                 \/ pc'[r] \notin Early \cup Late \cup {"store"}
                 \/ pc[r] = "idle" /\ pc'[r] = "extract" /\ updates'[r] = updates[r]
                 \/ pc[r] \in Early /\ pc'[r] \in Early \ {"idle", "extract"}
                 \/ pc[r] \in {"embed", "vectors"} /\ pc'[r] \in {"vectors", "final"}
    PROVE  LedgerShape'
<1> USE DEF LedgerShape
<1>1. DistinctItems'
  <2> SUFFICES ASSUME NEW r \in Runs
               PROVE  /\ OneItemPerUrl(batch[r] \cup updates[r])'
                      /\ OneItemPerUrl(validated[r])'
                      /\ pc'[r] \in {"idle", "extract"} => updates'[r] = {}
    BY DEF DistinctItems
  <2> QED BY DEF DistinctItems, OneItemPerUrl, Early, Late
<1>2. \A r \in Runs : pc'[r] = "store" =>
         pc[r] = "store" /\ locked'[r] = locked[r] /\ Changes(r)' = Changes(r)
  BY DEF Early, Changes
<1>3. Counts'
  BY <1>2 DEF Counts, Early, Late
<1>4. Uncommitted'
  BY <1>2 DEF Uncommitted
<1> QED BY <1>1, <1>3, <1>4

\* Deduplication leaves one item per url.
LEMMA ExtractedKeepsShape ==
    ASSUME IndInv, LedgerShape, NEW r \in Runs, Extracted(r)
    PROVE  LedgerShape'
<1> USE DEF LedgerShape
<1>1. PICK I \in Feeds[r] : \E D \in Deduplicated(I) :
         /\ pc[r] = "extract"
         /\ batch' = [batch EXCEPT ![r] = D]
         /\ pc' = [pc EXCEPT ![r] = IF I = {} THEN "empty" ELSE "seen"]
         /\ UNCHANGED <<database, updates, storeVars, tailVars, faultVars>>
  BY DEF Extracted
<1>2. PICK D \in Deduplicated(I) :
         /\ pc[r] = "extract"
         /\ batch' = [batch EXCEPT ![r] = D]
         /\ pc' = [pc EXCEPT ![r] = IF I = {} THEN "empty" ELSE "seen"]
         /\ UNCHANGED <<database, updates, storeVars, tailVars, faultVars>>
  BY <1>1
<1>3. OneItemPerUrl(D)
  BY DEF Deduplicated, BestPerUrl, OneItemPerUrl
<1>4. UNCHANGED <<news, updates, validated, todo, locked, draft, stored, published, briefed>>
  BY <1>2 DEF database, storeVars, tailVars
<1>5. /\ batch'[r] = D /\ pc'[r] \in {"empty", "seen"}
      /\ \A q \in Runs \ {r} : batch'[q] = batch[q] /\ pc'[q] = pc[q]
  BY <1>2 DEF IndInv, TypeOK
<1>6. updates[r] = {}
  BY <1>2 DEF DistinctItems
<1>7. DistinctItems'
  BY <1>3, <1>4, <1>5, <1>6 DEF DistinctItems, OneItemPerUrl
<1>8. \A q \in Runs : Changes(q)' = Changes(q)
  BY <1>4 DEF Changes
<1>9. Counts'
  BY <1>2, <1>4, <1>5, <1>8 DEF Counts, Early
<1>10. Uncommitted'
  BY <1>4, <1>5, <1>8 DEF Uncommitted
<1> QED BY <1>7, <1>9, <1>10

\* The accepted items are some of the batch; the transaction opens empty.
LEMMA ClassifyKeepsLedgerShape ==
    ASSUME IndInv, LedgerShape, NEW r \in Runs, Classify(r)
    PROVE  LedgerShape'
<1> USE DEF LedgerShape
<1>1. PICK V \in SUBSET {i \in batch[r] : Valid(i)} :
         /\ pc[r] = "classify"
         /\ validated' = [validated EXCEPT ![r] = V]
         /\ todo' = [todo EXCEPT ![r] = V]
         /\ pc' = [pc EXCEPT ![r] = "store"]
         /\ batch' = [batch EXCEPT ![r] = {}]
         /\ updates' = [updates EXCEPT ![r] = {}]
         /\ UNCHANGED <<database, waiting, locked, draft, pending, stored, published, tailVars,
                        faultVars>>
  BY DEF Classify
<1>2. UNCHANGED <<news, locked, draft, stored, published, briefed>>
  BY <1>1 DEF database, tailVars
<1>3. /\ validated'[r] = V /\ todo'[r] = V /\ pc'[r] = "store"
      /\ batch'[r] = {} /\ updates'[r] = {}
  BY <1>1 DEF IndInv, TypeOK
<1>4. \A q \in Runs \ {r} :
         /\ validated'[q] = validated[q] /\ todo'[q] = todo[q] /\ pc'[q] = pc[q]
         /\ batch'[q] = batch[q] /\ updates'[q] = updates[q]
  BY <1>1 DEF IndInv, TypeOK
<1>5. DistinctItems'
  BY <1>3, <1>4 DEF DistinctItems, OneItemPerUrl
<1>6. locked[r] = {} /\ Changes(r)' = {}
  BY <1>1, <1>2 DEF IndInv, Locks, Changes
<1>7. \A q \in Runs : Changes(q)' = Changes(q)
  BY <1>2 DEF Changes
<1>8. Cardinality(Changes(r)') = 0 /\ IsFiniteSet(locked'[r])
  BY <1>2, <1>6, FS_EmptySet
<1>9. r \notin briefed /\ stored[r] = 0 /\ published[r] = 0
  BY <1>1 DEF Counts, Early
<1>10. Counts'
  BY <1>2, <1>3, <1>4, <1>7, <1>8, <1>9 DEF Counts, Early
<1>11. /\ IsFiniteSet(locked'[r])
       /\ \A i \in todo'[r] : i.url \notin locked'[r]
       /\ \A u \in Changes(r)' : \E i \in validated'[r] : i.url = u /\ i.title = draft'[r][u].title
  BY <1>2, <1>6, <1>8
<1>12. \A q \in Runs \ {r} :
          /\ pc'[q] = pc[q] /\ locked'[q] = locked[q] /\ todo'[q] = todo[q]
          /\ Changes(q)' = Changes(q) /\ validated'[q] = validated[q] /\ draft'[q] = draft[q]
  BY <1>2, <1>4, <1>7
<1>13. Uncommitted'
  BY <1>11, <1>12 DEF Uncommitted
<1> QED BY <1>5, <1>10, <1>13

\* A statement counts exactly when it makes its row differ from the committed
\* one, and no earlier statement of the transaction was about that row.
LEMMA StoreItemKeepsLedgerShape ==
    ASSUME IndInv, LedgerShape, NEW r \in Runs, NEW i \in todo[r], StoreItem(r, i)
    PROVE  LedgerShape'
<1> DEFINE row == Visible(r, i.url)
           new == IF Improves(row, i) THEN Merge(row, i) ELSE row
<1> USE DEF LedgerShape
<1>1. /\ pc[r] = "store"
      /\ todo' = [todo EXCEPT ![r] = @ \ {i}]
      /\ locked' = [locked EXCEPT ![r] = @ \cup {i.url}]
      /\ draft' = [draft EXCEPT ![r][i.url] = new]
      /\ stored' = [stored EXCEPT ![r] = IF Improves(row, i) THEN @ + 1 ELSE @]
      /\ UNCHANGED <<database, pc, filterVars, validated, published, tailVars, faultVars>>
  BY DEF StoreItem
<1>2. UNCHANGED <<news, pc, batch, updates, validated, published, briefed>>
  BY <1>1 DEF database, filterVars, tailVars
<1>3. i \in validated[r] /\ i \in Storable /\ i.url \in Urls
  BY DEF IndInv, TypeOK, RowsComeLast, Storable
<1>4. i.url \notin locked[r] /\ row = news[i.url]
  BY <1>1 DEF Uncommitted, Visible
<1>5. row \in Rows \cup {NoRow}
  BY <1>3, <1>4 DEF IndInv, TypeOK
<1>6. Improves(row, i) <=> new # row
  <2>1. CASE row = NoRow
    <3>1. Improves(row, i)
      BY <2>1 DEF Improves
    <3>2. new \in Rows
      <4> HIDE DEF IndInv, LedgerShape, row
      <4> QED BY <1>3, <1>5, UpsertGrows
    <3> HIDE DEF new
    <3> QED BY <2>1, <3>1, <3>2, PipelineAssumption
  <2>2. CASE row \in Rows /\ row # NoRow
    <3>1. row.title # i.title => Merge(row, i) # row
      BY <2>2 DEF Merge
    <3>2. ~AtLeast(row, i) => Merge(row, i) # row
      BY <2>2, <1>3 DEF Merge, Greatest, AtLeast, Rows, Storable
    <3> QED BY <2>2, <3>1, <3>2 DEF Improves
  <2> QED BY <1>5, <2>1, <2>2
<1>7. /\ todo'[r] = todo[r] \ {i}
      /\ locked'[r] = locked[r] \cup {i.url}
      /\ draft'[r][i.url] = new
      /\ \A u \in Urls \ {i.url} : draft'[r][u] = draft[r][u]
      /\ stored'[r] = IF Improves(row, i) THEN stored[r] + 1 ELSE stored[r]
  BY <1>1, <1>3 DEF IndInv, TypeOK
<1>8. \A q \in Runs \ {r} : /\ todo'[q] = todo[q] /\ locked'[q] = locked[q]
                            /\ draft'[q] = draft[q] /\ stored'[q] = stored[q]
  BY <1>1 DEF IndInv, TypeOK
<1>9. \A q \in Runs \ {r} : Changes(q)' = Changes(q)
  BY <1>2, <1>8 DEF Changes
<1>10. locked[r] \subseteq Urls
  BY DEF IndInv, TypeOK
<1>11. Changes(r)' = Changes(r) \cup (IF Improves(row, i) THEN {i.url} ELSE {})
  <2>1. \A u : u \in Changes(r)' <=> u \in locked[r] \cup {i.url} /\ draft'[r][u] # news[u]
    BY <1>2, <1>7 DEF Changes
  <2>2. i.url \in Changes(r)' <=> Improves(row, i)
    BY <2>1, <1>4, <1>6, <1>7
  <2>3. \A u : u # i.url => (u \in Changes(r)' <=> u \in Changes(r))
    BY <2>1, <1>7, <1>10 DEF Changes
  <2>4. i.url \notin Changes(r)
    BY <1>4 DEF Changes
  <2> QED BY <2>2, <2>3, <2>4
<1>12. IsFiniteSet(locked[r]) /\ IsFiniteSet(Changes(r))
  BY <1>1, FS_Subset DEF Uncommitted, Changes
<1>13. Cardinality(Changes(r)') = IF Improves(row, i) THEN Cardinality(Changes(r)) + 1
                                  ELSE Cardinality(Changes(r))
  <2>1. i.url \notin Changes(r)
    BY <1>4 DEF Changes
  <2>2. Cardinality(Changes(r) \cup {i.url}) = Cardinality(Changes(r)) + 1
    BY <1>12, <2>1, FS_AddElement
  <2> HIDE DEF row
  <2> QED BY <1>11, <2>2
<1>14. DistinctItems'
  BY <1>2 DEF DistinctItems
<1>15. stored'[r] = published'[r] + Cardinality(Changes(r)')
  <2>1. stored[r] = published[r] + Cardinality(Changes(r))
    BY <1>1 DEF Counts
  <2>2. stored[r] \in Nat /\ published[r] \in Nat /\ Cardinality(Changes(r)) \in Nat
    BY <1>12, FS_CardinalityType DEF IndInv, TypeOK
  <2> HIDE DEF row
  <2> QED BY <2>1, <2>2, <1>2, <1>7, <1>13
<1>16. Counts'
  <2> HIDE DEF new
  <2> QED BY <1>1, <1>2, <1>8, <1>9, <1>15 DEF Counts, Early
<1>17. IsFiniteSet(locked'[r])
  <2>1. IsFiniteSet(locked[r] \cup {i.url})
    BY <1>12, FS_AddElement
  <2> QED BY <2>1, <1>7
<1>18. \A j \in todo'[r] : j.url \notin locked'[r]
  <2> SUFFICES ASSUME NEW j \in todo[r], j # i
               PROVE  j.url \notin locked[r] \cup {i.url}
    BY <1>7
  <2>1. j \in validated[r] /\ j.url \in Urls
    BY DEF IndInv, TypeOK, RowsComeLast, Storable
  <2>2. j.url # i.url
    BY <2>1, <1>3 DEF DistinctItems, OneItemPerUrl
  <2> QED BY <2>2, <1>1 DEF Uncommitted
<1>19. \A u \in Changes(r)' : \E j \in validated[r] : j.url = u /\ j.title = draft'[r][u].title
  <2> SUFFICES ASSUME NEW u \in Changes(r)'
               PROVE  \E j \in validated[r] : j.url = u /\ j.title = draft'[r][u].title
    OBVIOUS
  <2>1. CASE u # i.url
    <3>1. u \in Changes(r) /\ u \in Urls
      BY <2>1, <1>11, <1>10 DEF Changes
    <3> QED BY <3>1, <2>1, <1>1, <1>7 DEF Uncommitted
  <2>2. CASE u = i.url
    <3>1. Improves(row, i)
      BY <2>2, <1>11, <1>4 DEF Changes
    <3>2. draft'[r][u].title = i.title
      BY <3>1, <2>2, <1>7 DEF Merge, RowOf
    <3> QED BY <3>2, <2>2, <1>3
  <2> QED BY <2>1, <2>2
<1>20. Uncommitted'
  BY <1>2, <1>8, <1>9, <1>17, <1>18, <1>19 DEF Uncommitted
<1> QED BY <1>14, <1>16, <1>20

\* A commit publishes the open transaction and starts an empty one.
LEMMA CommitKeepsLedgerShape ==
    ASSUME IndInv, LedgerShape, NEW r \in Runs, CommitStore(r)
    PROVE  LedgerShape'
<1> USE DEF LedgerShape
<1>1. /\ pc[r] = "store"
      /\ news' = [u \in Urls |-> IF u \in locked[r] THEN draft[r][u] ELSE news[u]]
      /\ locked' = [locked EXCEPT ![r] = {}]
      /\ published' = [published EXCEPT ![r] = stored[r]]
      /\ pc' = [pc EXCEPT ![r] = IF todo[r] = {} THEN "brief" ELSE "store"]
      /\ UNCHANGED <<batch, updates, validated, todo, draft, stored, briefed>>
  BY DEF CommitStore, filterVars, tailVars
<1>2. /\ locked'[r] = {} /\ published'[r] = stored[r] /\ pc'[r] \in {"brief", "store"}
      /\ \A q \in Runs \ {r} :
            locked'[q] = locked[q] /\ published'[q] = published[q] /\ pc'[q] = pc[q]
  BY <1>1 DEF IndInv, TypeOK
<1>3. DistinctItems'
  BY <1>1, <1>2 DEF DistinctItems
<1>4. \A q \in Runs \ {r} : Changes(q)' = Changes(q)
  <2> SUFFICES ASSUME NEW q \in Runs \ {r} PROVE Changes(q)' = Changes(q)
    OBVIOUS
  <2>1. \A u \in locked[q] : u \in Urls /\ u \notin locked[r]
    BY DEF IndInv, TypeOK, Locks
  <2> QED BY <1>1, <1>2, <2>1 DEF Changes
<1>5. Changes(r)' = {} /\ Cardinality(Changes(r)') = 0 /\ IsFiniteSet(locked'[r])
  <2>1. Changes(r)' = {}
    BY <1>2 DEF Changes
  <2> QED BY <2>1, <1>2, FS_EmptySet
<1>6. stored[r] \in Nat /\ r \notin briefed
  BY <1>1 DEF IndInv, TypeOK, Counts
<1>7. stored'[r] = published'[r] /\ stored'[r] = published'[r] + Cardinality(Changes(r)')
  BY <1>1, <1>2, <1>5, <1>6
<1>8. Counts'
  <2>1. \A q \in Runs \ {r} :
           /\ pc'[q] = pc[q] /\ stored'[q] = stored[q] /\ published'[q] = published[q]
           /\ Changes(q)' = Changes(q) /\ (q \in briefed' <=> q \in briefed)
    BY <1>1, <1>2, <1>4
  <2>2. r \notin briefed' /\ pc'[r] \in {"brief", "store"}
    BY <1>1, <1>2, <1>6
  <2>3. /\ pc'[r] \notin Early \cup {"embed", "vectors", "final"}
        /\ pc'[r] \in {"store", "brief"} /\ r \notin briefed'
    BY <2>2 DEF Early
  <2> SUFFICES ASSUME NEW q \in Runs
               PROVE  /\ pc'[q] \in Early \cup {"store", "brief"} => q \notin briefed'
                      /\ pc'[q] \in {"embed", "vectors", "final"} => q \in briefed'
                      /\ pc'[q] \in Early => stored'[q] = 0 /\ published'[q] = 0
                      /\ pc'[q] = "brief" => stored'[q] = published'[q]
                      /\ pc'[q] = "store" =>
                            stored'[q] = published'[q] + Cardinality(Changes(q)')
    BY DEF Counts
  <2>4. CASE q = r
    BY <1>7, <2>3, <2>4
  <2>5. CASE q # r
    BY <2>1, <2>5 DEF Counts
  <2> QED BY <2>4, <2>5
<1>9. /\ IsFiniteSet(locked'[r])
      /\ \A i \in todo'[r] : i.url \notin locked'[r]
      /\ \A u \in Changes(r)' : \E i \in validated'[r] : i.url = u /\ i.title = draft'[r][u].title
  BY <1>2, <1>5
<1>10. Uncommitted'
  BY <1>1, <1>2, <1>4, <1>9 DEF Uncommitted
<1> QED BY <1>3, <1>8, <1>10

\* The briefing of a run is written once, between the store and the vectors.
LEMMA BriefingKeepsLedgerShape ==
    ASSUME IndInv, LedgerShape, NEW r \in Runs, SaveBriefing(r)
    PROVE  LedgerShape'
<1> USE DEF LedgerShape
<1>1. /\ pc[r] = "brief"
      /\ briefed' = briefed \cup {r}
      /\ pc' = [pc EXCEPT ![r] = IF EmbeddingEnabled THEN "embed" ELSE "final"]
      /\ UNCHANGED <<news, batch, updates, validated, todo, locked, draft, stored, published>>
  BY DEF SaveBriefing, filterVars, storeVars
<1>2. /\ pc'[r] \in {"embed", "final"}
      /\ \A q \in Runs \ {r} : pc'[q] = pc[q]
  BY <1>1 DEF IndInv, TypeOK
<1>3. \A q \in Runs : Changes(q)' = Changes(q)
  BY <1>1 DEF Changes
<1>4. DistinctItems'
  BY <1>1, <1>2 DEF DistinctItems
<1>5. Counts'
  BY <1>1, <1>2, <1>3 DEF Counts, Early
<1>6. Uncommitted'
  BY <1>1, <1>2, <1>3 DEF Uncommitted
<1> QED BY <1>4, <1>5, <1>6

\* The other steps of a run only move it along its phases.
LEMMA RunKeepsLedgerShape ==
    ASSUME IndInv, LedgerShape, NEW r \in Runs,
           \/ Begin(r) \/ ReadUrls(r) \/ ReadTitles(r) \/ EmbedSelect(r) \/ EmbedStore(r)
           \/ EmbedFails(r) \/ WriteRun(r) \/ Return(r) \/ Raises(r) \/ HandleError(r)
           \/ DeadlockVictim(r) \/ HandleCancel(r)
    PROVE  LedgerShape'
<1>1. CASE Begin(r) \/ EmbedSelect(r) \/ EmbedStore(r) \/ EmbedFails(r)
  <2>1. UNCHANGED <<news, batch, updates, validated, todo, locked, draft, stored, published, briefed>>
    BY <1>1 DEF Begin, EmbedSelect, EmbedStore, EmbedFails, database, filterVars, storeVars, tailVars
  <2>2. \/ pc[r] = "idle" /\ pc' = [pc EXCEPT ![r] = "extract"]
        \/ /\ pc[r] \in {"embed", "vectors"}
           /\ \E p \in {"vectors", "final"} : pc' = [pc EXCEPT ![r] = p]
    BY <1>1 DEF Begin, EmbedSelect, EmbedStore, EmbedFails
  <2>3. \A q \in Runs : \/ pc'[q] = pc[q]
                        \/ pc[q] = "idle" /\ pc'[q] = "extract"
                        \/ pc[q] \in {"embed", "vectors"} /\ pc'[q] \in {"vectors", "final"}
    BY <2>2 DEF IndInv, TypeOK
  <2> QED BY <2>1, <2>3, ShapeQuiet
<1>2. CASE ReadUrls(r) \/ ReadTitles(r)
  <2>1. /\ UNCHANGED <<news, validated, todo, locked, draft, stored, published, briefed>>
        /\ pc[r] \in {"seen", "titles"}
        /\ \E p \in {"titles", "classify"} : pc' = [pc EXCEPT ![r] = p]
    BY <1>2 DEF ReadUrls, ReadTitles, database, storeVars, tailVars
  <2>2. /\ batch'[r] \cup updates'[r] \subseteq batch[r] \cup updates[r]
        /\ \A q \in Runs \ {r} : batch'[q] = batch[q] /\ updates'[q] = updates[q]
    <3>1. CASE ReadUrls(r)
      BY <3>1 DEF ReadUrls, IndInv, TypeOK
    <3>2. CASE ReadTitles(r)
      BY <3>2 DEF ReadTitles, IndInv, TypeOK
    <3> QED BY <1>2, <3>1, <3>2
  <2>3. /\ pc[r] \in Early /\ pc'[r] \in Early \ {"idle", "extract"}
        /\ \A q \in Runs \ {r} : pc'[q] = pc[q]
    BY <2>1 DEF IndInv, TypeOK, Early
  <2> QED BY <2>1, <2>2, <2>3, ShapeQuiet
<1>3. CASE \/ WriteRun(r) \/ Return(r) \/ Raises(r) \/ HandleError(r) \/ DeadlockVictim(r)
           \/ HandleCancel(r)
  <2>1. UNCHANGED <<news, batch, updates, validated, todo, draft, stored, published, briefed>>
    BY <1>3 DEF WriteRun, Return, Raises, HandleError, DeadlockVictim, HandleCancel, Rollback,
                database, filterVars, storeVars, tailVars
  <2>2. \E p \in {"returning", "done", "failing", "dead"} : pc' = [pc EXCEPT ![r] = p]
    BY <1>3 DEF WriteRun, Return, Raises, HandleError, DeadlockVictim, HandleCancel
  <2>3. locked' = locked \/ locked' = [locked EXCEPT ![r] = {}]
    BY <1>3 DEF WriteRun, Return, Raises, HandleError, DeadlockVictim, HandleCancel, Rollback,
                storeVars
  <2>4. /\ pc'[r] \notin Early \cup Late \cup {"store"}
        /\ \A q \in Runs \ {r} : pc'[q] = pc[q] /\ locked'[q] = locked[q]
    BY <2>2, <2>3 DEF IndInv, TypeOK, Early, Late
  <2> QED BY <2>1, <2>4, ShapeQuiet
<1> QED BY <1>1, <1>2, <1>3

LEMMA ShapeNext == IndInv /\ LedgerShape /\ [Next]_vars => LedgerShape'
<1> SUFFICES ASSUME IndInv, LedgerShape, [Next]_vars PROVE LedgerShape'
  OBVIOUS
<1>1. ASSUME NEW r \in Runs, Begin(r) \/ Proceed(r) \/ Raises(r) \/ DeadlockVictim(r)
      PROVE  LedgerShape'
  <2>1. ASSUME NEW i \in todo[r], WaitForLock(r, i) PROVE LedgerShape'
    <3>1. UNCHANGED <<news, batch, updates, validated, todo, draft, stored, published, briefed,
                      pc, locked>>
      BY <2>1 DEF WaitForLock, database, filterVars, tailVars
    <3> QED BY <3>1, ShapeQuiet
  <2>2. ASSUME NEW i \in todo[r], StoreItem(r, i) PROVE LedgerShape'
    BY <2>2, StoreItemKeepsLedgerShape
  <2>3. CASE Extracted(r) \/ Classify(r) \/ CommitStore(r) \/ SaveBriefing(r)
    BY <2>3, ExtractedKeepsShape, ClassifyKeepsLedgerShape, CommitKeepsLedgerShape,
       BriefingKeepsLedgerShape
  <2> QED BY <1>1, <2>1, <2>2, <2>3, RunKeepsLedgerShape DEF Proceed
<1>2. CASE Sigterm \/ Crash
  <2>1. UNCHANGED <<news, batch, updates, validated, todo, draft, stored, published, briefed>>
    BY <1>2 DEF Sigterm, Crash, database, filterVars, tailVars
  <2>2. \A q \in Runs : \/ pc'[q] = pc[q] /\ locked'[q] = locked[q]
                        \/ pc'[q] \notin Early \cup Late \cup {"store"}
    <3>1. CASE Sigterm
      BY <3>1 DEF Sigterm, Early, Late
    <3>2. CASE Crash
      <4>1. \A q \in Runs : locked'[q] = {} /\ (pc[q] = "idle" => locked[q] = {})
        BY <3>2 DEF Crash, IndInv, Locks
      <4>2. \A q \in Runs : (pc'[q] = pc[q] /\ pc[q] \in {"idle", "done"}) \/ pc'[q] = "dead"
        BY <3>2 DEF Crash
      <4> QED BY <4>1, <4>2 DEF Early, Late
    <3> QED BY <1>2, <3>1, <3>2
  <2> QED BY <2>1, <2>2, ShapeQuiet
<1>3. CASE (\E u \in Urls : AgeOut(u)) \/ UNCHANGED vars
  <2>1. UNCHANGED <<news, batch, updates, validated, todo, draft, stored, published, briefed,
                    pc, locked>>
    BY <1>3 DEF AgeOut, vars, database, filterVars, storeVars, tailVars
  <2> QED BY <2>1, ShapeQuiet
<1> QED BY <1>1, <1>2, <1>3 DEF Next
-----------------------------------------------------------------------------
\* The ledger counts with its own instance of FiniteSets.
LEMMA SameCount == \A S : Ledger!Cardinality(S) = Cardinality(S)
  BY Zenon DEF Cardinality, Ledger!Cardinality

\* A commit is one publication: the rows it changes are the ones it counted.
LEMMA CommitPublishes ==
    ASSUME IndInv, LedgerShape, NEW r \in Runs, CommitStore(r)
    PROVE  Ledger!Publish(r)
<1> DEFINE changed == {u \in Urls : news'[u] # news[u]}
           owed == [q \in Runs |-> IF q \in briefed THEN 0 ELSE published[q]]
<1>1. /\ pc[r] = "store"
      /\ news' = [u \in Urls |-> IF u \in locked[r] THEN draft[r][u] ELSE news[u]]
      /\ published' = [published EXCEPT ![r] = stored[r]]
      /\ UNCHANGED <<validated, briefing, briefed, log>>
  BY DEF CommitStore, tailVars
<1>2. changed = Changes(r)
  <2>1. locked[r] \subseteq Urls
    BY DEF IndInv, TypeOK
  <2> QED BY <1>1, <2>1 DEF Changes
<1>3. ASSUME NEW u \in changed
      PROVE  \E i \in validated[r] : i.url = u /\ news'[u].title = i.title
  <2>1. u \in Changes(r) /\ news'[u] = draft[r][u]
    BY <1>1, <1>2, <1>3 DEF Changes
  <2> QED BY <2>1, <1>1 DEF LedgerShape, Uncommitted
<1>4. ASSUME NEW u \in changed, news[u] # NoRow
      PROVE  Ledger!AtLeast(news'[u], news[u])
  BY <1>4, CommittedRows DEF AtLeast, Ledger!AtLeast
<1>5. owed' = [owed EXCEPT ![r] = @ + Cardinality(changed)]
  <2>1. r \notin briefed /\ stored[r] = published[r] + Cardinality(changed)
    BY <1>1, <1>2 DEF LedgerShape, Counts
  <2>2. owed'[r] = owed[r] + Cardinality(changed)
    BY <1>1, <2>1 DEF IndInv, TypeOK
  <2>3. \A q \in Runs \ {r} : owed'[q] = owed[q]
    BY <1>1 DEF IndInv, TypeOK
  <2> HIDE DEF changed
  <2> QED BY <2>2, <2>3
<1>6. UNCHANGED <<validated, briefing, {q \in Runs : Completed(q)}>>
  BY <1>1 DEF Completed
<1>7. owed' = [owed EXCEPT ![r] = @ + Ledger!Cardinality(changed)]
  BY <1>5, SameCount
<1> QED BY <1>3, <1>4, <1>6, <1>7 DEF Ledger!Publish

\* Classification undertakes the items of a run, which has undertaken none.
LEMMA ClassifyAccepts ==
    ASSUME IndInv, NEW r \in Runs, Classify(r)
    PROVE  Ledger!Accept(r)
<1>1. \E V \in SUBSET {i \in batch[r] : Valid(i)} :
         /\ pc[r] = "classify"
         /\ validated' = [validated EXCEPT ![r] = V]
         /\ UNCHANGED <<news, briefing, log, published, briefed>>
  BY DEF Classify, database, tailVars
<1>2. validated[r] = {} /\ ~Completed(r)
  BY <1>1 DEF IndInv, RowsComeLast
<1>3. validated' \in [Runs -> SUBSET Storable]
  BY ClassifyInv DEF IndInv, TypeOK
<1>4. \A q \in Runs \ {r} : validated'[q] = validated[q]
  BY <1>1 DEF IndInv, TypeOK
<1>5. UNCHANGED <<news, [q \in Runs |-> IF q \in briefed THEN 0 ELSE published[q]], briefing,
                  {q \in Runs : Completed(q)}>>
  BY <1>1 DEF Completed
<1> QED BY <1>2, <1>3, <1>4, <1>5 DEF Ledger!Accept

\* The briefing bills what the run has committed: its counts agree by then.
LEMMA BriefingBills ==
    ASSUME IndInv, LedgerShape, NEW r \in Runs, SaveBriefing(r)
    PROVE  Ledger!Bill(r)
<1> DEFINE owed == [q \in Runs |-> IF q \in briefed THEN 0 ELSE published[q]]
<1>1. /\ pc[r] = "brief"
      /\ briefing' = briefing + stored[r]
      /\ briefed' = briefed \cup {r}
      /\ UNCHANGED <<news, validated, published, log>>
  BY DEF SaveBriefing, storeVars
<1>2. r \notin briefed /\ stored[r] = published[r]
  BY <1>1 DEF LedgerShape, Counts
<1>3. briefing' = briefing + owed[r]
  BY <1>1, <1>2
<1>4. owed' = [owed EXCEPT ![r] = 0]
  BY <1>1
<1>5. UNCHANGED <<news, validated, {q \in Runs : Completed(q)}>>
  BY <1>1 DEF Completed
<1> QED BY <1>3, <1>4, <1>5 DEF Ledger!Bill

\* A completed run is closed owing nothing; any other record closes nothing.
LEMMA WriteRunCloses ==
    ASSUME IndInv, LedgerShape, NEW r \in Runs, WriteRun(r)
    PROVE  Ledger!Close(r) \/ UNCHANGED Ledger!ledgerVars
<1> DEFINE owed == [q \in Runs |-> IF q \in briefed THEN 0 ELSE published[q]]
           closed == {q \in Runs : Completed(q)}
<1>1. /\ pc[r] \in {"final", "empty"}
      /\ log' = log \cup {<<r, IF pc[r] = "empty" THEN "empty"
                               ELSE IF r \in failed THEN "degraded" ELSE "success">>}
      /\ UNCHANGED <<news, validated, published, briefed, briefing>>
  BY DEF WriteRun, storeVars, tailVars
<1>2. UNCHANGED <<news, validated, owed, briefing>>
  BY <1>1
<1>3. CASE pc[r] = "empty"
  <2>1. closed' = closed
    BY <1>1, <1>3 DEF Completed
  <2> QED BY <1>2, <2>1 DEF Ledger!ledgerVars
<1>4. CASE pc[r] = "final"
  <2>1. owed[r] = 0
    BY <1>4 DEF LedgerShape, Counts
  <2>2. \A i \in validated[r] : news[i.url] # NoRow /\ Ledger!AtLeast(news[i.url], i)
    BY <1>4 DEF IndInv, HandledItems, Carries, AtLeast, Ledger!AtLeast
  <2>3. closed' = closed \cup {r}
    BY <1>1, <1>4 DEF Completed
  <2> QED BY <1>2, <2>1, <2>2, <2>3 DEF Ledger!Close
<1> QED BY <1>1, <1>3, <1>4

\* Every other step of a run happens below the ledger, its failures included.
LEMMA OtherStepsStutter ==
    ASSUME NEW r \in Runs,
           \/ Begin(r) \/ Extracted(r) \/ ReadUrls(r) \/ ReadTitles(r)
           \/ (\E i \in todo[r] : WaitForLock(r, i) \/ StoreItem(r, i))
           \/ EmbedSelect(r) \/ EmbedStore(r) \/ EmbedFails(r) \/ Return(r) \/ Raises(r)
           \/ HandleError(r) \/ DeadlockVictim(r) \/ HandleCancel(r)
    PROVE  UNCHANGED Ledger!ledgerVars
<1>1. UNCHANGED <<news, validated, published, briefed, briefing>>
  BY DEF Begin, Extracted, ReadUrls, ReadTitles, WaitForLock, StoreItem, EmbedSelect, EmbedStore,
         EmbedFails, Return, Raises, HandleError, DeadlockVictim, HandleCancel, Rollback,
         database, storeVars, tailVars
<1>2. \E b \in {"error", "interrupted"} : log' = log \/ log' = log \cup {<<r, b>>}
  BY DEF Begin, Extracted, ReadUrls, ReadTitles, WaitForLock, StoreItem, EmbedSelect, EmbedStore,
         EmbedFails, Return, Raises, HandleError, DeadlockVictim, HandleCancel, database
<1>3. \A q \in Runs : Completed(q)' <=> Completed(q)
  BY <1>2 DEF Completed
<1> QED BY <1>1, <1>3 DEF Ledger!ledgerVars

\* The runs implement the ledger: each change of the table is published by a
\* run that undertook it and billed once, and only a settled run is closed,
\* wherever the other runs stand and whatever fails.
THEOREM PipelineImplementsLedger == Spec => LedgerSpec
<1>1. Init => Ledger!Init
  BY DEF Init, Ledger!Init, Completed
<1>2. IndInv /\ LedgerShape /\ [Next]_vars => [Ledger!Next]_(Ledger!ledgerVars)
  <2> SUFFICES ASSUME IndInv, LedgerShape, [Next]_vars
               PROVE  Ledger!Next \/ UNCHANGED Ledger!ledgerVars
    OBVIOUS
  <2>1. ASSUME NEW r \in Runs, CommitStore(r) PROVE Ledger!Next
    BY <2>1, CommitPublishes DEF Ledger!Next
  <2>2. ASSUME NEW r \in Runs, Classify(r) PROVE Ledger!Next
    BY <2>2, ClassifyAccepts DEF Ledger!Next
  <2>3. ASSUME NEW r \in Runs, SaveBriefing(r) PROVE Ledger!Next
    BY <2>3, BriefingBills DEF Ledger!Next
  <2>4. ASSUME NEW r \in Runs, WriteRun(r) PROVE Ledger!Next \/ UNCHANGED Ledger!ledgerVars
    BY <2>4, WriteRunCloses DEF Ledger!Next
  <2>5. CASE \E r \in Runs : Begin(r) \/ Proceed(r) \/ Raises(r) \/ DeadlockVictim(r)
    BY <2>5, <2>1, <2>2, <2>3, <2>4, OtherStepsStutter DEF Proceed
  <2>6. CASE Sigterm \/ Crash \/ (\E u \in Urls : AgeOut(u)) \/ UNCHANGED vars
    BY <2>6 DEF Sigterm, Crash, AgeOut, vars, database, storeVars, tailVars, Completed,
                Ledger!ledgerVars
  <2> QED BY <2>5, <2>6 DEF Next
<1> QED BY <1>1, <1>2, Inductive, ShapeInit, ShapeNext, PTL DEF Spec, LedgerSpec, Ledger!Spec
=============================================================================
