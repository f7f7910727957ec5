--------------------------- MODULE BackfillProofs ---------------------------
(***************************************************************************)
(* Proofs about Backfill for any history, any sizes of chunks and batches, *)
(* any budget and any number of restarts: the checkpoint is never ahead of *)
(* the table, an extraction that ends has read all of history, and one     *)
(* process overruns its budget by less than the batches at the LLM.        *)
(***************************************************************************)
EXTENDS Backfill, FiniteSetTheorems, WellFoundedInduction, TLAPS

\* The well-founded order of FiniteSetTheorems is strict inclusion.
LEMMA StrictInclusion ==
    ASSUME NEW U, NEW S \in SUBSET U, NEW T \in SUBSET U, S \subseteq T, S # T
    PROVE  <<S, T>> \in StrictSubsetOrdering(U)
  BY DEF StrictSubsetOrdering

\* The minimum of FiniteSetsExt is one: what is read next is the first that is
\* due.  Intervals of naturals are ordered by inclusion as their ends by <.
LEMMA MinOfNaturals ==
    ASSUME NEW S \in SUBSET Nat, S # {}
    PROVE  Min(S) \in S /\ \A k \in S : Min(S) <= k
<1> DEFINE Intervals == {0..k : k \in S}
<1>1. Intervals \subseteq FiniteSubsetsOf(Nat) /\ Intervals # {}
  <2>1. ASSUME NEW k \in S PROVE 0..k \in FiniteSubsetsOf(Nat)
    <3>1. IsFiniteSet(0..k)
      BY FS_Interval
    <3> QED
      BY <3>1 DEF FiniteSubsetsOf
  <2> QED
    BY <2>1
<1>2. PICK I \in Intervals : \A J \in Intervals : ~ (<<J, I>> \in StrictSubsetOrdering(Nat))
  <2> HIDE DEF Intervals
  <2> QED
    BY <1>1, FS_StrictSubsetOrderingWellFounded, WFMin
<1>3. PICK least \in S : I = 0..least
  OBVIOUS
<1>4. ASSUME NEW k \in S, k < least
      PROVE  FALSE
  <2>1. 0..k \subseteq 0..least /\ least \in 0..least /\ least \notin 0..k 
    BY <1>4
  <2>2. 0..k \in SUBSET Nat /\ 0..least \in SUBSET Nat /\ 0..k # 0..least
    BY <2>1
  <2>3. <<0..k, 0..least>> \in StrictSubsetOrdering(Nat)
    BY <2>1, <2>2, StrictInclusion
  <2> QED
    BY <1>2, <1>3, <2>3
<1>5. least \in S /\ \A k \in S : least <= k
  BY <1>4
<1> QED
  BY <1>5 DEF Min

\* Parts of a finite set are finite, and so are sets of its parts.
LEMMA FiniteParts ==
    /\ \A S \in SUBSET Items : IsFiniteSet(S) /\ Cardinality(S) \in Nat
    /\ \A F \in SUBSET SUBSET Items :
          /\ IsFiniteSet(F) /\ Cardinality(F) \in Nat
          /\ IsFiniteSet(UNION F) /\ Cardinality(UNION F) \in Nat
<1>1. \A S \in SUBSET Items : IsFiniteSet(S) /\ Cardinality(S) \in Nat
  BY FS_Subset, FS_CardinalityType, BackfillAssumption
<1>2. ASSUME NEW F \in SUBSET SUBSET Items
      PROVE  IsFiniteSet(F) /\ Cardinality(F) \in Nat
  <2>1. IsFiniteSet(SUBSET Items)
    BY FS_SUBSET, BackfillAssumption
  <2> QED
    BY <2>1, FS_Subset, FS_CardinalityType
<1>3. ASSUME NEW F \in SUBSET SUBSET Items
      PROVE  UNION F \in SUBSET Items
  OBVIOUS
<1> QED
  BY <1>1, <1>2, <1>3

\* One batch less is so much less.
LEMMA Times ==
    ASSUME NEW a \in Nat, NEW b \in Nat
    PROVE  a * b \in Nat /\ (a - 1) * b = a * b - b
  OBVIOUS

\* More slots hold more.
LEMMA MoreTimes ==
    ASSUME NEW a \in Nat, NEW b \in Nat, NEW c \in Nat, a <= b
    PROVE  a * c <= b * c
  OBVIOUS

\* Sets of at most n elements have at most n times as many elements together
\* as there are sets.  A smallest set of sets for which this fails would not
\* be empty, and it would fail for all but one of its members.
LEMMA UnionOfBounded ==
    ASSUME NEW F \in SUBSET SUBSET Items, NEW n \in Nat,
           \A S \in F : Cardinality(S) <= n
    PROVE  Cardinality(UNION F) <= Cardinality(F) * n
<1> DEFINE Failing == {G \in SUBSET SUBSET Items :
                          /\ \A S \in G : Cardinality(S) <= n
                          /\ Cardinality(UNION G) > Cardinality(G) * n}
<1>a. F \notin Failing => Cardinality(UNION F) <= Cardinality(F) * n
  <2>1. Cardinality(UNION F) \in Nat /\ Cardinality(F) * n \in Nat
    <3>1. Cardinality(UNION F) \in Nat /\ Cardinality(F) \in Nat
      BY FiniteParts
    <3> QED
      BY <3>1
  <2> QED
    BY <2>1
<1> SUFFICES ASSUME F \in Failing PROVE FALSE
  BY <1>a
<1>1. Failing \subseteq FiniteSubsetsOf(SUBSET Items)
  BY FiniteParts DEF FiniteSubsetsOf
<1>2. PICK G \in Failing : \A H \in Failing : ~ (<<H, G>> \in StrictSubsetOrdering(SUBSET Items))
  <2> HIDE DEF Failing
  <2> QED
    BY <1>1, FS_StrictSubsetOrderingWellFounded, WFMin
<1>3. G # {}
  BY FS_EmptySet, FiniteParts
<1>4. PICK S \in G : TRUE
  BY <1>3
<1> DEFINE H == G \ {S}
<1>5. H \in SUBSET SUBSET Items /\ Cardinality(H) = Cardinality(G) - 1
  BY <1>4, FiniteParts, FS_RemoveElement
<1>6. Cardinality(UNION G) <= Cardinality(UNION H) + Cardinality(S)
  <2>1. UNION G = (UNION H) \cup S
    BY <1>4
  <2>2. IsFiniteSet(UNION H) /\ IsFiniteSet(S) /\ S \in SUBSET Items
    BY <1>4, <1>5, FiniteParts
  <2>3. /\ Cardinality((UNION H) \cap S) \in Nat
        /\ Cardinality(UNION H) \in Nat
        /\ Cardinality(S) \in Nat
    BY <2>2, <1>5, FiniteParts
  <2>4. Cardinality((UNION H) \cup S) =
           Cardinality(UNION H) + Cardinality(S) - Cardinality((UNION H) \cap S)
    <3> HIDE DEF H
    <3> QED BY <2>2, FS_Union
  <2>5. Cardinality((UNION H) \cup S) <= Cardinality(UNION H) + Cardinality(S)
    <3> HIDE DEF H
    <3> QED BY <2>3, <2>4
  <2> QED
    BY <2>1, <2>5
<1>7. Cardinality(S) <= n /\ Cardinality(S) \in Nat
  BY <1>4, FiniteParts
<1>8. /\ (Cardinality(G) - 1) * n = Cardinality(G) * n - n
      /\ Cardinality(G) * n \in Nat
  <2>1. Cardinality(G) \in Nat
    BY FiniteParts
  <2> QED
    BY <2>1, Times
<1>9. H \in Failing
  <2>1. Cardinality(UNION H) \in Nat /\ Cardinality(UNION G) \in Nat
    BY <1>5, FiniteParts
  <2>2. Cardinality(UNION G) > Cardinality(G) * n
    OBVIOUS
  <2>3. Cardinality(UNION H) > Cardinality(G) * n - n
    BY <1>6, <1>7, <1>8, <2>1, <2>2
  <2> QED
    BY <1>5, <1>8, <2>3
<1>10. <<H, G>> \in StrictSubsetOrdering(SUBSET Items)
  BY <1>4, StrictInclusion
<1> QED
  BY <1>2, <1>9, <1>10

-----------------------------------------------------------------------------
\* What is read next is a month of a source, the first of it that is due.
LEMMA ReadingIsOfMonth ==
    ASSUME TypeOK, Unread # {}
    PROVE  /\ Current \in SourceSet
           /\ NextMonth \in Due(Current)
           /\ \A m \in Due(Current) : NextMonth <= m
<1>1. Unread \in SUBSET Nat
  BY BackfillAssumption DEF Unread
<1>2. Min(Unread) \in Unread
  BY <1>1, MinOfNaturals
<1>3. Current \in SourceSet /\ Due(Current) # {}
  BY <1>2, BackfillAssumption DEF Unread, Current, SourceSet, ToSet
<1>4. Due(Current) \in SUBSET Nat
  BY DEF Due, Months
<1> QED
  BY <1>3, <1>4, MinOfNaturals DEF NextMonth

\* Budgets, sizes and limits are natural numbers.
LEMMA Sizes ==
    /\ LastMonth \in Nat /\ MaxItems \in Nat /\ MaxStarts \in Nat
    /\ StoreBatch \in Nat /\ MaxCost \in Nat /\ BatchSize \in Nat /\ Concurrency \in Nat
    /\ MaxCost > 0 /\ BatchSize > 0 /\ Concurrency > 0
  BY BackfillAssumption

\* So is what a process may spend.
LEMMA OvershootIsNat == Overshoot \in Nat
<1>1. Concurrency * BatchSize \in Nat
  BY Sizes, Times
<1> QED
  BY <1>1, Sizes DEF Overshoot

\* The files and chunks of the model contain items only.
LEMMA PublishedAreItems ==
    ASSUME NEW s \in SourceSet, NEW m \in Months
    PROVE  Published[s][m] \subseteq Items
  BY DEF Items

\* A process without a checkpoint has read nothing and spent nothing.
LEMMA FreshIsEmpty ==
    /\ Fresh \in Checkpoints
    /\ Fresh.cost = 0
    /\ \A s \in SourceSet : Fresh.last[s] = 0
  BY Sizes DEF Fresh, Checkpoints

\* The invariant holds at the start.
LEMMA InitInv == Init => IndInv
<1> SUFFICES ASSUME Init PROVE IndInv
  OBVIOUS
<1>1. /\ raw = {} /\ news = PipelineRows /\ file = Fresh /\ memory = Fresh
      /\ pending = {} /\ stored = 0 /\ queue = {} /\ flying = {} /\ accepted = {}
      /\ spent = 0 /\ stopped = FALSE /\ pc = "unstarted" /\ starts = 0 /\ paid = 0
  BY DEF Init
<1>2. TypeOK
  <2>1. news \subseteq Rows
    BY <1>1 DEF Rows
  <2>2. file \in Checkpoints /\ memory \in Checkpoints
    BY <1>1, FreshIsEmpty
  <2>3. starts \in 0..MaxStarts /\ pc \in Alive \cup Ended
    BY <1>1, Sizes DEF Ended
  <2> QED
    BY <1>1, <2>1, <2>2, <2>3 DEF TypeOK
<1>3. CheckpointIsBehind
  BY <1>1, FreshIsEmpty DEF CheckpointIsBehind, Months
<1>4. ExtractionShape
  BY <1>1 DEF ExtractionShape
<1>5. BudgetHolds /\ BatchesFit
  <2>1. Cardinality(UNION flying) = 0
    BY <1>1, FS_EmptySet
  <2> QED
    BY <1>1, <2>1, FreshIsEmpty, OvershootIsNat DEF BudgetHolds, BatchesFit
<1>6. OnePlace
  <2>1. Cardinality(flying) = 0
    BY <1>1, FS_EmptySet
  <2> QED
    BY <1>1, <2>1, Sizes DEF OnePlace, Extracting
<1> QED
  BY <1>2, <1>3, <1>4, <1>5, <1>6 DEF IndInv

\* A process that resumes takes over the file, any other forgets it.
LEMMA StartInv ==
    ASSUME IndInv, NEW resume \in BOOLEAN, Start(resume)
    PROVE  IndInv'
<1> USE DEF IndInv
<1>1. /\ raw' = raw /\ news' = news /\ file' = file
      /\ memory' = file \/ memory' = Fresh
      /\ stored' = 0 /\ pending' = {} /\ queue' = {} /\ flying' = {} /\ accepted' = {}
      /\ stopped' = FALSE /\ pc' = "extract" /\ spent' = memory'.cost
      /\ paid' = paid \/ paid' = 0
      /\ starts' = starts + 1 /\ starts < MaxStarts
  BY DEF Start, persistent
<1>2. memory' \in Checkpoints
  BY <1>1, FreshIsEmpty DEF TypeOK
<1>3. memory'.cost \in Nat
  BY <1>2 DEF Checkpoints
<1>4. memory'.cost <= Overshoot
  BY <1>1, FreshIsEmpty, OvershootIsNat DEF BudgetHolds
<1>5. TypeOK'
  <2>1. starts' \in 0..MaxStarts /\ pc' \in Alive \cup Ended
    BY <1>1, Sizes DEF Alive, Extracting, TypeOK
  <2>2. file' \in Checkpoints /\ paid' \in Nat /\ spent' \in Nat
    BY <1>1, <1>3 DEF TypeOK
  <2>3. raw' \subseteq Items /\ news' \subseteq Rows
    BY <1>1 DEF TypeOK
  <2> QED
    BY <1>1, <1>2, <2>1, <2>2, <2>3 DEF TypeOK
<1>6. CheckpointIsBehind'
  BY <1>1, FreshIsEmpty DEF CheckpointIsBehind, Months
<1>7. ExtractionShape'
  BY <1>1 DEF ExtractionShape
<1>8. BudgetHolds' /\ BatchesFit'
  <2>1. Cardinality(UNION flying') = 0
    BY <1>1, FS_EmptySet
  <2> QED
    BY <1>1, <1>3, <1>4, <2>1, OvershootIsNat DEF BudgetHolds, BatchesFit, Overshoot
<1>9. OnePlace'
  <2>1. Cardinality(flying') = 0
    BY <1>1, FS_EmptySet
  <2> QED
    BY <1>1, <2>1, Sizes DEF OnePlace, Extracting
<1> QED
  BY <1>5, <1>6, <1>7, <1>8, <1>9

\* What is to be read depends on the checkpoint in memory only.
LEMMA SameMemory ==
    ASSUME memory' = memory
    PROVE  Unread' = Unread /\ Current' = Current /\ NextMonth' = NextMonth
  BY DEF Unread, Due, Current, NextMonth

\* The classification is left alone by the steps of the extraction.
LEMMA SameClassification ==
    ASSUME IndInv, UNCHANGED <<classification, memory, file>>, pc \in Extracting
    PROVE  BudgetHolds' /\ OnePlace' /\ BatchesFit'
<1>1. /\ queue' = queue /\ flying' = flying /\ accepted' = accepted
      /\ spent' = spent /\ memory' = memory /\ file' = file
  BY DEF classification
<1> QED
  BY <1>1 DEF IndInv, BudgetHolds, OnePlace, BatchesFit, Overshoot, Extracting

\* A month that is fetched is on its way.
LEMMA FetchMonthInv ==
    ASSUME IndInv, FetchMonth
    PROVE  IndInv'
<1> USE DEF IndInv
<1>1. /\ pc = "extract" /\ pc' = "store_month" /\ Unread # {}
      /\ pending' = Published[Current][NextMonth]
      /\ raw' = raw /\ news' = news /\ file' = file /\ memory' = memory /\ stored' = stored
      /\ UNCHANGED classification /\ starts' = starts /\ paid' = paid
  BY DEF FetchMonth, persistent
<1>2. pending' \subseteq Items
  BY <1>1, ReadingIsOfMonth, PublishedAreItems DEF Due
<1>3. TypeOK'
  BY <1>1, <1>2 DEF TypeOK, classification, Alive, Extracting
<1>4. CheckpointIsBehind'
  BY <1>1 DEF CheckpointIsBehind
<1>5. ExtractionShape'
  BY <1>1, SameMemory DEF ExtractionShape
<1>6. BudgetHolds' /\ OnePlace' /\ BatchesFit'
  BY <1>1, SameClassification DEF Extracting
<1> QED
  BY <1>3, <1>4, <1>5, <1>6

\* Models are read when nothing is left to read by month.
LEMMA FetchModelsInv ==
    ASSUME IndInv, FetchModels
    PROVE  IndInv'
<1> USE DEF IndInv
<1>1. /\ pc = "extract" /\ pc' = "store_models" /\ Unread = {}
      /\ pending' \in SUBSET Models
      /\ raw' = raw /\ news' = news /\ file' = file /\ memory' = memory /\ stored' = stored
      /\ UNCHANGED classification /\ starts' = starts /\ paid' = paid
  BY DEF FetchModels, persistent
<1>2. pending' \subseteq Items
  BY <1>1 DEF Items
<1>3. TypeOK'
  BY <1>1, <1>2 DEF TypeOK, classification, Alive, Extracting
<1>4. CheckpointIsBehind'
  BY <1>1 DEF CheckpointIsBehind
<1>5. ExtractionShape'
  BY <1>1, SameMemory DEF ExtractionShape
<1>6. BudgetHolds' /\ OnePlace' /\ BatchesFit'
  BY <1>1, SameClassification DEF Extracting
<1> QED
  BY <1>3, <1>4, <1>5, <1>6

\* A chunk moves from what is fetched to the table.
LEMMA StoreChunkInv ==
    ASSUME IndInv, StoreChunk
    PROVE  IndInv'
<1> USE DEF IndInv
<1>1. PICK chunk \in SUBSET pending :
         /\ raw' = raw \cup chunk
         /\ stored' = stored + Cardinality(chunk \ raw)
         /\ pending' = pending \ chunk
  BY DEF StoreChunk
<1>2. /\ pc' = pc /\ pc \in {"store_month", "store_models"}
      /\ news' = news /\ file' = file /\ memory' = memory
      /\ UNCHANGED classification /\ starts' = starts /\ paid' = paid
  BY DEF StoreChunk, Storing
<1>3. Cardinality(chunk \ raw) \in Nat
  BY <1>1, FiniteParts DEF TypeOK
<1>4. TypeOK'
  <2>1. raw' \subseteq Items /\ pending' \subseteq Items
    BY <1>1 DEF TypeOK
  <2>2. stored' \in Nat
    BY <1>1, <1>3 DEF TypeOK
  <2> QED
    BY <1>2, <2>1, <2>2 DEF TypeOK, classification
<1>5. CheckpointIsBehind'
  BY <1>1, <1>2 DEF CheckpointIsBehind
<1>6. ExtractionShape'
  <2>1. pending \cup raw \subseteq pending' \cup raw'
    BY <1>1
  <2> QED
    BY <1>2, <2>1, SameMemory DEF ExtractionShape
<1>7. BudgetHolds' /\ OnePlace' /\ BatchesFit'
  BY <1>2, SameClassification DEF Extracting
<1> QED
  BY <1>4, <1>5, <1>6, <1>7

\* A month is marked when all of it is in the table, and no month is passed over.
LEMMA SaveMonthInv ==
    ASSUME IndInv, Save, pc = "store_month"
    PROVE  IndInv'
<1> USE DEF IndInv
<1>1. /\ pending = {} /\ pc' = "extract"
      /\ memory' = [memory EXCEPT !.last[Current] = NextMonth]
      /\ file' = memory'
      /\ raw' = raw /\ news' = news /\ pending' = pending /\ stored' = stored
      /\ UNCHANGED classification /\ starts' = starts /\ paid' = paid
  BY DEF Save, Mark
<1>2. /\ Unread # {} /\ Published[Current][NextMonth] \subseteq raw
  BY <1>1 DEF ExtractionShape
<1>3. /\ Current \in SourceSet
      /\ NextMonth \in Months /\ NextMonth > memory.last[Current]
      /\ \A m \in Months : m > memory.last[Current] => NextMonth <= m
  BY <1>2, ReadingIsOfMonth DEF Due
<1>4. /\ memory' \in Checkpoints
      /\ memory'.cost = memory.cost
      /\ \A s \in SourceSet :
            memory'.last[s] = IF s = Current THEN NextMonth ELSE memory.last[s]
  <2>1. NextMonth \in 0..LastMonth
    BY <1>3, Sizes DEF Months
  <2>2. memory.last \in [SourceSet -> 0..LastMonth] /\ memory.cost \in Nat
    BY DEF TypeOK, Checkpoints
  <2>3. memory' = [last |-> [memory.last EXCEPT ![Current] = NextMonth], cost |-> memory.cost]
    BY <1>1 DEF TypeOK, Checkpoints
  <2>4. [memory.last EXCEPT ![Current] = NextMonth] \in [SourceSet -> 0..LastMonth]
    BY <2>1, <2>2
  <2> QED
    BY <1>3, <2>2, <2>3, <2>4 DEF Checkpoints
<1>5. TypeOK'
  BY <1>1, <1>4 DEF TypeOK, classification, Alive, Extracting
<1>6. CheckpointIsBehind'
  <2> SUFFICES ASSUME NEW s \in SourceSet, NEW m \in Months, m <= memory'.last[s]
               PROVE  Published[s][m] \subseteq raw
    BY <1>1 DEF CheckpointIsBehind
  <2>1. CASE m <= memory.last[s]
    BY <2>1 DEF CheckpointIsBehind
  <2>2. CASE ~(m <= memory.last[s])
    <3>1. s = Current /\ m <= NextMonth
      BY <1>4, <2>2
    <3>2. m > memory.last[Current]
      BY <2>2, <3>1, Sizes DEF TypeOK, Checkpoints, Months
    <3>3. m = NextMonth
      BY <1>3, <3>1, <3>2, Sizes DEF Months
    <3> QED
      BY <1>2, <3>1, <3>3
  <2> QED
    BY <2>1, <2>2
<1>7. ExtractionShape'
  BY <1>1 DEF ExtractionShape
<1>8. BudgetHolds' /\ OnePlace' /\ BatchesFit'
  BY <1>1, <1>4 DEF BudgetHolds, OnePlace, BatchesFit, classification, Overshoot, Extracting
<1> QED
  BY <1>5, <1>6, <1>7, <1>8

\* After the models the checkpoint is saved as it is.
LEMMA SaveModelsInv ==
    ASSUME IndInv, Save, pc = "store_models"
    PROVE  IndInv'
<1> USE DEF IndInv
<1>1. /\ pc' = "load" /\ memory' = memory /\ file' = memory
      /\ raw' = raw /\ news' = news /\ pending' = pending /\ stored' = stored
      /\ UNCHANGED classification /\ starts' = starts /\ paid' = paid
  BY DEF Save, Mark
<1>2. TypeOK'
  BY <1>1 DEF TypeOK, classification, Alive, Extracting
<1>3. CheckpointIsBehind'
  BY <1>1 DEF CheckpointIsBehind
<1>4. ExtractionShape'
  BY <1>1, SameMemory DEF ExtractionShape
<1>5. BudgetHolds' /\ OnePlace' /\ BatchesFit'
  BY <1>1 DEF BudgetHolds, OnePlace, BatchesFit, classification, Overshoot, Extracting
<1> QED
  BY <1>2, <1>3, <1>4, <1>5

\* With --max-items stored the extraction ends wherever it is.
LEMMA ExtractedEnoughInv ==
    ASSUME IndInv, ExtractedEnough
    PROVE  IndInv'
<1> USE DEF IndInv
<1>1. /\ pc = "extract" /\ pc' = "load" /\ stored >= MaxItems
      /\ UNCHANGED <<persistent, extraction, classification, starts, paid>>
  BY DEF ExtractedEnough
<1>2. TypeOK'
  BY <1>1 DEF TypeOK, persistent, extraction, classification, Alive, Extracting
<1>3. CheckpointIsBehind'
  BY <1>1 DEF CheckpointIsBehind, persistent, extraction
<1>4. ExtractionShape'
  BY <1>1, Sizes DEF ExtractionShape, extraction, TypeOK
<1>5. BudgetHolds' /\ OnePlace' /\ BatchesFit'
  BY <1>1, SameClassification DEF persistent, extraction, Extracting
<1> QED
  BY <1>2, <1>3, <1>4, <1>5

-----------------------------------------------------------------------------
\* The extraction is left alone by the steps of the classification.
LEMMA SameExtraction ==
    ASSUME IndInv, UNCHANGED <<raw, file, extraction>>,
           pc \in {"load", "batches", "insert"},
           pc' \in {"load", "batches", "insert", "done", "failed", "killed"}
    PROVE  CheckpointIsBehind' /\ ExtractionShape'
<1>1. memory' = memory /\ raw' = raw /\ file' = file /\ stored' = stored
  BY DEF extraction
<1>2. CheckpointIsBehind'
  BY <1>1 DEF IndInv, CheckpointIsBehind
<1>3. ExtractionShape'
  BY <1>1, SameMemory DEF IndInv, ExtractionShape
<1> QED
  BY <1>2, <1>3

\* The classification starts with nothing at the LLM and nothing accepted.
LEMMA LoadInv ==
    ASSUME IndInv, Load
    PROVE  IndInv'
<1> USE DEF IndInv
<1>1. /\ pc = "load" /\ pc' = "batches"
      /\ UNCHANGED <<persistent, extraction, flying, accepted, spent, stopped, starts, paid>>
  BY DEF Load
<1>2. queue' \subseteq Items
  <2>1. queue' \subseteq {i \in raw \cap Relevant : Row(i) \notin news}
    BY DEF Load
  <2> QED
    BY <2>1 DEF TypeOK
<1>3. TypeOK'
  BY <1>1, <1>2 DEF TypeOK, persistent, extraction, Alive, Extracting
<1>4. CheckpointIsBehind' /\ ExtractionShape'
  BY <1>1, SameExtraction DEF persistent
<1>5. BudgetHolds' /\ BatchesFit'
  BY <1>1 DEF BudgetHolds, BatchesFit, persistent, extraction, Overshoot
<1>6. OnePlace'
  <2>1. flying = {} /\ accepted = {}
    BY <1>1 DEF OnePlace, Extracting
  <2> QED
    BY <1>1, <2>1 DEF OnePlace, Extracting
<1> QED
  BY <1>3, <1>4, <1>5, <1>6

\* A batch that starts is charged when it comes back: all that is at the LLM
\* then fits into the slots, and the budget was not used up.
LEMMA StartBatchInv ==
    ASSUME IndInv, StartBatch
    PROVE  IndInv'
<1> USE DEF IndInv
<1>1. PICK batch \in SUBSET queue :
         /\ batch # {}
         /\ \/ Cardinality(batch) = BatchSize
            \/ batch = queue /\ Cardinality(batch) < BatchSize
         /\ flying' = flying \cup {batch}
         /\ queue' = queue \ batch
  BY DEF StartBatch
<1>2. /\ pc = "batches" /\ pc' = pc /\ Cardinality(flying) < Concurrency /\ spent < MaxCost
      /\ UNCHANGED <<persistent, extraction, accepted, spent, stopped, starts, paid>>
  BY DEF StartBatch, SlotFree, MayStart
<1>3. queue' \subseteq Items /\ flying' \in SUBSET SUBSET Items
  BY <1>1 DEF TypeOK
<1>4. TypeOK'
  BY <1>2, <1>3 DEF TypeOK, persistent, extraction
<1>5. CheckpointIsBehind' /\ ExtractionShape'
  BY <1>2, SameExtraction DEF persistent
<1>6. Cardinality(flying') <= Concurrency
  <2>1. IsFiniteSet(flying) /\ Cardinality(flying) \in Nat
    BY FiniteParts DEF TypeOK
  <2>2. Cardinality(flying') \in {Cardinality(flying), Cardinality(flying) + 1}
    BY <1>1, <2>1, FS_AddElement
  <2> QED
    BY <1>2, <2>1, <2>2, Sizes
<1>7. \A b \in flying' : Cardinality(b) <= BatchSize
  <2>1. Cardinality(batch) \in Nat
    BY <1>1, FiniteParts DEF TypeOK
  <2>2. Cardinality(batch) <= BatchSize
    BY <1>1, <2>1, Sizes
  <2> QED
    BY <1>1, <2>2 DEF BatchesFit
<1>8. BudgetHolds'
  <2>1. Cardinality(UNION flying') <= Cardinality(flying') * BatchSize
    BY <1>3, <1>7, UnionOfBounded, Sizes
  <2>2. Cardinality(flying') * BatchSize <= Concurrency * BatchSize
    BY <1>3, <1>6, FiniteParts, MoreTimes, Sizes
  <2>3. /\ Cardinality(UNION flying') \in Nat /\ Cardinality(flying') * BatchSize \in Nat
        /\ Concurrency * BatchSize \in Nat /\ spent \in Nat
    BY <1>3, FiniteParts, Times, Sizes DEF TypeOK
  <2>4. Cardinality(UNION flying') <= Concurrency * BatchSize
    BY <2>1, <2>2, <2>3
  <2>5. spent + Cardinality(UNION flying') <= Overshoot
    BY <1>2, <2>3, <2>4, Sizes DEF Overshoot
  <2> QED
    BY <1>2, <2>5 DEF BudgetHolds, persistent, Overshoot
<1>9. BatchesFit'
  BY <1>2, <1>7 DEF BatchesFit, extraction, Overshoot
<1>10. OnePlace'
  <2>1. /\ queue' \cap UNION flying' = {}
        /\ accepted \cap (queue' \cup UNION flying') = {}
    BY <1>1 DEF OnePlace
  <2>2. \A b, c \in flying' : b # c => b \cap c = {}
    BY <1>1 DEF OnePlace
  <2> QED
    BY <1>2, <1>6, <2>1, <2>2 DEF OnePlace, Extracting
<1> QED
  BY <1>4, <1>5, <1>8, <1>9, <1>10

\* The batches that are skipped leave the queue.
LEMMA SkipBatchesInv ==
    ASSUME IndInv, SkipBatches
    PROVE  IndInv'
<1> USE DEF IndInv
<1>1. /\ pc = "batches" /\ pc' = pc /\ queue' = {}
      /\ UNCHANGED <<persistent, extraction, flying, accepted, spent, stopped, starts, paid>>
  BY DEF SkipBatches
<1>2. TypeOK'
  BY <1>1 DEF TypeOK, persistent, extraction
<1>3. CheckpointIsBehind' /\ ExtractionShape'
  BY <1>1, SameExtraction DEF persistent
<1>4. BudgetHolds' /\ BatchesFit' /\ OnePlace'
  BY <1>1 DEF BudgetHolds, BatchesFit, OnePlace, persistent, extraction, Overshoot
<1> QED
  BY <1>2, <1>3, <1>4

\* A batch that comes back leaves as much room as it had.
LEMMA OneBatchLess ==
    ASSUME IndInv, NEW batch \in flying
    PROVE  /\ flying \ {batch} \in SUBSET SUBSET Items
           /\ Cardinality(batch) \in Nat
           /\ Cardinality(UNION flying) \in Nat
           /\ Cardinality(UNION (flying \ {batch})) =
                 Cardinality(UNION flying) - Cardinality(batch)
           /\ Cardinality(flying \ {batch}) <= Concurrency
           /\ batch \cap UNION (flying \ {batch}) = {}
<1> USE DEF IndInv
<1>1. flying \in SUBSET SUBSET Items /\ flying \ {batch} \in SUBSET SUBSET Items
  BY DEF TypeOK
<1>2. batch \cap UNION (flying \ {batch}) = {}
  BY DEF OnePlace
<1>3. /\ IsFiniteSet(UNION flying) /\ Cardinality(UNION flying) \in Nat
      /\ IsFiniteSet(flying) /\ Cardinality(flying) \in Nat
      /\ Cardinality(batch) \in Nat
  BY <1>1, FiniteParts
<1>4. /\ UNION (flying \ {batch}) = (UNION flying) \ batch
      /\ (UNION flying) \cap batch = batch
  BY <1>2
<1>5. Cardinality((UNION flying) \ batch) =
         Cardinality(UNION flying) - Cardinality((UNION flying) \cap batch)
  BY <1>3, FS_Difference
<1>6. Cardinality(flying \ {batch}) <= Concurrency
  <2>1. Cardinality(flying \ {batch}) = Cardinality(flying) - 1
    BY <1>3, FS_RemoveElement
  <2> QED
    BY <1>3, <2>1, Sizes DEF OnePlace
<1> QED
  BY <1>1, <1>2, <1>3, <1>4, <1>5, <1>6

\* What is charged is what was at the LLM.
LEMMA BatchAnswersInv ==
    ASSUME IndInv, NEW batch \in flying, BatchAnswers(batch)
    PROVE  IndInv'
<1> USE DEF IndInv
<1>1. PICK some \in SUBSET batch : accepted' = accepted \cup some
  BY DEF BatchAnswers
<1>2. /\ pc = "batches" /\ pc' = pc
      /\ flying' = flying \ {batch}
      /\ spent' = spent + Cardinality(batch) /\ paid' = paid + Cardinality(batch)
      /\ UNCHANGED <<persistent, extraction, queue, stopped, starts>>
  BY DEF BatchAnswers, OnePlace
<1>3. /\ flying' \subseteq SUBSET Items
      /\ Cardinality(batch) \in Nat /\ Cardinality(UNION flying) \in Nat /\ spent \in Nat
      /\ Cardinality(UNION flying') = Cardinality(UNION flying) - Cardinality(batch)
      /\ Cardinality(flying') <= Concurrency
      /\ batch \cap UNION flying' = {}
  BY <1>2, OneBatchLess DEF TypeOK
<1>4. TypeOK'
  <2>1. accepted' \subseteq Items
    BY <1>1 DEF TypeOK
  <2>2. spent' \in Nat /\ paid' \in Nat
    BY <1>2, <1>3 DEF TypeOK
  <2> QED
    BY <1>2, <1>3, <2>1, <2>2 DEF TypeOK, persistent, extraction
<1>5. CheckpointIsBehind' /\ ExtractionShape'
  BY <1>2, SameExtraction DEF persistent
<1>6. BudgetHolds'
  <2>1. spent' + Cardinality(UNION flying') = spent + Cardinality(UNION flying)
    BY <1>2, <1>3
  <2> QED
    BY <1>2, <2>1 DEF BudgetHolds, persistent, Overshoot
<1>7. BatchesFit'
  BY <1>2 DEF BatchesFit, extraction, Overshoot
<1>8. OnePlace'
  <2>1. Cardinality(flying') <= Concurrency
    BY <1>3
  <2>2. batch \cap UNION flying' = {} /\ UNION flying' \subseteq UNION flying
    BY <1>2, <1>3
  <2>3. batch \cap queue = {}
    BY DEF OnePlace
  <2>4. accepted' \cap (queue' \cup UNION flying') = {} /\ queue' \cap UNION flying' = {}
    BY <1>1, <1>2, <2>2, <2>3 DEF OnePlace
  <2> QED
    BY <1>2, <2>1, <2>4 DEF OnePlace, Extracting
<1> QED
  BY <1>4, <1>5, <1>6, <1>7, <1>8

\* A batch that fails costs nothing.
LEMMA BatchFailsInv ==
    ASSUME IndInv, NEW batch \in flying, NEW noQuota \in BOOLEAN, BatchFails(batch, noQuota)
    PROVE  IndInv'
<1> USE DEF IndInv
<1>1. /\ pc = "batches" /\ pc' = pc
      /\ flying' = flying \ {batch}
      /\ stopped' \in BOOLEAN
      /\ UNCHANGED <<persistent, extraction, queue, accepted, spent, starts, paid>>
  BY DEF BatchFails, OnePlace, TypeOK
<1>2. /\ flying' \subseteq SUBSET Items
      /\ Cardinality(batch) \in Nat /\ Cardinality(UNION flying) \in Nat /\ spent \in Nat
      /\ Cardinality(UNION flying') = Cardinality(UNION flying) - Cardinality(batch)
      /\ Cardinality(flying') <= Concurrency
      /\ batch \cap UNION flying' = {}
  BY <1>1, OneBatchLess DEF TypeOK
<1>3. TypeOK'
  BY <1>1, <1>2 DEF TypeOK, persistent, extraction
<1>4. CheckpointIsBehind' /\ ExtractionShape'
  BY <1>1, SameExtraction DEF persistent
<1>5. BudgetHolds'
  <2>1. spent + Cardinality(UNION flying) <= Overshoot
    BY DEF BudgetHolds
  <2>2. spent' + Cardinality(UNION flying') <= Overshoot
    BY <1>1, <1>2, <2>1, OvershootIsNat
  <2> QED
    BY <1>1, <2>2 DEF BudgetHolds, persistent, Overshoot
<1>6. BatchesFit'
  BY <1>1 DEF BatchesFit, extraction, Overshoot
<1>7. OnePlace'
  <2>1. Cardinality(flying') <= Concurrency
    BY <1>2
  <2>2. UNION flying' \subseteq UNION flying
    BY <1>1
  <2> QED
    BY <1>1, <2>1, <2>2 DEF OnePlace, Extracting
<1> QED
  BY <1>3, <1>4, <1>5, <1>6, <1>7

\* The cost that is saved is what was spent, with nothing left at the LLM.
LEMMA GatheredInv ==
    ASSUME IndInv, Gathered
    PROVE  IndInv'
<1> USE DEF IndInv
<1>1. /\ pc = "batches" /\ pc' = "insert" /\ flying = {}
      /\ memory' = [memory EXCEPT !.cost = spent] /\ file' = memory'
      /\ raw' = raw /\ news' = news /\ pending' = pending /\ stored' = stored
      /\ UNCHANGED classification /\ starts' = starts /\ paid' = paid
  BY DEF Gathered
<1>2. /\ memory' \in Checkpoints /\ memory'.cost = spent /\ memory'.last = memory.last
  BY <1>1 DEF TypeOK, Checkpoints
<1>3. TypeOK'
  BY <1>1, <1>2 DEF TypeOK, classification, Alive, Extracting
<1>4. CheckpointIsBehind'
  BY <1>1, <1>2 DEF CheckpointIsBehind
<1>5. ExtractionShape'
  <2>1. Unread' = Unread
    BY <1>2 DEF Unread, Due
  <2> QED
    BY <1>1, <2>1 DEF ExtractionShape
<1>6. spent <= Overshoot
  <2>1. Cardinality(UNION flying) = 0
    BY <1>1, FS_EmptySet
  <2> QED
    BY <2>1 DEF BudgetHolds, TypeOK
<1>7. BudgetHolds' /\ BatchesFit' /\ OnePlace'
  BY <1>1, <1>2, <1>6
     DEF BudgetHolds, BatchesFit, OnePlace, classification, Overshoot, Extracting
<1> QED
  BY <1>3, <1>4, <1>5, <1>7

\* Only rows of items are added to those of the pipeline.
LEMMA InsertInv ==
    ASSUME IndInv, Insert \/ InsertFails
    PROVE  IndInv'
<1> USE DEF IndInv
<1>1. /\ pc = "insert" /\ pc' \in {"done", "failed"}
      /\ news' = news \/ news' = news \cup Inserted
      /\ UNCHANGED <<raw, file, extraction, classification, starts, paid>>
  BY DEF Insert, InsertFails, persistent
<1>2. news' \subseteq Rows
  BY <1>1 DEF TypeOK, Inserted, Rows
<1>3. TypeOK'
  BY <1>1, <1>2 DEF TypeOK, extraction, classification, Ended
<1>4. CheckpointIsBehind' /\ ExtractionShape'
  BY <1>1, SameExtraction
<1>5. flying = {}
  BY <1>1 DEF OnePlace
<1>6. BudgetHolds' /\ BatchesFit' /\ OnePlace'
  BY <1>1, <1>5
     DEF BudgetHolds, BatchesFit, OnePlace, classification, extraction, Overshoot, Extracting
<1> QED
  BY <1>3, <1>4, <1>6

\* A process that dies loses what it had in memory, and no more.
LEMMA CrashInv ==
    ASSUME IndInv, Crash
    PROVE  IndInv'
<1> USE DEF IndInv
<1>1. /\ pc' = "killed" /\ flying' = {}
      /\ UNCHANGED <<persistent, extraction, queue, accepted, spent, stopped, starts, paid>>
  BY DEF Crash
<1>2. TypeOK'
  BY <1>1 DEF TypeOK, persistent, extraction, Ended
<1>3. CheckpointIsBehind' /\ ExtractionShape'
  BY <1>1 DEF CheckpointIsBehind, ExtractionShape, persistent, extraction
<1>4. Cardinality(UNION flying') = 0 /\ Cardinality(flying') = 0
  BY <1>1, FS_EmptySet
<1>5. BudgetHolds'
  <2>1. Cardinality(UNION flying) \in Nat /\ spent \in Nat
    BY FiniteParts DEF TypeOK
  <2>2. spent + Cardinality(UNION flying) <= Overshoot
    BY DEF BudgetHolds
  <2>3. spent' + Cardinality(UNION flying') <= Overshoot
    BY <1>1, <1>4, <2>1, <2>2, OvershootIsNat
  <2> QED
    BY <1>1, <2>3 DEF BudgetHolds, persistent, Overshoot
<1>6. BatchesFit'
  BY <1>1 DEF BatchesFit, extraction, Overshoot
<1>7. OnePlace'
  BY <1>1, <1>4, Sizes DEF OnePlace, Extracting
<1> QED
  BY <1>2, <1>3, <1>5, <1>6, <1>7

-----------------------------------------------------------------------------
\* The checkpoint, the extraction, the budget and the batches are consistent
\* in every state, however often the process dies and starts again.
THEOREM Inductive == Spec => []IndInv
<1>1. Init => IndInv
  BY InitInv
<1>2. IndInv /\ [Next]_vars => IndInv'
  <2> SUFFICES ASSUME IndInv, [Next]_vars
               PROVE  IndInv'
    OBVIOUS
  <2>1. CASE FetchMonth
    BY <2>1, FetchMonthInv
  <2>2. CASE FetchModels
    BY <2>2, FetchModelsInv
  <2>3. CASE StoreChunk
    BY <2>3, StoreChunkInv
  <2>4. CASE Save
    BY <2>4, SaveMonthInv, SaveModelsInv DEF Save, Storing
  <2>5. CASE ExtractedEnough
    BY <2>5, ExtractedEnoughInv
  <2>6. CASE Load
    BY <2>6, LoadInv
  <2>7. CASE StartBatch
    BY <2>7, StartBatchInv
  <2>8. CASE SkipBatches
    BY <2>8, SkipBatchesInv
  <2>9. ASSUME NEW batch \in flying, BatchAnswers(batch)
        PROVE  IndInv'
    BY <2>9, BatchAnswersInv
  <2>10. ASSUME NEW batch \in flying, NEW noQuota \in BOOLEAN, BatchFails(batch, noQuota)
         PROVE  IndInv'
    BY <2>10, BatchFailsInv
  <2>11. CASE Gathered
    BY <2>11, GatheredInv
  <2>12. CASE Insert \/ InsertFails
    BY <2>12, InsertInv
  <2>13. CASE Crash
    BY <2>13, CrashInv
  <2>14. ASSUME NEW resume \in BOOLEAN, Start(resume)
         PROVE  IndInv'
    BY <2>14, StartInv
  <2>15. CASE UNCHANGED vars
    BY <2>15, SameMemory
       DEF vars, persistent, extraction, classification, IndInv, TypeOK, CheckpointIsBehind,
           ExtractionShape, BudgetHolds, OnePlace, BatchesFit, Overshoot
  <2> QED
    BY <2>1, <2>2, <2>3, <2>4, <2>5, <2>6, <2>7, <2>8, <2>9, <2>10, <2>11, <2>12, <2>13,
       <2>14, <2>15 DEF Next, Work
<1> QED
  BY <1>1, <1>2, PTL DEF Spec

\* phase_extract: what a resumed process skips is in raw_extractions, however
\* its predecessors died.
THEOREM CheckpointNeverAhead == Spec => []CheckpointIsBehind
<1>1. IndInv => CheckpointIsBehind
  BY DEF IndInv
<1> QED
  BY <1>1, Inductive, PTL

\* phase_extract: a process that goes on to the LLM has all of history in the
\* table, unless it has stored --max-items itself.
THEOREM ExtractionReadsAll == Spec => []ExtractionIsComplete
<1>1. IndInv => ExtractionIsComplete
  <2> SUFFICES ASSUME IndInv, Unread = {}, NEW s \in SourceSet, NEW m \in Months
               PROVE  Published[s][m] \subseteq raw
    BY DEF IndInv, ExtractionShape, ExtractionIsComplete
  <2>1. PICK k \in DOMAIN Sources : Sources[k] = s
    BY DEF SourceSet, ToSet
  <2>2. ~ (m > memory.last[s])
    BY <2>1 DEF Unread, Due
  <2>3. m <= memory.last[s]
    <3>1. memory.last[s] \in Nat /\ m \in Nat
      BY Sizes DEF IndInv, TypeOK, Checkpoints, Months
    <3> QED
      BY <2>2, <3>1
  <2> QED
    BY <2>3 DEF IndInv, CheckpointIsBehind
<1> QED
  BY <1>1, Inductive, PTL

\* phase_classify: a process spends less over its budget than the batches cost
\* that may be at the LLM at a time.
THEOREM BudgetIsKept == Spec => []BudgetHolds
<1>1. IndInv => BudgetHolds
  BY DEF IndInv
<1> QED
  BY <1>1, Inductive, PTL
=============================================================================
