------------------------ MODULE LanguageModelProofs -------------------------
(***************************************************************************)
(* The two users of a language model: the chat, for any items, limit and   *)
(* length of an answer, and the classifier, for any number of calls,       *)
(* batches, slots and retries.  They share nothing.                        *)
(***************************************************************************)
EXTENDS Chat, LLMClassifier, TLAPS, FiniteSetTheorems, WellFoundedInduction, SequenceTheorems
-----------------------------------------------------------------------------
(* The chat.                                                               *)

\* A set of numbers has a least one.
LEMMA Least ==
    ASSUME NEW S \in SUBSET Nat, S # {}
    PROVE  \E m \in S : \A k \in S : m <= k
<1> DEFINE T == {0..m : m \in S}
<1>1. \A m \in S : 0..m \in FiniteSubsetsOf(Nat)
  BY FS_Interval DEF FiniteSubsetsOf
<1>2. T \subseteq FiniteSubsetsOf(Nat) /\ T # {}
  BY <1>1
<1>3. IsWellFoundedOn(StrictSubsetOrdering(Nat), FiniteSubsetsOf(Nat))
  BY FS_StrictSubsetOrderingWellFounded
<1>4. PICK I \in T : \A J \in T : <<J, I>> \notin StrictSubsetOrdering(Nat)
  <2> HIDE DEF T
  <2> QED BY <1>2, <1>3, WFMin
<1>5. PICK m \in S : I = 0..m
  OBVIOUS
<1>6. ASSUME NEW k \in S, k < m PROVE FALSE
  <2>1. 0..k \in T /\ 0..k \subseteq 0..m /\ 0..k # 0..m
    BY <1>6
  <2>2. <<0..k, 0..m>> \in StrictSubsetOrdering(Nat)
    BY <2>1 DEF StrictSubsetOrdering
  <2> QED BY <1>4, <1>5, <2>1, <2>2
<1> QED BY <1>6
\* Lists of two and of three, event by event.
LEMMA Pairs ==
    ASSUME NEW T, NEW x \in T, NEW y \in T
    PROVE  Append(<<x>>, y) = <<x, y>> 
<1>1. <<x>> \in Seq(T) /\ <<x, y>> \in Seq(T) /\ Len(<<x>>) = 1 /\ Len(<<x, y>>) = 2
  OBVIOUS
<1> DEFINE h == <<x>>
           p == <<x, y>>
           l == Append(h, y)
<1>2. h[1] = x /\ p[1] = x /\ p[2] = y
  OBVIOUS
<1>3. /\ l \in Seq(T) /\ Len(l) = Len(h) + 1 /\ \A i \in 1..Len(h) : l[i] = h[i]
      /\ l[Len(h) + 1] = y
  <2> HIDE DEF h
  <2> QED BY <1>1, AppendProperties DEF h
<1> HIDE DEF h, p, l
<1>4. Len(h) = 1 /\ Len(p) = 2 /\ p \in Seq(T)
  BY <1>1 DEF h, p
<1>5. \A i \in 1..Len(l) : l[i] = p[i]
  BY <1>2, <1>3, <1>4
<1>6. l = p
  BY <1>3, <1>4, <1>5, SeqEqual
<1> QED BY <1>6 DEF l, h, p

LEMMA Triples ==
    ASSUME NEW T, NEW x \in T, NEW y \in T, NEW z \in T
    PROVE  Append(<<x, y>>, z) = <<x, y, z>>
<1>1. /\ <<x, y>> \in Seq(T) /\ <<x, y, z>> \in Seq(T)
      /\ Len(<<x, y>>) = 2 /\ Len(<<x, y, z>>) = 3
  OBVIOUS
<1> DEFINE h == <<x, y>>
           p == <<x, y, z>>
           l == Append(h, z)
<1>2. h[1] = x /\ h[2] = y /\ p[1] = x /\ p[2] = y /\ p[3] = z
  OBVIOUS
<1>3. /\ l \in Seq(T) /\ Len(l) = Len(h) + 1 /\ \A i \in 1..Len(h) : l[i] = h[i]
      /\ l[Len(h) + 1] = z
  <2>1. h \in Seq(T)
    BY <1>1
  <2> HIDE DEF h
  <2> QED BY <2>1, AppendProperties
<1> HIDE DEF h, p, l
<1>4. Len(h) = 2 /\ Len(p) = 3 /\ p \in Seq(T)
  BY <1>1 DEF h, p
<1>5. \A i \in 1..Len(l) : l[i] = p[i]
  BY <1>2, <1>3, <1>4
<1>6. l = p
  BY <1>3, <1>4, <1>5, SeqEqual
<1> QED BY <1>6 DEF l, h, p

\* An event added to a list, and one that is still to follow.
LEMMA AppendedFirst ==
    ASSUME NEW s \in Seq(EventTypes), NEW x \in EventTypes, NEW r \in Seq(EventTypes)
    PROVE  /\ Append(s, x) \in Seq(EventTypes)
           /\ Append(s, x) \o r = s \o (<<x>> \o r)
<1>0. <<x>> \in Seq(EventTypes)
  <2> HIDE DEF EventTypes
  <2> QED OBVIOUS
<1> DEFINE h == <<x>>
<1> HIDE DEF h
<1>1. h \in Seq(EventTypes)
  BY <1>0 DEF h
<1>2. Append(s, x) = s \o h /\ Append(s, x) \in Seq(EventTypes)
  BY AppendIsConcat, AppendProperties DEF h
<1>3. (s \o h) \o r = s \o (h \o r)
  BY <1>1, ConcatAssociative
<1> QED BY <1>2, <1>3 DEF h

\* The ends of a response, one event after the other.
LEMMA Endings ==
    /\ <<>> \in Seq(EventTypes) /\ <<"done">> \in Seq(EventTypes)
    /\ <<"sources", "done">> \in Seq(EventTypes) /\ <<"error", "sources", "done">> \in Seq(EventTypes)
    /\ <<"done">> \o <<>> = <<"done">>
    /\ <<"sources">> \o <<"done">> = <<"sources", "done">>
    /\ <<"error">> \o <<"sources", "done">> = <<"error", "sources", "done">>
    /\ <<"error">> \o <<"done">> = <<"error", "done">>
    /\ Append(<<>>, "error") = <<"error">>
<1> DEFINE T == EventTypes
<1>1. {"error", "sources", "done"} \subseteq T
  BY DEF EventTypes
<1> HIDE DEF T
<1>2. /\ <<>> \in Seq(T) /\ <<"done">> \in Seq(T) /\ <<"sources">> \in Seq(T) /\ <<"error">> \in Seq(T)
      /\ <<"sources", "done">> \in Seq(T) /\ <<"error", "sources", "done">> \in Seq(T)
      /\ <<"error", "sources">> \in Seq(T)
  BY <1>1
<1>3. <<"done">> \o <<>> = <<"done">>
  BY <1>2, ConcatEmptySeq
<1>4. <<"sources">> \o <<"done">> = <<"sources", "done">>
  <2>1. Append(<<"sources">>, "done") = <<"sources">> \o <<"done">>
    BY <1>1, <1>2, AppendIsConcat
  <2> QED BY <1>1, <2>1, Pairs
<1>5. <<"error">> \o <<"done">> = <<"error", "done">>
  <2>1. Append(<<"error">>, "done") = <<"error">> \o <<"done">>
    BY <1>1, <1>2, AppendIsConcat
  <2> QED BY <1>1, <2>1, Pairs
<1>6. <<"error">> \o <<"sources", "done">> = <<"error", "sources", "done">>
  <2>1. Append(<<"error">>, "sources") = <<"error">> \o <<"sources">>
    BY <1>1, <1>2, AppendIsConcat
  <2>2. Append(<<"error", "sources">>, "done") = <<"error", "sources">> \o <<"done">>
    BY <1>1, <1>2, AppendIsConcat
  <2>3. (<<"error">> \o <<"sources">>) \o <<"done">> = <<"error">> \o (<<"sources">> \o <<"done">>)
    BY <1>2, ConcatAssociative
  <2>4. <<"error">> \o <<"sources">> = <<"error", "sources">>
    BY <1>1, <2>1, Pairs
  <2>5. <<"error", "sources">> \o <<"done">> = <<"error", "sources", "done">>
    BY <1>1, <2>2, Triples
  <2> QED BY <1>4, <2>3, <2>4, <2>5, Zenon
<1>7. Append(<<>>, "error") = <<"error">>
  OBVIOUS
<1> QED BY <1>2, <1>3, <1>4, <1>5, <1>6, <1>7 DEF T

\* Text that is followed by the sources, or by an error and the sources.
LEMMA TextThenEnd ==
    ASSUME NEW s \in Seq(EventTypes), \A i \in 1..Len(s) : s[i] = "token",
           NEW tail \in {<<"sources", "done">>, <<"error", "sources", "done">>}
    PROVE  WellFormed(s \o tail)
<1>1. tail \in Seq(EventTypes)
  BY Endings
<1> DEFINE w == s \o tail
           n == Len(s)
           e == SubSeq(w, n + 1, Len(w))
<1>2. n \in Nat /\ Len(tail) \in Nat
  BY <1>1
<1>3. /\ w \in Seq(EventTypes) /\ Len(w) = n + Len(tail)
      /\ \A i \in 1..(n + Len(tail)) : w[i] = IF i <= n THEN s[i] ELSE tail[i - n]
  BY <1>1, ConcatProperties
<1> HIDE DEF w
<1>4. \A i \in 1..n : w[i] = "token"
  BY <1>2, <1>3
<1>5. e = tail
  <2> HIDE DEF n
  <2>1. e \in Seq(EventTypes) /\ Len(e) = Len(tail) /\ \A i \in 1..Len(tail) : e[i] = w[n + i]
    <3> HIDE DEF EventTypes
    <3> QED BY <1>2, <1>3
  <2>2. \A i \in 1..Len(tail) : w[n + i] = tail[i]
    BY <1>2, <1>3
  <2> HIDE DEF e
  <2> QED BY <1>1, <2>1, <2>2, SeqEqual
<1>6. n \in 0..Len(w)
  BY <1>2, <1>3
<1>7. WellFormed(w)
  <2> HIDE DEF n
  <2> QED BY <1>4, <1>5, <1>6 DEF WellFormed
<1> QED BY <1>7 DEF w

\* A search finds as many items as there are, up to the limit.
LEMMA NearestSuffice ==
    ASSUME NEW S \in SUBSET Items
    PROVE  /\ Nearest(S) \subseteq S \cap OnTopic
           /\ IsFiniteSet(Nearest(S)) /\ Cardinality(Nearest(S)) \in Nat
           /\ Cardinality(Nearest(S)) >= Limit \/ Nearest(S) = S \cap OnTopic
<1> DEFINE M == S \cap OnTopic
           N == Nearest(S)
           B(i) == {j \in M : j < i}
<1>1. M \subseteq Nat /\ IsFiniteSet(M) /\ Limit \in Nat
  <2>1. IsFiniteSet(Items) /\ M \in SUBSET Items
    BY ChatAssumption
  <2> HIDE DEF M
  <2> QED BY <2>1, FS_Subset, ChatAssumption
<1>2. N \subseteq M /\ \A i \in M : i \in N <=> Cardinality(B(i)) < Limit
  BY DEF Nearest
<1> HIDE DEF M, N
<1>3. IsFiniteSet(N) /\ Cardinality(N) \in Nat
  BY <1>1, <1>2, FS_Subset, FS_CardinalityType
<1>4. ASSUME N # M PROVE Cardinality(N) >= Limit
  <2> DEFINE O == M \ N
  <2>1. O # {} /\ O \subseteq Nat
    BY <1>1, <1>2, <1>4
  <2>2. PICK x \in O : \A k \in O : x <= k
    <3> HIDE DEF O
    <3> QED BY <2>1, Least
  <2>3. B(x) \subseteq N
    <3> SUFFICES ASSUME NEW j \in M, j < x, j \notin N PROVE FALSE
      OBVIOUS
    <3>1. j \in O /\ j \in Nat /\ x \in Nat
      BY <1>1
    <3> QED BY <2>2, <3>1
  <2>4. Cardinality(B(x)) <= Cardinality(N)
    BY <1>3, <2>3, FS_Subset
  <2>5. IsFiniteSet(B(x))
    BY <1>3, <2>3, FS_Subset
  <2>6. Cardinality(B(x)) \in Nat
    BY <2>5, FS_CardinalityType
  <2>7. ~(Cardinality(B(x)) < Limit)
    BY <1>2, <2>2
  <2> QED BY <1>1, <1>3, <2>4, <2>6, <2>7
<1> QED BY <1>2, <1>3, <1>4 DEF M, N

\* The items that had a vector are counted among those that are searched.
LEMMA EarlyAreFewer ==
    ASSUME NEW S \in SUBSET Items, NEW R \in SUBSET S
    PROVE  /\ Cardinality(R \cap OnTopic) \in Nat
           /\ Cardinality(Nearest(S)) >= Limit
              \/ Cardinality(Nearest(S)) >= Cardinality(R \cap OnTopic)
<1>1. IsFiniteSet(S \cap OnTopic)
  BY ChatAssumption, FS_Subset
<1>2. /\ IsFiniteSet(R \cap OnTopic)
      /\ Cardinality(R \cap OnTopic) <= Cardinality(S \cap OnTopic)
  BY <1>1, FS_Subset
<1> QED BY <1>2, FS_CardinalityType, NearestSuffice

\* The type invariant.
LEMMA ChatTypeStays == ASSUME ChatTypeOK, [ChatNext]_chatVars PROVE ChatTypeOK'
<1>1. \A S \in SUBSET Items : Nearest(S) \subseteq Items
  BY DEF Nearest
<1>2. /\ events \in Seq(EventTypes)
      /\ {"error", "token", "sources", "done"} = EventTypes
      /\ \A e \in EventTypes : Append(events, e) \in Seq(EventTypes)
  BY AppendedFirst, Endings DEF ChatTypeOK, EventTypes
<1> HIDE DEF EventTypes
<1> USE DEF ChatTypeOK, Stages, Send, End
<1>3. ASSUME NEW b \in BOOLEAN, Ask(b) PROVE ChatTypeOK'
  BY <1>2, <1>3 DEF Ask
<1>4. ASSUME NEW b \in BOOLEAN, Embed(b) PROVE ChatTypeOK'
  BY <1>2, <1>4 DEF Embed
<1>5. CASE SearchRecent
  BY <1>1, <1>5 DEF SearchRecent, AskModel
<1>6. CASE SearchFull
  BY <1>1, <1>6 DEF SearchFull, AskModel
<1>7. CASE SearchFails
  BY <1>7 DEF SearchFails
<1>8. CASE Token \/ Answered
  BY <1>2, <1>8 DEF Token, Answered
<1>9. CASE ModelFails \/ TimesOut
  BY <1>2, <1>9 DEF ModelFails, TimesOut, Apologise
<1>10. CASE DeadlineCuts \/ Leaves \/ Deadline
  BY <1>10 DEF DeadlineCuts, Leaves, Deadline
<1>11. CASE Taken
  BY <1>2, <1>11 DEF Taken
<1>12. CASE Embedded
  BY <1>12 DEF Embedded
<1>13. CASE UNCHANGED chatVars
  BY <1>13 DEF chatVars
<1> QED BY <1>3, <1>4, <1>5, <1>6, <1>7, <1>8, <1>9, <1>10, <1>11, <1>12, <1>13 DEF ChatNext, Search

\* What had a vector keeps it, and no step but a search changes the context.
LEMMA ContextStays ==
    ASSUME ChatInv, [ChatNext]_chatVars
    PROVE  EarlyStays' /\ ContextIsFull'
<1> DEFINE few == Cardinality(early \cap Recent \cap OnTopic)
<1>1. /\ early \subseteq table /\ table \subseteq Items /\ Limit \in Nat
      /\ stage = "full" => few < Limit
      /\ timer \in {"off", "running", "due"} /\ stage \in Stages
      /\ stage \in {"start", "embed", "recent", "full"} => timer = "off"
  BY ChatAssumption DEF ChatInv, ChatTypeOK, EarlyStays, StreamGoesOn
<1>2. Recent \subseteq Items /\ early \cap Recent \subseteq table \cap Recent /\ table \cap Recent \subseteq Items
  BY <1>1, ChatAssumption
<1>3. few \in Nat /\ Cardinality(early \cap OnTopic) \in Nat
  BY <1>1, <1>2, EarlyAreFewer
<1> HIDE DEF few
<1>4. ASSUME UNCHANGED <<found, early, table>>, stage' # "full",
             Searched' => Searched
      PROVE  EarlyStays' /\ ContextIsFull'
  <2>1. EarlyStays'
    BY <1>1, <1>4 DEF EarlyStays
  <2>2. ContextIsFull'
    BY <1>4 DEF ContextIsFull, ChatInv
  <2> QED BY <2>1, <2>2
<1>5. ASSUME early' \subseteq table', stage' \notin {"full", "model", "sending", "end"} \/ timer' = "off",
             stage' # "full"
      PROVE  EarlyStays' /\ ContextIsFull'
  BY <1>5 DEF EarlyStays, ContextIsFull, Searched
<1>6. ASSUME NEW b \in BOOLEAN, Ask(b) PROVE EarlyStays' /\ ContextIsFull'
  BY <1>1, <1>5, <1>6 DEF Ask, Send
<1>7. ASSUME NEW b \in BOOLEAN, Embed(b) PROVE EarlyStays' /\ ContextIsFull'
  BY <1>1, <1>5, <1>7 DEF Embed, Send
<1>8. CASE SearchRecent
  <2>1. /\ found' = Nearest(table \cap Recent) /\ early' = early /\ table' = table
        /\ IF Cardinality(found') < Limit THEN stage' = "full" /\ timer' = timer
           ELSE stage' = "model" /\ timer' = "running"
        /\ timer = "off"
    BY <1>1, <1>8 DEF SearchRecent, AskModel
  <2>2. /\ found' \subseteq Recent
        /\ Cardinality(found') \in Nat
    BY <1>2, <2>1, NearestSuffice
  <2>3. CASE Cardinality(found') < Limit
    <3>1. Cardinality(found') >= few
      BY <1>1, <1>2, <2>1, <2>2, <2>3, EarlyAreFewer DEF few
    <3>2. few < Limit
      BY <1>1, <1>3, <2>2, <2>3, <3>1
    <3> QED BY <1>1, <2>1, <2>3, <3>2 DEF EarlyStays, ContextIsFull, Searched, few
  <2>4. CASE ~(Cardinality(found') < Limit)
    <3>1. Cardinality(found') >= Limit
      BY <1>1, <2>2, <2>4
    <3> QED BY <1>1, <2>1, <2>2, <2>4, <3>1 DEF EarlyStays, ContextIsFull
  <2> QED BY <2>3, <2>4
<1>9. CASE SearchFull
  <2>1. /\ found' = Nearest(table) /\ early' = early /\ table' = table
        /\ stage' = "model" /\ few < Limit
    BY <1>1, <1>9 DEF SearchFull, AskModel
  <2>2. Cardinality(found') >= Limit \/ Cardinality(found') >= Cardinality(early \cap OnTopic)
    BY <1>1, <2>1, EarlyAreFewer
  <2>3. ~(few >= Limit)
    BY <1>1, <1>3, <2>1
  <2> QED BY <1>1, <2>1, <2>2, <2>3 DEF EarlyStays, ContextIsFull, few
<1>10. CASE SearchFails
  BY <1>1, <1>5, <1>10 DEF SearchFails, End
<1>11. CASE Token \/ Answered \/ ModelFails \/ TimesOut
  BY <1>4, <1>11 DEF Token, Answered, ModelFails, TimesOut, Apologise, Send, Searched
<1>12. CASE DeadlineCuts
  BY <1>4, <1>12 DEF DeadlineCuts, End, Searched
<1>13. CASE Taken
  BY <1>4, <1>13 DEF Taken, End, Send, Searched
<1>14. CASE Leaves
  BY <1>1, <1>4, <1>5, <1>14 DEF Leaves, End, Searched, Stages
<1>15. CASE Deadline
  <2>1. stage # "full"
    BY <1>1, <1>15 DEF Deadline
  <2> QED BY <1>4, <1>15, <2>1 DEF Deadline, Searched
<1>16. CASE Embedded
  <2>1. /\ early' = early /\ stage' = stage /\ early \subseteq table'
        /\ stage \in {"embed", "recent", "full"}
    BY <1>1, <1>16 DEF Embedded
  <2> QED BY <1>1, <2>1 DEF EarlyStays, ContextIsFull, Searched, few
<1>17. CASE UNCHANGED chatVars
  BY <1>17 DEF chatVars, ChatInv, EarlyStays, ContextIsFull, Searched
<1> QED BY <1>6, <1>7, <1>8, <1>9, <1>10, <1>11, <1>12, <1>13, <1>14, <1>15, <1>16, <1>17 DEF ChatNext, Search

\* The invariant says it of every state: what was sent can be completed.
LEMMA StreamIs ==
    ASSUME ChatTypeOK, StreamGoesOn
    PROVE  StreamIsWellFormed
<1>1. /\ events \in Seq(EventTypes) /\ stage \in Stages
      /\ next \in {"model", "sources", "done", "end"}
  BY DEF ChatTypeOK
<1>2. CASE OnlyText
  <2>1. WellFormed(events \o <<"sources", "done">>)
    BY <1>1, <1>2, TextThenEnd DEF OnlyText
  <2>2. CASE stage = "end"
    BY <2>2 DEF StreamGoesOn
  <2> QED BY <2>1, <2>2 DEF StreamIsWellFormed, StreamGoesOn
<1>3. CASE stage \in {"start", "embed", "recent", "full"}
  <2>1. OnlyText
    BY <1>3 DEF StreamGoesOn, OnlyText
  <2> QED BY <1>2, <2>1
<1>4. CASE stage = "model" \/ (stage = "sending" /\ next = "model")
  BY <1>2, <1>4 DEF StreamGoesOn
<1>5. CASE stage = "sending" /\ next # "model"
  <2>1. WellFormed(events \o Remaining) /\ outcome # "complete"
    BY <1>5 DEF StreamGoesOn
  <2>2. Remaining \in {<<>>, <<"done">>, <<"sources", "done">>}
    BY <1>1 DEF Remaining
  <2> QED BY <2>1, <2>2 DEF StreamIsWellFormed
<1>6. CASE stage = "end"
  BY <1>6 DEF StreamGoesOn
<1> QED BY <1>1, <1>3, <1>4, <1>5, <1>6 DEF Stages

\* Each event that is sent is the next one of a response.
LEMMA StreamStays ==
    ASSUME ChatTypeOK, ChatTypeOK', StreamGoesOn, [ChatNext]_chatVars
    PROVE  StreamGoesOn'
<1>1. /\ events \in Seq(EventTypes) /\ stage \in Stages
      /\ next \in {"model", "sources", "done", "end"}
  BY DEF ChatTypeOK
<1>2. "error" \in EventTypes /\ "token" \in EventTypes /\ "sources" \in EventTypes /\ "done" \in EventTypes
  BY DEF EventTypes
<1>3. events' \in Seq(EventTypes)
  BY DEF ChatTypeOK
<1> HIDE DEF EventTypes
<1>4. ASSUME stage' = "end", UNCHANGED <<next, events>>, outcome' # "complete"
      PROVE  StreamGoesOn'
  <2>1. \E rest \in {<<>>, <<"done">>, <<"sources", "done">>} : WellFormed(events \o rest)
    BY StreamIs DEF StreamIsWellFormed
  <2>2. StreamIsWellFormed'
    BY <1>4, <2>1 DEF StreamIsWellFormed
  <2> QED BY <1>4, <2>2 DEF StreamGoesOn
<1>5. ASSUME stage' = "sending", next' # "model", outcome' = outcome, stage # "end",
             (WellFormed(events \o Remaining))'
      PROVE  StreamGoesOn'
  BY <1>5 DEF StreamGoesOn
<1>6. ASSUME NEW b \in BOOLEAN, Ask(b) \/ Embed(b) PROVE StreamGoesOn'
  <2>1. stage \in {"start", "embed"} /\ events = <<>> /\ timer = "off"
        /\ timer' = timer /\ outcome' = outcome /\ outcome = "open"
    BY <1>6 DEF Ask, Embed, StreamGoesOn
  <2>2. CASE b
    <3>1. events' = <<"error">> /\ next' = "done" /\ stage' = "sending"
      BY <1>6, <2>1, <2>2, Endings DEF Ask, Embed, Send
    <3>2. Remaining' = <<"done">>
      BY <3>1 DEF Remaining
    <3>3. events' \o Remaining' = <<"error", "done">>
      BY <3>1, <3>2, Endings
    <3>4. (WellFormed(events \o Remaining))'
      BY <3>3 DEF WellFormed
    <3> QED BY <1>5, <2>1, <3>1, <3>4
  <2>3. CASE ~b
    <3>1. events' = <<>> /\ stage' \in {"embed", "recent"}
      BY <1>6, <2>1, <2>3 DEF Ask, Embed
    <3> QED BY <2>1, <3>1 DEF StreamGoesOn
  <2> QED BY <2>2, <2>3
<1>7. CASE SearchRecent \/ SearchFull
  <2>1. /\ events = <<>> /\ events' = events /\ outcome' = outcome /\ outcome = "open"
        /\ (stage' = "full" /\ timer' = timer /\ timer = "off") \/ stage' = "model"
    BY <1>7 DEF SearchRecent, SearchFull, AskModel, StreamGoesOn
  <2>2. OnlyText'
    BY <2>1 DEF OnlyText
  <2> QED BY <2>1, <2>2 DEF StreamGoesOn
<1>8. CASE SearchFails \/ DeadlineCuts \/ Leaves
  BY <1>4, <1>8 DEF SearchFails, DeadlineCuts, Leaves, End
<1>9. CASE Token
  <2>1. /\ OnlyText /\ events' = Append(events, "token") /\ stage' = "sending" /\ next' = "model"
        /\ outcome' = outcome /\ outcome = "open"
    BY <1>9 DEF Token, Send, StreamGoesOn
  <2>2. /\ Len(events') = Len(events) + 1 /\ Len(events) \in Nat
        /\ \A i \in 1..Len(events) : events'[i] = events[i]
        /\ events'[Len(events) + 1] = "token"
    <3>1. Len(events) \in Nat
      BY <1>1
    <3> QED BY <1>1, <1>2, <2>1, <3>1, AppendProperties
  <2>3. OnlyText'
    BY <2>1, <2>2 DEF OnlyText
  <2> QED BY <2>1, <2>3 DEF StreamGoesOn
<1>10. CASE Answered
  <2>1. /\ OnlyText /\ events' = Append(events, "sources") /\ stage' = "sending" /\ next' = "done"
        /\ outcome' = outcome /\ stage # "end"
    BY <1>10 DEF Answered, Send, StreamGoesOn
  <2>2. Remaining' = <<"done">>
    BY <2>1 DEF Remaining
  <2>3. events' \o Remaining' = events \o <<"sources", "done">>
    BY <1>1, <1>2, <2>1, <2>2, AppendedFirst, Endings
  <2>4. (WellFormed(events \o Remaining))'
    BY <1>1, <2>1, <2>3, TextThenEnd DEF OnlyText
  <2> QED BY <1>5, <2>1, <2>4
<1>11. CASE ModelFails \/ TimesOut
  <2>1. /\ OnlyText /\ events' = Append(events, "error") /\ stage' = "sending" /\ next' = "sources"
        /\ outcome' = outcome /\ stage # "end"
    BY <1>11 DEF ModelFails, TimesOut, Apologise, Send, StreamGoesOn
  <2>2. Remaining' = <<"sources", "done">>
    BY <2>1 DEF Remaining
  <2>3. events' \o Remaining' = events \o <<"error", "sources", "done">>
    BY <1>1, <1>2, <2>1, <2>2, AppendedFirst, Endings
  <2>4. (WellFormed(events \o Remaining))'
    BY <1>1, <2>1, <2>3, TextThenEnd DEF OnlyText
  <2> QED BY <1>5, <2>1, <2>4
<1>12. CASE Taken
  <2>1. stage = "sending" /\ outcome = "open"
    BY <1>12 DEF Taken, StreamGoesOn
  <2>2. CASE next = "model"
    BY <1>12, <2>1, <2>2 DEF Taken, StreamGoesOn, OnlyText
  <2>3. CASE next \in {"sources", "done"}
    <3>1. /\ events' = Append(events, next) /\ stage' = "sending"
          /\ next' = IF next = "sources" THEN "done" ELSE "end"
          /\ outcome' = outcome
      BY <1>12, <2>3 DEF Taken, Send
    <3>2. /\ Remaining' \in Seq(EventTypes)
          /\ <<next>> \o Remaining' = Remaining
      BY <2>3, <3>1, Endings DEF Remaining
    <3>3. events' \o Remaining' = events \o Remaining
      <4>1. next \in EventTypes
        BY <1>2, <2>3
      <4>2. Append(events, next) \o Remaining' = events \o (<<next>> \o Remaining')
        BY <1>1, <3>2, <4>1, AppendedFirst
      <4> QED BY <3>1, <3>2, <4>2, Zenon
    <3>4. (WellFormed(events \o Remaining))'
      BY <2>1, <2>3, <3>3 DEF StreamGoesOn
    <3> QED BY <1>5, <2>1, <2>3, <3>1, <3>4
  <2>4. CASE next = "end"
    <3>1. events' = events /\ stage' = "end" /\ outcome' = "complete"
      BY <1>12, <2>4 DEF Taken, End
    <3>2. Remaining = <<>> /\ events \o <<>> = events
      BY <1>1, <2>4, ConcatEmptySeq DEF Remaining
    <3>3. WellFormed(events)
      BY <2>1, <2>4, <3>2 DEF StreamGoesOn
    <3>4. StreamIsWellFormed'
      BY <3>1, <3>2, <3>3 DEF StreamIsWellFormed
    <3> QED BY <3>1, <3>4 DEF StreamGoesOn
  <2> QED BY <1>1, <2>2, <2>3, <2>4
<1>13. CASE Deadline
  BY <1>13 DEF Deadline, StreamGoesOn, OnlyText, Remaining, StreamIsWellFormed
<1>14. CASE Embedded
  BY <1>14 DEF Embedded, StreamGoesOn, OnlyText, Remaining, StreamIsWellFormed
<1>15. CASE UNCHANGED chatVars
  BY <1>15 DEF chatVars, StreamGoesOn, OnlyText, Remaining, StreamIsWellFormed
<1> QED BY <1>6, <1>7, <1>8, <1>9, <1>10, <1>11, <1>12, <1>13, <1>14, <1>15 DEF ChatNext, Search

LEMMA ChatStarts == ChatInit => ChatInv
<1> SUFFICES ASSUME ChatInit PROVE ChatInv
  OBVIOUS
<1>1. ChatTypeOK
  BY Endings DEF ChatInit, ChatTypeOK, Stages
<1>2. StreamGoesOn
  BY DEF ChatInit, StreamGoesOn
<1>3. EarlyStays /\ ContextIsFull
  BY DEF ChatInit, EarlyStays, ContextIsFull, Searched
<1> QED BY <1>1, <1>2, <1>3 DEF ChatInv

\* The inductive invariant.
THEOREM ChatInvariant == ChatSpec => []ChatInv
<1>1. ChatInv /\ [ChatNext]_chatVars => ChatInv'
  <2> SUFFICES ASSUME ChatInv, [ChatNext]_chatVars PROVE ChatInv'
    OBVIOUS
  <2>1. ChatTypeOK'
    BY ChatTypeStays DEF ChatInv
  <2>2. StreamGoesOn'
    BY <2>1, StreamStays DEF ChatInv
  <2>3. EarlyStays' /\ ContextIsFull'
    BY ContextStays
  <2> QED BY <2>1, <2>2, <2>3 DEF ChatInv
<1> QED BY <1>1, ChatStarts, PTL DEF ChatSpec

\* A client can rely on the order of the events, wherever an error strikes.
THEOREM StreamsAreWellFormed == ChatSpec => []StreamIsWellFormed
<1>1. ChatInv => StreamIsWellFormed
  BY StreamIs DEF ChatInv
<1> QED BY <1>1, ChatInvariant, PTL

\* The model is given as many items as there are, recent ones if those suffice.
THEOREM ContextsAreFull == ChatSpec => []ContextIsFull
<1>1. ChatInv => ContextIsFull
  BY DEF ChatInv
<1> QED BY <1>1, ChatInvariant, PTL
-----------------------------------------------------------------------------
(* The classifier.                                                         *)

USE DEF Retryable, ConfigOrAccount, Immediate, Errors, Running, Unfinished, Classified

\* An attempt that is not followed by a retry is the last one.
LEMMA LastAttempt ==
    ASSUME NEW n \in 0..MaxRetries, ~(n < MaxRetries)
    PROVE  n = MaxRetries
  BY LLMAssumption

\* No step takes attempts out of range or leaves a phase unnamed.
LEMMA TypeCorrect == ASSUME IndInv, [Next]_vars PROVE TypeOK'
<1> USE LLMAssumption DEF IndInv, TypeOK, BatchesConsistent, Move
<1>1. ASSUME NEW k \in Calls, Begin(k) PROVE TypeOK'
  BY <1>1 DEF Begin
<1>2. ASSUME NEW k \in Calls, NEW b \in Batches, Acquire(k, b) PROVE TypeOK'
  BY <1>2 DEF Acquire
<1>3. ASSUME NEW k \in Calls, NEW b \in Batches, Answer(k, b) PROVE TypeOK'
  BY <1>3 DEF Answer
<1>4. ASSUME NEW k \in Calls, NEW b \in Batches, NEW e \in Errors, RequestFails(k, b, e)
      PROVE  TypeOK'
  BY <1>4 DEF RequestFails
<1>5. ASSUME NEW k \in Calls, NEW b \in Batches, Retry(k, b) PROVE TypeOK'
  BY <1>5 DEF Retry
<1>6. ASSUME NEW k \in Calls, Return(k) PROVE TypeOK'
  BY <1>6 DEF Return
<1>7. ASSUME NEW k \in Calls, Raise(k) PROVE TypeOK'
  BY <1>7 DEF Raise
<1>8. CASE Cancel
  BY <1>8 DEF Cancel
<1>9. CASE UNCHANGED vars
  BY <1>9 DEF vars
<1>10. QED
  BY <1>1, <1>2, <1>3, <1>4, <1>5, <1>6, <1>7, <1>8, <1>9 DEF Next, Request

\* What a batch's phase says of its last error survives every step.
LEMMA BatchesStay == ASSUME IndInv, [Next]_vars PROVE BatchesConsistent'
<1> USE LLMAssumption DEF IndInv, TypeOK, BatchesConsistent, Move
<1>1. ASSUME NEW k \in Calls, Begin(k) PROVE BatchesConsistent'
  BY <1>1 DEF Begin
<1>2. ASSUME NEW k \in Calls, NEW b \in Batches, Acquire(k, b) PROVE BatchesConsistent'
  BY <1>2 DEF Acquire
<1>3. ASSUME NEW k \in Calls, NEW b \in Batches, Answer(k, b) PROVE BatchesConsistent'
  BY <1>3 DEF Answer
<1>4. ASSUME NEW k \in Calls, NEW b \in Batches, NEW e \in Errors, RequestFails(k, b, e)
      PROVE  BatchesConsistent'
  <2>1. CASE Retries(e) /\ attempts[k][b] < MaxRetries
    BY <1>4, <2>1 DEF RequestFails, Retries
  <2>2. CASE ~(Retries(e) /\ attempts[k][b] < MaxRetries) /\ Propagates(e)
    BY <1>4, <2>2 DEF RequestFails, Retries, Propagates
  <2>3. CASE ~(Retries(e) /\ attempts[k][b] < MaxRetries) /\ ~Propagates(e)
    <3>1. e \in Immediate \/ (e \in Retryable /\ attempts[k][b] = MaxRetries)
      <4>1. attempts[k][b] \in 0..MaxRetries
        OBVIOUS
      <4>2. CASE e \in Retryable
        <5>1. ~(attempts[k][b] < MaxRetries)
          BY <2>3, <4>2 DEF Retries
        <5>2. attempts[k][b] = MaxRetries
          BY <4>1, <5>1, LastAttempt
        <5>3. QED
          BY <4>2, <5>2
      <4>3. CASE e \notin Retryable
        BY <2>3, <4>3 DEF Propagates
      <4>4. QED
        BY <4>2, <4>3
    <3>2. /\ cause' = [cause EXCEPT ![k][b] = e]
          /\ phase' = [phase EXCEPT ![k][b] = "keyword"]
          /\ UNCHANGED <<caller, attempts>>
          /\ phase[k][b] = "calling"
      BY <1>4, <2>3 DEF RequestFails
    <3>3. caller[k] # "idle" /\ e \notin ConfigOrAccount
      BY <3>1, <3>2
    <3>4. QED
      BY <3>1, <3>2, <3>3
  <2>4. QED
    BY <2>1, <2>2, <2>3
<1>5. ASSUME NEW k \in Calls, NEW b \in Batches, Retry(k, b) PROVE BatchesConsistent'
  BY <1>5 DEF Retry
<1>6. ASSUME NEW k \in Calls, Return(k) PROVE BatchesConsistent'
  BY <1>6 DEF Return
<1>7. ASSUME NEW k \in Calls, Raise(k) PROVE BatchesConsistent'
  BY <1>7 DEF Raise
<1>8. CASE Cancel
  BY <1>8 DEF Cancel
<1>9. CASE UNCHANGED vars
  BY <1>9 DEF vars
<1>10. QED
  BY <1>1, <1>2, <1>3, <1>4, <1>5, <1>6, <1>7, <1>8, <1>9 DEF Next, Request

\* What a call's end says of its batches survives: a batch that counted for
\* the end of a call has ended itself.
LEMMA CallersStay == ASSUME IndInv, [Next]_vars PROVE CallersConsistent'
<1> USE DEF IndInv, TypeOK, CallersConsistent, BatchesConsistent, Move
<1>1. ASSUME NEW k \in Calls, Begin(k) PROVE CallersConsistent'
  BY <1>1 DEF Begin
<1>2. ASSUME NEW k \in Calls, NEW b \in Batches, Acquire(k, b) PROVE CallersConsistent'
  BY <1>2 DEF Acquire
<1>3. ASSUME NEW k \in Calls, NEW b \in Batches, Answer(k, b) PROVE CallersConsistent'
  BY <1>3 DEF Answer
<1>4. ASSUME NEW k \in Calls, NEW b \in Batches, NEW e \in Errors, RequestFails(k, b, e)
      PROVE  CallersConsistent'
  BY <1>4 DEF RequestFails
<1>5. ASSUME NEW k \in Calls, NEW b \in Batches, Retry(k, b) PROVE CallersConsistent'
  BY <1>5 DEF Retry
<1>6. ASSUME NEW k \in Calls, Return(k) PROVE CallersConsistent'
  BY <1>6 DEF Return
<1>7. ASSUME NEW k \in Calls, Raise(k) PROVE CallersConsistent'
  BY <1>7 DEF Raise
<1>8. CASE Cancel
  <2>1. ASSUME NEW k \in Calls, caller'[k] = "returned"
        PROVE  \A b \in Batches : phase'[k][b] \in Classified
    BY <1>8, <2>1 DEF Cancel
  <2>2. ASSUME NEW k \in Calls, caller'[k] = "raised"
        PROVE  \E b \in Batches : phase'[k][b] = "failed"
    <3>1. caller[k] = "raised"
      BY <1>8, <2>2 DEF Cancel
    <3>2. PICK b \in Batches : phase[k][b] = "failed"
      BY <3>1
    <3>3. phase'[k][b] = "failed"
      BY <1>8, <3>2 DEF Cancel
    <3>4. QED
      BY <3>3
  <2>3. QED
    BY <2>1, <2>2
<1>9. CASE UNCHANGED vars
  BY <1>9 DEF vars
<1>10. QED
  BY <1>1, <1>2, <1>3, <1>4, <1>5, <1>6, <1>7, <1>8, <1>9 DEF Next, Request

\* The invariant holds in every reachable state of classify.
THEOREM Inductive == Spec => []IndInv
<1>1. Init => IndInv
  BY LLMAssumption DEF Init, IndInv, TypeOK, BatchesConsistent, CallersConsistent
<1>2. IndInv /\ [Next]_vars => IndInv'
  BY TypeCorrect, BatchesStay, CallersStay DEF IndInv
<1>3. QED
  BY <1>1, <1>2, PTL DEF Spec

\* A call that returns has classified every batch and met no configuration or
\* account error in any of them.
THEOREM FailsLoud == Spec => []FailLoud
<1>1. IndInv => FailLoud
  BY DEF IndInv, BatchesConsistent, CallersConsistent, FailLoud
<1>2. QED
  BY <1>1, Inductive, PTL

\* Only a configuration or account error makes a call raise.
THEOREM RaisesForConfigOnly == Spec => []OnlyConfigErrorsRaise
<1>1. IndInv => OnlyConfigErrorsRaise
  BY DEF IndInv, BatchesConsistent, CallersConsistent, OnlyConfigErrorsRaise
<1>2. QED
  BY <1>1, Inductive, PTL

\* The keyword classifier takes a batch over only when retries cannot help or
\* are used up.
THEOREM KeywordsComeLast == Spec => []FallbackIsLastResort
<1>1. IndInv => FallbackIsLastResort
  BY DEF IndInv, BatchesConsistent, FallbackIsLastResort
<1>2. QED
  BY <1>1, Inductive, PTL

\* No request follows a configuration or account error of its batch.
THEOREM NoRequestAfterConfigError == Spec => ConfigErrorsEndBatch
<1>1. IndInv /\ [Next]_vars =>
        [\A k \in Calls : \A b \in Batches :
            cause[k][b] \in ConfigOrAccount => attempts'[k][b] = attempts[k][b]]_vars
  <2> SUFFICES ASSUME IndInv, [Next]_vars,
                      NEW k \in Calls, NEW b \in Batches, cause[k][b] \in ConfigOrAccount
               PROVE  attempts'[k][b] = attempts[k][b]
    OBVIOUS
  <2>1. phase[k][b] = "failed"
    BY DEF IndInv, BatchesConsistent
  <2>2. ASSUME NEW j \in Calls, NEW c \in Batches, Acquire(j, c) \/ Retry(j, c)
        PROVE  attempts'[k][b] = attempts[k][b]
    <3>1. phase[j][c] # "failed" /\ (j # k \/ c # b)
      BY <2>1, <2>2 DEF Acquire, Retry
    <3>2. \E n : attempts' = [attempts EXCEPT ![j][c] = n]
      BY <2>2 DEF Acquire, Retry
    <3>3. attempts \in [Calls -> [Batches -> Nat]]
      BY DEF IndInv, TypeOK
    <3> QED BY <3>1, <3>2, <3>3
  <2>3. ASSUME NEW j \in Calls, NEW c \in Batches, Request(j, c)
        PROVE  attempts'[k][b] = attempts[k][b]
    <3>1. CASE Retry(j, c)
      BY <2>2, <3>1
    <3>2. CASE Answer(j, c) \/ \E e \in Errors : RequestFails(j, c, e)
      BY <3>2 DEF Answer, RequestFails
    <3> QED BY <2>3, <3>1, <3>2 DEF Request
  <2>4. ASSUME NEW j \in Calls, Begin(j) \/ Return(j) \/ Raise(j)
        PROVE  attempts'[k][b] = attempts[k][b]
    BY <2>4 DEF Begin, Return, Raise
  <2>5. CASE Cancel
    BY <2>5 DEF Cancel
  <2>6. CASE UNCHANGED vars
    BY <2>6 DEF vars
  <2> QED BY <2>2, <2>3, <2>4, <2>5, <2>6 DEF Next
<1>2. QED
  BY <1>1, Inductive, PTL DEF Spec, ConfigErrorsEndBatch
=============================================================================
