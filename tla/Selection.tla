------------------------------ MODULE Selection ------------------------------
(***************************************************************************)
(* What a run selects from the items that dedup leaves: the two phases of  *)
(* pipeline/stages/classify.py, keyword.py, the reading of the model's     *)
(* answer in llm.py, event_dedup.py on lists, and the noise filter.        *)
(* A relevance is in hundredths.  An item that has been classified is the  *)
(* item with the topic and the relevance it was given.                     *)
(***************************************************************************)
EXTENDS Curation, Lists

CONSTANTS TopicOrder,     \* the keys of TOPIC_DEFINITIONS, in their order
          KeywordCount,   \* the length of each topic's keyword list
          Matches,        \* Matches[title][topic]: how many of them it contains
          NoTopic,        \* None
          Enabled,        \* topics_list
          MinRelevance,   \* min_relevance_score
          HighConfidence, \* _HIGH_CONFIDENCE_THRESHOLD
          SameEvent,      \* pairs of titles with title_similarity >= 0.80
          EventLimit,     \* 100 in deduplicate_events
          Answers,        \* what the model may answer: sequences of entries
          Unusable        \* or an answer that leaves the batch to the keywords

ASSUME SelectionAssumption ==
    /\ TopicOrder \in Seq(ToSet(TopicOrder)) \ {<<>>}
    /\ \A t \in ToSet(TopicOrder) : KeywordCount[t] \in Nat \ {0}
    /\ \A i \in Candidates : /\ \A t \in ToSet(TopicOrder) : Matches[i.title][t] \in Nat
                             /\ i = [f \in DOMAIN i |-> i[f]]
                             /\ {"title", "score", "topic", "relevance"} \subseteq DOMAIN i
    /\ \A a \in Answers : a \in Seq(ToSet(a)) /\ \A e \in ToSet(a) : e.relevance \in Int
    /\ HighConfidence \in Nat \ {0}
    /\ \A p \in SameEvent : <<p[2], p[1]>> \in SameEvent
    /\ Unusable \notin Answers

\* classify_by_keywords: max() of a dict keeps the first of equal topics.
ByKeywords(i) ==
    LET count == Matches[i.title]
        best == TopicOrder[SelectInSeq(TopicOrder, LAMBDA t :
                    \A u \in ToSet(TopicOrder) : count[u] <= count[t])]
        relevance == Min({100, (300 * count[best]) \div KeywordCount[best]})
    IN  IF relevance < 10 THEN [topic |-> NoTopic, relevance |-> 0, count |-> 0]
        ELSE [topic |-> best, relevance |-> relevance, count |-> count[best]]

As(i, topic, relevance) == [i EXCEPT !.topic = topic, !.relevance = relevance]

\* KeywordClassifier.classify.
KeywordResults(s) ==
    LET found(i) == ByKeywords(i)
        kept == Only(s, {n \in DOMAIN s : /\ found(s[n]).topic \in Enabled
                                          /\ found(s[n]).relevance >= MinRelevance})
    IN  [n \in DOMAIN kept |-> As(kept[n], found(kept[n]).topic, found(kept[n]).relevance)]

\* _classify_batch: an index may be missing, out of range or there twice.
Usable(e, batch) ==
    /\ e.idx \in 1..Len(batch) /\ e.isNews
    /\ e.topic \in Enabled /\ e.relevance >= MinRelevance

ModelResults(batch, answer) ==
    LET entries == Only(answer, {n \in DOMAIN answer : Usable(answer[n], batch)})
    IN  [n \in DOMAIN entries |->
            As(batch[entries[n].idx], entries[n].topic, entries[n].relevance)]

\* Faulty variant: the model is asked about items without any keyword too.
IsUnsure(i) == ByKeywords(i).count < HighConfidence

IsAmbiguous(i) == ByKeywords(i).count \in 1..(HighConfidence - 1)

IsSure(i) == ByKeywords(i).count >= HighConfidence

\* run_classification: the phases; its merge of events follows below.
Classified(s, answer) ==
    LET asked == Only(s, {n \in DOMAIN s : IsAmbiguous(s[n])})
    IN  KeywordResults(Only(s, {n \in DOMAIN s : IsSure(s[n])}))
            \o (IF answer = Unusable THEN KeywordResults(asked) ELSE ModelResults(asked, answer))

\* The places of the items of a topic.
Topical(s, n) == {m \in DOMAIN s : s[m].topic = s[n].topic}

\* _group_by_similarity, within a topic; one with too many items is left as it is.
Related(s, m, n) ==
    /\ m \in Topical(s, n) /\ <<s[m].title, s[n].title>> \in SameEvent
    /\ Cardinality(Topical(s, n)) <= EventLimit

\* The places of the items of an event: those that a chain of at most as many
\* related items as there are leads to.
Event(s, n) ==
    LET within[k \in 0..Len(s)] ==
            IF k = 0 THEN {n}
            ELSE within[k - 1] \cup {m \in DOMAIN s : \E j \in within[k - 1] : Related(s, m, j)}
    IN  within[Len(s)]

\* _pick_winner: the first of the heaviest.
Winner(s, event) ==
    LET Weight(n) == s[n].score + s[n].relevance
    IN  CHOOSE n \in event : \A m \in event :
            Weight(m) < Weight(n) \/ (Weight(m) = Weight(n) /\ n <= m)

\* Topics and, in each, events follow in the order in which they begin.
Follows(s, n, m) ==
    \/ Min(Topical(s, m)) < Min(Topical(s, n))
    \/ Min(Topical(s, m)) = Min(Topical(s, n)) /\ m <= n

\* deduplicate_events: the best item of each event, at the place where it begins.
MergeEvents(s) ==
    LET begins == {n \in DOMAIN s : \A m \in Event(s, n) : n <= m}
        order == InOrder(begins, {p \in begins \X begins : Follows(s, p[2], p[1])})
    IN  [k \in DOMAIN order |-> s[Winner(s, Event(s, order[k]))]]

\* run_classification: one item is not compared.  The collapse of variants that
\* follows changes nothing, since an item that has been classified has no source.
Merged(s) == IF Len(s) > 1 THEN MergeEvents(s) ELSE s

\* validate_news: with settings.enable_news_validation off nothing is filtered.
Validated(s, enabled) == IF enabled THEN FilterNoise(s) ELSE s

Selected(s, answer, enabled) == Validated(Merged(Classified(s, answer)), enabled)
-----------------------------------------------------------------------------
\* _item_tokens: title and text are more than stop words, "model" among them.
\* An item without any other word is similar to nothing, itself included.
HasWords(i) == <<i.title, i.title>> \in Similar

\* What the pipeline's model takes for granted of its selection: whatever the
\* model answers, also with an index twice under two topics, a run selects
\* none that it did not have and none without a keyword, its news validated or
\* not; and if they are, none twice but those the noise filter cannot compare.
SelectionIsSubset ==
    \A answer \in Answers \cup {Unusable}, enabled \in BOOLEAN :
        LET from == Deduplicate(items)
            kept == Selected(from, answer, enabled)
            Is(i, j) == As(i, NoTopic, 0) = As(j, NoTopic, 0)
        IN  \A n \in DOMAIN kept :
               /\ \E i \in ToSet(from) : Is(i, kept[n]) /\ ByKeywords(i).count > 0
               /\ enabled => \A m \in DOMAIN kept :
                                Is(kept[m], kept[n]) => m = n \/ ~HasWords(kept[n])

=============================================================================
