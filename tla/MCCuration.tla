------------------------------ MODULE MCCuration ------------------------------
(* Candidates for Curation and Feed: two urls and none, two titles per url,      *)
(* variants of one model with equal and different scores, a chain of similar     *)
(* titles that is not transitive, ages on both sides of the first window, and    *)
(* scores that the live scorer orders differently than the stored ones.          *)
EXTENDS Feed

Row(u, t, n, src) ==
    [url |-> u, title |-> t, score |-> n, source |-> src, credible |-> TRUE, leading |-> FALSE,
     topic |-> IF t = "b" THEN "papers" ELSE "models",
     author |-> IF t = "a" THEN "ann" ELSE "", age |-> 12 * n, born |-> 24 * n, dated |-> TRUE,
     paper |-> FALSE, relevance |-> 80 + 2 * n, stored |-> 10 * n]

MCCandidates ==
    { Row("u1", "a", 1, "rss"), Row("u1", "a", 6, "hackernews"), Row("u1", "b", 6, "rss"),
      [Row("u2", "a", 1, "hackernews") EXCEPT !.stored = -1],
      Row("u2", "c", 2, "rss"),
      [Row("none", "b", 1, "rss") EXCEPT !.age = -3],
      Row("u3", "org/m-7B", 1, "huggingface"),
      [Row("u4", "org/m-GGUF", 1, "huggingface") EXCEPT !.paper = TRUE],
      Row("u5", "org/m", 2, "huggingface"),
      [Row("u2", "c", 2, "github") EXCEPT !.leading = TRUE, !.age = 60],
      [Row("u6", "c", 1, "reddit") EXCEPT !.credible = FALSE, !.dated = FALSE] }

MCBaseModel ==
    [t \in {"a", "b", "c", "org/m-7B", "org/m-GGUF", "org/m"} |->
        IF t \in {"a", "b", "c"} THEN "none" ELSE "m"]

\* a and b, b and c, not a and c; every title resembles itself.
MCSameEvent ==
    {<<t, t>> : t \in DOMAIN MCBaseModel}
        \cup {<<"a", "b">>, <<"b", "a">>, <<"b", "c">>, <<"c", "b">>}

\* But one, with a keyword, is all stop words.
MCSimilar == MCSameEvent \ {<<"org/m", "org/m">>}

MCTopicOrder == <<"models", "papers">>

MCKeywordCount == [t \in {"models", "papers"} |-> IF t = "models" THEN 26 ELSE 20]

\* No keyword, one, three (less relevance than required) and eight.
MCMatches ==
    [t \in DOMAIN MCBaseModel |->
        [u \in {"models", "papers"} |->
            CASE u = "papers" -> IF t = "b" THEN 3 ELSE 0
              [] u = "models" -> CASE t = "a" -> 2 [] t = "c" -> 8 [] t = "org/m" -> 1
                                   [] OTHER -> 0]]

MCEntry(n, topic) == [idx |-> n, isNews |-> TRUE, topic |-> topic, relevance |-> 90]

\* One item twice, under two topics and around another; indexes that are not
\* there; no entry at all.
MCAnswers ==
    { <<MCEntry(1, "models"), MCEntry(2, "models"), MCEntry(1, "papers")>>,
      <<MCEntry(2, "papers"), MCEntry(0, "models"), MCEntry(9, "models"),
        [MCEntry(1, "models") EXCEPT !.relevance = 70]>>,
      <<[MCEntry(1, "models") EXCEPT !.isNews = FALSE], MCEntry(2, "models"), MCEntry(3, "papers")>>,
      <<>> }

MCUnusable == <<"unusable">>

\* Small thresholds, so that small scores are not all next to nothing.
MCThreshold ==
    [k \in {"hackernews", "reddit", "github", "huggingface", "huggingface_paper"} |-> 200]

MCTopicWeight == [t \in {"models", "papers"} |-> IF t = "models" THEN 100 ELSE 70]

MCNoScore == -1

MCNoBirth == -1000
=============================================================================
