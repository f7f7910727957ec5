------------------------------- MODULE Scorer -------------------------------
(***************************************************************************)
(* composite_scorer.py: the score of an article at the time of asking.     *)
(* The code's fractions of one are integers here, in 1/1200 for each of    *)
(* the four terms (a common multiple of the 48 hours of the recency window *)
(* and of the hundredths of relevance and topic weight) and in hundredths  *)
(* for the weights, so that 120000 is a score of 1.  Ages are in hours;    *)
(* one below zero belongs to an article dated in the future.               *)
(***************************************************************************)
EXTENDS Integers, FiniteSetsExt

CONSTANTS NoBirth,        \* source_created_at IS NULL
          Threshold,      \* velocity_threshold_* in hundredths, a function on kinds of source
          TopicWeight,    \* TOPIC_WEIGHTS in hundredths, a function on topics
          RecencyWindow   \* composite_recency_window_hours

Unit == 1200

\* Two lanes of one source have thresholds of their own.
Kind(x) == IF x.source = "huggingface" /\ x.paper THEN "huggingface_paper" ELSE x.source

HasVelocity(x) == x.source \notin {"arxiv", "rss"}

OnGitHub(x) == x.source \in {"github", "github_search"}

\* Engagement per hour since the article, per day since the repository was
\* made, or as it is; the result is divided by the threshold of the kind and
\* cut off at one.
Velocity(x) ==
    LET byBirth == OnGitHub(x) /\ x.born # NoBirth
        hours == Max({1, IF byBirth THEN x.born ELSE x.age})
        pace == CASE x.score <= 0 -> 0
                  [] x.score > 0 /\ Kind(x) = "huggingface" -> Unit * x.score
                  [] x.score > 0 /\ Kind(x) # "huggingface" ->
                        IF ~byBirth /\ ~x.dated THEN 0
                        ELSE (Unit * x.score * (IF OnGitHub(x) THEN 24 ELSE 1)) \div hours
    IN  Min({Unit, (100 * pace) \div Threshold[Kind(x)]})

\* Relevance counts from 0.75 on.
Relevance(x) == Max({0, Min({Unit, (Unit * (x.relevance - 75)) \div 25})})

Recency(x) == IF x.dated THEN Max({0, Unit - (Unit * x.age) \div RecencyWindow}) ELSE 0

Topic(x) == (Unit * TopicWeight[x.topic]) \div 100

Score(x) ==
    IF HasVelocity(x)
    THEN 35 * Velocity(x) + 30 * Relevance(x) + 20 * Recency(x) + 15 * Topic(x)
    ELSE 45 * Relevance(x) + 30 * Recency(x) + 25 * Topic(x)
=============================================================================
