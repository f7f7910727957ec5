----------------------------- MODULE MCBackfill -----------------------------
(* Instances of Backfill for TLC.  Two HackerNews stories of different months *)
(* point to one url; a repository has the url of a row the pipeline stored.   *)
EXTENDS Backfill

Item(n, t, u) == [id |-> n, title |-> t, url |-> u]

MCSources == <<"hackernews", "github">>

MCPublished ==
    [s \in {"hackernews", "github"} |-> [m \in 1..2 |->
        IF s = "hackernews"
        THEN IF m = 1 THEN {Item(1, "story", "u1"), Item(2, "tool", "u2")}
             ELSE {Item(3, "again", "u1")}
        ELSE IF m = 1 THEN {} ELSE {Item(4, "repo", "u3")}]]

MCModels == {Item(5, "model", "u4")}
MCRelevant == {i \in Items : i.title # "tool"}
MCPipelineRows == {[title |-> "seen", url |-> "u3"]}
=============================================================================
