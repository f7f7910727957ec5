----------------------------- MODULE MCPipeline -----------------------------
\* Two runs whose feeds overlap: the same two articles, with titles and scores
\* that differ from one source to the other, so that a row's best scores may
\* come from different runs.  t1 and t2 are similar titles.
EXTENDS Pipeline, TLC

CONSTANTS r1, r2, u1, u2, t1, t2

MCRuns == {r1, r2}
MCUrls == {u1, u2}
MCTitles == {t1, t2}
MCSimilar == {<<t1, t1>>, <<t2, t2>>, <<t1, t2>>, <<t2, t1>>}

Article(u, t, s, v, c) ==
    [url |-> u, title |-> t, score |-> s, relevance |-> v, composite |-> c]

MCFeeds ==
    r1 :> {{Article(u1, t1, 1, 0, 0), Article(u2, t2, 0, 1, 1), Article(NoUrl, t1, 0, 0, 0)}}
 @@ r2 :> {{Article(u1, t2, 0, 1, 1), Article(u2, t2, 1, 0, 1)}, {}}

=============================================================================
