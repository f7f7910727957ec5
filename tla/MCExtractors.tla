----------------------------- MODULE MCExtractors -----------------------------
(* Pages for Extractors: one id as a plain, a cross-listed, an old and a        *)
(* better post, and others around it.                                            *)
EXTENDS Extractors

Post(i, n) == [id |-> i, score |-> n, aside |-> FALSE, stale |-> FALSE, gone |-> FALSE]

MCPages ==
    { <<>>,
      <<Post("a", 1)>>,
      <<[Post("a", 1) EXCEPT !.aside = TRUE], Post("b", 2)>>,
      <<[Post("a", 1) EXCEPT !.stale = TRUE], Post("c", 0)>>,
      <<[Post("b", 2) EXCEPT !.gone = TRUE], Post("a", 1), Post("c", 0)>>,
      <<Post("d", 3), Post("d", 3), Post("b", 2)>> }
=============================================================================
