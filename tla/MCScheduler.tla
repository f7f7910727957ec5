----------------------------- MODULE MCScheduler -----------------------------
\* Two tiers, one with a single source and one with two, as tier1_hn and
\* tier2_rss_gh_hf_ws.
EXTENDS Scheduler, TLC

CONSTANTS hn, rss, gh, tier1, tier2

MCSources == {hn, rss, gh}
MCTiers == {tier1, tier2}
MCTierSources == tier1 :> {hn} @@ tier2 :> {rss, gh}
=============================================================================
