---------------------------- MODULE MCCampaigns ----------------------------
(* Small campaigns for TLC. *)
EXTENDS Campaigns

CONSTANTS u1, u2, w1, w2

\* No A/B test, halves, and one variant of 40 % next to the default one.
SmallSplits == {<<>>, <<50, 50>>, <<40>>}

=============================================================================
