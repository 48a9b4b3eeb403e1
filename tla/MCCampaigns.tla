----------------------------- MODULE MCCampaigns -----------------------------
\* Small instances of Campaigns.
EXTENDS Campaigns, TLC

CONSTANTS w1, w2, r1, r2, e1, e2

Symmetry == Permutations(Workers) \cup Permutations(Recipients)
=============================================================================
