--------------------------- MODULE MCBurninCampaign ---------------------------
EXTENDS BurninCampaign, TLC
Symmetry == Permutations(Workers) \cup Permutations(Operators)
=============================================================================
