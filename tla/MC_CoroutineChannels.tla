------------------------ MODULE MC_CoroutineChannels ------------------------
EXTENDS CoroutineChannels, TLC

CONSTANTS v1, v2

ValueSymmetry == Permutations({v1, v2})
=============================================================================
