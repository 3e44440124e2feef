----------------------------- MODULE MCCreation -----------------------------
\* Instances of Creation for TLC.
EXTENDS Creation, TLC

CallerSymmetry == Permutations(Caller)
=============================================================================
