---------------------------- MODULE MCShuttering ----------------------------
\* Instances of Shuttering for TLC.
EXTENDS Shuttering, TLC

CallerSymmetry == Permutations(Caller)
=============================================================================
