---------------------------- MODULE MCCommitFile ----------------------------
\* Instances of CommitFile for TLC. Calls that have not started are alike.
EXTENDS CommitFile, TLC

WriterSymmetry == Permutations(Writer)
=============================================================================
