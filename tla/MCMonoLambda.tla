---------------------------- MODULE MCMonoLambda ----------------------------
(* Two keys and two republishes of three environments. *)
EXTENDS MonoLambda, TLC

CONSTANTS dev, test, prod

ThreeEnvironments == <<dev, test, prod>>
RequestSymmetry == Permutations(KeyRequest) \cup Permutations(Republisher)
=============================================================================
