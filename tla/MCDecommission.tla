--------------------------- MODULE MCDecommission ---------------------------
(* Two sweeps and a removal; two environments, taken in order. *)
EXTENDS Decommission, TLC

CONSTANTS dev, prod

DevThenProd == <<dev, prod>>
SweepSymmetry == Permutations(Sweep)
=============================================================================
