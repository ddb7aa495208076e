------------------------------- MODULE MCProxy -------------------------------
(* Two connections that compete for one slot.                              *)
EXTENDS Proxy, TLC

CONSTANTS k1, k2

MCKeys == {k1, k2}
Symmetry == Permutations(MCKeys)
=============================================================================
