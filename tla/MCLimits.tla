------------------------------ MODULE MCLimits ------------------------------
(* Two keys, a minute of two ticks.                                        *)
EXTENDS Limits, TLC

CONSTANTS k1, k2

MCKeys == {k1, k2}
Symmetry == Permutations(MCKeys)
=============================================================================
