------------------------------ MODULE MCChain ------------------------------
(* Chain for TLC: all bounds are constants of the configuration.           *)
EXTENDS Chain, TLC

CONSTANTS t1, t2

MCThreads == {t1, t2}
Symmetry == Permutations(MCThreads)
=============================================================================
