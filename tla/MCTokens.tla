------------------------------ MODULE MCTokens ------------------------------
(* Tokens for TLC: two callers, two agents, two tokens.                    *)
EXTENDS Tokens, TLC

CONSTANTS c1, c2, a1, a2, i1, i2

MCCallers == {c1, c2}
MCIds == {i1, i2}
MCAgents == {a1, a2}
Symmetry == Permutations(MCCallers) \cup Permutations(MCIds) \cup Permutations(MCAgents)
=============================================================================
