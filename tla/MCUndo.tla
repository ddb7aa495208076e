------------------------------- MODULE MCUndo -------------------------------
(* Two connections; two agents and two files for the snapshots, one of     *)
(* each when compensations run beside them.                                *)
EXTENDS Undo, TLC

CONSTANTS c1, c2, a1, a2

MCConns == {c1, c2}
MCAgents == {a1, a2}
OneAgent == {a1}
Symmetry == Permutations(MCConns) \cup Permutations(MCAgents)
ConnSymmetry == Permutations(MCConns)
=============================================================================
