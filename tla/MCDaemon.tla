------------------------------ MODULE MCDaemon ------------------------------
(***************************************************************************)
(* Model checking of Daemon.                                               *)
(***************************************************************************)
EXTENDS Daemon, TLC

CONSTANTS c1, c2
MCClients == {c1, c2}
Symmetry == Permutations(MCClients)
=============================================================================
