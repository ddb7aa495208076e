----------------------------- MODULE MCClients -----------------------------
(* Two Python threads on one socket and one TypeScript caller.             *)
EXTENDS Clients, TLC

CONSTANTS p1, p2, t1
=============================================================================
