------------------------------ MODULE MCBroker ------------------------------
(* Broker for TLC: two callers and the goroutine of one credential.        *)
EXTENDS Broker
=============================================================================
