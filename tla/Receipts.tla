------------------------------ MODULE Receipts ------------------------------
(***************************************************************************)
(* Receipts as internal/receipt builds them and internal/chain stores      *)
(* them: what is hashed, and how a receipt names its predecessor.          *)
(***************************************************************************)
CONSTANTS
  Body,       \* what a caller records: agent, phase, action, payload hash ...
  Damaged     \* the body of a receipt whose stored JSON was altered

GenesisHash == <<"genesis">>

\* SHA-256 over the canonical JSON, taken to be free of collisions.
ComputeHash(r) == <<"sha256", r>>

Receipt(i, p, b, ts) == [index |-> i, prev |-> p, body |-> b, ts |-> ts]

\* A row of the table receipts: two columns lifted out, and the raw JSON.
Row(r) == [prev |-> r.prev, hash |-> ComputeHash(r), raw |-> r]
=============================================================================
