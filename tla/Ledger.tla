------------------------------- MODULE Ledger -------------------------------
(***************************************************************************)
(* What the receipt chain promises to a reader of its hashes: entries are  *)
(* only ever added at the end, each one built on the hash before it; an    *)
(* entry never changes; and only an old prefix may become unreadable,      *)
(* never one of the last Window entries.                                   *)
(***************************************************************************)
EXTENDS Naturals, Sequences, Receipts

CONSTANTS Window, MaxTime

VARIABLES
  entries,    \* the hashes of all receipts, in order
  base        \* entries 1..base have been pruned

vars == <<entries, base>>

Init == entries = << >> /\ base = 0

TipHash == IF entries = << >> THEN GenesisHash ELSE entries[Len(entries)]

Add ==
  /\ \E b \in Body, ts \in 1..MaxTime :
       entries' = Append(entries,
                    ComputeHash(Receipt(Len(entries) + 1, TipHash, b, ts)))
  /\ base' = base

Discard ==
  /\ base' \in (base + 1)..Len(entries)
  /\ base' + Window <= Len(entries)
  /\ entries' = entries

Next == Add \/ Discard

Spec == Init /\ [][Next]_vars
=============================================================================
