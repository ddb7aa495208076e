------------------------------- MODULE Chain -------------------------------
(***************************************************************************)
(* The receipt chain of internal/chain: the SQLite tables `receipts` and   *)
(* `anchors`, the in-memory tip kept by Chain, the mutex Chain.mu, the     *)
(* hybrid logical clock that stamps receipts, and the goroutines that call *)
(* AppendNew, Prune and VerifyChain.  The process may crash at any step    *)
(* and be opened again; the wall clock may be set back; a SQL statement    *)
(* may fail; a stored receipt may be damaged on disk.                      *)
(*                                                                         *)
(* AppendNew and Prune hold Chain.mu from their first to their last line,  *)
(* so what they do before their first SQL write is one step.  VerifyChain  *)
(* takes no lock: its two queries are two steps.  Each SQL statement is    *)
(* atomic (database/sql with one connection, auto-commit).                 *)
(***************************************************************************)
EXTENDS Naturals, Sequences, FiniteSets, Receipts

CONSTANTS
  Threads,    \* goroutines that call into the chain
  NoThread,   \* the value of a mutex nobody holds
  Window,     \* receipts Prune must leave before the tip (10 in prune.go)
  MaxLen,     \* bound: receipts ever appended
  MaxWall,    \* bound: readings of the wall clock
  MaxTime,    \* bound: values of the logical clock
  MaxDamage   \* bound: stored receipts damaged at the same time

ASSUME ChainAssumption ==
  /\ NoThread \notin Threads
  /\ Damaged \notin Body
  /\ Window \in Nat \ {0}
  /\ MaxLen \in Nat
  /\ MaxWall \in Nat \ {0}
  /\ MaxTime \in Nat
  /\ MaxDamage \in Nat

VARIABLES
  receipts,   \* table receipts: chain_index -> [prev, hash, raw]
  anchors,    \* table anchors: the set of [from, to, leaves]
  up,         \* the process runs and holds the chain open
  lastIdx,    \* Chain.lastIdx
  lastHash,   \* Chain.lastHash
  hlc,        \* HLC.physical
  mu,         \* holder of Chain.mu, or NoThread
  pc,         \* where each goroutine is inside its call
  made,       \* AppendNew: the row about to be inserted
  upTo,       \* Prune: its argument
  seen,       \* VerifyChain: anchorToIndex, read by ListAnchors
  log,        \* history: every receipt ever inserted, in order
  boot,       \* history: Len(log) when the chain was last opened
  calm        \* history: no Prune has disturbed this VerifyChain

durable == <<receipts, anchors>>
memory  == <<up, lastIdx, lastHash, hlc>>
locals  == <<pc, made, upTo, seen>>
history == <<log, boot, calm>>
vars    == <<durable, memory, mu, locals, history>>

-----------------------------------------------------------------------------
NoRow == Row(Receipt(0, GenesisHash, Damaged, 0))

\* The highest stored chain_index, 0 for an empty table.
TopOf(S) == IF S = {} THEN 0 ELSE CHOOSE i \in S : \A j \in S : j <= i
LeastOf(S) == CHOOSE i \in S : \A j \in S : i <= j

-----------------------------------------------------------------------------
Init ==
  /\ receipts = [i \in {} |-> NoRow]
  /\ anchors = {}
  /\ up = TRUE
  /\ lastIdx = 0
  /\ lastHash = GenesisHash
  /\ hlc = 0
  /\ mu = NoThread
  /\ pc = [t \in Threads |-> "idle"]
  /\ made = [t \in Threads |-> NoRow]
  /\ upTo = [t \in Threads |-> 0]
  /\ seen = [t \in Threads |-> 0]
  /\ log = << >>
  /\ boot = 0
  /\ calm = [t \in Threads |-> FALSE]

\* Mutant of Now: the wall clock is taken as it is.
Now_WallOnly(w) == w

\* HLC.Now, when time.Now() says w: follow the wall clock when it is ahead,
\* count otherwise.  The host may set its clock back, so w is any reading.
Now(w) == IF w > hlc THEN w ELSE hlc + 1

Ticks == {ts \in {Now(w) : w \in 1..MaxWall} : ts <= MaxTime}

\* The deferred Unlock; the locals of the call are gone.
Return(t) ==
  /\ pc' = [pc EXCEPT ![t] = "idle"]
  /\ mu' = NoThread
  /\ made' = [made EXCEPT ![t] = NoRow]
  /\ upTo' = [upTo EXCEPT ![t] = 0]

-----------------------------------------------------------------------------
(* AppendNew.                                                              *)

\* Mutant of AppendNew: the index is counted up twice.
AppendNew_SkipsIndex(t) ==
  /\ up
  /\ pc[t] = "idle"
  /\ mu = NoThread
  /\ Len(log) < MaxLen
  /\ \E b \in Body, ts \in Ticks :
       /\ hlc' = ts
       /\ made' = [made EXCEPT ![t] = Row(Receipt(lastIdx + 2, lastHash, b, ts))]
  /\ mu' = t
  /\ pc' = [pc EXCEPT ![t] = "insert"]
  /\ UNCHANGED <<durable, up, lastIdx, lastHash, upTo, seen, history>>

\* Lock, build on the tip, stamp, sign, validate and hash.
AppendNew(t) ==
  /\ up
  /\ pc[t] = "idle"
  /\ mu = NoThread
  /\ Len(log) < MaxLen
  /\ \E b \in Body, ts \in Ticks :
       /\ hlc' = ts
       /\ made' = [made EXCEPT ![t] = Row(Receipt(lastIdx + 1, lastHash, b, ts))]
  /\ mu' = t
  /\ pc' = [pc EXCEPT ![t] = "insert"]
  /\ UNCHANGED <<durable, up, lastIdx, lastHash, upTo, seen, history>>

\* Sign or validateReceipt refuses the receipt: the clock has ticked already.
AppendRefused(t) ==
  /\ up
  /\ pc[t] = "idle"
  /\ mu = NoThread
  /\ hlc' \in Ticks
  /\ UNCHANGED <<durable, up, lastIdx, lastHash, mu, locals, history>>

\* INSERT INTO receipts, which has chain_index for its primary key.
InsertRow(t) ==
  /\ pc[t] = "insert"
  /\ made[t].raw.index \notin DOMAIN receipts
  /\ receipts' = [i \in DOMAIN receipts \cup {made[t].raw.index} |->
                    IF i = made[t].raw.index THEN made[t] ELSE receipts[i]]
  /\ log' = Append(log, made[t].raw)
  /\ pc' = [pc EXCEPT ![t] = "commit"]
  /\ UNCHANGED <<anchors, memory, mu, made, upTo, seen, boot, calm>>

\* The INSERT fails: the index is taken, or the database refuses the write.
InsertFails(t) ==
  /\ pc[t] = "insert"
  /\ Return(t)
  /\ UNCHANGED <<durable, memory, seen, history>>

\* Mutant of AppendReturns: the hash of the tip is not moved.
AppendReturns_OldHash(t) ==
  /\ pc[t] = "commit"
  /\ lastIdx' = made[t].raw.index
  /\ Return(t)
  /\ UNCHANGED <<durable, up, hlc, lastHash, seen, history>>

\* Move the tip and unlock.
AppendReturns(t) ==
  /\ pc[t] = "commit"
  /\ lastIdx' = made[t].raw.index
  /\ lastHash' = made[t].hash
  /\ Return(t)
  /\ UNCHANGED <<durable, up, hlc, seen, history>>

-----------------------------------------------------------------------------
(* Prune.                                                                  *)

\* The rows that Prune(n) loads, anchors and deletes.
Below(n) == {i \in DOMAIN receipts : i <= n}

\* Mutant of MayPrune: the safety window is off by one.
MayPrune_ToTheTip(n) == n <= lastIdx

\* Prune's argument checks.
MayPrune(n) == n < lastIdx /\ lastIdx - n >= Window

\* Mutant of Anchor: the load stops before the last row.
Anchor_MissesLast(n) ==
  [from |-> LeastOf(Below(n)), to |-> n,
   leaves |-> [i \in Below(n) \ {n} |-> receipts[i].raw]]

\* The anchor stands for the rows it replaces: its Merkle tree has their raw
\* JSON for leaves.
Anchor(n) ==
  [from |-> LeastOf(Below(n)), to |-> n,
   leaves |-> [i \in Below(n) |-> receipts[i].raw]]

\* Lock, check, load the rows and INSERT the anchor.  A call that is refused
\* or fails up to here changes nothing.
Prune(t, n) ==
  /\ up
  /\ pc[t] = "idle"
  /\ mu = NoThread
  /\ MayPrune(n)
  /\ Below(n) # {}
  /\ anchors' = anchors \cup {Anchor(n)}
  /\ upTo' = [upTo EXCEPT ![t] = n]
  /\ mu' = t
  /\ pc' = [pc EXCEPT ![t] = "delete"]
  /\ UNCHANGED <<receipts, memory, made, seen, history>>

\* Mutant of DeletePruned: the comparison takes one row more.
DeletePruned_OneMore(t) ==
  /\ pc[t] = "delete"
  /\ receipts' = [i \in DOMAIN receipts \ Below(upTo[t] + 1) |-> receipts[i]]
  /\ calm' = [u \in Threads |-> FALSE]
  /\ Return(t)
  /\ UNCHANGED <<anchors, memory, seen, log, boot>>

\* DELETE FROM receipts, a statement of its own: no transaction spans the two.
DeletePruned(t) ==
  /\ pc[t] = "delete"
  /\ receipts' = [i \in DOMAIN receipts \ Below(upTo[t]) |-> receipts[i]]
  /\ calm' = [u \in Threads |-> FALSE]
  /\ Return(t)
  /\ UNCHANGED <<anchors, memory, seen, log, boot>>

\* The DELETE fails and Prune returns the error; the anchor stays.
DeleteFails(t) ==
  /\ pc[t] = "delete"
  /\ Return(t)
  /\ UNCHANGED <<durable, memory, seen, history>>

-----------------------------------------------------------------------------
(* VerifyChain.                                                            *)

\* ListAnchors orders by from_index through the index (from_index, to_index).
Before(a, b) == a.from < b.from \/ (a.from = b.from /\ a.to <= b.to)
\* Mutant of LastAnchorTo: the first anchor is taken for the last.
LastAnchorTo_First ==
  IF anchors = {} THEN 0
  ELSE (CHOOSE a \in anchors : \A b \in anchors : Before(a, b)).to

LastAnchorTo ==
  IF anchors = {} THEN 0
  ELSE (CHOOSE a \in anchors : \A b \in anchors : Before(b, a)).to

\* A row is still stored although an anchor stands for it.
Torn == \E a \in anchors : Below(a.to) # {}

VerifyChain(t) ==
  /\ up
  /\ pc[t] = "idle"
  /\ seen' = [seen EXCEPT ![t] = LastAnchorTo]
  /\ calm' = [calm EXCEPT ![t] = ~Torn]
  /\ pc' = [pc EXCEPT ![t] = "walk"]
  /\ UNCHANGED <<durable, memory, mu, made, upTo, log, boot>>

\* What the walk finds at row i, having read anchorToIndex = n.
LinkBroken(i, n) ==
  IF i = LeastOf(DOMAIN receipts)
  THEN ~(n > 0 /\ i = n + 1) /\ (i # 1 \/ receipts[i].prev # GenesisHash)
  ELSE receipts[i].prev # receipts[TopOf({j \in DOMAIN receipts : j < i})].hash

\* Mutant of HashMismatch: the first row, checked against the anchor, is skipped.
HashMismatch_NotFirst(i) ==
  /\ i # LeastOf(DOMAIN receipts)
  /\ ComputeHash(receipts[i].raw) # receipts[i].hash

HashMismatch(i) == ComputeHash(receipts[i].raw) # receipts[i].hash

BrokenAt(n) == {i \in DOMAIN receipts : LinkBroken(i, n) \/ HashMismatch(i)}

\* VerificationResult of the walk, which ascends and stops at the first fault.
\* FirstBrokenAt is 0 here where the code has -1.
Valid == [valid |-> TRUE, at |-> 0]
Verification(n) ==
  IF BrokenAt(n) = {} THEN Valid
  ELSE [valid |-> FALSE, at |-> LeastOf(BrokenAt(n))]

\* One SELECT over the table; the walk returns Verification(seen[t]).
WalkRows(t) ==
  /\ pc[t] = "walk"
  /\ pc' = [pc EXCEPT ![t] = "idle"]
  /\ seen' = [seen EXCEPT ![t] = 0]
  /\ calm' = [calm EXCEPT ![t] = FALSE]
  /\ UNCHANGED <<durable, memory, mu, made, upTo, log, boot>>

-----------------------------------------------------------------------------
(* The process and its environment.                                        *)

\* The process dies between two statements: memory is gone, tables stay.
Crash ==
  /\ up
  /\ up' = FALSE
  /\ mu' = NoThread
  /\ pc' = [t \in Threads |-> "idle"]
  /\ made' = [t \in Threads |-> NoRow]
  /\ upTo' = [t \in Threads |-> 0]
  /\ seen' = [t \in Threads |-> 0]
  /\ lastIdx' = 0
  /\ lastHash' = GenesisHash
  /\ hlc' = 0
  /\ calm' = [t \in Threads |-> FALSE]
  /\ UNCHANGED <<durable, log, boot>>

\* Mutant of Open: the tip is read in ascending order.
Open_Ascending ==
  /\ ~up
  /\ up' = TRUE
  /\ lastIdx' = IF DOMAIN receipts = {} THEN 0 ELSE LeastOf(DOMAIN receipts)
  /\ lastHash' = IF DOMAIN receipts = {} THEN GenesisHash
                 ELSE receipts[LeastOf(DOMAIN receipts)].hash
  /\ hlc' = 0
  /\ boot' = Len(log)
  /\ UNCHANGED <<durable, mu, locals, log, calm>>

\* Open reads the tip back from the table; the clock starts from zero.
Open ==
  /\ ~up
  /\ up' = TRUE
  /\ lastIdx' = TopOf(DOMAIN receipts)
  /\ lastHash' = IF DOMAIN receipts = {} THEN GenesisHash
                 ELSE receipts[TopOf(DOMAIN receipts)].hash
  /\ hlc' = 0
  /\ boot' = Len(log)
  /\ UNCHANGED <<durable, mu, locals, log, calm>>

Altered(r) == Receipt(r.index, r.prev, Damaged, r.ts)

\* The stored JSON of one receipt is altered behind the chain's back.
DamagedRows == {i \in DOMAIN receipts : receipts[i].raw # log[i]}

DamageRow ==
  /\ \E i \in DOMAIN receipts \ DamagedRows :
       receipts' = [receipts EXCEPT ![i] =
                      [prev |-> @.prev, hash |-> @.hash, raw |-> Altered(@.raw)]]
  /\ Cardinality(DamagedRows) < MaxDamage
  /\ UNCHANGED <<anchors, memory, mu, locals, history>>

-----------------------------------------------------------------------------
Step(t) ==
  \/ InsertRow(t) \/ InsertFails(t) \/ AppendReturns(t)
  \/ DeletePruned(t) \/ DeleteFails(t)
  \/ WalkRows(t)

Call(t) ==
  \/ AppendNew(t) \/ AppendRefused(t)
  \/ \E n \in 1..MaxLen : Prune(t, n)
  \/ VerifyChain(t)

Next ==
  \/ \E t \in Threads : Call(t) \/ Step(t)
  \/ Crash \/ Open \/ DamageRow

Spec == Init /\ [][Next]_vars

-----------------------------------------------------------------------------
(* What must hold.                                                         *)

States == {"idle", "insert", "commit", "delete", "walk"}

\* Every variable has the type the code gives it.
TypeOK ==
  /\ DOMAIN receipts \subseteq 1..Len(log)
  /\ \A a \in anchors : a.from \in 1..Len(log) /\ a.to \in a.from..Len(log)
  /\ up \in BOOLEAN
  /\ lastIdx \in Nat
  /\ hlc \in Nat
  /\ mu \in Threads \cup {NoThread}
  /\ pc \in [Threads -> States]
  /\ DOMAIN made = Threads
  /\ upTo \in [Threads -> Nat]
  /\ seen \in [Threads -> Nat]
  /\ boot \in 0..Len(log)
  /\ calm \in [Threads -> BOOLEAN]

\* The receipts that are still stored are the last ones, without a gap, and
\* the columns of each are those written for it: its own hash and that of its
\* predecessor (AppendNew, through crashes, failed statements and pruning).
ChainLinked ==
  /\ \A i \in DOMAIN receipts : \A j \in i..Len(log) : j \in DOMAIN receipts
  /\ \A i \in DOMAIN receipts :
       /\ log[i].index = i
       /\ receipts[i].hash = ComputeHash(log[i])
       /\ receipts[i].prev = IF i = 1 THEN GenesisHash ELSE ComputeHash(log[i - 1])

\* Whenever Chain.mu is free, the tip in memory is the tip of the table, so
\* the next AppendNew builds on what is stored.
TipMatchesStore ==
  up /\ mu = NoThread =>
    /\ lastIdx = Len(log)
    /\ lastHash = IF log = << >> THEN GenesisHash ELSE receipts[Len(log)].hash

\* A receipt leaves the table only after an anchor with it among its leaves
\* was stored: Prune, or a crash inside it, loses none.
NoneLost ==
  \A i \in 1..Len(log) \ DOMAIN receipts :
    \E a \in anchors :
      /\ i \in a.from..a.to
      /\ i \in DOMAIN a.leaves
      /\ a.leaves[i].index = i

\* Prune leaves the last Window receipts in the table, whatever was appended
\* or crashed since.
WindowKept ==
  \A i \in 1..Len(log) : i + Window > Len(log) => i \in DOMAIN receipts

\* Between two openings of the chain HLC.Now stamps every receipt later than
\* the one before, even when the wall clock goes back.
StampsRiseSinceOpen ==
  \A i, j \in (boot + 1)..Len(log) : i < j => log[i].ts < log[j].ts

\* VerifyChain never calls a table valid that holds a damaged receipt, even
\* when a Prune runs at the same time.
VerifySound ==
  \A t \in Threads :
    pc[t] = "walk" /\ Verification(seen[t]).valid => DamagedRows = {}

\* Undisturbed by a Prune, VerifyChain is exact: valid without damage, and
\* otherwise broken at the first damaged receipt.
VerifyExact ==
  \A t \in Threads :
    pc[t] = "walk" /\ calm[t] =>
      Verification(seen[t]) = IF DamagedRows = {} THEN Valid
                              ELSE [valid |-> FALSE, at |-> LeastOf(DamagedRows)]

\* A chain without damage verifies at any time, pruned or not (verify.go:
\* "This allows VerifyChain to pass on a chain that has been legitimately
\* pruned").
PrunedChainVerifies ==
  \A t \in Threads :
    pc[t] = "walk" /\ DamagedRows = {} => Verification(seen[t]).valid

\* The chain as a reader of the hash column sees it.
Ledger == INSTANCE Ledger WITH
  entries <- [i \in 1..TopOf(DOMAIN receipts) |->
                IF i \in DOMAIN receipts THEN receipts[i].hash
                ELSE ComputeHash(log[i])],
  base <- IF DOMAIN receipts = {} THEN 0 ELSE LeastOf(DOMAIN receipts) - 1

\* The table implements the ledger: no step rewrites or reorders a hash, adds
\* one elsewhere than at the end, or prunes one of the last Window.
ImplementsLedger == Ledger!Spec
=============================================================================
