-------------------------------- MODULE Undo --------------------------------
(***************************************************************************)
(* The daemon's two ways back: snapshots (Snapshots) and compensations,    *)
(* reverse commands registered for receipts (internal/chain/chain.go,      *)
(* handleRegisterCompensate and handleCompensate in                        *)
(* internal/daemon/handlers.go).  Both run on the daemon's connections,    *)
(* and a reverse command changes the workspace that snapshots capture and  *)
(* restore.                                                                *)
(***************************************************************************)
EXTENDS Snapshots

CONSTANT MaxComps  \* bound: compensations registered

VARIABLES
  comps,  \* the compensations table by id: [idx, executed]
  undo,   \* connection -> the handleCompensate call it is in
  worked  \* history: ids whose command has succeeded

compVars == <<comps, undo, worked>>
vars == <<snapVars, compVars>>

\* todo: the ids GetCompensations returned; failed: whether one failed.
\* For the properties: asked, what the request is about, and log, the ids
\* whose command was run, in order.
Resting == [pc |-> "idle", todo |-> <<>>, failed |-> FALSE, asked |-> {}, log |-> <<>>]

Init ==
  /\ SnapInit
  /\ comps = <<>>
  /\ undo = [c \in Conns |-> Resting]
  /\ worked = {}

Free(c) == job[c] = Idle /\ undo[c] = Resting

-----------------------------------------------------------------------------
RegisterCompensate_AnyIndex(c) ==
  /\ Free(c)
  /\ Len(comps) < MaxComps
  /\ \E i \in 1..MaxTip : comps' = Append(comps, [idx |-> i, executed |-> FALSE])
  /\ UNCHANGED <<snapVars, undo, worked>>

\* The receipt is looked up for its index and the command saved.  An unknown
\* receipt and a command with unsafe characters are error replies.
RegisterCompensate(c) ==
  /\ Free(c)
  /\ Len(comps) < MaxComps
  /\ \E i \in 1..tip : comps' = Append(comps, [idx |-> i, executed |-> FALSE])
  /\ UNCHANGED <<snapVars, undo, worked>>

AtOrAbove(i) == {n \in DOMAIN comps : comps[n].idx >= i}

\* The rows of AtOrAbove(i), in every order.
Orders(i) == UNION {Bijection(1..n, AtOrAbove(i)) : n \in 0..Len(comps)}

GetCompensations_Ascending(i) ==
  {s \in Orders(i) :
     \A m, n \in DOMAIN s : m < n => comps[s[m]].idx <= comps[s[n]].idx}

\* ORDER BY chain_index DESC, ties in no stated order; executed ones included.
GetCompensations(i) ==
  {s \in Orders(i) :
     \A m, n \in DOMAIN s : m < n => comps[s[m]].idx >= comps[s[n]].idx}

\* Index 0 is an error reply; a dry run, and no compensation found, only reply.
Compensate(c, i) ==
  /\ Free(c)
  /\ i > 0
  /\ ops < MaxOps
  /\ ops' = ops + 1
  /\ \E s \in GetCompensations(i) :
       /\ s # <<>>
       /\ undo' = [undo EXCEPT ![c] = [Resting EXCEPT
            !.pc = "run", !.todo = s, !.asked = {n \in DOMAIN comps : comps[n].idx >= i}]]
  /\ UNCHANGED <<tip, ws, writes, disk, rows, job, made, comps, worked>>

\* The command changes a file of the workspace or none of them.
CommandEffect ==
  \/ /\ \E f \in Files : FileChanges(f)
     /\ job' = Disturbed(job, 0)
  \/ UNCHANGED <<ws, writes, job>>

\* executeCompensation returns nil.
CommandWorks(c) ==
  /\ undo[c].pc = "run"
  /\ undo[c].todo # <<>>
  /\ CommandEffect
  /\ worked' = worked \cup {Head(undo[c].todo)}
  /\ undo' = [undo EXCEPT ![c] = [undo[c] EXCEPT !.pc = "mark", !.log = Append(@, Head(undo[c].todo))]]
  /\ UNCHANGED <<tip, disk, rows, ops, made, comps>>

CommandFails_Marked(c) ==
  /\ undo[c].pc = "run"
  /\ undo[c].todo # <<>>
  /\ CommandEffect
  /\ undo' = [undo EXCEPT ![c] = [undo[c] EXCEPT !.pc = "mark", !.failed = TRUE]]
  /\ UNCHANGED <<tip, disk, rows, ops, made, comps, worked>>

\* A command that is not allowed, fails or runs out of its 30 seconds, having
\* perhaps done some of its work.  The loop goes on with the next one.
CommandFails(c) ==
  /\ undo[c].pc = "run"
  /\ undo[c].todo # <<>>
  /\ CommandEffect
  /\ undo' = [undo EXCEPT ![c] = [undo[c] EXCEPT !.todo = Tail(@), !.failed = TRUE]]
  /\ UNCHANGED <<tip, disk, rows, ops, made, comps, worked>>

\* MarkCompensationExecuted, whose error is dropped.
MarkExecuted(c) ==
  /\ undo[c].pc = "mark"
  /\ \/ comps' = [comps EXCEPT ![Head(undo[c].todo)].executed = TRUE]
     \/ UNCHANGED comps
  /\ undo' = [undo EXCEPT ![c] = [undo[c] EXCEPT !.todo = Tail(@), !.pc = "run"]]
  /\ UNCHANGED <<snapVars, worked>>

CompensateReplies(c) ==
  /\ undo[c].pc = "run"
  /\ undo[c].todo = <<>>
  /\ undo' = [undo EXCEPT ![c].pc = "replied"]
  /\ UNCHANGED <<snapVars, comps, worked>>

CompensateEnds(c) ==
  /\ undo[c].pc = "replied"
  /\ undo' = [undo EXCEPT ![c] = Resting]
  /\ UNCHANGED <<snapVars, comps, worked>>

Crash ==
  /\ SnapCrash
  /\ undo' = [c \in Conns |-> Resting]
  /\ UNCHANGED <<comps, worked>>

-----------------------------------------------------------------------------
Snapshot(c) ==
  /\ \/ /\ Free(c)
        /\ \/ \E a \in Agents : handleSnapshot(c, a) \/ CaptureDifferential(c, a, tip)
           \/ \E i \in 0..MaxTip : handleRestore(c, i)
           \/ \E r \in Range(rows) : RestoreDiff(c, r)
     \/ SnapStep(c)
  /\ UNCHANGED compVars

Others ==
  /\ Receipt \/ AgentWrites \/ \E i \in 0..MaxTip : Delete(i)
  /\ UNCHANGED compVars

Compensation(c) ==
  \/ RegisterCompensate(c)
  \/ \E i \in 0..MaxTip : Compensate(c, i)
  \/ CommandWorks(c) \/ CommandFails(c) \/ MarkExecuted(c)
  \/ CompensateReplies(c) \/ CompensateEnds(c)

Next == Others \/ Crash \/ \E c \in Conns : Snapshot(c) \/ Compensation(c)

Spec == Init /\ [][Next]_vars

-----------------------------------------------------------------------------
\* Every variable has the type the code gives it; a compensation names a
\* receipt of the chain, and a connection is in one request at most.
TypeOK ==
  /\ tip \in 0..MaxTip
  /\ ws \in [Files -> [v : Versions, sec : BOOLEAN]]
  /\ writes \in 0..MaxWrites
  /\ \A k \in Keys : disk[k].kind \in {"none", "empty", "torn", "archive"}
  /\ \A r \in Range(rows) : r.key \in Keys /\ r.base \in Keys \cup {NoKey}
  /\ \A c \in Conns : job[c].left \subseteq Files /\ job[c].key \in Keys \cup {NoKey}
  /\ ops \in 0..MaxOps
  /\ made \in [Keys -> 0..2]
  /\ \A n \in DOMAIN comps : comps[n].idx \in 1..tip
  /\ \A c \in Conns : Free(c) \/ job[c] = Idle \/ undo[c] = Resting

(* A reply that reports success means undone: every compensation that was  *)
(* registered at or above the index when the request was made has had its  *)
(* command run by this request and succeed, newest receipt first, whatever *)
(* other requests register, run or mark meanwhile.                         *)
SuccessMeansUndone ==
  \A c \in Conns :
    undo[c].pc = "replied" /\ ~ undo[c].failed =>
      /\ Range(undo[c].log) = undo[c].asked
      /\ \A m, n \in DOMAIN undo[c].log :
           m < n => comps[undo[c].log[m]].idx >= comps[undo[c].log[n]].idx

(* A compensation is recorded as executed only if its command did succeed, *)
(* across crashes and concurrent requests.                                 *)
ExecutedWorked == \A n \in DOMAIN comps : comps[n].executed => n \in worked
=============================================================================
