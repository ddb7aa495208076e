----------------------------- MODULE Snapshots ------------------------------
(***************************************************************************)
(* Workspace snapshots (internal/snapshot): full and differential captures *)
(* into archives on disk, the rows that describe them in the chain's       *)
(* database, and restores.  Requests run on several connections while the  *)
(* agents go on writing to the workspace; Store.mu guards only the map of  *)
(* snapshotters, so captures and restores overlap freely.                  *)
(*                                                                         *)
(* A file is the number of the write that made it, 0 when it is missing,   *)
(* and whether its modification time is a whole second: archive/tar rounds *)
(* the times it stores, and Restore sets the rounded time on the file.     *)
(* The SHA-256 of an archive is the archive's bytes.                       *)
(***************************************************************************)
EXTENDS Integers, Sequences, FiniteSets, FiniteSetsExt

CONSTANTS
  Conns,      \* connections, one request at a time on each
  Agents,
  Files,      \* a set of naturals, in the order filepath.Walk visits them
  MaxTip,     \* bound: receipts appended
  MaxWrites,  \* bound: changes the agents make to the workspace
  MaxOps      \* bound: requests

ASSUME SnapshotsAssumption ==
  /\ 0 \notin Conns
  /\ Files \subseteq Nat
  /\ MaxTip \in Nat
  /\ MaxWrites \in Nat
  /\ MaxOps \in Nat

VARIABLES
  tip,     \* Chain.Tip
  ws,      \* the workspace: file -> [v, sec]
  writes,  \* changes made to it so far
  disk,    \* archives: path -> bytes
  rows,    \* the snapshots table: rowid -> row
  job,     \* connection -> the capture or restore it is in
  ops,     \* requests so far
  made     \* history: key -> archives created for it, 2 standing for more

snapVars == <<tip, ws, writes, disk, rows, job, ops, made>>

Types == {"filesystem", "filesystem-diff"}
Keys == Agents \X (0..MaxTip) \X Types
NoKey == <<>>
Versions == 0..MaxWrites
Nothing == [f \in Files |-> 0]
Present(e) == {f \in Files : e[f] # 0}

snapshotPath_NoAgent(k) == <<CHOOSE a \in Agents : TRUE, k[2], k[3]>>

\* The path is made of the agent, the type and the index.
snapshotPath(k) == k

\* Contents of an archive file: entries and deletion manifest once a writer
\* has closed it; n tells apart what overlapping writers leave.
Bytes(kind, e, del, n) == [kind |-> kind, e |-> e, del |-> del, n |-> n]
NoFile == Bytes("none", Nothing, {}, 0)
Truncated == Bytes("empty", Nothing, {}, 0)
Readable(b) == b.kind = "archive"

NoRow == [key |-> NoKey, base |-> NoKey, hash |-> NoFile, view |-> Nothing, scope |-> {}]

\* got and del are what a capture has put in its archive, left what it or a
\* restore still has to do; mixed: another capture wrote to the same file.
\* For the properties: seen and scope, the workspace when the difference was
\* taken and the files it is about; quiet, nobody else changed the workspace
\* since the restore began.
Idle == [pc |-> "idle", key |-> NoKey, base |-> NoKey,
         left |-> {}, got |-> Nothing, del |-> {}, hash |-> NoFile,
         mixed |-> FALSE, row |-> NoRow, seen |-> Nothing, scope |-> {}, quiet |-> TRUE]

SnapInit ==
  /\ tip = 0
  /\ ws = [f \in Files |-> [v |-> 0, sec |-> FALSE]]
  /\ writes = 0
  /\ disk = [k \in Keys |-> NoFile]
  /\ rows = <<>>
  /\ job = [c \in Conns |-> Idle]
  /\ ops = 0
  /\ made = [k \in Keys |-> 0]

Restoring(j) == j.pc \in {"base", "extractBase", "open", "extract", "done"}

\* The jobs after connection c (0 for an agent) changed the workspace.
Disturbed(J, c) ==
  [d \in Conns |-> IF d # c /\ Restoring(J[d]) THEN [J[d] EXCEPT !.quiet = FALSE] ELSE J[d]]

-----------------------------------------------------------------------------
(* The world around the store.                                             *)

\* A receipt is appended.
Receipt ==
  /\ tip < MaxTip
  /\ tip' = tip + 1
  /\ UNCHANGED <<ws, writes, disk, rows, job, ops, made>>

\* An agent writes or removes a file.
FileChanges(f) ==
  /\ writes < MaxWrites
  /\ writes' = writes + 1
  /\ \/ ws' = [ws EXCEPT ![f] = [v |-> writes + 1, sec |-> FALSE]]
     \/ ws[f].v # 0 /\ ws' = [ws EXCEPT ![f] = [v |-> 0, sec |-> FALSE]]

AgentWrites ==
  /\ \E f \in Files : FileChanges(f)
  /\ job' = Disturbed(job, 0)
  /\ UNCHANGED <<tip, disk, rows, ops, made>>

-----------------------------------------------------------------------------
(* Capture.                                                                *)

Begin(c, j) ==
  /\ job[c] = Idle
  /\ ops < MaxOps
  /\ ops' = ops + 1
  /\ job' = [job EXCEPT ![c] = j]
  /\ UNCHANGED <<tip, ws, writes, disk, rows, made>>

Capture(c, a, i) ==
  Begin(c, [Idle EXCEPT !.pc = "create", !.key = <<a, i, "filesystem">>])

\* The tip is read here and used as the index until the end.
handleSnapshot(c, a) == Capture(c, a, tip)

\* getLatestFullSnapshot: rows with the same index come in no stated order.
LatestFull(a) ==
  LET full == {r \in Range(rows) : r.key[1] = a /\ r.key[3] = "filesystem"} IN
  {r \in full : \A q \in full : q.key[2] <= r.key[2]}

added(b) == {f \in Files : ws[f].v # 0 /\ b.e[f] = 0}
modified(b) == {f \in Files : ws[f].v # 0 /\ b.e[f] # 0 /\ ~ (ws[f].v = b.e[f] /\ ws[f].sec)}
deleted(b) == {f \in Files : ws[f].v = 0 /\ b.e[f] # 0}

\* The difference is taken here, the files are read later.  An unreadable
\* base, and no change at all, are error replies.
CaptureDiff(c, a, i, r) ==
  LET b == disk[snapshotPath(r.key)]
      changed == added(b) \cup modified(b)
  IN
  /\ Readable(b)
  /\ changed \cup deleted(b) # {}
  /\ Begin(c, [Idle EXCEPT !.pc = "create", !.key = <<a, i, "filesystem-diff">>,
                           !.base = r.key, !.left = changed, !.del = deleted(b),
                           !.seen = [f \in Files |-> ws[f].v],
                           !.scope = {f \in Files : ws[f].v # 0 \/ b.e[f] # 0}])

\* Without a full snapshot of the agent a full one is captured.
CaptureDifferential(c, a, i) ==
  \/ LatestFull(a) = {} /\ Capture(c, a, i)
  \/ \E r \in LatestFull(a) : CaptureDiff(c, a, i, r)

\* Other captures that have the same file open.
SamePath(J, c) ==
  [d \in Conns |-> IF /\ d # c
                      /\ J[d].pc = "walk"
                      /\ snapshotPath(J[d].key) = snapshotPath(J[c].key)
                   THEN [J[d] EXCEPT !.mixed = TRUE]
                   ELSE J[d]]

\* os.Create, which truncates; filepath.Walk then lists the directory.
CreateArchive(c) ==
  LET j == job[c]
      full == j.key[3] = "filesystem"
      busy == \E d \in Conns \ {c} : /\ job[d].pc = "walk"
                                     /\ snapshotPath(job[d].key) = snapshotPath(j.key)
      left == IF full THEN {f \in Files : ws[f].v # 0} ELSE j.left
  IN
  /\ j.pc = "create"
  /\ disk' = [disk EXCEPT ![snapshotPath(j.key)] = Truncated]
  /\ made' = [made EXCEPT ![j.key] = IF @ = 0 THEN 1 ELSE 2]
  /\ job' = SamePath([job EXCEPT ![c] = [j EXCEPT !.pc = "walk", !.left = left, !.mixed = busy]], c)
  /\ UNCHANGED <<tip, ws, writes, rows, ops>>

\* The walk is in order, the changes of a difference come from a Go map.
Ahead(j) ==
  {f \in j.left : j.key[3] = "filesystem" => \A g \in j.left : f <= g}

ArchiveFile(c) ==
  /\ job[c].pc = "walk"
  /\ \E f \in Ahead(job[c]) :
       /\ ws[f].v # 0
       /\ job' = [job EXCEPT ![c] = [job[c] EXCEPT !.got = [@ EXCEPT ![f] = ws[f].v], !.left = @ \ {f}]]
  /\ UNCHANGED <<tip, ws, writes, disk, rows, ops, made>>

\* What closing the writers leaves on disk.  Writers that overlapped on one
\* file write at offsets of their own.
Flushed(j) ==
  LET whole == Bytes("archive", j.got, j.del, 0) IN
  IF j.mixed THEN {whole, Bytes("torn", Nothing, {}, ops)} ELSE {whole}

\* A file that is gone when the walk reaches it, or an I/O error: the
\* deferred closes leave what was archived so far, and no row is saved.
ArchiveFails(c) ==
  /\ job[c].pc = "walk"
  /\ \E b \in Flushed(job[c]) : disk' = [disk EXCEPT ![snapshotPath(job[c].key)] = b]
  /\ job' = [SamePath(job, c) EXCEPT ![c] = Idle]
  /\ UNCHANGED <<tip, ws, writes, rows, ops, made>>

CloseArchive(c) ==
  /\ job[c].pc = "walk"
  /\ job[c].left = {}
  /\ \E b \in Flushed(job[c]) : disk' = [disk EXCEPT ![snapshotPath(job[c].key)] = b]
  /\ job' = [SamePath(job, c) EXCEPT ![c].pc = "hash"]
  /\ UNCHANGED <<tip, ws, writes, rows, ops, made>>

\* The file is opened again and hashed as it now is.
HashArchive(c) ==
  /\ job[c].pc = "hash"
  /\ job' = [job EXCEPT ![c] = [@ EXCEPT !.hash = disk[snapshotPath(job[c].key)], !.pc = "save"]]
  /\ UNCHANGED <<tip, ws, writes, disk, rows, ops, made>>

\* What the capture saw of the workspace, recorded with the row for the
\* properties.
View(j) == [f \in Files |-> IF j.got[f] # 0 THEN j.got[f] ELSE j.seen[f]]

Row(j) == [key |-> j.key, base |-> j.base, hash |-> j.hash,
           view |-> View(j), scope |-> j.scope \cup Present(j.got)]

\* SQLite numbers a new row past the last one.
NextRow == 1 + Max(DOMAIN rows \cup {0})

save(c) ==
  /\ job[c].pc = "save"
  /\ rows' = [n \in DOMAIN rows \cup {NextRow} |-> IF n = NextRow THEN Row(job[c]) ELSE rows[n]]
  /\ job' = [job EXCEPT ![c] = Idle]
  /\ UNCHANGED <<tip, ws, writes, disk, ops, made>>

\* The insert fails: the archive stays without a row.
saveFails(c) ==
  /\ job[c].pc = "save"
  /\ job' = [job EXCEPT ![c] = Idle]
  /\ UNCHANGED <<tip, ws, writes, disk, rows, ops, made>>

-----------------------------------------------------------------------------
(* Restore.                                                                *)

\* getByChainIndex has no ORDER BY: both indexes it may use, and a scan of
\* the table, yield rows in rowid order.
getByChainIndex(t, i) ==
  LET hits == {n \in DOMAIN rows : rows[n].key[2] = i /\ rows[n].key[3] = t} IN
  {rows[n] : n \in {m \in hits : \A l \in hits : m <= l}}

\* An index without a snapshot and a type without a snapshotter (the
\* differential one) are error replies.
Restore(c, i) ==
  \E r \in getByChainIndex("filesystem", i) :
    Begin(c, [Idle EXCEPT !.pc = "open", !.key = r.key, !.row = r])

\* Index 0 is an error reply.
handleRestore(c, i) == i > 0 /\ Restore(c, i)

\* FileSystemSnap.Restore of a differential snapshot a caller of the package
\* holds: its base comes first.
RestoreDiff(c, r) ==
  /\ r.key[3] = "filesystem-diff"
  /\ Begin(c, [Idle EXCEPT !.pc = "base", !.key = r.key, !.row = r])

\* The base is opened without a hash to compare.
OpenBase(c) ==
  LET b == disk[snapshotPath(job[c].row.base)] IN
  /\ job[c].pc = "base"
  /\ job' = IF Readable(b)
            THEN [job EXCEPT ![c] = [@ EXCEPT !.pc = "extractBase", !.hash = b, !.left = Present(b.e)]]
            ELSE [job EXCEPT ![c] = Idle]
  /\ UNCHANGED <<tip, ws, writes, disk, rows, ops, made>>

Verified_Not(b, r) == Readable(b)

\* The hash is compared before anything is extracted.
Verified(b, r) == b = r.hash /\ Readable(b)

OpenArchive(c) ==
  LET b == disk[snapshotPath(job[c].key)] IN
  /\ job[c].pc = "open"
  /\ job' = IF Verified(b, job[c].row)
            THEN [job EXCEPT ![c] = [@ EXCEPT !.pc = "extract", !.hash = b,
                                          !.left = Present(b.e), !.del = b.del]]
            ELSE [job EXCEPT ![c] = Idle]
  /\ UNCHANGED <<tip, ws, writes, disk, rows, ops, made>>

\* A regular entry: the file is truncated and written, its time set.
ExtractFile(c) ==
  /\ job[c].pc \in {"extractBase", "extract"}
  /\ \E f \in Ahead(job[c]) :
       /\ ws' = [ws EXCEPT ![f] = [v |-> job[c].hash.e[f], sec |-> TRUE]]
       /\ job' = [Disturbed(job, c) EXCEPT ![c].left = @ \ {f}]
  /\ UNCHANGED <<tip, writes, disk, rows, ops, made>>

\* An I/O error, or an archive rewritten under the reader: what was
\* extracted stays.
ExtractFails(c) ==
  /\ job[c].pc \in {"extractBase", "extract"}
  /\ job[c].left # {}
  /\ job' = [job EXCEPT ![c] = Idle]
  /\ UNCHANGED <<tip, ws, writes, disk, rows, ops, made>>

BaseDone(c) ==
  /\ job[c].pc = "extractBase"
  /\ job[c].left = {}
  /\ job' = [job EXCEPT ![c].pc = "open"]
  /\ UNCHANGED <<tip, ws, writes, disk, rows, ops, made>>

RemoveDeleted_Skips(c) ==
  /\ job[c].pc = "extract"
  /\ job[c].left = {}
  /\ job' = [job EXCEPT ![c].pc = "done"]
  /\ UNCHANGED <<tip, ws, writes, disk, rows, ops, made>>

\* The files of the deletion manifest are removed last.
RemoveDeleted(c) ==
  /\ job[c].pc = "extract"
  /\ job[c].left = {}
  /\ ws' = [f \in Files |-> IF f \in job[c].del THEN [v |-> 0, sec |-> FALSE] ELSE ws[f]]
  /\ job' = [IF ws' = ws THEN job ELSE Disturbed(job, c) EXCEPT ![c].pc = "done"]
  /\ UNCHANGED <<tip, writes, disk, rows, ops, made>>

\* The reply is sent.
Restored(c) ==
  /\ job[c].pc = "done"
  /\ job' = [job EXCEPT ![c] = Idle]
  /\ UNCHANGED <<tip, ws, writes, disk, rows, ops, made>>

-----------------------------------------------------------------------------
\* Delete removes rows; the archives stay.
Delete(i) ==
  /\ ops < MaxOps
  /\ ops' = ops + 1
  /\ rows' = Restrict(rows, {n \in DOMAIN rows : rows[n].key[2] < i})
  /\ UNCHANGED <<tip, ws, writes, disk, job, made>>

\* The daemon dies; rows, archives and the workspace are what is left.
SnapCrash ==
  /\ job' = [c \in Conns |-> Idle]
  /\ UNCHANGED <<tip, ws, writes, disk, rows, ops, made>>

SnapStep(c) ==
  \/ CreateArchive(c) \/ ArchiveFile(c) \/ ArchiveFails(c) \/ CloseArchive(c)
  \/ HashArchive(c) \/ save(c) \/ saveFails(c)
  \/ OpenBase(c) \/ OpenArchive(c) \/ ExtractFile(c) \/ ExtractFails(c)
  \/ BaseDone(c) \/ RemoveDeleted(c) \/ Restored(c)

-----------------------------------------------------------------------------
(* A row describes the archive it names as long as its agent has not       *)
(* captured that index again: no other agent, index or type, no failed     *)
(* capture, restore, deletion of rows or crash damages it, and the bytes   *)
(* hashed after the archive was closed are the ones the walk archived.     *)
RowsIntact ==
  \A r \in Range(rows) :
    made[r.key] = 1 =>
      /\ disk[snapshotPath(r.key)] = r.hash
      /\ Readable(r.hash)
      /\ \A f \in Present(r.hash.e) : r.hash.e[f] = r.view[f]

(* A restore that reports success, with no other change to the workspace   *)
(* while it ran, has given every file the capture saw the contents it had  *)
(* then, and removed those it saw deleted; for a differential snapshot     *)
(* that includes what it left to its base.  Archives captured again are    *)
(* excepted: a base is read without a hash.                                *)
RestoreReproduces ==
  \A c \in Conns :
    LET j == job[c] IN
    /\ j.pc = "done"
    /\ j.quiet
    /\ made[j.key] = 1
    /\ j.row.base # NoKey => made[j.row.base] = 1
    => \A f \in j.row.scope : ws[f].v = j.row.view[f]

(* The hash is what a restore goes by: after one that reports success, with *)
(* no other change to the workspace while it ran, every file of the archive *)
(* the row's hash was taken of has the contents archived there, even when   *)
(* the same path was captured again, torn or left half written meanwhile.   *)
RestoreVerified ==
  \A c \in Conns :
    job[c].pc = "done" /\ job[c].quiet =>
      LET b == job[c].row.hash IN
      /\ Readable(b)
      /\ \A f \in Present(b.e) : ws[f].v = b.e[f]
=============================================================================
