---------------------------- MODULE UndoProofs ------------------------------
(***************************************************************************)
(* Proofs about modules Snapshots and Undo, for any connections, agents,   *)
(* files, receipts and compensations: archives stay what their rows say,   *)
(* restores reproduce what was captured, a compensate request that reports *)
(* success has undone everything, and marks are honest.                    *)
(***************************************************************************)
EXTENDS Undo, TLAPS

-----------------------------------------------------------------------------
(* Types.                                                                  *)

MaybeKeys == Keys \cup {NoKey}
Views == [Files -> Versions]
Archives == [kind : {"none", "empty", "torn", "archive"}, e : Views, del : SUBSET Files, n : Nat]
RowRecs == [key : MaybeKeys, base : MaybeKeys, hash : Archives, view : Views, scope : SUBSET Files]
Places == {"idle", "create", "walk", "hash", "save", "base", "extractBase", "open", "extract", "done"}
Jobs == [pc : Places, key : MaybeKeys, base : MaybeKeys, left : SUBSET Files, got : Views,
         del : SUBSET Files, hash : Archives, mixed : BOOLEAN, row : RowRecs, seen : Views,
         scope : SUBSET Files, quiet : BOOLEAN]

TypeInv ==
  /\ tip \in 0..MaxTip
  /\ ws \in [Files -> [v : Versions, sec : BOOLEAN]]
  /\ writes \in 0..MaxWrites
  /\ disk \in [Keys -> Archives]
  /\ \A r \in Range(rows) : r \in RowRecs
  /\ job \in [Conns -> Jobs]
  /\ ops \in 0..MaxOps
  /\ made \in [Keys -> 0..2]

-----------------------------------------------------------------------------
(* Captures.                                                               *)

\* A capture that has created its archive.
Writing(j) == j.pc \in {"walk", "hash", "save"}

\* The archive of key k has been captured, and if that was once, nobody is
\* writing it any more.
Settled(k) == made[k] # 0 /\ (made[k] = 1 => \A c \in Conns : ~ (Writing(job[c]) /\ job[c].key = k))

\* No file is both archived and in the deletion manifest.
Good(b) == b.del \cap Present(b.e) = {}

\* File f is left to base k, which has v for it.
FromBase(k, f, v) == v # 0 /\ (made[k] = 1 => disk[k].e[f] = v)

Whole(j) == Bytes("archive", j.got, j.del, 0)

KeyOK(k, b) ==
  /\ k \in Keys
  /\ b # NoKey <=> k[3] = "filesystem-diff"
  /\ b # NoKey => b \in Keys /\ Settled(b)

WritesOK(j) ==
  /\ made[j.key] # 0
  /\ made[j.key] = 1 => /\ ~ j.mixed
                        /\ j.pc # "walk" => disk[j.key] = Whole(j)
                        /\ j.pc = "save" => j.hash = Whole(j)

CaptureOK(j) ==
  /\ KeyOK(j.key, j.base)
  /\ j.base = NoKey => j.del = {} /\ j.scope = {}
  /\ j.del \cap j.left = {}
  /\ j.del \cap Present(j.got) = {}
  /\ \A f \in j.scope : \/ f \in j.left \/ j.got[f] # 0
                        \/ f \in j.del /\ j.seen[f] = 0
                        \/ f \notin j.del /\ FromBase(j.base, f, j.seen[f])
  /\ j.pc \in {"hash", "save"} => j.left = {}
  /\ Writing(j) => WritesOK(j)

\* Two captures of one archive have been counted.
ApartInv ==
  \A c, d \in Conns :
    c # d /\ Writing(job[c]) /\ Writing(job[d]) /\ job[c].key = job[d].key => made[job[c].key] = 2

RowOK(r) ==
  /\ KeyOK(r.key, r.base)
  /\ Settled(r.key)
  /\ Good(r.hash)
  /\ made[r.key] = 1 =>
       /\ disk[r.key] = r.hash
       /\ Readable(r.hash)
       /\ \A f \in Present(r.hash.e) : r.hash.e[f] = r.view[f]
       /\ \A f \in r.scope : \/ r.hash.e[f] # 0
                             \/ f \in r.hash.del /\ r.view[f] = 0
                             \/ f \notin r.hash.del /\ r.base # NoKey /\ FromBase(r.base, f, r.view[f])

-----------------------------------------------------------------------------
(* Restores.                                                               *)

\* The files S have the contents e.
Has(e, S) == \A f \in S : ws[f].v = e[f]

\* The base of a differential snapshot, if it was captured once, and the
\* files of it that the archive b says nothing about.
BaseHeld(r, S) == r.base # NoKey /\ made[r.base] = 1 => Has(disk[r.base].e, Present(disk[r.base].e) \ S)

RestoreOK(j) ==
  /\ RowOK(j.row) /\ j.row.key = j.key /\ j.row \in RowRecs
  /\ j.pc \in {"base", "extractBase"} => j.row.base # NoKey
  /\ j.pc = "extractBase" =>
       /\ made[j.row.base] = 1 => j.hash = disk[j.row.base]
       /\ j.quiet => Has(j.hash.e, Present(j.hash.e) \ j.left)
  /\ j.pc = "open" /\ j.quiet => BaseHeld(j.row, {})
  /\ j.pc = "extract" =>
       /\ j.hash = j.row.hash /\ Readable(j.hash) /\ j.del = j.hash.del
       /\ j.left \subseteq Present(j.hash.e)
       /\ j.quiet => /\ Has(j.hash.e, Present(j.hash.e) \ j.left)
                     /\ BaseHeld(j.row, Present(j.hash.e))
  /\ j.pc = "done" =>
       /\ Readable(j.row.hash)
       /\ j.quiet => /\ Has(j.row.hash.e, Present(j.row.hash.e))
                     /\ Has(Nothing, j.row.hash.del)
                     /\ BaseHeld(j.row, Present(j.row.hash.e) \cup j.row.hash.del)

JobOK(j) ==
  /\ Good(j.hash)
  /\ j.pc = "create" \/ Writing(j) => CaptureOK(j)
  /\ Restoring(j) => RestoreOK(j)

SnapInv ==
  /\ \A k \in Keys : Good(disk[k])
  /\ ApartInv
  /\ \A r \in Range(rows) : RowOK(r)
  /\ \A j \in Range(job) : JobOK(j)

-----------------------------------------------------------------------------
(* Compensations.                                                          *)

Comps == [idx : Nat, executed : BOOLEAN]
Calls == [pc : {"idle", "run", "mark", "replied"}, todo : Seq(Nat), failed : BOOLEAN,
          asked : SUBSET Nat, log : Seq(Nat)]

\* The ids of sequence p come before those of q in order of their index, the
\* highest first.
Before(p, q) == \A m \in DOMAIN p, n \in DOMAIN q : comps[p[m]].idx >= comps[q[n]].idx
Ordered(p) == \A m, n \in DOMAIN p : m < n => comps[p[m]].idx >= comps[p[n]].idx
Known(p) == \A n \in DOMAIN p : p[n] \in DOMAIN comps

\* What a request has run and has still to run is what it was asked for, in
\* order, unless a command failed.
ListsOK(u) ==
  /\ Known(u.todo) /\ Known(u.log)
  /\ Ordered(u.todo) /\ Ordered(u.log) /\ Before(u.log, u.todo)
  /\ ~ u.failed => Range(u.log) \cup Range(u.todo) = u.asked
  /\ u.pc = "mark" => u.todo # <<>> /\ Head(u.todo) \in Range(u.log)
  /\ u.pc = "replied" => u.todo = <<>>

CallOK(u) == ListsOK(u) /\ (u.pc = "mark" => Head(u.todo) \in worked)

CompInv ==
  /\ comps \in Seq(Comps)
  /\ undo \in [Conns -> Calls]
  /\ \A n \in DOMAIN comps : comps[n].idx \in 1..tip
  /\ \A u \in Range(undo) : CallOK(u)
  /\ ExecutedWorked
  /\ \A c \in Conns : job[c] = Idle \/ undo[c] = Resting

UndoInv == TypeInv /\ SnapInv /\ CompInv

-----------------------------------------------------------------------------
(* Constants.                                                              *)

\* No key is the empty tuple, and a key has a type.
LEMMA KeyFacts ==
  ASSUME NEW k \in Keys
  PROVE  /\ k # NoKey
         /\ k[1] \in Agents /\ k[2] \in 0..MaxTip
         /\ k[3] = "filesystem" \/ k[3] = "filesystem-diff"
<1>1. k \in Agents \X (0..MaxTip) \X {"filesystem", "filesystem-diff"}
  BY DEF Keys, Types
<1>2. /\ k[1] \in Agents /\ k[2] \in 0..MaxTip
      /\ k[3] = "filesystem" \/ k[3] = "filesystem-diff"
  BY <1>1, SMTT(30)
<1>3. k = <<k[1], k[2], k[3]>>
  BY <1>1, SMTT(30)
<1>4. PICK x, y, z : k = <<x, y, z>>
  BY <1>3
<1>5. <<x, y, z>> # <<>>
  <2>1. Len(<<x, y, z>>) = 3 /\ Len(<<>>) = 0
    BY SMTT(30)
  <2> QED  BY <2>1, SMTT(30)
<1> QED  BY <1>2, <1>4, <1>5 DEF NoKey

\* A triple is a key.
LEMMA MakeKey ==
  ASSUME NEW a \in Agents, NEW i \in 0..MaxTip, NEW t \in Types
  PROVE  /\ <<a, i, t>> \in Keys
         /\ <<a, i, t>>[1] = a /\ <<a, i, t>>[2] = i /\ <<a, i, t>>[3] = t
BY SMTT(30) DEF Keys

\* The empty view.
LEMMA NothingFacts ==
  /\ Nothing \in Views /\ 0 \in Versions
  /\ \A f \in Files : Nothing[f] = 0
  /\ Present(Nothing) = {}
BY SnapshotsAssumption, SMTT(30) DEF Nothing, Views, Versions, Present

\* The archives nobody has finished.
LEMMA EmptyArchives ==
  /\ NoFile \in Archives /\ Good(NoFile) /\ NoFile.e = Nothing
  /\ Truncated \in Archives /\ Good(Truncated)
<1>1. /\ NoFile \in Archives /\ NoFile.e = Nothing /\ NoFile.del = {}
      /\ Truncated \in Archives /\ Truncated.e = Nothing /\ Truncated.del = {}
  <2>1. 0 \in Nat /\ {} \in SUBSET Files
    OBVIOUS
  <2>2. "none" \in {"none", "empty", "torn", "archive"} /\ "empty" \in {"none", "empty", "torn", "archive"}
    OBVIOUS
  <2>3. /\ Bytes("none", Nothing, {}, 0) \in Archives /\ Bytes("none", Nothing, {}, 0).e = Nothing
        /\ Bytes("none", Nothing, {}, 0).del = {}
    BY <2>1, <2>2, NothingFacts, ZenonT(30) DEF Bytes, Archives
  <2>4. /\ Bytes("empty", Nothing, {}, 0) \in Archives /\ Bytes("empty", Nothing, {}, 0).e = Nothing
        /\ Bytes("empty", Nothing, {}, 0).del = {}
    BY <2>1, <2>2, NothingFacts, ZenonT(30) DEF Bytes, Archives
  <2> QED  BY <2>3, <2>4 DEF NoFile, Truncated
<1> QED  BY <1>1, ZenonT(30) DEF Good

\* No row.
LEMMA NoRowFacts == NoRow \in RowRecs
BY NothingFacts, EmptyArchives, ZenonT(30) DEF NoRow, RowRecs, MaybeKeys

\* A job nobody has.
LEMMA IdleFacts ==
  /\ Idle \in Jobs /\ Idle.pc = "idle" /\ Idle.key = NoKey /\ Idle.base = NoKey
  /\ Idle.left = {} /\ Idle.got = Nothing /\ Idle.del = {} /\ Idle.hash = NoFile
  /\ Idle.mixed = FALSE /\ Idle.row = NoRow /\ Idle.seen = Nothing /\ Idle.scope = {}
  /\ Idle.quiet = TRUE
BY NothingFacts, EmptyArchives, NoRowFacts, ZenonT(30) DEF Idle, Jobs, Places, MaybeKeys

\* The fields of a job.
LEMMA JobFields ==
  ASSUME NEW j \in Jobs
  PROVE  /\ j.pc \in Places /\ j.key \in MaybeKeys /\ j.base \in MaybeKeys
         /\ j.left \in SUBSET Files /\ j.got \in Views /\ j.del \in SUBSET Files
         /\ j.hash \in Archives /\ j.mixed \in BOOLEAN /\ j.row \in RowRecs
         /\ j.seen \in Views /\ j.scope \in SUBSET Files /\ j.quiet \in BOOLEAN
BY ZenonT(30) DEF Jobs

\* The fields of an archive.
LEMMA ArchiveFields ==
  ASSUME NEW b \in Archives
  PROVE  /\ b.kind \in {"none", "empty", "torn", "archive"} /\ b.e \in Views
         /\ b.del \in SUBSET Files /\ b.n \in Nat /\ Present(b.e) \in SUBSET Files
BY ZenonT(30) DEF Archives, Present

\* The fields of a row.
LEMMA RowFields ==
  ASSUME NEW r \in RowRecs
  PROVE  /\ r.key \in MaybeKeys /\ r.base \in MaybeKeys /\ r.hash \in Archives
         /\ r.view \in Views /\ r.scope \in SUBSET Files
BY ZenonT(30) DEF RowRecs

-----------------------------------------------------------------------------
(* The steps of a job.                                                     *)

FullJob(k) == [Idle EXCEPT !.pc = "create", !.key = k]

\* A full capture starts.
LEMMA StartFull ==
  ASSUME NEW k \in Keys
  PROVE  FullJob(k) \in Jobs
BY IdleFacts, ZenonT(30) DEF FullJob, Jobs, Places, MaybeKeys

DiffJob(k, b, l, d, s, o) == [Idle EXCEPT !.pc = "create", !.key = k, !.base = b, !.left = l, !.del = d, !.seen = s, !.scope = o]

\* A differential capture starts.
LEMMA StartDiff ==
  ASSUME NEW k \in Keys, NEW b \in Keys, NEW l \in SUBSET Files, NEW d \in SUBSET Files, NEW s \in Views, NEW o \in SUBSET Files
  PROVE  DiffJob(k, b, l, d, s, o) \in Jobs
BY IdleFacts, ZenonT(30) DEF DiffJob, Jobs, Places, MaybeKeys

RestoreJob(p, k, r) == [Idle EXCEPT !.pc = p, !.key = k, !.row = r]

ToWalk(j, l, m) == [j EXCEPT !.pc = "walk", !.left = l, !.mixed = m]

\* The archive is created.
LEMMA StepWalk ==
  ASSUME NEW j \in Jobs, NEW l \in SUBSET Files, NEW m \in BOOLEAN
  PROVE  ToWalk(j, l, m) \in Jobs
BY JobFields, ZenonT(30) DEF ToWalk, Jobs, Places

ToSave(j, h) == [j EXCEPT !.hash = h, !.pc = "save"]

\* The archive is hashed.
LEMMA StepSave ==
  ASSUME NEW j \in Jobs, NEW h \in Archives
  PROVE  ToSave(j, h) \in Jobs
BY JobFields, ZenonT(30) DEF ToSave, Jobs, Places

ToBase(j, b, l) == [j EXCEPT !.pc = "extractBase", !.hash = b, !.left = l]

\* A base is opened.
LEMMA StepBase ==
  ASSUME NEW j \in Jobs, NEW b \in Archives, NEW l \in SUBSET Files
  PROVE  ToBase(j, b, l) \in Jobs
BY JobFields, ZenonT(30) DEF ToBase, Jobs, Places

ToExtract(j, b, l, d) == [j EXCEPT !.pc = "extract", !.hash = b, !.left = l, !.del = d]

\* An archive is opened.
LEMMA StepExtract ==
  ASSUME NEW j \in Jobs, NEW b \in Archives, NEW l \in SUBSET Files, NEW d \in SUBSET Files
  PROVE  ToExtract(j, b, l, d) \in Jobs
BY JobFields, ZenonT(30) DEF ToExtract, Jobs, Places

At(j, p) == [j EXCEPT !.pc = p]

\* A job goes on.
LEMMA StepAt ==
  ASSUME NEW j \in Jobs, NEW p \in Places
  PROVE  At(j, p) \in Jobs
BY JobFields, ZenonT(30) DEF At, Jobs, Places

Less(j, l) == [j EXCEPT !.left = l]

\* A file is done.
LEMMA StepLess ==
  ASSUME NEW j \in Jobs, NEW l \in SUBSET Files
  PROVE  Less(j, l) \in Jobs
BY JobFields, ZenonT(30) DEF Less, Jobs, Places

Mixed(j) == [j EXCEPT !.mixed = TRUE]

\* Another capture wrote to the file.
LEMMA StepMixed ==
  ASSUME NEW j \in Jobs
  PROVE  Mixed(j) \in Jobs
BY JobFields, ZenonT(30) DEF Mixed, Jobs, Places

Loud(j) == [j EXCEPT !.quiet = FALSE]

\* Somebody changed the workspace.
LEMMA StepLoud ==
  ASSUME NEW j \in Jobs
  PROVE  Loud(j) \in Jobs
BY JobFields, ZenonT(30) DEF Loud, Jobs, Places

Got(j, g, l) == [j EXCEPT !.got = g, !.left = l]

\* A file is archived.
LEMMA StepGot ==
  ASSUME NEW j \in Jobs, NEW g \in Views, NEW l \in SUBSET Files
  PROVE  Got(j, g, l) \in Jobs
BY JobFields, ZenonT(30) DEF Got, Jobs, Places

-----------------------------------------------------------------------------
(* What a step must keep.                                                  *)

\* The archive of key k is the one it was, or it has been captured again.
Stays(k) == made'[k] # 0 /\ (made'[k] = 1 => made[k] = 1 /\ disk'[k] = disk[k])

\* Settled archives stay.
Keeps == \A k \in Keys : Settled(k) => Settled(k)' /\ Stays(k)

\* A row stays right.
LEMMA RowKept ==
  ASSUME Keeps, NEW r, RowOK(r)
  PROVE  RowOK(r)'
<1>1. KeyOK(r.key, r.base)'
  BY ZenonT(30) DEF RowOK, KeyOK, Keeps
<1>2. Settled(r.key)' /\ Stays(r.key)
  BY ZenonT(30) DEF RowOK, KeyOK, Keeps
<1>3. ASSUME r.base # NoKey
      PROVE  Stays(r.base)
  BY <1>3, ZenonT(30) DEF RowOK, KeyOK, Keeps
<1>4. ASSUME made'[r.key] = 1
      PROVE  /\ disk'[r.key] = r.hash
             /\ Readable(r.hash)
             /\ \A f \in Present(r.hash.e) : r.hash.e[f] = r.view[f]
  BY <1>2, <1>4, ZenonT(30) DEF RowOK, Stays
<1>5. ASSUME made'[r.key] = 1, NEW f \in r.scope
      PROVE  \/ r.hash.e[f] # 0
             \/ f \in r.hash.del /\ r.view[f] = 0
             \/ f \notin r.hash.del /\ r.base # NoKey /\ FromBase(r.base, f, r.view[f])'
  <2>1. made[r.key] = 1
    BY <1>2, <1>5, ZenonT(30) DEF Stays
  <2>2. \/ r.hash.e[f] # 0
        \/ f \in r.hash.del /\ r.view[f] = 0
        \/ f \notin r.hash.del /\ r.base # NoKey /\ FromBase(r.base, f, r.view[f])
    BY <1>5, <2>1, ZenonT(30) DEF RowOK
  <2>3. ASSUME r.base # NoKey, FromBase(r.base, f, r.view[f])
        PROVE  FromBase(r.base, f, r.view[f])'
    BY <1>3, <2>3, ZenonT(30) DEF FromBase, Stays
  <2> QED  BY <2>2, <2>3, ZenonT(30)
<1>6. Good(r.hash)'
  BY ZenonT(30) DEF RowOK, Good
<1>7. Readable(r.hash) => Readable(r.hash)'
  BY DEF Readable
<1> QED  BY <1>1, <1>2, <1>4, <1>5, <1>6, <1>7, ZenonT(30) DEF RowOK

\* A capture stays right.
LEMMA CaptureKept ==
  ASSUME Keeps, NEW j, CaptureOK(j), Writing(j) => Stays(j.key)
  PROVE  CaptureOK(j)'
<1>1. KeyOK(j.key, j.base)'
  BY ZenonT(30) DEF CaptureOK, KeyOK, Keeps
<1>2. ASSUME j.base # NoKey
      PROVE  Stays(j.base)
  BY <1>2, ZenonT(30) DEF CaptureOK, KeyOK, Keeps
<1>3. ASSUME NEW f \in j.scope
      PROVE  \/ f \in j.left \/ j.got[f] # 0
             \/ f \in j.del /\ j.seen[f] = 0
             \/ f \notin j.del /\ FromBase(j.base, f, j.seen[f])'
  <2>1. j.base # NoKey
    BY <1>3, ZenonT(30) DEF CaptureOK
  <2>2. \/ f \in j.left \/ j.got[f] # 0
        \/ f \in j.del /\ j.seen[f] = 0
        \/ f \notin j.del /\ FromBase(j.base, f, j.seen[f])
    BY <1>3, ZenonT(30) DEF CaptureOK
  <2>3. FromBase(j.base, f, j.seen[f]) => FromBase(j.base, f, j.seen[f])'
    BY <1>2, <2>1, ZenonT(30) DEF FromBase, Stays
  <2> QED  BY <2>2, <2>3, ZenonT(30)
<1>4. ASSUME Writing(j)
      PROVE  WritesOK(j)'
  <2>1. WritesOK(j) /\ Stays(j.key)
    BY <1>4, ZenonT(30) DEF CaptureOK
  <2>2. Whole(j)' = Whole(j)
    BY DEF Whole
  <2> QED  BY <2>1, <2>2, ZenonT(30) DEF WritesOK, Stays
<1>5. Writing(j)' <=> Writing(j)
  BY DEF Writing
<1>6. /\ j.base = NoKey => j.del = {} /\ j.scope = {}
      /\ j.del \cap j.left = {}
      /\ (j.del \cap Present(j.got) = {})'
      /\ j.pc \in {"hash", "save"} => j.left = {}
  BY ZenonT(30) DEF CaptureOK
<1> QED  BY <1>1, <1>3, <1>4, <1>5, <1>6, ZenonT(30) DEF CaptureOK

\* A base stays extracted.
LEMMA BaseKept ==
  ASSUME Keeps, ws' = ws, NEW r, KeyOK(r.key, r.base), NEW S, BaseHeld(r, S)
  PROVE  BaseHeld(r, S)'
<1>1. r.base # NoKey => Stays(r.base)
  BY ZenonT(30) DEF KeyOK, Keeps
<1> QED  BY <1>1, ZenonT(30) DEF BaseHeld, Has, Stays

\* A restore stays right as long as nobody else changes the workspace.
LEMMA RestoreKept ==
  ASSUME Keeps, NEW j, RestoreOK(j), ~ j.quiet \/ ws' = ws
  PROVE  RestoreOK(j)'
<1>1. RowOK(j.row)' /\ KeyOK(j.row.key, j.row.base)
  BY RowKept, ZenonT(30) DEF RestoreOK, RowOK
<1>2. ASSUME j.row.base # NoKey
      PROVE  Stays(j.row.base)
  BY <1>1, <1>2, ZenonT(30) DEF KeyOK, Keeps
<1>3. j.row.key = j.key /\ (j.row \in RowRecs)' /\ (j.pc \in {"base", "extractBase"} => j.row.base # NoKey)
  BY ZenonT(30) DEF RestoreOK
<1>4. ASSUME j.pc = "extractBase"
      PROVE  /\ made'[j.row.base] = 1 => j.hash = disk'[j.row.base]
             /\ j.quiet => Has(j.hash.e, Present(j.hash.e) \ j.left)'
  <2>1. Stays(j.row.base)
    BY <1>2, <1>3, <1>4, ZenonT(30)
  <2>2. made'[j.row.base] = 1 => j.hash = disk'[j.row.base]
    BY <1>4, <2>1, ZenonT(30) DEF RestoreOK, Stays
  <2>3. j.quiet => Has(j.hash.e, Present(j.hash.e) \ j.left)'
    BY <1>4, ZenonT(30) DEF RestoreOK, Has
  <2> QED  BY <2>2, <2>3
<1>5. j.pc = "open" /\ j.quiet => BaseHeld(j.row, {})'
  BY <1>1, BaseKept, ZenonT(30) DEF RestoreOK
<1>6. ASSUME j.pc = "extract"
      PROVE  /\ j.hash = j.row.hash /\ Readable(j.hash)' /\ j.del = j.hash.del
             /\ (j.left \subseteq Present(j.hash.e))'
             /\ j.quiet => /\ Has(j.hash.e, Present(j.hash.e) \ j.left)'
                           /\ BaseHeld(j.row, Present(j.hash.e))'
  <2>1. /\ j.hash = j.row.hash /\ Readable(j.hash)' /\ j.del = j.hash.del
        /\ (j.left \subseteq Present(j.hash.e))'
    BY <1>6, ZenonT(30) DEF RestoreOK, Readable
  <2>2. j.quiet => Has(j.hash.e, Present(j.hash.e) \ j.left)'
    BY <1>6, ZenonT(30) DEF RestoreOK, Has
  <2>3. PICK S : S = Present(j.hash.e)
    OBVIOUS
  <2>4. j.quiet => BaseHeld(j.row, S)'
    BY <1>1, <1>6, <2>3, BaseKept, ZenonT(30) DEF RestoreOK
  <2> QED  BY <2>1, <2>2, <2>3, <2>4, ZenonT(30)
<1>7. ASSUME j.pc = "done"
      PROVE  /\ Readable(j.row.hash)'
             /\ j.quiet => /\ Has(j.row.hash.e, Present(j.row.hash.e))'
                           /\ Has(Nothing, j.row.hash.del)'
                           /\ BaseHeld(j.row, Present(j.row.hash.e) \cup j.row.hash.del)'
  <2>1. Readable(j.row.hash)'
    BY <1>7, ZenonT(30) DEF RestoreOK, Readable
  <2>2. j.quiet => Has(j.row.hash.e, Present(j.row.hash.e))' /\ Has(Nothing, j.row.hash.del)'
    BY <1>7, ZenonT(30) DEF RestoreOK, Has
  <2>3. PICK S : S = Present(j.row.hash.e) \cup j.row.hash.del
    OBVIOUS
  <2>4. j.quiet => BaseHeld(j.row, S)'
    BY <1>1, <1>7, <2>3, BaseKept, ZenonT(30) DEF RestoreOK
  <2> QED  BY <2>1, <2>2, <2>3, <2>4, ZenonT(30)
<1> QED  BY <1>1, <1>3, <1>4, <1>5, <1>6, <1>7, ZenonT(30) DEF RestoreOK

\* A job stays right.
LEMMA JobKept ==
  ASSUME Keeps, NEW j, JobOK(j), Writing(j) => Stays(j.key), ~ Restoring(j) \/ ~ j.quiet \/ ws' = ws
  PROVE  JobOK(j)'
<1>1. (Writing(j)' <=> Writing(j)) /\ (Restoring(j)' <=> Restoring(j))
  BY DEF Writing, Restoring
<1>2. j.pc = "create" \/ Writing(j) => CaptureOK(j)'
  BY CaptureKept, ZenonT(30) DEF JobOK
<1>3. Restoring(j) => RestoreOK(j)'
  BY RestoreKept, ZenonT(30) DEF JobOK
<1>4. Good(j.hash)'
  BY ZenonT(30) DEF JobOK, Good
<1> QED  BY <1>1, <1>2, <1>3, <1>4, ZenonT(30) DEF JobOK

\* A restore that was disturbed promises less.
LEMMA LoudOK ==
  ASSUME NEW j \in Jobs, JobOK(j), Restoring(j)
  PROVE  JobOK(Loud(j)) /\ Restoring(Loud(j)) /\ ~ Loud(j).quiet
<1>1. PICK q : q = Loud(j)
  OBVIOUS
<1>2. /\ q.pc = j.pc /\ q.key = j.key /\ q.left = j.left /\ q.del = j.del /\ q.hash = j.hash
      /\ q.row = j.row
  BY <1>1, ZenonT(30) DEF Loud, Jobs
<1>3. ~ q.quiet
  BY <1>1, ZenonT(30) DEF Loud, Jobs
<1>4. Restoring(q)
  BY <1>2 DEF Restoring
<1>5. j.pc # "create" /\ ~ Writing(j)
  BY ZenonT(30) DEF Restoring, Writing
<1>6. q.pc # "create" /\ ~ Writing(q)
  BY <1>2, <1>5 DEF Writing
<1>7. RestoreOK(j) /\ Good(j.hash)
  BY DEF JobOK
<1>8. RestoreOK(q)
  BY <1>2, <1>3, <1>7, ZenonT(30) DEF RestoreOK
<1> QED  BY <1>1, <1>2, <1>3, <1>4, <1>6, <1>7, <1>8, ZenonT(30) DEF JobOK

\* A capture whose file others wrote to promises less.
LEMMA MixedOK ==
  ASSUME NEW j \in Jobs, JobOK(j)', j.pc = "walk", made'[j.key] = 2
  PROVE  JobOK(Mixed(j))'
<1>1. PICK q : q = Mixed(j)
  OBVIOUS
<1>2. /\ q.pc = j.pc /\ q.key = j.key /\ q.base = j.base /\ q.left = j.left /\ q.got = j.got
      /\ q.del = j.del /\ q.hash = j.hash /\ q.seen = j.seen /\ q.scope = j.scope
  BY <1>1, ZenonT(30) DEF Mixed, Jobs
<1>3. Writing(j)' /\ Writing(q)' /\ ~ Restoring(q)'
  BY <1>2 DEF Writing, Restoring
<1>4. WritesOK(q)'
  BY <1>2 DEF WritesOK
<1>5. CaptureOK(j)' /\ Good(j.hash)'
  BY <1>3 DEF JobOK
<1>6. CaptureOK(q)'
  BY <1>2, <1>4, <1>5, ZenonT(30) DEF CaptureOK
<1>7. Good(q.hash)'
  BY <1>2, <1>5 DEF Good
<1>8. JobOK(q)'
  BY <1>2, <1>3, <1>6, <1>7, ZenonT(30) DEF JobOK
<1> QED  BY <1>1, <1>8

\* What happens to the job of a connection d that does not move.
Follows(d) ==
  \/ job'[d] = job[d] /\ (ws' = ws \/ ~ Restoring(job[d]))
  \/ job'[d] = Loud(job[d]) /\ Restoring(job[d])
  \/ job'[d] = Mixed(job[d]) /\ job[d].pc = "walk" /\ made'[job[d].key] = 2

\* It is none of the jobs that write unless it was.
LEMMA FollowsWriting ==
  ASSUME NEW d, job[d] \in Jobs, Follows(d)
  PROVE  /\ job'[d] \in Jobs
         /\ job'[d].pc = job[d].pc /\ job'[d].key = job[d].key
         /\ Writing(job[d])' <=> Writing(job[d])
<1>1. PICK j \in Jobs : j = job[d]
  OBVIOUS
<1>2. PICK q : q = job'[d]
  OBVIOUS
<1>3. q = j \/ q = Loud(j) \/ q = Mixed(j)
  BY <1>1, <1>2, ZenonT(30) DEF Follows
<1>4. q \in Jobs
  BY <1>3, StepLoud, StepMixed, ZenonT(30)
<1>5. q.pc = j.pc /\ q.key = j.key
  BY <1>3, ZenonT(30) DEF Loud, Mixed, Jobs
<1> QED  BY <1>1, <1>2, <1>4, <1>5, ZenonT(30) DEF Writing

\* It stays right.
LEMMA FollowsOK ==
  ASSUME Keeps, NEW d, job[d] \in Jobs, JobOK(job[d]), Follows(d),
         Writing(job[d]) => Stays(job[d].key), NEW q, q = job'[d]
  PROVE  JobOK(q)'
<1>1. PICK j \in Jobs : j = job[d]
  OBVIOUS
<1>2. JobOK(j) /\ (Writing(j) => Stays(j.key))
  BY <1>1
<1>3. CASE q = j /\ (ws' = ws \/ ~ Restoring(j))
  BY <1>2, <1>3, JobKept, ZenonT(30)
<1>4. CASE q = Loud(j) /\ Restoring(j)
  <2>1. JobOK(q) /\ Restoring(q) /\ ~ q.quiet
    BY <1>2, <1>4, LoudOK, ZenonT(30)
  <2>2. ~ Writing(q)
    BY <2>1 DEF Writing, Restoring
  <2> QED  BY <2>1, <2>2, JobKept, ZenonT(30)
<1>5. CASE q = Mixed(j) /\ j.pc = "walk" /\ made'[j.key] = 2
  <2>1. ~ Restoring(j)
    BY <1>5 DEF Restoring
  <2>2. JobOK(j)'
    BY <1>2, <2>1, JobKept, ZenonT(30)
  <2>3. JobOK(Mixed(j))'
    BY <1>5, <2>2, MixedOK, ZenonT(30)
  <2> QED  BY <1>5, <2>3
<1> QED  BY <1>1, <1>3, <1>4, <1>5, ZenonT(30) DEF Follows

\* The invariant's instances.
LEMMA Jobbed ==
  ASSUME TypeInv, SnapInv, NEW c \in Conns
  PROVE  job[c] \in Jobs /\ JobOK(job[c]) /\ job \in [Conns -> Jobs]
<1>1. job \in [Conns -> Jobs]
  BY DEF TypeInv
<1>2. job[c] \in Range(job) /\ job[c] \in Jobs
  BY <1>1, ZenonT(30) DEF Range
<1> QED  BY <1>1, <1>2 DEF SnapInv

\* The parts of the invariant make it up again.
LEMMA SnapParts ==
  ASSUME TypeInv, SnapInv, Keeps, ApartInv', NEW c, job' \in [Conns -> Jobs],
         \A k \in Keys : Good(disk[k])',
         \A d \in Conns : Writing(job[d]) /\ d # c => Stays(job[d].key),
         \A r \in Range(rows') : r \in Range(rows) \/ RowOK(r)',
         \A d \in Conns \ {c} : Follows(d),
         c \in Conns => \A j : j = job'[c] => JobOK(j)'
  PROVE  SnapInv'
<1>1. ASSUME NEW r \in Range(rows')
      PROVE  RowOK(r)'
  <2>1. r \in Range(rows) => RowOK(r)
    BY ZenonT(30) DEF SnapInv
  <2> QED  BY <1>1, <2>1, RowKept, ZenonT(30)
<1>2. ASSUME NEW j \in Range(job')
      PROVE  JobOK(j)'
  <2>1. PICK d \in Conns : j = job'[d]
    BY <1>2, ZenonT(30) DEF Range
  <2>2. CASE d = c
    BY <2>1, <2>2, ZenonT(30)
  <2>3. CASE d # c
    <3>1. job[d] \in Jobs /\ JobOK(job[d])
      BY Jobbed, ZenonT(30)
    <3>2. Follows(d) /\ (Writing(job[d]) => Stays(job[d].key))
      BY <2>3, ZenonT(30)
    <3> QED  BY <2>1, <3>1, <3>2, FollowsOK, ZenonT(30)
  <2> QED  BY <2>2, <2>3
<1> QED  BY <1>1, <1>2, ZenonT(30) DEF SnapInv

\* The archives are not touched, and nobody starts to write one.
LEMMA ArchivesKept ==
  ASSUME TypeInv, SnapInv, made' = made, disk' = disk,
         \A d \in Conns : Writing(job[d])' => Writing(job[d]) /\ job'[d].key = job[d].key
  PROVE  /\ Keeps /\ ApartInv'
         /\ \A k \in Keys : Good(disk[k])'
         /\ \A d \in Conns : Writing(job[d]) => Stays(job[d].key)
<1>1. ASSUME NEW k \in Keys, Settled(k)
      PROVE  Settled(k)' /\ Stays(k)
  <2>1. Settled(k)'
    BY <1>1, ZenonT(30) DEF Settled
  <2>2. Stays(k)
    BY <1>1, ZenonT(30) DEF Settled, Stays
  <2> QED  BY <2>1, <2>2
<1>2. ApartInv'
  BY ZenonT(30) DEF SnapInv, ApartInv
<1>3. \A k \in Keys : Good(disk[k])'
  BY ZenonT(30) DEF SnapInv, Good
<1>4. ASSUME NEW d \in Conns, Writing(job[d])
      PROVE  Stays(job[d].key)
  <2>1. CaptureOK(job[d])
    BY <1>4, Jobbed, ZenonT(30) DEF JobOK
  <2> QED  BY <1>4, <2>1, ZenonT(30) DEF CaptureOK, WritesOK, Stays
<1> QED  BY <1>1, <1>2, <1>3, <1>4 DEF Keeps

\* A step that leaves archives and rows alone: of connection c, which is not
\* writing afterwards unless it was.
LEMMA PlainStep ==
  ASSUME TypeInv, SnapInv, made' = made, disk' = disk, NEW c, job' \in [Conns -> Jobs],
         \A r \in Range(rows') : r \in Range(rows),
         c \in Conns /\ Writing(job[c])' => Writing(job[c]) /\ job'[c].key = job[c].key,
         \A d \in Conns \ {c} : Follows(d),
         c \in Conns /\ Keeps => \A j : j = job'[c] => JobOK(j)'
  PROVE  SnapInv'
<1>1. \A d \in Conns : Writing(job[d])' => Writing(job[d]) /\ job'[d].key = job[d].key
  BY Jobbed, FollowsWriting, ZenonT(30)
<1>2. /\ Keeps /\ ApartInv'
      /\ \A k \in Keys : Good(disk[k])'
      /\ \A d \in Conns : Writing(job[d]) => Stays(job[d].key)
  BY <1>1, ArchivesKept, ZenonT(30)
<1> QED  BY <1>2, SnapParts, ZenonT(30)

-----------------------------------------------------------------------------
(* Steps that change one job only.                                         *)

\* A job nobody has is right.
LEMMA IdleOK ==
  /\ JobOK(Idle) /\ ~ Writing(Idle) /\ ~ Restoring(Idle)
  /\ JobOK(Idle)'
<1>1. Good(Idle.hash) /\ Good(Idle.hash)'
  BY IdleFacts, EmptyArchives, ZenonT(30) DEF Good
<1>2. ~ Writing(Idle) /\ ~ Restoring(Idle) /\ ~ Writing(Idle)' /\ ~ Restoring(Idle)' /\ Idle.pc # "create"
  BY IdleFacts DEF Writing, Restoring
<1> QED  BY <1>1, <1>2, ZenonT(30) DEF JobOK

\* One job changes.
LEMMA Moves ==
  ASSUME TypeInv, NEW c \in Conns, NEW q \in Jobs, job' = [job EXCEPT ![c] = q]
  PROVE  job' \in [Conns -> Jobs] /\ job'[c] = q /\ \A d \in Conns \ {c} : job'[d] = job[d]
<1>1. job \in [Conns -> Jobs]
  BY DEF TypeInv
<1> QED  BY <1>1, ZenonT(30)

\* A job that is right before the step and the only thing that changes.
LEMMA OneMoves ==
  ASSUME TypeInv, SnapInv, NEW c \in Conns, NEW q \in Jobs, job' = [job EXCEPT ![c] = q],
         made' = made, disk' = disk, ws' = ws, rows' = rows, JobOK(q),
         Writing(q) => Writing(job[c]) /\ q.key = job[c].key
  PROVE  SnapInv' /\ job' \in [Conns -> Jobs]
<1>1. job' \in [Conns -> Jobs] /\ job'[c] = q /\ \A d \in Conns \ {c} : job'[d] = job[d]
  BY Moves, ZenonT(30)
<1>2. \A d \in Conns \ {c} : Follows(d)
  BY <1>1, ZenonT(30) DEF Follows
<1>3. Writing(job[c])' => Writing(job[c]) /\ job'[c].key = job[c].key
  BY <1>1, ZenonT(30) DEF Writing
<1>4. Writing(q) => Stays(q.key)
  <2>1. Writing(q) => CaptureOK(q)
    BY DEF JobOK
  <2> QED  BY <2>1, ZenonT(30) DEF CaptureOK, WritesOK, Stays
<1>5. Keeps => JobOK(q)'
  BY <1>4, JobKept, ZenonT(30)
<1>6. Keeps => \A j : j = job'[c] => JobOK(j)'
  BY <1>1, <1>5, ZenonT(30)
<1>7. \A r \in Range(rows') : r \in Range(rows)
  BY ZenonT(30)
<1> QED  BY <1>1, <1>2, <1>3, <1>6, <1>7, PlainStep, ZenonT(30)

\* The types when only jobs and the count of requests change.
LEMMA JobTypes ==
  ASSUME TypeInv, UNCHANGED <<tip, ws, writes, disk, rows, made>>,
         job' \in [Conns -> Jobs], ops' \in 0..MaxOps
  PROVE  TypeInv'
BY ZenonT(30) DEF TypeInv

\* One job ends.
LEMMA JobEnds ==
  ASSUME TypeInv, SnapInv, NEW c \in Conns, job' = [job EXCEPT ![c] = Idle],
         UNCHANGED <<tip, ws, writes, disk, rows, ops, made>>
  PROVE  TypeInv' /\ SnapInv'
<1>1. SnapInv' /\ job' \in [Conns -> Jobs]
  <2>1. made' = made /\ disk' = disk /\ ws' = ws /\ rows' = rows
    OBVIOUS
  <2> QED  BY <2>1, IdleOK, IdleFacts, OneMoves, ZenonT(30)
<1>2. ops' \in 0..MaxOps
  BY DEF TypeInv
<1> QED  BY <1>1, <1>2, JobTypes, ZenonT(30)

\* One job goes on.
LEMMA JobGoesOn ==
  ASSUME TypeInv, SnapInv, NEW c \in Conns, NEW q \in Jobs, job' = [job EXCEPT ![c] = q],
         UNCHANGED <<tip, ws, writes, disk, rows, ops, made>>, JobOK(q),
         Writing(q) => Writing(job[c]) /\ q.key = job[c].key
  PROVE  TypeInv' /\ SnapInv'
<1>1. SnapInv' /\ job' \in [Conns -> Jobs]
  <2>1. made' = made /\ disk' = disk /\ ws' = ws /\ rows' = rows
    OBVIOUS
  <2> QED  BY <2>1, OneMoves, ZenonT(30)
<1>2. ops' \in 0..MaxOps
  BY DEF TypeInv
<1> QED  BY <1>1, <1>2, JobTypes, ZenonT(30)

\* A request begins.
LEMMA BeginOK ==
  ASSUME TypeInv, SnapInv, NEW c \in Conns, NEW q \in Jobs, Begin(c, q), JobOK(q), ~ Writing(q)
  PROVE  TypeInv' /\ SnapInv'
<1>1. /\ job' = [job EXCEPT ![c] = q] /\ UNCHANGED <<tip, ws, writes, disk, rows, made>>
      /\ ops < MaxOps /\ ops' = ops + 1
  BY DEF Begin
<1>2. SnapInv' /\ job' \in [Conns -> Jobs]
  <2>1. made' = made /\ disk' = disk /\ ws' = ws /\ rows' = rows
    BY <1>1
  <2> QED  BY <1>1, <2>1, OneMoves, ZenonT(30)
<1>3. ops' \in 0..MaxOps
  <2>1. ops \in 0..MaxOps
    BY DEF TypeInv
  <2> QED  BY <1>1, <2>1, SnapshotsAssumption, SMTT(30)
<1> QED  BY <1>1, <1>2, <1>3, JobTypes, ZenonT(30)

-----------------------------------------------------------------------------
(* Requests begin.                                                         *)

\* A full capture begins.
LEMMA CaptureInv ==
  ASSUME TypeInv, SnapInv, NEW c \in Conns, NEW a \in Agents, NEW i \in 0..MaxTip, Capture(c, a, i)
  PROVE  TypeInv' /\ SnapInv'
<1>1. PICK k \in Keys : k = <<a, i, "filesystem">> /\ k[3] = "filesystem"
  <2>1. "filesystem" \in Types
    BY DEF Types
  <2>2. <<a, i, "filesystem">> \in Keys /\ <<a, i, "filesystem">>[3] = "filesystem"
    BY <2>1, MakeKey, ZenonT(30)
  <2> QED  BY <2>2, ZenonT(30)
<1>2. PICK q : q = FullJob(k)
  OBVIOUS
<1>3. Begin(c, q)
  BY <1>1, <1>2 DEF Capture, FullJob
<1>4. /\ q \in Jobs /\ q.pc = "create" /\ q.key = k /\ q.base = NoKey /\ q.left = {} /\ q.got = Nothing
      /\ q.del = {} /\ q.hash = NoFile /\ q.scope = {}
  <2>1. q \in Jobs
    BY <1>2, StartFull, ZenonT(30)
  <2>2. /\ q.pc = "create" /\ q.key = k /\ q.base = NoKey /\ q.left = {} /\ q.got = Nothing
        /\ q.del = {} /\ q.hash = NoFile /\ q.scope = {}
    BY <1>2, IdleFacts, ZenonT(30) DEF FullJob, Jobs
  <2> QED  BY <2>1, <2>2
<1>5. ~ Writing(q) /\ ~ Restoring(q)
  BY <1>4 DEF Writing, Restoring
<1>6. "filesystem" # "filesystem-diff"
  OBVIOUS
<1>7. KeyOK(q.key, q.base)
  BY <1>1, <1>4, <1>6, ZenonT(30) DEF KeyOK
<1>8. CaptureOK(q)
  BY <1>4, <1>5, <1>7, ZenonT(30) DEF CaptureOK
<1>9. JobOK(q)
  BY <1>4, <1>5, <1>8, EmptyArchives, ZenonT(30) DEF JobOK
<1> QED  BY <1>3, <1>4, <1>5, <1>9, BeginOK, ZenonT(30)

\* A differential capture begins: what it does not archive or delete is as it
\* is in the base.
LEMMA CaptureDiffInv ==
  ASSUME TypeInv, SnapInv, NEW c \in Conns, NEW a \in Agents, NEW i \in 0..MaxTip,
         NEW r \in Range(rows), CaptureDiff(c, a, i, r)
  PROVE  TypeInv' /\ SnapInv'
<1>1. PICK k \in Keys : k = <<a, i, "filesystem-diff">> /\ k[3] = "filesystem-diff"
  <2>1. "filesystem-diff" \in Types
    BY DEF Types
  <2>2. <<a, i, "filesystem-diff">> \in Keys /\ <<a, i, "filesystem-diff">>[3] = "filesystem-diff"
    BY <2>1, MakeKey, ZenonT(30)
  <2> QED  BY <2>2, ZenonT(30)
<1>2. RowOK(r) /\ r.key \in Keys /\ Settled(r.key)
  <2>1. RowOK(r)
    BY DEF SnapInv
  <2> QED  BY <2>1, ZenonT(30) DEF RowOK, KeyOK
<1>3. PICK b \in Archives : b = disk[r.key]
  BY <1>2, ZenonT(30) DEF TypeInv
<1>4. PICK l, d, s, o : /\ l = added(b) \cup modified(b) /\ d = deleted(b)
                        /\ s = [f \in Files |-> ws[f].v]
                        /\ o = {f \in Files : ws[f].v # 0 \/ b.e[f] # 0}
  OBVIOUS
<1>5. l \in SUBSET Files /\ d \in SUBSET Files /\ o \in SUBSET Files
  BY <1>4, ZenonT(30) DEF added, modified, deleted
<1>6. s \in Views /\ \A f \in Files : s[f] = ws[f].v
  <2>1. ws \in [Files -> [v : Versions, sec : BOOLEAN]]
    BY DEF TypeInv
  <2> QED  BY <1>4, <2>1, ZenonT(30) DEF Views
<1>7. PICK q : q = DiffJob(k, r.key, l, d, s, o)
  OBVIOUS
<1>8. Begin(c, q)
  BY <1>1, <1>3, <1>4, <1>7, ZenonT(30) DEF CaptureDiff, DiffJob, snapshotPath
<1>9. /\ q \in Jobs /\ q.pc = "create" /\ q.key = k /\ q.base = r.key /\ q.left = l /\ q.got = Nothing
      /\ q.del = d /\ q.hash = NoFile /\ q.seen = s /\ q.scope = o
  <2>1. PICK bk \in Keys : bk = r.key
    BY <1>2
  <2>2. q = DiffJob(k, bk, l, d, s, o)
    BY <1>7, <2>1
  <2>3. s \in Views
    BY <1>6
  <2>4. q \in Jobs
    BY <1>5, <2>2, <2>3, StartDiff, ZenonT(30)
  <2>5. /\ DiffJob(k, bk, l, d, s, o).pc = "create" /\ DiffJob(k, bk, l, d, s, o).key = k
        /\ DiffJob(k, bk, l, d, s, o).base = bk /\ DiffJob(k, bk, l, d, s, o).left = l
        /\ DiffJob(k, bk, l, d, s, o).got = Nothing /\ DiffJob(k, bk, l, d, s, o).del = d
        /\ DiffJob(k, bk, l, d, s, o).hash = NoFile /\ DiffJob(k, bk, l, d, s, o).seen = s
        /\ DiffJob(k, bk, l, d, s, o).scope = o
    BY <1>5, <2>3, IdleFacts, ZenonT(30) DEF DiffJob, Jobs, Places, MaybeKeys
  <2>6. q.pc = "create" /\ q.key = k /\ q.base = bk /\ q.left = l /\ q.got = Nothing
    BY <2>2, <2>5
  <2>7. q.del = d /\ q.hash = NoFile /\ q.seen = s /\ q.scope = o
    BY <2>2, <2>5
  <2> QED  BY <2>1, <2>4, <2>6, <2>7
<1>10. ~ Writing(q) /\ ~ Restoring(q)
  BY <1>9 DEF Writing, Restoring
<1>11. q.base # NoKey
  BY <1>2, <1>9, KeyFacts, ZenonT(30)
<1>12. KeyOK(q.key, q.base)
  BY <1>1, <1>2, <1>9, <1>11, ZenonT(30) DEF KeyOK
<1>13. q.del \cap q.left = {} /\ q.del \cap Present(q.got) = {}
  <2>1. d \cap l = {}
    BY <1>4, ZenonT(30) DEF added, modified, deleted
  <2> QED  BY <1>9, <2>1, NothingFacts, ZenonT(30)
<1>14. ASSUME NEW f \in o
       PROVE  \/ f \in l
              \/ f \in d /\ s[f] = 0
              \/ f \notin d /\ FromBase(r.key, f, s[f])
  <2>1. f \in Files /\ s[f] = ws[f].v /\ (ws[f].v # 0 \/ b.e[f] # 0)
    BY <1>4, <1>6, <1>14, ZenonT(30)
  <2>2. ASSUME f \notin l, ws[f].v # 0
        PROVE  f \notin d /\ b.e[f] = ws[f].v
    BY <1>4, <2>1, <2>2, ZenonT(30) DEF added, modified, deleted
  <2>3. ASSUME f \notin l, ws[f].v = 0
        PROVE  f \in d
    BY <1>4, <2>1, <2>3, ZenonT(30) DEF deleted
  <2> QED  BY <1>3, <2>1, <2>2, <2>3, ZenonT(30) DEF FromBase
<1>15. CaptureOK(q)
  <2>1. ASSUME NEW f \in q.scope
        PROVE  \/ f \in q.left \/ q.got[f] # 0
               \/ f \in q.del /\ q.seen[f] = 0
               \/ f \notin q.del /\ FromBase(q.base, f, q.seen[f])
    BY <1>9, <1>14, <2>1, ZenonT(30)
  <2> QED  BY <1>9, <1>10, <1>11, <1>12, <1>13, <2>1, ZenonT(30) DEF CaptureOK
<1>16. JobOK(q)
  BY <1>9, <1>10, <1>15, EmptyArchives, ZenonT(30) DEF JobOK
<1> QED  BY <1>8, <1>9, <1>10, <1>16, BeginOK, ZenonT(30)

\* A restore begins with a row of the table.
LEMMA RestoreBegins ==
  ASSUME TypeInv, SnapInv, NEW c \in Conns, NEW r \in Range(rows), NEW p \in {"open", "base"},
         p = "open" => r.key[3] = "filesystem", p = "base" => r.key[3] = "filesystem-diff",
         Begin(c, [Idle EXCEPT !.pc = p, !.key = r.key, !.row = r])
  PROVE  TypeInv' /\ SnapInv'
<1>1. RowOK(r) /\ r \in RowRecs
  BY DEF SnapInv, TypeInv
<1>2. r.key \in Keys /\ (r.base # NoKey <=> r.key[3] = "filesystem-diff")
  BY <1>1, ZenonT(30) DEF RowOK, KeyOK
<1>3. PICK q : q = RestoreJob(p, r.key, r)
  OBVIOUS
<1>4. Begin(c, q)
  BY <1>3 DEF RestoreJob
<1>5. q \in Jobs /\ q.pc = p /\ q.key = r.key /\ q.row = r /\ q.hash = NoFile
  <2>1. PICK k \in Keys : k = r.key
    BY <1>2
  <2>2. p \in Places /\ r \in RowRecs /\ q = RestoreJob(p, k, r)
    BY <1>1, <1>3, <2>1 DEF Places
  <2>3. /\ RestoreJob(p, k, r) \in Jobs /\ RestoreJob(p, k, r).pc = p /\ RestoreJob(p, k, r).key = k
        /\ RestoreJob(p, k, r).row = r /\ RestoreJob(p, k, r).hash = NoFile
    BY <2>2, IdleFacts, ZenonT(30) DEF RestoreJob, Jobs, Places, MaybeKeys
  <2> QED  BY <2>1, <2>2, <2>3
<1>6. ~ Writing(q) /\ Restoring(q) /\ q.pc # "create" /\ q.pc # "extractBase" /\ q.pc # "extract" /\ q.pc # "done"
  BY <1>5 DEF Writing, Restoring
<1>7. "filesystem" # "filesystem-diff"
  OBVIOUS
<1>8. q.pc = "open" => BaseHeld(q.row, {})
  BY <1>2, <1>5, <1>7, ZenonT(30) DEF BaseHeld
<1>9. q.pc = "base" => q.row.base # NoKey
  BY <1>2, <1>5, ZenonT(30)
<1>10. q.pc \in {"base", "extractBase"} => q.row.base # NoKey
  BY <1>6, <1>9
<1>11. RestoreOK(q)
  BY <1>1, <1>5, <1>6, <1>8, <1>10, ZenonT(30) DEF RestoreOK
<1>12. JobOK(q)
  BY <1>5, <1>6, <1>11, EmptyArchives, ZenonT(30) DEF JobOK
<1> QED  BY <1>4, <1>5, <1>6, <1>12, BeginOK, ZenonT(30)

\* What a lookup finds is a row of the table.
LEMMA HitIn ==
  ASSUME TypeInv, NEW t, NEW i, NEW r \in getByChainIndex(t, i)
  PROVE  r \in Range(rows) /\ r.key[3] = t
BY ZenonT(30) DEF getByChainIndex, Range

-----------------------------------------------------------------------------
(* A capture goes on.                                                      *)

\* A file is archived.
LEMMA ArchiveFileInv ==
  ASSUME TypeInv, SnapInv, NEW c \in Conns, ArchiveFile(c)
  PROVE  TypeInv' /\ SnapInv'
<1>1. PICK j \in Jobs : j = job[c] /\ JobOK(j)
  BY Jobbed, ZenonT(30)
<1>2. PICK f \in Ahead(j) :
        /\ j.pc = "walk" /\ ws[f].v # 0
        /\ job' = [job EXCEPT ![c] = [j EXCEPT !.got = [j.got EXCEPT ![f] = ws[f].v], !.left = j.left \ {f}]]
        /\ UNCHANGED <<tip, ws, writes, disk, rows, ops, made>>
  <2>1. PICK f \in Ahead(job[c]) :
          /\ job[c].pc = "walk" /\ ws[f].v # 0
          /\ job' = [job EXCEPT ![c] = [job[c] EXCEPT !.got = [job[c].got EXCEPT ![f] = ws[f].v], !.left = job[c].left \ {f}]]
          /\ UNCHANGED <<tip, ws, writes, disk, rows, ops, made>>
    BY DEF ArchiveFile
  <2> QED  BY <1>1, <2>1
<1>3. j.left \in SUBSET Files /\ j.got \in Views /\ j.del \in SUBSET Files
  BY JobFields, ZenonT(30)
<1>4. f \in j.left /\ f \in Files
  BY <1>2, <1>3 DEF Ahead
<1>5. PICK v \in Versions : v = ws[f].v /\ v # 0
  BY <1>2, <1>4, ZenonT(30) DEF TypeInv
<1>6. PICK g \in Views : /\ g = [j.got EXCEPT ![f] = v] /\ g[f] = v
                         /\ \A h \in Files : h # f => g[h] = j.got[h]
  <2>1. PICK g : g = [j.got EXCEPT ![f] = v]
    OBVIOUS
  <2>2. j.got \in [Files -> Versions]
    BY <1>3 DEF Views
  <2>3. g \in [Files -> Versions] /\ g[f] = v /\ \A h \in Files : h # f => g[h] = j.got[h]
    BY <1>4, <2>1, <2>2, ZenonT(30)
  <2> QED  BY <2>1, <2>3, ZenonT(30) DEF Views
<1>7. PICK l \in SUBSET Files : l = j.left \ {f}
  BY <1>3
<1>8. PICK q : q = Got(j, g, l)
  OBVIOUS
<1>9. job' = [job EXCEPT ![c] = q]
  BY <1>2, <1>5, <1>6, <1>7, <1>8, ZenonT(30) DEF Got
<1>10. q \in Jobs
  BY <1>8, StepGot, ZenonT(30)
<1>11. /\ q.pc = j.pc /\ q.key = j.key /\ q.base = j.base /\ q.left = l /\ q.got = g /\ q.del = j.del
       /\ q.hash = j.hash /\ q.seen = j.seen /\ q.scope = j.scope
  BY <1>8, ZenonT(30) DEF Got, Jobs
<1>12. q.mixed = j.mixed
  BY <1>8, ZenonT(30) DEF Got, Jobs
<1>13. Writing(j) /\ Writing(q) /\ ~ Restoring(q)
  BY <1>2, <1>11 DEF Writing, Restoring
<1>14. CaptureOK(j) /\ Good(j.hash)
  BY <1>1, <1>13 DEF JobOK
<1>15. WritesOK(q)
  BY <1>2, <1>11, <1>12, <1>13, <1>14, ZenonT(30) DEF CaptureOK, WritesOK
<1>16. q.del \cap q.left = {} /\ q.del \cap Present(q.got) = {}
  <2>1. j.del \cap j.left = {} /\ j.del \cap Present(j.got) = {}
    BY <1>14 DEF CaptureOK
  <2>2. f \notin j.del
    BY <1>4, <2>1
  <2>3. ASSUME NEW h \in j.del, h \in Present(g)
        PROVE  FALSE
    <3>1. h # f /\ h \in Files /\ g[h] # 0
      BY <2>2, <2>3 DEF Present
    <3>2. h \in Present(j.got)
      BY <1>6, <3>1 DEF Present
    <3> QED  BY <2>1, <2>3, <3>2
  <2> QED  BY <1>7, <1>11, <2>1, <2>3, ZenonT(30)
<1>17. ASSUME NEW h \in q.scope
       PROVE  \/ h \in q.left \/ q.got[h] # 0
              \/ h \in q.del /\ q.seen[h] = 0
              \/ h \notin q.del /\ FromBase(q.base, h, q.seen[h])
  <2>1. \/ h \in j.left \/ j.got[h] # 0
        \/ h \in j.del /\ j.seen[h] = 0
        \/ h \notin j.del /\ FromBase(j.base, h, j.seen[h])
    BY <1>11, <1>14, <1>17 DEF CaptureOK
  <2>2. h \in Files
    BY <1>11, <1>17, JobFields, ZenonT(30)
  <2>3. h \in j.left => h \in l \/ g[h] # 0
    BY <1>5, <1>6, <1>7
  <2>4. j.got[h] # 0 => g[h] # 0
    BY <1>5, <1>6, <2>2
  <2> QED  BY <1>11, <2>1, <2>3, <2>4, ZenonT(30)
<1>18. q.pc # "hash" /\ q.pc # "save" /\ (q.base = NoKey => q.del = {} /\ q.scope = {}) /\ KeyOK(q.key, q.base)
  BY <1>2, <1>11, <1>14 DEF CaptureOK
<1>19. CaptureOK(q)
  BY <1>15, <1>16, <1>17, <1>18, ZenonT(30) DEF CaptureOK
<1>20. JobOK(q)
  BY <1>11, <1>13, <1>14, <1>19, ZenonT(30) DEF JobOK
<1> QED  BY <1>1, <1>2, <1>9, <1>10, <1>11, <1>13, <1>20, JobGoesOn, ZenonT(30)

\* The archive is hashed.
LEMMA HashArchiveInv ==
  ASSUME TypeInv, SnapInv, NEW c \in Conns, HashArchive(c)
  PROVE  TypeInv' /\ SnapInv'
<1>1. PICK j \in Jobs : j = job[c] /\ JobOK(j)
  BY Jobbed, ZenonT(30)
<1>2. /\ j.pc = "hash"
      /\ job' = [job EXCEPT ![c] = [j EXCEPT !.hash = disk[j.key], !.pc = "save"]]
      /\ UNCHANGED <<tip, ws, writes, disk, rows, ops, made>>
  BY <1>1 DEF HashArchive, snapshotPath
<1>3. Writing(j)
  BY <1>2 DEF Writing
<1>4. CaptureOK(j)
  BY <1>1, <1>3 DEF JobOK
<1>5. j.key \in Keys
  BY <1>4 DEF CaptureOK, KeyOK
<1>6. PICK h \in Archives : h = disk[j.key] /\ Good(h)
  BY <1>5, ZenonT(30) DEF TypeInv, SnapInv
<1>7. PICK q : q = ToSave(j, h)
  OBVIOUS
<1>8. job' = [job EXCEPT ![c] = q]
  BY <1>2, <1>6, <1>7 DEF ToSave
<1>9. q \in Jobs
  BY <1>7, StepSave, ZenonT(30)
<1>10. /\ q.pc = "save" /\ q.key = j.key /\ q.base = j.base /\ q.left = j.left /\ q.got = j.got
       /\ q.del = j.del /\ q.hash = h /\ q.seen = j.seen /\ q.scope = j.scope
  BY <1>7, ZenonT(30) DEF ToSave, Jobs
<1>11. q.mixed = j.mixed
  BY <1>7, ZenonT(30) DEF ToSave, Jobs
<1>12. Writing(q) /\ ~ Restoring(q)
  BY <1>10 DEF Writing, Restoring
<1>13. Whole(q) = Whole(j)
  BY <1>10 DEF Whole
<1>14. WritesOK(q)
  <2>1. "hash" # "walk"
    OBVIOUS
  <2>2. made[j.key] # 0 /\ (made[j.key] = 1 => ~ j.mixed /\ disk[j.key] = Whole(j))
    BY <1>2, <1>3, <1>4, <2>1, ZenonT(30) DEF CaptureOK, WritesOK
  <2> QED  BY <1>6, <1>10, <1>11, <1>13, <2>2, ZenonT(30) DEF WritesOK
<1>15. q.left = {}
  BY <1>2, <1>4, <1>10 DEF CaptureOK
<1>16. CaptureOK(q)
  BY <1>4, <1>10, <1>14, <1>15, ZenonT(30) DEF CaptureOK
<1>17. JobOK(q)
  BY <1>6, <1>10, <1>12, <1>16, ZenonT(30) DEF JobOK
<1> QED  BY <1>1, <1>2, <1>3, <1>8, <1>9, <1>10, <1>17, JobGoesOn, ZenonT(30)

\* The row a capture saves is right, and nobody writes its archive unless it
\* has been captured again.
LEMMA SavedRow ==
  ASSUME TypeInv, SnapInv, NEW c \in Conns, job[c].pc = "save", job' = [job EXCEPT ![c] = Idle],
         made' = made, disk' = disk, NEW r, r = Row(job[c])
  PROVE  r \in RowRecs /\ RowOK(r)'
<1>1. PICK j \in Jobs : j = job[c] /\ JobOK(j)
  BY Jobbed, ZenonT(30)
<1>2. j.pc = "save" /\ Writing(j)
  BY <1>1 DEF Writing
<1>3. CaptureOK(j) /\ Good(j.hash)
  BY <1>1, <1>2 DEF JobOK
<1>4. /\ j.key \in MaybeKeys /\ j.base \in MaybeKeys /\ j.hash \in Archives /\ j.got \in Views
      /\ j.seen \in Views /\ j.scope \in SUBSET Files /\ j.del \in SUBSET Files
  BY JobFields, ZenonT(30)
<1>5. View(j) \in Views /\ \A f \in Files : View(j)[f] = IF j.got[f] # 0 THEN j.got[f] ELSE j.seen[f]
  BY <1>4, SMTT(30) DEF View, Views
<1>6. j.scope \cup Present(j.got) \in SUBSET Files
  BY <1>4 DEF Present
<1>7. /\ r.key = j.key /\ r.base = j.base /\ r.hash = j.hash /\ r.view = View(j)
      /\ r.scope = j.scope \cup Present(j.got)
  BY <1>1, ZenonT(30) DEF Row
<1>8. r \in RowRecs
  BY <1>1, <1>4, <1>5, <1>6, ZenonT(30) DEF Row, RowRecs
<1>9. \A d \in Conns : job'[d] = IF d = c THEN Idle ELSE job[d]
  BY ZenonT(30) DEF TypeInv
<1>10. \A d \in Conns : Writing(job[d])' => d # c /\ Writing(job[d]) /\ job'[d].key = job[d].key
  <2>1. ~ Writing(Idle)
    BY IdleOK
  <2> QED  BY <1>9, <2>1, ZenonT(30) DEF Writing
<1>11. Keeps
  BY <1>10, ArchivesKept, ZenonT(30)
<1>12. KeyOK(r.key, r.base)'
  <2>1. KeyOK(j.key, j.base)
    BY <1>3 DEF CaptureOK
  <2> QED  BY <1>7, <1>11, <2>1, ZenonT(30) DEF KeyOK, Keeps
<1>13. WritesOK(j)
  BY <1>2, <1>3 DEF CaptureOK
<1>14. Settled(r.key)'
  <2>1. made'[r.key] # 0
    BY <1>7, <1>13 DEF WritesOK
  <2>2. ASSUME made'[r.key] = 1, NEW d \in Conns, Writing(job[d])', job'[d].key = r.key
        PROVE  FALSE
    <3>1. d # c /\ Writing(job[d]) /\ job[d].key = job[c].key
      BY <1>1, <1>7, <1>10, <2>2, ZenonT(30)
    <3>2. made[job[c].key] = 2
      BY <1>1, <1>2, <3>1, ZenonT(30) DEF SnapInv, ApartInv
    <3> QED  BY <1>1, <1>7, <2>2, <3>2
  <2> QED  BY <2>1, <2>2, ZenonT(30) DEF Settled
<1>15. Good(r.hash)'
  BY <1>3, <1>7 DEF Good
<1>16. ASSUME made'[r.key] = 1
       PROVE  /\ disk'[r.key] = r.hash /\ Readable(r.hash)' /\ r.hash.e = j.got /\ r.hash.del = j.del
  <2>1. disk[j.key] = Whole(j) /\ j.hash = Whole(j)
    <3>1. "save" # "walk" /\ made[j.key] = 1
      BY <1>7, <1>16
    <3> QED  BY <1>2, <1>13, <3>1, ZenonT(30) DEF WritesOK
  <2>2. Whole(j).kind = "archive" /\ Whole(j).e = j.got /\ Whole(j).del = j.del
    BY DEF Whole, Bytes
  <2> QED  BY <1>7, <2>1, <2>2 DEF Readable
<1>17. ASSUME made'[r.key] = 1, NEW f \in Present(r.hash.e)
       PROVE  r.hash.e[f] = r.view[f]
  <2>1. f \in Files /\ j.got[f] # 0 /\ r.hash.e = j.got
    BY <1>16, <1>17 DEF Present
  <2> QED  BY <1>5, <1>7, <2>1
<1>18. ASSUME made'[r.key] = 1, NEW f \in r.scope
       PROVE  \/ r.hash.e[f] # 0
              \/ f \in r.hash.del /\ r.view[f] = 0
              \/ f \notin r.hash.del /\ r.base # NoKey /\ FromBase(r.base, f, r.view[f])'
  <2>1. r.hash.e = j.got /\ r.hash.del = j.del /\ f \in Files
    BY <1>6, <1>7, <1>16, <1>18
  <2>2. CASE j.got[f] # 0
    BY <2>1, <2>2
  <2>3. CASE j.got[f] = 0
    <3>1. f \in j.scope
      BY <1>7, <1>18, <2>3 DEF Present
    <3>2. j.left = {} /\ j.base # NoKey
      BY <1>2, <1>3, <3>1 DEF CaptureOK
    <3>3. \/ f \in j.del /\ j.seen[f] = 0
          \/ f \notin j.del /\ FromBase(j.base, f, j.seen[f])
      BY <1>3, <2>3, <3>1, <3>2 DEF CaptureOK
    <3>4. r.view[f] = j.seen[f]
      BY <1>5, <1>7, <2>1, <2>3
    <3>5. FromBase(j.base, f, j.seen[f]) => FromBase(r.base, f, r.view[f])'
      BY <1>7, <3>4 DEF FromBase
    <3> QED  BY <1>7, <2>1, <3>2, <3>3, <3>4, <3>5, ZenonT(30)
  <2> QED  BY <2>2, <2>3
<1>19. RowOK(r)'
  BY <1>12, <1>14, <1>15, <1>16, <1>17, <1>18, ZenonT(30) DEF RowOK
<1> QED  BY <1>8, <1>19

\* A capture is saved.
LEMMA SaveInv ==
  ASSUME TypeInv, SnapInv, NEW c \in Conns, save(c)
  PROVE  TypeInv' /\ SnapInv'
<1>1. PICK r : r = Row(job[c])
  OBVIOUS
<1>2. PICK m : m = NextRow
  OBVIOUS
<1>3. /\ job[c].pc = "save"
      /\ rows' = [n \in DOMAIN rows \cup {m} |-> IF n = m THEN r ELSE rows[n]]
      /\ job' = [job EXCEPT ![c] = Idle]
      /\ UNCHANGED <<tip, ws, writes, disk, ops, made>>
  BY <1>1, <1>2 DEF save
<1>4. made' = made /\ disk' = disk /\ ws' = ws
  BY <1>3
<1>5. r \in RowRecs /\ RowOK(r)'
  BY <1>1, <1>3, <1>4, SavedRow, ZenonT(30)
<1>6. \A x \in Range(rows') : x \in Range(rows) \/ x = r
  BY <1>3, ZenonT(30) DEF Range
<1>7. DOMAIN rows' = DOMAIN rows \cup {m}
  BY <1>3
<1>8. job' \in [Conns -> Jobs] /\ job'[c] = Idle /\ \A d \in Conns \ {c} : job'[d] = job[d]
  BY <1>3, IdleFacts, Moves, ZenonT(30)
<1>9. \A d \in Conns : Writing(job[d])' => Writing(job[d]) /\ job'[d].key = job[d].key
  <2>1. ~ Writing(Idle)
    BY IdleOK
  <2>2. ~ Writing(job[c])'
    BY <1>8, <2>1 DEF Writing
  <2>3. ASSUME NEW d \in Conns, d # c
        PROVE  Writing(job[d])' => Writing(job[d]) /\ job'[d].key = job[d].key
    <3>1. job'[d] = job[d]
      BY <1>8, <2>3
    <3> QED  BY <3>1 DEF Writing
  <2> QED  BY <2>2, <2>3
<1>10. /\ Keeps /\ ApartInv'
       /\ \A k \in Keys : Good(disk[k])'
       /\ \A d \in Conns : Writing(job[d]) => Stays(job[d].key)
  BY <1>4, <1>9, ArchivesKept, ZenonT(30)
<1>11. \A d \in Conns \ {c} : Follows(d)
  BY <1>4, <1>8, ZenonT(30) DEF Follows
<1>12. \A j : j = job'[c] => JobOK(j)'
  BY <1>8, IdleOK, ZenonT(30)
<1>13. \A x \in Range(rows') : x \in Range(rows) \/ RowOK(x)'
  BY <1>5, <1>6, ZenonT(30)
<1>14. \A d \in Conns : Writing(job[d]) /\ d # c => Stays(job[d].key)
  BY <1>10
<1>15. SnapInv'
  BY <1>8, <1>10, <1>11, <1>12, <1>13, <1>14, SnapParts, ZenonT(30)
<1>16. TypeInv'
  <2>1. \A x \in Range(rows') : x \in RowRecs
    BY <1>5, <1>6 DEF TypeInv
  <2> QED  BY <1>3, <1>8, <2>1, ZenonT(30) DEF TypeInv
<1> QED  BY <1>15, <1>16

-----------------------------------------------------------------------------
(* A restore goes on.                                                      *)

\* The base is opened.
LEMMA OpenBaseInv ==
  ASSUME TypeInv, SnapInv, NEW c \in Conns, OpenBase(c)
  PROVE  TypeInv' /\ SnapInv'
<1>1. PICK j \in Jobs : j = job[c] /\ JobOK(j)
  BY Jobbed, ZenonT(30)
<1>2. j.pc = "base" /\ UNCHANGED <<tip, ws, writes, disk, rows, ops, made>>
  BY <1>1 DEF OpenBase
<1>3. Restoring(j)
  BY <1>2 DEF Restoring
<1>4. RestoreOK(j)
  BY <1>1, <1>3 DEF JobOK
<1>5. RowOK(j.row) /\ j.row.base # NoKey
  BY <1>2, <1>4 DEF RestoreOK
<1>6. j.row.base \in Keys
  BY <1>5 DEF RowOK, KeyOK
<1>7. PICK b \in Archives : b = disk[j.row.base] /\ Good(b)
  BY <1>6, ZenonT(30) DEF TypeInv, SnapInv
<1>8. PICK l \in SUBSET Files : l = Present(b.e)
  BY ArchiveFields
<1>9. CASE job' = [job EXCEPT ![c] = Idle]
  BY <1>2, <1>9, JobEnds, ZenonT(30)
<1>10. CASE job' = [job EXCEPT ![c] = ToBase(j, b, l)]
  <2>1. PICK q : q = ToBase(j, b, l)
    OBVIOUS
  <2>2. q \in Jobs
    BY <2>1, StepBase, ZenonT(30)
  <2>3. q.pc = "extractBase" /\ q.key = j.key /\ q.hash = b /\ q.left = l /\ q.row = j.row
    BY <2>1, ZenonT(30) DEF ToBase, Jobs
  <2>4. ~ Writing(q) /\ q.pc # "create" /\ q.pc # "open" /\ q.pc # "extract" /\ q.pc # "done"
    BY <2>3 DEF Writing
  <2>5. Has(q.hash.e, Present(q.hash.e) \ q.left)
    BY <1>8, <2>3 DEF Has
  <2>6. RestoreOK(q)
    BY <1>4, <1>5, <1>7, <2>3, <2>4, <2>5, ZenonT(30) DEF RestoreOK
  <2>7. JobOK(q)
    BY <1>7, <2>3, <2>4, <2>6, ZenonT(30) DEF JobOK
  <2>8. job' = [job EXCEPT ![c] = q]
    BY <1>10, <2>1
  <2> QED  BY <1>2, <2>2, <2>4, <2>7, <2>8, JobGoesOn, ZenonT(30)
<1>11. \/ job' = [job EXCEPT ![c] = Idle]
       \/ job' = [job EXCEPT ![c] = ToBase(j, b, l)]
  <2>1. \/ job' = [job EXCEPT ![c] = Idle]
        \/ job' = [job EXCEPT ![c] = [job[c] EXCEPT !.pc = "extractBase", !.hash = disk[job[c].row.base],
                                                   !.left = Present(disk[job[c].row.base].e)]]
    BY DEF OpenBase, snapshotPath
  <2> QED  BY <1>1, <1>7, <1>8, <2>1 DEF ToBase
<1> QED  BY <1>9, <1>10, <1>11

\* The archive is opened.
LEMMA OpenArchiveInv ==
  ASSUME TypeInv, SnapInv, NEW c \in Conns, OpenArchive(c)
  PROVE  TypeInv' /\ SnapInv'
<1>1. PICK j \in Jobs : j = job[c] /\ JobOK(j)
  BY Jobbed, ZenonT(30)
<1>2. j.pc = "open" /\ UNCHANGED <<tip, ws, writes, disk, rows, ops, made>>
  BY <1>1 DEF OpenArchive
<1>3. Restoring(j)
  BY <1>2 DEF Restoring
<1>4. RestoreOK(j)
  BY <1>1, <1>3 DEF JobOK
<1>5. RowOK(j.row) /\ j.row.key = j.key /\ (j.quiet => BaseHeld(j.row, {}))
  BY <1>2, <1>4 DEF RestoreOK
<1>6. j.key \in Keys
  BY <1>5 DEF RowOK, KeyOK
<1>7. PICK b \in Archives : b = disk[j.key] /\ Good(b)
  BY <1>6, ZenonT(30) DEF TypeInv, SnapInv
<1>8. PICK l \in SUBSET Files : l = Present(b.e)
  BY ArchiveFields
<1>9. PICK m \in SUBSET Files : m = b.del
  BY ArchiveFields
<1>10. CASE job' = [job EXCEPT ![c] = Idle]
  BY <1>2, <1>10, JobEnds, ZenonT(30)
<1>11. CASE job' = [job EXCEPT ![c] = ToExtract(j, b, l, m)] /\ b = j.row.hash /\ Readable(b)
  <2>1. PICK q : q = ToExtract(j, b, l, m)
    OBVIOUS
  <2>2. q \in Jobs
    BY <2>1, StepExtract, ZenonT(30)
  <2>3. q.pc = "extract" /\ q.key = j.key /\ q.hash = b /\ q.left = l /\ q.del = m /\ q.row = j.row
    BY <2>1, ZenonT(30) DEF ToExtract, Jobs
  <2>4. q.quiet = j.quiet
    BY <2>1, ZenonT(30) DEF ToExtract, Jobs
  <2>5. ~ Writing(q) /\ q.pc # "create" /\ q.pc # "open" /\ q.pc # "base" /\ q.pc # "extractBase" /\ q.pc # "done"
    BY <2>3 DEF Writing
  <2>6. Has(q.hash.e, Present(q.hash.e) \ q.left)
    BY <1>8, <2>3 DEF Has
  <2>7. q.quiet => BaseHeld(q.row, Present(q.hash.e))
    BY <1>5, <2>3, <2>4, ZenonT(30) DEF BaseHeld, Has
  <2>8. q.pc \notin {"base", "extractBase"}
    BY <2>5
  <2>9. q.left \subseteq Present(q.hash.e)
    BY <1>8, <2>3
  <2>10. q.hash = q.row.hash /\ Readable(q.hash) /\ q.del = q.hash.del
    BY <1>9, <1>11, <2>3
  <2>11. RowOK(q.row) /\ q.row.key = q.key /\ q.row \in RowRecs
    BY <1>4, <1>5, <2>3 DEF RestoreOK
  <2>12. RestoreOK(q)
    BY <2>5, <2>6, <2>7, <2>8, <2>9, <2>10, <2>11, ZenonT(30) DEF RestoreOK
  <2>13. JobOK(q)
    BY <1>7, <2>3, <2>5, <2>12, ZenonT(30) DEF JobOK
  <2>14. job' = [job EXCEPT ![c] = q]
    BY <1>11, <2>1
  <2> QED  BY <1>2, <2>2, <2>5, <2>13, <2>14, JobGoesOn, ZenonT(30)
<1>12. \/ job' = [job EXCEPT ![c] = Idle]
       \/ job' = [job EXCEPT ![c] = ToExtract(j, b, l, m)] /\ b = j.row.hash /\ Readable(b)
  <2>1. \/ job' = [job EXCEPT ![c] = Idle]
        \/ /\ Verified(disk[job[c].key], job[c].row)
           /\ job' = [job EXCEPT ![c] = [job[c] EXCEPT !.pc = "extract", !.hash = disk[job[c].key],
                                                      !.left = Present(disk[job[c].key].e),
                                                      !.del = disk[job[c].key].del]]
    BY DEF OpenArchive, snapshotPath
  <2> QED  BY <1>1, <1>7, <1>8, <1>9, <2>1 DEF ToExtract, Verified
<1> QED  BY <1>10, <1>11, <1>12

\* The base has been extracted.
LEMMA BaseDoneInv ==
  ASSUME TypeInv, SnapInv, NEW c \in Conns, BaseDone(c)
  PROVE  TypeInv' /\ SnapInv'
<1>1. PICK j \in Jobs : j = job[c] /\ JobOK(j)
  BY Jobbed, ZenonT(30)
<1>2. PICK q : q = At(j, "open")
  OBVIOUS
<1>3. /\ j.pc = "extractBase" /\ j.left = {} /\ UNCHANGED <<tip, ws, writes, disk, rows, ops, made>>
      /\ job' = [job EXCEPT ![c] = q]
  BY <1>1, <1>2 DEF BaseDone, At
<1>4. Restoring(j)
  BY <1>3 DEF Restoring
<1>5. RestoreOK(j) /\ Good(j.hash)
  BY <1>1, <1>4 DEF JobOK
<1>6. /\ RowOK(j.row) /\ j.row.key = j.key /\ j.row \in RowRecs
      /\ made[j.row.base] = 1 => j.hash = disk[j.row.base]
      /\ j.quiet => Has(j.hash.e, Present(j.hash.e) \ j.left)
  BY <1>3, <1>5, ZenonT(30) DEF RestoreOK
<1>7. "open" \in Places
  BY DEF Places
<1>8. q \in Jobs
  BY <1>2, <1>7, StepAt, ZenonT(30)
<1>9. q.pc = "open" /\ q.key = j.key /\ q.row = j.row /\ q.hash = j.hash
  BY <1>2, ZenonT(30) DEF At, Jobs
<1>10. q.quiet = j.quiet
  BY <1>2, ZenonT(30) DEF At, Jobs
<1>11. ~ Writing(q) /\ q.pc # "create" /\ q.pc \notin {"base", "extractBase"} /\ q.pc # "extractBase"
       /\ q.pc # "extract" /\ q.pc # "done"
  BY <1>9 DEF Writing
<1>12. q.quiet => BaseHeld(q.row, {})
  BY <1>3, <1>6, <1>9, <1>10, ZenonT(30) DEF BaseHeld, Has
<1>13. RestoreOK(q)
  BY <1>6, <1>9, <1>11, <1>12, ZenonT(30) DEF RestoreOK
<1>14. JobOK(q)
  BY <1>5, <1>9, <1>11, <1>13, ZenonT(30) DEF JobOK
<1> QED  BY <1>3, <1>8, <1>11, <1>14, JobGoesOn, ZenonT(30)

\* A job ends: a save or an extraction failed, or the reply was sent.
LEMMA EndsInv ==
  ASSUME TypeInv, SnapInv, NEW c \in Conns, saveFails(c) \/ ExtractFails(c) \/ Restored(c)
  PROVE  TypeInv' /\ SnapInv'
<1>1. job' = [job EXCEPT ![c] = Idle] /\ UNCHANGED <<tip, ws, writes, disk, rows, ops, made>>
  BY DEF saveFails, ExtractFails, Restored
<1> QED  BY <1>1, JobEnds, ZenonT(30)

-----------------------------------------------------------------------------
(* The workspace changes.                                                  *)

\* The jobs after somebody changed the workspace.
LEMMA DisturbedJobs ==
  ASSUME TypeInv, NEW x
  PROVE  /\ Disturbed(job, x) \in [Conns -> Jobs]
         /\ x \in Conns => Disturbed(job, x)[x] = job[x]
         /\ \A d \in Conns \ {x} : \/ Disturbed(job, x)[d] = job[d] /\ ~ Restoring(job[d])
                                   \/ Disturbed(job, x)[d] = Loud(job[d]) /\ Restoring(job[d])
<1>1. \A d \in Conns : job[d] \in Jobs
  BY DEF TypeInv
<1>2. \A d \in Conns : Disturbed(job, x)[d] = IF d # x /\ Restoring(job[d]) THEN Loud(job[d]) ELSE job[d]
  BY ZenonT(30) DEF Disturbed, Loud
<1>3. \A d \in Conns : Disturbed(job, x)[d] \in Jobs
  BY <1>1, <1>2, StepLoud, ZenonT(30)
<1>4. Disturbed(job, x) \in [Conns -> Jobs]
  <2>1. \E J : Disturbed(job, x) = [d \in Conns |-> J[d]]
    <3>1. Disturbed(job, x) = [d \in Conns |-> Disturbed(job, x)[d]]
      BY ZenonT(30) DEF Disturbed
    <3> QED  BY <3>1, ZenonT(30)
  <2> QED  BY <1>3, <2>1, ZenonT(30)
<1> QED  BY <1>2, <1>4, ZenonT(30)

\* A file has new contents.
LEMMA Rewritten ==
  ASSUME TypeInv, NEW f \in Files, NEW v \in Versions, NEW s \in BOOLEAN,
         ws' = [ws EXCEPT ![f] = [v |-> v, sec |-> s]]
  PROVE  /\ ws' \in [Files -> [v : Versions, sec : BOOLEAN]]
         /\ ws'[f].v = v /\ \A g \in Files : g # f => ws'[g] = ws[g]
<1>1. ws \in [Files -> [v : Versions, sec : BOOLEAN]]
  BY DEF TypeInv
<1>2. PICK r : r = [v |-> v, sec |-> s]
  OBVIOUS
<1>3. r \in [v : Versions, sec : BOOLEAN] /\ r.v = v
  BY <1>2, ZenonT(30)
<1>4. ws' = [ws EXCEPT ![f] = r]
  BY <1>2
<1>5. ws' \in [Files -> [v : Versions, sec : BOOLEAN]] /\ ws'[f] = r /\ \A g \in Files : g # f => ws'[g] = ws[g]
  BY <1>1, <1>3, <1>4, ZenonT(30)
<1> QED  BY <1>3, <1>5

\* Everybody but connection x, if it is one, looks on while the workspace
\* changes.
LEMMA OthersFollow ==
  ASSUME TypeInv, NEW x, \A d \in Conns \ {x} : job'[d] = Disturbed(job, x)[d]
  PROVE  \A d \in Conns \ {x} : Follows(d)
<1>1. SUFFICES ASSUME NEW d \in Conns \ {x}
               PROVE  Follows(d)
  OBVIOUS
<1>2. \/ Disturbed(job, x)[d] = job[d] /\ ~ Restoring(job[d])
      \/ Disturbed(job, x)[d] = Loud(job[d]) /\ Restoring(job[d])
  BY DisturbedJobs
<1>3. job'[d] = Disturbed(job, x)[d]
  OBVIOUS
<1> QED  BY <1>2, <1>3, ZenonT(30) DEF Follows

\* An agent, or a reverse command, changes a file.
LEMMA FileChangesInv ==
  ASSUME TypeInv, SnapInv, NEW f \in Files, FileChanges(f), job' = Disturbed(job, 0),
         UNCHANGED <<tip, disk, rows, made>>, ops' = ops
  PROVE  TypeInv' /\ SnapInv'
<1>1. writes < MaxWrites /\ writes' = writes + 1 /\ writes \in 0..MaxWrites
  BY DEF FileChanges, TypeInv
<1>2. writes + 1 \in Versions /\ 0 \in Versions /\ writes' \in 0..MaxWrites
  BY <1>1, SnapshotsAssumption, SMTT(30) DEF Versions
<1>3. ws' \in [Files -> [v : Versions, sec : BOOLEAN]]
  <2>1. PICK v \in Versions : ws' = [ws EXCEPT ![f] = [v |-> v, sec |-> FALSE]]
    BY <1>2, ZenonT(30) DEF FileChanges
  <2>2. FALSE \in BOOLEAN
    OBVIOUS
  <2> QED  BY <2>1, <2>2, Rewritten, ZenonT(30)
<1>4. job' \in [Conns -> Jobs]
  BY DisturbedJobs, ZenonT(30)
<1>5. TypeInv'
  BY <1>2, <1>3, <1>4, ZenonT(30) DEF TypeInv
<1>6. 0 \notin Conns
  BY SnapshotsAssumption
<1>7. \A d \in Conns \ {0} : job'[d] = Disturbed(job, 0)[d]
  OBVIOUS
<1>8. \A d \in Conns \ {0} : Follows(d)
  BY <1>7, OthersFollow, ZenonT(30)
<1>9. made' = made /\ disk' = disk /\ \A r \in Range(rows') : r \in Range(rows)
  OBVIOUS
<1>10. SnapInv'
  BY <1>4, <1>6, <1>8, <1>9, PlainStep, ZenonT(30)
<1> QED  BY <1>5, <1>10

\* A file is extracted.
LEMMA ExtractFileInv ==
  ASSUME TypeInv, SnapInv, NEW c \in Conns, ExtractFile(c)
  PROVE  TypeInv' /\ SnapInv'
<1>1. PICK j \in Jobs : j = job[c] /\ JobOK(j)
  BY Jobbed, ZenonT(30)
<1>2. PICK f \in Ahead(j) : /\ ws' = [ws EXCEPT ![f] = [v |-> j.hash.e[f], sec |-> TRUE]]
                            /\ job' = [Disturbed(job, c) EXCEPT ![c].left = @ \ {f}]
  BY <1>1, ZenonT(30) DEF ExtractFile
<1>3. /\ j.pc \in {"extractBase", "extract"} /\ UNCHANGED <<tip, writes, disk, rows, ops, made>>
  BY <1>1 DEF ExtractFile
<1>4. j.left \in SUBSET Files /\ j.hash \in Archives
  BY JobFields, ZenonT(30)
<1>5. f \in j.left /\ f \in Files
  BY <1>2, <1>4 DEF Ahead
<1>6. PICK v \in Versions : v = j.hash.e[f]
  <2>1. j.hash.e \in Views
    BY <1>4, ArchiveFields, ZenonT(30)
  <2> QED  BY <1>5, <2>1 DEF Views
<1>7. /\ ws' \in [Files -> [v : Versions, sec : BOOLEAN]]
      /\ ws'[f].v = v /\ \A g \in Files : g # f => ws'[g] = ws[g]
  <2>1. ws' = [ws EXCEPT ![f] = [v |-> v, sec |-> TRUE]] /\ TRUE \in BOOLEAN
    BY <1>2, <1>6
  <2> QED  BY <1>5, <2>1, Rewritten, ZenonT(30)
<1>8. PICK l \in SUBSET Files : l = j.left \ {f}
  BY <1>4
<1>9. PICK q : q = Less(j, l)
  OBVIOUS
<1>10. q \in Jobs
  BY <1>9, StepLess, ZenonT(30)
<1>11. q.pc = j.pc /\ q.key = j.key /\ q.left = l /\ q.del = j.del /\ q.hash = j.hash /\ q.row = j.row
  BY <1>9, ZenonT(30) DEF Less, Jobs
<1>12. q.quiet = j.quiet
  BY <1>9, ZenonT(30) DEF Less, Jobs
<1>13. PICK J \in [Conns -> Jobs] : J = Disturbed(job, c) /\ J[c] = j
  BY <1>1, DisturbedJobs, ZenonT(30)
<1>14. job' = [J EXCEPT ![c] = q]
  <2>1. job' = [J EXCEPT ![c] = [J[c] EXCEPT !.left = J[c].left \ {f}]]
    BY <1>2, <1>13
  <2> QED  BY <1>8, <1>9, <1>13, <2>1 DEF Less
<1>15. job' \in [Conns -> Jobs] /\ job'[c] = q /\ \A d \in Conns \ {c} : job'[d] = J[d]
  BY <1>10, <1>14, ZenonT(30)
<1>16. \A d \in Conns \ {c} : Follows(d)
  BY <1>13, <1>15, OthersFollow, ZenonT(30)
<1>17. Restoring(j) /\ q.pc # "create" /\ ~ Writing(q) /\ ~ Writing(q)' /\ q.pc # "open" /\ q.pc # "base" /\ q.pc # "done"
  BY <1>3, <1>11 DEF Restoring, Writing
<1>18. RestoreOK(j) /\ Good(j.hash)
  BY <1>1, <1>17 DEF JobOK
<1>19. RowOK(j.row) /\ j.row.key = j.key /\ j.row \in RowRecs
  BY <1>18 DEF RestoreOK
<1>20. ASSUME Has(j.hash.e, Present(j.hash.e) \ j.left)
       PROVE  Has(j.hash.e, Present(j.hash.e) \ l)'
  <2>1. ASSUME NEW g \in Present(j.hash.e) \ l
        PROVE  ws'[g].v = j.hash.e[g]
    <3>1. g \in Files
      BY <2>1 DEF Present
    <3>2. CASE g = f
      BY <1>6, <1>7, <3>2
    <3>3. CASE g # f
      BY <1>7, <1>8, <1>20, <2>1, <3>1, <3>3 DEF Has
    <3> QED  BY <3>2, <3>3
  <2> QED  BY <2>1 DEF Has, Present
<1>21. ASSUME j.left \subseteq Present(j.hash.e), BaseHeld(j.row, Present(j.hash.e))
       PROVE  BaseHeld(j.row, Present(j.hash.e))'
  <2>1. ASSUME j.row.base # NoKey, made[j.row.base] = 1,
               NEW g \in Present(disk[j.row.base].e) \ Present(j.hash.e)
        PROVE  ws'[g].v = disk[j.row.base].e[g]
    <3>1. g \in Files /\ g # f
      BY <1>5, <1>21, <2>1 DEF Present
    <3>2. ws[g].v = disk[j.row.base].e[g]
      BY <1>21, <2>1, ZenonT(30) DEF BaseHeld, Has
    <3> QED  BY <1>7, <3>1, <3>2
  <2>2. made' = made /\ disk' = disk
    BY <1>3
  <2> QED  BY <2>1, <2>2, ZenonT(30) DEF BaseHeld, Has
<1>22. ASSUME Keeps
       PROVE  JobOK(q)'
  <2>1. RowOK(q.row)'
    BY <1>11, <1>19, <1>22, RowKept, ZenonT(30)
  <2>2. CASE j.pc = "extractBase"
    <3>1. /\ made'[q.row.base] = 1 => q.hash = disk'[q.row.base]
          /\ q.quiet => Has(q.hash.e, Present(q.hash.e) \ q.left)'
          /\ q.row.base # NoKey
      <4>1. /\ made[j.row.base] = 1 => j.hash = disk[j.row.base]
            /\ j.quiet => Has(j.hash.e, Present(j.hash.e) \ j.left)
            /\ j.row.base # NoKey
        BY <1>18, <2>2 DEF RestoreOK
      <4>2. made' = made /\ disk' = disk
        BY <1>3
      <4>3. q.quiet => Has(q.hash.e, Present(q.hash.e) \ q.left)'
        BY <1>11, <1>12, <1>20, <4>1, ZenonT(30)
      <4> QED  BY <1>11, <4>1, <4>2, <4>3
    <3>2. q.pc = "extractBase" /\ q.pc # "extract"
      BY <1>11, <2>2
    <3>3. RestoreOK(q)'
      BY <1>11, <1>17, <1>19, <2>1, <3>1, <3>2, ZenonT(30) DEF RestoreOK
    <3>4. Good(q.hash)'
      BY <1>11, <1>18 DEF Good
    <3> QED  BY <1>17, <3>3, <3>4, ZenonT(30) DEF JobOK
  <2>3. CASE j.pc = "extract"
    <3>1. /\ j.hash = j.row.hash /\ Readable(j.hash) /\ j.del = j.hash.del
          /\ j.left \subseteq Present(j.hash.e)
          /\ j.quiet => /\ Has(j.hash.e, Present(j.hash.e) \ j.left)
                        /\ BaseHeld(j.row, Present(j.hash.e))
      BY <1>18, <2>3 DEF RestoreOK
    <3>2. q.pc = "extract" /\ q.pc # "extractBase" /\ q.pc \notin {"base", "extractBase"}
      BY <1>11, <2>3
    <3>3. q.hash = q.row.hash /\ Readable(q.hash)' /\ q.del = q.hash.del
      BY <1>11, <3>1 DEF Readable
    <3>4. (q.left \subseteq Present(q.hash.e))'
      BY <1>8, <1>11, <3>1 DEF Present
    <3>5. q.quiet => Has(q.hash.e, Present(q.hash.e) \ q.left)'
      BY <1>11, <1>12, <1>20, <3>1, ZenonT(30)
    <3>6. q.quiet => BaseHeld(q.row, Present(q.hash.e))'
      BY <1>11, <1>12, <1>21, <3>1, ZenonT(30)
    <3>7. RestoreOK(q)'
      BY <1>11, <1>17, <1>19, <2>1, <3>2, <3>3, <3>4, <3>5, <3>6, ZenonT(30) DEF RestoreOK
    <3>8. Good(q.hash)'
      BY <1>11, <1>18 DEF Good
    <3> QED  BY <1>17, <3>7, <3>8, ZenonT(30) DEF JobOK
  <2> QED  BY <1>3, <2>2, <2>3
<1>23. Keeps => \A k : k = job'[c] => JobOK(k)'
  BY <1>15, <1>22, ZenonT(30)
<1>24. ~ Writing(job[c])'
  BY <1>15, <1>17 DEF Writing
<1>25. made' = made /\ disk' = disk /\ \A r \in Range(rows') : r \in Range(rows)
  BY <1>3
<1>26. SnapInv'
  BY <1>15, <1>16, <1>23, <1>24, <1>25, PlainStep, ZenonT(30)
<1>27. TypeInv'
  BY <1>3, <1>7, <1>15, ZenonT(30) DEF TypeInv
<1> QED  BY <1>26, <1>27

\* The files of the deletion manifest are removed, and the restore is done.
LEMMA RemoveDeletedInv ==
  ASSUME TypeInv, SnapInv, NEW c \in Conns, RemoveDeleted(c)
  PROVE  TypeInv' /\ SnapInv'
<1>1. PICK j \in Jobs : j = job[c] /\ JobOK(j)
  BY Jobbed, ZenonT(30)
<1>2. /\ j.pc = "extract" /\ j.left = {}
      /\ ws' = [f \in Files |-> IF f \in j.del THEN [v |-> 0, sec |-> FALSE] ELSE ws[f]]
      /\ UNCHANGED <<tip, writes, disk, rows, ops, made>>
  BY <1>1 DEF RemoveDeleted
<1>3. PICK J : J = IF ws' = ws THEN job ELSE Disturbed(job, c)
  OBVIOUS
<1>4. J \in [Conns -> Jobs] /\ J[c] = j
  <2>1. job \in [Conns -> Jobs]
    BY DEF TypeInv
  <2> QED  BY <1>1, <1>3, <2>1, DisturbedJobs, ZenonT(30)
<1>5. PICK q : q = At(j, "done")
  OBVIOUS
<1>6. job' = [J EXCEPT ![c] = q]
  <2>1. job' = [J EXCEPT ![c].pc = "done"]
    BY <1>3 DEF RemoveDeleted
  <2>2. job' = [J EXCEPT ![c] = [J[c] EXCEPT !.pc = "done"]]
    BY <2>1
  <2> QED  BY <1>4, <1>5, <2>2 DEF At
<1>7. q \in Jobs
  <2>1. "done" \in Places
    BY DEF Places
  <2> QED  BY <1>5, <2>1, StepAt, ZenonT(30)
<1>8. q.pc = "done" /\ q.key = j.key /\ q.hash = j.hash /\ q.row = j.row
  BY <1>5, ZenonT(30) DEF At, Jobs
<1>9. q.quiet = j.quiet
  BY <1>5, ZenonT(30) DEF At, Jobs
<1>10. job' \in [Conns -> Jobs] /\ job'[c] = q /\ \A d \in Conns \ {c} : job'[d] = J[d]
  BY <1>4, <1>6, <1>7, ZenonT(30)
<1>11. \A d \in Conns \ {c} : Follows(d)
  <2>1. CASE ws' = ws
    <3>1. \A d \in Conns \ {c} : job'[d] = job[d]
      BY <1>3, <1>10, <2>1
    <3> QED  BY <2>1, <3>1 DEF Follows
  <2>2. CASE ws' # ws
    <3>1. \A d \in Conns \ {c} : job'[d] = Disturbed(job, c)[d]
      BY <1>3, <1>10, <2>2
    <3> QED  BY <3>1, OthersFollow, ZenonT(30)
  <2> QED  BY <2>1, <2>2
<1>12. Restoring(j) /\ q.pc # "create" /\ ~ Writing(q) /\ ~ Writing(q)' /\ q.pc # "open" /\ q.pc # "extract"
       /\ q.pc # "extractBase" /\ q.pc \notin {"base", "extractBase"}
  BY <1>2, <1>8 DEF Restoring, Writing
<1>13. RestoreOK(j) /\ Good(j.hash)
  BY <1>1, <1>12 DEF JobOK
<1>14. /\ RowOK(j.row) /\ j.row.key = j.key /\ j.row \in RowRecs
       /\ j.hash = j.row.hash /\ Readable(j.hash) /\ j.del = j.hash.del
       /\ j.quiet => /\ Has(j.hash.e, Present(j.hash.e) \ j.left)
                     /\ BaseHeld(j.row, Present(j.hash.e))
  BY <1>2, <1>13, ZenonT(30) DEF RestoreOK
<1>15. /\ \A f \in Files : f \in j.del => ws'[f].v = 0
       /\ \A f \in Files : f \notin j.del => ws'[f] = ws[f]
  <2>1. [v |-> 0, sec |-> FALSE].v = 0
    OBVIOUS
  <2> QED  BY <1>2, <2>1, ZenonT(30)
<1>16. j.del \in SUBSET Files
  BY JobFields, ZenonT(30)
<1>17. ASSUME j.quiet
       PROVE  Has(j.hash.e, Present(j.hash.e))'
  <2>1. ASSUME NEW f \in Present(j.hash.e)
        PROVE  ws'[f].v = j.hash.e[f]
    <3>1. f \in Files /\ f \notin j.del
      BY <1>13, <1>14, <2>1 DEF Good, Present
    <3>2. ws[f].v = j.hash.e[f]
      BY <1>2, <1>14, <1>17, <2>1, ZenonT(30) DEF Has
    <3> QED  BY <1>15, <3>1, <3>2
  <2> QED  BY <2>1 DEF Has, Present
<1>18. Has(Nothing, j.hash.del)'
  <2>1. ASSUME NEW f \in j.hash.del
        PROVE  ws'[f].v = Nothing[f]
    <3>1. f \in Files /\ f \in j.del
      BY <1>14, <1>16, <2>1
    <3> QED  BY <1>15, <3>1, NothingFacts
  <2> QED  BY <2>1 DEF Has, Nothing
<1>19. ASSUME j.quiet
       PROVE  BaseHeld(j.row, Present(j.hash.e) \cup j.hash.del)'
  <2>1. ASSUME j.row.base # NoKey, made[j.row.base] = 1,
               NEW f \in Present(disk[j.row.base].e) \ (Present(j.hash.e) \cup j.hash.del)
        PROVE  ws'[f].v = disk[j.row.base].e[f]
    <3>1. f \in Files /\ f \notin j.del
      BY <1>14, <2>1 DEF Present
    <3>2. ws[f].v = disk[j.row.base].e[f]
      BY <1>14, <1>19, <2>1, ZenonT(30) DEF BaseHeld, Has
    <3> QED  BY <1>15, <3>1, <3>2
  <2>2. made' = made /\ disk' = disk
    BY <1>2
  <2> QED  BY <2>1, <2>2, ZenonT(30) DEF BaseHeld, Has
<1>20. ASSUME Keeps
       PROVE  JobOK(q)'
  <2>1. RowOK(q.row)'
    BY <1>8, <1>14, <1>20, RowKept, ZenonT(30)
  <2>2. Readable(q.row.hash)' /\ q.row.hash = j.hash
    BY <1>8, <1>14 DEF Readable
  <2>3. RestoreOK(q)'
    BY <1>8, <1>9, <1>12, <1>14, <1>17, <1>18, <1>19, <2>1, <2>2, ZenonT(30) DEF RestoreOK
  <2>4. Good(q.hash)'
    BY <1>8, <1>13 DEF Good
  <2> QED  BY <1>12, <2>3, <2>4, ZenonT(30) DEF JobOK
<1>21. Keeps => \A k : k = job'[c] => JobOK(k)'
  BY <1>10, <1>20, ZenonT(30)
<1>22. ~ Writing(job[c])'
  BY <1>10, <1>12 DEF Writing
<1>23. made' = made /\ disk' = disk /\ \A r \in Range(rows') : r \in Range(rows)
  BY <1>2
<1>24. SnapInv'
  BY <1>10, <1>11, <1>21, <1>22, <1>23, PlainStep, ZenonT(30)
<1>25. ws' \in [Files -> [v : Versions, sec : BOOLEAN]]
  <2>1. ws \in [Files -> [v : Versions, sec : BOOLEAN]]
    BY DEF TypeInv
  <2>2. [v |-> 0, sec |-> FALSE] \in [v : Versions, sec : BOOLEAN]
    BY NothingFacts, ZenonT(30)
  <2> QED  BY <1>2, <2>1, <2>2, ZenonT(30)
<1>26. TypeInv'
  BY <1>2, <1>10, <1>25, ZenonT(30) DEF TypeInv
<1> QED  BY <1>24, <1>26

-----------------------------------------------------------------------------
(* Receipts, deletions and crashes.                                        *)

\* Nothing happens to jobs and archives, and no row is new.
LEMMA JobsRest ==
  ASSUME TypeInv, SnapInv, UNCHANGED <<job, ws, disk, made>>,
         \A r \in Range(rows') : r \in Range(rows)
  PROVE  SnapInv'
<1>1. job' \in [Conns -> Jobs] /\ made' = made /\ disk' = disk
  BY DEF TypeInv
<1>2. 0 \notin Conns
  BY SnapshotsAssumption
<1>3. \A d \in Conns \ {0} : Follows(d)
  BY DEF Follows
<1> QED  BY <1>1, <1>2, <1>3, PlainStep, ZenonT(30)

\* A receipt is appended.
LEMMA ReceiptInv ==
  ASSUME TypeInv, SnapInv, Receipt
  PROVE  TypeInv' /\ SnapInv'
<1>1. /\ tip < MaxTip /\ tip' = tip + 1 /\ tip \in 0..MaxTip
      /\ UNCHANGED <<ws, writes, disk, rows, job, ops, made>>
  BY DEF Receipt, TypeInv
<1>2. tip' \in 0..MaxTip
  BY <1>1, SnapshotsAssumption, SMTT(30)
<1>3. TypeInv'
  BY <1>1, <1>2, ZenonT(30) DEF TypeInv
<1>4. UNCHANGED <<job, ws, disk, made>> /\ \A r \in Range(rows') : r \in Range(rows)
  BY <1>1
<1> QED  BY <1>3, <1>4, JobsRest, ZenonT(30)

\* Rows are deleted.
LEMMA DeleteInv ==
  ASSUME TypeInv, SnapInv, NEW i, Delete(i)
  PROVE  TypeInv' /\ SnapInv'
<1>1. PICK S : S = {n \in DOMAIN rows : rows[n].key[2] < i}
  OBVIOUS
<1>2. /\ ops < MaxOps /\ ops' = ops + 1 /\ ops \in 0..MaxOps
      /\ rows' = [n \in S |-> rows[n]]
      /\ UNCHANGED <<tip, ws, writes, disk, job, made>>
  BY <1>1 DEF Delete, Restrict, TypeInv
<1>3. DOMAIN rows' = S /\ S \subseteq DOMAIN rows
  BY <1>1, <1>2
<1>4. \A r \in Range(rows') : r \in Range(rows)
  BY <1>1, <1>2, ZenonT(30) DEF Range
<1>5. ops' \in 0..MaxOps
  BY <1>2, SnapshotsAssumption, SMTT(30)
<1>7. TypeInv'
  BY <1>2, <1>4, <1>5, ZenonT(30) DEF TypeInv
<1>8. UNCHANGED <<job, ws, disk, made>>
  BY <1>2
<1> QED  BY <1>4, <1>7, <1>8, JobsRest, ZenonT(30)

\* The daemon dies.
LEMMA CrashInv ==
  ASSUME TypeInv, SnapInv, SnapCrash
  PROVE  TypeInv' /\ SnapInv'
<1>1. job' = [c \in Conns |-> Idle] /\ UNCHANGED <<tip, ws, writes, disk, rows, ops, made>>
  BY DEF SnapCrash
<1>2. job' \in [Conns -> Jobs] /\ \A d \in Conns : job'[d] = Idle
  BY <1>1, IdleFacts, ZenonT(30)
<1>3. TypeInv'
  <2>1. ops' \in 0..MaxOps
    BY <1>1 DEF TypeInv
  <2> QED  BY <1>1, <1>2, <2>1, JobTypes, ZenonT(30)
<1>4. \A d \in Conns : ~ Writing(job[d])'
  BY <1>2, IdleFacts DEF Writing
<1>5. made' = made /\ disk' = disk
  BY <1>1
<1>6. Keeps /\ ApartInv' /\ \A k \in Keys : Good(disk[k])'
  BY <1>4, <1>5, ArchivesKept, ZenonT(30)
<1>7. ASSUME NEW j \in Range(job')
      PROVE  JobOK(j)'
  <2>1. j = Idle
    BY <1>2, <1>7 DEF Range
  <2> QED  BY <2>1, IdleOK
<1>8. ASSUME NEW r \in Range(rows')
      PROVE  RowOK(r)'
  <2>1. RowOK(r)
    BY <1>1, <1>8 DEF SnapInv
  <2> QED  BY <1>6, <2>1, RowKept, ZenonT(30)
<1>9. SnapInv'
  BY <1>6, <1>7, <1>8, ZenonT(30) DEF SnapInv
<1> QED  BY <1>3, <1>9

-----------------------------------------------------------------------------
(* Archives are created and written.                                       *)

\* The jobs after connection c wrote to its archive.
LEMMA SamePathJobs ==
  ASSUME NEW J \in [Conns -> Jobs], NEW c \in Conns
  PROVE  /\ SamePath(J, c) \in [Conns -> Jobs] /\ SamePath(J, c)[c] = J[c]
         /\ \A d \in Conns \ {c} :
              \/ SamePath(J, c)[d] = J[d]
              \/ SamePath(J, c)[d] = Mixed(J[d]) /\ J[d].pc = "walk" /\ J[d].key = J[c].key
<1>1. \A d \in Conns : SamePath(J, c)[d] = IF d # c /\ J[d].pc = "walk" /\ J[d].key = J[c].key
                                           THEN Mixed(J[d]) ELSE J[d]
  BY ZenonT(30) DEF SamePath, snapshotPath, Mixed
<1>2. \A d \in Conns : SamePath(J, c)[d] \in Jobs
  BY <1>1, StepMixed, ZenonT(30)
<1>3. SamePath(J, c) \in [Conns -> Jobs]
  <2>1. \E K : SamePath(J, c) = [d \in Conns |-> K[d]]
    <3>1. SamePath(J, c) = [d \in Conns |-> SamePath(J, c)[d]]
      BY ZenonT(30) DEF SamePath
    <3> QED  BY <3>1, ZenonT(30)
  <2> QED  BY <1>2, <2>1, ZenonT(30)
<1> QED  BY <1>1, <1>3, ZenonT(30)

\* A capture that has created its archive has been counted.
LEMMA Counted ==
  ASSUME TypeInv, SnapInv, NEW d \in Conns, Writing(job[d])
  PROVE  job[d].key \in Keys /\ made[job[d].key] \in 1..2
<1>1. JobOK(job[d])
  BY Jobbed, ZenonT(30)
<1>2. CaptureOK(job[d])
  BY <1>1 DEF JobOK
<1>3. job[d].key \in Keys /\ made[job[d].key] # 0
  BY <1>2 DEF CaptureOK, KeyOK, WritesOK
<1>4. made[job[d].key] \in 0..2
  BY <1>3 DEF TypeInv
<1> QED  BY <1>3, <1>4, SMTT(30)

\* A capture writes to its archive and closes it.
LEMMA Flushes ==
  ASSUME TypeInv, SnapInv, NEW c \in Conns, NEW q \in Jobs, job[c].pc = "walk", NEW b \in Flushed(job[c]),
         disk' = [disk EXCEPT ![job[c].key] = b], job' = [SamePath(job, c) EXCEPT ![c] = q],
         UNCHANGED <<tip, ws, writes, rows, ops, made>>,
         Writing(q) => q.key = job[c].key,
         Keeps => JobOK(q)'
  PROVE  TypeInv' /\ SnapInv'
<1>1. PICK j \in Jobs : j = job[c] /\ JobOK(j)
  BY Jobbed, ZenonT(30)
<1>2. Writing(job[c]) /\ Writing(j) /\ j.pc = "walk"
  BY <1>1 DEF Writing
<1>3. CaptureOK(j)
  BY <1>1, <1>2 DEF JobOK
<1>4. PICK k \in Keys : k = j.key
  BY <1>3 DEF CaptureOK, KeyOK
<1>5. made[k] \in 1..2
  BY <1>1, <1>2, <1>4, Counted, ZenonT(30)
<1>6. b \in Archives /\ Good(b)
  <2>1. b = Bytes("archive", j.got, j.del, 0) \/ b = Bytes("torn", Nothing, {}, ops)
    BY <1>1 DEF Flushed
  <2>2. j.got \in Views /\ j.del \in SUBSET Files
    BY JobFields, ZenonT(30)
  <2>3. ops \in Nat /\ 0 \in Nat
    <3>1. ops \in 0..MaxOps
      BY DEF TypeInv
    <3> QED  BY <3>1, SMTT(30)
  <2>4. CASE b = Bytes("archive", j.got, j.del, 0)
    <3>1. b \in Archives
      BY <2>2, <2>3, <2>4, ZenonT(30) DEF Bytes, Archives
    <3>2. b.e = j.got /\ b.del = j.del
      BY <2>4 DEF Bytes
    <3> QED  BY <1>3, <3>1, <3>2 DEF Good, CaptureOK
  <2>5. CASE b = Bytes("torn", Nothing, {}, ops)
    <3>1. b \in Archives
      <4>1. {} \in SUBSET Files
        OBVIOUS
      <4> QED  BY <2>3, <2>5, <4>1, NothingFacts, ZenonT(30) DEF Bytes, Archives
    <3>2. b.del = {}
      BY <2>5 DEF Bytes
    <3> QED  BY <3>1, <3>2 DEF Good
  <2> QED  BY <2>1, <2>4, <2>5
<1>7. /\ disk' \in [Keys -> Archives] /\ disk'[k] = b
      /\ \A x \in Keys : x # k => disk'[x] = disk[x]
  <2>1. disk \in [Keys -> Archives] /\ disk' = [disk EXCEPT ![k] = b]
    BY <1>1, <1>4 DEF TypeInv
  <2> QED  BY <1>6, <2>1, ZenonT(30)
<1>8. PICK J \in [Conns -> Jobs] :
        /\ J = SamePath(job, c)
        /\ \A d \in Conns \ {c} :
              \/ J[d] = job[d]
              \/ J[d] = Mixed(job[d]) /\ job[d].pc = "walk" /\ job[d].key = k
  <2>1. job \in [Conns -> Jobs]
    BY DEF TypeInv
  <2>2. SamePath(job, c) \in [Conns -> Jobs]
    BY <2>1, SamePathJobs, ZenonT(30)
  <2>3. job[c].key = k
    BY <1>1, <1>4
  <2>4. \A d \in Conns \ {c} :
          \/ SamePath(job, c)[d] = job[d]
          \/ SamePath(job, c)[d] = Mixed(job[d]) /\ job[d].pc = "walk" /\ job[d].key = job[c].key
    BY <2>1, SamePathJobs, ZenonT(30)
  <2> QED  BY <2>2, <2>3, <2>4, ZenonT(30)
<1>9. job' \in [Conns -> Jobs] /\ job'[c] = q /\ \A d \in Conns \ {c} : job'[d] = J[d]
  BY <1>8, ZenonT(30)
<1>10. made' = made /\ ws' = ws /\ rows' = rows
  OBVIOUS
<1>11. ASSUME NEW d \in Conns \ {c}, Writing(job[d]), job[d].key = k
       PROVE  made[k] = 2
  BY <1>1, <1>2, <1>4, <1>11, ZenonT(30) DEF SnapInv, ApartInv
<1>12. ASSUME NEW d \in Conns \ {c}
       PROVE  Follows(d)
  <2>1. CASE job'[d] = job[d]
    BY <1>10, <2>1 DEF Follows
  <2>2. CASE job'[d] = Mixed(job[d]) /\ job[d].pc = "walk" /\ job[d].key = k
    <3>1. Writing(job[d])
      BY <2>2 DEF Writing
    <3>2. made'[job[d].key] = 2
      BY <1>10, <1>11, <2>2, <3>1
    <3> QED  BY <2>2, <3>2 DEF Follows
  <2> QED  BY <1>8, <1>9, <2>1, <2>2
<1>13. \A d \in Conns : Writing(job[d])' => Writing(job[d]) /\ job'[d].key = job[d].key
  <2>1. ASSUME NEW d \in Conns \ {c}
        PROVE  Writing(job[d])' => Writing(job[d]) /\ job'[d].key = job[d].key
    <3>1. job[d] \in Jobs /\ Follows(d)
      BY <1>12, Jobbed
    <3> QED  BY <3>1, FollowsWriting, ZenonT(30)
  <2>2. Writing(job[c])' => job'[c].key = job[c].key
    BY <1>9 DEF Writing
  <2> QED  BY <1>2, <2>1, <2>2
<1>14. Keeps
  <2>1. ASSUME NEW x \in Keys, Settled(x)
        PROVE  Settled(x)' /\ Stays(x)
    <3>1. Settled(x)'
      BY <1>10, <1>13, <2>1, ZenonT(30) DEF Settled
    <3>2. made[x] = 1 => x # k
      BY <1>1, <1>2, <1>4, <2>1 DEF Settled
    <3>3. Stays(x)
      BY <1>7, <1>10, <2>1, <3>2 DEF Stays, Settled
    <3> QED  BY <3>1, <3>3
  <2> QED  BY <2>1 DEF Keeps
<1>15. ApartInv'
  BY <1>10, <1>13, ZenonT(30) DEF SnapInv, ApartInv
<1>16. \A x \in Keys : Good(disk[x])'
  <2>1. ASSUME NEW x \in Keys
        PROVE  Good(disk[x])'
    <3>1. CASE x = k
      BY <1>6, <1>7, <3>1 DEF Good
    <3>2. CASE x # k
      <4>1. disk'[x] = disk[x] /\ Good(disk[x])
        BY <1>7, <3>2 DEF SnapInv
      <4> QED  BY <4>1 DEF Good
    <3> QED  BY <3>1, <3>2
  <2> QED  BY <2>1
<1>17. ASSUME NEW d \in Conns, Writing(job[d]), d # c
       PROVE  Stays(job[d].key)
  <2>1. job[d].key \in Keys /\ made[job[d].key] # 0
    <3>1. job[d].key \in Keys /\ made[job[d].key] \in 1..2
      BY <1>17, Counted, ZenonT(30)
    <3> QED  BY <3>1, SMTT(30)
  <2>2. made[job[d].key] = 1 => job[d].key # k
    BY <1>11, <1>17
  <2> QED  BY <1>7, <1>10, <2>1, <2>2 DEF Stays
<1>18. \A x : x = job'[c] => JobOK(x)'
  BY <1>9, <1>14
<1>19. \A r \in Range(rows') : r \in Range(rows) \/ RowOK(r)'
  BY <1>10
<1>20. SnapInv'
  BY <1>9, <1>12, <1>14, <1>15, <1>16, <1>17, <1>18, <1>19, SnapParts, ZenonT(30)
<1>21. TypeInv'
  BY <1>7, <1>9, ZenonT(30) DEF TypeInv
<1> QED  BY <1>20, <1>21

\* A capture fails while it walks.
LEMMA ArchiveFailsInv ==
  ASSUME TypeInv, SnapInv, NEW c \in Conns, ArchiveFails(c)
  PROVE  TypeInv' /\ SnapInv'
<1>1. PICK b \in Flushed(job[c]) : disk' = [disk EXCEPT ![job[c].key] = b]
  BY DEF ArchiveFails, snapshotPath
<1>2. /\ job[c].pc = "walk" /\ job' = [SamePath(job, c) EXCEPT ![c] = Idle]
      /\ UNCHANGED <<tip, ws, writes, rows, ops, made>>
  BY DEF ArchiveFails
<1> QED  BY <1>1, <1>2, IdleFacts, IdleOK, Flushes, ZenonT(30)

\* A capture has walked everything and closes its archive.
LEMMA CloseArchiveInv ==
  ASSUME TypeInv, SnapInv, NEW c \in Conns, CloseArchive(c)
  PROVE  TypeInv' /\ SnapInv'
<1>1. PICK j \in Jobs : j = job[c] /\ JobOK(j)
  BY Jobbed, ZenonT(30)
<1>2. PICK b \in Flushed(job[c]) : disk' = [disk EXCEPT ![job[c].key] = b]
  BY DEF CloseArchive, snapshotPath
<1>3. PICK q : q = At(j, "hash")
  OBVIOUS
<1>4. /\ job[c].pc = "walk" /\ j.pc = "walk" /\ j.left = {}
      /\ UNCHANGED <<tip, ws, writes, rows, ops, made>>
  BY <1>1 DEF CloseArchive
<1>5. job' = [SamePath(job, c) EXCEPT ![c] = q]
  <2>1. job' = [SamePath(job, c) EXCEPT ![c] = [SamePath(job, c)[c] EXCEPT !.pc = "hash"]]
    BY DEF CloseArchive
  <2>2. job \in [Conns -> Jobs]
    BY DEF TypeInv
  <2>3. SamePath(job, c)[c] = j
    BY <1>1, <2>2, SamePathJobs, ZenonT(30)
  <2> QED  BY <1>3, <2>1, <2>3 DEF At
<1>6. q \in Jobs
  <2>1. "hash" \in Places
    BY DEF Places
  <2> QED  BY <1>3, <2>1, StepAt, ZenonT(30)
<1>7. /\ q.pc = "hash" /\ q.key = j.key /\ q.base = j.base /\ q.left = j.left /\ q.got = j.got
      /\ q.del = j.del /\ q.hash = j.hash /\ q.seen = j.seen /\ q.scope = j.scope
  BY <1>3, ZenonT(30) DEF At, Jobs
<1>8. q.mixed = j.mixed
  BY <1>3, ZenonT(30) DEF At, Jobs
<1>9. Writing(job[c]) /\ Writing(j) /\ ~ Restoring(q)' /\ Writing(q)' /\ q.pc # "walk" /\ q.pc # "save"
  BY <1>1, <1>4, <1>7 DEF Writing, Restoring
<1>10. CaptureOK(j) /\ Good(j.hash)
  BY <1>1, <1>9 DEF JobOK
<1>11. j.key \in Keys
  BY <1>10 DEF CaptureOK, KeyOK
<1>12. WritesOK(j)
  BY <1>9, <1>10 DEF CaptureOK
<1>13. WritesOK(q)'
  <2>1. made' = made
    BY <1>4
  <2>2. ASSUME made[j.key] = 1
        PROVE  ~ j.mixed /\ disk'[j.key] = Whole(j)
    <3>1. ~ j.mixed
      BY <1>12, <2>2 DEF WritesOK
    <3>2. b = Whole(j)
      BY <1>1, <3>1 DEF Flushed, Whole
    <3>3. disk'[j.key] = b
      BY <1>1, <1>2, <1>11 DEF TypeInv
    <3> QED  BY <3>1, <3>2, <3>3
  <2>3. Whole(q)' = Whole(j)
    BY <1>7 DEF Whole
  <2>4. made[j.key] # 0
    BY <1>12 DEF WritesOK
  <2> QED  BY <1>7, <1>8, <1>9, <2>1, <2>2, <2>3, <2>4, ZenonT(30) DEF WritesOK
<1>14. ASSUME Keeps
       PROVE  JobOK(q)'
  <2>1. KeyOK(q.key, q.base)'
    BY <1>7, <1>10, <1>14, ZenonT(30) DEF CaptureOK, KeyOK, Keeps
  <2>2. ASSUME NEW f \in q.scope
        PROVE  \/ f \in q.left \/ q.got[f] # 0
               \/ f \in q.del /\ q.seen[f] = 0
               \/ f \notin q.del /\ FromBase(q.base, f, q.seen[f])'
    <3>1. f \in j.scope /\ j.base # NoKey
      BY <1>7, <1>10, <2>2 DEF CaptureOK
    <3>2. Stays(j.base)
      BY <1>10, <1>14, <3>1, ZenonT(30) DEF CaptureOK, KeyOK, Keeps
    <3>3. \/ f \in j.left \/ j.got[f] # 0
          \/ f \in j.del /\ j.seen[f] = 0
          \/ f \notin j.del /\ FromBase(j.base, f, j.seen[f])
      BY <1>10, <3>1 DEF CaptureOK
    <3>4. FromBase(j.base, f, j.seen[f]) => FromBase(j.base, f, j.seen[f])'
      BY <3>2, ZenonT(30) DEF FromBase, Stays
    <3> QED  BY <1>7, <3>3, <3>4, ZenonT(30)
  <2>3. /\ q.base = NoKey => q.del = {} /\ q.scope = {}
        /\ q.del \cap q.left = {}
        /\ (q.del \cap Present(q.got) = {})'
        /\ q.left = {}
    BY <1>4, <1>7, <1>10, ZenonT(30) DEF CaptureOK, Present
  <2>4. CaptureOK(q)'
    BY <1>13, <2>1, <2>2, <2>3, ZenonT(30) DEF CaptureOK
  <2>5. Good(q.hash)'
    BY <1>7, <1>10 DEF Good
  <2> QED  BY <1>9, <2>4, <2>5, ZenonT(30) DEF JobOK
<1>15. Writing(q) => q.key = job[c].key
  BY <1>1, <1>7
<1> QED  BY <1>2, <1>4, <1>5, <1>6, <1>14, <1>15, Flushes, ZenonT(30)

\* An archive is created, or truncated if it was there.
LEMMA CreateArchiveInv ==
  ASSUME TypeInv, SnapInv, NEW c \in Conns, CreateArchive(c)
  PROVE  TypeInv' /\ SnapInv'
<1>1. PICK j \in Jobs : j = job[c] /\ JobOK(j)
  BY Jobbed, ZenonT(30)
<1>2. PICK l, busy : /\ l = IF j.key[3] = "filesystem" THEN {f \in Files : ws[f].v # 0} ELSE j.left
                     /\ busy = (\E d \in Conns \ {c} : job[d].pc = "walk" /\ job[d].key = j.key)
  OBVIOUS
<1>3. PICK q : q = ToWalk(j, l, busy)
  OBVIOUS
<1>4. /\ j.pc = "create"
      /\ disk' = [disk EXCEPT ![j.key] = Truncated]
      /\ made' = [made EXCEPT ![j.key] = IF made[j.key] = 0 THEN 1 ELSE 2]
      /\ UNCHANGED <<tip, ws, writes, rows, ops>>
  BY <1>1 DEF CreateArchive, snapshotPath
<1>5. job' = SamePath([job EXCEPT ![c] = q], c)
  <2>1. job' = SamePath([job EXCEPT ![c] = [j EXCEPT !.pc = "walk", !.left = l, !.mixed = busy]], c)
    BY <1>1, <1>2 DEF CreateArchive, snapshotPath
  <2> QED  BY <1>3, <2>1 DEF ToWalk
<1>6. CaptureOK(j) /\ Good(j.hash)
  BY <1>1, <1>4 DEF JobOK
<1>7. PICK k \in Keys : k = j.key
  BY <1>6 DEF CaptureOK, KeyOK
<1>8. l \in SUBSET Files /\ busy \in BOOLEAN
  <2>1. j.left \in SUBSET Files
    BY JobFields, ZenonT(30)
  <2> QED  BY <1>2, <2>1
<1>9. q \in Jobs
  BY <1>3, <1>8, StepWalk, ZenonT(30)
<1>10. /\ q.pc = "walk" /\ q.key = k /\ q.base = j.base /\ q.left = l /\ q.got = j.got
       /\ q.del = j.del /\ q.hash = j.hash /\ q.seen = j.seen /\ q.scope = j.scope
  BY <1>3, <1>7, ZenonT(30) DEF ToWalk, Jobs
<1>11. q.mixed = busy
  BY <1>3, ZenonT(30) DEF ToWalk, Jobs
<1>12. PICK I \in [Conns -> Jobs] : /\ I = [job EXCEPT ![c] = q] /\ I[c] = q
                                    /\ \A d \in Conns \ {c} : I[d] = job[d]
  <2>1. job \in [Conns -> Jobs]
    BY DEF TypeInv
  <2>2. /\ [job EXCEPT ![c] = q] \in [Conns -> Jobs] /\ [job EXCEPT ![c] = q][c] = q
        /\ \A d \in Conns \ {c} : [job EXCEPT ![c] = q][d] = job[d]
    BY <1>9, <2>1, ZenonT(30)
  <2> QED  BY <2>2
<1>13. /\ job' \in [Conns -> Jobs] /\ job'[c] = q
       /\ \A d \in Conns \ {c} :
            \/ job'[d] = job[d]
            \/ job'[d] = Mixed(job[d]) /\ job[d].pc = "walk" /\ job[d].key = k
  <2>1. job' = SamePath(I, c)
    BY <1>5, <1>12
  <2>2. /\ job' \in [Conns -> Jobs] /\ job'[c] = I[c]
        /\ \A d \in Conns \ {c} :
             \/ job'[d] = I[d]
             \/ job'[d] = Mixed(I[d]) /\ I[d].pc = "walk" /\ I[d].key = I[c].key
    BY <2>1, SamePathJobs, ZenonT(30)
  <2> QED  BY <1>10, <1>12, <2>2, ZenonT(30)
<1>14. made \in [Keys -> 0..2] /\ disk \in [Keys -> Archives]
  BY DEF TypeInv
<1>15. made[k] \in 0..2
  BY <1>14
<1>16. PICK n \in 0..2 : n = IF made[k] = 0 THEN 1 ELSE 2
  <2>1. 1 \in 0..2 /\ 2 \in 0..2
    BY SMTT(30)
  <2> QED  BY <2>1
<1>17. /\ made' \in [Keys -> 0..2] /\ made'[k] = n /\ \A x \in Keys : x # k => made'[x] = made[x]
  BY <1>4, <1>7, <1>14, <1>16, ZenonT(30)
<1>18. /\ disk' \in [Keys -> Archives] /\ disk'[k] = Truncated
       /\ \A x \in Keys : x # k => disk'[x] = disk[x]
  BY <1>4, <1>7, <1>14, EmptyArchives, ZenonT(30)
<1>19. /\ made'[k] # 0 /\ (made'[k] = 1 => made[k] = 0) /\ (made[k] # 0 => made'[k] = 2)
  <2>1. 1 # 0 /\ 2 # 0 /\ 2 # 1
    OBVIOUS
  <2> QED  BY <1>16, <1>17, <2>1
<1>20. ASSUME NEW d \in Conns \ {c}, Writing(job[d]), job[d].key = k
       PROVE  made[k] # 0 /\ made'[k] = 2
  <2>1. made[k] \in 1..2
    BY <1>20, Counted, ZenonT(30)
  <2>2. made[k] # 0
    BY <2>1, SMTT(30)
  <2> QED  BY <1>19, <2>2
<1>21. ASSUME NEW d \in Conns \ {c}
       PROVE  Follows(d)
  <2>1. CASE job'[d] = job[d]
    BY <1>4, <2>1 DEF Follows
  <2>2. CASE job'[d] = Mixed(job[d]) /\ job[d].pc = "walk" /\ job[d].key = k
    <3>1. Writing(job[d])
      BY <2>2 DEF Writing
    <3>2. made'[job[d].key] = 2
      BY <1>20, <2>2, <3>1
    <3> QED  BY <2>2, <3>2 DEF Follows
  <2> QED  BY <1>13, <2>1, <2>2
<1>22. ASSUME NEW d \in Conns \ {c}
       PROVE  Writing(job[d])' => Writing(job[d]) /\ job'[d].key = job[d].key
  <2>1. job[d] \in Jobs /\ Follows(d)
    BY <1>21, Jobbed
  <2> QED  BY <2>1, FollowsWriting, ZenonT(30)
<1>23. Keeps
  <2>1. ASSUME NEW x \in Keys, Settled(x)
        PROVE  Settled(x)' /\ Stays(x)
    <3>1. CASE x = k
      <4>1. made'[x] = 2
        BY <1>19, <2>1, <3>1 DEF Settled
      <4> QED  BY <4>1 DEF Settled, Stays
    <3>2. CASE x # k
      <4>1. made'[x] = made[x] /\ disk'[x] = disk[x]
        BY <1>17, <1>18, <3>2
      <4>2. Stays(x)
        BY <2>1, <4>1 DEF Stays, Settled
      <4>3. ASSUME made'[x] = 1, NEW d \in Conns, Writing(job[d])', job'[d].key = x
            PROVE  FALSE
        <5>1. d # c
          BY <1>10, <1>13, <3>2, <4>3
        <5>2. Writing(job[d]) /\ job[d].key = x
          BY <1>22, <4>3, <5>1
        <5> QED  BY <2>1, <4>1, <4>3, <5>2 DEF Settled
      <4>4. Settled(x)'
        BY <2>1, <4>1, <4>3 DEF Settled
      <4> QED  BY <4>2, <4>4
    <3> QED  BY <3>1, <3>2
  <2> QED  BY <2>1 DEF Keeps
<1>24. ApartInv'
  <2>1. SUFFICES ASSUME NEW d \in Conns, NEW e \in Conns, d # e, Writing(job[d])', Writing(job[e])',
                        job'[d].key = job'[e].key
                 PROVE  made'[job'[d].key] = 2
    BY DEF ApartInv
  <2>2. CASE d = c
    <3>1. Writing(job[e]) /\ job[e].key = k
      BY <1>10, <1>13, <1>22, <2>1, <2>2
    <3> QED  BY <1>10, <1>13, <1>20, <2>1, <2>2, <3>1
  <2>3. CASE e = c
    <3>1. Writing(job[d]) /\ job[d].key = k
      BY <1>10, <1>13, <1>22, <2>1, <2>3
    <3> QED  BY <1>10, <1>13, <1>20, <2>1, <2>3, <3>1
  <2>4. CASE d # c /\ e # c
    <3>1. Writing(job[d]) /\ Writing(job[e]) /\ job'[d].key = job[d].key /\ job[d].key = job[e].key
      BY <1>22, <2>1, <2>4
    <3>2. made[job[d].key] = 2
      BY <2>1, <3>1, ZenonT(30) DEF SnapInv, ApartInv
    <3>3. job[d].key \in Keys
      BY <3>1, Counted, ZenonT(30)
    <3>4. made'[job[d].key] = 2
      BY <1>17, <1>20, <2>4, <3>1, <3>2, <3>3
    <3> QED  BY <3>1, <3>4
  <2> QED  BY <2>2, <2>3, <2>4
<1>25. \A x \in Keys : Good(disk[x])'
  <2>1. ASSUME NEW x \in Keys
        PROVE  Good(disk[x])'
    <3>1. CASE x = k
      BY <1>18, <3>1, EmptyArchives DEF Good
    <3>2. CASE x # k
      <4>1. disk'[x] = disk[x] /\ Good(disk[x])
        BY <1>18, <3>2 DEF SnapInv
      <4> QED  BY <4>1 DEF Good
    <3> QED  BY <3>1, <3>2
  <2> QED  BY <2>1
<1>26. ASSUME NEW d \in Conns, Writing(job[d]), d # c
       PROVE  Stays(job[d].key)
  <2>1. job[d].key \in Keys /\ made[job[d].key] # 0
    <3>1. job[d].key \in Keys /\ made[job[d].key] \in 1..2
      BY <1>26, Counted, ZenonT(30)
    <3> QED  BY <3>1, SMTT(30)
  <2>2. CASE job[d].key = k
    <3>1. made'[job[d].key] = 2
      BY <1>20, <1>26, <2>2
    <3> QED  BY <3>1 DEF Stays
  <2>3. CASE job[d].key # k
    BY <1>17, <1>18, <2>1, <2>3 DEF Stays
  <2> QED  BY <2>2, <2>3
<1>27. JobOK(q)'
  <2>1. ~ Writing(j)
    BY <1>4 DEF Writing
  <2>2. CaptureOK(j)'
    BY <1>6, <1>23, <2>1, CaptureKept, ZenonT(30)
  <2>3. WritesOK(q)'
    <3>1. ASSUME made'[k] = 1
          PROVE  ~ busy
      <4>1. \A d \in Conns \ {c} : ~ (job[d].pc = "walk" /\ job[d].key = k)
        BY <1>19, <1>20, <3>1 DEF Writing
      <4> QED  BY <1>2, <1>7, <4>1
    <3>2. q.pc # "save"
      BY <1>10
    <3> QED  BY <1>10, <1>11, <1>19, <3>1, <3>2, ZenonT(30) DEF WritesOK
  <2>4. KeyOK(q.key, q.base)' /\ KeyOK(j.key, j.base)'
    BY <1>7, <1>10, <2>2 DEF CaptureOK
  <2>5. /\ j.base = NoKey => j.del = {} /\ j.scope = {}
        /\ j.del \cap j.left = {}
        /\ (j.del \cap Present(j.got) = {})'
    BY <2>2 DEF CaptureOK
  <2>6. j.base = NoKey \/ l = j.left
    <3>1. j.base # NoKey => k[3] = "filesystem-diff"
      BY <1>7, <2>4 DEF KeyOK
    <3>2. "filesystem" # "filesystem-diff"
      OBVIOUS
    <3> QED  BY <1>2, <1>7, <3>1, <3>2
  <2>7. q.del \cap q.left = {}
    BY <1>10, <2>5, <2>6
  <2>8. ASSUME NEW f \in q.scope
        PROVE  \/ f \in q.left \/ q.got[f] # 0
               \/ f \in q.del /\ q.seen[f] = 0
               \/ f \notin q.del /\ FromBase(q.base, f, q.seen[f])'
    <3>1. f \in j.scope /\ l = j.left
      BY <1>10, <2>5, <2>6, <2>8
    <3>2. \/ f \in j.left \/ j.got[f] # 0
          \/ f \in j.del /\ j.seen[f] = 0
          \/ f \notin j.del /\ FromBase(j.base, f, j.seen[f])'
      BY <2>2, <3>1 DEF CaptureOK
    <3>3. FromBase(j.base, f, j.seen[f])' => FromBase(q.base, f, q.seen[f])'
      BY <1>10 DEF FromBase
    <3> QED  BY <1>10, <3>1, <3>2, <3>3, ZenonT(30)
  <2>9. (q.del \cap Present(q.got) = {})' /\ (q.base = NoKey => q.del = {} /\ q.scope = {})
    BY <1>10, <2>5 DEF Present
  <2>10. q.pc \notin {"hash", "save"}
    BY <1>10
  <2>11. CaptureOK(q)'
    BY <2>3, <2>4, <2>7, <2>8, <2>9, <2>10, ZenonT(30) DEF CaptureOK
  <2>12. Good(q.hash)' /\ ~ Restoring(q)'
    BY <1>6, <1>10 DEF Good, Restoring
  <2> QED  BY <2>11, <2>12, ZenonT(30) DEF JobOK
<1>28. \A x : x = job'[c] => JobOK(x)'
  BY <1>13, <1>27
<1>29. \A r \in Range(rows') : r \in Range(rows) \/ RowOK(r)'
  BY <1>4
<1>30. SnapInv'
  BY <1>13, <1>21, <1>23, <1>24, <1>25, <1>26, <1>28, <1>29, SnapParts, ZenonT(30)
<1>31. TypeInv'
  BY <1>4, <1>13, <1>17, <1>18, ZenonT(30) DEF TypeInv
<1> QED  BY <1>30, <1>31

\* A capture or a restore goes on.
LEMMA SnapStepInv ==
  ASSUME TypeInv, SnapInv, NEW c \in Conns, SnapStep(c)
  PROVE  TypeInv' /\ SnapInv'
BY CreateArchiveInv, ArchiveFileInv, ArchiveFailsInv, CloseArchiveInv, HashArchiveInv, SaveInv,
   OpenBaseInv, OpenArchiveInv, ExtractFileInv, BaseDoneInv, RemoveDeletedInv, EndsInv, ZenonT(30)
   DEF SnapStep

-----------------------------------------------------------------------------
(* Compensations.                                                          *)

\* The fields of a request.
LEMMA CallFields ==
  ASSUME NEW u \in Calls
  PROVE  /\ u.pc \in {"idle", "run", "mark", "replied"} /\ u.todo \in Seq(Nat) /\ u.failed \in BOOLEAN
         /\ u.asked \in SUBSET Nat /\ u.log \in Seq(Nat)
BY ZenonT(30) DEF Calls

\* Nothing to do.
LEMMA RestingFacts ==
  /\ Resting \in Calls /\ Resting.pc = "idle" /\ Resting.todo = <<>> /\ Resting.failed = FALSE
  /\ Resting.asked = {} /\ Resting.log = <<>>
  /\ CallOK(Resting) /\ CallOK(Resting)'
<1>1. /\ Resting.pc = "idle" /\ Resting.todo = <<>> /\ Resting.failed = FALSE
      /\ Resting.asked = {} /\ Resting.log = <<>>
  BY ZenonT(30) DEF Resting
<1>2. <<>> \in Seq(Nat) /\ {} \in SUBSET Nat /\ DOMAIN <<>> = {} /\ Range(<<>>) = {}
  <2>1. <<>> \in Seq(Nat) /\ DOMAIN <<>> = {}
    BY SMTT(30)
  <2> QED  BY <2>1, ZenonT(30) DEF Range
<1>3. Resting \in Calls
  BY <1>2, ZenonT(30) DEF Resting, Calls
<1>4. Resting.pc # "mark" /\ Resting.pc # "replied"
  BY <1>1
<1>5. ListsOK(Resting) /\ ListsOK(Resting)'
  BY <1>1, <1>2, <1>4, ZenonT(30) DEF ListsOK, Known, Ordered, Before
<1> QED  BY <1>1, <1>3, <1>4, <1>5, ZenonT(30) DEF CallOK

\* A sequence without its head.
LEMMA TailFacts ==
  ASSUME NEW p \in Seq(Nat), p # <<>>
  PROVE  /\ 1 \in DOMAIN p /\ Head(p) = p[1] /\ Head(p) \in Nat /\ Tail(p) \in Seq(Nat)
         /\ \A n \in DOMAIN Tail(p) : n \in Nat /\ n + 1 \in DOMAIN p /\ Tail(p)[n] = p[n + 1]
         /\ Range(p) = {Head(p)} \cup Range(Tail(p))
<1>1. /\ Len(p) \in Nat /\ Len(p) # 0 /\ DOMAIN p = 1..Len(p) /\ Head(p) = p[1]
      /\ Tail(p) \in Seq(Nat) /\ Len(Tail(p)) = Len(p) - 1 /\ DOMAIN Tail(p) = 1..Len(Tail(p))
  BY SMTT(30)
<1>2. \A n \in 1..Len(p) - 1 : Tail(p)[n] = p[n + 1]
  BY SMTT(30)
<1>3. 1 \in DOMAIN p /\ p[1] \in Nat
  BY <1>1, SMTT(30)
<1>4. ASSUME NEW n \in DOMAIN Tail(p)
      PROVE  n \in Nat /\ n + 1 \in DOMAIN p /\ Tail(p)[n] = p[n + 1]
  <2>1. n \in 1..Len(p) - 1
    BY <1>1, <1>4
  <2>2. n \in Nat /\ n + 1 \in 1..Len(p)
    BY <1>1, <2>1, SMTT(30)
  <2> QED  BY <1>1, <1>2, <2>1, <2>2
<1>5. ASSUME NEW m \in DOMAIN p, m # 1
      PROVE  \E n \in DOMAIN Tail(p) : p[m] = Tail(p)[n]
  <2>1. m - 1 \in 1..Len(p) - 1 /\ (m - 1) + 1 = m
    BY <1>1, <1>5, SMTT(30)
  <2>2. m - 1 \in DOMAIN Tail(p) /\ Tail(p)[m - 1] = p[m]
    BY <1>1, <1>2, <2>1
  <2> QED  BY <2>2
<1>6. Range(p) = {Head(p)} \cup Range(Tail(p))
  <2>1. ASSUME NEW x \in Range(p)
        PROVE  x = Head(p) \/ x \in Range(Tail(p))
    <3>1. PICK m \in DOMAIN p : x = p[m]
      BY <2>1 DEF Range
    <3>2. CASE m = 1
      BY <1>1, <3>1, <3>2
    <3>3. CASE m # 1
      BY <1>5, <3>1, <3>3 DEF Range
    <3> QED  BY <3>2, <3>3
  <2>2. Head(p) \in Range(p)
    BY <1>1, <1>3 DEF Range
  <2>3. ASSUME NEW x \in Range(Tail(p))
        PROVE  x \in Range(p)
    <3>1. PICK n \in DOMAIN Tail(p) : x = Tail(p)[n]
      BY <2>3 DEF Range
    <3>2. n + 1 \in DOMAIN p /\ x = p[n + 1]
      BY <1>4, <3>1
    <3> QED  BY <3>2 DEF Range
  <2> QED  BY <2>1, <2>2, <2>3
<1> QED  BY <1>1, <1>3, <1>4, <1>6

\* A sequence and one more.
LEMMA AppendFacts ==
  ASSUME NEW p \in Seq(Nat), NEW h \in Nat
  PROVE  /\ Append(p, h) \in Seq(Nat) /\ Range(Append(p, h)) = Range(p) \cup {h}
         /\ \A n \in DOMAIN Append(p, h) : \/ n \in DOMAIN p /\ Append(p, h)[n] = p[n]
                                           \/ Append(p, h)[n] = h /\ \A m \in DOMAIN p : m < n
         /\ DOMAIN p \subseteq Nat /\ DOMAIN Append(p, h) \subseteq Nat
<1>1. /\ Append(p, h) \in Seq(Nat) /\ Len(p) \in Nat /\ DOMAIN p = 1..Len(p)
      /\ DOMAIN Append(p, h) = 1..(Len(p) + 1)
      /\ \A n \in 1..Len(p) : Append(p, h)[n] = p[n]
      /\ Append(p, h)[Len(p) + 1] = h
  BY SMTT(30)
<1>2. ASSUME NEW n \in DOMAIN Append(p, h)
      PROVE  \/ n \in DOMAIN p /\ Append(p, h)[n] = p[n]
             \/ Append(p, h)[n] = h /\ \A m \in DOMAIN p : m < n
  <2>1. n \in 1..Len(p) \/ n = Len(p) + 1
    BY <1>1, <1>2, SMTT(30)
  <2>2. \A m \in 1..Len(p) : m < Len(p) + 1
    BY <1>1, SMTT(30)
  <2> QED  BY <1>1, <2>1, <2>2
<1>3. Len(p) + 1 \in DOMAIN Append(p, h) /\ \A n \in DOMAIN p : n \in DOMAIN Append(p, h)
  BY <1>1, SMTT(30)
<1>4. Range(Append(p, h)) = Range(p) \cup {h}
  BY <1>1, <1>2, <1>3, ZenonT(30) DEF Range
<1>5. DOMAIN p \subseteq Nat /\ DOMAIN Append(p, h) \subseteq Nat
  BY <1>1, SMTT(30)
<1> QED  BY <1>1, <1>2, <1>4, <1>5

\* An order of the compensations at or above an index lists all of them.
LEMMA OrdersFacts ==
  ASSUME NEW i, comps \in Seq(Comps), NEW s \in Orders(i)
  PROVE  s \in Seq(Nat) /\ Range(s) = AtOrAbove(i)
<1>1. PICK n \in 0..Len(comps) : s \in Bijection(1..n, AtOrAbove(i))
  BY ZenonT(30) DEF Orders
<1>2. s \in [1..n -> AtOrAbove(i)] /\ \A t \in AtOrAbove(i) : \E x \in 1..n : s[x] = t
  BY <1>1, ZenonT(30) DEF Bijection, Injection, Surjection
<1>3. Range(s) = AtOrAbove(i)
  BY <1>2, ZenonT(30) DEF Range
<1>4. AtOrAbove(i) \subseteq Nat /\ n \in Nat
  BY SMTT(30) DEF AtOrAbove
<1>5. s \in [1..n -> Nat]
  BY <1>2, <1>4, ZenonT(30)
<1> QED  BY <1>3, <1>4, <1>5, SMTT(30)

\* Compensations keep their ids and indexes.
CompsKept == \A n \in DOMAIN comps : n \in DOMAIN comps' /\ comps'[n].idx = comps[n].idx

\* What a request has run and has to run stays in order.
LEMMA ListsKept ==
  ASSUME CompsKept, NEW u, ListsOK(u)
  PROVE  ListsOK(u)'
<1>1. Known(u.todo) /\ Known(u.log) /\ Ordered(u.todo) /\ Ordered(u.log) /\ Before(u.log, u.todo)
  BY DEF ListsOK
<1>2. Known(u.todo)' /\ Known(u.log)'
  BY <1>1, ZenonT(30) DEF Known, CompsKept
<1>3. Ordered(u.todo)'
  BY <1>1, ZenonT(30) DEF Known, Ordered, CompsKept
<1>4. Ordered(u.log)'
  BY <1>1, ZenonT(30) DEF Known, Ordered, CompsKept
<1>5. Before(u.log, u.todo)'
  BY <1>1, ZenonT(30) DEF Known, Before, CompsKept
<1>6. /\ ~ u.failed => Range(u.log) \cup Range(u.todo) = u.asked
      /\ u.pc = "mark" => u.todo # <<>> /\ Head(u.todo) \in Range(u.log)
      /\ u.pc = "replied" => u.todo = <<>>
  BY ZenonT(30) DEF ListsOK
<1> QED  BY <1>2, <1>3, <1>4, <1>5, <1>6, ZenonT(30) DEF ListsOK

\* A request stays right.
LEMMA CallKept ==
  ASSUME CompsKept, worked \subseteq worked', NEW u, CallOK(u)
  PROVE  CallOK(u)'
BY ListsKept, ZenonT(30) DEF CallOK

\* A list loses its head.
LEMMA TailOK ==
  ASSUME CompInv, NEW p \in Seq(Nat), p # <<>>, NEW q, Known(p), Ordered(p), Before(q, p)
  PROVE  Known(Tail(p)) /\ Ordered(Tail(p)) /\ Before(q, Tail(p))
<1>1. \A n \in DOMAIN Tail(p) : n \in Nat /\ n + 1 \in DOMAIN p /\ Tail(p)[n] = p[n + 1]
  BY TailFacts
<1>2. Known(Tail(p))
  BY <1>1 DEF Known
<1>3. Before(q, Tail(p))
  BY <1>1 DEF Before
<1>4. ASSUME NEW m \in DOMAIN Tail(p), NEW n \in DOMAIN Tail(p), m < n
      PROVE  comps[Tail(p)[m]].idx >= comps[Tail(p)[n]].idx
  <2>1. m + 1 < n + 1
    BY <1>1, <1>4, SMTT(30)
  <2>2. comps[p[m + 1]].idx >= comps[p[n + 1]].idx
    BY <1>1, <2>1 DEF Ordered
  <2> QED  BY <1>1, <2>2
<1>5. Ordered(Tail(p))
  BY <1>4 DEF Ordered
<1> QED  BY <1>2, <1>3, <1>5

\* A list grows by the head of the list that follows it.
LEMMA LogOK ==
  ASSUME CompInv, NEW p \in Seq(Nat), NEW q \in Seq(Nat), q # <<>>, NEW h \in Nat, h = Head(q),
         Known(p), Known(q), Ordered(p), Ordered(q), Before(p, q)
  PROVE  Known(Append(p, h)) /\ Ordered(Append(p, h)) /\ Before(Append(p, h), q)
<1>1. 1 \in DOMAIN q /\ h = q[1]
  BY TailFacts
<1>2. h \in DOMAIN comps
  BY <1>1 DEF Known
<1>3. PICK l \in Seq(Nat) : l = Append(p, h)
  BY AppendFacts
<1>4. /\ \A n \in DOMAIN l : \/ n \in DOMAIN p /\ l[n] = p[n]
                             \/ l[n] = h /\ \A m \in DOMAIN p : m < n
      /\ DOMAIN p \subseteq Nat /\ DOMAIN l \subseteq Nat
  BY <1>3, AppendFacts
<1>5. Known(l)
  BY <1>2, <1>4, ZenonT(30) DEF Known
<1>6. \A n \in DOMAIN comps : comps[n].idx \in Nat
  <2>1. \A n \in DOMAIN comps : comps[n] \in Comps
    BY SMTT(30) DEF CompInv
  <2> QED  BY <2>1 DEF Comps
<1>7. ASSUME NEW n \in DOMAIN q
      PROVE  comps[h].idx >= comps[q[n]].idx
  <2>1. DOMAIN q = 1..Len(q) /\ Len(q) \in Nat
    BY SMTT(30)
  <2>2. n \in Nat /\ (n = 1 \/ 1 < n)
    BY <1>7, <2>1, SMTT(30)
  <2>3. CASE n = 1
    BY <1>1, <1>2, <1>6, <2>3, SMTT(30)
  <2>4. CASE 1 < n
    BY <1>1, <1>7, <2>4 DEF Ordered
  <2> QED  BY <2>2, <2>3, <2>4
<1>8. \A m \in DOMAIN p : comps[p[m]].idx >= comps[h].idx
  BY <1>1 DEF Before
<1>9. Before(l, q)
  <2>1. ASSUME NEW m \in DOMAIN l, NEW n \in DOMAIN q
        PROVE  comps[l[m]].idx >= comps[q[n]].idx
    <3>1. CASE m \in DOMAIN p /\ l[m] = p[m]
      BY <3>1 DEF Before
    <3>2. CASE l[m] = h
      BY <1>7, <3>2
    <3> QED  BY <1>4, <3>1, <3>2
  <2> QED  BY <2>1 DEF Before
<1>10. Ordered(l)
  <2>1. ASSUME NEW m \in DOMAIN l, NEW n \in DOMAIN l, m < n
        PROVE  comps[l[m]].idx >= comps[l[n]].idx
    <3>1. CASE m \in DOMAIN p /\ l[m] = p[m] /\ n \in DOMAIN p /\ l[n] = p[n]
      BY <2>1, <3>1 DEF Ordered
    <3>2. CASE m \in DOMAIN p /\ l[m] = p[m] /\ l[n] = h
      BY <1>8, <3>2
    <3>3. CASE l[m] = h /\ l[n] = h
      BY <1>2, <1>6, <3>3, SMTT(30)
    <3>4. CASE (\A x \in DOMAIN p : x < m) /\ n \in DOMAIN p
      <4>1. n < m /\ m \in Nat /\ n \in Nat
        BY <1>4, <3>4
      <4> QED  BY <2>1, <4>1, SMTT(30)
    <3> QED  BY <1>4, <3>1, <3>2, <3>3, <3>4, ZenonT(30)
  <2> QED  BY <2>1 DEF Ordered
<1> QED  BY <1>3, <1>5, <1>9, <1>10

-----------------------------------------------------------------------------
(* The steps of a request.                                                 *)

\* The invariant's instances.
LEMMA Called ==
  ASSUME CompInv, NEW c \in Conns
  PROVE  undo[c] \in Calls /\ CallOK(undo[c]) /\ undo \in [Conns -> Calls]
<1>1. undo \in [Conns -> Calls]
  BY DEF CompInv
<1>2. undo[c] \in Range(undo) /\ undo[c] \in Calls
  BY <1>1, ZenonT(30) DEF Range
<1> QED  BY <1>1, <1>2 DEF CompInv

\* One request goes on.
LEMMA CallMoves ==
  ASSUME CompInv, NEW c \in Conns, NEW w \in Calls, undo' = [undo EXCEPT ![c] = w],
         CompsKept, worked \subseteq worked', comps' \in Seq(Comps),
         \A n \in DOMAIN comps' : comps'[n].idx \in 1..tip',
         ExecutedWorked', CallOK(w)',
         \A d \in Conns : job[d] = Idle => job'[d] = Idle,
         w = Resting \/ job[c] = Idle
  PROVE  CompInv'
<1>1. undo \in [Conns -> Calls]
  BY DEF CompInv
<1>2. undo' \in [Conns -> Calls] /\ undo'[c] = w /\ \A d \in Conns \ {c} : undo'[d] = undo[d]
  BY <1>1, ZenonT(30)
<1>3. ASSUME NEW u \in Range(undo')
      PROVE  CallOK(u)'
  <2>1. PICK d \in Conns : u = undo'[d]
    BY <1>2, <1>3, ZenonT(30) DEF Range
  <2>2. CASE d = c
    BY <1>2, <2>1, <2>2
  <2>3. CASE d # c
    <3>1. u = undo[d]
      BY <1>2, <2>1, <2>3
    <3>2. CallOK(u)
      BY <3>1, Called
    <3> QED  BY <3>2, CallKept
  <2> QED  BY <2>2, <2>3
<1>4. \A d \in Conns : job'[d] = Idle \/ undo'[d] = Resting
  <2>1. \A d \in Conns : job[d] = Idle \/ undo[d] = Resting
    BY DEF CompInv
  <2> QED  BY <1>2, <2>1, ZenonT(30)
<1> QED  BY <1>2, <1>3, <1>4, ZenonT(30) DEF CompInv

\* Nothing happens to the compensations.
LEMMA CompRests ==
  ASSUME TypeInv, CompInv, UNCHANGED compVars, tip' \in Nat, tip <= tip',
         \A d \in Conns : job[d] = Idle => job'[d] = Idle \/ undo[d] = Resting
  PROVE  CompInv'
<1>1. comps' = comps /\ undo' = undo /\ worked' = worked
  BY DEF compVars
<1>2. CompsKept
  BY <1>1 DEF CompsKept
<1>3. worked \subseteq worked'
  BY <1>1
<1>4. ASSUME NEW u \in Range(undo')
      PROVE  CallOK(u)'
  <2>1. CallOK(u)
    BY <1>1, <1>4 DEF CompInv
  <2> QED  BY <1>2, <1>3, <2>1, CallKept
<1>5. ASSUME NEW n \in DOMAIN comps'
      PROVE  comps'[n].idx \in 1..tip'
  <2>1. comps'[n].idx \in 1..tip /\ tip \in 0..MaxTip
    BY <1>1, <1>5 DEF CompInv, TypeInv
  <2> QED  BY <2>1, SMTT(30)
<1>6. ExecutedWorked'
  BY <1>1 DEF CompInv, ExecutedWorked
<1>7. \A d \in Conns : job'[d] = Idle \/ undo'[d] = Resting
  BY <1>1, ZenonT(30) DEF CompInv
<1>8. comps' \in Seq(Comps) /\ undo' \in [Conns -> Calls]
  BY <1>1 DEF CompInv
<1> QED  BY <1>4, <1>5, <1>6, <1>7, <1>8, ZenonT(30) DEF CompInv

\* A snapshot step of connection c leaves idle connections idle.
LEMMA StaysIdle ==
  ASSUME TypeInv, NEW c \in Conns, SnapStep(c), NEW d \in Conns, job[d] = Idle
  PROVE  job'[d] = Idle
<1>1. job \in [Conns -> Jobs] /\ Idle.pc = "idle"
  BY IdleFacts DEF TypeInv
<1>2. ~ Restoring(job[d]) /\ job[d].pc # "walk"
  BY <1>1 DEF Restoring
<1>3. job[c].pc # "idle"
  BY ZenonT(30) DEF SnapStep, CreateArchive, ArchiveFile, ArchiveFails, CloseArchive, HashArchive, save,
     saveFails, OpenBase, OpenArchive, ExtractFile, ExtractFails, BaseDone, RemoveDeleted, Restored
<1>4. d \in Conns \ {c}
  BY <1>1, <1>3
<1>5. Disturbed(job, c) \in [Conns -> Jobs] /\ Disturbed(job, c)[d] = job[d]
  BY <1>2, <1>4, DisturbedJobs, ZenonT(30)
<1>6. SamePath(job, c) \in [Conns -> Jobs] /\ SamePath(job, c)[d] = job[d]
  BY <1>1, <1>2, <1>4, SamePathJobs, ZenonT(30)
<1>7. ASSUME NEW J \in [Conns -> Jobs], J[d] = job[d], NEW q, job' = [J EXCEPT ![c] = q]
      PROVE  job'[d] = Idle
  BY <1>4, <1>7
<1>8. CASE CreateArchive(c)
  <2>1. PICK q : job' = SamePath([job EXCEPT ![c] = q], c)
    BY <1>8, ZenonT(30) DEF CreateArchive
  <2>2. \A J, x : x \in Conns => SamePath(J, x)[d] = (IF /\ d # x /\ J[d].pc = "walk"
                                                         /\ snapshotPath(J[d].key) = snapshotPath(J[x].key)
                                                      THEN [J[d] EXCEPT !.mixed = TRUE] ELSE J[d])
    BY ZenonT(30) DEF SamePath
  <2>3. PICK J : J = [job EXCEPT ![c] = q]
    OBVIOUS
  <2>4. J[d] = job[d]
    BY <1>1, <1>4, <2>3
  <2> QED  BY <1>2, <2>1, <2>2, <2>3, <2>4, ZenonT(30)
<1>9. CASE ArchiveFile(c) \/ HashArchive(c) \/ save(c) \/ saveFails(c) \/ OpenBase(c) \/ OpenArchive(c)
           \/ ExtractFails(c) \/ BaseDone(c) \/ Restored(c)
  <2>1. \E q : job' = [job EXCEPT ![c] = q]
    BY <1>9, ZenonT(30) DEF ArchiveFile, HashArchive, save, saveFails, OpenBase, OpenArchive, ExtractFails,
       BaseDone, Restored
  <2> QED  BY <1>1, <1>7, <2>1, ZenonT(30)
<1>10. CASE ArchiveFails(c) \/ CloseArchive(c)
  <2>1. \E q : job' = [SamePath(job, c) EXCEPT ![c] = q]
    BY <1>10, ZenonT(30) DEF ArchiveFails, CloseArchive
  <2> QED  BY <1>6, <1>7, <2>1, ZenonT(30)
<1>11. CASE ExtractFile(c)
  <2>1. \E q : job' = [Disturbed(job, c) EXCEPT ![c] = q]
    BY <1>11, ZenonT(30) DEF ExtractFile
  <2> QED  BY <1>5, <1>7, <2>1, ZenonT(30)
<1>12. CASE RemoveDeleted(c)
  <2>1. \/ \E q : job' = [Disturbed(job, c) EXCEPT ![c] = q]
        \/ \E q : job' = [job EXCEPT ![c] = q]
    BY <1>12, ZenonT(30) DEF RemoveDeleted
  <2> QED  BY <1>1, <1>5, <1>7, <2>1, ZenonT(30)
<1> QED  BY <1>8, <1>9, <1>10, <1>11, <1>12, ZenonT(30) DEF SnapStep

\* The chain's tip where it stays.
LEMMA TipRests ==
  ASSUME TypeInv, tip' = tip
  PROVE  tip' \in Nat /\ tip <= tip'
BY SnapshotsAssumption, SMTT(30) DEF TypeInv

\* A command's effect on the workspace and the restores.
LEMMA EffectInv ==
  ASSUME TypeInv, SnapInv, CommandEffect, UNCHANGED <<tip, disk, rows, ops, made>>
  PROVE  TypeInv' /\ SnapInv' /\ \A d \in Conns : job[d] = Idle => job'[d] = Idle
<1>1. CASE UNCHANGED <<ws, writes, job>>
  <2>1. TypeInv'
    BY <1>1, ZenonT(30) DEF TypeInv
  <2>2. SnapInv'
    BY <1>1, JobsRest, ZenonT(30)
  <2> QED  BY <1>1, <2>1, <2>2
<1>2. CASE /\ \E f \in Files : FileChanges(f)
           /\ job' = Disturbed(job, 0)
  <2>1. TypeInv' /\ SnapInv'
    BY <1>2, FileChangesInv, ZenonT(30)
  <2>2. 0 \notin Conns /\ Idle.pc = "idle"
    BY SnapshotsAssumption, IdleFacts
  <2>3. \A d \in Conns : job[d] = Idle => ~ Restoring(job[d])
    BY <2>2 DEF Restoring
  <2>4. \A d \in Conns : job[d] = Idle => job'[d] = job[d]
    BY <1>2, <2>2, <2>3, DisturbedJobs, ZenonT(30)
  <2> QED  BY <2>1, <2>4
<1> QED  BY <1>1, <1>2, ZenonT(30) DEF CommandEffect

\* Nothing happens to the snapshots.
LEMMA SnapRests ==
  ASSUME TypeInv, SnapInv, UNCHANGED snapVars
  PROVE  TypeInv' /\ SnapInv' /\ tip' = tip /\ job' = job
<1>1. UNCHANGED <<tip, ws, writes, disk, rows, job, ops, made>>
  BY DEF snapVars
<1>2. TypeInv'
  BY <1>1, ZenonT(30) DEF TypeInv
<1>3. SnapInv'
  BY <1>1, JobsRest, ZenonT(30)
<1> QED  BY <1>1, <1>2, <1>3

\* The table of compensations.
LEMMA CompsFacts ==
  ASSUME CompInv
  PROVE  /\ comps \in Seq(Comps) /\ Len(comps) \in Nat /\ DOMAIN comps = 1..Len(comps)
         /\ \A n \in DOMAIN comps : n \in Nat /\ comps[n] \in Comps /\ comps[n].idx \in Nat
<1>1. comps \in Seq(Comps)
  BY DEF CompInv
<1>2. Len(comps) \in Nat /\ DOMAIN comps = 1..Len(comps) /\ \A n \in DOMAIN comps : n \in Nat /\ comps[n] \in Comps
  BY <1>1, SMTT(30)
<1>3. \A n \in DOMAIN comps : comps[n].idx \in Nat
  BY <1>2 DEF Comps
<1> QED  BY <1>1, <1>2, <1>3

\* A compensation is registered.
LEMMA RegisterCompensateInv ==
  ASSUME UndoInv, NEW c \in Conns, RegisterCompensate(c)
  PROVE  UndoInv'
<1>1. TypeInv /\ SnapInv /\ CompInv
  BY DEF UndoInv
<1>2. PICK i \in 1..tip : comps' = Append(comps, [idx |-> i, executed |-> FALSE])
  BY DEF RegisterCompensate
<1>3. UNCHANGED snapVars /\ undo' = undo /\ worked' = worked /\ undo[c] = Resting /\ job[c] = Idle
  BY DEF RegisterCompensate, Free
<1>4. TypeInv' /\ SnapInv' /\ tip' = tip /\ job' = job
  BY <1>1, <1>3, SnapRests
<1>5. i \in Nat
  BY <1>1, SMTT(30) DEF TypeInv
<1>6. PICK x \in Comps : x = [idx |-> i, executed |-> FALSE] /\ x.idx = i /\ x.executed = FALSE
  <2>1. [idx |-> i, executed |-> FALSE] \in Comps
    BY <1>5, ZenonT(30) DEF Comps
  <2>2. [idx |-> i, executed |-> FALSE].idx = i /\ [idx |-> i, executed |-> FALSE].executed = FALSE
    BY ZenonT(30)
  <2> QED  BY <2>1, <2>2, ZenonT(30)
<1>7. comps \in Seq(Comps) /\ Len(comps) \in Nat /\ DOMAIN comps = 1..Len(comps)
  BY <1>1, CompsFacts
<1>8. comps' = Append(comps, x)
  BY <1>2, <1>6
<1>9. /\ comps' \in Seq(Comps) /\ DOMAIN comps' = 1..(Len(comps) + 1)
      /\ \A n \in 1..Len(comps) : comps'[n] = comps[n]
      /\ comps'[Len(comps) + 1] = x
  BY <1>7, <1>8, SMTT(30)
<1>10. /\ \A n \in DOMAIN comps : n \in DOMAIN comps' /\ comps'[n] = comps[n]
       /\ \A n \in DOMAIN comps' : n \in DOMAIN comps \/ comps'[n] = x
  <2>1. \A n \in 1..Len(comps) : n \in 1..(Len(comps) + 1)
    BY <1>7, SMTT(30)
  <2>2. \A n \in 1..(Len(comps) + 1) : n \in 1..Len(comps) \/ n = Len(comps) + 1
    BY <1>7, SMTT(30)
  <2> QED  BY <1>7, <1>9, <2>1, <2>2, ZenonT(30)
<1>11. CompsKept /\ worked \subseteq worked'
  BY <1>3, <1>10 DEF CompsKept
<1>12. \A n \in DOMAIN comps' : comps'[n].idx \in 1..tip'
  <2>1. \A n \in DOMAIN comps : comps[n].idx \in 1..tip
    BY <1>1 DEF CompInv
  <2> QED  BY <1>4, <1>6, <1>10, <2>1, ZenonT(30)
<1>13. ExecutedWorked'
  <2>1. \A n \in DOMAIN comps : comps[n].executed => n \in worked
    BY <1>1 DEF CompInv, ExecutedWorked
  <2> QED  BY <1>3, <1>6, <1>10, <2>1, ZenonT(30) DEF ExecutedWorked
<1>14. Resting \in Calls /\ CallOK(Resting)'
  BY RestingFacts
<1>15. undo' = [undo EXCEPT ![c] = Resting]
  <2>1. undo \in [Conns -> Calls]
    BY <1>1 DEF CompInv
  <2> QED  BY <1>3, <2>1
<1>16. CompInv'
  BY <1>1, <1>4, <1>9, <1>11, <1>12, <1>13, <1>14, <1>15, CallMoves, ZenonT(30)
<1> QED  BY <1>4, <1>16 DEF UndoInv

\* A request's next state, with the table as it was.
LEMMA CallSteps ==
  ASSUME TypeInv, SnapInv, CompInv, NEW c \in Conns, NEW w \in Calls, undo' = [undo EXCEPT ![c] = w],
         comps' = comps, worked \subseteq worked', tip' = tip, CallOK(w)',
         \A d \in Conns : job[d] = Idle => job'[d] = Idle,
         w = Resting \/ job[c] = Idle
  PROVE  CompInv'
<1>1. CompsKept
  BY DEF CompsKept
<1>2. comps' \in Seq(Comps) /\ \A n \in DOMAIN comps' : comps'[n].idx \in 1..tip'
  BY ZenonT(30) DEF CompInv
<1>3. ExecutedWorked'
  BY ZenonT(30) DEF CompInv, ExecutedWorked
<1> QED  BY <1>1, <1>2, <1>3, CallMoves, ZenonT(30)

\* One at or above an index is in the table.
LEMMA AtOrAboveFacts ==
  ASSUME CompInv, NEW i, NEW S, S = AtOrAbove(i)
  PROVE  S \in SUBSET Nat /\ S \subseteq DOMAIN comps
<1>1. S \subseteq DOMAIN comps
  BY DEF AtOrAbove
<1>2. Len(comps) \in Nat /\ DOMAIN comps = 1..Len(comps) /\ \A n \in DOMAIN comps : n \in Nat
  BY CompsFacts
<1> QED  BY <1>1, <1>2

\* A compensate request begins.
LEMMA CompensateInv ==
  ASSUME UndoInv, NEW c \in Conns, NEW i, Compensate(c, i)
  PROVE  UndoInv'
<1>1. TypeInv /\ SnapInv /\ CompInv
  BY DEF UndoInv
<1>2. PICK s \in GetCompensations(i) :
        undo' = [undo EXCEPT ![c] = [Resting EXCEPT
            !.pc = "run", !.todo = s, !.asked = {n \in DOMAIN comps : comps[n].idx >= i}]]
  BY DEF Compensate
<1>3. /\ ops < MaxOps /\ ops' = ops + 1 /\ job[c] = Idle
      /\ UNCHANGED <<tip, ws, writes, disk, rows, job, made, comps, worked>>
  BY DEF Compensate, Free
<1>4. PICK S : S = AtOrAbove(i)
  OBVIOUS
<1>5. S \in SUBSET Nat /\ S \subseteq DOMAIN comps
  BY <1>1, <1>4, AtOrAboveFacts, ZenonT(30)
<1>6. s \in Orders(i) /\ \A m, n \in DOMAIN s : m < n => comps[s[m]].idx >= comps[s[n]].idx
  BY ZenonT(30) DEF GetCompensations
<1>7. s \in Seq(Nat) /\ Range(s) = S
  <2>1. comps \in Seq(Comps)
    BY <1>1 DEF CompInv
  <2> QED  BY <1>4, <1>6, <2>1, OrdersFacts, ZenonT(30)
<1>8. PICK w : w = [Resting EXCEPT !.pc = "run", !.todo = s, !.asked = S]
  OBVIOUS
<1>9. undo' = [undo EXCEPT ![c] = w]
  BY <1>2, <1>4, <1>8 DEF AtOrAbove
<1>10. <<>> \in Seq(Nat) /\ DOMAIN <<>> = {} /\ Range(<<>>) = {}
  <2>1. <<>> \in Seq(Nat) /\ DOMAIN <<>> = {}
    BY SMTT(30)
  <2> QED  BY <2>1, ZenonT(30) DEF Range
<1>11. /\ w.pc = "run" /\ w.todo = s /\ w.asked = S /\ w.log = <<>>
  BY <1>8, ZenonT(30) DEF Resting
<1>12. w \in Calls
  BY <1>5, <1>7, <1>8, <1>10, ZenonT(30) DEF Resting, Calls
<1>13. ListsOK(w)
  <2>1. Known(s)
    BY <1>5, <1>7, ZenonT(30) DEF Known, Range
  <2>2. Ordered(s)
    BY <1>6 DEF Ordered
  <2>3. Known(<<>>) /\ Ordered(<<>>) /\ Before(<<>>, s)
    BY <1>10, ZenonT(30) DEF Known, Ordered, Before
  <2>4. Range(w.log) \cup Range(w.todo) = w.asked
    BY <1>7, <1>10, <1>11, ZenonT(30)
  <2>5. w.pc # "mark" /\ w.pc # "replied"
    BY <1>11
  <2> QED  BY <1>11, <2>1, <2>2, <2>3, <2>4, <2>5, ZenonT(30) DEF ListsOK
<1>14. CallOK(w)
  BY <1>11, <1>13 DEF CallOK
<1>15. CompsKept /\ worked \subseteq worked'
  BY <1>3 DEF CompsKept
<1>16. CallOK(w)'
  BY <1>14, <1>15, CallKept
<1>17. CompInv'
  BY <1>1, <1>3, <1>9, <1>12, <1>15, <1>16, CallSteps, ZenonT(30)
<1>18. SnapInv'
  BY <1>1, <1>3, JobsRest, ZenonT(30)
<1>19. TypeInv'
  <2>1. ops' \in 0..MaxOps
    BY <1>1, <1>3, SnapshotsAssumption, SMTT(30) DEF TypeInv
  <2>2. job' \in [Conns -> Jobs]
    BY <1>1, <1>3 DEF TypeInv
  <2> QED  BY <1>1, <1>3, <2>1, <2>2, JobTypes, ZenonT(30)
<1> QED  BY <1>17, <1>18, <1>19 DEF UndoInv

\* A request that runs.
LEMMA Running ==
  ASSUME UndoInv, NEW c \in Conns, NEW u, u = undo[c], u.pc # "idle"
  PROVE  /\ u \in Calls /\ CallOK(u) /\ ListsOK(u) /\ job[c] = Idle
         /\ TypeInv /\ SnapInv /\ CompInv
<1>1. TypeInv /\ SnapInv /\ CompInv
  BY DEF UndoInv
<1>2. u \in Calls /\ CallOK(u)
  BY <1>1, Called
<1>3. ListsOK(u)
  BY <1>2 DEF CallOK
<1>4. undo[c] # Resting
  BY RestingFacts
<1>5. job[c] = Idle
  BY <1>1, <1>4 DEF CompInv
<1> QED  BY <1>1, <1>2, <1>3, <1>5

\* The command of the next compensation succeeds.
LEMMA CommandWorksInv ==
  ASSUME UndoInv, NEW c \in Conns, CommandWorks(c)
  PROVE  UndoInv'
<1>1. PICK u : u = undo[c]
  OBVIOUS
<1>2. PICK h : h = Head(u.todo)
  OBVIOUS
<1>3. /\ u.pc = "run" /\ u.todo # <<>> /\ CommandEffect /\ worked' = worked \cup {h}
      /\ undo' = [undo EXCEPT ![c] = [u EXCEPT !.pc = "mark", !.log = Append(@, h)]]
      /\ UNCHANGED <<tip, disk, rows, ops, made, comps>>
  BY <1>1, <1>2 DEF CommandWorks
<1>4. u.pc # "idle"
  BY <1>3
<1>5. /\ u \in Calls /\ ListsOK(u) /\ job[c] = Idle /\ TypeInv /\ SnapInv /\ CompInv
  BY <1>1, <1>4, Running, ZenonT(30)
<1>6. /\ u.todo \in Seq(Nat) /\ u.log \in Seq(Nat) /\ u.failed \in BOOLEAN /\ u.asked \in SUBSET Nat
  BY <1>5, CallFields
<1>7. h \in Nat /\ Range(u.todo) = {h} \cup Range(Tail(u.todo))
  BY <1>2, <1>3, <1>6, TailFacts, ZenonT(30)
<1>8. PICK l : l = Append(u.log, h)
  OBVIOUS
<1>9. l \in Seq(Nat) /\ Range(l) = Range(u.log) \cup {h}
  BY <1>6, <1>7, <1>8, AppendFacts, ZenonT(30)
<1>10. /\ Known(u.todo) /\ Known(u.log) /\ Ordered(u.todo) /\ Ordered(u.log) /\ Before(u.log, u.todo)
       /\ ~ u.failed => Range(u.log) \cup Range(u.todo) = u.asked
  BY <1>5 DEF ListsOK
<1>11. Known(l) /\ Ordered(l) /\ Before(l, u.todo)
  BY <1>2, <1>3, <1>5, <1>6, <1>7, <1>8, <1>10, LogOK, ZenonT(30)
<1>12. PICK w : w = [u EXCEPT !.pc = "mark", !.log = l]
  OBVIOUS
<1>13. /\ w.pc = "mark" /\ w.todo = u.todo /\ w.asked = u.asked /\ w.log = l
  BY <1>5, <1>12, ZenonT(30) DEF Calls
<1>14. w.failed = u.failed
  BY <1>5, <1>12, ZenonT(30) DEF Calls
<1>15. w \in Calls
  BY <1>5, <1>9, <1>12, ZenonT(30) DEF Calls
<1>16. undo' = [undo EXCEPT ![c] = w]
  BY <1>3, <1>8, <1>12
<1>17. CompsKept /\ worked \subseteq worked'
  BY <1>3 DEF CompsKept
<1>18. ListsOK(w)
  <2>1. ~ w.failed => Range(w.log) \cup Range(w.todo) = w.asked
    BY <1>7, <1>9, <1>10, <1>13, <1>14, ZenonT(30)
  <2>2. w.todo # <<>> /\ Head(w.todo) \in Range(w.log) /\ w.pc # "replied"
    BY <1>2, <1>3, <1>9, <1>13
  <2> QED  BY <1>10, <1>11, <1>13, <2>1, <2>2, ZenonT(30) DEF ListsOK
<1>19. CallOK(w)'
  <2>1. ListsOK(w)'
    BY <1>17, <1>18, ListsKept
  <2>2. Head(w.todo) \in worked'
    BY <1>2, <1>3, <1>13
  <2> QED  BY <2>1, <2>2 DEF CallOK
<1>20. TypeInv' /\ SnapInv' /\ \A d \in Conns : job[d] = Idle => job'[d] = Idle
  BY <1>3, <1>5, EffectInv, ZenonT(30)
<1>21. CompInv'
  BY <1>3, <1>5, <1>15, <1>16, <1>17, <1>19, <1>20, CallSteps, ZenonT(30)
<1> QED  BY <1>20, <1>21 DEF UndoInv

\* A request u becomes w, which is at the next compensation.
Advances(u, w) ==
  /\ w.pc = "run" /\ w.todo = Tail(u.todo) /\ w.log = u.log /\ w.asked = u.asked
  /\ w.failed \/ (w.failed = u.failed /\ Head(u.todo) \in Range(u.log))

\* A request goes on to the next compensation.
LEMMA NextOne ==
  ASSUME UndoInv, NEW u \in Calls, ListsOK(u), u.todo # <<>>, NEW w \in Calls, Advances(u, w)
  PROVE  CallOK(w)
<1> USE DEF Advances
<1>1. u.todo \in Seq(Nat) /\ CompInv
  BY CallFields DEF UndoInv
<1>2. /\ Known(u.todo) /\ Known(u.log) /\ Ordered(u.todo) /\ Ordered(u.log) /\ Before(u.log, u.todo)
      /\ ~ u.failed => Range(u.log) \cup Range(u.todo) = u.asked
  BY DEF ListsOK
<1>3. Known(w.todo) /\ Ordered(w.todo) /\ Before(w.log, w.todo)
  BY <1>1, <1>2, TailOK, ZenonT(30)
<1>4. Range(u.todo) = {Head(u.todo)} \cup Range(w.todo)
  BY <1>1, TailFacts, ZenonT(30)
<1>5. ~ w.failed => Range(w.log) \cup Range(w.todo) = w.asked
  BY <1>2, <1>4, ZenonT(30)
<1>6. w.pc # "mark" /\ w.pc # "replied"
  OBVIOUS
<1>7. ListsOK(w)
  BY <1>2, <1>3, <1>5, <1>6, ZenonT(30) DEF ListsOK
<1> QED  BY <1>6, <1>7 DEF CallOK

\* The command fails.
LEMMA CommandFailsInv ==
  ASSUME UndoInv, NEW c \in Conns, CommandFails(c)
  PROVE  UndoInv'
<1>1. PICK u : u = undo[c]
  OBVIOUS
<1>2. PICK w : w = [u EXCEPT !.todo = Tail(u.todo), !.failed = TRUE]
  OBVIOUS
<1>3. /\ u.pc = "run" /\ u.todo # <<>> /\ CommandEffect
      /\ undo' = [undo EXCEPT ![c] = w]
      /\ UNCHANGED <<tip, disk, rows, ops, made, comps, worked>>
  BY <1>1, <1>2 DEF CommandFails
<1>4. u.pc # "idle"
  BY <1>3
<1>5. /\ u \in Calls /\ ListsOK(u) /\ job[c] = Idle /\ TypeInv /\ SnapInv /\ CompInv
  BY <1>1, <1>4, Running, ZenonT(30)
<1>6. u.todo \in Seq(Nat) /\ Tail(u.todo) \in Seq(Nat)
  BY <1>3, <1>5, CallFields, TailFacts, ZenonT(30)
<1>7. /\ w.pc = "run" /\ w.todo = Tail(u.todo) /\ w.asked = u.asked /\ w.log = u.log
  BY <1>2, <1>3, <1>5, ZenonT(30) DEF Calls
<1>8. w.failed
  BY <1>2, <1>5, ZenonT(30) DEF Calls
<1>9. w \in Calls
  BY <1>2, <1>5, <1>6, ZenonT(30) DEF Calls
<1>10. CallOK(w)
  <2>1. w.failed \/ (w.failed = u.failed /\ Head(u.todo) \in Range(u.log))
    BY <1>8, ZenonT(30)
  <2>2. Advances(u, w)
    BY <1>7, <2>1, ZenonT(30) DEF Advances
  <2> QED  BY <1>3, <1>5, <1>9, <2>2, NextOne, ZenonT(30)
<1>11. CompsKept /\ worked \subseteq worked'
  BY <1>3 DEF CompsKept
<1>12. CallOK(w)'
  BY <1>10, <1>11, CallKept
<1>13. TypeInv' /\ SnapInv' /\ \A d \in Conns : job[d] = Idle => job'[d] = Idle
  BY <1>3, <1>5, EffectInv, ZenonT(30)
<1>14. CompInv'
  BY <1>3, <1>5, <1>9, <1>11, <1>12, <1>13, CallSteps, ZenonT(30)
<1> QED  BY <1>13, <1>14 DEF UndoInv

\* The compensation is marked.
LEMMA MarkExecutedInv ==
  ASSUME UndoInv, NEW c \in Conns, MarkExecuted(c)
  PROVE  UndoInv'
<1>1. PICK u : u = undo[c]
  OBVIOUS
<1>2. PICK w : w = [u EXCEPT !.todo = Tail(u.todo), !.pc = "run"]
  OBVIOUS
<1>3. PICK h : h = Head(u.todo)
  OBVIOUS
<1>4. /\ u.pc = "mark" /\ UNCHANGED <<snapVars, worked>>
      /\ undo' = [undo EXCEPT ![c] = w]
      /\ comps' = [comps EXCEPT ![h].executed = TRUE] \/ comps' = comps
  BY <1>1, <1>2, <1>3 DEF MarkExecuted
<1>5. u.pc # "idle"
  BY <1>4
<1>6. /\ u \in Calls /\ ListsOK(u) /\ CallOK(u) /\ job[c] = Idle /\ TypeInv /\ SnapInv /\ CompInv
  BY <1>1, <1>5, Running, ZenonT(30)
<1>7. u.todo # <<>> /\ h \in Range(u.log) /\ h \in worked /\ Known(u.todo)
  BY <1>3, <1>4, <1>6, ZenonT(30) DEF ListsOK, CallOK
<1>8. u.todo \in Seq(Nat) /\ Tail(u.todo) \in Seq(Nat) /\ h \in DOMAIN comps
  <2>1. u.todo \in Seq(Nat)
    BY <1>6, CallFields
  <2>2. Tail(u.todo) \in Seq(Nat) /\ 1 \in DOMAIN u.todo /\ h = u.todo[1]
    BY <1>3, <1>7, <2>1, TailFacts, ZenonT(30)
  <2> QED  BY <1>7, <2>1, <2>2 DEF Known
<1>9. /\ w.pc = "run" /\ w.todo = Tail(u.todo) /\ w.asked = u.asked /\ w.log = u.log
  BY <1>2, <1>6, ZenonT(30) DEF Calls
<1>10. w.failed = u.failed
  BY <1>2, <1>6, ZenonT(30) DEF Calls
<1>11. w \in Calls
  BY <1>2, <1>6, <1>8, ZenonT(30) DEF Calls
<1>12. CallOK(w)
  <2>1. w.failed \/ (w.failed = u.failed /\ Head(u.todo) \in Range(u.log))
    BY <1>3, <1>7, <1>10, ZenonT(30)
  <2>2. Advances(u, w)
    BY <1>9, <2>1, ZenonT(30) DEF Advances
  <2> QED  BY <1>6, <1>7, <1>11, <2>2, NextOne, ZenonT(30)
<1>13. /\ comps' \in Seq(Comps) /\ DOMAIN comps' = DOMAIN comps
       /\ \A n \in DOMAIN comps : comps'[n].idx = comps[n].idx
       /\ \A n \in DOMAIN comps : n # h => comps'[n].executed = comps[n].executed
  <2>1. comps \in Seq(Comps) /\ comps[h] \in Comps
    BY <1>6, <1>8, CompsFacts
  <2>2. PICK x : x = [comps[h] EXCEPT !.executed = TRUE]
    OBVIOUS
  <2>3. x \in Comps /\ x.idx = comps[h].idx
    BY <2>1, <2>2, ZenonT(30) DEF Comps
  <2>4. CASE comps' = [comps EXCEPT ![h].executed = TRUE]
    <3>1. comps' = [comps EXCEPT ![h] = x]
      BY <2>2, <2>4
    <3>2. comps' \in Seq(Comps) /\ DOMAIN comps' = DOMAIN comps
      BY <1>8, <2>1, <2>3, <3>1, SMTT(30)
    <3>3. \A n \in DOMAIN comps : comps'[n] = IF n = h THEN x ELSE comps[n]
      BY <1>8, <2>1, <3>1, SMTT(30)
    <3> QED  BY <2>3, <3>2, <3>3, ZenonT(30)
  <2>5. CASE comps' = comps
    BY <2>1, <2>5
  <2> QED  BY <1>4, <2>4, <2>5
<1>14. CompsKept /\ worked' = worked
  BY <1>4, <1>13, ZenonT(30) DEF CompsKept
<1>15. CallOK(w)'
  BY <1>12, <1>14, CallKept
<1>16. TypeInv' /\ SnapInv' /\ tip' = tip /\ job' = job
  BY <1>4, <1>6, SnapRests
<1>17. \A n \in DOMAIN comps' : comps'[n].idx \in 1..tip'
  <2>1. \A n \in DOMAIN comps : comps[n].idx \in 1..tip
    BY <1>6 DEF CompInv
  <2> QED  BY <1>13, <1>16, <2>1, ZenonT(30)
<1>18. ExecutedWorked'
  <2>1. \A n \in DOMAIN comps : comps[n].executed => n \in worked
    BY <1>6 DEF CompInv, ExecutedWorked
  <2> QED  BY <1>7, <1>13, <1>14, <2>1, ZenonT(30) DEF ExecutedWorked
<1>19. CompInv'
  BY <1>4, <1>6, <1>11, <1>13, <1>14, <1>15, <1>16, <1>17, <1>18, CallMoves, ZenonT(30)
<1> QED  BY <1>16, <1>19 DEF UndoInv

\* The reply.
LEMMA CompensateRepliesInv ==
  ASSUME UndoInv, NEW c \in Conns, CompensateReplies(c)
  PROVE  UndoInv'
<1>1. PICK u : u = undo[c]
  OBVIOUS
<1>2. PICK w : w = [u EXCEPT !.pc = "replied"]
  OBVIOUS
<1>3. /\ u.pc = "run" /\ u.todo = <<>> /\ undo' = [undo EXCEPT ![c] = w]
      /\ UNCHANGED <<snapVars, comps, worked>>
  BY <1>1, <1>2 DEF CompensateReplies
<1>4. u.pc # "idle"
  BY <1>3
<1>5. /\ u \in Calls /\ ListsOK(u) /\ job[c] = Idle /\ TypeInv /\ SnapInv /\ CompInv
  BY <1>1, <1>4, Running, ZenonT(30)
<1>6. /\ w.pc = "replied" /\ w.todo = u.todo /\ w.asked = u.asked /\ w.log = u.log
  BY <1>2, <1>5, ZenonT(30) DEF Calls
<1>7. w.failed = u.failed
  BY <1>2, <1>5, ZenonT(30) DEF Calls
<1>8. w \in Calls
  BY <1>2, <1>5, ZenonT(30) DEF Calls
<1>9. w.pc # "mark"
  BY <1>6
<1>10. CallOK(w)
  <2>1. ListsOK(w)
    BY <1>3, <1>5, <1>6, <1>7, <1>9, ZenonT(30) DEF ListsOK
  <2> QED  BY <1>9, <2>1 DEF CallOK
<1>11. CompsKept /\ worked \subseteq worked'
  BY <1>3 DEF CompsKept
<1>12. CallOK(w)'
  BY <1>10, <1>11, CallKept
<1>13. TypeInv' /\ SnapInv' /\ tip' = tip /\ job' = job
  BY <1>3, <1>5, SnapRests
<1>14. CompInv'
  BY <1>3, <1>5, <1>8, <1>11, <1>12, <1>13, CallSteps, ZenonT(30)
<1> QED  BY <1>13, <1>14 DEF UndoInv

\* The connection is free again.
LEMMA CompensateEndsInv ==
  ASSUME UndoInv, NEW c \in Conns, CompensateEnds(c)
  PROVE  UndoInv'
<1>1. undo' = [undo EXCEPT ![c] = Resting] /\ UNCHANGED <<snapVars, comps, worked>>
  BY DEF CompensateEnds
<1>2. TypeInv /\ SnapInv /\ CompInv
  BY DEF UndoInv
<1>3. TypeInv' /\ SnapInv' /\ tip' = tip /\ job' = job
  BY <1>1, <1>2, SnapRests
<1>4. CompInv'
  BY <1>1, <1>2, <1>3, RestingFacts, CallSteps, ZenonT(30)
<1> QED  BY <1>3, <1>4 DEF UndoInv

\* A crash ends every request.
LEMMA UndoCrashInv ==
  ASSUME UndoInv, Crash
  PROVE  UndoInv'
<1>1. /\ SnapCrash /\ undo' = [c \in Conns |-> Resting] /\ comps' = comps /\ worked' = worked
      /\ job' = [c \in Conns |-> Idle] /\ tip' = tip
  BY DEF Crash, SnapCrash
<1>2. TypeInv /\ SnapInv /\ CompInv
  BY DEF UndoInv
<1>3. TypeInv' /\ SnapInv'
  BY <1>1, <1>2, CrashInv
<1>4. undo' \in [Conns -> Calls] /\ \A u \in Range(undo') : u = Resting
  BY <1>1, RestingFacts, ZenonT(30) DEF Range
<1>5. \A u \in Range(undo') : CallOK(u)'
  <2>1. ASSUME NEW u \in Range(undo')  PROVE CallOK(u)'
    <3>1. u = Resting
      BY <1>4
    <3> QED  BY <3>1, RestingFacts
  <2> QED  BY <2>1
<1>6. comps' \in Seq(Comps) /\ \A n \in DOMAIN comps' : comps'[n].idx \in 1..tip'
  BY <1>1, <1>2, ZenonT(30) DEF CompInv
<1>7. ExecutedWorked'
  BY <1>1, <1>2, ZenonT(30) DEF CompInv, ExecutedWorked
<1>8. \A c \in Conns : job'[c] = Idle \/ undo'[c] = Resting
  BY <1>1
<1>9. CompInv'
  BY <1>4, <1>5, <1>6, <1>7, <1>8, ZenonT(30) DEF CompInv
<1> QED  BY <1>3, <1>9 DEF UndoInv

\* Snapshot steps.
LEMMA SnapshotInv ==
  ASSUME UndoInv, NEW c \in Conns, Snapshot(c)
  PROVE  UndoInv'
<1>1. TypeInv /\ SnapInv /\ CompInv /\ UNCHANGED compVars
  BY DEF UndoInv, Snapshot
<1>2. tip \in 0..MaxTip
  BY <1>1 DEF TypeInv
<1>3. ASSUME Free(c), NEW a \in Agents, handleSnapshot(c, a) \/ CaptureDifferential(c, a, tip)
      PROVE  TypeInv' /\ SnapInv' /\ \E q : Begin(c, q)
  <2>1. CASE Capture(c, a, tip)
    <3>1. TypeInv' /\ SnapInv'
      BY <1>1, <1>2, <2>1, CaptureInv, ZenonT(30)
    <3>2. \E q : Begin(c, q)
      BY <2>1, ZenonT(30) DEF Capture
    <3> QED  BY <3>1, <3>2
  <2>2. CASE \E r \in LatestFull(a) : CaptureDiff(c, a, tip, r)
    <3>1. PICK r \in LatestFull(a) : CaptureDiff(c, a, tip, r)
      BY <2>2
    <3>2. r \in Range(rows)
      BY ZenonT(30) DEF LatestFull
    <3>3. TypeInv' /\ SnapInv'
      BY <1>1, <1>2, <3>1, <3>2, CaptureDiffInv, ZenonT(30)
    <3>4. \E q : Begin(c, q)
      BY <3>1, ZenonT(30) DEF CaptureDiff
    <3> QED  BY <3>3, <3>4
  <2> QED  BY <1>3, <2>1, <2>2, ZenonT(30) DEF handleSnapshot, CaptureDifferential
<1>4. ASSUME NEW i \in 0..MaxTip, handleRestore(c, i)
      PROVE  TypeInv' /\ SnapInv' /\ \E q : Begin(c, q)
  <2>1. PICK r \in getByChainIndex("filesystem", i) :
          Begin(c, [Idle EXCEPT !.pc = "open", !.key = r.key, !.row = r])
    BY <1>4 DEF handleRestore, Restore
  <2>2. r \in Range(rows) /\ r.key[3] = "filesystem"
    BY <1>1, HitIn, ZenonT(30)
  <2>3. TypeInv' /\ SnapInv'
    <3>1. PICK p \in {"open", "base"} : p = "open"
      OBVIOUS
    <3>2. p # "base" /\ Begin(c, [Idle EXCEPT !.pc = p, !.key = r.key, !.row = r])
      BY <2>1, <3>1
    <3> QED  BY <1>1, <2>2, <3>2, RestoreBegins, ZenonT(30)
  <2> QED  BY <2>1, <2>3
<1>5. ASSUME NEW r \in Range(rows), RestoreDiff(c, r)
      PROVE  TypeInv' /\ SnapInv' /\ \E q : Begin(c, q)
  <2>1. /\ r.key[3] = "filesystem-diff"
        /\ Begin(c, [Idle EXCEPT !.pc = "base", !.key = r.key, !.row = r])
    BY <1>5 DEF RestoreDiff
  <2>2. TypeInv' /\ SnapInv'
    <3>1. PICK p \in {"open", "base"} : p = "base"
      OBVIOUS
    <3>2. p # "open" /\ Begin(c, [Idle EXCEPT !.pc = p, !.key = r.key, !.row = r])
      BY <2>1, <3>1
    <3> QED  BY <1>1, <2>1, <3>2, RestoreBegins, ZenonT(30)
  <2> QED  BY <2>1, <2>2
<1>6. CASE Free(c) /\ \/ \E a \in Agents : handleSnapshot(c, a) \/ CaptureDifferential(c, a, tip)
                      \/ \E i \in 0..MaxTip : handleRestore(c, i)
                      \/ \E r \in Range(rows) : RestoreDiff(c, r)
  <2>1. TypeInv' /\ SnapInv' /\ \E q : Begin(c, q)
    BY <1>3, <1>4, <1>5, <1>6, ZenonT(30)
  <2>2. PICK q : tip' = tip /\ job' = [job EXCEPT ![c] = q]
    BY <2>1, ZenonT(30) DEF Begin
  <2>3. job \in [Conns -> Jobs] /\ undo[c] = Resting
    BY <1>1, <1>6 DEF TypeInv, Free
  <2>4. \A d \in Conns : job[d] = Idle => job'[d] = Idle \/ undo[d] = Resting
    BY <2>2, <2>3, ZenonT(30)
  <2>5. tip' \in Nat /\ tip <= tip'
    BY <1>1, <2>2, TipRests
  <2>6. CompInv'
    BY <1>1, <2>4, <2>5, CompRests, ZenonT(30)
  <2> QED  BY <2>1, <2>6 DEF UndoInv
<1>7. CASE SnapStep(c)
  <2>1. TypeInv' /\ SnapInv'
    BY <1>1, <1>7, SnapStepInv
  <2>2. tip' = tip
    BY <1>7, ZenonT(30) DEF SnapStep, CreateArchive, ArchiveFile, ArchiveFails, CloseArchive, HashArchive, save,
       saveFails, OpenBase, OpenArchive, ExtractFile, ExtractFails, BaseDone, RemoveDeleted, Restored
  <2>3. tip' \in Nat /\ tip <= tip'
    BY <1>1, <2>2, TipRests
  <2>4. \A d \in Conns : job[d] = Idle => job'[d] = Idle
    BY <1>1, <1>7, StaysIdle, ZenonT(30)
  <2>5. CompInv'
    BY <1>1, <2>3, <2>4, CompRests, ZenonT(30)
  <2> QED  BY <2>1, <2>5 DEF UndoInv
<1> QED  BY <1>6, <1>7, ZenonT(30) DEF Snapshot

\* What goes on besides the requests.
LEMMA OthersInv ==
  ASSUME UndoInv, Others
  PROVE  UndoInv'
<1>1. TypeInv /\ SnapInv /\ CompInv /\ UNCHANGED compVars
  BY DEF UndoInv, Others
<1>2. CASE Receipt
  <2>1. TypeInv' /\ SnapInv'
    BY <1>1, <1>2, ReceiptInv
  <2>2. tip' = tip + 1 /\ job' = job /\ tip \in 0..MaxTip
    BY <1>1, <1>2 DEF Receipt, TypeInv
  <2>3. tip' \in Nat /\ tip <= tip'
    BY <2>2, SMTT(30)
  <2>4. CompInv'
    BY <1>1, <2>2, <2>3, CompRests, ZenonT(30)
  <2> QED  BY <2>1, <2>4 DEF UndoInv
<1>3. CASE AgentWrites
  <2>1. CommandEffect /\ UNCHANGED <<tip, disk, rows, ops, made>>
    BY <1>3, ZenonT(30) DEF AgentWrites, CommandEffect
  <2>2. TypeInv' /\ SnapInv' /\ \A d \in Conns : job[d] = Idle => job'[d] = Idle
    BY <1>1, <2>1, EffectInv, ZenonT(30)
  <2>3. tip' \in Nat /\ tip <= tip'
    BY <1>1, <2>1, TipRests
  <2>4. CompInv'
    BY <1>1, <2>2, <2>3, CompRests, ZenonT(30)
  <2> QED  BY <2>2, <2>4 DEF UndoInv
<1>4. ASSUME NEW i, Delete(i)
      PROVE  UndoInv'
  <2>1. TypeInv' /\ SnapInv'
    BY <1>1, <1>4, DeleteInv
  <2>2. tip' = tip /\ job' = job
    BY <1>4 DEF Delete
  <2>3. tip' \in Nat /\ tip <= tip'
    BY <1>1, <2>2, TipRests
  <2>4. CompInv'
    BY <1>1, <2>2, <2>3, CompRests, ZenonT(30)
  <2> QED  BY <2>1, <2>4 DEF UndoInv
<1> QED  BY <1>2, <1>3, <1>4, ZenonT(30) DEF Others

\* The daemon starts without snapshots and compensations.
LEMMA UndoStarts == Init => UndoInv
<1> SUFFICES ASSUME Init  PROVE UndoInv
  OBVIOUS
<1>1. /\ tip = 0 /\ writes = 0 /\ ops = 0 /\ rows = <<>>
      /\ ws = [f \in Files |-> [v |-> 0, sec |-> FALSE]]
      /\ disk = [k \in Keys |-> NoFile] /\ job = [c \in Conns |-> Idle] /\ made = [k \in Keys |-> 0]
      /\ comps = <<>> /\ undo = [c \in Conns |-> Resting] /\ worked = {}
  BY DEF Init, SnapInit
<1>2. DOMAIN <<>> = {} /\ <<>> \in Seq(Comps)
  BY SMTT(30)
<1>3. DOMAIN rows = {} /\ Range(rows) = {} /\ DOMAIN comps = {}
  BY <1>1, <1>2, ZenonT(30) DEF Range
<1>4. (\A j \in Range(job) : j = Idle) /\ (\A u \in Range(undo) : u = Resting)
  BY <1>1, ZenonT(30) DEF Range
<1>5. TypeInv
  <2>1. tip \in 0..MaxTip /\ writes \in 0..MaxWrites /\ ops \in 0..MaxOps
    BY <1>1, SnapshotsAssumption, SMTT(30)
  <2>2. 0 \in Versions /\ 0 \in 0..2
    BY SnapshotsAssumption, SMTT(30) DEF Versions
  <2>3. ws \in [Files -> [v : Versions, sec : BOOLEAN]]
    BY <1>1, <2>2, ZenonT(30)
  <2>4. /\ disk \in [Keys -> Archives] /\ job \in [Conns -> Jobs] /\ made \in [Keys -> 0..2]
    BY <1>1, <2>2, EmptyArchives, IdleFacts, ZenonT(30)
  <2> QED  BY <1>3, <2>1, <2>3, <2>4, ZenonT(30) DEF TypeInv
<1>6. SnapInv
  <2>1. \A k \in Keys : Good(disk[k])
    BY <1>1, EmptyArchives
  <2>2. \A c \in Conns : ~ Writing(job[c])
    BY <1>1, IdleOK
  <2>3. ApartInv
    BY <2>2, ZenonT(30) DEF ApartInv
  <2>4. \A j \in Range(job) : JobOK(j)
    BY <1>4, IdleOK
  <2> QED  BY <1>3, <2>1, <2>3, <2>4, ZenonT(30) DEF SnapInv
<1>7. CompInv
  <2>1. undo \in [Conns -> Calls] /\ \A u \in Range(undo) : CallOK(u)
    BY <1>1, <1>4, RestingFacts, ZenonT(30)
  <2>2. comps \in Seq(Comps) /\ ExecutedWorked /\ \A n \in DOMAIN comps : comps[n].idx \in 1..tip
    BY <1>1, <1>2, <1>3, ZenonT(30) DEF ExecutedWorked
  <2>3. \A c \in Conns : job[c] = Idle \/ undo[c] = Resting
    BY <1>1
  <2> QED  BY <2>1, <2>2, <2>3, ZenonT(30) DEF CompInv
<1> QED  BY <1>5, <1>6, <1>7 DEF UndoInv

(* The inductive invariant of snapshots and compensations together: what   *)
(* every capture, row, restore and compensate request relies on holds      *)
(* after every step of any connection, agent or crash.                     *)
THEOREM UndoInvariant == Spec => []UndoInv
<1>1. UndoInv /\ [Next]_vars => UndoInv'
  <2> SUFFICES ASSUME UndoInv, [Next]_vars  PROVE UndoInv'
    OBVIOUS
  <2>1. CASE Next
    <3>1. ASSUME NEW c \in Conns, Snapshot(c)  PROVE UndoInv'
      BY <3>1, SnapshotInv
    <3>2. ASSUME NEW c \in Conns, Compensation(c)  PROVE UndoInv'
      BY <3>2, RegisterCompensateInv, CompensateInv, CommandWorksInv, CommandFailsInv, MarkExecutedInv,
         CompensateRepliesInv, CompensateEndsInv, ZenonT(30) DEF Compensation
    <3> QED  BY <2>1, <3>1, <3>2, OthersInv, UndoCrashInv, ZenonT(30) DEF Next
  <2>2. CASE UNCHANGED vars
    <3>1. TypeInv /\ SnapInv /\ CompInv /\ UNCHANGED snapVars /\ UNCHANGED compVars
      BY <2>2 DEF UndoInv, vars
    <3>2. TypeInv' /\ SnapInv' /\ tip' = tip /\ job' = job
      BY <3>1, SnapRests
    <3>3. tip' \in Nat /\ tip <= tip'
      BY <3>1, <3>2, TipRests
    <3>4. CompInv'
      BY <3>1, <3>2, <3>3, CompRests, ZenonT(30)
    <3> QED  BY <3>2, <3>4 DEF UndoInv
  <2> QED  BY <2>1, <2>2
<1> QED  BY <1>1, UndoStarts, PTL DEF Spec

(* Variables keep their types, a compensation names a receipt of the       *)
(* chain, and a connection is in one request at most.                      *)
THEOREM UndoTypes == Spec => []TypeOK
<1>1. ASSUME UndoInv  PROVE TypeOK
  <2>1. TypeInv /\ CompInv
    BY <1>1 DEF UndoInv
  <2>2. \A k \in Keys : disk[k].kind \in {"none", "empty", "torn", "archive"}
    BY <2>1, ArchiveFields, ZenonT(30) DEF TypeInv
  <2>3. \A r \in Range(rows) : r.key \in Keys /\ r.base \in Keys \cup {NoKey}
    <3>1. \A r \in Range(rows) : r.key \in Keys
      BY <1>1, ZenonT(30) DEF UndoInv, SnapInv, RowOK, KeyOK
    <3>2. \A r \in Range(rows) : r.base \in Keys \cup {NoKey}
      BY <2>1, RowFields, ZenonT(30) DEF TypeInv, MaybeKeys
    <3> QED  BY <3>1, <3>2
  <2>4. \A c \in Conns : job[c].left \subseteq Files /\ job[c].key \in Keys \cup {NoKey}
    BY <2>1, JobFields, ZenonT(30) DEF TypeInv, MaybeKeys
  <2>5. \A c \in Conns : Free(c) \/ job[c] = Idle \/ undo[c] = Resting
    BY <2>1 DEF CompInv
  <2>6. \A n \in DOMAIN comps : comps[n].idx \in 1..tip
    BY <2>1 DEF CompInv
  <2>7. /\ tip \in 0..MaxTip /\ ws \in [Files -> [v : Versions, sec : BOOLEAN]]
        /\ writes \in 0..MaxWrites /\ ops \in 0..MaxOps /\ made \in [Keys -> 0..2]
    BY <2>1 DEF TypeInv
  <2> QED  BY <2>2, <2>3, <2>4, <2>5, <2>6, <2>7, ZenonT(30) DEF TypeOK
<1>2. UndoInv => TypeOK
  BY <1>1
<1> QED  BY <1>2, UndoInvariant, PTL

(* As long as its agent has not captured that index again, a row describes *)
(* the archive it names, whatever else is captured, restored or lost.      *)
THEOREM RowsStayIntact == Spec => []RowsIntact
<1>1. UndoInv => RowsIntact
  BY ZenonT(30) DEF UndoInv, SnapInv, RowOK, RowsIntact, snapshotPath
<1> QED  BY <1>1, UndoInvariant, PTL

(* A quiet restore that reports success has put back the archive the row's *)
(* hash was taken of.                                                      *)
THEOREM RestoresAreVerified == Spec => []RestoreVerified
<1>1. ASSUME UndoInv, NEW c \in Conns, job[c].pc = "done", job[c].quiet
      PROVE  /\ Readable(job[c].row.hash)
             /\ \A f \in Present(job[c].row.hash.e) : ws[f].v = job[c].row.hash.e[f]
  <2>1. JobOK(job[c])
    BY <1>1, Jobbed DEF UndoInv
  <2>2. Restoring(job[c])
    BY <1>1 DEF Restoring
  <2>3. RestoreOK(job[c])
    BY <2>1, <2>2 DEF JobOK
  <2> QED  BY <1>1, <2>3, ZenonT(30) DEF RestoreOK, Has
<1>2. UndoInv => RestoreVerified
  BY <1>1, ZenonT(30) DEF RestoreVerified
<1> QED  BY <1>2, UndoInvariant, PTL

(* A quiet restore that reports success has given every file the capture   *)
(* saw the contents it had then, a differential one with what it left to   *)
(* its base, unless one of the archives was captured again.                *)
THEOREM RestoresReproduce == Spec => []RestoreReproduces
<1>1. ASSUME UndoInv, NEW j, NEW c \in Conns, j = job[c], j.pc = "done", j.quiet, made[j.key] = 1,
             j.row.base # NoKey => made[j.row.base] = 1, NEW f \in j.row.scope
      PROVE  ws[f].v = j.row.view[f]
  <2>1. j \in Jobs /\ JobOK(j)
    BY <1>1, Jobbed DEF UndoInv
  <2>2. Restoring(j)
    BY <1>1 DEF Restoring
  <2>3. RestoreOK(j)
    BY <2>1, <2>2 DEF JobOK
  <2>4. PICK r \in RowRecs : r = j.row /\ RowOK(r) /\ made[r.key] = 1
    BY <1>1, <2>3, ZenonT(30) DEF RestoreOK
  <2>5. /\ Has(r.hash.e, Present(r.hash.e)) /\ Has(Nothing, r.hash.del)
        /\ BaseHeld(r, Present(r.hash.e) \cup r.hash.del)
    BY <1>1, <2>3, <2>4, ZenonT(30) DEF RestoreOK
  <2>6. f \in Files /\ f \in r.scope /\ (r.base # NoKey => made[r.base] = 1)
    BY <1>1, <2>4, RowFields, ZenonT(30)
  <2>7. /\ \A g \in Present(r.hash.e) : r.hash.e[g] = r.view[g]
        /\ \/ r.hash.e[f] # 0
           \/ f \in r.hash.del /\ r.view[f] = 0
           \/ f \notin r.hash.del /\ r.base # NoKey /\ FromBase(r.base, f, r.view[f])
    BY <2>4, <2>6, ZenonT(30) DEF RowOK
  <2>8. CASE r.hash.e[f] # 0
    <3>1. f \in Present(r.hash.e)
      BY <2>6, <2>8 DEF Present
    <3>2. ws[f].v = r.hash.e[f] /\ r.hash.e[f] = r.view[f]
      BY <2>5, <2>7, <3>1, ZenonT(30) DEF Has
    <3> QED  BY <2>4, <3>2
  <2>9. CASE f \in r.hash.del /\ r.view[f] = 0
    <3>1. ws[f].v = 0
      BY <2>5, <2>6, <2>9, NothingFacts, ZenonT(30) DEF Has
    <3> QED  BY <2>4, <2>9, <3>1
  <2>10. CASE r.hash.e[f] = 0 /\ f \notin r.hash.del /\ r.base # NoKey /\ FromBase(r.base, f, r.view[f])
    <3>1. r.view[f] # 0 /\ disk[r.base].e[f] = r.view[f]
      BY <2>6, <2>10 DEF FromBase
    <3>2. f \in Present(disk[r.base].e) \ (Present(r.hash.e) \cup r.hash.del)
      BY <2>6, <2>10, <3>1, ZenonT(30) DEF Present
    <3>3. ws[f].v = disk[r.base].e[f]
      BY <2>5, <2>6, <2>10, <3>2, ZenonT(30) DEF BaseHeld, Has
    <3> QED  BY <2>4, <3>1, <3>3
  <2> QED  BY <2>7, <2>8, <2>9, <2>10, ZenonT(30)
<1>2. UndoInv => RestoreReproduces
  BY <1>1, ZenonT(30) DEF RestoreReproduces
<1> QED  BY <1>2, UndoInvariant, PTL

(* A compensate request that reports success has run the command of every  *)
(* compensation it was asked for, newest receipt first, and each worked.   *)
THEOREM SuccessIsUndone == Spec => []SuccessMeansUndone
<1>1. ASSUME UndoInv, NEW u, NEW c \in Conns, u = undo[c], u.pc = "replied", ~ u.failed
      PROVE  /\ Range(u.log) = u.asked
             /\ \A m, n \in DOMAIN u.log : m < n => comps[u.log[m]].idx >= comps[u.log[n]].idx
  <2>1. u.pc # "idle"
    BY <1>1
  <2>2. ListsOK(u)
    BY <1>1, <2>1, Running, ZenonT(30)
  <2>3. u.todo = <<>> /\ Range(u.log) \cup Range(u.todo) = u.asked /\ Ordered(u.log)
    BY <1>1, <2>2, ZenonT(30) DEF ListsOK
  <2>4. Range(<<>>) = {}
    <3>1. DOMAIN <<>> = {}
      BY SMTT(30)
    <3> QED  BY <3>1, ZenonT(30) DEF Range
  <2> QED  BY <2>3, <2>4, ZenonT(30) DEF Ordered
<1>2. UndoInv => SuccessMeansUndone
  BY <1>1, ZenonT(30) DEF SuccessMeansUndone
<1> QED  BY <1>2, UndoInvariant, PTL

(* A compensation is recorded as executed only if its command succeeded.   *)
THEOREM MarksAreHonest == Spec => []ExecutedWorked
<1>1. UndoInv => ExecutedWorked
  BY DEF UndoInv, CompInv
<1> QED  BY <1>1, UndoInvariant, PTL
=============================================================================
