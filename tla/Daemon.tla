------------------------------- MODULE Daemon -------------------------------
(***************************************************************************)
(* The daemon of internal/daemon around the chain: handleSignAppend with   *)
(* the policy executor it asks (internal/policy), the keystore it loads    *)
(* the signing key from (internal/identity) and the audit ring it fills    *)
(* afterwards; the handlers that register policies and agents; orderly     *)
(* shutdown, crash and restart.                                            *)
(*                                                                         *)
(* Every connection has a goroutine, so the handlers of several clients    *)
(* interleave.  AppendNew is one step here: module Chain opens it up.      *)
(* handlePolicyRegister and handlePolicyDelete write through a Store of    *)
(* their own, so the dirty flag of the executor's Store is never set and   *)
(* does not appear.                                                        *)
(***************************************************************************)
EXTENDS Naturals, Sequences, FiniteSets

CONSTANTS
  Clients,      \* connections
  NoClient,     \* the value of a mutex nobody holds
  Policies,     \* policy identifiers
  Actions,      \* action types a request may name
  Agents,       \* agent identifiers, each derived from a public key
  TTL,          \* policyCacheTTL (10 s)
  Lag,          \* bound: ticks that reading the policy table may take
  RingSize,     \* entries of the audit ring (200)
  DefaultLimit, \* events returned when the limit is out of range (50)
  MaxNow,       \* bound: ticks of the clock
  MaxAppends    \* bound: receipts ever appended

ASSUME DaemonAssumption ==
  /\ NoClient \notin Clients
  /\ TTL \in Nat \ {0}
  /\ Lag \in Nat
  /\ RingSize \in Nat \ {0}
  /\ DefaultLimit \in 1..RingSize
  /\ MaxNow \in Nat
  /\ MaxAppends \in Nat

VARIABLES
  policies,   \* table policies: id -> [enabled, denies]
  cache,      \* Store.cache of the executor: {} or one [list, expiresAt]
  polMu,      \* who holds Store.mu for writing
  listed,     \* what that goroutine read from the table
  listedAt,   \* history: when it read it
  keys,       \* key files: "none", "torn", "full" or "public"
  keyCache,   \* Keystore.cache: "none" or the key as decrypted
  keyMu,      \* who holds Keystore.mu across a file write
  appended,   \* number of receipts in the chain
  ring,       \* Daemon.auditRing
  auditIdx,   \* Daemon.auditIdx
  auditCount, \* Daemon.auditCount
  life,       \* "up", "stopping", "stopped" or "crashed"
  now,        \* time.Now()
  pc,         \* where each handler is
  req,        \* the request each handler works on
  key,        \* the key it has loaded
  since,      \* history: when the table began to deny an action
  staleFor,   \* history: how long a permitted action had been denied
  events,     \* history: receipts whose audit event was recorded, since start
  born        \* history: receipts in the chain when the daemon started

policyVars == <<policies, cache, polMu, listed, listedAt, since>>
keyVars    == <<keys, keyCache, keyMu>>
ringVars   == <<ring, auditIdx, auditCount, events>>
handler    == <<pc, req, key, staleFor>>
process    == <<life, born>>
vars == <<policyVars, keyVars, ringVars, handler, process, appended, now>>

-----------------------------------------------------------------------------
NoRequest == [kind |-> "none"]
NoReceipt == 0
NoPolicies == [p \in {} |-> [enabled |-> TRUE, denies |-> {}]]

\* Executor.Evaluate over a list of enabled policies: the first matching deny
\* is final, so an action passes when no policy of the list denies it.
Denied(list) == UNION {list[p].denies : p \in DOMAIN list}

\* The enabled rows of the table.
Enabled == {p \in DOMAIN policies : policies[p].enabled}
EnabledPolicies == [p \in Enabled |-> policies[p]]

Init ==
  /\ policies = NoPolicies
  /\ cache = {}
  /\ polMu = NoClient
  /\ listed = NoPolicies
  /\ listedAt = 0
  /\ keys = [g \in Agents |-> "none"]
  /\ keyCache = [g \in Agents |-> "none"]
  /\ keyMu = NoClient
  /\ appended = 0
  /\ ring = [i \in 0..(RingSize - 1) |-> NoReceipt]
  /\ auditIdx = 0
  /\ auditCount = 0
  /\ life = "up"
  /\ now = 0
  /\ pc = [c \in Clients |-> "idle"]
  /\ req = [c \in Clients |-> NoRequest]
  /\ key = [c \in Clients |-> "none"]
  /\ since = [a \in Actions |-> 0]
  /\ staleFor = [c \in Clients |-> 0]
  /\ events = << >>
  /\ born = 0

\* Mutant of Done: Handle reads the next frame without asking ctx.
Done_NoCtx(c) ==
  /\ pc' = [pc EXCEPT ![c] = "idle"]
  /\ req' = [req EXCEPT ![c] = NoRequest]
  /\ key' = [key EXCEPT ![c] = "none"]
  /\ staleFor' = [staleFor EXCEPT ![c] = 0]

\* The handler is done: Handle returns when the daemon is stopping, and waits
\* for the next frame otherwise.
Done(c) ==
  /\ pc' = [pc EXCEPT ![c] = IF life = "up" THEN "idle" ELSE "closed"]
  /\ req' = [req EXCEPT ![c] = NoRequest]
  /\ key' = [key EXCEPT ![c] = "none"]
  /\ staleFor' = [staleFor EXCEPT ![c] = 0]

-----------------------------------------------------------------------------
(* handleSignAppend.                                                       *)

\* A frame arrives and passes the checks of the handler; one that does not
\* is answered with an error and changes nothing.  ReadFrame does not watch
\* ctx: a connection that waits in it serves one more frame while stopping.
SignAppend(c) ==
  /\ life \in {"up", "stopping"}
  /\ pc[c] = "idle"
  /\ \E a \in Actions, g \in Agents :
       req' = [req EXCEPT ![c] = [kind |-> "sign", action |-> a, agent |-> g]]
  /\ pc' = [pc EXCEPT ![c] = "evaluate"]
  /\ UNCHANGED <<policyVars, keyVars, ringVars, key, staleFor, process, appended, now>>

\* What Evaluate makes of a list: an error frame, or on to the keystore.
Verdict(c, list) ==
  IF req[c].action \in Denied(list)
  THEN Done(c)
  ELSE /\ pc' = [pc EXCEPT ![c] = "load"]
       /\ staleFor' = [staleFor EXCEPT ![c] =
                         IF req[c].action \in Denied(EnabledPolicies)
                         THEN now - since[req[c].action] ELSE 0]
       /\ UNCHANGED <<req, key>>

\* ListEnabled finds a list that has not expired.
Fresh == \E e \in cache : now < e.expiresAt

\* Mutant of EvaluateCached: a hit renews the list.
EvaluateCached_Sliding(c) ==
  /\ pc[c] = "evaluate"
  /\ polMu = NoClient
  /\ Fresh
  /\ \E e \in cache :
       /\ Verdict(c, e.list)
       /\ cache' = {[list |-> e.list, expiresAt |-> now + TTL]}
  /\ UNCHANGED <<policies, polMu, listed, listedAt, since, keyVars, ringVars, process,
                 appended, now>>

EvaluateCached(c) ==
  /\ pc[c] = "evaluate"
  /\ polMu = NoClient
  /\ Fresh
  /\ \E e \in cache : Verdict(c, e.list)
  /\ UNCHANGED <<policyVars, keyVars, ringVars, process, appended, now>>

\* ListEnabled takes the write lock, checks again and reads the table.
ListPolicies(c) ==
  /\ pc[c] = "evaluate"
  /\ polMu = NoClient
  /\ ~Fresh
  /\ polMu' = c
  /\ listed' = EnabledPolicies
  /\ listedAt' = now
  /\ pc' = [pc EXCEPT ![c] = "store"]
  /\ UNCHANGED <<policies, cache, since, keyVars, ringVars, req, key, staleFor, process,
                 appended, now>>

\* Mutant of ListFails: the error return leaves the mutex locked.
ListFails_KeepsLock(c) ==
  /\ pc[c] = "evaluate"
  /\ polMu = NoClient
  /\ ~Fresh
  /\ polMu' = c
  /\ Done(c)
  /\ UNCHANGED <<policies, cache, listed, listedAt, since, keyVars, ringVars, process,
                 appended, now>>

\* The query fails: Evaluate denies, the old list stays in the cache.
ListFails(c) ==
  /\ pc[c] = "evaluate"
  /\ polMu = NoClient
  /\ ~Fresh
  /\ Done(c)
  /\ UNCHANGED <<policyVars, keyVars, ringVars, process, appended, now>>

\* ListEnabled keeps the list for TTL from now on, unlocks and returns it.
CachePolicies(c) ==
  /\ pc[c] = "store"
  /\ cache' = {[list |-> listed, expiresAt |-> now + TTL]}
  /\ polMu' = NoClient
  /\ listed' = NoPolicies
  /\ listedAt' = 0
  /\ Verdict(c, listed)
  /\ UNCHANGED <<policies, since, keyVars, ringVars, process, appended, now>>

\* Keystore.Load, from its cache (an entry may have expired at any time).
LoadCached(c) ==
  /\ pc[c] = "load"
  /\ keyMu = NoClient
  /\ keyCache[req[c].agent] # "none"
  /\ key' = [key EXCEPT ![c] = keyCache[req[c].agent]]
  /\ pc' = [pc EXCEPT ![c] = "append"]
  /\ UNCHANGED <<policyVars, keyVars, ringVars, req, staleFor, process, appended, now>>

LoadFile(c) ==
  /\ pc[c] = "load"
  /\ keyMu = NoClient
  /\ keys[req[c].agent] \in {"full", "public"}
  /\ key' = [key EXCEPT ![c] = keys[req[c].agent]]
  /\ keyCache' = [keyCache EXCEPT ![req[c].agent] = keys[req[c].agent]]
  /\ pc' = [pc EXCEPT ![c] = "append"]
  /\ UNCHANGED <<policyVars, keys, keyMu, ringVars, req, staleFor, process, appended, now>>

\* No such file, or one that does not decrypt.
LoadFails(c) ==
  /\ pc[c] = "load"
  /\ keyMu = NoClient
  /\ keys[req[c].agent] \in {"none", "torn"}
  /\ Done(c)
  /\ UNCHANGED <<policyVars, keyVars, ringVars, process, appended, now>>

\* Chain.AppendNew signs and stores the receipt.
AppendReceipt(c) ==
  /\ pc[c] = "append"
  /\ key[c] = "full"
  /\ appended < MaxAppends
  /\ appended' = appended + 1
  /\ req' = [req EXCEPT ![c] = [kind |-> "receipt", index |-> appended + 1]]
  /\ pc' = [pc EXCEPT ![c] = "reply"]
  /\ UNCHANGED <<policyVars, keyVars, ringVars, key, staleFor, process, now>>

\* Chain.AppendNew refuses it, or its INSERT fails.
AppendFails(c) ==
  /\ pc[c] = "append"
  /\ key[c] = "full"
  /\ Done(c)
  /\ UNCHANGED <<policyVars, keyVars, ringVars, process, appended, now>>

\* writeOK: whether the client is still there makes no difference.
Reply(c) ==
  /\ pc[c] = "reply"
  /\ pc' = [pc EXCEPT ![c] = "after"]
  /\ UNCHANGED <<policyVars, keyVars, ringVars, req, key, staleFor, process, appended, now>>

\* Mutant of AfterAppend: the count of entries runs past the ring.
AfterAppend_CountRuns(c) ==
  /\ pc[c] = "after"
  /\ ring' = [ring EXCEPT ![auditIdx % RingSize] = req[c].index]
  /\ auditIdx' = auditIdx + 1
  /\ auditCount' = auditCount + 1
  /\ events' = Append(events, req[c].index)
  /\ Done(c)
  /\ UNCHANGED <<policyVars, keyVars, process, appended, now>>

\* afterAppend: recordAuditEvent under auditMu; the NDJSON line and the
\* webhook leave no trace in the daemon.
AfterAppend(c) ==
  /\ pc[c] = "after"
  /\ ring' = [ring EXCEPT ![auditIdx % RingSize] = req[c].index]
  /\ auditIdx' = auditIdx + 1
  /\ auditCount' = IF auditCount < RingSize THEN auditCount + 1 ELSE auditCount
  /\ events' = Append(events, req[c].index)
  /\ Done(c)
  /\ UNCHANGED <<policyVars, keyVars, process, appended, now>>

\* Mutant of AuditEvents: the start is one entry late.
AuditEvents_OneLate(limit) ==
  LET asked == IF limit < 1 \/ limit > RingSize THEN DefaultLimit ELSE limit
      n     == IF asked > auditCount THEN auditCount ELSE asked
      start == (auditIdx - n + 1 + RingSize) % RingSize
  IN  [i \in 1..n |-> ring[(start + i - 1) % RingSize]]

\* getAuditEvents.
AuditEvents(limit) ==
  LET asked == IF limit < 1 \/ limit > RingSize THEN DefaultLimit ELSE limit
      n     == IF asked > auditCount THEN auditCount ELSE asked
      start == (auditIdx - n + RingSize) % RingSize
  IN  [i \in 1..n |-> ring[(start + i - 1) % RingSize]]

-----------------------------------------------------------------------------
(* Policies and agents are registered by other connections; each is one    *)
(* SQL statement, or one file written in two steps.                        *)

Rules == [enabled : BOOLEAN, denies : SUBSET Actions]

\* The table becomes `table'; note when an action begins to be denied.
SetPolicies(table) ==
  /\ policies' = table
  /\ since' = [a \in Actions |->
       IF a \notin Denied(EnabledPolicies)' THEN 0
       ELSE IF a \in Denied(EnabledPolicies) THEN since[a] ELSE now]
  /\ UNCHANGED <<cache, polMu, listed, listedAt, keyVars, ringVars, handler, process,
                 appended, now>>

\* handlePolicyRegister: INSERT OR REPLACE.
PolicyRegister ==
  /\ life \in {"up", "stopping"}
  /\ \E p \in Policies, r \in Rules :
       SetPolicies([q \in DOMAIN policies \cup {p} |-> IF q = p THEN r ELSE policies[q]])

\* handlePolicyDelete.
PolicyDelete ==
  /\ life \in {"up", "stopping"}
  /\ \E p \in DOMAIN policies :
       SetPolicies([q \in DOMAIN policies \ {p} |-> policies[q]])

\* Mutant of Register: Save forgets to drop the cached key.
Register_KeepsCache(c) ==
  /\ life \in {"up", "stopping"}
  /\ pc[c] = "idle"
  /\ keyMu = NoClient
  /\ \E g \in Agents, k \in {"full", "public"} :
       /\ k = "full" => keys[g] = "none"
       /\ req' = [req EXCEPT ![c] = [kind |-> "register", agent |-> g, key |-> k]]
       /\ keys' = [keys EXCEPT ![g] = "torn"]
  /\ keyMu' = c
  /\ pc' = [pc EXCEPT ![c] = "save"]
  /\ UNCHANGED <<policyVars, keyCache, ringVars, key, staleFor, process, appended, now>>

\* handleRegister: Save drops the cached key and truncates the file.  Without
\* a public key in the request the key pair, and so the agent, is new; with
\* one the agent may be known already, and no private key is written.
Register(c) ==
  /\ life \in {"up", "stopping"}
  /\ pc[c] = "idle"
  /\ keyMu = NoClient
  /\ \E g \in Agents, k \in {"full", "public"} :
       /\ k = "full" => keys[g] = "none"
       /\ req' = [req EXCEPT ![c] = [kind |-> "register", agent |-> g, key |-> k]]
       /\ keys' = [keys EXCEPT ![g] = "torn"]
       /\ keyCache' = [keyCache EXCEPT ![g] = "none"]
  /\ keyMu' = c
  /\ pc' = [pc EXCEPT ![c] = "save"]
  /\ UNCHANGED <<policyVars, ringVars, key, staleFor, process, appended, now>>

\* The file is written.
SaveKey(c) ==
  /\ pc[c] = "save"
  /\ keys' = [keys EXCEPT ![req[c].agent] = req[c].key]
  /\ keyMu' = NoClient
  /\ Done(c)
  /\ UNCHANGED <<policyVars, keyCache, ringVars, process, appended, now>>

\* The write fails after the file was truncated (when it cannot be opened at
\* all, only the cached key is gone).
SaveFails(c) ==
  /\ pc[c] = "save"
  /\ keyMu' = NoClient
  /\ Done(c)
  /\ UNCHANGED <<policyVars, keys, keyCache, ringVars, process, appended, now>>

-----------------------------------------------------------------------------
(* The process.                                                            *)

\* A signal cancels ctx and closes the listener.
Shutdown ==
  /\ life = "up"
  /\ life' = "stopping"
  /\ UNCHANGED <<policyVars, keyVars, ringVars, handler, born, appended, now>>

\* The read deadline of a waiting connection passes, or its client leaves.
HangUp(c) ==
  /\ life = "stopping"
  /\ pc[c] = "idle"
  /\ pc' = [pc EXCEPT ![c] = "closed"]
  /\ UNCHANGED <<policyVars, keyVars, ringVars, req, key, staleFor, process, appended, now>>

\* Mutant of Stopped: serveListener returns without waiting for the handlers.
Stopped_NoWait ==
  /\ life = "stopping"
  /\ life' = "stopped"
  /\ UNCHANGED <<policyVars, keyVars, ringVars, handler, born, appended, now>>

\* serveListener waits for the handlers, then Run closes the chain.
Stopped ==
  /\ life = "stopping"
  /\ \A c \in Clients : pc[c] = "closed"
  /\ life' = "stopped"
  /\ UNCHANGED <<policyVars, keyVars, ringVars, handler, born, appended, now>>

\* The process is gone: the tables and the key files stay.
Die ==
  /\ life' = "crashed"
  /\ pc' = [c \in Clients |-> "idle"]
  /\ req' = [c \in Clients |-> NoRequest]
  /\ key' = [c \in Clients |-> "none"]
  /\ staleFor' = [c \in Clients |-> 0]
  /\ cache' = {}
  /\ polMu' = NoClient
  /\ listed' = NoPolicies
  /\ listedAt' = 0
  /\ keyCache' = [g \in Agents |-> "none"]
  /\ keyMu' = NoClient
  /\ UNCHANGED <<policies, since, keys, ringVars, born, appended, now>>

Crash == life \in {"up", "stopping"} /\ Die

\* ed25519.Sign panics on the empty private key of an agent registered with
\* its public key only, and nothing recovers.
Panic(c) ==
  /\ pc[c] = "append"
  /\ key[c] = "public"
  /\ Die

\* New and Run, once the lock file of the last process is out of the way.
Start ==
  /\ life \in {"stopped", "crashed"}
  /\ life' = "up"
  /\ cache' = {}
  /\ listed' = NoPolicies
  /\ listedAt' = 0
  /\ keyCache' = [g \in Agents |-> "none"]
  /\ ring' = [i \in 0..(RingSize - 1) |-> NoReceipt]
  /\ auditIdx' = 0
  /\ auditCount' = 0
  /\ events' = << >>
  /\ born' = appended
  /\ pc' = [c \in Clients |-> "idle"]
  /\ UNCHANGED <<policies, polMu, since, keys, keyMu, req, key, staleFor, appended, now>>

\* Time passes; reading the policy table takes no more than Lag.
Tick ==
  /\ now < MaxNow
  /\ polMu # NoClient => now < listedAt + Lag
  /\ now' = now + 1
  /\ UNCHANGED <<policyVars, keyVars, ringVars, handler, process, appended>>

-----------------------------------------------------------------------------
Handle(c) ==
  \/ EvaluateCached(c) \/ ListPolicies(c) \/ ListFails(c) \/ CachePolicies(c)
  \/ LoadCached(c) \/ LoadFile(c) \/ LoadFails(c)
  \/ AppendReceipt(c) \/ AppendFails(c) \/ Panic(c)
  \/ Reply(c) \/ AfterAppend(c)
  \/ SaveKey(c) \/ SaveFails(c)

Next ==
  \/ \E c \in Clients : SignAppend(c) \/ Register(c) \/ Handle(c) \/ HangUp(c)
  \/ PolicyRegister \/ PolicyDelete
  \/ Shutdown \/ Stopped \/ Crash \/ Start \/ Tick

Spec == Init /\ [][Next]_vars

\* A handler inside a request keeps running, and gets a mutex it waits for
\* (sync.Mutex hands over to a waiter that starves); a read deadline passes;
\* Run keeps running too.
FairSpec ==
  /\ Spec
  /\ \A c \in Clients : SF_vars(Handle(c)) /\ WF_vars(HangUp(c))
  /\ WF_vars(Stopped)

-----------------------------------------------------------------------------
(* What must hold.                                                         *)

Places == {"idle", "closed", "evaluate", "store", "load", "append", "reply", "after", "save"}

\* Every variable has the type the code gives it.
TypeOK ==
  /\ DOMAIN policies \subseteq Policies
  /\ \A p \in DOMAIN policies : policies[p] \in Rules
  /\ \A e \in cache : e.expiresAt \in Nat
  /\ polMu \in Clients \cup {NoClient}
  /\ keyMu \in Clients \cup {NoClient}
  /\ keys \in [Agents -> {"none", "torn", "full", "public"}]
  /\ keyCache \in [Agents -> {"none", "full", "public"}]
  /\ appended \in Nat /\ born \in 0..appended
  /\ auditIdx \in Nat /\ auditCount \in 0..RingSize
  /\ life \in {"up", "stopping", "stopped", "crashed"}
  /\ pc \in [Clients -> Places]

\* A policy takes hold in time: when ListEnabled returns a list that lets an
\* action pass which the table denies, the table has denied it for less than
\* the time to live of the cached list plus the time it took to read it.
DenyTakesHold == \A c \in Clients : pc[c] = "load" => staleFor[c] < TTL + Lag

\* Load never returns a key that the file does not hold, whatever was
\* registered in between.
KeyCacheCoherent ==
  \A g \in Agents : keyCache[g] # "none" => keys[g] = keyCache[g]

\* getAuditEvents returns the latest events, oldest first, for every limit.
AuditEventsExact ==
  \A limit \in 1..RingSize :
    AuditEvents(limit) =
      SubSeq(events, IF Len(events) > limit THEN Len(events) - limit + 1 ELSE 1, Len(events))

\* An orderly shutdown drops nothing: every receipt appended by this process
\* has had its audit event when Run returns.
ShutdownDrains ==
  life = "stopped" => {events[i] : i \in 1..Len(events)} = (born + 1)..appended

\* Every request is answered: no handler waits for ever for Store.mu or
\* Keystore.mu, on error paths either.
RequestsEnd == \A c \in Clients : pc[c] \notin {"idle", "closed"} ~> pc[c] \in {"idle", "closed"}

\* A signal stops the daemon: the handlers look at ctx after each request and
\* no connection waits in ReadFrame past its deadline, so wg.Wait returns.
ShutdownEnds == life = "stopping" ~> life # "stopping"
=============================================================================
