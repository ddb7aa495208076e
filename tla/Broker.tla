------------------------------- MODULE Broker -------------------------------
(***************************************************************************)
(* The credential broker of internal/broker: its providers, the cache of   *)
(* issued credentials, the goroutine that revokes each one at its expiry,  *)
(* the daemon's token handlers (internal/daemon/handlers.go) and the       *)
(* Python `with ephemeral_credential(...)` block (sdks/python/ans/         *)
(* broker.py), which requests on entry and revokes on exit.                *)
(*                                                                         *)
(* A call to a provider is one step, and so is each critical section of    *)
(* the cache; everything else may happen in between.  A crash takes the    *)
(* cache and the goroutines; a Python caller lives on inside its block.    *)
(***************************************************************************)
EXTENDS Integers, FiniteSets

CONSTANTS
  Callers,      \* clients, each served by a connection or calling Broker itself
  Ids,          \* what generateRequestID may draw
  NoId,         \* no credential
  Cap,          \* the longest time to live, 60 s
  Floor,        \* the least DurationSeconds of AssumeRole, 900 s
  Providers,    \* the providers this program may register
  MaxProviders, \* bound: providers registered at the same time
  MaxNow        \* bound: readings of the clock

ASSUME BrokerAssumption ==
  /\ NoId \notin Ids
  /\ Providers \subseteq {"env", "dev", "aws-iam", "gcp-iam", "azure-ad", "oauth2", "vault"}
  /\ {"env", "dev"} \subseteq Providers
  /\ Cap \in Nat \ {0}
  /\ Floor \in Nat /\ Floor > Cap
  /\ MaxNow \in Nat

VARIABLES
  now,         \* time.Now()
  registered,  \* Broker.providers
  sts,         \* AWSProvider: initOnce and stsClient
  cache,       \* CredentialCache.creds: id -> credential, or NoCred
  timer,       \* id -> where its scheduleRevocation goroutine is
  closed,      \* Broker.done is closed
  call,        \* caller -> the call it is in
  drawn        \* the ids that were drawn

processVars == <<registered, sts, cache, timer, closed>>
vars == <<now, processVars, call, drawn>>

\* For the properties, a credential also says until when its provider accepts
\* it, whether a RevokeCredential and whether a Revoke of it returned nil.
NoCred == [prov |-> "none", issued |-> 0, expires |-> 0, revoked |-> FALSE,
           until |-> 0, agreed |-> FALSE, told |-> FALSE]
Idle == [pc |-> "idle", prov |-> "none", ttl |-> 0, scoped |-> FALSE, id |-> NoId,
         via |-> "none", until |-> 0]

Cached == {i \in Ids : cache[i].prov # "none"}

-----------------------------------------------------------------------------
(* The providers.  A resource is its scheme, a permission is itself.       *)

Schemes == {"s3", "arn", "gs", "projects", "//", "https", "api", "vault", "plain", ""}
Permissions == {"read", "write", "delete", "list", "get", "put", "post",
                "patch", "update", "create", "*", "other"}

AWSScope(r, m) ==
  r \in {"s3", "arn"} /\ m \in {"read", "write", "delete", "list", "put", "get", "update", "*"}

GCPScope(r, m) ==
  r \in {"gs", "projects", "//"} /\ m \in {"read", "write", "delete", "list", "get", "update", "create", "*"}

AzureScope(r, m) ==
  r \in {"https", "api"} /\ m \in {"read", "write", "delete", "list", "get", "post", "put", "patch", "*"}

VaultScope(r, m) ==
  r = "vault" /\ m \in {"read", "write", "delete", "list", "create", "update", "*"}

\* ValidateScope of provider p; env and dev take anything.
ValidateScope(p, r, m) ==
  CASE p = "aws-iam" -> AWSScope(r, m)
    [] p = "gcp-iam" -> GCPScope(r, m)
    [] p = "azure-ad" -> AzureScope(r, m)
    [] p = "vault" -> VaultScope(r, m)
    [] p = "oauth2" -> r # ""
    [] OTHER -> TRUE

\* What it may answer.
ScopeAnswers == [p \in Providers |-> {ValidateScope(p, r, m) : r \in Schemes, m \in Permissions}]

\* How long the provider accepts what it issues for a request of ttl.
Forever == MaxNow + Floor

EnvLifetimes(ttl) == {Forever}      \* the static keys of the environment
DevLifetimes(ttl) == {0}            \* a made-up secret nobody accepts
AWSLifetimes(ttl) == {IF ttl < Floor THEN Floor ELSE ttl}
GCPLifetimes_Hour(ttl) == {Floor}
GCPLifetimes(ttl) == {ttl}
AzureLifetimes(ttl) == {1, Floor}   \* expires_in is the endpoint's choice,
OAuth2Lifetimes(ttl) == {1, Floor}  \* and the answer's value is not read
VaultLifetimes(ttl) == {ttl}

Lifetimes(p, ttl) ==
  CASE p = "env" -> EnvLifetimes(ttl)
    [] p = "dev" -> DevLifetimes(ttl)
    [] p = "aws-iam" -> AWSLifetimes(ttl)
    [] p = "gcp-iam" -> GCPLifetimes(ttl)
    [] p = "azure-ad" -> AzureLifetimes(ttl)
    [] p = "oauth2" -> OAuth2Lifetimes(ttl)
    [] p = "vault" -> VaultLifetimes(ttl)

\* Whether RevokeCredential returns nil: only Vault's does, without a call to
\* the server; the other six refuse.
RevokeCredential(p) == p = "vault"

-----------------------------------------------------------------------------
\* What the daemon registers; "dev" with ANS_DEV=1 only.
initBroker == {{"env"}, {"env", "dev"}}

Init ==
  /\ now = 0
  /\ registered \in {{}} \cup initBroker
  /\ sts = "fresh"
  /\ cache = [i \in Ids |-> NoCred]
  /\ timer = [i \in Ids |-> "none"]
  /\ closed = FALSE
  /\ call = [c \in Callers |-> Idle]
  /\ drawn = {}

\* A name already registered is an error and changes nothing.
RegisterProvider(p) ==
  /\ p \notin registered
  /\ Cardinality(registered) < MaxProviders
  /\ registered' = registered \cup {p}
  /\ UNCHANGED <<now, sts, cache, timer, closed, call, drawn>>

-----------------------------------------------------------------------------
(* Provision.                                                              *)

ClampTTL_FloorOnly(ttl) == IF ttl <= 0 THEN Cap ELSE ttl

\* "Enforce max TTL of 60 seconds"
ClampTTL(ttl) == IF ttl > Cap \/ ttl <= 0 THEN Cap ELSE ttl

Begin(c, p, ttl, scoped, via) ==
  /\ call[c] = Idle
  /\ call' = [call EXCEPT ![c] = [Idle EXCEPT
       !.pc = "ask", !.prov = p, !.ttl = ClampTTL(ttl), !.scoped = scoped, !.via = via]]
  /\ UNCHANGED <<now, processVars, drawn>>

\* Go code calls Provision with a provider of its choice.
Provision(c, p, ttl) == \E scoped \in ScopeAnswers[p] : Begin(c, p, ttl, scoped, "go")

\* The handler clamps too, and tries "env" first, then "dev".
handleTokenRequest(c, ttl) ==
  Begin(c, "env", IF ttl <= 0 \/ ttl > Cap THEN Cap ELSE ttl, TRUE, "daemon")

\* IdentityBroker.provision asks the daemon; the provider's name is not sent.
provision(c, ttl) == Begin(c, "env", IF ttl > Cap THEN Cap ELSE ttl, TRUE, "python")

\* ephemeral_credential.__enter__
EnterBlock(c, ttl) == provision(c, ttl)

\* ProvisionCredential: the provider issues the credential.  The first use of
\* AWS makes its client.
ProviderIssues(c) ==
  LET p == call[c].prov IN
  /\ call[c].pc = "ask"
  /\ p \in registered
  /\ call[c].scoped
  /\ p = "aws-iam" => sts # "broken"
  /\ \E i \in Ids \ drawn, l \in Lifetimes(p, call[c].ttl) :
       /\ drawn' = drawn \cup {i}
       /\ call' = [call EXCEPT ![c] = [@ EXCEPT !.pc = "store", !.id = i, !.until = now + l]]
  /\ sts' = IF p = "aws-iam" THEN "ready" ELSE sts
  /\ UNCHANGED <<now, registered, cache, timer, closed>>

\* Unknown provider, scope refused, or the provider fails.  The handler goes
\* on with "dev"; every other caller gets the error.
NextProvider(c) ==
  IF call[c].via # "go" /\ call[c].prov = "env"
  THEN [call EXCEPT ![c] = [@ EXCEPT !.prov = "dev"]]
  ELSE [call EXCEPT ![c] = Idle]

ProvisionFails(c) ==
  /\ call[c].pc = "ask"
  /\ call' = NextProvider(c)
  /\ UNCHANGED <<now, processVars, drawn>>

\* LoadDefaultConfig fails inside initOnce: the error is returned once.
AWSInitFails(c) ==
  /\ call[c].pc = "ask"
  /\ call[c].prov = "aws-iam" /\ call[c].scoped
  /\ "aws-iam" \in registered
  /\ sts = "fresh"
  /\ sts' = "broken"
  /\ call' = NextProvider(c)
  /\ UNCHANGED <<now, registered, cache, timer, closed, drawn>>

\* The answer is dated with the clock as it is now, cached, and its
\* goroutine started.  A Python caller runs the body of its block.
Store(c) ==
  LET i == call[c].id IN
  /\ call[c].pc = "store"
  /\ cache' = [cache EXCEPT ![i] = [NoCred EXCEPT
       !.prov = call[c].prov, !.issued = now, !.expires = now + call[c].ttl, !.until = call[c].until]]
  /\ timer' = [timer EXCEPT ![i] = "start"]
  /\ call' = [call EXCEPT ![c] = IF @.via = "python" THEN [Idle EXCEPT !.pc = "inside", !.id = i] ELSE Idle]
  /\ UNCHANGED <<now, registered, sts, closed, drawn>>

-----------------------------------------------------------------------------
(* Revoke, called by a handler, by Go code or by a timer.                  *)

\* An id the cache does not hold is an error reply.
handleTokenRevoke(c, i) ==
  /\ call[c] = Idle
  /\ i \in Cached
  /\ call' = [call EXCEPT ![c] = [Idle EXCEPT !.pc = "revoke", !.id = i]]
  /\ UNCHANGED <<now, processVars, drawn>>

\* __exit__: whatever the revocation raises is dropped.
ExitBlock(c) ==
  LET i == call[c].id IN
  /\ call[c].pc = "inside"
  /\ call' = [call EXCEPT ![c] = IF i \in Cached
                                 THEN [Idle EXCEPT !.pc = "revoke", !.id = i]
                                 ELSE Idle]
  /\ UNCHANGED <<now, processVars, drawn>>

ProviderRevokes(c) ==
  /\ call[c].pc = "revoke"
  /\ RevokeCredential(cache[call[c].id].prov)
  /\ cache' = [cache EXCEPT ![call[c].id] = [@ EXCEPT !.agreed = TRUE]]
  /\ call' = [call EXCEPT ![c] = [@ EXCEPT !.pc = "mark"]]
  /\ UNCHANGED <<now, registered, sts, timer, closed, drawn>>

RevokeFails_Marked(c) ==
  /\ call[c].pc = "revoke"
  /\ ~ RevokeCredential(cache[call[c].id].prov)
  /\ cache' = [cache EXCEPT ![call[c].id].revoked = TRUE]
  /\ call' = [call EXCEPT ![c] = Idle]
  /\ UNCHANGED <<now, registered, sts, timer, closed, drawn>>

\* The provider refuses: the cache is left alone.
RevokeFails(c) ==
  /\ call[c].pc = "revoke"
  /\ ~ RevokeCredential(cache[call[c].id].prov)
  /\ call' = [call EXCEPT ![c] = Idle]
  /\ UNCHANGED <<now, processVars, drawn>>

MarkRevoked(c) ==
  /\ call[c].pc = "mark"
  /\ cache' = [cache EXCEPT ![call[c].id] = [@ EXCEPT !.revoked = TRUE, !.told = TRUE]]
  /\ call' = [call EXCEPT ![c] = Idle]
  /\ UNCHANGED <<now, registered, sts, timer, closed, drawn>>

-----------------------------------------------------------------------------
(* scheduleRevocation.                                                     *)

\* A goroutine that comes too late gives up; one that is in time waits.
TimerStarts(i) ==
  /\ timer[i] = "start"
  /\ timer' = [timer EXCEPT ![i] = IF now >= cache[i].expires THEN "gone" ELSE "waiting"]
  /\ UNCHANGED <<now, registered, sts, cache, closed, call, drawn>>

TimerStops_Never(i) == FALSE /\ UNCHANGED vars

\* <-b.done
TimerStops(i) ==
  /\ timer[i] = "waiting"
  /\ closed
  /\ timer' = [timer EXCEPT ![i] = "gone"]
  /\ UNCHANGED <<now, registered, sts, cache, closed, call, drawn>>

TimerFires_Early(i) ==
  /\ timer[i] = "waiting"
  /\ now + 1 >= cache[i].expires
  /\ timer' = [timer EXCEPT ![i] = "revoke"]
  /\ UNCHANGED <<now, registered, sts, cache, closed, call, drawn>>

\* <-time.After(ttl); the credential is still cached.
TimerFires(i) ==
  /\ timer[i] = "waiting"
  /\ now >= cache[i].expires
  /\ timer' = [timer EXCEPT ![i] = "revoke"]
  /\ UNCHANGED <<now, registered, sts, cache, closed, call, drawn>>

\* One attempt: a failure is logged.
TimerRevokes(i) ==
  /\ timer[i] = "revoke"
  /\ \/ /\ RevokeCredential(cache[i].prov)
        /\ cache' = [cache EXCEPT ![i] = [@ EXCEPT !.agreed = TRUE]]
        /\ timer' = [timer EXCEPT ![i] = "mark"]
     \/ /\ ~ RevokeCredential(cache[i].prov)
        /\ timer' = [timer EXCEPT ![i] = "gone"]
        /\ UNCHANGED cache
  /\ UNCHANGED <<now, registered, sts, closed, call, drawn>>

TimerMarks(i) ==
  /\ timer[i] = "mark"
  /\ cache' = [cache EXCEPT ![i] = [@ EXCEPT !.revoked = TRUE]]
  /\ timer' = [timer EXCEPT ![i] = "gone"]
  /\ UNCHANGED <<now, registered, sts, closed, call, drawn>>

Timer(i) ==
  TimerStarts(i) \/ TimerStops(i) \/ TimerFires(i) \/ TimerRevokes(i) \/ TimerMarks(i)

-----------------------------------------------------------------------------
\* A second Close would close a closed channel.
Close ==
  /\ ~ closed
  /\ closed' = TRUE
  /\ UNCHANGED <<now, registered, sts, cache, timer, call, drawn>>

\* The process ends and is started again, registering what it did before.
Ends ==
  /\ sts' = "fresh"
  /\ cache' = [i \in Ids |-> NoCred]
  /\ timer' = [i \in Ids |-> "none"]
  /\ closed' = FALSE
  /\ call' = [c \in Callers |-> IF call[c].pc = "inside" THEN call[c] ELSE Idle]
  /\ UNCHANGED <<now, registered, drawn>>

Crash == Ends

\* AssumeRole on the client that initOnce did not make: a nil interface.
AWSPanics(c) ==
  /\ call[c].pc = "ask"
  /\ call[c].prov = "aws-iam" /\ call[c].scoped
  /\ "aws-iam" \in registered
  /\ sts = "broken"
  /\ Ends

Tick ==
  /\ now < MaxNow
  /\ now' = now + 1
  /\ UNCHANGED <<processVars, call, drawn>>

Call(c) ==
  \/ \E ttl \in -1..(Cap + 1) :
       \/ handleTokenRequest(c, ttl)
       \/ EnterBlock(c, ttl)
       \/ \E p \in Providers : Provision(c, p, ttl)
  \/ ProviderIssues(c) \/ ProvisionFails(c) \/ AWSInitFails(c) \/ AWSPanics(c)
  \/ Store(c)
  \/ \E i \in Ids : handleTokenRevoke(c, i)
  \/ ExitBlock(c)
  \/ ProviderRevokes(c) \/ RevokeFails(c) \/ MarkRevoked(c)

Next ==
  \/ \E c \in Callers : Call(c)
  \/ \E i \in Ids : Timer(i)
  \/ \E p \in Providers : RegisterProvider(p)
  \/ Close \/ Crash \/ Tick

Spec == Init /\ [][Next]_vars

\* The scheduler runs every timer goroutine that can go on.
FairSpec == Spec /\ \A i \in Ids : WF_vars(Timer(i))

-----------------------------------------------------------------------------
\* CredentialCache.ListActive, what handleTokenList answers.
ListActive == {i \in Cached : ~ cache[i].revoked /\ now < cache[i].expires}

-----------------------------------------------------------------------------
(* A credential is listed for sixty seconds at most, whatever time to live *)
(* a handler, a Python caller or Go code asked for, zero and negative ones *)
(* included, and however long the provider took to answer.                 *)
ListedWithinCap == \A i \in ListActive : now < cache[i].issued + Cap

(* A revocation is told truly: one that was reported as done keeps the     *)
(* credential from the list, and before its expiry a credential leaves the *)
(* list only because its provider agreed, however requests, the timer and  *)
(* failing calls interleave.                                               *)
RevocationTold ==
  \A i \in Cached :
    /\ cache[i].told => i \notin ListActive
    /\ now < cache[i].expires /\ i \notin ListActive => cache[i].agreed

(* At a provider that keeps to the time to live it is given, a credential  *)
(* has lapsed when the broker takes it from the list, however long the     *)
(* answer was under way.                                                   *)
LapsesByExpiry ==
  \A i \in Cached : cache[i].prov \in {"gcp-iam", "vault"} => cache[i].until <= cache[i].expires

(* Until the broker is closed, every listed credential has a goroutine     *)
(* that will revoke it at its expiry and has not yet tried.                *)
RevocationScheduled ==
  \A i \in ListActive : closed \/ timer[i] \in {"start", "waiting"}

(* Close stops the pending goroutines: once closed, each one comes to its  *)
(* end, those started later included.                                      *)
TimersEnd ==
  \A i \in Ids : (closed /\ timer[i] # "none") ~> (timer[i] \in {"none", "gone"})
=============================================================================
