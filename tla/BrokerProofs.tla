---------------------------- MODULE BrokerProofs ----------------------------
(***************************************************************************)
(* What Broker promises, for any number of callers and credentials, any    *)
(* cap on the time to live and any bounds.                                 *)
(***************************************************************************)
EXTENDS Broker, TLAPS

Names == Providers \cup {"none"}
Credential == [prov : Names, issued : Nat, expires : Nat, revoked : BOOLEAN,
               until : Nat, agreed : BOOLEAN, told : BOOLEAN]
PCs == {"idle", "ask", "store", "inside", "revoke", "mark"}
CallState == [pc : PCs, prov : Names, ttl : Nat, scoped : BOOLEAN, id : Ids \cup {NoId},
              via : {"none", "go", "daemon", "python"}, until : Nat]

Types ==
  /\ now \in Nat
  /\ cache \in [Ids -> Credential]
  /\ timer \in [Ids -> {"none", "start", "waiting", "revoke", "mark", "gone"}]
  /\ closed \in BOOLEAN
  /\ call \in [Callers -> CallState]
  /\ drawn \in SUBSET Ids

\* Providers that keep to the time to live they are given.
Keeps(p) == p \in {"gcp-iam", "vault"}

\* A credential, its history and its goroutine.
CredOK(i) == LET r == cache[i] IN
  /\ r.prov # "none" => i \in drawn
  /\ r.expires <= r.issued + Cap
  /\ Keeps(r.prov) => r.until <= r.expires
  /\ r.revoked => r.agreed
  /\ r.told => r.revoked
  /\ timer[i] = "mark" => r.agreed
  /\ now < r.expires /\ ~ closed => timer[i] \in {"start", "waiting"}

\* A call of Provision or Revoke.
CallFits(r) ==
  /\ r.pc \in {"ask", "store"} => r.prov \in Providers /\ 1 <= r.ttl /\ r.ttl <= Cap
  /\ r.pc = "store" =>
       /\ r.id \in drawn
       /\ cache[r.id].prov = "none"
       /\ Keeps(r.prov) => r.until <= now + r.ttl
  /\ r.pc \in {"revoke", "mark"} => r.id \in Ids /\ cache[r.id].prov # "none"
  /\ r.pc = "mark" => cache[r.id].agreed

\* Two calls never carry the same new credential.
Apart(c, d) ==
  c # d /\ call[c].pc = "store" /\ call[d].pc = "store" => call[c].id # call[d].id

\* The inductive invariant.
Inv ==
  /\ Types
  /\ \A i \in Ids : CredOK(i)
  /\ \A c \in Callers : CallFits(call[c])
  /\ \A c, d \in Callers : Apart(c, d)
-----------------------------------------------------------------------------
(* The records.                                                            *)

LEMMA ProviderNames == "env" \in Providers /\ "dev" \in Providers /\ "none" \notin Providers
  BY SMTT(30), BrokerAssumption

LEMMA NoCredIsCredential == NoCred \in Credential
  BY SMTT(30) DEF NoCred, Credential, Names

LEMMA IdleIsCall == Idle \in CallState
  BY SMTT(30) DEF Idle, CallState, Names, PCs

\* What Revoke, a goroutine and Store make of a credential.
LEMMA CredUpdates ==
  ASSUME NEW r \in Credential
  PROVE  /\ [r EXCEPT !.agreed = TRUE] \in Credential
         /\ [r EXCEPT !.revoked = TRUE] \in Credential
         /\ [r EXCEPT !.revoked = TRUE, !.told = TRUE] \in Credential
         /\ \A p \in Names, n \in Nat, e \in Nat, u \in Nat :
              [r EXCEPT !.prov = p, !.issued = n, !.expires = e, !.until = u] \in Credential
  <1>1. [r EXCEPT !.agreed = TRUE] \in Credential
    BY ZenonT(30) DEF Credential
  <1>2. [r EXCEPT !.revoked = TRUE] \in Credential
    BY ZenonT(30) DEF Credential
  <1>3. [r EXCEPT !.revoked = TRUE, !.told = TRUE] \in Credential
    BY ZenonT(30) DEF Credential
  <1>4. ASSUME NEW p \in Names, NEW n \in Nat, NEW e \in Nat, NEW u \in Nat
        PROVE  [r EXCEPT !.prov = p, !.issued = n, !.expires = e, !.until = u] \in Credential
    BY ZenonT(30) DEF Credential
  <1> QED BY ZenonT(30), <1>1, <1>2, <1>3, <1>4

\* What the steps of a call make of it.
LEMMA CallUpdates ==
  ASSUME NEW r \in CallState
  PROVE  /\ [r EXCEPT !.pc = "mark"] \in CallState
         /\ [r EXCEPT !.prov = "dev"] \in CallState
         /\ \A i \in Ids : /\ [r EXCEPT !.pc = "revoke", !.id = i] \in CallState
                           /\ [r EXCEPT !.pc = "inside", !.id = i] \in CallState
         /\ \A i \in Ids, u \in Nat : [r EXCEPT !.pc = "store", !.id = i, !.until = u] \in CallState
         /\ \A p \in Names, t \in Nat, b \in BOOLEAN, v \in {"none", "go", "daemon", "python"} :
              [r EXCEPT !.pc = "ask", !.prov = p, !.ttl = t, !.scoped = b, !.via = v] \in CallState
  <1>0. {"mark", "revoke", "inside", "store", "ask"} \subseteq PCs /\ "dev" \in Names
    BY SMTT(30), ProviderNames DEF PCs, Names
  <1>1. [r EXCEPT !.pc = "mark"] \in CallState
    BY ZenonT(30), <1>0 DEF CallState
  <1>2. [r EXCEPT !.prov = "dev"] \in CallState
    BY ZenonT(30), <1>0 DEF CallState
  <1>3. ASSUME NEW i \in Ids PROVE [r EXCEPT !.pc = "revoke", !.id = i] \in CallState
    BY ZenonT(30), <1>0 DEF CallState
  <1>4. ASSUME NEW i \in Ids PROVE [r EXCEPT !.pc = "inside", !.id = i] \in CallState
    BY ZenonT(30), <1>0 DEF CallState
  <1>5. ASSUME NEW i \in Ids, NEW u \in Nat
        PROVE  [r EXCEPT !.pc = "store", !.id = i, !.until = u] \in CallState
    BY ZenonT(30), <1>0 DEF CallState
  <1>6. ASSUME NEW p \in Names, NEW t \in Nat, NEW b \in BOOLEAN,
               NEW v \in {"none", "go", "daemon", "python"}
        PROVE  [r EXCEPT !.pc = "ask", !.prov = p, !.ttl = t, !.scoped = b, !.via = v] \in CallState
    BY ZenonT(30), <1>0 DEF CallState
  <1> QED BY ZenonT(30), <1>1, <1>2, <1>3, <1>4, <1>5, <1>6

-----------------------------------------------------------------------------
(* What a step leaves alone.                                               *)

\* A call stays fit while credentials keep their provider and what it said.
LEMMA FitsStay ==
  ASSUME Types, NEW r \in CallState, CallFits(r), now' \in Nat, now <= now', drawn \subseteq drawn',
         \A i \in Ids : cache'[i].prov = cache[i].prov /\ (cache[i].agreed => cache'[i].agreed)
  PROVE  CallFits(r)'
  <1>1. r.ttl \in Nat /\ r.until \in Nat /\ now \in Nat /\ drawn \subseteq Ids
    BY SMTT(30) DEF Types, CallState
  <1>2. r.until <= now + r.ttl => r.until <= now' + r.ttl
    BY SMTT(30), <1>1
  <1> QED BY ZenonT(30), <1>1, <1>2 DEF CallFits, Keeps

\* Two calls stay apart when one moves and carries no new credential.
LEMMA ApartStay ==
  ASSUME Inv, NEW c \in Callers, NEW r \in CallState, r.pc # "store",
         call' = [call EXCEPT ![c] = r]
  PROVE  \A d, e \in Callers : Apart(d, e)'
  <1>1. /\ \A d, e \in Callers : Apart(d, e)
        /\ \A d \in Callers : call'[d] = IF d = c THEN r ELSE call[d]
    BY SMTT(30) DEF Inv, Types
  <1>2. ASSUME NEW d \in Callers, NEW e \in Callers PROVE Apart(d, e)'
    <2>1. CASE d = c
      BY ZenonT(30), <2>1, <1>1 DEF Apart
    <2>2. CASE e = c
      BY ZenonT(30), <2>2, <1>1 DEF Apart
    <2>3. CASE d # c /\ e # c
      <3>1. call'[d] = call[d] /\ call'[e] = call[e] /\ Apart(d, e)
        BY SMTT(30), <2>3, <1>1
      <3> QED BY ZenonT(30), <3>1 DEF Apart
    <2> QED BY ZenonT(30), <2>1, <2>2, <2>3
  <1> QED BY ZenonT(30), <1>2

\* A step of a call that changes nothing else.
LEMMA CallChange ==
  ASSUME Inv, NEW c \in Callers, NEW r \in CallState, r.pc # "store", CallFits(r),
         call' = [call EXCEPT ![c] = r],
         now' = now, cache' = cache, timer' = timer, closed' = closed, drawn' = drawn
  PROVE  Inv'
  <1>1. /\ call \in [Callers -> CallState] /\ Types
        /\ \A d \in Callers : CallFits(call[d])
        /\ \A i \in Ids : CredOK(i)
    BY ZenonT(30) DEF Inv, Types
  <1>2. /\ call' \in [Callers -> CallState]
        /\ \A d \in Callers : call'[d] = IF d = c THEN r ELSE call[d]
    BY SMTT(30), <1>1
  <1>3. Types'
    BY ZenonT(30), <1>1, <1>2 DEF Types
  <1>4. ASSUME NEW i \in Ids PROVE CredOK(i)'
    BY ZenonT(30), <1>1 DEF CredOK, Keeps
  <1>5. ASSUME NEW q \in CallState, CallFits(q) PROVE CallFits(q)'
    BY ZenonT(30), <1>5 DEF CallFits, Keeps
  <1>6. ASSUME NEW d \in Callers PROVE CallFits(call[d])'
    BY ZenonT(30), <1>1, <1>2, <1>5
  <1>7. \A d, e \in Callers : Apart(d, e)'
    BY ZenonT(30), ApartStay
  <1> QED BY ZenonT(30), <1>3, <1>4, <1>6, <1>7 DEF Inv

\* A step of a call that marks one credential.
LEMMA MarkChange ==
  ASSUME Inv, NEW c \in Callers, NEW r \in CallState, r.pc # "store",
         NEW i \in Ids, NEW k \in Credential,
         k.prov = cache[i].prov, k.issued = cache[i].issued, k.expires = cache[i].expires,
         k.until = cache[i].until, k.agreed, k.told => k.revoked,
         call' = [call EXCEPT ![c] = r], cache' = [cache EXCEPT ![i] = k], CallFits(r)',
         now' = now, timer' = timer, closed' = closed, drawn' = drawn
  PROVE  Inv'
  <1>1. /\ Types /\ call \in [Callers -> CallState] /\ cache \in [Ids -> Credential] /\ now \in Nat
        /\ \A d \in Callers : CallFits(call[d])
        /\ \A j \in Ids : CredOK(j)
    BY ZenonT(30) DEF Inv, Types
  <1>2. /\ call' \in [Callers -> CallState] /\ cache' \in [Ids -> Credential]
        /\ \A d \in Callers : call'[d] = IF d = c THEN r ELSE call[d]
        /\ \A j \in Ids : cache'[j] = IF j = i THEN k ELSE cache[j]
    BY SMTT(30), <1>1
  <1>3. Types'
    BY ZenonT(30), <1>1, <1>2 DEF Types
  <1>4. ASSUME NEW j \in Ids PROVE CredOK(j)'
    BY ZenonT(30), <1>1, <1>2 DEF CredOK, Keeps
  <1>5. now <= now' /\ drawn \subseteq drawn' /\ now' \in Nat
    BY SMTT(30), <1>1
  <1>6. \A j \in Ids : cache'[j].prov = cache[j].prov /\ (cache[j].agreed => cache'[j].agreed)
    BY ZenonT(30), <1>2
  <1>7. ASSUME NEW d \in Callers PROVE CallFits(call[d])'
    <2>1. CASE d = c
      BY ZenonT(30), <2>1, <1>2 DEF CallFits, Keeps
    <2>2. CASE d # c
      <3>1. call'[d] = call[d] /\ call[d] \in CallState
        BY SMTT(30), <2>2, <1>1, <1>2
      <3> DEFINE q == call[d]
      <3>2. CallFits(q) /\ q \in CallState
        BY ZenonT(30), <1>1, <3>1
      <3>3. ASSUME NEW x \in CallState, CallFits(x) PROVE CallFits(x)'
        BY ZenonT(30), <3>3, <1>1, <1>5, <1>6, FitsStay
      <3> QED BY ZenonT(30), <3>1, <3>2, <3>3
    <2> QED BY ZenonT(30), <2>1, <2>2
  <1>8. \A d, e \in Callers : Apart(d, e)'
    BY ZenonT(30), ApartStay
  <1> QED BY ZenonT(30), <1>3, <1>4, <1>7, <1>8 DEF Inv

\* A step of a credential's goroutine, which may mark it.
LEMMA TimerChange ==
  ASSUME Inv, NEW i \in Ids, NEW k \in Credential,
         NEW w \in {"waiting", "revoke", "mark", "gone"},
         k.prov = cache[i].prov, k.issued = cache[i].issued, k.expires = cache[i].expires,
         k.until = cache[i].until, k.revoked => k.agreed, k.told => k.revoked,
         cache[i].agreed => k.agreed, w = "mark" => k.agreed,
         now < k.expires /\ ~ closed => w = "waiting",
         timer' = [timer EXCEPT ![i] = w], cache' = [cache EXCEPT ![i] = k],
         now' = now, call' = call, closed' = closed, drawn' = drawn
  PROVE  Inv'
  <1> DEFINE TimerPCs == {"none", "start", "waiting", "revoke", "mark", "gone"}
  <1>1. /\ Types /\ timer \in [Ids -> TimerPCs] /\ cache \in [Ids -> Credential] /\ now \in Nat
        /\ call \in [Callers -> CallState]
        /\ \A d \in Callers : CallFits(call[d])
        /\ \A j \in Ids : CredOK(j)
    BY ZenonT(30) DEF Inv, Types
  <1>2. /\ timer' \in [Ids -> TimerPCs] /\ cache' \in [Ids -> Credential]
        /\ \A j \in Ids : timer'[j] = IF j = i THEN w ELSE timer[j]
        /\ \A j \in Ids : cache'[j] = IF j = i THEN k ELSE cache[j]
    BY SMTT(30), <1>1
  <1>3. Types'
    BY ZenonT(30), <1>1, <1>2 DEF Types
  <1>4. ASSUME NEW j \in Ids PROVE CredOK(j)'
    BY ZenonT(30), <1>1, <1>2 DEF CredOK, Keeps
  <1>5. now <= now' /\ drawn \subseteq drawn' /\ now' \in Nat
    BY SMTT(30), <1>1
  <1>6. \A j \in Ids : cache'[j].prov = cache[j].prov /\ (cache[j].agreed => cache'[j].agreed)
    BY ZenonT(30), <1>2
  <1>7. ASSUME NEW d \in Callers PROVE CallFits(call[d])'
    <2>1. call'[d] = call[d] /\ call[d] \in CallState
      BY ZenonT(30), <1>1
    <2>2. ASSUME NEW x \in CallState, CallFits(x) PROVE CallFits(x)'
      BY ZenonT(30), <2>2, <1>1, <1>5, <1>6, FitsStay
    <2> QED BY ZenonT(30), <1>1, <2>1, <2>2
  <1>8. \A d, e \in Callers : Apart(d, e)'
    BY ZenonT(30) DEF Inv, Apart
  <1> QED BY ZenonT(30), <1>3, <1>4, <1>7, <1>8 DEF Inv
-----------------------------------------------------------------------------
(* The initial state and the steps.                                        *)

LEMMA InitInv == ASSUME Init PROVE Inv
  <1>1. Types
    <2>1. /\ now = 0 /\ cache = [i \in Ids |-> NoCred] /\ timer = [i \in Ids |-> "none"]
          /\ closed = FALSE /\ call = [c \in Callers |-> Idle] /\ drawn = {}
      BY ZenonT(30) DEF Init
    <2>2. cache \in [Ids -> Credential] /\ call \in [Callers -> CallState]
      BY ZenonT(30), <2>1, NoCredIsCredential, IdleIsCall
    <2>3. 0 \in Nat
      BY SMTT(30)
    <2>4. /\ now \in Nat /\ closed \in BOOLEAN /\ drawn \in SUBSET Ids
          /\ timer \in [Ids -> {"none", "start", "waiting", "revoke", "mark", "gone"}]
      BY ZenonT(30), <2>1, <2>3
    <2> QED BY ZenonT(30), <2>2, <2>4 DEF Types
  <1>2. ASSUME NEW i \in Ids PROVE CredOK(i)
    BY SMTT(30), BrokerAssumption DEF Init, CredOK, Keeps, NoCred
  <1>3. ASSUME NEW c \in Callers PROVE call[c].pc = "idle"
    BY SMTT(30) DEF Init, Idle
  <1>4. ASSUME NEW c \in Callers PROVE CallFits(call[c])
    BY SMTT(30), <1>3 DEF CallFits
  <1>5. \A c, d \in Callers : Apart(c, d)
    BY SMTT(30), <1>3 DEF Apart
  <1> QED BY ZenonT(30), <1>1, <1>2, <1>4, <1>5 DEF Inv

\* A caller without a call fits whatever the cache holds.
LEMMA IdleFits == CallFits(Idle) /\ Idle.pc # "store"
  BY SMTT(30) DEF CallFits, Idle

LEMMA IdleFitsNext == CallFits(Idle)'
  BY SMTT(30) DEF CallFits, Idle

LEMMA BeginInv ==
  ASSUME NEW c \in Callers, NEW p \in Providers, NEW ttl \in Int, NEW scoped \in BOOLEAN,
         NEW via \in {"go", "daemon", "python"}, Inv, Begin(c, p, ttl, scoped, via)
  PROVE  Inv'
  <1> DEFINE t == ClampTTL(ttl)
             r == [Idle EXCEPT !.pc = "ask", !.prov = p, !.ttl = t, !.scoped = scoped, !.via = via]
  <1>1. /\ call' = [call EXCEPT ![c] = r]
        /\ now' = now /\ cache' = cache /\ timer' = timer /\ closed' = closed /\ drawn' = drawn
    BY ZenonT(30) DEF Begin, processVars
  <1>2. t \in Nat /\ 1 <= t /\ t <= Cap
    BY SMTT(30), BrokerAssumption DEF ClampTTL
  <1> HIDE DEF t
  <1>3. p \in Names /\ via \in {"none", "go", "daemon", "python"}
    BY SMTT(30) DEF Names
  <1>4. r \in CallState
    BY ZenonT(30), <1>2, <1>3, IdleIsCall, CallUpdates
  <1>5. r.pc = "ask" /\ r.prov = p /\ r.ttl = t
    BY ZenonT(30), IdleIsCall DEF CallState
  <1> HIDE DEF r
  <1>6. CallFits(r) /\ r.pc # "store"
    BY SMTT(30), <1>2, <1>5 DEF CallFits
  <1> QED BY ZenonT(30), <1>1, <1>4, <1>6, CallChange

\* Every lifetime is a number, and a provider that keeps to the time to live
\* it is given has no other.
LEMMA LifetimesFit ==
  ASSUME NEW p \in Providers, NEW t \in Nat, NEW l \in Lifetimes(p, t)
  PROVE  l \in Nat /\ (Keeps(p) => l = t)
  <1> USE BrokerAssumption
  <1>1. p \in {"env", "dev", "aws-iam", "gcp-iam", "azure-ad", "oauth2", "vault"}
    BY ZenonT(30)
  <1>2. CASE p = "env"
    BY SMTT(30), <1>2 DEF Lifetimes, EnvLifetimes, Forever, Keeps
  <1>3. CASE p = "dev"
    BY SMTT(30), <1>3 DEF Lifetimes, DevLifetimes, Keeps
  <1>4. CASE p = "aws-iam"
    BY SMTT(30), <1>4 DEF Lifetimes, AWSLifetimes, Keeps
  <1>5. CASE p = "gcp-iam"
    BY SMTT(30), <1>5 DEF Lifetimes, GCPLifetimes, Keeps
  <1>6. CASE p = "azure-ad"
    BY SMTT(30), <1>6 DEF Lifetimes, AzureLifetimes, Keeps
  <1>7. CASE p = "oauth2"
    BY SMTT(30), <1>7 DEF Lifetimes, OAuth2Lifetimes, Keeps
  <1>8. CASE p = "vault"
    BY SMTT(30), <1>8 DEF Lifetimes, VaultLifetimes, Keeps
  <1> QED BY ZenonT(30), <1>1, <1>2, <1>3, <1>4, <1>5, <1>6, <1>7, <1>8

LEMMA ProviderIssuesInv ==
  ASSUME NEW c \in Callers, Inv, ProviderIssues(c)
  PROVE  Inv'
  <1> DEFINE b == call[c]
  <1>1. PICK i \in Ids \ drawn, l \in Lifetimes(b.prov, b.ttl) :
          /\ drawn' = drawn \cup {i}
          /\ call' = [call EXCEPT ![c] = [b EXCEPT !.pc = "store", !.id = i, !.until = now + l]]
    BY ZenonT(30) DEF ProviderIssues
  <1>2. /\ b.pc = "ask"
        /\ now' = now /\ cache' = cache /\ timer' = timer /\ closed' = closed
    BY ZenonT(30) DEF ProviderIssues
  <1>3. /\ Types /\ call \in [Callers -> CallState] /\ now \in Nat /\ drawn \subseteq Ids
        /\ b \in CallState /\ CallFits(b)
        /\ \A d \in Callers : call[d] \in CallState /\ CallFits(call[d])
        /\ \A j \in Ids : CredOK(j)
    BY SMTT(30) DEF Inv, Types
  <1>4. b.prov \in Providers /\ 1 <= b.ttl /\ b.ttl <= Cap /\ b.ttl \in Nat
    BY SMTT(30), <1>2, <1>3 DEF CallFits, CallState
  <1>5. l \in Nat /\ (Keeps(b.prov) => l = b.ttl)
    BY ZenonT(30), <1>4, LifetimesFit
  <1>6. now + l \in Nat /\ (Keeps(b.prov) => now + l <= now + b.ttl)
    BY SMTT(30), <1>3, <1>4, <1>5
  <1> DEFINE u == now + l
             r == [b EXCEPT !.pc = "store", !.id = i, !.until = u]
  <1>7. call' = [call EXCEPT ![c] = r]
    BY ZenonT(30), <1>1
  <1>8. u \in Nat /\ (Keeps(b.prov) => u <= now + b.ttl)
    BY ZenonT(30), <1>6
  <1> HIDE DEF u
  <1>9. r \in CallState
    BY ZenonT(30), <1>3, <1>8, CallUpdates
  <1>10. /\ r.pc = "store" /\ r.id = i /\ r.until = u
         /\ r.prov = b.prov /\ r.ttl = b.ttl
    BY ZenonT(30), <1>3 DEF CallState
  <1> HIDE DEF r, b
  <1>11. /\ call' \in [Callers -> CallState] /\ drawn' \in SUBSET Ids
         /\ \A d \in Callers : call'[d] = IF d = c THEN r ELSE call[d]
    BY SMTT(30), <1>1, <1>3, <1>7, <1>9
  <1>12. Types'
    BY ZenonT(30), <1>2, <1>3, <1>11 DEF Types
  <1>13. ASSUME NEW j \in Ids PROVE CredOK(j)'
    BY ZenonT(30), <1>1, <1>2, <1>3 DEF CredOK, Keeps
  <1>14. i \in Ids /\ i \notin drawn /\ i \in drawn' /\ cache[i].prov = "none"
    BY ZenonT(30), <1>1, <1>3 DEF CredOK
  <1>15. ASSUME NEW d \in Callers PROVE CallFits(call[d])'
    <2>1. CASE d = c
      <3>1. call'[d] = r
        BY ZenonT(30), <2>1, <1>11
      <3> QED BY SMTT(30), <3>1, <1>2, <1>4, <1>8, <1>10, <1>14 DEF CallFits, Keeps
    <2>2. CASE d # c
      <3>1. call'[d] = call[d] /\ call[d] \in CallState /\ CallFits(call[d])
        BY SMTT(30), <2>2, <1>3, <1>11
      <3>2. now <= now' /\ now' \in Nat /\ drawn \subseteq drawn'
        BY SMTT(30), <1>1, <1>2, <1>3
      <3>3. ASSUME NEW x \in CallState, CallFits(x) PROVE CallFits(x)'
        BY ZenonT(30), <3>3, <3>2, <1>2, <1>3, FitsStay
      <3> QED BY ZenonT(30), <3>1, <3>3
    <2> QED BY ZenonT(30), <2>1, <2>2
  <1>16. \A d \in Callers : d # c /\ call'[d].pc = "store" => call'[d].id \in drawn
    BY ZenonT(30), <1>3, <1>11 DEF CallFits
  <1>17. ASSUME NEW d \in Callers, NEW e \in Callers PROVE Apart(d, e)'
    <2>1. CASE d = c
      BY ZenonT(30), <2>1, <1>10, <1>11, <1>14, <1>16 DEF Apart
    <2>2. CASE e = c
      BY ZenonT(30), <2>2, <1>10, <1>11, <1>14, <1>16 DEF Apart
    <2>3. CASE d # c /\ e # c
      <3>1. call'[d] = call[d] /\ call'[e] = call[e] /\ Apart(d, e)
        BY SMTT(30), <2>3, <1>11 DEF Inv
      <3> QED BY ZenonT(30), <3>1 DEF Apart
    <2> QED BY ZenonT(30), <2>1, <2>2, <2>3
  <1> QED BY ZenonT(30), <1>12, <1>13, <1>15, <1>17 DEF Inv

LEMMA NextProviderInv ==
  ASSUME NEW c \in Callers, Inv, call[c].pc = "ask", call' = NextProvider(c),
         now' = now, cache' = cache, timer' = timer, closed' = closed, drawn' = drawn
  PROVE  Inv'
  <1> DEFINE b == call[c]
             r == [b EXCEPT !.prov = "dev"]
  <1>1. b \in CallState /\ CallFits(b)
    BY SMTT(30) DEF Inv, Types
  <1>2. CASE call' = [call EXCEPT ![c] = Idle]
    BY ZenonT(30), <1>2, IdleIsCall, IdleFits, CallChange
  <1>3. CASE call' = [call EXCEPT ![c] = r]
    <2>1. r \in CallState
      BY ZenonT(30), <1>1, CallUpdates
    <2>2. r.pc = b.pc /\ r.ttl = b.ttl /\ r.prov = "dev"
      BY ZenonT(30), <1>1 DEF CallState
    <2>3. b.pc = "ask"
      OBVIOUS
    <2> HIDE DEF r, b
    <2>4. CallFits(r) /\ r.pc # "store"
      BY SMTT(30), <1>1, <2>2, <2>3, ProviderNames DEF CallFits
    <2> QED BY ZenonT(30), <1>3, <2>1, <2>4, CallChange
  <1>4. call' = [call EXCEPT ![c] = Idle] \/ call' = [call EXCEPT ![c] = r]
    BY ZenonT(30) DEF NextProvider
  <1> QED BY ZenonT(30), <1>2, <1>3, <1>4

LEMMA StoreInv ==
  ASSUME NEW c \in Callers, Inv, Store(c)
  PROVE  Inv'
  <1> DEFINE b == call[c]
             i == b.id
             e == now + b.ttl
             k == [NoCred EXCEPT !.prov = b.prov, !.issued = now, !.expires = e, !.until = b.until]
             r == IF b.via = "python" THEN [Idle EXCEPT !.pc = "inside", !.id = i] ELSE Idle
  <1>1. /\ b.pc = "store"
        /\ cache' = [cache EXCEPT ![i] = k]
        /\ timer' = [timer EXCEPT ![i] = "start"]
        /\ call' = [call EXCEPT ![c] = r]
        /\ now' = now /\ closed' = closed /\ drawn' = drawn
    BY ZenonT(30) DEF Store
  <1>2. /\ Types /\ b \in CallState /\ CallFits(b) /\ now \in Nat /\ drawn \subseteq Ids
        /\ call \in [Callers -> CallState] /\ cache \in [Ids -> Credential]
        /\ timer \in [Ids -> {"none", "start", "waiting", "revoke", "mark", "gone"}]
        /\ \A d \in Callers : call[d] \in CallState /\ CallFits(call[d])
        /\ \A j \in Ids : CredOK(j)
    BY SMTT(30) DEF Inv, Types
  <1>3. /\ b.prov \in Providers /\ 1 <= b.ttl /\ b.ttl <= Cap
        /\ i \in drawn /\ i \in Ids /\ cache[i].prov = "none"
        /\ Keeps(b.prov) => b.until <= e
    BY ZenonT(30), <1>1, <1>2 DEF CallFits
  <1>4. b.ttl \in Nat /\ b.until \in Nat /\ b.prov \in Names
    BY ZenonT(30), <1>2 DEF CallState
  <1>5. e \in Nat /\ e <= now + Cap
    BY SMTT(30), <1>2, <1>3, <1>4, BrokerAssumption
  <1> HIDE DEF e
  <1>6. k \in Credential
    BY ZenonT(30), <1>2, <1>4, <1>5, NoCredIsCredential, CredUpdates
  <1>7. /\ k.prov = b.prov /\ k.issued = now /\ k.expires = e /\ k.until = b.until
        /\ k.revoked = NoCred.revoked /\ k.told = NoCred.told
    BY ZenonT(30), NoCredIsCredential DEF Credential
  <1>8. ~ k.revoked /\ ~ k.told
    BY SMTT(30), <1>7 DEF NoCred
  <1>9. r \in CallState /\ r.pc \in {"idle", "inside"}
    <2>1. Idle.pc = "idle" /\ Idle \in CallState
      BY SMTT(30), IdleIsCall DEF Idle
    <2>2. [Idle EXCEPT !.pc = "inside", !.id = i] \in CallState
      BY ZenonT(30), <2>1, <1>3, CallUpdates
    <2>3. [Idle EXCEPT !.pc = "inside", !.id = i].pc = "inside"
      BY ZenonT(30), <2>1 DEF CallState
    <2> QED BY ZenonT(30), <2>1, <2>2, <2>3
  <1> HIDE DEF k, r, b
  <1>10. /\ call' \in [Callers -> CallState] /\ cache' \in [Ids -> Credential]
         /\ \A d \in Callers : call'[d] = IF d = c THEN r ELSE call[d]
         /\ \A j \in Ids : cache'[j] = IF j = i THEN k ELSE cache[j]
    BY SMTT(30), <1>1, <1>2, <1>3, <1>6, <1>9
  <1>11. /\ timer' \in [Ids -> {"none", "start", "waiting", "revoke", "mark", "gone"}]
         /\ \A j \in Ids : timer'[j] = IF j = i THEN "start" ELSE timer[j]
    BY SMTT(30), <1>1, <1>2, <1>3
  <1>12. Types'
    BY ZenonT(30), <1>1, <1>2, <1>10, <1>11 DEF Types
  <1>13. ASSUME NEW j \in Ids PROVE CredOK(j)'
    <2>1. CASE j = i
      <3>1. cache'[j] = k /\ timer'[j] = "start" /\ timer'[j] # "mark"
        BY SMTT(30), <2>1, <1>10, <1>11
      <3> QED BY ZenonT(30), <2>1, <3>1, <1>1, <1>3, <1>5, <1>7, <1>8 DEF CredOK, Keeps
    <2>2. CASE j # i
      <3>1. cache'[j] = cache[j] /\ timer'[j] = timer[j] /\ CredOK(j)
        BY SMTT(30), <2>2, <1>2, <1>10, <1>11
      <3> QED BY ZenonT(30), <3>1, <1>1 DEF CredOK, Keeps
    <2> QED BY ZenonT(30), <2>1, <2>2
  <1>14. ASSUME NEW d \in Callers PROVE CallFits(call[d])'
    <2>1. CASE d = c
      <3>1. call'[d].pc \in {"idle", "inside"}
        BY ZenonT(30), <2>1, <1>9, <1>10
      <3> QED BY SMTT(30), <3>1 DEF CallFits
    <2>2. CASE d # c
      <3> DEFINE x == call[d]
      <3>1. call'[d] = x /\ x \in CallState /\ CallFits(x) /\ Apart(c, d)
        BY SMTT(30), <2>2, <1>2, <1>10 DEF Inv
      <3>2. x.pc \in {"store", "revoke", "mark"} => x.id \in Ids /\ x.id # i
        <4>1. x.pc = "store" => x.id \in Ids /\ x.id # i
          BY ZenonT(30), <2>2, <3>1, <1>1, <1>2 DEF Apart, CallFits, b
        <4>2. x.pc \in {"revoke", "mark"} => x.id \in Ids /\ x.id # i
          BY ZenonT(30), <3>1, <1>3 DEF CallFits
        <4> QED BY ZenonT(30), <4>1, <4>2
      <3>3. x.pc \in {"store", "revoke", "mark"} => cache'[x.id] = cache[x.id]
        BY ZenonT(30), <3>2, <1>10
      <3>4. ASSUME NEW y \in CallState, CallFits(y),
                   y.pc \in {"store", "revoke", "mark"} => cache'[y.id] = cache[y.id]
            PROVE  CallFits(y)'
        BY ZenonT(30), <3>4, <1>1 DEF CallFits, Keeps
      <3> QED BY ZenonT(30), <3>1, <3>3, <3>4
    <2> QED BY ZenonT(30), <2>1, <2>2
  <1>15. r.pc # "store"
    BY SMTT(30), <1>9
  <1>16. \A d, f \in Callers : Apart(d, f)'
    BY ZenonT(30), <1>1, <1>9, <1>15, ApartStay
  <1> QED BY ZenonT(30), <1>12, <1>13, <1>14, <1>16 DEF Inv

\* The call that Revoke begins.
LEMMA RevokeCall ==
  ASSUME NEW i \in Ids, cache[i].prov # "none"
  PROVE  LET r == [Idle EXCEPT !.pc = "revoke", !.id = i]
         IN  r \in CallState /\ CallFits(r) /\ r.pc # "store"
  <1> DEFINE r == [Idle EXCEPT !.pc = "revoke", !.id = i]
  <1>1. r \in CallState
    BY ZenonT(30), IdleIsCall, CallUpdates
  <1>2. r.pc = "revoke" /\ r.id = i
    BY ZenonT(30), IdleIsCall DEF CallState
  <1> HIDE DEF r
  <1>3. CallFits(r) /\ r.pc # "store"
    BY SMTT(30), <1>2 DEF CallFits
  <1> QED BY ZenonT(30), <1>1, <1>3 DEF r

LEMMA RevokeBeginsInv ==
  ASSUME NEW c \in Callers, NEW i \in Ids, Inv, handleTokenRevoke(c, i)
  PROVE  Inv'
  <1>1. /\ cache[i].prov # "none"
        /\ call' = [call EXCEPT ![c] = [Idle EXCEPT !.pc = "revoke", !.id = i]]
        /\ now' = now /\ cache' = cache /\ timer' = timer /\ closed' = closed /\ drawn' = drawn
    BY ZenonT(30) DEF handleTokenRevoke, Cached, processVars
  <1> QED BY ZenonT(30), <1>1, RevokeCall, CallChange

LEMMA ExitBlockInv ==
  ASSUME NEW c \in Callers, Inv, ExitBlock(c)
  PROVE  Inv'
  <1> DEFINE i == call[c].id
  <1>1. /\ call' = [call EXCEPT ![c] = IF i \in Cached
                      THEN [Idle EXCEPT !.pc = "revoke", !.id = i] ELSE Idle]
        /\ now' = now /\ cache' = cache /\ timer' = timer /\ closed' = closed /\ drawn' = drawn
    BY ZenonT(30) DEF ExitBlock, processVars
  <1> HIDE DEF i
  <1>2. CASE i \in Cached
    <2>1. i \in Ids /\ cache[i].prov # "none"
      BY ZenonT(30), <1>2 DEF Cached
    <2>2. call' = [call EXCEPT ![c] = [Idle EXCEPT !.pc = "revoke", !.id = i]]
      BY ZenonT(30), <1>1, <1>2
    <2> QED BY ZenonT(30), <1>1, <2>1, <2>2, RevokeCall, CallChange
  <1>3. CASE i \notin Cached
    <2>1. call' = [call EXCEPT ![c] = Idle]
      BY ZenonT(30), <1>1, <1>3
    <2> QED BY ZenonT(30), <1>1, <2>1, IdleIsCall, IdleFits, CallChange
  <1> QED BY ZenonT(30), <1>2, <1>3

LEMMA RevokeFailsInv ==
  ASSUME NEW c \in Callers, Inv, RevokeFails(c)
  PROVE  Inv'
  <1>1. /\ call' = [call EXCEPT ![c] = Idle]
        /\ now' = now /\ cache' = cache /\ timer' = timer /\ closed' = closed /\ drawn' = drawn
    BY ZenonT(30) DEF RevokeFails, processVars
  <1> QED BY ZenonT(30), <1>1, IdleIsCall, IdleFits, CallChange

LEMMA ProviderRevokesInv ==
  ASSUME NEW c \in Callers, Inv, ProviderRevokes(c)
  PROVE  Inv'
  <1> DEFINE b == call[c]
             i == b.id
             q == cache[i]
             k == [q EXCEPT !.agreed = TRUE]
             r == [b EXCEPT !.pc = "mark"]
  <1>1. /\ b.pc = "revoke"
        /\ cache' = [cache EXCEPT ![i] = k] /\ call' = [call EXCEPT ![c] = r]
        /\ now' = now /\ timer' = timer /\ closed' = closed /\ drawn' = drawn
    BY ZenonT(30) DEF ProviderRevokes
  <1>2. /\ b \in CallState /\ CallFits(b) /\ cache \in [Ids -> Credential]
        /\ \A j \in Ids : CredOK(j)
    BY SMTT(30) DEF Inv, Types
  <1>3. i \in Ids /\ q.prov # "none" /\ q \in Credential
    BY ZenonT(30), <1>1, <1>2 DEF CallFits
  <1>4. k \in Credential /\ r \in CallState
    BY ZenonT(30), <1>2, <1>3, CredUpdates, CallUpdates
  <1>5. /\ k.prov = q.prov /\ k.issued = q.issued /\ k.expires = q.expires
        /\ k.until = q.until /\ k.agreed /\ k.revoked = q.revoked /\ k.told = q.told
    BY ZenonT(30), <1>3 DEF Credential
  <1>6. r.pc = "mark" /\ r.id = i
    BY ZenonT(30), <1>2 DEF CallState
  <1>7. k.told => k.revoked
    BY ZenonT(30), <1>2, <1>3, <1>5 DEF CredOK
  <1>8. k.prov # "none"
    BY ZenonT(30), <1>3, <1>5
  <1>9. cache'[i] = k
    BY ZenonT(30), <1>1, <1>2, <1>3
  <1>10. /\ k.prov = cache[i].prov /\ k.issued = cache[i].issued
         /\ k.expires = cache[i].expires /\ k.until = cache[i].until
    BY ZenonT(30), <1>5
  <1> HIDE DEF k, r, i
  <1>11. ASSUME NEW x \in CallState, x.pc = "mark", x.id = i PROVE CallFits(x)'
    BY SMTT(30), <1>11, <1>3, <1>5, <1>8, <1>9 DEF CallFits
  <1>12. r.pc # "store"
    BY SMTT(30), <1>6
  <1> QED BY ZenonT(30), <1>1, <1>3, <1>4, <1>5, <1>6, <1>7, <1>10, <1>11, <1>12, MarkChange

LEMMA MarkRevokedInv ==
  ASSUME NEW c \in Callers, Inv, MarkRevoked(c)
  PROVE  Inv'
  <1> DEFINE i == call[c].id
             q == cache[i]
             k == [q EXCEPT !.revoked = TRUE, !.told = TRUE]
  <1>1. /\ call[c].pc = "mark"
        /\ cache' = [cache EXCEPT ![i] = k] /\ call' = [call EXCEPT ![c] = Idle]
        /\ now' = now /\ timer' = timer /\ closed' = closed /\ drawn' = drawn
    BY ZenonT(30) DEF MarkRevoked
  <1>2. CallFits(call[c]) /\ cache \in [Ids -> Credential]
    BY ZenonT(30) DEF Inv, Types
  <1>3. i \in Ids /\ q.agreed /\ q \in Credential
    BY ZenonT(30), <1>1, <1>2 DEF CallFits
  <1>4. k \in Credential
    BY ZenonT(30), <1>3, CredUpdates
  <1>5. /\ k.prov = q.prov /\ k.issued = q.issued /\ k.expires = q.expires
        /\ k.until = q.until /\ k.agreed = q.agreed /\ k.revoked
    BY ZenonT(30), <1>3 DEF Credential
  <1>6. /\ k.prov = cache[i].prov /\ k.issued = cache[i].issued
        /\ k.expires = cache[i].expires /\ k.until = cache[i].until /\ k.agreed
    BY ZenonT(30), <1>3, <1>5
  <1> HIDE DEF k, i
  <1> QED BY ZenonT(30), <1>1, <1>3, <1>4, <1>5, <1>6, IdleIsCall, IdleFits, IdleFitsNext, MarkChange

\* A goroutine that does not mark its credential.
LEMMA TimerMoves ==
  ASSUME Inv, NEW i \in Ids, NEW w \in {"waiting", "revoke", "gone"},
         now < cache[i].expires /\ ~ closed => w = "waiting",
         timer' = [timer EXCEPT ![i] = w], cache' = cache,
         now' = now, call' = call, closed' = closed, drawn' = drawn
  PROVE  Inv'
  <1> DEFINE k == cache[i]
  <1>1. cache \in [Ids -> Credential] /\ k \in Credential /\ CredOK(i)
    BY ZenonT(30) DEF Inv, Types
  <1>2. (k.revoked => k.agreed) /\ (k.told => k.revoked)
    BY ZenonT(30), <1>1 DEF CredOK
  <1>3. cache' = [cache EXCEPT ![i] = k]
    BY SMTT(30), <1>1
  <1>4. w # "mark" /\ w \in {"waiting", "revoke", "mark", "gone"}
    BY SMTT(30)
  <1> QED BY ZenonT(30), <1>1, <1>2, <1>3, <1>4, TimerChange

LEMMA TimerInv ==
  ASSUME NEW i \in Ids, Inv, Timer(i)
  PROVE  Inv'
  <1> DEFINE q == cache[i]
  <1>0. q \in Credential /\ CredOK(i) /\ now \in Nat /\ q.expires \in Nat
    BY SMTT(30) DEF Inv, Types, Credential
  <1>1. CASE TimerStarts(i)
    <2> DEFINE w == IF now >= q.expires THEN "gone" ELSE "waiting"
    <2>1. w \in {"waiting", "revoke", "gone"} /\ (now < q.expires => w = "waiting")
      BY SMTT(30), <1>0
    <2>2. timer' = [timer EXCEPT ![i] = w]
      BY ZenonT(30), <1>1 DEF TimerStarts
    <2> HIDE DEF w
    <2> QED BY ZenonT(30), <1>1, <2>1, <2>2, TimerMoves DEF TimerStarts
  <1>2. CASE TimerStops(i)
    BY ZenonT(30), <1>2, TimerMoves DEF TimerStops
  <1>3. CASE TimerFires(i)
    <2>1. ~ (now < q.expires)
      BY SMTT(30), <1>0, <1>3 DEF TimerFires
    <2> QED BY ZenonT(30), <1>3, <2>1, TimerMoves DEF TimerFires
  <1>4. CASE TimerRevokes(i)
    <2>1. timer[i] \notin {"start", "waiting"}
      BY SMTT(30), <1>4 DEF TimerRevokes
    <2>2. ~ (now < q.expires /\ ~ closed)
      BY ZenonT(30), <1>0, <2>1 DEF CredOK
    <2>3. CASE cache' = cache /\ timer' = [timer EXCEPT ![i] = "gone"]
      BY ZenonT(30), <1>4, <2>2, <2>3, TimerMoves DEF TimerRevokes
    <2>4. CASE /\ cache' = [cache EXCEPT ![i] = [q EXCEPT !.agreed = TRUE]]
               /\ timer' = [timer EXCEPT ![i] = "mark"]
      <3> DEFINE k == [q EXCEPT !.agreed = TRUE]
      <3>1. k \in Credential
        BY ZenonT(30), <1>0, CredUpdates
      <3>2. /\ k.prov = q.prov /\ k.issued = q.issued /\ k.expires = q.expires
            /\ k.until = q.until /\ k.agreed /\ k.revoked = q.revoked /\ k.told = q.told
        BY ZenonT(30), <1>0 DEF Credential
      <3>3. k.told => k.revoked
        BY ZenonT(30), <1>0, <3>2 DEF CredOK
      <3>4. cache' = [cache EXCEPT ![i] = k]
        BY ZenonT(30), <2>4
      <3>5. now' = now /\ call' = call /\ closed' = closed /\ drawn' = drawn
        BY ZenonT(30), <1>4 DEF TimerRevokes
      <3> HIDE DEF k
      <3>6. ~ (now < k.expires /\ ~ closed)
        BY ZenonT(30), <2>2, <3>2
      <3> QED BY ZenonT(30), <2>4, <3>1, <3>2, <3>3, <3>4, <3>5, <3>6, TimerChange
    <2> QED BY ZenonT(30), <1>4, <2>3, <2>4 DEF TimerRevokes
  <1>5. CASE TimerMarks(i)
    <2> DEFINE k == [q EXCEPT !.revoked = TRUE]
    <2>1. timer[i] \notin {"start", "waiting"} /\ timer[i] = "mark"
      BY SMTT(30), <1>5 DEF TimerMarks
    <2>2. ~ (now < q.expires /\ ~ closed) /\ q.agreed
      BY ZenonT(30), <1>0, <2>1 DEF CredOK
    <2>3. k \in Credential
      BY ZenonT(30), <1>0, CredUpdates
    <2>4. /\ k.prov = q.prov /\ k.issued = q.issued /\ k.expires = q.expires
          /\ k.until = q.until /\ k.agreed = q.agreed /\ k.revoked
      BY ZenonT(30), <1>0 DEF Credential
    <2>5. /\ cache' = [cache EXCEPT ![i] = k] /\ timer' = [timer EXCEPT ![i] = "gone"]
          /\ now' = now /\ call' = call /\ closed' = closed /\ drawn' = drawn
      BY ZenonT(30), <1>5 DEF TimerMarks
    <2> HIDE DEF k
    <2>6. ~ (now < k.expires /\ ~ closed) /\ k.agreed /\ "gone" # "mark"
      BY SMTT(30), <2>2, <2>4
    <2> QED BY ZenonT(30), <2>3, <2>4, <2>5, <2>6, TimerChange
  <1> QED BY ZenonT(30), <1>1, <1>2, <1>3, <1>4, <1>5 DEF Timer

LEMMA EndsInv ==
  ASSUME Inv, Ends
  PROVE  Inv'
  <1>1. /\ cache' = [i \in Ids |-> NoCred] /\ timer' = [i \in Ids |-> "none"] /\ closed' = FALSE
        /\ call' = [c \in Callers |-> IF call[c].pc = "inside" THEN call[c] ELSE Idle]
        /\ now' = now /\ drawn' = drawn
        /\ now \in Nat /\ drawn \in SUBSET Ids /\ call \in [Callers -> CallState]
    BY ZenonT(30) DEF Ends, Inv, Types
  <1>2. cache' \in [Ids -> Credential]
    BY ZenonT(30), <1>1, NoCredIsCredential
  <1>3. timer' \in [Ids -> {"none", "start", "waiting", "revoke", "mark", "gone"}]
    BY ZenonT(30), <1>1
  <1>4. call' \in [Callers -> CallState]
    BY ZenonT(30), <1>1, IdleIsCall
  <1>5. Types'
    BY ZenonT(30), <1>1, <1>2, <1>3, <1>4 DEF Types
  <1>6. ASSUME NEW i \in Ids PROVE CredOK(i)'
    <2>1. cache'[i] = NoCred /\ timer'[i] = "none" /\ timer'[i] # "mark"
      BY SMTT(30), <1>1
    <2>2. /\ NoCred.prov = "none" /\ NoCred.expires = 0 /\ NoCred.issued = 0
          /\ ~ NoCred.revoked /\ ~ NoCred.told
      BY SMTT(30) DEF NoCred
    <2>3. ~ Keeps("none") /\ 0 <= 0 + Cap /\ ~ (now < 0)
      BY SMTT(30), <1>1, BrokerAssumption DEF Keeps
    <2> QED BY ZenonT(30), <2>1, <2>2, <2>3, <1>1 DEF CredOK, Keeps
  <1>7. ASSUME NEW c \in Callers PROVE call'[c].pc \in {"idle", "inside"}
    BY SMTT(30), <1>1 DEF Idle
  <1>8. ASSUME NEW c \in Callers PROVE CallFits(call[c])'
    BY SMTT(30), <1>7 DEF CallFits
  <1>9. \A c, d \in Callers : Apart(c, d)'
    BY SMTT(30), <1>7 DEF Apart
  <1> QED BY ZenonT(30), <1>5, <1>6, <1>8, <1>9 DEF Inv

\* The clock, Close, a registration or nothing.
LEMMA OutsideInv ==
  ASSUME Inv, cache' = cache, timer' = timer, call' = call, drawn' = drawn,
         now' \in Nat, now <= now', closed' \in BOOLEAN, closed => closed'
  PROVE  Inv'
  <1>1. /\ Types /\ now \in Nat /\ cache \in [Ids -> Credential]
        /\ \A d \in Callers : call[d] \in CallState /\ CallFits(call[d])
        /\ \A i \in Ids : CredOK(i)
    BY SMTT(30) DEF Inv, Types
  <1>2. Types'
    BY ZenonT(30), <1>1 DEF Types
  <1>3. ASSUME NEW i \in Ids PROVE CredOK(i)'
    <2>1. cache[i].expires \in Nat
      BY SMTT(30), <1>1 DEF Credential
    <2>2. now' < cache[i].expires => now < cache[i].expires
      BY SMTT(30), <1>1, <2>1
    <2> QED BY ZenonT(30), <1>1, <2>2 DEF CredOK, Keeps
  <1>4. ASSUME NEW x \in CallState, CallFits(x) PROVE CallFits(x)'
    <2>1. drawn \subseteq drawn'
      BY ZenonT(30)
    <2>2. \A i \in Ids : cache'[i].prov = cache[i].prov /\ (cache[i].agreed => cache'[i].agreed)
      BY ZenonT(30)
    <2> QED BY ZenonT(30), <1>1, <1>4, <2>1, <2>2, FitsStay
  <1>5. ASSUME NEW d \in Callers PROVE CallFits(call[d])'
    BY ZenonT(30), <1>1, <1>4
  <1>6. \A d, e \in Callers : Apart(d, e)'
    BY ZenonT(30) DEF Inv, Apart
  <1> QED BY ZenonT(30), <1>2, <1>3, <1>5, <1>6 DEF Inv

\* ValidateScope answers yes or no.
LEMMA ScopeIsBoolean ==
  ASSUME NEW p \in Providers, NEW scoped \in ScopeAnswers[p]
  PROVE  scoped \in BOOLEAN
  <1>0. ScopeAnswers[p] = {ValidateScope(p, r, m) : r \in Schemes, m \in Permissions}
    BY SMTT(30) DEF ScopeAnswers
  <1>1. PICK r \in Schemes, m \in Permissions : scoped = ValidateScope(p, r, m)
    BY SMTT(30), <1>0
  <1>2. p \in {"env", "dev", "aws-iam", "gcp-iam", "azure-ad", "oauth2", "vault"}
    BY ZenonT(30), BrokerAssumption
  <1>3. /\ AWSScope(r, m) \in BOOLEAN /\ GCPScope(r, m) \in BOOLEAN
        /\ AzureScope(r, m) \in BOOLEAN /\ VaultScope(r, m) \in BOOLEAN
    BY ZenonT(30) DEF AWSScope, GCPScope, AzureScope, VaultScope
  <1>4. CASE p \in {"env", "dev"}
    BY ZenonT(30), <1>1, <1>4 DEF ValidateScope
  <1>5. CASE p = "aws-iam"
    BY SMTT(30), <1>1, <1>3, <1>5 DEF ValidateScope
  <1>6. CASE p = "gcp-iam"
    BY SMTT(30), <1>1, <1>3, <1>6 DEF ValidateScope
  <1>7. CASE p = "azure-ad"
    BY SMTT(30), <1>1, <1>3, <1>7 DEF ValidateScope
  <1>8. CASE p = "vault"
    BY SMTT(30), <1>1, <1>3, <1>8 DEF ValidateScope
  <1>9. CASE p = "oauth2"
    BY ZenonT(30), <1>1, <1>9 DEF ValidateScope
  <1> QED BY ZenonT(30), <1>2, <1>4, <1>5, <1>6, <1>7, <1>8, <1>9

LEMMA RequestInv ==
  ASSUME NEW c \in Callers, NEW ttl \in Int, Inv,
         \/ handleTokenRequest(c, ttl)
         \/ EnterBlock(c, ttl)
         \/ \E p \in Providers : Provision(c, p, ttl)
  PROVE  Inv'
  <1>0. (IF ttl <= 0 \/ ttl > Cap THEN Cap ELSE ttl) \in Int /\ (IF ttl > Cap THEN Cap ELSE ttl) \in Int
    BY SMTT(30), BrokerAssumption
  <1>1. CASE handleTokenRequest(c, ttl)
    BY ZenonT(30), <1>0, <1>1, ProviderNames, BeginInv DEF handleTokenRequest
  <1>2. CASE EnterBlock(c, ttl)
    BY ZenonT(30), <1>0, <1>2, ProviderNames, BeginInv DEF EnterBlock, provision
  <1>3. CASE \E p \in Providers : Provision(c, p, ttl)
    <2>1. PICK p \in Providers : Provision(c, p, ttl)
      BY ZenonT(30), <1>3
    <2>2. PICK scoped \in ScopeAnswers[p] : Begin(c, p, ttl, scoped, "go")
      BY ZenonT(30), <2>1 DEF Provision
    <2>3. scoped \in BOOLEAN
      BY ZenonT(30), ScopeIsBoolean
    <2> QED BY ZenonT(30), <2>2, <2>3, BeginInv
  <1> QED BY ZenonT(30), <1>1, <1>2, <1>3

LEMMA CallInv ==
  ASSUME NEW c \in Callers, Inv, Call(c)
  PROVE  Inv'
  <1>1. ASSUME NEW ttl \in -1..(Cap + 1),
               \/ handleTokenRequest(c, ttl)
               \/ EnterBlock(c, ttl)
               \/ \E p \in Providers : Provision(c, p, ttl)
        PROVE  Inv'
    <2>1. ttl \in Int
      BY SMTT(30), BrokerAssumption
    <2> QED BY ZenonT(30), <1>1, <2>1, RequestInv
  <1>2. CASE ProviderIssues(c)
    BY ZenonT(30), <1>2, ProviderIssuesInv
  <1>3. CASE ProvisionFails(c)
    BY ZenonT(30), <1>3, NextProviderInv DEF ProvisionFails, processVars
  <1>4. CASE AWSInitFails(c)
    BY ZenonT(30), <1>4, NextProviderInv DEF AWSInitFails
  <1>5. CASE AWSPanics(c)
    BY ZenonT(30), <1>5, EndsInv DEF AWSPanics
  <1>6. CASE Store(c)
    BY ZenonT(30), <1>6, StoreInv
  <1>7. CASE \E i \in Ids : handleTokenRevoke(c, i)
    BY ZenonT(30), <1>7, RevokeBeginsInv
  <1>8. CASE ExitBlock(c)
    BY ZenonT(30), <1>8, ExitBlockInv
  <1>9. CASE ProviderRevokes(c)
    BY ZenonT(30), <1>9, ProviderRevokesInv
  <1>10. CASE RevokeFails(c)
    BY ZenonT(30), <1>10, RevokeFailsInv
  <1>11. CASE MarkRevoked(c)
    BY ZenonT(30), <1>11, MarkRevokedInv
  <1> QED BY ZenonT(30), <1>1, <1>2, <1>3, <1>4, <1>5, <1>6, <1>7, <1>8, <1>9, <1>10, <1>11 DEF Call

LEMMA StepInv == Inv /\ [Next]_vars => Inv'
  <1> SUFFICES ASSUME Inv, [Next]_vars PROVE Inv'
    OBVIOUS
  <1>0. now \in Nat /\ now <= now /\ now + 1 \in Nat /\ now <= now + 1 /\ closed \in BOOLEAN
    BY SMTT(30) DEF Inv, Types
  <1>1. CASE \E c \in Callers : Call(c)
    BY ZenonT(30), <1>1, CallInv
  <1>2. CASE \E i \in Ids : Timer(i)
    BY ZenonT(30), <1>2, TimerInv
  <1>3. CASE \E p \in Providers : RegisterProvider(p)
    <2>1. /\ now' = now /\ closed' = closed
          /\ cache' = cache /\ timer' = timer /\ call' = call /\ drawn' = drawn
      BY ZenonT(30), <1>3 DEF RegisterProvider
    <2> QED BY ZenonT(30), <1>0, <2>1, OutsideInv
  <1>4. CASE Close
    BY ZenonT(30), <1>0, <1>4, OutsideInv DEF Close
  <1>5. CASE Crash
    BY ZenonT(30), <1>5, EndsInv DEF Crash
  <1>6. CASE Tick
    BY ZenonT(30), <1>0, <1>6, OutsideInv DEF Tick, processVars
  <1>7. CASE UNCHANGED vars
    BY ZenonT(30), <1>0, <1>7, OutsideInv DEF vars, processVars
  <1> QED BY ZenonT(30), <1>1, <1>2, <1>3, <1>4, <1>5, <1>6, <1>7 DEF Next

\* Every reachable state satisfies the inductive invariant.
THEOREM Invariance == Spec => []Inv
  <1>1. Init => Inv
    BY InitInv
  <1> QED BY <1>1, StepInv, PTL DEF Spec

-----------------------------------------------------------------------------
(* The properties.                                                         *)

\* Provision and the handlers: whatever time to live is asked for, a
\* credential is on the list of handleTokenList for the cap at most.
THEOREM ListsWithinCap == Spec => []ListedWithinCap
  <1>1. Inv => ListedWithinCap
    <2> SUFFICES ASSUME Inv, NEW i \in ListActive PROVE now < cache[i].issued + Cap
      BY ZenonT(30) DEF ListedWithinCap
    <2>1. i \in Ids /\ now < cache[i].expires
      BY ZenonT(30) DEF ListActive, Cached
    <2>2. /\ cache[i].expires <= cache[i].issued + Cap
          /\ now \in Nat /\ cache[i] \in Credential
      BY ZenonT(30), <2>1 DEF Inv, Types, CredOK
    <2>3. cache[i].expires \in Nat /\ cache[i].issued \in Nat
      BY ZenonT(30), <2>2 DEF Credential
    <2> QED BY SMTT(30), <2>1, <2>2, <2>3, BrokerAssumption
  <1> QED BY <1>1, Invariance, PTL

\* Revoke, by a call or by scheduleRevocation: what was reported revoked is
\* off the list, and nothing leaves the list before its expiry unless its
\* provider agreed.
THEOREM TellsRevocation == Spec => []RevocationTold
  <1>1. Inv => RevocationTold
    <2> SUFFICES ASSUME Inv, NEW i \in Cached
                 PROVE  /\ cache[i].told => i \notin ListActive
                        /\ now < cache[i].expires /\ i \notin ListActive => cache[i].agreed
      BY ZenonT(30) DEF RevocationTold
    <2>1. CredOK(i)
      BY ZenonT(30) DEF Inv, Cached
    <2> QED BY ZenonT(30), <2>1 DEF CredOK, ListActive
  <1> QED BY <1>1, Invariance, PTL

\* ProvisionCredential of a provider that keeps to the time to live: the
\* credential has lapsed there when the broker's own expiry comes, however
\* long its answer took.
THEOREM LapsesInTime == Spec => []LapsesByExpiry
  <1>1. Inv => LapsesByExpiry
    BY ZenonT(30) DEF Inv, CredOK, Keeps, LapsesByExpiry, Cached
  <1> QED BY <1>1, Invariance, PTL

\* scheduleRevocation: until Close, every listed credential has a goroutine
\* that has still to try to revoke it.
THEOREM SchedulesRevocation == Spec => []RevocationScheduled
  <1>1. Inv => RevocationScheduled
    BY ZenonT(30) DEF Inv, CredOK, RevocationScheduled, ListActive, Cached
  <1> QED BY <1>1, Invariance, PTL
=============================================================================
