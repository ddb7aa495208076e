---------------------------- MODULE DaemonProofs ----------------------------
(***************************************************************************)
(* Proofs about module Daemon, for every set of connections, policies and  *)
(* agents, every time to live of the policy cache and every size of the    *)
(* audit ring: a deny takes hold in time, the key cache agrees with the    *)
(* files, getAuditEvents returns the latest events and an orderly shutdown *)
(* drops none.                                                             *)
(***************************************************************************)
EXTENDS Daemon, SequenceTheorems, TLAPS

-----------------------------------------------------------------------------
(* The invariant.                                                          *)

TypeInv ==
  /\ DOMAIN policies \subseteq Policies
  /\ \A p \in DOMAIN policies : policies[p] \in Rules
  /\ polMu \in Clients \cup {NoClient}
  /\ appended \in Nat /\ born \in 0..appended
  /\ life \in {"up", "stopping", "stopped", "crashed"}
  /\ now \in Nat

HandlerInv ==
  /\ pc \in [Clients -> Places]
  /\ DOMAIN req = Clients /\ DOMAIN key = Clients /\ DOMAIN staleFor = Clients

\* What the request of a handler holds depends on where the handler is.
RequestOK(c) ==
  /\ pc[c] \in {"evaluate", "store", "load"} => req[c].action \in Actions /\ req[c].agent \in Agents
  /\ pc[c] = "save" => req[c].agent \in Agents /\ req[c].key \in {"full", "public"}
  /\ pc[c] \in {"reply", "after"} => req[c].index \in Nat

RequestInv == \A c \in Clients : RequestOK(c)

\* A handler inside Save holds Keystore.mu, the file is torn and no key of the
\* agent is cached.
Saving(c) ==
  pc[c] = "save" => /\ keyMu = c
                    /\ keys[req[c].agent] = "torn"
                    /\ keyCache[req[c].agent] = "none"

KeyInv ==
  /\ keyMu \in Clients \cup {NoClient}
  /\ keys \in [Agents -> {"none", "torn", "full", "public"}]
  /\ keyCache \in [Agents -> {"none", "full", "public"}]
  /\ KeyCacheCoherent
  /\ \A c \in Clients : Saving(c)

\* A list that lets an action pass which the table denies expires soon after
\* the table began to deny it.
Expires(e) ==
  /\ e.expiresAt \in Nat
  /\ e.expiresAt <= now + TTL
  /\ \A a \in Actions :
       a \in Denied(EnabledPolicies) /\ a \notin Denied(e.list) => e.expiresAt <= since[a] + TTL + Lag

\* A handler that has read the table holds Store.mu, read it at most Lag ago,
\* and has missed only what was denied after that.
Storing(c) ==
  pc[c] = "store" =>
    /\ polMu = c
    /\ listedAt \in Nat /\ listedAt <= now /\ now <= listedAt + Lag
    /\ \A a \in Actions :
         a \in Denied(EnabledPolicies) /\ a \notin Denied(listed) => listedAt <= since[a]

DenyInv ==
  /\ since \in [Actions -> Nat]
  /\ \A a \in Actions : since[a] <= now
  /\ \A e, f \in cache : e = f
  /\ \A e \in cache : Expires(e)
  /\ \A c \in Clients : Storing(c)
  /\ DenyTakesHold

\* The ring holds the latest events, each at its index modulo the size.
RingInv ==
  /\ events \in Seq(Nat)
  /\ auditIdx = Len(events)
  /\ auditCount = IF Len(events) < RingSize THEN Len(events) ELSE RingSize
  /\ ring \in [0..(RingSize - 1) -> Nat]
  /\ \A j \in 1..Len(events) :
       Len(events) < j + auditCount => ring[(j - 1) % RingSize] = events[j]

\* The receipts that have had their audit event, and those whose handler has
\* still to record it.
Recorded == {events[i] : i \in 1..Len(events)}
Pending == {req[c].index : c \in {d \in Clients : pc[d] \in {"reply", "after"}}}

DrainInv ==
  /\ life # "crashed" => Recorded \cup Pending = (born + 1)..appended
  /\ life = "stopped" => \A c \in Clients : pc[c] = "closed"

DaemonInv == TypeInv /\ HandlerInv /\ RequestInv /\ KeyInv /\ DenyInv /\ RingInv /\ DrainInv

-----------------------------------------------------------------------------
(* Arithmetic of the ring.                                                 *)

\* A quotient and a remainder.
LEMMA ModDiv ==
  ASSUME NEW x \in Nat, NEW r \in Nat, r > 0
  PROVE  /\ x % r \in 0..(r - 1)
         /\ \E q \in Nat : x = q * r + (x % r)
<1>1. x % r \in 0..(r - 1)
  BY SMTT(30)
<1>2. \E q \in Nat : x = q * r + (x % r)
  BY SMTT(30)
<1> QED  BY <1>1, <1>2

\* They are unique.
LEMMA ModUnique ==
  ASSUME NEW r \in Nat, r > 0, NEW x \in Nat, NEW q \in Int, NEW m \in 0..(r - 1), x = q * r + m
  PROVE  x % r = m
BY SMTT(30)

\* Two entries less than a whole ring apart have different places.
LEMMA ModDiffers ==
  ASSUME NEW r \in Nat, r > 0, NEW x \in Nat, NEW y \in Nat, x < y, y < x + r
  PROVE  x % r # y % r
<1> SUFFICES ASSUME x % r = y % r
             PROVE  FALSE
  OBVIOUS
<1> DEFINE m == x % r
<1>1. PICK q \in Nat : x = q * r + m
  BY ModDiv
<1>2. PICK p \in Nat : y = p * r + m
  BY ModDiv
<1>3. x = q * r + m /\ y = p * r + m /\ q \in Nat /\ p \in Nat /\ m \in 0..(r - 1)
  BY <1>1, <1>2, ModDiv
<1> HIDE DEF m
<1>4. CASE p <= q
  <2>1. p * r <= q * r
    BY <1>3, <1>4, SMTT(30)
  <2> QED  BY <1>3, <2>1, SMTT(30)
<1>5. CASE q < p
  <2>1. (q + 1) * r <= p * r
    BY <1>3, <1>5, SMTT(30)
  <2> QED  BY <1>3, <2>1, SMTT(30)
<1> QED  BY <1>3, <1>4, <1>5, SMTT(30)

\* A remainder taken before an addition, or after a whole ring, is harmless.
LEMMA ModAdds ==
  ASSUME NEW r \in Nat, r > 0, NEW x \in Nat, NEW k \in Nat
  PROVE  (((x + r) % r) + k) % r = (x + k) % r
<1> DEFINE y == x + r
           z == (y % r) + k
           m == z % r
<1>1. y \in Nat /\ x + k \in Nat
  OBVIOUS
<1>2. y % r \in 0..(r - 1)
  BY <1>1, ModDiv
<1>3. z \in Nat
  BY <1>2, SMTT(30)
<1>4. m \in 0..(r - 1)
  BY <1>3, ModDiv
<1>5. PICK a \in Nat : y = a * r + (y % r)
  BY <1>1, ModDiv
<1>6. PICK b \in Nat : z = b * r + m
  BY <1>3, ModDiv
<1>7. x + r = a * r + (z - k)
  BY <1>1, <1>2, <1>3, <1>5, SMTT(30)
<1> HIDE DEF m, z
<1>8. (a + b - 1) * r = a * r + b * r - r /\ a + b - 1 \in Int
  BY SMTT(30)
<1>9. x + k = (a + b - 1) * r + m
  BY <1>3, <1>4, <1>7, <1>8, <1>6, SMTT(30)
<1>10. (x + k) % r = m
  BY <1>1, <1>4, <1>8, <1>9, ModUnique
<1> QED  BY <1>10 DEF m, z

-----------------------------------------------------------------------------
(* The audit ring.                                                         *)

\* recordAuditEvent overwrites the oldest entry only.
LEMMA RingAppend ==
  ASSUME RingInv, NEW x \in Nat,
         ring' = [ring EXCEPT ![auditIdx % RingSize] = x],
         auditIdx' = auditIdx + 1,
         auditCount' = IF auditCount < RingSize THEN auditCount + 1 ELSE auditCount,
         events' = Append(events, x)
  PROVE  RingInv'
<1> DEFINE n == Len(events)
           i == auditIdx % RingSize
<1>0. RingSize \in Nat /\ RingSize > 0
  BY DaemonAssumption, SMTT(30) DEF DaemonAssumption
<1>1. /\ events \in Seq(Nat) /\ auditIdx = n /\ n \in Nat
      /\ auditCount = IF n < RingSize THEN n ELSE RingSize
      /\ ring \in [0..(RingSize - 1) -> Nat]
  BY DEF RingInv
<1>2. \A j \in 1..n : n < j + auditCount => ring[(j - 1) % RingSize] = events[j]
  BY DEF RingInv
<1>3. /\ events' \in Seq(Nat) /\ Len(events') = n + 1
      /\ \A j \in 1..n : events'[j] = events[j]
      /\ events'[n + 1] = x
  BY <1>1, AppendProperties
<1>4. i \in 0..(RingSize - 1)
  BY <1>0, <1>1, ModDiv
<1> HIDE DEF i, n
<1>5. /\ ring' \in [0..(RingSize - 1) -> Nat]
      /\ \A k \in 0..(RingSize - 1) : ring'[k] = IF k = i THEN x ELSE ring[k]
  BY <1>1, <1>4, SMTT(30) DEF i
<1>6. auditCount' = IF n + 1 < RingSize THEN n + 1 ELSE RingSize
  BY <1>0, <1>1, SMTT(30)
<1>7. ASSUME NEW j \in 1..(n + 1), n + 1 < j + auditCount'
      PROVE  ring'[(j - 1) % RingSize] = events'[j]
  <2>1. CASE j = n + 1
    <3>1. j - 1 = auditIdx
      BY <1>1, <2>1, SMTT(30)
    <3>2. (j - 1) % RingSize = i
      BY <3>1 DEF i
    <3> QED  BY <1>3, <1>4, <1>5, <2>1, <3>2, ZenonT(30)
  <2>2. CASE j # n + 1
    <3>1. j \in 1..n /\ j - 1 \in Nat /\ j - 1 < auditIdx /\ auditIdx < j - 1 + RingSize /\ n < j + auditCount
      BY <1>0, <1>1, <1>6, <1>7, <2>2, SMTT(30)
    <3>2. (j - 1) % RingSize # i
      BY <1>0, <1>1, <3>1, ModDiffers DEF i
    <3>3. (j - 1) % RingSize \in 0..(RingSize - 1)
      BY <1>0, <3>1, ModDiv
    <3> QED  BY <1>2, <1>3, <1>5, <3>1, <3>2, <3>3, ZenonT(30)
  <2> QED  BY <2>1, <2>2
<1>8. auditIdx' = Len(events')
  BY <1>1, <1>3
<1> QED  BY <1>3, <1>5, <1>6, <1>7, <1>8, ZenonT(30) DEF RingInv

\* getAuditEvents returns what the ring holds in the right order.
LEMMA RingExact ==
  ASSUME RingInv
  PROVE  AuditEventsExact
<1> SUFFICES ASSUME NEW limit \in 1..RingSize
             PROVE  AuditEvents(limit) =
                      SubSeq(events, IF Len(events) > limit THEN Len(events) - limit + 1 ELSE 1, Len(events))
  BY DEF AuditEventsExact
<1> DEFINE l == Len(events)
           n == IF limit > auditCount THEN auditCount ELSE limit
           start == (auditIdx - n + RingSize) % RingSize
           m == IF l > limit THEN l - limit + 1 ELSE 1
<1>0. RingSize \in Nat /\ RingSize > 0
  BY DaemonAssumption, SMTT(30) DEF DaemonAssumption
<1>1. /\ events \in Seq(Nat) /\ auditIdx = l /\ l \in Nat
      /\ auditCount = IF l < RingSize THEN l ELSE RingSize
  BY DEF RingInv
<1>2. \A j \in 1..l : l < j + auditCount => ring[(j - 1) % RingSize] = events[j]
  BY DEF RingInv
<1>3. ~(limit < 1 \/ limit > RingSize)
  BY <1>0, SMTT(30)
<1>4. AuditEvents(limit) = [i \in 1..n |-> ring[(start + i - 1) % RingSize]]
  BY <1>3, ZenonT(30) DEF AuditEvents
<1>5. \A i \in 1..l : events[i] \in Nat
  BY <1>1, ElementOfSeq
<1> HIDE DEF l, n, start, m
<1>6. /\ n \in Nat /\ n <= l /\ n <= auditCount /\ m \in Nat /\ m \in Int /\ l \in Int
      /\ m = l - n + 1 /\ l - m + 1 = n /\ (IF m <= l THEN l - m + 1 ELSE 0) = n
      /\ m..l \subseteq 1..l
  BY <1>0, <1>1, SMTT(30) DEF n, m
<1>7. \A i \in m..l : events[i] \in Nat
  BY <1>5, <1>6
<1>8. /\ SubSeq(events, m, l) \in Seq(Nat)
      /\ Len(SubSeq(events, m, l)) = IF m <= l THEN l - m + 1 ELSE 0
      /\ \A i \in 1..(l - m + 1) : SubSeq(events, m, l)[i] = events[m + i - 1]
  <2>1. m \in Int /\ l \in Int
    BY <1>6
  <2> QED  BY <1>7, <2>1, SubSeqProperties
<1>9. ASSUME NEW i \in 1..n
      PROVE  ring[(start + i - 1) % RingSize] = events[m + i - 1]
  <2> DEFINE x == l - n
             k == i - 1
             j == m + i - 1
  <2>1. x \in Nat /\ k \in Nat /\ j - 1 = x + k /\ j \in 1..l /\ l < j + auditCount
    BY <1>0, <1>1, <1>6, SMTT(30)
  <2>2. start = (x + RingSize) % RingSize
    BY <1>1 DEF start
  <2>3. start \in Nat
    <3>1. x + RingSize \in Nat
      BY <1>0, <2>1, SMTT(30)
    <3>2. start \in 0..(RingSize - 1)
      BY <1>0, <2>2, <3>1, ModDiv
    <3> QED  BY <1>0, <3>2, SMTT(30)
  <2>4. start + i - 1 = start + k
    BY <2>3, SMTT(30)
  <2>5. (start + k) % RingSize = (x + k) % RingSize
    <3>1. (((x + RingSize) % RingSize) + k) % RingSize = (x + k) % RingSize
      BY <1>0, <2>1, ModAdds
    <3> QED  BY <2>2, <3>1
  <2>6. (start + i - 1) % RingSize = (j - 1) % RingSize
    BY <2>1, <2>4, <2>5
  <2>7. ring[(j - 1) % RingSize] = events[j]
    BY <1>2, <2>1
  <2> QED  BY <2>6, <2>7
<1> DEFINE s == [i \in 1..n |-> ring[(start + i - 1) % RingSize]]
           t == SubSeq(events, m, l)
<1>10. \A i \in 1..n : s[i] = t[i] /\ s[i] \in Nat
  <2> SUFFICES ASSUME NEW i \in 1..n
               PROVE  s[i] = t[i] /\ s[i] \in Nat
    OBVIOUS
  <2>1. s[i] = events[m + i - 1]
    BY <1>9
  <2>2. i \in 1..(l - m + 1) /\ m + i - 1 \in 1..l
    BY <1>6, SMTT(30)
  <2> QED  BY <1>5, <1>8, <2>1, <2>2
<1>11. t = s
  <2>1. DOMAIN t = 1..n /\ t \in [1..n -> Nat]
    BY <1>6, <1>8, LenProperties
  <2> HIDE DEF t
  <2>2. s \in [1..n -> Nat]
    BY <1>10
  <2>3. \A i \in 1..n : s[i] = t[i]
    BY <1>10
  <2> HIDE DEF s
  <2>4. t = [i \in 1..n |-> t[i]] /\ s = [i \in 1..n |-> s[i]]
    BY <2>1, <2>2, ZenonT(30)
  <2>5. [i \in 1..n |-> t[i]] = [i \in 1..n |-> s[i]]
    BY <2>3, ZenonT(30)
  <2> QED  BY <2>4, <2>5
<1> QED  BY <1>4, <1>11 DEF s, t, m, l

-----------------------------------------------------------------------------
(* Steps of one handler.                                                   *)

\* No handler but c moves.
Others(c) ==
  \A d \in Clients : d # c => pc'[d] = pc[d] /\ req'[d] = req[d] /\ staleFor'[d] = staleFor[d]

\* The values of the constants.
LEMMA Constants ==
  /\ NoClient \notin Clients
  /\ TTL \in Nat /\ TTL > 0 /\ Lag \in Nat /\ RingSize \in Nat /\ RingSize > 0
BY DaemonAssumption, SMTT(30) DEF DaemonAssumption

\* Handler c moves to place v; the rest of its state stays or changes.
LEMMA HandlerMoves ==
  ASSUME HandlerInv, NEW c \in Clients, NEW v \in Places,
         pc' = [pc EXCEPT ![c] = v],
         req' = req \/ \E r : req' = [req EXCEPT ![c] = r],
         key' = key \/ \E k : key' = [key EXCEPT ![c] = k],
         staleFor' = staleFor \/ \E n : staleFor' = [staleFor EXCEPT ![c] = n]
  PROVE  HandlerInv' /\ Others(c) /\ pc'[c] = v
<1>1. pc \in [Clients -> Places] /\ DOMAIN req = Clients /\ DOMAIN key = Clients /\ DOMAIN staleFor = Clients
  BY DEF HandlerInv
<1>2. pc' \in [Clients -> Places] /\ pc'[c] = v /\ \A d \in Clients : d # c => pc'[d] = pc[d]
  BY <1>1, SMTT(30)
<1>3. DOMAIN req' = Clients /\ \A d \in Clients : d # c => req'[d] = req[d]
  BY <1>1, ZenonT(30)
<1>4. DOMAIN key' = Clients
  BY <1>1, ZenonT(30)
<1>5. DOMAIN staleFor' = Clients /\ \A d \in Clients : d # c => staleFor'[d] = staleFor[d]
  BY <1>1, ZenonT(30)
<1> QED  BY <1>2, <1>3, <1>4, <1>5, ZenonT(30) DEF HandlerInv, Others

\* Done.
LEMMA DoneMoves ==
  ASSUME HandlerInv, NEW c \in Clients, Done(c)
  PROVE  HandlerInv' /\ Others(c) /\ pc'[c] \in {"idle", "closed"}
<1> DEFINE v == IF life = "up" THEN "idle" ELSE "closed"
<1>1. v \in Places /\ v \in {"idle", "closed"}
  BY DEF Places
<1>2. /\ pc' = [pc EXCEPT ![c] = v] /\ req' = [req EXCEPT ![c] = NoRequest]
      /\ key' = [key EXCEPT ![c] = "none"] /\ staleFor' = [staleFor EXCEPT ![c] = 0]
  BY ZenonT(30) DEF Done
<1> HIDE DEF v
<1>3. HandlerInv' /\ Others(c) /\ pc'[c] = v
  BY <1>1, <1>2, HandlerMoves
<1> QED  BY <1>1, <1>3

\* Requests are not concerned.
LEMMA RequestFrame ==
  ASSUME RequestInv, NEW c \in Clients, Others(c), RequestOK(c)'
  PROVE  RequestInv'
<1> SUFFICES ASSUME NEW d \in Clients
             PROVE  RequestOK(d)'
  BY DEF RequestInv
<1>1. CASE d = c
  BY <1>1
<1>2. CASE d # c
  <2>1. pc'[d] = pc[d] /\ req'[d] = req[d] /\ RequestOK(d)
    BY <1>2 DEF Others, RequestInv
  <2> QED  BY <2>1, ZenonT(30) DEF RequestOK
<1> QED  BY <1>1, <1>2

\* Keys are not concerned.
LEMMA KeyFrame ==
  ASSUME KeyInv, NEW c \in Clients, Others(c), UNCHANGED keyVars, pc'[c] # "save"
  PROVE  KeyInv'
<1>1. keys' = keys /\ keyCache' = keyCache /\ keyMu' = keyMu
  BY DEF keyVars
<1>2. ASSUME NEW d \in Clients  PROVE Saving(d)'
  <2>1. CASE d = c
    BY <2>1 DEF Saving
  <2>2. CASE d # c
    <3>1. pc'[d] = pc[d] /\ req'[d] = req[d] /\ Saving(d)
      BY <2>2 DEF Others, KeyInv
    <3> QED  BY <1>1, <3>1, ZenonT(30) DEF Saving
  <2> QED  BY <2>1, <2>2
<1>3. KeyCacheCoherent'
  BY <1>1, ZenonT(30) DEF KeyInv, KeyCacheCoherent
<1> QED  BY <1>1, <1>2, <1>3, ZenonT(30) DEF KeyInv

\* Nothing that Expires and Storing read changes.
LEMMA DenyFrame ==
  ASSUME DenyInv, NEW c \in Clients, Others(c), UNCHANGED <<policyVars, now>>,
         pc'[c] # "store", pc'[c] = "load" => staleFor'[c] < TTL + Lag
  PROVE  DenyInv'
<1>1. /\ policies' = policies /\ cache' = cache /\ polMu' = polMu /\ listed' = listed
      /\ listedAt' = listedAt /\ since' = since /\ now' = now
  BY DEF policyVars
<1>2. EnabledPolicies' = EnabledPolicies
  BY <1>1 DEF EnabledPolicies, Enabled
<1>3. ASSUME NEW e \in cache  PROVE Expires(e)'
  <2>1. Expires(e)
    BY DEF DenyInv
  <2> QED  BY <1>1, <1>2, <2>1, ZenonT(30) DEF Expires, Denied
<1>4. ASSUME NEW d \in Clients  PROVE Storing(d)'
  <2>1. CASE d = c
    BY <2>1 DEF Storing
  <2>2. CASE d # c
    <3>1. pc'[d] = pc[d] /\ Storing(d)
      BY <2>2 DEF Others, DenyInv
    <3> QED  BY <1>1, <1>2, <3>1, ZenonT(30) DEF Storing, Denied
  <2> QED  BY <2>1, <2>2
<1>5. DenyTakesHold'
  BY ZenonT(30) DEF DenyInv, DenyTakesHold, Others
<1>6. since' \in [Actions -> Nat] /\ \A a \in Actions : since'[a] <= now'
  BY <1>1, ZenonT(30) DEF DenyInv
<1>7. (\A e \in cache' : Expires(e)') /\ \A e, f \in cache' : e = f
  BY <1>1, <1>3 DEF DenyInv
<1> QED  BY <1>4, <1>5, <1>6, <1>7, ZenonT(30) DEF DenyInv

\* Events are not concerned.
LEMMA RingFrame ==
  ASSUME RingInv, UNCHANGED ringVars
  PROVE  RingInv'
<1>1. ring' = ring /\ auditIdx' = auditIdx /\ auditCount' = auditCount /\ events' = events
  BY DEF ringVars
<1> QED  BY <1>1, ZenonT(30) DEF RingInv

\* A handler that has no event to record, before or after.
LEMMA DrainFrame ==
  ASSUME DrainInv, NEW c \in Clients, Others(c), UNCHANGED <<life, born, appended, events>>,
         pc[c] \notin {"reply", "after", "closed"}, pc'[c] \notin {"reply", "after"}
  PROVE  DrainInv'
<1>1. Recorded' = Recorded
  BY DEF Recorded
<1>2. Pending' = Pending
  <2>1. {d \in Clients : pc'[d] \in {"reply", "after"}} = {d \in Clients : pc[d] \in {"reply", "after"}}
    BY ZenonT(30) DEF Others
  <2>2. \A d \in Clients : pc[d] \in {"reply", "after"} => req'[d] = req[d]
    BY ZenonT(30) DEF Others
  <2> QED  BY <2>1, <2>2, ZenonT(30) DEF Pending
<1>3. life # "stopped"
  BY ZenonT(30) DEF DrainInv
<1> QED  BY <1>1, <1>2, <1>3, ZenonT(30) DEF DrainInv

\* Types are not concerned.
LEMMA TypeFrame ==
  ASSUME TypeInv, UNCHANGED <<policies, life, born, appended, now>>,
         polMu' \in Clients \cup {NoClient}
  PROVE  TypeInv'
BY ZenonT(30) DEF TypeInv, Rules

\* A step of handler c that touches nothing but its own state.
LEMMA QuietStep ==
  ASSUME DaemonInv, NEW c \in Clients, pc[c] \notin {"reply", "after", "closed"},
         UNCHANGED <<policyVars, keyVars, ringVars, process, appended, now>>,
         HandlerInv', Others(c), pc'[c] \notin {"store", "save", "reply", "after"},
         pc'[c] = "load" => staleFor'[c] < TTL + Lag,
         pc'[c] \in {"evaluate", "load"} => req'[c].action \in Actions /\ req'[c].agent \in Agents
  PROVE  DaemonInv'
<1>0. TypeInv /\ HandlerInv /\ RequestInv /\ KeyInv /\ DenyInv /\ RingInv /\ DrainInv
  BY DEF DaemonInv
<1>1. UNCHANGED <<policies, life, born, appended, now>> /\ polMu' = polMu /\ events' = events
  BY DEF policyVars, process, ringVars
<1>2. polMu \in Clients \cup {NoClient}
  BY <1>0 DEF TypeInv
<1>3. TypeInv'
  BY <1>0, <1>1, <1>2, TypeFrame
<1>4. RequestOK(c)'
  BY ZenonT(30) DEF RequestOK
<1>5. RequestInv'
  BY <1>0, <1>4, RequestFrame
<1>6. KeyInv'
  BY <1>0, KeyFrame
<1>7. DenyInv'
  <2>1. UNCHANGED <<policyVars, now>> /\ pc'[c] # "store"
    OBVIOUS
  <2> QED  BY <1>0, <2>1, DenyFrame
<1>8. RingInv'
  BY <1>0, RingFrame
<1>9. DrainInv'
  BY <1>0, <1>1, DrainFrame
<1> QED  BY <1>3, <1>5, <1>6, <1>7, <1>8, <1>9 DEF DaemonInv

-----------------------------------------------------------------------------
(* Every step keeps the invariant: handleSignAppend up to the keystore.    *)

\* A frame arrives.
LEMMA SignAppendStep ==
  ASSUME DaemonInv, NEW c \in Clients, SignAppend(c)
  PROVE  DaemonInv'
<1>0. HandlerInv
  BY DEF DaemonInv
<1>1. PICK a \in Actions, g \in Agents :
        req' = [req EXCEPT ![c] = [kind |-> "sign", action |-> a, agent |-> g]]
  BY ZenonT(30) DEF SignAppend
<1>2. /\ pc[c] = "idle" /\ pc' = [pc EXCEPT ![c] = "evaluate"] /\ key' = key /\ staleFor' = staleFor
      /\ UNCHANGED <<policyVars, keyVars, ringVars, process, appended, now>>
  BY DEF SignAppend
<1>3. "evaluate" \in Places
  BY DEF Places
<1>4. HandlerInv' /\ Others(c) /\ pc'[c] = "evaluate"
  BY <1>0, <1>1, <1>2, <1>3, HandlerMoves
<1>5. DOMAIN req = Clients
  BY <1>0 DEF HandlerInv
<1>6. req'[c] = [kind |-> "sign", action |-> a, agent |-> g]
  BY <1>1, <1>5, ZenonT(30)
<1>7. req'[c].action \in Actions /\ req'[c].agent \in Agents
  BY <1>6, SMTT(30)
<1> QED  BY <1>2, <1>4, <1>7, QuietStep

\* What a handler goes on with when it is done changes nothing else.
LEMMA DoneStep ==
  ASSUME DaemonInv, NEW c \in Clients, Done(c), pc[c] \notin {"reply", "after", "closed"},
         UNCHANGED <<policyVars, keyVars, ringVars, process, appended, now>>
  PROVE  DaemonInv'
<1>0. HandlerInv
  BY DEF DaemonInv
<1>1. HandlerInv' /\ Others(c) /\ pc'[c] \in {"idle", "closed"}
  BY <1>0, DoneMoves
<1> QED  BY <1>1, QuietStep

\* What Evaluate makes of a list, with the staleness it notes.
LEMMA VerdictMoves ==
  ASSUME HandlerInv, NEW c \in Clients, NEW list, Verdict(c, list)
  PROVE  /\ HandlerInv' /\ Others(c) /\ pc'[c] \in {"idle", "closed", "load"}
         /\ pc'[c] = "load" =>
              /\ req[c].action \notin Denied(list)
              /\ req' = req
              /\ staleFor'[c] = IF req[c].action \in Denied(EnabledPolicies)
                                THEN now - since[req[c].action] ELSE 0
<1>1. CASE req[c].action \in Denied(list)
  <2>1. Done(c)
    BY <1>1, ZenonT(30) DEF Verdict
  <2>2. HandlerInv' /\ Others(c) /\ pc'[c] \in {"idle", "closed"}
    BY <2>1, DoneMoves
  <2> QED  BY <2>2, ZenonT(30)
<1>2. CASE req[c].action \notin Denied(list)
  <2> DEFINE n == IF req[c].action \in Denied(EnabledPolicies) THEN now - since[req[c].action] ELSE 0
  <2>1. /\ pc' = [pc EXCEPT ![c] = "load"] /\ staleFor' = [staleFor EXCEPT ![c] = n]
        /\ req' = req /\ key' = key
    BY <1>2, ZenonT(30) DEF Verdict
  <2>2. DOMAIN staleFor = Clients
    BY DEF HandlerInv
  <2>3. "load" \in Places
    BY DEF Places
  <2> HIDE DEF n
  <2>4. HandlerInv' /\ Others(c) /\ pc'[c] = "load"
    BY <2>1, <2>3, HandlerMoves
  <2>5. staleFor'[c] = n
    BY <2>1, <2>2, ZenonT(30)
  <2> QED  BY <1>2, <2>1, <2>4, <2>5 DEF n
<1> QED  BY <1>1, <1>2

\* A list that has not expired lets nothing pass that was denied long ago.
LEMMA EvaluateCachedStep ==
  ASSUME DaemonInv, NEW c \in Clients, EvaluateCached(c)
  PROVE  DaemonInv'
<1>0. HandlerInv /\ RequestInv /\ DenyInv /\ TypeInv
  BY DEF DaemonInv
<1>1. /\ pc[c] = "evaluate"
      /\ UNCHANGED <<policyVars, keyVars, ringVars, process, appended, now>>
  BY DEF EvaluateCached
<1>2. PICK e \in cache : Verdict(c, e.list)
  BY DEF EvaluateCached
<1>3. req[c].action \in Actions /\ req[c].agent \in Agents
  BY <1>0, <1>1 DEF RequestInv, RequestOK
<1>4. now < e.expiresAt
  <2>1. PICK f \in cache : now < f.expiresAt
    BY DEF EvaluateCached, Fresh
  <2>2. e = f
    BY <1>0, <1>2, <2>1 DEF DenyInv
  <2> QED  BY <2>1, <2>2
<1>5. HandlerInv' /\ Others(c) /\ pc'[c] \in {"idle", "closed", "load"}
  BY <1>0, <1>2, VerdictMoves
<1>6. ASSUME pc'[c] = "load"  PROVE staleFor'[c] < TTL + Lag /\ req' = req
  <2> DEFINE a == req[c].action
  <2>1. /\ a \notin Denied(e.list) /\ req' = req
        /\ staleFor'[c] = IF a \in Denied(EnabledPolicies) THEN now - since[a] ELSE 0
    BY <1>0, <1>2, <1>6, VerdictMoves
  <2>2. /\ e.expiresAt \in Nat
        /\ a \in Denied(EnabledPolicies) => e.expiresAt <= since[a] + TTL + Lag
    BY <1>0, <1>2, <1>3, <2>1, ZenonT(30) DEF DenyInv, Expires
  <2>3. since[a] \in Nat /\ now \in Nat
    BY <1>0, <1>3 DEF DenyInv, TypeInv
  <2> HIDE DEF a
  <2> QED  BY <1>4, <2>1, <2>2, <2>3, Constants, SMTT(30)
<1>7. pc'[c] = "load" => req'[c].action \in Actions /\ req'[c].agent \in Agents
  BY <1>3, <1>6
<1> QED  BY <1>1, <1>5, <1>6, <1>7, QuietStep

\* ListEnabled reads the table under Store.mu.
LEMMA ListPoliciesStep ==
  ASSUME DaemonInv, NEW c \in Clients, ListPolicies(c)
  PROVE  DaemonInv'
<1>0. TypeInv /\ HandlerInv /\ RequestInv /\ KeyInv /\ DenyInv /\ RingInv /\ DrainInv
  BY DEF DaemonInv
<1>1. /\ pc[c] = "evaluate" /\ polMu = NoClient /\ polMu' = c /\ listed' = EnabledPolicies
      /\ listedAt' = now /\ pc' = [pc EXCEPT ![c] = "store"]
      /\ policies' = policies /\ cache' = cache /\ since' = since
      /\ UNCHANGED keyVars /\ UNCHANGED ringVars /\ req' = req /\ key' = key
      /\ staleFor' = staleFor /\ UNCHANGED process /\ appended' = appended /\ now' = now
  BY DEF ListPolicies
<1>2. life' = life /\ born' = born /\ events' = events
  BY <1>1 DEF process, ringVars
<1>3. "store" \in Places
  BY DEF Places
<1>4. HandlerInv' /\ Others(c) /\ pc'[c] = "store"
  BY <1>0, <1>1, <1>3, HandlerMoves
<1>5. TypeInv'
  BY <1>0, <1>1, <1>2, TypeFrame
<1>6. RequestOK(c)'
  BY <1>0, <1>1, <1>4, ZenonT(30) DEF RequestOK, RequestInv
<1>7. RequestInv'
  BY <1>0, <1>4, <1>6, RequestFrame
<1>8. KeyInv'
  BY <1>0, <1>1, <1>4, KeyFrame
<1>9. DenyInv'
  <2>1. EnabledPolicies' = EnabledPolicies
    BY <1>1 DEF EnabledPolicies, Enabled
  <2>2. \A e \in cache' : Expires(e)'
    <3> SUFFICES ASSUME NEW e \in cache
                 PROVE  Expires(e)'
      BY <1>1
    <3>1. Expires(e)
      BY <1>0 DEF DenyInv
    <3> QED  BY <1>1, <2>1, <3>1, ZenonT(30) DEF Expires, Denied
  <2>3. ASSUME NEW d \in Clients  PROVE Storing(d)'
    <3>1. CASE d = c
      <4>1. now \in Nat /\ now <= now /\ now <= now + Lag
        BY <1>0, Constants, SMTT(30) DEF TypeInv
      <4> QED  BY <1>1, <2>1, <3>1, <4>1, ZenonT(30) DEF Storing, Denied
    <3>2. CASE d # c
      <4>1. pc'[d] = pc[d] /\ Storing(d)
        BY <1>0, <1>4, <3>2 DEF Others, DenyInv
      <4>2. pc[d] # "store"
        BY <1>1, <4>1, Constants DEF Storing
      <4> QED  BY <4>1, <4>2 DEF Storing
    <3> QED  BY <3>1, <3>2
  <2>4. DenyTakesHold'
    BY <1>0, <1>4, ZenonT(30) DEF DenyInv, DenyTakesHold, Others
  <2>5. /\ since' \in [Actions -> Nat] /\ \A a \in Actions : since'[a] <= now'
        /\ \A e, f \in cache' : e = f
    BY <1>0, <1>1, ZenonT(30) DEF DenyInv
  <2> QED  BY <2>2, <2>3, <2>4, <2>5, ZenonT(30) DEF DenyInv
<1>10. RingInv'
  BY <1>0, <1>1, RingFrame
<1>11. DrainInv'
  BY <1>0, <1>1, <1>2, <1>4, DrainFrame
<1> QED  BY <1>4, <1>5, <1>7, <1>8, <1>9, <1>10, <1>11 DEF DaemonInv

\* The query fails.
LEMMA ListFailsStep ==
  ASSUME DaemonInv, NEW c \in Clients, ListFails(c)
  PROVE  DaemonInv'
<1>1. pc[c] = "evaluate" /\ Done(c) /\ UNCHANGED <<policyVars, keyVars, ringVars, process, appended, now>>
  BY DEF ListFails
<1> QED  BY <1>1, DoneStep

\* ListEnabled keeps the list it read: it expires at most TTL + Lag after
\* anything it misses began to be denied.
LEMMA CachePoliciesStep ==
  ASSUME DaemonInv, NEW c \in Clients, CachePolicies(c)
  PROVE  DaemonInv'
<1>0. TypeInv /\ HandlerInv /\ RequestInv /\ KeyInv /\ DenyInv /\ RingInv /\ DrainInv
  BY DEF DaemonInv
<1>1. /\ pc[c] = "store" /\ cache' = {[list |-> listed, expiresAt |-> now + TTL]}
      /\ polMu' = NoClient /\ Verdict(c, listed)
      /\ policies' = policies /\ since' = since
      /\ UNCHANGED keyVars /\ UNCHANGED ringVars
      /\ UNCHANGED process /\ appended' = appended /\ now' = now
  BY DEF CachePolicies
<1>2. life' = life /\ born' = born /\ events' = events
  BY <1>1 DEF process, ringVars
<1>3. HandlerInv' /\ Others(c) /\ pc'[c] \in {"idle", "closed", "load"}
  BY <1>0, <1>1, VerdictMoves
<1>4. req[c].action \in Actions /\ req[c].agent \in Agents
  BY <1>0, <1>1 DEF RequestInv, RequestOK
<1>5. TypeInv'
  BY <1>0, <1>1, <1>2, TypeFrame
<1>6. /\ polMu = c /\ listedAt \in Nat /\ listedAt <= now /\ now <= listedAt + Lag /\ now \in Nat
      /\ \A a \in Actions :
           a \in Denied(EnabledPolicies) /\ a \notin Denied(listed) => listedAt <= since[a]
      /\ \A a \in Actions : since[a] \in Nat
  BY <1>0, <1>1, ZenonT(30) DEF DenyInv, Storing, TypeInv
<1>7. ASSUME pc'[c] = "load"  PROVE staleFor'[c] < TTL + Lag /\ req' = req
  <2> DEFINE a == req[c].action
  <2>1. /\ a \notin Denied(listed) /\ req' = req
        /\ staleFor'[c] = IF a \in Denied(EnabledPolicies) THEN now - since[a] ELSE 0
    BY <1>0, <1>1, <1>7, VerdictMoves
  <2>2. (a \in Denied(EnabledPolicies) => listedAt <= since[a]) /\ since[a] \in Nat
    BY <1>4, <1>6, <2>1, ZenonT(30)
  <2> HIDE DEF a
  <2> QED  BY <1>6, <2>1, <2>2, Constants, SMTT(30)
<1>8. RequestOK(c)'
  BY <1>3, <1>4, <1>7, ZenonT(30) DEF RequestOK
<1>9. RequestInv'
  BY <1>0, <1>3, <1>8, RequestFrame
<1>10. KeyInv'
  BY <1>0, <1>1, <1>3, KeyFrame
<1>11. DenyInv'
  <2>1. EnabledPolicies' = EnabledPolicies
    BY <1>1 DEF EnabledPolicies, Enabled
  <2>2. \A e \in cache' : e.list = listed /\ e.expiresAt = now + TTL
    BY <1>1
  <2>3. now + TTL \in Nat /\ now + TTL <= now + TTL
    BY <1>6, Constants, SMTT(30)
  <2>4. ASSUME NEW a \in Actions, a \in Denied(EnabledPolicies), a \notin Denied(listed)
        PROVE  now + TTL <= since[a] + TTL + Lag
    <3>1. listedAt <= since[a] /\ since[a] \in Nat
      BY <1>6, <2>4, ZenonT(30)
    <3> QED  BY <1>6, <3>1, Constants, SMTT(30)
  <2>5. Denied(EnabledPolicies)' = Denied(EnabledPolicies)
    BY <2>1 DEF Denied
  <2>6. ASSUME NEW e \in cache'  PROVE Expires(e)'
    BY <1>1, <2>2, <2>3, <2>4, <2>5, ZenonT(30) DEF Expires
  <2>7. ASSUME NEW d \in Clients  PROVE Storing(d)'
    <3>1. CASE d = c
      BY <1>3, <3>1 DEF Storing
    <3>2. CASE d # c
      <4>1. pc'[d] = pc[d] /\ Storing(d)
        BY <1>0, <1>3, <3>2 DEF Others, DenyInv
      <4>2. pc[d] # "store"
        BY <1>6, <3>2, <4>1 DEF Storing
      <4> QED  BY <4>1, <4>2 DEF Storing
    <3> QED  BY <3>1, <3>2
  <2>8. DenyTakesHold'
    <3> SUFFICES ASSUME NEW d \in Clients, pc'[d] = "load"
                 PROVE  staleFor'[d] < TTL + Lag
      BY DEF DenyTakesHold
    <3>1. CASE d = c
      BY <1>7, <3>1
    <3>2. CASE d # c
      BY <1>0, <1>3, <3>2, ZenonT(30) DEF DenyInv, DenyTakesHold, Others
    <3> QED  BY <3>1, <3>2
  <2>9. /\ since' \in [Actions -> Nat] /\ \A a \in Actions : since'[a] <= now'
        /\ \A e, f \in cache' : e = f
    BY <1>0, <1>1, ZenonT(30) DEF DenyInv
  <2> QED  BY <2>6, <2>7, <2>8, <2>9, ZenonT(30) DEF DenyInv
<1>12. RingInv'
  BY <1>0, <1>1, RingFrame
<1>13. DrainInv'
  BY <1>0, <1>1, <1>2, <1>3, DrainFrame
<1> QED  BY <1>3, <1>5, <1>9, <1>10, <1>11, <1>12, <1>13 DEF DaemonInv

-----------------------------------------------------------------------------
(* Loading the key and appending.                                          *)

\* The key is in the cache.
LEMMA LoadCachedStep ==
  ASSUME DaemonInv, NEW c \in Clients, LoadCached(c)
  PROVE  DaemonInv'
<1>0. HandlerInv
  BY DEF DaemonInv
<1>1. /\ pc[c] = "load" /\ pc' = [pc EXCEPT ![c] = "append"] /\ req' = req /\ staleFor' = staleFor
      /\ \E k : key' = [key EXCEPT ![c] = k]
      /\ UNCHANGED <<policyVars, keyVars, ringVars, process, appended, now>>
  BY ZenonT(30) DEF LoadCached
<1>2. "append" \in Places
  BY DEF Places
<1>3. HandlerInv' /\ Others(c) /\ pc'[c] = "append"
  BY <1>0, <1>1, <1>2, HandlerMoves
<1> QED  BY <1>1, <1>3, QuietStep

\* The key of a file enters the cache while nobody is inside Save.
LEMMA LoadFileStep ==
  ASSUME DaemonInv, NEW c \in Clients, LoadFile(c)
  PROVE  DaemonInv'
<1>0. TypeInv /\ HandlerInv /\ RequestInv /\ KeyInv /\ DenyInv /\ RingInv /\ DrainInv
  BY DEF DaemonInv
<1> DEFINE g == req[c].agent
<1>1. /\ pc[c] = "load" /\ keyMu = NoClient /\ keys[g] \in {"full", "public"}
      /\ keyCache' = [keyCache EXCEPT ![g] = keys[g]]
      /\ pc' = [pc EXCEPT ![c] = "append"] /\ req' = req /\ staleFor' = staleFor
      /\ \E k : key' = [key EXCEPT ![c] = k]
      /\ UNCHANGED policyVars /\ keys' = keys /\ keyMu' = keyMu /\ UNCHANGED ringVars
      /\ UNCHANGED process /\ appended' = appended /\ now' = now
  BY ZenonT(30) DEF LoadFile
<1>2. life' = life /\ born' = born /\ events' = events /\ polMu' = polMu /\ policies' = policies
  BY <1>1 DEF process, ringVars, policyVars
<1>3. "append" \in Places
  BY DEF Places
<1>4. HandlerInv' /\ Others(c) /\ pc'[c] = "append"
  BY <1>0, <1>1, <1>3, HandlerMoves
<1>5. TypeInv'
  <2>1. polMu' \in Clients \cup {NoClient}
    BY <1>0, <1>2 DEF TypeInv
  <2> QED  BY <1>0, <1>1, <1>2, <2>1, TypeFrame
<1>6. RequestInv'
  <2>1. RequestOK(c)'
    BY <1>4, ZenonT(30) DEF RequestOK
  <2> QED  BY <1>0, <1>4, <2>1, RequestFrame
<1>7. g \in Agents
  BY <1>0, <1>1 DEF RequestInv, RequestOK
<1> HIDE DEF g
<1>8. KeyInv'
  <2>1. keys \in [Agents -> {"none", "torn", "full", "public"}] /\ keyCache \in [Agents -> {"none", "full", "public"}]
    BY <1>0 DEF KeyInv
  <2>2. keyCache' \in [Agents -> {"none", "full", "public"}]
        /\ \A h \in Agents : keyCache'[h] = IF h = g THEN keys[g] ELSE keyCache[h]
    BY <1>1, <1>7, <2>1, SMTT(30)
  <2>3. KeyCacheCoherent'
    BY <1>0, <1>1, <2>2, ZenonT(30) DEF KeyInv, KeyCacheCoherent
  <2>4. ASSUME NEW d \in Clients  PROVE pc'[d] # "save"
    <3>1. CASE d = c
      BY <1>4, <3>1
    <3>2. CASE d # c
      BY <1>0, <1>1, <1>4, <3>2, Constants, ZenonT(30) DEF Others, KeyInv, Saving
    <3> QED  BY <3>1, <3>2
  <2>5. \A d \in Clients : Saving(d)'
    BY <2>4 DEF Saving
  <2> QED  BY <1>0, <1>1, <2>1, <2>2, <2>3, <2>5, ZenonT(30) DEF KeyInv
<1>9. DenyInv'
  <2>1. UNCHANGED <<policyVars, now>> /\ pc'[c] # "store" /\ pc'[c] # "load"
    BY <1>1, <1>4
  <2> QED  BY <1>0, <1>4, <2>1, DenyFrame
<1>10. RingInv'
  BY <1>0, <1>1, RingFrame
<1>11. DrainInv'
  BY <1>0, <1>1, <1>2, <1>4, DrainFrame
<1> QED  BY <1>4, <1>5, <1>6, <1>8, <1>9, <1>10, <1>11 DEF DaemonInv

\* The key cannot be loaded.
LEMMA LoadFailsStep ==
  ASSUME DaemonInv, NEW c \in Clients, LoadFails(c)
  PROVE  DaemonInv'
<1>1. pc[c] = "load" /\ Done(c) /\ UNCHANGED <<policyVars, keyVars, ringVars, process, appended, now>>
  BY DEF LoadFails
<1> QED  BY <1>1, DoneStep

\* The receipt cannot be appended.
LEMMA AppendFailsStep ==
  ASSUME DaemonInv, NEW c \in Clients, AppendFails(c)
  PROVE  DaemonInv'
<1>1. pc[c] = "append" /\ Done(c) /\ UNCHANGED <<policyVars, keyVars, ringVars, process, appended, now>>
  BY DEF AppendFails
<1> QED  BY <1>1, DoneStep

\* The receipt that is appended is pending.
LEMMA AppendReceiptStep ==
  ASSUME DaemonInv, NEW c \in Clients, AppendReceipt(c)
  PROVE  DaemonInv'
<1>0. TypeInv /\ HandlerInv /\ RequestInv /\ KeyInv /\ DenyInv /\ RingInv /\ DrainInv
  BY DEF DaemonInv
<1>1. /\ pc[c] = "append" /\ appended' = appended + 1
      /\ req' = [req EXCEPT ![c] = [kind |-> "receipt", index |-> appended + 1]]
      /\ pc' = [pc EXCEPT ![c] = "reply"]
      /\ UNCHANGED policyVars /\ UNCHANGED keyVars /\ UNCHANGED ringVars
      /\ key' = key /\ staleFor' = staleFor /\ UNCHANGED process /\ now' = now
  BY DEF AppendReceipt
<1>2. life' = life /\ born' = born /\ events' = events /\ polMu' = polMu /\ policies' = policies
  BY <1>1 DEF process, ringVars, policyVars
<1>3. "reply" \in Places
  BY DEF Places
<1>4. HandlerInv' /\ Others(c) /\ pc'[c] = "reply"
  BY <1>0, <1>1, <1>3, HandlerMoves
<1>5. appended \in Nat /\ born \in 0..appended
  BY <1>0 DEF TypeInv
<1>6. appended' \in Nat /\ born' \in 0..appended'
  BY <1>1, <1>2, <1>5, SMTT(30)
<1>7. TypeInv'
  BY <1>0, <1>1, <1>2, <1>6, ZenonT(30) DEF TypeInv, Rules
<1>8. req'[c].index = appended + 1
  <2>1. req'[c] = [kind |-> "receipt", index |-> appended + 1]
    BY <1>0, <1>1, ZenonT(30) DEF HandlerInv
  <2> QED  BY <2>1, SMTT(30)
<1>9. RequestInv'
  <2>1. req'[c].index \in Nat
    BY <1>5, <1>8, SMTT(30)
  <2>2. RequestOK(c)'
    BY <1>4, <2>1, ZenonT(30) DEF RequestOK
  <2> QED  BY <1>0, <1>4, <2>2, RequestFrame
<1>10. KeyInv'
  BY <1>0, <1>1, <1>4, KeyFrame
<1>11. DenyInv'
  <2>1. UNCHANGED <<policyVars, now>> /\ pc'[c] # "store" /\ pc'[c] # "load"
    BY <1>1, <1>4
  <2> QED  BY <1>0, <1>4, <2>1, DenyFrame
<1>12. RingInv'
  BY <1>0, <1>1, RingFrame
<1>13. DrainInv'
  <2>1. Recorded' = Recorded
    BY <1>2 DEF Recorded
  <2>2. Pending' = Pending \cup {appended + 1}
    <3>1. ASSUME NEW x \in Pending'  PROVE x \in Pending \cup {appended + 1}
      <4>1. PICK d \in Clients : pc'[d] \in {"reply", "after"} /\ x = req'[d].index
        BY <3>1, ZenonT(30) DEF Pending
      <4>2. CASE d = c
        BY <1>8, <4>1, <4>2
      <4>3. CASE d # c
        BY <1>4, <4>1, <4>3, ZenonT(30) DEF Others, Pending
      <4> QED  BY <4>2, <4>3
    <3>2. ASSUME NEW x \in Pending  PROVE x \in Pending'
      <4>1. PICK d \in Clients : pc[d] \in {"reply", "after"} /\ x = req[d].index
        BY <3>2, ZenonT(30) DEF Pending
      <4>2. d # c
        BY <1>1, <4>1
      <4> QED  BY <1>4, <4>1, <4>2, ZenonT(30) DEF Others, Pending
    <3>3. appended + 1 \in Pending'
      BY <1>4, <1>8, ZenonT(30) DEF Pending
    <3> QED  BY <3>1, <3>2, <3>3, ZenonT(30)
  <2>3. life # "stopped"
    BY <1>0, <1>1, ZenonT(30) DEF DrainInv
  <2>4. (born + 1)..(appended + 1) = ((born + 1)..appended) \cup {appended + 1}
    BY <1>5, SMTT(30)
  <2> QED  BY <1>0, <1>1, <1>2, <2>1, <2>2, <2>3, <2>4, ZenonT(30) DEF DrainInv
<1> QED  BY <1>4, <1>7, <1>9, <1>10, <1>11, <1>12, <1>13 DEF DaemonInv

\* writeOK.
LEMMA ReplyStep ==
  ASSUME DaemonInv, NEW c \in Clients, Reply(c)
  PROVE  DaemonInv'
<1>0. TypeInv /\ HandlerInv /\ RequestInv /\ KeyInv /\ DenyInv /\ RingInv /\ DrainInv
  BY DEF DaemonInv
<1>1. /\ pc[c] = "reply" /\ pc' = [pc EXCEPT ![c] = "after"]
      /\ UNCHANGED policyVars /\ UNCHANGED keyVars /\ UNCHANGED ringVars
      /\ req' = req /\ key' = key /\ staleFor' = staleFor
      /\ UNCHANGED process /\ appended' = appended /\ now' = now
  BY DEF Reply
<1>2. life' = life /\ born' = born /\ events' = events /\ polMu' = polMu /\ policies' = policies
  BY <1>1 DEF process, ringVars, policyVars
<1>3. "after" \in Places
  BY DEF Places
<1>4. HandlerInv' /\ Others(c) /\ pc'[c] = "after"
  BY <1>0, <1>1, <1>3, HandlerMoves
<1>5. TypeInv'
  <2>1. polMu' \in Clients \cup {NoClient}
    BY <1>0, <1>2 DEF TypeInv
  <2> QED  BY <1>0, <1>1, <1>2, <2>1, TypeFrame
<1>6. RequestInv'
  <2>1. RequestOK(c)'
    BY <1>0, <1>1, <1>4, ZenonT(30) DEF RequestOK, RequestInv
  <2> QED  BY <1>0, <1>4, <2>1, RequestFrame
<1>7. KeyInv'
  BY <1>0, <1>1, <1>4, KeyFrame
<1>8. DenyInv'
  <2>1. UNCHANGED <<policyVars, now>> /\ pc'[c] # "store" /\ pc'[c] # "load"
    BY <1>1, <1>4
  <2> QED  BY <1>0, <1>4, <2>1, DenyFrame
<1>9. RingInv'
  BY <1>0, <1>1, RingFrame
<1>10. DrainInv'
  <2>1. Recorded' = Recorded
    BY <1>2 DEF Recorded
  <2>2. \A d \in Clients : pc'[d] \in {"reply", "after"} <=> pc[d] \in {"reply", "after"}
    BY <1>1, <1>4, ZenonT(30) DEF Others
  <2>3. Pending' = Pending
    BY <1>1, <2>2, ZenonT(30) DEF Pending
  <2>4. life # "stopped"
    BY <1>0, <1>1, ZenonT(30) DEF DrainInv
  <2> QED  BY <1>0, <1>1, <1>2, <2>1, <2>3, <2>4, ZenonT(30) DEF DrainInv
<1> QED  BY <1>4, <1>5, <1>6, <1>7, <1>8, <1>9, <1>10 DEF DaemonInv

\* recordAuditEvent: what was pending is recorded.
LEMMA AfterAppendStep ==
  ASSUME DaemonInv, NEW c \in Clients, AfterAppend(c)
  PROVE  DaemonInv'
<1>0. TypeInv /\ HandlerInv /\ RequestInv /\ KeyInv /\ DenyInv /\ RingInv /\ DrainInv
  BY DEF DaemonInv
<1> DEFINE x == req[c].index
<1>1. /\ pc[c] = "after" /\ Done(c)
      /\ ring' = [ring EXCEPT ![auditIdx % RingSize] = x] /\ auditIdx' = auditIdx + 1
      /\ auditCount' = IF auditCount < RingSize THEN auditCount + 1 ELSE auditCount
      /\ events' = Append(events, x)
      /\ UNCHANGED policyVars /\ UNCHANGED keyVars
      /\ UNCHANGED process /\ appended' = appended /\ now' = now
  BY DEF AfterAppend
<1>2. life' = life /\ born' = born /\ polMu' = polMu /\ policies' = policies
  BY <1>1 DEF process, policyVars
<1>3. HandlerInv' /\ Others(c) /\ pc'[c] \in {"idle", "closed"}
  BY <1>0, <1>1, DoneMoves
<1>4. x \in Nat
  BY <1>0, <1>1 DEF RequestInv, RequestOK
<1>5. TypeInv'
  <2>1. polMu' \in Clients \cup {NoClient}
    BY <1>0, <1>2 DEF TypeInv
  <2> QED  BY <1>0, <1>1, <1>2, <2>1, TypeFrame
<1>6. RequestInv'
  <2>1. RequestOK(c)'
    BY <1>3, ZenonT(30) DEF RequestOK
  <2> QED  BY <1>0, <1>3, <2>1, RequestFrame
<1>7. KeyInv'
  BY <1>0, <1>1, <1>3, KeyFrame
<1>8. DenyInv'
  <2>1. UNCHANGED <<policyVars, now>> /\ pc'[c] # "store" /\ pc'[c] # "load"
    BY <1>1, <1>3
  <2> QED  BY <1>0, <1>3, <2>1, DenyFrame
<1>9. RingInv'
  BY <1>0, <1>1, <1>4, RingAppend
<1>10. DrainInv'
  <2>1. Recorded' = Recorded \cup {x}
    <3> HIDE DEF x
    <3>1. events \in Seq(Nat) /\ Len(events) \in Nat
      BY <1>0, LenProperties DEF RingInv
    <3>2. /\ Len(events') = Len(events) + 1
          /\ \A j \in 1..Len(events) : events'[j] = events[j]
          /\ events'[Len(events) + 1] = x
      BY <1>1, <1>4, <3>1, AppendProperties
    <3>3. 1..(Len(events) + 1) = (1..Len(events)) \cup {Len(events) + 1}
      BY <3>1, SMTT(30)
    <3>4. ASSUME NEW y \in Recorded'  PROVE y \in Recorded \cup {x}
      <4>1. PICK i \in 1..Len(events') : y = events'[i]
        BY <3>4, ZenonT(30) DEF Recorded
      <4>2. i \in 1..Len(events) \/ i = Len(events) + 1
        BY <3>1, <3>2, <4>1, SMTT(30)
      <4> QED  BY <3>2, <4>1, <4>2, ZenonT(30) DEF Recorded
    <3>5. ASSUME NEW y \in Recorded  PROVE y \in Recorded'
      <4>1. PICK i \in 1..Len(events) : y = events[i]
        BY <3>5, ZenonT(30) DEF Recorded
      <4>2. i \in 1..Len(events')
        BY <3>1, <3>2, <4>1, SMTT(30)
      <4>3. y = events'[i]
        BY <3>2, <4>1, ZenonT(30)
      <4> QED  BY <4>2, <4>3, ZenonT(30) DEF Recorded
    <3>6. x \in Recorded'
      <4>1. Len(events) + 1 \in 1..Len(events')
        BY <3>2, <3>3, ZenonT(30)
      <4> QED  BY <3>2, <4>1, ZenonT(30) DEF Recorded
    <3> QED  BY <3>4, <3>5, <3>6, ZenonT(30)
  <2>2. Pending = Pending' \cup {x}
    <3>1. ASSUME NEW y \in Pending'  PROVE y \in Pending
      <4>1. PICK d \in Clients : pc'[d] \in {"reply", "after"} /\ y = req'[d].index
        BY <3>1, ZenonT(30) DEF Pending
      <4>2. d # c
        BY <1>3, <4>1
      <4> QED  BY <1>3, <4>1, <4>2, ZenonT(30) DEF Others, Pending
    <3>2. ASSUME NEW y \in Pending  PROVE y \in Pending' \cup {x}
      <4>1. PICK d \in Clients : pc[d] \in {"reply", "after"} /\ y = req[d].index
        BY <3>2, ZenonT(30) DEF Pending
      <4>2. CASE d = c
        BY <4>1, <4>2
      <4>3. CASE d # c
        BY <1>3, <4>1, <4>3, ZenonT(30) DEF Others, Pending
      <4> QED  BY <4>2, <4>3
    <3>3. x \in Pending
      BY <1>1, ZenonT(30) DEF Pending
    <3> QED  BY <3>1, <3>2, <3>3, ZenonT(30)
  <2>3. life # "stopped"
    BY <1>0, <1>1, ZenonT(30) DEF DrainInv
  <2>4. Recorded' \cup Pending' = Recorded \cup Pending
    BY <2>1, <2>2, ZenonT(30)
  <2> QED  BY <1>0, <1>1, <1>2, <2>3, <2>4, ZenonT(30) DEF DrainInv
<1> QED  BY <1>3, <1>5, <1>6, <1>7, <1>8, <1>9, <1>10 DEF DaemonInv

-----------------------------------------------------------------------------
(* Registering agents and policies.                                        *)

\* Save drops the cached key before it touches the file.
LEMMA RegisterStep ==
  ASSUME DaemonInv, NEW c \in Clients, Register(c)
  PROVE  DaemonInv'
<1>0. TypeInv /\ HandlerInv /\ RequestInv /\ KeyInv /\ DenyInv /\ RingInv /\ DrainInv
  BY DEF DaemonInv
<1>1. PICK g \in Agents, k \in {"full", "public"} :
        /\ req' = [req EXCEPT ![c] = [kind |-> "register", agent |-> g, key |-> k]]
        /\ keys' = [keys EXCEPT ![g] = "torn"]
        /\ keyCache' = [keyCache EXCEPT ![g] = "none"]
  BY ZenonT(30) DEF Register
<1>2. /\ pc[c] = "idle" /\ keyMu = NoClient /\ keyMu' = c /\ pc' = [pc EXCEPT ![c] = "save"]
      /\ UNCHANGED policyVars /\ UNCHANGED ringVars /\ key' = key /\ staleFor' = staleFor
      /\ UNCHANGED process /\ appended' = appended /\ now' = now
  BY DEF Register
<1>3. life' = life /\ born' = born /\ events' = events /\ polMu' = polMu /\ policies' = policies
  BY <1>2 DEF process, ringVars, policyVars
<1>4. "save" \in Places
  BY DEF Places
<1>5. HandlerInv' /\ Others(c) /\ pc'[c] = "save"
  BY <1>0, <1>1, <1>2, <1>4, HandlerMoves
<1>6. req'[c].agent = g /\ req'[c].key = k
  <2>1. req'[c] = [kind |-> "register", agent |-> g, key |-> k]
    BY <1>0, <1>1, ZenonT(30) DEF HandlerInv
  <2> QED  BY <2>1, SMTT(30)
<1>7. TypeInv'
  <2>1. polMu' \in Clients \cup {NoClient}
    BY <1>0, <1>3 DEF TypeInv
  <2> QED  BY <1>0, <1>2, <1>3, <2>1, TypeFrame
<1>8. RequestInv'
  <2>1. RequestOK(c)'
    BY <1>5, <1>6, ZenonT(30) DEF RequestOK
  <2> QED  BY <1>0, <1>5, <2>1, RequestFrame
<1>9. KeyInv'
  <2>1. keys \in [Agents -> {"none", "torn", "full", "public"}] /\ keyCache \in [Agents -> {"none", "full", "public"}]
    BY <1>0 DEF KeyInv
  <2>2. /\ keys' \in [Agents -> {"none", "torn", "full", "public"}]
        /\ \A h \in Agents : keys'[h] = IF h = g THEN "torn" ELSE keys[h]
    BY <1>1, <2>1, SMTT(30)
  <2>3. /\ keyCache' \in [Agents -> {"none", "full", "public"}]
        /\ \A h \in Agents : keyCache'[h] = IF h = g THEN "none" ELSE keyCache[h]
    BY <1>1, <2>1, SMTT(30)
  <2>4. KeyCacheCoherent'
    BY <1>0, <2>2, <2>3, ZenonT(30) DEF KeyInv, KeyCacheCoherent
  <2>5. ASSUME NEW d \in Clients  PROVE Saving(d)'
    <3>1. CASE d = c
      BY <1>2, <1>6, <2>2, <2>3, <3>1, ZenonT(30) DEF Saving
    <3>2. CASE d # c
      <4>1. pc'[d] = pc[d] /\ pc[d] # "save"
        BY <1>0, <1>2, <1>5, <3>2, Constants, ZenonT(30) DEF Others, KeyInv, Saving
      <4> QED  BY <4>1 DEF Saving
    <3> QED  BY <3>1, <3>2
  <2> QED  BY <1>2, <2>2, <2>3, <2>4, <2>5, ZenonT(30) DEF KeyInv
<1>10. DenyInv'
  <2>1. UNCHANGED <<policyVars, now>> /\ pc'[c] # "store" /\ pc'[c] # "load"
    BY <1>2, <1>5
  <2> QED  BY <1>0, <1>5, <2>1, DenyFrame
<1>11. RingInv'
  BY <1>0, <1>2, RingFrame
<1>12. DrainInv'
  BY <1>0, <1>2, <1>3, <1>5, DrainFrame
<1> QED  BY <1>5, <1>7, <1>8, <1>9, <1>10, <1>11, <1>12 DEF DaemonInv

\* Save returns, with the file written or torn.
LEMMA SaveStep ==
  ASSUME DaemonInv, NEW c \in Clients, pc[c] = "save", Done(c), keyMu' = NoClient,
         keys' = keys \/ keys' = [keys EXCEPT ![req[c].agent] = req[c].key],
         keyCache' = keyCache, UNCHANGED policyVars, UNCHANGED ringVars, UNCHANGED process,
         appended' = appended, now' = now
  PROVE  DaemonInv'
<1>0. TypeInv /\ HandlerInv /\ RequestInv /\ KeyInv /\ DenyInv /\ RingInv /\ DrainInv
  BY DEF DaemonInv
<1> DEFINE g == req[c].agent
<1>1. life' = life /\ born' = born /\ events' = events /\ polMu' = polMu /\ policies' = policies
  BY DEF process, ringVars, policyVars
<1>2. HandlerInv' /\ Others(c) /\ pc'[c] \in {"idle", "closed"}
  BY <1>0, DoneMoves
<1>3. g \in Agents /\ req[c].key \in {"full", "public"}
  BY <1>0 DEF RequestInv, RequestOK
<1>4. TypeInv'
  <2>1. polMu' \in Clients \cup {NoClient}
    BY <1>0, <1>1 DEF TypeInv
  <2> QED  BY <1>0, <1>1, <2>1, TypeFrame
<1>5. RequestInv'
  <2>1. RequestOK(c)'
    BY <1>2, ZenonT(30) DEF RequestOK
  <2> QED  BY <1>0, <1>2, <2>1, RequestFrame
<1>6. KeyInv'
  <2>1. keys \in [Agents -> {"none", "torn", "full", "public"}] /\ keyCache \in [Agents -> {"none", "full", "public"}]
    BY <1>0 DEF KeyInv
  <2>2. keyMu = c /\ keyCache[g] = "none"
    BY <1>0 DEF KeyInv, Saving
  <2> HIDE DEF g
  <2>3. /\ keys' \in [Agents -> {"none", "torn", "full", "public"}]
        /\ \A h \in Agents : h # g => keys'[h] = keys[h]
    <3>1. CASE keys' = keys
      BY <2>1, <3>1
    <3>2. CASE keys' # keys
      <4>1. keys' = [keys EXCEPT ![g] = req[c].key]
        BY <3>2 DEF g
      <4> QED  BY <1>3, <2>1, <4>1, SMTT(30)
    <3> QED  BY <3>1, <3>2
  <2>4. KeyCacheCoherent'
    BY <1>0, <2>2, <2>3, ZenonT(30) DEF KeyInv, KeyCacheCoherent
  <2>5. ASSUME NEW d \in Clients  PROVE pc'[d] # "save"
    <3>1. CASE d = c
      BY <1>2, <3>1
    <3>2. CASE d # c
      BY <1>0, <1>2, <2>2, <3>2, ZenonT(30) DEF Others, KeyInv, Saving
    <3> QED  BY <3>1, <3>2
  <2>6. \A d \in Clients : Saving(d)'
    BY <2>5 DEF Saving
  <2> QED  BY <2>1, <2>3, <2>4, <2>6, ZenonT(30) DEF KeyInv
<1>7. DenyInv'
  <2>1. UNCHANGED <<policyVars, now>> /\ pc'[c] # "store" /\ pc'[c] # "load"
    BY <1>2
  <2> QED  BY <1>0, <1>2, <2>1, DenyFrame
<1>8. RingInv'
  BY <1>0, RingFrame
<1>9. DrainInv'
  BY <1>0, <1>1, <1>2, DrainFrame
<1> QED  BY <1>2, <1>4, <1>5, <1>6, <1>7, <1>8, <1>9 DEF DaemonInv

\* A new key is saved.
LEMMA SaveKeyStep ==
  ASSUME DaemonInv, NEW c \in Clients, SaveKey(c)
  PROVE  DaemonInv'
<1>1. /\ pc[c] = "save" /\ keys' = [keys EXCEPT ![req[c].agent] = req[c].key]
      /\ keyMu' = NoClient /\ Done(c) /\ keyCache' = keyCache /\ UNCHANGED policyVars
      /\ UNCHANGED ringVars /\ UNCHANGED process /\ appended' = appended /\ now' = now
  BY DEF SaveKey
<1> QED  BY <1>1, SaveStep

\* It cannot be saved.
LEMMA SaveFailsStep ==
  ASSUME DaemonInv, NEW c \in Clients, SaveFails(c)
  PROVE  DaemonInv'
<1>1. /\ pc[c] = "save" /\ keys' = keys
      /\ keyMu' = NoClient /\ Done(c) /\ keyCache' = keyCache /\ UNCHANGED policyVars
      /\ UNCHANGED ringVars /\ UNCHANGED process /\ appended' = appended /\ now' = now
  BY DEF SaveFails
<1> QED  BY <1>1, SaveStep

\* A caller hangs up.
LEMMA HangUpStep ==
  ASSUME DaemonInv, NEW c \in Clients, HangUp(c)
  PROVE  DaemonInv'
<1>0. HandlerInv
  BY DEF DaemonInv
<1>1. /\ pc[c] = "idle" /\ pc' = [pc EXCEPT ![c] = "closed"] /\ req' = req /\ key' = key /\ staleFor' = staleFor
      /\ UNCHANGED <<policyVars, keyVars, ringVars, process, appended, now>>
  BY DEF HangUp
<1>2. "closed" \in Places
  BY DEF Places
<1>3. HandlerInv' /\ Others(c) /\ pc'[c] = "closed"
  BY <1>0, <1>1, <1>2, HandlerMoves
<1> QED  BY <1>1, <1>3, QuietStep

\* A step of no handler.
LEMMA StillFrame ==
  ASSUME DaemonInv, UNCHANGED handler, UNCHANGED keyVars, UNCHANGED ringVars
  PROVE  HandlerInv' /\ RequestInv' /\ KeyInv' /\ RingInv' /\ Recorded' = Recorded /\ Pending' = Pending
<1>0. HandlerInv /\ RequestInv /\ KeyInv /\ RingInv
  BY DEF DaemonInv
<1>1. /\ pc' = pc /\ req' = req /\ key' = key /\ staleFor' = staleFor
      /\ keys' = keys /\ keyCache' = keyCache /\ keyMu' = keyMu /\ events' = events
  BY DEF handler, keyVars, ringVars
<1>2. HandlerInv'
  BY <1>0, <1>1 DEF HandlerInv
<1>3. RequestInv'
  BY <1>0, <1>1, ZenonT(30) DEF RequestInv, RequestOK
<1>4. KeyInv'
  BY <1>0, <1>1, ZenonT(30) DEF KeyInv, KeyCacheCoherent, Saving
<1>5. Recorded' = Recorded /\ Pending' = Pending
  BY <1>1 DEF Recorded, Pending
<1> QED  BY <1>0, <1>2, <1>3, <1>4, <1>5, RingFrame

\* What a change of the table does to the lists that were read before.
LEMMA SetPoliciesStep ==
  ASSUME DaemonInv, NEW table, SetPolicies(table),
         DOMAIN table \subseteq Policies, \A p \in DOMAIN table : table[p] \in Rules
  PROVE  DaemonInv'
<1>0. TypeInv /\ DenyInv /\ DrainInv
  BY DEF DaemonInv
<1> DEFINE D == Denied(EnabledPolicies)
<1>1. /\ policies' = table /\ cache' = cache /\ polMu' = polMu /\ listed' = listed /\ listedAt' = listedAt
      /\ UNCHANGED keyVars /\ UNCHANGED ringVars /\ UNCHANGED handler /\ UNCHANGED process
      /\ appended' = appended /\ now' = now
  BY DEF SetPolicies
<1>2. since' = [a \in Actions |-> IF a \notin D' THEN 0 ELSE IF a \in D THEN since[a] ELSE now]
  BY DEF SetPolicies
<1>3. life' = life /\ born' = born /\ pc' = pc /\ staleFor' = staleFor
  BY <1>1 DEF process, handler
<1>4. TypeInv'
  BY <1>0, <1>1, <1>3, ZenonT(30) DEF TypeInv, Rules
<1>5. HandlerInv' /\ RequestInv' /\ KeyInv' /\ RingInv' /\ Recorded' = Recorded /\ Pending' = Pending
  BY <1>1, StillFrame
<1>6. DrainInv'
  BY <1>0, <1>1, <1>3, <1>5, ZenonT(30) DEF DrainInv
<1>7. DenyInv'
  <2>1. now \in Nat /\ \A a \in Actions : since[a] \in Nat /\ since[a] <= now
    BY <1>0 DEF TypeInv, DenyInv
  <2> HIDE DEF D
  <2>2. \A a \in Actions : since'[a] = IF a \notin D' THEN 0 ELSE IF a \in D THEN since[a] ELSE now
    BY <1>2, ZenonT(30)
  <2>3. since' \in [Actions -> Nat] /\ \A a \in Actions : since'[a] <= now'
    <3>1. \A a \in Actions : since'[a] \in Nat /\ since'[a] <= now
      BY <2>1, <2>2, SMTT(30)
    <3>2. since' \in [Actions -> Nat]
      BY <1>2, <3>1, ZenonT(30)
    <3> QED  BY <1>1, <3>1, <3>2
  <2>4. ASSUME NEW e \in cache  PROVE Expires(e)'
    <3>1. /\ e.expiresAt \in Nat /\ e.expiresAt <= now + TTL
          /\ \A a \in Actions : a \in D /\ a \notin Denied(e.list) => e.expiresAt <= since[a] + TTL + Lag
      BY <1>0, ZenonT(30) DEF DenyInv, Expires, D
    <3>2. ASSUME NEW a \in Actions, a \in D', a \notin Denied(e.list)
          PROVE  e.expiresAt <= since'[a] + TTL + Lag
      <4>1. CASE a \in D
        BY <2>2, <3>1, <3>2, <4>1, ZenonT(30)
      <4>2. CASE a \notin D
        <5>1. since'[a] = now
          BY <2>2, <3>2, <4>2, ZenonT(30)
        <5>2. e.expiresAt \in Nat /\ e.expiresAt <= now + TTL /\ now \in Nat
          BY <2>1, <3>1
        <5> QED  BY <5>1, <5>2, Constants, SMTT(30)
      <4> QED  BY <4>1, <4>2
    <3> QED  BY <1>1, <3>1, <3>2, ZenonT(30) DEF Expires, D
  <2>5. ASSUME NEW d \in Clients  PROVE Storing(d)'
    <3> SUFFICES ASSUME pc'[d] = "store"
                 PROVE  /\ polMu' = d
                        /\ listedAt' \in Nat /\ listedAt' <= now' /\ now' <= listedAt' + Lag
                        /\ \A a \in Actions : a \in D' /\ a \notin Denied(listed') => listedAt' <= since'[a]
      BY ZenonT(30) DEF Storing, D
    <3>1. /\ polMu = d /\ listedAt \in Nat /\ listedAt <= now /\ now <= listedAt + Lag
          /\ \A a \in Actions : a \in D /\ a \notin Denied(listed) => listedAt <= since[a]
      BY <1>0, <1>3, ZenonT(30) DEF DenyInv, Storing, D
    <3>2. ASSUME NEW a \in Actions, a \in D', a \notin Denied(listed)
          PROVE  listedAt <= since'[a]
      <4>1. CASE a \in D
        BY <2>2, <3>1, <3>2, <4>1, ZenonT(30)
      <4>2. CASE a \notin D
        BY <2>2, <3>1, <3>2, <4>2, ZenonT(30)
      <4> QED  BY <4>1, <4>2
    <3> QED  BY <1>1, <3>1, <3>2, ZenonT(30)
  <2>6. DenyTakesHold'
    BY <1>0, <1>3, ZenonT(30) DEF DenyInv, DenyTakesHold
  <2>7. (\A e \in cache' : Expires(e)') /\ \A e, f \in cache' : e = f
    BY <1>0, <1>1, <2>4 DEF DenyInv
  <2> QED  BY <2>3, <2>5, <2>6, <2>7, ZenonT(30) DEF DenyInv
<1> QED  BY <1>4, <1>5, <1>6, <1>7 DEF DaemonInv

\* A policy is registered.
LEMMA PolicyRegisterStep ==
  ASSUME DaemonInv, PolicyRegister
  PROVE  DaemonInv'
<1>1. PICK p \in Policies, r \in Rules :
        SetPolicies([q \in DOMAIN policies \cup {p} |-> IF q = p THEN r ELSE policies[q]])
  BY ZenonT(30) DEF PolicyRegister
<1>2. DOMAIN policies \subseteq Policies /\ \A q \in DOMAIN policies : policies[q] \in Rules
  BY DEF DaemonInv, TypeInv
<1>3. PICK table : table = [q \in DOMAIN policies \cup {p} |-> IF q = p THEN r ELSE policies[q]]
  OBVIOUS
<1>4. DOMAIN table = DOMAIN policies \cup {p} /\ \A q \in DOMAIN table : table[q] = IF q = p THEN r ELSE policies[q]
  BY <1>3, ZenonT(30)
<1>5. DOMAIN table \subseteq Policies /\ \A q \in DOMAIN table : table[q] \in Rules
  BY <1>1, <1>2, <1>4, ZenonT(30)
<1> QED  BY <1>1, <1>3, <1>5, SetPoliciesStep

\* A policy is deleted.
LEMMA PolicyDeleteStep ==
  ASSUME DaemonInv, PolicyDelete
  PROVE  DaemonInv'
<1>1. PICK p \in DOMAIN policies :
        SetPolicies([q \in DOMAIN policies \ {p} |-> policies[q]])
  BY ZenonT(30) DEF PolicyDelete
<1>2. DOMAIN policies \subseteq Policies /\ \A q \in DOMAIN policies : policies[q] \in Rules
  BY DEF DaemonInv, TypeInv
<1>3. PICK table : table = [q \in DOMAIN policies \ {p} |-> policies[q]]
  OBVIOUS
<1>4. DOMAIN table = DOMAIN policies \ {p} /\ \A q \in DOMAIN table : table[q] = policies[q]
  BY <1>3, ZenonT(30)
<1>5. DOMAIN table \subseteq Policies /\ \A q \in DOMAIN table : table[q] \in Rules
  BY <1>1, <1>2, <1>4, ZenonT(30)
<1> QED  BY <1>1, <1>3, <1>5, SetPoliciesStep

-----------------------------------------------------------------------------
(* The process and the clock.                                              *)

\* Nothing about policies happens.
LEMMA DenyStill ==
  ASSUME DenyInv, UNCHANGED policyVars, now' = now, pc' = pc, staleFor' = staleFor
  PROVE  DenyInv'
<1>1. /\ policies' = policies /\ cache' = cache /\ polMu' = polMu /\ listed' = listed
      /\ listedAt' = listedAt /\ since' = since
  BY DEF policyVars
<1>2. Denied(EnabledPolicies)' = Denied(EnabledPolicies)
  BY <1>1 DEF EnabledPolicies, Enabled
<1>3. \A e \in cache : Expires(e)' <=> Expires(e)
  BY <1>1, <1>2, ZenonT(30) DEF Expires
<1>4. \A c \in Clients : Storing(c)' <=> Storing(c)
  BY <1>1, <1>2, ZenonT(30) DEF Storing
<1> QED  BY <1>1, <1>3, <1>4, ZenonT(30) DEF DenyInv, DenyTakesHold

\* A signal, or the last handler has returned.
LEMMA ShutdownStep ==
  ASSUME DaemonInv, Shutdown \/ Stopped
  PROVE  DaemonInv'
<1>0. TypeInv /\ DenyInv /\ DrainInv
  BY DEF DaemonInv
<1>1. /\ UNCHANGED policyVars /\ UNCHANGED keyVars /\ UNCHANGED ringVars /\ UNCHANGED handler
      /\ born' = born /\ appended' = appended /\ now' = now
      /\ life # "crashed" /\ life' \in {"stopping", "stopped"}
      /\ life' = "stopped" => \A c \in Clients : pc[c] = "closed"
  BY ZenonT(30) DEF Shutdown, Stopped
<1>2. pc' = pc /\ staleFor' = staleFor /\ policies' = policies /\ polMu' = polMu
  BY <1>1 DEF handler, policyVars
<1>3. TypeInv'
  BY <1>0, <1>1, <1>2, ZenonT(30) DEF TypeInv, Rules
<1>4. HandlerInv' /\ RequestInv' /\ KeyInv' /\ RingInv' /\ Recorded' = Recorded /\ Pending' = Pending
  BY <1>1, StillFrame
<1>5. DenyInv'
  BY <1>0, <1>1, <1>2, DenyStill
<1>6. DrainInv'
  BY <1>0, <1>1, <1>2, <1>4, ZenonT(30) DEF DrainInv
<1> QED  BY <1>3, <1>4, <1>5, <1>6 DEF DaemonInv

\* A stuttering step.
LEMMA DaemonStutter ==
  ASSUME DaemonInv, UNCHANGED vars
  PROVE  DaemonInv'
<1>0. TypeInv /\ DenyInv /\ DrainInv
  BY DEF DaemonInv
<1>1. /\ UNCHANGED policyVars /\ UNCHANGED keyVars /\ UNCHANGED ringVars /\ UNCHANGED handler
      /\ UNCHANGED process /\ appended' = appended /\ now' = now
  BY DEF vars
<1>2. pc' = pc /\ staleFor' = staleFor /\ policies' = policies /\ polMu' = polMu /\ life' = life /\ born' = born
  BY <1>1 DEF handler, policyVars, process
<1>3. TypeInv'
  BY <1>0, <1>1, <1>2, ZenonT(30) DEF TypeInv, Rules
<1>4. HandlerInv' /\ RequestInv' /\ KeyInv' /\ RingInv' /\ Recorded' = Recorded /\ Pending' = Pending
  BY <1>1, StillFrame
<1>5. DenyInv'
  BY <1>0, <1>1, <1>2, DenyStill
<1>6. DrainInv'
  BY <1>0, <1>1, <1>2, <1>4, ZenonT(30) DEF DrainInv
<1> QED  BY <1>3, <1>4, <1>5, <1>6 DEF DaemonInv

\* No handler is inside a request.
LEMMA AllIdle ==
  ASSUME \A c \in Clients : pc'[c] = "idle"
  PROVE  RequestInv' /\ (\A c \in Clients : Saving(c)') /\ (\A c \in Clients : Storing(c)') /\ DenyTakesHold'
         /\ Pending' = {}
<1>1. RequestInv'
  BY ZenonT(30) DEF RequestInv, RequestOK
<1>2. (\A c \in Clients : Saving(c)') /\ (\A c \in Clients : Storing(c)') /\ DenyTakesHold'
  BY DEF Saving, Storing, DenyTakesHold
<1>3. \A c \in Clients : pc'[c] \notin {"reply", "after"}
  OBVIOUS
<1>4. Pending' = {}
  BY <1>3, ZenonT(30) DEF Pending
<1> QED  BY <1>1, <1>2, <1>4

\* The process is gone, with all it kept in memory.
LEMMA DieStep ==
  ASSUME DaemonInv, Die
  PROVE  DaemonInv'
<1>0. TypeInv /\ KeyInv /\ DenyInv /\ RingInv
  BY DEF DaemonInv
<1>1. /\ life' = "crashed" /\ pc' = [c \in Clients |-> "idle"] /\ DOMAIN req' = Clients
      /\ DOMAIN key' = Clients /\ DOMAIN staleFor' = Clients
      /\ cache' = {} /\ polMu' = NoClient /\ keyCache' = [g \in Agents |-> "none"] /\ keyMu' = NoClient
      /\ policies' = policies /\ since' = since /\ keys' = keys /\ UNCHANGED ringVars
      /\ born' = born /\ appended' = appended /\ now' = now
  BY ZenonT(30) DEF Die
<1>2. pc' \in [Clients -> Places] /\ \A c \in Clients : pc'[c] = "idle"
  BY <1>1, ZenonT(30) DEF Places
<1>3. TypeInv'
  BY <1>0, <1>1, ZenonT(30) DEF TypeInv, Rules
<1>4. HandlerInv'
  BY <1>1, <1>2 DEF HandlerInv
<1>5. RequestInv' /\ (\A c \in Clients : Saving(c)') /\ (\A c \in Clients : Storing(c)') /\ DenyTakesHold'
  BY <1>2, AllIdle
<1>6. KeyInv'
  <2>1. keyCache' \in [Agents -> {"none", "full", "public"}] /\ \A g \in Agents : keyCache'[g] = "none"
    BY <1>1, ZenonT(30)
  <2>2. KeyCacheCoherent'
    BY <2>1 DEF KeyCacheCoherent
  <2> QED  BY <1>0, <1>1, <1>5, <2>1, <2>2, ZenonT(30) DEF KeyInv
<1>7. DenyInv'
  BY <1>0, <1>1, <1>5, ZenonT(30) DEF DenyInv
<1>8. RingInv'
  BY <1>0, <1>1, RingFrame
<1>9. DrainInv'
  BY <1>1 DEF DrainInv
<1> QED  BY <1>3, <1>4, <1>5, <1>6, <1>7, <1>8, <1>9 DEF DaemonInv

\* A ring that was just made.
LEMMA RingEmpty ==
  ASSUME NEW r, NEW s, r = [i \in 0..(RingSize - 1) |-> NoReceipt], s = << >>
  PROVE  /\ s \in Seq(Nat) /\ Len(s) = 0 /\ r \in [0..(RingSize - 1) -> Nat]
         /\ 1..Len(s) = {} /\ (IF Len(s) < RingSize THEN Len(s) ELSE RingSize) = 0
<1>1. s \in Seq(Nat) /\ Len(s) = 0
  BY SMTT(30)
<1>2. r \in [0..(RingSize - 1) -> Nat]
  BY SMTT(30) DEF NoReceipt
<1> QED  BY <1>1, <1>2, Constants, SMTT(30)

\* The daemon starts with empty caches and an empty ring.
LEMMA StartStep ==
  ASSUME DaemonInv, Start
  PROVE  DaemonInv'
<1>0. TypeInv /\ HandlerInv /\ KeyInv /\ DenyInv
  BY DEF DaemonInv
<1>1. /\ life' = "up" /\ pc' = [c \in Clients |-> "idle"]
      /\ cache' = {} /\ keyCache' = [g \in Agents |-> "none"]
      /\ ring' = [i \in 0..(RingSize - 1) |-> NoReceipt] /\ auditIdx' = 0 /\ auditCount' = 0
      /\ events' = << >> /\ born' = appended
      /\ policies' = policies /\ polMu' = polMu /\ since' = since /\ keys' = keys /\ keyMu' = keyMu
      /\ req' = req /\ key' = key /\ staleFor' = staleFor /\ appended' = appended /\ now' = now
  BY DEF Start
<1>2. pc' \in [Clients -> Places] /\ \A c \in Clients : pc'[c] = "idle"
  BY <1>1, ZenonT(30) DEF Places
<1>3. TypeInv'
  <2>1. appended \in Nat
    BY <1>0 DEF TypeInv
  <2>2. appended \in 0..appended
    BY <2>1, SMTT(30)
  <2> QED  BY <1>0, <1>1, <2>2, ZenonT(30) DEF TypeInv, Rules
<1>4. HandlerInv'
  BY <1>0, <1>1, <1>2 DEF HandlerInv
<1>5. /\ RequestInv' /\ (\A c \in Clients : Saving(c)') /\ (\A c \in Clients : Storing(c)') /\ DenyTakesHold'
      /\ Pending' = {}
  BY <1>2, AllIdle
<1>6. KeyInv'
  <2>1. keyCache' \in [Agents -> {"none", "full", "public"}] /\ \A g \in Agents : keyCache'[g] = "none"
    BY <1>1, ZenonT(30)
  <2>2. KeyCacheCoherent'
    BY <2>1 DEF KeyCacheCoherent
  <2> QED  BY <1>0, <1>1, <1>5, <2>1, <2>2, ZenonT(30) DEF KeyInv
<1>7. DenyInv'
  BY <1>0, <1>1, <1>5, ZenonT(30) DEF DenyInv
<1>8. /\ events' \in Seq(Nat) /\ Len(events') = 0 /\ ring' \in [0..(RingSize - 1) -> Nat]
      /\ 1..Len(events') = {} /\ (IF Len(events') < RingSize THEN Len(events') ELSE RingSize) = 0
  BY <1>1, RingEmpty
<1>9. RingInv'
  BY <1>1, <1>8, ZenonT(30) DEF RingInv
<1>10. DrainInv'
  <2>1. Recorded' = {}
    BY <1>8, ZenonT(30) DEF Recorded
  <2>2. (appended + 1)..appended = {}
    BY <1>0, SMTT(30) DEF TypeInv
  <2>3. Recorded' \cup Pending' = (born' + 1)..appended'
    BY <1>1, <1>5, <2>1, <2>2
  <2> QED  BY <1>1, <2>3 DEF DrainInv
<1> QED  BY <1>3, <1>4, <1>5, <1>6, <1>7, <1>9, <1>10 DEF DaemonInv

\* Time passes, but not past Lag while somebody reads the table.
LEMMA TickStep ==
  ASSUME DaemonInv, Tick
  PROVE  DaemonInv'
<1>0. TypeInv /\ DenyInv /\ DrainInv
  BY DEF DaemonInv
<1>1. /\ now' = now + 1
      /\ polMu # NoClient => now < listedAt + Lag
      /\ UNCHANGED policyVars /\ UNCHANGED keyVars /\ UNCHANGED ringVars /\ UNCHANGED handler
      /\ UNCHANGED process /\ appended' = appended
  BY DEF Tick
<1>2. /\ policies' = policies /\ cache' = cache /\ polMu' = polMu /\ listed' = listed
      /\ listedAt' = listedAt /\ since' = since /\ pc' = pc /\ staleFor' = staleFor
      /\ life' = life /\ born' = born
  BY <1>1 DEF policyVars, handler, process
<1>3. now \in Nat /\ now' \in Nat /\ now <= now'
  <2>1. now \in Nat
    BY <1>0 DEF TypeInv
  <2> QED  BY <1>1, <2>1, SMTT(30)
<1>4. TypeInv'
  BY <1>0, <1>1, <1>2, <1>3, ZenonT(30) DEF TypeInv, Rules
<1>5. HandlerInv' /\ RequestInv' /\ KeyInv' /\ RingInv' /\ Recorded' = Recorded /\ Pending' = Pending
  BY <1>1, StillFrame
<1>6. DrainInv'
  BY <1>0, <1>1, <1>2, <1>5, ZenonT(30) DEF DrainInv
<1>7. DenyInv'
  <2>1. Denied(EnabledPolicies)' = Denied(EnabledPolicies)
    BY <1>2 DEF EnabledPolicies, Enabled
  <2>2. ASSUME NEW e \in cache  PROVE Expires(e)'
    <3>1. /\ e.expiresAt \in Nat /\ e.expiresAt <= now + TTL
          /\ \A a \in Actions :
               a \in Denied(EnabledPolicies) /\ a \notin Denied(e.list) => e.expiresAt <= since[a] + TTL + Lag
      BY <1>0 DEF DenyInv, Expires
    <3>2. e.expiresAt <= now' + TTL
      BY <1>1, <1>3, <3>1, Constants, SMTT(30)
    <3> QED  BY <1>2, <2>1, <3>1, <3>2, ZenonT(30) DEF Expires
  <2>3. ASSUME NEW c \in Clients  PROVE Storing(c)'
    <3> SUFFICES ASSUME pc[c] = "store"
                 PROVE  Storing(c)'
      BY <1>2 DEF Storing
    <3>1. /\ polMu = c /\ listedAt \in Nat /\ listedAt <= now /\ now <= listedAt + Lag
          /\ \A a \in Actions :
               a \in Denied(EnabledPolicies) /\ a \notin Denied(listed) => listedAt <= since[a]
      BY <1>0, ZenonT(30) DEF DenyInv, Storing
    <3>2. now < listedAt + Lag
      BY <1>1, <3>1, Constants
    <3>3. listedAt <= now' /\ now' <= listedAt + Lag
      BY <1>1, <1>3, <3>1, <3>2, Constants, SMTT(30)
    <3> QED  BY <1>2, <2>1, <3>1, <3>3, ZenonT(30) DEF Storing
  <2>4. since' \in [Actions -> Nat]
    BY <1>0, <1>2 DEF DenyInv
  <2>5. \A a \in Actions : since'[a] <= now'
    <3> SUFFICES ASSUME NEW a \in Actions
                 PROVE  since'[a] <= now'
      OBVIOUS
    <3>1. since[a] \in Nat /\ since[a] <= now
      BY <1>0 DEF DenyInv
    <3> QED  BY <1>2, <1>3, <3>1, SMTT(30)
  <2>6. (\A e \in cache' : Expires(e)') /\ (\A e, f \in cache' : e = f) /\ DenyTakesHold'
    BY <1>0, <1>2, <2>2 DEF DenyInv, DenyTakesHold
  <2> QED  BY <2>3, <2>4, <2>5, <2>6, ZenonT(30) DEF DenyInv
<1> QED  BY <1>4, <1>5, <1>6, <1>7 DEF DaemonInv

-----------------------------------------------------------------------------
(* The theorems.                                                           *)

\* The daemon starts well.
LEMMA DaemonInit ==
  ASSUME Init
  PROVE  DaemonInv
<1>1. /\ policies = NoPolicies /\ cache = {} /\ polMu = NoClient /\ keyMu = NoClient
      /\ keys = [g \in Agents |-> "none"] /\ keyCache = [g \in Agents |-> "none"]
      /\ appended = 0 /\ born = 0 /\ now = 0 /\ life = "up"
      /\ ring = [i \in 0..(RingSize - 1) |-> NoReceipt] /\ auditIdx = 0 /\ auditCount = 0
      /\ events = << >> /\ pc = [c \in Clients |-> "idle"] /\ since = [a \in Actions |-> 0]
  BY DEF Init
<1>2. DOMAIN req = Clients /\ DOMAIN key = Clients /\ DOMAIN staleFor = Clients
  BY ZenonT(30) DEF Init
<1>3. pc \in [Clients -> Places] /\ \A c \in Clients : pc[c] = "idle"
  BY <1>1, ZenonT(30) DEF Places
<1>4. TypeInv
  <2>1. DOMAIN policies = {}
    BY <1>1 DEF NoPolicies
  <2>2. appended \in Nat /\ born \in 0..appended /\ now \in Nat
    BY <1>1, SMTT(30)
  <2> QED  BY <1>1, <2>1, <2>2, ZenonT(30) DEF TypeInv
<1>5. HandlerInv
  BY <1>2, <1>3 DEF HandlerInv
<1>6. RequestInv
  BY <1>3, ZenonT(30) DEF RequestInv, RequestOK
<1>7. KeyInv
  <2>1. /\ keyCache \in [Agents -> {"none", "full", "public"}] /\ \A g \in Agents : keyCache[g] = "none"
        /\ keys \in [Agents -> {"none", "torn", "full", "public"}]
    BY <1>1, ZenonT(30)
  <2>2. KeyCacheCoherent
    BY <2>1 DEF KeyCacheCoherent
  <2>3. \A c \in Clients : Saving(c)
    BY <1>3 DEF Saving
  <2> QED  BY <1>1, <2>1, <2>2, <2>3, ZenonT(30) DEF KeyInv
<1>8. DenyInv
  <2>1. (\A c \in Clients : Storing(c)) /\ DenyTakesHold
    BY <1>3 DEF Storing, DenyTakesHold
  <2>2. since \in [Actions -> Nat] /\ \A a \in Actions : since[a] <= now
    BY <1>1, SMTT(30)
  <2> QED  BY <1>1, <2>1, <2>2, ZenonT(30) DEF DenyInv
<1>9. /\ events \in Seq(Nat) /\ Len(events) = 0 /\ ring \in [0..(RingSize - 1) -> Nat]
      /\ 1..Len(events) = {} /\ (IF Len(events) < RingSize THEN Len(events) ELSE RingSize) = 0
  BY <1>1, RingEmpty
<1>10. RingInv
  BY <1>1, <1>9, ZenonT(30) DEF RingInv
<1>11. DrainInv
  <2>1. Recorded = {}
    BY <1>9, ZenonT(30) DEF Recorded
  <2>2. \A c \in Clients : pc[c] \notin {"reply", "after"}
    BY <1>3
  <2>3. Pending = {}
    BY <2>2, ZenonT(30) DEF Pending
  <2>4. (born + 1)..appended = {}
    BY <1>1, SMTT(30)
  <2> QED  BY <1>1, <2>1, <2>3, <2>4, ZenonT(30) DEF DrainInv
<1> QED  BY <1>4, <1>5, <1>6, <1>7, <1>8, <1>10, <1>11 DEF DaemonInv

\* A handler step.
LEMMA HandleStep ==
  ASSUME DaemonInv, NEW c \in Clients, Handle(c)
  PROVE  DaemonInv'
<1>1. CASE Panic(c)
  <2>1. Die
    BY <1>1 DEF Panic
  <2> QED  BY <2>1, DieStep
<1>2. CASE EvaluateCached(c) \/ ListPolicies(c) \/ ListFails(c) \/ CachePolicies(c)
  BY <1>2, EvaluateCachedStep, ListPoliciesStep, ListFailsStep, CachePoliciesStep
<1>3. CASE LoadCached(c) \/ LoadFile(c) \/ LoadFails(c)
  BY <1>3, LoadCachedStep, LoadFileStep, LoadFailsStep
<1>4. CASE AppendReceipt(c) \/ AppendFails(c) \/ Reply(c) \/ AfterAppend(c)
  BY <1>4, AppendReceiptStep, AppendFailsStep, ReplyStep, AfterAppendStep
<1>5. CASE SaveKey(c) \/ SaveFails(c)
  BY <1>5, SaveKeyStep, SaveFailsStep
<1> QED  BY <1>1, <1>2, <1>3, <1>4, <1>5 DEF Handle

\* Every step keeps the invariant.
LEMMA DaemonNext ==
  ASSUME DaemonInv, Next
  PROVE  DaemonInv'
<1>1. ASSUME NEW c \in Clients, SignAppend(c) \/ Register(c) \/ Handle(c) \/ HangUp(c)
      PROVE  DaemonInv'
  BY <1>1, SignAppendStep, RegisterStep, HandleStep, HangUpStep
<1>2. CASE PolicyRegister \/ PolicyDelete
  BY <1>2, PolicyRegisterStep, PolicyDeleteStep
<1>3. CASE Shutdown \/ Stopped
  BY <1>3, ShutdownStep
<1>4. CASE Crash
  <2>1. Die
    BY <1>4 DEF Crash
  <2> QED  BY <2>1, DieStep
<1>5. CASE Start \/ Tick
  BY <1>5, StartStep, TickStep
<1> QED  BY <1>1, <1>2, <1>3, <1>4, <1>5 DEF Next

\* The invariant of the daemon: what the handlers of handleSignAppend,
\* handleRegister and afterAppend rely on holds in every reachable state.
THEOREM DaemonInvariant == Spec => []DaemonInv
<1>1. Init => DaemonInv
  BY DaemonInit
<1>2. DaemonInv /\ [Next]_vars => DaemonInv'
  BY DaemonNext, DaemonStutter
<1> QED  BY <1>1, <1>2, PTL DEF Spec

\* Every variable has its type.
THEOREM DaemonTypes == Spec => []TypeOK
<1>1. DaemonInv => TypeOK
  <2> SUFFICES ASSUME DaemonInv
               PROVE  TypeOK
    OBVIOUS
  <2>1. TypeInv /\ HandlerInv /\ KeyInv /\ DenyInv /\ RingInv
    BY DEF DaemonInv
  <2>2. auditIdx \in Nat /\ auditCount \in 0..RingSize
    <3>1. Len(events) \in Nat /\ auditIdx = Len(events) /\ auditCount = IF Len(events) < RingSize THEN Len(events) ELSE RingSize
      BY <2>1, LenProperties DEF RingInv
    <3> QED  BY <3>1, Constants, SMTT(30)
  <2>3. \A e \in cache : e.expiresAt \in Nat
    BY <2>1 DEF DenyInv, Expires
  <2> QED  BY <2>1, <2>2, <2>3, ZenonT(30) DEF TypeOK, TypeInv, HandlerInv, KeyInv
<1> QED  BY <1>1, DaemonInvariant, PTL

\* A deny takes hold in time: whatever ListEnabled returns, cached or read, an
\* action it lets pass has not been denied for TTL + Lag.
THEOREM DenyHolds == Spec => []DenyTakesHold
<1>1. DaemonInv => DenyTakesHold
  BY DEF DaemonInv, DenyInv
<1> QED  BY <1>1, DaemonInvariant, PTL

\* Keystore.Load returns what the file holds, whatever Save does meanwhile.
THEOREM KeyCacheIsCoherent == Spec => []KeyCacheCoherent
<1>1. DaemonInv => KeyCacheCoherent
  BY DEF DaemonInv, KeyInv
<1> QED  BY <1>1, DaemonInvariant, PTL

\* getAuditEvents returns the latest events in order, for every size of the
\* ring, every limit and every number of events.
THEOREM AuditEventsAreExact == Spec => []AuditEventsExact
<1>1. DaemonInv => AuditEventsExact
  BY RingExact DEF DaemonInv
<1> QED  BY <1>1, DaemonInvariant, PTL

\* When Run returns every receipt has had its audit event.
THEOREM ShutdownIsDrained == Spec => []ShutdownDrains
<1>1. DaemonInv => ShutdownDrains
  <2> SUFFICES ASSUME DaemonInv, life = "stopped"
               PROVE  Recorded = (born + 1)..appended
    BY DEF ShutdownDrains, Recorded
  <2>1. Recorded \cup Pending = (born + 1)..appended /\ \A c \in Clients : pc[c] = "closed"
    BY DEF DaemonInv, DrainInv
  <2>2. \A c \in Clients : pc[c] \notin {"reply", "after"}
    BY <2>1
  <2>3. Pending = {}
    BY <2>2, ZenonT(30) DEF Pending
  <2> QED  BY <2>1, <2>3, ZenonT(30)
<1> QED  BY <1>1, DaemonInvariant, PTL
=============================================================================
