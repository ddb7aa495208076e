------------------------------- MODULE Tokens -------------------------------
(***************************************************************************)
(* The token manager of internal/identitybroker and its SQLite table.      *)
(* The manager's methods hold TokenManager.mu from their first line to     *)
(* their last, but they change a token by reading its row, changing the    *)
(* copy and writing the copy back, and the table can be changed without    *)
(* the manager: RevokeAllForAgent is a method of the store.  A statement   *)
(* may fail, the provider may refuse, and the process may crash.           *)
(***************************************************************************)
EXTENDS Integers

CONSTANTS
  Callers,    \* goroutines that call the manager
  NoCaller,   \* nobody holds TokenManager.mu
  Ids,        \* what generateTokenID may draw
  NoId,       \* the token of a caller that is in no call
  Agents,
  NoAgent,    \* the agent of a row that is not there
  TTL,        \* TokenManager.ttl, for requests that name none
  MaxTTL,     \* bound: the longest time to live asked for
  MaxUses,    \* bound: the largest MaxUsage asked for
  MaxNow      \* bound: readings of the clock

ASSUME TokensAssumption ==
  /\ NoCaller \notin Callers
  /\ NoId \notin Ids
  /\ NoAgent \notin Agents
  /\ TTL \in Nat
  /\ MaxTTL \in Nat
  /\ MaxUses \in Nat
  /\ MaxNow \in Nat

VARIABLES
  now,     \* time.Now()
  rows,    \* table tokens: id -> row
  mu,      \* holder of TokenManager.mu
  call,    \* caller -> where it is, and the token it holds
  drawn,   \* the ids that were drawn
  grant,   \* history: what ProvisionToken granted: [due, max], once returned
  valid,   \* history: how often ValidateToken returned Valid
  hit,     \* history: ids that were revoked by somebody
  gone     \* history: ids revoked while no call held an older copy

tokenVars == <<rows, drawn>>
historyVars == <<grant, valid, hit, gone>>
vars == <<now, mu, call, tokenVars, historyVars>>

NoRow == [agent |-> NoAgent, expires |-> 0, used |-> 0, max |-> 0,
          revoked |-> FALSE, revokedAt |-> 0, data |-> FALSE]
NoGrant == [due |-> 0, max |-> 0, given |-> FALSE]

Present(i) == rows[i].agent # NoAgent

Resting == [pc |-> "idle", id |-> NoId, token |-> NoRow]

Init ==
  /\ now = 0
  /\ rows = [i \in Ids |-> NoRow]
  /\ mu = NoCaller
  /\ call = [c \in Callers |-> Resting]
  /\ drawn = {}
  /\ grant = [i \in Ids |-> NoGrant]
  /\ valid = [i \in Ids |-> 0]
  /\ hit = {}
  /\ gone = {}

-----------------------------------------------------------------------------
\* The statements of SQLiteTokenStore.
Insert(i, token) == rows' = [rows EXCEPT ![i] = token]
Delete(i) == rows' = [rows EXCEPT ![i] = NoRow]

\* Update: a row that is not there is no error and stays away.
Update(i, token) == rows' = [rows EXCEPT ![i] = IF Present(i) THEN token ELSE @]

\* The deferred Unlock.
Return(c) ==
  /\ mu' = NoCaller
  /\ call' = [call EXCEPT ![c] = Resting]

Lock(c, pc, i, token) ==
  /\ mu = NoCaller
  /\ mu' = c
  /\ call' = [call EXCEPT ![c] = [pc |-> pc, id |-> i, token |-> token]]

-----------------------------------------------------------------------------
(* ProvisionToken.  When the INSERT fails, nothing has changed.            *)

ProvisionToken(c, i, a, ttl, uses) ==
  LET token == [NoRow EXCEPT !.agent = a, !.max = uses,
                             !.expires = now + (IF ttl <= 0 THEN TTL ELSE ttl)]
  IN  /\ i \notin drawn
      /\ drawn' = drawn \cup {i}
      /\ Lock(c, "ask", i, token)
      /\ Insert(i, token)
      /\ UNCHANGED <<now, historyVars>>

ProviderFails(c) ==
  /\ call[c].pc = "ask"
  /\ call' = [call EXCEPT ![c].pc = "undo"]
  /\ UNCHANGED <<now, mu, tokenVars, historyVars>>

\* The error of Delete is dropped, and the row may stay without its data.
DeleteRow(c) ==
  /\ call[c].pc = "undo"
  /\ \/ Delete(call[c].id)
     \/ UNCHANGED rows
  /\ Return(c)
  /\ UNCHANGED <<now, drawn, historyVars>>

ProviderIssues(c) ==
  /\ call[c].pc = "ask"
  /\ call' = [call EXCEPT ![c] = [pc |-> "data", id |-> @.id,
                                  token |-> [@.token EXCEPT !.data = TRUE]]]
  /\ UNCHANGED <<now, mu, tokenVars, historyVars>>

\* The token as it was built is written over the row, and returned.
StoreData(c) ==
  LET i == call[c].id  token == call[c].token IN
  /\ call[c].pc = "data"
  /\ Update(i, token)
  /\ grant' = [grant EXCEPT ![i] = [due |-> token.expires, max |-> token.max, given |-> TRUE]]
  /\ Return(c)
  /\ UNCHANGED <<now, drawn, valid, hit, gone>>

-----------------------------------------------------------------------------
(* ValidateToken.  The provider names a token whose value it was shown;    *)
(* any refusal, by the provider or below, changes nothing.                 *)

Usable_OnceMore(r) == ~ r.revoked /\ now <= r.expires /\ r.used <= r.max

Usable(r) == ~ r.revoked /\ now <= r.expires /\ r.used < r.max

ValidateToken(c, i) ==
  /\ Present(i)
  /\ rows[i].data
  /\ Usable(rows[i])
  /\ Lock(c, "use", i, [rows[i] EXCEPT !.used = @ + 1])
  /\ UNCHANGED <<now, tokenVars, historyVars>>

StoreUse(c) ==
  /\ call[c].pc = "use"
  /\ Update(call[c].id, call[c].token)
  /\ valid' = [valid EXCEPT ![call[c].id] = @ + 1]
  /\ Return(c)
  /\ UNCHANGED <<now, drawn, grant, hit, gone>>

-----------------------------------------------------------------------------
(* RevokeToken.  An id that has no row is an error.                        *)

RevokeToken_Unmarked(c, i) ==
  /\ Present(i)
  /\ Lock(c, "revoke", i, [rows[i] EXCEPT !.revokedAt = now])
  /\ UNCHANGED <<now, tokenVars, historyVars>>

RevokeToken(c, i) ==
  /\ Present(i)
  /\ Lock(c, "revoke", i, [rows[i] EXCEPT !.revoked = TRUE, !.revokedAt = now])
  /\ UNCHANGED <<now, tokenVars, historyVars>>

StoreRevoked(c) ==
  LET i == call[c].id IN
  /\ call[c].pc = "revoke"
  /\ Update(i, call[c].token)
  /\ hit' = hit \cup {i}
  /\ gone' = gone \cup {i}
  /\ call' = [call EXCEPT ![c].pc = "tell"]
  /\ UNCHANGED <<now, mu, drawn, grant, valid>>

\* The provider is told last; what it answers is returned.
ProviderRevokes(c) ==
  /\ call[c].pc = "tell"
  /\ Return(c)
  /\ UNCHANGED <<now, tokenVars, historyVars>>

\* An UPDATE fails: the error is returned and the row is as it was.
UpdateFails(c) ==
  /\ call[c].pc \in {"data", "use", "revoke"}
  /\ Return(c)
  /\ UNCHANGED <<now, tokenVars, historyVars>>

-----------------------------------------------------------------------------
Stale_AnyOld(r) == r.expires < now \/ r.revokedAt < now
Stale(r) == r.expires < now \/ (r.revoked /\ r.revokedAt < now)

\* One DELETE under both mutexes.
CleanupExpired ==
  /\ mu = NoCaller
  /\ rows' = [i \in Ids |-> IF Stale(rows[i]) THEN NoRow ELSE rows[i]]
  /\ UNCHANGED <<now, mu, call, drawn, historyVars>>

\* Calls that will write an unrevoked copy of token i back.
Held(i) == \E c \in Callers : call[c].pc \in {"ask", "data", "use"} /\ call[c].id = i

\* One UPDATE under SQLiteTokenStore.mu only.
RevokeAllForAgent(a) ==
  LET all == {i \in Ids : rows[i].agent = a /\ ~ rows[i].revoked} IN
  /\ rows' = [i \in Ids |-> IF i \in all
                THEN [rows[i] EXCEPT !.revoked = TRUE, !.revokedAt = now] ELSE rows[i]]
  /\ hit' = hit \cup all
  /\ gone' = gone \cup {i \in all : ~ Held(i)}
  /\ UNCHANGED <<now, mu, call, drawn, grant, valid>>

\* The table survives; the mutex and the calls do not.
Crash ==
  /\ mu # NoCaller
  /\ mu' = NoCaller
  /\ call' = [c \in Callers |-> Resting]
  /\ UNCHANGED <<now, tokenVars, historyVars>>

Tick ==
  /\ now < MaxNow
  /\ now' = now + 1
  /\ UNCHANGED <<mu, call, tokenVars, historyVars>>

Provisioning(c) ==
  \/ \E i \in Ids, a \in Agents, ttl \in 0..MaxTTL, uses \in 0..MaxUses :
       ProvisionToken(c, i, a, ttl, uses)
  \/ ProviderFails(c) \/ DeleteRow(c) \/ ProviderIssues(c) \/ StoreData(c)

Validating(c) == (\E i \in Ids : ValidateToken(c, i)) \/ StoreUse(c)

Revoking(c) ==
  (\E i \in Ids : RevokeToken(c, i)) \/ StoreRevoked(c) \/ ProviderRevokes(c)

Next ==
  \/ \E c \in Callers : Provisioning(c) \/ Validating(c) \/ Revoking(c) \/ UpdateFails(c)
  \/ \E a \in Agents : RevokeAllForAgent(a)
  \/ CleanupExpired \/ Crash \/ Tick

Spec == Init /\ [][Next]_vars

-----------------------------------------------------------------------------
(* A token is accepted no more often than it was granted for, and never    *)
(* before it was returned, across failed updates, revocations, the         *)
(* clean-up and crashes.                                                   *)
UsesBounded == \A i \in Ids : valid[i] <= grant[i].max

(* A revoked token stays revoked: no call writes an older copy over the    *)
(* mark and none is about to accept the token, when RevokeToken or         *)
(* RevokeAllForAgent marked it while no call held a copy of its row.       *)
RevokedStays ==
  \A i \in gone :
    /\ Present(i) => rows[i].revoked
    /\ ~ \E c \in Callers : call[c].pc = "use" /\ call[c].id = i

(* A token that was returned, has not expired and was never revoked is in  *)
(* the table with its value, its bound and a count that forgets no use:    *)
(* the clean-up, a provider failing another request or a crash never takes *)
(* it.                                                                     *)
LiveTokensKept ==
  \A i \in Ids : grant[i].given /\ now <= grant[i].due /\ i \notin hit =>
    /\ Present(i) /\ rows[i].data /\ rows[i].max = grant[i].max
    /\ valid[i] <= rows[i].used
=============================================================================
