---------------------------- MODULE TokensProofs ----------------------------
(***************************************************************************)
(* What Tokens promises, for any number of callers, agents and tokens, any *)
(* times to live and any bounds.                                           *)
(***************************************************************************)
EXTENDS Tokens, TLAPS

Row == [agent : Agents \cup {NoAgent}, expires : Nat, used : Nat, max : Nat,
        revoked : BOOLEAN, revokedAt : Nat, data : BOOLEAN]
Grant == [due : Nat, max : Nat, given : BOOLEAN]
PCs == {"idle", "ask", "undo", "data", "use", "revoke", "tell"}

Types ==
  /\ now \in Nat
  /\ rows \in [Ids -> Row]
  /\ call \in [Callers -> [pc : PCs, id : Ids \cup {NoId}, token : Row]]
  /\ drawn \in SUBSET Ids
  /\ grant \in [Ids -> Grant]
  /\ valid \in [Ids -> Nat]
  /\ gone \in SUBSET Ids

\* What a call that holds TokenManager.mu knows of its row: nobody else has
\* changed it since it was read, except to revoke it.
CallOK(c) ==
  LET i == call[c].id  t == call[c].token IN
  /\ call[c].pc # "idle" => mu = c /\ i \in drawn
  /\ call[c].pc \in {"ask", "undo", "data"} =>
       Present(i) /\ ~ grant[i].given /\ t.agent # NoAgent /\ t.used = 0 /\ ~ t.revoked
  /\ call[c].pc = "data" => t.data
  /\ call[c].pc \in {"use", "revoke"} =>
       /\ Present(i)
       /\ t.agent = rows[i].agent /\ t.max = rows[i].max
       /\ t.expires = rows[i].expires /\ t.data = rows[i].data
  /\ call[c].pc = "use" => t.data /\ t.used = rows[i].used + 1 /\ t.used <= t.max /\ ~ t.revoked
  /\ call[c].pc = "revoke" => t.revoked /\ t.used = rows[i].used

\* A row, its grant and its history.
RowOK(i) ==
  /\ Present(i) \/ grant[i].given => i \in drawn
  /\ rows[i].data => Present(i) /\ grant[i].given
  /\ ~ grant[i].given => valid[i] = 0
  /\ Present(i) /\ grant[i].given =>
       rows[i].data /\ rows[i].max = grant[i].max /\ rows[i].expires = grant[i].due
  /\ Present(i) => valid[i] <= rows[i].used /\ rows[i].used <= rows[i].max
  /\ valid[i] <= grant[i].max
  /\ rows[i].revoked => i \in hit
  /\ grant[i].given /\ now <= grant[i].due /\ i \notin hit => Present(i)
  /\ i \in gone => i \in drawn /\ (Present(i) => rows[i].revoked) /\ ~ Held(i)

\* The inductive invariant.
Inv == Types /\ (\A c \in Callers : CallOK(c)) /\ (\A i \in Ids : RowOK(i))
-----------------------------------------------------------------------------
LEMMA NoRowIsRow == NoRow \in Row
  BY SMTT(30) DEF NoRow, Row

\* The copies the manager changes are rows.
LEMMA RowUpdates ==
  ASSUME NEW r \in Row, NEW t \in Nat, NEW m \in Nat
  PROVE  /\ [r EXCEPT !.revoked = TRUE, !.revokedAt = t] \in Row
         /\ [r EXCEPT !.data = TRUE] \in Row
         /\ \A a \in Agents : [r EXCEPT !.agent = a, !.max = m, !.expires = t] \in Row
  <1>1. [r EXCEPT !.revoked = TRUE, !.revokedAt = t] \in Row
    BY ZenonT(30) DEF Row
  <1>2. [r EXCEPT !.data = TRUE] \in Row
    BY ZenonT(30) DEF Row
  <1>3. ASSUME NEW a \in Agents PROVE [r EXCEPT !.agent = a, !.max = m, !.expires = t] \in Row
    BY ZenonT(30) DEF Row
  <1> QED BY ZenonT(30), <1>1, <1>2, <1>3

\* While a call runs, its caller holds the mutex and every other one rests.
LEMMA OthersRest ==
  ASSUME Inv, NEW c \in Callers, call[c].pc # "idle"
  PROVE  mu = c /\ \A d \in Callers : d # c => call[d].pc = "idle"
  BY ZenonT(30) DEF Inv, CallOK

\* When it returns, everyone rests.
LEMMA ReturnRests ==
  ASSUME Inv, NEW c \in Callers, call[c].pc # "idle", Return(c)
  PROVE  /\ call' \in [Callers -> [pc : PCs, id : Ids \cup {NoId}, token : Row]]
         /\ \A d \in Callers : call'[d].pc = "idle" /\ CallOK(d)'
         /\ \A i \in Ids : ~ Held(i)'
  <1> DEFINE State == [pc : PCs, id : Ids \cup {NoId}, token : Row]
  <1>1. Resting \in State /\ Resting.pc = "idle"
    BY SMTT(30), NoRowIsRow DEF Resting, PCs
  <1>2. call \in [Callers -> State] /\ call' = [call EXCEPT ![c] = Resting]
    BY ZenonT(30) DEF Return, Inv, Types
  <1> HIDE DEF State
  <1>3. call' \in [Callers -> State] /\ \A d \in Callers : call'[d].pc = "idle"
    BY SMTT(30), <1>1, <1>2, OthersRest
  <1>4. ASSUME NEW d \in Callers PROVE CallOK(d)'
    BY SMTT(30), <1>3 DEF CallOK
  <1>5. \A i \in Ids : ~ Held(i)'
    BY SMTT(30), <1>3 DEF Held
  <1> QED BY ZenonT(30), <1>3, <1>4, <1>5 DEF State

LEMMA RestingFits ==
  ASSUME NEW d \in Callers, call'[d].pc = "idle"
  PROVE  CallOK(d)'
  BY SMTT(30) DEF CallOK

\* When a call begins, everyone else rests.
LEMMA LockRests ==
  ASSUME Inv, NEW c \in Callers, NEW w \in PCs, NEW i \in Ids, NEW t \in Row, Lock(c, w, i, t)
  PROVE  /\ mu' = c
         /\ call' \in [Callers -> [pc : PCs, id : Ids \cup {NoId}, token : Row]]
         /\ call'[c].pc = w /\ call'[c].id = i /\ call'[c].token = t
         /\ \A d \in Callers : d # c => CallOK(d)'
         /\ \A j \in Ids : Held(j)' => j = i /\ w \in {"ask", "data", "use"}
  <1> DEFINE State == [pc : PCs, id : Ids \cup {NoId}, token : Row]
             r == [pc |-> w, id |-> i, token |-> t]
  <1>1. /\ mu = NoCaller /\ mu' = c /\ call' = [call EXCEPT ![c] = r]
        /\ call \in [Callers -> State]
    BY ZenonT(30) DEF Lock, Inv, Types
  <1>2. \A d \in Callers : call[d].pc = "idle"
    BY ZenonT(30), <1>1, TokensAssumption DEF Inv, CallOK
  <1>3. r \in State /\ r.pc = w /\ r.id = i /\ r.token = t
    BY SMTT(30)
  <1> HIDE DEF State, r
  <1>4. /\ call' \in [Callers -> State] /\ call'[c] = r
        /\ \A d \in Callers : d # c => call'[d] = call[d]
    BY SMTT(30), <1>1, <1>3
  <1>5. \A d \in Callers : d # c => CallOK(d)'
    BY ZenonT(30), <1>2, <1>4, RestingFits
  <1>6. \A j \in Ids : Held(j)' => j = i /\ w \in {"ask", "data", "use"}
    BY SMTT(30), <1>2, <1>3, <1>4 DEF Held
  <1> QED BY ZenonT(30), <1>1, <1>3, <1>4, <1>5, <1>6 DEF State

\* A row stays as it should be while it is left alone.
LEMMA RowStays ==
  ASSUME Inv, NEW j \in Ids, rows'[j] = rows[j], grant'[j] = grant[j], valid'[j] = valid[j],
         now' = now, drawn \subseteq drawn', hit' = hit, j \in gone' => j \in gone,
         Held(j)' => Held(j) \/ j \notin gone
  PROVE  RowOK(j)'
  BY ZenonT(30) DEF Inv, RowOK, Present

LEMMA InitInv == ASSUME Init PROVE Inv
  <1>1. Types
    BY SMTT(30), NoRowIsRow DEF Init, Types, Resting, Grant, NoGrant, PCs
  <1>2. ASSUME NEW c \in Callers PROVE CallOK(c)
    BY SMTT(30) DEF Init, CallOK, Resting
  <1>3. ASSUME NEW i \in Ids PROVE RowOK(i)
    BY SMTT(30) DEF Init, RowOK, NoRow, NoGrant, Present
  <1> QED BY ZenonT(30), <1>1, <1>2, <1>3 DEF Inv

LEMMA ProviderFailsInv == ASSUME NEW c \in Callers, Inv, ProviderFails(c) PROVE Inv'
  <1>1. Types'
    BY SMTT(30) DEF ProviderFails, Inv, Types, PCs, tokenVars, historyVars
  <1>2. ASSUME NEW d \in Callers PROVE CallOK(d)'
    <2>1. /\ call[c].pc = "ask" /\ call' = [call EXCEPT ![c].pc = "undo"]
          /\ mu' = mu /\ rows' = rows /\ drawn' = drawn /\ grant' = grant
      BY ZenonT(30) DEF ProviderFails, tokenVars, historyVars
    <2>2. CASE d = c
      <3>1. call'[d].pc = "undo" /\ call'[d].id = call[c].id /\ call'[d].token = call[c].token
        BY SMTT(30), <2>1, <2>2 DEF Inv, Types
      <3>2. /\ mu = c /\ call[c].id \in drawn /\ Present(call[c].id) /\ ~ grant[call[c].id].given
            /\ call[c].token.agent # NoAgent /\ call[c].token.used = 0 /\ ~ call[c].token.revoked
        BY ZenonT(30), <2>1 DEF Inv, CallOK
      <3> QED BY SMTT(30), <2>1, <2>2, <3>1, <3>2 DEF CallOK, Present
    <2>3. CASE d # c
      <3>1. call'[d] = call[d] /\ call[d].pc = "idle"
        BY SMTT(30), <2>1, <2>3, OthersRest DEF Inv, Types
      <3> QED BY SMTT(30), <3>1 DEF CallOK
    <2> QED BY ZenonT(30), <2>2, <2>3
  <1>3. ASSUME NEW j \in Ids PROVE RowOK(j)'
    <2>1. Held(j)' => Held(j)
      BY SMTT(30) DEF ProviderFails, Held, Inv, Types
    <2> QED BY ZenonT(30), <2>1, RowStays DEF ProviderFails, tokenVars, historyVars
  <1> QED BY ZenonT(30), <1>1, <1>2, <1>3 DEF Inv

LEMMA DeleteRowInv == ASSUME NEW c \in Callers, Inv, DeleteRow(c) PROVE Inv'
  <1>1. Types'
    <2>1. rows' \in [Ids -> Row]
      BY SMTT(30), NoRowIsRow DEF DeleteRow, Delete, Inv, Types
    <2>2. call' \in [Callers -> [pc : PCs, id : Ids \cup {NoId}, token : Row]]
      BY SMTT(30), NoRowIsRow DEF DeleteRow, Return, Resting, Inv, Types, PCs
    <2> QED BY SMTT(30), <2>1, <2>2 DEF DeleteRow, historyVars, Inv, Types
  <1>2. ASSUME NEW d \in Callers PROVE CallOK(d)'
    <2>1. call[c].pc # "idle" /\ Return(c)
      BY SMTT(30) DEF DeleteRow
    <2> QED BY ZenonT(30), <2>1, ReturnRests
  <1>3. ASSUME NEW j \in Ids PROVE RowOK(j)'
    <2>1. /\ call[c].pc = "undo" /\ call[c].pc # "idle" /\ Return(c)
          /\ rows' = [rows EXCEPT ![call[c].id] = NoRow] \/ rows' = rows
          /\ now' = now /\ drawn' = drawn
          /\ grant' = grant /\ valid' = valid /\ hit' = hit /\ gone' = gone
      BY ZenonT(30) DEF DeleteRow, Delete, historyVars
    <2>2. ~ Held(j)' /\ RowOK(j)
      BY ZenonT(30), <2>1, ReturnRests DEF Inv
    <2>3. CASE rows'[j] = rows[j]
      BY ZenonT(30), <2>1, <2>2, <2>3, RowStays
    <2>4. CASE rows'[j] = NoRow /\ j = call[c].id
      <3>1. ~ grant[j].given
        BY ZenonT(30), <2>1, <2>4 DEF Inv, CallOK
      <3>2. ~ Present(j)' /\ ~ rows'[j].data /\ ~ rows'[j].revoked
        BY SMTT(30), <2>4 DEF Present, NoRow
      <3> QED BY ZenonT(30), <2>1, <2>2, <3>1, <3>2 DEF RowOK
    <2>5. rows'[j] = rows[j] \/ (rows'[j] = NoRow /\ j = call[c].id)
      BY SMTT(30), <2>1 DEF Inv, Types
    <2> QED BY ZenonT(30), <2>3, <2>4, <2>5
  <1> QED BY ZenonT(30), <1>1, <1>2, <1>3 DEF Inv

LEMMA ProviderIssuesInv == ASSUME NEW c \in Callers, Inv, ProviderIssues(c) PROVE Inv'
  <1>1. Types'
    <2>0. call[c].token \in Row
      BY SMTT(30) DEF Inv, Types
    <2>1. [call[c].token EXCEPT !.data = TRUE] \in Row
      BY ZenonT(30), <2>0 DEF Row
    <2> DEFINE q == [call[c].token EXCEPT !.data = TRUE]
    <2>a. call' = [call EXCEPT ![c] = [pc |-> "data", id |-> call[c].id, token |-> q]]
      BY ZenonT(30) DEF ProviderIssues
    <2> HIDE DEF q
    <2>2. call' \in [Callers -> [pc : PCs, id : Ids \cup {NoId}, token : Row]]
      BY SMTT(30), <2>1, <2>a DEF Inv, Types, PCs, q
    <2> QED BY SMTT(30), <2>2 DEF ProviderIssues, tokenVars, historyVars, Inv, Types
  <1>2. ASSUME NEW d \in Callers PROVE CallOK(d)'
    <2> DEFINE q == [call[c].token EXCEPT !.data = TRUE]
    <2>1. /\ call[c].pc = "ask"
          /\ call' = [call EXCEPT ![c] = [pc |-> "data", id |-> call[c].id, token |-> q]]
          /\ mu' = mu /\ rows' = rows /\ drawn' = drawn /\ grant' = grant
      BY ZenonT(30) DEF ProviderIssues, tokenVars, historyVars
    <2>2. /\ q.data /\ q.agent = call[c].token.agent /\ q.used = call[c].token.used
          /\ q.revoked = call[c].token.revoked
      <3>1. call[c].token \in Row
        BY SMTT(30) DEF Inv, Types
      <3> QED BY ZenonT(30), <3>1 DEF Row
    <2> HIDE DEF q
    <2>3. CASE d = c
      <3>1. call'[d] = [pc |-> "data", id |-> call[c].id, token |-> q]
        BY SMTT(30), <2>1, <2>3 DEF Inv, Types
      <3>2. call'[d].pc = "data" /\ call'[d].id = call[c].id /\ call'[d].token = q
        BY SMTT(30), <3>1
      <3>3. /\ mu = c /\ call[c].id \in drawn /\ Present(call[c].id) /\ ~ grant[call[c].id].given
            /\ q.data /\ q.agent # NoAgent /\ q.used = 0 /\ ~ q.revoked
        BY ZenonT(30), <2>1, <2>2 DEF Inv, CallOK
      <3> QED BY SMTT(30), <2>1, <2>3, <3>2, <3>3 DEF CallOK, Present
    <2>4. CASE d # c
      <3>1. call'[d] = call[d] /\ call[d].pc = "idle"
        BY SMTT(30), <2>1, <2>4, OthersRest DEF Inv, Types
      <3> QED BY SMTT(30), <3>1 DEF CallOK
    <2> QED BY ZenonT(30), <2>3, <2>4
  <1>3. ASSUME NEW j \in Ids PROVE RowOK(j)'
    <2>1. Held(j)' => Held(j)
      BY SMTT(30) DEF ProviderIssues, Held, Inv, Types
    <2> QED BY ZenonT(30), <2>1, RowStays DEF ProviderIssues, tokenVars, historyVars
  <1> QED BY ZenonT(30), <1>1, <1>2, <1>3 DEF Inv

LEMMA StoreDataInv == ASSUME NEW c \in Callers, Inv, StoreData(c) PROVE Inv'
  <1> DEFINE i == call[c].id
             t == call[c].token
             g == [due |-> t.expires, max |-> t.max, given |-> TRUE]
  <1>0. /\ call[c].pc = "data" /\ call[c].pc # "idle" /\ Return(c)
        /\ rows' = [rows EXCEPT ![i] = IF Present(i) THEN t ELSE rows[i]]
        /\ grant' = [grant EXCEPT ![i] = g]
        /\ now' = now /\ drawn' = drawn /\ valid' = valid /\ hit' = hit /\ gone' = gone
    BY ZenonT(30) DEF StoreData, Update
  <1>1. i \in drawn /\ i \in Ids /\ t \in Row /\ Present(i) /\ i \notin gone
    <2>1. drawn \subseteq Ids /\ call[c] \in [pc : PCs, id : Ids \cup {NoId}, token : Row]
      BY ZenonT(30) DEF Inv, Types
    <2>2. t \in Row
      BY ZenonT(30), <2>1
    <2>3. i \in drawn /\ Present(i)
      BY ZenonT(30), <1>0 DEF Inv, CallOK
    <2>4. Held(i)
      BY ZenonT(30), <1>0 DEF Held
    <2>5. i \in Ids
      BY ZenonT(30), <2>1, <2>3
    <2> QED BY ZenonT(30), <2>2, <2>3, <2>4, <2>5 DEF Inv, RowOK
  <1>2. ~ grant[i].given /\ t.agent # NoAgent /\ t.used = 0 /\ ~ t.revoked /\ t.data /\ valid[i] = 0
    BY ZenonT(30), <1>0, <1>1 DEF Inv, CallOK, RowOK
  <1>3. g \in Grant /\ g.due = t.expires /\ g.max = t.max /\ g.given
    BY SMTT(30), <1>1 DEF Row, Grant
  <1>4. t.used \in Nat /\ t.max \in Nat
    BY SMTT(30), <1>1 DEF Row
  <1> HIDE DEF i, t, g
  <1>5. Types'
    BY SMTT(30), <1>0, <1>1, <1>3, ReturnRests DEF Inv, Types
  <1>6. ASSUME NEW j \in Ids PROVE RowOK(j)'
    <2>1. CASE j = i
      BY SMTT(30), <2>1, <1>0, <1>1, <1>2, <1>3, <1>4 DEF Inv, Types, RowOK, Present
    <2>2. CASE j # i
      <3>1. rows'[j] = rows[j] /\ grant'[j] = grant[j] /\ RowOK(j) /\ ~ Held(j)'
        BY SMTT(30), <2>2, <1>0, ReturnRests DEF Inv, Types
      <3> QED BY ZenonT(30), <1>0, <3>1 DEF RowOK, Present
    <2> QED BY ZenonT(30), <2>1, <2>2
  <1> QED BY ZenonT(30), <1>0, <1>5, <1>6, ReturnRests DEF Inv

LEMMA StoreUseInv == ASSUME NEW c \in Callers, Inv, StoreUse(c) PROVE Inv'
  <1> DEFINE i == call[c].id
             t == call[c].token
  <1>0. /\ call[c].pc = "use" /\ call[c].pc # "idle" /\ Return(c)
        /\ rows' = [rows EXCEPT ![i] = IF Present(i) THEN t ELSE rows[i]]
        /\ valid' = [valid EXCEPT ![i] = valid[i] + 1]
        /\ now' = now /\ drawn' = drawn /\ grant' = grant /\ hit' = hit /\ gone' = gone
    BY ZenonT(30) DEF StoreUse, Update
  <1>1. i \in drawn /\ i \in Ids /\ t \in Row /\ Present(i) /\ i \notin gone
    <2>1. drawn \subseteq Ids /\ call[c] \in [pc : PCs, id : Ids \cup {NoId}, token : Row]
      BY ZenonT(30) DEF Inv, Types
    <2>2. t \in Row
      BY ZenonT(30), <2>1
    <2>3. i \in drawn /\ Present(i)
      BY ZenonT(30), <1>0 DEF Inv, CallOK
    <2>4. Held(i)
      BY ZenonT(30), <1>0 DEF Held
    <2>5. i \in Ids
      BY ZenonT(30), <2>1, <2>3
    <2> QED BY ZenonT(30), <2>2, <2>3, <2>4, <2>5 DEF Inv, RowOK
  <1>2. /\ t.agent = rows[i].agent /\ t.max = rows[i].max
        /\ t.expires = rows[i].expires /\ t.data = rows[i].data
        /\ t.data /\ t.used = rows[i].used + 1 /\ t.used <= t.max /\ ~ t.revoked
    BY ZenonT(30), <1>0 DEF Inv, CallOK
  <1>3. valid[i] \in Nat /\ rows[i].used \in Nat /\ rows[i].max \in Nat /\ grant[i].max \in Nat
    BY SMTT(30), <1>1 DEF Inv, Types, Row, Grant
  <1>4. RowOK(i)
    BY ZenonT(30), <1>1 DEF Inv
  <1> HIDE DEF i, t
  <1>5. Types'
    BY SMTT(30), <1>0, <1>1, <1>3, ReturnRests DEF Inv, Types
  <1>6. ASSUME NEW j \in Ids PROVE RowOK(j)'
    <2>1. CASE j = i
      <3>1. rows'[j] = t /\ valid'[j] = valid[j] + 1 /\ ~ Held(j)'
        BY SMTT(30), <2>1, <1>0, <1>1, ReturnRests DEF Inv, Types
      <3>2. /\ grant[i].given /\ rows[i].max = grant[i].max /\ rows[i].expires = grant[i].due
            /\ valid[i] <= rows[i].used
        BY ZenonT(30), <1>1, <1>2, <1>4 DEF RowOK
      <3>3. /\ valid[i] + 1 <= t.used /\ valid[i] + 1 <= grant[i].max
            /\ t.agent # NoAgent /\ t.max = grant[i].max /\ t.expires = grant[i].due
        BY SMTT(30), <3>2, <1>1, <1>2, <1>3 DEF Present
      <3> QED BY ZenonT(30), <2>1, <3>1, <3>2, <3>3, <1>0, <1>1, <1>2 DEF RowOK, Present
    <2>2. CASE j # i
      <3>1. rows'[j] = rows[j] /\ valid'[j] = valid[j] /\ RowOK(j) /\ ~ Held(j)'
        BY SMTT(30), <2>2, <1>0, ReturnRests DEF Inv, Types
      <3> QED BY ZenonT(30), <1>0, <3>1 DEF RowOK, Present
    <2> QED BY ZenonT(30), <2>1, <2>2
  <1> QED BY ZenonT(30), <1>0, <1>5, <1>6, ReturnRests DEF Inv

LEMMA StoreRevokedInv == ASSUME NEW c \in Callers, Inv, StoreRevoked(c) PROVE Inv'
  <1> DEFINE i == call[c].id
             t == call[c].token
  <1>0. /\ call[c].pc = "revoke" /\ call[c].pc # "idle"
        /\ call' = [call EXCEPT ![c].pc = "tell"]
        /\ rows' = [rows EXCEPT ![i] = IF Present(i) THEN t ELSE rows[i]]
        /\ hit' = hit \cup {i} /\ gone' = gone \cup {i}
        /\ now' = now /\ mu' = mu /\ drawn' = drawn /\ grant' = grant /\ valid' = valid
    BY ZenonT(30) DEF StoreRevoked, Update
  <1>1. i \in drawn /\ i \in Ids /\ t \in Row /\ Present(i)
    BY SMTT(30), <1>0 DEF Inv, Types, CallOK
  <1>2. /\ t.agent = rows[i].agent /\ t.max = rows[i].max
        /\ t.expires = rows[i].expires /\ t.data = rows[i].data
        /\ t.revoked /\ t.used = rows[i].used
    BY ZenonT(30), <1>0 DEF Inv, CallOK
  <1>3. /\ call'[c].pc = "tell" /\ call'[c].id = i /\ mu = c
        /\ \A d \in Callers : d # c => call'[d] = call[d] /\ call[d].pc = "idle"
    BY SMTT(30), <1>0, OthersRest DEF Inv, Types
  <1>4. RowOK(i)
    BY ZenonT(30), <1>1 DEF Inv
  <1>5. \A j \in Ids : ~ Held(j)'
    BY SMTT(30), <1>3 DEF Held
  <1>6. Types'
    BY SMTT(30), <1>0, <1>1 DEF Inv, Types, PCs
  <1> HIDE DEF i, t
  <1>7. ASSUME NEW d \in Callers PROVE CallOK(d)'
    <2>1. CASE d = c
      <3>1. call'[d].pc = "tell" /\ call'[d].id \in drawn' /\ mu' = d
        BY SMTT(30), <2>1, <1>0, <1>1, <1>3
      <3> QED BY SMTT(30), <3>1 DEF CallOK
    <2>2. CASE d # c
      BY ZenonT(30), <2>2, <1>3, RestingFits
    <2> QED BY ZenonT(30), <2>1, <2>2
  <1>8. ASSUME NEW j \in Ids PROVE RowOK(j)'
    <2>1. CASE j = i
      <3>1. rows'[j] = t
        BY SMTT(30), <2>1, <1>0, <1>1 DEF Inv, Types
      <3> QED BY ZenonT(30), <2>1, <3>1, <1>0, <1>1, <1>2, <1>4, <1>5 DEF RowOK, Present
    <2>2. CASE j # i
      <3>1. rows'[j] = rows[j] /\ RowOK(j)
        BY SMTT(30), <2>2, <1>0 DEF Inv, Types
      <3> QED BY ZenonT(30), <2>2, <1>0, <1>5, <3>1 DEF RowOK, Present
    <2> QED BY ZenonT(30), <2>1, <2>2
  <1> QED BY ZenonT(30), <1>6, <1>7, <1>8 DEF Inv

LEMMA ProviderRevokesInv == ASSUME NEW c \in Callers, Inv, ProviderRevokes(c) PROVE Inv'
  <1>1. Types'
    BY SMTT(30) DEF ProviderRevokes, Inv, Types, Row, PCs, NoRow, Resting, tokenVars, historyVars, Return
  <1>2. ASSUME NEW d \in Callers PROVE CallOK(d)'
    <2>1. call[c].pc # "idle" /\ Return(c)
      BY SMTT(30) DEF ProviderRevokes
    <2> QED BY ZenonT(30), <2>1, ReturnRests
  <1>3. ASSUME NEW j \in Ids PROVE RowOK(j)'
    <2>1. call[c].pc # "idle" /\ Return(c)
      BY SMTT(30) DEF ProviderRevokes
    <2>2. ~ Held(j)'
      BY ZenonT(30), <2>1, ReturnRests
    <2> QED BY ZenonT(30), <2>2, RowStays DEF ProviderRevokes, tokenVars, historyVars
  <1> QED BY ZenonT(30), <1>1, <1>2, <1>3 DEF Inv

LEMMA UpdateFailsInv == ASSUME NEW c \in Callers, Inv, UpdateFails(c) PROVE Inv'
  <1>1. Types'
    BY SMTT(30) DEF UpdateFails, Inv, Types, Row, PCs, NoRow, Resting, tokenVars, historyVars, Return
  <1>2. ASSUME NEW d \in Callers PROVE CallOK(d)'
    <2>1. call[c].pc # "idle" /\ Return(c)
      BY SMTT(30) DEF UpdateFails
    <2> QED BY ZenonT(30), <2>1, ReturnRests
  <1>3. ASSUME NEW j \in Ids PROVE RowOK(j)'
    <2>1. call[c].pc # "idle" /\ Return(c)
      BY SMTT(30) DEF UpdateFails
    <2>2. ~ Held(j)'
      BY ZenonT(30), <2>1, ReturnRests
    <2> QED BY ZenonT(30), <2>2, RowStays DEF UpdateFails, tokenVars, historyVars
  <1> QED BY ZenonT(30), <1>1, <1>2, <1>3 DEF Inv

LEMMA ProvisionInv ==
  ASSUME NEW c \in Callers, NEW i \in Ids, NEW a \in Agents, NEW ttl \in Nat, NEW uses \in Nat,
         Inv, ProvisionToken(c, i, a, ttl, uses)
  PROVE  Inv'
  <1> DEFINE due == now + (IF ttl <= 0 THEN TTL ELSE ttl)
             token == [NoRow EXCEPT !.agent = a, !.max = uses, !.expires = due]
  <1>0. /\ token \in Row
        /\ token.agent = a /\ token.max = uses /\ token.used = 0
        /\ token.revoked = FALSE /\ token.data = FALSE
    <2>1. due \in Nat
      BY SMTT(30), TokensAssumption DEF Inv, Types
    <2> HIDE DEF due
    <2>2. token \in Row
      BY ZenonT(30), <2>1, NoRowIsRow, RowUpdates
    <2> QED BY SMTT(30), <2>2 DEF NoRow
  <1>a. /\ i \notin drawn /\ drawn' = drawn \cup {i}
        /\ mu = NoCaller /\ mu' = c
        /\ call' = [call EXCEPT ![c] = [pc |-> "ask", id |-> i, token |-> token]]
        /\ rows' = [rows EXCEPT ![i] = token]
        /\ now' = now /\ grant' = grant /\ valid' = valid /\ hit' = hit /\ gone' = gone
    BY ZenonT(30) DEF ProvisionToken, Insert, Lock, historyVars
  <1> HIDE DEF token, due
  <1>l. "ask" \in PCs /\ Lock(c, "ask", i, token) /\ a # NoAgent
    BY SMTT(30), <1>a, TokensAssumption DEF Lock, PCs
  <1>c. /\ rows' \in [Ids -> Row] /\ drawn' \in SUBSET Ids
        /\ \A j \in Ids : rows'[j] = IF j = i THEN token ELSE rows[j]
    BY SMTT(30), <1>0, <1>a DEF Inv, Types
  <1>k. mu' = c /\ call'[c].pc = "ask" /\ call'[c].id = i /\ call'[c].token = token
    BY ZenonT(30), <1>0, <1>l, LockRests
  <1>1. Types'
    BY ZenonT(30), <1>0, <1>a, <1>c, <1>l, LockRests DEF Inv, Types
  <1>b. /\ ~ Present(i) /\ ~ grant[i].given /\ valid[i] = 0 /\ i \notin gone
        /\ valid[i] <= grant[i].max
    BY ZenonT(30), <1>a DEF Inv, RowOK
  <1>2. ASSUME NEW d \in Callers PROVE CallOK(d)'
    <2>1. CASE d = c
      <3>1. i \in drawn' /\ Present(i)' /\ ~ grant'[i].given
        BY ZenonT(30), <1>0, <1>a, <1>b, <1>c, <1>l DEF Present
      <3>2. ~ token.data /\ ~ token.revoked /\ token.agent # NoAgent
        BY ZenonT(30), <1>0, <1>l
      <3> HIDE DEF token
      <3> QED BY SMTT(30), <2>1, <3>1, <3>2, <1>0, <1>k DEF CallOK
    <2>2. CASE d # c
      BY ZenonT(30), <2>2, <1>0, <1>l, LockRests
    <2> QED BY ZenonT(30), <2>1, <2>2
  <1>3. ASSUME NEW j \in Ids PROVE RowOK(j)'
    <2>1. CASE j = i
      <3>1. 0 <= 0 /\ 0 <= uses
        BY SMTT(30)
      <3> QED BY ZenonT(30), <2>1, <3>1, <1>0, <1>a, <1>b, <1>c DEF RowOK
    <2>2. CASE j # i
      <3>1. rows'[j] = rows[j] /\ ~ Held(j)' /\ drawn \subseteq drawn'
        BY ZenonT(30), <2>2, <1>0, <1>a, <1>c, <1>l, LockRests
      <3> QED BY ZenonT(30), <3>1, <1>a, RowStays
    <2> QED BY ZenonT(30), <2>1, <2>2
  <1> QED BY ZenonT(30), <1>1, <1>2, <1>3 DEF Inv

LEMMA ValidateInv == ASSUME NEW c \in Callers, NEW i \in Ids, Inv, ValidateToken(c, i) PROVE Inv'
  <1> DEFINE t == [rows[i] EXCEPT !.used = @ + 1]
  <1>0. /\ Lock(c, "use", i, t) /\ Present(i)
        /\ now' = now /\ rows' = rows /\ drawn' = drawn
        /\ grant' = grant /\ valid' = valid /\ hit' = hit /\ gone' = gone
    BY ZenonT(30) DEF ValidateToken, tokenVars, historyVars
  <1>r. rows[i] \in Row /\ now \in Nat /\ RowOK(i) /\ "use" \in PCs
    BY SMTT(30) DEF Inv, Types, PCs
  <1>t. /\ t \in Row
        /\ t.agent = rows[i].agent /\ t.max = rows[i].max
        /\ t.expires = rows[i].expires /\ t.data = rows[i].data
        /\ t.used = rows[i].used + 1 /\ t.revoked = rows[i].revoked
    <2>1. rows[i].used \in Nat /\ rows[i].used + 1 \in Nat
      BY SMTT(30), <1>r DEF Row
    <2> DEFINE n == rows[i].used + 1
    <2>2. n \in Nat
      BY ZenonT(30), <2>1
    <2> HIDE DEF n
    <2>3. [rows[i] EXCEPT !.used = n] \in Row /\ [rows[i] EXCEPT !.used = n].used = n
      BY ZenonT(30), <1>r, <2>2 DEF Row
    <2>4. t = [rows[i] EXCEPT !.used = n]
      BY ZenonT(30) DEF n
    <2>5. /\ t.agent = rows[i].agent /\ t.max = rows[i].max
          /\ t.expires = rows[i].expires /\ t.data = rows[i].data /\ t.revoked = rows[i].revoked
      BY ZenonT(30), <1>r DEF Row
    <2> QED BY ZenonT(30), <2>3, <2>4, <2>5 DEF n
  <1>u. i \in drawn /\ t.used <= t.max /\ t.data /\ ~ t.revoked /\ i \notin gone
    <2>1. rows[i].used < rows[i].max /\ ~ rows[i].revoked /\ rows[i].data
      BY ZenonT(30) DEF ValidateToken, Usable
    <2>2. rows[i].used \in Nat /\ rows[i].max \in Nat
      BY ZenonT(30), <1>r DEF Row
    <2>3. rows[i].used + 1 <= rows[i].max
      BY SMTT(30), <2>1, <2>2
    <2> QED BY ZenonT(30), <2>1, <2>3, <1>0, <1>r, <1>t DEF RowOK
  <1> HIDE DEF t
  <1>1. Types'
    BY ZenonT(30), <1>0, <1>r, <1>t, LockRests DEF Inv, Types
  <1>2. ASSUME NEW d \in Callers PROVE CallOK(d)'
    <2>1. CASE d = c
      <3>1. i \in drawn' /\ Present(i)' /\ rows'[i] = rows[i]
        BY ZenonT(30), <1>0, <1>u DEF Present
      <3>2. mu' = c /\ call'[c].pc = "use" /\ call'[c].id = i /\ call'[c].token = t
        BY ZenonT(30), <1>0, <1>r, <1>t, LockRests
      <3> QED BY ZenonT(30), <2>1, <3>1, <3>2, <1>t, <1>u DEF CallOK
    <2>2. CASE d # c
      BY ZenonT(30), <2>2, <1>0, <1>r, <1>t, LockRests
    <2> QED BY ZenonT(30), <2>1, <2>2
  <1>3. ASSUME NEW j \in Ids PROVE RowOK(j)'
    <2>1. CASE j = i
      BY ZenonT(30), <2>1, <1>0, <1>u, RowStays
    <2>2. CASE j # i
      <3>1. ~ Held(j)'
        BY ZenonT(30), <2>2, <1>0, <1>r, <1>t, LockRests
      <3> QED BY ZenonT(30), <3>1, <1>0, RowStays
    <2> QED BY ZenonT(30), <2>1, <2>2
  <1> QED BY ZenonT(30), <1>1, <1>2, <1>3 DEF Inv

LEMMA RevokeInv == ASSUME NEW c \in Callers, NEW i \in Ids, Inv, RevokeToken(c, i) PROVE Inv'
  <1> DEFINE t == [rows[i] EXCEPT !.revoked = TRUE, !.revokedAt = now]
  <1>0. /\ Lock(c, "revoke", i, t) /\ Present(i)
        /\ now' = now /\ rows' = rows /\ drawn' = drawn
        /\ grant' = grant /\ valid' = valid /\ hit' = hit /\ gone' = gone
    BY ZenonT(30) DEF RevokeToken, tokenVars, historyVars
  <1>r. rows[i] \in Row /\ now \in Nat /\ RowOK(i) /\ "revoke" \in PCs
    BY SMTT(30) DEF Inv, Types, PCs
  <1>t. /\ t \in Row
        /\ t.agent = rows[i].agent /\ t.max = rows[i].max
        /\ t.expires = rows[i].expires /\ t.data = rows[i].data
        /\ t.used = rows[i].used /\ t.revoked
    <2>1. t \in Row
      BY ZenonT(30), <1>r, RowUpdates
    <2> QED BY ZenonT(30), <1>r, <2>1 DEF Row
  <1>u. i \in drawn
    BY ZenonT(30), <1>0, <1>r DEF RowOK
  <1> HIDE DEF t
  <1>1. Types'
    BY ZenonT(30), <1>0, <1>r, <1>t, LockRests DEF Inv, Types
  <1>2. ASSUME NEW d \in Callers PROVE CallOK(d)'
    <2>1. CASE d = c
      <3>1. i \in drawn' /\ Present(i)' /\ rows'[i] = rows[i]
        BY ZenonT(30), <1>0, <1>u DEF Present
      <3>2. mu' = c /\ call'[c].pc = "revoke" /\ call'[c].id = i /\ call'[c].token = t
        BY ZenonT(30), <1>0, <1>r, <1>t, LockRests
      <3> QED BY ZenonT(30), <2>1, <3>1, <3>2, <1>t, <1>u DEF CallOK
    <2>2. CASE d # c
      BY ZenonT(30), <2>2, <1>0, <1>r, <1>t, LockRests
    <2> QED BY ZenonT(30), <2>1, <2>2
  <1>3. ASSUME NEW j \in Ids PROVE RowOK(j)'
    <2>1. "revoke" \notin {"ask", "data", "use"}
      OBVIOUS
    <2>2. ~ Held(j)'
      BY ZenonT(30), <2>1, <1>0, <1>r, <1>t, LockRests
    <2> QED BY ZenonT(30), <2>2, <1>0, RowStays
  <1> QED BY ZenonT(30), <1>1, <1>2, <1>3 DEF Inv

LEMMA RevokeAllInv == ASSUME NEW a \in Agents, Inv, RevokeAllForAgent(a) PROVE Inv'
  <1> DEFINE all == {i \in Ids : rows[i].agent = a /\ ~ rows[i].revoked}
             marked(i) == [rows[i] EXCEPT !.revoked = TRUE, !.revokedAt = now]
  <1>r. rows' = [i \in Ids |-> IF i \in all THEN marked(i) ELSE rows[i]]
    BY ZenonT(30) DEF RevokeAllForAgent
  <1>0. /\ hit' = hit \cup all
        /\ gone' = gone \cup {i \in all : ~ Held(i)}
        /\ now' = now /\ mu' = mu /\ call' = call /\ drawn' = drawn
        /\ grant' = grant /\ valid' = valid
    BY ZenonT(30) DEF RevokeAllForAgent
  <1>d. \A i \in all : i \in Ids /\ rows[i].agent = a
    BY ZenonT(30)
  <1>e. ASSUME NEW i \in Ids
        PROVE  /\ marked(i) \in Row
               /\ marked(i).agent = rows[i].agent /\ marked(i).expires = rows[i].expires
               /\ marked(i).used = rows[i].used /\ marked(i).max = rows[i].max
               /\ marked(i).data = rows[i].data /\ marked(i).revoked = TRUE
    <2>1. rows[i] \in Row /\ now \in Nat
      BY SMTT(30) DEF Inv, Types
    <2>2. marked(i) \in Row
      BY ZenonT(30), <2>1, RowUpdates
    <2> QED BY SMTT(30), <2>1, <2>2 DEF Row
  <1> HIDE DEF all, marked
  <1>c. rows' \in [Ids -> Row]
    <2>1. rows \in [Ids -> Row]
      BY ZenonT(30) DEF Inv, Types
    <2>2. \A i \in Ids : marked(i) \in Row
      BY ZenonT(30), <1>e
    <2> QED BY SMTT(30), <2>1, <2>2, <1>r
  <1>a. ASSUME NEW j \in Ids
        PROVE  /\ rows'[j].agent = rows[j].agent /\ rows'[j].expires = rows[j].expires
               /\ rows'[j].used = rows[j].used /\ rows'[j].max = rows[j].max
               /\ rows'[j].data = rows[j].data
               /\ rows'[j].revoked = (rows[j].revoked \/ j \in all)
    <2>1. CASE j \in all
      <3>1. rows'[j] = marked(j)
        BY SMTT(30), <2>1, <1>r
      <3> QED BY ZenonT(30), <2>1, <3>1, <1>e
    <2>2. CASE j \notin all
      <3>1. rows'[j] = rows[j]
        BY SMTT(30), <2>2, <1>r
      <3>2. rows[j].revoked \in BOOLEAN
        BY SMTT(30) DEF Inv, Types, Row
      <3> QED BY ZenonT(30), <2>2, <3>1, <3>2
    <2> QED BY ZenonT(30), <2>1, <2>2
  <1>b. \A i \in Ids : Held(i)' <=> Held(i)
    BY ZenonT(30), <1>0 DEF Held
  <1>p. \A i \in Ids : Present(i)' <=> Present(i)
    BY ZenonT(30), <1>a DEF Present
  <1>1. Types'
    <2>1. gone' \in SUBSET Ids
      BY SMTT(30), <1>0, <1>d DEF Inv, Types
    <2> QED BY ZenonT(30), <2>1, <1>0, <1>c DEF Inv, Types
  <1>2. ASSUME NEW d \in Callers PROVE CallOK(d)'
    <2>1. CASE call[d].pc = "idle"
      BY ZenonT(30), <2>1, <1>0, RestingFits
    <2>2. CASE call[d].pc # "idle"
      <3>1. CallOK(d) /\ call[d].id \in drawn /\ drawn \subseteq Ids
        BY ZenonT(30), <2>2 DEF Inv, Types, CallOK
      <3>2. call[d].id \in Ids
        BY ZenonT(30), <3>1
      <3> QED BY ZenonT(30), <3>1, <3>2, <1>0, <1>a, <1>p DEF CallOK
    <2> QED BY ZenonT(30), <2>1, <2>2
  <1>3. ASSUME NEW j \in Ids PROVE RowOK(j)'
    <2>0. RowOK(j)
      BY ZenonT(30) DEF Inv
    <2>1. rows'[j].revoked => j \in hit'
      BY ZenonT(30), <2>0, <1>0, <1>a DEF RowOK
    <2>2. j \in gone' => j \in drawn' /\ (Present(j)' => rows'[j].revoked) /\ ~ Held(j)'
      <3>1. CASE j \in gone
        BY ZenonT(30), <2>0, <3>1, <1>0, <1>a, <1>b, <1>p DEF RowOK
      <3>2. CASE j \in all /\ ~ Held(j)
        <4>1. j \in drawn
          BY ZenonT(30), <2>0, <3>2, <1>d, TokensAssumption DEF RowOK, Present
        <4> QED BY ZenonT(30), <3>2, <4>1, <1>0, <1>a, <1>b
      <3> QED BY ZenonT(30), <3>1, <3>2, <1>0
    <2> QED BY ZenonT(30), <2>0, <2>1, <2>2, <1>p, <1>0, <1>a DEF RowOK
  <1> QED BY ZenonT(30), <1>1, <1>2, <1>3 DEF Inv

LEMMA CleanupInv == ASSUME Inv, CleanupExpired PROVE Inv'
  <1>1. Types'
    BY SMTT(30) DEF CleanupExpired, Inv, Types, Row, NoRow, historyVars
  <1>2. ASSUME NEW d \in Callers PROVE CallOK(d)'
    <2>1. mu = NoCaller /\ call' = call
      BY ZenonT(30) DEF CleanupExpired
    <2>2. call[d].pc = "idle"
      BY ZenonT(30), <2>1, TokensAssumption DEF Inv, CallOK
    <2> QED BY ZenonT(30), <2>1, <2>2, RestingFits
  <1>3. ASSUME NEW j \in Ids PROVE RowOK(j)'
    <2>1. /\ rows'[j] = IF Stale(rows[j]) THEN NoRow ELSE rows[j]
          /\ now' = now /\ drawn' = drawn /\ call' = call
          /\ grant' = grant /\ valid' = valid /\ hit' = hit /\ gone' = gone
      BY SMTT(30) DEF CleanupExpired, historyVars
    <2>2. RowOK(j) /\ (Held(j)' => Held(j))
      BY ZenonT(30), <2>1 DEF Inv, Held
    <2>3. CASE ~ Stale(rows[j])
      BY ZenonT(30), <2>1, <2>2, <2>3, RowStays
    <2>4. CASE Stale(rows[j])
      <3>1. ~ Present(j)' /\ ~ rows'[j].data /\ ~ rows'[j].revoked
        BY SMTT(30), <2>1, <2>4 DEF Present, NoRow
      <3>2. grant[j].due \in Nat /\ now \in Nat
        BY SMTT(30) DEF Inv, Types, Grant
      <3>3. rows[j].expires = grant[j].due => ~ (rows[j].expires < now /\ now <= grant[j].due)
        BY SMTT(30), <3>2
      <3>4. ~ (grant[j].given /\ now <= grant[j].due /\ j \notin hit)
        BY ZenonT(30), <2>2, <2>4, <3>3 DEF RowOK, Stale
      <3> QED BY ZenonT(30), <2>1, <2>2, <3>1, <3>4 DEF RowOK
    <2> QED BY ZenonT(30), <2>3, <2>4
  <1> QED BY ZenonT(30), <1>1, <1>2, <1>3 DEF Inv

LEMMA CrashInv == ASSUME Inv, Crash PROVE Inv'
  <1>1. Types'
    BY SMTT(30) DEF Crash, Inv, Types, Row, PCs, NoRow, Resting, tokenVars, historyVars
  <1>c. \A d \in Callers : call'[d].pc = "idle"
    BY SMTT(30) DEF Crash, Resting
  <1>2. ASSUME NEW d \in Callers PROVE CallOK(d)'
    BY ZenonT(30), <1>c, RestingFits
  <1>3. ASSUME NEW j \in Ids PROVE RowOK(j)'
    <2>1. ~ Held(j)'
      BY SMTT(30), <1>c DEF Held
    <2> QED BY ZenonT(30), <2>1, RowStays DEF Crash, tokenVars, historyVars
  <1> QED BY ZenonT(30), <1>1, <1>2, <1>3 DEF Inv

LEMMA TickInv == ASSUME Inv, Tick PROVE Inv'
  <1>1. Types'
    BY SMTT(30) DEF Tick, Inv, Types, tokenVars, historyVars
  <1>2. ASSUME NEW d \in Callers PROVE CallOK(d)'
    BY ZenonT(30) DEF Tick, Inv, CallOK, Present, tokenVars, historyVars
  <1>3. ASSUME NEW j \in Ids PROVE RowOK(j)'
    <2>1. grant[j].due \in Nat /\ now \in Nat /\ now' = now + 1
      BY SMTT(30) DEF Inv, Types, Grant, Tick
    <2>2. now' <= grant[j].due => now <= grant[j].due
      BY SMTT(30), <2>1
    <2> QED BY ZenonT(30), <2>2 DEF Tick, Inv, RowOK, Present, Held, tokenVars, historyVars
  <1> QED BY ZenonT(30), <1>1, <1>2, <1>3 DEF Inv

-----------------------------------------------------------------------------
LEMMA StepInv == ASSUME Inv, [Next]_vars PROVE Inv'
  <1>1. ASSUME NEW c \in Callers, Provisioning(c) PROVE Inv'
    <2>1. ASSUME NEW i \in Ids, NEW a \in Agents, NEW ttl \in 0..MaxTTL, NEW uses \in 0..MaxUses,
                 ProvisionToken(c, i, a, ttl, uses)
          PROVE  Inv'
      <3>1. ttl \in Nat /\ uses \in Nat
        BY SMTT(30), TokensAssumption
      <3> QED BY ZenonT(30), <2>1, <3>1, ProvisionInv
    <2> QED BY ZenonT(30), <1>1, <2>1, ProviderFailsInv, DeleteRowInv, ProviderIssuesInv,
               StoreDataInv DEF Provisioning
  <1>2. ASSUME NEW c \in Callers, Validating(c) PROVE Inv'
    BY ZenonT(30), <1>2, ValidateInv, StoreUseInv DEF Validating
  <1>3. ASSUME NEW c \in Callers, Revoking(c) PROVE Inv'
    BY ZenonT(30), <1>3, RevokeInv, StoreRevokedInv, ProviderRevokesInv DEF Revoking
  <1>4. CASE UNCHANGED vars
    <2>1. /\ now' = now /\ mu' = mu /\ call' = call /\ rows' = rows /\ drawn' = drawn
          /\ grant' = grant /\ valid' = valid /\ hit' = hit /\ gone' = gone
      BY ZenonT(30), <1>4 DEF vars, tokenVars, historyVars
    <2>2. Types'
      BY ZenonT(30), <2>1 DEF Inv, Types
    <2>3. ASSUME NEW d \in Callers PROVE CallOK(d)'
      BY ZenonT(30), <2>1 DEF Inv, CallOK, Present
    <2>4. ASSUME NEW j \in Ids PROVE RowOK(j)'
      BY ZenonT(30), <2>1, RowStays DEF Held
    <2> QED BY ZenonT(30), <2>2, <2>3, <2>4 DEF Inv
  <1> QED BY ZenonT(30), <1>1, <1>2, <1>3, <1>4, UpdateFailsInv, RevokeAllInv, CleanupInv,
             CrashInv, TickInv DEF Next

(* The inductive invariant holds: a call's copy and its row differ only by *)
(* what the call changed and by a revocation, and each row agrees with     *)
(* what ProvisionToken granted.                                            *)
THEOREM Invariance == Spec => []Inv
  BY InitInv, StepInv, PTL DEF Spec

(* ValidateToken accepts a token at most as often as ProvisionToken        *)
(* granted, whatever fails or crashes in between.                          *)
THEOREM UsesAreBounded == Spec => []UsesBounded
  <1>1. Inv => UsesBounded
    BY ZenonT(30) DEF Inv, RowOK, UsesBounded
  <1> QED BY <1>1, Invariance, PTL

(* What RevokeToken marks, and what RevokeAllForAgent marks while no call  *)
(* holds a copy of the row, is never accepted again.                       *)
THEOREM RevocationsStay == Spec => []RevokedStays
  <1>1. ASSUME Inv PROVE RevokedStays
    <2>1. ASSUME NEW i \in gone PROVE i \in Ids /\ RowOK(i)
      BY ZenonT(30), <1>1 DEF Inv, Types
    <2> QED BY ZenonT(30), <2>1 DEF RevokedStays, RowOK, Held
  <1> QED BY <1>1, Invariance, PTL

(* CleanupExpired, a failed request and a crash never take a token that is *)
(* granted, unexpired and not revoked.                                     *)
THEOREM LiveTokensStay == Spec => []LiveTokensKept
  <1>1. ASSUME Inv PROVE LiveTokensKept
    BY ZenonT(30), <1>1 DEF Inv, RowOK, LiveTokensKept
  <1> QED BY <1>1, Invariance, PTL
=============================================================================
