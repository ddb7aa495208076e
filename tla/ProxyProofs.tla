---------------------------- MODULE ProxyProofs ----------------------------
(***************************************************************************)
(* Proofs about module Proxy, for every set of connections, every size of  *)
(* connSem and every number of calls of Start: the counters wg and connSem *)
(* are exact, Stop drains the handlers it found, and the bounds of the two *)
(* limiters hold when they are driven by the pipes of the connections.     *)
(***************************************************************************)
EXTENDS Proxy, LimitsProofs, FiniteSetTheorems

-----------------------------------------------------------------------------
(* The invariant.                                                          *)

\* The connections whose handler has called wg.Add and not yet wg.Done, and
\* those of them that hold a slot.
Handlers == {k \in Keys : conn[k] \in {"dial", "pipes"}}
Piped == {k \in Keys : conn[k] = "pipes"}

LifeInv ==
  /\ running \in BOOLEAN /\ open \in BOOLEAN
  /\ listener \in 0..MaxStarts
  /\ stopCh \in Nat /\ closed \subseteq 0..stopCh
  /\ stopper \in {"idle", "wait", "replace"}
  /\ watched \in [Keys -> 0..stopCh]

PipeInv == pipe \in [Keys -> [Dirs -> {"read", "write", "done"}]]

\* Every handler is counted once in wg and every piped one once in connSem.
CountInv ==
  /\ conn \in [Keys -> {"free", "accepted", "dial", "pipes"}]
  /\ IsFiniteSet(Handlers) /\ wg = Cardinality(Handlers)
  /\ IsFiniteSet(Piped) /\ slots = Cardinality(Piped)
  /\ slots <= MaxConns

\* What Stop has found in wg is still there until wg.Wait returns.
DrainInv ==
  /\ old \subseteq Handlers
  /\ stopper # "wait" => old = {}

LoopType == [at : {"none", "top", "accept", "accepted", "failed"}, on : Nat,
             conn : Keys \cup {NoConn}]

\* A connection that was accepted and not yet counted is held by one accept
\* loop; after a restart there may be several of them.
LoopInv ==
  /\ loop \in [1..MaxStarts -> LoopType]
  /\ \A n \in 1..MaxStarts :
       loop[n].at = "accepted" => loop[n].conn \in Keys /\ conn[loop[n].conn] = "accepted"
  /\ \A m, n \in 1..MaxStarts :
       loop[m].at = "accepted" /\ loop[n].at = "accepted" /\ loop[m].conn = loop[n].conn => m = n

ProxyInv == LifeInv /\ PipeInv /\ CountInv /\ DrainInv /\ LoopInv /\ RateInv /\ BudgetInv

-----------------------------------------------------------------------------
(* Lemmas.                                                                 *)

\* The values of the constants.
LEMMA Constants ==
  MaxConns \in Nat /\ MaxConns > 0 /\ MaxStarts \in Nat
BY ProxyAssumption, SMTT(30) DEF ProxyAssumption

\* What moving one connection to state v does to the two sets.
LEMMA ConnMoves ==
  ASSUME CountInv, NEW k \in Keys, NEW v \in {"free", "accepted", "dial", "pipes"},
         conn' = [conn EXCEPT ![k] = v]
  PROVE  /\ conn' \in [Keys -> {"free", "accepted", "dial", "pipes"}]
         /\ conn'[k] = v
         /\ \A x \in Keys : x # k => conn'[x] = conn[x]
         /\ Handlers' = IF v \in {"dial", "pipes"} THEN Handlers \cup {k} ELSE Handlers \ {k}
         /\ Piped' = IF v = "pipes" THEN Piped \cup {k} ELSE Piped \ {k}
<1>1. conn \in [Keys -> {"free", "accepted", "dial", "pipes"}]
  BY DEF CountInv
<1>2. conn' \in [Keys -> {"free", "accepted", "dial", "pipes"}]
  BY <1>1, SMTT(30)
<1>3. conn'[k] = v /\ \A x \in Keys : x # k => conn'[x] = conn[x]
  BY <1>1, SMTT(30)
<1>4. Handlers' = IF v \in {"dial", "pipes"} THEN Handlers \cup {k} ELSE Handlers \ {k}
  BY <1>3, SMTT(30) DEF Handlers
<1>5. Piped' = IF v = "pipes" THEN Piped \cup {k} ELSE Piped \ {k}
  BY <1>3, SMTT(30) DEF Piped
<1> QED  BY <1>2, <1>3, <1>4, <1>5

\* Steps that leave the counters and the handlers alone.
LEMMA CountFrame ==
  ASSUME CountInv, UNCHANGED <<wg, slots, conn>>
  PROVE  CountInv' /\ Handlers' = Handlers
BY DEF CountInv, Handlers, Piped

\* The limiters are not asked.
LEMMA LimitsFrame ==
  ASSUME RateInv, BudgetInv, UNCHANGED <<limitVars, now>>
  PROVE  RateInv' /\ BudgetInv'
<1>1. UNCHANGED <<now, buckets, granted>> /\ UNCHANGED <<now, usage, spent>>
  BY DEF limitVars
<1> QED  BY <1>1, RateFrame, BudgetFrame

\* No accepted connection is held by a loop when no loop and no handler moves.
LEMMA LoopFrame ==
  ASSUME LoopInv, UNCHANGED <<loop, conn>>
  PROVE  LoopInv'
BY ZenonT(30) DEF LoopInv, LoopType

\* Neither does a handler that moves while it is not "accepted".
LEMMA LoopConn ==
  ASSUME LoopInv, loop' = loop, NEW k \in Keys, conn[k] # "accepted",
         \A x \in Keys : x # k => conn'[x] = conn[x]
  PROVE  LoopInv'
<1>1. loop \in [1..MaxStarts -> LoopType]
  BY DEF LoopInv
<1>2. \A n \in 1..MaxStarts :
        loop[n].at = "accepted" => loop[n].conn \in Keys /\ conn'[loop[n].conn] = "accepted"
  BY ZenonT(30) DEF LoopInv
<1>3. \A m, n \in 1..MaxStarts :
        loop[m].at = "accepted" /\ loop[n].at = "accepted" /\ loop[m].conn = loop[n].conn => m = n
  BY ZenonT(30) DEF LoopInv
<1>4. LoopType' = LoopType
  BY DEF LoopType
<1> QED  BY <1>1, <1>2, <1>3, <1>4, ZenonT(30) DEF LoopInv

\* A loop moves to a state that holds no connection.
LEMMA LoopMoves ==
  ASSUME LoopInv, conn' = conn, NEW n \in 1..MaxStarts, NEW r \in LoopType,
         r.at # "accepted", loop' = [loop EXCEPT ![n] = r]
  PROVE  LoopInv'
<1>1. loop \in [1..MaxStarts -> LoopType]
  BY DEF LoopInv
<1>2. loop' \in [1..MaxStarts -> LoopType] /\ \A m \in 1..MaxStarts : loop'[m] = IF m = n THEN r ELSE loop[m]
  BY <1>1, SMTT(30)
<1>3. \A m \in 1..MaxStarts : loop'[m].at = "accepted" => m # n /\ loop'[m] = loop[m]
  BY <1>2, ZenonT(30)
<1>4. \A m \in 1..MaxStarts :
        loop'[m].at = "accepted" => loop'[m].conn \in Keys /\ conn'[loop'[m].conn] = "accepted"
  BY <1>3, ZenonT(30) DEF LoopInv
<1>5. \A m, i \in 1..MaxStarts :
        loop'[m].at = "accepted" /\ loop'[i].at = "accepted" /\ loop'[m].conn = loop'[i].conn => m = i
  BY <1>3, ZenonT(30) DEF LoopInv
<1>6. LoopType' = LoopType
  BY DEF LoopType
<1> QED  BY <1>2, <1>4, <1>5, <1>6, ZenonT(30) DEF LoopInv

\* The records of a loop.
LEMMA LoopRecord ==
  ASSUME NEW a \in {"none", "top", "accept", "accepted", "failed"}, NEW l \in Nat,
         NEW c \in Keys \cup {NoConn}
  PROVE  /\ [at |-> a, on |-> l, conn |-> c] \in LoopType
         /\ [at |-> a, on |-> l, conn |-> c].at = a
         /\ [at |-> a, on |-> l, conn |-> c].conn = c
BY SMTT(30) DEF LoopType

\* A handler ends: wg.Done and, if it held a slot, its release.
LEMMA HandlerEndsInv ==
  ASSUME CountInv, DrainInv, LoopInv, NEW k \in Keys, conn[k] \in {"dial", "pipes"},
         HandlerEnds(k), slots' = (IF conn[k] = "pipes" THEN slots - 1 ELSE slots),
         UNCHANGED <<loop, stopper>>
  PROVE  CountInv' /\ DrainInv' /\ LoopInv'
<1>1. wg' = wg - 1 /\ conn' = [conn EXCEPT ![k] = "free"] /\ old' = old \ {k}
  BY DEF HandlerEnds
<1>2. /\ conn' \in [Keys -> {"free", "accepted", "dial", "pipes"}]
      /\ \A x \in Keys : x # k => conn'[x] = conn[x]
      /\ Handlers' = Handlers \ {k}
      /\ Piped' = Piped \ {k}
  BY <1>1, ConnMoves
<1>3. /\ IsFiniteSet(Handlers) /\ wg = Cardinality(Handlers)
      /\ IsFiniteSet(Piped) /\ slots = Cardinality(Piped) /\ slots <= MaxConns
  BY DEF CountInv
<1>4. k \in Handlers /\ (k \in Piped <=> conn[k] = "pipes")
  BY DEF Handlers, Piped
<1>5. IsFiniteSet(Handlers') /\ wg' = Cardinality(Handlers')
  BY <1>1, <1>2, <1>3, <1>4, FS_RemoveElement
<1>6. IsFiniteSet(Piped') /\ Cardinality(Piped') = IF k \in Piped THEN Cardinality(Piped) - 1 ELSE Cardinality(Piped)
  BY <1>2, <1>3, FS_RemoveElement
<1>7. slots' = Cardinality(Piped')
  BY <1>3, <1>4, <1>6, ZenonT(30)
<1>8. slots' <= MaxConns
  <2>1. slots \in Nat
    BY <1>3, FS_CardinalityType
  <2> QED  BY <1>3, <2>1, Constants, SMTT(30)
<1>9. CountInv'
  BY <1>2, <1>5, <1>6, <1>7, <1>8 DEF CountInv
<1>10. DrainInv'
  BY <1>1, <1>2, ZenonT(30) DEF DrainInv
<1>11. LoopInv'
  BY <1>2, LoopConn
<1> QED  BY <1>9, <1>10, <1>11

\* A pipe moves.
LEMMA PipeMoves ==
  ASSUME PipeInv, NEW k \in Keys, NEW d \in Dirs, NEW v \in {"read", "write", "done"},
         pipe' = [pipe EXCEPT ![k][d] = v]
  PROVE  PipeInv'
BY SMTT(30) DEF PipeInv

\* The top of pipe's loop: it reads again or returns.
LEMMA ContinueInv ==
  ASSUME PipeInv, NEW k \in Keys, NEW d \in Dirs, Continue(k, d)
  PROVE  PipeInv'
<1> DEFINE v == IF watched[k] \in closed THEN "done" ELSE "read"
<1>1. v \in {"read", "write", "done"}
  OBVIOUS
<1>2. pipe' = [pipe EXCEPT ![k][d] = v]
  BY ZenonT(30) DEF Continue
<1> HIDE DEF v
<1> QED  BY <1>1, <1>2, PipeMoves

\* A step of a pipe changes no counter, no handler and no loop.
LEMMA PipeStep ==
  ASSUME ProxyInv, PipeInv', RateInv', BudgetInv',
         UNCHANGED <<lifeVars, wg, slots, conn, watched, old, loop>>
  PROVE  ProxyInv'
<1>1. LifeInv'
  BY ZenonT(30) DEF ProxyInv, LifeInv, lifeVars
<1>2. CountInv' /\ Handlers' = Handlers
  BY CountFrame DEF ProxyInv
<1>3. DrainInv'
  BY <1>2, ZenonT(30) DEF ProxyInv, DrainInv, lifeVars
<1>4. LoopInv'
  BY LoopFrame DEF ProxyInv
<1> QED  BY <1>1, <1>2, <1>3, <1>4 DEF ProxyInv

\* A step of an accept loop that holds no connection after it.
LEMMA LoopStep ==
  ASSUME ProxyInv, NEW n \in 1..MaxStarts, NEW r \in LoopType, r.at # "accepted",
         loop' = [loop EXCEPT ![n] = r], UNCHANGED <<limitVars, now, lifeVars, connVars>>
  PROVE  ProxyInv'
<1>1. LifeInv'
  BY ZenonT(30) DEF ProxyInv, LifeInv, lifeVars, connVars
<1>2. CountInv' /\ Handlers' = Handlers
  BY CountFrame DEF ProxyInv, connVars
<1>3. DrainInv'
  BY <1>2, ZenonT(30) DEF ProxyInv, DrainInv, lifeVars, connVars
<1>4. LoopInv'
  BY LoopMoves DEF ProxyInv, connVars
<1>5. RateInv' /\ BudgetInv'
  BY LimitsFrame DEF ProxyInv
<1>6. PipeInv'
  BY ZenonT(30) DEF ProxyInv, PipeInv, connVars
<1> QED  BY <1>1, <1>2, <1>3, <1>4, <1>5, <1>6 DEF ProxyInv

-----------------------------------------------------------------------------
(* The steps.                                                              *)

\* Start opens a listener and starts its accept loop.
LEMMA StartInv ==
  ASSUME ProxyInv, Start
  PROVE  ProxyInv'
<1>0. LifeInv /\ PipeInv /\ CountInv /\ DrainInv /\ LoopInv /\ RateInv /\ BudgetInv
  BY DEF ProxyInv
<1>1. /\ listener < MaxStarts /\ listener' = listener + 1 /\ open' = TRUE /\ running' = TRUE
      /\ loop' = [loop EXCEPT ![listener + 1].at = "top"]
      /\ UNCHANGED <<limitVars, now, stopCh, closed, stopper, connVars>>
  BY ZenonT(30) DEF Start
<1>2. UNCHANGED <<wg, slots, conn, watched, pipe, old>>
  BY <1>1 DEF connVars
<1>3. listener \in 0..MaxStarts
  BY <1>0 DEF LifeInv
<1>4. listener + 1 \in 1..MaxStarts /\ listener' \in 0..MaxStarts
  BY <1>1, <1>3, Constants, SMTT(30)
<1>5. LifeInv'
  BY <1>0, <1>1, <1>2, <1>4, ZenonT(30) DEF LifeInv
<1>6. CountInv' /\ Handlers' = Handlers
  BY <1>0, <1>2, CountFrame
<1>7. DrainInv'
  BY <1>0, <1>1, <1>2, <1>6, ZenonT(30) DEF DrainInv
<1>8. LoopInv'
  <2> DEFINE n == listener + 1
             r == [loop[n] EXCEPT !.at = "top"]
  <2>1. n \in 1..MaxStarts
    BY <1>4
  <2>2. loop \in [1..MaxStarts -> LoopType]
    BY <1>0 DEF LoopInv
  <2> HIDE DEF n
  <2>3. loop[n] \in LoopType
    BY <2>1, <2>2
  <2>4. r \in LoopType /\ r.at = "top"
    BY <2>3, SMTT(30) DEF LoopType
  <2>5. loop' = [loop EXCEPT ![n] = r]
    BY <1>1, ZenonT(30) DEF n
  <2> HIDE DEF r
  <2>6. r.at # "accepted"
    BY <2>4
  <2> QED  BY <1>0, <1>2, <2>1, <2>4, <2>5, <2>6, LoopMoves
<1>9. RateInv' /\ BudgetInv'
  BY <1>0, <1>1, LimitsFrame
<1>10. PipeInv'
  BY <1>0, <1>2 DEF PipeInv
<1> QED  BY <1>5, <1>6, <1>7, <1>8, <1>9, <1>10 DEF ProxyInv

\* Stop closes the channel and the listener and begins to wait.
LEMMA StopInv ==
  ASSUME ProxyInv, Stop
  PROVE  ProxyInv'
<1>0. LifeInv /\ PipeInv /\ CountInv /\ DrainInv /\ LoopInv /\ RateInv /\ BudgetInv
  BY DEF ProxyInv
<1>1. /\ running' = FALSE /\ closed' = closed \cup {stopCh} /\ open' = FALSE /\ stopper' = "wait"
      /\ old' = Handlers
      /\ UNCHANGED <<limitVars, now, listener, stopCh, wg, slots, conn, watched, pipe, loop>>
  BY ZenonT(30) DEF Stop, Handlers
<1>2. UNCHANGED <<wg, slots, conn, watched, pipe, listener, stopCh, loop>>
  BY <1>1
<1>3. closed' \subseteq 0..stopCh
  <2>1. stopCh \in Nat /\ closed \subseteq 0..stopCh
    BY <1>0 DEF LifeInv
  <2>2. stopCh \in 0..stopCh
    BY <2>1, SMTT(30)
  <2> QED  BY <1>1, <2>1, <2>2
<1>4. LifeInv'
  BY <1>0, <1>1, <1>2, <1>3, ZenonT(30) DEF LifeInv
<1>5. CountInv' /\ Handlers' = Handlers
  BY <1>0, <1>2, CountFrame
<1>6. DrainInv'
  BY <1>1, <1>5, ZenonT(30) DEF DrainInv
<1>7. LoopInv'
  BY <1>0, <1>2, LoopFrame
<1>8. RateInv' /\ BudgetInv'
  BY <1>0, <1>1, LimitsFrame
<1>9. PipeInv'
  BY <1>0, <1>2 DEF PipeInv
<1> QED  BY <1>4, <1>5, <1>6, <1>7, <1>8, <1>9 DEF ProxyInv

\* wg.Wait returns: no handler is counted, so none that Stop found is left.
LEMMA WaitReturnsInv ==
  ASSUME ProxyInv, WaitReturns
  PROVE  ProxyInv'
<1>0. LifeInv /\ PipeInv /\ CountInv /\ DrainInv /\ LoopInv /\ RateInv /\ BudgetInv
  BY DEF ProxyInv
<1>1. /\ wg = 0 /\ stopper' = "replace"
      /\ UNCHANGED <<limitVars, now, running, listener, open, stopCh, closed, connVars, loop>>
  BY ZenonT(30) DEF WaitReturns
<1>2. UNCHANGED <<wg, slots, conn, watched, pipe, old, running, listener, open, stopCh, closed, loop>>
  BY <1>1 DEF connVars
<1>3. Handlers = {}
  BY <1>0, <1>1, FS_EmptySet DEF CountInv
<1>4. LifeInv'
  BY <1>0, <1>1, <1>2, ZenonT(30) DEF LifeInv
<1>5. CountInv' /\ Handlers' = Handlers
  BY <1>0, <1>2, CountFrame
<1>6. DrainInv'
  <2>1. old = {}
    BY <1>0, <1>3 DEF DrainInv
  <2> QED  BY <1>2, <2>1 DEF DrainInv
<1>7. LoopInv'
  BY <1>0, <1>2, LoopFrame
<1>8. RateInv' /\ BudgetInv'
  BY <1>0, <1>1, LimitsFrame
<1>9. PipeInv'
  BY <1>0, <1>2 DEF PipeInv
<1> QED  BY <1>4, <1>5, <1>6, <1>7, <1>8, <1>9 DEF ProxyInv

\* Stop makes a new channel and returns.
LEMMA StopReturnsInv ==
  ASSUME ProxyInv, StopReturns
  PROVE  ProxyInv'
<1>0. LifeInv /\ PipeInv /\ CountInv /\ DrainInv /\ LoopInv /\ RateInv /\ BudgetInv
  BY DEF ProxyInv
<1>1. /\ stopper = "replace" /\ stopCh' = stopCh + 1 /\ stopper' = "idle"
      /\ UNCHANGED <<limitVars, now, running, listener, open, closed, connVars, loop>>
  BY ZenonT(30) DEF StopReturns
<1>2. UNCHANGED <<wg, slots, conn, watched, pipe, old, running, listener, open, closed, loop>>
  BY <1>1 DEF connVars
<1>3. stopCh' \in Nat /\ 0..stopCh \subseteq 0..stopCh'
  BY <1>0, <1>1, SMTT(30) DEF LifeInv
<1>4. closed' \subseteq 0..stopCh' /\ watched' \in [Keys -> 0..stopCh']
  <2>1. closed \subseteq 0..stopCh /\ watched \in [Keys -> 0..stopCh]
    BY <1>0 DEF LifeInv
  <2> QED  BY <1>2, <1>3, <2>1, SMTT(30)
<1>5. LifeInv'
  BY <1>0, <1>1, <1>2, <1>3, <1>4, ZenonT(30) DEF LifeInv
<1>6. CountInv' /\ Handlers' = Handlers
  BY <1>0, <1>2, CountFrame
<1>7. DrainInv'
  BY <1>0, <1>1, <1>2, <1>6, ZenonT(30) DEF DrainInv
<1>8. LoopInv'
  BY <1>0, <1>2, LoopFrame
<1>9. RateInv' /\ BudgetInv'
  BY <1>0, <1>1, LimitsFrame
<1>10. PipeInv'
  BY <1>0, <1>2 DEF PipeInv
<1> QED  BY <1>5, <1>6, <1>7, <1>8, <1>9, <1>10 DEF ProxyInv

\* acceptLoop calls Accept, or Accept fails, or it goes on after a failure.
LEMMA LoopInvs ==
  ASSUME ProxyInv, NEW n \in 1..MaxStarts, CallAccept(n) \/ AcceptFails(n) \/ AfterFailure(n)
  PROVE  ProxyInv'
<1>0. NoConn \in Keys \cup {NoConn} /\ listener \in Nat /\ 0 \in Nat
  <2>1. listener \in 0..MaxStarts
    BY DEF ProxyInv, LifeInv
  <2> QED  BY <2>1, Constants, SMTT(30)
<1>1. CASE CallAccept(n)
  <2> DEFINE r == [at |-> "accept", on |-> listener, conn |-> NoConn]
  <2>1. r \in LoopType /\ r.at = "accept"
    BY <1>0, LoopRecord
  <2>2. loop' = [loop EXCEPT ![n] = r] /\ UNCHANGED <<limitVars, now, lifeVars, connVars>>
    BY <1>1, ZenonT(30) DEF CallAccept
  <2> HIDE DEF r
  <2>3. r.at # "accepted"
    BY <2>1
  <2> QED  BY <2>1, <2>2, <2>3, LoopStep
<1>2. CASE AcceptFails(n)
  <2> DEFINE r == [at |-> "failed", on |-> 0, conn |-> NoConn]
  <2>1. r \in LoopType /\ r.at = "failed"
    BY <1>0, LoopRecord
  <2>2. loop' = [loop EXCEPT ![n] = r] /\ UNCHANGED <<limitVars, now, lifeVars, connVars>>
    BY <1>2, ZenonT(30) DEF AcceptFails
  <2> HIDE DEF r
  <2>3. r.at # "accepted"
    BY <2>1
  <2> QED  BY <2>1, <2>2, <2>3, LoopStep
<1>3. CASE AfterFailure(n)
  <2> DEFINE r == IF stopCh \in closed THEN Resting ELSE [loop[n] EXCEPT !.at = "top"]
  <2>1. loop[n] \in LoopType
    BY DEF ProxyInv, LoopInv
  <2>2. Resting \in LoopType /\ Resting.at = "none"
    BY <1>0, LoopRecord DEF Resting
  <2>3. [loop[n] EXCEPT !.at = "top"] \in LoopType /\ [loop[n] EXCEPT !.at = "top"].at = "top"
    BY <2>1, SMTT(30) DEF LoopType
  <2>4. r \in LoopType /\ r.at # "accepted"
    BY <2>2, <2>3, ZenonT(30)
  <2>5. loop' = [loop EXCEPT ![n] = r] /\ UNCHANGED <<limitVars, now, lifeVars, connVars>>
    BY <1>3, ZenonT(30) DEF AfterFailure
  <2> HIDE DEF r
  <2> QED  BY <2>4, <2>5, LoopStep
<1> QED  BY <1>1, <1>2, <1>3

\* Accept returns a connection, which only this loop has.
LEMMA AcceptInv ==
  ASSUME ProxyInv, NEW n \in 1..MaxStarts, NEW k \in Keys, Accept(n, k)
  PROVE  ProxyInv'
<1>0. LifeInv /\ PipeInv /\ CountInv /\ DrainInv /\ LoopInv /\ RateInv /\ BudgetInv
  BY DEF ProxyInv
<1> DEFINE r == [at |-> "accepted", on |-> 0, conn |-> k]
<1>1. /\ conn[k] = "free" /\ conn' = [conn EXCEPT ![k] = "accepted"]
      /\ loop' = [loop EXCEPT ![n] = r]
      /\ UNCHANGED <<limitVars, now, lifeVars, wg, slots, watched, pipe, old>>
  BY ZenonT(30) DEF Accept
<1>2. UNCHANGED <<running, listener, open, stopCh, closed, stopper, wg, slots, watched, pipe, old>>
  BY <1>1 DEF lifeVars
<1>3. /\ conn' \in [Keys -> {"free", "accepted", "dial", "pipes"}]
      /\ conn'[k] = "accepted"
      /\ \A x \in Keys : x # k => conn'[x] = conn[x]
      /\ Handlers' = Handlers \ {k}
      /\ Piped' = Piped \ {k}
  BY <1>0, <1>1, ConnMoves
<1>4. Handlers' = Handlers /\ Piped' = Piped
  BY <1>1, <1>3, SMTT(30) DEF Handlers, Piped
<1>5. r \in LoopType /\ r.at = "accepted" /\ r.conn = k
  <2>1. k \in Keys \cup {NoConn} /\ 0 \in Nat
    OBVIOUS
  <2> QED  BY <2>1, LoopRecord
<1> HIDE DEF r
<1>6. LifeInv'
  BY <1>0, <1>2, ZenonT(30) DEF LifeInv
<1>7. CountInv'
  BY <1>0, <1>2, <1>3, <1>4, ZenonT(30) DEF CountInv
<1>8. DrainInv'
  BY <1>0, <1>2, <1>4, ZenonT(30) DEF DrainInv
<1>9. LoopInv'
  <2>1. loop \in [1..MaxStarts -> LoopType]
    BY <1>0 DEF LoopInv
  <2>2. /\ loop' \in [1..MaxStarts -> LoopType]
        /\ \A m \in 1..MaxStarts : loop'[m] = IF m = n THEN r ELSE loop[m]
    BY <1>1, <1>5, <2>1, SMTT(30)
  <2>3. \A m \in 1..MaxStarts :
          loop[m].at = "accepted" => /\ loop[m].conn \in Keys
                                     /\ loop[m].conn # k
                                     /\ conn'[loop[m].conn] = "accepted"
    BY <1>0, <1>1, <1>3, ZenonT(30) DEF LoopInv
  <2>4. \A m \in 1..MaxStarts :
          loop'[m].at = "accepted" => loop'[m].conn \in Keys /\ conn'[loop'[m].conn] = "accepted"
    BY <1>3, <1>5, <2>2, <2>3, ZenonT(30)
  <2>5. ASSUME NEW m \in 1..MaxStarts, NEW i \in 1..MaxStarts,
               loop'[m].at = "accepted", loop'[i].at = "accepted", loop'[m].conn = loop'[i].conn
        PROVE  m = i
    <3>1. CASE m = n \/ i = n
      BY <1>5, <2>2, <2>3, <2>5, <3>1, ZenonT(30)
    <3>2. CASE m # n /\ i # n
      <4>1. loop'[m] = loop[m] /\ loop'[i] = loop[i]
        BY <2>2, <3>2
      <4> QED  BY <1>0, <2>5, <4>1, ZenonT(30) DEF LoopInv
    <3> QED  BY <3>1, <3>2
  <2>6. LoopType' = LoopType
    BY DEF LoopType
  <2> QED  BY <2>2, <2>4, <2>5, <2>6, ZenonT(30) DEF LoopInv
<1>10. RateInv' /\ BudgetInv'
  BY <1>0, <1>1, LimitsFrame
<1>11. PipeInv'
  BY <1>0, <1>2 DEF PipeInv
<1> QED  BY <1>6, <1>7, <1>8, <1>9, <1>10, <1>11 DEF ProxyInv

\* wg.Add for the connection the loop holds, which was not counted before.
LEMMA ServeInv ==
  ASSUME ProxyInv, NEW n \in 1..MaxStarts, Serve(n)
  PROVE  ProxyInv'
<1>0. LifeInv /\ PipeInv /\ CountInv /\ DrainInv /\ LoopInv /\ RateInv /\ BudgetInv
  BY DEF ProxyInv
<1> DEFINE r == [at |-> "top", on |-> 0, conn |-> NoConn]
           k == loop[n].conn
<1>1. /\ loop[n].at = "accepted" /\ wg' = wg + 1 /\ conn' = [conn EXCEPT ![k] = "dial"]
      /\ loop' = [loop EXCEPT ![n] = r]
      /\ UNCHANGED <<limitVars, now, lifeVars, slots, watched, pipe, old>>
  BY ZenonT(30) DEF Serve
<1>2. UNCHANGED <<running, listener, open, stopCh, closed, stopper, slots, watched, pipe, old>>
  BY <1>1 DEF lifeVars
<1>3. k \in Keys /\ conn[k] = "accepted"
  BY <1>0, <1>1, ZenonT(30) DEF LoopInv
<1>4. r \in LoopType /\ r.at = "top"
  <2>1. NoConn \in Keys \cup {NoConn} /\ 0 \in Nat
    OBVIOUS
  <2> QED  BY <2>1, LoopRecord
<1> HIDE DEF r
<1>5. \A m \in 1..MaxStarts : m # n /\ loop[m].at = "accepted" => loop[m].conn # k
  BY <1>0, <1>1, ZenonT(30) DEF LoopInv
<1> HIDE DEF k
<1>6. /\ conn' \in [Keys -> {"free", "accepted", "dial", "pipes"}]
      /\ \A x \in Keys : x # k => conn'[x] = conn[x]
      /\ Handlers' = Handlers \cup {k}
      /\ Piped' = Piped \ {k}
  BY <1>0, <1>1, <1>3, ConnMoves
<1>7. k \notin Handlers /\ k \notin Piped
  BY <1>3 DEF Handlers, Piped
<1>8. Piped' = Piped
  BY <1>6, <1>7
<1>9. LifeInv'
  BY <1>0, <1>2, ZenonT(30) DEF LifeInv
<1>10. CountInv'
  <2>1. IsFiniteSet(Handlers) /\ wg = Cardinality(Handlers)
    BY <1>0 DEF CountInv
  <2>2. IsFiniteSet(Handlers') /\ wg' = Cardinality(Handlers')
    BY <1>1, <1>6, <1>7, <2>1, FS_AddElement
  <2> QED  BY <1>0, <1>2, <1>6, <1>8, <2>2, ZenonT(30) DEF CountInv
<1>11. DrainInv'
  BY <1>0, <1>2, <1>6, ZenonT(30) DEF DrainInv
<1>12. LoopInv'
  <2>1. loop \in [1..MaxStarts -> LoopType]
    BY <1>0 DEF LoopInv
  <2>2. /\ loop' \in [1..MaxStarts -> LoopType]
        /\ \A m \in 1..MaxStarts : loop'[m] = IF m = n THEN r ELSE loop[m]
    BY <1>1, <1>4, <2>1, SMTT(30)
  <2>3. \A m \in 1..MaxStarts : loop'[m].at = "accepted" => m # n /\ loop'[m] = loop[m]
    BY <1>4, <2>2, ZenonT(30)
  <2>4. \A m \in 1..MaxStarts :
          loop'[m].at = "accepted" => loop'[m].conn \in Keys /\ conn'[loop'[m].conn] = "accepted"
    <3> SUFFICES ASSUME NEW m \in 1..MaxStarts, loop'[m].at = "accepted"
                 PROVE  loop'[m].conn \in Keys /\ conn'[loop'[m].conn] = "accepted"
      OBVIOUS
    <3>1. m # n /\ loop'[m] = loop[m] /\ loop[m].at = "accepted"
      BY <2>3
    <3>2. loop[m].conn \in Keys /\ conn[loop[m].conn] = "accepted" /\ loop[m].conn # k
      BY <1>0, <1>5, <3>1, ZenonT(30) DEF LoopInv
    <3> QED  BY <1>6, <3>1, <3>2, ZenonT(30)
  <2>5. \A m, i \in 1..MaxStarts :
          loop'[m].at = "accepted" /\ loop'[i].at = "accepted" /\ loop'[m].conn = loop'[i].conn => m = i
    BY <1>0, <2>3, ZenonT(30) DEF LoopInv
  <2>6. LoopType' = LoopType
    BY DEF LoopType
  <2> QED  BY <2>2, <2>4, <2>5, <2>6, ZenonT(30) DEF LoopInv
<1>13. RateInv' /\ BudgetInv'
  BY <1>0, <1>1, LimitsFrame
<1>14. PipeInv'
  BY <1>0, <1>2 DEF PipeInv
<1> QED  BY <1>9, <1>10, <1>11, <1>12, <1>13, <1>14 DEF ProxyInv

\* A handler that could not dial, or found no slot, ends.
LEMMA DialEndsInv ==
  ASSUME ProxyInv, NEW k \in Keys, DialFails(k) \/ NoSlot(k)
  PROVE  ProxyInv'
<1>0. LifeInv /\ PipeInv /\ CountInv /\ DrainInv /\ LoopInv /\ RateInv /\ BudgetInv
  BY DEF ProxyInv
<1>1. /\ conn[k] = "dial" /\ HandlerEnds(k)
      /\ UNCHANGED <<limitVars, now, lifeVars, slots, watched, pipe, loop>>
  BY ZenonT(30) DEF DialFails, NoSlot
<1>2. UNCHANGED <<running, listener, open, stopCh, closed, stopper, slots, watched, pipe, loop>>
  BY <1>1 DEF lifeVars
<1>3. CountInv' /\ DrainInv' /\ LoopInv'
  BY <1>0, <1>1, <1>2, HandlerEndsInv
<1>4. LifeInv'
  BY <1>0, <1>2, ZenonT(30) DEF LifeInv
<1>5. RateInv' /\ BudgetInv'
  BY <1>0, <1>1, LimitsFrame
<1>6. PipeInv'
  BY <1>0, <1>2 DEF PipeInv
<1> QED  BY <1>3, <1>4, <1>5, <1>6 DEF ProxyInv

\* A handler takes a slot, of which one is left, and starts its pipes.
LEMMA StartPipesInv ==
  ASSUME ProxyInv, NEW k \in Keys, StartPipes(k)
  PROVE  ProxyInv'
<1>0. LifeInv /\ PipeInv /\ CountInv /\ DrainInv /\ LoopInv /\ RateInv /\ BudgetInv
  BY DEF ProxyInv
<1> DEFINE p == [d \in Dirs |-> IF stopCh \in closed THEN "done" ELSE "read"]
<1>1. /\ conn[k] = "dial" /\ slots < MaxConns /\ slots' = slots + 1
      /\ conn' = [conn EXCEPT ![k] = "pipes"]
      /\ watched' = [watched EXCEPT ![k] = stopCh]
      /\ pipe' = [pipe EXCEPT ![k] = p]
      /\ UNCHANGED <<limitVars, now, lifeVars, wg, old, loop>>
  BY ZenonT(30) DEF StartPipes
<1>2. UNCHANGED <<running, listener, open, stopCh, closed, stopper, wg, old, loop>>
  BY <1>1 DEF lifeVars
<1>3. p \in [Dirs -> {"read", "write", "done"}]
  OBVIOUS
<1> HIDE DEF p
<1>4. PipeInv'
  BY <1>0, <1>1, <1>3, SMTT(30) DEF PipeInv
<1>5. /\ conn' \in [Keys -> {"free", "accepted", "dial", "pipes"}]
      /\ \A x \in Keys : x # k => conn'[x] = conn[x]
      /\ Handlers' = Handlers \cup {k}
      /\ Piped' = Piped \cup {k}
  BY <1>0, <1>1, ConnMoves
<1>6. Handlers' = Handlers /\ k \notin Piped
  BY <1>1, <1>5 DEF Handlers, Piped
<1>7. CountInv'
  <2>1. IsFiniteSet(Piped) /\ slots = Cardinality(Piped)
    BY <1>0 DEF CountInv
  <2>2. IsFiniteSet(Piped') /\ slots' = Cardinality(Piped')
    BY <1>1, <1>5, <1>6, <2>1, FS_AddElement
  <2>3. slots \in Nat
    BY <2>1, FS_CardinalityType
  <2>4. slots' <= MaxConns
    BY <1>1, <2>3, Constants, SMTT(30)
  <2> QED  BY <1>0, <1>2, <1>5, <1>6, <2>2, <2>4, ZenonT(30) DEF CountInv
<1>8. DrainInv'
  BY <1>0, <1>2, <1>6, ZenonT(30) DEF DrainInv
<1>9. LoopInv'
  BY <1>0, <1>1, <1>2, <1>5, LoopConn
<1>10. LifeInv'
  <2>1. stopCh \in 0..stopCh /\ watched \in [Keys -> 0..stopCh]
    BY <1>0, SMTT(30) DEF LifeInv
  <2>2. watched' \in [Keys -> 0..stopCh]
    BY <1>1, <2>1, SMTT(30)
  <2> QED  BY <1>0, <1>2, <2>2, ZenonT(30) DEF LifeInv
<1>11. RateInv' /\ BudgetInv'
  BY <1>0, <1>1, LimitsFrame
<1> QED  BY <1>4, <1>7, <1>8, <1>9, <1>10, <1>11 DEF ProxyInv

\* Both pipes have returned: the slot is released and wg.Done called.
LEMMA PipesDoneInv ==
  ASSUME ProxyInv, NEW k \in Keys, PipesDone(k)
  PROVE  ProxyInv'
<1>0. LifeInv /\ PipeInv /\ CountInv /\ DrainInv /\ LoopInv /\ RateInv /\ BudgetInv
  BY DEF ProxyInv
<1>1. /\ conn[k] = "pipes" /\ slots' = slots - 1 /\ HandlerEnds(k)
      /\ watched' = [watched EXCEPT ![k] = 0]
      /\ UNCHANGED <<limitVars, now, lifeVars, pipe, loop>>
  BY ZenonT(30) DEF PipesDone
<1>2. UNCHANGED <<running, listener, open, stopCh, closed, stopper, pipe, loop>>
  BY <1>1 DEF lifeVars
<1>3. CountInv' /\ DrainInv' /\ LoopInv'
  BY <1>0, <1>1, <1>2, HandlerEndsInv
<1>4. LifeInv'
  <2>1. 0 \in 0..stopCh /\ watched \in [Keys -> 0..stopCh]
    BY <1>0, SMTT(30) DEF LifeInv
  <2>2. watched' \in [Keys -> 0..stopCh]
    BY <1>1, <2>1, SMTT(30)
  <2> QED  BY <1>0, <1>2, <2>2, ZenonT(30) DEF LifeInv
<1>5. RateInv' /\ BudgetInv'
  BY <1>0, <1>1, LimitsFrame
<1>6. PipeInv'
  BY <1>0, <1>2 DEF PipeInv
<1> QED  BY <1>3, <1>4, <1>5, <1>6 DEF ProxyInv

\* A line from the client draws on the rate, and on the budget if the rate
\* allows it.
LEMMA RequestInv ==
  ASSUME ProxyInv, NEW k \in Keys, Request(k)
  PROVE  ProxyInv'
<1>0. PipeInv /\ RateInv /\ BudgetInv /\ "c2s" \in Dirs
  BY DEF ProxyInv, Dirs
<1>1. PICK n \in Costs :
       \/ /\ RateAllow(k, FALSE)
          /\ Continue(k, "c2s")
          /\ UNCHANGED <<usage, spent>>
       \/ /\ RateAllow(k, TRUE)
          /\ BudgetAllow(k, n, FALSE)
          /\ Continue(k, "c2s")
       \/ /\ RateAllow(k, TRUE)
          /\ BudgetAllow(k, n, TRUE)
          /\ \/ Continue(k, "c2s")
             \/ pipe' = [pipe EXCEPT ![k]["c2s"] = "write"]
  BY ZenonT(30) DEF Request
<1>2. UNCHANGED <<now, lifeVars, wg, slots, conn, watched, old, loop>>
  BY ZenonT(30) DEF Request
<1>3. RateInv'
  <2>1. RateAllow(k, FALSE) \/ RateAllow(k, TRUE)
    BY <1>1
  <2> QED  BY <1>0, <1>2, <2>1, RateAllowInv
<1>4. BudgetInv'
  <2>1. UNCHANGED <<usage, spent>> \/ BudgetAllow(k, n, FALSE) \/ BudgetAllow(k, n, TRUE)
    BY <1>1
  <2> QED  BY <1>0, <1>2, <2>1, BudgetAllowInv, BudgetFrame
<1>5. PipeInv'
  BY <1>0, <1>1, ContinueInv, PipeMoves
<1> QED  BY <1>2, <1>3, <1>4, <1>5, PipeStep

\* A line from the server draws on the budget and passes.
LEMMA ResponseInv ==
  ASSUME ProxyInv, NEW k \in Keys, Response(k)
  PROVE  ProxyInv'
<1>0. PipeInv /\ RateInv /\ BudgetInv /\ "s2c" \in Dirs
  BY DEF ProxyInv, Dirs
<1>1. /\ pipe' = [pipe EXCEPT ![k]["s2c"] = "write"]
      /\ UNCHANGED <<buckets, granted, now, lifeVars, wg, slots, conn, watched, old, loop>>
  BY ZenonT(30) DEF Response
<1>2. PICK n \in Costs, ok \in BOOLEAN : BudgetAllow(k, n, ok)
  BY ZenonT(30) DEF Response
<1>3. RateInv'
  BY <1>0, <1>1, RateFrame
<1>4. BudgetInv'
  BY <1>0, <1>1, <1>2, BudgetAllowInv
<1>5. PipeInv'
  BY <1>0, <1>1, PipeMoves
<1> QED  BY <1>1, <1>3, <1>4, <1>5, PipeStep

\* A pipe forwards a line, or ends because a read or a write fails.
LEMMA PipeEndsInv ==
  ASSUME ProxyInv, NEW k \in Keys, NEW d \in Dirs,
         Forward(k, d) \/ ReadFails(k, d) \/ WriteFails(k, d)
  PROVE  ProxyInv'
<1>0. PipeInv /\ RateInv /\ BudgetInv
  BY DEF ProxyInv
<1>1. UNCHANGED <<limitVars, now, lifeVars, wg, slots, conn, watched, old, loop>>
  BY ZenonT(30) DEF Forward, ReadFails, WriteFails
<1>2. Continue(k, d) \/ pipe' = [pipe EXCEPT ![k][d] = "done"]
  BY ZenonT(30) DEF Forward, ReadFails, WriteFails
<1>3. RateInv' /\ BudgetInv'
  BY <1>0, <1>1, LimitsFrame
<1>4. PipeInv'
  BY <1>0, <1>2, ContinueInv, PipeMoves
<1> QED  BY <1>1, <1>3, <1>4, PipeStep

\* The clock.
LEMMA ProxyTick ==
  ASSUME ProxyInv, Tick, UNCHANGED <<lifeVars, connVars, loop>>
  PROVE  ProxyInv'
<1>1. UNCHANGED <<lifeVars, wg, slots, conn, watched, old, loop>> /\ pipe' = pipe
  BY DEF connVars
<1>2. PipeInv'
  BY <1>1 DEF ProxyInv, PipeInv
<1>3. RateInv' /\ BudgetInv'
  BY RateTick, BudgetTick DEF ProxyInv
<1> QED  BY <1>1, <1>2, <1>3, PipeStep

\* A new proxy.
LEMMA ProxyInit ==
  ASSUME Init
  PROVE  ProxyInv
<1>1. LimitsInit /\ running = FALSE /\ listener = 0 /\ open = FALSE /\ stopCh = 0 /\ closed = {}
  BY DEF Init
<1>2. stopper = "idle" /\ wg = 0 /\ slots = 0 /\ loop = [n \in 1..MaxStarts |-> Resting] /\ old = {}
  BY DEF Init
<1>3. /\ conn = [k \in Keys |-> "free"] /\ watched = [k \in Keys |-> 0]
      /\ pipe = [k \in Keys |-> [d \in Dirs |-> "done"]]
  BY DEF Init
<1>4. 0 \in Nat /\ 0 \in 0..0 /\ 0 \in 0..MaxStarts
  BY Constants, SMTT(30)
<1>5. LifeInv
  <2>1. watched \in [Keys -> 0..0]
    BY <1>3, <1>4, SMTT(30)
  <2>2. closed \subseteq 0..0
    BY <1>1
  <2> QED  BY <1>1, <1>2, <1>4, <2>1, <2>2, ZenonT(30) DEF LifeInv
<1>6. PipeInv
  BY <1>3, SMTT(30) DEF PipeInv
<1>7. Handlers = {} /\ Piped = {}
  BY <1>3 DEF Handlers, Piped
<1>8. CountInv
  <2>1. conn \in [Keys -> {"free", "accepted", "dial", "pipes"}]
    BY <1>3
  <2>2. 0 <= MaxConns
    BY Constants, SMTT(30)
  <2> QED  BY <1>2, <1>7, <2>1, <2>2, FS_EmptySet DEF CountInv
<1>9. DrainInv
  BY <1>2, <1>7 DEF DrainInv
<1>10. LoopInv
  <2>1. Resting \in LoopType /\ Resting.at = "none"
    <3>1. NoConn \in Keys \cup {NoConn}
      OBVIOUS
    <3> QED  BY <1>4, <3>1, LoopRecord DEF Resting
  <2>2. loop \in [1..MaxStarts -> LoopType] /\ \A n \in 1..MaxStarts : loop[n] = Resting
    BY <1>2, <2>1
  <2>3. \A n \in 1..MaxStarts : loop[n].at # "accepted"
    BY <2>1, <2>2, ZenonT(30)
  <2> QED  BY <2>2, <2>3 DEF LoopInv
<1>11. RateInv /\ BudgetInv
  BY <1>1, RateInit, BudgetInit
<1> QED  BY <1>5, <1>6, <1>8, <1>9, <1>10, <1>11 DEF ProxyInv

-----------------------------------------------------------------------------
(* The theorems.                                                           *)

\* The invariant of the proxy: Start, Stop, the accept loops, the handlers,
\* their pipes and the limiters, in every interleaving.
THEOREM ProxyInvariant == Spec => []ProxyInv
<1>1. Init => ProxyInv
  BY ProxyInit
<1>2. ProxyInv /\ [Next]_vars => ProxyInv'
  <2> SUFFICES ASSUME ProxyInv, [Next]_vars
               PROVE  ProxyInv'
    OBVIOUS
  <2>1. CASE Start \/ Stop \/ WaitReturns \/ StopReturns
    BY <2>1, StartInv, StopInv, WaitReturnsInv, StopReturnsInv
  <2>2. CASE Tick /\ UNCHANGED <<lifeVars, connVars, loop>>
    BY <2>2, ProxyTick
  <2>3. ASSUME NEW n \in 1..MaxStarts,
               CallAccept(n) \/ AcceptFails(n) \/ AfterFailure(n) \/ Serve(n) \/ \E k \in Keys : Accept(n, k)
        PROVE  ProxyInv'
    BY <2>3, LoopInvs, ServeInv, AcceptInv
  <2>4. ASSUME NEW k \in Keys, DialFails(k) \/ NoSlot(k) \/ StartPipes(k) \/ PipesDone(k)
        PROVE  ProxyInv'
    BY <2>4, DialEndsInv, StartPipesInv, PipesDoneInv
  <2>5. ASSUME NEW k \in Keys,
               Request(k) \/ Response(k) \/ \E d \in Dirs : Forward(k, d) \/ ReadFails(k, d) \/ WriteFails(k, d)
        PROVE  ProxyInv'
    BY <2>5, RequestInv, ResponseInv, PipeEndsInv
  <2>6. CASE UNCHANGED vars
    <3>1. UNCHANGED <<limitVars, now>> /\ UNCHANGED <<lifeVars, wg, slots, conn, watched, old, loop>> /\ pipe' = pipe
      BY <2>6 DEF vars, connVars
    <3>2. RateInv' /\ BudgetInv'
      BY <3>1, LimitsFrame DEF ProxyInv
    <3>3. PipeInv'
      BY <3>1 DEF ProxyInv, PipeInv
    <3> QED  BY <3>1, <3>2, <3>3, PipeStep
  <2> QED  BY <2>1, <2>2, <2>3, <2>4, <2>5, <2>6 DEF Next
<1> QED  BY <1>1, <1>2, PTL DEF Spec

\* Every variable of the proxy has the type the code gives it; in particular
\* connSem never holds more than maxProxyConns tokens and no bucket or window
\* more than its limit.
THEOREM ProxyTypes == Spec => []TypeOK
<1>1. ProxyInv => TypeOK
  <2> SUFFICES ASSUME ProxyInv
               PROVE  TypeOK
    OBVIOUS
  <2>0. LifeInv /\ PipeInv /\ CountInv /\ RateInv /\ BudgetInv
    BY DEF ProxyInv
  <2>1. wg \in Nat /\ slots \in 0..MaxConns
    <3>1. wg \in Nat /\ slots \in Nat /\ slots <= MaxConns
      BY <2>0, FS_CardinalityType DEF CountInv
    <3> QED  BY <3>1, Constants, SMTT(30)
  <2>2. conn \in [Keys -> {"free", "accepted", "dial", "pipes"}]
    BY <2>0 DEF CountInv
  <2>3. DOMAIN buckets \subseteq Keys /\ \A k \in DOMAIN buckets : buckets[k].tokens \in 0..PerMin
    BY <2>0 DEF RateInv, BucketType
  <2>4. DOMAIN usage \subseteq Keys /\ \A k \in DOMAIN usage : usage[k].tokens \in 0..MaxTokens
    BY <2>0 DEF BudgetInv, WindowType
  <2> QED  BY <2>0, <2>1, <2>2, <2>3, <2>4, ZenonT(30) DEF TypeOK, LifeInv, PipeInv
<1> QED  BY <1>1, ProxyInvariant, PTL

\* connSem counts exactly the connections that are being piped: handleConn
\* releases a slot on every way it can end, once.
THEOREM SlotsAreExact == Spec => []SlotsExact
<1>1. ProxyInv => SlotsExact
  BY DEF ProxyInv, CountInv, SlotsExact, Piped
<1> QED  BY <1>1, ProxyInvariant, PTL

\* When Stop returns, every handler it found in wg has ended, however many
\* connections were accepted meanwhile.
THEOREM StopIsDrained == Spec => []StopDrains
<1>1. ProxyInv => StopDrains
  BY DEF ProxyInv, DrainInv, StopDrains
<1> QED  BY <1>1, ProxyInvariant, PTL

\* The pipes of all connections together keep every key within its rate and
\* its budget: checkRequestSafety and applyResponseSafety draw on the same
\* limiters, one step asking both.
THEOREM ProxyKeepsLimits == Spec => [](RateBound /\ BudgetBound)
<1>1. ProxyInv => RateBound /\ BudgetBound
  BY DEF ProxyInv, RateInv, BudgetInv
<1> QED  BY <1>1, ProxyInvariant, PTL
=============================================================================
