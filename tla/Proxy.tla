-------------------------------- MODULE Proxy --------------------------------
(***************************************************************************)
(* The MCP proxy of internal/mcp: Start, Stop, the accept loop, a handler  *)
(* per connection and its two pipes.  A Stop closes the channel stopCh,    *)
(* waits for the handlers that have called wg.Add and then replaces the    *)
(* channel, so that the proxy can be started again; the accept loop and    *)
(* the handlers read p.listener and p.stopCh without the mutex.            *)
(*                                                                         *)
(* A message from the client passes the limiters of module Limits and the  *)
(* policy callbacks before it is forwarded; one from the server is charged *)
(* to the budget.  Which key a connection has is its remote address, port  *)
(* included, so Keys are the connections.                                  *)
(***************************************************************************)
EXTENDS Limits

CONSTANTS
  MaxConns,   \* maxProxyConns (100)
  MaxStarts   \* bound: calls of Start

ASSUME ProxyAssumption ==
  /\ MaxConns \in Nat \ {0}
  /\ MaxStarts \in Nat

VARIABLES
  running,   \* Proxy.running
  listener,  \* the number of Proxy.listener, 0 before the first Start
  open,      \* whether that listener is open
  stopCh,    \* the number of Proxy.stopCh
  closed,    \* the channels that have been closed
  stopper,   \* where Stop is: "idle", "wait" or "replace"; it holds p.mu
  wg,        \* Proxy.wg
  slots,     \* tokens in Proxy.connSem
  loop,      \* per Start, its accept loop: [at, on, conn]
  conn,      \* per connection, its handler: "free", "accepted", "dial" or "pipes"
  watched,   \* per connection, the stopCh its pipes have
  pipe,      \* per connection and direction: "read", "write" or "done"
  old        \* history: handlers that Stop found in wg

lifeVars == <<running, listener, open, stopCh, closed, stopper>>
connVars == <<wg, slots, conn, watched, pipe, old>>
vars == <<limitVars, now, lifeVars, connVars, loop>>

Dirs == {"c2s", "s2c"}
NoConn == "none"
Resting == [at |-> "none", on |-> 0, conn |-> NoConn]

\* NewProxy and WithSafety.
Init ==
  /\ LimitsInit
  /\ running = FALSE
  /\ listener = 0
  /\ open = FALSE
  /\ stopCh = 0
  /\ closed = {}
  /\ stopper = "idle"
  /\ wg = 0
  /\ slots = 0
  /\ loop = [n \in 1..MaxStarts |-> Resting]
  /\ conn = [k \in Keys |-> "free"]
  /\ watched = [k \in Keys |-> 0]
  /\ pipe = [k \in Keys |-> [d \in Dirs |-> "done"]]
  /\ old = {}

-----------------------------------------------------------------------------
(* Start and Stop.  Each holds p.mu from its first step to its last.       *)

Start ==
  /\ stopper = "idle"
  /\ ~running
  /\ listener < MaxStarts
  /\ listener' = listener + 1
  /\ open' = TRUE
  /\ running' = TRUE
  /\ loop' = [loop EXCEPT ![listener + 1].at = "top"]
  /\ UNCHANGED <<limitVars, now, stopCh, closed, stopper, connVars>>

\* Mutant of Stop: the channel is never closed.
Stop_NoClose ==
  /\ stopper = "idle"
  /\ running
  /\ running' = FALSE
  /\ open' = FALSE
  /\ stopper' = "wait"
  /\ old' = {k \in Keys : conn[k] \in {"dial", "pipes"}}
  /\ UNCHANGED <<limitVars, now, listener, stopCh, closed, wg, slots, conn, watched, pipe, loop>>

\* Stop closes the channel and the listener.
Stop ==
  /\ stopper = "idle"
  /\ running
  /\ running' = FALSE
  /\ closed' = closed \cup {stopCh}
  /\ open' = FALSE
  /\ stopper' = "wait"
  /\ old' = {k \in Keys : conn[k] \in {"dial", "pipes"}}
  /\ UNCHANGED <<limitVars, now, listener, stopCh, wg, slots, conn, watched, pipe, loop>>

\* Mutant of WaitReturns: Stop does not wait for the handlers.
WaitReturns_AtOnce ==
  /\ stopper = "wait"
  /\ stopper' = "replace"
  /\ UNCHANGED <<limitVars, now, running, listener, open, stopCh, closed, connVars, loop>>

\* wg.Wait returns.
WaitReturns ==
  /\ stopper = "wait"
  /\ wg = 0
  /\ stopper' = "replace"
  /\ UNCHANGED <<limitVars, now, running, listener, open, stopCh, closed, connVars, loop>>

StopReturns ==
  /\ stopper = "replace"
  /\ stopCh' = stopCh + 1
  /\ stopper' = "idle"
  /\ UNCHANGED <<limitVars, now, running, listener, open, closed, connVars, loop>>

-----------------------------------------------------------------------------
(* acceptLoop.                                                             *)

\* It calls Accept on the listener the proxy has at that moment.
CallAccept(n) ==
  /\ loop[n].at = "top"
  /\ loop' = [loop EXCEPT ![n] = [at |-> "accept", on |-> listener, conn |-> NoConn]]
  /\ UNCHANGED <<limitVars, now, lifeVars, connVars>>

Accept(n, k) ==
  /\ loop[n].at = "accept"
  /\ loop[n].on = listener /\ open
  /\ conn[k] = "free"
  /\ conn' = [conn EXCEPT ![k] = "accepted"]
  /\ loop' = [loop EXCEPT ![n] = [at |-> "accepted", on |-> 0, conn |-> k]]
  /\ UNCHANGED <<limitVars, now, lifeVars, wg, slots, watched, pipe, old>>

\* Accept fails: the listener is closed, or the system has no descriptor.
AcceptFails(n) ==
  /\ loop[n].at = "accept"
  /\ loop' = [loop EXCEPT ![n] = [at |-> "failed", on |-> 0, conn |-> NoConn]]
  /\ UNCHANGED <<limitVars, now, lifeVars, connVars>>

\* The loop ends if the channel the proxy has now is closed.
AfterFailure(n) ==
  /\ loop[n].at = "failed"
  /\ loop' = [loop EXCEPT ![n] =
                IF stopCh \in closed THEN Resting ELSE [@ EXCEPT !.at = "top"]]
  /\ UNCHANGED <<limitVars, now, lifeVars, connVars>>

\* wg.Add and go handleConn.
Serve(n) ==
  /\ loop[n].at = "accepted"
  /\ wg' = wg + 1
  /\ conn' = [conn EXCEPT ![loop[n].conn] = "dial"]
  /\ loop' = [loop EXCEPT ![n] = [at |-> "top", on |-> 0, conn |-> NoConn]]
  /\ UNCHANGED <<limitVars, now, lifeVars, slots, watched, pipe, old>>

-----------------------------------------------------------------------------
(* handleConn.                                                             *)

\* The handler returns without ever having held a slot.
HandlerEnds(k) ==
  /\ wg' = wg - 1
  /\ conn' = [conn EXCEPT ![k] = "free"]
  /\ old' = old \ {k}

DialFails(k) ==
  /\ conn[k] = "dial"
  /\ HandlerEnds(k)
  /\ UNCHANGED <<limitVars, now, lifeVars, slots, watched, pipe, loop>>

NoSlot(k) ==
  /\ conn[k] = "dial"
  /\ slots = MaxConns
  /\ HandlerEnds(k)
  /\ UNCHANGED <<limitVars, now, lifeVars, slots, watched, pipe, loop>>

\* Mutant of StartPipes: the slot is taken whether or not there is one.
StartPipes_NoLimit(k) ==
  /\ conn[k] = "dial"
  /\ slots' = slots + 1
  /\ conn' = [conn EXCEPT ![k] = "pipes"]
  /\ watched' = [watched EXCEPT ![k] = stopCh]
  /\ pipe' = [pipe EXCEPT ![k] = [d \in Dirs |-> IF stopCh \in closed THEN "done" ELSE "read"]]
  /\ UNCHANGED <<limitVars, now, lifeVars, wg, old, loop>>

\* The target is dialled, a slot taken, p.stopCh read and the pipes started.
StartPipes(k) ==
  /\ conn[k] = "dial"
  /\ slots < MaxConns
  /\ slots' = slots + 1
  /\ conn' = [conn EXCEPT ![k] = "pipes"]
  /\ watched' = [watched EXCEPT ![k] = stopCh]
  /\ pipe' = [pipe EXCEPT ![k] = [d \in Dirs |-> IF stopCh \in closed THEN "done" ELSE "read"]]
  /\ UNCHANGED <<limitVars, now, lifeVars, wg, old, loop>>

\* Mutant of PipesDone: the deferred release of the slot is missing.
PipesDone_KeepsSlot(k) ==
  /\ conn[k] = "pipes"
  /\ \A d \in Dirs : pipe[k][d] = "done"
  /\ watched' = [watched EXCEPT ![k] = 0]
  /\ HandlerEnds(k)
  /\ UNCHANGED <<limitVars, now, lifeVars, slots, pipe, loop>>

\* Both pipes have returned.
PipesDone(k) ==
  /\ conn[k] = "pipes"
  /\ \A d \in Dirs : pipe[k][d] = "done"
  /\ slots' = slots - 1
  /\ watched' = [watched EXCEPT ![k] = 0]
  /\ HandlerEnds(k)
  /\ UNCHANGED <<limitVars, now, lifeVars, pipe, loop>>

-----------------------------------------------------------------------------
(* pipe.                                                                   *)

Piping(k, d, at) == conn[k] = "pipes" /\ pipe[k][d] = at

\* The top of the loop, where a pipe looks at its stopCh: it returns or reads.
Continue(k, d) ==
  pipe' = [pipe EXCEPT ![k][d] = IF watched[k] \in closed THEN "done" ELSE "read"]

\* A line from the client: checkRequestSafety asks the rate limiter, then the
\* budget, then the callbacks, and drops the line at the first refusal.
Request(k) ==
  /\ Piping(k, "c2s", "read")
  /\ \E n \in Costs :
       \/ /\ RateAllow(k, FALSE)
          /\ Continue(k, "c2s")
          /\ UNCHANGED <<usage, spent>>
       \/ /\ RateAllow(k, TRUE)
          /\ BudgetAllow(k, n, FALSE)
          /\ Continue(k, "c2s")
       \/ /\ RateAllow(k, TRUE)
          /\ BudgetAllow(k, n, TRUE)
          /\ \/ Continue(k, "c2s")
             \/ pipe' = [pipe EXCEPT ![k]["c2s"] = "write"]
  /\ UNCHANGED <<now, lifeVars, wg, slots, conn, watched, old, loop>>

\* A line from the server: applyResponseSafety charges the budget and lets it
\* pass whatever the answer.
Response(k) ==
  /\ Piping(k, "s2c", "read")
  /\ \E n \in Costs, ok \in BOOLEAN : BudgetAllow(k, n, ok)
  /\ pipe' = [pipe EXCEPT ![k]["s2c"] = "write"]
  /\ UNCHANGED <<buckets, granted, now, lifeVars, wg, slots, conn, watched, old, loop>>

\* dst.Write succeeds.
Forward(k, d) ==
  /\ Piping(k, d, "write")
  /\ Continue(k, d)
  /\ UNCHANGED <<limitVars, now, lifeVars, wg, slots, conn, watched, old, loop>>

\* A read ends with an error, end of file or after 30 s.
ReadFails(k, d) ==
  /\ Piping(k, d, "read")
  /\ pipe' = [pipe EXCEPT ![k][d] = "done"]
  /\ UNCHANGED <<limitVars, now, lifeVars, wg, slots, conn, watched, old, loop>>

WriteFails(k, d) ==
  /\ Piping(k, d, "write")
  /\ pipe' = [pipe EXCEPT ![k][d] = "done"]
  /\ UNCHANGED <<limitVars, now, lifeVars, wg, slots, conn, watched, old, loop>>

-----------------------------------------------------------------------------
Next ==
  \/ Start \/ Stop \/ WaitReturns \/ StopReturns
  \/ Tick /\ UNCHANGED <<lifeVars, connVars, loop>>
  \/ \E n \in 1..MaxStarts :
       \/ CallAccept(n) \/ AcceptFails(n) \/ AfterFailure(n) \/ Serve(n)
       \/ \E k \in Keys : Accept(n, k)
  \/ \E k \in Keys :
       \/ DialFails(k) \/ NoSlot(k) \/ StartPipes(k) \/ PipesDone(k)
       \/ Request(k) \/ Response(k)
       \/ \E d \in Dirs : Forward(k, d) \/ ReadFails(k, d) \/ WriteFails(k, d)

Spec == Init /\ [][Next]_vars

Loop(n) == CallAccept(n) \/ AfterFailure(n) \/ Serve(n) \/ (~open /\ AcceptFails(n))

\* Goroutines run; a dial ends after 5 s and a read after 30 s.  Nothing
\* makes a Write end.
FairSpec ==
  /\ Spec
  /\ WF_vars(WaitReturns) /\ WF_vars(StopReturns)
  /\ \A n \in 1..MaxStarts : WF_vars(Loop(n))
  /\ \A k \in Keys :
       /\ WF_vars(DialFails(k) \/ NoSlot(k) \/ StartPipes(k))
       /\ WF_vars(PipesDone(k))
       /\ WF_vars(Request(k) \/ ReadFails(k, "c2s"))
       /\ WF_vars(Response(k) \/ ReadFails(k, "s2c"))

-----------------------------------------------------------------------------
(* What must hold.                                                         *)

\* Every variable has the type the code gives it.
TypeOK ==
  /\ running \in BOOLEAN /\ open \in BOOLEAN
  /\ listener \in 0..MaxStarts
  /\ stopCh \in Nat /\ closed \subseteq 0..stopCh
  /\ stopper \in {"idle", "wait", "replace"}
  /\ wg \in Nat /\ slots \in 0..MaxConns
  /\ conn \in [Keys -> {"free", "accepted", "dial", "pipes"}]
  /\ watched \in [Keys -> 0..stopCh]
  /\ pipe \in [Keys -> [Dirs -> {"read", "write", "done"}]]
  /\ DOMAIN buckets \subseteq Keys
  /\ \A k \in DOMAIN buckets : buckets[k].tokens \in 0..PerMin
  /\ DOMAIN usage \subseteq Keys
  /\ \A k \in DOMAIN usage : usage[k].tokens \in 0..MaxTokens

\* connSem counts the connections that are being piped, on every way a
\* handler can end, so a slot is never lost and never lent twice.
SlotsExact == slots = Cardinality({k \in Keys : conn[k] = "pipes"})

\* When Stop returns, every handler it found running has ended.
StopDrains == stopper = "idle" => old = {}

\* Stop returns, unless a peer no longer reads and blocks a Write for ever.
StopEnds ==
  (\A k \in Keys, d \in Dirs : []<>(pipe[k][d] # "write"))
    => (stopper # "idle" ~> stopper = "idle")

\* Once Stop has returned no connection is served (mcp/proxy.go: "Stop shuts
\* down the proxy.").
NothingServedAfterStop ==
  stopper = "idle" /\ ~running => \A k \in Keys : conn[k] # "pipes"
=============================================================================
