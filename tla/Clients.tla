------------------------------ MODULE Clients ------------------------------
(***************************************************************************)
(* The programs that record what they do: the Python SDK (client.py,       *)
(* trace.py, middleware.py), whose threads share one socket, and the       *)
(* TypeScript SDK (client.ts, wrap.ts), which opens one per call, against  *)
(* the daemon's loop over a connection (Handler.Handle).                   *)
(*                                                                         *)
(* A frame is written with one system call on either side and is taken     *)
(* here as one message; a connection is a queue each way.  A caller that   *)
(* stops waiting does not stop the daemon: the request is served all the   *)
(* same.  A receipt's id is its place in the chain.                        *)
(***************************************************************************)
EXTENDS Naturals, Sequences

CONSTANTS
  Py,        \* threads of a Python program that share the global client
  Ts,        \* callers of wrapped TypeScript functions
  NoWorker,  \* nobody holds ANSClient._lock
  MaxSocks,  \* bound: connections that are not yet closed at both ends
  MaxActs    \* bound: traced actions and pings

ASSUME ClientsAssumption ==
  /\ NoWorker \notin Py
  /\ Py \cap Ts = {}
  /\ MaxSocks \in Nat
  /\ MaxActs \in Nat

VARIABLES
  chain,   \* the receipts: [agent, act, phase, link]
  conns,   \* connection -> its two ends and what is under way
  sock,    \* ANSClient._sock
  lock,    \* holder of ANSClient._lock
  work,    \* worker -> the action it traces and where it is
  acts,    \* actions begun
  astray   \* history: actions that read an answer after somebody gave up

vars == <<chain, conns, sock, lock, work, acts, astray>>

Workers == Py \cup Ts
Socks == 1..MaxSocks
NoSock == 0

\* cl, sv: whether the client's and the daemon's end is open; busy: the answer
\* the daemon is about to write; left: a caller gave up waiting here.
NoConn == [cl |-> FALSE, sv |-> FALSE, up |-> <<>>, busy |-> <<>>, down |-> <<>>, left |-> FALSE]
NewConn == [NoConn EXCEPT !.cl = TRUE, !.sv = TRUE]

\* stage: "snap", "pre", "body", "post" or "ping"; at: "want", "send" or
\* "wait" of a call; id: the receipt the pre call returned, 0 for ""; ran: the
\* function has run; silent: the wrapper has dropped the error of a snapshot,
\* so it was made silent; any other may be silent or not.
Idle == [stage |-> "idle", at |-> "none", act |-> 0, id |-> 0, sock |-> NoSock,
         silent |-> FALSE, ran |-> FALSE]

Init ==
  /\ chain = <<>>
  /\ conns = [s \in Socks |-> NoConn]
  /\ sock = NoSock
  /\ lock = NoWorker
  /\ work = [w \in Workers |-> Idle]
  /\ acts = 0
  /\ astray = {}

\* The connection a connect makes, if there is room: the lowest free number.
Opened(s) == conns[s] = NoConn /\ \A r \in Socks : r < s => conns[r] # NoConn

\* A connection both ends have closed is forgotten.
Tidy(c) == IF c.cl \/ c.sv THEN c ELSE NoConn

-----------------------------------------------------------------------------
(* What a worker does next.                                                *)

\* The wrapper begins a call of the next stage.
Stage(r, stage) == [r EXCEPT !.stage = stage, !.at = "want", !.sock = NoSock]

AfterPre(r, id) ==
  IF r.ran THEN Stage([r EXCEPT !.id = id], "post")
  ELSE [r EXCEPT !.stage = "body", !.at = "run", !.id = id, !.sock = NoSock]

\* The call returned its answer.
Returns(w, id) ==
  work' = [work EXCEPT ![w] = CASE @.stage = "snap" -> Stage(@, "pre")
                                [] @.stage = "pre" -> AfterPre(@, id)
                                [] OTHER -> Idle]

\* It raised an error the wrapper catches, ANSError in Python and any error in
\* TypeScript: a silent one goes on, the others let it through.
Caught(w) ==
  LET r == work[w] IN
  CASE r.stage = "snap" -> {Stage([r EXCEPT !.silent = TRUE], "pre"), Idle}
    [] r.stage = "pre" -> {AfterPre(r, 0)} \cup (IF r.silent THEN {} ELSE {Idle})
    [] OTHER -> {Idle}

Fails(w) == \E r \in Caught(w) : work' = [work EXCEPT ![w] = r]

\* It raised an OSError, which goes through a Python wrapper, silent or not,
\* and ends the traced action.  ping catches it.
Raises(w) == work' = [work EXCEPT ![w] = Idle]

-----------------------------------------------------------------------------
(* The wrappers of both SDKs, and ping.                                    *)

Begin(w, stage, ran) ==
  /\ work[w] = Idle
  /\ acts < MaxActs
  /\ acts' = acts + 1
  /\ work' = [work EXCEPT ![w] = [Stage(Idle, stage) EXCEPT !.act = acts + 1, !.ran = ran]]
  /\ UNCHANGED <<chain, conns, sock, lock, astray>>

\* The decorator, which may take a snapshot first.
trace(w) == w \in Py /\ \E stage \in {"snap", "pre"} : Begin(w, stage, FALSE)

\* with client.trace(...), which is never silent.
TraceContext(w) == w \in Py /\ \E stage \in {"snap", "pre"} : Begin(w, stage, FALSE)

\* ANSMiddleware; wrap_async calls the client on a thread of its executor.
wrap(w) == w \in Py /\ Begin(w, "pre", FALSE)
wrap_async(w) == w \in Py /\ Begin(w, "pre", FALSE)

ping(w) == w \in Py /\ Begin(w, "ping", FALSE)

\* TypeScript.  A function that is not async has run when its pre receipt is
\* sent: call writes the frame once it is connected.
wrapAsync(w) == w \in Ts /\ Begin(w, "pre", FALSE)
wrapSync(w) == w \in Ts /\ Begin(w, "pre", TRUE)

Begins(w) ==
  trace(w) \/ TraceContext(w) \/ wrap(w) \/ wrap_async(w) \/ ping(w) \/ wrapAsync(w) \/ wrapSync(w)

BodyEnds_Unlinked(w) ==
  /\ work[w].stage = "body"
  /\ work' = [work EXCEPT ![w] = Stage(@, "post")]
  /\ UNCHANGED <<chain, conns, sock, lock, acts, astray>>

\* The function returns or raises.  Python sends no post receipt without the
\* id of its pre receipt.
BodyEnds(w) ==
  /\ work[w].stage = "body"
  /\ work' = [work EXCEPT ![w] = IF @.id # 0 \/ w \in Ts THEN Stage(@, "post") ELSE Idle]
  /\ UNCHANGED <<chain, conns, sock, lock, acts, astray>>

\* The frame a stage sends, and the type its answer must have.
Frame(w) == [agent |-> w, act |-> work[w].act, phase |-> work[w].stage,
             link |-> IF work[w].stage = "post" THEN work[w].id ELSE 0]
Type(stage) == IF stage \in {"pre", "post"} THEN "sign" ELSE stage

-----------------------------------------------------------------------------
(* ANSClient._call and ping, with _lock held from connect to the answer.   *)

Lock_Dropped(w) ==
  /\ w \in Py /\ work[w].at = "want"
  /\ \/ sock # NoSock /\ UNCHANGED <<sock, conns>>
     \/ /\ sock = NoSock
        /\ sock' \in {s \in Socks : Opened(s)}
        /\ conns' = [conns EXCEPT ![sock'] = NewConn]
  /\ lock' = w
  /\ work' = [work EXCEPT ![w].at = "send", ![w].sock = sock']
  /\ UNCHANGED <<chain, acts, astray>>

\* A socket once connected is used for good.
Lock(w) ==
  /\ w \in Py /\ work[w].at = "want"
  /\ lock = NoWorker
  /\ \/ sock # NoSock /\ UNCHANGED <<sock, conns>>
     \/ /\ sock = NoSock
        /\ sock' \in {s \in Socks : Opened(s)}
        /\ conns' = [conns EXCEPT ![sock'] = NewConn]
  /\ lock' = w
  /\ work' = [work EXCEPT ![w].at = "send", ![w].sock = sock']
  /\ UNCHANGED <<chain, acts, astray>>

\* Nobody listens: ANSError.
ConnectFails(w) ==
  /\ w \in Py /\ work[w].at = "want"
  /\ lock = NoWorker
  /\ sock = NoSock
  /\ Fails(w)
  /\ UNCHANGED <<chain, conns, sock, lock, acts, astray>>

Send(w) ==
  /\ work[w].at = "send"
  /\ conns[work[w].sock].sv
  /\ conns' = [conns EXCEPT ![work[w].sock].up = Append(@, Frame(w))]
  /\ work' = [work EXCEPT ![w].at = "wait"]
  /\ UNCHANGED <<chain, sock, lock, acts, astray>>

\* The daemon has closed its end: BrokenPipeError.  _sock is kept.
SendFails(w) ==
  /\ work[w].at = "send"
  /\ ~ conns[work[w].sock].sv
  /\ lock' = NoWorker
  /\ Raises(w)
  /\ UNCHANGED <<chain, conns, sock, acts, astray>>

\* The oldest frame that was not read is taken for the answer.
Read(w) ==
  LET c == conns[work[w].sock]  a == Head(c.down) IN
  /\ w \in Py /\ work[w].at = "wait"
  /\ c.down # <<>>
  /\ conns' = [conns EXCEPT ![work[w].sock].down = Tail(@)]
  /\ lock' = NoWorker
  /\ IF a.type = Type(work[w].stage) THEN Returns(w, a.id) ELSE Fails(w)
  /\ astray' = IF c.left THEN astray \cup {work[w].act} ELSE astray
  /\ UNCHANGED <<chain, sock, acts>>

\* End of file is an ANSError, a reset connection an OSError.
ReadFails(w) ==
  /\ w \in Py /\ work[w].at = "wait"
  /\ conns[work[w].sock].down = <<>> /\ ~ conns[work[w].sock].sv
  /\ lock' = NoWorker
  /\ \/ Fails(w)
     \/ Raises(w)
  /\ UNCHANGED <<chain, conns, sock, acts, astray>>

GiveUp_Never(w) == FALSE /\ UNCHANGED vars

\* 30 seconds without an answer: socket.timeout, which no wrapper catches.
\* _sock is kept, and the answer will come to whoever reads next.
GiveUp(w) ==
  /\ w \in Py /\ work[w].at = "wait"
  /\ conns[work[w].sock].down = <<>> /\ conns[work[w].sock].sv
  /\ conns' = [conns EXCEPT ![work[w].sock].left = TRUE]
  /\ lock' = NoWorker
  /\ Raises(w)
  /\ UNCHANGED <<chain, sock, acts, astray>>

\* ANSClient.close
CloseSock ==
  /\ lock = NoWorker
  /\ sock # NoSock
  /\ conns' = [conns EXCEPT ![sock] = Tidy([@ EXCEPT !.cl = FALSE, !.down = <<>>])]
  /\ sock' = NoSock
  /\ UNCHANGED <<chain, lock, work, acts, astray>>

-----------------------------------------------------------------------------
(* call of client.ts: a connection of its own, destroyed when it settles.  *)

CallSends(w) ==
  /\ w \in Ts /\ work[w].at = "want"
  /\ \E s \in Socks :
       /\ Opened(s)
       /\ conns' = [conns EXCEPT ![s] = [NewConn EXCEPT !.up = <<Frame(w)>>]]
       /\ work' = [work EXCEPT ![w].at = "wait", ![w].sock = s]
  /\ UNCHANGED <<chain, sock, lock, acts, astray>>

CallRefused(w) ==
  /\ w \in Ts /\ work[w].at = "want"
  /\ Fails(w)
  /\ UNCHANGED <<chain, conns, sock, lock, acts, astray>>

Destroy(s) == conns' = [conns EXCEPT ![s] = Tidy([@ EXCEPT !.cl = FALSE, !.down = <<>>])]

\* Anything but an error frame is the answer.
CallSettles(w) ==
  LET s == work[w].sock  a == Head(conns[s].down) IN
  /\ w \in Ts /\ work[w].at = "wait"
  /\ conns[s].down # <<>>
  /\ Destroy(s)
  /\ IF a.type # "error" THEN Returns(w, a.id) ELSE Fails(w)
  /\ UNCHANGED <<chain, sock, lock, acts, astray>>

\* The connection ends first, or 10 seconds pass.
CallFails(w) ==
  LET s == work[w].sock IN
  /\ w \in Ts /\ work[w].at = "wait"
  /\ conns[s].down = <<>>
  /\ Destroy(s)
  /\ Fails(w)
  /\ UNCHANGED <<chain, sock, lock, acts, astray>>

-----------------------------------------------------------------------------
(* Handler.Handle: one frame after the other, whoever still waits.         *)

Answered(s, type, id) ==
  conns' = [conns EXCEPT ![s].up = Tail(@), ![s].busy = <<[type |-> type, id |-> id]>>]

Serve(s) ==
  LET f == Head(conns[s].up) IN
  /\ conns[s].sv
  /\ conns[s].up # <<>> /\ conns[s].busy = <<>>
  /\ \/ /\ f.phase \in {"pre", "post"}
        /\ chain' = Append(chain, f)
        /\ Answered(s, "sign", Len(chain) + 1)
     \/ f.phase \notin {"pre", "post"} /\ Answered(s, f.phase, 0) /\ UNCHANGED chain
     \/ f.phase # "ping" /\ Answered(s, "error", 0) /\ UNCHANGED chain
  /\ UNCHANGED <<sock, lock, work, acts, astray>>

WriteAnswer_Again(s) ==
  /\ conns[s].busy # <<>>
  /\ IF conns[s].cl
     THEN /\ conns' = [conns EXCEPT ![s].down = @ \o conns[s].busy, ![s].busy = <<>>]
          /\ UNCHANGED chain
     ELSE /\ conns' = [conns EXCEPT ![s].busy = <<>>]
          /\ chain' = IF chain # <<>> THEN Append(chain, chain[Len(chain)]) ELSE chain
  /\ UNCHANGED <<sock, lock, work, acts, astray>>

\* An answer nobody can read is an error in the log.
WriteAnswer(s) ==
  /\ conns[s].busy # <<>>
  /\ conns' = [conns EXCEPT ![s].down = IF conns[s].cl THEN @ \o conns[s].busy ELSE @,
                            ![s].busy = <<>>]
  /\ UNCHANGED <<chain, sock, lock, work, acts, astray>>

\* 30 seconds without a frame, end of file, shutdown or a crash.  What was
\* written can still be read.
ServerCloses(s) ==
  /\ conns[s].sv
  /\ conns' = [conns EXCEPT ![s] = Tidy([@ EXCEPT !.sv = FALSE, !.up = <<>>, !.busy = <<>>])]
  /\ UNCHANGED <<chain, sock, lock, work, acts, astray>>

-----------------------------------------------------------------------------
\* What a call does until it ends.
CallStep(w) ==
  \/ Lock(w) \/ ConnectFails(w) \/ Send(w) \/ SendFails(w)
  \/ Read(w) \/ ReadFails(w) \/ GiveUp(w)
  \/ CallSends(w) \/ CallRefused(w) \/ CallSettles(w) \/ CallFails(w)

Next ==
  \/ \E w \in Workers : Begins(w) \/ BodyEnds(w) \/ CallStep(w)
  \/ \E s \in Socks : Serve(s) \/ WriteAnswer(s) \/ ServerCloses(s)
  \/ CloseSock

Spec == Init /\ [][Next]_vars

\* Threads and callbacks run and their timeouts expire; the daemon and the
\* traced function owe nothing.
FairSpec == Spec /\ \A w \in Workers : WF_vars(CallStep(w))

-----------------------------------------------------------------------------
(* What must hold.                                                         *)

Pre(w, act) == [agent |-> w, act |-> act, phase |-> "pre", link |-> 0]

(* A post receipt names a receipt before it, and the pre receipt of its    *)
(* own action unless that action read an answer on a connection where a    *)
(* caller had given up waiting; one that names none is TypeScript's.       *)
LinksOwnPre ==
  \A i \in DOMAIN chain : LET r == chain[i] IN
    r.phase = "post" =>
      /\ r.link < i
      /\ r.agent \in Py => r.link # 0
      /\ r.link # 0 /\ r.act \notin astray => chain[r.link] = Pre(r.agent, r.act)

(* When a wrapped function that was given a receipt id runs, that receipt  *)
(* is in the chain, and it is its own with the same exception.             *)
RecordedFirst ==
  \A w \in Workers : LET r == work[w] IN
    r.stage = "body" /\ r.id # 0 =>
      /\ r.id \in DOMAIN chain
      /\ r.act \notin astray => chain[r.id] = Pre(w, r.act)

(* No phase of an action is recorded twice, though calls give up on        *)
(* requests that the daemon serves later, and connections are replaced.    *)
RecordedOnce ==
  \A i, j \in DOMAIN chain :
    chain[i].act = chain[j].act /\ chain[i].phase = chain[j].phase => i = j

(* A call ends, even if the daemon never answers and another thread of the *)
(* program uses the socket.                                                *)
CallsEnd ==
  \A w \in Workers :
    work[w].at \in {"want", "send", "wait"} ~> work[w].at \in {"none", "run"}
=============================================================================
