--------------------------- MODULE ClientsProofs ----------------------------
(***************************************************************************)
(* Proofs about module Clients, for any number of threads, callers and     *)
(* connections: post receipts link the pre receipt of their own action, a  *)
(* wrapped function runs after its receipt is in the chain, and no phase   *)
(* of an action is recorded twice.                                         *)
(***************************************************************************)
EXTENDS Clients, TLAPS

-----------------------------------------------------------------------------
(* Types.                                                                  *)

Phases == {"snap", "pre", "post", "ping"}
Frames == [agent : Workers, act : Nat, phase : Phases, link : Nat]
Answers == [type : {"sign", "snap", "ping", "error"}, id : Nat]
Conns == [cl : BOOLEAN, sv : BOOLEAN, up : Seq(Frames), busy : Seq(Answers),
          down : Seq(Answers), left : BOOLEAN]
Recs == [stage : Phases \cup {"idle", "body"}, at : {"none", "want", "send", "wait", "run"},
         act : Nat, id : Nat, sock : Nat, silent : BOOLEAN, ran : BOOLEAN]

TypeInv ==
  /\ chain \in Seq(Frames)
  /\ conns \in [Socks -> Conns]
  /\ sock \in Socks \cup {NoSock}
  /\ lock \in Py \cup {NoWorker}
  /\ work \in [Workers -> Recs]
  /\ acts \in Nat

-----------------------------------------------------------------------------
(* What is in the chain, in the requests under way and still to be sent.   *)

Up(s) == conns[s].up

\* A receipt, or a request for one: the link of a post is a receipt that is
\* in the chain already, its own pre receipt unless the action went astray.
FrameOK(f) ==
  /\ f.act \in 1..acts
  /\ f.link <= Len(chain)
  /\ f.phase = "post" /\ f.agent \in Py => f.link # 0
  /\ f.link # 0 /\ f.act \notin astray => chain[f.link] = Pre(f.agent, f.act)

FramesInv ==
  /\ \A i \in DOMAIN chain : FrameOK(chain[i]) /\ chain[i].link < i
  /\ \A s \in Socks : \A n \in DOMAIN Up(s) : FrameOK(Up(s)[n])

\* The same phase of the same action.
Same(f, g) == f.act = g.act /\ f.phase = g.phase

UniqueInv ==
  /\ RecordedOnce
  /\ \A i \in DOMAIN chain : \A s \in Socks : \A n \in DOMAIN Up(s) : ~ Same(chain[i], Up(s)[n])
  /\ \A s, t \in Socks : \A m \in DOMAIN Up(s), n \in DOMAIN Up(t) :
       Same(Up(s)[m], Up(t)[n]) => s = t /\ m = n

\* The phases a worker with record r has not sent yet.
Later(stage) == CASE stage = "snap" -> {"pre", "post"}
                  [] stage \in {"pre", "body"} -> {"post"}
                  [] OTHER -> {}
Unsent(r) == Later(r.stage) \cup (IF r.at \in {"want", "send"} THEN {r.stage} ELSE {})
Is(f, r) == f.act = r.act /\ f.phase \in Unsent(r)

UnsentInv ==
  \A w \in Workers :
    /\ \A i \in DOMAIN chain : ~ Is(chain[i], work[w])
    /\ \A s \in Socks : \A n \in DOMAIN Up(s) : ~ Is(Up(s)[n], work[w])

LogInv == FramesInv /\ UniqueInv /\ UnsentInv

-----------------------------------------------------------------------------
(* What a worker knows.                                                    *)

\* With the chain ch, the actions st astray and n of them begun.
RecAt(w, r, ch, st, n) ==
  /\ r.act \in 0..n
  /\ r.stage # "idle" => r.act # 0
  /\ r.at \in {"want", "send", "wait"} => r.stage \in Phases
  /\ w \in Py => ~ r.ran
  /\ r.id <= Len(ch)
  /\ r.stage \in {"body", "post"} /\ r.id # 0 /\ r.act \notin st => ch[r.id] = Pre(w, r.act)
  /\ r.stage = "post" /\ w \in Py => r.id # 0

RecOK(w, r) == RecAt(w, r, chain, astray, acts)

WorkInv ==
  /\ \A w \in Workers : RecOK(w, work[w])
  /\ \A v, w \in Workers : work[v].act = work[w].act /\ work[v].act # 0 => v = w

\* Who holds _lock, and whose connection is whose.
HoldOK(w) ==
  /\ work[w].at = "send" => w \in Py
  /\ w \in Py /\ work[w].at \in {"send", "wait"} =>
       lock = w /\ sock = work[w].sock /\ sock # NoSock
  /\ w \in Ts /\ work[w].at = "wait" =>
       LET s == work[w].sock IN s \in Socks /\ s # sock /\ conns[s].cl /\ ~ conns[s].left

HoldInv ==
  /\ \A w \in Workers : HoldOK(w)
  /\ \A v, w \in Ts :
       work[v].at = "wait" /\ work[w].at = "wait" /\ work[v].sock = work[w].sock => v = w
  /\ sock # NoSock => conns[sock].cl

-----------------------------------------------------------------------------
(* What is under way on a connection.                                      *)

AnswerOK(a) == a.id <= Len(chain) /\ (a.type = "sign" <=> a.id # 0)

ConnOK(c) ==
  /\ ~ c.sv => c.up = <<>> /\ c.busy = <<>>
  /\ Len(c.busy) <= 1
  /\ \A n \in DOMAIN c.busy : AnswerOK(c.busy[n])
  /\ \A n \in DOMAIN c.down : AnswerOK(c.down[n])

ConnInv == \A s \in Socks : ConnOK(conns[s])

WaitsOn(w, s) == work[w].at = "wait" /\ work[w].sock = s
Load(c) == Len(c.up) + Len(c.busy) + Len(c.down)

\* An answer to the frame the worker has sent.
Right(w, a) == a.type = "sign" => chain[a.id] = Frame(w)

Owned(w, c) ==
  /\ \A n \in DOMAIN c.up : c.up[n] = Frame(w)
  /\ \A n \in DOMAIN c.busy : Right(w, c.busy[n])
  /\ \A n \in DOMAIN c.down : Right(w, c.down[n])

\* On a connection where nobody gave up there is one request, or its answer,
\* of the one who waits.
MatchOK(s) ==
  conns[s].cl /\ ~ conns[s].left =>
    /\ Load(conns[s]) <= 1
    /\ Load(conns[s]) # 0 => \E w \in Workers : WaitsOn(w, s)
    /\ \A w \in Workers : WaitsOn(w, s) => Owned(w, conns[s])

MatchInv == \A s \in Socks : MatchOK(s)

ClientsInv == TypeInv /\ LogInv /\ WorkInv /\ HoldInv /\ ConnInv /\ MatchInv

-----------------------------------------------------------------------------
(* The chain grows, and what was known of it stays known.                  *)

Grows ==
  /\ chain' \in Seq(Frames) /\ acts' \in Nat
  /\ Len(chain) <= Len(chain')
  /\ \A j \in 1..Len(chain) : chain'[j] = chain[j]
  /\ acts <= acts' /\ astray \subseteq astray'

\* What the constants are.
LEMMA Constants ==
  NoWorker \notin Py /\ Py \cap Ts = {} /\ MaxSocks \in Nat /\ NoSock \notin Socks
<1>1. NoWorker \notin Py /\ Py \cap Ts = {} /\ MaxSocks \in Nat
  BY ClientsAssumption DEF ClientsAssumption
<1>2. NoSock \notin Socks
  BY <1>1, SMTT(30) DEF NoSock, Socks
<1> QED  BY <1>1, <1>2

\* A sequence, its domain and its elements.
LEMMA SeqLen ==
  ASSUME NEW S, NEW q \in Seq(S)
  PROVE  Len(q) \in Nat /\ DOMAIN q = 1..Len(q) /\ \A n \in 1..Len(q) : q[n] \in S
BY SMTT(30)

\* The empty sequence is the one of length 0.
LEMMA SeqEmpty ==
  ASSUME NEW S, NEW q \in Seq(S)
  PROVE  q = <<>> <=> Len(q) = 0
BY SMTT(30)

\* A sequence with one more element.
LEMMA SeqAppend ==
  ASSUME NEW S, NEW q \in Seq(S), NEW e \in S
  PROVE  /\ Append(q, e) \in Seq(S) /\ Len(Append(q, e)) = Len(q) + 1
         /\ \A n \in 1..Len(q) : Append(q, e)[n] = q[n]
         /\ Append(q, e)[Len(q) + 1] = e
BY SMTT(30)

\* One sequence after another.
LEMMA SeqConcat ==
  ASSUME NEW S, NEW p \in Seq(S), NEW q \in Seq(S)
  PROVE  /\ p \o q \in Seq(S) /\ Len(p \o q) = Len(p) + Len(q)
         /\ \A n \in 1..(Len(p) + Len(q)) :
              (p \o q)[n] = IF n <= Len(p) THEN p[n] ELSE q[n - Len(p)]
BY SMTT(30)

\* The chain is a sequence.
LEMMA Lengths ==
  ASSUME TypeInv
  PROVE  Len(chain) \in Nat /\ DOMAIN chain = 1..Len(chain)
BY SeqLen DEF TypeInv

\* A step that leaves the chain alone.
LEMMA GrowsSame ==
  ASSUME TypeInv, chain' = chain, acts' \in {acts, acts + 1}, astray \subseteq astray'
  PROVE  Grows
<1>1. Len(chain) \in Nat /\ acts \in Nat
  BY Lengths DEF TypeInv
<1>2. Len(chain) <= Len(chain') /\ acts <= acts' /\ acts' \in Nat
  BY <1>1, SMTT(30)
<1> QED  BY <1>2 DEF Grows, TypeInv

\* Numbers of receipts and actions stay in range.
LEMMA InRange ==
  ASSUME TypeInv, Grows
  PROVE  /\ \A n \in Nat : n <= Len(chain) => n <= Len(chain')
         /\ \A n \in Nat : n <= Len(chain) /\ n # 0 => chain'[n] = chain[n]
         /\ \A n \in 0..acts : n \in 0..acts'
         /\ \A n \in 1..acts : n \in 1..acts'
<1>1. Len(chain) \in Nat /\ acts \in Nat
  BY Lengths DEF TypeInv
<1>2. Len(chain') \in Nat /\ acts' \in Nat
  BY SeqLen DEF Grows
<1>3. Len(chain) <= Len(chain') /\ acts <= acts' /\ \A j \in 1..Len(chain) : chain'[j] = chain[j]
  BY DEF Grows
<1>4. ASSUME NEW n \in Nat, n <= Len(chain)
      PROVE  n <= Len(chain') /\ (n # 0 => n \in 1..Len(chain))
  BY <1>1, <1>2, <1>3, <1>4, SMTT(30)
<1>5. (\A n \in 0..acts : n \in 0..acts') /\ (\A n \in 1..acts : n \in 1..acts')
  BY <1>1, <1>2, <1>3, SMTT(30)
<1> QED  BY <1>3, <1>4, <1>5, ZenonT(30)

\* A frame stays well formed.
LEMMA FrameGrows ==
  ASSUME TypeInv, Grows, NEW f \in Frames, FrameOK(f)
  PROVE  FrameOK(f)'
<1>1. f.link \in Nat
  BY DEF Frames
<1>2. f.link <= Len(chain') /\ f.act \in 1..acts' /\ (f.link # 0 => chain'[f.link] = chain[f.link])
  BY <1>1, InRange, ZenonT(30) DEF FrameOK
<1>3. f.act \notin astray' => f.act \notin astray
  BY DEF Grows
<1> QED  BY <1>2, <1>3, ZenonT(30) DEF FrameOK, Pre

\* What a worker knows stays true.
LEMMA RecGrows ==
  ASSUME TypeInv, Grows, NEW w \in Workers, NEW r \in Recs, RecOK(w, r)
  PROVE  RecOK(w, r)'
<1>1. r.id \in Nat
  BY DEF Recs
<1>2. r.id <= Len(chain') /\ r.act \in 0..acts' /\ (r.id # 0 => chain'[r.id] = chain[r.id])
  BY <1>1, InRange, ZenonT(30) DEF RecOK, RecAt
<1>3. r.act \notin astray' => r.act \notin astray
  BY DEF Grows
<1> QED  BY <1>2, <1>3, ZenonT(30) DEF RecOK, RecAt, Pre

\* An answer stays well formed.
LEMMA AnswerGrows ==
  ASSUME TypeInv, Grows, NEW a \in Answers, AnswerOK(a)
  PROVE  AnswerOK(a)'
<1>1. a.id \in Nat
  BY DEF Answers
<1> QED  BY <1>1, InRange, ZenonT(30) DEF AnswerOK

\* Sequences and their elements.
LEMMA Queue ==
  ASSUME NEW S, NEW q \in Seq(S)
  PROVE  Len(q) \in Nat /\ DOMAIN q = 1..Len(q) /\ \A n \in DOMAIN q : n \in Nat /\ n > 0 /\ q[n] \in S
<1>1. Len(q) \in Nat /\ DOMAIN q = 1..Len(q)
  BY SeqLen
<1>2. \A n \in 1..Len(q) : q[n] \in S
  BY SeqLen
<1>3. \A n \in 1..Len(q) : n \in Nat /\ n > 0
  BY <1>1, SMTT(30)
<1> QED  BY <1>1, <1>2, <1>3

\* The types of a connection.
LEMMA Queues ==
  ASSUME NEW c \in Conns
  PROVE  /\ c.up \in Seq(Frames) /\ c.busy \in Seq(Answers) /\ c.down \in Seq(Answers)
         /\ c.cl \in BOOLEAN /\ c.sv \in BOOLEAN /\ c.left \in BOOLEAN
BY SMTT(30) DEF Conns

\* The types of receipts and requests.
LEMMA Elements ==
  ASSUME TypeInv
  PROVE  /\ \A i \in DOMAIN chain : chain[i] \in Frames
         /\ \A s \in Socks : conns[s] \in Conns /\ Up(s) \in Seq(Frames)
         /\ \A s \in Socks : \A n \in DOMAIN Up(s) : Up(s)[n] \in Frames
<1>1. \A i \in DOMAIN chain : chain[i] \in Frames
  BY Queue DEF TypeInv
<1>2. \A s \in Socks : conns[s] \in Conns
  BY DEF TypeInv
<1>3. \A s \in Socks : Up(s) \in Seq(Frames)
  BY <1>2, Queues DEF Up
<1>4. \A s \in Socks : \A n \in DOMAIN Up(s) : Up(s)[n] \in Frames
  BY <1>3, Queue
<1> QED  BY <1>1, <1>2, <1>3, <1>4

-----------------------------------------------------------------------------
(* What steps do to requests and receipts.                                 *)

\* Queues of requests lose frames at the head only.
Drains ==
  \E k \in [Socks -> Nat] : \A s \in Socks : \A n \in DOMAIN Up(s)' :
    n + k[s] \in DOMAIN Up(s) /\ Up(s)'[n] = Up(s)[n + k[s]]

\* Queues that are kept or emptied.
LEMMA DrainsSame ==
  ASSUME TypeInv, \A s \in Socks : Up(s)' = Up(s) \/ Up(s)' = <<>>
  PROVE  Drains
<1> DEFINE k == [s \in Socks |-> 0]
<1>1. k \in [Socks -> Nat]
  OBVIOUS
<1>2. ASSUME NEW s \in Socks, NEW n \in DOMAIN Up(s)'
      PROVE  n + k[s] \in DOMAIN Up(s) /\ Up(s)'[n] = Up(s)[n + k[s]]
  <2>1. Up(s)' # <<>>
    BY <1>2, SMTT(30)
  <2>2. Up(s)' = Up(s)
    BY <2>1
  <2>3. n \in Nat
    <3>1. Up(s) \in Seq(Frames)
      BY Elements
    <3> QED  BY <1>2, <2>2, <3>1, Queue
  <2>4. n + k[s] = n
    BY <2>3, SMTT(30)
  <2> QED  BY <1>2, <2>2, <2>4
<1> QED  BY <1>1, <1>2, ZenonT(30) DEF Drains

\* A worker has ended, begun a new action, or has no more to send than before.
Moved(w) ==
  \/ work'[w].act = 0
  \/ work'[w].act = acts + 1
  \/ work'[w].act = work[w].act /\ Unsent(work'[w]) \subseteq Unsent(work[w])

\* Then a frame it had no more to send is one it has no more to send.
LEMMA NotIs ==
  ASSUME TypeInv, NEW w \in Workers, Moved(w), NEW f, FrameOK(f), ~ Is(f, work[w])
  PROVE  ~ Is(f, work'[w])
<1>1. f.act # 0 /\ f.act # acts + 1
  BY SMTT(30) DEF FrameOK, TypeInv
<1> QED  BY <1>1, ZenonT(30) DEF Moved, Is

\* Frames are dropped, answered without a receipt, or nothing happens to them.
LEMMA LogDrains ==
  ASSUME TypeInv, TypeInv', LogInv, Grows, chain' = chain, Drains, \A w \in Workers : Moved(w)
  PROVE  LogInv'
<1>1. PICK k \in [Socks -> Nat] : \A s \in Socks : \A n \in DOMAIN Up(s)' :
        n + k[s] \in DOMAIN Up(s) /\ Up(s)'[n] = Up(s)[n + k[s]]
  BY DEF Drains
<1>2. FramesInv /\ UniqueInv /\ UnsentInv
  BY DEF LogInv
<1>3. FramesInv'
  <2>1. ASSUME NEW i \in DOMAIN chain'  PROVE FrameOK(chain[i])' /\ chain'[i].link < i
    <3>1. i \in DOMAIN chain /\ chain[i] \in Frames /\ FrameOK(chain[i]) /\ chain[i].link < i
      BY <1>2, <2>1, Elements DEF FramesInv
    <3>2. PICK f \in Frames : f = chain[i]
      BY <3>1
    <3>3. FrameOK(f)'
      BY <3>1, <3>2, FrameGrows
    <3> QED  BY <3>1, <3>2, <3>3
  <2>2. ASSUME NEW s \in Socks, NEW n \in DOMAIN Up(s)'  PROVE FrameOK(Up(s)[n])'
    <3>1. PICK f : f = Up(s)[n + k[s]]
      OBVIOUS
    <3>2. f \in Frames /\ FrameOK(f) /\ Up(s)'[n] = f
      BY <1>1, <1>2, <3>1, Elements DEF FramesInv
    <3>3. FrameOK(f)'
      BY <3>2, FrameGrows
    <3> QED  BY <3>2, <3>3
  <2> QED  BY <2>1, <2>2, ZenonT(30) DEF FramesInv
<1>4. UniqueInv'
  <2>1. RecordedOnce'
    BY <1>2, ZenonT(30) DEF UniqueInv, RecordedOnce
  <2>2. ASSUME NEW i \in DOMAIN chain', NEW s \in Socks, NEW n \in DOMAIN Up(s)'
        PROVE  ~ Same(chain'[i], Up(s)'[n])
    BY <1>1, <1>2, ZenonT(30) DEF UniqueInv
  <2>3. ASSUME NEW s \in Socks, NEW t \in Socks, NEW m \in DOMAIN Up(s)', NEW n \in DOMAIN Up(t)',
               Same(Up(s)'[m], Up(t)'[n])
        PROVE  s = t /\ m = n
    <3>1. s = t /\ m + k[s] = n + k[t]
      BY <1>1, <1>2, <2>3, ZenonT(30) DEF UniqueInv
    <3>2. m \in Nat /\ n \in Nat
      <4>1. conns'[s] \in Conns /\ conns'[t] \in Conns
        BY DEF TypeInv
      <4>2. Up(s)' \in Seq(Frames) /\ Up(t)' \in Seq(Frames)
        BY <4>1, Queues DEF Up
      <4> QED  BY <2>3, <4>2, Queue
    <3>3. k[s] \in Nat
      BY <1>1
    <3>4. m = n
      BY <3>1, <3>2, <3>3, SMTT(30)
    <3> QED  BY <3>1, <3>4
  <2> QED  BY <2>1, <2>2, <2>3, ZenonT(30) DEF UniqueInv
<1>5. UnsentInv'
  <2> SUFFICES ASSUME NEW w \in Workers
               PROVE  /\ \A i \in DOMAIN chain' : ~ Is(chain'[i], work'[w])
                      /\ \A s \in Socks : \A n \in DOMAIN Up(s)' : ~ Is(Up(s)'[n], work'[w])
    BY ZenonT(30) DEF UnsentInv
  <2>1. ASSUME NEW i \in DOMAIN chain  PROVE ~ Is(chain[i], work'[w])
    BY <1>2, <2>1, NotIs DEF FramesInv, UnsentInv
  <2>2. ASSUME NEW s \in Socks, NEW n \in DOMAIN Up(s)'  PROVE ~ Is(Up(s)'[n], work'[w])
    <3>1. n + k[s] \in DOMAIN Up(s) /\ Up(s)'[n] = Up(s)[n + k[s]]
      BY <1>1
    <3>2. FrameOK(Up(s)[n + k[s]]) /\ ~ Is(Up(s)[n + k[s]], work[w])
      BY <1>2, <3>1, ZenonT(30) DEF FramesInv, UnsentInv
    <3>3. ~ Is(Up(s)[n + k[s]], work'[w])
      BY <3>2, NotIs
    <3> QED  BY <3>1, <3>3
  <2> QED  BY <2>1, <2>2
<1> QED  BY <1>3, <1>4, <1>5 DEF LogInv

\* A worker sends the frame of a phase it had not sent.
LEMMA LogSends ==
  ASSUME TypeInv, TypeInv', LogInv, WorkInv, Grows, chain' = chain,
         NEW w \in Workers, NEW s \in Socks, NEW f \in Frames,
         Up(s)' = Append(Up(s), f), \A t \in Socks : t # s => Up(t)' = Up(t),
         f.act = work[w].act, f.phase = work[w].stage, FrameOK(f),
         work[w].stage \in Unsent(work[w]), work[w].stage \notin Unsent(work'[w]),
         \A v \in Workers : v # w => work'[v] = work[v],
         Moved(w)
  PROVE  LogInv'
<1>1. FramesInv /\ UniqueInv /\ UnsentInv
  BY DEF LogInv
<1>2. Up(s) \in Seq(Frames) /\ Len(Up(s)) \in Nat
  BY Elements, Queue
<1>3. ASSUME NEW t \in Socks, NEW n \in DOMAIN Up(t)'
      PROVE  \/ t = s /\ n = Len(Up(s)) + 1 /\ Up(t)'[n] = f
             \/ n \in DOMAIN Up(t) /\ Up(t)'[n] = Up(t)[n]
  <2>1. CASE t # s
    BY <1>3, <2>1
  <2>2. CASE t = s
    <3>1. /\ Append(Up(s), f) \in Seq(Frames) /\ Len(Append(Up(s), f)) = Len(Up(s)) + 1
          /\ \A i \in 1..Len(Up(s)) : Append(Up(s), f)[i] = Up(s)[i]
          /\ Append(Up(s), f)[Len(Up(s)) + 1] = f
      BY <1>2, SeqAppend
    <3>2. DOMAIN Append(Up(s), f) = 1..(Len(Up(s)) + 1) /\ DOMAIN Up(s) = 1..Len(Up(s))
      BY <1>2, <3>1, Queue
    <3>3. n \in 1..(Len(Up(s)) + 1)
      BY <1>3, <2>2, <3>2
    <3>4. n = Len(Up(s)) + 1 \/ n \in 1..Len(Up(s))
      BY <1>2, <3>3, SMTT(30)
    <3> QED  BY <2>2, <3>1, <3>2, <3>4
  <2> QED  BY <2>1, <2>2
<1>4. Is(f, work[w])
  BY DEF Is
<1>5. /\ \A i \in DOMAIN chain : ~ Same(chain[i], f) /\ ~ Same(f, chain[i])
      /\ \A t \in Socks : \A n \in DOMAIN Up(t) : ~ Same(Up(t)[n], f) /\ ~ Same(f, Up(t)[n])
  BY <1>1, <1>4, ZenonT(30) DEF UnsentInv, Is, Same
<1>6. FrameOK(f)'
  BY FrameGrows
<1>7. FramesInv'
  <2>1. ASSUME NEW i \in DOMAIN chain'  PROVE FrameOK(chain[i])' /\ chain'[i].link < i
    <3>1. i \in DOMAIN chain /\ chain[i] \in Frames /\ FrameOK(chain[i]) /\ chain[i].link < i
      BY <1>1, <2>1, Elements DEF FramesInv
    <3>2. PICK g \in Frames : g = chain[i]
      BY <3>1
    <3>3. FrameOK(g)'
      BY <3>1, <3>2, FrameGrows
    <3> QED  BY <3>1, <3>2, <3>3
  <2>2. ASSUME NEW t \in Socks, NEW n \in DOMAIN Up(t)'  PROVE FrameOK(Up(t)[n])'
    <3>1. CASE Up(t)'[n] = f
      BY <1>6, <3>1
    <3>2. CASE Up(t)'[n] # f
      <4>1. n \in DOMAIN Up(t) /\ Up(t)'[n] = Up(t)[n]
        BY <1>3, <3>2
      <4>2. PICK g : g = Up(t)[n]
        OBVIOUS
      <4>3. g \in Frames /\ FrameOK(g)
        BY <1>1, <4>1, <4>2, Elements DEF FramesInv
      <4>4. FrameOK(g)'
        BY <4>3, FrameGrows
      <4> QED  BY <4>1, <4>2, <4>4
    <3> QED  BY <3>1, <3>2
  <2> QED  BY <2>1, <2>2, ZenonT(30) DEF FramesInv
<1>8. UniqueInv'
  <2>1. RecordedOnce'
    BY <1>1, ZenonT(30) DEF UniqueInv, RecordedOnce
  <2>2. ASSUME NEW i \in DOMAIN chain', NEW t \in Socks, NEW n \in DOMAIN Up(t)'
        PROVE  ~ Same(chain'[i], Up(t)'[n])
    <3>1. i \in DOMAIN chain /\ chain'[i] = chain[i]
      BY <1>1, <2>2, ZenonT(30)
    <3>2. CASE n \in DOMAIN Up(t) /\ Up(t)'[n] = Up(t)[n]
      BY <1>1, <3>1, <3>2, ZenonT(30) DEF UniqueInv
    <3>3. CASE Up(t)'[n] = f
      BY <1>5, <3>1, <3>3, ZenonT(30)
    <3> QED  BY <1>3, <2>2, <3>2, <3>3, ZenonT(30)
  <2>3. ASSUME NEW r \in Socks, NEW t \in Socks, NEW m \in DOMAIN Up(r)', NEW n \in DOMAIN Up(t)',
               Same(Up(r)'[m], Up(t)'[n])
        PROVE  r = t /\ m = n
    <3>1. \/ r = s /\ m = Len(Up(s)) + 1 /\ Up(r)'[m] = f
          \/ m \in DOMAIN Up(r) /\ Up(r)'[m] = Up(r)[m]
      BY <1>3
    <3>2. \/ t = s /\ n = Len(Up(s)) + 1 /\ Up(t)'[n] = f
          \/ n \in DOMAIN Up(t) /\ Up(t)'[n] = Up(t)[n]
      BY <1>3
    <3>3. CASE Up(r)'[m] = f /\ Up(t)'[n] = f
      <4>1. ~ (m \in DOMAIN Up(r) /\ Up(r)'[m] = Up(r)[m]) /\ ~ (n \in DOMAIN Up(t) /\ Up(t)'[n] = Up(t)[n])
        BY <1>5, <3>3 DEF Same
      <4> QED  BY <3>1, <3>2, <4>1
    <3>4. CASE Up(r)'[m] # f /\ Up(t)'[n] # f
      <4>1. m \in DOMAIN Up(r) /\ n \in DOMAIN Up(t) /\ Same(Up(r)[m], Up(t)[n])
        BY <2>3, <3>1, <3>2, <3>4
      <4> QED  BY <1>1, <4>1 DEF UniqueInv
    <3>5. CASE Up(r)'[m] = f /\ Up(t)'[n] # f
      <4>1. n \in DOMAIN Up(t) /\ Same(f, Up(t)[n])
        BY <2>3, <3>2, <3>5
      <4> QED  BY <1>5, <4>1
    <3>6. CASE Up(r)'[m] # f /\ Up(t)'[n] = f
      <4>1. m \in DOMAIN Up(r) /\ Same(Up(r)[m], f)
        BY <2>3, <3>1, <3>6
      <4> QED  BY <1>5, <4>1
    <3> QED  BY <3>3, <3>4, <3>5, <3>6
  <2> QED  BY <2>1, <2>2, <2>3, ZenonT(30) DEF UniqueInv
<1>9. UnsentInv'
  <2> SUFFICES ASSUME NEW v \in Workers
               PROVE  /\ \A i \in DOMAIN chain' : ~ Is(chain'[i], work'[v])
                      /\ \A t \in Socks : \A n \in DOMAIN Up(t)' : ~ Is(Up(t)'[n], work'[v])
    BY ZenonT(30) DEF UnsentInv
  <2>0. Moved(v)
    BY DEF Moved
  <2>1. ASSUME NEW i \in DOMAIN chain  PROVE ~ Is(chain[i], work'[v])
    BY <1>1, <2>0, <2>1, NotIs DEF FramesInv, UnsentInv
  <2>2. ASSUME NEW t \in Socks, NEW n \in DOMAIN Up(t)  PROVE ~ Is(Up(t)[n], work'[v])
    BY <1>1, <2>0, <2>2, NotIs DEF FramesInv, UnsentInv
  <2>3. ~ Is(f, work'[v])
    <3>1. CASE v = w
      BY <3>1 DEF Is
    <3>2. CASE v # w
      <4>1. f.act # 0
        BY SMTT(30) DEF FrameOK, TypeInv
      <4>2. work[v].act # f.act
        BY <3>2, <4>1, ZenonT(30) DEF WorkInv
      <4> QED  BY <3>2, <4>2 DEF Is
    <3> QED  BY <3>1, <3>2
  <2> QED  BY <1>3, <2>1, <2>2, <2>3, ZenonT(30)
<1> QED  BY <1>7, <1>8, <1>9 DEF LogInv

\* The daemon appends the receipt the oldest frame of a connection asks for.
LEMMA LogServes ==
  ASSUME TypeInv, TypeInv', LogInv, NEW s \in Socks, Up(s) # <<>>,
         chain' = Append(chain, Head(Up(s))), Up(s)' = Tail(Up(s)),
         \A t \in Socks : t # s => Up(t)' = Up(t),
         work' = work, acts' = acts, astray' = astray
  PROVE  LogInv' /\ Grows
<1>1. FramesInv /\ UniqueInv /\ UnsentInv
  BY DEF LogInv
<1> DEFINE u == Up(s)
           f == Head(Up(s))
           l == Len(chain)
<1>2. u \in Seq(Frames) /\ Len(u) \in Nat /\ u # <<>>
  BY Elements, Queue
<1>3. 1 \in DOMAIN u /\ f = u[1] /\ f \in Frames
  <2>1. Len(u) # 0
    BY <1>2, SeqEmpty, SMTT(30)
  <2>2. DOMAIN u = 1..Len(u)
    BY <1>2, Queue
  <2>3. 1 \in DOMAIN u
    BY <1>2, <2>1, <2>2, SMTT(30)
  <2>4. f = u[1]
    BY <1>2, SMTT(30)
  <2> QED  BY <1>2, <2>3, <2>4, Queue
<1>4. /\ Len(Tail(u)) = Len(u) - 1
      /\ \A n \in DOMAIN Tail(u) : n \in Nat /\ n + 1 \in DOMAIN u /\ n + 1 # 1 /\ Tail(u)[n] = u[n + 1]
  BY <1>2, SMTT(30)
<1>5. l \in Nat /\ chain \in Seq(Frames)
  BY Lengths DEF TypeInv
<1> HIDE DEF f, u, l
<1>6. /\ Len(chain') = l + 1 /\ chain' \in Seq(Frames)
      /\ \A i \in 1..l : chain'[i] = chain[i]
      /\ chain'[l + 1] = f
  BY <1>3, <1>5, SeqAppend DEF f, l
<1>7. DOMAIN chain' = 1..(l + 1) /\ DOMAIN chain = 1..l
  BY <1>5, <1>6, Queue DEF l
<1>8. ASSUME NEW i \in DOMAIN chain'
      PROVE  \/ i = l + 1 /\ chain'[i] = f
             \/ i \in DOMAIN chain /\ chain'[i] = chain[i]
  <2>1. i = l + 1 \/ i \in 1..l
    BY <1>5, <1>7, <1>8, SMTT(30)
  <2> QED  BY <1>6, <1>7, <2>1
<1>9. Grows
  <2>1. l <= l + 1 /\ acts <= acts
    BY <1>5, SMTT(30) DEF TypeInv
  <2> QED  BY <1>6, <2>1 DEF Grows, l, TypeInv
<1>10. ASSUME NEW t \in Socks, NEW n \in DOMAIN Up(t)'
       PROVE  \E m \in DOMAIN Up(t) :
                /\ Up(t)'[n] = Up(t)[m] /\ (t = s => m # 1)
                /\ n \in Nat /\ m = IF t = s THEN n + 1 ELSE n
  <2>1. CASE t = s
    BY <1>4, <1>10, <2>1 DEF u
  <2>2. CASE t # s
    <3>1. Up(t) \in Seq(Frames) /\ Up(t)' = Up(t)
      BY <2>2, Elements
    <3>2. n \in Nat
      BY <1>10, <3>1, Queue
    <3> QED  BY <1>10, <2>2, <3>1, <3>2
  <2> QED  BY <2>1, <2>2
<1>11. /\ FrameOK(f) /\ f.link < l + 1
  <2>1. FrameOK(f)
    BY <1>1, <1>3, ZenonT(30) DEF FramesInv, u
  <2>2. f.link \in Nat /\ f.link <= l
    BY <1>3, <2>1 DEF FrameOK, Frames, l
  <2> QED  BY <1>5, <2>1, <2>2, SMTT(30)
<1>12. FramesInv'
  <2>1. ASSUME NEW i \in DOMAIN chain'  PROVE FrameOK(chain[i])' /\ chain'[i].link < i
    <3>1. PICK g : g = chain'[i]
      OBVIOUS
    <3>2. g \in Frames /\ FrameOK(g) /\ g.link < i
      BY <1>1, <1>3, <1>8, <1>11, <3>1, Elements, ZenonT(30) DEF FramesInv
    <3>3. FrameOK(g)'
      BY <1>9, <3>2, FrameGrows
    <3> QED  BY <3>1, <3>2, <3>3
  <2>2. ASSUME NEW t \in Socks, NEW n \in DOMAIN Up(t)'  PROVE FrameOK(Up(t)[n])'
    <3>1. PICK g : g = Up(t)'[n]
      OBVIOUS
    <3>2. g \in Frames /\ FrameOK(g)
      BY <1>1, <1>10, <3>1, Elements, ZenonT(30) DEF FramesInv
    <3>3. FrameOK(g)'
      BY <1>9, <3>2, FrameGrows
    <3> QED  BY <3>1, <3>3
  <2> QED  BY <2>1, <2>2, ZenonT(30) DEF FramesInv
<1>13. /\ \A i \in DOMAIN chain : ~ Same(chain[i], f) /\ ~ Same(f, chain[i])
       /\ \A t \in Socks : \A n \in DOMAIN Up(t) : Same(f, Up(t)[n]) => t = s /\ n = 1
  <2>1. \A i \in DOMAIN chain : ~ Same(chain[i], f)
    BY <1>1, <1>3, ZenonT(30) DEF UniqueInv, u
  <2>2. \A t \in Socks : \A n \in DOMAIN Up(t) : Same(f, Up(t)[n]) => t = s /\ n = 1
    BY <1>1, <1>3, ZenonT(30) DEF UniqueInv, u
  <2> QED  BY <2>1, <2>2, ZenonT(30) DEF Same
<1>14. UniqueInv'
  <2>1. RecordedOnce'
    <3> SUFFICES ASSUME NEW i \in DOMAIN chain', NEW j \in DOMAIN chain', Same(chain'[i], chain'[j])
                 PROVE  i = j
      BY ZenonT(30) DEF RecordedOnce, Same
    <3>1. \/ i = l + 1 /\ chain'[i] = f
          \/ i \in DOMAIN chain /\ chain'[i] = chain[i]
      BY <1>8
    <3>2. \/ j = l + 1 /\ chain'[j] = f
          \/ j \in DOMAIN chain /\ chain'[j] = chain[j]
      BY <1>8
    <3>3. \A a, b \in DOMAIN chain : Same(chain[a], chain[b]) => a = b
      BY <1>1 DEF UniqueInv, RecordedOnce, Same
    <3> QED  BY <1>13, <3>1, <3>2, <3>3, ZenonT(30)
  <2>2. ASSUME NEW i \in DOMAIN chain', NEW t \in Socks, NEW n \in DOMAIN Up(t)'
        PROVE  ~ Same(chain'[i], Up(t)'[n])
    <3>1. PICK m \in DOMAIN Up(t) : Up(t)'[n] = Up(t)[m] /\ (t = s => m # 1)
      BY <1>10
    <3>2. CASE i \in DOMAIN chain /\ chain'[i] = chain[i]
      <4>1. ~ Same(chain[i], Up(t)[m])
        BY <1>1, <3>1, <3>2, ZenonT(30) DEF UniqueInv
      <4> QED  BY <3>1, <3>2, <4>1
    <3>3. CASE chain'[i] = f
      BY <1>13, <3>1, <3>3, ZenonT(30)
    <3> QED  BY <1>8, <2>2, <3>2, <3>3, ZenonT(30)
  <2>3. ASSUME NEW r \in Socks, NEW t \in Socks, NEW m \in DOMAIN Up(r)', NEW n \in DOMAIN Up(t)',
               Same(Up(r)'[m], Up(t)'[n])
        PROVE  r = t /\ m = n
    <3>1. PICK a \in DOMAIN Up(r) : Up(r)'[m] = Up(r)[a] /\ m \in Nat /\ a = IF r = s THEN m + 1 ELSE m
      BY <1>10
    <3>2. PICK b \in DOMAIN Up(t) : Up(t)'[n] = Up(t)[b] /\ n \in Nat /\ b = IF t = s THEN n + 1 ELSE n
      BY <1>10
    <3>3. r = t /\ a = b
      <4>1. Same(Up(r)[a], Up(t)[b])
        BY <2>3, <3>1, <3>2
      <4> QED  BY <1>1, <4>1 DEF UniqueInv
    <3>4. m = n
      BY <3>1, <3>2, <3>3, SMTT(30)
    <3> QED  BY <3>3, <3>4
  <2> QED  BY <2>1, <2>2, <2>3, ZenonT(30) DEF UniqueInv
<1>15. UnsentInv'
  <2> SUFFICES ASSUME NEW v \in Workers
               PROVE  /\ \A i \in DOMAIN chain' : ~ Is(chain'[i], work[v])
                      /\ \A t \in Socks : \A n \in DOMAIN Up(t)' : ~ Is(Up(t)'[n], work[v])
    BY ZenonT(30) DEF UnsentInv
  <2>1. ~ Is(f, work[v])
    BY <1>1, <1>3, ZenonT(30) DEF UnsentInv, u
  <2>2. \A i \in DOMAIN chain' : ~ Is(chain'[i], work[v])
    BY <1>1, <1>8, <2>1, ZenonT(30) DEF UnsentInv
  <2>3. \A t \in Socks : \A n \in DOMAIN Up(t)' : ~ Is(Up(t)'[n], work[v])
    BY <1>1, <1>10, ZenonT(30) DEF UnsentInv
  <2> QED  BY <2>2, <2>3
<1> QED  BY <1>9, <1>12, <1>14, <1>15 DEF LogInv

-----------------------------------------------------------------------------
(* What a worker goes on with.                                             *)

\* A worker that does nothing.
LEMMA IdleRec ==
  /\ Idle \in Recs /\ Idle.stage = "idle" /\ Idle.at = "none" /\ Idle.act = 0 /\ Idle.id = 0 /\ ~ Idle.ran
BY SMTT(30) DEF Idle, Recs, Phases, NoSock

\* The next stage.
LEMMA StageRec ==
  ASSUME NEW r \in Recs, NEW p \in Phases
  PROVE  /\ Stage(r, p) \in Recs /\ Stage(r, p).stage = p /\ Stage(r, p).at = "want"
         /\ Stage(r, p).act = r.act /\ Stage(r, p).id = r.id /\ Stage(r, p).ran = r.ran
<1>0. PICK x : x = Stage(r, p)
  OBVIOUS
<1>1. x = [r EXCEPT !.stage = p, !.at = "want", !.sock = 0]
  BY <1>0 DEF Stage, NoSock
<1>2. x \in Recs
  <2>1. 0 \in Nat
    OBVIOUS
  <2> QED  BY <1>1, <2>1, ZenonT(30) DEF Recs
<1>3. x.stage = p /\ x.at = "want" /\ x.act = r.act /\ x.id = r.id
  BY <1>1, SMTT(30) DEF Recs
<1>4. x.ran = r.ran
  BY <1>1, ZenonT(30) DEF Recs
<1> QED  BY <1>0, <1>2, <1>3, <1>4

\* An error that was dropped.
LEMMA SilentRec ==
  ASSUME NEW r \in Recs, NEW x, x = [r EXCEPT !.silent = TRUE]
  PROVE  x \in Recs /\ x.stage = r.stage /\ x.act = r.act /\ x.id = r.id /\ x.ran = r.ran
<1>1. x \in Recs
  BY ZenonT(30) DEF Recs
<1>2. x.stage = r.stage /\ x.act = r.act /\ x.id = r.id /\ x.ran = r.ran
  BY ZenonT(30) DEF Recs
<1> QED  BY <1>1, <1>2

\* The id of the pre receipt.
LEMMA IdRec ==
  ASSUME NEW r \in Recs, NEW id \in Nat, NEW x, x = [r EXCEPT !.id = id]
  PROVE  x \in Recs /\ x.stage = r.stage /\ x.act = r.act /\ x.id = id /\ x.ran = r.ran
<1>1. x \in Recs
  BY SMTT(30) DEF Recs
<1>2. x.stage = r.stage /\ x.act = r.act /\ x.id = id /\ x.ran = r.ran
  BY ZenonT(30) DEF Recs
<1> QED  BY <1>1, <1>2

\* What comes after the pre receipt.
LEMMA AfterPreRec ==
  ASSUME NEW r \in Recs, NEW id \in Nat
  PROVE  /\ AfterPre(r, id) \in Recs /\ AfterPre(r, id).act = r.act
         /\ AfterPre(r, id).id = id /\ AfterPre(r, id).ran = r.ran
         /\ \/ r.ran /\ AfterPre(r, id).stage = "post" /\ AfterPre(r, id).at = "want"
            \/ AfterPre(r, id).stage = "body" /\ AfterPre(r, id).at = "run"
<1>0. PICK x : x = AfterPre(r, id)
  OBVIOUS
<1>1. CASE r.ran
  <2>1. x = Stage([r EXCEPT !.id = id], "post") /\ "post" \in Phases
    BY <1>0, <1>1 DEF AfterPre, Phases
  <2>2. PICK y : y = [r EXCEPT !.id = id]
    OBVIOUS
  <2>3. y \in Recs /\ y.act = r.act /\ y.id = id /\ y.ran = r.ran
    BY <2>2, IdRec, ZenonT(30)
  <2>4. x = Stage(y, "post")
    BY <2>1, <2>2
  <2>5. x \in Recs /\ x.stage = "post" /\ x.at = "want" /\ x.act = y.act /\ x.id = y.id /\ x.ran = y.ran
    <3>1. "post" \in Phases
      BY DEF Phases
    <3> QED  BY <2>3, <2>4, <3>1, StageRec, ZenonT(30)
  <2> QED  BY <1>0, <1>1, <2>3, <2>5, ZenonT(30)
<1>2. CASE ~ r.ran
  <2>1. x = [r EXCEPT !.stage = "body", !.at = "run", !.id = id, !.sock = NoSock]
    BY <1>0, <1>2 DEF AfterPre
  <2>2. x \in Recs
    <3>1. NoSock \in Nat
      BY DEF NoSock
    <3> QED  BY <2>1, <3>1, ZenonT(30) DEF Recs
  <2>3. x.stage = "body" /\ x.at = "run" /\ x.act = r.act /\ x.id = id
    BY <2>1, SMTT(30) DEF Recs
  <2>4. x.ran = r.ran
    BY <2>1, ZenonT(30) DEF Recs
  <2> QED  BY <1>0, <2>2, <2>3, <2>4, ZenonT(30)
<1> QED  BY <1>1, <1>2

\* What a worker may go on with when a call ends; id is what it returned.
CallEnds(r, id) ==
  {Idle} \cup
  (IF r.stage = "snap" THEN {Stage(r, "pre"), Stage([r EXCEPT !.silent = TRUE], "pre")} ELSE {}) \cup
  (IF r.stage = "pre" THEN {AfterPre(r, id), AfterPre(r, 0)} ELSE {})

\* What a worker knows when its call ended.
LEMMA CallEndsOK ==
  ASSUME NEW w \in Workers, NEW r \in Recs, NEW ch, NEW st, NEW n \in Nat, RecAt(w, r, ch, st, n),
         Len(ch) \in Nat, NEW id \in Nat, id <= Len(ch),
         r.stage = "pre" /\ id # 0 /\ r.act \notin st => ch[id] = Pre(w, r.act),
         NEW x \in CallEnds(r, id)
  PROVE  /\ x \in Recs /\ RecAt(w, x, ch, st, n) /\ x.at \in {"none", "want", "run"}
         /\ \/ x.act = 0
            \/ x.act = r.act /\ Unsent(x) \subseteq Unsent(r)
<1>1. /\ r.act \in 0..n /\ (r.stage # "idle" => r.act # 0) /\ (w \in Py => ~ r.ran) /\ r.id <= Len(ch)
  BY DEF RecAt
<1>2. 0 \in 0..n /\ 0 <= Len(ch)
  BY SMTT(30)
<1>3. CASE x = Idle
  <2>1. RecAt(w, x, ch, st, n)
    BY <1>2, <1>3, IdleRec, ZenonT(30) DEF RecAt
  <2> QED  BY <1>3, <2>1, IdleRec
<1>4. CASE r.stage = "snap" /\ x \in {Stage(r, "pre"), Stage([r EXCEPT !.silent = TRUE], "pre")}
  <2>1. "pre" \in Phases
    BY DEF Phases
  <2>2. /\ x \in Recs /\ x.stage = "pre" /\ x.at = "want" /\ x.act = r.act /\ x.id = r.id /\ x.ran = r.ran
    <3>1. CASE x = Stage(r, "pre")
      BY <2>1, <3>1, StageRec
    <3>2. CASE x # Stage(r, "pre")
      <4>1. PICK y : y = [r EXCEPT !.silent = TRUE]
        OBVIOUS
      <4>2. x = Stage(y, "pre")
        BY <1>4, <3>2, <4>1
      <4>3. y \in Recs /\ y.act = r.act /\ y.id = r.id /\ y.ran = r.ran
        BY <4>1, SilentRec, ZenonT(30)
      <4>4. x \in Recs /\ x.stage = "pre" /\ x.at = "want" /\ x.act = y.act /\ x.id = y.id /\ x.ran = y.ran
        BY <2>1, <4>2, <4>3, StageRec, ZenonT(30)
      <4> QED  BY <4>3, <4>4, ZenonT(30)
    <3> QED  BY <3>1, <3>2
  <2>3. RecAt(w, x, ch, st, n)
    BY <1>1, <1>4, <2>1, <2>2, ZenonT(30) DEF RecAt
  <2>4. Unsent(x) \subseteq Unsent(r)
    BY <1>4, <2>2, SMTT(30) DEF Unsent, Later
  <2> QED  BY <2>2, <2>3, <2>4
<1>5. CASE r.stage = "pre" /\ x \in {AfterPre(r, id), AfterPre(r, 0)}
  <2>1. PICK k \in {id, 0} : x = AfterPre(r, k)
    BY <1>5
  <2>2. /\ k \in Nat /\ k <= Len(ch)
        /\ k # 0 /\ r.act \notin st => ch[k] = Pre(w, r.act)
    BY <1>2, <1>5, <2>1
  <2>3. /\ x \in Recs /\ x.act = r.act /\ x.id = k /\ x.ran = r.ran
        /\ \/ r.ran /\ x.stage = "post" /\ x.at = "want"
           \/ x.stage = "body" /\ x.at = "run"
    BY <2>1, <2>2, AfterPreRec, ZenonT(30)
  <2>4. "post" \in Phases
    BY DEF Phases
  <2>5. RecAt(w, x, ch, st, n)
    BY <1>1, <1>5, <2>2, <2>3, <2>4, ZenonT(30) DEF RecAt
  <2>6. Unsent(x) \subseteq Unsent(r)
    BY <1>5, <2>3, SMTT(30) DEF Unsent, Later
  <2> QED  BY <2>3, <2>5, <2>6
<1> QED  BY <1>3, <1>4, <1>5, ZenonT(30) DEF CallEnds

\* Returns, Fails and Raises.
LEMMA ReturnsEnds ==
  ASSUME NEW w \in Workers, NEW id, Returns(w, id)
  PROVE  \E x \in CallEnds(work[w], id) : work' = [work EXCEPT ![w] = x]
<1> DEFINE x == CASE work[w].stage = "snap" -> Stage(work[w], "pre")
                  [] work[w].stage = "pre" -> AfterPre(work[w], id)
                  [] OTHER -> Idle
<1>1. work' = [work EXCEPT ![w] = x]
  BY DEF Returns
<1>2. x \in CallEnds(work[w], id)
  BY ZenonT(30) DEF CallEnds
<1> QED  BY <1>1, <1>2

\* A call that raised an error.
LEMMA FailsEnds ==
  ASSUME NEW w \in Workers, NEW id, Fails(w) \/ Raises(w)
  PROVE  \E x \in CallEnds(work[w], id) : work' = [work EXCEPT ![w] = x]
<1>1. CASE Raises(w)
  BY <1>1 DEF Raises, CallEnds
<1>2. CASE Fails(w)
  <2>1. PICK x \in Caught(w) : work' = [work EXCEPT ![w] = x]
    BY <1>2 DEF Fails
  <2>2. x \in CallEnds(work[w], id)
    BY <2>1, ZenonT(30) DEF Caught, CallEnds
  <2> QED  BY <2>1, <2>2
<1> QED  BY <1>1, <1>2

-----------------------------------------------------------------------------
(* One worker moves on.                                                    *)

\* One worker moves.
LEMMA WorkMoves ==
  ASSUME TypeInv, WorkInv, Grows, NEW w \in Workers, NEW x \in Recs,
         work' = [work EXCEPT ![w] = x], RecAt(w, x, chain', astray', acts'),
         x.act = 0 \/ x.act = work[w].act \/ x.act = acts + 1
  PROVE  /\ work' \in [Workers -> Recs] /\ WorkInv' /\ work'[w] = x
         /\ \A v \in Workers : v # w => work'[v] = work[v]
<1>1. work \in [Workers -> Recs] /\ acts \in Nat
  BY DEF TypeInv
<1>2. /\ work' \in [Workers -> Recs] /\ work'[w] = x
      /\ \A v \in Workers : v # w => work'[v] = work[v]
  BY <1>1, ZenonT(30)
<1>3. ASSUME NEW v \in Workers  PROVE RecOK(v, work[v])'
  <2>1. CASE v = w
    BY <1>2, <2>1 DEF RecOK
  <2>2. CASE v # w
    <3>1. PICK r \in Recs : r = work[v]
      BY <1>1
    <3>2. RecOK(v, r)
      BY <3>1 DEF WorkInv
    <3>3. RecOK(v, r)'
      BY <3>2, RecGrows
    <3> QED  BY <1>2, <2>2, <3>1, <3>3
  <2> QED  BY <2>1, <2>2
<1>4. ASSUME NEW u \in Workers, NEW v \in Workers, work'[u].act = work'[v].act, work'[u].act # 0
      PROVE  u = v
  <2>1. \A y \in Workers : work[y].act # acts + 1
    <3> SUFFICES ASSUME NEW y \in Workers
                 PROVE  work[y].act # acts + 1
      OBVIOUS
    <3>1. work[y].act \in 0..acts
      BY DEF WorkInv, RecOK, RecAt
    <3> QED  BY <1>1, <3>1, SMTT(30)
  <2>2. \A y, z \in Workers : work[y].act = work[z].act /\ work[y].act # 0 => y = z
    BY DEF WorkInv
  <2> QED  BY <1>2, <1>4, <2>1, <2>2, ZenonT(30)
<1> QED  BY <1>2, <1>3, <1>4, ZenonT(30) DEF WorkInv

\* A call of worker w ends with the answer id, or none.
LEMMA CallMoves ==
  ASSUME TypeInv, WorkInv, Grows, chain' = chain, acts' = acts, NEW w \in Workers,
         NEW id \in Nat, id <= Len(chain),
         work[w].stage = "pre" /\ id # 0 /\ work[w].act \notin astray' => chain[id] = Pre(w, work[w].act),
         \E x \in CallEnds(work[w], id) : work' = [work EXCEPT ![w] = x]
  PROVE  /\ work' \in [Workers -> Recs] /\ WorkInv'
         /\ work'[w].at \in {"none", "want", "run"}
         /\ \A v \in Workers : v # w => work'[v] = work[v]
         /\ \A v \in Workers : Moved(v)
<1>1. PICK x \in CallEnds(work[w], id) : work' = [work EXCEPT ![w] = x]
  OBVIOUS
<1>2. PICK r \in Recs : r = work[w]
  BY DEF TypeInv
<1>3. RecAt(w, r, chain, astray', acts)
  <2>1. RecOK(w, r)
    BY <1>2 DEF WorkInv
  <2>2. RecOK(w, r)'
    BY <2>1, RecGrows
  <2> QED  BY <2>2 DEF RecOK
<1>4. Len(chain) \in Nat /\ acts \in Nat
  BY Lengths DEF TypeInv
<1>5. /\ x \in Recs /\ RecAt(w, x, chain, astray', acts) /\ x.at \in {"none", "want", "run"}
      /\ \/ x.act = 0
         \/ x.act = r.act /\ Unsent(x) \subseteq Unsent(r)
  BY <1>1, <1>2, <1>3, <1>4, CallEndsOK
<1>6. /\ work' \in [Workers -> Recs] /\ WorkInv' /\ work'[w] = x
      /\ \A v \in Workers : v # w => work'[v] = work[v]
  BY <1>1, <1>2, <1>5, WorkMoves
<1>7. \A v \in Workers : Moved(v)
  BY <1>2, <1>5, <1>6, ZenonT(30) DEF Moved
<1> QED  BY <1>5, <1>6, <1>7

\* Nobody moves.
LEMMA WorkStill ==
  ASSUME TypeInv, WorkInv, Grows, work' = work
  PROVE  WorkInv' /\ \A v \in Workers : Moved(v)
<1>1. ASSUME NEW v \in Workers  PROVE RecOK(v, work[v])'
  <2>1. PICK r \in Recs : r = work[v]
    BY DEF TypeInv
  <2>2. RecOK(v, r)
    BY <2>1 DEF WorkInv
  <2>3. RecOK(v, r)'
    BY <2>2, RecGrows
  <2> QED  BY <2>1, <2>3
<1>2. \A v, w \in Workers : work'[v].act = work'[w].act /\ work'[v].act # 0 => v = w
  BY DEF WorkInv
<1> QED  BY <1>1, <1>2, ZenonT(30) DEF WorkInv, Moved

-----------------------------------------------------------------------------
(* Locks and connections.                                                  *)

\* The one who waits on a connection waits alone, and it is open.
LEMMA Sole ==
  ASSUME TypeInv, HoldInv, NEW w \in Workers, NEW s, WaitsOn(w, s) \/ (work[w].at = "send" /\ work[w].sock = s)
  PROVE  /\ s \in Socks /\ conns[s].cl
         /\ \A v \in Workers : WaitsOn(v, s) => v = w
<1>1. \A v \in Workers : HoldOK(v)
  BY DEF HoldInv
<1>2. w \in Py \/ w \in Ts
  BY DEF Workers
<1>3. CASE w \in Py
  <2>1. lock = w /\ sock = s /\ sock # NoSock
    BY <1>1, <1>3 DEF HoldOK, WaitsOn
  <2>2. sock \in Socks /\ conns[sock].cl
    BY <2>1 DEF HoldInv, TypeInv
  <2>3. ASSUME NEW v \in Workers, WaitsOn(v, s)  PROVE v = w
    <3>1. CASE v \in Py
      BY <1>1, <2>1, <2>3, <3>1 DEF HoldOK, WaitsOn
    <3>2. CASE v \in Ts
      BY <1>1, <2>1, <2>3, <3>2 DEF HoldOK, WaitsOn
    <3> QED  BY <3>1, <3>2 DEF Workers
  <2> QED  BY <2>1, <2>2, <2>3
<1>4. CASE w \in Ts
  <2>1. w \notin Py
    BY <1>4, Constants
  <2>2. work[w].at = "wait" /\ work[w].sock = s
    BY <1>1, <2>1 DEF HoldOK, WaitsOn
  <2>3. s \in Socks /\ s # sock /\ conns[s].cl
    BY <1>1, <1>4, <2>2 DEF HoldOK
  <2>4. ASSUME NEW v \in Workers, WaitsOn(v, s)  PROVE v = w
    <3>1. CASE v \in Py
      BY <1>1, <2>3, <2>4, <3>1 DEF HoldOK, WaitsOn
    <3>2. CASE v \in Ts
      BY <1>4, <2>2, <2>4, <3>2 DEF HoldInv, WaitsOn
    <3> QED  BY <3>1, <3>2 DEF Workers
  <2> QED  BY <2>3, <2>4
<1> QED  BY <1>2, <1>3, <1>4

\* An end that is open stays so.
KeepsEnds(s) == conns[s].cl => conns'[s].cl /\ conns'[s].left = conns[s].left

\* Worker w is outside a call afterwards.
LEMMA HoldKept ==
  ASSUME TypeInv, HoldInv, NEW w \in Workers, \A v \in Workers : v # w => work'[v] = work[v],
         work'[w].at \in {"none", "want", "run"}, sock' = sock,
         \A v \in Py : v # w /\ lock = v => lock' = v,
         \A s \in Socks : \/ KeepsEnds(s)
                          \/ w \in Ts /\ work[w].at = "wait" /\ s = work[w].sock
                          \/ s = sock /\ conns'[s].cl
  PROVE  HoldInv'
<1>1. ASSUME NEW v \in Workers  PROVE HoldOK(v)'
  <2>1. CASE v = w
    BY <2>1 DEF HoldOK
  <2>2. CASE v # w
    <3>1. HoldOK(v) /\ work'[v] = work[v]
      BY <2>2 DEF HoldInv
    <3>2. v \in Py /\ work'[v].at \in {"send", "wait"} =>
            lock' = v /\ sock' = work'[v].sock /\ sock' # NoSock
      BY <2>2, <3>1, ZenonT(30) DEF HoldOK
    <3>3. ASSUME v \in Ts, work'[v].at = "wait"
          PROVE  /\ work'[v].sock \in Socks /\ work'[v].sock # sock'
                 /\ conns'[work'[v].sock].cl /\ ~ conns'[work'[v].sock].left
      <4>1. /\ work[v].sock \in Socks /\ work[v].sock # sock
            /\ conns[work[v].sock].cl /\ ~ conns[work[v].sock].left
        BY <3>1, <3>3, ZenonT(30) DEF HoldOK
      <4>2. w \in Ts /\ work[w].at = "wait" => work[v].sock # work[w].sock
        BY <2>2, <3>1, <3>3, ZenonT(30) DEF HoldInv
      <4>3. KeepsEnds(work[v].sock)
        BY <4>1, <4>2
      <4> QED  BY <3>1, <4>1, <4>3 DEF KeepsEnds
    <3>4. work'[v].at = "send" => v \in Py
      BY <3>1 DEF HoldOK
    <3> QED  BY <3>2, <3>3, <3>4, ZenonT(30) DEF HoldOK
  <2> QED  BY <2>1, <2>2
<1>2. \A u, v \in Ts :
        work'[u].at = "wait" /\ work'[v].at = "wait" /\ work'[u].sock = work'[v].sock => u = v
  <2>1. \A v \in Ts : work'[v].at = "wait" => v # w /\ work'[v] = work[v]
    BY DEF Workers
  <2> QED  BY <2>1, ZenonT(30) DEF HoldInv
<1>3. sock' # NoSock => conns'[sock'].cl
  <2> SUFFICES ASSUME sock # NoSock
               PROVE  conns'[sock].cl
    OBVIOUS
  <2>1. sock \in Socks /\ conns[sock].cl
    BY DEF HoldInv, TypeInv
  <2>2. w \in Ts /\ work[w].at = "wait" => sock # work[w].sock
    BY DEF HoldInv, HoldOK
  <2> QED  BY <2>1, <2>2 DEF KeepsEnds
<1> QED  BY <1>1, <1>2, <1>3, ZenonT(30) DEF HoldInv

\* The daemon moves.
LEMMA HoldServer ==
  ASSUME TypeInv, HoldInv, work' = work, sock' = sock, lock' = lock, \A s \in Socks : KeepsEnds(s)
  PROVE  HoldInv'
<1>1. ASSUME NEW v \in Workers  PROVE HoldOK(v)'
  <2>1. HoldOK(v)
    BY DEF HoldInv
  <2>2. ASSUME v \in Ts, work[v].at = "wait"
        PROVE  /\ work[v].sock \in Socks /\ work[v].sock # sock
               /\ conns'[work[v].sock].cl /\ ~ conns'[work[v].sock].left
    BY <2>1, <2>2, ZenonT(30) DEF HoldOK, KeepsEnds
  <2> QED  BY <2>1, <2>2, ZenonT(30) DEF HoldOK
<1>2. \A u, v \in Ts :
        work'[u].at = "wait" /\ work'[v].at = "wait" /\ work'[u].sock = work'[v].sock => u = v
  BY ZenonT(30) DEF HoldInv
<1>3. sock' # NoSock => conns'[sock'].cl
  BY ZenonT(30) DEF HoldInv, TypeInv, KeepsEnds
<1> QED  BY <1>1, <1>2, <1>3, ZenonT(30) DEF HoldInv

-----------------------------------------------------------------------------
(* Requests and answers.                                                   *)

\* What is under way stays well formed.
LEMMA ConnGrows ==
  ASSUME TypeInv, Grows, NEW c \in Conns, ConnOK(c)
  PROVE  ConnOK(c)'
<1>1. /\ \A n \in DOMAIN c.busy : c.busy[n] \in Answers
      /\ \A n \in DOMAIN c.down : c.down[n] \in Answers
  BY Queues, Queue
<1>2. ASSUME NEW n \in DOMAIN c.busy  PROVE AnswerOK(c.busy[n])'
  BY <1>1, AnswerGrows DEF ConnOK
<1>3. ASSUME NEW n \in DOMAIN c.down  PROVE AnswerOK(c.down[n])'
  BY <1>1, AnswerGrows DEF ConnOK
<1> QED  BY <1>2, <1>3, ZenonT(30) DEF ConnOK

\* One connection changes.
LEMMA ConnOne ==
  ASSUME TypeInv, ConnInv, Grows, NEW s \in Socks, ConnOK(conns[s])',
         \A t \in Socks : t # s => conns'[t] = conns[t]
  PROVE  ConnInv'
<1> SUFFICES ASSUME NEW t \in Socks
             PROVE  ConnOK(conns[t])'
  BY DEF ConnInv
<1>1. CASE t = s
  BY <1>1
<1>2. CASE t # s
  <2>1. PICK c \in Conns : c = conns[t]
    BY DEF TypeInv
  <2>2. ConnOK(c)
    BY <2>1 DEF ConnInv
  <2>3. ConnOK(c)'
    BY <2>2, ConnGrows
  <2> QED  BY <1>2, <2>1, <2>3
<1> QED  BY <1>1, <1>2

\* No connection changes.
LEMMA ConnStill ==
  ASSUME TypeInv, ConnInv, Grows, conns' = conns
  PROVE  ConnInv'
<1> SUFFICES ASSUME NEW t \in Socks
             PROVE  ConnOK(conns[t])'
  BY DEF ConnInv
<1>1. PICK c \in Conns : c = conns[t]
  BY DEF TypeInv
<1>2. ConnOK(c)
  BY <1>1 DEF ConnInv
<1>3. ConnOK(c)'
  BY <1>2, ConnGrows
<1> QED  BY <1>1, <1>3

\* An answer stays right.
LEMMA RightGrows ==
  ASSUME TypeInv, Grows, NEW w \in Workers, NEW a \in Answers, AnswerOK(a), Right(w, a), Frame(w)' = Frame(w)
  PROVE  Right(w, a)'
<1>1. a.id \in Nat
  BY DEF Answers
<1>2. a.type = "sign" => chain'[a.id] = chain[a.id]
  BY <1>1, InRange, ZenonT(30) DEF AnswerOK
<1> QED  BY <1>2 DEF Right

\* What is under way for a worker stays its own.
LEMMA OwnedGrows ==
  ASSUME TypeInv, Grows, NEW w \in Workers, NEW c \in Conns, ConnOK(c), Owned(w, c), Frame(w)' = Frame(w)
  PROVE  Owned(w, c)'
<1>1. /\ \A n \in DOMAIN c.busy : c.busy[n] \in Answers
      /\ \A n \in DOMAIN c.down : c.down[n] \in Answers
  BY Queues, Queue
<1>2. ASSUME NEW n \in DOMAIN c.busy  PROVE Right(w, c.busy[n])'
  BY <1>1, RightGrows DEF ConnOK, Owned
<1>3. ASSUME NEW n \in DOMAIN c.down  PROVE Right(w, c.down[n])'
  BY <1>1, RightGrows DEF ConnOK, Owned
<1>4. ASSUME NEW n \in DOMAIN c.up  PROVE c.up[n] = Frame(w)'
  BY DEF Owned
<1> QED  BY <1>2, <1>3, <1>4, ZenonT(30) DEF Owned

\* A connection that nobody touches, with the same callers waiting.
LEMMA MatchKept ==
  ASSUME TypeInv, ConnInv, MatchInv, Grows, NEW t \in Socks, conns'[t] = conns[t],
         \A v \in Workers : /\ WaitsOn(v, t)' <=> WaitsOn(v, t)
                            /\ WaitsOn(v, t) => Frame(v)' = Frame(v)
  PROVE  MatchOK(t)'
<1>1. PICK c \in Conns : c = conns[t]
  BY DEF TypeInv
<1>2. ConnOK(c) /\ MatchOK(t)
  BY <1>1 DEF ConnInv, MatchInv
<1> SUFFICES ASSUME c.cl, ~ c.left
             PROVE  /\ Load(c) <= 1
                    /\ Load(c) # 0 => \E w \in Workers : WaitsOn(w, t)'
                    /\ \A w \in Workers : WaitsOn(w, t)' => Owned(w, c)'
  BY <1>1, ZenonT(30) DEF MatchOK
<1>3. /\ Load(c) <= 1
      /\ Load(c) # 0 => \E w \in Workers : WaitsOn(w, t)
      /\ \A w \in Workers : WaitsOn(w, t) => Owned(w, c)
  BY <1>1, <1>2, ZenonT(30) DEF MatchOK
<1>4. ASSUME NEW w \in Workers, WaitsOn(w, t)'  PROVE Owned(w, c)'
  <2>1. Owned(w, c) /\ Frame(w)' = Frame(w)
    BY <1>3, <1>4
  <2> QED  BY <1>2, <2>1, OwnedGrows
<1> QED  BY <1>3, <1>4

\* The others are not concerned when worker w moves.
LEMMA OthersWait ==
  ASSUME NEW w \in Workers, \A v \in Workers : v # w => work'[v] = work[v], NEW t,
         ~ WaitsOn(w, t), ~ WaitsOn(w, t)'
  PROVE  \A v \in Workers : /\ WaitsOn(v, t)' <=> WaitsOn(v, t)
                            /\ WaitsOn(v, t) => Frame(v)' = Frame(v)
<1> SUFFICES ASSUME NEW v \in Workers
             PROVE  (WaitsOn(v, t)' <=> WaitsOn(v, t)) /\ (WaitsOn(v, t) => Frame(v)' = Frame(v))
  OBVIOUS
<1>1. CASE v = w
  BY <1>1
<1>2. CASE v # w
  BY <1>2 DEF WaitsOn, Frame
<1> QED  BY <1>1, <1>2

\* Worker w moves outside of calls.
LEMMA MatchStill ==
  ASSUME TypeInv, ConnInv, MatchInv, Grows, conns' = conns, NEW w \in Workers,
         \A v \in Workers : v # w => work'[v] = work[v], work[w].at # "wait", work'[w].at # "wait"
  PROVE  MatchInv'
<1> SUFFICES ASSUME NEW t \in Socks
             PROVE  MatchOK(t)'
  BY DEF MatchInv
<1>1. ~ WaitsOn(w, t) /\ ~ WaitsOn(w, t)'
  BY DEF WaitsOn
<1>2. \A v \in Workers : /\ WaitsOn(v, t)' <=> WaitsOn(v, t)
                         /\ WaitsOn(v, t) => Frame(v)' = Frame(v)
  BY <1>1, OthersWait
<1> QED  BY <1>2, MatchKept

\* Worker w has to do with connection s only.
LEMMA MatchOne ==
  ASSUME TypeInv, ConnInv, MatchInv, Grows, NEW s \in Socks, \A t \in Socks : t # s => conns'[t] = conns[t],
         NEW w \in Workers, \A v \in Workers : v # w => work'[v] = work[v],
         work[w].at = "wait" => work[w].sock = s, work'[w].at = "wait" => work'[w].sock = s,
         MatchOK(s)'
  PROVE  MatchInv'
<1> SUFFICES ASSUME NEW t \in Socks, t # s
             PROVE  MatchOK(t)'
  BY DEF MatchInv
<1>1. ~ WaitsOn(w, t) /\ ~ WaitsOn(w, t)'
  BY DEF WaitsOn
<1>2. \A v \in Workers : /\ WaitsOn(v, t)' <=> WaitsOn(v, t)
                         /\ WaitsOn(v, t) => Frame(v)' = Frame(v)
  BY <1>1, OthersWait
<1> QED  BY <1>2, MatchKept

\* The daemon has to do with connection s only.
LEMMA MatchServer ==
  ASSUME TypeInv, ConnInv, MatchInv, Grows, NEW s \in Socks, \A t \in Socks : t # s => conns'[t] = conns[t],
         work' = work, MatchOK(s)'
  PROVE  MatchInv'
<1> SUFFICES ASSUME NEW t \in Socks, t # s
             PROVE  MatchOK(t)'
  BY DEF MatchInv
<1>1. \A v \in Workers : /\ WaitsOn(v, t)' <=> WaitsOn(v, t)
                         /\ WaitsOn(v, t) => Frame(v)' = Frame(v)
  BY DEF WaitsOn, Frame
<1> QED  BY <1>1, MatchKept

\* Nothing is under way on connection s.
LEMMA MatchEmpty ==
  ASSUME NEW s \in Socks, conns'[s] \in Conns, Load(conns'[s]) = 0
  PROVE  MatchOK(s)'
<1>1. PICK c \in Conns : c = conns'[s]
  OBVIOUS
<1>2. /\ Len(c.up) \in Nat /\ DOMAIN c.up = 1..Len(c.up)
      /\ Len(c.busy) \in Nat /\ DOMAIN c.busy = 1..Len(c.busy)
      /\ Len(c.down) \in Nat /\ DOMAIN c.down = 1..Len(c.down)
  BY Queues, Queue
<1>3. Load(c) = 0
  BY <1>1
<1>4. Len(c.up) = 0 /\ Len(c.busy) = 0 /\ Len(c.down) = 0
  <2>1. \A x, y, z \in Nat : x + y + z = 0 => x = 0 /\ y = 0 /\ z = 0
    OBVIOUS
  <2>2. Len(c.up) + Len(c.busy) + Len(c.down) = 0
    BY <1>3 DEF Load
  <2>3. Len(c.up) \in Nat /\ Len(c.busy) \in Nat /\ Len(c.down) \in Nat
    BY <1>2
  <2> HIDE <1>1, <1>2, <1>3
  <2> QED  BY <2>1, <2>2, <2>3, ZenonT(30)
<1>5. DOMAIN c.up = {} /\ DOMAIN c.busy = {} /\ DOMAIN c.down = {}
  BY <1>2, <1>4, SMTT(30)
<1>6. \A w : Owned(w, c)'
  BY <1>5, ZenonT(30) DEF Owned
<1>7. 0 <= 1
  OBVIOUS
<1> QED  BY <1>1, <1>3, <1>6, <1>7, ZenonT(30) DEF MatchOK

-----------------------------------------------------------------------------
(* The steps of a worker that leave the connections alone.                 *)

\* Worker w is outside of a call afterwards.
LEMMA OutsideStep ==
  ASSUME ClientsInv, NEW w \in Workers, chain' = chain, conns' = conns, sock' = sock, astray' = astray,
         acts' \in {acts, acts + 1}, lock' \in Py \cup {NoWorker},
         \A v \in Py : v # w /\ lock = v => lock' = v,
         work' \in [Workers -> Recs], WorkInv', work'[w].at \in {"none", "want", "run"},
         \A v \in Workers : v # w => work'[v] = work[v], \A v \in Workers : Moved(v),
         work[w].at = "wait" => Load(conns[work[w].sock]) = 0
  PROVE  ClientsInv' /\ Grows
<1>1. TypeInv /\ LogInv /\ WorkInv /\ HoldInv /\ ConnInv /\ MatchInv
  BY DEF ClientsInv
<1>2. Grows
  BY <1>1, GrowsSame
<1>3. TypeInv'
  BY <1>1, <1>2 DEF TypeInv, Grows
<1>4. LogInv'
  <2>1. Drains
    BY <1>1, DrainsSame DEF Up
  <2> QED  BY <1>1, <1>2, <1>3, <2>1, LogDrains
<1>5. HoldInv'
  <2>1. \A s \in Socks : KeepsEnds(s)
    BY DEF KeepsEnds
  <2> QED  BY <1>1, <2>1, HoldKept
<1>6. ConnInv'
  BY <1>1, <1>2, ConnStill
<1>7. MatchInv'
  <2>1. CASE work[w].at # "wait"
    BY <1>1, <1>2, <2>1, MatchStill
  <2>2. CASE work[w].at = "wait"
    <3>1. PICK s : s = work[w].sock
      OBVIOUS
    <3>2. WaitsOn(w, s)
      BY <2>2, <3>1 DEF WaitsOn
    <3>3. s \in Socks
      BY <1>1, <3>2, Sole
    <3>4. MatchOK(s)'
      <4>1. conns'[s] \in Conns /\ Load(conns'[s]) = 0
        BY <1>3, <2>2, <3>1, <3>3 DEF TypeInv
      <4> QED  BY <3>3, <4>1, MatchEmpty
    <3> QED  BY <1>1, <1>2, <3>1, <3>3, <3>4, MatchOne
  <2> QED  BY <2>1, <2>2
<1> QED  BY <1>1, <1>2, <1>3, <1>4, <1>5, <1>6, <1>7 DEF ClientsInv

\* A call ends without an answer.
LEMMA EndsStep ==
  ASSUME ClientsInv, NEW w \in Workers, Fails(w) \/ Raises(w),
         chain' = chain, conns' = conns, sock' = sock, astray' = astray, acts' = acts,
         lock' \in Py \cup {NoWorker}, \A v \in Py : v # w /\ lock = v => lock' = v,
         work[w].at = "wait" => Load(conns[work[w].sock]) = 0
  PROVE  ClientsInv' /\ Grows
<1>1. TypeInv /\ WorkInv
  BY DEF ClientsInv
<1>2. Grows
  BY <1>1, GrowsSame
<1>3. 0 \in Nat /\ 0 <= Len(chain)
  BY <1>1, Lengths
<1>4. \E x \in CallEnds(work[w], 0) : work' = [work EXCEPT ![w] = x]
  BY FailsEnds
<1>5. /\ work' \in [Workers -> Recs] /\ WorkInv'
      /\ work'[w].at \in {"none", "want", "run"}
      /\ \A v \in Workers : v # w => work'[v] = work[v]
      /\ \A v \in Workers : Moved(v)
  BY <1>1, <1>2, <1>3, <1>4, CallMoves
<1> QED  BY <1>5, OutsideStep

\* Nobody listens.
LEMMA ConnectFailsStep ==
  ASSUME ClientsInv, NEW w \in Workers, ConnectFails(w)
  PROVE  ClientsInv' /\ Grows
<1>1. /\ Fails(w) /\ work[w].at = "want"
      /\ chain' = chain /\ conns' = conns /\ sock' = sock /\ lock' = lock /\ acts' = acts /\ astray' = astray
  BY DEF ConnectFails
<1>2. lock' \in Py \cup {NoWorker}
  BY <1>1 DEF ClientsInv, TypeInv
<1> QED  BY <1>1, <1>2, EndsStep

\* Nobody listens to a TypeScript caller.
LEMMA CallRefusedStep ==
  ASSUME ClientsInv, NEW w \in Workers, CallRefused(w)
  PROVE  ClientsInv' /\ Grows
<1>1. /\ Fails(w) /\ work[w].at = "want"
      /\ chain' = chain /\ conns' = conns /\ sock' = sock /\ lock' = lock /\ acts' = acts /\ astray' = astray
  BY DEF CallRefused
<1>2. lock' \in Py \cup {NoWorker}
  BY <1>1 DEF ClientsInv, TypeInv
<1> QED  BY <1>1, <1>2, EndsStep

\* Who sends, or waits as a Python thread, holds _lock.
LEMMA Holder ==
  ASSUME HoldInv, NEW w \in Workers, work[w].at = "send" \/ (w \in Py /\ work[w].at = "wait")
  PROVE  w \in Py /\ lock = w /\ sock = work[w].sock /\ sock # NoSock
BY DEF HoldInv, HoldOK

\* The daemon has closed its end before a request is sent.
LEMMA SendFailsStep ==
  ASSUME ClientsInv, NEW w \in Workers, SendFails(w)
  PROVE  ClientsInv' /\ Grows
<1>1. /\ Raises(w) /\ work[w].at = "send" /\ lock' = NoWorker
      /\ chain' = chain /\ conns' = conns /\ sock' = sock /\ acts' = acts /\ astray' = astray
  BY DEF SendFails
<1>2. lock = w
  BY <1>1, Holder DEF ClientsInv
<1> QED  BY <1>1, <1>2, EndsStep

\* The daemon has closed its end before it answered.
LEMMA ReadFailsStep ==
  ASSUME ClientsInv, NEW w \in Workers, ReadFails(w)
  PROVE  ClientsInv' /\ Grows
<1>1. /\ Fails(w) \/ Raises(w)
      /\ w \in Py /\ work[w].at = "wait" /\ lock' = NoWorker
      /\ conns[work[w].sock].down = <<>> /\ ~ conns[work[w].sock].sv
      /\ chain' = chain /\ conns' = conns /\ sock' = sock /\ acts' = acts /\ astray' = astray
  BY DEF ReadFails
<1>2. lock = w /\ work[w].sock \in Socks
  BY <1>1, Holder DEF ClientsInv, TypeInv
<1>3. conns[work[w].sock].up = <<>> /\ conns[work[w].sock].busy = <<>>
  BY <1>1, <1>2 DEF ClientsInv, ConnInv, ConnOK
<1>4. Load(conns[work[w].sock]) = 0
  BY <1>1, <1>3 DEF Load
<1> QED  BY <1>1, <1>2, <1>4, EndsStep

\* The wrapped function ends.
LEMMA BodyEndsStep ==
  ASSUME ClientsInv, NEW w \in Workers, BodyEnds(w)
  PROVE  ClientsInv' /\ Grows
<1> DEFINE x == IF work[w].id # 0 \/ w \in Ts THEN Stage(work[w], "post") ELSE Idle
<1>1. /\ work[w].stage = "body" /\ work' = [work EXCEPT ![w] = x]
      /\ chain' = chain /\ conns' = conns /\ sock' = sock /\ lock' = lock /\ acts' = acts /\ astray' = astray
  BY DEF BodyEnds
<1>2. TypeInv /\ WorkInv
  BY DEF ClientsInv
<1>3. Grows
  BY <1>1, <1>2, GrowsSame
<1>4. PICK r \in Recs : r = work[w]
  BY <1>2 DEF TypeInv
<1>5. RecOK(w, r) /\ r.stage = "body"
  BY <1>1, <1>2, <1>4 DEF WorkInv
<1>6. CASE r.id # 0 \/ w \in Ts
  <2>1. x = Stage(r, "post") /\ "post" \in Phases
    BY <1>4, <1>6 DEF Phases
  <2>2. /\ x \in Recs /\ x.stage = "post" /\ x.at = "want"
        /\ x.act = r.act /\ x.id = r.id /\ x.ran = r.ran
    BY <2>1, StageRec
  <2> HIDE DEF x
  <2>3. w \in Py => r.id # 0
    BY <1>6, Constants
  <2>4. RecAt(w, x, chain', astray', acts')
    BY <1>1, <1>5, <2>2, <2>3, ZenonT(30) DEF RecOK, RecAt, Phases
  <2>5. Unsent(x) \subseteq Unsent(r)
    BY <1>5, <2>2 DEF Unsent, Later
  <2>6. /\ work' \in [Workers -> Recs] /\ WorkInv' /\ work'[w] = x
        /\ \A v \in Workers : v # w => work'[v] = work[v]
    BY <1>1, <1>2, <1>3, <1>4, <2>2, <2>4, WorkMoves
  <2>7. \A v \in Workers : Moved(v)
    BY <1>4, <2>2, <2>5, <2>6 DEF Moved
  <2>8. lock' \in Py \cup {NoWorker}
    BY <1>1, <1>2 DEF TypeInv
  <2>9. work[w].at # "wait"
    BY <1>4, <1>5 DEF RecOK, RecAt, Phases
  <2> QED  BY <1>1, <2>2, <2>6, <2>7, <2>8, <2>9, OutsideStep
<1>7. CASE ~ (r.id # 0 \/ w \in Ts)
  <2>1. x = Idle
    BY <1>4, <1>7
  <2>2. Raises(w)
    BY <1>1, <2>1 DEF Raises
  <2>3. lock' \in Py \cup {NoWorker}
    BY <1>1, <1>2 DEF TypeInv
  <2>4. work[w].at # "wait"
    BY <1>4, <1>5 DEF RecOK, RecAt, Phases
  <2> QED  BY <1>1, <2>2, <2>3, <2>4, EndsStep
<1> QED  BY <1>6, <1>7

\* A record for a new action.
Begun(p, n, ran) == [Stage(Idle, p) EXCEPT !.act = n, !.ran = ran]

\* The record of an action that begins.
LEMMA BeginRec ==
  ASSUME NEW p \in Phases, NEW n \in Nat, NEW ran \in BOOLEAN
  PROVE  /\ Begun(p, n, ran) \in Recs /\ Begun(p, n, ran).stage = p /\ Begun(p, n, ran).at = "want"
         /\ Begun(p, n, ran).act = n /\ Begun(p, n, ran).id = 0 /\ Begun(p, n, ran).ran = ran
<1>0. PICK x : x = Begun(p, n, ran)
  OBVIOUS
<1>1. Stage(Idle, p) \in Recs /\ Stage(Idle, p).stage = p /\ Stage(Idle, p).at = "want" /\ Stage(Idle, p).id = 0
  BY IdleRec, StageRec
<1>2. PICK r \in Recs : r = Stage(Idle, p)
  BY <1>1
<1>3. x = [r EXCEPT !.act = n, !.ran = ran]
  BY <1>0, <1>2 DEF Begun
<1>4. x \in Recs
  BY <1>3, ZenonT(30) DEF Recs
<1>5. x.stage = r.stage /\ x.at = r.at /\ x.act = n /\ x.id = r.id
  BY <1>3, ZenonT(30) DEF Recs
<1>6. x.ran = ran
  BY <1>3, ZenonT(30) DEF Recs
<1> QED  BY <1>0, <1>1, <1>2, <1>4, <1>5, <1>6

\* An action begins.
LEMMA BeginStep ==
  ASSUME ClientsInv, NEW w \in Workers, NEW p \in Phases \ {"post"}, NEW ran \in BOOLEAN, Begin(w, p, ran),
         w \in Py => ran = FALSE
  PROVE  ClientsInv' /\ Grows
<1>0. PICK x : x = Begun(p, acts + 1, ran)
  OBVIOUS
<1>1. /\ work[w] = Idle /\ acts' = acts + 1 /\ work' = [work EXCEPT ![w] = x]
      /\ chain' = chain /\ conns' = conns /\ sock' = sock /\ lock' = lock /\ astray' = astray
  BY <1>0 DEF Begin, Begun
<1>2. TypeInv /\ WorkInv
  BY DEF ClientsInv
<1>3. Grows
  BY <1>1, <1>2, GrowsSame
<1>4. acts \in Nat /\ acts + 1 \in Nat /\ acts + 1 \in 0..(acts + 1) /\ acts + 1 # 0
  BY <1>2 DEF TypeInv
<1>5. /\ x \in Recs /\ x.stage = p /\ x.at = "want" /\ x.act = acts + 1 /\ x.id = 0 /\ x.ran = ran
  <2>1. p \in Phases
    OBVIOUS
  <2>2. PICK n \in Nat : n = acts + 1
    BY <1>4
  <2>3. x = Begun(p, n, ran)
    BY <1>0, <2>2
  <2>4. /\ Begun(p, n, ran) \in Recs /\ Begun(p, n, ran).stage = p /\ Begun(p, n, ran).at = "want"
        /\ Begun(p, n, ran).act = n /\ Begun(p, n, ran).id = 0 /\ Begun(p, n, ran).ran = ran
    BY <2>1, BeginRec
  <2> QED  BY <2>2, <2>3, <2>4
<1>6. 0 <= Len(chain)
  BY <1>2, Lengths
<1>7. RecAt(w, x, chain', astray', acts')
  BY <1>1, <1>4, <1>5, <1>6, ZenonT(30) DEF RecAt
<1>8. /\ work' \in [Workers -> Recs] /\ WorkInv' /\ work'[w] = x
      /\ \A v \in Workers : v # w => work'[v] = work[v]
  BY <1>1, <1>2, <1>3, <1>5, <1>7, WorkMoves
<1>9. \A v \in Workers : Moved(v)
  BY <1>5, <1>8 DEF Moved
<1>10. lock' \in Py \cup {NoWorker}
  BY <1>1, <1>2 DEF TypeInv
<1>11. work[w].at # "wait"
  BY <1>1, IdleRec
<1> QED  BY <1>1, <1>5, <1>8, <1>9, <1>10, <1>11, OutsideStep

\* Every way to begin one.
LEMMA BeginsStep ==
  ASSUME ClientsInv, NEW w \in Workers, Begins(w)
  PROVE  ClientsInv' /\ Grows
<1>1. "snap" \in Phases \ {"post"} /\ "pre" \in Phases \ {"post"} /\ "ping" \in Phases \ {"post"}
  BY DEF Phases
<1>2. CASE \E p \in Phases \ {"post"} : Begin(w, p, FALSE)
  BY <1>2, BeginStep
<1>3. CASE w \in Ts /\ Begin(w, "pre", TRUE)
  BY <1>1, <1>3, BeginStep, Constants
<1>4. (\E p \in Phases \ {"post"} : Begin(w, p, FALSE)) \/ (w \in Ts /\ Begin(w, "pre", TRUE))
  BY <1>1 DEF Begins, trace, TraceContext, wrap, wrap_async, ping, wrapAsync, wrapSync
<1> QED  BY <1>2, <1>3, <1>4

-----------------------------------------------------------------------------
(* What a step makes of a connection.                                      *)

WithUp(c, u) == [c EXCEPT !.up = u]
WithDown(c, d) == [c EXCEPT !.down = d]
WithBusy(c, b) == [c EXCEPT !.busy = b]
GivenUp(c) == [c EXCEPT !.left = TRUE]
ClientShut(c) == [c EXCEPT !.cl = FALSE, !.down = <<>>]
ServerShut(c) == [c EXCEPT !.sv = FALSE, !.up = <<>>, !.busy = <<>>]

\* Another queue of requests.
LEMMA UpConn ==
  ASSUME NEW c \in Conns, NEW u \in Seq(Frames)
  PROVE  /\ WithUp(c, u) \in Conns /\ WithUp(c, u).up = u
         /\ WithUp(c, u).busy = c.busy /\ WithUp(c, u).down = c.down
         /\ WithUp(c, u).cl = c.cl /\ WithUp(c, u).sv = c.sv /\ WithUp(c, u).left = c.left
BY ZenonT(30) DEF WithUp, Conns

\* Another queue of answers.
LEMMA DownConn ==
  ASSUME NEW c \in Conns, NEW d \in Seq(Answers)
  PROVE  /\ WithDown(c, d) \in Conns /\ WithDown(c, d).down = d
         /\ WithDown(c, d).busy = c.busy /\ WithDown(c, d).up = c.up
         /\ WithDown(c, d).cl = c.cl /\ WithDown(c, d).sv = c.sv /\ WithDown(c, d).left = c.left
BY ZenonT(30) DEF WithDown, Conns

\* Another answer to write.
LEMMA BusyConn ==
  ASSUME NEW c \in Conns, NEW b \in Seq(Answers)
  PROVE  /\ WithBusy(c, b) \in Conns /\ WithBusy(c, b).busy = b
         /\ WithBusy(c, b).up = c.up /\ WithBusy(c, b).down = c.down
         /\ WithBusy(c, b).cl = c.cl /\ WithBusy(c, b).sv = c.sv /\ WithBusy(c, b).left = c.left
BY ZenonT(30) DEF WithBusy, Conns

\* A caller gave up.
LEMMA LeftConn ==
  ASSUME NEW c \in Conns
  PROVE  /\ GivenUp(c) \in Conns /\ GivenUp(c).up = c.up
         /\ GivenUp(c).busy = c.busy /\ GivenUp(c).down = c.down
         /\ GivenUp(c).cl = c.cl /\ GivenUp(c).sv = c.sv /\ GivenUp(c).left
BY ZenonT(30) DEF GivenUp, Conns

\* Nothing is under way on a connection that is not in use.
LEMMA NoConnFacts ==
  /\ NoConn \in Conns /\ ~ NoConn.cl /\ ~ NoConn.sv /\ ~ NoConn.left
  /\ NoConn.up = <<>> /\ NoConn.busy = <<>> /\ NoConn.down = <<>>
<1>1. <<>> \in Seq(Frames) /\ <<>> \in Seq(Answers)
  OBVIOUS
<1> QED  BY <1>1, ZenonT(30) DEF NoConn, Conns

\* A new connection.
LEMMA NewConnFacts ==
  /\ NewConn \in Conns /\ NewConn.cl /\ NewConn.sv /\ ~ NewConn.left
  /\ NewConn.up = <<>> /\ NewConn.busy = <<>> /\ NewConn.down = <<>>
<1>1. PICK c \in Conns : c = NoConn
  BY NoConnFacts
<1>2. NewConn = [c EXCEPT !.cl = TRUE, !.sv = TRUE]
  BY <1>1 DEF NewConn
<1>3. /\ NewConn \in Conns /\ NewConn.cl /\ NewConn.sv /\ NewConn.left = c.left
      /\ NewConn.up = c.up /\ NewConn.busy = c.busy /\ NewConn.down = c.down
  BY <1>2, ZenonT(30) DEF Conns
<1> QED  BY <1>1, <1>3, NoConnFacts

\* The client's end is closed.
LEMMA ClientShutFacts ==
  ASSUME NEW c \in Conns, c.sv \/ (c.up = <<>> /\ c.busy = <<>>)
  PROVE  /\ Tidy(ClientShut(c)) \in Conns /\ ~ Tidy(ClientShut(c)).cl
         /\ Tidy(ClientShut(c)).sv = c.sv /\ Tidy(ClientShut(c)).up = c.up
         /\ Tidy(ClientShut(c)).busy = c.busy /\ Tidy(ClientShut(c)).down = <<>>
<1>1. <<>> \in Seq(Answers)
  OBVIOUS
<1>2. PICK d : d = ClientShut(c)
  OBVIOUS
<1>3. /\ d \in Conns /\ ~ d.cl /\ d.sv = c.sv /\ d.up = c.up
      /\ d.busy = c.busy /\ d.down = <<>>
  BY <1>1, <1>2, ZenonT(30) DEF ClientShut, Conns
<1>4. CASE c.sv
  BY <1>2, <1>3, <1>4, ZenonT(30) DEF Tidy
<1>5. CASE ~ c.sv
  <2>1. Tidy(d) = NoConn
    BY <1>3, <1>5, ZenonT(30) DEF Tidy
  <2>2. c.sv = FALSE /\ NoConn.sv = FALSE
    BY <1>5, NoConnFacts, ZenonT(30) DEF Conns, NoConn
  <2> QED  BY <1>2, <1>5, <2>1, <2>2, NoConnFacts, ZenonT(30)
<1> QED  BY <1>4, <1>5

\* The daemon's end is closed.
LEMMA ServerShutFacts ==
  ASSUME NEW c \in Conns
  PROVE  /\ Tidy(ServerShut(c)) \in Conns /\ ~ Tidy(ServerShut(c)).sv
         /\ Tidy(ServerShut(c)).up = <<>> /\ Tidy(ServerShut(c)).busy = <<>>
         /\ c.cl => /\ Tidy(ServerShut(c)).cl /\ Tidy(ServerShut(c)).left = c.left
                    /\ Tidy(ServerShut(c)).down = c.down
         /\ ~ c.cl => Tidy(ServerShut(c)) = NoConn
<1>1. <<>> \in Seq(Answers) /\ <<>> \in Seq(Frames)
  OBVIOUS
<1>2. PICK d : d = ServerShut(c)
  OBVIOUS
<1>3. /\ d \in Conns /\ ~ d.sv /\ d.cl = c.cl /\ d.up = <<>>
      /\ d.busy = <<>> /\ d.down = c.down /\ d.left = c.left
  BY <1>1, <1>2, ZenonT(30) DEF ServerShut, Conns
<1>4. CASE c.cl
  BY <1>2, <1>3, <1>4, ZenonT(30) DEF Tidy
<1>5. CASE ~ c.cl
  <2>1. Tidy(d) = NoConn
    BY <1>3, <1>5, ZenonT(30) DEF Tidy
  <2> QED  BY <1>2, <1>5, <2>1, NoConnFacts, ZenonT(30)
<1> QED  BY <1>4, <1>5

\* One connection is replaced.
LEMMA ConnsOne ==
  ASSUME TypeInv, NEW s \in Socks, NEW d \in Conns, conns' = [conns EXCEPT ![s] = d]
  PROVE  /\ conns' \in [Socks -> Conns] /\ conns'[s] = d
         /\ \A t \in Socks : t # s => conns'[t] = conns[t]
BY SMTT(30) DEF TypeInv

\* The last of two updates counts.
LEMMA Twice ==
  ASSUME NEW S, NEW T, NEW g \in [S -> T], NEW s \in S, NEW e, NEW d
  PROVE  [[g EXCEPT ![s] = e] EXCEPT ![s] = d] = [g EXCEPT ![s] = d]
OBVIOUS

Serving(cc, s, u, b) == [cc EXCEPT ![s].up = u, ![s].busy = b]

\* Both queues change at once.
LEMMA AnswerConns ==
  ASSUME NEW cc \in [Socks -> Conns], NEW s \in Socks, NEW u, NEW b
  PROVE  Serving(cc, s, u, b) = [cc EXCEPT ![s] = WithBusy(WithUp(cc[s], u), b)]
<1>1. PICK c : c = WithUp(cc[s], u)
  OBVIOUS
<1>2. PICK ff : ff = [cc EXCEPT ![s].up = u]
  OBVIOUS
<1>3. ff = [cc EXCEPT ![s] = c] /\ ff[s] = c
  BY <1>1, <1>2, SMTT(30) DEF WithUp
<1>4. Serving(cc, s, u, b) = [ff EXCEPT ![s].busy = b]
  BY <1>2 DEF Serving
<1>5. [ff EXCEPT ![s].busy = b] = [ff EXCEPT ![s] = WithBusy(ff[s], b)]
  BY DEF WithBusy
<1>6. [ff EXCEPT ![s] = WithBusy(c, b)] = [cc EXCEPT ![s] = WithBusy(c, b)]
  BY <1>3, Twice, ZenonT(30)
<1> QED  BY <1>1, <1>3, <1>4, <1>5, <1>6, ZenonT(30)

Writing(cc, s, u, b) == [cc EXCEPT ![s].down = u, ![s].busy = b]

\* Both queues change at once.
LEMMA WriteConns ==
  ASSUME NEW cc \in [Socks -> Conns], NEW s \in Socks, NEW u, NEW b
  PROVE  Writing(cc, s, u, b) = [cc EXCEPT ![s] = WithBusy(WithDown(cc[s], u), b)]
<1>1. PICK c : c = WithDown(cc[s], u)
  OBVIOUS
<1>2. PICK ff : ff = [cc EXCEPT ![s].down = u]
  OBVIOUS
<1>3. ff = [cc EXCEPT ![s] = c] /\ ff[s] = c
  BY <1>1, <1>2, SMTT(30) DEF WithDown
<1>4. Writing(cc, s, u, b) = [ff EXCEPT ![s].busy = b]
  BY <1>2 DEF Writing
<1>5. [ff EXCEPT ![s].busy = b] = [ff EXCEPT ![s] = WithBusy(ff[s], b)]
  BY DEF WithBusy
<1>6. [ff EXCEPT ![s] = WithBusy(c, b)] = [cc EXCEPT ![s] = WithBusy(c, b)]
  BY <1>3, Twice, ZenonT(30)
<1> QED  BY <1>1, <1>3, <1>4, <1>5, <1>6, ZenonT(30)

-----------------------------------------------------------------------------
(* A call goes on.                                                         *)

\* How much is under way.
LEMMA Loads ==
  ASSUME NEW c \in Conns
  PROVE  /\ Load(c) \in Nat
         /\ Load(c) = 0 <=> c.up = <<>> /\ c.busy = <<>> /\ c.down = <<>>
         /\ Load(c) <= 1 /\ c.up # <<>> => Len(c.up) = 1 /\ c.busy = <<>> /\ c.down = <<>>
         /\ Load(c) <= 1 /\ c.busy # <<>> => c.up = <<>> /\ Len(c.busy) = 1 /\ c.down = <<>>
         /\ Load(c) <= 1 /\ c.down # <<>> => c.up = <<>> /\ c.busy = <<>> /\ Len(c.down) = 1
<1>1. c.up \in Seq(Frames) /\ c.busy \in Seq(Answers) /\ c.down \in Seq(Answers)
  BY Queues
<1>2. /\ Len(c.up) \in Nat /\ (Len(c.up) = 0 <=> c.up = <<>>)
      /\ Len(c.busy) \in Nat /\ (Len(c.busy) = 0 <=> c.busy = <<>>)
      /\ Len(c.down) \in Nat /\ (Len(c.down) = 0 <=> c.down = <<>>)
  BY <1>1, SMTT(30)
<1>3. Load(c) = Len(c.up) + Len(c.busy) + Len(c.down)
  BY DEF Load
<1>4. \A x, y, z \in Nat : /\ x + y + z \in Nat
                           /\ x + y + z = 0 <=> x = 0 /\ y = 0 /\ z = 0
                           /\ x + y + z <= 1 /\ x # 0 => x = 1 /\ y = 0 /\ z = 0
                           /\ x + y + z <= 1 /\ y # 0 => x = 0 /\ y = 1 /\ z = 0
                           /\ x + y + z <= 1 /\ z # 0 => x = 0 /\ y = 0 /\ z = 1
  BY SMTT(30)
<1>5. PICK x, y, z \in Nat : x = Len(c.up) /\ y = Len(c.busy) /\ z = Len(c.down)
  BY <1>2
<1>6. Load(c) = x + y + z
  BY <1>3, <1>5
<1>7. /\ x + y + z \in Nat
      /\ x + y + z = 0 <=> x = 0 /\ y = 0 /\ z = 0
      /\ x + y + z <= 1 /\ x # 0 => x = 1 /\ y = 0 /\ z = 0
      /\ x + y + z <= 1 /\ y # 0 => x = 0 /\ y = 1 /\ z = 0
      /\ x + y + z <= 1 /\ z # 0 => x = 0 /\ y = 0 /\ z = 1
  BY <1>4
<1>8. (x = 0 <=> c.up = <<>>) /\ (y = 0 <=> c.busy = <<>>) /\ (z = 0 <=> c.down = <<>>)
  BY <1>2, <1>5
<1> QED  BY <1>5, <1>6, <1>7, <1>8, ZenonT(30)

At(r, a, so) == [r EXCEPT !.at = a, !.sock = so]

\* A worker goes on with its call.
LEMMA AtRec ==
  ASSUME NEW r \in Recs, NEW a \in {"send", "wait"}, NEW so \in Nat
  PROVE  /\ At(r, a, so) \in Recs /\ At(r, a, so).stage = r.stage /\ At(r, a, so).at = a
         /\ At(r, a, so).act = r.act /\ At(r, a, so).id = r.id /\ At(r, a, so).ran = r.ran
         /\ At(r, a, so).sock = so
<1>1. a \in {"none", "want", "send", "wait", "run"}
  OBVIOUS
<1> QED  BY <1>1, ZenonT(30) DEF At, Recs

Put(ww, w, a, so) == [ww EXCEPT ![w].at = a, ![w].sock = so]

\* Both fields change at once.
LEMMA PutAt ==
  ASSUME NEW ww \in [Workers -> Recs], NEW w \in Workers, NEW a, NEW so
  PROVE  Put(ww, w, a, so) = [ww EXCEPT ![w] = At(ww[w], a, so)]
<1>1. PICK r : r = [ww[w] EXCEPT !.at = a]
  OBVIOUS
<1>2. PICK ff : ff = [ww EXCEPT ![w].at = a]
  OBVIOUS
<1>3. ff = [ww EXCEPT ![w] = r] /\ ff[w] = r
  BY <1>1, <1>2, SMTT(30)
<1>4. Put(ww, w, a, so) = [ff EXCEPT ![w].sock = so]
  BY <1>2 DEF Put
<1>5. [ff EXCEPT ![w].sock = so] = [ff EXCEPT ![w] = [ff[w] EXCEPT !.sock = so]]
  OBVIOUS
<1>6. [ff EXCEPT ![w] = [r EXCEPT !.sock = so]] = [ww EXCEPT ![w] = [r EXCEPT !.sock = so]]
  BY <1>3, Twice, ZenonT(30)
<1>7. [r EXCEPT !.sock = so] = At(ww[w], a, so)
  BY <1>1, SMTT(30) DEF At
<1> QED  BY <1>3, <1>4, <1>5, <1>6, <1>7, ZenonT(30)

\* The call of a worker goes on.
LEMMA GoesOn ==
  ASSUME TypeInv, WorkInv, Grows, chain' = chain, acts' = acts, astray' = astray,
         NEW w \in Workers, NEW x \in Recs, work' = [work EXCEPT ![w] = x],
         work[w].at \in {"want", "send"}, x.at \in {"send", "wait"}, x.stage = work[w].stage,
         x.act = work[w].act, x.id = work[w].id, x.ran = work[w].ran
  PROVE  /\ work' \in [Workers -> Recs] /\ WorkInv' /\ work'[w] = x
         /\ \A v \in Workers : v # w => work'[v] = work[v]
         /\ \A v \in Workers : Moved(v)
         /\ Frame(w)' = Frame(w)
<1>1. PICK r \in Recs : r = work[w]
  BY DEF TypeInv
<1>2. RecAt(w, r, chain, astray, acts)
  BY <1>1 DEF WorkInv, RecOK
<1>3. r.stage \in Phases
  BY <1>1, <1>2 DEF RecAt
<1>4. RecAt(w, x, chain', astray', acts')
  BY <1>1, <1>2, <1>3, ZenonT(30) DEF RecAt
<1>5. /\ work' \in [Workers -> Recs] /\ WorkInv' /\ work'[w] = x
      /\ \A v \in Workers : v # w => work'[v] = work[v]
  BY <1>1, <1>4, WorkMoves
<1>6. Unsent(x) \subseteq Unsent(r)
  BY <1>1 DEF Unsent
<1>7. \A v \in Workers : Moved(v)
  BY <1>1, <1>5, <1>6 DEF Moved
<1>8. Frame(w)' = Frame(w)
  BY <1>5 DEF Frame
<1> QED  BY <1>5, <1>7, <1>8

\* The request of a call.
LEMMA FrameRec ==
  ASSUME TypeInv, WorkInv, NEW w \in Workers, work[w].at \in {"want", "send"}
  PROVE  /\ Frame(w) \in Frames /\ FrameOK(Frame(w))
         /\ Frame(w).act = work[w].act /\ Frame(w).phase = work[w].stage
         /\ work[w].stage \in Unsent(work[w])
<1>1. PICK r \in Recs : r = work[w]
  BY DEF TypeInv
<1>2. RecAt(w, r, chain, astray, acts)
  BY <1>1 DEF WorkInv, RecOK
<1>3. r.stage \in Phases /\ r.act \in Nat /\ r.id \in Nat
  BY <1>1, <1>2 DEF RecAt, Recs
<1>4. r.act \in 1..acts
  <2>1. r.stage # "idle"
    BY <1>3 DEF Phases
  <2>2. acts \in Nat /\ r.act \in 0..acts /\ r.act # 0
    BY <1>2, <2>1 DEF RecAt, TypeInv
  <2> QED  BY <2>2, SMTT(30)
<1>5. PICK k : k = IF r.stage = "post" THEN r.id ELSE 0
  OBVIOUS
<1>6. k \in Nat /\ k <= Len(chain) /\ (k # 0 => r.stage = "post" /\ k = r.id) /\ (r.stage = "post" => k = r.id)
  <2>1. Len(chain) \in Nat /\ r.id <= Len(chain)
    BY <1>2, Lengths DEF RecAt
  <2> QED  BY <1>3, <1>5, <2>1, SMTT(30)
<1>7. Frame(w) = [agent |-> w, act |-> r.act, phase |-> r.stage, link |-> k]
  BY <1>1, <1>5, ZenonT(30) DEF Frame
<1>8. Frame(w) \in Frames
  BY <1>3, <1>6, <1>7, SMTT(30) DEF Frames
<1>9. FrameOK(Frame(w))
  <2>1. Frame(w).agent = w /\ Frame(w).act = r.act /\ Frame(w).phase = r.stage /\ Frame(w).link = k
    BY <1>7, SMTT(30)
  <2> QED  BY <1>2, <1>4, <1>6, <2>1, ZenonT(30) DEF FrameOK, RecAt
<1>10. work[w].stage \in Unsent(work[w])
  BY DEF Unsent
<1>11. Frame(w).act = r.act /\ Frame(w).phase = r.stage
  BY <1>7, SMTT(30)
<1> QED  BY <1>1, <1>8, <1>9, <1>10, <1>11

\* _lock is taken, and a connection made if there is none.
LEMMA LockStep ==
  ASSUME ClientsInv, NEW w \in Workers, Lock(w)
  PROVE  ClientsInv' /\ Grows
<1>1. /\ w \in Py /\ work[w].at = "want" /\ lock = NoWorker /\ lock' = w
      /\ work' = [work EXCEPT ![w].at = "send", ![w].sock = sock']
      /\ chain' = chain /\ acts' = acts /\ astray' = astray
      /\ \/ sock # NoSock /\ sock' = sock /\ conns' = conns
         \/ /\ sock = NoSock /\ sock' \in Socks /\ conns[sock'] = NoConn
            /\ conns' = [conns EXCEPT ![sock'] = NewConn]
  BY DEF Lock, Opened
<1>2. TypeInv /\ LogInv /\ WorkInv /\ HoldInv /\ ConnInv /\ MatchInv
  BY DEF ClientsInv
<1>3. Grows
  BY <1>1, <1>2, GrowsSame
<1>4. PICK s : s = sock'
  OBVIOUS
<1>5. s \in Socks /\ s \in Nat /\ s # NoSock
  BY <1>1, <1>2, <1>4, Constants, SMTT(30) DEF TypeInv, Socks, NoSock
<1>6. PICK x : x = At(work[w], "send", s)
  OBVIOUS
<1>7. work' = [work EXCEPT ![w] = x]
  <2>1. work' = Put(work, w, "send", s)
    BY <1>1, <1>4 DEF Put
  <2> QED  BY <1>2, <1>6, <2>1, PutAt DEF TypeInv
<1>8. work[w] \in Recs
  BY <1>2 DEF TypeInv
<1>9. /\ x \in Recs /\ x.stage = work[w].stage /\ x.at = "send"
      /\ x.act = work[w].act /\ x.id = work[w].id /\ x.ran = work[w].ran /\ x.sock = s
  <2>1. "send" \in {"send", "wait"}
    OBVIOUS
  <2> QED  BY <1>5, <1>6, <1>8, <2>1, AtRec
<1>10. /\ work' \in [Workers -> Recs] /\ WorkInv' /\ work'[w] = x
       /\ \A v \in Workers : v # w => work'[v] = work[v]
       /\ \A v \in Workers : Moved(v)
  BY <1>1, <1>2, <1>3, <1>7, <1>9, GoesOn
<1>11. /\ conns' \in [Socks -> Conns] /\ conns'[s].cl
       /\ \A t \in Socks : t # s => conns'[t] = conns[t]
       /\ \/ conns'[s] = conns[s] /\ sock = s
          \/ conns[s] = NoConn /\ conns'[s] = NewConn
  <2>1. CASE sock # NoSock /\ sock' = sock /\ conns' = conns
    BY <1>2, <1>4, <2>1 DEF TypeInv, HoldInv
  <2>2. CASE conns[sock'] = NoConn /\ conns' = [conns EXCEPT ![sock'] = NewConn]
    <3>1. conns' = [conns EXCEPT ![s] = NewConn]
      BY <1>4, <2>2
    <3>2. /\ conns' \in [Socks -> Conns] /\ conns'[s] = NewConn
          /\ \A t \in Socks : t # s => conns'[t] = conns[t]
      BY <1>2, <1>5, <3>1, ConnsOne, NewConnFacts
    <3> QED  BY <1>4, <2>2, <3>2, NewConnFacts
  <2> QED  BY <1>1, <2>1, <2>2
<1>12. TypeInv'
  BY <1>1, <1>2, <1>4, <1>5, <1>10, <1>11 DEF TypeInv
<1>13. LogInv'
  <2>1. ASSUME NEW t \in Socks  PROVE Up(t)' = Up(t)
    <3>1. CASE t # s
      BY <1>11, <3>1 DEF Up
    <3>2. CASE t = s
      <4>1. conns'[s].up = conns[s].up
        BY <1>11, NoConnFacts, NewConnFacts
      <4> QED  BY <3>2, <4>1 DEF Up
    <3> QED  BY <3>1, <3>2
  <2>2. Drains
    BY <1>2, <2>1, DrainsSame
  <2> QED  BY <1>1, <1>2, <1>3, <1>10, <1>12, <2>2, LogDrains
<1>14. HoldInv'
  <2>1. ASSUME NEW v \in Workers  PROVE HoldOK(v)'
    <3>1. CASE v = w
      <4>1. v \notin Ts
        BY <1>1, <3>1, Constants
      <4>2. work'[v].at = "send" /\ work'[v].sock = s
        BY <1>9, <1>10, <3>1
      <4> QED  BY <1>1, <1>4, <1>5, <3>1, <4>1, <4>2 DEF HoldOK
    <3>2. CASE v # w
      <4>1. HoldOK(v) /\ work'[v] = work[v]
        BY <1>2, <1>10, <3>2 DEF HoldInv
      <4>2. ~ (v \in Py /\ work[v].at \in {"send", "wait"})
        BY <1>1, <4>1, Constants DEF HoldOK
      <4>3. ASSUME v \in Ts, work[v].at = "wait"
            PROVE  /\ work[v].sock \in Socks /\ work[v].sock # s
                   /\ conns'[work[v].sock].cl /\ ~ conns'[work[v].sock].left
        <5>1. PICK k : k = work[v].sock
          OBVIOUS
        <5>2. k \in Socks /\ k # sock /\ conns[k].cl /\ ~ conns[k].left
          BY <4>1, <4>3, <5>1 DEF HoldOK
        <5>3. k # s
          BY <1>11, <5>2, NoConnFacts
        <5>4. conns'[k] = conns[k]
          BY <1>11, <5>2, <5>3
        <5> QED  BY <5>1, <5>2, <5>3, <5>4
      <4>4. work[v].at = "send" => v \in Py
        BY <4>1 DEF HoldOK
      <4>5. /\ work'[v].at = "send" => v \in Py
            /\ ~ (v \in Py /\ work'[v].at \in {"send", "wait"})
            /\ v \in Ts /\ work'[v].at = "wait" =>
                 /\ work'[v].sock \in Socks /\ work'[v].sock # sock'
                 /\ conns'[work'[v].sock].cl /\ ~ conns'[work'[v].sock].left
        BY <1>4, <4>1, <4>2, <4>3, <4>4
      <4> QED  BY <4>5 DEF HoldOK
    <3> QED  BY <3>1, <3>2
  <2>2. ASSUME NEW u \in Ts, NEW v \in Ts, work'[u].at = "wait", work'[v].at = "wait",
               work'[u].sock = work'[v].sock
        PROVE  u = v
    <3>1. u # w /\ v # w /\ u \in Workers /\ v \in Workers
      BY <1>1, Constants DEF Workers
    <3>2. work'[u] = work[u] /\ work'[v] = work[v]
      BY <1>10, <3>1
    <3> QED  BY <1>2, <2>2, <3>2 DEF HoldInv
  <2>3. conns'[sock'].cl
    BY <1>4, <1>11
  <2> QED  BY <2>1, <2>2, <2>3 DEF HoldInv
<1>15. ConnOK(conns[s])'
  <2>1. CASE conns'[s] = conns[s]
    <3>1. PICK c \in Conns : c = conns[s]
      BY <1>2, <1>5 DEF TypeInv
    <3>2. ConnOK(c)'
      BY <1>2, <1>3, <1>5, <3>1, ConnGrows DEF ConnInv
    <3> QED  BY <2>1, <3>1, <3>2
  <2>2. CASE conns'[s] = NewConn
    BY <2>2, NewConnFacts DEF ConnOK
  <2> QED  BY <1>11, <2>1, <2>2
<1>16. ConnInv'
  BY <1>2, <1>3, <1>5, <1>11, <1>15, ConnOne
<1>17. MatchInv'
  <2>1. ~ WaitsOn(w, s) /\ ~ WaitsOn(w, s)'
    BY <1>1, <1>9, <1>10 DEF WaitsOn
  <2>2. MatchOK(s)'
    <3>1. CASE conns'[s] = conns[s]
      <4>1. \A v \in Workers : /\ WaitsOn(v, s)' <=> WaitsOn(v, s)
                               /\ WaitsOn(v, s) => Frame(v)' = Frame(v)
        BY <1>10, <2>1, OthersWait
      <4> QED  BY <1>2, <1>3, <1>5, <3>1, <4>1, MatchKept
    <3>2. CASE conns'[s] = NewConn
      <4>1. conns'[s] \in Conns /\ Load(conns'[s]) = 0
        BY <3>2, NewConnFacts, Loads
      <4> QED  BY <1>5, <4>1, MatchEmpty
    <3> QED  BY <1>11, <3>1, <3>2
  <2>3. work[w].at # "wait" /\ work'[w].at # "wait"
    BY <1>1, <1>9, <1>10
  <2> QED  BY <1>2, <1>3, <1>5, <1>10, <1>11, <2>2, <2>3, MatchOne
<1> QED  BY <1>3, <1>10, <1>12, <1>13, <1>14, <1>16, <1>17 DEF ClientsInv

-----------------------------------------------------------------------------
(* A call that was sent ends.                                              *)

\* The first of a queue and the others.
LEMMA HeadTail ==
  ASSUME NEW S, NEW q \in Seq(S), q # <<>>
  PROVE  /\ 1 \in DOMAIN q /\ Head(q) = q[1] /\ Head(q) \in S
         /\ Tail(q) \in Seq(S) /\ Len(Tail(q)) = Len(q) - 1
         /\ \A n \in DOMAIN Tail(q) : n + 1 \in DOMAIN q /\ Tail(q)[n] = q[n + 1]
<1>1. Len(q) \in Nat /\ Len(q) # 0 /\ DOMAIN q = 1..Len(q)
  OBVIOUS
<1>2. Head(q) = q[1] /\ Tail(q) \in Seq(S) /\ Len(Tail(q)) = Len(q) - 1
  BY <1>1, SMTT(30)
<1>3. DOMAIN Tail(q) = 1..(Len(q) - 1)
  BY <1>2
<1>4. \A n \in 1..(Len(q) - 1) : n + 1 \in 1..Len(q) /\ Tail(q)[n] = q[n + 1]
  BY <1>1, SMTT(30)
<1>5. 1 \in 1..Len(q) /\ q[1] \in S
  BY <1>1, SMTT(30)
<1> QED  BY <1>1, <1>2, <1>3, <1>4, <1>5

\* The call of worker w on connection s ends.
LEMMA EndsOn ==
  ASSUME ClientsInv, NEW w \in Workers, NEW s, WaitsOn(w, s),
         chain' = chain, acts' = acts, sock' = sock, astray \subseteq astray',
         lock' \in Py \cup {NoWorker}, \A v \in Py : v # w /\ lock = v => lock' = v,
         NEW id \in Nat, id <= Len(chain),
         work[w].stage = "pre" /\ id # 0 /\ work[w].act \notin astray' => chain[id] = Pre(w, work[w].act),
         \E x \in CallEnds(work[w], id) : work' = [work EXCEPT ![w] = x],
         NEW d \in Conns, conns' = [conns EXCEPT ![s] = d],
         d.up = conns[s].up, ConnOK(d), w \in Ts \/ (w \in Py /\ d.cl),
         d.cl /\ ~ d.left => Load(d) = 0
  PROVE  ClientsInv' /\ Grows
<1>1. TypeInv /\ LogInv /\ WorkInv /\ HoldInv /\ ConnInv /\ MatchInv
  BY DEF ClientsInv
<1>2. Grows
  BY <1>1, GrowsSame
<1>3. s \in Socks /\ work[w].at = "wait" /\ work[w].sock = s
  BY <1>1, Sole DEF WaitsOn
<1>4. /\ work' \in [Workers -> Recs] /\ WorkInv'
      /\ work'[w].at \in {"none", "want", "run"}
      /\ \A v \in Workers : v # w => work'[v] = work[v]
      /\ \A v \in Workers : Moved(v)
  BY <1>1, <1>2, CallMoves
<1>5. /\ conns' \in [Socks -> Conns] /\ conns'[s] = d
      /\ \A t \in Socks : t # s => conns'[t] = conns[t]
  BY <1>1, <1>3, ConnsOne
<1>6. TypeInv'
  BY <1>1, <1>4, <1>5 DEF TypeInv
<1>7. LogInv'
  <2>1. \A t \in Socks : Up(t)' = Up(t)
    BY <1>5 DEF Up
  <2>2. Drains
    BY <1>1, <2>1, DrainsSame
  <2> QED  BY <1>1, <1>2, <1>4, <1>6, <2>2, LogDrains
<1>8. HoldInv'
  <2>1. ASSUME NEW t \in Socks
        PROVE  \/ KeepsEnds(t)
               \/ w \in Ts /\ work[w].at = "wait" /\ t = work[w].sock
               \/ t = sock /\ conns'[t].cl
    <3>1. CASE t # s
      BY <1>5, <3>1 DEF KeepsEnds
    <3>2. CASE t = s /\ w \in Ts
      BY <1>3, <3>2
    <3>3. CASE t = s /\ w \in Py /\ d.cl
      BY <1>1, <1>3, <1>5, <3>3, Holder
    <3> QED  BY <3>1, <3>2, <3>3
  <2> QED  BY <1>1, <1>4, <2>1, HoldKept
<1>9. ConnInv'
  <2>1. ConnOK(d)'
    BY <1>1, <1>2, ConnGrows
  <2>2. ConnOK(conns[s])'
    BY <1>5, <2>1
  <2> QED  BY <1>1, <1>2, <1>3, <1>5, <2>2, ConnOne
<1>10. MatchInv'
  <2>1. MatchOK(s)'
    <3>1. CASE d.cl /\ ~ d.left
      BY <1>3, <1>5, <3>1, MatchEmpty
    <3>2. CASE ~ (d.cl /\ ~ d.left)
      BY <1>5, <3>2, ZenonT(30) DEF MatchOK
    <3> QED  BY <3>1, <3>2
  <2>2. work'[w].at # "wait"
    BY <1>4
  <2> QED  BY <1>1, <1>2, <1>3, <1>4, <1>5, <2>1, <2>2, MatchOne
<1> QED  BY <1>2, <1>4, <1>6, <1>7, <1>8, <1>9, <1>10 DEF ClientsInv

\* The answer a caller reads on a connection where nobody gave up is its own.
LEMMA OwnAnswer ==
  ASSUME ClientsInv, NEW w \in Workers, NEW s, WaitsOn(w, s), NEW c \in Conns, c = conns[s], c.down # <<>>,
         NEW a, a = Head(c.down)
  PROVE  /\ a \in Answers /\ a.id \in Nat /\ a.id <= Len(chain)
         /\ ~ c.left /\ work[w].stage = "pre" /\ a.id # 0 => chain[a.id] = Pre(w, work[w].act)
<1>1. s \in Socks /\ c.cl
  BY Sole DEF ClientsInv
<1>2. c.down \in Seq(Answers)
  BY Queues
<1>3. a \in Answers /\ 1 \in DOMAIN c.down /\ a = c.down[1]
  BY <1>2, HeadTail
<1>4. a.id \in Nat
  BY <1>3 DEF Answers
<1>5. AnswerOK(a)
  BY <1>1, <1>3 DEF ClientsInv, ConnInv, ConnOK
<1>6. ASSUME ~ c.left, work[w].stage = "pre", a.id # 0
      PROVE  chain[a.id] = Pre(w, work[w].act)
  <2>1. Owned(w, c)
    BY <1>1, <1>6 DEF ClientsInv, MatchInv, MatchOK
  <2>2. Right(w, a) /\ a.type = "sign"
    BY <1>3, <1>5, <1>6, <2>1 DEF Owned, AnswerOK
  <2>3. chain[a.id] = Frame(w)
    BY <2>2 DEF Right
  <2>4. Frame(w) = Pre(w, work[w].act)
    BY <1>6 DEF Frame, Pre
  <2> QED  BY <2>3, <2>4
<1> QED  BY <1>3, <1>4, <1>5, <1>6 DEF AnswerOK

\* A Python caller reads an answer.
LEMMA ReadStep ==
  ASSUME ClientsInv, NEW w \in Workers, Read(w)
  PROVE  ClientsInv' /\ Grows
<1>0. PICK s : s = work[w].sock
  OBVIOUS
<1>1. WaitsOn(w, s) /\ w \in Py
  BY <1>0 DEF Read, WaitsOn
<1>2. s \in Socks /\ conns[s].cl /\ TypeInv
  BY <1>1, Sole DEF ClientsInv
<1>3. PICK c \in Conns : c = conns[s]
  BY <1>2 DEF TypeInv
<1>4. PICK a : a = Head(c.down)
  OBVIOUS
<1>5. /\ c.down # <<>> /\ lock' = NoWorker
      /\ conns' = [conns EXCEPT ![s].down = Tail(c.down)]
      /\ Returns(w, a.id) \/ Fails(w)
      /\ astray' = IF c.left THEN astray \cup {work[w].act} ELSE astray
      /\ chain' = chain /\ sock' = sock /\ acts' = acts
  BY <1>0, <1>3, <1>4 DEF Read
<1>6. lock = w
  BY <1>1, Holder DEF ClientsInv, WaitsOn
<1>7. /\ a \in Answers /\ a.id \in Nat /\ a.id <= Len(chain)
      /\ ~ c.left /\ work[w].stage = "pre" /\ a.id # 0 => chain[a.id] = Pre(w, work[w].act)
  BY <1>1, <1>3, <1>4, <1>5, OwnAnswer
<1>8. /\ work[w].stage = "pre" /\ a.id # 0 /\ work[w].act \notin astray' => chain[a.id] = Pre(w, work[w].act)
      /\ astray \subseteq astray'
  BY <1>5, <1>7
<1>9. \E x \in CallEnds(work[w], a.id) : work' = [work EXCEPT ![w] = x]
  BY <1>5, ReturnsEnds, FailsEnds
<1>10. c.down \in Seq(Answers)
  BY Queues
<1>11. /\ Tail(c.down) \in Seq(Answers) /\ Len(Tail(c.down)) = Len(c.down) - 1
       /\ \A n \in DOMAIN Tail(c.down) : n + 1 \in DOMAIN c.down /\ Tail(c.down)[n] = c.down[n + 1]
  BY <1>5, <1>10, HeadTail
<1>12. PICK d : d = WithDown(c, Tail(c.down))
  OBVIOUS
<1>13. conns' = [conns EXCEPT ![s] = d]
  BY <1>2, <1>3, <1>5, <1>12, SMTT(30) DEF TypeInv, WithDown
<1>14. /\ d \in Conns /\ d.down = Tail(c.down) /\ d.busy = c.busy /\ d.up = c.up
       /\ d.cl = c.cl /\ d.sv = c.sv /\ d.left = c.left
  BY <1>11, <1>12, DownConn, ZenonT(30)
<1>15. ConnOK(c)
  BY <1>2, <1>3 DEF ClientsInv, ConnInv
<1>16. ConnOK(d)
  BY <1>11, <1>14, <1>15, ZenonT(30) DEF ConnOK
<1>17. ASSUME d.cl, ~ d.left  PROVE Load(d) = 0
  <2>1. Load(c) <= 1
    BY <1>2, <1>3, <1>14, <1>17 DEF ClientsInv, MatchInv, MatchOK
  <2>2. c.up = <<>> /\ c.busy = <<>> /\ Len(c.down) = 1
    BY <1>5, <2>1, Loads
  <2>3. Tail(c.down) = <<>>
    BY <1>11, <2>2, SMTT(30)
  <2> QED  BY <1>14, <2>2, <2>3, Loads
<1>18. d.cl
  BY <1>2, <1>3, <1>14
<1>19. lock' \in Py \cup {NoWorker} /\ \A v \in Py : v # w /\ lock = v => lock' = v
  BY <1>5, <1>6
<1>20. d.up = conns[s].up
  BY <1>3, <1>14
<1> QED  BY <1>1, <1>5, <1>7, <1>8, <1>9, <1>13, <1>14, <1>16, <1>17, <1>18, <1>19, <1>20, EndsOn

\* It gives up.
LEMMA GiveUpStep ==
  ASSUME ClientsInv, NEW w \in Workers, GiveUp(w)
  PROVE  ClientsInv' /\ Grows
<1>0. PICK s : s = work[w].sock
  OBVIOUS
<1>1. WaitsOn(w, s) /\ w \in Py
  BY <1>0 DEF GiveUp, WaitsOn
<1>2. s \in Socks /\ conns[s].cl /\ TypeInv
  BY <1>1, Sole DEF ClientsInv
<1>3. PICK c \in Conns : c = conns[s]
  BY <1>2 DEF TypeInv
<1>4. /\ lock' = NoWorker /\ conns' = [conns EXCEPT ![s].left = TRUE] /\ Raises(w)
      /\ chain' = chain /\ sock' = sock /\ acts' = acts /\ astray' = astray
  BY <1>0 DEF GiveUp
<1>5. lock = w
  BY <1>1, Holder DEF ClientsInv, WaitsOn
<1>6. \E x \in CallEnds(work[w], 0) : work' = [work EXCEPT ![w] = x]
  BY <1>4, FailsEnds
<1>7. PICK d : d = GivenUp(c)
  OBVIOUS
<1>8. conns' = [conns EXCEPT ![s] = d]
  BY <1>2, <1>3, <1>4, <1>7, SMTT(30) DEF TypeInv, GivenUp
<1>9. /\ d \in Conns /\ d.down = c.down /\ d.busy = c.busy /\ d.up = c.up
      /\ d.cl = c.cl /\ d.sv = c.sv /\ d.left
  BY <1>7, LeftConn
<1>10. ConnOK(c)
  BY <1>2, <1>3 DEF ClientsInv, ConnInv
<1>11. ConnOK(d)
  BY <1>9, <1>10, ZenonT(30) DEF ConnOK
<1>12. d.cl /\ d.up = conns[s].up
  BY <1>2, <1>3, <1>9
<1>13. lock' \in Py \cup {NoWorker} /\ \A v \in Py : v # w /\ lock = v => lock' = v
  BY <1>4, <1>5
<1>14. 0 \in Nat /\ 0 <= Len(chain)
  BY <1>2, Lengths
<1> QED  BY <1>1, <1>4, <1>6, <1>8, <1>9, <1>11, <1>12, <1>13, <1>14, EndsOn

\* The connection of a TypeScript caller is destroyed.
LEMMA DestroyFacts ==
  ASSUME ClientsInv, NEW s \in Socks, NEW d, d = Tidy(ClientShut(conns[s]))
  PROVE  d \in Conns /\ ~ d.cl /\ d.up = conns[s].up /\ ConnOK(d)
<1>1. PICK c \in Conns : c = conns[s]
  BY DEF ClientsInv, TypeInv
<1>2. ConnOK(c)
  BY <1>1 DEF ClientsInv, ConnInv
<1>3. c.sv \/ (c.up = <<>> /\ c.busy = <<>>)
  BY <1>2 DEF ConnOK
<1>4. /\ d \in Conns /\ ~ d.cl /\ d.sv = c.sv /\ d.up = c.up /\ d.busy = c.busy /\ d.down = <<>>
  BY <1>1, <1>3, ClientShutFacts, ZenonT(30)
<1>5. \A n : n \notin DOMAIN d.down
  BY <1>4
<1>6. ConnOK(d)
  BY <1>2, <1>4, <1>5, ZenonT(30) DEF ConnOK
<1> QED  BY <1>1, <1>4, <1>6

\* A TypeScript caller takes its answer.
LEMMA CallSettlesStep ==
  ASSUME ClientsInv, NEW w \in Workers, CallSettles(w)
  PROVE  ClientsInv' /\ Grows
<1>0. PICK s : s = work[w].sock
  OBVIOUS
<1>1. WaitsOn(w, s) /\ w \in Ts /\ work[w].at = "wait"
  BY <1>0 DEF CallSettles, WaitsOn
<1>2. s \in Socks /\ ~ conns[s].left /\ TypeInv
  BY <1>0, <1>1 DEF ClientsInv, HoldInv, HoldOK
<1>3. PICK c \in Conns : c = conns[s]
  BY <1>2 DEF TypeInv
<1>4. PICK a : a = Head(c.down)
  OBVIOUS
<1>5. /\ c.down # <<>> /\ Destroy(s)
      /\ Returns(w, a.id) \/ Fails(w)
      /\ chain' = chain /\ sock' = sock /\ lock' = lock /\ acts' = acts /\ astray' = astray
  BY <1>0, <1>3, <1>4 DEF CallSettles
<1>6. /\ a.id \in Nat /\ a.id <= Len(chain)
      /\ work[w].stage = "pre" /\ a.id # 0 => chain[a.id] = Pre(w, work[w].act)
  BY <1>1, <1>2, <1>3, <1>4, <1>5, OwnAnswer
<1>7. \E x \in CallEnds(work[w], a.id) : work' = [work EXCEPT ![w] = x]
  BY <1>5, ReturnsEnds, FailsEnds
<1>8. PICK d : d = Tidy(ClientShut(conns[s]))
  OBVIOUS
<1>9. conns' = [conns EXCEPT ![s] = d]
  BY <1>5, <1>8 DEF Destroy, ClientShut
<1>10. d \in Conns /\ ~ d.cl /\ d.up = conns[s].up /\ ConnOK(d)
  BY <1>2, <1>8, DestroyFacts
<1>11. lock' \in Py \cup {NoWorker}
  BY <1>2, <1>5 DEF TypeInv
<1> QED  BY <1>1, <1>5, <1>6, <1>7, <1>9, <1>10, <1>11, EndsOn

\* A TypeScript caller gets none.
LEMMA CallFailsStep ==
  ASSUME ClientsInv, NEW w \in Workers, CallFails(w)
  PROVE  ClientsInv' /\ Grows
<1>0. PICK s : s = work[w].sock
  OBVIOUS
<1>1. WaitsOn(w, s) /\ w \in Ts /\ work[w].at = "wait"
  BY <1>0 DEF CallFails, WaitsOn
<1>2. s \in Socks /\ TypeInv
  BY <1>0, <1>1 DEF ClientsInv, HoldInv, HoldOK
<1>3. /\ Destroy(s) /\ Fails(w)
      /\ chain' = chain /\ sock' = sock /\ lock' = lock /\ acts' = acts /\ astray' = astray
  BY <1>0 DEF CallFails
<1>4. \E x \in CallEnds(work[w], 0) : work' = [work EXCEPT ![w] = x]
  BY <1>3, FailsEnds
<1>5. PICK d : d = Tidy(ClientShut(conns[s]))
  OBVIOUS
<1>6. conns' = [conns EXCEPT ![s] = d]
  BY <1>3, <1>5 DEF Destroy, ClientShut
<1>7. d \in Conns /\ ~ d.cl /\ d.up = conns[s].up /\ ConnOK(d)
  BY <1>2, <1>5, DestroyFacts
<1>8. lock' \in Py \cup {NoWorker}
  BY <1>2, <1>3 DEF TypeInv
<1>9. 0 \in Nat /\ 0 <= Len(chain)
  BY <1>2, Lengths
<1> QED  BY <1>1, <1>3, <1>4, <1>6, <1>7, <1>8, <1>9, EndsOn

\* ANSClient.close: nobody is in a call on the shared connection.
LEMMA CloseSockStep ==
  ASSUME ClientsInv, CloseSock
  PROVE  ClientsInv' /\ Grows
<1>1. /\ lock = NoWorker /\ sock # NoSock /\ sock' = NoSock
      /\ conns' = [conns EXCEPT ![sock] = Tidy(ClientShut(conns[sock]))]
      /\ chain' = chain /\ lock' = lock /\ work' = work /\ acts' = acts /\ astray' = astray
  BY DEF CloseSock, ClientShut
<1>2. TypeInv /\ LogInv /\ WorkInv /\ HoldInv /\ ConnInv /\ MatchInv
  BY DEF ClientsInv
<1>3. Grows
  BY <1>1, <1>2, GrowsSame
<1>4. PICK s \in Socks : s = sock
  BY <1>1, <1>2 DEF TypeInv
<1>5. PICK d : d = Tidy(ClientShut(conns[s]))
  OBVIOUS
<1>6. d \in Conns /\ ~ d.cl /\ d.up = conns[s].up /\ ConnOK(d)
  BY <1>4, <1>5, DestroyFacts
<1>7. conns' = [conns EXCEPT ![s] = d]
  BY <1>1, <1>4, <1>5
<1>8. /\ conns' \in [Socks -> Conns] /\ conns'[s] = d
      /\ \A t \in Socks : t # s => conns'[t] = conns[t]
  BY <1>2, <1>6, <1>7, ConnsOne
<1>9. TypeInv'
  BY <1>1, <1>2, <1>8 DEF TypeInv
<1>10. WorkInv' /\ \A v \in Workers : Moved(v)
  BY <1>1, <1>2, <1>3, WorkStill
<1>11. LogInv'
  <2>1. \A t \in Socks : Up(t)' = Up(t)
    BY <1>6, <1>8 DEF Up
  <2>2. Drains
    BY <1>2, <2>1, DrainsSame
  <2> QED  BY <1>1, <1>2, <1>3, <1>9, <1>10, <2>2, LogDrains
<1>12. HoldInv'
  <2>1. ASSUME NEW v \in Workers  PROVE HoldOK(v)'
    <3>1. HoldOK(v) /\ work'[v] = work[v]
      BY <1>1, <1>2 DEF HoldInv
    <3>2. ~ (v \in Py /\ work[v].at \in {"send", "wait"})
      BY <1>1, <3>1, Constants DEF HoldOK
    <3>3. ASSUME v \in Ts, work[v].at = "wait"
          PROVE  /\ work[v].sock \in Socks /\ work[v].sock # NoSock
                 /\ conns'[work[v].sock].cl /\ ~ conns'[work[v].sock].left
      <4>1. PICK k : k = work[v].sock
        OBVIOUS
      <4>2. k \in Socks /\ k # sock /\ conns[k].cl /\ ~ conns[k].left
        BY <3>1, <3>3, <4>1 DEF HoldOK
      <4>3. conns'[k] = conns[k] /\ k # NoSock
        BY <1>4, <1>8, <4>2, Constants
      <4> QED  BY <4>1, <4>2, <4>3
    <3>4. work[v].at = "send" => v \in Py
      BY <3>1 DEF HoldOK
    <3>5. /\ work'[v].at = "send" => v \in Py
          /\ ~ (v \in Py /\ work'[v].at \in {"send", "wait"})
          /\ v \in Ts /\ work'[v].at = "wait" =>
               /\ work'[v].sock \in Socks /\ work'[v].sock # sock'
               /\ conns'[work'[v].sock].cl /\ ~ conns'[work'[v].sock].left
      BY <1>1, <3>1, <3>2, <3>3, <3>4
    <3> QED  BY <3>5 DEF HoldOK
  <2>2. \A u, v \in Ts :
          work'[u].at = "wait" /\ work'[v].at = "wait" /\ work'[u].sock = work'[v].sock => u = v
    BY <1>1, <1>2 DEF HoldInv
  <2> QED  BY <1>1, <2>1, <2>2 DEF HoldInv
<1>13. ConnInv'
  <2>1. ConnOK(d)'
    BY <1>2, <1>3, <1>6, ConnGrows
  <2>2. ConnOK(conns[s])'
    BY <1>8, <2>1
  <2> QED  BY <1>2, <1>3, <1>8, <2>2, ConnOne
<1>14. MatchInv'
  <2>1. MatchOK(s)'
    BY <1>6, <1>8, ZenonT(30) DEF MatchOK
  <2> QED  BY <1>1, <1>2, <1>3, <1>8, <2>1, MatchServer
<1> QED  BY <1>3, <1>9, <1>10, <1>11, <1>12, <1>13, <1>14 DEF ClientsInv

-----------------------------------------------------------------------------
(* A request is sent.                                                      *)

\* A queue of one frame.
LEMMA OneFrame ==
  ASSUME NEW f
  PROVE  /\ Append(<<>>, f) = <<f>> /\ Len(<<f>>) + Len(<<>>) + Len(<<>>) <= 1
         /\ DOMAIN <<>> = {} /\ \A n \in DOMAIN <<f>> : <<f>>[n] = f
<1>1. Append(<<>>, f) = <<f>>
  BY SMTT(30)
<1>2. Len(<<f>>) + Len(<<>>) + Len(<<>>) <= 1
  BY SMTT(30)
<1>3. DOMAIN <<>> = {} /\ \A n \in DOMAIN <<f>> : <<f>>[n] = f
  BY SMTT(30)
<1> QED  BY <1>1, <1>2, <1>3

\* Worker w sends on connection s and waits.
LEMMA SendsOn ==
  ASSUME ClientsInv, NEW w \in Workers, NEW s \in Socks, work[w].at \in {"want", "send"},
         NEW x \in Recs, work' = [work EXCEPT ![w] = x], x.at = "wait", x.sock = s, x.stage = work[w].stage,
         x.act = work[w].act, x.id = work[w].id, x.ran = work[w].ran,
         chain' = chain, sock' = sock, lock' = lock, acts' = acts, astray' = astray,
         NEW d \in Conns, conns' = [conns EXCEPT ![s] = d], ConnOK(d),
         d.up = Append(conns[s].up, Frame(w)),
         ~ d.left => conns[s].up = <<>> /\ d.busy = <<>> /\ d.down = <<>>,
         \A v \in Workers : ~ WaitsOn(v, s),
         HoldInv'
  PROVE  ClientsInv' /\ Grows
<1>1. TypeInv /\ LogInv /\ WorkInv /\ ConnInv /\ MatchInv
  BY DEF ClientsInv
<1>2. Grows
  BY <1>1, GrowsSame
<1>3. /\ work' \in [Workers -> Recs] /\ WorkInv' /\ work'[w] = x
      /\ \A v \in Workers : v # w => work'[v] = work[v]
      /\ \A v \in Workers : Moved(v)
      /\ Frame(w)' = Frame(w)
  BY <1>1, <1>2, GoesOn
<1>4. /\ conns' \in [Socks -> Conns] /\ conns'[s] = d
      /\ \A t \in Socks : t # s => conns'[t] = conns[t]
  BY <1>1, ConnsOne
<1>5. TypeInv'
  BY <1>1, <1>3, <1>4 DEF TypeInv
<1>6. PICK f \in Frames : f = Frame(w)
  BY <1>1, FrameRec
<1>7. /\ FrameOK(f) /\ f.act = work[w].act /\ f.phase = work[w].stage
      /\ work[w].stage \in Unsent(work[w])
  BY <1>1, <1>6, FrameRec
<1>8. LogInv'
  <2>1. Up(s)' = Append(Up(s), f) /\ \A t \in Socks : t # s => Up(t)' = Up(t)
    BY <1>4, <1>6 DEF Up
  <2>2. work[w].stage \notin Unsent(work'[w])
    BY <1>3 DEF Unsent, Later
  <2> QED  BY <1>1, <1>2, <1>3, <1>5, <1>7, <2>1, <2>2, LogSends
<1>9. ConnInv'
  <2>1. ConnOK(d)'
    BY <1>1, <1>2, ConnGrows
  <2>2. ConnOK(conns[s])'
    BY <1>4, <2>1
  <2> QED  BY <1>1, <1>2, <1>4, <2>2, ConnOne
<1>10. MatchInv'
  <2>1. WaitsOn(w, s)'
    BY <1>3 DEF WaitsOn
  <2>2. ASSUME NEW v \in Workers, WaitsOn(v, s)'  PROVE v = w
    BY <1>3, <2>2 DEF WaitsOn
  <2>3. ASSUME ~ d.left  PROVE Load(d) <= 1 /\ Owned(w, d)'
    <3>1. d.up = <<f>> /\ d.busy = <<>> /\ d.down = <<>>
      <4>1. d.up = Append(<<>>, f) /\ d.busy = <<>> /\ d.down = <<>>
        BY <1>6, <2>3, ZenonT(30)
      <4> QED  BY <4>1, OneFrame, ZenonT(30)
    <3>2. Load(d) <= 1
      BY <3>1, OneFrame, ZenonT(30) DEF Load
    <3>3. /\ \A n \in DOMAIN d.up : d.up[n] = Frame(w)'
          /\ DOMAIN d.busy = {} /\ DOMAIN d.down = {}
      <4>1. \A n \in DOMAIN d.up : d.up[n] = f
        BY <3>1, OneFrame, ZenonT(30)
      <4>2. DOMAIN d.busy = {} /\ DOMAIN d.down = {}
        BY <3>1, OneFrame, ZenonT(30)
      <4>3. Frame(w)' = f
        BY <1>3, <1>6
      <4> QED  BY <4>1, <4>2, <4>3
    <3>4. Owned(w, d)'
      BY <3>3, ZenonT(30) DEF Owned
    <3> QED  BY <3>2, <3>4
  <2>4. MatchOK(s)'
    BY <1>4, <2>1, <2>2, <2>3, ZenonT(30) DEF MatchOK
  <2>5. work[w].at # "wait" /\ work'[w].sock = s
    BY <1>3
  <2> QED  BY <1>1, <1>2, <1>3, <1>4, <2>4, <2>5, MatchOne
<1> QED  BY <1>2, <1>3, <1>5, <1>8, <1>9, <1>10 DEF ClientsInv

\* A Python caller sends.
LEMMA SendStep ==
  ASSUME ClientsInv, NEW w \in Workers, Send(w)
  PROVE  ClientsInv' /\ Grows
<1>0. PICK s : s = work[w].sock
  OBVIOUS
<1>1. /\ work[w].at = "send" /\ conns[s].sv
      /\ conns' = [conns EXCEPT ![s].up = Append(@, Frame(w))]
      /\ work' = [work EXCEPT ![w].at = "wait"]
      /\ chain' = chain /\ sock' = sock /\ lock' = lock /\ acts' = acts /\ astray' = astray
  BY <1>0 DEF Send
<1>2. TypeInv /\ WorkInv /\ HoldInv /\ ConnInv /\ MatchInv
  BY DEF ClientsInv
<1>3. s \in Socks /\ conns[s].cl /\ \A v \in Workers : WaitsOn(v, s) => v = w
  BY <1>0, <1>1, <1>2, Sole
<1>4. w \in Py /\ w \notin Ts /\ lock = w /\ sock = s /\ sock # NoSock
  BY <1>0, <1>1, <1>2, Holder, Constants
<1>5. \A v \in Workers : ~ WaitsOn(v, s)
  BY <1>1, <1>3 DEF WaitsOn
<1>6. PICK r \in Recs : r = work[w]
  BY <1>2 DEF TypeInv
<1>7. PICK x : x = [r EXCEPT !.at = "wait"]
  OBVIOUS
<1>8. work' = [work EXCEPT ![w] = x]
  BY <1>1, <1>2, <1>6, <1>7, SMTT(30) DEF TypeInv
<1>9. /\ x \in Recs /\ x.at = "wait" /\ x.sock = r.sock /\ x.stage = r.stage
      /\ x.act = r.act /\ x.id = r.id /\ x.ran = r.ran
  BY <1>7, ZenonT(30) DEF Recs
<1>10. PICK c \in Conns : c = conns[s]
  BY <1>2, <1>3 DEF TypeInv
<1>11. PICK u : u = Append(c.up, Frame(w))
  OBVIOUS
<1>12. u \in Seq(Frames)
  BY <1>1, <1>2, <1>11, Queues, FrameRec, SeqAppend
<1>13. PICK d : d = WithUp(c, u)
  OBVIOUS
<1>14. conns' = [conns EXCEPT ![s] = d]
  BY <1>1, <1>2, <1>3, <1>10, <1>11, <1>13, SMTT(30) DEF TypeInv, WithUp
<1>15. /\ d \in Conns /\ d.up = u /\ d.busy = c.busy /\ d.down = c.down
       /\ d.cl = c.cl /\ d.sv = c.sv /\ d.left = c.left
  BY <1>12, <1>13, UpConn
<1>16. ConnOK(c)
  BY <1>2, <1>3, <1>10 DEF ConnInv
<1>17. ConnOK(d)
  BY <1>1, <1>10, <1>15, <1>16, ZenonT(30) DEF ConnOK
<1>18. ~ d.left => c.up = <<>> /\ d.busy = <<>> /\ d.down = <<>>
  <2>1. ~ c.left => Load(c) = 0
    BY <1>2, <1>3, <1>5, <1>10 DEF MatchInv, MatchOK
  <2>2. Load(c) = 0 => c.up = <<>> /\ c.busy = <<>> /\ c.down = <<>>
    BY Loads
  <2> QED  BY <1>15, <2>1, <2>2, ZenonT(30)
<1>19. /\ conns'[s] = d /\ \A t \in Socks : t # s => conns'[t] = conns[t]
       /\ work'[w] = x /\ \A v \in Workers : v # w => work'[v] = work[v]
  <2>1. conns'[s] = d /\ \A t \in Socks : t # s => conns'[t] = conns[t]
    BY <1>2, <1>3, <1>14, <1>15, ConnsOne
  <2>2. work'[w] = x /\ \A v \in Workers : v # w => work'[v] = work[v]
    BY <1>2, <1>8 DEF TypeInv
  <2> QED  BY <2>1, <2>2
<1>20. HoldInv'
  <2>1. ASSUME NEW v \in Workers  PROVE HoldOK(v)'
    <3>1. CASE v = w
      <4>1. work'[v].at = "wait" /\ work'[v].sock = s
        BY <1>0, <1>6, <1>9, <1>19, <3>1
      <4> QED  BY <1>1, <1>4, <3>1, <4>1 DEF HoldOK
    <3>2. CASE v # w
      <4>1. HoldOK(v) /\ work'[v] = work[v]
        BY <1>2, <1>19, <3>2 DEF HoldInv
      <4>2. ASSUME v \in Ts, work[v].at = "wait"
            PROVE  conns'[work[v].sock] = conns[work[v].sock]
        BY <1>4, <1>19, <4>1, <4>2 DEF HoldOK
      <4> QED  BY <1>1, <4>1, <4>2 DEF HoldOK
    <3> QED  BY <3>1, <3>2
  <2>2. ASSUME NEW u1 \in Ts, NEW v \in Ts, work'[u1].at = "wait", work'[v].at = "wait",
               work'[u1].sock = work'[v].sock
        PROVE  u1 = v
    <3>1. u1 # w /\ v # w /\ u1 \in Workers /\ v \in Workers
      BY <1>4 DEF Workers
    <3>2. work'[u1] = work[u1] /\ work'[v] = work[v]
      BY <1>19, <3>1
    <3> QED  BY <1>2, <2>2, <3>2 DEF HoldInv
  <2>3. conns'[sock'].cl
    BY <1>1, <1>3, <1>4, <1>10, <1>15, <1>19
  <2> QED  BY <2>1, <2>2, <2>3 DEF HoldInv
<1>21. /\ work[w].at \in {"want", "send"} /\ x.sock = s /\ x.stage = work[w].stage
       /\ x.act = work[w].act /\ x.id = work[w].id
  BY <1>0, <1>1, <1>6, <1>9
<1>22. x.ran = work[w].ran
  BY <1>6, <1>9, ZenonT(30)
<1>23. d.up = Append(conns[s].up, Frame(w))
  BY <1>10, <1>11, <1>15
<1>24. ~ d.left => conns[s].up = <<>> /\ d.busy = <<>> /\ d.down = <<>>
  BY <1>10, <1>18, ZenonT(30)
<1>25. x \in Recs /\ x.at = "wait" /\ d \in Conns
  BY <1>9, <1>15
<1> QED  BY <1>1, <1>3, <1>5, <1>8, <1>14, <1>17, <1>20, <1>21, <1>22, <1>23, <1>24, <1>25, SendsOn

\* A TypeScript caller sends on a connection of its own.
LEMMA CallSendsStep ==
  ASSUME ClientsInv, NEW w \in Workers, CallSends(w)
  PROVE  ClientsInv' /\ Grows
<1>1. PICK s \in Socks : /\ conns[s] = NoConn
                         /\ conns' = [conns EXCEPT ![s] = [NewConn EXCEPT !.up = <<Frame(w)>>]]
                         /\ work' = [work EXCEPT ![w].at = "wait", ![w].sock = s]
  BY DEF CallSends, Opened
<1>2. /\ w \in Ts /\ work[w].at = "want"
      /\ chain' = chain /\ sock' = sock /\ lock' = lock /\ acts' = acts /\ astray' = astray
  BY DEF CallSends
<1>3. TypeInv /\ WorkInv /\ HoldInv
  BY DEF ClientsInv
<1>4. \A v \in Workers : ~ WaitsOn(v, s)
  BY <1>1, <1>3, Sole, NoConnFacts
<1>5. s # sock /\ s \in Nat /\ s # NoSock
  BY <1>1, <1>3, NoConnFacts, Constants, SMTT(30) DEF HoldInv, Socks, NoSock
<1>6. PICK r \in Recs : r = work[w]
  BY <1>3 DEF TypeInv
<1>7. PICK x : x = At(r, "wait", s)
  OBVIOUS
<1>8. work' = [work EXCEPT ![w] = x]
  <2>1. work' = Put(work, w, "wait", s)
    BY <1>1 DEF Put
  <2> QED  BY <1>3, <1>6, <1>7, <2>1, PutAt DEF TypeInv
<1>9. /\ x \in Recs /\ x.at = "wait" /\ x.sock = s /\ x.stage = r.stage
      /\ x.act = r.act /\ x.id = r.id /\ x.ran = r.ran
  <2>1. "wait" \in {"send", "wait"}
    OBVIOUS
  <2> QED  BY <1>5, <1>7, <2>1, AtRec
<1>10. PICK d : d = WithUp(NewConn, <<Frame(w)>>)
  OBVIOUS
<1>11. conns' = [conns EXCEPT ![s] = d]
  BY <1>1, <1>10 DEF WithUp
<1>12. <<Frame(w)>> \in Seq(Frames)
  <2>1. Frame(w) \in Frames
    BY <1>2, <1>3, FrameRec
  <2> QED  BY <2>1
<1>13. /\ d \in Conns /\ d.up = <<Frame(w)>> /\ d.busy = <<>> /\ d.down = <<>>
       /\ d.cl /\ d.sv /\ ~ d.left
  BY <1>10, <1>12, NewConnFacts, UpConn
<1>14. ConnOK(d)
  BY <1>13 DEF ConnOK
<1>15. conns[s].up = <<>> /\ d.up = Append(conns[s].up, Frame(w))
  <2>1. conns[s].up = <<>>
    BY <1>1, NoConnFacts
  <2>2. <<Frame(w)>> = Append(<<>>, Frame(w))
    OBVIOUS
  <2> QED  BY <1>13, <2>1, <2>2, ZenonT(30)
<1>16. /\ conns'[s] = d /\ \A t \in Socks : t # s => conns'[t] = conns[t]
       /\ work'[w] = x /\ \A v \in Workers : v # w => work'[v] = work[v]
  <2>1. conns'[s] = d /\ \A t \in Socks : t # s => conns'[t] = conns[t]
    BY <1>3, <1>11, <1>13, ConnsOne
  <2>2. work'[w] = x /\ \A v \in Workers : v # w => work'[v] = work[v]
    BY <1>3, <1>8 DEF TypeInv
  <2> QED  BY <2>1, <2>2
<1>17. HoldInv'
  <2>1. ASSUME NEW v \in Workers  PROVE HoldOK(v)'
    <3>1. CASE v = w
      <4>1. work'[v].at = "wait" /\ work'[v].sock = s /\ v \notin Py
        BY <1>2, <1>9, <1>16, <3>1, Constants
      <4> QED  BY <1>2, <1>5, <1>13, <1>16, <4>1 DEF HoldOK
    <3>2. CASE v # w
      <4>1. HoldOK(v) /\ work'[v] = work[v]
        BY <1>3, <1>16, <3>2 DEF HoldInv
      <4>2. ASSUME v \in Ts, work[v].at = "wait"
            PROVE  conns'[work[v].sock] = conns[work[v].sock]
        BY <1>4, <1>16, <4>1, <4>2 DEF HoldOK, WaitsOn
      <4> QED  BY <1>2, <4>1, <4>2 DEF HoldOK
    <3> QED  BY <3>1, <3>2
  <2>2. ASSUME NEW u \in Ts, NEW v \in Ts, work'[u].at = "wait", work'[v].at = "wait",
               work'[u].sock = work'[v].sock
        PROVE  u = v
    <3>1. u \in Workers /\ v \in Workers
      BY DEF Workers
    <3>2. CASE u # w /\ v # w
      <4>1. work'[u] = work[u] /\ work'[v] = work[v]
        BY <1>16, <3>1, <3>2
      <4> QED  BY <1>3, <2>2, <4>1 DEF HoldInv
    <3>3. CASE u = w /\ v # w
      BY <1>4, <1>9, <1>16, <2>2, <3>1, <3>3 DEF WaitsOn
    <3>4. CASE u # w /\ v = w
      BY <1>4, <1>9, <1>16, <2>2, <3>1, <3>4 DEF WaitsOn
    <3> QED  BY <3>2, <3>3, <3>4
  <2>3. sock' # NoSock => conns'[sock'].cl
    BY <1>2, <1>3, <1>5, <1>16 DEF HoldInv, TypeInv
  <2> QED  BY <2>1, <2>2, <2>3 DEF HoldInv
<1>18. /\ work[w].at \in {"want", "send"} /\ x.stage = work[w].stage
       /\ x.act = work[w].act /\ x.id = work[w].id
  BY <1>2, <1>6, <1>9
<1>19. x.ran = work[w].ran
  BY <1>6, <1>9, ZenonT(30)
<1> QED  BY <1>2, <1>4, <1>8, <1>9, <1>11, <1>13, <1>14, <1>15, <1>17, <1>18, <1>19, SendsOn

-----------------------------------------------------------------------------
(* The daemon.                                                             *)

\* The daemon changes connection s.
LEMMA ServerTypes ==
  ASSUME TypeInv, NEW s \in Socks, NEW d \in Conns, conns' = [conns EXCEPT ![s] = d], chain' \in Seq(Frames),
         work' = work, sock' = sock, lock' = lock, acts' = acts
  PROVE  /\ TypeInv' /\ conns'[s] = d
         /\ \A t \in Socks : t # s => conns'[t] = conns[t]
<1>1. /\ conns' \in [Socks -> Conns] /\ conns'[s] = d
      /\ \A t \in Socks : t # s => conns'[t] = conns[t]
  BY ConnsOne
<1> QED  BY <1>1 DEF TypeInv

\* A step of the daemon on connection s.
LEMMA ServerStep ==
  ASSUME ClientsInv, Grows, NEW s \in Socks, NEW d \in Conns, conns' = [conns EXCEPT ![s] = d], LogInv',
         work' = work, sock' = sock, lock' = lock, acts' = acts, ConnOK(d)',
         conns[s].cl => d.cl /\ d.left = conns[s].left, MatchOK(s)'
  PROVE  ClientsInv' /\ Grows
<1>1. TypeInv /\ WorkInv /\ HoldInv /\ ConnInv /\ MatchInv
  BY DEF ClientsInv
<1>2. /\ TypeInv' /\ conns'[s] = d
      /\ \A t \in Socks : t # s => conns'[t] = conns[t]
  BY <1>1, ServerTypes DEF Grows
<1>3. WorkInv'
  BY <1>1, WorkStill
<1>4. HoldInv'
  <2>1. ASSUME NEW t \in Socks  PROVE KeepsEnds(t)
    <3>1. CASE t = s
      BY <1>2, <3>1, ZenonT(30) DEF KeepsEnds
    <3>2. CASE t # s
      BY <1>2, <3>2 DEF KeepsEnds
    <3> QED  BY <3>1, <3>2
  <2> QED  BY <1>1, <2>1, HoldServer
<1>5. ConnInv'
  <2>1. ConnOK(conns[s])'
    BY <1>2
  <2> QED  BY <1>1, <1>2, <2>1, ConnOne
<1>6. MatchInv'
  BY <1>1, <1>2, MatchServer
<1> QED  BY <1>2, <1>3, <1>4, <1>5, <1>6 DEF ClientsInv

\* Its end is closed.
LEMMA ServerClosesStep ==
  ASSUME ClientsInv, NEW s \in Socks, ServerCloses(s)
  PROVE  ClientsInv' /\ Grows
<1>1. /\ conns' = [conns EXCEPT ![s] = Tidy(ServerShut(conns[s]))]
      /\ chain' = chain /\ sock' = sock /\ lock' = lock /\ work' = work /\ acts' = acts /\ astray' = astray
  BY DEF ServerCloses, ServerShut
<1>2. TypeInv /\ LogInv /\ WorkInv /\ ConnInv /\ MatchInv
  BY DEF ClientsInv
<1>3. Grows
  BY <1>1, <1>2, GrowsSame
<1>4. PICK c \in Conns : c = conns[s]
  BY <1>2 DEF TypeInv
<1>5. PICK d : d = Tidy(ServerShut(c))
  OBVIOUS
<1>6. /\ d \in Conns /\ ~ d.sv /\ d.up = <<>> /\ d.busy = <<>>
      /\ c.cl => d.cl /\ d.left = c.left /\ d.down = c.down
      /\ ~ c.cl => d = NoConn
  BY <1>5, ServerShutFacts, ZenonT(30)
<1>7. conns' = [conns EXCEPT ![s] = d]
  BY <1>1, <1>4, <1>5
<1>8. /\ TypeInv' /\ conns'[s] = d
      /\ \A t \in Socks : t # s => conns'[t] = conns[t]
  BY <1>1, <1>2, <1>3, <1>6, <1>7, ServerTypes DEF Grows
<1>9. LogInv'
  <2>1. \A t \in Socks : Up(t)' = Up(t) \/ Up(t)' = <<>>
    BY <1>6, <1>8 DEF Up
  <2>2. Drains
    BY <1>2, <2>1, DrainsSame
  <2>3. \A v \in Workers : Moved(v)
    BY <1>1, <1>2, <1>3, WorkStill
  <2> QED  BY <1>1, <1>2, <1>3, <1>8, <2>2, <2>3, LogDrains
<1>10. ConnOK(c)
  BY <1>2, <1>4 DEF ConnInv
<1>11. Len(<<>>) = 0 /\ 0 <= 1 /\ DOMAIN <<>> = {}
  OBVIOUS
<1>12. ConnOK(d)
  <2>1. CASE c.cl
    BY <1>6, <1>10, <1>11, <2>1, ZenonT(30) DEF ConnOK
  <2>2. CASE ~ c.cl
    BY <1>6, <1>11, <2>2, NoConnFacts, ZenonT(30) DEF ConnOK
  <2> QED  BY <2>1, <2>2
<1>13. ConnOK(d)'
  BY <1>2, <1>3, <1>6, <1>12, ConnGrows
<1>14. MatchOK(s)'
  <2>1. CASE ~ c.cl
    BY <1>6, <1>8, <2>1, NoConnFacts, ZenonT(30) DEF MatchOK
  <2>2. CASE c.left /\ c.cl
    BY <1>6, <1>8, <2>2, ZenonT(30) DEF MatchOK
  <2>3. CASE c.cl /\ ~ c.left
    <3>1. /\ Load(c) <= 1
          /\ Load(c) # 0 => \E w \in Workers : WaitsOn(w, s)
          /\ \A w \in Workers : WaitsOn(w, s) => Owned(w, c)
      BY <1>2, <1>4, <2>3, ZenonT(30) DEF MatchInv, MatchOK
    <3>2. CASE c.down = <<>>
      <4>1. d.down = <<>>
        BY <1>6, <2>3, <3>2
      <4>2. Load(d) = 0
        BY <1>6, <4>1, Loads
      <4> QED  BY <1>6, <1>8, <4>2, MatchEmpty
    <3>3. CASE c.down # <<>>
      <4>1. c.up = <<>> /\ c.busy = <<>> /\ d.down = c.down
        BY <1>6, <2>3, <3>1, <3>3, Loads
      <4>2. Load(d) = Load(c)
        BY <1>6, <4>1 DEF Load
      <4>3. \A w \in Workers : WaitsOn(w, s)' <=> WaitsOn(w, s)
        BY <1>1 DEF WaitsOn
      <4>4. ASSUME NEW w \in Workers, WaitsOn(w, s)  PROVE Owned(w, d)'
        <5>1. Frame(w)' = Frame(w)
          BY <1>1 DEF Frame
        <5>2. Owned(w, d)
          BY <1>6, <3>1, <4>1, <4>4, ZenonT(30) DEF Owned
        <5> QED  BY <1>2, <1>3, <1>6, <1>12, <5>1, <5>2, OwnedGrows
      <4> QED  BY <1>8, <3>1, <4>2, <4>3, <4>4, ZenonT(30) DEF MatchOK
    <3> QED  BY <3>2, <3>3
  <2> QED  BY <2>1, <2>2, <2>3
<1>15. conns[s].cl => d.cl /\ d.left = conns[s].left
  BY <1>4, <1>6, ZenonT(30)
<1> QED  BY <1>1, <1>3, <1>6, <1>7, <1>9, <1>13, <1>14, <1>15, ServerStep

\* It writes an answer.
LEMMA WriteAnswerStep ==
  ASSUME ClientsInv, NEW s \in Socks, WriteAnswer(s)
  PROVE  ClientsInv' /\ Grows
<1>1. PICK c \in Conns : c = conns[s]
  BY DEF ClientsInv, TypeInv
<1>2. PICK q : q = IF c.cl THEN c.down \o c.busy ELSE c.down
  OBVIOUS
<1>3. /\ c.busy # <<>> /\ conns' = Writing(conns, s, q, <<>>)
      /\ chain' = chain /\ sock' = sock /\ lock' = lock /\ work' = work /\ acts' = acts /\ astray' = astray
  BY <1>1, <1>2 DEF WriteAnswer, Writing
<1>4. TypeInv /\ LogInv /\ WorkInv /\ ConnInv /\ MatchInv
  BY DEF ClientsInv
<1>5. Grows
  BY <1>3, <1>4, GrowsSame
<1>6. c.down \in Seq(Answers) /\ c.busy \in Seq(Answers) /\ <<>> \in Seq(Answers)
  BY Queues
<1>7. q \in Seq(Answers)
  BY <1>2, <1>6, SeqConcat
<1>8. PICK e : e = WithDown(c, q)
  OBVIOUS
<1>9. /\ e \in Conns /\ e.down = q /\ e.up = c.up /\ e.cl = c.cl /\ e.sv = c.sv /\ e.left = c.left
  BY <1>7, <1>8, DownConn
<1>10. PICK d : d = WithBusy(e, <<>>)
  OBVIOUS
<1>11. /\ d \in Conns /\ d.busy = <<>> /\ d.down = e.down /\ d.up = e.up
       /\ d.cl = e.cl /\ d.sv = e.sv /\ d.left = e.left
  BY <1>6, <1>9, <1>10, BusyConn
<1>12. /\ d \in Conns /\ d.busy = <<>> /\ d.down = q /\ d.up = c.up
       /\ d.cl = c.cl /\ d.sv = c.sv /\ d.left = c.left
  BY <1>9, <1>11, ZenonT(30)
<1>13. conns' = [conns EXCEPT ![s] = d]
  <2>1. conns \in [Socks -> Conns]
    BY <1>4, ZenonT(30) DEF TypeInv
  <2>2. PICK b : b = <<>>
    OBVIOUS
  <2>3. Writing(conns, s, q, b) = [conns EXCEPT ![s] = WithBusy(WithDown(conns[s], q), b)]
    BY <2>1, WriteConns, SMTT(60)
  <2>4. conns' = Writing(conns, s, q, b) /\ d = WithBusy(WithDown(conns[s], q), b)
    BY <1>1, <1>3, <1>8, <1>10, <2>2, ZenonT(30)
  <2> QED  BY <2>3, <2>4
<1>14. /\ TypeInv' /\ conns'[s] = d
       /\ \A t \in Socks : t # s => conns'[t] = conns[t]
  BY <1>3, <1>4, <1>5, <1>12, <1>13, ServerTypes DEF Grows
<1>15. LogInv'
  <2>1. \A t \in Socks : Up(t)' = Up(t)
    BY <1>1, <1>12, <1>14 DEF Up
  <2>2. Drains
    BY <1>4, <2>1, DrainsSame
  <2>3. \A v \in Workers : Moved(v)
    BY <1>3, <1>4, <1>5, WorkStill
  <2> QED  BY <1>3, <1>4, <1>5, <1>14, <2>2, <2>3, LogDrains
<1>16. ConnOK(c)
  BY <1>1, <1>4 DEF ConnInv
<1>17. ConnOK(d)
  <2>1. ASSUME NEW n \in DOMAIN q  PROVE AnswerOK(q[n])
    <3>1. CASE q = c.down
      BY <1>16, <2>1, <3>1 DEF ConnOK
    <3>2. CASE q = c.down \o c.busy
      <4>1. \/ n \in DOMAIN c.down /\ q[n] = c.down[n]
            \/ n - Len(c.down) \in DOMAIN c.busy /\ q[n] = c.busy[n - Len(c.down)]
        <5>1. PICK x, y \in Seq(Answers) : x = c.down /\ y = c.busy
          BY <1>6
        <5>2. Len(x) \in Nat /\ Len(y) \in Nat /\ DOMAIN x = 1..Len(x) /\ DOMAIN y = 1..Len(y)
          OBVIOUS
        <5>3. /\ Len(x \o y) = Len(x) + Len(y) /\ DOMAIN (x \o y) = 1..(Len(x) + Len(y))
              /\ \A i \in 1..(Len(x) + Len(y)) :
                   (x \o y)[i] = IF i <= Len(x) THEN x[i] ELSE y[i - Len(x)]
          BY SeqConcat
        <5>4. n \in 1..(Len(x) + Len(y)) /\ q = x \o y
          BY <2>1, <3>2, <5>1, <5>3
        <5>5. \/ n \in 1..Len(x) /\ q[n] = x[n]
              \/ n - Len(x) \in 1..Len(y) /\ q[n] = y[n - Len(x)]
          BY <5>2, <5>3, <5>4, SMTT(30)
        <5> QED  BY <5>1, <5>2, <5>5
      <4> QED  BY <1>16, <4>1, ZenonT(30) DEF ConnOK
    <3> QED  BY <1>2, <3>1, <3>2
  <2>2. Len(<<>>) = 0 /\ 0 <= 1 /\ DOMAIN <<>> = {}
    OBVIOUS
  <2> QED  BY <1>12, <1>16, <2>1, <2>2, ZenonT(30) DEF ConnOK
<1>18. ConnOK(d)'
  BY <1>4, <1>5, <1>12, <1>17, ConnGrows
<1>19. MatchOK(s)'
  <2>1. CASE ~ (c.cl /\ ~ c.left)
    BY <1>12, <1>14, <2>1, ZenonT(30) DEF MatchOK
  <2>2. CASE c.cl /\ ~ c.left
    <3>1. /\ Load(c) <= 1
          /\ Load(c) # 0 => \E w \in Workers : WaitsOn(w, s)
          /\ \A w \in Workers : WaitsOn(w, s) => Owned(w, c)
      BY <1>1, <1>4, <2>2, ZenonT(30) DEF MatchInv, MatchOK
    <3>2. c.up = <<>> /\ c.down = <<>>
      BY <1>3, <3>1, Loads
    <3>3. q = c.busy
      BY <1>2, <1>6, <2>2, <3>2
    <3>4. Load(d) = Load(c)
      <4>1. Len(c.busy) \in Nat /\ Len(<<>>) = 0
        BY <1>6
      <4>2. Load(d) = Len(<<>>) + Len(<<>>) + Len(c.busy) /\ Load(c) = Len(<<>>) + Len(c.busy) + Len(<<>>)
        BY <1>12, <3>2, <3>3, ZenonT(30) DEF Load
      <4> QED  BY <4>1, <4>2, SMTT(30)
    <3>5. \A w \in Workers : WaitsOn(w, s)' <=> WaitsOn(w, s)
      BY <1>3 DEF WaitsOn
    <3>6. ASSUME NEW w \in Workers, WaitsOn(w, s)  PROVE Owned(w, d)'
      <4>1. Frame(w)' = Frame(w)
        BY <1>3 DEF Frame
      <4>2. DOMAIN <<>> = {}
        OBVIOUS
      <4>3. Owned(w, d)
        BY <1>12, <3>1, <3>2, <3>3, <3>6, <4>2, ZenonT(30) DEF Owned
      <4> QED  BY <1>4, <1>5, <1>12, <1>17, <4>1, <4>3, OwnedGrows
    <3> QED  BY <1>14, <3>1, <3>4, <3>5, <3>6, ZenonT(30) DEF MatchOK
  <2> QED  BY <2>1, <2>2
<1>20. conns[s].cl => d.cl /\ d.left = conns[s].left
  BY <1>1, <1>12, ZenonT(30)
<1> QED  BY <1>3, <1>5, <1>12, <1>13, <1>15, <1>18, <1>19, <1>20, ServerStep

\* A connection d is c with the requests u and the answers b.
Served(c, u, b, d) ==
  /\ d \in Conns /\ d.busy = b /\ d.down = c.down /\ d.up = u
  /\ d.cl = c.cl /\ d.sv = c.sv /\ d.left = c.left

\* What answering does to the connections.
LEMMA AnswerAt ==
  ASSUME TypeInv, NEW s \in Socks, NEW u \in Seq(Frames), NEW b \in Seq(Answers)
  PROVE  \E d : Served(conns[s], u, b, d) /\ Serving(conns, s, u, b) = [conns EXCEPT ![s] = d]
<1>1. conns \in [Socks -> Conns]
  BY DEF TypeInv
<1>2. PICK c \in Conns : c = conns[s]
  BY <1>1
<1>3. PICK e : e = WithUp(c, u)
  OBVIOUS
<1>4. /\ e \in Conns /\ e.up = u /\ e.down = c.down /\ e.cl = c.cl /\ e.sv = c.sv /\ e.left = c.left
  BY <1>3, UpConn
<1>5. PICK d : d = WithBusy(e, b)
  OBVIOUS
<1>6. /\ d \in Conns /\ d.busy = b /\ d.down = e.down /\ d.up = e.up
      /\ d.cl = e.cl /\ d.sv = e.sv /\ d.left = e.left
  BY <1>4, <1>5, BusyConn
<1>7. Served(conns[s], u, b, d)
  BY <1>2, <1>4, <1>6, ZenonT(30) DEF Served
<1>8. Serving(conns, s, u, b) = [conns EXCEPT ![s] = d]
  BY <1>1, <1>2, <1>3, <1>5, AnswerConns, SMTT(30)
<1> QED  BY <1>7, <1>8

\* The chain with one more receipt.
LEMMA OneMore ==
  ASSUME chain \in Seq(Frames), NEW f \in Frames, chain' = Append(chain, f)
  PROVE  /\ chain' \in Seq(Frames) /\ Len(chain') = Len(chain) + 1 /\ chain'[Len(chain) + 1] = f
         /\ \A j \in 1..Len(chain) : chain'[j] = chain[j]
BY SeqAppend, SMTT(30)

\* A queue of one answer.
LEMMA OneAnswer ==
  ASSUME NEW a \in Answers
  PROVE  /\ <<a>> \in Seq(Answers) /\ Len(<<a>>) <= 1 /\ DOMAIN <<>> = {}
         /\ \A n \in DOMAIN <<a>> : <<a>>[n] = a
         /\ Len(<<>>) + Len(<<a>>) + Len(<<>>) = 1 /\ 1 <= 1 /\ 1 - 1 = 0
<1>1. <<a>> \in Seq(Answers) /\ Len(<<a>>) <= 1
  BY SMTT(30)
<1>2. DOMAIN <<>> = {} /\ \A n \in DOMAIN <<a>> : <<a>>[n] = a
  BY SMTT(30)
<1>3. Len(<<>>) + Len(<<a>>) + Len(<<>>) = 1 /\ 1 <= 1 /\ 1 - 1 = 0
  BY SMTT(30)
<1> QED  BY <1>1, <1>2, <1>3

\* A request is answered: it leaves the queue and the answer is on its way.
LEMMA Answering ==
  ASSUME ClientsInv, Grows, NEW s \in Socks, NEW c \in Conns, c = conns[s], c.sv, c.up # <<>>, c.busy = <<>>,
         NEW a \in Answers, conns' = Serving(conns, s, Tail(c.up), <<a>>), AnswerOK(a)',
         a.type = "sign" => chain'[a.id] = Head(c.up),
         work' = work, sock' = sock, lock' = lock, acts' = acts,
         TypeInv' /\ Up(s)' = Tail(Up(s)) /\ (\A t \in Socks : t # s => Up(t)' = Up(t)) => LogInv'
  PROVE  ClientsInv' /\ Grows
<1>1. TypeInv /\ ConnInv /\ MatchInv
  BY DEF ClientsInv
<1>2. c.up \in Seq(Frames) /\ <<a>> \in Seq(Answers)
  <2>1. c.up \in Seq(Frames)
    BY Queues, ZenonT(30)
  <2> QED  BY <2>1, OneAnswer, ZenonT(30)
<1>3. /\ 1 \in DOMAIN c.up /\ Head(c.up) = c.up[1] /\ Tail(c.up) \in Seq(Frames)
      /\ Len(Tail(c.up)) = Len(c.up) - 1
  BY <1>2, HeadTail
<1>4. PICK u \in Seq(Frames), b \in Seq(Answers) : u = Tail(c.up) /\ b = <<a>>
  BY <1>2, <1>3
<1>5. conns' = Serving(conns, s, u, b)
  BY <1>4
<1>6. PICK d : Served(conns[s], u, b, d) /\ Serving(conns, s, u, b) = [conns EXCEPT ![s] = d]
  BY <1>1, AnswerAt
<1>7. Served(c, u, b, d)
  BY <1>6
<1>8. /\ d \in Conns /\ d.busy = <<a>> /\ d.down = c.down /\ d.up = Tail(c.up)
      /\ d.cl = c.cl /\ d.sv = c.sv /\ d.left = c.left
  BY <1>4, <1>7, ZenonT(30) DEF Served
<1>9. conns' = [conns EXCEPT ![s] = d]
  BY <1>5, <1>6
<1>10. /\ TypeInv' /\ conns'[s] = d
       /\ \A t \in Socks : t # s => conns'[t] = conns[t]
  BY <1>1, <1>8, <1>9, ServerTypes DEF Grows
<1>11. LogInv'
  <2>1. Up(s)' = Tail(Up(s)) /\ \A t \in Socks : t # s => Up(t)' = Up(t)
    BY <1>8, <1>10 DEF Up
  <2> QED  BY <1>10, <2>1
<1>12. ConnOK(c)'
  BY <1>1, ConnGrows DEF ConnInv
<1>13. ConnOK(d)'
  <2>1. /\ \A n \in DOMAIN <<a>> : <<a>>[n] = a
        /\ Len(<<a>>) <= 1
    BY OneAnswer, ZenonT(30)
  <2> QED  BY <1>8, <1>12, <2>1, ZenonT(30) DEF ConnOK
<1>14. MatchOK(s)'
  <2>1. CASE ~ (c.cl /\ ~ c.left)
    BY <1>8, <1>10, <2>1, ZenonT(30) DEF MatchOK
  <2>2. CASE c.cl /\ ~ c.left
    <3>1. /\ Load(c) <= 1
          /\ Load(c) # 0 => \E w \in Workers : WaitsOn(w, s)
          /\ \A w \in Workers : WaitsOn(w, s) => Owned(w, c)
      BY <1>1, <2>2, ZenonT(30) DEF MatchInv, MatchOK
    <3>2. Len(c.up) = 1 /\ c.down = <<>> /\ Load(c) # 0
      BY <3>1, Loads
    <3>3. Tail(c.up) = <<>>
      <4>1. Tail(c.up) \in Seq(Frames) /\ Len(Tail(c.up)) = 0
        BY <1>3, <3>2, OneAnswer, ZenonT(30)
      <4> HIDE <1>3, <3>2
      <4> QED  BY <4>1, SeqEmpty
    <3>4. Load(d) = 1
      <4>1. Load(d) = Len(<<>>) + Len(<<a>>) + Len(<<>>)
        BY <1>8, <3>2, <3>3, ZenonT(30) DEF Load
      <4> QED  BY <4>1, OneAnswer, ZenonT(30)
    <3>5. \A w \in Workers : WaitsOn(w, s)' <=> WaitsOn(w, s)
      BY DEF WaitsOn
    <3>6. ASSUME NEW w \in Workers, WaitsOn(w, s)  PROVE Owned(w, d)'
      <4>1. Frame(w)' = Frame(w)
        BY DEF Frame
      <4>2. Head(c.up) = Frame(w)
        BY <1>3, <3>1, <3>6 DEF Owned
      <4>3. Right(w, a)'
        BY <4>1, <4>2 DEF Right
      <4>4. DOMAIN <<>> = {} /\ \A n \in DOMAIN <<a>> : <<a>>[n] = a
        BY OneAnswer, ZenonT(30)
      <4> QED  BY <1>8, <3>2, <3>3, <4>3, <4>4, ZenonT(30) DEF Owned
    <3>7. 1 <= 1
      BY OneAnswer, ZenonT(30)
    <3> QED  BY <1>10, <3>1, <3>2, <3>4, <3>5, <3>6, <3>7, ZenonT(30) DEF MatchOK
  <2> QED  BY <2>1, <2>2
<1>15. conns[s].cl => d.cl /\ d.left = conns[s].left
  BY <1>8, ZenonT(30)
<1> QED  BY <1>8, <1>9, <1>11, <1>13, <1>14, <1>15, ServerStep

\* The first request of a queue is gone.
LEMMA DrainsTail ==
  ASSUME TypeInv, NEW s \in Socks, Up(s) # <<>>, Up(s)' = Tail(Up(s)), \A t \in Socks : t # s => Up(t)' = Up(t)
  PROVE  Drains
<1>1. PICK k : k = [t \in Socks |-> IF t = s THEN 1 ELSE 0]
  OBVIOUS
<1>2. k \in [Socks -> Nat] /\ \A t \in Socks : k[t] = IF t = s THEN 1 ELSE 0
  BY <1>1
<1>3. ASSUME NEW t \in Socks, NEW n \in DOMAIN Up(t)'
      PROVE  n + k[t] \in DOMAIN Up(t) /\ Up(t)'[n] = Up(t)[n + k[t]]
  <2>1. CASE t = s
    <3>1. Up(s) \in Seq(Frames)
      BY Elements
    <3>2. n + 1 \in DOMAIN Up(s) /\ Tail(Up(s))[n] = Up(s)[n + 1]
      BY <1>3, <2>1, <3>1, HeadTail
    <3> QED  BY <1>2, <2>1, <3>2
  <2>2. CASE t # s
    <3>1. Up(t) \in Seq(Frames) /\ Up(t)' = Up(t) /\ n \in DOMAIN Up(t)
      BY <1>3, <2>2, Elements
    <3>2. n \in Nat
      BY <3>1, Queue
    <3>3. k[t] = 0 /\ n + 0 = n
      BY <1>2, <2>2, <3>2
    <3> QED  BY <3>1, <3>3
  <2> QED  BY <2>1, <2>2
<1> QED  BY <1>2, <1>3 DEF Drains

\* A request is answered without a receipt.
LEMMA ServePlain ==
  ASSUME ClientsInv, NEW s \in Socks, NEW c \in Conns, c = conns[s], c.sv, c.up # <<>>, c.busy = <<>>,
         NEW p \in {"snap", "ping", "error"}, Answered(s, p, 0),
         chain' = chain, work' = work, sock' = sock, lock' = lock, acts' = acts, astray' = astray
  PROVE  ClientsInv' /\ Grows
<1>1. TypeInv /\ LogInv /\ WorkInv
  BY DEF ClientsInv
<1>2. Grows
  BY <1>1, GrowsSame
<1>3. PICK a : a = [type |-> p, id |-> 0]
  OBVIOUS
<1>4. a \in Answers /\ a.type # "sign" /\ a.id = 0
  BY <1>3 DEF Answers
<1>5. conns' = Serving(conns, s, Tail(c.up), <<a>>)
  BY <1>3 DEF Answered, Serving
<1>6. 0 <= Len(chain)
  BY <1>1, Lengths
<1>7. AnswerOK(a)'
  BY <1>4, <1>6, ZenonT(30) DEF AnswerOK
<1>8. ASSUME TypeInv', Up(s)' = Tail(Up(s)), \A t \in Socks : t # s => Up(t)' = Up(t)
      PROVE  LogInv'
  <2>1. Up(s) # <<>>
    BY DEF Up
  <2>2. Drains
    BY <1>1, <1>8, <2>1, DrainsTail
  <2>3. \A v \in Workers : Moved(v)
    BY <1>1, <1>2, WorkStill
  <2> QED  BY <1>1, <1>2, <1>8, <2>2, <2>3, LogDrains
<1> QED  BY <1>2, <1>4, <1>5, <1>7, <1>8, Answering

\* A request is answered with a receipt.
LEMMA ServeSigns ==
  ASSUME ClientsInv, NEW s \in Socks, NEW c \in Conns, c = conns[s], c.sv, c.up # <<>>, c.busy = <<>>,
         chain' = Append(chain, Head(c.up)), Answered(s, "sign", Len(chain) + 1),
         work' = work, sock' = sock, lock' = lock, acts' = acts, astray' = astray
  PROVE  ClientsInv' /\ Grows
<1>1. TypeInv /\ LogInv
  BY DEF ClientsInv
<1>2. PICK f : f = Head(c.up)
  OBVIOUS
<1>3. f \in Frames /\ chain \in Seq(Frames) /\ acts \in Nat
  BY <1>1, <1>2, Queues, HeadTail DEF TypeInv
<1>4. /\ chain' \in Seq(Frames) /\ Len(chain') = Len(chain) + 1 /\ chain'[Len(chain) + 1] = f
      /\ \A j \in 1..Len(chain) : chain'[j] = chain[j]
  <2>1. chain' = Append(chain, f)
    BY <1>2
  <2> QED  BY <1>3, <2>1, OneMore, ZenonT(30)
<1>5. Len(chain) \in Nat
  BY <1>3
<1>6. Grows
  BY <1>3, <1>4, <1>5, SMTT(30) DEF Grows
<1>7. PICK a : a = [type |-> "sign", id |-> Len(chain) + 1]
  OBVIOUS
<1>8. a \in Answers /\ a.type = "sign" /\ a.id = Len(chain) + 1 /\ a.id # 0
  <2>1. PICK n \in Nat : n = Len(chain) + 1 /\ n # 0
    BY <1>5, SMTT(30)
  <2>2. a = [type |-> "sign", id |-> n]
    BY <1>7, <2>1, ZenonT(30)
  <2>3. a \in Answers /\ a.type = "sign" /\ a.id = n
    BY <2>2, ZenonT(30) DEF Answers
  <2> QED  BY <2>1, <2>3, ZenonT(30)
<1>9. conns' = Serving(conns, s, Tail(c.up), <<a>>)
  BY <1>7 DEF Answered, Serving
<1>10. AnswerOK(a)'
  <2>1. a.id <= Len(chain')
    BY <1>4, <1>5, <1>8
  <2> QED  BY <1>8, <2>1, ZenonT(30) DEF AnswerOK
<1>11. chain'[a.id] = Head(c.up)
  BY <1>2, <1>4, <1>8
<1>12. ASSUME TypeInv', Up(s)' = Tail(Up(s)), \A t \in Socks : t # s => Up(t)' = Up(t)
       PROVE  LogInv'
  <2>1. Up(s) # <<>> /\ chain' = Append(chain, Head(Up(s)))
    BY DEF Up
  <2> QED  BY <1>1, <1>12, <2>1, LogServes
<1> QED  BY <1>6, <1>8, <1>9, <1>10, <1>11, <1>12, Answering

\* The daemon serves a request.
LEMMA ServeStep ==
  ASSUME ClientsInv, NEW s \in Socks, Serve(s)
  PROVE  ClientsInv' /\ Grows
<1>1. PICK c \in Conns : c = conns[s]
  BY DEF ClientsInv, TypeInv
<1>2. PICK f : f = Head(c.up)
  OBVIOUS
<1>3. /\ c.sv /\ c.up # <<>> /\ c.busy = <<>>
      /\ sock' = sock /\ lock' = lock /\ work' = work /\ acts' = acts /\ astray' = astray
      /\ \/ chain' = Append(chain, f) /\ Answered(s, "sign", Len(chain) + 1)
         \/ f.phase \notin {"pre", "post"} /\ Answered(s, f.phase, 0) /\ chain' = chain
         \/ Answered(s, "error", 0) /\ chain' = chain
  BY <1>1, <1>2 DEF Serve
<1>4. f \in Frames
  BY <1>2, <1>3, Queues, HeadTail
<1>5. CASE chain' = Append(chain, f) /\ Answered(s, "sign", Len(chain) + 1)
  BY <1>1, <1>2, <1>3, <1>5, ServeSigns
<1>6. CASE f.phase \notin {"pre", "post"} /\ Answered(s, f.phase, 0) /\ chain' = chain
  <2>1. f.phase \in {"snap", "ping", "error"}
    BY <1>4, <1>6 DEF Frames, Phases
  <2> QED  BY <1>1, <1>3, <1>6, <2>1, ServePlain
<1>7. CASE Answered(s, "error", 0) /\ chain' = chain
  BY <1>1, <1>3, <1>7, ServePlain
<1> QED  BY <1>3, <1>5, <1>6, <1>7

-----------------------------------------------------------------------------
(* Every step.                                                             *)

\* Every step preserves the invariant.
LEMMA ClientsStep ==
  ASSUME ClientsInv, [Next]_vars
  PROVE  ClientsInv' /\ Grows
<1>1. CASE UNCHANGED vars
  <2>1. /\ chain' = chain /\ conns' = conns /\ sock' = sock /\ lock' = lock /\ work' = work
        /\ acts' = acts /\ astray' = astray
    BY <1>1 DEF vars
  <2>2. TypeInv /\ LogInv /\ WorkInv /\ HoldInv /\ ConnInv /\ MatchInv
    BY DEF ClientsInv
  <2>3. Grows
    BY <2>1, <2>2, GrowsSame
  <2>4. TypeInv'
    BY <2>1, <2>2 DEF TypeInv
  <2>5. WorkInv' /\ \A v \in Workers : Moved(v)
    BY <2>1, <2>2, <2>3, WorkStill
  <2>6. LogInv'
    <3>1. Drains
      BY <2>1, <2>2, DrainsSame DEF Up
    <3> QED  BY <2>1, <2>2, <2>3, <2>4, <2>5, <3>1, LogDrains
  <2>7. HoldInv'
    BY <2>1, <2>2, HoldServer DEF KeepsEnds
  <2>8. ConnInv'
    BY <2>1, <2>2, <2>3, ConnStill
  <2>9. MatchInv'
    <3>1. ASSUME NEW t \in Socks  PROVE MatchOK(t)'
      <4>1. \A v \in Workers : /\ WaitsOn(v, t)' <=> WaitsOn(v, t)
                               /\ WaitsOn(v, t) => Frame(v)' = Frame(v)
        BY <2>1 DEF WaitsOn, Frame
      <4> QED  BY <2>1, <2>2, <2>3, <4>1, MatchKept
    <3> QED  BY <3>1 DEF MatchInv
  <2> QED  BY <2>3, <2>4, <2>5, <2>6, <2>7, <2>8, <2>9 DEF ClientsInv
<1>2. ASSUME NEW w \in Workers, Begins(w) \/ BodyEnds(w) \/ CallStep(w)
      PROVE  ClientsInv' /\ Grows
  BY <1>2, BeginsStep, BodyEndsStep, LockStep, ConnectFailsStep, SendStep, SendFailsStep, ReadStep, ReadFailsStep,
     GiveUpStep, CallSendsStep, CallRefusedStep, CallSettlesStep, CallFailsStep DEF CallStep
<1>3. ASSUME NEW s \in Socks, Serve(s) \/ WriteAnswer(s) \/ ServerCloses(s)
      PROVE  ClientsInv' /\ Grows
  BY <1>3, ServeStep, WriteAnswerStep, ServerClosesStep
<1>4. CASE CloseSock
  BY <1>4, CloseSockStep
<1> QED  BY <1>1, <1>2, <1>3, <1>4 DEF Next

\* The invariant holds initially.
LEMMA ClientsInit ==
  ASSUME Init
  PROVE  ClientsInv
<1>1. /\ chain = <<>> /\ conns = [s \in Socks |-> NoConn] /\ sock = NoSock /\ lock = NoWorker
      /\ work = [w \in Workers |-> Idle] /\ acts = 0 /\ astray = {}
  BY DEF Init
<1>2. \A s \in Socks : conns[s] = NoConn
  BY <1>1
<1>3. \A w \in Workers : work[w] = Idle
  BY <1>1
<1>4. /\ DOMAIN chain = {} /\ Len(chain) = 0 /\ chain \in Seq(Frames) /\ acts \in Nat
  BY <1>1
<1>5. DOMAIN <<>> = {}
  OBVIOUS
<1>6. \A s \in Socks : DOMAIN Up(s) = {}
  BY <1>2, <1>5, NoConnFacts DEF Up
<1>7. TypeInv
  <2>1. conns \in [Socks -> Conns]
    BY <1>1, NoConnFacts
  <2>2. work \in [Workers -> Recs]
    BY <1>1, IdleRec
  <2> QED  BY <1>1, <1>4, <2>1, <2>2 DEF TypeInv
<1>8. LogInv
  BY <1>4, <1>6, ZenonT(30) DEF LogInv, FramesInv, UniqueInv, UnsentInv, RecordedOnce
<1>9. WorkInv
  <2>1. Idle.act \in 0..acts /\ Idle.id <= Len(chain)
    BY <1>1, <1>4, IdleRec
  <2>2. \A w \in Workers : RecAt(w, Idle, chain, astray, acts)
    BY <2>1, IdleRec, ZenonT(30) DEF RecAt
  <2> QED  BY <1>3, <2>2, IdleRec, ZenonT(30) DEF WorkInv, RecOK
<1>10. HoldInv
  <2>1. \A w \in Workers : work[w].at = "none"
    BY <1>3, IdleRec
  <2>2. Ts \subseteq Workers
    BY DEF Workers
  <2> QED  BY <1>1, <2>1, <2>2 DEF HoldInv, HoldOK
<1>11. ConnInv
  <2>1. Len(<<>>) <= 1
    OBVIOUS
  <2>2. ConnOK(NoConn)
    BY <1>5, <2>1, NoConnFacts, ZenonT(30) DEF ConnOK
  <2> QED  BY <1>2, <2>2 DEF ConnInv
<1>12. MatchInv
  BY <1>2, NoConnFacts, ZenonT(30) DEF MatchInv, MatchOK
<1> QED  BY <1>7, <1>8, <1>9, <1>10, <1>11, <1>12 DEF ClientsInv

(* The inductive invariant: what is in the chain, under way on each        *)
(* connection and still to be sent by each thread or caller of the SDKs,   *)
(* and whose answer it is.                                                 *)
THEOREM ClientsInvariant == Spec => []ClientsInv
<1>1. Init => ClientsInv
  BY ClientsInit
<1>2. ClientsInv /\ [Next]_vars => ClientsInv'
  BY ClientsStep
<1> QED  BY <1>1, <1>2, PTL DEF Spec

(* A post receipt names an earlier receipt, its own pre receipt unless its *)
(* action read an answer on a connection where a caller had given up       *)
(* (client.py keeps _sock after a timeout), for any number of threads,     *)
(* callers and connections.                                                *)
THEOREM PostsLinkTheirPre == Spec => []LinksOwnPre
<1>1. ClientsInv => LinksOwnPre
  BY DEF ClientsInv, LogInv, FramesInv, FrameOK, LinksOwnPre
<1> QED  BY <1>1, ClientsInvariant, PTL

(* A wrapped function that was given a receipt id runs after that receipt  *)
(* is in the chain.                                                        *)
THEOREM RunsAreRecordedFirst == Spec => []RecordedFirst
<1>1. ASSUME ClientsInv, NEW w \in Workers, work[w].stage = "body", work[w].id # 0
      PROVE  /\ work[w].id \in DOMAIN chain
             /\ work[w].act \notin astray => chain[work[w].id] = Pre(w, work[w].act)
  <2>1. TypeInv /\ RecAt(w, work[w], chain, astray, acts)
    BY <1>1 DEF ClientsInv, WorkInv, RecOK
  <2>2. work[w].id \in Nat /\ work[w].id <= Len(chain)
    BY <2>1 DEF TypeInv, Recs, RecAt
  <2>3. Len(chain) \in Nat /\ DOMAIN chain = 1..Len(chain)
    BY <2>1, Lengths
  <2>4. work[w].id \in DOMAIN chain
    <3>1. PICK n \in Nat, l \in Nat : n = work[w].id /\ l = Len(chain)
      BY <2>2, <2>3
    <3>2. n # 0 /\ n <= l
      BY <1>1, <2>2, <3>1, ZenonT(30)
    <3>3. n \in 1..l
      BY <3>2
    <3> QED  BY <2>3, <3>1, <3>3, ZenonT(30)
  <2> QED  BY <1>1, <2>1, <2>4 DEF RecAt
<1>2. ClientsInv => RecordedFirst
  BY <1>1 DEF RecordedFirst
<1> QED  BY <1>2, ClientsInvariant, PTL

(* No phase of an action is recorded twice, whatever calls give up and     *)
(* connections are replaced.                                               *)
THEOREM PhasesAreRecordedOnce == Spec => []RecordedOnce
<1>1. ClientsInv => RecordedOnce
  BY DEF ClientsInv, LogInv, UniqueInv
<1> QED  BY <1>1, ClientsInvariant, PTL
=============================================================================
