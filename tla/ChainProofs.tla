----------------------------- MODULE ChainProofs -----------------------------
(***************************************************************************)
(* Proofs about Chain, for any set of goroutines, any Window, and chains   *)
(* of any length.                                                          *)
(***************************************************************************)
EXTENDS Chain, WellFoundedInduction, TLAPS

-----------------------------------------------------------------------------
(* The inductive invariant.                                                *)

IsSeq(s) == \E S : s \in Seq(S)

\* The hash a receipt with index n + 1 must name.
HashAt(n) == IF n = 0 THEN GenesisHash ELSE ComputeHash(log[n])

Holders == {"insert", "commit", "delete"}

\* Chain.mu is held exactly inside AppendNew and Prune.
MutexInv ==
  /\ \A t \in Threads : pc[t] \in Holders <=> mu = t
  /\ ~up => \A t \in Threads : pc[t] = "idle"

\* Every receipt ever inserted was built on the one before it.
LogInv ==
  /\ IsSeq(log)
  /\ \A i \in 1..Len(log) :
       \E b \in Body, ts \in 1..MaxTime : log[i] = Receipt(i, HashAt(i - 1), b, ts)

\* A stored row has the columns of its receipt, and its JSON or an altered one.
RowInv(i) ==
  \/ receipts[i] = Row(log[i])
  \/ receipts[i] = [prev |-> log[i].prev, hash |-> ComputeHash(log[i]),
                    raw |-> Altered(log[i])]

RowsInv ==
  /\ \A i \in DOMAIN receipts : \A j \in i..Len(log) : j \in DOMAIN receipts
  /\ \A i \in DOMAIN receipts : RowInv(i)

\* The tip in memory, except between the INSERT and the return of AppendNew.
TipInv ==
  up /\ (\A t \in Threads : pc[t] # "commit") =>
    lastIdx = Len(log) /\ lastHash = HashAt(Len(log))

MadeInv ==
  \A t \in Threads :
    /\ pc[t] = "insert" =>
         \E b \in Body, ts \in 1..MaxTime :
           made[t] = Row(Receipt(Len(log) + 1, HashAt(Len(log)), b, ts))
    /\ pc[t] = "commit" => Len(log) > 0 /\ made[t] = Row(log[Len(log)])

First == LeastOf(DOMAIN receipts)

\* An anchor has row i among its leaves.
Covers(a, i) == i \in a.from..a.to /\ i \in DOMAIN a.leaves /\ a.leaves[i].index = i

\* Inside Prune, the rows about to be deleted are leaves of one anchor, which
\* starts at the first row stored.
PruneInv ==
  \A t \in Threads : pc[t] = "delete" =>
    /\ upTo[t] + Window <= Len(log)
    /\ First <= upTo[t]
    /\ \E a \in anchors : /\ a.to = upTo[t]
                          /\ a.from = First
                          /\ \A i \in Below(upTo[t]) : Covers(a, i)

\* No anchor starts past the first row; the anchor that ends just before it
\* starts last, but for those of an unfinished Prune.
AnchorInv ==
  DOMAIN receipts # {} =>
    /\ \A a \in anchors : a.from <= First
    /\ First > 1 => \E c \in anchors :
         /\ c.to = First - 1
         /\ \A a \in anchors : a.from <= c.from \/ a.from = First

\* What an undisturbed VerifyChain has read fits the first row.
CalmInv ==
  \A t \in Threads : pc[t] = "walk" /\ calm[t] /\ DOMAIN receipts # {} =>
    First = 1 \/ (seen[t] > 0 /\ First = seen[t] + 1)

\* HLC.Now is past every stamp given since the chain was opened.
StampInv ==
  /\ up => \A i \in (boot + 1)..Len(log) : log[i].ts <= hlc
  /\ \A t \in Threads : pc[t] = "insert" =>
       /\ made[t].raw.ts <= hlc
       /\ \A i \in (boot + 1)..Len(log) : log[i].ts < made[t].raw.ts

IInv ==
  /\ TypeOK /\ MutexInv /\ LogInv /\ RowsInv /\ TipInv /\ MadeInv
  /\ NoneLost /\ WindowKept /\ PruneInv /\ AnchorInv /\ CalmInv
  /\ StampInv /\ StampsRiseSinceOpen

-----------------------------------------------------------------------------
(* Facts about the operators.                                              *)

\* A nonempty set of numbers has a least element, and LeastOf finds it.
LEMMA LeastExists ==
  ASSUME NEW S, S \subseteq Nat, S # {}
  PROVE  LeastOf(S) \in S /\ \A j \in S : LeastOf(S) <= j
<1> DEFINE R == OpToRel(<, Nat)
<1>1. IsWellFoundedOn(R, Nat)
  BY NatLessThanWellFounded
<1>2. \A x, y \in Nat : x < y => <<x, y>> \in R
  BY DEF OpToRel
<1> HIDE DEF R
<1>3. \E x \in S : \A y \in S : ~(<<y, x>> \in R)
  BY <1>1, WFMin
<1>4. PICK x \in S : \A y \in S : ~(<<y, x>> \in R)
  BY <1>3
<1>5. \A y \in S : x <= y
  <2> SUFFICES ASSUME NEW y \in S PROVE x <= y
    OBVIOUS
  <2>1. ~(y < x)
    BY <1>2, <1>4
  <2> QED BY <2>1
<1> QED BY <1>5 DEF LeastOf

\* LeastOf returns any element that no other precedes.
LEMMA LeastIs ==
  ASSUME NEW S, S \subseteq Nat, NEW m \in S, \A j \in S : m <= j
  PROVE  LeastOf(S) = m
<1>1. LeastOf(S) \in S /\ \A j \in S : LeastOf(S) <= j
  BY LeastExists
<1>2. LeastOf(S) <= m /\ m <= LeastOf(S)
  BY <1>1
<1>3. LeastOf(S) \in Nat /\ m \in Nat
  BY <1>1
<1> QED BY <1>2, <1>3

\* TopOf returns any element that none exceeds.
LEMMA TopIs ==
  ASSUME NEW S, S \subseteq Nat, NEW m \in S, \A j \in S : j <= m
  PROVE  TopOf(S) = m
<1>1. \E i \in S : \A j \in S : j <= i
  OBVIOUS
<1> DEFINE x == CHOOSE i \in S : \A j \in S : j <= i
<1>2. x \in S /\ \A j \in S : j <= x
  BY <1>1
<1>3. TopOf(S) = x
  BY DEF TopOf
<1> HIDE DEF x
<1>4. x <= m /\ m <= x
  BY <1>2
<1>5. x \in Nat /\ m \in Nat
  BY <1>2
<1> QED BY <1>3, <1>4, <1>5

\* A nonempty bounded set of numbers has a greatest element.
LEMMA GreatestExists ==
  ASSUME NEW S, NEW n \in Nat, S \subseteq 0..n, S # {}
  PROVE  \E m \in S : \A j \in S : j <= m
<1> DEFINE T == {n - j : j \in S}
<1>1. T \subseteq Nat /\ T # {}
  <2>1. \A j \in S : n - j \in Nat
    OBVIOUS
  <2>2. PICK j \in S : TRUE
    OBVIOUS
  <2>3. n - j \in T
    OBVIOUS
  <2> QED BY <2>1, <2>3
<1>2. LeastOf(T) \in T /\ \A k \in T : LeastOf(T) <= k
  BY ZenonT(30), <1>1, LeastExists
<1>3. PICK m \in S : LeastOf(T) = n - m
  BY ZenonT(30), <1>2
<1>4. \A j \in S : n - m <= n - j
  BY <1>2, <1>3
<1>5. \A j \in S : j <= m
  BY <1>4
<1> QED BY <1>5

\* What Append adds to a sequence of any elements, and what it keeps.
LEMMA AppendFacts ==
  ASSUME NEW s, NEW x, IsSeq(s)
  PROVE  /\ IsSeq(Append(s, x))
         /\ Len(s) \in Nat
         /\ Len(Append(s, x)) = Len(s) + 1
         /\ Append(s, x)[Len(s) + 1] = x
         /\ \A i \in 1..Len(s) : Append(s, x)[i] = s[i]
<1>1. PICK S : s \in Seq(S)
  BY DEF IsSeq
<1>2. s \in Seq(S \cup {x})
  BY <1>1
<1>3. Append(s, x) \in Seq(S \cup {x})
  BY <1>2
<1>4. IsSeq(Append(s, x))
  BY <1>3 DEF IsSeq
<1> QED BY <1>2, <1>4

\* The function that has one element more is Append's result.
LEMMA AppendIs ==
  ASSUME NEW S, NEW s \in Seq(S), NEW e, NEW u,
         u = [i \in 1..(Len(s) + 1) |-> IF i = Len(s) + 1 THEN e ELSE s[i]]
  PROVE  u = Append(s, e)
<1>1. IsSeq(s)
  BY DEF IsSeq
<1>2. /\ Len(s) \in Nat
      /\ Len(Append(s, e)) = Len(s) + 1
      /\ Append(s, e)[Len(s) + 1] = e
      /\ \A i \in 1..Len(s) : Append(s, e)[i] = s[i]
      /\ IsSeq(Append(s, e))
  BY SMTT(120), <1>1, AppendFacts
<1>3. PICK T : Append(s, e) \in Seq(T)
  BY <1>2 DEF IsSeq
<1> DEFINE a == Append(s, e)
           m == Len(s) + 1
<1>4. a \in Seq(T) /\ Len(a) = m /\ a[m] = e /\ \A i \in 1..Len(s) : a[i] = s[i]
  BY Zenon, <1>2, <1>3
<1> HIDE DEF a
<1>5. a = [i \in 1..m |-> a[i]]
  BY SMTT(30), <1>4
<1>6. \A i \in 1..m : a[i] = IF i = m THEN e ELSE s[i]
  BY SMTT(30), <1>2, <1>4
<1>7. a = [i \in 1..m |-> IF i = m THEN e ELSE s[i]]
  BY ZenonT(30), <1>5, <1>6
<1>8. u = a
  BY SMTT(30), <1>7
<1> QED BY ZenonT(30), <1>8 DEF a

-----------------------------------------------------------------------------
(* Type correctness and the invariant.                                     *)

\* The chain starts in the invariant: Open on an empty database.
LEMMA InitIInv == Init => IInv
<1> SUFFICES ASSUME Init PROVE IInv
  OBVIOUS
<1> USE ChainAssumption DEF Init
<1>1. IsSeq(log)
  BY DEF IsSeq
<1>2. DOMAIN receipts = {} /\ Len(log) = 0
  OBVIOUS
<1>3. TypeOK
  BY <1>2 DEF TypeOK, States
<1>4. MutexInv
  BY DEF MutexInv, Holders
<1>5. LogInv /\ RowsInv
  BY <1>1, <1>2 DEF LogInv, RowsInv
<1>6. TipInv /\ MadeInv
  BY <1>2 DEF TipInv, MadeInv, HashAt
<1>7. NoneLost /\ WindowKept /\ PruneInv /\ AnchorInv /\ CalmInv
  BY <1>2 DEF NoneLost, WindowKept, PruneInv, AnchorInv, CalmInv
<1>8. StampInv /\ StampsRiseSinceOpen
  BY <1>2 DEF StampInv, StampsRiseSinceOpen
<1> QED BY <1>3, <1>4, <1>5, <1>6, <1>7, <1>8 DEF IInv

\* What RowInv says of the columns, one by one.
LEMMA RowColumns ==
  ASSUME NEW i, RowInv(i)
  PROVE  /\ receipts[i].prev = log[i].prev
         /\ receipts[i].hash = ComputeHash(log[i])
         /\ receipts[i].raw \in {log[i], Altered(log[i])}
<1>1. PICK w \in {log[i], Altered(log[i])} :
        receipts[i] = [prev |-> log[i].prev, hash |-> ComputeHash(log[i]), raw |-> w]
  BY Zenon DEF RowInv, Row
<1>2. receipts[i].prev = log[i].prev
  BY SMTT(30), <1>1
<1>3. receipts[i].hash = ComputeHash(log[i])
  BY SMTT(30), <1>1
<1>4. receipts[i].raw = w
  BY SMTT(30), <1>1
<1> QED BY ZenonT(30), <1>1, <1>2, <1>3, <1>4

\* What is said of the tables and of the log alone.
DurableInv == LogInv /\ RowsInv /\ NoneLost /\ WindowKept /\ AnchorInv

\* The conjuncts that a step leaves alone when it leaves their variables alone.
LEMMA DurableFrame ==
  DurableInv /\ UNCHANGED <<receipts, anchors, log>> => DurableInv'
BY DEF DurableInv, LogInv, RowsInv, RowInv, NoneLost, WindowKept, AnchorInv,
       First, HashAt

\* TipInv stays while no goroutine leaves "commit".
LEMMA TipFrame ==
  ASSUME TipInv, UNCHANGED <<up, lastIdx, lastHash, log>>,
         \A t \in Threads : pc[t] = "commit" => pc'[t] = "commit"
  PROVE  TipInv'
BY DEF TipInv, HashAt

\* MadeInv stays while no goroutine enters "insert" or "commit".
LEMMA MadeFrame ==
  ASSUME MadeInv, UNCHANGED <<made, log>>,
         \A t \in Threads : pc'[t] \in {"insert", "commit"} => pc'[t] = pc[t]
  PROVE  MadeInv'
BY DEF MadeInv, HashAt

\* PruneInv stays while no goroutine enters "delete" and no row comes or goes.
LEMMA PruneFrame ==
  ASSUME PruneInv, UNCHANGED <<anchors, upTo, log>>, DOMAIN receipts' = DOMAIN receipts,
         \A t \in Threads : pc'[t] = "delete" => pc[t] = "delete"
  PROVE  PruneInv'
BY ZenonT(30) DEF PruneInv, First, Below

\* StampInv stays while no goroutine enters "insert" and the clock rests.
LEMMA StampFrame ==
  ASSUME StampInv, StampsRiseSinceOpen, UNCHANGED <<up, hlc, made, log, boot>>,
         \A t \in Threads : pc'[t] = "insert" => pc[t] = "insert"
  PROVE  StampInv' /\ StampsRiseSinceOpen'
BY DEF StampInv, StampsRiseSinceOpen

\* CalmInv stays while no VerifyChain moves and no row comes or goes.
LEMMA CalmFrame ==
  ASSUME CalmInv, UNCHANGED <<pc, calm, seen>>, DOMAIN receipts' = DOMAIN receipts
  PROVE  CalmInv'
BY DEF CalmInv, First

\* The fields of a receipt of the log.
LEMMA LogFacts ==
  ASSUME IInv
  PROVE  /\ IsSeq(log)
         /\ Len(log) \in Nat
         /\ \A i \in 1..Len(log) :
              /\ log[i].index = i
              /\ log[i].prev = HashAt(i - 1)
              /\ log[i].body \in Body
              /\ log[i].ts \in Nat
              /\ log[i] = Receipt(i, HashAt(i - 1), log[i].body, log[i].ts)
<1>1. IsSeq(log)
  BY DEF IInv, LogInv
<1>2. Len(log) \in Nat
  BY SMTT(30), <1>1 DEF IsSeq
<1> SUFFICES ASSUME NEW i \in 1..Len(log)
             PROVE  /\ log[i].index = i
                    /\ log[i].prev = HashAt(i - 1)
                    /\ log[i].body \in Body
                    /\ log[i].ts \in Nat
                    /\ log[i] = Receipt(i, HashAt(i - 1), log[i].body, log[i].ts)
  BY <1>1, <1>2
<1>3. PICK b \in Body, ts \in 1..MaxTime : log[i] = Receipt(i, HashAt(i - 1), b, ts)
  BY DEF IInv, LogInv
<1> QED BY <1>3, ChainAssumption DEF Receipt

\* The sets of numbers of TypeOK.
LEMMA TypeFacts ==
  ASSUME IInv
  PROVE  /\ Len(log) \in Nat
         /\ DOMAIN receipts \subseteq 1..Len(log)
         /\ DOMAIN receipts \subseteq Nat
         /\ \A a \in anchors : /\ a.from \in 1..Len(log) /\ a.to \in a.from..Len(log)
                              /\ a.from \in Nat /\ a.from \in 0..Len(log)
                              /\ a.to \in 0..Len(log)
         /\ hlc \in Nat /\ boot \in 0..Len(log)
<1>1. TypeOK /\ Len(log) \in Nat
  BY Zenon, LogFacts DEF IInv
<1>2. /\ DOMAIN receipts \subseteq 1..Len(log)
      /\ \A a \in anchors : a.from \in 1..Len(log) /\ a.to \in a.from..Len(log)
      /\ hlc \in Nat /\ boot \in 0..Len(log)
  BY Zenon, <1>1 DEF TypeOK
<1>3. DOMAIN receipts \subseteq Nat
  BY SMTT(60), <1>1, <1>2
<1>4. \A a \in anchors : a.from \in Nat /\ a.from \in 0..Len(log) /\ a.to \in 0..Len(log)
  BY SMTT(60), <1>1, <1>2
<1> QED BY Zenon, <1>1, <1>2, <1>3, <1>4

\* AppendNew up to its INSERT: the row is built on the tip, with a fresh stamp.
LEMMA AppendNewKeepsIInv ==
  ASSUME IInv, NEW t \in Threads, AppendNew(t)
  PROVE  IInv'
<1> USE ChainAssumption
<1>1. PICK b \in Body, ts \in Ticks :
        /\ hlc' = ts
        /\ made' = [made EXCEPT ![t] = Row(Receipt(lastIdx + 1, lastHash, b, ts))]
  BY Zenon DEF AppendNew
<1>2. /\ ts \in 1..MaxTime
      /\ ts > hlc
  BY SMTT(30) DEF Ticks, Now, IInv, TypeOK
<1>3. pc' = [pc EXCEPT ![t] = "insert"] /\ mu = NoThread /\ mu' = t /\ up
  BY DEF AppendNew
<1>4. UNCHANGED <<receipts, anchors, up, lastIdx, lastHash, upTo, seen, log, boot, calm>>
  BY DEF AppendNew, durable, history
<1>5. \A u \in Threads : pc[u] \notin Holders
  BY SMTT(30), <1>3 DEF IInv, MutexInv
<1>6. TypeOK'
  BY SMTT(30), <1>1, <1>2, <1>3, <1>4 DEF IInv, TypeOK, States
<1>7. MutexInv'
  BY SMTT(30), <1>3, <1>4, <1>5 DEF IInv, TypeOK, MutexInv, Holders
<1>8. DurableInv'
  BY SMTT(30), <1>4, DurableFrame DEF IInv, DurableInv
<1>9. lastIdx = Len(log) /\ lastHash = HashAt(Len(log))
  BY SMTT(30), <1>3, <1>5 DEF IInv, TipInv, Holders
<1>10. TipInv'
  BY SMTT(30), <1>4, <1>9 DEF TipInv, HashAt
<1>11. made'[t] = Row(Receipt(Len(log) + 1, HashAt(Len(log)), b, ts))
  BY SMTT(30), <1>1, <1>9 DEF IInv, TypeOK
<1>12. MadeInv'
  <2>1. \A u \in Threads : pc'[u] \in {"insert", "commit"} => u = t /\ pc'[u] = "insert"
    BY SMTT(30), <1>3, <1>5 DEF IInv, TypeOK, Holders
  <2>2. HashAt(Len(log))' = HashAt(Len(log)) /\ log' = log
    BY ZenonT(30), <1>4 DEF HashAt
  <2>3. "insert" # "commit"
    OBVIOUS
  <2>4. \E c \in Body, q \in 1..MaxTime :
          made'[t] = Row(Receipt(Len(log') + 1, HashAt(Len(log))', c, q))
    BY ZenonT(30), <1>2, <1>11, <2>2
  <2> QED BY ZenonT(30), <2>1, <2>3, <2>4 DEF MadeInv
<1>13. PruneInv' /\ CalmInv'
  BY ZenonT(30), <1>3, <1>4, <1>5 DEF IInv, TypeOK, PruneInv, CalmInv, First, Below, Holders
<1>14. StampInv'
  <2>1. \A i \in (boot + 1)..Len(log) : log[i].ts <= hlc
    BY ZenonT(30), <1>3 DEF IInv, StampInv
  <2>2. \A i \in (boot + 1)..Len(log) : log[i].ts \in Nat
    <3>1. \A i \in (boot + 1)..Len(log) : i \in 1..Len(log)
      BY SMTT(60), TypeFacts
    <3> QED BY ZenonT(30), <3>1, LogFacts
  <2>3. \A i \in (boot + 1)..Len(log) : log[i].ts < ts
    BY SMTT(30), <1>2, <2>1, <2>2 DEF IInv, TypeOK
  <2>4. made'[t].raw.ts = ts
    BY <1>11 DEF Row, Receipt
  <2>5. \A u \in Threads \ {t} : pc'[u] # "insert"
    BY <1>3, <1>5 DEF IInv, TypeOK, Holders
  <2>6. ts <= ts /\ \A i \in (boot + 1)..Len(log) : log[i].ts <= ts
    BY SMTT(30), <1>2, <2>2, <2>3
  <2> QED BY ZenonT(30), <1>1, <1>4, <2>3, <2>4, <2>5, <2>6 DEF StampInv
<1>15. StampsRiseSinceOpen'
  BY Zenon, <1>4 DEF IInv, StampsRiseSinceOpen
<1> QED BY ZenonT(30), <1>6, <1>7, <1>8, <1>10, <1>12, <1>13, <1>14, <1>15 DEF IInv, DurableInv

\* A refused receipt costs a tick of the clock and nothing else.
LEMMA AppendRefusedKeepsIInv ==
  ASSUME IInv, NEW t \in Threads, AppendRefused(t)
  PROVE  IInv'
<1> USE ChainAssumption
<1>1. hlc' \in Nat /\ hlc' > hlc
  BY SMTT(30) DEF AppendRefused, Ticks, Now, IInv, TypeOK
<1>2. UNCHANGED <<receipts, anchors, up, lastIdx, lastHash, mu, pc, made, upTo, seen,
                  log, boot, calm>>
  BY DEF AppendRefused, durable, locals, history
<1>3. TypeOK' /\ MutexInv'
  BY Zenon, <1>1, <1>2 DEF IInv, TypeOK, MutexInv
<1>4. DurableInv'
  BY ZenonT(30), <1>2, DurableFrame DEF IInv, DurableInv
<1>5. TipInv' /\ MadeInv' /\ PruneInv' /\ CalmInv' /\ StampsRiseSinceOpen'
  <2>1. TipInv' /\ MadeInv'
    BY ZenonT(30), <1>2, TipFrame, MadeFrame DEF IInv
  <2>2. PruneInv' /\ CalmInv'
    BY ZenonT(30), <1>2, PruneFrame, CalmFrame DEF IInv
  <2>3. StampsRiseSinceOpen'
    BY ZenonT(30), <1>2 DEF IInv, StampsRiseSinceOpen
  <2> QED BY ZenonT(30), <2>1, <2>2, <2>3
<1>6. StampInv'
  <2>1. \A u \in Threads : pc[u] # "insert"
    BY DEF AppendRefused, IInv, MutexInv, Holders
  <2>2. \A i \in (boot + 1)..Len(log) : log[i].ts \in Nat /\ log[i].ts <= hlc
    <3>1. up /\ StampInv
      BY Zenon DEF AppendRefused, IInv
    <3>2. \A i \in (boot + 1)..Len(log) : i \in 1..Len(log)
      BY SMTT(60), TypeFacts
    <3> QED BY ZenonT(60), <3>1, <3>2, LogFacts DEF StampInv
  <2> QED BY SMTT(120), <1>1, <1>2, <2>1, <2>2, TypeFacts DEF StampInv
<1> QED BY ZenonT(30), <1>3, <1>4, <1>5, <1>6 DEF IInv, DurableInv

\* The INSERT: the new row goes one past the last, and nothing else moves.
LEMMA InsertRowKeepsIInv ==
  ASSUME IInv, NEW t \in Threads, InsertRow(t)
  PROVE  IInv'
<1> USE ChainAssumption
<1> DEFINE n == Len(log)
<1>1. pc[t] = "insert" /\ pc' = [pc EXCEPT ![t] = "commit"]
  BY Zenon DEF InsertRow
<1>2. UNCHANGED <<anchors, up, lastIdx, lastHash, hlc, mu, made, upTo, seen, boot, calm>>
  BY Zenon DEF InsertRow, memory
<1>3. PICK b \in Body, ts \in 1..MaxTime :
        made[t] = Row(Receipt(n + 1, HashAt(n), b, ts))
  BY ZenonT(30), <1>1 DEF IInv, MadeInv
<1> DEFINE r == Receipt(n + 1, HashAt(n), b, ts)
<1>4. made[t].raw = r /\ made[t].raw.index = n + 1 /\ made[t].raw.ts = ts
  BY SMTT(30), <1>3 DEF Row, Receipt
<1>5. /\ DOMAIN receipts' = DOMAIN receipts \cup {n + 1}
      /\ \A i \in DOMAIN receipts : i # n + 1 => receipts'[i] = receipts[i]
      /\ receipts'[n + 1] = Row(r)
  BY Zenon, <1>3, <1>4 DEF InsertRow
<1>6. log' = Append(log, r)
  BY ZenonT(30), <1>4 DEF InsertRow
<1> HIDE DEF r
<1>7. /\ IsSeq(log')
      /\ n \in Nat
      /\ Len(log') = n + 1
      /\ log'[n + 1] = r
      /\ \A i \in 1..n : log'[i] = log[i]
  BY SMTT(30), <1>6, AppendFacts DEF IInv, LogInv
<1> HIDE DEF n
<1>8. DOMAIN receipts \subseteq 1..n
  BY Zenon DEF IInv, TypeOK, n
<1>9. \A u \in Threads : u # t => pc[u] \notin Holders
  BY ZenonT(30), <1>1 DEF IInv, MutexInv, Holders
<1>10. TypeOK'
  <2>1. TypeOK
    BY Zenon DEF IInv
  <2>2. DOMAIN receipts' \subseteq 1..Len(log')
    BY SMTT(60), <1>5, <1>7, <1>8
  <2>3. \A a \in anchors' : a.from \in 1..Len(log') /\ a.to \in a.from..Len(log')
    BY SMTT(60), <1>2, <1>7, TypeFacts DEF n
  <2>4. boot' \in 0..Len(log')
    BY SMTT(60), <1>2, <1>7, TypeFacts DEF n
  <2>5. pc' \in [Threads -> States]
    BY SMTT(60), <1>1, <2>1 DEF TypeOK, States
  <2> QED BY ZenonT(60), <1>2, <2>1, <2>2, <2>3, <2>4, <2>5 DEF TypeOK
<1>11. MutexInv'
  BY ZenonT(30), <1>1, <1>2 DEF IInv, TypeOK, MutexInv, Holders
<1>12. \A i \in 0..n : HashAt(i)' = HashAt(i)
  <2>1. \A i \in 0..n : i = 0 \/ i \in 1..n
    BY SMTT(60), <1>7
  <2> QED BY ZenonT(60), <1>7, <2>1 DEF HashAt
<1>13. LogInv'
  <2> SUFFICES ASSUME NEW i \in 1..(n + 1)
               PROVE  \E bb \in Body, tt \in 1..MaxTime :
                        log'[i] = Receipt(i, HashAt(i - 1)', bb, tt)
    BY ZenonT(30), <1>7 DEF LogInv
  <2>1. HashAt(i - 1)' = HashAt(i - 1)
    BY SMTT(30), <1>7, <1>12
  <2>2. CASE i = n + 1
    BY SMTT(30), <1>7, <2>1, <2>2 DEF r
  <2>3. CASE i \in 1..n
    BY ZenonT(30), <1>7, <2>1, <2>3 DEF IInv, LogInv, n
  <2> QED BY SMTT(30), <1>7, <2>2, <2>3
<1>14. RowsInv'
  <2>1. \A i \in DOMAIN receipts' : \A j \in i..(n + 1) : j \in DOMAIN receipts'
    BY SMTT(30), <1>5, <1>7, <1>8 DEF IInv, RowsInv, n
  <2>2. \A i \in DOMAIN receipts' : RowInv(i)'
    <3> SUFFICES ASSUME NEW i \in DOMAIN receipts' PROVE RowInv(i)'
      BY Zenon
    <3>1. CASE i = n + 1
      BY ZenonT(30), <1>5, <1>7, <3>1 DEF RowInv
    <3>2. CASE i # n + 1
      BY ZenonT(30), <1>5, <1>7, <1>8, <3>2 DEF RowInv, IInv, RowsInv
    <3> QED BY ZenonT(30), <3>1, <3>2
  <2> QED BY ZenonT(30), <1>7, <2>1, <2>2 DEF RowsInv
<1>15. TipInv'
  BY ZenonT(30), <1>1 DEF TipInv, IInv, TypeOK
<1>16. MadeInv'
  <2>1. \A u \in Threads : pc'[u] # "insert" /\ (pc'[u] = "commit" => u = t)
    BY SMTT(60), <1>1, <1>9 DEF IInv, TypeOK, Holders
  <2>2. Len(log') > 0 /\ made'[t] = Row(log'[Len(log')])
    <3>1. n + 1 > 0
      BY SMTT(30), <1>7
    <3>2. made'[t] = Row(r)
      BY ZenonT(30), <1>2, <1>3 DEF r
    <3> QED BY ZenonT(30), <1>7, <3>1, <3>2
  <2> QED BY ZenonT(30), <2>1, <2>2 DEF MadeInv
<1>17. NoneLost'
  <2> SUFFICES ASSUME NEW i \in 1..(n + 1), i \notin DOMAIN receipts'
               PROVE  \E a \in anchors : /\ i \in a.from..a.to
                                         /\ i \in DOMAIN a.leaves
                                         /\ a.leaves[i].index = i
    BY Zenon, <1>2, <1>7 DEF NoneLost
  <2>1. i \in 1..n \ DOMAIN receipts
    BY SMTT(120), <1>5, <1>7
  <2> QED BY Zenon, <2>1 DEF IInv, NoneLost, n
<1>18. WindowKept'
  BY SMTT(30), <1>5, <1>7 DEF IInv, WindowKept, n
<1>19. PruneInv'
  BY Zenon, <1>1, <1>9 DEF PruneInv, IInv, TypeOK, Holders
<1>20. First' = IF DOMAIN receipts = {} THEN n + 1 ELSE First
  <2>1. CASE DOMAIN receipts = {}
    <3>1. DOMAIN receipts' = {n + 1} /\ n + 1 \in Nat
      BY SMTT(30), <1>5, <1>7, <2>1
    <3>2. LeastOf(DOMAIN receipts') = n + 1
      BY SMTT(30), <3>1, LeastIs
    <3> QED BY SMTT(30), <2>1, <3>2 DEF First
  <2>2. CASE DOMAIN receipts # {}
    <3>1. First \in DOMAIN receipts /\ \A j \in DOMAIN receipts : First <= j
      BY SMTT(30), <1>8, <2>2, LeastExists DEF First
    <3>2. /\ First \in DOMAIN receipts'
          /\ DOMAIN receipts' \subseteq Nat
          /\ \A j \in DOMAIN receipts' : First <= j
      BY SMTT(30), <1>5, <1>7, <1>8, <3>1
    <3>3. LeastOf(DOMAIN receipts') = First
      BY SMTT(30), <3>2, LeastIs
    <3> QED BY SMTT(30), <2>2, <3>3 DEF First
  <2> QED BY ZenonT(30), <2>1, <2>2
<1>21. DOMAIN receipts = {} => n = 0
  BY <1>7 DEF IInv, WindowKept, n
<1>22. AnchorInv'
  <2>1. CASE DOMAIN receipts = {}
    <3>1. \A a \in anchors : FALSE
      BY SMTT(60), <1>21, <2>1, TypeFacts DEF n
    <3> QED BY SMTT(60), <1>2, <1>7, <1>20, <1>21, <2>1, <3>1 DEF AnchorInv
  <2>2. CASE DOMAIN receipts # {}
    BY <1>2, <1>20, <2>2 DEF AnchorInv, IInv
  <2> QED BY <2>1, <2>2
<1>23. CalmInv'
  <2> SUFFICES ASSUME NEW u \in Threads, pc'[u] = "walk", calm'[u]
               PROVE  First' = 1 \/ (seen'[u] > 0 /\ First' = seen'[u] + 1)
    BY DEF CalmInv
  <2>1. pc[u] = "walk" /\ calm[u] /\ seen'[u] = seen[u]
    BY <1>1, <1>2 DEF IInv, TypeOK
  <2>2. CASE DOMAIN receipts = {}
    BY <1>20, <1>21, <2>2
  <2>3. CASE DOMAIN receipts # {}
    BY <1>20, <2>1, <2>3 DEF IInv, CalmInv
  <2> QED BY Zenon, <2>2, <2>3
<1>24. StampInv' /\ StampsRiseSinceOpen'
  <2>1. /\ ts \in Nat /\ ts <= hlc
        /\ \A i \in (boot + 1)..n : log[i].ts < ts
    BY SMTT(30), <1>1, <1>4 DEF IInv, StampInv, n
  <2>2. r.ts = ts
    BY Zenon DEF r, Receipt
  <2>3. \A i \in 1..n : log[i].ts \in Nat
    BY ZenonT(30), LogFacts DEF n
  <2>4. boot \in Nat /\ hlc \in Nat
    BY SMTT(30), <1>7 DEF IInv, TypeOK, n
  <2>5. \A i \in (boot + 1)..(n + 1) : log'[i].ts <= hlc
    BY SMTT(30), <1>7, <2>1, <2>2, <2>3, <2>4
  <2>6. \A u \in Threads : pc'[u] # "insert"
    BY ZenonT(30), <1>1, <1>9 DEF IInv, TypeOK, Holders
  <2>7. StampInv'
    BY ZenonT(30), <1>2, <1>7, <2>5, <2>6 DEF StampInv
  <2>8. \A i, j \in (boot + 1)..(n + 1) : i < j => log'[i].ts < log'[j].ts
    BY SMTT(30), <1>7, <2>1, <2>2, <2>4 DEF IInv, StampsRiseSinceOpen, n
  <2> QED BY ZenonT(30), <1>2, <1>7, <2>7, <2>8 DEF StampsRiseSinceOpen
<1> QED BY Zenon, <1>10, <1>11, <1>13, <1>14, <1>15, <1>16, <1>17, <1>18, <1>19, <1>22,
           <1>23, <1>24 DEF IInv

\* A failed INSERT or DELETE: the call returns, the tables are as they were.
LEMMA FailureKeepsIInv ==
  ASSUME IInv, NEW t \in Threads, InsertFails(t) \/ DeleteFails(t)
  PROVE  IInv'
<1> USE ChainAssumption
<1>1. pc[t] \in {"insert", "delete"} /\ Return(t)
  BY Zenon DEF InsertFails, DeleteFails
<1>2. UNCHANGED <<receipts, anchors, up, lastIdx, lastHash, hlc, seen, log, boot, calm>>
  BY Zenon DEF InsertFails, DeleteFails, durable, memory, history
<1>3. mu = t /\ \A u \in Threads : u # t => pc[u] \notin Holders
  BY Zenon, <1>1 DEF IInv, MutexInv, Holders
<1>4. \A u \in Threads : pc'[u] \notin Holders
  BY ZenonT(30), <1>1, <1>3 DEF Return, IInv, TypeOK, Holders
<1>5. TypeOK'
  BY ZenonT(30), <1>1, <1>2 DEF Return, IInv, TypeOK, States
<1>6. MutexInv'
  BY ZenonT(30), <1>1, <1>2, <1>4 DEF Return, IInv, TypeOK, MutexInv
<1>7. DurableInv'
  BY Zenon, <1>2, DurableFrame DEF IInv, DurableInv
<1>8. TipInv'
  <2>1. \A u \in Threads : pc[u] # "commit"
    BY Zenon, <1>1, <1>3 DEF Holders
  <2> QED BY ZenonT(30), <1>2, <2>1 DEF IInv, TipInv, HashAt
<1>9. MadeInv' /\ PruneInv'
  BY ZenonT(30), <1>4 DEF MadeInv, PruneInv, Holders
<1>10. CalmInv'
  BY ZenonT(30), <1>1, <1>2 DEF Return, IInv, TypeOK, CalmInv, First
<1>11. StampInv' /\ StampsRiseSinceOpen'
  BY Zenon, <1>2, <1>4 DEF IInv, StampInv, StampsRiseSinceOpen, Holders
<1> QED BY SMTT(30), <1>5, <1>6, <1>7, <1>8, <1>9, <1>10, <1>11 DEF IInv, DurableInv

\* AppendNew returns: the tip in memory catches up with the table.
LEMMA AppendReturnsKeepsIInv ==
  ASSUME IInv, NEW t \in Threads, AppendReturns(t)
  PROVE  IInv'
<1> USE ChainAssumption
<1>1. pc[t] = "commit" /\ Return(t) /\ lastIdx' = made[t].raw.index /\ lastHash' = made[t].hash
  BY Zenon DEF AppendReturns
<1>2. UNCHANGED <<receipts, anchors, up, hlc, seen, log, boot, calm>>
  BY Zenon DEF AppendReturns, durable, history
<1>3. \A u \in Threads : u # t => pc[u] \notin Holders
  BY ZenonT(30), <1>1 DEF IInv, MutexInv, Holders
<1>4. \A u \in Threads : pc'[u] \notin Holders
  BY ZenonT(30), <1>1, <1>3 DEF Return, IInv, TypeOK, Holders
<1>5. Len(log) \in Nat /\ Len(log) > 0 /\ made[t] = Row(log[Len(log)])
  BY ZenonT(30), <1>1, LogFacts DEF IInv, MadeInv
<1>6. lastIdx' = Len(log) /\ lastHash' = HashAt(Len(log))
  <2>1. made[t].raw = log[Len(log)] /\ made[t].hash = ComputeHash(log[Len(log)])
    <3> DEFINE q == log[Len(log)]
    <3>1. made[t] = Row(q)
      BY Zenon, <1>5
    <3> HIDE DEF q
    <3>2. Row(q).raw = q /\ Row(q).hash = ComputeHash(q)
      BY Zenon DEF Row
    <3> QED BY ZenonT(30), <3>1, <3>2 DEF q
  <2>2. Len(log) # 0 /\ Len(log) \in 1..Len(log)
    <3>1. Len(log) \in Nat /\ Len(log) > 0
      BY Zenon, <1>5
    <3> QED BY SMTT(30), <3>1
  <2>3. log[Len(log)].index = Len(log)
    BY ZenonT(30), <2>2, LogFacts
  <2> QED BY ZenonT(30), <1>1, <2>1, <2>2, <2>3 DEF HashAt
<1>7. TypeOK'
  BY ZenonT(30), <1>1, <1>2, <1>5, <1>6 DEF Return, IInv, TypeOK, States
<1>8. MutexInv'
  BY ZenonT(30), <1>1, <1>2, <1>4 DEF Return, IInv, TypeOK, MutexInv
<1>9. DurableInv'
  BY ZenonT(30), <1>2, DurableFrame DEF IInv, DurableInv
<1>10. TipInv'
  BY Zenon, <1>2, <1>6 DEF TipInv, HashAt
<1>11. MadeInv' /\ PruneInv'
  BY ZenonT(30), <1>4 DEF MadeInv, PruneInv, Holders
<1>12. CalmInv'
  BY Zenon, <1>1, <1>2 DEF Return, IInv, TypeOK, CalmInv, First
<1>13. StampInv' /\ StampsRiseSinceOpen'
  BY ZenonT(30), <1>2, <1>4 DEF IInv, StampInv, StampsRiseSinceOpen, Holders
<1> QED BY ZenonT(30), <1>7, <1>8, <1>9, <1>10, <1>11, <1>12, <1>13 DEF IInv, DurableInv

\* Prune up to its anchor: the anchor has every row to be deleted for a leaf.
LEMMA PruneKeepsIInv ==
  ASSUME IInv, NEW t \in Threads, NEW n \in 1..MaxLen, Prune(t, n)
  PROVE  IInv'
<1> USE ChainAssumption
<1>1. /\ up /\ mu = NoThread /\ mu' = t
      /\ pc' = [pc EXCEPT ![t] = "delete"]
      /\ upTo' = [upTo EXCEPT ![t] = n]
      /\ anchors' = anchors \cup {Anchor(n)}
      /\ Below(n) # {}
  BY Zenon DEF Prune
<1>2. UNCHANGED <<receipts, up, lastIdx, lastHash, hlc, made, seen, log, boot, calm>>
  BY Zenon DEF Prune, memory, history
<1>3. \A u \in Threads : pc[u] \notin Holders
  BY ZenonT(30), <1>1 DEF IInv, MutexInv
<1>4. lastIdx = Len(log) /\ lastHash = HashAt(Len(log)) /\ Len(log) \in Nat
  BY ZenonT(30), <1>1, <1>3, LogFacts DEF IInv, TipInv, Holders
<1>5. n + Window <= Len(log)
  BY SMTT(30), <1>4 DEF Prune, MayPrune
<1>6. First \in DOMAIN receipts /\ First <= n /\ \A j \in DOMAIN receipts : First <= j
  <2>1. DOMAIN receipts \subseteq Nat /\ DOMAIN receipts # {}
    BY SMTT(30), <1>1 DEF IInv, TypeOK, Below
  <2>2. First \in DOMAIN receipts /\ \A j \in DOMAIN receipts : First <= j
    BY ZenonT(30), <2>1, LeastExists DEF First
  <2>3. PICK k \in DOMAIN receipts : k <= n
    BY Zenon, <1>1 DEF Below
  <2> QED BY SMTT(30), <2>1, <2>2, <2>3
<1>7. LeastOf(Below(n)) = First
  <2>1. Below(n) \subseteq Nat /\ First \in Below(n) /\ \A j \in Below(n) : First <= j
    BY SMTT(120), <1>6, TypeFacts DEF Below
  <2> QED BY ZenonT(30), <2>1, LeastIs
<1>8. /\ Anchor(n).from = First
      /\ Anchor(n).to = n
      /\ DOMAIN Anchor(n).leaves = Below(n)
      /\ \A i \in Below(n) : Anchor(n).leaves[i] = receipts[i].raw
  BY Zenon, <1>7 DEF Anchor
<1>9. \A i \in DOMAIN receipts : receipts[i].raw.index = i
  <2> SUFFICES ASSUME NEW i \in DOMAIN receipts PROVE receipts[i].raw.index = i
    BY Zenon
  <2>1. i \in 1..Len(log) /\ RowInv(i)
    BY Zenon DEF IInv, TypeOK, RowsInv
  <2>2. log[i].index = i
    BY ZenonT(30), <2>1, LogFacts
  <2>3. receipts[i].raw \in {log[i], Altered(log[i])}
    BY ZenonT(30), <2>1, RowColumns
  <2>4. Altered(log[i]).index = i
    BY Zenon, <2>2 DEF Altered, Receipt
  <2> QED BY ZenonT(30), <2>2, <2>3, <2>4
<1>10. \A i \in Below(n) : Covers(Anchor(n), i)
  <2> SUFFICES ASSUME NEW i \in Below(n) PROVE Covers(Anchor(n), i)
    BY ZenonT(30)
  <2>1. i \in First..n /\ i \in DOMAIN receipts
    BY SMTT(30), <1>6 DEF Below, IInv, TypeOK
  <2> QED BY ZenonT(30), <1>8, <1>9, <2>1 DEF Covers
<1> DEFINE A == Anchor(n)
<1> HIDE DEF A
<1>11. A \in anchors' /\ anchors' = anchors \cup {A} /\ A.from = First /\ A.to = n
       /\ \A i \in Below(n) : Covers(A, i)
  BY ZenonT(30), <1>1, <1>8, <1>10 DEF A
<1>12. TypeOK'
  <2>1. First \in 1..Len(log) /\ n \in First..Len(log)
    BY SMTT(120), <1>4, <1>5, <1>6, TypeFacts
  <2>2. \A a \in anchors' : a.from \in 1..Len(log) /\ a.to \in a.from..Len(log)
    BY Zenon, <1>11, <2>1 DEF IInv, TypeOK
  <2> QED BY SMTT(30), <1>1, <1>2, <2>2 DEF IInv, TypeOK, States
<1>13. MutexInv'
  BY ZenonT(30), <1>1, <1>2, <1>3 DEF IInv, TypeOK, MutexInv, Holders
<1>14. LogInv' /\ RowsInv' /\ WindowKept'
  BY ZenonT(30), <1>2 DEF IInv, LogInv, RowsInv, RowInv, WindowKept, HashAt
<1>15. NoneLost'
  BY ZenonT(30), <1>2, <1>11 DEF IInv, NoneLost
<1>16. TipInv'
  BY ZenonT(30), <1>2, <1>4 DEF TipInv, HashAt
<1>17. MadeInv'
  BY ZenonT(30), <1>1, <1>3 DEF IInv, TypeOK, MadeInv, Holders
<1>18. PruneInv'
  <2>1. \A u \in Threads : pc'[u] = "delete" => u = t
    BY ZenonT(30), <1>1, <1>3 DEF IInv, TypeOK, Holders
  <2>2. upTo'[t] = n
    BY Zenon, <1>1 DEF IInv, TypeOK
  <2>3. First' = First /\ Below(n)' = Below(n)
    BY ZenonT(30), <1>2 DEF First, Below
  <2>4. \A i \in Below(upTo[t])' : Covers(A, i)
    BY ZenonT(30), <1>11, <2>2, <2>3 DEF Below
  <2>5. upTo'[t] + Window <= Len(log') /\ First' <= upTo'[t]
    BY ZenonT(30), <1>2, <1>5, <1>6, <2>2, <2>3
  <2> QED BY ZenonT(30), <1>11, <2>1, <2>2, <2>3, <2>4, <2>5 DEF PruneInv, Covers
<1>19. AnchorInv'
  <2>1. First' = First
    BY ZenonT(30), <1>2 DEF First
  <2>2. First \in Nat
    BY SMTT(30), <1>6 DEF IInv, TypeOK
  <2> QED BY SMTT(30), <1>2, <1>11, <2>1, <2>2 DEF IInv, AnchorInv
<1>20. CalmInv'
  BY ZenonT(30), <1>1, <1>2 DEF IInv, TypeOK, CalmInv, First
<1>21. StampInv' /\ StampsRiseSinceOpen'
  BY ZenonT(30), <1>1, <1>2, <1>3 DEF IInv, TypeOK, StampInv, StampsRiseSinceOpen, Holders
<1> QED BY ZenonT(30), <1>12, <1>13, <1>14, <1>15, <1>16, <1>17, <1>18, <1>19, <1>20, <1>21 DEF IInv

\* Prune's DELETE: the rows that go are covered by the anchor it stored.
LEMMA DeletePrunedKeepsIInv ==
  ASSUME IInv, NEW t \in Threads, DeletePruned(t)
  PROVE  IInv'
<1> USE ChainAssumption
<1> DEFINE n == upTo[t]
           L == Len(log)
<1>1. /\ pc[t] = "delete" /\ Return(t)
      /\ DOMAIN receipts' = DOMAIN receipts \ Below(n)
      /\ \A i \in DOMAIN receipts \ Below(n) : receipts'[i] = receipts[i]
      /\ calm' = [u \in Threads |-> FALSE]
  BY Zenon DEF DeletePruned
<1>2. UNCHANGED <<anchors, up, lastIdx, lastHash, hlc, seen, log, boot>>
  BY Zenon DEF DeletePruned, memory
<1>3. \A u \in Threads : u # t => pc[u] \notin Holders
  BY Zenon, <1>1 DEF IInv, MutexInv, Holders
<1>4. \A u \in Threads : pc'[u] \notin Holders
  BY ZenonT(30), <1>1, <1>3 DEF Return, IInv, TypeOK, Holders
<1>5. PICK c \in anchors : /\ c.to = n
                           /\ c.from = First
                           /\ \A i \in Below(n) : Covers(c, i)
  BY ZenonT(30), <1>1 DEF IInv, PruneInv
<1>6. n \in Nat /\ n + Window <= L /\ First <= n /\ L \in Nat
  BY ZenonT(30), <1>1, LogFacts DEF IInv, TypeOK, PruneInv
<1>7. DOMAIN receipts \subseteq 1..L
  BY ZenonT(30) DEF IInv, TypeOK
<1> HIDE DEF n, L
<1>8. DOMAIN receipts' = {i \in DOMAIN receipts : i > n}
  BY SMTT(30), <1>1, <1>6, <1>7 DEF Below
<1>9. First \in DOMAIN receipts /\ DOMAIN receipts # {}
  <2>1. L \in DOMAIN receipts
    BY SMTT(30), <1>6 DEF IInv, WindowKept, L
  <2>2. DOMAIN receipts \subseteq Nat
    BY SMTT(30), <1>7
  <2> QED BY ZenonT(30), <2>1, <2>2, LeastExists DEF First
<1>10. \A i \in (n + 1)..L : i \in DOMAIN receipts
  <2> SUFFICES ASSUME NEW i \in (n + 1)..L PROVE i \in DOMAIN receipts
    BY ZenonT(30)
  <2>1. First \in Nat /\ i \in First..L
    BY SMTT(30), <1>6, <1>7, <1>9
  <2> QED BY ZenonT(30), <1>9, <2>1 DEF IInv, RowsInv, L
<1>11. DOMAIN receipts' = (n + 1)..L
  BY SMTT(30), <1>6, <1>7, <1>8, <1>10
<1>12. First' = n + 1
  <2>1. n + 1 \in (n + 1)..L /\ (n + 1)..L \subseteq Nat /\ \A j \in (n + 1)..L : n + 1 <= j
    BY SMTT(30), <1>6
  <2>2. LeastOf((n + 1)..L) = n + 1
    BY ZenonT(30), <2>1, LeastIs
  <2> QED BY ZenonT(30), <1>11, <2>2 DEF First
<1>13. TypeOK'
  <2>1. DOMAIN receipts' \subseteq 1..L
    BY <1>7, <1>8
  <2> QED BY <1>1, <1>2, <2>1 DEF Return, IInv, TypeOK, States, L
<1>14. MutexInv'
  BY ZenonT(30), <1>1, <1>2, <1>4 DEF Return, IInv, TypeOK, MutexInv
<1>15. LogInv'
  BY ZenonT(30), <1>2 DEF IInv, LogInv, HashAt
<1>16. RowsInv'
  <2>1. \A i \in DOMAIN receipts' : \A j \in i..L : j \in DOMAIN receipts'
    BY SMTT(30), <1>6, <1>11
  <2>2. \A i \in DOMAIN receipts' : RowInv(i)'
    BY ZenonT(30), <1>1, <1>2 DEF IInv, RowsInv, RowInv
  <2> QED BY Zenon, <1>2, <2>1, <2>2 DEF RowsInv, L
<1>17. TipInv'
  <2>1. \A u \in Threads : pc[u] # "commit"
    BY ZenonT(30), <1>1, <1>3 DEF Holders
  <2> QED BY ZenonT(30), <1>2, <2>1 DEF IInv, TipInv, HashAt
<1>18. MadeInv' /\ PruneInv'
  BY ZenonT(30), <1>4 DEF MadeInv, PruneInv, Holders
<1>19. NoneLost'
  <2> SUFFICES ASSUME NEW i \in 1..L, i \notin DOMAIN receipts'
               PROVE  \E a \in anchors : Covers(a, i)
    BY ZenonT(30), <1>2 DEF NoneLost, Covers, L
  <2>1. CASE i \in DOMAIN receipts
    BY ZenonT(30), <1>1, <1>5, <2>1
  <2>2. CASE i \notin DOMAIN receipts
    BY ZenonT(30), <2>2 DEF IInv, NoneLost, Covers, L
  <2> QED BY ZenonT(30), <2>1, <2>2
<1>20. WindowKept'
  BY SMTT(30), <1>2, <1>6, <1>11 DEF WindowKept, L
<1>21. AnchorInv'
  <2>1. First \in Nat /\ \A a \in anchors : a.from \in Nat /\ a.from <= First
    <3>1. AnchorInv
      BY Zenon DEF IInv
    <3> QED BY SMTT(120), <1>7, <1>9, <3>1, TypeFacts DEF AnchorInv, L
  <2>2. \A a \in anchors : a.from <= n + 1
    BY SMTT(30), <1>6, <2>1
  <2>3. c.to = (n + 1) - 1 /\ \A a \in anchors : a.from <= c.from
    BY SMTT(30), <1>5, <1>6, <2>1
  <2> QED BY ZenonT(30), <1>2, <1>12, <2>2, <2>3 DEF AnchorInv
<1>22. CalmInv'
  BY ZenonT(30), <1>1 DEF CalmInv
<1>23. StampInv' /\ StampsRiseSinceOpen'
  BY ZenonT(30), <1>2, <1>4 DEF IInv, StampInv, StampsRiseSinceOpen, Holders
<1> QED BY ZenonT(30), <1>13, <1>14, <1>15, <1>16, <1>17, <1>18, <1>19, <1>20, <1>21,
           <1>22, <1>23 DEF IInv

\* ListAnchors has a last anchor: the greatest end among the greatest starts.
LEMMA LastAnchorFacts ==
  ASSUME IInv
  PROVE  LastAnchorTo \in Nat
<1>1. CASE anchors = {}
  BY ZenonT(30), <1>1 DEF LastAnchorTo
<1>2. CASE anchors # {}
  <2> DEFINE L == Len(log)
             F == {a.from : a \in anchors}
  <2>1. L \in Nat /\ \A a \in anchors : a.from \in 0..L /\ a.to \in 0..L
    BY SMTT(120), TypeFacts
  <2> HIDE DEF L
  <2>2. F \subseteq 0..L /\ F # {}
    BY ZenonT(30), <1>2, <2>1
  <2>3. PICK f \in F : \A g \in F : g <= f
    BY <2>1, <2>2, GreatestExists
  <2>4. \A a \in anchors : a.from <= f
    BY <2>3
  <2> DEFINE E == {a.to : a \in {b \in anchors : b.from = f}}
  <2>5. E \subseteq 0..L /\ E # {}
    BY <2>1, <2>3
  <2>6. PICK e \in E : \A g \in E : g <= e
    BY Zenon, <2>1, <2>5, GreatestExists
  <2>7. PICK c \in anchors : c.from = f /\ c.to = e
    BY <2>6
  <2>8. \A a \in anchors : a.from = f => a.to <= e
    BY <2>6
  <2>9. \A a \in anchors : Before(a, c)
    BY <2>1, <2>4, <2>7, <2>8 DEF Before
  <2> DEFINE last == CHOOSE a \in anchors : \A b \in anchors : Before(b, a)
  <2>10. last \in anchors
    BY Zenon, <2>9
  <2>11. LastAnchorTo = last.to
    BY Zenon, <1>2 DEF LastAnchorTo
  <2> HIDE DEF last
  <2> QED BY SMTT(30), <2>1, <2>10, <2>11
<1> QED BY ZenonT(30), <1>1, <1>2

\* ListAnchors: when no Prune is unfinished, the last anchor ends just before
\* the first row stored.
LEMMA VerifyChainKeepsIInv ==
  ASSUME IInv, NEW t \in Threads, VerifyChain(t)
  PROVE  IInv'
<1> USE ChainAssumption
<1>1. /\ pc[t] = "idle" /\ up
      /\ pc' = [pc EXCEPT ![t] = "walk"]
      /\ seen' = [seen EXCEPT ![t] = LastAnchorTo]
      /\ calm' = [calm EXCEPT ![t] = ~Torn]
  BY Zenon DEF VerifyChain
<1>2. UNCHANGED <<receipts, anchors, up, lastIdx, lastHash, hlc, mu, made, upTo, log, boot>>
  BY Zenon DEF VerifyChain, durable, memory
<1>3. MutexInv'
  BY Zenon, <1>1, <1>2 DEF IInv, TypeOK, MutexInv, Holders
<1>4. DurableInv'
  BY Zenon, <1>2, DurableFrame DEF IInv, DurableInv
<1>5. TipInv' /\ MadeInv' /\ PruneInv' /\ StampInv' /\ StampsRiseSinceOpen'
  <2>1. pc \in [Threads -> States]
    BY Zenon DEF IInv, TypeOK
  <2>2. TipInv'
    <3>1. \A u \in Threads : pc[u] = "commit" => pc'[u] = "commit"
      BY Zenon, <1>1, <2>1
    <3> QED BY ZenonT(30), <1>2, <3>1, TipFrame DEF IInv
  <2>3. MadeInv'
    <3>1. \A u \in Threads : pc'[u] \in {"insert", "commit"} => pc'[u] = pc[u]
      BY ZenonT(30), <1>1, <2>1
    <3> QED BY ZenonT(30), <1>2, <3>1, MadeFrame DEF IInv
  <2>4. PruneInv'
    <3>1. \A u \in Threads : pc'[u] = "delete" => pc[u] = "delete"
      BY Zenon, <1>1, <2>1
    <3> QED BY ZenonT(30), <1>2, <3>1, PruneFrame DEF IInv
  <2>5. StampInv' /\ StampsRiseSinceOpen'
    <3>1. \A u \in Threads : pc'[u] = "insert" => pc[u] = "insert"
      BY ZenonT(30), <1>1, <2>1
    <3> QED BY ZenonT(30), <1>2, <3>1, StampFrame DEF IInv
  <2> QED BY ZenonT(30), <2>2, <2>3, <2>4, <2>5
<1>6. LastAnchorTo \in Nat
  BY Zenon, LastAnchorFacts
<1>7. TypeOK'
  BY ZenonT(30), <1>1, <1>2, <1>6 DEF IInv, TypeOK, States
<1>8. CalmInv'
  <2> SUFFICES ASSUME NEW u \in Threads, pc'[u] = "walk", calm'[u], DOMAIN receipts # {}
               PROVE  First = 1 \/ (seen'[u] > 0 /\ First = seen'[u] + 1)
    BY Zenon, <1>2 DEF CalmInv, First
  <2>1. CASE u # t
    BY ZenonT(30), <1>1, <2>1 DEF IInv, TypeOK, CalmInv
  <2>2. CASE u = t /\ First > 1
    <3>1. PICK c \in anchors : /\ c.to = First - 1
                               /\ \A a \in anchors : a.from <= c.from \/ a.from = First
      BY ZenonT(30), <2>2 DEF IInv, AnchorInv
    <3>2. First \in DOMAIN receipts
      <4>1. DOMAIN receipts \subseteq Nat
        BY Zenon, TypeFacts
      <4> QED BY ZenonT(30), <4>1, LeastExists DEF First
    <3>3. ~Torn
      BY Zenon, <1>1, <2>2 DEF IInv, TypeOK
    <3>4. \A a \in anchors : a.from \in Nat /\ a.to \in Nat /\ a.from <= a.to
      <4>1. Len(log) \in Nat
        BY Zenon, LogFacts
      <4>2. \A a \in anchors : a.from \in 1..Len(log) /\ a.to \in a.from..Len(log)
        BY ZenonT(30) DEF IInv, TypeOK
      <4> QED BY SMTT(30), <4>1, <4>2
    <3>5. First \in Nat
      BY Zenon, <3>2, TypeFacts
    <3>6. \A a \in anchors : a.to < First
      BY SMTT(120), <3>2, <3>3, <3>4, <3>5 DEF Torn, Below
    <3>7. \A a \in anchors : a.from <= c.from /\ a.to <= c.to
      BY SMTT(30), <3>1, <3>4, <3>5, <3>6
    <3>8. \A a \in anchors : Before(a, c)
      BY SMTT(30), <3>4, <3>7 DEF Before
    <3> DEFINE last == CHOOSE a \in anchors : \A b \in anchors : Before(b, a)
    <3>9. last \in anchors /\ \A b \in anchors : Before(b, last)
      BY Zenon, <3>8
    <3>10. LastAnchorTo = last.to
      BY ZenonT(30), <3>1 DEF LastAnchorTo
    <3> HIDE DEF last
    <3>11. last.to = c.to
      BY SMTT(30), <3>4, <3>7, <3>9 DEF Before
    <3> QED BY SMTT(30), <1>1, <2>2, <3>1, <3>5, <3>10, <3>11 DEF IInv, TypeOK
  <2>3. First \in Nat \ {0}
    <3>1. DOMAIN receipts \subseteq Nat \ {0}
      BY SMTT(30) DEF IInv, TypeOK
    <3> QED BY ZenonT(30), <3>1, LeastExists DEF First
  <2> QED BY SMTT(30), <2>1, <2>2, <2>3
<1> QED BY Zenon, <1>3, <1>4, <1>5, <1>7, <1>8 DEF IInv, DurableInv

\* The walk of VerifyChain only reads.
LEMMA WalkRowsKeepsIInv ==
  ASSUME IInv, NEW t \in Threads, WalkRows(t)
  PROVE  IInv'
<1> USE ChainAssumption
<1>1. /\ pc[t] = "walk"
      /\ pc' = [pc EXCEPT ![t] = "idle"]
      /\ seen' = [seen EXCEPT ![t] = 0]
      /\ calm' = [calm EXCEPT ![t] = FALSE]
  BY Zenon DEF WalkRows
<1>2. UNCHANGED <<receipts, anchors, up, lastIdx, lastHash, hlc, mu, made, upTo, log, boot>>
  BY ZenonT(30) DEF WalkRows, durable, memory
<1>3. TypeOK' /\ MutexInv'
  BY ZenonT(30), <1>1, <1>2 DEF IInv, TypeOK, States, MutexInv, Holders
<1>4. DurableInv'
  BY SMTT(30), <1>2, DurableFrame DEF IInv, DurableInv
<1>5. TipInv' /\ MadeInv' /\ PruneInv' /\ StampInv' /\ StampsRiseSinceOpen'
  <2>1. pc \in [Threads -> States]
    BY Zenon DEF IInv, TypeOK
  <2>2. TipInv'
    <3>1. \A u \in Threads : pc[u] = "commit" => pc'[u] = "commit"
      BY ZenonT(30), <1>1, <2>1
    <3> QED BY <1>2, <3>1, TipFrame DEF IInv
  <2>3. MadeInv'
    <3>1. \A u \in Threads : pc'[u] \in {"insert", "commit"} => pc'[u] = pc[u]
      BY ZenonT(30), <1>1, <2>1
    <3> QED BY <1>2, <3>1, MadeFrame DEF IInv
  <2>4. PruneInv'
    <3>1. \A u \in Threads : pc'[u] = "delete" => pc[u] = "delete"
      BY ZenonT(30), <1>1, <2>1
    <3> QED BY <1>2, <3>1, PruneFrame DEF IInv
  <2>5. StampInv' /\ StampsRiseSinceOpen'
    <3>1. \A u \in Threads : pc'[u] = "insert" => pc[u] = "insert"
      BY Zenon, <1>1, <2>1
    <3> QED BY SMTT(30), <1>2, <3>1, StampFrame DEF IInv
  <2> QED BY SMTT(30), <2>2, <2>3, <2>4, <2>5
<1>6. CalmInv'
  BY ZenonT(30), <1>1, <1>2 DEF IInv, TypeOK, CalmInv, First
<1> QED BY ZenonT(30), <1>3, <1>4, <1>5, <1>6 DEF IInv, DurableInv

\* A crash between any two statements leaves the tables coherent.
LEMMA CrashKeepsIInv ==
  ASSUME IInv, Crash
  PROVE  IInv'
<1> USE ChainAssumption
<1>1. /\ ~up' /\ mu' = NoThread
      /\ pc' = [t \in Threads |-> "idle"]
      /\ DOMAIN made' = Threads
      /\ upTo' = [t \in Threads |-> 0]
      /\ seen' = [t \in Threads |-> 0]
      /\ lastIdx' = 0 /\ hlc' = 0
      /\ calm' = [t \in Threads |-> FALSE]
      /\ UNCHANGED <<receipts, anchors, log, boot>>
  BY Zenon DEF Crash, durable
<1>2. up' = FALSE
  BY Zenon DEF Crash
<1>3. TypeOK'
  BY ZenonT(30), <1>1, <1>2 DEF IInv, TypeOK, States
<1>4. MutexInv'
  BY SMTT(30), <1>1 DEF MutexInv, Holders
<1>5. DurableInv'
  BY SMTT(30), <1>1, DurableFrame DEF IInv, DurableInv
<1>6. TipInv' /\ MadeInv' /\ PruneInv' /\ CalmInv' /\ StampInv' /\ StampsRiseSinceOpen'
  <2>1. \A t \in Threads : pc'[t] = "idle"
    BY SMTT(30), <1>1
  <2>2. TipInv'
    BY <1>2 DEF TipInv
  <2>3. MadeInv' /\ PruneInv' /\ CalmInv'
    BY Zenon, <2>1 DEF MadeInv, PruneInv, CalmInv
  <2>4. StampInv'
    BY ZenonT(30), <1>2, <2>1 DEF StampInv
  <2>5. StampsRiseSinceOpen'
    BY ZenonT(30), <1>1 DEF IInv, StampsRiseSinceOpen
  <2> QED BY SMTT(30), <2>2, <2>3, <2>4, <2>5
<1> QED BY ZenonT(30), <1>3, <1>4, <1>5, <1>6 DEF IInv, DurableInv

\* Open finds the tip of the table, which is the last receipt ever inserted.
LEMMA OpenKeepsIInv ==
  ASSUME IInv, Open
  PROVE  IInv'
<1> USE ChainAssumption
<1>1. /\ ~up /\ up' = TRUE
      /\ lastIdx' = TopOf(DOMAIN receipts)
      /\ lastHash' = IF DOMAIN receipts = {} THEN GenesisHash
                     ELSE receipts[TopOf(DOMAIN receipts)].hash
      /\ hlc' = 0 /\ boot' = Len(log)
      /\ UNCHANGED <<receipts, anchors, mu, pc, made, upTo, seen, log, calm>>
  BY ZenonT(30) DEF Open, durable, locals
<1>2. Len(log) \in Nat /\ DOMAIN receipts \subseteq 1..Len(log)
  BY ZenonT(30), LogFacts DEF IInv, TypeOK
<1>3. \A t \in Threads : pc[t] = "idle"
  BY Zenon, <1>1 DEF IInv, MutexInv
<1>4. lastIdx' = Len(log) /\ lastHash' = HashAt(Len(log))
  <2>1. CASE Len(log) = 0
    <3>1. DOMAIN receipts = {}
      <4> SUFFICES ASSUME NEW i \in DOMAIN receipts PROVE FALSE
        BY ZenonT(30)
      <4> QED BY SMTT(30), <1>2, <2>1
    <3> QED BY ZenonT(30), <1>1, <2>1, <3>1 DEF TopOf, HashAt
  <2>2. CASE Len(log) # 0
    <3>1. Len(log) \in DOMAIN receipts
      BY SMTT(30), <1>2, <2>2 DEF IInv, WindowKept
    <3>2. TopOf(DOMAIN receipts) = Len(log)
      <4>1. DOMAIN receipts \subseteq Nat /\ \A j \in DOMAIN receipts : j <= Len(log)
        BY SMTT(30), <1>2
      <4> QED BY SMTT(30), <3>1, <4>1, TopIs
    <3>3. receipts[Len(log)].hash = ComputeHash(log[Len(log)])
      BY SMTT(30), <3>1, RowColumns DEF IInv, RowsInv
    <3> QED BY SMTT(30), <1>1, <2>2, <3>1, <3>2, <3>3 DEF HashAt
  <2> QED BY ZenonT(30), <2>1, <2>2
<1>5. TypeOK'
  <2>1. Len(log) \in 0..Len(log) /\ 0 \in Nat /\ TRUE \in BOOLEAN
    BY SMTT(30), <1>2
  <2>2. TypeOK
    BY Zenon DEF IInv
  <2> QED BY ZenonT(60), <1>1, <1>2, <1>4, <2>1, <2>2 DEF TypeOK
<1>6. MutexInv'
  BY ZenonT(30), <1>1 DEF IInv, MutexInv
<1>7. DurableInv'
  BY ZenonT(30), <1>1, DurableFrame DEF IInv, DurableInv
<1>8. TipInv'
  BY ZenonT(30), <1>1, <1>4 DEF TipInv, HashAt
<1>9. MadeInv' /\ PruneInv' /\ CalmInv'
  BY ZenonT(30), <1>1, <1>3 DEF MadeInv, PruneInv, CalmInv
<1>10. StampInv' /\ StampsRiseSinceOpen'
  <2>1. \A i \in (Len(log) + 1)..Len(log) : FALSE
    BY SMTT(30), <1>2
  <2>2. \A t \in Threads : pc'[t] # "insert"
    BY ZenonT(30), <1>1, <1>3
  <2> QED BY ZenonT(30), <1>1, <2>1, <2>2 DEF StampInv, StampsRiseSinceOpen
<1> QED BY ZenonT(30), <1>5, <1>6, <1>7, <1>8, <1>9, <1>10 DEF IInv, DurableInv

\* Damage to a stored receipt touches its JSON only.
LEMMA DamageRowKeepsIInv ==
  ASSUME IInv, DamageRow
  PROVE  IInv'
<1> USE ChainAssumption
<1>1. UNCHANGED <<anchors, up, lastIdx, lastHash, hlc, mu, pc, made, upTo, seen, log, boot, calm>>
  BY DEF DamageRow, memory, locals, history
<1>2. PICK d \in DOMAIN receipts \ DamagedRows :
        receipts' = [receipts EXCEPT ![d] =
                       [prev |-> receipts[d].prev, hash |-> receipts[d].hash,
                        raw |-> Altered(receipts[d].raw)]]
  BY ZenonT(30) DEF DamageRow
<1>3. DOMAIN receipts' = DOMAIN receipts
  BY Zenon, <1>2
<1>4. \A i \in DOMAIN receipts : i # d => receipts'[i] = receipts[i]
  BY ZenonT(30), <1>2
<1>5. receipts'[d] = [prev |-> receipts[d].prev, hash |-> receipts[d].hash,
                      raw |-> Altered(receipts[d].raw)]
  BY Zenon, <1>2
<1>6. receipts[d].raw = log[d]
  BY ZenonT(30), <1>2 DEF DamagedRows
<1>7. RowInv(d)'
  <2>1. RowInv(d)
    BY Zenon, <1>2 DEF IInv, RowsInv
  <2>2. receipts[d].prev = log[d].prev /\ receipts[d].hash = ComputeHash(log[d])
    BY ZenonT(30), <2>1, RowColumns
  <2> QED BY ZenonT(30), <1>1, <1>5, <1>6, <2>2 DEF RowInv
<1>8. RowsInv'
  <2>1. \A i \in DOMAIN receipts : RowInv(i)'
    BY ZenonT(30), <1>1, <1>4, <1>7 DEF IInv, RowsInv, RowInv
  <2> QED BY ZenonT(30), <1>1, <1>3, <2>1 DEF IInv, RowsInv
<1>9. TypeOK' /\ MutexInv' /\ LogInv' /\ TipInv' /\ MadeInv'
  <2>1. TypeOK'
    BY ZenonT(30), <1>1, <1>3 DEF IInv, TypeOK
  <2>2. MutexInv' /\ LogInv'
    BY ZenonT(30), <1>1 DEF IInv, MutexInv, LogInv, HashAt
  <2>3. TipInv' /\ MadeInv'
    BY ZenonT(30), <1>1, TipFrame, MadeFrame DEF IInv
  <2> QED BY ZenonT(30), <2>1, <2>2, <2>3
<1>10. NoneLost' /\ WindowKept'
  BY ZenonT(30), <1>1, <1>3 DEF IInv, NoneLost, WindowKept
<1>11. PruneInv' /\ AnchorInv' /\ CalmInv'
  <2>1. PruneInv' /\ CalmInv'
    BY ZenonT(30), <1>1, <1>3, PruneFrame, CalmFrame DEF IInv
  <2>2. AnchorInv'
    BY ZenonT(30), <1>1, <1>3 DEF IInv, AnchorInv, First
  <2> QED BY ZenonT(30), <2>1, <2>2
<1>12. StampInv' /\ StampsRiseSinceOpen'
  BY ZenonT(30), <1>1 DEF IInv, StampInv, StampsRiseSinceOpen
<1> QED BY ZenonT(30), <1>8, <1>9, <1>10, <1>11, <1>12 DEF IInv

\* Every step keeps the invariant.
LEMMA NextKeepsIInv ==
  ASSUME IInv, [Next]_vars
  PROVE  IInv'
<1>1. ASSUME NEW t \in Threads, Call(t) PROVE IInv'
  <2>1. CASE AppendNew(t)
    BY ZenonT(30), <2>1, AppendNewKeepsIInv
  <2>2. CASE AppendRefused(t)
    BY ZenonT(30), <2>2, AppendRefusedKeepsIInv
  <2>3. ASSUME NEW n \in 1..MaxLen, Prune(t, n) PROVE IInv'
    BY ZenonT(30), <2>3, PruneKeepsIInv
  <2>4. CASE VerifyChain(t)
    BY <2>4, VerifyChainKeepsIInv
  <2> QED BY ZenonT(30), <1>1, <2>1, <2>2, <2>3, <2>4 DEF Call
<1>2. ASSUME NEW t \in Threads, Step(t) PROVE IInv'
  <2>1. CASE InsertRow(t)
    BY <2>1, InsertRowKeepsIInv
  <2>2. CASE InsertFails(t) \/ DeleteFails(t)
    BY ZenonT(30), <2>2, FailureKeepsIInv
  <2>3. CASE AppendReturns(t)
    BY <2>3, AppendReturnsKeepsIInv
  <2>4. CASE DeletePruned(t)
    BY <2>4, DeletePrunedKeepsIInv
  <2>5. CASE WalkRows(t)
    BY <2>5, WalkRowsKeepsIInv
  <2> QED BY ZenonT(30), <1>2, <2>1, <2>2, <2>3, <2>4, <2>5 DEF Step
<1>3. CASE UNCHANGED vars
  <2>1. UNCHANGED <<receipts, anchors, up, lastIdx, lastHash, hlc, mu, pc, made, upTo,
                    seen, log, boot, calm>>
    BY ZenonT(30), <1>3 DEF vars, durable, memory, locals, history
  <2>2. DurableInv'
    BY Zenon, <2>1, DurableFrame DEF IInv, DurableInv
  <2>3. TypeOK' /\ MutexInv'
    BY ZenonT(30), <2>1 DEF IInv, TypeOK, MutexInv
  <2>4. TipInv' /\ MadeInv'
    BY ZenonT(30), <2>1, TipFrame, MadeFrame DEF IInv
  <2>5. PruneInv' /\ CalmInv'
    BY ZenonT(30), <2>1, PruneFrame, CalmFrame DEF IInv
  <2>6. StampInv' /\ StampsRiseSinceOpen'
    BY <2>1, StampFrame DEF IInv
  <2> QED BY ZenonT(30), <2>2, <2>3, <2>4, <2>5, <2>6 DEF IInv, DurableInv
<1> QED BY ZenonT(30), <1>1, <1>2, <1>3, CrashKeepsIInv, OpenKeepsIInv, DamageRowKeepsIInv DEF Next

\* IInv holds throughout every behaviour.
THEOREM Invariance == Spec => []IInv
<1>1. IInv /\ [Next]_vars => IInv'
  BY NextKeepsIInv
<1> QED BY InitIInv, <1>1, PTL DEF Spec

-----------------------------------------------------------------------------
(* The properties the runs check.                                          *)

\* Every variable keeps its type, for chains and sets of goroutines of any size.
THEOREM TypeCorrect == Spec => []TypeOK
<1>1. IInv => TypeOK
  BY DEF IInv
<1> QED BY <1>1, Invariance, PTL

\* The stored receipts are a gapless, linked suffix of what was appended, over
\* any interleaving of appends, prunes, failures, damage and crashes.
THEOREM Linked == Spec => []ChainLinked
<1>1. ASSUME IInv PROVE ChainLinked
  <2> SUFFICES ASSUME NEW i \in DOMAIN receipts
               PROVE  /\ log[i].index = i
                      /\ receipts[i].hash = ComputeHash(log[i])
                      /\ receipts[i].prev = IF i = 1 THEN GenesisHash
                                            ELSE ComputeHash(log[i - 1])
    BY ZenonT(30), <1>1 DEF ChainLinked, IInv, RowsInv
  <2>1. i \in 1..Len(log) /\ RowInv(i)
    BY Zenon, <1>1 DEF IInv, TypeOK, RowsInv
  <2>2. log[i].index = i /\ log[i].prev = HashAt(i - 1)
    BY ZenonT(30), <1>1, <2>1, LogFacts
  <2>3. receipts[i].hash = ComputeHash(log[i]) /\ receipts[i].prev = log[i].prev
    BY ZenonT(30), <2>1, RowColumns
  <2>4. HashAt(i - 1) = IF i = 1 THEN GenesisHash ELSE ComputeHash(log[i - 1])
    BY SMTT(120), <1>1, <2>1, LogFacts DEF HashAt
  <2> QED BY ZenonT(30), <2>2, <2>3, <2>4
<1> QED BY <1>1, Invariance, PTL

\* Whenever Chain.mu is free the next AppendNew builds on the stored tip.
THEOREM TipCorrect == Spec => []TipMatchesStore
<1>1. ASSUME IInv PROVE TipMatchesStore
  <2> SUFFICES ASSUME up, mu = NoThread
               PROVE  /\ lastIdx = Len(log)
                      /\ lastHash = IF log = << >> THEN GenesisHash
                                    ELSE receipts[Len(log)].hash
    BY Zenon DEF TipMatchesStore
  <2>1. lastIdx = Len(log) /\ lastHash = HashAt(Len(log))
    BY ZenonT(30), <1>1, ChainAssumption DEF IInv, TipInv, MutexInv, Holders
  <2>2. IsSeq(log) /\ Len(log) \in Nat
    BY ZenonT(30), <1>1, LogFacts
  <2>3. log = << >> <=> Len(log) = 0
    BY SMTT(30), <2>2 DEF IsSeq
  <2>4. ASSUME Len(log) # 0 PROVE receipts[Len(log)].hash = ComputeHash(log[Len(log)])
    <3>1. Len(log) \in DOMAIN receipts
      BY SMTT(30), <1>1, <2>2, <2>4, ChainAssumption DEF IInv, WindowKept
    <3> QED BY ZenonT(30), <1>1, <3>1, RowColumns DEF IInv, RowsInv
  <2> QED BY ZenonT(30), <2>1, <2>3, <2>4 DEF HashAt
<1> QED BY <1>1, Invariance, PTL

\* No receipt leaves the table without an anchor that has it for a leaf.
THEOREM NothingLost == Spec => []NoneLost
<1>1. IInv => NoneLost
  BY ZenonT(30) DEF IInv
<1> QED BY <1>1, Invariance, PTL

\* The last Window receipts stay in the table.
THEOREM WindowSafe == Spec => []WindowKept
<1>1. IInv => WindowKept
  BY ZenonT(30) DEF IInv
<1> QED BY <1>1, Invariance, PTL

\* HLC.Now orders the receipts appended since the chain was opened.
THEOREM StampsOrdered == Spec => []StampsRiseSinceOpen
<1>1. IInv => StampsRiseSinceOpen
  BY ZenonT(30) DEF IInv
<1> QED BY <1>1, Invariance, PTL

-----------------------------------------------------------------------------
(* VerifyChain.                                                            *)

\* Recomputing the hash of a row tells exactly whether its JSON was altered.
LEMMA MismatchIsDamage ==
  ASSUME IInv, NEW i \in DOMAIN receipts
  PROVE  HashMismatch(i) <=> i \in DamagedRows
<1>1. receipts[i].hash = ComputeHash(log[i])
  BY ZenonT(30), RowColumns DEF IInv, RowsInv
<1> QED BY SMTT(30), <1>1 DEF HashMismatch, ComputeHash, DamagedRows

\* VerifyChain never passes a damaged table, whatever Prune does meanwhile.
THEOREM VerifyIsSound == Spec => []VerifySound
<1>1. ASSUME IInv PROVE VerifySound
  <2> SUFFICES ASSUME NEW t \in Threads, Verification(seen[t]).valid
               PROVE  DamagedRows = {}
    BY Zenon DEF VerifySound
  <2>1. BrokenAt(seen[t]) = {}
    BY Zenon DEF Verification
  <2>2. \A i \in DOMAIN receipts : ~HashMismatch(i)
    BY Zenon, <2>1 DEF BrokenAt
  <2>3. DamagedRows \subseteq DOMAIN receipts
    BY ZenonT(30) DEF DamagedRows
  <2> QED BY ZenonT(30), <1>1, <2>2, <2>3, MismatchIsDamage
<1> QED BY <1>1, Invariance, PTL

\* The links an undisturbed walk follows all hold.
LEMMA LinksHold ==
  ASSUME IInv, NEW t \in Threads, pc[t] = "walk", calm[t], NEW i \in DOMAIN receipts
  PROVE  ~LinkBroken(i, seen[t])
<1>1. Len(log) \in Nat /\ i \in 1..Len(log) /\ DOMAIN receipts \subseteq 1..Len(log)
  BY ZenonT(30), LogFacts DEF IInv, TypeOK
<1>2. First \in DOMAIN receipts /\ \A j \in DOMAIN receipts : First <= j
  BY SMTT(30), <1>1, LeastExists DEF First
<1>3. receipts[i].prev = HashAt(i - 1)
  <2>1. RowInv(i)
    BY DEF IInv, RowsInv
  <2>2. receipts[i].prev = log[i].prev
    BY ZenonT(30), <2>1, RowColumns
  <2> QED BY ZenonT(30), <1>1, <2>2, LogFacts
<1>4. CASE i = First
  <2>1. First = 1 \/ (seen[t] > 0 /\ First = seen[t] + 1)
    BY ZenonT(30) DEF IInv, CalmInv
  <2>2. First = 1 => receipts[i].prev = GenesisHash
    BY SMTT(30), <1>3, <1>4 DEF HashAt
  <2> QED BY ZenonT(30), <1>4, <2>1, <2>2 DEF LinkBroken, First
<1>5. CASE i # First
  <2> DEFINE S == {j \in DOMAIN receipts : j < i}
  <2>1. i - 1 \in DOMAIN receipts
    <3>1. i - 1 \in First..Len(log)
      BY SMTT(30), <1>1, <1>2, <1>5
    <3> QED BY ZenonT(30), <1>2, <3>1 DEF IInv, RowsInv
  <2>2. S \subseteq Nat /\ i - 1 \in S /\ \A j \in S : j <= i - 1
    BY SMTT(30), <1>1, <2>1
  <2>3. TopOf(S) = i - 1
    BY ZenonT(30), <2>2, TopIs
  <2>4. receipts[i - 1].hash = HashAt(i - 1)
    <3>1. RowInv(i - 1) /\ i - 1 # 0
      BY SMTT(30), <1>1, <2>1 DEF IInv, RowsInv, TypeOK
    <3> QED BY ZenonT(30), <3>1, RowColumns DEF HashAt
  <2> QED BY ZenonT(30), <1>3, <1>5, <2>3, <2>4 DEF LinkBroken, First
<1> QED BY ZenonT(30), <1>4, <1>5

\* Undisturbed by a Prune, VerifyChain reports exactly the first damaged row.
THEOREM VerifyIsExact == Spec => []VerifyExact
<1>1. ASSUME IInv PROVE VerifyExact
  <2> SUFFICES ASSUME NEW t \in Threads, pc[t] = "walk", calm[t]
               PROVE  Verification(seen[t]) =
                        IF DamagedRows = {} THEN Valid
                        ELSE [valid |-> FALSE, at |-> LeastOf(DamagedRows)]
    BY Zenon DEF VerifyExact
  <2>1. \A i \in DOMAIN receipts : ~LinkBroken(i, seen[t])
    BY Zenon, <1>1, LinksHold
  <2>2. \A i \in DOMAIN receipts : HashMismatch(i) <=> i \in DamagedRows
    BY Zenon, <1>1, MismatchIsDamage
  <2>3. DamagedRows \subseteq DOMAIN receipts
    BY Zenon DEF DamagedRows
  <2>4. BrokenAt(seen[t]) = DamagedRows
    BY ZenonT(30), <2>1, <2>2, <2>3 DEF BrokenAt
  <2> QED BY Zenon, <2>4 DEF Verification
<1> QED BY <1>1, Invariance, PTL

-----------------------------------------------------------------------------
(* The tables implement the ledger.                                        *)

entriesBar ==
  [i \in 1..TopOf(DOMAIN receipts) |->
     IF i \in DOMAIN receipts THEN receipts[i].hash ELSE ComputeHash(log[i])]
baseBar == IF DOMAIN receipts = {} THEN 0 ELSE First - 1
hashes == [i \in 1..Len(log) |-> ComputeHash(log[i])]

\* The hash column shows the hash of every receipt ever inserted.
LEMMA EntriesAreHashes ==
  ASSUME IInv
  PROVE  entriesBar = hashes
<1>1. Len(log) \in Nat /\ DOMAIN receipts \subseteq 1..Len(log)
  BY ZenonT(30), LogFacts DEF IInv, TypeOK
<1>2. TopOf(DOMAIN receipts) = Len(log)
  <2>1. CASE Len(log) = 0
    <3>1. DOMAIN receipts = {}
      <4> SUFFICES ASSUME NEW i \in DOMAIN receipts PROVE FALSE
        BY ZenonT(30)
      <4> QED BY SMTT(30), <1>1, <2>1
    <3> QED BY ZenonT(30), <2>1, <3>1 DEF TopOf
  <2>2. CASE Len(log) # 0
    <3>1. Len(log) \in DOMAIN receipts
      BY SMTT(30), <1>1, <2>2, ChainAssumption DEF IInv, WindowKept
    <3>2. DOMAIN receipts \subseteq Nat /\ \A j \in DOMAIN receipts : j <= Len(log)
      BY SMTT(30), <1>1
    <3> QED BY ZenonT(30), <3>1, <3>2, TopIs
  <2> QED BY ZenonT(30), <2>1, <2>2
<1>3. \A i \in DOMAIN receipts : receipts[i].hash = ComputeHash(log[i])
  <2> SUFFICES ASSUME NEW i \in DOMAIN receipts
               PROVE  receipts[i].hash = ComputeHash(log[i])
    BY ZenonT(30)
  <2>1. RowInv(i)
    BY ZenonT(30) DEF IInv, RowsInv
  <2> QED BY Zenon, <2>1, RowColumns
<1> QED BY ZenonT(30), <1>2, <1>3 DEF entriesBar, hashes

\* Steps that neither add nor drop a row are invisible in the ledger.
LEMMA SameRowsStutter ==
  ASSUME entriesBar = hashes, (entriesBar = hashes)', log' = log,
         DOMAIN receipts' = DOMAIN receipts
  PROVE  UNCHANGED Ledger!vars
<1>1. hashes' = hashes
  BY ZenonT(30) DEF hashes
<1>2. entriesBar' = entriesBar /\ baseBar' = baseBar
  BY ZenonT(30), <1>1 DEF baseBar, First
<1> QED BY Zenon, <1>2 DEF Ledger!vars, entriesBar, baseBar, First

\* The INSERT of AppendNew adds one entry built on the last.
LEMMA InsertRowAdds ==
  ASSUME IInv, IInv', entriesBar = hashes, (entriesBar = hashes)',
         NEW t \in Threads, InsertRow(t)
  PROVE  Ledger!Add
<1> DEFINE n == Len(log)
<1>1. PICK b \in Body, ts \in 1..MaxTime :
        made[t] = Row(Receipt(n + 1, HashAt(n), b, ts))
  BY ZenonT(30) DEF InsertRow, IInv, MadeInv
<1> DEFINE r == Receipt(n + 1, HashAt(n), b, ts)
<1>2. made[t].raw = r /\ made[t].raw.index = n + 1
  <2>1. made[t] = Row(r)
    BY Zenon, <1>1
  <2>2. r.index = n + 1
    BY Zenon DEF Receipt
  <2> HIDE DEF r
  <2>3. Row(r).raw = r
    BY Zenon DEF Row
  <2> QED BY ZenonT(30), <2>1, <2>2, <2>3
<1> HIDE DEF r
<1>3. log' = Append(log, r) /\ DOMAIN receipts' = DOMAIN receipts \cup {n + 1}
  <2>1. log' = Append(log, made[t].raw)
    BY Zenon DEF InsertRow
  <2>2. DOMAIN receipts' = DOMAIN receipts \cup {made[t].raw.index}
    BY Zenon DEF InsertRow
  <2> QED BY ZenonT(30), <1>2, <2>1, <2>2
<1>4. /\ n \in Nat
      /\ Len(log') = n + 1
      /\ log'[n + 1] = r
      /\ \A i \in 1..n : log'[i] = log[i]
  <2>1. IsSeq(log)
    BY Zenon DEF IInv, LogInv
  <2> QED BY ZenonT(120), <1>3, <2>1, AppendFacts
<1> HIDE DEF n
<1>5. hashes = [i \in 1..n |-> ComputeHash(log[i])]
  BY DEF hashes, n
<1>6. hashes' = [i \in 1..(n + 1) |-> IF i = n + 1 THEN ComputeHash(r) ELSE ComputeHash(log[i])]
  <2>1. hashes' = [i \in 1..(n + 1) |-> ComputeHash(log'[i])]
    BY ZenonT(30), <1>4 DEF hashes
  <2>2. \A i \in 1..(n + 1) : i = n + 1 \/ (i # n + 1 /\ i \in 1..n)
    BY SMTT(60), <1>4
  <2>3. ASSUME NEW i \in 1..(n + 1)
        PROVE  ComputeHash(log'[i]) = IF i = n + 1 THEN ComputeHash(r) ELSE ComputeHash(log[i])
    BY ZenonT(30), <1>4, <2>2
  <2> QED BY ZenonT(30), <2>1, <2>3
<1> DEFINE S == {ComputeHash(log[i]) : i \in 1..n} \cup {ComputeHash(r)}
<1>7. hashes \in Seq(S) /\ Len(hashes) = n
  BY SMTT(30), <1>4, <1>5
<1>8. hashes' = Append(hashes, ComputeHash(r))
  <2>1. \A i \in 1..(n + 1) :
          (IF i = n + 1 THEN ComputeHash(r) ELSE ComputeHash(log[i]))
            = (IF i = n + 1 THEN ComputeHash(r) ELSE hashes[i])
    <3> HIDE DEF hashes
    <3> QED BY SMTT(30), <1>4, <1>5
  <2>2. hashes' = [i \in 1..(n + 1) |-> IF i = n + 1 THEN ComputeHash(r) ELSE hashes[i]]
    BY ZenonT(30), <1>6, <2>1
  <2>3. hashes' = [i \in 1..(Len(hashes) + 1) |->
                     IF i = Len(hashes) + 1 THEN ComputeHash(r) ELSE hashes[i]]
    BY ZenonT(30), <1>7, <2>2
  <2> QED BY ZenonT(30), <1>7, <2>3, AppendIs
<1>9. HashAt(n) = IF hashes = << >> THEN GenesisHash ELSE hashes[Len(hashes)]
  <2>1. hashes = << >> <=> n = 0
    BY SMTT(30), <1>7
  <2> QED BY SMTT(30), <1>4, <1>5, <1>7, <2>1 DEF HashAt
<1>10. baseBar' = baseBar
  <2>1. DOMAIN receipts \subseteq 1..n
    BY ZenonT(30) DEF IInv, TypeOK, n
  <2>2. CASE DOMAIN receipts = {}
    <3>1. n = 0
      BY SMTT(120), <1>4, <2>2, ChainAssumption DEF IInv, WindowKept, n
    <3>2. DOMAIN receipts' = {1}
      BY SMTT(30), <1>3, <2>2, <3>1
    <3>3. LeastOf(DOMAIN receipts') = 1
      BY SMTT(30), <3>2, LeastIs
    <3> QED BY SMTT(30), <2>2, <3>2, <3>3 DEF baseBar, First
  <2>3. CASE DOMAIN receipts # {}
    <3>1. First \in DOMAIN receipts /\ \A j \in DOMAIN receipts : First <= j
      BY SMTT(30), <2>1, <2>3, LeastExists DEF First
    <3>2. /\ First \in DOMAIN receipts'
          /\ DOMAIN receipts' \subseteq Nat
          /\ \A j \in DOMAIN receipts' : First <= j
      BY SMTT(30), <1>3, <1>4, <2>1, <3>1
    <3>3. LeastOf(DOMAIN receipts') = First
      BY ZenonT(30), <3>2, LeastIs
    <3> QED BY ZenonT(30), <2>3, <3>2, <3>3 DEF baseBar, First
  <2> QED BY ZenonT(30), <2>2, <2>3
<1>11. entriesBar' = Append(entriesBar, ComputeHash(
          Receipt(Len(entriesBar) + 1,
                  IF entriesBar = << >> THEN GenesisHash ELSE entriesBar[Len(entriesBar)],
                  b, ts)))
  BY ZenonT(30), <1>7, <1>8, <1>9 DEF r
<1>12. /\ Ledger!GenesisHash = GenesisHash
       /\ \A x : Ledger!ComputeHash(x) = ComputeHash(x)
       /\ \A i, p, bb, tt : Ledger!Receipt(i, p, bb, tt) = Receipt(i, p, bb, tt)
  BY Zenon DEF Ledger!GenesisHash, GenesisHash, Ledger!ComputeHash, ComputeHash, Ledger!Receipt,
         Receipt
<1>13. Ledger!TipHash =
         IF entriesBar = << >> THEN GenesisHash ELSE entriesBar[Len(entriesBar)]
  <2>1. Ledger!TipHash =
          IF entriesBar = << >> THEN Ledger!GenesisHash ELSE entriesBar[Len(entriesBar)]
    BY Zenon DEF Ledger!TipHash, entriesBar
  <2> QED BY ZenonT(30), <1>12, <2>1
<1>14. entriesBar' = Append(entriesBar, Ledger!ComputeHash(
          Ledger!Receipt(Len(entriesBar) + 1, Ledger!TipHash, b, ts)))
  BY ZenonT(30), <1>11, <1>12, <1>13
<1> QED BY ZenonT(30), <1>10, <1>14 DEF Ledger!Add, entriesBar, baseBar, First

\* The DELETE of Prune discards a prefix and leaves the last Window entries.
LEMMA DeletePrunedDiscards ==
  ASSUME IInv, IInv', entriesBar = hashes, (entriesBar = hashes)',
         NEW t \in Threads, DeletePruned(t)
  PROVE  Ledger!Discard
<1> USE ChainAssumption
<1> DEFINE n == upTo[t]
<1>1. /\ pc[t] = "delete" /\ log' = log
      /\ DOMAIN receipts' = DOMAIN receipts \ Below(n)
  BY Zenon DEF DeletePruned
<1>2. n \in Nat /\ n + Window <= Len(log) /\ First <= n /\ Len(log) \in Nat
  BY ZenonT(30), <1>1, LogFacts DEF IInv, TypeOK, PruneInv
<1> HIDE DEF n
<1>3. DOMAIN receipts \subseteq 1..Len(log) /\ Len(log) \in DOMAIN receipts
  <2>1. Len(log) \in 1..Len(log) /\ Len(log) + Window > Len(log)
    BY SMTT(30), <1>2
  <2> QED BY ZenonT(30), <2>1 DEF IInv, TypeOK, WindowKept
<1>4. First \in DOMAIN receipts /\ \A j \in DOMAIN receipts : First <= j
  BY SMTT(30), <1>2, <1>3, LeastExists DEF First
<1>5. n + 1 \in DOMAIN receipts'
  <2>1. n + 1 \in First..Len(log)
    BY SMTT(30), <1>2, <1>3, <1>4
  <2>2. n + 1 \in DOMAIN receipts
    BY ZenonT(30), <1>4, <2>1 DEF IInv, RowsInv
  <2> QED BY SMTT(30), <1>1, <1>2, <2>2 DEF Below
<1>6. \A j \in DOMAIN receipts' : j \in Nat /\ n + 1 <= j
  BY SMTT(30), <1>1, <1>2, <1>3 DEF Below
<1>7. LeastOf(DOMAIN receipts') = n + 1
  BY ZenonT(30), <1>5, <1>6, LeastIs
<1>8. baseBar' = n /\ baseBar = First - 1 /\ First \in Nat \ {0}
  BY SMTT(30), <1>2, <1>3, <1>4, <1>5, <1>7 DEF baseBar, First
<1>9. hashes' = hashes /\ Len(hashes) = Len(log)
  BY SMTT(120), <1>1, <1>2 DEF hashes
<1>10. /\ baseBar' \in (baseBar + 1)..Len(entriesBar)
       /\ baseBar' + Window <= Len(entriesBar)
       /\ entriesBar' = entriesBar
  BY SMTT(30), <1>2, <1>8, <1>9
<1> QED BY ZenonT(30), <1>10 DEF Ledger!Discard, entriesBar, baseBar, First

\* The chain, with its crashes, failures and concurrent calls, implements the
\* append-only ledger of hashes.
THEOREM LedgerImplemented == Spec => ImplementsLedger
<1> DEFINE RInv == IInv /\ entriesBar = hashes
<1>1. Init => Ledger!Init
  <2> SUFFICES ASSUME Init PROVE Ledger!Init
    OBVIOUS
  <2>1. DOMAIN receipts = {}
    BY ZenonT(30) DEF Init
  <2>2. TopOf(DOMAIN receipts) = 0
    BY ZenonT(30), <2>1 DEF TopOf
  <2>3. entriesBar = << >> /\ baseBar = 0
    BY SMTT(30), <2>1, <2>2 DEF entriesBar, baseBar
  <2> QED BY Zenon, <2>3 DEF Ledger!Init, entriesBar, baseBar, First
<1>2. IInv => RInv
  BY Zenon, EntriesAreHashes
<1>3. RInv /\ RInv' /\ [Next]_vars => [Ledger!Next]_(Ledger!vars)
  <2> SUFFICES ASSUME RInv, RInv', [Next]_vars PROVE [Ledger!Next]_(Ledger!vars)
    BY ZenonT(30)
  <2>1. ASSUME NEW t \in Threads, InsertRow(t) PROVE Ledger!Next
    BY ZenonT(30), <2>1, InsertRowAdds DEF Ledger!Next
  <2>2. ASSUME NEW t \in Threads, DeletePruned(t) PROVE Ledger!Next
    BY ZenonT(30), <2>2, DeletePrunedDiscards DEF Ledger!Next
  <2>3. ASSUME log' = log, DOMAIN receipts' = DOMAIN receipts PROVE UNCHANGED Ledger!vars
    BY ZenonT(30), <2>3, SameRowsStutter
  <2>4. ASSUME NEW t \in Threads, Call(t) \/ Step(t), ~InsertRow(t), ~DeletePruned(t)
        PROVE  log' = log /\ DOMAIN receipts' = DOMAIN receipts
    BY ZenonT(30), <2>4 DEF Call, Step, AppendNew, AppendRefused, Prune, VerifyChain, InsertFails,
                AppendReturns, DeleteFails, WalkRows, durable, history
  <2>5. ASSUME Crash \/ Open \/ DamageRow
        PROVE  log' = log /\ DOMAIN receipts' = DOMAIN receipts
    BY ZenonT(30), <2>5 DEF Crash, Open, DamageRow, durable, history
  <2>6. ASSUME UNCHANGED vars
        PROVE  log' = log /\ DOMAIN receipts' = DOMAIN receipts
    BY <2>6 DEF vars, durable, history
  <2> QED BY ZenonT(30), <2>1, <2>2, <2>3, <2>4, <2>5, <2>6 DEF Next
<1> HIDE DEF RInv
<1> QED BY <1>1, <1>2, <1>3, Invariance, PTL DEF Spec, ImplementsLedger, Ledger!Spec
=============================================================================
