------------------------- MODULE ControlStoreProofs -------------------------
(***************************************************************************)
(* Proofs about ControlStore for every set of processes, events and        *)
(* histories.  The inductive invariant says how the open transaction, the  *)
(* pending calls and the receipts relate to the committed log.             *)
(***************************************************************************)
EXTENDS ControlStore, NaturalsInduction, WellFoundedInduction, TLAPS

\* l is m, or m with events added at its end.
Extends(l, m) ==
    /\ Len(m) <= Len(l)
    /\ \A n \in 1 .. Len(m) : l[n] = m[n]

\* Event e is somewhere in l.
Logged(l, e) == \E n \in 1 .. Len(l) : l[n] = e

Truthful(l, receipts) == \A a \in receipts : a.seq \in 1 .. Len(l) /\ l[a.seq] = a.event

RequestOK(r) ==
    /\ r.mode \in Modes
    /\ r.batch \in Seq(ControlEvents)
    /\ r.next \in Nat /\ r.from \in Nat
    /\ r.mode = "cursor" => r.from <= r.next
    /\ Truthful(log, r.got)

LogInv ==
    /\ log \in Seq(ControlEvents)
    /\ EL!Distinct(log)
    /\ cursor \in Nat /\ cursor <= Len(log)
    /\ tables.head = Len(log)

CallInv ==
    /\ pc \in [Clients -> PcValues]
    /\ \A c \in Clients : req[c] = NoReq \/ RequestOK(req[c])
    /\ \A c \in Clients : pc[c] \in {"called", "writing", "committed"} => req[c] # NoReq
    /\ DOMAIN req = Clients

\* What the writer has done so far: nothing is lost, nothing is twice, and each event of its
\* batch is written or still to come.
IsTx(t) == t = [by |-> t.by, rest |-> t.rest, log |-> t.log, mem |-> t.mem, tab |-> t.tab]

WriteInv(t) ==
    /\ IsTx(t)
    /\ t.by \in Clients
    /\ pc[t.by] = "writing"
    /\ t.rest \in Seq(ControlEvents)
    /\ t.log \in Seq(ControlEvents)
    /\ Extends(t.log, log)
    /\ EL!Distinct(t.log)
    /\ t.mem.head = Len(t.log)
    /\ \A n \in 1 .. Len(req[t.by].batch) :
          Logged(t.log, req[t.by].batch[n]) \/ Logged(t.rest, req[t.by].batch[n])
    /\ req[t.by].mode = "head" => req[t.by].head = Len(log)

TxInv ==
    /\ tx = NoTx \/ WriteInv(tx)
    /\ \A c \in Clients : pc[c] = "writing" => tx # NoTx /\ tx.by = c

RestInv ==
    /\ file \in {"absent", "empty", "stamped", "ready"}
    /\ upkeep \in 0 .. MaxUpkeep
    /\ Truthful(log, acks)
    /\ \A f \in fenced : f.read = f.wrote

IInv == LogInv /\ CallInv /\ TxInv /\ RestInv

-----------------------------------------------------------------------------
(* What the reducer makes of a log.  Replay is a recursive function; that   *)
(* it exists, is unique and can be taken event by event is shown with the   *)
(* least number at which it would not be.                                   *)

LEMMA LeastNumber ==
    ASSUME NEW S \in SUBSET Nat, S # {}
    PROVE  \E m \in S : \A n \in S : m <= n
<1> DEFINE R == {ss \in Nat \X Nat : ss[1] < ss[2]}
<1>1. IsWellFoundedOn(R, Nat)
    BY NatLessThanWellFounded DEF OpToRel
<1>2. \A x, y \in Nat : y < x => <<y, x>> \in R
    OBVIOUS
<1> HIDE DEF R
<1>3. \E x \in S : \A y \in S : ~ (<<y, x>> \in R)
    BY <1>1, WFMin
<1>4. \E x \in S : \A y \in S : ~(y < x)
    BY <1>2, <1>3
<1> QED
    BY <1>4

Start(p) == [state |-> p, ok |-> TRUE]

After(q, e, seq) ==
    [state |-> applyControlEvent(q.state, e), ok |-> q.ok /\ Reducible(q.state, e, seq)]

\* f holds the result of the first n events of l, for every n up to k.
Run(p, l, k, f) ==
    /\ f[0] = Start(p)
    /\ \A n \in 1 .. k : f[n] = After(f[n - 1], l[n], p.head + n)

LEMMA RunUnique ==
    ASSUME NEW p, NEW l, NEW k \in Nat, NEW f, NEW g, Run(p, l, k, f), Run(p, l, k, g)
    PROVE  f[k] = g[k]
<1> DEFINE Bad == {n \in 0 .. k : f[n] # g[n]}
<1> SUFFICES ASSUME Bad # {} PROVE FALSE
    OBVIOUS
<1>1. Bad \in SUBSET Nat
    OBVIOUS
<1>2. PICK m \in Bad : \A n \in Bad : m <= n
    BY <1>1, LeastNumber
<1>3. m \in 0 .. k /\ f[m] # g[m] /\ m # 0
    BY DEF Run
<1>4. m \in 1 .. k /\ m - 1 \in 0 .. k /\ ~(m <= m - 1)
    BY <1>3
<1>5. f[m - 1] = g[m - 1]
    BY <1>2, <1>4
<1>6. f[m] = After(f[m - 1], l[m], p.head + m) /\ g[m] = After(g[m - 1], l[m], p.head + m)
    BY <1>4 DEF Run
<1> QED
    BY <1>3, <1>5, <1>6

LEMMA RunExists ==
    ASSUME NEW p, NEW l, NEW k \in Nat
    PROVE  \E f : f = [n \in 0 .. k |-> f[n]] /\ Run(p, l, k, f)
<1> DEFINE Solved(n) == \E f : f = [i \in 0 .. n |-> f[i]] /\ Run(p, l, n, f)
           Bad == {n \in Nat : ~Solved(n)}
<1> SUFFICES ASSUME Bad # {} PROVE FALSE
    OBVIOUS
<1>1. PICK m \in Bad : \A n \in Bad : m <= n
    BY LeastNumber
<1>2. Solved(0)
  <2> DEFINE f == [i \in 0 .. 0 |-> Start(p)]
  <2>1. f[0] = Start(p) /\ f = [i \in 0 .. 0 |-> f[i]]
      OBVIOUS
  <2>2. \A n \in 1 .. 0 : FALSE
      OBVIOUS
  <2> QED
      BY <2>1, <2>2 DEF Run
<1>3. m \in Nat /\ m # 0 /\ ~Solved(m)
    BY <1>2
<1>4. m - 1 \in Nat /\ ~(m <= m - 1)
    BY <1>3
<1>5. PICK f : f = [i \in 0 .. m - 1 |-> f[i]] /\ Run(p, l, m - 1, f)
    BY <1>1, <1>4
<1> DEFINE g == [i \in 0 .. m |-> IF i = m THEN After(f[m - 1], l[m], p.head + m) ELSE f[i]]
<1>6. g = [i \in 0 .. m |-> g[i]]
    OBVIOUS
<1>7. g[0] = Start(p)
    BY <1>3, <1>5 DEF Run
<1>8. ASSUME NEW n \in 1 .. m PROVE g[n] = After(g[n - 1], l[n], p.head + n)
  <2>1. n - 1 \in 0 .. m /\ n \in 0 .. m /\ n - 1 # m
      BY <1>3
  <2>2. g[n - 1] = f[n - 1]
      BY <2>1
  <2>3. CASE n = m
      BY <2>1, <2>2, <2>3
  <2>4. CASE n # m
    <3>1. n \in 1 .. m - 1
        BY <1>3, <2>4
    <3>2. f[n] = After(f[n - 1], l[n], p.head + n)
        BY <1>5, <3>1 DEF Run
    <3> QED
        BY <2>1, <2>2, <2>4, <3>2
  <2> QED
      BY <2>3, <2>4
<1> HIDE DEF g
<1>9. Solved(m)
    BY <1>6, <1>7, <1>8 DEF Run
<1> QED
    BY <1>3, <1>9

LEMMA ReplayIs ==
    ASSUME NEW p, NEW l \in Seq(ControlEvents), NEW f, Run(p, l, Len(l), f)
    PROVE  Replay(p, l) = f[Len(l)]
<1> DEFINE Body(g) == [n \in 0 .. Len(l) |->
                          IF n = 0 THEN [state |-> p, ok |-> TRUE]
                          ELSE LET q == g[n - 1]
                               IN  [state |-> applyControlEvent(q.state, l[n]),
                                    ok    |-> q.ok /\ Reducible(q.state, l[n], p.head + n)]]
           F == CHOOSE g : g = Body(g)
<1>0. Len(l) \in Nat
    OBVIOUS
<1>1. Replay(p, l) = F[Len(l)]
    BY DEF Replay
<1>2. \E g : g = Body(g)
  <2>1. PICK g : g = [n \in 0 .. Len(l) |-> g[n]] /\ Run(p, l, Len(l), g)
      BY <1>0, RunExists
  <2>2. ASSUME NEW n \in 0 .. Len(l) PROVE g[n] = Body(g)[n]
    <3>1. CASE n = 0
        BY <2>1, <3>1 DEF Run, Start
    <3>2. CASE n # 0
      <4>1. n \in 1 .. Len(l)
          BY <1>0, <3>2
      <4>2. g[n] = After(g[n - 1], l[n], p.head + n)
          BY <2>1, <4>1 DEF Run
      <4> QED
          BY <3>2, <4>2 DEF After
    <3> QED
        BY <3>1, <3>2
  <2>3. g = Body(g)
      BY <2>1, <2>2
  <2> QED
      BY <2>3
<1>3. F = Body(F)
  <2> HIDE DEF Body
  <2> QED
      BY <1>2
<1> HIDE DEF F
<1>4. Run(p, l, Len(l), F)
  <2>1. F[0] = Start(p)
      BY <1>0, <1>3 DEF Start
  <2>2. ASSUME NEW n \in 1 .. Len(l) PROVE F[n] = After(F[n - 1], l[n], p.head + n)
      BY <1>0, <1>3 DEF After
  <2> QED
      BY <2>1, <2>2 DEF Run
<1> QED
    BY <1>0, <1>1, <1>4, RunUnique

LEMMA RunStep ==
    ASSUME NEW p, NEW l, NEW k \in Nat, NEW f, Run(p, l, k, f), NEW n \in 1 .. k
    PROVE  f[n].state = applyControlEvent(f[n - 1].state, l[n])
<1>1. f[n] = After(f[n - 1], l[n], p.head + n)
    BY DEF Run
<1> QED
    BY <1>1 DEF After

\* The state after the first n events of l is that of the log cut there.
LEMMA ReplayPrefix ==
    ASSUME NEW p, NEW l \in Seq(ControlEvents), NEW f, Run(p, l, Len(l), f),
           NEW n \in 0 .. Len(l)
    PROVE  Replay(p, SubSeq(l, 1, n)) = f[n]
<1> DEFINE s == SubSeq(l, 1, n)
<1>1. s \in Seq(ControlEvents) /\ Len(s) = n /\ \A i \in 1 .. n : s[i] = l[i]
    OBVIOUS
<1> HIDE DEF s
<1>2. \A i \in 1 .. n : i \in 1 .. Len(l)
    OBVIOUS
<1>3. Run(p, s, Len(s), f)
    BY <1>1, <1>2 DEF Run
<1> QED
    BY <1>1, <1>3, ReplayIs DEF s

LEMMA ReplayEmpty ==
    ASSUME NEW p
    PROVE  Replay(p, << >>) = Start(p)
<1>1. << >> \in Seq(ControlEvents) /\ Len(<< >>) = 0 /\ 0 \in Nat
    OBVIOUS
<1>2. \E f : Run(p, << >>, 0, f)
    BY <1>1, RunExists
<1>3. PICK f : Run(p, << >>, 0, f)
    BY <1>2
<1>4. Replay(p, << >>) = f[0]
    BY <1>1, <1>3, ReplayIs
<1> QED
    BY <1>3, <1>4 DEF Run

\* One more event is reduced on top of what the log was reduced to.
LEMMA ReplayAppend ==
    ASSUME NEW p, NEW l \in Seq(ControlEvents), NEW e \in ControlEvents
    PROVE  Replay(p, Append(l, e)) = After(Replay(p, l), e, p.head + (Len(l) + 1))
<1> DEFINE a == Append(l, e)
           k == Len(l)
<1>1. a \in Seq(ControlEvents) /\ Len(a) = k + 1 /\ a[k + 1] = e
        /\ (\A n \in 1 .. k : a[n] = l[n]) /\ k \in Nat
    OBVIOUS
<1> HIDE DEF a, k
<1>2. PICK f : Run(p, a, k + 1, f)
  <2>1. k + 1 \in Nat
      BY <1>1
  <2> QED
      BY <2>1, RunExists
<1>3. Run(p, l, k, f)
  <2>1. \A n \in 1 .. k : n \in 1 .. k + 1
      BY <1>1
  <2> QED
      BY <1>1, <1>2, <2>1 DEF Run
<1>4. Replay(p, a) = f[k + 1]
    BY <1>1, <1>2, ReplayIs
<1>5. Replay(p, l) = f[k]
    BY <1>3, ReplayIs DEF k
<1>6. f[k + 1] = After(f[(k + 1) - 1], a[k + 1], p.head + (k + 1))
  <2>1. k + 1 \in 1 .. k + 1
      BY <1>1
  <2> QED
      BY <1>2, <2>1 DEF Run
<1>7. (k + 1) - 1 = k
    BY <1>1
<1>8. Replay(p, a) = After(Replay(p, l), e, p.head + (k + 1))
    BY <1>1, <1>4, <1>5, <1>6, <1>7
<1> QED
    BY <1>8 DEF a, k

WithHead(p, h) ==
    [head |-> h, run |-> p.run, tasks |-> p.tasks, messages |-> p.messages,
     runtimes |-> p.runtimes, attempts |-> p.attempts, steering |-> p.steering,
     versions |-> p.versions]

\* p is a projection, with a row or its absence for every name.
Shape(p) ==
    /\ p = WithHead(p, p.head)
    /\ p.head \in Nat
    /\ p.tasks = [t \in Tasks |-> p.tasks[t]]
    /\ p.runtimes = [s \in Sessions |-> p.runtimes[s]]
    /\ p.attempts = [a \in Attempts |-> p.attempts[a]]
    /\ p.steering = [k \in Commands |-> p.steering[k]]
    /\ p.versions = [k \in Keys |-> p.versions[k]]

LEMMA EmptyShape == Shape(emptyControlProjection)
BY DEF Shape, WithHead, emptyControlProjection

LEMMA ApplyShape ==
    ASSUME NEW p, Shape(p), NEW e
    PROVE  Shape(applyControlEvent(p, e)) /\ applyControlEvent(p, e).head = p.head + 1
<1> DEFINE q == applyControlEvent(p, e)
<1>1. q = WithHead(q, q.head) /\ q.head = p.head + 1 /\ q.head \in Nat
    BY DEF applyControlEvent, WithHead, Shape
<1>2. q.tasks = [t \in Tasks |-> q.tasks[t]]
    BY DEF applyControlEvent, Shape
<1>3. q.runtimes = [s \in Sessions |-> q.runtimes[s]]
    BY DEF applyControlEvent, Shape
<1>4. q.attempts = [a \in Attempts |-> q.attempts[a]]
    BY DEF applyControlEvent, Shape
<1>5. q.steering = [k \in Commands |-> q.steering[k]]
    BY DEF applyControlEvent, Shape
<1>6. q.versions = [k \in Keys |-> q.versions[k]]
    BY DEF applyControlEvent, ReduceVersions
<1> HIDE DEF q
<1>7. Shape(q) /\ q.head = p.head + 1
    BY <1>1, <1>2, <1>3, <1>4, <1>5, <1>6 DEF Shape
<1> QED
    BY <1>7 DEF q

\* Whatever the log, its reduction is a projection, and its head counts the events.
LEMMA RunShape ==
    ASSUME NEW p, Shape(p), NEW l, NEW k \in Nat, NEW f, Run(p, l, k, f), NEW i \in 0 .. k
    PROVE  Shape(f[i].state) /\ f[i].state.head = p.head + i
<1> DEFINE Good(n) == Shape(f[n].state) /\ f[n].state.head = p.head + n
           Bad == {n \in 0 .. k : ~Good(n)}
<1> SUFFICES ASSUME Bad # {} PROVE FALSE
    OBVIOUS
<1>1. Bad \in SUBSET Nat
    OBVIOUS
<1>2. PICK m \in Bad : \A n \in Bad : m <= n
    BY <1>1, LeastNumber
<1>3. Good(0)
  <2>1. f[0].state = p
      BY DEF Run, Start
  <2>2. p.head \in Nat
      BY DEF Shape
  <2>3. p.head + 0 = p.head
      BY <2>2
  <2> QED
      BY <2>1, <2>3
<1>4. m \in 0 .. k /\ m # 0 /\ ~Good(m)
    BY <1>3
<1>5. m \in 1 .. k /\ m - 1 \in 0 .. k /\ ~(m <= m - 1)
    BY <1>4
<1>6. Good(m - 1)
    BY <1>2, <1>5
<1>7. f[m].state = applyControlEvent(f[m - 1].state, l[m])
    BY <1>5, RunStep
<1>8. Shape(f[m].state) /\ f[m].state.head = f[m - 1].state.head + 1
    BY <1>6, <1>7, ApplyShape
<1>9. f[m].state.head = p.head + m
  <2>1. p.head \in Nat /\ m \in Nat /\ f[m - 1].state.head = p.head + (m - 1)
      BY SMTT(40), <1>4, <1>6 DEF Shape
  <2>2. (p.head + (m - 1)) + 1 = p.head + m
      BY <2>1
  <2> QED
      BY <1>8, <2>1, <2>2
<1> QED
    BY <1>4, <1>8, <1>9

LEMMA ReplayShape ==
    ASSUME NEW l \in Seq(ControlEvents)
    PROVE  Shape(Replayed(l)) /\ Replayed(l).head = Len(l)
<1>1. Len(l) \in Nat
    OBVIOUS
<1>2. PICK f : Run(emptyControlProjection, l, Len(l), f)
    BY <1>1, RunExists
<1>3. Replayed(l) = f[Len(l)].state
    BY <1>2, ReplayIs DEF Replayed, reduceControlEvents
<1>4. emptyControlProjection.head = 0
    BY DEF emptyControlProjection
<1>5. Len(l) \in 0 .. Len(l)
    BY <1>1
<1>6. Shape(f[Len(l)].state) /\ f[Len(l)].state.head = emptyControlProjection.head + Len(l)
    BY <1>1, <1>2, <1>5, EmptyShape, RunShape
<1>7. 0 + Len(l) = Len(l)
    BY <1>1
<1> QED
    BY <1>3, <1>4, <1>6, <1>7

\* A log may be reduced in two parts: the second from what the first was reduced to.
LEMMA ReplayConcat ==
    ASSUME NEW l \in Seq(ControlEvents), NEW h \in 0 .. Len(l)
    PROVE  reduceControlEvents(Replayed(SubSeq(l, 1, h)), SubSeq(l, h + 1, Len(l))) = Replayed(l)
<1> DEFINE E == emptyControlProjection
           r == SubSeq(l, h + 1, Len(l))
           q == Replayed(SubSeq(l, 1, h))
           k == Len(l) - h
<1>1. Len(l) \in Nat /\ h \in Nat /\ k \in Nat /\ h + k = Len(l)
    OBVIOUS
<1>2. r \in Seq(ControlEvents) /\ Len(r) = k /\ \A i \in 1 .. k : r[i] = l[h + i]
    OBVIOUS
<1>3. PICK f : Run(E, l, Len(l), f)
    BY <1>1, RunExists
<1>4. Replayed(l) = f[Len(l)].state /\ q = f[h].state
    BY <1>3, ReplayIs, ReplayPrefix DEF Replayed, reduceControlEvents
<1> HIDE DEF r, q, k, E
<1>5. PICK g : Run(q, r, k, g)
    BY <1>1, RunExists
<1>6. Replay(q, r) = g[k]
    BY <1>2, <1>5, ReplayIs
<1> DEFINE Bad == {n \in 0 .. k : g[n].state # f[h + n].state}
<1>7. Bad = {}
  <2> SUFFICES ASSUME Bad # {} PROVE FALSE
      OBVIOUS
  <2>1. Bad \in SUBSET Nat
      BY <1>1
  <2>2. PICK m \in Bad : \A n \in Bad : m <= n
      BY <2>1, LeastNumber
  <2>3. g[0].state = f[h + 0].state
      BY <1>1, <1>4, <1>5 DEF Run, Start
  <2>4. m \in 0 .. k /\ m # 0 /\ g[m].state # f[h + m].state
      BY <2>3
  <2>5. /\ m \in 1 .. k /\ m - 1 \in 0 .. k /\ ~(m <= m - 1)
        /\ h + m \in 1 .. Len(l) /\ (h + m) - 1 = h + (m - 1)
      BY <1>1, <2>4
  <2>6. g[m - 1].state = f[h + (m - 1)].state
      BY <2>2, <2>5
  <2>7. g[m].state = applyControlEvent(g[m - 1].state, r[m])
    <3>1. \A n \in 1 .. k : g[n].state = applyControlEvent(g[n - 1].state, r[n])
        BY <1>1, <1>5, RunStep
    <3> QED
        BY <2>5, <3>1
  <2>8. f[h + m].state = applyControlEvent(f[(h + m) - 1].state, l[h + m])
    <3>1. \A n \in 1 .. Len(l) : f[n].state = applyControlEvent(f[n - 1].state, l[n])
        BY SMTT(40), <1>1, <1>3, RunStep
    <3> QED
        BY <2>5, <3>1
  <2> QED
      BY <1>2, <2>4, <2>5, <2>6, <2>7, <2>8
<1>8. k \in 0 .. k
    BY <1>1
<1>9. Replay(q, r).state = Replayed(l)
    BY <1>1, <1>4, <1>6, <1>7, <1>8
<1> QED
    BY <1>9 DEF reduceControlEvents, q, r

-----------------------------------------------------------------------------
(* Sequences with distinct events.                                          *)

\* The position SeqOf finds for the id of a logged event is the event's own.
LEMMA SeqOfLogged ==
    ASSUME NEW l \in Seq(ControlEvents), EL!Distinct(l), NEW e, Logged(l, e)
    PROVE  SeqOf(l, e.id) \in 1 .. Len(l) /\ l[SeqOf(l, e.id)] = e
<1>1. PICK n \in 1 .. Len(l) : l[n] = e
    BY DEF Logged
<1> DEFINE P(m) == m \in 1 .. Len(l) /\ l[m].id = e.id
<1>2. P(n)
    BY <1>1
<1>3. P(CHOOSE m \in 1 .. Len(l) : l[m].id = e.id)
    BY <1>2
<1>4. SeqOf(l, e.id) = CHOOSE m \in 1 .. Len(l) : l[m].id = e.id
    BY <1>2 DEF SeqOf
<1>5. SeqOf(l, e.id) = n
    BY <1>1, <1>3, <1>4 DEF EL!Distinct
<1> QED
    BY <1>1, <1>5

\* SeqOf answers 0 only for an id that is not in the log.
LEMMA SeqOfAbsent ==
    ASSUME NEW l \in Seq(ControlEvents), NEW i, SeqOf(l, i) = 0
    PROVE  \A n \in 1 .. Len(l) : l[n].id # i
<1> SUFFICES ASSUME NEW n \in 1 .. Len(l), l[n].id = i PROVE FALSE
    OBVIOUS
<1>1. (CHOOSE m \in 1 .. Len(l) : l[m].id = i) \in 1 .. Len(l)
    OBVIOUS
<1>2. SeqOf(l, i) = CHOOSE m \in 1 .. Len(l) : l[m].id = i
    BY DEF SeqOf
<1> QED
    BY <1>1, <1>2

\* The position SeqOf finds, when it finds one, is that of an event with the id.
LEMMA SeqOfFound ==
    ASSUME NEW l \in Seq(ControlEvents), NEW i, SeqOf(l, i) # 0
    PROVE  SeqOf(l, i) \in 1 .. Len(l) /\ l[SeqOf(l, i)].id = i
<1>1. \E n \in 1 .. Len(l) : l[n].id = i
    BY DEF SeqOf
<1>2. PICK n \in 1 .. Len(l) : l[n].id = i
    BY <1>1
<1>3. /\ (CHOOSE m \in 1 .. Len(l) : l[m].id = i) \in 1 .. Len(l)
      /\ l[CHOOSE m \in 1 .. Len(l) : l[m].id = i].id = i
    BY <1>2
<1>4. SeqOf(l, i) = CHOOSE m \in 1 .. Len(l) : l[m].id = i
    BY <1>1 DEF SeqOf
<1> QED
    BY <1>3, <1>4

\* InsertEvent keeps ids and sources distinct.
LEMMA AppendDistinct ==
    ASSUME NEW l \in Seq(ControlEvents), EL!Distinct(l), NEW e \in ControlEvents,
           SeqOf(l, e.id) = 0, SourceFree(l, e)
    PROVE  /\ Append(l, e) \in Seq(ControlEvents)
           /\ Len(Append(l, e)) = Len(l) + 1
           /\ EL!Distinct(Append(l, e))
<1>1. \A n \in 1 .. Len(l) : l[n].id # e.id
    BY SeqOfAbsent
<1>2. \A n \in 1 .. Len(l) : e.src = None \/ l[n].src # e.src
    BY DEF SourceFree
<1> DEFINE a == Append(l, e)
<1>3. a \in Seq(ControlEvents) /\ Len(a) = Len(l) + 1 /\ a[Len(l) + 1] = e
        /\ \A n \in 1 .. Len(l) : a[n] = l[n]
    OBVIOUS
<1>4. ASSUME NEW m \in 1 .. Len(a), NEW n \in 1 .. Len(a),
             a[m].id = a[n].id \/ (a[m].src = a[n].src /\ a[m].src # None)
      PROVE  m = n
  <2> HIDE DEF a
  <2>1. CASE m \in 1 .. Len(l) /\ n \in 1 .. Len(l)
      BY <1>3, <1>4, <2>1 DEF EL!Distinct
  <2>2. CASE m = Len(l) + 1 /\ n = Len(l) + 1
      BY <2>2
  <2>3. CASE m \in 1 .. Len(l) /\ n = Len(l) + 1
      BY <1>1, <1>2, <1>3, <1>4, <2>3
  <2>4. CASE m = Len(l) + 1 /\ n \in 1 .. Len(l)
      BY <1>1, <1>2, <1>3, <1>4, <2>4
  <2> QED
      BY <1>3, <2>1, <2>2, <2>3, <2>4
<1> QED
    BY <1>3, <1>4 DEF EL!Distinct

\* Receipts for a batch that is wholly logged are truthful.
LEMMA ReceiptsTruthful ==
    ASSUME NEW l \in Seq(ControlEvents), EL!Distinct(l), NEW b \in Seq(ControlEvents),
           \A n \in 1 .. Len(b) : Logged(l, b[n])
    PROVE  Truthful(l, Receipts(l, b))
<1> SUFFICES ASSUME NEW n \in 1 .. Len(b)
             PROVE  SeqOf(l, b[n].id) \in 1 .. Len(l) /\ l[SeqOf(l, b[n].id)] = b[n]
    BY DEF Truthful, Receipts
<1> QED
    BY SeqOfLogged

\* What was true of the log stays true when it grows.
LEMMA TruthfulGrows ==
    ASSUME NEW l \in Seq(ControlEvents), NEW m \in Seq(ControlEvents), Extends(l, m),
           NEW receipts, Truthful(m, receipts)
    PROVE  Truthful(l, receipts)
BY DEF Truthful, Extends

-----------------------------------------------------------------------------
(* The invariant.                                                           *)

LEMMA InitInv == Init => IInv
<1> SUFFICES ASSUME Init PROVE IInv
    OBVIOUS
<1> USE DEF Init
<1>1. LogInv
  <2>1. log \in Seq(ControlEvents) /\ EL!Distinct(log)
      BY SeedsAssumption DEF EL!Distinct
  <2> QED
      BY <2>1, ReplayShape DEF LogInv
<1>2. CallInv
    BY DEF CallInv, PcValues
<1>3. TxInv
    BY DEF TxInv
<1>4. RestInv
    BY MaxUpkeepAssumption DEF RestInv, Truthful
<1> QED
    BY <1>1, <1>2, <1>3, <1>4 DEF IInv

\* A step that leaves log, cursor, tables' head, transaction and requests alone.
LEMMA QuietStep ==
    ASSUME IInv, UNCHANGED <<log, cursor, tx, req, acks, fenced>>,
           tables'.head = tables.head,
           file' \in {"absent", "empty", "stamped", "ready"},
           upkeep' \in 0 .. MaxUpkeep,
           NEW c \in Clients, NEW where \in PcValues \ {"writing"},
           where \in {"called", "committed"} => req[c] # NoReq,
           pc[c] # "writing",
           pc' = [pc EXCEPT ![c] = where]
    PROVE  IInv'
<1> USE DEF IInv
<1>1. LogInv'
    BY DEF LogInv
<1>2. CallInv'
    BY DEF CallInv, RequestOK
<1>3. TxInv'
  <2>1. CASE tx = NoTx
      BY <2>1 DEF TxInv, CallInv
  <2>2. CASE WriteInv(tx)
    <3>1. tx.by # c
        BY <2>2 DEF WriteInv
    <3>2. WriteInv(tx)'
        BY <2>2, <3>1 DEF WriteInv, CallInv
    <3> QED
        BY <3>1, <3>2 DEF TxInv, CallInv
  <2> QED
      BY <2>1, <2>2 DEF TxInv
<1>4. RestInv'
    BY DEF RestInv
<1> QED
    BY <1>1, <1>2, <1>3, <1>4

LEMMA OpeningInv ==
    ASSUME IInv, NEW c \in Clients,
           CreateFile(c) \/ StampFile(c) \/ Bootstrap(c) \/ OpenExisting(c) \/ Close(c)
    PROVE  IInv'
<1> USE DEF store
<1>0. file \in {"absent", "empty", "stamped", "ready"} /\ upkeep \in 0 .. MaxUpkeep
    BY DEF IInv, RestInv
<1>1. CASE CreateFile(c)
    BY <1>0, <1>1, QuietStep DEF CreateFile, PcValues
<1>2. CASE StampFile(c)
    BY <1>0, <1>2, QuietStep DEF StampFile, PcValues
<1>3. CASE Bootstrap(c)
    BY <1>0, <1>3, QuietStep DEF Bootstrap, PcValues, Opened
<1>4. CASE OpenExisting(c)
    BY <1>0, <1>4, QuietStep DEF OpenExisting, PcValues, Opened
<1>5. CASE Close(c)
    BY <1>0, <1>5, QuietStep DEF Close, PcValues
<1> QED
    BY <1>1, <1>2, <1>3, <1>4, <1>5

LEMMA UpkeepInv ==
    ASSUME IInv, NEW c \in Clients,
           createSnapshot(c) \/ RebuildRead(c) \/ RebuildReplay(c) \/ RebuildWrite(c)
    PROVE  IInv'
<1> USE DEF store
<1>0. /\ file \in {"absent", "empty", "stamped", "ready"} /\ upkeep \in 0 .. MaxUpkeep
      /\ tables.head = Len(log)
      /\ pc \in [Clients -> PcValues]
    BY DEF IInv, RestInv, LogInv, CallInv
<1>1. CASE createSnapshot(c)
  <2>1. pc' = [pc EXCEPT ![c] = "idle"]
      BY <1>0, <1>1 DEF createSnapshot
  <2>2. upkeep' \in 0 .. MaxUpkeep
      BY <1>0, <1>1, MaxUpkeepAssumption DEF createSnapshot
  <2>3. /\ UNCHANGED <<log, cursor, tx, req, acks, fenced, file, tables>>
        /\ pc[c] = "idle"
      BY <1>1 DEF createSnapshot
  <2> QED
      BY <1>0, <2>1, <2>2, <2>3, QuietStep DEF PcValues
<1>2. CASE RebuildRead(c)
    BY <1>0, <1>2, QuietStep DEF RebuildRead, PcValues
<1>3. CASE RebuildReplay(c)
  <2>1. \E where \in {"idle", "replace"} : pc' = [pc EXCEPT ![c] = where]
      BY <1>3 DEF RebuildReplay
  <2>2. /\ UNCHANGED <<log, cursor, tx, req, acks, fenced, file, upkeep, tables>>
        /\ pc[c] = "rebuild"
      BY <1>3 DEF RebuildReplay
  <2> QED
      BY <1>0, <2>1, <2>2, QuietStep DEF PcValues
<1>4. CASE RebuildWrite(c)
  <2>1. tables'.head = tables.head
      BY <1>0, <1>4 DEF RebuildWrite, RebuildFence
  <2> QED
      BY <1>0, <1>4, <2>1, QuietStep DEF RebuildWrite, PcValues
<1> QED
    BY <1>1, <1>2, <1>3, <1>4

\* Beginning a call.
LEMMA CallInvariant ==
    ASSUME IInv, NEW c \in Clients, NEW mode \in Modes, NEW batch, NEW next \in Nat,
           pc[c] = "idle", mode = "cursor" => cursor <= next, Call(c, mode, batch, next)
    PROVE  IInv'
<1> USE DEF store
<1> DEFINE r == [mode |-> mode, batch |-> batch, head |-> tables.head,
                 from |-> cursor, next |-> next, got |-> {}]
<1>2. /\ UNCHANGED <<log, cursor, tables, tx, acks, fenced, file, upkeep>>
      /\ req' = [req EXCEPT ![c] = r]
      /\ pc' = [pc EXCEPT ![c] = "called"]
      /\ batch \in Seq(ControlEvents)
    BY DEF Call
<1>3. RequestOK(r)
    BY <1>2 DEF RequestOK, IInv, LogInv, Truthful
<1>4. r # NoReq
    BY DEF NoReq, Modes
<1>5. LogInv' /\ RestInv'
    BY <1>2 DEF IInv, LogInv, RestInv
<1>6. CallInv'
  <2> HIDE DEF r
  <2>1. \A d \in Clients : req'[d] = IF d = c THEN r ELSE req[d]
      BY <1>2 DEF IInv, CallInv
  <2>2. \A d \in Clients : req'[d] = NoReq \/ RequestOK(req'[d])
      BY <1>3, <2>1 DEF IInv, CallInv
  <2>3. \A d \in Clients : req'[d] = NoReq \/ RequestOK(req[d])'
      BY <1>2, <2>2 DEF RequestOK
  <2> QED
      BY <1>2, <1>4, <2>1, <2>3 DEF IInv, CallInv, PcValues
<1>7. TxInv'
  <2> HIDE DEF r
  <2>1. \A d \in Clients : d # c => req'[d] = req[d] /\ pc'[d] = pc[d]
      BY <1>2 DEF IInv, CallInv
  <2>2. pc'[c] = "called"
      BY <1>2 DEF IInv, CallInv
  <2>3. CASE WriteInv(tx)
    <3>1. tx.by # c
        BY <2>3 DEF WriteInv
    <3>2. WriteInv(tx)'
        BY <1>2, <2>1, <2>3, <3>1 DEF WriteInv
    <3> QED
        BY <1>2, <2>1, <2>2, <3>1, <3>2 DEF IInv, TxInv
  <2> QED
      BY <1>2, <2>1, <2>2, <2>3 DEF IInv, TxInv
<1> QED
    BY <1>5, <1>6, <1>7 DEF IInv

LEMMA CallsInv ==
    ASSUME IInv, NEW c \in Clients,
           CallAppend(c) \/ CallConsume(c) \/ CallSkip(c)
    PROVE  IInv'
<1>0. cursor \in Nat /\ log \in Seq(ControlEvents) /\ tables.head = Len(log)
    BY DEF IInv, LogInv
<1>1. CASE CallAppend(c)
  <2>1. PICK b \in Batches : \E id \in [1 .. Len(b) -> Ids] :
            Call(c, ModeOf(b[1].type), ComposeAll(tables, b, id), 0)
      BY <1>1 DEF CallAppend
  <2>2. ModeOf(b[1].type) \in {"head", "append"}
      BY DEF ModeOf
  <2>3. pc[c] = "idle"
      BY <1>1 DEF CallAppend
  <2> QED
      BY <2>1, <2>2, <2>3, CallInvariant DEF Modes
<1>2. CASE CallConsume(c)
  <2>1. PICK next \in cursor + 1 .. Len(log), i \in Effects, id \in Ids :
            Call(c, "cursor", <<Compose(tables, i, id, <<cursor, next>>)>>, next)
      BY <1>2 DEF CallConsume
  <2>2. pc[c] = "idle"
      BY <1>2 DEF CallConsume
  <2>3. next \in Nat /\ cursor <= next
      BY <1>0
  <2> QED
      BY <2>1, <2>2, <2>3, CallInvariant DEF Modes
<1>3. CASE CallSkip(c)
  <2>1. pc[c] = "idle" /\ Call(c, "cursor", << >>, tables.head)
      BY <1>3 DEF CallSkip
  <2>2. tables.head \in Nat /\ cursor <= tables.head
      BY <1>0, <1>3 DEF CallSkip
  <2> QED
      BY <2>1, <2>2, CallInvariant DEF Modes
<1> QED
    BY <1>1, <1>2, <1>3

\* The process has no call any more, and its transaction, if it had one, is gone.
LEMMA DropInv ==
    ASSUME IInv, NEW c \in Clients, NEW where \in {"idle", "closed", "committed"}, NEW r,
           UNCHANGED <<log, cursor, tables, fenced, file>>,
           Truthful(log, acks'),
           upkeep' \in 0 .. MaxUpkeep,
           tx' = IF tx # NoTx /\ tx.by = c THEN NoTx ELSE tx,
           pc' = [pc EXCEPT ![c] = where],
           req' = [req EXCEPT ![c] = r],
           r = NoReq \/ RequestOK(r),
           where = "committed" => r # NoReq
    PROVE  IInv'
<1>1. LogInv' /\ RestInv'
    BY DEF IInv, LogInv, RestInv, Truthful
<1>2. \A d \in Clients : /\ req'[d] = IF d = c THEN r ELSE req[d]
                         /\ pc'[d] = IF d = c THEN where ELSE pc[d]
    BY DEF IInv, CallInv
<1>3. CallInv'
  <2>1. \A d \in Clients : req'[d] = NoReq \/ RequestOK(req'[d])
      BY <1>2 DEF IInv, CallInv
  <2>2. \A d \in Clients : req'[d] = NoReq \/ RequestOK(req[d])'
      BY <2>1 DEF RequestOK
  <2> QED
      BY <1>2, <2>2 DEF IInv, CallInv, PcValues
<1>4. TxInv'
  <2>1. \A d \in Clients : pc'[d] = "writing" => tx' # NoTx /\ tx'.by = d
      BY <1>2 DEF IInv, TxInv
  <2>2. CASE tx # NoTx /\ tx.by # c
    <3>1. WriteInv(tx)
        BY <2>2 DEF IInv, TxInv
    <3>2. WriteInv(tx)'
        BY <1>2, <2>2, <3>1 DEF WriteInv
    <3> QED
        BY <2>1, <2>2, <3>2 DEF TxInv
  <2>3. CASE ~(tx # NoTx /\ tx.by # c)
      BY <2>1, <2>3 DEF TxInv
  <2> QED
      BY <2>2, <2>3
<1> QED
    BY <1>1, <1>3, <1>4 DEF IInv

LEMMA OpenTx ==
    ASSUME IInv, NEW c \in Clients, tx.by = c
    PROVE  tx # NoTx /\ WriteInv(tx)
BY ClientsAssumption DEF IInv, TxInv, NoTx

LEMMA RollbackInv ==
    ASSUME IInv, NEW c \in Clients, tx.by = c, Rollback(c)
    PROVE  IInv'
<1>1. tx # NoTx
    BY OpenTx
<1>2. /\ UNCHANGED <<log, cursor, tables, fenced, file, acks, upkeep>>
      /\ tx' = NoTx
      /\ pc' = [pc EXCEPT ![c] = "idle"]
      /\ req' = [req EXCEPT ![c] = NoReq]
    BY DEF Rollback, store
<1>3. Truthful(log, acks') /\ upkeep' \in 0 .. MaxUpkeep
    BY <1>2 DEF IInv, RestInv
<1> QED
    BY <1>1, <1>2, <1>3, DropInv

LEMMA EndsInv ==
    ASSUME IInv, NEW c \in Clients, StaleHead(c) \/ StoreBusy(c) \/ Return(c) \/ Crash(c)
    PROVE  IInv'
<1> USE DEF store
<1>0. Truthful(log, acks) /\ upkeep \in 0 .. MaxUpkeep
    BY DEF IInv, RestInv
<1>1. ASSUME pc[c] # "writing"
      PROVE  tx = IF tx # NoTx /\ tx.by = c THEN NoTx ELSE tx
    BY <1>1 DEF IInv, TxInv, WriteInv
<1>2. CASE StaleHead(c)
  <2>1. /\ pc[c] = "called"
        /\ UNCHANGED <<log, cursor, tables, fenced, file, acks, upkeep, tx>>
      BY <1>2 DEF StaleHead
  <2>2. req[c] # NoReq /\ RequestOK(req[c])
      BY <2>1 DEF IInv, CallInv
  <2> DEFINE b == req[c].batch
             g == Receipts(log, b)
  <2>3. CASE \A n \in 1 .. Len(b) : Existing(b[n])
    <3>1. /\ req' = [req EXCEPT ![c].got = g]
          /\ pc' = [pc EXCEPT ![c] = "committed"]
        BY <1>2, <2>3 DEF StaleHead
    <3>2. b \in Seq(ControlEvents) /\ log \in Seq(ControlEvents) /\ EL!Distinct(log)
        BY <2>2 DEF RequestOK, IInv, LogInv
    <3>3. \A n \in 1 .. Len(b) : Logged(log, b[n])
      <4> SUFFICES ASSUME NEW n \in 1 .. Len(b) PROVE Logged(log, b[n])
          OBVIOUS
      <4>1. SeqOf(log, b[n].id) # 0 /\ log[SeqOf(log, b[n].id)] = b[n]
          BY <2>3 DEF Existing, SameEvent
      <4> QED
          BY <3>2, <4>1, SeqOfFound DEF Logged
    <3>4. Truthful(log, g)
        BY <3>2, <3>3, ReceiptsTruthful
    <3> DEFINE q == [req[c] EXCEPT !.got = g]
    <3>5. req' = [req EXCEPT ![c] = q]
        BY <3>1
    <3>6. q # NoReq /\ RequestOK(q)
      <4> HIDE DEF g, b
      <4>1. "got" # "mode" /\ "got" # "batch" /\ "got" # "next" /\ "got" # "from"
          OBVIOUS
      <4> QED
          BY <2>2, <3>4, <4>1 DEF RequestOK, NoReq, Modes
    <3> HIDE DEF q, g, b
    <3> QED
        BY <1>0, <1>1, <2>1, <3>1, <3>5, <3>6, DropInv
  <2>4. CASE ~ \A n \in 1 .. Len(b) : Existing(b[n])
    <3>1. /\ req' = [req EXCEPT ![c] = NoReq]
          /\ pc' = [pc EXCEPT ![c] = "idle"]
        BY <1>2, <2>4 DEF StaleHead
    <3> QED
        BY <1>0, <1>1, <2>1, <3>1, DropInv
  <2> QED
      BY <2>3, <2>4
<1>3. CASE StoreBusy(c)
  <2>1. /\ pc[c] = "called"
        /\ UNCHANGED <<log, cursor, tables, fenced, file, acks, upkeep, tx>>
        /\ req' = [req EXCEPT ![c] = NoReq]
        /\ pc' = [pc EXCEPT ![c] = "idle"]
      BY <1>3 DEF StoreBusy
  <2> QED
      BY <1>0, <1>1, <2>1, DropInv
<1>4. CASE Return(c)
  <2>1. /\ pc[c] = "committed"
        /\ UNCHANGED <<log, cursor, tables, fenced, file, upkeep, tx>>
        /\ acks' = acks \cup req[c].got
        /\ req' = [req EXCEPT ![c] = NoReq]
        /\ pc' = [pc EXCEPT ![c] = "idle"]
      BY <1>4 DEF Return
  <2>2. Truthful(log, req[c].got)
      BY <2>1 DEF IInv, CallInv, RequestOK
  <2>3. Truthful(log, acks')
      BY <1>0, <2>1, <2>2 DEF Truthful
  <2> QED
      BY <1>0, <1>1, <2>1, <2>3, DropInv
<1>5. CASE Crash(c)
  <2>1. PICK again \in {NoReq} \cup {[r EXCEPT !.got = {}] : r \in {req[c]} \ {NoReq}} :
            req' = [req EXCEPT ![c] = again]
      BY <1>5 DEF Crash
  <2>2. /\ UNCHANGED <<log, cursor, tables, fenced, file, acks>>
        /\ pc' = [pc EXCEPT ![c] = "closed"]
        /\ tx' = IF tx.by = c THEN NoTx ELSE tx
      BY <1>5 DEF Crash
  <2>3. upkeep' \in 0 .. MaxUpkeep
      BY <1>0, <1>5, MaxUpkeepAssumption DEF Crash
  <2>4. tx' = IF tx # NoTx /\ tx.by = c THEN NoTx ELSE tx
      BY <2>2, OpenTx
  <2>5. again = NoReq \/ RequestOK(again)
    <3>1. ASSUME req[c] # NoReq PROVE RequestOK([req[c] EXCEPT !.got = {}])
      <4>1. RequestOK(req[c])
          BY <3>1 DEF IInv, CallInv
      <4>2. "got" # "mode" /\ "got" # "batch" /\ "got" # "next" /\ "got" # "from"
          OBVIOUS
      <4> QED
          BY <4>1, <4>2 DEF RequestOK, Truthful
    <3> QED
        BY <2>1, <3>1
  <2> QED
      BY <1>0, <2>1, <2>2, <2>3, <2>4, <2>5, DropInv
<1> QED
    BY <1>2, <1>3, <1>4, <1>5

\* The writer goes on: only its transaction changes.
LEMMA WriterInv ==
    ASSUME IInv, NEW c \in Clients,
           UNCHANGED <<log, cursor, tables, req, acks, fenced, file, upkeep>>,
           pc' = [pc EXCEPT ![c] = "writing"], req[c] # NoReq,
           tx = NoTx \/ tx.by = c,
           tx' # NoTx, tx'.by = c, IsTx(tx'),
           tx'.rest \in Seq(ControlEvents), tx'.log \in Seq(ControlEvents),
           Extends(tx'.log, log), EL!Distinct(tx'.log), tx'.mem.head = Len(tx'.log),
           \A n \in 1 .. Len(req[c].batch) :
              Logged(tx'.log, req[c].batch[n]) \/ Logged(tx'.rest, req[c].batch[n]),
           req[c].mode = "head" => req[c].head = Len(log)
    PROVE  IInv'
<1>1. LogInv' /\ RestInv'
    BY DEF IInv, LogInv, RestInv
<1>2. CallInv'
    BY DEF IInv, CallInv, RequestOK, PcValues
<1>3. pc'[c] = "writing"
    BY DEF IInv, CallInv
<1>4. WriteInv(tx)'
    BY <1>3 DEF WriteInv, IsTx
<1>5. \A d \in Clients : pc'[d] = "writing" => d = c
    BY DEF IInv, CallInv, TxInv
<1>6. TxInv'
    BY <1>4, <1>5 DEF TxInv
<1> QED
    BY <1>1, <1>2, <1>6 DEF IInv

LEMMA BeginInv ==
    ASSUME IInv, NEW c \in Clients, BeginTx(c)
    PROVE  IInv'
<1>1. /\ UNCHANGED <<log, cursor, tables, req, acks, fenced, file, upkeep>>
      /\ pc' = [pc EXCEPT ![c] = "writing"]
      /\ pc[c] = "called" /\ tx = NoTx
      /\ HeadFence(req[c])
      /\ tx' = [by |-> c, rest |-> req[c].batch, log |-> log, mem |-> tables, tab |-> tables]
    BY DEF BeginTx, store
<1>2. req[c] # NoReq /\ req[c].batch \in Seq(ControlEvents)
    BY <1>1 DEF IInv, CallInv, RequestOK
<1>3. /\ tx'.by = c /\ tx'.rest = req[c].batch /\ tx'.log = log /\ tx'.mem = tables
    BY <1>1
<1>4. IsTx(tx')
    BY <1>1 DEF IsTx
<1>5. tx' # NoTx
    BY <1>3, ClientsAssumption DEF NoTx
<1>6. /\ log \in Seq(ControlEvents) /\ EL!Distinct(log) /\ tables.head = Len(log)
    BY DEF IInv, LogInv
<1>7. Extends(log, log)
    BY <1>6 DEF Extends
<1>8. \A n \in 1 .. Len(req[c].batch) : Logged(tx'.rest, req[c].batch[n])
    BY <1>3 DEF Logged
<1>9. req[c].mode = "head" => req[c].head = Len(log)
    BY <1>1, <1>6 DEF HeadFence
<1> QED
    BY <1>1, <1>2, <1>3, <1>4, <1>5, <1>6, <1>7, <1>8, <1>9, WriterInv

LEMMA TakeInv ==
    ASSUME IInv, NEW c \in Clients, MeetEvent(c) \/ InsertEvent(c)
    PROVE  IInv'
<1> DEFINE e == Head(tx.rest)
           b == req[c].batch
<1>0. tx.by = c /\ tx.rest # << >>
    BY DEF MeetEvent, InsertEvent
<1>1. tx # NoTx /\ WriteInv(tx)
    BY <1>0, OpenTx
<1>2. /\ tx.rest \in Seq(ControlEvents) /\ tx.log \in Seq(ControlEvents)
      /\ Extends(tx.log, log) /\ EL!Distinct(tx.log) /\ tx.mem.head = Len(tx.log)
      /\ pc[c] = "writing"
      /\ \A n \in 1 .. Len(b) : Logged(tx.log, b[n]) \/ Logged(tx.rest, b[n])
      /\ b \in Seq(ControlEvents) /\ req[c] # NoReq
      /\ req[c].mode = "head" => req[c].head = Len(log)
    BY <1>0, <1>1 DEF WriteInv, IInv, CallInv, RequestOK
<1>3. /\ e \in ControlEvents /\ Tail(tx.rest) \in Seq(ControlEvents)
      /\ \A x : Logged(tx.rest, x) => x = e \/ Logged(Tail(tx.rest), x)
  <2>1. /\ e \in ControlEvents /\ Tail(tx.rest) \in Seq(ControlEvents)
        /\ Len(Tail(tx.rest)) = Len(tx.rest) - 1
        /\ \A k \in 1 .. Len(tx.rest) - 1 : Tail(tx.rest)[k] = tx.rest[k + 1]
        /\ tx.rest[1] = e
      BY <1>0, <1>2
  <2>2. ASSUME NEW x, NEW k \in 1 .. Len(tx.rest), tx.rest[k] = x, x # e
        PROVE  Logged(Tail(tx.rest), x)
    <3>1. k - 1 \in 1 .. Len(tx.rest) - 1
        BY <1>2, <2>1, <2>2
    <3>2. Tail(tx.rest)[k - 1] = x
        BY <1>2, <2>1, <2>2, <3>1
    <3> QED
        BY <2>1, <3>1, <3>2 DEF Logged
  <2> QED
      BY <2>1, <2>2 DEF Logged
<1>4. pc' = pc => pc' = [pc EXCEPT ![c] = "writing"]
    BY <1>2 DEF IInv, CallInv
<1>5. CASE MeetEvent(c) /\ SameEvent(tx.log, SeqOf(tx.log, e.id), e)
  <2>1. /\ tx' = [tx EXCEPT !.rest = Tail(@)]
        /\ UNCHANGED <<log, cursor, tables, req, acks, fenced, file, upkeep, pc>>
        /\ SeqOf(tx.log, e.id) # 0
      BY <1>5 DEF MeetEvent, store
  <2>2. Logged(tx.log, e)
      BY <1>2, <1>5, <2>1, SeqOfFound DEF SameEvent, Logged
  <2>3. tx' = [by |-> c, rest |-> Tail(tx.rest), log |-> tx.log, mem |-> tx.mem, tab |-> tx.tab]
      BY <1>0, <1>1, <2>1 DEF WriteInv, IsTx
  <2>4. /\ tx'.by = c /\ tx'.rest = Tail(tx.rest) /\ tx'.log = tx.log /\ tx'.mem = tx.mem
        /\ IsTx(tx') /\ tx' # NoTx
      BY <2>3, ClientsAssumption DEF IsTx, NoTx
  <2>5. \A n \in 1 .. Len(b) : Logged(tx'.log, b[n]) \/ Logged(tx'.rest, b[n])
      BY <1>2, <1>3, <2>2, <2>4
  <2> HIDE DEF e
  <2> QED
      BY <1>0, <1>2, <1>3, <1>4, <2>1, <2>4, <2>5, WriterInv
<1>6. CASE /\ InsertEvent(c) /\ SourceFree(tx.log, e) /\ validateFences(tx.mem, e)
           /\ Reducible(tx.mem, e, Len(tx.log) + 1)
  <2> DEFINE p == applyControlEvent(tx.mem, e)
             l == Append(tx.log, e)
             t == persistProjectionDelta(tx.tab, p, e)
  <2>1. /\ tx' = [tx EXCEPT !.rest = Tail(@), !.log = Append(@, e), !.mem = p,
                           !.tab = persistProjectionDelta(@, p, e)]
        /\ UNCHANGED <<log, cursor, tables, req, acks, fenced, file, upkeep, pc>>
        /\ SeqOf(tx.log, e.id) = 0
      BY <1>6 DEF InsertEvent, store
  <2>2. tx' = [by |-> c, rest |-> Tail(tx.rest), log |-> l, mem |-> p, tab |-> t]
    <3> HIDE DEF p, e
    <3> QED
      BY <1>0, <1>1, <2>1 DEF WriteInv, IsTx
  <2>3. p.head = Len(tx.log) + 1
      BY <1>2 DEF applyControlEvent
  <2>4. /\ l \in Seq(ControlEvents) /\ Len(l) = Len(tx.log) + 1 /\ EL!Distinct(l)
      BY <1>2, <1>3, <1>6, <2>1, AppendDistinct
  <2>5. \A n \in 1 .. Len(tx.log) : l[n] = tx.log[n]
      BY <1>2, <1>3
  <2>6. l[Len(l)] = e
      BY <1>2, <1>3, <2>4
  <2> HIDE DEF p, l, t, e
  <2>7. Extends(l, log)
    <3>1. Len(log) \in Nat /\ Len(tx.log) \in Nat
        BY <1>2 DEF IInv, LogInv
    <3>2. Len(log) <= Len(tx.log) /\ \A n \in 1 .. Len(log) : tx.log[n] = log[n]
        BY <1>2 DEF Extends
    <3>3. \A n \in 1 .. Len(log) : n \in 1 .. Len(tx.log)
        BY <3>1, <3>2
    <3>4. \A n \in 1 .. Len(log) : l[n] = log[n]
        BY <2>5, <3>2, <3>3
    <3> QED
        BY <2>4, <3>1, <3>2, <3>4 DEF Extends
  <2>8. Logged(l, e) /\ \A x : Logged(tx.log, x) => Logged(l, x)
      BY SMTT(40), <1>2, <2>4, <2>5, <2>6 DEF Logged
  <2>9. /\ tx'.by = c /\ tx'.rest = Tail(tx.rest) /\ tx'.log = l /\ tx'.mem = p
        /\ IsTx(tx') /\ tx' # NoTx
      BY <2>2, ClientsAssumption DEF IsTx, NoTx
  <2>10. \A n \in 1 .. Len(b) : Logged(tx'.log, b[n]) \/ Logged(tx'.rest, b[n])
      BY <1>2, <1>3, <2>8, <2>9
  <2> QED
      BY <1>0, <1>2, <1>3, <1>4, <2>1, <2>3, <2>4, <2>7, <2>9, <2>10, WriterInv
<1>7. CASE Rollback(c)
    BY <1>0, <1>7, RollbackInv
<1> QED
    BY <1>5, <1>6, <1>7 DEF MeetEvent, InsertEvent

LEMMA CommitInv ==
    ASSUME IInv, NEW c \in Clients, Commit(c)
    PROVE  IInv'
<1> DEFINE r == req[c]
           g == Receipts(tx.log, r.batch)
<1>0. tx.by = c /\ tx.rest = << >>
    BY DEF Commit
<1>1. tx # NoTx /\ WriteInv(tx)
    BY <1>0, OpenTx
<1>2. CASE Rollback(c)
    BY <1>0, <1>2, RollbackInv
<1>3. CASE CursorFence(r)
  <2>1. /\ log' = tx.log /\ tables' = Patched(tx)
        /\ cursor' = IF r.mode = "cursor" THEN r.next ELSE cursor
        /\ req' = [req EXCEPT ![c].got = g]
        /\ fenced' = IF r.mode = "head" /\ tx.log # log
                     THEN fenced \cup {[read |-> r.head, wrote |-> Len(log)]} ELSE fenced
        /\ tx' = NoTx
        /\ pc' = [pc EXCEPT ![c] = "committed"]
        /\ UNCHANGED <<file, acks, upkeep>>
      BY <1>3 DEF Commit
  <2>2. /\ tx.log \in Seq(ControlEvents) /\ Extends(tx.log, log) /\ EL!Distinct(tx.log)
        /\ tx.mem.head = Len(tx.log)
        /\ \A n \in 1 .. Len(r.batch) : Logged(tx.log, r.batch[n])
        /\ r.mode = "head" => r.head = Len(log)
        /\ pc[c] = "writing"
      BY <1>0, <1>1 DEF WriteInv, Logged
  <2>3. RequestOK(r)
      BY <2>2 DEF IInv, CallInv
  <2>4. log \in Seq(ControlEvents) /\ Len(log) <= Len(tx.log) /\ cursor \in Nat
          /\ cursor <= Len(log) /\ tables.head = Len(log)
      BY <2>2 DEF IInv, LogInv, Extends
  <2>5. LogInv'
    <3>1. tables'.head = Len(log')
        BY <2>1, <2>2 DEF Patched
    <3>2. cursor' \in Nat /\ cursor' <= Len(log')
        BY <1>3, <2>1, <2>2, <2>3, <2>4 DEF CursorFence, RequestOK
    <3>3. log' \in Seq(ControlEvents) /\ EL!Distinct(log)'
        BY <2>1, <2>2 DEF EL!Distinct
    <3> QED
        BY <3>1, <3>2, <3>3 DEF LogInv
  <2>6. RestInv'
    <3>1. Truthful(log', acks')
        BY <2>1, <2>2, <2>4, TruthfulGrows DEF IInv, RestInv
    <3>2. \A f \in fenced' : f.read = f.wrote
        BY <2>1, <2>2 DEF IInv, RestInv
    <3> QED
        BY <2>1, <3>1, <3>2 DEF IInv, RestInv, Truthful
  <2>7. CallInv'
    <3> DEFINE q == [r EXCEPT !.got = g]
    <3>1. Truthful(tx.log, g)
        BY <2>2, <2>3, ReceiptsTruthful DEF RequestOK
    <3>2. Truthful(tx.log, r.got)
        BY <2>2, <2>3, <2>4, TruthfulGrows DEF RequestOK
    <3>3. /\ q.mode = r.mode /\ q.batch = r.batch /\ q.next = r.next /\ q.from = r.from
          /\ q.got = g \/ q.got = r.got
      <4> HIDE DEF g, r
      <4> QED
          OBVIOUS
    <3>4. req' = [req EXCEPT ![c] = q]
        BY <2>1
    <3> HIDE DEF q, g
    <3>5. \A d \in Clients : /\ req'[d] = IF d = c THEN q ELSE req[d]
                             /\ pc'[d] = IF d = c THEN "committed" ELSE pc[d]
        BY <2>1, <3>4 DEF IInv, CallInv
    <3>6. q # NoReq
        BY <2>3, <3>3 DEF RequestOK, NoReq, Modes
    <3>7. \A d \in Clients : RequestOK(req[d]) /\ d # c => RequestOK(req[d])'
      <4> SUFFICES ASSUME NEW d \in Clients, RequestOK(req[d]), d # c PROVE RequestOK(req[d])'
          OBVIOUS
      <4>1. Truthful(tx.log, req[d].got)
          BY <2>2, <2>4, TruthfulGrows DEF RequestOK
      <4> QED
          BY <2>1, <3>5, <4>1 DEF RequestOK, Truthful
    <3>8. RequestOK(req[c])'
        BY <2>1, <2>3, <3>1, <3>2, <3>3, <3>5 DEF RequestOK, Truthful
    <3>9. pc' \in [Clients -> PcValues] /\ DOMAIN req' = Clients
        BY <2>1, <3>4 DEF IInv, CallInv, PcValues
    <3> QED
        BY <3>5, <3>6, <3>7, <3>8, <3>9 DEF IInv, CallInv
  <2>8. TxInv'
    <3>1. \A d \in Clients : pc'[d] # "writing"
        BY <1>0, <2>1 DEF IInv, CallInv, TxInv
    <3> QED
        BY <2>1, <3>1 DEF TxInv
  <2> QED
      BY <2>5, <2>6, <2>7, <2>8 DEF IInv
<1> QED
    BY <1>2, <1>3 DEF Commit

LEMMA StepInv == IInv /\ [Next]_vars => IInv'
<1> SUFFICES ASSUME IInv, [Next]_vars PROVE IInv'
    OBVIOUS
<1>1. CASE UNCHANGED vars
    BY SMTT(40), <1>1 DEF vars, IInv, LogInv, CallInv, TxInv, RestInv, WriteInv, IsTx, RequestOK, Truthful,
                Extends, EL!Distinct
<1>2. CASE Next
  <2>1. PICK c \in Clients :
            \/ CreateFile(c) \/ StampFile(c) \/ Bootstrap(c) \/ OpenExisting(c)
            \/ CallAppend(c) \/ CallConsume(c) \/ CallSkip(c)
            \/ BeginTx(c) \/ StaleHead(c) \/ StoreBusy(c)
            \/ MeetEvent(c) \/ InsertEvent(c) \/ Commit(c) \/ SqliteFails(c)
            \/ Return(c)
            \/ createSnapshot(c)
            \/ RebuildRead(c) \/ RebuildReplay(c) \/ RebuildWrite(c)
            \/ Crash(c) \/ Close(c)
      BY <1>2 DEF Next
  <2>2. CASE SqliteFails(c)
      BY <2>2, RollbackInv DEF SqliteFails
  <2> QED
      BY <2>1, <2>2, OpeningInv, CallsInv, BeginInv, EndsInv, TakeInv, CommitInv, UpkeepInv
<1> QED
    BY <1>1, <1>2

LEMMA Invariant == Spec => []IInv
BY InitInv, StepInv, PTL DEF Spec

-----------------------------------------------------------------------------
(* The results.                                                             *)

\* The store is well typed: the cursor stays within the log, head_seq is the length of the log,
\* and the open transaction belongs to the process that writes.
THEOREM StoreTypeCorrect == Spec => []TypeOK
<1>1. IInv => TypeOK
    BY DEF IInv, LogInv, CallInv, TxInv, RestInv, RequestOK, WriteInv, TypeOK, TxOK
<1> QED
    BY <1>1, Invariant, PTL

\* commitParsed and validateExistingEvent: no receipt a caller has ever got is wrong.
THEOREM ReceiptsAlwaysHold == Spec => []ReceiptsHold
<1>1. IInv => ReceiptsHold
    BY DEF IInv, RestInv, Truthful, ReceiptsHold
<1> QED
    BY <1>1, Invariant, PTL

\* appendBatchIf: no caller ever adds to a log whose head it has not read.
THEOREM HeadAlwaysFenced == Spec => []HeadFenced
<1>1. IInv => HeadFenced
    BY DEF IInv, RestInv, HeadFenced
<1> QED
    BY <1>1, Invariant, PTL

\* Every step of the store is a step of the event log or leaves log and cursor alone: the log
\* only grows, by distinct events, and the cursor only advances over what was already logged.
THEOREM StoreImplementsEventLog == Spec => ImplementsEventLog
<1>1. Init => EL!Init
    BY InitInv DEF IInv, LogInv, EL!Init, Init
<1>2. IInv /\ [Next]_vars => [EL!Next]_<<log, cursor>>
  <2> SUFFICES ASSUME IInv, [Next]_vars, ~UNCHANGED <<log, cursor>> PROVE EL!Next
      OBVIOUS
  <2>1. PICK c \in Clients : Commit(c)
    <3>1. Next
        BY DEF vars
    <3> QED
        BY ZenonT(40), <3>1 DEF Next, CreateFile, StampFile, Bootstrap, OpenExisting, CallAppend, CallConsume,
                    CallSkip, Call, BeginTx, StaleHead, StoreBusy, MeetEvent, InsertEvent,
                    SqliteFails, Rollback, Return, createSnapshot, RebuildRead, RebuildReplay,
                    RebuildWrite, Crash, Close, store
  <2>2. tx.by = c /\ ~Rollback(c)
      BY <2>1 DEF Commit, Rollback, store
  <2>3. WriteInv(tx)
      BY <2>2, OpenTx
  <2>4. /\ log' = tx.log /\ CursorFence(req[c])
        /\ cursor' = IF req[c].mode = "cursor" THEN req[c].next ELSE cursor
      BY <2>1, <2>2 DEF Commit
  <2>5. /\ Extends(tx.log, log) /\ EL!Distinct(tx.log) /\ RequestOK(req[c])
        /\ tables.head = Len(log) /\ cursor \in Nat /\ cursor <= Len(log)
        /\ log \in Seq(ControlEvents)
      BY <2>2, <2>3 DEF WriteInv, IInv, CallInv, LogInv
  <2>6. EL!Grow
      BY <2>4, <2>5 DEF Extends, EL!Grow, EL!Distinct
  <2>7. EL!Advance
      BY <2>4, <2>5 DEF EL!Advance, CursorFence, RequestOK
  <2> QED
      BY <2>6, <2>7 DEF EL!Next
<1> QED
    BY <1>1, <1>2, Invariant, PTL DEF Spec, ImplementsEventLog, EL!Spec

-----------------------------------------------------------------------------
(* The tables and the snapshots are what the reducer makes of the log.  The *)
(* invariant follows the open transaction, whose state in memory is the     *)
(* reduction of its own log and whose patched rows agree with it, and the   *)
(* logs that rebuilds have read.                                            *)

Folded(l, p) == Replay(emptyControlProjection, l) = Start(p)

TxFold(t) ==
    /\ Folded(t.log, t.mem)
    /\ Shape(t.mem)
    /\ t.tab = WithHead(t.mem, t.tab.head)

SnapFold(l, s) == s.head \in 0 .. Len(l) /\ s = Replayed(SubSeq(l, 1, s.head))

IsScratch(x) == x = [log |-> x.log, proj |-> x.proj]

RebuildInv ==
    /\ scratch = [c \in Clients |-> scratch[c]]
    /\ \A c \in Clients : IsScratch(scratch[c])
    /\ \A c \in Clients : pc[c] \in {"rebuild", "replace"} =>
          scratch[c].log \in Seq(ControlEvents) /\ Extends(log, scratch[c].log)
    /\ \A c \in Clients : pc[c] = "replace" => scratch[c].proj = Replayed(scratch[c].log)

FoldInv ==
    /\ Folded(log, tables)
    /\ Shape(tables)
    /\ \A s \in snaps : SnapFold(log, s)
    /\ tx # NoTx => TxFold(tx)
    /\ RebuildInv

LEMMA FoldedReplayed ==
    ASSUME NEW l, NEW p, Folded(l, p)
    PROVE  Replayed(l) = p
BY DEF Folded, Replayed, reduceControlEvents, Start

\* persistProjectionDelta: the rows it rewrites are the ones the reducer has changed.
LEMMA DeltaIsReduction ==
    ASSUME NEW m, Shape(m), NEW t, t = WithHead(m, t.head), NEW e
    PROVE  persistProjectionDelta(t, applyControlEvent(m, e), e)
              = WithHead(applyControlEvent(m, e), t.head)
<1> DEFINE p == applyControlEvent(m, e)
           d == persistProjectionDelta(t, p, e)
           h == t.head
<1>0. t = [head |-> h, run |-> m.run, tasks |-> m.tasks, messages |-> m.messages,
           runtimes |-> m.runtimes, attempts |-> m.attempts, steering |-> m.steering,
           versions |-> m.versions]
    BY DEF WithHead
<1>1. /\ t.run = m.run /\ t.tasks = m.tasks /\ t.messages = m.messages
      /\ t.runtimes = m.runtimes /\ t.attempts = m.attempts /\ t.steering = m.steering
      /\ t.versions = m.versions
  <2> HIDE DEF h
  <2> QED
      BY <1>0
<1> DEFINE Run1 == IF e.type \in RunTypes THEN p.run ELSE t.run
           Tasks1 == [x \in Tasks |-> IF e.type \in TaskTypes /\ x = e.task
                                      THEN p.tasks[x] ELSE t.tasks[x]]
           Messages1 == t.messages \cup (IF e.type = "message.posted" THEN {e.key} ELSE {})
           Runtimes1 == [s \in Sessions |-> IF e.type = "runtime.observed" /\ s = e.sess
                                            THEN p.runtimes[s] ELSE t.runtimes[s]]
           Attempts1 == [a \in Attempts |-> IF e.type \in AttemptTypes /\ a = e.key
                                            THEN p.attempts[a] ELSE t.attempts[a]]
           Steering1 == [k \in Commands |-> IF e.type \in SteeringTypes /\ k = e.key
                                            THEN p.steering[k] ELSE t.steering[k]]
           Versions1 == [k \in Keys |-> IF k \in DeltaKeys(e) THEN p.versions[k]
                                        ELSE t.versions[k]]
<1>2. d = [t EXCEPT !.run = Run1, !.tasks = Tasks1, !.messages = Messages1,
                    !.runtimes = Runtimes1, !.attempts = Attempts1, !.steering = Steering1,
                    !.versions = Versions1]
    BY DEF persistProjectionDelta
<1>3. d = [head |-> h, run |-> Run1, tasks |-> Tasks1, messages |-> Messages1,
           runtimes |-> Runtimes1, attempts |-> Attempts1, steering |-> Steering1,
           versions |-> Versions1]
  <2> HIDE DEF d, h, Run1, Tasks1, Messages1, Runtimes1, Attempts1, Steering1, Versions1
  <2> QED
      BY <1>0, <1>2
<1>4. Run1 = p.run
    BY <1>1 DEF applyControlEvent
<1>5. Tasks1 = p.tasks
  <2>1. p.tasks = IF e.type \in TaskTypes
                  THEN [m.tasks EXCEPT ![e.task] = ReduceTask(@, e)] ELSE m.tasks
      BY DEF applyControlEvent
  <2>2. m.tasks = [x \in Tasks |-> m.tasks[x]]
      BY DEF Shape
  <2> HIDE DEF p
  <2> QED
      BY <1>1, <2>1, <2>2
<1>6. Messages1 = p.messages
    BY <1>1 DEF applyControlEvent
<1>7. Runtimes1 = p.runtimes
  <2>1. p.runtimes = IF e.type = "runtime.observed"
                     THEN [m.runtimes EXCEPT ![e.sess] =
                             [gen |-> e.sgen, obs |-> e.st, task |-> e.task, tgen |-> e.tgen]]
                     ELSE m.runtimes
      BY DEF applyControlEvent
  <2>2. m.runtimes = [x \in Sessions |-> m.runtimes[x]]
      BY DEF Shape
  <2> HIDE DEF p
  <2> QED
      BY <1>1, <2>1, <2>2
<1>8. Attempts1 = p.attempts
  <2>1. p.attempts = IF e.type \in AttemptTypes
                     THEN [m.attempts EXCEPT ![e.key] = ReduceAttempt(@, e)] ELSE m.attempts
      BY DEF applyControlEvent
  <2>2. m.attempts = [x \in Attempts |-> m.attempts[x]]
      BY DEF Shape
  <2> HIDE DEF p
  <2> QED
      BY <1>1, <2>1, <2>2
<1>9. Steering1 = p.steering
  <2>1. p.steering = IF e.type \in SteeringTypes
                     THEN [m.steering EXCEPT ![e.key] = ReduceCommand(@, e)] ELSE m.steering
      BY DEF applyControlEvent
  <2>2. m.steering = [x \in Commands |-> m.steering[x]]
      BY DEF Shape
  <2> HIDE DEF p
  <2> QED
      BY <1>1, <2>1, <2>2
<1>10. Versions1 = p.versions
  <2>1. p.versions = ReduceVersions(m.versions, e)
      BY DEF applyControlEvent
  <2> HIDE DEF p
  <2>2. ASSUME NEW k \in Keys, k \notin DeltaKeys(e)
        PROVE  p.versions[k] = m.versions[k]
    <3>1. k # aggregateForEvent(e) /\ ~(e.type = "task.reopened" /\ k = TaskKey(e.task, e.num))
        BY <2>2 DEF DeltaKeys
    <3> QED
        BY <2>1, <3>1 DEF ReduceVersions
  <2>3. p.versions = [k \in Keys |-> p.versions[k]]
      BY <2>1 DEF ReduceVersions
  <2> QED
      BY <1>1, <2>2, <2>3
<1> HIDE DEF d, h, p, Run1, Tasks1, Messages1, Runtimes1, Attempts1, Steering1, Versions1
<1>11. d = WithHead(p, h)
    BY <1>3, <1>4, <1>5, <1>6, <1>7, <1>8, <1>9, <1>10 DEF WithHead
<1> QED
    BY <1>11 DEF d, h, p

\* An accepted event takes log and state to the next pair.
LEMMA FoldedAppend ==
    ASSUME NEW l \in Seq(ControlEvents), NEW p, Folded(l, p), NEW e \in ControlEvents,
           Reducible(p, e, Len(l) + 1)
    PROVE  Folded(Append(l, e), applyControlEvent(p, e))
<1>1. Replay(emptyControlProjection, Append(l, e))
        = After(Start(p), e, emptyControlProjection.head + (Len(l) + 1))
    BY ReplayAppend DEF Folded
<1>2. emptyControlProjection.head + (Len(l) + 1) = Len(l) + 1
  <2>1. emptyControlProjection.head = 0 /\ Len(l) \in Nat
      BY DEF emptyControlProjection
  <2> QED
      BY <2>1
<1>3. Start(p).state = p /\ Start(p).ok = TRUE
    BY DEF Start
<1>4. (Start(p).ok /\ Reducible(p, e, Len(l) + 1)) = TRUE
    BY <1>3
<1>5. After(Start(p), e, Len(l) + 1) = [state |-> applyControlEvent(p, e), ok |-> TRUE]
    BY <1>3, <1>4 DEF After
<1> QED
    BY <1>1, <1>2, <1>5 DEF Folded, Start

\* A log cut where a shorter one ends is the shorter one.
LEMMA CutExtension ==
    ASSUME NEW l \in Seq(ControlEvents), NEW m \in Seq(ControlEvents), Extends(l, m),
           NEW h \in 0 .. Len(m)
    PROVE  h \in 0 .. Len(l) /\ SubSeq(l, 1, h) = SubSeq(m, 1, h)
<1>1. h \in 0 .. Len(l)
    BY DEF Extends
<1>2. \A i \in 1 .. h : l[i] = m[i]
    BY DEF Extends
<1>3. /\ SubSeq(l, 1, h) = [i \in 1 .. h |-> l[i]]
      /\ SubSeq(m, 1, h) = [i \in 1 .. h |-> m[i]]
    BY <1>1
<1> QED
    BY <1>1, <1>2, <1>3

LEMMA ExtendsSelf ==
    ASSUME NEW l \in Seq(ControlEvents)
    PROVE  Extends(l, l)
BY DEF Extends

LEMMA FoldInit == Init => FoldInv
<1> SUFFICES ASSUME Init PROVE FoldInv
    OBVIOUS
<1>1. log \in Seq(ControlEvents) /\ Replays(log) /\ tables = Replayed(log)
    BY SeedsAssumption DEF Init
<1>2. Shape(tables)
    BY <1>1, ReplayShape
<1>3. Folded(log, tables)
  <2> DEFINE R == Replay(emptyControlProjection, log)
  <2>1. PICK f : Run(emptyControlProjection, log, Len(log), f)
    <3>1. Len(log) \in Nat
        BY <1>1
    <3> QED
        BY <3>1, RunExists
  <2>2. R = f[Len(log)]
      BY <1>1, <2>1, ReplayIs
  <2>3. R.ok /\ R.state = tables
      BY <1>1 DEF Replays, Replayed, reduceControlEvents
  <2>4. R = [state |-> R.state, ok |-> R.ok] /\ R.ok \in BOOLEAN
    <3>1. CASE Len(log) = 0
      <4>1. R = Start(emptyControlProjection)
          BY <2>1, <2>2, <3>1 DEF Run
      <4> HIDE DEF R
      <4> QED
          BY <4>1 DEF Start
    <3>2. CASE Len(log) # 0
      <4>1. Len(log) \in 1 .. Len(log)
          BY <1>1, <3>2
      <4>2. R = After(f[Len(log) - 1], log[Len(log)], emptyControlProjection.head + Len(log))
          BY <2>1, <2>2, <4>1 DEF Run
      <4> HIDE DEF R
      <4> QED
          BY <4>2 DEF After
    <3> QED
        BY <3>1, <3>2
  <2>5. R.ok = TRUE
      BY <2>3, <2>4
  <2> HIDE DEF R
  <2>6. R = [state |-> tables, ok |-> TRUE]
      BY <2>3, <2>4, <2>5
  <2> QED
      BY <2>6 DEF R, Folded, Start
<1>4. RebuildInv
  <2>1. scratch = [c \in Clients |-> NoScratch] /\ pc = [c \in Clients |-> "closed"]
      BY DEF Init
  <2>2. IsScratch(NoScratch)
      BY DEF IsScratch, NoScratch
  <2> QED
      BY <2>1, <2>2 DEF RebuildInv
<1> QED
    BY <1>2, <1>3, <1>4 DEF Init, FoldInv

\* A step that leaves log, tables and snapshots alone and starts no rebuild.
LEMMA FoldQuiet ==
    ASSUME IInv, FoldInv, UNCHANGED <<log, tables, snaps>>,
           tx' # NoTx => TxFold(tx'),
           \A d \in Clients : pc'[d] \in {"rebuild", "replace"} =>
                                 pc'[d] = pc[d] /\ scratch'[d] = scratch[d],
           scratch' = [d \in Clients |-> scratch'[d]],
           \A d \in Clients : IsScratch(scratch'[d])
    PROVE  FoldInv'
<1>1. RebuildInv'
    BY DEF FoldInv, RebuildInv
<1>2. (\A s \in snaps : SnapFold(log, s))'
    BY DEF FoldInv
<1> QED
    BY <1>1, <1>2 DEF FoldInv

\* The same for a step of one process that does not touch the rebuilds.
LEMMA FoldCalm ==
    ASSUME IInv, FoldInv, UNCHANGED <<log, tables, snaps, scratch>>,
           tx' # NoTx => TxFold(tx'),
           NEW c \in Clients, NEW where \in PcValues \ {"rebuild", "replace"},
           pc' = [pc EXCEPT ![c] = where]
    PROVE  FoldInv'
<1>1. \A d \in Clients : pc'[d] \in {"rebuild", "replace"} =>
                            pc'[d] = pc[d] /\ scratch'[d] = scratch[d]
    BY DEF IInv, CallInv
<1>2. scratch' = [d \in Clients |-> scratch'[d]] /\ \A d \in Clients : IsScratch(scratch'[d])
    BY DEF FoldInv, RebuildInv
<1> QED
    BY <1>1, <1>2, FoldQuiet

LEMMA FoldRollback ==
    ASSUME IInv, FoldInv, NEW c \in Clients, Rollback(c)
    PROVE  FoldInv'
BY FoldCalm DEF Rollback, store, PcValues

LEMMA FoldOpening ==
    ASSUME IInv, FoldInv, NEW c \in Clients,
           CreateFile(c) \/ StampFile(c) \/ Bootstrap(c) \/ OpenExisting(c) \/ Close(c)
    PROVE  FoldInv'
<1> USE DEF store
<1>0. tx # NoTx => TxFold(tx)
    BY DEF FoldInv
<1>1. CASE CreateFile(c)
    BY <1>0, <1>1, FoldCalm DEF CreateFile, PcValues
<1>2. CASE StampFile(c)
    BY <1>0, <1>2, FoldCalm DEF StampFile, PcValues
<1>3. CASE Bootstrap(c)
    BY <1>0, <1>3, FoldCalm DEF Bootstrap, PcValues, Opened
<1>4. CASE OpenExisting(c)
    BY <1>0, <1>4, FoldCalm DEF OpenExisting, PcValues, Opened
<1>5. CASE Close(c)
    BY <1>0, <1>5, FoldCalm DEF Close, PcValues
<1> QED
    BY <1>1, <1>2, <1>3, <1>4, <1>5

LEMMA FoldCalls ==
    ASSUME IInv, FoldInv, NEW c \in Clients,
           CallAppend(c) \/ CallConsume(c) \/ CallSkip(c) \/ StoreBusy(c) \/ Return(c)
             \/ StaleHead(c)
    PROVE  FoldInv'
<1>0. tx # NoTx => TxFold(tx)
    BY DEF FoldInv
<1>1. /\ UNCHANGED <<log, tables, snaps, scratch, tx>>
      /\ \E where \in {"called", "idle", "committed"} : pc' = [pc EXCEPT ![c] = where]
  <2>1. CASE CallAppend(c)
      BY <2>1 DEF CallAppend, Call, store
  <2>2. CASE CallConsume(c)
      BY <2>2 DEF CallConsume, Call, store
  <2>3. CASE CallSkip(c)
      BY <2>3 DEF CallSkip, Call, store
  <2>4. CASE StoreBusy(c)
      BY <2>4 DEF StoreBusy, store
  <2>5. CASE Return(c)
      BY <2>5 DEF Return, store
  <2>6. CASE StaleHead(c)
      BY <2>6 DEF StaleHead, store
  <2> QED
      BY <2>1, <2>2, <2>3, <2>4, <2>5, <2>6
<1>2. PICK where \in {"called", "idle", "committed"} : pc' = [pc EXCEPT ![c] = where]
    BY <1>1
<1>3. where \in PcValues \ {"rebuild", "replace"}
    BY DEF PcValues
<1> QED
    BY <1>0, <1>1, <1>2, <1>3, FoldCalm

LEMMA FoldBegin ==
    ASSUME IInv, FoldInv, NEW c \in Clients, BeginTx(c)
    PROVE  FoldInv'
<1>1. /\ UNCHANGED <<log, tables, snaps, scratch>>
      /\ pc' = [pc EXCEPT ![c] = "writing"]
      /\ tx' = [by |-> c, rest |-> req[c].batch, log |-> log, mem |-> tables, tab |-> tables]
    BY DEF BeginTx, store
<1>2. tx'.log = log /\ tx'.mem = tables /\ tx'.tab = tables
    BY <1>1
<1>3. Folded(log, tables) /\ Shape(tables) /\ tables = WithHead(tables, tables.head)
    BY DEF FoldInv, Shape
<1>4. TxFold(tx')
    BY <1>2, <1>3 DEF TxFold
<1> QED
    BY <1>1, <1>4, FoldCalm DEF PcValues

LEMMA FoldTake ==
    ASSUME IInv, FoldInv, NEW c \in Clients, MeetEvent(c) \/ InsertEvent(c) \/ SqliteFails(c)
    PROVE  FoldInv'
<1> DEFINE e == Head(tx.rest)
<1>0. CASE Rollback(c)
    BY <1>0, FoldRollback
<1>1. CASE ~Rollback(c)
  <2>1. tx.by = c /\ tx.rest # << >>
      BY <1>1 DEF MeetEvent, InsertEvent, SqliteFails
  <2>2. tx # NoTx /\ WriteInv(tx)
      BY <2>1, OpenTx
  <2>3. TxFold(tx)
      BY <2>2 DEF FoldInv
  <2>4. /\ tx.log \in Seq(ControlEvents) /\ tx.rest \in Seq(ControlEvents)
        /\ tx = [by |-> tx.by, rest |-> tx.rest, log |-> tx.log, mem |-> tx.mem, tab |-> tx.tab]
      BY <2>2 DEF WriteInv, IsTx
  <2>5. e \in ControlEvents
      BY <2>1, <2>4
  <2>6. UNCHANGED <<log, tables, snaps, scratch, pc>>
      BY <1>1 DEF MeetEvent, InsertEvent, SqliteFails, store
  <2>7. TxFold(tx')
    <3>1. CASE MeetEvent(c)
      <4>1. tx' = [tx EXCEPT !.rest = Tail(@)]
          BY <1>1, <3>1 DEF MeetEvent
      <4>2. tx'.log = tx.log /\ tx'.mem = tx.mem /\ tx'.tab = tx.tab
          BY <2>4, <4>1
      <4> QED
          BY <2>3, <4>2 DEF TxFold
    <3>2. CASE InsertEvent(c)
      <4> DEFINE p == applyControlEvent(tx.mem, e)
      <4>1. /\ tx' = [tx EXCEPT !.rest = Tail(@), !.log = Append(@, e), !.mem = p,
                                !.tab = persistProjectionDelta(@, p, e)]
            /\ Reducible(tx.mem, e, Len(tx.log) + 1)
          BY <1>1, <3>2 DEF InsertEvent
      <4>2. /\ tx'.log = Append(tx.log, e) /\ tx'.mem = p
            /\ tx'.tab = persistProjectionDelta(tx.tab, p, e)
        <5> HIDE DEF p, e
        <5> QED
            BY <2>4, <4>1
      <4>3. Folded(tx'.log, tx'.mem)
        <5> HIDE DEF e
        <5> QED
            BY <2>3, <2>4, <2>5, <4>1, <4>2, FoldedAppend DEF TxFold
      <4>4. Shape(tx'.mem)
        <5> HIDE DEF e
        <5> QED
            BY <2>3, <4>2, ApplyShape DEF TxFold
      <4>5. tx'.tab = WithHead(tx'.mem, tx.tab.head)
        <5> HIDE DEF e
        <5> QED
            BY <2>3, <4>2, DeltaIsReduction DEF TxFold
      <4>6. tx'.tab.head = tx.tab.head
          BY <4>5 DEF WithHead
      <4> QED
          BY <4>3, <4>4, <4>5, <4>6 DEF TxFold
    <3>3. CASE SqliteFails(c)
        BY <1>1, <3>3 DEF SqliteFails
    <3> QED
        BY <3>1, <3>2, <3>3
  <2>8. /\ scratch' = [d \in Clients |-> scratch'[d]]
        /\ \A d \in Clients : IsScratch(scratch'[d])
      BY <2>6 DEF FoldInv, RebuildInv
  <2> QED
      BY <2>6, <2>7, <2>8, FoldQuiet
<1> QED
    BY <1>0, <1>1

LEMMA FoldCrash ==
    ASSUME IInv, FoldInv, NEW c \in Clients, Crash(c)
    PROVE  FoldInv'
<1>1. /\ UNCHANGED <<log, tables, snaps>>
      /\ pc' = [pc EXCEPT ![c] = "closed"]
      /\ tx' = NoTx \/ tx' = tx
      /\ scratch' = [scratch EXCEPT ![c] = NoScratch]
    BY DEF Crash, store
<1>2. scratch = [d \in Clients |-> scratch[d]] /\ \A d \in Clients : IsScratch(scratch[d])
    BY DEF FoldInv, RebuildInv
<1>3. IsScratch(NoScratch)
    BY DEF IsScratch, NoScratch
<1>4. \A d \in Clients : scratch'[d] = IF d = c THEN NoScratch ELSE scratch[d]
    BY <1>1, <1>2
<1>5. scratch' = [d \in Clients |-> scratch'[d]] /\ \A d \in Clients : IsScratch(scratch'[d])
    BY <1>1, <1>2, <1>3, <1>4
<1>6. \A d \in Clients : pc'[d] \in {"rebuild", "replace"} =>
                            pc'[d] = pc[d] /\ scratch'[d] = scratch[d]
    BY <1>1, <1>4 DEF IInv, CallInv
<1>7. tx' # NoTx => TxFold(tx')
    BY <1>1 DEF FoldInv
<1> QED
    BY <1>1, <1>5, <1>6, <1>7, FoldQuiet

LEMMA FoldCommit ==
    ASSUME IInv, FoldInv, NEW c \in Clients, Commit(c)
    PROVE  FoldInv'
<1>0. CASE Rollback(c)
    BY <1>0, FoldRollback
<1>1. CASE ~Rollback(c)
  <2>1. /\ log' = tx.log /\ tables' = Patched(tx) /\ tx' = NoTx
        /\ pc' = [pc EXCEPT ![c] = "committed"]
        /\ UNCHANGED <<snaps, scratch>> /\ tx.by = c
      BY <1>1 DEF Commit
  <2>2. tx # NoTx /\ WriteInv(tx)
      BY <2>1, OpenTx
  <2>3. TxFold(tx)
      BY <2>2 DEF FoldInv
  <2>4. Patched(tx) = tx.mem
    <3>1. /\ tx.tab.run = tx.mem.run /\ tx.tab.tasks = tx.mem.tasks
          /\ tx.tab.messages = tx.mem.messages /\ tx.tab.runtimes = tx.mem.runtimes
          /\ tx.tab.attempts = tx.mem.attempts /\ tx.tab.steering = tx.mem.steering
          /\ tx.tab.versions = tx.mem.versions
        BY <2>3 DEF TxFold, WithHead
    <3> QED
        BY <2>3, <3>1 DEF TxFold, Shape, WithHead, Patched
  <2>5. Folded(log', tables') /\ Shape(tables')
      BY <2>1, <2>3, <2>4 DEF TxFold
  <2>6. /\ log \in Seq(ControlEvents) /\ log' \in Seq(ControlEvents) /\ Extends(log', log)
      BY <2>1, <2>2 DEF WriteInv, IInv, LogInv
  <2>7. \A s \in snaps' : SnapFold(log', s)
    <3> SUFFICES ASSUME NEW s \in snaps PROVE SnapFold(log', s)
        BY <2>1
    <3>1. s.head \in 0 .. Len(log) /\ s = Replayed(SubSeq(log, 1, s.head))
        BY DEF FoldInv, SnapFold
    <3>2. s.head \in 0 .. Len(log') /\ SubSeq(log', 1, s.head) = SubSeq(log, 1, s.head)
        BY <2>6, <3>1, CutExtension
    <3> QED
        BY <3>1, <3>2 DEF SnapFold
  <2>8. RebuildInv'
    <3>1. \A d \in Clients : pc'[d] \in {"rebuild", "replace"} => pc'[d] = pc[d]
        BY <2>1 DEF IInv, CallInv
    <3>2. ASSUME NEW d \in Clients, pc'[d] \in {"rebuild", "replace"}
          PROVE  scratch[d].log \in Seq(ControlEvents) /\ Extends(log', scratch[d].log)
      <4>1. scratch[d].log \in Seq(ControlEvents) /\ Extends(log, scratch[d].log)
          BY <3>1, <3>2 DEF FoldInv, RebuildInv
      <4> QED
          BY <2>6, <4>1 DEF Extends
    <3> QED
        BY <2>1, <3>1, <3>2 DEF FoldInv, RebuildInv
  <2>9. (\A s \in snaps : SnapFold(log, s))'
      BY <2>7
  <2> QED
      BY <2>1, <2>5, <2>8, <2>9 DEF FoldInv
<1> QED
    BY <1>0, <1>1

\* Of finitely many heads one is the largest.
LEMMA LatestExists ==
    ASSUME IInv, FoldInv, snaps # {}
    PROVE  Latest \in snaps /\ Latest.head \in Nat
<1> DEFINE B == {Len(log) - s.head : s \in snaps}
<1>1. Len(log) \in Nat /\ \A s \in snaps : s.head \in 0 .. Len(log)
    BY DEF IInv, LogInv, FoldInv, SnapFold
<1>2. B \in SUBSET Nat /\ B # {}
    BY <1>1
<1>3. PICK b \in B : \A x \in B : b <= x
    BY <1>2, LeastNumber
<1>4. PICK s \in snaps : b = Len(log) - s.head
    BY <1>3
<1>5. ASSUME NEW o \in snaps PROVE o.head <= s.head
  <2>1. Len(log) - s.head <= Len(log) - o.head
      BY <1>3, <1>4
  <2>2. s.head \in 0 .. Len(log) /\ o.head \in 0 .. Len(log)
      BY <1>1
  <2> QED
      BY <1>1, <2>1, <2>2
<1>6. Latest \in snaps
    BY <1>4, <1>5 DEF Latest
<1> QED
    BY <1>1, <1>6

\* rebuildProjections: the replay from the latest snapshot is the replay of the whole log that
\* was read, and what is written at the end is the replay of the log as it then is.
LEMMA FoldUpkeep ==
    ASSUME IInv, FoldInv, NEW c \in Clients,
           createSnapshot(c) \/ RebuildRead(c) \/ RebuildReplay(c) \/ RebuildWrite(c)
    PROVE  FoldInv'
<1>0. /\ log \in Seq(ControlEvents) /\ tables.head = Len(log) /\ Len(log) \in Nat
      /\ pc \in [Clients -> PcValues]
      /\ scratch = [d \in Clients |-> scratch[d]]
      /\ \A d \in Clients : IsScratch(scratch[d])
      /\ tx # NoTx => TxFold(tx)
    BY DEF IInv, LogInv, CallInv, FoldInv, RebuildInv
<1>1. CASE createSnapshot(c)
  <2>1. /\ snaps' = snaps \cup {tables} /\ tables = Replayed(log)
        /\ UNCHANGED <<log, tables, tx, pc, scratch>>
      BY <1>1 DEF createSnapshot
  <2>2. SubSeq(log, 1, Len(log)) = log
      BY <1>0
  <2>3. tables.head \in 0 .. Len(log)
      BY <1>0
  <2>4. SnapFold(log, tables)
      BY <1>0, <2>1, <2>2, <2>3 DEF SnapFold
  <2>5. \A s \in snaps' : SnapFold(log', s)
      BY <2>1, <2>4 DEF FoldInv
  <2>6. (\A s \in snaps : SnapFold(log, s))'
      BY <2>5
  <2>7. RebuildInv'
      BY <2>1 DEF FoldInv, RebuildInv
  <2> QED
      BY <2>1, <2>6, <2>7 DEF FoldInv
<1>2. CASE RebuildRead(c)
  <2> DEFINE x == [log |-> log, proj |-> emptyControlProjection]
  <2>1. /\ scratch' = [scratch EXCEPT ![c] = x]
        /\ pc' = [pc EXCEPT ![c] = "rebuild"]
        /\ UNCHANGED <<log, tables, snaps, tx>>
      BY <1>2 DEF RebuildRead, store
  <2>2. x.log = log /\ IsScratch(x)
      BY DEF IsScratch
  <2> HIDE DEF x
  <2>3. \A d \in Clients : /\ scratch'[d] = IF d = c THEN x ELSE scratch[d]
                           /\ pc'[d] = IF d = c THEN "rebuild" ELSE pc[d]
      BY <1>0, <2>1
  <2>4. scratch' = [d \in Clients |-> scratch'[d]] /\ \A d \in Clients : IsScratch(scratch'[d])
      BY <1>0, <2>1, <2>2, <2>3
  <2>5. Extends(log, log)
      BY <1>0, ExtendsSelf
  <2>6. RebuildInv'
      BY <1>0, <2>1, <2>2, <2>3, <2>4, <2>5 DEF FoldInv, RebuildInv
  <2>7. (\A s \in snaps : SnapFold(log, s))'
      BY <2>1 DEF FoldInv
  <2> QED
      BY <2>1, <2>6, <2>7 DEF FoldInv
<1>3. CASE RebuildReplay(c)
  <2> DEFINE l == scratch[c].log
             k == IF Latest.head < Len(l) THEN Latest.head ELSE Len(l)
             y == IF snaps = {} THEN Replayed(l)
                  ELSE reduceControlEvents(Latest, SubSeq(l, Latest.head + 1, Len(l)))
  <2>1. UNCHANGED <<log, tables, snaps, tx>> /\ pc[c] = "rebuild"
      BY <1>3 DEF RebuildReplay, store
  <2>2. l \in Seq(ControlEvents) /\ Extends(log, l)
      BY <2>1 DEF FoldInv, RebuildInv
  <2>3. CASE snaps # {} /\ Replayed(SubSeq(l, 1, k)) # Latest
    <3>1. /\ pc' = [pc EXCEPT ![c] = "idle"]
          /\ scratch' = [scratch EXCEPT ![c] = NoScratch]
        BY <1>3, <2>3 DEF RebuildReplay
    <3>2. IsScratch(NoScratch)
        BY DEF IsScratch, NoScratch
    <3>3. \A d \in Clients : /\ scratch'[d] = IF d = c THEN NoScratch ELSE scratch[d]
                             /\ pc'[d] = IF d = c THEN "idle" ELSE pc[d]
        BY <1>0, <3>1
    <3>4. scratch' = [d \in Clients |-> scratch'[d]] /\ \A d \in Clients : IsScratch(scratch'[d])
        BY <1>0, <3>1, <3>2, <3>3
    <3>5. \A d \in Clients : pc'[d] \in {"rebuild", "replace"} =>
                                pc'[d] = pc[d] /\ scratch'[d] = scratch[d]
        BY <3>3
    <3> QED
        BY <1>0, <2>1, <3>4, <3>5, FoldQuiet
  <2>4. CASE ~(snaps # {} /\ Replayed(SubSeq(l, 1, k)) # Latest)
    <3>1. /\ pc' = [pc EXCEPT ![c] = "replace"]
          /\ scratch' = [scratch EXCEPT ![c].proj = y]
        BY <1>3, <2>4 DEF RebuildReplay
    <3>2. y = Replayed(l)
      <4>1. CASE snaps = {}
          BY <4>1
      <4>2. CASE snaps # {}
        <5>1. Latest.head \in Nat
            BY <4>2, LatestExists
        <5>2. Replayed(SubSeq(l, 1, k)) = Latest
            BY <2>4, <4>2
        <5>3. Len(l) \in Nat
            BY <2>2
        <5>4. k \in 0 .. Len(l)
            BY <5>1, <5>3
        <5> HIDE DEF l, k
        <5>5. SubSeq(l, 1, k) \in Seq(ControlEvents) /\ Len(SubSeq(l, 1, k)) = k
            BY <2>2, <5>4
        <5>6. Latest.head = k
            BY <5>2, <5>5, ReplayShape
        <5>7. reduceControlEvents(Latest, SubSeq(l, k + 1, Len(l))) = Replayed(l)
            BY <2>2, <5>2, <5>4, ReplayConcat
        <5> QED
            BY <4>2, <5>6, <5>7
      <4> QED
          BY <4>1, <4>2
    <3> DEFINE x == [scratch[c] EXCEPT !.proj = y]
    <3>3. scratch' = [scratch EXCEPT ![c] = x]
        BY <1>0, <3>1
    <3>4. x.log = l /\ x.proj = y /\ IsScratch(x)
      <4> HIDE DEF y
      <4>1. scratch[c] = [log |-> scratch[c].log, proj |-> scratch[c].proj]
          BY <1>0 DEF IsScratch
      <4>2. x = [log |-> l, proj |-> y]
          BY <4>1
      <4> HIDE DEF x, l
      <4> QED
          BY <4>2 DEF IsScratch
    <3> HIDE DEF x, y, l
    <3>5. \A d \in Clients : /\ scratch'[d] = IF d = c THEN x ELSE scratch[d]
                             /\ pc'[d] = IF d = c THEN "replace" ELSE pc[d]
        BY <1>0, <3>1, <3>3
    <3>6. scratch' = [d \in Clients |-> scratch'[d]] /\ \A d \in Clients : IsScratch(scratch'[d])
        BY <1>0, <3>3, <3>4, <3>5
    <3>7. RebuildInv'
        BY <1>0, <2>1, <2>2, <3>2, <3>4, <3>5, <3>6 DEF FoldInv, RebuildInv
    <3>8. (\A s \in snaps : SnapFold(log, s))'
        BY <2>1 DEF FoldInv
    <3> QED
        BY <2>1, <3>7, <3>8 DEF FoldInv
  <2> QED
      BY <2>3, <2>4 DEF l, k
<1>4. CASE RebuildWrite(c)
  <2>1. /\ tables' = IF RebuildFence(c) THEN scratch[c].proj ELSE tables
        /\ pc' = [pc EXCEPT ![c] = "idle"] /\ pc[c] = "replace"
        /\ scratch' = [scratch EXCEPT ![c] = NoScratch]
        /\ UNCHANGED <<log, snaps, tx>>
      BY <1>4 DEF RebuildWrite
  <2>2. tables' = tables
    <3>1. CASE RebuildFence(c)
      <4> DEFINE l == scratch[c].log
      <4>1. l \in Seq(ControlEvents) /\ Extends(log, l) /\ scratch[c].proj = Replayed(l)
          BY <2>1 DEF FoldInv, RebuildInv
      <4>2. Len(l) = Len(log)
          BY <3>1, <4>1, ReplayShape DEF RebuildFence
      <4> HIDE DEF l
      <4>3. l = log
        <5>1. \A n \in 1 .. Len(l) : log[n] = l[n]
            BY <4>1 DEF Extends
        <5>2. l = [n \in 1 .. Len(log) |-> l[n]] /\ log = [n \in 1 .. Len(log) |-> log[n]]
            BY <1>0, <4>1, <4>2
        <5> QED
            BY <4>2, <5>1, <5>2
      <4>4. Replayed(log) = tables
          BY FoldedReplayed DEF FoldInv
      <4> QED
          BY <2>1, <3>1, <4>1, <4>3, <4>4
    <3> QED
        BY <2>1, <3>1
  <2>3. IsScratch(NoScratch)
      BY DEF IsScratch, NoScratch
  <2>4. \A d \in Clients : /\ scratch'[d] = IF d = c THEN NoScratch ELSE scratch[d]
                           /\ pc'[d] = IF d = c THEN "idle" ELSE pc[d]
      BY <1>0, <2>1
  <2>5. scratch' = [d \in Clients |-> scratch'[d]] /\ \A d \in Clients : IsScratch(scratch'[d])
      BY <1>0, <2>1, <2>3, <2>4
  <2>6. \A d \in Clients : pc'[d] \in {"rebuild", "replace"} =>
                              pc'[d] = pc[d] /\ scratch'[d] = scratch[d]
      BY <2>4
  <2> QED
      BY <1>0, <2>1, <2>2, <2>5, <2>6, FoldQuiet
<1> QED
    BY <1>1, <1>2, <1>3, <1>4

LEMMA FoldStep == IInv /\ FoldInv /\ [Next]_vars => FoldInv'
<1> SUFFICES ASSUME IInv, FoldInv, [Next]_vars PROVE FoldInv'
    OBVIOUS
<1>1. CASE UNCHANGED vars
  <2>1. (\A s \in snaps : SnapFold(log, s))' /\ RebuildInv'
      BY <1>1 DEF vars, FoldInv, RebuildInv
  <2> QED
      BY <1>1, <2>1 DEF vars, FoldInv
<1>2. CASE Next
  <2>1. PICK c \in Clients :
            \/ CreateFile(c) \/ StampFile(c) \/ Bootstrap(c) \/ OpenExisting(c)
            \/ CallAppend(c) \/ CallConsume(c) \/ CallSkip(c)
            \/ BeginTx(c) \/ StaleHead(c) \/ StoreBusy(c)
            \/ MeetEvent(c) \/ InsertEvent(c) \/ Commit(c) \/ SqliteFails(c)
            \/ Return(c)
            \/ createSnapshot(c)
            \/ RebuildRead(c) \/ RebuildReplay(c) \/ RebuildWrite(c)
            \/ Crash(c) \/ Close(c)
      BY <1>2 DEF Next
  <2> QED
      BY <2>1, FoldOpening, FoldCalls, FoldBegin, FoldTake, FoldCommit, FoldUpkeep, FoldCrash
<1> QED
    BY <1>1, <1>2

\* Row by row patching (persistProjectionDelta), snapshots and rebuilds next to an appender
\* never take the tables or a snapshot away from what the reducer makes of the log, so a store
\* that this code has written always passes the check of openControlStore.
THEOREM ProjectionAlwaysFold == Spec => []ProjectionIsFold
<1>1. FoldInv => ProjectionIsFold
    BY DEF FoldInv, ProjectionIsFold, Folded, Start, SnapFold
<1> QED
    BY <1>1, InitInv, StepInv, FoldInit, FoldStep, PTL DEF Spec

-----------------------------------------------------------------------------
(* Nothing is written from a stale reading.  The invariant says that the    *)
(* generation of a task has passed every generation that was reopened, and  *)
(* that the events of a call stand for the range of events it has read.     *)

IsTask(x) ==
    x = [gen |-> x.gen, status |-> x.status, by |-> x.by, fails |-> x.fails, ver |-> x.ver]

\* StaleWritersFenced, of any log.
Late(l) ==
    \A m, n \in 1 .. Len(l) :
        m < n /\ l[m].type = "task.reopened" /\ l[n].task = l[m].task /\ l[n].tgen <= l[m].tgen
        => l[n].type \in {"steering.command_refused", "steering.command_terminal_refused"}

GenInv(l, p) ==
    /\ \A t \in Tasks : IsTask(p.tasks[t]) /\ p.tasks[t].gen \in Nat
    /\ \A m \in 1 .. Len(l) : l[m].type = "task.reopened" =>
          l[m].task \in Tasks /\ l[m].tgen < p.tasks[l[m].task].gen
    /\ Late(l)

RangeOf(r) == IF r.mode = "cursor" THEN <<r.from, r.next>> ELSE <<0, 0>>

CallRanges(r) ==
    /\ \A n \in 1 .. Len(r.batch) : r.batch[n].range = RangeOf(r)
    /\ r.mode = "cursor" => Len(r.batch) <= 1

\* What transaction t, begun on log l for call r, has added and has still to add.
TxFence(l, t, r) ==
    /\ GenInv(t.log, t.mem)
    /\ \A n \in 1 .. Len(t.rest) : t.rest[n].range = RangeOf(r)
    /\ \A n \in Len(l) + 1 .. Len(t.log) : t.log[n].range = RangeOf(r)
    /\ r.mode = "cursor" => Len(t.log) + Len(t.rest) <= Len(l) + 1

Consumed(l, k) ==
    LET effects == {n \in 1 .. Len(l) : l[n].range # <<0, 0>>}
    IN  /\ \A n \in effects : l[n].range[2] <= k
        /\ \A m, n \in effects :
              m < n => l[m].range[2] <= l[n].range[1] \/ l[n].range[2] <= l[m].range[1]

FenceInv ==
    /\ GenInv(log, tables)
    /\ Consumed(log, cursor)
    /\ \A c \in Clients : req[c] # NoReq => CallRanges(req[c])
    /\ tx # NoTx => TxFence(log, tx, req[tx.by])

\* How an event moves the generation of a task.
LEMMA ReducedTask ==
    ASSUME NEW p, Shape(p), NEW e, NEW t \in Tasks, IsTask(p.tasks[t])
    PROVE  /\ IsTask(applyControlEvent(p, e).tasks[t])
           /\ applyControlEvent(p, e).tasks[t].gen =
                 IF e.task = t /\ e.type = "task.created" THEN e.tgen
                 ELSE IF e.task = t /\ e.type = "task.reopened" THEN e.num
                 ELSE p.tasks[t].gen
<1> DEFINE q == applyControlEvent(p, e).tasks
           x == p.tasks[t]
<1>1. q[t] = IF e.type \in TaskTypes /\ t = e.task THEN ReduceTask(x, e) ELSE x
    BY DEF applyControlEvent, Shape
<1>2. x = [gen |-> x.gen, status |-> x.status, by |-> x.by, fails |-> x.fails, ver |-> x.ver]
    BY DEF IsTask
<1> HIDE DEF q, x
<1>3. CASE ~(e.type \in TaskTypes /\ t = e.task)
  <2>1. q[t] = x
      BY <1>1, <1>3
  <2>2. ~(e.task = t /\ e.type = "task.created") /\ ~(e.task = t /\ e.type = "task.reopened")
      BY <1>3 DEF TaskTypes
  <2> QED
      BY <1>2, <2>1, <2>2 DEF IsTask, q, x
<1>4. CASE e.type = "task.created" /\ t = e.task
  <2>1. q[t] = [gen |-> e.tgen, status |-> "open", by |-> None, fails |-> 0, ver |-> e.ver + 1]
      BY <1>1, <1>4 DEF ReduceTask, TaskTypes
  <2> QED
      BY <1>4, <2>1 DEF IsTask, q
<1>5. CASE e.type = "task.reopened" /\ t = e.task
  <2>1. q[t] = [gen |-> e.num, status |-> "open", by |-> None, fails |-> 0, ver |-> 0]
      BY <1>1, <1>5 DEF ReduceTask, TaskTypes
  <2> QED
      BY <1>5, <2>1 DEF IsTask, q
<1>6. CASE e.type = "task.status_changed" /\ t = e.task
  <2> DEFINE b == IF e.st = "claimed" THEN e.who ELSE x.by
             n == IF e.st \in {"blocked", "rejected"} THEN x.fails + 1 ELSE x.fails
  <2>1. q[t] = [x EXCEPT !.status = e.st, !.by = b, !.fails = n, !.ver = e.ver + 1]
      BY <1>1, <1>6 DEF ReduceTask, TaskTypes
  <2> HIDE DEF b, n
  <2>2. q[t] = [gen |-> x.gen, status |-> e.st, by |-> b, fails |-> n, ver |-> e.ver + 1]
      BY <1>2, <2>1
  <2> QED
      BY <1>6, <2>2 DEF IsTask, q, x
<1> QED
    BY <1>3, <1>4, <1>5, <1>6 DEF TaskTypes

LEMMA TypesOf ==
    ASSUME NEW e \in ControlEvents
    PROVE  /\ e.tgen \in Nat /\ e.num \in Nat /\ e.task \in Tasks \cup {None}
           /\ e.type \in EventTypes /\ e.range \in Nat \X Nat
BY DEF ControlEvents

\* validateFences and the reducer keep a reopened generation closed.
LEMMA GenAppend ==
    ASSUME NEW l \in Seq(ControlEvents), NEW p, Shape(p), GenInv(l, p), NEW e \in ControlEvents,
           TaskFence(p, e), NEW seq, Reducible(p, e, seq)
    PROVE  GenInv(Append(l, e), applyControlEvent(p, e))
<1> DEFINE a == Append(l, e)
           q == applyControlEvent(p, e)
<1>1. /\ a \in Seq(ControlEvents) /\ Len(a) = Len(l) + 1 /\ a[Len(l) + 1] = e
      /\ \A n \in 1 .. Len(l) : a[n] = l[n]
      /\ Len(l) \in Nat
    OBVIOUS
<1>2. /\ \A t \in Tasks : IsTask(q.tasks[t])
      /\ \A t \in Tasks : q.tasks[t].gen =
            IF e.task = t /\ e.type = "task.created" THEN e.tgen
            ELSE IF e.task = t /\ e.type = "task.reopened" THEN e.num
            ELSE p.tasks[t].gen
    BY ReducedTask DEF GenInv
<1>3. /\ e.tgen \in Nat /\ e.num \in Nat /\ e.task \in Tasks \cup {None}
      /\ \A m \in 1 .. Len(l) : l[m].tgen \in Nat
    BY TypesOf
<1>4. e.type \in TaskTypes => e.task \in Tasks
    BY <1>3 DEF Reducible, assertControlEventScope
<1>5. e.type = "task.created" => p.tasks[e.task].gen = 0 /\ e.tgen = 1
    BY DEF TaskFence
<1>6. e.type = "task.reopened" => e.num = p.tasks[e.task].gen + 1 /\ e.tgen = p.tasks[e.task].gen
  <2> SUFFICES ASSUME e.type = "task.reopened"
               PROVE  e.num = p.tasks[e.task].gen + 1 /\ e.tgen = p.tasks[e.task].gen
      OBVIOUS
  <2>1. TaskAllows(p, e)
    <3>1. /\ e.type \notin RunTypes /\ e.type \notin AttemptTypes /\ e.type \notin SteeringTypes
          /\ e.type # "message.posted" /\ e.type # "runtime.observed" /\ e.type \in TaskTypes
        BY DEF TaskTypes, RunTypes, RunEnds, AttemptTypes, SteeringTypes, CommandEnds
    <3>2. (CASE e.type \in RunTypes          -> RunAllows(p, e)
            [] e.type \in TaskTypes         -> TaskAllows(p, e)
            [] e.type \in AttemptTypes      -> AttemptAllows(p, e)
            [] e.type \in SteeringTypes     -> SteeringAllows(p, e)
            [] e.type = "message.posted"    -> MessageAllows(p, e)
            [] e.type = "runtime.observed"  -> RuntimeAllows(p, e))
        BY DEF Reducible
    <3> QED
        BY <3>1, <3>2
  <2> QED
      BY <2>1 DEF TaskAllows, assertTask
<1>7. /\ \A t \in Tasks : p.tasks[t].gen \in Nat
      /\ \A m \in 1 .. Len(l) : l[m].type = "task.reopened" =>
            l[m].task \in Tasks /\ l[m].tgen < p.tasks[l[m].task].gen
      /\ Late(l)
    BY DEF GenInv
<1>8. e.task = None \/ e.type \in {"steering.command_refused", "steering.command_terminal_refused"}
        \/ e.tgen = p.tasks[e.task].gen \/ e.type = "task.created"
    BY DEF TaskFence, assertTask
<1>9. None \notin Tasks
    BY NoneAssumption
<1> HIDE DEF a, q
<1>10. \A t \in Tasks : q.tasks[t].gen \in Nat /\ p.tasks[t].gen <= q.tasks[t].gen
  <2> SUFFICES ASSUME NEW t \in Tasks
               PROVE  q.tasks[t].gen \in Nat /\ p.tasks[t].gen <= q.tasks[t].gen
      OBVIOUS
  <2>1. CASE e.task = t /\ e.type = "task.created"
      BY <1>2, <1>3, <1>5, <2>1
  <2>2. CASE e.task = t /\ e.type = "task.reopened"
      BY <1>2, <1>3, <1>6, <1>7, <2>2
  <2>3. CASE ~(e.task = t /\ e.type = "task.created") /\ ~(e.task = t /\ e.type = "task.reopened")
      BY <1>2, <1>7, <2>3
  <2> QED
      BY <2>1, <2>2, <2>3
<1>11. ASSUME NEW m \in 1 .. Len(a), a[m].type = "task.reopened"
       PROVE  a[m].task \in Tasks /\ a[m].tgen < q.tasks[a[m].task].gen
  <2>1. CASE m \in 1 .. Len(l)
    <3>1. a[m] = l[m] /\ l[m].task \in Tasks /\ l[m].tgen < p.tasks[l[m].task].gen
        BY <1>1, <1>7, <1>11, <2>1
    <3>2. l[m].tgen \in Nat /\ p.tasks[l[m].task].gen \in Nat /\ q.tasks[l[m].task].gen \in Nat
            /\ p.tasks[l[m].task].gen <= q.tasks[l[m].task].gen
        BY <1>3, <1>7, <1>10, <2>1, <3>1
    <3>3. l[m].tgen < q.tasks[l[m].task].gen
        BY <3>1, <3>2
    <3> QED
        BY <3>1, <3>3
  <2>2. CASE m = Len(l) + 1
    <3>1. a[m] = e /\ e.task \in Tasks
        BY <1>1, <1>4, <1>11, <2>2 DEF TaskTypes
    <3>2. q.tasks[e.task].gen = p.tasks[e.task].gen + 1 /\ e.tgen = p.tasks[e.task].gen
        BY <1>2, <1>6, <1>11, <3>1
    <3> QED
        BY <1>3, <3>1, <3>2
  <2> QED
      BY <1>1, <2>1, <2>2
<1>12. Late(a)
  <2> SUFFICES ASSUME NEW m \in 1 .. Len(a), NEW n \in 1 .. Len(a), m < n,
                      a[m].type = "task.reopened", a[n].task = a[m].task, a[n].tgen <= a[m].tgen
               PROVE  a[n].type \in {"steering.command_refused",
                                     "steering.command_terminal_refused"}
      BY DEF Late
  <2>1. m \in 1 .. Len(l)
      BY <1>1
  <2>2. CASE n \in 1 .. Len(l)
    <3>1. a[m] = l[m] /\ a[n] = l[n]
        BY <1>1, <2>1, <2>2
    <3> QED
        BY <1>7, <2>1, <2>2, <3>1 DEF Late
  <2>3. CASE n = Len(l) + 1
    <3>1. /\ a[n] = e /\ a[m] = l[m] /\ l[m].task \in Tasks /\ e.task = l[m].task
          /\ l[m].tgen < p.tasks[e.task].gen /\ e.tgen <= l[m].tgen
        BY <1>1, <1>7, <2>1, <2>3
    <3>2. e.task # None
        BY <1>9, <3>1
    <3>3. l[m].tgen \in Nat /\ p.tasks[e.task].gen \in Nat
        BY <1>3, <1>7, <2>1, <3>1
    <3>4. e.tgen # p.tasks[e.task].gen
        BY <1>3, <3>1, <3>3
    <3>5. e.type # "task.created"
        BY <1>5, <3>1, <3>3
    <3> QED
        BY <1>8, <3>1, <3>2, <3>4, <3>5
  <2> QED
      BY <1>1, <2>2, <2>3
<1>13. GenInv(a, q)
    BY <1>2, <1>10, <1>11, <1>12 DEF GenInv
<1> QED
    BY <1>13 DEF a, q

\* A history the store has written.
LEMMA GenSeed ==
    ASSUME NEW h \in Seeds
    PROVE  GenInv(h, Replayed(h))
<1> DEFINE E == emptyControlProjection
           k == Len(h)
<1>1. /\ h \in Seq(ControlEvents) /\ Replays(h) /\ k \in Nat
      /\ \A n \in 1 .. k : validateFences(Replayed(SubSeq(h, 1, n - 1)), h[n])
    BY SeedsAssumption DEF Replayed
<1>2. PICK f : Run(E, h, k, f)
    BY <1>1, RunExists
<1>3. \A n \in 0 .. k : Replay(E, SubSeq(h, 1, n)) = f[n]
    BY <1>1, <1>2, ReplayPrefix
<1>4. \A n \in 0 .. k : Shape(f[n].state)
    BY <1>1, <1>2, EmptyShape, RunShape
<1> HIDE DEF k
<1> DEFINE Good(n) == f[n].ok => GenInv(SubSeq(h, 1, n), f[n].state)
           Bad == {n \in 0 .. k : ~Good(n)}
<1>5. Good(0)
  <2>1. f[0].state = E
      BY <1>2 DEF Run, Start
  <2>2. SubSeq(h, 1, 0) = << >>
      BY <1>1
  <2>3. GenInv(<< >>, E)
    <3>1. \A t \in Tasks : E.tasks[t] = NoTask
        BY DEF emptyControlProjection
    <3>2. IsTask(NoTask) /\ NoTask.gen \in Nat
        BY DEF IsTask, NoTask
    <3>3. Len(<< >>) = 0 /\ \A m \in 1 .. 0 : FALSE
        OBVIOUS
    <3> HIDE DEF E
    <3> QED
        BY <3>1, <3>2, <3>3 DEF GenInv, Late
  <2> QED
      BY <2>1, <2>2, <2>3
<1>6. Bad = {}
  <2> SUFFICES ASSUME Bad # {} PROVE FALSE
      OBVIOUS
  <2>1. Bad \in SUBSET Nat
      BY <1>1
  <2>2. PICK m \in Bad : \A n \in Bad : m <= n
      BY <2>1, LeastNumber
  <2>3. m \in 0 .. k /\ m # 0 /\ ~Good(m)
      BY <1>5
  <2>4. m \in 1 .. k /\ m - 1 \in 0 .. k /\ ~(m <= m - 1)
      BY <1>1, <2>3
  <2>5. Good(m - 1)
      BY <2>2, <2>4
  <2>6. f[m] = After(f[m - 1], h[m], E.head + m)
      BY <1>2, <2>4 DEF Run
  <2>7. f[m].ok
      BY <2>3
  <2>8. f[m - 1].ok /\ Reducible(f[m - 1].state, h[m], E.head + m)
            /\ f[m].state = applyControlEvent(f[m - 1].state, h[m])
    <3>1. /\ f[m].ok = (f[m - 1].ok /\ Reducible(f[m - 1].state, h[m], E.head + m))
          /\ f[m].state = applyControlEvent(f[m - 1].state, h[m])
        BY <2>6 DEF After
    <3> QED
        BY <2>7, <3>1
  <2>9. TaskFence(f[m - 1].state, h[m])
      BY <1>1, <1>3, <2>4 DEF Replayed, reduceControlEvents, validateFences
  <2> DEFINE l == SubSeq(h, 1, m - 1)
  <2>10. /\ l \in Seq(ControlEvents) /\ h[m] \in ControlEvents
         /\ SubSeq(h, 1, m) = Append(l, h[m])
    <3>1. h \in Seq(ControlEvents) /\ m \in 1 .. Len(h)
        BY <1>1, <2>4 DEF k
    <3> QED
        BY <3>1
  <2>11. GenInv(l, f[m - 1].state) /\ Shape(f[m - 1].state)
      BY <1>4, <2>4, <2>5, <2>8
  <2> HIDE DEF l
  <2>12. GenInv(Append(l, h[m]), applyControlEvent(f[m - 1].state, h[m]))
      BY <2>8, <2>9, <2>10, <2>11, GenAppend
  <2> QED
      BY <2>3, <2>8, <2>10, <2>12
<1>7. k \in 0 .. k /\ SubSeq(h, 1, k) = h
    BY <1>1 DEF k
<1>8. Good(k)
    BY <1>6, <1>7
<1>9. f[k] = Replay(E, h)
    BY <1>3, <1>7
<1> QED
    BY <1>1, <1>7, <1>8, <1>9 DEF Replays, Replayed, reduceControlEvents

LEMMA FenceInit == Init => FenceInv
<1> SUFFICES ASSUME Init PROVE FenceInv
    OBVIOUS
<1>1. GenInv(log, tables)
    BY GenSeed DEF Init
<1>2. Consumed(log, cursor)
    BY SeedsAssumption DEF Init, Consumed
<1> QED
    BY <1>1, <1>2 DEF Init, FenceInv

-----------------------------------------------------------------------------
(* The ranges of a composed batch.                                          *)

\* f holds the first n composed events, for every n up to k.
Composing(p, b, id, k, f) ==
    /\ f[0] = << >>
    /\ \A n \in 1 .. k :
          f[n] = Append(f[n - 1], Compose(reduceControlEvents(p, f[n - 1]), b[n], id[n], <<0, 0>>))

LEMMA ComposingExists ==
    ASSUME NEW p, NEW b, NEW id, NEW k \in Nat
    PROVE  \E f : f = [n \in 0 .. k |-> f[n]] /\ Composing(p, b, id, k, f)
<1> DEFINE Solved(n) == \E f : f = [i \in 0 .. n |-> f[i]] /\ Composing(p, b, id, n, f)
           Bad == {n \in Nat : ~Solved(n)}
           More(s, n) == Append(s, Compose(reduceControlEvents(p, s), b[n], id[n], <<0, 0>>))
<1> SUFFICES ASSUME Bad # {} PROVE FALSE
    OBVIOUS
<1>1. PICK m \in Bad : \A n \in Bad : m <= n
    BY LeastNumber
<1>2. Solved(0)
  <2> DEFINE f == [i \in 0 .. 0 |-> << >>]
  <2>1. f[0] = << >> /\ f = [i \in 0 .. 0 |-> f[i]]
      OBVIOUS
  <2>2. \A n \in 1 .. 0 : FALSE
      OBVIOUS
  <2> QED
      BY <2>1, <2>2 DEF Composing
<1>3. m \in Nat /\ m # 0 /\ ~Solved(m)
    BY <1>2
<1>4. m - 1 \in Nat /\ ~(m <= m - 1)
    BY <1>3
<1>5. PICK f : f = [i \in 0 .. m - 1 |-> f[i]] /\ Composing(p, b, id, m - 1, f)
    BY <1>1, <1>4
<1>6. f[0] = << >> /\ \A n \in 1 .. m - 1 : f[n] = More(f[n - 1], n)
    BY <1>5 DEF Composing
<1> HIDE DEF More
<1> DEFINE g == [i \in 0 .. m |-> IF i = m THEN More(f[m - 1], m) ELSE f[i]]
<1>7. g = [i \in 0 .. m |-> g[i]]
    OBVIOUS
<1>8. g[0] = << >>
    BY <1>3, <1>6
<1>9. ASSUME NEW n \in 1 .. m PROVE g[n] = More(g[n - 1], n)
  <2>1. n - 1 \in 0 .. m /\ n \in 0 .. m /\ n - 1 # m
      BY <1>3
  <2>2. g[n - 1] = f[n - 1]
      BY <2>1
  <2>3. CASE n = m
      BY <2>1, <2>2, <2>3
  <2>4. CASE n # m
    <3>1. n \in 1 .. m - 1
        BY <1>3, <2>4
    <3>2. f[n] = More(f[n - 1], n)
        BY <1>6, <3>1
    <3> QED
        BY <2>1, <2>2, <2>4, <3>2
  <2> QED
      BY <2>3, <2>4
<1> HIDE DEF g
<1>10. Solved(m)
    BY <1>7, <1>8, <1>9 DEF Composing, More
<1> QED
    BY <1>3, <1>10

LEMMA ComposedRange ==
    ASSUME NEW p, NEW i, NEW id, NEW range
    PROVE  Compose(p, i, id, range).range = range
BY DEF Compose, Event

\* ComposeAll: a batch without cursor stands for no range.
LEMMA ComposeAllRanges ==
    ASSUME NEW p, NEW b, Len(b) \in Nat, NEW id
    PROVE  \A n \in 1 .. Len(ComposeAll(p, b, id)) : ComposeAll(p, b, id)[n].range = <<0, 0>>
<1> DEFINE k == Len(b)
           More(s, n) == Append(s, Compose(reduceControlEvents(p, s), b[n], id[n], <<0, 0>>))
           Body(g) == [n \in 0 .. k |-> IF n = 0 THEN << >>
                                        ELSE LET before == g[n - 1] IN
                                             Append(before, Compose(reduceControlEvents(p, before),
                                                                    b[n], id[n], <<0, 0>>))]
           F == CHOOSE g : g = Body(g)
<1>1. ComposeAll(p, b, id) = F[k]
    BY DEF ComposeAll
<1>2. \E g : g = Body(g)
  <2>1. PICK g : g = [n \in 0 .. k |-> g[n]] /\ Composing(p, b, id, k, g)
      BY ComposingExists
  <2>2. ASSUME NEW n \in 0 .. k PROVE g[n] = Body(g)[n]
    <3>1. CASE n = 0
        BY <2>1, <3>1 DEF Composing
    <3>2. CASE n # 0
      <4>1. n \in 1 .. k
          BY <3>2
      <4>2. g[n] = More(g[n - 1], n)
          BY <2>1, <4>1 DEF Composing
      <4> QED
          BY <3>2, <4>2
    <3> QED
        BY <3>1, <3>2
  <2>3. g = Body(g)
      BY <2>1, <2>2
  <2> QED
      BY <2>3
<1>3. F = Body(F)
  <2> HIDE DEF Body
  <2> QED
      BY <1>2
<1> HIDE DEF F
<1>4. F[0] = << >> /\ \A n \in 1 .. k : F[n] = More(F[n - 1], n)
  <2>1. F[0] = << >>
      BY <1>3
  <2>2. ASSUME NEW n \in 1 .. k PROVE F[n] = More(F[n - 1], n)
    <3>1. n \in 0 .. k /\ n # 0
        OBVIOUS
    <3>2. F[n] = Body(F)[n]
        BY <1>3
    <3>3. Body(F)[n] = More(F[n - 1], n)
        BY <3>1
    <3> QED
        BY <3>2, <3>3
  <2> QED
      BY <2>1, <2>2
<1> HIDE DEF k, Body
<1>5. k \in Nat
    BY DEF k
<1> DEFINE Good(n) == \E S : F[n] \in Seq(S) /\ \A x \in S : x.range = <<0, 0>>
           Bad == {n \in 0 .. k : ~Good(n)}
<1>6. Good(0)
  <2>1. F[0] \in Seq({}) /\ \A x \in {} : x.range = <<0, 0>>
      BY <1>4
  <2> QED
      BY <2>1
<1>7. Bad = {}
  <2> SUFFICES ASSUME Bad # {} PROVE FALSE
      OBVIOUS
  <2>1. Bad \in SUBSET Nat
      BY <1>5
  <2>2. PICK m \in Bad : \A n \in Bad : m <= n
      BY <2>1, LeastNumber
  <2>3. m \in 0 .. k /\ m # 0 /\ ~Good(m)
      BY <1>6
  <2>4. m \in 1 .. k /\ m - 1 \in 0 .. k /\ ~(m <= m - 1)
      BY <1>5, <2>3
  <2>5. PICK S : F[m - 1] \in Seq(S) /\ \A x \in S : x.range = <<0, 0>>
      BY <2>2, <2>4
  <2> DEFINE y == Compose(reduceControlEvents(p, F[m - 1]), b[m], id[m], <<0, 0>>)
             T == S \cup {y}
  <2>6. y.range = <<0, 0>>
      BY ComposedRange
  <2>7. F[m] = Append(F[m - 1], y)
      BY <1>4, <2>4
  <2> HIDE DEF y
  <2>8. F[m - 1] \in Seq(T) /\ y \in T
      BY <2>5
  <2>9. F[m] \in Seq(T)
    <3> HIDE DEF T
    <3> QED
        BY <2>7, <2>8
  <2>10. \A x \in T : x.range = <<0, 0>>
      BY <2>5, <2>6
  <2>11. Good(m)
      BY <2>9, <2>10
  <2> QED
      BY <2>3, <2>11
<1>8. k \in 0 .. k
    BY <1>5
<1>9. PICK S : F[k] \in Seq(S) /\ \A x \in S : x.range = <<0, 0>>
    BY <1>7, <1>8
<1>10. \A n \in 1 .. Len(F[k]) : F[k][n] \in S
    BY <1>9
<1> QED
    BY <1>1, <1>9, <1>10

-----------------------------------------------------------------------------
(* The steps.                                                               *)

\* A step of process c that leaves log, tables and cursor alone, and gives c the call r.
LEMMA FenceQuiet ==
    ASSUME IInv, FenceInv, UNCHANGED <<log, tables, cursor>>, NEW c \in Clients, NEW r,
           req' = [req EXCEPT ![c] = r] \/ (req' = req /\ r = req[c]),
           r # NoReq => CallRanges(r),
           \/ tx' = NoTx
           \/ tx' = tx /\ (tx # NoTx => tx.by # c)
           \/ tx'.by = c /\ TxFence(log, tx', r)
    PROVE  FenceInv'
<1>1. \A d \in Clients : req'[d] = IF d = c THEN r ELSE req[d]
    BY DEF IInv, CallInv
<1>2. \A d \in Clients : req'[d] # NoReq => CallRanges(req'[d])
    BY <1>1 DEF FenceInv
<1>3. ASSUME tx' # NoTx PROVE TxFence(log, tx', req'[tx'.by])
  <2>1. CASE tx' = tx /\ tx.by # c
    <3>1. tx.by \in Clients /\ TxFence(log, tx, req[tx.by])
        BY <1>3, <2>1 DEF IInv, TxInv, WriteInv, FenceInv
    <3>2. req'[tx.by] = req[tx.by]
        BY <1>1, <2>1, <3>1
    <3> QED
        BY <2>1, <3>1, <3>2
  <2>2. CASE tx'.by = c /\ TxFence(log, tx', r)
      BY <1>1, <2>2
  <2> QED
      BY <1>3, <2>1, <2>2
<1>4. GenInv(log', tables') /\ Consumed(log', cursor')
    BY DEF FenceInv
<1> QED
    BY <1>2, <1>3, <1>4 DEF FenceInv

LEMMA NoTxOf ==
    ASSUME IInv, NEW c \in Clients, pc[c] # "writing"
    PROVE  tx # NoTx => tx.by # c
BY DEF IInv, TxInv, WriteInv

LEMMA FenceRollback ==
    ASSUME IInv, FenceInv, NEW c \in Clients, Rollback(c)
    PROVE  FenceInv'
<1>1. /\ UNCHANGED <<log, tables, cursor>> /\ tx' = NoTx
      /\ req' = [req EXCEPT ![c] = NoReq]
    BY DEF Rollback, store
<1> QED
    BY <1>1, FenceQuiet

\* Steps that touch neither the calls nor the transaction.
LEMMA FenceStill ==
    ASSUME IInv, FenceInv, FoldInv, FoldInv', NEW c \in Clients,
           \/ CreateFile(c) \/ StampFile(c) \/ Bootstrap(c) \/ OpenExisting(c) \/ Close(c)
           \/ createSnapshot(c) \/ RebuildRead(c) \/ RebuildReplay(c) \/ RebuildWrite(c)
    PROVE  FenceInv'
<1>1. UNCHANGED <<log, cursor, tx, req>>
    BY DEF CreateFile, StampFile, Bootstrap, OpenExisting, Close, createSnapshot, RebuildRead,
           RebuildReplay, RebuildWrite, store
<1>2. tables' = tables
  <2>1. Folded(log, tables) /\ Folded(log', tables')
      BY DEF FoldInv
  <2> QED
      BY <1>1, <2>1, FoldedReplayed
<1>3. GenInv(log', tables') /\ Consumed(log', cursor')
    BY <1>1, <1>2 DEF FenceInv
<1>4. \A d \in Clients : req'[d] # NoReq => CallRanges(req'[d])
    BY <1>1 DEF FenceInv
<1>5. tx' # NoTx => TxFence(log', tx', req'[tx'.by])
    BY <1>1 DEF FenceInv
<1> QED
    BY <1>3, <1>4, <1>5 DEF FenceInv

\* A call is made with the range its events stand for.
LEMMA FenceCall ==
    ASSUME IInv, FenceInv, NEW c \in Clients, NEW mode, NEW batch, NEW next,
           pc[c] = "idle", Call(c, mode, batch, next),
           \A n \in 1 .. Len(batch) :
                batch[n].range = IF mode = "cursor" THEN <<cursor, next>> ELSE <<0, 0>>,
           mode = "cursor" => Len(batch) <= 1
    PROVE  FenceInv'
<1> DEFINE r == [mode |-> mode, batch |-> batch, head |-> tables.head,
                 from |-> cursor, next |-> next, got |-> {}]
<1>1. UNCHANGED <<log, tables, cursor, tx>> /\ req' = [req EXCEPT ![c] = r]
    BY DEF Call, store
<1>2. r.mode = mode /\ r.batch = batch /\ r.from = cursor /\ r.next = next
    OBVIOUS
<1> HIDE DEF r
<1>3. CallRanges(r)
    BY <1>2 DEF CallRanges, RangeOf
<1>4. tx # NoTx => tx.by # c
    BY NoTxOf
<1> QED
    BY <1>1, <1>3, <1>4, FenceQuiet

LEMMA FenceCalls ==
    ASSUME IInv, FenceInv, NEW c \in Clients,
           CallAppend(c) \/ CallConsume(c) \/ CallSkip(c)
    PROVE  FenceInv'
<1>1. CASE CallAppend(c)
  <2>1. PICK b \in Batches : \E id \in [1 .. Len(b) -> Ids] :
            Call(c, ModeOf(b[1].type), ComposeAll(tables, b, id), 0)
      BY <1>1 DEF CallAppend
  <2>2. PICK id \in [1 .. Len(b) -> Ids] :
            Call(c, ModeOf(b[1].type), ComposeAll(tables, b, id), 0)
      BY <2>1
  <2>3. ModeOf(b[1].type) # "cursor"
      BY DEF ModeOf
  <2>4. pc[c] = "idle" /\ Len(b) \in Nat
      BY <1>1, BatchesAssumption DEF CallAppend
  <2>5. \A n \in 1 .. Len(ComposeAll(tables, b, id)) :
            ComposeAll(tables, b, id)[n].range = <<0, 0>>
      BY <2>4, ComposeAllRanges
  <2> QED
      BY <2>2, <2>3, <2>4, <2>5, FenceCall
<1>2. CASE CallConsume(c)
  <2>1. PICK next \in cursor + 1 .. Len(log), i \in Effects, id \in Ids :
            Call(c, "cursor", <<Compose(tables, i, id, <<cursor, next>>)>>, next)
      BY <1>2 DEF CallConsume
  <2> DEFINE e == Compose(tables, i, id, <<cursor, next>>)
  <2>2. pc[c] = "idle"
      BY <1>2 DEF CallConsume
  <2>3. e.range = <<cursor, next>>
      BY ComposedRange
  <2> HIDE DEF e
  <2>4. Len(<<e>>) = 1 /\ <<e>>[1] = e
      OBVIOUS
  <2>5. \A n \in 1 .. Len(<<e>>) : <<e>>[n].range = <<cursor, next>>
      BY <2>3, <2>4
  <2>6. Call(c, "cursor", <<e>>, next)
      BY <2>1 DEF e
  <2> QED
      BY <2>2, <2>4, <2>5, <2>6, FenceCall
<1>3. CASE CallSkip(c)
  <2>1. pc[c] = "idle" /\ Call(c, "cursor", << >>, tables.head)
      BY <1>3 DEF CallSkip
  <2> DEFINE b == << >>
  <2>2. Len(b) = 0 /\ Len(b) <= 1 /\ \A n \in 1 .. 0 : FALSE
      OBVIOUS
  <2>3. Call(c, "cursor", b, tables.head)
      BY <2>1
  <2> HIDE DEF b
  <2>4. \A n \in 1 .. Len(b) : b[n].range = <<cursor, tables.head>>
      BY <2>2
  <2> QED
      BY <2>1, <2>2, <2>3, <2>4, FenceCall
<1> QED
    BY <1>1, <1>2, <1>3

\* Only the receipts of a call are replaced.
LEMMA RangesKept ==
    ASSUME NEW r, RequestOK(r), CallRanges(r), NEW g
    PROVE  [r EXCEPT !.got = g] # NoReq => CallRanges([r EXCEPT !.got = g])
<1> DEFINE q == [r EXCEPT !.got = g]
<1>1. q.mode = r.mode /\ q.batch = r.batch /\ q.from = r.from /\ q.next = r.next
    OBVIOUS
<1> HIDE DEF q
<1>2. CallRanges(q)
    BY <1>1 DEF CallRanges, RangeOf
<1> QED
    BY <1>2 DEF q

LEMMA FenceEnds ==
    ASSUME IInv, FenceInv, NEW c \in Clients,
           StaleHead(c) \/ StoreBusy(c) \/ Return(c) \/ Crash(c)
    PROVE  FenceInv'
<1>1. /\ UNCHANGED <<log, tables, cursor>>
      /\ (tx' = tx /\ pc[c] # "writing") \/ tx' = (IF tx.by = c THEN NoTx ELSE tx)
    BY DEF StaleHead, StoreBusy, Return, Crash, store
<1>2. tx' = NoTx \/ (tx' = tx /\ (tx # NoTx => tx.by # c))
    BY <1>1, NoTxOf
<1>3. CASE req' = [req EXCEPT ![c] = NoReq]
    BY <1>1, <1>2, <1>3, FenceQuiet
<1>4. CASE \E g : req' = [req EXCEPT ![c] = [req[c] EXCEPT !.got = g]] /\ req[c] # NoReq
  <2>1. PICK g : req' = [req EXCEPT ![c] = [req[c] EXCEPT !.got = g]]
      BY <1>4
  <2>2. RequestOK(req[c]) /\ CallRanges(req[c])
      BY <1>4 DEF IInv, CallInv, FenceInv
  <2> DEFINE q == [req[c] EXCEPT !.got = g]
  <2>3. q # NoReq => CallRanges(q)
      BY <2>2, RangesKept
  <2>4. req' = [req EXCEPT ![c] = q]
      BY <2>1
  <2> HIDE DEF q
  <2> QED
      BY <1>1, <1>2, <2>3, <2>4, FenceQuiet
<1>5. \/ req' = [req EXCEPT ![c] = NoReq]
      \/ \E g : req' = [req EXCEPT ![c] = [req[c] EXCEPT !.got = g]] /\ req[c] # NoReq
  <2>1. CASE StaleHead(c)
    <3>1. req[c] # NoReq
        BY <2>1 DEF StaleHead, IInv, CallInv
    <3> DEFINE g == Receipts(log, req[c].batch)
    <3>2. req' = [req EXCEPT ![c] = NoReq] \/ req' = [req EXCEPT ![c].got = g]
        BY <2>1 DEF StaleHead
    <3> HIDE DEF g
    <3>3. req' = [req EXCEPT ![c] = NoReq] \/ req' = [req EXCEPT ![c] = [req[c] EXCEPT !.got = g]]
        BY <3>2
    <3> QED
        BY <3>1, <3>3
  <2>2. CASE StoreBusy(c) \/ Return(c)
      BY <2>2 DEF StoreBusy, Return
  <2>3. CASE Crash(c)
    <3>1. PICK again \in {NoReq} \cup {[r EXCEPT !.got = {}] : r \in {req[c]} \ {NoReq}} :
              req' = [req EXCEPT ![c] = again]
        BY <2>3 DEF Crash
    <3>2. again = NoReq \/ (again = [req[c] EXCEPT !.got = {}] /\ req[c] # NoReq)
        OBVIOUS
    <3> QED
        BY <3>1, <3>2
  <2> QED
      BY <2>1, <2>2, <2>3
<1> QED
    BY <1>3, <1>4, <1>5

LEMMA FenceBegin ==
    ASSUME IInv, FoldInv, FenceInv, NEW c \in Clients, BeginTx(c)
    PROVE  FenceInv'
<1> DEFINE r == req[c]
<1>1. /\ UNCHANGED <<log, tables, cursor, req>> /\ pc[c] = "called"
      /\ tx' = [by |-> c, rest |-> r.batch, log |-> log, mem |-> tables, tab |-> tables]
    BY DEF BeginTx, store
<1>2. r # NoReq /\ RequestOK(r) /\ CallRanges(r)
    BY <1>1 DEF IInv, CallInv, FenceInv
<1>3. r.batch \in Seq(ControlEvents) /\ log \in Seq(ControlEvents)
    BY <1>2 DEF RequestOK, IInv, LogInv
<1> HIDE DEF r
<1>4. tx'.log = log /\ tx'.mem = tables /\ tx'.rest = r.batch /\ tx'.by = c
    BY <1>1
<1>5. Len(log) \in Nat /\ Len(r.batch) \in Nat /\ \A n \in Len(log) + 1 .. Len(log) : FALSE
    BY <1>3
<1>6. r.mode = "cursor" => Len(log) + Len(r.batch) <= Len(log) + 1
  <2>1. r.mode = "cursor" => Len(r.batch) <= 1
      BY <1>2 DEF CallRanges
  <2> QED
      BY <1>5, <2>1
<1>7. TxFence(log, tx', r)
    BY <1>2, <1>4, <1>5, <1>6 DEF TxFence, FenceInv, CallRanges
<1> QED
    BY <1>1, <1>2, <1>4, <1>7, FenceQuiet DEF r

LEMMA RoomLeft ==
    \A a, b, k \in Nat : a + b <= k + 1 =>
        a <= k + 1 /\ a + (b - 1) <= k + 1 /\ (a + 1) + (b - 1) <= k + 1
OBVIOUS

\* InsertEvent: validateFences on the state of the transaction, event by event.
LEMMA FenceTake ==
    ASSUME IInv, FoldInv, FenceInv, NEW c \in Clients,
           MeetEvent(c) \/ InsertEvent(c) \/ SqliteFails(c)
    PROVE  FenceInv'
<1> DEFINE e == Head(tx.rest)
           r == req[c]
<1>0. CASE Rollback(c)
    BY <1>0, FenceRollback
<1>1. CASE ~Rollback(c)
  <2>1. tx.by = c /\ tx.rest # << >>
      BY <1>1 DEF MeetEvent, InsertEvent, SqliteFails
  <2>2. tx # NoTx /\ WriteInv(tx)
      BY <2>1, OpenTx
  <2>3. /\ TxFence(log, tx, r) /\ Shape(tx.mem)
      BY <2>1, <2>2 DEF FenceInv, FoldInv, TxFold
  <2>4. /\ tx.log \in Seq(ControlEvents) /\ tx.rest \in Seq(ControlEvents)
        /\ tx = [by |-> tx.by, rest |-> tx.rest, log |-> tx.log, mem |-> tx.mem, tab |-> tx.tab]
        /\ log \in Seq(ControlEvents)
      BY <2>2 DEF WriteInv, IsTx, IInv, LogInv
  <2>5. /\ e \in ControlEvents
        /\ e = tx.rest[1] /\ 1 \in 1 .. Len(tx.rest)
        /\ Len(Tail(tx.rest)) = Len(tx.rest) - 1
        /\ \A n \in 1 .. Len(Tail(tx.rest)) : Tail(tx.rest)[n] = tx.rest[n + 1]
        /\ Len(tx.rest) \in Nat /\ Len(tx.log) \in Nat /\ Len(log) \in Nat
      BY <2>1, <2>4
  <2>6. UNCHANGED <<log, tables, cursor, req>>
      BY <1>1 DEF MeetEvent, InsertEvent, SqliteFails, store
  <2>7. r # NoReq => CallRanges(r)
      BY DEF FenceInv
  <2> HIDE DEF e, r
  <2>8. \A n \in 1 .. Len(Tail(tx.rest)) : Tail(tx.rest)[n].range = RangeOf(r)
    <3> SUFFICES ASSUME NEW n \in 1 .. Len(Tail(tx.rest))
                 PROVE  Tail(tx.rest)[n].range = RangeOf(r)
        OBVIOUS
    <3>1. n + 1 \in 1 .. Len(tx.rest)
        BY <2>5
    <3> QED
        BY <2>3, <2>5, <3>1 DEF TxFence
  <2>9. e.range = RangeOf(r)
      BY <2>3, <2>5 DEF TxFence
  <2>10. TxFence(log, tx', r) /\ tx'.by = c
    <3>1. CASE MeetEvent(c)
      <4>1. tx' = [tx EXCEPT !.rest = Tail(@)]
          BY <1>1, <3>1 DEF MeetEvent
      <4>2. tx'.log = tx.log /\ tx'.mem = tx.mem /\ tx'.rest = Tail(tx.rest) /\ tx'.by = c
          BY <2>1, <2>4, <4>1
      <4>3. r.mode = "cursor" => Len(tx.log) + Len(Tail(tx.rest)) <= Len(log) + 1
        <5>1. r.mode = "cursor" => Len(tx.log) + Len(tx.rest) <= Len(log) + 1
            BY <2>3 DEF TxFence
        <5> QED
            BY <2>5, <5>1, RoomLeft
      <4> QED
          BY <2>3, <2>8, <4>2, <4>3 DEF TxFence
    <3>2. CASE InsertEvent(c)
      <4> DEFINE p == applyControlEvent(tx.mem, e)
                 l == Append(tx.log, e)
      <4>1. /\ tx' = [tx EXCEPT !.rest = Tail(@), !.log = Append(@, e), !.mem = p,
                                !.tab = persistProjectionDelta(@, p, e)]
            /\ Reducible(tx.mem, e, Len(tx.log) + 1) /\ validateFences(tx.mem, e)
          BY <1>1, <3>2 DEF InsertEvent, e
      <4>2. tx'.log = l /\ tx'.mem = p /\ tx'.rest = Tail(tx.rest) /\ tx'.by = c
        <5> HIDE DEF p
        <5> QED
            BY <2>1, <2>4, <4>1
      <4>3. GenInv(l, p)
          BY <2>3, <2>4, <2>5, <4>1, GenAppend DEF TxFence, validateFences
      <4>4. /\ Len(l) = Len(tx.log) + 1 /\ l[Len(tx.log) + 1] = e
            /\ \A n \in 1 .. Len(tx.log) : l[n] = tx.log[n]
          BY <2>4, <2>5
      <4> HIDE DEF l, p
      <4>5. r.mode = "cursor" => Len(l) + Len(Tail(tx.rest)) <= Len(log) + 1
        <5>1. r.mode = "cursor" => Len(tx.log) + Len(tx.rest) <= Len(log) + 1
            BY <2>3 DEF TxFence
        <5> QED
            BY <2>5, <4>4, <5>1, RoomLeft
      <4>6. ASSUME NEW n \in Len(log) + 1 .. Len(l) PROVE l[n].range = RangeOf(r)
        <5>1. CASE n = Len(tx.log) + 1
            BY <2>9, <4>4, <5>1
        <5>2. CASE n # Len(tx.log) + 1
          <6>1. n \in Len(log) + 1 .. Len(tx.log) /\ n \in 1 .. Len(tx.log)
              BY <2>5, <4>4, <5>2
          <6> QED
              BY <2>3, <4>4, <6>1 DEF TxFence
        <5> QED
            BY <5>1, <5>2
      <4> QED
          BY <2>8, <4>2, <4>3, <4>5, <4>6 DEF TxFence
    <3>3. CASE SqliteFails(c)
        BY <1>1, <3>3 DEF SqliteFails
    <3> QED
        BY <3>1, <3>2, <3>3
  <2> QED
      BY <2>6, <2>7, <2>10, FenceQuiet DEF r
<1> QED
    BY <1>0, <1>1

\* appendBatchWithCursor: the effect and the cursor move together, from where the caller has
\* read the cursor.
LEMMA ConsumedCommit ==
    ASSUME NEW l \in Seq(ControlEvents), NEW m \in Seq(ControlEvents), Extends(m, l),
           NEW k \in Nat, Consumed(l, k), NEW j \in Nat, k <= j, NEW range,
           \A n \in Len(l) + 1 .. Len(m) : m[n].range = range,
           range = <<0, 0>> \/ (range = <<k, j>> /\ Len(m) <= Len(l) + 1)
    PROVE  Consumed(m, j)
<1>1. Len(l) \in Nat /\ Len(m) \in Nat /\ Len(l) <= Len(m)
    BY DEF Extends
<1>2. \A n \in 1 .. Len(l) : m[n] = l[n]
    BY DEF Extends
<1>3. \A n \in 1 .. Len(l) : l[n].range[1] \in Nat /\ l[n].range[2] \in Nat
  <2> SUFFICES ASSUME NEW n \in 1 .. Len(l) PROVE l[n].range[1] \in Nat /\ l[n].range[2] \in Nat
      OBVIOUS
  <2>1. l[n].range \in Nat \X Nat
      BY TypesOf
  <2> QED
      BY <2>1
<1>4. ASSUME NEW n \in 1 .. Len(m), m[n].range # <<0, 0>>
      PROVE  \/ n \in 1 .. Len(l) /\ l[n].range # <<0, 0>> /\ m[n] = l[n] /\ l[n].range[2] <= k
             \/ n = Len(l) + 1 /\ m[n].range = <<k, j>>
  <2>1. CASE n \in 1 .. Len(l)
      BY <1>2, <1>4, <2>1 DEF Consumed
  <2>2. CASE n \notin 1 .. Len(l)
    <3>1. n \in Len(l) + 1 .. Len(m)
        BY <1>1, <2>2
    <3>2. range = <<k, j>> /\ Len(m) <= Len(l) + 1 /\ m[n].range = range
        BY <1>4, <3>1
    <3>3. n = Len(l) + 1
        BY <1>1, <3>1, <3>2
    <3> QED
        BY <3>2, <3>3
  <2> QED
      BY <2>1, <2>2
<1>5. ASSUME NEW n \in 1 .. Len(m), m[n].range # <<0, 0>> PROVE m[n].range[2] <= j
  <2>1. CASE n \in 1 .. Len(l) /\ m[n] = l[n] /\ l[n].range[2] <= k
      BY <1>3, <2>1
  <2>2. CASE m[n].range = <<k, j>>
      BY <2>2
  <2> QED
      BY <1>4, <1>5, <2>1, <2>2
<1>6. ASSUME NEW i \in 1 .. Len(m), NEW n \in 1 .. Len(m), i < n,
             m[i].range # <<0, 0>>, m[n].range # <<0, 0>>
      PROVE  m[i].range[2] <= m[n].range[1] \/ m[n].range[2] <= m[i].range[1]
  <2>1. CASE n \in 1 .. Len(l)
    <3>1. i \in 1 .. Len(l)
        BY <1>1, <1>6, <2>1
    <3> QED
        BY <1>2, <1>6, <2>1, <3>1 DEF Consumed
  <2>2. CASE n = Len(l) + 1 /\ m[n].range = <<k, j>>
    <3>1. i \in 1 .. Len(l)
        BY <1>1, <1>6, <2>2
    <3>2. i # Len(l) + 1
        BY <1>1, <3>1
    <3>3. m[i] = l[i] /\ l[i].range[2] <= k
        BY <1>4, <1>6, <3>2
    <3> QED
        BY <2>2, <3>3
  <2> QED
      BY <1>4, <1>6, <2>1, <2>2
<1> QED
    BY <1>5, <1>6 DEF Consumed

LEMMA FenceCommit ==
    ASSUME IInv, FoldInv, FoldInv', FenceInv, NEW c \in Clients, Commit(c)
    PROVE  FenceInv'
<1> DEFINE r == req[c]
           g == Receipts(tx.log, r.batch)
<1>0. CASE Rollback(c)
    BY <1>0, FenceRollback
<1>1. CASE ~Rollback(c)
  <2>1. /\ log' = tx.log /\ tx' = NoTx /\ tx.by = c
        /\ cursor' = IF r.mode = "cursor" THEN r.next ELSE cursor
        /\ req' = [req EXCEPT ![c].got = g]
        /\ CursorFence(r)
      BY <1>1 DEF Commit
  <2>2. tx # NoTx /\ WriteInv(tx)
      BY <2>1, OpenTx
  <2>3. /\ TxFence(log, tx, r) /\ TxFold(tx)
        /\ tx.log \in Seq(ControlEvents) /\ log \in Seq(ControlEvents) /\ Extends(tx.log, log)
        /\ cursor \in Nat /\ Consumed(log, cursor)
        /\ pc[c] = "writing"
      BY <2>1, <2>2 DEF FenceInv, FoldInv, WriteInv, IInv, LogInv
  <2>4. r # NoReq /\ RequestOK(r) /\ CallRanges(r)
      BY <2>3 DEF IInv, CallInv, FenceInv
  <2>5. tables' = tx.mem
    <3>1. Replayed(log') = tables'
        BY FoldedReplayed DEF FoldInv
    <3>2. Replayed(tx.log) = tx.mem
        BY <2>3, FoldedReplayed DEF TxFold
    <3> QED
        BY <2>1, <3>1, <3>2
  <2>6. GenInv(log', tables')
      BY <2>1, <2>3, <2>5 DEF TxFence
  <2>7. Consumed(log', cursor')
    <3> HIDE DEF r, g
    <3>1. \A n \in Len(log) + 1 .. Len(tx.log) : tx.log[n].range = RangeOf(r)
        BY <2>3 DEF TxFence
    <3>2. CASE r.mode = "cursor"
      <4>1. RangeOf(r) = <<cursor, r.next>> /\ cursor' = r.next /\ r.next \in Nat
              /\ cursor <= r.next
          BY <2>1, <2>4, <3>2 DEF RangeOf, CursorFence, RequestOK
      <4>2. Len(tx.log) <= Len(log) + 1
        <5>1. Len(tx.log) + Len(tx.rest) <= Len(log) + 1
            BY <2>3, <3>2 DEF TxFence
        <5>2. Len(tx.rest) \in Nat /\ Len(tx.log) \in Nat /\ Len(log) \in Nat
            BY <2>2, <2>3 DEF WriteInv
        <5> QED
            BY <5>1, <5>2, RoomLeft
      <4> QED
          BY SMTT(40), <2>1, <2>3, <3>1, <4>1, <4>2, ConsumedCommit
    <3>3. CASE r.mode # "cursor"
      <4>1. RangeOf(r) = <<0, 0>> /\ cursor' = cursor /\ cursor <= cursor
          BY <2>1, <2>3, <3>3 DEF RangeOf
      <4> QED
          BY ZenonT(40), <2>1, <2>3, <3>1, <4>1, ConsumedCommit
    <3> QED
        BY <3>2, <3>3
  <2>8. \A d \in Clients : req'[d] # NoReq => CallRanges(req'[d])
    <3> DEFINE q == [r EXCEPT !.got = g]
    <3>1. q # NoReq => CallRanges(q)
        BY <2>4, RangesKept
    <3>2. req' = [req EXCEPT ![c] = q]
        BY <2>1
    <3> HIDE DEF q
    <3>3. \A d \in Clients : req'[d] = IF d = c THEN q ELSE req[d]
        BY <3>2 DEF IInv, CallInv
    <3> QED
        BY <3>1, <3>3 DEF FenceInv
  <2> QED
      BY <2>1, <2>6, <2>7, <2>8 DEF FenceInv
<1> QED
    BY <1>0, <1>1

LEMMA FenceStep == IInv /\ FoldInv /\ FoldInv' /\ FenceInv /\ [Next]_vars => FenceInv'
<1> SUFFICES ASSUME IInv, FoldInv, FoldInv', FenceInv, [Next]_vars PROVE FenceInv'
    OBVIOUS
<1>1. CASE UNCHANGED vars
    BY <1>1 DEF vars, FenceInv
<1>2. CASE Next
  <2>1. PICK c \in Clients :
            \/ CreateFile(c) \/ StampFile(c) \/ Bootstrap(c) \/ OpenExisting(c)
            \/ CallAppend(c) \/ CallConsume(c) \/ CallSkip(c)
            \/ BeginTx(c) \/ StaleHead(c) \/ StoreBusy(c)
            \/ MeetEvent(c) \/ InsertEvent(c) \/ Commit(c) \/ SqliteFails(c)
            \/ Return(c)
            \/ createSnapshot(c)
            \/ RebuildRead(c) \/ RebuildReplay(c) \/ RebuildWrite(c)
            \/ Crash(c) \/ Close(c)
      BY <1>2 DEF Next
  <2> QED
      BY <2>1, FenceStill, FenceCalls, FenceBegin, FenceEnds, FenceTake, FenceCommit
<1> QED
    BY <1>1, <1>2

\* appendBatchIf, validateFences and appendBatchWithCursor together: whatever callers have read
\* before others wrote, died or repeated a call, nothing is added over a head that moved, for a
\* generation that has ended or for a range of events that was consumed before.
THEOREM WritersAlwaysFenced == Spec => []WritersFenced
<1>1. IInv /\ FenceInv => WritersFenced
    BY DEF IInv, RestInv, FenceInv, GenInv, Late, Consumed, WritersFenced, HeadFenced,
           StaleWritersFenced, ConsumedOnce
<1>2. Init => IInv /\ FoldInv /\ FenceInv
    BY InitInv, FoldInit, FenceInit
<1>3. (IInv /\ FoldInv /\ FenceInv) /\ [Next]_vars => (IInv /\ FoldInv /\ FenceInv)'
    BY StepInv, FoldStep, FenceStep
<1> QED
    BY <1>1, <1>2, <1>3, PTL DEF Spec
=============================================================================
