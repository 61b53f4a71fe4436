----------------------------- MODULE RunStreamProofs -----------------------------
(* Proofs about RunStream and RunPresentation, for every value of the constants, *)
(* and any order in which events arrive.                                         *)
EXTENDS RunStream, FiniteSetTheorems, SequenceTheorems, WellFoundedInduction, TLAPS

LEMMA NaturalsHaveMin ==
  ASSUME NEW S \in SUBSET Nat, S # {}
  PROVE  \E x \in S : \A y \in S : x <= y
<1>1. PICK x \in S : \A y \in S : <<y, x>> \notin OpToRel(<, Nat)
  BY NatLessThanWellFounded, WFMin
<1>2. \A y \in S : ~(y < x)
  BY <1>1 DEF OpToRel
<1> QED BY <1>2

\* What holds of 0 and goes from each number to the next holds up to n.
LEMMA IntervalInduction ==
  ASSUME NEW n \in Nat, NEW P, 0 \in P, \A i \in 0..(n - 1) : i \in P => i + 1 \in P
  PROVE  0..n \subseteq P
<1> DEFINE S == (0..n) \ P
<1>1. SUFFICES ASSUME S # {} PROVE FALSE
  OBVIOUS
<1>2. S \in SUBSET Nat
  OBVIOUS
<1>3. PICK m \in S : \A y \in S : m <= y
  <2> HIDE DEF S
  <2> QED BY <1>1, <1>2, NaturalsHaveMin
<1>4. m - 1 \in 0..(n - 1) /\ m - 1 \notin S
  BY <1>3
<1>5. m \in P
  BY <1>3, <1>4
<1> QED BY <1>3, <1>5

-------------------------------------------------------------------------------
(* What a page makes of an event *)

IsActive(a) == a = [run |-> a.run, draft |-> a.draft, said |-> a.said, calls |-> a.calls, asked |-> a.asked]
IsView(v) ==
  /\ v = [committed |-> v.committed, active |-> v.active, status |-> v.status, last |-> v.last,
          resync |-> v.resync, terminal |-> v.terminal, erred |-> v.erred, late |-> v.late]
  /\ v.last \in Nat /\ {v.resync, v.erred, v.late} \subseteq BOOLEAN
  /\ v.active # None => IsActive(v.active)

\* the event of every kind has an effect of its own on the Run that is shown
Kinds == {"run_started", "message_started", "delta", "reset", "committed", "tool_started",
          "progress", "tool_finished", "asked", "answered", "run_finished", "stream_error"}
Ending == {"run_finished", "stream_error"}

\* a view of the Run a and of nothing else
Blank(a) == [committed |-> {}, active |-> a, status |-> "idle", last |-> 0, resync |-> FALSE,
             terminal |-> FALSE, erred |-> FALSE, late |-> FALSE]

\* What an event makes of the Run that is shown.
ActiveAfter(a, r, e) == ApplyEvent(Blank(a), r, e).active

\* What v, which shows the Run a, becomes with an event: a page takes note of what it misses
\* and goes on; only the end of the Run puts that away.
TakesIn(v, a, r, e, w) ==
  /\ w.active = ActiveAfter(a, r, e)
  /\ e.kind \in Ending => w.active = None
  /\ e.kind \notin Ending =>
       /\ w.erred = v.erred /\ (v.resync => w.resync) /\ IsActive(w.active)
       /\ w.active.run = IF e.kind = "run_started" THEN r ELSE a.run
       /\ e.kind = "run_started" => w.active = [a EXCEPT !.run = r]

LEMMA AnEventIsApplied ==
  ASSUME NEW v, IsView(v), IsActive(v.active), NEW r, NEW e, NEW w, w = ApplyEvent(v, r, e)
  PROVE  IsView(w) /\ w.last = v.last /\ w.late = v.late /\ TakesIn(v, v.active, r, e, w)
<1>1. CASE e.kind = "run_started"
  BY <1>1 DEF TakesIn, ApplyEvent, ActiveAfter, Blank, IsView, IsActive, Ending
<1>2. CASE e.kind = "message_started"
  BY <1>2 DEF TakesIn, ApplyEvent, ActiveAfter, Blank, IsView, IsActive, Ending
<1>3. CASE e.kind = "delta"
  BY <1>3 DEF TakesIn, ApplyEvent, ActiveAfter, Blank, IsView, IsActive, Ending, Drafts, Resync
<1>4. CASE e.kind = "reset"
  BY <1>4 DEF TakesIn, ApplyEvent, ActiveAfter, Blank, IsView, IsActive, Ending, Drafts, Resync
<1>5. CASE e.kind = "committed"
  BY <1>5 DEF TakesIn, ApplyEvent, ActiveAfter, Blank, IsView, IsActive, Ending
<1>6. CASE e.kind = "tool_started"
  BY <1>6 DEF TakesIn, ApplyEvent, ActiveAfter, Blank, IsView, IsActive, Ending
<1>7. CASE e.kind \in {"progress", "tool_finished"}
  BY <1>7 DEF TakesIn, ApplyEvent, ActiveAfter, Blank, IsView, IsActive, Ending, Resync
<1>8. CASE e.kind = "asked"
  BY <1>8 DEF TakesIn, ApplyEvent, ActiveAfter, Blank, IsView, IsActive, Ending
<1>9. CASE e.kind = "answered"
  BY <1>9 DEF TakesIn, ApplyEvent, ActiveAfter, Blank, IsView, IsActive, Ending, Resync
<1>10. CASE e.kind = "run_finished"
  BY <1>10 DEF TakesIn, ApplyEvent, ActiveAfter, Blank, IsView, IsActive, Ending
<1>11. CASE e.kind = "stream_error"
  BY <1>11 DEF TakesIn, ApplyEvent, ActiveAfter, Blank, IsView, IsActive, Ending, Fail
<1>12. CASE e.kind \notin Kinds
  BY <1>12 DEF TakesIn, ApplyEvent, ActiveAfter, Blank, IsView, IsActive, Ending, Kinds
<1> QED BY <1>1, <1>2, <1>3, <1>4, <1>5, <1>6, <1>7, <1>8, <1>9, <1>10, <1>11, <1>12 DEF Kinds

\* The loops of the page, the chain and a new connection over a sequence: each takes its
\* elements one after the other.
OneStep(how, x, e) ==
  CASE how.op = "reduce" -> Reduce(x, e)
    [] how.op = "publish" -> Published(x, how.run, e)
    [] how.op = "replay" -> x \o Replay(e, IF e = how.run THEN how.after ELSE 0)
    [] how.op = "write" -> [q |-> Write(x.q, e), full |-> x.full \/ Overflows(x.q, e)]

HasSteps(how, v, es, n) ==
  \E f : /\ f = [i \in 0..n |-> f[i]] /\ f[0] = v
        /\ \A i \in 1..n : f[i] = OneStep(how, f[i - 1], es[i])

LEMMA StepsExist == ASSUME NEW how, NEW v, NEW es, NEW n \in Nat PROVE HasSteps(how, v, es, n)
<1> DEFINE Op(x, i) == OneStep(how, x, es[i])
           Goes(f, k) == f = [i \in 0..k |-> f[i]] /\ f[0] = v /\ \A i \in 1..k : f[i] = Op(f[i - 1], i)
           P == {k \in 0..n : \E f : Goes(f, k)}
<1>1. n \in Nat
  OBVIOUS
<1> HIDE DEF Op
<1>2. 0 \in P
  <2> DEFINE h == [i \in 0..0 |-> v]
  <2>1. h = [i \in 0..0 |-> h[i]] /\ h[0] = v /\ \A i \in 1..0 : FALSE
    OBVIOUS
  <2> HIDE DEF h
  <2> QED BY <1>1, <2>1
<1>3. ASSUME NEW k \in 0..(n - 1), k \in P PROVE k + 1 \in P
  <2>1. PICK f : Goes(f, k)
    BY <1>3
  <2> HIDE DEF P, Goes
  <2>2. k \in Nat /\ k + 1 \in 0..n
    BY <1>1, <1>3
  <2> DEFINE h == [i \in 0..(k + 1) |-> IF i <= k THEN f[i] ELSE Op(f[k], k + 1)]
  <2>3. (\A i \in 0..k : h[i] = f[i]) /\ h[k + 1] = Op(f[k], k + 1)
    BY <2>2
  <2>4. h = [i \in 0..(k + 1) |-> h[i]]
    OBVIOUS
  <2> HIDE DEF h
  <2>5. ASSUME NEW i \in 1..(k + 1) PROVE h[i] = Op(h[i - 1], i)
    <3>1. i - 1 \in 0..k /\ h[i - 1] = f[i - 1]
      BY <2>2, <2>3
    <3>2. CASE i = k + 1
      BY <2>2, <2>3, <3>1, <3>2
    <3>3. CASE i \in 1..k
      <4>1. h[i] = f[i]
        BY <2>2, <2>3, <3>3
      <4> QED BY <2>1, <3>1, <3>3, <4>1 DEF Goes
    <3> QED BY <2>2, <3>2, <3>3
  <2>6. h[0] = v
    BY <2>1, <2>2, <2>3 DEF Goes
  <2>7. Goes(h, k + 1)
    BY <2>4, <2>5, <2>6 DEF Goes
  <2> QED BY <2>2, <2>7 DEF P
<1>4. PICK f : Goes(f, n)
  <2> HIDE DEF P
  <2>1. 0..n \subseteq P
    BY <1>1, <1>2, <1>3, IntervalInduction
  <2>2. n \in P
    BY <1>1, <2>1
  <2> QED BY <2>2 DEF P
<1> QED BY <1>4 DEF Op, HasSteps

\* The page reduces a sequence of events (ReduceAll).
Reducing(v, es, n) == \E f : /\ f[0] = v /\ f[n] = ReduceAll(v, es)
                            /\ \A i \in 1..n : f[i] = Reduce(f[i - 1], es[i])

LEMMA ReducingSteps == ASSUME NEW v, NEW es, NEW n \in Nat, n = Len(es) PROVE Reducing(v, es, n)
<1> DEFINE how == [op |-> "reduce"]
           Chosen(f, i) == CHOOSE x \in {Reduce(before, es[i]) : before \in {f[i - 1]}} : TRUE
           F == CHOOSE f : f = [i \in 0..n |-> IF i = 0 THEN v ELSE Chosen(f, i)]
<1>1. ReduceAll(v, es) = F[n]
  BY DEF ReduceAll, FoldEvents
<1>2. ASSUME NEW f, NEW i PROVE Chosen(f, i) = OneStep(how, f[i - 1], es[i])
  BY DEF OneStep
<1>3. n \in Nat /\ n = Len(es)
  OBVIOUS
<1> HIDE DEF how, Chosen
<1>4. PICK f : /\ f = [i \in 0..n |-> f[i]] /\ f[0] = v
               /\ \A i \in 1..n : f[i] = OneStep(how, f[i - 1], es[i])
  <2>1. HasSteps(how, v, es, n)
    BY <1>3, StepsExist
  <2> QED BY <2>1 DEF HasSteps
<1>5. f = [i \in 0..n |-> IF i = 0 THEN v ELSE Chosen(f, i)]
  <2>1. ASSUME NEW i \in 0..n PROVE f[i] = IF i = 0 THEN v ELSE Chosen(f, i)
    <3>1. i = 0 \/ i \in 1..n
      BY <1>3
    <3> QED BY <1>2, <1>4, <3>1
  <2> QED BY <1>4, <2>1
<1>6. F = [i \in 0..n |-> IF i = 0 THEN v ELSE Chosen(F, i)]
  BY <1>5
<1> HIDE DEF F
<1>7. F[0] = v
  BY <1>3, <1>6
<1>8. ASSUME NEW i \in 1..n PROVE F[i] = Reduce(F[i - 1], es[i])
  <2>1. i \in 0..n /\ i # 0
    BY <1>3
  <2>2. F[i] = Chosen(F, i)
    BY <1>6, <2>1
  <2> QED BY <2>2 DEF Chosen
<1> QED BY <1>1, <1>7, <1>8 DEF Reducing

\* The chain publishes payloads of a Run.
Publishing(v, r, es, n) == \E f : /\ f[0] = v /\ f[n] = PublishSeq(v, r, es)
                                 /\ \A i \in 1..n : f[i] = Published(f[i - 1], r, es[i])

LEMMA PublishingSteps == ASSUME NEW r, NEW v, NEW es, NEW n \in Nat, n = Len(es) PROVE Publishing(v, r, es, n)
<1> DEFINE how == [op |-> "publish", run |-> r]
           Chosen(f, i) == CHOOSE x \in {Published(before, r, es[i]) : before \in {f[i - 1]}} : TRUE
           F == CHOOSE f : f = [i \in 0..n |-> IF i = 0 THEN v ELSE Chosen(f, i)]
<1>1. PublishSeq(v, r, es) = F[n]
  BY DEF PublishSeq, FoldEvents
<1>2. ASSUME NEW f, NEW i PROVE Chosen(f, i) = OneStep(how, f[i - 1], es[i])
  BY DEF OneStep
<1>3. n \in Nat /\ n = Len(es)
  OBVIOUS
<1> HIDE DEF how, Chosen
<1>4. PICK f : /\ f = [i \in 0..n |-> f[i]] /\ f[0] = v
               /\ \A i \in 1..n : f[i] = OneStep(how, f[i - 1], es[i])
  <2>1. HasSteps(how, v, es, n)
    BY <1>3, StepsExist
  <2> QED BY <2>1 DEF HasSteps
<1>5. f = [i \in 0..n |-> IF i = 0 THEN v ELSE Chosen(f, i)]
  <2>1. ASSUME NEW i \in 0..n PROVE f[i] = IF i = 0 THEN v ELSE Chosen(f, i)
    <3>1. i = 0 \/ i \in 1..n
      BY <1>3
    <3> QED BY <1>2, <1>4, <3>1
  <2> QED BY <1>4, <2>1
<1>6. F = [i \in 0..n |-> IF i = 0 THEN v ELSE Chosen(F, i)]
  BY <1>5
<1> HIDE DEF F
<1>7. F[0] = v
  BY <1>3, <1>6
<1>8. ASSUME NEW i \in 1..n PROVE F[i] = Published(F[i - 1], r, es[i])
  <2>1. i \in 0..n /\ i # 0
    BY <1>3
  <2>2. F[i] = Chosen(F, i)
    BY <1>6, <2>1
  <2> QED BY <2>2 DEF Chosen
<1> QED BY <1>1, <1>7, <1>8 DEF Publishing

\* A connection is given the replays of a chain's Runs ...
Replaying(es, r, m, n) ==
  \E f : /\ f[0] = <<>> /\ f[n] = Replays(es, r, m)
        /\ \A i \in 1..n : f[i] = f[i - 1] \o Replay(es[i], IF es[i] = r THEN m ELSE 0)

LEMMA ReplayingSteps == ASSUME NEW r, NEW m, NEW es, NEW n \in Nat, n = Len(es) PROVE Replaying(es, r, m, n)
<1> DEFINE how == [op |-> "replay", run |-> r, after |-> m]
           Chosen(f, i) == CHOOSE x \in {before \o Replay(es[i], IF es[i] = r THEN m ELSE 0) : before \in {f[i - 1]}} : TRUE
           F == CHOOSE f : f = [i \in 0..n |-> IF i = 0 THEN <<>> ELSE Chosen(f, i)]
<1>1. Replays(es, r, m) = F[n]
  BY DEF Replays, FoldEvents
<1>2. ASSUME NEW f, NEW i PROVE Chosen(f, i) = OneStep(how, f[i - 1], es[i])
  <2>1. how.op = "replay" /\ how.run = r /\ how.after = m
    OBVIOUS
  <2>2. Chosen(f, i) = f[i - 1] \o Replay(es[i], IF es[i] = r THEN m ELSE 0)
    <3> DEFINE g == Replay(es[i], IF es[i] = r THEN m ELSE 0)
    <3>1. Chosen(f, i) = CHOOSE x \in {before \o g : before \in {f[i - 1]}} : TRUE
      OBVIOUS
    <3> HIDE DEF g, Chosen
    <3>2. Chosen(f, i) = f[i - 1] \o g
      BY <3>1
    <3> QED BY <3>2 DEF g
  <2> HIDE DEF how, Chosen
  <2>3. OneStep(how, f[i - 1], es[i]) = f[i - 1] \o Replay(es[i], IF es[i] = r THEN m ELSE 0)
    BY <2>1 DEF OneStep
  <2> QED BY <2>2, <2>3
<1>3. n \in Nat /\ n = Len(es)
  OBVIOUS
<1> HIDE DEF how, Chosen
<1>4. PICK f : /\ f = [i \in 0..n |-> f[i]] /\ f[0] = <<>>
               /\ \A i \in 1..n : f[i] = OneStep(how, f[i - 1], es[i])
  <2>1. HasSteps(how, <<>>, es, n)
    BY <1>3, StepsExist
  <2> QED BY <2>1 DEF HasSteps
<1>5. f = [i \in 0..n |-> IF i = 0 THEN <<>> ELSE Chosen(f, i)]
  <2>1. ASSUME NEW i \in 0..n PROVE f[i] = IF i = 0 THEN <<>> ELSE Chosen(f, i)
    <3>1. i = 0 \/ i \in 1..n
      BY <1>3
    <3> QED BY <1>2, <1>4, <3>1
  <2> QED BY <1>4, <2>1
<1>6. F = [i \in 0..n |-> IF i = 0 THEN <<>> ELSE Chosen(F, i)]
  BY <1>5
<1> HIDE DEF F
<1>7. F[0] = <<>>
  BY <1>3, <1>6
<1>8. ASSUME NEW i \in 1..n PROVE F[i] = F[i - 1] \o Replay(es[i], IF es[i] = r THEN m ELSE 0)
  <2>1. i \in 0..n /\ i # 0
    BY <1>3
  <2>2. F[i] = Chosen(F, i)
    BY <1>6, <2>1
  <2> QED BY <2>2 DEF Chosen
<1> QED BY <1>1, <1>7, <1>8 DEF Replaying

\* ... and takes them one after the other.
Written(x, e) == [q |-> Write(x.q, e), full |-> x.full \/ Overflows(x.q, e)]
Writing(es, n) == \E f : /\ f[0] = [q |-> <<>>, full |-> FALSE] /\ f[n] = WriteAll(es)
                        /\ \A i \in 1..n : f[i] = Written(f[i - 1], es[i])

LEMMA WritingSteps == ASSUME NEW es, NEW n \in Nat, n = Len(es) PROVE Writing(es, n)
<1> DEFINE how == [op |-> "write"]
           none == [q |-> <<>>, full |-> FALSE]
           Chosen(f, i) == CHOOSE x \in {[q |-> Write(before.q, es[i]), full |-> before.full \/ Overflows(before.q, es[i])] : before \in {f[i - 1]}} : TRUE
           F == CHOOSE f : f = [i \in 0..n |-> IF i = 0 THEN none ELSE Chosen(f, i)]
<1>1. WriteAll(es) = F[n]
  BY DEF WriteAll, FoldEvents
<1>2. ASSUME NEW f, NEW i PROVE Chosen(f, i) = OneStep(how, f[i - 1], es[i])
  BY DEF OneStep
<1>3. n \in Nat /\ n = Len(es)
  OBVIOUS
<1> HIDE DEF how, none, Chosen
<1>4. PICK f : /\ f = [i \in 0..n |-> f[i]] /\ f[0] = none
               /\ \A i \in 1..n : f[i] = OneStep(how, f[i - 1], es[i])
  <2>1. HasSteps(how, none, es, n)
    BY <1>3, StepsExist
  <2> QED BY <2>1 DEF HasSteps
<1>5. f = [i \in 0..n |-> IF i = 0 THEN none ELSE Chosen(f, i)]
  <2>1. ASSUME NEW i \in 0..n PROVE f[i] = IF i = 0 THEN none ELSE Chosen(f, i)
    <3>1. i = 0 \/ i \in 1..n
      BY <1>3
    <3> QED BY <1>2, <1>4, <3>1
  <2> QED BY <1>4, <2>1
<1>6. F = [i \in 0..n |-> IF i = 0 THEN none ELSE Chosen(F, i)]
  BY <1>5
<1> HIDE DEF F
<1>7. F[0] = none
  BY <1>3, <1>6
<1>8. ASSUME NEW i \in 1..n PROVE F[i] = [q |-> Write(F[i - 1].q, es[i]), full |-> F[i - 1].full \/ Overflows(F[i - 1].q, es[i])]
  <2>1. i \in 0..n /\ i # 0
    BY <1>3
  <2>2. F[i] = Chosen(F, i)
    BY <1>6, <2>1
  <2> QED BY <2>2 DEF Chosen
<1> QED BY <1>1, <1>7, <1>8 DEF none, Writing, Written

LEMMA FreshIsActive ==
  ASSUME NEW r
  PROVE  IsActive(FreshRun(r)) /\ FreshRun(r).run = r
BY DEF FreshRun, IsActive

LEMMA FreshIsRenamed == ASSUME NEW x, NEW r PROVE [FreshRun(x) EXCEPT !.run = r] = FreshRun(r)
BY DEF FreshRun

\* An event whose turn it is, is applied to the Run that is shown.
LEMMA AnEventInTurn ==
  ASSUME NEW v, IsView(v), NEW r, NEW e, e.run = r, e.seq = v.last + 1,
         v.active = None \/ v.active.run \in {Pending, r},
         ~(e.event.kind = "run_started" /\ v.active = None /\ v.terminal),
         NEW a, a = IF v.active = None THEN FreshRun(r) ELSE v.active, NEW w, w = Reduce(v, e)
  PROVE  /\ IsView(w) /\ w.last = e.seq /\ w.late = (v.late \/ (v.active = None /\ v.last > 0))
         /\ TakesIn(v, a, r, e.event, w)
<1> DEFINE behind == v.late \/ (v.active = None /\ v.last > 0)
           misses == v.resync \/ FALSE
           base == [v EXCEPT !.active = a, !.last = e.seq, !.resync = misses, !.late = behind]
<1>1. IsActive(a) /\ a.run \in {Pending, r} /\ v.last \in Nat
  BY FreshIsActive DEF IsView
<1>2. behind \in BOOLEAN /\ v.resync \in BOOLEAN /\ v.erred \in BOOLEAN /\ v.late \in BOOLEAN
  BY DEF IsView
<1>3. Reduce(v, e) = ApplyEvent(base, r, e.event)
  <2>1. (e.seq # v.last + 1) = FALSE /\ ~(e.seq <= v.last)
    BY <1>1
  <2>2. (e.event.kind = "run_started" /\ e.seq = 1 /\ v.active = None /\ v.terminal) = FALSE
    OBVIOUS
  <2> QED BY <1>1, <2>1, <2>2 DEF Reduce
<1> HIDE DEF behind, misses
<1>4. base = [v EXCEPT !.active = a, !.last = e.seq, !.resync = misses, !.late = behind]
  OBVIOUS
<1> HIDE DEF base
<1>5. /\ base = [committed |-> base.committed, active |-> base.active, status |-> base.status, last |-> base.last,
                 resync |-> base.resync, terminal |-> base.terminal, erred |-> base.erred, late |-> base.late]
      /\ base.active = a /\ base.last = e.seq /\ base.resync = misses /\ base.erred = v.erred /\ base.late = behind
  BY <1>4 DEF IsView
<1>6. base.resync = v.resync
  BY <1>2, <1>5 DEF misses
<1>7. IsView(base)
  BY <1>1, <1>2, <1>5, <1>6 DEF IsView
<1>8. IsView(w) /\ w.last = base.last /\ w.late = base.late /\ TakesIn(base, base.active, r, e.event, w)
  BY <1>1, <1>3, <1>5, <1>7, AnEventIsApplied
<1>9. TakesIn(v, a, r, e.event, w)
  BY <1>5, <1>6, <1>8 DEF TakesIn
<1> QED BY <1>5, <1>8, <1>9 DEF behind

-------------------------------------------------------------------------------
(* What a Run has let out *)

IsSeq(s) == \E S : s \in Seq(S)

\* A Run's events are numbered from 1 on, and run_started is the first.
LogOK(lg) ==
  DOMAIN lg = Runs /\ \A r \in Runs : IsSeq(lg[r]) /\ \A i \in 1..Len(lg[r]) :
    lg[r][i].run = r /\ lg[r][i].seq = i /\ (lg[r][i].event.kind = "run_started" <=> i = 1)

LEMMA SeqFacts ==
  ASSUME NEW s, IsSeq(s)
  PROVE  Len(s) \in Nat /\ DOMAIN s = 1..Len(s) /\ (s # <<>> <=> Len(s) > 0)
<1>1. PICK S : s \in Seq(S)
  BY DEF IsSeq
<1> QED BY <1>1, LenProperties, EmptySeq

\* a page that starts with r and is given the first n events of its log
Leading(f, lg, r, n) ==
  /\ IsView(f[0]) /\ f[0].active = FreshRun(r) /\ f[0].last = 0 /\ f[0].terminal = FALSE
  /\ \A i \in 1..n : f[i] = Reduce(f[i - 1], lg[r][i])
Leads(lg, r, n, a) == \E f : Leading(f, lg, r, n) /\ f[n].active = a

\* the part of a page that the next event of r depends on
Follows(v, r, n) == IsView(v) /\ v.last = n /\ (v.active = None \/ v.active.run = r)
Then(a, r, e) == ActiveAfter(IF a = None THEN FreshRun(r) ELSE a, r, e)

LEMMA ALogGoesOn ==
  ASSUME NEW lg, LogOK(lg), NEW r \in Runs, NEW i \in 1..Len(lg[r]), NEW v, Follows(v, r, i - 1),
         i = 1 => v.terminal = FALSE
  PROVE  Follows(Reduce(v, lg[r][i]), r, i)
         /\ Reduce(v, lg[r][i]).active = Then(v.active, r, lg[r][i].event)
<1> DEFINE e == lg[r][i]
<1>1. e.run = r /\ e.seq = i /\ (e.event.kind = "run_started" <=> i = 1)
  BY DEF LogOK
<1>9. i \in Nat /\ i = (i - 1) + 1
  <2>1. Len(lg[r]) \in Nat
    BY SeqFacts DEF LogOK
  <2> QED BY <2>1
<1> HIDE DEF e
<1>2. ~(e.event.kind = "run_started" /\ v.active = None /\ v.terminal)
  BY <1>1
<1>3. IsView(v) /\ v.last = i - 1 /\ e.seq = v.last + 1 /\ (v.active = None \/ v.active.run = r)
  BY <1>1, <1>9 DEF Follows
<1> DEFINE a == IF v.active = None THEN FreshRun(r) ELSE v.active
           w == Reduce(v, e)
<1>4. a.run = r
  BY <1>3, FreshIsActive
<1>5. IsView(w) /\ w.last = e.seq /\ TakesIn(v, a, r, e.event, w)
  <2>1. v.active = None \/ v.active.run \in {Pending, r}
    BY <1>3
  <2> HIDE DEF a, w
  <2>2. a = (IF v.active = None THEN FreshRun(r) ELSE v.active) /\ w = Reduce(v, e)
    BY DEF a, w
  <2> QED BY <1>1, <1>2, <1>3, <2>1, <2>2, AnEventInTurn
<1> HIDE DEF w
<1>6. w.active = Then(v.active, r, e.event)
  BY <1>5 DEF Then, TakesIn
<1> HIDE DEF a
<1>7. Follows(w, r, i)
  BY <1>1, <1>4, <1>5 DEF Follows, TakesIn
<1> QED BY <1>6, <1>7 DEF e, w

LEMMA LeadingFollows ==
  ASSUME NEW lg, LogOK(lg), NEW r \in Runs, NEW n \in 0..Len(lg[r]), NEW f, Leading(f, lg, r, n)
  PROVE  \A i \in 0..n : Follows(f[i], r, i)
<1> DEFINE P == {i \in 0..n : Follows(f[i], r, i)}
<1>1. n \in Nat /\ n <= Len(lg[r]) /\ Len(lg[r]) \in Nat
  BY SeqFacts DEF LogOK
<1>2. 0 \in P
  BY <1>1, FreshIsActive DEF Leading, Follows
<1>3. ASSUME NEW i \in 0..(n - 1), i \in P PROVE i + 1 \in P
  <2>1. i + 1 \in 1..Len(lg[r]) /\ i + 1 \in 1..n /\ (i + 1) - 1 = i /\ i + 1 \in 0..n /\ (i + 1 = 1 => i = 0)
    BY <1>1, <1>3
  <2>2. f[i + 1] = Reduce(f[i], lg[r][i + 1]) /\ (i = 0 => f[i].terminal = FALSE)
    BY <2>1 DEF Leading
  <2>3. Follows(f[i], r, (i + 1) - 1)
    BY <1>3, <2>1
  <2>4. Follows(f[i + 1], r, i + 1)
    BY <2>1, <2>2, <2>3, ALogGoesOn
  <2> QED BY <2>1, <2>4
<1> HIDE DEF P
<1>4. 0..n \subseteq P
  BY <1>1, <1>2, <1>3, IntervalInduction
<1> QED BY <1>4 DEF P

\* It is one page.
LEMMA LeadsAgree ==
  ASSUME NEW lg, LogOK(lg), NEW r \in Runs, NEW n \in 0..Len(lg[r]), NEW a, NEW b,
         Leads(lg, r, n, a), Leads(lg, r, n, b)
  PROVE  a = b
<1>1. PICK f : Leading(f, lg, r, n) /\ f[n].active = a
  BY DEF Leads
<1>2. PICK g : Leading(g, lg, r, n) /\ g[n].active = b
  BY DEF Leads
<1>3. /\ \A i \in 0..n : Follows(f[i], r, i)
      /\ \A i \in 0..n : Follows(g[i], r, i)
  BY <1>1, <1>2, LeadingFollows
<1> DEFINE P == {i \in 0..n : f[i].active = g[i].active}
<1>4. n \in Nat /\ n <= Len(lg[r]) /\ Len(lg[r]) \in Nat
  BY SeqFacts DEF LogOK
<1>5. 0 \in P
  BY <1>1, <1>2, <1>4 DEF Leading
<1>6. ASSUME NEW i \in 0..(n - 1), i \in P PROVE i + 1 \in P
  <2>1. i + 1 \in 1..Len(lg[r]) /\ i + 1 \in 1..n /\ (i + 1) - 1 = i /\ i \in 0..n /\ i + 1 \in 0..n
    BY <1>4, <1>6
  <2>2. f[i + 1] = Reduce(f[i], lg[r][i + 1]) /\ g[i + 1] = Reduce(g[i], lg[r][i + 1])
    BY <1>1, <1>2, <2>1 DEF Leading
  <2>3. i + 1 = 1 => f[i].terminal = FALSE /\ g[i].terminal = FALSE
    <3>1. i + 1 = 1 => i = 0
      BY <1>4, <1>6
    <3> QED BY <1>1, <1>2, <3>1 DEF Leading
  <2>4. Follows(f[i], r, (i + 1) - 1) /\ Follows(g[i], r, (i + 1) - 1)
    BY <1>3, <2>1
  <2>5. /\ f[i + 1].active = Then(f[i].active, r, lg[r][i + 1].event)
        /\ g[i + 1].active = Then(g[i].active, r, lg[r][i + 1].event)
    BY <2>1, <2>2, <2>3, <2>4, ALogGoesOn
  <2> QED BY <1>6, <2>1, <2>5
<1> HIDE DEF P
<1>7. 0..n \subseteq P
  BY <1>4, <1>5, <1>6, IntervalInduction
<1>8. n \in P
  BY <1>4, <1>7
<1> QED BY <1>1, <1>2, <1>8 DEF P

\* One more event.
LEMMA LeadsOn ==
  ASSUME NEW lg, LogOK(lg), NEW r \in Runs, NEW n \in Nat, n + 1 \in 1..Len(lg[r]), NEW a, Leads(lg, r, n, a)
  PROVE  Leads(lg, r, n + 1, Then(a, r, lg[r][n + 1].event))
<1>1. PICK f : Leading(f, lg, r, n) /\ f[n].active = a
  BY DEF Leads
<1>2. n \in 0..Len(lg[r]) /\ (n + 1) - 1 = n /\ n \in 0..n /\ (n + 1 = 1 => n = 0)
  BY SeqFacts DEF LogOK
<1>3. Follows(f[n], r, (n + 1) - 1)
  BY <1>1, <1>2, LeadingFollows
<1> DEFINE g == [i \in 0..(n + 1) |-> IF i <= n THEN f[i] ELSE Reduce(f[n], lg[r][n + 1])]
<1>4. (\A i \in 0..n : g[i] = f[i]) /\ g[n + 1] = Reduce(f[n], lg[r][n + 1])
  OBVIOUS
<1> HIDE DEF g
<1>5. g[0] = f[0]
  BY <1>4
<1>6. ASSUME NEW i \in 1..(n + 1) PROVE g[i] = Reduce(g[i - 1], lg[r][i])
  <2>1. CASE i = n + 1
    BY <1>4, <2>1
  <2>2. CASE i \in 1..n
    <3>1. g[i] = f[i] /\ g[i - 1] = f[i - 1]
      BY <1>4, <2>2
    <3> QED BY <1>1, <2>2, <3>1 DEF Leading
  <2> QED BY <2>1, <2>2
<1>7. Leading(g, lg, r, n + 1)
  BY <1>1, <1>5, <1>6 DEF Leading
<1>8. n + 1 = 1 => f[n].terminal = FALSE
  BY <1>1, <1>2 DEF Leading
<1>9. g[n + 1].active = Then(a, r, lg[r][n + 1].event)
  <2>1. Reduce(f[n], lg[r][n + 1]).active = Then(f[n].active, r, lg[r][n + 1].event)
    BY <1>3, <1>8, ALogGoesOn
  <2> QED BY <1>1, <1>4, <2>1
<1> QED BY <1>7, <1>9 DEF Leads

LEMMA LeadsFirst ==
  ASSUME NEW lg, LogOK(lg), NEW r \in Runs, lg[r] # <<>>
  PROVE  1 \in 1..Len(lg[r]) /\ Leads(lg, r, 1, FreshRun(r))
<1>1. 1 \in 1..Len(lg[r]) /\ 0 + 1 = 1 /\ lg[r][1].event.kind = "run_started"
  BY SeqFacts DEF LogOK
<1> DEFINE v == Blank(FreshRun(r))
           f == [i \in 0..0 |-> v]
<1>2. IsView(v) /\ v.active = FreshRun(r) /\ v.last = 0 /\ v.terminal = FALSE
  BY FreshIsActive DEF Blank, IsView
<1>3. f[0] = v /\ \A i \in 1..0 : FALSE
  OBVIOUS
<1> HIDE DEF f, v
<1>4. Leads(lg, r, 0, FreshRun(r))
  BY <1>2, <1>3 DEF Leads, Leading
<1>5. Leads(lg, r, 1, Then(FreshRun(r), r, lg[r][1].event))
  BY <1>1, <1>4, LeadsOn
<1>6. Then(FreshRun(r), r, lg[r][1].event) = FreshRun(r)
  <2>1. Then(FreshRun(r), r, lg[r][1].event) = ActiveAfter(v.active, r, lg[r][1].event)
    BY <1>2 DEF Then
  <2> DEFINE e == lg[r][1].event
  <2>2. e.kind = "run_started" /\ e.kind \notin Ending
    BY <1>1 DEF Ending
  <2> HIDE DEF e
  <2>3. ActiveAfter(v.active, r, e) = [v.active EXCEPT !.run = r]
    <3> DEFINE w == ApplyEvent(v, r, e)
    <3>1. w = ApplyEvent(v, r, e) /\ IsActive(v.active)
      BY <1>2, FreshIsActive
    <3> HIDE DEF w
    <3>2. TakesIn(v, v.active, r, e, w)
      BY <1>2, <3>1, AnEventIsApplied
    <3> QED BY <2>2, <3>2 DEF TakesIn
  <2> QED BY <1>2, <2>1, <2>3, FreshIsRenamed DEF e
<1> QED BY <1>1, <1>5, <1>6

\* What a log grows by is behind what it has.
Grows(lg, more) ==
  \A r \in Runs : /\ IsSeq(more[r]) /\ Len(lg[r]) <= Len(more[r])
                  /\ \A i \in 1..Len(lg[r]) : more[r][i] = lg[r][i]

LEMMA LeadsStand ==
  ASSUME NEW lg, LogOK(lg), NEW more, Grows(lg, more), NEW r \in Runs, NEW n \in 0..Len(lg[r]), NEW a,
         Leads(lg, r, n, a)
  PROVE  Leads(more, r, n, a)
<1>1. PICK f : Leading(f, lg, r, n) /\ f[n].active = a
  BY DEF Leads
<1>2. \A i \in 1..n : more[r][i] = lg[r][i]
  BY SeqFacts DEF Grows, LogOK
<1>3. Leading(f, more, r, n)
  BY <1>1, <1>2 DEF Leading
<1> QED BY <1>1, <1>3 DEF Leads

\* What ShownIsTrue compares with.
LEMMA ShownLeads ==
  ASSUME LogOK(log), NEW r \in Runs, NEW n \in 1..Len(log[r])
  PROVE  Leads(log, r, n, Shown(r, n).active)
<1> DEFINE v == [Hydrate(Snapshot) EXCEPT !.active = FreshRun(r), !.last = 0]
           es == SubSeq(log[r], 1, n)
<1>1. IsView(v) /\ v.active = FreshRun(r) /\ v.last = 0 /\ v.terminal = FALSE
  <2> DEFINE a == FreshRun(r)
             s == Snapshot
  <2>1. IsActive(a)
    BY FreshIsActive
  <2> HIDE DEF a, s
  <2> DEFINE h == Hydrate(s)
             x == IF s.active = None THEN None ELSE FreshRun(s.active)
  <2>2. h = [committed |-> s.items, active |-> x, status |-> s.status, last |-> 0, resync |-> FALSE,
             terminal |-> FALSE, erred |-> FALSE, late |-> FALSE]
    BY DEF Hydrate
  <2>3. v = [h EXCEPT !.active = a, !.last = 0]
    BY DEF a, s
  <2> HIDE DEF v, h, x
  <2>4. /\ v = [committed |-> v.committed, active |-> v.active, status |-> v.status, last |-> v.last,
               resync |-> v.resync, terminal |-> v.terminal, erred |-> v.erred, late |-> v.late]
        /\ v.active = a /\ v.last = 0 /\ v.resync = FALSE /\ v.terminal = FALSE /\ v.erred = FALSE /\ v.late = FALSE
    BY <2>2, <2>3
  <2>5. {v.resync, v.erred, v.late} \subseteq BOOLEAN
    BY <2>4
  <2>6. IsView(v)
    BY <2>1, <2>4, <2>5 DEF IsView
  <2> QED BY <2>4, <2>6 DEF a
<1>2. Len(es) = n /\ n \in Nat /\ \A i \in 1..n : es[i] = log[r][i]
  <2>1. PICK S : log[r] \in Seq(S)
    BY DEF LogOK, IsSeq
  <2>2. n \in Int /\ 1 \in Int /\ 1 <= n /\ \A i \in 1..n : log[r][i] \in S
    BY <2>1, ElementOfSeq
  <2> HIDE DEF es
  <2>3. Len(es) = n - 1 + 1 /\ \A i \in 1..(n - 1 + 1) : es[i] = log[r][1 + i - 1]
    BY <2>2, SubSeqProperties DEF es
  <2> QED BY <2>2, <2>3
<1>3. Shown(r, n) = ReduceAll(v, es)
  BY DEF Shown
<1> HIDE DEF v, es
<1>4. PICK f : f[0] = v /\ f[n] = ReduceAll(v, es) /\ \A i \in 1..n : f[i] = Reduce(f[i - 1], es[i])
  <2>1. Reducing(v, es, n)
    BY <1>2, ReducingSteps
  <2> QED BY <2>1 DEF Reducing
<1>5. Leading(f, log, r, n)
  BY <1>1, <1>2, <1>4 DEF Leading
<1> QED BY <1>3, <1>4, <1>5 DEF Leads

-------------------------------------------------------------------------------
(* What a page knows of a Run *)

\* An event on its way: the Run has let it out, or it is made up for a Run that is over.
IsReal(lg, e) ==
  /\ e.run \in 1..Phantom /\ e.seq \in Nat \ {0}
  /\ \/ e.run \in Runs /\ e.seq \in 1..Len(lg[e.run]) /\ e = lg[e.run][e.seq]
     \/ e.event.kind \in Ending
     \/ e.event.kind = "run_started" /\ e.seq = 1 /\ (e.run \in Runs => lg[e.run] # <<>>)
Heard(lg, q) == \E S : q \in Seq(S) /\ \A e \in S : IsReal(lg, e)

\* A page that does not know better stands at an event of the Run it shows, and shows what
\* the events up to that one make of it.
Misses(v) == v.resync \/ v.erred \/ v.late
Stands(lg, v) == v.last \in 1..Len(lg[v.active.run]) /\ Leads(lg, v.active.run, v.last, v.active)
Told(lg, v) ==
  /\ v.last = 0 => v.active = FreshRun(v.active.run)
  /\ v.last > 0 /\ v.active.run = Pending => v.resync
  /\ v.last > 0 /\ v.active.run \in Runs => Misses(v) \/ Stands(lg, v)
Truth(lg, v) == IsView(v) /\ (v.active # None => Told(lg, v))

LEMMA RunNumbers ==
  /\ MaxRuns \in Nat \ {0} /\ Phantom \in Nat /\ Phantom \notin Runs /\ Pending \notin 1..Phantom
  /\ Runs \subseteq 1..Phantom
BY StreamAssumption DEF Phantom, Runs, Pending

\* An event with another number than the next is no gap only when it is the first of the next Run.
StartsNext(v, e) == e.event.kind = "run_started" /\ e.seq = 1 /\ v.active = None /\ v.terminal

LEMMA FirstIsTold ==
  ASSUME NEW lg, LogOK(lg), NEW v, NEW r \in 1..Phantom, r \in Runs => lg[r] # <<>>,
         v.active = FreshRun(r), v.last = 1
  PROVE  Told(lg, v)
<1>1. v.active.run = r /\ r # Pending
  BY FreshIsActive, RunNumbers
<1>2. r \in Runs => 1 \in 1..Len(lg[r]) /\ Leads(lg, r, 1, FreshRun(r))
  BY LeadsFirst
<1> QED BY <1>1, <1>2 DEF Told, Stands

LEMMA NextIsTold ==
  ASSUME NEW lg, LogOK(lg), NEW v, IsView(v), v.active # None, Told(lg, v), NEW r \in Runs, v.active.run = r,
         v.last > 0, NEW e, v.last + 1 \in 1..Len(lg[r]), e = lg[r][v.last + 1], e.event.kind # "run_started",
         NEW w, w.last = v.last + 1, w.late = v.late, TakesIn(v, v.active, r, e.event, w)
  PROVE  w.active # None => Told(lg, w)
<1> SUFFICES ASSUME w.active # None PROVE Told(lg, w)
  OBVIOUS
<1>1. /\ w.active.run = r /\ w.erred = v.erred /\ (v.resync => w.resync)
      /\ w.active = ActiveAfter(v.active, r, e.event) /\ v.last \in Nat /\ r # Pending
  BY RunNumbers DEF TakesIn, IsView
<1>2. CASE Misses(v)
  <2>1. Misses(w)
    BY <1>1, <1>2 DEF Misses
  <2> QED BY <1>1, <2>1 DEF Told
<1>3. CASE Stands(lg, v)
  <2>1. Leads(lg, r, v.last, v.active)
    BY <1>3 DEF Stands
  <2>2. Leads(lg, r, v.last + 1, Then(v.active, r, lg[r][v.last + 1].event))
    BY <1>1, <2>1, LeadsOn
  <2>3. w.active = Then(v.active, r, e.event)
    BY <1>1 DEF Then
  <2>4. Stands(lg, w)
    BY <1>1, <2>2, <2>3 DEF Stands
  <2> QED BY <1>1, <2>4 DEF Told
<1> QED BY <1>2, <1>3 DEF Told

\* Behind a gap a page knows that it misses something.
LEMMA GapIsTold ==
  ASSUME NEW lg, NEW v, v.last \in Nat, v.last > 0, v.resync
  PROVE  Told(lg, v)
BY DEF Told, Misses

LEMMA ReduceTruth ==
  ASSUME NEW lg, LogOK(lg), NEW v, Truth(lg, v), NEW e, IsReal(lg, e), NEW w, w = Reduce(v, e)
  PROVE  Truth(lg, w)
<1> DEFINE r == e.run
           a == IF v.active = None THEN FreshRun(r) ELSE v.active
           gap == e.seq # v.last + 1
<1>1. IsView(v) /\ v.last \in Nat /\ e.seq \in Nat /\ e.seq > 0 /\ r \in 1..Phantom /\ r # Pending
  BY RunNumbers DEF Truth, IsView, IsReal
<1>2. r \in Runs /\ e.seq = 1 /\ e.event.kind = "run_started" => lg[r] # <<>>
  <2>1. e.seq = 1 /\ r \in Runs /\ e.seq \in 1..Len(lg[r]) => lg[r] # <<>>
    BY SeqFacts DEF LogOK
  <2>2. "run_started" \notin Ending
    BY DEF Ending
  <2> QED BY <2>1, <2>2 DEF IsReal
<1>3. IsActive(a)
  BY <1>1, FreshIsActive DEF IsView
<1>4. CASE StartsNext(v, e)
  <2>1. w = [v EXCEPT !.active = FreshRun(r), !.status = "running", !.last = 1,
                    !.resync = FALSE, !.terminal = FALSE, !.erred = FALSE, !.late = FALSE]
    BY <1>4 DEF Reduce, StartsNext
  <2> DEFINE fresh == FreshRun(r)
  <2>2. IsActive(fresh)
    BY FreshIsActive
  <2> HIDE DEF fresh
  <2>3. /\ w = [committed |-> w.committed, active |-> w.active, status |-> w.status, last |-> w.last,
                resync |-> w.resync, terminal |-> w.terminal, erred |-> w.erred, late |-> w.late]
        /\ w.active = fresh /\ w.last = 1 /\ w.resync = FALSE /\ w.erred = FALSE /\ w.late = FALSE
    BY <1>1, <2>1 DEF IsView, fresh
  <2>4. {w.resync, w.erred, w.late} \subseteq BOOLEAN
    BY <2>3
  <2>5. IsView(w)
    BY <2>2, <2>3, <2>4 DEF IsView
  <2>6. r \in Runs => lg[r] # <<>>
    BY <1>2, <1>4 DEF StartsNext
  <2>7. Told(lg, w)
    BY <1>1, <2>3, <2>6, FirstIsTold DEF fresh
  <2> QED BY <2>5, <2>7 DEF Truth
<1>5. CASE ~StartsNext(v, e) /\ e.seq <= v.last
  <2>1. w = v
    BY <1>5 DEF Reduce, StartsNext
  <2> QED BY <2>1
<1>6. CASE ~StartsNext(v, e) /\ ~(e.seq <= v.last) /\ a.run \notin {Pending, r}
  <2>1. w = Fail(Resync(v))
    BY <1>6 DEF Reduce, StartsNext
  <2>2. v.active # None
    BY <1>6, FreshIsActive
  <2>3. w = [v EXCEPT !.resync = TRUE, !.status = "failed", !.erred = TRUE]
    <3>1. Resync(v) = [v EXCEPT !.resync = TRUE]
      BY DEF Resync
    <3> QED BY <1>1, <2>1 DEF Fail, Resync, IsView
  <2>4. /\ w = [committed |-> w.committed, active |-> w.active, status |-> w.status, last |-> w.last,
                resync |-> w.resync, terminal |-> w.terminal, erred |-> w.erred, late |-> w.late]
        /\ w.active = v.active /\ w.last = v.last /\ w.resync = TRUE /\ w.erred = TRUE /\ w.late = v.late
    BY <1>1, <2>3 DEF IsView
  <2>5. {w.resync, w.erred, w.late} \subseteq BOOLEAN
    BY <1>1, <2>4 DEF IsView
  <2>6. IsView(w)
    BY <1>1, <2>4, <2>5 DEF IsView
  <2>7. Told(lg, v)
    BY <2>2 DEF Truth
  <2>8. Told(lg, w)
    BY <2>4, <2>7 DEF Told, Misses
  <2> QED BY <2>6, <2>8 DEF Truth
<1>7. CASE ~StartsNext(v, e) /\ ~(e.seq <= v.last) /\ a.run \in {Pending, r} /\ gap
  <2> DEFINE late == v.late \/ (v.active = None /\ v.last > 0)
             misses == v.resync \/ gap
             base == [v EXCEPT !.active = a, !.last = e.seq, !.resync = misses, !.late = late]
  <2>1. w = base \/ w = ApplyEvent(base, r, e.event)
    BY <1>7 DEF Reduce, StartsNext
  <2>2. late \in BOOLEAN /\ misses = TRUE /\ v.erred \in BOOLEAN
    BY <1>1, <1>7 DEF IsView
  <2>3. base = [v EXCEPT !.active = a, !.last = e.seq, !.resync = misses, !.late = late]
    OBVIOUS
  <2> HIDE DEF late, misses, a, base
  <2>4. /\ base = [committed |-> base.committed, active |-> base.active, status |-> base.status, last |-> base.last,
                   resync |-> base.resync, terminal |-> base.terminal, erred |-> base.erred, late |-> base.late]
        /\ base.active = a /\ base.last = e.seq /\ base.resync = misses /\ base.erred = v.erred /\ base.late = late
    BY <1>1, <2>3 DEF IsView
  <2>5. {base.resync, base.erred, base.late} \subseteq BOOLEAN
    BY <2>2, <2>4
  <2>6. IsView(base) /\ base.resync
    BY <1>1, <1>3, <2>2, <2>4, <2>5 DEF IsView
  <2>7. CASE w = base
    <3>1. Told(lg, w)
      BY <1>1, <2>4, <2>6, <2>7, GapIsTold
    <3> QED BY <2>6, <2>7, <3>1 DEF Truth
  <2>8. CASE w = ApplyEvent(base, r, e.event)
    <3>1. IsView(w) /\ w.last = base.last /\ w.late = base.late /\ TakesIn(base, base.active, r, e.event, w)
      BY <1>3, <2>4, <2>6, <2>8, AnEventIsApplied
    <3>2. w.active # None => w.resync
      BY <2>6, <3>1 DEF TakesIn
    <3>3. w.active # None => Told(lg, w)
      BY <1>1, <2>4, <3>1, <3>2, GapIsTold
    <3> QED BY <3>1, <3>3 DEF Truth
  <2> QED BY <2>1, <2>7, <2>8
<1>8. CASE ~StartsNext(v, e) /\ ~(e.seq <= v.last) /\ a.run \in {Pending, r} /\ ~gap
  <2>1. e.seq = v.last + 1 /\ (v.active = None \/ v.active.run \in {Pending, r})
    BY <1>8
  <2>2. e.seq # 1 /\ e.event.kind \notin Ending =>
          r \in Runs /\ e.seq \in 1..Len(lg[r]) /\ e = lg[r][e.seq] /\ e.event.kind # "run_started"
    BY DEF IsReal, LogOK
  <2>3. "run_started" \notin Ending
    BY DEF Ending
  <2>4. ~(e.event.kind = "run_started" /\ v.active = None /\ v.terminal)
    BY <1>8, <2>2, <2>3 DEF StartsNext
  <2>5. a = IF v.active = None THEN FreshRun(r) ELSE v.active
    OBVIOUS
  <2> HIDE DEF a
  <2>6. IsView(w) /\ w.last = e.seq /\ w.late = (v.late \/ (v.active = None /\ v.last > 0)) /\ TakesIn(v, a, r, e.event, w)
    BY <1>1, <2>1, <2>4, <2>5, AnEventInTurn
  <2>7. CASE e.event.kind \in Ending
    BY <2>6, <2>7 DEF Truth, TakesIn
  <2>8. CASE e.event.kind \notin Ending /\ e.seq = 1
    <3>1. v.last = 0
      BY <1>1, <2>1, <2>8
    <3>2. e.event.kind = "run_started"
      BY <2>8 DEF IsReal, LogOK
    <3>3. a = FreshRun(a.run)
      BY <2>5, <3>1, FreshIsActive DEF Truth, Told
    <3>4. w.active = [a EXCEPT !.run = r]
      BY <2>6, <2>8, <3>2 DEF TakesIn
    <3>5. w.active = FreshRun(r)
      BY <3>3, <3>4, FreshIsRenamed
    <3>6. Told(lg, w)
      BY <1>1, <1>2, <2>6, <2>8, <3>2, <3>5, FirstIsTold
    <3> QED BY <2>6, <3>6 DEF Truth
  <2>9. CASE e.event.kind \notin Ending /\ e.seq # 1
    <3>1. v.last > 0 /\ w.last = v.last + 1 /\ w.last \in Nat
      BY <1>1, <2>1, <2>6, <2>9
    <3>2. CASE v.active = None
      <4>1. w.late = TRUE /\ w.active.run = r
        BY <2>2, <2>5, <2>6, <2>9, <3>1, <3>2, FreshIsActive DEF TakesIn
      <4>2. Told(lg, w)
        BY <1>1, <3>1, <4>1 DEF Told, Misses
      <4> QED BY <2>6, <4>2 DEF Truth
    <3>3. CASE v.active # None /\ v.active.run = Pending
      <4>1. v.resync
        BY <3>1, <3>3 DEF Truth, Told
      <4>2. w.resync
        BY <2>6, <2>9, <4>1 DEF TakesIn
      <4>3. Told(lg, w)
        BY <1>1, <3>1, <4>2, GapIsTold
      <4> QED BY <2>6, <4>3 DEF Truth
    <3>4. CASE v.active # None /\ v.active.run = r
      <4>1. w.late = v.late
        BY <1>1, <2>6, <3>4 DEF IsView
      <4>2. TakesIn(v, v.active, r, e.event, w) /\ Told(lg, v)
        BY <2>5, <2>6, <3>4 DEF Truth
      <4>3. w.active # None => Told(lg, w)
        BY <1>1, <2>1, <2>2, <2>9, <3>1, <3>4, <4>1, <4>2, NextIsTold
      <4> QED BY <2>6, <4>3 DEF Truth
    <3> QED BY <2>1, <3>2, <3>3, <3>4
  <2> QED BY <2>7, <2>8, <2>9
<1> QED BY <1>4, <1>5, <1>6, <1>7, <1>8

LEMMA ReduceAllTruth ==
  ASSUME NEW lg, LogOK(lg), NEW v, Truth(lg, v), NEW es, Heard(lg, es)
  PROVE  Truth(lg, ReduceAll(v, es))
<1>1. PICK S : es \in Seq(S) /\ \A e \in S : IsReal(lg, e)
  BY DEF Heard
<1>2. Len(es) \in Nat
  BY <1>1, LenProperties
<1> DEFINE n == Len(es)
<1> HIDE DEF n
<1>3. PICK f : f[0] = v /\ f[n] = ReduceAll(v, es) /\ \A i \in 1..n : f[i] = Reduce(f[i - 1], es[i])
  <2>1. n \in Nat /\ n = Len(es)
    BY <1>2 DEF n
  <2>2. Reducing(v, es, n)
    BY <2>1, ReducingSteps
  <2> QED BY <2>2 DEF Reducing
<1> DEFINE P == {i \in 0..n : Truth(lg, f[i])}
<1>4. 0 \in P
  BY <1>2, <1>3 DEF n
<1>5. ASSUME NEW i \in 0..(n - 1), i \in P PROVE i + 1 \in P
  <2>1. i + 1 \in 1..n /\ (i + 1) - 1 = i /\ i + 1 \in 0..n
    BY <1>2, <1>5 DEF n
  <2>2. IsReal(lg, es[i + 1])
    BY <1>1, <2>1, ElementOfSeq DEF n
  <2>3. f[i + 1] = Reduce(f[i], es[i + 1]) /\ Truth(lg, f[i])
    BY <1>3, <1>5, <2>1
  <2>4. Truth(lg, f[i + 1])
    BY <2>2, <2>3, ReduceTruth
  <2> QED BY <2>1, <2>4
<1> HIDE DEF P
<1>6. 0..n \subseteq P
  BY <1>2, <1>4, <1>5, IntervalInduction DEF n
<1>7. n \in P
  BY <1>2, <1>6 DEF n
<1> QED BY <1>3, <1>7 DEF P

LEMMA TruthStands ==
  ASSUME NEW lg, LogOK(lg), NEW more, Grows(lg, more), NEW v, Truth(lg, v)
  PROVE  Truth(more, v)
<1> DEFINE r == v.active.run
<1>1. r \in Runs => Len(lg[r]) \in Nat /\ Len(more[r]) \in Nat /\ Len(lg[r]) <= Len(more[r])
  BY SeqFacts DEF LogOK, Grows
<1>2. ASSUME r \in Runs, Stands(lg, v) PROVE Stands(more, v)
  <2>1. v.last \in 0..Len(lg[r]) /\ v.last \in 1..Len(more[r])
    BY <1>1, <1>2 DEF Stands
  <2> QED BY <1>2, <2>1, LeadsStand DEF Stands
<1>3. Told(lg, v) => Told(more, v)
  BY <1>2 DEF Told
<1> QED BY <1>3 DEF Truth

\* ShownIsTrue is what such a page shows.
LEMMA TruthIsShown == ASSUME LogOK(log), Truth(log, view) PROVE ShownIsTrue
<1>1. SUFFICES ASSUME view.active # None, view.active.run \in Runs, view.last > 0,
                      ~view.resync, ~view.erred, ~view.late
               PROVE  view.active = Shown(view.active.run, view.last).active
  BY DEF ShownIsTrue
<1> DEFINE r == view.active.run
           n == view.last
<1>2. r \in Runs /\ n \in 1..Len(log[r]) /\ n \in 0..Len(log[r]) /\ Leads(log, r, n, view.active)
  <2>1. Stands(log, view) /\ Len(log[r]) \in Nat
    BY <1>1, SeqFacts DEF Truth, Told, Misses, LogOK
  <2> QED BY <1>1, <2>1 DEF Stands
<1>3. Leads(log, r, n, Shown(r, n).active)
  BY <1>2, ShownLeads
<1> QED BY <1>2, <1>3, LeadsAgree

-------------------------------------------------------------------------------
(* What is on its way to a page *)

LEMMA HeardIsSeq == ASSUME NEW lg, NEW q, Heard(lg, q) PROVE IsSeq(q)
BY DEF Heard, IsSeq

LEMMA HeardNothing == ASSUME NEW lg PROVE Heard(lg, <<>>)
<1> DEFINE S == {}
<1>1. <<>> \in Seq(S) /\ \A e \in S : IsReal(lg, e)
  BY EmptySeq
<1> HIDE DEF S
<1> QED BY <1>1 DEF Heard

LEMMA HeardOne == ASSUME NEW lg, NEW e, IsReal(lg, e) PROVE Heard(lg, <<e>>)
<1> DEFINE S == {e}
           q == <<e>>
<1>1. q \in Seq(S) /\ \A x \in S : IsReal(lg, x)
  OBVIOUS
<1> HIDE DEF S, q
<1>2. Heard(lg, q)
  BY <1>1 DEF Heard
<1> QED BY <1>2 DEF q

LEMMA HeardConcat == ASSUME NEW lg, NEW p, Heard(lg, p), NEW q, Heard(lg, q) PROVE Heard(lg, p \o q)
<1>1. PICK S : p \in Seq(S) /\ \A e \in S : IsReal(lg, e)
  BY DEF Heard
<1>2. PICK T : q \in Seq(T) /\ \A e \in T : IsReal(lg, e)
  BY DEF Heard
<1> DEFINE U == S \union T
<1>3. p \in Seq(U) /\ q \in Seq(U)
  BY <1>1, <1>2, SeqMonotonic
<1>4. \A e \in U : IsReal(lg, e)
  BY <1>1, <1>2
<1> HIDE DEF U
<1>5. p \o q \in Seq(U)
  BY <1>3, ConcatProperties
<1> QED BY <1>4, <1>5 DEF Heard

LEMMA HeardAppend == ASSUME NEW lg, NEW q, Heard(lg, q), NEW e, IsReal(lg, e) PROVE Heard(lg, Append(q, e))
<1>1. PICK S : q \in Seq(S) /\ \A x \in S : IsReal(lg, x)
  BY DEF Heard
<1> DEFINE U == S \union {e}
<1>2. q \in Seq(U) /\ e \in U
  BY <1>1, SeqMonotonic
<1>3. \A x \in U : IsReal(lg, x)
  BY <1>1
<1> HIDE DEF U
<1>4. Append(q, e) \in Seq(U)
  BY <1>2, AppendProperties
<1> QED BY <1>3, <1>4 DEF Heard

LEMMA HeardPart ==
  ASSUME NEW lg, NEW q, NEW m \in Int, NEW n \in Int, \A i \in m..n : IsReal(lg, q[i])
  PROVE  Heard(lg, SubSeq(q, m, n))
<1> DEFINE U == {q[i] : i \in m..n}
<1>1. \A i \in m..n : q[i] \in U
  OBVIOUS
<1>2. \A e \in U : IsReal(lg, e)
  OBVIOUS
<1> HIDE DEF U
<1>3. SubSeq(q, m, n) \in Seq(U)
  BY <1>1, SubSeqProperties
<1> QED BY <1>2, <1>3 DEF Heard

LEMMA HeardElements ==
  ASSUME NEW lg, NEW q, Heard(lg, q)
  PROVE  Len(q) \in Nat /\ \A i \in 1..Len(q) : IsReal(lg, q[i])
<1>1. PICK S : q \in Seq(S) /\ \A e \in S : IsReal(lg, e)
  BY DEF Heard
<1> QED BY <1>1, LenProperties, ElementOfSeq

LEMMA HeardTail ==
  ASSUME NEW lg, NEW q, Heard(lg, q), q # <<>>
  PROVE  IsReal(lg, Head(q)) /\ Heard(lg, Tail(q))
<1>1. PICK S : q \in Seq(S) /\ \A e \in S : IsReal(lg, e)
  BY DEF Heard
<1>2. Head(q) \in S /\ Tail(q) \in Seq(S)
  BY <1>1, HeadTailProperties
<1> QED BY <1>1, <1>2 DEF Heard

LEMMA RealStands ==
  ASSUME NEW lg, LogOK(lg), NEW more, Grows(lg, more), NEW e, IsReal(lg, e)
  PROVE  IsReal(more, e)
<1>1. CASE e.run \in Runs /\ e.seq \in 1..Len(lg[e.run]) /\ e = lg[e.run][e.seq]
  <2>1. e.seq \in 1..Len(more[e.run]) /\ more[e.run][e.seq] = e
    BY <1>1, SeqFacts DEF Grows, LogOK
  <2> QED BY <1>1, <2>1 DEF IsReal
<1>2. ASSUME e.run \in Runs, lg[e.run] # <<>> PROVE more[e.run] # <<>>
  BY <1>2, SeqFacts DEF Grows, LogOK
<1> QED BY <1>1, <1>2 DEF IsReal

LEMMA HeardStands ==
  ASSUME NEW lg, LogOK(lg), NEW more, Grows(lg, more), NEW q, Heard(lg, q)
  PROVE  Heard(more, q)
<1>1. PICK S : q \in Seq(S) /\ \A e \in S : IsReal(lg, e)
  BY DEF Heard
<1>2. \A e \in S : IsReal(more, e)
  BY <1>1, RealStands
<1> QED BY <1>1, <1>2 DEF Heard

\* A connection makes room, or does not, of what it was to carry.
LEMMA WriteHeard ==
  ASSUME NEW lg, NEW q, Heard(lg, q), NEW e, IsReal(lg, e)
  PROVE  Heard(lg, Write(q, e))
<1> DEFINE d == FirstDroppable(q)
           ds == {i \in 1..Len(q) : Droppable(q[i])}
<1>1. d \in 0..Len(q) /\ Len(q) \in Nat /\ \A i \in 1..Len(q) : IsReal(lg, q[i])
  <2>1. Len(q) \in Nat /\ \A i \in 1..Len(q) : IsReal(lg, q[i])
    BY HeardElements
  <2>2. CASE ds = {}
    BY <2>1, <2>2 DEF FirstDroppable
  <2>3. CASE ds # {}
    <3>1. \E i \in ds : \A j \in ds : i <= j
      <4>1. ds \in SUBSET Nat
        BY <2>1
      <4> HIDE DEF ds
      <4> QED BY <2>3, <4>1, NaturalsHaveMin
    <3>2. d = CHOOSE i \in ds : \A j \in ds : i <= j
      BY <2>3 DEF FirstDroppable
    <3>3. d \in ds
      BY <3>1, <3>2
    <3> QED BY <2>1, <3>3
  <2> QED BY <2>1, <2>2, <2>3
<1> HIDE DEF d, ds
<1>2. CASE Write(q, e) = Append(q, e)
  BY <1>2, HeardAppend
<1>3. CASE Write(q, e) = q
  BY <1>3
<1>4. CASE Write(q, e) = Append(Without(q, d), e) /\ d # 0
  <2>1. Heard(lg, SubSeq(q, 1, d - 1)) /\ Heard(lg, SubSeq(q, d + 1, Len(q)))
    BY <1>1, HeardPart
  <2>2. Heard(lg, Without(q, d))
    BY <2>1, HeardConcat DEF Without
  <2> QED BY <1>4, <2>2, HeardAppend
<1> QED BY <1>2, <1>3, <1>4 DEF Write, d

\* A replay is a part of what the Run has let out.
LEMMA ReplayHeard ==
  ASSUME LogOK(log), NEW r \in Runs, NEW n \in Nat
  PROVE  Heard(log, Replay(r, n))
<1> DEFINE first == IF Len(log[r]) > Window THEN Len(log[r]) - Window + 1 ELSE 1
           from == IF n + 1 > first THEN n + 1 ELSE first
<1>1. Len(log[r]) \in Nat /\ from \in Nat \ {0}
  BY StreamAssumption, SeqFacts DEF LogOK
<1>2. ASSUME NEW i \in from..Len(log[r]) PROVE IsReal(log, log[r][i])
  <2>1. i \in 1..Len(log[r]) /\ i \in Nat \ {0}
    BY <1>1
  <2>2. log[r][i].run = r /\ log[r][i].seq = i
    BY <2>1 DEF LogOK
  <2> QED BY <2>1, <2>2, RunNumbers DEF IsReal
<1>3. Replay(r, n) = SubSeq(log[r], from, Len(log[r]))
  BY DEF Replay
<1> HIDE DEF from
<1> QED BY <1>1, <1>2, <1>3, HeardPart

-------------------------------------------------------------------------------
(* What publishing and attaching do *)

IsConn(lg, x) == x = [st |-> x.st, q |-> x.q, once |-> x.once] /\ Heard(lg, x.q)
ConnsOK(lg, cs) == DOMAIN cs = 1..MaxConns /\ \A c \in 1..MaxConns : IsConn(lg, cs[c])

\* payloads of a Run that has begun
Quiet(ps) == IsSeq(ps) /\ \A i \in 1..Len(ps) : ps[i].kind # "run_started"

IsChain(x) ==
  /\ x = [phase |-> x.phase, order |-> x.order, started |-> x.started, held |-> x.held,
          timer |-> x.timer, watched |-> x.watched, stop |-> x.stop, halted |-> x.halted]
  /\ x.order \in Seq(Runs) /\ DOMAIN x.held = Runs /\ \A r \in Runs : Quiet(x.held[r])
  /\ x.timer => ~x.watched

\* A chain that publishes is as it was, but may have to stop.
MayFail(ch, new) == new = ch \/ new = [ch EXCEPT !.stop = "failure"]

\* The first payload of a Run is run_started, and no other.
Fits(lg, r, ps) == \A i \in 1..Len(ps) : ps[i].kind = "run_started" <=> (i = 1 /\ lg[r] = <<>>)

LEMMA ConnsStand ==
  ASSUME NEW lg, LogOK(lg), NEW more, Grows(lg, more), NEW cs, ConnsOK(lg, cs)
  PROVE  ConnsOK(more, cs)
BY HeardStands DEF ConnsOK, IsConn

LEMMA GrowsOn ==
  ASSUME NEW lg, LogOK(lg), NEW more, Grows(lg, more), LogOK(more), NEW most, Grows(more, most)
  PROVE  Grows(lg, most)
<1>1. ASSUME NEW r \in Runs
      PROVE  /\ IsSeq(most[r]) /\ Len(lg[r]) <= Len(most[r])
             /\ \A i \in 1..Len(lg[r]) : most[r][i] = lg[r][i]
  <2>1. Len(lg[r]) \in Nat /\ Len(more[r]) \in Nat /\ Len(most[r]) \in Nat
    BY SeqFacts DEF LogOK, Grows
  <2> QED BY <2>1 DEF Grows
<1> QED BY <1>1 DEF Grows

LEMMA GrowsNot == ASSUME NEW lg, LogOK(lg) PROVE Grows(lg, lg)
BY SeqFacts DEF LogOK, Grows

\* One more event of a log
Appends(lg, r, e, more) ==
  /\ LogOK(more) /\ Grows(lg, more) /\ Len(more[r]) = Len(lg[r]) + 1
  /\ \A x \in Runs \ {r} : more[x] = lg[x]
  /\ IsReal(more, e)

LEMMA LogAppends ==
  ASSUME NEW lg, LogOK(lg), NEW r \in Runs, NEW p, p.kind = "run_started" <=> lg[r] = <<>>, NEW e,
         e = Envelope(r, Len(lg[r]) + 1, p), NEW more, more = [lg EXCEPT ![r] = Append(@, e)]
  PROVE  Appends(lg, r, e, more)
<1> DEFINE n == Len(lg[r])
<1>1. DOMAIN lg = Runs /\ DOMAIN more = Runs /\ more[r] = Append(lg[r], e)
      /\ \A x \in Runs \ {r} : more[x] = lg[x]
  BY DEF LogOK
<1>2. e.run = r /\ e.seq = n + 1 /\ e.event = p
  BY DEF Envelope
<1>3. n \in Nat /\ (lg[r] = <<>> <=> n = 0)
  BY SeqFacts DEF LogOK
<1>4. /\ IsSeq(more[r]) /\ Len(more[r]) = n + 1 /\ more[r][n + 1] = e
      /\ \A i \in 1..n : more[r][i] = lg[r][i]
  <2>1. PICK S : lg[r] \in Seq(S)
    BY DEF LogOK, IsSeq
  <2> DEFINE U == S \union {e}
  <2>2. lg[r] \in Seq(U) /\ e \in U
    BY <2>1, SeqMonotonic
  <2> HIDE DEF U
  <2>3. Append(lg[r], e) \in Seq(U)
    BY <2>2, AppendProperties
  <2>4. /\ Len(Append(lg[r], e)) = n + 1 /\ Append(lg[r], e)[n + 1] = e
        /\ \A i \in 1..n : Append(lg[r], e)[i] = lg[r][i]
    BY <2>2, AppendProperties
  <2> QED BY <1>1, <2>3, <2>4 DEF IsSeq
<1>5. ASSUME NEW x \in Runs
      PROVE  IsSeq(more[x]) /\ \A i \in 1..Len(more[x]) :
               more[x][i].run = x /\ more[x][i].seq = i /\ (more[x][i].event.kind = "run_started" <=> i = 1)
  <2>1. CASE x # r
    BY <1>1, <2>1 DEF LogOK
  <2>2. ASSUME x = r, NEW i \in 1..(n + 1)
        PROVE  more[r][i].run = r /\ more[r][i].seq = i /\ (more[r][i].event.kind = "run_started" <=> i = 1)
    <3>1. CASE i \in 1..n
      BY <1>4, <3>1 DEF LogOK
    <3>2. CASE i = n + 1
      BY <1>2, <1>3, <1>4, <3>2
    <3> QED BY <1>3, <2>2, <3>1, <3>2
  <2> QED BY <1>4, <2>1, <2>2
<1>6. LogOK(more)
  BY <1>1, <1>5 DEF LogOK
<1>7. Grows(lg, more)
  <2>1. ASSUME NEW x \in Runs, x # r
        PROVE  IsSeq(more[x]) /\ Len(lg[x]) <= Len(more[x]) /\ \A i \in 1..Len(lg[x]) : more[x][i] = lg[x][i]
    BY <1>1, <2>1, SeqFacts DEF LogOK
  <2>2. IsSeq(more[r]) /\ Len(lg[r]) <= Len(more[r]) /\ \A i \in 1..Len(lg[r]) : more[r][i] = lg[r][i]
    BY <1>3, <1>4
  <2> QED BY <2>1, <2>2 DEF Grows
<1>8. IsReal(more, e)
  BY <1>2, <1>3, <1>4, RunNumbers DEF IsReal
<1> QED BY <1>1, <1>4, <1>6, <1>7, <1>8 DEF Appends

LEMMA StoppedMayFail == ASSUME NEW ch PROVE MayFail(ch, Overflown(ch))
BY DEF Overflown, Stopped, MayFail

LEMMA PublishedKeeps ==
  ASSUME DOMAIN conns = 1..MaxConns, NEW st, LogOK(st.log), ConnsOK(st.log, st.conns), NEW r \in Runs, NEW p,
         p.kind = "run_started" <=> st.log[r] = <<>>
  PROVE  LET w == Published(st, r, p) IN
         /\ LogOK(w.log) /\ Grows(st.log, w.log) /\ Len(w.log[r]) = Len(st.log[r]) + 1
         /\ \A x \in Runs \ {r} : w.log[x] = st.log[x]
         /\ ConnsOK(w.log, w.conns) /\ MayFail(st.chain, w.chain)
<1> DEFINE e == Envelope(r, Len(st.log[r]) + 1, p)
           w == Published(st, r, p)
           more == [st.log EXCEPT ![r] = Append(@, e)]
           cs == [c \in DOMAIN conns |-> IF c \in Reading THEN [st.conns[c] EXCEPT !.q = Write(@, e)] ELSE st.conns[c]]
<1>1. w.log = more /\ w.conns = cs /\ w.chain \in {st.chain, Overflown(st.chain)}
  BY DEF Published
<1> HIDE DEF w
<1> DEFINE lg == st.log
<1>6. LogOK(lg) /\ (p.kind = "run_started" <=> lg[r] = <<>>) /\ lg = st.log
      /\ e = Envelope(r, Len(lg[r]) + 1, p) /\ more = [lg EXCEPT ![r] = Append(@, e)]
  OBVIOUS
<1> HIDE DEF more, lg, e
<1>7. Appends(lg, r, e, more)
  BY <1>6, LogAppends
<1>2. /\ LogOK(more) /\ Grows(st.log, more) /\ Len(more[r]) = Len(st.log[r]) + 1
      /\ \A x \in Runs \ {r} : more[x] = st.log[x]
      /\ IsReal(more, e)
  BY <1>6, <1>7 DEF Appends
<1>3. ASSUME NEW c \in 1..MaxConns PROVE IsConn(more, cs[c])
  <2>1. IsConn(more, st.conns[c])
    BY <1>2, ConnsStand DEF ConnsOK
  <2> DEFINE x == st.conns[c]
  <2>2. CASE c \in Reading
    <3>1. cs[c] = [x EXCEPT !.q = Write(@, e)]
      BY <2>2
    <3>2. Heard(more, Write(x.q, e))
      BY <1>2, <2>1, WriteHeard DEF IsConn
    <3> HIDE DEF cs, x
    <3>3. cs[c].q = Write(x.q, e) /\ cs[c] = [st |-> cs[c].st, q |-> cs[c].q, once |-> cs[c].once]
      BY <2>1, <3>1 DEF IsConn, x
    <3> QED BY <3>2, <3>3 DEF IsConn
  <2>3. CASE c \notin Reading
    BY <2>1, <2>3
  <2> QED BY <2>2, <2>3
<1>4. ConnsOK(more, cs)
  BY <1>3 DEF ConnsOK
<1>5. MayFail(st.chain, w.chain)
  BY <1>1, StoppedMayFail DEF MayFail
<1> HIDE DEF cs
<1> QED BY <1>1, <1>2, <1>4, <1>5 DEF w

LEMMA PublishAllKeeps ==
  ASSUME LogOK(log), ConnsOK(log, conns), NEW ch, NEW r \in Runs, NEW ps, IsSeq(ps), Fits(log, r, ps),
         PublishAll(ch, r, ps)
  PROVE  /\ LogOK(log') /\ Grows(log, log') /\ ConnsOK(log', conns') /\ MayFail(ch, chain')
         /\ \A x \in Runs \ {r} : log'[x] = log[x]
         /\ log'[r] = <<>> <=> log[r] = <<>> /\ ps = <<>>
<1> DEFINE start == [log |-> log, conns |-> conns, chain |-> ch]
           n == Len(ps)
           Kept(st, i) ==
             /\ LogOK(st.log) /\ Grows(log, st.log) /\ ConnsOK(st.log, st.conns) /\ MayFail(ch, st.chain)
             /\ \A x \in Runs \ {r} : st.log[x] = log[x]
             /\ Len(st.log[r]) = Len(log[r]) + i
<1>1. PICK done : /\ done = PublishSeq(start, r, ps)
                  /\ log' = done.log /\ conns' = done.conns /\ chain' = done.chain
  BY DEF PublishAll
<1>2. n \in Nat /\ Len(log[r]) \in Nat /\ (log[r] = <<>> <=> Len(log[r]) = 0) /\ (ps = <<>> <=> n = 0)
  BY SeqFacts DEF LogOK
<1>3. PICK f : f[0] = start /\ f[n] = done /\ \A i \in 1..n : f[i] = Published(f[i - 1], r, ps[i])
  <2>1. n \in Nat /\ n = Len(ps)
    BY <1>2
  <2> HIDE DEF start, n
  <2>2. Publishing(start, r, ps, n)
    BY <2>1, PublishingSteps
  <2> QED BY <1>1, <2>2 DEF Publishing
<1> DEFINE P == {i \in 0..n : Kept(f[i], i)}
<1>4. 0 \in P
  <2>1. start.log = log /\ start.conns = conns /\ start.chain = ch
    OBVIOUS
  <2> HIDE DEF start
  <2> QED BY <1>2, <1>3, <2>1, GrowsNot DEF MayFail
<1> HIDE DEF start
<1>5. ASSUME NEW i \in 0..(n - 1), i \in P PROVE i + 1 \in P
  <2>1. i \in Nat /\ i + 1 \in 1..n /\ i + 1 \in 0..n /\ (i + 1) - 1 = i
    BY <1>2, <1>5
  <2> DEFINE st == f[i]
             w == f[i + 1]
  <2>2. w = Published(st, r, ps[i + 1])
    BY <1>3, <2>1
  <2>3. /\ LogOK(st.log) /\ Grows(log, st.log) /\ ConnsOK(st.log, st.conns) /\ MayFail(ch, st.chain)
        /\ \A x \in Runs \ {r} : st.log[x] = log[x]
        /\ Len(st.log[r]) = Len(log[r]) + i
    BY <1>5
  <2> HIDE DEF st, w, P
  <2>4. ps[i + 1].kind = "run_started" <=> st.log[r] = <<>>
    <3>1. st.log[r] = <<>> <=> Len(st.log[r]) = 0
      BY <2>3, SeqFacts DEF LogOK
    <3>2. st.log[r] = <<>> <=> i + 1 = 1 /\ log[r] = <<>>
      BY <1>2, <2>1, <2>3, <3>1
    <3> QED BY <2>1, <3>2 DEF Fits
  <2>5. DOMAIN conns = 1..MaxConns
    BY DEF ConnsOK
  <2>6. /\ LogOK(w.log) /\ Grows(st.log, w.log) /\ Len(w.log[r]) = Len(st.log[r]) + 1
        /\ \A x \in Runs \ {r} : w.log[x] = st.log[x]
        /\ ConnsOK(w.log, w.conns) /\ MayFail(st.chain, w.chain)
    BY <2>2, <2>3, <2>4, <2>5, PublishedKeeps
  <2>7. Grows(log, w.log)
    BY <2>3, <2>6, GrowsOn
  <2>8. MayFail(ch, w.chain)
    BY <2>3, <2>6 DEF MayFail
  <2>9. Len(w.log[r]) = Len(log[r]) + (i + 1)
    <3> DEFINE a == Len(st.log[r])
               b == Len(w.log[r])
               c == Len(log[r])
    <3>1. a = c + i /\ b = a + 1 /\ c \in Nat /\ i \in Nat
      BY <1>2, <2>1, <2>3, <2>6
    <3> HIDE DEF a, b, c
    <3>2. b = c + (i + 1)
      BY <3>1
    <3> QED BY <3>2 DEF b, c
  <2>10. Kept(w, i + 1)
    BY <2>3, <2>6, <2>7, <2>8, <2>9
  <2> QED BY <2>1, <2>10 DEF P, w
<1> HIDE DEF P
<1>6. 0..n \subseteq P
  BY <1>2, <1>4, <1>5, IntervalInduction
<1>7. n \in P
  BY <1>2, <1>6
<1>8. Kept(f[n], n)
  BY <1>7 DEF P
<1>9. log'[r] = <<>> <=> Len(log'[r]) = 0
  <2>1. LogOK(log')
    BY <1>1, <1>3, <1>8
  <2> QED BY <2>1, SeqFacts DEF LogOK
<1> QED BY <1>1, <1>2, <1>3, <1>8, <1>9

\* A chain that goes on, with the Runs it had
Alike(ch, new) == IsChain(new) /\ new.phase = ch.phase /\ new.order = ch.order /\ new.started = ch.started
Like(ch, new) == Alike(ch, new) /\ new.stop \in {ch.stop, "failure"}

LEMMA MayFailIsLike == ASSUME NEW ch, IsChain(ch), NEW new, MayFail(ch, new) PROVE Like(ch, new)
<1>1. CASE new = ch
  BY <1>1 DEF Like, Alike
<1>2. CASE new = [ch EXCEPT !.stop = "failure"]
  <2>1. /\ new = [phase |-> new.phase, order |-> new.order, started |-> new.started, held |-> new.held,
                  timer |-> new.timer, watched |-> new.watched, stop |-> new.stop, halted |-> new.halted]
        /\ new.phase = ch.phase /\ new.order = ch.order /\ new.started = ch.started /\ new.held = ch.held
        /\ new.timer = ch.timer /\ new.watched = ch.watched /\ new.stop = "failure"
    BY <1>2 DEF IsChain
  <2> QED BY <2>1 DEF Like, Alike, IsChain
<1> QED BY <1>1, <1>2 DEF MayFail

LEMMA QuietFits == ASSUME NEW lg, NEW r, lg[r] # <<>>, NEW ps, Quiet(ps) PROVE IsSeq(ps) /\ Fits(lg, r, ps)
BY DEF Quiet, Fits

LEMMA QuietConcat == ASSUME NEW p, Quiet(p), NEW q, Quiet(q) PROVE Quiet(p \o q)
<1>1. PICK S : p \in Seq(S)
  BY DEF Quiet, IsSeq
<1>2. PICK T : q \in Seq(T)
  BY DEF Quiet, IsSeq
<1> DEFINE U == S \union T
<1>3. p \in Seq(U) /\ q \in Seq(U)
  BY <1>1, <1>2, SeqMonotonic
<1> HIDE DEF U
<1>4. /\ p \o q \in Seq(U) /\ Len(p \o q) = Len(p) + Len(q) /\ Len(p) \in Nat /\ Len(q) \in Nat
      /\ \A i \in 1..(Len(p) + Len(q)) : (p \o q)[i] = IF i <= Len(p) THEN p[i] ELSE q[i - Len(p)]
  BY <1>3, ConcatProperties, LenProperties
<1>5. ASSUME NEW i \in 1..Len(p \o q) PROVE (p \o q)[i].kind # "run_started"
  <2>1. CASE i <= Len(p)
    <3>1. i \in 1..Len(p) /\ (p \o q)[i] = p[i]
      BY <1>4, <2>1
    <3> QED BY <3>1 DEF Quiet
  <2>2. CASE ~(i <= Len(p))
    <3>1. i - Len(p) \in 1..Len(q) /\ (p \o q)[i] = q[i - Len(p)]
      BY <1>4, <2>2
    <3> QED BY <3>1 DEF Quiet
  <2> QED BY <2>1, <2>2
<1> QED BY <1>4, <1>5 DEF Quiet, IsSeq

LEMMA CoordinatorKeeps ==
  ASSUME LogOK(log), ConnsOK(log, conns), NEW ch, IsChain(ch), ch.order # <<>>,
         ch.started \subseteq {r \in Runs : log[r] # <<>>}, NEW ps, Quiet(ps), CoordinatorEvents(ch, ps)
  PROVE  /\ LogOK(log') /\ Grows(log, log') /\ ConnsOK(log', conns') /\ Like(ch, chain')
         /\ \A x \in Runs : log'[x] = <<>> <=> log[x] = <<>>
<1> DEFINE r == Current(ch)
<1>1. r \in Runs
  <2>1. ch.order \in Seq(Runs) /\ Len(ch.order) \in 1..Len(ch.order)
    BY EmptySeq, LenProperties DEF IsChain
  <2> QED BY <2>1, ElementOfSeq DEF Current
<1> HIDE DEF r
<1>2. CASE r \in ch.started
  <2>1. log[r] # <<>> /\ PublishAll(ch, r, ps)
    BY <1>2 DEF CoordinatorEvents, r
  <2>2. IsSeq(ps) /\ Fits(log, r, ps)
    BY <2>1, QuietFits
  <2>3. /\ LogOK(log') /\ Grows(log, log') /\ ConnsOK(log', conns') /\ MayFail(ch, chain')
        /\ \A x \in Runs \ {r} : log'[x] = log[x]
        /\ log'[r] = <<>> <=> log[r] = <<>> /\ ps = <<>>
    BY <1>1, <2>1, <2>2, PublishAllKeeps
  <2> QED BY <2>1, <2>3, MayFailIsLike
<1>3. CASE r \notin ch.started
  <2>1. chain' = [ch EXCEPT !.held[r] = @ \o ps] /\ log' = log /\ conns' = conns
    BY <1>3 DEF CoordinatorEvents, r
  <2> DEFINE h == [ch.held EXCEPT ![r] = @ \o ps]
  <2>2. Quiet(ch.held[r] \o ps)
    BY <1>1, QuietConcat DEF IsChain
  <2>3. DOMAIN h = Runs /\ \A x \in Runs : Quiet(h[x])
    BY <1>1, <2>2 DEF IsChain
  <2> DEFINE new == [ch EXCEPT !.held[r] = @ \o ps]
  <2>7. new = [ch EXCEPT !.held = h]
    OBVIOUS
  <2> HIDE DEF h, new
  <2>4. /\ new = [phase |-> new.phase, order |-> new.order, started |-> new.started, held |-> new.held,
                  timer |-> new.timer, watched |-> new.watched, stop |-> new.stop, halted |-> new.halted]
        /\ new.phase = ch.phase /\ new.order = ch.order /\ new.started = ch.started /\ new.held = h
        /\ new.timer = ch.timer /\ new.watched = ch.watched /\ new.stop = ch.stop
    BY <2>7 DEF IsChain
  <2>5. Like(ch, new)
    BY <2>3, <2>4 DEF Like, Alike, IsChain
  <2>6. Like(ch, chain')
    BY <2>1, <2>5 DEF new
  <2> QED BY <2>1, <2>6, GrowsNot
<1> QED BY <1>2, <1>3

\* A page is attached: its connection carries what the Runs of the chain have let out.
LEMMA AttachKeeps ==
  ASSUME LogOK(log), ConnsOK(log, conns), IsChain(chain), NEW c \in 1..MaxConns, NEW r, NEW m \in Nat,
         \E i \in 1..Len(chain.order) : chain.order[i] = r, Attach(c, r, m)
  PROVE  /\ ConnsOK(log, conns') /\ tab' = [tab EXCEPT !.conn = c]
         /\ Like(chain, chain')
<1> DEFINE start == CHOOSE i \in 1..Len(chain.order) : chain.order[i] = r
           runs == SubSeq(chain.order, start, Len(chain.order))
           events == Replays(runs, r, m)
           sent == WriteAll(events)
           seen == [chain EXCEPT !.timer = FALSE, !.watched = TRUE]
<1>1. /\ conns' = [conns EXCEPT ![c] = [st |-> "open", q |-> sent.q, once |-> FALSE]]
      /\ tab' = [tab EXCEPT !.conn = c] /\ chain' \in {seen, Overflown(seen)}
  BY DEF Attach, Connect
<1>2. Len(runs) \in Nat /\ \A i \in 1..Len(runs) : runs[i] \in Runs
  <2>1. start \in 1..Len(chain.order) /\ chain.order \in Seq(Runs) /\ Len(chain.order) \in Nat
    BY LenProperties DEF IsChain
  <2>2. start \in Int /\ Len(chain.order) \in Int /\ \A i \in start..Len(chain.order) : chain.order[i] \in Runs
    BY <2>1, ElementOfSeq
  <2> HIDE DEF start
  <2>3. runs \in Seq(Runs)
    BY <2>2, SubSeqProperties
  <2> QED BY <2>3, ElementOfSeq, LenProperties
<1> HIDE DEF runs
<1>3. Heard(log, events)
  <2> DEFINE n == Len(runs)
  <2>6. n \in Nat /\ n = Len(runs)
    BY <1>2
  <2> HIDE DEF n
  <2>1. PICK f : /\ f[0] = <<>> /\ f[n] = events
                 /\ \A i \in 1..n : f[i] = f[i - 1] \o Replay(runs[i], IF runs[i] = r THEN m ELSE 0)
    <3>1. Replaying(runs, r, m, n)
      BY <2>6, ReplayingSteps
    <3> QED BY <3>1 DEF Replaying
  <2> HIDE DEF events
  <2> DEFINE P == {i \in 0..n : Heard(log, f[i])}
  <2>2. 0 \in P
    BY <2>1, <2>6, HeardNothing
  <2>3. ASSUME NEW i \in 0..(n - 1), i \in P PROVE i + 1 \in P
    <3>1. i + 1 \in 1..n /\ i + 1 \in 0..n /\ (i + 1) - 1 = i
      BY <2>3, <2>6
    <3> DEFINE k == runs[i + 1]
               after == IF k = r THEN m ELSE 0
    <3>2. f[i + 1] = f[i] \o Replay(k, after) /\ k \in Runs /\ after \in Nat
      BY <1>2, <2>1, <2>6, <3>1
    <3> HIDE DEF k, after
    <3>3. Heard(log, Replay(k, after)) /\ Heard(log, f[i])
      BY <2>3, <3>2, ReplayHeard
    <3>4. Heard(log, f[i + 1])
      BY <3>2, <3>3, HeardConcat
    <3> QED BY <3>1, <3>4
  <2> HIDE DEF P
  <2>4. 0..n \subseteq P
    BY <2>2, <2>3, <2>6, IntervalInduction
  <2>5. n \in P
    BY <2>4, <2>6
  <2> QED BY <2>1, <2>5 DEF P
<1> HIDE DEF events
<1>4. Heard(log, sent.q)
  <2>1. Len(events) \in Nat /\ \A i \in 1..Len(events) : IsReal(log, events[i])
    BY <1>3, HeardElements
  <2> DEFINE n == Len(events)
             none == [q |-> <<>>, full |-> FALSE]
  <2>7. n \in Nat /\ n = Len(events) /\ none.q = <<>>
    BY <2>1
  <2> HIDE DEF n
  <2>2. PICK f : f[0] = none /\ f[n] = sent /\ \A i \in 1..n : f[i] = Written(f[i - 1], events[i])
    <3>1. Writing(events, n)
      BY <2>7, WritingSteps
    <3> QED BY <3>1 DEF Writing
  <2> HIDE DEF sent, none
  <2> DEFINE P == {i \in 0..n : Heard(log, f[i].q)}
  <2>3. 0 \in P
    BY <2>2, <2>7, HeardNothing
  <2>4. ASSUME NEW i \in 0..(n - 1), i \in P PROVE i + 1 \in P
    <3>1. i + 1 \in 1..n /\ i + 1 \in 0..n /\ (i + 1) - 1 = i
      BY <2>4, <2>7
    <3>2. f[i + 1] = Written(f[i], events[i + 1])
      BY <2>2, <3>1
    <3>4. f[i + 1].q = Write(f[i].q, events[i + 1])
      BY <3>2 DEF Written
    <3>3. Heard(log, f[i + 1].q)
      BY <2>1, <2>4, <2>7, <3>1, <3>4, WriteHeard
    <3> QED BY <3>1, <3>3
  <2> HIDE DEF P
  <2>5. 0..n \subseteq P
    BY <2>3, <2>4, <2>7, IntervalInduction
  <2>6. n \in P
    BY <2>5, <2>7
  <2> QED BY <2>2, <2>6 DEF P
<1> HIDE DEF sent
<1>5. ConnsOK(log, conns')
  BY <1>1, <1>4 DEF ConnsOK, IsConn
<1>6. Like(chain, seen)
  <2>1. seen = [chain EXCEPT !.timer = FALSE, !.watched = TRUE]
    OBVIOUS
  <2> HIDE DEF seen
  <2>2. /\ seen = [phase |-> seen.phase, order |-> seen.order, started |-> seen.started, held |-> seen.held,
                   timer |-> seen.timer, watched |-> seen.watched, stop |-> seen.stop, halted |-> seen.halted]
        /\ seen.phase = chain.phase /\ seen.order = chain.order /\ seen.started = chain.started
        /\ seen.held = chain.held /\ seen.stop = chain.stop /\ seen.timer = FALSE
    BY <2>1 DEF IsChain
  <2> QED BY <2>2 DEF IsChain, Like, Alike
<1>7. MayFail(seen, chain')
  BY <1>1, StoppedMayFail DEF MayFail
<1> HIDE DEF seen
<1>8. Like(seen, chain')
  BY <1>6, <1>7, MayFailIsLike DEF Like, Alike
<1> QED BY <1>1, <1>5, <1>6, <1>8 DEF Like, Alike

-------------------------------------------------------------------------------
(* What every step keeps *)

IsRun(x) ==
  /\ x = [id |-> x.id, at |-> x.at, ok |-> x.ok, m |-> x.m, open |-> x.open, source |-> x.source,
          snapshot |-> x.snapshot]
  /\ x.id \in 0..MaxRuns
IsSession(x) ==
  /\ x = [items |-> x.items, active |-> x.active, status |-> x.status, queue |-> x.queue, rev |-> x.rev,
          paused |-> x.paused, request |-> x.request, ok |-> x.ok]
  /\ x.request \in 0..MaxRuns
IsStream(lg, x) ==
  /\ x = [mode |-> x.mode, tries |-> x.tries, conn |-> x.conn, last |-> x.last, root |-> x.root,
          run |-> x.run, held |-> x.held, probe |-> x.probe, ended |-> x.ended, error |-> x.error]
  /\ x.last \in [1..Phantom -> Nat] /\ x.conn \in 0..MaxConns /\ Heard(lg, x.held)
  /\ x.mode = "post" => x.root \in 0..Phantom

\* A Run has let out run_started when it is live, and no Run has before its turn.
RunIsPlaced(lg, rn, ch) ==
  /\ \A r \in Runs : r > rn.id => lg[r] = <<>>
  /\ rn.at # "over" => rn.id \in Runs /\ ch.order # <<>> /\ ch.phase # "none"
  /\ rn.at \in {"registered", "claimed"} => lg[rn.id] = <<>>
  /\ rn.at \in {"live", "committed", "published"} => lg[rn.id] # <<>>
  /\ rn.at = "registered" => ch.order = <<rn.id>>

\* What the chain lets pass at once is of a Run that has begun.
ChainIsPlaced(lg, ch) ==
  /\ ch.phase # "none" => ch.order # <<>>
  /\ ch.started \subseteq {r \in Runs : lg[r] # <<>>}

\* The Run of the request has begun, and is among those of the chain the process knows.
InOrder(ch, r) == \E i \in 1..Len(ch.order) : ch.order[i] = r
RequestIsPlaced(lg, ch, s) ==
  s.request # 0 => lg[s.request] # <<>> /\ (ch.phase # "none" => InOrder(ch, s.request))

ServerIInv ==
  /\ LogOK(log) /\ ConnsOK(log, conns) /\ IsRun(run) /\ IsChain(chain) /\ IsSession(session)
  /\ RunIsPlaced(log, run, chain) /\ ChainIsPlaced(log, chain) /\ RequestIsPlaced(log, chain, session)
PageIInv == IsStream(log, tab) /\ Truth(log, view)
StreamIInv == ServerIInv /\ PageIInv

\* the body of GraceIsWhole
GraceStep == chain'.stop = "disconnect" /\ chain.stop = None => ~chain.watched

LEMMA IdNumbers == ASSUME NEW x, IsRun(x) PROVE x.id \in Nat /\ x.id <= MaxRuns /\ (x.id # 0 => x.id \in Runs)
BY RunNumbers DEF IsRun, Runs

\* What the page has stays true of longer logs.
LEMMA PageStands ==
  ASSUME LogOK(log), Grows(log, log'), PageIInv, tab' = tab, view' = view
  PROVE  PageIInv'
<1>1. Heard(log', tab.held)
  BY HeardStands DEF PageIInv, IsStream
<1>2. IsStream(log', tab)
  BY <1>1 DEF PageIInv, IsStream
<1>3. Truth(log', view)
  BY TruthStands DEF PageIInv
<1> QED BY <1>2, <1>3 DEF PageIInv

\* A chain that publishes on stays where it is.
LEMMA AlikeStands ==
  ASSUME NEW ch, NEW new, Alike(ch, new), NEW lg, NEW more, \A r \in Runs : more[r] = <<>> <=> lg[r] = <<>>
  PROVE  /\ IsChain(new)
         /\ ChainIsPlaced(lg, ch) => ChainIsPlaced(more, new)
         /\ \A s : IsSession(s) /\ RequestIsPlaced(lg, ch, s) => RequestIsPlaced(more, new, s)
         /\ \A rn : IsRun(rn) /\ RunIsPlaced(lg, rn, ch) => RunIsPlaced(more, rn, new)
<1>1. IsChain(new) /\ new.phase = ch.phase /\ new.order = ch.order /\ new.started = ch.started
  BY DEF Alike
<1>2. ChainIsPlaced(lg, ch) => ChainIsPlaced(more, new)
  BY <1>1 DEF ChainIsPlaced
<1>3. ASSUME NEW s, IsSession(s), RequestIsPlaced(lg, ch, s) PROVE RequestIsPlaced(more, new, s)
  <2>1. s.request # 0 => s.request \in Runs
    BY <1>3 DEF IsSession, Runs
  <2> QED BY <1>1, <1>3, <2>1 DEF RequestIsPlaced, InOrder
<1>4. ASSUME NEW rn, IsRun(rn), RunIsPlaced(lg, rn, ch) PROVE RunIsPlaced(more, rn, new)
  <2>1. rn.at # "over" => rn.id \in Runs
    BY <1>4 DEF RunIsPlaced
  <2>2. rn.at \in {"registered", "claimed", "live", "committed", "published"} => rn.at # "over"
    OBVIOUS
  <2> QED BY <1>1, <1>4, <2>1, <2>2 DEF RunIsPlaced
<1> QED BY <1>1, <1>2, <1>3, <1>4

\* Steps of the chain while the page stands still
LEMMA ServerStep ==
  ASSUME StreamIInv, LogOK(log'), Grows(log, log'), ConnsOK(log', conns'), IsRun(run'), IsChain(chain'),
         IsSession(session'), RunIsPlaced(log', run', chain'), ChainIsPlaced(log', chain'),
         RequestIsPlaced(log', chain', session'), tab' = tab, view' = view
  PROVE  StreamIInv'
<1>1. PageIInv'
  BY PageStands DEF StreamIInv, ServerIInv
<1>2. ServerIInv'
  BY DEF ServerIInv
<1> QED BY <1>1, <1>2 DEF StreamIInv

\* Steps of the page while the server stands still
LEMMA PageStep ==
  ASSUME StreamIInv, log' = log, ConnsOK(log, conns'), run' = run, Alike(chain, chain'), session' = session,
         IsStream(log, tab'), Truth(log, view')
  PROVE  StreamIInv' 
<1>1. IsChain(chain') /\ ChainIsPlaced(log, chain') /\ RequestIsPlaced(log, chain', session)
      /\ RunIsPlaced(log, run, chain')
  BY AlikeStands DEF StreamIInv, ServerIInv
<1>2. LogOK(log) /\ IsRun(run) /\ IsSession(session)
  BY DEF StreamIInv, ServerIInv
<1> QED BY <1>1, <1>2 DEF StreamIInv, ServerIInv, PageIInv

LEMMA SameChain == ASSUME IsChain(chain), chain' = chain PROVE Like(chain, chain')
BY DEF Like, Alike

LEMMA QuietNothing == Quiet(<<>>)
<1>1. <<>> \in Seq({}) /\ Len(<<>>) = 0
  BY EmptySeq
<1> QED BY <1>1 DEF Quiet, IsSeq

LEMMA NoChainIsChain == IsChain(NoChain)
<1>1. <<>> \in Seq(Runs)
  BY EmptySeq
<1> QED BY <1>1, QuietNothing DEF IsChain, NoChain

LEMMA NoStreamIsStream == ASSUME NEW lg PROVE IsStream(lg, NoStream) /\ NoStream.mode = "idle" /\ NoStream.root = 0
<1>1. 0 \in 0..MaxConns /\ Heard(lg, <<>>)
  BY StreamAssumption, HeardNothing
<1> QED BY <1>1 DEF IsStream, NoStream

\* A page that has read a snapshot has no event of the Run yet.
LEMMA HydratedTruth == ASSUME NEW lg, NEW s PROVE Truth(lg, Hydrate(s))
<1> DEFINE v == Hydrate(s)
<1>1. /\ IsView(v) /\ v.last = 0
      /\ v.active # None => v.active = FreshRun(s.active) /\ v.active.run = s.active
  BY FreshIsActive DEF Hydrate, IsView
<1> HIDE DEF v
<1>2. Truth(lg, v)
  BY <1>1 DEF Truth, Told
<1> QED BY <1>2 DEF v

LEMMA BegunTruth == ASSUME NEW lg, NEW v, IsView(v) PROVE Truth(lg, Begin(v))
<1> DEFINE local == v.committed \cup {Local}
           fresh == FreshRun(Pending)
           w == [v EXCEPT !.committed = local, !.active = fresh, !.status = "running", !.last = 0,
                          !.resync = FALSE, !.terminal = FALSE, !.erred = FALSE, !.late = FALSE]
<1>1. Begin(v) = w
  BY DEF Begin
<1>2. IsActive(fresh) /\ fresh.run = Pending
  BY FreshIsActive
<1> HIDE DEF local, fresh
<1>3. w = [v EXCEPT !.committed = local, !.active = fresh, !.status = "running", !.last = 0,
                    !.resync = FALSE, !.terminal = FALSE, !.erred = FALSE, !.late = FALSE]
  OBVIOUS
<1> HIDE DEF w
<1>4. /\ w = [committed |-> w.committed, active |-> w.active, status |-> w.status, last |-> w.last,
              resync |-> w.resync, terminal |-> w.terminal, erred |-> w.erred, late |-> w.late]
      /\ w.active = fresh /\ w.last = 0 /\ w.resync = FALSE /\ w.erred = FALSE /\ w.late = FALSE
  BY <1>3 DEF IsView
<1>5. Truth(lg, w)
  <2>4. IsActive(w.active)
    BY <1>2, <1>4
  <2>5. w.last \in Nat
    BY <1>4
  <2>6. w.resync \in BOOLEAN /\ w.erred \in BOOLEAN /\ w.late \in BOOLEAN
    BY <1>4, Zenon
  <2>1. IsView(w)
    <3>1. w = [committed |-> w.committed, active |-> w.active, status |-> w.status, last |-> w.last,
               resync |-> w.resync, terminal |-> w.terminal, erred |-> w.erred, late |-> w.late]
      BY <1>4
    <3> QED BY <2>4, <2>5, <2>6, <3>1 DEF IsView
  <2>2. w.active = FreshRun(w.active.run)
    BY <1>2, <1>4 DEF fresh
  <2>3. ~(w.last > 0)
    BY <1>4
  <2> QED BY <2>1, <2>2, <2>3 DEF Truth, Told
<1> QED BY <1>1, <1>5

LEMMA FailedTruth == ASSUME NEW lg, NEW v, Truth(lg, v) PROVE Truth(lg, Fail(v))
<1> DEFINE w == Fail(v)
<1>1. w = [v EXCEPT !.status = "failed", !.erred = TRUE]
  BY DEF Fail
<1>2. IsView(v)
  BY DEF Truth
<1> HIDE DEF w
<1>3. /\ w = [committed |-> w.committed, active |-> w.active, status |-> w.status, last |-> w.last,
              resync |-> w.resync, terminal |-> w.terminal, erred |-> w.erred, late |-> w.late]
      /\ w.active = v.active /\ w.last = v.last /\ w.resync = v.resync /\ w.erred = TRUE /\ w.late = v.late
  BY <1>1, <1>2 DEF IsView
<1>4. IsView(w)
  BY <1>2, <1>3 DEF IsView
<1>5. w.active # None => Told(lg, w)
  BY <1>3 DEF Truth, Told, Misses
<1>6. Truth(lg, w)
  BY <1>4, <1>5 DEF Truth
<1> QED BY <1>6 DEF w

LEMMA StreamInitially == Init => StreamIInv
<1> SUFFICES ASSUME Init PROVE StreamIInv
  OBVIOUS
<1>1. LogOK(log) /\ \A r \in Runs : log[r] = <<>>
  <2>1. log = [r \in Runs |-> <<>>] /\ <<>> \in Seq({}) /\ Len(<<>>) = 0
    BY EmptySeq DEF Init
  <2> QED BY <2>1 DEF LogOK, IsSeq
<1>2. ConnsOK(log, conns)
  BY HeardNothing DEF Init, ConnsOK, IsConn, NoConn
<1>3. IsRun(run) /\ run.id = 0 /\ run.at = "over"
  BY RunNumbers DEF Init, IsRun, NoRun
<1>4. IsChain(chain) /\ chain.phase = "none" /\ chain.started = {}
  BY NoChainIsChain DEF Init, NoChain
<1>5. IsSession(session) /\ session.request = 0
  BY RunNumbers DEF Init, IsSession
<1>6. IsStream(log, tab)
  BY NoStreamIsStream DEF Init
<1>7. Truth(log, view)
  BY HydratedTruth DEF Init
<1>8. RunIsPlaced(log, run, chain) /\ ChainIsPlaced(log, chain) /\ RequestIsPlaced(log, chain, session)
  BY <1>1, <1>3, <1>4, <1>5 DEF RunIsPlaced, ChainIsPlaced, RequestIsPlaced
<1> QED BY <1>1, <1>2, <1>3, <1>4, <1>5, <1>6, <1>7, <1>8 DEF StreamIInv, ServerIInv, PageIInv

-------------------------------------------------------------------------------
(* The chain and its Runs *)

\* how a chain may come to be stopped by a step that is not the end of a grace
Orderly == chain'.stop \in {chain.stop, None, "failure", "user_stop"}

LEMMA RunGoes ==
  ASSUME NEW lg, NEW rn, NEW ch, RunIsPlaced(lg, rn, ch), rn.at \in {"live", "committed", "published"},
         NEW new, new.id = rn.id, new.at \in {"live", "committed", "published", "over"}
  PROVE  RunIsPlaced(lg, new, ch)
BY DEF RunIsPlaced

\* A Run that has begun lets out events.
LEMMA LivePublishes ==
  ASSUME StreamIInv, run.at \in {"live", "committed", "published"}, NEW ps, Quiet(ps),
         PublishAll(chain, run.id, ps), run'.id = run.id, run'.at \in {"live", "committed", "published", "over"},
         IsRun(run'), IsSession(session'), session'.request = session.request, tab' = tab, view' = view
  PROVE  StreamIInv' /\ Orderly
<1>1. run.id \in Runs /\ log[run.id] # <<>>
  BY DEF StreamIInv, ServerIInv, RunIsPlaced
<1>2. /\ LogOK(log) /\ ConnsOK(log, conns) /\ IsRun(run) /\ IsChain(chain) /\ IsSession(session)
      /\ RunIsPlaced(log, run, chain) /\ ChainIsPlaced(log, chain) /\ RequestIsPlaced(log, chain, session)
  BY DEF StreamIInv, ServerIInv
<1>3. IsSeq(ps) /\ Fits(log, run.id, ps)
  BY <1>1, QuietFits
<1>4. /\ LogOK(log') /\ Grows(log, log') /\ ConnsOK(log', conns') /\ MayFail(chain, chain')
      /\ \A x \in Runs \ {run.id} : log'[x] = log[x]
      /\ log'[run.id] = <<>> <=> log[run.id] = <<>> /\ ps = <<>>
  BY <1>1, <1>2, <1>3, PublishAllKeeps
<1>5. Like(chain, chain')
  BY <1>2, <1>4, MayFailIsLike
<1>6. \A x \in Runs : log'[x] = <<>> <=> log[x] = <<>>
  BY <1>1, <1>4
<1>7. /\ IsChain(chain') /\ ChainIsPlaced(log', chain') /\ RequestIsPlaced(log', chain', session)
      /\ RunIsPlaced(log', run, chain')
  BY <1>2, <1>5, <1>6, AlikeStands DEF Like
<1>8. RunIsPlaced(log', run', chain') /\ RequestIsPlaced(log', chain', session')
  BY <1>7, RunGoes DEF RequestIsPlaced
<1>9. StreamIInv'
  BY <1>4, <1>7, <1>8, ServerStep
<1> QED BY <1>5, <1>9 DEF Like, Orderly

LEMMA SeqIsQuiet ==
  ASSUME NEW S, NEW s \in Seq(S), \A i \in 1..Len(s) : s[i].kind # "run_started"
  PROVE  Quiet(s)
BY DEF Quiet, IsSeq

LEMMA QuietOne == ASSUME NEW p, p.kind # "run_started" PROVE Quiet(<<p>>)
<1> DEFINE S == {p}
           s == <<p>>
<1>1. s \in Seq(S) /\ Len(s) = 1 /\ s[1] = p
  OBVIOUS
<1> HIDE DEF S, s
<1>2. Quiet(s)
  BY <1>1, SeqIsQuiet
<1> QED BY <1>2 DEF s

LEMMA QuietTwo == ASSUME NEW p, NEW q, p.kind # "run_started", q.kind # "run_started" PROVE Quiet(<<p, q>>)
<1> DEFINE S == {p, q}
           s == <<p, q>>
<1>1. s \in Seq(S) /\ Len(s) = 2 /\ s[1] = p /\ s[2] = q
  OBVIOUS
<1> HIDE DEF S, s
<1>2. Quiet(s)
  BY <1>1, SeqIsQuiet
<1> QED BY <1>2 DEF s

LEMMA QuietThree ==
  ASSUME NEW p, NEW q, NEW r, p.kind # "run_started", q.kind # "run_started", r.kind # "run_started"
  PROVE  Quiet(<<p, q, r>>)
<1> DEFINE S == {p, q, r}
           s == <<p, q, r>>
<1>1. s \in Seq(S) /\ Len(s) = 3 /\ s[1] = p /\ s[2] = q /\ s[3] = r
  OBVIOUS
<1> HIDE DEF S, s
<1>2. Quiet(s)
  BY <1>1, SeqIsQuiet
<1> QED BY <1>2 DEF s

LEMMA PayloadKind == ASSUME NEW kind, NEW of, NEW n PROVE Payload(kind, of, n).kind = kind
BY DEF Payload

LEMMA TurnsAreQuiet == ASSUME NEW turn \in TurnEvents PROVE Quiet(turn.es)
<1> DEFINE m == IF run.open = "none" THEN run.m + 1 ELSE run.m
           p(kind, n) == Payload(kind, m, n)
<1>1. /\ p("message_started", 0).kind # "run_started" /\ p("delta", 0).kind # "run_started"
      /\ p("committed", 1).kind # "run_started" /\ p("tool_started", 0).kind # "run_started"
      /\ p("reset", 0).kind # "run_started" /\ p("committed", 0).kind # "run_started"
      /\ p("progress", spent.turns).kind # "run_started" /\ p("asked", 0).kind # "run_started"
      /\ p("answered", 1).kind # "run_started" /\ p("tool_finished", Whole).kind # "run_started"
  BY PayloadKind
<1>2. turn.es \in {<<p("message_started", 0), p("delta", 0)>>,
                   <<p("message_started", 0), p("committed", 1), p("tool_started", 0)>>,
                   <<p("reset", 0), p("delta", 0)>>, <<p("committed", 0)>>,
                   <<p("progress", spent.turns)>>, <<p("asked", 0), p("answered", 1)>>,
                   <<p("tool_finished", Whole)>>}
  <2>1. TurnEvents = CASE run.open = "none" -> {[es |-> <<p("message_started", 0), p("delta", 0)>>, to |-> "said"],
                                 [es |-> <<p("message_started", 0), p("committed", 1),
                                           p("tool_started", 0)>>, to |-> "call"]}
                     [] run.open = "said" -> {[es |-> <<p("reset", 0), p("delta", 0)>>, to |-> "said"],
                                 [es |-> <<p("committed", 0)>>, to |-> "final"]}
                     [] run.open = "call" -> {[es |-> <<p("progress", spent.turns)>>, to |-> "call"],
                                 [es |-> <<p("asked", 0), p("answered", 1)>>, to |-> "call"],
                                 [es |-> <<p("tool_finished", Whole)>>, to |-> "none"]}
                     [] OTHER -> {}
    BY DEF TurnEvents
  <2> HIDE DEF p
  <2> QED BY <2>1
<1> HIDE DEF p
<1> QED BY <1>1, <1>2, QuietOne, QuietTwo, QuietThree

\* The event that begins a Run lets out what waited for it.
LEMMA RunStartsKeeps == ASSUME StreamIInv, RunStarts PROVE StreamIInv' /\ Orderly
<1> DEFINE r == run.id
           ch == [chain EXCEPT !.started = @ \cup {r}, !.held[r] = <<>>]
           p == Payload("run_started", run.source, 0)
           ps == <<p>> \o chain.held[r]
<1>1. /\ LogOK(log) /\ ConnsOK(log, conns) /\ IsRun(run) /\ IsChain(chain) /\ IsSession(session)
      /\ RunIsPlaced(log, run, chain) /\ ChainIsPlaced(log, chain) /\ RequestIsPlaced(log, chain, session)
  BY DEF StreamIInv, ServerIInv
<1>2. r \in Runs /\ log[r] = <<>> /\ chain.order # <<>> /\ chain.phase # "none" /\ (run.at = "registered" => chain.order = <<r>>)
  BY <1>1 DEF RunStarts, RunIsPlaced
<1>3. PublishAll(ch, r, ps) /\ tab' = tab /\ view' = view /\ run' = [run EXCEPT !.at = "live"]
      /\ session' = IF run.at = "claimed" THEN session
                    ELSE [session EXCEPT !.items = @ \cup {<<run.id, 0>>}, !.active = run.id,
                                         !.status = "running", !.rev = @ + 1, !.request = run.id]
  BY DEF RunStarts, page
<1>4. IsSeq(ps) /\ Fits(log, r, ps) /\ ps # <<>>
  <2>1. Quiet(chain.held[r])
    BY <1>1, <1>2 DEF IsChain
  <2>2. PICK S : chain.held[r] \in Seq(S)
    BY <2>1 DEF Quiet, IsSeq
  <2> DEFINE U == S \union {p}
             q == chain.held[r]
  <2>3. q \in Seq(U) /\ <<p>> \in Seq(U) /\ Len(<<p>>) = 1 /\ <<p>>[1] = p
    <3>1. <<p>> \in Seq({p}) /\ Len(<<p>>) = 1 /\ <<p>>[1] = p
      OBVIOUS
    <3> QED BY <2>2, <3>1, SeqMonotonic
  <2>4. p.kind = "run_started"
    BY PayloadKind
  <2> HIDE DEF U, p
  <2>5. /\ ps \in Seq(U) /\ Len(ps) = 1 + Len(q) /\ Len(q) \in Nat
        /\ \A i \in 1..(1 + Len(q)) : ps[i] = IF i <= 1 THEN <<p>>[i] ELSE q[i - 1]
    BY <2>3, ConcatProperties, LenProperties
  <2>6. ASSUME NEW i \in 1..Len(ps) PROVE ps[i].kind = "run_started" <=> (i = 1 /\ log[r] = <<>>)
    <3>1. CASE i = 1
      BY <1>2, <2>3, <2>4, <2>5, <3>1
    <3>2. CASE i # 1
      <4>1. i - 1 \in 1..Len(q) /\ ps[i] = q[i - 1]
        BY <2>5, <3>2
      <4> QED BY <2>1, <3>2, <4>1 DEF Quiet
    <3> QED BY <3>1, <3>2
  <2>7. ps # <<>>
    BY <2>5, EmptySeq
  <2> QED BY <2>5, <2>6, <2>7 DEF IsSeq, Fits
<1> HIDE DEF ps
<1>5. /\ LogOK(log') /\ Grows(log, log') /\ ConnsOK(log', conns') /\ MayFail(ch, chain')
      /\ \A x \in Runs \ {r} : log'[x] = log[x]
      /\ log'[r] # <<>>
  BY <1>1, <1>2, <1>3, <1>4, PublishAllKeeps
<1>6. IsChain(ch) /\ ch.phase = chain.phase /\ ch.order = chain.order /\ ch.started = chain.started \cup {r}
      /\ ch.stop = chain.stop
  <2> DEFINE h == [chain.held EXCEPT ![r] = <<>>]
  <2>1. DOMAIN h = Runs /\ \A x \in Runs : Quiet(h[x])
    BY <1>1, <1>2, QuietNothing DEF IsChain
  <2> DEFINE st == chain.started \cup {r}
  <2>3. ch = [chain EXCEPT !.started = st, !.held = h]
    OBVIOUS
  <2> HIDE DEF h, ch, st
  <2>2. /\ ch = [phase |-> ch.phase, order |-> ch.order, started |-> ch.started, held |-> ch.held,
                 timer |-> ch.timer, watched |-> ch.watched, stop |-> ch.stop, halted |-> ch.halted]
        /\ ch.phase = chain.phase /\ ch.order = chain.order /\ ch.started = st /\ ch.held = h
        /\ ch.timer = chain.timer /\ ch.watched = chain.watched /\ ch.stop = chain.stop
    BY <1>1, <2>3 DEF IsChain
  <2> QED BY <1>1, <2>1, <2>2 DEF IsChain, st
<1> HIDE DEF ch
<1>7. /\ IsChain(chain') /\ chain'.phase = chain.phase /\ chain'.order = chain.order
      /\ chain'.started = chain.started \cup {r} /\ chain'.stop \in {chain.stop, "failure"}
  BY <1>5, <1>6, MayFailIsLike DEF Like, Alike
<1>8. IsRun(run') /\ run'.id = r /\ run'.at = "live"
  BY <1>1, <1>3 DEF IsRun
<1>9. RunIsPlaced(log', run', chain')
  <2>1. \A x \in Runs : x > r => x \in Runs \ {r}
    BY DEF Runs
  <2> QED BY <1>1, <1>2, <1>5, <1>7, <1>8, <2>1 DEF RunIsPlaced
<1>10. ChainIsPlaced(log', chain')
  BY <1>1, <1>2, <1>5, <1>7 DEF ChainIsPlaced
<1>11. IsSession(session') /\ RequestIsPlaced(log', chain', session')
  <2>1. CASE run.at = "claimed"
    <3>1. session' = session
      BY <1>3, <2>1
    <3>2. session.request # 0 => session.request \in Runs
      BY <1>1 DEF IsSession, Runs
    <3> QED BY <1>1, <1>5, <1>7, <3>1, <3>2 DEF RequestIsPlaced, InOrder
  <2>2. CASE run.at = "registered"
    <3>1. session' = [session EXCEPT !.items = @ \cup {<<run.id, 0>>}, !.active = run.id,
                                     !.status = "running", !.rev = @ + 1, !.request = run.id]
      BY <1>3, <2>2
    <3>2. IsSession(session') /\ session'.request = r
      BY <1>1, <3>1 DEF IsSession, IsRun
    <3>3. InOrder(chain', r)
      <4>1. chain'.order = <<r>> /\ Len(<<r>>) = 1 /\ <<r>>[1] = r
        BY <1>2, <1>7, <2>2
      <4>2. 1 \in 1..Len(chain'.order) /\ chain'.order[1] = r
        BY <4>1
      <4> QED BY <4>2 DEF InOrder
    <3> QED BY <1>5, <3>2, <3>3 DEF RequestIsPlaced
  <2> QED BY <2>1, <2>2 DEF RunStarts
<1>12. StreamIInv'
  BY <1>3, <1>5, <1>7, <1>8, <1>9, <1>10, <1>11, ServerStep
<1> QED BY <1>7, <1>12 DEF Orderly

LEMMA StepKeeps == ASSUME StreamIInv, Step PROVE StreamIInv' /\ Orderly
<1>1. PICK turn \in TurnEvents :
       /\ run' = [run EXCEPT !.m = turn.es[1].of, !.open = turn.to]
       /\ session' = [session EXCEPT !.items = @ \cup
            {<<run.id, turn.es[i].of>> : i \in {i \in DOMAIN turn.es : turn.es[i].kind = "committed"}}]
       /\ PublishAll(chain, run.id, turn.es)
  BY DEF Step
<1>2. Quiet(turn.es)
  BY TurnsAreQuiet
<1>3. IsRun(run') /\ run'.id = run.id /\ run'.at = run.at
  BY <1>1 DEF StreamIInv, ServerIInv, IsRun
<1>4. IsSession(session') /\ session'.request = session.request
  BY <1>1 DEF StreamIInv, ServerIInv, IsSession
<1>5. run.at = "live" /\ tab' = tab /\ view' = view
  BY DEF Step, page
<1> QED BY <1>1, <1>2, <1>3, <1>4, <1>5, LivePublishes

LEMMA FinishRunKeeps == ASSUME StreamIInv, FinishRun PROVE StreamIInv' /\ Orderly
<1>1. PICK ok \in IF chain.stop = None THEN BOOLEAN ELSE {FALSE} :
       LET pauses == ~ok /\ chain.stop = None /\ session.queue # {}
           done == [session EXCEPT !.active = None, !.rev = @ + 1,
                                   !.status = IF ok \/ chain.stop # None THEN "idle" ELSE "failed",
                                   !.paused = @ \/ pauses,
                                   !.ok = IF ok THEN @ \cup {run.id} ELSE @]
       IN /\ session' = done
          /\ run' = [run EXCEPT !.at = "committed", !.ok = ok,
                                !.snapshot = [items |-> done.items, active |-> None,
                                              status |-> done.status, queue |-> done.queue,
                                              rev |-> done.rev, paused |-> done.paused]]
          /\ PublishAll(chain, run.id, IF pauses THEN <<Payload("chain_paused", 0, 0)>> ELSE <<>>)
  BY DEF FinishRun
<1> DEFINE ps == IF ~ok /\ chain.stop = None /\ session.queue # {} THEN <<Payload("chain_paused", 0, 0)>> ELSE <<>>
<1>2. PublishAll(chain, run.id, ps)
  BY <1>1
<1>3. Quiet(ps)
  <2>1. Payload("chain_paused", 0, 0).kind # "run_started"
    BY PayloadKind
  <2> QED BY <2>1, QuietOne, QuietNothing
<1>4. IsRun(run') /\ run'.id = run.id /\ run'.at = "committed"
  BY <1>1 DEF StreamIInv, ServerIInv, IsRun
<1>5. IsSession(session') /\ session'.request = session.request
  BY <1>1 DEF StreamIInv, ServerIInv, IsSession
<1>6. run.at = "live" /\ tab' = tab /\ view' = view
  BY DEF FinishRun, page
<1> HIDE DEF ps
<1> QED BY <1>2, <1>3, <1>4, <1>5, <1>6, LivePublishes

LEMMA PublishFinishedKeeps == ASSUME StreamIInv, PublishFinished PROVE StreamIInv' /\ Orderly
<1> DEFINE p == Finished(run.ok, run.snapshot)
<1>1. Quiet(<<p>>)
  <2>1. p.kind # "run_started"
    BY DEF Finished
  <2> HIDE DEF p
  <2> QED BY <2>1, QuietOne
<1>2. run.at = "committed" /\ PublishAll(chain, run.id, <<p>>) /\ tab' = tab /\ view' = view /\ session' = session
  BY DEF PublishFinished, page
<1> HIDE DEF p
<1>3. IsRun(run') /\ run'.id = run.id /\ run'.at = "published"
  BY DEF PublishFinished, StreamIInv, ServerIInv, IsRun
<1>4. IsSession(session)
  BY DEF StreamIInv, ServerIInv
<1> QED BY <1>1, <1>2, <1>3, <1>4, LivePublishes

\* The chain goes on with a Run that has let out nothing: what there is to say is held back.
LEMMA NextRunKeeps == ASSUME StreamIInv, NextRun PROVE StreamIInv' /\ Orderly
<1> DEFINE next == run.id + 1
           ch == [chain EXCEPT !.order = Append(@, next)]
<1>1. /\ LogOK(log) /\ ConnsOK(log, conns) /\ IsRun(run) /\ IsChain(chain) /\ IsSession(session)
      /\ RunIsPlaced(log, run, chain) /\ ChainIsPlaced(log, chain) /\ RequestIsPlaced(log, chain, session)
  BY DEF StreamIInv, ServerIInv
<1>2. PICK item \in session.queue :
       /\ session' = [session EXCEPT !.queue = @ \ {item}, !.items = @ \cup {<<next, 0>>},
                                     !.active = next, !.status = "running", !.rev = @ + 1]
       /\ run' = [NoRun EXCEPT !.id = next, !.at = "claimed", !.source = item]
       /\ CoordinatorEvents(ch, <<Payload("queue_consumed", item, session.rev + 1),
                                  Payload("user_committed", item, 0)>>)
  BY DEF NextRun
<1>3. run.at = "published" /\ run.id < MaxRuns /\ chain.phase = "open" /\ tab' = tab /\ view' = view
  BY DEF NextRun, page
<1>4. next \in Runs /\ log[next] = <<>> /\ next > run.id /\ run.id \in Nat /\ next \in 0..MaxRuns
  <2>1. run.id \in 0..MaxRuns /\ MaxRuns \in Nat
    BY <1>1, RunNumbers DEF IsRun
  <2>2. next \in Runs /\ next > run.id /\ run.id \in Nat
    BY <1>3, <2>1 DEF Runs
  <2> QED BY <1>1, <2>1, <2>2 DEF RunIsPlaced, Runs
<1>5. run' = [NoRun EXCEPT !.id = next, !.at = "claimed", !.source = run'.source] /\ run'.id = next /\ run'.at = "claimed"
  BY <1>2 DEF NoRun
<1> HIDE DEF next
<1>6. IsRun(run')
  BY <1>2, <1>4 DEF IsRun, NoRun
<1>7. Append(chain.order, next) \in Seq(Runs) /\ Append(chain.order, next) # <<>>
      /\ \A i \in 1..Len(chain.order) : i \in 1..Len(Append(chain.order, next))
                                        /\ Append(chain.order, next)[i] = chain.order[i]
  <2>1. chain.order \in Seq(Runs) /\ Len(chain.order) \in Nat
    BY <1>1, LenProperties DEF IsChain
  <2>2. /\ Append(chain.order, next) \in Seq(Runs) /\ Append(chain.order, next) # <<>>
        /\ Len(Append(chain.order, next)) = Len(chain.order) + 1
        /\ \A i \in 1..Len(chain.order) : Append(chain.order, next)[i] = chain.order[i]
    BY <1>4, <2>1, AppendProperties
  <2> QED BY <2>1, <2>2
<1>8. IsChain(ch) /\ ch.phase = chain.phase /\ ch.order = Append(chain.order, next)
      /\ ch.started = chain.started /\ ch.stop = chain.stop
  <2> DEFINE order == Append(chain.order, next)
  <2>1. ch = [chain EXCEPT !.order = order]
    OBVIOUS
  <2> HIDE DEF ch, order
  <2>2. /\ ch = [phase |-> ch.phase, order |-> ch.order, started |-> ch.started, held |-> ch.held,
                 timer |-> ch.timer, watched |-> ch.watched, stop |-> ch.stop, halted |-> ch.halted]
        /\ ch.phase = chain.phase /\ ch.order = order /\ ch.started = chain.started /\ ch.held = chain.held
        /\ ch.timer = chain.timer /\ ch.watched = chain.watched /\ ch.stop = chain.stop
    BY <1>1, <2>1 DEF IsChain
  <2>3. IsChain(ch)
    BY <1>1, <1>7, <2>2 DEF IsChain, order
  <2> QED BY <2>2, <2>3 DEF order
<1>9. /\ LogOK(log') /\ Grows(log, log') /\ ConnsOK(log', conns') /\ Like(ch, chain')
      /\ \A x \in Runs : log'[x] = <<>> <=> log[x] = <<>>
  <2> DEFINE p == Payload("queue_consumed", item, session.rev + 1)
             q == Payload("user_committed", item, 0)
  <2>1. Quiet(<<p, q>>)
    <3>1. p.kind # "run_started" /\ q.kind # "run_started"
      BY PayloadKind
    <3> HIDE DEF p, q
    <3> QED BY <3>1, QuietTwo
  <2>2. CoordinatorEvents(ch, <<p, q>>)
    BY <1>2
  <2>3. ch.order # <<>> /\ ch.started \subseteq {r \in Runs : log[r] # <<>>}
    BY <1>1, <1>7, <1>8 DEF ChainIsPlaced
  <2> HIDE DEF p, q, ch
  <2> QED BY <1>1, <1>8, <2>1, <2>2, <2>3, CoordinatorKeeps
<1> HIDE DEF ch
<1>10. /\ IsChain(chain') /\ chain'.phase = chain.phase /\ chain'.order = Append(chain.order, next)
       /\ chain'.started = chain.started /\ chain'.stop \in {chain.stop, "failure"}
  BY <1>8, <1>9 DEF Like, Alike
<1>11. RunIsPlaced(log', run', chain')
  <2>1. \A r \in Runs : r > next => r > run.id
    BY <1>4 DEF Runs
  <2>2. \A r \in Runs : r > next => log'[r] = <<>>
    BY <1>1, <1>9, <2>1 DEF RunIsPlaced
  <2> QED BY <1>3, <1>4, <1>5, <1>7, <1>9, <1>10, <2>2 DEF RunIsPlaced
<1>12. ChainIsPlaced(log', chain')
  BY <1>1, <1>7, <1>9, <1>10 DEF ChainIsPlaced
<1>13. IsSession(session') /\ session'.request = session.request
  BY <1>1, <1>2 DEF IsSession
<1>14. RequestIsPlaced(log', chain', session')
  <2>1. session.request # 0 => session.request \in Runs
    BY <1>1 DEF IsSession, Runs
  <2>2. \A r : InOrder(chain, r) => InOrder(chain', r)
    BY <1>7, <1>10 DEF InOrder
  <2> QED BY <1>1, <1>9, <1>10, <1>13, <2>1, <2>2 DEF RequestIsPlaced
<1>15. StreamIInv'
  BY <1>3, <1>6, <1>9, <1>10, <1>11, <1>12, <1>13, <1>14, ServerStep
<1> QED BY <1>10, <1>15 DEF Orderly

\* The end of a chain
LEMMA CompletedIsChain ==
  ASSUME NEW ch, IsChain(ch), NEW new, new = Completed(ch)
  PROVE  IsChain(new) /\ new.phase = "finished" /\ new.order = ch.order /\ new.started = ch.started
         /\ new.stop = ch.stop
<1>1. new = [ch EXCEPT !.phase = "finished", !.timer = FALSE]
  BY DEF Completed
<1>2. /\ new = [phase |-> new.phase, order |-> new.order, started |-> new.started, held |-> new.held,
                 timer |-> new.timer, watched |-> new.watched, stop |-> new.stop, halted |-> new.halted]
      /\ new.phase = "finished" /\ new.order = ch.order /\ new.started = ch.started /\ new.held = ch.held
      /\ new.timer = FALSE /\ new.stop = ch.stop
  BY <1>1 DEF IsChain
<1> QED BY <1>2 DEF IsChain

LEMMA EndChainKeeps == ASSUME StreamIInv, EndChain PROVE StreamIInv' /\ Orderly
<1>1. /\ LogOK(log) /\ ConnsOK(log, conns) /\ IsRun(run) /\ IsChain(chain) /\ IsSession(session)
      /\ RunIsPlaced(log, run, chain) /\ ChainIsPlaced(log, chain) /\ RequestIsPlaced(log, chain, session)
  BY DEF StreamIInv, ServerIInv
<1>2. /\ chain' = Completed(chain) /\ run' = [run EXCEPT !.at = "over"] /\ chain.phase = "open"
      /\ session' = session /\ log' = log /\ conns' = conns /\ tab' = tab /\ view' = view
      /\ run.at = "published"
  BY DEF EndChain, page
<1>3. IsChain(chain') /\ chain'.phase = "finished" /\ chain'.order = chain.order
      /\ chain'.started = chain.started /\ chain'.stop = chain.stop
  BY <1>1, <1>2, CompletedIsChain
<1>4. IsRun(run') /\ run'.id = run.id /\ run'.at = "over"
  BY <1>1, <1>2 DEF IsRun
<1>5. RunIsPlaced(log, run', chain')
  BY <1>1, <1>4 DEF RunIsPlaced
<1>6. ChainIsPlaced(log, chain') /\ RequestIsPlaced(log, chain', session)
  BY <1>1, <1>2, <1>3 DEF ChainIsPlaced, RequestIsPlaced, InOrder
<1>7. StreamIInv'
  BY <1>1, <1>2, <1>3, <1>4, <1>5, <1>6, GrowsNot, ServerStep
<1> QED BY <1>3, <1>7 DEF Orderly

LEMMA ChainFailsKeeps == ASSUME StreamIInv, ChainFails PROVE StreamIInv' /\ Orderly
<1> DEFINE r == run.id
           start == [log |-> log, conns |-> conns, chain |-> chain]
           p == Payload("run_started", 0, 0)
           q == Payload("stream_error", 0, 0)
           mid == Published(start, r, p)
           st == Published(mid, r, q)
<1>1. /\ LogOK(log) /\ ConnsOK(log, conns) /\ IsRun(run) /\ IsChain(chain) /\ IsSession(session)
      /\ RunIsPlaced(log, run, chain) /\ ChainIsPlaced(log, chain) /\ RequestIsPlaced(log, chain, session)
  BY DEF StreamIInv, ServerIInv
<1>2. /\ log' = st.log /\ conns' = st.conns /\ chain' = Completed(st.chain) /\ run.at = "registered"
      /\ run' = [run EXCEPT !.at = "over"] /\ session' = session /\ tab' = tab /\ view' = view
  BY DEF ChainFails, page
<1>3. r \in Runs /\ log[r] = <<>>
  BY <1>1, <1>2 DEF RunIsPlaced
<1>4. p.kind = "run_started" /\ q.kind # "run_started"
  BY PayloadKind
<1>5. start.log = log /\ start.conns = conns /\ start.chain = chain /\ DOMAIN conns = 1..MaxConns
  BY <1>1 DEF ConnsOK
<1> HIDE DEF start, p, q, mid, st, r
<1>6. /\ LogOK(mid.log) /\ Grows(log, mid.log) /\ Len(mid.log[r]) = Len(log[r]) + 1
      /\ \A x \in Runs \ {r} : mid.log[x] = log[x]
      /\ ConnsOK(mid.log, mid.conns) /\ MayFail(chain, mid.chain)
  BY <1>1, <1>3, <1>4, <1>5, PublishedKeeps DEF mid
<1>7. mid.log[r] # <<>> /\ Len(mid.log[r]) \in Nat
  BY <1>1, <1>3, <1>6, SeqFacts DEF LogOK
<1>8. /\ LogOK(st.log) /\ Grows(mid.log, st.log) /\ Len(st.log[r]) = Len(mid.log[r]) + 1
      /\ \A x \in Runs \ {r} : st.log[x] = mid.log[x]
      /\ ConnsOK(st.log, st.conns) /\ MayFail(mid.chain, st.chain)
  BY <1>3, <1>4, <1>5, <1>6, <1>7, PublishedKeeps DEF st
<1>9. Grows(log, st.log) /\ MayFail(chain, st.chain) /\ st.log[r] # <<>> /\ \A x \in Runs \ {r} : st.log[x] = log[x]
  <2>1. Grows(log, st.log)
    BY <1>1, <1>6, <1>8, GrowsOn
  <2>2. MayFail(chain, st.chain)
    BY <1>6, <1>8 DEF MayFail
  <2>3. st.log[r] # <<>>
    BY <1>3, <1>7, <1>8, SeqFacts DEF LogOK
  <2> QED BY <1>6, <1>8, <2>1, <2>2, <2>3
<1>10. /\ IsChain(chain') /\ chain'.phase = "finished" /\ chain'.order = chain.order
       /\ chain'.started = chain.started /\ chain'.stop \in {chain.stop, "failure"}
  <2>1. Like(chain, st.chain)
    BY <1>1, <1>9, MayFailIsLike
  <2> QED BY <1>2, <2>1, CompletedIsChain DEF Like, Alike
<1>11. IsRun(run') /\ run'.id = r /\ run'.at = "over"
  BY <1>1, <1>2 DEF IsRun, r
<1>12. RunIsPlaced(log', run', chain')
  <2>1. \A x \in Runs : x > r => x \in Runs \ {r}
    BY <1>3 DEF Runs
  <2> QED BY <1>1, <1>2, <1>9, <1>11, <2>1 DEF RunIsPlaced, r
<1>13. ChainIsPlaced(log', chain')
  <2>1. chain'.order # <<>>
    BY <1>1, <1>2, <1>10 DEF RunIsPlaced
  <2>2. ASSUME NEW x \in chain'.started PROVE x \in Runs /\ log'[x] # <<>>
    <3>1. x \in Runs /\ log[x] # <<>>
      BY <1>1, <1>10, <2>2 DEF ChainIsPlaced
    <3> QED BY <1>2, <1>9, <3>1
  <2> QED BY <2>1, <2>2 DEF ChainIsPlaced
<1>14. RequestIsPlaced(log', chain', session)
  <2>1. session.request # 0 => session.request \in Runs
    BY <1>1 DEF IsSession, Runs
  <2>2. chain.order = <<r>>
    BY <1>1, <1>2 DEF RunIsPlaced, r
  <2>3. SUFFICES ASSUME session.request # 0 PROVE log'[session.request] # <<>> /\ InOrder(chain', session.request)
    BY DEF RequestIsPlaced
  <2>4. log[session.request] # <<>> /\ (chain.phase # "none" => InOrder(chain, session.request))
    BY <1>1, <2>3 DEF RequestIsPlaced
  <2>5. log'[session.request] # <<>>
    BY <1>2, <1>9, <2>1, <2>3, <2>4
  <2>6. chain.phase # "none"
    BY <1>1, <1>2 DEF RunIsPlaced
  <2>7. InOrder(chain', session.request)
    BY <1>10, <2>4, <2>6 DEF InOrder
  <2> QED BY <2>5, <2>7
<1>15. StreamIInv'
  BY <1>1, <1>2, <1>8, <1>9, <1>10, <1>11, <1>12, <1>13, <1>14, ServerStep
<1> QED BY <1>10, <1>15 DEF Orderly

\* What the coordinator says of the Queue, of a chain and a Run that go on.
LEMMA QueueIsTold ==
  ASSUME StreamIInv, NEW ch, Alike(chain, ch), ch.stop = chain.stop, chain.order # <<>>, NEW ps, Quiet(ps),
         CoordinatorEvents(ch, ps), run' = run, IsSession(session'), session'.request = session.request,
         tab' = tab, view' = view
  PROVE  StreamIInv' /\ Orderly
<1>1. /\ LogOK(log) /\ ConnsOK(log, conns) /\ IsRun(run) /\ IsChain(chain) /\ IsSession(session)
      /\ RunIsPlaced(log, run, chain) /\ ChainIsPlaced(log, chain) /\ RequestIsPlaced(log, chain, session)
  BY DEF StreamIInv, ServerIInv
<1>2. IsChain(ch) /\ ch.order # <<>> /\ ch.started \subseteq {r \in Runs : log[r] # <<>>}
  BY <1>1 DEF Alike, ChainIsPlaced
<1>3. /\ LogOK(log') /\ Grows(log, log') /\ ConnsOK(log', conns') /\ Like(ch, chain')
      /\ \A x \in Runs : log'[x] = <<>> <=> log[x] = <<>>
  BY <1>1, <1>2, CoordinatorKeeps
<1>4. Alike(chain, chain') /\ chain'.stop \in {chain.stop, "failure"}
  BY <1>3 DEF Like, Alike
<1>5. /\ IsChain(chain') /\ ChainIsPlaced(log', chain') /\ RequestIsPlaced(log', chain', session)
      /\ RunIsPlaced(log', run, chain')
  BY <1>1, <1>3, <1>4, AlikeStands
<1>6. RequestIsPlaced(log', chain', session')
  BY <1>5 DEF RequestIsPlaced
<1>7. StreamIInv'
  BY <1>1, <1>3, <1>5, <1>6, ServerStep
<1> QED BY <1>4, <1>7 DEF Orderly

LEMMA HaltKeeps == ASSUME StreamIInv, Halt PROVE StreamIInv' /\ Orderly
<1> DEFINE pauses == session.queue # {}
           ch == [chain EXCEPT !.halted = TRUE]
           p == Payload("chain_paused", 0, 0)
           ps == IF pauses THEN <<p>> ELSE <<>>
<1>1. IsChain(chain) /\ IsSession(session) /\ ChainIsPlaced(log, chain)
  BY DEF StreamIInv, ServerIInv
<1>2. /\ session' = IF pauses THEN [session EXCEPT !.paused = TRUE, !.rev = @ + 1] ELSE session
      /\ CoordinatorEvents(ch, ps) /\ run' = run /\ tab' = tab /\ view' = view /\ chain.phase = "open"
  BY DEF Halt, page
<1>3. Quiet(ps)
  <2>1. p.kind # "run_started"
    BY PayloadKind
  <2> HIDE DEF p
  <2> QED BY <2>1, QuietOne, QuietNothing
<1>4. Alike(chain, ch) /\ ch.stop = chain.stop
  <2>1. ch = [chain EXCEPT !.halted = TRUE]
    OBVIOUS
  <2> HIDE DEF ch
  <2>2. /\ ch = [phase |-> ch.phase, order |-> ch.order, started |-> ch.started, held |-> ch.held,
                 timer |-> ch.timer, watched |-> ch.watched, stop |-> ch.stop, halted |-> ch.halted]
        /\ ch.phase = chain.phase /\ ch.order = chain.order /\ ch.started = chain.started /\ ch.held = chain.held
        /\ ch.timer = chain.timer /\ ch.watched = chain.watched /\ ch.stop = chain.stop
    BY <1>1, <2>1 DEF IsChain
  <2> QED BY <1>1, <2>2 DEF Alike, IsChain
<1>5. chain.order # <<>>
  BY <1>1, <1>2 DEF ChainIsPlaced
<1> HIDE DEF ps, ch
<1>6. IsSession(session') /\ session'.request = session.request
  BY <1>1, <1>2 DEF IsSession
<1> QED BY <1>2, <1>3, <1>4, <1>5, <1>6, QueueIsTold

LEMMA EnqueueKeeps == ASSUME StreamIInv, Enqueue PROVE StreamIInv' /\ Orderly
<1> DEFINE item == spent.items + 1
           rv == session.rev + 1
           p == Payload("queue_added", item, rv)
<1>1. IsChain(chain) /\ IsSession(session) /\ RunIsPlaced(log, run, chain)
  BY DEF StreamIInv, ServerIInv
<1>2. /\ session' = [session EXCEPT !.queue = @ \cup {item}, !.rev = rv]
      /\ CoordinatorEvents(chain, <<p>>) /\ run' = run /\ tab' = tab /\ view' = view /\ run.at # "over"
  BY DEF Enqueue, Driven
<1>3. Quiet(<<p>>)
  <2>1. p.kind # "run_started"
    BY PayloadKind
  <2> HIDE DEF p
  <2> QED BY <2>1, QuietOne
<1> HIDE DEF p
<1>4. Alike(chain, chain) /\ chain.order # <<>>
  BY <1>1, <1>2 DEF Alike, RunIsPlaced
<1>5. IsSession(session') /\ session'.request = session.request
  BY <1>1, <1>2 DEF IsSession
<1> QED BY <1>2, <1>3, <1>4, <1>5, QueueIsTold

LEMMA RestartKeeps == ASSUME StreamIInv, Restart PROVE StreamIInv' /\ Orderly
<1>1. /\ LogOK(log) /\ ConnsOK(log, conns) /\ IsRun(run) /\ IsSession(session)
      /\ RunIsPlaced(log, run, chain) /\ RequestIsPlaced(log, chain, session)
  BY DEF StreamIInv, ServerIInv
<1>2. /\ chain' = NoChain /\ conns' = [c \in DOMAIN conns |-> NoConn] /\ log' = log
      /\ run' = [run EXCEPT !.at = "over", !.ok = FALSE] /\ tab' = tab /\ view' = view
      /\ session' = IF session.active = None THEN session
                    ELSE [session EXCEPT !.active = None, !.status = "failed", !.rev = @ + 1,
                                         !.paused = @ \/ session.queue # {}]
  BY DEF Restart
<1>3. IsChain(chain') /\ chain'.phase = "none" /\ chain'.started = {} /\ chain'.stop = None
  BY <1>2, NoChainIsChain DEF NoChain
<1>4. ConnsOK(log', conns')
  BY <1>1, <1>2, HeardNothing DEF ConnsOK, IsConn, NoConn
<1>5. IsRun(run') /\ run'.id = run.id /\ run'.at = "over"
  BY <1>1, <1>2 DEF IsRun
<1>6. IsSession(session') /\ session'.request = session.request
  BY <1>1, <1>2 DEF IsSession
<1>7. RunIsPlaced(log', run', chain')
  BY <1>1, <1>2, <1>5 DEF RunIsPlaced
<1>8. ChainIsPlaced(log', chain') /\ RequestIsPlaced(log', chain', session')
  BY <1>1, <1>2, <1>3, <1>6 DEF ChainIsPlaced, RequestIsPlaced
<1>9. StreamIInv'
  BY <1>1, <1>2, <1>3, <1>4, <1>5, <1>6, <1>7, <1>8, GrowsNot, ServerStep
<1> QED BY <1>3, <1>9 DEF Orderly

-------------------------------------------------------------------------------
(* Connections *)

LEMMA ConnPut ==
  ASSUME NEW lg, NEW cs, ConnsOK(lg, cs), NEW c \in 1..MaxConns, NEW x, IsConn(lg, x)
  PROVE  ConnsOK(lg, [cs EXCEPT ![c] = x])
BY DEF ConnsOK

LEMMA NoConnIsConn == ASSUME NEW lg PROVE IsConn(lg, NoConn)
BY HeardNothing DEF IsConn, NoConn

\* Steps of the page, or of its connections, while the Runs stand still
LEMMA TimerKeeps ==
  ASSUME StreamIInv, IsChain(chain), NEW on \in BOOLEAN, NEW seen, on => ~seen, 
         chain' = [chain EXCEPT !.timer = on, !.watched = seen]
  PROVE  Alike(chain, chain') /\ chain'.stop = chain.stop
BY DEF Alike, IsChain

LEMMA NoticeKeeps == ASSUME StreamIInv, NEW c \in DOMAIN conns, Notice(c) PROVE StreamIInv' /\ Orderly
<1>1. LogOK(log) /\ ConnsOK(log, conns) /\ IsChain(chain) /\ IsStream(log, tab) /\ Truth(log, view)
  BY DEF StreamIInv, ServerIInv, PageIInv
<1>2. /\ conns' = [conns EXCEPT ![c] = NoConn] /\ log' = log /\ run' = run /\ session' = session
      /\ tab' = tab /\ view' = view
      /\ chain' = [chain EXCEPT !.timer = TRUE, !.watched = FALSE] \/ chain' = chain
  BY DEF Notice, page
<1>3. ConnsOK(log, conns')
  BY <1>1, <1>2, ConnPut, NoConnIsConn DEF ConnsOK
<1>4. Alike(chain, chain') /\ chain'.stop = chain.stop
  BY <1>1, <1>2, TimerKeeps DEF Alike
<1>5. StreamIInv'
  BY <1>1, <1>2, <1>3, <1>4, PageStep
<1> QED BY <1>4, <1>5 DEF Orderly

LEMMA GraceEndsKeeps == ASSUME StreamIInv, GraceEnds PROVE StreamIInv' /\ GraceStep
<1> DEFINE ch == [chain EXCEPT !.timer = FALSE]
<1>1. LogOK(log) /\ ConnsOK(log, conns) /\ IsChain(chain) /\ IsStream(log, tab) /\ Truth(log, view)
  BY DEF StreamIInv, ServerIInv, PageIInv
<1>2. /\ conns' = conns /\ log' = log /\ run' = run /\ session' = session
      /\ tab' = tab /\ view' = view /\ chain.timer
      /\ chain' = [ch EXCEPT !.stop = "disconnect"] \/ chain' = ch
  BY DEF GraceEnds, page, Stopped
<1>3. Alike(chain, chain')
  BY <1>1, <1>2 DEF Alike, IsChain
<1>4. StreamIInv'
  BY <1>1, <1>2, <1>3, PageStep
<1>5. ~chain.watched
  BY <1>1, <1>2 DEF IsChain
<1> QED BY <1>4, <1>5 DEF GraceStep

LEMMA ReconstructedHeard ==
  ASSUME LogOK(log), NEW r \in Runs, log[r] # <<>>, NEW n \in Nat
  PROVE  Heard(log, Reconstructed(r, n))
<1> DEFINE first == Envelope(r, 1, Payload("run_started", 0, 0))
           last == Envelope(r, IF n < 1 THEN 2 ELSE n + 1, Finished(r \in session.ok, Snapshot))
<1>1. r \in 1..Phantom
  BY RunNumbers
<1>2. IsReal(log, first)
  <2>1. first.run = r /\ first.seq = 1 /\ first.event.kind = "run_started"
    BY PayloadKind DEF Envelope
  <2> HIDE DEF first
  <2> QED BY <1>1, <2>1 DEF IsReal
<1>3. IsReal(log, last)
  <2>1. last.run = r /\ last.seq = (IF n < 1 THEN 2 ELSE n + 1) /\ last.event.kind = "run_finished"
    BY DEF Envelope, Finished
  <2>2. last.seq \in Nat \ {0}
    BY <2>1
  <2> HIDE DEF last
  <2> QED BY <1>1, <2>1, <2>2 DEF IsReal, Ending
<1>4. Reconstructed(r, n) = (IF n = 0 THEN <<first>> ELSE <<>>) \o <<last>>
  BY DEF Reconstructed
<1> HIDE DEF first, last
<1>5. Heard(log, IF n = 0 THEN <<first>> ELSE <<>>) /\ Heard(log, <<last>>)
  BY <1>2, <1>3, HeardOne, HeardNothing
<1> QED BY <1>4, <1>5, HeardConcat

LEMMA ConnectKeeps ==
  ASSUME ConnsOK(log, conns), NEW c \in 1..MaxConns, NEW q, Heard(log, q), NEW once,
         Connect(c, [st |-> "open", q |-> q, once |-> once])
  PROVE  ConnsOK(log, conns') /\ tab' = [tab EXCEPT !.conn = c]
<1>1. IsConn(log, [st |-> "open", q |-> q, once |-> once])
  BY DEF IsConn
<1> QED BY <1>1, ConnPut DEF Connect

LEMMA ConnectedIsStream ==
  ASSUME IsStream(log, tab), NEW c \in 1..MaxConns, tab' = [tab EXCEPT !.conn = c]
  PROVE  IsStream(log, tab')
BY StreamAssumption DEF IsStream

LEMMA FreeConns == ASSUME ConnsOK(log, conns), NEW c \in Free PROVE c \in 1..MaxConns
BY DEF ConnsOK, Free

\* A request that is known is attached to its chain, or told what became of it.
LEMMA PostAgainKeeps == ASSUME StreamIInv, PostAgain PROVE StreamIInv' /\ Orderly
<1>1. /\ LogOK(log) /\ ConnsOK(log, conns) /\ IsChain(chain) /\ IsSession(session)
      /\ RequestIsPlaced(log, chain, session) /\ IsStream(log, tab) /\ Truth(log, view)
  BY DEF StreamIInv, ServerIInv, PageIInv
<1> DEFINE r == session.request
           n == RootSeq
<1>2. PICK c \in Free :
       IF chain.phase # "none" THEN Attach(c, r, n)
       ELSE Connect(c, Once(Reconstructed(r, n))) /\ UNCHANGED chain
  BY DEF PostAgain
<1>3. log' = log /\ run' = run /\ session' = session /\ view' = view /\ r # 0 /\ tab.mode = "post"
  BY DEF PostAgain, Posting
<1>4. r \in Runs /\ log[r] # <<>> /\ (chain.phase # "none" => InOrder(chain, r))
  BY <1>1, <1>3 DEF RequestIsPlaced, IsSession, Runs
<1>5. n \in Nat
  <2>1. tab.root = 0 \/ tab.root \in 1..Phantom
    BY <1>1, <1>3, RunNumbers DEF IsStream
  <2> QED BY <1>1, <2>1 DEF RootSeq, IsStream
<1>6. c \in 1..MaxConns
  BY <1>1, <1>2, FreeConns
<1> HIDE DEF r, n
<1>7. ConnsOK(log, conns') /\ tab' = [tab EXCEPT !.conn = c] /\ Like(chain, chain')
  <2>1. CASE chain.phase # "none"
    BY <1>1, <1>2, <1>4, <1>5, <1>6, <2>1, AttachKeeps DEF InOrder
  <2>2. CASE chain.phase = "none"
    <3>1. Connect(c, [st |-> "open", q |-> Reconstructed(r, n), once |-> TRUE]) /\ chain' = chain
      BY <1>2, <2>2 DEF Once
    <3>2. Heard(log, Reconstructed(r, n))
      BY <1>1, <1>4, <1>5, ReconstructedHeard
    <3> QED BY <1>1, <1>6, <3>1, <3>2, ConnectKeeps, SameChain
  <2> QED BY <2>1, <2>2
<1>8. IsStream(log, tab')
  BY <1>1, <1>6, <1>7, ConnectedIsStream
<1>9. StreamIInv'
  BY <1>1, <1>3, <1>7, <1>8, PageStep DEF Like
<1> QED BY <1>7, <1>9 DEF Like, Orderly

\* One that is not known begins a chain, with a Run that has let out nothing.
LEMMA PostFirstKeeps == ASSUME StreamIInv, PostFirst PROVE StreamIInv' /\ Orderly
<1>1. /\ LogOK(log) /\ ConnsOK(log, conns) /\ IsRun(run) /\ IsChain(chain) /\ IsSession(session)
      /\ RunIsPlaced(log, run, chain) /\ IsStream(log, tab) /\ Truth(log, view)
  BY DEF StreamIInv, ServerIInv, PageIInv
<1> DEFINE p == Envelope(Phantom, 1, Payload("run_started", 0, 0))
           q == Envelope(Phantom, 2, Payload("stream_error", 0, 0))
           next == run.id + 1
<1>2. PICK c \in Free :
       IF chain.phase = "open"
       THEN Connect(c, Once(<<p, q>>)) /\ chain' = chain /\ run' = run
       ELSE /\ run.id < MaxRuns
            /\ run' = [NoRun EXCEPT !.id = next, !.at = "registered"]
            /\ chain' = [NoChain EXCEPT !.phase = "open", !.order = <<next>>, !.watched = TRUE]
            /\ Connect(c, [st |-> "open", q |-> <<>>, once |-> FALSE])
  BY DEF PostFirst
<1>3. log' = log /\ session' = session /\ view' = view /\ session.request = 0
  BY DEF PostFirst
<1>4. c \in 1..MaxConns
  BY <1>1, <1>2, FreeConns
<1>5. CASE chain.phase = "open"
  <2>1. Connect(c, [st |-> "open", q |-> <<p, q>>, once |-> TRUE]) /\ chain' = chain /\ run' = run
    BY <1>2, <1>5 DEF Once
  <2>2. Phantom \in 1..Phantom /\ Phantom \notin Runs
    BY RunNumbers, StreamAssumption DEF Phantom
  <2>3. IsReal(log, p)
    <3>1. p.run = Phantom /\ p.seq = 1 /\ p.event.kind = "run_started"
      BY PayloadKind DEF Envelope
    <3> HIDE DEF p
    <3> QED BY <2>2, <3>1 DEF IsReal
  <2>4. IsReal(log, q)
    <3>1. q.run = Phantom /\ q.seq = 2 /\ q.event.kind = "stream_error"
      BY PayloadKind DEF Envelope
    <3> HIDE DEF q
    <3> QED BY <2>2, <3>1 DEF IsReal, Ending
  <2> HIDE DEF p, q
  <2>5. Heard(log, <<p, q>>)
    <3> DEFINE S == {p, q}
               both == <<p, q>>
    <3>1. both \in Seq(S) /\ \A e \in S : IsReal(log, e)
      BY <2>3, <2>4
    <3> HIDE DEF S, both
    <3>2. Heard(log, both)
      BY <3>1 DEF Heard
    <3> QED BY <3>2 DEF both
  <2>6. ConnsOK(log, conns') /\ tab' = [tab EXCEPT !.conn = c] /\ Like(chain, chain')
    BY <1>1, <1>4, <2>1, <2>5, ConnectKeeps, SameChain
  <2>7. IsStream(log, tab')
    BY <1>1, <1>4, <2>6, ConnectedIsStream
  <2>8. StreamIInv'
    BY <1>1, <1>3, <2>1, <2>6, <2>7, PageStep DEF Like
  <2> QED BY <2>6, <2>8 DEF Like, Orderly
<1>6. CASE chain.phase # "open"
  <2>1. /\ run' = [NoRun EXCEPT !.id = next, !.at = "registered"]
        /\ chain' = [NoChain EXCEPT !.phase = "open", !.order = <<next>>, !.watched = TRUE]
        /\ Connect(c, [st |-> "open", q |-> <<>>, once |-> FALSE]) /\ run.id < MaxRuns
    BY <1>2, <1>6
  <2>2. run.id \in Nat /\ MaxRuns \in Nat
    BY <1>1, RunNumbers DEF IsRun
  <2>3. next \in Runs /\ next \in 0..MaxRuns /\ next > run.id /\ \A r \in Runs : r > next => r > run.id
    BY <2>1, <2>2 DEF Runs
  <2> HIDE DEF next
  <2>4. IsRun(run') /\ run'.id = next /\ run'.at = "registered"
    BY <2>1, <2>3 DEF IsRun, NoRun
  <2>5. IsChain(NoChain)
    BY NoChainIsChain
  <2>6. <<next>> \in Seq(Runs) /\ <<next>> # <<>>
    BY <2>3
  <2>7. chain' = [phase |-> "open", order |-> <<next>>, started |-> {}, held |-> NoChain.held,
                  timer |-> FALSE, watched |-> TRUE, stop |-> None, halted |-> FALSE]
    BY <2>1 DEF NoChain
  <2>8. IsChain(chain') /\ chain'.order = <<next>> /\ chain'.started = {} /\ chain'.stop = None
        /\ chain'.phase = "open"
    BY <2>5, <2>6, <2>7 DEF IsChain
  <2>9. ConnsOK(log, conns') /\ tab' = [tab EXCEPT !.conn = c]
    BY <1>1, <1>4, <2>1, HeardNothing, ConnectKeeps
  <2>10. IsStream(log, tab')
    BY <1>1, <1>4, <2>9, ConnectedIsStream
  <2>11. log[next] = <<>> /\ \A r \in Runs : r > next => log[r] = <<>>
    BY <1>1, <2>3 DEF RunIsPlaced
  <2>12. RunIsPlaced(log, run', chain')
    BY <2>3, <2>4, <2>6, <2>8, <2>11 DEF RunIsPlaced
  <2>13. ChainIsPlaced(log, chain') /\ RequestIsPlaced(log, chain', session)
    BY <1>3, <2>6, <2>8 DEF ChainIsPlaced, RequestIsPlaced
  <2>14. ServerIInv'
    BY <1>1, <1>3, <2>4, <2>8, <2>9, <2>12, <2>13 DEF ServerIInv
  <2>15. PageIInv'
    BY <1>1, <1>3, <2>10 DEF PageIInv
  <2> QED BY <2>8, <2>14, <2>15 DEF StreamIInv, Orderly
<1> QED BY <1>5, <1>6

LEMMA GetArrivesKeeps == ASSUME StreamIInv, GetArrives PROVE StreamIInv' /\ Orderly
<1>1. /\ LogOK(log) /\ ConnsOK(log, conns) /\ IsChain(chain) /\ ChainIsPlaced(log, chain)
      /\ IsStream(log, tab) /\ Truth(log, view)
  BY DEF StreamIInv, ServerIInv, PageIInv
<1>2. PICK c \in Free : Attach(c, tab.root, tab.last[tab.root])
  BY DEF GetArrives
<1>3. log' = log /\ run' = run /\ session' = session /\ view' = view /\ Known(tab.root)
  BY DEF GetArrives
<1>4. chain.order \in Seq(Runs) /\ Len(chain.order) \in Nat
  BY <1>1, LenProperties DEF IsChain
<1>5. PICK i \in 1..Len(chain.order) : chain.order[i] = tab.root
  <2>1. CASE chain.phase = "open"
    BY <1>3, <2>1 DEF Known
  <2>2. CASE chain.phase = "finished"
    <3>1. chain.order # <<>> /\ chain.order[1] = tab.root
      BY <1>1, <1>3, <2>2 DEF Known, ChainIsPlaced
    <3>2. 1 \in 1..Len(chain.order)
      BY <1>4, <3>1, EmptySeq
    <3> QED BY <3>1, <3>2
  <2> QED BY <1>3, <2>1, <2>2 DEF Known
<1>6. tab.last[tab.root] \in Nat
  <2>1. tab.root \in 1..Phantom
    BY <1>4, <1>5, RunNumbers, ElementOfSeq
  <2> QED BY <1>1, <2>1 DEF IsStream
<1>7. c \in 1..MaxConns
  BY <1>1, <1>2, FreeConns
<1>8. ConnsOK(log, conns') /\ tab' = [tab EXCEPT !.conn = c] /\ Like(chain, chain')
  BY <1>1, <1>2, <1>5, <1>6, <1>7, AttachKeeps
<1>9. IsStream(log, tab')
  BY <1>1, <1>7, <1>8, ConnectedIsStream
<1>10. StreamIInv'
  BY <1>1, <1>3, <1>8, <1>9, PageStep DEF Like
<1> QED BY <1>8, <1>10 DEF Like, Orderly


-------------------------------------------------------------------------------
(* The page *)

LEMMA SameConns == ASSUME ConnsOK(log, conns), conns' = conns PROVE ConnsOK(log, conns')
OBVIOUS

\* Steps of the page that leave the chain alone
LEMMA PageGoes ==
  ASSUME StreamIInv, log' = log, run' = run, chain' = chain, session' = session, ConnsOK(log, conns'),
         IsStream(log, tab'), Truth(log, view')
  PROVE  StreamIInv' /\ Orderly
<1>1. IsChain(chain)
  BY DEF StreamIInv, ServerIInv
<1>2. Like(chain, chain')
  BY <1>1, SameChain
<1>3. StreamIInv'
  BY <1>2, PageStep DEF Like
<1> QED BY <1>3 DEF Orderly

LEMMA ArrivedIsStream ==
  ASSUME NEW lg, IsStream(lg, tab), NEW e, IsReal(lg, e), NEW ended, NEW held, Heard(lg, held), NEW root,
         root \in {tab.root, e.run}, NEW new, new = [Arrived(e, ended) EXCEPT !.root = root, !.held = held]
  PROVE  IsStream(lg, new)
<1> DEFINE last == [tab.last EXCEPT ![e.run] = e.seq]
           error == tab.error \/ e.event.kind = "stream_error"
<1>1. last \in [1..Phantom -> Nat] /\ (tab.mode = "post" => root \in 0..Phantom)
  <2>1. e.run \in 1..Phantom /\ e.seq \in Nat
    BY DEF IsReal
  <2> QED BY <2>1, RunNumbers DEF IsStream
<1> DEFINE mid == Arrived(e, ended)
<1>2. mid = [tab EXCEPT !.last = last, !.run = e.run, !.ended = ended, !.error = error]
  BY DEF Arrived
<1>5. new = [mid EXCEPT !.root = root, !.held = held]
  OBVIOUS
<1> HIDE DEF last, error, mid
<1>6. /\ mid = [mode |-> mid.mode, tries |-> mid.tries, conn |-> mid.conn, last |-> mid.last, root |-> mid.root,
               run |-> mid.run, held |-> mid.held, probe |-> mid.probe, ended |-> mid.ended, error |-> mid.error]
      /\ mid.mode = tab.mode /\ mid.conn = tab.conn /\ mid.last = last
  BY <1>2 DEF IsStream
<1>3. /\ new = [mode |-> new.mode, tries |-> new.tries, conn |-> new.conn, last |-> new.last, root |-> new.root,
               run |-> new.run, held |-> new.held, probe |-> new.probe, ended |-> new.ended, error |-> new.error]
      /\ new.mode = mid.mode /\ new.conn = mid.conn /\ new.last = mid.last /\ new.root = root /\ new.held = held
  BY <1>5, <1>6
<1>4. tab.conn \in 0..MaxConns
  BY DEF IsStream
<1> QED BY <1>1, <1>3, <1>4, <1>6 DEF IsStream

LEMMA DeliverKeeps == ASSUME StreamIInv, Deliver PROVE StreamIInv' /\ Orderly
<1>1. /\ LogOK(log) /\ ConnsOK(log, conns) /\ IsStream(log, tab) /\ Truth(log, view)
  BY DEF StreamIInv, ServerIInv, PageIInv
<1> DEFINE c == tab.conn
           q == conns[c].q
           e == Head(q)
           posts == tab.mode = "post"
           root == IF tab.root = 0 THEN e.run ELSE tab.root
           ended == Terminal(e) \/ (~posts /\ e.event.kind = "stream_error")
<1>2. /\ c # 0 /\ q # <<>> /\ conns' = [conns EXCEPT ![c].q = Tail(@)]
      /\ log' = log /\ run' = run /\ chain' = chain /\ session' = session
  BY DEF Deliver
<1>3. \/ tab' = tab /\ view' = view
      \/ tab' = [Arrived(e, FALSE) EXCEPT !.root = root, !.held = Append(tab.held, e)] /\ view' = view
      \/ tab' = [Arrived(e, ended) EXCEPT !.root = root, !.held = <<>>]
         /\ view' = Reduce(ReduceAll(view, tab.held), e)
  BY DEF Deliver, Arrived, page
<1>4. c \in 1..MaxConns /\ conns[c] = [st |-> conns[c].st, q |-> q, once |-> conns[c].once] /\ Heard(log, q)
  BY <1>1, <1>2, StreamAssumption DEF IsStream, ConnsOK, IsConn
<1> HIDE DEF c
<1>5. IsReal(log, e) /\ Heard(log, Tail(q))
  BY <1>2, <1>4, HeardTail
<1>6. ConnsOK(log, conns')
  <2> DEFINE x == [conns[c] EXCEPT !.q = Tail(@)]
           rest == Tail(q)
  <2>2. conns' = [conns EXCEPT ![c] = x]
    BY <1>2
  <2>1. x = [conns[c] EXCEPT !.q = rest]
    OBVIOUS
  <2> HIDE DEF x, q
  <2>4. x = [st |-> x.st, q |-> x.q, once |-> x.once] /\ x.q = rest
    BY <1>4, <2>1
  <2>3. IsConn(log, x)
    BY <1>5, <2>4 DEF IsConn
  <2> QED BY <1>1, <1>4, <2>2, <2>3, ConnPut
<1> HIDE DEF q, e, ended
<1>7. root \in {tab.root, e.run} /\ Heard(log, tab.held)
  BY <1>1 DEF IsStream
<1> HIDE DEF root
<1>8. CASE tab' = tab /\ view' = view
  BY <1>1, <1>2, <1>6, <1>8, PageGoes
<1>9. CASE tab' = [Arrived(e, FALSE) EXCEPT !.root = root, !.held = Append(tab.held, e)] /\ view' = view
  <2>1. Heard(log, Append(tab.held, e))
    BY <1>5, <1>7, HeardAppend
  <2>2. IsStream(log, tab')
    BY <1>1, <1>5, <1>7, <1>9, <2>1, ArrivedIsStream
  <2> QED BY <1>1, <1>2, <1>6, <1>9, <2>2, PageGoes
<1>10. CASE /\ tab' = [Arrived(e, ended) EXCEPT !.root = root, !.held = <<>>]
            /\ view' = Reduce(ReduceAll(view, tab.held), e)
  <2>1. IsStream(log, tab')
    BY <1>1, <1>5, <1>7, <1>10, HeardNothing, ArrivedIsStream
  <2>2. Truth(log, ReduceAll(view, tab.held))
    BY <1>1, <1>7, ReduceAllTruth
  <2>3. Truth(log, view')
    BY <1>1, <1>5, <1>10, <2>2, ReduceTruth
  <2> QED BY <1>1, <1>2, <1>6, <2>1, <2>3, PageGoes
<1> QED BY <1>3, <1>8, <1>9, <1>10

LEMMA FlushHeldKeeps == ASSUME StreamIInv, FlushHeld PROVE StreamIInv' /\ Orderly
<1>1. /\ LogOK(log) /\ ConnsOK(log, conns) /\ IsStream(log, tab) /\ Truth(log, view)
  BY DEF StreamIInv, ServerIInv, PageIInv
<1>2. /\ view' = ReduceAll(view, tab.held) /\ tab' = [tab EXCEPT !.held = <<>>]
      /\ log' = log /\ run' = run /\ chain' = chain /\ session' = session /\ conns' = conns
  BY DEF FlushHeld, server
<1>3. IsStream(log, tab')
  BY <1>1, <1>2, HeardNothing DEF IsStream
<1>4. Truth(log, view')
  BY <1>1, <1>2, ReduceAllTruth DEF IsStream
<1> QED BY <1>1, <1>2, <1>3, <1>4, PageGoes

LEMMA SettleKeeps ==
  ASSUME LogOK(log), IsStream(log, tab), Truth(log, view), NEW failed, Settle(failed)
  PROVE  IsStream(log, tab') /\ Truth(log, view')
<1>1. tab' = NoStream /\ view' \in {ReduceAll(view, tab.held), Fail(ReduceAll(view, tab.held))}
  BY DEF Settle
<1>2. Truth(log, ReduceAll(view, tab.held))
  BY ReduceAllTruth DEF IsStream
<1> QED BY <1>1, <1>2, NoStreamIsStream, FailedTruth

LEMMA RetryKeeps ==
  ASSUME LogOK(log), IsStream(log, tab), Truth(log, view), NEW probe, Retry(probe)
  PROVE  IsStream(log, tab') /\ Truth(log, view')
<1>1. CASE tab.tries = MaxReconnects
  BY <1>1, SettleKeeps DEF Retry
<1>2. CASE tab.tries # MaxReconnects
  <2>1. /\ tab' = [tab EXCEPT !.tries = @ + 1, !.conn = 0, !.held = <<>>, !.probe = probe,
                              !.ended = @ /\ tab.mode = "post"]
        /\ view' = ReduceAll(view, tab.held)
    BY <1>2 DEF Retry
  <2>2. 0 \in 0..MaxConns
    BY StreamAssumption
  <2>3. IsStream(log, tab')
    BY <2>1, <2>2, HeardNothing DEF IsStream
  <2>4. Truth(log, view')
    BY <2>1, ReduceAllTruth DEF IsStream
  <2> QED BY <2>3, <2>4
<1> QED BY <1>1, <1>2

\* A connection that the server closes, or the client leaves, carries nothing.
LEMMA EmptiedKeeps ==
  ASSUME ConnsOK(log, conns), NEW c \in 1..MaxConns, NEW st,
         conns' = [conns EXCEPT ![c].st = st, ![c].q = <<>>]
  PROVE  ConnsOK(log, conns')
<1> DEFINE x == [conns[c] EXCEPT !.st = st, !.q = <<>>]
           was == conns[c]
<1>1. conns' = [conns EXCEPT ![c] = x]
  BY DEF ConnsOK
<1>2. x = [was EXCEPT !.st = st, !.q = <<>>] /\ IsConn(log, was)
  BY DEF ConnsOK
<1> HIDE DEF x, was
<1>3. x = [st |-> x.st, q |-> x.q, once |-> x.once] /\ x.q = <<>>
  BY <1>2 DEF IsConn
<1>4. IsConn(log, x)
  BY <1>3, HeardNothing DEF IsConn
<1>5. ConnsOK(log, [conns EXCEPT ![c] = x])
  BY <1>4, ConnPut
<1> QED BY <1>1, <1>5

LEMMA StreamDoneKeeps == ASSUME StreamIInv, StreamDone PROVE StreamIInv' /\ Orderly
<1>1. /\ LogOK(log) /\ ConnsOK(log, conns) /\ IsStream(log, tab) /\ Truth(log, view)
  BY DEF StreamIInv, ServerIInv, PageIInv
<1>2. /\ tab.conn # 0 /\ conns' = [conns EXCEPT ![tab.conn] = NoConn]
      /\ log' = log /\ run' = run /\ chain' = chain /\ session' = session
      /\ Settle(FALSE) \/ Retry(IF tab.ended THEN tab.run ELSE tab.probe)
  BY DEF StreamDone
<1>3. tab.conn \in 1..MaxConns
  BY <1>1, <1>2, StreamAssumption DEF IsStream
<1>4. ConnsOK(log, conns')
  BY <1>1, <1>2, <1>3, ConnPut, NoConnIsConn
<1>5. IsStream(log, tab') /\ Truth(log, view')
  BY <1>1, <1>2, SettleKeeps, RetryKeeps
<1> QED BY <1>2, <1>4, <1>5, PageGoes

LEMMA CutKeeps == ASSUME StreamIInv, Cut PROVE StreamIInv' /\ Orderly
<1>1. /\ LogOK(log) /\ ConnsOK(log, conns) /\ IsStream(log, tab) /\ Truth(log, view)
  BY DEF StreamIInv, ServerIInv, PageIInv
<1>2. /\ tab.conn # 0 /\ Retry(tab.probe)
      /\ conns' = conns \/ conns' = [conns EXCEPT ![tab.conn].st = "left", ![tab.conn].q = <<>>]
      /\ log' = log /\ run' = run /\ chain' = chain /\ session' = session
  BY DEF Cut
<1>3. tab.conn \in 1..MaxConns
  BY <1>1, <1>2, StreamAssumption DEF IsStream
<1>4. ConnsOK(log, conns')
  BY <1>1, <1>2, <1>3, EmptiedKeeps
<1>5. IsStream(log, tab') /\ Truth(log, view')
  BY <1>1, <1>2, RetryKeeps
<1> QED BY <1>2, <1>4, <1>5, PageGoes

LEMMA RefusedKeeps == ASSUME StreamIInv, Refused PROVE StreamIInv' /\ Orderly
<1>1. /\ LogOK(log) /\ ConnsOK(log, conns) /\ IsStream(log, tab) /\ Truth(log, view)
  BY DEF StreamIInv, ServerIInv, PageIInv
<1>2. /\ Retry(tab.probe) /\ conns' = conns
      /\ log' = log /\ run' = run /\ chain' = chain /\ session' = session
  BY DEF Refused, server
<1>3. IsStream(log, tab') /\ Truth(log, view')
  BY <1>1, <1>2, RetryKeeps
<1> QED BY <1>1, <1>2, <1>3, PageGoes

LEMMA SendKeeps == ASSUME StreamIInv, Send PROVE StreamIInv' /\ Orderly
<1>1. /\ LogOK(log) /\ ConnsOK(log, conns) /\ IsStream(log, tab) /\ Truth(log, view)
  BY DEF StreamIInv, ServerIInv, PageIInv
<1>2. /\ view' = Begin(view) /\ tab' = [NoStream EXCEPT !.mode = "post"] /\ conns' = conns
      /\ log' = log /\ run' = run /\ chain' = chain /\ session' = session
  BY DEF Send, server
<1>3. IsStream(log, tab')
  <2>1. IsStream(log, NoStream) /\ NoStream.root = 0 /\ 0 \in 0..Phantom
    BY NoStreamIsStream, RunNumbers
  <2> HIDE DEF NoStream
  <2> QED BY <1>2, <2>1 DEF IsStream
<1>4. Truth(log, view')
  BY <1>1, <1>2, BegunTruth DEF Truth
<1> QED BY <1>1, <1>2, <1>3, <1>4, PageGoes

LEMMA LeaveKeeps == ASSUME ConnsOK(log, conns), IsStream(log, tab), Leave PROVE ConnsOK(log, conns')
<1>1. CASE tab.conn = 0
  BY <1>1 DEF Leave
<1>2. CASE tab.conn # 0
  <2> DEFINE st == IF conns[tab.conn].st = "open" THEN "left" ELSE conns[tab.conn].st
  <2>1. tab.conn \in 1..MaxConns
    BY <1>2, StreamAssumption DEF IsStream
  <2>2. conns' = [conns EXCEPT ![tab.conn].st = st, ![tab.conn].q = <<>>]
    BY <1>2 DEF Leave
  <2> HIDE DEF st
  <2> QED BY <2>1, <2>2, EmptiedKeeps
<1> QED BY <1>1, <1>2

LEMMA UserStopsKeeps == ASSUME StreamIInv, UserStops PROVE StreamIInv' /\ Orderly
<1>1. /\ LogOK(log) /\ ConnsOK(log, conns) /\ IsStream(log, tab) /\ Truth(log, view) /\ IsChain(chain)
  BY DEF StreamIInv, ServerIInv, PageIInv
<1>2. /\ Leave /\ Settle(FALSE) /\ chain' = Stopped(chain, "user_stop")
      /\ log' = log /\ run' = run /\ session' = session
  BY DEF UserStops
<1>3. ConnsOK(log, conns') /\ IsStream(log, tab') /\ Truth(log, view')
  BY <1>1, <1>2, LeaveKeeps, SettleKeeps
<1>4. Alike(chain, chain') /\ chain'.stop \in {chain.stop, "user_stop"}
  <2>1. CASE chain' = chain
    BY <1>1, <2>1 DEF Alike
  <2>2. CASE chain' = [chain EXCEPT !.stop = "user_stop"]
    BY <1>1, <2>2 DEF Alike, IsChain
  <2> QED BY <1>2, <2>1, <2>2 DEF Stopped
<1>5. StreamIInv'
  BY <1>2, <1>3, <1>4, PageStep
<1> QED BY <1>4, <1>5 DEF Orderly

LEMMA ReloadKeeps == ASSUME StreamIInv, Reload PROVE StreamIInv' /\ Orderly
<1>1. /\ LogOK(log) /\ ConnsOK(log, conns) /\ IsStream(log, tab)
  BY DEF StreamIInv, ServerIInv, PageIInv
<1>2. /\ Leave /\ tab' = NoStream /\ view' = Hydrate([items |-> {}, active |-> None, status |-> "idle"])
      /\ log' = log /\ run' = run /\ chain' = chain /\ session' = session
  BY DEF Reload
<1>3. ConnsOK(log, conns') /\ IsStream(log, tab') /\ Truth(log, view')
  BY <1>1, <1>2, LeaveKeeps, NoStreamIsStream, HydratedTruth
<1> QED BY <1>2, <1>3, PageGoes

LEMMA FetchArrivesKeeps == ASSUME StreamIInv, FetchArrives PROVE StreamIInv' /\ Orderly
<1>1. /\ LogOK(log) /\ ConnsOK(log, conns) /\ IsStream(log, tab) /\ Truth(log, view)
  BY DEF StreamIInv, ServerIInv, PageIInv
<1> DEFINE s == net.fetch
<1>2. /\ tab' = tab \/ tab' = Attached(s.active)
      /\ view' = view \/ view' = Hydrate(s)
      /\ log' = log /\ run' = run /\ chain' = chain /\ session' = session /\ conns' = conns
  BY DEF FetchArrives, server
<1> HIDE DEF s
<1>3. IsStream(log, Attached(s.active))
  <2>1. IsStream(log, NoStream)
    BY NoStreamIsStream
  <2>2. Attached(s.active) = [NoStream EXCEPT !.mode = "get", !.root = s.active]
    BY DEF Attached
  <2> HIDE DEF NoStream
  <2> QED BY <2>1, <2>2 DEF IsStream
<1>4. IsStream(log, tab') /\ Truth(log, view')
  BY <1>1, <1>2, <1>3, HydratedTruth
<1> QED BY <1>1, <1>2, <1>4, PageGoes

\* Steps that touch neither the chain nor what the page shows
LEMMA OthersKeep ==
  ASSUME StreamIInv, AnswerArrives \/ FetchReads \/ UNCHANGED vars
  PROVE  StreamIInv' /\ Orderly
<1>1. /\ LogOK(log) /\ ConnsOK(log, conns) /\ IsStream(log, tab) /\ Truth(log, view)
  BY DEF StreamIInv, ServerIInv, PageIInv
<1>2. /\ log' = log /\ run' = run /\ chain' = chain /\ session' = session /\ conns' = conns
      /\ tab' = tab /\ view' = view
  BY DEF AnswerArrives, FetchReads, vars, server, page
<1> QED BY <1>1, <1>2, PageGoes

-------------------------------------------------------------------------------
(* The theorems *)

LEMMA OrderlyIsWhole == ASSUME Orderly PROVE GraceStep
BY StreamAssumption DEF Orderly, GraceStep

LEMMA StreamSteps == ASSUME StreamIInv, [Next]_vars PROVE StreamIInv' /\ GraceStep
<1>1. CASE RunGoesOn
  BY <1>1, RunStartsKeeps, StepKeeps, FinishRunKeeps, PublishFinishedKeeps, NextRunKeeps, EndChainKeeps,
     ChainFailsKeeps, HaltKeeps, OrderlyIsWhole DEF RunGoesOn
<1>2. CASE Served
  BY <1>2, PostAgainKeeps, PostFirstKeeps, GetArrivesKeeps, OrderlyIsWhole DEF Served
<1>3. CASE StreamGoesOn
  BY <1>3, DeliverKeeps, FlushHeldKeeps, StreamDoneKeeps, CutKeeps, RefusedKeeps, OrderlyIsWhole DEF StreamGoesOn
<1>4. CASE Watch
  BY <1>4, GraceEndsKeeps, NoticeKeeps, OrderlyIsWhole DEF Watch
<1>5. CASE Enqueue \/ Restart \/ Send \/ UserStops \/ Reload
  BY <1>5, EnqueueKeeps, RestartKeeps, SendKeeps, UserStopsKeeps, ReloadKeeps, OrderlyIsWhole
<1>6. CASE FetchArrives
  BY <1>6, FetchArrivesKeeps, OrderlyIsWhole
<1>7. CASE AnswerArrives \/ FetchReads \/ UNCHANGED vars
  BY <1>7, OthersKeep, OrderlyIsWhole
<1> QED BY <1>1, <1>2, <1>3, <1>4, <1>5, <1>6, <1>7 DEF Next

LEMMA StreamInvariant == Spec => []StreamIInv
<1>1. StreamIInv /\ [Next]_vars => StreamIInv'
  BY StreamSteps
<1> QED BY <1>1, StreamInitially, PTL DEF Spec

\* What a page shows of a live Run is what the Run has let out up to the event the page
\* stands at, whatever breaks on the way (reduceRunEvent, streamConversation), for every
\* number of Runs, connections, reconnects and events, and every capacity of a connection
\* and of the replay buffer.
THEOREM PagesShowTheTruth == Spec => []ShownIsTrue
<1>1. StreamIInv => ShownIsTrue
  BY TruthIsShown DEF StreamIInv, ServerIInv, PageIInv
<1> QED BY <1>1, StreamInvariant, PTL

\* A Run is stopped for a disconnect only after a grace in which nobody came back
\* (scheduleV2Disconnect, attachActiveV2Run).
THEOREM GracesAreWhole == Spec => GraceIsWhole
<1>1. StreamIInv /\ [Next]_vars => [(chain'.stop = "disconnect" /\ chain.stop = None) => ~chain.watched]_vars
  BY StreamSteps DEF GraceStep
<1> QED BY <1>1, StreamInvariant, PTL DEF Spec, GraceIsWhole
=============================================================================
