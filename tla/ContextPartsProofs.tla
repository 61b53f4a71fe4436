----------------------------- MODULE ContextPartsProofs -----------------------------
(* Proofs about the files of managed memory and the context engine, for every value  *)
(* of ContextParts' constants.                                                       *)
EXTENDS ContextParts, FiniteSetTheorems, SequenceTheorems, WellFoundedInduction, TLAPS

(* Definitions by recursion, and the sequences they build *)

\* Every finite set of integers has a least one.
LEMMA IntegersHaveMin ==
  ASSUME NEW S \in SUBSET Int, S # {}, IsFiniteSet(S)
  PROVE  \E x \in S : \A y \in S : x <= y
<1> DEFINE HasMin(X) == \E x \in X : \A y \in X : x <= y
           T == {X \in SUBSET S : X # {} /\ ~HasMin(X)}
<1>1. SUFFICES ASSUME T # {} PROVE FALSE
  OBVIOUS
<1>2. IsWellFoundedOn(StrictSubsetOrdering(S), FiniteSubsetsOf(S))
  BY FS_StrictSubsetOrderingWellFounded
<1>3. T \subseteq FiniteSubsetsOf(S)
  BY FS_FiniteSubsetsOfFinite
<1> HIDE DEF T
<1>4. PICK X \in T : \A Y \in T : <<Y, X>> \notin StrictSubsetOrdering(S)
  BY <1>1, <1>2, <1>3, WFMin
<1>5. X \in SUBSET S /\ X # {} /\ ~HasMin(X)
  BY <1>4 DEF T
<1>6. PICK a \in X : TRUE
  BY <1>5
<1> DEFINE Y == X \ {a}
<1>7. <<Y, X>> \in StrictSubsetOrdering(S)
  BY <1>5, <1>6 DEF StrictSubsetOrdering
<1>8. Y \notin T
  BY <1>4, <1>7
<1>9. CASE Y = {}
  <2>1. X = {a} /\ a \in Int
    BY <1>9, <1>5, <1>6
  <2>2. \A y \in X : a <= y
    BY <2>1
  <2> QED BY <2>2, <1>5, <1>6
<1>10. CASE Y # {}
  <2>1. PICK m \in Y : \A y \in Y : m <= y
    BY <1>5, <1>8, <1>10 DEF T
  <2>2. a \in Int /\ m \in Int /\ X \subseteq Int
    BY <1>5, <1>6, <2>1
  <2>3. CASE m <= a
    <3>1. \A y \in X : m <= y
      BY <2>1, <2>3
    <3> QED BY <3>1, <2>1, <1>5
  <2>4. CASE a < m
    <3>1. \A y \in X : a <= y
      BY <2>1, <2>2, <2>4
    <3> QED BY <3>1, <1>6, <1>5
  <2> QED BY <2>2, <2>3, <2>4
<1> QED BY <1>9, <1>10

Elements(s) == {s[i] : i \in DOMAIN s}
\* What holds of 0 and goes from each number to the next holds up to n.
LEMMA IntervalInduction ==
  ASSUME NEW n \in Nat, NEW P, 0 \in P, \A i \in 0..(n - 1) : i \in P => i + 1 \in P
  PROVE  0..n \subseteq P
<1> DEFINE S == (0..n) \ P
<1>1. SUFFICES ASSUME S # {} PROVE FALSE
  OBVIOUS
<1>2. S \in SUBSET Int /\ IsFiniteSet(S)
  <2>1. S \in SUBSET (0..n) /\ IsFiniteSet(0..n)
    BY FS_Interval
  <2> HIDE DEF S
  <2>2. IsFiniteSet(S)
    BY <2>1, FS_Subset
  <2> QED BY <2>1, <2>2
<1>3. PICK m \in S : \A y \in S : m <= y
  <2> HIDE DEF S
  <2> QED BY <1>1, <1>2, IntegersHaveMin
<1>4. m - 1 \in 0..(n - 1) /\ m - 1 \notin S
  BY <1>3
<1>5. m \in P
  BY <1>3, <1>4
<1> QED BY <1>3, <1>5

\* f is defined from each number to the next
Steps(f, n, base, g) == f[0] = base /\ \A i \in 1..n : f[i] = g[<<f[i - 1], i>>]

LEMMA RecursionExists ==
  ASSUME NEW n \in Nat, NEW S, NEW base \in S, NEW g \in [S \X (1..n) -> S]
  PROVE  \E f \in [0..n -> S] : Steps(f, n, base, g)
<1> DEFINE Up(k, f) == f[0] = base /\ \A i \in 1..k : f[i] = g[<<f[i - 1], i>>]
           P == {k \in 0..n : \E f \in [0..k -> S] : Up(k, f)}
<1>1. 0 \in P
  <2> DEFINE h == [i \in 0..0 |-> base]
  <2>1. h \in [0..0 -> S] /\ h[0] = base /\ \A i \in 1..0 : FALSE
    OBVIOUS
  <2> HIDE DEF h
  <2>2. Up(0, h) /\ 0 \in 0..n
    BY <2>1
  <2> QED BY <2>1, <2>2
<1>2. ASSUME NEW k \in 0..(n - 1), k \in P PROVE k + 1 \in P
  <2>1. PICK f \in [0..k -> S] : Up(k, f)
    BY <1>2
  <2> DEFINE h == [i \in 0..(k + 1) |-> IF i <= k THEN f[i] ELSE g[<<f[k], k + 1>>]]
  <2>2. f[k] \in S /\ <<f[k], k + 1>> \in S \X (1..n)
    BY <1>2, <2>1
  <2>3. g[<<f[k], k + 1>>] \in S
    BY <2>2
  <2>4. h \in [0..(k + 1) -> S] /\ (\A i \in 0..k : h[i] = f[i]) /\ h[k + 1] = g[<<f[k], k + 1>>]
    BY <1>2, <2>1, <2>3
  <2> HIDE DEF h
  <2>5. h[0] = base
    BY <1>2, <2>1, <2>4
  <2>6. ASSUME NEW i \in 1..(k + 1) PROVE h[i] = g[<<h[i - 1], i>>]
    <3>1. h[i - 1] = f[i - 1]
      BY <1>2, <2>4, <2>6
    <3>2. CASE i = k + 1
      BY <1>2, <2>4, <3>1, <3>2
    <3>3. CASE i \in 1..k
      BY <1>2, <2>1, <2>4, <3>1, <3>3
    <3> QED BY <1>2, <2>6, <3>2, <3>3
  <2>7. k + 1 \in 0..n
    BY <1>2
  <2> QED BY <2>4, <2>5, <2>6, <2>7
<1> HIDE DEF P
<1>3. 0..n \subseteq P
  BY <1>1, <1>2, IntervalInduction
<1>4. n \in P
  BY <1>3
<1> QED BY <1>4 DEF P, Steps

LEMMA ElementsOfAppend ==
  ASSUME NEW T, NEW s \in Seq(T), NEW x
  PROVE  Elements(Append(s, x)) = Elements(s) \union {x}
<1>1. /\ Len(s) \in Nat /\ DOMAIN s = 1..Len(s)
      /\ DOMAIN Append(s, x) = 1..(Len(s) + 1) /\ Append(s, x)[Len(s) + 1] = x
      /\ \A i \in 1..Len(s) : Append(s, x)[i] = s[i]
  OBVIOUS
<1> HIDE DEF Elements
<1>2. ASSUME NEW i \in DOMAIN Append(s, x) PROVE Append(s, x)[i] \in Elements(s) \union {x}
  BY <1>1 DEF Elements
<1>3. ASSUME NEW i \in DOMAIN s PROVE s[i] \in Elements(Append(s, x))
  BY <1>1 DEF Elements
<1>4. x \in Elements(Append(s, x))
  BY <1>1 DEF Elements
<1> QED BY <1>2, <1>3, <1>4 DEF Elements

-------------------------------------------------------------------------------
(* The files of managed memory *)

MemoryRequests ==
  Store!Mutations \union [kind : {"settings", "rebuild", "clear"}, enabled : BOOLEAN]

Mutating == mutation # None /\ mutation.req.kind \in Store!Mutate
Clearing == mutation # None /\ mutation.req.kind = "clear"

\* requests are at work once the store is ready, and a topic stays a topic
StoreShape ==
  /\ DOMAIN topics = Paths
  /\ mutation # None =>
       /\ ready
       /\ mutation = [req |-> mutation.req, step |-> mutation.step, plan |-> mutation.plan]

\* what waits is a request, and a clear at work is not mistaken for none
RequestKinds == queue \in Seq(MemoryRequests) /\ (Clearing => mutation \in Store!Clears)

\* until it writes its topic, a mutation finds the body it expects and its generation
JobIsFenced ==
  Mutating /\ mutation.step \in {"first", "topic"} =>
    /\ mutation.plan.path = mutation.req.path
    /\ mutation.plan.before = topics[mutation.req.path]
    /\ mutation.req.expected = topics[mutation.req.path]
    /\ mutation.req.generation \in {settings.generation, None}

\* the intent of a mutation stands while its topic and its index are written
IntentIsPlan ==
  /\ Mutating /\ mutation.step \in {"topic", "index"} => intent = mutation.plan
  /\ Mutating /\ mutation.step = "index" /\ mutation.plan.path \in Paths =>
       topics[mutation.plan.path] = mutation.plan.body
  /\ Clearing /\ mutation.step = "settings" => intent = None

\* what an intent would replace is what it was written for, or what it would write
IntentIsFenced ==
  intent # None /\ intent.path \in Paths /\ ~Clearing =>
    intent.path \in broken \/ topics[intent.path] \in {intent.before, intent.body}

StoreIInv == StoreShape /\ JobIsFenced /\ IntentIsPlan /\ IntentIsFenced

\* the body of CommitsAreFenced
FencedStep ==
  \A p \in Paths : topics'[p] # topics[p] =>
    \/ /\ mutation # None /\ mutation.req.kind \in Store!Mutate
       /\ mutation.req.path = p /\ mutation.req.expected = topics[p]
       /\ mutation.req.generation \in {settings.generation, None}
    \/ mutation # None /\ mutation.req.kind = "clear" /\ topics'[p] = None
    \/ /\ ~ready /\ intent # None /\ intent.path = p
       /\ (p \in broken \/ topics[p] = intent.before)

LEMMA StoreInitially == Store!Init => StoreIInv /\ RequestKinds
<1> SUFFICES ASSUME Store!Init PROVE StoreIInv /\ RequestKinds
  OBVIOUS
<1>1. StoreIInv
  BY DEF Store!Init, StoreIInv, StoreShape, JobIsFenced, IntentIsPlan, IntentIsFenced, Mutating, Clearing
<1>2. queue \in Seq(MemoryRequests) /\ mutation = None
  BY DEF Store!Init
<1> QED BY <1>1, <1>2 DEF RequestKinds, Clearing

\* A step that leaves the files alone, and begins no request.
LEMMA FilesLeftAlone ==
  ASSUME StoreIInv, UNCHANGED <<topics, intent, settings, mutation, ready>>, broken \subseteq broken'
  PROVE  StoreIInv' /\ FencedStep
BY DEF StoreIInv, StoreShape, JobIsFenced, IntentIsPlan, IntentIsFenced, Mutating, Clearing, FencedStep

\* A request ends, or is given up: what a clear leaves behind is broken.
LEMMA JobOver ==
  ASSUME StoreIInv, UNCHANGED <<topics, intent>>, mutation' = None, broken \subseteq broken',
         Clearing => intent = None \/ Paths \subseteq broken'
  PROVE  StoreIInv' /\ FencedStep
BY DEF StoreIInv, StoreShape, JobIsFenced, IntentIsPlan, IntentIsFenced, Mutating, Clearing, FencedStep

LEMMA BeginPreserves == ASSUME StoreIInv, Store!Begin PROVE StoreIInv' /\ FencedStep
<1> DEFINE r == Head(queue)
<1>1. /\ UNCHANGED <<topics, intent, settings, ready, broken>> /\ ready /\ mutation = None
      /\ Store!IsMutation(r) => Store!MayCommit(r)
      /\ mutation' = [req |-> r, step |-> IF r.kind = "clear" THEN "files" ELSE "first",
                      plan |-> IF Store!IsMutation(r)
                               THEN [id |-> r.id, path |-> r.path, before |-> topics[r.path],
                                     body |-> r.body, index |-> Store!NextIndex(r)]
                               ELSE None]
  BY DEF Store!Begin, Store!Take, Store!disk
<1> HIDE DEF r
<1>2. mutation'.req = r /\ mutation'.step = (IF r.kind = "clear" THEN "files" ELSE "first")
  BY <1>1
<1>3. StoreShape'
  BY <1>1 DEF StoreIInv, StoreShape
<1>4. JobIsFenced'
  <2> SUFFICES ASSUME Mutating'
               PROVE  /\ mutation'.plan.path = r.path /\ mutation'.plan.before = topics[r.path]
                      /\ r.expected = topics[r.path] /\ r.generation \in {settings.generation, None}
    BY <1>1, <1>2 DEF JobIsFenced
  <2>1. Store!IsMutation(r) /\ Store!MayCommit(r)
    BY <1>1, <1>2 DEF Mutating, Store!IsMutation, Store!Mutate
  <2>2. mutation'.plan = [id |-> r.id, path |-> r.path, before |-> topics[r.path],
                          body |-> r.body, index |-> Store!NextIndex(r)]
    BY <1>1, <2>1
  <2> QED BY <2>1, <2>2 DEF Store!MayCommit, Store!FromStaleGeneration
<1>5. IntentIsPlan'
  BY <1>2 DEF IntentIsPlan
<1>6. IntentIsFenced'
  BY <1>1 DEF StoreIInv, IntentIsFenced, Clearing
<1> QED BY <1>1, <1>3, <1>4, <1>5, <1>6 DEF StoreIInv, FencedStep

\* The request at work goes on to its next step.
LEMMA StepTaken ==
  ASSUME StoreIInv, NEW kinds, NEW s, NEW t, Store!At(kinds, s), Store!Go(t)
  PROVE  /\ mutation'.req = mutation.req /\ mutation'.step = t /\ mutation'.plan = mutation.plan
         /\ mutation' = [req |-> mutation.req, step |-> t, plan |-> mutation.plan]
         /\ mutation # None /\ mutation.req.kind \in kinds /\ mutation.step = s
<1>1. /\ mutation = [req |-> mutation.req, step |-> mutation.step, plan |-> mutation.plan]
      /\ mutation' = [mutation EXCEPT !.step = t]
      /\ mutation # None /\ mutation.req.kind \in kinds /\ mutation.step = s
  BY DEF Store!At, Store!Go, StoreIInv, StoreShape
<1>2. mutation' = [req |-> mutation.req, step |-> t, plan |-> mutation.plan]
  BY <1>1
<1> QED BY <1>1, <1>2

LEMMA WritePreserves == ASSUME StoreIInv, Store!Write PROVE StoreIInv' /\ FencedStep
<1> USE DEF StoreIInv
<1>1. CASE Store!WriteIntent
  <2>1. /\ intent' = mutation.plan /\ UNCHANGED <<topics, settings, ready, broken>>
        /\ Store!At(Store!Mutate, "first") /\ Store!Go("topic")
    BY <1>1 DEF Store!WriteIntent
  <2>2. /\ mutation'.req = mutation.req /\ mutation'.step = "topic" /\ mutation'.plan = mutation.plan
        /\ mutation' = [req |-> mutation.req, step |-> "topic", plan |-> mutation.plan]
        /\ Mutating /\ mutation.step = "first" /\ ~Clearing'
    BY <2>1, StepTaken DEF Mutating, Clearing, Store!Mutate
  <2>3. /\ mutation.plan.path = mutation.req.path /\ mutation.plan.before = topics[mutation.req.path]
    BY <2>2 DEF JobIsFenced
  <2> QED BY <2>1, <2>2, <2>3
          DEF StoreShape, JobIsFenced, IntentIsPlan, IntentIsFenced, Mutating, Clearing, FencedStep
<1>2. CASE Store!WriteTopic
  <2>1. /\ topics' = [topics EXCEPT ![mutation.plan.path] = mutation.plan.body]
        /\ UNCHANGED <<intent, settings, ready, broken>>
        /\ Store!At(Store!Mutate, "topic") /\ Store!Go("index")
    BY <1>2 DEF Store!WriteTopic
  <2>2. /\ mutation'.req = mutation.req /\ mutation'.step = "index" /\ mutation'.plan = mutation.plan
        /\ mutation' = [req |-> mutation.req, step |-> "index", plan |-> mutation.plan]
        /\ Mutating /\ mutation.step = "topic" /\ ~Clearing'
    BY <2>1, StepTaken DEF Mutating, Clearing, Store!Mutate
  <2>3. /\ mutation.plan.path = mutation.req.path /\ mutation.req.expected = topics[mutation.req.path]
        /\ mutation.req.generation \in {settings.generation, None} /\ intent = mutation.plan
    BY <2>2 DEF JobIsFenced, IntentIsPlan
  <2>4. StoreShape' /\ JobIsFenced' /\ IntentIsPlan'
    BY <2>1, <2>2, <2>3 DEF StoreShape, JobIsFenced, IntentIsPlan, Mutating, Clearing
  <2>5. IntentIsFenced'
    BY <2>1, <2>3 DEF StoreShape, IntentIsFenced
  <2>6. FencedStep
    BY <2>1, <2>2, <2>3 DEF StoreShape, FencedStep, Mutating
  <2> QED BY <2>4, <2>5, <2>6
<1>3. CASE Store!WriteIndex
  <2>1. /\ broken' = broken \ {mutation.plan.path} /\ UNCHANGED <<topics, intent, settings, ready>>
        /\ Store!At(Store!Mutate, "index") /\ Store!Go("journal")
    BY <1>3 DEF Store!WriteIndex
  <2>2. /\ mutation'.req = mutation.req /\ mutation'.step = "journal" /\ mutation'.plan = mutation.plan
        /\ mutation' = [req |-> mutation.req, step |-> "journal", plan |-> mutation.plan]
        /\ Mutating /\ mutation.step = "index" /\ ~Clearing'
    BY <2>1, StepTaken DEF Mutating, Clearing, Store!Mutate
  <2>3. intent = mutation.plan /\ (intent.path \in Paths => topics[intent.path] = intent.body)
    BY <2>2 DEF IntentIsPlan
  <2> QED BY <2>1, <2>2, <2>3
          DEF StoreShape, JobIsFenced, IntentIsPlan, IntentIsFenced, Mutating, Clearing, FencedStep
<1>4. CASE Store!AppendOperation
  <2>1. /\ UNCHANGED <<topics, intent, settings, ready, broken>>
        /\ Store!At(Store!Mutate, "journal") /\ Store!Go("done")
    BY <1>4 DEF Store!AppendOperation
  <2>2. /\ mutation'.req = mutation.req /\ mutation'.step = "done" /\ mutation'.plan = mutation.plan
        /\ mutation' = [req |-> mutation.req, step |-> "done", plan |-> mutation.plan]
        /\ Mutating /\ ~Clearing /\ ~Clearing' /\ mutation # None
    BY <2>1, StepTaken DEF Mutating, Clearing, Store!Mutate
  <2> QED BY <2>1, <2>2
          DEF StoreShape, JobIsFenced, IntentIsPlan, IntentIsFenced, FencedStep, Clearing
<1>5. CASE Store!RemoveIntent
  <2>1. /\ UNCHANGED <<topics, broken>> /\ mutation' = None /\ intent' = None
    BY <1>5 DEF Store!RemoveIntent
  <2> QED BY <2>1
          DEF StoreShape, JobIsFenced, IntentIsPlan, IntentIsFenced, Mutating, Clearing, FencedStep
<1> QED BY <1>1, <1>2, <1>3, <1>4, <1>5 DEF Store!Write

\* Recovery replaces what the intent was written for, whatever its step that fails.
LEMMA EnsurePreserves == ASSUME StoreIInv, Store!Ensure PROVE StoreIInv' /\ FencedStep
<1> USE DEF StoreIInv
<1>1. /\ ~ready /\ ready' /\ UNCHANGED <<settings, mutation>>
  BY DEF Store!Ensure
<1>2. mutation = None
  BY <1>1 DEF StoreShape
<1>3. CASE intent = None
  <2>1. UNCHANGED <<topics, intent, broken>>
    BY <1>3 DEF Store!Ensure
  <2> QED BY <1>1, <1>2, <1>3, <2>1
          DEF StoreShape, JobIsFenced, IntentIsPlan, IntentIsFenced, Mutating, Clearing, FencedStep
<1>4. CASE intent # None
  <2>1. PICK n \in 0 .. 4 :
          /\ topics' = IF n >= 1 THEN [topics EXCEPT ![intent.path] = intent.body] ELSE topics
          /\ intent' = IF n = 4 THEN None ELSE intent
          /\ broken' = IF n >= 2 THEN broken \ {intent.path} ELSE broken
    BY <1>4 DEF Store!Ensure, Store!Recovered
  <2>2. CASE n = 0
    <3>1. UNCHANGED <<topics, intent, broken>>
      BY <2>1, <2>2
    <3> QED BY <1>1, <1>2, <3>1
            DEF StoreShape, JobIsFenced, IntentIsPlan, IntentIsFenced, Mutating, Clearing, FencedStep
  <2>3. CASE n >= 1
    <3>1. /\ topics' = [topics EXCEPT ![intent.path] = intent.body]
          /\ intent' = None \/ intent' = intent
      BY <2>1, <2>3
    <3>2. StoreShape' /\ JobIsFenced' /\ IntentIsPlan'
      BY <1>1, <1>2, <3>1 DEF StoreShape, JobIsFenced, IntentIsPlan, Mutating, Clearing
    <3>3. IntentIsFenced'
      BY <3>1 DEF StoreShape, IntentIsFenced
    <3>4. FencedStep
      BY <1>1, <1>2, <1>4, <3>1 DEF StoreShape, IntentIsFenced, Clearing, FencedStep
    <3> QED BY <3>2, <3>3, <3>4
  <2> QED BY <2>2, <2>3
<1> QED BY <1>3, <1>4

LEMMA UpdateSettingsPreserves == ASSUME StoreIInv, Store!UpdateSettings PROVE StoreIInv' /\ FencedStep
<1> USE DEF StoreIInv
<1>1. CASE Store!At({"settings"}, "first") /\ Store!Go("journal") /\ UNCHANGED <<topics, intent, ready, broken>>
  <2>1. /\ mutation' = [req |-> mutation.req, step |-> "journal", plan |-> mutation.plan]
        /\ mutation'.req = mutation.req /\ mutation.req.kind = "settings" /\ mutation # None
    BY <1>1, StepTaken
  <2>2. ~Mutating' /\ ~Clearing' /\ ~Clearing
    BY <2>1 DEF Mutating, Clearing, Store!Mutate
  <2> QED BY <1>1, <2>1, <2>2 DEF StoreShape, JobIsFenced, IntentIsPlan, IntentIsFenced, FencedStep
<1>2. CASE Store!At({"settings"}, "journal") /\ mutation' = None /\ UNCHANGED <<topics, intent, broken>>
  <2>1. ~Clearing
    BY <1>2 DEF Store!At, Clearing
  <2> QED BY <1>2, <2>1, JobOver
<1> QED BY <1>1, <1>2 DEF Store!UpdateSettings, Store!disk

LEMMA RebuildIndexPreserves == ASSUME StoreIInv, Store!RebuildIndex PROVE StoreIInv' /\ FencedStep
<1>1. /\ mutation' = None /\ UNCHANGED <<topics, intent>> /\ ~Clearing
      /\ broken' = broken \/ (intent = None /\ broken' = {})
  BY DEF Store!RebuildIndex, Store!At, Clearing
<1>2. CASE broken' = broken
  BY <1>1, <1>2, JobOver
<1>3. CASE intent = None
  BY <1>1, <1>3
     DEF StoreIInv, StoreShape, JobIsFenced, IntentIsPlan, IntentIsFenced, Mutating, Clearing, FencedStep
<1> QED BY <1>1, <1>2, <1>3

LEMMA ClearPreserves == ASSUME StoreIInv, RequestKinds, Store!Clear PROVE StoreIInv' /\ FencedStep
<1> USE DEF StoreIInv
<1>1. CASE Store!ClearFile
  <2>1. /\ mutation # None /\ mutation.req.kind = "clear" /\ mutation.step = "files"
        /\ UNCHANGED <<mutation, intent, settings, ready, broken>>
        /\ topics' = topics \/ \E p \in Paths : topics' = [topics EXCEPT ![p] = None]
    BY <1>1 DEF Store!ClearFile, Store!At
  <2>2. Clearing /\ Clearing' /\ ~Mutating'
    BY <2>1 DEF Mutating, Clearing, Store!Mutate
  <2>3. StoreShape' /\ JobIsFenced' /\ IntentIsPlan' /\ IntentIsFenced'
    BY <2>1, <2>2 DEF StoreShape, JobIsFenced, IntentIsPlan, IntentIsFenced
  <2>4. FencedStep
    BY <2>1 DEF StoreShape, FencedStep
  <2> QED BY <2>3, <2>4
<1>2. CASE /\ Store!At({"clear"}, "files") /\ Store!Go("intent")
           /\ UNCHANGED <<topics, intent, settings, ready, broken>>
  <2>1. /\ mutation' = [req |-> mutation.req, step |-> "intent", plan |-> mutation.plan]
        /\ mutation'.req = mutation.req /\ mutation'.step = "intent"
        /\ mutation.req.kind = "clear" /\ mutation # None
    BY <1>2, StepTaken
  <2>2. ~Mutating' /\ Clearing
    BY <2>1 DEF Mutating, Clearing, Store!Mutate
  <2>3. Clearing'
    <3>1. None \notin Store!Clears
      BY ContextPartsAssumption DEF Store!MemoryAssumption
    <3>2. mutation \in Store!Clears
      BY <2>2 DEF RequestKinds
    <3>3. mutation' \in Store!Clears
      BY <2>1, <3>2 DEF Store!Clears
    <3> QED BY <2>1, <3>1, <3>3 DEF Clearing
  <2> QED BY <1>2, <2>1, <2>2, <2>3 DEF StoreShape, JobIsFenced, IntentIsPlan, IntentIsFenced, FencedStep
<1>3. CASE /\ Store!At({"clear"}, "intent") /\ Store!Go("settings") /\ intent' = None
           /\ UNCHANGED <<topics, settings, ready, broken>>
  <2>1. /\ mutation' = [req |-> mutation.req, step |-> "settings", plan |-> mutation.plan]
        /\ mutation'.req = mutation.req /\ mutation.req.kind = "clear" /\ mutation # None
    BY <1>3, StepTaken
  <2>2. ~Mutating'
    BY <2>1 DEF Mutating, Store!Mutate
  <2> QED BY <1>3, <2>1, <2>2 DEF StoreShape, JobIsFenced, IntentIsPlan, IntentIsFenced, FencedStep
<1>4. CASE /\ Store!At({"clear"}, "settings") /\ mutation' = None /\ UNCHANGED <<topics, intent>>
  <2>1. intent = None
    BY <1>4 DEF Store!At, IntentIsPlan, Clearing
  <2> QED BY <1>4, <2>1
          DEF StoreShape, JobIsFenced, IntentIsPlan, IntentIsFenced, Mutating, Clearing, FencedStep
<1> QED BY <1>1, <1>2, <1>3, <1>4 DEF Store!Clear, Store!ClearState

LEMMA CutShortPreserves ==
  ASSUME StoreIInv, Store!StepFails \/ Store!Restart PROVE StoreIInv' /\ FencedStep
<1>1. CASE Store!StepFails
  <2>1. /\ mutation' = None /\ UNCHANGED <<topics, intent>> /\ mutation # None
        /\ broken' = broken \union Store!CutShort
    BY <1>1 DEF Store!StepFails
  <2>2. Clearing => Paths \subseteq broken'
    BY <2>1 DEF Store!CutShort, Clearing
  <2> QED BY <2>1, <2>2, JobOver
<1>2. CASE Store!Restart /\ ~Clearing
  <2>1. mutation' = None /\ UNCHANGED <<topics, intent>> /\ broken' = broken
    BY <1>2 DEF Store!Restart, Store!disk, Clearing
  <2> QED BY <1>2, <2>1, JobOver
<1>3. CASE Store!Restart /\ Clearing
  <2>1. mutation' = None /\ UNCHANGED <<topics, intent>> /\ broken' = Paths
    BY <1>3 DEF Store!Restart, Store!disk, Clearing
  <2> QED BY <2>1
          DEF StoreIInv, StoreShape, JobIsFenced, IntentIsPlan, IntentIsFenced, Mutating, Clearing, FencedStep
<1> QED BY <1>1, <1>2, <1>3

\* The kinds of the requests, along the same steps.
LEMMA ClearStays ==
  ASSUME StoreIInv, RequestKinds, queue' = queue, NEW s, NEW t \in {"intent", "settings"},
         Store!At({"clear"}, s), Store!Go(t)
  PROVE  RequestKinds'
<1>1. mutation' = [req |-> mutation.req, step |-> t, plan |-> mutation.plan] /\ Clearing
  BY StepTaken DEF Clearing
<1>2. mutation \in Store!Clears
  BY <1>1 DEF RequestKinds
<1>3. mutation' \in Store!Clears
  BY <1>1, <1>2 DEF Store!Clears
<1> QED BY <1>3 DEF RequestKinds

LEMMA OtherKindStays ==
  ASSUME StoreIInv, RequestKinds, queue' = queue, NEW kinds, "clear" \notin kinds, NEW s, NEW t,
         Store!At(kinds, s), Store!Go(t)
  PROVE  RequestKinds'
<1>1. mutation'.req = mutation.req /\ mutation.req.kind \in kinds
  BY StepTaken
<1> QED BY <1>1 DEF RequestKinds, Clearing

LEMMA NoJobStays == ASSUME RequestKinds, queue' = queue \/ queue' = <<>>, mutation' = None PROVE RequestKinds'
<1>1. <<>> \in Seq(MemoryRequests)
  OBVIOUS
<1> QED BY <1>1 DEF RequestKinds, Clearing

LEMMA SubmitKeepsKinds == ASSUME RequestKinds, NEW r \in MemoryRequests, Store!Submit(r) PROVE RequestKinds'
<1>1. queue' = Append(queue, r) /\ mutation' = mutation
  BY DEF Store!Submit
<1> QED BY <1>1 DEF RequestKinds, Clearing

LEMMA TakeKeepsKinds ==
  ASSUME RequestKinds, Store!Take
  PROVE  Head(queue) \in MemoryRequests /\ queue' \in Seq(MemoryRequests)
<1>1. queue \in Seq(MemoryRequests) /\ queue # <<>> /\ queue' = Tail(queue)
  BY DEF Store!Take, RequestKinds
<1> QED BY <1>1

LEMMA BeginKeepsKinds == ASSUME StoreIInv, RequestKinds, Store!Begin PROVE RequestKinds'
<1> DEFINE r == Head(queue)
<1>1. r \in MemoryRequests /\ queue' \in Seq(MemoryRequests)
  BY TakeKeepsKinds DEF Store!Begin
<1>2. mutation' = [req |-> r, step |-> IF r.kind = "clear" THEN "files" ELSE "first",
                   plan |-> IF Store!IsMutation(r)
                            THEN [id |-> r.id, path |-> r.path, before |-> topics[r.path],
                                  body |-> r.body, index |-> Store!NextIndex(r)]
                            ELSE None]
  BY DEF Store!Begin
<1> HIDE DEF r
<1>3. ASSUME r.kind = "clear" PROVE mutation' \in Store!Clears
  <2>1. r \in [kind : {"clear"}, enabled : BOOLEAN]
    BY <1>1, <1>3 DEF MemoryRequests, Store!Mutations
  <2>2. ~Store!IsMutation(r)
    BY <1>3 DEF Store!IsMutation
  <2>3. mutation' = [req |-> r, step |-> "files", plan |-> None]
    BY <1>2, <1>3, <2>2
  <2> QED BY <2>1, <2>3 DEF Store!Clears
<1>4. mutation'.req = r
  BY <1>2
<1> QED BY <1>1, <1>3, <1>4 DEF RequestKinds, Clearing

LEMMA KindsStay ==
  ASSUME StoreIInv, RequestKinds, [Store!Next]_(Store!vars)
  PROVE  RequestKinds'
<1>1. CASE UNCHANGED Store!vars
  BY <1>1 DEF Store!vars, Store!process, RequestKinds, Clearing
<1>2. CASE Store!MemoryTool \/ Store!DeleteFile
  <2>1. PICK r \in Store!Mutations : Store!Submit(r)
    BY <1>2 DEF Store!MemoryTool, Store!CallTool, Store!DeleteFile
  <2> QED BY <2>1, SubmitKeepsKinds DEF MemoryRequests
<1>3. CASE Store!Administer
  <2>1. PICK kind \in {"settings", "rebuild", "clear"}, e \in BOOLEAN :
          Store!Submit(Store!Other(kind, e))
    BY <1>3 DEF Store!Administer
  <2>2. Store!Other(kind, e) \in MemoryRequests
    BY DEF Store!Other, MemoryRequests
  <2> QED BY <2>1, <2>2, SubmitKeepsKinds
<1>4. CASE Store!Answer
  <2>1. mutation' = mutation /\ queue' \in Seq(MemoryRequests)
    BY <1>4, TakeKeepsKinds DEF Store!Answer
  <2> QED BY <2>1 DEF RequestKinds, Clearing
<1>5. CASE Store!Ensure
  BY <1>5 DEF Store!Ensure, RequestKinds, Clearing
<1>6. CASE Store!Begin
  BY <1>6, BeginKeepsKinds
<1>7. CASE Store!WriteIntent
  BY <1>7, OtherKindStays DEF Store!WriteIntent, Store!Mutate
<1>8. CASE Store!WriteTopic
  BY <1>8, OtherKindStays DEF Store!WriteTopic, Store!Mutate
<1>9. CASE Store!WriteIndex
  BY <1>9, OtherKindStays DEF Store!WriteIndex, Store!Mutate
<1>10. CASE Store!AppendOperation
  BY <1>10, OtherKindStays DEF Store!AppendOperation, Store!Mutate
<1>11. CASE Store!RemoveIntent
  BY <1>11, NoJobStays DEF Store!RemoveIntent
<1>12. CASE Store!UpdateSettings
  <2>1. CASE Store!At({"settings"}, "first") /\ Store!Go("journal") /\ queue' = queue
    BY <2>1, OtherKindStays
  <2>2. CASE mutation' = None /\ queue' = queue
    BY <2>2, NoJobStays
  <2> QED BY <1>12, <2>1, <2>2 DEF Store!UpdateSettings
<1>13. CASE Store!RebuildIndex
  BY <1>13, NoJobStays DEF Store!RebuildIndex
<1>14. CASE Store!ClearFile
  BY <1>14 DEF Store!ClearFile, RequestKinds, Clearing
<1>15. CASE Store!ClearState
  <2>1. CASE Store!At({"clear"}, "files") /\ Store!Go("intent") /\ queue' = queue
    BY <2>1, ClearStays
  <2>2. CASE Store!At({"clear"}, "intent") /\ Store!Go("settings") /\ queue' = queue
    BY <2>2, ClearStays
  <2>3. CASE mutation' = None /\ queue' = queue
    BY <2>3, NoJobStays
  <2> QED BY <1>15, <2>1, <2>2, <2>3 DEF Store!ClearState
<1>16. CASE Store!StepFails
  BY <1>16, NoJobStays DEF Store!StepFails
<1>17. CASE Store!Restart
  BY <1>17, NoJobStays DEF Store!Restart
<1> QED BY <1>1, <1>2, <1>3, <1>4, <1>5, <1>6, <1>7, <1>8, <1>9, <1>10, <1>11, <1>12, <1>13,
           <1>14, <1>15, <1>16, <1>17 DEF Store!Next, Store!Write, Store!Clear

LEMMA StoreSteps ==
  StoreIInv /\ RequestKinds /\ [Store!Next]_(Store!vars) => StoreIInv' /\ RequestKinds' /\ FencedStep
<1> SUFFICES ASSUME StoreIInv, RequestKinds, [Store!Next]_(Store!vars) PROVE StoreIInv' /\ FencedStep
  BY KindsStay
<1>1. CASE UNCHANGED Store!vars
  BY <1>1, FilesLeftAlone DEF Store!vars, Store!disk, Store!process
<1>2. CASE Store!MemoryTool \/ Store!DeleteFile \/ Store!Administer
  <2>1. UNCHANGED <<topics, intent, settings, mutation, ready, broken>>
    BY <1>2 DEF Store!MemoryTool, Store!CallTool, Store!DeleteFile, Store!Administer, Store!Submit, Store!disk
  <2> QED BY <2>1, FilesLeftAlone
<1>3. CASE Store!Answer
  <2>1. UNCHANGED <<topics, intent, settings, mutation, ready, broken>>
    BY <1>3 DEF Store!Answer, Store!Take
  <2> QED BY <2>1, FilesLeftAlone
<1>4. CASE Store!Ensure
  BY <1>4, EnsurePreserves
<1>5. CASE Store!Begin \/ Store!Write
  BY <1>5, BeginPreserves, WritePreserves
<1>6. CASE Store!UpdateSettings \/ Store!RebuildIndex \/ Store!Clear
  BY <1>6, UpdateSettingsPreserves, RebuildIndexPreserves, ClearPreserves
<1>7. CASE Store!StepFails \/ Store!Restart
  BY <1>7, CutShortPreserves
<1> QED BY <1>1, <1>2, <1>3, <1>4, <1>5, <1>6, <1>7 DEF Store!Next

\* A topic changes only from the body its writer, or the intent that recovers it, expects.
LEMMA CommitsStayFenced == Store!Spec => Store!CommitsAreFenced
<1>1. Store!Spec => [](StoreIInv /\ RequestKinds)
  BY StoreInitially, StoreSteps, PTL DEF Store!Spec
<1>2. Store!Spec => [][FencedStep]_(Store!vars)
  BY <1>1, StoreSteps, PTL DEF Store!Spec
<1> QED BY <1>2, PTL DEF Store!CommitsAreFenced, FencedStep

(* MEMORY.md and the topics *)

LEMMA WithoutCarries ==
  ASSUME NEW lines \in Seq(Store!IndexLines), NEW p
  PROVE  /\ Store!Without(lines, p) \in Seq(Store!IndexLines)
         /\ Elements(Store!Without(lines, p)) = {l \in Elements(lines) : ~Store!Matches(l, p)}
<1> DEFINE n == Len(lines)
           F == CHOOSE f : f = [k \in 0..n |->
                  IF k = 0 THEN <<>> ELSE IF Store!Matches(lines[k], p) THEN f[k - 1] ELSE Append(f[k - 1], lines[k])]
           S == Seq(Store!IndexLines)
           g == [a \in S \X (1..n) |-> IF Store!Matches(lines[a[2]], p) THEN a[1] ELSE Append(a[1], lines[a[2]])]
<1>1. Store!Without(lines, p) = F[n]
  BY DEF Store!Without
<1>2. n \in Nat /\ DOMAIN lines = 1..n /\ \A i \in 1..n : lines[i] \in Store!IndexLines
  BY ElementOfSeq
<1> HIDE DEF n, S
<1>3. g \in [S \X (1..n) -> S]
  <2>1. ASSUME NEW s \in S, NEW x \in Store!IndexLines PROVE Append(s, x) \in S
    BY DEF S
  <2>2. ASSUME NEW a \in S \X (1..n)
        PROVE  (IF Store!Matches(lines[a[2]], p) THEN a[1] ELSE Append(a[1], lines[a[2]])) \in S
    <3>1. a[1] \in S /\ a[2] \in 1..n
      OBVIOUS
    <3> QED BY <1>2, <2>1, <3>1
  <2> QED BY <2>2
<1>4. <<>> \in S
  BY DEF S
<1>5. PICK f \in [0..n -> S] : f[0] = <<>> /\ \A i \in 1..n : f[i] = g[<<f[i - 1], i>>]
  <2> DEFINE empty == <<>>
  <2>1. empty \in S
    BY <1>4
  <2> HIDE DEF g, empty
  <2>2. \E f \in [0..n -> S] : Steps(f, n, empty, g)
    BY <1>2, <1>3, <2>1, RecursionExists
  <2> QED BY <2>2 DEF empty, Steps
<1>6. ASSUME NEW i \in 1..n
      PROVE  f[i] = IF Store!Matches(lines[i], p) THEN f[i - 1] ELSE Append(f[i - 1], lines[i])
  <2>1. <<f[i - 1], i>> \in S \X (1..n)
    BY <1>2, <1>5, <1>6
  <2> QED BY <1>5, <1>6, <2>1
<1>7. f = [k \in 0..n |->
              IF k = 0 THEN <<>> ELSE IF Store!Matches(lines[k], p) THEN f[k - 1] ELSE Append(f[k - 1], lines[k])]
  <2>1. ASSUME NEW k \in 0..n
        PROVE  f[k] = IF k = 0 THEN <<>> ELSE IF Store!Matches(lines[k], p) THEN f[k - 1] ELSE Append(f[k - 1], lines[k])
    <3>1. CASE k = 0
      BY <1>5, <3>1
    <3>2. CASE k \in 1..n
      <4>1. k # 0
        BY <1>2, <3>2
      <4> QED BY <1>6, <3>2, <4>1
    <3> QED BY <1>2, <3>1, <3>2
  <2>2. f = [k \in 0..n |-> f[k]]
    BY <1>5
  <2> QED BY <2>1, <2>2
<1>8. F = [k \in 0..n |->
              IF k = 0 THEN <<>> ELSE IF Store!Matches(lines[k], p) THEN F[k - 1] ELSE Append(F[k - 1], lines[k])]
  BY <1>7
<1> HIDE DEF F
<1>9. F[0] = <<>> /\ \A k \in 1..n : F[k] = IF Store!Matches(lines[k], p) THEN F[k - 1] ELSE Append(F[k - 1], lines[k])
  <2>1. F[0] = <<>>
    BY <1>2, <1>8
  <2>2. ASSUME NEW k \in 1..n
        PROVE  F[k] = IF Store!Matches(lines[k], p) THEN F[k - 1] ELSE Append(F[k - 1], lines[k])
    <3>1. k \in 0..n /\ k # 0
      BY <1>2, <2>2
    <3> QED BY <1>8, <3>1
  <2> QED BY <2>1, <2>2
<1> DEFINE First(k) == {l \in {lines[i] : i \in 1..k} : ~Store!Matches(l, p)}
           P == {k \in 0..n : F[k] \in S /\ Elements(F[k]) = First(k)}
<1>10. 0 \in P
  <2>1. Elements(<<>>) = {} /\ First(0) = {}
    BY DEF Elements
  <2> QED BY <1>2, <1>4, <1>9, <2>1
<1>11. ASSUME NEW k \in 0..(n - 1), k \in P PROVE k + 1 \in P
  <2>1. /\ k + 1 \in 1..n /\ (k + 1) - 1 = k /\ k \in 0..n /\ k + 1 \in 0..n
    BY <1>2, <1>11
  <2>2. F[k + 1] = IF Store!Matches(lines[k + 1], p) THEN F[k] ELSE Append(F[k], lines[k + 1])
    BY <1>9, <2>1
  <2>3. {lines[i] : i \in 1..(k + 1)} = {lines[i] : i \in 1..k} \union {lines[k + 1]}
    BY <1>2, <2>1
  <2>4. First(k + 1) = First(k) \union (IF Store!Matches(lines[k + 1], p) THEN {} ELSE {lines[k + 1]})
    BY <2>3
  <2>5. F[k] \in S /\ Elements(F[k]) = First(k)
    BY <1>11
  <2> HIDE DEF First
  <2>6. CASE Store!Matches(lines[k + 1], p)
    BY <2>1, <2>2, <2>4, <2>5, <2>6
  <2>7. CASE ~Store!Matches(lines[k + 1], p)
    <3>1. F[k + 1] = Append(F[k], lines[k + 1]) /\ lines[k + 1] \in Store!IndexLines
      BY <1>2, <2>1, <2>2, <2>7
    <3>2. F[k + 1] \in S
      BY <2>5, <3>1 DEF S
    <3>3. Elements(F[k + 1]) = Elements(F[k]) \union {lines[k + 1]}
      BY <2>5, <3>1, ElementsOfAppend DEF S
    <3> QED BY <2>1, <2>4, <2>5, <2>7, <3>2, <3>3
  <2> QED BY <2>6, <2>7
<1> HIDE DEF P
<1>12. n \in P
  <2>1. 0..n \subseteq P
    BY <1>2, <1>10, <1>11, IntervalInduction
  <2> QED BY <1>2, <2>1
<1>13. F[n] \in S /\ Elements(F[n]) = First(n)
  BY <1>12 DEF P
<1> QED BY <1>1, <1>2, <1>13 DEF Elements, S

\* A set of numbers from 1 on without a gap is an interval.
LEMMA InitialInterval ==
  ASSUME NEW n \in Nat, NEW K \in SUBSET (1..n), \A k \in K : \A i \in 1..k : i \in K
  PROVE  Cardinality(K) \in 0..n /\ K = 1..Cardinality(K)
<1> DEFINE S == (1..(n + 1)) \ K
<1>1. S \in SUBSET Int /\ n + 1 \in S /\ IsFiniteSet(S)
  <2>1. S \in SUBSET (1..(n + 1)) /\ IsFiniteSet(1..(n + 1)) /\ n + 1 \in S
    BY FS_Interval
  <2> HIDE DEF S
  <2>2. IsFiniteSet(S)
    BY <2>1, FS_Subset
  <2> QED BY <2>1, <2>2
<1>2. PICK m \in S : \A y \in S : m <= y
  <2> HIDE DEF S
  <2> QED BY <1>1, IntegersHaveMin
<1>3. m \in 1..(n + 1)
  BY <1>2
<1>4. K = 1..(m - 1)
  <2>1. ASSUME NEW i \in 1..(m - 1) PROVE i \in K
    BY <1>2, <1>3
  <2>2. ASSUME NEW i \in K PROVE i \in 1..(m - 1)
    <3>1. i \in 1..n
      OBVIOUS
    <3>2. ~(m <= i)
      <4>1. ASSUME m <= i PROVE FALSE
        <5>1. m \in 1..i
          BY <1>3, <3>1, <4>1
        <5>2. m \in K
          BY <5>1
        <5> QED BY <1>2, <5>2
      <4> QED BY <4>1
    <3> QED BY <1>3, <3>1, <3>2
  <2> QED BY <2>1, <2>2
<1>5. Cardinality(1..(m - 1)) = m - 1
  BY <1>3, FS_Interval
<1> QED BY <1>3, <1>4, <1>5

LEMMA TrimmedCarries ==
  ASSUME NEW lines \in Seq(Store!IndexLines)
  PROVE  /\ Store!Trimmed(lines) \in Seq(Store!IndexLines)
         /\ Elements(Store!Trimmed(lines)) \union {Store!Blank} = Elements(lines) \union {Store!Blank}
<1> DEFINE n == Len(lines)
           K == {i \in DOMAIN lines : \E j \in i..Len(lines) : lines[j] # Store!Blank}
           m == Cardinality(K)
           kept == SubSeq(lines, 1, m)
<1>1. n \in Nat /\ DOMAIN lines = 1..n /\ \A i \in 1..n : lines[i] \in Store!IndexLines
  BY ElementOfSeq
<1>2. Store!Trimmed(lines) = kept
  <2>1. Store!Cardinality(K) = Cardinality(K)
    BY DEF Store!Cardinality, Cardinality
  <2> QED BY <2>1 DEF Store!Trimmed
<1>3. K \in SUBSET (1..n) /\ \A k \in K : \A i \in 1..k : i \in K
  <2>1. ASSUME NEW k \in K, NEW i \in 1..k PROVE i \in K
    <3>1. PICK j \in k..n : lines[j] # Store!Blank
      OBVIOUS
    <3>2. k \in 1..n
      BY <1>1
    <3>3. i \in 1..n /\ j \in i..n
      BY <1>1, <3>1, <3>2
    <3> QED BY <1>1, <3>1, <3>3
  <2> QED BY <1>1, <2>1
<1>4. \A j \in 1..n : lines[j] # Store!Blank => j \in K
  BY <1>1
<1>5. m \in 0..n /\ K = 1..m
  <2> HIDE DEF K
  <2> QED BY <1>1, <1>3, InitialInterval
<1> HIDE DEF m, K, n
<1>6. /\ kept \in Seq(Store!IndexLines) /\ Len(kept) = m /\ DOMAIN kept = 1..m
      /\ \A i \in 1..m : kept[i] = lines[i]
  BY <1>1, <1>5 DEF n
<1> HIDE DEF kept
<1>7. ASSUME NEW i \in 1..m PROVE kept[i] \in Elements(lines)
  BY <1>1, <1>5, <1>6 DEF Elements
<1>8. ASSUME NEW i \in 1..n PROVE lines[i] \in Elements(kept) \union {Store!Blank}
  BY <1>4, <1>5, <1>6, <1>8 DEF Elements
<1> QED BY <1>1, <1>2, <1>6, <1>7, <1>8 DEF Elements

\* the bodies a list of lines has for a topic
ListedIn(lines, p) == {lines[i].body : i \in {j \in DOMAIN lines : lines[j].path = p}}

\* a line of the topic is one that no later upsert or remove finds
Marred(lines, p) == \E i \in DOMAIN lines : lines[i].path = p /\ ~lines[i].plain

\* the lines name the topic with the body b, unless one of them is marred
Names(lines, p, b) == Marred(lines, p) \/ ListedIn(lines, p) = {b} \ {None}

LEMMA ListedElements ==
  ASSUME NEW lines, NEW p
  PROVE  ListedIn(lines, p) = {l.body : l \in {m \in Elements(lines) : m.path = p}}
BY DEF ListedIn, Elements

LEMMA ListedBody ==
  ASSUME NEW lines, NEW p, NEW b
  PROVE  b \in ListedIn(lines, p) <=> \E l \in Elements(lines) : l.path = p /\ l.body = b
BY DEF ListedIn, Elements

LEMMA MarredElements ==
  ASSUME NEW lines, NEW p
  PROVE  Marred(lines, p) <=> \E l \in Elements(lines) : l.path = p /\ ~l.plain
BY DEF Marred, Elements

LEMMA SameLines ==
  ASSUME NEW us, NEW lines, NEW p,
         {m \in Elements(us) : m.path = p} = {m \in Elements(lines) : m.path = p}
  PROVE  ListedIn(us, p) = ListedIn(lines, p) /\ (Marred(lines, p) => Marred(us, p))
<1>1. ListedIn(us, p) = ListedIn(lines, p)
  BY ListedElements
<1>2. ASSUME Marred(lines, p) PROVE Marred(us, p)
  <2>1. PICK l \in Elements(lines) : l.path = p /\ ~l.plain
    BY <1>2, MarredElements
  <2>2. l \in Elements(us)
    BY <2>1
  <2> QED BY <2>1, <2>2, MarredElements
<1> QED BY <1>1, <1>2

LEMMA NoneIsNoPath == None \notin Paths /\ None \notin Bodies
BY ContextPartsAssumption DEF Store!MemoryAssumption

LEMMA BlankIsLine == Store!Blank \in Store!IndexLines /\ Store!Blank.path = None
BY DEF Store!Blank, Store!IndexLines

\* The index without a topic, and with a line of it at its end.
LEMMA RemovedIsNamed ==
  ASSUME NEW lines \in Seq(Store!IndexLines), NEW p \in Paths
  PROVE  /\ Store!Without(lines, p) \in Seq(Store!IndexLines)
         /\ Marred(Store!Without(lines, p), p) \/ ListedIn(Store!Without(lines, p), p) = {}
         /\ \A q \in Paths \ {p} : /\ ListedIn(Store!Without(lines, p), q) = ListedIn(lines, q)
                                   /\ Marred(lines, q) => Marred(Store!Without(lines, p), q)
<1> DEFINE ws == Store!Without(lines, p)
<1>1. /\ ws \in Seq(Store!IndexLines)
      /\ Elements(ws) = {l \in Elements(lines) : ~Store!Matches(l, p)}
  BY WithoutCarries
<1> HIDE DEF ws
<1>2. ASSUME ~Marred(ws, p) PROVE ListedIn(ws, p) = {}
  <2>1. \A l \in Elements(ws) : l.path # p
    <3> SUFFICES ASSUME NEW l \in Elements(ws), l.path = p PROVE FALSE
      OBVIOUS
    <3>1. ~l.plain
      BY <1>1 DEF Store!Matches
    <3> QED BY <1>2, <3>1, MarredElements
  <2> QED BY <2>1, ListedBody
<1>3. ASSUME NEW q \in Paths \ {p}
      PROVE  ListedIn(ws, q) = ListedIn(lines, q) /\ (Marred(lines, q) => Marred(ws, q))
  <2>1. {m \in Elements(ws) : m.path = q} = {m \in Elements(lines) : m.path = q}
    BY <1>1, <1>3 DEF Store!Matches
  <2> QED BY <2>1, SameLines
<1> QED BY <1>1, <1>2, <1>3 DEF ws

LEMMA UpsertedIsNamed ==
  ASSUME NEW lines \in Seq(Store!IndexLines), NEW p \in Paths, NEW b \in Bodies, NEW plain \in BOOLEAN
  PROVE  LET us == Store!UpsertIndexEntry(lines, p, b, plain) IN
         /\ us \in Seq(Store!IndexLines)
         /\ ListedIn(us, p) = {b} \/ (Marred(us, p) /\ ListedIn(us, p) \subseteq ListedIn(lines, p) \union {b})
         /\ b \in ListedIn(us, p)
         /\ \A q \in Paths \ {p} : ListedIn(us, q) = ListedIn(lines, q) /\ (Marred(lines, q) => Marred(us, q))
<1> DEFINE ws == Store!Without(lines, p)
           ts == Store!Trimmed(ws)
           e == Store!Entry(p, b, plain)
           k == Store!Blank
           us == ts \o <<k, e>>
<1>1. ws \in Seq(Store!IndexLines) /\ Elements(ws) = {l \in Elements(lines) : ~Store!Matches(l, p)}
  BY WithoutCarries
<1>2. ts \in Seq(Store!IndexLines) /\ Elements(ts) \union {k} = Elements(ws) \union {k}
  <2> HIDE DEF ws
  <2> QED BY <1>1, TrimmedCarries
<1>3. e \in Store!IndexLines /\ e.path = p /\ e.body = b
  BY DEF Store!Entry, Store!IndexLines
<1>4. k \in Store!IndexLines /\ k.path = None
  BY BlankIsLine
<1>5. Store!UpsertIndexEntry(lines, p, b, plain) = us
  BY DEF Store!UpsertIndexEntry
<1> HIDE DEF ws, ts, e, k
<1>6. us = Append(Append(ts, k), e)
  BY <1>2, <1>3, <1>4
<1>7. us \in Seq(Store!IndexLines) /\ Elements(us) = Elements(ts) \union {k, e}
  <2>1. Append(ts, k) \in Seq(Store!IndexLines) /\ Elements(Append(ts, k)) = Elements(ts) \union {k}
    BY <1>2, <1>4, ElementsOfAppend
  <2> DEFINE vs == Append(ts, k)
  <2> HIDE DEF vs
  <2>2. vs \in Seq(Store!IndexLines) => Append(vs, e) \in Seq(Store!IndexLines) /\ Elements(Append(vs, e)) = Elements(vs) \union {e}
    BY <1>3, ElementsOfAppend
  <2> QED BY <1>6, <2>1, <2>2 DEF vs
<1> HIDE DEF us
<1>8. Elements(us) = {l \in Elements(lines) : ~Store!Matches(l, p)} \union {k, e}
  BY <1>1, <1>2, <1>7
<1>9. \A q \in Paths : q # None
  BY NoneIsNoPath
<1>10. b \in ListedIn(us, p)
  BY <1>3, <1>8, ListedBody
<1>11. ListedIn(us, p) \subseteq ListedIn(lines, p) \union {b}
  <2> SUFFICES ASSUME NEW l \in Elements(us), l.path = p PROVE l.body \in ListedIn(lines, p) \union {b}
    BY ListedBody
  <2>1. l = e \/ l \in Elements(lines)
    BY <1>4, <1>8, <1>9
  <2> QED BY <1>3, <2>1, ListedBody
<1>12. ASSUME ~Marred(us, p) PROVE ListedIn(us, p) = {b}
  <2>1. ASSUME NEW l \in Elements(us), l.path = p PROVE l.body = b
    <3>1. l = e \/ (l \in Elements(lines) /\ ~Store!Matches(l, p))
      BY <1>4, <1>8, <1>9, <2>1
    <3>2. l.plain
      BY <1>12, <2>1, MarredElements
    <3> QED BY <1>3, <2>1, <3>1, <3>2 DEF Store!Matches
  <2>2. \A c \in ListedIn(us, p) : c = b
    BY <2>1, ListedBody
  <2> QED BY <1>10, <2>2
<1>13. ASSUME NEW q \in Paths \ {p}
       PROVE  ListedIn(us, q) = ListedIn(lines, q) /\ (Marred(lines, q) => Marred(us, q))
  <2>1. {m \in Elements(us) : m.path = q} = {m \in Elements(lines) : m.path = q}
    BY <1>3, <1>4, <1>8, <1>9, <1>13 DEF Store!Matches
  <2> QED BY <2>1, SameLines
<1> QED BY <1>5, <1>7, <1>10, <1>11, <1>12, <1>13

\* Every order of a set lists each element of it.
LEMMA OrdersList ==
  ASSUME NEW S, IsFiniteSet(S), NEW order \in Store!Orders(S)
  PROVE  order \in Seq(S) /\ Elements(order) = S
<1> DEFINE n == Cardinality(S)
<1>1. n \in Nat
  BY FS_CardinalityType
<1>2. Store!Cardinality(S) = n
  BY DEF Store!Cardinality, Cardinality
<1> HIDE DEF n
<1>3. order \in [1..n -> S] /\ order \in Surjection(1..n, S)
  BY <1>2 DEF Store!Orders, Store!Bijection, Store!Surjection, Surjection
<1>4. order \in Seq(S)
  BY <1>1, <1>3
<1> QED BY <1>3, <1>4 DEF Elements, Surjection

TopicBodies == Bodies \union {None}

\* The rebuilt index names the topics that it was rebuilt from, and no others.
LEMMA RebuiltNames ==
  ASSUME NEW order \in Seq(Paths), topics \in [Paths -> TopicBodies],
         \A i \in DOMAIN order : topics[order[i]] # None
  PROVE  /\ Store!RebuiltIndex(order) \in Seq(Store!IndexLines)
         /\ \A p \in Paths : ListedIn(Store!RebuiltIndex(order), p) =
                               IF p \in Elements(order) THEN {topics[p]} ELSE {}
<1> DEFINE plain(i) == topics[order[i]] \notin Bracketed
           n == Len(order)
           F == CHOOSE f : f = [k \in 0..n |->
                  IF k = 0 THEN <<>> ELSE Store!UpsertIndexEntry(f[k - 1], order[k], topics[order[k]], plain(k))]
           S == Seq(Store!IndexLines)
           g == [a \in S \X (1..n) |-> Store!UpsertIndexEntry(a[1], order[a[2]], topics[order[a[2]]], plain(a[2]))]
<1>1. Store!RebuiltIndex(order) = F[n]
  BY DEF Store!RebuiltIndex
<1>2. n \in Nat /\ DOMAIN order = 1..n /\ \A i \in 1..n : order[i] \in Paths /\ topics[order[i]] \in Bodies
  <2>1. n \in Nat /\ DOMAIN order = 1..n /\ \A i \in 1..n : order[i] \in Paths
    BY ElementOfSeq
  <2> QED BY <2>1 DEF TopicBodies
<1> HIDE DEF n, S
<1>3. g \in [S \X (1..n) -> S]
  <2>1. ASSUME NEW a \in S \X (1..n)
        PROVE  Store!UpsertIndexEntry(a[1], order[a[2]], topics[order[a[2]]], plain(a[2])) \in S
    <3>1. a[1] \in S /\ a[2] \in 1..n
      OBVIOUS
    <3>2. plain(a[2]) \in BOOLEAN
      OBVIOUS
    <3> HIDE DEF plain
    <3> QED BY <1>2, <3>1, <3>2, UpsertedIsNamed DEF S
  <2> QED BY <2>1
<1>4. <<>> \in S
  BY DEF S
<1>5. PICK f \in [0..n -> S] : f[0] = <<>> /\ \A i \in 1..n : f[i] = g[<<f[i - 1], i>>]
  <2> DEFINE empty == <<>>
  <2>1. empty \in S
    BY <1>4
  <2> HIDE DEF g, empty
  <2>2. \E f \in [0..n -> S] : Steps(f, n, empty, g)
    BY <1>2, <1>3, <2>1, RecursionExists
  <2> QED BY <2>2 DEF empty, Steps
<1>6. ASSUME NEW i \in 1..n
      PROVE  f[i] = Store!UpsertIndexEntry(f[i - 1], order[i], topics[order[i]], plain(i))
  <2>1. <<f[i - 1], i>> \in S \X (1..n)
    BY <1>2, <1>5, <1>6
  <2> QED BY <1>5, <1>6, <2>1
<1>7. f = [k \in 0..n |->
              IF k = 0 THEN <<>> ELSE Store!UpsertIndexEntry(f[k - 1], order[k], topics[order[k]], plain(k))]
  <2>1. ASSUME NEW k \in 0..n
        PROVE  f[k] = IF k = 0 THEN <<>> ELSE Store!UpsertIndexEntry(f[k - 1], order[k], topics[order[k]], plain(k))
    <3>1. CASE k = 0
      BY <1>5, <3>1
    <3>2. CASE k \in 1..n
      <4>1. k # 0
        BY <1>2, <3>2
      <4> QED BY <1>6, <3>2, <4>1
    <3> QED BY <1>2, <3>1, <3>2
  <2>2. f = [k \in 0..n |-> f[k]]
    BY <1>5
  <2> QED BY <2>1, <2>2
<1>8. F = [k \in 0..n |->
              IF k = 0 THEN <<>> ELSE Store!UpsertIndexEntry(F[k - 1], order[k], topics[order[k]], plain(k))]
  BY <1>7
<1> HIDE DEF F
<1>9. F[0] = <<>> /\ \A k \in 1..n : F[k] = Store!UpsertIndexEntry(F[k - 1], order[k], topics[order[k]], plain(k))
  <2>1. F[0] = <<>>
    BY <1>2, <1>8
  <2>2. ASSUME NEW k \in 1..n
        PROVE  F[k] = Store!UpsertIndexEntry(F[k - 1], order[k], topics[order[k]], plain(k))
    <3>1. k \in 0..n /\ k # 0
      BY <1>2, <2>2
    <3> QED BY <1>8, <3>1
  <2> QED BY <2>1, <2>2
<1> DEFINE First(k) == {order[i] : i \in 1..k}
           Right(k) == \A p \in Paths : ListedIn(F[k], p) = IF p \in First(k) THEN {topics[p]} ELSE {}
           P == {k \in 0..n : F[k] \in S /\ Right(k)}
<1>10. 0 \in P
  <2>1. First(0) = {}
    OBVIOUS
  <2>2. \A p \in Paths : ListedIn(<<>>, p) = {}
    <3>1. Elements(<<>>) = {}
      BY DEF Elements
    <3> QED BY <3>1, ListedElements
  <2> DEFINE empty == <<>>
  <2>3. F[0] = empty /\ empty \in S /\ \A p \in Paths : ListedIn(empty, p) = {}
    BY <1>4, <1>9, <2>2
  <2> HIDE DEF First, empty
  <2>4. F[0] \in S
    BY <2>3
  <2>5. Right(0)
    BY <2>1, <2>3
  <2>6. 0 \in 0..n
    BY <1>2
  <2> HIDE DEF Right
  <2> QED BY <2>4, <2>5, <2>6
<1>11. ASSUME NEW k \in 0..(n - 1), k \in P PROVE k + 1 \in P
  <2>1. /\ k + 1 \in 1..n /\ (k + 1) - 1 = k /\ k \in 0..n /\ k + 1 \in 0..n
    BY <1>2, <1>11
  <2> DEFINE q == order[k + 1]
  <2>2. F[k + 1] = Store!UpsertIndexEntry(F[k], q, topics[q], plain(k + 1))
    BY <1>9, <2>1
  <2>3. q \in Paths /\ topics[q] \in Bodies
    BY <1>2, <2>1
  <2>4. First(k + 1) = First(k) \union {q}
    BY <1>2, <2>1
  <2>5. F[k] \in S /\ Right(k)
    BY <1>11
  <2> HIDE DEF First, q
  <2>6. /\ F[k + 1] \in S /\ ListedIn(F[k + 1], q) = {topics[q]}
        /\ \A p \in Paths \ {q} : ListedIn(F[k + 1], p) = ListedIn(F[k], p)
    <3> HIDE DEF Right
    <3>1. /\ F[k + 1] \in S /\ topics[q] \in ListedIn(F[k + 1], q)
          /\ ListedIn(F[k + 1], q) \subseteq ListedIn(F[k], q) \union {topics[q]}
          /\ \A p \in Paths \ {q} : ListedIn(F[k + 1], p) = ListedIn(F[k], p)
      <4>1. PICK titled \in BOOLEAN : F[k + 1] = Store!UpsertIndexEntry(F[k], q, topics[q], titled)
        BY <2>2
      <4> DEFINE lines == F[k]
                 us == Store!UpsertIndexEntry(lines, q, topics[q], titled)
      <4>2. lines \in Seq(Store!IndexLines)
        BY <2>5 DEF S
      <4> HIDE DEF lines
      <4>3. /\ us \in Seq(Store!IndexLines) /\ topics[q] \in ListedIn(us, q)
            /\ ListedIn(us, q) = {topics[q]}
                 \/ (Marred(us, q) /\ ListedIn(us, q) \subseteq ListedIn(lines, q) \union {topics[q]})
            /\ \A p \in Paths \ {q} : ListedIn(us, p) = ListedIn(lines, p)
        BY <2>3, <4>1, <4>2, UpsertedIsNamed
      <4>4. F[k + 1] = us
        BY <4>1 DEF lines
      <4> HIDE DEF us
      <4> QED BY <4>3, <4>4 DEF lines, S
    <3>2. ListedIn(F[k], q) \subseteq {topics[q]}
      BY <2>3, <2>5 DEF Right
    <3> QED BY <3>1, <3>2
  <2>7. ASSUME NEW p \in Paths
        PROVE  ListedIn(F[k + 1], p) = IF p \in First(k + 1) THEN {topics[p]} ELSE {}
    BY <2>4, <2>5, <2>6
  <2> QED BY <2>1, <2>6, <2>7
<1> HIDE DEF P
<1>12. n \in P
  <2>1. 0..n \subseteq P
    BY <1>2, <1>10, <1>11, IntervalInduction
  <2> QED BY <1>2, <2>1
<1>13. F[n] \in S /\ Right(n)
  BY <1>12 DEF P
<1> QED BY <1>1, <1>2, <1>13 DEF Elements, S

\* What a rebuild writes names every topic with the body it has.
LEMMA RebuildNames ==
  ASSUME topics \in [Paths -> TopicBodies],
         NEW order \in Store!Orders({p \in Paths : topics[p] # None})
  PROVE  /\ Store!RebuiltIndex(order) \in Seq(Store!IndexLines)
         /\ \A p \in Paths : Names(Store!RebuiltIndex(order), p, topics[p])
<1> DEFINE S == {p \in Paths : topics[p] # None}
<1>1. IsFiniteSet(S)
  <2>1. IsFiniteSet(Paths) /\ S \subseteq Paths
    BY ContextPartsAssumption DEF Store!MemoryAssumption, Store!IsFiniteSet, IsFiniteSet
  <2> HIDE DEF S
  <2> QED BY <2>1, FS_Subset
<1> HIDE DEF S
<1>2. order \in Seq(S) /\ Elements(order) = S
  BY <1>1, OrdersList DEF S
<1>3. order \in Seq(Paths) /\ \A i \in DOMAIN order : topics[order[i]] # None
  <2>1. S \subseteq Paths /\ \A p \in S : topics[p] # None
    BY DEF S
  <2>2. \A i \in DOMAIN order : order[i] \in S
    BY <1>2 DEF Elements
  <2> QED BY <1>2, <2>1, <2>2
<1>4. /\ Store!RebuiltIndex(order) \in Seq(Store!IndexLines)
      /\ \A p \in Paths : ListedIn(Store!RebuiltIndex(order), p) = IF p \in S THEN {topics[p]} ELSE {}
  BY <1>2, <1>3, RebuiltNames
<1>5. ASSUME NEW p \in Paths PROVE Names(Store!RebuiltIndex(order), p, topics[p])
  BY <1>4 DEF Names, S
<1> QED BY <1>4, <1>5

Agrees(p) == Names(index, p, topics[p])

\* the topic the intent is still to repair
Pending(p) ==
  /\ intent # None /\ intent.path = p
  /\ ~ready \/ degraded \/ (Mutating /\ mutation.step = "index")

\* the index of x names the body that x writes, and every other topic as it is
Repairs(x) ==
  /\ Names(x.index, x.path, x.body)
  /\ ~Clearing => \A p \in Paths \ (broken \union {x.path}) : Names(x.index, p, topics[p])

IndexTypes ==
  /\ topics \in [Paths -> TopicBodies] /\ index \in Seq(Store!IndexLines)
  /\ intent \in Store!Plans \union {None}
  /\ Mutating => mutation \in Store!MutationJobs

\* but for the topics that a step left behind, and the one that the intent repairs
IndexAgrees == ~Clearing => \A p \in Paths \ broken : Agrees(p) \/ Pending(p)

IntentRepairs == intent # None => Repairs(intent)

JobRepairs ==
  Mutating =>
    /\ ready /\ ~degraded /\ Repairs(mutation.plan)
    /\ mutation.step # "first" => intent = mutation.plan

ClearLeavesNothing ==
  Clearing /\ mutation.step # "files" => index = <<>> /\ \A p \in Paths : topics[p] = None

IndexIInv == IndexTypes /\ IndexAgrees /\ IntentRepairs /\ JobRepairs /\ ClearLeavesNothing

LEMMA EmptyNames ==
  ASSUME NEW p, NEW b, b = None
  PROVE  Names(<<>>, p, b)
<1>1. Elements(<<>>) = {}
  BY DEF Elements
<1> QED BY <1>1, ListedBody DEF Names

LEMMA IndexInitially == Store!Init => IndexIInv
<1> SUFFICES ASSUME Store!Init PROVE IndexIInv
  OBVIOUS
<1>1. mutation = None /\ intent = None /\ topics = [p \in Paths |-> None] /\ index = <<>>
  BY DEF Store!Init
<1>2. <<>> \in Seq(Store!IndexLines)
  OBVIOUS
<1>3. IndexTypes
  BY <1>1, <1>2 DEF IndexTypes, TopicBodies, Mutating
<1>4. \A p \in Paths : Agrees(p)
  BY <1>1, EmptyNames DEF Agrees
<1> QED BY <1>1, <1>3, <1>4
        DEF IndexIInv, IndexAgrees, IntentRepairs, JobRepairs, ClearLeavesNothing, Mutating, Clearing

\* A step that writes neither topics nor index, and leaves the request at work as it is.
LEMMA MemoryLeftAlone ==
  ASSUME IndexIInv, UNCHANGED <<topics, index, intent, mutation, ready, degraded, broken>>
  PROVE  IndexIInv'
BY DEF IndexIInv, IndexTypes, IndexAgrees, IntentRepairs, JobRepairs, ClearLeavesNothing,
       Agrees, Pending, Repairs, Mutating, Clearing

\* The same when the request at work, not a mutation or a clear, begins, goes on or ends.
LEMMA OtherJobKeepsIndex ==
  ASSUME IndexIInv, UNCHANGED <<topics, index, intent, ready, degraded, broken>>,
         ~Mutating, ~Clearing, ~Mutating', ~Clearing'
  PROVE  IndexIInv'
<1>1. IndexTypes'
  BY DEF IndexIInv, IndexTypes
<1>2. IndexAgrees'
  BY DEF IndexIInv, IndexAgrees, Agrees, Pending
<1>3. IntentRepairs'
  BY DEF IndexIInv, IntentRepairs, Repairs
<1> QED BY <1>1, <1>2, <1>3 DEF IndexIInv, JobRepairs, ClearLeavesNothing

\* Recovery, whatever its step that fails.
LEMMA EnsureKeepsIndex == ASSUME StoreIInv, IndexIInv, Store!Ensure PROVE IndexIInv'
<1>1. ~ready /\ ready' /\ mutation' = mutation
  BY DEF Store!Ensure
<1>2. mutation = None /\ mutation' = None
  BY <1>1 DEF StoreIInv, StoreShape
<1>3. ~Mutating /\ ~Clearing /\ ~Mutating' /\ ~Clearing'
  BY <1>2 DEF Mutating, Clearing
<1>4. IndexTypes /\ IndexAgrees /\ IntentRepairs
  BY DEF IndexIInv
<1>5. SUFFICES IndexTypes' /\ IndexAgrees' /\ IntentRepairs'
  BY <1>3 DEF IndexIInv, JobRepairs, ClearLeavesNothing
<1>6. CASE intent = None
  <2>1. UNCHANGED <<topics, index, intent, broken>>
    BY <1>6 DEF Store!Ensure
  <2>2. \A p \in Paths \ broken : Agrees(p)
    BY <1>3, <1>4, <1>6 DEF IndexAgrees, Pending
  <2> QED BY <1>3, <1>4, <1>6, <2>1, <2>2 DEF IndexTypes, IndexAgrees, IntentRepairs, Agrees
<1>7. CASE intent # None
  <2> DEFINE q == intent.path
             b == intent.body
             lines == intent.index
  <2>1. PICK n \in 0..4 :
          /\ topics' = IF n >= 1 THEN [topics EXCEPT ![q] = b] ELSE topics
          /\ index' = IF n >= 2 THEN lines ELSE index
          /\ intent' = IF n = 4 THEN None ELSE intent
          /\ degraded' = (n < 4)
          /\ broken' = IF n >= 2 THEN broken \ {q} ELSE broken
    BY <1>7 DEF Store!Ensure, Store!Recovered
  <2>2. q \in Paths /\ b \in TopicBodies /\ lines \in Seq(Store!IndexLines)
    BY <1>4, <1>7 DEF IndexTypes, Store!Plans, TopicBodies
  <2>3. /\ Names(lines, q, b)
        /\ \A p \in Paths \ (broken \union {q}) : Names(lines, p, topics[p])
    BY <1>3, <1>4, <1>7 DEF IntentRepairs, Repairs
  <2>4. \A p \in Paths \ (broken \union {q}) : Agrees(p)
    BY <1>3, <1>4 DEF IndexAgrees, Pending
  <2>5. topics \in [Paths -> TopicBodies] /\ index \in Seq(Store!IndexLines)
    BY <1>4 DEF IndexTypes
  <2>6. topics' \in [Paths -> TopicBodies] /\ \A p \in Paths \ {q} : topics'[p] = topics[p]
    BY <2>1, <2>2, <2>5
  <2>7. broken' \union {q} = broken \union {q}
    BY <2>1
  <2>8. intent' \in {None, intent}
    BY <2>1
  <2>9. IntentRepairs'
    <3> SUFFICES ASSUME intent' # None PROVE Repairs(intent)'
      BY DEF IntentRepairs
    <3>1. intent' = intent
      BY <2>8
    <3>2. Names(lines, q, b)'
      BY <2>3, <3>1 DEF Names, ListedIn, Marred
    <3>3. ASSUME NEW p \in Paths \ (broken' \union {q}) PROVE Names(lines, p, topics'[p])
      BY <2>3, <2>6, <2>7, <3>3
    <3> QED BY <3>1, <3>2, <3>3 DEF Repairs
  <2>10. IndexTypes'
    <3>1. index' \in Seq(Store!IndexLines)
      BY <2>1, <2>2, <2>5
    <3>2. intent' \in Store!Plans \union {None}
      BY <1>4, <2>8 DEF IndexTypes
    <3> QED BY <1>3, <2>6, <3>1, <3>2 DEF IndexTypes
  <2>11. CASE n < 2
    <3>1. intent' = intent /\ index' = index /\ broken' = broken /\ degraded'
      <4>1. n < 4 /\ n # 4 /\ ~(n >= 2)
        BY <2>1, <2>11
      <4>2. degraded'
        <5>1. degraded' = (n < 4)
          BY <2>1
        <5> QED BY <4>1, <5>1
      <4> QED BY <2>1, <4>1, <4>2
    <3>2. Pending(q)'
      BY <1>7, <3>1 DEF Pending
    <3>3. \A p \in Paths \ (broken \union {q}) : Agrees(p)'
      BY <2>4, <2>6, <3>1 DEF Agrees
    <3>4. IndexAgrees'
      BY <3>1, <3>2, <3>3 DEF IndexAgrees
    <3> QED BY <2>9, <2>10, <3>4
  <2>12. CASE n >= 2
    <3>1. index' = lines /\ topics'[q] = b
      BY <2>1, <2>2, <2>5, <2>12
    <3>2. \A p \in Paths \ broken' : Names(lines, p, topics'[p])
      BY <2>1, <2>3, <2>6, <2>12, <3>1
    <3>3. IndexAgrees'
      <4> HIDE DEF lines
      <4> QED BY <3>1, <3>2 DEF IndexAgrees, Agrees
    <3> QED BY <2>9, <2>10, <3>3
  <2> QED BY <2>1, <2>11, <2>12
<1> QED BY <1>6, <1>7

\* A mutation begins: its plan keeps every other topic named as it is.
LEMMA PlannedIndex ==
  ASSUME IndexIInv, NEW r \in Store!Mutations, ready, ~degraded, mutation = None
  PROVE  /\ Store!NextIndex(r) \in Seq(Store!IndexLines)
         /\ Names(Store!NextIndex(r), r.path, r.body)
         /\ \A p \in Paths \ (broken \union {r.path}) : Names(Store!NextIndex(r), p, topics[p])
<1>1. index \in Seq(Store!IndexLines)
  BY DEF IndexIInv, IndexTypes
<1>2. \A p \in Paths \ broken : Names(index, p, topics[p])
  BY DEF IndexIInv, IndexAgrees, Agrees, Pending, Mutating, Clearing
<1>3. /\ r.path \in Paths /\ r.body \in Bodies \union {None} /\ r.plain \in BOOLEAN
      /\ r.kind = "upsert" => r.body \in Bodies
      /\ r.kind # "upsert" => r.body = None
  BY DEF Store!Mutations
<1>4. CASE r.kind = "upsert"
  <2>1. Store!NextIndex(r) = Store!UpsertIndexEntry(index, r.path, r.body, r.plain)
    BY <1>4 DEF Store!NextIndex
  <2>2. /\ Store!NextIndex(r) \in Seq(Store!IndexLines)
        /\ Marred(Store!NextIndex(r), r.path) \/ ListedIn(Store!NextIndex(r), r.path) = {r.body}
        /\ \A p \in Paths \ {r.path} :
             /\ ListedIn(Store!NextIndex(r), p) = ListedIn(index, p)
             /\ Marred(index, p) => Marred(Store!NextIndex(r), p)
    BY <1>1, <1>3, <1>4, <2>1, UpsertedIsNamed
  <2>3. r.body # None
    BY <1>3, <1>4, NoneIsNoPath
  <2> QED BY <1>2, <2>2, <2>3 DEF Names
<1>5. CASE r.kind # "upsert"
  <2>1. Store!NextIndex(r) = Store!Without(index, r.path)
    BY <1>5 DEF Store!NextIndex, Store!RemoveIndexEntry
  <2>2. /\ Store!NextIndex(r) \in Seq(Store!IndexLines)
        /\ Marred(Store!NextIndex(r), r.path) \/ ListedIn(Store!NextIndex(r), r.path) = {}
        /\ \A p \in Paths \ {r.path} :
             /\ ListedIn(Store!NextIndex(r), p) = ListedIn(index, p)
             /\ Marred(index, p) => Marred(Store!NextIndex(r), p)
    BY <1>1, <1>3, <2>1, RemovedIsNamed
  <2> QED BY <1>2, <1>3, <1>5, <2>2 DEF Names
<1> QED BY <1>4, <1>5

LEMMA BeginKeepsIndex ==
  ASSUME StoreIInv, RequestKinds, IndexIInv, Store!Begin PROVE IndexIInv'
<1> DEFINE r == Head(queue)
           planned == [id |-> r.id, path |-> r.path, before |-> topics[r.path],
                       body |-> r.body, index |-> Store!NextIndex(r)]
<1>1. r \in MemoryRequests
  BY TakeKeepsKinds DEF Store!Begin
<1>2. /\ UNCHANGED <<topics, index, intent, ready, degraded, broken>> /\ ready /\ mutation = None
      /\ Store!IsMutation(r) => Store!MayCommit(r)
      /\ mutation' = [req |-> r, step |-> IF r.kind = "clear" THEN "files" ELSE "first",
                      plan |-> IF Store!IsMutation(r) THEN planned ELSE None]
  BY DEF Store!Begin, Store!Take, Store!disk
<1> HIDE DEF r
<1>3. mutation'.req = r /\ mutation'.step = (IF r.kind = "clear" THEN "files" ELSE "first")
  BY <1>2
<1>4. ~Mutating /\ ~Clearing
  BY <1>2 DEF Mutating, Clearing
<1>5. IndexTypes /\ IndexAgrees /\ IntentRepairs
  BY DEF IndexIInv
<1>6. CASE Store!IsMutation(r)
  <2>1. r.kind # "clear" /\ r.kind \in {"upsert", "remove"}
    BY <1>6 DEF Store!IsMutation
  <2>2. r \in Store!Mutations
    BY <1>1, <2>1 DEF MemoryRequests
  <2>3. ~degraded
    BY <1>2, <1>6 DEF Store!MayCommit, Store!Rejected
  <2>4. mutation' = [req |-> r, step |-> "first", plan |-> planned]
    BY <1>2, <1>6, <2>1
  <2>5. /\ planned.path = r.path /\ planned.body = r.body /\ planned.index = Store!NextIndex(r)
    OBVIOUS
  <2>6. /\ Store!NextIndex(r) \in Seq(Store!IndexLines)
        /\ Names(Store!NextIndex(r), r.path, r.body)
        /\ \A p \in Paths \ (broken \union {r.path}) : Names(Store!NextIndex(r), p, topics[p])
    BY <1>2, <2>2, <2>3, PlannedIndex
  <2>7. planned \in Store!Plans
    <3>1. r.id \in MemoryIds /\ r.path \in Paths /\ r.body \in Bodies \union {None}
      BY <2>2 DEF Store!Mutations
    <3>2. topics[r.path] \in Bodies \union {None}
      BY <1>5, <3>1 DEF IndexTypes, TopicBodies
    <3> QED BY <2>6, <3>1, <3>2 DEF Store!Plans
  <2> HIDE DEF planned
  <2>8. mutation' \in Store!MutationJobs
    BY <2>2, <2>4, <2>7 DEF Store!MutationJobs
  <2>9. ~Clearing' /\ mutation'.step = "first" /\ mutation'.plan = planned
    BY <1>3, <2>1, <2>4 DEF Clearing
  <2>10. IndexTypes'
    BY <1>2, <1>5, <2>8 DEF IndexTypes
  <2>11. IndexAgrees'
    BY <1>2, <1>4, <1>5, <2>3 DEF IndexAgrees, Agrees, Pending
  <2>12. IntentRepairs'
    BY <1>2, <1>4, <1>5 DEF IntentRepairs, Repairs
  <2>13. /\ mutation'.plan.path = r.path /\ mutation'.plan.body = r.body
         /\ mutation'.plan.index = Store!NextIndex(r)
    BY <2>5, <2>9
  <2>14. JobRepairs'
    <3>1. Names(mutation'.plan.index, mutation'.plan.path, mutation'.plan.body)
      BY <2>6, <2>13
    <3>2. \A p \in Paths \ (broken' \union {mutation'.plan.path}) : Names(mutation'.plan.index, p, topics'[p])
      BY <1>2, <2>6, <2>13
    <3>3. Repairs(mutation.plan)'
      BY <3>1, <3>2 DEF Repairs
    <3> QED BY <1>2, <2>3, <2>9, <3>3 DEF JobRepairs
  <2> QED BY <2>9, <2>10, <2>11, <2>12, <2>14 DEF IndexIInv, ClearLeavesNothing
<1>7. CASE ~Store!IsMutation(r) /\ r.kind # "clear"
  <2>1. ~Mutating' /\ ~Clearing'
    BY <1>3, <1>7 DEF Mutating, Clearing, Store!Mutate, Store!IsMutation
  <2> QED BY <1>2, <1>4, <2>1, OtherJobKeepsIndex
<1>8. CASE r.kind = "clear"
  <2>1. ~Mutating' /\ mutation'.step = "files"
    BY <1>3, <1>8 DEF Mutating, Store!Mutate
  <2>2. IndexTypes'
    BY <1>2, <1>5, <2>1 DEF IndexTypes
  <2>3. IntentRepairs'
    BY <1>2, <1>4, <1>5 DEF IntentRepairs, Repairs
  <2>4. IndexAgrees'
    BY <1>2, <1>4, <1>5, <2>1 DEF IndexAgrees, Agrees, Pending
  <2> QED BY <2>1, <2>2, <2>3, <2>4 DEF IndexIInv, JobRepairs, ClearLeavesNothing
<1> QED BY <1>6, <1>7, <1>8

\* A mutation at work goes on to its next step.
LEMMA JobGoesOn ==
  ASSUME StoreIInv, IndexIInv, NEW s, NEW t \in {"topic", "index", "journal", "done"},
         Store!At(Store!Mutate, s), Store!Go(t)
  PROVE  /\ Mutating /\ mutation.step = s /\ mutation \in Store!MutationJobs
         /\ mutation.plan \in Store!Plans /\ mutation.plan # None
         /\ Mutating' /\ mutation'.step = t /\ mutation'.plan = mutation.plan
         /\ mutation' \in Store!MutationJobs /\ ~Clearing /\ ~Clearing'
<1>1. /\ mutation'.req = mutation.req /\ mutation'.step = t /\ mutation'.plan = mutation.plan
      /\ mutation' = [req |-> mutation.req, step |-> t, plan |-> mutation.plan]
      /\ mutation # None /\ mutation.req.kind \in Store!Mutate /\ mutation.step = s
  BY StepTaken
<1>2. Mutating
  BY <1>1 DEF Mutating
<1>3. mutation \in Store!MutationJobs
  BY <1>2 DEF IndexIInv, IndexTypes
<1>4. mutation' \in Store!MutationJobs /\ mutation.plan \in Store!Plans
  BY <1>1, <1>3 DEF Store!MutationJobs
<1>5. mutation' # None /\ mutation.plan # None
  BY <1>4, ContextPartsAssumption DEF Store!MemoryAssumption
<1> QED BY <1>1, <1>2, <1>3, <1>4, <1>5 DEF Mutating, Clearing, Store!Mutate

LEMMA WriteKeepsIndex ==
  ASSUME StoreIInv, RequestKinds, IndexIInv, Store!Write PROVE IndexIInv'
<1>0. IndexTypes /\ IndexAgrees /\ IntentRepairs /\ JobRepairs
  BY DEF IndexIInv
<1>1. CASE Store!WriteIntent
  <2>1. /\ intent' = mutation.plan /\ UNCHANGED <<topics, index, ready, degraded, broken>>
        /\ Store!At(Store!Mutate, "first") /\ Store!Go("topic")
    BY <1>1 DEF Store!WriteIntent
  <2>2. /\ Mutating /\ mutation.step = "first" /\ mutation.plan \in Store!Plans
        /\ Mutating' /\ mutation'.step = "topic" /\ mutation'.plan = mutation.plan
        /\ mutation' \in Store!MutationJobs /\ ~Clearing /\ ~Clearing'
    BY <2>1, JobGoesOn
  <2>3. ready /\ ~degraded /\ Repairs(mutation.plan)
    BY <1>0, <2>2 DEF JobRepairs
  <2>4. IndexTypes'
    BY <1>0, <2>1, <2>2 DEF IndexTypes
  <2>5. IndexAgrees'
    BY <1>0, <2>1, <2>2, <2>3 DEF IndexAgrees, Agrees, Pending
  <2>6. Repairs(mutation.plan)' /\ Repairs(intent)'
    BY <2>1, <2>2, <2>3 DEF Repairs
  <2> QED BY <2>1, <2>2, <2>3, <2>4, <2>5, <2>6
          DEF IndexIInv, IntentRepairs, JobRepairs, ClearLeavesNothing
<1>2. CASE Store!WriteTopic
  <2>1. /\ topics' = [topics EXCEPT ![mutation.plan.path] = mutation.plan.body]
        /\ UNCHANGED <<index, intent, ready, degraded, broken>>
        /\ Store!At(Store!Mutate, "topic") /\ Store!Go("index")
    BY <1>2 DEF Store!WriteTopic
  <2>2. /\ Mutating /\ mutation.step = "topic" /\ mutation.plan \in Store!Plans /\ mutation.plan # None
        /\ Mutating' /\ mutation'.step = "index" /\ mutation'.plan = mutation.plan
        /\ mutation' \in Store!MutationJobs /\ ~Clearing /\ ~Clearing'
    BY <2>1, JobGoesOn
  <2>3. ready /\ ~degraded /\ Repairs(mutation.plan) /\ intent = mutation.plan
    BY <1>0, <2>2 DEF JobRepairs
  <2> DEFINE q == intent.path
  <2>4. q \in Paths /\ intent.body \in TopicBodies
    BY <2>2, <2>3 DEF Store!Plans, TopicBodies
  <2>5. topics' \in [Paths -> TopicBodies] /\ \A p \in Paths \ {q} : topics'[p] = topics[p]
    BY <1>0, <2>1, <2>3, <2>4 DEF IndexTypes
  <2>6. IndexTypes'
    BY <1>0, <2>1, <2>2, <2>5 DEF IndexTypes
  <2>7. Pending(q)'
    BY <2>1, <2>2, <2>3 DEF Pending
  <2>8. ASSUME NEW p \in Paths \ (broken \union {q}) PROVE Agrees(p)'
    <3>1. Agrees(p)
      BY <1>0, <2>2, <2>3 DEF IndexAgrees, Pending
    <3> QED BY <2>1, <2>5, <3>1 DEF Agrees
  <2>9. IndexAgrees'
    BY <2>1, <2>7, <2>8 DEF IndexAgrees
  <2>10. Repairs(intent)'
    <3>1. Names(intent.index, q, intent.body)
      BY <2>3 DEF Repairs
    <3>2. \A p \in Paths \ (broken \union {q}) : Names(intent.index, p, topics'[p])
      BY <2>2, <2>3, <2>5 DEF Repairs
    <3> QED BY <2>1, <3>1, <3>2 DEF Repairs
  <2>11. JobRepairs' /\ IntentRepairs'
    BY <2>1, <2>2, <2>3, <2>10 DEF JobRepairs, IntentRepairs, Repairs
  <2> QED BY <2>2, <2>6, <2>9, <2>11 DEF IndexIInv, ClearLeavesNothing
<1>3. CASE Store!WriteIndex
  <2>1. /\ index' = mutation.plan.index /\ broken' = broken \ {mutation.plan.path}
        /\ UNCHANGED <<topics, intent, ready, degraded>>
        /\ Store!At(Store!Mutate, "index") /\ Store!Go("journal")
    BY <1>3 DEF Store!WriteIndex
  <2>2. /\ Mutating /\ mutation.step = "index" /\ mutation.plan \in Store!Plans
        /\ Mutating' /\ mutation'.step = "journal" /\ mutation'.plan = mutation.plan
        /\ mutation' \in Store!MutationJobs /\ ~Clearing /\ ~Clearing'
    BY <2>1, JobGoesOn
  <2>3. ready /\ ~degraded /\ Repairs(mutation.plan) /\ intent = mutation.plan
    BY <1>0, <2>2 DEF JobRepairs
  <2> DEFINE q == intent.path
             lines == intent.index
  <2>4. q \in Paths /\ lines \in Seq(Store!IndexLines)
    BY <2>2, <2>3 DEF Store!Plans
  <2>5. topics[q] = intent.body
    BY <2>2, <2>3, <2>4 DEF StoreIInv, IntentIsPlan
  <2>6. /\ Names(lines, q, intent.body)
        /\ \A p \in Paths \ (broken \union {q}) : Names(lines, p, topics[p])
    BY <2>2, <2>3 DEF Repairs
  <2>7. IndexTypes'
    BY <1>0, <2>1, <2>2, <2>3, <2>4 DEF IndexTypes
  <2>8. \A p \in Paths \ broken' : Names(lines, p, topics[p])
    BY <2>1, <2>3, <2>5, <2>6
  <2>9. IndexAgrees'
    <3>1. index' = lines
      BY <2>1, <2>3
    <3> HIDE DEF lines
    <3> QED BY <2>1, <2>8, <3>1 DEF IndexAgrees, Agrees
  <2>10. Repairs(intent)'
    <3>1. broken' \union {q} = broken \union {q}
      BY <2>1, <2>3
    <3>2. \A p \in Paths \ (broken' \union {q}) : Names(lines, p, topics[p])
      BY <2>6, <3>1
    <3> QED BY <2>1, <2>6, <3>2 DEF Repairs
  <2>11. JobRepairs' /\ IntentRepairs'
    BY <2>1, <2>2, <2>3, <2>10 DEF JobRepairs, IntentRepairs, Repairs
  <2> QED BY <2>2, <2>7, <2>9, <2>11 DEF IndexIInv, ClearLeavesNothing
<1>4. CASE Store!AppendOperation
  <2>1. /\ UNCHANGED <<topics, index, intent, ready, degraded, broken>>
        /\ Store!At(Store!Mutate, "journal") /\ Store!Go("done")
    BY <1>4 DEF Store!AppendOperation
  <2>2. /\ Mutating /\ mutation.step = "journal"
        /\ Mutating' /\ mutation'.step = "done" /\ mutation'.plan = mutation.plan
        /\ mutation' \in Store!MutationJobs /\ ~Clearing /\ ~Clearing'
    BY <2>1, JobGoesOn
  <2>3. ready /\ ~degraded /\ Repairs(mutation.plan) /\ intent = mutation.plan
    BY <1>0, <2>2 DEF JobRepairs
  <2>4. IndexTypes'
    BY <1>0, <2>1, <2>2 DEF IndexTypes
  <2>5. IndexAgrees'
    BY <1>0, <2>1, <2>2, <2>3 DEF IndexAgrees, Agrees, Pending
  <2>6. Repairs(intent)'
    BY <2>1, <2>2, <2>3 DEF Repairs
  <2>7. JobRepairs' /\ IntentRepairs'
    BY <2>1, <2>2, <2>3, <2>6 DEF JobRepairs, IntentRepairs, Repairs
  <2> QED BY <2>2, <2>4, <2>5, <2>7 DEF IndexIInv, ClearLeavesNothing
<1>5. CASE Store!RemoveIntent
  <2>1. /\ mutation' = None /\ intent' = None /\ UNCHANGED <<topics, index, ready, degraded, broken>>
        /\ Mutating /\ mutation.step = "done" /\ ~Clearing
    BY <1>5 DEF Store!RemoveIntent, Store!At, Mutating, Clearing, Store!Mutate
  <2>2. ready /\ ~degraded
    BY <1>0, <2>1 DEF JobRepairs
  <2>3. ~Mutating' /\ ~Clearing'
    BY <2>1 DEF Mutating, Clearing
  <2>4. IndexTypes'
    BY <1>0, <2>1, <2>3 DEF IndexTypes
  <2>5. IndexAgrees'
    BY <1>0, <2>1, <2>2 DEF IndexAgrees, Agrees, Pending
  <2> QED BY <2>1, <2>3, <2>4, <2>5 DEF IndexIInv, IntentRepairs, JobRepairs, ClearLeavesNothing
<1> QED BY <1>1, <1>2, <1>3, <1>4, <1>5 DEF Store!Write

LEMMA UpdateSettingsKeepsIndex ==
  ASSUME StoreIInv, IndexIInv, Store!UpdateSettings PROVE IndexIInv'
<1>1. CASE Store!At({"settings"}, "first") /\ Store!Go("journal")
           /\ UNCHANGED <<topics, index, intent, ready, degraded, broken>>
  <2>1. mutation'.req = mutation.req /\ mutation.req.kind = "settings" /\ mutation # None
    BY <1>1, StepTaken
  <2>2. ~Mutating /\ ~Clearing /\ ~Mutating' /\ ~Clearing'
    BY <2>1 DEF Mutating, Clearing, Store!Mutate
  <2> QED BY <1>1, <2>2, OtherJobKeepsIndex
<1>2. CASE Store!At({"settings"}, "journal") /\ mutation' = None
           /\ UNCHANGED <<topics, index, intent, ready, degraded, broken>>
  <2>1. ~Mutating /\ ~Clearing /\ ~Mutating' /\ ~Clearing'
    BY <1>2 DEF Store!At, Mutating, Clearing, Store!Mutate
  <2> QED BY <1>2, <2>1, OtherJobKeepsIndex
<1> QED BY <1>1, <1>2 DEF Store!UpdateSettings, Store!disk

LEMMA RebuildKeepsIndex ==
  ASSUME StoreIInv, IndexIInv, Store!RebuildIndex PROVE IndexIInv'
<1>1. /\ mutation' = None /\ UNCHANGED <<topics, intent, ready, degraded>>
      /\ Store!At({"rebuild"}, "first")
  BY DEF Store!RebuildIndex
<1>2. PICK order \in Store!Orders({p \in Paths : topics[p] # None}) :
        IF Store!ValidIndex(Store!RebuiltIndex(order))
        THEN index' = Store!RebuiltIndex(order) /\ broken' = IF intent = None THEN {} ELSE broken
        ELSE UNCHANGED <<index, broken>>
  BY DEF Store!RebuildIndex
<1>3. ~Mutating /\ ~Clearing /\ ~Mutating' /\ ~Clearing'
  BY <1>1 DEF Store!At, Mutating, Clearing, Store!Mutate
<1>4. CASE UNCHANGED <<index, broken>>
  BY <1>1, <1>3, <1>4, OtherJobKeepsIndex
<1>5. CASE index' = Store!RebuiltIndex(order) /\ broken' = IF intent = None THEN {} ELSE broken
  <2>1. topics \in [Paths -> TopicBodies]
    BY DEF IndexIInv, IndexTypes
  <2>2. index' \in Seq(Store!IndexLines) /\ \A p \in Paths : Names(index', p, topics[p])
    BY <1>5, <2>1, RebuildNames
  <2>3. IndexTypes'
    BY <1>1, <1>3, <2>2 DEF IndexIInv, IndexTypes
  <2>4. IndexAgrees'
    BY <1>1, <2>2 DEF IndexAgrees, Agrees
  <2>5. IntentRepairs'
    BY <1>1, <1>3, <1>5 DEF IndexIInv, IntentRepairs, Repairs
  <2> QED BY <1>3, <2>3, <2>4, <2>5 DEF IndexIInv, JobRepairs, ClearLeavesNothing
<1> QED BY <1>2, <1>4, <1>5

\* A clear at work goes on to its next step.
LEMMA ClearingGoesOn ==
  ASSUME StoreIInv, RequestKinds, NEW s, NEW t \in {"intent", "settings"},
         Store!At({"clear"}, s), Store!Go(t)
  PROVE  Clearing /\ Clearing' /\ ~Mutating'
<1>1. /\ mutation' = [req |-> mutation.req, step |-> t, plan |-> mutation.plan]
      /\ mutation'.req = mutation.req /\ mutation.req.kind = "clear" /\ mutation # None
  BY StepTaken
<1>2. mutation \in Store!Clears
  BY <1>1 DEF RequestKinds, Clearing
<1>3. mutation' \in Store!Clears
  BY <1>1, <1>2 DEF Store!Clears
<1>4. mutation' # None
  BY <1>3, ContextPartsAssumption DEF Store!MemoryAssumption
<1> QED BY <1>1, <1>4 DEF Clearing, Mutating, Store!Mutate

LEMMA ClearKeepsIndex ==
  ASSUME StoreIInv, RequestKinds, IndexIInv, Store!Clear PROVE IndexIInv'
<1>0. IndexTypes /\ IntentRepairs /\ ClearLeavesNothing
  BY DEF IndexIInv
<1>1. CASE Store!ClearFile
  <2>1. /\ mutation # None /\ mutation.req.kind = "clear" /\ mutation.step = "files"
        /\ UNCHANGED <<mutation, intent>>
    BY <1>1 DEF Store!ClearFile, Store!At
  <2>2. Clearing /\ Clearing' /\ ~Mutating'
    BY <2>1 DEF Mutating, Clearing, Store!Mutate
  <2>3. topics' \in [Paths -> TopicBodies] /\ index' \in Seq(Store!IndexLines)
    <3>1. CASE topics' = topics /\ index' = <<>>
      <4>1. <<>> \in Seq(Store!IndexLines)
        OBVIOUS
      <4> QED BY <1>0, <3>1, <4>1 DEF IndexTypes
    <3>2. CASE index' = index /\ \E p \in Paths : topics' = [topics EXCEPT ![p] = None]
      BY <1>0, <3>2 DEF IndexTypes, TopicBodies
    <3> QED BY <1>1, <3>1, <3>2 DEF Store!ClearFile
  <2>4. IndexTypes'
    BY <1>0, <2>1, <2>2, <2>3 DEF IndexTypes
  <2>5. IntentRepairs'
    BY <1>0, <2>1, <2>2 DEF IntentRepairs, Repairs
  <2> QED BY <2>1, <2>2, <2>4, <2>5 DEF IndexIInv, IndexAgrees, JobRepairs, ClearLeavesNothing
<1>2. CASE /\ Store!At({"clear"}, "files") /\ index = <<>> /\ \A p \in Paths : topics[p] = None
           /\ Store!Go("intent") /\ UNCHANGED <<topics, index, intent, broken>>
  <2>1. mutation'.step = "intent" /\ mutation \in Store!Clears
    <3>1. mutation'.step = "intent" /\ Clearing
      BY <1>2, StepTaken DEF Clearing
    <3> QED BY <3>1 DEF RequestKinds
  <2>2. Clearing /\ Clearing' /\ ~Mutating'
    BY <1>2, ClearingGoesOn
  <2>3. IndexTypes'
    BY <1>0, <1>2, <2>2 DEF IndexTypes
  <2>4. IntentRepairs'
    BY <1>0, <1>2, <2>2 DEF IntentRepairs, Repairs
  <2>5. ClearLeavesNothing'
    BY <1>2 DEF ClearLeavesNothing
  <2> QED BY <2>2, <2>3, <2>4, <2>5 DEF IndexIInv, IndexAgrees, JobRepairs
<1>3. CASE /\ Store!At({"clear"}, "intent") /\ Store!Go("settings") /\ intent' = None
           /\ UNCHANGED <<topics, index, broken>>
  <2>1. Clearing /\ Clearing' /\ ~Mutating'
    BY <1>3, ClearingGoesOn
  <2>2. mutation.step = "intent"
    BY <1>3 DEF Store!At
  <2>3. IndexTypes'
    BY <1>0, <1>3, <2>1 DEF IndexTypes
  <2>4. IntentRepairs'
    BY <1>3 DEF IntentRepairs
  <2>5. ClearLeavesNothing'
    BY <1>0, <1>3, <2>1, <2>2 DEF ClearLeavesNothing
  <2> QED BY <2>1, <2>3, <2>4, <2>5 DEF IndexIInv, IndexAgrees, JobRepairs
<1>4. CASE /\ Store!At({"clear"}, "settings") /\ mutation' = None
           /\ UNCHANGED <<topics, index, intent>>
  <2>1. Clearing /\ mutation.step = "settings"
    BY <1>4 DEF Store!At, Clearing
  <2>2. intent = None /\ index = <<>> /\ \A p \in Paths : topics[p] = None
    BY <1>0, <2>1 DEF ClearLeavesNothing, StoreIInv, IntentIsPlan
  <2>3. ~Mutating' /\ ~Clearing'
    BY <1>4 DEF Mutating, Clearing
  <2>4. \A p \in Paths : Agrees(p)
    BY <2>2, EmptyNames DEF Agrees
  <2>5. IndexTypes'
    BY <1>0, <1>4, <2>3 DEF IndexTypes
  <2>6. IndexAgrees'
    BY <1>4, <2>4 DEF IndexAgrees, Agrees
  <2> QED BY <1>4, <2>2, <2>3, <2>5, <2>6 DEF IndexIInv, IntentRepairs, JobRepairs, ClearLeavesNothing
<1> QED BY <1>1, <1>2, <1>3, <1>4 DEF Store!Clear, Store!ClearState

\* A step that fails leaves behind the topic it had written; a clear cut short, all of them.
LEMMA CutShortKeepsIndex ==
  ASSUME StoreIInv, IndexIInv, Store!StepFails \/ Store!Restart PROVE IndexIInv'
<1>0. IndexTypes /\ IndexAgrees /\ IntentRepairs /\ JobRepairs
  BY DEF IndexIInv
<1>1. mutation' = None /\ UNCHANGED <<topics, index, intent>>
  BY DEF Store!StepFails, Store!Restart, Store!disk
<1>2. ~Mutating' /\ ~Clearing'
  BY <1>1 DEF Mutating, Clearing
<1>3. IndexTypes'
  BY <1>0, <1>1, <1>2 DEF IndexTypes
<1>4. broken \subseteq broken' \/ Paths \subseteq broken'
  BY DEF Store!StepFails, Store!Restart
<1>5. Clearing => Paths \subseteq broken'
  BY DEF Store!StepFails, Store!Restart, Store!CutShort, Clearing
<1>6. IntentRepairs'
  BY <1>0, <1>1, <1>4, <1>5 DEF IntentRepairs, Repairs
<1>7. IndexAgrees'
  <2> SUFFICES ASSUME NEW p \in Paths \ broken' PROVE (Agrees(p) \/ Pending(p))'
    BY DEF IndexAgrees
  <2>1. ~Clearing /\ p \notin broken
    BY <1>4, <1>5
  <2>2. Agrees(p) \/ Pending(p)
    BY <1>0, <2>1 DEF IndexAgrees
  <2>3. CASE Agrees(p)
    BY <1>1, <2>3 DEF Agrees
  <2>4. CASE Pending(p) /\ Store!Restart
    BY <1>1, <2>4 DEF Store!Restart, Pending
  <2>5. CASE Pending(p) /\ Store!StepFails
    <3>1. UNCHANGED <<ready, degraded>> /\ broken' = broken \union Store!CutShort
      BY <2>5 DEF Store!StepFails
    <3>2. ~(Mutating /\ mutation.step = "index")
      <4> SUFFICES ASSUME Mutating, mutation.step = "index" PROVE FALSE
        OBVIOUS
      <4>1. intent = mutation.plan /\ intent.path = p
        BY <1>0, <2>5 DEF JobRepairs, Pending
      <4>2. Store!CutShort = {mutation.plan.path}
        BY DEF Store!CutShort, Mutating, Store!Mutate
      <4> QED BY <3>1, <4>1, <4>2
    <3> QED BY <1>1, <2>5, <3>1, <3>2 DEF Pending
  <2> QED BY <2>2, <2>3, <2>4, <2>5
<1> QED BY <1>2, <1>3, <1>6, <1>7 DEF IndexIInv, JobRepairs, ClearLeavesNothing

LEMMA IndexSteps ==
  StoreIInv /\ RequestKinds /\ IndexIInv /\ [Store!Next]_(Store!vars) => IndexIInv'
<1> SUFFICES ASSUME StoreIInv, RequestKinds, IndexIInv, [Store!Next]_(Store!vars) PROVE IndexIInv'
  OBVIOUS
<1>1. CASE UNCHANGED Store!vars
  BY <1>1, MemoryLeftAlone DEF Store!vars, Store!disk, Store!process
<1>2. CASE Store!MemoryTool \/ Store!DeleteFile \/ Store!Administer
  <2>1. UNCHANGED <<topics, index, intent, mutation, ready, degraded, broken>>
    BY <1>2 DEF Store!MemoryTool, Store!CallTool, Store!DeleteFile, Store!Administer, Store!Submit, Store!disk
  <2> QED BY <2>1, MemoryLeftAlone
<1>3. CASE Store!Answer
  <2>1. UNCHANGED <<topics, index, intent, mutation, ready, degraded, broken>>
    BY <1>3 DEF Store!Answer, Store!Take
  <2> QED BY <2>1, MemoryLeftAlone
<1>4. CASE Store!Ensure
  BY <1>4, EnsureKeepsIndex
<1>5. CASE Store!Begin \/ Store!Write
  BY <1>5, BeginKeepsIndex, WriteKeepsIndex
<1>6. CASE Store!UpdateSettings \/ Store!RebuildIndex \/ Store!Clear
  BY <1>6, UpdateSettingsKeepsIndex, RebuildKeepsIndex, ClearKeepsIndex
<1>7. CASE Store!StepFails \/ Store!Restart
  BY <1>7, CutShortKeepsIndex
<1> QED BY <1>1, <1>2, <1>3, <1>4, <1>5, <1>6, <1>7 DEF Store!Next

\* At rest MEMORY.md names every topic with the body it has, and no other (store.ts:113-141,
\* 278-459): whatever step a mutation stopped at, the intent names the index that follows.
\* A topic with a line that the matcher of format.ts passes over is not judged.
LEMMA IndexFollows == Store!Spec => []Store!IndexFollowsTopics
<1>1. Store!Spec => [](StoreIInv /\ RequestKinds /\ IndexIInv)
  BY StoreInitially, StoreSteps, IndexInitially, IndexSteps, PTL DEF Store!Spec
<1>2. IndexIInv => Store!IndexFollowsTopics
  <2> SUFFICES ASSUME IndexIInv, ready, ~degraded, mutation = None, NEW p \in Paths \ broken,
                      \A i \in DOMAIN index : index[i].path = p => index[i].plain
               PROVE  Store!Listed(p) = {topics[p]} \ {None}
    BY DEF Store!IndexFollowsTopics
  <2>1. Agrees(p)
    BY DEF IndexIInv, IndexAgrees, Pending, Mutating, Clearing
  <2>2. ~Marred(index, p)
    BY DEF Marred
  <2> QED BY <2>1, <2>2 DEF Agrees, Names, ListedIn, Store!Listed
<1> QED BY <1>1, <1>2, PTL

-------------------------------------------------------------------------------
(* The messages of a model request.  Every projection is one of three things: *)
(* some tool results give way to placeholders, a run of messages that ends     *)
(* before a user message gives way to one standing message, or the messages    *)
(* from a user message on are taken.  Each of them leaves the request the Run  *)
(* works on last, each message present or kept, and each result behind its     *)
(* call with every call that was answered still answered.                      *)

MessageViews == {"full", "preview", "compact", "archive", "summary"}
ContextMessages ==
  [id : Nat, role : {"user", "assistant", "tool", "system"}, size : Int, calls : SUBSET (Nat \X Nat),
   of : (Nat \X Nat) \union {<<>>}, view : MessageViews, stands : SUBSET Nat]

\* The conversation ends with the user message a, as it is.
Serves(ms, a) ==
  \E i \in 1..Len(ms) :
    /\ ms[i].role = "user" /\ ms[i].id = a /\ ms[i].view = "full"
    /\ \A j \in (i + 1)..Len(ms) : ms[j].role # "user"

\* Each of the messages ids is there, kept, or summarised.
Covers(ms, ids, kept) ==
  \A d \in ids : \E i \in 1..Len(ms) :
    /\ d \in ms[i].stands
    /\ ms[i].view \in {"full", "summary"} \/ d \in kept

\* A result stands behind its call, with no user message between them.
Grouped(ms) ==
  \A i \in 1..Len(ms) : ms[i].role = "tool" =>
    \E j \in 1..(i - 1) : ms[i].of \in ms[j].calls /\ \A u \in (j + 1)..i : ms[u].role # "user"

\* No call is made twice.
Distinct(ms) == \A i, j \in 1..Len(ms) : i # j => ms[i].calls \cap ms[j].calls = {}

\* The calls among R have their results.
Answers(ms, R) == \A i \in 1..Len(ms) : ms[i].calls \cap R \subseteq Context!CallsOf(ms)

Together(ms, R) == Grouped(ms) /\ Distinct(ms) /\ Answers(ms, R)

SoundFor(ms, a, ids, kept, R) ==
  ms \in Seq(ContextMessages) /\ Serves(ms, a) /\ Covers(ms, ids, kept) /\ Together(ms, R)

\* A projection may be cut at b: a user message stands there, or nothing does.
Boundary(ms, b) == b \in 1..(Len(ms) + 1) /\ (b = 1 \/ b = Len(ms) + 1 \/ ms[b].role = "user")

LEMMA MinExists ==
  ASSUME NEW S \in SUBSET Int, S # {}, IsFiniteSet(S)
  PROVE  Context!Min(S) \in S /\ \A y \in S : Context!Min(S) <= y
<1>1. \E x \in S : \A y \in S : x <= y
  BY IntegersHaveMin
<1> QED BY <1>1 DEF Context!Min

LEMMA MaxExists ==
  ASSUME NEW S \in SUBSET Int, S # {}, IsFiniteSet(S)
  PROVE  Context!Max(S) \in S /\ \A y \in S : Context!Max(S) >= y
<1> DEFINE T == {-x : x \in S}
<1>1. T \in SUBSET Int /\ T # {}
  <2>1. PICK x \in S : TRUE
    OBVIOUS
  <2>2. -x \in T
    OBVIOUS
  <2>3. \A t \in T : t \in Int
    OBVIOUS
  <2> HIDE DEF T
  <2> QED BY <2>2, <2>3
<1>2. IsFiniteSet(T)
  <2> DEFINE g == [x \in S |-> -x]
  <2>1. g \in [S -> T]
    OBVIOUS
  <2>2. g \in Surjection(S, T)
    BY <2>1 DEF Surjection
  <2> HIDE DEF T, g
  <2> QED BY <2>2, FS_Surjection
<1> HIDE DEF T
<1>3. PICK m \in T : \A y \in T : m <= y
  BY <1>1, <1>2, IntegersHaveMin
<1>4. -m \in S /\ \A y \in S : -m >= y
  <2>1. PICK x \in S : m = -x
    BY DEF T
  <2>2. -m = x
    BY <2>1
  <2>3. ASSUME NEW y \in S PROVE -m >= y
    <3>1. -y \in T
      BY DEF T
    <3>2. m <= -y
      BY <1>3, <3>1
    <3> QED BY <2>1, <3>2
  <2> QED BY <2>1, <2>2, <2>3
<1> QED BY <1>4 DEF Context!Max

\* Places in a sequence, as a set of numbers
LEMMA PlacesAreFinite ==
  ASSUME NEW n \in Nat, NEW S \in SUBSET (1..n) PROVE S \in SUBSET Int /\ IsFiniteSet(S)
<1> DEFINE I == 1..n
<1>1. IsFiniteSet(I) /\ S \in SUBSET I /\ I \in SUBSET Int
  BY FS_Interval
<1> HIDE DEF I
<1>2. IsFiniteSet(S)
  BY <1>1, FS_Subset
<1> QED BY <1>1, <1>2

LEMMA MessagesOf ==
  ASSUME NEW ms \in Seq(ContextMessages)
  PROVE  Len(ms) \in Nat /\ DOMAIN ms = 1..Len(ms) /\ \A i \in 1..Len(ms) : ms[i] \in ContextMessages
BY ElementOfSeq

\* The starts of the segments after the first are user messages.
LEMMA LaterStarts ==
  ASSUME NEW ms \in Seq(ContextMessages), NEW k \in Context!Starts(ms)
  PROVE  k \in 1..Len(ms) /\ Boundary(ms, k) /\ (k # 1 => ms[k].role = "user")
BY MessagesOf DEF Context!Starts, Boundary

LEMMA CallsOfThese ==
  ASSUME NEW ms, NEW c
  PROVE  c \in Context!CallsOf(ms) <=> \E j \in 1..Len(ms) : ms[j].role = "tool" /\ ms[j].of = c
BY DEF Context!CallsOf

\* A call and its result stand on the same side of a boundary.
LEMMA SidesOfBoundary ==
  ASSUME NEW ms \in Seq(ContextMessages), NEW b, Boundary(ms, b), Grouped(ms), Distinct(ms),
         NEW i \in 1..Len(ms), NEW j \in 1..Len(ms), ms[j].role = "tool", ms[j].of \in ms[i].calls
  PROVE  i < j /\ (i < b <=> j < b) /\ \A u \in (i + 1)..j : ms[u].role # "user"
<1>1. PICK p \in 1..(j - 1) : ms[j].of \in ms[p].calls /\ \A u \in (p + 1)..j : ms[u].role # "user"
  BY DEF Grouped
<1>2. Len(ms) \in Nat
  BY MessagesOf
<1>3. p = i
  BY <1>1, <1>2 DEF Distinct
<1>4. i < j /\ \A u \in (i + 1)..j : ms[u].role # "user"
  BY <1>1, <1>3
<1>5. ~(i < b /\ b <= j)
  BY <1>2, <1>4 DEF Boundary
<1> QED BY <1>2, <1>4, <1>5 DEF Boundary

LEMMA FromElements ==
  ASSUME NEW ms \in Seq(ContextMessages), NEW b \in 1..(Len(ms) + 1)
  PROVE  /\ Context!From(ms, b) \in Seq(ContextMessages)
         /\ Len(Context!From(ms, b)) = Len(ms) - b + 1
         /\ \A i \in 1..(Len(ms) - b + 1) : Context!From(ms, b)[i] = ms[b + i - 1]
<1>1. Len(ms) \in Nat
  BY MessagesOf
<1>2. \A i \in b..Len(ms) : ms[i] \in ContextMessages
  BY MessagesOf
<1>3. Len(Context!From(ms, b)) = Len(ms) - b + 1
  BY <1>1 DEF Context!From
<1>4. \A i \in 1..(Len(ms) - b + 1) : Context!From(ms, b)[i] = ms[b + i - 1]
  BY <1>1 DEF Context!From
<1>5. Context!From(ms, b) \in Seq(ContextMessages)
  BY <1>1, <1>2 DEF Context!From
<1> QED BY <1>3, <1>4, <1>5

\* The messages from a boundary on keep their calls and results together.
LEMMA FromKeepsTogether ==
  ASSUME NEW ms \in Seq(ContextMessages), NEW b, Boundary(ms, b), NEW R, Together(ms, R)
  PROVE  Together(Context!From(ms, b), R)
<1> DEFINE out == Context!From(ms, b)
           n == Len(ms)
           m == Len(out)
<1>1. b \in 1..(n + 1) /\ n \in Nat
  BY MessagesOf DEF Boundary
<1>2. /\ m = n - b + 1 /\ \A i \in 1..m : out[i] = ms[b + i - 1] /\ b + i - 1 \in b..n
  <2>1. m = n - b + 1 /\ \A i \in 1..(n - b + 1) : out[i] = ms[b + i - 1]
    BY <1>1, FromElements
  <2> HIDE DEF out, m, n
  <2>2. \A i \in 1..m : b + i - 1 \in b..n
    BY <1>1, <2>1
  <2> QED BY <2>1, <2>2
<1>3. Grouped(ms) /\ Distinct(ms) /\ Answers(ms, R)
  BY DEF Together
<1> HIDE DEF out, m, n
<1>4. ASSUME NEW i \in 1..m, out[i].role = "tool"
      PROVE  \E j \in 1..(i - 1) : out[i].of \in out[j].calls /\ \A u \in (j + 1)..i : out[u].role # "user"
  <2> DEFINE k == b + i - 1
  <2>1. k \in b..n /\ k \in 1..n /\ out[i] = ms[k] /\ ms[k].role = "tool"
    BY <1>1, <1>2, <1>4
  <2>2. PICK p \in 1..(k - 1) : ms[k].of \in ms[p].calls
    BY <1>3, <2>1 DEF Grouped, n
  <2>3. p \in 1..n
    BY <1>1, <2>1, <2>2
  <2>4. p < k /\ (p < b <=> k < b) /\ \A u \in (p + 1)..k : ms[u].role # "user"
    BY <1>3, <2>1, <2>2, <2>3, SidesOfBoundary DEF n
  <2> DEFINE q == p - b + 1
  <2>5. q \in 1..(i - 1) /\ q \in 1..m /\ out[q] = ms[p]
    <3>1. p >= b /\ p < b + i - 1
      BY <1>1, <2>1, <2>3, <2>4
    <3>2. q \in 1..(i - 1) /\ b + q - 1 = p
      BY <1>1, <2>3, <3>1
    <3>3. q \in 1..m
      BY <1>1, <1>2, <3>2
    <3> HIDE DEF q
    <3> QED BY <1>2, <3>2, <3>3
  <2>6. ASSUME NEW u \in (q + 1)..i PROVE out[u].role # "user"
    BY <1>1, <1>2, <2>1, <2>3, <2>4, <2>5
  <2> QED BY <2>1, <2>2, <2>5, <2>6
<1>5. ASSUME NEW i \in 1..m, NEW j \in 1..m, i # j PROVE out[i].calls \cap out[j].calls = {}
  <2>1. b + i - 1 \in 1..n /\ b + j - 1 \in 1..n /\ b + i - 1 # b + j - 1
    BY <1>1, <1>2, <1>5
  <2> QED BY <1>2, <1>3, <2>1 DEF Distinct, n
<1>6. ASSUME NEW i \in 1..m, NEW c \in out[i].calls \cap R PROVE c \in Context!CallsOf(out)
  <2> DEFINE k == b + i - 1
  <2>1. k \in b..n /\ k \in 1..n /\ out[i] = ms[k]
    BY <1>1, <1>2
  <2>2. c \in Context!CallsOf(ms)
    BY <1>3, <1>6, <2>1 DEF Answers, n
  <2>3. PICK j \in 1..n : ms[j].role = "tool" /\ ms[j].of = c
    BY <2>2, CallsOfThese DEF n
  <2>4. k < b <=> j < b
    BY <1>3, <1>6, <2>1, <2>3, SidesOfBoundary DEF n
  <2>5. j - b + 1 \in 1..m /\ out[j - b + 1] = ms[j]
    BY <1>1, <1>2, <2>1, <2>4
  <2> HIDE DEF k
  <2> QED BY <2>3, <2>5, CallsOfThese DEF m
<1>7. Grouped(out)
  BY <1>4 DEF Grouped, m
<1>8. Distinct(out)
  BY <1>5 DEF Distinct, m
<1>9. Answers(out, R)
  BY <1>6 DEF Answers, m
<1> QED BY <1>7, <1>8, <1>9 DEF Together, out

\* The messages from f up to t, with s in their place
Replaced(ms, f, s, t) == SubSeq(ms, 1, f - 1) \o <<s>> \o Context!From(ms, t)

LEMMA ReplacedElements ==
  ASSUME NEW ms \in Seq(ContextMessages), NEW s \in ContextMessages,
         NEW f \in 1..(Len(ms) + 1), NEW t \in f..(Len(ms) + 1)
  PROVE  /\ Replaced(ms, f, s, t) \in Seq(ContextMessages)
         /\ Len(Replaced(ms, f, s, t)) = f + Len(ms) - t + 1
         /\ \A i \in 1..(f + Len(ms) - t + 1) :
              Replaced(ms, f, s, t)[i] = IF i < f THEN ms[i] ELSE IF i = f THEN s ELSE ms[i - f + t - 1]
<1> DEFINE n == Len(ms)
           first == SubSeq(ms, 1, f - 1)
           mid == <<s>>
           rest == Context!From(ms, t)
<1>1. n \in Nat /\ f \in 1..(n + 1) /\ t \in f..(n + 1) /\ t \in 1..(n + 1)
  BY MessagesOf
<1>2. rest \in Seq(ContextMessages) /\ Len(rest) = n - t + 1 /\ \A i \in 1..(n - t + 1) : rest[i] = ms[t + i - 1]
  BY <1>1, FromElements
<1>3. mid \in Seq(ContextMessages) /\ Len(mid) = 1 /\ mid[1] = s
  OBVIOUS
<1>4. first \in Seq(ContextMessages) /\ Len(first) = f - 1 /\ \A i \in 1..(f - 1) : first[i] = ms[i]
  <2>1. \A i \in 1..(f - 1) : ms[i] \in ContextMessages
    BY <1>1, MessagesOf
  <2>2. Len(first) = f - 1
    BY <1>1
  <2>3. \A i \in 1..(f - 1) : first[i] = ms[i]
    BY <1>1
  <2>4. first \in Seq(ContextMessages)
    BY <1>1, <2>1
  <2> QED BY <2>2, <2>3, <2>4
<1>5. Replaced(ms, f, s, t) = first \o mid \o rest
  BY DEF Replaced
<1> HIDE DEF first, mid, rest, n
<1> DEFINE head == first \o mid
           out == head \o rest
<1>6. head \in Seq(ContextMessages) /\ Len(head) = f
  <2>1. Len(head) = Len(first) + Len(mid)
    BY <1>3, <1>4, ConcatProperties
  <2> HIDE DEF head
  <2> QED BY <1>1, <1>3, <1>4, <2>1, ConcatProperties DEF head
<1>7. ASSUME NEW i \in 1..f PROVE head[i] = IF i < f THEN ms[i] ELSE s
  <2>1. i \in 1..(Len(first) + Len(mid))
    BY <1>1, <1>3, <1>4
  <2>2. head[i] = IF i <= Len(first) THEN first[i] ELSE mid[i - Len(first)]
    BY <1>3, <1>4, <2>1, ConcatProperties
  <2> HIDE DEF head
  <2>3. CASE i < f
    <3>1. i \in 1..(f - 1) /\ i <= Len(first)
      BY <1>1, <1>4, <2>3
    <3> QED BY <1>4, <2>2, <2>3, <3>1
  <2>4. CASE i = f
    <3>1. ~(i <= Len(first)) /\ i - Len(first) = 1 /\ ~(i < f)
      BY <1>1, <1>4, <2>4
    <3> QED BY <1>3, <2>2, <3>1
  <2> QED BY <1>1, <2>3, <2>4
<1> HIDE DEF head
<1>8. out \in Seq(ContextMessages) /\ Len(out) = f + n - t + 1
  <2>1. out \in Seq(ContextMessages) /\ Len(out) = Len(head) + Len(rest)
    BY <1>2, <1>6, ConcatProperties
  <2> HIDE DEF out
  <2> QED BY <1>1, <1>2, <1>6, <2>1
<1>9. ASSUME NEW i \in 1..(f + n - t + 1)
      PROVE  out[i] = IF i < f THEN ms[i] ELSE IF i = f THEN s ELSE ms[i - f + t - 1]
  <2>1. i \in 1..(Len(head) + Len(rest))
    BY <1>1, <1>2, <1>6
  <2>2. out[i] = IF i <= Len(head) THEN head[i] ELSE rest[i - Len(head)]
    BY <1>2, <1>6, <2>1, ConcatProperties
  <2> HIDE DEF out
  <2>3. CASE i <= f
    <3>1. i \in 1..f /\ out[i] = head[i]
      BY <1>1, <1>6, <2>2, <2>3
    <3>2. head[i] = IF i < f THEN ms[i] ELSE s
      BY <1>7, <3>1
    <3>3. i < f \/ i = f
      BY <1>1, <2>3
    <3> QED BY <3>1, <3>2, <3>3
  <2>4. CASE i > f
    <3>1. ~(i <= Len(head)) /\ i - Len(head) = i - f /\ ~(i < f) /\ i # f
      BY <1>1, <1>6, <2>4
    <3>2. i - f \in 1..(n - t + 1) /\ t + (i - f) - 1 = i - f + t - 1
      BY <1>1, <2>4
    <3>3. rest[i - f] = ms[i - f + t - 1]
      BY <1>2, <3>2
    <3> QED BY <2>2, <3>1, <3>3
  <2> QED BY <1>1, <2>3, <2>4
<1> QED BY <1>5, <1>8, <1>9 DEF head, n

\* A run of messages between two boundaries may give way to a message that
\* neither calls nor answers.
LEMMA ReplacedKeepsTogether ==
  ASSUME NEW ms \in Seq(ContextMessages), NEW s \in ContextMessages, s.calls = {}, s.role # "tool",
         NEW f, NEW t, Boundary(ms, f), Boundary(ms, t), f <= t, NEW R, Together(ms, R)
  PROVE  Together(Replaced(ms, f, s, t), R)
<1> DEFINE out == Replaced(ms, f, s, t)
           n == Len(ms)
           m == Len(out)
           Of(i) == IF i < f THEN i ELSE i - f + t - 1
<1>1. n \in Nat /\ f \in 1..(n + 1) /\ t \in 1..(n + 1) /\ f <= t
  BY MessagesOf DEF Boundary
<1>2. m = f + n - t + 1 /\ out[f] = s /\ \A i \in 1..m \ {f} : out[i] = ms[Of(i)]
  <2>1. f \in 1..(f + n - t + 1) /\ t \in f..(n + 1)
    BY <1>1
  <2>2. /\ m = f + n - t + 1
        /\ \A i \in 1..m : out[i] = IF i < f THEN ms[i] ELSE IF i = f THEN s ELSE ms[i - f + t - 1]
    BY <1>1, <2>1, ReplacedElements
  <2> HIDE DEF out, m, n
  <2>3. out[f] = s
    BY <1>1, <2>1, <2>2
  <2>4. ASSUME NEW i \in 1..m, i # f PROVE out[i] = ms[Of(i)]
    BY <1>1, <2>2, <2>4
  <2> QED BY <2>2, <2>3, <2>4
<1>3. Grouped(ms) /\ Distinct(ms) /\ Answers(ms, R)
  BY DEF Together
<1> HIDE DEF out, m, n
<1>4. ASSUME NEW i \in 1..m, i # f
      PROVE  /\ Of(i) \in 1..n /\ (i < f => Of(i) < f) /\ (i > f => Of(i) >= t)
             /\ out[i] = ms[Of(i)]
  BY <1>1, <1>2, <1>4
<1>5. ASSUME NEW k \in 1..n, k < f \/ k >= t
      PROVE  \E i \in 1..m \ {f} : Of(i) = k
  <2>1. CASE k < f
    BY <1>1, <1>2, <2>1
  <2>2. CASE k >= t
    <3>1. k - t + f + 1 \in 1..m /\ k - t + f + 1 > f
      BY <1>1, <1>2, <2>2
    <3>2. Of(k - t + f + 1) = k
      BY <1>1, <2>2, <3>1
    <3> QED BY <1>1, <3>1, <3>2
  <2> QED BY <1>5, <2>1, <2>2
<1>6. ASSUME NEW i \in 1..m, out[i].role = "tool"
      PROVE  \E j \in 1..(i - 1) : out[i].of \in out[j].calls /\ \A u \in (j + 1)..i : out[u].role # "user"
  <2> DEFINE k == Of(i)
  <2>1. i # f /\ k \in 1..n /\ out[i] = ms[k]
    BY <1>2, <1>4, <1>6
  <2>2. PICK p \in 1..(k - 1) : ms[k].of \in ms[p].calls
    BY <1>3, <1>6, <2>1 DEF Grouped, n
  <2>3. p \in 1..n
    BY <1>1, <2>1, <2>2
  <2> HIDE DEF k
  <2>4. p < k /\ (p < f <=> k < f) /\ (p < t <=> k < t) /\ \A u \in (p + 1)..k : ms[u].role # "user"
    BY <1>3, <1>6, <2>1, <2>2, <2>3, SidesOfBoundary DEF n
  <2>5. (i < f => k = i) /\ (i > f => k = i - f + t - 1 /\ k >= t)
    BY <1>1, <1>4, <2>1 DEF k
  <2>6. CASE i < f
    <3>1. k = i /\ p \in 1..(i - 1) /\ p \in 1..m /\ p # f /\ Of(p) = p
      BY <1>1, <1>2, <2>3, <2>4, <2>5, <2>6
    <3>2. out[p] = ms[p]
      BY <1>4, <3>1
    <3>3. ASSUME NEW u \in (p + 1)..i PROVE out[u].role # "user"
      <4>1. u \in 1..m /\ u # f /\ Of(u) = u /\ u \in (p + 1)..k
        BY <1>1, <1>2, <2>6, <3>1
      <4> QED BY <1>4, <2>4, <4>1
    <3> QED BY <2>1, <2>2, <3>1, <3>2, <3>3
  <2>7. CASE i > f
    <3> DEFINE q == p - t + f + 1
    <3>1. p >= t /\ k = i - f + t - 1
      BY <1>1, <2>3, <2>4, <2>5, <2>7
    <3>2. q \in 1..(i - 1) /\ q \in 1..m /\ q > f /\ q # f /\ Of(q) = p
      <4>1. /\ f \in Nat /\ f >= 1 /\ t \in Nat /\ p \in Int /\ m \in Int
        BY <1>1, <1>2, <2>3
      <4>2. i \in Int /\ i <= m /\ k = i - f + t - 1 /\ p < k /\ p >= t
        BY <2>4, <3>1, <4>1
      <4>3. q \in Int /\ q > f /\ q >= 1 /\ q <= i - 1
        BY <4>1, <4>2
      <4>4. q - f + t - 1 = p
        BY <4>1
      <4>5. Of(q) = p
        BY <4>1, <4>3, <4>4
      <4> HIDE DEF q, Of
      <4> QED BY <4>1, <4>3, <4>5, <4>2
    <3> HIDE DEF q, Of
    <3>3. out[q] = ms[p]
      BY <1>2, <3>2
    <3>4. ASSUME NEW u \in (q + 1)..i PROVE out[u].role # "user"
      <4>1. u \in 1..m /\ u > f /\ u # f
        BY <1>1, <1>2, <2>7, <3>2
      <4>2. Of(u) = u - f + t - 1 /\ u - f + t - 1 \in (p + 1)..k
        BY <1>1, <2>3, <3>1, <3>2, <4>1 DEF q, Of
      <4> QED BY <1>4, <2>4, <4>1, <4>2
    <3> QED BY <2>1, <2>2, <3>2, <3>3, <3>4
  <2> QED BY <1>1, <2>1, <2>6, <2>7
<1>7. ASSUME NEW i \in 1..m, NEW j \in 1..m, i # j PROVE out[i].calls \cap out[j].calls = {}
  <2>1. CASE i = f \/ j = f
    BY <1>2, <2>1
  <2>2. CASE i # f /\ j # f
    <3>1. Of(i) # Of(j)
      <4>1. i \in Int /\ j \in Int
        BY <1>1, <1>2, <1>7
      <4> QED BY <1>1, <1>7, <2>2, <4>1
    <3> QED BY <1>3, <1>4, <2>2, <3>1 DEF Distinct, n
  <2> QED BY <2>1, <2>2
<1>8. ASSUME NEW i \in 1..m, NEW c \in out[i].calls \cap R PROVE c \in Context!CallsOf(out)
  <2> DEFINE k == Of(i)
  <2>1. i # f /\ k \in 1..n /\ out[i] = ms[k] /\ (k < f \/ k >= t)
    <3>1. i # f
      BY <1>2, <1>8
    <3>2. k \in 1..n /\ out[i] = ms[k] /\ (i < f => k < f) /\ (i > f => k >= t)
      BY <1>4, <3>1
    <3>3. i < f \/ i > f
      BY <1>1, <3>1
    <3> QED BY <3>1, <3>2, <3>3
  <2> HIDE DEF k
  <2>2. c \in Context!CallsOf(ms)
    BY <1>3, <1>8, <2>1 DEF Answers, n
  <2>3. PICK j \in 1..n : ms[j].role = "tool" /\ ms[j].of = c
    BY <2>2, CallsOfThese DEF n
  <2>4. (k < f <=> j < f) /\ (k < t <=> j < t)
    BY <1>3, <1>8, <2>1, <2>3, SidesOfBoundary DEF n
  <2>5. j < f \/ j >= t
    BY <1>1, <2>1, <2>4
  <2>6. PICK q \in 1..m \ {f} : Of(q) = j
    <3> HIDE DEF Of
    <3> QED BY <1>5, <2>5
  <2>7. out[q] = ms[j]
    BY <1>4, <2>6
  <2> QED BY <2>3, <2>6, <2>7, CallsOfThese DEF m
<1>9. Grouped(out)
  BY <1>6 DEF Grouped, m
<1>10. Distinct(out)
  BY <1>7 DEF Distinct, m
<1>11. Answers(out, R)
  BY <1>8 DEF Answers, m
<1> QED BY <1>9, <1>10, <1>11 DEF Together, out

LEMMA ReplacedIsSound ==
  ASSUME NEW ms, NEW a, NEW ids, NEW kept, NEW R, SoundFor(ms, a, ids, kept, R),
         NEW s \in ContextMessages, s.calls = {}, s.role # "tool",
         NEW f, NEW t \in 1..Len(ms), Boundary(ms, f), ms[t].role = "user", f <= t,
         NEW more, kept \subseteq more,
         \A i \in f..(t - 1), d \in ids :
           d \in ms[i].stands => d \in s.stands /\ (s.view = "summary" \/ d \in more)
  PROVE  SoundFor(Replaced(ms, f, s, t), a, ids, more, R)
<1> DEFINE out == Replaced(ms, f, s, t)
           n == Len(ms)
           m == Len(out)
<1>1. /\ ms \in Seq(ContextMessages) /\ Serves(ms, a) /\ Covers(ms, ids, kept) /\ Together(ms, R)
  BY DEF SoundFor
<1>2. n \in Nat /\ f \in 1..(n + 1) /\ t \in 1..n /\ f <= t /\ t \in f..(n + 1) /\ Boundary(ms, t)
  <2>1. n \in Nat /\ f \in 1..(n + 1) /\ t \in 1..n
    BY <1>1, MessagesOf DEF Boundary
  <2> QED BY <2>1 DEF Boundary
<1>3. /\ out \in Seq(ContextMessages) /\ m = f + n - t + 1
      /\ \A i \in 1..m : out[i] = IF i < f THEN ms[i] ELSE IF i = f THEN s ELSE ms[i - f + t - 1]
  <2>1. ms \in Seq(ContextMessages) /\ s \in ContextMessages /\ f \in 1..(Len(ms) + 1) /\ t \in f..(Len(ms) + 1)
    BY <1>1, <1>2
  <2>2. /\ out \in Seq(ContextMessages) /\ m = f + n - t + 1
        /\ \A i \in 1..(f + n - t + 1) :
             out[i] = IF i < f THEN ms[i] ELSE IF i = f THEN s ELSE ms[i - f + t - 1]
    BY <2>1, ReplacedElements
  <2> HIDE DEF out, n, m
  <2> QED BY <2>2
<1>4. Together(out, R)
  BY <1>1, <1>2, ReplacedKeepsTogether
<1> HIDE DEF out, m, n
<1>5. f \in 1..m /\ out[f] = s
  BY <1>2, <1>3
<1>6. ASSUME NEW k \in 1..n, k < f PROVE k \in 1..m /\ out[k] = ms[k]
  BY <1>2, <1>3, <1>6
<1>7. ASSUME NEW k \in 1..n, k >= t PROVE k - t + f + 1 \in 1..m /\ out[k - t + f + 1] = ms[k]
  <2> DEFINE q == k - t + f + 1
  <2>1. q \in 1..m /\ ~(q < f) /\ q # f /\ q - f + t - 1 = k
    BY <1>2, <1>3, <1>7
  <2> HIDE DEF q
  <2>2. out[q] = ms[k]
    BY <1>3, <2>1
  <2> QED BY <2>1, <2>2 DEF q
<1>8. Serves(out, a)
  <2>1. PICK k \in 1..n : /\ ms[k].role = "user" /\ ms[k].id = a /\ ms[k].view = "full"
                          /\ \A j \in (k + 1)..n : ms[j].role # "user"
    BY <1>1 DEF Serves, n
  <2>2. k >= t
    BY <1>2, <2>1
  <2> DEFINE q == k - t + f + 1
  <2>3. q \in 1..m /\ out[q] = ms[k]
    BY <1>7, <2>2
  <2>4. ASSUME NEW j \in (q + 1)..m PROVE out[j].role # "user"
    <3>1. j \in 1..m /\ ~(j < f) /\ j # f /\ j - f + t - 1 \in (k + 1)..n
      BY <1>2, <1>3, <2>2, <2>4
    <3> QED BY <1>3, <2>1, <3>1
  <2> HIDE DEF q
  <2> QED BY <2>1, <2>3, <2>4 DEF Serves, m
<1>9. ASSUME NEW d \in ids
      PROVE  \E i \in 1..m : d \in out[i].stands /\ (out[i].view \in {"full", "summary"} \/ d \in more)
  <2>1. PICK k \in 1..n : d \in ms[k].stands /\ (ms[k].view \in {"full", "summary"} \/ d \in kept)
    BY <1>1 DEF Covers, n
  <2>2. CASE k < f
    BY <1>6, <2>1, <2>2
  <2>3. CASE k >= t
    BY <1>7, <2>1, <2>3
  <2>4. CASE k \in f..(t - 1)
    BY <1>5, <2>1, <2>4
  <2> QED BY <1>2, <2>2, <2>3, <2>4
<1>10. Covers(out, ids, more)
  BY <1>9 DEF Covers, m
<1> QED BY <1>3, <1>4, <1>8, <1>10 DEF SoundFor, out

LEMMA ReplacedFirst ==
  ASSUME NEW ms \in Seq(ContextMessages), NEW s \in ContextMessages, NEW t
  PROVE  Replaced(ms, 1, s, t) = <<s>> \o Context!From(ms, t)
<1>1. SubSeq(ms, 1, 1 - 1) = <<>>
  <2>1. 1 - 1 = 0
    OBVIOUS
  <2>2. SubSeq(ms, 1, 0) = <<>>
    OBVIOUS
  <2> QED BY <2>1, <2>2
<1> DEFINE mid == <<s>>
<1>2. mid \in Seq(ContextMessages)
  OBVIOUS
<1> HIDE DEF mid
<1>3. <<>> \o mid = mid
  BY <1>2, ConcatEmptySeq
<1> QED BY <1>1, <1>3 DEF Replaced, mid

LEMMA StandingMessage ==
  ASSUME NEW v \in MessageViews, NEW ids \in SUBSET Nat
  PROVE  LET s == Context!Standing(v, ids) IN
         s \in ContextMessages /\ s.calls = {} /\ s.role = "user" /\ s.view = v /\ s.stands = ids
<1>1. Context!Standing(v, ids) =
        [id |-> 0, role |-> "user", size |-> 1, calls |-> {}, of |-> <<>>, view |-> v, stands |-> ids]
  <2> DEFINE u == Context!User(0)
  <2>1. u = [id |-> 0, role |-> "user", size |-> 1, calls |-> {}, of |-> <<>>, view |-> "full", stands |-> {0}]
    BY DEF Context!User, Context!Message
  <2>2. Context!Standing(v, ids) = [u EXCEPT !.view = v, !.stands = ids]
    BY DEF Context!Standing
  <2> HIDE DEF u
  <2> QED BY <2>1, <2>2
<1> QED BY <1>1 DEF ContextMessages, MessageViews

LEMMA StandFor ==
  ASSUME NEW ms \in Seq(ContextMessages), NEW S \in SUBSET (1..Len(ms))
  PROVE  UNION {ms[i].stands : i \in S} \in SUBSET Nat
<1>1. \A i \in S : ms[i].stands \in SUBSET Nat
  BY MessagesOf DEF ContextMessages
<1> QED BY <1>1

\* A summary may stand for the messages before a user message.
LEMMA SummarisedIsSound ==
  ASSUME NEW ms, NEW a, NEW ids, NEW kept, NEW R, SoundFor(ms, a, ids, kept, R),
         NEW n \in Nat, n + 1 \in 1..Len(ms), ms[n + 1].role = "user"
  PROVE  SoundFor(<<Context!Standing("summary", UNION {ms[i].stands : i \in 1..n})>> \o Context!From(ms, n + 1),
                  a, ids, kept, R)
<1> DEFINE summed == UNION {ms[i].stands : i \in 1..n}
           s == Context!Standing("summary", summed)
           t == n + 1
<1>1. ms \in Seq(ContextMessages)
  BY DEF SoundFor
<1>2. Len(ms) \in Nat
  BY <1>1, MessagesOf
<1>3. summed \in SUBSET Nat
  <2>1. 1..n \in SUBSET (1..Len(ms))
    BY <1>2
  <2> QED BY <1>1, <2>1, StandFor
<1>4. \A i \in 1..(t - 1), d \in ids : d \in ms[i].stands => d \in summed
  OBVIOUS
<1> HIDE DEF summed
<1>5. s \in ContextMessages /\ s.calls = {} /\ s.role = "user" /\ s.view = "summary" /\ s.stands = summed
  BY <1>3, StandingMessage DEF MessageViews
<1>6. t \in 1..Len(ms) /\ ms[t].role = "user" /\ 1 <= t /\ Boundary(ms, 1)
  BY <1>2 DEF Boundary
<1> HIDE DEF s, t
<1>7. SoundFor(Replaced(ms, 1, s, t), a, ids, kept, R)
  BY <1>4, <1>5, <1>6, ReplacedIsSound
<1>8. Replaced(ms, 1, s, t) = <<s>> \o Context!From(ms, t)
  BY <1>1, <1>5, ReplacedFirst
<1> QED BY <1>7, <1>8 DEF s, t, summed

\* The last segment is a later one, if there is any.
LEMMA LastSegment ==
  ASSUME NEW ms \in Seq(ContextMessages), Context!Starts(ms) \ {1} # {}
  PROVE  Context!Max(Context!Starts(ms)) \in Context!Starts(ms) \ {1}
<1> DEFINE S == Context!Starts(ms)
<1>1. Len(ms) \in Nat /\ S \in SUBSET (1..Len(ms))
  BY MessagesOf DEF Context!Starts
<1>2. PICK x \in S : x # 1
  OBVIOUS
<1> HIDE DEF S
<1>3. S \in SUBSET Int /\ IsFiniteSet(S) /\ S # {}
  BY <1>1, <1>2, PlacesAreFinite
<1> DEFINE z == Context!Max(S)
<1>4. z \in S /\ z >= x
  BY <1>2, <1>3, MaxExists
<1> HIDE DEF z
<1>5. z # 1
  BY <1>1, <1>2, <1>4
<1> QED BY <1>4, <1>5 DEF z, S

LEMMA FirstOfThese ==
  ASSUME NEW ms \in Seq(ContextMessages), NEW T \in SUBSET (Context!Starts(ms) \ {1}), T # {}
  PROVE  /\ Context!Min(T) \in T /\ Context!Min(T) \in 2..Len(ms) /\ \A y \in T : Context!Min(T) <= y
         /\ ms[Context!Min(T)].role = "user" /\ Boundary(ms, Context!Min(T))
<1>1. Len(ms) \in Nat /\ T \in SUBSET (1..Len(ms))
  BY MessagesOf DEF Context!Starts
<1>2. T \in SUBSET Int /\ IsFiniteSet(T)
  BY <1>1, PlacesAreFinite
<1> DEFINE z == Context!Min(T)
<1>3. z \in T /\ \A y \in T : z <= y
  BY <1>2, MinExists
<1> HIDE DEF z
<1>4. z \in Context!Starts(ms) /\ z # 1
  BY <1>3
<1>5. z \in 1..Len(ms) /\ Boundary(ms, z) /\ ms[z].role = "user"
  BY <1>4, LaterStarts
<1>6. z \in 2..Len(ms)
  BY <1>1, <1>4, <1>5
<1> QED BY <1>3, <1>5, <1>6 DEF z

LEMMA SegmentsAreFew ==
  ASSUME NEW ms \in Seq(ContextMessages), ~(Context!Cardinality(Context!Starts(ms)) < 3)
  PROVE  Context!Starts(ms) \ {1} # {}
<1> DEFINE S == Context!Starts(ms)
<1>1. SUFFICES ASSUME S \subseteq {1} PROVE FALSE
  OBVIOUS
<1>2. Context!Cardinality(S) = Cardinality(S)
  BY DEF Context!Cardinality, Cardinality
<1> DEFINE one == {1}
<1>3. IsFiniteSet(one) /\ Cardinality(one) = 1
  BY FS_Singleton
<1> HIDE DEF S, one
<1>4. Cardinality(S) <= 1 /\ IsFiniteSet(S)
  BY <1>1, <1>3, FS_Subset DEF one
<1>5. Cardinality(S) \in Nat
  BY <1>4, FS_CardinalityType
<1> QED BY <1>2, <1>4, <1>5 DEF S

\* layerArchiveMiddle: what leaves the request is kept.
LEMMA ArchiveIsSound ==
  ASSUME NEW ms, NEW a, NEW ids, NEW kept, NEW R, SoundFor(ms, a, ids, kept, R), NEW lost, NEW more,
         kept \subseteq more, Context!ArchiveMiddle(ms, lost).stored \subseteq more
  PROVE  SoundFor(Context!ArchiveMiddle(ms, lost).messages, a, ids, more, R)
<1> DEFINE r == Context!ArchiveMiddle(ms, lost)
<1>1. ms \in Seq(ContextMessages)
  BY DEF SoundFor
<1>2. CASE r = Context!Kept(ms)
  <2>1. r.messages = ms
    BY <1>2 DEF Context!Kept
  <2>2. SoundFor(ms, a, ids, more, R)
    BY DEF SoundFor, Covers
  <2> QED BY <2>1, <2>2
<1>3. CASE r # Context!Kept(ms)
  <2> DEFINE starts == Context!Starts(ms)
             first == Context!Min(starts \ {1})
             available == Context!Max({1, MaxConversationMessages - (first - 1) - 1})
             T == {k \in starts \ {1} : k = Context!Max(starts) \/ Len(ms) - k + 1 <= available}
             tail == Context!Min(T)
             middle == UNION {ms[i].stands : i \in first..tail - 1}
             s == Context!Standing("archive", middle)
  <2>1. r = Context!Archive(ms, first, tail) /\ ~(Context!Cardinality(Context!Starts(ms)) < 3)
    BY <1>3 DEF Context!ArchiveMiddle
  <2>2. r.messages = Replaced(ms, first, s, tail) /\ r.stored = middle
    <3> HIDE DEF r, first, tail
    <3>1. r = [messages |-> SubSeq(ms, 1, first - 1) \o <<s>> \o Context!From(ms, tail),
               stored |-> middle, archived |-> TRUE]
      BY <2>1 DEF Context!Archive
    <3> HIDE DEF s, middle
    <3>2. r.messages = SubSeq(ms, 1, first - 1) \o <<s>> \o Context!From(ms, tail) /\ r.stored = middle
      <4> DEFINE out == SubSeq(ms, 1, first - 1) \o <<s>> \o Context!From(ms, tail)
      <4> HIDE DEF out
      <4>1. r = [messages |-> out, stored |-> middle, archived |-> TRUE]
        BY <3>1 DEF out
      <4> QED BY <4>1 DEF out
    <3> QED BY <3>2 DEF Replaced
  <2>3. starts \ {1} # {} /\ starts \ {1} \in SUBSET (Context!Starts(ms) \ {1})
    BY <1>1, <2>1, SegmentsAreFew
  <2>4. /\ first \in 2..Len(ms) /\ (\A y \in starts \ {1} : first <= y) /\ Boundary(ms, first)
    BY <1>1, <2>3, FirstOfThese
  <2>5. Context!Max(starts) \in starts \ {1}
    BY <1>1, <2>3, LastSegment
  <2>6. T # {} /\ T \in SUBSET (Context!Starts(ms) \ {1})
    BY <2>5
  <2> HIDE DEF T
  <2>7. tail \in T /\ tail \in 2..Len(ms) /\ ms[tail].role = "user" /\ Boundary(ms, tail)
    BY <1>1, <2>6, FirstOfThese
  <2> HIDE DEF first, tail, r
  <2>8. tail \in 1..Len(ms) /\ first <= tail /\ Len(ms) \in Nat
    BY <1>1, <2>4, <2>6, <2>7, MessagesOf
  <2>9. middle \in SUBSET Nat
    <3>1. first..tail - 1 \in SUBSET (1..Len(ms))
      BY <2>4, <2>7, <2>8
    <3> QED BY <1>1, <3>1, StandFor
  <2>10. \A i \in first..(tail - 1), d \in ids : d \in ms[i].stands => d \in middle
    OBVIOUS
  <2> HIDE DEF middle
  <2>11. s \in ContextMessages /\ s.calls = {} /\ s.role = "user" /\ s.stands = middle
    BY <2>9, StandingMessage DEF MessageViews
  <2>12. middle \subseteq more
    BY <2>2 DEF r
  <2> HIDE DEF s
  <2>13. SoundFor(Replaced(ms, first, s, tail), a, ids, more, R)
    <3>1. \A i \in first..(tail - 1), d \in ids :
            d \in ms[i].stands => d \in s.stands /\ (s.view = "summary" \/ d \in more)
      BY <2>10, <2>11, <2>12
    <3>2. s.role # "tool"
      BY <2>11
    <3> QED BY <2>4, <2>7, <2>8, <2>11, <3>1, <3>2, ReplacedIsSound
  <2> QED BY <2>2, <2>13 DEF r
<1> QED BY <1>2, <1>3

\* out is ms, but that some tool results, all of them among stored, have given
\* way to placeholders.
Layered(ms, out, stored) ==
  /\ out \in Seq(ContextMessages) /\ Len(out) = Len(ms)
  /\ \A i \in 1..Len(ms) :
       /\ out[i].id = ms[i].id /\ out[i].role = ms[i].role /\ out[i].calls = ms[i].calls
       /\ out[i].of = ms[i].of /\ out[i].stands = ms[i].stands
       /\ out[i] = ms[i] \/ (ms[i].role = "tool" /\ ms[i].stands \subseteq stored)

LEMMA LayeredIsSound ==
  ASSUME NEW ms, NEW a, NEW ids, NEW kept, NEW R, SoundFor(ms, a, ids, kept, R),
         NEW out, NEW stored, Layered(ms, out, stored), NEW more, kept \subseteq more, stored \subseteq more
  PROVE  SoundFor(out, a, ids, more, R)
<1>1. /\ ms \in Seq(ContextMessages) /\ Serves(ms, a) /\ Covers(ms, ids, kept)
      /\ Grouped(ms) /\ Distinct(ms) /\ Answers(ms, R)
  BY DEF SoundFor, Together
<1>2. Len(ms) \in Nat /\ Len(out) = Len(ms) /\ out \in Seq(ContextMessages)
  BY <1>1, MessagesOf DEF Layered
<1>3. \A i \in 1..Len(ms) : /\ out[i].id = ms[i].id /\ out[i].role = ms[i].role /\ out[i].calls = ms[i].calls
                            /\ out[i].of = ms[i].of /\ out[i].stands = ms[i].stands
                            /\ ms[i].role # "tool" => out[i].view = ms[i].view
                            /\ out[i] = ms[i] \/ ms[i].stands \subseteq stored
  BY DEF Layered
<1>4. Serves(out, a)
  <2>1. PICK k \in 1..Len(ms) : /\ ms[k].role = "user" /\ ms[k].id = a /\ ms[k].view = "full"
                                /\ \A j \in (k + 1)..Len(ms) : ms[j].role # "user"
    BY <1>1 DEF Serves
  <2>2. out[k].role = "user" /\ out[k].id = a /\ out[k].view = "full"
    BY <1>3, <2>1
  <2>3. \A j \in (k + 1)..Len(ms) : out[j].role # "user"
    BY <1>2, <1>3, <2>1
  <2> QED BY <1>2, <2>1, <2>2, <2>3 DEF Serves
<1>5. Covers(out, ids, more)
  <2>1. ASSUME NEW d \in ids
        PROVE  \E i \in 1..Len(out) : d \in out[i].stands /\ (out[i].view \in {"full", "summary"} \/ d \in more)
    <3>1. PICK k \in 1..Len(ms) : d \in ms[k].stands /\ (ms[k].view \in {"full", "summary"} \/ d \in kept)
      BY <1>1 DEF Covers
    <3>2. d \in out[k].stands
      BY <1>3, <3>1
    <3>3. out[k].view \in {"full", "summary"} \/ d \in more
      BY <1>3, <3>1
    <3> QED BY <1>2, <3>2, <3>3
  <2> QED BY <2>1 DEF Covers
<1>6. Grouped(out)
  <2>1. ASSUME NEW i \in 1..Len(ms), out[i].role = "tool"
        PROVE  \E j \in 1..(i - 1) : out[i].of \in out[j].calls /\ \A u \in (j + 1)..i : out[u].role # "user"
    <3>1. ms[i].role = "tool" /\ ms[i].of = out[i].of
      BY <1>3, <2>1
    <3>2. PICK j \in 1..(i - 1) : ms[i].of \in ms[j].calls /\ \A u \in (j + 1)..i : ms[u].role # "user"
      BY <1>1, <3>1 DEF Grouped
    <3>3. j \in 1..Len(ms) /\ \A u \in (j + 1)..i : u \in 1..Len(ms)
      BY <1>2, <3>2
    <3>4. out[i].of \in out[j].calls
      BY <1>3, <3>1, <3>2, <3>3
    <3>5. \A u \in (j + 1)..i : out[u].role # "user"
      BY <1>3, <3>2, <3>3
    <3> QED BY <3>4, <3>5
  <2> QED BY <1>2, <2>1 DEF Grouped
<1>7. Distinct(out)
  BY <1>1, <1>2, <1>3 DEF Distinct
<1>8. Answers(out, R)
  <2>1. ASSUME NEW i \in 1..Len(ms), NEW c \in out[i].calls \cap R PROVE c \in Context!CallsOf(out)
    <3>1. c \in ms[i].calls \cap R
      BY <1>3, <2>1
    <3>2. c \in Context!CallsOf(ms)
      BY <1>1, <3>1 DEF Answers
    <3>3. PICK j \in 1..Len(ms) : ms[j].role = "tool" /\ ms[j].of = c
      BY <3>2, CallsOfThese
    <3>4. out[j].role = "tool" /\ out[j].of = c
      BY <1>3, <3>3
    <3> QED BY <1>2, <3>4, CallsOfThese
  <2> QED BY <1>2, <2>1 DEF Answers
<1> QED BY <1>2, <1>4, <1>5, <1>6, <1>7, <1>8 DEF SoundFor, Together

LEMMA LayeredItself ==
  ASSUME NEW ms \in Seq(ContextMessages) PROVE Layered(ms, ms, {})
BY MessagesOf DEF Layered

\* One more tool result gives way.
LEMMA LayeredFurther ==
  ASSUME NEW ms \in Seq(ContextMessages), NEW out, NEW stored, Layered(ms, out, stored),
         NEW k, ms[k].role = "tool", NEW v \in MessageViews, NEW size \in Int
  PROVE  Layered(ms, [out EXCEPT ![k] = Context!Placeholder(ms[k], v, size)], stored \union ms[k].stands)
<1> DEFINE p == Context!Placeholder(ms[k], v, size)
           new == [out EXCEPT ![k] = p]
<1>1. /\ Len(ms) \in Nat /\ DOMAIN out = 1..Len(ms) /\ out \in [1..Len(ms) -> ContextMessages]
      /\ \A i \in 1..Len(ms) : ms[i] \in ContextMessages
  <2>1. Len(out) = Len(ms) /\ out \in Seq(ContextMessages)
    BY DEF Layered
  <2>2. out \in [1..Len(out) -> ContextMessages]
    BY <2>1, MessagesOf
  <2> QED BY <2>1, <2>2, MessagesOf
<1>2. CASE k \in 1..Len(ms)
  <2> DEFINE m == ms[k]
  <2>1. m \in ContextMessages
    BY <1>1, <1>2
  <2>2. p = [m EXCEPT !.view = v, !.size = size]
    BY DEF Context!Placeholder
  <2> HIDE DEF m, p
  <2>3. p \in ContextMessages /\ p.id = m.id /\ p.role = m.role /\ p.calls = m.calls /\ p.of = m.of
        /\ p.stands = m.stands
    BY <2>1, <2>2 DEF ContextMessages
  <2>4. /\ new \in [1..Len(ms) -> ContextMessages] /\ new[k] = p
        /\ \A i \in 1..Len(ms) \ {k} : new[i] = out[i]
    BY <1>1, <1>2, <2>3
  <2> HIDE DEF new
  <2>5. new \in Seq(ContextMessages) /\ Len(new) = Len(ms)
    BY <1>1, <2>4
  <2>6. ASSUME NEW i \in 1..Len(ms)
        PROVE  /\ new[i].id = ms[i].id /\ new[i].role = ms[i].role /\ new[i].calls = ms[i].calls
               /\ new[i].of = ms[i].of /\ new[i].stands = ms[i].stands
               /\ new[i] = ms[i] \/ (ms[i].role = "tool" /\ ms[i].stands \subseteq stored \union m.stands)
    <3>1. CASE i = k
      BY <2>3, <2>4, <3>1 DEF m
    <3>2. CASE i # k
      <4>1. new[i] = out[i]
        BY <2>4, <3>2
      <4> QED BY <4>1 DEF Layered
    <3> QED BY <3>1, <3>2
  <2>7. Layered(ms, new, stored \union m.stands)
    BY <2>5, <2>6 DEF Layered
  <2> QED BY <2>7 DEF new, m, p
<1>3. CASE k \notin 1..Len(ms)
  <2> HIDE DEF p
  <2>1. new = out
    BY <1>1, <1>3
  <2> HIDE DEF new
  <2>2. Layered(ms, out, stored \union ms[k].stands)
    BY DEF Layered
  <2> QED BY <2>1, <2>2 DEF new, p
<1> QED BY <1>2, <1>3

\* layerOldToolResults
LEMMA OldResultsAreLayered ==
  ASSUME NEW ms \in Seq(ContextMessages), NEW read0, NEW r, NEW lost
  PROVE  LET done == Context!OldToolResults(ms, read0, r, lost) IN
         Layered(ms, done.messages, done.stored)
<1> DEFINE n == Len(ms)
           base == [messages |-> ms, stored |-> {}]
           Later(k) == {j \in k .. Len(ms) : ms[j].role = "tool"}
           Up(s, k) ==
             IF \/ Context!Measure(s.messages, r) <= TargetTokens
                \/ Context!Cardinality(Later(k)) <= LatestToolResultsToKeep
                \/ ms[k].of \notin read0 \/ ms[k].size < CompactMin \/ ~Context!Persist(ms[k], lost)
             THEN s
             ELSE [messages |-> [s.messages EXCEPT ![k] = Context!Placeholder(ms[k], "compact", 1)],
                   stored |-> s.stored \union ms[k].stands]
<1>1. n \in Nat
  BY MessagesOf
<1>2. base.messages = ms /\ base.stored = {}
  OBVIOUS
<1> HIDE DEF Up, base, n
<1>3. \E f : f = [k \in 0..n |-> IF k = 0 THEN base ELSE Up(f[k - 1], k)]
  <2> DEFINE Follows(f, k) == f = [i \in 0..k |-> f[i]] /\ f[0] = base /\ \A i \in 1..k : f[i] = Up(f[i - 1], i)
             P == {k \in 0..n : \E f : Follows(f, k)}
  <2>1. 0 \in P
    <3> DEFINE h == [i \in 0..0 |-> base]
    <3>1. h = [i \in 0..0 |-> h[i]] /\ h[0] = base /\ \A i \in 1..0 : FALSE
      OBVIOUS
    <3> HIDE DEF h
    <3>2. Follows(h, 0)
      BY <3>1
    <3>3. 0 \in 0..n
      BY <1>1
    <3> QED BY <3>2, <3>3
  <2>2. ASSUME NEW k \in 0..(n - 1), k \in P PROVE k + 1 \in P
    <3>1. PICK f : Follows(f, k)
      BY <2>2
    <3> DEFINE h == [i \in 0..(k + 1) |-> IF i <= k THEN f[i] ELSE Up(f[k], k + 1)]
    <3>8. h = [i \in 0..(k + 1) |-> h[i]]
      OBVIOUS
    <3>2. (\A i \in 0..k : h[i] = f[i]) /\ h[k + 1] = Up(f[k], k + 1)
      BY <1>1, <2>2
    <3> HIDE DEF h
    <3>9. f[0] = base /\ \A i \in 1..k : f[i] = Up(f[i - 1], i)
      BY <3>1
    <3>3. h[0] = base
      <4>1. 0 \in 0..k
        BY <1>1, <2>2
      <4> QED BY <3>2, <3>9, <4>1
    <3>4. ASSUME NEW i \in 1..(k + 1) PROVE h[i] = Up(h[i - 1], i)
      <4>1. i - 1 \in 0..k /\ h[i - 1] = f[i - 1]
        BY <1>1, <2>2, <3>2, <3>4
      <4>2. CASE i = k + 1
        <5>1. i - 1 = k
          BY <1>1, <2>2, <4>2
        <5> QED BY <3>2, <4>1, <4>2, <5>1
      <4>3. CASE i \in 1..k
        <5>1. i \in 0..k
          BY <1>1, <2>2, <4>3
        <5>2. h[i] = f[i]
          BY <3>2, <5>1
        <5> QED BY <3>9, <5>2, <4>1, <4>3
      <4> QED BY <1>1, <2>2, <3>4, <4>2, <4>3
    <3>5. Follows(h, k + 1)
      BY <3>3, <3>4, <3>8
    <3>6. k + 1 \in 0..n
      BY <1>1, <2>2
    <3> HIDE DEF Follows
    <3> QED BY <3>5, <3>6
  <2> HIDE DEF P
  <2>3. n \in P
    <3>1. 0..n \subseteq P
      BY <1>1, <2>1, <2>2, IntervalInduction
    <3> QED BY <1>1, <3>1
  <2>4. PICK f : Follows(f, n)
    BY <2>3 DEF P
  <2>5. ASSUME NEW k \in 0..n PROVE f[k] = IF k = 0 THEN base ELSE Up(f[k - 1], k)
    <3>1. CASE k = 0
      BY <2>4, <3>1
    <3>2. CASE k \in 1..n
      <4>1. k # 0
        BY <1>1, <3>2
      <4> QED BY <2>4, <3>2, <4>1
    <3> QED BY <1>1, <2>5, <3>1, <3>2
  <2>6. f = [k \in 0..n |-> f[k]]
    BY <2>4
  <2>7. f = [k \in 0..n |-> IF k = 0 THEN base ELSE Up(f[k - 1], k)]
    BY <2>5, <2>6
  <2> QED BY <2>7
<1> DEFINE F == CHOOSE f : f = [k \in 0..n |-> IF k = 0 THEN base ELSE Up(f[k - 1], k)]
<1>4. F = [k \in 0..n |-> IF k = 0 THEN base ELSE Up(F[k - 1], k)]
  BY <1>3
<1>5. Context!OldToolResults(ms, read0, r, lost) = F[n]
  BY DEF Context!OldToolResults, Up, base, n
<1> HIDE DEF F
<1>6. F[0] = base /\ \A k \in 1..n : F[k] = Up(F[k - 1], k)
  <2>1. F[0] = base
    BY <1>1, <1>4
  <2>2. ASSUME NEW k \in 1..n PROVE F[k] = Up(F[k - 1], k)
    <3>1. k \in 0..n /\ k # 0
      BY <1>1, <2>2
    <3> QED BY <1>4, <3>1
  <2> QED BY <2>1, <2>2
<1> DEFINE P == {k \in 0..n : Layered(ms, F[k].messages, F[k].stored)}
<1>7. 0 \in P
  <2>1. Layered(ms, base.messages, base.stored)
    BY <1>2, LayeredItself
  <2> QED BY <1>1, <1>6, <2>1
<1>8. ASSUME NEW k \in 0..(n - 1), k \in P PROVE k + 1 \in P
  <2>1. k + 1 \in 1..n /\ (k + 1) - 1 = k /\ k + 1 \in 0..n
    BY <1>1, <1>8
  <2> DEFINE q == k + 1
             old == F[k]
             o == q
             m == ms[o]
  <2>2. F[q] = Up(old, q)
    BY <1>6, <2>1
  <2>3. Layered(ms, old.messages, old.stored)
    BY <1>8
  <2> HIDE DEF q, old
  <2>4. CASE Up(old, q) = old
    BY <2>1, <2>2, <2>3, <2>4 DEF q
  <2>5. CASE Up(old, q) # old
    <3>1. /\ m.role = "tool"
          /\ Up(old, q).messages = [old.messages EXCEPT ![o] = Context!Placeholder(m, "compact", 1)]
          /\ Up(old, q).stored = old.stored \union m.stands
      <4>1. Context!Persist(m, lost)
        BY <2>5 DEF Up
      <4> QED BY <2>5, <4>1 DEF Up, Context!Persist
    <3>2. Layered(ms, Up(old, q).messages, Up(old, q).stored)
      <4>1. 1 \in Int /\ "compact" \in MessageViews
        BY ContextPartsAssumption DEF Context!ContextAssumption, MessageViews
      <4> HIDE DEF o
      <4>2. Layered(ms, [old.messages EXCEPT ![o] = Context!Placeholder(m, "compact", 1)], old.stored \union m.stands)
        BY <2>3, <3>1, <4>1, LayeredFurther
      <4> QED BY <3>1, <4>2
    <3> QED BY <2>1, <2>2, <3>2 DEF q
  <2> QED BY <2>4, <2>5
<1> HIDE DEF P
<1>9. n \in P
  <2>1. 0..n \subseteq P
    BY <1>1, <1>7, <1>8, IntervalInduction
  <2> QED BY <1>1, <2>1
<1> QED BY <1>5, <1>9 DEF P

LEMMA ClosedBatchIsFinite ==
  ASSUME NEW ms \in Seq(ContextMessages)
  PROVE  Context!Cardinality(Context!ClosedBatch(ms)) \in Nat
<1> DEFINE callers == {i \in 1..Len(ms) : ms[i].calls # {}}
           batch == Context!ClosedBatch(ms)
<1>1. Len(ms) \in Nat
  BY MessagesOf
<1>2. batch \in SUBSET (1..Len(ms))
  <2>1. CASE callers = {}
    BY <2>1 DEF Context!ClosedBatch
  <2>2. CASE callers # {}
    <3> DEFINE last == Context!Max(callers)
    <3>1. callers \in SUBSET (1..Len(ms))
      OBVIOUS
    <3> HIDE DEF callers
    <3>2. callers \in SUBSET Int /\ IsFiniteSet(callers)
      BY <1>1, <3>1, PlacesAreFinite
    <3>3. last \in callers
      BY <2>2, <3>2, MaxExists
    <3>4. batch = {} \/ batch \in SUBSET ((last + 1)..Len(ms))
      BY DEF Context!ClosedBatch, callers
    <3> HIDE DEF last, batch
    <3>5. last \in 1..Len(ms)
      BY <3>1, <3>3
    <3>6. (last + 1)..Len(ms) \subseteq 1..Len(ms)
      BY <1>1, <3>5
    <3> QED BY <3>4, <3>6
  <2> QED BY <2>1, <2>2
<1> HIDE DEF batch
<1>3. IsFiniteSet(batch)
  BY <1>1, <1>2, PlacesAreFinite
<1>4. Context!Cardinality(batch) = Cardinality(batch)
  BY DEF Context!Cardinality, Cardinality
<1> QED BY <1>3, <1>4, FS_CardinalityType DEF batch

\* layerLargeToolResults
LEMMA LargeResultsAreLayered ==
  ASSUME NEW ms \in Seq(ContextMessages), NEW lost
  PROVE  LET done == Context!LargeToolResults(ms, lost) IN Layered(ms, done.messages, done.stored)
<1> DEFINE batch == Context!ClosedBatch(ms)
           n == Context!Cardinality(batch)
           Before(i) == {j \in batch : ms[j].size > ms[i].size \/ (ms[j].size = ms[i].size /\ j < i)}
           order == [k \in 1..n |-> CHOOSE i \in batch : Context!Cardinality(Before(i)) = k - 1]
           base == [messages |-> ms, stored |-> {},
                    chars |-> Context!Sum([i \in DOMAIN order |-> ms[order[i]].size])]
           Up(s, k) ==
             IF (s.chars <= LatestToolBatchChars /\ ms[order[k]].size <= LargeToolResultChars)
                \/ ~Context!Persist(ms[order[k]], lost)
             THEN s
             ELSE [messages |-> [s.messages EXCEPT ![order[k]] = Context!Placeholder(ms[order[k]], "preview", PreviewSize)],
                   stored |-> s.stored \union ms[order[k]].stands,
                   chars |-> s.chars - Context!Max({0, ms[order[k]].size - PreviewSize})]
<1>1. n \in Nat
  BY ClosedBatchIsFinite
<1>2. base.messages = ms /\ base.stored = {}
  OBVIOUS
<1> HIDE DEF order
<1> HIDE DEF Up, base, n
<1>3. \E f : f = [k \in 0..n |-> IF k = 0 THEN base ELSE Up(f[k - 1], k)]
  <2> DEFINE Follows(f, k) == f = [i \in 0..k |-> f[i]] /\ f[0] = base /\ \A i \in 1..k : f[i] = Up(f[i - 1], i)
             P == {k \in 0..n : \E f : Follows(f, k)}
  <2>1. 0 \in P
    <3> DEFINE h == [i \in 0..0 |-> base]
    <3>1. h = [i \in 0..0 |-> h[i]] /\ h[0] = base /\ \A i \in 1..0 : FALSE
      OBVIOUS
    <3> HIDE DEF h
    <3>2. Follows(h, 0)
      BY <3>1
    <3>3. 0 \in 0..n
      BY <1>1
    <3> QED BY <3>2, <3>3
  <2>2. ASSUME NEW k \in 0..(n - 1), k \in P PROVE k + 1 \in P
    <3>1. PICK f : Follows(f, k)
      BY <2>2
    <3> DEFINE h == [i \in 0..(k + 1) |-> IF i <= k THEN f[i] ELSE Up(f[k], k + 1)]
    <3>8. h = [i \in 0..(k + 1) |-> h[i]]
      OBVIOUS
    <3>2. (\A i \in 0..k : h[i] = f[i]) /\ h[k + 1] = Up(f[k], k + 1)
      BY <1>1, <2>2
    <3> HIDE DEF h
    <3>9. f[0] = base /\ \A i \in 1..k : f[i] = Up(f[i - 1], i)
      BY <3>1
    <3>3. h[0] = base
      <4>1. 0 \in 0..k
        BY <1>1, <2>2
      <4> QED BY <3>2, <3>9, <4>1
    <3>4. ASSUME NEW i \in 1..(k + 1) PROVE h[i] = Up(h[i - 1], i)
      <4>1. i - 1 \in 0..k /\ h[i - 1] = f[i - 1]
        BY <1>1, <2>2, <3>2, <3>4
      <4>2. CASE i = k + 1
        <5>1. i - 1 = k
          BY <1>1, <2>2, <4>2
        <5> QED BY <3>2, <4>1, <4>2, <5>1
      <4>3. CASE i \in 1..k
        <5>1. i \in 0..k
          BY <1>1, <2>2, <4>3
        <5>2. h[i] = f[i]
          BY <3>2, <5>1
        <5> QED BY <3>9, <5>2, <4>1, <4>3
      <4> QED BY <1>1, <2>2, <3>4, <4>2, <4>3
    <3>5. Follows(h, k + 1)
      BY <3>3, <3>4, <3>8
    <3>6. k + 1 \in 0..n
      BY <1>1, <2>2
    <3> HIDE DEF Follows
    <3> QED BY <3>5, <3>6
  <2> HIDE DEF P
  <2>3. n \in P
    <3>1. 0..n \subseteq P
      BY <1>1, <2>1, <2>2, IntervalInduction
    <3> QED BY <1>1, <3>1
  <2>4. PICK f : Follows(f, n)
    BY <2>3 DEF P
  <2>5. ASSUME NEW k \in 0..n PROVE f[k] = IF k = 0 THEN base ELSE Up(f[k - 1], k)
    <3>1. CASE k = 0
      BY <2>4, <3>1
    <3>2. CASE k \in 1..n
      <4>1. k # 0
        BY <1>1, <3>2
      <4> QED BY <2>4, <3>2, <4>1
    <3> QED BY <1>1, <2>5, <3>1, <3>2
  <2>6. f = [k \in 0..n |-> f[k]]
    BY <2>4
  <2>7. f = [k \in 0..n |-> IF k = 0 THEN base ELSE Up(f[k - 1], k)]
    BY <2>5, <2>6
  <2> QED BY <2>7
<1> DEFINE F == CHOOSE f : f = [k \in 0..n |-> IF k = 0 THEN base ELSE Up(f[k - 1], k)]
<1>4. F = [k \in 0..n |-> IF k = 0 THEN base ELSE Up(F[k - 1], k)]
  BY <1>3
<1>5. Context!LargeToolResults(ms, lost) = F[n]
  BY DEF Context!LargeToolResults, order, batch, Up, base, n
<1> HIDE DEF F
<1>6. F[0] = base /\ \A k \in 1..n : F[k] = Up(F[k - 1], k)
  <2>1. F[0] = base
    BY <1>1, <1>4
  <2>2. ASSUME NEW k \in 1..n PROVE F[k] = Up(F[k - 1], k)
    <3>1. k \in 0..n /\ k # 0
      BY <1>1, <2>2
    <3> QED BY <1>4, <3>1
  <2> QED BY <2>1, <2>2
<1> DEFINE P == {k \in 0..n : Layered(ms, F[k].messages, F[k].stored)}
<1>7. 0 \in P
  <2>1. Layered(ms, base.messages, base.stored)
    BY <1>2, LayeredItself
  <2> QED BY <1>1, <1>6, <2>1
<1>8. ASSUME NEW k \in 0..(n - 1), k \in P PROVE k + 1 \in P
  <2>1. k + 1 \in 1..n /\ (k + 1) - 1 = k /\ k + 1 \in 0..n
    BY <1>1, <1>8
  <2> DEFINE q == k + 1
             old == F[k]
             o == order[q]
             m == ms[o]
  <2>2. F[q] = Up(old, q)
    BY <1>6, <2>1
  <2>3. Layered(ms, old.messages, old.stored)
    BY <1>8
  <2> HIDE DEF q, old
  <2>4. CASE Up(old, q) = old
    BY <2>1, <2>2, <2>3, <2>4 DEF q
  <2>5. CASE Up(old, q) # old
    <3>1. /\ m.role = "tool"
          /\ Up(old, q).messages = [old.messages EXCEPT ![o] = Context!Placeholder(m, "preview", PreviewSize)]
          /\ Up(old, q).stored = old.stored \union m.stands
      <4>1. Context!Persist(m, lost)
        BY <2>5 DEF Up
      <4> QED BY <2>5, <4>1 DEF Up, Context!Persist
    <3>2. Layered(ms, Up(old, q).messages, Up(old, q).stored)
      <4>1. PreviewSize \in Int /\ "preview" \in MessageViews
        BY ContextPartsAssumption DEF Context!ContextAssumption, MessageViews
      <4> HIDE DEF o
      <4>2. Layered(ms, [old.messages EXCEPT ![o] = Context!Placeholder(m, "preview", PreviewSize)], old.stored \union m.stands)
        BY <2>3, <3>1, <4>1, LayeredFurther
      <4> QED BY <3>1, <4>2
    <3> QED BY <2>1, <2>2, <3>2 DEF q
  <2> QED BY <2>4, <2>5
<1> HIDE DEF P
<1>9. n \in P
  <2>1. 0..n \subseteq P
    BY <1>1, <1>7, <1>8, IntervalInduction
  <2> QED BY <1>1, <2>1
<1> QED BY <1>5, <1>9 DEF P

LEMMA SumIsInteger ==
  ASSUME NEW ns \in Seq(Int) PROVE Context!Sum(ns) \in Int
<1> DEFINE n == Len(ns)
           F == CHOOSE f : f = [i \in 0..n |-> IF i = 0 THEN 0 ELSE f[i - 1] + ns[i]]
           g == [a \in Int \X (1..n) |-> a[1] + ns[a[2]]]
<1>1. Context!Sum(ns) = F[n]
  BY DEF Context!Sum
<1>2. n \in Nat /\ \A i \in 1..n : ns[i] \in Int
  BY ElementOfSeq
<1> HIDE DEF n
<1>3. g \in [Int \X (1..n) -> Int]
  <2>1. ASSUME NEW a \in Int \X (1..n) PROVE a[1] + ns[a[2]] \in Int
    <3>1. a[1] \in Int /\ a[2] \in 1..n
      OBVIOUS
    <3>2. ns[a[2]] \in Int
      BY <1>2, <3>1
    <3> QED BY <3>1, <3>2
  <2> QED BY <2>1
<1>4. PICK f \in [0..n -> Int] : f[0] = 0 /\ \A i \in 1..n : f[i] = g[<<f[i - 1], i>>]
  <2> DEFINE zero == 0
  <2>1. zero \in Int
    OBVIOUS
  <2> HIDE DEF g, zero
  <2>2. \E f \in [0..n -> Int] : Steps(f, n, zero, g)
    BY <1>2, <1>3, <2>1, RecursionExists
  <2> QED BY <2>2 DEF zero, Steps
<1>5. f = [i \in 0..n |-> IF i = 0 THEN 0 ELSE f[i - 1] + ns[i]]
  <2>1. ASSUME NEW i \in 0..n PROVE f[i] = IF i = 0 THEN 0 ELSE f[i - 1] + ns[i]
    <3>1. CASE i = 0
      BY <1>4, <3>1
    <3>2. CASE i \in 1..n
      <4>1. i # 0 /\ i - 1 \in 0..n
        BY <1>2, <3>2
      <4>2. <<f[i - 1], i>> \in Int \X (1..n)
        BY <1>4, <3>2, <4>1
      <4>3. g[<<f[i - 1], i>>] = f[i - 1] + ns[i]
        BY <4>2
      <4> HIDE DEF g
      <4> QED BY <1>4, <3>2, <4>1, <4>3
    <3> QED BY <1>2, <2>1, <3>1, <3>2
  <2>2. f = [i \in 0..n |-> f[i]]
    BY <1>4
  <2> QED BY <2>1, <2>2
<1>6. F = [i \in 0..n |-> IF i = 0 THEN 0 ELSE F[i - 1] + ns[i]]
  BY <1>5
<1> HIDE DEF F
<1> DEFINE P == {k \in 0..n : F[k] \in Int}
<1>7. 0 \in P
  BY <1>2, <1>6
<1>8. ASSUME NEW k \in 0..(n - 1), k \in P PROVE k + 1 \in P
  <2>1. k + 1 \in 0..n /\ k + 1 \in 1..n /\ k + 1 # 0 /\ (k + 1) - 1 = k
    BY <1>2, <1>8
  <2>2. F[k + 1] = F[k] + ns[k + 1]
    BY <1>6, <2>1
  <2> QED BY <1>2, <1>8, <2>1, <2>2
<1> HIDE DEF P
<1>9. n \in P
  <2>1. 0..n \subseteq P
    BY <1>2, <1>7, <1>8, IntervalInduction
  <2> QED BY <1>2, <2>1
<1> QED BY <1>1, <1>9 DEF P

\* The engine's measure is a number, so a request is within the limit or over it.
LEMMA MeasureIsInteger ==
  ASSUME NEW ms \in Seq(ContextMessages), NEW r \in Ratios
  PROVE  Context!Measure(ms, r) \in Int
<1> DEFINE ns == [i \in 1..Len(ms) |-> ms[i].size]
<1>1. ns \in Seq(Int)
  <2>1. \A i \in 1..Len(ms) : ms[i].size \in Int
    BY MessagesOf DEF ContextMessages
  <2>2. Len(ms) \in Nat
    BY MessagesOf
  <2>3. ns \in [1..Len(ms) -> Int]
    BY <2>1
  <2> QED BY <2>2, <2>3
<1> HIDE DEF ns
<1>2. Context!Sum(ns) \in Int
  BY <1>1, SumIsInteger
<1>3. Context!Chars(ms) \in Int
  BY <1>2 DEF Context!Chars, ns
<1>4. r \in Nat /\ r # 0
  BY ContextPartsAssumption DEF Context!ContextAssumption
<1> QED BY <1>3, <1>4 DEF Context!Measure

\* The messages of a Session are in their places, and a result stands behind
\* its call; the last summary ends before a user message.
ContextSummaries == [covered : Nat, source : Seq(ContextMessages), tail : Seq(ContextMessages)]
EndsBeforeUser(record) == record.covered # 0 => record.tail # <<>> /\ record.tail[1].role = "user"
SessionMessages ==
  /\ canonical \in Seq(ContextMessages) /\ Grouped(canonical)
  /\ \A i \in 1..Len(canonical) :
       /\ canonical[i].id = i /\ canonical[i].view = "full" /\ canonical[i].stands = {i}
       /\ canonical[i].calls \subseteq {i} \X Nat
ContextSession == SessionMessages /\ summary \in ContextSummaries /\ EndsBeforeUser(summary)

\* A Run works on a user message.
ContextRun ==
  /\ activeRequest \in Nat /\ ratio \in Ratios
  /\ at # "off" => \E i \in 1..Len(canonical) : canonical[i].role = "user"

\* Fit to be a request
Fit(ms) == SoundFor(ms, activeRequest, 1..Len(canonical), saved, Context!CallsOf(canonical))
Within(ms) == Context!Measure(ms, ratio) <= HardLimit

ContextJobs ==
  [base : Seq(ContextMessages), messages : Seq(ContextMessages), made : ContextSummaries,
   compaction : {"none", "running", "failed", "completed"}]
ContextJob ==
  /\ prepared \in ContextJobs /\ EndsBeforeUser(prepared.made)
  /\ at = "summary" => Fit(prepared.base) /\ Fit(prepared.messages)
  /\ at = "commit" => Fit(prepared.messages) /\ Within(prepared.messages)

ContextRequest == at = "model" => Fit(request) /\ Within(request)

\* What every step of the context engine keeps
ContextIInv == ContextSession /\ ContextRun /\ ContextJob /\ ContextRequest

LEMMA SessionIsTogether ==
  ASSUME SessionMessages
  PROVE  /\ Together(canonical, Context!CallsOf(canonical))
         /\ Covers(canonical, 1..Len(canonical), saved)
<1>1. Distinct(canonical)
  <2>1. ASSUME NEW i \in 1..Len(canonical), NEW j \in 1..Len(canonical), NEW c,
               c \in canonical[i].calls, c \in canonical[j].calls
        PROVE  i = j
    <3>1. c \in {i} \X Nat /\ c \in {j} \X Nat
      BY <2>1 DEF SessionMessages
    <3> QED BY <3>1
  <2> QED BY <2>1 DEF Distinct
<1>2. Answers(canonical, Context!CallsOf(canonical))
  BY DEF Answers
<1>3. Grouped(canonical)
  BY DEF SessionMessages
<1>4. Covers(canonical, 1..Len(canonical), saved)
  BY DEF Covers, SessionMessages
<1> QED BY <1>1, <1>2, <1>3, <1>4 DEF Together

\* Messages that neither call nor answer may follow.
LEMMA FollowedKeepsTogether ==
  ASSUME NEW ms \in Seq(ContextMessages), NEW e \in Seq(ContextMessages), NEW R, Together(ms, R),
         \A i \in 1..Len(e) : e[i].calls = {} /\ e[i].role # "tool", NEW ids, NEW kept, Covers(ms, ids, kept)
  PROVE  Together(ms \o e, R) /\ Covers(ms \o e, ids, kept)
<1> DEFINE out == ms \o e
           n == Len(ms)
           m == Len(out)
<1>1. Grouped(ms) /\ Distinct(ms) /\ Answers(ms, R)
  BY DEF Together
<1>2. n \in Nat /\ m \in Nat /\ n <= m
      /\ \A i \in 1..m : out[i] = IF i <= n THEN ms[i] ELSE e[i - n]
  <2>1. n \in Nat /\ Len(e) \in Nat
    BY MessagesOf
  <2>2. m = n + Len(e) /\ \A i \in 1..(n + Len(e)) : out[i] = IF i <= n THEN ms[i] ELSE e[i - n]
    BY ConcatProperties
  <2> HIDE DEF out, m, n
  <2> QED BY <2>1, <2>2
<1>3. m = n + Len(e) /\ Len(e) \in Nat
  BY MessagesOf, ConcatProperties
<1> HIDE DEF out, n, m
<1>4. \A i \in 1..n : i \in 1..m /\ out[i] = ms[i]
  BY <1>2
<1>5. ASSUME NEW i \in 1..m, i \notin 1..n PROVE out[i].calls = {} /\ out[i].role # "tool"
  <2>1. ~(i <= n) /\ i - n \in 1..Len(e)
    BY <1>2, <1>3, <1>5
  <2>2. out[i] = e[i - n]
    BY <1>2, <2>1
  <2> QED BY <2>1, <2>2
<1>6. ASSUME NEW i \in 1..m, out[i].role = "tool"
      PROVE  \E j \in 1..(i - 1) : out[i].of \in out[j].calls /\ \A u \in (j + 1)..i : out[u].role # "user"
  <2>1. i \in 1..n /\ ms[i].role = "tool"
    BY <1>4, <1>5, <1>6
  <2>2. PICK j \in 1..(i - 1) : ms[i].of \in ms[j].calls /\ \A u \in (j + 1)..i : ms[u].role # "user"
    BY <1>1, <2>1 DEF Grouped, n
  <2>3. j \in 1..n /\ \A u \in (j + 1)..i : u \in 1..n
    BY <1>2, <2>1, <2>2
  <2>4. \A u \in (j + 1)..i : out[u].role # "user"
    BY <1>4, <2>2, <2>3
  <2> QED BY <1>4, <2>1, <2>2, <2>3, <2>4
<1>7. ASSUME NEW i \in 1..m, NEW j \in 1..m, i # j PROVE out[i].calls \cap out[j].calls = {}
  <2>1. CASE i \in 1..n /\ j \in 1..n
    BY <1>1, <1>4, <1>7, <2>1 DEF Distinct, n
  <2>2. CASE i \notin 1..n \/ j \notin 1..n
    BY <1>5, <2>2
  <2> QED BY <2>1, <2>2
<1>8. ASSUME NEW i \in 1..m, NEW c \in out[i].calls \cap R PROVE c \in Context!CallsOf(out)
  <2>1. i \in 1..n /\ out[i] = ms[i]
    BY <1>4, <1>5, <1>8
  <2>2. c \in Context!CallsOf(ms)
    BY <1>1, <1>8, <2>1 DEF Answers, n
  <2>3. PICK j \in 1..n : ms[j].role = "tool" /\ ms[j].of = c
    BY <2>2, CallsOfThese DEF n
  <2>4. j \in 1..m /\ out[j] = ms[j]
    BY <1>4
  <2> QED BY <2>3, <2>4, CallsOfThese DEF m
<1>9. Grouped(out)
  BY <1>6 DEF Grouped, m
<1>10. Distinct(out)
  BY <1>7 DEF Distinct, m
<1>11. Answers(out, R)
  BY <1>8 DEF Answers, m
<1>12. Covers(out, ids, kept)
  <2>1. ASSUME NEW d \in ids
        PROVE  \E i \in 1..m : d \in out[i].stands /\ (out[i].view \in {"full", "summary"} \/ d \in kept)
    <3>1. PICK i \in 1..n : d \in ms[i].stands /\ (ms[i].view \in {"full", "summary"} \/ d \in kept)
      BY DEF Covers, n
    <3> QED BY <1>4, <3>1
  <2> QED BY <2>1 DEF Covers, m
<1> QED BY <1>9, <1>10, <1>11, <1>12 DEF Together, out

LEMMA PlainMessages ==
  /\ \A i \in Nat : LET u == Context!User(i) IN
       u \in ContextMessages /\ u.id = i /\ u.role = "user" /\ u.view = "full" /\ u.calls = {} /\ u.stands = {i}
  /\ LET u == Context!Assistant(0, 0) IN
       u \in ContextMessages /\ u.role = "assistant" /\ u.view = "full" /\ u.calls = {}
<1>1. ASSUME NEW i \in Nat
      PROVE  LET u == Context!User(i) IN
             u \in ContextMessages /\ u.id = i /\ u.role = "user" /\ u.view = "full" /\ u.calls = {} /\ u.stands = {i}
  <2>1. Context!User(i) = [id |-> i, role |-> "user", size |-> 1, calls |-> {}, of |-> <<>>,
                           view |-> "full", stands |-> {i}]
    BY DEF Context!User, Context!Message
  <2> QED BY <2>1 DEF ContextMessages, MessageViews
<1>2. LET u == Context!Assistant(0, 0) IN
        u \in ContextMessages /\ u.role = "assistant" /\ u.view = "full" /\ u.calls = {}
  <2>1. Context!Calls(0, 0) = {}
    BY DEF Context!Calls
  <2>2. Context!Assistant(0, 0) = [id |-> 0, role |-> "assistant", size |-> 1, calls |-> {}, of |-> <<>>,
                           view |-> "full", stands |-> {0}]
    BY <2>1 DEF Context!Assistant, Context!Message
  <2> QED BY <2>2 DEF ContextMessages, MessageViews
<1> QED BY <1>1, <1>2

\* What the loop passes in is fit to be a request.
LEMMA GivenIsFit ==
  ASSUME SessionMessages, activeRequest \in Nat, \E i \in 1..Len(canonical) : canonical[i].role = "user"
  PROVE  Fit(Context!Given)
<1> DEFINE R == Context!CallsOf(canonical)
           ids == 1..Len(canonical)
           order == IF continued THEN <<Context!Assistant(0, 0), Context!User(0)>> ELSE <<>>
           passed == canonical \o order
           users == {i \in 1..Len(passed) : passed[i].role = "user"}
           last == Context!Max(users)
           own == <<Context!User(activeRequest)>>
<1>1. order \in Seq(ContextMessages) /\ \A i \in 1..Len(order) : order[i].calls = {} /\ order[i].role # "tool"
                                                                /\ order[i].view = "full"
  <2>1. CASE continued
    <3> DEFINE x == Context!Assistant(0, 0)
               y == Context!User(0)
    <3>1. /\ x \in ContextMessages /\ x.calls = {} /\ x.role # "tool" /\ x.view = "full"
          /\ y \in ContextMessages /\ y.calls = {} /\ y.role # "tool" /\ y.view = "full"
      BY PlainMessages
    <3> HIDE DEF x, y
    <3>2. order = <<x, y>>
      BY <2>1 DEF x, y
    <3> HIDE DEF order
    <3>3. order \in Seq(ContextMessages) /\ Len(order) = 2 /\ order[1] = x /\ order[2] = y
      BY <3>1, <3>2
    <3> QED BY <3>1, <3>3
  <2>2. CASE ~continued
    <3>1. order = <<>>
      BY <2>2
    <3> HIDE DEF order
    <3>2. order \in Seq(ContextMessages) /\ Len(order) = 0
      BY <3>1
    <3> QED BY <3>2
  <2> QED BY <2>1, <2>2
<1>2. /\ own \in Seq(ContextMessages) /\ Len(own) = 1 /\ own[1].calls = {} /\ own[1].role = "user"
      /\ own[1].id = activeRequest /\ own[1].view = "full"
  <2> DEFINE u == Context!User(activeRequest)
  <2>1. u \in ContextMessages /\ u.calls = {} /\ u.role = "user" /\ u.id = activeRequest /\ u.view = "full"
    BY PlainMessages
  <2> HIDE DEF u
  <2>2. own = <<u>>
    BY DEF u
  <2> HIDE DEF own
  <2>3. own \in Seq(ContextMessages) /\ Len(own) = 1 /\ own[1] = u
    BY <2>1, <2>2
  <2> QED BY <2>1, <2>3
<1>3. canonical \in Seq(ContextMessages) /\ Together(canonical, R) /\ Covers(canonical, ids, saved)
  BY SessionIsTogether DEF SessionMessages
<1>4. Context!Given = IF passed[last].id = activeRequest THEN passed ELSE Append(passed, Context!User(activeRequest))
  BY DEF Context!Given
<1> HIDE DEF order, own, R, ids
<1>5. passed \in Seq(ContextMessages) /\ Together(passed, R) /\ Covers(passed, ids, saved)
  BY <1>1, <1>3, FollowedKeepsTogether, ConcatProperties
<1>6. /\ Len(passed) = Len(canonical) + Len(order) /\ Len(canonical) \in Nat /\ Len(order) \in Nat
      /\ \A i \in 1..(Len(canonical) + Len(order)) :
           passed[i] = IF i <= Len(canonical) THEN canonical[i] ELSE order[i - Len(canonical)]
  BY <1>1, <1>3, MessagesOf, ConcatProperties
<1>7. passed \o own \in Seq(ContextMessages) /\ Together(passed \o own, R) /\ Covers(passed \o own, ids, saved)
  <2>1. \A i \in 1..Len(own) : own[i].calls = {} /\ own[i].role # "tool"
    BY <1>2
  <2> HIDE DEF passed
  <2> QED BY <1>2, <1>5, <2>1, FollowedKeepsTogether, ConcatProperties
<1> HIDE DEF passed
<1>8. Append(passed, Context!User(activeRequest)) = passed \o own
  BY <1>5 DEF own
<1>9. \A i \in 1..Len(passed) : passed[i].view = "full"
  <2>1. ASSUME NEW i \in 1..Len(passed) PROVE passed[i].view = "full"
    <3>1. CASE i <= Len(canonical)
      BY <1>6, <3>1 DEF SessionMessages
    <3>2. CASE i > Len(canonical)
      <4>1. i - Len(canonical) \in 1..Len(order) /\ passed[i] = order[i - Len(canonical)]
        BY <1>6, <3>2
      <4> QED BY <1>1, <4>1
    <3> QED BY <1>6, <3>1, <3>2
  <2> QED BY <2>1
<1>10. /\ last \in 1..Len(passed) /\ passed[last].role = "user"
       /\ \A j \in (last + 1)..Len(passed) : passed[j].role # "user"
  <2>1. PICK i \in 1..Len(canonical) : canonical[i].role = "user"
    OBVIOUS
  <2>2. i \in 1..Len(passed) /\ passed[i] = canonical[i]
    BY <1>6, <2>1
  <2>3. i \in users /\ users \in SUBSET (1..Len(passed)) /\ Len(passed) \in Nat
    BY <1>6, <2>1, <2>2
  <2> HIDE DEF users
  <2>4. users \in SUBSET Int /\ IsFiniteSet(users)
    BY <2>3, PlacesAreFinite
  <2>5. last \in users /\ \A y \in users : last >= y
    BY <2>3, <2>4, MaxExists
  <2> HIDE DEF last
  <2>6. last \in 1..Len(passed) /\ passed[last].role = "user"
    BY <2>5 DEF users
  <2>7. ASSUME NEW j \in (last + 1)..Len(passed) PROVE passed[j].role # "user"
    <3>1. j \in 1..Len(passed) /\ ~(last >= j)
      BY <2>3, <2>6, <2>7
    <3>2. j \notin users
      BY <2>5, <3>1
    <3> QED BY <3>1, <3>2 DEF users
  <2> QED BY <2>6, <2>7
<1> HIDE DEF last
<1>11. CASE passed[last].id = activeRequest
  <2>1. Serves(passed, activeRequest)
    BY <1>9, <1>10, <1>11 DEF Serves
  <2> QED BY <1>4, <1>5, <1>11, <2>1 DEF Fit, SoundFor, R, ids
<1>12. CASE passed[last].id # activeRequest
  <2> DEFINE out == passed \o own
             k == Len(passed) + 1
  <2>1. Len(out) = Len(passed) + Len(own) /\ \A i \in 1..(Len(passed) + Len(own)) :
            out[i] = IF i <= Len(passed) THEN passed[i] ELSE own[i - Len(passed)]
    BY <1>2, <1>5, ConcatProperties
  <2>2. Len(passed) \in Nat
    BY <1>6
  <2> HIDE DEF out
  <2>3. k \in 1..Len(out) /\ out[k] = own[1] /\ Len(out) = k
    BY <1>2, <2>1, <2>2
  <2> HIDE DEF k
  <2>4. Serves(out, activeRequest)
    <3>1. \A j \in (k + 1)..Len(out) : out[j].role # "user"
      BY <2>3
    <3> QED BY <1>2, <2>3, <3>1 DEF Serves
  <2>5. Context!Given = out
    BY <1>4, <1>8, <1>12 DEF out
  <2> QED BY <1>7, <2>4, <2>5 DEF Fit, SoundFor, R, ids, out
<1> QED BY <1>11, <1>12

LEMMA MinOfTwo ==
  ASSUME NEW x \in Int, NEW y \in Int
  PROVE  Context!Min({x, y}) \in Int /\ Context!Min({x, y}) <= x
<1>1. \E z \in {x, y} : \A w \in {x, y} : z <= w
  BY Z3
<1> QED BY <1>1 DEF Context!Min

\* cachedSummaryView: nothing, or fit
LEMMA CachedIsFit ==
  ASSUME NEW ms, Fit(ms), summary \in ContextSummaries, EndsBeforeUser(summary),
         Context!CachedView(ms, summary) # <<>>
  PROVE  Fit(Context!CachedView(ms, summary))
<1> DEFINE n == summary.covered
           tail == SubSeq(ms, n + 1, Context!Min({Len(ms), n + Len(summary.tail)}))
<1>1. ms \in Seq(ContextMessages) /\ Len(ms) \in Nat
  BY MessagesOf DEF Fit, SoundFor
<1>2. n \in Nat /\ summary.tail \in Seq(ContextMessages) /\ Len(summary.tail) \in Nat
  BY MessagesOf DEF ContextSummaries
<1>3. /\ n # 0 /\ ~(n > Len(ms)) /\ tail = summary.tail
      /\ Context!CachedView(ms, summary) =
           <<Context!Standing("summary", UNION {ms[i].stands : i \in 1 .. n})>> \o Context!From(ms, n + 1)
  BY DEF Context!CachedView
<1>4. summary.tail # <<>> /\ summary.tail[1].role = "user"
  BY <1>3 DEF EndsBeforeUser
<1>5. Len(summary.tail) > 0
  BY <1>2, <1>4
<1> DEFINE z == Context!Min({Len(ms), n + Len(summary.tail)})
<1>6. z \in Int /\ z <= Len(ms)
  <2> DEFINE x == Len(ms)
             y == n + Len(summary.tail)
  <2>1. x \in Int /\ y \in Int
    BY <1>1, <1>2
  <2> HIDE DEF x, y
  <2>2. Context!Min({x, y}) \in Int /\ Context!Min({x, y}) <= x
    BY <2>1, MinOfTwo
  <2> QED BY <2>2 DEF x, y
<1>7. summary.tail = SubSeq(ms, n + 1, z)
  BY <1>3
<1> HIDE DEF z, tail
<1>8. n + 1 <= z
  <2>1. CASE n + 1 > z
    <3> DEFINE sub == SubSeq(ms, n + 1, z)
    <3>1. Len(sub) = 0
      BY <1>1, <1>2, <1>6, <2>1
    <3>2. summary.tail = sub
      BY <1>7
    <3> HIDE DEF sub
    <3> QED BY <1>5, <3>1, <3>2
  <2> QED BY <1>2, <1>6, <2>1
<1>9. n + 1 \in 1..Len(ms)
  BY <1>1, <1>2, <1>6, <1>8
<1>10. ms[n + 1].role = "user"
  <2>1. SubSeq(ms, n + 1, z)[1] = ms[n + 1]
    BY <1>1, <1>2, <1>6, <1>8
  <2> QED BY <1>4, <1>7, <2>1
<1> HIDE DEF n
<1>11. Fit(<<Context!Standing("summary", UNION {ms[i].stands : i \in 1 .. n})>> \o Context!From(ms, n + 1))
  BY <1>2, <1>9, <1>10, SummarisedIsSound DEF Fit, n
<1> QED BY <1>3, <1>11 DEF n

LEMMA MoreIsKept ==
  ASSUME NEW ms, NEW a, NEW ids, NEW kept, NEW R, SoundFor(ms, a, ids, kept, R), NEW more, kept \subseteq more
  PROVE  SoundFor(ms, a, ids, more, R)
BY DEF SoundFor, Covers

LEMMA NoSummaryEnds == Context!NoSummary \in ContextSummaries /\ EndsBeforeUser(Context!NoSummary)
<1> DEFINE empty == <<>>
<1>1. Context!NoSummary = [covered |-> 0, source |-> empty, tail |-> empty] /\ empty \in Seq(ContextMessages)
  BY DEF Context!NoSummary
<1> HIDE DEF empty
<1> QED BY <1>1 DEF ContextSummaries, EndsBeforeUser

LEMMA ContextInitially == Context!Init => ContextIInv
<1> SUFFICES ASSUME Context!Init PROVE ContextIInv
  OBVIOUS
<1>1. /\ canonical = <<>> /\ summary = Context!NoSummary /\ at = "off" /\ activeRequest = 0 /\ ratio = 1
      /\ prepared = Context!NoJob
  BY DEF Context!Init
<1>2. SessionMessages
  <2>1. canonical \in Seq(ContextMessages) /\ Len(canonical) = 0
    BY <1>1
  <2> QED BY <2>1 DEF SessionMessages, Grouped
<1>3. ContextRun
  BY <1>1, ContextPartsAssumption DEF ContextRun, Context!ContextAssumption
<1>4. ContextJob
  <2> DEFINE empty == <<>>
  <2>1. prepared = [base |-> empty, messages |-> empty, made |-> Context!NoSummary, compaction |-> "none"]
        /\ empty \in Seq(ContextMessages)
    BY <1>1 DEF Context!NoJob
  <2> HIDE DEF empty
  <2>2. prepared \in ContextJobs /\ prepared.made = Context!NoSummary
    BY <2>1, NoSummaryEnds DEF ContextJobs
  <2> QED BY <1>1, <2>2, NoSummaryEnds DEF ContextJob
<1> QED BY <1>1, <1>2, <1>3, <1>4, NoSummaryEnds DEF ContextIInv, ContextSession, ContextRequest

\* The three layers, one after the other
LEMMA LayersAreFit ==
  ASSUME NEW ms, Fit(ms), NEW lost, NEW more, saved \subseteq more,
         NEW large, large = Context!LargeToolResults(ms, lost), large.stored \subseteq more,
         NEW middle, middle = Context!ArchiveMiddle(large.messages, lost), middle.stored \subseteq more,
         NEW old, old = Context!OldToolResults(middle.messages, seen, ratio, lost), old.stored \subseteq more
  PROVE  /\ SoundFor(large.messages, activeRequest, 1..Len(canonical), more, Context!CallsOf(canonical))
         /\ SoundFor(old.messages, activeRequest, 1..Len(canonical), more, Context!CallsOf(canonical))
<1> DEFINE ids == 1..Len(canonical)
           R == Context!CallsOf(canonical)
<1> HIDE DEF ids, R
<1>1. SoundFor(ms, activeRequest, ids, more, R) /\ ms \in Seq(ContextMessages)
  <2>1. SoundFor(ms, activeRequest, ids, saved, R)
    BY DEF Fit, ids, R
  <2> QED BY <2>1, MoreIsKept DEF SoundFor
<1>2. Layered(ms, large.messages, large.stored)
  BY <1>1, LargeResultsAreLayered
<1>3. SoundFor(large.messages, activeRequest, ids, more, R)
  BY <1>1, <1>2, LayeredIsSound
<1>4. SoundFor(middle.messages, activeRequest, ids, more, R)
  BY <1>3, ArchiveIsSound
<1>5. middle.messages \in Seq(ContextMessages)
  BY <1>4 DEF SoundFor
<1>6. Layered(middle.messages, old.messages, old.stored)
  BY <1>5, OldResultsAreLayered
<1>7. SoundFor(old.messages, activeRequest, ids, more, R)
  BY <1>4, <1>6, LayeredIsSound
<1> QED BY <1>3, <1>7 DEF ids, R

LEMMA PrepareKeepsFit ==
  ASSUME ContextIInv, NEW lost, Context!Prepare(lost) PROVE ContextIInv'
<1>0. ContextSession /\ ContextRun /\ ContextJob /\ ContextRequest
  BY DEF ContextIInv
<1> DEFINE given == Context!Given
           view == IF forced THEN <<>> ELSE Context!CachedView(given, summary)
           ms == IF view = <<>> THEN given ELSE view
           large == Context!LargeToolResults(ms, lost)
           middle == Context!ArchiveMiddle(large.messages, lost)
           old == Context!OldToolResults(middle.messages, seen, ratio, lost)
           base == IF view # <<>> THEN given
                   ELSE IF middle.archived THEN large.messages ELSE old.messages
           needsSummary == forced \/ Context!Measure(old.messages, ratio) > HardLimit
<1>1. /\ at = "prepare"
      /\ saved' = saved \union large.stored \union middle.stored \union old.stored
      /\ prepared' = [base |-> base, messages |-> old.messages, made |-> Context!NoSummary,
                      compaction |-> IF needsSummary THEN "running" ELSE "none"]
      /\ at' = IF needsSummary THEN "summary" ELSE "commit"
      /\ UNCHANGED <<canonical, seen, summary, activeRequest, continued, recovered, ratio, request>>
  BY DEF Context!Prepare
<1>2. /\ canonical' = canonical /\ summary' = summary /\ activeRequest' = activeRequest /\ ratio' = ratio
  BY <1>1
<1>3. Fit(given)
  <2>1. SessionMessages /\ activeRequest \in Nat /\ \E i \in 1..Len(canonical) : canonical[i].role = "user"
    BY <1>0, <1>1 DEF ContextSession, ContextRun
  <2> QED BY <2>1, GivenIsFit
<1>4. Fit(ms)
  <2> HIDE DEF given
  <2>1. CASE view = <<>>
    BY <1>3, <2>1
  <2>2. CASE view # <<>>
    <3>1. view = Context!CachedView(given, summary)
      BY <2>2
    <3>2. Fit(view)
      BY <1>0, <1>3, <2>2, <3>1, CachedIsFit DEF ContextSession
    <3> HIDE DEF view
    <3> QED BY <2>2, <3>2
  <2> QED BY <2>1, <2>2
<1> DEFINE more == saved \union large.stored \union middle.stored \union old.stored
           ids == 1..Len(canonical)
           R == Context!CallsOf(canonical)
<1>5. SoundFor(large.messages, activeRequest, ids, more, R) /\ SoundFor(old.messages, activeRequest, ids, more, R)
  <2> HIDE DEF ms
  <2> QED BY <1>4, LayersAreFit
<1>6. SoundFor(given, activeRequest, ids, more, R)
  <2> HIDE DEF given, large, middle, old
  <2> QED BY <1>3, MoreIsKept DEF Fit
<1> HIDE DEF given, view, ms, large, middle, old, ids, R
<1>7. SoundFor(base, activeRequest, ids, more, R)
  BY <1>5, <1>6
<1>8. saved' = more
  BY <1>1
<1> HIDE DEF base, more
<1>9. Fit(prepared.base)' /\ Fit(prepared.messages)'
  <2>1. prepared'.base = base /\ prepared'.messages = old.messages
    BY <1>1
  <2> QED BY <1>2, <1>5, <1>7, <1>8, <2>1 DEF Fit, ids, R
<1>10. prepared' \in ContextJobs /\ prepared'.made = Context!NoSummary
  <2>1. base \in Seq(ContextMessages) /\ old.messages \in Seq(ContextMessages)
    BY <1>5, <1>7 DEF SoundFor
  <2> HIDE DEF needsSummary
  <2> QED BY <1>1, <2>1, NoSummaryEnds DEF ContextJobs
<1>11. at' = "commit" => Within(prepared.messages)'
  <2>1. SUFFICES ASSUME at' = "commit" PROVE Within(prepared.messages)'
    OBVIOUS
  <2>2. ~needsSummary
    <3> HIDE DEF needsSummary
    <3> QED BY <1>1, <2>1
  <2>3. old.messages \in Seq(ContextMessages) /\ ratio \in Ratios
    BY <1>0, <1>5 DEF SoundFor, ContextRun
  <2>4. Context!Measure(old.messages, ratio) \in Int
    BY <2>3, MeasureIsInteger
  <2>5. Context!Measure(old.messages, ratio) <= HardLimit
    BY <2>2, <2>4, ContextPartsAssumption DEF Context!ContextAssumption, Context!ValidPolicy
  <2>6. prepared'.messages = old.messages
    BY <1>1
  <2> QED BY <1>2, <2>5, <2>6 DEF Within
<1>12. ContextSession'
  BY <1>0, <1>2 DEF ContextSession, SessionMessages, Grouped, EndsBeforeUser
<1>13. ContextRun'
  BY <1>0, <1>1, <1>2 DEF ContextRun
<1>14. at' # "model"
  BY <1>1
<1> QED BY <1>9, <1>10, <1>11, <1>12, <1>13, <1>14, NoSummaryEnds
        DEF ContextIInv, ContextJob, ContextRequest

\* The Session is left alone, and no request is made or sent.
LEMMA NothingMade ==
  ASSUME ContextIInv, UNCHANGED <<canonical, summary, prepared>>, activeRequest' \in Nat, ratio' \in Ratios,
         at' \in {"off", "prepare", "boundary"}, at = "off" => at' = "off"
  PROVE  ContextIInv'
<1>0. ContextSession /\ ContextRun /\ ContextJob
  BY DEF ContextIInv
<1>1. canonical' = canonical /\ summary' = summary /\ prepared' = prepared
  OBVIOUS
<1>2. ContextSession'
  BY <1>0, <1>1 DEF ContextSession, SessionMessages, Grouped, EndsBeforeUser
<1>3. ContextRun'
  BY <1>0, <1>1 DEF ContextRun
<1>4. ContextJob'
  BY <1>0, <1>1 DEF ContextJob, EndsBeforeUser
<1> QED BY <1>2, <1>3, <1>4 DEF ContextIInv, ContextRequest

LEMMA JobForgotten ==
  ASSUME prepared' = Context!NoJob
  PROVE  prepared' \in ContextJobs /\ EndsBeforeUser(prepared.made)'
<1> DEFINE empty == <<>>
<1>1. prepared' = [base |-> empty, messages |-> empty, made |-> Context!NoSummary, compaction |-> "none"]
      /\ empty \in Seq(ContextMessages)
  BY DEF Context!NoJob
<1> HIDE DEF empty
<1>2. prepared' \in ContextJobs /\ prepared'.made = Context!NoSummary
  BY <1>1, NoSummaryEnds DEF ContextJobs
<1> QED BY <1>2, NoSummaryEnds DEF EndsBeforeUser

LEMMA OverKeepsFit ==
  ASSUME ContextIInv, Context!Over, UNCHANGED <<canonical, summary, ratio>> PROVE ContextIInv'
<1>0. ContextSession /\ ContextRun
  BY DEF ContextIInv
<1>1. /\ canonical' = canonical /\ summary' = summary /\ ratio' = ratio /\ at' = "off"
      /\ activeRequest' = 0 /\ prepared' = Context!NoJob
  BY DEF Context!Over
<1>2. ContextSession'
  BY <1>0, <1>1 DEF ContextSession, SessionMessages, Grouped, EndsBeforeUser
<1>3. ContextRun'
  BY <1>0, <1>1 DEF ContextRun
<1>4. ContextJob'
  BY <1>1, JobForgotten DEF ContextJob
<1> QED BY <1>1, <1>2, <1>3, <1>4 DEF ContextIInv, ContextRequest

LEMMA SummaryFailsKeepsFit ==
  ASSUME ContextIInv, Context!SummaryFails PROVE ContextIInv'
<1>0. ContextSession /\ ContextRun /\ ContextJob /\ at = "summary"
  BY DEF ContextIInv, Context!SummaryFails
<1>1. CASE Context!EndRun
  BY <1>1, OverKeepsFit DEF Context!EndRun, Context!session
<1>2. CASE ~Context!EndRun
  <2>1. /\ ~(Context!Measure(prepared.messages, ratio) > HardLimit)
        /\ prepared' = [prepared EXCEPT !.compaction = "failed"] /\ at' = "commit"
        /\ UNCHANGED <<canonical, saved, summary, activeRequest, ratio, request>>
    BY <1>2 DEF Context!SummaryFails, Context!session, Context!turn
  <2>2. /\ canonical' = canonical /\ summary' = summary /\ ratio' = ratio /\ saved' = saved
        /\ activeRequest' = activeRequest
    BY <2>1
  <2>3. prepared \in ContextJobs
    BY <1>0 DEF ContextJob
  <2>4. prepared' \in ContextJobs /\ prepared'.messages = prepared.messages /\ prepared'.made = prepared.made
    BY <2>1, <2>3 DEF ContextJobs
  <2>5. Fit(prepared.messages) /\ EndsBeforeUser(prepared.made)
    BY <1>0 DEF ContextJob
  <2>6. Fit(prepared.messages)'
    BY <2>2, <2>4, <2>5 DEF Fit
  <2>7. EndsBeforeUser(prepared.made)'
    BY <2>4, <2>5 DEF EndsBeforeUser
  <2>8. Within(prepared.messages)'
    <3>1. prepared.messages \in Seq(ContextMessages) /\ ratio \in Ratios
      BY <1>0, <2>3 DEF ContextJobs, ContextRun
    <3>2. Context!Measure(prepared.messages, ratio) \in Int
      BY <3>1, MeasureIsInteger
    <3>3. Context!Measure(prepared.messages, ratio) <= HardLimit
      BY <2>1, <3>2, ContextPartsAssumption DEF Context!ContextAssumption, Context!ValidPolicy
    <3> QED BY <2>2, <2>4, <3>3 DEF Within
  <2>9. ContextSession'
    BY <1>0, <2>2 DEF ContextSession, SessionMessages, Grouped, EndsBeforeUser
  <2>10. ContextRun'
    BY <1>0, <2>2 DEF ContextRun
  <2> QED BY <2>1, <2>4, <2>6, <2>7, <2>8, <2>9, <2>10 DEF ContextIInv, ContextJob, ContextRequest
<1> QED BY <1>1, <1>2

LEMMA SummarizeKeepsFit ==
  ASSUME ContextIInv, NEW lost, Context!Summarize(lost) PROVE ContextIInv'
<1>0. ContextSession /\ ContextRun /\ ContextJob /\ at = "summary"
  BY DEF ContextIInv, Context!Summarize
<1> DEFINE base == prepared.base
           cut == Context!TailSegment(base, ratio) - 1
           source == SubSeq(base, 1, cut)
           tail == Context!From(base, cut + 1)
           summed == UNION {source[i].stands : i \in 1 .. cut}
           stored == UNION {source[i].stands :
                       i \in {j \in 1 .. cut : source[j].size > LargeToolResultChars /\ Context!Persist(source[j], lost)}}
           sent == <<Context!Standing("summary", summed)>> \o tail
           large == Context!LargeToolResults(sent, lost)
<1>1. /\ Context!Starts(base) \ {1} # {}
      /\ saved' = saved \union stored \union large.stored
      /\ IF Context!Measure(large.messages, ratio) > HardLimit
         THEN Context!Over
         ELSE /\ at' = "commit" /\ UNCHANGED Context!turn
              /\ prepared' = [prepared EXCEPT !.messages = large.messages, !.compaction = "completed",
                                              !.made = [covered |-> cut, source |-> source, tail |-> tail]]
      /\ UNCHANGED <<canonical, seen, summary, ratio, request>>
  BY DEF Context!Summarize
<1>2. /\ canonical' = canonical /\ summary' = summary /\ ratio' = ratio
  BY <1>1
<1>3. CASE Context!Over
  BY <1>2, <1>3, OverKeepsFit
<1>4. CASE ~Context!Over
  <2>1. /\ ~(Context!Measure(large.messages, ratio) > HardLimit)
        /\ at' = "commit" /\ activeRequest' = activeRequest
        /\ prepared' = [prepared EXCEPT !.messages = large.messages, !.compaction = "completed",
                                        !.made = [covered |-> cut, source |-> source, tail |-> tail]]
    <3> HIDE DEF large, cut, source, tail
    <3> QED BY <1>1, <1>4 DEF Context!turn
  <2>2. prepared \in ContextJobs /\ Fit(base)
    BY <1>0 DEF ContextJob
  <2>3. base \in Seq(ContextMessages)
    BY <2>2 DEF Fit, SoundFor
  <2> HIDE DEF base
  <2>4. cut + 1 \in 2..Len(base) /\ base[cut + 1].role = "user" /\ cut \in Nat /\ Len(base) \in Nat
    <3> DEFINE T == {k \in Context!Starts(base) \ {1} : \/ k = Context!Max(Context!Starts(base))
                                                       \/ Context!Measure(Context!From(base, k), ratio) <= SummaryTarget}
               z == Context!Min(T)
    <3>1. Context!Max(Context!Starts(base)) \in Context!Starts(base) \ {1}
      BY <1>1, <2>3, LastSegment
    <3>2. T # {} /\ T \in SUBSET (Context!Starts(base) \ {1})
      BY <3>1
    <3>3. Context!TailSegment(base, ratio) = z
      BY DEF Context!TailSegment
    <3> HIDE DEF T
    <3>4. z \in 2..Len(base) /\ base[z].role = "user"
      BY <2>3, <3>2, FirstOfThese
    <3>5. Len(base) \in Nat
      BY <2>3, MessagesOf
    <3> HIDE DEF z
    <3>6. cut = z - 1 /\ cut + 1 = z
      BY <3>3, <3>4
    <3> QED BY <3>4, <3>5, <3>6
  <2> HIDE DEF cut
  <2>5. source \in Seq(ContextMessages) /\ \A i \in 1..cut : source[i] = base[i]
    <3>1. \A i \in 1..cut : base[i] \in ContextMessages
      BY <2>3, <2>4, MessagesOf
    <3>2. source \in Seq(ContextMessages)
      BY <2>4, <3>1
    <3>3. \A i \in 1..cut : source[i] = base[i]
      BY <2>4
    <3> QED BY <3>2, <3>3
  <2>6. tail \in Seq(ContextMessages) /\ tail # <<>> /\ tail[1].role = "user"
    <3>1. cut + 1 \in 1..(Len(base) + 1)
      BY <2>4
    <3>2. tail \in Seq(ContextMessages) /\ Len(tail) = Len(base) - (cut + 1) + 1
          /\ \A i \in 1..(Len(base) - (cut + 1) + 1) : tail[i] = base[(cut + 1) + i - 1]
      BY <2>3, <3>1, FromElements
    <3> HIDE DEF tail
    <3>3. Len(tail) >= 1 /\ 1 \in 1..(Len(base) - (cut + 1) + 1) /\ (cut + 1) + 1 - 1 = cut + 1
      BY <2>4, <3>2
    <3>4. tail[1] = base[cut + 1]
      BY <3>2, <3>3
    <3>5. tail # <<>>
      BY <3>2, <3>3
    <3> QED BY <2>4, <3>2, <3>4, <3>5
  <2>7. Fit(sent)
    <3>1. summed = UNION {base[i].stands : i \in 1..cut}
      <4> HIDE DEF source
      <4> QED BY <2>5
    <3>2. cut + 1 \in 1..Len(base)
      BY <2>4
    <3> QED BY <2>2, <2>4, <3>1, <3>2, SummarisedIsSound DEF Fit
  <2> DEFINE more == saved \union stored \union large.stored
             ids == 1..Len(canonical)
             R == Context!CallsOf(canonical)
  <2> HIDE DEF source, tail, sent, stored, ids, R
  <2>8. Layered(sent, large.messages, large.stored)
    BY <2>7, LargeResultsAreLayered DEF Fit, SoundFor
  <2> HIDE DEF large
  <2>9. SoundFor(large.messages, activeRequest, ids, more, R)
    <3>1. SoundFor(sent, activeRequest, ids, saved, R)
      BY <2>7 DEF Fit, ids, R
    <3> QED BY <2>8, <3>1, LayeredIsSound
  <2> DEFINE new == [covered |-> cut, source |-> source, tail |-> tail]
             msgs == large.messages
  <2>10. msgs \in Seq(ContextMessages)
    BY <2>9 DEF SoundFor
  <2>11. new \in ContextSummaries /\ EndsBeforeUser(new)
    BY <2>4, <2>5, <2>6 DEF ContextSummaries, EndsBeforeUser
  <2> HIDE DEF new, msgs
  <2>12. prepared' = [prepared EXCEPT !.messages = msgs, !.compaction = "completed", !.made = new]
    BY <2>1 DEF new, msgs
  <2>13. prepared' \in ContextJobs /\ prepared'.messages = msgs /\ prepared'.made = new
    BY <2>2, <2>10, <2>11, <2>12 DEF ContextJobs
  <2>14. Fit(prepared.messages)'
    <3>1. saved' = more
      BY <1>1
    <3> HIDE DEF more
    <3> QED BY <1>2, <2>1, <2>9, <2>13, <3>1 DEF Fit, ids, R, msgs
  <2>15. Within(prepared.messages)'
    <3>1. Context!Measure(msgs, ratio) \in Int
      BY <1>0, <2>10, MeasureIsInteger DEF ContextRun
    <3>2. ~(Context!Measure(msgs, ratio) > HardLimit)
      BY <2>1 DEF msgs
    <3>3. Context!Measure(msgs, ratio) <= HardLimit
      BY <3>1, <3>2, ContextPartsAssumption DEF Context!ContextAssumption, Context!ValidPolicy
    <3> QED BY <1>2, <2>13, <3>3 DEF Within
  <2>16. EndsBeforeUser(prepared.made)'
    BY <2>11, <2>13 DEF EndsBeforeUser
  <2>17. ContextSession'
    BY <1>0, <1>2 DEF ContextSession, SessionMessages, Grouped, EndsBeforeUser
  <2>18. ContextRun'
    BY <1>0, <1>2, <2>1 DEF ContextRun
  <2> QED BY <2>1, <2>13, <2>14, <2>15, <2>16, <2>17, <2>18 DEF ContextIInv, ContextJob, ContextRequest
<1> QED BY <1>3, <1>4

LEMMA CommitKeepsFit ==
  ASSUME ContextIInv, Context!CommitContext PROVE ContextIInv'
<1>0. ContextSession /\ ContextRun /\ ContextJob
  BY DEF ContextIInv
<1>1. /\ at = "commit" /\ at' = "model"
      /\ summary' = IF prepared.made = Context!NoSummary THEN summary ELSE prepared.made
      /\ request' = prepared.messages /\ prepared' = Context!NoJob
      /\ UNCHANGED <<canonical, saved, activeRequest, ratio>>
  BY DEF Context!CommitContext, Context!turn
<1>2. canonical' = canonical /\ saved' = saved /\ activeRequest' = activeRequest /\ ratio' = ratio
  BY <1>1
<1>3. /\ prepared.made \in ContextSummaries /\ EndsBeforeUser(prepared.made)
      /\ Fit(prepared.messages) /\ Within(prepared.messages)
  <2>1. prepared \in ContextJobs
    BY <1>0 DEF ContextJob
  <2>2. prepared.made \in ContextSummaries
    BY <2>1 DEF ContextJobs
  <2> QED BY <1>0, <1>1, <2>2 DEF ContextJob
<1>4. ContextSession'
  <2>1. summary' \in ContextSummaries /\ EndsBeforeUser(summary)'
    BY <1>0, <1>1, <1>3 DEF ContextSession, EndsBeforeUser
  <2> QED BY <1>0, <1>2, <2>1 DEF ContextSession, SessionMessages, Grouped
<1>5. ContextRun'
  BY <1>0, <1>1, <1>2 DEF ContextRun
<1>6. ContextJob'
  BY <1>1, JobForgotten DEF ContextJob
<1>7. Fit(request)' /\ Within(request)'
  BY <1>1, <1>2, <1>3 DEF Fit, Within
<1> QED BY <1>4, <1>5, <1>6, <1>7 DEF ContextIInv, ContextRequest

\* The message i comes after the first n, and answers none of them.
Joins(ms, i, n) ==
  /\ ms[i].id = i /\ ms[i].view = "full" /\ ms[i].stands = {i} /\ ms[i].calls \subseteq {i} \X Nat
  /\ ms[i].role = "tool" =>
       \E j \in (n + 1)..(i - 1) : ms[i].of \in ms[j].calls /\ \A u \in (j + 1)..i : ms[u].role # "user"

LEMMA SessionGrows ==
  ASSUME SessionMessages, NEW ms \in Seq(ContextMessages), canonical' = ms, Len(canonical) <= Len(ms),
         \A i \in 1..Len(canonical) : ms[i] = canonical[i],
         \A i \in (Len(canonical) + 1)..Len(ms) : Joins(ms, i, Len(canonical))
  PROVE  SessionMessages'
<1> DEFINE n == Len(canonical)
           m == Len(ms)
<1>1. n \in Nat /\ m \in Nat /\ n <= m /\ Grouped(canonical)
  BY MessagesOf DEF SessionMessages
<1>2. ASSUME NEW i \in 1..m
      PROVE  /\ ms[i].id = i /\ ms[i].view = "full" /\ ms[i].stands = {i} /\ ms[i].calls \subseteq {i} \X Nat
             /\ ms[i].role = "tool" =>
                  \E j \in 1..(i - 1) : ms[i].of \in ms[j].calls /\ \A u \in (j + 1)..i : ms[u].role # "user"
  <2>1. CASE i <= n
    <3>1. i \in 1..n /\ ms[i] = canonical[i]
      BY <1>1, <2>1
    <3>2. ASSUME ms[i].role = "tool"
          PROVE  \E j \in 1..(i - 1) : ms[i].of \in ms[j].calls /\ \A u \in (j + 1)..i : ms[u].role # "user"
      <4>1. PICK j \in 1..(i - 1) : canonical[i].of \in canonical[j].calls
                                    /\ \A u \in (j + 1)..i : canonical[u].role # "user"
        BY <1>1, <3>1, <3>2 DEF Grouped
      <4>2. j \in 1..n /\ \A u \in (j + 1)..i : u \in 1..n
        BY <1>1, <3>1, <4>1
      <4>3. ms[j] = canonical[j] /\ \A u \in (j + 1)..i : ms[u] = canonical[u]
        BY <4>2
      <4> QED BY <3>1, <4>1, <4>3
    <3> QED BY <3>1, <3>2 DEF SessionMessages
  <2>2. CASE i > n
    <3>1. i \in (n + 1)..m
      BY <1>1, <2>2
    <3>2. Joins(ms, i, n)
      BY <3>1
    <3>3. \A j \in (n + 1)..(i - 1) : j \in 1..(i - 1)
      BY <1>1, <3>1
    <3> QED BY <3>2, <3>3 DEF Joins
  <2> QED BY <1>1, <2>1, <2>2
<1>3. Grouped(ms)
  BY <1>2 DEF Grouped
<1> QED BY <1>2, <1>3 DEF SessionMessages

\* A user message joins the Session.
LEMMA UserJoins ==
  ASSUME SessionMessages, canonical' = Append(canonical, Context!User(Len(canonical) + 1))
  PROVE  /\ SessionMessages' /\ Len(canonical) \in Nat
         /\ \E i \in 1..Len(canonical') : canonical'[i].role = "user"
<1> DEFINE n == Len(canonical)
           u == Context!User(n + 1)
           ms == Append(canonical, u)
<1>1. n \in Nat /\ canonical \in Seq(ContextMessages)
  BY MessagesOf DEF SessionMessages
<1>2. /\ u \in ContextMessages /\ u.id = n + 1 /\ u.role = "user" /\ u.view = "full"
      /\ u.calls = {} /\ u.stands = {n + 1}
  <2> HIDE DEF n
  <2>1. n + 1 \in Nat
    BY <1>1
  <2> QED BY <2>1, PlainMessages
<1> HIDE DEF u
<1>3. canonical' = ms
  BY DEF u
<1>4. /\ ms \in Seq(ContextMessages) /\ Len(ms) = n + 1 /\ ms[n + 1] = u
      /\ \A i \in 1..n : ms[i] = canonical[i]
  BY <1>1, <1>2
<1> HIDE DEF ms, n
<1>5. \A i \in (n + 1)..Len(ms) : Joins(ms, i, n)
  BY <1>1, <1>2, <1>4 DEF Joins
<1>6. SessionMessages'
  <2>1. /\ Len(canonical) <= Len(ms) /\ \A i \in 1..Len(canonical) : ms[i] = canonical[i]
        /\ \A i \in (Len(canonical) + 1)..Len(ms) : Joins(ms, i, Len(canonical))
    BY <1>1, <1>4, <1>5 DEF n
  <2> QED BY <1>4, <1>3, <2>1, SessionGrows
<1>7. n + 1 \in 1..Len(ms) /\ ms[n + 1].role = "user"
  BY <1>1, <1>2, <1>4
<1> QED BY <1>1, <1>6, <1>7, <1>3 DEF n

LEMMA BeginKeepsFit ==
  ASSUME ContextIInv, Context!BeginRun \/ \E u \in BOOLEAN : Context!ApplySteer(u) PROVE ContextIInv'
<1>0. ContextSession /\ ContextRun /\ ContextJob /\ SessionMessages
  BY DEF ContextIInv, ContextSession
<1>1. /\ canonical' = Append(canonical, Context!User(Len(canonical) + 1))
      /\ activeRequest' \in {activeRequest, Len(canonical) + 1} /\ at' = "prepare"
      /\ UNCHANGED <<summary, ratio, prepared>>
  BY DEF Context!BeginRun, Context!ApplySteer
<1>2. summary' = summary /\ ratio' = ratio /\ prepared' = prepared
  BY <1>1
<1>3. /\ SessionMessages' /\ Len(canonical) \in Nat
      /\ \E i \in 1..Len(canonical') : canonical'[i].role = "user"
  BY <1>0, <1>1, UserJoins
<1>4. ContextSession'
  BY <1>0, <1>2, <1>3 DEF ContextSession, EndsBeforeUser
<1>5. ContextRun'
  BY <1>0, <1>1, <1>2, <1>3 DEF ContextRun
<1>6. ContextJob'
  BY <1>0, <1>1, <1>2 DEF ContextJob, EndsBeforeUser
<1> QED BY <1>1, <1>4, <1>5, <1>6 DEF ContextIInv, ContextRequest

LEMMA AssistantMessage ==
  ASSUME NEW id \in Nat, NEW n \in Nat, NEW m, m = Context!Assistant(id, n)
  PROVE  /\ m \in ContextMessages /\ m.id = id /\ m.role = "assistant" /\ m.view = "full"
         /\ m.calls = Context!Calls(id, n) /\ m.stands = {id}
<1> DEFINE calling == Context!Calls(id, n)
<1>1. calling \in SUBSET (Nat \X Nat)
  BY DEF Context!Calls
<1> HIDE DEF calling
<1>2. m = [id |-> id, role |-> "assistant", size |-> 1, calls |-> calling, of |-> <<>>,
           view |-> "full", stands |-> {id}]
  BY DEF Context!Assistant, Context!Message, calling
<1> QED BY <1>1, <1>2 DEF ContextMessages, MessageViews, calling

LEMMA ResultMessage ==
  ASSUME NEW place \in Nat, NEW of \in Nat \X Nat, NEW size \in ResultSizes,
         NEW m, m = Context!Result(place, of, size)
  PROVE  /\ m \in ContextMessages /\ m.id = place /\ m.role = "tool" /\ m.view = "full"
         /\ m.calls = {} /\ m.of = of /\ m.stands = {place}
<1>1. size \in Int
  BY ContextPartsAssumption DEF Context!ContextAssumption
<1>2. m = [id |-> place, role |-> "tool", size |-> size, calls |-> {}, of |-> of,
           view |-> "full", stands |-> {place}]
  BY DEF Context!Result, Context!Message
<1> QED BY <1>1, <1>2 DEF ContextMessages, MessageViews

\* An answer and the results of its calls, or of the first of them, join the Session.
LEMMA AnswerJoins ==
  ASSUME SessionMessages, NEW n \in Nat, NEW c \in 0..n, NEW sizes \in [1..c -> ResultSizes],
         NEW results, results = [k \in 1..c |-> Context!Result(Len(canonical) + 1 + k, <<Len(canonical) + 1, k>>, sizes[k])],
         canonical' = Append(canonical, Context!Assistant(Len(canonical) + 1, n)) \o results
  PROVE  /\ SessionMessages' /\ Len(canonical) <= Len(canonical')
         /\ \A i \in 1..Len(canonical) : canonical'[i] = canonical[i]
<1> DEFINE N == Len(canonical)
           id == N + 1
           a == Context!Assistant(id, n)
           pre == Append(canonical, a)
           ms == pre \o results
<1>1. N \in Nat /\ id \in Nat /\ id = N + 1 /\ canonical \in Seq(ContextMessages) /\ c \in Nat
  BY MessagesOf DEF SessionMessages
<1> HIDE DEF N
<1>2. /\ a \in ContextMessages /\ a.id = id /\ a.role = "assistant" /\ a.view = "full"
      /\ a.calls = Context!Calls(id, n) /\ a.stands = {id}
  <2> HIDE DEF id, a
  <2>1. a = Context!Assistant(id, n)
    BY DEF a
  <2> QED BY <1>1, <2>1, AssistantMessage
<1>3. ASSUME NEW k \in 1..c
      PROVE  /\ results[k] \in ContextMessages /\ results[k].id = id + k /\ results[k].role = "tool"
             /\ results[k].view = "full" /\ results[k].calls = {} /\ results[k].of = <<id, k>>
             /\ results[k].stands = {id + k}
  <2>1. results[k] = Context!Result(id + k, <<id, k>>, sizes[k])
    BY DEF N
  <2>2. id + k \in Nat /\ <<id, k>> \in Nat \X Nat /\ sizes[k] \in ResultSizes
    BY <1>1
  <2> HIDE DEF id
  <2> QED BY <2>1, <2>2, ResultMessage
<1>4. results \in Seq(ContextMessages) /\ Len(results) = c
  <2>1. results \in [1..c -> ContextMessages]
    BY <1>3
  <2> QED BY <1>1, <2>1
<1>5. canonical' = ms
  BY DEF N
<1> HIDE DEF id, a
<1>6. pre \in Seq(ContextMessages) /\ Len(pre) = id /\ pre[id] = a /\ \A i \in 1..N : pre[i] = canonical[i]
  BY <1>1, <1>2 DEF N
<1> HIDE DEF pre
<1>7. /\ ms \in Seq(ContextMessages) /\ Len(ms) = id + c
      /\ \A i \in 1..(id + c) : ms[i] = IF i <= id THEN pre[i] ELSE results[i - id]
  BY <1>1, <1>4, <1>6, ConcatProperties
<1> HIDE DEF ms
<1>8. ms[id] = a /\ \A i \in 1..N : ms[i] = canonical[i]
  <2>1. id \in 1..(id + c) /\ id <= id
    BY <1>1
  <2>2. ASSUME NEW i \in 1..N PROVE ms[i] = canonical[i]
    <3>1. i \in 1..(id + c) /\ i <= id
      BY <1>1
    <3> QED BY <1>6, <1>7, <3>1
  <2>3. ms[id] = pre[id]
    BY <1>7, <2>1
  <2> QED BY <1>6, <2>2, <2>3
<1>9. ASSUME NEW i \in (id + 1)..(id + c)
      PROVE  /\ i - id \in 1..c /\ ms[i] = results[i - id]
             /\ ms[i].id = i /\ ms[i].role = "tool" /\ ms[i].view = "full" /\ ms[i].calls = {}
             /\ ms[i].of = <<id, i - id>> /\ ms[i].stands = {i}
  <2> DEFINE k == i - id
  <2>1. k \in 1..c /\ id + k = i /\ i \in 1..(id + c) /\ ~(i <= id)
    BY <1>1, <1>9
  <2>2. ms[i] = results[k]
    BY <1>7, <2>1
  <2> HIDE DEF k
  <2>3. /\ ms[i].id = i /\ ms[i].role = "tool" /\ ms[i].view = "full" /\ ms[i].calls = {}
        /\ ms[i].of = <<id, k>> /\ ms[i].stands = {i}
    BY <1>3, <2>1, <2>2
  <2> QED BY <2>1, <2>2, <2>3 DEF k
<1>10. ASSUME NEW i \in (N + 1)..Len(ms) PROVE Joins(ms, i, N)
  <2>1. CASE i = id
    <3>1. Context!Calls(id, n) \subseteq {id} \X Nat
      BY DEF Context!Calls
    <3> QED BY <1>2, <1>8, <2>1, <3>1 DEF Joins
  <2>2. CASE i # id
    <3>1. i \in (id + 1)..(id + c)
      BY <1>1, <1>7, <2>2
    <3>2. id \in (N + 1)..(i - 1) /\ \A u \in (id + 1)..i : u \in (id + 1)..(id + c)
      BY <1>1, <3>1
    <3>3. \A u \in (id + 1)..i : ms[u].role # "user"
      BY <1>9, <3>2
    <3>4. ms[i].of \in ms[id].calls
      <4>1. i - id \in 1..n
        BY <1>1, <1>9, <3>1
      <4>2. <<id, i - id>> \in Context!Calls(id, n)
        BY <4>1 DEF Context!Calls
      <4> QED BY <1>2, <1>8, <1>9, <3>1, <4>2
    <3>5. ms[i].calls \subseteq {i} \X Nat
      BY <1>9, <3>1
    <3> QED BY <1>9, <3>1, <3>2, <3>3, <3>4, <3>5 DEF Joins
  <2> QED BY <2>1, <2>2
<1>11. /\ Len(canonical) <= Len(ms) /\ \A i \in 1..Len(canonical) : ms[i] = canonical[i]
       /\ \A i \in (Len(canonical) + 1)..Len(ms) : Joins(ms, i, Len(canonical))
  BY <1>1, <1>7, <1>8, <1>10 DEF N
<1> QED BY <1>5, <1>7, <1>11, SessionGrows

LEMMA AnswerKeepsFit ==
  ASSUME ContextIInv, NEW sizes \in Context!Batches, NEW n \in 0..MaxCalls, Context!Answer(sizes, n)
  PROVE  ContextIInv'
<1>0. ContextSession /\ ContextRun /\ ContextJob /\ SessionMessages
  BY DEF ContextIInv, ContextSession
<1> DEFINE results == [k \in 1..Len(sizes) |-> Context!Result(Len(canonical) + 1 + k, <<Len(canonical) + 1, k>>, sizes[k])]
<1>1. /\ at = "model" /\ Len(sizes) <= n /\ ratio' \in Ratios
      /\ canonical' = Append(canonical, Context!Assistant(Len(canonical) + 1, n)) \o results
      /\ summary' = summary
      /\ IF Len(sizes) < n THEN Context!Over
         ELSE at' = "boundary" /\ activeRequest' = activeRequest /\ prepared' = prepared
  BY DEF Context!Answer, Context!Calibrate
<1>2. n \in Nat
  BY ContextPartsAssumption DEF Context!ContextAssumption
<1>3. PICK c \in 0..MaxCalls : sizes \in [1..c -> ResultSizes]
  BY DEF Context!Batches
<1>4. Len(sizes) = c /\ c \in 0..n
  <2>1. c \in Nat
    BY <1>3, ContextPartsAssumption DEF Context!ContextAssumption
  <2>2. sizes \in Seq(ResultSizes) /\ DOMAIN sizes = 1..c
    BY <1>3, <2>1
  <2>3. Len(sizes) = c
    BY <2>1, <2>2
  <2> QED BY <1>1, <1>2, <2>1, <2>3
<1>5. /\ SessionMessages' /\ Len(canonical) <= Len(canonical')
      /\ \A i \in 1..Len(canonical) : canonical'[i] = canonical[i]
  <2> HIDE DEF results
  <2>1. results = [k \in 1..c |-> Context!Result(Len(canonical) + 1 + k, <<Len(canonical) + 1, k>>, sizes[k])]
    BY <1>4 DEF results
  <2> QED BY <1>0, <1>1, <1>2, <1>3, <1>4, <2>1, AnswerJoins
<1> HIDE DEF results
<1>6. ContextSession'
  BY <1>0, <1>1, <1>5 DEF ContextSession, EndsBeforeUser
<1>7. CASE Context!Over
  <2>1. at' = "off" /\ activeRequest' = 0 /\ prepared' = Context!NoJob
    BY <1>7 DEF Context!Over
  <2>2. ContextRun'
    BY <1>1, <2>1 DEF ContextRun
  <2>3. ContextJob'
    BY <2>1, JobForgotten DEF ContextJob
  <2> QED BY <1>6, <2>1, <2>2, <2>3 DEF ContextIInv, ContextRequest
<1>8. CASE ~Context!Over
  <2>1. at' = "boundary" /\ activeRequest' = activeRequest /\ prepared' = prepared
    BY <1>1, <1>8
  <2>2. \E i \in 1..Len(canonical') : canonical'[i].role = "user"
    <3>1. PICK i \in 1..Len(canonical) : canonical[i].role = "user"
      BY <1>0, <1>1 DEF ContextRun
    <3>2. Len(canonical) \in Nat /\ Len(canonical') \in Nat
      BY <1>0, <1>5, MessagesOf DEF SessionMessages
    <3>3. i \in 1..Len(canonical')
      BY <1>5, <3>2
    <3> QED BY <1>5, <3>1, <3>3
  <2>3. ContextRun'
    BY <1>0, <1>1, <2>1, <2>2 DEF ContextRun
  <2>4. ContextJob'
    BY <1>0, <2>1 DEF ContextJob, EndsBeforeUser
  <2> QED BY <1>6, <2>1, <2>3, <2>4 DEF ContextIInv, ContextRequest
<1> QED BY <1>7, <1>8

LEMMA ContextSteps == ContextIInv /\ [Context!Next]_(Context!vars) => ContextIInv'
<1> SUFFICES ASSUME ContextIInv, [Context!Next]_(Context!vars) PROVE ContextIInv'
  OBVIOUS
<1>1. CASE Context!BeginRun \/ \E u \in BOOLEAN : Context!ApplySteer(u)
  BY <1>1, BeginKeepsFit
<1>2. CASE Context!RunEnds
  BY <1>2, OverKeepsFit DEF Context!RunEnds, Context!EndRun, Context!session
<1>3. CASE Context!Proceed \/ Context!Overflows \/ Context!Retries \/ Context!CutAnswer
  <2>1. ContextRun
    BY DEF ContextIInv
  <2>2. /\ canonical' = canonical /\ summary' = summary /\ prepared' = prepared
        /\ activeRequest' = activeRequest /\ ratio' = ratio /\ at' = "prepare" /\ at # "off"
    <3>1. CASE Context!Proceed
      BY <3>1 DEF Context!Proceed, Context!session
    <3>2. CASE Context!Overflows
      BY <3>2 DEF Context!Overflows, Context!session
    <3>3. CASE Context!Retries
      BY <3>3 DEF Context!Retries, Context!session, Context!turn
    <3>4. CASE Context!CutAnswer
      BY <3>4 DEF Context!CutAnswer, Context!session
    <3> QED BY <1>3, <3>1, <3>2, <3>3, <3>4
  <2> QED BY <2>1, <2>2, NothingMade DEF ContextRun
<1>4. ASSUME NEW lost, Context!Prepare(lost) PROVE ContextIInv'
  BY <1>4, PrepareKeepsFit
<1>5. ASSUME NEW lost, Context!Summarize(lost) PROVE ContextIInv'
  BY <1>5, SummarizeKeepsFit
<1>6. CASE Context!SummaryFails
  BY <1>6, SummaryFailsKeepsFit
<1>7. CASE Context!CommitContext
  BY <1>7, CommitKeepsFit
<1>8. ASSUME NEW sizes \in Context!Batches, NEW n \in 0..MaxCalls, Context!Answer(sizes, n) PROVE ContextIInv'
  BY <1>8, AnswerKeepsFit
<1>9. CASE UNCHANGED Context!vars
  <2>0. ContextSession /\ ContextRun /\ ContextJob /\ ContextRequest
    BY DEF ContextIInv
  <2>1. /\ canonical' = canonical /\ saved' = saved /\ summary' = summary /\ at' = at
        /\ activeRequest' = activeRequest /\ ratio' = ratio /\ prepared' = prepared /\ request' = request
    BY <1>9 DEF Context!vars, Context!session, Context!turn
  <2>2. ContextSession'
    BY <2>0, <2>1 DEF ContextSession, SessionMessages, Grouped, EndsBeforeUser
  <2>3. ContextRun'
    BY <2>0, <2>1 DEF ContextRun
  <2>4. ContextJob'
    BY <2>0, <2>1 DEF ContextJob, EndsBeforeUser, Fit, Within
  <2>5. ContextRequest'
    BY <2>0, <2>1 DEF ContextRequest, Fit, Within
  <2> QED BY <2>2, <2>3, <2>4, <2>5 DEF ContextIInv
<1> QED BY <1>1, <1>2, <1>3, <1>4, <1>5, <1>6, <1>7, <1>8, <1>9 DEF Context!Next

-------------------------------------------------------------------------------
(* What the requests and the other projections promise *)

LEMMA ContextHolds == Context!Spec => []ContextIInv
BY ContextInitially, ContextSteps, PTL DEF Context!Spec

\* All the calls of some messages
Called(ms) == UNION {ms[i].calls : i \in 1..Len(ms)}

ResultsBehind(ms) ==
  \A i \in 1..Len(ms) : ms[i].role = "tool" => \E j \in 1..(i - 1) : ms[i].of \in ms[j].calls
Complete(ms) == ResultsBehind(ms) /\ Answers(ms, Called(ms))

LEMMA TogetherIsBehind == ASSUME NEW ms, NEW R, Together(ms, R) PROVE ResultsBehind(ms)
BY DEF Together, Grouped, ResultsBehind

LEMMA TogetherIsComplete ==
  ASSUME NEW ms, NEW R, Together(ms, R), Called(ms) \subseteq R PROVE Complete(ms)
<1>1. \A i \in 1..Len(ms) : ms[i].calls \subseteq Called(ms)
  BY DEF Called
<1>2. Answers(ms, R) /\ ResultsBehind(ms)
  BY TogetherIsBehind DEF Together
<1>3. \A i \in 1..Len(ms) : ms[i].calls \cap Called(ms) \subseteq Context!CallsOf(ms)
  BY <1>1, <1>2 DEF Answers
<1> QED BY <1>2, <1>3 DEF Complete, Answers

\* The k-th of the first n places is k.
LEMMA NthOfAll ==
  ASSUME NEW n \in Nat, NEW k \in 1..n PROVE Context!Nth(1..n, k) = k
<1>1. ASSUME NEW i \in 1..n PROVE Context!Cardinality({j \in 1..n : j < i}) = i - 1
  <2>1. {j \in 1..n : j < i} = 1..(i - 1)
    OBVIOUS
  <2>2. Cardinality(1..(i - 1)) = i - 1
    BY FS_Interval
  <2>3. Context!Cardinality(1..(i - 1)) = Cardinality(1..(i - 1))
    BY DEF Context!Cardinality, Cardinality
  <2> QED BY <2>1, <2>2, <2>3
<1> DEFINE Before(i) == Context!Cardinality({j \in 1..n : j < i})
<1>2. Context!Nth(1..n, k) = CHOOSE i \in 1..n : Before(i) = k - 1
  BY DEF Context!Nth
<1>3. \A i \in 1..n : Before(i) = i - 1
  BY <1>1
<1> HIDE DEF Before
<1>4. \A i \in 1..n : Before(i) = k - 1 <=> i = k
  BY <1>3
<1> QED BY <1>2, <1>4

LEMMA AllArePicked ==
  ASSUME NEW ms \in Seq(ContextMessages) PROVE Context!Picked(ms, 1..Len(ms)) = ms
<1> DEFINE n == Len(ms)
           places == 1..n
           out == Context!Picked(ms, places)
<1>1. n \in Nat /\ DOMAIN ms = 1..n
  BY MessagesOf
<1>2. Context!Cardinality(places) = n
  <2>1. Cardinality(1..n) = n
    BY <1>1, FS_Interval
  <2> HIDE DEF n
  <2>2. Context!Cardinality(1..n) = Cardinality(1..n)
    BY DEF Context!Cardinality, Cardinality
  <2> QED BY <2>1, <2>2
<1>3. out = [k \in 1..n |-> ms[Context!Nth(places, k)]]
  BY <1>2 DEF Context!Picked
<1>4. \A k \in 1..n : Context!Nth(places, k) = k
  BY <1>1, NthOfAll
<1> HIDE DEF n, out, places
<1>5. out = [k \in 1..n |-> ms[k]]
  BY <1>3, <1>4
<1>6. ms = [k \in 1..n |-> ms[k]]
  BY <1>1
<1> QED BY <1>5, <1>6 DEF out, n, places

\* completeToolPairs leaves messages alone that have complete pairs.
LEMMA CompleteStays ==
  ASSUME NEW ms \in Seq(ContextMessages), Complete(ms) PROVE Context!CompletePairs(ms) = ms
<1> DEFINE results == {ms[i].of : i \in {j \in 1..Len(ms) : ms[j].role = "tool"}}
           kept == {i \in 1..Len(ms) : IF ms[i].role = "tool" THEN ms[i].of \in Called(ms)
                                       ELSE ms[i].calls \subseteq results}
<1>1. results = Context!CallsOf(ms)
  BY DEF Context!CallsOf
<1>2. Context!CompletePairs(ms) = Context!Picked(ms, kept)
  BY DEF Context!CompletePairs, Called
<1> HIDE DEF results
<1>3. Len(ms) \in Nat
  BY MessagesOf
<1>4. ASSUME NEW i \in 1..Len(ms)
      PROVE  IF ms[i].role = "tool" THEN ms[i].of \in Called(ms) ELSE ms[i].calls \subseteq results
  <2>1. CASE ms[i].role = "tool"
    <3>1. PICK j \in 1..(i - 1) : ms[i].of \in ms[j].calls
      BY <2>1 DEF Complete, ResultsBehind
    <3>2. j \in 1..Len(ms)
      BY <1>3, <3>1
    <3> QED BY <2>1, <3>1, <3>2 DEF Called
  <2>2. CASE ms[i].role # "tool"
    <3>1. ms[i].calls \subseteq Called(ms)
      BY DEF Called
    <3>2. ms[i].calls \cap Called(ms) \subseteq Context!CallsOf(ms)
      BY DEF Complete, Answers
    <3> QED BY <1>1, <2>2, <3>1, <3>2
  <2> QED BY <2>1, <2>2
<1>5. kept = 1..Len(ms)
  BY <1>4
<1> QED BY <1>2, <1>5, AllArePicked

\* The messages a child Agent inherits are the whole, its end from a boundary on, or none.
LEMMA ForkIsAnEnd ==
  ASSUME NEW ms \in Seq(ContextMessages)
  PROVE  \/ Context!ForkOf(ms) = <<>>
         \/ \E k : Boundary(ms, k) /\ Context!ForkOf(ms) = Context!From(ms, k)
<1> DEFINE starts == Context!Starts(ms)
           size(k) == Context!Sum([i \in 1..(Len(ms) - k + 1) |-> ms[k + i - 1].size])
           Among(k) == Context!Cardinality({j \in starts : j >= k}) <= ForkSegments
           fitting == {j \in starts : j = Context!Max(starts) \/ (Among(j) /\ size(j) <= ForkTokens)}
           k == Context!Min(fitting)
<1>1. Context!ForkOf(ms) =
        IF ms = <<>> THEN <<>>
        ELSE IF size(k) <= ForkTokens THEN Context!From(ms, k)
        ELSE IF ms[Len(ms)].role = "user" THEN <<ms[Len(ms)]>> ELSE <<>>
  BY DEF Context!ForkOf
<1>2. Len(ms) \in Nat
  BY MessagesOf
<1>3. CASE ms # <<>>
  <2>1. Len(ms) >= 1
    BY <1>2, <1>3
  <2>2. starts \in SUBSET (1..Len(ms)) /\ 1 \in starts
    BY <1>2, <2>1 DEF Context!Starts
  <2>3. Context!Max(starts) \in starts
    BY <1>2, <2>2, PlacesAreFinite, MaxExists
  <2> HIDE DEF size, Among
  <2>4. fitting \in SUBSET (1..Len(ms)) /\ fitting # {} /\ fitting \subseteq starts
    BY <2>2, <2>3
  <2> HIDE DEF fitting
  <2>5. k \in fitting
    BY <1>2, <2>4, PlacesAreFinite, MinExists
  <2> HIDE DEF starts
  <2>6. k \in starts
    BY <2>4, <2>5
  <2> HIDE DEF k
  <2>7. Boundary(ms, k)
    BY <2>6, LaterStarts DEF starts
  <2>8. ASSUME ms[Len(ms)].role = "user"
        PROVE  Boundary(ms, Len(ms)) /\ <<ms[Len(ms)]>> = Context!From(ms, Len(ms))
    <3>1. Boundary(ms, Len(ms))
      BY <1>2, <2>1, <2>8 DEF Boundary
    <3>2. Context!From(ms, Len(ms)) = <<ms[Len(ms)]>>
      <4> DEFINE last == Context!From(ms, Len(ms))
                 n == Len(ms)
      <4>1. n \in 1..(n + 1) /\ 1 \in 1..(n - n + 1) /\ n - n + 1 = 1 /\ n + 1 - 1 = n
        BY <1>2, <2>1
      <4>2. last \in Seq(ContextMessages) /\ Len(last) = n - n + 1
            /\ \A i \in 1..(n - n + 1) : last[i] = ms[n + i - 1]
        BY <4>1, FromElements
      <4>3. ms[n] \in ContextMessages
        BY <1>2, <2>1, MessagesOf
      <4> HIDE DEF last, n
      <4>4. Len(last) = 1 /\ last[1] = ms[n]
        BY <4>1, <4>2
      <4>5. last = <<last[1]>>
        <5> DEFINE one == <<last[1]>>
        <5>1. last[1] \in ContextMessages
          BY <4>3, <4>4
        <5>2. one \in Seq(ContextMessages) /\ Len(one) = 1 /\ one[1] = last[1]
          BY <5>1
        <5> HIDE DEF one
        <5>3. \A i \in 1..Len(last) : last[i] = one[i]
          BY <4>4, <5>2
        <5> QED BY <4>2, <4>4, <5>2, <5>3, SeqEqual DEF one
      <4> QED BY <4>4, <4>5 DEF last, n
    <3> QED BY <3>1, <3>2
  <2> QED BY <1>1, <2>7, <2>8
<1> QED BY <1>1, <1>3

\* What a child Agent inherits of messages with complete pairs has complete pairs.
LEMMA ForkIsComplete ==
  ASSUME NEW ms \in Seq(ContextMessages), NEW R, Together(ms, R), Complete(ms)
  PROVE  Complete(Context!Fork(ms))
<1> DEFINE whole == Called(ms)
<1>1. Context!Fork(ms) = Context!ForkOf(ms)
  BY CompleteStays DEF Context!Fork
<1>2. Together(ms, whole)
  BY DEF Together, Complete
<1>3. CASE Context!ForkOf(ms) = <<>>
  BY <1>1, <1>3 DEF Complete, ResultsBehind, Answers
<1>4. ASSUME NEW k, Boundary(ms, k), Context!ForkOf(ms) = Context!From(ms, k)
      PROVE  Complete(Context!Fork(ms))
  <2> DEFINE out == Context!From(ms, k)
  <2>1. Together(out, whole)
    BY <1>2, <1>4, FromKeepsTogether
  <2>2. Len(ms) \in Nat /\ k \in 1..(Len(ms) + 1)
    BY <1>4, MessagesOf DEF Boundary
  <2>3. Len(out) = Len(ms) - k + 1 /\ \A i \in 1..(Len(ms) - k + 1) : out[i] = ms[k + i - 1]
    BY <2>2, FromElements
  <2> HIDE DEF out
  <2>4. \A i \in 1..Len(out) : k + i - 1 \in 1..Len(ms) /\ out[i] = ms[k + i - 1]
    BY <2>2, <2>3
  <2>5. Called(out) \subseteq whole
    BY <2>4 DEF Called
  <2>6. Complete(out)
    BY <2>1, <2>5, TogetherIsComplete
  <2> QED BY <1>1, <1>4, <2>6 DEF out
<1> QED BY <1>3, <1>4, ForkIsAnEnd

\* pairedMessages leaves the Session alone, whose results stand behind their calls.
LEMMA PairedStays ==
  ASSUME NEW ms \in Seq(ContextMessages), ResultsBehind(ms) PROVE Context!Paired(ms) = ms
<1> DEFINE kept == {i \in 1..Len(ms) : ms[i].role = "tool" => \E j \in 1..(i - 1) : ms[i].of \in ms[j].calls}
<1>1. Context!Paired(ms) = Context!Picked(ms, kept)
  BY DEF Context!Paired
<1>2. kept = 1..Len(ms)
  BY DEF ResultsBehind
<1> QED BY <1>1, <1>2, AllArePicked

\* The checkpoint of the older projection
Checkpoint(ids) == [Context!User(0) EXCEPT !.role = "system", !.view = "summary", !.stands = ids]

LEMMA CheckpointMessage ==
  ASSUME NEW ids \in SUBSET Nat, NEW s, s = Checkpoint(ids)
  PROVE  s \in ContextMessages /\ s.calls = {} /\ s.role # "tool"
<1> DEFINE u == Context!User(0)
<1>1. u = [id |-> 0, role |-> "user", size |-> 1, calls |-> {}, of |-> <<>>, view |-> "full", stands |-> {0}]
  BY DEF Context!User, Context!Message
<1>2. s = [u EXCEPT !.role = "system", !.view = "summary", !.stands = ids]
  BY DEF Checkpoint
<1> HIDE DEF u
<1>3. s = [id |-> 0, role |-> "system", size |-> 1, calls |-> {}, of |-> <<>>, view |-> "summary", stands |-> ids]
  BY <1>1, <1>2
<1> QED BY <1>3 DEF ContextMessages, MessageViews

\* The older projection is the messages, or a checkpoint and their end from a boundary on.
LEMMA LegacyIsAnEnd ==
  ASSUME NEW ms \in Seq(ContextMessages)
  PROVE  \/ Context!LegacyOf(ms) = ms
         \/ \E s, t : /\ s \in ContextMessages /\ s.calls = {} /\ s.role # "tool" /\ Boundary(ms, t)
                      /\ Context!LegacyOf(ms) = <<s>> \o Context!From(ms, t)
<1> DEFINE n == Len(ms)
           size(i) == Context!Sum([k \in 1..(n - i + 1) |-> ms[i + k - 1].size])
           starting == {i \in 1..n : size(i) * 20 >= LegacyChars * 13} \union {1}
           first == Context!Max(starting)
           users == {i \in first..n : ms[i].role = "user"}
           cut == IF users = {} THEN n + 1 ELSE Context!Min(users)
           ids == UNION {ms[i].stands : i \in 1..(cut - 1)}
           s == Checkpoint(ids)
<1>1. Context!LegacyOf(ms) =
        IF ms = <<>> \/ size(1) <= LegacyChars THEN ms ELSE <<s>> \o Context!From(ms, cut)
  BY DEF Context!LegacyOf, Checkpoint
<1>2. n \in Nat
  BY MessagesOf
<1>3. CASE ms # <<>>
  <2>1. n >= 1
    BY <1>2, <1>3
  <2> HIDE DEF size, n
  <2>2. starting \in SUBSET (1..n) /\ starting # {}
    BY <1>2, <2>1
  <2> HIDE DEF starting
  <2>3. first \in 1..n
    BY <1>2, <2>2, PlacesAreFinite, MaxExists
  <2> HIDE DEF first
  <2>4. users \in SUBSET (1..n)
    BY <1>2, <2>3
  <2>5. users # {} => Context!Min(users) \in users
    <3> HIDE DEF users
    <3> QED BY <1>2, <2>4, PlacesAreFinite, MinExists
  <2>6. Boundary(ms, cut) /\ cut \in 1..(n + 1)
    <3>1. CASE users = {}
      BY <1>2, <3>1 DEF Boundary, n
    <3>2. CASE users # {}
      <4>1. cut \in users
        BY <2>5, <3>2
      <4>2. cut \in 1..n /\ ms[cut].role = "user"
        BY <2>4, <4>1
      <4> HIDE DEF cut
      <4> QED BY <1>2, <4>2 DEF Boundary, n
    <3> QED BY <3>1, <3>2
  <2> HIDE DEF cut, users
  <2>7. ids \in SUBSET Nat
    <3>1. 1..(cut - 1) \in SUBSET (1..Len(ms))
      BY <1>2, <2>6 DEF n
    <3> QED BY <3>1, StandFor
  <2> HIDE DEF ids
  <2>8. s \in ContextMessages /\ s.calls = {} /\ s.role # "tool"
    BY <2>7, CheckpointMessage
  <2> HIDE DEF s
  <2> QED BY <1>1, <2>6, <2>8
<1> QED BY <1>1, <1>3

LEMMA LegacyKeepsTogether ==
  ASSUME NEW ms \in Seq(ContextMessages), NEW R, Together(ms, R)
  PROVE  Together(Context!Legacy(ms), R)
<1>1. Context!Legacy(ms) = Context!LegacyOf(ms)
  BY TogetherIsBehind, PairedStays DEF Context!Legacy
<1>2. ASSUME NEW s, NEW t, s \in ContextMessages, s.calls = {}, s.role # "tool", Boundary(ms, t),
             Context!LegacyOf(ms) = <<s>> \o Context!From(ms, t)
      PROVE  Together(Context!Legacy(ms), R)
  <2>1. Boundary(ms, 1) /\ 1 <= t
    BY <1>2, MessagesOf DEF Boundary
  <2>2. Together(Replaced(ms, 1, s, t), R)
    BY <1>2, <2>1, ReplacedKeepsTogether
  <2>3. Replaced(ms, 1, s, t) = Context!Legacy(ms)
    BY <1>1, <1>2, ReplacedFirst
  <2> QED BY <2>2, <2>3
<1> QED BY <1>1, <1>2, LegacyIsAnEnd

\* A request ends with the conversation about the request the Run works on, within the limit.
LEMMA RequestsServe == Context!Spec => []Context!RequestServesTheActiveRequest
<1>1. ContextIInv => Context!RequestServesTheActiveRequest
  BY DEF ContextIInv, ContextRequest, Fit, Within, SoundFor, Serves, Context!RequestServesTheActiveRequest
<1> QED BY <1>1, ContextHolds, PTL

\* What a request leaves out is kept by an artifact or was summarised.
LEMMA RequestsLoseNothing == Context!Spec => []Context!NothingIsLost
<1>1. ContextIInv => Context!NothingIsLost
  BY DEF ContextIInv, ContextRequest, Fit, SoundFor, Covers, Context!Ids, Context!NothingIsLost
<1> QED BY <1>1, ContextHolds, PTL

\* No projection of the messages separates a call from its result.
LEMMA PairsAreKept == Context!Spec => []Context!ProjectionsKeepPairs
<1> DEFINE R == Context!CallsOf(canonical)
           old == Context!Legacy(canonical)
<1>1. ASSUME ContextIInv, at = "model"
      PROVE  /\ ResultsBehind(request) /\ Answers(request, R)
             /\ Complete(request) => Complete(Context!Fork(request))
  <2>1. request \in Seq(ContextMessages) /\ Together(request, R)
    BY <1>1 DEF ContextIInv, ContextRequest, Fit, SoundFor
  <2>2. ResultsBehind(request) /\ Answers(request, R)
    BY <2>1, TogetherIsBehind DEF Together
  <2> QED BY <2>1, <2>2, ForkIsComplete
<1>2. ASSUME ContextIInv PROVE ResultsBehind(old) /\ Answers(old, R)
  <2>1. SessionMessages
    BY <1>2 DEF ContextIInv, ContextSession
  <2>2. canonical \in Seq(ContextMessages) /\ Together(canonical, R)
    BY <2>1, SessionIsTogether DEF SessionMessages
  <2>3. Together(old, R)
    BY <2>2, LegacyKeepsTogether
  <2> QED BY <2>3, TogetherIsBehind DEF Together
<1> HIDE DEF R, old
<1>3. ContextIInv => Context!ProjectionsKeepPairs
  BY <1>1, <1>2 DEF Context!ProjectionsKeepPairs, ResultsBehind, Answers, Complete, Called, R, old
<1> QED BY <1>3, ContextHolds, PTL
=====================================================================================
