----------------------------- MODULE ExecutorProofs -----------------------------
(***************************************************************************)
(* Proofs about the ReAct loop.                                            *)
(***************************************************************************)
EXTENDS Executor, FiniteSetTheorems, TLAPS
LOCAL INSTANCE SequencesExt

-------------------------------------------------------------------------------
(* The inductive invariant *)

\* Places where no call of the turn was started yet, with a batch at work, and
\* with one call of the batch at work.
Attempting == {"attempt", "stream", "retry", "commit"}
Busy == {"tool", "ask", "wait", "effect", "outcome"}
InBatch == Busy \cup {"call"}

\* The calls the loop works on are those of its Run and turn.
CallsAreOfTheTurn ==
  /\ loop.at \in InBatch \cup {"commit"} =>
       \A k \in 1 .. Len(loop.response.calls) :
         loop.response.calls[k][1] = active /\ loop.response.calls[k][2] = loop.turn
  /\ loop.at \in Attempting => loop.next = 1 /\ loop.turn # 0
  /\ loop.at \in InBatch => loop.next <= Len(loop.response.calls) + 1
  /\ loop.at \in Busy => loop.next <= Len(loop.response.calls)

\* How far the loop has come with the calls of its turn.
Reached == IF loop.at \in Busy THEN loop.next ELSE loop.next - 1

\* A started call is one of a settled Run, of an earlier turn, or of the part of
\* the batch the loop has come to.
StartedIsBehind ==
  \A c \in started :
    /\ c[1] = active \/ reports[c[1]] # "none"
    /\ c[1] = active =>
         /\ loop.at \in Attempting => c[2] < loop.turn
         /\ loop.at \in {"turn", "boundary"} => c[2] <= loop.turn
         /\ loop.at \in InBatch =>
              \/ c[2] < loop.turn
              \/ \E k \in 1 .. Reached : c = loop.response.calls[k]

\* What the loop knows of its call before it takes effect.
StepsAreEarned ==
  /\ loop.at \in Busy \ {"outcome"} => Call \in started /\ effects[Call] = 0
  /\ loop.at \in {"tool", "ask"} => Call \notin asked
  /\ loop.at = "wait" => Call \in asked /\ resolved[Call] = <<>>
  /\ loop.at = "effect" /\ Call \in asked => resolved[Call] # <<>> /\ resolved[Call][1] = "allow"

\* Only what was asked is answered.
AnswersWereAsked ==
  /\ answers \in Seq([decision : Decisions, call : asked])
  /\ \A c \in CallIds : resolved[c] # <<>> => c \in asked

\* The page shows of the open message what the loop keeps of it.
DraftIsKept ==
  /\ loop.at \in {"attempt", "stream", "retry"} => draft = loop.kept
  /\ loop.at = "commit" => draft = loop.response.text

\* After a call that took effect late its Run only ends.
LateIsLast ==
  /\ late \subseteq started
  /\ \A c \in late : c[1] = active => stopped /\ loop.at \in {"outcome", "call", "boundary", "report", "lost"}
  /\ \A c, d \in late : c[1] = d[1] => c = d

EffectsWereAllowed ==
  \A c \in CallIds : effects[c] > 0 =>
    /\ effects[c] = 1 /\ c \in started
    /\ c \in asked => resolved[c] # <<>> /\ resolved[c][1] = "allow"

\* Message i of h is the last up to j that is no result.
IsCaller(h, i, j) ==
  /\ i \in 1 .. j /\ h[i].role # "tool"
  /\ \A k \in i + 1 .. j : h[k].role = "tool"

\* A result answers its call; a Run goes on when its batch is settled.
PlacedIn(h, j) ==
  \E i \in 1 .. Len(h) :
    IF h[j].role = "tool"
    THEN IsCaller(h, i, j) /\ j - i <= Len(h[i].calls) /\ h[j].call = h[i].calls[j - i]
    ELSE j > 1 /\ h[j].role # "user" => IsCaller(h, i, j - 1) /\ j - 1 - i = Len(h[i].calls)

MessagesArePlaced == \A j \in 1 .. Len(history) : PlacedIn(history, j)

\* The end of h is a message with all its results.
Settled(h) ==
  \E i \in 1 .. Len(h) : IsCaller(h, i, Len(h)) /\ Len(h) - i = Len(h[i].calls)

\* h ends with the batch calls, of which n results are there.
OpenAt(h, calls, n) ==
  \E i \in 1 .. Len(h) : IsCaller(h, i, Len(h)) /\ Len(h) - i = n /\ h[i].calls = calls

\* The batch at the end of the Session is the one the loop works on, as far as
\* it has come.
BatchIsOpen ==
  /\ loop.at \in {"turn", "boundary"} \cup Attempting => Settled(history)
  /\ loop.at \in InBatch => OpenAt(history, loop.response.calls, loop.next - 1)

ExecutorIInv ==
  /\ TypeOK
  /\ CallsAreOfTheTurn
  /\ StartedIsBehind
  /\ StepsAreEarned
  /\ AnswersWereAsked
  /\ DraftIsKept
  /\ LateIsLast
  /\ EffectsWereAllowed
  /\ MessagesArePlaced
  /\ BatchIsOpen

-------------------------------------------------------------------------------
(* The Session *)

\* What appending a message leaves and adds.
LEMMA Appending ==
  ASSUME NEW h \in Seq(Messages), NEW m \in Messages
  PROVE  /\ Append(h, m) \in Seq(Messages) /\ Len(Append(h, m)) = Len(h) + 1 /\ Len(h) \in Nat
         /\ Append(h, m)[Len(h) + 1] = m
         /\ \A k \in 1 .. Len(h) : Append(h, m)[k] = h[k]
<1> HIDE DEF Messages
<1> QED OBVIOUS

LEMMA MessageFields ==
  ASSUME NEW m \in Messages
  PROVE  /\ m.role \in {"user", "steer", "assistant", "tool"} /\ m.run \in Runs
         /\ m.calls \in Seq(CallIds) /\ Len(m.calls) \in 0 .. MaxCalls
BY DEF Messages, Batches

\* The caller of a message stays its caller when the Session grows.
LEMMA CallerStays ==
  ASSUME NEW h \in Seq(Messages), NEW m \in Messages, NEW i, NEW j \in 1 .. Len(h), IsCaller(h, i, j)
  PROVE  IsCaller(Append(h, m), i, j)
BY Appending DEF IsCaller

\* A message has one caller.
LEMMA CallerIsUnique ==
  ASSUME NEW h \in Seq(Messages), NEW j \in Int, NEW i, NEW k, IsCaller(h, i, j), IsCaller(h, k, j)
  PROVE  i = k
BY DEF IsCaller

LEMMA PlacesStay ==
  ASSUME NEW h \in Seq(Messages), NEW m \in Messages, NEW j \in 1 .. Len(h), PlacedIn(h, j)
  PROVE  PlacedIn(Append(h, m), j)
<1> DEFINE g == Append(h, m)
<1>1. /\ Len(h) \in Nat /\ Len(g) = Len(h) + 1
      /\ \A k \in 1 .. Len(h) : g[k] = h[k]
  BY Appending
<1>2. PICK i \in 1 .. Len(h) :
        IF h[j].role = "tool"
        THEN IsCaller(h, i, j) /\ j - i <= Len(h[i].calls) /\ h[j].call = h[i].calls[j - i]
        ELSE j > 1 /\ h[j].role # "user" => IsCaller(h, i, j - 1) /\ j - 1 - i = Len(h[i].calls)
  BY DEF PlacedIn
<1>3. g[j] = h[j] /\ g[i] = h[i] /\ i \in 1 .. Len(g)
  BY <1>1
<1>4. IsCaller(h, i, j) => IsCaller(g, i, j)
  BY CallerStays
<1>5. j > 1 /\ IsCaller(h, i, j - 1) => IsCaller(g, i, j - 1)
  <2> SUFFICES ASSUME j > 1, IsCaller(h, i, j - 1) PROVE IsCaller(g, i, j - 1)
    OBVIOUS
  <2>1. j - 1 \in 1 .. Len(h)
    BY <1>1
  <2> QED BY <2>1, CallerStays
<1> HIDE DEF g
<1>6. PlacedIn(g, j)
  BY <1>2, <1>3, <1>4, <1>5 DEF PlacedIn
<1> QED BY <1>6 DEF g

\* A user message can always follow.
LEMMA UserFollows ==
  ASSUME NEW h \in Seq(Messages), NEW m \in Messages, m.role = "user",
         \A j \in 1 .. Len(h) : PlacedIn(h, j)
  PROVE  \A j \in 1 .. Len(Append(h, m)) : PlacedIn(Append(h, m), j)
<1>1. /\ Len(h) \in Nat /\ Len(Append(h, m)) = Len(h) + 1 /\ Append(h, m)[Len(h) + 1] = m
  BY Appending
<1>2. PlacedIn(Append(h, m), Len(h) + 1)
  BY <1>1 DEF PlacedIn
<1> QED BY <1>1, <1>2, PlacesStay

\* A Steer or an answer can follow a batch that is settled.
LEMMA AnswerFollows ==
  ASSUME NEW h \in Seq(Messages), NEW m \in Messages, m.role # "tool", Settled(h),
         \A j \in 1 .. Len(h) : PlacedIn(h, j)
  PROVE  \A j \in 1 .. Len(Append(h, m)) : PlacedIn(Append(h, m), j)
<1> DEFINE g == Append(h, m)
           n == Len(h)
<1>1. /\ n \in Nat /\ Len(g) = n + 1 /\ g[n + 1] = m
      /\ \A k \in 1 .. n : g[k] = h[k]
  BY Appending
<1>2. PICK i \in 1 .. n : IsCaller(h, i, n) /\ n - i = Len(h[i].calls)
  BY DEF Settled
<1>3. IsCaller(g, i, n) /\ n - i = Len(g[i].calls) /\ i \in 1 .. Len(g) /\ (n + 1) - 1 = n
  BY <1>1, <1>2, CallerStays
<1> HIDE DEF g, n
<1>4. PlacedIn(g, n + 1)
  BY <1>1, <1>3 DEF PlacedIn
<1>5. \A j \in 1 .. n : PlacedIn(g, j)
  BY PlacesStay DEF g, n
<1>6. \A j \in 1 .. Len(g) : PlacedIn(g, j)
  BY <1>1, <1>4, <1>5
<1> QED BY <1>6 DEF g

\* A message without results yet is its own caller.
LEMMA EndsWithCaller ==
  ASSUME NEW h \in Seq(Messages), NEW m \in Messages, m.role # "tool"
  PROVE  LET g == Append(h, m) IN
         /\ Len(h) + 1 \in 1 .. Len(g) /\ g[Len(h) + 1] = m
         /\ IsCaller(g, Len(h) + 1, Len(g)) /\ Len(g) - (Len(h) + 1) = 0
BY Appending DEF IsCaller

\* The next result can follow an open batch.
LEMMA ResultFollows ==
  ASSUME NEW h \in Seq(Messages), NEW m \in Messages, NEW calls, NEW n \in Nat \ {0}, m.role = "tool",
         OpenAt(h, calls, n - 1), n <= Len(calls), m.call = calls[n],
         \A j \in 1 .. Len(h) : PlacedIn(h, j)
  PROVE  /\ \A j \in 1 .. Len(Append(h, m)) : PlacedIn(Append(h, m), j)
         /\ OpenAt(Append(h, m), calls, n)
<1> DEFINE g == Append(h, m)
           l == Len(h)
<1>1. /\ l \in Nat /\ Len(g) = l + 1 /\ g[l + 1] = m
      /\ \A k \in 1 .. l : g[k] = h[k]
  BY Appending
<1>2. PICK i \in 1 .. l : IsCaller(h, i, l) /\ l - i = n - 1 /\ h[i].calls = calls
  BY DEF OpenAt
<1>3. /\ i \in 1 .. Len(g) /\ l + 1 - i = n /\ g[i] = h[i] /\ l \in 1 .. l
  BY <1>1, <1>2
<1>4. IsCaller(g, i, l)
  BY <1>2, <1>3, CallerStays
<1> HIDE DEF g, l
<1>5. IsCaller(g, i, l + 1)
  BY <1>1, <1>3, <1>4 DEF IsCaller
<1>6. PlacedIn(g, l + 1)
  <2>1. g[l + 1].role = "tool" /\ g[i].calls = calls
    BY <1>1, <1>2, <1>3
  <2>2. (l + 1) - i <= Len(g[i].calls) /\ g[l + 1].call = g[i].calls[(l + 1) - i]
    BY <1>1, <1>3, <2>1
  <2> QED BY <1>3, <1>5, <2>1, <2>2 DEF PlacedIn
<1>7. \A j \in 1 .. l : PlacedIn(g, j)
  BY PlacesStay DEF g, l
<1>8. \A j \in 1 .. Len(g) : PlacedIn(g, j)
  BY <1>1, <1>6, <1>7
<1>9. OpenAt(g, calls, n)
  <2>1. IsCaller(g, i, Len(g)) /\ Len(g) - i = n /\ g[i].calls = calls
    BY <1>1, <1>2, <1>3, <1>5
  <2> QED BY <1>3, <2>1 DEF OpenAt
<1> QED BY <1>8, <1>9 DEF g

\* Placed messages are whole batches.
LEMMA PlacedIsWhole ==
  ASSUME history \in Seq(Messages), MessagesArePlaced
  PROVE  BatchesStayWhole
<1> DEFINE Caller(j) == CHOOSE i \in 1 .. j : /\ history[i].role # "tool"
                                              /\ \A k \in i + 1 .. j : history[k].role = "tool"
<1>1. ASSUME NEW j \in Int, NEW i, IsCaller(history, i, j)
      PROVE  Caller(j) = i
  <2>1. IsCaller(history, Caller(j), j)
    BY <1>1 DEF IsCaller
  <2> HIDE DEF Caller
  <2> QED BY <1>1, <2>1, CallerIsUnique
<1> HIDE DEF Caller
<1>2. ASSUME NEW j \in 1 .. Len(history)
      PROVE  IF history[j].role = "tool"
             THEN /\ j - Caller(j) <= Len(history[Caller(j)].calls)
                  /\ history[j].call = history[Caller(j)].calls[j - Caller(j)]
             ELSE j > 1 /\ history[j].role # "user" =>
                    j - 1 - Caller(j - 1) = Len(history[Caller(j - 1)].calls)
  <2>1. PICK i \in 1 .. Len(history) :
          IF history[j].role = "tool"
          THEN /\ IsCaller(history, i, j) /\ j - i <= Len(history[i].calls)
               /\ history[j].call = history[i].calls[j - i]
          ELSE j > 1 /\ history[j].role # "user" =>
                 IsCaller(history, i, j - 1) /\ j - 1 - i = Len(history[i].calls)
    BY DEF MessagesArePlaced, PlacedIn
  <2>2. j \in Int /\ j - 1 \in Int
    OBVIOUS
  <2> QED BY <2>1, <2>2, <1>1
<1> QED BY <1>2 DEF BatchesStayWhole, Caller

-------------------------------------------------------------------------------
(* The loop *)

LEMMA ElementOfSeq ==
  ASSUME NEW S, NEW s \in Seq(S), NEW k \in 1 .. Len(s)
  PROVE  s[k] \in S
OBVIOUS

LEMMA SequencesGrow ==
  ASSUME NEW S, NEW T, S \subseteq T, NEW s \in Seq(S)
  PROVE  s \in Seq(T)
OBVIOUS

LEMMA BoundsAreNatural ==
  /\ MaxTurns \in Nat \ {0} /\ MaxAttempts \in Nat \ {0} /\ Budgets \in Nat \ {0}
  /\ MaxRuns \in Nat \ {0} /\ MaxRetries \in Nat /\ MaxContinuations \in Nat /\ MaxSteers \in Nat
  /\ MaxFaults \in Nat /\ MaxCrashes \in Nat /\ MaxCalls \in Nat
BY ExecutorAssumption, StreamAssumption

LEMMA LoopFields ==
  ASSUME loop \in Loops
  PROVE  /\ loop.at \in Places /\ loop.turn \in 0 .. MaxTurns /\ loop.attempts \in 0 .. MaxAttempts
         /\ loop.retries \in 0 .. MaxRetries /\ loop.budget \in 1 .. Budgets
         /\ loop.continued \in 0 .. MaxContinuations /\ loop.kept \in Seq(Nat)
         /\ loop.response \in Responses /\ loop.next \in 1 .. MaxCalls + 1
BY DEF Loops

LEMMA ResponseFields ==
  ASSUME NEW answer \in Responses
  PROVE  /\ answer.text \in Seq(Nat) /\ answer.calls \in Batches(CallIds)
         /\ answer.calls \in Seq(CallIds) /\ Len(answer.calls) \in 0 .. MaxCalls
         /\ answer.finish \in Finishes
BY DEF Responses, Batches

\* A step that only moves the loop.
LEMMA Moved ==
  ASSUME loop \in Loops, NEW p \in Places, Goto(p)
  PROVE  /\ loop' \in Loops /\ loop'.at = p
         /\ loop'.turn = loop.turn /\ loop'.attempts = loop.attempts /\ loop'.kept = loop.kept
         /\ loop'.response = loop.response /\ loop'.next = loop.next /\ loop'.end = loop.end
BY DEF Goto, Loops

LEMMA IdleFields ==
  /\ Idle \in Loops /\ Idle.at = "off" /\ Idle.end = "none" /\ Idle.turn = 0 /\ Idle.next = 1
  /\ Idle.kept = <<>> /\ Idle.response = NoResponse /\ NoResponse \in Responses
  /\ NoResponse.calls = <<>> /\ NoResponse.text = <<>>
<1>1. NoResponse \in Responses /\ NoResponse.calls = <<>> /\ NoResponse.text = <<>>
  <2>1. <<>> \in Seq(Nat) /\ <<>> \in Seq(CallIds) /\ Len(<<>>) = 0
    OBVIOUS
  <2>2. <<>> \in Batches(CallIds)
    BY <2>1, StreamAssumption DEF Batches
  <2> QED BY <2>1, <2>2 DEF NoResponse, Responses, Finishes
<1>2. /\ 0 \in 0 .. MaxTurns /\ 0 \in 0 .. MaxAttempts /\ 0 \in 0 .. MaxRetries /\ 1 \in 1 .. Budgets
      /\ 0 \in 0 .. MaxContinuations /\ 1 \in 1 .. MaxCalls + 1 /\ <<>> \in Seq(Nat)
  BY ExecutorAssumption, StreamAssumption
<1>3. Idle \in Loops
  BY <1>1, <1>2 DEF Idle, Loops, Places
<1> QED BY <1>1, <1>3 DEF Idle

\* A step that leaves the loop.
LEMMA Returned ==
  ASSUME NEW s \in Statuses, Return(s)
  PROVE  loop' \in Loops /\ loop'.at = "report" /\ loop'.end = s /\ s # "none"
BY IdleFields DEF Return, Loops, Places, Statuses

\* The call the loop has come to.
LEMMA CallIsTyped ==
  ASSUME TypeOK, CallsAreOfTheTurn, loop.at \in InBatch, loop.at \in Busy \/ loop.next <= Len(loop.response.calls)
  PROVE  Call \in CallIds /\ Call[1] = active /\ Call[2] = loop.turn /\ loop.next \in 1 .. Len(loop.response.calls)
<1>1. loop.next \in 1 .. Len(loop.response.calls) /\ loop.response.calls \in Seq(CallIds)
  BY LoopFields, ResponseFields DEF TypeOK, CallsAreOfTheTurn, Busy, InBatch
<1>2. Call \in CallIds
  BY <1>1 DEF Call
<1> QED BY <1>1, <1>2 DEF CallsAreOfTheTurn, Call, Busy, InBatch

LEMMA CallIdFields ==
  ASSUME NEW c \in CallIds
  PROVE  c[1] \in Runs /\ c[2] \in 1 .. MaxTurns /\ c[1] \in Nat \ {0} /\ c[2] \in Nat
BY ExecutorAssumption DEF CallIds, Runs

\* A step of an open Run, that leaves the rest of the state as it is.
LEMMA TypeStays ==
  ASSUME TypeOK, loop.at # "off", loop' \in Loops, loop'.at \notin {"off", "report"}, loop'.end = "none",
         history' \in Seq(Messages), faults' \in 0 .. MaxFaults,
         UNCHANGED <<active, reports, started, asked, resolved, stopped, effects, late, crashes>>
  PROVE  TypeOK'
BY DEF TypeOK

\* A step that ends the loop keeps the invariant, whatever it leaves on the page.
LEMMA ReturnKeeps ==
  ASSUME ExecutorIInv, NEW s \in Statuses, Return(s), loop.at # "off",
         history' \in Seq(Messages), MessagesArePlaced', faults' \in 0 .. MaxFaults,
         UNCHANGED <<active, reports, started, asked, resolved, answers, stopped, effects, late, crashes>>
  PROVE  ExecutorIInv'
<1>1. loop' \in Loops /\ loop'.at = "report" /\ loop'.end = s /\ s # "none"
  BY Returned
<1>2. TypeOK'
  BY <1>1 DEF TypeOK, ExecutorIInv
<1>3. CallsAreOfTheTurn' /\ StepsAreEarned' /\ DraftIsKept' /\ BatchIsOpen'
  BY <1>1 DEF CallsAreOfTheTurn, StepsAreEarned, DraftIsKept, BatchIsOpen, InBatch, Busy, Attempting
<1>4. StartedIsBehind'
  BY <1>1 DEF StartedIsBehind, ExecutorIInv, InBatch, Busy, Attempting
<1>5. AnswersWereAsked' /\ EffectsWereAllowed'
  BY DEF AnswersWereAsked, EffectsWereAllowed, ExecutorIInv
<1>6. LateIsLast'
  BY <1>1 DEF LateIsLast, ExecutorIInv
<1> QED BY <1>2, <1>3, <1>4, <1>5, <1>6 DEF ExecutorIInv

LEMMA FaultsAreBounded ==
  ASSUME TypeOK, Fails \/ Works
  PROVE  faults' \in 0 .. MaxFaults
BY ExecutorAssumption DEF TypeOK, Fails, Works

\* A Run that is lost when it was to be reported has nothing left to do.
LEMMA LoseKeeps ==
  ASSUME ExecutorIInv, loop.at = "report", Lose, faults' \in 0 .. MaxFaults,
         UNCHANGED <<history, active, reports, started, asked, resolved, answers, stopped, effects, late, crashes>>
  PROVE  ExecutorIInv'
<1>1. loop' \in Loops /\ loop'.at = "lost" /\ loop'.end = "none"
  BY IdleFields DEF Lose, Loops, Places
<1>2. TypeOK'
  BY <1>1 DEF TypeOK, ExecutorIInv
<1>3. CallsAreOfTheTurn' /\ StepsAreEarned' /\ DraftIsKept' /\ BatchIsOpen'
  BY <1>1 DEF CallsAreOfTheTurn, StepsAreEarned, DraftIsKept, BatchIsOpen, InBatch, Busy, Attempting
<1>4. StartedIsBehind'
  BY <1>1 DEF StartedIsBehind, ExecutorIInv, InBatch, Busy, Attempting
<1>5. AnswersWereAsked' /\ EffectsWereAllowed' /\ MessagesArePlaced'
  BY DEF AnswersWereAsked, EffectsWereAllowed, MessagesArePlaced, ExecutorIInv
<1>6. LateIsLast'
  BY <1>1 DEF LateIsLast, ExecutorIInv
<1> QED BY <1>2, <1>3, <1>4, <1>5, <1>6 DEF ExecutorIInv

LEMMA SettledStays ==
  ASSUME ExecutorIInv, UNCHANGED history
  PROVE  history' \in Seq(Messages) /\ MessagesArePlaced' /\ (Settled(history) => Settled(history'))
BY DEF ExecutorIInv, TypeOK, MessagesArePlaced

\* What stays true of the journal while the loop moves on.
LEMMA JournalStays ==
  ASSUME ExecutorIInv,
         UNCHANGED <<started, asked, resolved, answers, effects>>
  PROVE  AnswersWereAsked' /\ EffectsWereAllowed'
BY DEF ExecutorIInv, AnswersWereAsked, EffectsWereAllowed

-------------------------------------------------------------------------------
(* The steps of the Run *)

LEMMA UserIsMessage ==
  ASSUME NEW r \in Runs
  PROVE  /\ User(r) \in Messages /\ User(r).role = "user" /\ User(r).calls = <<>>
         /\ Steer(r) \in Messages /\ Steer(r).role = "steer" /\ Steer(r).calls = <<>>
<1>1. <<>> \in Batches(CallIds)
  BY StreamAssumption DEF Batches
<1> QED BY <1>1 DEF User, Steer, Messages

LEMMA BeginRunKeeps ==
  ASSUME ExecutorIInv, NEW r \in Runs, BeginRun(r)
  PROVE  ExecutorIInv'
<1>1. /\ active = 0 /\ reports[r] = "none" /\ active' = r /\ history' = Append(history, User(r))
      /\ stopped' = FALSE
      /\ UNCHANGED <<reports, started, asked, resolved, answers, effects, late, crashes>>
  BY DEF BeginRun, world
<1>2. loop' \in Loops /\ loop'.at \in {"turn", "lost"} /\ loop'.end = "none"
  BY IdleFields DEF BeginRun, Lose, Loops, Places
<1>3. history' \in Seq(Messages) /\ MessagesArePlaced' /\ Settled(history')
  <2>1. history \in Seq(Messages) /\ \A j \in 1 .. Len(history) : PlacedIn(history, j)
    BY DEF ExecutorIInv, TypeOK, MessagesArePlaced
  <2>2. history' \in Seq(Messages)
    BY <1>1, <2>1, UserIsMessage
  <2>3. \A j \in 1 .. Len(history') : PlacedIn(history', j)
    BY <1>1, <2>1, UserIsMessage, UserFollows
  <2>4. Settled(history')
    BY <1>1, <2>1, UserIsMessage, EndsWithCaller DEF Settled
  <2> QED BY <2>2, <2>3, <2>4 DEF MessagesArePlaced
<1>4. TypeOK'
  <2>1. r \in 0 .. MaxRuns /\ r # 0
    BY BoundsAreNatural DEF Runs
  <2>2. TypeOK
    BY DEF ExecutorIInv
  <2>3. faults' \in 0 .. MaxFaults
    BY <2>2, FaultsAreBounded DEF BeginRun
  <2> QED BY <1>1, <1>2, <1>3, <2>1, <2>2, <2>3 DEF TypeOK
<1>5. \A c \in started : c[1] # r /\ reports[c[1]] # "none"
  BY <1>1, CallIdFields DEF ExecutorIInv, TypeOK, StartedIsBehind
<1>6. StartedIsBehind'
  BY <1>1, <1>2, <1>5 DEF StartedIsBehind
<1>7. CallsAreOfTheTurn' /\ StepsAreEarned' /\ DraftIsKept' /\ BatchIsOpen'
  BY <1>2, <1>3 DEF CallsAreOfTheTurn, StepsAreEarned, DraftIsKept, BatchIsOpen, InBatch, Busy, Attempting
<1>8. LateIsLast'
  BY <1>1, <1>5 DEF ExecutorIInv, LateIsLast
<1> QED BY <1>1, <1>3, <1>4, <1>6, <1>7, <1>8, JournalStays DEF ExecutorIInv

\* While the loop stays among the places of one attempt.
LEMMA AttemptKeeps ==
  ASSUME ExecutorIInv, loop.at \in Attempting, loop' \in Loops, loop'.end = "none",
         loop'.at \in {"attempt", "stream", "retry"}, loop'.turn = loop.turn, loop'.next = 1,
         draft' = loop'.kept, faults' \in 0 .. MaxFaults,
         UNCHANGED <<history, active, reports, started, asked, resolved, answers, stopped, effects, late, crashes>>
  PROVE  ExecutorIInv'
<1>1. TypeOK'
  BY TypeStays, SettledStays DEF ExecutorIInv, Attempting
<1>2. StartedIsBehind'
  BY DEF ExecutorIInv, StartedIsBehind, Attempting, InBatch, Busy
<1>3. CallsAreOfTheTurn' /\ StepsAreEarned' /\ DraftIsKept'
  BY DEF ExecutorIInv, CallsAreOfTheTurn, StepsAreEarned, DraftIsKept, InBatch, Busy, Attempting
<1>4. BatchIsOpen'
  BY SettledStays DEF ExecutorIInv, BatchIsOpen, Attempting, InBatch, Busy
<1>5. LateIsLast'
  BY DEF ExecutorIInv, LateIsLast, Attempting
<1> QED BY <1>1, <1>2, <1>3, <1>4, <1>5, SettledStays, JournalStays DEF ExecutorIInv

LEMMA TurnStartsKeeps ==
  ASSUME ExecutorIInv, TurnStarts
  PROVE  ExecutorIInv'
<1>1. /\ loop.at = "turn"
      /\ UNCHANGED <<history, active, reports, started, asked, resolved, answers, stopped, effects, late,
                     faults, crashes>>
  BY DEF TurnStarts, journal, world
<1>2. faults' \in 0 .. MaxFaults
  BY <1>1 DEF ExecutorIInv, TypeOK
<1>3. CASE loop.turn = MaxTurns \/ stopped
  <2>1. PICK s \in {"limited", "aborted"} : Return(s)
    BY <1>3 DEF TurnStarts
  <2>2. s \in Statuses
    BY DEF Statuses
  <2> QED BY <1>1, <1>2, <2>1, <2>2, ReturnKeeps, SettledStays
<1>4. CASE ~(loop.turn = MaxTurns \/ stopped)
  <2>1. /\ loop' = [Idle EXCEPT !.at = "attempt", !.turn = loop.turn + 1, !.attempts = loop.attempts]
        /\ draft' = <<>>
    BY <1>4 DEF TurnStarts
  <2>2. loop.turn + 1 \in 0 .. MaxTurns /\ loop.turn \in Nat /\ loop.attempts \in 0 .. MaxAttempts
    <3>1. loop.turn \in 0 .. MaxTurns /\ loop.attempts \in 0 .. MaxAttempts
      BY LoopFields DEF ExecutorIInv, TypeOK
    <3> QED BY <1>4, <3>1, BoundsAreNatural
  <2>3. /\ loop' \in Loops /\ loop'.at = "attempt" /\ loop'.end = "none" /\ loop'.turn = loop.turn + 1
        /\ loop'.next = 1 /\ loop'.kept = <<>>
    BY <2>1, <2>2, IdleFields DEF Loops, Places
  <2>4. TypeOK'
    BY <1>1, <1>2, <2>3, TypeStays, SettledStays DEF ExecutorIInv
  <2>5. StartedIsBehind'
    <3>1. \A c \in started : c[1] = active => c[2] < loop.turn + 1
      BY <1>1, <2>2, CallIdFields DEF ExecutorIInv, StartedIsBehind, TypeOK
    <3> QED BY <1>1, <2>3, <3>1 DEF ExecutorIInv, StartedIsBehind, InBatch, Busy
  <2>6. CallsAreOfTheTurn' /\ StepsAreEarned' /\ DraftIsKept'
    BY <2>1, <2>2, <2>3 DEF CallsAreOfTheTurn, StepsAreEarned, DraftIsKept, InBatch, Busy, Attempting
  <2>7. BatchIsOpen'
    BY <1>1, <2>3, SettledStays DEF ExecutorIInv, BatchIsOpen, Attempting, InBatch, Busy
  <2>8. LateIsLast'
    BY <1>1 DEF ExecutorIInv, LateIsLast
  <2> QED BY <1>1, <2>4, <2>5, <2>6, <2>7, <2>8, SettledStays, JournalStays DEF ExecutorIInv
<1> QED BY <1>3, <1>4

LEMMA ThrowKeeps ==
  ASSUME ExecutorIInv, Throw, loop.at # "off",
         history' \in Seq(Messages), MessagesArePlaced', faults' \in 0 .. MaxFaults,
         UNCHANGED <<active, reports, started, asked, resolved, answers, stopped, effects, late, crashes>>
  PROVE  ExecutorIInv'
<1>1. PICK s \in {"aborted", "failed"} : Return(s)
  BY DEF Throw
<1>2. s \in Statuses
  BY DEF Statuses
<1> QED BY <1>1, <1>2, ReturnKeeps

LEMMA AttemptStepKeeps ==
  ASSUME ExecutorIInv, Attempt
  PROVE  ExecutorIInv'
<1>1. /\ loop.at = "attempt"
      /\ UNCHANGED <<history, active, reports, started, asked, resolved, draft, answers, stopped, effects, late,
                     crashes>>
  BY DEF Attempt, journal, page, world
<1>2. faults' \in 0 .. MaxFaults
  BY FaultsAreBounded DEF ExecutorIInv, Attempt
<1>3. CASE Return("limited")
  <2>1. "limited" \in Statuses
    BY DEF Statuses
  <2> QED BY <1>1, <1>2, <1>3, <2>1, ReturnKeeps, SettledStays
<1>4. CASE Throw
  BY <1>1, <1>2, <1>4, ThrowKeeps, SettledStays
<1>5. CASE loop.attempts < MaxAttempts /\ loop' = [loop EXCEPT !.at = "stream", !.attempts = @ + 1]
  <2>1. loop \in Loops /\ loop.end = "none" /\ loop.next = 1 /\ draft = loop.kept
    BY <1>1 DEF ExecutorIInv, TypeOK, CallsAreOfTheTurn, DraftIsKept, Attempting
  <2>2. loop.attempts + 1 \in 0 .. MaxAttempts
    <3>1. loop.attempts \in 0 .. MaxAttempts
      BY <2>1, LoopFields
    <3> QED BY <1>5, <3>1, BoundsAreNatural
  <2>3. /\ loop' \in Loops /\ loop'.at = "stream" /\ loop'.end = "none" /\ loop'.turn = loop.turn
        /\ loop'.next = 1 /\ loop'.kept = loop.kept
    BY <1>5, <2>1, <2>2 DEF Loops, Places
  <2>4. draft' = loop'.kept /\ loop.at \in Attempting
    BY <1>1, <2>1, <2>3 DEF Attempting
  <2> QED BY <1>1, <1>2, <2>3, <2>4, AttemptKeeps
<1> QED BY <1>3, <1>4, <1>5 DEF Attempt

LEMMA RetryWaitedKeeps ==
  ASSUME ExecutorIInv, RetryWaited
  PROVE  ExecutorIInv'
<1>1. /\ loop.at = "retry"
      /\ UNCHANGED <<history, active, reports, started, asked, resolved, draft, answers, stopped, effects, late,
                     faults, crashes>>
  BY DEF RetryWaited, journal, page, world
<1>2. faults' \in 0 .. MaxFaults
  BY <1>1 DEF ExecutorIInv, TypeOK
<1>3. CASE Return("aborted")
  <2>1. "aborted" \in Statuses
    BY DEF Statuses
  <2> QED BY <1>1, <1>2, <1>3, <2>1, ReturnKeeps, SettledStays
<1>4. CASE Goto("attempt")
  <2>1. loop \in Loops /\ loop.end = "none" /\ loop.next = 1 /\ draft = loop.kept
    BY <1>1 DEF ExecutorIInv, TypeOK, CallsAreOfTheTurn, DraftIsKept, Attempting
  <2>2. /\ loop' \in Loops /\ loop'.at = "attempt" /\ loop'.end = "none" /\ loop'.turn = loop.turn
        /\ loop'.next = 1 /\ loop'.kept = loop.kept
    BY <1>4, <2>1, Moved DEF Places
  <2>3. draft' = loop'.kept /\ loop.at \in Attempting
    BY <1>1, <2>1, <2>2 DEF Attempting
  <2> QED BY <1>1, <1>2, <2>2, <2>3, AttemptKeeps
<1> QED BY <1>3, <1>4 DEF RetryWaited

\* Every stream that completes makes a batch of calls.
LEMMA CompletedCalls ==
  ASSUME NEW o \in Outcomes, o.status = "completed"
  PROVE  o.calls \in Seq(1 .. MaxCalls) /\ Len(o.calls) \in 0 .. MaxCalls /\ o.finish \in Finishes
<1>1. o \notin {Failed(c, FALSE) : c \in Refusals}
  BY DEF Failed
<1>2. o.calls \in Batches(1 .. MaxCalls)
  BY <1>1 DEF Outcomes
<1> QED BY <1>2, BoundsAreNatural DEF Batches, Finishes

LEMMA RespondsKeeps ==
  ASSUME ExecutorIInv, loop.at = "stream", NEW response \in Responses, Responds(response),
         draft' = response.text,
         \A k \in 1 .. Len(response.calls) : response.calls[k][1] = active /\ response.calls[k][2] = loop.turn,
         UNCHANGED <<history, active, reports, started, asked, resolved, answers, stopped, effects, late,
                     faults, crashes>>
  PROVE  ExecutorIInv'
<1>1. loop.turn \in 0 .. MaxTurns /\ loop.attempts \in 0 .. MaxAttempts
  BY LoopFields DEF ExecutorIInv, TypeOK
<1>2. /\ loop' \in Loops /\ loop'.at = "commit" /\ loop'.end = "none" /\ loop'.turn = loop.turn
      /\ loop'.next = 1 /\ loop'.response = response
  BY <1>1, IdleFields DEF Responds, Loops, Places
<1>3. TypeOK'
  <2>1. faults' \in 0 .. MaxFaults
    BY DEF ExecutorIInv, TypeOK
  <2> QED BY <1>2, <2>1, TypeStays, SettledStays DEF ExecutorIInv
<1>4. StartedIsBehind'
  BY <1>2 DEF ExecutorIInv, StartedIsBehind, Attempting, InBatch, Busy
<1>5. CallsAreOfTheTurn' /\ StepsAreEarned' /\ DraftIsKept'
  BY <1>2 DEF ExecutorIInv, CallsAreOfTheTurn, StepsAreEarned, DraftIsKept, InBatch, Busy, Attempting
<1>6. BatchIsOpen'
  BY <1>2, SettledStays DEF ExecutorIInv, BatchIsOpen, Attempting, InBatch, Busy
<1>7. LateIsLast'
  BY DEF ExecutorIInv, LateIsLast
<1> QED BY <1>3, <1>4, <1>5, <1>6, <1>7, SettledStays, JournalStays DEF ExecutorIInv

LEMMA StreamEndsKeeps ==
  ASSUME ExecutorIInv, StreamEnds
  PROVE  ExecutorIInv'
<1>1. /\ loop.at = "stream"
      /\ UNCHANGED <<history, active, reports, started, asked, resolved, answers, stopped, effects, late,
                     faults, crashes>>
  BY DEF StreamEnds, journal, world
<1>2. faults' \in 0 .. MaxFaults
  BY <1>1 DEF ExecutorIInv, TypeOK
<1>3. loop \in Loops /\ loop.end = "none" /\ loop.next = 1 /\ draft = loop.kept /\ loop.at \in Attempting
  BY <1>1 DEF ExecutorIInv, TypeOK, CallsAreOfTheTurn, DraftIsKept, Attempting
<1>4. ASSUME NEW s \in {"aborted", "failed"}, Return(s)
      PROVE  ExecutorIInv'
  <2>1. s \in Statuses
    BY DEF Statuses
  <2> QED BY <1>1, <1>2, <1>4, <2>1, ReturnKeeps, SettledStays
<1>5. ASSUME NEW o \in Outcomes, StreamFails(o)
      PROVE  ExecutorIInv'
  <2>1. CASE loop' = [loop EXCEPT !.at = "attempt", !.overflowed = TRUE]
    <3>1. /\ loop' \in Loops /\ loop'.at = "attempt" /\ loop'.end = "none" /\ loop'.turn = loop.turn
          /\ loop'.next = 1 /\ loop'.kept = loop.kept
      BY <1>3, <2>1 DEF Loops, Places
    <3> QED BY <1>1, <1>2, <1>3, <1>5, <3>1, AttemptKeeps DEF StreamFails
  <2>2. CASE loop.retries < MaxRetries /\ loop' = [loop EXCEPT !.at = "retry", !.retries = @ + 1]
    <3>1. loop.retries + 1 \in 0 .. MaxRetries
      <4>1. loop.retries \in 0 .. MaxRetries
        BY <1>3, LoopFields
      <4> QED BY <2>2, <4>1, BoundsAreNatural
    <3>2. /\ loop' \in Loops /\ loop'.at = "retry" /\ loop'.end = "none" /\ loop'.turn = loop.turn
          /\ loop'.next = 1 /\ loop'.kept = loop.kept
      BY <1>3, <2>2, <3>1 DEF Loops, Places
    <3> QED BY <1>1, <1>2, <1>3, <1>5, <3>2, AttemptKeeps DEF StreamFails
  <2> QED BY <1>4, <1>5, <2>1, <2>2 DEF StreamFails
<1>6. ASSUME NEW o \in Outcomes, o.status = "completed", Escalate(o)
      PROVE  ExecutorIInv'
  <2>1. loop.budget + 1 \in 1 .. Budgets
    <3>1. loop.budget \in 1 .. Budgets
      BY <1>3, LoopFields
    <3> QED BY <1>6, <3>1, BoundsAreNatural DEF Escalate
  <2>2. /\ loop' \in Loops /\ loop'.at = "attempt" /\ loop'.end = "none" /\ loop'.turn = loop.turn
        /\ loop'.next = 1 /\ loop'.kept = loop.kept
    BY <1>3, <1>6, <2>1 DEF Escalate, Loops, Places
  <2> QED BY <1>1, <1>2, <1>3, <1>6, <2>2, AttemptKeeps DEF Escalate, Reset
<1>7. ASSUME NEW o \in Outcomes
      PROVE  loop.kept \o Said(o) \in Seq(Nat)
  <2>1. Said(o) \in Seq(Nat) /\ loop.kept \in Seq(Nat)
    BY <1>3, LoopFields, BoundsAreNatural DEF Said
  <2> QED BY <2>1
<1>8. ASSUME NEW o \in Outcomes, o.status = "completed", ContinueAnswer(o)
      PROVE  ExecutorIInv'
  <2>1. loop.continued + 1 \in 0 .. MaxContinuations
    <3>1. loop.continued \in 0 .. MaxContinuations
      BY <1>3, LoopFields
    <3> QED BY <1>8, <3>1, BoundsAreNatural DEF ContinueAnswer
  <2>2. /\ loop' \in Loops /\ loop'.at = "attempt" /\ loop'.end = "none" /\ loop'.turn = loop.turn
        /\ loop'.next = 1 /\ loop'.kept = loop.kept \o Said(o)
    BY <1>3, <1>7, <1>8, <2>1 DEF ContinueAnswer, Loops, Places
  <2> QED BY <1>1, <1>2, <1>3, <1>8, <2>2, AttemptKeeps DEF ContinueAnswer, Reset
<1>9. ASSUME NEW o \in Outcomes, o.status = "completed", AcceptCut(o)
      PROVE  ExecutorIInv'
  <2> DEFINE response == [text |-> loop.kept \o Said(o), calls |-> <<>>, finish |-> "length"]
  <2>1. "length" \in Finishes /\ <<>> \in Batches(CallIds)
    BY <1>9, CompletedCalls, BoundsAreNatural DEF AcceptCut, Batches
  <2>2. response \in Responses
    BY <1>7, <2>1 DEF Responses
  <2>3. Responds(response) /\ draft' = response.text /\ Len(response.calls) = 0
    BY <1>3, <1>9 DEF AcceptCut
  <2> HIDE DEF response
  <2> QED BY <1>1, <2>2, <2>3, RespondsKeeps
<1>10. ASSUME NEW o \in Outcomes, o.status = "completed", AcceptWhole(o)
       PROVE  ExecutorIInv'
  <2> DEFINE response == [text |-> loop.kept \o Said(o), calls |-> Ids(o.calls), finish |-> o.finish]
  <2>1. /\ o.calls \in Seq(1 .. MaxCalls) /\ Len(o.calls) \in 0 .. MaxCalls /\ o.finish \in Finishes
    BY <1>10, CompletedCalls
  <2>2. active \in Runs /\ loop.turn \in 1 .. MaxTurns
    <3>1. active \in 0 .. MaxRuns /\ active # 0 /\ loop.turn \in 0 .. MaxTurns
      BY <1>1, LoopFields DEF ExecutorIInv, TypeOK
    <3>2. loop.turn # 0
      BY <1>1, <1>3 DEF ExecutorIInv, CallsAreOfTheTurn
    <3> QED BY <3>1, <3>2, BoundsAreNatural DEF Runs
  <2>3. /\ Ids(o.calls) \in Seq(CallIds) /\ Len(Ids(o.calls)) = Len(o.calls)
        /\ \A k \in 1 .. Len(o.calls) : Ids(o.calls)[k] = <<active, loop.turn, o.calls[k]>>
    <3>1. \A k \in 1 .. Len(o.calls) : <<active, loop.turn, o.calls[k]>> \in CallIds
      <4>1. \A k \in 1 .. Len(o.calls) : o.calls[k] \in 1 .. MaxCalls
        BY <2>1, ElementOfSeq
      <4> QED BY <2>2, <4>1 DEF CallIds
    <3> QED BY <2>1, <3>1 DEF Ids, Run
  <2>4. response \in Responses
    BY <1>7, <2>1, <2>3 DEF Responses, Batches
  <2>5. Responds(response) /\ draft' = response.text /\ response.calls = Ids(o.calls)
    BY <1>3, <1>10 DEF AcceptWhole
  <2>6. \A k \in 1 .. Len(response.calls) :
          response.calls[k][1] = active /\ response.calls[k][2] = loop.turn
    BY <2>3, <2>5
  <2> HIDE DEF response
  <2> QED BY <1>1, <2>4, <2>5, <2>6, RespondsKeeps
<1> QED BY <1>4, <1>5, <1>6, <1>8, <1>9, <1>10 DEF StreamEnds

\* A step to a boundary or the head of a turn, from a settled batch of the turn.
LEMMA TurnKeeps ==
  ASSUME ExecutorIInv, loop.at # "off", loop' \in Loops, loop'.end = "none", loop'.at \in {"turn", "boundary"},
         loop.at = "boundary" \/ loop'.at = "boundary", loop'.turn = loop.turn,
         loop.at \in {"commit", "boundary"} \/ (loop.at = "call" /\ loop.next = Len(loop.response.calls) + 1),
         loop'.at = "turn" => ~stopped,
         history' \in Seq(Messages), MessagesArePlaced', Settled(history'), faults' \in 0 .. MaxFaults,
         UNCHANGED <<active, reports, started, asked, resolved, answers, stopped, effects, late, crashes>>
  PROVE  ExecutorIInv'
<1>1. TypeOK'
  BY TypeStays DEF ExecutorIInv
<1>2. CallsAreOfTheTurn' /\ StepsAreEarned' /\ DraftIsKept'
  BY DEF CallsAreOfTheTurn, StepsAreEarned, DraftIsKept, InBatch, Busy, Attempting
<1>3. StartedIsBehind'
  <2>1. \A c \in started : c[1] = active => c[2] <= loop.turn
    <3> SUFFICES ASSUME NEW c \in started, c[1] = active PROVE c[2] <= loop.turn
      OBVIOUS
    <3>1. c[2] \in Nat /\ loop.turn \in Nat
      BY CallIdFields, LoopFields, BoundsAreNatural DEF ExecutorIInv, TypeOK
    <3>2. CASE loop.at = "commit"
      BY <3>1, <3>2 DEF ExecutorIInv, StartedIsBehind, Attempting
    <3>3. CASE loop.at = "boundary"
      BY <3>3 DEF ExecutorIInv, StartedIsBehind
    <3>4. CASE loop.at = "call" /\ loop.next = Len(loop.response.calls) + 1
      <4>1. Reached = Len(loop.response.calls)
        <5>1. loop.response.calls \in Seq(CallIds)
          BY LoopFields, ResponseFields DEF ExecutorIInv, TypeOK
        <5> QED BY <3>4, <5>1 DEF Reached, Busy
      <4>2. \A k \in 1 .. Reached : loop.response.calls[k][2] = loop.turn
        BY <3>4, <4>1 DEF ExecutorIInv, CallsAreOfTheTurn, InBatch
      <4> QED BY <3>1, <3>4, <4>2 DEF ExecutorIInv, StartedIsBehind, InBatch
    <3> QED BY <3>2, <3>3, <3>4
  <2> QED BY <2>1 DEF ExecutorIInv, StartedIsBehind, InBatch, Busy, Attempting
<1>4. BatchIsOpen'
  BY DEF BatchIsOpen, InBatch, Busy
<1>5. LateIsLast'
  BY DEF ExecutorIInv, LateIsLast
<1> QED BY <1>1, <1>2, <1>3, <1>4, <1>5, JournalStays DEF ExecutorIInv

LEMMA ActiveIsRun ==
  ASSUME TypeOK, loop.at # "off"
  PROVE  active \in Runs
BY BoundsAreNatural DEF TypeOK, Runs

LEMMA AssistantIsMessage ==
  ASSUME NEW r \in Runs, NEW calls \in Batches(CallIds), NEW empty \in BOOLEAN
  PROVE  /\ Assistant(r, calls, empty) \in Messages /\ Assistant(r, calls, empty).role = "assistant"
         /\ Assistant(r, calls, empty).calls = calls
BY DEF Assistant, Messages

LEMMA CommitResponseKeeps ==
  ASSUME ExecutorIInv, CommitResponse
  PROVE  ExecutorIInv'
<1> DEFINE answer == loop.response
           message == Assistant(Run, answer.calls, answer.text = <<>> /\ answer.calls = <<>>)
<1>1. /\ loop.at = "commit"
      /\ UNCHANGED <<active, reports, started, asked, resolved, answers, stopped, effects, late, crashes>>
  BY DEF CommitResponse, world
<1>2. faults' \in 0 .. MaxFaults
  BY FaultsAreBounded DEF ExecutorIInv, CommitResponse
<1>3. /\ loop \in Loops /\ loop.end = "none" /\ loop.next = 1 /\ loop.turn # 0
      /\ answer \in Responses /\ active \in Runs /\ history \in Seq(Messages)
      /\ Settled(history) /\ \A j \in 1 .. Len(history) : PlacedIn(history, j)
  BY <1>1, LoopFields, ActiveIsRun
  DEF ExecutorIInv, TypeOK, CallsAreOfTheTurn, BatchIsOpen, MessagesArePlaced, Attempting
<1>4. /\ message \in Messages /\ message.role # "tool" /\ message.calls = answer.calls
  BY <1>3, ResponseFields, AssistantIsMessage DEF Run
<1>5. ASSUME NEW s \in {"limited", "failed"}, Return(s), history' \in Seq(Messages), MessagesArePlaced'
      PROVE  ExecutorIInv'
  <2>1. s \in Statuses
    BY DEF Statuses
  <2> QED BY <1>1, <1>2, <1>5, <2>1, ReturnKeeps
<1>6. CASE UNCHANGED history
  <2>1. Return("limited") \/ Throw
    BY <1>3, <1>4, <1>6, Appending DEF CommitResponse
  <2> QED BY <1>1, <1>2, <1>5, <1>6, <2>1, ThrowKeeps, SettledStays
<1> HIDE DEF message
<1>7. CASE history' = Append(history, message)
  <2>1. history' \in Seq(Messages) /\ MessagesArePlaced'
    <3>1. history' \in Seq(Messages)
      BY <1>3, <1>4, <1>7, Appending
    <3>2. \A j \in 1 .. Len(history') : PlacedIn(history', j)
      BY <1>3, <1>4, <1>7, AnswerFollows
    <3> QED BY <3>1, <3>2 DEF MessagesArePlaced
  <2>2. /\ Len(history) + 1 \in 1 .. Len(history') /\ history'[Len(history) + 1] = message
        /\ IsCaller(history', Len(history) + 1, Len(history')) /\ Len(history') - (Len(history) + 1) = 0
    BY <1>3, <1>4, <1>7, EndsWithCaller
  <2>3. CASE /\ answer.calls = <<>>
             /\ loop' = [loop EXCEPT !.at = "boundary", !.response = NoResponse, !.natural = TRUE]
    <3>1. loop' \in Loops /\ loop'.at = "boundary" /\ loop'.end = "none" /\ loop'.turn = loop.turn
      BY <1>3, <2>3, IdleFields DEF Loops, Places
    <3>2. Settled(history')
      BY <1>4, <2>2, <2>3 DEF Settled
    <3> QED BY <1>1, <1>2, <2>1, <3>1, <3>2, TurnKeeps
  <2>4. CASE loop' = [loop EXCEPT !.at = "call", !.response.text = <<>>]
    <3>1. [answer EXCEPT !.text = <<>>] \in Responses /\ [answer EXCEPT !.text = <<>>].calls = answer.calls
      <4>1. <<>> \in Seq(Nat)
        OBVIOUS
      <4> QED BY <1>3, <4>1 DEF Responses
    <3>2. loop' = [loop EXCEPT !.at = "call", !.response = [answer EXCEPT !.text = <<>>]]
      BY <2>4
    <3>3. /\ loop' \in Loops /\ loop'.at = "call" /\ loop'.end = "none" /\ loop'.turn = loop.turn
          /\ loop'.next = 1 /\ loop'.response.calls = loop.response.calls
      BY <1>3, <3>1, <3>2 DEF Loops, Places
    <3>4. TypeOK'
      BY <1>1, <1>2, <2>1, <3>3, TypeStays DEF ExecutorIInv
    <3>5. CallsAreOfTheTurn' /\ StepsAreEarned' /\ DraftIsKept'
      <4>1. Len(loop.response.calls) \in Nat
        BY <1>3, ResponseFields, BoundsAreNatural
      <4> QED BY <1>1, <3>3, <4>1
          DEF ExecutorIInv, CallsAreOfTheTurn, StepsAreEarned, DraftIsKept, InBatch, Busy, Attempting
    <3>6. StartedIsBehind'
      BY <1>1, <3>3 DEF ExecutorIInv, StartedIsBehind, InBatch, Busy, Attempting
    <3>7. BatchIsOpen'
      <4>1. OpenAt(history', loop'.response.calls, loop'.next - 1)
        BY <1>4, <2>2, <3>3 DEF OpenAt
      <4> QED BY <3>3, <4>1 DEF BatchIsOpen, InBatch, Busy, Attempting
    <3>8. LateIsLast'
      BY <1>1 DEF ExecutorIInv, LateIsLast
    <3> QED BY <1>1, <2>1, <3>4, <3>5, <3>6, <3>7, <3>8, JournalStays DEF ExecutorIInv
  <2> QED BY <1>4, <1>5, <1>6, <1>7, <2>1, <2>3, <2>4 DEF CommitResponse, message
<1> QED BY <1>6, <1>7 DEF CommitResponse, message

LEMMA BoundaryKeeps ==
  ASSUME ExecutorIInv, Boundary
  PROVE  ExecutorIInv'
<1>1. /\ loop.at = "boundary"
      /\ UNCHANGED <<active, reports, started, asked, resolved, answers, stopped, effects, late, faults, crashes>>
  BY DEF Boundary, page, world
<1>2. faults' \in 0 .. MaxFaults
  BY <1>1 DEF ExecutorIInv, TypeOK
<1>3. /\ loop \in Loops /\ loop.end = "none" /\ active \in Runs /\ history \in Seq(Messages)
      /\ Settled(history) /\ \A j \in 1 .. Len(history) : PlacedIn(history, j)
  BY <1>1, ActiveIsRun DEF ExecutorIInv, TypeOK, BatchIsOpen, MessagesArePlaced
<1>4. ASSUME NEW s \in {"limited", "completed", "aborted"}, Return(s), UNCHANGED history
      PROVE  ExecutorIInv'
  <2>1. s \in Statuses
    BY DEF Statuses
  <2> QED BY <1>1, <1>2, <1>4, <2>1, ReturnKeeps, SettledStays
<1>5. ASSUME Goto("turn"), ~stopped, history' \in Seq(Messages), MessagesArePlaced', Settled(history')
      PROVE  ExecutorIInv'
  <2>1. loop' \in Loops /\ loop'.at = "turn" /\ loop'.end = "none" /\ loop'.turn = loop.turn
    BY <1>3, <1>5, Moved DEF Places
  <2> QED BY <1>1, <1>2, <1>5, <2>1, TurnKeeps
<1>6. CASE history' = Append(history, Steer(Run)) /\ Goto("turn") /\ ~stopped
  <2>1. Steer(Run) \in Messages /\ Steer(Run).role # "tool" /\ Steer(Run).calls = <<>>
    BY <1>3, UserIsMessage DEF Run
  <2>2. history' \in Seq(Messages)
    BY <1>3, <1>6, <2>1, Appending
  <2>3. \A j \in 1 .. Len(history') : PlacedIn(history', j)
    BY <1>3, <1>6, <2>1, AnswerFollows
  <2>4. Settled(history')
    <3>1. /\ Len(history) + 1 \in 1 .. Len(history') /\ history'[Len(history) + 1].calls = <<>>
          /\ IsCaller(history', Len(history) + 1, Len(history')) /\ Len(history') - (Len(history) + 1) = 0
      BY <1>3, <1>6, <2>1, EndsWithCaller
    <3> QED BY <3>1 DEF Settled
  <2> QED BY <1>5, <1>6, <2>2, <2>3, <2>4 DEF MessagesArePlaced
<1>7. CASE UNCHANGED history /\ Goto("turn") /\ ~stopped
  BY <1>3, <1>5, <1>7, SettledStays
<1> QED BY <1>4, <1>6, <1>7 DEF Boundary

-------------------------------------------------------------------------------
(* The steps of the batch *)

\* A step that moves the loop to, or along, the work on one call.
LEMMA BusyMoves ==
  ASSUME ExecutorIInv, NEW p \in Busy, Goto(p), loop.at \in InBatch,
         loop.at \in Busy \/ loop.next <= Len(loop.response.calls),
         UNCHANGED <<history, active>>
  PROVE  /\ loop' \in Loops /\ loop'.at = p /\ loop'.end = "none" /\ Call' = Call
         /\ Call \in CallIds /\ Call[1] = active /\ Call[2] = loop.turn
         /\ CallsAreOfTheTurn' /\ DraftIsKept' /\ BatchIsOpen' /\ MessagesArePlaced'
         /\ history' \in Seq(Messages)
<1>1. loop \in Loops /\ loop.end = "none" /\ p \in Places /\ p \in InBatch
  BY DEF ExecutorIInv, TypeOK, Places, Busy, InBatch
<1>2. /\ loop' \in Loops /\ loop'.at = p /\ loop'.turn = loop.turn
      /\ loop'.response = loop.response /\ loop'.next = loop.next /\ loop'.end = loop.end
  BY <1>1, Moved
<1>3. /\ Call \in CallIds /\ Call[1] = active /\ Call[2] = loop.turn
      /\ loop.next \in 1 .. Len(loop.response.calls)
  BY CallIsTyped DEF ExecutorIInv
<1>4. loop.next <= Len(loop.response.calls) + 1 /\ loop.next <= Len(loop.response.calls)
  BY <1>3
<1>5. CallsAreOfTheTurn' /\ DraftIsKept' /\ BatchIsOpen'
  BY <1>1, <1>2, <1>4 DEF ExecutorIInv, CallsAreOfTheTurn, DraftIsKept, BatchIsOpen, Busy, InBatch, Attempting
<1> QED BY <1>1, <1>2, <1>3, <1>5, SettledStays DEF Call

\* How far the loop has come stays while it works on one call.
LEMMA ReachStays ==
  ASSUME ExecutorIInv, NEW p \in Busy, Goto(p), loop.at \in Busy, UNCHANGED <<active, reports, started>>
  PROVE  StartedIsBehind'
<1>1. loop \in Loops /\ p \in Places
  BY DEF ExecutorIInv, TypeOK, Busy, Places
<1>2. loop'.at = p /\ loop'.turn = loop.turn /\ loop'.response = loop.response /\ loop'.next = loop.next
  BY <1>1, Moved
<1>3. Reached' = Reached
  BY <1>2 DEF Reached
<1> QED BY <1>2, <1>3 DEF ExecutorIInv, StartedIsBehind, Busy, InBatch, Attempting

\* A step of the work on one call that leaves what it takes effect by.
LEMMA BusyKeeps ==
  ASSUME ExecutorIInv, NEW p \in Busy, Goto(p), loop.at \in Busy, StepsAreEarned',
         faults' \in 0 .. MaxFaults,
         \A c \in late : c[1] = active => p = "outcome",
         UNCHANGED <<history, active, reports, started, asked, resolved, answers, stopped, effects, late, crashes>>
  PROVE  ExecutorIInv'
<1>1. /\ loop' \in Loops /\ loop'.at = p /\ loop'.end = "none"
      /\ CallsAreOfTheTurn' /\ DraftIsKept' /\ BatchIsOpen' /\ MessagesArePlaced'
      /\ history' \in Seq(Messages)
  BY BusyMoves DEF InBatch
<1>2. TypeOK'
  BY <1>1, TypeStays DEF ExecutorIInv, Busy
<1>3. StartedIsBehind'
  BY ReachStays
<1>4. LateIsLast'
  BY <1>1 DEF ExecutorIInv, LateIsLast
<1> QED BY <1>1, <1>2, <1>3, <1>4, JournalStays DEF ExecutorIInv

\* Before its effect no call of an open Run was late, except at its end.
LEMMA NotLateYet ==
  ASSUME ExecutorIInv, loop.at \in Busy \ {"outcome"}
  PROVE  \A c \in late : c[1] # active
BY DEF ExecutorIInv, LateIsLast, Busy

LEMMA AuthorizeKeeps ==
  ASSUME ExecutorIInv, Authorize
  PROVE  ExecutorIInv'
<1>1. /\ loop.at = "tool" /\ loop.at \in Busy \ {"outcome"} /\ loop.at \in InBatch
      /\ UNCHANGED <<history, active, reports, started, asked, resolved, answers, stopped, effects, late,
                     faults, crashes>>
  BY DEF Authorize, journal, page, world, Busy, InBatch
<1>2. faults' \in 0 .. MaxFaults
  BY <1>1 DEF ExecutorIInv, TypeOK
<1>3. PICK p \in {"outcome", "effect", "ask"} : Goto(p)
  BY DEF Authorize
<1>4. p \in Busy
  BY DEF Busy
<1>5. loop'.at = p /\ Call' = Call
  BY <1>1, <1>3, <1>4, BusyMoves
<1>6. StepsAreEarned'
  BY <1>1, <1>5 DEF ExecutorIInv, StepsAreEarned, Busy
<1> QED BY <1>1, <1>2, <1>3, <1>4, <1>6, BusyKeeps, NotLateYet

LEMMA ApprovalTimesOutKeeps ==
  ASSUME ExecutorIInv, ApprovalTimesOut
  PROVE  ExecutorIInv'
<1>1. /\ loop.at = "wait" /\ loop.at \in Busy /\ loop.at \in InBatch
      /\ Goto("outcome") /\ "outcome" \in Busy
      /\ UNCHANGED <<history, active, reports, started, asked, resolved, answers, stopped, effects, late,
                     faults, crashes>>
  BY DEF ApprovalTimesOut, journal, page, world, Busy, InBatch
<1>2. faults' \in 0 .. MaxFaults
  BY <1>1 DEF ExecutorIInv, TypeOK
<1>3. loop'.at = "outcome"
  BY <1>1, BusyMoves
<1>4. StepsAreEarned'
  BY <1>3 DEF StepsAreEarned, Busy
<1> QED BY <1>1, <1>2, <1>4, BusyKeeps

LEMMA AskApprovalKeeps ==
  ASSUME ExecutorIInv, AskApproval
  PROVE  ExecutorIInv'
<1>1. /\ loop.at = "ask" /\ loop.at \in Busy \ {"outcome"} /\ loop.at \in InBatch
      /\ UNCHANGED <<history, active, reports, started, resolved, answers, stopped, effects, late, crashes>>
  BY DEF AskApproval, page, world, Busy, InBatch
<1>2. faults' \in 0 .. MaxFaults
  BY FaultsAreBounded DEF ExecutorIInv, AskApproval
<1>3. CASE Goto("outcome") /\ UNCHANGED asked
  <2>1. "outcome" \in Busy
    BY DEF Busy
  <2>2. loop'.at = "outcome"
    BY <1>1, <1>3, <2>1, BusyMoves
  <2>3. StepsAreEarned'
    BY <2>2 DEF StepsAreEarned, Busy
  <2> QED BY <1>1, <1>2, <1>3, <2>1, <2>3, BusyKeeps
<1>4. CASE Goto("wait") /\ asked' = asked \cup {Call}
  <2>1. "wait" \in Busy
    BY DEF Busy
  <2>2. /\ loop' \in Loops /\ loop'.at = "wait" /\ loop'.end = "none" /\ Call' = Call
        /\ Call \in CallIds
        /\ CallsAreOfTheTurn' /\ DraftIsKept' /\ BatchIsOpen' /\ MessagesArePlaced'
        /\ history' \in Seq(Messages)
    BY <1>1, <1>4, <2>1, BusyMoves
  <2>3. /\ Call \in started /\ effects[Call] = 0 /\ Call \notin asked
        /\ asked \in SUBSET started /\ started \in SUBSET CallIds
        /\ answers \in Seq([decision : Decisions, call : asked])
        /\ \A c \in CallIds : resolved[c] # <<>> => c \in asked
    BY <1>1 DEF ExecutorIInv, TypeOK, StepsAreEarned, AnswersWereAsked, Busy
  <2>4. asked' \in SUBSET started
    BY <1>4, <2>3
  <2>5. TypeOK'
    <3>1. TypeOK
      BY DEF ExecutorIInv
    <3> QED BY <1>1, <1>2, <2>2, <2>4, <3>1 DEF TypeOK
  <2>6. StartedIsBehind'
    BY <1>1, <1>4, <2>1, ReachStays
  <2>7. StepsAreEarned'
    BY <1>1, <1>4, <2>2, <2>3 DEF StepsAreEarned, Busy
  <2>8. AnswersWereAsked'
    <3>1. [decision : Decisions, call : asked] \subseteq [decision : Decisions, call : asked']
      BY <1>4
    <3>2. answers' \in Seq([decision : Decisions, call : asked'])
      BY <1>1, <2>3, <3>1, SequencesGrow
    <3> QED BY <1>1, <1>4, <2>3, <3>2 DEF AnswersWereAsked
  <2>9. LateIsLast' /\ EffectsWereAllowed'
    <3>1. LateIsLast'
      BY <1>1, NotLateYet DEF ExecutorIInv, LateIsLast
    <3>2. EffectsWereAllowed'
      BY <1>1, <1>4, <2>3 DEF ExecutorIInv, EffectsWereAllowed
    <3> QED BY <3>1, <3>2
  <2> QED BY <2>2, <2>5, <2>6, <2>7, <2>8, <2>9 DEF ExecutorIInv
<1> QED BY <1>3, <1>4 DEF AskApproval

LEMMA NextCallKeeps ==
  ASSUME ExecutorIInv, NextCall
  PROVE  ExecutorIInv'
<1>1. /\ loop.at = "call" /\ loop.at \in InBatch
      /\ UNCHANGED <<history, active, reports, asked, resolved, draft, answers, stopped, effects, late, crashes>>
  BY DEF NextCall, page, world, InBatch
<1>2. faults' \in 0 .. MaxFaults
  BY FaultsAreBounded DEF ExecutorIInv, NextCall
<1>3. /\ loop \in Loops /\ loop.end = "none" /\ history \in Seq(Messages)
      /\ loop.next <= Len(loop.response.calls) + 1 /\ Len(loop.response.calls) \in Nat
      /\ loop.next \in Nat \ {0}
      /\ OpenAt(history, loop.response.calls, loop.next - 1)
  <2>1. loop \in Loops /\ loop.end = "none" /\ history \in Seq(Messages)
    BY <1>1 DEF ExecutorIInv, TypeOK
  <2>2. Len(loop.response.calls) \in 0 .. MaxCalls /\ loop.next \in 1 .. MaxCalls + 1
    BY <2>1, LoopFields, ResponseFields
  <2>3. /\ loop.next <= Len(loop.response.calls) + 1
        /\ OpenAt(history, loop.response.calls, loop.next - 1)
    BY <1>1 DEF ExecutorIInv, CallsAreOfTheTurn, BatchIsOpen
  <2> QED BY <2>1, <2>2, <2>3, BoundsAreNatural
<1>4. ASSUME NEW s \in {"limited", "failed", "aborted"}, Return(s), UNCHANGED started
      PROVE  ExecutorIInv'
  <2>1. s \in Statuses
    BY DEF Statuses
  <2> QED BY <1>1, <1>2, <1>4, <2>1, ReturnKeeps, SettledStays
<1>5. CASE /\ loop.next > Len(loop.response.calls) /\ UNCHANGED started
           /\ loop' = [loop EXCEPT !.at = "boundary", !.response = NoResponse, !.next = 1]
  <2>1. loop.next = Len(loop.response.calls) + 1
    BY <1>3, <1>5
  <2>2. Settled(history)
    <3>1. loop.next - 1 = Len(loop.response.calls)
      BY <1>3, <2>1
    <3> QED BY <1>3, <3>1 DEF Settled, OpenAt
  <2>3. 1 \in 1 .. MaxCalls + 1
    BY BoundsAreNatural
  <2>4. loop' \in Loops /\ loop'.at = "boundary" /\ loop'.end = "none" /\ loop'.turn = loop.turn
    <3>1. NoResponse \in Responses /\ "boundary" \in Places
      BY IdleFields DEF Places
    <3> QED BY <1>3, <1>5, <2>3, <3>1 DEF Loops
  <2>5. history' \in Seq(Messages) /\ MessagesArePlaced' /\ Settled(history')
    BY <1>1, <2>2, SettledStays
  <2> QED BY <1>1, <1>2, <1>5, <2>1, <2>4, <2>5, TurnKeeps
<1>6. ASSUME loop.next <= Len(loop.response.calls), ~stopped, NEW p \in {"tool", "outcome"}, Goto(p),
             started' = IF p = "tool" THEN started \cup {Call} ELSE started,
             p = "tool" => ~Repeated
      PROVE  ExecutorIInv'
  <2>1. p \in Busy
    BY DEF Busy
  <2>2. /\ loop' \in Loops /\ loop'.at = p /\ loop'.end = "none" /\ Call' = Call
        /\ Call \in CallIds /\ Call[1] = active /\ Call[2] = loop.turn
        /\ CallsAreOfTheTurn' /\ DraftIsKept' /\ BatchIsOpen' /\ MessagesArePlaced'
        /\ history' \in Seq(Messages)
    BY <1>1, <1>6, <2>1, BusyMoves
  <2>3. loop'.turn = loop.turn /\ loop'.response = loop.response /\ loop'.next = loop.next
    BY <1>3, <1>6, Moved DEF Places
  <2>4. started' \in SUBSET CallIds /\ started \subseteq started' /\ asked \in SUBSET started'
    BY <1>6, <2>2 DEF ExecutorIInv, TypeOK
  <2>5. TypeOK'
    <3>1. TypeOK
      BY DEF ExecutorIInv
    <3> QED BY <1>1, <1>2, <1>6, <2>2, <2>4, <3>1 DEF TypeOK
  <2>6. Reached = loop.next - 1 /\ Reached' = loop.next
    BY <1>1, <2>1, <2>2, <2>3 DEF Reached, Busy
  <2>7. StartedIsBehind'
    <3>1. \A c \in started : /\ c[1] = active \/ reports[c[1]] # "none"
                             /\ c[1] = active => \/ c[2] < loop.turn
                                                \/ \E k \in 1 .. loop.next : c = loop.response.calls[k]
      BY <1>1, <1>3, <2>6 DEF ExecutorIInv, StartedIsBehind
    <3>2. Call[1] = active /\ \E k \in 1 .. loop.next : Call = loop.response.calls[k]
      <4>1. loop.next \in 1 .. loop.next
        BY <1>3
      <4> QED BY <2>2, <4>1 DEF Call
    <3>3. \A c \in started' : /\ c[1] = active \/ reports[c[1]] # "none"
                              /\ c[1] = active => \/ c[2] < loop.turn
                                                 \/ \E k \in 1 .. loop.next : c = loop.response.calls[k]
      BY <1>6, <3>1, <3>2
    <3> QED BY <1>1, <1>6, <2>2, <2>3, <2>6, <3>3 DEF StartedIsBehind, Attempting
  <2>8. CASE p = "outcome"
    <3>1. StepsAreEarned'
      BY <2>2, <2>8 DEF StepsAreEarned, Busy
    <3>2. LateIsLast'
      BY <1>1, <1>6, <2>2, <2>8 DEF ExecutorIInv, LateIsLast
    <3>3. UNCHANGED started
      BY <1>6, <2>8
    <3> QED BY <1>1, <2>2, <2>5, <2>7, <3>1, <3>2, <3>3, JournalStays DEF ExecutorIInv
  <2>9. CASE p = "tool"
    <3>1. Call \notin started
      <4>1. \A c \in started : c[1] = active => \/ c[2] < loop.turn
                                              \/ \E k \in 1 .. loop.next - 1 : c = loop.response.calls[k]
        BY <1>1, <2>6 DEF ExecutorIInv, StartedIsBehind
      <4>2. \A k \in 1 .. loop.next - 1 : loop.response.calls[k] # Call
        BY <1>6, <2>9 DEF Repeated
      <4>3. loop.turn \in Nat
        BY <1>3, LoopFields, BoundsAreNatural
      <4> QED BY <2>2, <4>1, <4>2, <4>3
    <3>2. Call \notin asked /\ effects[Call] = 0
      BY <2>2, <3>1 DEF ExecutorIInv, TypeOK, EffectsWereAllowed
    <3>3. StepsAreEarned'
      BY <1>1, <1>6, <2>2, <2>9, <3>2 DEF StepsAreEarned, Busy
    <3>4. LateIsLast'
      BY <1>1, <1>6, <2>2, <2>4 DEF ExecutorIInv, LateIsLast
    <3>5. AnswersWereAsked' /\ EffectsWereAllowed'
      BY <1>1, <2>4 DEF ExecutorIInv, AnswersWereAsked, EffectsWereAllowed
    <3> QED BY <2>2, <2>5, <2>7, <3>3, <3>4, <3>5 DEF ExecutorIInv
  <2> QED BY <1>6, <2>8, <2>9
<1> QED BY <1>1, <1>4, <1>5, <1>6 DEF NextCall

LEMMA TakeEffectKeeps ==
  ASSUME ExecutorIInv, TakeEffect
  PROVE  ExecutorIInv'
<1>1. /\ loop.at = "effect" /\ loop.at \in Busy \ {"outcome"} /\ loop.at \in InBatch
      /\ Goto("outcome") /\ "outcome" \in Busy
      /\ UNCHANGED <<history, active, reports, started, asked, resolved, draft, answers, stopped, faults, crashes>>
  BY DEF TakeEffect, journal, page, Busy, InBatch
<1>2. faults' \in 0 .. MaxFaults
  BY <1>1 DEF ExecutorIInv, TypeOK
<1>3. /\ loop' \in Loops /\ loop'.at = "outcome" /\ loop'.end = "none"
      /\ Call \in CallIds /\ Call[1] = active
      /\ CallsAreOfTheTurn' /\ DraftIsKept' /\ BatchIsOpen' /\ MessagesArePlaced'
      /\ history' \in Seq(Messages)
  BY <1>1, BusyMoves
<1>4. StepsAreEarned'
  BY <1>3 DEF StepsAreEarned, Busy
<1>5. CASE UNCHANGED world
  BY <1>1, <1>2, <1>4, <1>5, BusyKeeps DEF world
<1>6. CASE /\ effects' = [effects EXCEPT ![Call] = @ + 1]
           /\ late' = IF stopped THEN late \cup {Call} ELSE late
  <2>1. /\ Call \in started /\ effects[Call] = 0
        /\ Call \in asked => resolved[Call] # <<>> /\ resolved[Call][1] = "allow"
        /\ effects \in [CallIds -> Nat] /\ late \in SUBSET CallIds
    BY <1>1 DEF ExecutorIInv, TypeOK, StepsAreEarned, Busy
  <2>2. /\ effects' \in [CallIds -> Nat] /\ effects'[Call] = 1
        /\ \A c \in CallIds : c # Call => effects'[c] = effects[c]
    BY <1>3, <1>6, <2>1
  <2>3. late' \in SUBSET CallIds
    BY <1>3, <1>6, <2>1
  <2>4. TypeOK'
    <3>1. TypeOK
      BY DEF ExecutorIInv
    <3> QED BY <1>1, <1>3, <2>2, <2>3, <3>1 DEF TypeOK
  <2>5. StartedIsBehind'
    BY <1>1, ReachStays
  <2>6. EffectsWereAllowed'
    BY <1>1, <2>1, <2>2 DEF ExecutorIInv, EffectsWereAllowed
  <2>7. AnswersWereAsked'
    BY <1>1 DEF ExecutorIInv, AnswersWereAsked
  <2>8. LateIsLast'
    <3>1. \A c \in late : c[1] # active
      BY <1>1, NotLateYet
    <3> QED BY <1>1, <1>3, <1>6, <2>1, <3>1 DEF ExecutorIInv, LateIsLast
  <2> QED BY <1>3, <1>4, <2>4, <2>5, <2>6, <2>7, <2>8 DEF ExecutorIInv
<1> QED BY <1>5, <1>6 DEF TakeEffect

LEMMA ToolIsMessage ==
  ASSUME NEW c \in CallIds
  PROVE  Tool(c) \in Messages /\ Tool(c).role = "tool" /\ Tool(c).call = c
<1>1. <<>> \in Batches(CallIds)
  BY BoundsAreNatural DEF Batches
<1>2. c[1] \in Runs
  BY CallIdFields
<1> QED BY <1>1, <1>2 DEF Tool, Messages

LEMMA CommitOutcomeKeeps ==
  ASSUME ExecutorIInv, CommitOutcome
  PROVE  ExecutorIInv'
<1>1. /\ loop.at = "outcome" /\ loop.at \in Busy /\ loop.at \in InBatch
      /\ UNCHANGED <<active, reports, started, asked, resolved, draft, answers, stopped, effects, late, crashes>>
  BY DEF CommitOutcome, page, world, Busy, InBatch
<1>2. faults' \in 0 .. MaxFaults
  BY FaultsAreBounded DEF ExecutorIInv, CommitOutcome
<1>3. CASE Throw /\ UNCHANGED history
  BY <1>1, <1>2, <1>3, ThrowKeeps, SettledStays
<1>4. CASE /\ history' = Append(history, Tool(Call))
           /\ loop' = [loop EXCEPT !.at = "call", !.next = @ + 1]
  <2>1. /\ loop \in Loops /\ loop.end = "none" /\ history \in Seq(Messages)
        /\ \A j \in 1 .. Len(history) : PlacedIn(history, j)
    BY <1>1 DEF ExecutorIInv, TypeOK, MessagesArePlaced
  <2>2. /\ Call \in CallIds /\ Call[1] = active
        /\ loop.next \in 1 .. Len(loop.response.calls)
    BY <1>1, CallIsTyped DEF ExecutorIInv
  <2>3. Len(loop.response.calls) \in 0 .. MaxCalls
    BY <2>1, LoopFields, ResponseFields
  <2>4. /\ loop.next \in Nat \ {0} /\ loop.next <= Len(loop.response.calls) /\ loop.next + 1 \in 1 .. MaxCalls + 1
        /\ (loop.next + 1) - 1 = loop.next
    BY <2>2, <2>3, BoundsAreNatural
  <2>5. /\ loop' \in Loops /\ loop'.at = "call" /\ loop'.end = "none" /\ loop'.turn = loop.turn
        /\ loop'.next = loop.next + 1 /\ loop'.response = loop.response
    BY <1>4, <2>1, <2>4 DEF Loops, Places
  <2>6. history' \in Seq(Messages) /\ MessagesArePlaced' /\ OpenAt(history', loop.response.calls, loop.next)
    <3>1. Tool(Call) \in Messages /\ Tool(Call).role = "tool" /\ Tool(Call).call = loop.response.calls[loop.next]
      BY <2>2, ToolIsMessage DEF Call
    <3>2. OpenAt(history, loop.response.calls, loop.next - 1)
      BY <1>1 DEF ExecutorIInv, BatchIsOpen
    <3>3. /\ \A j \in 1 .. Len(history') : PlacedIn(history', j)
          /\ OpenAt(history', loop.response.calls, loop.next)
      BY <1>4, <2>1, <2>4, <3>1, <3>2, ResultFollows
    <3>4. history' \in Seq(Messages)
      BY <1>4, <2>1, <3>1, Appending
    <3> QED BY <3>3, <3>4 DEF MessagesArePlaced
  <2>7. TypeOK'
    BY <1>1, <1>2, <2>5, <2>6, TypeStays DEF ExecutorIInv
  <2>8. CallsAreOfTheTurn' /\ StepsAreEarned' /\ DraftIsKept'
    BY <1>1, <2>4, <2>5
    DEF ExecutorIInv, CallsAreOfTheTurn, StepsAreEarned, DraftIsKept, InBatch, Busy, Attempting
  <2>9. StartedIsBehind'
    <3>1. Reached = loop.next /\ Reached' = loop.next
      BY <1>1, <2>4, <2>5 DEF Reached, Busy
    <3> QED BY <1>1, <2>5, <3>1 DEF ExecutorIInv, StartedIsBehind, InBatch, Attempting
  <2>10. BatchIsOpen'
    <3>1. loop'.next - 1 = loop.next
      BY <2>4, <2>5
    <3> QED BY <2>5, <2>6, <3>1 DEF BatchIsOpen, Attempting
  <2>11. LateIsLast'
    BY <1>1, <2>5 DEF ExecutorIInv, LateIsLast
  <2> QED BY <1>1, <2>6, <2>7, <2>8, <2>9, <2>10, <2>11, JournalStays DEF ExecutorIInv
<1> QED BY <1>3, <1>4 DEF CommitOutcome

-------------------------------------------------------------------------------
(* The approvals, and the end of the Run *)

LEMMA AnswerArrivesKeeps ==
  ASSUME ExecutorIInv, NEW d \in Decisions, AnswerArrives(d)
  PROVE  ExecutorIInv'
<1>1. /\ loop.at = "wait" /\ answers' = Append(answers, [decision |-> d, call |-> Call])
      /\ UNCHANGED <<history, active, reports, started, asked, resolved, loop, draft, stopped, effects, late,
                     faults, crashes>>
  BY DEF AnswerArrives, journal, world
<1>2. AnswersWereAsked'
  <2>1. Call \in asked /\ answers \in Seq([decision : Decisions, call : asked])
    BY <1>1 DEF ExecutorIInv, StepsAreEarned, AnswersWereAsked
  <2>2. [decision |-> d, call |-> Call] \in [decision : Decisions, call : asked]
    BY <2>1
  <2>3. answers' \in Seq([decision : Decisions, call : asked])
    BY <1>1, <2>1, <2>2
  <2> QED BY <1>1, <2>3 DEF ExecutorIInv, AnswersWereAsked
<1>3. TypeOK' /\ CallsAreOfTheTurn' /\ DraftIsKept'
  BY <1>1 DEF ExecutorIInv, TypeOK, CallsAreOfTheTurn, DraftIsKept
<1>4. StartedIsBehind' /\ StepsAreEarned'
  BY <1>1 DEF ExecutorIInv, StartedIsBehind, StepsAreEarned, Reached, Call
<1>5. LateIsLast' /\ EffectsWereAllowed'
  BY <1>1 DEF ExecutorIInv, LateIsLast, EffectsWereAllowed
<1>6. MessagesArePlaced' /\ BatchIsOpen'
  BY <1>1 DEF ExecutorIInv, MessagesArePlaced, BatchIsOpen
<1> QED BY <1>2, <1>3, <1>4, <1>5, <1>6 DEF ExecutorIInv

LEMMA RemovingIsTyped ==
  ASSUME NEW S, NEW s \in Seq(S), NEW i \in 1 .. Len(s)
  PROVE  RemoveAt(s, i) \in Seq(S)
<1>1. SubSeq(s, 1, i - 1) \in Seq(S) /\ SubSeq(s, i + 1, Len(s)) \in Seq(S)
  OBVIOUS
<1> QED BY <1>1 DEF RemoveAt

LEMMA AnswerResolvesKeeps ==
  ASSUME ExecutorIInv, NEW i \in 1 .. Len(answers), AnswerResolves(i)
  PROVE  ExecutorIInv'
<1> DEFINE a == answers[i]
<1>1. /\ answers' = RemoveAt(answers, i)
      /\ UNCHANGED <<history, active, reports, started, asked, draft, stopped, effects, late, faults, crashes>>
  BY DEF AnswerResolves, world
<1>2. /\ answers \in Seq([decision : Decisions, call : asked])
      /\ asked \in SUBSET started /\ started \in SUBSET CallIds
      /\ resolved \in [CallIds -> Seq(Decisions)]
      /\ \A c \in CallIds : resolved[c] # <<>> => c \in asked
  BY DEF ExecutorIInv, TypeOK, AnswersWereAsked
<1>3. a \in [decision : Decisions, call : asked] /\ answers' \in Seq([decision : Decisions, call : asked])
  BY <1>1, <1>2, ElementOfSeq, RemovingIsTyped
<1> HIDE DEF a
<1>4. a.call \in asked /\ a.call \in CallIds /\ a.decision \in Decisions
  BY <1>2, <1>3
<1>6. \/ UNCHANGED <<resolved, loop>>
      \/ /\ resolved' = [resolved EXCEPT ![a.call] = Append(@, a.decision)]
         /\ IF loop.at = "wait" /\ Call = a.call
            THEN Goto(IF a.decision = "allow" THEN "effect" ELSE "outcome")
            ELSE UNCHANGED loop
  BY DEF AnswerResolves, a
<1>7. CASE UNCHANGED <<resolved, loop>>
  <2>1. TypeOK' /\ CallsAreOfTheTurn' /\ DraftIsKept'
    BY <1>1, <1>7 DEF ExecutorIInv, TypeOK, CallsAreOfTheTurn, DraftIsKept
  <2>2. StartedIsBehind' /\ StepsAreEarned'
    BY <1>1, <1>7 DEF ExecutorIInv, StartedIsBehind, StepsAreEarned, Reached, Call
  <2>3. LateIsLast' /\ EffectsWereAllowed'
    BY <1>1, <1>7 DEF ExecutorIInv, LateIsLast, EffectsWereAllowed
  <2>4. MessagesArePlaced' /\ BatchIsOpen'
    BY <1>1, <1>7 DEF ExecutorIInv, MessagesArePlaced, BatchIsOpen
  <2>5. AnswersWereAsked'
    BY <1>1, <1>2, <1>3, <1>7 DEF AnswersWereAsked
  <2> QED BY <2>1, <2>2, <2>3, <2>4, <2>5 DEF ExecutorIInv
<1>8. CASE resolved' = [resolved EXCEPT ![a.call] = Append(@, a.decision)]
  <2>1. /\ resolved' \in [CallIds -> Seq(Decisions)]
        /\ \A c \in CallIds : c # a.call => resolved'[c] = resolved[c]
        /\ resolved'[a.call] = Append(resolved[a.call], a.decision)
    BY <1>2, <1>4, <1>8
  <2>2. /\ resolved'[a.call] # <<>>
        /\ resolved[a.call] = <<>> => resolved'[a.call][1] = a.decision
        /\ resolved[a.call] # <<>> => resolved'[a.call][1] = resolved[a.call][1]
    <3>1. resolved[a.call] \in Seq(Decisions)
      BY <1>2, <1>4
    <3> QED BY <1>4, <2>1, <3>1
  <2>3. AnswersWereAsked'
    BY <1>1, <1>2, <1>3, <1>4, <2>1 DEF AnswersWereAsked
  <2>4. EffectsWereAllowed'
    BY <1>1, <2>1, <2>2 DEF ExecutorIInv, EffectsWereAllowed
  <2>5. \A c \in CallIds : resolved[c] # <<>> /\ resolved[c][1] = "allow"
                           => resolved'[c] # <<>> /\ resolved'[c][1] = "allow"
    BY <2>1, <2>2
  <2>6. CASE UNCHANGED loop /\ ~(loop.at = "wait" /\ Call = a.call)
    <3>1. StepsAreEarned'
      <4>1. loop.at \in Busy => Call \in CallIds
        BY CallIsTyped DEF ExecutorIInv, InBatch
      <4>2. Call' = Call
        BY <2>6 DEF Call
      <4> QED BY <1>1, <1>4, <2>1, <2>5, <2>6, <4>1, <4>2 DEF ExecutorIInv, StepsAreEarned, Busy
    <3>2. TypeOK' /\ CallsAreOfTheTurn' /\ DraftIsKept'
      BY <1>1, <2>1, <2>6 DEF ExecutorIInv, TypeOK, CallsAreOfTheTurn, DraftIsKept
    <3>3. StartedIsBehind'
      BY <1>1, <2>6 DEF ExecutorIInv, StartedIsBehind, Reached
    <3>4. LateIsLast'
      BY <1>1, <2>6 DEF ExecutorIInv, LateIsLast
    <3>5. MessagesArePlaced' /\ BatchIsOpen'
      BY <1>1, <2>6 DEF ExecutorIInv, MessagesArePlaced, BatchIsOpen
    <3> QED BY <2>3, <2>4, <3>1, <3>2, <3>3, <3>4, <3>5 DEF ExecutorIInv
  <2>7. CASE /\ loop.at = "wait" /\ Call = a.call
             /\ Goto(IF a.decision = "allow" THEN "effect" ELSE "outcome")
    <3> DEFINE p == IF a.decision = "allow" THEN "effect" ELSE "outcome"
    <3>1. Goto(p) /\ p \in Busy /\ loop.at \in Busy /\ loop.at \in InBatch /\ loop.at \in Busy \ {"outcome"}
      BY <2>7 DEF Busy, InBatch
    <3>2. p = "effect" => a.decision = "allow"
      OBVIOUS
    <3>3. p # "tool" /\ p # "ask" /\ p # "wait" /\ p # "off" /\ p # "report"
      OBVIOUS
    <3> HIDE DEF p
    <3>4. /\ loop' \in Loops /\ loop'.at = p /\ loop'.end = "none" /\ Call' = Call
          /\ CallsAreOfTheTurn' /\ DraftIsKept' /\ BatchIsOpen' /\ MessagesArePlaced'
      BY <1>1, <3>1, BusyMoves
    <3>5. StepsAreEarned'
      <4>1. Call \in started /\ effects[Call] = 0 /\ resolved[Call] = <<>>
        BY <2>7 DEF ExecutorIInv, StepsAreEarned, Busy
      <4>2. p = "effect" => resolved'[Call] # <<>> /\ resolved'[Call][1] = "allow"
        BY <2>2, <2>7, <3>2, <4>1
      <4> QED BY <1>1, <3>3, <3>4, <4>1, <4>2 DEF StepsAreEarned
    <3>6. StartedIsBehind'
      BY <1>1, <3>1, ReachStays
    <3>7. TypeOK'
      <4>1. TypeOK
        BY DEF ExecutorIInv
      <4> QED BY <1>1, <2>1, <2>7, <3>3, <3>4, <4>1 DEF TypeOK
    <3>8. LateIsLast'
      BY <1>1, <3>1, NotLateYet DEF ExecutorIInv, LateIsLast
    <3> QED BY <2>3, <2>4, <3>4, <3>5, <3>6, <3>7, <3>8 DEF ExecutorIInv
  <2> QED BY <1>6, <1>7, <2>6, <2>7
<1> QED BY <1>6, <1>7, <1>8

\* A step that closes the Run, with its report.
LEMMA ClosesKeeps ==
  ASSUME ExecutorIInv, active # 0, NEW s \in Statuses, reports' = [reports EXCEPT ![active] = s],
         active' = 0, loop' = Idle, answers' = answers \/ answers' = <<>>, stopped' \in BOOLEAN,
         faults' \in 0 .. MaxFaults, crashes' \in 0 .. MaxCrashes,
         UNCHANGED <<history, started, asked, resolved, effects, late>>
  PROVE  ExecutorIInv'
<1>1. loop' \in Loops /\ loop'.at = "off" /\ loop'.end = "none"
  BY IdleFields
<1>2. active \in Runs /\ active \in 0 .. MaxRuns /\ s # "none"
  BY BoundsAreNatural DEF ExecutorIInv, TypeOK, Runs, Statuses
<1>3. /\ reports' \in [Runs -> Statuses \cup {"none"}] /\ reports'[active] # "none"
      /\ \A r \in Runs : reports[r] # "none" => reports'[r] # "none"
  BY <1>2 DEF ExecutorIInv, TypeOK
<1>4. TypeOK'
  <2>1. TypeOK /\ 0 \in 0 .. MaxRuns
    BY BoundsAreNatural DEF ExecutorIInv
  <2> QED BY <1>1, <1>3, <2>1 DEF TypeOK
<1>5. \A c \in started : c[1] \in Runs /\ c[1] # 0
  BY CallIdFields DEF ExecutorIInv, TypeOK
<1>6. StartedIsBehind'
  <2>1. \A c \in started : reports'[c[1]] # "none"
    BY <1>3, <1>5 DEF ExecutorIInv, StartedIsBehind
  <2> QED BY <1>5, <2>1 DEF StartedIsBehind
<1>7. CallsAreOfTheTurn' /\ StepsAreEarned' /\ DraftIsKept' /\ BatchIsOpen'
  BY <1>1 DEF CallsAreOfTheTurn, StepsAreEarned, DraftIsKept, BatchIsOpen, InBatch, Busy, Attempting
<1>8. AnswersWereAsked'
  <2>1. <<>> \in Seq([decision : Decisions, call : asked])
    OBVIOUS
  <2> QED BY <2>1 DEF ExecutorIInv, AnswersWereAsked
<1>9. LateIsLast' /\ EffectsWereAllowed' /\ MessagesArePlaced'
  <2>1. LateIsLast'
    BY <1>5 DEF ExecutorIInv, LateIsLast
  <2>2. EffectsWereAllowed'
    BY DEF ExecutorIInv, EffectsWereAllowed
  <2> QED BY <2>1, <2>2, SettledStays
<1> QED BY <1>4, <1>6, <1>7, <1>8, <1>9 DEF ExecutorIInv

LEMMA FinishRunKeeps ==
  ASSUME ExecutorIInv, FinishRun
  PROVE  ExecutorIInv'
<1>1. /\ loop.at = "report"
      /\ UNCHANGED <<history, started, asked, resolved, answers, stopped, effects, late, crashes>>
  BY DEF FinishRun, page, world
<1>2. faults' \in 0 .. MaxFaults
  BY FaultsAreBounded DEF FinishRun, ExecutorIInv
<1>3. CASE reports' = [reports EXCEPT ![active] = loop.end] /\ active' = 0 /\ loop' = Idle
  <2>1. loop.end \in Statuses /\ active # 0 /\ stopped' \in BOOLEAN /\ crashes' \in 0 .. MaxCrashes
    BY <1>1 DEF ExecutorIInv, TypeOK, Loops
  <2> QED BY <1>1, <1>2, <1>3, <2>1, ClosesKeeps
<1>4. CASE Lose /\ UNCHANGED <<active, reports>>
  BY <1>1, <1>2, <1>4, LoseKeeps
<1> QED BY <1>3, <1>4 DEF FinishRun, Run

LEMMA CrashKeeps ==
  ASSUME ExecutorIInv, Crash
  PROVE  ExecutorIInv'
<1>1. /\ active # 0 /\ reports' = [reports EXCEPT ![active] = "interrupted"] /\ active' = 0 /\ loop' = Idle
      /\ answers' = <<>> /\ stopped' = FALSE /\ crashes < MaxCrashes /\ crashes' = crashes + 1
      /\ UNCHANGED <<history, started, asked, resolved, effects, late, faults>>
  BY DEF Crash, world, Run
<1>2. faults' \in 0 .. MaxFaults /\ crashes \in 0 .. MaxCrashes
  BY <1>1 DEF ExecutorIInv, TypeOK
<1>3. crashes' \in 0 .. MaxCrashes
  BY <1>1, <1>2, BoundsAreNatural
<1>4. "interrupted" \in Statuses
  BY DEF Statuses
<1> QED BY <1>1, <1>2, <1>3, <1>4, ClosesKeeps

LEMMA StopKeeps ==
  ASSUME ExecutorIInv, Stop
  PROVE  ExecutorIInv'
<1>1. /\ active # 0 /\ ~stopped /\ stopped' = TRUE
      /\ UNCHANGED <<history, active, reports, started, asked, resolved, draft, answers, effects, late,
                     faults, crashes>>
  BY DEF Stop, journal, page, world
<1>2. \A c \in late : c[1] # active
  BY <1>1 DEF ExecutorIInv, LateIsLast
<1>3. LateIsLast'
  BY <1>1, <1>2 DEF ExecutorIInv, LateIsLast
<1>4. AnswersWereAsked' /\ EffectsWereAllowed' /\ MessagesArePlaced' /\ history' \in Seq(Messages)
  BY <1>1, SettledStays, JournalStays
<1>5. CASE UNCHANGED loop
  <2>1. TypeOK' /\ CallsAreOfTheTurn' /\ DraftIsKept' /\ BatchIsOpen'
    BY <1>1, <1>5 DEF ExecutorIInv, TypeOK, CallsAreOfTheTurn, DraftIsKept, BatchIsOpen
  <2>2. StartedIsBehind' /\ StepsAreEarned'
    BY <1>1, <1>5 DEF ExecutorIInv, StartedIsBehind, StepsAreEarned, Reached, Call
  <2> QED BY <1>3, <1>4, <2>1, <2>2 DEF ExecutorIInv
<1>6. CASE loop.at = "wait" /\ Goto("outcome")
  <2>1. "outcome" \in Busy /\ loop.at \in Busy /\ loop.at \in InBatch
    BY <1>6 DEF Busy, InBatch
  <2>2. /\ loop' \in Loops /\ loop'.at = "outcome" /\ loop'.end = "none"
        /\ CallsAreOfTheTurn' /\ DraftIsKept' /\ BatchIsOpen'
    BY <1>1, <1>6, <2>1, BusyMoves
  <2>3. TypeOK'
    <3>1. TypeOK
      BY DEF ExecutorIInv
    <3> QED BY <1>1, <2>2, <3>1 DEF TypeOK
  <2>4. StepsAreEarned'
    BY <2>2 DEF StepsAreEarned, Busy
  <2>5. StartedIsBehind'
    BY <1>1, <1>6, <2>1, ReachStays
  <2> QED BY <1>3, <1>4, <2>2, <2>3, <2>4, <2>5 DEF ExecutorIInv
<1> QED BY <1>5, <1>6 DEF Stop

LEMMA NothingKeeps ==
  ASSUME ExecutorIInv, UNCHANGED vars
  PROVE  ExecutorIInv'
<1>1. UNCHANGED <<history, active, reports, started, asked, resolved, loop, draft, answers, stopped, effects, late,
                 faults, crashes>>
  BY DEF vars, journal, page, world
<1>2. TypeOK' /\ CallsAreOfTheTurn' /\ DraftIsKept' /\ BatchIsOpen' /\ MessagesArePlaced'
  BY <1>1 DEF ExecutorIInv, TypeOK, CallsAreOfTheTurn, DraftIsKept, BatchIsOpen, MessagesArePlaced
<1>3. StartedIsBehind' /\ StepsAreEarned'
  BY <1>1 DEF ExecutorIInv, StartedIsBehind, StepsAreEarned, Reached, Call
<1>4. LateIsLast' /\ EffectsWereAllowed' /\ AnswersWereAsked'
  BY <1>1 DEF ExecutorIInv, LateIsLast, EffectsWereAllowed, AnswersWereAsked
<1> QED BY <1>2, <1>3, <1>4 DEF ExecutorIInv

-------------------------------------------------------------------------------
(* The theorems *)

LEMMA ExecutorIInvInit == Init => ExecutorIInv
<1> SUFFICES ASSUME Init PROVE ExecutorIInv
  OBVIOUS
<1>1. TypeOK
  <2>1. <<>> \in Seq(Messages) /\ <<>> \in Seq(Decisions) /\ {} \in SUBSET CallIds
    OBVIOUS
  <2>2. 0 \in 0 .. MaxRuns /\ 0 \in 0 .. MaxFaults /\ 0 \in 0 .. MaxCrashes /\ 0 \in Nat
    BY BoundsAreNatural
  <2> QED BY <2>1, <2>2, IdleFields DEF Init, TypeOK
<1>2. AnswersWereAsked
  <2>1. <<>> \in Seq([decision : Decisions, call : {}])
    OBVIOUS
  <2> QED BY <2>1 DEF Init, AnswersWereAsked
<1>3. CallsAreOfTheTurn /\ StepsAreEarned /\ DraftIsKept /\ BatchIsOpen
  BY IdleFields DEF Init, CallsAreOfTheTurn, StepsAreEarned, DraftIsKept, BatchIsOpen, InBatch, Busy, Attempting
<1>4. StartedIsBehind /\ LateIsLast /\ EffectsWereAllowed /\ MessagesArePlaced
  BY DEF Init, StartedIsBehind, LateIsLast, EffectsWereAllowed, MessagesArePlaced
<1> QED BY <1>1, <1>2, <1>3, <1>4 DEF ExecutorIInv

LEMMA ExecutorIInvStep ==
  ASSUME ExecutorIInv, [Next]_vars
  PROVE  ExecutorIInv'
<1>1. CASE LoopStep
  BY <1>1, TurnStartsKeeps, AttemptStepKeeps, StreamEndsKeeps, RetryWaitedKeeps, CommitResponseKeeps, NextCallKeeps,
     AuthorizeKeeps, AskApprovalKeeps, TakeEffectKeeps, CommitOutcomeKeeps, BoundaryKeeps, FinishRunKeeps
  DEF LoopStep
<1>2. CASE Next
  BY <1>1, <1>2, BeginRunKeeps, AnswerArrivesKeeps, AnswerResolvesKeeps, ApprovalTimesOutKeeps, StopKeeps, CrashKeeps
  DEF Next
<1> QED BY <1>2, NothingKeeps

LEMMA ExecutorIInvHolds == Spec => []ExecutorIInv
<1>1. Init => ExecutorIInv
  BY ExecutorIInvInit
<1>2. ExecutorIInv /\ [Next]_vars => ExecutorIInv'
  BY ExecutorIInvStep
<1> QED BY <1>1, <1>2, PTL DEF Spec

\* The Session, the loop and the approvals keep their types: no attempt, retry,
\* continuation or turn beyond its limit.
THEOREM LoopTypeCorrect == Spec => []TypeOK
<1>1. ExecutorIInv => TypeOK
  BY DEF ExecutorIInv
<1> QED BY <1>1, ExecutorIInvHolds, PTL

\* What is committed as the assistant message is what the page shows of it.
THEOREM CommittedIsShown == Spec => []DraftIsCommitted
<1>1. ExecutorIInv => DraftIsCommitted
  BY DEF ExecutorIInv, DraftIsKept, DraftIsCommitted
<1> QED BY <1>1, ExecutorIInvHolds, PTL

\* A call takes effect once, after its record and its first answer, and at most
\* one of a Run after its stop.
THEOREM CallsTakeEffectOnce == Spec => []EffectsAreRecorded
<1>1. ASSUME ExecutorIInv
      PROVE  EffectsAreRecorded
  <2>1. ASSUME NEW r \in Runs
        PROVE  Cardinality({c \in late : c[1] = r}) <= 1
    <3> DEFINE L == {c \in late : c[1] = r}
    <3>1. CASE L = {}
      BY <3>1, FS_EmptySet
    <3>2. CASE L # {}
      <4>1. PICK d \in L : TRUE
        BY <3>2
      <4>2. L = {d}
        BY <1>1, <4>1 DEF ExecutorIInv, LateIsLast
      <4>3. Cardinality({d}) = 1
        BY FS_Singleton
      <4> QED BY <4>2, <4>3
    <3> QED BY <3>1, <3>2
  <2> QED BY <1>1, <2>1 DEF ExecutorIInv, EffectsWereAllowed, EffectsAreRecorded
<1> QED BY <1>1, ExecutorIInvHolds, PTL

\* In the Session every result stands behind its call, and a Run goes on only
\* with a settled batch.
THEOREM ResultsFollowTheirCalls == Spec => []BatchesStayWhole
<1>1. ExecutorIInv => BatchesStayWhole
  BY PlacedIsWhole DEF ExecutorIInv, TypeOK
<1> QED BY <1>1, ExecutorIInvHolds, PTL
====
