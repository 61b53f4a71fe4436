------------------------------ MODULE ContextEngine ------------------------------
(***************************************************************************)
(* How the messages of a Session become the messages of a model request:   *)
(* packages/context-engine, with the records it leaves in the Session      *)
(* (session-store), the fork a child Agent inherits and the older          *)
(* projection of agent-core/context-strategy.ts.                           *)
(*                                                                         *)
(* A message is its place in the Session, its role, its calls and its      *)
(* size; the text is the place.  Sizes are small numbers in the order of   *)
(* the thresholds they are compared with.  The model declares its window.  *)
(***************************************************************************)
EXTENDS Integers, Sequences, FiniteSetsExt

CONSTANTS MaxConversationMessages, LatestToolResultsToKeep, LatestToolBatchChars,
          LargeToolResultChars,
          HardLimit, TargetTokens, SummaryTarget,  \* hardLimit and the ratios of it
          PreviewSize,    \* a preview placeholder
          CompactMin,     \* smaller results are not compacted
          ForkSegments, ForkTokens, LegacyChars,
          ResultSizes,    \* sizes a tool result can have
          Ratios,         \* characters per token the provider may report
          MaxCalls,       \* bound: calls of one answer
          MaxMessages     \* bound: messages of the Session

\* validatePolicy, and what defaultContextPolicy derives from the policy
ValidPolicy ==
  /\ {MaxConversationMessages, LatestToolBatchChars, LargeToolResultChars, HardLimit} \subseteq Nat \ {0}
  /\ LatestToolResultsToKeep \in Nat
  /\ {SummaryTarget, TargetTokens} \subseteq Nat \ {0}
  /\ SummaryTarget <= TargetTokens /\ TargetTokens < HardLimit

ContextAssumption ==
  /\ ValidPolicy
  /\ {PreviewSize, CompactMin, ForkSegments, ForkTokens, LegacyChars, MaxCalls, MaxMessages} \subseteq Nat \ {0}
  /\ ResultSizes \subseteq Nat \ {0} /\ Ratios \subseteq Nat \ {0} /\ 1 \in Ratios

VARIABLES
  \* the Session
  canonical,      \* Session.messages
  saved,          \* messages whose text an artifact of the Session keeps
  seen,           \* calls whose result is in a committed manifest
  summary,        \* the latest context summary, or NoSummary
  \* the loop and the engine
  at,             \* where the Run stands
  activeRequest,  \* the message the Run works on
  continued,      \* an answer cut by the output limit is being continued
  forced,         \* forceSummary of the next prepare
  recovered,      \* the turn has recovered from an overflow
  ratio,          \* characters per token, as last observed
  job,            \* the prepare in progress
  request         \* the messages of the request in flight

session == <<canonical, saved, seen, summary>>
turn == <<activeRequest, continued, forced, recovered>>
vars == <<session, at, turn, ratio, job, request>>

Message(id, role, size, calls, of) ==
  [id |-> id, role |-> role, size |-> size, calls |-> calls, of |-> of, view |-> "full", stands |-> {id}]
User(id) == Message(id, "user", 1, {}, <<>>)
Calls(id, n) == {<<id, k>> : k \in 1 .. n}
Assistant(id, n) == Message(id, "assistant", 1, Calls(id, n), <<>>)
Result(id, call, size) == Message(id, "tool", size, {}, call)

NoSummary == [covered |-> 0, source |-> <<>>, tail |-> <<>>]
NoJob == [base |-> <<>>, messages |-> <<>>, made |-> NoSummary, compaction |-> "none"]

Sum(ns) == LET s[i \in 0 .. Len(ns)] == IF i = 0 THEN 0 ELSE s[i - 1] + ns[i] IN s[Len(ns)]
Nth(places, k) == CHOOSE i \in places : Cardinality({j \in places : j < i}) = k - 1
Picked(ms, places) == [k \in 1 .. Cardinality(places) |-> ms[Nth(places, k)]]  \* the messages at some places
Chars(ms) == 1 + Sum([i \in 1 .. Len(ms) |-> ms[i].size])  \* the system message counts 1
From(ms, i) == SubSeq(ms, i, Len(ms))

\* requestMeasure and allocateTokens
Measure(ms, r) == (Chars(ms) + r - 1) \div r

-------------------------------------------------------------------------------
(* Projections of a message list *)

\* conversationSegments: a segment starts at every user message.
Starts(ms) == {i \in 1 .. Len(ms) : i = 1 \/ ms[i].role = "user"}

\* closedToolBatch: the results of the last assistant message with calls, if
\* all are there.
ClosedBatch(ms) ==
  LET callers == {i \in 1 .. Len(ms) : ms[i].calls # {}}
      last == Max(callers)
      results == {i \in last + 1 .. Len(ms) : \A j \in last + 1 .. i : ms[j].role = "tool"}
  IN IF callers # {} /\ Cardinality(results) = Cardinality(ms[last].calls) THEN results ELSE {}

Placeholder(m, view, size) == [m EXCEPT !.view = view, !.size = size]
Standing(view, ids) == [User(0) EXCEPT !.view = view, !.stands = ids]  \* a message for others

\* persistToolResult answers with a ref
Persist(m, lost) == m.role = "tool" /\ m.id \notin lost

\* layerLargeToolResults: from the largest result of the closed batch down,
\* until the batch and each result are small enough.
LargeToolResults(ms, lost) ==
  LET batch == ClosedBatch(ms)
      Before(i) == {j \in batch : ms[j].size > ms[i].size \/ (ms[j].size = ms[i].size /\ j < i)}
      order == [k \in 1 .. Cardinality(batch) |-> CHOOSE i \in batch : Cardinality(Before(i)) = k - 1]
      layer[k \in 0 .. Cardinality(batch)] ==
        IF k = 0
        THEN [messages |-> ms, stored |-> {}, chars |-> Sum([n \in DOMAIN order |-> ms[order[n]].size])]
        ELSE LET s == layer[k - 1]
                 m == ms[order[k]] IN
             IF (s.chars <= LatestToolBatchChars /\ m.size <= LargeToolResultChars) \/ ~Persist(m, lost)
             THEN s
             ELSE [messages |-> [s.messages EXCEPT ![order[k]] = Placeholder(m, "preview", PreviewSize)],
                   stored |-> s.stored \cup m.stands,
                   chars |-> s.chars - Max({0, m.size - PreviewSize})]
  IN layer[Cardinality(batch)]

Kept(ms) == [messages |-> ms, stored |-> {}, archived |-> FALSE]
Archive(ms, first, tail) ==
  LET middle == UNION {ms[i].stands : i \in first .. tail - 1}
  IN [messages |-> SubSeq(ms, 1, first - 1)
                     \o <<Standing("archive", middle)>> \o From(ms, tail),
      stored |-> middle, archived |-> TRUE]

\* Mutant: the middle is cut by the number of messages, not between segments.
ArchiveMiddleByCount(ms, lost) ==
  LET tail == Len(ms) - MaxConversationMessages + 3
      first == Min(Starts(ms) \ {1})
  IN IF Len(ms) <= MaxConversationMessages \/ Cardinality(Starts(ms)) < 3 \/ 0 \in lost THEN Kept(ms)
     ELSE Archive(ms, first, Max({tail, first + 1}))

\* layerArchiveMiddle: of too many messages the first segment stays, and as many
\* of the last as fit; what lies between goes to one transcript.
ArchiveMiddle(ms, lost) ==
  LET starts == Starts(ms)
      first == Min(starts \ {1})
      available == Max({1, MaxConversationMessages - (first - 1) - 1})
      tail == Min({k \in starts \ {1} : k = Max(starts) \/ Len(ms) - k + 1 <= available})
  IN IF Len(ms) <= MaxConversationMessages \/ Cardinality(starts) < 3 \/ 0 \in lost THEN Kept(ms)
     ELSE IF tail = first THEN Kept(ms) ELSE Archive(ms, first, tail)

\* layerOldToolResults: over the target, results of earlier requests give way
\* from the oldest on, but for the last few.
OldToolResults(ms, read0, r, lost) ==
  LET Later(k) == {j \in k .. Len(ms) : ms[j].role = "tool"}
      layer[k \in 0 .. Len(ms)] ==
        IF k = 0 THEN [messages |-> ms, stored |-> {}]
        ELSE LET s == layer[k - 1]
                 m == ms[k] IN
             IF \/ Measure(s.messages, r) <= TargetTokens \/ Cardinality(Later(k)) <= LatestToolResultsToKeep
                \/ m.of \notin read0 \/ m.size < CompactMin \/ ~Persist(m, lost)
             THEN s
             ELSE [messages |-> [s.messages EXCEPT ![k] = Placeholder(m, "compact", 1)],
                   stored |-> s.stored \cup m.stands]
  IN layer[Len(ms)]

\* Mutant: the summary is taken to cover one message more than it was made of.
CachedViewOffByOne(ms, record) ==
  LET n == record.covered IN
  IF n = 0 \/ n > Len(ms) THEN <<>>
  ELSE <<Standing("summary", UNION {record.source[i].stands : i \in 1 .. n})>> \o From(ms, n + 2)

\* cachedSummaryView: the last summary stands for the messages it was made of,
\* if those and the tail it left are unchanged.
CachedView(ms, record) ==
  LET n == record.covered
      tail == SubSeq(ms, n + 1, Min({Len(ms), n + Len(record.tail)}))
  IN IF n = 0 \/ n > Len(ms) THEN <<>>
     ELSE IF SubSeq(ms, 1, n) # record.source \/ tail # record.tail THEN <<>>
     ELSE <<Standing("summary", UNION {ms[i].stands : i \in 1 .. n})>> \o From(ms, n + 1)

\* summarize: the segment the tail starts with.
TailSegment(ms, r) ==
  Min({k \in Starts(ms) \ {1} : k = Max(Starts(ms)) \/ Measure(From(ms, k), r) <= SummaryTarget})

\* pairedMessages
Paired(ms) ==
  LET Known(i) == \E j \in 1 .. i - 1 : ms[i].of \in ms[j].calls
  IN Picked(ms, {i \in 1 .. Len(ms) : ms[i].role = "tool" => Known(i)})

\* completeToolPairs: an assistant message with an unanswered call is dropped,
\* and results of calls nobody made.  The other results of such a message stay.
CompletePairs(ms) ==
  LET calls == UNION {ms[i].calls : i \in 1 .. Len(ms)}
      results == {ms[i].of : i \in {j \in 1 .. Len(ms) : ms[j].role = "tool"}}
  IN Picked(ms, {i \in 1 .. Len(ms) : IF ms[i].role = "tool" THEN ms[i].of \in calls
                                      ELSE ms[i].calls \subseteq results})

\* projectAgentFork: the last segments of the request that fit, with complete
\* pairs, for a child Agent.
ForkOf(whole) ==
  LET starts == Starts(whole)
      size(k) == Sum([i \in 1 .. Len(whole) - k + 1 |-> whole[k + i - 1].size])
      Among(k) == Cardinality({j \in starts : j >= k}) <= ForkSegments
      k == Min({j \in starts : j = Max(starts) \/ (Among(j) /\ size(j) <= ForkTokens)})
  IN IF whole = <<>> THEN <<>>
     ELSE IF size(k) <= ForkTokens THEN From(whole, k)
     ELSE IF whole[Len(whole)].role = "user" THEN <<whole[Len(whole)]>> ELSE <<>>
Fork(ms) == ForkOf(CompletePairs(ms))

\* projectLegacyHistory: a checkpoint and the last messages from a user message
\* on; a Run starts with it when the strategy is "legacy".
LegacyOf(paired) ==
  LET size(i) == Sum([k \in 1 .. Len(paired) - i + 1 |-> paired[i + k - 1].size])
      start == Max({i \in 1 .. Len(paired) : size(i) * 20 >= LegacyChars * 13} \cup {1})
      users == {i \in start .. Len(paired) : paired[i].role = "user"}
      cut == IF users = {} THEN Len(paired) + 1 ELSE Min(users)
  IN IF paired = <<>> \/ size(1) <= LegacyChars THEN paired
     ELSE <<[User(0) EXCEPT !.role = "system", !.view = "summary",
                            !.stands = UNION {paired[i].stands : i \in 1 .. cut - 1}]>> \o From(paired, cut)
Legacy(ms) == LegacyOf(Paired(ms))

-------------------------------------------------------------------------------
(* The Run *)

Places == {"off", "prepare", "summary", "commit", "model", "boundary"}
Ids == 1 .. Len(canonical)
CallsOf(ms) == {ms[i].of : i \in {j \in 1 .. Len(ms) : ms[j].role = "tool"}}

Init ==
  /\ canonical = <<>> /\ saved = {} /\ seen = {} /\ summary = NoSummary
  /\ at = "off" /\ activeRequest = 0 /\ continued = FALSE /\ forced = FALSE /\ recovered = FALSE
  /\ ratio = 1 /\ job = NoJob /\ request = <<>>

\* A Run begins with a user message.
BeginRun ==
  /\ at = "off" /\ Len(canonical) < MaxMessages
  /\ canonical' = Append(canonical, User(Len(canonical) + 1))
  /\ activeRequest' = Len(canonical) + 1
  /\ continued' = FALSE /\ forced' = FALSE /\ recovered' = FALSE
  /\ at' = "prepare"
  /\ UNCHANGED <<saved, seen, summary, ratio, job, request>>

\* The Run ends: it is stopped, a limit is reached, the model or the Session
\* fails.  Stopped inside a prepare it leaves nothing but artifacts.
Over ==
  /\ at' = "off" /\ job' = NoJob
  /\ activeRequest' = 0 /\ continued' = FALSE /\ forced' = FALSE /\ recovered' = FALSE
EndRun == Over /\ request' = <<>> /\ UNCHANGED <<session, ratio>>

RunEnds == at # "off" /\ EndRun

\* The safe boundary after an answer: go on, or take up a Steer (which becomes
\* the active request) or a notification (which does not).
Proceed ==
  /\ at = "boundary" /\ at' = "prepare"
  /\ continued' = FALSE /\ recovered' = FALSE
  /\ UNCHANGED <<session, activeRequest, forced, ratio, job, request>>

ApplySteer(updateActiveRequest) ==
  /\ at = "boundary" /\ Len(canonical) < MaxMessages
  /\ canonical' = Append(canonical, User(Len(canonical) + 1))
  /\ activeRequest' = IF updateActiveRequest THEN Len(canonical) + 1 ELSE activeRequest
  /\ at' = "prepare" /\ continued' = FALSE /\ recovered' = FALSE
  /\ UNCHANGED <<saved, seen, summary, forced, ratio, job, request>>

\* The messages the loop passes in: a cut answer is followed by the order to go
\* on, and the active request is repeated unless it is the last user message.
Given ==
  LET passed == canonical \o (IF continued THEN <<Assistant(0, 0), User(0)>> ELSE <<>>)
      last == Max({i \in 1 .. Len(passed) : passed[i].role = "user"})
  IN IF passed[last].id = activeRequest THEN passed ELSE Append(passed, User(activeRequest))

\* prepare, up to the question whether a summary is needed.  Without a usable
\* summary the layers work on the given messages themselves, so that a summary
\* is made of what they have left of them.
Prepare(lost) ==
  /\ at = "prepare"
  /\ LET view == IF forced THEN <<>> ELSE CachedView(Given, summary)
         large == LargeToolResults(IF view = <<>> THEN Given ELSE view, lost)
         middle == ArchiveMiddle(large.messages, lost)
         old == OldToolResults(middle.messages, seen, ratio, lost)
         base == IF view # <<>> THEN Given
                 ELSE IF middle.archived THEN large.messages ELSE old.messages
         needsSummary == forced \/ Measure(old.messages, ratio) > HardLimit
     IN /\ saved' = saved \cup large.stored \cup middle.stored \cup old.stored
        /\ job' = [base |-> base, messages |-> old.messages, made |-> NoSummary,
                   compaction |-> IF needsSummary THEN "running" ELSE "none"]
        /\ at' = IF needsSummary THEN "summary" ELSE "commit"
  /\ forced' = FALSE
  /\ UNCHANGED <<canonical, seen, summary, activeRequest, continued, recovered, ratio, request>>

\* Mutant: the layered messages are sent although they are over the limit.
SummaryFailsOpen ==
  /\ at = "summary"
  /\ job' = [job EXCEPT !.compaction = "failed"] /\ at' = "commit"
  /\ UNCHANGED <<session, turn, ratio, request>>

\* No earlier segment, or the summarizer fails or answers nonsense: the layered
\* messages are sent unless they are over the limit.
SummaryFails ==
  /\ at = "summary"
  /\ IF Measure(job.messages, ratio) > HardLimit
     THEN EndRun
     ELSE /\ job' = [job EXCEPT !.compaction = "failed"] /\ at' = "commit"
          /\ UNCHANGED <<session, turn, ratio, request>>

\* summarize: large results of the covered part are saved as well; the summary
\* and the tail are sent if they are within the limit.
Summarize(lost) ==
  /\ at = "summary" /\ Starts(job.base) \ {1} # {}
  /\ LET cut == TailSegment(job.base, ratio) - 1
         source == SubSeq(job.base, 1, cut)
         tail == From(job.base, cut + 1)
         told == UNION {source[i].stands : i \in 1 .. cut}
         stored == UNION {source[i].stands :
                            i \in {j \in 1 .. cut : source[j].size > LargeToolResultChars /\ Persist(source[j], lost)}}
         large == LargeToolResults(<<Standing("summary", told)>> \o tail, lost)
     IN /\ saved' = saved \cup stored \cup large.stored
        /\ IF Measure(large.messages, ratio) > HardLimit
           THEN Over
           ELSE /\ at' = "commit" /\ UNCHANGED turn
                /\ job' = [job EXCEPT !.messages = large.messages, !.compaction = "completed",
                                      !.made = [covered |-> cut, source |-> source, tail |-> tail]]
  /\ UNCHANGED <<canonical, seen, summary, ratio, request>>

\* commitContext: the manifest, with the results it includes, and the summary are
\* recorded before the request is sent.
CommitContext ==
  /\ at = "commit"
  /\ seen' = seen \cup CallsOf(job.messages)
  /\ summary' = IF job.made = NoSummary THEN summary ELSE job.made
  /\ request' = job.messages
  /\ at' = "model" /\ job' = NoJob
  /\ UNCHANGED <<canonical, saved, turn, ratio>>

\* The provider refuses the request as too long (recovered once per turn by a
\* forced summary) or fails in a way that is retried.
Overflows ==
  /\ at = "model" /\ ~recovered
  /\ recovered' = TRUE /\ forced' = TRUE /\ at' = "prepare" /\ request' = <<>>
  /\ UNCHANGED <<session, activeRequest, continued, ratio, job>>

Retries ==
  /\ at = "model" /\ at' = "prepare" /\ request' = <<>>
  /\ UNCHANGED <<session, turn, ratio, job>>

\* The answer is cut by the output limit and continued.
CutAnswer ==
  /\ at = "model" /\ continued' = TRUE
  /\ at' = "prepare" /\ request' = <<>>
  /\ UNCHANGED <<session, activeRequest, forced, recovered, ratio, job>>

\* recordProviderUsage: the reported input tokens calibrate the next measure.
Calibrate == ratio' \in Ratios

\* The model answers with calls of tools, and the batch is worked off, or cut
\* short by the end of the Run; compact_context forces a summary.
Answer(sizes, n) ==
  /\ at = "model" /\ Len(sizes) <= n /\ Len(canonical) + 1 + Len(sizes) <= MaxMessages
  /\ LET id == Len(canonical) + 1 IN
     canonical' = Append(canonical, Assistant(id, n))
                    \o [k \in 1 .. Len(sizes) |-> Result(id + k, <<id, k>>, sizes[k])]
  /\ Calibrate /\ request' = <<>>
  /\ IF Len(sizes) < n THEN Over
     ELSE /\ at' = "boundary" /\ forced' \in (IF n = 0 THEN {FALSE} ELSE BOOLEAN)
          /\ UNCHANGED <<activeRequest, continued, recovered, job>>
  /\ UNCHANGED <<saved, seen, summary>>

\* Artifacts are saved, or none is.
Losses == {{}, 0 .. Len(canonical)}
Batches == UNION {[1 .. n -> ResultSizes] : n \in 0 .. MaxCalls}

Next ==
  \/ BeginRun \/ RunEnds \/ Proceed
  \/ \E u \in BOOLEAN : ApplySteer(u)
  \/ \E lost \in Losses : Prepare(lost) \/ Summarize(lost)
  \/ SummaryFails \/ CommitContext
  \/ Overflows \/ Retries \/ CutAnswer
  \/ \E sizes \in Batches, n \in 0 .. MaxCalls : Answer(sizes, n)

Spec == Init /\ [][Next]_vars

-------------------------------------------------------------------------------
(* Properties *)

TypeOK ==
  /\ at \in Places /\ activeRequest \in 0 .. Len(canonical)
  /\ {continued, forced, recovered} \subseteq BOOLEAN /\ ratio \in Ratios
  /\ saved \subseteq Ids \cup {0}
  /\ seen \subseteq CallsOf(canonical)
  /\ summary.covered = Len(summary.source)
  /\ (at = "summary") = (job.compaction = "running")
  /\ (request # <<>>) = (at = "model")

\* Every request is within the limit of the window by the engine's own measure,
\* and what it ends with is the conversation about the request the Run works on:
\* no layer, no summary and no repetition puts another user message after it.
RequestServesTheActiveRequest ==
  at = "model" =>
    /\ Measure(request, ratio) <= HardLimit
    /\ \E i \in 1 .. Len(request) :
         /\ request[i].role = "user" /\ request[i].id = activeRequest /\ request[i].view = "full"
         /\ \A j \in i + 1 .. Len(request) : request[j].role # "user"

\* No projection separates a call from its result: in a request a result stands
\* behind its call, and a call whose result the Session has keeps it; a child
\* Agent inherits complete pairs as long as the request had no others; the older
\* projection starts its tail so that no result loses its call.
ProjectionsKeepPairs ==
  LET Behind(ms) == \A i \in 1 .. Len(ms) : ms[i].role = "tool" =>
                      \E j \in 1 .. i - 1 : ms[i].of \in ms[j].calls
      Answered(ms, results) == \A i \in 1 .. Len(ms) : ms[i].calls \cap results \subseteq CallsOf(ms)
      Calling(ms) == UNION {ms[i].calls : i \in 1 .. Len(ms)}
      Complete(ms) == Behind(ms) /\ Answered(ms, Calling(ms))
  IN /\ at = "model" => /\ Behind(request) /\ Answered(request, CallsOf(canonical))
                        /\ Complete(request) => Complete(Fork(request))
     /\ at = "prepare" => /\ Behind(Legacy(canonical))
                          /\ Answered(Legacy(canonical), CallsOf(canonical))

\* Whatever the layers, a summary, a failing artifact and a restart of the Run
\* leave out of a request, every message of the Session is in it as it is, or
\* is kept in full by an artifact, or was put before the summarizer.
NothingIsLost ==
  at = "model" =>
    \A id \in Ids : \E i \in 1 .. Len(request) :
      /\ id \in request[i].stands
      /\ request[i].view \in {"full", "summary"} \/ id \in saved
================================================================================
