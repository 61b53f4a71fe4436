------------------------------ MODULE ModelStream ------------------------------
(***************************************************************************)
(* One model attempt: what the provider sends (packages/llm-client,        *)
(* openai.ts) and what the executor makes of it (turn-accumulator.ts).     *)
(*                                                                         *)
(* A wire stream is an HTTP answer, a sequence of chunks and the way it    *)
(* ends.  Collect folds it into the ModelTurnResult the ReAct loop decides *)
(* on.  Text, reasoning and arguments are reduced to their presence; the   *)
(* calls of a response are the positions of their ids, so that two calls   *)
(* with one id are two equal numbers.                                      *)
(***************************************************************************)
EXTENDS Integers, Sequences, FiniteSets
LOCAL INSTANCE Folds
LOCAL INSTANCE SequencesExt

CONSTANTS MaxChunks,  \* bound: chunks of one stream
          MaxCalls    \* bound: tool calls of one response

ASSUME StreamAssumption == {MaxChunks, MaxCalls} \subseteq Nat

\* "call" is a whole tool call with an id of its own, "again" one that repeats
\* the last id under another index, "part" a call without its id or name, or
\* whose arguments are no JSON object, or whose id changes.
Chunks == {"text", "call", "again", "part", "stop", "tool_calls", "length"}
FinishReasons == {"stop", "tool_calls", "length"}

\* [DONE]; cut off; malformed data; the connection breaks; the timer fires
Ends == {"done", "cut", "garbage", "network", "timeout"}

\* httpFailure: the answers that are not ok, and whether they may be retried
Refusals == {"context_overflow", "refused", "busy"}

Failed(category, produced) ==
  [status |-> "failed", category |-> category,
   retryable |-> category \in {"busy", "network", "timeout"}, produced |-> produced,
   text |-> FALSE, calls |-> <<>>, finish |-> "none"]

Completed(s) ==
  [status |-> "completed", category |-> "none", retryable |-> FALSE,
   produced |-> s.text \/ s.calls # <<>>, text |-> s.text, calls |-> s.calls, finish |-> s.finish]

\* One chunk through streamMessage and ModelTurnAccumulator.accept.
Accept(chunk, s) ==
  CASE chunk = "text" -> [s EXCEPT !.text = TRUE]
    [] chunk = "call" -> [s EXCEPT !.calls = Append(@, Len(@) + 1)]
    [] chunk = "again" -> [s EXCEPT !.calls = IF @ = <<>> THEN <<1>> ELSE Append(@, @[Len(@)])]
    [] chunk = "part" -> [s EXCEPT !.broken = TRUE]
    [] OTHER -> [s EXCEPT !.finish = chunk]

Received(chunks) ==
  FoldLeft(LAMBDA s, chunk : Accept(chunk, s),
           [text |-> FALSE, calls |-> <<>>, broken |-> FALSE, finish |-> "none"], chunks)

\* The terminal event of the adapter and collectModelTurn: a stream is complete
\* only with its [DONE], a finish reason and whole calls.
Collect(chunks, end) ==
  LET s == Received(chunks)
      produced == s.text \/ s.calls # <<>> \/ s.broken
  IN CASE end \in {"network", "timeout"} -> Failed(end, produced)
       [] end \in {"cut", "garbage"} -> Failed("invalid_response", produced)
       [] s.finish = "none" \/ s.broken -> Failed("invalid_response", produced)
       [] OTHER -> Completed(s)

Streams == UNION {[1 .. n -> Chunks] : n \in 0 .. MaxChunks}

\* The calls of one response.
Batches(ids) == {calls \in Seq(ids) : Len(calls) <= MaxCalls}

\* What one attempt can come to.
Collected == {Collect(s, e) : s \in Streams, e \in Ends}

Outcomes ==
  {Failed(c, FALSE) : c \in Refusals}
    \cup {o \in Collected : o.calls \in Batches(1 .. MaxCalls)}
================================================================================
