------------------------------ MODULE MemoryStore ------------------------------
(***************************************************************************)
(* The files of a Workspace's managed memory and the one queue its         *)
(* mutations pass through: packages/managed-memory/store.ts, as the        *)
(* memory tools (tools.ts) and the settings page call it.                  *)
(*                                                                         *)
(* A topic is its body; the digest of a body is the body.  An index line   *)
(* is blank or names a topic and the body it was written for; the heading  *)
(* is left out.  A line is plain unless its title holds a ']': the matcher *)
(* of format.ts reads a title as [^\]]* and passes over the other lines.   *)
(* (A title that is itself a link to another topic is left out.)           *)
(***************************************************************************)
EXTENDS Integers, Sequences, FiniteSets, Functions

CONSTANTS Paths, Bodies, Ids,
          Bracketed,     \* the bodies of topics whose name holds a ']'
          None,          \* no topic, no intent, no recorded outcome
          IndexLimit,    \* maxIndexLines
          MaxRequests,   \* bound: requests submitted
          MaxWaiting,    \* bound: requests in the queue at a time
          MaxFaults,     \* bound: file operations that fail
          MaxRestarts    \* bound: restarts of the process

\* a generation beyond the bound of the model is never asked for
Generations == 0..MaxRequests
Mutations ==
  [kind : {"upsert"}, path : Paths, expected : Bodies \union {None}, body : Bodies, plain : BOOLEAN,
   id : Ids, generation : Generations]
    \union
  [kind : {"remove"}, path : Paths, expected : Bodies, body : {None}, plain : {TRUE}, id : Ids,
   generation : Generations \union {None}]

\* RecoveryIntent: what a mutation is about to write
IndexLines == [path : Paths \union {None}, body : Bodies \union {None}, plain : BOOLEAN]
Plans ==
  [id : Ids, path : Paths, before : Bodies \union {None}, body : Bodies \union {None},
   index : Seq(IndexLines)]

\* a mutation and a clear at work
MutationJobs ==
  [req : Mutations, step : {"first", "topic", "index", "journal", "done"}, plan : Plans]
Clears ==
  [req : [kind : {"clear"}, enabled : BOOLEAN], step : {"files", "intent", "settings"}, plan : {None}]

MemoryAssumption ==
  /\ IsFiniteSet(Paths) /\ Paths # {} /\ Bodies # {} /\ Bracketed \subseteq Bodies
  /\ None \notin Paths \union Bodies \union Clears /\ None \notin Plans /\ None \notin MutationJobs
  /\ {IndexLimit, MaxRequests, MaxWaiting, MaxFaults, MaxRestarts} \subseteq Nat

VARIABLES
  \* on disk
  topics,     \* the topic files
  index,      \* the lines of MEMORY.md
  journal,    \* operations.jsonl: the last outcome of each operation
  intent,     \* recovery.json
  settings,   \* settings.json
  \* in the process
  known,      \* the journal as loaded
  ready,      \* ensure has completed
  degraded,
  queue,      \* mutationTail: requests that wait
  job,        \* the request at work, or None
  broken,     \* history: topics a step that failed or a clear cut short left apart from the index
  spent       \* bounds used

disk == <<topics, index, journal, intent, settings>>
process == <<known, ready, degraded, queue, job>>
vars == <<disk, process, broken, spent>>

Blank == [path |-> None, body |-> None, plain |-> TRUE]
Entry(p, b, plain) == [path |-> p, body |-> b, plain |-> plain]

\* what the matcher of p finds
Matches(line, p) == line.path = p /\ line.plain

\* the lines that are not found to be of p
Without(lines, p) ==
  LET kept[n \in 0..Len(lines)] ==
        IF n = 0 THEN <<>>
        ELSE IF Matches(lines[n], p) THEN kept[n - 1] ELSE Append(kept[n - 1], lines[n])
  IN  kept[Len(lines)]

\* the last lines of an index that are blank go
Trimmed(lines) ==
  LET kept == {i \in DOMAIN lines : \E j \in i..Len(lines) : lines[j] # Blank}
  IN  SubSeq(lines, 1, Cardinality(kept))

UpsertIndexEntry(lines, p, b, plain) ==
  Trimmed(Without(lines, p)) \o <<Blank, Entry(p, b, plain)>>
RemoveIndexEntry(lines, p) == Without(lines, p)
ValidIndex(lines) == Len(lines) <= IndexLimit

Listed(p) == {index[i].body : i \in {j \in DOMAIN index : index[j].path = p}}

Other(kind, enabled) == [kind |-> kind, enabled |-> enabled]
IsMutation(r) == r.kind \in {"upsert", "remove"}

Init ==
  /\ topics = [p \in Paths |-> None] /\ index = <<>>
  /\ journal = [i \in Ids |-> None] /\ intent = None
  /\ settings = [enabled |-> TRUE, generation |-> 0]
  /\ known = journal /\ ready = FALSE /\ degraded = FALSE
  /\ queue = <<>> /\ job = None /\ broken = {}
  /\ spent = [requests |-> 0, faults |-> 0, restarts |-> 0]

---------------------------------------------------------------------------
(* Callers *)

Spend(what, bound) == spent[what] < bound /\ spent' = [spent EXCEPT ![what] = @ + 1]

Submit(r) ==
  /\ Len(queue) < MaxWaiting /\ Spend("requests", MaxRequests)
  /\ queue' = Append(queue, r)
  /\ UNCHANGED <<disk, known, ready, degraded, job, broken>>

\* memory_upsert and memory_remove, for a Run of the current generation
CallTool(r) ==
  /\ settings.enabled /\ r.generation = settings.generation
  /\ Submit(r)

MemoryTool ==
  \E r \in Mutations : r.generation = settings.generation /\ CallTool(r)

\* the settings page deletes a file: no generation, and enabled is not asked
DeleteFile ==
  \E r \in Mutations : r.kind = "remove" /\ r.generation = None /\ Submit(r)

Administer ==
  \/ \E e \in BOOLEAN : Submit(Other("settings", e))
  \/ Submit(Other("rebuild", TRUE))
  \/ Submit(Other("clear", TRUE))

---------------------------------------------------------------------------
(* ensure, loadOperations and recover *)

\* recovery, were the index left to the next mutation
RecoveredTopicOnly(n) ==
  /\ topics' = IF n >= 1 THEN [topics EXCEPT ![intent.path] = intent.body] ELSE topics
  /\ journal' = IF n >= 3 /\ journal[intent.id] = None
                THEN [journal EXCEPT ![intent.id] = "committed"] ELSE journal
  /\ intent' = IF n = 4 THEN None ELSE intent
  /\ UNCHANGED index

\* what the first n steps of recover leave
Recovered(n) ==
  /\ topics' = IF n >= 1 THEN [topics EXCEPT ![intent.path] = intent.body] ELSE topics
  /\ index' = IF n >= 2 THEN intent.index ELSE index
  /\ journal' = IF n >= 3 /\ journal[intent.id] = None
                THEN [journal EXCEPT ![intent.id] = "committed"] ELSE journal
  /\ intent' = IF n = 4 THEN None ELSE intent

Ensure ==
  /\ ~ready
  /\ IF intent = None
     THEN degraded' = FALSE /\ UNCHANGED <<topics, index, journal, intent, broken, spent>>
     ELSE \E n \in 0..4 :
            /\ Recovered(n)
            /\ degraded' = (n < 4)
            /\ IF n < 4 THEN Spend("faults", MaxFaults) ELSE UNCHANGED spent
            /\ broken' = IF n >= 2 THEN broken \ {intent.path} ELSE broken
  /\ ready' = TRUE /\ known' = journal'
  /\ UNCHANGED <<settings, queue, job>>

---------------------------------------------------------------------------
(* withMutation: one request at a time *)

Record(id, outcome) ==
  /\ journal' = [journal EXCEPT ![id] = outcome]
  /\ known' = [known EXCEPT ![id] = outcome]

NextIndex(r) ==
  IF r.kind = "upsert" THEN UpsertIndexEntry(index, r.path, r.body, r.plain)
  ELSE RemoveIndexEntry(index, r.path)

FromStaleGeneration(r) == r.generation # None /\ r.generation # settings.generation

\* what a validation of the input refuses is answered the same way
Rejected(r) ==
  \/ degraded
  \/ topics[r.path] = None /\ r.expected # None
  \/ topics[r.path] = r.expected /\ ~ValidIndex(NextIndex(r))

Take == job = None /\ queue # <<>> /\ ready /\ queue' = Tail(queue) /\ UNCHANGED <<ready, degraded>>

\* upsert and remove that write nothing: an operation seen before, a stale generation,
\* a rejection or a conflict
Answer ==
  /\ Take
  /\ LET r == Head(queue) IN
     /\ IsMutation(r)
     /\ \/ /\ known[r.id] # None
           /\ UNCHANGED <<journal, known>>
        \/ /\ known[r.id] = None /\ ~degraded /\ FromStaleGeneration(r)
           /\ UNCHANGED <<journal, known>>
        \/ /\ known[r.id] = None /\ Rejected(r) /\ (degraded \/ ~FromStaleGeneration(r))
           /\ Record(r.id, "rejected")
        \/ /\ known[r.id] = None /\ ~Rejected(r) /\ ~FromStaleGeneration(r)
           /\ topics[r.path] # r.expected
           /\ Record(r.id, "conflict")
  /\ UNCHANGED <<topics, index, intent, settings, job, broken, spent>>

\* MayCommit, were the generation asked only by the tool, before the request waits
MayCommitUnfenced(r) ==
  known[r.id] = None /\ ~Rejected(r) /\ topics[r.path] = r.expected

\* the checks of upsert and remove, made when the request's turn has come
MayCommit(r) ==
  /\ known[r.id] = None /\ ~Rejected(r) /\ ~FromStaleGeneration(r)
  /\ topics[r.path] = r.expected

Begin ==
  /\ Take
  /\ LET r == Head(queue) IN
     /\ IF IsMutation(r) THEN MayCommit(r) ELSE TRUE
     /\ job' = [req |-> r, step |-> IF r.kind = "clear" THEN "files" ELSE "first",
                plan |-> IF IsMutation(r)
                         THEN [id |-> r.id, path |-> r.path, before |-> topics[r.path],
                               body |-> r.body, index |-> NextIndex(r)]
                         ELSE None]
  /\ UNCHANGED <<disk, known, broken, spent>>

At(kinds, step) == job # None /\ job.req.kind \in kinds /\ job.step = step
Go(step) == job' = [job EXCEPT !.step = step]
Mutate == {"upsert", "remove"}

WriteIntent ==
  /\ At(Mutate, "first") /\ Go("topic") /\ intent' = job.plan
  /\ UNCHANGED <<topics, index, journal, settings, known, ready, degraded, queue, broken, spent>>

WriteTopic ==
  /\ At(Mutate, "topic") /\ Go("index")
  /\ topics' = [topics EXCEPT ![job.plan.path] = job.plan.body]
  /\ UNCHANGED <<index, journal, intent, settings, known, ready, degraded, queue, broken, spent>>

WriteIndex ==
  /\ At(Mutate, "index") /\ Go("journal")
  /\ index' = job.plan.index /\ broken' = broken \ {job.plan.path}
  /\ UNCHANGED <<topics, journal, intent, settings, known, ready, degraded, queue, spent>>

AppendOperation ==
  /\ At(Mutate, "journal") /\ Go("done") /\ Record(job.plan.id, "committed")
  /\ UNCHANGED <<topics, index, intent, settings, ready, degraded, queue, broken, spent>>

RemoveIntent ==
  /\ At(Mutate, "done") /\ job' = None /\ intent' = None
  /\ UNCHANGED <<topics, index, journal, settings, known, ready, degraded, queue, broken, spent>>

UpdateSettings ==
  \/ /\ At({"settings"}, "first") /\ Go("journal")
     /\ settings' = [enabled |-> job.req.enabled,
                     generation |-> settings.generation + IF job.req.enabled # settings.enabled THEN 1 ELSE 0]
     /\ UNCHANGED <<topics, index, journal, intent, known, ready, degraded, queue, broken, spent>>
  \/ /\ At({"settings"}, "journal") /\ job' = None
     /\ UNCHANGED <<disk, known, ready, degraded, queue, broken, spent>>

Orders(S) == Bijection(1..Cardinality(S), S)

\* the title of a rebuilt line is the name of its topic
RebuiltIndex(order) ==
  LET lines[n \in 0..Len(order)] ==
        IF n = 0 THEN <<>>
        ELSE UpsertIndexEntry(lines[n - 1], order[n], topics[order[n]], topics[order[n]] \notin Bracketed)
  IN  lines[Len(order)]

\* the topics from the oldest to the newest, in any order here; an intent that is left
\* may still bring an old index back
RebuildIndex ==
  /\ At({"rebuild"}, "first") /\ job' = None
  /\ \E order \in Orders({p \in Paths : topics[p] # None}) :
       LET lines == RebuiltIndex(order)
       IN  IF ValidIndex(lines)
           THEN index' = lines /\ broken' = IF intent = None THEN {} ELSE broken
           ELSE UNCHANGED <<index, broken>>
  /\ UNCHANGED <<topics, journal, intent, settings, known, ready, degraded, queue, spent>>

\* clear removes one file at a time, MEMORY.md among the topics
ClearFile ==
  /\ At({"clear"}, "files") /\ UNCHANGED job
  /\ \/ \E p \in Paths : topics[p] # None /\ topics' = [topics EXCEPT ![p] = None] /\ UNCHANGED index
     \/ index # <<>> /\ index' = <<>> /\ UNCHANGED topics
  /\ UNCHANGED <<journal, intent, settings, known, ready, degraded, queue, broken, spent>>

ClearState ==
  /\ \/ /\ At({"clear"}, "files") /\ index = <<>> /\ \A p \in Paths : topics[p] = None
        /\ Go("intent") /\ journal' = [i \in Ids |-> None]
        /\ UNCHANGED <<intent, settings, known, degraded, broken>>
     \/ /\ At({"clear"}, "intent") /\ Go("settings") /\ intent' = None
        /\ UNCHANGED <<journal, settings, known, degraded, broken>>
     \/ /\ At({"clear"}, "settings") /\ job' = None
        /\ settings' = [settings EXCEPT !.generation = @ + 1]
        /\ known' = [i \in Ids |-> None] /\ degraded' = FALSE /\ broken' = {}
        /\ UNCHANGED <<journal, intent>>
  /\ UNCHANGED <<topics, index, ready, queue, spent>>

---------------------------------------------------------------------------
(* A step fails; the process stops *)

CutShort ==
  IF job = None THEN {}
  ELSE IF job.req.kind = "clear" THEN Paths
  ELSE IF job.req.kind \in Mutate /\ job.step = "index" THEN {job.plan.path} ELSE {}

\* the operation is recorded as failed, if that write succeeds; the intent stays
StepFails ==
  /\ job # None /\ Spend("faults", MaxFaults)
  /\ \/ job.req.kind \in Mutate /\ Record(job.plan.id, "failed")
     \/ UNCHANGED <<journal, known>>
  /\ job' = None /\ broken' = broken \union CutShort
  /\ UNCHANGED <<topics, index, intent, settings, ready, degraded, queue>>

Restart ==
  /\ Spend("restarts", MaxRestarts)
  /\ ready' = FALSE /\ degraded' = FALSE /\ queue' = <<>> /\ job' = None
  /\ known' = [i \in Ids |-> None]
  /\ broken' = IF job # None /\ job.req.kind = "clear" THEN Paths ELSE broken
  /\ UNCHANGED disk

Write == WriteIntent \/ WriteTopic \/ WriteIndex \/ AppendOperation \/ RemoveIntent
Clear == ClearFile \/ ClearState

Next ==
  \/ MemoryTool \/ DeleteFile \/ Administer \/ Ensure \/ Answer \/ Begin \/ Write
  \/ UpdateSettings \/ RebuildIndex \/ Clear \/ StepFails \/ Restart

Spec == Init /\ [][Next]_vars

---------------------------------------------------------------------------
(* At rest MEMORY.md names every topic with the body it has, and no other: *)
(* after any crash the intent repairs the two.                             *)
(* A write that fails between the topic and the index, and a clear that    *)
(* does not finish, leave them apart (store.ts:316-323, 440-453); so does  *)
(* a line that no upsert or remove finds again: a topic is judged while    *)
(* all its lines are plain (format.ts:146, 156).                           *)
IndexFollowsTopics ==
  ready /\ ~degraded /\ job = None =>
    \A p \in Paths \ broken :
      (\A i \in DOMAIN index : index[i].path = p => index[i].plain)
        => Listed(p) = {topics[p]} \ {None}

(* No topic changes but from the body its writer had read, and in the      *)
(* generation its writer began in; a recovery changes a topic only from    *)
(* the body its intent was written for, unless a clear was cut short.      *)
CommitsAreFenced ==
  [][\A p \in Paths : topics'[p] # topics[p] =>
       \/ /\ job # None /\ job.req.kind \in Mutate
          /\ job.req.path = p /\ job.req.expected = topics[p]
          /\ job.req.generation \in {settings.generation, None}
       \/ job # None /\ job.req.kind = "clear" /\ topics'[p] = None
       \/ /\ ~ready /\ intent # None /\ intent.path = p
          /\ (p \in broken \/ topics[p] = intent.before)]_vars

=============================================================================
