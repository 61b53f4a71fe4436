------------------------------ MODULE WorkspaceFiles ------------------------------
(***************************************************************************)
(* Writes to the files of a Workspace: updateFile, patchFile, renameItem   *)
(* and deleteItem of packages/workspace-manager/index.ts, the queue the    *)
(* first two pass through (tool-gateway/file-mutation-queue.ts), and the   *)
(* runtimes that own such a queue (loadWorkspaceRuntime of                 *)
(* apps/runtime/server.ts).  A content is named for the write that made    *)
(* it.  The tree of file names a runtime keeps is left out.                *)
(***************************************************************************)
EXTENDS Integers, FiniteSets

CONSTANTS Paths,
          Jobs,        \* bound: the writes asked for
          Requests,    \* bound: the requests that come for the Workspace
          None,
          MaxMeddling  \* bound: renames, deletes and commands that write

\* names of jobs and requests are no contents and no states
FilesAssumption ==
  /\ None \notin Jobs \union Requests
  /\ Jobs \intersect {"first", "edited"} = {} /\ "building" \notin Requests

VARIABLES
  disk,      \* the content of each file
  runtime,   \* requests in loadWorkspaceRuntime, and the runtime each has got
  cached,    \* workspaceRuntimes
  tails,     \* FileMutationQueue.tails of each runtime
  job,
  meddled,   \* history: jobs whose file was changed outside their queue after they read it
  spent

vars == <<disk, runtime, cached, tails, job, meddled, spent>>
loading == <<runtime, cached>>

NoJob == [step |-> "none", path |-> None, patch |-> FALSE, rt |-> None, after |-> None, read |-> None]

Init ==
  /\ disk = [p \in Paths |-> "first"]
  /\ runtime = [r \in Requests |-> None] /\ cached = None
  /\ tails = [r \in Requests |-> [p \in Paths |-> None]]
  /\ job = [j \in Jobs |-> NoJob]
  /\ meddled = {} /\ spent = 0

---------------------------------------------------------------------------
(* loadWorkspaceRuntime; a runtime is named for the request that builds it *)

Lookup(r) ==
  /\ runtime[r] = None
  /\ runtime' = [runtime EXCEPT ![r] = IF cached = None THEN "building" ELSE cached]
  /\ UNCHANGED <<disk, cached, tails, job, meddled, spent>>

\* over several awaits; the cache is not read again
Build(r) ==
  /\ runtime[r] = "building"
  /\ runtime' = [runtime EXCEPT ![r] = r] /\ cached' = r
  /\ UNCHANGED <<disk, tails, job, meddled, spent>>

---------------------------------------------------------------------------
(* FileMutationQueue.run; the key of a file is its path *)

Enqueue(j, r, p, patch) ==
  /\ job[j].step = "none" /\ runtime[r] \in Requests
  /\ LET rt == runtime[r] IN
     /\ job' = [job EXCEPT ![j] = [NoJob EXCEPT !.step = "queued", !.path = p, !.patch = patch,
                                                !.rt = rt, !.after = tails[rt][p]]]
     /\ tails' = [tails EXCEPT ![rt][p] = j]
  /\ UNCHANGED <<disk, loading, meddled, spent>>

\* a job that ends lets the next go on and forgets the queue, were it not asked if it is the last
ReleasedAll(j) == [tails EXCEPT ![job[j].rt][job[j].path] = None]

\* a job that ends lets the next go on, and forgets the queue if it is the last
Released(j) ==
  IF tails[job[j].rt][job[j].path] = j THEN [tails EXCEPT ![job[j].rt][job[j].path] = None] ELSE tails

Before(j) == {i \in Jobs : i = job[j].after /\ job[i].step # "over"}
HasTurn(j) == job[j].step = "queued" /\ Before(j) = {}

End(j) == tails' = Released(j) /\ job' = [job EXCEPT ![j] = [NoJob EXCEPT !.step = "over"]]

---------------------------------------------------------------------------
(* updateFile and patchFile *)

Readers(touched) == {j \in Jobs : job[j].step = "read" /\ job[j].path \in touched}

\* the write is aborted or its path crosses a link; a patch finds no file, or not its old text
Refuse(j) ==
  /\ HasTurn(j) /\ End(j) /\ UNCHANGED <<disk, loading, meddled, spent>>

ReadFile(j) ==
  /\ HasTurn(j) /\ (job[j].patch => disk[job[j].path] # None)
  /\ job' = [job EXCEPT ![j].step = "read", ![j].read = disk[job[j].path]]
  /\ meddled' = meddled \ {j} /\ UNCHANGED <<disk, loading, tails, spent>>

\* a temporary file is renamed; what fails or is aborted before that leaves the file as it is
Replace(j) ==
  /\ job[j].step = "read" /\ disk' = [disk EXCEPT ![job[j].path] = j] /\ End(j)
  /\ meddled' = meddled \union {i \in Readers({job[j].path}) : job[i].rt # job[j].rt}
  /\ UNCHANGED <<loading, spent>>

ReplaceFails(j) ==
  /\ job[j].step = "read" /\ End(j) /\ UNCHANGED <<disk, loading, meddled, spent>>

---------------------------------------------------------------------------
(* Outside the queue *)

Meddle(touched, contents) ==
  /\ spent < MaxMeddling /\ spent' = spent + 1
  /\ disk' = contents /\ meddled' = meddled \union Readers(touched)
  /\ UNCHANGED <<loading, tails, job>>

RenameItem(p, q) ==
  /\ p # q /\ disk[p] # None /\ Meddle({p, q}, [disk EXCEPT ![q] = disk[p], ![p] = None])
DeleteItem(p) == disk[p] # None /\ Meddle({p}, [disk EXCEPT ![p] = None])
CommandWrites(p) == Meddle({p}, [disk EXCEPT ![p] = "edited"])

Next ==
  \/ \E r \in Requests : Lookup(r) \/ Build(r)
  \/ \E j \in Jobs :
       \/ \E r \in Requests, p \in Paths, patch \in BOOLEAN : Enqueue(j, r, p, patch)
       \/ Refuse(j) \/ ReadFile(j) \/ Replace(j) \/ ReplaceFails(j)
  \/ \E p \in Paths : DeleteItem(p) \/ CommandWrites(p) \/ \E q \in Paths : RenameItem(p, q)

Spec == Init /\ [][Next]_vars

---------------------------------------------------------------------------
(* A patch replaces the content it was checked against: in any order, and  *)
(* with failures and aborts, no write that goes through the queue of its   *)
(* runtime comes between and is overwritten unseen                         *)
(* (workspace-manager/index.ts:304-345, file-mutation-queue.ts:4-15).      *)
PatchesReplaceWhatTheyRead ==
  [][\A j \in Jobs :
       job[j].patch /\ job[j].step = "read" /\ disk'[job[j].path] = j =>
         disk[job[j].path] = job[j].read \/ j \in meddled]_vars

(* "文件修改按目标路径串行化并原子写入" (docs/architecture.md:147): no two writes *)
(* of a file are under way at a time.  Requests that come together for a   *)
(* Workspace that is not loaded build a runtime each, and each has its own *)
(* queue (server.ts:505-545).                                              *)
WritesAreSerialByPath ==
  \A i, j \in Jobs : job[i].step = "read" /\ job[j].step = "read" /\ job[i].path = job[j].path => i = j
=============================================================================
