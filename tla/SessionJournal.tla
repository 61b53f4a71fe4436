---------------------------- MODULE SessionJournal ----------------------------
(***************************************************************************)
(* The journal file of one Session, its projection in memory and its meta  *)
(* sidecar: packages/session-store/jsonl-filesystem.ts with the loads and  *)
(* saves of packages/session-store/index.ts, below the atomic commits of   *)
(* SessionStore.                                                           *)
(*                                                                         *)
(* A line is the commit it encodes, and its revision; what a commit says   *)
(* is left out.  A line cut short does not decode, nor does one that goes  *)
(* on with another.  A whole line counts two in the size of the file, and  *)
(* one while its newline is missing.                                       *)
(***************************************************************************)
EXTENDS Integers, SequencesExt

CONSTANTS None,
          MaxCommits,   \* bound: commits appended
          MaxFaults     \* bound: appends that fail, restarts

Lines == [rev : Int, id : Nat]
Journals == [lines : Seq(Lines), closed : BOOLEAN]
JournalAssumption == None \notin Journals /\ {MaxCommits, MaxFaults} \subseteq Nat

VARIABLES
  file,         \* the journal: its lines, and whether the last one has its newline
  meta,         \* the sidecar: the size it was written for, and its revision
  projection,   \* projections and journalBytes of the Session
  load,         \* a load of the holder of the Session's lock, and one made without the lock
  op,           \* what the holder of the lock does
  acked,        \* history: commits a caller was told of
  deleted,      \* history: the Session was deleted
  failed,       \* history: an append of this process left part of a line
  excused,      \* history: an append followed it, or a load without the lock crossed a commit
  next, faults

vars == <<file, meta, projection, load, op, acked, deleted, failed, excused, next, faults>>

Header == [rev |-> 0, id |-> 0]
Junk == [rev |-> -1, id |-> 0]
Absent == [lines |-> <<>>, closed |-> TRUE]
NoLoad == [at |-> "idle", file |-> Absent, why |-> None]
Locked == "locked"
Free == "free"

Size(f) == 2 * Len(f.lines) - IF f.closed THEN 0 ELSE 1
LastRev(f) == Len(f.lines) - 1

Init ==
  /\ file = Absent /\ meta = None /\ projection = None
  /\ load = [x \in {Locked, Free} |-> NoLoad] /\ op = "idle"
  /\ acked = {} /\ deleted = FALSE /\ failed = FALSE /\ excused = FALSE
  /\ next = 1 /\ faults = 0

---------------------------------------------------------------------------
(* filesystem.load *)

\* the header, then commits whose revisions follow one another
Replays(lines) == lines # <<>> /\ \A i \in DOMAIN lines : lines[i].rev = i - 1

\* only a last line that has no newline and does not decode is a torn tail
Torn(f) == ~f.closed /\ Len(f.lines) > 1 /\ Last(f.lines) = Junk /\ Replays(Front(f.lines))
Loadable(f) == Replays(f.lines) \/ Torn(f)
Whole(f) == [lines |-> IF Torn(f) THEN Front(f.lines) ELSE f.lines, closed |-> TRUE]

\* an append to what may have no newline: the lines become one that does not decode
Appended(f, line, closed) ==
  [lines |-> IF f.closed THEN Append(f.lines, line) ELSE Append(Front(f.lines), Junk), closed |-> closed]
Newline(f) == IF f.closed THEN Appended(f, Junk, TRUE) ELSE [f EXCEPT !.closed = TRUE]

Meta(f) == [size |-> Size(f), rev |-> LastRev(f)]

\* loadRaw without a projection: the file is read
ReadFile(x, why) ==
  load' = [load EXCEPT ![x] = IF Loadable(file) THEN [at |-> "read", file |-> file, why |-> why] ELSE NoLoad]

\* Repair, were a last line that has no newline left so
RepairTornOnly(x) ==
  LET read == load[x].file IN
  /\ load[x].at = "read" /\ load' = [load EXCEPT ![x].at = "whole"]
  /\ IF Torn(read)
     THEN file' = Whole(read) /\ excused' = (excused \/ file \notin {read, Whole(read)})
     ELSE UNCHANGED <<file, excused>>
  /\ UNCHANGED <<meta, projection, op, acked, deleted, failed, next, faults>>

\* a torn tail is dropped by publishing the lines before it; a missing newline is appended
Repair(x) ==
  LET read == load[x].file IN
  /\ load[x].at = "read" /\ load' = [load EXCEPT ![x].at = "whole"]
  /\ CASE Torn(read) -> file' = Whole(read) /\ excused' = (excused \/ file \notin {read, Whole(read)})
       [] ~Torn(read) /\ ~read.closed -> file' = Newline(file) /\ excused' = (excused \/ file # read)
       [] read.closed -> UNCHANGED <<file, excused>>
  /\ UNCHANGED <<meta, projection, op, acked, deleted, failed, next, faults>>

\* the projection is kept, whatever another load or a save has put there
Loaded(x) ==
  LET f == Whole(load[x].file) IN
  /\ load[x].at = "whole"
  /\ load' = [load EXCEPT ![x] = IF @.why = "delete" THEN [@ EXCEPT !.at = "checked"] ELSE NoLoad]
  /\ projection' = f /\ excused' = (excused \/ (projection # None /\ projection # f))
  /\ meta' \in {meta, Meta(f)}
  /\ op' = IF x = Locked THEN "loaded" ELSE op
  /\ UNCHANGED <<file, acked, deleted, failed, next, faults>>

---------------------------------------------------------------------------
(* Under the Session's lock: create, load, save *)

\* saveUnlocked of a new Session: the header, written at once or cut short by the end of the process
Create ==
  /\ op = "idle" /\ file = Absent /\ ~deleted /\ projection = None
  /\ file' = [lines |-> <<Header>>, closed |-> TRUE] /\ projection' = file'
  /\ meta' \in {meta, Meta(file')} /\ op' = "loaded"
  /\ UNCHANGED <<load, acked, deleted, failed, excused, next, faults>>

TakeLock ==
  /\ op = "idle"
  /\ \/ projection # None /\ op' = "loaded" /\ UNCHANGED load
     \/ projection = None /\ Loadable(file) /\ ReadFile(Locked, "save") /\ op' = "loading"
  /\ UNCHANGED <<file, meta, projection, acked, deleted, failed, excused, next, faults>>

\* nothing to save
ReleaseLock ==
  /\ op = "loaded" /\ op' = "idle"
  /\ UNCHANGED <<file, meta, projection, load, acked, deleted, failed, excused, next, faults>>

Commit == [rev |-> LastRev(projection) + 1, id |-> next]

\* the line is in the file
AppendLands ==
  /\ op = "loaded" /\ projection # None /\ next <= MaxCommits
  /\ file' = Appended(file, Commit, TRUE) /\ op' = "appended"
  /\ excused' = (excused \/ failed)
  /\ UNCHANGED <<meta, projection, load, acked, deleted, failed, next, faults>>

\* the projection follows; the sidecar too, if it can be written
Saved ==
  /\ op = "appended" /\ projection # None
  /\ projection' = Appended(projection, Commit, TRUE) /\ meta' \in {meta, Meta(projection')}
  /\ acked' = acked \union {next} /\ next' = next + 1 /\ op' = "idle"
  /\ UNCHANGED <<file, load, deleted, failed, excused, faults>>

\* what of the line may be in the file when the append fails, or the process ends
Residues(f) ==
  {f, Appended(f, Junk, FALSE), Appended(f, Commit, FALSE), Appended(f, Commit, TRUE)}

\* nothing is told, and the projection stays
AppendFails ==
  /\ op = "loaded" /\ projection # None /\ next <= MaxCommits /\ faults < MaxFaults
  /\ file' \in Residues(file) /\ failed' = (failed \/ file' # file)
  /\ excused' = (excused \/ (failed /\ file' # file))
  /\ next' = next + 1 /\ faults' = faults + 1 /\ op' = "idle"
  /\ UNCHANGED <<meta, projection, load, acked, deleted>>

---------------------------------------------------------------------------
(* Without the lock: listSessions, materializeRun and deleteSession *)

\* loadMeta: a sidecar of the size of the journal is trusted
LoadMeta ==
  /\ load[Free].at = "idle" /\ file # Absent
  /\ ~(meta # None /\ meta.size = Size(file))
  /\ \/ projection # None /\ meta' \in {meta, Meta(projection)} /\ UNCHANGED load
     \/ projection = None /\ ReadFile(Free, "list") /\ UNCHANGED meta
  /\ UNCHANGED <<file, projection, op, acked, deleted, failed, excused, next, faults>>

\* deleteSession finds no active Run
DeleteCheck ==
  /\ load[Free].at = "idle" /\ file # Absent
  /\ \/ projection # None /\ load' = [load EXCEPT ![Free] = [NoLoad EXCEPT !.at = "checked"]]
     \/ projection = None /\ ReadFile(Free, "delete")
  /\ UNCHANGED <<file, meta, projection, op, acked, deleted, failed, excused, next, faults>>

\* the files go, then what the process knows of them; who has the lock, or loads, goes on
Delete ==
  /\ load[Free].at = "checked" /\ load' = [load EXCEPT ![Free] = NoLoad]
  /\ file' = Absent /\ meta' = None /\ projection' = None /\ acked' = {}
  /\ deleted' = TRUE /\ excused' = (excused \/ op # "idle")
  /\ UNCHANGED <<op, failed, next, faults>>

---------------------------------------------------------------------------

\* the process ends: an append, or the creation, may have been cut short
Restart ==
  /\ faults < MaxFaults /\ faults' = faults + 1
  /\ file' \in {file}
       \union (IF op = "loaded" /\ projection # None /\ next <= MaxCommits THEN Residues(file) ELSE {})
       \union (IF file = Absent /\ ~deleted THEN [lines : {<<Junk>>, <<Header>>}, closed : {FALSE}] ELSE {})
  /\ excused' = (excused \/ (failed /\ file' # file))
  /\ next' = IF file' # file \/ op = "appended" THEN next + 1 ELSE next
  /\ projection' = None /\ load' = [x \in {Locked, Free} |-> NoLoad] /\ op' = "idle" /\ failed' = FALSE
  /\ UNCHANGED <<meta, acked, deleted>>

Next ==
  \/ \E x \in {Locked, Free} : Repair(x) \/ Loaded(x)
  \/ Create \/ TakeLock \/ ReleaseLock \/ AppendLands \/ Saved \/ AppendFails
  \/ LoadMeta \/ DeleteCheck \/ Delete \/ Restart

Spec == Init /\ [][Next]_vars

---------------------------------------------------------------------------
(* What a caller was told is committed can be loaded again, after any      *)
(* crash and the repair that follows it; a sidecar that is trusted has the *)
(* revision of the journal; a Session that was deleted stays away.  Not    *)
(* so once a process goes on after an append that left part of a line      *)
(* (jsonl-filesystem.ts:75), or a load or a deletion made without the lock *)
(* crosses a save (session-store/index.ts:343, 1590).                      *)
AcknowledgedStays ==
  ~excused =>
    /\ acked # {} => Loadable(file) /\ acked \subseteq {file.lines[i].id : i \in DOMAIN file.lines}
    /\ meta # None /\ meta.size = Size(file) => meta.rev = LastRev(file)
    /\ deleted => file = Absent
=============================================================================
