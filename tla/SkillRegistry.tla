----------------------------- MODULE SkillRegistry -----------------------------
(***************************************************************************)
(* The skills a user has installed: packages/skill-system/registry.ts and  *)
(* importer.ts, with the /api/skills routes of apps/runtime/server.ts.     *)
(*                                                                         *)
(* Each Workspace that is loaded has a registry of its own; all read one   *)
(* directory and one skill-config.json.  What a skill says, builtin skills *)
(* and those of a project are left out.  The config is written in place: a *)
(* reader may find it cut short, and takes it for empty.                   *)
(***************************************************************************)
EXTENDS FiniteSets, Naturals

CONSTANTS None, Skills, Registries,
          SkillRequests,
          MaxSkillRequests,  \* bound: requests that come
          MaxCrashes         \* bound: restarts

VARIABLES
  files,      \* the skills in the directory
  config,     \* disabledSkills, and whether the text is whole
  registry,   \* of each registry: its skills, and whether they are enabled
  load,       \* the loads a request makes, by registry
  request,    \* what is under way
  told,       \* history: the skills users were told are disabled
  crossed,    \* history: two switches overlapped, or one was cut short
  behind,     \* history: registries a change has passed by
  spent

vars == <<files, config, registry, load, request, told, crossed, behind, spent>>

Idle == [at |-> "idle", of |-> None, name |-> None, on |-> FALSE, read |-> {}, stale |-> FALSE]
NoLoad == [at |-> "none", disabled |-> {}, found |-> {}, clean |-> TRUE]

Shown(found, disabled) == [n \in Skills |-> IF n \in found THEN n \notin disabled ELSE None]
ReadConfig == IF config.whole THEN config.disabled ELSE {}
Loading(q) == {r \in Registries : load[<<q, r>>].at # "none"}
Switching == {q \in SkillRequests : request[q].at \in {"read", "write", "writing"}}
Writing == {q \in SkillRequests : request[q].at = "writing"}
Resting == \A q \in SkillRequests : request[q].at = "idle"
Spend(field, bound) == spent[field] < bound /\ spent' = [spent EXCEPT ![field] = @ + 1]
To(q, at) == request' = [request EXCEPT ![q].at = at]
\* what is on disk has changed under the loads that are under way
Disturbed == [x \in DOMAIN load |-> [load[x] EXCEPT !.clean = load[x].at = "none"]]

Init ==
  /\ files \in SUBSET Skills /\ config = [disabled |-> {}, whole |-> TRUE]
  /\ registry = [r \in Registries |-> Shown(files, {})]
  /\ load = [x \in SkillRequests \X Registries |-> NoLoad]
  /\ request = [q \in SkillRequests |-> Idle]
  /\ told = {} /\ crossed = FALSE /\ behind = {}
  /\ spent = [requests |-> 0, crashes |-> 0]

---------------------------------------------------------------------------
(* loadAll *)

\* a load that begins while the config is written may read it cut short
Loads(q, rs, ls) ==
  [x \in DOMAIN ls |-> IF x[1] = q /\ x[2] \in rs
                       THEN [NoLoad EXCEPT !.at = "config"] ELSE ls[x]]

LoadReads(q, r) ==
  /\ load[<<q, r>>].at = "config"
  /\ load' = [load EXCEPT ![<<q, r>>] =
       [at |-> "scan", disabled |-> ReadConfig, found |-> {}, clean |-> @.clean /\ config.whole]]
  /\ UNCHANGED <<files, config, registry, request, told, crossed, behind, spent>>

LoadScans(q, r) ==
  /\ load[<<q, r>>].at = "scan"
  /\ load' = [load EXCEPT ![<<q, r>>] =
       [at |-> "install", disabled |-> @.disabled, found |-> files, clean |-> @.clean]]
  /\ UNCHANGED <<files, config, registry, request, told, crossed, behind, spent>>

\* the skills are new objects: a switch that is under way holds an old one
LoadInstalls(q, r) ==
  /\ load[<<q, r>>].at = "install"
  /\ registry' = [registry EXCEPT ![r] = Shown(load[<<q, r>>].found, load[<<q, r>>].disabled)]
  /\ request' = [p \in SkillRequests |-> [request[p] EXCEPT !.stale = @ \/ request[p].of = r]]
  /\ behind' = IF load[<<q, r>>].clean THEN behind \ {r} ELSE behind \cup {r}
  /\ load' = [load EXCEPT ![<<q, r>>] = NoLoad]
  /\ UNCHANGED <<files, config, told, crossed, spent>>

---------------------------------------------------------------------------
(* The routes *)

Begin(q, r, at, n, on) ==
  /\ request[q].at = "idle" /\ Spend("requests", MaxSkillRequests)
  /\ request' = [request EXCEPT ![q] =
       [at |-> at, of |-> r, name |-> n, on |-> on, read |-> {}, stale |-> FALSE]]

\* a reload, which a request that starts a Run in the Workspace makes too
Reload(q, r) ==
  /\ Begin(q, r, "loads", None, FALSE) /\ load' = Loads(q, {r}, load)
  /\ UNCHANGED <<files, config, registry, told, crossed, behind>>

\* setEnabled, of the object the registry has now
SetEnabled(q, r, n, on) ==
  /\ registry[r][n] # None /\ Begin(q, r, "read", n, on)
  /\ crossed' = (crossed \/ Switching # {})
  /\ UNCHANGED <<files, config, registry, load, told, behind>>

ReadsConfig(q) ==
  /\ request[q].at = "read"
  /\ request' = [request EXCEPT ![q] =
       [at |-> "write", of |-> @.of, name |-> @.name, on |-> @.on, read |-> ReadConfig,
        stale |-> @.stale]]
  /\ UNCHANGED <<files, config, registry, load, told, crossed, behind, spent>>

\* writeFile opens the file and cuts it to nothing
BeginWrite(q) ==
  /\ request[q].at = "write" /\ To(q, "writing")
  /\ config' = [config EXCEPT !.whole = FALSE] /\ load' = Disturbed
  /\ UNCHANGED <<files, registry, told, crossed, behind, spent>>

\* Switched, of no other skill
SwitchedAlone(disabled, n, on) == IF on THEN {} ELSE {n}
Switched(disabled, n, on) == IF on THEN disabled \ {n} ELSE disabled \cup {n}

\* what two requests write into the file at a time need not be whole; the object
\* is switched, in the registry still or not
EndWrite(q) ==
  LET w == request[q]
      kept == ~w.stale /\ registry[w.of][w.name] # None
  IN
  /\ w.at = "writing" /\ request' = [request EXCEPT ![q] = Idle]
  /\ \E whole \in IF Writing = {q} THEN {TRUE} ELSE BOOLEAN :
       config' = [disabled |-> Switched(w.read, w.name, w.on), whole |-> whole]
  /\ registry' = IF kept THEN [registry EXCEPT ![w.of][w.name] = w.on] ELSE registry
  /\ behind' = behind \cup (IF kept /\ ~crossed THEN Registries \ {w.of} ELSE Registries)
  /\ told' = Switched(told, w.name, w.on) /\ load' = Disturbed
  /\ UNCHANGED <<files, crossed, spent>>

\* importSkill: the files are there, and every registry is to load them
Import(q, n) ==
  /\ Begin(q, None, "loads", n, FALSE)
  /\ files' = files \cup {n} /\ behind' = Registries /\ load' = Loads(q, Registries, Disturbed)
  /\ UNCHANGED <<config, registry, told, crossed>>

\* deleteSkill: the files go first
Delete(q, r, n) ==
  /\ registry[r][n] # None /\ Begin(q, r, "delete", n, FALSE)
  /\ files' = files \ {n} /\ behind' = Registries /\ load' = Disturbed
  /\ UNCHANGED <<config, registry, told, crossed>>

\* then the entry, and the registry is loaded again
Drop(q) ==
  /\ request[q].at = "delete" /\ To(q, "dropped")
  /\ registry' = [registry EXCEPT ![request[q].of][request[q].name] = None]
  /\ load' = Loads(q, {request[q].of}, load)
  /\ UNCHANGED <<files, config, told, crossed, behind, spent>>

\* and then all registries are
ReloadAll(q) ==
  /\ request[q].at = "dropped" /\ Loading(q) = {} /\ To(q, "loads")
  /\ load' = Loads(q, Registries, load)
  /\ UNCHANGED <<files, config, registry, told, crossed, behind, spent>>

Answer(q) ==
  /\ request[q].at = "loads" /\ Loading(q) = {}
  /\ request' = [request EXCEPT ![q] = Idle]
  /\ UNCHANGED <<files, config, registry, load, told, crossed, behind, spent>>

\* the process dies; a write under way is cut short
Restart ==
  /\ Spend("crashes", MaxCrashes)
  /\ request' = [q \in SkillRequests |-> Idle]
  /\ load' = [x \in DOMAIN load |-> NoLoad]
  /\ registry' = [r \in Registries |-> Shown(files, ReadConfig)]
  /\ behind' = IF config.whole THEN {} ELSE Registries
  /\ crossed' = (crossed \/ Writing # {})
  /\ UNCHANGED <<files, config, told>>

Next ==
  \/ Restart
  \/ \E q \in SkillRequests :
       \/ ReadsConfig(q) \/ BeginWrite(q) \/ EndWrite(q) \/ Drop(q) \/ ReloadAll(q) \/ Answer(q)
       \/ \E n \in Skills : Import(q, n)
       \/ \E r \in Registries :
            \/ Reload(q, r) \/ LoadReads(q, r) \/ LoadScans(q, r) \/ LoadInstalls(q, r)
            \/ \E n \in Skills : Delete(q, r, n) \/ \E on \in BOOLEAN : SetEnabled(q, r, n, on)

Spec == Init /\ [][Next]_vars

---------------------------------------------------------------------------
(* At rest the config says what users were told, unless two switches       *)
(* overlapped or one was cut short (registry.ts:138-148); and a registry   *)
(* that has loaded undisturbed since the last change shows what is         *)
(* installed and enabled, whatever was deleted, imported or switched while *)
(* it or another loaded.                                                   *)
SkillsFollowTheConfig ==
  Resting => /\ ~crossed => config = [disabled |-> told, whole |-> TRUE]
             /\ \A r \in Registries \ behind : registry[r] = Shown(files, ReadConfig)
=============================================================================
