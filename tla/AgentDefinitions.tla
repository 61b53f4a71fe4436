--------------------------- MODULE AgentDefinitions ---------------------------
(***************************************************************************)
(* The definitions of sub agents: packages/agent-manager/                  *)
(* agent-definitions.ts, one .md file per custom definition and the list   *)
(* of the disabled ones in .agent-state.json, under ~/.dexcode/agents.     *)
(*                                                                         *)
(* Mutations wait for each other; a reload asked for by the list of the    *)
(* settings page does not wait for them.  What a definition says is a      *)
(* body; a name is a number, in the order the directory is read.  Every    *)
(* file here was written by the program, or was there when it started.     *)
(***************************************************************************)
EXTENDS Integers, FiniteSets

CONSTANTS None, Names, Builtin, Bodies,
          MaxCustom,     \* MAX_CUSTOM_AGENT_DEFINITIONS
          MaxMutations, MaxFaults   \* bounds: mutations begun, writes that fail and restarts

\* no custom definition has the name of a built in one
DefinitionsAssumption ==
  /\ Names \subseteq Nat /\ IsFiniteSet(Names) /\ MaxCustom \in Nat
  /\ None \notin Bodies \union Names \union {Builtin} /\ Builtin \notin Names

VARIABLES
  files,        \* the .md file of each name
  state,        \* the names .agent-state.json lists
  definitions, disabled,    \* the registry
  mutation,     \* the one at the head of mutations
  reloading,    \* reload of that mutation, and of a GET /api/agent-definitions
  answered,     \* history: what files and state are by the mutations that were answered
  excused,      \* history: a write failed half way, or a GET crossed a mutation
  spent

vars == <<files, state, definitions, disabled, mutation, reloading, answered, excused, spent>>

Mutating == "mutation"
Listing == "list"
NoMutation == [op |-> None, name |-> None, body |-> None, at |-> "idle", disabled |-> {}]
NoReload == [at |-> "idle", files |-> None, state |-> {}]

\* reload keeps the first MaxCustom names of the directory
Accepted(onDisk) ==
  [n \in Names |->
    IF Cardinality({k \in Names : k < n /\ onDisk[k] # None}) < MaxCustom THEN onDisk[n] ELSE None]

\* one stands for the built in definitions that can be disabled
Builtins == {Builtin}
Custom(n) == n \in Names /\ definitions[n] # None
Has(n) == n \in Builtins \/ Custom(n)

\* what the process reads when it starts
Init ==
  /\ files \in [Names -> Bodies \union {None}] /\ state = {}
  /\ definitions = Accepted(files) /\ disabled = state
  /\ mutation = NoMutation /\ reloading = [x \in {Mutating, Listing} |-> NoReload]
  /\ answered = [files |-> files, state |-> state]
  /\ excused = FALSE /\ spent = [mutations |-> 0, faults |-> 0]

---------------------------------------------------------------------------
(* reload *)

Scan(x) ==
  /\ reloading[x].at = "asked"
  /\ reloading' = [reloading EXCEPT ![x] = [at |-> "scanned", files |-> files, state |-> @.state]]
  /\ UNCHANGED <<files, state, definitions, disabled, mutation, answered, excused, spent>>

\* definitions and sources; a list that reads files a mutation has changed since puts them back
Install(x) ==
  /\ reloading[x].at = "scanned"
  /\ reloading' = [reloading EXCEPT ![x].at = "installed"]
  /\ definitions' = Accepted(reloading[x].files)
  /\ excused' = (excused \/ reloading[x].files # files)
  /\ UNCHANGED <<files, state, disabled, mutation, answered, spent>>

ReadState(x) ==
  /\ reloading[x].at = "installed"
  /\ reloading' = [reloading EXCEPT ![x] = [at |-> "read", files |-> @.files, state |-> state]]
  /\ UNCHANGED <<files, state, definitions, disabled, mutation, answered, excused, spent>>

\* disabled is what was read, though a mutation has changed it since and not yet written it
SetDisabled(x) ==
  /\ reloading[x].at = "read"
  /\ reloading' = [reloading EXCEPT ![x] = NoReload]
  /\ disabled' = reloading[x].state
  /\ excused' = (excused \/ disabled' # state
                   \/ (mutation.at \in {"changed", "writing"} /\ disabled' # disabled))
  /\ mutation' = IF x = Mutating THEN [mutation EXCEPT !.at = "done"] ELSE mutation
  /\ UNCHANGED <<files, state, definitions, answered, spent>>

List ==
  /\ reloading[Listing].at = "idle"
  /\ reloading' = [reloading EXCEPT ![Listing].at = "asked"]
  /\ UNCHANGED <<files, state, definitions, disabled, mutation, answered, excused, spent>>

---------------------------------------------------------------------------
(* create, update, setEnabled, remove *)

Begin(op, n, body, at) ==
  /\ mutation.at = "idle" /\ spent.mutations < MaxMutations
  /\ spent' = [spent EXCEPT !.mutations = @ + 1]
  /\ mutation' = [op |-> op, name |-> n, body |-> body, at |-> at, disabled |-> {}]

Create(n, body) ==
  /\ ~Custom(n) /\ Cardinality({k \in Names : Custom(k)}) < MaxCustom
  /\ Begin("create", n, body, "file")
  /\ UNCHANGED <<files, state, definitions, disabled, reloading, answered, excused>>

Update(n, body) ==
  /\ Custom(n) /\ Begin("update", n, body, "file")
  /\ UNCHANGED <<files, state, definitions, disabled, reloading, answered, excused>>

\* the registry changes before the state is written
SetEnabled(n, enabled) ==
  /\ Has(n) /\ Begin(IF enabled THEN "enable" ELSE "disable", n, None, "changed")
  /\ disabled' = IF enabled THEN disabled \ {n} ELSE disabled \union {n}
  /\ UNCHANGED <<files, state, definitions, reloading, answered, excused>>

Remove(n) ==
  /\ Custom(n) /\ Begin("remove", n, None, "file")
  /\ UNCHANGED <<files, state, definitions, disabled, reloading, answered, excused>>

Reload == reloading' = [reloading EXCEPT ![Mutating].at = "asked"]

\* ChangeFile, were the state not written after a file is removed
ChangeFileOnly ==
  LET n == mutation.name IN
  /\ mutation.at = "file"
  /\ files' = [files EXCEPT ![n] = mutation.body]
  /\ disabled' = IF mutation.op = "update" THEN disabled ELSE disabled \ {n}
  /\ mutation' = [mutation EXCEPT !.at = "reload"] /\ Reload
  /\ UNCHANGED <<state, definitions, answered, excused, spent>>

\* the file is renamed into place, or removed; a created or removed name is no longer disabled
ChangeFile ==
  LET n == mutation.name IN
  /\ mutation.at = "file"
  /\ files' = [files EXCEPT ![n] = mutation.body]
  /\ disabled' = IF mutation.op = "update" THEN disabled ELSE disabled \ {n}
  /\ IF mutation.op = "remove"
     THEN mutation' = [mutation EXCEPT !.at = "changed"] /\ UNCHANGED reloading
     ELSE mutation' = [mutation EXCEPT !.at = "reload"] /\ Reload
  /\ UNCHANGED <<state, definitions, answered, excused, spent>>

\* persistState: what is disabled once the directory is there is what is written
Serialize ==
  /\ mutation.at = "changed"
  /\ mutation' = [mutation EXCEPT !.at = "writing", !.disabled = disabled]
  /\ UNCHANGED <<files, state, definitions, disabled, reloading, answered, excused, spent>>

WriteState ==
  /\ mutation.at = "writing" /\ state' = mutation.disabled
  /\ IF mutation.op = "remove"
     THEN mutation' = [mutation EXCEPT !.at = "reload"] /\ Reload
     ELSE mutation' = [mutation EXCEPT !.at = "done"] /\ UNCHANGED reloading
  /\ UNCHANGED <<files, definitions, disabled, answered, excused, spent>>

Answer ==
  LET n == mutation.name IN
  /\ mutation.at = "done" /\ mutation' = NoMutation
  /\ answered' =
       [files |-> IF mutation.op \in {"enable", "disable"} THEN answered.files
                  ELSE [answered.files EXCEPT ![n] = mutation.body],
        state |-> CASE mutation.op = "disable" -> answered.state \union {n}
                    [] mutation.op = "update" -> answered.state
                    [] OTHER -> answered.state \ {n}]
  /\ UNCHANGED <<files, state, definitions, disabled, reloading, excused, spent>>

\* a write that fails leaves its file, not what was done before it
WriteFails ==
  /\ mutation.at \in {"file", "changed", "writing"} /\ spent.faults < MaxFaults
  /\ spent' = [spent EXCEPT !.faults = @ + 1]
  /\ mutation' = NoMutation /\ excused' = (excused \/ mutation.at # "file")
  /\ UNCHANGED <<files, state, definitions, disabled, reloading, answered>>

---------------------------------------------------------------------------

\* what was under way ends with the process, and was not answered
Restart ==
  LET n == mutation.name IN
  /\ spent.faults < MaxFaults /\ spent' = [spent EXCEPT !.faults = @ + 1]
  /\ definitions' = Accepted(files) /\ disabled' = state
  /\ mutation' = NoMutation /\ reloading' = [x \in {Mutating, Listing} |-> NoReload]
  /\ answered' =
       [files |-> IF n \in Names THEN [answered.files EXCEPT ![n] = files[n]] ELSE answered.files,
        state |-> (answered.state \ {n}) \union (state \intersect {n})]
  /\ excused' = (excused \/ (mutation.op = "remove" /\ mutation.at \in {"changed", "writing"} /\ n \in state))
  /\ UNCHANGED <<files, state>>

Next ==
  \/ \E x \in {Mutating, Listing} : Scan(x) \/ Install(x) \/ ReadState(x) \/ SetDisabled(x)
  \/ \E n \in Names, body \in Bodies : Create(n, body) \/ Update(n, body)
  \/ \E n \in Names \union Builtins, enabled \in BOOLEAN : SetEnabled(n, enabled)
  \/ \E n \in Names : Remove(n)
  \/ List \/ ChangeFile \/ Serialize \/ WriteState \/ Answer \/ WriteFails \/ Restart

Spec == Init /\ [][Next]_vars

---------------------------------------------------------------------------
(* Between mutations and lists, the registry is what a reload would make   *)
(* it, that is what the answered mutations asked for, and no name without  *)
(* a file stays disabled, so that one created anew is enabled.  Not so     *)
(* once a mutation failed after its first effect (agent-definitions.ts:    *)
(* 418, 428), or the reload of a list, which does not wait for mutations,  *)
(* crossed one (apps/runtime/server.ts:1837).                              *)
RegistryFollowsDisk ==
  mutation.at = "idle" /\ reloading[Listing].at = "idle" /\ ~excused =>
    /\ answered = [files |-> files, state |-> state]
    /\ definitions = Accepted(files) /\ disabled = state
    /\ \A n \in state : n \in Builtins \/ files[n] # None
=============================================================================
