------------------------------ MODULE ToolGateway ------------------------------
(***************************************************************************)
(* How a tool call of an Agent comes to have its effect: executeAgentTool  *)
(* of packages/tool-gateway/index.ts with the policy (approval-policy.ts), *)
(* the mode (approval-mode-store.ts) and the command whitelist             *)
(* (command-whitelist-store.ts), while the settings page changes them.     *)
(*                                                                         *)
(* A subject is an effect and its target, a command or a path; the target  *)
(* stands for the whole normalized input, and equal subjects have equal    *)
(* fingerprints.                                                           *)
(***************************************************************************)
EXTENDS Integers, Sequences, FiniteSets

CONSTANTS Calls,
          Commands,
          Builtin,      \* the command of DEFAULT_ENTRIES
          Forbidden,    \* commands of HARD_DENY_PATTERNS
          Inside, Outside,  \* paths in the workspace, and the others
          None,
          MaxSettings,  \* bound: requests of the settings page
          MaxFaults     \* bound: file operations that fail, restarts

VARIABLES
  mode, modeFile,   \* approval-mode.json and its copy in memory
  changes,          \* setMode calls, one after the other
  whitelist,        \* command-whitelist.json
  updates,          \* whitelist updates: what each has loaded, in the order of their saves
  enabled,          \* the effects whose tools are enabled
  calls,
  spent

stores == <<mode, modeFile, changes, whitelist, updates>>
vars == <<stores, enabled, calls, spent>>

Modes == {"read_only", "allowlist", "full_access"}
Subjects ==
  [effect : {"execute"}, target : Commands] \union [effect : {"write"}, target : {Inside, Outside}]
    \union [effect : {"read", "external"}, target : {Inside}]
HardDenied(s) ==
  \/ s.effect = "execute" /\ s.target \in Forbidden
  \/ s.effect = "write" /\ s.target = Outside

Idle == [step |-> "idle", subject |-> None, channel |-> FALSE, matched |-> FALSE,
         may |-> FALSE, yes |-> FALSE]
Ran(c) == calls[c].step = "ran"
Flying(c) == calls[c].step \in {"looking", "looked", "asked", "adding", "effect"}

Init ==
  /\ mode = "allowlist" /\ modeFile = mode /\ changes = <<>>
  /\ whitelist = {Builtin} /\ updates = <<>>
  /\ enabled = {"read", "write", "execute", "external"}
  /\ calls = [c \in Calls |-> Idle]
  /\ spent = [settings |-> 0, faults |-> 0]

Spend(what, bound) == spent[what] < bound /\ spent' = [spent EXCEPT ![what] = @ + 1]

---------------------------------------------------------------------------
(* The policy *)

Options(s) == {"allow_once", "deny"} \union (IF s.effect = "execute" THEN {"allow_whitelist"} ELSE {})

\* authorizeApproval
Authorize(s, matched, m) ==
  IF HardDenied(s) THEN "deny"
  ELSE IF s.effect = "read" \/ matched \/ m = "full_access" \/ (m = "allowlist" /\ s.effect = "write")
       THEN "allow" ELSE "ask"

Matched(s, rules) == s.effect = "execute" /\ s.target \in rules

\* history: the calls the policy would let pass, were it asked with this mode and these rules
Seen(m, rules) ==
  [c \in Calls |->
     IF Flying(c) /\ Authorize(calls[c].subject, Matched(calls[c].subject, rules), m) = "allow"
     THEN [calls[c] EXCEPT !.may = TRUE] ELSE calls[c]]

---------------------------------------------------------------------------
(* The stores *)

\* setMode waits for the one before it; its file is written before the mode changes
SetMode(m) ==
  /\ Spend("settings", MaxSettings) /\ changes' = Append(changes, m)
  /\ UNCHANGED <<mode, modeFile, whitelist, updates, enabled, calls>>

PersistMode ==
  /\ changes # <<>> /\ changes' = Tail(changes)
  /\ \/ /\ mode' = Head(changes) /\ modeFile' = (IF mode = Head(changes) THEN modeFile ELSE Head(changes))
        /\ calls' = Seen(mode', whitelist) /\ UNCHANGED spent
     \/ Spend("faults", MaxFaults) /\ UNCHANGED <<mode, modeFile, calls>>
  /\ UNCHANGED <<whitelist, updates, enabled>>

\* an update loads the entries; what it saves it computes from them
Load(owner, entries) == updates' = Append(updates, [owner |-> owner, entries |-> entries])

\* the settings page adds a rule, any rule, or removes one that is not built in
Administer ==
  /\ Spend("settings", MaxSettings)
  /\ \E cmd \in Commands :
       \/ cmd \notin whitelist /\ Load(None, whitelist \union {cmd})
       \/ cmd \in whitelist /\ cmd # Builtin /\ Load(None, whitelist \ {cmd})
  /\ UNCHANGED <<mode, modeFile, changes, whitelist, enabled, calls>>

\* the saves are made in turn
Save ==
  /\ updates # <<>> /\ updates' = Tail(updates)
  /\ LET owner == Head(updates).owner
         waits == owner \in Calls /\ calls[owner].step = "adding"
         Goes(next, state) == IF waits THEN [state EXCEPT ![owner].step = next] ELSE state
     IN  \/ /\ whitelist' = Head(updates).entries
            /\ calls' = Goes("effect", Seen(mode, whitelist')) /\ UNCHANGED spent
         \/ /\ Spend("faults", MaxFaults) /\ calls' = Goes("over", calls) /\ UNCHANGED whitelist
  /\ UNCHANGED <<mode, modeFile, changes, enabled>>

SetToolEnabled ==
  /\ Spend("settings", MaxSettings)
  /\ \E e \in {"write", "execute"} : enabled' = (enabled \ {e}) \union ({e} \ enabled)
  /\ UNCHANGED <<stores, calls>>

---------------------------------------------------------------------------
(* executeAgentTool *)

To(c, step) == calls' = [calls EXCEPT ![c].step = step]

\* a call that passes validateToolCall; channel: an approval can be asked for it
Arrive(c) ==
  /\ calls[c].step = "idle"
  /\ \E s \in Subjects, channel \in BOOLEAN :
       calls' = [calls EXCEPT ![c] =
         [Idle EXCEPT !.step = "looking", !.subject = s, !.channel = channel,
                      !.may = Authorize(s, Matched(s, whitelist), mode) = "allow"]]
  /\ UNCHANGED <<stores, enabled, spent>>

\* approvalSubject
Look(c) ==
  /\ calls[c].step = "looking"
  /\ \/ /\ calls' = [calls EXCEPT ![c].step = "looked", ![c].matched = Matched(calls[c].subject, whitelist)]
        /\ UNCHANGED spent
     \/ calls[c].subject.effect = "execute" /\ Spend("faults", MaxFaults) /\ To(c, "over")
  /\ UNCHANGED <<stores, enabled>>

Decide(c) ==
  LET outcome == Authorize(calls[c].subject, calls[c].matched, mode) IN
  /\ calls[c].step = "looked"
  /\ \/ outcome = "allow" /\ To(c, "effect")
     \/ outcome = "ask" /\ calls[c].channel /\ To(c, "asked")
     \/ (outcome = "deny" \/ (outcome = "ask" /\ ~calls[c].channel)) /\ To(c, "over")
  /\ UNCHANGED <<stores, enabled, spent>>

\* were an answer taken for whatever waits
MatchesAnyone(s, a) == a.decision \in Options(s)

Matches(s, a) == a.fingerprint = s /\ a.decision \in Options(s)

\* the answer the hook returns; the whitelist is loaded before the call goes on
AnswerArrives(c, a) ==
  LET s == calls[c].subject
      Goes(step) ==
        calls' = [calls EXCEPT ![c].step = step, ![c].yes = a.decision # "deny" /\ a.fingerprint = s]
  IN
  /\ calls[c].step = "asked"
  /\ IF ~Matches(s, a) \/ a.decision = "deny" THEN Goes("over") /\ UNCHANGED updates
     ELSE IF a.decision = "allow_once" \/ s.target \in whitelist THEN Goes("effect") /\ UNCHANGED updates
     ELSE Goes("adding") /\ Load(c, whitelist \union {s.target})
  /\ UNCHANGED <<mode, modeFile, changes, whitelist, enabled, spent>>

\* the hook rejects: the answer did not come in time, or the Run was stopped
AnswerFails(c) ==
  /\ calls[c].step = "asked" /\ To(c, "over")
  /\ UNCHANGED <<stores, enabled, spent>>

\* the tool itself: disabled, aborted, refused by its second look at a command or its path, or run
TakeEffect(c) ==
  /\ calls[c].step = "effect"
  /\ \/ calls[c].subject.effect \in enabled /\ ~HardDenied(calls[c].subject) /\ To(c, "ran")
     \/ To(c, "over")
  /\ UNCHANGED <<stores, enabled, spent>>

\* the mode of a damaged file is read_only, and the file is left
Restart ==
  /\ Spend("faults", MaxFaults)
  /\ \E m \in {modeFile, "read_only"} : mode' = m
  /\ changes' = <<>> /\ updates' = <<>>
  /\ enabled' = {"read", "write", "execute", "external"}
  /\ calls' = [c \in Calls |-> IF Flying(c) THEN [calls[c] EXCEPT !.step = "over"] ELSE calls[c]]
  /\ UNCHANGED <<modeFile, whitelist>>

Answers == [decision : {"allow_once", "allow_whitelist", "deny"}, fingerprint : Subjects]

Next ==
  \/ \E m \in Modes : SetMode(m)
  \/ PersistMode \/ Administer \/ Save \/ SetToolEnabled \/ Restart
  \/ \E c \in Calls :
       \/ Arrive(c) \/ Look(c) \/ Decide(c) \/ AnswerFails(c) \/ TakeEffect(c)
       \/ \E a \in Answers : AnswerArrives(c, a)

Spec == Init /\ [][Next]_vars

---------------------------------------------------------------------------
(* An effect is had only by a call that is not denied outright and that    *)
(* the policy, at some moment since the call arrived, let pass without     *)
(* asking, or that the user, asked for just this input, allowed: however   *)
(* mode and whitelist change while the call waits for its answer           *)
(* (tool-gateway/index.ts:506-541).                                        *)
EffectsAreAuthorised ==
  \A c \in Calls : Ran(c) => ~HardDenied(calls[c].subject) /\ (calls[c].may \/ calls[c].yes)

=============================================================================
