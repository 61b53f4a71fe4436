------------------------------- MODULE MCParts -------------------------------
(***************************************************************************)
(* The components the Run core calls, each by itself: the files of managed *)
(* memory, the tool gateway, the command runner, the files of a Workspace, *)
(* an MCP connection, the journal of a Session, what the settings page     *)
(* changes (definitions of sub agents, MCP servers, skills) and the        *)
(* context engine.  Each behaviour runs one of them, the part chosen at    *)
(* the start; the others stay at their initial state.                      *)
(***************************************************************************)
EXTENDS RunParts, SettingsParts, ContextParts

VARIABLE part

Parts == {"store", "gateway", "runner", "files", "mcp",
          "journal", "definitions", "servers", "skills", "context"}
vars ==
  <<part, storeVars, gatewayVars, runnerVars, filesVars, mcpVars, journalVars, agentVars,
    serverVars, skillVars, contextVars>>

Init ==
  /\ part \in Parts
  /\ Store!Init /\ Gateway!Init /\ Runner!Init /\ Files!Init /\ Mcp!Init
  /\ Journal!Init /\ Definitions!Init /\ Servers!Init /\ SkillSet!Init /\ Context!Init
  \* one initial state of the files is enough for the other parts
  /\ part # "definitions" => agentFiles = [n \in AgentNames |-> None]
  /\ part # "servers" => serverFile = [n \in ServerNames |-> None]
  /\ part # "skills" => skillFiles = {}

\* the steps of each part
Next ==
  \/ /\ part = "store" /\ Store!Next
     /\ UNCHANGED <<part, gatewayVars, runnerVars, filesVars, mcpVars, journalVars,
                   agentVars, serverVars, skillVars, contextVars>>
  \/ /\ part = "gateway" /\ Gateway!Next
     /\ UNCHANGED <<part, storeVars, runnerVars, filesVars, mcpVars, journalVars,
                   agentVars, serverVars, skillVars, contextVars>>
  \/ /\ part = "runner" /\ Runner!Next
     /\ UNCHANGED <<part, storeVars, gatewayVars, filesVars, mcpVars, journalVars,
                   agentVars, serverVars, skillVars, contextVars>>
  \/ /\ part = "files" /\ Files!Next
     /\ UNCHANGED <<part, storeVars, gatewayVars, runnerVars, mcpVars, journalVars,
                   agentVars, serverVars, skillVars, contextVars>>
  \/ /\ part = "mcp" /\ Mcp!Next
     /\ UNCHANGED <<part, storeVars, gatewayVars, runnerVars, filesVars, journalVars,
                   agentVars, serverVars, skillVars, contextVars>>
  \/ /\ part = "journal" /\ Journal!Next
     /\ UNCHANGED <<part, storeVars, gatewayVars, runnerVars, filesVars, mcpVars,
                   agentVars, serverVars, skillVars, contextVars>>
  \/ /\ part = "definitions" /\ Definitions!Next
     /\ UNCHANGED <<part, storeVars, gatewayVars, runnerVars, filesVars, mcpVars,
                   journalVars, serverVars, skillVars, contextVars>>
  \/ /\ part = "servers" /\ Servers!Next
     /\ UNCHANGED <<part, storeVars, gatewayVars, runnerVars, filesVars, mcpVars,
                   journalVars, agentVars, skillVars, contextVars>>
  \/ /\ part = "skills" /\ SkillSet!Next
     /\ UNCHANGED <<part, storeVars, gatewayVars, runnerVars, filesVars, mcpVars,
                   journalVars, agentVars, serverVars, contextVars>>
  \/ /\ part = "context" /\ Context!Next
     /\ UNCHANGED <<part, storeVars, gatewayVars, runnerVars, filesVars, mcpVars,
                   journalVars, agentVars, serverVars, skillVars>>

Spec == Init /\ [][Next]_vars

---------------------------------------------------------------------------
(* At rest MEMORY.md names every topic with the body it has, and no other. *)
IndexFollowsTopics == part = "store" => Store!IndexFollowsTopics

(* A topic changes only from the body its writer read, in its generation.  *)
CommitsAreFenced == Store!CommitsAreFenced

(* An effect was let pass by the policy or allowed by the user.            *)
EffectsAreAuthorised == part = "gateway" => Gateway!EffectsAreAuthorised

(* A process that runs unasked to end can be read and stopped.             *)
RunningIsInReach == part = "runner" => Runner!RunningIsInReach

(* A patch replaces the content it was checked against.                    *)
PatchesReplaceWhatTheyRead == Files!PatchesReplaceWhatTheyRead

(* An MCP call reaches an initialised server and has that server's answer. *)
CallsReachAReadyServer == part = "mcp" => Mcp!CallsReachAReadyServer

(* A commit a caller was told of can be loaded again.                      *)
AcknowledgedStays == part = "journal" => Journal!AcknowledgedStays

(* What the settings page shows of sub agents, MCP servers and skills is   *)
(* what the files say and what was answered.                               *)
RegistryFollowsDisk ==
  /\ part = "definitions" => Definitions!RegistryFollowsDisk
  /\ part = "servers" => Servers!ServersFollowTheList
  /\ part = "skills" => SkillSet!SkillsFollowTheConfig

(* A model request is about the request the Run works on, within the limit. *)
RequestServesTheActiveRequest == part = "context" => Context!RequestServesTheActiveRequest

(* No projection of the messages separates a call from its result.         *)
ProjectionsKeepPairs == part = "context" => Context!ProjectionsKeepPairs

(* What a request leaves out is kept by an artifact or was summarised.     *)
NothingIsLost == part = "context" => Context!NothingIsLost
=============================================================================
