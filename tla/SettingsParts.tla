---------------------------- MODULE SettingsParts ----------------------------
(***************************************************************************)
(* What the settings page changes: the definitions of sub agents, the MCP  *)
(* servers and the skills, each with its own variables.                    *)
(***************************************************************************)
EXTENDS PartsValues, Integers, Sequences, FiniteSets

CONSTANTS AgentNames, AgentBodies, BuiltinAgent, ServerNames, ServerBodies, Off, Syncs,
          Skills, Registries, SkillRequests,
          MaxCustom,                                        \* limit of AgentDefinitions
          MaxMutations, MaxAgentFaults,                     \* bounds of AgentDefinitions
          MaxMishaps,                                       \* bound of McpServers
          MaxSkillRequests, MaxCrashes                      \* bounds of SkillRegistry

VARIABLES
  agentFiles, agentState, definitions, disabled, change, reloading, answered, agentsExcused,
  agentsSpent,
  serverFile, configs, transports, serverRequest, writes, torn, mishaps,
  skillFiles, skillConfig, registry, skillLoad, skillRequest, toldDisabled, skillCrossed, behind,
  skillsSpent

agentVars ==
  <<agentFiles, agentState, definitions, disabled, change, reloading, answered, agentsExcused,
    agentsSpent>>
serverVars == <<serverFile, configs, transports, serverRequest, writes, torn, mishaps>>
skillVars ==
  <<skillFiles, skillConfig, registry, skillLoad, skillRequest, toldDisabled, skillCrossed, behind,
    skillsSpent>>

Definitions == INSTANCE AgentDefinitions WITH
  files <- agentFiles, state <- agentState, mutation <- change, excused <- agentsExcused,
  spent <- agentsSpent, Names <- AgentNames, Bodies <- AgentBodies, Builtin <- BuiltinAgent,
  MaxFaults <- MaxAgentFaults

Servers == INSTANCE McpServers WITH
  file <- serverFile, request <- serverRequest

SkillSet == INSTANCE SkillRegistry WITH
  files <- skillFiles, config <- skillConfig, load <- skillLoad, request <- skillRequest,
  told <- toldDisabled, crossed <- skillCrossed, spent <- skillsSpent

ASSUME SettingsAssumption == Definitions!DefinitionsAssumption /\ Servers!ServersAssumption
=============================================================================
