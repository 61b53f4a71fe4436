------------------------------- MODULE RunParts -------------------------------
(***************************************************************************)
(* What a Run acts through: the tool gateway, the command runner, the      *)
(* files of a Workspace, an MCP connection, and the journal of the Session *)
(* that records it, each with its own variables.                           *)
(***************************************************************************)
EXTENDS PartsValues, Integers, Sequences, FiniteSets

CONSTANTS ToolCalls, Commands, status, wipe, Inside, Outside, Tasks, Jobs, Requests, McpCalls,
          MaxSettings, MaxToolFaults,   \* bounds of ToolGateway
          TaskLimit,                    \* tasks kept by CommandRunner
          MaxMeddling,                  \* bound of WorkspaceFiles
          MaxServers,                   \* bound of McpClient
          MaxCommits, MaxCuts           \* bounds of SessionJournal

VARIABLES
  mode, modeFile, changes, whitelist, updates, enabled, calls, gatewaySpent,
  table, task, process, told,
  disk, runtime, cached, tails, job, meddled, filesSpent,
  conn, pending, inits, mcpCalls, servers, attached, crossed,
  file, meta, projection, load, op, acked, deleted, failed, journalExcused, next, journalFaults

gatewayVars == <<mode, modeFile, changes, whitelist, updates, enabled, calls, gatewaySpent>>
runnerVars == <<table, task, process, told>>
filesVars == <<disk, runtime, cached, tails, job, meddled, filesSpent>>
mcpVars == <<conn, pending, inits, mcpCalls, servers, attached, crossed>>
journalVars ==
  <<file, meta, projection, load, op, acked, deleted, failed, journalExcused, next, journalFaults>>

Gateway == INSTANCE ToolGateway WITH
  spent <- gatewaySpent, Calls <- ToolCalls, Builtin <- status, Forbidden <- {wipe},
  MaxFaults <- MaxToolFaults

Runner == INSTANCE CommandRunner

Files == INSTANCE WorkspaceFiles WITH spent <- filesSpent

Mcp == INSTANCE McpClient WITH calls <- mcpCalls, Calls <- McpCalls

Journal == INSTANCE SessionJournal WITH
  excused <- journalExcused, faults <- journalFaults, MaxFaults <- MaxCuts

ASSUME RunPartsAssumption ==
  Files!FilesAssumption /\ Runner!RunnerAssumption /\ Journal!JournalAssumption
=============================================================================
