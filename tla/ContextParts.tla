----------------------------- MODULE ContextParts -----------------------------
(***************************************************************************)
(* What a model request is made of: the files of managed memory and the    *)
(* messages the context engine picks, each with its own variables.         *)
(***************************************************************************)
EXTENDS PartsValues, Integers, Sequences, FiniteSets

CONSTANTS Bodies, MemoryIds, Bracketed, IndexLimit,
          MaxRequests, MaxWaiting, MaxFaults, MaxRestarts,   \* bounds of MemoryStore
          MaxConversationMessages, LatestToolResultsToKeep, LatestToolBatchChars,
          LargeToolResultChars, HardLimit, TargetTokens, SummaryTarget, PreviewSize, CompactMin,
          ForkSegments, ForkTokens, LegacyChars, ResultSizes, Ratios,  \* policy of ContextEngine
          MaxCalls, MaxMessages                              \* bounds of ContextEngine

VARIABLES
  topics, index, journal, intent, settings, known, ready, degraded, queue, mutation, broken,
  storeSpent,
  canonical, saved, seen, summary, at, activeRequest, continued, forced, recovered, ratio,
  prepared, request

storeVars ==
  <<topics, index, journal, intent, settings, known, ready, degraded, queue, mutation, broken,
    storeSpent>>
contextVars ==
  <<canonical, saved, seen, summary, at, activeRequest, continued, forced, recovered, ratio,
    prepared, request>>

Store == INSTANCE MemoryStore WITH
  job <- mutation, spent <- storeSpent, Ids <- MemoryIds

Context == INSTANCE ContextEngine WITH job <- prepared

ASSUME ContextPartsAssumption == Store!MemoryAssumption /\ Context!ContextAssumption
=============================================================================
