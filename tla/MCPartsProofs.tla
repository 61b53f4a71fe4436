----------------------------- MODULE MCPartsProofs -----------------------------
(* The theorems about the components that MCParts puts side by side, carried    *)
(* over to the behaviours its run checks, for every value of its constants.     *)
EXTENDS MCParts, PartsProofs, ContextPartsProofs

\* A behaviour of MCParts is, for each component, one of that component: its own steps,
\* or none.
LEMMA GatewayBehaves == Spec => Gateway!Spec
<1>1. Init => Gateway!Init
  BY DEF Init
<1>2. [Next]_vars => [Gateway!Next]_(Gateway!vars)
  BY DEF Next, vars, gatewayVars, Gateway!vars, Gateway!stores
<1> QED BY <1>1, <1>2, PTL DEF Spec, Gateway!Spec

LEMMA RunnerBehaves == Spec => Runner!Spec
<1>1. Init => Runner!Init
  BY DEF Init
<1>2. [Next]_vars => [Runner!Next]_(Runner!vars)
  BY DEF Next, vars, runnerVars, Runner!vars
<1> QED BY <1>1, <1>2, PTL DEF Spec, Runner!Spec

LEMMA FilesBehave == Spec => Files!Spec
<1>1. Init => Files!Init
  BY DEF Init
<1>2. [Next]_vars => [Files!Next]_(Files!vars)
  BY DEF Next, vars, filesVars, Files!vars
<1> QED BY <1>1, <1>2, PTL DEF Spec, Files!Spec

LEMMA McpBehaves == Spec => Mcp!Spec
<1>1. Init => Mcp!Init
  BY DEF Init
<1>2. [Next]_vars => [Mcp!Next]_(Mcp!vars)
  BY DEF Next, vars, mcpVars, Mcp!vars
<1> QED BY <1>1, <1>2, PTL DEF Spec, Mcp!Spec

LEMMA JournalBehaves == Spec => Journal!Spec
<1>1. Init => Journal!Init
  BY DEF Init
<1>2. [Next]_vars => [Journal!Next]_(Journal!vars)
  BY DEF Next, vars, journalVars, Journal!vars
<1> QED BY <1>1, <1>2, PTL DEF Spec, Journal!Spec

LEMMA StoreBehaves == Spec => Store!Spec
<1>1. Init => Store!Init
  BY DEF Init
<1>2. [Next]_vars => [Store!Next]_(Store!vars)
  BY DEF Next, vars, storeVars, Store!vars, Store!disk, Store!process
<1> QED BY <1>1, <1>2, PTL DEF Spec, Store!Spec

LEMMA DefinitionsBehave == Spec => Definitions!Spec
<1>1. Init => Definitions!Init
  BY DEF Init
<1>2. [Next]_vars => [Definitions!Next]_(Definitions!vars)
  BY DEF Next, vars, agentVars, Definitions!vars
<1> QED BY <1>1, <1>2, PTL DEF Spec, Definitions!Spec

LEMMA ServersBehave == Spec => Servers!Spec
<1>1. Init => Servers!Init
  BY DEF Init
<1>2. [Next]_vars => [Servers!Next]_(Servers!vars)
  BY DEF Next, vars, serverVars, Servers!vars
<1> QED BY <1>1, <1>2, PTL DEF Spec, Servers!Spec

LEMMA SkillsBehave == Spec => SkillSet!Spec
<1>1. Init => SkillSet!Init
  BY DEF Init
<1>2. [Next]_vars => [SkillSet!Next]_(SkillSet!vars)
  BY DEF Next, vars, skillVars, SkillSet!vars
<1> QED BY <1>1, <1>2, PTL DEF Spec, SkillSet!Spec

LEMMA ContextBehaves == Spec => Context!Spec
<1>1. Init => Context!Init
  BY DEF Init
<1>2. [Next]_vars => [Context!Next]_(Context!vars)
  BY DEF Next, vars, contextVars, Context!vars, Context!session, Context!turn
<1> QED BY <1>1, <1>2, PTL DEF Spec, Context!Spec

\* Every effect of a tool call was let pass by the policy or allowed by the user.
THEOREM PartsAuthoriseEffects == Spec => []EffectsAreAuthorised
<1>1. Gateway!EffectsAreAuthorised => EffectsAreAuthorised
  BY DEF EffectsAreAuthorised
<1> QED BY <1>1, EffectsNeedAuthority, GatewayBehaves, PTL

\* A background process that runs unasked to end can be read and stopped.
THEOREM PartsKeepProcessesInReach == Spec => []RunningIsInReach
<1>1. Runner!Spec => []Runner!RunningIsInReach
  BY RunPartsAssumption, RunningStaysInReach
<1>2. Runner!RunningIsInReach => RunningIsInReach
  BY DEF RunningIsInReach
<1> QED BY <1>1, <1>2, RunnerBehaves, PTL

\* A patch replaces the content it was checked against, unless a hand or another
\* runtime of the Workspace wrote the file.
THEOREM PartsPatchWhatTheyRead == Spec => PatchesReplaceWhatTheyRead
<1>1. Files!Spec => Files!PatchesReplaceWhatTheyRead
  BY RunPartsAssumption, PatchesReplaceWhatWasChecked
<1> QED BY <1>1, FilesBehave, PTL DEF PatchesReplaceWhatTheyRead

\* A call reaches a greeted child and resolves only with that child's answer to it, but
\* for a handshake that ended after its connection had been reset.
THEOREM PartsCallReadyServers == Spec => []CallsReachAReadyServer
<1>1. Mcp!CallsReachAReadyServer => CallsReachAReadyServer
  BY DEF CallsReachAReadyServer
<1> QED BY <1>1, CallsReachReadyServers, McpBehaves, PTL

\* What a caller was told is committed stays in the journal and can be loaded, a trusted
\* sidecar has its revision, and a deleted Session stays away, but for the excused cases.
THEOREM PartsKeepAcknowledged == Spec => []AcknowledgedStays
<1>1. Journal!AcknowledgedStays => AcknowledgedStays
  BY DEF AcknowledgedStays
<1> QED BY <1>1, AcknowledgedIsKept, JournalBehaves, PTL

\* A topic changes only from the body its writer, or the intent that recovers it, expects.
THEOREM PartsFenceCommits == Spec => CommitsAreFenced
<1> QED BY CommitsStayFenced, StoreBehaves, PTL DEF CommitsAreFenced

\* At rest MEMORY.md names every topic with the body it has, and no other (store.ts:113-141,
\* 278-459): whatever step a mutation stopped at, the intent names the index that follows.
\* A topic with a line that the matcher of format.ts passes over is not judged.
THEOREM PartsKeepTheIndex == Spec => []IndexFollowsTopics
<1>1. Store!IndexFollowsTopics => IndexFollowsTopics
  BY DEF IndexFollowsTopics
<1> QED BY <1>1, IndexFollows, StoreBehaves, PTL

\* A request ends with the conversation about the request the Run works on, as the user wrote
\* it, and is within the limit of the window (context-engine.ts and the Run loop).
THEOREM PartsServeTheActiveRequest == Spec => []RequestServesTheActiveRequest
<1>1. Context!RequestServesTheActiveRequest => RequestServesTheActiveRequest
  BY DEF RequestServesTheActiveRequest
<1> QED BY <1>1, RequestsServe, ContextBehaves, PTL

\* In a request, in what a child Agent inherits of one and in the older projection, a result
\* stands behind its call and a call that was answered keeps its result.
THEOREM PartsKeepPairs == Spec => []ProjectionsKeepPairs
<1>1. Context!ProjectionsKeepPairs => ProjectionsKeepPairs
  BY DEF ProjectionsKeepPairs
<1> QED BY <1>1, PairsAreKept, ContextBehaves, PTL

\* Every message of the Session is in a request as it is, or is kept in full by an artifact,
\* or was put before the summarizer.
THEOREM PartsLoseNothing == Spec => []NothingIsLost
<1>1. Context!NothingIsLost => NothingIsLost
  BY DEF NothingIsLost
<1> QED BY <1>1, RequestsLoseNothing, ContextBehaves, PTL

\* While nothing is under way the settings page shows what is on disk: the definitions of
\* sub agents and which are disabled, as they were answered, unless a write failed half way
\* or a list crossed a mutation (agent-definitions.ts); each enabled MCP server, attached
\* once, unless requests crossed and no whole list came alone after them (server.ts,
\* mcp-client); and the skills in every registry loaded since (skill-registry.ts).
THEOREM PartsFollowTheDisk == Spec => []RegistryFollowsDisk
<1>1. /\ Definitions!RegistryFollowsDisk /\ Servers!ServersFollowTheList
      /\ SkillSet!SkillsFollowTheConfig
      => RegistryFollowsDisk
  BY DEF RegistryFollowsDisk
<1> QED BY <1>1, DefinitionsFollow, DefinitionsBehave, ServersFollow, ServersBehave,
          SkillsFollow, SkillsBehave, PTL

================================================================================
