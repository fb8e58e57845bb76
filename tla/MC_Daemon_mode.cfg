\* A plain session and two postures.
CONSTANTS
  Action <- MCAction
  Pattern <- MCAction
  NormalForm <- MCNormalForm
  Trait <- MCTrait
  File = {}
  Tool = {}
  Configs = {}
  MaxDecisions = 1
  MaxTokens = 0
  MaxAssumptions = 0
  MaxStages = 0
  ModeLimits <- SourceModeLimits
  Packs <- MCPacks
  PolicyFiles = {""}
  Payloads <- PlainPayloads
  MaxSessions = 1
SPECIFICATION DSpec
CHECK_DEADLOCK FALSE
INVARIANTS SessionStateTellsMode
