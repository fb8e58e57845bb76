\* A pack with a limit of its own, then a posture.
CONSTANTS
  Action <- MCAction
  Pattern <- MCAction
  NormalForm <- MCNormalForm
  Trait <- MCTrait
  File = {}
  Tool = {}
  Configs = {}
  MaxDecisions = 1
  MaxTokens = 0
  MaxAssumptions = 0
  MaxStages = 0
  ModeLimits <- SourceModeLimits
  Packs <- MCPacks
  PolicyFiles = {""}
  Payloads <- PackPayloads
  MaxSessions = 1
SPECIFICATION DSpec
CHECK_DEADLOCK FALSE
INVARIANTS PackLimitsHold
