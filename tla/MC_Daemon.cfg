\* Starts, restarts, postures and packs over two sessions.
CONSTANTS
  Action <- MCAction
  Pattern <- MCAction
  NormalForm <- MCNormalForm
  Trait <- MCTrait
  File = {"x"}
  Tool = {}
  Configs = {}
  MaxDecisions = 3
  MaxTokens = 0
  MaxAssumptions = 0
  MaxStages = 0
  ModeLimits <- MCModeLimits
  Packs <- MCPacks
  PolicyFiles = {"cleanup", "broken"}
  Payloads <- MCPayloads
  MaxSessions = 2
SPECIFICATION DSpec
CHECK_DEADLOCK FALSE
INVARIANTS DaemonTypeOK PatternCapped PostureEnforced PackBlocksHold CountersMatchTrace
PROPERTIES ShutdownKeepsTrace
