\* Every rule of the engine, at limits small enough for each to be exceeded.
CONSTANTS
  Action <- MCAction
  Pattern <- MCPattern
  NormalForm <- MCNormalForm
  Trait <- MCTrait
  File = {"x"}
  Tool = {"shell"}
  Configs <- MCConfigs
  MaxDecisions = 4
  MaxTokens = 1
  MaxAssumptions = 1
  MaxStages = 1
SPECIFICATION Spec
CHECK_DEADLOCK FALSE
INVARIANTS TypeOK RetryCap WarnCap ActionCap
PROPERTIES NeverMilder ImplementsGate
