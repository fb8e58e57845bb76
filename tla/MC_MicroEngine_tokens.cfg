\* A budget of two tokens, both recorded as spent.
CONSTANTS
  Action <- MCAction
  Pattern <- MCPattern
  NormalForm <- MCNormalForm
  Trait <- MCTrait
  File = {}
  Tool = {}
  Configs <- BudgetConfigs
  MaxDecisions = 1
  MaxTokens = 2
  MaxAssumptions = 0
  MaxStages = 0
SPECIFICATION Spec
CHECK_DEADLOCK FALSE
PROPERTIES TokensExhaustBudget
