\* Two stages, one call at a time or several under way.
CONSTANTS
  Action <- MCAction
  Pattern <- MCAction
  NormalForm <- MCNormalForm
  Trait <- MCTrait
  File = {}
  Tool = {}
  Configs <- MCConfigs
  MaxDecisions = 3
  MaxTokens = 0
  MaxAssumptions = 0
  MaxStages = 1
  Kind <- MCKind
  KindOf <- MCKindOf
  Contracts <- MCContracts
  MaxRefusals = 2
  MaxReplans = 1
  MaxSpend = 1
SPECIFICATION StagedSpec
CHECK_DEADLOCK FALSE
INVARIANTS StagedTypeOK CompletedProceeded CompletionsEarned TraceMatchesEngine StageBoundsSession BudgetOverrun RefusalsReportedOnce
PROPERTIES TraceIsHistory ComposesWithSession
