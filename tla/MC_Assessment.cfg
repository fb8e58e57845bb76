\* All situations, all changes of one factor; all layerings of three packs;
\* all outcomes of testing three options in four situations.
CONSTANTS
  UserPacks <- MCUserPacks
  Unknown = {"nobody's"}
  Text = {"infra"}
  ModeLimits <- MCModeLimits
  MaxLayers = 3
  MaxOptions = 3
  Assessed <- MCAssessed
SPECIFICATION Spec
INVARIANTS IrreversibleProductionGuarded MergeIsStrictest FailureTeaches UnscopedMeansUnfiltered
PROPERTIES RiskNeverLowersMode RiskNeverNarrowsTesting MoreOptionsNeverLower
\* A call has at most three layers.
CHECK_DEADLOCK FALSE
