\* Two of the built-in packs.
CONSTANTS
  UserPacks <- NoUserPacks
  Unknown = {}
  Text = {}
  ModeLimits <- MCModeLimits
  MaxLayers = 2
  MaxOptions = 0
  Assessed = {}
SPECIFICATION Spec
INVARIANTS MostRestrictiveWins
CHECK_DEADLOCK FALSE
