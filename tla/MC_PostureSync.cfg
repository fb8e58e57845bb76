SPECIFICATION SyncSpec
CONSTANTS
  Hook = {h1, h2, h3}
  Mcp = mcp
  Fired = {"sessionStart", "act", "stop"}
  Raises = TRUE
  Daemon <- MCThree
  Concurrent = FALSE
  Slow = FALSE
  Signals = FALSE
  Crashes = TRUE
  Posture = {"standard", "speed"}
  Standard = "standard"
  MaxUpdates = 2
SYMMETRY HookSymmetry
INVARIANTS SyncTypeOK OneServer ServerIsReachable GovernedWhileUp PostureTakesEffect
\* The editor may fire no more events and the daemons are gone.
CHECK_DEADLOCK FALSE
