SPECIFICATION Spec
CONSTANTS
  Hook = {h1, h2, h3}
  Mcp = mcp
  Fired = {"sessionStart", "act", "stop"}
  Raises = FALSE
  Daemon <- MCThree
  Concurrent = TRUE
  Slow = FALSE
  Signals = FALSE
  Crashes = FALSE
SYMMETRY HookSymmetry
PROPERTIES DeadSocketDetected
\* The editor may fire no more events and the daemons are gone.
CHECK_DEADLOCK FALSE
