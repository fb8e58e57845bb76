SPECIFICATION FairSpec
CONSTANTS
  Hook = {h1, h2}
  Mcp = mcp
  Fired = {"sessionStart", "act", "stop"}
  Raises = FALSE
  Daemon <- MCTwo
  Concurrent = TRUE
  Slow = TRUE
  Signals = TRUE
  Crashes = TRUE
PROPERTIES HooksEnd DaemonsLeave
\* The editor may fire no more events and the daemons are gone.
CHECK_DEADLOCK FALSE
