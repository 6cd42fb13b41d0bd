SPECIFICATION FairSpec
CONSTANTS
  Calls = {c1, c2}
  Payloads = {"ok", "tool_error", "invalid"}
  MaxFaults = 1
CHECK_DEADLOCK FALSE
INVARIANTS
  NoOrphans
  ReportsTheTool
  ProfileFirst
PROPERTIES
  EveryRunEnds
