SPECIFICATION FairSpec
CONSTANTS
  Calls = {c1}
  Payloads = {"ok", "tool_error"}
  MaxFaults = 0
CHECK_DEADLOCK FALSE
PROPERTIES
  TimeoutsAreReported
