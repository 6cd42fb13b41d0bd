SPECIFICATION Spec
CONSTANTS
  Agents = {a1, a2}
  MaxRpm = 2
  Window = 2
  Second = 2
  TimeCap = 8
INVARIANTS
  BurstBound
  RetryAfterWorks
  RefusedForCause
