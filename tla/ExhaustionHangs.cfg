SPECIFICATION FairSpec
CONSTANTS
  Sessions = {s1}
  Tasks = {t1, t2}
  Maint = maint
  Nil = nil
  MaxSteps = 1
  Depth = 2
  Ageing = FALSE
  Targets = {0, 1}
  MaxFaults = 0
  Requests = {"create", "tool"}
  StepCap = 2
  GenCap = 2
  AuditCap = 1
PROPERTIES
  ExhaustionTerminates
