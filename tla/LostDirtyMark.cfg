SPECIFICATION Spec
CONSTANTS
  Sessions = {s1}
  Tasks = {t1}
  Maint = maint
  Nil = nil
  MaxSteps = 2
  Depth = 2
  Ageing = FALSE
  Targets = {0, 1}
  MaxFaults = 0
  Requests = {"create", "tool"}
  StepCap = 2
  GenCap = 2
  AuditCap = 1
INVARIANTS
  CleanMeansSaved
