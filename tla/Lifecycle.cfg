SPECIFICATION FairSpec
CONSTANTS
  Sessions = {s1, s2}
  Tasks = {t1, t2}
  Maint = maint
  Nil = nil
  MaxSteps = 2
  Depth = 1
  Ageing = FALSE
  Targets = {0, 1}
  MaxFaults = 0
  Requests = {"create", "tool"}
  StepCap = 3
  GenCap = 2
  AuditCap = 1
INVARIANTS
  InsertIsFresh
PROPERTIES
  DirtyGetsSaved
