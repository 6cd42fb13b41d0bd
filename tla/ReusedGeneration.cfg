SPECIFICATION Spec
CONSTANTS
  Sessions = {s1}
  Tasks = {t1, t2}
  Maint = maint
  Nil = nil
  MaxSteps = 2
  Depth = 2
  Ageing = FALSE
  Targets = {0, 1}
  MaxFaults = 0
  Requests = {"create", "delete", "rollback"}
  StepCap = 2
  GenCap = 2
  AuditCap = 1
SYMMETRY TaskSymmetry
INVARIANTS
  InsertIsFresh
