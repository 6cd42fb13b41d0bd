SPECIFICATION FairSpec
CONSTANTS
  Sessions = {s1}
  Tasks = {t1, t2}
  Maint = maint
  Nil = nil
  MaxSteps = 1
  Depth = 1
  Ageing = FALSE
  Targets = {0, 1}
  MaxFaults = 1
  Requests = {"create", "tool", "drift", "delete", "rollback"}
  StepCap = 2
  GenCap = 2
  AuditCap = 1
INVARIANTS
  TypeOK
  ContiguousGenerations
  CounterMatchesRows
  RetentionBound
  LocksMatchOperations
PROPERTIES
  AuditMatchesCounter
  EngineCallsReturn
  KeepsLedger
