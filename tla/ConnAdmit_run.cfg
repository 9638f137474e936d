SPECIFICATION Spec
CONSTANTS
  c1 = c1
  c2 = c2
  Callers <- MCCallers
  MaxRejections = 2
  MaxConnects = 3
INVARIANTS TypeOK OnlyAdmittedUsed RecordAgrees
CHECK_DEADLOCK FALSE
