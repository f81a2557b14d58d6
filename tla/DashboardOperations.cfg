SPECIFICATION Spec
CONSTANTS
  Tabs = {t1, t2}
  Sessions = {s1, s2}
  Operations = {o1}
  LoginLife = 1
  SessionLife = 2
  IdleLife = 2
  OperationLife = 1
  MaxPerSession = 1
  None = None
  Horizon = 2
  MaxAttempts = 2
INVARIANTS
  OneEffectPerOperation
  AttemptsHaveACall
PROPERTIES
  DataOnlyInSession
  OperationPromiseSpec
SYMMETRY MCSymmetry
CHECK_DEADLOCK FALSE
