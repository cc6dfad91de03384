SPECIFICATION Spec
CONSTANTS
  Tasks = {t1, t2}
  FailureThreshold = 2
  ResetTimeout = 2
  NoTime = NoTime
  MaxFailures = 4
INVARIANTS
  OneProbe
