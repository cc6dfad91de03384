SPECIFICATION Spec
CONSTANTS
  Policies <- MCPolicies
  Errors = {"e1", "e2"}
INVARIANTS
  FirstSuccessOrLastError
  WaitsFollowSchedule
