SPECIFICATION Spec
CONSTANTS
  Watching = {"WATCH"}
  Evidence <- MCUpdatedEvidence
  Policies <- MCPolicies
  MaxLifecycle = 1
  MaxNow = 0
  MaxCrashes = 0
  MaxReadFaults = 0
INVARIANTS
  StandingReadyNotDropped
