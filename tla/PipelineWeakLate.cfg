SPECIFICATION Spec
CONSTANTS
  Watching = {"WATCH"}
  Evidence <- MCWeakEvidence
  Policies <- MCPolicies
  MaxLifecycle = 1
  MaxNow = 0
  MaxCrashes = 0
  MaxReadFaults = 0
PROPERTIES
  LateRestsOnForming
