SPECIFICATION Spec
CONSTANTS
  Watching = {"WATCH"}
  Evidence <- MCPlainEvidence
  Policies <- MCPolicies
  MaxLifecycle = 1
  MaxNow = 0
  MaxCrashes = 0
  MaxReadFaults = 1
PROPERTIES
  InvalidatedOutsideUniverse
