SPECIFICATION Spec
CONSTANTS
  Watching = {"WATCH"}
  Evidence <- MCExtendedEvidence
  Policies <- MCPolicies
  MaxLifecycle = 1
  MaxNow = 0
  MaxCrashes = 0
  MaxReadFaults = 0
PROPERTIES
  LateStaysTerminal
