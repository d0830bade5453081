SPECIFICATION Spec
CONSTANTS
  Revisions = {2}
  Keep = 2
  MaxDeploys = 1
INVARIANT
  QuarantineHolds
