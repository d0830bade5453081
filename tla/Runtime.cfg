SPECIFICATION FairSpec
CONSTANTS
  Symbols = {a, b}
  Limits = {1, 2}
  Threshold = 2
  Contracts = {1, 2, 3}
  BatchSize = 2
  MaxChanges = 1
  MaxStops = 1
  Clients = {a}
  QueueLimit = 2
  ReplayLimit = 2
  MaxContent = 2
  MaxId = 2
  MaxRestarts = 1
  CacheLife = 2
  MaxHistory = 2
  MaxFaults = 2
INVARIANTS
  OneTransportEach
  SuccessorIsSpared
  SettingsInForce
PROPERTIES
  EvidenceFollowsState
  StreamRecovers
  StreamOnlyAdvances
  DueIsObserved
