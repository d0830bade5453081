SPECIFICATION EvaluationSpec
CONSTANTS
  Watching = {"WATCH"}
  Evidence <- MCEvidence
  Policies <- MCPolicies
  MaxLifecycle = 2
  MaxNow = 1
  MaxCrashes = 0
  MaxReadFaults = 0
  Symbols = {"a", "b"}
  Prices = {0, 1, 3, 4}
  Timeout = 0
  MaxClock = 1
  MaxSignals = 2
  MaxOpened = 2
  MaxUpsets = 1
  MaxAge = 1
  MaxViewTicks = 3
  MaxDecisions = 3
  MaxRelists = 1
  Budget = 0
  Interval = 1
  MaxTicks = 1
  MaxChanges = 2
  MaxRestarts = 1
  MaxListings = 2
  MaxEvents = 3
  LogSymbols = {"a"}
  MaxBuckets = 2
  MaxEvaluations = 3
INVARIANTS
  TokenMatchesRow
  LateNamesItsOrigin
  OpenedIsAccounted
  ShownReadyStands
  VetoStands
  AdviceIsOfWhatIsShown
  SourceOfItsListing
  TriggeredOncePerRise
  EpisodesAreSeparate
  EvaluationsAreCounted
PROPERTIES
  LifecyclesNeverGoBack
  InvalidatedOutsideUniverse
