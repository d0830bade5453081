\* Two processes, one event, leases that expire under a slow sender, crashes with
\* the event in hand, and an advisory that need not come.
CONSTANTS
  Events = {e1}
  Procs = {p1, p2}
  WorkerId <- MCWorkerId
  PreCutover = {}
  Lease = 2
  Grace = 1
  MaxAttempts = 2
  BaseBackoff = 1
  MaxBackoff = 2
  RetryAfter <- MCRetryAfter
  MaxAge = 3
  EvalDelays <- MCEvalDelays
  MaxLag = 2
  Horizon = 4
  MaxFaults = 1
SPECIFICATION FairSpec
INVARIANTS
  SingleSender
  RepeatOnlyAfterLostAnswer
  DeliveredIsKnown
  StaleNeverPosted
PROPERTIES
  KeepsPromise
  EverySettles
