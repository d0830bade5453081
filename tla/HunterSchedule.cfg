SPECIFICATION FairSpec
CONSTANTS
  Symbols = {s1, s2, s3}
  Slots = 2
  States <- MCStates
  Interval <- MCInterval
  Shortest = 2
  Longest = 3
  Upkeep = 2
  MaxRun = 2
  MaxLate = 2
  MaxChanges = 2
  None = None
INVARIANT SlotsAreUsed
PROPERTIES StartsKeepDistance WatchIsServed
