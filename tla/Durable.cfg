SPECIFICATION Spec
CONSTANTS
  Watching = {"WATCH"}
  MaxLifecycle = 2
  MaxNow = 0
  MaxCrashes = 1
  MaxReadFaults = 1
  Revisions = {2, 3}
  Keep = 1
  MaxDeploys = 2
  Commands = {1, 2}
  MaxAttempts = 2
  Venues = 2
  HypeTtl = 1
  DamageTtl = 1
  SetupTtl = 1
  MaxTime = 2
  MaxListings = 2
  MaxAdvances = 3
  MaxSetBacks = 1
  CoinGlassVenues = {1}
  BookTtl = 0
  TradeTtl = 1
  BenchmarkTtl = 1
  CandleAge = 1
  MaxHour = 2
  MaxAnalyses = 2
  Sessions = {s1, s2}
  MaxSteps = 2
  MaxCheckpoints = 4
  MaxMisfortunes = 2
  MaxRecorded = 3
  MaxLosses = 2
  Window = 2
  CloseDelay = 2
  PublishLag = 1
  BackupAge = 1
  PublishSkew = 1
  ReportValidity = 2
  MinRemaining = 1
  MaxBackups = 2
  MaxDays = 3
  CopyAge = 1
  BirthSkew = 0
  SoakTime = 2
  ReadinessAge = 1
  Validity = 1
  MaxCopies = 1
  MaxClock = 3
INVARIANTS
  NoticesMatchLedger
  UndoneIsAsFound
  RecoveryPointIsKept
  StoppedMigrationResumes
  StrictIsEarned
  EvidenceBelongsTogether
  PointerHasEvidence
  OutcomeIsTrue
PROPERTIES
  ReadyIsSettled
  StartsRecoverable
