------------------------------ MODULE MCDurable ------------------------------
(***************************************************************************)
(* The components that keep their state in the database, in files, on the  *)
(* host or at GitHub and share none of it, in one instance for TLC: in each *)
(* behaviour one of them moves and the others stay as they were initially. *)
(* Only safety is asked of them here.                                      *)
(***************************************************************************)
EXTENDS Integers, FiniteSets, Sequences

CONSTANTS
  Watching, MaxLifecycle, MaxNow, MaxCrashes, MaxReadFaults,
  Revisions, Keep, MaxDeploys,
  Commands, MaxAttempts,
  Venues, HypeTtl, DamageTtl, SetupTtl, MaxTime, MaxListings, MaxAdvances, MaxSetBacks,
  CoinGlassVenues, BookTtl, TradeTtl, BenchmarkTtl, CandleAge, MaxHour, MaxAnalyses,
  Sessions, MaxSteps, MaxCheckpoints, MaxMisfortunes,
  MaxRecorded, MaxLosses,
  Window, CloseDelay, PublishLag,
  BackupAge, PublishSkew, ReportValidity, MinRemaining, MaxBackups, MaxDays,
  CopyAge, BirthSkew, SoakTime, ReadinessAge, Validity, MaxCopies, MaxClock

\* At least one backup is retained (deploy_production.sh:806); 0 is no revision.
ASSUME ReleaseAssumption == Keep \in Nat \ {0} /\ Revisions \subseteq Nat \ {0}

\* Ages, skews and lives are lengths of time.
ASSUME GateAssumption ==
  {BackupAge, PublishSkew, ReportValidity, MinRemaining, MaxBackups, MaxDays} \subseteq Nat
ASSUME CertificationAssumption ==
  {CopyAge, BirthSkew, SoakTime, ReadinessAge, Validity, MaxCopies, MaxClock} \subseteq Nat
ASSUME VenueAssumption ==
  Venues \in Nat \ {0} /\ {BookTtl, TradeTtl, BenchmarkTtl, CandleAge} \subseteq Nat

\* A candle is final on the venue before the readers' delay is over (external): what the
\* delay is for.
ASSUME SettlementAssumption ==
  /\ Window \in Nat \ {0} /\ CloseDelay \in Nat /\ PublishLag \in Nat
  /\ PublishLag < CloseDelay

\* Lives of stages and times are lengths of time.
ASSUME SignalAssumption == {HypeTtl, DamageTtl, SetupTtl, MaxTime} \subseteq Nat

VARIABLES
  focus,
  catalog, active, snapshot, eval, maint, head, notice,
  now, crashes, readFaults, announced,
  rt, schema, host, origin, backups, certificate, script, deploys,
  db, found, command, backend, attempts,
  hour, listing, watched, stageRow, advances, evaluation, setBacks,
  hourAsked, contracts, loaded, series, benchmarks, analysis, analyses,
  files, checkpoint, latest, world, session, misfortunes,
  recorded, hub, sync, wire, losses,
  minute, candles, signal, reached, says,
  day, main, version, backup, lost, restored, rehearsed, report, deploying,
  clock, copy, staging, soak, seen, rehearsal, approval

pipelineVars   == <<catalog, active, snapshot, eval, maint, head, notice,
                    now, crashes, readFaults, announced>>
releaseVars    == <<rt, schema, host, origin, backups, certificate, script, deploys>>
schemaVars     == <<db, found, command, backend, attempts>>
signalVars     == <<hour, listing, watched, stageRow, advances, evaluation, setBacks>>
venueVars      == <<hourAsked, contracts, loaded, series, benchmarks, analysis, analyses>>
missionVars    == <<files, checkpoint, latest, world, session, misfortunes>>
mirrorVars     == <<recorded, hub, sync, wire, losses>>
settlementVars == <<minute, candles, signal, reached, says>>
gateVars       == <<day, main, version, backup, lost, restored, rehearsed, report, deploying>>
certVars       == <<clock, copy, staging, soak, seen, rehearsal, approval>>
vars == <<focus, pipelineVars, releaseVars, schemaVars, signalVars, venueVars,
          missionVars, mirrorVars, settlementVars, gateVars, certVars>>

\* An analysis passes every gate, before or after the market moved.
Decisions == INSTANCE EntryDecision
Sound ==
  [stale |-> FALSE, veto |-> FALSE, viable |-> TRUE, extended |-> FALSE,
   cascade |-> TRUE, readiness |-> "ready", gates |-> TRUE,
   expires |-> Decisions!NoExpiry, material |-> 0]
Evidence == {Sound, [Sound EXCEPT !.material = 1]}
Policies == {[freshness |-> TRUE, execution |-> TRUE, cascade |-> TRUE, antiChase |-> TRUE]}

\* The second revision changes the schema.
SchemaOf == <<1, 2>>

\* Two builds that are certified, of two revisions; CI knows the first.
RevisionOf == <<1, 2>>
Tested == {1}

Pipeline   == INSTANCE DecisionPipeline_proofs   \* the pipeline and what is proved of it
Release    == INSTANCE ReleasePipeline
Schema     == INSTANCE SchemaMigration
Signal     == INSTANCE SignalQualification
Venue      == INSTANCE VenueEvidence WITH hour <- hourAsked
Mission    == INSTANCE MissionContinuity WITH MaxFaults <- MaxMisfortunes
Mirror     == INSTANCE MissionMirror
Settlement == INSTANCE SignalSettlement
Gate       == INSTANCE ReleaseGate
Certification == INSTANCE DeploymentCertification WITH report <- approval

\* The evidence, the settings and the constants are ones of a pipeline.
ASSUME NoticesAssumption == Pipeline!PipelineAssumption

Init ==
  /\ focus \in {"pipeline", "release", "schema", "signal", "venue",
                "mission", "mirror", "settlement", "gate", "certificate"}
  /\ Pipeline!Init
  /\ Release!Init /\ (focus = "release" \/ origin = "canonical")
  /\ Schema!Init /\ (focus = "schema" \/ db = Schema!Blank)
  /\ Signal!Init
  /\ Venue!Init /\ (focus = "venue" \/ contracts = [v \in 1..Venues |-> "own"])
  /\ Mission!Init
  /\ Mirror!Init
  /\ Settlement!Init
  /\ Gate!Init
  /\ Certification!Init

InPipeline(A) ==
  /\ focus = "pipeline" /\ A
  /\ UNCHANGED <<focus, releaseVars, schemaVars, signalVars, venueVars,
                 missionVars, mirrorVars, settlementVars, gateVars, certVars>>
InRelease(A) ==
  /\ focus = "release" /\ A
  /\ UNCHANGED <<focus, pipelineVars, schemaVars, signalVars, venueVars,
                 missionVars, mirrorVars, settlementVars, gateVars, certVars>>
InSchema(A) ==
  /\ focus = "schema" /\ A
  /\ UNCHANGED <<focus, pipelineVars, releaseVars, signalVars, venueVars,
                 missionVars, mirrorVars, settlementVars, gateVars, certVars>>
InSignal(A) ==
  /\ focus = "signal" /\ A
  /\ UNCHANGED <<focus, pipelineVars, releaseVars, schemaVars, venueVars,
                 missionVars, mirrorVars, settlementVars, gateVars, certVars>>
InVenue(A) ==
  /\ focus = "venue" /\ A
  /\ UNCHANGED <<focus, pipelineVars, releaseVars, schemaVars, signalVars,
                 missionVars, mirrorVars, settlementVars, gateVars, certVars>>
InMission(A) ==
  /\ focus = "mission" /\ A
  /\ UNCHANGED <<focus, pipelineVars, releaseVars, schemaVars, signalVars,
                 venueVars, mirrorVars, settlementVars, gateVars, certVars>>
InMirror(A) ==
  /\ focus = "mirror" /\ A
  /\ UNCHANGED <<focus, pipelineVars, releaseVars, schemaVars, signalVars,
                 venueVars, missionVars, settlementVars, gateVars, certVars>>
InSettlement(A) ==
  /\ focus = "settlement" /\ A
  /\ UNCHANGED <<focus, pipelineVars, releaseVars, schemaVars, signalVars,
                 venueVars, missionVars, mirrorVars, gateVars, certVars>>
InGate(A) ==
  /\ focus = "gate" /\ A
  /\ UNCHANGED <<focus, pipelineVars, releaseVars, schemaVars, signalVars,
                 venueVars, missionVars, mirrorVars, settlementVars, certVars>>
InCertificate(A) ==
  /\ focus = "certificate" /\ A
  /\ UNCHANGED <<focus, pipelineVars, releaseVars, schemaVars, signalVars, venueVars,
                 missionVars, mirrorVars, settlementVars, gateVars>>

Next ==
  \/ InPipeline(Pipeline!Next) \/ InRelease(Release!Next)
  \/ InSchema(Schema!Next) \/ InSignal(Signal!Next)
  \/ InVenue(Venue!Next) \/ InMission(Mission!Next)
  \/ InMirror(Mirror!Next) \/ InSettlement(Settlement!Next)
  \/ InGate(Gate!Next) \/ InCertificate(Certification!Next)

Spec == Init /\ [][Next]_vars

\* ACTIVE follows an announced ENTRY_READY, that has one outbox row, after crashes
\* and failed reads too.
NoticesMatchLedger == Pipeline!NoticesMatchLedger

\* A deployment that is undone leaves the release as it was.
UndoneIsAsFound == Release!UndoneIsAsFound

\* The backups that a recovery needs are never pruned.
RecoveryPointIsKept == Release!RecoveryPointIsKept

\* A migration that stopped can be resumed, and nothing starts on half of one.
StoppedMigrationResumes == Schema!StoppedMigrationResumes

\* A strict signal rests on stages that were confirmed in order.
StrictIsEarned == Signal!StrictIsEarned

\* What an analysis gathers is of one contract and of its time.
EvidenceBelongsTogether == Venue!EvidenceBelongsTogether

\* A session goes on with the mission only from where nothing is half done.
ReadyIsSettled == Mission!ReadyIsSettled

\* The pointer issue never runs ahead of the evidence.
PointerHasEvidence == Mirror!PointerHasEvidence

\* What is said of a signal afterwards agrees with the trades.
OutcomeIsTrue == Settlement!OutcomeIsTrue

\* No deployment starts without a recent backup that was restored, nor an
\* unrehearsed migration; and what an owner may approve is of now and of one image.
StartsRecoverable ==
  Gate!StartsRecoverable /\ [][Certification!CertifiedIsCurrent']_certVars

=============================================================================
