----------------------- MODULE MCDurableEvidence_proofs -----------------------
(***************************************************************************)
(* What evidence is worth when it is used, for any ages, lives and numbers *)
(* of venues and backups: the report of the recovery gate at a dispatch    *)
(* (ReleaseGate), the report that an owner may approve                     *)
(* (DeploymentCertification), what an analysis gathered (VenueEvidence),   *)
(* what the candles tell of a signal afterwards (SignalSettlement), and    *)
(* what the stages of a candidate say of its history (SignalQualification).*)
(***************************************************************************)
EXTENDS MCDurable, SequenceTheorems, WellFoundedInduction, TLAPS

-----------------------------------------------------------------------------
(***************************************************************************)
(* The recovery gate.  A report says what stays true of its backup: sealed *)
(* documents, restorations and rehearsals are never taken back, and what    *)
(* gets older, or may be lost, is bounded by the report's deadline         *)
(* (ReportIsBacked).  The live database never has a schema that is ahead   *)
(* of main (MainIsAhead), so that a deployment that migrates it to the     *)
(* schema of the backup found it behind the backup.                        *)
(***************************************************************************)

BackupRecords ==
  [stage : {"none", "failed", "staged", "public", "sealed"},
   made : Nat, version : Nat, published : Nat]
Losses == [part : Gate!Parts \cup {"none"}, at : Nat]

GateTypeOK ==
  /\ day \in Nat /\ main \in {1, 2} /\ version \in {1, 2}
  /\ backup \in [Gate!Backups -> BackupRecords]
  /\ lost \in [Gate!Backups -> Losses]
  /\ report \in [backup : Nat, revision : {0, 1, 2}, until : Nat]
  /\ deploying \in [revision : {0, 1, 2}, from : {0, 1, 2}]

MainIsAhead ==
  /\ version <= main
  /\ deploying # Gate!Idle =>
       /\ deploying.revision \in 1..main /\ deploying.from \in 1..main

LossesAreOfParts == \A k \in Gate!Backups : lost[k] # Gate!Kept => lost[k].part \in Gate!Parts

BackedBy(r, k) ==
  /\ k \in Gate!Backups /\ backup[k].stage = "sealed" /\ k \in restored
  /\ r.until <= backup[k].made + BackupAge /\ r.until <= day + ReportValidity
  /\ lost[k] # Gate!Kept => r.until <= lost[k].at + ReportValidity
  /\ SchemaOf[r.revision] # backup[k].version => <<k, r.revision>> \in rehearsed

ReportIsBacked == report.revision # 0 => BackedBy(report, report.backup)

GateInv == GateTypeOK /\ MainIsAhead /\ LossesAreOfParts /\ ReportIsBacked

\* The second revision has the newer schema.
LEMMA SchemaIs == DOMAIN SchemaOf = {1, 2} /\ \A r \in {1, 2} : SchemaOf[r] = r
  BY DEF SchemaOf

LEMMA LengthsOfTime ==
  /\ BackupAge \in Nat /\ PublishSkew \in Nat /\ ReportValidity \in Nat
  /\ MinRemaining \in Nat /\ MaxBackups \in Nat /\ MaxDays \in Nat
  BY GateAssumption

LEMMA GateInitially ==
  ASSUME Gate!Init PROVE GateInv
<1>1. /\ day = 0 /\ main = 1 /\ version = 1
      /\ backup = [k \in Gate!Backups |-> Gate!NoBackup]
      /\ lost = [k \in Gate!Backups |-> Gate!Kept]
      /\ report = Gate!NoReport /\ deploying = Gate!Idle
  BY SchemaIs DEF Gate!Init
<1>2. Gate!NoBackup \in BackupRecords
  BY DEF Gate!NoBackup, BackupRecords
<1>3. Gate!Kept \in Losses
  BY LengthsOfTime DEF Gate!Kept, Losses
<1>4. report \in [backup : Nat, revision : {0, 1, 2}, until : Nat] /\ report.revision = 0
  BY <1>1 DEF Gate!NoReport
<1>5. deploying \in [revision : {0, 1, 2}, from : {0, 1, 2}]
  BY <1>1 DEF Gate!Idle
<1>6. GateTypeOK
  BY <1>1, <1>2, <1>3, <1>4, <1>5 DEF GateTypeOK
<1>7. LossesAreOfParts
  BY <1>1 DEF LossesAreOfParts
<1> QED BY <1>1, <1>4, <1>6, <1>7 DEF GateInv, MainIsAhead, ReportIsBacked

\* An attempt at a backup that is not sealed yet is of no use to a report.
LEMMA AttemptsKeepReport ==
  ASSUME GateInv, NEW k \in Gate!Backups, NEW b \in BackupRecords,
         backup[k].stage # "sealed", backup' = [backup EXCEPT ![k] = b],
         UNCHANGED <<day, main, version, deploying, lost, restored, rehearsed, report>>
  PROVE  GateInv'
<1>1. backup' \in [Gate!Backups -> BackupRecords]
  BY DEF GateInv, GateTypeOK
<1>2. \A j \in Gate!Backups : backup[j].stage = "sealed" => backup'[j] = backup[j]
  BY DEF GateInv, GateTypeOK
<1>3. GateTypeOK'
  BY <1>1 DEF GateInv, GateTypeOK
<1>4. ReportIsBacked'
  BY <1>2 DEF GateInv, ReportIsBacked, BackedBy
<1> QED
  BY <1>3, <1>4 DEF GateInv, MainIsAhead, LossesAreOfParts

\* A record of a backup with its stage replaced, and its time of publication too.
LEMMA BackupWith ==
  ASSUME NEW a \in BackupRecords, NEW u, NEW v
  PROVE  /\ [a EXCEPT !.stage = u] =
              [stage |-> u, made |-> a.made, version |-> a.version, published |-> a.published]
         /\ [a EXCEPT !.stage = u, !.published = v] =
              [stage |-> u, made |-> a.made, version |-> a.version, published |-> v]
<1> DEFINE b == [a EXCEPT !.stage = u]
<1>1. b = [stage |-> u, made |-> a.made, version |-> a.version, published |-> a.published]
  BY DEF BackupRecords
<1>2. [a EXCEPT !.stage = u, !.published = v] = [b EXCEPT !.published = v]
  OBVIOUS
<1> HIDE DEF b
<1>3. [b EXCEPT !.published = v] =
        [stage |-> u, made |-> a.made, version |-> a.version, published |-> v]
  BY <1>1
<1> QED BY <1>1, <1>2, <1>3 DEF b

LEMMA FailedIs == Gate!Failed \in BackupRecords
<1>1. Gate!NoBackup \in BackupRecords
  BY DEF Gate!NoBackup, BackupRecords
<1> QED BY <1>1 DEF Gate!Failed, BackupRecords

LEMMA SnapshotStep ==
  ASSUME GateInv, NEW k \in Gate!Backups, Gate!Snapshot(k) PROVE GateInv'
<1>1. Gate!Bundle \in BackupRecords
  BY DEF Gate!Bundle, BackupRecords, GateInv, GateTypeOK
<1>2. backup[k].stage # "sealed"
  BY DEF Gate!Snapshot, Gate!NoBackup
<1>3. /\ backup' = [backup EXCEPT ![k] = Gate!Bundle]
      /\ UNCHANGED <<day, main, version, deploying, lost, restored, rehearsed, report>>
  BY DEF Gate!Snapshot, Gate!world
<1> QED BY <1>1, <1>2, <1>3, AttemptsKeepReport, Zenon

LEMMA PublishStep ==
  ASSUME GateInv, NEW k \in Gate!Backups, Gate!Publish(k) PROVE GateInv'
<1>1. /\ backup[k] \in BackupRecords /\ backup[k].stage # "sealed" /\ day \in Nat
      /\ backup \in [Gate!Backups -> BackupRecords]
  BY DEF Gate!Publish, GateInv, GateTypeOK
<1>2. UNCHANGED <<day, main, version, deploying, lost, restored, rehearsed, report>>
  BY DEF Gate!Publish, Gate!world
<1>3. CASE backup' = [backup EXCEPT ![k].stage = "public", ![k].published = day]
  <2> DEFINE b == [stage |-> "public", made |-> backup[k].made,
                   version |-> backup[k].version, published |-> day]
  <2>1. backup' = [backup EXCEPT ![k] = [backup[k] EXCEPT !.stage = "public", !.published = day]]
    BY <1>1, <1>3
  <2>2. [backup[k] EXCEPT !.stage = "public", !.published = day] = b
    BY <1>1, BackupWith, Zenon
  <2>3. b \in BackupRecords
    BY <1>1 DEF BackupRecords
  <2> HIDE DEF b
  <2> QED BY <1>1, <1>2, <2>1, <2>2, <2>3, AttemptsKeepReport, Zenon
<1>4. CASE Gate!Fail(k)
  <2>1. backup' = [backup EXCEPT ![k] = Gate!Failed]
    BY <1>4 DEF Gate!Fail
  <2> QED BY <1>1, <1>2, <2>1, FailedIs, AttemptsKeepReport, Zenon
<1> QED BY <1>3, <1>4 DEF Gate!Publish

LEMMA SealStep ==
  ASSUME GateInv, NEW k \in Gate!Backups, Gate!Seal(k) PROVE GateInv'
<1>1. /\ backup[k] \in BackupRecords /\ backup[k].stage # "sealed"
      /\ backup \in [Gate!Backups -> BackupRecords]
  BY DEF Gate!Seal, GateInv, GateTypeOK
<1>2. UNCHANGED <<day, main, version, deploying, lost, restored, rehearsed, report>>
  BY DEF Gate!Seal, Gate!world
<1>3. CASE backup' = [backup EXCEPT ![k].stage = "sealed"]
  <2> DEFINE b == [stage |-> "sealed", made |-> backup[k].made,
                   version |-> backup[k].version, published |-> backup[k].published]
  <2>1. backup' = [backup EXCEPT ![k] = [backup[k] EXCEPT !.stage = "sealed"]]
    BY <1>1, <1>3
  <2>2. [backup[k] EXCEPT !.stage = "sealed"] = b
    BY <1>1, BackupWith, Zenon
  <2>3. b \in BackupRecords
    BY <1>1 DEF BackupRecords
  <2> HIDE DEF b
  <2> QED BY <1>1, <1>2, <2>1, <2>2, <2>3, AttemptsKeepReport, Zenon
<1>4. CASE Gate!Fail(k)
  <2>1. backup' = [backup EXCEPT ![k] = Gate!Failed]
    BY <1>4 DEF Gate!Fail
  <2> QED BY <1>1, <1>2, <2>1, FailedIs, AttemptsKeepReport, Zenon
<1> QED BY <1>3, <1>4, Zenon DEF Gate!Seal

\* What is lost now was whole when the report was made.
LEMMA LoseStep ==
  ASSUME GateInv, NEW part \in Gate!Parts, NEW K \in SUBSET Gate!Backups, Gate!Lose(part, K)
  PROVE  GateInv'
<1> DEFINE loss == [part |-> part, at |-> day]
<1>1. /\ lost' = [k \in Gate!Backups |-> IF k \in K THEN loss ELSE lost[k]]
      /\ UNCHANGED <<day, main, version, deploying, backup, restored, rehearsed, report>>
  BY DEF Gate!Lose, Gate!world
<1>2. loss \in Losses /\ loss.part \in Gate!Parts /\ loss.at = day
  BY DEF Losses, GateInv, GateTypeOK
<1> HIDE DEF loss
<1>3. lost' \in [Gate!Backups -> Losses]
  BY <1>1, <1>2 DEF GateInv, GateTypeOK
<1>4. \A k \in Gate!Backups : lost'[k] = lost[k] \/ lost'[k] = loss
  BY <1>1
<1>5. Gate!Kept' = Gate!Kept
  BY DEF Gate!Kept
<1>6. LossesAreOfParts'
  BY <1>2, <1>4, <1>5 DEF GateInv, LossesAreOfParts
<1>7. ReportIsBacked'
  BY <1>1, <1>2, <1>4, <1>5 DEF GateInv, ReportIsBacked, BackedBy
<1>8. GateTypeOK'
  BY <1>1, <1>3 DEF GateInv, GateTypeOK
<1> QED BY <1>1, <1>6, <1>7, <1>8 DEF GateInv, MainIsAhead

\* A report that is ready is backed from now on.
LEMMA EvaluateStep ==
  ASSUME GateInv, NEW k \in Gate!Backups, NEW r \in {1, 2}, Gate!Evaluate(k, r)
  PROVE  GateInv'
<1>1. UNCHANGED <<day, main, version, deploying, backup, lost, restored, rehearsed>>
  BY DEF Gate!Evaluate, Gate!world
<1>2. PICK answered \in Gate!Answers :
        report' = IF answered /\ Gate!Ready(k, r)
                  THEN [backup |-> k, revision |-> r, until |-> Gate!ValidUntil(k)]
                  ELSE Gate!NoReport
  BY DEF Gate!Evaluate
<1>3. k \in Nat /\ day \in Nat /\ backup[k].made \in Nat
  BY LengthsOfTime DEF Gate!Backups, GateInv, GateTypeOK, BackupRecords
<1>4. /\ Gate!ValidUntil(k) \in Nat
      /\ Gate!ValidUntil(k) <= backup[k].made + BackupAge
      /\ Gate!ValidUntil(k) <= day + ReportValidity
  BY <1>3, LengthsOfTime DEF Gate!ValidUntil
<1> HIDE DEF Gate!ValidUntil
<1>5. /\ report' \in [backup : Nat, revision : {0, 1, 2}, until : Nat]
      /\ report'.revision # 0 =>
           /\ report'.backup = k /\ report'.revision = r /\ report'.until = Gate!ValidUntil(k)
           /\ Gate!Ready(k, r)
  <2>1. CASE answered /\ Gate!Ready(k, r)
    BY <1>2, <1>3, <1>4, <2>1
  <2>2. CASE ~(answered /\ Gate!Ready(k, r))
    BY <1>2, <2>2 DEF Gate!NoReport
  <2> QED BY <2>1, <2>2
<1>6. Gate!Ready(k, r) =>
        /\ backup[k].stage = "sealed" /\ k \in restored /\ lost[k] = Gate!Kept
        /\ SchemaOf[r] # backup[k].version => <<k, r>> \in rehearsed
  BY DEF Gate!Ready, Gate!Certified, Gate!Untouched, Gate!Has, Gate!Verified,
         Gate!RestoredElsewhere, Gate!MigrationRehearsed, Gate!Parts,
         GateInv, LossesAreOfParts
<1>7. ReportIsBacked'
  <2> SUFFICES ASSUME report'.revision # 0 PROVE BackedBy(report, report.backup)'
    BY DEF ReportIsBacked
  <2> QED BY <1>1, <1>4, <1>5, <1>6 DEF BackedBy, Gate!Kept
<1> QED
  BY <1>1, <1>5, <1>7 DEF GateInv, GateTypeOK, MainIsAhead, LossesAreOfParts, Gate!Kept, Gate!Backups

LEMMA EvidenceStep ==
  ASSUME GateInv, NEW k \in Gate!Backups,
         Gate!IndependentRestore(k) \/ \E r \in {1, 2} : Gate!Rehearse(k, r)
  PROVE  GateInv'
<1>1. /\ restored \subseteq restored' /\ rehearsed \subseteq rehearsed'
      /\ UNCHANGED <<day, main, version, deploying, backup, lost, report>>
  BY DEF Gate!IndependentRestore, Gate!Rehearse, Gate!world
<1>2. ReportIsBacked'
  BY <1>1 DEF GateInv, ReportIsBacked, BackedBy, Gate!Kept
<1> QED
  BY <1>1, <1>2 DEF GateInv, GateTypeOK, MainIsAhead, LossesAreOfParts, Gate!Kept

LEMMA DeploymentStep ==
  ASSUME GateInv,
         \/ \E r \in {1, 2} : Gate!Dispatch(r)
         \/ Gate!MigrateLive \/ Gate!EndDeployment \/ Gate!Merge
  PROVE  GateInv'
<1>1. UNCHANGED <<day, backup, lost, restored, rehearsed, report>>
  BY DEF Gate!Dispatch, Gate!MigrateLive, Gate!EndDeployment, Gate!Merge
<1>2. /\ main' \in {1, 2} /\ version' \in {1, 2}
      /\ deploying' \in [revision : {0, 1, 2}, from : {0, 1, 2}]
      /\ MainIsAhead'
  <2>1. ASSUME NEW r \in {1, 2}, Gate!Dispatch(r)
        PROVE  /\ deploying' = [revision |-> r, from |-> version] /\ r = main
               /\ UNCHANGED <<main, version>>
    BY <2>1 DEF Gate!Dispatch, Gate!StillMain
  <2>2. CASE Gate!MigrateLive
    <3>1. /\ deploying # Gate!Idle /\ version' = SchemaOf[deploying.revision]
          /\ UNCHANGED <<main, deploying>>
      BY <2>2 DEF Gate!MigrateLive
    <3>2. deploying.revision \in {1, 2} /\ deploying.revision <= main
      BY <3>1 DEF GateInv, GateTypeOK, MainIsAhead
    <3>3. version' = deploying.revision
      BY <3>1, <3>2, SchemaIs
    <3> QED BY <3>1, <3>2, <3>3 DEF GateInv, GateTypeOK, MainIsAhead, Gate!Idle
  <2>3. CASE Gate!EndDeployment
    <3>1. /\ deploying # Gate!Idle /\ deploying' = Gate!Idle /\ main' = main
          /\ version' \in {SchemaOf[deploying.revision], deploying.from}
      BY <2>3 DEF Gate!EndDeployment
    <3>2. /\ deploying.revision \in {1, 2} /\ deploying.revision <= main
          /\ deploying.from \in {1, 2} /\ deploying.from <= main
      BY <3>1 DEF GateInv, GateTypeOK, MainIsAhead
    <3>3. version' \in {deploying.revision, deploying.from}
      BY <3>1, <3>2, SchemaIs
    <3> QED BY <3>1, <3>2, <3>3 DEF GateInv, GateTypeOK, MainIsAhead, Gate!Idle
  <2>4. CASE Gate!Merge
    <3>1. /\ main + 1 \in {1, 2} /\ main' = main + 1 /\ UNCHANGED <<version, deploying>>
      BY <2>4, SchemaIs DEF Gate!Merge, Gate!Releases
    <3> QED BY <3>1 DEF GateInv, GateTypeOK, MainIsAhead, Gate!Idle
  <2>5. ASSUME NEW r \in {1, 2}, Gate!Dispatch(r)
        PROVE  /\ main' \in {1, 2} /\ version' \in {1, 2}
               /\ deploying' \in [revision : {0, 1, 2}, from : {0, 1, 2}]
               /\ MainIsAhead'
    BY <2>1, <2>5 DEF GateInv, GateTypeOK, MainIsAhead, Gate!Idle
  <2> QED BY <2>2, <2>3, <2>4, <2>5
<1>3. ReportIsBacked'
  BY <1>1 DEF GateInv, ReportIsBacked, BackedBy, Gate!Kept
<1> QED BY <1>1, <1>2, <1>3 DEF GateInv, GateTypeOK, LossesAreOfParts, Gate!Kept

LEMMA NextDayStep ==
  ASSUME GateInv, Gate!NextDay PROVE GateInv'
<1>1. /\ day' = day + 1
      /\ UNCHANGED <<main, version, deploying, backup, lost, restored, rehearsed, report>>
  BY DEF Gate!NextDay, Gate!world
<1>2. day' \in Nat /\ day <= day'
  BY <1>1 DEF GateInv, GateTypeOK
<1>3. report.until \in Nat
  BY DEF GateInv, GateTypeOK
<1>4. ReportIsBacked'
  BY <1>1, <1>3, LengthsOfTime DEF GateInv, GateTypeOK, ReportIsBacked, BackedBy, Gate!Kept
<1> QED
  BY <1>1, <1>2, <1>4 DEF GateInv, GateTypeOK, MainIsAhead, LossesAreOfParts, Gate!Kept

LEMMA GateStep == GateInv /\ [Gate!Next]_(Gate!vars) => GateInv'
<1> SUFFICES ASSUME GateInv, [Gate!Next]_(Gate!vars) PROVE GateInv'
  OBVIOUS
<1>1. CASE Gate!Next
  BY <1>1, SchemaIs, SnapshotStep, PublishStep, SealStep, EvidenceStep, EvaluateStep,
     LoseStep, DeploymentStep, NextDayStep
  DEF Gate!Next, Gate!Releases
<1>2. CASE UNCHANGED Gate!vars
  BY <1>2 DEF Gate!vars, GateInv, GateTypeOK, MainIsAhead, LossesAreOfParts,
     ReportIsBacked, BackedBy, Gate!Kept
<1> QED BY <1>1, <1>2

\* The one step that starts a deployment
StartIsRecoverable ==
  deploying = Gate!Idle /\ deploying' # Gate!Idle =>
    \E k \in Gate!Backups :
      /\ k \in restored /\ day - backup[k].made <= BackupAge
      /\ lost[k] # Gate!Kept => day - lost[k].at <= ReportValidity - MinRemaining
      /\ SchemaOf[deploying'.revision] # version /\ version >= backup[k].version =>
           <<k, deploying'.revision>> \in rehearsed

LEMMA StartStep == GateInv /\ [Gate!Next]_(Gate!vars) => [StartIsRecoverable]_(Gate!vars)
<1> SUFFICES ASSUME GateInv, Gate!Next, deploying = Gate!Idle, deploying' # Gate!Idle
             PROVE  StartIsRecoverable
  BY DEF StartIsRecoverable, Gate!vars
<1>1. PICK r \in {1, 2} : Gate!Dispatch(r)
  BY SchemaIs
  DEF Gate!Next, Gate!Releases, Gate!Snapshot, Gate!Publish, Gate!Seal, Gate!IndependentRestore,
      Gate!Rehearse, Gate!Evaluate, Gate!Lose, Gate!MigrateLive, Gate!EndDeployment,
      Gate!Merge, Gate!NextDay, Gate!world
<1>2. /\ r = main /\ report.revision = r /\ report.until - day >= MinRemaining
      /\ deploying'.revision = r
  BY <1>1 DEF Gate!Dispatch, Gate!StillMain
<1> DEFINE k == report.backup
<1>3. BackedBy(report, k)
  BY <1>2 DEF GateInv, ReportIsBacked
<1>4. /\ k \in Gate!Backups /\ k \in restored
      /\ backup[k].made \in Nat /\ backup[k].version \in Nat /\ lost[k].at \in Nat
      /\ day \in Nat /\ report.until \in Nat /\ version \in {1, 2} /\ version <= main
  BY <1>3 DEF BackedBy, GateInv, GateTypeOK, MainIsAhead, BackupRecords, Losses
<1> HIDE DEF k
<1>5. day - backup[k].made <= BackupAge
  BY <1>2, <1>3, <1>4, LengthsOfTime DEF BackedBy
<1>6. lost[k] # Gate!Kept => day - lost[k].at <= ReportValidity - MinRemaining
  BY <1>2, <1>3, <1>4, LengthsOfTime DEF BackedBy
<1>7. ASSUME SchemaOf[r] # version, version >= backup[k].version
      PROVE  <<k, r>> \in rehearsed
  <2>1. SchemaOf[r] # backup[k].version
    BY <1>2, <1>4, <1>7, SchemaIs
  <2> QED BY <1>2, <1>3, <2>1 DEF BackedBy
<1> QED BY <1>2, <1>4, <1>5, <1>6, <1>7 DEF StartIsRecoverable

-----------------------------------------------------------------------------
(***************************************************************************)
(* The report that an owner may approve.  It is a file that nobody writes  *)
(* again, so that its deadline carries the ages of what it rests on        *)
(* (ApprovalIsBounded); the times of the documents are true because the    *)
(* evaluation reads the birth time of the copy rather than its own word.   *)
(***************************************************************************)

CopyRecords ==
  [number : Nat, stage : {"none", "copying", "copied", "certified"},
   began : Nat, born : Nat, made : Nat]

TimesAreNumbers == clock \in Nat /\ copy \in CopyRecords /\ seen.at \in Nat

ApprovalIsBounded ==
  approval.until # -1 =>
    /\ approval.build \in Tested /\ RevisionOf[approval.build] = approval.revision
    /\ {approval.soak.build, approval.seen.build} = {approval.build}
    /\ approval.soak.clean /\ approval.soak.lasted >= SoakTime /\ approval.seen.ready
    /\ {approval.until, approval.seen.at, approval.copy.made, approval.copy.began} \subseteq Nat
    /\ approval.until <= approval.seen.at + ReadinessAge
    /\ approval.until <= approval.copy.made + CopyAge
    /\ approval.until <= approval.copy.began + CopyAge + BirthSkew + Validity
    /\ approval.rehearsal = <<approval.copy.number, approval.revision>>

CertInv == TimesAreNumbers /\ ApprovalIsBounded

LEMMA LivesOfDocuments ==
  /\ CopyAge \in Nat /\ BirthSkew \in Nat /\ SoakTime \in Nat
  /\ ReadinessAge \in Nat /\ Validity \in Nat
  BY CertificationAssumption

\* A record of a copy with one part replaced, and with two.
LEMMA CopyWith ==
  ASSUME NEW c \in CopyRecords, NEW u, NEW v
  PROVE  /\ [c EXCEPT !.number = u] = [number |-> u, stage |-> c.stage, began |-> c.began,
                                       born |-> c.born, made |-> c.made]
         /\ [c EXCEPT !.stage = u] = [number |-> c.number, stage |-> u, began |-> c.began,
                                      born |-> c.born, made |-> c.made]
         /\ [c EXCEPT !.born = u] = [number |-> c.number, stage |-> c.stage, began |-> c.began,
                                     born |-> u, made |-> c.made]
         /\ [c EXCEPT !.stage = u, !.made = v] =
              [number |-> c.number, stage |-> u, began |-> c.began, born |-> c.born, made |-> v]
<1> DEFINE d == [c EXCEPT !.stage = u]
<1>1. d = [number |-> c.number, stage |-> u, began |-> c.began,
           born |-> c.born, made |-> c.made]
  BY DEF CopyRecords
<1>2. [c EXCEPT !.stage = u, !.made = v] = [d EXCEPT !.made = v]
  OBVIOUS
<1> HIDE DEF d
<1>3. [d EXCEPT !.made = v] =
        [number |-> c.number, stage |-> u, began |-> c.began, born |-> c.born, made |-> v]
  BY <1>1
<1>4. /\ [c EXCEPT !.number = u] = [number |-> u, stage |-> c.stage, began |-> c.began,
                                    born |-> c.born, made |-> c.made]
      /\ [c EXCEPT !.born = u] = [number |-> c.number, stage |-> c.stage, began |-> c.began,
                                  born |-> u, made |-> c.made]
  BY DEF CopyRecords
<1> QED BY <1>1, <1>2, <1>3, <1>4 DEF d

LEMMA NoCopyIs == Certification!NoCopy \in CopyRecords
  BY DEF Certification!NoCopy, CopyRecords

LEMMA CertInitially ==
  ASSUME Certification!Init PROVE CertInv
<1>1. /\ clock = 0 /\ copy \in CopyRecords /\ seen = Certification!Unseen
      /\ approval = Certification!NoReport
  BY NoCopyIs DEF Certification!Init
<1>2. seen.at \in Nat
  BY <1>1 DEF Certification!Unseen
<1>3. approval.until = -1
  BY <1>1 DEF Certification!NoReport
<1> QED BY <1>1, <1>2, <1>3 DEF CertInv, TimesAreNumbers, ApprovalIsBounded

\* Only an evaluation writes a report.
LEMMA DocumentsKeepApproval ==
  ASSUME CertInv, TimesAreNumbers', UNCHANGED approval PROVE CertInv'
  BY DEF CertInv, ApprovalIsBounded

\* Whatever becomes of the copy is a copy.
LEMMA CopyStep ==
  ASSUME CertInv,
         \/ Certification!Begin \/ Certification!Finish
         \/ Certification!Certify \/ Certification!Spoil
  PROVE  CertInv'
<1>1. copy \in CopyRecords /\ clock \in Nat
  BY DEF CertInv, TimesAreNumbers
<1>2. UNCHANGED <<clock, seen, approval>>
  BY DEF Certification!Begin, Certification!Finish, Certification!Certify,
         Certification!Spoil, Certification!shadow
<1>3. Certification!Fail => copy' \in CopyRecords
  <2> SUFFICES ASSUME Certification!Fail PROVE copy' \in CopyRecords
    OBVIOUS
  <2>1. copy' = [number |-> copy.number, stage |-> Certification!NoCopy.stage,
                 began |-> Certification!NoCopy.began, born |-> Certification!NoCopy.born,
                 made |-> Certification!NoCopy.made]
    BY NoCopyIs, CopyWith, Zenon DEF Certification!Fail
  <2> QED BY <1>1, <2>1, NoCopyIs DEF CopyRecords
<1>4. copy' \in CopyRecords
  <2>1. CASE Certification!Begin
    BY <1>1, <2>1 DEF Certification!Begin, CopyRecords
  <2>2. CASE copy' = [copy EXCEPT !.stage = "copied", !.made = clock]
    <3>1. copy' = [number |-> copy.number, stage |-> "copied", began |-> copy.began,
                   born |-> copy.born, made |-> clock]
      BY <1>1, <2>2, CopyWith, Zenon
    <3> QED BY <1>1, <3>1 DEF CopyRecords
  <2>3. CASE copy' = [copy EXCEPT !.stage = "certified"]
    <3>1. copy' = [number |-> copy.number, stage |-> "certified", began |-> copy.began,
                   born |-> copy.born, made |-> copy.made]
      BY <1>1, <2>3, CopyWith, Zenon
    <3> QED BY <1>1, <3>1 DEF CopyRecords
  <2>4. CASE copy' = [copy EXCEPT !.born = clock]
    <3>1. copy' = [number |-> copy.number, stage |-> copy.stage, began |-> copy.began,
                   born |-> clock, made |-> copy.made]
      BY <1>1, <2>4, CopyWith, Zenon
    <3> QED BY <1>1, <3>1 DEF CopyRecords
  <2> QED
    BY <1>3, <2>1, <2>2, <2>3, <2>4, Zenon
    DEF Certification!Finish, Certification!Certify, Certification!Spoil
<1> QED BY <1>2, <1>4, DocumentsKeepApproval DEF CertInv, TimesAreNumbers

\* A complete packet is current now, and its report ends before one of its
\* documents is too old.
LEMMA ApprovalStep ==
  ASSUME CertInv, NEW p \in Certification!Packets, Certification!Evaluate(p)
  PROVE  CertInv'
<1>1. /\ UNCHANGED <<clock, copy, seen>>
      /\ approval' = [revision |-> p.revision, build |-> p.built, copy |-> copy,
                      rehearsal |-> rehearsal, soak |-> soak, seen |-> seen,
                      until |-> Certification!ValidUntil(p)]
  BY DEF Certification!Evaluate, Certification!files, Certification!shadow
<1>2. /\ clock \in Nat /\ copy.made \in Nat /\ copy.began \in Nat /\ copy.born \in Nat
      /\ seen.at \in Nat /\ copy \in CopyRecords
  BY DEF CertInv, TimesAreNumbers, CopyRecords
<1>3. /\ Certification!ValidUntil(p) \in Nat
      /\ Certification!ValidUntil(p) <= clock + Validity
      /\ Certification!ValidUntil(p) <= seen.at + ReadinessAge
      /\ Certification!ValidUntil(p) <= copy.made + CopyAge
  BY <1>2, LivesOfDocuments DEF Certification!ValidUntil, Certification!Least
<1>4. clock <= copy.began + CopyAge + BirthSkew
  BY <1>2, LivesOfDocuments
  DEF Certification!Evaluate, Certification!Complete, Certification!Fresh, Certification!Distance,
      Certification!BirthTime
<1> HIDE DEF Certification!ValidUntil
<1>5. /\ p.built \in Tested /\ RevisionOf[p.built] = p.revision
      /\ soak.build = p.built /\ seen.build = p.built
      /\ soak.clean /\ soak.lasted >= SoakTime /\ seen.ready
      /\ rehearsal = <<copy.number, p.revision>>
  BY DEF Certification!Evaluate, Certification!Complete, Certification!Provenance, Certification!Verified,
         Certification!Packets, Certification!Ready, Certification!Soaked, Certification!Rehearsed
<1>6. ApprovalIsBounded'
  <2>1. /\ approval'.revision = p.revision /\ approval'.build = p.built
        /\ approval'.copy = copy /\ approval'.rehearsal = rehearsal /\ approval'.soak = soak
        /\ approval'.seen = seen /\ approval'.until = Certification!ValidUntil(p)
    BY <1>1
  <2>2. Certification!ValidUntil(p) <= copy.began + CopyAge + BirthSkew + Validity
    BY <1>2, <1>3, <1>4, LivesOfDocuments
  <2> QED BY <1>2, <1>3, <1>5, <2>1, <2>2 DEF ApprovalIsBounded
<1> QED BY <1>1, <1>6 DEF CertInv, TimesAreNumbers

LEMMA CertStep == CertInv /\ [Certification!Next]_(Certification!certVars) => CertInv'
<1> SUFFICES ASSUME CertInv, [Certification!Next]_(Certification!certVars) PROVE CertInv'
  OBVIOUS
<1>1. CASE \/ Certification!Begin \/ Certification!Finish
           \/ Certification!Certify \/ Certification!Spoil
  BY <1>1, CopyStep
<1>2. CASE \/ \E r \in Certification!BuiltRevisions : Certification!Rehearse(r)
           \/ \E b \in Certification!Builds : Certification!Stage(b)
           \/ Certification!Trouble \/ Certification!WriteSoak
  <2>1. UNCHANGED <<clock, copy, seen, approval>>
    BY <1>2 DEF Certification!Rehearse, Certification!Stage, Certification!Trouble,
       Certification!WriteSoak, Certification!files, Certification!shadow
  <2> QED BY <2>1, DocumentsKeepApproval DEF CertInv, TimesAreNumbers
<1>3. CASE Certification!Observe
  <2>1. /\ UNCHANGED <<clock, copy, approval>>
        /\ seen' = [build |-> staging.build, at |-> clock, ready |-> ~staging.troubled]
    BY <1>3 DEF Certification!Observe, Certification!files
  <2>2. seen'.at = clock
    BY <2>1
  <2> QED BY <2>1, <2>2, DocumentsKeepApproval DEF CertInv, TimesAreNumbers
<1>4. CASE Certification!Tick
  <2>1. clock' = clock + 1 /\ UNCHANGED <<copy, seen, approval>>
    BY <1>4 DEF Certification!Tick, Certification!files, Certification!shadow
  <2> QED BY <2>1, DocumentsKeepApproval DEF CertInv, TimesAreNumbers
<1>5. CASE \E p \in Certification!Packets : Certification!Evaluate(p)
  BY <1>5, ApprovalStep
<1>6. CASE UNCHANGED Certification!certVars
  BY <1>6, DocumentsKeepApproval DEF Certification!certVars, CertInv, TimesAreNumbers
<1> QED
  BY <1>1, <1>2, <1>3, <1>4, <1>5, <1>6 DEF Certification!Next

-----------------------------------------------------------------------------
(***************************************************************************)
(* An analysis.  Every part of the evidence keeps to the contract of the   *)
(* reference price from the moment its venue is chosen (OfOneContract),    *)
(* and to the time at which it was accepted or asked for (OfItsTime).      *)
(***************************************************************************)

IsAnalysis(a) ==
  a = [pc |-> a.pc, reference |-> a.reference, venue |-> a.venue, micro |-> a.micro,
       accepted |-> a.accepted, confirmation |-> a.confirmation, asked |-> a.asked,
       bar |-> a.bar, derivatives |-> a.derivatives, candidates |-> a.candidates,
       context |-> a.context, benchmark |-> a.benchmark, awaited |-> a.awaited]

\* The steps of an analysis, from each of them on.
FromContext == {"context", "coinglass", "gathered", "done"}
FromLookUp  == {"look up"} \cup FromContext
FromCandles == {"candles"} \cup FromLookUp
FromConfirm == {"confirm"} \cup FromCandles
FromBook    == {"book", "collect", "validate"} \cup FromConfirm

IsOfContract(a, v) == v \in Venue!Chain /\ contracts[v] = a.reference

OfOneContract(a) ==
  /\ a.pc \in {"rest", "venue"} \cup FromBook
  /\ a.pc # "rest" => a.venue \in Venue!Chain
  /\ a.pc \in FromBook => IsOfContract(a, a.venue)
  /\ a.confirmation # 0 =>
       a.pc \in FromCandles /\ IsOfContract(a, a.confirmation) /\ a.confirmation # a.venue
  /\ a.derivatives # 0 => IsOfContract(a, a.derivatives)
  /\ a.candidates \in Seq({v \in Venue!Chain : IsOfContract(a, v)})

OfItsTime(a, time) ==
  /\ a.pc \in FromConfirm =>
       /\ ~a.micro.short
       /\ a.accepted - a.micro.book <= BookTtl /\ a.accepted - a.micro.trades <= TradeTtl
  /\ a.pc \in FromCandles => a.asked \in Nat /\ a.asked <= time
  /\ a.pc \in FromLookUp => a.bar \in (a.asked - CandleAge)..a.asked
  /\ a.pc \in FromContext =>
       /\ a.context \in Nat /\ a.context <= time
       /\ a.benchmark # Venue!None => a.benchmark \in (a.context - BenchmarkTtl)..a.context
  /\ a.awaited => a.pc \in FromContext

BenchmarksAreOfThePast ==
  /\ DOMAIN benchmarks = Venue!Chain
  /\ \A v \in Venue!Chain : benchmarks[v] \in Int /\ benchmarks[v] <= hourAsked

VenueInv ==
  /\ hourAsked \in Nat /\ BenchmarksAreOfThePast
  /\ IsAnalysis(analysis) /\ OfOneContract(analysis) /\ OfItsTime(analysis, hourAsked)

LEMMA LivesOfEvidence ==
  /\ Venues \in Nat \ {0} /\ 1 \in Venue!Chain
  /\ BookTtl \in Nat /\ TradeTtl \in Nat /\ BenchmarkTtl \in Nat /\ CandleAge \in Nat
  BY VenueAssumption DEF Venue!Chain

\* An analysis that has gathered nothing agrees with whatever it is about.
LEMMA NothingGathered ==
  ASSUME NEW pc \in {"rest", "venue"}, NEW reference, NEW venue, NEW time \in Nat, NEW a,
         a = [pc |-> pc, reference |-> reference, venue |-> venue, micro |-> Venue!NoMicro,
              accepted |-> Venue!None, confirmation |-> 0, asked |-> Venue!None,
              bar |-> Venue!None, derivatives |-> 0, candidates |-> <<>>,
              context |-> Venue!None, benchmark |-> Venue!None, awaited |-> FALSE],
         pc = "venue" => venue \in Venue!Chain
  PROVE  IsAnalysis(a) /\ OfOneContract(a) /\ OfItsTime(a, time)
<1>1. IsAnalysis(a)
  BY DEF IsAnalysis
<1>2. /\ a.pc = pc /\ a.venue = venue /\ a.confirmation = 0 /\ a.derivatives = 0
      /\ a.candidates = <<>> /\ a.awaited = FALSE
  OBVIOUS
<1>3. a.candidates \in Seq({v \in Venue!Chain : IsOfContract(a, v)})
  BY <1>2
<1>4. a.pc \notin FromBook
  BY <1>2 DEF FromBook, FromConfirm, FromCandles, FromLookUp, FromContext
<1> QED
  BY <1>1, <1>2, <1>3, <1>4 DEF OfOneContract, OfItsTime, FromBook, FromConfirm, FromCandles, FromLookUp, FromContext

LEMMA RestIs ==
  ASSUME NEW time \in Nat
  PROVE  IsAnalysis(Venue!Rest) /\ OfOneContract(Venue!Rest) /\ OfItsTime(Venue!Rest, time)
  BY NothingGathered DEF Venue!Rest

LEMMA VenueInitially == Venue!Init => VenueInv
<1> SUFFICES ASSUME Venue!Init PROVE VenueInv
  OBVIOUS
<1>1. BenchmarksAreOfThePast
  BY DEF Venue!Init, BenchmarksAreOfThePast, Venue!None
<1> QED
  BY <1>1, RestIs DEF Venue!Init, VenueInv

\* What an analysis begins with, and goes on with at the next venue.
LEMMA BeginsClean ==
  ASSUME VenueInv, NEW reference, NEW venue \in Venue!Chain,
         analysis' = [Venue!Rest EXCEPT !.pc = "venue", !.reference = reference, !.venue = venue],
         UNCHANGED <<hourAsked, contracts, benchmarks>>
  PROVE  VenueInv'
<1>1. analysis' =
        [pc |-> "venue", reference |-> reference, venue |-> venue, micro |-> Venue!NoMicro,
         accepted |-> Venue!None, confirmation |-> 0, asked |-> Venue!None,
         bar |-> Venue!None, derivatives |-> 0, candidates |-> <<>>,
         context |-> Venue!None, benchmark |-> Venue!None, awaited |-> FALSE]
  BY DEF Venue!Rest
<1>2. IsAnalysis(analysis') /\ OfOneContract(analysis') /\ OfItsTime(analysis', hourAsked)
  BY <1>1, NothingGathered DEF VenueInv
<1> QED
  BY <1>2 DEF VenueInv, OfOneContract, OfItsTime, IsOfContract, BenchmarksAreOfThePast

LEMMA Rests ==
  ASSUME VenueInv, analysis' = Venue!Rest, UNCHANGED <<hourAsked, contracts>>,
         BenchmarksAreOfThePast'
  PROVE  VenueInv'
  BY RestIs DEF VenueInv, OfOneContract, OfItsTime, IsOfContract

LEMMA NextVenueIsClean ==
  ASSUME VenueInv, analysis.pc \in FromBook, analysis' = Venue!NextVenue,
         UNCHANGED <<hourAsked, contracts, benchmarks>>
  PROVE  VenueInv'
<1>1. CASE analysis.venue < Venues
  <2>1. analysis.pc # "rest"
    BY DEF FromBook, FromConfirm, FromCandles, FromLookUp, FromContext
  <2>2. analysis.venue + 1 \in Venue!Chain
    BY <1>1, <2>1, LivesOfEvidence DEF VenueInv, OfOneContract, Venue!Chain
  <2>3. analysis' = [Venue!Rest EXCEPT !.pc = "venue", !.reference = analysis.reference,
                                       !.venue = analysis.venue + 1]
    BY <1>1, Zenon DEF Venue!NextVenue
  <2> QED BY <2>2, <2>3, BeginsClean
<1>2. CASE ~(analysis.venue < Venues)
  BY <1>2, Rests DEF Venue!NextVenue, VenueInv, BenchmarksAreOfThePast
<1> QED BY <1>1, <1>2

\* The choice of a venue.
LEMMA ChoosingStep ==
  ASSUME VenueInv,
         \/ Venue!Begin \/ Venue!BeginWithoutLBank \/ Venue!Pass \/ Venue!Consider
         \/ Venue!GiveUpVenue
  PROVE  VenueInv'
<1>1. ASSUME NEW reference, Venue!BeginWith(reference) PROVE VenueInv'
  BY <1>1, BeginsClean, LivesOfEvidence DEF Venue!BeginWith
<1>2. CASE Venue!Pass
  <2>1. UNCHANGED <<hourAsked, contracts, benchmarks>> /\ analysis.pc = "venue"
    BY <1>2 DEF Venue!Pass, Venue!At
  <2>2. CASE analysis' = Venue!Rest
    BY <2>1, <2>2, Rests DEF VenueInv, BenchmarksAreOfThePast
  <2>3. CASE analysis.venue < Venues /\ analysis' = [analysis EXCEPT !.venue = @ + 1]
    <3>1. /\ IsAnalysis(analysis') /\ analysis'.pc = "venue"
          /\ analysis'.venue = analysis.venue + 1 /\ analysis'.reference = analysis.reference
          /\ analysis'.confirmation = analysis.confirmation
          /\ analysis'.derivatives = analysis.derivatives
          /\ analysis'.candidates = analysis.candidates /\ analysis'.awaited = analysis.awaited
      BY <2>1, <2>3 DEF VenueInv, IsAnalysis
    <3>2. analysis'.venue \in Venue!Chain
      BY <2>1, <2>3, <3>1, LivesOfEvidence DEF VenueInv, OfOneContract, Venue!Chain
    <3> QED
      BY <2>1, <3>1, <3>2
      DEF VenueInv, BenchmarksAreOfThePast, OfOneContract, OfItsTime, IsOfContract,
          FromBook, FromConfirm, FromCandles, FromLookUp, FromContext
  <2> QED BY <1>2, <2>2, <2>3 DEF Venue!Pass
<1>3. CASE Venue!Consider
  <2>1. /\ UNCHANGED <<hourAsked, contracts, benchmarks>> /\ analysis.pc = "venue"
        /\ analysis' = [analysis EXCEPT !.pc = "book"]
        /\ contracts[analysis.venue] = analysis.reference
    BY <1>3 DEF Venue!Consider, Venue!At, Venue!PriceIsCompatible
  <2>2. /\ IsAnalysis(analysis') /\ analysis'.pc = "book"
        /\ analysis'.venue = analysis.venue /\ analysis'.reference = analysis.reference
        /\ analysis'.confirmation = analysis.confirmation
        /\ analysis'.derivatives = analysis.derivatives
        /\ analysis'.candidates = analysis.candidates /\ analysis'.awaited = analysis.awaited
    BY <2>1 DEF VenueInv, IsAnalysis
  <2> QED
    BY <2>1, <2>2
    DEF VenueInv, BenchmarksAreOfThePast, OfOneContract, OfItsTime, IsOfContract,
        FromBook, FromConfirm, FromCandles, FromLookUp, FromContext
<1>4. CASE Venue!GiveUpVenue
  BY <1>4, NextVenueIsClean
  DEF Venue!GiveUpVenue, FromBook, FromConfirm, FromCandles
<1> QED BY <1>1, <1>2, <1>3, <1>4 DEF Venue!Begin, Venue!BeginWithoutLBank

\* The collection of a book and of trades decides nothing yet.
LEMMA CollectingStep ==
  ASSUME VenueInv,
         \/ Venue!Preload \/ Venue!FetchBook \/ Venue!FetchTrades \/ Venue!Review
  PROVE  VenueInv'
<1>1. /\ UNCHANGED <<hourAsked, contracts, benchmarks>>
      /\ analysis.pc \in {"book", "collect"} /\ IsAnalysis(analysis)
  BY DEF Venue!Preload, Venue!FetchBook, Venue!FetchTrades, Venue!Review, Venue!At, VenueInv
<1>2. /\ IsAnalysis(analysis') /\ analysis'.pc \in {"book", "collect", "validate"}
      /\ analysis'.venue = analysis.venue /\ analysis'.reference = analysis.reference
      /\ analysis'.confirmation = analysis.confirmation
      /\ analysis'.derivatives = analysis.derivatives
      /\ analysis'.candidates = analysis.candidates /\ analysis'.awaited = analysis.awaited
  <2>1. CASE \E m, pc : /\ pc \in {"collect", "validate"}
                        /\ analysis' = [analysis EXCEPT !.micro = m, !.pc = pc]
    BY <1>1, <2>1 DEF IsAnalysis
  <2>2. CASE \E m : analysis' = [analysis EXCEPT !.micro = m]
    BY <1>1, <2>2 DEF IsAnalysis
  <2>3. CASE Venue!Preload
    <3>1. PICK m : analysis' = Venue!Preloaded(m)
      BY <2>3, Zenon DEF Venue!Preload
    <3>2. PICK pc \in {"collect", "validate"} : analysis' = [Venue!Micro(m) EXCEPT !.pc = pc]
      BY <3>1, Zenon DEF Venue!Preloaded
    <3>3. analysis' = [analysis EXCEPT !.micro = m, !.pc = pc]
      BY <3>2 DEF Venue!Micro
    <3> QED BY <2>1, <3>3
  <2>4. CASE Venue!FetchBook
    BY <2>2, <2>4 DEF Venue!FetchBook, Venue!Micro
  <2>5. CASE Venue!FetchTrades
    <3>1. PICK short \in BOOLEAN :
            analysis' = [analysis EXCEPT !.micro.trades = hourAsked, !.micro.short = short,
                                         !.micro.tradesMay = ~short]
      BY <2>5 DEF Venue!FetchTrades
    <3> QED BY <1>1, <3>1 DEF IsAnalysis
  <2>6. CASE Venue!Review
    <3>1. \/ \E m : analysis' = Venue!Micro(m)
          \/ analysis' = [analysis EXCEPT !.pc = "validate"]
      BY <2>6, Zenon DEF Venue!Review
    <3>2. CASE analysis' = [analysis EXCEPT !.pc = "validate"]
      BY <1>1, <3>2 DEF IsAnalysis
    <3> QED BY <2>2, <3>1, <3>2 DEF Venue!Micro
  <2> QED BY <2>3, <2>4, <2>5, <2>6
<1> QED
  BY <1>1, <1>2
  DEF VenueInv, BenchmarksAreOfThePast, OfOneContract, OfItsTime, IsOfContract,
      FromBook, FromConfirm, FromCandles, FromLookUp, FromContext

\* A book and trades are accepted only when both are fresh now.
LEMMA ValidateStep == ASSUME VenueInv, Venue!Validate PROVE VenueInv'
<1>1. /\ UNCHANGED <<hourAsked, contracts, benchmarks>> /\ analysis.pc = "validate"
      /\ IsAnalysis(analysis)
  BY DEF Venue!Validate, Venue!At, VenueInv
<1>2. CASE analysis' = Venue!NextVenue
  BY <1>1, <1>2, NextVenueIsClean DEF FromBook
<1>3. CASE /\ Venue!BookIsUsable(analysis.micro) /\ Venue!TradesAreUsable(analysis.micro)
           /\ analysis' = [analysis EXCEPT !.pc = "confirm", !.accepted = hourAsked,
                                           !.micro = Venue!Packet(@)]
  <2>1. analysis' = [analysis EXCEPT !.pc = "confirm", !.accepted = hourAsked,
                                     !.micro = Venue!Packet(analysis.micro)]
    BY <1>1, <1>3 DEF IsAnalysis
  <2>2. /\ IsAnalysis(analysis') /\ analysis'.pc = "confirm"
        /\ analysis'.accepted = hourAsked /\ analysis'.micro = Venue!Packet(analysis.micro)
        /\ analysis'.venue = analysis.venue /\ analysis'.reference = analysis.reference
        /\ analysis'.confirmation = analysis.confirmation
        /\ analysis'.derivatives = analysis.derivatives
        /\ analysis'.candidates = analysis.candidates /\ analysis'.awaited = analysis.awaited
    BY <1>1, <2>1 DEF IsAnalysis
  <2>3. /\ analysis'.micro.book = analysis.micro.book
        /\ analysis'.micro.trades = analysis.micro.trades
        /\ analysis'.micro.short = analysis.micro.short
    BY <2>2 DEF Venue!Packet, Venue!NoMicro
  <2>4. /\ ~analysis'.micro.short
        /\ analysis'.accepted - analysis'.micro.book <= BookTtl
        /\ analysis'.accepted - analysis'.micro.trades <= TradeTtl
    BY <1>3, <2>2, <2>3 DEF Venue!BookIsUsable, Venue!TradesAreUsable, Venue!Usable
  <2> QED
    BY <1>1, <2>2, <2>4
    DEF VenueInv, BenchmarksAreOfThePast, OfOneContract, OfItsTime, IsOfContract,
        FromBook, FromConfirm, FromCandles, FromLookUp, FromContext
<1> QED BY <1>2, <1>3, Zenon DEF Venue!Validate

\* What a later step leaves as it was: the venue, its contract, and the book and trades.
SameEvidence(a, b) ==
  /\ IsAnalysis(b) /\ b.venue = a.venue /\ b.reference = a.reference
  /\ b.micro = a.micro /\ b.accepted = a.accepted

\* The breakdown is confirmed by another exchange that lists the contract.
LEMMA ConfirmStep == ASSUME VenueInv, Venue!Confirm PROVE VenueInv'
<1>1. PICK v \in {0} \cup Venue!Others :
        /\ v # 0 => Venue!PriceIsCompatible(v)
        /\ analysis' = [analysis EXCEPT !.pc = "candles", !.confirmation = v,
                                        !.asked = hourAsked]
  BY DEF Venue!Confirm
<1>2. /\ UNCHANGED <<hourAsked, contracts, benchmarks>> /\ analysis.pc = "confirm"
      /\ IsAnalysis(analysis)
  BY DEF Venue!Confirm, Venue!At, VenueInv
<1>3. /\ SameEvidence(analysis, analysis') /\ analysis'.pc = "candles"
      /\ analysis'.confirmation = v /\ analysis'.asked = hourAsked
      /\ analysis'.derivatives = analysis.derivatives
      /\ analysis'.candidates = analysis.candidates /\ analysis'.awaited = analysis.awaited
  BY <1>1, <1>2 DEF IsAnalysis, SameEvidence
<1>4. v # 0 => IsOfContract(analysis', v) /\ v # analysis'.venue
  BY <1>1, <1>2, <1>3 DEF Venue!Others, Venue!PriceIsCompatible, IsOfContract, SameEvidence
<1> QED
  BY <1>2, <1>3, <1>4
  DEF VenueInv, BenchmarksAreOfThePast, OfOneContract, OfItsTime, IsOfContract, SameEvidence,
      FromBook, FromConfirm, FromCandles, FromLookUp, FromContext

\* A series that is known ends at the hour for which it was asked, and one that is
\* loaded holds bars that were closed then.
LEMMA CandlesStep ==
  ASSUME VenueInv, Venue!KnownSeries \/ Venue!LoadClosedSeries
  PROVE  VenueInv'
<1>1. /\ UNCHANGED <<hourAsked, contracts, benchmarks>> /\ analysis.pc = "candles"
      /\ IsAnalysis(analysis)
  BY DEF Venue!KnownSeries, Venue!LoadClosedSeries, Venue!At, VenueInv
<1>2. analysis.asked \in Nat /\ analysis.asked <= hourAsked /\ hourAsked \in Nat
  BY <1>1 DEF VenueInv, OfItsTime, FromCandles
<1>3. PICK bar \in (analysis.asked - CandleAge)..analysis.asked :
        analysis' = [analysis EXCEPT !.pc = "look up", !.bar = bar]
  <2>1. CASE Venue!KnownSeries
    <3>1. analysis.asked \in (analysis.asked - CandleAge)..analysis.asked
      BY <1>2, LivesOfEvidence
    <3> QED BY <2>1, <3>1 DEF Venue!KnownSeries
  <2>2. CASE Venue!LoadClosedSeries
    <3>1. PICK bar \in Venue!ClosedBars :
            analysis' = [analysis EXCEPT !.pc = "look up", !.bar = bar]
      BY <2>2 DEF Venue!LoadClosedSeries
    <3>2. bar \in (analysis.asked - CandleAge)..analysis.asked
      BY <1>2, <3>1, LivesOfEvidence DEF Venue!ClosedBars
    <3> QED BY <3>1, <3>2
  <2> QED BY <2>1, <2>2
<1>4. /\ SameEvidence(analysis, analysis') /\ analysis'.pc = "look up" /\ analysis'.bar = bar
      /\ analysis'.confirmation = analysis.confirmation /\ analysis'.asked = analysis.asked
      /\ analysis'.derivatives = analysis.derivatives
      /\ analysis'.candidates = analysis.candidates /\ analysis'.awaited = analysis.awaited
  BY <1>1, <1>3 DEF IsAnalysis, SameEvidence
<1> QED
  BY <1>1, <1>2, <1>3, <1>4
  DEF VenueInv, BenchmarksAreOfThePast, OfOneContract, OfItsTime, IsOfContract, SameEvidence,
      FromBook, FromConfirm, FromCandles, FromLookUp, FromContext

LEMMA RecentIs ==
  ASSUME NEW time \in Int, NEW at \in Int, at <= time, time - at <= BenchmarkTtl
  PROVE  at \in (time - BenchmarkTtl)..time
  BY LivesOfEvidence

\* The benchmark is looked up, or asked for, when the context is; what another analysis
\* stores meanwhile is not read.
LEMMA BenchmarkStep ==
  ASSUME VenueInv,
         \/ Venue!LookUpBenchmark \/ Venue!FetchBenchmark \/ Venue!NoBenchmark
         \/ Venue!OthersBenchmark
  PROVE  VenueInv'
<1>1. CASE Venue!LookUpBenchmark
  <2>0. hourAsked \in Nat
    BY DEF VenueInv
  <2>1. /\ UNCHANGED <<hourAsked, contracts, benchmarks>> /\ analysis.pc = "look up"
        /\ IsAnalysis(analysis) /\ hourAsked \in Nat
    BY <1>1 DEF Venue!LookUpBenchmark, Venue!At, VenueInv
  <2>2. PICK since : 
          /\ analysis' = [analysis EXCEPT !.pc = "context", !.context = hourAsked,
                                          !.benchmark = since, !.awaited = ~Venue!IsKept]
          /\ since = IF Venue!IsKept THEN Venue!Kept ELSE Venue!None
    BY <1>1, Zenon DEF Venue!LookUpBenchmark
  <2>3. since # Venue!None => since \in (hourAsked - BenchmarkTtl)..hourAsked
    <3>1. analysis.venue \in Venue!Chain
      BY <2>1 DEF VenueInv, OfOneContract
    <3>2. Venue!Kept \in Int /\ Venue!Kept <= hourAsked
      BY <3>1 DEF Venue!Kept, VenueInv, BenchmarksAreOfThePast
    <3>3. CASE Venue!IsKept
      <4>1. hourAsked - Venue!Kept <= BenchmarkTtl
        BY <3>3 DEF Venue!IsKept
      <4>2. Venue!Kept \in (hourAsked - BenchmarkTtl)..hourAsked
        BY <2>0, <3>2, <4>1, RecentIs
      <4> QED BY <2>2, <3>3, <4>2
    <3> QED BY <2>2, <3>3
  <2>4. /\ SameEvidence(analysis, analysis') /\ analysis'.pc = "context"
        /\ analysis'.context = hourAsked /\ analysis'.benchmark = since
        /\ analysis'.confirmation = analysis.confirmation /\ analysis'.asked = analysis.asked
        /\ analysis'.bar = analysis.bar
        /\ analysis'.derivatives = analysis.derivatives
        /\ analysis'.candidates = analysis.candidates
    BY <2>1, <2>2 DEF IsAnalysis, SameEvidence
  <2>5. OfOneContract(analysis')
    BY <2>1, <2>4
    DEF VenueInv, OfOneContract, IsOfContract, SameEvidence,
        FromBook, FromConfirm, FromCandles, FromLookUp, FromContext
  <2>6. OfItsTime(analysis', hourAsked)
    <3>1. /\ analysis.pc \in FromConfirm /\ analysis.pc \in FromCandles
          /\ analysis.pc \in FromLookUp /\ analysis'.pc \in FromContext
      BY <2>1, <2>4 DEF FromConfirm, FromCandles, FromLookUp, FromContext
    <3>2. /\ ~analysis'.micro.short
          /\ analysis'.accepted - analysis'.micro.book <= BookTtl
          /\ analysis'.accepted - analysis'.micro.trades <= TradeTtl
      BY <2>4, <3>1 DEF VenueInv, OfItsTime, SameEvidence
    <3>3. /\ analysis'.asked \in Nat /\ analysis'.asked <= hourAsked
          /\ analysis'.bar \in (analysis'.asked - CandleAge)..analysis'.asked
      BY <2>4, <3>1 DEF VenueInv, OfItsTime
    <3>4. /\ analysis'.context \in Nat /\ analysis'.context <= hourAsked
          /\ analysis'.benchmark # Venue!None =>
               analysis'.benchmark \in (analysis'.context - BenchmarkTtl)..analysis'.context
      BY <2>0, <2>3, <2>4
    <3> QED BY <3>1, <3>2, <3>3, <3>4 DEF OfItsTime
  <2>7. OfOneContract(analysis)' /\ BenchmarksAreOfThePast'
    BY <2>1, <2>5 DEF VenueInv, OfOneContract, IsOfContract, BenchmarksAreOfThePast
  <2> QED BY <2>1, <2>4, <2>6, <2>7 DEF VenueInv, SameEvidence
<1>2. CASE Venue!FetchBenchmark \/ Venue!NoBenchmark
  <2>1. /\ UNCHANGED <<hourAsked, contracts>> /\ analysis.awaited
        /\ IsAnalysis(analysis) /\ hourAsked \in Nat
        /\ analysis.pc \in FromContext /\ analysis.venue \in Venue!Chain
        /\ analysis.context \in Nat /\ analysis.context <= hourAsked
    <3>1. analysis.pc \in FromContext => analysis.pc # "rest"
      BY DEF FromContext
    <3> QED
      BY <1>2, <3>1
      DEF Venue!FetchBenchmark, Venue!NoBenchmark, VenueInv, OfItsTime, OfOneContract
  <2>2. BenchmarksAreOfThePast'
    BY <1>2, <2>1 DEF Venue!FetchBenchmark, Venue!NoBenchmark, VenueInv, BenchmarksAreOfThePast
  <2>3. PICK since \in {analysis.benchmark, analysis.context} :
          analysis' = [analysis EXCEPT !.awaited = FALSE, !.benchmark = since]
    <3>1. CASE Venue!FetchBenchmark
      BY <3>1 DEF Venue!FetchBenchmark
    <3>2. CASE Venue!NoBenchmark
      <4>1. analysis' = [analysis EXCEPT !.awaited = FALSE]
        BY <3>2 DEF Venue!NoBenchmark
      <4>2. analysis' = [analysis EXCEPT !.awaited = FALSE, !.benchmark = analysis.benchmark]
        BY <2>1, <4>1 DEF IsAnalysis
      <4> QED BY <4>2
    <3> QED BY <1>2, <3>1, <3>2
  <2>4. /\ SameEvidence(analysis, analysis') /\ analysis'.pc = analysis.pc
        /\ analysis'.context = analysis.context /\ analysis'.benchmark = since
        /\ analysis'.confirmation = analysis.confirmation /\ analysis'.asked = analysis.asked
        /\ analysis'.bar = analysis.bar /\ analysis'.awaited = FALSE
        /\ analysis'.derivatives = analysis.derivatives
        /\ analysis'.candidates = analysis.candidates
    BY <2>1, <2>3 DEF IsAnalysis, SameEvidence
  <2>5. analysis.context \in (analysis.context - BenchmarkTtl)..analysis.context
    BY <2>1, LivesOfEvidence
  <2> QED
    BY <2>1, <2>2, <2>3, <2>4, <2>5
    DEF VenueInv, OfOneContract, OfItsTime, IsOfContract, SameEvidence
<1>3. CASE Venue!OthersBenchmark
  <2>1. PICK since \in 0..hourAsked : benchmarks' = [benchmarks EXCEPT ![analysis.venue] = since]
    BY <1>3 DEF Venue!OthersBenchmark
  <2>2. BenchmarksAreOfThePast'
    <3>1. hourAsked' = hourAsked /\ hourAsked \in Nat /\ BenchmarksAreOfThePast
      BY <1>3 DEF Venue!OthersBenchmark, VenueInv
    <3> QED BY <2>1, <3>1 DEF BenchmarksAreOfThePast
  <2>3. UNCHANGED <<hourAsked, contracts, analysis>>
    BY <1>3 DEF Venue!OthersBenchmark
  <2> QED BY <2>2, <2>3 DEF VenueInv, OfOneContract, IsOfContract
<1> QED BY <1>1, <1>2, <1>3

\* Derivatives are asked for at the selected venue and at binance, if its contract is the
\* same, and at CoinGlass in the same order.
LEMMA DerivativesStep ==
  ASSUME VenueInv,
         \/ Venue!AskSelected \/ Venue!WithoutBinance \/ Venue!AskBinance
         \/ Venue!AskCoinGlass \/ Venue!NoDerivatives \/ Venue!Gathered
  PROVE  VenueInv'
<1> DEFINE Same == {v \in Venue!Chain : IsOfContract(analysis, v)}
<1>1. /\ UNCHANGED <<hourAsked, contracts, benchmarks>>
      /\ analysis.pc \in {"context", "coinglass", "gathered"} /\ IsAnalysis(analysis)
  BY DEF Venue!AskSelected, Venue!WithoutBinance, Venue!AskBinance, Venue!AskCoinGlass,
         Venue!NoDerivatives, Venue!Gathered, Venue!At, VenueInv
<1>2. analysis.venue \in Same /\ analysis.candidates \in Seq(Same)
  BY <1>1
  DEF VenueInv, OfOneContract, IsOfContract, FromBook, FromConfirm, FromCandles, FromLookUp,
      FromContext
<1>3. ASSUME NEW pc \in FromContext, NEW v \in Same \cup {analysis.derivatives},
             NEW c \in Seq(Same),
             analysis' = [analysis EXCEPT !.pc = pc, !.derivatives = v, !.candidates = c]
      PROVE  VenueInv'
  <2>1. /\ SameEvidence(analysis, analysis') /\ analysis'.pc = pc
        /\ analysis'.context = analysis.context /\ analysis'.benchmark = analysis.benchmark
        /\ analysis'.confirmation = analysis.confirmation /\ analysis'.asked = analysis.asked
        /\ analysis'.bar = analysis.bar /\ analysis'.awaited = analysis.awaited
        /\ analysis'.derivatives = v /\ analysis'.candidates = c
    BY <1>1, <1>3 DEF IsAnalysis, SameEvidence
  <2>2. /\ analysis.pc \in FromContext /\ {analysis.pc, pc} \subseteq FromBook
        /\ {analysis.pc, pc} \subseteq FromConfirm /\ {analysis.pc, pc} \subseteq FromCandles
        /\ {analysis.pc, pc} \subseteq FromLookUp /\ analysis.pc # "rest"
    BY <1>1 DEF FromBook, FromConfirm, FromCandles, FromLookUp, FromContext
  <2>3. Same' = Same /\ \A w : IsOfContract(analysis', w) = IsOfContract(analysis, w)
    BY <1>1, <2>1 DEF IsOfContract, SameEvidence
  <2>4. {w \in Venue!Chain : IsOfContract(analysis', w)} = Same
    BY <2>3
  <2>5. OfOneContract(analysis')
    BY <1>3, <2>1, <2>2, <2>3, <2>4 DEF VenueInv, OfOneContract, SameEvidence
  <2>6. OfItsTime(analysis', hourAsked)
    BY <1>3, <2>1, <2>2 DEF VenueInv, OfItsTime, SameEvidence
  <2> QED
    BY <1>1, <2>1, <2>3, <2>5, <2>6
    DEF VenueInv, BenchmarksAreOfThePast, SameEvidence, OfOneContract, IsOfContract
<1> HIDE DEF Same
<1>4. ASSUME NEW c \in Seq(Same),
             analysis' = [analysis EXCEPT !.pc = "coinglass", !.candidates = c]
      PROVE  VenueInv'
  <2>1. analysis' = [analysis EXCEPT !.pc = "coinglass", !.derivatives = analysis.derivatives,
                                     !.candidates = c]
    BY <1>1, <1>4 DEF IsAnalysis
  <2> QED BY <1>3, <1>4, <2>1 DEF FromContext
<1>5. ASSUME NEW v \in Same, analysis' = [analysis EXCEPT !.pc = "gathered", !.derivatives = v]
      PROVE  VenueInv'
  <2>1. analysis' = [analysis EXCEPT !.pc = "gathered", !.derivatives = v,
                                     !.candidates = analysis.candidates]
    BY <1>1, <1>5 DEF IsAnalysis
  <2> QED BY <1>2, <1>3, <2>1 DEF FromContext
<1>6. <<analysis.venue>> \in Seq(Same)
  BY <1>2
<1>7. CASE Venue!AskSelected
  <2>1. \/ analysis' = [analysis EXCEPT !.pc = "gathered", !.derivatives = analysis.venue]
        \/ analysis' = [analysis EXCEPT !.pc = "coinglass", !.candidates = <<analysis.venue>>]
    BY <1>7, Zenon DEF Venue!AskSelected, Venue!Candidates
  <2> QED BY <1>2, <1>4, <1>5, <1>6, <2>1
<1>8. CASE Venue!WithoutBinance
  BY <1>4, <1>6, <1>8 DEF Venue!WithoutBinance, Venue!Candidates
<1>9. CASE Venue!AskBinance
  <2>1. \/ analysis' = [analysis EXCEPT !.pc = "gathered", !.derivatives = Venue!Binance]
        \/ analysis' = [Venue!Candidates EXCEPT !.candidates = <<Venue!Binance, analysis.venue>>]
    BY <1>9, Zenon DEF Venue!AskBinance
  <2>2. Venue!Binance \in Same
    BY <1>9, LivesOfEvidence
    DEF Same, Venue!AskBinance, Venue!IsComparable, Venue!PriceIsCompatible, IsOfContract,
        Venue!Binance
  <2>3. [Venue!Candidates EXCEPT !.candidates = <<Venue!Binance, analysis.venue>>]
          = [analysis EXCEPT !.pc = "coinglass",
                             !.candidates = <<Venue!Binance, analysis.venue>>]
    BY <1>1 DEF IsAnalysis, Venue!Candidates
  <2>4. <<Venue!Binance, analysis.venue>> \in Seq(Same)
    BY <1>2, <2>2
  <2> QED BY <1>4, <1>5, <2>1, <2>2, <2>3, <2>4
<1>10. CASE Venue!AskCoinGlass
  <2>1. analysis.candidates # <<>> /\ analysis.pc = "coinglass"
    BY <1>10 DEF Venue!AskCoinGlass, Venue!At
  <2>2. Head(analysis.candidates) \in Same /\ Tail(analysis.candidates) \in Seq(Same)
    BY <1>2, <2>1
  <2>3. CASE analysis' = [analysis EXCEPT !.pc = "gathered", !.candidates = <<>>,
                                          !.derivatives = Head(analysis.candidates)]
    <3>1. analysis' = [analysis EXCEPT !.pc = "gathered", !.candidates = <<>>,
                                       !.derivatives = Head(analysis.candidates)]
      BY <2>3
    <3>2. analysis' = [analysis EXCEPT !.pc = "gathered",
                          !.derivatives = Head(analysis.candidates), !.candidates = <<>>]
      BY <1>1, <3>1 DEF IsAnalysis
    <3>3. <<>> \in Seq(Same)
      OBVIOUS
    <3> QED BY <1>3, <2>2, <3>2, <3>3 DEF FromContext
  <2>4. CASE analysis' = [analysis EXCEPT !.candidates = Tail(@)]
    <3>1. analysis' = [analysis EXCEPT !.pc = "coinglass", !.candidates = Tail(analysis.candidates)]
      BY <1>1, <2>1, <2>4 DEF IsAnalysis
    <3> QED BY <1>4, <2>2, <3>1
  <2>5. \/ analysis' = [analysis EXCEPT !.pc = "gathered",
                            !.derivatives = Head(analysis.candidates), !.candidates = <<>>]
        \/ analysis' = [analysis EXCEPT !.candidates = Tail(@)]
    BY <1>10, Zenon DEF Venue!AskCoinGlass
  <2>6. CASE analysis' = [analysis EXCEPT !.pc = "gathered",
                            !.derivatives = Head(analysis.candidates), !.candidates = <<>>]
    <3>1. <<>> \in Seq(Same)
      OBVIOUS
    <3> QED BY <1>3, <2>2, <2>6, <3>1 DEF FromContext
  <2> QED BY <2>4, <2>5, <2>6
<1>11. CASE Venue!NoDerivatives \/ Venue!Gathered
  <2>1. PICK pc \in {"gathered", "done"} : analysis' = [analysis EXCEPT !.pc = pc]
    BY <1>11 DEF Venue!NoDerivatives, Venue!Gathered
  <2>2. analysis' = [analysis EXCEPT !.pc = pc, !.derivatives = analysis.derivatives,
                                     !.candidates = analysis.candidates]
    BY <1>1, <2>1 DEF IsAnalysis
  <2> QED BY <1>2, <1>3, <2>2 DEF FromContext
<1> QED BY <1>7, <1>8, <1>9, <1>10, <1>11

LEMMA VenueStep == VenueInv /\ [Venue!Next]_(Venue!vars) => VenueInv'
<1> SUFFICES ASSUME VenueInv, [Venue!Next]_(Venue!vars) PROVE VenueInv'
  OBVIOUS
<1>1. CASE Venue!Tick
  <2>1. hourAsked' = hourAsked + 1 /\ UNCHANGED <<contracts, benchmarks, analysis>>
    BY <1>1 DEF Venue!Tick
  <2>2. hourAsked' \in Nat /\ BenchmarksAreOfThePast'
    BY <2>1 DEF VenueInv, BenchmarksAreOfThePast
  <2>3. OfItsTime(analysis', hourAsked')
    BY <2>1 DEF VenueInv, OfItsTime
  <2> QED BY <2>1, <2>2, <2>3 DEF VenueInv, OfOneContract, IsOfContract
<1>2. CASE Venue!Restart
  <2>1. BenchmarksAreOfThePast'
    BY <1>2 DEF Venue!Restart, VenueInv, BenchmarksAreOfThePast, Venue!None
  <2> QED BY <1>2, <2>1, Rests DEF Venue!Restart
<1>3. CASE UNCHANGED Venue!vars
  <2>1. UNCHANGED <<hourAsked, contracts, benchmarks, analysis>>
    BY <1>3 DEF Venue!vars
  <2> QED BY <2>1 DEF VenueInv, BenchmarksAreOfThePast, OfOneContract, IsOfContract
<1> QED
  BY <1>1, <1>2, <1>3, ChoosingStep, CollectingStep, ValidateStep, ConfirmStep, CandlesStep,
     BenchmarkStep, DerivativesStep
  DEF Venue!Next

-----------------------------------------------------------------------------
(***************************************************************************)
(* The outcome of a signal.  Readers see the levels that a candle contains *)
(* and never the order of its trades.  A level that a whole candle after   *)
(* the signal contains was reached (HitIsReached); a level that was        *)
(* reached is in a candle since the signal, and one that was reached       *)
(* before another is in no later candle (Agrees).                          *)
(***************************************************************************)

Levels == {"tp1", "tp2", "stop"}
Candles == [low : 1..5, high : 0..4]

Hits(level, c) ==
  \/ level = "tp1" /\ c.low <= 2
  \/ level = "tp2" /\ c.low = 1
  \/ level = "stop" /\ c.high = 4

IsIn(level, s) == \E i \in DOMAIN s : s[i] = level

Agrees(s, cs) ==
  /\ s \in Seq(Levels)
  /\ \A i, j \in DOMAIN s : s[i] = s[j] => i = j
  /\ \A i \in DOMAIN s : \E m \in Settlement!Expected : m <= minute /\ Hits(s[i], cs[m])
  /\ \A i, j \in DOMAIN s : \A m \in Settlement!Path :
       i < j /\ Hits(s[j], cs[m]) =>
         \E k \in Settlement!Expected : k <= m /\ Hits(s[i], cs[k])

HitIsReached ==
  \A m \in Settlement!Path : \A level \in Levels :
    Hits(level, candles[m]) => IsIn(level, reached)

MarketTypeOK ==
  /\ minute \in Nat /\ candles \in [0..Window -> Candles]
  /\ signal \in {"none", "boundary", "within"}
  /\ signal = "none" => minute = 0 /\ reached = <<>>
  /\ \A m \in 0..Window : m > minute => candles[m] = Settlement!Untraded

SettlementInv ==
  /\ MarketTypeOK /\ HitIsReached /\ Agrees(reached, candles)
  /\ says # Settlement!Unsaid => minute > Window
  /\ OutcomeIsTrue

\* The window is within the candles that are kept, and begins after the signal.
LEMMA WindowIs ==
  /\ Window \in Nat /\ Window > 0 /\ PublishLag \in Nat /\ CloseDelay \in Nat
  /\ PublishLag < CloseDelay
  /\ Settlement!Path \subseteq Settlement!Expected
  /\ Settlement!Expected \subseteq 0..Window
  /\ Settlement!StartMinute \in {0, 1}
  /\ \A m \in Settlement!Expected \ Settlement!Path : m = 0 /\ Settlement!StartMinute = 1
  BY SettlementAssumption DEF Settlement!Path, Settlement!Expected, Settlement!StartMinute

LEMMA HitsNothing == \A level : ~Hits(level, Settlement!Untraded)
  BY DEF Hits, Settlement!Untraded

LEMMA SettlementInitially == Settlement!Init => SettlementInv
<1> SUFFICES ASSUME Settlement!Init PROVE SettlementInv
  OBVIOUS
<1>1. /\ minute = 0 /\ candles = [m \in 0..Window |-> Settlement!Untraded]
      /\ signal = "none" /\ reached = <<>> /\ says = Settlement!Unsaid
  BY DEF Settlement!Init, Settlement!Minutes
<1>2. MarketTypeOK
  BY <1>1, WindowIs DEF MarketTypeOK, Candles, Settlement!Untraded
<1>3. HitIsReached
  BY <1>1, HitsNothing, WindowIs DEF HitIsReached
<1>4. Agrees(reached, candles)
  BY <1>1 DEF Agrees
<1>5. OutcomeIsTrue
  BY <1>1 DEF OutcomeIsTrue, Settlement!OutcomeIsTrue, Settlement!Claim, Settlement!Unsaid
<1> QED BY <1>1, <1>2, <1>3, <1>4, <1>5 DEF SettlementInv

\* A level that is reached now comes after those that were reached before.
LEMMA AppendAgrees ==
  ASSUME NEW s, NEW cs, Agrees(s, cs), NEW level \in Levels, ~IsIn(level, s),
         minute \in Settlement!Expected, Hits(level, cs[minute]),
         \A m \in Settlement!Path : Hits(level, cs[m]) => m = minute
  PROVE  Agrees(Append(s, level), cs)
<1> DEFINE t == Append(s, level)
<1>1. /\ s \in Seq(Levels) /\ Len(s) \in Nat /\ DOMAIN s = 1..Len(s)
      /\ t \in Seq(Levels) /\ DOMAIN t = 1..(Len(s) + 1)
      /\ \A i \in 1..Len(s) : t[i] = s[i]
      /\ t[Len(s) + 1] = level
  BY DEF Agrees
<1> HIDE DEF t
<1>2. \A i \in DOMAIN t : i \in DOMAIN s \/ (i = Len(s) + 1 /\ i \notin DOMAIN s)
  BY <1>1
<1>3. \A i, j \in DOMAIN t : t[i] = t[j] => i = j
  BY <1>1, <1>2 DEF Agrees, IsIn
<1>4. minute <= minute
  BY WindowIs
<1>5. \A i \in DOMAIN t : \E m \in Settlement!Expected : m <= minute /\ Hits(t[i], cs[m])
  BY <1>1, <1>2, <1>4 DEF Agrees
<1>6. ASSUME NEW i \in DOMAIN t, NEW j \in DOMAIN t, NEW m \in Settlement!Path,
             i < j, Hits(t[j], cs[m])
      PROVE  \E k \in Settlement!Expected : k <= m /\ Hits(t[i], cs[k])
  <2>1. i \in DOMAIN s /\ t[i] = s[i]
    BY <1>1, <1>6
  <2>2. CASE j \in DOMAIN s
    BY <1>1, <1>6, <2>1, <2>2 DEF Agrees
  <2>3. CASE j = Len(s) + 1
    <3>1. m = minute
      BY <1>1, <1>6, <2>3
    <3> QED BY <2>1, <3>1 DEF Agrees
  <2> QED BY <1>2, <2>2, <2>3
<1>7. Agrees(t, cs)
  BY <1>1, <1>3, <1>5, <1>6 DEF Agrees
<1> QED BY <1>7 DEF t

Touches(level, p) ==
  (level = "tp1" /\ p <= 2) \/ (level = "tp2" /\ p = 1) \/ (level = "stop" /\ p = 4)

LEMMA Arrives ==
  ASSUME NEW s, NEW cs, Agrees(s, cs), NEW level \in Levels, NEW p \in 1..4,
         IsIn(level, s) => IsIn(level, reached),
         minute \in Settlement!Expected,
         Touches(level, p) => Hits(level, cs[minute]),
         ~IsIn(level, reached) => \A m \in Settlement!Path : Hits(level, cs[m]) => m = minute
  PROVE  /\ Agrees(Settlement!Arrive(level, p, s), cs)
         /\ \A l : IsIn(l, s) => IsIn(l, Settlement!Arrive(level, p, s))
         /\ \A l : IsIn(l, Settlement!Arrive(level, p, s)) => IsIn(l, s) \/ l = level
         /\ Touches(level, p) =>
              \/ IsIn(level, reached)
              \/ IsIn(level, Settlement!Arrive(level, p, s))
<1>1. Settlement!Reached(level) = IsIn(level, reached)
  BY DEF Settlement!Reached, IsIn
<1>2. Settlement!Arrive(level, p, s) =
        IF Touches(level, p) /\ ~IsIn(level, reached) THEN Append(s, level) ELSE s
  <2>1. CASE level = "tp1"
    BY <1>1, <2>1 DEF Settlement!Arrive, Touches
  <2>2. CASE level = "tp2"
    BY <1>1, <2>2 DEF Settlement!Arrive, Touches
  <2>3. CASE level = "stop"
    BY <1>1, <2>3 DEF Settlement!Arrive, Touches
  <2> QED BY <2>1, <2>2, <2>3 DEF Levels
<1>3. CASE Touches(level, p) /\ ~IsIn(level, reached)
  <2> DEFINE t == Append(s, level)
  <2>1. /\ s \in Seq(Levels) /\ Len(s) \in Nat /\ DOMAIN s = 1..Len(s)
        /\ DOMAIN t = 1..(Len(s) + 1) /\ \A i \in 1..Len(s) : t[i] = s[i]
        /\ t[Len(s) + 1] = level
    BY DEF Agrees
  <2>2. Agrees(t, cs)
    BY <1>3, AppendAgrees
  <2> HIDE DEF t
  <2>3. /\ \A l : IsIn(l, s) => IsIn(l, t)
        /\ \A l : IsIn(l, t) => IsIn(l, s) \/ l = level
        /\ IsIn(level, t)
    BY <2>1 DEF IsIn
  <2>4. Settlement!Arrive(level, p, s) = t
    BY <1>2, <1>3 DEF t
  <2> QED BY <2>2, <2>3, <2>4
<1>4. CASE ~(Touches(level, p) /\ ~IsIn(level, reached))
  BY <1>2, <1>4
<1> QED BY <1>3, <1>4

\* A candle after one more trade.
LEMMA Grown ==
  ASSUME NEW c \in Candles, NEW p \in 1..4, NEW d,
         d = [low |-> IF p < c.low THEN p ELSE c.low, high |-> IF p > c.high THEN p ELSE c.high]
  PROVE  /\ d \in Candles
         /\ \A level : Hits(level, d) <=> Hits(level, c) \/ Touches(level, p)
  BY DEF Candles, Hits, Touches

\* The trade that reaches a level is in the candle that is forming.
LEMMA TradeStep ==
  ASSUME SettlementInv, NEW p \in Settlement!Bands, Settlement!Trade(p)
  PROVE  SettlementInv'
<1> DEFINE d == [low |-> IF p < candles[minute].low THEN p ELSE candles[minute].low,
                 high |-> IF p > candles[minute].high THEN p ELSE candles[minute].high]
<1>1. /\ minute \in 0..Window /\ p \in 1..4 /\ MarketTypeOK /\ Agrees(reached, candles)
      /\ HitIsReached /\ candles \in [0..Window -> Candles]
  BY DEF Settlement!Trade, Settlement!Minutes, Settlement!Bands, SettlementInv, MarketTypeOK
<1>2. candles' = [candles EXCEPT ![minute] = d]
  BY <1>1 DEF Settlement!Trade
<1>3. UNCHANGED <<minute, signal, says>> /\ says = Settlement!Unsaid
  BY <1>1, WindowIs DEF Settlement!Trade, SettlementInv
<1>4. d \in Candles /\ \A level : Hits(level, d) <=> Hits(level, candles[minute]) \/ Touches(level, p)
  <2>1. candles[minute] \in Candles
    BY <1>1
  <2> QED BY <1>1, <2>1, Grown
<1> HIDE DEF d
<1>5. /\ candles' \in [0..Window -> Candles] /\ candles'[minute] = d
      /\ \A m \in 0..Window : m # minute => candles'[m] = candles[m]
  BY <1>1, <1>2, <1>4
<1>6. \A m \in 0..Window : \A level : Hits(level, candles[m]) => Hits(level, candles'[m])
  BY <1>4, <1>5
<1>7. \A m \in 0..Window : \A level :
        Hits(level, candles'[m]) => Hits(level, candles[m]) \/ (m = minute /\ Touches(level, p))
  BY <1>4, <1>5
<1>8. \A m \in 0..Window : m > minute => \A level : ~Hits(level, candles[m])
  BY <1>1, HitsNothing DEF MarketTypeOK
<1>9. Agrees(reached, candles')
  <2>1. \A i \in DOMAIN reached : \E m \in Settlement!Expected :
          m <= minute /\ Hits(reached[i], candles'[m])
    BY <1>1, <1>6, WindowIs DEF Agrees
  <2>2. ASSUME NEW i \in DOMAIN reached, NEW j \in DOMAIN reached, NEW m \in Settlement!Path,
               i < j, Hits(reached[j], candles'[m])
        PROVE  \E k \in Settlement!Expected : k <= m /\ Hits(reached[i], candles'[k])
    <3>1. CASE Hits(reached[j], candles[m])
      BY <1>1, <1>6, <2>2, <3>1, WindowIs DEF Agrees
    <3>2. CASE m = minute
      BY <2>1, <3>2
    <3> QED BY <1>7, <2>2, <3>1, <3>2, WindowIs
  <2> QED BY <1>1, <2>1, <2>2 DEF Agrees
<1>10. \A level : ~IsIn(level, reached) /\ level \in Levels =>
         \A m \in Settlement!Path : Hits(level, candles'[m]) => m = minute
  BY <1>1, <1>7, WindowIs DEF HitIsReached
<1>11. /\ Agrees(reached', candles')
       /\ \A l : IsIn(l, reached) => IsIn(l, reached')
       /\ signal # "none" /\ minute \in Settlement!Expected =>
            \A l \in Levels : Touches(l, p) => IsIn(l, reached')
  <2>1. CASE signal # "none" /\ minute \in Settlement!Expected
    <3> DEFINE s1 == Settlement!Arrive("tp1", p, reached)
               s2 == Settlement!Arrive("tp2", p, s1)
               s3 == Settlement!Arrive("stop", p, s2)
    <3>1. reached' = s3
      BY <2>1 DEF Settlement!Trade
    <3>2. \A level : Touches(level, p) => Hits(level, candles'[minute])
      BY <1>4, <1>5
    <3>3. {"tp1", "tp2", "stop"} = Levels /\ "tp1" # "tp2" /\ "tp1" # "stop" /\ "tp2" # "stop"
      BY DEF Levels
    <3>4. /\ Agrees(s1, candles') /\ \A l : IsIn(l, reached) => IsIn(l, s1)
          /\ \A l : IsIn(l, s1) => IsIn(l, reached) \/ l = "tp1"
          /\ Touches("tp1", p) => IsIn("tp1", reached) \/ IsIn("tp1", s1)
      BY <1>1, <1>9, <1>10, <2>1, <3>2, <3>3, Arrives
    <3> HIDE DEF s1
    <3>5. /\ Agrees(s2, candles') /\ \A l : IsIn(l, s1) => IsIn(l, s2)
          /\ \A l : IsIn(l, s2) => IsIn(l, s1) \/ l = "tp2"
          /\ Touches("tp2", p) => IsIn("tp2", reached) \/ IsIn("tp2", s2)
      BY <1>1, <1>10, <2>1, <3>2, <3>3, <3>4, Arrives
    <3> HIDE DEF s2
    <3>6. /\ Agrees(s3, candles') /\ \A l : IsIn(l, s2) => IsIn(l, s3)
          /\ Touches("stop", p) => IsIn("stop", reached) \/ IsIn("stop", s3)
      BY <1>1, <1>10, <2>1, <3>2, <3>3, <3>4, <3>5, Arrives
    <3> HIDE DEF s3
    <3> QED BY <3>1, <3>3, <3>4, <3>5, <3>6
  <2>2. CASE ~(signal # "none" /\ minute \in Settlement!Expected)
    <3>1. reached' = reached
      BY <2>2 DEF Settlement!Trade
    <3> QED BY <1>9, <2>2, <3>1
  <2> QED BY <2>1, <2>2
<1>12. Settlement!Path' = Settlement!Path /\ Settlement!Expected' = Settlement!Expected
  BY <1>3 DEF Settlement!Path, Settlement!Expected, Settlement!StartMinute
<1>13. HitIsReached'
  <2> SUFFICES ASSUME NEW m \in Settlement!Path, NEW level \in Levels, Hits(level, candles'[m])
               PROVE  IsIn(level, reached')
    BY <1>12 DEF HitIsReached
  <2>1. CASE Hits(level, candles[m])
    BY <1>1, <1>11, <2>1 DEF HitIsReached
  <2>2. CASE m = minute /\ Touches(level, p)
    <3>1. signal = "none" => minute = 0 /\ 0 \notin Settlement!Path
      BY <1>1 DEF MarketTypeOK, Settlement!Path, Settlement!StartMinute
    <3> QED BY <1>11, <2>2, <3>1, WindowIs
  <2> QED BY <1>7, <2>1, <2>2, WindowIs
<1>14. MarketTypeOK'
  <2>1. signal = "none" => reached' = <<>>
    BY <1>1 DEF MarketTypeOK, Settlement!Trade
  <2> QED BY <1>1, <1>3, <1>5, <2>1 DEF MarketTypeOK
<1>15. Agrees(reached, candles)'
  BY <1>3, <1>11, <1>12 DEF Agrees
<1>16. OutcomeIsTrue'
  BY <1>3 DEF OutcomeIsTrue, Settlement!OutcomeIsTrue, Settlement!Claim, Settlement!Unsaid
<1> QED BY <1>3, <1>13, <1>14, <1>15, <1>16 DEF SettlementInv, Settlement!Unsaid

\* The window of a signal begins with a candle that holds no trade of before.
LEMMA TriggerStep == ASSUME SettlementInv, Settlement!Trigger PROVE SettlementInv'
<1>1. /\ signal = "none" /\ minute = 0 /\ signal' \in {"within", "boundary"}
      /\ signal' = "boundary" => ~Settlement!Traded(candles[0])
      /\ UNCHANGED <<minute, candles, reached, says>> /\ reached = <<>>
      /\ MarketTypeOK
  BY DEF Settlement!Trigger, SettlementInv, MarketTypeOK
<1>2. \A m \in Settlement!Path' : m \in 0..Window /\ candles[m] = Settlement!Untraded
  <2>1. CASE signal' = "boundary"
    <3>1. Settlement!Path' \subseteq 0..Window
      BY <2>1, WindowIs DEF Settlement!Path, Settlement!StartMinute
    <3> QED BY <1>1, <2>1, <3>1, WindowIs DEF MarketTypeOK, Settlement!Traded
  <2>2. CASE signal' = "within"
    <3>1. Settlement!Path' \subseteq 1..Window
      BY <2>2, WindowIs DEF Settlement!Path, Settlement!StartMinute
    <3> QED BY <1>1, <3>1, WindowIs DEF MarketTypeOK
  <2> QED BY <1>1, <2>1, <2>2
<1>3. HitIsReached'
  BY <1>1, <1>2, HitsNothing DEF HitIsReached
<1>4. Agrees(reached, candles)'
  BY <1>1 DEF Agrees
<1>5. MarketTypeOK'
  BY <1>1 DEF MarketTypeOK
<1>6. OutcomeIsTrue' /\ (says # Settlement!Unsaid => minute > Window)'
  BY <1>1 DEF SettlementInv, OutcomeIsTrue, Settlement!OutcomeIsTrue, Settlement!Claim, Settlement!Unsaid,
     Settlement!First, Settlement!Before, Settlement!Reached
<1> QED BY <1>3, <1>4, <1>5, <1>6 DEF SettlementInv

LEMMA NextMinuteStep == ASSUME SettlementInv, Settlement!NextMinute PROVE SettlementInv'
<1>1. /\ signal # "none" /\ says = Settlement!Unsaid /\ minute' = minute + 1
      /\ UNCHANGED <<candles, signal, reached, says>> /\ minute \in Nat
  BY DEF Settlement!NextMinute, SettlementInv, MarketTypeOK
<1>2. Settlement!Path' = Settlement!Path /\ Settlement!Expected' = Settlement!Expected
  BY <1>1 DEF Settlement!Path, Settlement!Expected, Settlement!StartMinute
<1>3. HitIsReached'
  BY <1>1, <1>2 DEF SettlementInv, HitIsReached
<1>4. \A m \in 0..Window : m <= minute => m <= minute'
  BY <1>1, WindowIs
<1>5. Agrees(reached, candles)'
  BY <1>1, <1>2, <1>4, WindowIs DEF SettlementInv, Agrees
<1>6. MarketTypeOK'
  BY <1>1, WindowIs DEF SettlementInv, MarketTypeOK
<1>7. OutcomeIsTrue'
  BY <1>1 DEF OutcomeIsTrue, Settlement!OutcomeIsTrue, Settlement!Claim, Settlement!Unsaid
<1> QED BY <1>1, <1>3, <1>5, <1>6, <1>7 DEF SettlementInv, Settlement!Unsaid

\* What the candles tell, when they are final.
LEMMA PathTells ==
  ASSUME MarketTypeOK, HitIsReached, Agrees(reached, candles)
  PROVE  /\ reached \in Seq(Levels) /\ Len(reached) \in Nat /\ DOMAIN reached = 1..Len(reached)
         /\ \A i, j \in DOMAIN reached : reached[i] = reached[j] => i = j
         /\ \A m \in Settlement!Path : \A level \in Levels :
              Hits(level, candles[m]) => IsIn(level, reached)
         /\ \A i \in DOMAIN reached : \E m \in Settlement!Expected : Hits(reached[i], candles[m])
         /\ \A i, j \in DOMAIN reached : \A m \in Settlement!Path :
              i < j /\ Hits(reached[j], candles[m]) =>
                \E k \in Settlement!Expected : k <= m /\ Hits(reached[i], candles[k])
  BY DEF HitIsReached, Agrees

\* The candle of the signal, when it is partly older, contains no level.
ClearBefore == \A m \in Settlement!Expected \ Settlement!Path :
                 ~Settlement!HitStop(candles[m]) /\ ~Settlement!HitTp1(candles[m])

Decisive == {m \in Settlement!Path :
               Settlement!HitStop(candles[m]) \/ Settlement!HitTp2(candles[m])}

LEMMA HitsAre ==
  \A c \in Candles :
    /\ Hits("stop", c) <=> Settlement!HitStop(c)
    /\ Hits("tp1", c) <=> Settlement!HitTp1(c)
    /\ Hits("tp2", c) <=> Settlement!HitTp2(c)
    /\ Settlement!HitTp2(c) => Settlement!HitTp1(c)
  BY DEF Candles, Hits, Settlement!HitStop, Settlement!HitTp1, Settlement!HitTp2

\* A level that no earlier candle of the window contains was not reached before one that
\* candle m contains, unless m contains both.
LEMMA NotBefore ==
  ASSUME MarketTypeOK, HitIsReached, Agrees(reached, candles), ClearBefore,
         NEW a \in Levels, NEW b \in Levels, NEW m \in Settlement!Path,
         Hits(b, candles[m]),
         \A k \in Settlement!Path : k <= m => ~Hits(a, candles[k])
  PROVE  /\ IsIn(b, reached)
         /\ \A i, j \in DOMAIN reached : reached[i] = a /\ reached[j] = b => j < i
<1>1. IsIn(b, reached)
  BY PathTells
<1>2. \A k \in Settlement!Expected : k <= m => ~Hits(a, candles[k])
  <2>1. \A k \in Settlement!Expected : candles[k] \in Candles
    BY WindowIs DEF MarketTypeOK
  <2> QED BY <2>1, HitsAre DEF ClearBefore, Levels
<1>3. ASSUME NEW i \in DOMAIN reached, NEW j \in DOMAIN reached,
             reached[i] = a, reached[j] = b
      PROVE  j < i
  <2>1. ~(i < j)
    BY <1>2, <1>3, PathTells
  <2>2. a # b
    BY <1>2, WindowIs
  <2> QED BY <1>3, <2>1, <2>2, PathTells
<1> QED BY <1>1, <1>3

LEMMA LeastOf ==
  ASSUME NEW T, T \subseteq Nat, T # {}
  PROVE  \E m \in T : \A k \in T : m <= k
<1> DEFINE R == {ss \in Nat \X Nat : ss[1] < ss[2]}
<1>1. OpToRel(<, Nat) = R
  BY Zenon DEF OpToRel
<1>2. IsWellFoundedOn(R, Nat)
  BY <1>1, NatLessThanWellFounded, Zenon
<1>3. PICK m \in T : \A k \in T : ~(<<k, m>> \in R)
  BY <1>2, WFMin, Zenon
<1>4. \A k, n \in Nat : k < n => <<k, n>> \in R
  OBVIOUS
<1> HIDE DEF R
<1>5. ASSUME NEW k \in T PROVE m <= k
  <2>1. k \in Nat /\ m \in Nat
    OBVIOUS
  <2>2. ~(k < m)
    BY <1>3, <1>4, <2>1, Zenon
  <2> QED BY <2>1, <2>2
<1> QED BY <1>5

\* The claims, told by the levels that are in the order of their first trade.
LEMMA ClaimsAre ==
  /\ Settlement!First("stop") => Settlement!Claim("STOP_FIRST") /\ Settlement!Claim("STOP")
  /\ Settlement!Before("tp1", "stop") /\ IsIn("stop", reached) /\ ~Settlement!Before("tp2", "stop")
       => Settlement!Claim("TP1_THEN_STOP")
  /\ Settlement!Before("tp2", "stop") =>
       /\ Settlement!Claim("TP2_FIRST") /\ Settlement!Claim("TP2_AFTER_TP1")
       /\ Settlement!Claim("WIN_TP2")
  /\ reached = <<"tp1">> => Settlement!Claim("TP1_ONLY_24H")
  /\ Settlement!Before("tp1", "stop") => Settlement!Claim("WIN")
  /\ reached = <<>> => Settlement!Claim("NO_LEVEL_HIT_24H") /\ Settlement!Claim("TIMEOUT")
  /\ IsIn("stop", reached) => Settlement!Claim("LOSS")
  /\ \A o \in {"none", "DATA_INCOMPLETE", "UNRESOLVABLE_TRIGGER_MINUTE", "UNAVAILABLE",
               "AMBIGUOUS_INTRACANDLE_PATH", "UNRESOLVABLE_SIGNAL_LEVELS",
               "UNRESOLVABLE_SIGNAL_SOURCE"} : Settlement!Claim(o)
<1>1. /\ Settlement!First("stop") => Settlement!Claim("STOP_FIRST") /\ Settlement!Claim("STOP")
      /\ IsIn("stop", reached) => Settlement!Claim("LOSS")
  BY DEF Settlement!Claim, IsIn, Settlement!Reached
<1>2. Settlement!Before("tp1", "stop") /\ IsIn("stop", reached) /\ ~Settlement!Before("tp2", "stop")
       => Settlement!Claim("TP1_THEN_STOP")
  BY DEF Settlement!Claim, IsIn, Settlement!Reached
<1>3. Settlement!Before("tp2", "stop") =>
       /\ Settlement!Claim("TP2_FIRST") /\ Settlement!Claim("TP2_AFTER_TP1")
       /\ Settlement!Claim("WIN_TP2")
  BY DEF Settlement!Claim
<1>4. /\ reached = <<"tp1">> => Settlement!Claim("TP1_ONLY_24H")
      /\ Settlement!Before("tp1", "stop") => Settlement!Claim("WIN")
      /\ reached = <<>> => Settlement!Claim("NO_LEVEL_HIT_24H") /\ Settlement!Claim("TIMEOUT")
  BY DEF Settlement!Claim
<1>5. \A o \in {"none", "DATA_INCOMPLETE", "UNRESOLVABLE_TRIGGER_MINUTE", "UNAVAILABLE",
               "AMBIGUOUS_INTRACANDLE_PATH", "UNRESOLVABLE_SIGNAL_LEVELS",
               "UNRESOLVABLE_SIGNAL_SOURCE"} : Settlement!Claim(o)
  BY DEF Settlement!Claim
<1> QED BY <1>1, <1>2, <1>3, <1>4, <1>5

Final == MarketTypeOK /\ HitIsReached /\ Agrees(reached, candles) /\ ClearBefore

\* No level of a set was reached that no candle since the signal contains.
LEMMA NotReached ==
  ASSUME Final, NEW a \in Levels, \A k \in Settlement!Path : ~Hits(a, candles[k])
  PROVE  ~IsIn(a, reached)
<1>1. \A k \in Settlement!Expected : candles[k] \in Candles
  BY WindowIs DEF Final, MarketTypeOK
<1>2. \A k \in Settlement!Expected : ~Hits(a, candles[k])
  BY <1>1, HitsAre DEF Final, ClearBefore, Levels
<1> QED BY <1>2, PathTells DEF Final, IsIn

\* What the first candle tells that ends the observation.
LEMMA FirstCandleTells ==
  ASSUME Final, NEW m \in Settlement!Path,
         \A k \in Decisive : m <= k
  PROVE  /\ Settlement!HitStop(candles[m]) /\ ~Settlement!HitTp1(candles[m])
            /\ ~(\E k \in Settlement!Path : k < m /\ Settlement!HitTp1(candles[k]))
              => Settlement!First("stop")
         /\ Settlement!HitStop(candles[m]) /\ ~Settlement!HitTp1(candles[m])
            /\ (\E k \in Settlement!Path : k < m /\ Settlement!HitTp1(candles[k]))
              => /\ Settlement!Before("tp1", "stop") /\ IsIn("stop", reached)
                 /\ ~Settlement!Before("tp2", "stop")
         /\ Settlement!HitTp2(candles[m]) /\ ~Settlement!HitStop(candles[m])
              => Settlement!Before("tp2", "stop")
<1>1. \A k \in Settlement!Path : candles[k] \in Candles /\ k \in Nat
  BY WindowIs DEF Final, MarketTypeOK
<1>2. \A k \in Settlement!Path : k < m => ~Hits("stop", candles[k]) /\ ~Hits("tp2", candles[k])
  BY <1>1, HitsAre DEF Decisive
<1>3. {"tp1", "tp2", "stop"} = Levels
  BY DEF Levels
<1>4. /\ Len(reached) \in Nat /\ DOMAIN reached = 1..Len(reached)
      /\ \A i \in DOMAIN reached : reached[i] \in Levels
  BY PathTells DEF Final
<1>5. ASSUME Settlement!HitStop(candles[m]), ~Settlement!HitTp1(candles[m]),
             ~(\E k \in Settlement!Path : k < m /\ Settlement!HitTp1(candles[k]))
      PROVE  Settlement!First("stop")
  <2>1. Hits("stop", candles[m])
    BY <1>1, <1>5, HitsAre
  <2>2. \A k \in Settlement!Path : k <= m => ~Hits("tp1", candles[k]) /\ ~Hits("tp2", candles[k])
    BY <1>1, <1>5, HitsAre
  <2>3. PICK j \in DOMAIN reached : reached[j] = "stop"
    BY <1>3, <2>1, PathTells DEF Final, IsIn
  <2>4. 1 \in DOMAIN reached /\ reached # <<>>
    BY <1>4, <2>3
  <2>5. reached[1] # "tp1"
    <3>1. \A i, k \in DOMAIN reached : reached[i] = "tp1" /\ reached[k] = "stop" => k < i
      BY <1>3, <2>1, <2>2, NotBefore DEF Final
    <3> QED BY <1>4, <2>3, <2>4, <3>1
  <2>6. reached[1] # "tp2"
    <3>1. \A i, k \in DOMAIN reached : reached[i] = "tp2" /\ reached[k] = "stop" => k < i
      BY <1>3, <2>1, <2>2, NotBefore DEF Final
    <3> QED BY <1>4, <2>3, <2>4, <3>1
  <2> QED BY <1>3, <1>4, <2>4, <2>5, <2>6 DEF Settlement!First
<1>6. ASSUME Settlement!HitStop(candles[m]), ~Settlement!HitTp1(candles[m]),
             NEW n \in Settlement!Path, n < m, Settlement!HitTp1(candles[n])
      PROVE  /\ Settlement!Before("tp1", "stop") /\ IsIn("stop", reached)
             /\ ~Settlement!Before("tp2", "stop")
  <2>1. Hits("stop", candles[m]) /\ Hits("tp1", candles[n])
    BY <1>1, <1>6, HitsAre
  <2>2. \A k \in Settlement!Path : k <= n => ~Hits("stop", candles[k])
    BY <1>1, <1>2, <1>6
  <2>3. /\ IsIn("tp1", reached)
        /\ \A i, j \in DOMAIN reached : reached[i] = "stop" /\ reached[j] = "tp1" => j < i
    BY <1>3, <2>1, <2>2, NotBefore DEF Final
  <2>4. \A k \in Settlement!Path : k <= m => ~Hits("tp2", candles[k])
    <3>1. ~Hits("tp2", candles[m])
      BY <1>1, <1>6, HitsAre
    <3> QED BY <1>1, <1>2, <3>1
  <2>5. /\ IsIn("stop", reached)
        /\ \A i, j \in DOMAIN reached : reached[i] = "tp2" /\ reached[j] = "stop" => j < i
    BY <1>3, <2>1, <2>4, NotBefore DEF Final
  <2>6. Settlement!Before("tp1", "stop")
    BY <2>3 DEF Settlement!Before, IsIn
  <2>7. ~Settlement!Before("tp2", "stop")
    BY <1>4, <2>5 DEF Settlement!Before, IsIn
  <2> QED BY <2>5, <2>6, <2>7
<1>7. ASSUME Settlement!HitTp2(candles[m]), ~Settlement!HitStop(candles[m])
      PROVE  Settlement!Before("tp2", "stop")
  <2>1. Hits("tp2", candles[m])
    BY <1>1, <1>7, HitsAre
  <2>2. \A k \in Settlement!Path : k <= m => ~Hits("stop", candles[k])
    <3>1. ~Hits("stop", candles[m])
      BY <1>1, <1>7, HitsAre
    <3> QED BY <1>1, <1>2, <3>1
  <2>3. /\ IsIn("tp2", reached)
        /\ \A i, j \in DOMAIN reached : reached[i] = "stop" /\ reached[j] = "tp2" => j < i
    BY <1>3, <2>1, <2>2, NotBefore DEF Final
  <2> QED BY <2>3 DEF Settlement!Before, IsIn
<1> QED BY <1>5, <1>6, <1>7

LEMMA FirstDecisive ==
  ASSUME NEW T \in SUBSET Settlement!Path, T # {}
  PROVE  LET m == CHOOSE m \in T : \A k \in T : m <= k
         IN  m \in T /\ \A k \in T : m <= k
<1>1. T \subseteq Nat
  BY WindowIs
<1>2. \E m \in T : \A k \in T : m <= k
  BY <1>1, LeastOf
<1> QED BY <1>2, Zenon

\* Whatever is evaluated of final candles is true of the trades.
LEMMA EvaluationIsTrue ==
  ASSUME MarketTypeOK, HitIsReached, Agrees(reached, candles),
         NEW rows, \A m \in DOMAIN rows : m \in Settlement!Expected => rows[m] = candles[m]
  PROVE  /\ Settlement!Claim(Settlement!Evaluate(rows))
         /\ Settlement!Claim(Settlement!Classification(Settlement!Evaluate(rows)))
<1> USE ClaimsAre
<1> DEFINE o == Settlement!Evaluate(rows)
<1>1. CASE ~(Settlement!Expected \subseteq DOMAIN rows)
  <2>1. o = "DATA_INCOMPLETE"
    BY <1>1 DEF Settlement!Evaluate
  <2> QED BY <2>1 DEF Settlement!Classification
<1>2. CASE /\ Settlement!Expected \subseteq DOMAIN rows
           /\ Settlement!TriggerCandleDecides(rows)
  <2>1. o = "UNRESOLVABLE_TRIGGER_MINUTE"
    BY <1>2 DEF Settlement!Evaluate
  <2> QED BY <2>1 DEF Settlement!Classification
<1>3. CASE /\ Settlement!Expected \subseteq DOMAIN rows
           /\ ~Settlement!TriggerCandleDecides(rows)
  <2>1. \A m \in Settlement!Expected : rows[m] = candles[m]
    BY <1>3
  <2>2. Final
    <3>1. ClearBefore
      BY <1>3, <2>1, WindowIs DEF ClearBefore, Settlement!TriggerCandleDecides
    <3> QED BY <3>1 DEF Final
  <2>3. /\ Settlement!Decisive(rows) = Decisive
        /\ \A m : Settlement!Tp1Before(rows, m) =
             \E k \in Settlement!Path : k < m /\ Settlement!HitTp1(candles[k])
    BY <2>1, WindowIs DEF Decisive, Settlement!Decisive, Settlement!Tp1Before
  <2>4. CASE Decisive # {}
    <3> DEFINE m == CHOOSE n \in Decisive : \A k \in Decisive : n <= k
    <3>1. m \in Decisive /\ \A k \in Decisive : m <= k
      BY <2>4, FirstDecisive DEF Decisive
    <3>2. o = Settlement!Verdict(rows, m)
      BY <1>3, <2>3, <2>4, Zenon DEF Settlement!Evaluate
    <3> HIDE DEF m
    <3>3. m \in Settlement!Path /\ rows[m] = candles[m] /\ candles[m] \in Candles
      BY <2>1, <2>2, <3>1, WindowIs DEF Decisive, Final, MarketTypeOK
    <3> DEFINE c == candles[m]
               before == \E k \in Settlement!Path : k < m /\ Settlement!HitTp1(candles[k])
    <3>4. Settlement!HitStop(c) \/ Settlement!HitTp2(c)
      BY <3>1 DEF Decisive
    <3>5. CASE Settlement!HitStop(c) /\ Settlement!HitTp1(c)
      <4>1. o = "AMBIGUOUS_INTRACANDLE_PATH"
        BY <3>2, <3>3, <3>5 DEF Settlement!Verdict
      <4> QED BY <4>1 DEF Settlement!Classification
    <3>6. CASE Settlement!HitStop(c) /\ ~Settlement!HitTp1(c) /\ ~before
      <4>1. o = "STOP_FIRST"
        BY <2>3, <3>2, <3>3, <3>6 DEF Settlement!Verdict
      <4>2. Settlement!First("stop")
        BY <2>2, <3>1, <3>3, <3>6, FirstCandleTells
      <4> QED BY <4>1, <4>2 DEF Settlement!Classification
    <3>7. CASE Settlement!HitStop(c) /\ ~Settlement!HitTp1(c) /\ before
      <4>1. o = "TP1_THEN_STOP"
        BY <2>3, <3>2, <3>3, <3>7 DEF Settlement!Verdict
      <4>2. /\ Settlement!Before("tp1", "stop") /\ IsIn("stop", reached)
            /\ ~Settlement!Before("tp2", "stop")
        BY <2>2, <3>1, <3>3, <3>7, FirstCandleTells
      <4> QED BY <4>1, <4>2 DEF Settlement!Classification
    <3>8. CASE ~Settlement!HitStop(c)
      <4>1. o \in {"TP2_FIRST", "TP2_AFTER_TP1"}
        BY <3>2, <3>3, <3>8 DEF Settlement!Verdict
      <4>2. Settlement!Before("tp2", "stop")
        BY <2>2, <3>1, <3>3, <3>4, <3>8, FirstCandleTells
      <4> QED BY <4>1, <4>2 DEF Settlement!Classification
    <3> QED BY <3>5, <3>6, <3>7, <3>8
  <2>5. CASE Decisive = {}
    <3>1. \A k \in Settlement!Path : candles[k] \in Candles
      BY <2>2, WindowIs DEF Final, MarketTypeOK
    <3>2. \A k \in Settlement!Path : ~Hits("stop", candles[k]) /\ ~Hits("tp2", candles[k])
      BY <2>5, <3>1, HitsAre DEF Decisive
    <3>3. ~IsIn("stop", reached) /\ ~IsIn("tp2", reached)
      BY <2>2, <3>2, NotReached DEF Levels
    <3>4. /\ reached \in Seq(Levels) /\ Len(reached) \in Nat /\ DOMAIN reached = 1..Len(reached)
          /\ \A i, j \in DOMAIN reached : reached[i] = reached[j] => i = j
      BY <2>2, PathTells DEF Final
    <3>5. \A i \in 1..Len(reached) : reached[i] = "tp1"
      BY <3>3, <3>4 DEF IsIn, Levels
    <3>6. CASE \E m \in Settlement!Path : Settlement!HitTp1(candles[m])
      <4>1. o = "TP1_ONLY_24H"
        BY <1>3, <2>1, <2>3, <2>5, <3>6, WindowIs DEF Settlement!Evaluate
      <4>2. IsIn("tp1", reached)
        BY <2>2, <3>1, <3>6, HitsAre, PathTells DEF Final, Levels
      <4>3. Len(reached) = 1 /\ reached[1] = "tp1"
        <5>1. \A i, j \in 1..Len(reached) : i = j
          BY <3>4, <3>5
        <5>2. Len(reached) >= 1
          BY <3>4, <4>2 DEF IsIn
        <5>3. Len(reached) <= 1
          BY <3>4, <5>1
        <5> QED BY <3>4, <3>5, <5>2, <5>3
      <4>4. reached = <<"tp1">>
        BY <3>4, <4>3
      <4>5. Settlement!Before("tp1", "stop")
        BY <3>3, <4>2 DEF Settlement!Before, IsIn
      <4> QED BY <4>1, <4>4, <4>5 DEF Settlement!Classification
    <3>7. CASE ~\E m \in Settlement!Path : Settlement!HitTp1(candles[m])
      <4>1. o = "NO_LEVEL_HIT_24H"
        BY <1>3, <2>1, <2>3, <2>5, <3>7, WindowIs DEF Settlement!Evaluate
      <4>2. ~IsIn("tp1", reached)
        BY <2>2, <3>1, <3>7, HitsAre, NotReached DEF Levels
      <4>3. reached = <<>>
        BY <3>4, <3>5, <4>2 DEF IsIn
      <4> QED BY <4>1, <4>3 DEF Settlement!Classification
    <3> QED BY <3>6, <3>7
  <2> QED BY <2>4, <2>5
<1> QED BY <1>1, <1>2, <1>3

\* Every reader waits until what a venue delivers is final.
LEMMA DeliveredIsFinal ==
  ASSUME minute > Window + PublishLag, minute \in Nat, NEW rows \in Settlement!Delivered
  PROVE  \A m \in DOMAIN rows : m \in Settlement!Expected => rows[m] = candles[m]
<1>1. PICK ms : /\ rows \in [ms -> [low : Settlement!Bands, high : Settlement!Bands]]
                /\ \A m \in ms : rows[m] \in Settlement!Published(m)
  BY DEF Settlement!Delivered
<1>2. \A m \in Settlement!Expected : minute > m + PublishLag
  BY WindowIs
<1>3. \A m \in Settlement!Expected : Settlement!Published(m) = {candles[m]}
  BY <1>2 DEF Settlement!Published
<1> QED BY <1>1, <1>3

LEMMA ReadersStep ==
  ASSUME SettlementInv, Settlement!Settle \/ Settlement!Resolve \/ Settlement!Research
  PROVE  SettlementInv'
<1>1. /\ UNCHANGED <<minute, candles, signal, reached>>
      /\ MarketTypeOK /\ HitIsReached /\ Agrees(reached, candles) /\ minute \in Nat
  BY DEF Settlement!Settle, Settlement!Resolve, Settlement!Research, SettlementInv, MarketTypeOK
<1>2. minute > Window + PublishLag /\ minute > Window
  <2>1. minute >= Window + CloseDelay \/ minute > Window + PublishLag
    BY <1>1, WindowIs
    DEF Settlement!Settle, Settlement!Mature, Settlement!Resolve, Settlement!MatureCapture,
        Settlement!Research
  <2> QED BY <1>1, <2>1, WindowIs
<1>3. MarketTypeOK' /\ HitIsReached' /\ Agrees(reached, candles)'
  BY <1>1
  DEF MarketTypeOK, HitIsReached, Agrees, Settlement!Path, Settlement!Expected, Settlement!StartMinute
<1>4. ASSUME NEW o, Settlement!Claim(o), \/ UNCHANGED says
                                         \/ \E reader : Settlement!Says(reader, o)
      PROVE  SettlementInv'
  <2>1. \A q : Settlement!Claim(q)' = Settlement!Claim(q)
    BY <1>1
    DEF Settlement!Claim, Settlement!First, Settlement!Before, Settlement!Reached
  <2>2. says'.outcome \in {says.outcome, o}
    BY <1>4 DEF Settlement!Says
  <2>3. Settlement!Claim(says'.outcome)
    BY <1>4, <2>2 DEF SettlementInv, OutcomeIsTrue, Settlement!OutcomeIsTrue
  <2>4. OutcomeIsTrue'
    BY <1>1, <2>3
    DEF OutcomeIsTrue, Settlement!OutcomeIsTrue, Settlement!Claim, Settlement!First,
        Settlement!Before, Settlement!Reached
  <2>5. minute' > Window
    BY <1>1, <1>2
  <2> QED BY <1>3, <2>4, <2>5 DEF SettlementInv
<1>5. \A rows \in Settlement!Delivered :
        /\ Settlement!Claim(Settlement!Evaluate(rows))
        /\ Settlement!Claim(Settlement!Classification(Settlement!Evaluate(rows)))
  BY <1>1, <1>2, DeliveredIsFinal, EvaluationIsTrue
<1>6. CASE Settlement!Settle
  <2>1. \/ UNCHANGED says
        \/ \E rows \in Settlement!Delivered :
             Settlement!Says("settlement", Settlement!Evaluate(rows))
        \/ \E reason \in {"UNRESOLVABLE_SIGNAL_LEVELS", "UNRESOLVABLE_SIGNAL_SOURCE"} :
             Settlement!Says("settlement", reason)
    BY <1>6, Zenon DEF Settlement!Settle
  <2> QED BY <1>4, <1>5, <2>1, ClaimsAre
<1>7. CASE Settlement!Resolve
  <2>1. \/ UNCHANGED says
        \/ \E rows \in Settlement!Delivered :
             Settlement!Says("capture", Settlement!Classification(Settlement!Evaluate(rows)))
    BY <1>7, Zenon DEF Settlement!Resolve
  <2> QED BY <1>4, <1>5, <2>1, ClaimsAre
<1>8. CASE Settlement!Research
  <2> DEFINE met == {m \in Settlement!Path :
                       Settlement!HitStop(candles[m]) \/ Settlement!HitTp1(candles[m])}
             first == CHOOSE m \in met : \A k \in met : m <= k
             o == IF met = {} THEN "TIMEOUT" ELSE Settlement!OutcomeDetails(first)
  <2>1. Settlement!Says("research", o) /\ signal = "boundary"
    BY <1>8 DEF Settlement!Research
  <2>2. Final
    BY <1>1, <2>1, WindowIs DEF Final, ClearBefore, Settlement!StartMinute
  <2>3. \A k \in Settlement!Path : candles[k] \in Candles
    BY <1>1, WindowIs DEF MarketTypeOK
  <2>4. CASE met = {}
    <3>1. \A k \in Settlement!Path :
            ~Hits("stop", candles[k]) /\ ~Hits("tp1", candles[k]) /\ ~Hits("tp2", candles[k])
      BY <2>3, <2>4, HitsAre
    <3>2. ~IsIn("stop", reached) /\ ~IsIn("tp1", reached) /\ ~IsIn("tp2", reached)
      BY <2>2, <3>1, NotReached DEF Levels
    <3>3. /\ reached \in Seq(Levels) /\ Len(reached) \in Nat /\ DOMAIN reached = 1..Len(reached)
      BY <1>1, PathTells
    <3>4. \A i \in DOMAIN reached : reached[i] \in Levels
      BY <3>3
    <3>5. DOMAIN reached = {}
      BY <3>2, <3>4 DEF IsIn, Levels
    <3>6. reached = <<>>
      BY <3>3, <3>5
    <3> QED BY <1>4, <2>1, <2>4, <3>6, ClaimsAre
  <2>5. CASE met # {}
    <3>1. first \in met /\ \A k \in met : first <= k
      BY <2>5, FirstDecisive
    <3> HIDE DEF first
    <3>2. /\ first \in Settlement!Path
          /\ Settlement!HitStop(candles[first]) \/ Settlement!HitTp1(candles[first])
      BY <3>1
    <3>3. CASE Settlement!HitStop(candles[first])
      <4>1. IsIn("stop", reached)
        BY <1>1, <2>3, <3>2, <3>3, HitsAre, PathTells DEF Levels
      <4>2. o = "LOSS"
        BY <2>5, <3>3 DEF Settlement!OutcomeDetails
      <4> QED BY <1>4, <2>1, <4>1, <4>2, ClaimsAre
    <3>4. CASE ~Settlement!HitStop(candles[first])
      <4>1. Hits("tp1", candles[first])
        BY <2>3, <3>2, <3>4, HitsAre
      <4>2. \A k \in Settlement!Path : k <= first => ~Hits("stop", candles[k])
        <5>1. \A k \in Settlement!Path : k < first => ~Settlement!HitStop(candles[k])
          BY <3>1, <3>2, WindowIs
        <5> QED BY <2>3, <3>2, <3>4, <5>1, HitsAre, WindowIs
      <4>3. /\ IsIn("tp1", reached)
            /\ \A i, j \in DOMAIN reached : reached[i] = "stop" /\ reached[j] = "tp1" => j < i
        BY <2>2, <3>2, <4>1, <4>2, NotBefore DEF Final, Levels
      <4>4. Settlement!Before("tp1", "stop")
        BY <4>3 DEF Settlement!Before, IsIn
      <4>5. o = "WIN"
        BY <2>5, <3>4 DEF Settlement!OutcomeDetails
      <4> QED BY <1>4, <2>1, <4>4, <4>5, ClaimsAre
    <3> QED BY <3>3, <3>4
  <2> QED BY <2>4, <2>5
<1> QED BY <1>6, <1>7, <1>8

LEMMA SettlementStep == SettlementInv /\ [Settlement!Next]_(Settlement!vars) => SettlementInv'
<1> SUFFICES ASSUME SettlementInv, [Settlement!Next]_(Settlement!vars) PROVE SettlementInv'
  OBVIOUS
<1>1. CASE UNCHANGED Settlement!vars
  BY <1>1
  DEF Settlement!vars, SettlementInv, MarketTypeOK, HitIsReached, Agrees, Settlement!Path,
      Settlement!Expected, Settlement!StartMinute, OutcomeIsTrue, Settlement!OutcomeIsTrue,
      Settlement!Claim, Settlement!First, Settlement!Before, Settlement!Reached
<1> QED
  BY <1>1, TradeStep, TriggerStep, NextMinuteStep, ReadersStep
  DEF Settlement!Next, Settlement!SayAgain

-----------------------------------------------------------------------------
(***************************************************************************)
(* The stages of a candidate.  The row keeps one time of each stage; the   *)
(* history of the lifecycle tells which times of a stage still hold.  The  *)
(* row's is the newest of them (RowTells), since histories are in order of *)
(* time, which is what refusing a late advance is for.                     *)
(***************************************************************************)

Histories == Seq([at : 0..MaxTime, stages : SUBSET Signal!Stages])

\* The times of the stages that hold at snapshot i.
HypeSince(h, j, i) == "hype" \in h[j].stages /\ Signal!Within(h, j, i, HypeTtl)

SetupSince(h, j, i) ==
  /\ "setup" \in h[j].stages /\ Signal!DamageHolds(h, j) /\ Signal!Within(h, j, i, SetupTtl)
  /\ \A k \in (j+1)..i : ~Signal!HypeLapsed(h, k) /\ ~Signal!DamageLapsed(h, k)

HypeTimes(h, i)   == {h[j].at : j \in {k \in 1..i : HypeSince(h, k, i)}}
DamageTimes(h, i) == {h[j].at : j \in {k \in 1..i : Signal!DamageSince(h, k, i)}}
SetupTimes(h, i)  == {h[j].at : j \in {k \in 1..i : SetupSince(h, k, i)}}

IsNewest(t, T) ==
  \/ t = Signal!Never /\ T = {}
  \/ t \in T /\ \A u \in T : u <= t

IsRow(r) == r = [hype |-> r.hype, damage |-> r.damage, setup |-> r.setup, updated |-> r.updated]

RowTells(h, r) ==
  /\ h \in Histories /\ IsRow(r)
  /\ \A i, j \in 1..Len(h) : i <= j => h[i].at <= h[j].at
  /\ r.updated = IF h = <<>> THEN Signal!Never ELSE h[Len(h)].at
  /\ IsNewest(r.hype, HypeTimes(h, Len(h)))
  /\ IsNewest(r.damage, DamageTimes(h, Len(h)))
  /\ IsNewest(r.setup, SetupTimes(h, Len(h)))
  /\ r.damage # Signal!Never => r.hype # Signal!Never
  /\ r.setup # Signal!Never => r.damage # Signal!Never

LEMMA LivesOfStages ==
  /\ HypeTtl \in Nat /\ DamageTtl \in Nat /\ SetupTtl \in Nat /\ MaxTime \in Nat
  /\ Signal!Never = MaxTime + 1 /\ \A t \in 0..MaxTime : t # Signal!Never
  BY SignalAssumption DEF Signal!Never

\* A snapshot more changes nothing that was told before.
LEMMA SnapshotAdded ==
  ASSUME NEW h \in Histories, NEW s \in [at : 0..MaxTime, stages : SUBSET Signal!Stages]
  PROVE  /\ Append(h, s) \in Histories /\ Len(Append(h, s)) = Len(h) + 1 /\ Len(h) \in Nat
         /\ \A i \in 1..Len(h) : Append(h, s)[i] = h[i] /\ h[i].at \in 0..MaxTime
         /\ Append(h, s)[Len(h) + 1] = s
<1> DEFINE S == [at : 0..MaxTime, stages : SUBSET Signal!Stages]
<1>1. h \in Seq(S) /\ s \in S
  BY DEF Histories
<1>2. \A u \in S : u.at \in 0..MaxTime
  OBVIOUS
<1> HIDE DEF S
<1>3. /\ Append(h, s) \in Seq(S) /\ Len(Append(h, s)) = Len(h) + 1 /\ Len(h) \in Nat
      /\ \A i \in 1..Len(h) : Append(h, s)[i] = h[i] /\ h[i] \in S
      /\ Append(h, s)[Len(h) + 1] = s
  BY <1>1, AppendProperties
<1> QED BY <1>2, <1>3 DEF Histories, S

LEMMA TheSameBefore ==
  ASSUME NEW h, NEW g, NEW n \in Nat, \A i \in 1..n : g[i] = h[i]
  PROVE  /\ \A i \in 1..n : Signal!HypeHolds(g, i) = Signal!HypeHolds(h, i)
         /\ \A i \in 1..n : Signal!HypeLapsed(g, i) = Signal!HypeLapsed(h, i)
         /\ \A i \in 1..n : \A j \in 1..i : Signal!DamageSince(g, j, i) = Signal!DamageSince(h, j, i)
         /\ \A i \in 1..n : Signal!DamageHolds(g, i) = Signal!DamageHolds(h, i)
         /\ \A i \in 1..n : Signal!DamageLapsed(g, i) = Signal!DamageLapsed(h, i)
<1>1. ASSUME NEW i \in 1..n
      PROVE  /\ \A j \in 1..i : j \in 1..n /\ g[j] = h[j] /\ g[i] = h[i]
             /\ \A j \in 1..(i-1) : j \in 1..i
  OBVIOUS
<1>2. \A i \in 1..n : \A j \in 1..i : \A ttl : Signal!Within(g, j, i, ttl) = Signal!Within(h, j, i, ttl)
  BY <1>1 DEF Signal!Within
<1>3. \A i \in 1..n : Signal!HypeHolds(g, i) = Signal!HypeHolds(h, i)
  BY <1>1, <1>2 DEF Signal!HypeHolds
<1>4. \A i \in 1..n : Signal!HypeLapsed(g, i) = Signal!HypeLapsed(h, i)
  BY <1>1, <1>2 DEF Signal!HypeLapsed
<1>5. ASSUME NEW i \in 1..n, NEW j \in 1..i
      PROVE  Signal!DamageSince(g, j, i) = Signal!DamageSince(h, j, i)
  <2>1. \A k \in (j+1)..i : k \in 1..n
    OBVIOUS
  <2>2. j \in 1..n
    OBVIOUS
  <2> QED BY <1>1, <1>2, <1>3, <1>4, <2>1, <2>2 DEF Signal!DamageSince
<1>6. \A i \in 1..n : Signal!DamageHolds(g, i) = Signal!DamageHolds(h, i)
  BY <1>5 DEF Signal!DamageHolds
<1>7. \A i \in 1..n : Signal!DamageLapsed(g, i) = Signal!DamageLapsed(h, i)
  BY <1>1, <1>5 DEF Signal!DamageLapsed
<1> QED BY <1>3, <1>4, <1>5, <1>6, <1>7

\* The newest of the times that hold on, and of those with a new one.
Left(t, at, ttl) == IF t # Signal!Never /\ at - t > ttl THEN Signal!Never ELSE t

StillHold(T, at, ttl) == {t \in T : at - t <= ttl}

LEMMA NewestLeft ==
  ASSUME NEW T, T \subseteq 0..MaxTime, NEW t, IsNewest(t, T), NEW at \in 0..MaxTime,
         NEW ttl \in Nat
  PROVE  IsNewest(Left(t, at, ttl), StillHold(T, at, ttl))
<1> USE DEF Left, StillHold
<1>1. CASE t = Signal!Never
  BY <1>1, LivesOfStages DEF IsNewest
<1>2. CASE t # Signal!Never /\ at - t > ttl
  <2>1. t \in T /\ \A u \in T : u <= t
    BY <1>2 DEF IsNewest
  <2>2. \A u \in T : ~(at - u <= ttl)
    BY <1>2, <2>1
  <2> QED BY <1>2, <2>2 DEF IsNewest
<1>3. CASE t # Signal!Never /\ ~(at - t > ttl)
  <2>1. t \in T /\ \A u \in T : u <= t
    BY <1>3 DEF IsNewest
  <2>2. at - t <= ttl
    BY <1>3, <2>1
  <2> QED BY <1>3, <2>1, <2>2 DEF IsNewest
<1> QED BY <1>1, <1>2, <1>3

LEMMA NewestWith ==
  ASSUME NEW T, T \subseteq 0..MaxTime, NEW t, IsNewest(t, T), NEW at \in 0..MaxTime,
         \A u \in T : u <= at
  PROVE  IsNewest(at, T \cup {at})
  BY DEF IsNewest

\* Which stages hold at a snapshot that is added, and since when.
LEMMA TimesAdded ==
  ASSUME NEW h \in Histories, NEW s \in [at : 0..MaxTime, stages : SUBSET Signal!Stages],
         \A i, j \in 1..Len(h) : i <= j => h[i].at <= h[j].at,
         \A i \in 1..Len(h) : h[i].at <= s.at
  PROVE  LET g == Append(h, s)
             n == Len(h)
             heldHype == {t \in HypeTimes(h, n) : s.at - t <= HypeTtl}
             heldDamage == IF heldHype = {} THEN {}
                           ELSE {t \in DamageTimes(h, n) : s.at - t <= DamageTtl}
             heldSetup == IF heldHype = {} \/ heldDamage = {} THEN {}
                          ELSE {t \in SetupTimes(h, n) : s.at - t <= SetupTtl}
             hype == HypeTimes(g, n + 1)
             damage == DamageTimes(g, n + 1)
             setup == SetupTimes(g, n + 1)
         IN  /\ hype = heldHype \cup (IF "hype" \in s.stages THEN {s.at} ELSE {})
             /\ Signal!HypeHolds(g, n + 1) <=> hype # {}
             /\ damage = heldDamage \cup
                  (IF "damage" \in s.stages /\ hype # {} THEN {s.at} ELSE {})
             /\ Signal!DamageHolds(g, n + 1) <=> damage # {}
             /\ setup = heldSetup \cup
                  (IF "setup" \in s.stages /\ damage # {} THEN {s.at} ELSE {})
             /\ Signal!SetupHolds(g, n + 1) <=> setup # {}
<1> DEFINE g == Append(h, s)
           n == Len(h)
           m == Len(h) + 1
<1>1. /\ n \in Nat /\ m = n + 1 /\ s.at \in 0..MaxTime
      /\ \A i \in 1..n : g[i] = h[i] /\ h[i].at \in 0..MaxTime
      /\ g[m] = s /\ m \in 1..m /\ m - 1 = n
      /\ \A i \in 1..m : i \in 1..n \/ i = m
      /\ \A i \in 1..n : i \in 1..m /\ i # m /\ i \in 1..i
  BY SnapshotAdded
<1>2. \A i \in 1..n : h[i].at <= h[n].at
  BY <1>1
<1> HIDE DEF g, n, m
<1>3. ASSUME NEW j \in 1..n, NEW ttl \in Nat
      PROVE  /\ Signal!Within(g, j, m, ttl) <=> s.at - h[j].at <= ttl
             /\ Signal!Within(g, j, m, ttl) => Signal!Within(h, j, n, ttl)
  <2>1. /\ h[j].at \in 0..MaxTime /\ h[n].at \in 0..MaxTime /\ h[n].at <= s.at
        /\ g[j] = h[j] /\ g[m] = s /\ n \in 1..n
    BY <1>1 DEF n
  <2> QED BY <1>1, <2>1, LivesOfStages DEF Signal!Within
<1>4. \A ttl \in Nat : Signal!Within(g, m, m, ttl)
  BY <1>1 DEF Signal!Within
<1>5. /\ HypeTtl \in Nat /\ DamageTtl \in Nat /\ SetupTtl \in Nat
  BY LivesOfStages
<1> DEFINE heldHype == {t \in HypeTimes(h, n) : s.at - t <= HypeTtl}
           heldDamage == IF heldHype = {} THEN {}
                         ELSE {t \in DamageTimes(h, n) : s.at - t <= DamageTtl}
           heldSetup == IF heldHype = {} \/ heldDamage = {} THEN {}
                        ELSE {t \in SetupTimes(h, n) : s.at - t <= SetupTtl}
\* Hype.
<1>6. \A j \in 1..n : HypeSince(g, j, m) <=> HypeSince(h, j, n) /\ s.at - h[j].at <= HypeTtl
  BY <1>1, <1>3, <1>5 DEF HypeSince
<1>7. HypeSince(g, m, m) <=> "hype" \in s.stages
  BY <1>1, <1>4, <1>5 DEF HypeSince
<1>8. HypeTimes(g, m) = heldHype \cup (IF "hype" \in s.stages THEN {s.at} ELSE {})
  <2>1. ASSUME NEW t
        PROVE  t \in HypeTimes(g, m) <=>
                 \/ t \in HypeTimes(h, n) /\ s.at - t <= HypeTtl
                 \/ "hype" \in s.stages /\ t = s.at
    BY <1>1, <1>6, <1>7 DEF HypeTimes
  <2> QED BY <2>1
<1>9. Signal!HypeHolds(g, m) <=> HypeTimes(g, m) # {}
  BY DEF Signal!HypeHolds, HypeTimes, HypeSince
<1>10. Signal!HypeLapsed(g, m) <=> heldHype = {}
  BY <1>1, <1>6 DEF Signal!HypeLapsed, HypeTimes, HypeSince
\* Damage.
<1>11. \A i \in 1..n :
         /\ Signal!HypeHolds(g, i) = Signal!HypeHolds(h, i)
         /\ Signal!HypeLapsed(g, i) = Signal!HypeLapsed(h, i)
         /\ Signal!DamageHolds(g, i) = Signal!DamageHolds(h, i)
         /\ Signal!DamageLapsed(g, i) = Signal!DamageLapsed(h, i)
  BY <1>1, TheSameBefore
<1>12. ASSUME NEW j \in 1..n
       PROVE  /\ \A k \in (j+1)..m : k \in (j+1)..n \/ k = m
              /\ \A k \in (j+1)..n : k \in (j+1)..m /\ k \in 1..n
              /\ m \in (j+1)..m
  BY <1>1
<1>13. \A j \in 1..n : Signal!DamageSince(g, j, m) <=>
         /\ ~Signal!HypeLapsed(g, m)
         /\ Signal!DamageSince(h, j, n) /\ s.at - h[j].at <= DamageTtl
  BY <1>1, <1>3, <1>5, <1>11, <1>12 DEF Signal!DamageSince
<1>14. (m+1)..m = {}
  BY <1>1
<1>15. Signal!DamageSince(g, m, m) <=> "damage" \in s.stages /\ HypeTimes(g, m) # {}
  BY <1>1, <1>4, <1>5, <1>9, <1>14 DEF Signal!DamageSince
<1>16. DamageTimes(g, m) = heldDamage \cup
         (IF "damage" \in s.stages /\ HypeTimes(g, m) # {} THEN {s.at} ELSE {})
  <2>1. ASSUME NEW t
        PROVE  t \in DamageTimes(g, m) <=>
                 \/ /\ heldHype # {}
                    /\ t \in DamageTimes(h, n) /\ s.at - t <= DamageTtl
                 \/ /\ "damage" \in s.stages /\ HypeTimes(g, m) # {}
                    /\ t = s.at
    BY <1>1, <1>10, <1>13, <1>15 DEF DamageTimes
  <2> QED BY <2>1
<1>17. Signal!DamageHolds(g, m) <=> DamageTimes(g, m) # {}
  BY DEF Signal!DamageHolds, DamageTimes
<1>18. Signal!DamageLapsed(g, m) <=> heldDamage = {}
  BY <1>1, <1>10, <1>13 DEF Signal!DamageLapsed, DamageTimes
\* The setup.
<1>19. \A j \in 1..n : SetupSince(g, j, m) <=>
         /\ ~Signal!HypeLapsed(g, m) /\ ~Signal!DamageLapsed(g, m)
         /\ SetupSince(h, j, n) /\ s.at - h[j].at <= SetupTtl
  BY <1>1, <1>3, <1>5, <1>11, <1>12 DEF SetupSince
<1>20. SetupSince(g, m, m) <=> "setup" \in s.stages /\ DamageTimes(g, m) # {}
  BY <1>1, <1>4, <1>5, <1>14, <1>17 DEF SetupSince
<1>21. SetupTimes(g, m) = heldSetup \cup
         (IF "setup" \in s.stages /\ DamageTimes(g, m) # {} THEN {s.at} ELSE {})
  <2>1. ASSUME NEW t
        PROVE  t \in SetupTimes(g, m) <=>
                 \/ /\ heldHype # {} /\ heldDamage # {}
                    /\ t \in SetupTimes(h, n) /\ s.at - t <= SetupTtl
                 \/ /\ "setup" \in s.stages /\ DamageTimes(g, m) # {}
                    /\ t = s.at
    BY <1>1, <1>10, <1>18, <1>19, <1>20 DEF SetupTimes
  <2> QED BY <2>1
<1>22. Signal!SetupHolds(g, m) <=> SetupTimes(g, m) # {}
  BY DEF Signal!SetupHolds, SetupTimes, SetupSince
<1> QED
  BY <1>8, <1>9, <1>16, <1>17, <1>21, <1>22 DEF g, n, m

LEMMA TimesAreTimes ==
  ASSUME NEW h \in Histories, NEW i \in 0..Len(h)
  PROVE  /\ HypeTimes(h, i) \subseteq 0..MaxTime /\ DamageTimes(h, i) \subseteq 0..MaxTime
         /\ SetupTimes(h, i) \subseteq 0..MaxTime
         /\ \A t \in HypeTimes(h, i) \cup DamageTimes(h, i) \cup SetupTimes(h, i) :
              \E j \in 1..Len(h) : t = h[j].at
<1>1. \A j \in 1..Len(h) : h[j].at \in 0..MaxTime
  <2>1. [at |-> 0, stages |-> {}] \in [at : 0..MaxTime, stages : SUBSET Signal!Stages]
    BY LivesOfStages
  <2> QED BY <2>1, SnapshotAdded
<1>2. Len(h) \in Nat
  BY DEF Histories
<1>3. \A j \in 1..i : j \in 1..Len(h)
  BY <1>2
<1> QED BY <1>1, <1>3 DEF HypeTimes, DamageTimes, SetupTimes

LEMMA NewestIs ==
  ASSUME NEW T, T \subseteq 0..MaxTime, NEW t, IsNewest(t, T)
  PROVE  t # Signal!Never <=> T # {}
<1>1. \A u \in T : u # Signal!Never
  BY LivesOfStages
<1> QED BY <1>1 DEF IsNewest

\* Fresh, one stage after the other.
LEMMA FreshIs ==
  ASSUME NEW r, IsRow(r)
  PROVE  LET f == Signal!Fresh(r) IN
           /\ IsRow(f)
           /\ f.hype = IF Signal!Older(r.hype, HypeTtl) THEN Signal!Never ELSE r.hype
           /\ f.damage = IF Signal!Older(r.hype, HypeTtl) \/ Signal!Older(r.damage, DamageTtl)
                         THEN Signal!Never ELSE r.damage
           /\ f.setup = IF \/ Signal!Older(r.hype, HypeTtl) \/ Signal!Older(r.damage, DamageTtl)
                           \/ Signal!Older(r.setup, SetupTtl)
                        THEN Signal!Never ELSE r.setup
<1> DEFINE f == Signal!Fresh(r)
<1>1. CASE Signal!Older(r.hype, HypeTtl)
  <2>1. f = Signal!NoRow
    BY <1>1 DEF Signal!Fresh
  <2> QED BY <1>1, <2>1 DEF Signal!NoRow, IsRow
<1>2. CASE ~Signal!Older(r.hype, HypeTtl) /\ Signal!Older(r.damage, DamageTtl)
  <2>1. f = [r EXCEPT !.damage = Signal!Never, !.setup = Signal!Never]
    BY <1>2 DEF Signal!Fresh
  <2> QED BY <1>2, <2>1 DEF IsRow
<1>3. CASE /\ ~Signal!Older(r.hype, HypeTtl) /\ ~Signal!Older(r.damage, DamageTtl)
           /\ Signal!Older(r.setup, SetupTtl)
  <2>1. f = [r EXCEPT !.setup = Signal!Never]
    BY <1>3 DEF Signal!Fresh
  <2> QED BY <1>3, <2>1 DEF IsRow
<1>4. CASE /\ ~Signal!Older(r.hype, HypeTtl) /\ ~Signal!Older(r.damage, DamageTtl)
           /\ ~Signal!Older(r.setup, SetupTtl)
  BY <1>4 DEF Signal!Fresh
<1> QED BY <1>1, <1>2, <1>3, <1>4

\* An advance leaves in the row what the longer history tells.
LEMMA RowAdvances ==
  ASSUME NEW h, NEW r, RowTells(h, r), NEW s,
         s = [at |-> evaluation.at, stages |-> evaluation.stages \ {"trigger"}],
         evaluation.at \in 0..MaxTime, evaluation.stages \in SUBSET Signal!Stages,
         r.updated = Signal!Never \/ evaluation.at >= r.updated
  PROVE  LET row == Signal!Confirm(Signal!Fresh(r), evaluation.stages, evaluation.at) IN
           /\ RowTells(Append(h, s), row)
           /\ Signal!Chained(Append(h, s), Len(h) + 1) <=> Signal!Complete(row)
<1> DEFINE g == Append(h, s)
           n == Len(h)
           at == evaluation.at
           stages == evaluation.stages
           f == Signal!Fresh(r)
           c == Signal!Confirm(f, stages, at)
           heldHype == {t \in HypeTimes(h, n) : s.at - t <= HypeTtl}
           heldDamage == IF heldHype = {} THEN {}
                         ELSE {t \in DamageTimes(h, n) : s.at - t <= DamageTtl}
           heldSetup == IF heldHype = {} \/ heldDamage = {} THEN {}
                        ELSE {t \in SetupTimes(h, n) : s.at - t <= SetupTtl}
           H == HypeTimes(g, n + 1)
           D == DamageTimes(g, n + 1)
           S == SetupTimes(g, n + 1)
<1>1. /\ h \in Histories /\ IsRow(r)
      /\ \A i, j \in 1..n : i <= j => h[i].at <= h[j].at
      /\ r.updated = IF h = <<>> THEN Signal!Never ELSE h[n].at
      /\ IsNewest(r.hype, HypeTimes(h, n)) /\ IsNewest(r.damage, DamageTimes(h, n))
      /\ IsNewest(r.setup, SetupTimes(h, n))
      /\ r.damage # Signal!Never => r.hype # Signal!Never
      /\ r.setup # Signal!Never => r.damage # Signal!Never
  BY DEF RowTells
<1>2. /\ s \in [at : 0..MaxTime, stages : SUBSET Signal!Stages]
      /\ s.at = at /\ s.stages = stages \ {"trigger"} /\ at \in 0..MaxTime
  OBVIOUS
<1>3. /\ g \in Histories /\ Len(g) = n + 1 /\ n \in Nat
      /\ \A i \in 1..n : g[i] = h[i] /\ h[i].at \in 0..MaxTime
      /\ g[n + 1] = s
  BY <1>1, <1>2, SnapshotAdded
<1>4. \A i \in 1..n : h[i].at <= at
  <2> SUFFICES ASSUME NEW i \in 1..n PROVE h[i].at <= at
    OBVIOUS
  <2>1. n >= 1 /\ h # <<>> /\ n \in 1..n /\ i <= n
    BY <1>3
  <2>2. h[i].at <= h[n].at /\ h[n].at \in 0..MaxTime /\ h[i].at \in 0..MaxTime
    BY <1>1, <1>3, <2>1
  <2>3. r.updated = h[n].at /\ r.updated # Signal!Never
    BY <1>1, <2>1, <2>2, LivesOfStages
  <2> QED BY <1>2, <2>2, <2>3
<1>5. n \in 0..n
  BY <1>3
<1>6. /\ HypeTimes(h, n) \subseteq 0..MaxTime /\ DamageTimes(h, n) \subseteq 0..MaxTime
      /\ SetupTimes(h, n) \subseteq 0..MaxTime
      /\ \A t \in HypeTimes(h, n) \cup DamageTimes(h, n) \cup SetupTimes(h, n) : t <= at
  BY <1>1, <1>4, <1>5, TimesAreTimes
<1>7. /\ H = heldHype \cup (IF "hype" \in stages THEN {at} ELSE {})
      /\ Signal!HypeHolds(g, n + 1) <=> H # {}
      /\ D = heldDamage \cup (IF "damage" \in stages /\ H # {} THEN {at} ELSE {})
      /\ Signal!DamageHolds(g, n + 1) <=> D # {}
      /\ S = heldSetup \cup (IF "setup" \in stages /\ D # {} THEN {at} ELSE {})
      /\ Signal!SetupHolds(g, n + 1) <=> S # {}
  BY <1>1, <1>2, <1>4, TimesAdded, ZenonT(60)
<1> DEFINE keptHype   == StillHold(HypeTimes(h, n), at, HypeTtl)
           keptDamage == StillHold(DamageTimes(h, n), at, DamageTtl)
           keptSetup  == StillHold(SetupTimes(h, n), at, SetupTtl)
<1>8. /\ heldHype = keptHype /\ keptHype \subseteq 0..MaxTime /\ \A t \in keptHype : t <= at
      /\ heldDamage = IF keptHype = {} THEN {} ELSE keptDamage
      /\ heldDamage \subseteq 0..MaxTime /\ \A t \in heldDamage : t <= at
      /\ heldSetup = IF keptHype = {} \/ heldDamage = {} THEN {} ELSE keptSetup
      /\ heldSetup \subseteq 0..MaxTime /\ \A t \in heldSetup : t <= at
  BY <1>2, <1>6 DEF StillHold
\* What is fresh of the row.
<1>9. \A t, ttl : Signal!Older(t, ttl) <=> t # Signal!Never /\ at - t > ttl
  BY DEF Signal!Older
<1> DEFINE left(t, ttl) == Left(t, at, ttl)
<1>10. /\ IsNewest(left(r.hype, HypeTtl), keptHype)
       /\ IsNewest(left(r.damage, DamageTtl), keptDamage)
       /\ IsNewest(left(r.setup, SetupTtl), keptSetup)
  <2>1. HypeTtl \in Nat /\ DamageTtl \in Nat /\ SetupTtl \in Nat
    BY LivesOfStages
  <2>2. IsNewest(left(r.hype, HypeTtl), keptHype)
    BY <1>1, <1>2, <1>6, <2>1, NewestLeft
  <2>3. IsNewest(left(r.damage, DamageTtl), keptDamage)
    BY <1>1, <1>2, <1>6, <2>1, NewestLeft
  <2>4. IsNewest(left(r.setup, SetupTtl), keptSetup)
    BY <1>1, <1>2, <1>6, <2>1, NewestLeft
  <2> QED BY <2>2, <2>3, <2>4
<1> HIDE DEF heldHype, heldDamage, heldSetup, keptHype, keptDamage, keptSetup, H, D, S, g, n
<1>11. /\ IsRow(f)
       /\ f.hype = left(r.hype, HypeTtl)
       /\ f.damage = IF Signal!Older(r.hype, HypeTtl) THEN Signal!Never
                     ELSE left(r.damage, DamageTtl)
       /\ f.setup = IF Signal!Older(r.hype, HypeTtl) \/ Signal!Older(r.damage, DamageTtl)
                    THEN Signal!Never ELSE left(r.setup, SetupTtl)
  BY <1>1, <1>9, FreshIs DEF Left
<1> HIDE DEF f
<1>12. IsNewest(f.hype, heldHype)
  BY <1>8, <1>10, <1>11
<1>13. f.hype # Signal!Never <=> heldHype # {}
  BY <1>8, <1>12, NewestIs
<1>14. IsNewest(f.damage, heldDamage)
  <2>1. CASE keptHype = {}
    <3>1. f.damage = Signal!Never
      BY <1>1, <1>8, <1>9, <1>11, <1>13, <2>1 DEF Left
    <3> QED BY <1>8, <2>1, <3>1 DEF IsNewest
  <2>2. CASE keptHype # {}
    <3>1. f.damage = left(r.damage, DamageTtl)
      BY <1>8, <1>9, <1>11, <1>13, <2>2 DEF Left
    <3> QED BY <1>8, <1>10, <2>2, <3>1
  <2> QED BY <2>1, <2>2
<1>15. f.damage # Signal!Never <=> heldDamage # {}
  BY <1>8, <1>14, NewestIs
<1>16. IsNewest(f.setup, heldSetup)
  <2>1. CASE keptHype = {} \/ heldDamage = {}
    <3>1. f.setup = Signal!Never
      BY <1>1, <1>8, <1>9, <1>11, <1>13, <1>15, <2>1 DEF Left
    <3> QED BY <1>8, <2>1, <3>1 DEF IsNewest
  <2>2. CASE keptHype # {} /\ heldDamage # {}
    <3>1. f.setup = left(r.setup, SetupTtl)
      BY <1>8, <1>9, <1>11, <1>13, <1>15, <2>2 DEF Left
    <3> QED BY <1>8, <1>10, <2>2, <3>1
  <2> QED BY <2>1, <2>2
\* What is confirmed on top of it.
<1>17. /\ IsRow(c) /\ c.updated = at
       /\ c.hype = IF "hype" \in stages THEN at ELSE f.hype
       /\ c.damage = IF "damage" \in stages /\ c.hype # Signal!Never THEN at ELSE f.damage
       /\ c.setup = IF "setup" \in stages /\ c.damage # Signal!Never THEN at ELSE f.setup
  BY DEF Signal!Confirm, IsRow
<1> HIDE DEF c
<1>18. at # Signal!Never
  BY <1>2, LivesOfStages
<1>19. IsNewest(c.hype, H) /\ H \subseteq 0..MaxTime
  <2>1. CASE "hype" \in stages
    BY <1>2, <1>7, <1>8, <1>12, <1>17, <2>1, NewestWith
  <2>2. CASE "hype" \notin stages
    BY <1>7, <1>8, <1>12, <1>17, <2>2
  <2> QED BY <2>1, <2>2
<1>20. c.hype # Signal!Never <=> H # {}
  BY <1>19, NewestIs
<1>21. IsNewest(c.damage, D) /\ D \subseteq 0..MaxTime
  <2>1. CASE "damage" \in stages /\ H # {}
    BY <1>2, <1>7, <1>8, <1>14, <1>17, <1>20, <2>1, NewestWith
  <2>2. CASE ~("damage" \in stages /\ H # {})
    BY <1>7, <1>8, <1>14, <1>17, <1>20, <2>2
  <2> QED BY <2>1, <2>2
<1>22. c.damage # Signal!Never <=> D # {}
  BY <1>21, NewestIs
<1>23. IsNewest(c.setup, S) /\ S \subseteq 0..MaxTime
  <2>1. CASE "setup" \in stages /\ D # {}
    BY <1>2, <1>7, <1>8, <1>16, <1>17, <1>22, <2>1, NewestWith
  <2>2. CASE ~("setup" \in stages /\ D # {})
    BY <1>7, <1>8, <1>16, <1>17, <1>22, <2>2
  <2> QED BY <2>1, <2>2
<1>24. c.setup # Signal!Never <=> S # {}
  BY <1>23, NewestIs
<1>25. /\ c.damage # Signal!Never => c.hype # Signal!Never
       /\ c.setup # Signal!Never => c.damage # Signal!Never
  BY <1>8, <1>13, <1>15, <1>17, <1>18, <1>20, <1>22, <1>24, <1>7
<1>26. \A i, j \in 1..(n + 1) : i <= j => g[i].at <= g[j].at
  <2> SUFFICES ASSUME NEW i \in 1..(n + 1), NEW j \in 1..(n + 1), i <= j
               PROVE  g[i].at <= g[j].at
    OBVIOUS
  <2>1. CASE j \in 1..n
    <3>1. i \in 1..n
      BY <1>3, <2>1
    <3> QED BY <1>1, <1>3, <2>1, <3>1 DEF n
  <2>2. CASE j = n + 1 /\ i \in 1..n
    BY <1>2, <1>3, <1>4, <2>2 DEF n
  <2>3. CASE j = n + 1 /\ i = n + 1
    BY <1>2, <1>3, <2>3
  <2> QED BY <1>3, <2>1, <2>2, <2>3
<1>27. RowTells(g, c)
  <2>1. g # <<>> /\ g[Len(g)].at = at
    BY <1>2, <1>3
  <2> QED
    BY <1>3, <1>17, <1>19, <1>21, <1>23, <1>25, <1>26, <2>1 DEF RowTells, H, D, S
<1>28. Signal!Chained(g, n + 1) <=> Signal!Complete(c)
  BY <1>2, <1>3, <1>7, <1>20, <1>22, <1>24 DEF Signal!Chained, Signal!Complete
<1> QED BY <1>27, <1>28 DEF g, n, c, f

IsEvaluation(e) ==
  e = [pc |-> e.pc, lifecycle |-> e.lifecycle, venue |-> e.venue, stages |-> e.stages,
       at |-> e.at, chain |-> e.chain, result |-> e.result]

\* What an evaluation says before its verdict.
Undecided(e) ==
  /\ e.stages \in SUBSET Signal!Stages
  /\ e.pc \in {"rest", "venue", "advance", "commit", "judge", "done"}
  /\ e.pc = "commit" => e.at \in 0..MaxTime
  /\ e.pc \in {"venue", "advance", "commit"} => e.chain = "unavailable"
  /\ e.pc \in {"venue", "advance", "commit", "judge"} => e.result # "strict"

SignalInv ==
  /\ hour \in 0..MaxTime
  /\ listing = [lifecycle |-> listing.lifecycle, eligible |-> listing.eligible]
  /\ listing.lifecycle \in Nat /\ evaluation.lifecycle \in 0..listing.lifecycle
  /\ RowTells(advances, stageRow)
  /\ IsEvaluation(evaluation) /\ Undecided(evaluation)
  /\ StrictIsEarned

LEMMA NothingTold == RowTells(<<>>, Signal!NoRow)
<1>1. \A T : IsNewest(Signal!Never, T) <=> T = {} \/ (Signal!Never \in T /\ \A u \in T : u <= Signal!Never)
  BY DEF IsNewest
<1>2. HypeTimes(<<>>, 0) = {} /\ DamageTimes(<<>>, 0) = {} /\ SetupTimes(<<>>, 0) = {}
  BY DEF HypeTimes, DamageTimes, SetupTimes
<1> QED BY <1>1, <1>2 DEF RowTells, Histories, IsRow, Signal!NoRow

LEMMA RestOfSignal ==
  IsEvaluation(Signal!Rest) /\ Undecided(Signal!Rest) /\ Signal!Rest.lifecycle = 0
  /\ Signal!Rest.pc = "rest"
  BY DEF IsEvaluation, Undecided, Signal!Rest

LEMMA SignalInitially == Signal!Init => SignalInv
<1> SUFFICES ASSUME Signal!Init PROVE SignalInv
  OBVIOUS
<1>1. /\ hour = 0 /\ listing = [lifecycle |-> 1, eligible |-> TRUE]
      /\ stageRow = Signal!NoRow /\ advances = <<>> /\ evaluation = Signal!Rest
  BY DEF Signal!Init
<1> QED
  BY <1>1, NothingTold, RestOfSignal, LivesOfStages
  DEF SignalInv, StrictIsEarned, Signal!StrictIsEarned

\* An evaluation that is not at its verdict has not said anything.
LEMMA GoesOn ==
  ASSUME SignalInv, UNCHANGED <<listing, stageRow, advances>>, hour' \in 0..MaxTime,
         IsEvaluation(evaluation'), Undecided(evaluation'),
         evaluation'.lifecycle \in {0, listing.lifecycle, evaluation.lifecycle},
         \/ evaluation'.pc \notin {"judge", "done"}
         \/ evaluation'.pc = "judge" /\ evaluation'.chain = "unavailable"
  PROVE  SignalInv'
<1>1. /\ listing.lifecycle \in Nat /\ evaluation.lifecycle \in 0..listing.lifecycle
      /\ listing' = listing
  BY DEF SignalInv
<1>2. evaluation'.lifecycle \in 0..listing'.lifecycle
  BY <1>1
<1>3. StrictIsEarned'
  BY DEF StrictIsEarned, Signal!StrictIsEarned, Undecided
<1> QED BY <1>1, <1>2, <1>3 DEF SignalInv

\* The steps before the stages are recorded.
LEMMA BeforeStagesStep ==
  ASSUME SignalInv,
         \/ Signal!ReadClock \/ Signal!Begin \/ Signal!StayInWatch \/ Signal!NextVenue
         \/ Signal!Select \/ Signal!Kill
  PROVE  SignalInv'
<1>1. /\ UNCHANGED <<hour, listing, stageRow, advances>> /\ hour \in 0..MaxTime
      /\ IsEvaluation(evaluation) /\ Undecided(evaluation)
  BY DEF Signal!ReadClock, Signal!Begin, Signal!StayInWatch, Signal!NextVenue, Signal!Select,
         Signal!Kill, SignalInv
<1>2. hour' \in 0..MaxTime
  BY <1>1
<1>3. CASE evaluation' = Signal!Rest
  BY <1>1, <1>2, <1>3, RestOfSignal, GoesOn
<1>4. CASE Signal!ReadClock
  <2>1. /\ evaluation.pc = "advance"
        /\ evaluation' = [evaluation EXCEPT !.pc = "commit", !.at = hour]
    BY <1>4 DEF Signal!ReadClock
  <2>2. /\ IsEvaluation(evaluation') /\ evaluation'.pc = "commit" /\ evaluation'.at = hour
        /\ evaluation'.lifecycle = evaluation.lifecycle /\ evaluation'.stages = evaluation.stages
        /\ evaluation'.chain = evaluation.chain /\ evaluation'.result = evaluation.result
    BY <1>1, <2>1 DEF IsEvaluation
  <2>3. Undecided(evaluation')
    BY <1>1, <2>1, <2>2 DEF Undecided
  <2> QED BY <1>1, <1>2, <2>2, <2>3, GoesOn
<1>5. CASE Signal!Begin
  <2>1. evaluation' = [Signal!Rest EXCEPT !.pc = "venue", !.lifecycle = listing.lifecycle,
                                          !.venue = 1]
    BY <1>5 DEF Signal!Begin
  <2>2. evaluation' = [pc |-> "venue", lifecycle |-> listing.lifecycle, venue |-> 1,
                       stages |-> {}, at |-> 0, chain |-> "unavailable", result |-> "none"]
    BY <2>1 DEF Signal!Rest
  <2>3. /\ evaluation'.pc = "venue" /\ evaluation'.lifecycle = listing.lifecycle
        /\ IsEvaluation(evaluation') /\ Undecided(evaluation')
    BY <2>2 DEF IsEvaluation, Undecided
  <2> QED BY <1>1, <1>2, <2>3, GoesOn
<1>6. CASE evaluation.pc = "venue" /\ evaluation' = [evaluation EXCEPT !.venue = @ + 1]
  <2>1. /\ IsEvaluation(evaluation') /\ evaluation'.pc = "venue"
        /\ evaluation'.lifecycle = evaluation.lifecycle /\ evaluation'.stages = evaluation.stages
        /\ evaluation'.chain = evaluation.chain /\ evaluation'.result = evaluation.result
    BY <1>1, <1>6 DEF IsEvaluation
  <2>2. Undecided(evaluation')
    BY <1>1, <1>6, <2>1 DEF Undecided
  <2> QED BY <1>1, <1>2, <2>1, <2>2, GoesOn
<1>7. CASE /\ evaluation.pc = "venue"
           /\ evaluation' = [evaluation EXCEPT !.pc = "advance", !.result = "prefilter",
                                               !.venue = 0]
  <2>1. /\ IsEvaluation(evaluation') /\ evaluation'.pc = "advance"
        /\ evaluation'.lifecycle = evaluation.lifecycle /\ evaluation'.stages = evaluation.stages
        /\ evaluation'.chain = evaluation.chain /\ evaluation'.result = "prefilter"
    BY <1>1, <1>7 DEF IsEvaluation
  <2>2. Undecided(evaluation')
    BY <1>1, <1>7, <2>1 DEF Undecided
  <2> QED BY <1>1, <1>2, <2>1, <2>2, GoesOn
<1>8. CASE Signal!Select
  <2>1. PICK stages \in Signal!Snapshots :
          evaluation' = [evaluation EXCEPT !.pc = "advance", !.venue = 0, !.stages = stages]
    BY <1>8 DEF Signal!Select
  <2>2. /\ IsEvaluation(evaluation') /\ evaluation'.pc = "advance"
        /\ evaluation'.lifecycle = evaluation.lifecycle /\ evaluation'.stages = stages
        /\ evaluation'.chain = evaluation.chain /\ evaluation'.result = evaluation.result
    BY <1>1, <2>1 DEF IsEvaluation
  <2>3. stages \in SUBSET Signal!Stages /\ evaluation.pc = "venue"
    BY <1>8, <2>1 DEF Signal!Snapshots, Signal!Stages, Signal!Select
  <2>4. Undecided(evaluation')
    BY <1>1, <2>2, <2>3 DEF Undecided
  <2> QED BY <1>1, <1>2, <2>2, <2>4, GoesOn
<1> QED
  BY <1>3, <1>4, <1>5, <1>6, <1>7, <1>8, Zenon
  DEF Signal!StayInWatch, Signal!NextVenue, Signal!Kill

\* After an advance that was refused or failed the validator goes on without the stages.
LEMMA ResumeIs ==
  ASSUME SignalInv, evaluation.pc = "commit"
  PROVE  /\ IsEvaluation(Signal!Resume) /\ Undecided(Signal!Resume)
         /\ Signal!Resume.lifecycle \in {0, evaluation.lifecycle}
         /\ Signal!Resume.chain = "unavailable"
         /\ IF Signal!Prefiltered THEN Signal!Resume = Signal!Rest
            ELSE /\ Signal!Resume.pc = "judge" /\ Signal!Resume.stages = evaluation.stages
                 /\ Signal!Resume.result = evaluation.result
                 /\ Signal!Resume.lifecycle = evaluation.lifecycle
<1> DEFINE b == Signal!Resume
<1>1. IsEvaluation(evaluation) /\ Undecided(evaluation)
  BY DEF SignalInv
<1>2. CASE Signal!Prefiltered
  <2>1. b = Signal!Rest
    BY <1>2 DEF Signal!Resume
  <2>2. Signal!Rest.chain = "unavailable"
    BY DEF Signal!Rest
  <2> QED BY <1>2, <2>1, <2>2, RestOfSignal
<1>3. CASE ~Signal!Prefiltered
  <2>1. b = [evaluation EXCEPT !.pc = "judge", !.at = 0]
    BY <1>3 DEF Signal!Resume
  <2> HIDE DEF b
  <2>2. /\ IsEvaluation(b) /\ b.pc = "judge" /\ b.stages = evaluation.stages
        /\ b.result = evaluation.result /\ b.lifecycle = evaluation.lifecycle
        /\ b.chain = evaluation.chain
    BY <1>1, <2>1 DEF IsEvaluation
  <2>3. Undecided(b) /\ b.chain = "unavailable"
    BY <1>1, <2>2 DEF Undecided
  <2> QED BY <1>3, <2>2, <2>3 DEF b
<1> QED BY <1>2, <1>3

LEMMA AdvanceStep ==
  ASSUME SignalInv, Signal!AdvanceIsStale \/ Signal!Advance \/ Signal!AdvanceFails
  PROVE  SignalInv'
<1>1. /\ evaluation.pc = "commit" /\ UNCHANGED <<hour, listing>> /\ hour' \in 0..MaxTime
      /\ IsEvaluation(evaluation) /\ Undecided(evaluation)
  BY DEF SignalInv, Signal!AdvanceIsStale, Signal!Advance, Signal!AdvanceFails
<1>2. CASE Signal!AdvanceIsStale \/ Signal!AdvanceFails
  <2>1. evaluation' = Signal!Resume /\ UNCHANGED <<listing, stageRow, advances>>
    BY <1>2 DEF Signal!AdvanceIsStale, Signal!AdvanceFails
  <2>2. evaluation'.pc = "judge" \/ evaluation'.pc \notin {"judge", "done"}
    BY <1>1, <2>1, ResumeIs, RestOfSignal
  <2> QED BY <1>1, <2>1, <2>2, ResumeIs, GoesOn
<1>3. CASE Signal!Advance
  <2> DEFINE row == Signal!Confirm(Signal!Fresh(stageRow), evaluation.stages, evaluation.at)
             s == [at |-> evaluation.at, stages |-> evaluation.stages \ {"trigger"}]
             passed == "trigger" \in evaluation.stages /\ Signal!Complete(row)
  <2>1. /\ stageRow' = row /\ advances' = Append(advances, s)
        /\ evaluation' = [Signal!Resume EXCEPT !.chain =
             IF Signal!Prefiltered THEN @ ELSE IF passed THEN "passed" ELSE "open"]
        /\ stageRow.updated = Signal!Never \/ evaluation.at >= stageRow.updated
    BY <1>3 DEF Signal!Advance, Signal!InOrder
  <2>2. /\ RowTells(advances, stageRow)
        /\ evaluation.at \in 0..MaxTime /\ evaluation.stages \in SUBSET Signal!Stages
    BY <1>1 DEF SignalInv, Undecided
  <2>3. /\ RowTells(advances', stageRow')
        /\ passed <=> "trigger" \in evaluation.stages
                       /\ Signal!Chained(advances', Len(advances) + 1)
    BY <2>1, <2>2, RowAdvances
  <2>4. Len(advances') = Len(advances) + 1 /\ advances' # <<>>
    <3>1. s \in [at : 0..MaxTime, stages : SUBSET Signal!Stages] /\ advances \in Histories
      BY <2>2 DEF RowTells
    <3>2. Len(advances') = Len(advances) + 1 /\ Len(advances) \in Nat
      BY <2>1, <3>1, SnapshotAdded
    <3> QED BY <3>2
  <2> HIDE DEF row, s, passed
  <2>5. CASE Signal!Prefiltered
    <3>1. evaluation' = Signal!Rest
      BY <2>1, <2>5, ResumeIs, <1>1 DEF Signal!Rest
    <3>2. StrictIsEarned'
      BY <3>1, RestOfSignal DEF StrictIsEarned, Signal!StrictIsEarned
    <3>3. evaluation'.lifecycle \in 0..listing'.lifecycle
      BY <1>1, <3>1, RestOfSignal DEF SignalInv
    <3> QED BY <1>1, <2>3, <3>1, <3>2, <3>3, RestOfSignal DEF SignalInv
  <2>6. CASE ~Signal!Prefiltered
    <3>1. evaluation' = [Signal!Resume EXCEPT !.chain = IF passed THEN "passed" ELSE "open"]
      BY <2>1, <2>6, Zenon
    <3>2. /\ IsEvaluation(Signal!Resume) /\ Undecided(Signal!Resume)
          /\ Signal!Resume.pc = "judge" /\ Signal!Resume.lifecycle = evaluation.lifecycle
          /\ Signal!Resume.stages = evaluation.stages
      BY <1>1, <2>6, ResumeIs
    <3>3. /\ IsEvaluation(evaluation') /\ evaluation'.pc = "judge"
          /\ evaluation'.lifecycle = evaluation.lifecycle
          /\ evaluation'.stages = evaluation.stages
          /\ evaluation'.result = Signal!Resume.result
          /\ evaluation'.chain = IF passed THEN "passed" ELSE "open"
      BY <3>1, <3>2 DEF IsEvaluation
    <3>4. Undecided(evaluation') /\ evaluation'.result # "strict"
      BY <3>2, <3>3 DEF Undecided
    <3>5. StrictIsEarned'
      <4>1. passed <=> "trigger" \in evaluation'.stages /\ advances' # <<>>
                         /\ Signal!Chained(advances', Len(advances'))
        BY <2>3, <2>4, <3>3
      <4> QED BY <3>3, <3>4, <4>1 DEF StrictIsEarned, Signal!StrictIsEarned
    <3>6. evaluation'.lifecycle \in 0..listing'.lifecycle
      BY <1>1, <3>3 DEF SignalInv
    <3> QED BY <1>1, <2>3, <3>3, <3>4, <3>5, <3>6 DEF SignalInv
  <2> QED BY <2>5, <2>6
<1> QED BY <1>2, <1>3

LEMMA JudgeStep == ASSUME SignalInv, Signal!Judge PROVE SignalInv'
<1>1. /\ evaluation.pc = "judge" /\ UNCHANGED <<hour, listing, stageRow, advances>>
      /\ hour' \in 0..MaxTime /\ IsEvaluation(evaluation) /\ Undecided(evaluation)
  BY DEF Signal!Judge, SignalInv
<1>2. CASE evaluation' = Signal!Rest
  BY <1>1, <1>2, RestOfSignal, GoesOn
<1>3. ASSUME NEW p \in Signal!Facts, Signal!Current,
             evaluation' = [evaluation EXCEPT !.pc = "done", !.result = Signal!Profile(p)]
      PROVE  SignalInv'
  <2>1. /\ IsEvaluation(evaluation') /\ evaluation'.pc = "done"
        /\ evaluation'.lifecycle = evaluation.lifecycle
        /\ evaluation'.stages = evaluation.stages /\ evaluation'.chain = evaluation.chain
        /\ evaluation'.result = Signal!Profile(p)
    BY <1>1, <1>3 DEF IsEvaluation
  <2>2. Signal!Profile(p) = "strict" => evaluation.stages = Signal!Stages \/ evaluation.chain = "passed"
    BY DEF Signal!Profile, Signal!Strict
  <2>3. StrictIsEarned'
    BY <1>1, <1>3, <2>1, <2>2
    DEF SignalInv, StrictIsEarned, Signal!StrictIsEarned, Signal!Current
  <2>4. Undecided(evaluation')
    BY <1>1, <2>1 DEF Undecided
  <2> QED BY <1>1, <2>1, <2>3, <2>4 DEF SignalInv
<1> QED
  <2>1. \/ evaluation' = Signal!Rest
        \/ \E p \in Signal!Facts :
             /\ Signal!Current
             /\ evaluation' = [evaluation EXCEPT !.pc = "done", !.result = Signal!Profile(p)]
    <3>1. PICK v \in Signal!Verdicts :
            evaluation' = IF Signal!Current
                          THEN [evaluation EXCEPT !.pc = "done", !.result = v.profile]
                          ELSE Signal!Rest
      BY Zenon DEF Signal!Judge
    <3>2. PICK p \in Signal!Facts :
            v = [profile |-> Signal!Profile(p), watch |-> Signal!Status(p) = "WATCH"]
      BY DEF Signal!Verdicts
    <3>3. v.profile = Signal!Profile(p)
      BY <3>2
    <3> QED BY <3>1, <3>3, Zenon
  <2> QED BY <1>2, <1>3, <2>1

\* A lifecycle that ended takes its history with it, and the next has another number.
LEMMA ListingStep ==
  ASSUME SignalInv,
         \/ Signal!Tick \/ Signal!SetBack \/ Signal!Delist \/ Signal!Relist
         \/ UNCHANGED Signal!vars
  PROVE  SignalInv'
<1>1. UNCHANGED evaluation
  BY DEF Signal!Tick, Signal!SetBack, Signal!Delist, Signal!Relist, Signal!vars
<1>2. CASE UNCHANGED <<listing, stageRow, advances>> /\ hour' \in 0..MaxTime
  BY <1>1, <1>2 DEF SignalInv, StrictIsEarned, Signal!StrictIsEarned, Signal!Current
<1>3. CASE Signal!Tick \/ Signal!SetBack \/ UNCHANGED Signal!vars
  <2>1. hour \in Nat /\ hour <= MaxTime /\ MaxTime \in Nat
    BY LivesOfStages DEF SignalInv
  <2>2. hour' \in 0..MaxTime
    BY <1>3, <2>1 DEF Signal!Tick, Signal!SetBack, Signal!vars
  <2>3. UNCHANGED <<listing, stageRow, advances>>
    BY <1>3 DEF Signal!Tick, Signal!SetBack, Signal!vars
  <2> QED BY <1>2, <2>2, <2>3
<1>4. CASE Signal!Delist
  <2>1. /\ listing' = [listing EXCEPT !.eligible = FALSE]
        /\ stageRow' = Signal!NoRow /\ advances' = <<>> /\ hour' = hour
    BY <1>4 DEF Signal!Delist
  <2>2. listing' = [lifecycle |-> listing.lifecycle, eligible |-> FALSE]
    BY <2>1 DEF SignalInv
  <2>3. /\ listing'.lifecycle = listing.lifecycle /\ ~listing'.eligible
        /\ listing' = [lifecycle |-> listing'.lifecycle, eligible |-> listing'.eligible]
    BY <2>2
  <2>4. RowTells(advances', stageRow')
    BY <2>1, NothingTold
  <2>5. StrictIsEarned'
    BY <2>3 DEF StrictIsEarned, Signal!StrictIsEarned, Signal!Current
  <2> QED BY <1>1, <2>1, <2>3, <2>4, <2>5 DEF SignalInv
<1>5. CASE Signal!Relist
  <2>1. /\ listing' = [lifecycle |-> listing.lifecycle + 1, eligible |-> TRUE]
        /\ UNCHANGED <<hour, stageRow, advances>>
    BY <1>5 DEF Signal!Relist
  <2>2. /\ listing'.lifecycle = listing.lifecycle + 1
        /\ listing' = [lifecycle |-> listing'.lifecycle, eligible |-> listing'.eligible]
    BY <2>1
  <2>3. /\ listing'.lifecycle \in Nat /\ evaluation'.lifecycle \in 0..listing'.lifecycle
        /\ evaluation'.lifecycle # listing'.lifecycle
    BY <1>1, <2>2 DEF SignalInv
  <2>4. StrictIsEarned'
    BY <2>3 DEF StrictIsEarned, Signal!StrictIsEarned, Signal!Current
  <2> QED BY <1>1, <2>1, <2>2, <2>3, <2>4 DEF SignalInv
<1> QED BY <1>3, <1>4, <1>5

LEMMA SignalStep == SignalInv /\ [Signal!Next]_(Signal!vars) => SignalInv'
  BY BeforeStagesStep, AdvanceStep, JudgeStep, ListingStep
  DEF Signal!Next, Signal!NoHypeWhereLastSeen, Signal!NoHypeAnywhere, Signal!NoPriceOrBook,
      Signal!NoFreshEvidence, Signal!CandlesIncomplete

-----------------------------------------------------------------------------

LEMMA GateMoves == [Next]_vars => [Gate!Next]_(Gate!vars)
  BY DEF Next, InPipeline, InRelease, InSchema, InSignal, InVenue, InMission, InMirror,
         InSettlement, InGate, InCertificate, vars, gateVars, Gate!vars

LEMMA CertMoves == [Next]_vars => [Certification!Next]_(Certification!certVars)
  BY DEF Next, InPipeline, InRelease, InSchema, InSignal, InVenue, InMission, InMirror,
         InSettlement, InGate, InCertificate, vars, certVars, Certification!certVars

LEMMA VenueMoves == [Next]_vars => [Venue!Next]_(Venue!vars)
  BY DEF Next, InPipeline, InRelease, InSchema, InSignal, InVenue, InMission, InMirror,
         InSettlement, InGate, InCertificate, vars, venueVars, Venue!vars

LEMMA SettlementMoves == [Next]_vars => [Settlement!Next]_(Settlement!vars)
  BY DEF Next, InPipeline, InRelease, InSchema, InSignal, InVenue, InMission, InMirror,
         InSettlement, InGate, InCertificate, vars, settlementVars, Settlement!vars

LEMMA SignalMoves == [Next]_vars => [Signal!Next]_(Signal!vars)
  BY DEF Next, InPipeline, InRelease, InSchema, InSignal, InVenue, InMission, InMirror,
         InSettlement, InGate, InCertificate, vars, signalVars, Signal!vars

\* A deployment starts only from a backup that is not too old, was restored on another
\* host and was whole less than the life of a report ago, with the migration rehearsed;
\* and a report that an owner may approve is, while it is valid, about an image that CI
\* tested, that soaked and was ready just now, and about a recent copy
\* (evaluate_release_recovery_gate, evaluate_deployment_certification).
THEOREM StartsAreRecoverable == Spec => StartsRecoverable
<1>1. Init => GateInv /\ CertInv
  BY GateInitially, CertInitially DEF Init
<1>2. GateInv /\ [Next]_vars => GateInv'
  BY GateStep, GateMoves
<1>3. CertInv /\ [Next]_vars => CertInv'
  BY CertStep, CertMoves
<1>4. GateInv /\ [Next]_vars => [StartIsRecoverable]_(Gate!vars)
  BY StartStep, GateMoves
<1>5. CertInv => Certification!CertifiedIsCurrent
  <2> SUFFICES ASSUME CertInv PROVE Certification!CertifiedIsCurrent
    OBVIOUS
  <2>1. clock <= approval.until => approval.until # -1
    BY DEF CertInv, TimesAreNumbers
  <2> QED
    BY <2>1, LivesOfDocuments
    DEF CertInv, TimesAreNumbers, ApprovalIsBounded, Certification!CertifiedIsCurrent
<1>6. [][StartIsRecoverable]_(Gate!vars) => Gate!StartsRecoverable
  BY PTL DEF StartIsRecoverable, Gate!StartsRecoverable
<1>7. CertInv' => Certification!CertifiedIsCurrent'
  BY <1>5, PTL
<1> QED
  BY <1>1, <1>2, <1>3, <1>4, <1>5, <1>6, <1>7, PTL DEF Spec, StartsRecoverable

\* Whatever the order and the length of its requests, the evidence of a finished analysis
\* is of one contract, confirmed by another exchange, fresh when it was accepted, of closed
\* bars only, and with a benchmark of its own time (multi_exchange_validator.py:1175-1561
\* and 1862-2320, microstructure.py:140-279).
THEOREM EvidenceIsOfOneMoment == Spec => []EvidenceBelongsTogether
<1>1. Init => VenueInv
  BY VenueInitially DEF Init
<1>2. VenueInv /\ [Next]_vars => VenueInv'
  BY VenueStep, VenueMoves
<1>3. VenueInv => EvidenceBelongsTogether
  <2> SUFFICES ASSUME VenueInv, analysis.pc = "done" PROVE Venue!EvidenceBelongsTogether
    BY DEF EvidenceBelongsTogether, Venue!EvidenceBelongsTogether, Venue!At
  <2>1. /\ analysis.pc \in FromBook /\ analysis.pc \in FromConfirm /\ analysis.pc \in FromCandles
        /\ analysis.pc \in FromLookUp /\ analysis.pc \in FromContext
    BY DEF FromBook, FromConfirm, FromCandles, FromLookUp, FromContext
  <2>2. analysis.venue # 0
    BY <2>1 DEF VenueInv, OfOneContract, IsOfContract, Venue!Chain
  <2>3. \A v \in Venue!Sources : contracts[v] = analysis.reference
    BY <2>1 DEF VenueInv, OfOneContract, IsOfContract, Venue!Sources
  <2>4. analysis.confirmation # analysis.venue
    BY <2>2 DEF VenueInv, OfOneContract
  <2> QED
    BY <2>1, <2>3, <2>4 DEF VenueInv, OfItsTime, Venue!EvidenceBelongsTogether
<1> QED BY <1>1, <1>2, <1>3, PTL DEF Spec

\* Whatever candles the venue delivers and whenever they are read after their delay, what
\* is said for good of a signal agrees with the order of the trades after it (settle_once,
\* _resolve_entry_outcome, outcome_details).
THEOREM OutcomesAreTrue == Spec => []OutcomeIsTrue
<1>1. Init => SettlementInv
  BY SettlementInitially DEF Init
<1>2. SettlementInv /\ [Next]_vars => SettlementInv'
  BY SettlementStep, SettlementMoves
<1>3. SettlementInv => OutcomeIsTrue
  BY DEF SettlementInv
<1> QED BY <1>1, <1>2, <1>3, PTL DEF Spec

\* A strict signal rests on the whole chain of stages, in the candles of one moment or
\* confirmed in order within the lifecycle of the listing with none lapsing before the
\* next, for any lifetimes, delays of an advance, clocks that go back and new listings
\* (StageLifecycleStore.advance, cross_check_symbol).
THEOREM StrictSignalsAreEarned == Spec => []StrictIsEarned
<1>1. Init => SignalInv
  BY SignalInitially DEF Init
<1>2. SignalInv /\ [Next]_vars => SignalInv'
  BY SignalStep, SignalMoves
<1>3. SignalInv => StrictIsEarned
  BY DEF SignalInv
<1> QED BY <1>1, <1>2, <1>3, PTL DEF Spec
=============================================================================
