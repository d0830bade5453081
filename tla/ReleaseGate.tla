----------------------------- MODULE ReleaseGate -----------------------------
(***************************************************************************)
(* What has to be shown before a release may be dispatched: an encrypted    *)
(* backup outside the host (certify_remote_sqlite_backup.py), restored by   *)
(* a workflow of another repository, a rehearsed migration where one is     *)
(* needed, and tests (deployment_certification.py, evaluate_release_        *)
(* recovery_gate).  The report is read again by wfh-production-deploy.      *)
(*                                                                         *)
(* Documents are sealed by hashes and identities of what they speak of, so  *)
(* an altered one is no document here.  Operators call the tools when and   *)
(* with what they like (external), each from a checkout of the revision it  *)
(* is asked about, as the runbook says.                                    *)
(***************************************************************************)
EXTENDS Integers, Sequences, FiniteSets

CONSTANTS
  SchemaOf,       \* schema version of each revision, a sequence
  BackupAge,      \* MAXIMUM_BACKUP_AGE_SECONDS
  PublishSkew,    \* MAXIMUM_REMOTE_BACKUP_PUBLISH_SKEW_SECONDS
  ReportValidity, \* MAXIMUM_REPORT_VALIDITY_SECONDS
  MinRemaining,   \* what the wrapper wants left of it
  MaxBackups, MaxDays    \* bounds

VARIABLES
  day,
  main,           \* the revision at the head of main; its CI is taken to have succeeded
  version,        \* schema version of the live database
  backup,         \* of each attempt at a backup: [stage, made, version, published]
  lost,           \* of each backup: the first part of what it rests on to go, and when
  restored,       \* backups that the independent workflow has restored
  rehearsed,      \* <<backup, revision>>
  report,         \* the report in the state directory: [backup, revision, until]
  deploying       \* [revision, from] of the deployment under way

vars == <<day, main, version, backup, lost, restored, rehearsed, report, deploying>>
world == <<main, version, deploying>>

Backups   == 1..MaxBackups
Releases == DOMAIN SchemaOf
Parts     == {"source", "release", "copy"}   \* database file, assets, restored copy
Kept      == [part |-> "none", at |-> MaxDays + 1]
NoBackup  == [stage |-> "none", made |-> 0, version |-> 0, published |-> 0]
Failed    == [NoBackup EXCEPT !.stage = "failed"]
NoReport  == [backup |-> 0, revision |-> 0, until |-> 0]
Idle      == [revision |-> 0, from |-> 0]

Init ==
  /\ day = 0 /\ main = 1 /\ version = SchemaOf[1]
  /\ backup = [k \in Backups |-> NoBackup] /\ lost = [k \in Backups |-> Kept]
  /\ restored = {} /\ rehearsed = {} /\ report = NoReport /\ deploying = Idle

-----------------------------------------------------------------------------
(* certify_remote_sqlite_backup.py *)

\* encrypt_sqlite_backup_bundle: the copy of this moment, in encrypted chunks.
Bundle == [stage |-> "staged", made |-> day, version |-> version, published |-> 0]

\* _prepare_encrypted_snapshot
Snapshot(k) ==
  /\ backup[k] = NoBackup /\ \A j \in 1..(k - 1) : backup[j] # NoBackup
  /\ backup' = [backup EXCEPT ![k] = Bundle]
  /\ UNCHANGED <<day, world, lost, restored, rehearsed, report>>

Fail(k) == backup' = [backup EXCEPT ![k] = Failed]

\* _publish_release_assets: a draft that cannot be filled is removed, one whose
\* publication has no answer is left as it is, and the attempt is over.
Publish(k) ==
  /\ backup[k].stage = "staged"
  /\ \/ backup' = [backup EXCEPT ![k].stage = "public", ![k].published = day]
     \/ Fail(k)
  /\ UNCHANGED <<day, world, lost, restored, rehearsed, report>>

Has(k, part) == lost[k].part # part

\* _gh_json: GitHub answers the tools, or they give up.
Answers == BOOLEAN

\* resolve_github_release_backup_verification: every asset, by id, size and digest,
\* in a release that can no longer be changed.
Verified(k) == Has(k, "release")

\* restore_sqlite_backup_bundle: every chunk has the hash that was written down.
Restorable(k) == Has(k, "release")

\* build_remote_backup_certification: what was restored is the copy that was
\* encrypted, and the source is still the same file.
Sealable(k) == Has(k, "source")

\* _verify_published_remote, _redownload_and_restore, then the certificate
Seal(k) ==
  /\ backup[k].stage = "public"
  /\ \E answered \in Answers :
       IF answered /\ Verified(k) /\ Restorable(k) /\ Sealable(k)
       THEN backup' = [backup EXCEPT ![k].stage = "sealed"] ELSE Fail(k)
  /\ UNCHANGED <<day, world, lost, restored, rehearsed, report>>

\* The stages at which a backup rests on that part
RestsOn(part) ==
  CASE part = "source"  -> {"staged", "public", "sealed"}
    [] part = "release" -> {"public", "sealed"}
    [] part = "copy"    -> {"sealed"}

\* The database is replaced by another file, a release deleted or a local copy
\* changed (external).  What goes later could only forbid more, and something goes
\* once (a bound).
NothingLost   == \A k \in Backups : lost[k] = Kept
Exposed(part) == {k \in Backups : backup[k].stage \in RestsOn(part)}
Lose(part, K) ==
  /\ NothingLost /\ K # {} /\ K \subseteq Exposed(part)
  /\ IF part = "source" THEN K = Exposed(part) ELSE Cardinality(K) = 1
  /\ lost' = [k \in Backups |->
                 IF k \in K THEN [part |-> part, at |-> day] ELSE lost[k]]
  /\ UNCHANGED <<day, world, backup, restored, rehearsed, report>>

-----------------------------------------------------------------------------
(* Evidence *)

\* resolve_github_independent_restore_verification: a run that restored this
\* plaintext from this release; it finds what was published.
IndependentRestore(k) ==
  /\ backup[k].stage \in {"public", "sealed"} /\ Restorable(k)
  /\ restored' = restored \cup {k}
  /\ UNCHANGED <<day, world, backup, lost, rehearsed, report>>

\* _complete_remote_backup_contract_valid
Certified(k) == backup[k].stage = "sealed"

\* rehearse_migration_and_rollback and its sequential form: on the certified copy.
Rehearse(k, r) ==
  /\ Certified(k) /\ Has(k, "copy") /\ SchemaOf[r] # backup[k].version
  /\ rehearsed' = rehearsed \cup {<<k, r>>}
  /\ UNCHANGED <<day, world, backup, lost, restored, report>>

-----------------------------------------------------------------------------
(* evaluate_release_recovery_gate *)

\* _remote_backup_freshness_reasons
Fresh(b) ==
  /\ b.published >= b.made /\ b.published - b.made <= PublishSkew
  /\ day - b.made <= BackupAge /\ day - b.published <= BackupAge

\* _rehearsal_reasons, asked for when the snapshot has another schema
MigrationRehearsed(k, r) == SchemaOf[r] # backup[k].version => <<k, r>> \in rehearsed

\* _backup_artifact_revalidation_reasons, _release_gate_live_database_identity_reasons
Untouched(k) == Has(k, "copy") /\ Verified(k) /\ Has(k, "source")

\* _independent_remote_restore_reasons
RestoredElsewhere(k) == k \in restored

\* resolve_github_ci_verification
Tested(r) == main = r

\* _release_gate_reasons: none
Ready(k, r) ==
  /\ Certified(k) /\ Fresh(backup[k]) /\ Untouched(k) /\ RestoredElsewhere(k)
  /\ MigrationRehearsed(k, r) /\ Tested(r)

\* Mutant of ValidUntil: the age of the backup does not count.
ValidUntilReport(k) == day + ReportValidity

\* _release_gate_valid_until
ValidUntil(k) ==
  IF backup[k].made + BackupAge < day + ReportValidity
  THEN backup[k].made + BackupAge ELSE day + ReportValidity

\* A report that is not ready is as good as none.
Evaluate(k, r) ==
  /\ backup[k] # NoBackup
  /\ \E answered \in Answers :
       report' = IF answered /\ Ready(k, r)
                 THEN [backup |-> k, revision |-> r, until |-> ValidUntil(k)]
                 ELSE NoReport
  /\ UNCHANGED <<day, world, backup, lost, restored, rehearsed>>

-----------------------------------------------------------------------------
(* wfh-production-deploy and the deployment that it starts *)

\* verify_current_dispatch_ci and the checkout
StillMain(r) == r = main

Dispatch(r) ==
  /\ deploying = Idle /\ StillMain(r)
  /\ report.revision = r /\ report.until - day >= MinRemaining
  /\ deploying' = [revision |-> r, from |-> version]
  /\ UNCHANGED <<day, main, version, backup, lost, restored, rehearsed, report>>

\* The migration, on the live file; a rollback puts the rows back into it.
MigrateLive ==
  /\ deploying # Idle /\ version' = SchemaOf[deploying.revision]
  /\ UNCHANGED <<day, main, backup, lost, restored, rehearsed, report, deploying>>

EndDeployment ==
  /\ deploying # Idle /\ deploying' = Idle
  /\ version' \in {SchemaOf[deploying.revision], deploying.from}
  /\ UNCHANGED <<day, main, backup, lost, restored, rehearsed, report>>

Merge ==
  /\ main + 1 \in Releases /\ main' = main + 1
  /\ UNCHANGED <<day, version, backup, lost, restored, rehearsed, report, deploying>>

NextDay ==
  /\ day < MaxDays /\ day' = day + 1
  /\ UNCHANGED <<world, backup, lost, restored, rehearsed, report>>

Next ==
  \/ \E k \in Backups :
       \/ Snapshot(k) \/ Publish(k) \/ Seal(k) \/ IndependentRestore(k)
       \/ \E r \in Releases : Rehearse(k, r) \/ Evaluate(k, r)
  \/ \E part \in Parts, K \in SUBSET Backups : Lose(part, K)
  \/ \E r \in Releases : Dispatch(r)
  \/ MigrateLive \/ EndDeployment \/ Merge \/ NextDay

Spec == Init /\ [][Next]_vars

-----------------------------------------------------------------------------
(* Properties *)

\* When a deployment starts there is a backup, not too old, that another host has
\* restored, whose evidence was whole at most the life of a report ago; and if the
\* live database is going to be migrated, by this very revision's code and from the
\* schema of that backup or a later one, the migration was rehearsed on it
\* (evaluate_release_recovery_gate, then the wrapper a day later).
StartsRecoverable ==
  [][deploying = Idle /\ deploying' # Idle =>
       \E k \in Backups :
         /\ k \in restored /\ day - backup[k].made <= BackupAge
         /\ lost[k] # Kept => day - lost[k].at <= ReportValidity - MinRemaining
         /\ SchemaOf[deploying'.revision] # version /\ version >= backup[k].version =>
              <<k, deploying'.revision>> \in rehearsed]_vars

=============================================================================
