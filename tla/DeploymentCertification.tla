----------------------- MODULE DeploymentCertification -----------------------
(***************************************************************************)
(* What an owner is asked to approve: a packet of documents about one       *)
(* revision that evaluate_deployment_certification found complete, and the  *)
(* report that says so for a while.  The documents: a copy of the database  *)
(* on another device (certify_sqlite_backup.py), a rehearsal of migration   *)
(* and rollback on it, the CI run that tested an image, the provenance of   *)
(* that image, and what a staging shadow that runs it was seen to do.       *)
(*                                                                         *)
(* Documents are sealed by hashes, so an altered one is no document here;   *)
(* any that exist may be put into one packet.  CI, the staging host and the *)
(* operator are external.                                                  *)
(***************************************************************************)
EXTENDS Integers, Sequences, FiniteSets

CONSTANTS
  RevisionOf,    \* revision that each build is of, a sequence
  Tested,        \* builds that a run of CI made and tested; the others were made elsewhere
  CopyAge,       \* MAXIMUM_BACKUP_AGE_SECONDS
  BirthSkew,     \* MAXIMUM_BACKUP_START_BIRTHTIME_SKEW_SECONDS
  SoakTime,      \* MINIMUM_SHADOW_SOAK_SECONDS
  ReadinessAge,  \* MAXIMUM_READINESS_AGE_SECONDS
  Validity,      \* MAXIMUM_REPORT_VALIDITY_SECONDS
  MaxCopies, MaxClock    \* bounds

VARIABLES
  clock,
  copy,        \* the last attempt: [number, stage, began, born, made]
  staging,     \* [build, since, troubled], the shadow that runs now
  soak, seen,  \* the last documents about the shadow
  rehearsal,   \* the last one: <<number of the copy, revision>>
  report       \* a report that is READY_FOR_EXPLICIT_OWNER_APPROVAL, and its packet

certVars == <<clock, copy, staging, soak, seen, rehearsal, report>>
files    == <<copy, rehearsal>>
shadow   == <<staging, soak, seen>>

Builds    == DOMAIN RevisionOf
BuiltRevisions == {RevisionOf[b] : b \in Builds}
Copies    == 1..MaxCopies

NoCopy   == [number |-> 0, stage |-> "none", began |-> 0, born |-> 0, made |-> 0]
Unsoaked == [build |-> 0, lasted |-> 0, clean |-> FALSE]
Unseen   == [build |-> 0, at |-> 0, ready |-> FALSE]
NoReport ==
  [revision |-> 0, build |-> 0, copy |-> NoCopy, rehearsal |-> <<0, 0>>,
   soak |-> Unsoaked, seen |-> Unseen, until |-> -1]
Nothing == [build |-> 0, since |-> 0, troubled |-> FALSE]

Init ==
  /\ clock = 0 /\ copy = NoCopy /\ rehearsal = <<0, 0>> /\ report = NoReport
  /\ staging = Nothing /\ soak = Unsoaked /\ seen = Unseen

-----------------------------------------------------------------------------
(* certify_sqlite_backup.py: create_certified_backup *)

\* The partial file is created right after the start is noted.  Both targets are
\* new: another attempt leaves the files of an earlier one, of which a packet could
\* still speak, alone.
Begin ==
  /\ copy.number + 1 \in Copies /\ copy.stage \notin {"copying", "copied"}
  /\ copy' = [number |-> copy.number + 1, stage |-> "copying",
              began |-> clock, born |-> clock, made |-> 0]
  /\ UNCHANGED <<clock, rehearsal, shadow, report>>

Fail == copy' = [NoCopy EXCEPT !.number = copy.number]

\* _online_backup; it fails, too, when the source is another file by its end.
Finish ==
  /\ copy.stage = "copying"
  /\ Fail \/ copy' = [copy EXCEPT !.stage = "copied", !.made = clock]
  /\ UNCHANGED <<clock, rehearsal, shadow, report>>

\* audit_sqlite_snapshot: what was restored from the copy has the same rows and
\* schema, or it has not.
Audits == BOOLEAN

\* The audits, and _write_report_atomic, which replaces no document
Certify ==
  /\ copy.stage = "copied"
  /\ \E same \in Audits :
       IF same THEN copy' = [copy EXCEPT !.stage = "certified"] ELSE Fail
  /\ UNCHANGED <<clock, rehearsal, shadow, report>>

\* rehearse_migration_and_rollback, on clones of the certified copy
Rehearse(r) ==
  /\ copy.stage = "certified"
  /\ rehearsal' = <<copy.number, r>>
  /\ UNCHANGED <<clock, copy, shadow, report>>

\* The copy is changed or removed, or put at its path again later (external).
Spoil ==
  /\ copy.stage = "certified"
  /\ \/ Fail
     \/ copy.born # clock /\ copy' = [copy EXCEPT !.born = clock]
  /\ UNCHANGED <<clock, rehearsal, shadow, report>>

-----------------------------------------------------------------------------
(* The staging shadow (external) *)

Stage(b) ==
  /\ staging' = [build |-> b, since |-> clock, troubled |-> FALSE]
  /\ UNCHANGED <<clock, files, soak, seen, report>>

\* An OOM, a schema error, too many failed requests or a probe that fails
Trouble ==
  /\ staging.build # 0 /\ staging' = [staging EXCEPT !.troubled = TRUE]
  /\ UNCHANGED <<clock, files, soak, seen, report>>

\* ShadowSoakEvidence: the end is after the start.
WriteSoak ==
  /\ staging.build # 0 /\ clock > staging.since
  /\ soak' = [build |-> staging.build, lasted |-> clock - staging.since,
              clean |-> ~staging.troubled]
  /\ UNCHANGED <<clock, files, staging, seen, report>>

\* ReadinessEvidence: what the probes say now
Observe ==
  /\ staging.build # 0
  /\ seen' = [build |-> staging.build, at |-> clock, ready |-> ~staging.troubled]
  /\ UNCHANGED <<clock, files, staging, soak, report>>

Tick ==
  /\ clock < MaxClock /\ clock' = clock + 1
  /\ UNCHANGED <<files, shadow, report>>

-----------------------------------------------------------------------------
(* evaluate_deployment_certification *)

\* A packet names a revision and the images that were built, were tested and run in
\* the shadow; with it go a CI run, by the build it tested, and the last of each other
\* kind of document.
Packets ==
  [revision : BuiltRevisions, built : Builds, tested : Builds, running : Builds, run : Tested]

\* evaluate_deployment_provenance
Provenance(p) == p.tested = p.built /\ p.running = p.built

\* _verification_reasons, of what resolve_github_ci_verification found
Verified(p) == p.run = p.tested /\ RevisionOf[p.run] = p.revision

\* _complete_backup_contract_valid and _backup_artifact_revalidation_reasons
Intact == copy.stage = "certified"

Distance(m, n) == IF m < n THEN n - m ELSE m - n

\* Mutant of Fresh: the copy's own word for its age
FreshByItsWord == clock - copy.made <= CopyAge

\* _filesystem_birthtime_epoch
BirthTime == copy.born

\* _backup_freshness_reasons: the birth time of the file stands beside its own word.
Fresh ==
  /\ Distance(copy.began, BirthTime) <= BirthSkew /\ copy.made >= BirthTime
  /\ clock - copy.made <= CopyAge /\ clock - BirthTime <= CopyAge

\* _rehearsal_reasons: always asked for, of this copy and revision
Rehearsed(p) == rehearsal = <<copy.number, p.revision>>

\* _runtime_reasons, of either document
Ready(p)  == seen.build = p.running /\ seen.ready /\ clock - seen.at <= ReadinessAge
Soaked(p) == soak.build = p.built /\ soak.clean /\ soak.lasted >= SoakTime

\* No blocking reasons
Complete(p) ==
  /\ Provenance(p) /\ Verified(p)
  /\ Intact /\ Fresh /\ Rehearsed(p)
  /\ Ready(p) /\ Soaked(p)

Least(m, n) == IF m < n THEN m ELSE n

\* Mutant of ValidUntil: the age of the readiness document does not count.
ValidUntilLater(p) == Least(clock + Validity, copy.made + CopyAge)

\* validity_deadlines
ValidUntil(p) ==
  Least(clock + Validity,
        Least(seen.at + ReadinessAge, copy.made + CopyAge))

\* Any other packet gets a report that is NOT_READY, which approves nothing.  One
\* report is followed (a bound): each is a file of its own and stays as it is.
Evaluate(p) ==
  /\ report = NoReport /\ Complete(p)
  /\ report' = [revision |-> p.revision, build |-> p.built, copy |-> copy,
                rehearsal |-> rehearsal, soak |-> soak, seen |-> seen, until |-> ValidUntil(p)]
  /\ UNCHANGED <<clock, files, shadow>>

-----------------------------------------------------------------------------
Next ==
  \/ Begin \/ Finish \/ Certify \/ Spoil
  \/ \E r \in BuiltRevisions : Rehearse(r)
  \/ \E b \in Builds : Stage(b)
  \/ Trouble \/ WriteSoak \/ Observe \/ Tick
  \/ \E p \in Packets : Evaluate(p)

Spec == Init /\ [][Next]_certVars

-----------------------------------------------------------------------------
(* Properties *)

\* While a report is valid, the image it is about was tested for its revision, has
\* soaked without trouble and was ready not long ago; its copy of the database was
\* finished at most the age of a backup ago, and begun at most the birth skew and
\* the life of a report before that; and the revision's migration was rehearsed on
\* that very copy (the deadlines of evaluate_deployment_certification).
CertifiedIsCurrent ==
  clock <= report.until =>
    /\ report.build \in Tested /\ RevisionOf[report.build] = report.revision
    /\ {report.soak.build, report.seen.build} = {report.build}
    /\ report.soak.clean /\ report.soak.lasted >= SoakTime
    /\ report.seen.ready /\ clock - report.seen.at <= ReadinessAge
    /\ clock - report.copy.made <= CopyAge
    /\ clock - report.copy.began <= CopyAge + BirthSkew + Validity
    /\ report.rehearsal = <<report.copy.number, report.revision>>

=============================================================================
