--------------------------- MODULE ReleasePipeline ---------------------------
(***************************************************************************)
(* A production deployment: deploy/self-hosted/wfh-production-deploy, then  *)
(* scripts/deploy_production.sh, beside the health timer of the host.      *)
(*                                                                         *)
(* Revision r comes with a migration to schema r.  A step of the script may *)
(* fail, and a signal may arrive between two steps: the script then rolls  *)
(* back what it knows it may have changed, in the order of its cleanup.    *)
(* Whatever happens, only one deployment runs at a time (flock).           *)
(***************************************************************************)
EXTENDS Naturals, FiniteSets

CONSTANTS
  Revisions,     \* the later ones; 1 runs initially, 0 is none
  Keep,          \* WFH_DEPLOY_BACKUP_RETENTION_COUNT
  MaxDeploys     \* bound

VARIABLES
  rt,            \* the release containers: [rev, up], rev 0 when removed
  schema,        \* of the database
  host,          \* [override, files, active]: image override, unit and site
                 \* files, and whether the service and the timer are active
  origin,        \* remote of the production checkout
  backups,       \* of the database: [id, schema]
  certificate,   \* last-successful-deploy.txt: [rev, backup], or Blank
  script,        \* the deployment: pc and the variables of the script
  deploys

vars == <<rt, schema, host, origin, backups, certificate, script, deploys>>

Removed == [rev |-> 0, up |-> FALSE]
Running(rev) == [rev |-> rev, up |-> TRUE]
Stopped == [rt EXCEPT !.up = FALSE]
Blank   == [rev |-> 0, backup |-> 0]
Gone    == [override |-> 0, files |-> 0, active |-> FALSE]

\* What a deployment finds.
Found == [rt |-> rt, schema |-> schema, host |-> host, origin |-> origin]

Init ==
  /\ rt = Running(1) /\ schema = 1
  /\ host = [override |-> 1, files |-> 1, active |-> TRUE]
  /\ origin \in {"legacy", "canonical"}
  /\ backups = {} /\ certificate = Blank
  /\ script = [pc |-> "idle", target |-> 0, prev |-> 0, mutated |-> FALSE,
               saved |-> Gone, hostMutated |-> FALSE, backup |-> 0,
               outcome |-> "none", found |-> Found]
  /\ deploys = 0

Goto(pc) == script' = [script EXCEPT !.pc = pc]

-----------------------------------------------------------------------------
(* The wrapper and the steps that change nothing in production. *)

\* The report, the run, the manifest and the bundle must be of the tip of main:
\* otherwise nothing is changed.
Refuse ==
  /\ script.pc = "idle"
  /\ UNCHANGED vars

\* The origin is switched, the bundle staged, and the script starts.
Dispatch(target) ==
  /\ script.pc = "idle" /\ deploys < MaxDeploys
  /\ deploys' = deploys + 1
  /\ origin' = "canonical"
  /\ script' = [pc |-> "resolve", target |-> target, prev |-> 0, mutated |-> FALSE,
                saved |-> Gone, hostMutated |-> FALSE, backup |-> 0,
                outcome |-> "none", found |-> Found]
  /\ UNCHANGED <<rt, schema, host, backups, certificate>>

\* resolve_previous_revision, pin_previous_running_images: the revision of the
\* containers, running or not.  Without containers nothing can be pinned.
Resolve ==
  /\ script.pc = "resolve" /\ rt.rev # 0
  /\ script' = [script EXCEPT !.pc = "load", !.prev = rt.rev]
  /\ UNCHANGED <<rt, schema, host, origin, backups, certificate, deploys>>

Load ==
  /\ script.pc = "load" /\ Goto("backup")
  /\ UNCHANGED <<rt, schema, host, origin, backups, certificate, deploys>>

\* backup_database, under the running backend.
Backup ==
  /\ script.pc = "backup"
  /\ backups' = backups \cup {[id |-> deploys, schema |-> schema]}
  /\ script' = [script EXCEPT !.pc = "preflight", !.backup = deploys]
  /\ UNCHANGED <<rt, schema, host, origin, certificate, deploys>>

\* migrate_database --preflight: a revision refuses a schema it does not know.
Accepts(rev) == schema <= rev

Preflight ==
  /\ script.pc = "preflight" /\ Accepts(script.target) /\ Goto("apply")
  /\ UNCHANGED <<rt, schema, host, origin, backups, certificate, deploys>>

-----------------------------------------------------------------------------
(* The steps that change production. *)

\* Mutant of Migrate: the mark is set when the migration has succeeded.
MigrateThenMark ==
  /\ script.pc = "apply"
  /\ \/ /\ schema' = script.target
        /\ script' = [script EXCEPT !.pc = "replace", !.mutated = TRUE]
     \/ /\ schema' \in {schema, script.target}
        /\ Goto("cleanup")
  /\ UNCHANGED <<rt, host, origin, backups, certificate, deploys>>

\* The database may have changed even when the command fails.
Migrate ==
  /\ script.pc = "apply"
  /\ \/ /\ schema' = script.target
        /\ script' = [script EXCEPT !.pc = "replace", !.mutated = TRUE]
     \/ /\ schema' \in {schema, script.target}
        /\ script' = [script EXCEPT !.pc = "cleanup", !.mutated = TRUE]
  /\ UNCHANGED <<rt, host, origin, backups, certificate, deploys>>

\* remove_release_containers_before_compose_handoff
Remove ==
  /\ script.pc = "replace" /\ Goto("up") /\ rt' = Removed
  /\ UNCHANGED <<schema, host, origin, backups, certificate, deploys>>

Up ==
  /\ script.pc = "up" /\ Goto("verify") /\ rt' = Running(script.target)
  /\ UNCHANGED <<schema, host, origin, backups, certificate, deploys>>

Healthy(rev) == rt = Running(rev) /\ schema = rev

\* Endpoints, containers, monitoring and revisions; then
\* snapshot_host_integration_state.
VerifyAndSnapshot ==
  /\ script.pc = "verify" /\ Healthy(script.target)
  /\ script' = [script EXCEPT !.pc = "promote", !.saved = host]
  /\ UNCHANGED <<rt, schema, host, origin, backups, certificate, deploys>>

\* promote_target_image_override
Promote ==
  /\ script.pc = "promote"
  /\ host' = [host EXCEPT !.override = script.target]
  /\ script' = [script EXCEPT !.pc = "install", !.hostMutated = TRUE]
  /\ UNCHANGED <<rt, schema, origin, backups, certificate, deploys>>

\* install_systemd_units, install_nginx_site, verify_public_edge
Install ==
  /\ script.pc = "install" /\ Goto("activate")
  /\ host' = [host EXCEPT !.files = script.target]
  /\ UNCHANGED <<rt, schema, origin, backups, certificate, deploys>>

\* activate_systemd_units: a start of the service is `compose up'.
Activate ==
  /\ script.pc = "activate" /\ Goto("prune")
  /\ host' = [host EXCEPT !.active = TRUE]
  /\ rt' = IF host.active THEN rt ELSE Running(host.override)
  /\ UNCHANGED <<schema, origin, backups, certificate, deploys>>

\* Mutant of Kept: the certificate is not looked at.
KeptNewest(b) == Cardinality({c \in backups : c.id > b.id}) < Keep

\* prune_database_backups: the newest, and the one that the certificate names.
Kept(b) ==
  \/ Cardinality({c \in backups : c.id > b.id}) < Keep
  \/ b.id = certificate.backup

Prune ==
  /\ script.pc = "prune" /\ Goto("certify")
  /\ backups' = {b \in backups : Kept(b)}
  /\ UNCHANGED <<rt, schema, host, origin, certificate, deploys>>

\* last-successful-deploy.txt is truncated, then written.
Certify ==
  /\ script.pc = "certify"
  /\ \/ /\ certificate' = [rev |-> script.target, backup |-> script.backup]
        /\ Goto("discard")
     \/ certificate' = Blank /\ Goto("cleanup")
  /\ UNCHANGED <<rt, schema, host, origin, backups, deploys>>

\* The snapshot of the host is removed; the traps are still set.
Discard ==
  /\ script.pc = "discard"
  /\ script' = [script EXCEPT !.pc = "finish", !.saved = Gone]
  /\ UNCHANGED <<rt, schema, host, origin, backups, certificate, deploys>>

Finish ==
  /\ script.pc = "finish"
  /\ script' = [script EXCEPT !.pc = "idle", !.outcome = "certified"]
  /\ UNCHANGED <<rt, schema, host, origin, backups, certificate, deploys>>

-----------------------------------------------------------------------------
(* terminate_with_cleanup. *)

\* A step fails or a signal arrives.  Before the rollback images are pinned the
\* cleanup itself fails at once, and has nothing to undo.
Fail ==
  /\ script.pc \in {"resolve", "load", "backup", "preflight", "replace", "up", "verify",
                    "promote", "install", "activate", "prune", "certify", "discard", "finish"}
  /\ Goto(IF script.prev = 0 THEN "exit" ELSE "cleanup")
  /\ UNCHANGED <<rt, schema, host, origin, backups, certificate, deploys>>

\* Nothing was mutated: the workspace goes back.  Otherwise the services are
\* stopped for rollback_previous_revision.
Cleanup ==
  /\ script.pc = "cleanup"
  /\ IF script.mutated
     THEN rt' = Stopped /\ Goto("restore")
     ELSE UNCHANGED rt /\ script' = [script EXCEPT !.pc = "host", !.outcome = "undone"]
  /\ UNCHANGED <<schema, host, origin, backups, certificate, deploys>>

\* restore_database_backup
Restore ==
  /\ script.pc = "restore"
  /\ \E b \in backups : b.id = script.backup /\ schema' = b.schema
  /\ Goto("accept")
  /\ UNCHANGED <<rt, host, origin, backups, certificate, deploys>>

\* The restore failed, or the previous revision refuses the schema: the services
\* stay stopped.
Quarantine ==
  /\ script.pc \in {"restore", "accept"}
  /\ rt' = Stopped
  /\ script' = [script EXCEPT !.pc = "host", !.outcome = "quarantined"]
  /\ UNCHANGED <<schema, host, origin, backups, certificate, deploys>>

\* previous_revision_accepts_current_schema, then the containers are replaced.
\* Any of it may fail, with the containers gone or up.
RollBack ==
  /\ script.pc = "accept" /\ Accepts(script.prev)
  /\ \/ /\ rt' = Running(script.prev)
        /\ script' = [script EXCEPT !.pc = "host", !.outcome = "undone"]
     \/ /\ rt' \in {rt, Removed, Running(script.prev)}
        /\ script' = [script EXCEPT !.pc = "host", !.outcome = "uncertified"]
  /\ UNCHANGED <<schema, host, origin, backups, certificate, deploys>>

\* A service that is active is stopped with its containers; one that was active
\* when the snapshot was made is started, which is `compose up'.
Restarted(saved) ==
  IF saved.active THEN Running(saved.override) ELSE IF host.active THEN Stopped ELSE rt

\* restore_host_integration_state
RestoreHost ==
  /\ script.pc = "host" /\ script.hostMutated
  /\ host' = script.saved
  /\ rt' = Restarted(script.saved)
  /\ Goto("retain")
  /\ UNCHANGED <<schema, origin, backups, certificate, deploys>>

\* A part of it fails; the rest is done all the same.
RestoreHostPartly ==
  /\ script.pc = "host" /\ script.hostMutated
  /\ host' \in {[script.saved EXCEPT !.active = FALSE],
                [script.saved EXCEPT !.files = 0]}
  /\ rt' = Restarted(host')
  /\ script' = [script EXCEPT !.pc = "retain",
                  !.outcome = IF @ = "undone" THEN "uncertified" ELSE @]
  /\ UNCHANGED <<schema, origin, backups, certificate, deploys>>

NoHostRestore ==
  /\ script.pc = "host" /\ ~script.hostMutated
  /\ Goto("retain")
  /\ UNCHANGED <<rt, schema, host, origin, backups, certificate, deploys>>

Retain ==
  /\ script.pc = "retain" /\ Goto("exit")
  /\ backups' = {b \in backups : Kept(b)}
  /\ UNCHANGED <<rt, schema, host, origin, certificate, deploys>>

\* restore_origin_on_failure, of the wrapper.
Exit ==
  /\ script.pc = "exit"
  /\ origin' = script.found.origin
  /\ script' = [script EXCEPT !.pc = "idle",
                  !.outcome = IF @ = "none" THEN "undone" ELSE @]
  /\ UNCHANGED <<rt, schema, host, backups, certificate, deploys>>

\* The process is killed, or the host goes down: nothing is cleaned up.
Kill ==
  /\ script.pc \notin {"idle", "exit"}
  /\ script' = [script EXCEPT !.pc = "exit", !.outcome = "killed"]
  /\ UNCHANGED <<rt, schema, host, origin, backups, certificate, deploys>>

\* healthcheck_simple.py, once a minute: a stopped container is restarted.
Heal ==
  /\ host.active /\ rt.rev # 0 /\ ~rt.up
  /\ rt' = Running(rt.rev)
  /\ UNCHANGED <<schema, host, origin, backups, certificate, script, deploys>>

Deploy ==
  \/ Resolve \/ Load \/ Backup \/ Preflight \/ Migrate \/ Remove \/ Up
  \/ VerifyAndSnapshot \/ Promote \/ Install \/ Activate \/ Prune \/ Certify
  \/ Discard \/ Finish

CleanUp ==
  \/ Fail \/ Cleanup \/ Restore \/ Quarantine \/ RollBack \/ RestoreHost
  \/ RestoreHostPartly \/ NoHostRestore \/ Retain \/ Kill \/ Exit

Next ==
  \/ Refuse \/ (\E r \in Revisions : Dispatch(r)) \/ Deploy \/ CleanUp \/ Heal

Spec == Init /\ [][Next]_vars

-----------------------------------------------------------------------------
(* Properties. *)

Ended == script.pc = "idle" /\ deploys > 0

\* A release at rest: the certified images run on their own schema.
AtRest(found) ==
  /\ found.rt = Running(found.host.override) /\ found.schema = found.host.override
  /\ found.host.active

\* A deployment that fails or is interrupted before its certificate, and whose
\* cleanup reports no trouble, leaves a release at rest as it was: runtime, schema,
\* host files and origin, wherever it was interrupted (terminate_with_cleanup).
UndoneIsAsFound ==
  Ended /\ script.outcome = "undone" /\ AtRest(script.found)
    => \/ Found = script.found
       \/ script.backup # 0 /\ script.backup = certificate.backup

\* The backup that the certificate names is never pruned, nor the one of a
\* deployment that could not be undone, however many attempts fail one after the
\* other (prune_database_backups; "backup retained at").
RecoveryPointIsKept ==
  LET ids == {b.id : b \in backups} IN
  /\ certificate.backup # 0 => certificate.backup \in ids
  /\ Ended /\ script.outcome \in {"quarantined", "uncertified"} => script.backup \in ids

\* The previous runtime is restored only when it accepts the current database;
\* otherwise the containers remain stopped (docs/operations/
\* automatic-production-deployment.md: "remain quarantined").
QuarantineHolds ==
  Ended /\ script.outcome = "quarantined" => ~rt.up

=============================================================================
