--------------------------- MODULE SchemaMigration ---------------------------
(***************************************************************************)
(* The schema of the database: migrate_database.py with its preflight      *)
(* (core/migration_preflight.py), its runner (core/migrations.py) and the  *)
(* contract they are checked against (core/schema_contract.py).            *)
(*                                                                         *)
(* Tables are grouped by the migration that introduces them.  Several       *)
(* commands may run at once; each transaction is one step, and a command    *)
(* may fail or be killed between two of them.                              *)
(***************************************************************************)
EXTENDS Naturals, FiniteSets

CONSTANTS
  Commands,      \* invocations of migrate_database, each of which may be repeated
  MaxAttempts    \* bound

VARIABLES
  db,            \* [objects, drift, applied, version, wal]: tables and infrastructure
                 \* that exist, those that are not canonical, rows of the history,
                 \* PRAGMA user_version and the journal mode
  found,         \* what the first command found
  command,       \* of each: [pc, seen, applied, next]
  backend,       \* of the process that starts on the database
  attempts

vars == <<db, found, command, backend, attempts>>

Current == 10

\* "history" is schema_migrations with its triggers; "probe" db_readiness_probe.
\* "execution" are the tables of _LEGACY_OPTIONAL_TABLES that code made before
\* there were migrations; "runtime" the other tables of that time.
Introduces ==
  <<{"probe"}, {"runtime", "execution"}, {"metadata", "view"}, {"decisions"}, {"shadow"},
    {"entry"}, {"advisories"}, {"capture"}, {"resolution"}, {"indexes"}>>

Tables == {"runtime", "execution", "metadata", "decisions", "shadow", "entry",
           "advisories", "capture", "resolution"}

LegacyOptional == Tables \ {"runtime"}

Database(objects, applied, version) ==
  [objects |-> objects, drift |-> {}, applied |-> applied, version |-> version, wal |-> FALSE]

Blank == Database({}, {}, 0)

\* The database of a release that had n migrations.
Released(n) ==
  Database({"history"} \cup UNION {Introduces[v] : v \in 1..n}, 1..n, n)

\* Sound databases, and some that are not: a table is missing or was changed, the
\* version has no history, the history has a gap.
Found ==
  {Blank, Database({"runtime"}, {}, 0), Database({"runtime", "execution"}, {}, 0),
   Released(2), Released(9), Released(10),
   Database({"execution"}, {}, 0), Database({"runtime"}, {}, 3),
   [Released(7) EXCEPT !.drift = {"decisions"}],
   [Released(5) EXCEPT !.applied = {1, 2, 4, 5}]}

Idle == [pc |-> "idle", seen |-> {}, applied |-> {}, next |-> 0]

Init ==
  /\ db \in Found /\ found = db
  /\ command = [c \in Commands |-> Idle]
  /\ backend = [pc |-> "down", version |-> 0]
  /\ attempts = 0

-----------------------------------------------------------------------------
(* verify_managed_schema_connection and the preflight. *)

\* Their columns, keys, checks and triggers are those of the contract...
Canonical(tables) == tables \cap db.drift = {}

\* ... and so are their indexes, those of the last migration included.
Indexed(tables) == "runtime" \in tables => "indexes" \in db.objects

\* The tables of `required' exist, or may be missing; all of the contract includes
\* the view.
Verified(required, optional, noIndexes, version) ==
  /\ db.version = version
  /\ required \ optional \subseteq db.objects
  /\ Canonical(required \cap db.objects)
  /\ noIndexes \/ Indexed(required \cap db.objects)

VerifiedAll(optional, noIndexes, version) ==
  Verified(Tables, optional, noIndexes, version) /\ "view" \in db.objects

\* MigrationRunner._verify_state: None when the history is not sound.
HistoryIsSound ==
  /\ "history" \in db.objects
  /\ db.applied = 1..Cardinality(db.applied)
  /\ db.version = Cardinality(db.applied)

LegacyIsSound == Verified(Tables, LegacyOptional, TRUE, 0)

\* _pending_runtime_schema_valid
PendingIsSound ==
  \/ db.objects \cap Tables = {}
  \/ Verified(Tables, LegacyOptional, TRUE, 1)

\* The tables that may be missing once n migrations were applied.
Later(n) ==
  CASE n = 3 -> {"decisions", "shadow", "entry", "advisories", "capture", "resolution"}
    [] n = 4 -> {"shadow", "entry", "advisories", "capture", "resolution"}
    [] n = 5 -> {"entry", "advisories", "capture", "resolution"}
    [] n = 6 -> {"advisories", "capture", "resolution"}
    [] n = 7 -> {"capture", "resolution"}
    [] n = 8 -> {"resolution"}
    [] OTHER -> {}

\* Mutant of AppliedIsSound: the prefix of eight migrations is forgotten.
AppliedOrStale(n) ==
  \/ n = Current /\ VerifiedAll({}, FALSE, Current)
  \/ n \in (3..9) \ {8} /\ VerifiedAll(Later(n), TRUE, n)
  \/ n = 2 /\ Verified({"runtime", "execution"}, {}, TRUE, 2)
  \/ n = 1 /\ PendingIsSound

\* _applied_runtime_schema_valid
AppliedIsSound(n) ==
  \/ n = Current /\ VerifiedAll({}, FALSE, Current)
  \/ n \in 3..9 /\ VerifiedAll(Later(n), TRUE, n)
  \/ n = 2 /\ Verified({"runtime", "execution"}, {}, TRUE, 2)
  \/ n = 1 /\ PendingIsSound

-----------------------------------------------------------------------------
(* migrate_database. *)

At(c, pc)   == command[c].pc = pc
Goto(c, pc) == command' = [command EXCEPT ![c].pc = pc]
Enter(c, pc) == command' = [command EXCEPT ![c] = [Idle EXCEPT !.pc = pc]]

\* classify_database opens the file and reads its version and tables.
Look(c) ==
  /\ command[c].pc \in {"idle", "refused", "failed", "ok"} /\ attempts < MaxAttempts
  /\ attempts' = attempts + 1
  /\ command' = [command EXCEPT ![c] =
                   [Idle EXCEPT !.pc = "judge", !.seen = db.objects]]
  /\ UNCHANGED <<db, found, backend>>

\* Without a history the database is blank, or a sound one of before; migrations
\* are then applied to it.
JudgeLegacy(c) ==
  /\ At(c, "judge") /\ "history" \notin command[c].seen
  /\ Enter(c, IF \/ command[c].seen = {} /\ db.version = 0
                \/ LegacyIsSound
             THEN "bootstrap" ELSE "refused")
  /\ UNCHANGED <<db, found, backend, attempts>>

\* With one, it is read on a second connection...
JudgeHistory(c) ==
  /\ At(c, "judge") /\ "history" \in command[c].seen
  /\ command' = [command EXCEPT ![c] =
       IF HistoryIsSound /\ db.applied # {}
       THEN [Idle EXCEPT !.pc = "check", !.applied = db.applied]
       ELSE [Idle EXCEPT !.pc = "refused"]]
  /\ UNCHANGED <<db, found, backend, attempts>>

\* ... and the schema on a third.
Check(c) ==
  /\ At(c, "check")
  /\ Enter(c, IF "probe" \in db.objects /\ AppliedIsSound(Cardinality(command[c].applied))
             THEN "bootstrap" ELSE "refused")
  /\ UNCHANGED <<db, found, backend, attempts>>

\* --preflight ends here.
PreflightOnly(c) ==
  /\ At(c, "bootstrap") /\ Enter(c, "idle")
  /\ UNCHANGED <<db, found, backend, attempts>>

\* _bootstrap_history: in one transaction, unless the history exists.
Bootstrap(c) ==
  /\ At(c, "bootstrap")
  /\ IF "history" \in db.objects
     THEN UNCHANGED db
     ELSE /\ "probe" \notin db.objects
          /\ db' = [db EXCEPT !.objects = @ \cup {"history"}]
  /\ Goto(c, "pending")
  /\ UNCHANGED <<found, backend, attempts>>

\* The history is verified, and the next migration chosen.
Pending(c) ==
  /\ At(c, "pending") /\ HistoryIsSound
  /\ LET open == {v \in 1..Current : v \notin db.applied /\ v > command[c].next} IN
       command' = [command EXCEPT
         ![c].pc = IF open = {} THEN "wal" ELSE "apply",
         ![c].next = IF open = {} THEN 0 ELSE CHOOSE v \in open : \A w \in open : v <= w]
  /\ UNCHANGED <<db, found, backend, attempts>>

\* _apply_one: in one transaction, unless another command did it in between.  The
\* baseline is CREATE IF NOT EXISTS; of the others no object may exist.
Apply(c) ==
  /\ At(c, "apply") /\ HistoryIsSound
  /\ LET v == command[c].next IN
       IF v \in db.applied
       THEN UNCHANGED db
       ELSE /\ v = Cardinality(db.applied) + 1
            /\ v = 2 \/ Introduces[v] \cap db.objects = {}
            /\ db' = [db EXCEPT !.objects = @ \cup Introduces[v],
                                !.applied = @ \cup {v}, !.version = v]
  /\ Goto(c, "pending")
  /\ UNCHANGED <<found, backend, attempts>>

\* _set_wal_mode, after a last verification.
SetWal(c) ==
  /\ At(c, "wal") /\ HistoryIsSound
  /\ db' = [db EXCEPT !.wal = TRUE]
  /\ Goto(c, "postflight")
  /\ UNCHANGED <<found, backend, attempts>>

Postflight(c) ==
  /\ At(c, "postflight")
  /\ Enter(c, IF HistoryIsSound /\ db.version = Current /\ AppliedIsSound(Current)
             THEN "ok" ELSE "failed")
  /\ UNCHANGED <<db, found, backend, attempts>>

\* The database is locked, a statement fails, the disk is full: the transaction is
\* rolled back.  Or the process is killed.
Fail(c) ==
  /\ command[c].pc \in {"bootstrap", "pending", "apply", "wal", "postflight"}
  /\ Enter(c, "failed")
  /\ UNCHANGED <<db, found, backend, attempts>>

-----------------------------------------------------------------------------
(* The backend refuses to start on any other schema; it reads the version first. *)

ReadVersion ==
  /\ backend.pc = "down"
  /\ backend' = [pc |-> "verify", version |-> db.version]
  /\ UNCHANGED <<db, found, command, attempts>>

ReadSchema ==
  /\ backend.pc = "verify"
  /\ backend' =
       [version |-> 0,
        pc |-> IF backend.version = Current /\ VerifiedAll({}, FALSE, db.version)
               THEN "up" ELSE "down"]
  /\ UNCHANGED <<db, found, command, attempts>>

Stop ==
  /\ backend.pc = "up" /\ backend' = [backend EXCEPT !.pc = "down"]
  /\ UNCHANGED <<db, found, command, attempts>>

Next ==
  \/ \E c \in Commands :
       \/ Look(c) \/ JudgeLegacy(c) \/ JudgeHistory(c) \/ Check(c) \/ PreflightOnly(c)
       \/ Bootstrap(c) \/ Pending(c) \/ Apply(c) \/ SetWal(c) \/ Postflight(c) \/ Fail(c)
  \/ ReadVersion \/ ReadSchema \/ Stop

Spec == Init /\ [][Next]_vars

-----------------------------------------------------------------------------
(* Properties. *)

\* What a preflight that nothing disturbs would accept.
Compatible ==
  \/ db.objects = {} /\ db.version = 0
  \/ "history" \notin db.objects /\ LegacyIsSound
  \/ HistoryIsSound /\ db.applied # {} /\ "probe" \in db.objects
       /\ AppliedIsSound(Cardinality(db.applied))

\* The history was made, and no migration applied yet.
OnlyBootstrapped == "history" \in db.objects /\ db.applied = {}

Whole ==
  /\ db.applied = 1..Current /\ db.version = Current
  /\ UNION {Introduces[v] : v \in 1..Current} \subseteq db.objects /\ db.drift = {}

\* A database that the preflight refuses is never written.  One that it accepts is
\* accepted again wherever a command stopped, except before the first migration;
\* and neither a command reports success nor a backend serves on less than the
\* whole schema, whatever ran beside it (migration_preflight.py, migrations.py).
StoppedMigrationResumes ==
  /\ ~Compatible => db = found \/ OnlyBootstrapped
  /\ (\E c \in Commands : command[c].pc = "ok") \/ backend.pc = "up" => Whole

=============================================================================
