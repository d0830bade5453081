--------------------------- MODULE MCDurable_proofs ---------------------------
(***************************************************************************)
(* What the components that keep their state in the database, in files, on *)
(* the host or at GitHub never do, for any value of the constants.  Each   *)
(* section proves an inductive invariant of one component from its own     *)
(* Init and Next; the last one carries the properties over to the          *)
(* specification that the run checks.                                      *)
(***************************************************************************)
EXTENDS MCDurable, FiniteSetTheorems, SequenceTheorems, TLAPS

-----------------------------------------------------------------------------
(***************************************************************************)
(* The mirror of a mission (MissionMirror).  The pointer is edited after   *)
(* the comment was seen or added, and comments are never removed, so that  *)
(* an edit has its evidence whenever GitHub serves it (EditsHaveEvidence). *)
(***************************************************************************)

Requests == [kind : {"mission", "comment", "pointer"}, id : Nat]
SyncSteps == {"idle", "mission", "list", "pointer"}

MirrorTypeOK ==
  /\ recorded \in Nat
  /\ hub \in [mission : Nat, pointer : Nat, comments : Seq(Nat)]
  /\ sync \in [pc : SyncSteps, id : Nat]
  /\ wire \subseteq Requests

EditsHaveEvidence ==
  /\ sync.pc = "pointer" => sync.id \in Mirror!Comments
  /\ \A r \in wire : r.kind = "pointer" => r.id \in Mirror!Comments

MirrorInv == MirrorTypeOK /\ EditsHaveEvidence /\ Mirror!PointerHasEvidence

\* What is served adds a comment, and removes none; it moves the pointer only to the
\* checkpoint that it names.
LEMMA ServedKeepsComments ==
  ASSUME MirrorTypeOK, NEW r \in Requests, hub' = Mirror!Served(r)
  PROVE  /\ hub' \in [mission : Nat, pointer : Nat, comments : Seq(Nat)]
         /\ Mirror!Comments \subseteq Mirror!Comments'
         /\ r.kind = "comment" => r.id \in Mirror!Comments'
         /\ hub'.pointer = IF r.kind = "pointer" THEN r.id ELSE hub.pointer
<1>1. hub \in [mission : Nat, pointer : Nat, comments : Seq(Nat)] /\ r.id \in Nat
  BY DEF MirrorTypeOK, Requests
<1>2. CASE r.kind = "mission"
  <2>1. hub' = [hub EXCEPT !.mission = r.id]
    BY <1>2 DEF Mirror!Served
  <2> QED BY <1>1, <1>2, <2>1 DEF Mirror!Comments
<1>3. CASE r.kind = "comment"
  <2>1. hub' = [hub EXCEPT !.comments = Append(@, r.id)]
    BY <1>3 DEF Mirror!Served
  <2>2. /\ hub'.comments = Append(hub.comments, r.id) /\ hub.comments \in Seq(Nat)
        /\ hub'.pointer = hub.pointer /\ hub'.mission = hub.mission
    BY <1>1, <2>1
  <2>3. /\ hub'.comments \in Seq(Nat)
        /\ Len(hub'.comments) = Len(hub.comments) + 1
        /\ \A i \in 1..Len(hub.comments) : hub'.comments[i] = hub.comments[i]
        /\ hub'.comments[Len(hub.comments) + 1] = r.id
    BY <1>1, <2>2, AppendProperties
  <2>4. /\ DOMAIN hub.comments = 1..Len(hub.comments) /\ Len(hub.comments) \in Nat
        /\ DOMAIN hub'.comments = 1..Len(hub.comments) + 1
    BY <2>2, <2>3, LenProperties
  <2>5. Mirror!Comments \subseteq Mirror!Comments' /\ r.id \in Mirror!Comments'
    <3> DEFINE n == Len(hub.comments)
    <3>1. DOMAIN hub.comments = 1..n /\ DOMAIN hub'.comments = 1..(n + 1) /\ n \in Nat
      BY <2>4
    <3>2. \A i \in DOMAIN hub.comments :
             i \in DOMAIN hub'.comments /\ hub'.comments[i] = hub.comments[i]
      BY <2>3, <3>1
    <3>3. n + 1 \in DOMAIN hub'.comments /\ hub'.comments[n + 1] = r.id
      BY <2>3, <3>1
    <3> HIDE DEF n
    <3> QED BY <3>2, <3>3, Zenon DEF Mirror!Comments
  <2>6. hub' \in [mission : Nat, pointer : Nat, comments : Seq(Nat)]
    <3>1. ASSUME NEW u \in Seq(Nat) PROVE [hub EXCEPT !.comments = u] \in
                                           [mission : Nat, pointer : Nat, comments : Seq(Nat)]
      BY <1>1
    <3> QED BY <1>1, <2>1, <2>2, <2>3, <3>1
  <2> QED BY <1>3, <2>2, <2>5, <2>6
<1>4. CASE r.kind = "pointer"
  <2>1. hub' = [hub EXCEPT !.pointer = r.id]
    BY <1>4 DEF Mirror!Served
  <2> QED BY <1>1, <1>4, <2>1 DEF Mirror!Comments
<1> QED BY <1>2, <1>3, <1>4 DEF Requests

LEMMA MirrorInitially == Mirror!Init => MirrorInv
<1> SUFFICES ASSUME Mirror!Init PROVE MirrorInv
  OBVIOUS
<1>1. <<>> \in Seq(Nat)
  OBVIOUS
<1> QED
  BY <1>1 DEF Mirror!Init, MirrorInv, MirrorTypeOK, EditsHaveEvidence, SyncSteps,
     Mirror!PointerHasEvidence

\* A request leaves the evidence of every edit where it was.
LEMMA RequestKeepsEvidence ==
  ASSUME MirrorInv, NEW kind \in {"mission", "comment", "pointer"}, NEW next \in SyncSteps,
         kind = "pointer" => sync.pc = "pointer",
         next = "pointer" => kind = "comment",
         Mirror!Request(kind, next), recorded' = recorded
  PROVE  MirrorInv'
<1> DEFINE r == [kind |-> kind, id |-> sync.id]
<1>1. r \in Requests /\ r.kind = kind /\ r.id = sync.id /\ MirrorTypeOK
  BY DEF MirrorInv, MirrorTypeOK, Requests
<1>2. kind = "pointer" => r.id \in Mirror!Comments
  BY <1>1 DEF MirrorInv, EditsHaveEvidence
<1>3. CASE /\ hub' = Mirror!Served(r) /\ sync' = [sync EXCEPT !.pc = next]
           /\ UNCHANGED <<wire, losses>>
  <2>1. /\ hub' \in [mission : Nat, pointer : Nat, comments : Seq(Nat)]
        /\ Mirror!Comments \subseteq Mirror!Comments'
        /\ kind = "comment" => sync.id \in Mirror!Comments'
        /\ hub'.pointer = IF kind = "pointer" THEN sync.id ELSE hub.pointer
    BY <1>1, <1>3, ServedKeepsComments
  <2>2. sync' \in [pc : SyncSteps, id : Nat] /\ sync'.id = sync.id /\ sync'.pc = next
    BY <1>1, <1>3 DEF MirrorTypeOK
  <2> QED
    BY <1>1, <1>2, <1>3, <2>1, <2>2
    DEF MirrorInv, MirrorTypeOK, EditsHaveEvidence, Mirror!PointerHasEvidence
<1>4. CASE /\ sync' = [pc |-> "idle", id |-> 0]
           /\ hub' = Mirror!Served(r) /\ UNCHANGED wire
  <2>1. /\ hub' \in [mission : Nat, pointer : Nat, comments : Seq(Nat)]
        /\ Mirror!Comments \subseteq Mirror!Comments'
        /\ hub'.pointer = IF kind = "pointer" THEN sync.id ELSE hub.pointer
    BY <1>1, <1>4, ServedKeepsComments
  <2> QED
    BY <1>1, <1>2, <1>4, <2>1
    DEF MirrorInv, MirrorTypeOK, EditsHaveEvidence, Mirror!PointerHasEvidence, SyncSteps
<1>5. CASE /\ sync' = [pc |-> "idle", id |-> 0]
           /\ hub' = hub /\ wire' \in {wire, wire \cup {r}}
  <2>1. Mirror!Comments' = Mirror!Comments
    BY <1>5 DEF Mirror!Comments
  <2> HIDE DEF r
  <2> QED
    BY <1>1, <1>2, <1>5, <2>1
    DEF MirrorInv, MirrorTypeOK, EditsHaveEvidence, Mirror!PointerHasEvidence, SyncSteps
<1> QED
  BY <1>3, <1>4, <1>5 DEF Mirror!Request

LEMMA MirrorStep == MirrorInv /\ [Mirror!Next]_(Mirror!vars) => MirrorInv'
<1> SUFFICES ASSUME MirrorInv, [Mirror!Next]_(Mirror!vars) PROVE MirrorInv'
  OBVIOUS
<1>0. MirrorTypeOK /\ EditsHaveEvidence /\ Mirror!PointerHasEvidence
  BY DEF MirrorInv
<1>1. CASE Mirror!NewCheckpoint
  BY <1>0, <1>1 DEF Mirror!NewCheckpoint, MirrorInv, MirrorTypeOK, EditsHaveEvidence,
     Mirror!PointerHasEvidence, Mirror!Comments
<1>2. ASSUME NEW initialize \in BOOLEAN, Mirror!Begin(initialize) PROVE MirrorInv'
  <2>1. sync' = [pc |-> "mission", id |-> recorded] /\ UNCHANGED <<recorded, hub, wire>>
    BY <1>2 DEF Mirror!Begin
  <2> QED
    BY <1>0, <2>1 DEF MirrorInv, MirrorTypeOK, EditsHaveEvidence,
       Mirror!PointerHasEvidence, Mirror!Comments, SyncSteps
<1>3. CASE Mirror!EditMission
  BY <1>3, RequestKeepsEvidence DEF Mirror!EditMission, SyncSteps
<1>4. CASE Mirror!Comment
  <2>1. CASE sync.id \in Mirror!Comments
    <3>1. /\ sync' = [sync EXCEPT !.pc = "pointer"] /\ sync' \in [pc : SyncSteps, id : Nat]
          /\ sync'.id = sync.id /\ UNCHANGED <<recorded, hub, wire>>
      BY <1>0, <1>4, <2>1 DEF Mirror!Comment, MirrorTypeOK, SyncSteps
    <3> QED
      BY <1>0, <2>1, <3>1 DEF MirrorInv, MirrorTypeOK, EditsHaveEvidence,
         Mirror!PointerHasEvidence, Mirror!Comments
  <2>2. CASE sync.id \notin Mirror!Comments
    BY <1>4, <2>2, RequestKeepsEvidence DEF Mirror!Comment, SyncSteps
  <2> QED BY <2>1, <2>2
<1>5. CASE Mirror!EditPointer
  BY <1>5, RequestKeepsEvidence DEF Mirror!EditPointer, SyncSteps
<1>6. CASE Mirror!ServedLate
  <2>1. PICK r \in wire : hub' = Mirror!Served(r) /\ wire' = wire \ {r}
    BY <1>6 DEF Mirror!ServedLate
  <2>2. r \in Requests
    BY <1>0 DEF MirrorTypeOK
  <2>3. /\ hub' \in [mission : Nat, pointer : Nat, comments : Seq(Nat)]
        /\ Mirror!Comments \subseteq Mirror!Comments'
        /\ hub'.pointer = IF r.kind = "pointer" THEN r.id ELSE hub.pointer
    BY <1>0, <2>1, <2>2, ServedKeepsComments
  <2>4. UNCHANGED <<recorded, sync>>
    BY <1>6 DEF Mirror!ServedLate
  <2> QED
    BY <1>0, <2>1, <2>3, <2>4
    DEF MirrorInv, MirrorTypeOK, EditsHaveEvidence, Mirror!PointerHasEvidence
<1>7. CASE UNCHANGED Mirror!vars
  BY <1>0, <1>7 DEF Mirror!vars, MirrorInv, MirrorTypeOK, EditsHaveEvidence,
     Mirror!PointerHasEvidence, Mirror!Comments
<1> QED
  BY <1>1, <1>2, <1>3, <1>4, <1>5, <1>6, <1>7 DEF Mirror!Next

-----------------------------------------------------------------------------
(***************************************************************************)
(* A deployment (ReleasePipeline).  No backup is newer than the one of the *)
(* deployment at work, so that pruning keeps it (BackupsAreNumbered).  The *)
(* cleanup undoes what was done because the script marks a change before   *)
(* it makes it: until then all is as found, and what was marked is         *)
(* restored from a backup of the schema and a snapshot of the host that    *)
(* are those of the release that was found (ChangesCanBeUndone).           *)
(***************************************************************************)

DeployPcs == {"resolve", "load", "backup", "preflight", "apply", "replace", "up", "verify",
              "promote", "install", "activate", "prune", "certify", "discard", "finish"}
ReleasePcs == DeployPcs \cup {"idle", "cleanup", "restore", "accept", "host", "retain", "exit"}
Runtimes == [rev : Nat, up : BOOLEAN]
Hosts    == [override : Nat, files : Nat, active : BOOLEAN]
Releases == [rt : Runtimes, schema : Nat, host : Hosts, origin : {"legacy", "canonical"}]
Scripts  == [pc : ReleasePcs, target : Nat, prev : Nat, mutated : BOOLEAN,
             saved : Hosts, hostMutated : BOOLEAN, backup : Nat,
             outcome : {"none", "undone", "quarantined", "uncertified", "certified", "killed"},
             found : Releases]

ReleaseTypeOK ==
  /\ rt \in Runtimes /\ schema \in Nat /\ host \in Hosts /\ origin \in {"legacy", "canonical"}
  /\ backups \subseteq [id : Nat, schema : Nat]
  /\ certificate \in [rev : Nat, backup : Nat]
  /\ script \in Scripts /\ deploys \in Nat

InBackups(n) == \E b \in backups : b.id = n

BackupsAreNumbered ==
  /\ \A b \in backups : b.id <= deploys
  /\ script.backup = 0 => \A b \in backups : b.id < deploys
  /\ script.backup # 0 => script.backup = deploys /\ InBackups(script.backup)
  /\ certificate.backup # 0 => InBackups(certificate.backup)
  /\ script.pc # "idle" => deploys > 0

\* How far the script has come, where it is.
ScriptIsOrderly ==
  /\ script.pc \notin {"idle", "resolve", "exit"} => script.prev # 0
  /\ script.pc \in {"preflight", "apply", "replace", "up", "verify", "promote", "install",
                    "activate", "prune", "certify", "discard", "finish", "restore", "accept"}
       => script.backup # 0
  /\ script.mutated => script.backup # 0 /\ script.prev # 0
  /\ script.hostMutated => script.mutated
  /\ script.outcome \in {"quarantined", "uncertified"} => script.backup # 0
  /\ script.outcome = "undone" => script.pc \in {"host", "retain", "exit", "idle"}
  /\ script.pc = "exit" /\ script.outcome = "none" => ~script.mutated
  /\ script.pc \in {"host", "retain"} => script.outcome # "none"
  /\ script.pc \in {"resolve", "load", "backup", "preflight", "apply"} => ~script.mutated
  /\ script.pc \in {"replace", "up", "verify", "promote", "install", "activate", "prune",
                    "certify", "discard", "finish", "restore", "accept"} => script.mutated
  /\ script.pc \in {"replace", "up", "verify", "promote"} => ~script.hostMutated
  /\ script.pc \in {"install", "activate", "prune", "certify", "discard", "finish"}
       => script.hostMutated
  /\ script.pc \in {"preflight", "apply", "replace", "up", "verify", "promote", "install",
                    "activate", "prune", "certify"} => script.backup # certificate.backup
  /\ script.pc \in {"resolve", "load", "backup"} => script.backup = 0
  /\ script.pc \in {"discard", "finish"} => script.backup = certificate.backup

Certified == script.backup # 0 /\ script.backup = certificate.backup

\* A release at rest was found, and no later one is certified.
HasToBeUndone == deploys > 0 /\ Release!AtRest(script.found) /\ ~Certified

CanBeUndone ==
  /\ ~script.mutated => rt = script.found.rt /\ schema = script.found.schema
  /\ ~script.hostMutated => host = script.found.host
  /\ script.hostMutated \/ script.pc = "promote" => script.saved = script.found.host
  /\ script.prev \in {0, script.found.rt.rev}
  /\ script.backup # 0 =>
       \A b \in backups : b.id = script.backup => b.schema = script.found.schema
  /\ script.pc = "accept" => schema = script.found.schema
  /\ script.outcome = "undone" =>
       /\ rt = script.found.rt /\ schema = script.found.schema
       /\ script.pc # "host" => host = script.found.host
       /\ script.pc = "idle" => origin = script.found.origin

ChangesCanBeUndone == HasToBeUndone => CanBeUndone

ReleaseInv == ReleaseTypeOK /\ BackupsAreNumbered /\ ScriptIsOrderly /\ ChangesCanBeUndone

-----------------------------------------------------------------------------
(* The records. *)

\* The script with one of its variables assigned, or with two.
LEMMA ScriptWith ==
  ASSUME NEW m \in Scripts, NEW u
  PROVE  /\ [m EXCEPT !.pc = u] =
              [pc |-> u, target |-> m.target, prev |-> m.prev, mutated |-> m.mutated,
               saved |-> m.saved, hostMutated |-> m.hostMutated, backup |-> m.backup,
               outcome |-> m.outcome, found |-> m.found]
         /\ [m EXCEPT !.prev = u] =
              [pc |-> m.pc, target |-> m.target, prev |-> u, mutated |-> m.mutated,
               saved |-> m.saved, hostMutated |-> m.hostMutated, backup |-> m.backup,
               outcome |-> m.outcome, found |-> m.found]
         /\ [m EXCEPT !.mutated = u] =
              [pc |-> m.pc, target |-> m.target, prev |-> m.prev, mutated |-> u,
               saved |-> m.saved, hostMutated |-> m.hostMutated, backup |-> m.backup,
               outcome |-> m.outcome, found |-> m.found]
         /\ [m EXCEPT !.saved = u] =
              [pc |-> m.pc, target |-> m.target, prev |-> m.prev, mutated |-> m.mutated,
               saved |-> u, hostMutated |-> m.hostMutated, backup |-> m.backup,
               outcome |-> m.outcome, found |-> m.found]
         /\ [m EXCEPT !.hostMutated = u] =
              [pc |-> m.pc, target |-> m.target, prev |-> m.prev, mutated |-> m.mutated,
               saved |-> m.saved, hostMutated |-> u, backup |-> m.backup,
               outcome |-> m.outcome, found |-> m.found]
         /\ [m EXCEPT !.backup = u] =
              [pc |-> m.pc, target |-> m.target, prev |-> m.prev, mutated |-> m.mutated,
               saved |-> m.saved, hostMutated |-> m.hostMutated, backup |-> u,
               outcome |-> m.outcome, found |-> m.found]
         /\ [m EXCEPT !.outcome = u] =
              [pc |-> m.pc, target |-> m.target, prev |-> m.prev, mutated |-> m.mutated,
               saved |-> m.saved, hostMutated |-> m.hostMutated, backup |-> m.backup,
               outcome |-> u, found |-> m.found]
  BY SMT DEF Scripts

LEMMA AssignPrev ==
  ASSUME NEW m \in Scripts, NEW pc, NEW u, NEW n, n = [m EXCEPT !.pc = pc, !.prev = u]
  PROVE  n = [pc |-> pc, target |-> m.target, prev |-> u, mutated |-> m.mutated,
              saved |-> m.saved, hostMutated |-> m.hostMutated, backup |-> m.backup,
              outcome |-> m.outcome, found |-> m.found]
<1> DEFINE k == [m EXCEPT !.pc = pc]
<1>1. k = [pc |-> pc, target |-> m.target, prev |-> m.prev, mutated |-> m.mutated,
          saved |-> m.saved, hostMutated |-> m.hostMutated, backup |-> m.backup,
          outcome |-> m.outcome, found |-> m.found]
  BY ScriptWith
<1>2. [k EXCEPT !.prev = u] =
         [pc |-> pc, target |-> m.target, prev |-> u, mutated |-> m.mutated,
          saved |-> m.saved, hostMutated |-> m.hostMutated, backup |-> m.backup,
          outcome |-> m.outcome, found |-> m.found]
  <2> HIDE DEF k
  <2> QED BY <1>1, SMT
<1> QED BY <1>2 DEF k

LEMMA AssignMutated ==
  ASSUME NEW m \in Scripts, NEW pc, NEW u, NEW n, n = [m EXCEPT !.pc = pc, !.mutated = u]
  PROVE  n = [pc |-> pc, target |-> m.target, prev |-> m.prev, mutated |-> u,
              saved |-> m.saved, hostMutated |-> m.hostMutated, backup |-> m.backup,
              outcome |-> m.outcome, found |-> m.found]
<1> DEFINE k == [m EXCEPT !.pc = pc]
<1>1. k = [pc |-> pc, target |-> m.target, prev |-> m.prev, mutated |-> m.mutated,
          saved |-> m.saved, hostMutated |-> m.hostMutated, backup |-> m.backup,
          outcome |-> m.outcome, found |-> m.found]
  BY ScriptWith
<1>2. [k EXCEPT !.mutated = u] =
         [pc |-> pc, target |-> m.target, prev |-> m.prev, mutated |-> u,
          saved |-> m.saved, hostMutated |-> m.hostMutated, backup |-> m.backup,
          outcome |-> m.outcome, found |-> m.found]
  <2> HIDE DEF k
  <2> QED BY <1>1, SMT
<1> QED BY <1>2 DEF k

LEMMA AssignSaved ==
  ASSUME NEW m \in Scripts, NEW pc, NEW u, NEW n, n = [m EXCEPT !.pc = pc, !.saved = u]
  PROVE  n = [pc |-> pc, target |-> m.target, prev |-> m.prev, mutated |-> m.mutated,
              saved |-> u, hostMutated |-> m.hostMutated, backup |-> m.backup,
              outcome |-> m.outcome, found |-> m.found]
<1> DEFINE k == [m EXCEPT !.pc = pc]
<1>1. k = [pc |-> pc, target |-> m.target, prev |-> m.prev, mutated |-> m.mutated,
          saved |-> m.saved, hostMutated |-> m.hostMutated, backup |-> m.backup,
          outcome |-> m.outcome, found |-> m.found]
  BY ScriptWith
<1>2. [k EXCEPT !.saved = u] =
         [pc |-> pc, target |-> m.target, prev |-> m.prev, mutated |-> m.mutated,
          saved |-> u, hostMutated |-> m.hostMutated, backup |-> m.backup,
          outcome |-> m.outcome, found |-> m.found]
  <2> HIDE DEF k
  <2> QED BY <1>1, SMT
<1> QED BY <1>2 DEF k

LEMMA AssignHostMutated ==
  ASSUME NEW m \in Scripts, NEW pc, NEW u, NEW n, n = [m EXCEPT !.pc = pc, !.hostMutated = u]
  PROVE  n = [pc |-> pc, target |-> m.target, prev |-> m.prev, mutated |-> m.mutated,
              saved |-> m.saved, hostMutated |-> u, backup |-> m.backup,
              outcome |-> m.outcome, found |-> m.found]
<1> DEFINE k == [m EXCEPT !.pc = pc]
<1>1. k = [pc |-> pc, target |-> m.target, prev |-> m.prev, mutated |-> m.mutated,
          saved |-> m.saved, hostMutated |-> m.hostMutated, backup |-> m.backup,
          outcome |-> m.outcome, found |-> m.found]
  BY ScriptWith
<1>2. [k EXCEPT !.hostMutated = u] =
         [pc |-> pc, target |-> m.target, prev |-> m.prev, mutated |-> m.mutated,
          saved |-> m.saved, hostMutated |-> u, backup |-> m.backup,
          outcome |-> m.outcome, found |-> m.found]
  <2> HIDE DEF k
  <2> QED BY <1>1, SMT
<1> QED BY <1>2 DEF k

LEMMA AssignBackup ==
  ASSUME NEW m \in Scripts, NEW pc, NEW u, NEW n, n = [m EXCEPT !.pc = pc, !.backup = u]
  PROVE  n = [pc |-> pc, target |-> m.target, prev |-> m.prev, mutated |-> m.mutated,
              saved |-> m.saved, hostMutated |-> m.hostMutated, backup |-> u,
              outcome |-> m.outcome, found |-> m.found]
<1> DEFINE k == [m EXCEPT !.pc = pc]
<1>1. k = [pc |-> pc, target |-> m.target, prev |-> m.prev, mutated |-> m.mutated,
          saved |-> m.saved, hostMutated |-> m.hostMutated, backup |-> m.backup,
          outcome |-> m.outcome, found |-> m.found]
  BY ScriptWith
<1>2. [k EXCEPT !.backup = u] =
         [pc |-> pc, target |-> m.target, prev |-> m.prev, mutated |-> m.mutated,
          saved |-> m.saved, hostMutated |-> m.hostMutated, backup |-> u,
          outcome |-> m.outcome, found |-> m.found]
  <2> HIDE DEF k
  <2> QED BY <1>1, SMT
<1> QED BY <1>2 DEF k

LEMMA AssignOutcome ==
  ASSUME NEW m \in Scripts, NEW pc, NEW u, NEW n, n = [m EXCEPT !.pc = pc, !.outcome = u]
  PROVE  n = [pc |-> pc, target |-> m.target, prev |-> m.prev, mutated |-> m.mutated,
              saved |-> m.saved, hostMutated |-> m.hostMutated, backup |-> m.backup,
              outcome |-> u, found |-> m.found]
<1> DEFINE k == [m EXCEPT !.pc = pc]
<1>1. k = [pc |-> pc, target |-> m.target, prev |-> m.prev, mutated |-> m.mutated,
          saved |-> m.saved, hostMutated |-> m.hostMutated, backup |-> m.backup,
          outcome |-> m.outcome, found |-> m.found]
  BY ScriptWith
<1>2. [k EXCEPT !.outcome = u] =
         [pc |-> pc, target |-> m.target, prev |-> m.prev, mutated |-> m.mutated,
          saved |-> m.saved, hostMutated |-> m.hostMutated, backup |-> m.backup,
          outcome |-> u, found |-> m.found]
  <2> HIDE DEF k
  <2> QED BY <1>1, SMT
<1> QED BY <1>2 DEF k

\* The files of the host with one of them replaced.
LEMMA HostWith ==
  ASSUME NEW m \in Hosts, NEW u
  PROVE  /\ [m EXCEPT !.active = u] =
              [override |-> m.override, files |-> m.files, active |-> u]
         /\ [m EXCEPT !.files = u] =
              [override |-> m.override, files |-> u, active |-> m.active]
  BY SMT DEF Hosts

LEMMA ReleaseInitially == Release!Init => ReleaseInv
  BY DEF Release!Init, Release!Running, Release!Gone, Release!Blank, Release!Found,
        ReleaseInv, ReleaseTypeOK, BackupsAreNumbered, ScriptIsOrderly, ChangesCanBeUndone,
        HasToBeUndone, CanBeUndone, InBackups, Certified, ReleasePcs, DeployPcs, Scripts, Releases, Runtimes, Hosts

\* The counts of the component are those of the library's theorems.
LEMMA CardinalityOfRelease == ASSUME NEW S PROVE Release!Cardinality(S) = Cardinality(S)
  BY Zenon DEF Cardinality, Release!Cardinality

\* Pruning keeps the backup of the certificate and the newest.
LEMMA KeptAreThere ==
  ASSUME BackupsAreNumbered, ReleaseTypeOK, backups' = {b \in backups : Release!Kept(b)}
  PROVE  /\ backups' \subseteq backups
         /\ script.backup # 0 => \E b \in backups' : b.id = script.backup
         /\ certificate.backup # 0 => \E b \in backups' : b.id = certificate.backup
<1>1. ASSUME script.backup # 0 PROVE \E b \in backups' : b.id = script.backup
  <2>1. PICK b \in backups : b.id = script.backup
    BY <1>1 DEF BackupsAreNumbered, InBackups
  <2>2. {c \in backups : c.id > b.id} = {}
    BY <1>1, <2>1 DEF BackupsAreNumbered, ReleaseTypeOK
  <2>3. Cardinality({c \in backups : c.id > b.id}) = 0
    BY <2>2, FS_EmptySet
  <2> QED BY <2>1, <2>3, ReleaseAssumption, CardinalityOfRelease DEF Release!Kept
<1> QED BY <1>1 DEF BackupsAreNumbered, InBackups, Release!Kept

LEMMA ReleaseStep == ReleaseInv /\ [Release!Next]_(Release!vars) => ReleaseInv'
<1> SUFFICES ASSUME ReleaseInv, [Release!Next]_(Release!vars) PROVE ReleaseInv'
  OBVIOUS
<1>0. ReleaseTypeOK /\ BackupsAreNumbered /\ ScriptIsOrderly /\ ChangesCanBeUndone
  BY DEF ReleaseInv
<1>00. script \in Scripts
  BY <1>0 DEF ReleaseTypeOK
<1>1. CASE Release!Resolve
  <2>1. script' = [script EXCEPT !.pc = "load", !.prev = rt.rev]
    BY <1>1 DEF Release!Resolve
  <2>2. script' = [pc |-> "load", target |-> script.target, prev |-> rt.rev, mutated |-> script.mutated,
                   saved |-> script.saved, hostMutated |-> script.hostMutated, backup |-> script.backup,
                   outcome |-> script.outcome, found |-> script.found]
    BY <1>00, <2>1, AssignPrev, Zenon
  <2>3. /\ script.pc = "resolve" /\ rt.rev # 0
        /\ UNCHANGED <<rt, schema, host, origin, backups, certificate, deploys>>
    BY <1>0, <1>1 DEF Release!Resolve, ReleaseTypeOK
  <2> QED
    BY <1>0, <2>2, <2>3
    DEF ReleaseInv, ReleaseTypeOK, BackupsAreNumbered, ScriptIsOrderly,
        ChangesCanBeUndone, HasToBeUndone, CanBeUndone, InBackups, Certified,
        Release!AtRest, Release!Running,
        ReleasePcs, DeployPcs, Scripts, Releases, Runtimes, Hosts
<1>2. CASE Release!Load
  <2>1. /\ script.pc = "load"
        /\ script' = [pc |-> "backup", target |-> script.target, prev |-> script.prev, mutated |-> script.mutated,
                    saved |-> script.saved, hostMutated |-> script.hostMutated, backup |-> script.backup,
                    outcome |-> script.outcome, found |-> script.found]
        /\ UNCHANGED <<rt, schema, host, origin, backups, certificate, deploys>>
    BY <1>0, <1>2, ScriptWith DEF Release!Load, Release!Goto, ReleaseTypeOK
  <2> QED
    BY <1>0, <2>1
    DEF ReleaseInv, ReleaseTypeOK, BackupsAreNumbered, ScriptIsOrderly,
        ChangesCanBeUndone, HasToBeUndone, CanBeUndone, InBackups, Certified,
        Release!AtRest, Release!Running,
        ReleasePcs, DeployPcs, Scripts, Releases, Runtimes, Hosts
<1>3. CASE Release!Backup
  <2>1. script' = [script EXCEPT !.pc = "preflight", !.backup = deploys]
    BY <1>3 DEF Release!Backup
  <2>2. script' = [pc |-> "preflight", target |-> script.target, prev |-> script.prev, mutated |-> script.mutated,
                   saved |-> script.saved, hostMutated |-> script.hostMutated, backup |-> deploys,
                   outcome |-> script.outcome, found |-> script.found]
    BY <1>00, <2>1, AssignBackup, Zenon
  <2>3. /\ script.pc = "backup"
        /\ backups' = backups \cup {[id |-> deploys, schema |-> schema]}
        /\ UNCHANGED <<rt, schema, host, origin, certificate, deploys>>
    BY <1>0, <1>3 DEF Release!Backup, ReleaseTypeOK
  <2>4. PICK r \in [id : Nat, schema : Nat] :
          r.id = deploys /\ r.schema = schema /\ backups' = backups \cup {r}
    BY <1>0, <2>3 DEF ReleaseTypeOK
  <2>5. /\ backups' \subseteq [id : Nat, schema : Nat] /\ \E b \in backups' : b.id = deploys
        /\ backups \subseteq backups'
        /\ \A b \in backups' : b \in backups \/ (b.id = deploys /\ b.schema = schema)
        /\ script.pc = "backup" /\ UNCHANGED <<rt, schema, host, origin, certificate, deploys>>
    BY <1>0, <2>3, <2>4 DEF ReleaseTypeOK
  <2>6. ReleaseTypeOK'
    BY <1>0, <2>2, <2>5
    DEF ReleaseTypeOK, ReleasePcs, DeployPcs, Scripts, Releases, Runtimes, Hosts
  <2>7. BackupsAreNumbered'
    BY <1>0, <2>2, <2>5
    DEF ReleaseTypeOK, BackupsAreNumbered, ScriptIsOrderly, InBackups,
        ReleasePcs, DeployPcs, Scripts, Releases, Runtimes, Hosts
  <2>8. ScriptIsOrderly'
    BY <1>0, <2>2, <2>5
    DEF ReleaseTypeOK, BackupsAreNumbered, InBackups, ScriptIsOrderly, ReleasePcs, DeployPcs, Scripts, Releases, Runtimes, Hosts
  <2>9. ChangesCanBeUndone'
    <3> SUFFICES ASSUME HasToBeUndone' PROVE CanBeUndone'
      BY DEF ChangesCanBeUndone
    <3>1. CanBeUndone
      BY <1>0, <2>2, <2>5 DEF ChangesCanBeUndone, HasToBeUndone, Certified, Release!AtRest, ScriptIsOrderly
    <3> QED
      BY <1>0, <2>2, <2>5, <3>1
      DEF CanBeUndone, HasToBeUndone, Certified, Release!AtRest, Release!Running,
        ReleaseTypeOK, BackupsAreNumbered, ScriptIsOrderly,
        ReleasePcs, DeployPcs, Scripts, Releases, Runtimes, Hosts
  <2> QED BY <2>6, <2>7, <2>8, <2>9 DEF ReleaseInv
<1>4. CASE Release!Preflight
  <2>1. /\ script.pc = "preflight"
        /\ script' = [pc |-> "apply", target |-> script.target, prev |-> script.prev, mutated |-> script.mutated,
                    saved |-> script.saved, hostMutated |-> script.hostMutated, backup |-> script.backup,
                    outcome |-> script.outcome, found |-> script.found]
        /\ UNCHANGED <<rt, schema, host, origin, backups, certificate, deploys>>
    BY <1>0, <1>4, ScriptWith DEF Release!Preflight, Release!Goto, ReleaseTypeOK
  <2> QED
    BY <1>0, <2>1
    DEF ReleaseInv, ReleaseTypeOK, BackupsAreNumbered, ScriptIsOrderly,
        ChangesCanBeUndone, HasToBeUndone, CanBeUndone, InBackups, Certified,
        Release!AtRest, Release!Running,
        ReleasePcs, DeployPcs, Scripts, Releases, Runtimes, Hosts
<1>5. CASE Release!Migrate
  <2>1. PICK pc \in {"replace", "cleanup"} : script' = [script EXCEPT !.pc = pc, !.mutated = TRUE]
    BY <1>5 DEF Release!Migrate
  <2>2. script' = [pc |-> pc, target |-> script.target, prev |-> script.prev, mutated |-> TRUE,
                   saved |-> script.saved, hostMutated |-> script.hostMutated, backup |-> script.backup,
                   outcome |-> script.outcome, found |-> script.found]
    BY <1>00, <2>1, AssignMutated, Zenon
  <2>3. /\ script.pc = "apply" /\ schema' \in Nat
        /\ UNCHANGED <<rt, host, origin, backups, certificate, deploys>>
    BY <1>0, <1>5 DEF Release!Migrate, ReleaseTypeOK, Scripts
  <2>4. ReleaseTypeOK'
    BY <1>0, <2>2, <2>3
    DEF ReleaseTypeOK, ReleasePcs, DeployPcs, Scripts, Releases, Runtimes, Hosts
  <2>5. BackupsAreNumbered'
    BY <1>0, <2>2, <2>3
    DEF ReleaseTypeOK, BackupsAreNumbered, ScriptIsOrderly, InBackups,
        ReleasePcs, DeployPcs, Scripts, Releases, Runtimes, Hosts
  <2>6. ScriptIsOrderly'
    BY <1>0, <2>2, <2>3
    DEF ReleaseTypeOK, ScriptIsOrderly, ReleasePcs, DeployPcs, Scripts, Releases, Runtimes, Hosts
  <2>7. ChangesCanBeUndone'
    <3> SUFFICES ASSUME HasToBeUndone' PROVE CanBeUndone'
      BY DEF ChangesCanBeUndone
    <3>1. CanBeUndone
      BY <1>0, <2>2, <2>3 DEF ChangesCanBeUndone, HasToBeUndone, Certified, Release!AtRest
    <3> QED
      BY <1>0, <2>2, <2>3, <3>1
      DEF CanBeUndone, HasToBeUndone, Certified, Release!AtRest, Release!Running,
        ReleaseTypeOK, BackupsAreNumbered, ScriptIsOrderly,
        ReleasePcs, DeployPcs, Scripts, Releases, Runtimes, Hosts
  <2> QED BY <2>4, <2>5, <2>6, <2>7 DEF ReleaseInv
<1>6. CASE Release!Remove
  <2>1. /\ script.pc = "replace"
        /\ script' = [pc |-> "up", target |-> script.target, prev |-> script.prev, mutated |-> script.mutated,
                    saved |-> script.saved, hostMutated |-> script.hostMutated, backup |-> script.backup,
                    outcome |-> script.outcome, found |-> script.found]
        /\ rt' = [rev |-> 0, up |-> FALSE]
        /\ UNCHANGED <<schema, host, origin, backups, certificate, deploys>>
    BY <1>0, <1>6, ScriptWith DEF Release!Remove, Release!Goto, ReleaseTypeOK, Release!Removed
  <2> QED
    BY <1>0, <2>1
    DEF ReleaseInv, ReleaseTypeOK, BackupsAreNumbered, ScriptIsOrderly,
        ChangesCanBeUndone, HasToBeUndone, CanBeUndone, InBackups, Certified,
        Release!AtRest, Release!Running,
        ReleasePcs, DeployPcs, Scripts, Releases, Runtimes, Hosts
<1>7. CASE Release!Up
  <2>1. /\ script.pc = "up"
        /\ script' = [pc |-> "verify", target |-> script.target, prev |-> script.prev, mutated |-> script.mutated,
                    saved |-> script.saved, hostMutated |-> script.hostMutated, backup |-> script.backup,
                    outcome |-> script.outcome, found |-> script.found]
        /\ rt' = [rev |-> script.target, up |-> TRUE]
        /\ UNCHANGED <<schema, host, origin, backups, certificate, deploys>>
    BY <1>0, <1>7, ScriptWith DEF Release!Up, Release!Goto, ReleaseTypeOK, Release!Running
  <2> QED
    BY <1>0, <2>1
    DEF ReleaseInv, ReleaseTypeOK, BackupsAreNumbered, ScriptIsOrderly,
        ChangesCanBeUndone, HasToBeUndone, CanBeUndone, InBackups, Certified,
        Release!AtRest, Release!Running,
        ReleasePcs, DeployPcs, Scripts, Releases, Runtimes, Hosts
<1>8. CASE Release!VerifyAndSnapshot
  <2>1. script' = [script EXCEPT !.pc = "promote", !.saved = host]
    BY <1>8 DEF Release!VerifyAndSnapshot
  <2>2. script' = [pc |-> "promote", target |-> script.target, prev |-> script.prev, mutated |-> script.mutated,
                   saved |-> host, hostMutated |-> script.hostMutated, backup |-> script.backup,
                   outcome |-> script.outcome, found |-> script.found]
    BY <1>00, <2>1, AssignSaved, Zenon
  <2>3. /\ script.pc = "verify"
        /\ UNCHANGED <<rt, schema, host, origin, backups, certificate, deploys>>
    BY <1>0, <1>8 DEF Release!VerifyAndSnapshot, ReleaseTypeOK
  <2>4. ReleaseTypeOK'
    BY <1>0, <2>2, <2>3
    DEF ReleaseTypeOK, ReleasePcs, DeployPcs, Scripts, Releases, Runtimes, Hosts
  <2>5. BackupsAreNumbered'
    BY <1>0, <2>2, <2>3
    DEF ReleaseTypeOK, BackupsAreNumbered, ScriptIsOrderly, InBackups,
        ReleasePcs, DeployPcs, Scripts, Releases, Runtimes, Hosts
  <2>6. ScriptIsOrderly'
    BY <1>0, <2>2, <2>3
    DEF ReleaseTypeOK, ScriptIsOrderly, ReleasePcs, DeployPcs, Scripts, Releases, Runtimes, Hosts
  <2>7. ChangesCanBeUndone'
    <3> SUFFICES ASSUME HasToBeUndone' PROVE CanBeUndone'
      BY DEF ChangesCanBeUndone
    <3>1. CanBeUndone
      BY <1>0, <2>2, <2>3 DEF ChangesCanBeUndone, HasToBeUndone, Certified, Release!AtRest
    <3> QED
      BY <1>0, <2>2, <2>3, <3>1
      DEF CanBeUndone, HasToBeUndone, Certified, Release!AtRest, Release!Running,
        ReleaseTypeOK, BackupsAreNumbered, ScriptIsOrderly,
        ReleasePcs, DeployPcs, Scripts, Releases, Runtimes, Hosts
  <2> QED BY <2>4, <2>5, <2>6, <2>7 DEF ReleaseInv
<1>9. CASE Release!Promote
  <2>1. script' = [script EXCEPT !.pc = "install", !.hostMutated = TRUE]
    BY <1>9 DEF Release!Promote
  <2>2. script' = [pc |-> "install", target |-> script.target, prev |-> script.prev, mutated |-> script.mutated,
                   saved |-> script.saved, hostMutated |-> TRUE, backup |-> script.backup,
                   outcome |-> script.outcome, found |-> script.found]
    BY <1>00, <2>1, AssignHostMutated, Zenon
  <2>3. /\ script.pc = "promote"
        /\ host' \in Hosts
        /\ UNCHANGED <<rt, schema, origin, backups, certificate, deploys>>
    BY <1>0, <1>9 DEF Release!Promote, ReleaseTypeOK, Hosts, Scripts
  <2> QED
    BY <1>0, <2>2, <2>3
    DEF ReleaseInv, ReleaseTypeOK, BackupsAreNumbered, ScriptIsOrderly,
        ChangesCanBeUndone, HasToBeUndone, CanBeUndone, InBackups, Certified,
        Release!AtRest, Release!Running,
        ReleasePcs, DeployPcs, Scripts, Releases, Runtimes, Hosts
<1>10. CASE Release!Install
  <2>1. /\ script.pc = "install"
        /\ script' = [pc |-> "activate", target |-> script.target, prev |-> script.prev, mutated |-> script.mutated,
                    saved |-> script.saved, hostMutated |-> script.hostMutated, backup |-> script.backup,
                    outcome |-> script.outcome, found |-> script.found]
        /\ host' \in Hosts
        /\ UNCHANGED <<rt, schema, origin, backups, certificate, deploys>>
    BY <1>0, <1>10, ScriptWith DEF Release!Install, Release!Goto, ReleaseTypeOK, Hosts, Scripts
  <2>2. ReleaseTypeOK'
    BY <1>0, <2>1
    DEF ReleaseTypeOK, ReleasePcs, DeployPcs, Scripts, Releases, Runtimes, Hosts
  <2>3. BackupsAreNumbered'
    BY <1>0, <2>1
    DEF ReleaseTypeOK, BackupsAreNumbered, ScriptIsOrderly, InBackups,
        ReleasePcs, DeployPcs, Scripts, Releases, Runtimes, Hosts
  <2>4. ScriptIsOrderly'
    BY <1>0, <2>1
    DEF ReleaseTypeOK, ScriptIsOrderly, ReleasePcs, DeployPcs, Scripts, Releases, Runtimes, Hosts
  <2>5. ChangesCanBeUndone'
    <3> SUFFICES ASSUME HasToBeUndone' PROVE CanBeUndone'
      BY DEF ChangesCanBeUndone
    <3>1. CanBeUndone
      BY <1>0, <2>1 DEF ChangesCanBeUndone, HasToBeUndone, Certified, Release!AtRest
    <3> QED
      BY <1>0, <2>1, <3>1
      DEF CanBeUndone, HasToBeUndone, Certified, Release!AtRest, Release!Running,
        ReleaseTypeOK, BackupsAreNumbered, ScriptIsOrderly,
        ReleasePcs, DeployPcs, Scripts, Releases, Runtimes, Hosts
  <2> QED BY <2>2, <2>3, <2>4, <2>5 DEF ReleaseInv
<1>11. CASE Release!Activate
  <2>1. /\ script.pc = "activate"
        /\ script' = [pc |-> "prune", target |-> script.target, prev |-> script.prev, mutated |-> script.mutated,
                    saved |-> script.saved, hostMutated |-> script.hostMutated, backup |-> script.backup,
                    outcome |-> script.outcome, found |-> script.found]
        /\ host' \in Hosts /\ rt' \in Runtimes
        /\ UNCHANGED <<schema, origin, backups, certificate, deploys>>
    BY <1>0, <1>11, ScriptWith DEF Release!Activate, Release!Goto, ReleaseTypeOK, Hosts, Runtimes, Release!Running
  <2>2. ReleaseTypeOK'
    BY <1>0, <2>1
    DEF ReleaseTypeOK, ReleasePcs, DeployPcs, Scripts, Releases, Runtimes, Hosts
  <2>3. BackupsAreNumbered'
    BY <1>0, <2>1
    DEF ReleaseTypeOK, BackupsAreNumbered, ScriptIsOrderly, InBackups,
        ReleasePcs, DeployPcs, Scripts, Releases, Runtimes, Hosts
  <2>4. ScriptIsOrderly'
    BY <1>0, <2>1
    DEF ReleaseTypeOK, ScriptIsOrderly, ReleasePcs, DeployPcs, Scripts, Releases, Runtimes, Hosts
  <2>5. ChangesCanBeUndone'
    <3> SUFFICES ASSUME HasToBeUndone' PROVE CanBeUndone'
      BY DEF ChangesCanBeUndone
    <3>1. CanBeUndone
      BY <1>0, <2>1 DEF ChangesCanBeUndone, HasToBeUndone, Certified, Release!AtRest
    <3> QED
      BY <1>0, <2>1, <3>1
      DEF CanBeUndone, HasToBeUndone, Certified, Release!AtRest, Release!Running,
        ReleaseTypeOK, BackupsAreNumbered, ScriptIsOrderly,
        ReleasePcs, DeployPcs, Scripts, Releases, Runtimes, Hosts
  <2> QED BY <2>2, <2>3, <2>4, <2>5 DEF ReleaseInv
<1>12. CASE Release!Prune
  <2>1. /\ script.pc = "prune"
        /\ script' = [pc |-> "certify", target |-> script.target, prev |-> script.prev, mutated |-> script.mutated,
                    saved |-> script.saved, hostMutated |-> script.hostMutated, backup |-> script.backup,
                    outcome |-> script.outcome, found |-> script.found]
        /\ backups' \subseteq backups
        /\ \E b \in backups' : b.id = script.backup
        /\ certificate.backup # 0 => \E b \in backups' : b.id = certificate.backup
        /\ UNCHANGED <<rt, schema, host, origin, certificate, deploys>>
    BY <1>0, <1>12, ScriptWith, KeptAreThere DEF Release!Prune, Release!Goto, ReleaseTypeOK, ScriptIsOrderly
  <2> QED
    BY <1>0, <2>1
    DEF ReleaseInv, ReleaseTypeOK, BackupsAreNumbered, ScriptIsOrderly,
        ChangesCanBeUndone, HasToBeUndone, CanBeUndone, InBackups, Certified,
        Release!AtRest, Release!Running,
        ReleasePcs, DeployPcs, Scripts, Releases, Runtimes, Hosts
<1>13. CASE Release!Certify
  <2>1. /\ script.pc = "certify" /\ UNCHANGED <<rt, schema, host, origin, backups, deploys>>
        /\ \/ /\ certificate' = [rev |-> script.target, backup |-> script.backup]
              /\ script' = [pc |-> "discard", target |-> script.target, prev |-> script.prev, mutated |-> script.mutated,
                          saved |-> script.saved, hostMutated |-> script.hostMutated, backup |-> script.backup,
                          outcome |-> script.outcome, found |-> script.found]
           \/ /\ certificate' = [rev |-> 0, backup |-> 0]
              /\ script' = [pc |-> "cleanup", target |-> script.target, prev |-> script.prev, mutated |-> script.mutated,
                          saved |-> script.saved, hostMutated |-> script.hostMutated, backup |-> script.backup,
                          outcome |-> script.outcome, found |-> script.found]
    BY <1>0, <1>13, ScriptWith DEF Release!Certify, Release!Goto, Release!Blank, ReleaseTypeOK
  <2>2. ReleaseTypeOK'
    BY <1>0, <2>1
    DEF ReleaseTypeOK, ReleasePcs, DeployPcs, Scripts, Releases, Runtimes, Hosts
  <2>3. BackupsAreNumbered'
    BY <1>0, <2>1
    DEF ReleaseTypeOK, BackupsAreNumbered, ScriptIsOrderly, InBackups,
        ReleasePcs, DeployPcs, Scripts, Releases, Runtimes, Hosts
  <2>4. ScriptIsOrderly'
    BY <1>0, <2>1
    DEF ReleaseTypeOK, ScriptIsOrderly, ReleasePcs, DeployPcs, Scripts, Releases, Runtimes, Hosts
  <2>5. ChangesCanBeUndone'
    <3> SUFFICES ASSUME HasToBeUndone' PROVE CanBeUndone'
      BY DEF ChangesCanBeUndone
    <3>1. CanBeUndone
      BY <1>0, <2>1 DEF ChangesCanBeUndone, HasToBeUndone, Certified, Release!AtRest, ScriptIsOrderly
    <3> QED
      BY <1>0, <2>1, <3>1
      DEF CanBeUndone, HasToBeUndone, Certified, Release!AtRest, Release!Running,
        ReleaseTypeOK, BackupsAreNumbered, ScriptIsOrderly,
        ReleasePcs, DeployPcs, Scripts, Releases, Runtimes, Hosts
  <2> QED BY <2>2, <2>3, <2>4, <2>5 DEF ReleaseInv
<1>14. CASE Release!Discard
  <2>1. script' = [script EXCEPT !.pc = "finish", !.saved = Release!Gone]
    BY <1>14 DEF Release!Discard
  <2>2. script' = [pc |-> "finish", target |-> script.target, prev |-> script.prev, mutated |-> script.mutated,
                   saved |-> Release!Gone, hostMutated |-> script.hostMutated, backup |-> script.backup,
                   outcome |-> script.outcome, found |-> script.found]
    BY <1>00, <2>1, AssignSaved, Zenon
  <2>3. /\ script.pc = "discard" /\ Release!Gone \in Hosts
        /\ UNCHANGED <<rt, schema, host, origin, backups, certificate, deploys>>
    BY <1>0, <1>14 DEF Release!Discard, ReleaseTypeOK, Release!Gone, Hosts
  <2>4. ReleaseTypeOK'
    BY <1>0, <2>2, <2>3
    DEF ReleaseTypeOK, ReleasePcs, DeployPcs, Scripts, Releases, Runtimes, Hosts
  <2>5. BackupsAreNumbered'
    BY <1>0, <2>2, <2>3
    DEF ReleaseTypeOK, BackupsAreNumbered, ScriptIsOrderly, InBackups,
        ReleasePcs, DeployPcs, Scripts, Releases, Runtimes, Hosts
  <2>6. ScriptIsOrderly'
    BY <1>0, <2>2, <2>3
    DEF ReleaseTypeOK, ScriptIsOrderly, ReleasePcs, DeployPcs, Scripts, Releases, Runtimes, Hosts
  <2>7. ChangesCanBeUndone'
    <3> SUFFICES ASSUME HasToBeUndone' PROVE CanBeUndone'
      BY DEF ChangesCanBeUndone
    <3>1. CanBeUndone
      BY <1>0, <2>2, <2>3 DEF ChangesCanBeUndone, HasToBeUndone, Certified, Release!AtRest
    <3> QED
      BY <1>0, <2>2, <2>3, <3>1
      DEF CanBeUndone, HasToBeUndone, Certified, Release!AtRest, Release!Running,
        ReleaseTypeOK, BackupsAreNumbered, ScriptIsOrderly,
        ReleasePcs, DeployPcs, Scripts, Releases, Runtimes, Hosts
  <2> QED BY <2>4, <2>5, <2>6, <2>7 DEF ReleaseInv
<1>15. CASE Release!Finish
  <2>1. script' = [script EXCEPT !.pc = "idle", !.outcome = "certified"]
    BY <1>15 DEF Release!Finish
  <2>2. script' = [pc |-> "idle", target |-> script.target, prev |-> script.prev, mutated |-> script.mutated,
                   saved |-> script.saved, hostMutated |-> script.hostMutated, backup |-> script.backup,
                   outcome |-> "certified", found |-> script.found]
    BY <1>00, <2>1, AssignOutcome, Zenon
  <2>3. /\ script.pc = "finish"
        /\ UNCHANGED <<rt, schema, host, origin, backups, certificate, deploys>>
    BY <1>0, <1>15 DEF Release!Finish, ReleaseTypeOK
  <2> QED
    BY <1>0, <2>2, <2>3
    DEF ReleaseInv, ReleaseTypeOK, BackupsAreNumbered, ScriptIsOrderly,
        ChangesCanBeUndone, HasToBeUndone, CanBeUndone, InBackups, Certified,
        Release!AtRest, Release!Running,
        ReleasePcs, DeployPcs, Scripts, Releases, Runtimes, Hosts
<1>16. ASSUME NEW target \in Revisions, Release!Dispatch(target) PROVE ReleaseInv'
  <2> DEFINE before == [rt |-> rt, schema |-> schema, host |-> host, origin |-> origin]
  <2>1. target \in Nat
    BY ReleaseAssumption
  <2>2. /\ script.pc = "idle" /\ deploys' = deploys + 1 /\ origin' = "canonical"
        /\ script' = [pc |-> "resolve", target |-> target, prev |-> 0, mutated |-> FALSE,
                      saved |-> [override |-> 0, files |-> 0, active |-> FALSE],
                      hostMutated |-> FALSE, backup |-> 0, outcome |-> "none", found |-> before]
        /\ UNCHANGED <<rt, schema, host, backups, certificate>>
    BY <1>16 DEF Release!Dispatch, Release!Found, Release!Gone
  <2>3. /\ before \in Releases /\ before.rt = rt /\ before.schema = schema /\ before.host = host
    BY <1>0 DEF ReleaseTypeOK, Releases
  <2> HIDE DEF before
  <2>4. ReleaseTypeOK'
    BY <1>0, <2>1, <2>2, <2>3
    DEF ReleaseTypeOK, ReleasePcs, DeployPcs, Scripts, Releases, Runtimes, Hosts
  <2>5. BackupsAreNumbered'
    BY <1>0, <2>1, <2>2, <2>3
    DEF ReleaseTypeOK, BackupsAreNumbered, ScriptIsOrderly, InBackups,
        ReleasePcs, DeployPcs, Scripts, Releases, Runtimes, Hosts
  <2>6. ScriptIsOrderly'
    BY <1>0, <2>1, <2>2, <2>3
    DEF ReleaseTypeOK, ScriptIsOrderly, ReleasePcs, DeployPcs, Scripts, Releases, Runtimes, Hosts
  <2>7. ChangesCanBeUndone'
    <3> SUFFICES ASSUME HasToBeUndone' PROVE CanBeUndone'
      BY DEF ChangesCanBeUndone
    <3> QED
      BY <1>0, <2>2, <2>3 DEF CanBeUndone, BackupsAreNumbered, ReleaseTypeOK
  <2> QED BY <2>4, <2>5, <2>6, <2>7 DEF ReleaseInv
<1>17. CASE Release!Fail
  <2>1. /\ script.pc \in DeployPcs \ {"apply"}
        /\ script' = [pc |-> script'.pc, target |-> script.target, prev |-> script.prev, mutated |-> script.mutated,
                    saved |-> script.saved, hostMutated |-> script.hostMutated, backup |-> script.backup,
                    outcome |-> script.outcome, found |-> script.found]
        /\ script'.pc = IF script.prev = 0 THEN "exit" ELSE "cleanup"
        /\ UNCHANGED <<rt, schema, host, origin, backups, certificate, deploys>>
    BY <1>0, <1>17, ScriptWith DEF Release!Fail, Release!Goto, ReleaseTypeOK, DeployPcs, Scripts
  <2>2. ReleaseTypeOK'
    BY <1>0, <2>1
    DEF ReleaseTypeOK, ReleasePcs, DeployPcs, Scripts, Releases, Runtimes, Hosts
  <2>3. BackupsAreNumbered'
    BY <1>0, <2>1
    DEF ReleaseTypeOK, BackupsAreNumbered, ScriptIsOrderly, InBackups,
        ReleasePcs, DeployPcs, Scripts, Releases, Runtimes, Hosts
  <2>4. ScriptIsOrderly'
    BY <1>0, <2>1
    DEF ReleaseTypeOK, ScriptIsOrderly, ReleasePcs, DeployPcs, Scripts, Releases, Runtimes, Hosts
  <2>5. ChangesCanBeUndone'
    <3> SUFFICES ASSUME HasToBeUndone' PROVE CanBeUndone'
      BY DEF ChangesCanBeUndone
    <3>1. CanBeUndone
      BY <1>0, <2>1 DEF ChangesCanBeUndone, HasToBeUndone, Certified, Release!AtRest
    <3> QED
      BY <1>0, <2>1, <3>1
      DEF CanBeUndone, HasToBeUndone, Certified, Release!AtRest, Release!Running,
        ReleaseTypeOK, BackupsAreNumbered, ScriptIsOrderly,
        ReleasePcs, DeployPcs, Scripts, Releases, Runtimes, Hosts
  <2> QED BY <2>2, <2>3, <2>4, <2>5 DEF ReleaseInv
<1>18. CASE Release!Cleanup
  <2>1. CASE script.mutated
    <3>1. /\ script.pc = "cleanup" /\ rt' = [rt EXCEPT !.up = FALSE]
          /\ script' = [script EXCEPT !.pc = "restore"]
          /\ UNCHANGED <<schema, host, origin, backups, certificate, deploys>>
      BY <1>18, <2>1 DEF Release!Cleanup, Release!Goto, Release!Stopped
    <3>2. script' = [pc |-> "restore", target |-> script.target, prev |-> script.prev, mutated |-> script.mutated,
                     saved |-> script.saved, hostMutated |-> script.hostMutated, backup |-> script.backup,
                     outcome |-> script.outcome, found |-> script.found]
      BY <1>0, <3>1, ScriptWith, Zenon DEF ReleaseTypeOK
    <3>3. rt' \in Runtimes
      BY <1>0, <3>1 DEF ReleaseTypeOK, Runtimes
    <3> QED
      BY <1>0, <2>1, <3>1, <3>2, <3>3
      DEF ReleaseInv, ReleaseTypeOK, BackupsAreNumbered, ScriptIsOrderly,
        ChangesCanBeUndone, HasToBeUndone, CanBeUndone, InBackups, Certified,
        Release!AtRest, Release!Running,
        ReleasePcs, DeployPcs, Scripts, Releases, Runtimes, Hosts
  <2>2. CASE ~script.mutated
    <3>1. /\ script.pc = "cleanup"
          /\ script' = [script EXCEPT !.pc = "host", !.outcome = "undone"]
          /\ rt' = rt /\ UNCHANGED <<schema, host, origin, backups, certificate, deploys>>
      BY <1>18, <2>2 DEF Release!Cleanup
    <3>2. script' = [pc |-> "host", target |-> script.target, prev |-> script.prev, mutated |-> script.mutated,
                     saved |-> script.saved, hostMutated |-> script.hostMutated, backup |-> script.backup,
                     outcome |-> "undone", found |-> script.found]
      BY <1>00, <3>1, AssignOutcome, Zenon
    <3> QED
      BY <1>0, <2>2, <3>1, <3>2
      DEF ReleaseInv, ReleaseTypeOK, BackupsAreNumbered, ScriptIsOrderly,
        ChangesCanBeUndone, HasToBeUndone, CanBeUndone, InBackups, Certified,
        Release!AtRest, Release!Running,
        ReleasePcs, DeployPcs, Scripts, Releases, Runtimes, Hosts
  <2> QED BY <2>1, <2>2
<1>19. CASE Release!Restore
  <2>1. /\ script.pc = "restore"
        /\ script' = [pc |-> "accept", target |-> script.target, prev |-> script.prev, mutated |-> script.mutated,
                    saved |-> script.saved, hostMutated |-> script.hostMutated, backup |-> script.backup,
                    outcome |-> script.outcome, found |-> script.found]
        /\ \E b \in backups : b.id = script.backup /\ schema' = b.schema
        /\ UNCHANGED <<rt, host, origin, backups, certificate, deploys>>
    BY <1>0, <1>19, ScriptWith DEF Release!Restore, Release!Goto, ReleaseTypeOK
  <2> QED
    BY <1>0, <2>1
    DEF ReleaseInv, ReleaseTypeOK, BackupsAreNumbered, ScriptIsOrderly,
        ChangesCanBeUndone, HasToBeUndone, CanBeUndone, InBackups, Certified,
        Release!AtRest, Release!Running,
        ReleasePcs, DeployPcs, Scripts, Releases, Runtimes, Hosts
<1>20. CASE Release!Quarantine
  <2>1. script' = [script EXCEPT !.pc = "host", !.outcome = "quarantined"]
    BY <1>20 DEF Release!Quarantine
  <2>2. script' = [pc |-> "host", target |-> script.target, prev |-> script.prev, mutated |-> script.mutated,
                   saved |-> script.saved, hostMutated |-> script.hostMutated, backup |-> script.backup,
                   outcome |-> "quarantined", found |-> script.found]
    BY <1>00, <2>1, AssignOutcome, Zenon
  <2>3. /\ script.pc \in {"restore", "accept"}
        /\ rt' \in Runtimes
        /\ UNCHANGED <<schema, host, origin, backups, certificate, deploys>>
    BY <1>0, <1>20 DEF Release!Quarantine, ReleaseTypeOK, Release!Stopped, Runtimes
  <2> QED
    BY <1>0, <2>2, <2>3
    DEF ReleaseInv, ReleaseTypeOK, BackupsAreNumbered, ScriptIsOrderly,
        ChangesCanBeUndone, HasToBeUndone, CanBeUndone, InBackups, Certified,
        Release!AtRest, Release!Running,
        ReleasePcs, DeployPcs, Scripts, Releases, Runtimes, Hosts
<1>21. CASE Release!RollBack
  <2>1. /\ script.pc = "accept" /\ UNCHANGED <<schema, host, origin, backups, certificate, deploys>>
        /\ \/ /\ rt' = [rev |-> script.prev, up |-> TRUE]
              /\ script' = [script EXCEPT !.pc = "host", !.outcome = "undone"]
           \/ /\ rt' \in {rt, Release!Removed, Release!Running(script.prev)}
              /\ script' = [script EXCEPT !.pc = "host", !.outcome = "uncertified"]
    BY <1>21 DEF Release!RollBack, Release!Running
  <2>2. \/ /\ rt' = [rev |-> script.prev, up |-> TRUE]
           /\ script' = [pc |-> "host", target |-> script.target, prev |-> script.prev, mutated |-> script.mutated,
                       saved |-> script.saved, hostMutated |-> script.hostMutated, backup |-> script.backup,
                       outcome |-> "undone", found |-> script.found]
        \/ script' = [pc |-> "host", target |-> script.target, prev |-> script.prev, mutated |-> script.mutated,
                       saved |-> script.saved, hostMutated |-> script.hostMutated, backup |-> script.backup,
                       outcome |-> "uncertified", found |-> script.found]
    BY <1>00, <2>1, AssignOutcome, Zenon
  <2>3. rt' \in Runtimes
    <3>1. script.prev \in Nat /\ rt \in Runtimes
      BY <1>0 DEF ReleaseTypeOK, Scripts
    <3>2. Release!Removed \in Runtimes /\ Release!Running(script.prev) \in Runtimes
      BY <3>1 DEF Release!Removed, Release!Running, Runtimes
    <3> QED BY <2>1, <3>1, <3>2 DEF Release!Running
  <2>4. ReleaseTypeOK'
    BY <1>0, <2>1, <2>2, <2>3
    DEF ReleaseTypeOK, ReleasePcs, DeployPcs, Scripts, Releases, Runtimes, Hosts
  <2>5. BackupsAreNumbered'
    BY <1>0, <2>1, <2>2, <2>3
    DEF ReleaseTypeOK, BackupsAreNumbered, ScriptIsOrderly, InBackups,
        ReleasePcs, DeployPcs, Scripts, Releases, Runtimes, Hosts
  <2>6. ScriptIsOrderly'
    BY <1>0, <2>1, <2>2, <2>3
    DEF ReleaseTypeOK, ScriptIsOrderly, ReleasePcs, DeployPcs, Scripts, Releases, Runtimes, Hosts
  <2>7. ChangesCanBeUndone'
    <3> SUFFICES ASSUME HasToBeUndone' PROVE CanBeUndone'
      BY DEF ChangesCanBeUndone
    <3>1. CanBeUndone
      BY <1>0, <2>1, <2>2, <2>3 DEF ChangesCanBeUndone, HasToBeUndone, Certified, Release!AtRest
    <3> QED
      BY <1>0, <2>1, <2>2, <2>3, <3>1
      DEF CanBeUndone, HasToBeUndone, Certified, Release!AtRest, Release!Running,
        ReleaseTypeOK, BackupsAreNumbered, ScriptIsOrderly,
        ReleasePcs, DeployPcs, Scripts, Releases, Runtimes, Hosts
  <2> QED BY <2>4, <2>5, <2>6, <2>7 DEF ReleaseInv
<1>22. CASE Release!RestoreHost
  <2>1. /\ script.pc = "host" /\ script.hostMutated /\ host' = script.saved
        /\ rt' = Release!Restarted(script.saved) /\ rt' \in Runtimes
        /\ script.saved.active => rt' = [rev |-> script.saved.override, up |-> TRUE]
        /\ script' = [pc |-> "retain", target |-> script.target, prev |-> script.prev, mutated |-> script.mutated,
                    saved |-> script.saved, hostMutated |-> script.hostMutated, backup |-> script.backup,
                    outcome |-> script.outcome, found |-> script.found]
        /\ UNCHANGED <<schema, origin, backups, certificate, deploys>>
    BY <1>0, <1>22, ScriptWith
    DEF Release!RestoreHost, Release!Goto, Release!Restarted, Release!Running,
        Release!Stopped, ReleaseTypeOK, Runtimes, Hosts, Scripts
  <2> QED
    BY <1>0, <2>1
    DEF ReleaseInv, ReleaseTypeOK, BackupsAreNumbered, ScriptIsOrderly,
        ChangesCanBeUndone, HasToBeUndone, CanBeUndone, InBackups, Certified,
        Release!AtRest, Release!Running,
        ReleasePcs, DeployPcs, Scripts, Releases, Runtimes, Hosts
<1>23. CASE Release!RestoreHostPartly
  <2> DEFINE outcome == IF script.outcome = "undone" THEN "uncertified" ELSE script.outcome
  <2>1. script' = [script EXCEPT !.pc = "retain", !.outcome = outcome]
    BY <1>23 DEF Release!RestoreHostPartly
  <2> HIDE DEF outcome
  <2>2. script' = [pc |-> "retain", target |-> script.target, prev |-> script.prev, mutated |-> script.mutated,
                   saved |-> script.saved, hostMutated |-> script.hostMutated, backup |-> script.backup,
                   outcome |-> outcome, found |-> script.found]
    BY <1>00, <2>1, AssignOutcome, Zenon
  <2>3. /\ script.pc = "host" /\ script.hostMutated
        /\ host' \in {[script.saved EXCEPT !.active = FALSE], [script.saved EXCEPT !.files = 0]}
        /\ rt' = Release!Restarted(host')
        /\ UNCHANGED <<schema, origin, backups, certificate, deploys>>
    BY <1>23 DEF Release!RestoreHostPartly
  <2>4. host' \in Hosts /\ script.saved \in Hosts
    <3>1. script.saved \in Hosts
      BY <1>00 DEF Scripts
    <3>2. \/ host' = [override |-> script.saved.override, files |-> script.saved.files,
                      active |-> FALSE]
          \/ host' = [override |-> script.saved.override, files |-> 0,
                      active |-> script.saved.active]
      BY <2>3, <3>1, HostWith, Zenon
    <3>3. \A u \in BOOLEAN, n \in Nat :
             [override |-> script.saved.override, files |-> n, active |-> u] \in Hosts
      BY <3>1 DEF Hosts
    <3>4. script.saved.files \in Nat /\ script.saved.active \in BOOLEAN
      BY <3>1 DEF Hosts
    <3> QED BY <3>1, <3>2, <3>3, <3>4
  <2>5. rt' \in Runtimes
    BY <1>0, <2>3, <2>4
    DEF Release!Restarted, Release!Running, Release!Stopped, ReleaseTypeOK, Runtimes, Hosts
  <2> QED
    BY <1>0, <2>2, <2>3, <2>4, <2>5
    DEF outcome, ReleaseInv, ReleaseTypeOK, BackupsAreNumbered, ScriptIsOrderly,
        ChangesCanBeUndone, HasToBeUndone, CanBeUndone, InBackups, Certified,
        Release!AtRest, Release!Running,
        ReleasePcs, DeployPcs, Scripts, Releases, Runtimes, Hosts
<1>24. CASE Release!NoHostRestore
  <2>1. /\ script.pc = "host" /\ ~script.hostMutated
        /\ script' = [pc |-> "retain", target |-> script.target, prev |-> script.prev, mutated |-> script.mutated,
                    saved |-> script.saved, hostMutated |-> script.hostMutated, backup |-> script.backup,
                    outcome |-> script.outcome, found |-> script.found]
        /\ UNCHANGED <<rt, schema, host, origin, backups, certificate, deploys>>
    BY <1>0, <1>24, ScriptWith DEF Release!NoHostRestore, Release!Goto, ReleaseTypeOK
  <2> QED
    BY <1>0, <2>1
    DEF ReleaseInv, ReleaseTypeOK, BackupsAreNumbered, ScriptIsOrderly,
        ChangesCanBeUndone, HasToBeUndone, CanBeUndone, InBackups, Certified,
        Release!AtRest, Release!Running,
        ReleasePcs, DeployPcs, Scripts, Releases, Runtimes, Hosts
<1>25. CASE Release!Retain
  <2>1. /\ script.pc = "retain"
        /\ script' = [pc |-> "exit", target |-> script.target, prev |-> script.prev, mutated |-> script.mutated,
                    saved |-> script.saved, hostMutated |-> script.hostMutated, backup |-> script.backup,
                    outcome |-> script.outcome, found |-> script.found]
        /\ backups' \subseteq backups
        /\ script.backup # 0 => \E b \in backups' : b.id = script.backup
        /\ certificate.backup # 0 => \E b \in backups' : b.id = certificate.backup
        /\ UNCHANGED <<rt, schema, host, origin, certificate, deploys>>
    BY <1>0, <1>25, ScriptWith, KeptAreThere DEF Release!Retain, Release!Goto, ReleaseTypeOK
  <2>2. ReleaseTypeOK'
    BY <1>0, <2>1
    DEF ReleaseTypeOK, ReleasePcs, DeployPcs, Scripts, Releases, Runtimes, Hosts
  <2>3. BackupsAreNumbered'
    BY <1>0, <2>1
    DEF ReleaseTypeOK, BackupsAreNumbered, ScriptIsOrderly, InBackups,
        ReleasePcs, DeployPcs, Scripts, Releases, Runtimes, Hosts
  <2>4. ScriptIsOrderly'
    BY <1>0, <2>1
    DEF ReleaseTypeOK, ScriptIsOrderly, ReleasePcs, DeployPcs, Scripts, Releases, Runtimes, Hosts
  <2>5. ChangesCanBeUndone'
    <3> SUFFICES ASSUME HasToBeUndone' PROVE CanBeUndone'
      BY DEF ChangesCanBeUndone
    <3>1. CanBeUndone
      BY <1>0, <2>1 DEF ChangesCanBeUndone, HasToBeUndone, Certified, Release!AtRest
    <3> QED
      BY <1>0, <2>1, <3>1
      DEF CanBeUndone, HasToBeUndone, Certified, Release!AtRest, Release!Running,
        ReleaseTypeOK, BackupsAreNumbered, ScriptIsOrderly,
        ReleasePcs, DeployPcs, Scripts, Releases, Runtimes, Hosts
  <2> QED BY <2>2, <2>3, <2>4, <2>5 DEF ReleaseInv
<1>26. CASE Release!Exit
  <2> DEFINE outcome == IF script.outcome = "none" THEN "undone" ELSE script.outcome
  <2>1. script' = [script EXCEPT !.pc = "idle", !.outcome = outcome]
    BY <1>26 DEF Release!Exit
  <2> HIDE DEF outcome
  <2>2. script' = [pc |-> "idle", target |-> script.target, prev |-> script.prev, mutated |-> script.mutated,
                   saved |-> script.saved, hostMutated |-> script.hostMutated, backup |-> script.backup,
                   outcome |-> outcome, found |-> script.found]
    BY <1>00, <2>1, AssignOutcome, Zenon
  <2>3. /\ script.pc = "exit" /\ origin' = script.found.origin
        /\ UNCHANGED <<rt, schema, host, backups, certificate, deploys>>
    BY <1>26 DEF Release!Exit
  <2> QED
    BY <1>0, <2>2, <2>3
    DEF outcome, ReleaseInv, ReleaseTypeOK, BackupsAreNumbered, ScriptIsOrderly,
        ChangesCanBeUndone, HasToBeUndone, CanBeUndone, InBackups, Certified,
        Release!AtRest, Release!Running,
        ReleasePcs, DeployPcs, Scripts, Releases, Runtimes, Hosts
<1>27. CASE Release!Kill
  <2>1. script' = [script EXCEPT !.pc = "exit", !.outcome = "killed"]
    BY <1>27 DEF Release!Kill
  <2>2. script' = [pc |-> "exit", target |-> script.target, prev |-> script.prev, mutated |-> script.mutated,
                   saved |-> script.saved, hostMutated |-> script.hostMutated, backup |-> script.backup,
                   outcome |-> "killed", found |-> script.found]
    BY <1>00, <2>1, AssignOutcome, Zenon
  <2>3. /\ script.pc \notin {"idle", "exit"}
        /\ UNCHANGED <<rt, schema, host, origin, backups, certificate, deploys>>
    BY <1>0, <1>27 DEF Release!Kill, ReleaseTypeOK
  <2> QED
    BY <1>0, <2>2, <2>3
    DEF ReleaseInv, ReleaseTypeOK, BackupsAreNumbered, ScriptIsOrderly,
        ChangesCanBeUndone, HasToBeUndone, CanBeUndone, InBackups, Certified,
        Release!AtRest, Release!Running,
        ReleasePcs, DeployPcs, Scripts, Releases, Runtimes, Hosts
<1>28. CASE Release!Heal
  <2>1. /\ ~rt.up /\ rt' \in Runtimes
        /\ UNCHANGED <<script, schema, host, origin, backups, certificate, deploys>>
    BY <1>0, <1>28 DEF Release!Heal, Release!Running, ReleaseTypeOK, Runtimes
  <2> QED
    BY <1>0, <2>1
    DEF ReleaseInv, ReleaseTypeOK, BackupsAreNumbered, ScriptIsOrderly,
        ChangesCanBeUndone, HasToBeUndone, CanBeUndone, InBackups, Certified,
        Release!AtRest, Release!Running,
        ReleasePcs, DeployPcs, Scripts, Releases, Runtimes, Hosts
<1>29. CASE UNCHANGED Release!vars
  BY <1>0, <1>29
  DEF Release!vars, ReleaseInv, ReleaseTypeOK, BackupsAreNumbered, ScriptIsOrderly,
        ChangesCanBeUndone, HasToBeUndone, CanBeUndone, InBackups, Certified,
        Release!AtRest, Release!Running,
        ReleasePcs, DeployPcs, Scripts, Releases, Runtimes, Hosts
<1> QED
  BY <1>1, <1>2, <1>3, <1>4, <1>5, <1>6, <1>7, <1>8, <1>9, <1>10, <1>11, <1>12, <1>13, <1>14, <1>15, <1>16, <1>17, <1>18, <1>19, <1>20, <1>21, <1>22, <1>23, <1>24, <1>25, <1>26, <1>27, <1>28, <1>29
  DEF Release!Next, Release!Refuse, Release!vars, Release!Deploy, Release!CleanUp

-----------------------------------------------------------------------------
(***************************************************************************)
(* The migrations (SchemaMigration).  A database is as it was found, or on *)
(* the way from a sound one to the present schema (OnTheWay), whatever     *)
(* commands run beside each other, since a command writes only where the   *)
(* database is sound or on its way (WritersAreSound), and no transaction   *)
(* leads off the way.                                                      *)
(***************************************************************************)

Objects == Schema!Tables \cup {"history", "probe", "view", "indexes"}
Databases == [objects : SUBSET Objects, drift : SUBSET Objects, applied : SUBSET Nat,
              version : Nat, wal : BOOLEAN]
CommandPcs == {"idle", "judge", "check", "bootstrap", "pending", "apply", "wal", "postflight",
               "ok", "failed", "refused"}
CommandStates == [pc : CommandPcs, seen : SUBSET Objects, applied : SUBSET Nat, next : Nat]

SchemaTypeOK ==
  /\ db \in Databases
  /\ found \in Schema!Found
  /\ command \in [Commands -> CommandStates]
  /\ backend \in [pc : {"down", "verify", "up"}, version : Nat]

Made(n) == UNION {Schema!Introduces[v] : v \in 1..n}

\* The tables of a sound database without a history.
Unversioned == {{}, {"runtime"}, {"runtime", "execution"}}

\* n migrations have been applied to a sound database.
OnTheWayAt(n) ==
  /\ db.applied = 1..n /\ db.version = n /\ db.drift = {}
  /\ \E tables \in Unversioned : db.objects = {"history"} \cup Made(n) \cup tables

OnTheWay == \E n \in 0..10 : OnTheWayAt(n)

\* What was found is sound, and not yet on the way.
SoundAsFound ==
  db = found /\ \E tables \in Unversioned : db = Schema!Database(tables, {}, 0)

Drifted == [Schema!Released(7) EXCEPT !.drift = {"decisions"}]

CommandIsSound(state) ==
  /\ state.pc = "judge" => "history" \in state.seen \/ state.seen = found.objects
  /\ state.pc = "check" => OnTheWay \/ db = Drifted
  /\ state.pc = "bootstrap" => OnTheWay \/ SoundAsFound
  /\ state.pc \in {"pending", "apply", "wal", "postflight", "ok"} => OnTheWay
  /\ state.pc = "apply" => state.next \in 1..10
  /\ state.pc = "ok" => db.version = 10

WritersAreSound == \A c \in Commands : CommandIsSound(command[c])

BackendIsCurrent ==
  /\ backend.pc = "verify" /\ backend.version = 10 => db.version = 10
  /\ backend.pc = "up" => db.version = 10

SchemaInv ==
  /\ SchemaTypeOK /\ (db = found \/ OnTheWay) /\ WritersAreSound /\ BackendIsCurrent

-----------------------------------------------------------------------------
(* What the migrations make. *)

LEMMA IntroducesIs ==
  /\ Schema!Introduces[1] = {"probe"} /\ Schema!Introduces[2] = {"runtime", "execution"}
  /\ Schema!Introduces[3] = {"metadata", "view"} /\ Schema!Introduces[4] = {"decisions"}
  /\ Schema!Introduces[5] = {"shadow"} /\ Schema!Introduces[6] = {"entry"}
  /\ Schema!Introduces[7] = {"advisories"} /\ Schema!Introduces[8] = {"capture"}
  /\ Schema!Introduces[9] = {"resolution"} /\ Schema!Introduces[10] = {"indexes"}
  /\ \A v \in 1..10 : Schema!Introduces[v] \subseteq Objects
<1>1. /\ Schema!Introduces[1] = {"probe"} /\ Schema!Introduces[2] = {"runtime", "execution"}
      /\ Schema!Introduces[3] = {"metadata", "view"} /\ Schema!Introduces[4] = {"decisions"}
      /\ Schema!Introduces[5] = {"shadow"} /\ Schema!Introduces[6] = {"entry"}
      /\ Schema!Introduces[7] = {"advisories"} /\ Schema!Introduces[8] = {"capture"}
      /\ Schema!Introduces[9] = {"resolution"} /\ Schema!Introduces[10] = {"indexes"}
  BY DEF Schema!Introduces
<1>2. ASSUME NEW v \in 1..10 PROVE Schema!Introduces[v] \subseteq Objects
  <2>1. v \in {1, 2, 3, 4, 5, 6, 7, 8, 9, 10}
    OBVIOUS
  <2> QED BY <1>1, <2>1 DEF Objects, Schema!Tables
<1> QED BY <1>1, <1>2

LEMMA MadeIs ==
  /\ Made(0) = {} /\ Made(1) = {"probe"}
  /\ \A n \in Nat : Made(n + 1) = Made(n) \cup Schema!Introduces[n + 1]
  /\ \A n \in Nat, v \in Nat \ {0} : v <= n => Schema!Introduces[v] \subseteq Made(n)
  /\ \A n \in 0..10 : Made(n) \subseteq Objects
<1>1. 1..0 = {} /\ 1..1 = {1} /\ \A n \in Nat : 1..(n + 1) = 1..n \cup {n + 1}
  OBVIOUS
<1>0. \A n, x : x \in Made(n) <=> \E v \in 1..n : x \in Schema!Introduces[v]
  BY Zenon DEF Made
<1>2. Made(0) = {} /\ Made(1) = {"probe"}
  BY <1>0, <1>1, IntroducesIs
<1>3. ASSUME NEW n \in Nat PROVE Made(n + 1) = Made(n) \cup Schema!Introduces[n + 1]
  <2>1. \A x : x \in Made(n + 1) <=> x \in Made(n) \/ x \in Schema!Introduces[n + 1]
    BY <1>0, <1>1
  <2> QED BY <2>1
<1>4. ASSUME NEW n \in Nat, NEW v \in Nat \ {0}, v <= n PROVE Schema!Introduces[v] \subseteq Made(n)
  <2>1. v \in 1..n
    BY <1>4
  <2> QED BY <1>0, <2>1
<1>5. ASSUME NEW n \in 0..10 PROVE Made(n) \subseteq Objects
  <2>1. \A v \in 1..n : v \in 1..10
    OBVIOUS
  <2> QED BY <1>0, <2>1, IntroducesIs, Zenon
<1> QED BY <1>2, <1>3, <1>4, <1>5

\* What a database on its way has, by the migrations that were applied.
LEMMA MadeSoFar ==
  ASSUME NEW n \in 1..10
  PROVE  /\ "probe" \in Made(n)
         /\ n >= 2 => {"runtime", "execution"} \subseteq Made(n)
         /\ n >= 3 => {"metadata", "view"} \subseteq Made(n)
         /\ n >= 4 => "decisions" \in Made(n)
         /\ n >= 5 => "shadow" \in Made(n)
         /\ n >= 6 => "entry" \in Made(n)
         /\ n >= 7 => "advisories" \in Made(n)
         /\ n >= 8 => "capture" \in Made(n)
         /\ n >= 9 => "resolution" \in Made(n)
         /\ n >= 10 => "indexes" \in Made(n)
<1>1. \A v \in 1..10 : v <= n => Schema!Introduces[v] \subseteq Made(n)
  BY MadeIs
<1> QED BY <1>1, IntroducesIs

LEMMA AppliedAreCounted ==
  ASSUME NEW n \in Nat, NEW S, S = 1..n
  PROVE  Schema!Cardinality(S) = n
<1>1. Schema!Cardinality(S) = Cardinality(S)
  BY Zenon DEF Cardinality, Schema!Cardinality
<1> QED BY <1>1, FS_Interval

\* On its way, a database is accepted by the preflight, but before the first migration.
LEMMA OnTheWayIsCompatible ==
  ASSUME NEW n \in 1..10, OnTheWayAt(n)
  PROVE  Schema!Compatible
<1>1. PICK tables \in Unversioned : db.objects = {"history"} \cup Made(n) \cup tables
  BY DEF OnTheWayAt
<1>2. db.applied = 1..n /\ db.version = n /\ db.drift = {} /\ Schema!Cardinality(db.applied) = n
  BY AppliedAreCounted DEF OnTheWayAt
<1>3. Schema!HistoryIsSound /\ db.applied # {} /\ "probe" \in db.objects
  <2>1. 1 \in 1..n
    OBVIOUS
  <2> QED BY <1>1, <1>2, <2>1, MadeSoFar DEF Schema!HistoryIsSound
<1>4. CASE n = 1
  <2>1. db.objects = {"history", "probe"} \cup tables
    BY <1>1, <1>4, MadeIs
  <2>2. Schema!PendingIsSound
    BY <1>2, <1>4, <2>1
    DEF Schema!PendingIsSound, Schema!Verified, Schema!Canonical, Schema!Tables,
        Schema!LegacyOptional, Unversioned
  <2> QED BY <1>2, <1>3, <1>4, <2>2 DEF Schema!Compatible, Schema!AppliedIsSound
<1>5. CASE n = 2
  <2>1. {"runtime", "execution"} \subseteq db.objects
    BY <1>1, <1>5, MadeSoFar
  <2>2. Schema!Verified({"runtime", "execution"}, {}, TRUE, 2)
    BY <1>2, <1>5, <2>1 DEF Schema!Verified, Schema!Canonical
  <2> QED BY <1>2, <1>3, <1>5, <2>2 DEF Schema!Compatible, Schema!AppliedIsSound
<1>6. CASE n \in 3..9
  <2>1. n \in {3, 4, 5, 6, 7, 8, 9}
    BY <1>6
  <2>2. Schema!Tables \ Schema!Later(n) \subseteq Made(n) /\ "view" \in Made(n)
    BY <2>1, MadeSoFar DEF Schema!Tables, Schema!Later
  <2>3. Schema!VerifiedAll(Schema!Later(n), TRUE, n)
    BY <1>1, <1>2, <2>2 DEF Schema!VerifiedAll, Schema!Verified, Schema!Canonical
  <2> QED BY <1>2, <1>3, <1>6, <2>3 DEF Schema!Compatible, Schema!AppliedIsSound
<1>7. CASE n = 10
  <2>1. Schema!Tables \subseteq Made(n) /\ "view" \in Made(n) /\ "indexes" \in Made(n)
    BY <1>7, MadeSoFar DEF Schema!Tables
  <2>2. Schema!VerifiedAll({}, FALSE, 10)
    BY <1>1, <1>2, <1>7, <2>1
    DEF Schema!VerifiedAll, Schema!Verified, Schema!Canonical, Schema!Indexed
  <2> QED BY <1>2, <1>3, <1>7, <2>2 DEF Schema!Compatible, Schema!AppliedIsSound, Schema!Current
<1> QED BY <1>4, <1>5, <1>6, <1>7

-----------------------------------------------------------------------------
(* What a command finds. *)

Gapped == [Schema!Released(5) EXCEPT !.applied = {1, 2, 4, 5}]

LEMMA ReleasedIs ==
  ASSUME NEW n \in 0..10
  PROVE  /\ Schema!Released(n) = [objects |-> {"history"} \cup Made(n), drift |-> {},
                                  applied |-> 1..n, version |-> n, wal |-> FALSE]
         /\ Schema!Released(n) \in Databases
         /\ db = Schema!Released(n) => OnTheWayAt(n)
<1>1. Schema!Released(n) = [objects |-> {"history"} \cup Made(n), drift |-> {},
                            applied |-> 1..n, version |-> n, wal |-> FALSE]
  BY DEF Schema!Released, Schema!Database, Made
<1>2. Made(n) \subseteq Objects /\ "history" \in Objects /\ 1..n \subseteq Nat /\ n \in Nat
  BY MadeIs DEF Objects
<1>3. Schema!Released(n) \in Databases
  BY <1>1, <1>2 DEF Databases
<1>4. ASSUME db = Schema!Released(n) PROVE OnTheWayAt(n)
  <2>1. /\ db.objects = {"history"} \cup Made(n) /\ db.drift = {}
        /\ db.applied = 1..n /\ db.version = n
    BY <1>1, <1>4
  <2>2. {} \in Unversioned /\ db.objects = {"history"} \cup Made(n) \cup {}
    BY <2>1 DEF Unversioned
  <2> QED BY <2>1, <2>2 DEF OnTheWayAt
<1> QED BY <1>1, <1>3, <1>4

\* A database with one of its parts replaced.
LEMMA DatabaseWith ==
  ASSUME NEW m \in Databases, NEW u
  PROVE  /\ [m EXCEPT !.objects = u] = [objects |-> u, drift |-> m.drift,
              applied |-> m.applied, version |-> m.version, wal |-> m.wal]
         /\ [m EXCEPT !.drift = u] = [objects |-> m.objects, drift |-> u,
              applied |-> m.applied, version |-> m.version, wal |-> m.wal]
         /\ [m EXCEPT !.applied = u] = [objects |-> m.objects, drift |-> m.drift,
              applied |-> u, version |-> m.version, wal |-> m.wal]
         /\ [m EXCEPT !.version = u] = [objects |-> m.objects, drift |-> m.drift,
              applied |-> m.applied, version |-> u, wal |-> m.wal]
         /\ [m EXCEPT !.wal = u] = [objects |-> m.objects, drift |-> m.drift,
              applied |-> m.applied, version |-> m.version, wal |-> u]
  BY SMT DEF Databases

LEMMA DriftedIs ==
  /\ Drifted = [objects |-> {"history"} \cup Made(7), drift |-> {"decisions"},
                applied |-> 1..7, version |-> 7, wal |-> FALSE]
  /\ Drifted \in Databases /\ {"history", "probe", "decisions"} \subseteq Drifted.objects
<1>1. Schema!Released(7) \in Databases
  BY ReleasedIs
<1>2. Drifted = [objects |-> {"history"} \cup Made(7), drift |-> {"decisions"},
                 applied |-> 1..7, version |-> 7, wal |-> FALSE]
  <2>1. Drifted = [objects |-> Schema!Released(7).objects, drift |-> {"decisions"},
                   applied |-> Schema!Released(7).applied, version |-> Schema!Released(7).version,
                   wal |-> Schema!Released(7).wal]
    BY <1>1, DatabaseWith, Zenon DEF Drifted
  <2>2. /\ Schema!Released(7).objects = {"history"} \cup Made(7)
        /\ Schema!Released(7).applied = 1..7 /\ Schema!Released(7).version = 7
        /\ Schema!Released(7).wal = FALSE
    BY ReleasedIs
  <2> QED BY <2>1, <2>2, Zenon
<1>3. Made(7) \subseteq Objects /\ "history" \in Objects /\ "decisions" \in Objects
      /\ 1..7 \subseteq Nat /\ "probe" \in Made(7) /\ "decisions" \in Made(7)
  BY MadeIs, MadeSoFar DEF Objects, Schema!Tables
<1> QED BY <1>2, <1>3 DEF Databases

LEMMA GappedIs ==
  /\ Gapped = [objects |-> {"history"} \cup Made(5), drift |-> {},
               applied |-> {1, 2, 4, 5}, version |-> 5, wal |-> FALSE]
  /\ Gapped \in Databases
<1>1. Schema!Released(5) \in Databases
  BY ReleasedIs
<1>2. Gapped = [objects |-> {"history"} \cup Made(5), drift |-> {},
                applied |-> {1, 2, 4, 5}, version |-> 5, wal |-> FALSE]
  <2>1. Gapped = [objects |-> Schema!Released(5).objects, drift |-> Schema!Released(5).drift,
                  applied |-> {1, 2, 4, 5}, version |-> Schema!Released(5).version,
                  wal |-> Schema!Released(5).wal]
    BY <1>1, DatabaseWith, Zenon DEF Gapped
  <2>2. /\ Schema!Released(5).objects = {"history"} \cup Made(5) /\ Schema!Released(5).drift = {}
        /\ Schema!Released(5).version = 5 /\ Schema!Released(5).wal = FALSE
    BY ReleasedIs
  <2> QED BY <2>1, <2>2, Zenon
<1>3. Made(5) \subseteq Objects /\ "history" \in Objects /\ {1, 2, 4, 5} \subseteq Nat
  BY MadeIs DEF Objects
<1> QED BY <1>2, <1>3 DEF Databases

LEMMA UnversionedIs ==
  ASSUME NEW objects \in SUBSET Objects, NEW n \in Nat
  PROVE  Schema!Database(objects, {}, n) \in Databases
<1>1. \A u \in BOOLEAN :
        [objects |-> objects, drift |-> {}, applied |-> {}, version |-> n, wal |-> u] \in Databases
  BY DEF Databases
<1>2. FALSE \in BOOLEAN
  OBVIOUS
<1> QED BY <1>1, <1>2, Zenon DEF Schema!Database

\* The sound ones, and the others.
LEMMA FoundIs ==
  ASSUME db = found, found \in Schema!Found
  PROVE  /\ db \in Databases
         /\ \/ OnTheWay
            \/ SoundAsFound
            \/ db = Schema!Database({"execution"}, {}, 0)
            \/ db = Schema!Database({"runtime"}, {}, 3)
            \/ db = Drifted
            \/ db = Gapped
<1>1. CASE db \in {Schema!Released(2), Schema!Released(9), Schema!Released(10)}
  BY <1>1, ReleasedIs DEF OnTheWay
<1>2. CASE db \in {Schema!Blank, Schema!Database({"runtime"}, {}, 0),
                   Schema!Database({"runtime", "execution"}, {}, 0)}
  <2>1. \E tables \in Unversioned : db = Schema!Database(tables, {}, 0)
    BY <1>2 DEF Schema!Blank, Unversioned
  <2>2. \A tables \in Unversioned : tables \in SUBSET Objects
    BY DEF Unversioned, Objects, Schema!Tables
  <2>3. db \in Databases
    BY <2>1, <2>2, UnversionedIs
  <2> QED BY <2>1, <2>3 DEF SoundAsFound
<1>3. CASE db \in {Schema!Database({"execution"}, {}, 0), Schema!Database({"runtime"}, {}, 3)}
  <2>1. {"execution"} \in SUBSET Objects /\ {"runtime"} \in SUBSET Objects /\ 0 \in Nat /\ 3 \in Nat
    BY DEF Objects, Schema!Tables
  <2>2. db \in Databases
    BY <1>3, <2>1, UnversionedIs
  <2> QED BY <1>3, <2>2
<1>4. CASE db \in {Drifted, Gapped}
  BY <1>4, DriftedIs, GappedIs
<1> QED BY <1>1, <1>2, <1>3, <1>4 DEF Schema!Found, Drifted, Gapped

\* Without a history, only a sound database is judged to be one.
LEMMA JudgedIsSound ==
  ASSUME db = found, found \in Schema!Found, (db.objects = {} /\ db.version = 0) \/ Schema!LegacyIsSound
  PROVE  OnTheWay \/ SoundAsFound
<1>1. db.version = 0
  BY DEF Schema!LegacyIsSound, Schema!Verified
<1>2. CASE db = Schema!Database({"execution"}, {}, 0)
  BY <1>2 DEF Schema!Database, Schema!LegacyIsSound, Schema!Verified, Schema!Tables,
              Schema!LegacyOptional
<1>3. CASE db = Schema!Database({"runtime"}, {}, 3)
  BY <1>1, <1>3 DEF Schema!Database
<1>4. CASE db \in {Drifted, Gapped}
  BY <1>1, <1>4, DriftedIs, GappedIs
<1> QED BY <1>2, <1>3, <1>4, FoundIs

\* With one, the one database that is not sound is told by its schema.
LEMMA HistoryTells ==
  ASSUME db = found, found \in Schema!Found, Schema!HistoryIsSound, db.applied # {}
  PROVE  OnTheWay \/ db = Drifted
<1>1. CASE db \in {Schema!Database({"execution"}, {}, 0), Schema!Database({"runtime"}, {}, 3)}
  BY <1>1 DEF Schema!Database
<1>2. CASE SoundAsFound
  BY <1>2 DEF SoundAsFound, Schema!Database
<1>3. CASE db = Gapped
  <2>1. db.applied = {1, 2, 4, 5} /\ db.version = 5
    BY <1>3, GappedIs
  <2>2. db.applied = 1..5
    BY <2>1 DEF Schema!HistoryIsSound
  <2> QED BY <2>1, <2>2
<1> QED BY <1>1, <1>2, <1>3, FoundIs

LEMMA DriftIsRefused ==
  ASSUME db = Drifted, NEW n
  PROVE  ~Schema!AppliedIsSound(n)
<1>1. /\ db.version = 7 /\ db.drift = {"decisions"}
      /\ {"history", "probe", "decisions"} \subseteq db.objects
  BY DriftedIs
<1>2. "decisions" \in Schema!Tables
  BY DEF Schema!Tables
<1>3. ~Schema!Canonical(Schema!Tables \cap db.objects)
  BY <1>1, <1>2 DEF Schema!Canonical
<1>4. \A optional, noIndexes, m : ~Schema!Verified(Schema!Tables, optional, noIndexes, m)
  BY <1>3 DEF Schema!Verified
<1>5. ~Schema!Verified({"runtime", "execution"}, {}, TRUE, 2)
  BY <1>1 DEF Schema!Verified
<1>6. ~Schema!PendingIsSound
  BY <1>1, <1>2, <1>4 DEF Schema!PendingIsSound
<1> QED BY <1>4, <1>5, <1>6 DEF Schema!AppliedIsSound, Schema!VerifiedAll

\* The present version is that of the whole schema.
LEMMA PresentIsWhole ==
  ASSUME db = found \/ OnTheWay, found \in Schema!Found, db.version = 10
  PROVE  OnTheWay /\ Schema!Whole
<1>1. CASE OnTheWay
  <2>1. OnTheWayAt(10)
    BY <1>1 DEF OnTheWay, OnTheWayAt
  <2>2. Made(10) \subseteq db.objects /\ db.applied = 1..10 /\ db.drift = {}
    BY <2>1 DEF OnTheWayAt
  <2> QED BY <1>1, <2>2 DEF Schema!Whole, Schema!Current, Made
<1>2. CASE db = found
  <2>1. ~SoundAsFound /\ db # Schema!Database({"execution"}, {}, 0)
        /\ db # Schema!Database({"runtime"}, {}, 3)
    BY DEF SoundAsFound, Schema!Database
  <2>2. db # Drifted /\ db # Gapped
    BY DriftedIs, GappedIs
  <2> QED BY <1>1, <1>2, <2>1, <2>2, FoundIs
<1> QED BY <1>1, <1>2

-----------------------------------------------------------------------------
(* The steps of the migrations. *)

LEMMA SchemaInitially == Schema!Init => SchemaInv
<1> SUFFICES ASSUME Schema!Init PROVE SchemaInv
  OBVIOUS
<1>1. db = found /\ found \in Schema!Found
  BY DEF Schema!Init
<1>2. db \in Databases
  BY <1>1, FoundIs
<1>3. \A c \in Commands : command[c] = [pc |-> "idle", seen |-> {}, applied |-> {}, next |-> 0]
  BY DEF Schema!Init, Schema!Idle
<1>4. [pc |-> "idle", seen |-> {}, applied |-> {}, next |-> 0] \in CommandStates
  BY DEF CommandStates, CommandPcs
<1>5. command \in [Commands -> CommandStates]
  BY <1>3, <1>4 DEF Schema!Init, Schema!Idle
<1>6. WritersAreSound
  BY <1>3 DEF WritersAreSound, CommandIsSound
<1>7. backend \in [pc : {"down", "verify", "up"}, version : Nat] /\ BackendIsCurrent
  BY DEF Schema!Init, BackendIsCurrent
<1> QED BY <1>1, <1>2, <1>5, <1>6, <1>7 DEF SchemaInv, SchemaTypeOK

\* A command that moves has to be sound itself, and to leave the database on its way
\* when it writes; what is on its way stays there for the others.
LEMMA MoveTo ==
  ASSUME SchemaInv, NEW c \in Commands, UNCHANGED <<found, backend>>,
         command' \in [Commands -> CommandStates],
         \A d \in Commands \ {c} : command'[d] = command[d],
         \/ UNCHANGED db
         \/ OnTheWay' /\ db' \in Databases /\ (db.version = 10 => db'.version = 10),
         CommandIsSound(command[c])'
  PROVE  SchemaInv'
<1>1. SchemaTypeOK'
  BY DEF SchemaInv, SchemaTypeOK
<1>2. CASE UNCHANGED db
  <2>1. (db = found \/ OnTheWay)' /\ BackendIsCurrent'
    BY <1>2 DEF SchemaInv, OnTheWay, OnTheWayAt, BackendIsCurrent
  <2>2. ASSUME NEW d \in Commands PROVE CommandIsSound(command[d])'
    <3>1. CASE d # c
      <4>1. CommandIsSound(command[d]) /\ command'[d] = command[d]
        BY <3>1 DEF SchemaInv, WritersAreSound
      <4>2. OnTheWay' = OnTheWay /\ SoundAsFound' = SoundAsFound
        BY <1>2 DEF OnTheWay, OnTheWayAt, SoundAsFound
      <4> QED BY <1>2, <4>1, <4>2 DEF CommandIsSound
    <3> QED BY <3>1
  <2> QED BY <1>1, <2>1, <2>2 DEF SchemaInv, WritersAreSound
<1>3. CASE OnTheWay' /\ (db.version = 10 => db'.version = 10)
  <2>1. BackendIsCurrent'
    BY <1>3 DEF SchemaInv, BackendIsCurrent
  <2>2. ASSUME NEW d \in Commands PROVE CommandIsSound(command[d])'
    <3>1. CASE d # c
      <4>1. CommandIsSound(command[d]) /\ command'[d] = command[d]
        BY <3>1 DEF SchemaInv, WritersAreSound
      <4> QED BY <1>3, <4>1 DEF CommandIsSound
    <3> QED BY <3>1
  <2> QED BY <1>1, <1>3, <2>1, <2>2 DEF SchemaInv, WritersAreSound
<1> QED BY <1>2, <1>3

LEMMA EnteredIs ==
  ASSUME SchemaTypeOK, NEW c \in Commands, NEW pc \in CommandPcs, Schema!Enter(c, pc)
  PROVE  /\ command' \in [Commands -> CommandStates]
         /\ \A d \in Commands \ {c} : command'[d] = command[d]
         /\ command'[c].pc = pc
<1>1. [Schema!Idle EXCEPT !.pc = pc] = [pc |-> pc, seen |-> {}, applied |-> {}, next |-> 0]
  BY DEF Schema!Idle
<1>2. [pc |-> pc, seen |-> {}, applied |-> {}, next |-> 0] \in CommandStates
  BY DEF CommandStates
<1> QED BY <1>1, <1>2 DEF SchemaTypeOK, Schema!Enter

LEMMA WentIs ==
  ASSUME SchemaTypeOK, NEW c \in Commands, NEW pc \in CommandPcs, Schema!Goto(c, pc)
  PROVE  /\ command' \in [Commands -> CommandStates]
         /\ \A d \in Commands \ {c} : command'[d] = command[d]
         /\ command'[c].pc = pc
<1>1. command[c] \in CommandStates
  BY DEF SchemaTypeOK
<1>2. [command[c] EXCEPT !.pc = pc] = [pc |-> pc, seen |-> command[c].seen,
        applied |-> command[c].applied, next |-> command[c].next]
  BY <1>1 DEF CommandStates
<1>3. [command[c] EXCEPT !.pc = pc] \in CommandStates
  BY <1>1, <1>2 DEF CommandStates
<1> QED BY <1>2, <1>3 DEF SchemaTypeOK, Schema!Goto

\* A command with two of its parts replaced.
LEMMA CommandWith ==
  ASSUME NEW k \in CommandStates, NEW u, NEW v
  PROVE  /\ [k EXCEPT !.pc = u, !.seen = v] =
              [pc |-> u, seen |-> v, applied |-> k.applied, next |-> k.next]
         /\ [k EXCEPT !.pc = u, !.next = v] =
              [pc |-> u, seen |-> k.seen, applied |-> k.applied, next |-> v]
<1> DEFINE l == [k EXCEPT !.pc = u]
<1>1. l = [pc |-> u, seen |-> k.seen, applied |-> k.applied, next |-> k.next]
  BY DEF CommandStates
<1>2. /\ [k EXCEPT !.pc = u, !.seen = v] = [l EXCEPT !.seen = v]
      /\ [k EXCEPT !.pc = u, !.next = v] = [l EXCEPT !.next = v]
  OBVIOUS
<1> HIDE DEF l
<1>3. /\ [l EXCEPT !.seen = v] =
           [pc |-> u, seen |-> v, applied |-> k.applied, next |-> k.next]
      /\ [l EXCEPT !.next = v] =
           [pc |-> u, seen |-> k.seen, applied |-> k.applied, next |-> v]
  BY <1>1
<1> QED BY <1>2, <1>3

LEMMA IdleIs ==
  /\ Schema!Idle \in CommandStates
  /\ Schema!Idle.seen = {} /\ Schema!Idle.applied = {} /\ Schema!Idle.next = 0
  BY DEF Schema!Idle, CommandStates, CommandPcs

LEMMA HistoryIsThere ==
  ASSUME OnTheWay
  PROVE  "history" \in db.objects
  BY DEF OnTheWay, OnTheWayAt

LEMMA LookStep ==
  ASSUME SchemaInv, NEW c \in Commands, Schema!Look(c)
  PROVE  SchemaInv'
<1>1. [Schema!Idle EXCEPT !.pc = "judge", !.seen = db.objects] =
        [pc |-> "judge", seen |-> db.objects, applied |-> {}, next |-> 0]
  <2>1. [Schema!Idle EXCEPT !.pc = "judge", !.seen = db.objects] =
          [pc |-> "judge", seen |-> db.objects, applied |-> Schema!Idle.applied,
           next |-> Schema!Idle.next]
    BY IdleIs, CommandWith, Zenon
  <2> QED BY <2>1, IdleIs
<1>2. [pc |-> "judge", seen |-> db.objects, applied |-> {}, next |-> 0] \in CommandStates
  BY DEF SchemaInv, SchemaTypeOK, Databases, CommandStates, CommandPcs
<1>3. /\ command' \in [Commands -> CommandStates]
      /\ \A d \in Commands \ {c} : command'[d] = command[d]
      /\ command'[c].pc = "judge" /\ command'[c].seen = db.objects
  BY <1>1, <1>2 DEF SchemaInv, SchemaTypeOK, Schema!Look
<1>4. UNCHANGED <<db, found, backend>>
  BY DEF Schema!Look
<1>5. "history" \in db.objects \/ db.objects = found.objects
  BY HistoryIsThere DEF SchemaInv
<1>6. CommandIsSound(command[c])'
  BY <1>3, <1>4, <1>5 DEF CommandIsSound
<1> QED BY <1>3, <1>4, <1>6, MoveTo

\* What a command may enter without a write.
LEMMA EnterStep ==
  ASSUME SchemaInv, NEW c \in Commands, NEW pc \in CommandPcs, Schema!Enter(c, pc),
         UNCHANGED <<db, found, backend>>,
         \/ pc \in {"idle", "failed", "refused"}
         \/ pc = "bootstrap" /\ (OnTheWay \/ SoundAsFound)
         \/ pc = "ok" /\ OnTheWay /\ db.version = 10
  PROVE  SchemaInv'
<1>1. /\ command' \in [Commands -> CommandStates]
      /\ \A d \in Commands \ {c} : command'[d] = command[d]
      /\ command'[c].pc = pc
  BY EnteredIs DEF SchemaInv
<1>2. OnTheWay' = OnTheWay /\ SoundAsFound' = SoundAsFound
  BY DEF OnTheWay, OnTheWayAt, SoundAsFound
<1>3. CommandIsSound(command[c])'
  BY <1>1, <1>2 DEF CommandIsSound
<1> QED BY <1>1, <1>3, MoveTo

LEMMA JudgeLegacyStep ==
  ASSUME SchemaInv, NEW c \in Commands, Schema!JudgeLegacy(c)
  PROVE  SchemaInv'
<1> DEFINE sound == (command[c].seen = {} /\ db.version = 0) \/ Schema!LegacyIsSound
<1>1. Schema!Enter(c, IF sound THEN "bootstrap" ELSE "refused") /\ UNCHANGED <<db, found, backend>>
  BY DEF Schema!JudgeLegacy
<1>2. command[c].pc = "judge" /\ "history" \notin command[c].seen /\ CommandIsSound(command[c])
  BY DEF Schema!JudgeLegacy, Schema!At, SchemaInv, WritersAreSound
<1>3. command[c].seen = found.objects
  BY <1>2 DEF CommandIsSound
<1>4. ASSUME sound PROVE OnTheWay \/ SoundAsFound
  <2>1. CASE db = found
    <3>1. found \in Schema!Found
      BY DEF SchemaInv, SchemaTypeOK
    <3> QED BY <1>3, <1>4, <2>1, <3>1, JudgedIsSound
  <2> QED BY <2>1 DEF SchemaInv
<1>5. "bootstrap" \in CommandPcs /\ "refused" \in CommandPcs
  BY DEF CommandPcs
<1> QED BY <1>1, <1>4, <1>5, EnterStep

LEMMA JudgeHistoryStep ==
  ASSUME SchemaInv, NEW c \in Commands, Schema!JudgeHistory(c)
  PROVE  SchemaInv'
<1>1. UNCHANGED <<db, found, backend>>
  BY DEF Schema!JudgeHistory
<1>2. CASE Schema!HistoryIsSound /\ db.applied # {}
  <2>1. [Schema!Idle EXCEPT !.pc = "check", !.applied = db.applied] =
          [pc |-> "check", seen |-> {}, applied |-> db.applied, next |-> 0]
    <3> DEFINE k == [Schema!Idle EXCEPT !.pc = "check"]
    <3>1. k = [pc |-> "check", seen |-> {}, applied |-> {}, next |-> 0]
      BY DEF Schema!Idle
    <3>2. [Schema!Idle EXCEPT !.pc = "check", !.applied = db.applied] =
            [k EXCEPT !.applied = db.applied]
      OBVIOUS
    <3> HIDE DEF k
    <3> QED BY <3>1, <3>2
  <2>2. [pc |-> "check", seen |-> {}, applied |-> db.applied, next |-> 0] \in CommandStates
    BY DEF SchemaInv, SchemaTypeOK, Databases, CommandStates, CommandPcs
  <2>3. /\ command' \in [Commands -> CommandStates]
        /\ \A d \in Commands \ {c} : command'[d] = command[d]
        /\ command'[c].pc = "check"
    BY <1>2, <2>1, <2>2 DEF SchemaInv, SchemaTypeOK, Schema!JudgeHistory
  <2>4. OnTheWay \/ db = Drifted
    BY <1>2, HistoryTells DEF SchemaInv, SchemaTypeOK
  <2>5. OnTheWay' = OnTheWay /\ (db = Drifted)' = (db = Drifted)
    BY <1>1 DEF OnTheWay, OnTheWayAt, Drifted, Schema!Released, Schema!Database,
                Schema!Introduces
  <2>6. CommandIsSound(command[c])'
    BY <2>3, <2>4, <2>5 DEF CommandIsSound
  <2> QED BY <1>1, <2>3, <2>6, MoveTo
<1>3. CASE ~(Schema!HistoryIsSound /\ db.applied # {})
  <2>1. Schema!Enter(c, "refused")
    BY <1>3 DEF Schema!JudgeHistory, Schema!Enter
  <2> QED BY <1>1, <2>1, EnterStep DEF CommandPcs
<1> QED BY <1>2, <1>3

LEMMA CheckStep ==
  ASSUME SchemaInv, NEW c \in Commands, Schema!Check(c)
  PROVE  SchemaInv'
<1> DEFINE n == Schema!Cardinality(command[c].applied)
           sound == "probe" \in db.objects /\ Schema!AppliedIsSound(n)
<1>1. Schema!Enter(c, IF sound THEN "bootstrap" ELSE "refused") /\ UNCHANGED <<db, found, backend>>
  BY DEF Schema!Check
<1>2. OnTheWay \/ db = Drifted
  BY DEF Schema!Check, Schema!At, SchemaInv, WritersAreSound, CommandIsSound
<1>3. ASSUME sound PROVE OnTheWay
  BY <1>2, <1>3, DriftIsRefused
<1>4. "bootstrap" \in CommandPcs /\ "refused" \in CommandPcs
  BY DEF CommandPcs
<1> QED BY <1>1, <1>3, <1>4, EnterStep

LEMMA BootstrapStep ==
  ASSUME SchemaInv, NEW c \in Commands, Schema!Bootstrap(c)
  PROVE  SchemaInv'
<1>1. Schema!Goto(c, "pending") /\ UNCHANGED <<found, backend>>
  BY DEF Schema!Bootstrap
<1>2. /\ command' \in [Commands -> CommandStates]
      /\ \A d \in Commands \ {c} : command'[d] = command[d]
      /\ command'[c].pc = "pending"
  BY <1>1, WentIs DEF SchemaInv, CommandPcs
<1>3. OnTheWay \/ SoundAsFound
  BY DEF Schema!Bootstrap, Schema!At, SchemaInv, WritersAreSound, CommandIsSound
<1>4. CASE "history" \in db.objects
  <2>1. UNCHANGED db
    BY <1>4 DEF Schema!Bootstrap
  <2>2. ~SoundAsFound
    BY <1>4 DEF SoundAsFound, Schema!Database, Unversioned
  <2>3. OnTheWay'
    BY <1>3, <2>1, <2>2 DEF OnTheWay, OnTheWayAt
  <2>4. CommandIsSound(command[c])'
    BY <1>2, <2>3 DEF CommandIsSound
  <2> QED BY <1>1, <1>2, <2>1, <2>4, MoveTo
<1>5. CASE "history" \notin db.objects
  <2>1. PICK tables \in Unversioned : db = Schema!Database(tables, {}, 0)
    BY <1>3, <1>5, HistoryIsThere DEF SoundAsFound
  <2>2. db.objects = tables /\ db.applied = {} /\ db.version = 0 /\ db.drift = {}
    BY <2>1 DEF Schema!Database
  <2>3. db \in Databases
    BY DEF SchemaInv, SchemaTypeOK
  <2>4. db' = [db EXCEPT !.objects = db.objects \cup {"history"}]
    BY <1>5 DEF Schema!Bootstrap
  <2>5. db' = [objects |-> db.objects \cup {"history"}, drift |-> db.drift,
               applied |-> db.applied, version |-> db.version, wal |-> db.wal]
    BY <2>3, <2>4, DatabaseWith, Zenon
  <2>6. db' \in Databases
    BY <2>3, <2>5 DEF Databases, Objects
  <2>7. OnTheWayAt(0)'
    <3>1. db'.objects = {"history"} \cup Made(0) \cup tables
      BY <2>2, <2>5, MadeIs
    <3>2. db'.applied = 1..0 /\ db'.version = 0 /\ db'.drift = {}
      BY <2>2, <2>5
    <3> QED BY <2>1, <3>1, <3>2 DEF OnTheWayAt
  <2>8. OnTheWay'
    BY <2>7 DEF OnTheWay
  <2>9. CommandIsSound(command[c])'
    BY <1>2, <2>8 DEF CommandIsSound
  <2> QED BY <1>1, <1>2, <2>2, <2>6, <2>8, <2>9, MoveTo
<1> QED BY <1>4, <1>5

LEMMA PendingStep ==
  ASSUME SchemaInv, NEW c \in Commands, Schema!Pending(c)
  PROVE  SchemaInv'
<1> DEFINE open == {v \in 1..10 : v \notin db.applied /\ v > command[c].next}
           chosen == CHOOSE v \in open : \A w \in open : v <= w
           pc == IF open = {} THEN "wal" ELSE "apply"
           next == IF open = {} THEN 0 ELSE chosen
<1>1. UNCHANGED <<db, found, backend>>
  BY DEF Schema!Pending
<1>2. OnTheWay /\ command[c] \in CommandStates
  BY DEF Schema!Pending, Schema!At, SchemaInv, SchemaTypeOK, WritersAreSound, CommandIsSound
<1>3. ASSUME open # {} PROVE chosen \in 1..10
  <2>1. PICK n \in 0..10 : db.applied = 1..n
    BY <1>2 DEF OnTheWay, OnTheWayAt
  <2>2. command[c].next \in Nat
    BY <1>2 DEF CommandStates
  <2>3. PICK v \in open : TRUE
    BY <1>3
  <2>4. v > n /\ v > command[c].next /\ v \in 1..10
    BY <2>1, <2>3
  <2> DEFINE least == IF n >= command[c].next THEN n + 1 ELSE command[c].next + 1
  <2> HIDE DEF open
  <2>0. \A w : w \in open <=> w \in 1..10 /\ w \notin db.applied /\ w > command[c].next
    BY DEF open
  <2>5. least \in open /\ \A w \in open : least <= w
    <3>1. least \in 1..10 /\ least > n /\ least > command[c].next
      BY <2>2, <2>4
    <3>2. \A w \in 1..10 : w > n /\ w > command[c].next => least <= w
      BY <2>2
    <3>3. \A w \in 1..10 : w \notin db.applied <=> w > n
      BY <2>1
    <3> HIDE DEF least
    <3> QED BY <2>0, <3>1, <3>2, <3>3, Zenon
  <2>6. chosen \in open
    BY <2>5, Zenon
  <2> QED BY <2>0, <2>6
<1> HIDE DEF chosen
<1>4. command' = [command EXCEPT ![c] =
        [pc |-> pc, seen |-> command[c].seen, applied |-> command[c].applied, next |-> next]]
  <2>1. command' = [command EXCEPT ![c] = [command[c] EXCEPT !.pc = pc, !.next = next]]
    <3>1. command' = [command EXCEPT ![c].pc = pc, ![c].next = next]
      BY Zenon DEF Schema!Pending, Schema!Current, chosen
    <3> HIDE DEF pc, next
    <3>2. command \in [Commands -> CommandStates]
      BY DEF SchemaInv, SchemaTypeOK
    <3> QED BY <3>1, <3>2
  <2>2. [command[c] EXCEPT !.pc = pc, !.next = next] =
         [pc |-> pc, seen |-> command[c].seen, applied |-> command[c].applied, next |-> next]
    BY <1>2, CommandWith, Zenon
  <2> QED BY <2>1, <2>2
<1>5. pc \in CommandPcs /\ next \in Nat
  BY <1>3 DEF CommandPcs
<1>6. [pc |-> pc, seen |-> command[c].seen, applied |-> command[c].applied, next |-> next]
        \in CommandStates
  BY <1>2, <1>5 DEF CommandStates
<1>7. /\ command' \in [Commands -> CommandStates]
      /\ \A d \in Commands \ {c} : command'[d] = command[d]
      /\ command'[c].pc = pc /\ command'[c].next = next
  BY <1>4, <1>6 DEF SchemaInv, SchemaTypeOK
<1>8. OnTheWay'
  BY <1>1, <1>2 DEF OnTheWay, OnTheWayAt
<1>9. pc \in {"wal", "apply"} /\ (pc = "apply" => next \in 1..10)
  BY <1>3
<1>10. CommandIsSound(command[c])'
  BY <1>7, <1>8, <1>9 DEF CommandIsSound
<1> QED BY <1>1, <1>7, <1>10, MoveTo

LEMMA ApplyStep ==
  ASSUME SchemaInv, NEW c \in Commands, Schema!Apply(c)
  PROVE  SchemaInv'
<1> DEFINE v == command[c].next
<1>1. Schema!Goto(c, "pending") /\ UNCHANGED <<found, backend>>
  BY DEF Schema!Apply
<1>2. /\ command' \in [Commands -> CommandStates]
      /\ \A d \in Commands \ {c} : command'[d] = command[d]
      /\ command'[c].pc = "pending"
  BY <1>1, WentIs DEF SchemaInv, CommandPcs
<1>3. OnTheWay /\ v \in 1..10
  BY DEF Schema!Apply, Schema!At, SchemaInv, WritersAreSound, CommandIsSound
<1>4. CASE v \in db.applied
  <2>1. UNCHANGED db
    BY <1>4 DEF Schema!Apply
  <2>2. OnTheWay'
    BY <1>3, <2>1 DEF OnTheWay, OnTheWayAt
  <2>3. CommandIsSound(command[c])'
    BY <1>2, <2>2 DEF CommandIsSound
  <2> QED BY <1>1, <1>2, <2>1, <2>3, MoveTo
<1>5. CASE v \notin db.applied
  <2>1. PICK n \in 0..10 : OnTheWayAt(n)
    BY <1>3 DEF OnTheWay
  <2>2. db.applied = 1..n /\ db.version = n /\ db.drift = {}
    BY <2>1 DEF OnTheWayAt
  <2>3. v = n + 1
    <3>1. v = Schema!Cardinality(db.applied) + 1
      BY <1>5 DEF Schema!Apply
    <3>2. Schema!Cardinality(db.applied) = n
      BY <2>2, AppliedAreCounted
    <3> QED BY <3>1, <3>2
  <2>4. PICK tables \in Unversioned : db.objects = {"history"} \cup Made(n) \cup tables
    BY <2>1 DEF OnTheWayAt
  <2>5. db' = [db EXCEPT !.objects = db.objects \cup Schema!Introduces[v],
                         !.applied = db.applied \cup {v}, !.version = v]
    BY <1>5 DEF Schema!Apply
  <2>6. db \in Databases
    BY DEF SchemaInv, SchemaTypeOK
  <2>7. db' = [objects |-> db.objects \cup Schema!Introduces[v], drift |-> db.drift,
               applied |-> db.applied \cup {v}, version |-> v, wal |-> db.wal]
    <3> DEFINE u == db.objects \cup Schema!Introduces[v]
               w == db.applied \cup {v}
               k == [db EXCEPT !.objects = u]
               l == [k EXCEPT !.applied = w]
    <3>1. db' = [l EXCEPT !.version = v]
      BY <2>5
    <3> HIDE DEF u, v, w
    <3>2. k = [objects |-> u, drift |-> db.drift, applied |-> db.applied,
               version |-> db.version, wal |-> db.wal]
      BY <2>6, DatabaseWith, Zenon
    <3> HIDE DEF k
    <3>3. l = [objects |-> u, drift |-> db.drift, applied |-> w,
               version |-> db.version, wal |-> db.wal]
      BY <3>2
    <3> HIDE DEF l
    <3>4. db' = [objects |-> u, drift |-> db.drift, applied |-> w, version |-> v, wal |-> db.wal]
      BY <3>1, <3>3
    <3> QED BY <3>4 DEF u, v, w
  <2>8. db' \in Databases
    <3>1. Schema!Introduces[v] \subseteq Objects
      BY <1>3, IntroducesIs
    <3>2. v \in Nat
      BY <1>3
    <3> HIDE DEF v
    <3> QED BY <2>6, <2>7, <3>1, <3>2 DEF Databases
  <2>9. OnTheWayAt(n + 1)'
    <3>1. db'.objects = {"history"} \cup Made(n + 1) \cup tables
      BY <2>3, <2>4, <2>7, MadeIs
    <3>2. db'.applied = 1..(n + 1) /\ db'.version = n + 1 /\ db'.drift = {}
      BY <2>2, <2>3, <2>7
    <3> QED BY <2>4, <3>1, <3>2 DEF OnTheWayAt
  <2>10. OnTheWay' /\ db.version # 10
    <3>1. n + 1 \in 0..10
      BY <1>3, <2>3
    <3> QED BY <2>2, <2>9, <3>1 DEF OnTheWay
  <2>11. CommandIsSound(command[c])'
    BY <1>2, <2>10 DEF CommandIsSound
  <2> QED BY <1>1, <1>2, <2>8, <2>10, <2>11, MoveTo
<1> QED BY <1>4, <1>5

LEMMA SetWalStep ==
  ASSUME SchemaInv, NEW c \in Commands, Schema!SetWal(c)
  PROVE  SchemaInv'
<1>1. Schema!Goto(c, "postflight") /\ UNCHANGED <<found, backend>>
  BY DEF Schema!SetWal
<1>2. /\ command' \in [Commands -> CommandStates]
      /\ \A d \in Commands \ {c} : command'[d] = command[d]
      /\ command'[c].pc = "postflight"
  BY <1>1, WentIs DEF SchemaInv, CommandPcs
<1>3. OnTheWay /\ db \in Databases
  BY DEF Schema!SetWal, Schema!At, SchemaInv, SchemaTypeOK, WritersAreSound, CommandIsSound
<1>4. db' = [objects |-> db.objects, drift |-> db.drift,
             applied |-> db.applied, version |-> db.version, wal |-> TRUE]
  BY <1>3, DatabaseWith, Zenon DEF Schema!SetWal
<1>5. db' \in Databases
  <2>1. \A u \in BOOLEAN : [objects |-> db.objects, drift |-> db.drift,
          applied |-> db.applied, version |-> db.version, wal |-> u] \in Databases
    BY <1>3 DEF Databases
  <2>2. TRUE \in BOOLEAN
    OBVIOUS
  <2> QED BY <1>4, <2>1, <2>2, Zenon
<1>6. OnTheWay' /\ db'.version = db.version
  <2>1. /\ db'.objects = db.objects /\ db'.drift = db.drift
        /\ db'.applied = db.applied /\ db'.version = db.version
    BY <1>4
  <2> QED BY <1>3, <2>1 DEF OnTheWay, OnTheWayAt
<1>7. CommandIsSound(command[c])'
  BY <1>2, <1>6 DEF CommandIsSound
<1> QED BY <1>1, <1>2, <1>5, <1>6, <1>7, MoveTo

LEMMA PostflightStep ==
  ASSUME SchemaInv, NEW c \in Commands, Schema!Postflight(c)
  PROVE  SchemaInv'
<1> DEFINE sound == Schema!HistoryIsSound /\ db.version = 10 /\ Schema!AppliedIsSound(10)
<1>1. Schema!Enter(c, IF sound THEN "ok" ELSE "failed") /\ UNCHANGED <<db, found, backend>>
  BY DEF Schema!Postflight, Schema!Current
<1>2. OnTheWay
  BY DEF Schema!Postflight, Schema!At, SchemaInv, WritersAreSound, CommandIsSound
<1>3. "ok" \in CommandPcs /\ "failed" \in CommandPcs
  BY DEF CommandPcs
<1> QED BY <1>1, <1>2, <1>3, EnterStep

LEMMA BackendStep ==
  ASSUME SchemaInv, Schema!ReadVersion \/ Schema!ReadSchema \/ Schema!Stop
  PROVE  SchemaInv'
<1>1. UNCHANGED <<db, found, command>>
  BY DEF Schema!ReadVersion, Schema!ReadSchema, Schema!Stop
<1>2. /\ db \in Databases /\ found \in Schema!Found /\ command \in [Commands -> CommandStates]
      /\ backend \in [pc : {"down", "verify", "up"}, version : Nat] /\ db.version \in Nat
  BY DEF SchemaInv, SchemaTypeOK, Databases
<1>3. backend' \in [pc : {"down", "verify", "up"}, version : Nat] /\ BackendIsCurrent'
  <2>1. CASE Schema!ReadVersion
    BY <1>1, <1>2, <2>1 DEF Schema!ReadVersion, BackendIsCurrent
  <2>2. CASE Schema!ReadSchema
    BY <1>1, <1>2, <2>2 DEF Schema!ReadSchema, Schema!Current, SchemaInv, BackendIsCurrent
  <2>3. CASE Schema!Stop
    BY <1>1, <1>2, <2>3 DEF Schema!Stop, BackendIsCurrent
  <2> QED BY <2>1, <2>2, <2>3
<1>4. (db = found \/ OnTheWay)' /\ WritersAreSound'
  BY <1>1 DEF SchemaInv, OnTheWay, OnTheWayAt, SoundAsFound, WritersAreSound, CommandIsSound
<1> QED BY <1>1, <1>2, <1>3, <1>4 DEF SchemaInv, SchemaTypeOK

LEMMA SchemaStep == SchemaInv /\ [Schema!Next]_(Schema!vars) => SchemaInv'
<1> SUFFICES ASSUME SchemaInv, [Schema!Next]_(Schema!vars) PROVE SchemaInv'
  OBVIOUS
<1>1. ASSUME NEW c \in Commands, Schema!PreflightOnly(c) PROVE SchemaInv'
  <2>1. Schema!Enter(c, "idle") /\ UNCHANGED <<db, found, backend>>
    BY <1>1 DEF Schema!PreflightOnly
  <2> QED BY <2>1, EnterStep DEF CommandPcs
<1>2. ASSUME NEW c \in Commands, Schema!Fail(c) PROVE SchemaInv'
  <2>1. Schema!Enter(c, "failed") /\ UNCHANGED <<db, found, backend>>
    BY <1>2 DEF Schema!Fail
  <2> QED BY <2>1, EnterStep DEF CommandPcs
<1>3. CASE UNCHANGED Schema!vars
  BY <1>3 DEF Schema!vars, SchemaInv, SchemaTypeOK, OnTheWay, OnTheWayAt, SoundAsFound,
              WritersAreSound, CommandIsSound, BackendIsCurrent
<1> QED
  BY <1>1, <1>2, <1>3, LookStep, JudgeLegacyStep, JudgeHistoryStep, CheckStep, BootstrapStep,
     PendingStep, ApplyStep, SetWalStep, PostflightStep, BackendStep, Zenon DEF Schema!Next

\* Where a command stopped, the preflight accepts what it left.
LEMMA SchemaResumes == SchemaInv => Schema!StoppedMigrationResumes
<1> SUFFICES ASSUME SchemaInv PROVE Schema!StoppedMigrationResumes
  OBVIOUS
<1>1. ASSUME ~Schema!Compatible, db # found PROVE Schema!OnlyBootstrapped
  <2>1. PICK n \in 0..10 : OnTheWayAt(n)
    BY <1>1 DEF SchemaInv, OnTheWay
  <2>2. n = 0
    BY <1>1, <2>1, OnTheWayIsCompatible
  <2>3. db.applied = {} /\ "history" \in db.objects
    BY <2>1, <2>2 DEF OnTheWayAt
  <2> QED BY <2>3 DEF Schema!OnlyBootstrapped
<1>2. ASSUME (\E c \in Commands : command[c].pc = "ok") \/ backend.pc = "up" PROVE Schema!Whole
  <2>1. db.version = 10
    BY <1>2 DEF SchemaInv, WritersAreSound, CommandIsSound, BackendIsCurrent
  <2> QED BY <2>1, PresentIsWhole DEF SchemaInv, SchemaTypeOK
<1> QED BY <1>1, <1>2 DEF Schema!StoppedMigrationResumes

-----------------------------------------------------------------------------
(***************************************************************************)
(* A mission (MissionContinuity).  Of the sessions at most one is at work, *)
(* and at one step, the next of the journal.  As long as nobody has moved  *)
(* the branch since the state was written, the state says what is in it    *)
(* (StateTells); and while the work of a step is being written down, the   *)
(* guard tells nobody to go on (NothingToResume), since the files have     *)
(* gone on from the checkpoint or the branch from the files.               *)
(***************************************************************************)

DurableFiles ==
  [state : [done : Nat, head : Nat], registry : Nat,
   journal : [Mission!Steps -> {"new", "running", "complete"}]]
AtWork == {"started", "committed", "completed", "written", "registered"}
Activities == [pc : AtWork \cup {"away", "ready"}, step : Nat]

MissionTypeOK ==
  /\ files \in DurableFiles
  /\ checkpoint \in [id : Nat, files : DurableFiles \cup {Mission!Damaged}]
  /\ latest \in Nat
  /\ world \in [head : Nat, dirty : BOOLEAN, applied : SUBSET Mission!Steps]
  /\ session \in [Sessions -> Activities]

Running == Mission!RunningIn(files.journal)

StepsAreInOrder ==
  /\ \E n \in Nat : Mission!Completed = 1..n /\ Running \subseteq {n + 1}
  /\ Mission!Completed \subseteq world.applied
  /\ world.applied \subseteq Mission!Completed \cup Running
  /\ world.dirty => Running \ world.applied # {}

StateTells ==
  files.state.head = world.head =>
    world.applied = Mission!Completed /\ Mission!Completed = 1..files.state.done

CheckpointIsOfThePast ==
  /\ checkpoint.files.state.head <= files.state.head /\ files.state.head <= world.head
  /\ checkpoint.files.registry <= files.registry /\ files.registry <= world.head
  /\ \/ checkpoint.files = Mission!Damaged
     \/ checkpoint.files.registry = checkpoint.files.state.head

NothingToResume ==
  \/ checkpoint.files = Mission!Damaged \/ files # checkpoint.files
  \/ files.state.head # world.head

NobodyElse(s) == \A t \in Sessions \ {s} : session[t].pc \notin AtWork

SessionIsOrderly(s) ==
  /\ session[s].pc = "started" => session[s].step \in Running \ world.applied
  /\ session[s].pc = "committed" => session[s].step \in Running \cap world.applied
  /\ session[s].pc \in {"completed", "written", "registered"} => Running = {} /\ NothingToResume
  /\ session[s].pc = "ready" =>
       /\ session[s].step \in Mission!Steps
       /\ files.journal[session[s].step] = "new" =>
            /\ Running = {} /\ Mission!Completed = 1..(session[s].step - 1)
            /\ NobodyElse(s)
  /\ session[s].pc \in AtWork => NobodyElse(s)

MissionInv ==
  /\ MissionTypeOK /\ StepsAreInOrder /\ StateTells /\ CheckpointIsOfThePast
  /\ \A s \in Sessions : SessionIsOrderly(s)

LEMMA CompletedIs ==
  /\ Mission!Completed = {k \in Mission!Steps : files.journal[k] = "complete"}
  /\ MissionTypeOK => Running = {k \in Mission!Steps : files.journal[k] = "running"}
  BY DEF Mission!Completed, Running, Mission!RunningIn, MissionTypeOK, DurableFiles

LEMMA CompletedAfter ==
  /\ Mission!Completed' = {k \in Mission!Steps : files'.journal[k] = "complete"}
  /\ MissionTypeOK' => Running' = {k \in Mission!Steps : files'.journal[k] = "running"}
  BY DEF Mission!Completed, Running, Mission!RunningIn, MissionTypeOK, DurableFiles, Mission!Steps

LEMMA WentTo ==
  ASSUME MissionTypeOK, NEW s \in Sessions, NEW pc \in AtWork \cup {"away", "ready"},
         NEW k \in Nat, Mission!Goto(s, pc, k)
  PROVE  /\ session' \in [Sessions -> Activities]
         /\ session'[s].pc = pc /\ session'[s].step = k
         /\ \A t \in Sessions \ {s} : session'[t] = session[t]
  BY DEF Mission!Goto, MissionTypeOK, Activities

LEMMA MissionInitially == Mission!Init => MissionInv
<1> SUFFICES ASSUME Mission!Init PROVE MissionInv
  OBVIOUS
<1>1. MissionTypeOK
  BY DEF Mission!Init, MissionTypeOK, DurableFiles, Activities, AtWork, Mission!Away
<1>2. Mission!Completed = {} /\ Running = {}
  BY <1>1, CompletedIs DEF Mission!Init
<1>3. 1..0 = {}
  OBVIOUS
<1>4. StepsAreInOrder /\ StateTells
  BY <1>2, <1>3 DEF StepsAreInOrder, StateTells, Mission!Init
<1>5. CheckpointIsOfThePast
  BY DEF CheckpointIsOfThePast, Mission!Init, Mission!Damaged
<1>6. ASSUME NEW s \in Sessions PROVE SessionIsOrderly(s)
  BY DEF SessionIsOrderly, Mission!Init, Mission!Away, AtWork
<1> QED BY <1>1, <1>4, <1>5, <1>6 DEF MissionInv

\* Where nobody starts anything and the files and the branch stay as they are.
LEMMA SessionsStay ==
  ASSUME MissionInv, MissionTypeOK', UNCHANGED <<files, world>>,
         NothingToResume => NothingToResume',
         \A t \in Sessions : session'[t] = session[t] \/ session'[t].pc = "away"
  PROVE  \A s \in Sessions : SessionIsOrderly(s)'
<1> SUFFICES ASSUME NEW s \in Sessions PROVE SessionIsOrderly(s)'
  OBVIOUS
<1>1. Running' = Running /\ Mission!Completed' = Mission!Completed
  BY DEF Running, Mission!Completed, Mission!Steps
<1>2. SessionIsOrderly(s)
  BY DEF MissionInv
<1>3. NobodyElse(s) => NobodyElse(s)'
  BY DEF NobodyElse, AtWork
<1>4. CASE session'[s].pc = "away"
  BY <1>4 DEF SessionIsOrderly, AtWork
<1>5. CASE session'[s] = session[s]
  BY <1>1, <1>2, <1>3, <1>5 DEF SessionIsOrderly, Mission!Steps
<1> QED BY <1>4, <1>5

LEMMA CreateCheckpointStep ==
  ASSUME MissionInv, NEW s \in Sessions, Mission!CreateCheckpoint(s)  PROVE MissionInv'
<1> USE DEF MissionInv
<1>1. MissionTypeOK
  OBVIOUS
<1>2. /\ files' = files /\ world' = world
      /\ checkpoint'.files = files /\ checkpoint'.id = checkpoint.id + 1
      /\ checkpoint' = [id |-> checkpoint.id + 1, files |-> files]
      /\ latest' \in {latest, checkpoint.id + 1}
  BY DEF Mission!CreateCheckpoint, Mission!Written
<1>3. \/ session'[s] = session[s] /\ session[s].pc \in {"started", "away"}
      \/ session'[s].pc = "away"
  BY <1>1, WentTo DEF Mission!CreateCheckpoint, AtWork
<1>4. session' \in [Sessions -> Activities] /\ \A t \in Sessions \ {s} : session'[t] = session[t]
  BY <1>1, WentTo DEF Mission!CreateCheckpoint, MissionTypeOK, AtWork
<1>5. MissionTypeOK'
  BY <1>1, <1>2, <1>4 DEF MissionTypeOK, Mission!Steps
<1>6. Running' = Running /\ Mission!Completed' = Mission!Completed
  BY <1>2 DEF Running, Mission!Completed, Mission!Steps
<1>7. StepsAreInOrder' /\ StateTells'
  BY <1>2, <1>6 DEF StepsAreInOrder, StateTells
<1>8. CheckpointIsOfThePast'
  BY <1>1, <1>2 DEF CheckpointIsOfThePast, MissionTypeOK, DurableFiles, Mission!CreateCheckpoint,
                    Mission!BundleIsValid
<1>9. ASSUME NEW t \in Sessions PROVE SessionIsOrderly(t)'
  <2>1. session'[t].pc \notin {"completed", "written", "registered"}
    <3>1. SessionIsOrderly(s)
      OBVIOUS
    <3>2. session[s].pc \in {"started", "registered"} => NobodyElse(s)
      BY <3>1 DEF SessionIsOrderly, AtWork
    <3>3. t # s => session[t].pc \notin {"completed", "written", "registered"}
      BY <3>2 DEF NobodyElse, AtWork, Mission!CreateCheckpoint, Mission!Alone
    <3> QED BY <3>3, <1>3, <1>4
  <2>2. SessionIsOrderly(t)
    OBVIOUS
  <2>3. NobodyElse(t) => NobodyElse(t)'
    BY <1>3, <1>4 DEF NobodyElse, AtWork
  <2>4. session'[t] = session[t] \/ session'[t].pc = "away"
    BY <1>3, <1>4
  <2> QED BY <1>2, <1>6, <2>1, <2>2, <2>3, <2>4 DEF SessionIsOrderly, AtWork, Mission!Steps
<1> QED BY <1>5, <1>7, <1>8, <1>9

LEMMA DieStep == ASSUME MissionInv, NEW s \in Sessions, Mission!Die(s) PROVE MissionInv'
<1>1. MissionTypeOK
  BY DEF MissionInv
<1>2. /\ session' \in [Sessions -> Activities] /\ session'[s].pc = "away"
      /\ \A t \in Sessions \ {s} : session'[t] = session[t]
  BY <1>1, WentTo DEF Mission!Die, AtWork
<1>3. UNCHANGED <<files, checkpoint, latest, world>>
  BY DEF Mission!Die
<1>4. MissionTypeOK'
  BY <1>1, <1>2, <1>3 DEF MissionTypeOK, Mission!Steps
<1>5. StepsAreInOrder' /\ StateTells' /\ CheckpointIsOfThePast'
  BY <1>3 DEF MissionInv, StepsAreInOrder, StateTells, CheckpointIsOfThePast, Running,
              Mission!Completed, Mission!Steps
<1>6. NothingToResume => NothingToResume'
  BY <1>3 DEF NothingToResume
<1>7. \A t \in Sessions : SessionIsOrderly(t)'
  BY <1>2, <1>3, <1>4, <1>6, SessionsStay
<1> QED BY <1>4, <1>5, <1>7 DEF MissionInv

LEMMA MisfortuneStep == ASSUME MissionInv, Mission!Misfortune PROVE MissionInv'
<1>1. MissionTypeOK
  BY DEF MissionInv
<1>2. UNCHANGED <<files, session>>
  BY DEF Mission!Misfortune
<1>3. /\ latest' \in Nat
      /\ checkpoint' = checkpoint \/ checkpoint' = [checkpoint EXCEPT !.files = Mission!Damaged]
      /\ world' = world \/ world' = [world EXCEPT !.head = @ + 1]
  BY <1>1 DEF Mission!Misfortune, MissionTypeOK
<1>4. world'.applied = world.applied /\ world'.dirty = world.dirty
      /\ world'.head \in {world.head, world.head + 1} /\ world.head \in Nat
      /\ world' \in [head : Nat, dirty : BOOLEAN, applied : SUBSET Mission!Steps]
  BY <1>1, <1>3 DEF MissionTypeOK
<1>5. /\ checkpoint'.files \in {checkpoint.files, Mission!Damaged}
      /\ checkpoint' \in [id : Nat, files : DurableFiles \cup {Mission!Damaged}]
  BY <1>1, <1>3 DEF MissionTypeOK
<1>6. MissionTypeOK'
  BY <1>1, <1>2, <1>3, <1>4, <1>5 DEF MissionTypeOK, Mission!Steps, DurableFiles, Mission!Damaged
<1>7. Running' = Running /\ Mission!Completed' = Mission!Completed
  BY <1>2 DEF Running, Mission!Completed, Mission!Steps
<1>8. StepsAreInOrder'
  BY <1>4, <1>7 DEF MissionInv, StepsAreInOrder
<1>9. files \in DurableFiles /\ files.state.head \in Nat /\ files.registry \in Nat
  BY <1>1 DEF MissionTypeOK, DurableFiles
<1>10. StateTells'
  BY <1>2, <1>4, <1>7, <1>9 DEF MissionInv, StateTells, CheckpointIsOfThePast
<1>11. CheckpointIsOfThePast'
  BY <1>2, <1>4, <1>5, <1>9 DEF MissionInv, CheckpointIsOfThePast, Mission!Damaged
<1>12. NothingToResume => NothingToResume'
  BY <1>2, <1>4, <1>5, <1>9 DEF MissionInv, CheckpointIsOfThePast, NothingToResume, Mission!Damaged
<1>13. \A t \in Sessions : SessionIsOrderly(t)'
  <2> SUFFICES ASSUME NEW t \in Sessions PROVE SessionIsOrderly(t)'
    OBVIOUS
  <2>1. SessionIsOrderly(t) /\ (NobodyElse(t) => NobodyElse(t)')
    BY <1>2 DEF MissionInv, NobodyElse
  <2> QED BY <1>2, <1>4, <1>7, <1>12, <2>1 DEF SessionIsOrderly, Mission!Steps
<1> QED BY <1>6, <1>8, <1>10, <1>11, <1>13 DEF MissionInv

LEMMA GuardTells ==
  ASSUME MissionInv, NEW o \in Mission!Observations
  PROVE  /\ Mission!Disposition(o) = "RESUME_READY" =>
              /\ files = checkpoint.files /\ checkpoint.files # Mission!Damaged
              /\ Running = {} /\ ~world.dirty /\ files.state.head = world.head
         /\ /\ Mission!Disposition(o) \in {"RECONCILIATION_REQUIRED", "DRIFT_DETECTED"}
            /\ Running = {}
            => NothingToResume
<1>1. /\ o.head \in {{world.head}, {}} /\ o.dirty \in {{world.dirty}, {}}
      /\ world.dirty \in BOOLEAN
  BY DEF Mission!Observations, MissionInv, MissionTypeOK
<1>2. CASE Mission!Disposition(o) = "RESUME_READY"
  <2>1. /\ Mission!Loadable /\ ~Mission!Interrupted /\ ~Mission!Changed /\ TRUE \notin o.dirty
        /\ {} \notin {o.head, o.dirty} /\ o.head = {checkpoint.files.state.head}
    BY <1>2 DEF Mission!Disposition
  <2>2. o.head = {world.head} /\ o.dirty = {world.dirty}
    BY <1>1, <2>1
  <2>3. world.head = checkpoint.files.state.head
    BY <2>1, <2>2
  <2>4. ~world.dirty
    BY <1>1, <2>1, <2>2
  <2> QED BY <1>2, <2>1, <2>3, <2>4 DEF Mission!Loadable, Mission!Interrupted, Mission!Changed, Running
<1>3. CASE Mission!Disposition(o) = "RECONCILIATION_REQUIRED"
  <2>1. Mission!Interrupted \/ Mission!Changed \/ TRUE \in o.dirty
    BY <1>3 DEF Mission!Disposition
  <2>2. TRUE \in o.dirty => Running # {}
    BY <1>1 DEF MissionInv, StepsAreInOrder
  <2>3. Mission!Interrupted /\ Running = {} => files # checkpoint.files
    BY DEF Mission!Interrupted, Running
  <2> QED BY <1>3, <2>1, <2>2, <2>3 DEF Mission!Changed, NothingToResume
<1>4. CASE Mission!Disposition(o) = "DRIFT_DETECTED"
  <2>1. ~Mission!Changed /\ {} \notin {o.head, o.dirty} /\ o.head # {checkpoint.files.state.head}
    BY <1>4 DEF Mission!Disposition
  <2>2. o.head = {world.head}
    BY <1>1, <2>1
  <2> QED BY <1>4, <2>1, <2>2 DEF Mission!Changed, NothingToResume
<1> QED BY <1>2, <1>3, <1>4

\* Who is told to go on finds nothing half done, and the step is the next.
LEMMA ReadyIsNext ==
  ASSUME MissionInv, NEW o \in Mission!Observations, Mission!Disposition(o) = "RESUME_READY"
  PROVE  /\ Mission!Settled /\ Mission!NextStep = files.state.done + 1 /\ files.state.done \in Nat
         /\ Mission!Completed = 1..files.state.done /\ Running = {}
         /\ \A t \in Sessions : session[t].pc \notin AtWork
<1>1. /\ files = checkpoint.files /\ checkpoint.files # Mission!Damaged
      /\ Running = {} /\ ~world.dirty /\ files.state.head = world.head
  BY GuardTells
<1>2. world.applied = Mission!Completed /\ Mission!Completed = 1..files.state.done
  BY <1>1 DEF MissionInv, StateTells
<1>3. files.registry = world.head
  BY <1>1 DEF MissionInv, CheckpointIsOfThePast
<1>4. files.state.done \in Nat
  BY DEF MissionInv, MissionTypeOK, DurableFiles
<1>5. ASSUME NEW t \in Sessions PROVE session[t].pc \notin AtWork
  BY <1>1 DEF MissionInv, SessionIsOrderly, NothingToResume, AtWork
<1> QED BY <1>1, <1>2, <1>3, <1>4, <1>5 DEF Mission!Settled, Mission!NextStep, Running

LEMMA ResumeStep == ASSUME MissionInv, NEW s \in Sessions, Mission!Resume(s) PROVE MissionInv'
<1>1. MissionTypeOK
  BY DEF MissionInv
<1>2. UNCHANGED <<files, checkpoint, latest, world>> /\ session[s].pc = "away"
  BY DEF Mission!Resume
<1>3. ASSUME session' \in [Sessions -> Activities]
      PROVE  /\ MissionTypeOK' /\ StepsAreInOrder' /\ StateTells' /\ CheckpointIsOfThePast'
             /\ Running' = Running /\ Mission!Completed' = Mission!Completed
             /\ NothingToResume' = NothingToResume
  BY <1>1, <1>2, <1>3 DEF MissionInv, MissionTypeOK, StepsAreInOrder, StateTells,
       CheckpointIsOfThePast, NothingToResume, Running, Mission!Completed, Mission!Steps
<1>4. PICK o \in Mission!Observations :
        \/ /\ Mission!Disposition(o) = "RESUME_READY" /\ Mission!NextStep \in Mission!Steps
           /\ Mission!Goto(s, "ready", Mission!NextStep)
        \/ /\ Mission!Disposition(o) \in {"RECONCILIATION_REQUIRED", "DRIFT_DETECTED"}
           /\ Mission!Alone(s) /\ Mission!Reconcile(s)
        \/ UNCHANGED session
  BY DEF Mission!Resume
<1>5. CASE Mission!Disposition(o) = "RESUME_READY" /\ Mission!NextStep \in Mission!Steps
           /\ Mission!Goto(s, "ready", Mission!NextStep)
  <2>1. /\ Mission!NextStep = files.state.done + 1 /\ files.state.done \in Nat
        /\ Mission!Completed = 1..files.state.done /\ Running = {}
        /\ \A t \in Sessions : session[t].pc \notin AtWork
    BY <1>5, ReadyIsNext
  <2>2. Mission!NextStep \in Nat /\ Mission!NextStep - 1 = files.state.done
    BY <2>1
  <2>3. /\ session' \in [Sessions -> Activities]
        /\ session'[s].pc = "ready" /\ session'[s].step = Mission!NextStep
        /\ \A t \in Sessions \ {s} : session'[t] = session[t]
    BY <1>1, <1>5, <2>2, WentTo
  <2>4. \A t \in Sessions : session'[t].pc \notin AtWork
    BY <2>1, <2>3 DEF AtWork
  <2>5. ASSUME NEW t \in Sessions PROVE SessionIsOrderly(t)'
    <3>1. NobodyElse(t)'
      BY <2>4 DEF NobodyElse
    <3>2. CASE t = s
      BY <1>2, <1>3, <1>5, <2>1, <2>2, <2>3, <2>4, <3>1, <3>2 DEF SessionIsOrderly, AtWork, Mission!Steps
    <3>3. CASE t # s
      BY <1>2, <1>3, <2>3, <2>4, <3>1, <3>3 DEF SessionIsOrderly, AtWork, MissionInv, Mission!Steps
    <3> QED BY <3>2, <3>3
  <2> QED BY <1>3, <2>3, <2>5 DEF MissionInv
<1>6. CASE /\ Mission!Disposition(o) \in {"RECONCILIATION_REQUIRED", "DRIFT_DETECTED"}
           /\ Mission!Alone(s) /\ Mission!Reconcile(s)
  <2>1. Running = {} => NothingToResume
    BY <1>6, GuardTells
  <2>2. Running \subseteq Nat
    BY <1>1, CompletedIs DEF Mission!Steps
  <2>3. \/ Running = {} /\ Mission!Goto(s, "completed", 0)
        \/ \E k \in Running : /\ k \in world.applied => Mission!Goto(s, "committed", k)
                              /\ k \notin world.applied => Mission!Goto(s, "started", k)
    BY <1>6 DEF Mission!Reconcile, Running
  <2>4. /\ session' \in [Sessions -> Activities]
        /\ \A t \in Sessions \ {s} : session'[t] = session[t]
        /\ \/ session'[s].pc = "completed" /\ Running = {}
           \/ session'[s].pc = "committed" /\ session'[s].step \in Running \cap world.applied
           \/ session'[s].pc = "started" /\ session'[s].step \in Running \ world.applied
    BY <1>1, <2>2, <2>3, WentTo DEF AtWork
  <2>5. ASSUME NEW t \in Sessions PROVE SessionIsOrderly(t)'
    <3>1. t # s => session'[t].pc = "away"
      BY <1>6, <2>4 DEF Mission!Alone
    <3>2. NobodyElse(s)'
      BY <1>6, <2>4 DEF Mission!Alone, NobodyElse, AtWork
    <3> QED BY <1>2, <1>3, <2>1, <2>4, <3>1, <3>2 DEF SessionIsOrderly, AtWork
  <2> QED BY <1>3, <2>4, <2>5 DEF MissionInv
<1>7. CASE UNCHANGED session
  BY <1>1, <1>2, <1>3, <1>7, SessionsStay DEF MissionInv, MissionTypeOK
<1> QED BY <1>4, <1>5, <1>6, <1>7

LEMMA JournalWith ==
  ASSUME files \in DurableFiles, NEW k \in Mission!Steps, NEW j \in {"running", "complete"},
         files' = [files EXCEPT !.journal[k] = j]
  PROVE  /\ files' \in DurableFiles /\ files'.state = files.state
         /\ files'.registry = files.registry /\ files'.journal[k] = j
         /\ \A i \in Mission!Steps \ {k} : files'.journal[i] = files.journal[i]
  BY DEF DurableFiles

LEMMA FilesWith ==
  ASSUME files \in DurableFiles
  PROVE  /\ \A u \in [done : Nat, head : Nat] :
              LET f == [files EXCEPT !.state = u]
              IN /\ f \in DurableFiles /\ f.state = u /\ f.registry = files.registry
                 /\ f.journal = files.journal
         /\ \A n \in Nat :
              LET f == [files EXCEPT !.registry = n]
              IN /\ f \in DurableFiles /\ f.state = files.state /\ f.registry = n
                 /\ f.journal = files.journal
  BY DEF DurableFiles

LEMMA JournalStepStartStep ==
  ASSUME MissionInv, NEW s \in Sessions, Mission!JournalStepStart(s)  PROVE MissionInv'
<1>1. MissionTypeOK /\ SessionIsOrderly(s) /\ files \in DurableFiles
  BY DEF MissionInv, MissionTypeOK
<1>2. UNCHANGED <<checkpoint, latest, world>> /\ session[s].pc = "ready"
  BY DEF Mission!JournalStepStart
<1>3. session[s].step \in Mission!Steps /\ session[s].step \in Nat
  BY <1>1, <1>2 DEF SessionIsOrderly, Mission!Steps
<1>4. CASE files.journal[session[s].step] # "new"
  <2>1. Mission!Goto(s, "away", 0) /\ UNCHANGED files
    BY <1>4 DEF Mission!JournalStepStart
  <2>2. /\ session' \in [Sessions -> Activities] /\ session'[s].pc = "away"
        /\ \A t \in Sessions \ {s} : session'[t] = session[t]
    BY <1>1, <2>1, WentTo DEF AtWork
  <2>3. MissionTypeOK' /\ StepsAreInOrder' /\ StateTells' /\ CheckpointIsOfThePast'
        /\ NothingToResume' = NothingToResume
    BY <1>2, <2>1, <2>2 DEF MissionInv, MissionTypeOK, StepsAreInOrder, StateTells,
       CheckpointIsOfThePast, NothingToResume, Running, Mission!Completed, Mission!Steps
  <2> QED BY <1>2, <2>1, <2>2, <2>3, SessionsStay DEF MissionInv
<1>5. CASE files.journal[session[s].step] = "new"
  <2> DEFINE k == session[s].step
  <2>1. files' = [files EXCEPT !.journal[k] = "running"] /\ Mission!Goto(s, "started", k)
    BY <1>5 DEF Mission!JournalStepStart
  <2>2. /\ session' \in [Sessions -> Activities]
        /\ session'[s].pc = "started" /\ session'[s].step = k
        /\ \A t \in Sessions \ {s} : session'[t] = session[t]
    BY <1>1, <1>3, <2>1, WentTo DEF AtWork
  <2>3. /\ files' \in DurableFiles /\ files'.state = files.state /\ files'.registry = files.registry
        /\ files'.journal[k] = "running"
        /\ \A i \in Mission!Steps \ {k} : files'.journal[i] = files.journal[i]
    BY <1>1, <1>3, <2>1, JournalWith
  <2>4. MissionTypeOK'
    BY <1>1, <1>2, <2>2, <2>3 DEF MissionTypeOK, Mission!Steps, DurableFiles
  <2>5. Running = {} /\ Mission!Completed = 1..(k - 1) /\ NobodyElse(s)
    BY <1>1, <1>2, <1>5 DEF SessionIsOrderly
  <2>6. Running' = {k} /\ Mission!Completed' = Mission!Completed
    <3>1. /\ Mission!Completed = {i \in Mission!Steps : files.journal[i] = "complete"}
          /\ Mission!Completed' = {i \in Mission!Steps : files'.journal[i] = "complete"}
          /\ Running = {i \in Mission!Steps : files.journal[i] = "running"}
          /\ Running' = {i \in Mission!Steps : files'.journal[i] = "running"}
      BY <1>1, <2>4, CompletedIs, CompletedAfter
    <3>2. k \in Mission!Steps /\ files.journal[k] = "new" /\ files'.journal[k] = "running"
      BY <1>3, <1>5, <2>3
    <3>3. \A i \in Mission!Steps : files'.journal[i] = "complete" <=> files.journal[i] = "complete"
      BY <2>3, <3>2
    <3>4. \A i \in Mission!Steps : files'.journal[i] = "running" <=> i = k
      BY <2>3, <2>5, <3>1, <3>2
    <3> HIDE DEF k
    <3> QED BY <3>1, <3>2, <3>3, <3>4, Zenon
  <2>7. k \notin world.applied /\ world.applied = Mission!Completed /\ ~world.dirty
    BY <1>1, <1>5, <2>5, CompletedIs DEF MissionInv, StepsAreInOrder
  <2>8. StepsAreInOrder'
    <3>1. k - 1 \in Nat /\ k = (k - 1) + 1
      BY <1>3 DEF Mission!Steps
    <3> HIDE DEF k
    <3> QED BY <1>2, <2>5, <2>6, <2>7, <3>1 DEF StepsAreInOrder
  <2>9. StateTells' /\ CheckpointIsOfThePast'
    BY <1>2, <2>3, <2>6, <2>7 DEF MissionInv, StateTells, CheckpointIsOfThePast
  <2>10. ASSUME NEW t \in Sessions PROVE SessionIsOrderly(t)'
    <3>1. CASE t = s
      BY <1>2, <2>2, <2>5, <2>6, <2>7, <3>1 DEF SessionIsOrderly, AtWork, NobodyElse
    <3>2. CASE t # s
      <4>1. session'[t] = session[t] /\ session[t].pc \notin AtWork /\ SessionIsOrderly(t)
        BY <2>2, <2>5, <3>2 DEF NobodyElse, MissionInv
      <4>2. CASE session[t].pc = "ready"
        <5>1. session[t].step \in Mission!Steps
          BY <4>1, <4>2 DEF SessionIsOrderly
        <5>2. files.journal[session[t].step] = "new" => session[t].step = k
          <6>1. SUFFICES ASSUME files.journal[session[t].step] = "new" PROVE session[t].step = k
            OBVIOUS
          <6>2. 1..(session[t].step - 1) = 1..(k - 1)
            BY <4>1, <4>2, <2>5, <6>1 DEF SessionIsOrderly
          <6> QED BY <1>3, <5>1, <6>2 DEF Mission!Steps
        <5>3. files'.journal[session[t].step] # "new"
          BY <2>3, <5>1, <5>2
        <5> QED BY <4>1, <4>2, <5>1, <5>3 DEF SessionIsOrderly, AtWork, Mission!Steps
      <4> QED BY <4>1, <4>2 DEF SessionIsOrderly, AtWork
    <3> QED BY <3>1, <3>2
  <2> QED BY <2>4, <2>8, <2>9, <2>10 DEF MissionInv
<1> QED BY <1>4, <1>5

LEMMA EditStep == ASSUME MissionInv, NEW s \in Sessions, Mission!Edit(s) PROVE MissionInv'
<1>1. MissionTypeOK /\ SessionIsOrderly(s)
  BY DEF MissionInv
<1>2. /\ UNCHANGED <<files, checkpoint, latest, session>> /\ session[s].pc = "started"
      /\ world' = [world EXCEPT !.dirty = TRUE]
  BY DEF Mission!Edit
<1>3. /\ world' \in [head : Nat, dirty : BOOLEAN, applied : SUBSET Mission!Steps]
      /\ world'.head = world.head /\ world'.applied = world.applied
  BY <1>1, <1>2 DEF MissionTypeOK
<1>4. MissionTypeOK'
  BY <1>1, <1>2, <1>3 DEF MissionTypeOK, Mission!Steps, DurableFiles
<1>5. Running' = Running /\ Mission!Completed' = Mission!Completed
  BY <1>2 DEF Running, Mission!Completed, Mission!Steps
<1>6. Running \ world.applied # {}
  BY <1>1, <1>2 DEF SessionIsOrderly
<1>7. StepsAreInOrder' /\ StateTells' /\ CheckpointIsOfThePast'
  BY <1>2, <1>3, <1>5, <1>6 DEF MissionInv, StepsAreInOrder, StateTells, CheckpointIsOfThePast
<1>8. ASSUME NEW t \in Sessions PROVE SessionIsOrderly(t)'
  BY <1>2, <1>3, <1>5 DEF MissionInv, SessionIsOrderly, NothingToResume, NobodyElse, Mission!Steps
<1> QED BY <1>4, <1>7, <1>8 DEF MissionInv

LEMMA CommitStep == ASSUME MissionInv, NEW s \in Sessions, Mission!Commit(s) PROVE MissionInv'
<1>1. MissionTypeOK /\ SessionIsOrderly(s)
  BY DEF MissionInv
<1> DEFINE k == session[s].step
<1>2. /\ UNCHANGED <<files, checkpoint, latest>> /\ session[s].pc = "started"
      /\ world' = [head |-> world.head + 1, dirty |-> FALSE, applied |-> world.applied \cup {k}]
      /\ Mission!Goto(s, "committed", k)
  BY DEF Mission!Commit
<1>3. k \in Running \ world.applied /\ NobodyElse(s)
  BY <1>1, <1>2 DEF SessionIsOrderly, AtWork
<1>4. k \in Mission!Steps /\ k \in Nat
  BY <1>1, <1>3, CompletedIs DEF Mission!Steps
<1>5. /\ session' \in [Sessions -> Activities]
      /\ session'[s].pc = "committed" /\ session'[s].step = k
      /\ \A t \in Sessions \ {s} : session'[t] = session[t]
  BY <1>1, <1>2, <1>4, WentTo DEF AtWork
<1>6. /\ world' \in [head : Nat, dirty : BOOLEAN, applied : SUBSET Mission!Steps]
      /\ world'.head = world.head + 1 /\ world'.applied = world.applied \cup {k} /\ ~world'.dirty
  BY <1>1, <1>2, <1>4 DEF MissionTypeOK
<1>7. MissionTypeOK'
  BY <1>1, <1>2, <1>5, <1>6 DEF MissionTypeOK, Mission!Steps, DurableFiles
<1>8. Running' = Running /\ Mission!Completed' = Mission!Completed
  BY <1>2 DEF Running, Mission!Completed, Mission!Steps
<1>9. world.head \in Nat /\ files.state.head \in Nat /\ files.registry \in Nat
  BY <1>1 DEF MissionTypeOK, DurableFiles
<1>10. StepsAreInOrder'
  BY <1>3, <1>6, <1>8 DEF MissionInv, StepsAreInOrder
<1>11. StateTells' /\ CheckpointIsOfThePast'
  BY <1>2, <1>6, <1>9 DEF MissionInv, StateTells, CheckpointIsOfThePast
<1>12. ASSUME NEW t \in Sessions PROVE SessionIsOrderly(t)'
  <2>1. CASE t = s
    BY <1>3, <1>5, <1>6, <1>8, <2>1 DEF SessionIsOrderly, AtWork, NobodyElse
  <2>2. CASE t # s
    <3>1. session'[t] = session[t] /\ session[t].pc \notin AtWork /\ SessionIsOrderly(t)
      BY <1>3, <1>5, <2>2 DEF NobodyElse, MissionInv
    <3>2. session[t].pc = "ready" => files.journal[session[t].step] # "new"
      BY <1>2, <1>3, <3>1 DEF SessionIsOrderly, NobodyElse, AtWork
    <3> QED BY <1>2, <1>8, <3>1, <3>2 DEF SessionIsOrderly, AtWork, Mission!Steps
  <2> QED BY <2>1, <2>2
<1> QED BY <1>7, <1>10, <1>11, <1>12 DEF MissionInv

LEMMA JournalStepCompleteStep ==
  ASSUME MissionInv, NEW s \in Sessions, Mission!JournalStepComplete(s)  PROVE MissionInv'
<1>1. MissionTypeOK /\ SessionIsOrderly(s) /\ files \in DurableFiles
  BY DEF MissionInv, MissionTypeOK
<1> DEFINE k == session[s].step
<1>2. /\ UNCHANGED <<checkpoint, latest, world>> /\ session[s].pc = "committed"
      /\ files' = [files EXCEPT !.journal[k] = "complete"] /\ Mission!Goto(s, "completed", 0)
  BY DEF Mission!JournalStepComplete
<1>3. k \in Running \cap world.applied /\ NobodyElse(s)
  BY <1>1, <1>2 DEF SessionIsOrderly, AtWork
<1>4. k \in Mission!Steps /\ files.journal[k] = "running"
  BY <1>1, <1>3, CompletedIs
<1>5. /\ session' \in [Sessions -> Activities] /\ session'[s].pc = "completed"
      /\ \A t \in Sessions \ {s} : session'[t] = session[t]
  BY <1>1, <1>2, WentTo DEF AtWork
<1>6. /\ files' \in DurableFiles /\ files'.state = files.state /\ files'.registry = files.registry
      /\ files'.journal[k] = "complete"
      /\ \A i \in Mission!Steps \ {k} : files'.journal[i] = files.journal[i]
  <2> HIDE DEF k
  <2> QED BY <1>1, <1>2, <1>4, JournalWith
<1>7. MissionTypeOK'
  BY <1>1, <1>2, <1>5, <1>6 DEF MissionTypeOK, Mission!Steps, DurableFiles
<1>8. PICK n \in Nat : Mission!Completed = 1..n /\ Running \subseteq {n + 1}
  BY DEF MissionInv, StepsAreInOrder
<1>9. k = n + 1 /\ Running = {k}
  BY <1>3, <1>8
<1>10. Running' = {} /\ Mission!Completed' = Mission!Completed \cup {k}
  BY <1>1, <1>4, <1>6, <1>7, <1>9, CompletedIs, CompletedAfter
<1>11. Mission!Completed' = 1..(n + 1) /\ n + 1 \in Nat
  BY <1>8, <1>9, <1>10
<1>12. world.applied = Mission!Completed \cup {k} /\ ~world.dirty /\ k \notin Mission!Completed
  BY <1>1, <1>3, <1>4, <1>9, CompletedIs DEF MissionInv, StepsAreInOrder
<1>13. StepsAreInOrder'
  BY <1>2, <1>10, <1>11, <1>12 DEF StepsAreInOrder
<1>14. files.state.head # world.head
  BY <1>12 DEF MissionInv, StateTells
<1>15. StateTells' /\ CheckpointIsOfThePast'
  BY <1>2, <1>6, <1>14 DEF MissionInv, StateTells, CheckpointIsOfThePast
<1>16. NothingToResume'
  BY <1>2, <1>6, <1>14 DEF NothingToResume
<1>17. ASSUME NEW t \in Sessions PROVE SessionIsOrderly(t)'
  <2>1. CASE t = s
    BY <1>3, <1>5, <1>10, <1>16, <2>1 DEF SessionIsOrderly, AtWork, NobodyElse
  <2>2. CASE t # s
    <3>1. session'[t] = session[t] /\ session[t].pc \notin AtWork /\ SessionIsOrderly(t)
      BY <1>3, <1>5, <2>2 DEF NobodyElse, MissionInv
    <3>2. session[t].pc = "ready" =>
            session[t].step \in Mission!Steps /\ files.journal[session[t].step] # "new"
      BY <1>2, <1>3, <3>1 DEF SessionIsOrderly
    <3>3. session[t].pc = "ready" => files'.journal[session[t].step] # "new"
      BY <1>6, <3>2
    <3> QED BY <3>1, <3>2, <3>3 DEF SessionIsOrderly, AtWork, Mission!Steps
  <2> QED BY <2>1, <2>2
<1> QED BY <1>7, <1>13, <1>15, <1>17 DEF MissionInv

LEMMA CardinalityOfMission == ASSUME NEW S PROVE Mission!Cardinality(S) = Cardinality(S)
  BY DEF Mission!Cardinality, Cardinality

\* Files that are written while the journal and the branch stay as they are.
LEMMA Written ==
  ASSUME MissionInv, NEW s \in Sessions, NEW pc \in {"written", "registered"},
         session[s].pc \in {"completed", "written"}, Mission!Goto(s, pc, 0),
         UNCHANGED <<checkpoint, latest, world>>,
         files' \in DurableFiles, files'.journal = files.journal, NothingToResume'
  PROVE  /\ MissionTypeOK' /\ StepsAreInOrder' /\ \A t \in Sessions : SessionIsOrderly(t)'
         /\ Mission!Completed' = Mission!Completed
<1>1. MissionTypeOK /\ SessionIsOrderly(s)
  BY DEF MissionInv
<1>2. /\ session' \in [Sessions -> Activities] /\ session'[s].pc = pc
      /\ \A t \in Sessions \ {s} : session'[t] = session[t]
  BY <1>1, WentTo DEF AtWork
<1>3. MissionTypeOK'
  BY <1>1, <1>2 DEF MissionTypeOK, Mission!Steps, DurableFiles
<1>4. Running' = Running /\ Mission!Completed' = Mission!Completed
  BY DEF Running, Mission!Completed, Mission!Steps
<1>5. Running = {} /\ NobodyElse(s)
  BY <1>1 DEF SessionIsOrderly, AtWork
<1>6. StepsAreInOrder'
  BY <1>4 DEF MissionInv, StepsAreInOrder
<1>7. ASSUME NEW t \in Sessions PROVE SessionIsOrderly(t)'
  <2>1. CASE t = s
    BY <1>2, <1>4, <1>5, <2>1 DEF SessionIsOrderly, AtWork, NobodyElse
  <2>2. CASE t # s
    <3>1. session'[t] = session[t] /\ session[t].pc \notin AtWork /\ SessionIsOrderly(t)
      BY <1>2, <1>5, <2>2 DEF NobodyElse, MissionInv
    <3>2. session[t].pc = "ready" => files.journal[session[t].step] # "new"
      BY <3>1 DEF SessionIsOrderly, NobodyElse, AtWork
    <3> QED BY <1>4, <3>1, <3>2 DEF SessionIsOrderly, AtWork, Mission!Steps
  <2> QED BY <2>1, <2>2
<1> QED BY <1>3, <1>4, <1>6, <1>7

LEMMA WriteStateStep == ASSUME MissionInv, NEW s \in Sessions, Mission!WriteState(s) PROVE MissionInv'
<1>1. MissionTypeOK /\ SessionIsOrderly(s) /\ files \in DurableFiles
  BY DEF MissionInv, MissionTypeOK
<1>2. /\ UNCHANGED <<checkpoint, latest, world>> /\ session[s].pc = "completed"
      /\ files' = [files EXCEPT !.state = [done |-> Mission!Cardinality(Mission!Completed),
                                          head |-> world.head]]
      /\ Mission!Goto(s, "written", 0)
  BY DEF Mission!WriteState
<1>3. PICK n \in Nat : Mission!Completed = 1..n
  BY DEF MissionInv, StepsAreInOrder
<1>4. Mission!Cardinality(Mission!Completed) = n
  BY <1>3, FS_Interval, CardinalityOfMission
<1>5. /\ files' \in DurableFiles /\ files'.registry = files.registry /\ files'.journal = files.journal
      /\ files'.state = [done |-> n, head |-> world.head]
  <2> DEFINE u == [done |-> n, head |-> world.head]
  <2>1. u \in [done : Nat, head : Nat] /\ files' = [files EXCEPT !.state = u]
    BY <1>1, <1>2, <1>4 DEF MissionTypeOK
  <2> HIDE DEF u
  <2>2. /\ files' \in DurableFiles /\ files'.registry = files.registry
        /\ files'.journal = files.journal /\ files'.state = u
    BY <1>1, <2>1, FilesWith
  <2> QED BY <2>2 DEF u
<1>6. Running = {} /\ NothingToResume
  BY <1>1, <1>2 DEF SessionIsOrderly
<1>7. /\ files.state.head \in Nat /\ world.head \in Nat /\ files.state \in [done : Nat, head : Nat]
      /\ checkpoint.files.state.head \in Nat
  BY <1>1 DEF MissionTypeOK, DurableFiles, Mission!Damaged
<1>8. CASE files.state.head = world.head
  <2>1. Mission!Completed = 1..files.state.done /\ files.state.done \in Nat
    BY <1>7, <1>8 DEF MissionInv, StateTells
  <2>2. n = files.state.done
    BY <1>3, <2>1
  <2>3. files' = files
    BY <1>1, <1>2, <1>4, <1>7, <1>8, <2>2 DEF DurableFiles
  <2>4. NothingToResume'
    BY <1>2, <1>6, <2>3 DEF NothingToResume
  <2> QED BY <1>2, <1>1, <2>3, <2>4, Written DEF MissionInv, StateTells, CheckpointIsOfThePast
<1>9. CASE files.state.head # world.head
  <2>1. files.state.head < world.head /\ files'.state.head = world.head
    BY <1>5, <1>7, <1>9 DEF MissionInv, CheckpointIsOfThePast
  <2>2. files' # checkpoint.files
    BY <1>7, <2>1 DEF MissionInv, CheckpointIsOfThePast
  <2>3. NothingToResume'
    BY <1>2, <2>2 DEF NothingToResume
  <2>4. MissionTypeOK' /\ StepsAreInOrder' /\ (\A t \in Sessions : SessionIsOrderly(t)')
        /\ Mission!Completed' = Mission!Completed
    BY <1>2, <1>5, <2>3, Written
  <2>5. world.applied = Mission!Completed
    BY <1>6 DEF MissionInv, StepsAreInOrder
  <2>6. StateTells'
    BY <1>2, <1>3, <1>5, <2>4, <2>5 DEF StateTells
  <2>7. CheckpointIsOfThePast'
    BY <1>2, <1>5, <1>7, <2>1 DEF MissionInv, CheckpointIsOfThePast
  <2> QED BY <2>4, <2>6, <2>7 DEF MissionInv
<1> QED BY <1>8, <1>9

LEMMA WriteRegistryStep ==
  ASSUME MissionInv, NEW s \in Sessions, Mission!WriteRegistry(s)  PROVE MissionInv'
<1>1. MissionTypeOK /\ SessionIsOrderly(s) /\ files \in DurableFiles /\ world.head \in Nat
  BY DEF MissionInv, MissionTypeOK
<1>2. /\ UNCHANGED <<checkpoint, latest, world>> /\ session[s].pc = "written"
      /\ files' = [files EXCEPT !.registry = world.head] /\ Mission!Goto(s, "registered", 0)
  BY DEF Mission!WriteRegistry
<1>3. /\ files' \in DurableFiles /\ files'.registry = world.head /\ files'.journal = files.journal
      /\ files'.state = files.state
  BY <1>1, <1>2, FilesWith
<1>4. /\ files.registry \in Nat /\ world.head \in Nat
      /\ checkpoint.files.registry \in Nat
  BY <1>1 DEF MissionTypeOK, DurableFiles, Mission!Damaged
<1>5. files' = checkpoint.files => files' = files
  <2>1. SUFFICES ASSUME files' = checkpoint.files PROVE files.registry = world.head
    BY <1>1, <1>2 DEF DurableFiles
  <2> QED BY <1>3, <1>4, <2>1 DEF MissionInv, CheckpointIsOfThePast
<1>6. NothingToResume'
  BY <1>1, <1>2, <1>3, <1>5 DEF SessionIsOrderly, NothingToResume
<1>7. MissionTypeOK' /\ StepsAreInOrder' /\ (\A t \in Sessions : SessionIsOrderly(t)')
      /\ Mission!Completed' = Mission!Completed
  BY <1>2, <1>3, <1>6, Written
<1>8. StateTells' /\ CheckpointIsOfThePast'
  BY <1>2, <1>3, <1>4, <1>7 DEF MissionInv, StateTells, CheckpointIsOfThePast
<1> QED BY <1>7, <1>8 DEF MissionInv

LEMMA MissionStep == MissionInv /\ [Mission!Next]_(Mission!vars) => MissionInv'
<1> SUFFICES ASSUME MissionInv, [Mission!Next]_(Mission!vars) PROVE MissionInv'
  OBVIOUS
<1>1. CASE UNCHANGED Mission!vars
  BY <1>1 DEF Mission!vars, MissionInv, MissionTypeOK, StepsAreInOrder, StateTells,
       CheckpointIsOfThePast, SessionIsOrderly, NothingToResume, NobodyElse, Running,
       Mission!Completed, Mission!Steps, DurableFiles
<1> QED BY <1>1, CreateCheckpointStep, ResumeStep, JournalStepStartStep, EditStep, CommitStep,
           JournalStepCompleteStep, WriteStateStep, WriteRegistryStep, DieStep, MisfortuneStep
        DEF Mission!Next

ReadySettled ==
  \A s \in Sessions :
    session[s].pc = "away" /\ session'[s].pc = "ready" =>
      Mission!Settled /\ session'[s].step \notin world.applied

LEMMA ReadyStep == MissionInv /\ [Mission!Next]_(Mission!vars) => [ReadySettled]_(Mission!vars)
<1> SUFFICES ASSUME MissionInv, Mission!Next, NEW s \in Sessions,
                    session[s].pc = "away", session'[s].pc = "ready"
             PROVE  Mission!Settled /\ session'[s].step \notin world.applied
  BY DEF ReadySettled
<1>1. MissionTypeOK
  BY DEF MissionInv
<1>2. PICK t \in Sessions : Mission!Resume(t)
  <2>1. ASSUME NEW t \in Sessions, NEW pc \in AtWork \cup {"away"}, NEW k \in Nat,
               Mission!Goto(t, pc, k)
        PROVE  FALSE
    BY <1>1, <2>1, WentTo DEF AtWork
  <2>2. ASSUME NEW t \in Sessions PROVE session[t].step \in Nat
    BY <1>1 DEF MissionTypeOK, Activities
  <2>3. session' # session
    OBVIOUS
  <2>4. ~Mission!Misfortune
    BY <2>3 DEF Mission!Misfortune
  <2>5. ASSUME NEW t \in Sessions
        PROVE  ~(\/ Mission!CreateCheckpoint(t) \/ Mission!JournalStepStart(t) \/ Mission!Edit(t)
                 \/ Mission!Commit(t) \/ Mission!JournalStepComplete(t) \/ Mission!WriteState(t)
                 \/ Mission!WriteRegistry(t) \/ Mission!Die(t))
    BY <2>1, <2>2, <2>3 DEF Mission!CreateCheckpoint, Mission!JournalStepStart, Mission!Edit,
       Mission!Commit, Mission!JournalStepComplete, Mission!WriteState, Mission!WriteRegistry,
       Mission!Die, AtWork
  <2> QED BY <2>4, <2>5 DEF Mission!Next
<1>3. PICK o \in Mission!Observations :
        \/ /\ Mission!Disposition(o) = "RESUME_READY" /\ Mission!NextStep \in Mission!Steps
           /\ Mission!Goto(t, "ready", Mission!NextStep)
        \/ Mission!Alone(t) /\ Mission!Reconcile(t)
        \/ UNCHANGED session
  BY <1>2 DEF Mission!Resume
<1>4. ~(Mission!Alone(t) /\ Mission!Reconcile(t))
  <2>1. ASSUME NEW pc \in AtWork, NEW k \in Nat, Mission!Goto(t, pc, k) PROVE FALSE
    BY <1>1, <2>1, WentTo DEF AtWork
  <2>2. \A k \in Mission!RunningIn(files.journal) : k \in Nat
    BY <1>1, CompletedIs DEF Running, Mission!Steps
  <2> QED BY <2>1, <2>2 DEF Mission!Reconcile, AtWork
<1>5. /\ Mission!Disposition(o) = "RESUME_READY" /\ Mission!NextStep \in Nat
      /\ Mission!Goto(t, "ready", Mission!NextStep)
  BY <1>3, <1>4 DEF Mission!Steps
<1>6. t = s /\ session'[s].step = Mission!NextStep
  BY <1>1, <1>5, WentTo
<1>7. Mission!Settled /\ Mission!NextStep = files.state.done + 1 /\ files.state.done \in Nat
  BY <1>5, ReadyIsNext
<1>8. world.applied = 1..files.state.done
  BY <1>7 DEF Mission!Settled
<1> QED BY <1>6, <1>7, <1>8

-----------------------------------------------------------------------------
(***************************************************************************)
(* The specification of the run: each component starts as its own Init     *)
(* says, and each step is one of its own or leaves it alone.               *)
(***************************************************************************)

LEMMA PipelineMoves == [Next]_vars => [Pipeline!Next]_(Pipeline!vars)
  BY DEF Next, InPipeline, InRelease, InSchema, InSignal, InVenue, InMission, InMirror,
         InSettlement, InGate, InCertificate, vars, pipelineVars, Pipeline!vars,
         Pipeline!durableVars, Pipeline!memoryVars, Pipeline!boundVars

LEMMA ReleaseMoves == [Next]_vars => [Release!Next]_(Release!vars)
  BY DEF Next, InPipeline, InRelease, InSchema, InSignal, InVenue, InMission, InMirror,
         InSettlement, InGate, InCertificate, vars, releaseVars, Release!vars

LEMMA SchemaMoves == [Next]_vars => [Schema!Next]_(Schema!vars)
  BY DEF Next, InPipeline, InRelease, InSchema, InSignal, InVenue, InMission, InMirror,
         InSettlement, InGate, InCertificate, vars, schemaVars, Schema!vars

LEMMA MissionMoves == [Next]_vars => [Mission!Next]_(Mission!vars)
  BY DEF Next, InPipeline, InRelease, InSchema, InSignal, InVenue, InMission, InMirror,
         InSettlement, InGate, InCertificate, vars, missionVars, Mission!vars

LEMMA MirrorMoves == [Next]_vars => [Mirror!Next]_(Mirror!vars)
  BY DEF Next, InPipeline, InRelease, InSchema, InSignal, InVenue, InMission, InMirror,
         InSettlement, InGate, InCertificate, vars, mirrorVars, Mirror!vars

\* The checkpoint that the pointer issue names has its comment, whatever was lost,
\* answered late or served after another request (wfh_mission.py: _sync_github_locked).
THEOREM PointerRestsOnEvidence == Spec => []PointerHasEvidence
<1>1. Init => MirrorInv
  BY MirrorInitially DEF Init
<1>2. MirrorInv /\ [Next]_vars => MirrorInv'
  BY MirrorStep, MirrorMoves
<1>3. MirrorInv => PointerHasEvidence
  BY DEF MirrorInv, PointerHasEvidence
<1> QED BY <1>1, <1>2, <1>3, PTL DEF Spec

\* A deployment that ends as undone leaves a release at rest as it was found, wherever
\* it failed or was interrupted (deploy_production.sh: terminate_with_cleanup).
THEOREM CleanupUndoes == Spec => []UndoneIsAsFound
<1>1. Init => ReleaseInv
  BY ReleaseInitially DEF Init
<1>2. ReleaseInv /\ [Next]_vars => ReleaseInv'
  BY ReleaseStep, ReleaseMoves
<1>3. ReleaseInv => UndoneIsAsFound
  <2> SUFFICES ASSUME ReleaseInv, Release!Ended, script.outcome = "undone",
                      Release!AtRest(script.found), ~Certified
               PROVE  Release!Found = script.found
    BY DEF UndoneIsAsFound, Release!UndoneIsAsFound, Certified
  <2>1. CanBeUndone /\ script.pc = "idle"
    BY DEF ReleaseInv, ChangesCanBeUndone, HasToBeUndone, Release!Ended
  <2>2. /\ rt = script.found.rt /\ schema = script.found.schema
        /\ host = script.found.host /\ origin = script.found.origin
    BY <2>1 DEF CanBeUndone
  <2>3. script.found \in Releases
    BY DEF ReleaseInv, ReleaseTypeOK, Scripts
  <2>4. script.found = [rt |-> script.found.rt, schema |-> script.found.schema,
                        host |-> script.found.host, origin |-> script.found.origin]
    BY <2>3 DEF Releases
  <2> QED BY <2>2, <2>4 DEF Release!Found
<1> QED BY <1>1, <1>2, <1>3, PTL DEF Spec

\* However many deployments fail one after the other, pruning keeps the backup that
\* the certificate names and that of a deployment that could not be undone
\* (deploy_production.sh: prune_database_backups).
THEOREM RecoveryPointsStay == Spec => []RecoveryPointIsKept
<1>1. Init => ReleaseInv
  BY ReleaseInitially DEF Init
<1>2. ReleaseInv /\ [Next]_vars => ReleaseInv'
  BY ReleaseStep, ReleaseMoves
<1>3. ReleaseInv => RecoveryPointIsKept
  <2> SUFFICES ASSUME ReleaseInv PROVE Release!RecoveryPointIsKept
    BY DEF RecoveryPointIsKept
  <2>1. certificate.backup # 0 => InBackups(certificate.backup)
    BY DEF ReleaseInv, BackupsAreNumbered
  <2>2. script.outcome \in {"quarantined", "uncertified"} => InBackups(script.backup)
    BY DEF ReleaseInv, BackupsAreNumbered, ScriptIsOrderly
  <2>3. \A n : InBackups(n) => n \in {b.id : b \in backups}
    BY DEF InBackups
  <2> QED BY <2>1, <2>2, <2>3 DEF Release!RecoveryPointIsKept
<1> QED BY <1>1, <1>2, <1>3, PTL DEF Spec

\* A migration that stopped anywhere, beside any other, can be taken up again, a
\* database that is refused is never written, and nothing starts or reports success
\* on less than the whole schema (migration_preflight.py, migrations.py).
THEOREM MigrationsResume == Spec => []StoppedMigrationResumes
<1>1. Init => SchemaInv
  BY SchemaInitially DEF Init
<1>2. SchemaInv /\ [Next]_vars => SchemaInv'
  BY SchemaStep, SchemaMoves
<1>3. SchemaInv => StoppedMigrationResumes
  BY SchemaResumes DEF StoppedMigrationResumes
<1> QED BY <1>1, <1>2, <1>3, PTL DEF Spec

\* A session is told to go on only when nothing is half done, for any number of sessions,
\* steps, checkpoints, deaths and misfortunes (resume_guard).
THEOREM ReadySessionsAreSettled == Spec => ReadyIsSettled
<1>1. Init => MissionInv
  BY MissionInitially DEF Init
<1>2. MissionInv /\ [Next]_vars => MissionInv'
  BY MissionStep, MissionMoves
<1>3. MissionInv /\ [Next]_vars => [ReadySettled]_(Mission!vars)
  BY ReadyStep, MissionMoves
<1>4. Spec => [][ReadySettled]_(Mission!vars)
  BY <1>1, <1>2, <1>3, PTL DEF Spec
<1> QED BY <1>4 DEF ReadyIsSettled, Mission!ReadyIsSettled, ReadySettled

\* The announcements agree with the ledger: ACTIVE is recorded only for a lifecycle that
\* had its ENTRY_READY, and one outbox row announces it, for any number of listings,
\* crashes and failed reads (entry_notification.py: _enqueue; entry_decision.py).
THEOREM NoticesMatch == Spec => []NoticesMatchLedger
<1>1. Init => Pipeline!Inv
  BY NoticesAssumption, Pipeline!InitInv DEF Init
<1>2. Pipeline!Inv /\ [Next]_vars => Pipeline!Inv'
  BY NoticesAssumption, PipelineMoves, Pipeline!NextStep
<1>3. Pipeline!Inv => NoticesMatchLedger
  BY DEF Pipeline!Inv, Pipeline!Ledger, Pipeline!Grounded, Pipeline!Actionable,
         Pipeline!ActiveWasReady, Pipeline!NoticesMatchLedger, NoticesMatchLedger
<1> QED BY <1>1, <1>2, <1>3, PTL DEF Spec
=============================================================================
