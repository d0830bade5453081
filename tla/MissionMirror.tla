---------------------------- MODULE MissionMirror ----------------------------
(***************************************************************************)
(* The mirror of a mission on GitHub (scripts/wfh_mission.py, sync_github): *)
(* a mission issue with one comment per checkpoint, and a pointer issue     *)
(* that names the latest one.                                              *)
(*                                                                         *)
(* A synchronisation holds the lock of the mission, so no checkpoint is     *)
(* made beside it.  A request that fails may not have arrived, may have     *)
(* been served, or may still be served later, after any other.             *)
(***************************************************************************)
EXTENDS Naturals, Sequences, FiniteSets

CONSTANTS MaxRecorded, MaxLosses    \* bounds

VARIABLES
  recorded,     \* number of the latest checkpoint
  hub,          \* the issues: [mission, pointer, comments]; a body names a
                \* checkpoint, 0 when nobody has initialised the issue
  sync,         \* of the synchronisation: [pc, id]
  wire,         \* requests that failed and may still be served: [kind, id]
  losses

vars == <<recorded, hub, sync, wire, losses>>

Init ==
  /\ recorded = 1
  /\ hub = [mission |-> 0, pointer |-> 0, comments |-> <<>>]
  /\ sync = [pc |-> "idle", id |-> 0]
  /\ wire = {} /\ losses = 0

Comments == {hub.comments[i] : i \in DOMAIN hub.comments}

\* What GitHub makes of a request (external).
Served(r) ==
  CASE r.kind = "mission" -> [hub EXCEPT !.mission = r.id]
    [] r.kind = "comment" -> [hub EXCEPT !.comments = Append(@, r.id)]
    [] r.kind = "pointer" -> [hub EXCEPT !.pointer = r.id]

NewCheckpoint ==
  /\ sync.pc = "idle" /\ recorded < MaxRecorded
  /\ recorded' = recorded + 1
  /\ UNCHANGED <<hub, sync, wire, losses>>

\* Both issues carry the mission's marker, or --initialize was given.
Begin(initialize) ==
  /\ sync.pc = "idle"
  /\ initialize \/ (hub.mission # 0 /\ hub.pointer # 0)
  /\ sync' = [pc |-> "mission", id |-> recorded]
  /\ UNCHANGED <<recorded, hub, wire, losses>>

\* A request with its answer, or without: then the call fails and the lock is
\* released.
Request(kind, next) ==
  LET r == [kind |-> kind, id |-> sync.id]
  IN \/ hub' = Served(r) /\ sync' = [sync EXCEPT !.pc = next] /\ UNCHANGED <<wire, losses>>
     \/ /\ losses < MaxLosses /\ losses' = losses + 1
        /\ sync' = [pc |-> "idle", id |-> 0]
        /\ \/ hub' = Served(r) /\ UNCHANGED wire
           \/ hub' = hub /\ wire' \in {wire, wire \cup {r}}

\* "Publish evidence first."
EditMission ==
  sync.pc = "mission" /\ Request("mission", "list") /\ UNCHANGED recorded

\* Mutant of Comment: the marker is looked for in any checkpoint's comment.
CommentOnlyFirst ==
  /\ sync.pc = "list"
  /\ IF Comments # {}
       THEN sync' = [sync EXCEPT !.pc = "pointer"] /\ UNCHANGED <<hub, wire, losses>>
       ELSE Request("comment", "pointer")
  /\ UNCHANGED recorded

\* The comments are listed, and one is added when none has this marker.
Comment ==
  /\ sync.pc = "list"
  /\ IF sync.id \in Comments
       THEN sync' = [sync EXCEPT !.pc = "pointer"] /\ UNCHANGED <<hub, wire, losses>>
       ELSE Request("comment", "pointer")
  /\ UNCHANGED recorded

\* "The pointer issue is the final commit marker."
EditPointer ==
  sync.pc = "pointer" /\ Request("pointer", "idle") /\ UNCHANGED recorded

ServedLate ==
  /\ \E r \in wire : hub' = Served(r) /\ wire' = wire \ {r}
  /\ UNCHANGED <<recorded, sync, losses>>

Next ==
  \/ NewCheckpoint \/ (\E initialize \in BOOLEAN : Begin(initialize))
  \/ EditMission \/ Comment \/ EditPointer \/ ServedLate

Spec == Init /\ [][Next]_vars

-----------------------------------------------------------------------------
(* Properties *)

\* The checkpoint that the pointer issue names has its comment, and every earlier
\* request that GitHub serves late leaves it so (_sync_github_locked).
PointerHasEvidence == hub.pointer # 0 => hub.pointer \in Comments

=============================================================================
