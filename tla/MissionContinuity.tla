-------------------------- MODULE MissionContinuity --------------------------
(***************************************************************************)
(* Work that outlives the sessions that do it (scripts/wfh_mission.py): a   *)
(* journal of steps, checkpoints of the durable files, and the guard that  *)
(* tells a new session whether it may go on.                               *)
(*                                                                         *)
(* Every call of the controller holds .mission-control.lock, which a dying  *)
(* process releases; what sessions do between calls holds nothing.  They   *)
(* write their files as the protocol asks (external): journal first, then  *)
(* the effect, the journal again, MISSION_STATE.json and the registry.     *)
(***************************************************************************)
EXTENDS Naturals, FiniteSets

CONSTANTS
  Sessions,
  MaxSteps, MaxCheckpoints, MaxFaults     \* bounds

VARIABLES
  files,       \* durable files: [state |-> [done, head], registry, journal]
  checkpoint,  \* the highest CP-*.json: [id, files]; files is Damaged when unreadable
  latest,      \* number that LATEST_CHECKPOINT.json names, 0 without the file
  world,       \* the branch: [head, dirty, applied], the last the steps in it
  session,     \* of each session: [pc, step]
  misfortunes

vars == <<files, checkpoint, latest, world, session, misfortunes>>

Steps   == 1..MaxSteps
Damaged == [state |-> [done |-> 0, head |-> 0], registry |-> 0, journal |-> <<>>]
Away    == [pc |-> "away", step |-> 0]

Init ==
  /\ files = [state |-> [done |-> 0, head |-> 0], registry |-> 0,
              journal |-> [k \in Steps |-> "new"]]
  /\ checkpoint = [id |-> 0, files |-> Damaged] /\ latest = 0
  /\ world = [head |-> 0, dirty |-> FALSE, applied |-> {}]
  /\ session = [s \in Sessions |-> Away]
  /\ misfortunes = 0

Goto(s, pc, k) == session' = [session EXCEPT ![s] = [pc |-> pc, step |-> k]]

-----------------------------------------------------------------------------
(* Checkpoints *)

\* _validate_checkpoint_control_bundle: the one rule that relates two files.
BundleIsValid == files.registry = files.state.head

\* The checkpoint is written, then the pointer.
Written == [id |-> checkpoint.id + 1, files |-> files]

\* Nobody else is at work, as an operator or a session that reconciles finds
\* out from the processes (external).
Alone(s) == \A t \in Sessions \ {s} : session[t].pc = "away"

CreateCheckpoint(s) ==
  /\ session[s].pc \in {"started", "registered"} \/ (session[s].pc = "away" /\ Alone(s))
  /\ BundleIsValid /\ checkpoint.id < MaxCheckpoints
  /\ checkpoint' = Written
  /\ \/ /\ latest' = checkpoint.id + 1
        /\ IF session[s].pc = "registered" THEN Goto(s, "away", 0) ELSE UNCHANGED session
     \/ latest' = latest /\ Goto(s, "away", 0)
  /\ UNCHANGED <<files, world, misfortunes>>

\* load_latest_checkpoint
Loadable == latest # 0 /\ checkpoint.files # Damaged /\ latest >= checkpoint.id

-----------------------------------------------------------------------------
(* resume_guard: its gates, in their order. *)

RunningIn(journal) == {k \in DOMAIN journal : journal[k] = "running"}

\* Mutant of Interrupted: the journal of the checkpoint is not looked at.
InterruptedSince == RunningIn(files.journal) \ RunningIn(checkpoint.files.journal) # {}

Interrupted == RunningIn(files.journal) \cup RunningIn(checkpoint.files.journal) # {}

\* The hashes of the durable files.
Changed == files # checkpoint.files

\* What the caller has observed, {} when it could not, and its capabilities.
Observations ==
  [head : {{world.head}, {}}, dirty : {{world.dirty}, {}}, able : BOOLEAN]

\* MISSION_STATE.json always expects a clean worktree.
Disposition(o) ==
  IF ~Loadable THEN "RESUME_BLOCKED"
  ELSE IF Interrupted \/ Changed \/ TRUE \in o.dirty THEN "RECONCILIATION_REQUIRED"
  ELSE IF {} \in {o.head, o.dirty} \/ ~o.able THEN "RESUME_BLOCKED"
  ELSE IF o.head # {checkpoint.files.state.head} THEN "DRIFT_DETECTED"
  ELSE "RESUME_READY"

NextStep == checkpoint.files.state.done + 1

\* The interrupted step is carried on from where the world shows that it stopped;
\* without one, the files are written again (external).
Reconcile(s) ==
  LET running == RunningIn(files.journal)
  IN \/ running = {} /\ Goto(s, "completed", 0)
     \/ \E k \in running :
          IF k \in world.applied THEN Goto(s, "committed", k) ELSE Goto(s, "started", k)

Resume(s) ==
  /\ session[s].pc = "away"
  /\ \E o \in Observations :
       \/ /\ Disposition(o) = "RESUME_READY" /\ NextStep \in Steps
          /\ Goto(s, "ready", NextStep)
       \/ /\ Disposition(o) \in {"RECONCILIATION_REQUIRED", "DRIFT_DETECTED"}
          /\ Alone(s) /\ Reconcile(s)
       \/ Disposition(o) = "RESUME_BLOCKED" /\ UNCHANGED session
  /\ UNCHANGED <<files, checkpoint, latest, world, misfortunes>>

-----------------------------------------------------------------------------
(* A step: journal_step_start, the work, journal_step_complete. *)

\* A duplicate step_id is an error.
JournalStepStart(s) ==
  /\ session[s].pc = "ready"
  /\ IF files.journal[session[s].step] # "new"
       THEN Goto(s, "away", 0) /\ UNCHANGED files
       ELSE /\ files' = [files EXCEPT !.journal[session[s].step] = "running"]
            /\ Goto(s, "started", session[s].step)
  /\ UNCHANGED <<checkpoint, latest, world, misfortunes>>

\* The effect shows in the worktree before it is committed.
Edit(s) ==
  /\ session[s].pc = "started" /\ ~world.dirty
  /\ world' = [world EXCEPT !.dirty = TRUE]
  /\ UNCHANGED <<files, checkpoint, latest, session, misfortunes>>

Commit(s) ==
  /\ session[s].pc = "started" /\ world.dirty
  /\ world' = [head |-> world.head + 1, dirty |-> FALSE,
               applied |-> world.applied \cup {session[s].step}]
  /\ Goto(s, "committed", session[s].step)
  /\ UNCHANGED <<files, checkpoint, latest, misfortunes>>

JournalStepComplete(s) ==
  /\ session[s].pc = "committed"
  /\ files' = [files EXCEPT !.journal[session[s].step] = "complete"]
  /\ Goto(s, "completed", 0)
  /\ UNCHANGED <<checkpoint, latest, world, misfortunes>>

Completed == {k \in Steps : files.journal[k] = "complete"}

WriteState(s) ==
  /\ session[s].pc = "completed"
  /\ files' = [files EXCEPT !.state = [done |-> Cardinality(Completed), head |-> world.head]]
  /\ Goto(s, "written", 0)
  /\ UNCHANGED <<checkpoint, latest, world, misfortunes>>

WriteRegistry(s) ==
  /\ session[s].pc = "written"
  /\ files' = [files EXCEPT !.registry = world.head]
  /\ Goto(s, "registered", 0)
  /\ UNCHANGED <<checkpoint, latest, world, misfortunes>>

-----------------------------------------------------------------------------
(* What goes wrong *)

\* A session dies, or gives up.
Die(s) ==
  /\ session[s].pc # "away" /\ Goto(s, "away", 0)
  /\ UNCHANGED <<files, checkpoint, latest, world, misfortunes>>

\* The pointer returns to an older checkpoint, the newest one is damaged, or
\* somebody else moves the branch.
Misfortune ==
  /\ misfortunes < MaxFaults /\ misfortunes' = misfortunes + 1
  /\ \/ latest' \in 0..latest /\ UNCHANGED <<checkpoint, world>>
     \/ checkpoint' = [checkpoint EXCEPT !.files = Damaged] /\ UNCHANGED <<latest, world>>
     \/ world' = [world EXCEPT !.head = @ + 1] /\ UNCHANGED <<checkpoint, latest>>
  /\ UNCHANGED <<files, session>>

Next ==
  \/ \E s \in Sessions :
       \/ CreateCheckpoint(s) \/ Resume(s)
       \/ JournalStepStart(s) \/ Edit(s) \/ Commit(s) \/ JournalStepComplete(s)
       \/ WriteState(s) \/ WriteRegistry(s) \/ Die(s)
  \/ Misfortune

Spec == Init /\ [][Next]_vars

-----------------------------------------------------------------------------
(* Properties *)

\* Nothing is half done: every effect in the branch is of a step that the files
\* count as done, and the files speak of the branch as it is.
Settled ==
  /\ world.applied = 1..files.state.done /\ Completed = world.applied
  /\ RunningIn(files.journal) = {} /\ ~world.dirty
  /\ files.state.head = world.head /\ files.registry = world.head

\* A session is told to go on only when nothing is half done, whoever died where
\* before it (resume_guard), and then with the step that comes next.
ReadyIsSettled ==
  [][\A s \in Sessions :
       session[s].pc = "away" /\ session'[s].pc = "ready" =>
         Settled /\ session'[s].step \notin world.applied]_vars

=============================================================================
