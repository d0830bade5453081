---------------------------- MODULE EntryDecision ----------------------------
(***************************************************************************)
(* The canonical entry decision of core/entry_decision.py as operators:    *)
(* build_entry_decision and the two transitions that need no evaluation    *)
(* (explicit plan expiry, symbol outside the universe).                    *)
(*                                                                         *)
(* The metrics of an evaluation are abstracted to what the decision tells  *)
(* apart: each freshness or viability test is a Boolean, readiness is the  *)
(* band it falls in, and `gates' is the conjunction of the remaining gates *)
(* (coverage, direction, trade plan, AI cap, timing, execution, cross      *)
(* exchange).  `material' stands for the leverage advisory, whose inputs   *)
(* (spread, entry price, ATR, readiness) change from one evaluation to the *)
(* next.  Packets written before late_origin existed, and the recovery    *)
(* rule _legacy_low_readiness_late that only they meet, are left out.      *)
(***************************************************************************)
EXTENDS Integers

CandidateStatus ==
  {"WATCH", "FUEL-RICH", "PRE-TRIGGER", "ARMED", "TRIGGERED", "EXHAUSTED",
   "INVALIDATED"}
Actionable == {"ENTRY_READY", "ACTIVE"}
Terminal == {"LATE", "INVALIDATED", "EXPIRED"}
Decision == {"NO_TRADE", "FORMING"} \cup Actionable \cup Terminal
Origin == {"NONE", "ANTI_CHASE", "LIFECYCLE_EXHAUSTED"}
Readiness == {"below", "forming", "ready"}
Reason == {"STALE", "STRUCTURE_INVALIDATED", "VETO", "ANTI_CHASE",
           "EXECUTION_UNAVAILABLE", "PLAN_EXPIRED", "PREDECESSOR_REQUIRED",
           "CONDITIONS_LOST", "NO_LONGER_ACTIVE"}

NoExpiry == -1

\* The predecessor of a symbol's first decision.
NoPacket ==
  [decision |-> "NONE", lifecycle |-> 0, state |-> "WATCH", readiness |-> "below",
   reasons |-> {}, origin |-> "NONE", expires |-> NoExpiry, material |-> 0]

If(condition, reason) == IF condition THEN {reason} ELSE {}

Passed(expires, now) == expires # NoExpiry /\ now >= expires

-----------------------------------------------------------------------------
(* One evaluation. *)

AntiChaseLate(ev, policy) == policy.antiChase /\ ev.extended

\* _initial_block_reasons and the two reasons build_entry_decision adds.
BlockReasons(ev, status, policy, now) ==
  UNION {If(ev.stale, "STALE"),
         If(status = "INVALIDATED", "STRUCTURE_INVALIDATED"),
         If(ev.veto, "VETO"),
         If(AntiChaseLate(ev, policy), "ANTI_CHASE"),
         If(~ev.viable, "EXECUTION_UNAVAILABLE"),
         If(Passed(ev.expires, now), "PLAN_EXPIRED")}

HardReasons(policy) ==
  {"VETO", "PLAN_EXPIRED"} \cup If(policy.freshness, "STALE")
                           \cup If(policy.execution, "EXECUTION_UNAVAILABLE")

\* Only a trigger-confirmed lifecycle state may be actionable.
LifecycleConfirmed(status) == status \in {"ARMED", "TRIGGERED"}

\* _base_decision: the tests in the order the code makes them.
BaseDecision(ev, status, policy, now) ==
  LET reasons == BlockReasons(ev, status, policy, now)
      pass == ev.readiness = "ready" /\ ev.gates /\ LifecycleConfirmed(status)
  IN CASE status = "EXHAUSTED" -> "LATE"
       [] status = "INVALIDATED" -> "INVALIDATED"
       [] OTHER ->
          IF (policy.cascade /\ ~ev.cascade) \/ reasons \cap HardReasons(policy) # {}
          THEN "NO_TRADE"
          ELSE CASE AntiChaseLate(ev, policy) -> "LATE"
                 [] ~AntiChaseLate(ev, policy) /\ pass ->
                      IF status = "TRIGGERED" THEN "ACTIVE" ELSE "ENTRY_READY"
                 [] OTHER ->
                      IF ev.readiness = "below" THEN "NO_TRADE" ELSE "FORMING"

\* An ACTIVE evaluation continues an actionable decision of its own lifecycle.
HasPredecessor(previous, lifecycle) ==
  previous.decision \in Actionable /\ previous.lifecycle = lifecycle

DistinctLifecycle(previous, lifecycle) ==
  previous # NoPacket /\ previous.lifecycle # lifecycle

LateOrigin(decision, ev, status, policy) ==
  CASE decision # "LATE" -> "NONE"
    [] decision = "LATE" /\ status = "EXHAUSTED" -> "LIFECYCLE_EXHAUSTED"
    [] OTHER -> IF AntiChaseLate(ev, policy) THEN "ANTI_CHASE" ELSE "NONE"

PreviousOrigin(previous) ==
  CASE previous.origin # "NONE" -> previous.origin
    [] previous.origin = "NONE" /\ previous.state = "EXHAUSTED" -> "LIFECYCLE_EXHAUSTED"
    [] OTHER -> IF "ANTI_CHASE" \in previous.reasons THEN "ANTI_CHASE" ELSE "NONE"

\* What the transition rules settle of a packet.
Outcome(decision, reasons, origin) ==
  [decision |-> decision, reasons |-> reasons, origin |-> origin]

\* Mutant of Retained: the origin is the current evaluation's.
RetainedWithoutOrigin(previous, current) ==
  Outcome(previous.decision,
          IF current.decision = previous.decision THEN current.reasons
                                                  ELSE previous.reasons,
          current.origin)

\* A terminal decision is repeated with the reasons and origin it had.
Retained(previous, current) ==
  LET repeats == current.decision = previous.decision
  IN Outcome(previous.decision,
             IF repeats THEN current.reasons ELSE previous.reasons,
             CASE previous.decision # "LATE" -> "NONE"
               [] previous.decision = "LATE" /\ repeats /\ current.origin # "NONE" ->
                    current.origin
               [] OTHER -> PreviousOrigin(previous))

\* A terminal of this lifecycle gives way to any decision that can still lead
\* to an entry.
RetainsTerminal(previous, decision, lifecycle) ==
  /\ previous.decision \in Terminal
  /\ ~DistinctLifecycle(previous, lifecycle)
  /\ decision \notin {"FORMING"} \cup Actionable

ValidEntryTransition(from, to) ==
  \/ to \in Terminal
  \/ from = "ENTRY_READY" /\ to \in Actionable
  \/ from = "ACTIVE" /\ to = "ACTIVE"

\* _apply_previous_transition.
Transition(previous, current, lifecycle, now) ==
  CASE RetainsTerminal(previous, current.decision, lifecycle) ->
         Retained(previous, current)
    [] previous.decision \in Actionable /\ ~DistinctLifecycle(previous, lifecycle) ->
         IF Passed(previous.expires, now)
         THEN Outcome("EXPIRED", {"PLAN_EXPIRED"}, "NONE")
         ELSE IF ValidEntryTransition(previous.decision, current.decision)
         THEN current
         ELSE Outcome("INVALIDATED", current.reasons \cup {"CONDITIONS_LOST"}, "NONE")
    [] OTHER -> current

\* Mutant of Predecessor: the predecessor may be of any lifecycle.
PredecessorOfAnyLifecycle(previous, decision, reasons, lifecycle) ==
  IF decision = "ACTIVE" /\ previous.decision \notin Actionable
  THEN [decision |-> "NO_TRADE", reasons |-> reasons \cup {"PREDECESSOR_REQUIRED"}]
  ELSE [decision |-> decision, reasons |-> reasons]

\* ACTIVE without its predecessor is demoted before the transition rules run.
Predecessor(previous, decision, reasons, lifecycle) ==
  IF decision = "ACTIVE" /\ ~HasPredecessor(previous, lifecycle)
  THEN [decision |-> "NO_TRADE", reasons |-> reasons \cup {"PREDECESSOR_REQUIRED"}]
  ELSE [decision |-> decision, reasons |-> reasons]

\* build_entry_decision.
Evaluated(previous, ev, status, policy, lifecycle, now) ==
  LET base == Predecessor(previous, BaseDecision(ev, status, policy, now),
                          BlockReasons(ev, status, policy, now), lifecycle)
      current == Outcome(base.decision, base.reasons,
                         LateOrigin(base.decision, ev, status, policy))
      settled == Transition(previous, current, lifecycle, now)
  IN [decision |-> settled.decision, lifecycle |-> lifecycle, state |-> status,
      readiness |-> ev.readiness, reasons |-> settled.reasons,
      origin |-> IF settled.decision = "LATE" THEN settled.origin ELSE "NONE",
      expires |-> ev.expires, material |-> ev.material]

-----------------------------------------------------------------------------
(* Transitions without an evaluation. *)

\* build_expired_entry_decision returns a packet.
Expirable(previous, now) ==
  previous.decision \in Actionable /\ Passed(previous.expires, now)

ExpiredPacket(previous) ==
  [previous EXCEPT !.decision = "EXPIRED", !.reasons = {"PLAN_EXPIRED"}]

\* build_invalidated_entry_decision returns a packet.
Invalidatable(previous) == previous.decision \in Actionable

InvalidatedPacket(previous) ==
  [previous EXCEPT !.decision = "INVALIDATED", !.reasons = {"NO_LONGER_ACTIVE"}]
=============================================================================
