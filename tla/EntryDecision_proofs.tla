------------------------- MODULE EntryDecision_proofs -------------------------
(***************************************************************************)
(* What build_entry_decision guarantees of the packet it returns, for any  *)
(* evidence, settings and previous packet.                                 *)
(***************************************************************************)
EXTENDS EntryDecision, TLAPS

\* A packet names a cause exactly when it is LATE.
OriginNamed(p) == (p.decision = "LATE") = (p.origin # "NONE")

\* The verdict of this evaluation, before the previous packet has its say.
Verdict(previous, ev, status, policy, lifecycle, now) ==
  Predecessor(previous, BaseDecision(ev, status, policy, now),
              BlockReasons(ev, status, policy, now), lifecycle)

Current(previous, ev, status, policy, lifecycle, now) ==
  LET base == Verdict(previous, ev, status, policy, lifecycle, now)
  IN Outcome(base.decision, base.reasons, LateOrigin(base.decision, ev, status, policy))

Settled(previous, ev, status, policy, lifecycle, now) ==
  Transition(previous, Current(previous, ev, status, policy, lifecycle, now),
             lifecycle, now)

\* The fields of the packet that build_entry_decision returns.
LEMMA EvaluatedFields ==
  ASSUME NEW previous, NEW ev, NEW status, NEW policy, NEW lifecycle, NEW now
  PROVE  LET p == Evaluated(previous, ev, status, policy, lifecycle, now)
             s == Settled(previous, ev, status, policy, lifecycle, now)
         IN /\ p.decision = s.decision
            /\ p.lifecycle = lifecycle
            /\ p.reasons = s.reasons
            /\ p.origin = IF s.decision = "LATE" THEN s.origin ELSE "NONE"
BY DEF Evaluated, Settled, Current, Verdict

\* The verdicts are the seven decisions, less EXPIRED.
LEMMA VerdictRange ==
  ASSUME NEW previous, NEW ev, NEW status, NEW policy, NEW lifecycle, NEW now
  PROVE  Verdict(previous, ev, status, policy, lifecycle, now).decision
           \in {"NO_TRADE", "FORMING", "ENTRY_READY", "ACTIVE", "LATE", "INVALIDATED"}
<1>1. BaseDecision(ev, status, policy, now)
        \in {"NO_TRADE", "FORMING", "ENTRY_READY", "ACTIVE", "LATE", "INVALIDATED"}
  BY DEF BaseDecision
<1>2. QED BY <1>1 DEF Verdict, Predecessor

\* The transition rules let an actionable verdict through or overrule it with a
\* terminal; they never make a decision actionable.
LEMMA TransitionKeepsActionable ==
  ASSUME NEW previous, NEW current, NEW lifecycle, NEW now,
         Transition(previous, current, lifecycle, now).decision \in Actionable
  PROVE  Transition(previous, current, lifecycle, now) = current
<1>1. CASE RetainsTerminal(previous, current.decision, lifecycle)
  <2>1. Transition(previous, current, lifecycle, now) = Retained(previous, current)
    BY <1>1 DEF Transition, RetainsTerminal, Terminal, Actionable
  <2>2. Retained(previous, current).decision = previous.decision
    BY DEF Retained, Outcome
  <2>3. previous.decision \in Terminal
    BY <1>1 DEF RetainsTerminal
  <2>4. QED BY <2>1, <2>2, <2>3 DEF Terminal, Actionable
<1>2. CASE ~RetainsTerminal(previous, current.decision, lifecycle)
  BY <1>2 DEF Transition, Outcome, Actionable
<1>3. QED BY <1>1, <1>2

\* ACTIVE continues an actionable decision of the same lifecycle.
LEMMA ActiveHasPredecessor ==
  ASSUME NEW previous, NEW ev, NEW status, NEW policy, NEW lifecycle, NEW now,
         Evaluated(previous, ev, status, policy, lifecycle, now).decision = "ACTIVE"
  PROVE  HasPredecessor(previous, lifecycle)
<1> DEFINE current == Current(previous, ev, status, policy, lifecycle, now)
<1>1. Transition(previous, current, lifecycle, now).decision = "ACTIVE"
  BY EvaluatedFields DEF Settled
<1>2. current.decision = "ACTIVE"
  BY <1>1, TransitionKeepsActionable DEF Actionable
<1>3. Verdict(previous, ev, status, policy, lifecycle, now).decision = "ACTIVE"
  BY <1>2 DEF Current, Outcome
<1>4. QED BY <1>3 DEF Verdict, Predecessor

\* With the freshness and the execution gate on, no packet is both actionable
\* and blocked.
LEMMA ActionableHasNoReasons ==
  ASSUME NEW previous, NEW ev, NEW status, NEW policy, NEW lifecycle, NEW now,
         policy.freshness, policy.execution,
         Evaluated(previous, ev, status, policy, lifecycle, now).decision \in Actionable
  PROVE  Evaluated(previous, ev, status, policy, lifecycle, now).reasons = {}
<1> DEFINE current == Current(previous, ev, status, policy, lifecycle, now)
           base == BaseDecision(ev, status, policy, now)
           reasons == BlockReasons(ev, status, policy, now)
<1>1. /\ Transition(previous, current, lifecycle, now).decision \in Actionable
      /\ Evaluated(previous, ev, status, policy, lifecycle, now).reasons
           = Transition(previous, current, lifecycle, now).reasons
  BY EvaluatedFields DEF Settled
<1>2. /\ current.decision \in Actionable
      /\ Evaluated(previous, ev, status, policy, lifecycle, now).reasons = current.reasons
  BY <1>1, TransitionKeepsActionable
<1>3. current.decision = base /\ current.reasons = reasons
  BY <1>2 DEF Current, Verdict, Predecessor, Outcome, Actionable
<1>4. /\ status # "INVALIDATED"
      /\ reasons \cap HardReasons(policy) = {}
      /\ ~AntiChaseLate(ev, policy)
  BY <1>2, <1>3 DEF BaseDecision, Actionable
<1>5. reasons \subseteq {"STALE", "STRUCTURE_INVALIDATED", "VETO", "ANTI_CHASE",
                        "EXECUTION_UNAVAILABLE", "PLAN_EXPIRED"}
  BY DEF BlockReasons, If
<1>6. "STRUCTURE_INVALIDATED" \notin reasons /\ "ANTI_CHASE" \notin reasons
  BY <1>4 DEF BlockReasons, If
<1>7. {"STALE", "VETO", "EXECUTION_UNAVAILABLE", "PLAN_EXPIRED"} \subseteq HardReasons(policy)
  BY DEF HardReasons, If
<1>8. reasons = {}
  BY <1>4, <1>5, <1>6, <1>7
<1>9. QED BY <1>2, <1>3, <1>8

\* A packet is LATE with a cause or not LATE without one, if the previous packet
\* was.
LEMMA EvaluatedNamesOrigin ==
  ASSUME NEW previous, NEW ev, NEW status, NEW policy, NEW lifecycle, NEW now,
         OriginNamed(previous)
  PROVE  OriginNamed(Evaluated(previous, ev, status, policy, lifecycle, now))
<1> DEFINE current == Current(previous, ev, status, policy, lifecycle, now)
           base == BaseDecision(ev, status, policy, now)
           settled == Transition(previous, current, lifecycle, now)
<1>1. /\ Evaluated(previous, ev, status, policy, lifecycle, now).decision = settled.decision
      /\ Evaluated(previous, ev, status, policy, lifecycle, now).origin
           = IF settled.decision = "LATE" THEN settled.origin ELSE "NONE"
  BY EvaluatedFields DEF Settled
<1>2. SUFFICES ASSUME settled.decision = "LATE"
               PROVE  settled.origin # "NONE"
  BY <1>1 DEF OriginNamed
<1>3. current.decision = "LATE" => current.origin # "NONE"
  <2>1. SUFFICES ASSUME current.decision = "LATE" PROVE current.origin # "NONE"
    OBVIOUS
  <2>2. base = "LATE" /\ current.origin = LateOrigin("LATE", ev, status, policy)
    BY <2>1 DEF Current, Verdict, Predecessor, Outcome
  <2>3. status = "EXHAUSTED" \/ AntiChaseLate(ev, policy)
    BY <2>2 DEF BaseDecision
  <2>4. QED BY <2>2, <2>3 DEF LateOrigin
<1>4. CASE RetainsTerminal(previous, current.decision, lifecycle)
  <2>1. settled = Retained(previous, current)
    BY <1>4 DEF Transition, RetainsTerminal, Terminal, Actionable
  <2>2. previous.decision = "LATE"
    BY <1>2, <2>1 DEF Retained, Outcome
  <2>3. previous.origin # "NONE"
    BY <2>2 DEF OriginNamed
  <2>4. PreviousOrigin(previous) # "NONE"
    BY <2>3 DEF PreviousOrigin
  <2>5. QED BY <2>1, <2>2, <2>4 DEF Retained, Outcome
<1>5. CASE ~RetainsTerminal(previous, current.decision, lifecycle)
  <2>1. settled = current
    BY <1>2, <1>5 DEF Transition, Outcome
  <2>2. QED BY <2>1, <1>2, <1>3
<1>6. QED BY <1>4, <1>5
=============================================================================
