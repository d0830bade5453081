-------------------------- MODULE MCOutcomeCapture --------------------------
(* The instance of OutcomeCapture that TLC checks. *)
EXTENDS OutcomeCapture

Packet(material, detail, lane) == [material |-> material, detail |-> detail, lane |-> lane]

\* The loop offers a decision in two wordings, one of which needs no provider;
\* the maintenance thread offers another decision.
MCOffers == [o \in {"loop", "thread"} |->
               IF o = "loop" THEN {Packet(1, 0, "provider"), Packet(1, 1, "local")}
                             ELSE {Packet(2, 0, "provider")}]

\* The loop evaluates again and again, the worker wakes again and again, and a
\* provider that is asked again and again answers now and then.
Fairness ==
  /\ WF_vars(Cycle) /\ WF_vars(Tick)
  /\ \A e \in 1..MaxEvents : SF_vars(Settle(e))
  /\ \A o \in Offerers : WF_vars(Repair(o) \/ Capture(o)) /\ WF_vars(OfferAgain(o))

FairSpec == Spec /\ Fairness
=============================================================================
