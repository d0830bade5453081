-------------------------- MODULE MCDecisionPipeline --------------------------
(* The instance of DecisionPipeline that TLC checks. *)
EXTENDS DecisionPipeline

Sound ==
  [stale |-> FALSE, veto |-> FALSE, viable |-> TRUE, extended |-> FALSE,
   cascade |-> TRUE, readiness |-> "ready", gates |-> TRUE,
   expires |-> NoExpiry, material |-> 0]

\* Every gate passed, with and without an explicit plan expiry; the same after
\* the market moved; and one way to fail for each rule that tells them apart.
MCEvidence ==
  {Sound,
   [Sound EXCEPT !.expires = 1],
   [Sound EXCEPT !.material = 1],
   [Sound EXCEPT !.veto = TRUE],
   [Sound EXCEPT !.extended = TRUE],
   [Sound EXCEPT !.readiness = "forming"]}

\* What the runs about one rule need.
MCPlainEvidence == {Sound, [Sound EXCEPT !.veto = TRUE]}
MCUpdatedEvidence == {Sound, [Sound EXCEPT !.material = 1]}
MCExtendedEvidence == {Sound, [Sound EXCEPT !.extended = TRUE]}
MCWeakEvidence == {Sound, [Sound EXCEPT !.extended = TRUE, !.readiness = "below"]}

MCPolicies == {ShippedPolicy}
=============================================================================
