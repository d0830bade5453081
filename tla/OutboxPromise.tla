---------------------------- MODULE OutboxPromise ----------------------------
(***************************************************************************)
(* What the notification outbox promises the rest of the system, without   *)
(* workers, leases, retries or clocks.                                     *)
(*                                                                         *)
(* An event is published once, stays open while it may still be sent, and  *)
(* is settled once, for good.  The remote service may accept an event more *)
(* than once (delivery is at-least-once), but never after the outbox said  *)
(* DELIVERED or DEAD_LETTER; only an event whose outcome was given up as   *)
(* DELIVERY_UNCERTAIN may still be accepted late.                          *)
(***************************************************************************)
EXTENDS Naturals

CONSTANT Events                     \* the outbox rows that can ever exist

VARIABLES
  phase,      \* phase[e]: ABSENT, OPEN or the final status of e
  acceptances \* acceptances[e]: how often the remote service accepted e

vars == <<phase, acceptances>>

Settled == {"DELIVERED", "DEAD_LETTER", "DELIVERY_UNCERTAIN"}

Init ==
  /\ phase = [e \in Events |-> "ABSENT"]
  /\ acceptances = [e \in Events |-> 0]

\* A decision transaction commits the event together with its decision row.
Publish(e) ==
  /\ phase[e] = "ABSENT"
  /\ phase' = [phase EXCEPT ![e] = "OPEN"]
  /\ UNCHANGED acceptances

\* The remote service accepts the message.
Accept(e) ==
  /\ phase[e] \in {"OPEN", "DELIVERY_UNCERTAIN"}
  /\ acceptances' = [acceptances EXCEPT ![e] = @ + 1]
  /\ UNCHANGED phase

\* The outbox records the one final status of an event.
Settle(e) ==
  /\ phase[e] = "OPEN"
  /\ \E s \in Settled : phase' = [phase EXCEPT ![e] = s]
  /\ UNCHANGED acceptances

\* One worker settles all the leases that a crash left behind in one statement.
SettleMany ==
  \E gone \in SUBSET {e \in Events : phase[e] = "OPEN"} :
     /\ phase' = [e \in Events |-> IF e \in gone THEN "DELIVERY_UNCERTAIN"
                                                 ELSE phase[e]]
     /\ UNCHANGED acceptances

Next ==
  \/ \E e \in Events : Publish(e) \/ Accept(e) \/ Settle(e)
  \/ SettleMany

Spec == Init /\ [][Next]_vars

(***************************************************************************)
(* The promise of progress, checked of every fair implementation: an event *)
(* does not stay open for ever.                                            *)
(***************************************************************************)
EventuallySettled == \A e \in Events : (phase[e] = "OPEN") ~> (phase[e] \in Settled)
=============================================================================
