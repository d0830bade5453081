----------------------- MODULE MCNotificationDelivery -----------------------
(* The instance of NotificationDelivery.  Two processes write the same      *)
(* lease owner, as the running and the restarted backend do, and one unit   *)
(* of time is long enough for a lease to run out under a slow dispatch.     *)
EXTENDS NotificationDelivery

MCWorkerId == [p \in Procs |-> "canonical-entry-telegram"]
MCRetryAfter == {0 - 1, 2, 9}
MCEvalDelays == {0, 1}
=============================================================================
