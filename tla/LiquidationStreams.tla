-------------------------- MODULE LiquidationStreams --------------------------
(***************************************************************************)
(* The liquidation streams of one venue in core/ws_streamer.py.            *)
(*                                                                         *)
(* A stream is a task that owns an exchange object.  Most venues have one  *)
(* stream per symbol; Binance has one for all, kept while it has a         *)
(* subscriber.  Unsubscribing cancels the task at once, hands its exchange *)
(* to a retirement task that closes it, and lets the cancelled task run    *)
(* its `finally` later, when another one may have taken its place.  A close *)
(* may last as long as it likes: the retirement keeps waiting for it.      *)
(***************************************************************************)
EXTENDS Naturals, FiniteSets

CONSTANTS Symbols

VARIABLES
  shared,       \* one stream for the venue
  supported,    \* the exchange class can watch liquidations
  refused,      \* unsupported_liquidation_exchanges has the venue
  subscribers,  \* liquidation_subscribers, of a shared venue
  task,         \* active_tasks, by stream: "none", "waiting" or "watching"
  cancelled,    \* streams with a cancelled task that has not run its `finally`
  owned,        \* streams with an exchange object
  closing,      \* retirement tasks that have not ended, by stream
  dropped       \* an exchange was given up without being closed

taskVars == <<task, cancelled>>
exchangeVars == <<owned, closing, dropped>>
vars == <<shared, supported, refused, subscribers, taskVars, exchangeVars>>

Stream(s) == IF shared THEN CHOOSE r \in Symbols : TRUE ELSE s

Init ==
  /\ shared \in BOOLEAN /\ supported \in BOOLEAN
  /\ refused = FALSE /\ subscribers = {}
  /\ task = [s \in Symbols |-> "none"] /\ cancelled = {}
  /\ owned = {} /\ closing = [s \in Symbols |-> 0] /\ dropped = FALSE

\* _schedule_liquidation_exchange_retire and its counterpart for a shared venue,
\* which does not start a second retirement.
Retire(st) ==
  /\ owned' = owned \ {st}
  /\ IF st \notin owned THEN UNCHANGED <<closing, dropped>>
     ELSE IF shared /\ closing[st] > 0 THEN dropped' = TRUE /\ UNCHANGED closing
     ELSE closing' = [closing EXCEPT ![st] = @ + 1] /\ UNCHANGED dropped

\* subscribe_liquidations.
Subscribe(s) ==
  /\ ~refused
  /\ subscribers' = IF shared THEN subscribers \cup {s} ELSE subscribers
  /\ task' = IF task[Stream(s)] = "none" THEN [task EXCEPT ![Stream(s)] = "waiting"]
                                         ELSE task
  /\ UNCHANGED <<shared, supported, refused, cancelled, exchangeVars>>

Cancel(st) ==
  /\ task' = [task EXCEPT ![st] = "none"]
  /\ cancelled' = IF task[st] = "none" THEN cancelled ELSE cancelled \cup {st}

\* unsubscribe: a shared stream ends with its last subscriber.
Unsubscribe(s) ==
  /\ subscribers' = subscribers \ {s}
  /\ IF shared /\ (subscribers = {} \/ subscribers' # {})
     THEN UNCHANGED <<taskVars, exchangeVars>>
     ELSE Cancel(Stream(s)) /\ Retire(Stream(s))
  /\ UNCHANGED <<shared, supported, refused>>

\* _get_liquidation_exchange, _await_shared_liquidation_retirement: no exchange is
\* made while the venue has a retirement or an unfinished close.
MayOpen(st) == \A t \in Symbols : closing[t] = 0

Open(st) ==
  /\ task[st] = "waiting" /\ MayOpen(st) /\ supported
  /\ task' = [task EXCEPT ![st] = "watching"]
  /\ owned' = owned \cup {st}
  /\ UNCHANGED <<shared, supported, refused, subscribers, cancelled, closing, dropped>>

\* The exchange is made, cannot watch, and goes with the task's own `finally`.
FindUnsupported(st) ==
  /\ task[st] = "waiting" /\ MayOpen(st) /\ ~supported
  /\ refused' = TRUE /\ subscribers' = {}
  /\ task' = [task EXCEPT ![st] = "none"]
  /\ closing' = [closing EXCEPT ![st] = @ + 1]
  /\ UNCHANGED <<shared, supported, cancelled, owned, dropped>>

\* Mutant of Finally: the exchange is retired whoever the stream belongs to.
FinallyAlways(st) ==
  /\ st \in cancelled /\ cancelled' = cancelled \ {st}
  /\ Retire(st)
  /\ UNCHANGED <<shared, supported, refused, subscribers, task>>

\* The `finally` of a cancelled task: it leaves a successor's exchange alone.
Finally(st) ==
  /\ st \in cancelled /\ cancelled' = cancelled \ {st}
  /\ IF task[st] = "none" THEN Retire(st) ELSE UNCHANGED exchangeVars
  /\ UNCHANGED <<shared, supported, refused, subscribers, task>>

\* _close_exchange_instance ends, after its time-out perhaps.
CloseEnds(st) ==
  /\ closing[st] > 0
  /\ closing' = [closing EXCEPT ![st] = @ - 1]
  /\ UNCHANGED <<shared, supported, refused, subscribers, taskVars, owned, dropped>>

\* refresh_liquidation_capability.
Refresh ==
  /\ refused' = FALSE
  /\ UNCHANGED <<shared, supported, subscribers, taskVars, exchangeVars>>

Next ==
  \/ \E s \in Symbols :
       \/ Subscribe(s) \/ Unsubscribe(s)
       \/ Open(s) \/ FindUnsupported(s) \/ Finally(s) \/ CloseEnds(s)
  \/ Refresh

Spec == Init /\ [][Next]_vars

-----------------------------------------------------------------------------
(* Properties. *)

\* Each stream has one transport at a time, its closing ones included, and every
\* exchange that was opened is closed in the end: none is left behind without a
\* task, taken from a successor, or given up (retirement and re-subscription
\* cross in every order).
OwnedOnceAndClosed ==
  /\ ~dropped
  /\ \A st \in Symbols :
       /\ closing[st] + (IF st \in owned THEN 1 ELSE 0) <= 1
       /\ (st \in owned) = (task[st] = "watching")

=============================================================================
