------------------------- MODULE NotificationDelivery -------------------------
(***************************************************************************)
(* The durable notification outbox and its workers: core/                  *)
(* notification_delivery.py (DurableNotificationWorker), the Telegram      *)
(* transport of core/notifier.py and the loop that drives them in main.py. *)
(*                                                                         *)
(* A worker process runs dispatch_once in a loop.  Each database call of a *)
(* dispatch is one transaction in its own thread, so a dispatch is a chain *)
(* of atomic steps (pc) that other processes, the clock and crashes may    *)
(* interleave with:                                                        *)
(*                                                                         *)
(*   idle -> recover -> grace -> claim -> check -> advise -> post ->       *)
(*   answer -> complete -> idle                                            *)
(*                                                                         *)
(* Every step of a dispatch uses the timestamp read when it began.         *)
(*                                                                         *)
(* TIME.  A timestamp column is kept as its distance from the clock, which *)
(* keeps the state finite for a clock that never stops: due is             *)
(* available_at - now, lease is lease_expires_at - now, waited is now -    *)
(* created_at and age is now - evaluated_at.  lag[w] is the age of the     *)
(* timestamp that w's dispatch works with, so the code's                   *)
(* "available_at <= timestamp" reads due <= -lag[w].  Distances saturate   *)
(* at Horizon, which is beyond every comparison the code makes.            *)
(***************************************************************************)
EXTENDS Integers, FiniteSets

CONSTANTS
  Events,       \* rows of entry_notification_outbox
  Procs,        \* worker processes: the running one, and one during a restart
  WorkerId,     \* WorkerId[p]: the lease owner p writes; the code uses one id
  PreCutover,   \* events evaluated before the release's cutover_at
  Lease,        \* lease_seconds
  Grace,        \* advisory_wait_seconds
  MaxAttempts,  \* max_attempts
  BaseBackoff,  \* base_backoff_seconds
  MaxBackoff,   \* max_backoff_seconds
  RetryAfter,   \* values of retry_after a 429 may carry, with the code's default
  MaxAge,       \* max_entry_age_seconds of the transport
  EvalDelays,   \* how old an evaluation may be when its event is committed
  MaxLag,       \* bound: the longest dispatch (database and transport timeouts)
  Horizon,      \* bound: where distances from the clock saturate
  MaxFaults     \* bound: crashes and failed transactions in a behaviour

ASSUME ConstantsAssumption ==
  /\ Lease \in Nat \ {0}
  /\ Grace \in Nat
  /\ MaxAttempts \in Nat \ {0}
  /\ BaseBackoff \in Nat \ {0}
  /\ MaxBackoff \in Nat /\ MaxBackoff >= BaseBackoff
  /\ RetryAfter \subseteq Int
  /\ MaxAge \in Nat \ {0}
  /\ EvalDelays \subseteq Nat
  /\ MaxLag \in Nat
  /\ Horizon \in Nat
  /\ Horizon >= MaxLag + Grace /\ Horizon > MaxAge
  /\ \A d \in EvalDelays : d <= Horizon
  /\ MaxFaults \in Nat
  /\ PreCutover \subseteq Events

VARIABLES
  row,         \* row[e]: the outbox row of e
  advisory,    \* advisory[e]: entry_decision_advisories has a row for e
  superseded,  \* superseded[e]: a newer decision event of e's symbol exists
  pc,          \* pc[p]: the next step of p's dispatch
  lag,         \* lag[p]: now - the timestamp of p's dispatch
  event,       \* event[p]: the event p has claimed
  attempt,     \* attempt[p]: the attempt number p's claim wrote
  result,      \* result[p]: what the transport answered, or Nothing
  faults,      \* faults used up
  \* History, read by properties only.
  accepted,    \* accepted[e]: messages of e that Telegram accepted
  ambiguous,   \* ambiguous[e]: accepted messages reported as a failure to retry
  suppressed,  \* suppressed[e]: e was deliberately not sent
  late         \* late[p]: e was superseded before p claimed it

outboxVars == <<row, advisory, superseded>>
procVars == <<pc, lag, event, attempt, result>>
historyVars == <<accepted, ambiguous, suppressed, late>>
vars == <<outboxVars, procVars, historyVars, faults>>

Nothing == "none"
Waiting == {"PENDING", "RETRY_WAIT"}
Final == {"DELIVERED", "DEAD_LETTER", "DELIVERY_UNCERTAIN"}
Status == {"ABSENT", "SENDING"} \cup Waiting \cup Final
Disposition ==
  {"DELIVERED", "DELIVERY_UNCERTAIN", "TRANSIENT", "RATE_LIMITED", "PERMANENT"}
Steps == {"idle", "recover", "grace", "claim", "check", "advise", "post",
          "answer", "complete"}
\* The steps at which a process holds a claim.
Holding == {"check", "advise", "post", "answer", "complete"}

Distance == (0 - Horizon) .. (2 * MaxBackoff + Lease)
Row == [status : Status, attempts : 0 .. MaxAttempts, due : Distance,
        lease : Distance, owner : {WorkerId[p] : p \in Procs} \cup {Nothing},
        waited : 0 .. Horizon, age : 0 .. Horizon]

MinOf(a, b) == IF a <= b THEN a ELSE b
MaxOf(a, b) == IF a <= b THEN b ELSE a

-----------------------------------------------------------------------------
\* The initial database is empty and no dispatch is running.
Init ==
  /\ row = [e \in Events |-> [status |-> "ABSENT", attempts |-> 0, due |-> 0,
                              lease |-> 0, owner |-> Nothing, waited |-> 0,
                              age |-> 0]]
  /\ advisory = [e \in Events |-> FALSE]
  /\ superseded = [e \in Events |-> FALSE]
  /\ pc = [p \in Procs |-> "idle"]
  /\ lag = [p \in Procs |-> 0]
  /\ event = [p \in Procs |-> Nothing]
  /\ attempt = [p \in Procs |-> 0]
  /\ result = [p \in Procs |-> Nothing]
  /\ faults = 0
  /\ accepted = [e \in Events |-> 0]
  /\ ambiguous = [e \in Events |-> 0]
  /\ suppressed = [e \in Events |-> FALSE]
  /\ late = [p \in Procs |-> FALSE]

-----------------------------------------------------------------------------
(* What the rest of the system does to the outbox. *)

\* A decision transaction inserts the row: available_at is the evaluation's
\* time, created_at the time of the insert.
Enqueue(e) ==
  /\ row[e].status = "ABSENT"
  /\ \E d \in EvalDelays :
       row' = [row EXCEPT ![e].status = "PENDING", ![e].due = 0 - d, ![e].age = d]
  /\ UNCHANGED <<advisory, superseded, procVars, historyVars, faults>>

\* The AI advisory of the event's decision is stored.  It may never be.
StoreAdvisory(e) ==
  /\ row[e].status # "ABSENT" /\ ~advisory[e]
  /\ advisory' = [advisory EXCEPT ![e] = TRUE]
  /\ UNCHANGED <<row, superseded, procVars, historyVars, faults>>

\* The hunter appends a newer decision for the same symbol.
Supersede(e) ==
  /\ row[e].status # "ABSENT" /\ ~superseded[e]
  /\ superseded' = [superseded EXCEPT ![e] = TRUE]
  /\ UNCHANGED <<row, advisory, procVars, historyVars, faults>>

\* One unit of time: every distance moves, no dispatch outlives MaxLag.  No
\* code reads the timestamps of a settled row again, so they stand still.
Tick ==
  /\ \A p \in Procs : pc[p] # "idle" => lag[p] < MaxLag
  /\ row' = [e \in Events |->
               IF row[e].status \in Final \cup {"ABSENT"} THEN row[e]
               ELSE [row[e] EXCEPT !.due = MaxOf(0 - Horizon, @ - 1),
                                   !.lease = MaxOf(0 - Horizon, @ - 1),
                                   !.waited = MinOf(Horizon, @ + 1),
                                   !.age = MinOf(Horizon, @ + 1)]]
  /\ lag' = [p \in Procs |-> IF pc[p] = "idle" THEN 0 ELSE lag[p] + 1]
  /\ UNCHANGED <<advisory, superseded, pc, event, attempt, result, historyVars,
                 faults>>

-----------------------------------------------------------------------------
(* The dispatch. *)

\* The process gives up its claim, if it has one, and starts over.
GoIdle(p) ==
  /\ pc' = [pc EXCEPT ![p] = "idle"]
  /\ lag' = [lag EXCEPT ![p] = 0]
  /\ event' = [event EXCEPT ![p] = Nothing]
  /\ attempt' = [attempt EXCEPT ![p] = 0]
  /\ result' = [result EXCEPT ![p] = Nothing]
  /\ late' = [late EXCEPT ![p] = FALSE]

Goto(p, step) == pc' = [pc EXCEPT ![p] = step]

\* The loop reads the clock and calls dispatch_once.
Begin(p) ==
  /\ pc[p] = "idle"
  /\ Goto(p, "recover")
  /\ UNCHANGED <<outboxVars, lag, event, attempt, result, historyVars, faults>>

Expired(e, p) == row[e].status = "SENDING" /\ row[e].lease <= 0 - lag[p]

\* Mutant of Recover: an expired lease is put back in the queue.
RecoverRequeues(p) ==
  /\ pc[p] = "recover"
  /\ row' = [e \in Events |->
               IF Expired(e, p)
               THEN [row[e] EXCEPT !.status = "RETRY_WAIT", !.lease = 0,
                                   !.owner = Nothing]
               ELSE row[e]]
  /\ Goto(p, "grace")
  /\ UNCHANGED <<advisory, superseded, lag, event, attempt, result, historyVars,
                 faults>>

\* recover_expired_leases: a lease that ran out means the send may have
\* started; the row is settled as uncertain, whoever holds the claim.
Recover(p) ==
  /\ pc[p] = "recover"
  /\ row' = [e \in Events |->
               IF Expired(e, p)
               THEN [row[e] EXCEPT !.status = "DELIVERY_UNCERTAIN", !.lease = 0,
                                   !.owner = Nothing]
               ELSE row[e]]
  /\ Goto(p, "grace")
  /\ UNCHANGED <<advisory, superseded, lag, event, attempt, result, historyVars,
                 faults>>

\* ORDER BY available_at, created_at; saturated ties are decided either way.
Before(e, f) ==
  \/ row[e].due < row[f].due
  \/ row[e].due = row[f].due /\ row[e].waited > row[f].waited
Oldest(S) == {e \in S : \A f \in S : ~Before(f, e)}

Due(p) == {e \in Events : row[e].status \in Waiting /\ row[e].due <= 0 - lag[p]}
GraceOver(e, p) == row[e].waited >= Grace + lag[p]

\* _ensure_expired_entry_advisory_grace: the oldest due row that waited in vain
\* gets an explicit UNAVAILABLE advisory.  A failure here is swallowed.
GraceStep(p) ==
  /\ pc[p] = "grace"
  /\ LET overdue == {e \in Due(p) : GraceOver(e, p) /\ ~advisory[e]} IN
       \/ /\ Grace > 0
          /\ \E e \in Oldest(overdue) : advisory' = [advisory EXCEPT ![e] = TRUE]
       \/ UNCHANGED advisory
  /\ Goto(p, "claim")
  /\ UNCHANGED <<row, superseded, lag, event, attempt, result, historyVars, faults>>

\* Mutant of Claimable: an event waits for its advisory however long it takes.
ClaimableWithAdvisory(p) ==
  {e \in Due(p) : /\ row[e].owner = Nothing \/ row[e].lease <= 0 - lag[p]
                  /\ Grace = 0 \/ advisory[e]}

\* The rows claim_next selects from: due, without a live lease, and with an
\* advisory or past the grace period.
Claimable(p) ==
  {e \in Due(p) : /\ row[e].owner = Nothing \/ row[e].lease <= 0 - lag[p]
                  /\ Grace = 0 \/ GraceOver(e, p) \/ advisory[e]}

\* claim_next: lease the oldest claimable row and count the attempt.
Claim(p) ==
  /\ pc[p] = "claim"
  /\ \E e \in Oldest(Claimable(p)) :
       /\ row' = [row EXCEPT ![e].status = "SENDING", ![e].attempts = @ + 1,
                                ![e].owner = WorkerId[p],
                                ![e].lease = Lease - lag[p]]
       /\ event' = [event EXCEPT ![p] = e]
       /\ attempt' = [attempt EXCEPT ![p] = row[e].attempts + 1]
       /\ late' = [late EXCEPT ![p] = superseded[e]]
  /\ Goto(p, "check")
  /\ UNCHANGED <<advisory, superseded, lag, result, accepted, ambiguous,
                 suppressed, faults>>

\* claim_next finds nothing: dispatch_once returns None.
NothingDue(p) ==
  /\ pc[p] = "claim" /\ Claimable(p) = {}
  /\ GoIdle(p)
  /\ UNCHANGED <<outboxVars, accepted, ambiguous, suppressed, faults>>

-----------------------------------------------------------------------------
(* The transport.  Payloads are immutable in the database, so the refusals  *)
(* of a malformed payload cannot happen to a claimed row.                   *)

Answered(p, r) ==
  /\ result' = [result EXCEPT ![p] = r]
  /\ Goto(p, "complete")

\* Mutant of Undeliverable: the latest decision of the symbol is not looked up.
UndeliverableByAge(e) == row[e].age > MaxAge \/ e \in PreCutover

\* _current_entry_ready_is_deliverable and the cutover: the event is too old,
\* superseded or from before the release.
Undeliverable(e) == superseded[e] \/ row[e].age > MaxAge \/ e \in PreCutover

\* An undeliverable event is reported DELIVERED without being sent.
Suppress(p) ==
  /\ pc[p] = "check" /\ Undeliverable(event[p])
  /\ suppressed' = [suppressed EXCEPT ![event[p]] = TRUE]
  /\ Answered(p, "DELIVERED")
  /\ UNCHANGED <<outboxVars, lag, event, attempt, accepted, ambiguous, late, faults>>

Deliverable(p) ==
  /\ pc[p] = "check" /\ ~Undeliverable(event[p])
  /\ Goto(p, "advise")
  /\ UNCHANGED <<outboxVars, lag, event, attempt, result, historyVars, faults>>

\* The advisory is read from the database; the message is built with it or
\* with an explicit UNAVAILABLE.
LoadAdvisory(p) ==
  /\ pc[p] = "advise"
  /\ Goto(p, "post")
  /\ UNCHANGED <<outboxVars, lag, event, attempt, result, historyVars, faults>>

\* The decision database cannot be read, or building the message raises.
FailBeforeSend(p) ==
  /\ pc[p] \in {"check", "advise"}
  /\ Answered(p, "TRANSIENT")
  /\ UNCHANGED <<outboxVars, lag, event, attempt, historyVars, faults>>

\* The request goes out and Telegram accepts the message.
PostAccepted(p) ==
  /\ pc[p] = "post"
  /\ accepted' = [accepted EXCEPT ![event[p]] = @ + 1]
  /\ Goto(p, "answer")
  /\ UNCHANGED <<outboxVars, lag, event, attempt, result, ambiguous, suppressed,
                 late, faults>>

\* Telegram accepted it and the answer arrives, or is lost: a 2xx answer that
\* says ok; a read timeout; or a broken connection, a 5xx or a garbled 2xx,
\* which the transport classifies as a transient failure.
AnswerAccepted(p) ==
  /\ pc[p] = "answer"
  /\ \E r \in {"DELIVERED", "DELIVERY_UNCERTAIN", "TRANSIENT"} :
       /\ Answered(p, r)
       /\ ambiguous' = IF r = "TRANSIENT"
                       THEN [ambiguous EXCEPT ![event[p]] = @ + 1] ELSE ambiguous
  /\ UNCHANGED <<outboxVars, lag, event, attempt, accepted, suppressed, late, faults>>

\* Telegram did not accept it: no connection, a refusal (429, 4xx), a 5xx, or a
\* read timeout that cannot tell.
PostRefused(p) ==
  /\ pc[p] = "post"
  /\ \E r \in {"DELIVERY_UNCERTAIN", "TRANSIENT", "RATE_LIMITED", "PERMANENT"} :
       Answered(p, r)
  /\ UNCHANGED <<outboxVars, lag, event, attempt, historyVars, faults>>

\* asyncio.wait_for gives up on the transport, wherever it is.
TransportTimeout(p) ==
  /\ pc[p] \in {"check", "advise", "post", "answer"}
  /\ Answered(p, "DELIVERY_UNCERTAIN")
  /\ UNCHANGED <<outboxVars, lag, event, attempt, historyVars, faults>>

-----------------------------------------------------------------------------
(* Recording the outcome. *)

Exhausted(n) == n >= MaxAttempts

\* Mutant of NextStatus: an uncertain outcome is retried.
NextStatusRetriesUncertain(r, n) ==
  CASE r = "DELIVERED" -> "DELIVERED"
    [] r = "PERMANENT" -> "DEAD_LETTER"
    [] OTHER -> IF Exhausted(n) THEN "DEAD_LETTER" ELSE "RETRY_WAIT"

\* Mutant of NextStatus: an uncertain outcome counts as delivered.
NextStatusTrustsUncertain(r, n) ==
  CASE r \in {"DELIVERED", "DELIVERY_UNCERTAIN"} -> "DELIVERED"
    [] r = "PERMANENT" -> "DEAD_LETTER"
    [] OTHER -> IF Exhausted(n) THEN "DEAD_LETTER" ELSE "RETRY_WAIT"

\* _next_state: the status that follows the answer r to attempt n.
NextStatus(r, n) ==
  CASE r = "DELIVERED" -> "DELIVERED"
    [] r = "DELIVERY_UNCERTAIN" -> "DELIVERY_UNCERTAIN"
    [] r = "PERMANENT" -> "DEAD_LETTER"
    [] OTHER -> IF Exhausted(n) THEN "DEAD_LETTER" ELSE "RETRY_WAIT"

\* _backoff: doubling from the base up to the cap, with up to 20 % jitter, in
\* whole seconds rounded up.
BackoffBase(n) == MinOf(MaxBackoff, BaseBackoff * 2 ^ (n - 1))
Backoff(n) == {d \in 1 .. 2 * MaxBackoff : /\ d >= BackoffBase(n)
                                           /\ 5 * d < 6 * BackoffBase(n) + 5}

RateLimitDelay(s) == MinOf(MaxOf(1, s), MaxBackoff)

\* The delays _next_state may choose; a settled row becomes available "now".
Delays(status, r, n) ==
  CASE status # "RETRY_WAIT" -> {0}
    [] r = "RATE_LIMITED" -> {RateLimitDelay(s) : s \in RetryAfter}
    [] OTHER -> Backoff(n)

\* Mutant of StillHolds: the compare-and-set forgets the status.
StillHoldsByAttempt(p) == row[event[p]].attempts = attempt[p]

\* The compare-and-set of _complete: the row is still this process's claim.
StillHolds(p) ==
  LET r == row[event[p]] IN
  /\ r.status = "SENDING" /\ r.owner = WorkerId[p] /\ r.attempts = attempt[p]

\* _complete writes the outcome with the timestamp of the dispatch's begin.
Complete(p) ==
  /\ pc[p] = "complete" /\ StillHolds(p)
  /\ LET status == NextStatus(result[p], attempt[p]) IN
       \E d \in Delays(status, result[p], attempt[p]) :
         row' = [row EXCEPT ![event[p]].status = status,
                            ![event[p]].due = d - lag[p],
                            ![event[p]].lease = 0,
                            ![event[p]].owner = Nothing]
  /\ GoIdle(p)
  /\ UNCHANGED <<advisory, superseded, accepted, ambiguous, suppressed, faults>>

\* DELIVERY_COMPLETION_CAS_FAILED: the lease was recovered meanwhile; the
\* outcome is dropped and the loop goes on.
CompletionRefused(p) ==
  /\ pc[p] = "complete" /\ ~StillHolds(p)
  /\ GoIdle(p)
  /\ UNCHANGED <<outboxVars, accepted, ambiguous, suppressed, faults>>

\* The process crashes, is stopped, or a transaction of the dispatch fails: the
\* claim is forgotten, the row stays as it is.
Abandon(p) ==
  /\ pc[p] # "idle" /\ faults < MaxFaults
  /\ faults' = faults + 1
  /\ GoIdle(p)
  /\ UNCHANGED <<outboxVars, accepted, ambiguous, suppressed>>

-----------------------------------------------------------------------------
Work(p) ==
  \/ Begin(p) \/ Recover(p) \/ GraceStep(p) \/ Claim(p) \/ NothingDue(p)
  \/ Suppress(p) \/ Deliverable(p) \/ LoadAdvisory(p) \/ FailBeforeSend(p)
  \/ PostAccepted(p) \/ AnswerAccepted(p) \/ PostRefused(p) \/ TransportTimeout(p)
  \/ Complete(p) \/ CompletionRefused(p)

Next ==
  \/ \E e \in Events : Enqueue(e) \/ StoreAdvisory(e) \/ Supersede(e)
  \/ Tick
  \/ \E p \in Procs : Work(p) \/ Abandon(p)

Spec == Init /\ [][Next]_vars

\* The loop of every process keeps going (_entry_notification_loop catches a
\* failed dispatch and sleeps), every await of a dispatch is bounded by a
\* timeout, and time passes.  Nothing else is fair: advisories may never come.
FairSpec == Spec /\ WF_vars(Tick) /\ \A p \in Procs : WF_vars(Work(p))

-----------------------------------------------------------------------------
(* Properties. *)

\* Every column and local variable stays in its domain; in particular retry
\* delays stay within the cap of max_backoff_seconds and its jitter.
TypeOK ==
  /\ row \in [Events -> Row]
  /\ advisory \in [Events -> BOOLEAN]
  /\ superseded \in [Events -> BOOLEAN]
  /\ pc \in [Procs -> Steps]
  /\ lag \in [Procs -> 0 .. MaxLag]
  /\ event \in [Procs -> Events \cup {Nothing}]
  /\ attempt \in [Procs -> 0 .. MaxAttempts]
  /\ result \in [Procs -> Disposition \cup {Nothing}]
  /\ faults \in 0 .. MaxFaults
  /\ accepted \in [Events -> Nat]
  /\ ambiguous \in [Events -> Nat]
  /\ suppressed \in [Events -> BOOLEAN]
  /\ late \in [Procs -> BOOLEAN]

\* No two processes ever work on the same event, not even when a lease ran out
\* under a slow sender and both write the same lease owner: an expired claim is
\* settled, never handed on.
SingleSender ==
  \A p, q \in Procs :
    (p # q /\ pc[p] \in Holding /\ pc[q] \in Holding) => event[p] # event[q]

\* Telegram accepts an event a second time only after an earlier acceptance was
\* reported as a transient failure; crashes, timeouts, expired leases and
\* refused completions never cause a repeated message.
RepeatOnlyAfterLostAnswer ==
  \A e \in Events : accepted[e] <= ambiguous[e] + 1

\* DELIVERED is never a guess: Telegram accepted the message or the transport
\* suppressed it on purpose.
DeliveredIsKnown ==
  \A e \in Events :
    row[e].status = "DELIVERED" => (accepted[e] > 0 \/ suppressed[e])

\* A row that may be claimed has an attempt left, so no event is posted more
\* than max_attempts times.
AttemptsLeft ==
  \A e \in Events :
    /\ row[e].status \in Waiting => row[e].attempts < MaxAttempts
    /\ accepted[e] <= row[e].attempts

\* An event already superseded when it was claimed, at any attempt, is not sent.
StaleNeverPosted ==
  \A p \in Procs : late[p] => pc[p] \notin {"advise", "post", "answer"}

\* A settled row is never written again: no late completion, lease recovery or
\* second worker overturns a final status.
FinalIsFinal ==
  [][\A e \in Events : row[e].status \in Final => row'[e] = row[e]]_vars

\* The outbox row as the rest of the system sees it.
phase == [e \in Events |->
            IF row[e].status \in Waiting \cup {"SENDING"} THEN "OPEN"
            ELSE row[e].status]

Promise == INSTANCE OutboxPromise WITH acceptances <- accepted

\* The workers implement the promise: in particular Telegram accepts nothing of
\* an event after the outbox recorded it DELIVERED or DEAD_LETTER.
KeepsPromise == Promise!Spec

\* Every published event reaches a final status, whatever the advisory service
\* does and wherever a process dies.
EverySettles == Promise!EventuallySettled
=============================================================================
