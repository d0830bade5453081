------------------------------ MODULE LiveView ------------------------------
(***************************************************************************)
(* What the dashboard shows of one symbol, and the advisories merged into  *)
(* it (main.py over core/ai_veto.py and core/entry_decision_store.py).     *)
(*                                                                         *)
(* An evaluation appends its decision to the ledger and leaves its metrics *)
(* on the scanner's candidate; get_formatted_candidates projects those     *)
(* metrics.  Two kinds of background task answer later, in any order: a    *)
(* canonical advisory of a decision event, and an observational advisory   *)
(* of an analysis.  (The fundamental evidence of an event is asked for with *)
(* the row of the loop as its token, which is never the scanner's object,  *)
(* so it is merged into nothing.)  The scanner replaces the candidate      *)
(* object meanwhile, carrying its metrics over.                            *)
(*                                                                         *)
(* The deterministic veto of an analysis is a flag in the advisory of its  *)
(* metrics, beside what the provider answers.                              *)
(*                                                                         *)
(* ATOMICITY.  From the fence on an evaluation does not await: it has the  *)
(* event loop until its metrics are stored (Held).  But threads run beside *)
(* it: the invalidation thread of the maintenance may append to the ledger *)
(* and a snapshot of the dashboard may be taken between its ledger append, *)
(* its second read of the ledger and its store of the metrics, which are   *)
(* therefore steps of their own.                                           *)
(*                                                                         *)
(* The maintenance takes a symbol for inactive when the read of the active *)
(* candidates does not return it, and a read that fails returns none: it   *)
(* then invalidates the decision of a listed symbol, whose metrics stay.   *)
(***************************************************************************)
EXTENDS Naturals, FiniteSets

CONSTANTS
  MaxAge,       \* max_analysis_age_seconds of the policy
  MaxTicks,     \* bound: the clock
  MaxDecisions, \* bound: decision events
  MaxRelists    \* bound: listings after the first

VARIABLES
  ticks,    \* the clock; an analysis is named by the time it began
  listing,  \* the row: is it listed, and the number of its listing
  head,     \* the newest decision event
  live,     \* the scanner's candidate and its metrics
  running,  \* the evaluation in flight
  asked,    \* the background tasks that have not answered
  upkeep    \* the invalidation thread of the maintenance

viewVars == <<ticks, listing, head, live, running, asked, upkeep>>

NoMetrics == [analysis |-> 0, event |-> 0, ready |-> FALSE, found |-> FALSE,
              veto |-> FALSE, advice |-> {}]
NoLive == [here |-> FALSE, stamp |-> 0, metrics |-> NoMetrics]
Arrived == [here |-> TRUE, stamp |-> 0, metrics |-> NoMetrics]
NotRunning == [pc |-> "idle", at |-> 0, current |-> FALSE,
               metrics |-> NoMetrics, tasks |-> {}]
NoEvent == [event |-> 0, ready |-> FALSE, veto |-> FALSE, listing |-> 0,
            advised |-> FALSE, misread |-> FALSE]
NoUpkeep == [pc |-> "idle", misread |-> FALSE]

Task(kind, of) == [kind |-> kind, of |-> of]

Init ==
  /\ ticks = 0
  /\ listing = [listed |-> TRUE, n |-> 1]
  /\ head = NoEvent
  /\ live = NoLive
  /\ running = NotRunning
  /\ asked = {}
  /\ upkeep = NoUpkeep

-----------------------------------------------------------------------------
(* An evaluation. *)

\* It has the event loop: no other coroutine moves.
Held == running.pc \in {"losing", "restoring", "storing"}

\* The loop dispatches none during its maintenance; the candidate is stamped with
\* the time the analysis begins while it still carries the metrics before.
Begin ==
  /\ live.here /\ running = NotRunning /\ upkeep.pc = "idle" /\ ticks < MaxTicks
  /\ ticks' = ticks + 1
  /\ running' = [pc |-> "analysing", at |-> ticks', current |-> TRUE,
                 metrics |-> NoMetrics, tasks |-> {}]
  /\ live' = [live EXCEPT !.stamp = ticks']
  /\ UNCHANGED <<listing, head, asked, upkeep>>

\* append_if_changed finds the decision materially the same as the newest event.
Same(ready, veto) ==
  /\ head # NoEvent /\ head.ready = ready /\ head.veto = veto
  /\ head.listing = listing.n

\* The packet that becomes the newest one, and the one an evaluation appends.
Packet(ready, veto, of, misread) ==
  [event |-> head.event + 1, ready |-> ready, veto |-> veto,
   listing |-> of, advised |-> FALSE, misread |-> misread]

Appended(ready, veto) == Packet(ready, veto, listing.n, FALSE)

\* The metrics of the analysis; a changed decision carries its event.
Analysed(ready, veto, event) ==
  [analysis |-> running.at, ready |-> ready, found |-> veto, veto |-> veto,
   event |-> event, advice |-> {}]

\* The advisories an evaluation asks for: that of a new ENTRY_READY event, and that of
\* the analysis when a trigger was persisted or vetoed.
Asks(ready, changed, triggered) ==
  (IF changed /\ ready THEN {Task("event", head.event + 1)} ELSE {})
  \cup (IF triggered THEN {Task("analysis", running.at)} ELSE {})

\* The evaluation goes on with what it is going to store and to ask.
GoesOn(pc, metrics, tasks) ==
  running' = [pc |-> pc, at |-> running.at, current |-> running.current,
              metrics |-> metrics, tasks |-> tasks]

\* The decision is built and appended.  The veto blocks, so a vetoed analysis is
\* never ready.
Conclude(ready, veto, changed, triggered) ==
  /\ running.pc = "analysing" /\ running.current
  /\ ~(ready /\ veto) /\ (changed \/ Same(ready, veto))
  /\ changed => head.event < MaxDecisions
  /\ head' = IF changed THEN Appended(ready, veto) ELSE head
  /\ GoesOn(IF changed THEN "storing" ELSE "restoring",
            Analysed(ready, veto, IF changed THEN head.event + 1 ELSE 0),
            Asks(ready, changed, triggered))
  /\ UNCHANGED <<ticks, listing, live, asked, upkeep>>

\* _restore_persisted_decision_projection: an unchanged decision shows the event and
\* the advisory of the packet that is the newest by now, if that decides the same.
Restored(metrics) ==
  IF head.ready # metrics.ready
  THEN metrics
  ELSE [analysis |-> metrics.analysis, ready |-> metrics.ready, found |-> metrics.found,
        veto |-> metrics.veto /\ ~head.advised, event |-> head.event,
        advice |-> {task \in {Task("event", head.event)} : head.advised}]

\* _store_live_metrics, and the background tasks are started.
StoreMetrics(metrics) ==
  /\ live' = [live EXCEPT !.metrics = metrics]
  /\ asked' = asked \cup running.tasks
  /\ running' = NotRunning
  /\ UNCHANGED <<ticks, listing, head, upkeep>>

Restore == running.pc = "restoring" /\ StoreMetrics(Restored(running.metrics))

Store == running.pc = "storing" /\ StoreMetrics(running.metrics)

\* Mutant of Lost: the metrics before stay on the candidate.
LostQuietly(event) == live.metrics

\* The metrics are replaced by the failure.
Lost(event) == Analysed(FALSE, FALSE, event)

\* No exchange has a reference price.  A standing ENTRY_READY is to be invalidated,
\* if the read of it did not fail.
LoseReference(read) ==
  /\ running.pc = "analysing" /\ running.current
  /\ IF read /\ head.ready THEN GoesOn("losing", NoMetrics, {})
                           ELSE GoesOn("storing", Lost(0), {})
  /\ UNCHANGED <<ticks, listing, head, live, asked, upkeep>>

AppendLoss ==
  /\ running.pc = "losing" /\ head.event < MaxDecisions
  /\ head' = Appended(FALSE, FALSE)
  /\ GoesOn("storing", Lost(head.event + 1), {})
  /\ UNCHANGED <<ticks, listing, live, asked, upkeep>>

\* The evaluation raised, or its candidate was replaced: the stamp stays.
Abandon ==
  /\ running.pc \in {"analysing", "losing", "restoring"}
  /\ running' = NotRunning
  /\ UNCHANGED <<ticks, listing, head, live, asked, upkeep>>

-----------------------------------------------------------------------------
(* The background tasks. *)

\* Mutant of Merge: the answer replaces the advisory, as an earlier version did.
MergeReplacing(metrics, task) == [metrics EXCEPT !.advice = {task}, !.veto = FALSE]

\* The answer is merged into the advisory, the deterministic veto stays.
Merge(metrics, task) == [metrics EXCEPT !.advice = metrics.advice \cup {task}]

\* Mutant of Meant: an advisory is merged into whatever the candidate shows.
MeantForAnything(task) == live.here /\ live.metrics # NoMetrics

\* The candidate shows what the task was asked about: the event, or the analysis
\* that was the last one to begin.
Meant(task) ==
  /\ live.here /\ live.metrics # NoMetrics
  /\ \/ task.kind = "event" /\ live.metrics.event = task.of
     \/ task.kind = "analysis" /\ live.stamp = task.of

\* A provider answers, or stands in for itself as unavailable.  The advisory of an
\* event is stored first.
Answer(task) ==
  /\ ~Held
  /\ asked' = asked \ {task}
  /\ head' = IF task = Task("event", head.event) THEN [head EXCEPT !.advised = TRUE]
                                                 ELSE head
  /\ live' = IF Meant(task) THEN [live EXCEPT !.metrics = Merge(live.metrics, task)]
                            ELSE live
  /\ UNCHANGED <<ticks, listing, running, upkeep>>

\* The advisory could not be fetched or stored.
Fail(task) ==
  /\ ~Held
  /\ asked' = asked \ {task}
  /\ UNCHANGED <<ticks, listing, head, live, running, upkeep>>

\* ensure_unavailable_advisory: a delivery worker, of this process or of another one,
\* settles for one.
StandIn ==
  /\ head.ready /\ ~head.advised
  /\ head' = [head EXCEPT !.advised = TRUE]
  /\ UNCHANGED <<ticks, listing, live, running, asked, upkeep>>

-----------------------------------------------------------------------------
(* The scanner, the maintenance and the process. *)

\* A refresh that finds the symbol: a new candidate object with the old metrics, or
\* an empty one if there was none.
Found ==
  /\ ~Held /\ listing.listed
  /\ live' = IF live.here THEN live ELSE Arrived
  /\ running' = [running EXCEPT !.current = FALSE]
  /\ UNCHANGED <<ticks, listing, head, asked, upkeep>>

\* One that misses it for the first time keeps the row.
Missed ==
  /\ ~Held /\ live # NoLive
  /\ live' = NoLive
  /\ running' = [running EXCEPT !.current = FALSE]
  /\ UNCHANGED <<ticks, listing, head, asked, upkeep>>

\* It leaves the universe, and comes back with a new listing.
Leave ==
  /\ ~Held /\ listing.listed
  /\ listing' = [listing EXCEPT !.listed = FALSE]
  /\ live' = NoLive
  /\ running' = [running EXCEPT !.current = FALSE]
  /\ UNCHANGED <<ticks, head, asked, upkeep>>

Return ==
  /\ ~Held /\ ~listing.listed /\ listing.n <= MaxRelists
  /\ listing' = [listed |-> TRUE, n |-> listing.n + 1]
  /\ live' = Arrived
  /\ running' = [running EXCEPT !.current = FALSE]
  /\ UNCHANGED <<ticks, head, asked, upkeep>>

\* The maintenance does not find the symbol among the active candidates, because it
\* left the universe or because their read failed, and reads its decision.
ReadInactive ==
  /\ upkeep.pc = "idle" /\ head.ready
  /\ upkeep' = [pc |-> "read", misread |-> listing.listed]
  /\ UNCHANGED <<ticks, listing, head, live, running, asked>>

\* It appends the invalidation of what it read, and touches no metrics.
Invalidate ==
  /\ upkeep.pc = "read" /\ head.event < MaxDecisions
  /\ head' = Packet(FALSE, FALSE, head.listing, upkeep.misread)
  /\ upkeep' = NoUpkeep
  /\ UNCHANGED <<ticks, listing, live, running, asked>>

\* The append failed, which ends the maintenance, or found the newest decision
\* materially the same.
UpkeepFails ==
  /\ upkeep.pc = "read"
  /\ upkeep' = NoUpkeep
  /\ UNCHANGED <<ticks, listing, head, live, running, asked>>

Tick ==
  /\ ticks < MaxTicks
  /\ ticks' = ticks + 1
  /\ UNCHANGED <<listing, head, live, running, asked, upkeep>>

Restart ==
  /\ live' = NoLive /\ running' = NotRunning /\ asked' = {}
  /\ upkeep' = NoUpkeep
  /\ UNCHANGED <<ticks, listing, head>>

Next ==
  \/ Begin \/ Restore \/ Store \/ AppendLoss \/ Abandon
  \/ \E ready, veto, changed, triggered \in BOOLEAN :
       Conclude(ready, veto, changed, triggered)
  \/ \E read \in BOOLEAN : LoseReference(read)
  \/ \E task \in asked : Answer(task) \/ Fail(task)
  \/ StandIn \/ Found \/ Missed \/ Leave \/ Return
  \/ ReadInactive \/ Invalidate \/ UpkeepFails \/ Tick \/ Restart

Spec == Init /\ [][Next]_viewVars

-----------------------------------------------------------------------------
\* get_formatted_candidates shows a listed symbol by the metrics of its candidate;
\* _project_entry_decision_freshness lets no actionable decision outlive the policy.
ShownReady ==
  /\ listing.listed /\ live.here /\ live.metrics.ready
  /\ ticks - live.stamp <= MaxAge

\* An ENTRY_READY that the dashboard shows is the newest decision of the ledger,
\* whatever answers came, objects were replaced or listings ended meanwhile, but for
\* two windows: until an evaluation that appended a newer decision has stored it, and,
\* after a failed read made the maintenance invalidate the decision of a listed
\* symbol, until the next evaluation ends or the analysis is too old to be shown.
ShownReadyStands ==
  ShownReady =>
    \/ head.ready /\ live.metrics.event = head.event
    \/ running.pc = "storing" /\ running.metrics.event > live.metrics.event
    \/ head.misread /\ live.metrics.event \in {0, head.event - 1}

\* No answer of a provider clears the veto of the analysis that is shown, which the
\* comment at main.py:1390 records as a bug of an earlier version.
VetoStands == live.metrics.found => live.metrics.veto

\* An advisory on the candidate was asked for the decision or the analysis that it
\* shows, however late it came.
AdviceIsOfWhatIsShown ==
  \A task \in live.metrics.advice :
    task.of = IF task.kind = "event" THEN live.metrics.event ELSE live.metrics.analysis
=============================================================================
