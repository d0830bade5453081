---------------------------- MODULE OutcomeCapture ----------------------------
(***************************************************************************)
(* What becomes of a decision: entry_decision_store.py and the resolver of *)
(* main.py.                                                                *)
(*                                                                         *)
(* append_if_changed_with_capture appends a decision event and then, in a  *)
(* transaction of its own and best effort, the capture of what is to be    *)
(* observed about it; an unchanged decision repairs a missing capture of   *)
(* the newest event.  EntryOutcomeResolutionWorker pages through the       *)
(* mature captures, one cursor for those that need a candle provider and   *)
(* one for those that do not, and appends a resolution for each.           *)
(*                                                                         *)
(* One symbol; its events, captures and resolutions are append only.  The  *)
(* evaluation and the maintenance thread offer decisions at the same time. *)
(***************************************************************************)
EXTENDS Naturals, Sequences, FiniteSets

CONSTANTS
  Offers,        \* the packets [material, detail, lane] that each of the callers
                 \* of append_if_changed_with_capture offers
  Limit,         \* batch_size of each lane
  Horizon,       \* age at which a capture is mature
  RetryWindow,   \* age after which an empty window is final
  MaxEvents, MaxFaults, MaxNow   \* bounds

VARIABLES
  events,      \* entry_decision_events, as the packets
  captures,    \* decision_outcome_capture, in the order of the ids
  resolved,    \* decision_outcome_resolution: event -> status, "none"
  offer,       \* the call in progress of each offerer
  cursor,      \* the worker's cursors
  batch,       \* the worker's captures still to resolve, by lane
  pc,          \* where the worker is
  clock, faults

storeVars  == <<events, captures, resolved>>
workerVars == <<cursor, batch, pc>>
vars       == <<storeVars, offer, workerVars, clock, faults>>

Offerers == DOMAIN Offers
Lane == {"provider", "local"}
NoOffer == [pc |-> "idle"]
Ids  == 1..Len(captures)

Init ==
  /\ events = <<>> /\ captures = <<>>
  /\ resolved = [e \in 1..MaxEvents |-> "none"]
  /\ offer = [o \in Offerers |-> NoOffer]
  /\ cursor = [l \in Lane |-> 0] /\ batch = [l \in Lane |-> {}] /\ pc = "asleep"
  /\ clock = 0 /\ faults = 0

Fault == faults < MaxFaults /\ faults' = faults + 1

-----------------------------------------------------------------------------
(* The append, the repair and the capture. *)

Newest == events[Len(events)]
Captured(e) == \E i \in Ids : captures[i].event = e

\* append_if_changed: only a material change makes an event.
Offer(o, p) ==
  /\ offer[o] = NoOffer
  /\ IF events # <<>> /\ Newest.material = p.material
     THEN /\ offer' = [offer EXCEPT ![o] = [pc |-> "repair", packet |-> p]]
          /\ UNCHANGED events
     ELSE /\ Len(events) < MaxEvents
          /\ events' = Append(events, p)
          /\ offer' = [offer EXCEPT ![o] =
               [pc |-> "capture", event |-> Len(events) + 1, packet |-> p]]
  /\ UNCHANGED <<captures, resolved, workerVars, clock, faults>>

\* Mutant of RepairTarget: the packet that was offered is captured.
RepairTargetOffered(p) ==
  IF Newest.material = p.material
  THEN [pc |-> "capture", event |-> Len(events), packet |-> p]
  ELSE NoOffer

\* _repair_capture_target: the newest event, with its own packet, if it still
\* is the decision that was offered.
RepairTarget(p) ==
  IF Newest.material = p.material
  THEN [pc |-> "capture", event |-> Len(events), packet |-> Newest]
  ELSE NoOffer

Repair(o) ==
  /\ offer[o].pc = "repair"
  /\ offer' = [offer EXCEPT ![o] = RepairTarget(offer[o].packet)]
  /\ UNCHANGED <<storeVars, workerVars, clock, faults>>

\* append_outcome_capture refuses a second capture of an event and one whose
\* packet does not hash to the event's.
Capture(o) ==
  /\ offer[o].pc = "capture"
  /\ LET e == offer[o].event IN
     captures' = IF Captured(e) \/ offer[o].packet # events[e] THEN captures
                 ELSE Append(captures, [event |-> e, at |-> clock, intact |-> TRUE,
                                        lane |-> events[e].lane])
  /\ offer' = [offer EXCEPT ![o] = NoOffer]
  /\ UNCHANGED <<events, resolved, workerVars, clock, faults>>

\* The database refused it, or the process died before it was written.
CaptureFails(o) ==
  /\ offer[o].pc # "idle" /\ Fault
  /\ offer' = [offer EXCEPT ![o] = NoOffer]
  /\ UNCHANGED <<storeVars, workerVars, clock>>

\* A row whose JSON no longer hashes to what was recorded.
Tamper(i) ==
  /\ captures[i].intact /\ resolved[captures[i].event] = "none" /\ Fault
  /\ captures' = [captures EXCEPT ![i].intact = FALSE]
  /\ UNCHANGED <<events, resolved, offer, workerVars, clock>>

-----------------------------------------------------------------------------
(* The worker. *)

Mature(i) == captures[i].at + Horizon <= clock

Pending(lane, after) ==
  {i \in Ids : /\ i > after /\ Mature(i) /\ captures[i].lane = lane
               /\ resolved[captures[i].event] = "none"}

\* scan_pending_outcome_captures: rows that were tampered with take room in the
\* page and are passed over.
Page(lane, after) ==
  LET rows == Pending(lane, after)
  IN {i \in rows : Cardinality({j \in rows : j <= i}) <= Limit}

ScannedThrough(page, after) ==
  IF page = {} THEN after ELSE CHOOSE i \in page : \A j \in page : j <= i

\* Mutant of Start: the cursor does not return to the beginning.
StartOnwards(lane) == cursor[lane]

\* _load_lane_batch: a scan that finds nothing beyond the cursor wraps.
Start(lane) == IF Page(lane, cursor[lane]) = {} THEN 0 ELSE cursor[lane]

\* run_once loads the provider batch, then the local batch.
Load(lane) ==
  /\ \/ lane = "provider" /\ pc = "asleep" /\ pc' = "loaded"
     \/ lane = "local" /\ pc = "loaded" /\ pc' = "resolving"
  /\ LET page == Page(lane, Start(lane)) IN
     /\ cursor' = [cursor EXCEPT ![lane] = ScannedThrough(page, Start(lane))]
     /\ batch' = [batch EXCEPT ![lane] = {i \in page : captures[i].intact}]
  /\ UNCHANGED <<storeVars, offer, clock, faults>>

\* A scan raised: run_forever logs it and sleeps.
LoadFails ==
  /\ pc \in {"asleep", "loaded"} /\ Fault
  /\ pc' = "asleep" /\ batch' = [l \in Lane |-> {}]
  /\ UNCHANGED <<storeVars, offer, cursor, clock>>

\* The provider batch comes first, each in the order of the ids.
IsNext(i) ==
  /\ pc = "resolving"
  /\ \E lane \in Lane :
       /\ i \in batch[lane] /\ \A j \in batch[lane] : i <= j
       /\ lane = "local" => batch["provider"] = {}

Done(i) == batch' = [l \in Lane |-> batch[l] \ {i}]

\* What _resolve_entry_outcome returns for a complete window, for an exchange
\* that has no candles of it, and without an exact contract.
Results(i) ==
  IF captures[i].lane = "local" THEN {"UNAVAILABLE"}
  ELSE {"OBSERVED"} \cup
       IF clock - captures[i].at > RetryWindow THEN {"UNAVAILABLE"} ELSE {}

Resolve(i) ==
  /\ IsNext(i) /\ Done(i)
  /\ \E status \in Results(i) :
       resolved' = [resolved EXCEPT ![captures[i].event] = status]
  /\ UNCHANGED <<events, captures, offer, cursor, pc, clock, faults>>

\* The window has gaps or is still empty, the provider failed, or the
\* resolution could not be stored: the capture stays pending.
LeavePending(i) ==
  /\ IsNext(i) /\ Done(i)
  /\ UNCHANGED <<storeVars, offer, cursor, pc, clock, faults>>

Sleep ==
  /\ pc = "resolving" /\ \A l \in Lane : batch[l] = {}
  /\ pc' = "asleep"
  /\ UNCHANGED <<storeVars, offer, cursor, batch, clock, faults>>

\* The process restarts: calls in progress, the cursors and the batch are lost.
Restart ==
  /\ Fault
  /\ offer' = [o \in Offerers |-> NoOffer]
  /\ cursor' = [l \in Lane |-> 0] /\ batch' = [l \in Lane |-> {}] /\ pc' = "asleep"
  /\ UNCHANGED <<storeVars, clock>>

Tick ==
  /\ clock < MaxNow /\ clock' = clock + 1
  /\ UNCHANGED <<storeVars, offer, workerVars, faults>>

Cycle == (\E l \in Lane : Load(l)) \/ Sleep \/ \E i \in Ids : LeavePending(i)
Settle(e) == \E i \in Ids : captures[i].event = e /\ Resolve(i)
OfferAgain(o) ==
  events # <<>> /\ \E p \in Offers[o] : p.material = Newest.material /\ Offer(o, p)

Next ==
  \/ \E o \in Offerers :
       (\E p \in Offers[o] : Offer(o, p)) \/ Repair(o) \/ Capture(o) \/ CaptureFails(o)
  \/ (\E i \in Ids : Tamper(i) \/ Resolve(i))
  \/ Cycle \/ LoadFails \/ Restart \/ Tick

Spec == Init /\ [][Next]_vars

-----------------------------------------------------------------------------
(* Properties. *)

\* A decision that stands is captured in the end, although its first capture
\* failed or the process died before it: each later evaluation that finds it
\* unchanged, in other words perhaps, repairs it (append_if_changed_with_capture).
NewestIsCaptured ==
  \A e \in 1..MaxEvents : Len(events) = e ~> Captured(e) \/ Len(events) > e

\* No mature capture is starved: neither rows that were tampered with, nor
\* captures whose provider fails every time, nor the other lane keep the paging
\* from coming back to it.  A capture whose provider answers now and then is
\* resolved (run_once, _load_lane_batch).
MatureIsResolved ==
  \A e \in 1..MaxEvents :
    (\E i \in Ids : captures[i].event = e /\ Mature(i))
      ~> \/ resolved[e] # "none"
         \/ \E i \in Ids : captures[i].event = e /\ ~captures[i].intact

=============================================================================
