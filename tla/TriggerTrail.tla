---------------------------- MODULE TriggerTrail ----------------------------
(***************************************************************************)
(* What an evaluation leaves behind when it ends (main.py over             *)
(* core/lbank_signal_ledger.py, core/lifecycle_v2_shadow.py and its store): *)
(* the status of the candidate's row, the immutable signal of a trigger,   *)
(* an event of the Lifecycle V2 shadow, and the final record of the path.  *)
(*                                                                         *)
(* The evaluation knows the row as the maintenance thread read it, up to a *)
(* minute ago; an evaluation in between may have changed the status.  Each *)
(* write is a transaction of its own, so the process may end between two   *)
(* of them, and the thread may read between them.                          *)
(*                                                                         *)
(* One symbol is followed.  The statuses are WATCH, one that stands for    *)
(* the three above it, and TRIGGERED; the terminal states of V2 are one.   *)
(***************************************************************************)
EXTENDS Integers, Sequences

CONSTANTS
  MaxListings,   \* bound: lifecycles of the symbol
  MaxSignals,    \* bound: signals
  MaxEvents      \* bound: shadow events

VARIABLES
  row,       \* lbank_catalog
  known,     \* the row as the hunter loop has it
  run,       \* the evaluation: what it has still to write
  signals,   \* lbank_signal_ledger: the status that each signal replaced
  finals,    \* the signals that a final record TRIGGERED names
  events     \* lifecycle_v2_shadow_events

trailVars == <<row, known, run, signals, finals, events>>

Unknown == [listing |-> 0, eligible |-> FALSE, status |-> "WATCH"]
Idle == [pc |-> "idle", listing |-> 0, status |-> "WATCH", current |-> FALSE,
         todo |-> <<>>, signal |-> 0]

Init ==
  /\ row = [listing |-> 1, eligible |-> TRUE, status |-> "WATCH"]
  /\ known = Unknown
  /\ run = Idle
  /\ signals = <<>> /\ finals = {} /\ events = <<>>

-----------------------------------------------------------------------------
(* The evaluation up to its verdict. *)

\* The maintenance thread reads the rows that are in the universe.
Read ==
  /\ known' = IF row.eligible THEN row ELSE Unknown
  /\ UNCHANGED <<row, run, signals, finals, events>>

\* The candidate of the scanner has the lifecycle of the row that is known.
Begin ==
  /\ run = Idle
  /\ known.eligible /\ row.eligible /\ known.listing = row.listing
  /\ run' = [Idle EXCEPT !.pc = "analysing", !.listing = known.listing,
                         !.status = known.status, !.current = TRUE]
  /\ UNCHANGED <<row, known, signals, finals, events>>

\* Its candidate object was replaced, or it raised.
Abandon ==
  /\ run.pc = "analysing"
  /\ run' = Idle
  /\ UNCHANGED <<row, known, signals, finals, events>>

\* update_candidate_state: the row gets the status while it is eligible.
Write(status) == row' = [row EXCEPT !.status = IF row.eligible THEN status ELSE @]

Leave(todo, signal) ==
  run' = [run EXCEPT !.pc = "writing", !.todo = todo, !.signal = signal]

\* No valid analysis: a candidate above WATCH falls back.
Unavailable ==
  /\ run.pc = "analysing" /\ run.current
  /\ IF run.status = "WATCH" THEN UNCHANGED row ELSE Write("WATCH")
  /\ Leave(<<"shadow">>, 0)
  /\ UNCHANGED <<known, signals, finals, events>>

\* A status below TRIGGERED, written if it is not the one that is known.
Observe(status) ==
  /\ run.pc = "analysing" /\ run.current
  /\ IF run.status = status THEN UNCHANGED row ELSE Write(status)
  /\ Leave(<<"shadow">>, 0)
  /\ UNCHANGED <<known, signals, finals, events>>

\* A trigger that the row is known to have had.
SuppressStale ==
  /\ run.pc = "analysing" /\ run.current /\ run.status = "TRIGGERED"
  /\ Leave(<<"shadow", "final">>, 0)
  /\ UNCHANGED <<row, known, signals, finals, events>>

\* The deterministic veto.
Veto ==
  /\ run.pc = "analysing" /\ run.current /\ run.status # "TRIGGERED"
  /\ Write("WATCH")
  /\ Leave(<<"final", "shadow">>, 0)
  /\ UNCHANGED <<known, signals, finals, events>>

\* The metadata of the signal is not valid.
RejectMetadata ==
  /\ run.pc = "analysing" /\ run.current /\ run.status # "TRIGGERED"
  /\ Leave(<<"shadow", "final">>, 0)
  /\ UNCHANGED <<row, known, signals, finals, events>>

\* Mutant of Compares: the status is not compared.
ComparesEligibility == row.eligible

\* The compare of persist_trigger: the row is eligible and has the status that the
\* evaluation knows.
Compares == row.eligible /\ row.status = run.status

\* persist_trigger: the row and the signal, with its metadata, decision and outbox
\* event, in one transaction.
Persist ==
  /\ run.pc = "analysing" /\ run.current /\ run.status # "TRIGGERED"
  /\ Compares /\ Len(signals) < MaxSignals
  /\ row' = [row EXCEPT !.status = "TRIGGERED"]
  /\ signals' = Append(signals, row.status)
  /\ Leave(<<"shadow", "final">>, Len(signals) + 1)
  /\ UNCHANGED <<known, finals, events>>

\* The compare fails, or an insert does and nothing is written.
PersistenceRejected ==
  /\ run.pc = "analysing" /\ run.current /\ run.status # "TRIGGERED"
  /\ Leave(<<"shadow", "final">>, 0)
  /\ UNCHANGED <<row, known, signals, finals, events>>

-----------------------------------------------------------------------------
(* Lifecycle V2, in the shadow. *)

Chain == <<"WATCH", "FUEL-RICH", "PRE-TRIGGER", "ARMED", "TRIGGERED">>

\* _next_state: what the evidence makes of a state.  It is incomplete or stale, or
\* ends the episode, or confirms the next state or not; the trigger must not have
\* closed before the episode is armed, and must have closed afterwards.
NextState(state, evidence) ==
  LET stay(reason) == [to |-> state, reason |-> reason]
      i == CHOOSE k \in 1..5 : Chain[k] = state
  IN CASE state = "terminal" -> stay("immutable")
       [] state # "terminal" /\ evidence \in {"insufficient", "unconfirmed"} -> stay(evidence)
       [] state # "terminal" /\ evidence = "terminal" -> [to |-> "terminal", reason |-> "over"]
       [] state # "terminal" /\ evidence \in {"open", "closed"} ->
            IF state = "TRIGGERED" \/ (state = "PRE-TRIGGER" /\ evidence = "closed")
                 \/ (state = "ARMED" /\ evidence = "open")
            THEN stay("unconfirmed")
            ELSE [to |-> Chain[i + 1], reason |-> "confirmed"]

Findings == {"insufficient", "unconfirmed", "terminal", "open", "closed"}

\* Mutant of Newest: the newest event of the symbol.
NewestOfSymbol(episode) == {k \in 1..Len(events) : k = Len(events)}

\* The newest event of an episode.
Newest(episode) ==
  {k \in 1..Len(events) : /\ events[k].episode = episode
                          /\ \A j \in k + 1 .. Len(events) : events[j].episode # episode}

\* latest_state
LatestState(episode) ==
  IF Newest(episode) = {} THEN "WATCH" ELSE events[CHOOSE k \in Newest(episode) : TRUE].to

\* append_comparison: an event that changes neither the state nor the reason is
\* not stored again.
Unchanged(episode, event) ==
  /\ event.from = event.to
  /\ \E k \in Newest(episode) : events[k].reason = event.reason

AppendShadow(evidence, stored) ==
  LET from == LatestState(run.listing)
      next == NextState(from, evidence)
      event == [episode |-> run.listing, from |-> from, to |-> next.to,
                reason |-> next.reason]
  IN /\ run.pc = "writing" /\ run.todo # <<>> /\ Head(run.todo) = "shadow"
     /\ IF ~stored \/ Unchanged(run.listing, event)
        THEN UNCHANGED events
        ELSE Len(events) < MaxEvents /\ events' = Append(events, event)
     /\ run' = IF Len(run.todo) = 1 THEN Idle ELSE [run EXCEPT !.todo = Tail(@)]
     /\ UNCHANGED <<row, known, signals, finals>>

\* record_final_production_decision; it is best effort.
RecordFinal(stored) ==
  /\ run.pc = "writing" /\ run.todo # <<>> /\ Head(run.todo) = "final"
  /\ finals' = IF stored /\ run.signal # 0 THEN finals \cup {run.signal} ELSE finals
  /\ run' = IF Len(run.todo) = 1 THEN Idle ELSE [run EXCEPT !.todo = Tail(@)]
  /\ UNCHANGED <<row, known, signals, events>>

-----------------------------------------------------------------------------
\* The catalogue takes the symbol out of the universe, or back into it with a new
\* lifecycle, while an evaluation awaits.
Drop ==
  /\ run.pc # "writing" /\ row.eligible
  /\ row' = [row EXCEPT !.eligible = FALSE, !.status = "WATCH"]
  /\ run' = [run EXCEPT !.current = FALSE]
  /\ UNCHANGED <<known, signals, finals, events>>

Return ==
  /\ run.pc # "writing" /\ ~row.eligible /\ row.listing < MaxListings
  /\ row' = [listing |-> row.listing + 1, eligible |-> TRUE, status |-> "WATCH"]
  /\ run' = [run EXCEPT !.current = FALSE]
  /\ UNCHANGED <<known, signals, finals, events>>

Restart ==
  /\ known' = Unknown /\ run' = Idle
  /\ UNCHANGED <<row, signals, finals, events>>

Next ==
  \/ Read \/ Begin \/ Abandon \/ Unavailable \/ SuppressStale \/ Veto
  \/ RejectMetadata \/ Persist \/ PersistenceRejected
  \/ \E status \in {"WATCH", "ARMED"} : Observe(status)
  \/ \E evidence \in Findings, stored \in BOOLEAN : AppendShadow(evidence, stored)
  \/ \E stored \in BOOLEAN : RecordFinal(stored)
  \/ Drop \/ Return \/ Restart

Spec == Init /\ [][Next]_trailVars

-----------------------------------------------------------------------------
\* A trigger is signalled once: each signal took a row that an evaluation had left
\* below TRIGGERED since the one before, however old the status was that the
\* evaluation worked with (lbank_signal_ledger.py:278-306), and a final record
\* TRIGGERED never names a signal that is not in the ledger.
TriggeredOncePerRise ==
  /\ \A i \in 1..Len(signals) : signals[i] # "TRIGGERED"
  /\ finals \subseteq 1..Len(signals)

\* Each episode of the shadow is one path from WATCH: an event starts where the one
\* before it in its episode ended, whatever was stored for the lifecycles before,
\* and no event leaves a terminal state (lifecycle_v2_shadow.py:281).
EpisodesAreSeparate ==
  \A k \in 1..Len(events) :
    LET before == {j \in 1..k - 1 : events[j].episode = events[k].episode}
        last == CHOOSE j \in before : \A i \in before : i <= j
    IN /\ events[k].from = IF before = {} THEN "WATCH" ELSE events[last].to
       /\ events[k].from = "terminal" => events[k].to = "terminal"
=============================================================================
