--------------------------- MODULE DecisionPipeline ---------------------------
(***************************************************************************)
(* One symbol from the catalogue to its announced entry decision:          *)
(*                                                                         *)
(*   update_catalog (discovery/lbank_scanner.py over core/db.py) lists,    *)
(*     drops and re-lists the symbol, and replaces its in-memory candidate;*)
(*   hunter_loop (main.py) refreshes its snapshot of the candidates once a *)
(*     minute, reconciles old decisions and dispatches evaluations;        *)
(*   evaluate_candidate (main.py) analyses the candidate, appends its      *)
(*     decision to the ledger and writes the new lifecycle state;          *)
(*   EntryDecisionStore (core/entry_decision_store.py) is the ledger, which *)
(*     puts one notification in the outbox per transition to ENTRY_READY.  *)
(*                                                                         *)
(* ATOMICITY.  The scanner, the loop and the evaluations are coroutines of *)
(* one event loop: what one does between two awaits no other coroutine     *)
(* sees half done.  The two reconciliations of the maintenance run in      *)
(* worker threads, so each of their transactions is a step of its own,     *)
(* which may fall between the ledger read and the ledger append of an      *)
(* evaluation (pc "decided" or "lost").  While an evaluation stands there  *)
(* it has the event loop, so no other coroutine moves (LoopFree).          *)
(*                                                                         *)
(* The ledger is kept as its newest packet, the only one the code reads.   *)
(* Of the outbox the model keeps the row that announces the decision that  *)
(* stands; a row of an earlier one is suppressed whenever it is claimed.   *)
(***************************************************************************)
EXTENDS EntryDecision

CONSTANTS
  Watching,      \* lifecycle states before ARMED that the instance uses
  Evidence,      \* what an analysis may find, see EntryDecision
  Policies,      \* the operator settings an evaluation may read
  MaxLifecycle,  \* bound: listings of the symbol
  MaxNow,        \* bound: the clock
  MaxCrashes,    \* bound: crashes of the process
  MaxReadFaults  \* bound: reads of the active candidates that fail

ASSUME PipelineAssumption ==
  /\ "WATCH" \in Watching /\ Watching \subseteq {"WATCH", "FUEL-RICH", "PRE-TRIGGER"}
  /\ \A ev \in Evidence :
       /\ ev.stale \in BOOLEAN /\ ev.veto \in BOOLEAN /\ ev.viable \in BOOLEAN
       /\ ev.extended \in BOOLEAN /\ ev.cascade \in BOOLEAN /\ ev.gates \in BOOLEAN
       /\ ev.readiness \in Readiness
       /\ ev.expires \in Nat \cup {NoExpiry}
       /\ ev.material \in Nat
  /\ Policies \subseteq [freshness : BOOLEAN, execution : BOOLEAN,
                         cascade : BOOLEAN, antiChase : BOOLEAN]
  /\ MaxLifecycle \in Nat /\ MaxNow \in Nat
  /\ MaxCrashes \in Nat /\ MaxReadFaults \in Nat

VARIABLES
  catalog,   \* the symbol's row of lbank_catalog
  active,    \* lifecycle of the scanner's in-memory candidate, 0: none
  snapshot,  \* the symbol in the loop's candidates, or Inactive
  eval,      \* the evaluation in flight
  maint,     \* the maintenance of the loop
  head,      \* the newest packet of the ledger
  notice,    \* the outbox row of the standing ENTRY_READY
  now,       \* the clock
  crashes,   \* crashes used up
  readFaults, \* failed reads used up
  announced  \* history: the last lifecycle that had an ENTRY_READY

durableVars == <<catalog, head, notice>>
memoryVars == <<active, snapshot, eval, maint>>
boundVars == <<now, crashes, readFaults>>
vars == <<durableVars, memoryVars, boundVars, announced>>

Active == Watching \cup {"ARMED", "TRIGGERED"}

Inactive == [lifecycle |-> 0, status |-> "WATCH"]
NoEvaluation == [pc |-> "none", lifecycle |-> 0, status |-> "WATCH",
                 current |-> FALSE, at |-> 0, previous |-> NoPacket]
NoMaintenance == [pc |-> "idle", at |-> 0, head |-> NoPacket]
NoNotice == [status |-> "none", newest |-> FALSE, rows |-> 0]

Packet ==
  [decision : Decision, lifecycle : 1 .. MaxLifecycle, state : CandidateStatus,
   readiness : Readiness, reasons : SUBSET Reason, origin : Origin,
   expires : {ev.expires : ev \in Evidence} \cup {NoExpiry},
   material : {ev.material : ev \in Evidence} \cup {0}]

\* The coroutine at the event loop is not an evaluation between its ledger read
\* and its ledger append.
LoopFree == eval.pc \notin {"decided", "lost"}

-----------------------------------------------------------------------------
Init ==
  /\ catalog = [status |-> "ABSENT", eligible |-> FALSE, lifecycle |-> 0, missing |-> 0]
  /\ active = 0 /\ snapshot = Inactive
  /\ eval = NoEvaluation /\ maint = NoMaintenance
  /\ head = NoPacket /\ notice = NoNotice
  /\ now = 0 /\ crashes = 0 /\ readFaults = 0
  /\ announced = 0

-----------------------------------------------------------------------------
(* The catalogue. *)

Fresh(eligible, lifecycle) ==
  [status |-> "WATCH", eligible |-> eligible, lifecycle |-> lifecycle, missing |-> 0]

\* Mutant of Listed: a symbol that returns keeps its lifecycle.
ListedInPlace(eligible) ==
  CASE catalog.status = "ABSENT" -> Fresh(eligible, 1)
    [] catalog.status = "REMOVED" -> Fresh(eligible, catalog.lifecycle)
    [] OTHER -> IF catalog.eligible # eligible
                THEN Fresh(eligible, catalog.lifecycle)
                ELSE [catalog EXCEPT !.missing = 0]

\* update_candidates for a symbol of the fetched catalogue: a new symbol, a
\* removed one and a change of eligibility each start a lifecycle.
Listed(eligible) ==
  CASE catalog.status = "ABSENT" -> Fresh(eligible, 1)
    [] catalog.status = "REMOVED" -> Fresh(eligible, catalog.lifecycle + 1)
    [] OTHER -> IF catalog.eligible # eligible
                THEN Fresh(eligible, catalog.lifecycle + 1)
                ELSE [catalog EXCEPT !.missing = 0]

\* record_missing_symbols: the second snapshot without the symbol removes it.
Missed ==
  CASE catalog.status \in {"ABSENT", "REMOVED"} -> catalog
    [] OTHER -> IF catalog.missing + 1 >= 2
                THEN [catalog EXCEPT !.status = "REMOVED", !.eligible = FALSE,
                                     !.missing = catalog.missing + 1]
                ELSE [catalog EXCEPT !.missing = catalog.missing + 1]

\* get_all_active_candidates.
ActiveRow ==
  IF catalog.eligible /\ catalog.status \in Active
  THEN [lifecycle |-> catalog.lifecycle, status |-> catalog.status]
  ELSE Inactive

\* The swap: every candidate is a new object, so no evaluation in flight holds
\* the current one any more.
Swap(lifecycle) ==
  /\ active' = lifecycle
  /\ eval' = [eval EXCEPT !.current = FALSE]

\* Mutant of Refresh: an evaluation in flight keeps its token.
RefreshInPlace(listing) ==
  /\ LoopFree
  /\ catalog' = IF listing = "missing" THEN Missed ELSE Listed(listing = "eligible")
  /\ catalog'.lifecycle <= MaxLifecycle
  /\ active' = IF listing = "eligible" THEN catalog'.lifecycle ELSE 0
  /\ UNCHANGED <<snapshot, eval, maint, head, notice, boundVars, announced>>

\* update_catalog after a successful fetch.  A failed one changes nothing.
Refresh(listing) ==
  /\ LoopFree
  /\ catalog' = IF listing = "missing" THEN Missed ELSE Listed(listing = "eligible")
  /\ catalog'.lifecycle <= MaxLifecycle
  /\ Swap(IF listing = "eligible" THEN catalog'.lifecycle ELSE 0)
  /\ UNCHANGED <<snapshot, maint, head, notice, boundVars, announced>>

\* update_catalog when the database refused the snapshot: update_candidates
\* only logs it, and the swap goes by the rows as they are.
RefreshUnwritten(listing) ==
  /\ LoopFree
  /\ Swap(IF listing = "eligible" THEN ActiveRow.lifecycle ELSE 0)
  /\ UNCHANGED <<catalog, snapshot, maint, head, notice, boundVars, announced>>

-----------------------------------------------------------------------------
(* The ledger. *)

\* _material_projection: what makes a packet worth a new event.
Material(p) == <<p.decision, p.lifecycle, p.state, p.origin, p.reasons, p.material>>

Changes(p) == head = NoPacket \/ Material(p) # Material(head)

Ready(p) == p.decision = "ENTRY_READY"
SameStanding(p) == Ready(head) /\ Ready(p) /\ head.lifecycle = p.lifecycle

\* Mutant of Announced: every ENTRY_READY event gets an outbox row.
AnnouncedAlways(p) ==
  IF Ready(p)
  THEN [status |-> "queued", newest |-> TRUE,
        rows |-> IF SameStanding(p) THEN notice.rows + 1 ELSE 1]
  ELSE NoNotice

\* The outbox row of the decision that stands after p is appended: a transition
\* to ENTRY_READY inserts one, an update of a standing one does not.
Announced(p) ==
  CASE Ready(p) /\ ~SameStanding(p) -> [status |-> "queued", newest |-> TRUE, rows |-> 1]
    [] SameStanding(p) -> [notice EXCEPT !.newest = FALSE]
    [] OTHER -> NoNotice

\* append_if_changed.
AppendIfChanged(p) ==
  IF Changes(p)
  THEN /\ head' = p
       /\ notice' = Announced(p)
       /\ announced' = IF Ready(p) THEN p.lifecycle ELSE announced
  ELSE UNCHANGED <<head, notice, announced>>

\* The lifecycle fence of append_if_changed.
Fenced(lifecycle) ==
  catalog.lifecycle = lifecycle /\ catalog.eligible /\ catalog.status # "REMOVED"

\* The delivery worker claims the row; the transport sends it only if its event
\* is the symbol's newest one, and settles it without sending otherwise.
Deliver ==
  /\ notice.status = "queued"
  /\ notice' = [notice EXCEPT !.status = IF notice.newest THEN "sent" ELSE "dropped"]
  /\ UNCHANGED <<catalog, head, memoryVars, boundVars, announced>>

-----------------------------------------------------------------------------
(* The maintenance of hunter_loop.  No evaluation is dispatched during it. *)

\* The expiry thread reads the newest decisions.
BeginMaintenance ==
  /\ maint.pc = "idle"
  /\ maint' = [pc |-> "expiring", at |-> now, head |-> head]
  /\ UNCHANGED <<durableVars, active, snapshot, eval, boundVars, announced>>

MaintenanceAt(pc) == maint' = [maint EXCEPT !.pc = pc]

\* _reconcile_explicit_entry_expirations appends without a lifecycle fence.
Expire ==
  /\ maint.pc = "expiring"
  /\ IF Expirable(maint.head, maint.at) THEN AppendIfChanged(ExpiredPacket(maint.head))
                                        ELSE UNCHANGED <<head, notice, announced>>
  /\ MaintenanceAt("fetching")
  /\ UNCHANGED <<catalog, active, snapshot, eval, boundVars>>

\* The loop's snapshot of the active candidates is replaced.
FetchCandidates ==
  /\ maint.pc = "fetching"
  /\ snapshot' = ActiveRow
  /\ MaintenanceAt("reconciling")
  /\ UNCHANGED <<durableVars, active, eval, boundVars, announced>>

\* get_all_active_candidates catches every error and returns no candidates.
FetchFails ==
  /\ maint.pc = "fetching" /\ readFaults < MaxReadFaults
  /\ readFaults' = readFaults + 1
  /\ snapshot' = Inactive
  /\ MaintenanceAt("reconciling")
  /\ UNCHANGED <<durableVars, active, eval, now, crashes, announced>>

\* The symbol is in the snapshot: the second reconciliation passes it over.
PassOver ==
  /\ maint.pc = "reconciling" /\ snapshot # Inactive
  /\ maint' = NoMaintenance
  /\ UNCHANGED <<durableVars, active, snapshot, eval, boundVars, announced>>

\* Mutant of ReadToInvalidate: the decisions the expiry thread read are reused.
ReuseToInvalidate ==
  /\ maint.pc = "reconciling" /\ snapshot = Inactive
  /\ MaintenanceAt("invalidating")
  /\ UNCHANGED <<durableVars, active, snapshot, eval, boundVars, announced>>

\* The invalidation thread reads the newest decisions.
ReadToInvalidate ==
  /\ maint.pc = "reconciling" /\ snapshot = Inactive
  /\ maint' = [pc |-> "invalidating", at |-> now, head |-> head]
  /\ UNCHANGED <<durableVars, active, snapshot, eval, boundVars, announced>>

\* _reconcile_inactive_actionable_decisions appends without a lifecycle fence.
Invalidate ==
  /\ maint.pc = "invalidating"
  /\ IF Invalidatable(maint.head) THEN AppendIfChanged(InvalidatedPacket(maint.head))
                                  ELSE UNCHANGED <<head, notice, announced>>
  /\ maint' = NoMaintenance
  /\ UNCHANGED <<catalog, active, snapshot, eval, boundVars>>

\* An exception ends the maintenance; hunter_loop logs it and goes on.
MaintenanceFails ==
  /\ maint.pc # "idle"
  /\ maint' = NoMaintenance
  /\ UNCHANGED <<durableVars, active, snapshot, eval, boundVars, announced>>

-----------------------------------------------------------------------------
(* An evaluation. *)

\* hunter_loop creates the task of a due candidate that has none in flight, with
\* the row of its last snapshot.
Dispatch ==
  /\ maint.pc = "idle"
  /\ eval.pc = "none" /\ snapshot # Inactive
  /\ eval' = [NoEvaluation EXCEPT !.pc = "queued", !.lifecycle = snapshot.lifecycle,
                                  !.status = snapshot.status]
  /\ UNCHANGED <<durableVars, active, snapshot, maint, boundVars, announced>>

\* The task starts: it goes on only with the candidate of its lifecycle, whose
\* object is its token.
Start ==
  /\ eval.pc = "queued"
  /\ eval' = IF active = eval.lifecycle
             THEN [eval EXCEPT !.pc = "analysing", !.current = TRUE]
             ELSE NoEvaluation
  /\ UNCHANGED <<durableVars, active, snapshot, maint, boundVars, announced>>

\* The analysis has answered and the decision's time is read; the execution
\* suitability is then awaited.
Measure ==
  /\ eval.pc = "analysing" /\ eval.current
  /\ eval' = [eval EXCEPT !.pc = "measured", !.at = now]
  /\ UNCHANGED <<durableVars, active, snapshot, maint, boundVars, announced>>

\* The previous decision is read from the ledger.
ReadPrevious ==
  /\ eval.pc = "measured" /\ eval.current
  /\ eval' = [eval EXCEPT !.pc = "decided", !.previous = head]
  /\ UNCHANGED <<durableVars, active, snapshot, maint, boundVars, announced>>

\* No exchange has a fresh reference price for the symbol.
LoseReference ==
  /\ eval.pc = "analysing" /\ eval.current
  /\ eval' = [eval EXCEPT !.pc = "lost", !.at = now, !.previous = head]
  /\ UNCHANGED <<durableVars, active, snapshot, maint, boundVars, announced>>

\* The candidate object was replaced during an await, or the analysis raised.
Discard ==
  /\ eval.pc \in {"analysing", "measured", "decided", "lost"}
  /\ eval' = NoEvaluation
  /\ UNCHANGED <<durableVars, active, snapshot, maint, boundVars, announced>>

\* update_candidate_state: only a scan-eligible row is written.
WithStatus(status) ==
  IF catalog.eligible THEN [catalog EXCEPT !.status = status] ELSE catalog

\* What the validator returns: a valid analysis with its suggested status, an
\* invalid one that still observed a state, or none.
Analysis ==
  [kind : {"valid"}, status : {"WATCH", "ARMED", "TRIGGERED"}]
    \cup [kind : {"observed"}, status : Watching]
    \cup {[kind |-> "unavailable", status |-> eval.status]}

\* The state an evaluation leaves the row in.  Its own idea of the row's state,
\* eval.status, is as old as the loop's snapshot.
Written(ev, a) ==
  CASE a.kind = "unavailable" ->
         IF eval.status # "WATCH" THEN WithStatus("WATCH") ELSE catalog
    [] a.kind # "unavailable" /\ a.status = eval.status -> catalog
    [] a.kind # "unavailable" /\ a.status # eval.status /\ a.status # "TRIGGERED" ->
         WithStatus(a.status)
    [] OTHER ->
         IF ev.veto THEN WithStatus("WATCH")
         ELSE IF catalog.status = eval.status THEN WithStatus("TRIGGERED")
         ELSE catalog

\* The decision is appended and the lifecycle state written, in one go of the
\* event loop.  A stale lifecycle drops both.
Conclude(ev, policy, a) ==
  /\ eval.pc = "decided"
  /\ IF Fenced(eval.lifecycle)
     THEN /\ AppendIfChanged(Evaluated(eval.previous, ev, a.status, policy,
                              eval.lifecycle, eval.at))
          /\ catalog' = Written(ev, a)
     ELSE UNCHANGED <<head, notice, announced, catalog>>
  /\ eval' = NoEvaluation
  /\ UNCHANGED <<active, snapshot, maint, boundVars>>

NoEvidence ==
  [stale |-> TRUE, veto |-> FALSE, viable |-> FALSE, extended |-> FALSE,
   cascade |-> FALSE, readiness |-> "below", gates |-> FALSE,
   expires |-> NoExpiry, material |-> 0]
ShippedPolicy ==
  [freshness |-> TRUE, execution |-> TRUE, cascade |-> TRUE, antiChase |-> TRUE]

\* Without a reference only an actionable decision is evaluated, on no evidence.
ConcludeLost ==
  /\ eval.pc = "lost"
  /\ IF eval.previous.decision \in Actionable
     THEN IF Fenced(eval.lifecycle)
          THEN /\ AppendIfChanged(Evaluated(eval.previous, NoEvidence, "WATCH", ShippedPolicy,
                                   eval.lifecycle, eval.at))
               /\ catalog' = IF eval.status # "WATCH" THEN WithStatus("WATCH")
                                                      ELSE catalog
          ELSE UNCHANGED <<head, notice, announced, catalog>>
     ELSE /\ catalog' = IF eval.status # "WATCH" THEN WithStatus("WATCH") ELSE catalog
          /\ UNCHANGED <<head, notice, announced>>
  /\ eval' = NoEvaluation
  /\ UNCHANGED <<active, snapshot, maint, boundVars>>

-----------------------------------------------------------------------------
Tick ==
  /\ now < MaxNow
  /\ now' = now + 1
  /\ UNCHANGED <<durableVars, memoryVars, crashes, readFaults, announced>>

\* The process dies; the next one starts with an empty memory.
Crash ==
  /\ crashes < MaxCrashes
  /\ crashes' = crashes + 1
  /\ active' = 0 /\ snapshot' = Inactive
  /\ eval' = NoEvaluation /\ maint' = NoMaintenance
  /\ UNCHANGED <<durableVars, now, readFaults, announced>>

Next ==
  \/ \E listing \in {"eligible", "ineligible", "missing"} :
       Refresh(listing) \/ RefreshUnwritten(listing)
  \/ BeginMaintenance \/ Expire \/ FetchCandidates \/ FetchFails \/ PassOver
  \/ ReadToInvalidate \/ Invalidate \/ MaintenanceFails
  \/ Dispatch \/ Start \/ Measure \/ ReadPrevious \/ LoseReference \/ Discard
  \/ \E ev \in Evidence, policy \in Policies, a \in Analysis : Conclude(ev, policy, a)
  \/ ConcludeLost
  \/ Deliver \/ Tick \/ Crash

Spec == Init /\ [][Next]_vars

-----------------------------------------------------------------------------
(* Properties. *)

\* The variables stay in their sets; a row is removed exactly by its second
\* missing snapshot.
TypeOK ==
  /\ catalog \in [status : Active \cup {"ABSENT", "REMOVED"}, eligible : BOOLEAN,
                  lifecycle : 0 .. MaxLifecycle, missing : 0 .. 2]
  /\ (catalog.status = "REMOVED") = (catalog.missing = 2)
  /\ active \in 0 .. MaxLifecycle
  /\ snapshot \in [lifecycle : 0 .. MaxLifecycle, status : Active]
  /\ eval \in [pc : {"none", "queued", "analysing", "measured", "decided", "lost"},
               lifecycle : 0 .. MaxLifecycle, status : Active, current : BOOLEAN,
               at : 0 .. MaxNow, previous : Packet \cup {NoPacket}]
  /\ maint \in [pc : {"idle", "expiring", "fetching", "reconciling", "invalidating"},
                at : 0 .. MaxNow, head : Packet \cup {NoPacket}]
  /\ head \in Packet \cup {NoPacket}
  /\ notice \in [status : {"none", "queued", "sent", "dropped"}, newest : BOOLEAN,
                 rows : 0 .. 1]
  /\ now \in 0 .. MaxNow
  /\ crashes \in 0 .. MaxCrashes /\ readFaults \in 0 .. MaxReadFaults
  /\ announced \in 0 .. MaxLifecycle

\* An evaluation whose token is current works for the row's own lifecycle, and
\* the row is scan-eligible: the token check of evaluate_candidate guards the
\* state writes, whose SQL compares no lifecycle.
TokenMatchesRow == eval.current => Fenced(eval.lifecycle)

\* The ledger records no decision of an older listing on top of one of a newer
\* listing, although the invalidation appends without a fence what it read in an
\* earlier transaction.  The exception is the expiry of a plan: its thread runs
\* beside evaluations of the next listing.
LifecyclesNeverGoBack ==
  [][head'.lifecycle < head.lifecycle => head'.decision = "EXPIRED"]_head

\* ACTIVE means that this lifecycle's ENTRY_READY was recorded before, through
\* races with the reconciliations, re-listings and restarts.
ActiveWasReady == head.decision = "ACTIVE" => announced = head.lifecycle

\* No actionable packet carries a block reason (_base_decision: "a packet must
\* never advertise an actionable decision while it is hard-blocked").
ActionableIsUnblocked == head.decision \in Actionable => head.reasons = {}

\* A LATE packet names the cause it was first recorded for.
LateNamesItsOrigin == (head.decision = "LATE") = (head.origin # "NONE")

\* A standing ENTRY_READY has one outbox row, however often its packet is
\* updated and whoever appends.
OneRowPerReady == notice.rows = IF Ready(head) THEN 1 ELSE 0

\* What the ledger says and what was announced agree: ACTIVE follows an announced
\* ENTRY_READY of its lifecycle, and a standing ENTRY_READY has one outbox row
\* (entry_decision_store.py:225-330 and main.py:3754-3802).
NoticesMatchLedger == ActiveWasReady /\ OneRowPerReady

\* CANDIDATE_NO_LONGER_ACTIVE is recorded only for a listing that is over or
\* not eligible (_reconcile_inactive_actionable_decisions: "after a symbol
\* leaves the active universe").
InvalidatedOutsideUniverse ==
  [][head'.reasons = {"NO_LONGER_ACTIVE"} => ~Fenced(head'.lifecycle)]_head

-----------------------------------------------------------------------------
(* What documents say, and the code does not do. *)

\* docs/TELEGRAM.md: ENTRY_READY events are delivered at least once.  While the
\* decision stands, its only outbox row is not settled without a message.
StandingReadyNotDropped == notice.status # "dropped"

\* docs/DECISION_ENGINE.md: anti-chase and exhausted terminals remain terminal
\* in their lifecycle.
LateStaysTerminal ==
  [][head.decision = "LATE" /\ head'.lifecycle = head.lifecycle
       => head'.decision = "LATE"]_head

\* docs/DECISION_ENGINE.md: anti-chase does not turn sub-FORMING evidence into
\* LATE: a first LATE of that origin rests on at least FORMING readiness.
LateRestsOnForming ==
  [][head'.origin = "ANTI_CHASE" /\ head.decision # "LATE"
       => head'.readiness # "below"]_head
=============================================================================
