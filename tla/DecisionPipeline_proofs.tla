------------------------ MODULE DecisionPipeline_proofs ------------------------
(***************************************************************************)
(* Proofs about the decision pipeline for any evidence, settings, number   *)
(* of listings, crashes and failed reads.                                  *)
(*                                                                         *)
(* Inv adds to the type invariant what its properties rest on: the         *)
(* in-memory candidate is the row's own lifecycle (Rows), and an           *)
(* actionable packet, the newest one or one that an evaluation has read,   *)
(* belongs to the lifecycle whose ENTRY_READY was recorded last (Ledger).  *)
(* The last section adds who has left the universe (Universe), for what    *)
(* may be recorded of an older listing.                                    *)
(***************************************************************************)
EXTENDS DecisionPipeline, EntryDecision_proofs

\* What is known of the catalogue row and of those who remember its lifecycle.
Rows ==
  /\ catalog.eligible => catalog.status \in Active
  /\ catalog.status # "ABSENT" => catalog.lifecycle >= 1
  /\ active # 0 => Fenced(active)
  /\ snapshot # Inactive => snapshot.lifecycle >= 1
  /\ eval.pc # "none" => eval.lifecycle >= 1
  /\ TokenMatchesRow

\* p is a packet that the ledger may rest on.
Grounded(p) == p.decision \in Actionable => announced = p.lifecycle

Ledger ==
  /\ OriginNamed(head) /\ OriginNamed(maint.head) /\ OriginNamed(eval.previous)
  /\ Grounded(head)
  /\ eval.pc \in {"decided", "lost"} => Grounded(eval.previous)
  /\ OneRowPerReady

Inv == TypeOK /\ Rows /\ Ledger

-----------------------------------------------------------------------------
\* The symbol's states are candidate states, and none of them is REMOVED.
LEMMA ActiveStates ==
  /\ "WATCH" \in Active /\ "ARMED" \in Active /\ "TRIGGERED" \in Active
  /\ Active \subseteq CandidateStatus
  /\ "ABSENT" \notin Active /\ "REMOVED" \notin Active
BY PipelineAssumption DEF Active, CandidateStatus

\* build_entry_decision returns a packet.
LEMMA EvaluatedIsPacket ==
  ASSUME NEW previous \in Packet \cup {NoPacket},
         NEW ev \in Evidence \cup {NoEvidence}, NEW status \in CandidateStatus,
         NEW policy, NEW lifecycle \in 1 .. MaxLifecycle, NEW time
  PROVE  Evaluated(previous, ev, status, policy, lifecycle, time) \in Packet
<1> DEFINE current == Current(previous, ev, status, policy, lifecycle, time)
           verdict == Verdict(previous, ev, status, policy, lifecycle, time)
           settled == Transition(previous, current, lifecycle, time)
<1>1. /\ ev.readiness \in Readiness
      /\ ev.expires \in {e.expires : e \in Evidence} \cup {NoExpiry}
      /\ ev.material \in {e.material : e \in Evidence} \cup {0}
  BY PipelineAssumption DEF NoEvidence, Readiness
<1>2. /\ previous.reasons \subseteq Reason
      /\ previous.decision \in Decision \cup {"NONE"}
      /\ previous.origin \in Origin
  BY DEF Packet, NoPacket, Origin
<1>3. verdict.reasons \subseteq Reason
  BY DEF Verdict, Predecessor, BlockReasons, If, Reason
<1>4. verdict.decision \in Decision
  BY VerdictRange DEF Decision, Actionable, Terminal
<1>5. /\ current.decision \in Decision
      /\ current.reasons \subseteq Reason
      /\ current.origin \in Origin
  BY <1>3, <1>4 DEF Current, Outcome, LateOrigin, Origin
<1>6. /\ settled.decision \in Decision
      /\ settled.reasons \subseteq Reason
      /\ settled.origin \in Origin
  <2>1. CASE RetainsTerminal(previous, current.decision, lifecycle)
    <3>1. settled = Retained(previous, current)
      BY <2>1 DEF Transition, RetainsTerminal, Terminal, Actionable
    <3>2. previous.decision \in Decision
      BY <2>1, <1>2 DEF RetainsTerminal, Terminal, Decision
    <3>3. PreviousOrigin(previous) \in Origin
      BY <1>2 DEF PreviousOrigin, Origin
    <3>4. Retained(previous, current).origin \in Origin
      BY <1>5, <3>3 DEF Retained, Outcome, Origin
    <3>5. QED BY <3>1, <3>2, <3>4, <1>2, <1>5 DEF Retained, Outcome
  <2>2. CASE ~RetainsTerminal(previous, current.decision, lifecycle)
    BY <2>2, <1>5 DEF Transition, Outcome, Decision, Terminal, Reason, Origin
  <2>3. QED BY <2>1, <2>2
<1>7. Evaluated(previous, ev, status, policy, lifecycle, time)
        = [decision |-> settled.decision, lifecycle |-> lifecycle, state |-> status,
           readiness |-> ev.readiness, reasons |-> settled.reasons,
           origin |-> IF settled.decision = "LATE" THEN settled.origin ELSE "NONE",
           expires |-> ev.expires, material |-> ev.material]
  BY DEF Evaluated, Current, Verdict
<1>8. QED BY <1>1, <1>6, <1>7 DEF Packet, Origin

\* What appending a packet does to the ledger: ENTRY_READY grounds itself,
\* ACTIVE must be grounded already, and no other packet moves `announced'.
LEMMA AppendStep ==
  ASSUME Inv, NEW p \in Packet, OriginNamed(p),
         p.decision = "ACTIVE" => announced = p.lifecycle,
         AppendIfChanged(p)
  PROVE  /\ head' \in Packet \cup {NoPacket}
         /\ notice' \in [status : {"none", "queued", "sent", "dropped"},
                         newest : BOOLEAN, rows : 0 .. 1]
         /\ announced' \in 0 .. MaxLifecycle
         /\ OriginNamed(head')
         /\ Grounded(head)'
         /\ OneRowPerReady'
         /\ ~Ready(p) => announced' = announced
<1>1. p.lifecycle \in 1 .. MaxLifecycle
  BY DEF Packet
<1>2. CASE ~Changes(p)
  BY <1>2 DEF AppendIfChanged, Inv, TypeOK, Ledger, Grounded, OneRowPerReady, Ready
<1>3. CASE Changes(p)
  <2>1. /\ head' = p
        /\ notice' = Announced(p)
        /\ announced' = IF Ready(p) THEN p.lifecycle ELSE announced
    BY <1>3 DEF AppendIfChanged
  <2>2. notice \in [status : {"none", "queued", "sent", "dropped"},
                    newest : BOOLEAN, rows : 0 .. 1]
    BY DEF Inv, TypeOK
  <2>3. notice.rows = IF Ready(head) THEN 1 ELSE 0
    BY DEF Inv, Ledger, OneRowPerReady
  <2>4. CASE SameStanding(p)
    <3>1. notice' = [notice EXCEPT !.newest = FALSE] /\ Ready(p) /\ Ready(head)
      BY <2>1, <2>4 DEF Announced, SameStanding
    <3>2. /\ notice' \in [status : {"none", "queued", "sent", "dropped"},
                          newest : BOOLEAN, rows : 0 .. 1]
          /\ notice'.rows = 1
      BY <3>1, <2>2, <2>3
    <3>3. QED BY <1>1, <2>1, <3>1, <3>2
              DEF OneRowPerReady, Ready, Grounded, Inv, TypeOK
  <2>5. CASE ~SameStanding(p)
    <3>1. notice' = IF Ready(p)
                    THEN [status |-> "queued", newest |-> TRUE, rows |-> 1]
                    ELSE NoNotice
      BY <2>1, <2>5 DEF Announced
    <3>2. /\ notice' \in [status : {"none", "queued", "sent", "dropped"},
                          newest : BOOLEAN, rows : 0 .. 1]
          /\ notice'.rows = IF Ready(p) THEN 1 ELSE 0
      BY <3>1 DEF NoNotice
    <3>3. QED BY <1>1, <2>1, <3>2
              DEF OneRowPerReady, Ready, Grounded, Inv, TypeOK, Actionable
  <2>6. QED BY <2>4, <2>5
<1>4. QED BY <1>2, <1>3

\* An evaluation writes the lifecycle state of an eligible row, or nothing.
LEMMA WithStatusRow ==
  ASSUME Inv, NEW s \in Active, NEW row, row = WithStatus(s) \/ row = catalog
  PROVE  /\ row \in [status : Active \cup {"ABSENT", "REMOVED"}, eligible : BOOLEAN,
                     lifecycle : 0 .. MaxLifecycle, missing : 0 .. 2]
         /\ (row.status = "REMOVED") = (row.missing = 2)
         /\ row.eligible = catalog.eligible /\ row.lifecycle = catalog.lifecycle
         /\ row.eligible => row.status \in Active
         /\ row.status # "ABSENT" => row.lifecycle >= 1
         /\ catalog.status # "REMOVED" => row.status # "REMOVED"
<1>1. CASE row = catalog
  BY <1>1 DEF Inv, TypeOK, Rows
<1>2. CASE row # catalog
  <2>1. catalog.eligible /\ row = [catalog EXCEPT !.status = s]
    BY <1>2 DEF WithStatus
  <2>2. /\ catalog \in [status : Active \cup {"ABSENT", "REMOVED"}, eligible : BOOLEAN,
                        lifecycle : 0 .. MaxLifecycle, missing : 0 .. 2]
        /\ (catalog.status = "REMOVED") = (catalog.missing = 2)
        /\ catalog.status \in Active
        /\ catalog.lifecycle >= 1
    BY <2>1, ActiveStates DEF Inv, TypeOK, Rows
  <2>3. QED BY <2>1, <2>2, ActiveStates
<1>3. QED BY <1>1, <1>2

LEMMA WrittenRow ==
  ASSUME Inv, NEW ev, NEW a \in Analysis
  PROVE  \E s \in Active : Written(ev, a) = WithStatus(s) \/ Written(ev, a) = catalog
<1>1. a.status \in Active
  BY ActiveStates DEF Analysis, Active, Inv, TypeOK
<1>2. QED BY <1>1, ActiveStates DEF Written

-----------------------------------------------------------------------------
LEMMA InitInv == Init => Inv
<1>1. SUFFICES ASSUME Init PROVE Inv
  OBVIOUS
<1>2. TypeOK
  BY <1>1, ActiveStates, PipelineAssumption
     DEF Init, TypeOK, Inactive, NoEvaluation, NoMaintenance, NoNotice
<1>3. Rows
  BY <1>1 DEF Init, Rows, TokenMatchesRow, Inactive, NoEvaluation
<1>4. Ledger
  BY <1>1 DEF Init, Ledger, Grounded, OriginNamed, OneRowPerReady, Ready,
              NoEvaluation, NoMaintenance, NoPacket, NoNotice, Actionable
<1>5. QED BY <1>2, <1>3, <1>4 DEF Inv

\* What a listing makes of the row.
LEMMA ListedRow ==
  ASSUME Inv, NEW eligible \in BOOLEAN, Listed(eligible).lifecycle <= MaxLifecycle
  PROVE  LET row == Listed(eligible)
         IN /\ row \in [status : Active \cup {"ABSENT", "REMOVED"}, eligible : BOOLEAN,
                        lifecycle : 0 .. MaxLifecycle, missing : 0 .. 2]
            /\ (row.status = "REMOVED") = (row.missing = 2)
            /\ row.eligible = eligible
            /\ row.status \in Active
            /\ row.lifecycle >= 1
<1>1. /\ catalog \in [status : Active \cup {"ABSENT", "REMOVED"}, eligible : BOOLEAN,
                      lifecycle : 0 .. MaxLifecycle, missing : 0 .. 2]
      /\ catalog.status # "ABSENT" => catalog.lifecycle >= 1
      /\ MaxLifecycle \in Nat
  BY PipelineAssumption DEF Inv, TypeOK, Rows
<1>2. CASE catalog.status = "ABSENT" \/ catalog.status = "REMOVED"
            \/ catalog.eligible # eligible
  <2>1. \E n \in Nat : n >= 1 /\ Listed(eligible) = Fresh(eligible, n)
    BY <1>1, <1>2 DEF Listed
  <2>2. QED BY <2>1, ActiveStates DEF Fresh
<1>3. CASE ~(catalog.status = "ABSENT" \/ catalog.status = "REMOVED"
              \/ catalog.eligible # eligible)
  <2>1. Listed(eligible) = [catalog EXCEPT !.missing = 0]
    BY <1>3 DEF Listed
  <2>2. QED BY <1>1, <1>3, <2>1, ActiveStates
<1>4. QED BY <1>2, <1>3

\* What a snapshot without the symbol makes of the row.
LEMMA MissedRow ==
  ASSUME Inv
  PROVE  /\ Missed \in [status : Active \cup {"ABSENT", "REMOVED"}, eligible : BOOLEAN,
                        lifecycle : 0 .. MaxLifecycle, missing : 0 .. 2]
         /\ (Missed.status = "REMOVED") = (Missed.missing = 2)
         /\ Missed.eligible => Missed.status \in Active
         /\ Missed.status # "ABSENT" => Missed.lifecycle >= 1
<1>1. /\ catalog \in [status : Active \cup {"ABSENT", "REMOVED"}, eligible : BOOLEAN,
                      lifecycle : 0 .. MaxLifecycle, missing : 0 .. 2]
      /\ (catalog.status = "REMOVED") = (catalog.missing = 2)
      /\ catalog.eligible => catalog.status \in Active
      /\ catalog.status # "ABSENT" => catalog.lifecycle >= 1
  BY DEF Inv, TypeOK, Rows
<1>2. CASE catalog.status \in {"ABSENT", "REMOVED"}
  BY <1>1, <1>2 DEF Missed
<1>3. CASE catalog.status \notin {"ABSENT", "REMOVED"}
  <2>1. catalog.missing \in 0 .. 1
    BY <1>1, <1>3
  <2>2. CASE catalog.missing = 1
    <3>1. Missed = [catalog EXCEPT !.status = "REMOVED", !.eligible = FALSE,
                                   !.missing = 2]
      BY <1>3, <2>2 DEF Missed
    <3>2. /\ Missed.status = "REMOVED" /\ Missed.eligible = FALSE
          /\ Missed.lifecycle = catalog.lifecycle /\ Missed.missing = 2
      BY <1>1, <3>1
    <3>3. Missed \in [status : Active \cup {"ABSENT", "REMOVED"}, eligible : BOOLEAN,
                      lifecycle : 0 .. MaxLifecycle, missing : 0 .. 2]
      <4>1. Missed = [status |-> "REMOVED", eligible |-> FALSE,
                      lifecycle |-> catalog.lifecycle, missing |-> 2]
        BY <1>1, <3>1
      <4>2. catalog.lifecycle \in 0 .. MaxLifecycle
        BY <1>1
      <4>3. QED BY <4>1, <4>2
    <3>4. QED BY <1>1, <1>3, <3>2, <3>3
  <2>3. CASE catalog.missing = 0
    <3>1. Missed = [catalog EXCEPT !.missing = 1]
      BY <1>3, <2>3 DEF Missed
    <3>2. /\ Missed.status = catalog.status /\ Missed.eligible = catalog.eligible
          /\ Missed.lifecycle = catalog.lifecycle /\ Missed.missing = 1
      BY <1>1, <3>1
    <3>3. Missed \in [status : Active \cup {"ABSENT", "REMOVED"}, eligible : BOOLEAN,
                      lifecycle : 0 .. MaxLifecycle, missing : 0 .. 2]
      BY <1>1, <3>1
    <3>4. QED BY <1>1, <1>3, <3>2, <3>3
  <2>4. QED BY <2>1, <2>2, <2>3
<1>4. QED BY <1>2, <1>3

\* The candidate that get_all_active_candidates returns.
LEMMA ActiveRowFits ==
  ASSUME Inv
  PROVE  /\ ActiveRow \in [lifecycle : 0 .. MaxLifecycle, status : Active]
         /\ ActiveRow # Inactive => ActiveRow.lifecycle >= 1
         /\ ActiveRow.lifecycle # 0 => Fenced(ActiveRow.lifecycle)
<1>1. MaxLifecycle \in Nat
  BY PipelineAssumption
<1>2. QED BY <1>1, ActiveStates DEF ActiveRow, Inactive, Fenced, Inv, TypeOK, Rows

\* A refresh replaces every candidate, so no evaluation keeps its token.
LEMMA RefreshStep ==
  ASSUME Inv, NEW listing \in {"eligible", "ineligible", "missing"}, Refresh(listing)
  PROVE  Inv'
<1>1. /\ catalog' = IF listing = "missing" THEN Missed ELSE Listed(listing = "eligible")
      /\ active' = IF listing = "eligible" THEN catalog'.lifecycle ELSE 0
      /\ eval' = [eval EXCEPT !.current = FALSE]
      /\ catalog'.lifecycle <= MaxLifecycle
      /\ UNCHANGED <<snapshot, maint, head, notice, now, crashes, readFaults, announced>>
  BY DEF Refresh, Swap, boundVars
<1>2. /\ catalog' \in [status : Active \cup {"ABSENT", "REMOVED"}, eligible : BOOLEAN,
                       lifecycle : 0 .. MaxLifecycle, missing : 0 .. 2]
      /\ (catalog'.status = "REMOVED") = (catalog'.missing = 2)
      /\ catalog'.eligible => catalog'.status \in Active
      /\ catalog'.status # "ABSENT" => catalog'.lifecycle >= 1
      /\ listing = "eligible" => catalog'.eligible
  <2>1. CASE listing = "missing"
    BY <1>1, <2>1, MissedRow
  <2>2. CASE listing # "missing"
    BY <1>1, <2>2, ListedRow
  <2>3. QED BY <2>1, <2>2
<1>3. TypeOK'
  <2>1. active' \in 0 .. MaxLifecycle
    BY <1>1, <1>2, PipelineAssumption
  <2>2. QED BY <1>1, <1>2, <2>1 DEF Inv, TypeOK
<1>4. Rows'
  BY <1>1, <1>2, ActiveStates DEF Inv, TypeOK, Rows, Fenced, TokenMatchesRow
<1>5. Ledger'
  BY <1>1 DEF Inv, TypeOK, Ledger, Grounded, OneRowPerReady, Ready, OriginNamed
<1>6. QED BY <1>3, <1>4, <1>5 DEF Inv

LEMMA RefreshUnwrittenStep ==
  ASSUME Inv, NEW listing \in {"eligible", "ineligible", "missing"},
         RefreshUnwritten(listing)
  PROVE  Inv'
<1>1. /\ active' = IF listing = "eligible" THEN ActiveRow.lifecycle ELSE 0
      /\ eval' = [eval EXCEPT !.current = FALSE]
      /\ UNCHANGED <<catalog, snapshot, maint, head, notice, now, crashes, readFaults,
                     announced>>
  BY DEF RefreshUnwritten, Swap, boundVars
<1>2. /\ active' \in 0 .. MaxLifecycle
      /\ active' # 0 => Fenced(active')
  BY <1>1, ActiveRowFits, PipelineAssumption
<1>3. TypeOK'
  <2>1. eval' = [pc |-> eval.pc, lifecycle |-> eval.lifecycle, status |-> eval.status,
                 current |-> FALSE, at |-> eval.at, previous |-> eval.previous]
    BY <1>1 DEF Inv, TypeOK
  <2>2. eval' \in [pc : {"none", "queued", "analysing", "measured", "decided", "lost"},
                   lifecycle : 0 .. MaxLifecycle, status : Active, current : BOOLEAN,
                   at : 0 .. MaxNow, previous : Packet \cup {NoPacket}]
    BY <2>1 DEF Inv, TypeOK
  <2> QED BY <1>1, <1>2, <2>2 DEF Inv, TypeOK
<1>4. Rows'
  BY <1>1, <1>2 DEF Inv, TypeOK, Rows, Fenced, TokenMatchesRow
<1>5. Ledger'
  BY <1>1 DEF Inv, TypeOK, Ledger, Grounded, OneRowPerReady, Ready, OriginNamed
<1>6. QED BY <1>3, <1>4, <1>5 DEF Inv

-----------------------------------------------------------------------------
\* The steps that only move a snapshot, an evaluation's or the maintenance's
\* place, or a bound: the row, the ledger and the candidate stay.
Quiet ==
  /\ UNCHANGED <<catalog, active, head, announced>>
  /\ notice'.rows = notice.rows

\* What the variables that such a step moves must still satisfy.
LEMMA QuietStep ==
  ASSUME Inv, Quiet, TypeOK',
         OriginNamed(maint.head)', OriginNamed(eval.previous)',
         snapshot' # Inactive => snapshot'.lifecycle >= 1,
         eval'.pc # "none" => eval'.lifecycle >= 1,
         eval'.current => Fenced(eval'.lifecycle),
         eval'.pc \in {"decided", "lost"} => Grounded(eval'.previous)
  PROVE  Inv'
BY DEF Inv, Rows, Ledger, Quiet, Grounded, OriginNamed, OneRowPerReady, Ready, Fenced,
       TokenMatchesRow

\* The steps of the maintenance that append nothing.
LEMMA MaintenanceStep ==
  ASSUME Inv,
         BeginMaintenance \/ FetchCandidates \/ FetchFails \/ PassOver
           \/ ReadToInvalidate \/ MaintenanceFails
  PROVE  Inv'
<1>1. /\ UNCHANGED <<catalog, active, eval, head, notice, announced, now, crashes>>
      /\ snapshot' \in {snapshot, ActiveRow, Inactive}
      /\ \E pc \in {"idle", "expiring", "fetching", "reconciling", "invalidating"} :
           \/ maint' = [pc |-> pc, at |-> now, head |-> head]
           \/ maint' = NoMaintenance
           \/ maint' = [maint EXCEPT !.pc = pc]
      /\ readFaults' \in 0 .. MaxReadFaults
  BY PipelineAssumption
     DEF BeginMaintenance, FetchCandidates, FetchFails, PassOver, ReadToInvalidate,
         MaintenanceFails, MaintenanceAt, durableVars, boundVars, Inv, TypeOK
<1>2. /\ snapshot' \in [lifecycle : 0 .. MaxLifecycle, status : Active]
      /\ snapshot' # Inactive => snapshot'.lifecycle >= 1
  BY <1>1, ActiveRowFits, ActiveStates, PipelineAssumption DEF Inv, TypeOK, Rows, Inactive
<1>3. /\ maint' \in [pc : {"idle", "expiring", "fetching", "reconciling", "invalidating"},
                     at : 0 .. MaxNow, head : Packet \cup {NoPacket}]
      /\ OriginNamed(maint.head)'
  <2>1. /\ maint \in [pc : {"idle", "expiring", "fetching", "reconciling", "invalidating"},
                      at : 0 .. MaxNow, head : Packet \cup {NoPacket}]
        /\ now \in 0 .. MaxNow /\ head \in Packet \cup {NoPacket}
        /\ OriginNamed(head) /\ OriginNamed(maint.head)
    BY DEF Inv, TypeOK, Ledger
  <2>2. OriginNamed(NoPacket) /\ 0 \in 0 .. MaxNow
    BY PipelineAssumption DEF OriginNamed, NoPacket
  <2>3. PICK pc \in {"idle", "expiring", "fetching", "reconciling", "invalidating"} :
           \/ maint' = [pc |-> pc, at |-> now, head |-> head]
           \/ maint' = NoMaintenance
           \/ maint' = [maint EXCEPT !.pc = pc]
    BY <1>1
  <2>4. CASE maint' = [pc |-> pc, at |-> now, head |-> head]
    BY <2>1, <2>4 DEF OriginNamed
  <2>5. CASE maint' = NoMaintenance
    BY <2>2, <2>5 DEF OriginNamed, NoMaintenance
  <2>6. CASE maint' = [maint EXCEPT !.pc = pc]
    BY <2>1, <2>6 DEF OriginNamed
  <2>7. QED BY <2>3, <2>4, <2>5, <2>6
<1>4. TypeOK'
  BY <1>1, <1>2, <1>3 DEF Inv, TypeOK
<1>5. QED
  BY <1>1, <1>2, <1>3, <1>4, QuietStep
     DEF Quiet, Inv, Rows, Ledger, Grounded, OriginNamed, Fenced, TokenMatchesRow

\* The packets of the two reconciliations are grounded, and not ENTRY_READY.
LEMMA ReconciledPacket ==
  ASSUME Inv, maint.head.decision \in Actionable,
         NEW p \in {ExpiredPacket(maint.head), InvalidatedPacket(maint.head)}
  PROVE  /\ p \in Packet /\ OriginNamed(p)
         /\ ~Ready(p) /\ p.decision # "ACTIVE"
<1>1. maint.head \in Packet /\ maint.head.origin = "NONE"
  BY DEF Inv, TypeOK, Ledger, OriginNamed, Actionable, NoPacket
<1>2. /\ ExpiredPacket(maint.head) \in Packet /\ OriginNamed(ExpiredPacket(maint.head))
      /\ ~Ready(ExpiredPacket(maint.head)) /\ ExpiredPacket(maint.head).decision # "ACTIVE"
  BY <1>1 DEF ExpiredPacket, Packet, OriginNamed, Ready, Decision, Terminal, Reason
<1>3. /\ InvalidatedPacket(maint.head) \in Packet
      /\ OriginNamed(InvalidatedPacket(maint.head))
      /\ ~Ready(InvalidatedPacket(maint.head))
      /\ InvalidatedPacket(maint.head).decision # "ACTIVE"
  BY <1>1 DEF InvalidatedPacket, Packet, OriginNamed, Ready, Decision, Terminal, Reason
<1>4. QED BY <1>2, <1>3

\* A reconciliation appends beside an evaluation, whose previous packet stays
\* grounded because `announced' does not move.
LEMMA ReconcileStep ==
  ASSUME Inv, Expire \/ Invalidate
  PROVE  Inv'
<1>1. /\ UNCHANGED <<catalog, active, snapshot, eval, now, crashes, readFaults>>
      /\ maint' \in {NoMaintenance, [maint EXCEPT !.pc = "fetching"]}
  BY DEF Expire, Invalidate, MaintenanceAt, boundVars
<1>2. \/ UNCHANGED <<head, notice, announced>>
      \/ /\ maint.head.decision \in Actionable
         /\ \E p \in {ExpiredPacket(maint.head), InvalidatedPacket(maint.head)} : AppendIfChanged(p)
  BY DEF Expire, Invalidate, Expirable, Invalidatable
<1>3. /\ head' \in Packet \cup {NoPacket}
      /\ notice' \in [status : {"none", "queued", "sent", "dropped"},
                      newest : BOOLEAN, rows : 0 .. 1]
      /\ announced' = announced
      /\ OriginNamed(head)' /\ Grounded(head)' /\ OneRowPerReady'
  <2>1. CASE UNCHANGED <<head, notice, announced>>
    BY <2>1 DEF Inv, TypeOK, Ledger, OriginNamed, Grounded, OneRowPerReady, Ready
  <2>2. CASE /\ maint.head.decision \in Actionable
             /\ \E p \in {ExpiredPacket(maint.head), InvalidatedPacket(maint.head)} :
                  AppendIfChanged(p)
    <3>1. PICK p \in {ExpiredPacket(maint.head), InvalidatedPacket(maint.head)} : AppendIfChanged(p)
      BY <2>2
    <3>2. p \in Packet /\ OriginNamed(p) /\ ~Ready(p) /\ p.decision # "ACTIVE"
      BY <2>2, ReconciledPacket
    <3>3. QED BY <3>1, <3>2, AppendStep
  <2>3. QED BY <1>2, <2>1, <2>2
<1>4. /\ maint' \in [pc : {"idle", "expiring", "fetching", "reconciling", "invalidating"},
                     at : 0 .. MaxNow, head : Packet \cup {NoPacket}]
      /\ OriginNamed(maint.head)'
  <2>1. /\ maint \in [pc : {"idle", "expiring", "fetching", "reconciling", "invalidating"},
                      at : 0 .. MaxNow, head : Packet \cup {NoPacket}]
        /\ OriginNamed(maint.head)
    BY DEF Inv, TypeOK, Ledger
  <2>2. CASE maint' = NoMaintenance
    BY <2>2, PipelineAssumption DEF NoMaintenance, OriginNamed, NoPacket
  <2>3. CASE maint' = [maint EXCEPT !.pc = "fetching"]
    BY <2>1, <2>3 DEF OriginNamed
  <2>4. QED BY <1>1, <2>2, <2>3
<1>5. TypeOK'
  BY <1>1, <1>3, <1>4 DEF Inv, TypeOK
<1>6. Rows'
  BY <1>1 DEF Inv, Rows, Fenced, TokenMatchesRow
<1>7. Ledger'
  <2>1. eval.pc \in {"decided", "lost"} => Grounded(eval.previous)'
    BY <1>1, <1>3 DEF Inv, Ledger, Grounded
  <2>2. QED BY <1>1, <1>3, <1>4, <2>1 DEF Inv, Ledger, OriginNamed
<1>8. QED BY <1>5, <1>6, <1>7 DEF Inv

-----------------------------------------------------------------------------
EvalRecord ==
  [pc : {"none", "queued", "analysing", "measured", "decided", "lost"},
   lifecycle : 0 .. MaxLifecycle, status : Active, current : BOOLEAN,
   at : 0 .. MaxNow, previous : Packet \cup {NoPacket}]

LEMMA IdleEvaluation ==
  /\ NoEvaluation \in EvalRecord
  /\ OriginNamed(NoEvaluation.previous)
  /\ NoEvaluation.pc = "none" /\ NoEvaluation.current = FALSE
BY ActiveStates, PipelineAssumption DEF NoEvaluation, EvalRecord, OriginNamed, NoPacket

\* The steps of an evaluation up to its conclusion: the previous packet it takes
\* is the newest one, and its token is the candidate of the row's lifecycle.
LEMMA EvaluationStep ==
  ASSUME Inv,
         Dispatch \/ Start \/ Measure \/ ReadPrevious \/ LoseReference \/ Discard
  PROVE  Inv'
<1>1. /\ UNCHANGED <<catalog, active, snapshot, maint, head, notice, announced, now,
                     crashes, readFaults>>
      /\ eval \in EvalRecord /\ OriginNamed(eval.previous)
      /\ snapshot \in [lifecycle : 0 .. MaxLifecycle, status : Active]
      /\ head \in Packet \cup {NoPacket} /\ OriginNamed(head)
      /\ now \in 0 .. MaxNow
  BY DEF Dispatch, Start, Measure, ReadPrevious, LoseReference, Discard, durableVars,
         boundVars, Inv, TypeOK, Ledger, EvalRecord
<1>2. /\ eval' \in EvalRecord
      /\ OriginNamed(eval.previous)'
      /\ eval'.pc # "none" => eval'.lifecycle >= 1
      /\ eval'.current => Fenced(eval'.lifecycle)
      /\ eval'.pc \in {"decided", "lost"} => Grounded(eval'.previous)
  <2>1. CASE eval' = NoEvaluation
    BY <2>1, IdleEvaluation DEF OriginNamed
  <2>2. CASE Dispatch
    <3>1. eval' = [NoEvaluation EXCEPT !.pc = "queued", !.lifecycle = snapshot.lifecycle,
                                       !.status = snapshot.status]
      BY <2>2 DEF Dispatch
    <3>2. snapshot.lifecycle >= 1
      BY <2>2 DEF Dispatch, Inv, Rows
    <3>3. QED BY <3>1, <3>2, <1>1, IdleEvaluation DEF EvalRecord, OriginNamed
  <2>3. CASE Start /\ eval' # NoEvaluation
    <3>1. /\ eval.pc = "queued" /\ active = eval.lifecycle
          /\ eval' = [eval EXCEPT !.pc = "analysing", !.current = TRUE]
      BY <2>3 DEF Start
    <3>2. eval.lifecycle >= 1 /\ Fenced(eval.lifecycle)
      BY <3>1, <1>1 DEF Inv, Rows, EvalRecord
    <3>3. QED BY <1>1, <3>1, <3>2 DEF EvalRecord, OriginNamed
  <2>4. CASE Measure
    BY <2>4, <1>1 DEF Measure, EvalRecord, OriginNamed, Inv, Rows, TokenMatchesRow
  <2>5. CASE ReadPrevious
    BY <2>5, <1>1
       DEF ReadPrevious, EvalRecord, OriginNamed, Inv, Rows, Ledger, TokenMatchesRow, Grounded
  <2>6. CASE LoseReference
    BY <2>6, <1>1
       DEF LoseReference, EvalRecord, OriginNamed, Inv, Rows, Ledger, TokenMatchesRow, Grounded
  <2>7. CASE Discard
    BY <2>1, <2>7 DEF Discard
  <2>8. QED BY <2>1, <2>2, <2>3, <2>4, <2>5, <2>6, <2>7
<1>3. TypeOK'
  BY <1>1, <1>2 DEF Inv, TypeOK, EvalRecord
<1>4. QED
  BY <1>1, <1>2, <1>3, QuietStep DEF Quiet, Inv, Rows, Ledger, OriginNamed, Grounded, Fenced

\* What an evaluation appends: a packet of its own lifecycle, grounded if ACTIVE.
LEMMA ConcludedPacket ==
  ASSUME Inv, eval.pc \in {"decided", "lost"},
         NEW ev \in Evidence \cup {NoEvidence}, NEW status \in Active, NEW policy
  PROVE  LET p == Evaluated(eval.previous, ev, status, policy, eval.lifecycle, eval.at)
         IN /\ p \in Packet /\ OriginNamed(p)
            /\ p.decision = "ACTIVE" => announced = p.lifecycle
<1> DEFINE p == Evaluated(eval.previous, ev, status, policy, eval.lifecycle, eval.at)
<1>1. /\ eval.previous \in Packet \cup {NoPacket}
      /\ eval.lifecycle \in 1 .. MaxLifecycle
      /\ OriginNamed(eval.previous)
      /\ Grounded(eval.previous)
  BY PipelineAssumption DEF Inv, TypeOK, Rows, Ledger
<1>2. p \in Packet
  BY <1>1, ActiveStates, EvaluatedIsPacket
<1>3. OriginNamed(p)
  BY <1>1, EvaluatedNamesOrigin
<1>4. p.lifecycle = eval.lifecycle
  BY EvaluatedFields
<1>5. ASSUME p.decision = "ACTIVE" PROVE announced = p.lifecycle
  <2>1. HasPredecessor(eval.previous, eval.lifecycle)
    BY <1>5, ActiveHasPredecessor
  <2>2. QED BY <2>1, <1>1, <1>4 DEF HasPredecessor, Grounded
<1>6. QED BY <1>2, <1>3, <1>5

\* The end of an evaluation: its row and ledger writes, or none.
LEMMA ConcludeStep ==
  ASSUME Inv, NEW s \in Active, NEW q \in Packet, OriginNamed(q),
         q.decision = "ACTIVE" => announced = q.lifecycle,
         AppendIfChanged(q) \/ UNCHANGED <<head, notice, announced>>,
         catalog' = WithStatus(s) \/ catalog' = catalog,
         eval' = NoEvaluation,
         UNCHANGED <<active, snapshot, maint, now, crashes, readFaults>>
  PROVE  Inv'
<1>1. /\ head' \in Packet \cup {NoPacket}
      /\ notice' \in [status : {"none", "queued", "sent", "dropped"},
                      newest : BOOLEAN, rows : 0 .. 1]
      /\ announced' \in 0 .. MaxLifecycle
      /\ OriginNamed(head)' /\ Grounded(head)' /\ OneRowPerReady'
  <2>1. CASE UNCHANGED <<head, notice, announced>>
    BY <2>1 DEF Inv, TypeOK, Ledger, OriginNamed, Grounded, OneRowPerReady, Ready
  <2>2. CASE AppendIfChanged(q)
    BY <2>2, AppendStep DEF OriginNamed
  <2>3. QED BY <2>1, <2>2
<1>2. /\ catalog' \in [status : Active \cup {"ABSENT", "REMOVED"}, eligible : BOOLEAN,
                       lifecycle : 0 .. MaxLifecycle, missing : 0 .. 2]
      /\ (catalog'.status = "REMOVED") = (catalog'.missing = 2)
      /\ catalog'.eligible = catalog.eligible /\ catalog'.lifecycle = catalog.lifecycle
      /\ catalog'.eligible => catalog'.status \in Active
      /\ catalog'.status # "ABSENT" => catalog'.lifecycle >= 1
      /\ catalog.status # "REMOVED" => catalog'.status # "REMOVED"
  BY WithStatusRow
<1>3. TypeOK'
  BY <1>1, <1>2, IdleEvaluation DEF Inv, TypeOK, EvalRecord
<1>4. Rows'
  BY <1>2, IdleEvaluation DEF Inv, Rows, Fenced, TokenMatchesRow
<1>5. Ledger'
  BY <1>1, IdleEvaluation DEF Inv, Ledger, OriginNamed
<1>6. QED BY <1>3, <1>4, <1>5 DEF Inv

LEMMA ConclusionStep ==
  ASSUME Inv,
         \/ \E ev \in Evidence, policy \in Policies, a \in Analysis : Conclude(ev, policy, a)
         \/ ConcludeLost
  PROVE  Inv'
<1>1. ASSUME NEW ev \in Evidence, NEW policy \in Policies, NEW a \in Analysis,
             Conclude(ev, policy, a)
      PROVE  Inv'
  <2> DEFINE p == Evaluated(eval.previous, ev, a.status, policy, eval.lifecycle, eval.at)
  <2>1. a.status \in Active
    BY ActiveStates DEF Analysis, Active, Inv, TypeOK
  <2>2. /\ p \in Packet /\ OriginNamed(p)
        /\ p.decision = "ACTIVE" => announced = p.lifecycle
    BY <1>1, <2>1, ConcludedPacket DEF Conclude
  <2>3. PICK s \in Active : Written(ev, a) = WithStatus(s) \/ Written(ev, a) = catalog
    BY WrittenRow
  <2>4. /\ AppendIfChanged(p) \/ UNCHANGED <<head, notice, announced>>
        /\ catalog' = WithStatus(s) \/ catalog' = catalog
        /\ eval' = NoEvaluation
        /\ UNCHANGED <<active, snapshot, maint, now, crashes, readFaults>>
    BY <1>1, <2>3 DEF Conclude, boundVars
  <2>5. QED BY <2>2, <2>4, ConcludeStep
<1>2. ASSUME ConcludeLost PROVE Inv'
  <2> DEFINE p == Evaluated(eval.previous, NoEvidence, "WATCH", ShippedPolicy,
                            eval.lifecycle, eval.at)
  <2>1. /\ p \in Packet /\ OriginNamed(p)
        /\ p.decision = "ACTIVE" => announced = p.lifecycle
    BY <1>2, ConcludedPacket, ActiveStates DEF ConcludeLost
  <2>2. /\ AppendIfChanged(p) \/ UNCHANGED <<head, notice, announced>>
        /\ catalog' = WithStatus("WATCH") \/ catalog' = catalog
        /\ eval' = NoEvaluation
        /\ UNCHANGED <<active, snapshot, maint, now, crashes, readFaults>>
    BY <1>2 DEF ConcludeLost, boundVars
  <2>3. QED BY <2>1, <2>2, ConcludeStep, ActiveStates
<1>3. QED BY <1>1, <1>2

\* A delivery settles the row of the notice; the clock moves nothing else; a
\* crash forgets everything but the database.
LEMMA EnvironmentStep ==
  ASSUME Inv, Deliver \/ Tick \/ Crash
  PROVE  Inv'
<1>1. CASE Deliver
  <2>1. /\ UNCHANGED <<catalog, active, snapshot, eval, maint, head, announced, now,
                       crashes, readFaults>>
        /\ notice' \in {[notice EXCEPT !.status = "sent"],
                        [notice EXCEPT !.status = "dropped"]}
    BY <1>1 DEF Deliver, memoryVars, boundVars
  <2>2. /\ notice' \in [status : {"none", "queued", "sent", "dropped"},
                        newest : BOOLEAN, rows : 0 .. 1]
        /\ notice'.rows = notice.rows
    BY <2>1 DEF Inv, TypeOK
  <2>3. TypeOK'
    BY <2>1, <2>2 DEF Inv, TypeOK
  <2>4. Quiet
    BY <2>1, <2>2 DEF Quiet
  <2>5. QED
    BY <2>1, <2>3, <2>4, QuietStep
       DEF Inv, Rows, Ledger, OriginNamed, Grounded, Fenced, TokenMatchesRow
<1>2. CASE Tick
  <2>1. /\ UNCHANGED <<catalog, active, snapshot, eval, maint, head, notice, announced,
                       crashes, readFaults>>
        /\ now' \in 0 .. MaxNow
    BY <1>2, PipelineAssumption DEF Tick, durableVars, memoryVars, Inv, TypeOK
  <2>2. TypeOK'
    BY <2>1 DEF Inv, TypeOK
  <2>3. QED
    BY <2>1, <2>2, QuietStep
       DEF Quiet, Inv, Rows, Ledger, OriginNamed, Grounded, Fenced, TokenMatchesRow
<1>3. CASE Crash
  <2>1. /\ UNCHANGED <<catalog, head, notice, announced, now, readFaults>>
        /\ active' = 0 /\ snapshot' = Inactive
        /\ eval' = NoEvaluation /\ maint' = NoMaintenance
        /\ crashes' \in 0 .. MaxCrashes
    BY <1>3, PipelineAssumption DEF Crash, durableVars, Inv, TypeOK
  <2>2. /\ Inactive \in [lifecycle : 0 .. MaxLifecycle, status : Active]
        /\ NoMaintenance \in [pc : {"idle", "expiring", "fetching", "reconciling",
                                    "invalidating"},
                              at : 0 .. MaxNow, head : Packet \cup {NoPacket}]
        /\ 0 \in 0 .. MaxLifecycle
        /\ OriginNamed(NoMaintenance.head)
    BY ActiveStates, PipelineAssumption DEF Inactive, NoMaintenance, OriginNamed, NoPacket
  <2>3. TypeOK'
    BY <2>1, <2>2, IdleEvaluation DEF Inv, TypeOK, EvalRecord
  <2>4. Rows'
    BY <2>1, IdleEvaluation DEF Inv, Rows, TokenMatchesRow
  <2>5. Ledger'
    BY <2>1, <2>2, IdleEvaluation
       DEF Inv, Ledger, OriginNamed, Grounded, OneRowPerReady, Ready
  <2>6. QED BY <2>3, <2>4, <2>5 DEF Inv
<1>4. QED BY <1>1, <1>2, <1>3

LEMMA NextStep == Inv /\ [Next]_vars => Inv'
<1>1. SUFFICES ASSUME Inv, [Next]_vars PROVE Inv'
  OBVIOUS
<1>2. ASSUME NEW listing \in {"eligible", "ineligible", "missing"},
             Refresh(listing) \/ RefreshUnwritten(listing)
      PROVE  Inv'
  BY <1>1, <1>2, RefreshStep, RefreshUnwrittenStep
<1>3. CASE UNCHANGED vars
  BY <1>1, <1>3
     DEF vars, durableVars, memoryVars, boundVars, Inv, TypeOK, Rows, Ledger, OriginNamed,
         Grounded, OneRowPerReady, Ready, Fenced, TokenMatchesRow
<1>4. QED
  BY <1>1, <1>2, <1>3, MaintenanceStep, ReconcileStep, EvaluationStep, ConclusionStep,
     EnvironmentStep
     DEF Next

-----------------------------------------------------------------------------
\* The inductive invariant holds in every reachable state.
THEOREM PipelineInvariance == Spec => []Inv
<1>1. QED BY InitInv, NextStep, PTL DEF Spec

\* Every variable stays in its set, the packets of the ledger included: whatever
\* build_entry_decision returns is a well-formed packet.
THEOREM PipelineTypes == Spec => []TypeOK
<1>1. Inv => TypeOK
  BY DEF Inv
<1>2. QED BY <1>1, PipelineInvariance, PTL

\* An evaluation that passes the token check writes the state of its own
\* lifecycle, although the SQL that writes it compares no lifecycle.
THEOREM TokensMatch == Spec => []TokenMatchesRow
<1>1. Inv => TokenMatchesRow
  BY DEF Inv, Rows
<1>2. QED BY <1>1, PipelineInvariance, PTL

\* ACTIVE is recorded only for a lifecycle that had its ENTRY_READY, whatever
\* the reconciliation threads append while the evaluation decides.
THEOREM ActiveFollowsReady == Spec => []ActiveWasReady
<1>1. Inv => ActiveWasReady
  BY DEF Inv, Ledger, Grounded, Actionable, ActiveWasReady
<1>2. QED BY <1>1, PipelineInvariance, PTL

\* One outbox row announces a standing ENTRY_READY.
THEOREM OneNoticePerReady == Spec => []OneRowPerReady
<1>1. Inv => OneRowPerReady
  BY DEF Inv, Ledger
<1>2. QED BY <1>1, PipelineInvariance, PTL

\* The announcements agree with the ledger, for every number of listings, crashes and
\* failed reads.
THEOREM NoticesAgree == Spec => []NoticesMatchLedger
<1>1. Inv => NoticesMatchLedger
  BY DEF Inv, Ledger, Grounded, Actionable, ActiveWasReady, NoticesMatchLedger
<1>2. QED BY <1>1, PipelineInvariance, PTL

\* Every LATE packet, retained ones included, names the cause it had at first.
THEOREM LateIsExplained == Spec => []LateNamesItsOrigin
<1>1. Inv => LateNamesItsOrigin
  BY DEF Inv, Ledger, OriginNamed, LateNamesItsOrigin
<1>2. QED BY <1>1, PipelineInvariance, PTL

\* No packet is both actionable and blocked, as long as the settings leave the
\* freshness and the execution gate on.
THEOREM ActionableUnblocked ==
  ASSUME \A policy \in Policies : policy.freshness /\ policy.execution
  PROVE  Spec => []ActionableIsUnblocked
<1>1. Init => ActionableIsUnblocked
  BY DEF Init, ActionableIsUnblocked, NoPacket
<1>2. Inv /\ ActionableIsUnblocked /\ [Next]_vars => ActionableIsUnblocked'
  <2>1. SUFFICES ASSUME Inv, ActionableIsUnblocked, [Next]_vars
                 PROVE  ActionableIsUnblocked'
    OBVIOUS
  <2>2. CASE head' = head
    BY <2>1, <2>2 DEF ActionableIsUnblocked
  <2>3. ASSUME Expire \/ Invalidate PROVE ActionableIsUnblocked'
    <3>1. \/ head' = head
          \/ /\ maint.head.decision \in Actionable
             /\ head' \in {ExpiredPacket(maint.head), InvalidatedPacket(maint.head)}
      BY <2>3 DEF Expire, Invalidate, AppendIfChanged, Expirable, Invalidatable
    <3>2. head' = head \/ (~Ready(head)' /\ head'.decision # "ACTIVE")
      BY <2>1, <3>1, ReconciledPacket DEF Ready
    <3>3. QED BY <3>2, <2>2 DEF ActionableIsUnblocked, Ready, Actionable
  <2>4. ASSUME NEW ev \in Evidence, NEW policy \in Policies, NEW a \in Analysis,
               Conclude(ev, policy, a)
        PROVE  ActionableIsUnblocked'
    <3> DEFINE p == Evaluated(eval.previous, ev, a.status, policy, eval.lifecycle, eval.at)
    <3>1. head' = p \/ head' = head
      BY <2>4 DEF Conclude, AppendIfChanged
    <3>2. p.decision \in Actionable => p.reasons = {}
      BY ActionableHasNoReasons
    <3>3. QED BY <3>1, <3>2, <2>2 DEF ActionableIsUnblocked
  <2>5. ASSUME ConcludeLost PROVE ActionableIsUnblocked'
    <3> DEFINE p == Evaluated(eval.previous, NoEvidence, "WATCH", ShippedPolicy,
                              eval.lifecycle, eval.at)
    <3>1. head' = p \/ head' = head
      BY <2>5 DEF ConcludeLost, AppendIfChanged
    <3>2. p.decision \in Actionable => p.reasons = {}
      BY ActionableHasNoReasons DEF ShippedPolicy
    <3>3. QED BY <3>1, <3>2, <2>2 DEF ActionableIsUnblocked
  <2>6. QED
    BY <2>1, <2>2, <2>3, <2>4, <2>5
       DEF Next, vars, durableVars, Refresh, RefreshUnwritten, BeginMaintenance,
           FetchCandidates, FetchFails, PassOver, ReadToInvalidate, MaintenanceFails,
           Dispatch, Start, Measure, ReadPrevious, LoseReference, Discard, Deliver,
           Tick, Crash
<1>3. QED BY <1>1, <1>2, PipelineInvariance, PTL DEF Spec

-----------------------------------------------------------------------------
(***************************************************************************)
(* Who has left the universe.  A lifecycle that is over never comes back:  *)
(* the row has gone on from it, or will when it is listed again (Gone).    *)
(* Once the loop has found no candidate, neither the newest packet nor an  *)
(* evaluation in flight is of a lifecycle that can still be written, so    *)
(* that what the invalidation read is still the newest packet when it      *)
(* appends (Universe).  A read of the candidates that fails is taken for   *)
(* an empty universe and breaks this; the theorems are about none.         *)
(***************************************************************************)

Gone(l) == l < catalog.lifecycle \/ (l = catalog.lifecycle /\ ~catalog.eligible)

WasLeft(p) == p.reasons = {"NO_LONGER_ACTIVE"} => Gone(p.lifecycle)

Leaving == maint.pc = "invalidating" \/ (maint.pc = "reconciling" /\ snapshot = Inactive)

Universe ==
  /\ catalog.status = "ABSENT" => catalog.lifecycle = 0
  /\ \A l \in {head.lifecycle, maint.head.lifecycle, eval.lifecycle, snapshot.lifecycle} :
       l <= catalog.lifecycle
  /\ WasLeft(head) /\ WasLeft(eval.previous)
  /\ Leaving => Gone(head.lifecycle) /\ (eval.pc # "none" => Gone(eval.lifecycle))
  /\ maint.pc = "invalidating" => maint.head = head

LEMMA LifecyclesAreNumbers ==
  ASSUME TypeOK
  PROVE  /\ catalog.lifecycle \in Nat /\ head.lifecycle \in Nat /\ maint.head.lifecycle \in Nat
         /\ eval.lifecycle \in Nat /\ eval.previous.lifecycle \in Nat
         /\ snapshot.lifecycle \in Nat
<1>1. \A p \in Packet \cup {NoPacket} : p.lifecycle \in Nat
  BY PipelineAssumption DEF Packet, NoPacket
<1> QED BY <1>1, PipelineAssumption DEF TypeOK

\* What is gone is not written any more, and a refresh brings nothing back.
LEMMA GoneIsUnfenced == ASSUME NEW l, TypeOK, Gone(l) PROVE ~Fenced(l)
  BY LifecyclesAreNumbers DEF Gone, Fenced

LEMMA RefreshGoesOn ==
  ASSUME Inv, Universe, NEW listing \in {"eligible", "ineligible", "missing"}, Refresh(listing)
  PROVE  /\ catalog.lifecycle <= catalog'.lifecycle
         /\ catalog'.status = "ABSENT" => catalog'.lifecycle = 0
         /\ \A l \in Nat : Gone(l) => Gone(l)'
<1>1. catalog' = IF listing = "missing" THEN Missed ELSE Listed(listing = "eligible")
  BY DEF Refresh
<1>2. /\ catalog \in [status : Active \cup {"ABSENT", "REMOVED"}, eligible : BOOLEAN,
                      lifecycle : 0 .. MaxLifecycle, missing : 0 .. 2]
      /\ catalog.eligible => catalog.status \in Active
      /\ catalog.status = "ABSENT" => catalog.lifecycle = 0
      /\ catalog.lifecycle \in Nat
  BY LifecyclesAreNumbers DEF Inv, TypeOK, Rows, Universe
<1>3. CASE listing = "missing"
  <2>1. /\ catalog'.lifecycle = catalog.lifecycle /\ (catalog'.eligible => catalog.eligible)
        /\ catalog'.status = "ABSENT" => catalog.status = "ABSENT"
    BY <1>1, <1>2, <1>3 DEF Missed
  <2> QED BY <1>2, <2>1 DEF Gone
<1>4. CASE listing # "missing"
  <2> DEFINE wanted == listing = "eligible"
  <2>1. catalog' = Listed(wanted)
    BY <1>1, <1>4
  <2>2. CASE catalog.status \in {"ABSENT", "REMOVED"} \/ catalog.eligible # wanted
    <3>1. catalog' = Fresh(wanted, catalog.lifecycle + 1)
      BY <1>2, <2>1, <2>2 DEF Listed
    <3>2. catalog'.lifecycle = catalog.lifecycle + 1 /\ catalog'.status = "WATCH"
      BY <3>1 DEF Fresh
    <3> QED BY <1>2, <3>2 DEF Gone
  <2>3. CASE ~(catalog.status \in {"ABSENT", "REMOVED"} \/ catalog.eligible # wanted)
    <3>1. catalog' = [catalog EXCEPT !.missing = 0]
      BY <2>1, <2>3 DEF Listed
    <3>2. /\ catalog'.lifecycle = catalog.lifecycle /\ catalog'.eligible = catalog.eligible
          /\ catalog'.status = catalog.status
      BY <1>2, <3>1
    <3> QED BY <1>2, <3>2 DEF Gone
  <2> QED BY <2>2, <2>3
<1> QED BY <1>3, <1>4

\* Where the row is what it was or has gone on, and the ledger and the evaluation stay.
LEMMA UniverseStays ==
  ASSUME Inv, Universe, UNCHANGED <<head, maint, snapshot>>,
         eval'.lifecycle = eval.lifecycle, eval'.pc = eval.pc, eval'.previous = eval.previous,
         catalog.lifecycle <= catalog'.lifecycle, catalog'.lifecycle \in Nat,
         catalog'.status = "ABSENT" => catalog'.lifecycle = 0,
         \A l \in Nat : Gone(l) => Gone(l)'
  PROVE  Universe'
<1>1. /\ catalog.lifecycle \in Nat /\ head.lifecycle \in Nat /\ maint.head.lifecycle \in Nat
      /\ eval.lifecycle \in Nat /\ eval.previous.lifecycle \in Nat
      /\ snapshot.lifecycle \in Nat
  BY LifecyclesAreNumbers DEF Inv
<1>2. WasLeft(head)' /\ WasLeft(eval.previous)'
  BY <1>1 DEF Universe, WasLeft
<1>3. Leaving' => Gone(head.lifecycle)' /\ (eval'.pc # "none" => Gone(eval.lifecycle)')
  BY <1>1 DEF Universe, Leaving
<1>4. \A l \in {head'.lifecycle, maint'.head.lifecycle, eval'.lifecycle, snapshot'.lifecycle} :
        l <= catalog'.lifecycle
  BY <1>1 DEF Universe
<1> QED BY <1>2, <1>3, <1>4 DEF Universe

LEMMA UniverseRefresh ==
  ASSUME Inv, Inv', Universe, NEW listing \in {"eligible", "ineligible", "missing"},
         Refresh(listing) \/ RefreshUnwritten(listing)
  PROVE  Universe'
<1>1. /\ UNCHANGED <<head, maint, snapshot>>
      /\ eval'.lifecycle = eval.lifecycle /\ eval'.pc = eval.pc /\ eval'.previous = eval.previous
  BY DEF Refresh, RefreshUnwritten, Swap, Inv, TypeOK
<1>2. catalog.lifecycle \in Nat /\ catalog'.lifecycle \in Nat
  BY LifecyclesAreNumbers, PipelineAssumption DEF Inv, TypeOK
<1>3. CASE Refresh(listing)
  BY <1>1, <1>2, <1>3, RefreshGoesOn, UniverseStays
<1>4. CASE RefreshUnwritten(listing)
  <2>1. catalog' = catalog
    BY <1>4 DEF RefreshUnwritten
  <2>2. /\ catalog.lifecycle <= catalog'.lifecycle
        /\ catalog'.status = "ABSENT" => catalog'.lifecycle = 0
        /\ \A l \in Nat : Gone(l) => Gone(l)'
    BY <1>2, <2>1 DEF Universe, Gone
  <2> QED BY <1>1, <1>2, <2>2, UniverseStays
<1> QED BY <1>3, <1>4

LEMMA UniverseInitially == Init => Universe
  BY DEF Init, Universe, WasLeft, Leaving, Inactive, NoEvaluation, NoMaintenance, NoPacket

\* No candidate was found because the row is not eligible.
LEMMA NobodyIsGone ==
  ASSUME Inv, Universe, ActiveRow = Inactive
  PROVE  Gone(head.lifecycle) /\ Gone(eval.lifecycle)
<1>1. ~catalog.eligible
  BY ActiveStates DEF Inv, Rows, ActiveRow, Inactive, TypeOK
<1> QED BY <1>1, LifecyclesAreNumbers DEF Universe, Gone, Inv

LEMMA UniverseMaintenance ==
  ASSUME Inv, Universe, MaxReadFaults = 0,
         BeginMaintenance \/ FetchCandidates \/ FetchFails \/ PassOver
           \/ ReadToInvalidate \/ MaintenanceFails
  PROVE  Universe'
<1>1. UNCHANGED <<catalog, head, eval>>
  BY DEF BeginMaintenance, FetchCandidates, FetchFails, PassOver, ReadToInvalidate,
         MaintenanceFails, durableVars
<1>2. ~FetchFails
  BY DEF FetchFails, Inv, TypeOK
<1>3. /\ catalog.lifecycle \in Nat /\ head.lifecycle \in Nat /\ maint.head.lifecycle \in Nat
      /\ NoMaintenance.head.lifecycle = 0
  BY LifecyclesAreNumbers DEF Inv, NoMaintenance, NoPacket
<1>4. /\ WasLeft(head)' /\ WasLeft(eval.previous)'
      /\ catalog'.status = "ABSENT" => catalog'.lifecycle = 0
  BY <1>1 DEF Universe, WasLeft, Gone
<1>5. CASE FetchCandidates
  <2>1. snapshot' = ActiveRow /\ maint' = [maint EXCEPT !.pc = "reconciling"]
    BY <1>5 DEF FetchCandidates, MaintenanceAt
  <2>2. maint'.pc = "reconciling" /\ maint'.head = maint.head
    BY <2>1 DEF Inv, TypeOK
  <2>3. snapshot'.lifecycle <= catalog.lifecycle
    BY <1>3, <2>1 DEF ActiveRow, Inactive
  <2>4. snapshot' = Inactive => Gone(head.lifecycle) /\ Gone(eval.lifecycle)
    BY <2>1, NobodyIsGone
  <2> QED BY <1>1, <1>4, <2>2, <2>3, <2>4 DEF Universe, Leaving, Gone
<1>6. CASE ReadToInvalidate
  <2>1. /\ maint' = [pc |-> "invalidating", at |-> now, head |-> head]
        /\ snapshot' = snapshot /\ Leaving
    BY <1>6 DEF ReadToInvalidate, Leaving
  <2> QED BY <1>1, <1>4, <2>1 DEF Universe, Leaving, Gone
<1>7. CASE BeginMaintenance
  <2>1. maint' = [pc |-> "expiring", at |-> now, head |-> head] /\ snapshot' = snapshot
    BY <1>7 DEF BeginMaintenance
  <2> QED BY <1>1, <1>4, <2>1 DEF Universe, Leaving
<1>8. CASE PassOver \/ MaintenanceFails
  <2>1. maint' = NoMaintenance /\ snapshot' = snapshot
    BY <1>8 DEF PassOver, MaintenanceFails
  <2>2. maint'.pc = "idle" /\ maint'.head.lifecycle = 0
    BY <2>1, <1>3 DEF NoMaintenance
  <2> QED BY <1>1, <1>3, <1>4, <2>1, <2>2 DEF Universe, Leaving
<1> QED BY <1>2, <1>5, <1>6, <1>7, <1>8

LEMMA UniverseReconciled ==
  ASSUME Inv, Universe, Expire \/ Invalidate  PROVE  Universe'
<1>1. UNCHANGED <<catalog, snapshot, eval>>
  BY DEF Expire, Invalidate
<1>2. /\ catalog.lifecycle \in Nat /\ head.lifecycle \in Nat /\ maint.head.lifecycle \in Nat
      /\ NoMaintenance.head.lifecycle = 0 /\ NoMaintenance.pc = "idle"
  BY LifecyclesAreNumbers DEF Inv, NoMaintenance, NoPacket
<1>3. CASE Expire
  <2>1. maint'.pc = "fetching" /\ maint'.head = maint.head
    BY <1>3 DEF Expire, MaintenanceAt, Inv, TypeOK
  <2>2. \/ head' = head
        \/ maint.head.decision \in Actionable /\ head' = ExpiredPacket(maint.head)
    BY <1>3 DEF Expire, Expirable, AppendIfChanged
  <2>3. \/ head' = head
        \/ head'.reasons = {"PLAN_EXPIRED"} /\ head'.lifecycle = maint.head.lifecycle
    <3>1. maint.head.decision \in Actionable => maint.head \in Packet
      BY DEF Inv, TypeOK, Actionable, NoPacket
    <3> QED BY <2>2, <3>1 DEF ExpiredPacket, Packet
  <2>4. WasLeft(head)' /\ WasLeft(eval.previous)'
    BY <1>1, <2>3 DEF Universe, WasLeft, Gone
  <2> QED BY <1>1, <2>1, <2>3, <2>4 DEF Universe, Leaving
<1>4. CASE Invalidate
  <2>1. maint' = NoMaintenance /\ maint.head = head /\ Gone(head.lifecycle)
    BY <1>4 DEF Invalidate, Universe, Leaving
  <2>2. head' = head \/ (head' = InvalidatedPacket(head) /\ head.decision \in Actionable)
    BY <1>4, <2>1 DEF Invalidate, Invalidatable, AppendIfChanged
  <2>3. head'.lifecycle = head.lifecycle
    <3>1. head.decision \in Actionable => head \in Packet
      BY DEF Inv, TypeOK, Actionable, NoPacket
    <3> QED BY <2>2, <3>1 DEF InvalidatedPacket, Packet
  <2>4. WasLeft(head)' /\ WasLeft(eval.previous)'
    BY <1>1, <2>1, <2>3 DEF Universe, WasLeft, Gone
  <2>5. maint'.pc = "idle" /\ maint'.head.lifecycle = 0
    BY <1>2, <2>1
  <2> QED BY <1>1, <1>2, <2>3, <2>4, <2>5 DEF Universe, Leaving
<1> QED BY <1>3, <1>4

LEMMA UniverseEvaluation ==
  ASSUME Inv, Universe,
         Dispatch \/ Start \/ Measure \/ ReadPrevious \/ LoseReference \/ Discard
  PROVE  Universe'
<1>1. UNCHANGED <<catalog, head, snapshot, maint>>
  BY DEF Dispatch, Start, Measure, ReadPrevious, LoseReference, Discard, durableVars
<1>2. /\ catalog.lifecycle \in Nat
      /\ NoEvaluation.lifecycle = 0 /\ NoEvaluation.pc = "none" /\ NoEvaluation.previous = NoPacket
      /\ NoPacket.reasons = {}
  BY LifecyclesAreNumbers DEF Inv, NoEvaluation, NoPacket
<1>3. eval'.previous \in {eval.previous, head, NoPacket}
  <2>1. eval \in EvalRecord /\ NoEvaluation \in EvalRecord
    BY IdleEvaluation DEF Inv, TypeOK, EvalRecord
  <2>2. CASE Dispatch
    BY <2>1, <2>2, <1>2 DEF Dispatch, EvalRecord
  <2>3. CASE Start \/ Discard
    BY <2>1, <2>3, <1>2 DEF Start, Discard, EvalRecord
  <2>4. CASE Measure
    BY <2>1, <2>4 DEF Measure, EvalRecord
  <2>5. CASE ReadPrevious \/ LoseReference
    BY <2>1, <2>5 DEF ReadPrevious, LoseReference, EvalRecord
  <2> QED BY <2>2, <2>3, <2>4, <2>5
<1>4. WasLeft(head)' /\ WasLeft(eval.previous)'
  BY <1>1, <1>2, <1>3 DEF Universe, WasLeft, Gone
<1>5. \/ eval'.lifecycle = eval.lifecycle /\ eval.pc # "none"
      \/ eval'.lifecycle = 0 /\ eval'.pc = "none"
      \/ eval'.lifecycle = snapshot.lifecycle /\ maint.pc = "idle"
  BY <1>2 DEF Dispatch, Start, Measure, ReadPrevious, LoseReference, Discard, NoEvaluation,
              Inv, TypeOK
<1> QED BY <1>1, <1>2, <1>4, <1>5 DEF Universe, Leaving, Gone

\* The reason is only retained, of a packet of the same lifecycle.
LEMMA EvaluatedLeft ==
  ASSUME NEW previous, NEW ev, NEW status, NEW policy, NEW lifecycle, NEW time,
         Evaluated(previous, ev, status, policy, lifecycle, time).reasons = {"NO_LONGER_ACTIVE"}
  PROVE  /\ previous.reasons = {"NO_LONGER_ACTIVE"}
         /\ previous = NoPacket \/ previous.lifecycle = lifecycle
<1> DEFINE current == Current(previous, ev, status, policy, lifecycle, time)
           verdict == Verdict(previous, ev, status, policy, lifecycle, time)
           settled == Transition(previous, current, lifecycle, time)
<1>1. "NO_LONGER_ACTIVE" \notin verdict.reasons
  BY DEF Verdict, Predecessor, BlockReasons, If
<1>2. "NO_LONGER_ACTIVE" \notin current.reasons
  BY <1>1 DEF Current, Outcome
<1>3. settled.reasons = {"NO_LONGER_ACTIVE"}
  BY DEF Evaluated, Current, Verdict
<1>4. RetainsTerminal(previous, current.decision, lifecycle)
  BY <1>2, <1>3 DEF Transition, Outcome
<1>5. settled = Retained(previous, current)
  BY <1>4 DEF Transition, RetainsTerminal, Terminal, Actionable
<1>6. previous.reasons = {"NO_LONGER_ACTIVE"}
  BY <1>2, <1>3, <1>5 DEF Retained, Outcome
<1> QED BY <1>4, <1>6 DEF RetainsTerminal, DistinctLifecycle

\* What an evaluation appends is of the row's own lifecycle, which is not over.
LEMMA UniverseConclusion ==
  ASSUME Inv, Universe, NEW s \in Active, NEW ev, NEW status, NEW policy, NEW p,
         p = Evaluated(eval.previous, ev, status, policy, eval.lifecycle, eval.at),
         \/ Fenced(eval.lifecycle) /\ AppendIfChanged(p)
         \/ UNCHANGED head,
         eval.pc # "none", catalog' = WithStatus(s) \/ catalog' = catalog, eval' = NoEvaluation,
         UNCHANGED <<snapshot, maint>>
  PROVE  /\ Universe'
         /\ head' # head => /\ head'.lifecycle = catalog.lifecycle
                           /\ head'.reasons # {"NO_LONGER_ACTIVE"}
<1>1. /\ catalog'.lifecycle = catalog.lifecycle /\ catalog'.eligible = catalog.eligible
      /\ catalog'.status = "ABSENT" => catalog.status = "ABSENT"
  <2>1. CASE catalog' = catalog
    BY <2>1
  <2>2. CASE catalog' # catalog
    BY <2>2, ActiveStates DEF WithStatus, Inv, TypeOK
  <2> QED BY <2>1, <2>2
<1>2. /\ catalog.lifecycle \in Nat /\ head.lifecycle \in Nat /\ maint.head.lifecycle \in Nat
      /\ NoEvaluation.lifecycle = 0 /\ NoEvaluation.pc = "none" /\ NoEvaluation.previous = NoPacket
      /\ NoPacket.reasons = {}
  BY LifecyclesAreNumbers DEF Inv, NoEvaluation, NoPacket
<1>3. Gone(eval.lifecycle) => ~Fenced(eval.lifecycle)
  BY GoneIsUnfenced DEF Inv
<1>4. \A l : Gone(l)' = Gone(l)
  BY <1>1 DEF Gone
<1>5. CASE head' = head
  <2>1. WasLeft(head)' /\ WasLeft(eval.previous)'
    BY <1>2, <1>4, <1>5 DEF Universe, WasLeft
  <2> QED BY <1>1, <1>2, <1>4, <1>5, <2>1 DEF Universe, Leaving
<1>6. CASE head' # head
  <2>1. Fenced(eval.lifecycle) /\ head' = p
    BY <1>6 DEF AppendIfChanged
  <2>2. p.lifecycle = eval.lifecycle /\ eval.lifecycle = catalog.lifecycle
    BY <2>1, EvaluatedFields DEF Fenced
  <2>3. ~Gone(eval.lifecycle) /\ ~Leaving
    BY <1>3, <2>1 DEF Universe
  <2>4. p.reasons # {"NO_LONGER_ACTIVE"}
    <3>1. SUFFICES ASSUME p.reasons = {"NO_LONGER_ACTIVE"} PROVE FALSE
      OBVIOUS
    <3>2. /\ eval.previous.reasons = {"NO_LONGER_ACTIVE"}
          /\ eval.previous = NoPacket \/ eval.previous.lifecycle = eval.lifecycle
      BY <3>1, EvaluatedLeft
    <3> QED BY <1>2, <2>3, <3>2 DEF Universe, WasLeft
  <2>5. WasLeft(head)' /\ WasLeft(eval.previous)' /\ ~Leaving'
    BY <1>2, <2>1, <2>3, <2>4 DEF WasLeft, Leaving
  <2>6. maint'.pc # "invalidating"
    BY <2>3 DEF Leaving
  <2> QED BY <1>1, <1>2, <2>1, <2>2, <2>4, <2>5, <2>6 DEF Universe
<1> QED BY <1>5, <1>6

LEMMA UniverseConcluded ==
  ASSUME Inv, Universe,
         \/ \E ev \in Evidence, policy \in Policies, a \in Analysis : Conclude(ev, policy, a)
         \/ ConcludeLost
  PROVE  /\ Universe'
         /\ head' # head => /\ head'.lifecycle = catalog.lifecycle
                           /\ head'.reasons # {"NO_LONGER_ACTIVE"}
<1>1. ASSUME NEW ev \in Evidence, NEW policy \in Policies, NEW a \in Analysis,
             Conclude(ev, policy, a)
      PROVE  /\ Universe'
             /\ head' # head => /\ head'.lifecycle = catalog.lifecycle
                               /\ head'.reasons # {"NO_LONGER_ACTIVE"}
  <2> DEFINE p == Evaluated(eval.previous, ev, a.status, policy, eval.lifecycle, eval.at)
  <2>1. PICK s \in Active : Written(ev, a) = WithStatus(s) \/ Written(ev, a) = catalog
    BY WrittenRow
  <2>2. /\ \/ Fenced(eval.lifecycle) /\ AppendIfChanged(p)
           \/ UNCHANGED head
        /\ catalog' = WithStatus(s) \/ catalog' = catalog
        /\ eval.pc # "none" /\ eval' = NoEvaluation /\ UNCHANGED <<snapshot, maint>>
    BY <1>1, <2>1 DEF Conclude
  <2> HIDE DEF p
  <2>3. p = Evaluated(eval.previous, ev, a.status, policy, eval.lifecycle, eval.at)
    BY DEF p
  <2> QED BY <2>2, <2>3, UniverseConclusion
<1>2. ASSUME ConcludeLost
      PROVE  /\ Universe'
             /\ head' # head => /\ head'.lifecycle = catalog.lifecycle
                               /\ head'.reasons # {"NO_LONGER_ACTIVE"}
  <2> DEFINE p == Evaluated(eval.previous, NoEvidence, "WATCH", ShippedPolicy, eval.lifecycle,
                            eval.at)
  <2>1. /\ \/ Fenced(eval.lifecycle) /\ AppendIfChanged(p)
           \/ UNCHANGED head
        /\ catalog' = WithStatus("WATCH") \/ catalog' = catalog
        /\ eval.pc # "none" /\ eval' = NoEvaluation /\ UNCHANGED <<snapshot, maint>>
    BY <1>2 DEF ConcludeLost
  <2> HIDE DEF p
  <2>2. p = Evaluated(eval.previous, NoEvidence, "WATCH", ShippedPolicy, eval.lifecycle, eval.at)
    BY DEF p
  <2> QED BY <2>1, <2>2, UniverseConclusion, ActiveStates
<1> QED BY <1>1, <1>2

LEMMA UniverseEnvironment ==
  ASSUME Inv, Universe, Deliver \/ Tick \/ Crash \/ UNCHANGED vars  PROVE Universe'
<1>1. UNCHANGED <<catalog, head>>
  BY DEF Deliver, Tick, Crash, durableVars, vars
<1>2. CASE Deliver \/ Tick \/ UNCHANGED vars
  BY <1>1, <1>2 DEF Deliver, Tick, vars, memoryVars, Universe, WasLeft, Gone, Leaving
<1>3. CASE Crash
  <2>1. /\ snapshot' = Inactive /\ eval' = NoEvaluation /\ maint' = NoMaintenance
        /\ catalog.lifecycle \in Nat
    BY <1>3, LifecyclesAreNumbers DEF Crash, Inv
  <2> QED BY <1>1, <2>1 DEF Universe, WasLeft, Gone, Leaving, Inactive, NoEvaluation, NoMaintenance,
                            NoPacket
<1> QED BY <1>2, <1>3

LEMMA UniverseStep ==
  ASSUME MaxReadFaults = 0, Inv, Universe, [Next]_vars  PROVE Universe'
<1>1. Inv'
  BY NextStep
<1> QED BY <1>1, UniverseRefresh, UniverseMaintenance, UniverseReconciled, UniverseEvaluation,
           UniverseConcluded, UniverseEnvironment
        DEF Next

\* What a step appends is of a lifecycle that is not older than the newest packet's, unless
\* it expires; and it says that the symbol has left only of a lifecycle that is over.
Appends ==
  /\ head'.lifecycle < head.lifecycle => head'.decision = "EXPIRED"
  /\ head'.reasons = {"NO_LONGER_ACTIVE"} => ~Fenced(head'.lifecycle)

LEMMA AppendsStep == ASSUME Inv, Universe, [Next]_vars PROVE [Appends]_head
<1> SUFFICES ASSUME Next, head' # head PROVE Appends
  BY DEF vars, durableVars
<1>1. /\ catalog.lifecycle \in Nat /\ head.lifecycle \in Nat /\ head.lifecycle <= catalog.lifecycle
  BY LifecyclesAreNumbers DEF Inv, Universe
<1>2. CASE Expire
  <2>1. maint.head.decision \in Actionable /\ head' = ExpiredPacket(maint.head)
    BY <1>2 DEF Expire, Expirable, AppendIfChanged
  <2>2. maint.head \in Packet
    BY <2>1 DEF Inv, TypeOK, Actionable, NoPacket
  <2> QED BY <2>1, <2>2 DEF ExpiredPacket, Packet, Appends
<1>3. CASE Invalidate
  <2>1. /\ maint.head = head /\ Gone(head.lifecycle)
        /\ head.decision \in Actionable /\ head' = InvalidatedPacket(head)
    BY <1>3 DEF Invalidate, Invalidatable, AppendIfChanged, Universe, Leaving
  <2>2. head \in Packet
    BY <2>1 DEF Inv, TypeOK, Actionable, NoPacket
  <2>3. head'.lifecycle = head.lifecycle
    BY <2>1, <2>2 DEF InvalidatedPacket, Packet
  <2> QED BY <1>1, <2>1, <2>3, GoneIsUnfenced DEF Appends, Inv
<1>4. CASE \/ \E ev \in Evidence, policy \in Policies, a \in Analysis : Conclude(ev, policy, a)
           \/ ConcludeLost
  BY <1>1, <1>4, UniverseConcluded DEF Appends
<1> QED
  BY <1>2, <1>3, <1>4
  DEF Next, Refresh, RefreshUnwritten, BeginMaintenance, FetchCandidates, FetchFails, PassOver,
      ReadToInvalidate, MaintenanceFails, Dispatch, Start, Measure, ReadPrevious, LoseReference,
      Discard, Deliver, Tick, Crash, durableVars

LEMMA AppendsFit ==
  ASSUME MaxReadFaults = 0  PROVE Spec => [][Appends]_head
<1>1. Init => Inv /\ Universe
  BY InitInv, UniverseInitially
<1>2. Inv /\ Universe /\ [Next]_vars => (Inv /\ Universe)'
  BY NextStep, UniverseStep
<1>3. Inv /\ Universe /\ [Next]_vars => [Appends]_head
  BY AppendsStep
<1> QED BY <1>1, <1>2, <1>3, PTL DEF Spec

\* The ledger never goes back to an older listing, but for a plan that expires, as long as
\* no read of the candidates fails (_reconcile_inactive_actionable_decisions).
THEOREM NeverGoesBack == ASSUME MaxReadFaults = 0 PROVE Spec => LifecyclesNeverGoBack
<1>1. [Appends]_head => [head'.lifecycle < head.lifecycle => head'.decision = "EXPIRED"]_head
  BY DEF Appends
<1> QED BY <1>1, AppendsFit, PTL DEF LifecyclesNeverGoBack

\* A decision is withdrawn as no longer active only when its listing is over or not
\* eligible, as long as no read of the candidates fails.
THEOREM WithdrawnOutside == ASSUME MaxReadFaults = 0 PROVE Spec => InvalidatedOutsideUniverse
<1>1. [Appends]_head => [head'.reasons = {"NO_LONGER_ACTIVE"} => ~Fenced(head'.lifecycle)]_head
  BY DEF Appends
<1> QED BY <1>1, AppendsFit, PTL DEF InvalidatedOutsideUniverse
=============================================================================
