------------------------- MODULE SignalQualification -------------------------
(***************************************************************************)
(* What qualifies a candidate for a signal: the validator                   *)
(* (core/multi_exchange_validator.py, cross_check_symbol) with its         *)
(* candles, gates and scores (candle_analyzer.py, channel_strategy.py,      *)
(* score_v2.py), the WATCH prefilter of main.py, and the stages that are    *)
(* remembered between evaluations (core/stage_lifecycle.py).               *)
(*                                                                         *)
(* One candidate is followed.  It is evaluated by one task at a time; the  *)
(* clock of the host may be set back, the universe be refreshed and the    *)
(* process be killed between any two steps.  Numbers are classes.          *)
(***************************************************************************)
EXTENDS Naturals, Sequences, FiniteSets

CONSTANTS
  Venues,                           \* how many exchanges list the contract
  HypeTtl, DamageTtl, SetupTtl,     \* lifetimes of the stages
  MaxTime, MaxListings, MaxAdvances, MaxSetBacks   \* bounds

VARIABLES
  hour,          \* time.time()
  listing,       \* [lifecycle, eligible]: the candidate's row of the catalogue
  watched,       \* its state is WATCH
  stageRow,      \* lbank_stage_lifecycle: times of the stages, in this lifecycle
  advances,      \* history: what was recorded in this lifecycle, each time and the
                 \* stages of it that a row can remember: [at, stages]
  evaluation,    \* of the task: [pc, lifecycle, venue, stages, at, chain, result]
  setBacks

vars == <<hour, listing, watched, stageRow, advances, evaluation, setBacks>>

Never == MaxTime + 1
Stages == {"hype", "damage", "setup", "trigger"}

\* What the completed candles of one venue may show (channel_stages): every type of
\* setup is one of a damaged chart; the hype of the 4h candles and the trigger of the
\* shorter ones are told apart from that.
Snapshots == {s \in SUBSET Stages : "setup" \in s => "damage" \in s}

NoRow == [hype |-> Never, damage |-> Never, setup |-> Never, updated |-> Never]

Rest == [pc |-> "rest", lifecycle |-> 0, venue |-> 0, stages |-> {}, at |-> 0,
         chain |-> "unavailable", result |-> "none"]

Init ==
  /\ hour = 0 /\ setBacks = 0
  /\ listing = [lifecycle |-> 1, eligible |-> TRUE]
  /\ watched = TRUE
  /\ stageRow = NoRow
  /\ advances = <<>>
  /\ evaluation = Rest

-----------------------------------------------------------------------------
(* StageLifecycleStore *)

Older(t, ttl) == t # Never /\ evaluation.at - t > ttl

\* Mutant of Fresh: each stage expires by itself.
FreshByItself(r) ==
  [r EXCEPT !.hype   = IF Older(r.hype, HypeTtl) THEN Never ELSE @,
            !.damage = IF Older(r.damage, DamageTtl) THEN Never ELSE @,
            !.setup  = IF Older(r.setup, SetupTtl) THEN Never ELSE @]

\* A stage that has expired takes the later ones with it.
Fresh(r) ==
  IF Older(r.hype, HypeTtl) THEN NoRow
  ELSE IF Older(r.damage, DamageTtl) THEN [r EXCEPT !.damage = Never, !.setup = Never]
  ELSE IF Older(r.setup, SetupTtl) THEN [r EXCEPT !.setup = Never]
  ELSE r

\* A stage is confirmed only on top of the one before.
Confirm(r, stages, now) ==
  LET hype   == IF "hype" \in stages THEN now ELSE r.hype
      damage == IF "damage" \in stages /\ hype # Never THEN now ELSE r.damage
      setup  == IF "setup" \in stages /\ damage # Never THEN now ELSE r.setup
  IN  [hype |-> hype, damage |-> damage, setup |-> setup, updated |-> now]

Complete(r) == Never \notin {r.hype, r.damage, r.setup}

\* The evaluation is about the present listing.
Current == listing.eligible /\ listing.lifecycle = evaluation.lifecycle

Prefiltered == evaluation.result = "prefilter"

\* The validator goes on to its verdict; after a prefilter there is none.
Resume == IF Prefiltered THEN Rest ELSE [evaluation EXCEPT !.pc = "judge", !.at = 0]

\* advance reads the clock, then waits for the write lock.
ReadClock ==
  /\ evaluation.pc = "advance"
  /\ evaluation' = [evaluation EXCEPT !.pc = "commit", !.at = hour]
  /\ UNCHANGED <<hour, listing, watched, stageRow, advances, setBacks>>

InOrder == stageRow.updated = Never \/ evaluation.at >= stageRow.updated

\* The lifecycle has ended, the contract is not eligible, or a later evaluation was
\* recorded before.
AdvanceIsStale ==
  /\ evaluation.pc = "commit"
  /\ ~Current \/ ~InOrder
  /\ evaluation' = Resume
  /\ UNCHANGED <<hour, listing, watched, stageRow, advances, setBacks>>

Advance ==
  /\ evaluation.pc = "commit"
  /\ Current /\ InOrder
  /\ LET row == Confirm(Fresh(stageRow), evaluation.stages, evaluation.at) IN
       /\ stageRow' = row
       /\ evaluation' =
            [Resume EXCEPT !.chain =
               IF Prefiltered THEN @
               ELSE IF "trigger" \in evaluation.stages /\ Complete(row) THEN "passed" ELSE "open"]
  /\ advances' = Append(advances, [at |-> evaluation.at, stages |-> evaluation.stages \ {"trigger"}])
  /\ UNCHANGED <<hour, listing, watched, setBacks>>

\* The database is locked: the validator goes on without the stages.
AdvanceFails ==
  /\ evaluation.pc = "commit"
  /\ evaluation' = Resume
  /\ UNCHANGED <<hour, listing, watched, stageRow, advances, setBacks>>

-----------------------------------------------------------------------------
(* evaluate_candidate and cross_check_symbol *)

Begin ==
  /\ evaluation.pc \in {"rest", "done"} /\ listing.eligible
  /\ Len(advances) < MaxAdvances
  /\ evaluation' = [Rest EXCEPT !.pc = "venue", !.lifecycle = listing.lifecycle, !.venue = 1]
  /\ UNCHANGED <<hour, listing, watched, stageRow, advances, setBacks>>

\* _progressive_watch_result keeps a candidate in WATCH without a full validation
\* and without stages; the stages are then recorded by main.py.
StayInWatch ==
  /\ evaluation.pc = "venue" /\ evaluation.venue = 1 /\ watched
  /\ evaluation' =
       IF Current
       THEN [evaluation EXCEPT !.pc = "advance", !.result = "prefilter", !.venue = 0]
       ELSE Rest
  /\ UNCHANGED <<hour, listing, watched, stageRow, advances, setBacks>>

\* The 4h candles of the venue of the last full validation show no hype...
NoHypeWhereLastSeen == StayInWatch

\* ... or, where there was none, those of two venues, and of no other one.
NoHypeAnywhere == StayInWatch

NextVenue ==
  /\ evaluation.pc = "venue"
  /\ evaluation' =
       IF evaluation.venue < Venues THEN [evaluation EXCEPT !.venue = @ + 1] ELSE Rest
  /\ UNCHANGED <<hour, listing, watched, stageRow, advances, setBacks>>

NoPriceOrBook      == NextVenue
NoFreshEvidence    == NextVenue
CandlesIncomplete  == NextVenue

\* The first venue with everything: its candles give the stages.
Select ==
  /\ evaluation.pc = "venue"
  /\ \E stages \in Snapshots :
       evaluation' = [evaluation EXCEPT !.pc = "advance", !.venue = 0, !.stages = stages]
  /\ UNCHANGED <<hour, listing, watched, stageRow, advances, setBacks>>

\* ScoreV2: the class of the score, of a strict or an observed packet.
Scores == {"low", "armed", "triggered"}

\* What else a packet may show: fresh derivatives, all gates but the confirmation by
\* a second exchange, that confirmation, and whether a position can be sized.
Facts ==
  {f \in [derivatives : BOOLEAN, gates : BOOLEAN, confirmed : BOOLEAN, score : Scores,
          sized : BOOLEAN, experimental : BOOLEAN] : f.gates => f.derivatives}

\* _observational_status
Observed(stages) ==
  CASE "hype" \notin stages -> "WATCH"
    [] stages = {"hype"}    -> "FUEL-RICH"
    [] OTHER                -> "PRE-TRIGGER"

\* _merge_score_v2 and ScoreV2: all gates, and the stages of this snapshot or
\* those that are remembered with a trigger of now.
Strict(f) ==
  /\ f.gates /\ f.confirmed
  /\ \/ evaluation.stages = Stages
     \/ evaluation.chain = "passed" /\ "trigger" \in evaluation.stages

\* _experimental_pretrigger_eligible
Experimental(f) ==
  /\ f.experimental /\ f.gates
  /\ Observed(evaluation.stages) = "PRE-TRIGGER" /\ "trigger" \in evaluation.stages

\* _attach_position_setup_from_capture
Sized(f, s) == IF ~f.sized /\ s \in {"ARMED", "TRIGGERED"} THEN "WATCH" ELSE s

\* _suggested_status
Suggested(f) ==
  CASE f.score = "triggered" -> "TRIGGERED"
    [] f.score = "armed"     -> "ARMED"
    [] OTHER                 -> "WATCH"

Profile(f) ==
  CASE f.derivatives /\ Strict(f)                     -> "strict"
    [] f.derivatives /\ ~Strict(f) /\ Experimental(f) -> "experimental"
    [] OTHER                                          -> "none"

Status(f) ==
  CASE Profile(f) = "strict"       -> Sized(f, Suggested(f))
    [] Profile(f) = "experimental" -> Sized(f, "TRIGGERED")
    [] OTHER                       -> Observed(evaluation.stages)

\* What may come of the stages that an evaluation has.
Verdicts == {[profile |-> Profile(f), watch |-> Status(f) = "WATCH"] : f \in Facts}

\* The result counts for the present listing; the entry gate may lower it.
Judge ==
  /\ evaluation.pc = "judge"
  /\ \E v \in Verdicts :
       /\ evaluation' =
            IF Current THEN [evaluation EXCEPT !.pc = "done", !.result = v.profile] ELSE Rest
       /\ watched' \in IF Current THEN {v.watch, TRUE} ELSE {watched}
  /\ UNCHANGED <<hour, listing, stageRow, advances, setBacks>>

-----------------------------------------------------------------------------
(* The environment. *)

Tick ==
  /\ hour < MaxTime /\ Len(advances) < MaxAdvances
  /\ hour' = hour + 1
  /\ UNCHANGED <<listing, watched, stageRow, advances, evaluation, setBacks>>

SetBack ==
  /\ setBacks < MaxSetBacks /\ hour > 0 /\ Len(advances) < MaxAdvances
  /\ hour' = hour - 1 /\ setBacks' = setBacks + 1
  /\ UNCHANGED <<listing, watched, stageRow, advances, evaluation>>

\* The contract is removed from the catalogue, and listed again with a new lifecycle,
\* which has rows of its own.
Delist ==
  /\ listing.eligible /\ listing' = [listing EXCEPT !.eligible = FALSE]
  /\ watched' = TRUE /\ stageRow' = NoRow /\ advances' = <<>>
  /\ UNCHANGED <<hour, evaluation, setBacks>>

Relist ==
  /\ ~listing.eligible /\ listing.lifecycle < MaxListings
  /\ listing' = [lifecycle |-> listing.lifecycle + 1, eligible |-> TRUE]
  /\ UNCHANGED <<hour, watched, stageRow, advances, evaluation, setBacks>>

\* The process is killed; what is recorded stays.
Kill ==
  /\ evaluation' = Rest
  /\ UNCHANGED <<hour, listing, watched, stageRow, advances, setBacks>>

Next ==
  \/ ReadClock \/ AdvanceIsStale \/ Advance \/ AdvanceFails
  \/ Begin \/ NoHypeWhereLastSeen \/ NoHypeAnywhere
  \/ NoPriceOrBook \/ NoFreshEvidence \/ CandlesIncomplete \/ Select \/ Judge
  \/ Tick \/ SetBack \/ Delist \/ Relist \/ Kill

Spec == Init /\ [][Next]_vars

-----------------------------------------------------------------------------
(* Properties. *)

\* The stages that snapshot i of a history completes, told without the row: a stage
\* holds when it was seen within its lifetime, on top of the stage before, and that
\* one never lapsed in between.
Within(h, j, i, ttl) == h[i].at - h[j].at <= ttl

HypeLapsed(h, k) ==
  ~\E j \in 1..(k-1) : "hype" \in h[j].stages /\ Within(h, j, k, HypeTtl)

HypeHolds(h, i) == \E j \in 1..i : "hype" \in h[j].stages /\ Within(h, j, i, HypeTtl)

DamageSince(h, j, i) ==
  /\ "damage" \in h[j].stages /\ HypeHolds(h, j) /\ Within(h, j, i, DamageTtl)
  /\ \A k \in (j+1)..i : ~HypeLapsed(h, k)

DamageHolds(h, i) == \E j \in 1..i : DamageSince(h, j, i)

DamageLapsed(h, k) == ~\E j \in 1..(k-1) : DamageSince(h, j, k)

SetupHolds(h, i) ==
  \E j \in 1..i :
    /\ "setup" \in h[j].stages /\ DamageHolds(h, j) /\ Within(h, j, i, SetupTtl)
    /\ \A k \in (j+1)..i : ~HypeLapsed(h, k) /\ ~DamageLapsed(h, k)

Chained(h, i) == HypeHolds(h, i) /\ DamageHolds(h, i) /\ SetupHolds(h, i)

\* A strict signal is earned: the whole chain is in the candles of one moment, or
\* the trigger is of now and each stage before it was confirmed in order within this
\* lifecycle, none of them lapsing before the next, whatever the order of evaluations,
\* listings and clocks; and a chain that was so confirmed is accepted (stage_lifecycle.py:76-180,
\* multi_exchange_validator.py:405-454).
StrictIsEarned ==
  evaluation.pc \in {"judge", "done"} /\ Current =>
    LET chained == /\ "trigger" \in evaluation.stages
                   /\ advances # <<>> /\ Chained(advances, Len(advances))
    IN
      /\ evaluation.chain = "passed" => chained
      /\ evaluation.chain = "open" => ~chained
      /\ evaluation.result = "strict" => chained \/ evaluation.stages = Stages

=============================================================================
