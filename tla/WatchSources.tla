---------------------------- MODULE WatchSources ----------------------------
(***************************************************************************)
(* The progressive evaluation of a WATCH candidate and the venue it trusts *)
(* (main.py over core/multi_exchange_validator.py,                         *)
(* core/production_evidence.py and discovery/lbank_scanner.py).            *)
(*                                                                         *)
(* A full validation finds the venue that a contract is judged by; until   *)
(* the next one is due, a cheap probe of that venue may keep the contract  *)
(* in WATCH.  The venue is remembered in three places: the metrics of the  *)
(* scanner's candidate, a hint in memory, and the rows of the production   *)
(* evidence, from which a restart reads the hints.  The contract may leave *)
(* and come back meanwhile, with a new lifecycle: its listing.             *)
(*                                                                         *)
(* One symbol is followed; the other ones compete with it for the slot in  *)
(* which a full validation that is due may start.                          *)
(***************************************************************************)
EXTENDS Integers

CONSTANTS
  Budget,       \* _WATCH_FULL_REVALIDATION_SECONDS
  Interval,     \* _WATCH_FULL_REVALIDATION_MIN_START_INTERVAL_SECONDS
  MaxTicks,     \* bound: the clock, and the buckets of the evidence, which are ticks
  MaxRelists,   \* bound: changes of the listing
  MaxRestarts   \* bound: restarts

VARIABLES
  ticks, row, live, hint, evidence, slot, run,
  validated,    \* history: what the full validations found
  restarts

sourceVars == <<ticks, row, live, hint, evidence, slot, run, validated, restarts>>

NoSource == [listing |-> 0, at |-> 0]
NoLive == [here |-> FALSE, source |-> NoSource]
NoRow == [listing |-> 0, source |-> NoSource, bucket |-> -1]
Idle == [pc |-> "idle", listing |-> 0, at |-> 0, current |-> FALSE, source |-> NoSource]

Init ==
  /\ ticks = 0
  /\ row = [listing |-> 1, in |-> "eligible", missing |-> 0]
  /\ live = NoLive
  /\ hint = NoSource
  /\ evidence = NoRow
  /\ slot = 0
  /\ run = Idle
  /\ validated = {}
  /\ restarts = 0

-----------------------------------------------------------------------------
(* An evaluation. *)

\* The loop took the row while it was in the universe; the candidate of the scanner
\* has to have its lifecycle.
Begin ==
  /\ run = Idle /\ live.here /\ row.in = "eligible"
  /\ \E pc \in {"reference", "decide"} :
       run' = [Idle EXCEPT !.pc = pc, !.listing = row.listing, !.at = ticks, !.current = TRUE]
  /\ UNCHANGED <<ticks, row, live, hint, evidence, slot, validated, restarts>>

\* A row of the evidence: one per symbol and bucket, unless it is a final decision.
Recorded(listing, source, final) ==
  IF final \/ evidence.bucket # ticks
  THEN [listing |-> listing, source |-> source,
        bucket |-> IF evidence.bucket # ticks THEN ticks ELSE evidence.bucket]
  ELSE evidence

\* LBank has no live price: another venue has, or none.
Resolve ==
  /\ run.pc = "reference" /\ run.current
  /\ run' = [run EXCEPT !.pc = "decide"]
  /\ UNCHANGED <<ticks, row, live, hint, evidence, slot, validated, restarts>>

LoseReference ==
  /\ run.pc = "reference" /\ run.current
  /\ evidence' = Recorded(0, NoSource, FALSE)
  /\ live' = [live EXCEPT !.source = NoSource]
  /\ run' = Idle
  /\ UNCHANGED <<ticks, row, hint, slot, validated, restarts>>

\* Mutant of Remembered: the hint of any lifecycle.
RememberedForAnyListing ==
  IF live.source # NoSource THEN live.source ELSE hint

\* The venue of the metrics, or else the hint if it is of this lifecycle.
Remembered ==
  IF live.source # NoSource THEN live.source
  ELSE IF hint.listing = run.listing THEN hint ELSE NoSource

\* _progressive_watch_result up to its first await: the probe of the venue that is
\* remembered, or of all of them.
ProbeVenue ==
  /\ run.pc = "decide" /\ Remembered # NoSource
  /\ run.at >= Remembered.at
  /\ run' = [run EXCEPT !.pc = "probe", !.source = Remembered]
  /\ UNCHANGED <<ticks, row, live, hint, evidence, slot, validated, restarts>>

ProbeWaterfall ==
  /\ run.pc = "decide" /\ Remembered = NoSource
  /\ run' = [run EXCEPT !.pc = "probe"]
  /\ UNCHANGED <<ticks, row, live, hint, evidence, slot, validated, restarts>>

\* The probe is conclusive and the full validation is not due, or another one has
\* the slot.  Without a venue it is always due.
Due == run.source = NoSource \/ run.at - run.source.at > Budget

KeepInWatch ==
  /\ run.pc = "probe"
  /\ ~Due \/ run.at < slot
  /\ run' = IF run.current THEN [run EXCEPT !.pc = "prefiltered"] ELSE Idle
  /\ UNCHANGED <<ticks, row, live, hint, evidence, slot, validated, restarts>>

\* Not in WATCH, an actionable decision, an inconclusive probe or one that saw hype;
\* or the full validation is due and takes the slot.
ValidateFully ==
  /\ run.pc \in {"decide", "probe"}
  /\ \/ UNCHANGED slot
     \/ run.pc = "probe" /\ Due /\ run.at >= slot /\ slot' = run.at + Interval
  /\ run' = [run EXCEPT !.pc = "full"]
  /\ UNCHANGED <<ticks, row, live, hint, evidence, validated, restarts>>

\* The full validation ends: the hint follows it, if the candidate is still there.
Validate(found) ==
  LET source == IF found THEN [listing |-> run.listing, at |-> run.at] ELSE NoSource IN
  /\ run.pc = "full"
  /\ validated' = IF found THEN validated \cup {source} ELSE validated
  /\ IF run.current
     THEN hint' = source /\ run' = [run EXCEPT !.pc = "validated", !.source = source]
     ELSE run' = Idle /\ UNCHANGED hint
  /\ UNCHANGED <<ticks, row, live, evidence, slot, restarts>>

\* After the last await the evidence is recorded and the metrics are stored.  A
\* validated trigger records a final row too.
Conclude(final) ==
  /\ run.pc \in {"prefiltered", "validated"} /\ run.current
  /\ final => run.pc = "validated" /\ run.source # NoSource
  /\ live' = [live EXCEPT !.source = run.source]
  /\ evidence' = Recorded(run.listing, run.source, final)
  /\ run' = Idle
  /\ UNCHANGED <<ticks, row, hint, slot, validated, restarts>>

\* Its candidate object was replaced, or something raised.
Abandon ==
  /\ run.pc \notin {"idle", "full"}
  /\ run' = Idle
  /\ UNCHANGED <<ticks, row, live, hint, evidence, slot, validated, restarts>>

-----------------------------------------------------------------------------
(* The catalogue. *)

\* update_candidates and record_missing_symbols: a removed contract that is back,
\* and one whose eligibility changed, begins a new lifecycle; one that is missing
\* twice is removed.
Seen(now) ==
  CASE now = "absent" /\ row.in # "removed" ->
         IF row.missing = 1
         THEN [row EXCEPT !.in = "removed", !.missing = 2]
         ELSE [row EXCEPT !.missing = 1]
    [] now = "absent" /\ row.in = "removed" -> row
    [] now \in {"eligible", "ineligible"} ->
         [listing |-> IF now = row.in THEN row.listing ELSE row.listing + 1,
          in |-> now, missing |-> 0]

\* update_catalog: new candidate objects, with the metrics of the ones before; the
\* hint of a candidate that is dropped goes with it.
Refresh(now) ==
  /\ Seen(now).listing <= 1 + MaxRelists
  /\ row' = Seen(now)
  /\ live' = IF now = "eligible" THEN [live EXCEPT !.here = TRUE] ELSE NoLive
  /\ hint' = IF live.here /\ now # "eligible" THEN NoSource ELSE hint
  /\ run' = [run EXCEPT !.current = FALSE]
  /\ UNCHANGED <<ticks, evidence, slot, validated, restarts>>

\* Another symbol takes the slot.
Contend ==
  /\ ticks >= slot
  /\ slot' = ticks + Interval
  /\ UNCHANGED <<ticks, row, live, hint, evidence, run, validated, restarts>>

Tick ==
  /\ ticks < MaxTicks
  /\ ticks' = ticks + 1
  /\ UNCHANGED <<row, live, hint, evidence, slot, run, validated, restarts>>

\* latest_source_hints: the newest evidence counts if it is of the row's lifecycle.
Bootstrapped ==
  IF row.in = "eligible" /\ evidence.listing = row.listing THEN evidence.source ELSE NoSource

\* A restart forgets all but the rows; the hints may be read from them.
Restart ==
  /\ restarts < MaxRestarts
  /\ restarts' = restarts + 1
  /\ hint' \in {NoSource, Bootstrapped}
  /\ live' = NoLive /\ slot' = 0 /\ run' = Idle
  /\ UNCHANGED <<ticks, row, evidence, validated>>

Next ==
  \/ Begin \/ Resolve \/ LoseReference \/ ProbeVenue \/ ProbeWaterfall
  \/ KeepInWatch \/ ValidateFully
  \/ \E found \in BOOLEAN : Validate(found)
  \/ \E final \in BOOLEAN : Conclude(final)
  \/ Abandon \/ Contend \/ Tick \/ Restart
  \/ \E now \in {"eligible", "ineligible", "absent"} : Refresh(now)

Spec == Init /\ [][Next]_sourceVars

-----------------------------------------------------------------------------
\* A contract that a cheap probe keeps in WATCH was probed at a venue that a full
\* validation found for this very listing, at the time that is claimed for it:
\* leaving, coming back, restarts and answers that come late never lend it the
\* venue of an earlier listing (the fences at main.py:3237 and
\* production_evidence.py:675), nor make that validation look newer.
SourceOfItsListing ==
  run.pc = "prefiltered" /\ run.source # NoSource =>
    run.source.listing = run.listing /\ run.source \in validated
=============================================================================
