--------------------------- MODULE RuntimeSettings ---------------------------
(***************************************************************************)
(* The settings that an operator turns while the backend runs:             *)
(* core/runtime_settings.py behind routes_runtime_settings.py, and the     *)
(* policy that an evaluation makes of them (main.py, entry_decision.py).   *)
(*                                                                         *)
(* One row holds them all; each change is appended to a history in the     *)
(* transaction that writes the row.  Evaluations read through a cache.  A  *)
(* read that fails yields the shipped defaults; one that finds a field of  *)
(* the row missing or not legal yields the default of that field only,     *)
(* without the checks across fields that a change has to pass.  Requests   *)
(* and evaluations run on one event loop, so each is one step.             *)
(*                                                                         *)
(* Two thresholds that must agree stand for all numbers, one gate for all  *)
(* toggles.                                                                *)
(***************************************************************************)
EXTENDS Naturals, Sequences, FiniteSets

CONSTANTS
  CacheLife,     \* cache_seconds
  MaxHistory,    \* bound: changes
  MaxFaults      \* bound: reads and writes that fail, damages of the row

VARIABLES
  saved,      \* the row of runtime_settings: the fields of it that are legal
  history,    \* runtime_settings_history: the new values of each change
  cache,      \* [settings, failed, age], or Uncached
  accepted,   \* history: the settings of the newest change that was accepted
  decision,   \* history: of the newest evaluation, the settings it used, those that
              \* were accepted by then, whether the read had failed, and which
              \* fields were missing from the row
  faults

settingsVars == <<saved, history, cache, accepted, decision, faults>>

\* SPECS: the legal values; 0 is below every minimum.
Range(k) ==
  CASE k = "gate" -> {"on", "off"}
    [] k = "forming_minimum" -> {1, 3}
    [] k = "entry_ready_minimum" -> {2, 3}
Knobs == {"forming_minimum", "entry_ready_minimum", "gate"}

\* DEFAULTS
Shipped ==
  [k \in Knobs |-> CASE k = "forming_minimum" -> 1 [] k = "gate" -> "on" [] OTHER -> 2]

NoFields == [k \in {} |-> 0]
Uncached == [settings |-> NoFields, failed |-> FALSE, age |-> 0]

Init ==
  /\ saved = NoFields /\ history = <<>> /\ cache = Uncached
  /\ accepted = Shipped
  /\ decision = [used |-> Shipped, stood |-> Shipped, failed |-> FALSE, missing |-> {}]
  /\ faults = 0

Fault == faults < MaxFaults /\ faults' = faults + 1

\* The cross-field invariants of apply.
Coherent(s) == s["forming_minimum"] <= s["entry_ready_minimum"]

-----------------------------------------------------------------------------

ReadFrom(r, failed) == [settings |-> r, failed |-> failed, age |-> 0]

\* The fields that no row holds, or whose value coerce refuses.
Missing == Knobs \ DOMAIN saved

\* What a read of the row gives: a missing field falls back by itself.
Read == ReadFrom([k \in Knobs |-> IF k \in Missing THEN Shipped[k] ELSE saved[k]], FALSE)

\* current: the cache while it is young, else the row; and the defaults, which are
\* cached as well, when the read fails.
Readings == IF cache # Uncached THEN {cache} ELSE {Read, ReadFrom(Shipped, TRUE)}

Current(c) ==
  IF cache = Uncached /\ c # Read THEN Fault ELSE UNCHANGED faults

\* evaluate_candidate, with EntryDecisionPolicy.from_settings.
Evaluate ==
  \E c \in Readings :
    /\ Current(c) /\ cache' = c
    /\ decision' = [used |-> c.settings, stood |-> accepted, failed |-> c.failed,
                    missing |-> Missing]
    /\ UNCHANGED <<saved, history, accepted>>

Merged(old, changes) ==
  [k \in Knobs |-> IF k \in DOMAIN changes THEN changes[k] ELSE old[k]]

Changed(old, changes) == {k \in DOMAIN changes : old[k] # changes[k]}

\* Mutant of Answered: the cache is kept until it is old.
AnsweredFromCache(c, new) == c

\* apply drops the cache after it wrote, and the answer of the request is read anew
\* (invalidate, then describe).
Answered(c, new) == ReadFrom(new, FALSE)

\* The transaction of apply.
Write(old, changes) ==
  /\ Len(history) < MaxHistory
  /\ saved' = Merged(old, changes) /\ accepted' = Merged(old, changes)
  /\ history' = Append(history, [k \in Changed(old, changes) |-> changes[k]])

\* apply, after coerce, and the answer: a candidate that is not coherent is refused,
\* and one that changes nothing is not written.
Apply(c, changes) ==
  IF ~Coherent(Merged(c.settings, changes)) \/ Changed(c.settings, changes) = {}
  THEN /\ Current(c) /\ cache' = c
       /\ UNCHANGED <<saved, history, accepted>>
  ELSE /\ Write(c.settings, changes)
       /\ \/ Current(c) /\ cache' = Answered(c, Merged(c.settings, changes))
          \/ c \in {cache, Read} /\ Fault /\ cache' = ReadFrom(Shipped, TRUE)

\* read_settings: to show them fills the cache as well.
ReadSettings ==
  \E c \in Readings :
    /\ Current(c) /\ cache' = c
    /\ UNCHANGED <<saved, history, accepted, decision>>

\* What a request may carry.
Requests ==
  [{"gate"} -> {"on", "off"}] \cup
  UNION {[ks -> 0..3] : ks \in SUBSET {"forming_minimum", "entry_ready_minimum"} \ {{}}}

\* write_settings: coerce refuses before anything is read.
WriteSettings ==
  \E changes \in Requests, c \in Readings :
    /\ \A k \in DOMAIN changes : changes[k] \in Range(k)
    /\ Apply(c, changes)
    /\ UNCHANGED decision

\* reset: what differs from the defaults is changed back.
Drifted(s) == {k \in Knobs : s[k] # Shipped[k]}
ResetSettings ==
  \E c \in Readings :
    /\ Apply(c, [k \in Drifted(c.settings) |-> Shipped[k]])
    /\ UNCHANGED decision

\* The transaction is refused: the request ends in an error, after the read.
WriteFails ==
  \E c \in Readings :
    /\ Fault /\ cache' = c
    /\ UNCHANGED <<saved, history, accepted, decision>>

\* Fields of the row are lost, or are not legal any more under the SPECS of another
\* release; all of them, when the row is not JSON.
Damage(ks) ==
  /\ Fault
  /\ saved' = [k \in DOMAIN saved \ ks |-> saved[k]]
  /\ UNCHANGED <<history, cache, accepted, decision>>

Restart ==
  /\ cache' = Uncached
  /\ UNCHANGED <<saved, history, accepted, decision, faults>>

Tick ==
  /\ cache # Uncached
  /\ cache' = IF cache.age + 1 < CacheLife THEN [cache EXCEPT !.age = @ + 1] ELSE Uncached
  /\ UNCHANGED <<saved, history, accepted, decision, faults>>

Next ==
  \/ Evaluate \/ ReadSettings \/ WriteSettings \/ ResetSettings \/ WriteFails
  \/ \E ks \in (SUBSET (DOMAIN saved)) \ {{}} : Damage(ks)
  \/ Restart \/ Tick

Spec == Init /\ [][Next]_settingsVars

-----------------------------------------------------------------------------
(* Properties. *)

\* What the newest change of a knob in the history made of it.
Recorded(k) ==
  LET at == {i \in DOMAIN history : k \in DOMAIN history[i]}
  IN IF at = {} THEN Shipped[k] ELSE history[CHOOSE i \in at : \A j \in at : j <= i][k]

\* An evaluation uses the settings of the newest change that was accepted, at once
\* and as a whole, but for the default of a field that the row is missing by then, and
\* for the shipped defaults after a read that failed.  What was accepted agrees with
\* itself, whatever mix of defaults the change was merged with, and has no value that
\* neither the history records last nor was shipped (runtime_settings.py:12, "Settings
\* are read at decision time"; invalidate, the cross-field checks and the transaction
\* of apply).
SettingsInForce ==
  /\ \/ decision.failed /\ decision.used = Shipped
     \/ \A k \in Knobs : \/ decision.used[k] = decision.stood[k]
                         \/ k \in decision.missing /\ decision.used[k] = Shipped[k]
  /\ Coherent(accepted)
  /\ \A k \in Knobs : accepted[k] \in {Recorded(k), Shipped[k]}

=============================================================================
