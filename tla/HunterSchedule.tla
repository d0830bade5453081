--------------------------- MODULE HunterSchedule ---------------------------
(***************************************************************************)
(* When the hunter loop evaluates which candidate.                         *)
(*                                                                         *)
(* hunter_loop (main.py) holds a snapshot of the candidates that it        *)
(* refreshes during maintenance, a deadline per candidate                  *)
(* (HunterDeadlineSchedule) and a limited number of evaluations in flight. *)
(* One round is: maintenance when it is due, dispatch into the free slots, *)
(* the maintenance writes, then a sleep until the next deadline or the     *)
(* first evaluation that returns.                                          *)
(*                                                                         *)
(* Time is relative: due[s] is the distance of a deadline from the clock   *)
(* and is negative once it is over.                                        *)
(***************************************************************************)
EXTENDS Integers, FiniteSets

CONSTANTS
  Symbols,          \* contracts of the catalogue
  Slots,            \* DEFAULT_EVALUATION_CONCURRENCY
  States,           \* candidate states that a snapshot shows
  Interval,         \* evaluation_interval_seconds, in units of time
  Shortest, Longest,  \* bounds of the intervals, 15 s and 150 s
  Upkeep,           \* the maintenance interval
  MaxRun,           \* bound: an evaluation returns within this time
  MaxLate,          \* bound: a deadline is not told apart when older than this
  MaxChanges,       \* bound on the snapshots that differ from the one before
  None              \* an absent entry of a dictionary

Urgency == <<"TRIGGERED", "ARMED", "PRE-TRIGGER", "FUEL-RICH", "WATCH">>

ASSUME ScheduleAssumption ==
  /\ IsFiniteSet(Symbols)
  /\ Slots \in Nat \ {0} /\ Upkeep \in Nat \ {0} /\ MaxRun \in Nat \ {0}
  /\ MaxLate \in Nat /\ MaxChanges \in Nat
  /\ States \subseteq {Urgency[i] : i \in 1..5}
  /\ Longest \in Nat /\ Shortest \in 1..Longest
  /\ Interval \in [States -> Shortest..Longest]
  /\ None \notin Int /\ None \notin States

VARIABLES
  seen,      \* the loop's `candidates`: state of each listed symbol, or None
  due,       \* next_due_at, relative to the clock
  since,     \* last_started_at, as the time since then
  task,      \* in_flight: "idle", "running" or "done" (returned, not yet reaped)
  age,       \* how long the running evaluation has run
  pc,        \* where the loop is
  wake,      \* what is left of the loop's sleep
  upkeep,    \* time to the next maintenance
  changes    \* snapshots so far that differed

scheduleVars == <<due, since>>
taskVars     == <<task, age>>
loopVars     == <<pc, wake, upkeep>>
vars         == <<seen, scheduleVars, taskVars, loopVars, changes>>

Low(a, b)   == IF a < b THEN a ELSE b
High(a, b)  == IF a < b THEN b ELSE a
Priority(x) == CHOOSE i \in 1..5 : Urgency[i] = x

Deadline == (-MaxLate)..Longest
Listed   == {s \in Symbols : seen[s] # None}
InFlight == {s \in Symbols : task[s] # "idle"}

TypeOK ==
  /\ seen \in [Symbols -> States \cup {None}]
  /\ due \in [Symbols -> Deadline \cup {None}]
  /\ since \in [Symbols -> 0..(Longest + MaxLate) \cup {None}]
  /\ task \in [Symbols -> {"idle", "running", "done"}]
  /\ age \in [Symbols -> 0..MaxRun]
  /\ pc \in {"top", "maintained", "dispatch", "writing", "rest", "asleep"}
  /\ wake \in 0..High(Upkeep, Longest) /\ upkeep \in 0..Upkeep
  /\ changes \in 0..MaxChanges

Init ==
  /\ seen = [s \in Symbols |-> None]
  /\ due = [s \in Symbols |-> None] /\ since = [s \in Symbols |-> None]
  /\ task = [s \in Symbols |-> "idle"] /\ age = [s \in Symbols |-> 0]
  /\ pc = "top" /\ wake = 0 /\ upkeep = 0 /\ changes = 0

-----------------------------------------------------------------------------
(* The schedule. *)

\* Mutant of SyncedDue: a promotion makes the candidate due at once.
SyncedDueAtOnce(snapshot) ==
  [s \in Symbols |->
     IF snapshot[s] = None THEN None
     ELSE IF due[s] = None \/ (seen[s] # None /\ Priority(snapshot[s]) < Priority(seen[s])) THEN 0
     ELSE due[s]]

\* sync: an unlisted symbol is forgotten, a new one is due at once, and a
\* deadline can only be drawn nearer by the state the snapshot shows.
SyncedDue(snapshot) ==
  [s \in Symbols |->
     IF snapshot[s] = None THEN None
     ELSE IF due[s] = None THEN 0
     ELSE IF since[s] = None THEN due[s]
     ELSE Low(due[s], High(-MaxLate, Interval[snapshot[s]] - since[s]))]

SyncedSince(snapshot) ==
  [s \in Symbols |-> IF snapshot[s] = None THEN None ELSE since[s]]

\* The order of due_candidates. What breaks a tie (the age of the published
\* analysis, the name) is left open.
Before(deadline, s, t) ==
  \/ Priority(seen[s]) < Priority(seen[t])
  \/ Priority(seen[s]) = Priority(seen[t]) /\ deadline[s] < deadline[t]

IsDue(deadline, busy) ==
  {s \in Listed \ busy : deadline[s] # None /\ deadline[s] <= 0}

\* A symbol that the snapshot no longer holds counts as WATCH.
Watching(s) == seen[s] \in {"WATCH", None}

\* The first `limit` of the candidates that are due.
Foremost(deadline, ready, limit) ==
  {S \in SUBSET ready :
     /\ Cardinality(S) = Low(limit, Cardinality(ready))
     /\ \A s \in S, t \in ready \ S : ~Before(deadline, t, s)}

\* Mutant of Selected: the reservation is forgotten.
SelectedWithoutReservation(deadline, busy, limit) ==
  Foremost(deadline, IsDue(deadline, busy), limit)

\* The selection: the last of the foremost makes room for a WATCH candidate when
\* no WATCH candidate is being evaluated and none was among them.
Selected(deadline, busy, limit) ==
  LET ready == IsDue(deadline, busy)
      Last(S) == {s \in S : \A t \in S : ~Before(deadline, s, t)}
      watch == {w \in ready : Watching(w)}
      first == {w \in watch : \A v \in watch : ~Before(deadline, v, w)}
      reserve == watch # {} /\ \A s \in busy : ~Watching(s)
      Reserved(S) == {(S \ {l}) \cup {w} : l \in Last(S), w \in first}
  IN UNION {IF reserve /\ S \cap watch = {} THEN Reserved(S) ELSE {S} :
              S \in Foremost(deadline, ready, limit)}

-----------------------------------------------------------------------------
(* The loop. *)

Reaped == [s \in Symbols |-> IF task[s] = "done" THEN "idle" ELSE task[s]]

Snapshot(new) ==
  /\ \/ new = seen
     \/ changes < MaxChanges
  /\ seen' = new
  /\ changes' = IF new = seen THEN changes ELSE changes + 1

\* Maintenance: the new snapshot and its deadlines.
Maintain ==
  /\ pc = "top" /\ upkeep = 0
  /\ \E new \in [Symbols -> States \cup {None}] :
       /\ Snapshot(new)
       /\ due' = SyncedDue(new) /\ since' = SyncedSince(new)
  /\ pc' = "maintained" /\ upkeep' = Upkeep
  /\ UNCHANGED <<taskVars, wake>>

\* A reconciliation raised: before the snapshot was taken, or after it and
\* before the deadlines were brought up to date.
MaintenanceFails ==
  /\ pc = "top" /\ upkeep = 0
  /\ \E new \in [Symbols -> States \cup {None}] : Snapshot(new)
  /\ pc' = "dispatch" /\ upkeep' = Upkeep
  /\ UNCHANGED <<scheduleVars, taskVars, wake>>

NoMaintenance ==
  /\ pc = "top" /\ upkeep > 0
  /\ pc' = "dispatch"
  /\ UNCHANGED <<seen, scheduleVars, taskVars, wake, upkeep, changes>>

\* mark_started and create_task, for each of the candidates in `chosen`.
Started(deadline, began, chosen) ==
  /\ due' = [s \in Symbols |-> IF s \in chosen THEN Interval[seen[s]] ELSE deadline[s]]
  /\ since' = [s \in Symbols |-> IF s \in chosen THEN 0 ELSE began[s]]
  /\ task' = [s \in Symbols |-> IF s \in chosen THEN "running" ELSE Reaped[s]]
  /\ age' = [s \in Symbols |-> IF s \in chosen \/ task[s] # "running" THEN 0 ELSE age[s]]

\* Dispatch into the free slots, after the evaluations that returned are reaped.
Dispatch ==
  LET busy == {s \in Symbols : task[s] = "running"}
      free == Slots - Cardinality(busy)
  IN
  /\ pc \in {"maintained", "dispatch"}
  /\ IF free > 0 /\ Listed # {}
       THEN \E chosen \in Selected(SyncedDue(seen), busy, free) :
              Started(SyncedDue(seen), SyncedSince(seen), chosen)
       ELSE Started(due, since, {})
  /\ pc' = IF pc = "maintained" THEN "writing" ELSE "rest"
  /\ UNCHANGED <<seen, wake, upkeep, changes>>

\* The writes of maintenance are over before the clock has moved.
Written ==
  /\ pc = "writing" /\ pc' = "rest"
  /\ UNCHANGED <<seen, scheduleVars, taskVars, wake, upkeep, changes>>

\* Mutant of Delays: the free slots are counted before the evaluations that
\* returned meanwhile are reaped.
DelaysBeforeReaping(busy) ==
  {upkeep} \cup
  IF Cardinality(InFlight) < Slots
    THEN {High(0, due[s]) : s \in {t \in Listed \ InFlight : due[t] # None}}
    ELSE {}

\* seconds_until_next_due counts only when a slot is free.
Delays(busy) ==
  {upkeep} \cup
  IF Cardinality(busy) < Slots
    THEN {High(0, due[s]) : s \in {t \in Listed \ busy : due[t] # None}}
    ELSE {}

\* The loop reaps once more and goes to sleep.
Rest ==
  LET busy == {s \in Symbols : task[s] = "running"} IN
  /\ pc = "rest" /\ pc' = "asleep"
  /\ task' = Reaped
  /\ age' = [s \in Symbols |-> IF s \in busy THEN age[s] ELSE 0]
  /\ \E n \in Delays(busy) : wake' = n /\ \A m \in Delays(busy) : n <= m
  /\ UNCHANGED <<seen, scheduleVars, upkeep, changes>>

MayWake == wake = 0 \/ \E s \in Symbols : task[s] = "done"

\* asyncio.wait: the sleep is over, or the first evaluation has returned.
WakeUp ==
  /\ pc = "asleep" /\ MayWake
  /\ pc' = "top" /\ wake' = 0
  /\ UNCHANGED <<seen, scheduleVars, taskVars, upkeep, changes>>

LoopStep ==
  Maintain \/ MaintenanceFails \/ NoMaintenance \/ Dispatch \/ Written \/ Rest \/ WakeUp

\* evaluate_scheduled returns; what it raised is logged.
Return(s) ==
  /\ task[s] = "running"
  /\ task' = [task EXCEPT ![s] = "done"]
  /\ UNCHANGED <<seen, scheduleVars, age, loopVars, changes>>

\* The clock moves while the loop sleeps, and by one unit at most while it
\* waits for the maintenance writes.
Tick ==
  /\ \/ pc = "asleep" /\ ~MayWake /\ pc' = pc
     \/ pc = "writing" /\ pc' = "rest"
  /\ \A s \in Symbols : task[s] = "running" => age[s] < MaxRun
  /\ due' = [s \in Symbols |-> IF due[s] = None THEN None ELSE High(-MaxLate, due[s] - 1)]
  /\ since' = [s \in Symbols |->
                 IF since[s] = None THEN None ELSE Low(Longest + MaxLate, since[s] + 1)]
  /\ age' = [s \in Symbols |-> IF task[s] = "running" THEN age[s] + 1 ELSE age[s]]
  /\ wake' = High(0, wake - 1) /\ upkeep' = High(0, upkeep - 1)
  /\ UNCHANGED <<seen, task, changes>>

Next == LoopStep \/ Tick \/ \E s \in Symbols : Return(s)

Spec == Init /\ [][Next]_vars

\* The loop is one task of an event loop that is not blocked, the clock runs,
\* and an evaluation waits for providers under their timeouts only.
FairSpec ==
  /\ Spec
  /\ WF_vars(LoopStep) /\ WF_vars(Tick)
  /\ \A s \in Symbols : WF_vars(Return(s))

-----------------------------------------------------------------------------
(* Properties. *)

\* DEFAULT_EVALUATION_CONCURRENCY holds: the slot that is reserved for WATCH
\* work is taken from the selection, never added to it.
SlotsHold == Cardinality(InFlight) <= Slots

\* A symbol is not evaluated twice at once: an evaluation that outlives its own
\* deadline, or whose symbol is dropped and listed again meanwhile, is not
\* started a second time beside itself.  And promotions, demotions and late rounds
\* never bring two starts of a listed symbol closer together than the shortest
\* evaluation interval.
StartsKeepDistance ==
  [][\A s \in Symbols :
       /\ task[s] = "running" /\ task'[s] = "running" => age'[s] >= age[s]
       /\ task[s] # "running" /\ task'[s] = "running" /\ since[s] # None
            => since[s] >= Shortest]_vars

\* No lost wake-up: while the loop sleeps with a slot free it wakes no later
\* than the nearest deadline of a candidate that is not being evaluated.
NoOversleep ==
  pc = "asleep" /\ Cardinality(InFlight) < Slots =>
    \A s \in Listed \ InFlight : due[s] # None => wake <= High(0, due[s])

\* The slots are neither exceeded nor left unused: what is sized for the providers
\* holds, and no deadline that a slot is free for is slept past.
SlotsAreUsed == SlotsHold /\ NoOversleep

\* The reserved slot: a WATCH candidate whose deadline is over is evaluated in
\* the end, whatever load of more urgent candidates keeps coming back, unless a
\* snapshot shows it in another state or drops it.
WatchIsServed ==
  \A s \in Symbols :
    seen[s] = "WATCH" /\ due[s] # None /\ due[s] <= 0 /\ task[s] = "idle"
      ~> task[s] = "running" \/ seen[s] # "WATCH"

=============================================================================
