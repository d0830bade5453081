------------------------ MODULE HunterSchedule_proofs ------------------------
(***************************************************************************)
(* Theorems about HunterSchedule, for any number of symbols and slots, any *)
(* intervals and any bounds. The inductive invariant is type correctness,  *)
(* the relation between a deadline and the start it was computed from, the *)
(* limit on slots and the promise about the loop's sleep.                  *)
(***************************************************************************)
EXTENDS HunterSchedule, FiniteSetTheorems, TLAPS

\* The symbols whose evaluation has not returned.
Busy == {s \in Symbols : task[s] = "running"}

\* A start leaves a deadline behind it, and whatever promotions and late
\* rounds did since, the deadline is not before the shortest interval is over.
Spaced(deadline, began) ==
  \A s \in Symbols :
    began[s] # None => deadline[s] # None /\ deadline[s] + began[s] >= Shortest

Inv == TypeOK /\ Spaced(due, since) /\ SlotsHold /\ NoOversleep

-----------------------------------------------------------------------------
(* Lemmas about the operators. *)

\* What due_candidates returns is due, is not being evaluated, and fits.
LEMMA SelectionFits ==
  ASSUME NEW deadline, NEW busy \in SUBSET Symbols, NEW limit \in Nat,
         NEW S \in Selected(deadline, busy, limit)
  PROVE  /\ S \subseteq IsDue(deadline, busy)
         /\ IsFiniteSet(S)
         /\ Cardinality(S) <= limit
<1> DEFINE ready == IsDue(deadline, busy)
           Last(F) == {s \in F : \A t \in F : ~Before(deadline, s, t)}
           watch == {w \in ready : Watching(w)}
           first == {w \in watch : \A v \in watch : ~Before(deadline, v, w)}
           Reserved(F) == {(F \ {l}) \cup {w} : l \in Last(F), w \in first}
<1>1. PICK F \in Foremost(deadline, ready, limit) :
        S = F \/ S \in Reserved(F)
  BY DEF Selected
<1>2. IsFiniteSet(ready)
  BY FS_Subset, ScheduleAssumption DEF IsDue, Listed
<1>3. /\ F \subseteq ready /\ IsFiniteSet(F)
      /\ Cardinality(F) \in Nat /\ Cardinality(F) <= limit
  <2>1. F \subseteq ready /\ Cardinality(F) = Low(limit, Cardinality(ready))
    BY DEF Foremost
  <2>2. IsFiniteSet(F) /\ Cardinality(F) \in Nat /\ Cardinality(ready) \in Nat
    BY <2>1, <1>2, FS_Subset, FS_CardinalityType
  <2> QED BY <2>1, <2>2 DEF Low
<1>4. CASE S = F
  BY <1>4, <1>3
<1>5. CASE S \in Reserved(F)
  <2>1. PICK l \in F, w \in ready : S = (F \ {l}) \cup {w}
    BY <1>5
  <2>2. IsFiniteSet(F \ {l}) /\ Cardinality(F \ {l}) = Cardinality(F) - 1
    BY <1>3, <2>1, FS_RemoveElement
  <2>3. /\ IsFiniteSet((F \ {l}) \cup {w})
        /\ \/ Cardinality((F \ {l}) \cup {w}) = Cardinality(F \ {l})
           \/ Cardinality((F \ {l}) \cup {w}) = Cardinality(F \ {l}) + 1
    BY <2>2, FS_AddElement
  <2>4. Cardinality(S) <= Cardinality(F) /\ Cardinality(S) \in Int
    BY <1>3, <2>1, <2>2, <2>3
  <2>5. S \subseteq ready
    BY <1>3, <2>1
  <2> QED BY <1>3, <2>1, <2>3, <2>4, <2>5
<1> QED BY <1>1, <1>4, <1>5

\* sync keeps deadlines in their range and behind the start they follow.
LEMMA SyncSound ==
  ASSUME TypeOK, Spaced(due, since), NEW snapshot \in [Symbols -> States \cup {None}]
  PROVE  /\ SyncedDue(snapshot) \in [Symbols -> Deadline \cup {None}]
         /\ SyncedSince(snapshot) \in [Symbols -> 0..(Longest + MaxLate) \cup {None}]
         /\ Spaced(SyncedDue(snapshot), SyncedSince(snapshot))
<1> USE ScheduleAssumption
<1>1. ASSUME NEW s \in Symbols
      PROVE  /\ SyncedDue(snapshot)[s] \in Deadline \cup {None}
             /\ SyncedSince(snapshot)[s] \in 0..(Longest + MaxLate) \cup {None}
             /\ SyncedSince(snapshot)[s] # None =>
                  /\ SyncedDue(snapshot)[s] # None
                  /\ SyncedDue(snapshot)[s] + SyncedSince(snapshot)[s] >= Shortest
  <2>1. CASE snapshot[s] = None
    BY <2>1 DEF SyncedDue, SyncedSince
  <2>2. CASE snapshot[s] # None /\ since[s] = None
    <3>1. 0 \in Deadline /\ due[s] \in Deadline \cup {None}
      BY DEF Deadline, TypeOK
    <3> QED BY <2>2, <3>1 DEF SyncedDue, SyncedSince
  <2>3. CASE snapshot[s] # None /\ since[s] # None
    <3>1. /\ due[s] # None /\ due[s] \in Deadline /\ due[s] + since[s] >= Shortest
          /\ since[s] \in 0..(Longest + MaxLate)
          /\ Interval[snapshot[s]] \in Shortest..Longest
      BY <2>3 DEF Spaced, TypeOK
    <3>2. SyncedDue(snapshot)[s] =
            Low(due[s], High(-MaxLate, Interval[snapshot[s]] - since[s]))
      BY <2>3, <3>1 DEF SyncedDue
    <3>3. SyncedSince(snapshot)[s] = since[s]
      BY <2>3 DEF SyncedSince
    <3>4. /\ SyncedDue(snapshot)[s] \in Deadline
          /\ SyncedDue(snapshot)[s] + since[s] >= Shortest
      BY <3>1, <3>2 DEF Low, High, Deadline
    <3>5. SyncedDue(snapshot)[s] # None
      BY <3>4 DEF Deadline
    <3> QED BY <3>1, <3>3, <3>4, <3>5
  <2> QED BY <2>1, <2>2, <2>3
<1>2. SyncedDue(snapshot) \in [Symbols -> Deadline \cup {None}]
  BY <1>1 DEF SyncedDue
<1>3. SyncedSince(snapshot) \in [Symbols -> 0..(Longest + MaxLate) \cup {None}]
  BY <1>1 DEF SyncedSince
<1> QED BY <1>1, <1>2, <1>3 DEF Spaced

\* Every delay of the loop is a natural number.
LEMMA DelaysAreNat ==
  ASSUME TypeOK
  PROVE  Delays(Busy) \subseteq Nat /\ upkeep \in Delays(Busy)
<1> USE ScheduleAssumption
<1>1. upkeep \in Nat
  BY DEF TypeOK
<1>2. ASSUME NEW s \in Symbols, due[s] # None
      PROVE  High(0, due[s]) \in Nat
  BY <1>2 DEF TypeOK, Deadline, High
<1> QED BY <1>1, <1>2 DEF Delays, Listed

\* A round of dispatching, whichever branch it takes: what it starts is listed,
\* due and not being evaluated, and fits into the free slots.
LEMMA DispatchShape ==
  ASSUME Inv, Dispatch
  PROVE  \E deadline \in [Symbols -> Deadline \cup {None}],
            began \in [Symbols -> 0..(Longest + MaxLate) \cup {None}],
            chosen \in SUBSET (Listed \ Busy) :
              /\ Started(deadline, began, chosen)
              /\ Spaced(deadline, began)
              /\ \A s \in chosen : deadline[s] # None /\ deadline[s] <= 0
              /\ \A s \in chosen : began[s] = since[s]
              /\ IsFiniteSet(chosen)
              /\ Cardinality(Busy) + Cardinality(chosen) <= Slots
<1> USE ScheduleAssumption
<1>1. IsFiniteSet(Busy) /\ Cardinality(Busy) \in Nat /\ Cardinality(Busy) <= Slots
  <2>1. IsFiniteSet(InFlight) /\ Cardinality(InFlight) \in Nat
    BY FS_Subset, FS_CardinalityType DEF InFlight
  <2>2. Busy \in SUBSET InFlight
    BY DEF Busy, InFlight
  <2> QED BY <2>1, <2>2, FS_Subset, FS_CardinalityType DEF Inv, SlotsHold
<1> DEFINE free == Slots - Cardinality(Busy)
<1>2. CASE free > 0 /\ Listed # {}
  <2>1. PICK chosen \in Selected(SyncedDue(seen), Busy, free) :
          Started(SyncedDue(seen), SyncedSince(seen), chosen)
    BY <1>2 DEF Dispatch, Busy
  <2>2. free \in Nat /\ Busy \in SUBSET Symbols
    BY <1>1, <1>2 DEF Busy
  <2>3. /\ chosen \subseteq IsDue(SyncedDue(seen), Busy)
        /\ IsFiniteSet(chosen) /\ Cardinality(chosen) <= free
    BY <2>2, SelectionFits
  <2>4. /\ seen \in [Symbols -> States \cup {None}]
        /\ TypeOK /\ Spaced(due, since)
    BY DEF Inv, TypeOK
  <2>5. /\ SyncedDue(seen) \in [Symbols -> Deadline \cup {None}]
        /\ SyncedSince(seen) \in [Symbols -> 0..(Longest + MaxLate) \cup {None}]
        /\ Spaced(SyncedDue(seen), SyncedSince(seen))
    BY <2>4, SyncSound
  <2>6. chosen \in SUBSET (Listed \ Busy)
    BY <2>3 DEF IsDue
  <2>7. \A s \in chosen : SyncedDue(seen)[s] # None /\ SyncedDue(seen)[s] <= 0
    BY <2>3 DEF IsDue
  <2>8. \A s \in chosen : SyncedSince(seen)[s] = since[s]
    BY <2>6 DEF Listed, SyncedSince
  <2>9. Cardinality(Busy) + Cardinality(chosen) <= Slots
    BY <1>1, <2>3, FS_CardinalityType
  <2> QED BY <2>1, <2>3, <2>5, <2>6, <2>7, <2>8, <2>9
<1>3. CASE ~(free > 0 /\ Listed # {})
  <2>1. Started(due, since, {})
    BY <1>3 DEF Dispatch, Busy
  <2>2. Cardinality({}) = 0 /\ IsFiniteSet({})
    BY FS_EmptySet
  <2>3. Cardinality(Busy) + Cardinality({}) <= Slots
    BY <1>1, <2>2
  <2>4. /\ due \in [Symbols -> Deadline \cup {None}]
        /\ since \in [Symbols -> 0..(Longest + MaxLate) \cup {None}]
        /\ Spaced(due, since)
    BY DEF Inv, TypeOK
  <2> QED BY <2>1, <2>2, <2>3, <2>4
<1> QED BY <1>2, <1>3

-----------------------------------------------------------------------------
(* The invariant is inductive. *)

LEMMA InitInv ==
  ASSUME Init
  PROVE  Inv
<1> USE ScheduleAssumption
<1>1. TypeOK /\ Spaced(due, since) /\ NoOversleep
  BY DEF Init, TypeOK, Spaced, NoOversleep, High
<1>2. InFlight = {}
  BY DEF Init, InFlight
<1>3. SlotsHold
  BY <1>2, FS_EmptySet DEF SlotsHold
<1> QED BY <1>1, <1>3 DEF Inv

\* A dispatch keeps every part of the invariant.
LEMMA DispatchInv ==
  ASSUME Inv, Dispatch
  PROVE  Inv'
<1> USE ScheduleAssumption
<1>1. PICK deadline \in [Symbols -> Deadline \cup {None}],
           began \in [Symbols -> 0..(Longest + MaxLate) \cup {None}],
           chosen \in SUBSET (Listed \ Busy) :
             /\ Started(deadline, began, chosen)
             /\ Spaced(deadline, began)
             /\ IsFiniteSet(chosen)
             /\ Cardinality(Busy) + Cardinality(chosen) <= Slots
  BY DispatchShape
<1>2. ASSUME NEW s \in chosen
      PROVE  /\ s \in Symbols
             /\ Interval[seen[s]] \in Shortest..Longest
             /\ Interval[seen[s]] \in Deadline
             /\ Interval[seen[s]] # None
  BY <1>1 DEF Inv, TypeOK, Listed, Deadline
<1>3. TypeOK'
  <2>1. due' \in [Symbols -> Deadline \cup {None}]
    BY <1>1, <1>2 DEF Started
  <2>2. since' \in [Symbols -> 0..(Longest + MaxLate) \cup {None}]
    BY <1>1 DEF Started
  <2>3. task' \in [Symbols -> {"idle", "running", "done"}]
    BY <1>1 DEF Started, Reaped, Inv, TypeOK
  <2>4. age' \in [Symbols -> 0..MaxRun]
    BY <1>1 DEF Started, Inv, TypeOK
  <2> QED BY <2>1, <2>2, <2>3, <2>4 DEF Dispatch, Inv, TypeOK
<1>4. Spaced(due', since')
  <2> SUFFICES ASSUME NEW s \in Symbols, since'[s] # None
               PROVE  due'[s] # None /\ due'[s] + since'[s] >= Shortest
    BY DEF Spaced
  <2>1. CASE s \in chosen
    BY <2>1, <1>1, <1>2 DEF Started
  <2>2. CASE s \notin chosen
    BY <2>2, <1>1 DEF Started, Spaced
  <2> QED BY <2>1, <2>2
<1>5. SlotsHold'
  <2>1. InFlight' = Busy \cup chosen
    BY <1>1 DEF Started, InFlight, Busy, Reaped, Inv, TypeOK, Listed
  <2>2. IsFiniteSet(Busy)
    BY FS_Subset DEF Busy
  <2>3. Cardinality(Busy \cup chosen) = Cardinality(Busy) + Cardinality(chosen)
    <3>1. Busy \cap chosen = {}
      BY <1>1
    <3>2. Cardinality(Busy \cup chosen) =
            Cardinality(Busy) + Cardinality(chosen) - Cardinality(Busy \cap chosen)
      BY <1>1, <2>2, FS_Union
    <3>3. Cardinality(Busy \cap chosen) = 0
      BY <3>1, FS_EmptySet
    <3>4. Cardinality(Busy) \in Nat /\ Cardinality(chosen) \in Nat
      BY <1>1, <2>2, FS_CardinalityType
    <3> QED BY <3>2, <3>3, <3>4
  <2> QED BY <1>1, <2>1, <2>3 DEF SlotsHold
<1>6. NoOversleep'
  BY DEF Dispatch, NoOversleep
<1> QED BY <1>3, <1>4, <1>5, <1>6 DEF Inv

\* Going to sleep: the sleep is one of the delays and no longer than any.
LEMMA RestInv ==
  ASSUME Inv, Rest
  PROVE  Inv'
<1> USE ScheduleAssumption
<1>1. PICK n \in Delays(Busy) : wake' = n /\ \A m \in Delays(Busy) : n <= m
  BY DEF Rest, Busy
<1>2. n \in Nat /\ n <= upkeep /\ upkeep \in 0..Upkeep
  BY <1>1, DelaysAreNat DEF Inv, TypeOK
<1>3. TypeOK'
  <2>1. wake' \in 0..High(Upkeep, Longest)
    BY <1>1, <1>2 DEF High
  <2>2. task' \in [Symbols -> {"idle", "running", "done"}]
    BY DEF Rest, Reaped, Inv, TypeOK
  <2>3. age' \in [Symbols -> 0..MaxRun]
    BY DEF Rest, Inv, TypeOK
  <2> QED BY <2>1, <2>2, <2>3 DEF Rest, scheduleVars, Inv, TypeOK
<1>4. Spaced(due', since')
  BY DEF Rest, scheduleVars, Inv
<1>5. InFlight' = Busy
  BY DEF Rest, Reaped, InFlight, Busy, Inv, TypeOK
<1>6. SlotsHold'
  <2>1. Busy \in SUBSET InFlight /\ IsFiniteSet(InFlight)
    BY FS_Subset DEF Busy, InFlight
  <2>2. Cardinality(Busy) <= Cardinality(InFlight)
    BY <2>1, FS_Subset
  <2>3. Cardinality(Busy) \in Nat /\ Cardinality(InFlight) \in Nat
    BY <2>1, FS_Subset, FS_CardinalityType
  <2> QED BY <1>5, <2>2, <2>3 DEF SlotsHold, Inv
<1>7. NoOversleep'
  <2> SUFFICES ASSUME Cardinality(InFlight') < Slots,
                      NEW s \in Listed' \ InFlight', due'[s] # None
               PROVE  wake' <= High(0, due'[s])
    BY DEF NoOversleep
  <2>1. due' = due /\ Listed' = Listed
    BY DEF Rest, scheduleVars, Listed
  <2>2. High(0, due[s]) \in Delays(Busy)
    BY <1>5, <2>1 DEF Delays
  <2> QED BY <1>1, <2>1, <2>2
<1> QED BY <1>3, <1>4, <1>6, <1>7 DEF Inv

\* The clock: a saturated start is at least the longest interval old, and the
\* loop's sleep and the deadlines come nearer together.
LEMMA TickInv ==
  ASSUME Inv, Tick
  PROVE  Inv'
<1> USE ScheduleAssumption
<1>1. TypeOK'
  <2>1. due' \in [Symbols -> Deadline \cup {None}]
    BY DEF Tick, Inv, TypeOK, Deadline, High
  <2>2. since' \in [Symbols -> 0..(Longest + MaxLate) \cup {None}]
    BY DEF Tick, Inv, TypeOK, Low
  <2>3. age' \in [Symbols -> 0..MaxRun]
    BY DEF Tick, Inv, TypeOK
  <2>4. wake' \in 0..High(Upkeep, Longest) /\ upkeep' \in 0..Upkeep
    BY DEF Tick, Inv, TypeOK, High
  <2> QED BY <2>1, <2>2, <2>3, <2>4 DEF Tick, Inv, TypeOK
<1>2. Spaced(due', since')
  <2> SUFFICES ASSUME NEW s \in Symbols, since'[s] # None
               PROVE  due'[s] # None /\ due'[s] + since'[s] >= Shortest
    BY DEF Spaced
  <2>1. since[s] # None
    BY DEF Tick
  <2>2. /\ due[s] # None /\ due[s] \in Deadline /\ due[s] + since[s] >= Shortest
        /\ since[s] \in 0..(Longest + MaxLate)
    BY <2>1 DEF Inv, TypeOK, Spaced
  <2>3. /\ due'[s] = High(-MaxLate, due[s] - 1)
        /\ since'[s] = Low(Longest + MaxLate, since[s] + 1)
    BY <2>1, <2>2 DEF Tick
  <2>4. due'[s] \in Int /\ due'[s] + since'[s] >= Shortest
    BY <2>2, <2>3 DEF High, Low, Deadline
  <2> QED BY <2>4
<1>3. SlotsHold'
  BY DEF Tick, Inv, SlotsHold, InFlight
<1>4. NoOversleep'
  <2> SUFFICES ASSUME pc' = "asleep", Cardinality(InFlight') < Slots,
                      NEW s \in Listed' \ InFlight', due'[s] # None
               PROVE  wake' <= High(0, due'[s])
    BY DEF NoOversleep
  <2>1. /\ pc = "asleep" /\ wake # 0
        /\ InFlight' = InFlight /\ Listed' = Listed
    BY DEF Tick, MayWake, InFlight, Listed
  <2>2. s \in Symbols /\ due[s] # None /\ due'[s] = High(-MaxLate, due[s] - 1)
    BY <2>1 DEF Tick, Listed
  <2>3. wake <= High(0, due[s])
    BY <2>1, <2>2 DEF Inv, NoOversleep
  <2>4. wake \in Nat /\ due[s] \in Int /\ wake' = High(0, wake - 1)
    BY <2>2 DEF Tick, Inv, TypeOK, Deadline, High
  <2> QED BY <2>1, <2>2, <2>3, <2>4 DEF High
<1> QED BY <1>1, <1>2, <1>3, <1>4 DEF Inv

\* The steps of the loop that start nothing and do not go to sleep.
LEMMA OtherStepsInv ==
  ASSUME Inv, Maintain \/ MaintenanceFails \/ NoMaintenance \/ Written \/ WakeUp
  PROVE  Inv'
<1> USE ScheduleAssumption
<1>1. task' = task /\ age' = age /\ InFlight' = InFlight
  BY DEF Maintain, MaintenanceFails, NoMaintenance, Written, WakeUp, taskVars, InFlight
<1>2. pc' # "asleep"
  BY DEF Maintain, MaintenanceFails, NoMaintenance, Written, WakeUp
<1>3. SlotsHold' /\ NoOversleep'
  BY <1>1, <1>2 DEF Inv, SlotsHold, NoOversleep
<1>4. TypeOK' /\ Spaced(due', since')
  <2>1. CASE Maintain
    <3>1. PICK new \in [Symbols -> States \cup {None}] :
            Snapshot(new) /\ due' = SyncedDue(new) /\ since' = SyncedSince(new)
      BY <2>1 DEF Maintain
    <3>2. /\ due' \in [Symbols -> Deadline \cup {None}]
          /\ since' \in [Symbols -> 0..(Longest + MaxLate) \cup {None}]
          /\ Spaced(due', since')
      BY <3>1, SyncSound DEF Inv
    <3>3. seen' \in [Symbols -> States \cup {None}] /\ changes' \in 0..MaxChanges
      BY <3>1 DEF Snapshot, Inv, TypeOK
    <3> QED BY <2>1, <1>1, <3>2, <3>3 DEF Maintain, Inv, TypeOK
  <2>2. CASE MaintenanceFails
    <3>1. seen' \in [Symbols -> States \cup {None}] /\ changes' \in 0..MaxChanges
      BY <2>2 DEF MaintenanceFails, Snapshot, Inv, TypeOK
    <3> QED BY <2>2, <1>1, <3>1 DEF MaintenanceFails, scheduleVars, Inv, TypeOK
  <2>3. CASE NoMaintenance
    BY <2>3, <1>1 DEF NoMaintenance, scheduleVars, Inv, TypeOK
  <2>4. CASE Written
    BY <2>4, <1>1 DEF Written, scheduleVars, Inv, TypeOK
  <2>5. CASE WakeUp
    BY <2>5, <1>1 DEF WakeUp, scheduleVars, Inv, TypeOK, High
  <2> QED BY <2>1, <2>2, <2>3, <2>4, <2>5
<1> QED BY <1>3, <1>4 DEF Inv

LEMMA ReturnInv ==
  ASSUME Inv, NEW s \in Symbols, Return(s)
  PROVE  Inv'
<1>1. InFlight' = InFlight
  BY DEF Return, InFlight, Inv, TypeOK
<1>2. TypeOK'
  BY DEF Return, scheduleVars, loopVars, Inv, TypeOK
<1>3. SlotsHold' /\ NoOversleep' /\ Spaced(due', since')
  BY <1>1 DEF Return, scheduleVars, loopVars, Inv, SlotsHold, NoOversleep, Listed
<1> QED BY <1>2, <1>3 DEF Inv

LEMMA NextInv ==
  ASSUME Inv, [Next]_vars
  PROVE  Inv'
<1>1. CASE LoopStep
  BY <1>1, DispatchInv, RestInv, OtherStepsInv DEF LoopStep
<1>2. CASE Tick
  BY <1>2, TickInv
<1>3. CASE \E s \in Symbols : Return(s)
  BY <1>3, ReturnInv
<1>4. CASE UNCHANGED vars
  BY <1>4 DEF vars, scheduleVars, taskVars, loopVars, Inv, TypeOK, Spaced,
              SlotsHold, NoOversleep, InFlight, Listed
<1> QED BY <1>1, <1>2, <1>3, <1>4 DEF Next

-----------------------------------------------------------------------------
(* The theorems. *)

\* The inductive invariant holds in every reachable state.
THEOREM ScheduleInvariance == Spec => []Inv
<1> QED BY InitInv, NextInv, PTL DEF Spec

\* Every deadline, clock and counter of the schedule stays in its range.
THEOREM ScheduleTypes == Spec => []TypeOK
<1>1. Inv => TypeOK
  BY DEF Inv
<1> QED BY <1>1, ScheduleInvariance, PTL

\* The loop never has more evaluations in flight than it has slots, however often
\* the slot kept for WATCH work is used, nor does it sleep past the deadline of a
\* candidate that it has a slot for.
THEOREM SlotsAlwaysUsed == Spec => []SlotsAreUsed
<1>1. Inv => SlotsAreUsed
  BY DEF Inv, SlotsAreUsed
<1> QED BY <1>1, ScheduleInvariance, PTL

\* No evaluation is started beside a running evaluation of the same symbol.
LEMMA AgeOnlyGrows ==
  ASSUME Inv, [Next]_vars, NEW s \in Symbols,
         task[s] = "running", task'[s] = "running"
  PROVE  age'[s] >= age[s]
<1>1. age[s] \in Nat
  BY DEF Inv, TypeOK
<1>2. CASE Dispatch
  <2>1. PICK chosen \in SUBSET (Listed \ Busy) :
          age' = [t \in Symbols |->
                    IF t \in chosen \/ task[t] # "running" THEN 0 ELSE age[t]]
    BY <1>2, DispatchShape DEF Started
  <2>2. s \notin chosen
    BY <2>1 DEF Busy
  <2> QED BY <1>1, <2>1, <2>2
<1>3. CASE Tick
  BY <1>1, <1>3 DEF Tick
<1>4. CASE Rest
  BY <1>1, <1>4 DEF Rest
<1>5. CASE ~(Dispatch \/ Tick \/ Rest)
  <2>1. age' = age
    BY <1>5 DEF Next, LoopStep, Maintain, MaintenanceFails, NoMaintenance,
                    Written, WakeUp, Return, taskVars, vars
  <2> QED BY <1>1, <2>1
<1> QED BY <1>2, <1>3, <1>4, <1>5

\* A symbol is never evaluated twice at once, and two starts of a listed one are
\* the shortest interval apart.
THEOREM StartsStayApart == Spec => StartsKeepDistance
<1>1. ASSUME Inv, [Next]_vars, NEW s \in Symbols,
             task[s] # "running", task'[s] = "running", since[s] # None
      PROVE  since[s] >= Shortest
  <2>1. Dispatch
    BY <1>1 DEF Next, LoopStep, Maintain, MaintenanceFails, NoMaintenance, Written,
                Rest, Reaped, WakeUp, Return, Tick, taskVars, vars, Inv, TypeOK
  <2>2. PICK deadline \in [Symbols -> Deadline \cup {None}],
             began \in [Symbols -> 0..(Longest + MaxLate) \cup {None}],
             chosen \in SUBSET (Listed \ Busy) :
               /\ Started(deadline, began, chosen)
               /\ Spaced(deadline, began)
               /\ \A t \in chosen : deadline[t] # None /\ deadline[t] <= 0
               /\ \A t \in chosen : began[t] = since[t]
    BY <1>1, <2>1, DispatchShape
  <2>3. s \in chosen
    BY <1>1, <2>2 DEF Started, Reaped, Inv, TypeOK
  <2>4. /\ deadline[s] <= 0 /\ deadline[s] + since[s] >= Shortest
        /\ deadline[s] \in Int /\ since[s] \in Int
    BY <1>1, <2>2, <2>3, ScheduleAssumption DEF Spaced, Inv, TypeOK, Deadline
  <2> QED BY <2>4, ScheduleAssumption
<1>2. Inv /\ [Next]_vars =>
        [\A s \in Symbols :
           /\ task[s] = "running" /\ task'[s] = "running" => age'[s] >= age[s]
           /\ task[s] # "running" /\ task'[s] = "running" /\ since[s] # None
                => since[s] >= Shortest]_vars
  BY <1>1, AgeOnlyGrows
<1> QED BY <1>2, ScheduleInvariance, PTL DEF Spec, StartsKeepDistance

=============================================================================
