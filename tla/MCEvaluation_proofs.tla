--------------------------- MODULE MCEvaluation_proofs ---------------------------
(***************************************************************************)
(* What an evaluation reads and leaves behind beside its decision, for any *)
(* value of the constants.  Each section proves an inductive invariant of  *)
(* one component from the component's own Init and Next; the last one      *)
(* carries the properties over to the specification that the run checks.   *)
(***************************************************************************)
EXTENDS MCEvaluation, FiniteSetTheorems, SequenceTheorems, TLAPS

(***************************************************************************)
(* The trail of a trigger (TriggerTrail).  Two facts strengthen the        *)
(* properties: an evaluation names a signal of the ledger or none, and an  *)
(* episode that has events has a newest one.                               *)
(***************************************************************************)

TrailStatuses == {"WATCH", "ARMED", "TRIGGERED"}
TrailStates   == {"WATCH", "FUEL-RICH", "PRE-TRIGGER", "ARMED", "TRIGGERED", "terminal"}
ShadowReasons  == {"immutable", "insufficient", "unconfirmed", "over", "confirmed"}

Todos    == Seq({"shadow", "final"})

TrailRow   == [listing : Nat, eligible : BOOLEAN, status : TrailStatuses]
TrailRun   == [pc : {"idle", "analysing", "writing"}, listing : Nat, status : TrailStatuses,
          current : BOOLEAN, todo : Todos, signal : Nat]
TrailEvent == [episode : Nat, from : TrailStates, to : TrailStates, reason : ShadowReasons]

TrailTypeOK ==
  /\ row \in TrailRow /\ known \in TrailRow /\ trailRun \in TrailRun
  /\ signals \in Seq(TrailStatuses)

NamesItsSignal == trailRun.signal <= Len(signals)

LedgerInv == TrailTypeOK /\ NamesItsSignal /\ Trail!TriggeredOncePerRise

\* Of the first n events, k is the newest one of its episode.
IsNewest(k, n) ==
  /\ k \in 1..n
  /\ \A j \in k + 1 .. n : events[j].episode # events[k].episode

HasNewest ==
  \A n \in 0..Len(events) : \A i \in 1..n :
    \E k \in 1..n : IsNewest(k, n) /\ events[k].episode = events[i].episode

ShadowInv == events \in Seq(TrailEvent) /\ HasNewest /\ Trail!EpisodesAreSeparate

TrailInv == LedgerInv /\ ShadowInv

-----------------------------------------------------------------------------
(* The operators. *)

\* The evidence keeps a state within the chain and its end, and the end is final
\* (lifecycle_v2_shadow.py, _next_state).
LEMMA NextStateIsState ==
  ASSUME NEW state \in TrailStates, NEW ev \in Trail!Findings
  PROVE  /\ Trail!NextState(state, ev).to \in TrailStates
         /\ Trail!NextState(state, ev).reason \in ShadowReasons
         /\ state = "terminal" => Trail!NextState(state, ev).to = "terminal"
<1>1. CASE state = "terminal"
  BY <1>1 DEF Trail!NextState, TrailStates, ShadowReasons
<1>2. CASE state # "terminal" /\ ev \in {"insufficient", "unconfirmed"}
  BY <1>2 DEF Trail!NextState, ShadowReasons
<1>3. CASE state # "terminal" /\ ev = "terminal"
  BY <1>3 DEF Trail!NextState, TrailStates, ShadowReasons
<1>4. CASE state # "terminal" /\ ev \in {"open", "closed"}
  <2> DEFINE i == CHOOSE k \in 1..5 : Trail!Chain[k] = state
  <2>1. \E k \in 1..5 : Trail!Chain[k] = state
    BY <1>4, SMT DEF TrailStates, Trail!Chain
  <2>2. i \in 1..5 /\ Trail!Chain[i] = state
    BY <2>1
  <2> HIDE DEF i
  <2>3. state # "TRIGGERED" => Trail!Chain[i + 1] \in TrailStates
    BY <2>2, SMT DEF TrailStates, Trail!Chain
  <2>4. CASE \/ state = "TRIGGERED" \/ (state = "PRE-TRIGGER" /\ ev = "closed")
             \/ (state = "ARMED" /\ ev = "open")
    BY <1>4, <2>4 DEF Trail!NextState, ShadowReasons
  <2>5. CASE ~(\/ state = "TRIGGERED" \/ (state = "PRE-TRIGGER" /\ ev = "closed")
               \/ (state = "ARMED" /\ ev = "open"))
    <3>1. Trail!NextState(state, ev) = [to |-> Trail!Chain[i + 1], reason |-> "confirmed"]
      BY <1>4, <2>5 DEF Trail!NextState, i
    <3> QED BY <1>4, <2>3, <2>5, <3>1 DEF ShadowReasons
  <2> QED BY <2>4, <2>5
<1> QED BY <1>1, <1>2, <1>3, <1>4 DEF Trail!Findings

\* The state that an episode is in is WATCH, or that of its newest event.
LEMMA LatestIsNewest ==
  ASSUME events \in Seq(TrailEvent), HasNewest, NEW episode
  PROVE  /\ (\A i \in 1..Len(events) : events[i].episode # episode)
              => Trail!LatestState(episode) = "WATCH"
         /\ \A k \in 1..Len(events) :
              (IsNewest(k, Len(events)) /\ events[k].episode = episode)
                => Trail!LatestState(episode) = events[k].to
         /\ Trail!LatestState(episode) \in TrailStates
<1>1. \A k \in 1..Len(events) :
        k \in Trail!Newest(episode) <=> IsNewest(k, Len(events)) /\ events[k].episode = episode
  BY DEF Trail!Newest, IsNewest
<1>2. ASSUME NEW k \in Trail!Newest(episode), NEW l \in Trail!Newest(episode) PROVE k = l
  <2>1. Len(events) \in Nat
    BY LenProperties
  <2> QED BY <2>1, SMT DEF Trail!Newest
<1>0. Len(events) \in 0..Len(events)
  BY LenProperties, SMT
<1>3. CASE Trail!Newest(episode) = {}
  <2>1. Trail!LatestState(episode) = "WATCH"
    BY <1>3 DEF Trail!LatestState
  <2> QED BY <1>1, <1>3, <2>1 DEF TrailStates
<1>4. CASE Trail!Newest(episode) # {}
  <2>1. PICK k : k \in Trail!Newest(episode)
    BY <1>4
  <2>2. (CHOOSE j \in Trail!Newest(episode) : TRUE) = k
    BY <1>2, <2>1
  <2>3. Trail!LatestState(episode) = events[k].to
    BY <1>4, <2>2 DEF Trail!LatestState
  <2>4. k \in 1..Len(events) /\ events[k].episode = episode
    BY <2>1 DEF Trail!Newest
  <2>5. events[k] \in TrailEvent
    BY <2>4, ElementOfSeq
  <2> QED BY <1>1, <1>2, <2>1, <2>3, <2>4, <2>5 DEF TrailEvent
<1> QED BY <1>3, <1>4

-----------------------------------------------------------------------------
(* The ledger. *)

\* What an evaluation may still have to write.
LEMMA TodosAreSequences ==
  /\ <<>> \in Todos /\ <<"shadow">> \in Todos
  /\ <<"shadow", "final">> \in Todos /\ <<"final", "shadow">> \in Todos
  BY DEF Todos

LEMMA IdleIsRun == Trail!Idle \in TrailRun /\ Trail!Idle.signal = 0
  BY TodosAreSequences, SMT DEF Trail!Idle, TrailRun, TrailStatuses

LEMMA LedgerInitially == Trail!Init => LedgerInv
<1> SUFFICES ASSUME Trail!Init PROVE LedgerInv
  OBVIOUS
<1>1. row \in TrailRow /\ known \in TrailRow
  BY SMT DEF Trail!Init, Trail!Unknown, TrailRow, TrailStatuses
<1>2. signals \in Seq(TrailStatuses) /\ Len(signals) = 0 /\ finals = {}
  BY EmptySeq DEF Trail!Init
<1> QED
  BY <1>1, <1>2, IdleIsRun, SMT
  DEF Trail!Init, LedgerInv, TrailTypeOK, NamesItsSignal, Trail!TriggeredOncePerRise

\* A run is its fields, so one with a field replaced is a run again.
LEMMA RunFields ==
  ASSUME trailRun \in TrailRun
  PROVE  /\ trailRun = [pc |-> trailRun.pc, listing |-> trailRun.listing, status |-> trailRun.status,
                   current |-> trailRun.current, todo |-> trailRun.todo, signal |-> trailRun.signal]
         /\ trailRun.pc \in {"idle", "analysing", "writing"} /\ trailRun.listing \in Nat
         /\ trailRun.status \in TrailStatuses /\ trailRun.current \in BOOLEAN
         /\ trailRun.todo \in Todos /\ trailRun.signal \in Nat
  BY DEF TrailRun

\* A step that leaves the ledger alone, and names the signal that it named or none.
LEMMA LedgerKept ==
  ASSUME LedgerInv, UNCHANGED <<signals, finals>>,
         row' \in TrailRow, known' \in TrailRow, trailRun' \in TrailRun, trailRun'.signal \in {0, trailRun.signal}
  PROVE  LedgerInv'
<1>1. Len(signals) \in Nat
  BY LenProperties DEF LedgerInv, TrailTypeOK
<1> QED
  BY <1>1, SMT DEF LedgerInv, TrailTypeOK, NamesItsSignal, Trail!TriggeredOncePerRise

LEMMA WriteIsRow ==
  ASSUME row \in TrailRow, NEW status \in TrailStatuses, Trail!Write(status)
  PROVE  row' \in TrailRow
  BY SMT DEF Trail!Write, TrailRow, TrailStatuses

LEMMA LeaveIsRun ==
  ASSUME trailRun \in TrailRun, NEW todo \in Todos, NEW signal \in Nat, Trail!Leave(todo, signal)
  PROVE  trailRun' \in TrailRun /\ trailRun'.signal = signal
<1>1. trailRun' = [pc |-> "writing", listing |-> trailRun.listing, status |-> trailRun.status,
              current |-> trailRun.current, todo |-> todo, signal |-> signal]
  BY RunFields DEF Trail!Leave
<1> QED BY <1>1, RunFields DEF TrailRun

LEMMA RestIsRun ==
  ASSUME trailRun \in TrailRun, NEW rest \in Todos
  PROVE  [trailRun EXCEPT !.todo = rest] \in TrailRun /\ [trailRun EXCEPT !.todo = rest].signal = trailRun.signal
<1>1. [trailRun EXCEPT !.todo = rest] =
        [pc |-> trailRun.pc, listing |-> trailRun.listing, status |-> trailRun.status,
         current |-> trailRun.current, todo |-> rest, signal |-> trailRun.signal]
  BY RunFields
<1> QED BY <1>1, RunFields DEF TrailRun

\* What is still to write gets shorter, or the evaluation ends.
LEMMA WrittenIsRun ==
  ASSUME trailRun \in TrailRun, trailRun.todo # <<>>,
         trailRun' = IF Len(trailRun.todo) = 1 THEN Trail!Idle ELSE [trailRun EXCEPT !.todo = Tail(@)]
  PROVE  trailRun' \in TrailRun /\ trailRun'.signal \in {0, trailRun.signal}
<1>1. trailRun.todo \in Todos
  BY DEF TrailRun
<1>2. Tail(trailRun.todo) \in Todos
  BY <1>1, HeadTailProperties DEF Todos
<1>3. CASE Len(trailRun.todo) = 1
  BY <1>3, IdleIsRun
<1>4. CASE Len(trailRun.todo) # 1
  BY <1>2, <1>4, RestIsRun
<1> QED BY <1>3, <1>4

\* The catalogue replaces the candidate.
LEMMA OutdatedIsRun ==
  ASSUME trailRun \in TrailRun, trailRun' = [trailRun EXCEPT !.current = FALSE]
  PROVE  trailRun' \in TrailRun /\ trailRun'.signal = trailRun.signal
<1>1. trailRun' = [pc |-> trailRun.pc, listing |-> trailRun.listing, status |-> trailRun.status,
              current |-> FALSE, todo |-> trailRun.todo, signal |-> trailRun.signal]
  BY RunFields
<1> QED BY <1>1, RunFields DEF TrailRun

LEMMA LedgerStep == LedgerInv /\ [Trail!Next]_(Trail!trailVars) => LedgerInv'
<1> SUFFICES ASSUME LedgerInv, [Trail!Next]_(Trail!trailVars) PROVE LedgerInv'
  OBVIOUS
<1>0. row \in TrailRow /\ known \in TrailRow /\ trailRun \in TrailRun /\ Len(signals) \in Nat
  BY LenProperties DEF LedgerInv, TrailTypeOK
<1> USE <1>0, TodosAreSequences
<1>1. ASSUME Trail!Read PROVE LedgerInv'
  <2>1. known' \in TrailRow
    BY <1>1, SMT DEF Trail!Read, Trail!Unknown, TrailRow, TrailStatuses
  <2> QED BY <1>1, <2>1, LedgerKept DEF Trail!Read
<1>2. ASSUME Trail!Begin PROVE LedgerInv'
  <2>1. trailRun' = [pc |-> "analysing", listing |-> known.listing, status |-> known.status,
                current |-> TRUE, todo |-> <<>>, signal |-> 0]
    BY <1>2 DEF Trail!Begin, Trail!Idle
  <2>2. known.listing \in Nat /\ known.status \in TrailStatuses
    BY DEF TrailRow
  <2>3. trailRun' \in TrailRun /\ trailRun'.signal = 0
    BY <2>1, <2>2 DEF TrailRun
  <2> QED BY <1>2, <2>3, LedgerKept DEF Trail!Begin
<1>3. ASSUME Trail!Abandon PROVE LedgerInv'
  BY <1>3, LedgerKept, IdleIsRun DEF Trail!Abandon
<1>4. ASSUME Trail!Unavailable PROVE LedgerInv'
  <2>1. trailRun' \in TrailRun /\ trailRun'.signal = 0
    BY <1>4, LeaveIsRun DEF Trail!Unavailable
  <2>2. row' \in TrailRow
    BY <1>4, WriteIsRow DEF Trail!Unavailable, TrailStatuses
  <2> QED BY <1>4, <2>1, <2>2, LedgerKept DEF Trail!Unavailable
<1>5. ASSUME NEW status \in {"WATCH", "ARMED"}, Trail!Observe(status) PROVE LedgerInv'
  <2>1. trailRun' \in TrailRun /\ trailRun'.signal = 0
    BY <1>5, LeaveIsRun DEF Trail!Observe
  <2>2. row' \in TrailRow
    BY <1>5, WriteIsRow DEF Trail!Observe, TrailStatuses
  <2> QED BY <1>5, <2>1, <2>2, LedgerKept DEF Trail!Observe
<1>6. ASSUME Trail!SuppressStale PROVE LedgerInv'
  <2>1. trailRun' \in TrailRun /\ trailRun'.signal = 0
    BY <1>6, LeaveIsRun DEF Trail!SuppressStale
  <2> QED BY <1>6, <2>1, LedgerKept DEF Trail!SuppressStale
<1>7. ASSUME Trail!Veto PROVE LedgerInv'
  <2>1. trailRun' \in TrailRun /\ trailRun'.signal = 0
    BY <1>7, LeaveIsRun DEF Trail!Veto
  <2>2. row' \in TrailRow
    BY <1>7, WriteIsRow DEF Trail!Veto, TrailStatuses
  <2> QED BY <1>7, <2>1, <2>2, LedgerKept DEF Trail!Veto
<1>8. ASSUME Trail!RejectMetadata PROVE LedgerInv'
  <2>1. trailRun' \in TrailRun /\ trailRun'.signal = 0
    BY <1>8, LeaveIsRun DEF Trail!RejectMetadata
  <2> QED BY <1>8, <2>1, LedgerKept DEF Trail!RejectMetadata
<1>9. ASSUME Trail!Persist PROVE LedgerInv'
  <2>1. row' \in TrailRow /\ row.status \in TrailStatuses
    BY <1>9, SMT DEF Trail!Persist, TrailRow, TrailStatuses
  <2>2. row.status # "TRIGGERED"
    BY <1>9 DEF Trail!Persist, Trail!Compares
  <2>3. Len(signals) + 1 \in Nat
    OBVIOUS
  <2>4. trailRun' \in TrailRun /\ trailRun'.signal = Len(signals) + 1
    BY <1>9, <2>3, LeaveIsRun DEF Trail!Persist
  <2>5. /\ signals' \in Seq(TrailStatuses) /\ Len(signals') = Len(signals) + 1
        /\ \A i \in 1..Len(signals) : signals'[i] = signals[i]
        /\ signals'[Len(signals) + 1] = row.status
    BY <1>9, <2>1, AppendProperties DEF Trail!Persist, LedgerInv, TrailTypeOK
  <2>6. \A i \in 1..Len(signals') : signals'[i] # "TRIGGERED"
    BY <2>2, <2>5, SMT DEF LedgerInv, Trail!TriggeredOncePerRise
  <2>7. finals' \subseteq 1..Len(signals')
    BY <1>9, <2>5, SMT DEF LedgerInv, Trail!TriggeredOncePerRise, Trail!Persist
  <2>8. trailRun'.signal <= Len(signals')
    BY <2>4, <2>5, SMT
  <2> QED
    BY <1>9, <2>1, <2>4, <2>5, <2>6, <2>7, <2>8
    DEF Trail!Persist, LedgerInv, TrailTypeOK, NamesItsSignal, Trail!TriggeredOncePerRise
<1>10. ASSUME Trail!PersistenceRejected PROVE LedgerInv'
  <2>1. trailRun' \in TrailRun /\ trailRun'.signal = 0
    BY <1>10, LeaveIsRun DEF Trail!PersistenceRejected
  <2> QED BY <1>10, <2>1, LedgerKept DEF Trail!PersistenceRejected
<1>11. ASSUME NEW ev \in Trail!Findings, NEW kept \in BOOLEAN, Trail!AppendShadow(ev, kept)
       PROVE  LedgerInv'
  <2>1. trailRun' \in TrailRun /\ trailRun'.signal \in {0, trailRun.signal}
    BY <1>11, WrittenIsRun DEF Trail!AppendShadow
  <2> QED BY <1>11, <2>1, LedgerKept DEF Trail!AppendShadow
<1>12. ASSUME NEW kept \in BOOLEAN, Trail!RecordFinal(kept) PROVE LedgerInv'
  <2>1. trailRun' \in TrailRun /\ trailRun'.signal \in {0, trailRun.signal}
    BY <1>12, WrittenIsRun DEF Trail!RecordFinal
  <2>2. trailRun.signal \in Nat
    BY DEF TrailRun
  <2>3. finals' \subseteq 1..Len(signals)
    BY <1>12, <2>2, SMT DEF Trail!RecordFinal, LedgerInv, NamesItsSignal, Trail!TriggeredOncePerRise
  <2>4. trailRun'.signal <= Len(signals)
    BY <2>1, <2>2, SMT DEF LedgerInv, NamesItsSignal
  <2> QED
    BY <1>12, <2>1, <2>3, <2>4
    DEF Trail!RecordFinal, LedgerInv, TrailTypeOK, NamesItsSignal, Trail!TriggeredOncePerRise
<1>13. ASSUME Trail!Drop PROVE LedgerInv'
  <2>1. trailRun' \in TrailRun /\ trailRun'.signal = trailRun.signal
    BY <1>13, OutdatedIsRun DEF Trail!Drop
  <2>2. row' \in TrailRow
    BY <1>13 DEF Trail!Drop, TrailRow, TrailStatuses
  <2> QED BY <1>13, <2>1, <2>2, LedgerKept DEF Trail!Drop
<1>14. ASSUME Trail!Return PROVE LedgerInv'
  <2>1. trailRun' \in TrailRun /\ trailRun'.signal = trailRun.signal
    BY <1>14, OutdatedIsRun DEF Trail!Return
  <2>2. row' \in TrailRow
    BY <1>14, SMT DEF Trail!Return, TrailRow, TrailStatuses
  <2> QED BY <1>14, <2>1, <2>2, LedgerKept DEF Trail!Return
<1>15. ASSUME Trail!Restart PROVE LedgerInv'
  <2>1. known' \in TrailRow
    BY <1>15, SMT DEF Trail!Restart, Trail!Unknown, TrailRow, TrailStatuses
  <2> QED BY <1>15, <2>1, IdleIsRun, LedgerKept DEF Trail!Restart
<1>16. CASE UNCHANGED Trail!trailVars
  BY <1>16, LedgerKept DEF Trail!trailVars
<1> QED
  BY <1>1, <1>2, <1>3, <1>4, <1>5, <1>6, <1>7, <1>8, <1>9, <1>10, <1>11, <1>12, <1>13,
     <1>14, <1>15, <1>16 DEF Trail!Next

-----------------------------------------------------------------------------
(* The shadow. *)

LEMMA ShadowInitially == Trail!Init => ShadowInv
  BY EmptySeq DEF Trail!Init, ShadowInv, HasNewest, Trail!EpisodesAreSeparate

\* An event is appended that starts where its episode is.
LEMMA ShadowAppend ==
  ASSUME ShadowInv, NEW event \in TrailEvent, events' = Append(events, event),
         event.from = Trail!LatestState(event.episode),
         event.from = "terminal" => event.to = "terminal"
  PROVE  ShadowInv'
<1>1. events \in Seq(TrailEvent) /\ HasNewest /\ Trail!EpisodesAreSeparate
  BY DEF ShadowInv
<1>2. PICK n \in Nat : n = Len(events)
  BY <1>1, LenProperties
<1>3. /\ events' \in Seq(TrailEvent) /\ Len(events') = n + 1
      /\ \A i \in 1..n : events'[i] = events[i]
      /\ events'[n + 1] = event
  BY <1>1, <1>2, AppendProperties
<1>4. /\ (\A i \in 1..n : events[i].episode # event.episode) => event.from = "WATCH"
      /\ \A k \in 1..n : (IsNewest(k, n) /\ events[k].episode = event.episode)
                            => event.from = events[k].to
  BY <1>1, <1>2, LatestIsNewest
<1>5. \A m \in 0..n : \A i \in 1..m :
        \E k \in 1..m : IsNewest(k, m) /\ events[k].episode = events[i].episode
  BY <1>1, <1>2 DEF HasNewest
<1>51. \A i \in 1..n : \E k \in 1..n : IsNewest(k, n) /\ events[k].episode = events[i].episode
  <2>1. n \in 0..n
    BY SMT
  <2> QED BY <1>5, <2>1
\* Of the events that there were, the newest ones are the same.
<1>6. ASSUME NEW m \in 0..n, NEW k \in 1..m PROVE IsNewest(k, m)' <=> IsNewest(k, m)
  <2>1. events'[k] = events[k] /\ \A j \in k + 1 .. m : events'[j] = events[j]
    BY <1>3, SMT
  <2> QED BY <2>1 DEF IsNewest
<1>7. HasNewest'
  <2> SUFFICES ASSUME NEW m \in 0..n + 1, NEW i \in 1..m
               PROVE  \E k \in 1..m : IsNewest(k, m)' /\ events'[k].episode = events'[i].episode
    BY <1>3 DEF HasNewest
  <2>1. CASE m \in 0..n
    <3>1. PICK k \in 1..m : IsNewest(k, m) /\ events[k].episode = events[i].episode
      BY <1>5, <2>1
    <3>2. IsNewest(k, m)'
      BY <1>6, <2>1, <3>1
    <3>3. events'[k] = events[k] /\ events'[i] = events[i]
      BY <1>3, <2>1, SMT
    <3> QED BY <3>1, <3>2, <3>3
  <2>2. CASE m = n + 1 /\ events'[i].episode = event.episode
    <3>1. IsNewest(m, m)'
      BY <2>2, SMT DEF IsNewest
    <3>2. m \in 1..m /\ events'[m] = event
      BY <1>3, <2>2, SMT
    <3> QED BY <2>2, <3>1, <3>2
  <2>3. CASE m = n + 1 /\ events'[i].episode # event.episode
    <3>1. i \in 1..n /\ events'[i] = events[i]
      BY <1>3, <2>3, SMT
    <3>2. PICK k \in 1..n : IsNewest(k, n) /\ events[k].episode = events[i].episode
      BY <1>51, <3>1
    <3>3. k \in 1..m /\ events'[k] = events[k]
      BY <1>3, <2>3, SMT
    <3>4. IsNewest(k, m)'
      <4> SUFFICES ASSUME NEW j \in k + 1 .. m PROVE events'[j].episode # events[k].episode
        BY <3>3 DEF IsNewest
      <4>1. CASE j = n + 1
        BY <1>3, <2>3, <3>1, <3>2, <4>1
      <4>2. CASE j # n + 1
        <5>1. j \in k + 1 .. n /\ events'[j] = events[j]
          BY <1>3, <2>3, <4>2, SMT
        <5> QED BY <3>2, <5>1 DEF IsNewest
      <4> QED BY <4>1, <4>2
    <3>5. events'[k].episode = events'[i].episode
      BY <3>1, <3>2, <3>3
    <3> QED BY <3>3, <3>4, <3>5
  <2>4. m \in 0..n \/ m = n + 1
    BY SMT
  <2> QED BY <2>1, <2>2, <2>3, <2>4
<1> DEFINE Before(k) == {j \in 1..k - 1 : events[j].episode = events[k].episode}
           Last(k) == CHOOSE j \in Before(k) : \A i \in Before(k) : i <= j
           IsPath(k) == /\ events[k].from = IF Before(k) = {} THEN "WATCH"
                                                             ELSE events[Last(k)].to
                        /\ events[k].from = "terminal" => events[k].to = "terminal"
<1>8. ASSUME NEW k \in 1..n PROVE IsPath(k)'
  <2>1. IsPath(k)
    BY <1>1, <1>2 DEF Trail!EpisodesAreSeparate
  <2>2. Before(k)' = Before(k) /\ events'[k] = events[k]
    BY <1>3, SMT
  <2>3. ASSUME Before(k) # {} PROVE Last(k) \in 1..n
    <3>1. PICK i \in 1..k - 1 : events[i].episode = events[k].episode
      BY <2>3
    <3>2. PICK l \in 1..k - 1 : IsNewest(l, k - 1) /\ events[l].episode = events[i].episode
      <4>1. k - 1 \in 0..n
        BY SMT
      <4> QED BY <1>5, <3>1, <4>1
    <3>3. l \in Before(k)
      BY <3>1, <3>2
    <3>4. \A j \in Before(k) : j <= l
      BY <3>1, <3>2, SMT DEF IsNewest
    <3>5. Last(k) \in Before(k)
      BY <3>3, <3>4
    <3> QED BY <3>5, SMT
  <2>4. Before(k) # {} => events'[Last(k)] = events[Last(k)]
    BY <1>3, <2>3
  <2> QED BY <2>1, <2>2, <2>4
<1>9. IsPath(n + 1)'
  <2> DEFINE B == {j \in 1..n : events[j].episode = event.episode}
  <2>1. Before(n + 1)' = B
    BY <1>3, SMT
  <2>2. CASE B = {}
    <3>1. event.from = "WATCH"
      BY <1>4, <2>2
    <3> QED BY <1>3, <2>1, <2>2, <3>1
  <2>3. CASE B # {}
    <3>1. PICK i \in 1..n : events[i].episode = event.episode
      BY <2>3
    <3>2. PICK l \in 1..n : IsNewest(l, n) /\ events[l].episode = events[i].episode
      BY <1>51, <3>1
    <3>3. l \in B /\ \A j \in B : j <= l
      BY <3>1, <3>2, SMT DEF IsNewest
    <3>4. (CHOOSE j \in B : \A m \in B : m <= j) = l
      BY <3>3, SMT
    <3>5. Last(n + 1)' = l
      BY <2>1, <3>4
    <3>6. event.from = events'[l].to
      BY <1>3, <1>4, <3>1, <3>2
    <3> QED BY <1>3, <2>1, <2>3, <3>5, <3>6
  <2> QED BY <2>2, <2>3
<1>10. Trail!EpisodesAreSeparate'
  <2> SUFFICES ASSUME NEW k \in 1..n + 1 PROVE IsPath(k)'
    BY <1>3 DEF Trail!EpisodesAreSeparate
  <2> HIDE DEF IsPath
  <2>1. k \in 1..n \/ k = n + 1
    BY SMT
  <2> QED BY <1>8, <1>9, <2>1
<1> QED BY <1>3, <1>7, <1>10 DEF ShadowInv

LEMMA ShadowStep == TrailInv /\ [Trail!Next]_(Trail!trailVars) => ShadowInv'
<1> SUFFICES ASSUME TrailInv, [Trail!Next]_(Trail!trailVars) PROVE ShadowInv'
  OBVIOUS
<1>1. CASE UNCHANGED events
  <2>1. HasNewest'
    BY <1>1 DEF TrailInv, ShadowInv, HasNewest, IsNewest
  <2>2. Trail!EpisodesAreSeparate'
    <3> DEFINE Paths(log) ==
          \A k \in 1..Len(log) :
            LET before == {j \in 1..k - 1 : log[j].episode = log[k].episode}
                last == CHOOSE j \in before : \A i \in before : i <= j
            IN /\ log[k].from = IF before = {} THEN "WATCH" ELSE log[last].to
               /\ log[k].from = "terminal" => log[k].to = "terminal"
    <3>1. Paths(events)
      BY DEF TrailInv, ShadowInv, Trail!EpisodesAreSeparate
    <3>2. Paths(events) => Paths(events')
      <4> HIDE DEF Paths
      <4> QED BY <1>1
    <3> QED BY <3>1, <3>2 DEF Trail!EpisodesAreSeparate
  <2> QED BY <1>1, <2>1, <2>2 DEF TrailInv, ShadowInv
<1>2. ASSUME NEW ev \in Trail!Findings, NEW kept \in BOOLEAN, Trail!AppendShadow(ev, kept)
      PROVE  ShadowInv'
  <2> DEFINE from == Trail!LatestState(trailRun.listing)
             next == Trail!NextState(from, ev)
             event == [episode |-> trailRun.listing, from |-> from, to |-> next.to,
                       reason |-> next.reason]
  <2>1. trailRun.listing \in Nat /\ from \in TrailStates
    BY LatestIsNewest DEF TrailInv, LedgerInv, TrailTypeOK, TrailRun, ShadowInv
  <2>2. /\ event \in TrailEvent
        /\ event.from = "terminal" => event.to = "terminal"
        /\ event.episode = trailRun.listing /\ event.from = from
    BY <2>1, NextStateIsState DEF TrailEvent
  <2>3. events' = Append(events, event) \/ UNCHANGED events
    BY <1>2 DEF Trail!AppendShadow
  <2> HIDE DEF event
  <2>4. CASE events' = Append(events, event)
    <3>1. ShadowInv
      BY DEF TrailInv
    <3>2. event.from = Trail!LatestState(event.episode)
      BY <2>2
    <3> HIDE DEF from
    <3> QED BY <2>2, <2>4, <3>1, <3>2, ShadowAppend
  <2> QED BY <1>1, <2>3, <2>4
<1>3. UNCHANGED events \/ \E ev \in Trail!Findings, kept \in BOOLEAN : Trail!AppendShadow(ev, kept)
  BY DEF Trail!Next, Trail!Read, Trail!Begin, Trail!Abandon, Trail!Unavailable, Trail!Observe, Trail!SuppressStale, Trail!Veto,
         Trail!RejectMetadata, Trail!Persist, Trail!PersistenceRejected, Trail!RecordFinal, Trail!Drop, Trail!Return, Trail!Restart,
         Trail!trailVars
<1> QED BY <1>1, <1>2, <1>3

-----------------------------------------------------------------------------
(***************************************************************************)
(* The counts of evaluations (DecisionLog).  That nothing is in the batch  *)
(* while no flush goes on, and that the bucket which the snapshot thread   *)
(* is at has no snapshot yet, must be carried along.                       *)
(***************************************************************************)

Counters == [Log!Keys -> Nat]

LogTypeOK ==
  /\ flushing \in BOOLEAN
  /\ pending \in Counters /\ batch \in Counters /\ stored \in Counters
  /\ observed \in Counters /\ logLost \in Counters
  /\ snapshots \in [1..MaxBuckets -> Nat]

BatchIsInFlight == ~flushing => batch = Log!None

SnapshotIsMissing == catalogue # 0 => snapshots[catalogue] = 0

CountedOnce == \A k \in Log!Keys : observed[k] = pending[k] + batch[k] + stored[k] + logLost[k]

SnapshotOnce == \A b \in 1..MaxBuckets : snapshots[b] <= 1

LogInv ==
  /\ LogTypeOK
  /\ BatchIsInFlight /\ SnapshotIsMissing
  /\ CountedOnce /\ SnapshotOnce

\* Counts are added key by key, and none is zero everywhere.
LEMMA AddedIsCounts ==
  ASSUME NEW f \in Counters, NEW g \in Counters
  PROVE  Log!Added(f, g) \in Counters /\ \A k \in Log!Keys : Log!Added(f, g)[k] = f[k] + g[k]
  BY SMT DEF Counters, Log!Added

LEMMA NoneIsCounts == Log!None \in Counters /\ \A k \in Log!Keys : Log!None[k] = 0
  BY SMT DEF Counters, Log!None

\* One count is one more.
LEMMA OneMore ==
  ASSUME NEW f \in Counters, NEW x
  PROVE  /\ [f EXCEPT ![x] = f[x] + 1] \in Counters
         /\ \A k \in Log!Keys :
              [f EXCEPT ![x] = f[x] + 1][k] = IF k = x THEN f[k] + 1 ELSE f[k]
<1> DEFINE g == [f EXCEPT ![x] = f[x] + 1]
<1>1. DOMAIN f = Log!Keys /\ \A k \in Log!Keys : f[k] \in Nat
  BY DEF Counters
<1>2. g = [k \in Log!Keys |-> IF k = x THEN f[k] + 1 ELSE f[k]]
  BY <1>1
<1>3. \A k \in Log!Keys : f[k] + 1 \in Nat
  BY <1>1, SMT
<1> QED BY <1>1, <1>2, <1>3 DEF Counters

\* What is not about the snapshots.
logCounts == <<pending, batch, flushing, stored, observed, logLost>>

LEMMA LogInitially == Log!Init => LogInv
<1> SUFFICES ASSUME Log!Init PROVE LogInv
  OBVIOUS
<1>1. CountedOnce
  BY NoneIsCounts DEF Log!Init, CountedOnce
<1>2. /\ snapshots \in [1..MaxBuckets -> Nat]
      /\ SnapshotIsMissing /\ SnapshotOnce
  BY SMT DEF Log!Init, SnapshotIsMissing, SnapshotOnce
<1> QED
  BY <1>1, <1>2, NoneIsCounts DEF Log!Init, LogInv, LogTypeOK, BatchIsInFlight

\* The counts while the snapshots stand still.
LEMMA CountsKept ==
  ASSUME LogInv, UNCHANGED <<snapshots, catalogue>>,
         flushing' \in BOOLEAN, pending' \in Counters, batch' \in Counters,
         stored' \in Counters, observed' \in Counters, logLost' \in Counters,
         BatchIsInFlight', CountedOnce'
  PROVE  LogInv'
  BY DEF LogInv, LogTypeOK, SnapshotIsMissing, SnapshotOnce

\* The snapshots while the counts stand still.
LEMMA SnapshotsKept ==
  ASSUME LogInv, UNCHANGED logCounts,
         snapshots' \in [1..MaxBuckets -> Nat], SnapshotIsMissing', SnapshotOnce'
  PROVE  LogInv'
  BY DEF LogInv, LogTypeOK, BatchIsInFlight, CountedOnce, logCounts

LEMMA LogStep == LogInv /\ [Log!Next]_(Log!logVars) => LogInv'
<1> SUFFICES ASSUME LogInv, [Log!Next]_(Log!logVars) PROVE LogInv'
  OBVIOUS
<1> USE NoneIsCounts
<1>1. ASSUME NEW s \in LogSymbols, Log!Observe(s) PROVE LogInv'
  <2> DEFINE x == <<bucket, s>>
  <2>0. /\ pending \in Counters /\ observed \in Counters
        /\ pending' = [pending EXCEPT ![x] = pending[x] + 1]
        /\ observed' = [observed EXCEPT ![x] = observed[x] + 1]
    BY <1>1 DEF Log!Observe, LogInv, LogTypeOK
  <2> HIDE DEF x
  <2>3. /\ pending' \in Counters
        /\ \A k \in Log!Keys : pending'[k] = IF k = x THEN pending[k] + 1 ELSE pending[k]
    <3>1. /\ [pending EXCEPT ![x] = pending[x] + 1] \in Counters
          /\ \A k \in Log!Keys :
               [pending EXCEPT ![x] = pending[x] + 1][k] = IF k = x THEN pending[k] + 1 ELSE pending[k]
      BY <2>0, OneMore, Zenon
    <3> QED BY ONLY <2>0, <3>1, Zenon
  <2>4. /\ observed' \in Counters
        /\ \A k \in Log!Keys : observed'[k] = IF k = x THEN observed[k] + 1 ELSE observed[k]
    <3>1. /\ [observed EXCEPT ![x] = observed[x] + 1] \in Counters
          /\ \A k \in Log!Keys :
               [observed EXCEPT ![x] = observed[x] + 1][k] = IF k = x THEN observed[k] + 1 ELSE observed[k]
      BY <2>0, OneMore, Zenon
    <3> QED BY ONLY <2>0, <3>1, Zenon
  <2>2. CountedOnce'
    <3> SUFFICES ASSUME NEW k \in Log!Keys
                 PROVE  observed'[k] = pending'[k] + batch[k] + stored[k] + logLost[k]
      BY <1>1 DEF CountedOnce, Log!Observe
    <3>1. /\ observed[k] \in Nat /\ pending[k] \in Nat /\ batch[k] \in Nat
          /\ stored[k] \in Nat /\ logLost[k] \in Nat
          /\ observed[k] = pending[k] + batch[k] + stored[k] + logLost[k]
      BY DEF LogInv, LogTypeOK, CountedOnce, Counters
    <3>2. CASE k = x
      <4>1. observed'[k] = observed[k] + 1 /\ pending'[k] = pending[k] + 1
        BY <2>3, <2>4, <3>2
      <4> QED BY <3>1, <4>1, SMT
    <3>3. CASE k # x
      <4>1. observed'[k] = observed[k] /\ pending'[k] = pending[k]
        BY <2>3, <2>4, <3>3
      <4> QED BY <3>1, <4>1, SMT
    <3> QED BY <3>2, <3>3
  <2> QED BY <1>1, <2>2, <2>3, <2>4, CountsKept DEF Log!Observe, LogInv, LogTypeOK, BatchIsInFlight
<1>2. ASSUME Log!BeginFlush PROVE LogInv'
  <2>1. CountedOnce'
    BY <1>2, SMT DEF Log!BeginFlush, LogInv, LogTypeOK, CountedOnce, BatchIsInFlight, Counters
  <2> QED BY <1>2, <2>1, CountsKept DEF Log!BeginFlush, LogInv, LogTypeOK, BatchIsInFlight
<1>3. ASSUME Log!Flush PROVE LogInv'
  <2>1. stored' \in Counters /\ \A k \in Log!Keys : stored'[k] = stored[k] + batch[k]
    BY <1>3, AddedIsCounts DEF Log!Flush, LogInv, LogTypeOK
  <2>2. CountedOnce'
    BY <1>3, <2>1, SMT DEF Log!Flush, LogInv, LogTypeOK, CountedOnce, Counters
  <2> QED BY <1>3, <2>1, <2>2, CountsKept DEF Log!Flush, LogInv, LogTypeOK, BatchIsInFlight
<1>4. ASSUME Log!FlushFails PROVE LogInv'
  <2>1. pending' \in Counters /\ \A k \in Log!Keys : pending'[k] = pending[k] + batch[k]
    BY <1>4, AddedIsCounts DEF Log!FlushFails, Log!PutBack, LogInv, LogTypeOK
  <2>2. CountedOnce'
    BY <1>4, <2>1, SMT DEF Log!FlushFails, LogInv, LogTypeOK, CountedOnce, Counters
  <2> QED BY <1>4, <2>1, <2>2, CountsKept DEF Log!FlushFails, LogInv, LogTypeOK, BatchIsInFlight
<1>5. ASSUME Log!BeginSnapshot PROVE LogInv'
  BY <1>5, SnapshotsKept
  DEF Log!BeginSnapshot, logCounts, LogInv, LogTypeOK, SnapshotIsMissing, SnapshotOnce
<1>6. ASSUME Log!Snapshot PROVE LogInv'
  <2>1. SnapshotIsMissing'
    BY <1>6 DEF Log!Snapshot, SnapshotIsMissing
  <2>2. /\ \A b \in 1..MaxBuckets : snapshots'[b] \in Nat /\ snapshots'[b] <= 1
        /\ snapshots' \in [1..MaxBuckets -> Nat]
    <3>1. /\ snapshots \in [1..MaxBuckets -> Nat] /\ snapshots[catalogue] = 0
          /\ \A b \in 1..MaxBuckets : snapshots[b] <= 1
      BY <1>6 DEF Log!Snapshot, LogInv, LogTypeOK, SnapshotOnce, SnapshotIsMissing
    <3>2. snapshots' = [snapshots EXCEPT ![catalogue] = 1]
      BY <1>6, <3>1 DEF Log!Snapshot
    <3>3. snapshots' = [b \in 1..MaxBuckets |-> IF b = catalogue THEN 1 ELSE snapshots[b]]
      BY <3>1, <3>2
    <3> QED BY <3>1, <3>3, SMT
  <2>3. SnapshotOnce'
    BY <2>2 DEF SnapshotOnce
  <2> QED BY <1>6, <2>1, <2>2, <2>3, SnapshotsKept DEF Log!Snapshot, logCounts
<1>7. ASSUME Log!SnapshotFails PROVE LogInv'
  BY <1>7, SnapshotsKept
  DEF Log!SnapshotFails, logCounts, LogInv, LogTypeOK, SnapshotIsMissing, SnapshotOnce
<1>8. ASSUME Log!Pass PROVE LogInv'
  BY <1>8 DEF Log!Pass, LogInv, LogTypeOK, BatchIsInFlight, SnapshotIsMissing, CountedOnce, SnapshotOnce
<1>9. ASSUME Log!Restart PROVE LogInv'
  <2>1. /\ Log!Added(pending, batch) \in Counters
        /\ \A k \in Log!Keys : Log!Added(pending, batch)[k] = pending[k] + batch[k]
    BY AddedIsCounts DEF LogInv, LogTypeOK
  <2>2. /\ logLost' \in Counters
        /\ \A k \in Log!Keys : logLost'[k] = logLost[k] + (pending[k] + batch[k])
    BY <1>9, <2>1, AddedIsCounts DEF Log!Restart, LogInv, LogTypeOK
  <2>3. CountedOnce'
    BY <1>9, <2>2, SMT DEF Log!Restart, LogInv, LogTypeOK, CountedOnce, Counters
  <2>4. SnapshotIsMissing' /\ SnapshotOnce'
    BY <1>9 DEF Log!Restart, LogInv, SnapshotIsMissing, SnapshotOnce
  <2> QED
    BY <1>9, <2>2, <2>3, <2>4 DEF Log!Restart, LogInv, LogTypeOK, BatchIsInFlight
<1>10. CASE UNCHANGED Log!logVars
  BY <1>10
  DEF Log!logVars, LogInv, LogTypeOK, BatchIsInFlight, SnapshotIsMissing, CountedOnce, SnapshotOnce
<1> QED
  BY <1>1, <1>2, <1>3, <1>4, <1>5, <1>6, <1>7, <1>8, <1>9, <1>10 DEF Log!Next

-----------------------------------------------------------------------------
(***************************************************************************)
(* The venue of a WATCH candidate (WatchSources).  A remembered venue may  *)
(* be of an earlier listing in the hint alone, which is looked at before   *)
(* it is used: a candidate loses its metrics before its row can begin a    *)
(* new listing, and an evaluation writes only while its candidate is the   *)
(* scanner's, so that its listing is still the row's.                      *)
(***************************************************************************)

\* A venue, if there is one, was validated for listing l.
ValidatedFor(v, l) == v = Sources!NoSource \/ (v.listing = l /\ v \in validated)

Venue     == [listing : Int, at : Int]
SourceRun == [pc : {"idle", "reference", "decide", "probe", "full", "validated", "prefiltered"},
              listing : Int, at : Int, current : BOOLEAN, source : Venue]

SourceTypeOK ==
  /\ ticks \in Int /\ hint \in Venue
  /\ sourceRow \in [listing : Int, in : {"eligible", "ineligible", "removed"}, missing : Int]
  /\ sourceLive \in [here : BOOLEAN, source : Venue]
  /\ evidence \in [listing : Int, source : Venue, bucket : Int]
  /\ run \in SourceRun

LiveIsEligible ==
  /\ sourceLive.here => sourceRow.in = "eligible"
  /\ ~sourceLive.here => sourceLive.source = Sources!NoSource

CurrentIsListed == run.current => run.listing = sourceRow.listing /\ sourceLive.here

VenuesAreValidated ==
  /\ ValidatedFor(sourceLive.source, sourceRow.listing)
  /\ run.pc # "idle" => ValidatedFor(sourceLive.source, run.listing)
  /\ ValidatedFor(run.source, run.listing)
  /\ ValidatedFor(evidence.source, evidence.listing)
  /\ hint = Sources!NoSource \/ hint \in validated

SourcesInv == SourceTypeOK /\ LiveIsEligible /\ CurrentIsListed /\ VenuesAreValidated

LEMMA SourcesInitially == Sources!Init => SourcesInv
  BY SMT DEF Sources!Init, Sources!Idle, Sources!NoLive, Sources!NoRow, Sources!NoSource,
         SourcesInv, SourceTypeOK, Venue, SourceRun, LiveIsEligible, CurrentIsListed,
         VenuesAreValidated, ValidatedFor

LEMMA NoVenue == Sources!NoSource \in Venue
  BY DEF Sources!NoSource, Venue

\* An evaluation that ends leaves an idle run.
LEMMA IdleRun ==
  /\ Sources!Idle \in SourceRun
  /\ Sources!Idle.pc = "idle" /\ ~Sources!Idle.current
  /\ Sources!Idle.source = Sources!NoSource
  BY NoVenue, SMT DEF Sources!Idle, SourceRun

\* The run with another pc, and with another venue beside.
LEMMA RunWith ==
  ASSUME run \in SourceRun, NEW pc, NEW current
  PROVE  /\ [run EXCEPT !.pc = pc] =
              [pc |-> pc, listing |-> run.listing, at |-> run.at,
               current |-> run.current, source |-> run.source]
         /\ [run EXCEPT !.current = current] =
              [pc |-> run.pc, listing |-> run.listing, at |-> run.at,
               current |-> current, source |-> run.source]
  BY SMT DEF SourceRun

LEMMA RunWithVenue ==
  ASSUME run \in SourceRun, NEW pc, NEW source
  PROVE  [run EXCEPT !.pc = pc, !.source = source] =
           [pc |-> pc, listing |-> run.listing, at |-> run.at,
            current |-> run.current, source |-> source]
<1> DEFINE moved == [run EXCEPT !.pc = pc]
<1>1. moved = [pc |-> pc, listing |-> run.listing, at |-> run.at,
               current |-> run.current, source |-> run.source]
  BY RunWith
<1> HIDE DEF moved
<1>2. [moved EXCEPT !.source = source] =
        [pc |-> pc, listing |-> run.listing, at |-> run.at,
         current |-> run.current, source |-> source]
  BY ONLY <1>1
<1> QED BY <1>2 DEF moved

\* What an evaluation does up to its end keeps the invariant if it leaves the rest
\* alone: it ends, or goes on with a venue that was validated for its listing.
LEMMA RunKeeps ==
  ASSUME SourcesInv, UNCHANGED <<ticks, sourceRow, sourceLive, hint, evidence, validated>>,
         run' \in SourceRun,
         \/ run' = Sources!Idle
         \/ /\ run'.listing = run.listing /\ run'.current = run.current /\ run.pc # "idle"
            /\ ValidatedFor(run'.source, run.listing)
  PROVE  SourcesInv'
<1>1. SourceTypeOK'
  BY DEF SourcesInv, SourceTypeOK
<1>2. CASE run' = Sources!Idle
  BY <1>1, <1>2, IdleRun
  DEF SourcesInv, LiveIsEligible, CurrentIsListed, VenuesAreValidated, ValidatedFor
<1>3. CASE run' # Sources!Idle
  BY <1>1, <1>3
  DEF SourcesInv, LiveIsEligible, CurrentIsListed, VenuesAreValidated, ValidatedFor
<1> QED BY <1>2, <1>3

LEMMA PcMoves ==
  ASSUME SourcesInv, run.pc # "idle",
         UNCHANGED <<ticks, sourceRow, sourceLive, hint, evidence, validated>>,
         NEW pc \in {"decide", "probe", "full", "prefiltered"}, run' = [run EXCEPT !.pc = pc]
  PROVE  SourcesInv'
<1>1. run \in SourceRun
  BY DEF SourcesInv, SourceTypeOK
<1>2. /\ run' \in SourceRun /\ run'.listing = run.listing
      /\ run'.current = run.current /\ run'.source = run.source
  BY <1>1, RunWith, SMT DEF SourceRun
<1> QED BY <1>2, RunKeeps DEF SourcesInv, VenuesAreValidated

LEMMA SourcesStep == SourcesInv /\ [Sources!Next]_(Sources!sourceVars) => SourcesInv'
<1> SUFFICES ASSUME SourcesInv, [Sources!Next]_(Sources!sourceVars) PROVE SourcesInv'
  OBVIOUS
<1>0. SourceTypeOK /\ run \in SourceRun /\ run.source \in Venue /\ run.listing \in Int /\ run.at \in Int
  BY DEF SourcesInv, SourceTypeOK, SourceRun
<1> USE <1>0
<1>1. CASE Sources!Begin
  <2>1. PICK pc \in {"reference", "decide"} :
          run' = [Sources!Idle EXCEPT !.pc = pc, !.listing = sourceRow.listing,
                                      !.at = ticks, !.current = TRUE]
    BY <1>1 DEF Sources!Begin
  <2>2. run' = [pc |-> pc, listing |-> sourceRow.listing, at |-> ticks,
                current |-> TRUE, source |-> Sources!NoSource]
    BY <2>1 DEF Sources!Idle
  <2>3. sourceLive.here /\ UNCHANGED <<ticks, sourceRow, sourceLive, hint, evidence, validated>>
    BY <1>1 DEF Sources!Begin
  <2>4. SourceTypeOK'
    BY <2>2, <2>3, NoVenue, SMT DEF SourceTypeOK, SourceRun
  <2> QED
    BY <2>2, <2>3, <2>4
    DEF SourcesInv, LiveIsEligible, CurrentIsListed, VenuesAreValidated, ValidatedFor
<1>2. CASE Sources!Resolve \/ Sources!ProbeWaterfall
  BY <1>2, PcMoves DEF Sources!Resolve, Sources!ProbeWaterfall
<1>3. CASE Sources!KeepInWatch \/ Sources!ValidateFully
  <2>1. CASE run' = Sources!Idle
    BY <1>3, <2>1, RunKeeps, IdleRun DEF Sources!KeepInWatch, Sources!ValidateFully
  <2>2. CASE run' # Sources!Idle
    BY <1>3, <2>2, PcMoves DEF Sources!KeepInWatch, Sources!ValidateFully
  <2> QED BY <2>1, <2>2
<1>4. CASE Sources!ProbeVenue
  <2>1. ValidatedFor(Sources!Remembered, run.listing) /\ Sources!Remembered \in Venue
    BY <1>4, NoVenue DEF Sources!ProbeVenue, Sources!Remembered, SourcesInv, SourceTypeOK,
                         VenuesAreValidated, ValidatedFor
  <2>2. run' = [pc |-> "probe", listing |-> run.listing, at |-> run.at,
                current |-> run.current, source |-> Sources!Remembered]
    BY <1>4, RunWithVenue DEF Sources!ProbeVenue
  <2>3. run' \in SourceRun
    BY <2>1, <2>2, SMT DEF SourceRun
  <2>4. run.pc # "idle" /\ UNCHANGED <<ticks, sourceRow, sourceLive, hint, evidence, validated>>
    BY <1>4 DEF Sources!ProbeVenue
  <2> QED BY <2>1, <2>2, <2>3, <2>4, RunKeeps
<1>5. CASE Sources!LoseReference
  <2>1. ValidatedFor(evidence'.source, evidence'.listing) /\ evidence' \in [listing : Int, source : Venue, bucket : Int]
    BY <1>5, NoVenue, SMT
    DEF Sources!LoseReference, Sources!Recorded, SourcesInv, SourceTypeOK, VenuesAreValidated, ValidatedFor
  <2>2. sourceLive' = [here |-> sourceLive.here, source |-> Sources!NoSource]
    BY <1>5 DEF Sources!LoseReference, SourceTypeOK
  <2>3. run' = Sources!Idle /\ UNCHANGED <<ticks, sourceRow, hint, validated>>
    BY <1>5 DEF Sources!LoseReference
  <2>4. SourceTypeOK'
    BY <2>1, <2>2, <2>3, IdleRun, NoVenue DEF SourceTypeOK
  <2> QED
    BY <2>1, <2>2, <2>3, <2>4, IdleRun
    DEF SourcesInv, LiveIsEligible, CurrentIsListed, VenuesAreValidated, ValidatedFor
<1>6. ASSUME NEW found \in BOOLEAN, Sources!Validate(found) PROVE SourcesInv'
  <2> DEFINE source == IF found THEN [listing |-> run.listing, at |-> run.at]
                                ELSE Sources!NoSource
  <2>1. /\ validated' = IF found THEN validated \cup {source} ELSE validated
        /\ run.pc = "full"
        /\ UNCHANGED <<ticks, sourceRow, sourceLive, evidence>>
        /\ \/ /\ run.current /\ hint' = source
              /\ run' = [run EXCEPT !.pc = "validated", !.source = source]
           \/ run' = Sources!Idle /\ UNCHANGED hint
    BY <1>6 DEF Sources!Validate
  <2>2. /\ validated \subseteq validated' /\ source \in validated' \cup {Sources!NoSource}
        /\ source = Sources!NoSource \/ source.listing = run.listing
        /\ source \in Venue
    BY <2>1, NoVenue DEF Venue
  <2> HIDE DEF source
  <2>3. CASE run' = Sources!Idle /\ UNCHANGED hint
    <3>1. SourceTypeOK'
      BY <2>1, <2>3, IdleRun DEF SourceTypeOK
    <3> QED
      BY <2>1, <2>2, <2>3, <3>1, IdleRun
      DEF SourcesInv, LiveIsEligible, CurrentIsListed, VenuesAreValidated, ValidatedFor
  <2>4. CASE hint' = source /\ run' = [run EXCEPT !.pc = "validated", !.source = source]
    <3>1. run' = [pc |-> "validated", listing |-> run.listing, at |-> run.at,
                  current |-> run.current, source |-> source]
      BY <2>4, RunWithVenue
    <3>2. SourceTypeOK'
      BY <2>1, <2>2, <2>4, <3>1, SMT DEF SourceTypeOK, SourceRun
    <3> QED
      BY <2>1, <2>2, <2>4, <3>1, <3>2
      DEF SourcesInv, LiveIsEligible, CurrentIsListed, VenuesAreValidated, ValidatedFor
  <2> QED BY <2>1, <2>3, <2>4
<1>7. ASSUME NEW final \in BOOLEAN, Sources!Conclude(final) PROVE SourcesInv'
  <2>1. /\ run.current /\ run' = Sources!Idle
        /\ sourceLive' = [here |-> sourceLive.here, source |-> run.source]
        /\ UNCHANGED <<ticks, sourceRow, hint, validated>>
    BY <1>7 DEF Sources!Conclude, SourceTypeOK
  <2>2. ValidatedFor(evidence'.source, evidence'.listing) /\ evidence' \in [listing : Int, source : Venue, bucket : Int]
    BY <1>7, SMT
    DEF Sources!Conclude, Sources!Recorded, SourcesInv, SourceTypeOK, VenuesAreValidated, ValidatedFor
  <2>3. SourceTypeOK'
    BY <2>1, <2>2, IdleRun DEF SourceTypeOK
  <2> QED
    BY <2>1, <2>2, <2>3, IdleRun
    DEF SourcesInv, LiveIsEligible, CurrentIsListed, VenuesAreValidated, ValidatedFor
<1>8. CASE Sources!Contend \/ Sources!Tick
  <2>1. ticks' \in Int /\ UNCHANGED <<sourceRow, sourceLive, hint, evidence, run, validated>>
    BY <1>8 DEF Sources!Contend, Sources!Tick, SourceTypeOK
  <2> QED
    BY <2>1
    DEF SourcesInv, SourceTypeOK, LiveIsEligible, CurrentIsListed, VenuesAreValidated, ValidatedFor
<1>9. CASE Sources!Restart
  <2>1. hint' \in Venue /\ (hint' = Sources!NoSource \/ hint' \in validated)
    BY <1>9, NoVenue
    DEF Sources!Restart, Sources!Bootstrapped, SourcesInv, SourceTypeOK, VenuesAreValidated, ValidatedFor
  <2>2. /\ sourceLive' = [here |-> FALSE, source |-> Sources!NoSource] /\ run' = Sources!Idle
        /\ UNCHANGED <<ticks, sourceRow, evidence, validated>>
    BY <1>9 DEF Sources!Restart, Sources!NoLive
  <2>3. SourceTypeOK'
    BY <2>1, <2>2, IdleRun, NoVenue DEF SourceTypeOK
  <2> QED
    BY <2>1, <2>2, <2>3, IdleRun
    DEF SourcesInv, LiveIsEligible, CurrentIsListed, VenuesAreValidated, ValidatedFor
<1>10. ASSUME NEW state \in {"eligible", "ineligible", "absent"}, Sources!Refresh(state)
       PROVE  SourcesInv'
  <2>1. /\ run' = [pc |-> run.pc, listing |-> run.listing, at |-> run.at,
                   current |-> FALSE, source |-> run.source]
        /\ UNCHANGED <<ticks, evidence, validated>>
        /\ hint' \in {hint, Sources!NoSource}
    BY <1>10, RunWith DEF Sources!Refresh
  <2>2. sourceRow' \in [listing : Int, in : {"eligible", "ineligible", "removed"}, missing : Int]
    <3>1. sourceRow' = Sources!Seen(state)
      BY <1>10 DEF Sources!Refresh
    <3>2. CASE state = "absent" /\ sourceRow.in # "removed"
      <4>1. sourceRow = [listing |-> sourceRow.listing, in |-> sourceRow.in,
                         missing |-> sourceRow.missing]
        BY DEF SourceTypeOK
      <4>2. sourceRow' = [sourceRow EXCEPT !.in = "removed", !.missing = 2]
            \/ sourceRow' = [sourceRow EXCEPT !.missing = 1]
        BY <3>1, <3>2 DEF Sources!Seen
      <4>3. sourceRow' \in {[listing |-> sourceRow.listing, in |-> "removed", missing |-> 2],
                            [listing |-> sourceRow.listing, in |-> sourceRow.in, missing |-> 1]}
        BY <4>1, <4>2
      <4> QED BY <4>3 DEF SourceTypeOK
    <3>3. CASE state = "absent" /\ sourceRow.in = "removed"
      BY <3>1, <3>3, SMT DEF Sources!Seen, SourceTypeOK
    <3>4. CASE state \in {"eligible", "ineligible"}
      BY <3>1, <3>4, SMT DEF Sources!Seen, SourceTypeOK
    <3> QED BY <3>2, <3>3, <3>4
  <2>3. run' \in SourceRun
    BY <2>1, SMT DEF SourceRun
  <2>4. CASE state = "eligible"
    <3>1. sourceLive' = [here |-> TRUE, source |-> sourceLive.source]
      BY <1>10, <2>4 DEF Sources!Refresh, SourceTypeOK
    <3>2. sourceRow'.in = "eligible"
      BY <1>10, <2>4 DEF Sources!Refresh, Sources!Seen
    <3>3. sourceLive.here => sourceRow'.listing = sourceRow.listing
      BY <1>10, <2>4 DEF Sources!Refresh, Sources!Seen, SourcesInv, LiveIsEligible
    <3>4. SourceTypeOK'
      BY <2>1, <2>2, <2>3, <3>1, NoVenue DEF SourceTypeOK
    <3> QED
      BY <2>1, <3>1, <3>2, <3>3, <3>4
      DEF SourcesInv, LiveIsEligible, CurrentIsListed, VenuesAreValidated, ValidatedFor
  <2>5. CASE state # "eligible"
    <3>1. sourceLive' = [here |-> FALSE, source |-> Sources!NoSource]
      BY <1>10, <2>5 DEF Sources!Refresh, Sources!NoLive
    <3>2. SourceTypeOK'
      BY <2>1, <2>2, <2>3, <3>1, NoVenue DEF SourceTypeOK
    <3> QED
      BY <2>1, <3>1, <3>2
      DEF SourcesInv, LiveIsEligible, CurrentIsListed, VenuesAreValidated, ValidatedFor
  <2> QED BY <2>4, <2>5
<1>11. CASE Sources!Abandon
  BY <1>11, RunKeeps, IdleRun DEF Sources!Abandon
<1>12. CASE UNCHANGED Sources!sourceVars
  BY <1>12 DEF Sources!sourceVars,
     SourcesInv, SourceTypeOK, LiveIsEligible, CurrentIsListed, VenuesAreValidated, ValidatedFor
<1> QED
  BY <1>1, <1>2, <1>3, <1>4, <1>5, <1>6, <1>7, <1>8, <1>9, <1>10, <1>11, <1>12 DEF Sources!Next

-----------------------------------------------------------------------------
(***************************************************************************)
(* What the dashboard shows (LiveView).  ShownReadyStands holds because    *)
(* the maintenance writes of a symbol that was not listed only while its   *)
(* candidate has no metrics (OutsideIsUnseen), because an evaluation holds *)
(* the event loop from its append on, with a result that stands as well as *)
(* what is shown (ResultIsSound), and because the head says when it was    *)
(* misread.  VetoStands needs that only a decision that was ready, hence   *)
(* not vetoed, is ever advised; AdviceIsOfWhatIsShown that no two analyses *)
(* have one stamp, so that a late answer finds its own stamp only with its *)
(* own metrics (AsksAreOfThePast).                                         *)
(***************************************************************************)

ViewTasks   == [kind : {"event", "analysis"}, of : Nat]
ViewMetrics == [analysis : Nat, event : Nat, ready : BOOLEAN, found : BOOLEAN,
                veto : BOOLEAN, advice : SUBSET ViewTasks]
ViewHead    == [event : Nat, ready : BOOLEAN, veto : BOOLEAN, listing : Nat,
                advised : BOOLEAN, misread : BOOLEAN]
ViewRunning == [pc : {"idle", "analysing", "losing", "restoring", "storing"}, at : Nat,
                current : BOOLEAN, metrics : ViewMetrics, tasks : SUBSET ViewTasks]
ViewLive    == [here : BOOLEAN, stamp : Nat, metrics : ViewMetrics]

ViewTypeOK ==
  /\ viewTicks \in Nat
  /\ viewListing \in [listed : BOOLEAN, n : Nat]
  /\ viewHead \in ViewHead
  /\ live \in ViewLive
  /\ running \in ViewRunning
  /\ asked \subseteq ViewTasks
  /\ upkeep \in [pc : {"idle", "read"}, misread : BOOLEAN]

\* While the symbol is not listed, or the maintenance may write of it because it was
\* not, nobody evaluates or shows it.
OutsideIsUnseen ==
  /\ ~viewListing.listed \/ (upkeep.pc = "read" /\ ~upkeep.misread) =>
       ~live.metrics.ready /\ ~running.current
  /\ ~viewListing.listed => ~live.here
  /\ running.current => live.stamp = running.at
  /\ View!Held => running.current

\* Metrics of a ready decision, shown or about to be: the decision stands, or it is
\* the one that the maintenance invalidated after a failed read.
Stands(metrics) ==
  metrics.ready =>
    \/ viewHead.ready /\ metrics.event = viewHead.event
    \/ viewHead.misread /\ metrics.event \in {0, viewHead.event - 1}

Superseded ==
  running.pc = "storing" /\ running.metrics.event > live.metrics.event

ReadyStands ==
  /\ Superseded \/ Stands(live.metrics)
  /\ live.metrics.event <= viewHead.event
  /\ viewHead.misread => ~viewHead.ready /\ upkeep.pc = "idle"

\* What the evaluation in flight is about to store.
ResultIsSound ==
  /\ running.metrics.advice = {}
  /\ running.metrics.found => running.metrics.veto /\ ~running.metrics.ready
  /\ running.metrics.event <= viewHead.event
  /\ running.pc \in {"restoring", "storing"} => running.metrics.analysis = running.at
  /\ running.pc = "storing" => Stands(running.metrics)
  /\ running.pc = "restoring" =>
       /\ running.metrics.event = 0
       /\ running.metrics.ready => viewHead.ready \/ viewHead.misread

\* Only an ENTRY_READY is advised, and none is vetoed.
AdvisedIsSound ==
  /\ viewHead.advised => viewHead.ready
  /\ viewHead.ready => ~viewHead.veto
  /\ \A task \in asked \cup running.tasks : task.kind = "event" =>
       task.of <= viewHead.event /\ (task.of = viewHead.event => viewHead.ready)

\* An analysis is asked about when it has ended, and its stamp is not used again.
AsksAreOfThePast ==
  /\ running.at <= viewTicks
  /\ running.current => running.at # 0
  /\ \A task \in running.tasks : task.kind = "analysis" => task.of = running.at
  /\ \A task \in asked : task.kind = "analysis" =>
       /\ task.of \in 1..viewTicks
       /\ task.of # running.at
       /\ live.stamp = task.of => live.metrics.analysis = task.of

ViewInv ==
  /\ ViewTypeOK /\ OutsideIsUnseen /\ ReadyStands /\ ResultIsSound /\ AdvisedIsSound
  /\ AsksAreOfThePast /\ View!VetoStands /\ View!AdviceIsOfWhatIsShown

-----------------------------------------------------------------------------
(* The records. *)

LEMMA NothingShown ==
  /\ View!NoMetrics \in ViewMetrics
  /\ ~View!NoMetrics.ready /\ ~View!NoMetrics.found /\ View!NoMetrics.advice = {}
  BY SMT DEF View!NoMetrics, ViewMetrics

LEMMA TaskIs ==
  ASSUME NEW kind \in {"event", "analysis"}, NEW of \in Nat
  PROVE  /\ View!Task(kind, of) \in ViewTasks
         /\ View!Task(kind, of).kind = kind /\ View!Task(kind, of).of = of
  BY DEF View!Task, ViewTasks

\* What does not run has no stamp and no result.
LEMMA NotRunningIs ==
  /\ View!NotRunning \in ViewRunning
  /\ View!NotRunning.pc = "idle" /\ View!NotRunning.at = 0 /\ ~View!NotRunning.current
  /\ View!NotRunning.metrics = View!NoMetrics /\ View!NotRunning.tasks = {}
  BY NothingShown DEF View!NotRunning, ViewRunning

\* Metrics and a head with one field replaced.
LEMMA MetricsWith ==
  ASSUME NEW m \in ViewMetrics, NEW u
  PROVE  [m EXCEPT !.advice = u] =
           [analysis |-> m.analysis, event |-> m.event, ready |-> m.ready, found |-> m.found,
            veto |-> m.veto, advice |-> u]
  BY SMT DEF ViewMetrics

LEMMA HeadWith ==
  ASSUME NEW h \in ViewHead, NEW u
  PROVE  [h EXCEPT !.advised = u] =
           [event |-> h.event, ready |-> h.ready, veto |-> h.veto,
            listing |-> h.listing, advised |-> u, misread |-> h.misread]
  BY SMT DEF ViewHead

\* An evaluation whose candidate was replaced.
LEMMA RunningWith ==
  ASSUME NEW r \in ViewRunning, NEW u
  PROVE  [r EXCEPT !.current = u] =
           [pc |-> r.pc, at |-> r.at, current |-> u, metrics |-> r.metrics, tasks |-> r.tasks]
  BY SMT DEF ViewRunning

\* The candidate with other metrics, and with another stamp.
LEMMA LiveWith ==
  ASSUME ViewTypeOK, NEW metrics, NEW stamp
  PROVE  /\ [live EXCEPT !.metrics = metrics] =
              [here |-> live.here, stamp |-> live.stamp, metrics |-> metrics]
         /\ [live EXCEPT !.stamp = stamp] =
              [here |-> live.here, stamp |-> stamp, metrics |-> live.metrics]
  BY DEF ViewTypeOK, ViewLive

\* The metrics of an analysis.
LEMMA AnalysedIs ==
  ASSUME running.at \in Nat, NEW ready \in BOOLEAN, NEW veto \in BOOLEAN, NEW event \in Nat
  PROVE  /\ View!Analysed(ready, veto, event) \in ViewMetrics
         /\ View!Analysed(ready, veto, event).analysis = running.at
         /\ View!Analysed(ready, veto, event).event = event
         /\ View!Analysed(ready, veto, event).ready = ready
         /\ View!Analysed(ready, veto, event).found = veto
         /\ View!Analysed(ready, veto, event).veto = veto
         /\ View!Analysed(ready, veto, event).advice = {}
  BY SMT DEF View!Analysed, ViewMetrics

\* A decision appended for the standing listing, and one appended by the maintenance.
LEMMA AppendedIs ==
  ASSUME ViewTypeOK, NEW ready \in BOOLEAN, NEW veto \in BOOLEAN
  PROVE  /\ View!Appended(ready, veto) \in ViewHead
         /\ View!Appended(ready, veto).event = viewHead.event + 1
         /\ View!Appended(ready, veto).ready = ready
         /\ View!Appended(ready, veto).veto = veto
         /\ View!Appended(ready, veto).advised = FALSE
         /\ View!Appended(ready, veto).misread = FALSE
<1>1. viewHead.event \in Nat /\ viewListing.n \in Nat
  BY DEF ViewTypeOK, ViewHead
<1> QED BY <1>1, SMT DEF View!Appended, View!Packet, ViewHead

LEMMA InvalidatedIs ==
  ASSUME ViewTypeOK, View!Invalidate
  PROVE  /\ viewHead' \in ViewHead /\ viewHead'.event = viewHead.event + 1
         /\ ~viewHead'.ready /\ ~viewHead'.advised /\ viewHead'.misread = upkeep.misread
<1>1. viewHead' = View!Packet(FALSE, FALSE, viewHead.listing, upkeep.misread)
  BY DEF View!Invalidate
<1>2. viewHead.event \in Nat /\ viewHead.listing \in Nat /\ upkeep.misread \in BOOLEAN
  BY DEF ViewTypeOK, ViewHead
<1> QED BY <1>1, <1>2, SMT DEF View!Packet, ViewHead

-----------------------------------------------------------------------------

LEMMA ViewInitially == View!Init => ViewInv
<1> SUFFICES ASSUME View!Init PROVE ViewInv
  OBVIOUS
<1>1. ViewTypeOK
  <2>1. View!NoEvent \in ViewHead /\ View!NoUpkeep \in [pc : {"idle", "read"}, misread : BOOLEAN]
    BY SMT DEF View!NoEvent, View!NoUpkeep, ViewHead
  <2>2. View!NoLive \in ViewLive
    BY NothingShown DEF View!NoLive, ViewLive
  <2> QED BY <2>1, <2>2, NotRunningIs, SMT DEF View!Init, ViewTypeOK
<1>2. /\ ~live.metrics.ready /\ live.metrics.event = 0 /\ ~live.metrics.found
      /\ live.metrics.advice = {} /\ ~live.here
  BY NothingShown DEF View!Init, View!NoLive, View!NoMetrics
<1>3. /\ viewHead.event = 0 /\ ~viewHead.ready /\ ~viewHead.advised /\ ~viewHead.misread
      /\ upkeep.pc = "idle" /\ viewListing.listed /\ asked = {} /\ viewTicks = 0
  BY DEF View!Init, View!NoEvent, View!NoUpkeep
<1>4. /\ running.pc = "idle" /\ running.at = 0 /\ ~running.current /\ running.tasks = {}
      /\ ~running.metrics.ready /\ running.metrics.event = 0 /\ ~running.metrics.found
      /\ running.metrics.advice = {}
  BY NotRunningIs, NothingShown DEF View!Init, View!NoMetrics
<1>5. OutsideIsUnseen /\ AdvisedIsSound /\ AsksAreOfThePast
  BY <1>2, <1>3, <1>4 DEF OutsideIsUnseen, View!Held, AdvisedIsSound, AsksAreOfThePast
<1>6. ReadyStands /\ ResultIsSound
  BY <1>2, <1>3, <1>4 DEF ReadyStands, Stands, ResultIsSound
<1>7. View!VetoStands /\ View!AdviceIsOfWhatIsShown
  BY <1>2 DEF View!VetoStands, View!AdviceIsOfWhatIsShown
<1> QED BY <1>1, <1>5, <1>6, <1>7 DEF ViewInv

\* The evaluation goes on to another stage of the same analysis: nothing that is
\* shown or asked changes, the ledger stays or gets a decision.
LEMMA ViewProceeds ==
  ASSUME ViewInv, running.current, UNCHANGED <<viewTicks, viewListing, live, asked, upkeep>>,
         NEW pc \in {"losing", "restoring", "storing"}, NEW metrics \in ViewMetrics,
         NEW tasks \in SUBSET ViewTasks,
         running' = [pc |-> pc, at |-> running.at, current |-> running.current,
                     metrics |-> metrics, tasks |-> tasks],
         viewHead' \in ViewHead,
         \A task \in tasks : task.kind = "analysis" => task.of = running.at,
         ReadyStands', ResultIsSound', AdvisedIsSound'
  PROVE  ViewInv'
<1>1. /\ running'.at = running.at /\ running'.current /\ running'.tasks = tasks
      /\ running.at \in Nat
  BY DEF ViewInv, ViewTypeOK, ViewRunning
<1>2. ViewTypeOK'
  <2>1. running' \in ViewRunning
    BY <1>1 DEF ViewInv, ViewTypeOK, ViewRunning
  <2> QED BY <2>1 DEF ViewInv, ViewTypeOK
<1>3. OutsideIsUnseen'
  BY <1>1 DEF ViewInv, OutsideIsUnseen
<1>4. AsksAreOfThePast'
  BY <1>1 DEF ViewInv, AsksAreOfThePast
<1>5. View!VetoStands' /\ View!AdviceIsOfWhatIsShown'
  BY DEF ViewInv, View!VetoStands, View!AdviceIsOfWhatIsShown
<1> QED BY <1>2, <1>3, <1>4, <1>5 DEF ViewInv

\* The evaluation ends without a result.
LEMMA ViewAbandons ==
  ASSUME ViewInv, running.pc # "storing", running' = View!NotRunning,
         UNCHANGED <<viewTicks, viewListing, viewHead, live, asked, upkeep>>
  PROVE  ViewInv'
<1>1. /\ running' \in ViewRunning /\ running'.pc = "idle" /\ running'.at = 0
      /\ ~running'.current /\ running'.tasks = {}
      /\ ~running'.metrics.ready /\ running'.metrics.event = 0 /\ ~running'.metrics.found
      /\ running'.metrics.advice = {}
  BY NotRunningIs, NothingShown DEF View!NoMetrics
<1>2. viewHead.event \in Nat /\ viewTicks \in Nat
  BY DEF ViewInv, ViewTypeOK, ViewHead
<1>3. ViewTypeOK' /\ OutsideIsUnseen' /\ AdvisedIsSound'
  BY <1>1 DEF ViewInv, ViewTypeOK, OutsideIsUnseen, View!Held, AdvisedIsSound
<1>4. ReadyStands' /\ ResultIsSound'
  BY <1>1, <1>2 DEF ViewInv, ReadyStands, Superseded, Stands, ResultIsSound
<1>5. AsksAreOfThePast'
  BY <1>1, <1>2, SMT DEF ViewInv, AsksAreOfThePast
<1>6. View!VetoStands' /\ View!AdviceIsOfWhatIsShown'
  BY DEF ViewInv, View!VetoStands, View!AdviceIsOfWhatIsShown
<1> QED BY <1>3, <1>4, <1>5, <1>6 DEF ViewInv

\* The evaluation shows other metrics, of its own stamp, asks its advisories, and ends.
LEMMA ViewStores ==
  ASSUME ViewInv, running.current, NEW metrics \in ViewMetrics, View!StoreMetrics(metrics),
         metrics.analysis = running.at, metrics.event <= viewHead.event,
         metrics.found => metrics.veto, Stands(metrics),
         \A task \in metrics.advice : task.kind = "event" /\ task.of = metrics.event
  PROVE  ViewInv'
<1>1. /\ live' = [here |-> live.here, stamp |-> live.stamp, metrics |-> metrics]
      /\ asked' = asked \cup running.tasks /\ running' = View!NotRunning
      /\ UNCHANGED <<viewTicks, viewListing, viewHead, upkeep>>
  BY LiveWith DEF View!StoreMetrics, ViewInv
<1>2. /\ live.here \in BOOLEAN /\ live.stamp \in Nat
      /\ live'.stamp = live.stamp /\ live'.here = live.here /\ live'.metrics = metrics
      /\ running.at \in Nat \ {0} /\ running.at <= viewTicks /\ viewTicks \in Nat
      /\ live.stamp = running.at /\ running.tasks \subseteq ViewTasks
      /\ viewListing.listed /\ ~(upkeep.pc = "read" /\ ~upkeep.misread)
  BY <1>1 DEF ViewInv, ViewTypeOK, ViewLive, ViewRunning, OutsideIsUnseen, AsksAreOfThePast
<1>3. /\ running' \in ViewRunning /\ running'.pc = "idle" /\ running'.at = 0
      /\ ~running'.current /\ running'.tasks = {}
      /\ ~running'.metrics.ready /\ running'.metrics.event = 0 /\ ~running'.metrics.found
      /\ running'.metrics.advice = {} /\ viewHead.event \in Nat
  BY <1>1, NotRunningIs, NothingShown DEF View!NoMetrics, ViewInv, ViewTypeOK, ViewHead
<1>4. ViewTypeOK'
  <2>1. live' \in ViewLive
    BY <1>1, <1>2 DEF ViewLive
  <2>2. asked' \subseteq ViewTasks
    BY <1>1, <1>2 DEF ViewInv, ViewTypeOK
  <2> QED BY <1>1, <1>3, <2>1, <2>2 DEF ViewInv, ViewTypeOK
<1>5. OutsideIsUnseen'
  BY <1>1, <1>2, <1>3 DEF ViewInv, OutsideIsUnseen, View!Held
<1>6. ReadyStands' /\ ResultIsSound'
  BY <1>1, <1>2, <1>3 DEF ViewInv, ReadyStands, Superseded, Stands, ResultIsSound
<1>7. AdvisedIsSound'
  BY <1>1, <1>3 DEF ViewInv, AdvisedIsSound
<1>8. AsksAreOfThePast'
  <2>1. ASSUME NEW task \in asked', task.kind = "analysis"
        PROVE  /\ task.of \in 1..viewTicks /\ task.of # 0
               /\ live.stamp = task.of => metrics.analysis = task.of
    <3>1. CASE task \in asked
      <4>1. task.of \in 1..viewTicks
        BY <2>1, <3>1 DEF ViewInv, AsksAreOfThePast
      <4> QED BY <1>2, <4>1, SMT
    <3>2. CASE task \in running.tasks
      <4>1. task.of = running.at
        BY <2>1, <3>2 DEF ViewInv, AsksAreOfThePast
      <4> QED BY <1>2, <4>1, SMT
    <3> QED BY <1>1, <2>1, <3>1, <3>2
  <2> QED BY <1>1, <1>2, <1>3, <2>1, SMT DEF AsksAreOfThePast
<1>9. View!VetoStands' /\ View!AdviceIsOfWhatIsShown'
  BY <1>2 DEF View!VetoStands, View!AdviceIsOfWhatIsShown
<1> QED BY <1>4, <1>5, <1>6, <1>7, <1>8, <1>9 DEF ViewInv

\* The scanner drops the candidate or puts another one in its place.
LEMMA ViewReplaced ==
  ASSUME ViewInv, ~View!Held, UNCHANGED <<viewTicks, viewHead, asked, upkeep>>,
         running' = [running EXCEPT !.current = FALSE],
         live' \in {View!NoLive, View!Arrived} \/ (live' = live /\ viewListing'.listed),
         viewListing' \in [listed : BOOLEAN, n : Nat],
         viewListing'.listed \/ live' = View!NoLive,
         viewListing.listed \/ live' # live
  PROVE  ViewInv'
<1>1. /\ running' \in ViewRunning /\ running'.pc = running.pc /\ running'.at = running.at
      /\ ~running'.current /\ running'.metrics = running.metrics /\ running'.tasks = running.tasks
      /\ running.at \in Nat
  <2>1. running \in ViewRunning
    BY DEF ViewInv, ViewTypeOK
  <2>2. running' = [pc |-> running.pc, at |-> running.at, current |-> FALSE,
                    metrics |-> running.metrics, tasks |-> running.tasks]
    BY <2>1, RunningWith
  <2>3. /\ running.pc \in {"idle", "analysing", "losing", "restoring", "storing"}
        /\ running.at \in Nat /\ running.metrics \in ViewMetrics
        /\ running.tasks \in SUBSET ViewTasks
    BY <2>1 DEF ViewRunning
  <2>4. running' \in ViewRunning
    BY <2>2, <2>3 DEF ViewRunning
  <2> QED BY <2>2, <2>3, <2>4
<1>2. running'.pc \in {"idle", "analysing"}
  BY <1>1 DEF View!Held, ViewRunning
<1>3. ResultIsSound' /\ AdvisedIsSound'
  BY <1>1, <1>2 DEF ViewInv, ResultIsSound, AdvisedIsSound
<1>4. ASSUME live' \in {View!NoLive, View!Arrived} PROVE ViewInv'
  <2>1. live'.stamp = 0 /\ live'.metrics = View!NoMetrics /\ live' \in ViewLive
    <3>1. View!NoLive.stamp = 0 /\ View!NoLive.metrics = View!NoMetrics /\ View!NoLive \in ViewLive
      BY NothingShown DEF View!NoLive, ViewLive
    <3>2. View!Arrived.stamp = 0 /\ View!Arrived.metrics = View!NoMetrics /\ View!Arrived \in ViewLive
      BY NothingShown DEF View!Arrived, ViewLive
    <3> QED BY <1>4, <3>1, <3>2
  <2>2. ~viewListing'.listed => ~live'.here
    BY DEF View!NoLive
  <2>3. ViewTypeOK'
    BY <1>1, <2>1 DEF ViewInv, ViewTypeOK
  <2>4. OutsideIsUnseen' /\ View!VetoStands' /\ View!AdviceIsOfWhatIsShown'
    BY <1>1, <1>2, <2>1, <2>2, NothingShown
    DEF OutsideIsUnseen, View!Held, View!VetoStands, View!AdviceIsOfWhatIsShown
  <2>5. ReadyStands'
    <3>1. viewHead.event \in Nat /\ View!NoMetrics.event = 0
      BY DEF ViewInv, ViewTypeOK, ViewHead, View!NoMetrics
    <3> QED BY <2>1, <3>1, NothingShown DEF ViewInv, ReadyStands, Stands
  <2>6. AsksAreOfThePast'
    BY <1>1, <2>1, SMT DEF ViewInv, AsksAreOfThePast
  <2> QED BY <1>3, <2>3, <2>4, <2>5, <2>6 DEF ViewInv
<1>5. ASSUME live' = live, viewListing'.listed PROVE ViewInv'
  <2>1. ViewTypeOK'
    BY <1>1, <1>5 DEF ViewInv, ViewTypeOK
  <2>2. OutsideIsUnseen' /\ View!VetoStands' /\ View!AdviceIsOfWhatIsShown'
    BY <1>1, <1>2, <1>5
    DEF ViewInv, OutsideIsUnseen, View!Held, View!VetoStands, View!AdviceIsOfWhatIsShown
  <2>3. ReadyStands'
    BY <1>1, <1>2, <1>5 DEF ViewInv, ReadyStands, Superseded, Stands
  <2>4. AsksAreOfThePast'
    BY <1>1, <1>5 DEF ViewInv, AsksAreOfThePast
  <2> QED BY <1>3, <2>1, <2>2, <2>3, <2>4 DEF ViewInv
<1> QED BY <1>4, <1>5

\* A step that touches nothing but the advisory of the newest decision, the advice
\* that is shown, and the tasks, which get fewer or stay.
LEMMA ViewAdvised ==
  ASSUME ViewInv, UNCHANGED <<viewTicks, viewListing, running, upkeep>>,
         viewHead' \in {viewHead, [viewHead EXCEPT !.advised = TRUE]},
         viewHead' = viewHead \/ viewHead.ready,
         asked' \subseteq asked,
         NEW advice \in SUBSET ViewTasks,
         live' = live \/ live' = [live EXCEPT !.metrics = [live.metrics EXCEPT !.advice = advice]],
         live' = live \/ \A task \in advice :
           task.of = IF task.kind = "event" THEN live.metrics.event ELSE live.metrics.analysis
  PROVE  ViewInv'
<1>1. /\ viewHead' \in ViewHead /\ viewHead'.event = viewHead.event
      /\ viewHead'.ready = viewHead.ready /\ viewHead'.veto = viewHead.veto
      /\ viewHead'.misread = viewHead.misread
      /\ viewHead'.advised => viewHead'.ready
  <2>1. viewHead \in ViewHead /\ (viewHead.advised => viewHead.ready)
    BY DEF ViewInv, ViewTypeOK, AdvisedIsSound
  <2>2. CASE viewHead' = viewHead
    BY <2>1, <2>2
  <2>3. CASE viewHead' # viewHead
    <3>1. viewHead' = [event |-> viewHead.event, ready |-> viewHead.ready,
                       veto |-> viewHead.veto, listing |-> viewHead.listing,
                       advised |-> TRUE, misread |-> viewHead.misread]
      BY <2>1, <2>3, HeadWith
    <3> QED BY <2>1, <2>3, <3>1, SMT DEF ViewHead
  <2> QED BY <2>2, <2>3
<1>2. /\ live' \in ViewLive
      /\ live'.here = live.here /\ live'.stamp = live.stamp
      /\ live'.metrics.ready = live.metrics.ready /\ live'.metrics.event = live.metrics.event
      /\ live'.metrics.analysis = live.metrics.analysis
      /\ live'.metrics.found = live.metrics.found /\ live'.metrics.veto = live.metrics.veto
      /\ live' = live \/ live'.metrics.advice = advice
  <2>1. live \in ViewLive /\ live.metrics \in ViewMetrics
    BY DEF ViewInv, ViewTypeOK, ViewLive
  <2>2. CASE live' = live
    BY <2>1, <2>2
  <2>3. CASE live' # live
    <3> DEFINE metrics == [live.metrics EXCEPT !.advice = advice]
    <3>1. metrics = [analysis |-> live.metrics.analysis, event |-> live.metrics.event,
                     ready |-> live.metrics.ready, found |-> live.metrics.found,
                     veto |-> live.metrics.veto, advice |-> advice]
      BY <2>1, MetricsWith
    <3>2. live' = [here |-> live.here, stamp |-> live.stamp, metrics |-> metrics]
      BY <2>3, LiveWith DEF ViewInv
    <3> HIDE DEF metrics
    <3>3. metrics \in ViewMetrics
      BY <2>1, <3>1, SMT DEF ViewMetrics
    <3> QED BY <2>1, <3>1, <3>2, <3>3 DEF ViewLive
  <2> QED BY <2>2, <2>3
<1>3. ViewTypeOK'
  BY <1>1, <1>2 DEF ViewInv, ViewTypeOK
<1>4. OutsideIsUnseen' /\ View!VetoStands'
  BY <1>1, <1>2 DEF ViewInv, OutsideIsUnseen, View!Held, View!VetoStands
<1>5. ReadyStands' /\ ResultIsSound'
  BY <1>1, <1>2 DEF ViewInv, ReadyStands, Superseded, Stands, ResultIsSound
<1>6. AdvisedIsSound' /\ AsksAreOfThePast'
  BY <1>1, <1>2 DEF ViewInv, AdvisedIsSound, AsksAreOfThePast
<1>7. View!AdviceIsOfWhatIsShown'
  BY <1>2 DEF ViewInv, View!AdviceIsOfWhatIsShown
<1> QED BY <1>3, <1>4, <1>5, <1>6, <1>7 DEF ViewInv

\* An evaluation decides, and appends its decision if it is another one.
LEMMA ViewDecides ==
  ASSUME ViewInv, NEW ready \in BOOLEAN, NEW veto \in BOOLEAN, NEW changed \in BOOLEAN,
         NEW triggered \in BOOLEAN, View!Conclude(ready, veto, changed, triggered)
  PROVE  ViewInv'
<1> DEFINE event == IF changed THEN viewHead.event + 1 ELSE 0
           result == View!Analysed(ready, veto, event)
           tasks == View!Asks(ready, changed, triggered)
           pc == IF changed THEN "storing" ELSE "restoring"
<1>1. /\ running.pc = "analysing" /\ running.current /\ ~(ready /\ veto)
      /\ changed \/ View!Same(ready, veto)
      /\ viewHead' = IF changed THEN View!Appended(ready, veto) ELSE viewHead
      /\ UNCHANGED <<viewTicks, viewListing, live, asked, upkeep>>
  BY DEF View!Conclude
<1>2. /\ running \in ViewRunning /\ running.at \in Nat /\ viewHead \in ViewHead
      /\ viewHead.event \in Nat /\ ViewTypeOK /\ event \in Nat
      /\ live.metrics.event \in Nat /\ asked \subseteq ViewTasks
  BY DEF ViewInv, ViewTypeOK, ViewRunning, ViewHead, ViewLive, ViewMetrics
<1>3. running' = [pc |-> pc, at |-> running.at, current |-> running.current,
                  metrics |-> result, tasks |-> tasks]
  BY DEF View!Conclude, View!GoesOn
<1>4. /\ result \in ViewMetrics /\ result.analysis = running.at /\ result.event = event
      /\ result.ready = ready /\ result.found = veto /\ result.veto = veto /\ result.advice = {}
  BY <1>2, AnalysedIs
<1>5. ~changed => viewHead.ready = ready /\ viewHead.veto = veto
  BY <1>1 DEF View!Same
<1>6. /\ viewHead' \in ViewHead /\ viewHead'.ready = ready /\ viewHead'.veto = veto
      /\ viewHead'.event = IF changed THEN viewHead.event + 1 ELSE viewHead.event
      /\ viewHead'.advised => ready
      /\ viewHead'.misread = (viewHead.misread /\ ~changed)
  <2>1. viewHead.misread \in BOOLEAN
    BY <1>2 DEF ViewHead
  <2>2. CASE changed
    BY <1>1, <1>2, <2>2, AppendedIs
  <2>3. CASE ~changed
    BY <1>1, <1>2, <1>5, <2>1, <2>3 DEF ViewInv, AdvisedIsSound
  <2> QED BY <2>2, <2>3
<1>7. /\ tasks \in SUBSET ViewTasks
      /\ \A task \in tasks :
           \/ task.kind = "event" /\ task.of = viewHead.event + 1 /\ changed /\ ready
           \/ task.kind = "analysis" /\ task.of = running.at
  <2>1. viewHead.event + 1 \in Nat
    BY <1>2
  <2>2. \A task \in tasks :
          \/ task = View!Task("event", viewHead.event + 1) /\ changed /\ ready
          \/ task = View!Task("analysis", running.at)
    BY DEF View!Asks
  <2> HIDE DEF tasks
  <2> QED BY <1>2, <2>1, <2>2, TaskIs
<1>8. /\ running'.pc = pc /\ running'.at = running.at /\ running'.metrics = result
      /\ running'.tasks = tasks
  BY <1>3
<1> HIDE DEF result, tasks
<1>9. AdvisedIsSound'
  <2>1. ASSUME NEW task \in asked \cup tasks, task.kind = "event"
        PROVE  task.of <= viewHead'.event /\ (task.of = viewHead'.event => ready)
    <3>1. CASE task \in tasks
      BY <1>2, <1>6, <1>7, <2>1, <3>1
    <3>2. CASE task \in asked
      <4>1. task.of \in Nat /\ task.of <= viewHead.event
            /\ (task.of = viewHead.event => viewHead.ready)
        BY <1>2, <2>1, <3>2 DEF ViewInv, ViewTasks, AdvisedIsSound
      <4> QED BY <1>2, <1>5, <1>6, <4>1, SMT
    <3> QED BY <3>1, <3>2
  <2> QED BY <1>1, <1>6, <1>8, <2>1 DEF AdvisedIsSound
<1>10. ReadyStands'
  <2>1. Stands(live.metrics) /\ live.metrics.event <= viewHead.event
    BY <1>1 DEF ViewInv, ReadyStands, Superseded
  <2>2. viewHead'.misread => ~viewHead'.ready /\ upkeep'.pc = "idle"
    BY <1>1, <1>5, <1>6 DEF ViewInv, ReadyStands
  <2>3. CASE changed
    <3>1. Superseded'
      BY <1>1, <1>2, <1>4, <1>8, <2>1, <2>3, SMT DEF Superseded
    <3> QED BY <1>1, <1>2, <1>6, <2>1, <2>2, <2>3, <3>1 DEF ReadyStands
  <2>4. CASE ~changed
    <3>1. viewHead' = viewHead
      BY <1>1, <2>4
    <3> QED BY <1>1, <2>1, <2>2, <3>1 DEF ReadyStands, Stands
  <2> QED BY <2>3, <2>4
<1>11. ResultIsSound'
  <2>1. event <= viewHead'.event
    BY <1>2, <1>6
  <2>2. changed => event = viewHead'.event
    BY <1>6
  <2>3. ~changed => event = 0 /\ (ready => viewHead'.ready)
    BY <1>6
  <2> HIDE DEF event
  <2> QED BY <1>1, <1>4, <1>6, <1>8, <2>1, <2>2, <2>3 DEF ResultIsSound, Stands
<1> QED BY <1>1, <1>3, <1>4, <1>6, <1>7, <1>9, <1>10, <1>11, ViewProceeds

\* It reads the ledger again, and stores the decision that it did not append.
LEMMA ViewRestores == ViewInv /\ View!Restore => ViewInv'
<1> SUFFICES ASSUME ViewInv, View!Restore PROVE ViewInv'
  OBVIOUS
<1> DEFINE result == running.metrics
           shown  == View!Restored(result)
<1>1. running.pc = "restoring" /\ View!StoreMetrics(shown)
  BY DEF View!Restore
<1>2. /\ result \in ViewMetrics /\ result.analysis = running.at /\ result.event = 0
      /\ result.advice = {} /\ (result.found => result.veto /\ ~result.ready)
      /\ result.ready => viewHead.ready \/ viewHead.misread
      /\ result.event \in Nat /\ result.ready \in BOOLEAN
      /\ viewHead.event \in Nat /\ viewHead.ready \in BOOLEAN
      /\ viewHead.advised => viewHead.ready
      /\ running.current
  <2>1. /\ result \in ViewMetrics /\ viewHead.event \in Nat /\ viewHead.ready \in BOOLEAN
    BY DEF ViewInv, ViewTypeOK, ViewRunning, ViewHead
  <2>2. result.event \in Nat /\ result.ready \in BOOLEAN
    BY <2>1 DEF ViewMetrics
  <2>3. result.analysis = running.at /\ result.advice = {}
        /\ (result.found => result.veto /\ ~result.ready)
        /\ (result.ready => viewHead.ready \/ viewHead.misread)
        /\ result.event = 0
    BY <1>1 DEF ViewInv, ResultIsSound
  <2> QED BY <1>1, <2>1, <2>2, <2>3 DEF ViewInv, AdvisedIsSound, OutsideIsUnseen, View!Held
<1> HIDE DEF result
<1>3. CASE viewHead.ready # result.ready
  <2>1. shown = result
    BY <1>3 DEF View!Restored
  <2>2. Stands(result)
    BY <1>2, <1>3 DEF Stands
  <2> HIDE DEF shown
  <2> QED BY <1>1, <1>2, <2>1, <2>2, ViewStores
<1>4. CASE viewHead.ready = result.ready
  <2> DEFINE task   == View!Task("event", viewHead.event)
             veto   == result.veto /\ ~viewHead.advised
             advice == {t \in {task} : viewHead.advised}
  <2>1. shown = [analysis |-> result.analysis, ready |-> result.ready, found |-> result.found,
                 veto |-> veto, event |-> viewHead.event, advice |-> advice]
    BY <1>4 DEF View!Restored
  <2>2. task \in ViewTasks /\ task.kind = "event" /\ task.of = viewHead.event
    BY <1>2, TaskIs
  <2> HIDE DEF task
  <2>3. advice \in SUBSET ViewTasks
        /\ \A t \in advice : t.kind = "event" /\ t.of = viewHead.event
    BY <2>2
  <2>4. result.found => veto
    BY <1>2, <1>4
  <2>5. veto \in BOOLEAN
    OBVIOUS
  <2> HIDE DEF shown, veto, advice
  <2>6. shown \in ViewMetrics
    BY <1>2, <2>1, <2>3, <2>5 DEF ViewMetrics
  <2>7. Stands(shown)
    BY <1>2, <1>4, <2>1 DEF Stands
  <2>8. /\ shown.analysis = running.at /\ shown.event = viewHead.event
        /\ shown.found => shown.veto
        /\ \A t \in shown.advice : t.kind = "event" /\ t.of = shown.event
    BY <1>2, <2>1, <2>3, <2>4
  <2> QED BY <1>1, <1>2, <2>6, <2>7, <2>8, ViewStores
<1> QED BY <1>3, <1>4

\* It stores the decision that it appended, or the lost reference.
LEMMA ViewStoresResult == ViewInv /\ View!Store => ViewInv'
<1> SUFFICES ASSUME ViewInv, View!Store PROVE ViewInv'
  OBVIOUS
<1>1. running.pc = "storing" /\ View!StoreMetrics(running.metrics)
  BY DEF View!Store
<1>2. running.current /\ running.metrics \in ViewMetrics
  BY <1>1 DEF ViewInv, ViewTypeOK, ViewRunning, OutsideIsUnseen, View!Held
<1>3. /\ running.metrics.analysis = running.at /\ running.metrics.event <= viewHead.event
      /\ running.metrics.found => running.metrics.veto
      /\ running.metrics.advice = {} /\ Stands(running.metrics)
  BY <1>1 DEF ViewInv, ResultIsSound
<1> QED BY <1>1, <1>2, <1>3, ViewStores

\* It finds no reference price.
LEMMA ViewLoses ==
  ASSUME ViewInv, NEW read \in BOOLEAN, View!LoseReference(read)
  PROVE  ViewInv'
<1>1. /\ running.pc = "analysing" /\ running.current
      /\ UNCHANGED <<viewTicks, viewListing, viewHead, live, asked, upkeep>>
  BY DEF View!LoseReference
<1>2. /\ running \in ViewRunning /\ running.at \in Nat /\ viewHead \in ViewHead
      /\ viewHead.event \in Nat
  BY DEF ViewInv, ViewTypeOK, ViewRunning, ViewHead
<1>3. ReadyStands /\ AdvisedIsSound /\ Stands(live.metrics)
  BY <1>1 DEF ViewInv, ReadyStands, Superseded
<1>4. CASE read /\ viewHead.ready
  <2>1. running' = [pc |-> "losing", at |-> running.at, current |-> running.current,
                    metrics |-> View!NoMetrics, tasks |-> {}]
    BY <1>4 DEF View!LoseReference, View!GoesOn
  <2>2. /\ running'.pc = "losing" /\ running'.at = running.at /\ running'.tasks = {}
        /\ running'.metrics = View!NoMetrics /\ View!NoMetrics.event = 0
    BY <2>1 DEF View!NoMetrics
  <2>3. ReadyStands' /\ ResultIsSound' /\ AdvisedIsSound'
    BY <1>1, <1>2, <1>3, <2>2, NothingShown DEF ReadyStands, ResultIsSound, AdvisedIsSound, Stands
  <2> QED BY <1>1, <1>2, <2>1, <2>3, NothingShown, ViewProceeds
<1>5. CASE ~(read /\ viewHead.ready)
  <2> DEFINE lost == View!Lost(0)
  <2>1. running' = [pc |-> "storing", at |-> running.at, current |-> running.current,
                    metrics |-> lost, tasks |-> {}]
    BY <1>5 DEF View!LoseReference, View!GoesOn
  <2>2. /\ lost \in ViewMetrics /\ lost.analysis = running.at /\ lost.event = 0
        /\ lost.ready = FALSE /\ lost.found = FALSE /\ lost.advice = {}
    BY <1>2, AnalysedIs DEF View!Lost
  <2> HIDE DEF lost
  <2>4. /\ running'.pc = "storing" /\ running'.at = running.at /\ running'.tasks = {}
        /\ running'.metrics = lost
    BY <2>1
  <2>5. ReadyStands'
    BY <1>1, <1>3 DEF ReadyStands, Stands
  <2>6. ResultIsSound' /\ AdvisedIsSound'
    BY <1>1, <1>2, <1>3, <2>2, <2>4 DEF ResultIsSound, AdvisedIsSound, Stands
  <2> QED BY <1>1, <1>2, <2>1, <2>2, <2>5, <2>6, ViewProceeds
<1> QED BY <1>4, <1>5

\* It appends the invalidation of the decision that stood.
LEMMA ViewAppendsLoss == ViewInv /\ View!AppendLoss => ViewInv'
<1> SUFFICES ASSUME ViewInv, View!AppendLoss PROVE ViewInv'
  OBVIOUS
<1> DEFINE event == viewHead.event + 1
           lost  == View!Lost(event)
<1>1. /\ running.pc = "losing" /\ viewHead' = View!Appended(FALSE, FALSE)
      /\ UNCHANGED <<viewTicks, viewListing, live, asked, upkeep>>
  BY DEF View!AppendLoss
<1>2. /\ running \in ViewRunning /\ running.at \in Nat /\ ViewTypeOK
      /\ viewHead.event \in Nat /\ event \in Nat /\ running.current
      /\ asked \subseteq ViewTasks /\ live.metrics.event \in Nat
  BY <1>1 DEF ViewInv, ViewTypeOK, ViewRunning, ViewHead, ViewLive, ViewMetrics,
              OutsideIsUnseen, View!Held
<1>3. running' = [pc |-> "storing", at |-> running.at, current |-> running.current,
                  metrics |-> lost, tasks |-> {}]
  BY DEF View!AppendLoss, View!GoesOn
<1>5. /\ lost \in ViewMetrics /\ lost.analysis = running.at /\ lost.event = event
      /\ lost.ready = FALSE /\ lost.found = FALSE /\ lost.advice = {}
  BY <1>2, AnalysedIs DEF View!Lost
<1> HIDE DEF lost
<1>6. /\ viewHead' \in ViewHead /\ viewHead'.event = event
      /\ ~viewHead'.ready /\ ~viewHead'.advised /\ ~viewHead'.misread
  BY <1>1, <1>2, AppendedIs
<1>7. /\ running'.pc = "storing" /\ running'.at = running.at /\ running'.tasks = {}
      /\ running'.metrics = lost
  BY <1>3
<1>8. ReadyStands'
  <2>1. live.metrics.event <= viewHead.event
    BY DEF ViewInv, ReadyStands
  <2>2. Superseded'
    <3>1. running'.pc = "storing" /\ running'.metrics.event = viewHead.event + 1
      BY <1>5, <1>7
    <3>2. live'.metrics.event = live.metrics.event
      BY <1>1
    <3> QED BY <1>2, <2>1, <3>1, <3>2 DEF Superseded
  <2>3. live'.metrics.event <= viewHead'.event
    <3>1. live'.metrics.event = live.metrics.event
      BY <1>1
    <3> QED BY <1>2, <1>6, <2>1, <3>1
  <2> QED BY <1>6, <2>2, <2>3 DEF ReadyStands
<1>9. ResultIsSound'
  BY <1>2, <1>5, <1>6, <1>7 DEF ResultIsSound, Stands
<1>10. AdvisedIsSound'
  <2>1. ASSUME NEW task \in asked, task.kind = "event"
        PROVE  task.of <= viewHead'.event /\ task.of # viewHead'.event
    <3>1. task.of \in Nat /\ task.of <= viewHead.event
      BY <1>2, <2>1 DEF ViewInv, ViewTasks, AdvisedIsSound
    <3> QED BY <1>2, <1>6, <3>1, SMT
  <2> QED BY <1>1, <1>6, <1>7, <2>1 DEF AdvisedIsSound
<1> QED BY <1>1, <1>2, <1>3, <1>5, <1>6, <1>8, <1>9, <1>10, ViewProceeds

\* The maintenance appends an invalidation.
LEMMA ViewInvalidated == ViewInv /\ View!Invalidate => ViewInv'
<1> SUFFICES ASSUME ViewInv, View!Invalidate PROVE ViewInv'
  OBVIOUS
<1>1. /\ upkeep.pc = "read" /\ upkeep' = View!NoUpkeep
      /\ UNCHANGED <<viewTicks, viewListing, live, running, asked>>
  BY DEF View!Invalidate
<1>2. /\ viewHead' \in ViewHead /\ viewHead'.event = viewHead.event + 1
      /\ ~viewHead'.ready /\ ~viewHead'.advised /\ viewHead'.misread = upkeep.misread
  BY InvalidatedIs DEF ViewInv
<1>3. /\ viewHead.event \in Nat /\ live.metrics.event \in Nat /\ running.metrics.event \in Nat
      /\ running.tasks \subseteq ViewTasks /\ asked \subseteq ViewTasks
      /\ upkeep.misread \in BOOLEAN
  BY DEF ViewInv, ViewTypeOK, ViewHead, ViewLive, ViewRunning, ViewMetrics
<1>4. upkeep'.pc = "idle" /\ upkeep' \in [pc : {"idle", "read"}, misread : BOOLEAN]
  BY <1>1 DEF View!NoUpkeep
<1>5. ~viewHead.misread
  BY <1>1 DEF ViewInv, ReadyStands
<1>6. upkeep.misread \/ (~live.metrics.ready /\ ~running.current)
  BY <1>1 DEF ViewInv, OutsideIsUnseen
<1>7. ViewTypeOK' /\ OutsideIsUnseen'
  BY <1>1, <1>2, <1>4 DEF ViewInv, ViewTypeOK, OutsideIsUnseen, View!Held
<1>8. ReadyStands'
  <2>1. Superseded \/ (live.metrics.ready => live.metrics.event = viewHead.event)
    BY <1>5 DEF ViewInv, ReadyStands, Stands
  <2>2. live.metrics.event <= viewHead.event
    BY DEF ViewInv, ReadyStands
  <2>3. Superseded' \/ Stands(live.metrics)'
    BY <1>1, <1>2, <1>3, <1>6, <2>1 DEF Superseded, Stands
  <2> QED BY <1>1, <1>2, <1>3, <1>4, <2>2, <2>3 DEF ReadyStands
<1>9. ResultIsSound'
  <2>1. /\ running.metrics.advice = {}
        /\ running.metrics.found => running.metrics.veto /\ ~running.metrics.ready
        /\ running.metrics.event <= viewHead.event
        /\ running.pc \in {"restoring", "storing"} => running.metrics.analysis = running.at
        /\ running.pc = "restoring" => running.metrics.event = 0
        /\ running.pc = "storing" /\ running.metrics.ready =>
             running.metrics.event = viewHead.event
    BY <1>5 DEF ViewInv, ResultIsSound, Stands
  <2>2. running.pc \in {"restoring", "storing"} => upkeep.misread
    BY <1>6 DEF ViewInv, OutsideIsUnseen, View!Held
  <2>3. running.metrics.event <= viewHead'.event
    BY <1>2, <1>3, <2>1
  <2>4. running.metrics.event = viewHead.event => running.metrics.event = viewHead'.event - 1
    BY <1>2, <1>3
  <2> QED BY <1>1, <1>2, <2>1, <2>2, <2>3, <2>4 DEF ResultIsSound, Stands
<1>10. AdvisedIsSound'
  <2>1. ASSUME NEW task \in asked \cup running.tasks, task.kind = "event"
        PROVE  task.of <= viewHead'.event /\ task.of # viewHead'.event
    <3>1. task.of \in Nat /\ task.of <= viewHead.event
      BY <1>3, <2>1 DEF ViewInv, ViewTasks, AdvisedIsSound
    <3> QED BY <1>2, <1>3, <3>1, SMT
  <2> QED BY <1>1, <1>2, <2>1 DEF AdvisedIsSound
<1>11. AsksAreOfThePast' /\ View!VetoStands' /\ View!AdviceIsOfWhatIsShown'
  BY <1>1 DEF ViewInv, AsksAreOfThePast, View!VetoStands, View!AdviceIsOfWhatIsShown
<1> QED BY <1>7, <1>8, <1>9, <1>10, <1>11 DEF ViewInv

LEMMA ViewStep == ViewInv /\ [View!Next]_(View!viewVars) => ViewInv'
<1> SUFFICES ASSUME ViewInv, [View!Next]_(View!viewVars) PROVE ViewInv'
  OBVIOUS
<1>0. /\ ViewTypeOK /\ viewTicks \in Nat /\ viewHead \in ViewHead /\ viewHead.event \in Nat
      /\ running \in ViewRunning /\ running.at \in Nat /\ live.metrics \in ViewMetrics
      /\ viewHead.ready \in BOOLEAN /\ viewHead.veto \in BOOLEAN /\ live \in ViewLive
  BY DEF ViewInv, ViewTypeOK, ViewHead, ViewLive, ViewRunning
<1>1. CASE View!Begin
  <2> DEFINE at == viewTicks + 1
  <2>1. live' = [here |-> live.here, stamp |-> at, metrics |-> live.metrics]
    BY <1>0, <1>1, LiveWith DEF View!Begin
  <2>2. /\ viewTicks' = at /\ live.here /\ upkeep.pc = "idle" /\ running = View!NotRunning
        /\ running' = [pc |-> "analysing", at |-> at, current |-> TRUE,
                       metrics |-> View!NoMetrics, tasks |-> {}]
        /\ UNCHANGED <<viewListing, viewHead, asked, upkeep>>
    BY <1>1 DEF View!Begin
  <2>3. running' \in ViewRunning
    BY <1>0, <2>2, NothingShown DEF ViewRunning
  <2>4. /\ running'.pc = "analysing" /\ running'.at = at
        /\ running'.current /\ running'.metrics = View!NoMetrics /\ running'.tasks = {}
        /\ running.pc = "idle" /\ at \in Nat
    BY <1>0, <2>2, NotRunningIs
  <2>5. ViewTypeOK'
    BY <1>0, <2>1, <2>2, <2>3, <2>4 DEF ViewTypeOK, ViewLive
  <2>6. OutsideIsUnseen' /\ AdvisedIsSound' /\ View!VetoStands' /\ View!AdviceIsOfWhatIsShown'
    BY <2>1, <2>2, <2>4
    DEF ViewInv, OutsideIsUnseen, View!Held, AdvisedIsSound, View!VetoStands,
        View!AdviceIsOfWhatIsShown
  <2>7. ReadyStands'
    BY <2>1, <2>2, <2>4 DEF ViewInv, ReadyStands, Superseded, Stands
  <2>8. ResultIsSound'
    <3>1. View!NoMetrics.event = 0
      BY DEF View!NoMetrics
    <3> QED BY <1>0, <2>2, <2>4, <3>1, NothingShown DEF ResultIsSound
  <2>9. AsksAreOfThePast'
    BY <1>0, <2>1, <2>2, <2>4, SMT DEF ViewInv, AsksAreOfThePast
  <2> QED BY <2>5, <2>6, <2>7, <2>8, <2>9 DEF ViewInv
<1>2. CASE View!Restore
  BY <1>2, ViewRestores
<1>3. CASE View!Store
  BY <1>3, ViewStoresResult
<1>4. CASE View!AppendLoss
  BY <1>4, ViewAppendsLoss
<1>5. CASE View!Abandon
  BY <1>5, ViewAbandons DEF View!Abandon
<1>6. ASSUME NEW task \in asked, View!Answer(task) PROVE ViewInv'
  <2>1. viewHead' = viewHead \/ (viewHead' = [viewHead EXCEPT !.advised = TRUE] /\ viewHead.ready)
    <3>1. CASE task = View!Task("event", viewHead.event)
      <4>1. task.kind = "event" /\ task.of = viewHead.event
        BY <1>0, <3>1, TaskIs
      <4> QED BY <1>6, <4>1 DEF View!Answer, ViewInv, AdvisedIsSound
    <3>2. CASE task # View!Task("event", viewHead.event)
      BY <1>6, <3>2 DEF View!Answer
    <3> QED BY <3>1, <3>2
  <2> DEFINE advice == live.metrics.advice \cup {task}
  <2>2. advice \in SUBSET ViewTasks
    BY <1>0 DEF ViewTypeOK, ViewMetrics
  <2>3. live' = live \/ live' = [live EXCEPT !.metrics = [live.metrics EXCEPT !.advice = advice]]
    BY <1>6 DEF View!Answer, View!Merge
  <2>4. live' = live \/ \A other \in advice :
          other.of = IF other.kind = "event" THEN live.metrics.event ELSE live.metrics.analysis
    <3>1. View!Meant(task) =>
            task.of = IF task.kind = "event" THEN live.metrics.event ELSE live.metrics.analysis
      BY DEF View!Meant, ViewInv, AsksAreOfThePast
    <3> QED BY <1>6, <3>1 DEF View!Answer, ViewInv, View!AdviceIsOfWhatIsShown
  <2> HIDE DEF advice
  <2>5. asked' \subseteq asked /\ UNCHANGED <<viewTicks, viewListing, running, upkeep>>
    BY <1>6 DEF View!Answer
  <2> QED BY <2>1, <2>2, <2>3, <2>4, <2>5, ViewAdvised
<1>7. ASSUME NEW task \in asked, View!Fail(task) PROVE ViewInv'
  BY <1>7, ViewAdvised DEF View!Fail
<1>8. CASE View!StandIn
  BY <1>8, ViewAdvised DEF View!StandIn
<1>9. CASE View!Found
  BY <1>0, <1>9, ViewReplaced DEF View!Found, ViewTypeOK
<1>10. CASE View!Missed
  BY <1>0, <1>10, ViewReplaced DEF View!Missed, ViewTypeOK
<1>11. CASE View!Leave \/ View!Return
  <2>1. viewListing = [listed |-> viewListing.listed, n |-> viewListing.n] /\ viewListing.n \in Nat
    BY <1>0 DEF ViewTypeOK
  <2>2. CASE View!Leave
    <3>1. viewListing' = [listed |-> FALSE, n |-> viewListing.n]
      <4>1. \A u : [viewListing EXCEPT !.listed = u] = [listed |-> u, n |-> viewListing.n]
        BY <2>1
      <4> QED BY <2>2, <4>1 DEF View!Leave
    <3>2. viewListing' \in [listed : BOOLEAN, n : Nat]
      BY <2>1, <3>1
    <3> QED BY <2>2, <3>2, ViewReplaced DEF View!Leave
  <2>3. CASE View!Return
    <3>1. viewListing' = [listed |-> TRUE, n |-> viewListing.n + 1]
      BY <2>3 DEF View!Return
    <3>2. viewListing' \in [listed : BOOLEAN, n : Nat] /\ viewListing'.listed
      BY <2>1, <3>1, SMT
    <3>3. live' # live \/ viewListing.listed
      <4>1. ~live.here /\ View!Arrived.here
        BY <2>3 DEF View!Return, ViewInv, OutsideIsUnseen, View!Arrived
      <4> QED BY <2>3, <4>1 DEF View!Return
    <3> QED BY <2>3, <3>2, <3>3, ViewReplaced DEF View!Return
  <2> QED BY <1>11, <2>2, <2>3
<1>12. CASE View!ReadInactive
  <2>1. /\ upkeep' = [pc |-> "read", misread |-> viewListing.listed] /\ viewHead.ready
        /\ UNCHANGED <<viewTicks, viewListing, viewHead, live, running, asked>>
    BY <1>12 DEF View!ReadInactive
  <2>2. upkeep'.pc = "read" /\ upkeep'.misread = viewListing.listed
    BY <2>1
  <2>3. upkeep' \in [pc : {"idle", "read"}, misread : BOOLEAN]
    BY <1>0, <2>1 DEF ViewTypeOK
  <2>4. ViewTypeOK' /\ OutsideIsUnseen'
    BY <1>0, <2>1, <2>2, <2>3 DEF ViewInv, ViewTypeOK, OutsideIsUnseen, View!Held
  <2>5. ReadyStands' /\ ResultIsSound'
    BY <2>1 DEF ViewInv, ReadyStands, Superseded, Stands, ResultIsSound
  <2> QED
    BY <2>1, <2>4, <2>5
    DEF ViewInv, AdvisedIsSound, AsksAreOfThePast, View!VetoStands, View!AdviceIsOfWhatIsShown
<1>13. CASE View!Invalidate
  BY <1>13, ViewInvalidated
<1>14. CASE View!UpkeepFails
  <2>1. /\ upkeep' = View!NoUpkeep
        /\ UNCHANGED <<viewTicks, viewListing, viewHead, live, running, asked>>
    BY <1>14 DEF View!UpkeepFails
  <2>2. upkeep'.pc = "idle" /\ upkeep' \in [pc : {"idle", "read"}, misread : BOOLEAN]
    BY <2>1 DEF View!NoUpkeep
  <2>3. ViewTypeOK' /\ OutsideIsUnseen'
    BY <2>1, <2>2 DEF ViewInv, ViewTypeOK, OutsideIsUnseen, View!Held
  <2>4. ReadyStands' /\ ResultIsSound'
    BY <2>1, <2>2 DEF ViewInv, ReadyStands, Superseded, Stands, ResultIsSound
  <2> QED
    BY <2>1, <2>3, <2>4
    DEF ViewInv, AdvisedIsSound, AsksAreOfThePast, View!VetoStands, View!AdviceIsOfWhatIsShown
<1>15. CASE View!Tick
  <2>1. viewTicks' = viewTicks + 1 /\ UNCHANGED <<viewListing, viewHead, live, running, asked, upkeep>>
    BY <1>15 DEF View!Tick
  <2>2. ViewTypeOK'
    BY <1>0, <2>1 DEF ViewTypeOK
  <2>3. AsksAreOfThePast'
    BY <1>0, <2>1, SMT DEF ViewInv, AsksAreOfThePast
  <2>4. OutsideIsUnseen' /\ ReadyStands' /\ ResultIsSound'
    BY <2>1 DEF ViewInv, OutsideIsUnseen, View!Held, ReadyStands, Superseded, Stands, ResultIsSound
  <2> QED
    BY <2>1, <2>2, <2>3, <2>4
    DEF ViewInv, AdvisedIsSound, View!VetoStands, View!AdviceIsOfWhatIsShown
<1>16. CASE View!Restart
  <2>1. /\ live' = View!NoLive /\ running' = View!NotRunning /\ asked' = {}
        /\ upkeep' = View!NoUpkeep
        /\ UNCHANGED <<viewTicks, viewListing, viewHead>>
    BY <1>16 DEF View!Restart
  <2>2. /\ live' \in ViewLive /\ live'.stamp = 0 /\ live'.metrics = View!NoMetrics
        /\ ~live'.here /\ live'.metrics.event = 0
    BY <2>1, NothingShown DEF View!NoLive, View!NoMetrics, ViewLive
  <2>3. upkeep'.pc = "idle" /\ upkeep' \in [pc : {"idle", "read"}, misread : BOOLEAN]
    BY <2>1 DEF View!NoUpkeep
  <2>4. /\ running' \in ViewRunning /\ running'.pc = "idle" /\ running'.at = 0
        /\ ~running'.current /\ running'.metrics = View!NoMetrics /\ running'.tasks = {}
    BY <2>1, NotRunningIs
  <2>5. ViewTypeOK'
    BY <2>1, <2>2, <2>3, <2>4 DEF ViewInv, ViewTypeOK
  <2>6. ReadyStands' /\ ResultIsSound'
    BY <1>0, <2>1, <2>2, <2>3, <2>4, NothingShown
    DEF ViewInv, ReadyStands, Stands, ResultIsSound
  <2>7. OutsideIsUnseen' /\ AdvisedIsSound' /\ View!VetoStands' /\ View!AdviceIsOfWhatIsShown'
    BY <2>1, <2>2, <2>3, <2>4, NothingShown
    DEF ViewInv, OutsideIsUnseen, View!Held, AdvisedIsSound, View!VetoStands,
        View!AdviceIsOfWhatIsShown
  <2>8. AsksAreOfThePast'
    BY <1>0, <2>1, <2>4 DEF AsksAreOfThePast
  <2> QED BY <2>5, <2>6, <2>7, <2>8 DEF ViewInv
<1>17. CASE UNCHANGED View!viewVars
  <2>1. UNCHANGED <<viewTicks, viewListing, viewHead, live, running, asked, upkeep>>
    BY <1>17 DEF View!viewVars
  <2>2. ViewTypeOK' /\ OutsideIsUnseen' /\ ReadyStands' /\ ResultIsSound'
    BY <2>1
    DEF ViewInv, ViewTypeOK, OutsideIsUnseen, View!Held, ReadyStands, Superseded, Stands, ResultIsSound
  <2> QED
    BY <2>1, <2>2
    DEF ViewInv, AdvisedIsSound, AsksAreOfThePast, View!VetoStands, View!AdviceIsOfWhatIsShown
<1> QED
  BY <1>1, <1>2, <1>3, <1>4, <1>5, <1>6, <1>7, <1>8, <1>9, <1>10, <1>11, <1>12, <1>13,
     <1>14, <1>15, <1>16, <1>17, ViewDecides, ViewLoses
  DEF View!Next

-----------------------------------------------------------------------------
(***************************************************************************)
(* The paper trades (LiveTrades).  That the books balance needs that the   *)
(* open trades have numbers of their own (OpenAreNumbered): else two of    *)
(* them could share a row of the transaction that settles both.            *)
(***************************************************************************)

OpenTrades(trades) == {s \in Symbols : trades[s] # Trades!NoTrade}

\* The trades are numbered up to n, each with a number of its own.
OpenAreNumbered(trades, n) ==
  /\ \A s \in OpenTrades(trades) : trades[s].id \in 1..n
  /\ \A s, t \in OpenTrades(trades) : trades[s].id = trades[t].id => s = t

TradesInv ==
  /\ tally.opened \in Nat /\ tally.forgotten \in Nat
  /\ \E Rows : book \in Seq(Rows)
  /\ DOMAIN open = Symbols
  /\ OpenAreNumbered(open, tally.opened)
  /\ tally.opened = Len(book) + Cardinality(OpenTrades(open)) + tally.forgotten

LEMMA OpenAreFinite ==
  ASSUME NEW trades
  PROVE  IsFiniteSet(OpenTrades(trades)) /\ Cardinality(OpenTrades(trades)) \in Nat
<1>1. OpenTrades(trades) \in SUBSET Symbols
  BY DEF OpenTrades
<1> QED BY <1>1, SymbolsAssumption, FS_Subset, FS_CardinalityType

\* The counts of the component are those of the library's theorems.
LEMMA SameCardinality == ASSUME NEW S PROVE Trades!Cardinality(S) = Cardinality(S)
  BY Zenon DEF Cardinality, Trades!Cardinality

\* A set has a sequence of its elements, as long as it is large.
LEMMA SequenceOfSet ==
  ASSUME NEW S, IsFiniteSet(S)
  PROVE  Trades!SetToSeq(S) \in Seq(S) /\ Len(Trades!SetToSeq(S)) = Cardinality(S)
<1> DEFINE n == Cardinality(S)
<1>1. n \in Nat /\ \E f : f \in Bijection(1..n, S)
  BY FS_CardinalityType DEF ExistsBijection
<1>2. \E f \in [1..n -> S] : Trades!IsInjective(f)
  BY <1>1 DEF Bijection, Injection, IsInjective, Trades!IsInjective
<1>3. Trades!SetToSeq(S) \in [1..n -> S]
  BY <1>2, SameCardinality DEF Trades!SetToSeq
<1> HIDE DEF n
<1> QED BY <1>1, <1>3, SMT DEF n

\* As many rows as trades are settled.
LEMMA RowsOfSettled ==
  ASSUME NEW trades, NEW n \in Nat, OpenAreNumbered(trades, n)
  PROVE  LET settled == Trades!Settled(trades)
             rows    == {Trades!Row(trades, s) : s \in settled}
         IN  /\ settled \subseteq OpenTrades(trades)
             /\ IsFiniteSet(rows) /\ IsFiniteSet(settled)
             /\ Cardinality(rows) = Cardinality(settled)
<1> DEFINE settled == Trades!Settled(trades)
           rows    == {Trades!Row(trades, s) : s \in settled}
           f       == [s \in settled |-> Trades!Row(trades, s)]
<1>1. settled \subseteq OpenTrades(trades)
  BY DEF OpenTrades, Trades!Settled, Trades!Outcome
<1>2. IsFiniteSet(settled)
  BY <1>1, OpenAreFinite, FS_Subset
<1>3. \A s, t \in settled : f[s] = f[t] => s = t
  <2> SUFFICES ASSUME NEW s \in settled, NEW t \in settled,
                      Trades!Row(trades, s) = Trades!Row(trades, t)
               PROVE  s = t
    OBVIOUS
  <2>1. trades[s].id = trades[t].id
    BY DEF Trades!Row
  <2> QED BY <1>1, <2>1 DEF OpenAreNumbered
<1>4. f \in [settled -> rows] /\ \A r \in rows : \E s \in settled : f[s] = r
  OBVIOUS
<1>5. f \in Bijection(settled, rows)
  BY <1>3, <1>4 DEF Bijection, Injection, Surjection, IsInjective
<1>6. IsFiniteSet(rows) /\ Cardinality(rows) = Cardinality(settled)
  BY <1>2, <1>5, FS_Bijection DEF ExistsBijection
<1> QED BY <1>1, <1>2, <1>6

LEMMA TradesInitially == Trades!Init => TradesInv
<1> SUFFICES ASSUME Trades!Init PROVE TradesInv
  OBVIOUS
<1>1. /\ open = [s \in Symbols |-> Trades!NoTrade] /\ book = <<>>
      /\ tally.opened = 0 /\ tally.forgotten = 0
  BY DEF Trades!Init
<1>2. OpenTrades(open) = {}
  BY <1>1 DEF OpenTrades
<1>3. Cardinality(OpenTrades(open)) = 0 /\ book \in Seq({}) /\ Len(book) = 0
  BY <1>1, <1>2, FS_EmptySet, EmptySeq
<1> QED BY <1>1, <1>2, <1>3 DEF TradesInv, OpenAreNumbered

\* The trade that an evaluation opens is a new one.
LEMMA OpeningCounts ==
  ASSUME TradesInv, NEW s \in Symbols, NEW d, NEW trades, trades = Trades!Opened(s, d)
  PROVE  LET opened == IF trades = open THEN tally.opened ELSE tally.opened + 1 IN
         /\ opened \in Nat /\ DOMAIN trades = Symbols
         /\ OpenAreNumbered(trades, opened)
         /\ opened = Len(book) + Cardinality(OpenTrades(trades)) + tally.forgotten
<1>1. CASE trades = open
  BY <1>1 DEF TradesInv
<1>2. CASE trades # open
  <2> DEFINE trade == [id |-> tally.opened + 1, signal |-> d.signal, entry |-> d.entry, at |-> clock]
  <2>1. trades = [open EXCEPT ![s] = trade] /\ open[s] = Trades!NoTrade
    BY <1>2 DEF Trades!Opened
  <2>2. trade.id = tally.opened + 1 /\ trade.id # 0 /\ Trades!NoTrade.id = 0
    BY DEF TradesInv, Trades!NoTrade
  <2> HIDE DEF trade
  <2>3. DOMAIN trades = Symbols /\ trades[s] = trade /\ \A t \in Symbols \ {s} : trades[t] = open[t]
    BY <2>1 DEF TradesInv
  <2>4. trade # Trades!NoTrade
    BY <2>2
  <2>5. OpenTrades(trades) = OpenTrades(open) \cup {s} /\ s \notin OpenTrades(open)
    BY <2>1, <2>3, <2>4 DEF OpenTrades
  <2>6. Cardinality(OpenTrades(trades)) = Cardinality(OpenTrades(open)) + 1
    BY <2>5, OpenAreFinite, FS_AddElement
  <2>7. OpenAreNumbered(trades, tally.opened + 1)
    <3>1. \A t \in OpenTrades(open) : t # s /\ trades[t] = open[t] /\ open[t].id \in 1..tally.opened
      BY <2>3, <2>5 DEF TradesInv, OpenAreNumbered, OpenTrades
    <3>2. tally.opened \in Nat
      BY DEF TradesInv
    <3>3. \A t \in OpenTrades(trades) : trades[t].id \in 1..tally.opened + 1
      BY <2>2, <2>3, <2>5, <3>1, <3>2
    <3>4. \A t \in OpenTrades(open) : trades[t].id # trades[s].id
      BY <2>2, <2>3, <3>1, <3>2, SMT
    <3> QED BY <2>5, <3>1, <3>3, <3>4 DEF TradesInv, OpenAreNumbered
  <2>8. Len(book) \in Nat /\ Cardinality(OpenTrades(open)) \in Nat
    BY OpenAreFinite, LenProperties DEF TradesInv
  <2> QED BY <1>2, <2>3, <2>6, <2>7, <2>8 DEF TradesInv
<1> QED BY <1>1, <1>2

LEMMA TradesStep == TradesInv /\ [Trades!Next]_(Trades!tradeVars) => TradesInv'
<1> SUFFICES ASSUME TradesInv, [Trades!Next]_(Trades!tradeVars) PROVE TradesInv'
  OBVIOUS
<1>1. ASSUME NEW s \in Symbols, NEW saved \in BOOLEAN, NEW d, Trades!Evaluate(s, d, saved)
      PROVE  TradesInv'
  <2> DEFINE trades  == Trades!Opened(s, d)
             opened  == IF trades = open THEN tally.opened ELSE tally.opened + 1
             settled == Trades!Settled(trades)
             rows    == {Trades!Row(trades, t) : t \in settled}
  <2>1. /\ Trades!Settle(trades, saved)
        /\ tally'.opened = opened /\ tally'.forgotten = tally.forgotten
    BY <1>1 DEF Trades!Evaluate
  <2>2. /\ opened \in Nat /\ DOMAIN trades = Symbols /\ OpenAreNumbered(trades, opened)
        /\ opened = Len(book) + Cardinality(OpenTrades(trades)) + tally.forgotten
    BY OpeningCounts
  <2>3. /\ settled \subseteq OpenTrades(trades)
        /\ IsFiniteSet(rows) /\ IsFiniteSet(settled) /\ Cardinality(rows) = Cardinality(settled)
    BY <2>2, RowsOfSettled
  <2>4. /\ saved => /\ open' = [t \in Symbols |-> IF t \in settled THEN Trades!NoTrade ELSE trades[t]]
                     /\ book' = book \o Trades!SetToSeq(rows)
        /\ ~saved => open' = trades /\ book' = book
    BY <2>1 DEF Trades!Settle
  <2> HIDE DEF trades, opened, settled, rows
  <2>5. CASE ~saved
    BY <2>1, <2>2, <2>4, <2>5 DEF TradesInv
  <2>6. CASE saved
    <3>1. DOMAIN open' = Symbols /\ OpenTrades(open') = OpenTrades(trades) \ settled
      BY <2>4, <2>6 DEF OpenTrades
    <3>2. OpenAreNumbered(open', opened)
      <4>1. \A t \in OpenTrades(open') : t \in OpenTrades(trades) /\ open'[t] = trades[t]
        BY <2>4, <2>6, <3>1 DEF OpenTrades
      <4> QED BY <2>2, <4>1 DEF OpenAreNumbered
    <3>3. /\ Cardinality(OpenTrades(open')) = Cardinality(OpenTrades(trades)) - Cardinality(settled)
          /\ Cardinality(OpenTrades(trades)) \in Nat /\ Cardinality(settled) \in Nat
      <4>1. OpenTrades(trades) \cap settled = settled
        BY <2>3
      <4>2. Cardinality(OpenTrades(trades) \ settled)
              = Cardinality(OpenTrades(trades)) - Cardinality(OpenTrades(trades) \cap settled)
        BY OpenAreFinite, FS_Difference
      <4> QED BY <2>3, <3>1, <4>1, <4>2, OpenAreFinite, FS_CardinalityType
    <3>4. /\ \E Rows : book' \in Seq(Rows)
          /\ Len(book') = Len(book) + Cardinality(settled) /\ Len(book) \in Nat
      <4>1. PICK Rows : book \in Seq(Rows)
        BY DEF TradesInv
      <4>2. /\ Trades!SetToSeq(rows) \in Seq(rows)
            /\ Len(Trades!SetToSeq(rows)) = Cardinality(settled)
        BY <2>3, SequenceOfSet
      <4>3. book \in Seq(Rows \cup rows) /\ Trades!SetToSeq(rows) \in Seq(Rows \cup rows)
        BY <4>1, <4>2, SeqMonotonic
      <4>4. book' \in Seq(Rows \cup rows) /\ Len(book') = Len(book) + Len(Trades!SetToSeq(rows))
        BY <2>4, <2>6, <4>3, ConcatProperties
      <4> QED BY <2>3, <4>1, <4>2, <4>4, LenProperties
    <3>5. opened = Len(book') + Cardinality(OpenTrades(open')) + tally.forgotten
      BY <2>2, <3>3, <3>4, SMT DEF TradesInv
    <3>6. tally.forgotten \in Nat
      BY DEF TradesInv
    <3> QED BY <2>1, <2>2, <3>1, <3>2, <3>4, <3>5, <3>6 DEF TradesInv
  <2> QED BY <2>5, <2>6
<1>2. ASSUME UNCHANGED <<open, book, tally>> PROVE TradesInv'
  BY <1>2 DEF TradesInv, OpenAreNumbered, OpenTrades
<1>3. CASE Trades!Restart
  <2>1. /\ open' = [s \in Symbols |-> Trades!NoTrade] /\ book' = book
        /\ tally'.opened = tally.opened
        /\ tally'.forgotten = tally.forgotten + Cardinality(OpenTrades(open))
    BY <1>3, SameCardinality DEF Trades!Restart, OpenTrades
  <2>2. OpenTrades(open') = {}
    BY <2>1 DEF OpenTrades
  <2>3. Cardinality(OpenTrades(open')) = 0
    BY <2>2, FS_EmptySet
  <2>4. Cardinality(OpenTrades(open)) \in Nat /\ Len(book) \in Nat
    BY OpenAreFinite, LenProperties DEF TradesInv
  <2> QED BY <2>1, <2>2, <2>3, <2>4 DEF TradesInv, OpenAreNumbered
<1> QED
  BY <1>1, <1>2, <1>3 DEF Trades!Next, Trades!Move, Trades!Pass, Trades!tradeVars

-----------------------------------------------------------------------------
(***************************************************************************)
(* The specification of the run: each component starts as its own Init     *)
(* says, and each step is one of its own or leaves it alone.               *)
(***************************************************************************)

LEMMA SourcesMove == [EvaluationNext]_evaluationVars => [Sources!Next]_(Sources!sourceVars)
  BY DEF EvaluationNext, InPipeline, InTrades, InView, InSources, InTrail, InLog,
         evaluationVars, sourcesVars, Sources!sourceVars

LEMMA TrailMoves == [EvaluationNext]_evaluationVars => [Trail!Next]_(Trail!trailVars)
  BY DEF EvaluationNext, InPipeline, InTrades, InView, InSources, InTrail, InLog,
         evaluationVars, traceVars, Trail!trailVars

LEMMA TrailInvariant == EvaluationSpec => []TrailInv
<1>1. EvaluationInit => TrailInv
  BY LedgerInitially, ShadowInitially DEF EvaluationInit, TrailInv
<1>2. TrailInv /\ [EvaluationNext]_evaluationVars => TrailInv'
  BY LedgerStep, ShadowStep, TrailMoves DEF TrailInv
<1> QED BY <1>1, <1>2, PTL DEF EvaluationSpec

\* Each signal took a row that was below TRIGGERED, and a final record names a signal
\* of the ledger, however old the status was that the evaluation worked with
\* (lbank_signal_ledger.py).
THEOREM SignalledOncePerRise == EvaluationSpec => []TriggeredOncePerRise
<1>1. TrailInv => TriggeredOncePerRise
  BY DEF TrailInv, LedgerInv, TriggeredOncePerRise
<1> QED BY <1>1, TrailInvariant, PTL

\* The events of an episode are one path from WATCH, which ends in a terminal state,
\* whatever was stored for the listings before (lifecycle_v2_shadow.py).
THEOREM EpisodesArePaths == EvaluationSpec => []EpisodesAreSeparate
<1>1. TrailInv => EpisodesAreSeparate
  BY DEF TrailInv, ShadowInv, EpisodesAreSeparate
<1> QED BY <1>1, TrailInvariant, PTL

LEMMA LogMoves == [EvaluationNext]_evaluationVars => [Log!Next]_(Log!logVars)
  BY DEF EvaluationNext, InPipeline, InTrades, InView, InSources, InTrail, InLog,
         evaluationVars, countVars, Log!logVars

\* Every evaluation is in the rows, on its way there, or was in memory when the
\* process ended, and a catalogue snapshot counts once, however flushes fail beside
\* evaluations that go on (lbank_execution_decision.py).
THEOREM NoneIsCountedTwice == EvaluationSpec => []EvaluationsAreCounted
<1>1. EvaluationInit => LogInv
  BY LogInitially DEF EvaluationInit
<1>2. LogInv /\ [EvaluationNext]_evaluationVars => LogInv'
  BY LogStep, LogMoves
<1>3. LogInv => EvaluationsAreCounted
  BY DEF LogInv, CountedOnce, SnapshotOnce, EvaluationsAreCounted, Log!EvaluationsAreCounted
<1> QED BY <1>1, <1>2, <1>3, PTL DEF EvaluationSpec

\* A contract that a cheap probe keeps in WATCH was probed at a venue that a full
\* validation found for this very listing, through relistings, restarts and answers
\* that come late (main.py, the fences before a result is used or recorded).
THEOREM ProbesUseTheirOwnVenue == EvaluationSpec => []SourceOfItsListing
<1>1. EvaluationInit => SourcesInv
  BY SourcesInitially DEF EvaluationInit
<1>2. SourcesInv /\ [EvaluationNext]_evaluationVars => SourcesInv'
  BY SourcesStep, SourcesMove
<1>3. SourcesInv => SourceOfItsListing
  BY DEF SourcesInv, VenuesAreValidated, ValidatedFor, SourceOfItsListing,
         Sources!SourceOfItsListing
<1> QED BY <1>1, <1>2, <1>3, PTL DEF EvaluationSpec

LEMMA ViewMoves == [EvaluationNext]_evaluationVars => [View!Next]_(View!viewVars)
  BY DEF EvaluationNext, InPipeline, InTrades, InView, InSources, InTrail, InLog,
         evaluationVars, viewVars, View!viewVars

LEMMA ViewInvariant == EvaluationSpec => []ViewInv
<1>1. EvaluationInit => ViewInv
  BY ViewInitially DEF EvaluationInit
<1>2. ViewInv /\ [EvaluationNext]_evaluationVars => ViewInv'
  BY ViewStep, ViewMoves
<1> QED BY <1>1, <1>2, PTL DEF EvaluationSpec

\* What the dashboard shows as ENTRY_READY is the newest decision of the ledger,
\* though candidates are replaced, delisted and invalidated in the database while
\* evaluations of them run (main.py, get_formatted_candidates).
THEOREM WhatIsShownStands == EvaluationSpec => []ShownReadyStands
<1>1. ViewInv => ShownReadyStands
  BY DEF ViewInv, ReadyStands, Superseded, Stands, ShownReadyStands, View!ShownReadyStands, View!ShownReady
<1> QED BY <1>1, ViewInvariant, PTL

\* A veto that the analysis found stays with it, whatever a provider answers later
\* (main.py, _refresh_canonical_ai_advisory and
\* _refresh_ai_advisory_observational).
THEOREM NoAnswerClearsAVeto == EvaluationSpec => []VetoStands
<1>1. ViewInv => VetoStands
  BY DEF ViewInv, VetoStands
<1> QED BY <1>1, ViewInvariant, PTL

\* A late answer reaches the metrics only of the decision or the analysis it was asked
\* for (main.py, the identities that are compared before an advisory is stored).
THEOREM AdviceReachesItsOwn == EvaluationSpec => []AdviceIsOfWhatIsShown
<1>1. ViewInv => AdviceIsOfWhatIsShown
  BY DEF ViewInv, AdviceIsOfWhatIsShown
<1> QED BY <1>1, ViewInvariant, PTL

LEMMA TradesMove == [EvaluationNext]_evaluationVars => [Trades!Next]_(Trades!tradeVars)
  BY DEF EvaluationNext, InPipeline, InTrades, InView, InSources, InTrail, InLog,
         evaluationVars, tradesVars, Trades!tradeVars

\* The books balance: every paper trade that was opened has one row, is open, or was
\* open when the process ended (main.py, _check_backtest_trades).
THEOREM NoTradeIsLost == EvaluationSpec => []OpenedIsAccounted
<1>1. EvaluationInit => TradesInv
  BY TradesInitially DEF EvaluationInit
<1>2. TradesInv /\ [EvaluationNext]_evaluationVars => TradesInv'
  BY TradesStep, TradesMove
<1>3. TradesInv => OpenedIsAccounted
  BY SameCardinality DEF TradesInv, OpenTrades, OpenedIsAccounted, Trades!OpenedIsAccounted
<1> QED BY <1>1, <1>2, <1>3, PTL DEF EvaluationSpec
=============================================================================
