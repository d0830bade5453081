--------------------------- MODULE ExecutionShadow ---------------------------
(***************************************************************************)
(* The execution shadow: core/lbank_execution_shadow.py, its store         *)
(* (core/lbank_execution_store.py) and its observer                        *)
(* (core/lbank_execution.py).                                              *)
(*                                                                         *)
(* A worker measures the order books of the catalogue's contracts in        *)
(* batches, the one that was observed longest ago first.  Times are kept as  *)
(* far as they decide: `age' orders the contracts, and one is due again when *)
(* its time of recheck has come.                                           *)
(***************************************************************************)
EXTENDS Naturals, FiniteSets, Sequences, SequencesExt

CONSTANTS
  Contracts,     \* symbols of the catalogue; the smaller rank higher by meme and volume
  BatchSize,     \* WFH_LBANK_EXECUTION_SHADOW_BATCH_SIZE
  MaxChanges,    \* bound: how often the catalogue changes
  MaxStops       \* bound: how often the process restarts

VARIABLES
  listed,        \* contracts that are not REMOVED, with a price in (0, 1]
  age,           \* contracts in the order of observed_at, the never observed first
  due,           \* contracts whose next_check_at has come
  worker,        \* [pc, batch, results]: of run_once
  changes, stops

vars == <<listed, age, due, worker, changes, stops>>

Sleeping == [pc |-> "sleep", batch |-> <<>>, results |-> [c \in {} |-> FALSE]]

Init ==
  /\ listed \in {Contracts, Contracts \ {1}}
  /\ age = SetToSortSeq(Contracts, <)
  /\ due = Contracts
  /\ worker = Sleeping
  /\ changes = 0 /\ stops = 0

Eligible(c) == c \in listed /\ c \in due

First(n, s) == SubSeq(s, 1, IF Len(s) < n THEN Len(s) ELSE n)

\* Mutant of Queue: by meme and volume only.
QueueByVolume == First(BatchSize, SelectSeq(SetToSortSeq(Contracts, <), Eligible))

\* get_queue
Queue == First(BatchSize, SelectSeq(age, Eligible))

-----------------------------------------------------------------------------
(* run_once *)

Fetch ==
  /\ worker.pc = "sleep"
  /\ Queue # <<>>
  /\ worker' = [worker EXCEPT !.pc = "observe", !.batch = Queue]
  /\ UNCHANGED <<listed, age, due, changes, stops>>

\* Nothing is due, or the read fails.
FetchFails ==
  /\ worker.pc = "sleep" /\ UNCHANGED vars

\* The contracts are measured one after the other: the market is not a linear USDT
\* perpetual, the book is empty or crossed, no mark price is known or a request
\* fails.  Where no connection can be made the whole batch is unavailable.
Measure ==
  /\ worker.pc = "observe"
  /\ \E results \in [Range(worker.batch) -> BOOLEAN] :
       worker' = [worker EXCEPT !.pc = "record", !.results = results]
  /\ UNCHANGED <<listed, age, due, changes, stops>>

\* observed_at of a measurement is the time it was made, before the records of the
\* batch; of a failure it is the time of the record.
Aged(c) ==
  LET others == SelectSeq(age, LAMBDA d : d # c)
      failed == {d \in DOMAIN worker.results : ~worker.results[d] /\ d \notin Range(worker.batch)}
  IN  IF worker.results[c]
      THEN SelectSeq(others, LAMBDA d : d \notin failed) \o <<c>>
             \o SelectSeq(others, LAMBDA d : d \in failed)
      ELSE Append(others, c)

\* record_observation: the current row and the history, in one transaction.
Record(c) ==
  /\ worker.pc = "record" /\ worker.batch # <<>> /\ c = Head(worker.batch)
  /\ age' = Aged(c)
  /\ due' = due \ {c}
  /\ worker' = [worker EXCEPT !.batch = Tail(@)]
  /\ UNCHANGED <<listed, changes, stops>>

\* The database is locked: nothing is written, and the worker goes on.
RecordFails ==
  /\ worker.pc = "record" /\ worker.batch # <<>>
  /\ worker' = [worker EXCEPT !.batch = Tail(@),
                  !.results = [d \in DOMAIN @ \ {Head(worker.batch)} |-> @[d]]]
  /\ UNCHANGED <<listed, age, due, changes, stops>>

Sleep ==
  /\ worker.pc = "record" /\ worker.batch = <<>>
  /\ worker' = Sleeping
  /\ UNCHANGED <<listed, age, due, changes, stops>>

-----------------------------------------------------------------------------
(* The environment. *)

\* success_recheck_seconds, or failure_recheck_seconds, have passed.
Recheck(c) ==
  /\ c \notin due /\ due' = due \cup {c}
  /\ UNCHANGED <<listed, age, worker, changes, stops>>

\* The catalogue is refreshed; the observations stay.
Relist(c) ==
  /\ changes < MaxChanges /\ changes' = changes + 1
  /\ listed' = IF c \in listed THEN listed \ {c} ELSE listed \cup {c}
  /\ UNCHANGED <<age, due, worker, stops>>

\* The process restarts: a batch that is not recorded yet is lost.
Restart ==
  /\ stops < MaxStops /\ stops' = stops + 1
  /\ worker' = Sleeping
  /\ UNCHANGED <<listed, age, due, changes>>

RunOnce == Fetch \/ Measure \/ Sleep

Next ==
  \/ RunOnce \/ FetchFails \/ RecordFails \/ Restart
  \/ \E c \in Contracts : Record(c) \/ Recheck(c) \/ Relist(c)

Spec == Init /\ [][Next]_vars

Fairness ==
  /\ WF_vars(RunOnce)
  /\ \A c \in Contracts : SF_vars(Record(c)) /\ WF_vars(Recheck(c))

FairSpec == Spec /\ Fairness

-----------------------------------------------------------------------------
(* Properties. *)

\* A contract that is due is observed in the end or leaves the catalogue: neither
\* contracts of more volume, nor those that never answer, nor batches that were lost
\* keep it waiting for ever (get_queue, "bounded, fair shadow-observation queue").
DueIsObserved == \A c \in Contracts : Eligible(c) ~> ~Eligible(c)

=============================================================================
