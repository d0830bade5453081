---------------------------- MODULE DecisionLog -----------------------------
(***************************************************************************)
(* The log that compares the volume gate with the execution evidence, for  *)
(* each evaluation and for the whole catalogue                             *)
(* (core/lbank_execution_decision.py, flushed by main.py's hunter_loop).   *)
(*                                                                         *)
(* Evaluations are counted in memory, per bucket of time and symbol; a     *)
(* thread adds the counts to the database, in one transaction per flush,   *)
(* while the loop goes on counting.  Catalogue snapshots are stored by     *)
(* another thread, once per bucket.  Retention, which is weeks, lies       *)
(* beyond the instance.                                                    *)
(***************************************************************************)
EXTENDS Integers, FiniteSets

CONSTANTS
  Symbols,
  MaxBuckets,      \* bound: buckets of time
  MaxEvaluations   \* bound: evaluations per bucket and symbol

VARIABLES
  bucket,    \* the bucket of now
  pending,   \* _pending
  batch,     \* what the flushing thread took out of it
  flushing,  \* whether the thread is at work; the loop starts no second one
  stored,    \* evaluation_count of the rows of evaluations
  snapshots, \* and of those of the catalogue
  catalogue, \* what the snapshot thread is about to store: the bucket, or none
  observed,  \* history: evaluations
  lost       \* history: counts that a restart forgot

logVars == <<bucket, pending, batch, flushing, stored, snapshots, catalogue,
             observed, lost>>

Keys == (1..MaxBuckets) \X Symbols
None == [k \in Keys |-> 0]
Added(f, g) == [k \in Keys |-> f[k] + g[k]]

Init ==
  /\ bucket = 1
  /\ pending = None /\ batch = None /\ flushing = FALSE
  /\ stored = None /\ snapshots = [b \in 1..MaxBuckets |-> 0] /\ catalogue = 0
  /\ observed = None /\ lost = None

\* observe_evaluation: the newest classification, the sum of the counts.
Observe(s) ==
  /\ observed[<<bucket, s>>] < MaxEvaluations
  /\ pending' = [pending EXCEPT ![<<bucket, s>>] = @ + 1]
  /\ observed' = [observed EXCEPT ![<<bucket, s>>] = @ + 1]
  /\ UNCHANGED <<bucket, batch, flushing, stored, snapshots, catalogue, lost>>

\* flush_evaluations takes all that is pending, under the lock.
BeginFlush ==
  /\ ~flushing /\ pending # None
  /\ flushing' = TRUE
  /\ batch' = pending /\ pending' = None
  /\ UNCHANGED <<bucket, stored, snapshots, catalogue, observed, lost>>

\* The upserts add the counts to those of the rows.
Flush ==
  /\ flushing
  /\ stored' = Added(stored, batch)
  /\ batch' = None /\ flushing' = FALSE
  /\ UNCHANGED <<bucket, pending, snapshots, catalogue, observed, lost>>

\* Mutant of PutBack: the rows that failed replace those observed meanwhile.
PutBackOver == [k \in Keys |-> IF batch[k] > 0 THEN batch[k] ELSE pending[k]]

\* What failed is pending again, with what was observed meanwhile.
PutBack == Added(pending, batch)

FlushFails ==
  /\ flushing
  /\ pending' = PutBack
  /\ batch' = None /\ flushing' = FALSE
  /\ UNCHANGED <<bucket, stored, snapshots, catalogue, observed, lost>>

\* record_universe_snapshot: the first transaction finds none of this bucket, the
\* second one stores it; it may be stored late, or not at all.
BeginSnapshot ==
  /\ catalogue = 0 /\ snapshots[bucket] = 0
  /\ catalogue' = bucket
  /\ UNCHANGED <<bucket, pending, batch, flushing, stored, snapshots, observed, lost>>

Snapshot ==
  /\ catalogue # 0
  /\ snapshots' = [snapshots EXCEPT ![catalogue] = @ + 1]
  /\ catalogue' = 0
  /\ UNCHANGED <<bucket, pending, batch, flushing, stored, observed, lost>>

SnapshotFails ==
  /\ catalogue # 0
  /\ catalogue' = 0
  /\ UNCHANGED <<bucket, pending, batch, flushing, stored, snapshots, observed, lost>>

Pass ==
  /\ bucket < MaxBuckets
  /\ bucket' = bucket + 1
  /\ UNCHANGED <<pending, batch, flushing, stored, snapshots, catalogue, observed, lost>>

\* The process ends: an open transaction is rolled back.
Restart ==
  /\ lost' = Added(lost, Added(pending, batch))
  /\ pending' = None /\ batch' = None /\ flushing' = FALSE /\ catalogue' = 0
  /\ UNCHANGED <<bucket, stored, snapshots, observed>>

Next ==
  \/ \E s \in Symbols : Observe(s)
  \/ BeginFlush \/ Flush \/ FlushFails
  \/ BeginSnapshot \/ Snapshot \/ SnapshotFails
  \/ Pass \/ Restart

Spec == Init /\ [][Next]_logVars

-----------------------------------------------------------------------------
\* Every evaluation is counted once in the row of its bucket and symbol, is about to
\* be, or was in memory when the process ended; a flush that fails while the loop
\* goes on counting loses none and doubles none (lbank_execution_decision.py:319).
\* A snapshot of the catalogue counts once in its bucket.
EvaluationsAreCounted ==
  /\ \A k \in Keys : observed[k] = pending[k] + batch[k] + stored[k] + lost[k]
  /\ \A b \in 1..MaxBuckets : snapshots[b] <= 1
=============================================================================
