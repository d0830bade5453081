---------------------------- MODULE DirectStreams ----------------------------
(***************************************************************************)
(* The order book, ticker and trade streams that PRE-TRIGGER and ARMED     *)
(* candidates have of their own at one venue (core/ws_streamer.py).        *)
(*                                                                         *)
(* The streams of all symbols share one exchange object.  Unsubscribing    *)
(* cancels the tasks of a symbol, forgets what was cached, and leaves to a *)
(* retirement task the rest: wait for the cancelled tasks, then, under the *)
(* venue's lock, unwatch the symbol and purge its state.  The tasks of a   *)
(* new subscription wait for that retirement and take the lock themselves. *)
(* A stream that fails backs off under a circuit breaker of three states.  *)
(*                                                                         *)
(* The three tasks of a symbol come and go together and are one here.  The *)
(* lock is first come, first served and held for a bounded time: it delays *)
(* and decides nothing, and is left out.                                   *)
(***************************************************************************)
EXTENDS Naturals, FiniteSets

CONSTANTS
  Symbols,
  Threshold   \* failure_threshold of a circuit breaker

VARIABLES
  stream,     \* active_tasks: "none", "waiting" (for the retirement), "locking",
              \* "watching" or "pausing" after a failure
  breaker,    \* [state, failures]; popped with the stream
  watched,    \* symbols subscribed at the exchange object
  evidence,   \* the caches of a symbol: "none", "fresh" or "stale"
  retiring    \* _direct_symbol_retire_tasks: "none", "settling", "unwatching"

directVars == <<stream, breaker, watched, evidence, retiring>>

Closed == [state |-> "CLOSED", failures |-> 0]

Init ==
  /\ stream = [s \in Symbols |-> "none"]
  /\ breaker = [s \in Symbols |-> Closed]
  /\ watched = {}
  /\ evidence = [s \in Symbols |-> "none"]
  /\ retiring = [s \in Symbols |-> "none"]

-----------------------------------------------------------------------------
(* The circuit breaker. *)

\* record_failure
Failed(b) ==
  [state    |-> IF b.failures + 1 >= Threshold THEN "OPEN" ELSE b.state,
   failures |-> IF b.failures + 1 >= Threshold THEN Threshold ELSE b.failures + 1]

\* can_try, at a time when the recovery timeout of an open breaker is over:
\* cb_recovery made the stream sleep that long.
Tried(b) == IF b.state = "OPEN" THEN [b EXCEPT !.state = "HALF_OPEN"] ELSE b

-----------------------------------------------------------------------------
(* The callers. *)

\* subscribe_direct_evidence
Subscribe(s) ==
  /\ stream[s] = "none"
  /\ stream' = [stream EXCEPT ![s] = "waiting"]
  /\ UNCHANGED <<breaker, watched, evidence, retiring>>

\* unsubscribe and retain_liquidations_only.  A second retirement is not started
\* beside an unfinished one.
Unsubscribe(s) ==
  /\ stream[s] # "none"
  /\ stream' = [stream EXCEPT ![s] = "none"]
  /\ breaker' = [breaker EXCEPT ![s] = Closed]
  /\ evidence' = [evidence EXCEPT ![s] = "none"]
  /\ retiring' = [retiring EXCEPT ![s] = IF @ = "none" THEN "settling" ELSE @]
  /\ UNCHANGED watched

-----------------------------------------------------------------------------
(* The streams. *)

\* Mutant of Settled: a stream does not wait for the retirement of its symbol.
SettledAtOnce(s) == TRUE

\* _await_direct_symbol_retirement
Settled(s) == retiring[s] = "none"

AwaitRetirement(s) ==
  /\ stream[s] = "waiting" /\ Settled(s)
  /\ stream' = [stream EXCEPT ![s] = "locking"]
  /\ UNCHANGED <<breaker, watched, evidence, retiring>>

\* _direct_exchange_for_start
GetExchange(s) ==
  /\ stream[s] = "locking"
  /\ stream' = [stream EXCEPT ![s] = "watching"]
  /\ watched' = watched \cup {s}
  /\ UNCHANGED <<breaker, evidence, retiring>>

\* A message arrived: it is cached, and the breaker closes.
Deliver(s) ==
  /\ stream[s] = "watching"
  /\ evidence' = [evidence EXCEPT ![s] = "fresh"]
  /\ breaker' = [breaker EXCEPT ![s] = Closed]
  /\ watched' = watched \cup {s}
  /\ UNCHANGED <<stream, retiring>>

Fail(s) ==
  /\ stream[s] = "watching"
  /\ stream' = [stream EXCEPT ![s] = "pausing"]
  /\ breaker' = [breaker EXCEPT ![s] = Failed(@)]
  /\ UNCHANGED <<watched, evidence, retiring>>

\* Mutant of Resume: the stream of an open breaker ends.
ResumeUnlessOpen(s) ==
  /\ stream[s] = "pausing" /\ breaker[s].state # "OPEN"
  /\ stream' = [stream EXCEPT ![s] = "watching"]
  /\ UNCHANGED <<breaker, watched, evidence, retiring>>

\* The pause is over.
Resume(s) ==
  /\ stream[s] = "pausing"
  /\ stream' = [stream EXCEPT ![s] = "watching"]
  /\ breaker' = [breaker EXCEPT ![s] = Tried(@)]
  /\ UNCHANGED <<watched, evidence, retiring>>

\* The time to live of what is cached is over: no getter returns it any more.
Expire(s) ==
  /\ evidence[s] = "fresh"
  /\ evidence' = [evidence EXCEPT ![s] = "stale"]
  /\ UNCHANGED <<stream, breaker, watched, retiring>>

\* prune_stale_cache
Prune ==
  /\ \E s \in Symbols : evidence[s] = "stale"
  /\ evidence' = [s \in Symbols |-> IF evidence[s] = "stale" THEN "none" ELSE evidence[s]]
  /\ UNCHANGED <<stream, breaker, watched, retiring>>

-----------------------------------------------------------------------------
(* The retirement. *)

\* The cancelled tasks are over, or were given up; the lock is taken.
BeginUnwatch(s) ==
  /\ retiring[s] = "settling"
  /\ retiring' = [retiring EXCEPT ![s] = "unwatching"]
  /\ UNCHANGED <<stream, breaker, watched, evidence>>

\* Each unwatch is tried once; a failure leaves the symbol subscribed at the
\* exchange object, without anyone who reads it.
Unwatched(s) ==
  /\ retiring[s] = "unwatching"
  /\ retiring' = [retiring EXCEPT ![s] = "none"]
  /\ watched' \in {watched \ {s}, watched}
  /\ UNCHANGED <<stream, breaker, evidence>>

Start(s)  == AwaitRetirement(s) \/ Resume(s)
Retire(s) == Unwatched(s)

Next ==
  \/ \E s \in Symbols :
       \/ Subscribe(s) \/ Unsubscribe(s) \/ AwaitRetirement(s) \/ GetExchange(s)
       \/ Deliver(s) \/ Fail(s) \/ Resume(s) \/ Expire(s)
       \/ BeginUnwatch(s) \/ Unwatched(s)
  \/ Prune

Spec == Init /\ [][Next]_directVars

-----------------------------------------------------------------------------
(* Properties. *)

Reading(s) == stream[s] \in {"watching", "pausing"}

\* A retirement never unwatches and purges the stream of a successor, in any order
\* of subscriptions, cancellations and waits for the venue's lock; and what a
\* retired stream had cached is never served (_retire_direct_symbol, unsubscribe).
SuccessorIsSpared ==
  \A s \in Symbols :
    /\ Reading(s) => retiring[s] = "none" /\ s \in watched
    /\ evidence[s] # "none" => Reading(s)

\* A stream that stays wanted comes to serve fresh evidence, through retirements
\* of its predecessor and of other symbols, failures, and an open breaker
\* (_direct_exchange_for_start, CircuitBreaker.can_try).
StreamRecovers ==
  \A s \in Symbols : stream[s] # "none" ~> stream[s] = "none" \/ evidence[s] = "fresh"

=============================================================================
