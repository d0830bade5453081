---------------------------- MODULE SharedEvidence ----------------------------
(***************************************************************************)
(* The websocket evidence of one venue: core/ws_streamer.py, and the calls *)
(* of main.py that keep it in step with the state of the candidates.       *)
(*                                                                         *)
(* FUEL-RICH candidates share one transport per venue, whose membership    *)
(* cannot change: a changed demand retires the whole generation and starts *)
(* another.  PRE-TRIGGER and ARMED candidates have streams of their own, as *)
(* has a FUEL-RICH one at a venue that cannot share.  One reconciler task   *)
(* per venue follows the demand; callers set a dirty mark and never wait.   *)
(* A venue takes no more than a number of subscribers: one that is refused *)
(* gets no stream, and nobody tells it when a place is free.  It asks anew *)
(* with its next evaluation.                                                *)
(*                                                                         *)
(* Everything runs on one event loop, so a step is what happens between    *)
(* two awaits.                                                             *)
(***************************************************************************)
EXTENDS Naturals, FiniteSets

CONSTANTS
  Symbols,
  Limits       \* the shared_evidence_symbol_limit that a manager may have

VARIABLES
  limit,       \* its shared_evidence_symbol_limit
  capable,     \* the venue has the three watch methods for several symbols
  mode,        \* what the newest evaluation of each candidate asked for
  demand,      \* [wanted: shared subscribers, direct: symbols with streams of
               \*  their own, fallback: those of them that stand for sharing]
  unsupported, \* the venue was found not to be capable
  pool,        \* the generation: [open, members, running, young]
  unclosed,    \* 1 once a transport lost its owner before it was closed
  dirty,       \* _shared_evidence_reconcile_dirty
  rec, goal    \* the reconciler and the members it is about to start

poolVars == <<pool, unclosed>>
vars == <<limit, capable, mode, demand, unsupported, poolVars, dirty, rec, goal>>

Mode   == {"none", "shared", "direct"}
Closed == [open |-> FALSE, members |-> {}, running |-> FALSE, young |-> FALSE]

Init ==
  /\ limit \in Limits /\ capable \in BOOLEAN
  /\ mode = [s \in Symbols |-> "none"]
  /\ demand = [wanted |-> {}, direct |-> {}, fallback |-> {}]
  /\ unsupported = FALSE
  /\ pool = Closed /\ unclosed = 0
  /\ dirty = FALSE /\ rec = "none" /\ goal = {}

-----------------------------------------------------------------------------
(* The callers. *)

Unshared(d, s) ==
  IF s \in d.fallback
  THEN [d EXCEPT !.fallback = @ \ {s}, !.direct = @ \ {s}]
  ELSE [d EXCEPT !.wanted = @ \ {s}]

\* The venue has no place for s.
Full(d, s) == s \notin d.wanted /\ Cardinality(d.wanted) >= limit

\* subscribe_shared_evidence; who is refused is not told.
Shared(d, s) ==
  CASE unsupported ->
         [d EXCEPT !.fallback = @ \cup {s},
                   !.direct = IF s \in d.fallback THEN @ ELSE @ \cup {s}]
    [] ~unsupported /\ Full(d, s)  -> d
    [] ~unsupported /\ ~Full(d, s) -> [d EXCEPT !.wanted = @ \cup {s}]

\* _sync_websocket_evidence_subscription.
Synced(s, m) ==
  CASE m = "direct" -> [Unshared(demand, s) EXCEPT !.direct = @ \cup {s}]
    [] m = "none"   -> [Unshared(demand, s) EXCEPT !.direct = @ \ {s}]
    [] m = "shared" ->
         IF s \in demand.fallback THEN Shared(demand, s)
         ELSE Shared([demand EXCEPT !.direct = @ \ {s}], s)

\* Mutant of Scheduled: a reconciler that is at work is taken to see the change.
ScheduledIfIdle(changed) ==
  IF changed /\ rec = "none" THEN dirty' = TRUE /\ rec' = "top"
  ELSE UNCHANGED <<dirty, rec>>

\* _schedule_shared_evidence_reconcile: one task at a time, and a dirty mark
\* that outlives it.
Scheduled(changed) ==
  /\ dirty' = (dirty \/ changed)
  /\ rec' = IF changed /\ rec = "none" THEN "top" ELSE rec

\* An evaluation has returned.  A subscription that is not refused asks for the
\* reconciler also when nothing changed but the generation is not running.
Sync(s, m) ==
  /\ mode' = [mode EXCEPT ![s] = m]
  /\ demand' = Synced(s, m)
  /\ Scheduled(\/ demand'.wanted # demand.wanted
               \/ m = "shared" /\ ~unsupported /\ ~pool.running /\ s \in demand'.wanted)
  /\ UNCHANGED <<limit, capable, unsupported, poolVars, goal>>

-----------------------------------------------------------------------------
(* The reconciler. *)

\* _shared_evidence_reconcile_delay: only a healthy generation waits.
Delayed ==
  /\ pool.running /\ pool.young
  /\ demand.wanted # {} /\ demand.wanted # pool.members

Look ==
  /\ rec = "top"
  /\ rec' = IF dirty THEN "pausing" ELSE "none"
  /\ dirty' = FALSE
  /\ UNCHANGED <<limit, capable, mode, demand, unsupported, poolVars, goal>>

\* The request that woke the pause is consumed and the delay computed again.
Reconsider ==
  /\ rec = "pausing" /\ Delayed /\ dirty
  /\ dirty' = FALSE
  /\ UNCHANGED <<limit, capable, mode, demand, unsupported, poolVars, rec, goal>>

\* The minimum interval since the generation started is over.
Age ==
  /\ pool.young
  /\ pool' = [pool EXCEPT !.young = FALSE]
  /\ UNCHANGED <<limit, capable, mode, demand, unsupported, unclosed, dirty, rec, goal>>

Started(members, before) ==
  /\ pool' = [open |-> TRUE, members |-> members, running |-> TRUE, young |-> TRUE]
  /\ unclosed' = IF before.open THEN 1 ELSE unclosed

\* _start_shared_evidence_generation up to its first await.  At a venue that is
\* not capable the subscribers are dropped first and fall back afterwards.
Start(before) ==
  CASE demand.wanted = {} \/ unsupported ->
         /\ rec' = "top" /\ pool' = before
         /\ UNCHANGED <<demand, unsupported, unclosed, goal>>
    [] demand.wanted # {} /\ ~unsupported /\ ~capable ->
         /\ unsupported' = TRUE /\ demand' = [demand EXCEPT !.wanted = {}]
         /\ goal' = demand.wanted
         /\ rec' = "falling" /\ pool' = before
         /\ UNCHANGED unclosed
    [] OTHER ->
         /\ Started(demand.wanted, before) /\ rec' = "top"
         /\ UNCHANGED <<demand, unsupported, goal>>

Current ==
  pool.open /\ pool.running /\ demand.wanted # {} /\ demand.wanted = pool.members

\* _reconcile_shared_evidence_once: a generation that is not what is wanted loses
\* its tasks.
Check ==
  /\ \/ rec = "pausing" /\ ~Delayed
     \/ rec = "checking"
  /\ IF Current \/ (demand.wanted = {} /\ ~pool.open)
     THEN /\ rec' = "top"
          /\ UNCHANGED <<demand, unsupported, poolVars, goal>>
     ELSE IF pool.open
     THEN /\ rec' = "retiring"
          /\ pool' = [pool EXCEPT !.running = FALSE]
          /\ UNCHANGED <<demand, unsupported, unclosed, goal>>
     ELSE Start(pool)
  /\ UNCHANGED <<limit, capable, mode, dirty>>

\* The transport is closed, or its close timed out and goes on in the
\* background: the generation is over, and the demand is read again.
Retired ==
  /\ rec = "retiring"
  /\ \/ Start(Closed)
     \/ /\ demand.wanted # {} /\ capable
        /\ rec' = "sharing" /\ goal' = demand.wanted /\ pool' = Closed
        /\ UNCHANGED <<demand, unsupported, unclosed>>
  /\ UNCHANGED <<limit, capable, mode, dirty>>

\* Mutant of NotRetired: the replacement is started all the same.
NotRetiredGoesOn ==
  /\ rec = "retiring" /\ demand.wanted # {}
  /\ Started(demand.wanted, pool) /\ rec' = "top"
  /\ UNCHANGED <<limit, capable, mode, demand, unsupported, dirty, goal>>

\* A cancelled task does not end, or the close raised: the replacement is
\* suppressed until somebody asks again.
NotRetired ==
  /\ rec = "retiring" /\ rec' = "top"
  /\ UNCHANGED <<limit, capable, mode, demand, unsupported, poolVars, dirty, goal>>

\* The markets were handed over.  A demand that changed meanwhile is looked at
\* again at once.
Activate ==
  /\ rec = "sharing"
  /\ Started(goal, pool)
  /\ rec' = IF demand.wanted # goal THEN "checking" ELSE "top"
  /\ UNCHANGED <<limit, capable, mode, demand, unsupported, dirty, goal>>

\* The exchange object of a venue that is not capable is closed; each of the
\* subscribers it was made for gets streams of its own.
FallBack ==
  /\ rec = "falling" /\ rec' = "top"
  /\ demand' = [demand EXCEPT !.fallback = @ \cup goal,
                              !.direct = @ \cup (goal \ demand.fallback)]
  /\ UNCHANGED <<limit, capable, mode, unsupported, poolVars, dirty, goal>>

Reconcile == Look \/ Reconsider \/ Check \/ Activate \/ FallBack

Next ==
  \/ \E s \in Symbols, m \in Mode : Sync(s, m)
  \/ Reconcile \/ Age \/ Retired \/ NotRetired

Spec == Init /\ [][Next]_vars

-----------------------------------------------------------------------------
(* Properties. *)

\* A transport is replaced only after it was closed or left to a close that goes
\* on in the background: the pool never has two of them, however retirements
\* fail and demands change (_retire_shared_evidence_generation: "replacement
\* generation suppressed").
OneTransport == unclosed = 0

Sharing == IF pool.running THEN pool.members ELSE {}

Served(s) ==
  CASE mode[s] = "shared" -> s \in Sharing \cup (demand.fallback \cap demand.direct)
    [] mode[s] = "direct" -> s \in demand.direct \ Sharing
    [] OTHER -> s \notin Sharing \cup demand.direct \cup demand.fallback

\* It wants to share, and every place of the venue is another's.
CrowdedOut(s) == mode[s] = "shared" /\ ~unsupported /\ Full(demand, s)

\* No lost wake-up: the streams follow the state of each candidate in the end,
\* through requests at any await of the reconciler, retirements that fail, and
\* the discovery that the venue cannot share; but for a candidate that finds the
\* venue full again and again, which has no stream (ws_streamer.py:1239, "REST
\* fallback remains active").  A candidate that needs no evidence leaves no stream
\* behind.
EvidenceFollowsState ==
  \A s \in Symbols, m \in Mode :
    mode[s] = m ~> mode[s] # m \/ Served(s) \/ CrowdedOut(s)

=============================================================================
