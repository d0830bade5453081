------------------------------ MODULE MCRuntime ------------------------------
(***************************************************************************)
(* The components of the runtime that share no state with one another, in  *)
(* one instance for TLC: in each behaviour one of them moves and the others *)
(* stay as they were initially.  The fairness is that of their schedulers. *)
(***************************************************************************)
EXTENDS Naturals, FiniteSets

CONSTANTS
  Symbols, Limits,
  Threshold,
  Clients, QueueLimit, ReplayLimit, MaxContent, MaxId, MaxRestarts,
  Contracts, BatchSize, MaxChanges, MaxStops,
  CacheLife, MaxHistory, MaxFaults

VARIABLES
  focus,
  limit, capable, mode, demand, unsupported, pool, unclosed, dirty, rec, goal,
  shared, supported, refused, subscribers, task, cancelled, owned, closing, dropped,
  stream, breaker, watched, evidence, retiring,
  content, log, ids, version, hashed, loop, build, client, restarts,
  listed, age, due, worker, changes, stops,
  saved, history, cache, accepted, decision, faults

\* The queues and the log of the dashboard hold at least one event.
ASSUME DashboardAssumption == QueueLimit \in Nat \ {0} /\ ReplayLimit \in Nat \ {0}

evidenceVars  == <<limit, capable, mode, demand, unsupported, pool, unclosed, dirty, rec,
                   goal>>
streamVars    == <<shared, supported, refused, subscribers, task, cancelled, owned,
                   closing, dropped>>
directVars    == <<stream, breaker, watched, evidence, retiring>>
dashboardVars == <<content, log, ids, version, hashed, loop, build, client, restarts>>
shadowVars    == <<listed, age, due, worker, changes, stops>>
settingsVars  == <<saved, history, cache, accepted, decision, faults>>
vars == <<focus, evidenceVars, streamVars, directVars, dashboardVars, shadowVars,
          settingsVars>>

Evidence  == INSTANCE SharedEvidence
Streams   == INSTANCE LiquidationStreams
Direct    == INSTANCE DirectStreams
Dashboard == INSTANCE DashboardStream
Shadow    == INSTANCE ExecutionShadow
Settings  == INSTANCE RuntimeSettings

Init ==
  /\ focus \in {"evidence", "streams", "direct", "dashboard", "shadow", "settings"}
  /\ Evidence!Init /\ (focus = "evidence" \/ (capable /\ limit = CHOOSE l \in Limits : TRUE))
  /\ Streams!Init /\ (focus = "streams" \/ (shared /\ supported))
  /\ Direct!Init
  /\ Dashboard!Init
  /\ Shadow!Init /\ (focus = "shadow" \/ listed = Contracts)
  /\ Settings!Init

InEvidence(A) ==
  /\ focus = "evidence" /\ A
  /\ UNCHANGED <<focus, streamVars, directVars, dashboardVars, shadowVars, settingsVars>>
InStreams(A) ==
  /\ focus = "streams" /\ A
  /\ UNCHANGED <<focus, evidenceVars, directVars, dashboardVars, shadowVars, settingsVars>>
InDirect(A) ==
  /\ focus = "direct" /\ A
  /\ UNCHANGED <<focus, evidenceVars, streamVars, dashboardVars, shadowVars, settingsVars>>
InDashboard(A) ==
  /\ focus = "dashboard" /\ A
  /\ UNCHANGED <<focus, evidenceVars, streamVars, directVars, shadowVars, settingsVars>>
InShadow(A) ==
  /\ focus = "shadow" /\ A
  /\ UNCHANGED <<focus, evidenceVars, streamVars, directVars, dashboardVars, settingsVars>>
InSettings(A) ==
  /\ focus = "settings" /\ A
  /\ UNCHANGED <<focus, evidenceVars, streamVars, directVars, dashboardVars, shadowVars>>

Next ==
  \/ InEvidence(Evidence!Next) \/ InStreams(Streams!Next)
  \/ InDirect(Direct!Next) \/ InDashboard(Dashboard!Next)
  \/ InShadow(Shadow!Next) \/ InSettings(Settings!Next)

Spec == Init /\ [][Next]_vars

Fairness ==
  /\ WF_vars(InEvidence(Evidence!Reconcile)) /\ WF_vars(InEvidence(Evidence!Age))
  /\ SF_vars(InEvidence(Evidence!Retired))
  /\ \A s \in Symbols : WF_vars(InEvidence(Evidence!Sync(s, mode[s])))
  /\ \A s \in Symbols :
       /\ WF_vars(InDirect(Direct!BeginUnwatch(s))) /\ WF_vars(InDirect(Direct!Retire(s)))
       /\ WF_vars(InDirect(Direct!Start(s))) /\ WF_vars(InDirect(Direct!GetExchange(s)))
       /\ SF_vars(InDirect(Direct!Deliver(s)))
  /\ WF_vars(InShadow(Shadow!RunOnce))
  /\ \A c \in Contracts :
       SF_vars(InShadow(Shadow!Record(c))) /\ WF_vars(InShadow(Shadow!Recheck(c)))

FairSpec == Spec /\ Fairness

\* The streams follow what the newest evaluation of each candidate asked for.
EvidenceFollowsState == Evidence!EvidenceFollowsState

\* Each stream has one transport at a time, the pool of shared transports and the
\* liquidation streams alike, and each is closed in the end.
OneTransportEach == Evidence!OneTransport /\ Streams!OwnedOnceAndClosed

\* No retirement unwatches or purges the stream of a successor.
SuccessorIsSpared == Direct!SuccessorIsSpared

\* A stream that stays wanted comes to serve fresh evidence.
StreamRecovers == Direct!StreamRecovers

\* The events of one connection only advance.
StreamOnlyAdvances == Dashboard!StreamOnlyAdvances

\* No contract waits for ever to be observed.
DueIsObserved == focus = "shadow" => Shadow!DueIsObserved

\* An evaluation uses the settings that stand, or the shipped ones where they are missing.
SettingsInForce == Settings!SettingsInForce

=============================================================================
