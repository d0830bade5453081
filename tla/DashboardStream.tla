--------------------------- MODULE DashboardStream ---------------------------
(***************************************************************************)
(* The event stream of the dashboard: core/dashboard_stream.py, the        *)
(* broadcaster and the endpoints of main.py, and the browser that reads    *)
(* them (frontend/app/page.tsx).                                           *)
(*                                                                         *)
(* Snapshots are built and numbered in threads: one for the broadcaster,   *)
(* which broadcasts what changed, and one for each client that cannot be   *)
(* served from the retained events.  Heartbeats are numbered on the event  *)
(* loop.  Every client has a bounded queue, whose oldest event makes room. *)
(***************************************************************************)
EXTENDS Naturals, Sequences, FiniteSets

CONSTANTS
  Clients,
  QueueLimit, ReplayLimit,
  MaxContent, MaxId, MaxRestarts   \* bounds

VARIABLES
  content,    \* the state that the snapshots show
  log,        \* the retained events: [id, version, content], content 0 in a heartbeat
  ids,        \* _event_sequence
  version,    \* _snapshot_sequence
  hashed,     \* _last_snapshot_content_hash, 0 initially
  loop,       \* where the broadcaster is: "top" or "beat"
  build,      \* its thread: [pc, content, event]
  client,     \* queue, generator and browser of each client
  restarts

logVars == <<log, ids, version, hashed>>
streamVars == <<content, logVars, loop, build, client, restarts>>

NoEvent == [id |-> 0, version |-> 0, content |-> 0]
NoBuild == [pc |-> "none", content |-> 0, event |-> NoEvent]
Off     == [pc |-> "off", queue |-> <<>>, replay |-> <<>>, full |-> NoEvent, delivered |-> 0,
            last |-> 0, from |-> 0, shown |-> NoEvent]

Init ==
  /\ content = 1
  /\ log = <<>> /\ ids = 0 /\ version = 0 /\ hashed = 0
  /\ loop = "top" /\ build = NoBuild
  /\ client = [c \in Clients |-> Off]
  /\ restarts = 0

Connected == {c \in Clients : client[c].pc # "off"}

\* The candidates changed.
Change ==
  /\ content < MaxContent /\ content' = content + 1
  /\ UNCHANGED <<logVars, loop, build, client, restarts>>

-----------------------------------------------------------------------------
(* DashboardEventBuffer. *)

\* _append: a snapshot supersedes the events before it.
Appended(event) ==
  /\ ids < MaxId /\ ids' = event.id
  /\ LET kept == IF event.content = 0 THEN log ELSE <<>> IN
     log' = IF Len(kept) = ReplayLimit THEN Append(Tail(kept), event)
                                       ELSE Append(kept, event)

Snapshot(shown) == [id |-> ids + 1, version |-> version + 1, content |-> shown]
Beat            == [id |-> ids + 1, version |-> version, content |-> 0]

\* _publish_snapshot_locked
Published(shown) ==
  /\ Appended(Snapshot(shown))
  /\ version' = version + 1 /\ hashed' = shown

\* The ids of the log ascend: what is newer than an event comes after it.
NewerThan(id) ==
  LET at == CHOOSE i \in DOMAIN log : log[i].id = id
  IN  SubSeq(log, at + 1, Len(log))
Boundary      == {e \in {log[i] : i \in DOMAIN log} : e.content # 0}

\* replay_after: what is retained after the requested event, or from the newest
\* snapshot on; "full" when neither will do.
ReplayAfter(id) ==
  IF id = 0 THEN [full |-> TRUE, events |-> <<>>]
  ELSE IF id = ids THEN [full |-> FALSE, events |-> <<>>]
  ELSE IF \E i \in DOMAIN log : log[i].id = id
       THEN [full |-> FALSE, events |-> NewerThan(id)]
  ELSE IF \E e \in Boundary : e.id > id
       THEN [full |-> FALSE, events |-> log]
  ELSE [full |-> TRUE, events |-> <<>>]

-----------------------------------------------------------------------------
(* sse_broadcaster. *)

\* _broadcast_dashboard_event: the oldest event of a full queue makes room.
Queued(queue, event) ==
  IF Len(queue) = QueueLimit THEN Append(Tail(queue), event) ELSE Append(queue, event)

Broadcast(event) ==
  client' = [c \in Clients |->
               IF c \in Connected
               THEN [client[c] EXCEPT !.queue = Queued(@, event)] ELSE client[c]]

\* _consume_dashboard_snapshot_task, and the start of another thread.
Round ==
  /\ loop = "top" /\ loop' = "beat"
  /\ IF build.pc = "done" /\ build.event # NoEvent
     THEN Broadcast(build.event) ELSE UNCHANGED client
  /\ build' \in IF build.pc = "running" THEN {build}
                ELSE {NoBuild} \cup
                     IF Connected # {}
                     THEN {[pc |-> "running", content |-> content, event |-> NoEvent]} ELSE {}
  /\ UNCHANGED <<content, logVars, restarts>>

\* _publish_dashboard_heartbeat
Heartbeat ==
  /\ loop = "beat" /\ loop' = "top" /\ Connected # {}
  /\ Appended(Beat) /\ Broadcast(Beat)
  /\ UNCHANGED <<content, version, hashed, build, restarts>>

NoHeartbeat ==
  /\ loop = "beat" /\ loop' = "top"
  /\ UNCHANGED <<content, logVars, build, client, restarts>>

Done(event) == [pc |-> "done", content |-> 0, event |-> event]

\* publish_snapshot_if_changed, in the thread.
Publish ==
  /\ build.pc = "running"
  /\ IF build.content = hashed
     THEN build' = Done(NoEvent) /\ UNCHANGED logVars
     ELSE Published(build.content) /\ build' = Done(Snapshot(build.content))
  /\ UNCHANGED <<content, loop, client, restarts>>

\* The aggregation failed; _publish_dashboard_snapshot_safely contains it.
PublishFails ==
  /\ build.pc = "running" /\ build' = Done(NoEvent)
  /\ UNCHANGED <<content, logVars, loop, client, restarts>>

-----------------------------------------------------------------------------
(* stream_candidates and the browser. *)

\* The queue is registered before anything is replayed.  The browser reconnects
\* with the id of the last event it read.
Connect(c) ==
  /\ client[c].pc = "off"
  /\ client' = [client EXCEPT ![c] = [@ EXCEPT !.pc = "asking", !.delivered = 0]]
  /\ UNCHANGED <<content, logVars, loop, build, restarts>>

Replay(c) ==
  /\ client[c].pc = "asking"
  /\ LET answer == ReplayAfter(client[c].last) IN
     client' = [client EXCEPT ![c] =
                  [@ EXCEPT !.pc = IF answer.full THEN "building" ELSE "on",
                            !.replay = answer.events,
                            !.full.content = IF answer.full THEN content ELSE 0]]
  /\ UNCHANGED <<content, logVars, loop, build, restarts>>

\* The thread publishes a full snapshot for this client.
BuildFull(c) ==
  /\ client[c].pc = "building"
  /\ Published(client[c].full.content)
  /\ client' = [client EXCEPT ![c].pc = "draining",
                              ![c].full = Snapshot(client[c].full.content)]
  /\ UNCHANGED <<content, loop, build, restarts>>

BuildFails(c) ==
  /\ client[c].pc = "building"
  /\ client' = [client EXCEPT ![c].pc = "on", ![c].full = NoEvent]
  /\ UNCHANGED <<content, logVars, loop, build, restarts>>

\* Mutant of Drained: the full snapshot comes before what was queued meanwhile.
DrainedInFront(c) == <<client[c].full>> \o client[c].queue

\* An event of each id, in the order of the ids.
InOrder(events) ==
  CHOOSE s \in [1..Cardinality({e.id : e \in events}) -> events] :
    \A i, j \in DOMAIN s : i < j => s[i].id < s[j].id

\* The queued events and the full snapshot, once each, in the order of the ids.
Drained(c) ==
  InOrder({client[c].full} \cup {client[c].queue[i] : i \in DOMAIN client[c].queue})

Drain(c) ==
  /\ client[c].pc = "draining"
  /\ client' = [client EXCEPT ![c] =
                  [@ EXCEPT !.pc = "on", !.replay = Drained(c), !.queue = <<>>,
                            !.full = NoEvent]]
  /\ UNCHANGED <<content, logVars, loop, build, restarts>>

\* What the browser holds: the id of the last event and the process it is from,
\* and the newest snapshot (accept of page.tsx; the versions never fall).
Read(k, event) ==
  [k EXCEPT !.delivered = IF event.id > @ THEN event.id ELSE @,
            !.last = event.id, !.from = restarts,
            !.shown = IF event.content # 0 /\ event.version > @.version THEN event ELSE @]

\* The replayed events go out as they are.  Of the queue, what was delivered
\* already, or is older than what was, is passed over.
SendReplayed(c) ==
  /\ client[c].pc = "on" /\ client[c].replay # <<>>
  /\ LET rest == [client[c] EXCEPT !.replay = Tail(@)]
     IN  client' = [client EXCEPT ![c] = Read(rest, Head(client[c].replay))]
  /\ UNCHANGED <<content, logVars, loop, build, restarts>>

SendQueued(c) ==
  /\ client[c].pc = "on" /\ client[c].replay = <<>> /\ client[c].queue # <<>>
  /\ LET event == Head(client[c].queue)
         rest  == [client[c] EXCEPT !.queue = Tail(@)]
     IN client' = [client EXCEPT ![c] =
                     IF event.id <= client[c].delivered THEN rest ELSE Read(rest, event)]
  /\ UNCHANGED <<content, logVars, loop, build, restarts>>

Left(c) ==
  [Off EXCEPT !.last = client[c].last, !.from = client[c].from, !.shown = client[c].shown]

Disconnect(c) ==
  /\ client[c].pc # "off"
  /\ client' = [client EXCEPT ![c] = Left(c)]
  /\ UNCHANGED <<content, logVars, loop, build, restarts>>

\* The process restarts.  Event ids begin again; the epoch puts the snapshot
\* versions above those of the process before (restart_safe_epoch).
Restart ==
  /\ restarts < MaxRestarts /\ restarts' = restarts + 1
  /\ log' = <<>> /\ ids' = 0 /\ hashed' = 0 /\ version' = version + 1
  /\ loop' = "top" /\ build' = NoBuild
  /\ client' = [c \in Clients |-> Left(c)]
  /\ UNCHANGED content

Serve(c) ==
  Replay(c) \/ BuildFull(c) \/ BuildFails(c) \/ Drain(c) \/ SendReplayed(c) \/ SendQueued(c)

Next ==
  \/ Change \/ Round \/ Heartbeat \/ NoHeartbeat \/ Publish \/ PublishFails \/ Restart
  \/ \E c \in Clients : Connect(c) \/ Serve(c) \/ Disconnect(c)

Spec == Init /\ [][Next]_streamVars

-----------------------------------------------------------------------------
(* Properties. *)

\* In one connection the ids of the events that arrive only grow, whatever the
\* threads number while the client is served (stream_candidates: the queue is
\* registered first, and what it holds merged with the full snapshot).
StreamOnlyAdvances ==
  [][\A c \in Clients :
       client[c].delivered # 0 /\ client'[c].pc = "on" /\ client'[c].last # client[c].last
         => client'[c].last > client[c].delivered]_streamVars

\* A client whose last event is older than the newest retained snapshot, or of an
\* earlier process, is sent that snapshot or a fresh one (_append: "older
\* reconnects can replay from that complete state or fail closed to a fresh
\* snapshot").
ReconnectCatchesUp ==
  [][\A c \in Clients, e \in Boundary :
       /\ client[c].pc = "asking" /\ client'[c].pc = "on"
       /\ client[c].from # restarts \/ client[c].last < e.id
       => \/ e = build.event
          \/ \E i \in DOMAIN client[c].queue : client[c].queue[i] = e
          \/ \E i \in DOMAIN client'[c].replay : client'[c].replay[i] = e]_streamVars

=============================================================================
