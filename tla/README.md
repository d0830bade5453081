# Formal model of WaterfallHunter

TLA+ specifications of the backend in `src/backend/src/waterfallhunter` and of the
scripts that deploy it, the TLC configurations that check them on small instances, and
TLAPS proofs of the main invariants for every value of the constants. Paths below are
relative to that directory unless they begin with `docs/`, `scripts/`, `deploy/` or
`frontend/`.

The backend watches perpetual contracts of one exchange, analyses each against
several providers, records one *entry decision* per symbol in an append-only ledger
and announces a decision that becomes `ENTRY_READY` by Telegram. It is one asyncio
process over SQLite; it places no orders. What can go wrong is therefore mostly
*order*: evaluations that await providers for seconds while the catalogue changes
under them, maintenance threads that append to the same ledger, a notification that
is leased, posted and recorded in three transactions, streams that are retired while
their successors start, a migration or a deployment that stops half way, a restart
between any two steps.

## 1. Inventory

| Component | State | Operations | Talks to | Model |
|---|---|---|---|---|
| Notification outbox, `core/notification_delivery.py` | `entry_notification_outbox` rows: status, attempts, due time, lease | recover leases, grace, claim, complete | ledger, transport, `main.py` loop | `NotificationDelivery` |
| Telegram transport, `core/notifier.py` | none | suppress stale, load advisory, post, classify the answer | Telegram, ledger | `NotificationDelivery` |
| Entry decision, `core/entry_decision.py` | none (pure) | `build_entry_decision`, expiry, invalidation | evaluation, maintenance | `EntryDecision` |
| Decision ledger, `core/entry_decision_store.py` | decision events, outbox rows, captures, advisories | append if changed (fenced), read newest, capture, resolve | everything below | `DecisionPipeline`, `OutcomeCapture`, `LiveView` |
| Catalogue, `core/db.py`, `discovery/lbank_scanner.py` | `lbank_catalog` rows: status, eligibility, lifecycle, missing count; in-memory candidates | list, drop, re-list, write lifecycle state, swap candidates | hunter loop | `DecisionPipeline` |
| Hunter loop and evaluation, `main.py` | snapshot of the candidates, tasks in flight, live metrics | maintenance, dispatch, evaluate | all of the above | `DecisionPipeline`, `LiveView`, `WatchSources`, `TriggerTrail` |
| Hunter schedule, `core/hunter_schedule.py` | due times per symbol | sync, pick due, mark started | hunter loop | `HunterSchedule` |
| Market analysis, `core/multi_exchange_validator.py` and its evidence modules | caches of candles, books, trades, benchmarks; loaded markets | waterfall of venues, gather evidence, gates, verdict | exchanges, CoinGlass | `VenueEvidence`, `SignalQualification` |
| Stage lifecycle, `core/stage_lifecycle.py` | times of four stages per lifecycle | advance, expire, cascade | evaluation | `SignalQualification` |
| Signal ledger, `core/lbank_signal_ledger.py` | signals, `domain_outbox_events` | `persist_trigger` (compare-and-set of the lifecycle state) | evaluation | `TriggerTrail` |
| Lifecycle V2 shadow | shadow events per episode | next state, append if changed | evaluation | `TriggerTrail` |
| Signal settlement, `core/lbank_signal_outcome.py` | one outcome per signal, append once | fetch candles, mature, evaluate, append | exchange | `SignalSettlement` |
| Outcome capture and resolution, `core/entry_decision_store.py` | captures, resolutions, two cursors | capture, repair, page, resolve | candle providers | `OutcomeCapture` |
| Paper trades, `main.py` | open trades in memory, rows of settled ones | open, settle | evaluation | `LiveTrades` |
| Production evidence, `core/production_evidence.py` | rows per bucket of time and symbol | record, read the hints back | evaluation | `WatchSources` |
| AI advisory and veto, `core/ai_veto.py` | tasks in flight | request, merge, store | providers, evaluation | `LiveView` |
| Execution decision log, `core/lbank_execution_decision.py` | counts in memory and in rows | observe, flush, snapshot | evaluation | `DecisionLog` |
| Execution shadow, `core/lbank_execution_shadow.py` and store | observations, next checks | queue, measure, record | exchange | `ExecutionShadow` |
| Websocket streamer, `core/ws_streamer.py` | tasks, exchange objects, caches, breakers, retirements | subscribe, reconcile, retire, recover | exchanges, evaluation | `SharedEvidence`, `DirectStreams`, `LiquidationStreams` |
| Dashboard stream, `core/dashboard_stream.py`, `frontend/app/page.tsx` | retained events, client queues, what a page shows | build, publish, replay, reconnect | browser | `DashboardStream` |
| Migrations and schema contract, `core/migrations.py`, `core/migration_preflight.py`, `core/schema_contract.py` | schema, history | preflight, bootstrap, apply, verify | backend start | `SchemaMigration` |
| Deploy scripts, `scripts/deploy_production.sh`, `deploy/self-hosted/` | containers, host files, backups, certificate | deploy, clean up, roll back, prune | health timer | `ReleasePipeline` |
| Backup and release certification, `core/deployment_certification.py` and the backup modules | documents sealed by hashes | back up, restore elsewhere, rehearse, certify | GitHub, wrapper, owner | `ReleaseGate`, `DeploymentCertification` |
| Mission continuity, `scripts/wfh_mission.py` | journal, checkpoints, mirror on GitHub | checkpoint, guard, synchronise | sessions, GitHub | `MissionContinuity`, `MissionMirror` |
| Runtime settings, `core/runtime_settings.py` | one row of settings, history of changes, cache | read, change, reset, make a policy | operator, evaluation | `RuntimeSettings` |
| Risk and position planning, provider registry, Telegram bot, watchdog, HTTP routes | | | | not modelled |

`PROJECT.json` lists every component with what is left out of it, and under `hazards`
the behaviours that are hard to test, each at its line.

How they interact. The scanner replaces the in-memory candidates after each catalogue
snapshot; the identity of a candidate object is the *token* by which an evaluation
notices that its symbol was re-listed. The hunter loop takes a snapshot of the active
rows once a minute, runs two reconciliations in worker threads (plans that expired,
symbols that left) and starts an evaluation per due candidate. An evaluation gathers
evidence from several venues, decides against the newest packet of the ledger, appends
its own behind a lifecycle fence, and writes the row's new lifecycle state, which also
says which streams the candidate is to have. The append inserts an outbox row when the
decision *becomes* `ENTRY_READY`; the delivery worker drains the outbox in a loop of its
own. Advisories, outcomes and settlements come later, from tasks and workers that know
the decision by its id. The dashboard shows what the evaluations left on the candidates.

What makes each part correct:

* outbox: one sender per event, no repetition that the code causes itself, no false
  `DELIVERED`, final is final, every event settles;
* decisions: `ACTIVE` follows `ENTRY_READY`, a terminal keeps its cause, the ledger does
  not return to an older listing, each standing `ENTRY_READY` is announced once;
* catalogue and evaluation: nothing that belongs to an old listing is written to a new
  one, and a decision is invalidated only when its listing is over;
* analysis: the evidence is of one contract and fresh together; a strict signal is earned
  by stages that were confirmed in order;
* what is shown: nothing stands on the page that does not stand in the ledger, and no late
  answer belongs to something else;
* what is recorded: a trigger once per rise, trades and counts exactly once, outcomes in
  agreement with the market;
* streams: one transport, everything opened is closed, the wanted streams recover;
* schema, releases, missions: whatever stops half way can be gone on with or is undone.

## 2. Modules

| Module | What it is |
|---|---|
| `OutboxPromise` | abstract outbox: an event is published, accepted any number of times while open, settled once |
| `NotificationDelivery`, `_proofs` | the outbox table, the worker, the transport and the clock; implements `OutboxPromise` |
| `EntryDecision`, `_proofs` | `build_entry_decision` and the two other transitions as operators |
| `DecisionPipeline`, `_proofs` | catalogue, hunter loop, evaluation, ledger and announcement of one symbol |
| `HunterSchedule`, `_proofs` | which candidate the hunter loop evaluates, and when it sleeps |
| `LiveTrades`, `LiveView`, `WatchSources` | what an evaluation reads and leaves behind beside its decision |
| `TriggerTrail`; `DecisionLog` | the same: the trail of a trigger; the counts of evaluations |
| `VenueEvidence`, `SignalQualification` | what an analysis gathers; what it makes of it |
| `OutcomeCapture`, `SignalSettlement` | what becomes of decisions and of signals |
| `SharedEvidence`, `DirectStreams`, `LiquidationStreams` | the websocket streams of a venue |
| `DashboardStream`, `ExecutionShadow` | the event stream of the page; the shadow measurements |
| `RuntimeSettings` | the operator's settings |
| `SchemaMigration`, `ReleasePipeline` | the schema, a deployment |
| `ReleaseGate`, `DeploymentCertification` | the evidence a dispatch needs; the evidence an owner is asked to approve |
| `MissionContinuity`, `MissionMirror` | work that outlives its sessions |
| `MCNotificationDelivery`, `MCHunterSchedule`, `MCOutcomeCapture` | one instance each |
| `MCDecisionPipeline` | the pipeline alone, for `Pipeline*.cfg` |
| `MCEvaluation`, `_proofs` | the pipeline with the five modules of an evaluation, `DecisionPipeline.cfg` |
| `MCRuntime`, `_proofs` | streams, dashboard, shadow and settings, `Runtime.cfg` |
| `MCDurable`, `_proofs` | what is kept in the database, in files, on the host and at GitHub, `Durable.cfg` |
| `MCDurableEvidence_proofs` | proofs about `ReleaseGate` and `DeploymentCertification`, and about `VenueEvidence`, `SignalSettlement` and `SignalQualification` |

The last three put independent modules side by side: a variable `focus` (chosen
initially) says which of them moves in a behaviour, the others stay as they were. That
checks each module on its own instance and saves a configuration per module; it says
nothing about interactions between modules that are not in one module already. What
interacts closely is in one module: catalogue, evaluation, maintenance, ledger and
delivery in `DecisionPipeline`, evaluations with background answers in `LiveView`,
commands with the starting backend in `SchemaMigration`, the script with the health timer
in `ReleasePipeline`.

Definitions whose comment begins "Mutant of" are not part of the model: each is the
code with one plausible mistake, used to see that a property notices it.

### NotificationDelivery

A worker process runs `dispatch_once` in a loop. Each database call is one transaction
in its own thread, so a dispatch is a chain of atomic steps, `pc[p]`:

| Step | Action | Code |
|---|---|---|
| idle | `Begin` | `_entry_notification_loop` |
| recover | `Recover` | `recover_expired_leases` |
| grace | `GraceStep` | `_ensure_expired_entry_advisory_grace` |
| claim | `Claim`, `NothingDue` | `claim_next` |
| check | `Suppress`, `Deliverable`, `FailBeforeSend` | `deliver`, `_current_entry_ready_is_deliverable` |
| advise | `LoadAdvisory`, `FailBeforeSend` | `_load_advisory_for_decision` |
| post | `PostAccepted`, `PostRefused` | the HTTP request |
| answer | `AnswerAccepted` | the classification of the answer |
| check to answer | `TransportTimeout` | `asyncio.wait_for` in `dispatch_once` |
| complete | `Complete`, `CompletionRefused` | `_complete`, `_next_state` |
| any | `Abandon` | crash, shutdown, failed transaction |

Sending and answering are separate steps because Telegram may accept a message whose
answer never arrives. Two processes are allowed, since during a restart the old and
the new backend overlap and both write the lease owner `canonical-entry-telegram`.
`Enqueue`, `StoreAdvisory` and `Supersede` are what the rest of the system does to the
table. Time is relative: every timestamp is kept as its distance from the clock, which
keeps the state finite under a clock that never stops; a dispatch works with the
timestamp it read at its beginning, `lag[p]` units ago. A lost answer is classified as
the code does: a read timeout is uncertain, a broken connection, a 5xx or a garbled
2xx is a transient failure and will be retried, which is the one source of repeated
messages.

### EntryDecision and DecisionPipeline

`EntryDecision` translates the decision rules with the metrics abstracted to what the
rules tell apart (a Boolean per freshness or viability test, a band for readiness, one
Boolean for the remaining gates). `DecisionPipeline` follows one symbol. Its variables
are the symbol's catalogue row, the scanner's candidate, the loop's snapshot, the
evaluation in flight, the maintenance, the newest ledger packet and the outbox row of
the standing `ENTRY_READY`. The ledger is append-only and the code reads only its
newest packet, so that packet is all the model keeps.

| Actions | Code |
|---|---|
| `Refresh`, `RefreshUnwritten` | `update_catalog`, with and without a database that took the writes |
| `BeginMaintenance`, `Expire` | `_reconcile_explicit_entry_expirations` (thread) |
| `FetchCandidates`, `FetchFails` | `get_all_active_candidates` (thread) |
| `PassOver`, `ReadToInvalidate`, `Invalidate` | `_reconcile_inactive_actionable_decisions` (thread) |
| `MaintenanceFails` | the `except` of the maintenance |
| `Dispatch`, `Start`, `Measure`, `ReadPrevious`, `Conclude`, `Discard` | `evaluate_candidate` |
| `LoseReference`, `ConcludeLost` | its path without any reference price |
| `Deliver` | the transport's check of the newest decision |
| `Crash`, `Tick` | the process and its clock |

Atomicity is the event loop's: what a coroutine does between two awaits is one step,
and no other coroutine moves between the ledger read and the ledger append of an
evaluation (`LoopFree`). The worker threads do, so each of their transactions is a step
that may fall in between.

### HunterSchedule

`DecisionPipeline` lets the loop dispatch its one symbol at any time; `HunterSchedule`
has what decides the time, for several symbols, and leaves out what an evaluation does.
A round is `Maintain` (or `MaintenanceFails`, `NoMaintenance`), `Dispatch`, `Written`
when there was maintenance, `Rest`, and `WakeUp`. `due` and `since` are `next_due_at`
and `last_started_at` as distances from the clock; `task` is the `in_flight` dictionary
together with the state of its tasks, so that an evaluation that has returned keeps its
slot until the loop reaps it. A snapshot may show any state for any symbol, which
covers what evaluations and the scanner write and a read that fails. Where
`due_candidates` breaks ties by the age of the published analysis and the name, the
model takes any order. The loop may lose a unit of time in the maintenance writes; its
other steps take no time on the scale of the intervals. Shutting the loop down is left
out.

### What an evaluation reads and leaves behind

| Module | Actions | Code |
|---|---|---|
| `LiveTrades` | opening and settling paper trades as one step of an evaluation, failed transactions, restarts | `_backtest_active_trades` and its helpers in `main.py` |
| `LiveView` | evaluations that begin, conclude, hang or lose their reference, with the ledger append, the second read of the ledger and the store of the metrics as steps of their own; the two kinds of advisory, asked and answered in any order; replaced objects; the invalidation thread, also after a failed read | `evaluate_candidate`, `_store_live_metrics`, the advisory tasks, `get_formatted_candidates`, `_reconcile_inactive_actionable_decisions` |
| `WatchSources` | full validations, probes of the remembered venue, the slot for revalidations, rows of the evidence, restarts | `_progressive_watch_result`, `ProductionEvidenceRecorder` |
| `TriggerTrail` | the statuses an evaluation writes, the compare-and-set of a trigger, the final record, V2 events, a crash between any two of those transactions | `persist_trigger`, `LifecycleV2ShadowStore` |
| `DecisionLog` | counting, flushing by a thread while counting goes on, a failed flush put back, snapshots | `LBankExecutionDecisionLogger` |

`DecisionPipeline` has the decision, these have the rest. Each keeps its own, smaller view
of the catalogue row, so that what the pipeline checks of tokens and fences is not
repeated.

`LiveView` is where the ledger and the page can part. An evaluation has the event loop from
its token check to the store of its metrics (`Held`), but the maintenance thread and the
snapshot of the dashboard run in threads beside it. And the maintenance takes the set that
`get_all_active_candidates` returns for the universe: a read that fails returns none, and
the decision of a *listed* symbol is invalidated while its metrics stay on the candidate
(`misread`). `ShownReadyStands` therefore names two windows in which a shown `ENTRY_READY`
is not the newest decision: until an evaluation that has appended a newer one has stored
it, and, after a failed read, until the next evaluation of the symbol ends or its analysis
is too old to be shown. Without either exception TLC finds the property violated.

### Analysis

`VenueEvidence` follows one candidate through the requests of `cross_check_symbol`. Time
passes during every request. Venues may list the coin itself, a contract of a thousand
coins, or nothing; the caches of the code (markets, closed candles, benchmarks) are
variables, and so is what is taken from each. `SignalQualification` starts where the
evidence is complete: the chain of stages, the prefilter of WATCH, the verdict, and the
row of `lbank_stage_lifecycle`, with its expiry by stage and the checks of order and
lifecycle. An evaluation may see any set of stages that one snapshot of candles can give:
every type of setup is one of a damaged chart, and the hype of the 4h candles and the
trigger of the shorter ones come with or without it (`Snapshots`). So a trigger may meet a
setup that was remembered from an earlier evaluation, and the expiry of what is remembered
decides the chain. Indicators and scores are classes of their outcomes.

### Outcomes

`OutcomeCapture` has two callers that offer decisions (the evaluation and the maintenance
thread), the capture in its own transaction, its repair, and the worker with its two
lanes, cursors and batches. `SignalSettlement` keeps, beside the candles a venue delivers,
the order in which the trades reached the levels, which no reader sees: the question is
whether what is said for good agrees with it.

### Streams

`SharedEvidence` is the dirty mark, the reconciler task and the generation of the shared
transport. A venue takes a limited number of subscribers; one that is refused is not told,
and asks again with its next evaluation. `EvidenceFollowsState` excepts the candidate that
finds the venue full again and again (`CrowdedOut`): the code leaves it to REST.
`DirectStreams` the streams of single symbols, their circuit breaker, caches
and retirement; `LiquidationStreams` the liquidation tasks, which may outlive their
subscription in a `finally` that runs late. `DashboardStream` numbers snapshots in threads
and heartbeats on the loop, and follows a client's queue to what its page shows.
`ExecutionShadow` is the refilled queue with its order by age.

`RuntimeSettings` has the row, its history, the cache of a process and the settings that
an evaluation used. Each request and each evaluation is one step, since both run on the
event loop without an await between read and write. Two thresholds that must agree and
one gate stand for the knobs. The faults are a read that fails, a write that is refused, and
fields of the row that are lost or not legal any more: a read then takes the default of
those fields only and checks nothing across fields, so an evaluation may use a mix that no
change could have set, and the next change is merged with that mix. `SettingsInForce` says
field by field what is in force; that it is coherent can be said of what was accepted only.

### Schema, releases and missions

`SchemaMigration` runs the preflight, the runner and the contract as separate
transactions of several commands, beside a backend that starts. `ReleasePipeline` has the
script's variables (what it believes to have changed), so that a signal between two
commands meets the belief and not the truth. `ReleaseGate` has the documents that a
dispatch relies on and their ages. What a backup rests on (the database file, the assets
of its release, the restored copy) may be lost at any time, and GitHub may not answer; a
backup loses one part (`NothingLost`), since a second loss could only forbid more.
`DeploymentCertification` has the local copy, the rehearsal on it, the images with the CI
run that tested them, the staging shadow and what is written down about it, and the
report that an owner may approve while it is valid; any documents that exist may be put
into one packet. It is followed to one report. `MissionContinuity` and `MissionMirror` have the
journal and checkpoints, and the requests to GitHub that fail and may still be served.
What operators, sessions and GitHub do is external and as free as the documents leave it.

## 3. Runs

| Run | Expect | Shows |
|---|---|---|
| `notification` | pass | one sender per event, repeats only after a lost answer, `DELIVERED` is known, stale events are not posted, `OutboxPromise` is implemented, every event settles |
| `schedule` | pass | slots hold and no sleep passes a deadline, starts keep their distance, due `WATCH` work is evaluated under any load |
| `pipeline` | pass | token, late has an origin, lifecycles never go back, invalidation only outside the universe; and of the evaluation's other traces: trades accounted for, what is shown stands, vetoes stand, advice is of what is shown, a probed venue is of its listing, one signal per rise, V2 episodes apart, evaluations counted once |
| `runtime` | pass | one transport at a time, everything opened is closed, retirements spare successors, streams follow states and recover, event streams only advance, every due contract is observed, an accepted setting is in force at once, but for the defaults of missing fields, and what is accepted agrees with itself |
| `outcomes` | pass | the newest decision is captured in the end, no mature capture is starved |
| `durable` | pass | with crashes: announcements agree with the ledger, an undone deployment leaves nothing, no needed backup is pruned, a stopped migration resumes, a strict signal is earned, a session is told to go on only from a settled state, the mirror's pointer has its evidence, outcomes agree with the trades, no deployment without a recoverable state, no valid approval of anything untested or old, evidence belongs together |
| `pipeline_read_failure` | violation | a failed read invalidates live decisions |
| `pipeline_dropped_ready` | violation | a standing `ENTRY_READY` that is never announced |
| `pipeline_late_returns` | violation | `LATE` is left in its own lifecycle |
| `pipeline_weak_late` | violation | `LATE` on evidence below `FORMING` |
| `dashboard_restart` | violation | a reconnecting page gets no snapshot after a restart |
| `release_quarantine` | violation | quarantined release containers come up again |

Every property has a mutant of the code in `PROJECT.json` that it refutes.

Bounds of `notification`. One event suffices for safety: the only thing that relates
two rows is the order in which they are claimed, and no safety property depends on it.
Two processes are the most that overlap. `Lease = 2`, `MaxLag = 2`: a lease can run out
under a dispatch, which is the interesting case (in production the lease of 30 s and
the transport timeout of 10 s leave it to slow database threads or a suspended
process). Two attempts give a first one, a retry and exhaustion. `Horizon` lies beyond
every comparison the code makes. One crash or failed transaction is allowed
(`MaxFaults`).

Bounds of the pipeline. Two listings are the least at which something of an old
one can meet a new one, and every mechanism (token, fence, transition rules) compares
two. One clock tick separates a plan that has not expired from one that has. The
`Watching` states below `ARMED` differ only by name; `durable` has `WATCH` alone.
`MaxReadFaults` and `MaxCrashes` are 0 in `pipeline`, whose property on invalidation fails
under a failed read (that is `pipeline_read_failure`), and 1 in `durable`, where the plans
do not expire. The evidence sets hold one case per rule that tells cases apart.

Bounds beside the pipeline. Trades: two symbols, the prices that stop, miss, or meet a
target, two signals, one upset (failed transaction or restart). View: three ticks with an
age of one (a metric can become too old twice), three decisions, one re-listing; the failed
reads are not bounded. Sources:
a budget of none and an interval of one, so that a due validation can be kept out of its
slot; leaving and coming back, one restart. Trail: two listings, two signals, three
events, enough for a rise, a fall and a second rise. Log: two buckets and three
evaluations, so that counting can go on during a flush that fails.

Bounds of `schedule`. Three symbols and two slots are the least at which two
urgent candidates can keep every slot busy and shut a third one out. The intervals (2 and
3) keep the order of the real ones, and the shortest exceeds one unit, so that
maintenance can fall between a start and the next deadline. `MaxRun` is the time within
which an evaluation returns; it equals the shortest interval, so an evaluation can still
run when its symbol is due. Deadlines older than `MaxLate` are not told apart.
`MaxChanges` bounds the snapshots that differ from the one before: an evaluation in
flight counts as `WATCH` by the newest snapshot, and without a bound each of an endless
chain of urgent evaluations could be demoted while it runs and so hold off the reserved
slot.

Bounds of `runtime`. Two symbols can replace each other in a generation and compete for a
venue that takes one of them or both; a breaker opens at the second failure. One client with
two queue places meets every overflow, since clients share only the retained events; two
ids, contents and retained events, one restart. The shadow has three contracts for a batch
of two: one is always left out. Two changes of the settings, a cache of two units and two
faults: one change meets what a failed read or a damaged field left behind the other.

Bounds of `outcomes`. Batches of one make every pending capture wait for the cursor; two
events give a newest and an older one; one fault; the horizon and the retry window end
within the two units of the clock.

Bounds of `durable`. Two deployments, of which the second finds what the first left, and
one kept backup. Two commands that may each be tried twice. Stages that live one unit
within two units of time, so that a remembered setup may still hold or have lapsed alone
when its trigger comes, and a hype may have lapsed below stages that are young; three
snapshots, one set-back of the clock. Two venues, one of which CoinGlass knows, lifetimes of none to one unit, two analyses, of which the
second meets the caches of the first. Two sessions and steps, four checkpoints, two
misfortunes (a death or damage). Three checkpoints to mirror with two lost requests. A
window of two candles, a delay of two and a lag of publication of one: reading at once, as
a mutant does, is wrong, reading after the delay is right. Two backups over three days
with validities of one and two. One copy, and a clock of three: a shadow that soaks two
units, ages and the life of a report of one unit, no skew of the birth time, so that each
deadline is met and missed. Two builds of two revisions, of which CI knows one, so that
every part of a packet can be about the other one.

Fairness. The schedule's `FairSpec` assumes that the loop takes its next step, that time
passes and that every evaluation returns: the loop is one task of the event loop and
logs what an evaluation or the maintenance raises, and evaluations wait for providers
under timeouts. It does not assume that any candidate is chosen. The outbox's
`FairSpec` assumes that time passes and that every process keeps taking the
next step of its loop: `_entry_notification_loop` catches a failed dispatch and goes
on, every await of a dispatch has a timeout, and a process that dies is restarted.
Nothing is assumed of advisories, of Telegram or of the step that stores the
`UNAVAILABLE` advisory, which may fail every time. In `runtime` the reconciler task, the
callers' `sync` and the retirement and start of a stream go on, since they are tasks of
the event loop under timeouts; a retirement that is tried again and again succeeds once,
and a venue that is watched again and again answers once (strong fairness: both may fail
any finite number of times, and without it no stream need ever come). The shadow's loop
goes on, and a contract that is measured again and again is recorded once. In `outcomes`
the worker's cycle and the clock go on, callers offer again, and a provider that is asked
for a capture again and again answers once. `pipeline` and `durable` have safety
properties only.

## 4. What is proved

All proofs are checked by TLAPS with the SMT, Zenon and LS4 backends, for every value of
the constants that the modules' assumptions admit: `ConstantsAssumption`,
`PipelineAssumption`, `ScheduleAssumption`, `SymbolsAssumption` (the symbols of trades are
finitely many), `ReleaseAssumption` (at least one backup is retained),
`DashboardAssumption` (queue and log hold at least one event), `NoticesAssumption`
(`MCDurable`'s constants are ones of a pipeline), and `GateAssumption`,
`CertificationAssumption`, `VenueAssumption` and `SignalAssumption` (ages, skews and lives
are lengths of time). They give types; none bounds the number of events, processes,
listings, crashes, faults or failed reads. One says more: `SettlementAssumption` has a
candle final on the venue before the readers' delay is over. That is the venue's part and
what the delay is for; the mutant that reads at once shows that it is needed.

The last four modules below prove what `MCEvaluation`, `MCRuntime` and `MCDurable` check.
An invariant is proved inductive for one component (`X!Init => Inv`,
`Inv /\ [X!Next]_vars => Inv'`); a lemma `...Moves` says that a step of the whole
specification is a step of that component or leaves its variables alone, which carries
the invariant over to the specification of the run. What an instance defines and does not
leave open (two revisions of which the second has the newer schema, two builds, ten
migrations) the proofs take as defined.

**NotificationDelivery_proofs.** `SingleSender` is not inductive: that two processes do
not share an event follows from what a claim leaves in the row. `Inv` adds
`ClaimStands` (while a process holds a claim, the row carries its attempt number, and
is `SENDING` or was settled as uncertain by a lease recovery) and the accounting of
acceptances at every step of a dispatch (`OpenAccounting`, `ClaimAccounting`). Because
an expired lease is settled and never handed on, a second claim of a held row is
impossible even though both processes write the same owner. From `Inv`: `TypeOK`,
`SingleSender`, `RepeatOnlyAfterLostAnswer`, `DeliveredIsKnown`, `AttemptsLeft`, the
action property `FinalIsFinal`, and the refinement `KeepsPromise`. `StaleNeverPosted` rests
on `LateInv`: the claim of an event that was superseded before stands at the check or has
its answer, and an event that is superseded stays so.

**EntryDecision_proofs.** For any evidence, settings and previous packet: an `ACTIVE`
packet has an actionable predecessor of its lifecycle; the transition rules never make
a decision actionable; a packet is `LATE` exactly if it names an origin; with the
freshness and execution gates on, an actionable packet has no block reason.

**DecisionPipeline_proofs.** `Inv` joins `TypeOK`, `Rows` (candidate and token agree with
the row's lifecycle) and `Ledger` (an actionable packet, the newest one or one an
evaluation has read, is of the lifecycle that was ready last). The last part is what
`ActiveWasReady` needs: between an evaluation's read and its append a reconciliation
may replace the newest packet, but a packet of a reconciliation is never `ENTRY_READY`,
so the packet that was read stays grounded. From `Inv`: `TypeOK`, `TokenMatchesRow`,
`ActiveWasReady`, `OneRowPerReady` (both together: `NoticesMatchLedger`, which `durable`
checks through an instance), `LateNamesItsOrigin`. `ActionableIsUnblocked` is
proved under the assumption that the settings leave two gates on; with one of them off it
does not hold, which is what a switch is for. `MCDurable` instantiates this module, so that
its `NoticesMatchLedger` follows from the same invariant (`NoticesMatch`).

The two action properties rest on `Universe`: a lifecycle that is over (`Gone`) does not
come back, and once the loop has found the symbol without a candidate, the newest packet
and the evaluation in flight are of lifecycles that are over. So the maintenance appends
without a fence where nobody else writes, and what it read is still the newest packet. `NeverGoesBack` and `WithdrawnOutside` take `MaxReadFaults = 0`: a read that
fails looks like an empty universe and breaks both, which `pipeline_read_failure` shows.

**HunterSchedule_proofs.** `Inv` adds to `TypeOK`, `SlotsHold` and `NoOversleep` the
relation `Spaced`: a deadline plus the time since the start it follows is never below
the shortest interval. `StartsKeepDistance` rests on it, because neither a promotion
nor the saturation of old deadlines can break it. The lemma `SelectionFits` says that
what `due_candidates` returns is due, idle and within the limit, whether or not the
reservation replaced its last member. From `Inv`: `TypeOK`, `SlotsAreUsed` (`SlotsHold` and
`NoOversleep`) and `StartsKeepDistance`, for any number of symbols and slots.

**MCEvaluation_proofs.**

* `TrailInv`. `TriggeredOncePerRise` needs that an evaluation names a signal of the ledger
  (`NamesItsSignal`). `EpisodesAreSeparate` speaks of the newest event of an episode
  before each event; `HasNewest` says there is one, which an induction over the length
  would give and which is carried as a part of the invariant instead.
* `LogInv`. `EvaluationsAreCounted` needs two facts more: the batch is empty while no
  flush goes on (`BatchIsInFlight`; else a flush that fails would merge it twice), and the
  bucket that the snapshot thread is at has no snapshot yet (`SnapshotIsMissing`).
* `SourcesInv`. A venue that a probe takes was validated for the listing of the
  evaluation, since what is remembered, in memory and in rows, was (`VenuesAreValidated`);
  an evaluation whose token holds is about the listing of the row (`CurrentIsListed`), and
  a candidate is live only while the row is eligible (`LiveIsEligible`).
* `ViewInv`. What stands on the candidate and what an evaluation is about to store have the
  same claim (`ReadyStands`, `ResultIsSound`): a ready decision is the newest one, or the
  newest one is its invalidation after a failed read, which the packet remembers. While
  the thread holds what it read of a symbol outside the universe, no metrics of it are
  ready and no evaluation of it is current (`OutsideIsUnseen`), so only a misread can
  invalidate what is shown; and no evaluation begins while the thread is at it. Advisories
  in flight are about analyses that are over (`AsksAreOfThePast`). That a late answer
  clears no veto follows because only a ready decision is advised, and a ready one has no
  veto (`AdvisedIsSound`).
* `TradesInv`. The rows of the book, the open trades and those a restart gave up are the
  opened ones. Open trades are numbered by the count (`OpenAreNumbered`); a pass appends
  as many rows as it closes trades, because a finite set and the sequence of its members
  have one size.

**MCRuntime_proofs.** `OneTransportEach` is inductive for each kind of stream beside the
types; the lemma `RetireKeeps` carries it for liquidations: a stream that owns an exchange
has no close going on, so the close that retires it never displaces another. A direct stream
takes its lock only after the retirement of an earlier one (`LockedAfterRetirement`), which
is why a successor is spared. A field that the row still has is the one that was accepted,
and the cache holds what a read gave or a change answered (`InStep`). What was accepted is
coherent whatever the change was merged with, because `apply` checks the result and not the
parts; and every accepted value has its origin in the history or among the defaults
(`HasOrigin`), also a value that a change took over from a read that failed.

`StreamOnlyAdvances` is an action property: the event that is sent next is newer than what
was delivered. The queue of a client need not ascend, since a snapshot is numbered in its
thread and broadcast later. What is replayed does (`ReplayAdvances`): the log ascends
(`LogAscends`), its rest after an event ascends with it, and what is sorted is a sequence
that exists (`InOrderAscends`, by the smallest number for which it would not).

**MCDurable_proofs.**

* Mirror: an edit of the pointer that GitHub may still serve was requested after the
  comment it names was seen (`EditsHaveEvidence`), so the pointer has its evidence even
  if late requests are served out of order.
* Release: the script marks a change before it makes it; until then all is as it was
  found, and what is marked can be restored from a backup of the schema and a snapshot of
  the host that are those of the release that was found (`ChangesCanBeUndone`), since its
  phases come in order (`ScriptIsOrderly`). No backup is newer than that of the deployment
  at work (`BackupsAreNumbered`), so pruning keeps it.
* Schema: every database that one of the commands can leave is on the way from what it
  found to the released schema (`OnTheWay`): an initial part of the migrations, applied in
  order, with the history that tells so. A command that writes has judged a database of
  which that is true (`WritersAreSound`), other commands can only have gone on from there,
  and a backend serves only the whole schema (`BackendIsCurrent`).
* Mission: at most one session is at work, on the step after the completed ones
  (`SessionIsOrderly`, `StepsAreInOrder`). A state of the branch's head tells what was done
  (`StateTells`), and checkpoints are never ahead of the files (`CheckpointIsOfThePast`).
  Until a checkpoint has taken what a session did, files, checkpoint or head differ and the
  guard lets nobody go on (`NothingToResume`), whoever died or damaged a file between.
* Pipeline: `DecisionPipeline_proofs`, of which the instance is one.

**MCDurableEvidence_proofs.** What a report says remains true of its backup until its
deadline: what was restored or rehearsed stays so, and what gets older or is lost is
bounded by the deadline (`ReportIsBacked`). `MainIsAhead`: the live schema is one of a
revision not after main. For approvals, `ApprovalIsBounded` has the same for each document
of the packet, with the birth time of the file between what the copy says of itself and
the clock.

`VenueInv` has a part for each step of an analysis: what it has gathered is of the contract
of its reference price (`OfOneContract`), was within its age when it was accepted or asked
for (`OfItsTime`), and cached benchmarks are of the past (`BenchmarksAreOfThePast`).
`SettlementInv`: a level that a whole candle after the signal contains was reached
(`HitIsReached`), and one that was reached before another is in no later candle (`Agrees`),
so that the least candle that decides tells the truth. `SignalInv`, for every snapshot with
a setup only on a damaged chart: the row of a candidate holds, for each stage, the newest of
the times that still hold (`RowTells`). A history is in the order of time because an advance
that is older than the row is refused, also after the clock was set back.

Proved and in no run: the type invariants, `AttemptsLeft`, `FinalIsFinal` and
`ActionableIsUnblocked`.

Only model-checked: liveness, which is beyond the prover (`EverySettles`, `WatchIsServed`,
`StreamRecovers`, `EvidenceFollowsState`, `DueIsObserved`, `NewestIsCaptured`,
`MatureIsResolved`). Every invariant and every action property of a passing run is the
statement of a theorem.

## 5. Where code and documents disagree

1. `get_all_active_candidates` turns a read error into an empty result, and the
   maintenance then invalidates every actionable decision (`pipeline_read_failure`).
2. An update of a standing `ENTRY_READY` makes the only outbox row of that decision
   count as superseded; `docs/TELEGRAM.md` promises at-least-once delivery
   (`pipeline_dropped_ready`). The leverage advisory is recomputed from spread, entry
   price and readiness at each evaluation, while a notification may wait up to 300 s
   for its AI advisory.
3. `docs/DECISION_ENGINE.md` calls genuine `LATE` terminals terminal; the code lets
   them return (`pipeline_late_returns`).
4. The same document says anti-chase does not turn weak evidence into `LATE`; the code
   tests anti-chase first (`pipeline_weak_late`).
5. Event ids begin at 1 in each process, so a page that kept an id of the process before
   may be taken for up to date; the comments of `core/dashboard_stream.py` promise a
   replay or a fresh snapshot (`dashboard_restart`).
6. After a rollback that could not restore the database the containers are to stay
   quarantined, but the health timer and the restored service start them again
   (`release_quarantine`).

### Seen, but no run

Behaviour that was met while modelling and that no document forbids, or that no
property of a run is about:

* `main.py:2485`: the expiry thread appends without a fence, so `EXPIRED` of an older
  listing may follow a newer decision; `LifecyclesNeverGoBack` makes that exception. No
  producer of `position_setup` sets `expires_at` today.
* `main.py:4596`: an evaluation works with a status up to a minute old; a status that was
  written meanwhile is neither noticed nor rewritten. `TriggerTrail` has it for triggers.
* `core/hunter_schedule.py:104`: only `WATCH` has a reserved slot; the other states wait
  for as long as more urgent ones fill the slots.
* `core/entry_decision.py:803`: with a gate off, its reasons stay in an actionable packet.
* `core/notification_delivery.py:387` and `:390`: attempts and retry delays at their
  limits; proved (`AttemptsAreBounded`, `TypeCorrect`).
* `main.py:3032`: a heartbeat numbered after a snapshot, but consumed before it, makes
  clients skip that snapshot until the content changes again.
* `main.py:3272`: a candidate with remembered stages but no hype in its newest candles
  waits in `WATCH` for the hourly full validation.
* `main.py:3824`: a decision that stands after its paper trade was settled opens another
  one from the persisted plan.
* `main.py:2640`: the age of what is shown counts from the start of the newest
  evaluation, which stamps the candidate before it knows anything.
* `main.py:1453`: fundamental evidence is requested with the loop's row as its token,
  which is never the scanner's object, so the answer is always discarded.
* `main.py:3430`: without a price of LBank the first exchange that answers gives the
  reference, whatever contract of the coin it lists.
* `main.py:1510`: a later page of candles that fails lets the earlier ones be settled as
  `DATA_INCOMPLETE` for good.
* `core/lbank_signal_outcome.py:62`: pending signals are taken oldest first; those whose
  source delivers nothing keep newer ones out of a batch.
* `core/production_evidence.py:560`: a lost reference in the bucket of a success is not
  recorded, so a restart revives the venue, which is then probed again.
* `core/deployment_certification.py:1240`: the rehearsal follows the schema of the backup,
  not that of the live database; `StartsRecoverable` leaves a live database behind its
  backup out.
* `scripts/deploy_production.sh:902`, `:851`, `:489`: a signal between the certificate and
  the end of the traps rolls a certified release back; a rollback loses the rows written
  after the backup; after a handoff that lost the containers no later deployment resolves.
* `core/runtime_settings.py:257`: a read that fails is cached as the shipped defaults, and
  a change that follows is merged with them: every other knob is set back without a row
  in the history, although `:9` calls the settings auditable. `SettingsInForce` says what
  remains true, a knob has the value that the history records last or the shipped one. A
  reset after such a read finds nothing to change.
* `core/runtime_settings.py:248`: a read replaces each missing or illegal field by its own
  default, without the checks across fields that `apply` makes at `:288`. A `FORMING`
  threshold that was raised together with the one of `ENTRY_READY` stays in force beside
  the lower default of the latter when only that field is lost.
* `core/runtime_settings.py:172`: `telegram_delivery_enabled` is offered and has no reader.
* `scripts/wfh_mission.py:665`: the lock covers a call and not a session.

## 6. Not modelled, and why

* Point scores, indicators, risk and position planning, calibration and backtests:
  numeric functions without state, for which tests over inputs are the better tool. They
  appear as classes of their outcomes.
* Provider registry, Telegram bot, watchdog, HTTP routes and the pages: they read state,
  and decide nothing that is modelled.
* Providers, Telegram, GitHub, the host's tools and SQLite themselves: external. A write
  that SQLite refuses is modelled where the code goes on after it.
* Packets written before `late_origin` existed, and the rule that only they meet.
* Payloads, message formats, reports and projections.
* The cutover check, the provisioning of the host, the rehearsal's and the readiness
  probe's own state.

Assumptions about what is outside: the operators take one mission reconciliation at a
time; a candle no longer changes `PublishLag` after its end; release tools run from a
checkout of the revision they are asked about; the checks of the head of `main`
succeeded.

## 7. Plan

Done: the modules above. Next, in this order:

1. An abstract specification of the streams (a symbol has fresh evidence or none) that
   `SharedEvidence` and `DirectStreams` implement together.
2. `HunterSchedule` composed with `DecisionPipeline`, for the question how long a lost
   lifecycle state may stay wrong.
