----------------------------- MODULE MCEvaluation -----------------------------
(***************************************************************************)
(* The decision pipeline, and what else an evaluation reads and leaves     *)
(* behind, in one instance for TLC: in each behaviour one of the           *)
(* components moves and the others stay as they were initially.            *)
(***************************************************************************)
EXTENDS MCDecisionPipeline, FiniteSets

CONSTANTS
  Symbols, Prices, Timeout, MaxClock, MaxSignals, MaxOpened, MaxUpsets,
  MaxAge, MaxViewTicks, MaxDecisions, MaxRelists,
  Budget, Interval, MaxTicks, MaxChanges, MaxRestarts,
  MaxListings, MaxEvents,
  LogSymbols, MaxBuckets, MaxEvaluations

\* The contracts whose paper trades are recorded are those of a catalogue.
ASSUME SymbolsAssumption == IsFiniteSet(Symbols)

VARIABLES
  focus,
  clock, price, standing, open, book, tally,
  viewTicks, viewListing, viewHead, live, running, asked, upkeep,
  ticks, sourceRow, sourceLive, hint, evidence, slot, run, validated, restarts,
  row, known, trailRun, signals, finals, events,
  bucket, pending, batch, flushing, stored, snapshots, catalogue, observed, logLost

tradesVars  == <<clock, price, standing, open, book, tally>>
viewVars    == <<viewTicks, viewListing, viewHead, live, running, asked, upkeep>>
sourcesVars == <<ticks, sourceRow, sourceLive, hint, evidence, slot,
                 run, validated, restarts>>
traceVars   == <<row, known, trailRun, signals, finals, events>>
countVars   == <<bucket, pending, batch, flushing, stored,
                 snapshots, catalogue, observed, logLost>>
evaluationVars == <<focus, vars, tradesVars, viewVars, sourcesVars, traceVars, countVars>>

Trades  == INSTANCE LiveTrades
View    == INSTANCE LiveView WITH MaxTicks <- MaxViewTicks,
             ticks <- viewTicks, listing <- viewListing, head <- viewHead
Sources == INSTANCE WatchSources WITH MaxRelists <- MaxChanges,
             row <- sourceRow, live <- sourceLive
Trail   == INSTANCE TriggerTrail WITH run <- trailRun
Log     == INSTANCE DecisionLog WITH Symbols <- LogSymbols, lost <- logLost

EvaluationInit ==
  /\ focus \in {"pipeline", "trades", "view", "sources", "trail", "log"}
  /\ Init
  /\ Trades!Init /\ (focus = "trades" \/ price = [s \in Symbols |-> 0])
  /\ View!Init
  /\ Sources!Init
  /\ Trail!Init
  /\ Log!Init

InPipeline ==
  /\ focus = "pipeline" /\ Next
  /\ UNCHANGED <<focus, tradesVars, viewVars, sourcesVars, traceVars, countVars>>
InTrades ==
  /\ focus = "trades" /\ Trades!Next
  /\ UNCHANGED <<focus, vars, viewVars, sourcesVars, traceVars, countVars>>
InView ==
  /\ focus = "view" /\ View!Next
  /\ UNCHANGED <<focus, vars, tradesVars, sourcesVars, traceVars, countVars>>
InSources ==
  /\ focus = "sources" /\ Sources!Next
  /\ UNCHANGED <<focus, vars, tradesVars, viewVars, traceVars, countVars>>
InTrail ==
  /\ focus = "trail" /\ Trail!Next
  /\ UNCHANGED <<focus, vars, tradesVars, viewVars, sourcesVars, countVars>>
InLog ==
  /\ focus = "log" /\ Log!Next
  /\ UNCHANGED <<focus, vars, tradesVars, viewVars, sourcesVars, traceVars>>

EvaluationNext ==
  InPipeline \/ InTrades \/ InView \/ InSources \/ InTrail \/ InLog

EvaluationSpec == EvaluationInit /\ [][EvaluationNext]_evaluationVars

\* No paper trade is lost or replaced but by a restart.
OpenedIsAccounted == Trades!OpenedIsAccounted

\* What is shown as ENTRY_READY stands in the ledger.
ShownReadyStands == View!ShownReadyStands

\* No answer of a provider clears a veto.
VetoStands == View!VetoStands

\* An advisory is of the decision or the analysis that is shown.
AdviceIsOfWhatIsShown == View!AdviceIsOfWhatIsShown

\* A probe never uses the venue of an earlier listing.
SourceOfItsListing == Sources!SourceOfItsListing

\* A trigger is signalled once.
TriggeredOncePerRise == Trail!TriggeredOncePerRise

\* The episodes of the shadow are separate paths.
EpisodesAreSeparate == Trail!EpisodesAreSeparate

\* Each evaluation is counted once.
EvaluationsAreCounted == Log!EvaluationsAreCounted

==============================================================================
