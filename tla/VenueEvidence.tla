---------------------------- MODULE VenueEvidence ----------------------------
(***************************************************************************)
(* What an analysis gathers (core/multi_exchange_validator.py,             *)
(* cross_check_symbol), and from where: the gateway to the exchanges       *)
(* (multi_exchange.py), order books and trades (microstructure.py), closed *)
(* candles (candle_analyzer.py), derivatives (derivatives.py, coinglass.py)*)
(* and the benchmark.                                                      *)
(*                                                                         *)
(* One candidate is followed through one analysis after the other.  Every  *)
(* request takes time, in which its earlier answers age; the benchmarks of *)
(* a venue are shared with the analyses of other candidates.  An exchange  *)
(* may list the coin in contracts of a thousand.  A bar of the candles     *)
(* closes at each hour.  What follows from the evidence is modelled in     *)
(* SignalQualification.                                                    *)
(***************************************************************************)
EXTENDS Integers, Sequences

CONSTANTS
  Venues,                     \* the priority chain is 1..Venues, 1 is binance
  CoinGlassVenues,            \* the venues CoinGlass knows
  BookTtl, TradeTtl,          \* lifetimes of order books and of trades
  BenchmarkTtl, CandleAge,    \* of a benchmark, and of the newest closed candle
  MaxHour, MaxAnalyses        \* bounds

VARIABLES
  hour,          \* time.time()
  contracts,     \* what each exchange lists: "own", "scaled" or "none"
  loaded,        \* _markets_loaded
  series,        \* _closed_series_cache: newest bar of the candidate, at each venue
  benchmarks,    \* _benchmark_cache: time at which the kept packet was asked for
  analysis,      \* of the task
  analyses       \* analyses that were begun

vars == <<hour, contracts, loaded, series, benchmarks, analysis, analyses>>

Chain == 1..Venues
None == -1
Binance == 1
Rounds == 3

\* No evidence.  The book is as old as its first snapshot; "short" is a batch with fewer
\* than twenty trades.
NoMicro ==
  [first |-> None, book |-> None, trades |-> None, short |-> FALSE, bookMay |-> FALSE,
   tradesMay |-> FALSE, round |-> 0]

Rest ==
  [pc |-> "rest", reference |-> "own", venue |-> 0, micro |-> NoMicro, accepted |-> None,
   confirmation |-> 0, asked |-> None, bar |-> None,
   derivatives |-> 0, candidates |-> <<>>,
   context |-> None, benchmark |-> None, awaited |-> FALSE]

Init ==
  /\ hour = 0 /\ analyses = 0 /\ analysis = Rest
  /\ contracts \in [Chain -> {"own", "scaled", "none"}]
  /\ loaded = [v \in Chain |-> FALSE]
  /\ series = [v \in Chain |-> None]
  /\ benchmarks = [v \in Chain |-> None]

At(step) == analysis.pc = step

-----------------------------------------------------------------------------
(* The gateway *)

\* _get_exchange: the markets are loaded once, and asked for again after a failure.
Reached(v) == {l \in {loaded, [loaded EXCEPT ![v] = TRUE]} : l[v]}

Unreached(v) == IF loaded[v] THEN {} ELSE {loaded}

\* A price within the tolerance of the reference is one of the same contract: the others
\* are off by the factor of the contract.
PriceIsCompatible(v) == contracts[v] = analysis.reference

BeginWith(reference) ==
  /\ analysis.pc \in {"rest", "done"} /\ analyses < MaxAnalyses
  /\ analysis' = [Rest EXCEPT !.pc = "venue", !.reference = reference, !.venue = 1]
  /\ analyses' = analyses + 1
  /\ UNCHANGED <<hour, contracts, series, benchmarks>>

Begin == BeginWith("own") /\ UNCHANGED loaded

\* LBank has no price: the reference is that of the first exchange that answers.
BeginWithoutLBank ==
  \E v \in Chain :
    /\ contracts[v] # "none" /\ BeginWith(contracts[v])
    /\ loaded' \in Reached(v)

\* The exchange does not answer, does not list the coin, or is not near the reference.
Pass ==
  /\ At("venue")
  /\ loaded' \in Reached(analysis.venue) \cup Unreached(analysis.venue)
  /\ analysis' =
       IF analysis.venue < Venues THEN [analysis EXCEPT !.venue = @ + 1] ELSE Rest
  /\ UNCHANGED <<hour, contracts, series, benchmarks, analyses>>

Consider ==
  /\ At("venue") /\ PriceIsCompatible(analysis.venue)
  /\ loaded' \in Reached(analysis.venue)
  /\ analysis' = [analysis EXCEPT !.pc = "book"]
  /\ UNCHANGED <<hour, contracts, series, benchmarks, analyses>>

\* The validator goes on with the next venue.
NextVenue ==
  IF analysis.venue < Venues
  THEN [Rest EXCEPT !.pc = "venue", !.reference = analysis.reference,
                    !.venue = analysis.venue + 1]
  ELSE Rest

GiveUpVenue ==
  /\ analysis.pc \in {"book", "collect", "confirm", "candles"}
  /\ analysis' = NextVenue
  /\ UNCHANGED <<hour, contracts, loaded, series, benchmarks, analyses>>

-----------------------------------------------------------------------------
(* Order books and trades *)

Micro(m) == [analysis EXCEPT !.micro = m]

Usable(at, ttl) == at # None /\ hour - at <= ttl

BookIsUsable(m)   == Usable(m.book, BookTtl)
TradesAreUsable(m) == ~m.short /\ Usable(m.trades, TradeTtl)

\* What the streams hold already, and is usable; the first book may be too old.
Held(first, book, trades) ==
  LET has(t) == IF t < 0 THEN None ELSE t
  IN  [NoMicro EXCEPT
         !.first = first, !.book = has(book), !.trades = has(trades),
         !.bookMay = has(book) # None \/ Usable(first, BookTtl),
         !.tradesMay = has(trades) # None]

Preloaded(m) ==
  [Micro(m) EXCEPT !.pc = IF m.book # None /\ m.trades # None THEN "validate" ELSE "collect"]

Preload ==
  /\ At("book")
  /\ \E book \in {None} \cup (hour - BookTtl)..hour,
        trades \in {None} \cup (hour - TradeTtl)..hour,
        first \in {t \in (hour - BookTtl - 1)..hour : t >= 0} :
       analysis' = Preloaded(Held(first, book, trades))
  /\ UNCHANGED <<hour, contracts, loaded, series, benchmarks, analyses>>

\* Both halves are asked for side by side.  The first series begins with the first book.
FetchBook ==
  /\ At("collect") /\ analysis.micro.book = None
  /\ LET m == analysis.micro IN
       \E first \in IF m.round = 0 THEN {m.first} ELSE m.first..hour :
         analysis' = Micro([m EXCEPT !.book = first])
  /\ UNCHANGED <<hour, contracts, loaded, series, benchmarks, analyses>>

FetchTrades ==
  /\ At("collect") /\ analysis.micro.trades = None
  /\ \E short \in BOOLEAN :
       analysis' = [analysis EXCEPT !.micro.trades = hour, !.micro.short = short,
                                    !.micro.tradesMay = ~short]
  /\ UNCHANGED <<hour, contracts, loaded, series, benchmarks, analyses>>

\* _refresh_expired_evidence: the half that aged while the other was on its way is asked
\* for again, unless it was of no use when it came.
Review ==
  /\ At("collect") /\ analysis.micro.book # None /\ analysis.micro.trades # None
  /\ LET m           == analysis.micro
         staleBook   == m.bookMay /\ ~BookIsUsable(m)
         staleTrades == m.tradesMay /\ ~TradesAreUsable(m)
     IN  analysis' =
           IF m.round < Rounds /\ (staleBook \/ staleTrades)
           THEN Micro([m EXCEPT !.first = hour,
                                !.book = IF staleBook THEN None ELSE @,
                                !.trades = IF staleTrades THEN None ELSE @,
                                !.round = @ + 1])
           ELSE [analysis EXCEPT !.pc = "validate"]
  /\ UNCHANGED <<hour, contracts, loaded, series, benchmarks, analyses>>

\* What is left of the collection.
Packet(m) ==
  [NoMicro EXCEPT !.book = m.book, !.trades = m.trades, !.short = m.short]

\* Both are fresh at one moment, at the end of the collection.
Validate ==
  /\ At("validate")
  /\ analysis' =
       IF BookIsUsable(analysis.micro) /\ TradesAreUsable(analysis.micro)
       THEN [analysis EXCEPT !.pc = "confirm", !.accepted = hour, !.micro = Packet(@)]
       ELSE NextVenue
  /\ UNCHANGED <<hour, contracts, loaded, series, benchmarks, analyses>>

-----------------------------------------------------------------------------
(* Candles *)

Others == Chain \ {analysis.venue}

\* get_confirmation_exchange: another exchange that lists the contract, if there is one.
Confirm ==
  /\ At("confirm")
  /\ \E v \in {0} \cup Others :
       /\ IF v = 0 THEN loaded' = loaded
          ELSE PriceIsCompatible(v) /\ loaded' \in Reached(v)
       /\ analysis' = [analysis EXCEPT !.pc = "candles", !.confirmation = v, !.asked = hour]
  /\ UNCHANGED <<hour, contracts, series, benchmarks, analyses>>

\* Bars up to the hour at which they were asked for are closed.  The answer of the
\* exchange may lack the newest; a bar that closed since would not be the last row.
ClosedBars ==
  IF hour > analysis.asked THEN {} ELSE {b \in (hour - CandleAge)..hour : b >= 0}

KnownSeries ==
  /\ At("candles") /\ series[analysis.venue] = analysis.asked
  /\ analysis' = [analysis EXCEPT !.pc = "look up", !.bar = analysis.asked]
  /\ UNCHANGED <<hour, contracts, loaded, series, benchmarks, analyses>>

LoadClosedSeries ==
  /\ At("candles") /\ series[analysis.venue] # analysis.asked
  /\ \E bar \in ClosedBars :
       /\ series' = IF bar >= analysis.asked THEN [series EXCEPT ![analysis.venue] = bar]
                    ELSE series
       /\ analysis' = [analysis EXCEPT !.pc = "look up", !.bar = bar]
  /\ UNCHANGED <<hour, contracts, loaded, benchmarks, analyses>>

-----------------------------------------------------------------------------
(* The benchmark: its cache is looked up when the context is asked for *)

Kept == benchmarks[analysis.venue]

IsKept == Kept # None /\ hour - Kept <= BenchmarkTtl

LookUpBenchmark ==
  /\ At("look up")
  /\ analysis' =
       [analysis EXCEPT !.pc = "context", !.context = hour,
                        !.benchmark = IF IsKept THEN Kept ELSE None, !.awaited = ~IsKept]
  /\ UNCHANGED <<hour, contracts, loaded, series, benchmarks, analyses>>

\* Whether complete or not, it is kept under the time at which it was asked for.
FetchBenchmark ==
  /\ analysis.awaited
  /\ analysis' = [analysis EXCEPT !.awaited = FALSE, !.benchmark = analysis.context]
  /\ benchmarks' = [benchmarks EXCEPT ![analysis.venue] = analysis.context]
  /\ UNCHANGED <<hour, contracts, loaded, series, analyses>>

\* The interface or the markets of the exchange are not there.
NoBenchmark ==
  /\ analysis.awaited
  /\ analysis' = [analysis EXCEPT !.awaited = FALSE]
  /\ UNCHANGED <<hour, contracts, loaded, series, benchmarks, analyses>>

\* The analysis of another candidate at this venue stores its own, that was asked for
\* now or earlier.
OthersBenchmark ==
  /\ analysis.pc \in {"look up", "context"}
  /\ \E since \in 0..hour : benchmarks' = [benchmarks EXCEPT ![analysis.venue] = since]
  /\ UNCHANGED <<hour, contracts, loaded, series, analysis, analyses>>

-----------------------------------------------------------------------------
(* Derivatives, side by side with the benchmark *)

\* The four answers of a provider that are complete, fresh, and of this market.
Answers == {"funding", "open interest", "taker", "top traders"}
Complete(parts) == parts = Answers

Candidates == [analysis EXCEPT !.pc = "coinglass", !.candidates = <<analysis.venue>>]

\* fetch_derivatives_context: of the selected venue, if that is binance.
AskSelected ==
  /\ At("context") /\ analysis.venue = Binance
  /\ \E parts \in SUBSET Answers :
       analysis' =
         IF Complete(parts) THEN [analysis EXCEPT !.pc = "gathered", !.derivatives = Binance]
         ELSE Candidates
  /\ UNCHANGED <<hour, contracts, loaded, series, benchmarks, analyses>>

\* Binance is not reached, or has no contract; no other exchange is supported.
WithoutBinance ==
  /\ At("context") /\ analysis.venue # Binance
  /\ loaded' \in Reached(Binance) \cup Unreached(Binance)
  /\ analysis' = Candidates
  /\ UNCHANGED <<hour, contracts, series, benchmarks, analyses>>

\* Mutant of IsComparable: any contract of the coin on binance will do.
IsListed == contracts[Binance] # "none"

IsComparable == PriceIsCompatible(Binance)

AskBinance ==
  /\ At("context") /\ analysis.venue # Binance
  /\ IsComparable
  /\ loaded' \in Reached(Binance)
  /\ \E parts \in SUBSET Answers :
       analysis' =
         IF Complete(parts) THEN [analysis EXCEPT !.pc = "gathered", !.derivatives = Binance]
         ELSE [Candidates EXCEPT !.candidates = <<Binance, analysis.venue>>]
  /\ UNCHANGED <<hour, contracts, series, benchmarks, analyses>>

\* fetch_packet of CoinGlass, for the first candidate that is left.
AskCoinGlass ==
  /\ At("coinglass") /\ analysis.candidates # <<>>
  /\ \E parts \in SUBSET Answers :
       analysis' =
         IF Complete(parts) /\ Head(analysis.candidates) \in CoinGlassVenues
         THEN [analysis EXCEPT !.pc = "gathered", !.derivatives = Head(analysis.candidates),
                               !.candidates = <<>>]
         ELSE [analysis EXCEPT !.candidates = Tail(@)]
  /\ UNCHANGED <<hour, contracts, loaded, series, benchmarks, analyses>>

NoDerivatives ==
  /\ At("coinglass") /\ analysis.candidates = <<>>
  /\ analysis' = [analysis EXCEPT !.pc = "gathered"]
  /\ UNCHANGED <<hour, contracts, loaded, series, benchmarks, analyses>>

\* All of it is at hand.
Gathered ==
  /\ At("gathered") /\ ~analysis.awaited
  /\ analysis' = [analysis EXCEPT !.pc = "done"]
  /\ UNCHANGED <<hour, contracts, loaded, series, benchmarks, analyses>>

-----------------------------------------------------------------------------
Tick ==
  /\ hour < MaxHour /\ ~At("rest")
  /\ hour' = hour + 1
  /\ UNCHANGED <<contracts, loaded, series, benchmarks, analysis, analyses>>

\* The task is cancelled and the gateway is closed.
Restart ==
  /\ analysis' = Rest
  /\ loaded' = [v \in Chain |-> FALSE]
  /\ series' = [v \in Chain |-> None]
  /\ benchmarks' = [v \in Chain |-> None]
  /\ UNCHANGED <<hour, contracts, analyses>>

Next ==
  \/ Begin \/ BeginWithoutLBank \/ Pass \/ Consider \/ GiveUpVenue
  \/ Preload \/ FetchBook \/ FetchTrades \/ Review \/ Validate
  \/ Confirm \/ KnownSeries \/ LoadClosedSeries
  \/ LookUpBenchmark \/ FetchBenchmark \/ NoBenchmark \/ OthersBenchmark
  \/ AskSelected \/ WithoutBinance \/ AskBinance \/ AskCoinGlass \/ NoDerivatives
  \/ Gathered \/ Tick \/ Restart

Spec == Init /\ [][Next]_vars

-----------------------------------------------------------------------------
(* Properties. *)

Sources == {analysis.venue, analysis.confirmation, analysis.derivatives} \ {0}

\* The evidence of a finished analysis belongs together, wherever its parts are from and
\* however long each took: all of it is of the contract of the reference price, never of
\* one of a thousand coins; a breakdown is confirmed by another exchange; the last order
\* book and trades were fresh at one moment; no bar that was open is among the candles,
\* and the newest is not too old; and the benchmark is of a moment near the derivatives'
\* (multi_exchange_validator.py:1175-1561 and 1862-2320, microstructure.py:140-279).
EvidenceBelongsTogether ==
  At("done") =>
    /\ \A v \in Sources : contracts[v] = analysis.reference
    /\ analysis.confirmation # analysis.venue
    /\ ~analysis.micro.short
    /\ analysis.accepted - analysis.micro.book <= BookTtl
    /\ analysis.accepted - analysis.micro.trades <= TradeTtl
    /\ analysis.bar \in (analysis.asked - CandleAge)..analysis.asked
    /\ analysis.benchmark # None =>
         analysis.benchmark \in (analysis.context - BenchmarkTtl)..analysis.context

=============================================================================
