----------------------------- MODULE LiveTrades -----------------------------
(***************************************************************************)
(* The per-signal outcome recorder of main.py: an evaluation that ends in  *)
(* ENTRY_READY opens a paper trade of its symbol, and every evaluation     *)
(* settles the open trades of all symbols by their live prices.            *)
(*                                                                         *)
(* The open trades are in memory, one per symbol, and a restart forgets    *)
(* them; the settled ones are rows of bt_v2_trades, inserted in one        *)
(* transaction before the trades are dropped from memory.  Opening and     *)
(* settling happen between two awaits of one event loop, so an evaluation  *)
(* is one step here.                                                       *)
(*                                                                         *)
(* Prices are small integers; the plan of a short entered at e has its     *)
(* stop at e + 1 and its targets at e - 1 and e - 2.                       *)
(***************************************************************************)
EXTENDS Integers, Sequences, FiniteSets, SequencesExt

CONSTANTS
  Symbols,
  Prices,      \* the prices of the instance; 0 stands for no live price
  Timeout,     \* _BACKTEST_TIMEOUT_SECONDS
  MaxClock,    \* bound: the clock
  MaxSignals,  \* bound: signals
  MaxOpened,   \* bound: trades opened
  MaxUpsets    \* bound: failed transactions and restarts

VARIABLES
  clock,
  price,     \* the live price of each symbol
  standing,  \* its decision, if that is ENTRY_READY: the signal and the plan's entry
  open,      \* _backtest_active_trades
  book,      \* the rows of bt_v2_trades
  tally      \* history: signals and trades so far, trades forgotten, upsets

tradeVars == <<clock, price, standing, open, book, tally>>

NotReady == [signal |-> 0, entry |-> 0]
NoTrade == [id |-> 0, signal |-> 0, entry |-> 0, at |-> 0]

Init ==
  /\ clock = 0
  /\ price \in [Symbols -> Prices]
  /\ standing = [s \in Symbols |-> NotReady]
  /\ open = [s \in Symbols |-> NoTrade]
  /\ book = <<>>
  /\ tally = [signals |-> 0, opened |-> 0, forgotten |-> 0, upsets |-> 0]

-----------------------------------------------------------------------------
(* An evaluation. *)

\* The decision of symbol s after an evaluation: not ready; a new signal, whose
\* plan enters at the current price; an update of the standing signal, which
\* plans anew; or the standing decision as it was persisted, plan included.
Decisions(s) ==
  {NotReady} \cup
  (IF price[s] = 0 THEN {}
   ELSE IF standing[s] = NotReady
   THEN {[signal |-> tally.signals + 1, entry |-> price[s]]}
   ELSE {standing[s], [standing[s] EXCEPT !.entry = price[s]]})

\* Mutant of Opened: a second trade replaces the open one.
OpenedAnyway(s, d) ==
  IF d.entry < 3 THEN open
  ELSE [open EXCEPT ![s] = [id |-> tally.opened + 1, signal |-> d.signal,
                            entry |-> d.entry, at |-> clock]]

\* _start_backtest_trade: one trade per symbol, of a plan whose prices are positive.
Opened(s, d) ==
  IF d.entry < 3 \/ open[s] # NoTrade THEN open
  ELSE [open EXCEPT ![s] = [id |-> tally.opened + 1, signal |-> d.signal,
                            entry |-> d.entry, at |-> clock]]

TimedOut(t) == clock - t.at > Timeout

\* What the price p says of trade t.  The stop is looked at first, and a symbol
\* without a price can only time out.
Outcome(t, p) ==
  CASE t = NoTrade -> "open"
    [] t # NoTrade /\ p > t.entry -> "loss_sl"
    [] t # NoTrade /\ p \in 1 .. t.entry - 2 -> "win_tp2"
    [] t # NoTrade /\ p = t.entry - 1 -> "win_tp1"
    [] t # NoTrade /\ p \in {0, t.entry} -> IF TimedOut(t) THEN "timeout" ELSE "open"

Settled(trades) == {s \in Symbols : Outcome(trades[s], price[s]) # "open"}

Row(trades, s) == [id |-> trades[s].id, signal |-> trades[s].signal,
                   outcome |-> Outcome(trades[s], price[s])]

\* _check_backtest_trades over all symbols: one transaction inserts the rows and
\* then the trades are dropped; when it fails all of them stay open.
Settle(trades, stored) ==
  IF stored
  THEN /\ open' = [s \in Symbols |-> IF s \in Settled(trades) THEN NoTrade ELSE trades[s]]
       /\ book' = book \o SetToSeq({Row(trades, s) : s \in Settled(trades)})
  ELSE open' = trades /\ UNCHANGED book

\* The part of evaluate_candidate that the recorder sees.
Evaluate(s, d, stored) ==
  LET trades == Opened(s, d) IN
  /\ d.signal <= MaxSignals
  /\ trades = open \/ tally.opened < MaxOpened
  /\ stored \/ (Settled(trades) # {} /\ tally.upsets < MaxUpsets)
  /\ standing' = [standing EXCEPT ![s] = d]
  /\ Settle(trades, stored)
  /\ tally' = [signals   |-> IF d.signal > tally.signals THEN d.signal ELSE tally.signals,
               opened    |-> IF trades = open THEN tally.opened ELSE tally.opened + 1,
               forgotten |-> tally.forgotten,
               upsets    |-> IF stored THEN tally.upsets ELSE tally.upsets + 1]
  /\ UNCHANGED <<clock, price>>

-----------------------------------------------------------------------------
(* The world. *)

Move(s, p) ==
  /\ price' = [price EXCEPT ![s] = p]
  /\ price' # price
  /\ UNCHANGED <<clock, standing, open, book, tally>>

Pass ==
  /\ clock < MaxClock
  /\ clock' = clock + 1
  /\ UNCHANGED <<price, standing, open, book, tally>>

\* A restart forgets the open trades; the decisions are in the ledger.
Restart ==
  /\ tally.upsets < MaxUpsets
  /\ open' = [s \in Symbols |-> NoTrade]
  /\ tally' = [signals   |-> tally.signals,
               opened    |-> tally.opened,
               forgotten |-> tally.forgotten + Cardinality({s \in Symbols : open[s] # NoTrade}),
               upsets    |-> tally.upsets + 1]
  /\ UNCHANGED <<clock, price, standing, book>>

Next ==
  \/ \E s \in Symbols, stored \in BOOLEAN :
       \E d \in Decisions(s) : Evaluate(s, d, stored)
  \/ \E s \in Symbols, p \in Prices : Move(s, p)
  \/ Pass \/ Restart

Spec == Init /\ [][Next]_tradeVars

-----------------------------------------------------------------------------
\* Every trade that was opened has a row, is still open, or was open when the
\* process ended: a transaction that fails loses none, and no trade replaces
\* another (main.py:1167 and the order of insert and pop at main.py:1304-1315).
OpenedIsAccounted ==
  tally.opened = Len(book) + Cardinality({s \in Symbols : open[s] # NoTrade})
                 + tally.forgotten
=============================================================================
