--------------------------- MODULE SignalSettlement ---------------------------
(***************************************************************************)
(* What is said of a short signal afterwards, from the candles of the venue *)
(* that it was measured on: the settlement worker (lbank_signal_outcome.py) *)
(* appends one outcome for good, the resolver of decision captures         *)
(* (main.py) tries again while the window has gaps, and historical research *)
(* (historical_backtest.py) reads a finished archive.                      *)
(*                                                                         *)
(* The model keeps, beside the candles, the order in which the trades after *)
(* the signal reached its levels, which no reader sees.                    *)
(***************************************************************************)
EXTENDS Integers, Sequences, FiniteSets

CONSTANTS
  Window,       \* candles of the observation window
  CloseDelay,   \* close_delay_seconds, in candles
  PublishLag    \* for how long after its end a candle may still change (external)

VARIABLES
  minute,    \* number of the candle that is forming; the signal is in candle 0
  candles,   \* high and low of each candle, as the bands they lie in
  signal,    \* when in candle 0: "none", "boundary", "within"
  reached,   \* levels in the order of their first trade after the signal
  says       \* [reader, outcome] of the reader that went first

vars == <<minute, candles, signal, reached, says>>

\* Bands of the price: at target 2, at target 1, between, at the stop.
Bands == 1..4
Untraded == [low |-> 5, high |-> 0]
Traded(c) == c # Untraded
HitTp2(c)  == c.low = 1
HitTp1(c)  == c.low <= 2
HitStop(c) == c.high = 4

Minutes == 0..Window
Unsaid == [reader |-> "none", outcome |-> "none"]

Init ==
  /\ minute = 0 /\ candles = [m \in Minutes |-> Untraded]
  /\ signal = "none" /\ reached = <<>> /\ says = Unsaid

-----------------------------------------------------------------------------
(* The market *)

\* observation_started_at: the first whole candle after the signal.
StartMinute == IF signal = "boundary" THEN 0 ELSE 1
Path == StartMinute .. StartMinute + Window - 1
Expected == 0 .. StartMinute + Window - 1

Reached(level) == \E i \in DOMAIN reached : reached[i] = level
Arrive(level, p, seen) ==
  LET at == CASE level = "tp1" -> p <= 2 [] level = "tp2" -> p = 1 [] level = "stop" -> p = 4
  IN IF at /\ ~Reached(level) THEN Append(seen, level) ELSE seen

Trade(p) ==
  /\ minute \in Minutes
  /\ candles' = [candles EXCEPT ![minute] =
       [low |-> IF p < @.low THEN p ELSE @.low, high |-> IF p > @.high THEN p ELSE @.high]]
  /\ reached' = IF signal # "none" /\ minute \in Expected
                THEN Arrive("stop", p, Arrive("tp2", p, Arrive("tp1", p, reached)))
                ELSE reached
  /\ UNCHANGED <<minute, signal, says>>

\* A signal has its price between the levels.
Trigger ==
  /\ signal = "none" /\ minute = 0
  /\ Traded(candles[0]) => candles[0].low <= 3 /\ candles[0].high >= 3
  /\ signal' \in (IF Traded(candles[0]) THEN {"within"} ELSE {"boundary"})
  /\ UNCHANGED <<minute, candles, reached, says>>

NextMinute ==
  /\ signal # "none" /\ minute <= Window + CloseDelay /\ says = Unsaid
  /\ minute' = minute + 1
  /\ UNCHANGED <<candles, signal, reached, says>>

-----------------------------------------------------------------------------
(* What a venue delivers (external), through _fetch_signal_outcome_candles: *)
(* candles with trades, with gaps or cut short by a request that failed, and *)
(* of a young candle what has been published.                              *)

Published(m) ==
  IF minute > m + PublishLag THEN {candles[m]}
  ELSE {c \in [low : Bands, high : Bands] :
          c.low <= c.high /\ c.low >= candles[m].low /\ c.high <= candles[m].high}

Delivered ==
  LET there == {m \in Expected : m <= minute /\ Traded(candles[m])}
  IN UNION {{rows \in [ms -> [low : Bands, high : Bands]] :
               \A m \in ms : rows[m] \in Published(m)} :
            ms \in {there, there \ {0}, there \cap {0}}}

-----------------------------------------------------------------------------
(* LBankSignalOutcomeEvaluator.evaluate *)

\* A level in the candle that is partly older than the signal.
TriggerCandleDecides(rows) == StartMinute = 1 /\ (HitStop(rows[0]) \/ HitTp1(rows[0]))

\* The first candle that ends the observation.
Decisive(rows) == {m \in Path : HitStop(rows[m]) \/ HitTp2(rows[m])}
Tp1Before(rows, m) == \E k \in Path : k < m /\ HitTp1(rows[k])

Verdict(rows, m) ==
  IF HitStop(rows[m]) /\ HitTp1(rows[m]) THEN "AMBIGUOUS_INTRACANDLE_PATH"
  ELSE IF HitStop(rows[m]) THEN (IF Tp1Before(rows, m) THEN "TP1_THEN_STOP" ELSE "STOP_FIRST")
  ELSE IF Tp1Before(rows, m) THEN "TP2_AFTER_TP1" ELSE "TP2_FIRST"

Evaluate(rows) ==
  IF ~ Expected \subseteq DOMAIN rows THEN "DATA_INCOMPLETE"
  ELSE IF TriggerCandleDecides(rows) THEN "UNRESOLVABLE_TRIGGER_MINUTE"
  ELSE IF Decisive(rows) # {}
       THEN Verdict(rows, CHOOSE m \in Decisive(rows) : \A k \in Decisive(rows) : m <= k)
  ELSE IF \E m \in Path : HitTp1(rows[m]) THEN "TP1_ONLY_24H"
  ELSE "NO_LEVEL_HIT_24H"

-----------------------------------------------------------------------------
(* The readers *)

\* Mutant of Mature: a signal is mature when its window is over.
MatureAtOnce == minute >= Window

\* settle_once: "now - horizon - 60 - close_delay"
Mature == minute >= Window + 1 + CloseDelay

Says(reader, outcome) == says' = [reader |-> reader, outcome |-> outcome]

\* A signal whose levels or whose source were not recorded is settled as that;
\* one without any candle stays pending.
Settle ==
  /\ signal # "none" /\ says = Unsaid /\ Mature
  /\ \/ \E rows \in Delivered :
          IF DOMAIN rows = {} THEN UNCHANGED says ELSE Says("settlement", Evaluate(rows))
     \/ \E reason \in {"UNRESOLVABLE_SIGNAL_LEVELS", "UNRESOLVABLE_SIGNAL_SOURCE"} :
          Says("settlement", reason)
  /\ UNCHANGED <<minute, candles, signal, reached>>

\* EntryOutcomeResolutionWorker counts from the decision itself.
MatureCapture == minute >= Window + CloseDelay

Classification(status) ==
  CASE status = "STOP_FIRST" -> "STOP"
    [] status = "NO_LEVEL_HIT_24H" -> "TIMEOUT"
    [] status \in {"TP1_ONLY_24H", "TP1_THEN_STOP"} -> "WIN"
    [] status \in {"TP2_FIRST", "TP2_AFTER_TP1"} -> "WIN_TP2"
    [] OTHER -> "UNAVAILABLE"

\* _resolve_entry_outcome: an incomplete window is left for later.  The result
\* in R of a win depends on the target.
Resolve ==
  /\ signal # "none" /\ says = Unsaid /\ MatureCapture
  /\ \E rows \in Delivered :
       IF DOMAIN rows = {} \/ Evaluate(rows) = "DATA_INCOMPLETE" THEN UNCHANGED says
       ELSE Says("capture", Classification(Evaluate(rows)))
  /\ UNCHANGED <<minute, candles, signal, reached>>

\* outcome_details: entry at the open, a candle with both is a loss.
OutcomeDetails(m) == IF HitStop(candles[m]) THEN "LOSS" ELSE "WIN"

\* The archive is read long after, and only without gaps (_valid_candles).
Research ==
  /\ signal = "boundary" /\ says = Unsaid /\ minute > Window + PublishLag
  /\ \A m \in Path : Traded(candles[m])
  /\ LET met == {m \in Path : HitStop(candles[m]) \/ HitTp1(candles[m])}
     IN Says("research",
             IF met = {} THEN "TIMEOUT"
             ELSE OutcomeDetails(CHOOSE m \in met : \A k \in met : m <= k))
  /\ UNCHANGED <<minute, candles, signal, reached>>

\* append_outcome and resolve_outcome_capture refuse a second outcome.
SayAgain == says # Unsaid /\ UNCHANGED vars

Next ==
  \/ (\E p \in Bands : Trade(p)) \/ Trigger \/ NextMinute
  \/ Settle \/ Resolve \/ Research \/ SayAgain

Spec == Init /\ [][Next]_vars

-----------------------------------------------------------------------------
(* Properties *)

First(level) == reached # <<>> /\ reached[1] = level
Before(a, b) ==
  \E i \in DOMAIN reached :
    reached[i] = a /\ \A j \in DOMAIN reached : reached[j] = b => i < j

\* What a final outcome claims of the trades after the signal; the outcomes that
\* are not listed claim nothing.
Claim(o) ==
  CASE o = "STOP_FIRST" \/ o = "STOP" -> First("stop")
    [] o = "TP1_THEN_STOP" -> Before("tp1", "stop") /\ Reached("stop") /\ ~Before("tp2", "stop")
    [] o \in {"TP2_FIRST", "TP2_AFTER_TP1", "WIN_TP2"} -> Before("tp2", "stop")
    [] o = "TP1_ONLY_24H" -> reached = <<"tp1">>
    [] o = "WIN" -> Before("tp1", "stop")
    [] o \in {"NO_LEVEL_HIT_24H", "TIMEOUT"} -> reached = <<>>
    [] o = "LOSS" -> Reached("stop")
    [] OTHER -> TRUE

\* Whatever candles the venue delivers and whenever they are read, what is said for
\* good agrees with the trades: the outcome of a signal (settle_once, evaluate),
\* what a capture is resolved as (_decision_outcome_classification), and the
\* research, which never counts a trade as won whose stop was met first
\* (outcome_details).
OutcomeIsTrue == Claim(says.outcome)

=============================================================================
