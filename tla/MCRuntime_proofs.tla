---------------------------- MODULE MCRuntime_proofs ----------------------------
(***************************************************************************)
(* The in-memory components of the runtime, for any value of the           *)
(* constants.  Each section proves an inductive invariant of one component *)
(* from the component's own Init and Next; the last one carries the        *)
(* properties over to the specification that the run checks.               *)
(***************************************************************************)
EXTENDS MCRuntime, Sequences, FiniteSetTheorems, SequenceTheorems,
        WellFoundedInduction, TLAPS

(***************************************************************************)
(* The shared evidence of a venue (SharedEvidence).  A generation is       *)
(* started where none is open: the checks see to that, the retirement that *)
(* ends closes it, and while the markets are handed over ("sharing"), the  *)
(* only await between a close and a start, nobody else opens one.          *)
(***************************************************************************)

EvidenceInv ==
  /\ unclosed = 0
  /\ pool = [open |-> pool.open, members |-> pool.members,
             running |-> pool.running, young |-> pool.young]
  /\ rec = "sharing" => ~pool.open

\* A pool whose generation has aged.
LEMMA AgedPool ==
  ASSUME NEW p, NEW u, p = [open |-> p.open, members |-> p.members,
                            running |-> p.running, young |-> p.young]
  PROVE  [p EXCEPT !.young = u] = [open |-> p.open, members |-> p.members,
                                   running |-> p.running, young |-> u]
  OBVIOUS

\* A start from a pool that is not open leaves no transport unclosed and does not
\* wait for the markets.
LEMMA StartKeeps ==
  ASSUME unclosed = 0, NEW before, ~before.open,
         before = [open |-> before.open, members |-> before.members,
                   running |-> before.running, young |-> before.young],
         Evidence!Start(before)
  PROVE  EvidenceInv'
<1>1. CASE demand.wanted = {} \/ unsupported
  BY <1>1, SMT DEF EvidenceInv, Evidence!Start
<1>2. CASE demand.wanted # {} /\ ~unsupported /\ ~capable
  BY <1>2, SMT DEF EvidenceInv, Evidence!Start
<1>3. CASE demand.wanted # {} /\ ~unsupported /\ capable
  <2>1. Evidence!Started(demand.wanted, before) /\ rec' = "top"
    BY <1>3, SMT DEF Evidence!Start
  <2> QED BY <2>1, SMT DEF EvidenceInv, Evidence!Started
<1> QED BY <1>1, <1>2, <1>3

LEMMA EvidenceInitially == Evidence!Init => EvidenceInv
  BY SMT DEF Evidence!Init, Evidence!Closed, EvidenceInv

LEMMA EvidenceStep == EvidenceInv /\ [Evidence!Next]_(Evidence!vars) => EvidenceInv'
<1> SUFFICES ASSUME EvidenceInv, [Evidence!Next]_(Evidence!vars) PROVE EvidenceInv'
  OBVIOUS
<1>1. ASSUME NEW s \in Symbols, NEW m \in Evidence!Mode, Evidence!Sync(s, m)
      PROVE  EvidenceInv'
  <2>1. rec' \in {rec, "top"} /\ pool' = pool /\ unclosed' = unclosed
    BY <1>1, SMT DEF Evidence!Sync, Evidence!Scheduled, Evidence!poolVars
  <2> QED BY <2>1 DEF EvidenceInv
<1>2. CASE Evidence!Look \/ Evidence!Reconsider \/ Evidence!FallBack \/ Evidence!NotRetired
  <2>1. rec' # "sharing" /\ pool' = pool /\ unclosed' = unclosed
    BY <1>2 DEF Evidence!Look, Evidence!Reconsider, Evidence!FallBack,
                Evidence!NotRetired, Evidence!poolVars
  <2> QED BY <2>1 DEF EvidenceInv
<1>3. CASE Evidence!Age
  <2>1. /\ rec' = rec /\ unclosed' = unclosed
        /\ pool' = [open |-> pool.open, members |-> pool.members,
                    running |-> pool.running, young |-> FALSE]
    <3>1. [pool EXCEPT !.young = FALSE] =
            [open |-> pool.open, members |-> pool.members,
             running |-> pool.running, young |-> FALSE]
      BY AgedPool DEF EvidenceInv
    <3> QED BY <1>3, <3>1 DEF Evidence!Age
  <2>2. /\ pool'.open = pool.open
        /\ pool' = [open |-> pool'.open, members |-> pool'.members,
                    running |-> pool'.running, young |-> pool'.young]
    BY <2>1
  <2> QED BY <2>1, <2>2 DEF EvidenceInv
<1>4. CASE Evidence!Check
  <2>1. CASE Evidence!Current \/ (demand.wanted = {} /\ ~pool.open)
    BY <1>4, <2>1 DEF EvidenceInv, Evidence!Check, Evidence!poolVars
  <2>2. CASE ~(Evidence!Current \/ (demand.wanted = {} /\ ~pool.open)) /\ pool.open
    <3>1. /\ rec' = "retiring" /\ unclosed' = unclosed
          /\ pool' = [open |-> pool.open, members |-> pool.members,
                      running |-> FALSE, young |-> pool.young]
      BY <1>4, <2>2, SMT DEF EvidenceInv, Evidence!Check
    <3> QED BY <3>1, SMT DEF EvidenceInv
  <2>3. CASE ~(Evidence!Current \/ (demand.wanted = {} /\ ~pool.open)) /\ ~pool.open
    <3>1. Evidence!Start(pool)
      BY <1>4, <2>3 DEF Evidence!Check
    <3> QED BY <2>3, <3>1, StartKeeps, SMT DEF EvidenceInv
  <2> QED BY <2>1, <2>2, <2>3
<1>5. CASE Evidence!Retired
  <2>1. CASE Evidence!Start(Evidence!Closed)
    BY <2>1, StartKeeps DEF EvidenceInv, Evidence!Closed
  <2>2. CASE ~Evidence!Start(Evidence!Closed)
    BY <1>5, <2>2 DEF EvidenceInv, Evidence!Retired, Evidence!Closed
  <2> QED BY <2>1, <2>2
<1>6. CASE Evidence!Activate
  BY <1>6, SMT DEF EvidenceInv, Evidence!Activate, Evidence!Started
<1>7. CASE UNCHANGED Evidence!vars
  BY <1>7 DEF EvidenceInv, Evidence!vars, Evidence!poolVars
<1> QED BY <1>1, <1>2, <1>3, <1>4, <1>5, <1>6, <1>7 DEF Evidence!Next, Evidence!Reconcile

-----------------------------------------------------------------------------
(***************************************************************************)
(* The liquidation streams (LiquidationStreams).  OwnedOnceAndClosed is    *)
(* inductive beside the types: a stream that owns an exchange is watching, *)
(* so a cancelled task finds its exchange gone or its successor's; and one *)
(* that opens finds no close going on.                                     *)
(***************************************************************************)

StreamsTypeOK ==
  /\ shared \in BOOLEAN
  /\ task \in [Symbols -> {"none", "waiting", "watching"}]
  /\ closing \in [Symbols -> Nat]
  /\ owned \subseteq Symbols /\ cancelled \subseteq Symbols

StreamsInv == StreamsTypeOK /\ Streams!OwnedOnceAndClosed

\* The stream that a symbol uses is one of the venue's.
LEMMA StreamExists == ASSUME NEW s \in Symbols PROVE Streams!Stream(s) \in Symbols
  BY DEF Streams!Stream

\* To retire an exchange keeps the invariant if the stream's task has gone: the close
\* takes the place of the exchange, and no close went on beside it, so none is
\* dropped (_schedule_liquidation_exchange_retire).
LEMMA RetireKeeps ==
  ASSUME StreamsInv, NEW st \in Symbols, Streams!Retire(st),
         task' \in [Symbols -> {"none", "waiting", "watching"}],
         task'[st] = "none",
         \A t \in Symbols \ {st} : task'[t] = task[t],
         shared' = shared, cancelled' \subseteq Symbols
  PROVE  StreamsInv'
<1>1. st \in owned => closing[st] = 0
  BY SMT DEF StreamsInv, StreamsTypeOK, Streams!OwnedOnceAndClosed
<1>2. dropped' = FALSE /\ dropped = FALSE
  BY <1>1, SMT DEF StreamsInv, Streams!OwnedOnceAndClosed, Streams!Retire
<1>3. closing' = IF st \in owned THEN [closing EXCEPT ![st] = 1] ELSE closing
  BY <1>1, SMT DEF StreamsInv, StreamsTypeOK, Streams!Retire
<1>4. owned' = owned \ {st}
  BY DEF Streams!Retire
<1>5. StreamsTypeOK'
  BY <1>3, <1>4, SMT DEF StreamsInv, StreamsTypeOK
<1>6. ASSUME NEW t \in Symbols
      PROVE /\ closing'[t] + (IF t \in owned' THEN 1 ELSE 0) <= 1
            /\ (t \in owned') = (task'[t] = "watching")
  <2>1. CASE t = st
    BY <1>1, <1>3, <1>4, <2>1, SMT DEF StreamsInv, StreamsTypeOK, Streams!OwnedOnceAndClosed
  <2>2. CASE t # st
    BY <1>3, <1>4, <2>2, SMT DEF StreamsInv, StreamsTypeOK, Streams!OwnedOnceAndClosed
  <2> QED BY <2>1, <2>2
<1> QED BY <1>2, <1>5, <1>6 DEF StreamsInv, Streams!OwnedOnceAndClosed

LEMMA StreamsInitially == Streams!Init => StreamsInv
  BY SMT DEF Streams!Init, StreamsInv, StreamsTypeOK, Streams!OwnedOnceAndClosed

LEMMA StreamsStep == StreamsInv /\ [Streams!Next]_(Streams!vars) => StreamsInv'
<1> SUFFICES ASSUME StreamsInv, [Streams!Next]_(Streams!vars) PROVE StreamsInv'
  OBVIOUS
<1>1. ASSUME NEW s \in Symbols, Streams!Subscribe(s) PROVE StreamsInv'
  <2>1. Streams!Stream(s) \in Symbols
    BY StreamExists
  <2>2. \A t \in Symbols : (task'[t] = "watching") = (task[t] = "watching")
    BY <1>1, <2>1, SMT DEF StreamsInv, StreamsTypeOK, Streams!Subscribe
  <2>3. StreamsTypeOK'
    BY <1>1, <2>1, SMT DEF StreamsInv, StreamsTypeOK, Streams!Subscribe, Streams!exchangeVars
  <2> QED BY <1>1, <2>2, <2>3, SMT DEF StreamsInv, Streams!OwnedOnceAndClosed, Streams!Subscribe, Streams!exchangeVars
<1>2. ASSUME NEW s \in Symbols, Streams!Unsubscribe(s) PROVE StreamsInv'
  <2>1. Streams!Stream(s) \in Symbols
    BY StreamExists
  <2>2. CASE UNCHANGED <<Streams!taskVars, Streams!exchangeVars>>
    BY <1>2, <2>2, SMT DEF StreamsInv, StreamsTypeOK, Streams!OwnedOnceAndClosed, Streams!Unsubscribe, Streams!taskVars, Streams!exchangeVars
  <2>3. CASE Streams!Cancel(Streams!Stream(s)) /\ Streams!Retire(Streams!Stream(s))
    <3>1. /\ task' \in [Symbols -> {"none", "waiting", "watching"}]
          /\ task'[Streams!Stream(s)] = "none"
          /\ \A t \in Symbols \ {Streams!Stream(s)} : task'[t] = task[t]
      BY <2>1, <2>3, SMT DEF StreamsInv, StreamsTypeOK, Streams!Cancel
    <3>2. cancelled' \subseteq Symbols /\ shared' = shared
      BY <1>2, <2>1, <2>3, SMT DEF StreamsInv, StreamsTypeOK, Streams!Cancel, Streams!Unsubscribe
    <3> QED BY <2>1, <2>3, <3>1, <3>2, RetireKeeps
  <2> QED BY <1>2, <2>2, <2>3 DEF Streams!Unsubscribe
<1>3. ASSUME NEW s \in Symbols, Streams!Open(s) PROVE StreamsInv'
  BY <1>3, SMT DEF StreamsInv, StreamsTypeOK, Streams!OwnedOnceAndClosed, Streams!Open, Streams!MayOpen
<1>4. ASSUME NEW s \in Symbols, Streams!FindUnsupported(s) PROVE StreamsInv'
  BY <1>4, SMT DEF StreamsInv, StreamsTypeOK, Streams!OwnedOnceAndClosed, Streams!FindUnsupported, Streams!MayOpen
<1>5. ASSUME NEW s \in Symbols, Streams!Finally(s) PROVE StreamsInv'
  <2>1. CASE task[s] = "none"
    BY <1>5, <2>1, RetireKeeps, SMT DEF StreamsInv, StreamsTypeOK, Streams!Finally
  <2>2. CASE task[s] # "none"
    BY <1>5, <2>2, SMT DEF StreamsInv, StreamsTypeOK, Streams!OwnedOnceAndClosed, Streams!Finally, Streams!exchangeVars
  <2> QED BY <2>1, <2>2
<1>6. ASSUME NEW s \in Symbols, Streams!CloseEnds(s) PROVE StreamsInv'
  BY <1>6, SMT DEF StreamsInv, StreamsTypeOK, Streams!OwnedOnceAndClosed, Streams!CloseEnds, Streams!taskVars
<1>7. ASSUME Streams!Refresh PROVE StreamsInv'
  BY <1>7, SMT DEF StreamsInv, StreamsTypeOK, Streams!OwnedOnceAndClosed, Streams!Refresh, Streams!taskVars, Streams!exchangeVars
<1>8. CASE UNCHANGED Streams!vars
  BY <1>8, SMT DEF StreamsInv, StreamsTypeOK, Streams!OwnedOnceAndClosed, Streams!vars, Streams!taskVars, Streams!exchangeVars
<1> QED BY <1>1, <1>2, <1>3, <1>4, <1>5, <1>6, <1>7, <1>8 DEF Streams!Next

-----------------------------------------------------------------------------
(***************************************************************************)
(* The direct streams (DirectStreams).  A stream takes the lock only after *)
(* the retirement of its symbol is over, and only the end of a stream      *)
(* starts a retirement: so none is under way from the lock on.             *)
(***************************************************************************)

DirectTypeOK ==
  /\ stream \in [Symbols -> {"none", "waiting", "locking", "watching", "pausing"}]
  /\ retiring \in [Symbols -> {"none", "settling", "unwatching"}]
  /\ evidence \in [Symbols -> {"none", "fresh", "stale"}]

LockedAfterRetirement == \A s \in Symbols : stream[s] = "locking" => retiring[s] = "none"

DirectInv == DirectTypeOK /\ LockedAfterRetirement /\ Direct!SuccessorIsSpared

LEMMA DirectInitially == Direct!Init => DirectInv
  BY DEF Direct!Init, DirectInv, DirectTypeOK, LockedAfterRetirement,
         Direct!SuccessorIsSpared, Direct!Reading

LEMMA DirectStep == DirectInv /\ [Direct!Next]_(Direct!directVars) => DirectInv'
<1> SUFFICES ASSUME DirectInv, [Direct!Next]_(Direct!directVars) PROVE DirectInv'
  OBVIOUS
<1> USE DEF DirectInv, DirectTypeOK, LockedAfterRetirement, Direct!SuccessorIsSpared,
            Direct!Reading
<1>1. ASSUME NEW s \in Symbols, Direct!Subscribe(s) PROVE DirectInv'
  BY <1>1, SMT DEF Direct!Subscribe
<1>2. ASSUME NEW s \in Symbols, Direct!Unsubscribe(s) PROVE DirectInv'
  BY <1>2, SMT DEF Direct!Unsubscribe
<1>3. ASSUME NEW s \in Symbols, Direct!AwaitRetirement(s) PROVE DirectInv'
  BY <1>3, SMT DEF Direct!AwaitRetirement, Direct!Settled
<1>4. ASSUME NEW s \in Symbols, Direct!GetExchange(s) PROVE DirectInv'
  BY <1>4, SMT DEF Direct!GetExchange
<1>5. ASSUME NEW s \in Symbols, Direct!Deliver(s) PROVE DirectInv'
  BY <1>5, SMT DEF Direct!Deliver
<1>6. ASSUME NEW s \in Symbols, Direct!Fail(s) \/ Direct!Resume(s) PROVE DirectInv'
  BY <1>6, SMT DEF Direct!Fail, Direct!Resume
<1>7. ASSUME NEW s \in Symbols, Direct!Expire(s) PROVE DirectInv'
  BY <1>7, SMT DEF Direct!Expire
<1>8. ASSUME NEW s \in Symbols, Direct!BeginUnwatch(s) PROVE DirectInv'
  BY <1>8, SMT DEF Direct!BeginUnwatch
<1>9. ASSUME NEW s \in Symbols, Direct!Unwatched(s) PROVE DirectInv'
  <2>1. ~Direct!Reading(s) /\ watched \ {s} \subseteq watched'
    BY <1>9 DEF Direct!Unwatched
  <2>2. /\ retiring' = [retiring EXCEPT ![s] = "none"]
        /\ UNCHANGED <<stream, evidence>>
    BY <1>9 DEF Direct!Unwatched
  <2> QED BY <2>1, <2>2, SMT
<1>10. CASE Direct!Prune
  BY <1>10, SMT DEF Direct!Prune
<1>11. CASE UNCHANGED Direct!directVars
  BY <1>11 DEF Direct!directVars
<1> QED BY <1>1, <1>2, <1>3, <1>4, <1>5, <1>6, <1>7, <1>8, <1>9, <1>10, <1>11
        DEF Direct!Next

-----------------------------------------------------------------------------
(***************************************************************************)
(* The operator's settings (RuntimeSettings).  SettingsInForce is about    *)
(* the newest evaluation.  What makes it hold is that what is left of the   *)
(* row, the cache and the newest accepted change never part (InStep),      *)
(* although fields of the row may be lost and any read or write may fail,  *)
(* and that the history names the origin of every accepted value           *)
(* (HasOrigin), also of those that an incomplete change took over from a   *)
(* reading that mixed the row with defaults.                               *)
(***************************************************************************)

Values == {1, 2, 3, "on", "off"}
Change == UNION {[ks -> Values] : ks \in SUBSET Settings!Knobs}

\* The changes of knob k that a history h holds; the newest of them.
At(h, k) == {i \in DOMAIN h : k \in DOMAIN h[i]}
HasNewest(h, k) == At(h, k) # {} => \E i \in At(h, k) : \A j \in At(h, k) : j <= i
RecordedIn(h, k) ==
  IF At(h, k) = {} THEN Settings!Shipped[k]
  ELSE h[CHOOSE i \in At(h, k) : \A j \in At(h, k) : j <= i][k]

\* What a reading may be: the defaults after a failure, or else field by field the
\* accepted value, or the default where the row has lost the field by now.
Sound(c) ==
  /\ c = [settings |-> c.settings, failed |-> c.failed, age |-> c.age]
  /\ \/ c.failed /\ c.settings = Settings!Shipped
     \/ \A k \in Settings!Knobs :
          \/ c.settings[k] = accepted[k]
          \/ k \in Settings!Missing /\ c.settings[k] = Settings!Shipped[k]

InStep ==
  /\ \A k \in DOMAIN saved : saved[k] = accepted[k]
  /\ Settings!Coherent(accepted)
  /\ cache # Settings!Uncached => Sound(cache)

HasOrigin ==
  /\ history \in Seq(Change)
  /\ \A k \in Settings!Knobs :
       HasNewest(history, k) /\ accepted[k] \in {RecordedIn(history, k), Settings!Shipped[k]}

Decided ==
  \/ decision.failed /\ decision.used = Settings!Shipped
  \/ \A k \in Settings!Knobs :
       \/ decision.used[k] = decision.stood[k]
       \/ k \in decision.missing /\ decision.used[k] = Settings!Shipped[k]

SettingsInv == InStep /\ HasOrigin /\ Decided

-----------------------------------------------------------------------------
(* Settings and readings. *)

LEMMA ShippedCoherent == Settings!Coherent(Settings!Shipped)
BY DEF Settings!Shipped, Settings!Coherent, Settings!Knobs

\* A reading without a failure that has the accepted value of every field, or the
\* default of one the row has lost, is sound; so are the defaults after a failure.
LEMMA ReadFromIsSound ==
  ASSUME NEW s,
         \A k \in Settings!Knobs :
           s[k] = accepted[k] \/ (k \in Settings!Missing /\ s[k] = Settings!Shipped[k])
  PROVE  Sound(Settings!ReadFrom(s, FALSE)) /\ Sound(Settings!ReadFrom(Settings!Shipped, TRUE))
BY DEF Sound, Settings!ReadFrom

\* Whatever current answers with is sound.
LEMMA ReadingsAreSound ==
  ASSUME InStep, NEW c \in Settings!Readings
  PROVE  Sound(c)
<1>1. CASE cache # Settings!Uncached
  BY <1>1 DEF InStep, Settings!Readings
<1>2. CASE cache = Settings!Uncached
  <2> DEFINE s == [k \in Settings!Knobs |->
                     IF k \in Settings!Missing THEN Settings!Shipped[k] ELSE saved[k]]
  <2>1. c \in {Settings!ReadFrom(s, FALSE), Settings!ReadFrom(Settings!Shipped, TRUE)}
    BY <1>2 DEF Settings!Readings, Settings!Read
  <2>2. ASSUME NEW k \in Settings!Knobs
        PROVE  s[k] = accepted[k] \/ (k \in Settings!Missing /\ s[k] = Settings!Shipped[k])
    BY DEF InStep, Settings!Missing
  <2> HIDE DEF s
  <2> QED BY <2>1, <2>2, ReadFromIsSound
<1> QED BY <1>1, <1>2

\* A cache that was filled from a sound reading keeps step while nothing is accepted
\* and the row only loses fields.
LEMMA KeepsStep ==
  ASSUME InStep, accepted' = accepted,
         \A k \in DOMAIN saved' : k \in DOMAIN saved /\ saved'[k] = saved[k],
         cache' # Settings!Uncached => Sound(cache')
  PROVE  InStep'
<1>1. Settings!Missing \subseteq Settings!Missing'
  BY DEF Settings!Missing
<1>2. cache' # Settings!Uncached => Sound(cache)'
  BY <1>1 DEF Sound
<1> QED BY <1>2 DEF InStep, Settings!Uncached, Settings!NoFields, Settings!Coherent

-----------------------------------------------------------------------------
(* The history. *)

\* A change appended to the history is the newest of its knobs, and of no other.
LEMMA AppendRecords ==
  ASSUME NEW h \in Seq(Change), NEW x \in Change, NEW k \in Settings!Knobs, HasNewest(h, k)
  PROVE  /\ HasNewest(Append(h, x), k)
         /\ RecordedIn(Append(h, x), k) =
              IF k \in DOMAIN x THEN x[k] ELSE RecordedIn(h, k)
<1> DEFINE g == Append(h, x)
           n == Len(h) + 1
<1>1. /\ DOMAIN h = 1 .. Len(h) /\ Len(h) \in Nat
      /\ DOMAIN g = 1 .. n /\ g[n] = x /\ \A i \in 1 .. Len(h) : g[i] = h[i]
  OBVIOUS
<1> HIDE DEF g
<1>2. CASE k \in DOMAIN x
  <2>1. n \in At(g, k) /\ \A j \in At(g, k) : j <= n
    BY <1>1, <1>2 DEF At
  <2>2. (CHOOSE i \in At(g, k) : \A j \in At(g, k) : j <= i) = n
    <3>1. \A i \in At(g, k) : (\A j \in At(g, k) : j <= i) => i = n
      BY <1>1, <2>1 DEF At
    <3> QED BY <2>1, <3>1
  <2> QED BY <1>1, <1>2, <2>1, <2>2 DEF HasNewest, RecordedIn, g
<1>3. CASE k \notin DOMAIN x
  <2>1. At(g, k) = At(h, k)
    BY <1>1, <1>3 DEF At
  <2>2. CASE At(h, k) = {}
    BY <1>3, <2>1, <2>2 DEF HasNewest, RecordedIn, g
  <2>3. CASE At(h, k) # {}
    <3> DEFINE c == CHOOSE i \in At(h, k) : \A j \in At(h, k) : j <= i
    <3>1. c \in At(h, k)
      BY <2>3 DEF HasNewest
    <3>2. g[c] = h[c]
      BY <1>1, <3>1 DEF At
    <3> QED BY <1>3, <2>1, <2>3, <3>2 DEF HasNewest, RecordedIn, g
  <2> QED BY <2>2, <2>3
<1> QED BY <1>2, <1>3

-----------------------------------------------------------------------------
(* Changes. *)

\* The changes that WriteSettings and ResetSettings ask for.
Asked(wish) ==
  /\ DOMAIN wish \subseteq Settings!Knobs
  /\ \A k \in DOMAIN wish : wish[k] \in Values

\* What a coherent change of a sound reading writes has an origin for every knob.
LEMMA WriteKeepsOrigins ==
  ASSUME SettingsInv, NEW c, Sound(c), NEW wish, Asked(wish), Settings!Write(c.settings, wish)
  PROVE  HasOrigin'
<1> DEFINE new == Settings!Merged(c.settings, wish)
           ks == Settings!Changed(c.settings, wish)
           x == [k \in ks |-> wish[k]]
<1>1. accepted' = new /\ history' = Append(history, x)
  BY DEF Settings!Write
<1>2. x \in Change /\ DOMAIN x = ks
  <2>1. ks \in SUBSET Settings!Knobs /\ \A k \in ks : wish[k] \in Values
    BY DEF Settings!Changed, Asked
  <2> HIDE DEF ks
  <2>2. x \in [ks -> Values]
    BY <2>1
  <2> QED BY <2>1, <2>2 DEF Change
<1>3. history' \in Seq(Change)
  BY <1>1, <1>2 DEF SettingsInv, HasOrigin
<1>4. ASSUME NEW k \in Settings!Knobs
      PROVE  /\ HasNewest(history', k)
             /\ accepted'[k] \in {RecordedIn(history', k), Settings!Shipped[k]}
  <2>1. /\ HasNewest(history', k)
        /\ RecordedIn(history', k) = IF k \in ks THEN x[k] ELSE RecordedIn(history, k)
    BY <1>1, <1>2, AppendRecords DEF SettingsInv, HasOrigin
  <2>2. c.settings[k] \in {RecordedIn(history, k), Settings!Shipped[k]}
    BY DEF Sound, SettingsInv, HasOrigin
  <2>3. new[k] = IF k \in DOMAIN wish THEN wish[k] ELSE c.settings[k]
    BY DEF Settings!Merged
  <2>4. CASE k \in ks
    BY <1>1, <2>1, <2>3, <2>4 DEF Settings!Changed
  <2>5. CASE k \notin ks
    <3>1. new[k] = c.settings[k]
      BY <2>3, <2>5 DEF Settings!Changed
    <3> QED BY <1>1, <2>1, <2>2, <2>5, <3>1
  <2> QED BY <2>4, <2>5
<1> QED BY <1>3, <1>4 DEF HasOrigin

LEMMA ApplyKeepsInv ==
  ASSUME SettingsInv, NEW c \in Settings!Readings, NEW wish, Asked(wish), Settings!Apply(c, wish),
         decision' = decision
  PROVE  SettingsInv'
<1> DEFINE new == Settings!Merged(c.settings, wish)
<1>1. Sound(c)
  BY ReadingsAreSound DEF SettingsInv
<1>2. Decided'
  BY DEF SettingsInv, Decided
<1>3. CASE ~Settings!Coherent(new) \/ Settings!Changed(c.settings, wish) = {}
  <2>1. cache' = c /\ UNCHANGED <<saved, history, accepted>>
    BY <1>3 DEF Settings!Apply
  <2>2. InStep'
    BY <1>1, <2>1, KeepsStep DEF SettingsInv
  <2> QED BY <1>2, <2>1, <2>2 DEF SettingsInv, HasOrigin
<1>4. CASE Settings!Coherent(new) /\ Settings!Changed(c.settings, wish) # {}
  <2>1. /\ Settings!Write(c.settings, wish)
        /\ cache' \in {Settings!ReadFrom(new, FALSE), Settings!ReadFrom(Settings!Shipped, TRUE)}
    BY <1>4 DEF Settings!Apply, Settings!Answered
  <2>2. saved' = new /\ accepted' = new
    BY <2>1 DEF Settings!Write
  <2>3. Sound(cache)'
    BY <2>1, <2>2 DEF Sound, Settings!ReadFrom
  <2>4. \A k \in DOMAIN saved' : saved'[k] = accepted'[k]
    BY <2>2
  <2>5. Settings!Coherent(accepted)'
    BY <1>4, <2>2 DEF Settings!Coherent
  <2>6. InStep'
    BY <2>3, <2>4, <2>5 DEF InStep
  <2>7. HasOrigin'
    BY <1>1, <2>1, WriteKeepsOrigins
  <2> QED BY <1>2, <2>6, <2>7 DEF SettingsInv
<1> QED BY <1>3, <1>4

-----------------------------------------------------------------------------

LEMMA SettingsInitially == Settings!Init => SettingsInv
<1> SUFFICES ASSUME Settings!Init PROVE SettingsInv
  OBVIOUS
<1>1. InStep /\ Decided
  <2>1. DOMAIN saved = {}
    BY DEF Settings!Init, Settings!NoFields
  <2>2. decision.used = decision.stood
    BY DEF Settings!Init
  <2> QED BY <2>1, <2>2, ShippedCoherent DEF Settings!Init, InStep, Decided
<1>2. history = <<>> /\ accepted = Settings!Shipped
  BY DEF Settings!Init
<1>3. \A k \in Settings!Knobs : At(history, k) = {}
  BY <1>2 DEF At
<1>4. HasOrigin
  BY <1>2, <1>3 DEF HasOrigin, HasNewest, RecordedIn
<1> QED BY <1>1, <1>4 DEF SettingsInv

LEMMA SettingsStep == SettingsInv /\ [Settings!Next]_(Settings!settingsVars) => SettingsInv'
<1> SUFFICES ASSUME SettingsInv, [Settings!Next]_(Settings!settingsVars) PROVE SettingsInv'
  OBVIOUS
<1>1. CASE Settings!Evaluate
  <2>1. PICK c \in Settings!Readings :
          /\ cache' = c
          /\ decision' = [used |-> c.settings, stood |-> accepted, failed |-> c.failed,
                          missing |-> Settings!Missing]
          /\ UNCHANGED <<saved, history, accepted>>
    BY <1>1 DEF Settings!Evaluate
  <2>2. Sound(c)
    BY ReadingsAreSound DEF SettingsInv
  <2>3. InStep'
    BY <2>1, <2>2, KeepsStep DEF SettingsInv
  <2>4. Decided'
    BY <2>1, <2>2 DEF Decided, Sound
  <2> QED BY <2>1, <2>3, <2>4 DEF SettingsInv, HasOrigin
<1>2. CASE Settings!ReadSettings \/ Settings!WriteFails
  <2>1. PICK c \in Settings!Readings :
          cache' = c /\ UNCHANGED <<saved, history, accepted, decision>>
    BY <1>2 DEF Settings!ReadSettings, Settings!WriteFails
  <2>2. InStep'
    BY <2>1, ReadingsAreSound, KeepsStep DEF SettingsInv
  <2> QED BY <2>1, <2>2 DEF SettingsInv, HasOrigin, Decided
<1>3. CASE Settings!WriteSettings
  <2>1. PICK wish \in Settings!Requests, c \in Settings!Readings :
          /\ \A k \in DOMAIN wish : wish[k] \in Settings!Range(k)
          /\ Settings!Apply(c, wish) /\ decision' = decision
    BY <1>3 DEF Settings!WriteSettings
  <2>2. DOMAIN wish \subseteq Settings!Knobs
    BY DEF Settings!Requests, Settings!Knobs
  <2>3. ASSUME NEW k \in DOMAIN wish PROVE wish[k] \in Values
    <3>1. wish[k] \in Settings!Range(k) /\ k \in Settings!Knobs
      BY <2>1, <2>2
    <3>2. Settings!Range(k) \subseteq Values
      BY <3>1, Zenon DEF Settings!Range, Settings!Knobs, Values
    <3> QED BY <3>1, <3>2
  <2>4. Asked(wish)
    BY <2>2, <2>3 DEF Asked
  <2> QED BY <2>1, <2>4, ApplyKeepsInv
<1>4. CASE Settings!ResetSettings
  <2>1. PICK c \in Settings!Readings :
          /\ Settings!Apply(c, [k \in Settings!Drifted(c.settings) |-> Settings!Shipped[k]])
          /\ decision' = decision
    BY <1>4 DEF Settings!ResetSettings
  <2>2. Asked([k \in Settings!Drifted(c.settings) |-> Settings!Shipped[k]])
    BY DEF Asked, Settings!Drifted, Settings!Shipped, Values
  <2> QED BY <2>1, <2>2, ApplyKeepsInv
<1>5. ASSUME NEW ks, Settings!Damage(ks) PROVE SettingsInv'
  <2>1. /\ saved' = [k \in DOMAIN saved \ ks |-> saved[k]]
        /\ UNCHANGED <<history, cache, accepted, decision>>
    BY <1>5 DEF Settings!Damage
  <2>2. InStep'
    BY <2>1, KeepsStep DEF SettingsInv, InStep
  <2> QED BY <2>1, <2>2 DEF SettingsInv, HasOrigin, Decided
<1>6. CASE Settings!Restart
  <2>1. cache' = Settings!Uncached /\ UNCHANGED <<saved, history, accepted, decision>>
    BY <1>6 DEF Settings!Restart
  <2>2. InStep'
    BY <2>1, KeepsStep DEF SettingsInv
  <2> QED BY <2>1, <2>2 DEF SettingsInv, HasOrigin, Decided
<1>7. CASE Settings!Tick
  <2>1. /\ cache # Settings!Uncached /\ UNCHANGED <<saved, history, accepted, decision>>
        /\ cache' \in {[cache EXCEPT !.age = @ + 1], Settings!Uncached}
    BY <1>7 DEF Settings!Tick
  <2>2. cache' # Settings!Uncached => Sound(cache')
    <3>1. Sound(cache)
      BY <2>1 DEF SettingsInv, InStep
    <3>2. [cache EXCEPT !.age = @ + 1] =
            [settings |-> cache.settings, failed |-> cache.failed, age |-> cache.age + 1]
      BY <3>1 DEF Sound
    <3> QED BY <2>1, <3>1, <3>2 DEF Sound
  <2>3. InStep'
    BY <2>1, <2>2, KeepsStep DEF SettingsInv
  <2> QED BY <2>1, <2>3 DEF SettingsInv, HasOrigin, Decided
<1>8. CASE UNCHANGED Settings!settingsVars
  BY <1>8 DEF Settings!settingsVars, SettingsInv, InStep, Sound, HasOrigin, Decided,
              Settings!Missing, Settings!Coherent
<1> QED BY <1>1, <1>2, <1>3, <1>4, <1>5, <1>6, <1>7, <1>8 DEF Settings!Next

-----------------------------------------------------------------------------
(***************************************************************************)
(* The stream of the dashboard (DashboardStream).  What is replayed to a   *)
(* client ascends and is newer than what was delivered: the log ascends,   *)
(* and the events that were queued during the build of a full snapshot are *)
(* put in order with it.  The queue itself need not ascend, since a        *)
(* snapshot is numbered in its thread and broadcast later; what it holds   *)
(* is compared with what was delivered.                                    *)
(***************************************************************************)

Events == [id : Nat \ {0}, version : Nat, content : Nat]

Connections ==
  [pc : {"off", "asking", "building", "draining", "on"},
   queue : Seq(Events), replay : Seq(Events),
   full : [id : Nat, version : Nat, content : Nat],
   delivered : Nat, last : Nat, from : Nat, shown : Events \cup {Dashboard!NoEvent}]

DashboardTypeOK ==
  /\ content \in Nat /\ ids \in Nat /\ version \in Nat /\ restarts \in Nat
  /\ log \in Seq(Events)
  /\ build \in [pc : {"none", "running", "done"}, content : Nat,
                event : Events \cup {Dashboard!NoEvent}]
  /\ client \in [Clients -> Connections]

Ascends(events) ==
  \A i, j \in 1..Len(events) : i < j => events[i].id < events[j].id

\* The retained events ascend; no event anywhere has a number that is still to come.
LogAscends ==
  /\ Ascends(log)
  /\ \A i \in 1..Len(log) : log[i].id <= ids
  /\ build.event.id <= ids

NumbersAreTaken(k, n) ==
  /\ \A i \in 1..Len(k.queue) : k.queue[i].id <= n
  /\ k.full.id <= n

\* What is replayed to a client ascends and is newer than what was delivered.
ReplayAdvances(k) ==
  /\ k.pc # "on" => k.replay = <<>> /\ k.delivered = 0
  /\ k.pc = "draining" => k.full \in Events
  /\ Ascends(k.replay)
  /\ \A i \in 1..Len(k.replay) : k.replay[i].id > k.delivered

DashboardInv ==
  /\ DashboardTypeOK
  /\ LogAscends
  /\ \A c \in Clients : NumbersAreTaken(client[c], ids) /\ ReplayAdvances(client[c])

LEMMA SmallestOf ==
  ASSUME NEW T, T \subseteq Nat, T # {}
  PROVE  \E m \in T : \A k \in T : m <= k
<1> DEFINE R == {ss \in Nat \X Nat : ss[1] < ss[2]}
<1>1. OpToRel(<, Nat) = R
  BY Zenon DEF OpToRel
<1>2. IsWellFoundedOn(R, Nat)
  BY <1>1, NatLessThanWellFounded, Zenon
<1>3. PICK m \in T : \A k \in T : ~(<<k, m>> \in R)
  BY <1>2, WFMin, Zenon
<1>4. \A k, n \in Nat : k < n => <<k, n>> \in R
  OBVIOUS
<1> HIDE DEF R
<1>5. ASSUME NEW k \in T PROVE m <= k
  <2>1. k \in Nat /\ m \in Nat
    OBVIOUS
  <2>2. ~(k < m)
    BY <1>3, <1>4, <2>1, Zenon
  <2> QED BY <2>1, <2>2
<1> QED BY <1>5

\* The members of a set of numbers that are at most n.
UpTo(T, n) == {k \in T : k <= n}

\* The numbers up to n, in order; by the smallest n for which it were false.
LEMMA NumbersInOrder ==
  ASSUME NEW T, T \subseteq Nat, IsFiniteSet(T), NEW m \in Nat
  PROVE  \E f \in [1..Cardinality(UpTo(T, m)) -> UpTo(T, m)] :
           \A i, j \in 1..Cardinality(UpTo(T, m)) : i < j => f[i] < f[j]
<1> DEFINE Ordered(n) ==
             \E f \in [1..Cardinality(UpTo(T, n)) -> UpTo(T, n)] :
               \A i, j \in 1..Cardinality(UpTo(T, n)) : i < j => f[i] < f[j]
           Bad == {n \in Nat : ~Ordered(n)}
<1>1. SUFFICES ASSUME Bad # {} PROVE FALSE
  OBVIOUS
<1>2. PICK n \in Bad : \A k \in Bad : n <= k
  <2> HIDE DEF Ordered
  <2> QED BY <1>1, SmallestOf
<1>3. n \in Nat /\ ~Ordered(n)
  OBVIOUS
<1>4. n = 0 \/ Ordered(n - 1)
  <2> HIDE DEF Ordered
  <2> QED BY <1>2, <1>3
<1> HIDE DEF Bad
<1>5. CASE n \notin T /\ n # 0
  <2>1. UpTo(T, n) = UpTo(T, n - 1)
    <3>1. \A k \in T : k \in Nat /\ k # n
      BY <1>5
    <3>2. \A k \in T : k <= n <=> k <= n - 1
      BY <1>3, <3>1
    <3> QED BY <3>2, Zenon DEF UpTo
  <2> QED BY <1>3, <1>4, <1>5, <2>1
<1>6. CASE n \notin T /\ n = 0
  <2>1. UpTo(T, n) = {}
    <3>1. \A k \in T : k \in Nat /\ k # n
      BY <1>6
    <3>2. \A k \in T : ~(k <= n)
      BY <1>6, <3>1
    <3> QED BY <3>2, Zenon DEF UpTo
  <2>2. Cardinality(UpTo(T, n)) = 0
    BY <2>1, FS_EmptySet
  <2>3. [k \in {} |-> k] \in [1..0 -> {}]
    OBVIOUS
  <2> QED BY <1>3, <2>1, <2>2, <2>3
<1>7. CASE n \in T
  <2> DEFINE L == UpTo(T, n) \ {n}
             size == Cardinality(L)
  <2>1. L \subseteq Nat /\ \A k \in L : k < n
    <3>1. ASSUME NEW k \in L PROVE k \in Nat /\ k < n
      <4>1. k \in Nat /\ k <= n /\ k # n
        BY DEF UpTo
      <4> QED BY <1>3, <4>1
    <3> QED BY <3>1
  <2>2. IsFiniteSet(L) /\ size \in Nat
    <3>1. L \in SUBSET T
      BY DEF UpTo
    <3> QED BY <3>1, FS_Subset, FS_CardinalityType
  <2>3. UpTo(T, n) = L \cup {n} /\ Cardinality(UpTo(T, n)) = size + 1
    <3>1. UpTo(T, n) = L \cup {n}
      BY <1>3, <1>7 DEF UpTo
    <3>2. n \notin L
      OBVIOUS
    <3> HIDE DEF L
    <3> QED BY <2>2, <3>1, <3>2, FS_AddElement
  <2>4. PICK f \in [1..size -> L] : \A i, j \in 1..size : i < j => f[i] < f[j]
    <3>1. CASE n = 0
      <4>1. L = {}
        BY <2>1, <3>1
      <4>2. size = 0
        BY <4>1, FS_EmptySet
      <4> HIDE DEF L, size
      <4>3. [k \in {} |-> k] \in [1..0 -> {}]
        OBVIOUS
      <4> QED BY <4>1, <4>2, <4>3
    <3>2. CASE n # 0
      <4>1. L = UpTo(T, n - 1)
        <5>1. \A k \in T : k <= n - 1 <=> k <= n /\ k # n
          BY <1>3
        <5> QED BY <5>1, Zenon DEF UpTo
      <4> QED BY <1>4, <3>2, <4>1
    <3> QED BY <3>1, <3>2
  <2> HIDE DEF L, size
  <2>5. \A i \in 1..size : f[i] \in Nat /\ f[i] < n
    BY <2>1
  <2> DEFINE g == [i \in 1..(size + 1) |-> IF i = size + 1 THEN n ELSE f[i]]
  <2>6. g \in [1..(size + 1) -> L \cup {n}]
    <3>1. ASSUME NEW i \in 1..(size + 1), i # size + 1 PROVE i \in 1..size
      BY <2>2, <3>1
    <3> QED BY <3>1
  <2>7. ASSUME NEW i \in 1..(size + 1), NEW j \in 1..(size + 1), i < j
        PROVE  g[i] < g[j]
    <3>1. i \in 1..size /\ (j = size + 1 \/ j \in 1..size)
      BY <2>2, <2>7
    <3>2. i # size + 1
      BY <2>2, <3>1
    <3>3. CASE j = size + 1
      BY <2>5, <3>1, <3>2, <3>3
    <3>4. CASE j \in 1..size
      <4>1. j # size + 1
        BY <2>2, <3>4
      <4> QED BY <2>4, <2>7, <3>1, <3>2, <3>4, <4>1
    <3> QED BY <3>1, <3>3, <3>4
  <2> HIDE DEF g
  <2>8. Ordered(n)
    BY <2>3, <2>6, <2>7
  <2> QED BY <1>3, <2>8
<1> QED BY <1>5, <1>6, <1>7

\* What stream_candidates sorts is in order: events whose numbers are bounded have
\* such a sequence, so the one that is chosen is one.
LEMMA InOrderAscends ==
  ASSUME NEW E \in SUBSET Events, NEW m \in Nat, \A e \in E : e.id <= m
  PROVE  Dashboard!InOrder(E) \in Seq(Events) /\ Ascends(Dashboard!InOrder(E))
<1> DEFINE T == {e.id : e \in E}
           size == Cardinality(T)
<1>1. T \subseteq Nat
  BY DEF Events
<1>2. IsFiniteSet(T) /\ size \in Nat
  <2>1. \A k \in T : k <= m
    OBVIOUS
  <2> HIDE DEF T
  <2> QED BY <1>1, <2>1, FS_BoundedSetOfNaturals, FS_CardinalityType
<1>4. UpTo(T, m) = T
  BY DEF UpTo
<1>5. PICK f \in [1..size -> T] : \A i, j \in 1..size : i < j => f[i] < f[j]
  <2> HIDE DEF T
  <2> QED BY <1>1, <1>2, <1>4, NumbersInOrder
<1> DEFINE s == [i \in 1..size |-> CHOOSE e \in E : e.id = f[i]]
<1>6. ASSUME NEW i \in 1..size PROVE s[i] \in E /\ s[i].id = f[i]
  <2>1. \E e \in E : e.id = f[i]
    OBVIOUS
  <2> QED BY <2>1
<1>7. s \in [1..size -> E] /\ \A i, j \in DOMAIN s : i < j => s[i].id < s[j].id
  BY <1>5, <1>6
<1> DEFINE q == Dashboard!InOrder(E)
<1>8. q \in [1..size -> E] /\ \A i, j \in DOMAIN q : i < j => q[i].id < q[j].id
  <2> HIDE DEF s
  <2>1. q = CHOOSE r \in [1..size -> E] :
              \A i, j \in DOMAIN r : i < j => r[i].id < r[j].id
    BY Zenon DEF Dashboard!InOrder, Dashboard!Cardinality, Cardinality
  <2> HIDE DEF q, size
  <2> QED BY <1>7, <2>1, Zenon
<1> HIDE DEF q, size
<1>9. q \in Seq(E) /\ Len(q) = size
  BY <1>2, <1>8
<1> QED BY <1>2, <1>8, <1>9 DEF Ascends, q

LEMMA EventsAreNumbered ==
  ASSUME NEW q \in Seq(Events)
  PROVE  \A i \in 1..Len(q) : q[i] \in Events /\ q[i].id \in Nat /\ q[i].id > 0
<1>1. \A i \in 1..Len(q) : q[i] \in Events
  OBVIOUS
<1>2. \A e \in Events : e.id \in Nat /\ e.id > 0
  BY DEF Events
<1> QED BY <1>1, <1>2

\* The rest of what ascends ascends above its head.
LEMMA RestAscends ==
  ASSUME NEW q \in Seq(Events), q # <<>>, Ascends(q)
  PROVE  /\ Tail(q) \in Seq(Events) /\ Ascends(Tail(q)) /\ Len(Tail(q)) = Len(q) - 1
         /\ \A i \in 1..Len(Tail(q)) : Tail(q)[i] = q[i + 1] /\ Tail(q)[i].id > Head(q).id
<1> DEFINE t == Tail(q)
<1>1. /\ t \in Seq(Events) /\ Len(t) = Len(q) - 1 /\ Len(q) \in Nat
      /\ \A i \in 1..Len(t) : t[i] = q[i + 1]
  BY HeadTailProperties
<1>2. Head(q) = q[1]
  OBVIOUS
<1> HIDE DEF t
<1>3. ASSUME NEW i \in 1..Len(t) PROVE t[i].id > q[1].id
  <2>1. 1 \in 1..Len(q) /\ i + 1 \in 1..Len(q) /\ 1 < i + 1 /\ t[i] = q[i + 1]
    BY <1>1
  <2>2. q[1].id < q[i + 1].id
    BY <2>1 DEF Ascends
  <2>3. q[1].id \in Nat /\ q[i + 1].id \in Nat
    BY <2>1, EventsAreNumbered
  <2> QED BY <2>1, <2>2, <2>3
<1>4. ASSUME NEW i \in 1..Len(t), NEW j \in 1..Len(t), i < j PROVE t[i].id < t[j].id
  <2>1. i + 1 \in 1..Len(q) /\ j + 1 \in 1..Len(q) /\ i + 1 < j + 1
    BY <1>1, <1>4
  <2> QED BY <1>1, <2>1 DEF Ascends
<1>5. Ascends(t)
  BY <1>4 DEF Ascends
<1> QED BY <1>1, <1>2, <1>3, <1>5 DEF t

\* What ascends goes on with an event above it.
LEMMA GoesOnAscending ==
  ASSUME NEW t \in Seq(Events), NEW e \in Events, Ascends(t),
         \A i \in 1..Len(t) : t[i].id < e.id
  PROVE  Ascends(Append(t, e))
<1> DEFINE q == Append(t, e)
<1>1. /\ Len(q) = Len(t) + 1 /\ Len(t) \in Nat /\ q[Len(t) + 1] = e
      /\ \A i \in 1..Len(t) : q[i] = t[i]
  OBVIOUS
<1> HIDE DEF q
<1>2. ASSUME NEW i \in 1..Len(q), NEW j \in 1..Len(q), i < j PROVE q[i].id < q[j].id
  <2>1. i \in 1..Len(t) /\ (j \in 1..Len(t) \/ j = Len(t) + 1)
    BY <1>1, <1>2
  <2> QED BY <1>1, <1>2, <2>1 DEF Ascends
<1> QED BY <1>2 DEF Ascends, q

\* A queue that takes an event, at its limit or below it.
LEMMA QueueTakes ==
  ASSUME NEW q \in Seq(Events), NEW e \in Events, NEW n \in Nat, e.id <= n,
         \A i \in 1..Len(q) : q[i].id <= n
  PROVE  /\ Dashboard!Queued(q, e) \in Seq(Events)
         /\ \A i \in 1..Len(Dashboard!Queued(q, e)) : Dashboard!Queued(q, e)[i].id <= n
<1>1. CASE Len(q) # QueueLimit
  BY <1>1 DEF Dashboard!Queued
<1>2. CASE Len(q) = QueueLimit
  <2>1. q # <<>>
    BY <1>2, DashboardAssumption
  <2> DEFINE t == Tail(q)
  <2>2. /\ t \in Seq(Events) /\ Len(t) = Len(q) - 1
        /\ \A i \in 1..Len(t) : t[i] = q[i + 1]
    BY <2>1, HeadTailProperties
  <2>3. Dashboard!Queued(q, e) = Append(t, e)
    BY <1>2 DEF Dashboard!Queued
  <2> HIDE DEF t
  <2>4. \A i \in 1..Len(t) : t[i].id <= n
    BY <2>2
  <2> QED BY <2>2, <2>3, <2>4
<1> QED BY <1>1, <1>2

\* The log takes the event with the next number (DashboardEventBuffer._append).
LEMMA LogTakes ==
  ASSUME DashboardInv, NEW e \in Events, e.id = ids + 1, Dashboard!Appended(e)
  PROVE  /\ ids' = ids + 1 /\ log' \in Seq(Events) /\ Ascends(log')
         /\ \A i \in 1..Len(log') : log'[i].id <= ids'
<1> DEFINE kept == IF e.content = 0 THEN log ELSE <<>>
<1>1. /\ kept \in Seq(Events) /\ Ascends(kept)
      /\ \A i \in 1..Len(kept) : kept[i].id <= ids
  BY DEF DashboardInv, DashboardTypeOK, LogAscends, Ascends
<1>2. /\ ids' = ids + 1 /\ ids \in Nat
      /\ log' = IF Len(kept) = ReplayLimit THEN Append(Tail(kept), e) ELSE Append(kept, e)
  BY DEF Dashboard!Appended, DashboardInv, DashboardTypeOK
<1> HIDE DEF kept
<1>3. PICK t \in Seq(Events) :
        /\ log' = Append(t, e) /\ Ascends(t) /\ \A i \in 1..Len(t) : t[i].id <= ids
  <2>1. CASE Len(kept) = ReplayLimit
    <3>1. kept # <<>>
      BY <2>1, DashboardAssumption
    <3> DEFINE r == Tail(kept)
    <3>2. /\ r \in Seq(Events) /\ Ascends(r) /\ Len(r) = Len(kept) - 1
          /\ \A i \in 1..Len(r) : r[i] = kept[i + 1]
      BY <1>1, <3>1, RestAscends
    <3>3. log' = Append(r, e)
      BY <1>2, <2>1
    <3> HIDE DEF r
    <3>4. \A i \in 1..Len(r) : i + 1 \in 1..Len(kept)
      BY <1>1, <3>2
    <3>5. \A i \in 1..Len(r) : r[i].id <= ids
      BY <1>1, <3>2, <3>4
    <3> QED BY <3>2, <3>3, <3>5
  <2> QED BY <1>1, <1>2, <2>1
<1>4. \A i \in 1..Len(t) : t[i].id \in Nat
  BY EventsAreNumbered
<1>5. Ascends(Append(t, e))
  BY <1>2, <1>3, <1>4, GoesOnAscending
<1>6. /\ Append(t, e) \in Seq(Events) /\ Len(Append(t, e)) = Len(t) + 1 /\ Len(t) \in Nat
      /\ Append(t, e)[Len(t) + 1] = e /\ \A i \in 1..Len(t) : Append(t, e)[i] = t[i]
  OBVIOUS
<1>7. ASSUME NEW i \in 1..Len(Append(t, e)) PROVE Append(t, e)[i].id <= ids + 1
  <2>1. i \in 1..Len(t) \/ i = Len(t) + 1
    BY <1>6
  <2>2. CASE i \in 1..Len(t)
    <3>1. t[i].id <= ids /\ t[i].id \in Nat /\ Append(t, e)[i] = t[i]
      BY <1>3, <1>4, <1>6, <2>2
    <3> QED BY <1>2, <3>1
  <2>3. CASE i = Len(t) + 1
    BY <1>2, <1>6, <2>3
  <2> QED BY <2>1, <2>2, <2>3
<1> QED BY <1>2, <1>3, <1>5, <1>6, <1>7

\* What is broadcast leaves the replay of each client as it is.
LEMMA BroadcastKeeps ==
  ASSUME DashboardInv, NEW e \in Events, ids' \in Nat, e.id <= ids', ids <= ids',
         Dashboard!Broadcast(e)
  PROVE  /\ client' \in [Clients -> Connections]
         /\ \A c \in Clients : /\ NumbersAreTaken(client'[c], ids')
                               /\ ReplayAdvances(client'[c])
<1> SUFFICES ASSUME NEW c \in Clients
             PROVE  /\ client'[c] \in Connections /\ NumbersAreTaken(client'[c], ids')
                    /\ ReplayAdvances(client'[c])
  BY DEF Dashboard!Broadcast
<1> DEFINE k == client[c]
           q == Dashboard!Queued(k.queue, e)
<1>1. /\ k \in Connections /\ NumbersAreTaken(k, ids) /\ ReplayAdvances(k) /\ ids \in Nat
  BY DEF DashboardInv, DashboardTypeOK
<1>2. NumbersAreTaken(k, ids')
  <2>1. k.full.id \in Nat /\ k.queue \in Seq(Events)
    BY <1>1 DEF Connections
  <2>2. \A i \in 1..Len(k.queue) : k.queue[i].id \in Nat
    BY <2>1, EventsAreNumbered
  <2> HIDE DEF k
  <2> QED BY <1>1, <2>1, <2>2 DEF NumbersAreTaken
<1>3. q \in Seq(Events) /\ \A i \in 1..Len(q) : q[i].id <= ids'
  BY <1>1, <1>2, QueueTakes DEF NumbersAreTaken, Connections
<1>4. client'[c] = IF c \in Dashboard!Connected THEN [k EXCEPT !.queue = q] ELSE k
  BY DEF Dashboard!Broadcast
<1> HIDE DEF k, q
<1> QED BY <1>1, <1>2, <1>3, <1>4 DEF Connections, NumbersAreTaken, ReplayAdvances

\* One client moves and what is numbered stays.
LEMMA OneMoves ==
  ASSUME DashboardInv, NEW c \in Clients, NEW k \in Connections,
         client' = [client EXCEPT ![c] = k],
         NumbersAreTaken(k, ids), ReplayAdvances(k),
         UNCHANGED <<content, log, ids, version, build, restarts>>
  PROVE  DashboardInv'
<1>1. DashboardTypeOK' /\ LogAscends'
  BY DEF DashboardInv, DashboardTypeOK, LogAscends
<1>2. ASSUME NEW d \in Clients
      PROVE  NumbersAreTaken(client'[d], ids') /\ ReplayAdvances(client'[d])
  <2>1. client'[d] = IF d = c THEN k ELSE client[d]
    BY DEF DashboardInv, DashboardTypeOK
  <2> QED BY <2>1 DEF DashboardInv
<1> QED BY <1>1, <1>2 DEF DashboardInv


LEMMA DashboardInitially == Dashboard!Init => DashboardInv
<1> SUFFICES ASSUME Dashboard!Init PROVE DashboardInv
  OBVIOUS
<1>1. Dashboard!Off \in Connections /\ NumbersAreTaken(Dashboard!Off, 0)
      /\ ReplayAdvances(Dashboard!Off)
  BY DEF Dashboard!Off, Dashboard!NoEvent, Connections, NumbersAreTaken, ReplayAdvances,
         Ascends
<1>2. DashboardTypeOK
  BY <1>1 DEF Dashboard!Init, DashboardTypeOK, Dashboard!NoBuild, Dashboard!NoEvent
<1>3. LogAscends
  BY DEF Dashboard!Init, LogAscends, Ascends, Dashboard!NoBuild, Dashboard!NoEvent
<1> QED BY <1>1, <1>2, <1>3 DEF Dashboard!Init, DashboardInv

\* A client that leaves keeps what its browser holds.
LEMMA LeftIsSound ==
  ASSUME DashboardInv, NEW c \in Clients, NEW n \in Nat
  PROVE  /\ Dashboard!Left(c) \in Connections /\ Dashboard!Left(c).pc = "off"
         /\ NumbersAreTaken(Dashboard!Left(c), n) /\ ReplayAdvances(Dashboard!Left(c))
<1>1. client[c] \in Connections
  BY DEF DashboardInv, DashboardTypeOK
<1>2. /\ client[c].last \in Nat /\ client[c].from \in Nat
      /\ client[c].shown \in Events \cup {Dashboard!NoEvent}
  BY <1>1 DEF Connections
<1>3. /\ Dashboard!Off \in Connections /\ Dashboard!Off.pc = "off"
      /\ Dashboard!Off.queue = <<>> /\ Dashboard!Off.replay = <<>>
      /\ Dashboard!Off.full.id = 0 /\ Dashboard!Off.delivered = 0
  BY DEF Dashboard!Off, Dashboard!NoEvent, Connections
<1> DEFINE k == Dashboard!Left(c)
<1>4. /\ k \in Connections /\ k.pc = "off" /\ k.queue = <<>> /\ k.replay = <<>>
      /\ k.full.id = 0 /\ k.delivered = 0
  BY <1>2, <1>3 DEF Dashboard!Left, Connections
<1> HIDE DEF k
<1>5. NumbersAreTaken(k, n) /\ ReplayAdvances(k)
  BY <1>4 DEF NumbersAreTaken, ReplayAdvances, Ascends
<1> QED BY <1>4, <1>5 DEF k

\* What replay_after returns ascends: a part of the log.
LEMMA ReplayIsInOrder ==
  ASSUME DashboardInv, NEW n \in Nat
  PROVE  LET events == Dashboard!ReplayAfter(n).events
         IN  /\ events \in Seq(Events) /\ Ascends(events)
             /\ Dashboard!ReplayAfter(n).full \in BOOLEAN
<1> DEFINE at == CHOOSE i \in DOMAIN log : log[i].id = n
           newer == SubSeq(log, at + 1, Len(log))
<1>1. log \in Seq(Events) /\ Ascends(log) /\ Ascends(<<>>) /\ Len(log) \in Nat
  BY DEF DashboardInv, DashboardTypeOK, LogAscends, Ascends
<1>2. ASSUME \E i \in DOMAIN log : log[i].id = n
      PROVE  newer \in Seq(Events) /\ Ascends(newer)
  <2>1. at \in 1..Len(log)
    BY <1>1, <1>2
  <2> HIDE DEF at
  <2>2. \A i \in (at + 1)..Len(log) : log[i] \in Events
    BY <1>1, <2>1
  <2>3. /\ newer \in Seq(Events) /\ Len(newer) = Len(log) - at
        /\ \A i \in 1..(Len(log) - at) : newer[i] = log[at + i]
    <3>1. at + 1 \in Int /\ Len(log) \in Int
      BY <1>1, <2>1
    <3>2. /\ newer \in Seq(Events)
          /\ Len(newer) = IF at + 1 <= Len(log) THEN Len(log) - (at + 1) + 1 ELSE 0
          /\ \A i \in 1..(Len(log) - (at + 1) + 1) : newer[i] = log[at + 1 + i - 1]
      BY <2>2, <3>1, SubSeqProperties
    <3> HIDE DEF newer
    <3> QED BY <1>1, <2>1, <3>2
  <2> HIDE DEF newer
  <2>4. ASSUME NEW i \in 1..Len(newer), NEW j \in 1..Len(newer), i < j
        PROVE  newer[i].id < newer[j].id
    <3>1. at + i \in 1..Len(log) /\ at + j \in 1..Len(log) /\ at + i < at + j
      BY <1>1, <2>1, <2>3, <2>4
    <3>2. log[at + i].id < log[at + j].id
      BY <1>1, <3>1 DEF Ascends
    <3> QED BY <2>3, <3>2
  <2> QED BY <2>3, <2>4 DEF Ascends
<1> HIDE DEF at, newer
<1>3. <<>> \in Seq(Events)
  OBVIOUS
<1>4. Dashboard!NewerThan(n) = newer
  BY Zenon DEF Dashboard!NewerThan, newer, at
<1> QED BY <1>1, <1>2, <1>3, <1>4, Zenon DEF Dashboard!ReplayAfter


\* The browser reads an event that is newer than what was delivered.
LEMMA ReadIsNewest ==
  ASSUME NEW k \in Connections, NEW e \in Events, e.id > k.delivered, restarts \in Nat
  PROVE  /\ Dashboard!Read(k, e) \in Connections
         /\ Dashboard!Read(k, e).delivered = e.id /\ Dashboard!Read(k, e).last = e.id
         /\ Dashboard!Read(k, e).pc = k.pc /\ Dashboard!Read(k, e).queue = k.queue
         /\ Dashboard!Read(k, e).replay = k.replay /\ Dashboard!Read(k, e).full = k.full
<1> DEFINE seen == IF e.content # 0 /\ e.version > k.shown.version THEN e ELSE k.shown
<1>1. e.id \in Nat /\ k.delivered \in Nat
      /\ seen \in Events \cup {Dashboard!NoEvent}
  BY DEF Events, Connections
<1>2. Dashboard!Read(k, e) = [k EXCEPT !.delivered = e.id, !.last = e.id,
                                       !.from = restarts, !.shown = seen]
  BY DEF Dashboard!Read, Connections
<1> HIDE DEF seen
<1> QED BY <1>1, <1>2 DEF Connections

\* The next of the replayed events is newer than what was delivered, and so are
\* those after it (stream_candidates).
LEMMA SendReplayedKeeps ==
  ASSUME DashboardInv, NEW c \in Clients, Dashboard!SendReplayed(c)
  PROVE  DashboardInv' /\ client'[c].last > client[c].delivered
<1> DEFINE k == client[c]
           rest == [k EXCEPT !.replay = Tail(k.replay)]
           e == Head(k.replay)
<1>1. /\ k \in Connections /\ NumbersAreTaken(k, ids) /\ ReplayAdvances(k)
      /\ k.pc = "on" /\ k.replay # <<>> /\ k.replay \in Seq(Events) /\ restarts \in Nat
  BY DEF DashboardInv, DashboardTypeOK, Dashboard!SendReplayed, Connections
<1>2. /\ client' = [client EXCEPT ![c] = Dashboard!Read(rest, e)]
      /\ UNCHANGED <<content, log, ids, version, build, restarts>>
  BY DEF Dashboard!SendReplayed, Dashboard!logVars
<1>3. client'[c] = Dashboard!Read(rest, e)
  BY <1>2 DEF DashboardInv, DashboardTypeOK
<1> HIDE DEF k
<1>4. /\ Tail(k.replay) \in Seq(Events) /\ Ascends(Tail(k.replay))
      /\ \A i \in 1..Len(Tail(k.replay)) : Tail(k.replay)[i].id > e.id
  BY <1>1, RestAscends DEF ReplayAdvances
<1>5. e \in Events /\ e.id > k.delivered
  <2>1. e = k.replay[1] /\ 1 \in 1..Len(k.replay)
    BY <1>1
  <2> QED BY <1>1, <2>1, EventsAreNumbered DEF ReplayAdvances
<1> HIDE DEF e
<1>6. /\ rest \in Connections /\ rest.replay = Tail(k.replay) /\ rest.pc = "on"
      /\ rest.queue = k.queue /\ rest.full = k.full /\ rest.delivered = k.delivered
  BY <1>1, <1>4 DEF Connections
<1> HIDE DEF rest
<1> DEFINE r == Dashboard!Read(rest, e)
<1>7. /\ r \in Connections /\ r.delivered = e.id /\ r.last = e.id /\ r.pc = "on"
      /\ r.queue = k.queue /\ r.full = k.full /\ r.replay = Tail(k.replay)
  BY <1>1, <1>5, <1>6, ReadIsNewest
<1> HIDE DEF r
<1>8. NumbersAreTaken(r, ids) /\ ReplayAdvances(r)
  BY <1>1, <1>4, <1>7 DEF NumbersAreTaken, ReplayAdvances
<1>9. client'[c] = r /\ client' = [client EXCEPT ![c] = r]
  BY <1>2, <1>3 DEF r
<1>10. DashboardInv'
  BY <1>2, <1>7, <1>8, <1>9, OneMoves
<1> QED BY <1>5, <1>7, <1>9, <1>10 DEF k

\* Of the queue, only what is newer than what was delivered is sent.
LEMMA SendQueuedKeeps ==
  ASSUME DashboardInv, NEW c \in Clients, Dashboard!SendQueued(c)
  PROVE  /\ DashboardInv'
         /\ client'[c].last = client[c].last \/ client'[c].last > client[c].delivered
<1> DEFINE k == client[c]
           rest == [k EXCEPT !.queue = Tail(k.queue)]
           e == Head(k.queue)
           r == IF e.id <= k.delivered THEN rest ELSE Dashboard!Read(rest, e)
<1>1. /\ k \in Connections /\ NumbersAreTaken(k, ids) /\ ReplayAdvances(k)
      /\ k.pc = "on" /\ k.replay = <<>> /\ k.queue # <<>> /\ k.queue \in Seq(Events)
      /\ restarts \in Nat /\ k.delivered \in Nat
  BY DEF DashboardInv, DashboardTypeOK, Dashboard!SendQueued, Connections
<1>2. /\ client' = [client EXCEPT ![c] = r]
      /\ UNCHANGED <<content, log, ids, version, build, restarts>>
  BY DEF Dashboard!SendQueued, Dashboard!logVars
<1>3. client'[c] = r
  BY <1>2 DEF DashboardInv, DashboardTypeOK
<1> HIDE DEF k
<1>4. /\ Tail(k.queue) \in Seq(Events) /\ Len(Tail(k.queue)) = Len(k.queue) - 1
      /\ \A i \in 1..Len(Tail(k.queue)) : Tail(k.queue)[i] = k.queue[i + 1]
  BY <1>1, HeadTailProperties
<1>5. e \in Events /\ e.id \in Nat
  BY <1>1, EventsAreNumbered, HeadTailProperties DEF Events
<1> HIDE DEF e
<1>6. /\ rest \in Connections /\ rest.replay = <<>> /\ rest.pc = "on"
      /\ rest.queue = Tail(k.queue) /\ rest.full = k.full /\ rest.last = k.last
      /\ rest.delivered = k.delivered
  BY <1>1, <1>4 DEF Connections
<1>7. \A i \in 1..Len(rest.queue) : rest.queue[i].id <= ids
  <2>1. \A i \in 1..Len(Tail(k.queue)) : i + 1 \in 1..Len(k.queue)
    BY <1>1, <1>4
  <2> QED BY <1>1, <1>4, <1>6, <2>1 DEF NumbersAreTaken
<1> HIDE DEF rest
<1>8. /\ r \in Connections /\ r.pc = "on" /\ r.replay = <<>> /\ r.queue = rest.queue
      /\ r.full = k.full /\ r.delivered \in Nat
      /\ r.last = k.last \/ r.last > k.delivered
  <2>1. CASE e.id <= k.delivered
    BY <1>1, <1>6, <2>1
  <2>2. CASE ~(e.id <= k.delivered)
    <3>1. e.id > rest.delivered
      BY <1>1, <1>5, <1>6, <2>2
    <3>2. r = Dashboard!Read(rest, e)
      BY <2>2
    <3> HIDE DEF r
    <3> QED BY <1>1, <1>5, <1>6, <3>1, <3>2, ReadIsNewest
  <2> QED BY <2>1, <2>2
<1> HIDE DEF r
<1>9. NumbersAreTaken(r, ids) /\ ReplayAdvances(r)
  BY <1>1, <1>7, <1>8 DEF NumbersAreTaken, ReplayAdvances, Ascends
<1>10. DashboardInv'
  BY <1>2, <1>8, <1>9, OneMoves
<1> QED BY <1>3, <1>8, <1>10 DEF k


\* A snapshot or a heartbeat that is numbered.
LEMMA NumberedNext ==
  ASSUME DashboardInv, NEW shown \in Nat
  PROVE  /\ Dashboard!Snapshot(shown) \in Events /\ Dashboard!Snapshot(shown).id = ids + 1
         /\ Dashboard!Beat \in Events /\ Dashboard!Beat.id = ids + 1
  BY DEF DashboardInv, DashboardTypeOK, Dashboard!Snapshot, Dashboard!Beat, Events

\* What is numbered leaves the clients as they are.
LEMMA NumbersStay ==
  ASSUME DashboardInv, ids' \in Nat, ids <= ids'
  PROVE  \A c \in Clients : NumbersAreTaken(client[c], ids')
<1> SUFFICES ASSUME NEW c \in Clients PROVE NumbersAreTaken(client[c], ids')
  OBVIOUS
<1> DEFINE k == client[c]
<1>1. k \in Connections /\ NumbersAreTaken(k, ids) /\ ids \in Nat
  BY DEF DashboardInv, DashboardTypeOK
<1> HIDE DEF k
<1>2. k.full.id \in Nat /\ k.queue \in Seq(Events)
  BY <1>1 DEF Connections
<1>3. \A i \in 1..Len(k.queue) : k.queue[i].id \in Nat
  BY <1>2, EventsAreNumbered
<1> QED BY <1>1, <1>2, <1>3 DEF NumbersAreTaken, k

LEMMA RoundKeeps == DashboardInv /\ Dashboard!Round => DashboardInv'
<1> SUFFICES ASSUME DashboardInv, Dashboard!Round PROVE DashboardInv'
  OBVIOUS
<1>1. /\ content' = content /\ ids' = ids /\ version' = version /\ log' = log
      /\ restarts' = restarts /\ ids \in Nat
  BY DEF Dashboard!Round, Dashboard!logVars, DashboardInv, DashboardTypeOK
<1>2. /\ build' \in [pc : {"none", "running", "done"}, content : Nat,
                     event : Events \cup {Dashboard!NoEvent}]
      /\ build'.event.id <= ids
  BY DEF Dashboard!Round, DashboardInv, DashboardTypeOK, LogAscends, Dashboard!NoBuild,
         Dashboard!NoEvent
<1>3. DashboardTypeOK /\ LogAscends /\ \A c \in Clients : NumbersAreTaken(client[c], ids)
                                                   /\ ReplayAdvances(client[c])
  BY DEF DashboardInv
<1>4. CASE build.pc = "done" /\ build.event # Dashboard!NoEvent
  <2>1. build.event \in Events /\ build.event.id <= ids' /\ ids <= ids' /\ ids' \in Nat
    BY <1>1, <1>3, <1>4 DEF DashboardTypeOK, LogAscends
  <2>2. Dashboard!Broadcast(build.event)
    BY <1>4 DEF Dashboard!Round
  <2>3. /\ client' \in [Clients -> Connections]
        /\ \A c \in Clients : /\ NumbersAreTaken(client'[c], ids')
                              /\ ReplayAdvances(client'[c])
    BY <2>1, <2>2, BroadcastKeeps
  <2> QED BY <1>1, <1>2, <1>3, <2>3 DEF DashboardInv, DashboardTypeOK, LogAscends
<1>5. CASE ~(build.pc = "done" /\ build.event # Dashboard!NoEvent)
  <2>1. client' = client
    BY <1>5 DEF Dashboard!Round
  <2> QED BY <1>1, <1>2, <1>3, <2>1 DEF DashboardInv, DashboardTypeOK, LogAscends
<1> QED BY <1>4, <1>5

LEMMA HeartbeatKeeps == DashboardInv /\ Dashboard!Heartbeat => DashboardInv'
<1> SUFFICES ASSUME DashboardInv, Dashboard!Heartbeat PROVE DashboardInv'
  OBVIOUS
<1>1. Dashboard!Beat \in Events /\ Dashboard!Beat.id = ids + 1
  BY NumberedNext DEF DashboardInv, DashboardTypeOK
<1>2. /\ Dashboard!Appended(Dashboard!Beat) /\ Dashboard!Broadcast(Dashboard!Beat)
      /\ UNCHANGED <<content, version, build, restarts>>
  BY DEF Dashboard!Heartbeat
<1>3. /\ ids' = ids + 1 /\ log' \in Seq(Events) /\ Ascends(log')
      /\ \A i \in 1..Len(log') : log'[i].id <= ids'
  BY <1>1, <1>2, LogTakes
<1>4. ids \in Nat /\ ids' \in Nat /\ ids <= ids' /\ Dashboard!Beat.id <= ids'
  BY <1>1, <1>3 DEF DashboardInv, DashboardTypeOK
<1>5. /\ client' \in [Clients -> Connections]
      /\ \A c \in Clients : NumbersAreTaken(client'[c], ids') /\ ReplayAdvances(client'[c])
  BY <1>1, <1>2, <1>4, BroadcastKeeps
<1>6. DashboardTypeOK'
  BY <1>2, <1>3, <1>4, <1>5 DEF DashboardInv, DashboardTypeOK
<1>7. build'.event.id <= ids'
  <2>1. build.event.id \in Nat /\ build.event.id <= ids
    BY DEF DashboardInv, DashboardTypeOK, LogAscends, Events, Dashboard!NoEvent
  <2> QED BY <1>2, <1>4, <2>1
<1> QED BY <1>3, <1>5, <1>6, <1>7 DEF DashboardInv, LogAscends

LEMMA PublishKeeps == DashboardInv /\ Dashboard!Publish => DashboardInv'
<1> SUFFICES ASSUME DashboardInv, Dashboard!Publish PROVE DashboardInv'
  OBVIOUS
<1>1. /\ build.content \in Nat /\ ids \in Nat /\ version \in Nat
      /\ client' = client /\ UNCHANGED <<content, restarts>>
  BY DEF Dashboard!Publish, DashboardInv, DashboardTypeOK
<1>2. CASE build.content = hashed
  <2>1. build' = Dashboard!Done(Dashboard!NoEvent) /\ UNCHANGED <<log, ids, version>>
    BY <1>2 DEF Dashboard!Publish, Dashboard!logVars
  <2> QED BY <1>1, <2>1 DEF DashboardInv, DashboardTypeOK, LogAscends, Dashboard!Done,
                            Dashboard!NoEvent
<1>3. CASE build.content # hashed
  <2> DEFINE e == Dashboard!Snapshot(build.content)
  <2>1. e \in Events /\ e.id = ids + 1
    BY <1>1, NumberedNext
  <2>2. Dashboard!Appended(e) /\ version' = version + 1 /\ build' = Dashboard!Done(e)
    BY <1>3 DEF Dashboard!Publish, Dashboard!Published
  <2> HIDE DEF e
  <2>3. /\ ids' = ids + 1 /\ log' \in Seq(Events) /\ Ascends(log')
        /\ \A i \in 1..Len(log') : log'[i].id <= ids'
    BY <2>1, <2>2, LogTakes
  <2>4. /\ ids' \in Nat /\ ids <= ids'
        /\ \A c \in Clients : NumbersAreTaken(client'[c], ids') /\ ReplayAdvances(client'[c])
    BY <1>1, <2>3, NumbersStay DEF DashboardInv
  <2>5. DashboardTypeOK' /\ LogAscends'
    BY <1>1, <2>1, <2>2, <2>3, <2>4
       DEF DashboardInv, DashboardTypeOK, LogAscends, Dashboard!Done
  <2> QED BY <2>4, <2>5 DEF DashboardInv
<1> QED BY <1>2, <1>3


\* The queue and the full snapshot of a client, in order.
LEMMA DrainKeeps ==
  ASSUME DashboardInv, NEW c \in Clients, Dashboard!Drain(c)
  PROVE  DashboardInv' /\ client'[c].last = client[c].last
<1> DEFINE k == client[c]
           gathered == {k.full} \cup {k.queue[i] : i \in DOMAIN k.queue}
           q == Dashboard!InOrder(gathered)
           r == [k EXCEPT !.pc = "on", !.replay = q, !.queue = <<>>,
                          !.full = Dashboard!NoEvent]
<1>1. /\ k \in Connections /\ NumbersAreTaken(k, ids) /\ ReplayAdvances(k)
      /\ k.pc = "draining" /\ ids \in Nat
  BY DEF DashboardInv, DashboardTypeOK, Dashboard!Drain
<1>2. /\ client' = [client EXCEPT ![c] = r] /\ client'[c] = r
      /\ UNCHANGED <<content, log, ids, version, build, restarts>>
  BY DEF Dashboard!Drain, Dashboard!Drained, Dashboard!logVars, DashboardInv, DashboardTypeOK
<1> HIDE DEF k
<1>3. k.full \in Events /\ k.queue \in Seq(Events) /\ k.delivered = 0 /\ k.full.id <= ids
  BY <1>1 DEF ReplayAdvances, Connections, NumbersAreTaken
<1>4. DOMAIN k.queue = 1..Len(k.queue)
  BY <1>3
<1>5. gathered \in SUBSET Events
  BY <1>3, <1>4, EventsAreNumbered
<1>6. \A e \in gathered : e.id <= ids
  BY <1>1, <1>3, <1>4 DEF NumbersAreTaken
<1> HIDE DEF gathered
<1>7. q \in Seq(Events) /\ Ascends(q)
  BY <1>1, <1>5, <1>6, InOrderAscends
<1>8. \A i \in 1..Len(q) : q[i].id > 0
  BY <1>7, EventsAreNumbered
<1> HIDE DEF q
<1>9. /\ r \in Connections /\ r.pc = "on" /\ r.replay = q /\ r.queue = <<>>
      /\ r.full.id = 0 /\ r.delivered = 0 /\ r.last = k.last
  <2> DEFINE none == Dashboard!NoEvent
             empty == <<>>
  <2>1. none \in [id : Nat, version : Nat, content : Nat] /\ none.id = 0
    BY DEF Dashboard!NoEvent
  <2>2. empty \in Seq(Events)
    OBVIOUS
  <2> HIDE DEF none, empty
  <2>3. r = [k EXCEPT !.pc = "on", !.replay = q, !.queue = empty, !.full = none]
    BY DEF none, empty
  <2> HIDE DEF r
  <2>4. /\ r \in Connections /\ r.pc = "on" /\ r.replay = q /\ r.queue = empty
        /\ r.full = none /\ r.delivered = k.delivered /\ r.last = k.last
    BY <1>1, <1>7, <2>1, <2>2, <2>3 DEF Connections
  <2> QED BY <1>3, <2>1, <2>4 DEF empty
<1> HIDE DEF r
<1>10. NumbersAreTaken(r, ids) /\ ReplayAdvances(r)
  BY <1>1, <1>7, <1>8, <1>9 DEF NumbersAreTaken, ReplayAdvances
<1>11. DashboardInv'
  BY <1>2, <1>9, <1>10, OneMoves
<1> QED BY <1>2, <1>9, <1>11 DEF k

\* The snapshot that is published for one client.
LEMMA BuildFullKeeps ==
  ASSUME DashboardInv, NEW c \in Clients, Dashboard!BuildFull(c)
  PROVE  DashboardInv' /\ \A d \in Clients : client'[d].last = client[d].last
<1> DEFINE k == client[c]
           e == Dashboard!Snapshot(k.full.content)
           r == [k EXCEPT !.pc = "draining", !.full = e]
<1>1. /\ k \in Connections /\ NumbersAreTaken(k, ids) /\ ReplayAdvances(k)
      /\ k.pc = "building" /\ k.full.content \in Nat /\ ids \in Nat /\ version \in Nat
  BY DEF DashboardInv, DashboardTypeOK, Dashboard!BuildFull, Connections
<1>2. /\ client' = [client EXCEPT ![c] = r]
      /\ UNCHANGED <<content, build, restarts>>
      /\ Dashboard!Appended(e) /\ version' = version + 1
  BY DEF Dashboard!BuildFull, Dashboard!Published, DashboardInv, DashboardTypeOK, Connections
<1>3. \A d \in Clients : client'[d] = IF d = c THEN r ELSE client[d]
  BY <1>2 DEF DashboardInv, DashboardTypeOK
<1>4. e \in Events /\ e.id = ids + 1
  BY <1>1, NumberedNext
<1> HIDE DEF k, e
<1>5. /\ ids' = ids + 1 /\ log' \in Seq(Events) /\ Ascends(log')
      /\ \A i \in 1..Len(log') : log'[i].id <= ids'
  BY <1>2, <1>4, LogTakes
<1>6. /\ ids' \in Nat /\ ids <= ids'
      /\ \A d \in Clients : NumbersAreTaken(client[d], ids')
  BY <1>1, <1>5, NumbersStay
<1>7. /\ r \in Connections /\ r.pc = "draining" /\ r.replay = k.replay /\ r.queue = k.queue
      /\ r.full = e /\ r.delivered = k.delivered /\ r.last = k.last
  BY <1>1, <1>4 DEF Connections, Events
<1> HIDE DEF r
<1>8. NumbersAreTaken(r, ids') /\ ReplayAdvances(r)
  BY <1>1, <1>4, <1>5, <1>6, <1>7 DEF NumbersAreTaken, ReplayAdvances, k
<1>9. \A d \in Clients : NumbersAreTaken(client'[d], ids') /\ ReplayAdvances(client'[d])
  BY <1>3, <1>6, <1>8 DEF DashboardInv
<1>10. client' \in [Clients -> Connections]
  BY <1>2, <1>7 DEF DashboardInv, DashboardTypeOK
<1>11. DashboardTypeOK'
  BY <1>1, <1>2, <1>5, <1>6, <1>10 DEF DashboardInv, DashboardTypeOK
<1>12. build'.event.id <= ids'
  <2>1. build.event.id \in Nat /\ build.event.id <= ids
    BY DEF DashboardInv, DashboardTypeOK, LogAscends, Events, Dashboard!NoEvent
  <2> QED BY <1>1, <1>2, <1>5, <2>1
<1>13. LogAscends'
  BY <1>5, <1>12 DEF LogAscends
<1> QED BY <1>3, <1>7, <1>9, <1>11, <1>13 DEF DashboardInv, k

LEMMA ReplayKeeps ==
  ASSUME DashboardInv, NEW c \in Clients, Dashboard!Replay(c)
  PROVE  DashboardInv' /\ client'[c].last = client[c].last
<1> DEFINE k == client[c]
           answer == Dashboard!ReplayAfter(k.last)
           full == [k.full EXCEPT !.content = IF answer.full THEN content ELSE 0]
           r == [k EXCEPT !.pc = IF answer.full THEN "building" ELSE "on",
                          !.replay = answer.events, !.full = full]
<1>1. /\ k \in Connections /\ NumbersAreTaken(k, ids) /\ ReplayAdvances(k)
      /\ k.pc = "asking" /\ k.last \in Nat /\ content \in Nat
      /\ k.full \in [id : Nat, version : Nat, content : Nat]
  BY DEF DashboardInv, DashboardTypeOK, Dashboard!Replay, Connections
<1>2. /\ client' = [client EXCEPT ![c] = r] /\ client'[c] = r
      /\ UNCHANGED <<content, log, ids, version, build, restarts>>
  BY <1>1 DEF Dashboard!Replay, Dashboard!logVars, DashboardInv, DashboardTypeOK, Connections
<1> HIDE DEF k
<1>3. answer.events \in Seq(Events) /\ Ascends(answer.events) /\ answer.full \in BOOLEAN
  BY <1>1, ReplayIsInOrder
<1>4. answer.full => answer.events = <<>>
  BY DEF Dashboard!ReplayAfter
<1> HIDE DEF answer
<1>5. full \in [id : Nat, version : Nat, content : Nat] /\ full.id = k.full.id
  BY <1>1
<1> HIDE DEF full
<1>6. /\ r \in Connections /\ r.pc = IF answer.full THEN "building" ELSE "on"
      /\ r.replay = answer.events /\ r.queue = k.queue /\ r.full = full
      /\ r.delivered = k.delivered /\ r.last = k.last
  BY <1>1, <1>3, <1>5 DEF Connections
<1> HIDE DEF r
<1>7. \A i \in 1..Len(answer.events) : answer.events[i].id > 0
  BY <1>3, EventsAreNumbered
<1>8. NumbersAreTaken(r, ids) /\ ReplayAdvances(r)
  BY <1>1, <1>3, <1>4, <1>5, <1>6, <1>7 DEF NumbersAreTaken, ReplayAdvances
<1>9. DashboardInv'
  BY <1>2, <1>6, <1>8, OneMoves
<1> QED BY <1>2, <1>6, <1>9 DEF k

\* A client connects, goes on without a snapshot or leaves.
LEMMA ClientKeeps ==
  ASSUME DashboardInv, NEW c \in Clients,
         Dashboard!Connect(c) \/ Dashboard!BuildFails(c) \/ Dashboard!Disconnect(c)
  PROVE  DashboardInv' /\ client'[c].last = client[c].last
<1> DEFINE k == client[c]
<1>1. /\ k \in Connections /\ NumbersAreTaken(k, ids) /\ ReplayAdvances(k) /\ ids \in Nat
  BY DEF DashboardInv, DashboardTypeOK
<1>2. UNCHANGED <<content, log, ids, version, build, restarts>>
  BY DEF Dashboard!Connect, Dashboard!BuildFails, Dashboard!Disconnect, Dashboard!logVars
<1>3. PICK r \in Connections :
        /\ client' = [client EXCEPT ![c] = r]
        /\ NumbersAreTaken(r, ids) /\ ReplayAdvances(r) /\ r.last = k.last
  <2>1. CASE Dashboard!Connect(c)
    <3> DEFINE r == [k EXCEPT !.pc = "asking", !.delivered = 0]
    <3>1. client' = [client EXCEPT ![c] = r] /\ k.pc = "off"
      BY <2>1 DEF Dashboard!Connect
    <3> HIDE DEF k
    <3>2. /\ r \in Connections /\ r.pc = "asking" /\ r.queue = k.queue /\ r.full = k.full
          /\ r.replay = k.replay /\ r.delivered = 0 /\ r.last = k.last
      BY <1>1 DEF Connections
    <3> HIDE DEF r
    <3>3. NumbersAreTaken(r, ids) /\ ReplayAdvances(r)
      BY <1>1, <3>1, <3>2 DEF NumbersAreTaken, ReplayAdvances
    <3> QED BY <3>1, <3>2, <3>3 DEF k
  <2>2. CASE Dashboard!BuildFails(c)
    <3> DEFINE r == [k EXCEPT !.pc = "on", !.full = Dashboard!NoEvent]
    <3>1. client' = [client EXCEPT ![c] = r] /\ k.pc = "building"
      BY <2>2 DEF Dashboard!BuildFails
    <3> HIDE DEF k
    <3>2. /\ r \in Connections /\ r.pc = "on" /\ r.queue = k.queue /\ r.full.id = 0
          /\ r.replay = k.replay /\ r.delivered = k.delivered /\ r.last = k.last
      BY <1>1 DEF Connections, Dashboard!NoEvent
    <3> HIDE DEF r
    <3>3. NumbersAreTaken(r, ids) /\ ReplayAdvances(r)
      BY <1>1, <3>1, <3>2 DEF NumbersAreTaken, ReplayAdvances
    <3> QED BY <3>1, <3>2, <3>3 DEF k
  <2>3. CASE Dashboard!Disconnect(c)
    <3> DEFINE r == Dashboard!Left(c)
    <3>1. client' = [client EXCEPT ![c] = r]
      BY <2>3 DEF Dashboard!Disconnect
    <3>2. r.last = k.last
      BY DEF Dashboard!Left, Dashboard!Off
    <3>3. r \in Connections /\ NumbersAreTaken(r, ids) /\ ReplayAdvances(r)
      BY <1>1, LeftIsSound
    <3> QED BY <3>1, <3>2, <3>3
  <2> QED BY <2>1, <2>2, <2>3
<1>4. DashboardInv'
  BY <1>2, <1>3, OneMoves
<1>5. client'[c] = r
  BY <1>3 DEF DashboardInv, DashboardTypeOK
<1> QED BY <1>3, <1>4, <1>5

LEMMA RestartKeeps ==
  ASSUME DashboardInv, Dashboard!Restart
  PROVE  DashboardInv' /\ \A c \in Clients : client'[c].pc = "off"
<1>1. /\ content' = content /\ log' = <<>> /\ ids' = 0 /\ version' = version + 1
      /\ build' = Dashboard!NoBuild /\ restarts' = restarts + 1
      /\ client' = [c \in Clients |-> Dashboard!Left(c)]
  BY DEF Dashboard!Restart
<1>2. \A c \in Clients : /\ client'[c] \in Connections /\ client'[c].pc = "off"
                         /\ NumbersAreTaken(client'[c], 0) /\ ReplayAdvances(client'[c])
  BY <1>1, LeftIsSound
<1>3. DashboardTypeOK'
  BY <1>1, <1>2 DEF DashboardInv, DashboardTypeOK, Dashboard!NoBuild, Dashboard!NoEvent
<1>4. LogAscends'
  BY <1>1 DEF LogAscends, Ascends, Dashboard!NoBuild, Dashboard!NoEvent
<1> QED BY <1>1, <1>2, <1>3, <1>4 DEF DashboardInv

\* What a step of StreamOnlyAdvances says.
OnlyAdvances ==
  \A c \in Clients :
    client[c].delivered # 0 /\ client'[c].pc = "on" /\ client'[c].last # client[c].last
      => client'[c].last > client[c].delivered

LEMMA DashboardStep ==
  DashboardInv /\ [Dashboard!Next]_(Dashboard!streamVars) => DashboardInv' /\ OnlyAdvances
<1> SUFFICES ASSUME DashboardInv, [Dashboard!Next]_(Dashboard!streamVars)
             PROVE  DashboardInv' /\ OnlyAdvances
  OBVIOUS
<1>1. CASE Dashboard!Change \/ Dashboard!NoHeartbeat \/ Dashboard!PublishFails
           \/ UNCHANGED Dashboard!streamVars
  BY <1>1 DEF Dashboard!Change, Dashboard!NoHeartbeat, Dashboard!PublishFails,
              Dashboard!streamVars, Dashboard!logVars, Dashboard!Done, Dashboard!NoEvent,
              DashboardInv, DashboardTypeOK, LogAscends, OnlyAdvances
<1>2. CASE Dashboard!Round \/ Dashboard!Heartbeat \/ Dashboard!Publish
  <2>1. DashboardInv'
    BY <1>2, RoundKeeps, HeartbeatKeeps, PublishKeeps
  <2>2. ASSUME NEW c \in Clients PROVE client'[c].last = client[c].last
    <3>1. client[c] \in Connections
      BY DEF DashboardInv, DashboardTypeOK
    <3>2. client' = client \/ \E e \in Events \cup {build.event} : Dashboard!Broadcast(e)
      BY <1>2, NumberedNext DEF Dashboard!Round, Dashboard!Heartbeat, Dashboard!Publish,
                                DashboardInv, DashboardTypeOK
    <3>3. ASSUME NEW e, Dashboard!Broadcast(e) PROVE client'[c].last = client[c].last
      BY <3>1, <3>3 DEF Dashboard!Broadcast, Connections
    <3> QED BY <3>2, <3>3
  <2> QED BY <2>1, <2>2 DEF OnlyAdvances
<1>3. CASE Dashboard!Restart
  BY <1>3, RestartKeeps DEF OnlyAdvances
<1>4. ASSUME NEW c \in Clients,
             Dashboard!Connect(c) \/ Dashboard!Serve(c) \/ Dashboard!Disconnect(c)
      PROVE  DashboardInv' /\ OnlyAdvances
  <2>1. CASE Dashboard!BuildFull(c)
    BY <2>1, BuildFullKeeps DEF OnlyAdvances
  <2>2. CASE ~Dashboard!BuildFull(c)
    <3>1. /\ DashboardInv'
          /\ client'[c].last = client[c].last \/ client'[c].last > client[c].delivered
      BY <1>4, <2>2, ClientKeeps, ReplayKeeps, DrainKeeps, SendReplayedKeeps, SendQueuedKeeps
         DEF Dashboard!Serve
    <3>2. \A d \in Clients \ {c} : client'[d] = client[d]
      BY <1>4, <2>2 DEF Dashboard!Connect, Dashboard!Disconnect, Dashboard!Serve,
                  Dashboard!Replay, Dashboard!BuildFails, Dashboard!Drain,
                  Dashboard!SendReplayed, Dashboard!SendQueued, DashboardInv, DashboardTypeOK
    <3> QED BY <3>1, <3>2 DEF OnlyAdvances
  <2> QED BY <2>1, <2>2
<1> QED BY <1>1, <1>2, <1>3, <1>4 DEF Dashboard!Next

-----------------------------------------------------------------------------
(***************************************************************************)
(* The specification of the run: each component starts as its own Init     *)
(* says, and each step is one of its own or leaves it alone.               *)
(***************************************************************************)

LEMMA EvidenceMove == [Next]_vars => [Evidence!Next]_(Evidence!vars)
  BY DEF Next, InEvidence, InStreams, InDirect, InDashboard, InShadow, InSettings,
         vars, evidenceVars, Evidence!vars, Evidence!poolVars

LEMMA StreamsMove == [Next]_vars => [Streams!Next]_(Streams!vars)
  BY DEF Next, InEvidence, InStreams, InDirect, InDashboard, InShadow, InSettings,
         vars, streamVars, Streams!vars, Streams!taskVars, Streams!exchangeVars

LEMMA DirectMove == [Next]_vars => [Direct!Next]_(Direct!directVars)
  BY DEF Next, InEvidence, InStreams, InDirect, InDashboard, InShadow, InSettings,
         vars, directVars, Direct!directVars

LEMMA DashboardMove == [Next]_vars => [Dashboard!Next]_(Dashboard!streamVars)
  BY DEF Next, InEvidence, InStreams, InDirect, InDashboard, InShadow, InSettings,
         vars, dashboardVars, Dashboard!streamVars, Dashboard!logVars

LEMMA SettingsMove == [Next]_vars => [Settings!Next]_(Settings!settingsVars)
  BY DEF Next, InEvidence, InStreams, InDirect, InDashboard, InShadow, InSettings,
         vars, settingsVars, Settings!settingsVars

\* An evaluation uses the newest accepted settings, or the shipped value of a field
\* that the row has lost by then, or the shipped ones after a failed read; accepted
\* settings agree with themselves, and every accepted value has its origin in the
\* history or the defaults, whatever fields are lost and whatever reads and writes
\* fail between (runtime_settings.py: current, apply).
THEOREM SettingsAreInForce == Spec => []SettingsInForce
<1>1. Init => SettingsInv
  BY SettingsInitially DEF Init
<1>2. SettingsInv /\ [Next]_vars => SettingsInv'
  BY SettingsStep, SettingsMove
<1>3. SettingsInv => SettingsInForce
  BY DEF SettingsInv, InStep, HasOrigin, Decided, SettingsInForce, Settings!SettingsInForce,
         Settings!Recorded, RecordedIn, At
<1> QED BY <1>1, <1>2, <1>3, PTL DEF Spec

\* A transport is replaced only after it was closed, and each stream opens one only
\* after the last was given up, through cancelled tasks, failed retirements and
\* demands that change at any await (ws_streamer.py: _retire_shared_evidence_generation,
\* _schedule_liquidation_exchange_retire).
THEOREM OneTransportForEach == Spec => []OneTransportEach
<1>1. Init => EvidenceInv /\ StreamsInv
  BY EvidenceInitially, StreamsInitially DEF Init
<1>2. EvidenceInv /\ StreamsInv /\ [Next]_vars => EvidenceInv' /\ StreamsInv'
  BY EvidenceStep, EvidenceMove, StreamsStep, StreamsMove
<1>3. EvidenceInv /\ StreamsInv => OneTransportEach
  BY DEF EvidenceInv, StreamsInv, OneTransportEach, Evidence!OneTransport
<1> QED BY <1>1, <1>2, <1>3, PTL DEF Spec

\* No retirement unwatches or purges the stream of a successor, and what a retired
\* stream had cached is served no more, in any order of subscriptions, cancellations
\* and waits for the lock (ws_streamer.py: _retire_direct_symbol).
THEOREM SuccessorsAreSpared == Spec => []SuccessorIsSpared
<1>1. Init => DirectInv
  BY DirectInitially DEF Init
<1>2. DirectInv /\ [Next]_vars => DirectInv'
  BY DirectStep, DirectMove
<1>3. DirectInv => SuccessorIsSpared
  BY DEF DirectInv, SuccessorIsSpared
<1> QED BY <1>1, <1>2, <1>3, PTL DEF Spec

\* In one connection the ids of the events that arrive only grow, for any number of
\* clients, any length of queues and log, and any order in which the threads number
\* and the loop broadcasts (main.py: stream_candidates; dashboard_stream.py: replay_after).
THEOREM StreamsOnlyAdvance == Spec => StreamOnlyAdvances
<1>1. Init => DashboardInv
  BY DashboardInitially DEF Init
<1>2. DashboardInv /\ [Next]_vars => DashboardInv'
  BY DashboardStep, DashboardMove
<1>3. DashboardInv /\ [Next]_vars => [OnlyAdvances]_(Dashboard!streamVars)
  BY DashboardStep, DashboardMove
<1> QED BY <1>1, <1>2, <1>3, PTL
           DEF Spec, StreamOnlyAdvances, Dashboard!StreamOnlyAdvances, OnlyAdvances
=============================================================================
