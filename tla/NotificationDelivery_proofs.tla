--------------------- MODULE NotificationDelivery_proofs ---------------------
(***************************************************************************)
(* Proofs about the notification outbox for any number of events and       *)
(* processes and any values of the timing constants.                       *)
(*                                                                         *)
(* The inductive invariant Inv adds to the properties what they rest on:   *)
(* a process that holds a claim finds the row as its claim left it, or     *)
(* settled as uncertain by a lease recovery (ClaimStands), and the count   *)
(* of acceptances and lost answers at every step of a dispatch             *)
(* (Accounting).                                                           *)
(***************************************************************************)
EXTENDS NotificationDelivery, TLAPS

\* A claim is never taken over: the row still carries the claimant's attempt
\* and either its lease or the mark of an expired one.
ClaimStands ==
  \A p \in Procs : pc[p] \in Holding =>
    /\ event[p] \in Events
    /\ attempt[p] = row[event[p]].attempts
    /\ row[event[p]].status \in {"SENDING", "DELIVERY_UNCERTAIN"}

\* What the acceptances of a row that may still be claimed amount to.
OpenAccounting ==
  \A e \in Events : row[e].status \in Waiting \cup {"ABSENT"} =>
    /\ row[e].attempts < MaxAttempts
    /\ accepted[e] <= ambiguous[e]

\* The same during a dispatch: before the post this attempt has not been
\* accepted; an answer that leads to a retry leaves no acceptance unreported.
ClaimAccounting ==
  \A p \in Procs :
    /\ pc[p] \in {"check", "advise", "post"} =>
         /\ accepted[event[p]] <= ambiguous[event[p]]
         /\ accepted[event[p]] < row[event[p]].attempts
    /\ pc[p] = "answer" => accepted[event[p]] > 0
    /\ pc[p] = "complete" =>
         /\ result[p] \in Disposition
         /\ result[p] \in {"TRANSIENT", "RATE_LIMITED"} =>
              accepted[event[p]] <= ambiguous[event[p]]
         /\ result[p] = "DELIVERED" =>
              (accepted[event[p]] > 0 \/ suppressed[event[p]])

AcceptedBound == \A e \in Events : accepted[e] <= row[e].attempts

Inv ==
  /\ TypeOK
  /\ ClaimStands
  /\ SingleSender
  /\ OpenAccounting
  /\ ClaimAccounting
  /\ AcceptedBound
  /\ RepeatOnlyAfterLostAnswer
  /\ DeliveredIsKnown
\* A new row is open, unattempted and unaccepted.
LEMMA EnqueueStep ==
  ASSUME Inv, NEW e \in Events, Enqueue(e)
  PROVE  Inv'
<1>1. PICK d \in EvalDelays :
        row' = [row EXCEPT ![e].status = "PENDING", ![e].due = 0 - d, ![e].age = d]
  BY DEF Enqueue
<1>2. d \in 0 .. Horizon /\ 0 - d \in Distance
  BY ConstantsAssumption DEF Distance
<1>3. row[e] \in Row /\ row[e].status = "ABSENT"
  BY DEF Inv, TypeOK, Enqueue
<1>51. /\ row'[e] = [row[e] EXCEPT !.status = "PENDING", !.due = 0 - d, !.age = d]
       /\ DOMAIN row' = Events
       /\ \A f \in Events : f # e => row'[f] = row[f]
  BY <1>1 DEF Inv, TypeOK
<1>52. row'[e] = [status |-> "PENDING", attempts |-> row[e].attempts, due |-> 0 - d,
                  lease |-> row[e].lease, owner |-> row[e].owner,
                  waited |-> row[e].waited, age |-> d]
  BY <1>3, <1>51 DEF Row
<1>53. row'[e] \in Row /\ row'[e].status = "PENDING" /\ row'[e].attempts = row[e].attempts
  BY <1>2, <1>3, <1>52 DEF Row, Status, Waiting
<1>4. TypeOK'
  <2>1. row' \in [Events -> Row]
    BY <1>1, <1>51, <1>53 DEF Inv, TypeOK
  <2> QED BY <2>1 DEF Inv, TypeOK, Enqueue, procVars, historyVars
<1>5. \A f \in Events : row'[f].attempts = row[f].attempts
                        /\ (f # e => row'[f] = row[f])
                        /\ row[e].status = "ABSENT" /\ row'[e].status = "PENDING"
  BY <1>3, <1>51, <1>53
<1>6. ClaimStands' /\ SingleSender'
  <2>1. UNCHANGED <<pc, event, attempt>>
    BY DEF Enqueue, procVars
  <2>2. \A p \in Procs : pc[p] \in Holding => event[p] \in Events \ {e}
    BY <1>3 DEF Inv, ClaimStands
  <2>3. ClaimStands'
    BY <1>5, <2>1, <2>2 DEF Inv, ClaimStands
  <2> QED BY <2>1, <2>3 DEF Inv, SingleSender
<1>7. OpenAccounting' /\ ClaimAccounting' /\ AcceptedBound'
  BY <1>5 DEF Inv, ClaimStands, OpenAccounting, ClaimAccounting, AcceptedBound,
              Holding, Waiting, Enqueue, procVars, historyVars
<1>8. RepeatOnlyAfterLostAnswer' /\ DeliveredIsKnown'
  BY <1>5 DEF Inv, RepeatOnlyAfterLostAnswer, DeliveredIsKnown, Enqueue, historyVars
<1> QED BY <1>4, <1>6, <1>7, <1>8 DEF Inv

\* Time moves distances only, and keeps them within Horizon.
LEMMA TickStep ==
  ASSUME Inv, Tick
  PROVE  Inv'
<1>1. \A e \in Events : /\ row'[e] \in Row
                        /\ row'[e].status = row[e].status
                        /\ row'[e].attempts = row[e].attempts
  <2> SUFFICES ASSUME NEW e \in Events
               PROVE  /\ row'[e] \in Row
                      /\ row'[e].status = row[e].status
                      /\ row'[e].attempts = row[e].attempts
    OBVIOUS
  <2>1. row[e] \in Row
    BY DEF Inv, TypeOK
  <2>2. CASE row[e].status \in Final \cup {"ABSENT"}
    BY <2>1, <2>2 DEF Tick
  <2>3. CASE row[e].status \notin Final \cup {"ABSENT"}
    <3>1. row'[e] = [row[e] EXCEPT !.due = MaxOf(0 - Horizon, @ - 1),
                                   !.lease = MaxOf(0 - Horizon, @ - 1),
                                   !.waited = MinOf(Horizon, @ + 1),
                                   !.age = MinOf(Horizon, @ + 1)]
      BY <2>3 DEF Tick
    <3>2. /\ MaxOf(0 - Horizon, row[e].due - 1) \in Distance
          /\ MaxOf(0 - Horizon, row[e].lease - 1) \in Distance
          /\ MinOf(Horizon, row[e].waited + 1) \in 0 .. Horizon
          /\ MinOf(Horizon, row[e].age + 1) \in 0 .. Horizon
      BY <2>1, ConstantsAssumption DEF Row, Distance, MaxOf, MinOf
    <3> QED BY <2>1, <3>1, <3>2 DEF Row
  <2> QED BY <2>2, <2>3
<1>2. row' \in [Events -> Row]
  BY <1>1 DEF Tick
<1>3. lag' \in [Procs -> 0 .. MaxLag]
  <2> SUFFICES ASSUME NEW p \in Procs
               PROVE  (IF pc[p] = "idle" THEN 0 ELSE lag[p] + 1) \in 0 .. MaxLag
    BY DEF Tick
  <2>1. lag[p] \in 0 .. MaxLag /\ (pc[p] # "idle" => lag[p] < MaxLag)
    BY DEF Inv, TypeOK, Tick
  <2> QED BY <2>1, ConstantsAssumption
<1>4. TypeOK'
  BY <1>2, <1>3 DEF Inv, TypeOK, Tick, historyVars
<1>5. UNCHANGED <<pc, event, attempt, result, accepted, ambiguous, suppressed>>
  BY DEF Tick, historyVars
<1>6. ClaimStands' /\ SingleSender'
  BY <1>1, <1>5 DEF Inv, ClaimStands, SingleSender
<1>7. OpenAccounting' /\ AcceptedBound'
  BY <1>1, <1>5 DEF Inv, OpenAccounting, AcceptedBound
<1>8. ClaimAccounting'
  BY <1>1, <1>5 DEF Inv, ClaimStands, ClaimAccounting, Holding
<1>9. RepeatOnlyAfterLostAnswer' /\ DeliveredIsKnown'
  BY <1>1, <1>5 DEF Inv, RepeatOnlyAfterLostAnswer, DeliveredIsKnown
<1> QED BY <1>4, <1>6, <1>7, <1>8, <1>9 DEF Inv

\* An expired lease turns SENDING into DELIVERY_UNCERTAIN and keeps the attempt
\* number, so the claim it belonged to still stands.
LEMMA RecoverStep ==
  ASSUME Inv, NEW p \in Procs, Recover(p)
  PROVE  Inv'
<1>1. \A e \in Events :
        /\ row'[e] \in Row
        /\ row'[e].attempts = row[e].attempts
        /\ \/ row'[e].status = row[e].status
           \/ row[e].status = "SENDING" /\ row'[e].status = "DELIVERY_UNCERTAIN"
  <2> SUFFICES ASSUME NEW e \in Events
               PROVE  /\ row'[e] \in Row
                      /\ row'[e].attempts = row[e].attempts
                      /\ \/ row'[e].status = row[e].status
                         \/ /\ row[e].status = "SENDING"
                            /\ row'[e].status = "DELIVERY_UNCERTAIN"
    OBVIOUS
  <2>1. row[e] \in Row
    BY DEF Inv, TypeOK
  <2>2. CASE Expired(e, p)
    <3>1. row'[e] = [row[e] EXCEPT !.status = "DELIVERY_UNCERTAIN", !.lease = 0,
                                   !.owner = Nothing]
      BY <2>2 DEF Recover
    <3>2. 0 \in Distance
      BY ConstantsAssumption DEF Distance
    <3> QED BY <2>1, <2>2, <3>1, <3>2 DEF Row, Status, Final, Expired
  <2>3. CASE ~Expired(e, p)
    BY <2>1, <2>3 DEF Recover
  <2> QED BY <2>2, <2>3
<1>2. row' \in [Events -> Row]
  BY <1>1 DEF Recover
<1>3. TypeOK'
  BY <1>2 DEF Inv, TypeOK, Recover, Goto, Steps, historyVars
<1>4. /\ pc' = [pc EXCEPT ![p] = "grace"]
      /\ UNCHANGED <<event, attempt, result, accepted, ambiguous, suppressed>>
  BY DEF Recover, Goto, historyVars
<1>5. ClaimStands' /\ SingleSender'
  BY <1>1, <1>4 DEF Inv, TypeOK, ClaimStands, SingleSender, Holding
<1>6. OpenAccounting' /\ ClaimAccounting' /\ AcceptedBound'
  BY <1>1, <1>4 DEF Inv, TypeOK, ClaimStands, OpenAccounting, ClaimAccounting,
                    AcceptedBound, Holding, Waiting
<1>7. RepeatOnlyAfterLostAnswer' /\ DeliveredIsKnown'
  BY <1>1, <1>4 DEF Inv, RepeatOnlyAfterLostAnswer, DeliveredIsKnown
<1> QED BY <1>3, <1>5, <1>6, <1>7 DEF Inv

\* A waiting row is in nobody's hands, so its claimant is its only sender.
LEMMA ClaimStep ==
  ASSUME Inv, NEW p \in Procs, Claim(p)
  PROVE  Inv'
<1>1. PICK e \in Oldest(Claimable(p)) :
        /\ row' = [row EXCEPT ![e].status = "SENDING", ![e].attempts = @ + 1,
                                 ![e].owner = WorkerId[p],
                                 ![e].lease = Lease - lag[p]]
        /\ event' = [event EXCEPT ![p] = e]
        /\ attempt' = [attempt EXCEPT ![p] = row[e].attempts + 1]
        /\ late' = [late EXCEPT ![p] = superseded[e]]
  BY DEF Claim
<1>2. e \in Events /\ row[e].status \in Waiting
  BY DEF Oldest, Claimable, Due
<1>3. row[e] \in Row /\ row[e].attempts < MaxAttempts
  BY <1>2 DEF Inv, TypeOK, OpenAccounting
<1>4. /\ row[e].attempts + 1 \in 0 .. MaxAttempts
      /\ Lease - lag[p] \in Distance
  BY <1>3, ConstantsAssumption DEF Inv, TypeOK, Row, Distance
<1>5. /\ row'[e] \in Row
      /\ row'[e].status = "SENDING"
      /\ row'[e].attempts = row[e].attempts + 1
      /\ \A f \in Events : f # e => row'[f] = row[f]
  <2>1. row'[e] = [row[e] EXCEPT !.status = "SENDING",
                                 !.attempts = row[e].attempts + 1,
                                 !.owner = WorkerId[p], !.lease = Lease - lag[p]]
    <3>1. row \in [Events -> Row]
      BY DEF Inv, TypeOK
    <3> QED BY <1>1, <1>2, <3>1
  <2>2. row'[e] \in Row
    <3>1. WorkerId[p] \in {WorkerId[q] : q \in Procs} \cup {Nothing}
      OBVIOUS
    <3>2. "SENDING" \in Status
      BY DEF Status
    <3> HIDE DEF Status
    <3> QED BY <1>3, <1>4, <2>1, <3>1, <3>2 DEF Row
  <2>3. row'[e].status = "SENDING" /\ row'[e].attempts = row[e].attempts + 1
    BY <1>3, <2>1 DEF Row
  <2>4. \A f \in Events : f # e => row'[f] = row[f]
    BY <1>1 DEF Inv, TypeOK
  <2> QED BY <2>2, <2>3, <2>4
<1>6. TypeOK'
  BY <1>1, <1>2, <1>4, <1>5 DEF Inv, TypeOK, Claim, Goto, Steps
<1>7. /\ pc' = [pc EXCEPT ![p] = "check"]
      /\ UNCHANGED <<result, accepted, ambiguous, suppressed>>
  BY DEF Claim, Goto
<1>8. \A q \in Procs : pc[q] \in Holding => event[q] # e
  BY <1>2 DEF Inv, ClaimStands, Waiting
<1>9. ClaimStands'
  BY <1>1, <1>2, <1>5, <1>7, <1>8 DEF Inv, TypeOK, ClaimStands, Holding
<1>10. SingleSender'
  BY <1>1, <1>2, <1>7, <1>8 DEF Inv, TypeOK, SingleSender, Holding
<1>11. OpenAccounting' /\ AcceptedBound'
  <2>1. OpenAccounting'
    BY <1>5, <1>7 DEF Inv, OpenAccounting, Waiting
  <2>2. AcceptedBound'
    BY <1>3, <1>5, <1>7 DEF Inv, TypeOK, AcceptedBound, Row
  <2> QED BY <2>1, <2>2
<1>12. accepted[e] <= ambiguous[e] /\ accepted[e] < row'[e].attempts
  BY <1>2, <1>3, <1>5 DEF Inv, TypeOK, OpenAccounting, AcceptedBound, Row
<1>13. ClaimAccounting'
  BY <1>1, <1>2, <1>5, <1>7, <1>8, <1>12
     DEF Inv, TypeOK, ClaimStands, ClaimAccounting, Holding, Row
<1>14. RepeatOnlyAfterLostAnswer' /\ DeliveredIsKnown'
  BY <1>2, <1>5, <1>7 DEF Inv, RepeatOnlyAfterLostAnswer, DeliveredIsKnown
<1> QED BY <1>6, <1>9, <1>10, <1>11, <1>13, <1>14 DEF Inv

\* What the retry rules promise: a retry is only scheduled with an attempt left
\* and after an answer that left no acceptance unreported, within the cap.
LEMMA RetryRules ==
  ASSUME NEW r \in Disposition, NEW n \in 0 .. MaxAttempts
  PROVE  /\ NextStatus(r, n) \in Final \cup {"RETRY_WAIT"}
         /\ NextStatus(r, n) = "RETRY_WAIT" =>
              n < MaxAttempts /\ r \in {"TRANSIENT", "RATE_LIMITED"}
         /\ NextStatus(r, n) = "DELIVERED" => r = "DELIVERED"
         /\ Delays(NextStatus(r, n), r, n) \subseteq 0 .. 2 * MaxBackoff
<1>1. /\ NextStatus(r, n) \in Final \cup {"RETRY_WAIT"}
      /\ NextStatus(r, n) = "RETRY_WAIT" =>
           n < MaxAttempts /\ r \in {"TRANSIENT", "RATE_LIMITED"}
      /\ NextStatus(r, n) = "DELIVERED" => r = "DELIVERED"
  BY ConstantsAssumption DEF NextStatus, Exhausted, Disposition, Final
<1>2. \A s \in RetryAfter : RateLimitDelay(s) \in 0 .. 2 * MaxBackoff
  BY ConstantsAssumption DEF RateLimitDelay, MinOf, MaxOf
<1>3. Backoff(n) \subseteq 0 .. 2 * MaxBackoff
  BY ConstantsAssumption DEF Backoff
<1>4. 0 \in 0 .. 2 * MaxBackoff
  BY ConstantsAssumption
<1>5. Delays(NextStatus(r, n), r, n) \subseteq 0 .. 2 * MaxBackoff
  BY <1>2, <1>3, <1>4 DEF Delays
<1> QED BY <1>1, <1>5

\* The outcome is written only while the claim stands.
LEMMA CompleteStep ==
  ASSUME Inv, NEW p \in Procs, Complete(p)
  PROVE  Inv'
<1> DEFINE e == event[p]
           status == NextStatus(result[p], attempt[p])
<1>1. PICK d \in Delays(status, result[p], attempt[p]) :
        row' = [row EXCEPT ![e].status = status, ![e].due = d - lag[p],
                           ![e].lease = 0, ![e].owner = Nothing]
  BY DEF Complete
<1>2. /\ pc[p] = "complete" /\ e \in Events /\ attempt[p] = row[e].attempts
      /\ row[e] \in Row /\ result[p] \in Disposition
      /\ attempt[p] \in 0 .. MaxAttempts /\ lag[p] \in 0 .. MaxLag
  BY DEF Complete, Inv, TypeOK, ClaimStands, ClaimAccounting, Holding
<1>3. /\ status \in Final \cup {"RETRY_WAIT"}
      /\ status = "RETRY_WAIT" =>
           attempt[p] < MaxAttempts /\ result[p] \in {"TRANSIENT", "RATE_LIMITED"}
      /\ status = "DELIVERED" => result[p] = "DELIVERED"
      /\ d \in 0 .. 2 * MaxBackoff
  BY <1>2, RetryRules
<1>4. d - lag[p] \in Distance /\ 0 \in Distance
  BY <1>2, <1>3, ConstantsAssumption DEF Distance
<1> HIDE DEF status
<1>5. /\ row'[e] \in Row
      /\ row'[e].status = status
      /\ row'[e].attempts = row[e].attempts
      /\ \A f \in Events : f # e => row'[f] = row[f]
  BY <1>1, <1>2, <1>3, <1>4 DEF Row, Status, Final, Waiting, Inv, TypeOK
<1>6. /\ pc' = [pc EXCEPT ![p] = "idle"]
      /\ event' = [event EXCEPT ![p] = Nothing]
      /\ attempt' = [attempt EXCEPT ![p] = 0]
      /\ result' = [result EXCEPT ![p] = Nothing]
      /\ UNCHANGED <<accepted, ambiguous, suppressed>>
  BY DEF Complete, GoIdle
<1>7. TypeOK'
  BY <1>1, <1>2, <1>5, ConstantsAssumption
     DEF Inv, TypeOK, Complete, GoIdle, Steps, Nothing
<1>8. ClaimStands' /\ SingleSender'
  BY <1>2, <1>5, <1>6 DEF Inv, TypeOK, ClaimStands, SingleSender, Holding
<1>9. /\ status = "RETRY_WAIT" => accepted[e] <= ambiguous[e]
      /\ status = "DELIVERED" => (accepted[e] > 0 \/ suppressed[e])
  BY <1>2, <1>3 DEF Inv, ClaimAccounting
<1>10. OpenAccounting' /\ AcceptedBound'
  BY <1>2, <1>3, <1>5, <1>6, <1>9
     DEF Inv, OpenAccounting, AcceptedBound, Waiting, Final
<1>11. ClaimAccounting'
  BY <1>2, <1>5, <1>6 DEF Inv, TypeOK, ClaimStands, SingleSender, ClaimAccounting, Holding
<1>12. RepeatOnlyAfterLostAnswer' /\ DeliveredIsKnown'
  BY <1>5, <1>6, <1>9 DEF Inv, RepeatOnlyAfterLostAnswer, DeliveredIsKnown
<1> QED BY <1>7, <1>8, <1>10, <1>11, <1>12 DEF Inv

\* The advisory table is not part of any count.
LEMMA StoreAdvisoryStep ==
  ASSUME Inv, NEW e \in Events, StoreAdvisory(e)
  PROVE  Inv'
<1>1. TypeOK'
  BY ConstantsAssumption DEF Inv, TypeOK, Nothing, StoreAdvisory, procVars, historyVars
<1>2. ClaimStands' /\ SingleSender'
  BY DEF Inv, TypeOK, ClaimStands, SingleSender, Holding, StoreAdvisory, procVars, historyVars
<1>3. OpenAccounting' /\ ClaimAccounting' /\ AcceptedBound'
  BY DEF Inv, TypeOK, ClaimStands, SingleSender, OpenAccounting, ClaimAccounting,
         AcceptedBound, Holding, Waiting, Row, StoreAdvisory, procVars, historyVars, Disposition
<1>4. RepeatOnlyAfterLostAnswer' /\ DeliveredIsKnown'
  BY DEF Inv, TypeOK, ClaimStands, ClaimAccounting, RepeatOnlyAfterLostAnswer,
         DeliveredIsKnown, Holding, Row, StoreAdvisory, procVars, historyVars
<1> QED BY <1>1, <1>2, <1>3, <1>4 DEF Inv

\* A newer decision changes what a later check sees, nothing that is recorded.
LEMMA SupersedeStep ==
  ASSUME Inv, NEW e \in Events, Supersede(e)
  PROVE  Inv'
<1>1. TypeOK'
  BY ConstantsAssumption DEF Inv, TypeOK, Nothing, Supersede, procVars, historyVars
<1>2. ClaimStands' /\ SingleSender'
  BY DEF Inv, TypeOK, ClaimStands, SingleSender, Holding, Supersede, procVars, historyVars
<1>3. OpenAccounting' /\ ClaimAccounting' /\ AcceptedBound'
  BY DEF Inv, TypeOK, ClaimStands, SingleSender, OpenAccounting, ClaimAccounting,
         AcceptedBound, Holding, Waiting, Row, Supersede, procVars, historyVars, Disposition
<1>4. RepeatOnlyAfterLostAnswer' /\ DeliveredIsKnown'
  BY DEF Inv, TypeOK, ClaimStands, ClaimAccounting, RepeatOnlyAfterLostAnswer,
         DeliveredIsKnown, Holding, Row, Supersede, procVars, historyVars
<1> QED BY <1>1, <1>2, <1>3, <1>4 DEF Inv

LEMMA BeginStep ==
  ASSUME Inv, NEW p \in Procs, Begin(p)
  PROVE  Inv'
<1>1. TypeOK'
  BY ConstantsAssumption DEF Inv, TypeOK, Nothing, Begin, outboxVars, historyVars, Goto, Steps
<1>2. ClaimStands' /\ SingleSender'
  BY DEF Inv, TypeOK, ClaimStands, SingleSender, Holding, Begin, outboxVars, historyVars, Goto, Steps
<1>3. OpenAccounting' /\ ClaimAccounting' /\ AcceptedBound'
  BY DEF Inv, TypeOK, ClaimStands, SingleSender, OpenAccounting, ClaimAccounting,
         AcceptedBound, Holding, Waiting, Row, Begin, outboxVars, historyVars, Goto, Steps, Disposition
<1>4. RepeatOnlyAfterLostAnswer' /\ DeliveredIsKnown'
  BY DEF Inv, TypeOK, ClaimStands, ClaimAccounting, RepeatOnlyAfterLostAnswer,
         DeliveredIsKnown, Holding, Row, Begin, outboxVars, historyVars, Goto, Steps
<1> QED BY <1>1, <1>2, <1>3, <1>4 DEF Inv

LEMMA GraceStepStep ==
  ASSUME Inv, NEW p \in Procs, GraceStep(p)
  PROVE  Inv'
<1>1. TypeOK'
  BY ConstantsAssumption DEF Inv, TypeOK, Nothing, GraceStep, historyVars, Goto, Steps
<1>2. ClaimStands' /\ SingleSender'
  BY DEF Inv, TypeOK, ClaimStands, SingleSender, Holding, GraceStep, historyVars, Goto, Steps
<1>3. OpenAccounting' /\ ClaimAccounting' /\ AcceptedBound'
  BY DEF Inv, TypeOK, ClaimStands, SingleSender, OpenAccounting, ClaimAccounting,
         AcceptedBound, Holding, Waiting, Row, GraceStep, historyVars, Goto, Steps, Disposition
<1>4. RepeatOnlyAfterLostAnswer' /\ DeliveredIsKnown'
  BY DEF Inv, TypeOK, ClaimStands, ClaimAccounting, RepeatOnlyAfterLostAnswer,
         DeliveredIsKnown, Holding, Row, GraceStep, historyVars, Goto, Steps
<1> QED BY <1>1, <1>2, <1>3, <1>4 DEF Inv

LEMMA NothingDueStep ==
  ASSUME Inv, NEW p \in Procs, NothingDue(p)
  PROVE  Inv'
<1>1. TypeOK'
  BY ConstantsAssumption DEF Inv, TypeOK, Nothing, NothingDue, outboxVars, GoIdle, Steps
<1>2. ClaimStands' /\ SingleSender'
  BY DEF Inv, TypeOK, ClaimStands, SingleSender, Holding, NothingDue, outboxVars, GoIdle, Steps
<1>3. OpenAccounting' /\ ClaimAccounting' /\ AcceptedBound'
  BY DEF Inv, TypeOK, ClaimStands, SingleSender, OpenAccounting, ClaimAccounting,
         AcceptedBound, Holding, Waiting, Row, NothingDue, outboxVars, GoIdle, Steps, Disposition
<1>4. RepeatOnlyAfterLostAnswer' /\ DeliveredIsKnown'
  BY DEF Inv, TypeOK, ClaimStands, ClaimAccounting, RepeatOnlyAfterLostAnswer,
         DeliveredIsKnown, Holding, Row, NothingDue, outboxVars, GoIdle, Steps
<1> QED BY <1>1, <1>2, <1>3, <1>4 DEF Inv

LEMMA SuppressStep ==
  ASSUME Inv, NEW p \in Procs, Suppress(p)
  PROVE  Inv'
<1>1. TypeOK'
  BY ConstantsAssumption DEF Inv, TypeOK, Nothing, Suppress, outboxVars, Answered, Goto, Steps, Disposition
<1>2. ClaimStands' /\ SingleSender'
  BY DEF Inv, TypeOK, ClaimStands, SingleSender, Holding, Suppress, outboxVars, Answered, Goto, Steps, Disposition
<1>3. OpenAccounting' /\ ClaimAccounting' /\ AcceptedBound'
  BY DEF Inv, TypeOK, ClaimStands, SingleSender, OpenAccounting, ClaimAccounting,
         AcceptedBound, Holding, Waiting, Row, Suppress, outboxVars, Answered, Goto, Steps, Disposition
<1>4. RepeatOnlyAfterLostAnswer' /\ DeliveredIsKnown'
  BY DEF Inv, TypeOK, ClaimStands, ClaimAccounting, RepeatOnlyAfterLostAnswer,
         DeliveredIsKnown, Holding, Row, Suppress, outboxVars, Answered, Goto, Steps, Disposition
<1> QED BY <1>1, <1>2, <1>3, <1>4 DEF Inv

LEMMA DeliverableStep ==
  ASSUME Inv, NEW p \in Procs, Deliverable(p)
  PROVE  Inv'
<1>1. TypeOK'
  BY ConstantsAssumption DEF Inv, TypeOK, Nothing, Deliverable, outboxVars, historyVars, Goto, Steps
<1>2. ClaimStands' /\ SingleSender'
  BY DEF Inv, TypeOK, ClaimStands, SingleSender, Holding, Deliverable, outboxVars, historyVars, Goto, Steps
<1>3. OpenAccounting' /\ ClaimAccounting' /\ AcceptedBound'
  BY DEF Inv, TypeOK, ClaimStands, SingleSender, OpenAccounting, ClaimAccounting,
         AcceptedBound, Holding, Waiting, Row, Deliverable, outboxVars, historyVars, Goto, Steps, Disposition
<1>4. RepeatOnlyAfterLostAnswer' /\ DeliveredIsKnown'
  BY DEF Inv, TypeOK, ClaimStands, ClaimAccounting, RepeatOnlyAfterLostAnswer,
         DeliveredIsKnown, Holding, Row, Deliverable, outboxVars, historyVars, Goto, Steps
<1> QED BY <1>1, <1>2, <1>3, <1>4 DEF Inv

LEMMA LoadAdvisoryStep ==
  ASSUME Inv, NEW p \in Procs, LoadAdvisory(p)
  PROVE  Inv'
<1>1. TypeOK'
  BY ConstantsAssumption DEF Inv, TypeOK, Nothing, LoadAdvisory, outboxVars, historyVars, Goto, Steps
<1>2. ClaimStands' /\ SingleSender'
  BY DEF Inv, TypeOK, ClaimStands, SingleSender, Holding, LoadAdvisory, outboxVars, historyVars, Goto, Steps
<1>3. OpenAccounting' /\ ClaimAccounting' /\ AcceptedBound'
  BY DEF Inv, TypeOK, ClaimStands, SingleSender, OpenAccounting, ClaimAccounting,
         AcceptedBound, Holding, Waiting, Row, LoadAdvisory, outboxVars, historyVars, Goto, Steps, Disposition
<1>4. RepeatOnlyAfterLostAnswer' /\ DeliveredIsKnown'
  BY DEF Inv, TypeOK, ClaimStands, ClaimAccounting, RepeatOnlyAfterLostAnswer,
         DeliveredIsKnown, Holding, Row, LoadAdvisory, outboxVars, historyVars, Goto, Steps
<1> QED BY <1>1, <1>2, <1>3, <1>4 DEF Inv

LEMMA FailBeforeSendStep ==
  ASSUME Inv, NEW p \in Procs, FailBeforeSend(p)
  PROVE  Inv'
<1>1. TypeOK'
  BY ConstantsAssumption DEF Inv, TypeOK, Nothing, FailBeforeSend, outboxVars, historyVars, Answered, Goto, Steps, Disposition
<1>2. ClaimStands' /\ SingleSender'
  BY DEF Inv, TypeOK, ClaimStands, SingleSender, Holding, FailBeforeSend, outboxVars, historyVars, Answered, Goto, Steps, Disposition
<1>3. OpenAccounting' /\ ClaimAccounting' /\ AcceptedBound'
  BY DEF Inv, TypeOK, ClaimStands, SingleSender, OpenAccounting, ClaimAccounting,
         AcceptedBound, Holding, Waiting, Row, FailBeforeSend, outboxVars, historyVars, Answered, Goto, Steps, Disposition
<1>4. RepeatOnlyAfterLostAnswer' /\ DeliveredIsKnown'
  BY DEF Inv, TypeOK, ClaimStands, ClaimAccounting, RepeatOnlyAfterLostAnswer,
         DeliveredIsKnown, Holding, Row, FailBeforeSend, outboxVars, historyVars, Answered, Goto, Steps, Disposition
<1> QED BY <1>1, <1>2, <1>3, <1>4 DEF Inv

\* The one step that raises accepted: the attempt had none yet.
LEMMA PostAcceptedStep ==
  ASSUME Inv, NEW p \in Procs, PostAccepted(p)
  PROVE  Inv'
<1>1. TypeOK'
  <2>1. event[p] \in Events
    BY DEF Inv, ClaimStands, Holding, PostAccepted
  <2>2. accepted' \in [Events -> Nat]
    BY <2>1 DEF Inv, TypeOK, PostAccepted
  <2> QED BY <2>2 DEF Inv, TypeOK, Nothing, PostAccepted, outboxVars, Goto, Steps
<1>2. ClaimStands' /\ SingleSender'
  BY DEF Inv, TypeOK, ClaimStands, SingleSender, Holding, PostAccepted, outboxVars, Goto, Steps
<1>3. OpenAccounting' /\ ClaimAccounting' /\ AcceptedBound'
  BY DEF Inv, TypeOK, ClaimStands, SingleSender, OpenAccounting, ClaimAccounting,
         AcceptedBound, Holding, Waiting, Row, PostAccepted, outboxVars, Goto, Steps, Disposition
<1>4. RepeatOnlyAfterLostAnswer' /\ DeliveredIsKnown'
  BY DEF Inv, TypeOK, ClaimStands, ClaimAccounting, RepeatOnlyAfterLostAnswer,
         DeliveredIsKnown, Holding, Row, PostAccepted, outboxVars, Goto, Steps
<1> QED BY <1>1, <1>2, <1>3, <1>4 DEF Inv

\* A lost answer is counted in the step that classifies it for a retry.
LEMMA AnswerAcceptedStep ==
  ASSUME Inv, NEW p \in Procs, AnswerAccepted(p)
  PROVE  Inv'
<1>1. TypeOK'
  <2>1. event[p] \in Events
    BY DEF Inv, ClaimStands, Holding, AnswerAccepted
  <2>2. ambiguous' \in [Events -> Nat]
    BY <2>1 DEF Inv, TypeOK, AnswerAccepted
  <2> QED BY <2>2 DEF Inv, TypeOK, Nothing, AnswerAccepted, outboxVars, Answered, Goto, Steps, Disposition
<1>2. ClaimStands' /\ SingleSender'
  BY DEF Inv, TypeOK, ClaimStands, SingleSender, Holding, AnswerAccepted, outboxVars, Answered, Goto, Steps, Disposition
<1>3. OpenAccounting' /\ ClaimAccounting' /\ AcceptedBound'
  <2>1. /\ event[p] \in Events
        /\ row[event[p]].status \in {"SENDING", "DELIVERY_UNCERTAIN"}
        /\ accepted[event[p]] > 0
        /\ accepted[event[p]] <= ambiguous[event[p]] + 1
    BY DEF Inv, ClaimStands, ClaimAccounting, RepeatOnlyAfterLostAnswer, Holding,
           AnswerAccepted
  <2>2. PICK r \in {"DELIVERED", "DELIVERY_UNCERTAIN", "TRANSIENT"} :
          /\ Answered(p, r)
          /\ ambiguous' = IF r = "TRANSIENT"
                          THEN [ambiguous EXCEPT ![event[p]] = @ + 1] ELSE ambiguous
    BY DEF AnswerAccepted
  <2>3. OpenAccounting' /\ AcceptedBound'
    BY <2>1, <2>2 DEF Inv, TypeOK, OpenAccounting, AcceptedBound, Waiting, AnswerAccepted, outboxVars, Answered, Goto, Steps, Disposition
  <2>4. ClaimAccounting'
    BY <2>1, <2>2 DEF Inv, TypeOK, ClaimStands, SingleSender, ClaimAccounting,
                      Holding, Row, AnswerAccepted, outboxVars, Answered, Goto, Steps, Disposition
  <2> QED BY <2>3, <2>4
<1>4. RepeatOnlyAfterLostAnswer' /\ DeliveredIsKnown'
  BY DEF Inv, TypeOK, ClaimStands, ClaimAccounting, RepeatOnlyAfterLostAnswer,
         DeliveredIsKnown, Holding, Row, AnswerAccepted, outboxVars, Answered, Goto, Steps, Disposition
<1> QED BY <1>1, <1>2, <1>3, <1>4 DEF Inv

LEMMA PostRefusedStep ==
  ASSUME Inv, NEW p \in Procs, PostRefused(p)
  PROVE  Inv'
<1>1. TypeOK'
  BY ConstantsAssumption DEF Inv, TypeOK, Nothing, PostRefused, outboxVars, historyVars, Answered, Goto, Steps, Disposition
<1>2. ClaimStands' /\ SingleSender'
  BY DEF Inv, TypeOK, ClaimStands, SingleSender, Holding, PostRefused, outboxVars, historyVars, Answered, Goto, Steps, Disposition
<1>3. OpenAccounting' /\ ClaimAccounting' /\ AcceptedBound'
  BY DEF Inv, TypeOK, ClaimStands, SingleSender, OpenAccounting, ClaimAccounting,
         AcceptedBound, Holding, Waiting, Row, PostRefused, outboxVars, historyVars, Answered, Goto, Steps, Disposition
<1>4. RepeatOnlyAfterLostAnswer' /\ DeliveredIsKnown'
  BY DEF Inv, TypeOK, ClaimStands, ClaimAccounting, RepeatOnlyAfterLostAnswer,
         DeliveredIsKnown, Holding, Row, PostRefused, outboxVars, historyVars, Answered, Goto, Steps, Disposition
<1> QED BY <1>1, <1>2, <1>3, <1>4 DEF Inv

LEMMA TransportTimeoutStep ==
  ASSUME Inv, NEW p \in Procs, TransportTimeout(p)
  PROVE  Inv'
<1>1. TypeOK'
  BY ConstantsAssumption DEF Inv, TypeOK, Nothing, TransportTimeout, outboxVars, historyVars, Answered, Goto, Steps, Disposition
<1>2. ClaimStands' /\ SingleSender'
  BY DEF Inv, TypeOK, ClaimStands, SingleSender, Holding, TransportTimeout, outboxVars, historyVars, Answered, Goto, Steps, Disposition
<1>3. OpenAccounting' /\ ClaimAccounting' /\ AcceptedBound'
  BY DEF Inv, TypeOK, ClaimStands, SingleSender, OpenAccounting, ClaimAccounting,
         AcceptedBound, Holding, Waiting, Row, TransportTimeout, outboxVars, historyVars, Answered, Goto, Steps, Disposition
<1>4. RepeatOnlyAfterLostAnswer' /\ DeliveredIsKnown'
  BY DEF Inv, TypeOK, ClaimStands, ClaimAccounting, RepeatOnlyAfterLostAnswer,
         DeliveredIsKnown, Holding, Row, TransportTimeout, outboxVars, historyVars, Answered, Goto, Steps, Disposition
<1> QED BY <1>1, <1>2, <1>3, <1>4 DEF Inv

LEMMA CompletionRefusedStep ==
  ASSUME Inv, NEW p \in Procs, CompletionRefused(p)
  PROVE  Inv'
<1>1. TypeOK'
  BY ConstantsAssumption DEF Inv, TypeOK, Nothing, CompletionRefused, outboxVars, GoIdle, Steps
<1>2. ClaimStands' /\ SingleSender'
  BY DEF Inv, TypeOK, ClaimStands, SingleSender, Holding, CompletionRefused, outboxVars, GoIdle, Steps
<1>3. OpenAccounting' /\ ClaimAccounting' /\ AcceptedBound'
  BY DEF Inv, TypeOK, ClaimStands, SingleSender, OpenAccounting, ClaimAccounting,
         AcceptedBound, Holding, Waiting, Row, CompletionRefused, outboxVars, GoIdle, Steps, Disposition
<1>4. RepeatOnlyAfterLostAnswer' /\ DeliveredIsKnown'
  BY DEF Inv, TypeOK, ClaimStands, ClaimAccounting, RepeatOnlyAfterLostAnswer,
         DeliveredIsKnown, Holding, Row, CompletionRefused, outboxVars, GoIdle, Steps
<1> QED BY <1>1, <1>2, <1>3, <1>4 DEF Inv

\* A forgotten claim leaves its row SENDING until the lease runs out.
LEMMA AbandonStep ==
  ASSUME Inv, NEW p \in Procs, Abandon(p)
  PROVE  Inv'
<1>1. TypeOK'
  BY ConstantsAssumption DEF Inv, TypeOK, Nothing, Abandon, outboxVars, GoIdle, Steps
<1>2. ClaimStands' /\ SingleSender'
  BY DEF Inv, TypeOK, ClaimStands, SingleSender, Holding, Abandon, outboxVars, GoIdle, Steps
<1>3. OpenAccounting' /\ ClaimAccounting' /\ AcceptedBound'
  BY DEF Inv, TypeOK, ClaimStands, SingleSender, OpenAccounting, ClaimAccounting,
         AcceptedBound, Holding, Waiting, Row, Abandon, outboxVars, GoIdle, Steps, Disposition
<1>4. RepeatOnlyAfterLostAnswer' /\ DeliveredIsKnown'
  BY DEF Inv, TypeOK, ClaimStands, ClaimAccounting, RepeatOnlyAfterLostAnswer,
         DeliveredIsKnown, Holding, Row, Abandon, outboxVars, GoIdle, Steps
<1> QED BY <1>1, <1>2, <1>3, <1>4 DEF Inv

LEMMA Initially ==
  ASSUME Init
  PROVE  Inv
<1>1. TypeOK
  BY ConstantsAssumption DEF Init, TypeOK, Row, Status, Steps, Distance
<1>2. ClaimStands /\ SingleSender /\ ClaimAccounting
  BY DEF Init, ClaimStands, SingleSender, ClaimAccounting, Holding
<1>3. OpenAccounting /\ AcceptedBound /\ RepeatOnlyAfterLostAnswer /\ DeliveredIsKnown
  BY ConstantsAssumption
     DEF Init, OpenAccounting, AcceptedBound, RepeatOnlyAfterLostAnswer, DeliveredIsKnown
<1> QED BY <1>1, <1>2, <1>3 DEF Inv

LEMMA Stuttering ==
  ASSUME Inv, UNCHANGED vars
  PROVE  Inv'
BY DEF Inv, TypeOK, ClaimStands, SingleSender, OpenAccounting, ClaimAccounting,
       AcceptedBound, RepeatOnlyAfterLostAnswer, DeliveredIsKnown, vars,
       outboxVars, procVars, historyVars

LEMMA Inductive ==
  ASSUME Inv, [Next]_vars
  PROVE  Inv'
<1>1. ASSUME NEW e \in Events, Enqueue(e) \/ StoreAdvisory(e) \/ Supersede(e)
      PROVE  Inv'
  BY <1>1, EnqueueStep, StoreAdvisoryStep, SupersedeStep
<1>2. CASE Tick
  BY <1>2, TickStep
<1>3. ASSUME NEW p \in Procs, Work(p)
      PROVE  Inv'
  <2>1. CASE Begin(p) \/ Recover(p) \/ GraceStep(p) \/ Claim(p) \/ NothingDue(p)
    BY <2>1, BeginStep, RecoverStep, GraceStepStep, ClaimStep, NothingDueStep
  <2>2. CASE \/ Suppress(p) \/ Deliverable(p) \/ LoadAdvisory(p) \/ FailBeforeSend(p)
             \/ PostAccepted(p) \/ AnswerAccepted(p) \/ PostRefused(p)
             \/ TransportTimeout(p)
    BY <2>2, SuppressStep, DeliverableStep, LoadAdvisoryStep, FailBeforeSendStep,
       PostAcceptedStep, AnswerAcceptedStep, PostRefusedStep, TransportTimeoutStep
  <2>3. CASE Complete(p) \/ CompletionRefused(p)
    BY <2>3, CompleteStep, CompletionRefusedStep
  <2> QED BY <1>3, <2>1, <2>2, <2>3 DEF Work
<1>4. ASSUME NEW p \in Procs, Abandon(p)
      PROVE  Inv'
  BY <1>4, AbandonStep
<1>5. CASE UNCHANGED vars
  BY <1>5, Stuttering
<1> QED BY <1>1, <1>2, <1>3, <1>4, <1>5 DEF Next

-----------------------------------------------------------------------------
(* The theorems. *)

\* The inductive invariant holds of every behaviour of the workers.
THEOREM Invariance == Spec => []Inv
<1>1. Init => Inv
  BY Initially
<1>2. Inv /\ [Next]_vars => Inv'
  BY Inductive
<1> QED BY <1>1, <1>2, PTL DEF Spec

\* Columns and locals stay in their domains; attempts never exceed the maximum
\* and retries are never scheduled beyond the capped and jittered backoff.
THEOREM TypeCorrect == Spec => []TypeOK
<1>1. Inv => TypeOK
  BY DEF Inv
<1> QED BY <1>1, Invariance, PTL

\* No two processes ever hold the same event, whatever their lease owners are.
THEOREM OneSender == Spec => []SingleSender
<1>1. Inv => SingleSender
  BY DEF Inv
<1> QED BY <1>1, Invariance, PTL

\* A message is repeated only after Telegram accepted it and the answer was
\* reported as a transient failure.
THEOREM NoUnprovokedRepeat == Spec => []RepeatOnlyAfterLostAnswer
<1>1. Inv => RepeatOnlyAfterLostAnswer
  BY DEF Inv
<1> QED BY <1>1, Invariance, PTL

\* DELIVERED always stands for an acceptance or a deliberate suppression.
THEOREM DeliveredIsTrue == Spec => []DeliveredIsKnown
<1>1. Inv => DeliveredIsKnown
  BY DEF Inv
<1> QED BY <1>1, Invariance, PTL

\* Every claimable row has an attempt left and no attempt is accepted twice.
THEOREM AttemptsAreBounded == Spec => []AttemptsLeft
<1>1. Inv => AttemptsLeft
  BY DEF Inv, OpenAccounting, AcceptedBound, AttemptsLeft
<1> QED BY <1>1, Invariance, PTL

-----------------------------------------------------------------------------
(* Final statuses. *)

\* Only a waiting, a sending or an absent row is ever written.
LEMMA SettledRowStands ==
  ASSUME Inv, [Next]_vars, NEW e \in Events, row[e].status \in Final
  PROVE  row'[e] = row[e]
<1> USE DEF Final, Waiting
<1>1. row \in [Events -> Row]
  BY DEF Inv, TypeOK
<1>2. ASSUME NEW f \in Events, Enqueue(f) \/ StoreAdvisory(f) \/ Supersede(f)
      PROVE  row'[e] = row[e]
  BY <1>1, <1>2 DEF Enqueue, StoreAdvisory, Supersede
<1>3. CASE Tick
  BY <1>3 DEF Tick
<1>4. ASSUME NEW p \in Procs, Recover(p)
      PROVE  row'[e] = row[e]
  BY <1>4 DEF Recover, Expired
<1>5. ASSUME NEW p \in Procs, Claim(p)
      PROVE  row'[e] = row[e]
  BY <1>1, <1>5 DEF Claim, Oldest, Claimable, Due
<1>6. ASSUME NEW p \in Procs, Complete(p)
      PROVE  row'[e] = row[e]
  BY <1>1, <1>6 DEF Complete, StillHolds
<1>7. ASSUME NEW p \in Procs, Work(p) \/ Abandon(p),
             ~Recover(p), ~Claim(p), ~Complete(p)
      PROVE  row' = row
  BY <1>7 DEF Work, Abandon, Begin, GraceStep, NothingDue, Suppress, Deliverable,
              LoadAdvisory, FailBeforeSend, PostAccepted, AnswerAccepted,
              PostRefused, TransportTimeout, CompletionRefused, outboxVars
<1>8. CASE UNCHANGED vars
  BY <1>8 DEF vars, outboxVars
<1> QED BY <1>2, <1>3, <1>4, <1>5, <1>6, <1>7, <1>8 DEF Next

\* No late completion, lease recovery or second worker overturns a final status.
THEOREM FinalStays == Spec => FinalIsFinal
<1>1. Inv /\ [Next]_vars =>
        [\A e \in Events : row[e].status \in Final => row'[e] = row[e]]_vars
  BY SettledRowStands
<1> QED BY <1>1, Invariance, PTL DEF Spec, FinalIsFinal

-----------------------------------------------------------------------------
(* Refinement: the workers implement OutboxPromise. *)

LEMMA PromiseInit ==
  ASSUME Init
  PROVE  Promise!Init
<1>1. phase = [e \in Events |-> "ABSENT"]
  BY DEF Init, phase, Waiting
<1> QED BY <1>1 DEF Init, Promise!Init

LEMMA PromiseStep ==
  ASSUME Inv, [Next]_vars
  PROVE  [Promise!Next]_(Promise!vars)
<1> USE DEF Promise!vars
<1>1. row \in [Events -> Row] /\ accepted \in [Events -> Nat]
  BY DEF Inv, TypeOK
<1>2. ASSUME NEW e \in Events, Enqueue(e)
      PROVE  Promise!Publish(e)
  <2>1. /\ row[e].status = "ABSENT" /\ row'[e].status = "PENDING"
        /\ \A f \in Events : f # e => row'[f] = row[f]
        /\ accepted' = accepted
    BY <1>1, <1>2 DEF Enqueue, historyVars, Row
  <2>2. phase' = [phase EXCEPT ![e] = "OPEN"] /\ phase[e] = "ABSENT"
    BY <2>1 DEF phase, Waiting
  <2> QED BY <2>1, <2>2 DEF Promise!Publish
<1>3. CASE Tick
  <2>1. \A e \in Events : row'[e].status = row[e].status
    BY <1>1, <1>3 DEF Tick, Row
  <2> QED BY <1>3, <2>1 DEF Tick, historyVars, phase
<1>4. ASSUME NEW p \in Procs, Recover(p)
      PROVE  Promise!SettleMany
  <2> DEFINE gone == {e \in Events : Expired(e, p)}
  <2>1. gone \in SUBSET {e \in Events : phase[e] = "OPEN"}
    BY DEF phase, Expired
  <2>2. \A e \in Events : row'[e].status = IF e \in gone THEN "DELIVERY_UNCERTAIN"
                                           ELSE row[e].status
    BY <1>1, <1>4 DEF Recover, Row
  <2>3. phase' = [e \in Events |-> IF e \in gone THEN "DELIVERY_UNCERTAIN"
                                   ELSE phase[e]]
    BY <2>2 DEF phase, Waiting
  <2>4. accepted' = accepted
    BY <1>4 DEF Recover, historyVars
  <2> QED BY <2>1, <2>3, <2>4 DEF Promise!SettleMany
<1>5. ASSUME NEW p \in Procs, Claim(p)
      PROVE  UNCHANGED Promise!vars
  <2>1. PICK e \in Oldest(Claimable(p)) :
          row' = [row EXCEPT ![e].status = "SENDING", ![e].attempts = @ + 1,
                             ![e].owner = WorkerId[p], ![e].lease = Lease - lag[p]]
    BY <1>5 DEF Claim
  <2>2. e \in Events /\ row[e].status \in Waiting
    BY DEF Oldest, Claimable, Due
  <2>3. /\ row'[e].status = "SENDING"
        /\ \A f \in Events : f # e => row'[f] = row[f]
    BY <1>1, <2>1, <2>2 DEF Row
  <2>4. \A f \in Events : \/ row'[f].status = row[f].status
                          \/ {row'[f].status, row[f].status}
                               \subseteq Waiting \cup {"SENDING"}
    BY <2>2, <2>3
  <2>5. accepted' = accepted
    BY <1>5 DEF Claim
  <2> QED BY <2>4, <2>5 DEF phase
<1>6. ASSUME NEW p \in Procs, Complete(p)
      PROVE  [Promise!Next]_(Promise!vars)
  <2> DEFINE e == event[p]
             status == NextStatus(result[p], attempt[p])
  <2>1. PICK d \in Delays(status, result[p], attempt[p]) :
          row' = [row EXCEPT ![e].status = status, ![e].due = d - lag[p],
                             ![e].lease = 0, ![e].owner = Nothing]
    BY <1>6 DEF Complete
  <2>2. /\ e \in Events /\ row[e].status = "SENDING"
        /\ result[p] \in Disposition /\ attempt[p] \in 0 .. MaxAttempts
        /\ accepted' = accepted
    BY <1>6 DEF Complete, StillHolds, Inv, TypeOK, ClaimStands, ClaimAccounting, Holding
  <2>3. status \in Final \cup {"RETRY_WAIT"}
    BY <2>2, RetryRules
  <2> HIDE DEF status
  <2>4. row'[e].status = status /\ \A f \in Events : f # e => row'[f] = row[f]
    BY <1>1, <2>1, <2>2 DEF Row
  <2>5. accepted' = accepted
    BY <2>2 
  <2>6. CASE status = "RETRY_WAIT"
    BY <2>2, <2>4, <2>5, <2>6 DEF phase, Waiting
  <2>7. CASE status \in Final
    <3>1. phase[e] = "OPEN" /\ phase' = [phase EXCEPT ![e] = status]
      BY <2>2, <2>4, <2>7 DEF phase, Waiting, Final
    <3> QED BY <2>2, <2>5, <2>7, <3>1
            DEF Promise!Next, Promise!Settle, Promise!Settled, Final
  <2> QED BY <2>3, <2>6, <2>7
<1>7. ASSUME NEW p \in Procs, PostAccepted(p)
      PROVE  Promise!Accept(event[p])
  <2>1. /\ event[p] \in Events
        /\ row[event[p]].status \in {"SENDING", "DELIVERY_UNCERTAIN"}
        /\ accepted' = [accepted EXCEPT ![event[p]] = @ + 1]
        /\ row' = row
    BY <1>7 DEF PostAccepted, Inv, ClaimStands, Holding, outboxVars
  <2>3. phase[event[p]] \in {"OPEN", "DELIVERY_UNCERTAIN"} /\ phase' = phase
    BY <2>1 DEF phase, Waiting
  <2> QED BY <2>1, <2>3 DEF Promise!Accept
<1>8. ASSUME NEW p \in Procs, Work(p) \/ Abandon(p),
             ~Recover(p), ~Claim(p), ~Complete(p), ~PostAccepted(p)
      PROVE  UNCHANGED Promise!vars
  <2>1. row' = row /\ accepted' = accepted
    BY <1>8 DEF Work, Abandon, Begin, GraceStep, NothingDue, Suppress, Deliverable,
                LoadAdvisory, FailBeforeSend, AnswerAccepted, PostRefused,
                TransportTimeout, CompletionRefused, outboxVars, historyVars
  <2> QED BY <2>1 DEF phase
<1>9. ASSUME NEW e \in Events, StoreAdvisory(e) \/ Supersede(e)
      PROVE  UNCHANGED Promise!vars
  BY <1>9 DEF StoreAdvisory, Supersede, historyVars, phase
<1>10. CASE UNCHANGED vars
  BY <1>10 DEF vars, outboxVars, historyVars, phase
<1>11. ASSUME NEW p \in Procs, PostAccepted(p)
       PROVE  Promise!Next
  BY <1>7, <1>11 DEF Promise!Next, Inv, ClaimStands, PostAccepted, Holding
<1> QED BY <1>2, <1>3, <1>4, <1>5, <1>6, <1>8, <1>9, <1>10, <1>11
        DEF Next, Promise!Next

\* The workers implement the promise of the outbox: events are published and
\* settled once, and Telegram accepts nothing of an event after its row says
\* DELIVERED or DEAD_LETTER.
THEOREM ImplementsPromise == Spec => KeepsPromise
<1>1. Init => Promise!Init
  BY PromiseInit
<1>2. Inv /\ [Next]_vars => [Promise!Next]_(Promise!vars)
  BY PromiseStep
<1> QED BY <1>1, <1>2, Invariance, PTL DEF Spec, KeepsPromise, Promise!Spec
\* A claim of an event that was already superseded can only be refused: it waits for
\* the check of the transport, or has its answer.
LateInv ==
  \A p \in Procs : late[p] =>
    pc[p] \in {"check", "complete"} /\ superseded[event[p]]

\* A step of one process that leaves the others, and what was superseded, alone.
LEMMA LateOfOthers ==
  ASSUME LateInv, NEW p \in Procs,
         \A q \in Procs \ {p} : late'[q] = late[q] /\ pc'[q] = pc[q] /\ event'[q] = event[q],
         superseded' = superseded,
         late'[p] => pc'[p] \in {"check", "complete"} /\ superseded[event'[p]]
  PROVE  LateInv'
BY DEF LateInv

LEMMA LateStep == Inv /\ LateInv /\ [Next]_vars => LateInv'
<1> SUFFICES ASSUME Inv, LateInv, [Next]_vars PROVE LateInv'
  OBVIOUS
<1>t. /\ pc \in [Procs -> Steps] /\ late \in [Procs -> BOOLEAN]
      /\ event \in [Procs -> Events \cup {Nothing}]
      /\ superseded \in [Events -> BOOLEAN]
  BY DEF Inv, TypeOK
<1>1. ASSUME NEW e \in Events, Enqueue(e) \/ StoreAdvisory(e) PROVE LateInv'
  BY <1>1 DEF Enqueue, StoreAdvisory, LateInv, procVars, historyVars
<1>2. ASSUME NEW e \in Events, Supersede(e) PROVE LateInv'
  <2>1. UNCHANGED <<pc, event, late>> /\ superseded' = [superseded EXCEPT ![e] = TRUE]
    BY <1>2 DEF Supersede, procVars, historyVars
  <2>2. \A p \in Procs : late[p] => event[p] \in Events
    BY DEF Inv, ClaimStands, LateInv, Holding
  <2>3. \A f \in Events : superseded[f] => superseded'[f]
    BY <1>t, <2>1
  <2> QED BY <2>1, <2>2, <2>3 DEF LateInv
<1>3. CASE Tick
  BY <1>3 DEF Tick, LateInv, historyVars
<1>4. ASSUME NEW p \in Procs, Claim(p) PROVE LateInv'
  <2>1. PICK e \in Events : /\ event' = [event EXCEPT ![p] = e]
                            /\ late' = [late EXCEPT ![p] = superseded[e]]
    BY <1>4 DEF Claim, Oldest, Claimable, Due
  <2>2. pc' = [pc EXCEPT ![p] = "check"] /\ superseded' = superseded
    BY <1>4 DEF Claim, Goto
  <2>3. late'[p] => pc'[p] \in {"check", "complete"} /\ superseded[event'[p]]
    BY <1>t, <2>1, <2>2
  <2>4. \A q \in Procs \ {p} :
          late'[q] = late[q] /\ pc'[q] = pc[q] /\ event'[q] = event[q]
    BY <1>t, <2>1, <2>2
  <2> QED BY <2>2, <2>3, <2>4, LateOfOthers
<1>5. ASSUME NEW p \in Procs,
             NothingDue(p) \/ Complete(p) \/ CompletionRefused(p) \/ Abandon(p)
      PROVE LateInv'
  <2>1. GoIdle(p) /\ superseded' = superseded
    BY <1>5 DEF NothingDue, Complete, CompletionRefused, Abandon, outboxVars
  <2>2. ~late'[p]
    BY <1>t, <2>1 DEF GoIdle
  <2>3. \A q \in Procs \ {p} :
          late'[q] = late[q] /\ pc'[q] = pc[q] /\ event'[q] = event[q]
    BY <1>t, <2>1 DEF GoIdle
  <2> QED BY <2>1, <2>2, <2>3, LateOfOthers
<1>6. ASSUME NEW p \in Procs,
             Begin(p) \/ Recover(p) \/ GraceStep(p) \/ Deliverable(p)
               \/ LoadAdvisory(p) \/ PostAccepted(p)
      PROVE LateInv'
  <2>1. UNCHANGED <<event, late, superseded>> /\ \E s \in Steps : pc' = [pc EXCEPT ![p] = s]
    BY <1>6 DEF Begin, Recover, GraceStep, Deliverable, LoadAdvisory, PostAccepted,
                Goto, Steps, outboxVars, historyVars
  <2>2. ~late[p]
    BY <1>6 DEF Begin, Recover, GraceStep, Deliverable, LoadAdvisory, PostAccepted,
                Undeliverable, LateInv
  <2>3. \A q \in Procs \ {p} :
          late'[q] = late[q] /\ pc'[q] = pc[q] /\ event'[q] = event[q]
    BY <1>t, <2>1
  <2> QED BY <2>1, <2>2, <2>3, LateOfOthers
<1>7. ASSUME NEW p \in Procs,
             Suppress(p) \/ FailBeforeSend(p) \/ AnswerAccepted(p) \/ PostRefused(p)
               \/ TransportTimeout(p)
      PROVE LateInv'
  <2>1. UNCHANGED <<event, late, superseded>> /\ pc' = [pc EXCEPT ![p] = "complete"]
    BY <1>7 DEF Suppress, FailBeforeSend, AnswerAccepted, PostRefused, TransportTimeout,
                Answered, Goto, outboxVars, historyVars
  <2>2. late'[p] => pc'[p] \in {"check", "complete"} /\ superseded[event'[p]]
    BY <1>t, <2>1 DEF LateInv
  <2>3. \A q \in Procs \ {p} :
          late'[q] = late[q] /\ pc'[q] = pc[q] /\ event'[q] = event[q]
    BY <1>t, <2>1
  <2> QED BY <2>1, <2>2, <2>3, LateOfOthers
<1>8. CASE UNCHANGED vars
  BY <1>8 DEF vars, outboxVars, procVars, historyVars, LateInv
<1> QED
  BY <1>1, <1>2, <1>3, <1>4, <1>5, <1>6, <1>7, <1>8 DEF Next, Work

\* An event that was superseded before it was claimed is not posted, at any attempt
\* and however the claim ends (_current_entry_ready_is_deliverable, notifier.py).
THEOREM StaleStaysUnsent == Spec => []StaleNeverPosted
<1>1. Init => LateInv
  BY DEF Init, LateInv
<1>2. LateInv => StaleNeverPosted
  BY DEF LateInv, StaleNeverPosted
<1> QED BY <1>1, <1>2, LateStep, Invariance, PTL DEF Spec
=============================================================================
