---------------------------- MODULE DispatchProofs -----------------------------
(* What holds of Dispatch for every set of messages, users, relays and workers, *)
(* every bound and every price.                                                 *)
EXTENDS Dispatch, Counting, FiniteSetTheorems, TLAPS

\* The cost of a message is a positive integer: both of the prices are.
LEMMA CostType == \A m \in Messages : Cost(m) \in Nat \ {0}
BY PricingAssumption DEF Cost

-------------------------------------------------------------------------------
\* One step keeps every variable in its type.
LEMMA TypeStep == TypeOK /\ [Next]_vars => TypeOK'
<1>. SUFFICES ASSUME TypeOK, [Next]_vars PROVE TypeOK'
  OBVIOUS
<1>. USE CastAssumption, NumberAssumption, CostType
<1>. USE DEF TypeOK, JobStatuses, MessageStatuses, Payments, Outcomes, AttemptCap, CountAttempt,
             NextAttempt, WorkerIdle, jobVars, msgVars, moneyVars, relayVars, workerVars,
             envVars, Fault, Bury, Receives, EndTask, Records, PermanentlyFail
<1>1. ASSUME NEW u \in Users, TopUp(u)
      PROVE  TypeOK'
  BY <1>1 DEF TopUp
<1>2. ASSUME NEW u \in Users, ZeroCredits(u)
      PROVE  TypeOK'
  BY <1>2 DEF ZeroCredits
<1>3. ASSUME NEW m \in Messages, Submit(m)
      PROVE  TypeOK'
  BY <1>3 DEF Submit
<1>4. ASSUME NEW r \in Relays, NEW S \in SUBSET Messages, ClaimBatch(r, S)
      PROVE  TypeOK'
  BY <1>4 DEF ClaimBatch
<1>5. ASSUME NEW r \in Relays, NEW m \in Messages, Publish(r, m)
      PROVE  TypeOK'
  BY <1>5 DEF Publish
<1>6. ASSUME NEW r \in Relays, NEW m \in Messages, NEW reached \in BOOLEAN, PublishRaises(r, m, reached)
      PROVE  TypeOK'
  BY <1>6 DEF PublishRaises
<1>7. ASSUME NEW r \in Relays, FinishPublish(r)
      PROVE  TypeOK'
  BY <1>7 DEF FinishPublish
<1>8. ASSUME NEW r \in Relays, RelayCrash(r)
      PROVE  TypeOK'
  BY <1>8 DEF RelayCrash
<1>9. ASSUME NEW r \in Relays, NEW S \in SUBSET Messages, ReapSelect(r, S)
      PROVE  TypeOK'
  BY <1>9 DEF ReapSelect
<1>10. ASSUME NEW r \in Relays, ReapUpdate(r)
      PROVE  TypeOK'
  BY <1>10 DEF ReapUpdate
<1>11. ASSUME NEW w \in Workers, NEW m \in Messages, DropTask(w, m)
      PROVE  TypeOK'
  BY <1>11 DEF DropTask
<1>12. ASSUME NEW w \in Workers, NEW m \in Messages, RaiseTask(w, m)
      PROVE  TypeOK'
  BY <1>12 DEF RaiseTask
<1>13. ASSUME NEW w \in Workers, NEW m \in Messages, ExpireTask(w, m)
      PROVE  TypeOK'
  BY <1>13 DEF ExpireTask
<1>14. ASSUME NEW w \in Workers, NEW m \in Messages, StartDelivery(w, m)
      PROVE  TypeOK'
  BY <1>14 DEF StartDelivery
<1>15. ASSUME NEW w \in Workers, NEW outcome \in Outcomes, ProviderAnswers(w, outcome)
      PROVE  TypeOK'
  BY <1>15 DEF ProviderAnswers
<1>16. ASSUME NEW w \in Workers, RecordLeaseLost(w)
      PROVE  TypeOK'
  BY <1>16 DEF RecordLeaseLost
<1>17. ASSUME NEW w \in Workers, RecordSuccess(w)
      PROVE  TypeOK'
  BY <1>17 DEF RecordSuccess
<1>18. ASSUME NEW w \in Workers, RecordFailure(w)
      PROVE  TypeOK'
  BY <1>18 DEF RecordFailure
<1>19. ASSUME NEW w \in Workers, RecordRetry(w)
      PROVE  TypeOK'
  BY <1>19 DEF RecordRetry
<1>20. ASSUME NEW w \in Workers, RecordRaises(w)
      PROVE  TypeOK'
  BY <1>20 DEF RecordRaises
<1>21. ASSUME NEW w \in Workers, TaskFails(w)
      PROVE  TypeOK'
  BY <1>21 DEF TaskFails
<1>22. ASSUME NEW w \in Workers, WorkerCrash(w)
      PROVE  TypeOK'
  BY <1>22 DEF WorkerCrash
<1>23. ASSUME NEW w \in Workers, Redeliver(w)
      PROVE  TypeOK'
  BY <1>23 DEF Redeliver
<1>24. ASSUME NEW m \in Messages, LoseTask(m)
      PROVE  TypeOK'
  BY <1>24 DEF LoseTask
<1>25. ASSUME NEW m \in Messages, TimePasses(m)
      PROVE  TypeOK'
  BY <1>25 DEF TimePasses
<1>26. ASSUME NEW m \in Messages, LeaseOutlived(m)
      PROVE  TypeOK'
  BY <1>26 DEF LeaseOutlived
<1>27. ASSUME NEW m \in Messages, ExpressDeadline(m)
      PROVE  TypeOK'
  BY <1>27 DEF ExpressDeadline
<1>28. CASE UNCHANGED vars
  BY <1>28 DEF vars
<1>. HIDE DEF TypeOK
<1>. QED
  BY <1>1, <1>2, <1>3, <1>4, <1>5, <1>6, <1>7, <1>8, <1>9, <1>10, <1>11, <1>12, <1>13,
     <1>14, <1>15, <1>16, <1>17, <1>18, <1>19, <1>20, <1>21, <1>22, <1>23, <1>24, <1>25,
     <1>26, <1>27, <1>28
  DEF Next, ApiStep, RelayStep, ClaimStep, PublishStep, ReapSelectStep, WorkerStep, TakeTask,
       ProviderStep, RecordOutcome, EnvironmentStep

\* Type correctness of every reachable state.
THEOREM TypeCorrect == Spec => []TypeOK
<1>1. Init => TypeOK
  BY CastAssumption, NumberAssumption DEF Init, TypeOK, JobStatuses, MessageStatuses, Payments, AttemptCap
<1>. QED
  BY <1>1, TypeStep, PTL DEF Spec

-------------------------------------------------------------------------------
\* What holds of the rows besides their types: they come into being together,
RowsTogether ==
    \A m \in Messages : /\ jobStatus[m] = "ABSENT" <=> payment[m] = "NONE"
                        /\ payment[m] = "NONE" <=> msgStatus[m] = "ABSENT"

\* only what was submitted is delivered or reaped, and a success was delivered,
OnlySubmitted ==
    /\ \A w \in Workers :
        /\ workerJob[w] = None => answer[w] = None
        /\ workerJob[w] # None => payment[workerJob[w]] # "NONE"
        /\ answer[w] = "SUCCESS" => delivered[workerJob[w]] > 0
    /\ \A r \in Relays : \A m \in reapIds[r] : payment[m] # "NONE"

\* and with the properties of the payment they form an inductive invariant. A worker that records
\* holds a job in DISPATCHING, which InFlightIsReserved says is not paid for yet.
PaymentInv ==
    /\ RowsTogether /\ OnlySubmitted
    /\ StatusMatchesPayment /\ InFlightIsReserved /\ ReservedHasLiveJob /\ ChargedOnlyIfDelivered

\* One step keeps the payments' invariant.
LEMMA PaymentInvStep == TypeOK /\ PaymentInv /\ [Next]_vars => PaymentInv'
<1>. SUFFICES ASSUME TypeOK, PaymentInv, [Next]_vars PROVE PaymentInv'
  OBVIOUS
<1>. USE CastAssumption, AnswerAssumption
<1>. USE DEF TypeOK, PaymentInv, RowsTogether, OnlySubmitted, StatusMatchesPayment, InFlightIsReserved,
             ReservedHasLiveJob, ChargedOnlyIfDelivered, JobStatuses, MessageStatuses, Payments,
             Outcomes, TERMINAL_JOB_STATUSES, WorkerIdle, IsClaimable, MayStart, StillClaimedBy,
             HoldsLease, GivesUp, jobVars, msgVars, 
             moneyVars, relayVars, workerVars, envVars, Fault, Bury, Receives, EndTask, Records, PermanentlyFail
<1>1. ASSUME NEW u \in Users, TopUp(u)
      PROVE  PaymentInv'
  BY <1>1 DEF TopUp
<1>2. ASSUME NEW u \in Users, ZeroCredits(u)
      PROVE  PaymentInv'
  BY <1>2 DEF ZeroCredits
<1>3. ASSUME NEW m \in Messages, Submit(m)
      PROVE  PaymentInv'
  BY <1>3 DEF Submit
<1>4. ASSUME NEW r \in Relays, NEW S \in SUBSET Messages, ClaimBatch(r, S)
      PROVE  PaymentInv'
  BY <1>4 DEF ClaimBatch
<1>5. ASSUME NEW r \in Relays, NEW m \in Messages, Publish(r, m)
      PROVE  PaymentInv'
  BY <1>5 DEF Publish
<1>6. ASSUME NEW r \in Relays, NEW m \in Messages, NEW reached \in BOOLEAN, PublishRaises(r, m, reached)
      PROVE  PaymentInv'
  BY <1>6 DEF PublishRaises
<1>7. ASSUME NEW r \in Relays, FinishPublish(r)
      PROVE  PaymentInv'
  BY <1>7 DEF FinishPublish
<1>8. ASSUME NEW r \in Relays, RelayCrash(r)
      PROVE  PaymentInv'
  BY <1>8 DEF RelayCrash
<1>9. ASSUME NEW r \in Relays, NEW S \in SUBSET Messages, ReapSelect(r, S)
      PROVE  PaymentInv'
  BY <1>9 DEF ReapSelect, StaleInFlight
<1>10. ASSUME NEW r \in Relays, ReapUpdate(r)
      PROVE  PaymentInv'
  BY <1>10 DEF ReapUpdate
<1>11. ASSUME NEW w \in Workers, NEW m \in Messages, DropTask(w, m)
      PROVE  PaymentInv'
  BY <1>11 DEF DropTask
<1>12. ASSUME NEW w \in Workers, NEW m \in Messages, RaiseTask(w, m)
      PROVE  PaymentInv'
  BY <1>12 DEF RaiseTask
<1>13. ASSUME NEW w \in Workers, NEW m \in Messages, ExpireTask(w, m)
      PROVE  PaymentInv'
  BY <1>13 DEF ExpireTask
<1>14. ASSUME NEW w \in Workers, NEW m \in Messages, StartDelivery(w, m)
      PROVE  PaymentInv'
  BY <1>14 DEF StartDelivery
<1>15. ASSUME NEW w \in Workers, NEW outcome \in Outcomes, ProviderAnswers(w, outcome)
      PROVE  PaymentInv'
  BY <1>15 DEF ProviderAnswers
<1>16. ASSUME NEW w \in Workers, RecordLeaseLost(w)
      PROVE  PaymentInv'
  BY <1>16 DEF RecordLeaseLost
<1>17. ASSUME NEW w \in Workers, RecordSuccess(w)
      PROVE  PaymentInv'
  BY <1>17 DEF RecordSuccess
<1>18. ASSUME NEW w \in Workers, RecordFailure(w)
      PROVE  PaymentInv'
  BY <1>18 DEF RecordFailure
<1>19. ASSUME NEW w \in Workers, RecordRetry(w)
      PROVE  PaymentInv'
  BY <1>19 DEF RecordRetry
<1>20. ASSUME NEW w \in Workers, RecordRaises(w)
      PROVE  PaymentInv'
  BY <1>20 DEF RecordRaises
<1>21. ASSUME NEW w \in Workers, TaskFails(w)
      PROVE  PaymentInv'
  BY <1>21 DEF TaskFails
<1>22. ASSUME NEW w \in Workers, WorkerCrash(w)
      PROVE  PaymentInv'
  BY <1>22 DEF WorkerCrash
<1>23. ASSUME NEW w \in Workers, Redeliver(w)
      PROVE  PaymentInv'
  BY <1>23 DEF Redeliver
<1>24. ASSUME NEW m \in Messages, LoseTask(m)
      PROVE  PaymentInv'
  BY <1>24 DEF LoseTask
<1>25. ASSUME NEW m \in Messages, TimePasses(m)
      PROVE  PaymentInv'
  BY <1>25 DEF TimePasses
<1>26. ASSUME NEW m \in Messages, LeaseOutlived(m)
      PROVE  PaymentInv'
  BY <1>26 DEF LeaseOutlived
<1>27. ASSUME NEW m \in Messages, ExpressDeadline(m)
      PROVE  PaymentInv'
  BY <1>27 DEF ExpressDeadline
<1>28. CASE UNCHANGED vars
  BY <1>28 DEF vars
<1>. HIDE DEF PaymentInv, TypeOK
<1>. QED
  BY <1>1, <1>2, <1>3, <1>4, <1>5, <1>6, <1>7, <1>8, <1>9, <1>10, <1>11, <1>12, <1>13,
     <1>14, <1>15, <1>16, <1>17, <1>18, <1>19, <1>20, <1>21, <1>22, <1>23, <1>24, <1>25,
     <1>26, <1>27, <1>28
  DEF Next, ApiStep, RelayStep, ClaimStep, PublishStep, ReapSelectStep, WorkerStep, TakeTask,
       ProviderStep, RecordOutcome, EnvironmentStep

-------------------------------------------------------------------------------
\* Rows, deliveries and payments of every reachable state fit together.
LEMMA PaymentInvCorrect == Spec => [](TypeOK /\ PaymentInv)
<1>1. Init => PaymentInv
  BY AnswerAssumption DEF Init, PaymentInv, RowsTogether, OnlySubmitted, StatusMatchesPayment, InFlightIsReserved,
         ReservedHasLiveJob, ChargedOnlyIfDelivered, TERMINAL_JOB_STATUSES, Outcomes
<1>. QED
  BY <1>1, PaymentInvStep, TypeCorrect, PTL DEF Spec

\* A job is only with a worker while its money is reserved.
THEOREM InFlightReserved == Spec => []InFlightIsReserved
<1>1. PaymentInv => InFlightIsReserved
  BY DEF PaymentInv
<1>. QED
  BY <1>1, PaymentInvCorrect, PTL

\* Reserved money has a job that is still worked on: no reservation is stranded.
THEOREM NoStrandedReservation == Spec => []ReservedHasLiveJob
<1>1. PaymentInv => ReservedHasLiveJob
  BY DEF PaymentInv
<1>. QED
  BY <1>1, PaymentInvCorrect, PTL

\* What the message row shows is what became of the money and of the job.
THEOREM StatusShowsPayment == Spec => []StatusMatchesPayment
<1>1. PaymentInv => StatusMatchesPayment
  BY DEF PaymentInv
<1>. QED
  BY <1>1, PaymentInvCorrect, PTL

\* Nobody pays for a message the provider never accepted.
THEOREM NoChargeWithoutDelivery == Spec => []ChargedOnlyIfDelivered
<1>1. PaymentInv => ChargedOnlyIfDelivered
  BY DEF PaymentInv
<1>. QED
  BY <1>1, PaymentInvCorrect, PTL

-------------------------------------------------------------------------------
\* The transactions that write a payment find it RESERVED, or write what it was.
LEMMA PaymentStep ==
    ASSUME TypeOK, PaymentInv, [Next]_vars, NEW n \in Messages, payment[n] \in {"DEDUCTED", "REFUNDED"}
    PROVE  payment'[n] = payment[n]
<1>. USE DEF TypeOK, PaymentInv, RowsTogether, InFlightIsReserved, HoldsLease,
             jobVars, msgVars, moneyVars, relayVars, workerVars, envVars,
             Fault, Bury, Receives, EndTask, Records, PermanentlyFail
<1>1. ASSUME NEW u \in Users, TopUp(u)
      PROVE  payment'[n] = payment[n]
  BY <1>1 DEF TopUp
<1>2. ASSUME NEW u \in Users, ZeroCredits(u)
      PROVE  payment'[n] = payment[n]
  BY <1>2 DEF ZeroCredits
<1>3. ASSUME NEW m \in Messages, Submit(m)
      PROVE  payment'[n] = payment[n]
  BY <1>3 DEF Submit
<1>4. ASSUME NEW r \in Relays, NEW S \in SUBSET Messages, ClaimBatch(r, S)
      PROVE  payment'[n] = payment[n]
  BY <1>4 DEF ClaimBatch
<1>5. ASSUME NEW r \in Relays, NEW m \in Messages, Publish(r, m)
      PROVE  payment'[n] = payment[n]
  BY <1>5 DEF Publish
<1>6. ASSUME NEW r \in Relays, NEW m \in Messages, NEW reached \in BOOLEAN, PublishRaises(r, m, reached)
      PROVE  payment'[n] = payment[n]
  BY <1>6 DEF PublishRaises
<1>7. ASSUME NEW r \in Relays, FinishPublish(r)
      PROVE  payment'[n] = payment[n]
  BY <1>7 DEF FinishPublish
<1>8. ASSUME NEW r \in Relays, RelayCrash(r)
      PROVE  payment'[n] = payment[n]
  BY <1>8 DEF RelayCrash
<1>9. ASSUME NEW r \in Relays, NEW S \in SUBSET Messages, ReapSelect(r, S)
      PROVE  payment'[n] = payment[n]
  BY <1>9 DEF ReapSelect
<1>10. ASSUME NEW r \in Relays, ReapUpdate(r)
      PROVE  payment'[n] = payment[n]
  BY <1>10 DEF ReapUpdate
<1>11. ASSUME NEW w \in Workers, NEW m \in Messages, DropTask(w, m)
      PROVE  payment'[n] = payment[n]
  BY <1>11 DEF DropTask
<1>12. ASSUME NEW w \in Workers, NEW m \in Messages, RaiseTask(w, m)
      PROVE  payment'[n] = payment[n]
  BY <1>12 DEF RaiseTask
<1>13. ASSUME NEW w \in Workers, NEW m \in Messages, ExpireTask(w, m)
      PROVE  payment'[n] = payment[n]
  BY <1>13 DEF ExpireTask
<1>14. ASSUME NEW w \in Workers, NEW m \in Messages, StartDelivery(w, m)
      PROVE  payment'[n] = payment[n]
  BY <1>14 DEF StartDelivery
<1>15. ASSUME NEW w \in Workers, NEW outcome \in Outcomes, ProviderAnswers(w, outcome)
      PROVE  payment'[n] = payment[n]
  BY <1>15 DEF ProviderAnswers
<1>16. ASSUME NEW w \in Workers, RecordLeaseLost(w)
      PROVE  payment'[n] = payment[n]
  BY <1>16 DEF RecordLeaseLost
<1>17. ASSUME NEW w \in Workers, RecordSuccess(w)
      PROVE  payment'[n] = payment[n]
  BY <1>17 DEF RecordSuccess
<1>18. ASSUME NEW w \in Workers, RecordFailure(w)
      PROVE  payment'[n] = payment[n]
  BY <1>18 DEF RecordFailure
<1>19. ASSUME NEW w \in Workers, RecordRetry(w)
      PROVE  payment'[n] = payment[n]
  BY <1>19 DEF RecordRetry
<1>20. ASSUME NEW w \in Workers, RecordRaises(w)
      PROVE  payment'[n] = payment[n]
  BY <1>20 DEF RecordRaises
<1>21. ASSUME NEW w \in Workers, TaskFails(w)
      PROVE  payment'[n] = payment[n]
  BY <1>21 DEF TaskFails
<1>22. ASSUME NEW w \in Workers, WorkerCrash(w)
      PROVE  payment'[n] = payment[n]
  BY <1>22 DEF WorkerCrash
<1>23. ASSUME NEW w \in Workers, Redeliver(w)
      PROVE  payment'[n] = payment[n]
  BY <1>23 DEF Redeliver
<1>24. ASSUME NEW m \in Messages, LoseTask(m)
      PROVE  payment'[n] = payment[n]
  BY <1>24 DEF LoseTask
<1>25. ASSUME NEW m \in Messages, TimePasses(m)
      PROVE  payment'[n] = payment[n]
  BY <1>25 DEF TimePasses
<1>26. ASSUME NEW m \in Messages, LeaseOutlived(m)
      PROVE  payment'[n] = payment[n]
  BY <1>26 DEF LeaseOutlived
<1>27. ASSUME NEW m \in Messages, ExpressDeadline(m)
      PROVE  payment'[n] = payment[n]
  BY <1>27 DEF ExpressDeadline
<1>28. CASE UNCHANGED vars
  BY <1>28 DEF vars
<1>. QED
  BY <1>1, <1>2, <1>3, <1>4, <1>5, <1>6, <1>7, <1>8, <1>9, <1>10, <1>11, <1>12, <1>13,
     <1>14, <1>15, <1>16, <1>17, <1>18, <1>19, <1>20, <1>21, <1>22, <1>23, <1>24, <1>25,
     <1>26, <1>27, <1>28
  DEF Next, ApiStep, RelayStep, ClaimStep, PublishStep, ReapSelectStep, WorkerStep, TakeTask,
       ProviderStep, RecordOutcome, EnvironmentStep

\* Charged or refunded once: a final payment never changes again.
THEOREM PaymentIsFinal == Spec => PaymentFinal
<1>1. TypeOK /\ PaymentInv /\ [Next]_vars
      => [\A m \in Messages : payment[m] \in {"DEDUCTED", "REFUNDED"} => payment'[m] = payment[m]]_vars
  BY PaymentStep
<1>. QED
  BY <1>1, PaymentInvCorrect, PTL DEF Spec, PaymentFinal

-------------------------------------------------------------------------------
\* A live lock says what its holder does with the job: a relay has it in its batch, a worker
\* delivers it. The status is needed because a relay that finishes unlocks by id and status, and
\* the last line because a failed publication ends the batch.
LockInv ==
    /\ \A m \in Messages :
        /\ \A r \in Relays : lockedBy[m] = r =>
              m \in todo[r] \cup published[r] \cup failed[r] /\ jobStatus[m] \in {"PENDING", "RETRY"}
        /\ \A w \in Workers : lockedBy[m] = w => workerJob[w] = m /\ jobStatus[m] = "DISPATCHING"
        /\ jobStatus[m] = "ABSENT" => lockedBy[m] = None
    /\ \A r \in Relays : todo[r] # {} => failed[r] = {}

\* One step keeps the locks' invariant.
LEMMA LockInvStep == TypeOK /\ LockInv /\ [Next]_vars => LockInv'
<1>. SUFFICES ASSUME TypeOK, LockInv, [Next]_vars PROVE LockInv'
  OBVIOUS
<1>. USE CastAssumption
<1>. USE DEF TypeOK, LockInv, WorkerIdle, RelayIdle, IsClaimable, MayStart, StillClaimedBy, HoldsLease,
             Eligible, jobVars, msgVars, moneyVars, relayVars, workerVars, envVars,
             Fault, Bury, Receives, EndTask, Records, PermanentlyFail
<1>1. ASSUME NEW u \in Users, TopUp(u)
      PROVE  LockInv'
  BY <1>1 DEF TopUp
<1>2. ASSUME NEW u \in Users, ZeroCredits(u)
      PROVE  LockInv'
  BY <1>2 DEF ZeroCredits
<1>3. ASSUME NEW m \in Messages, Submit(m)
      PROVE  LockInv'
  BY <1>3 DEF Submit
<1>4. ASSUME NEW r \in Relays, NEW S \in SUBSET Messages, ClaimBatch(r, S)
      PROVE  LockInv'
  BY <1>4 DEF ClaimBatch
<1>5. ASSUME NEW r \in Relays, NEW m \in Messages, Publish(r, m)
      PROVE  LockInv'
  BY <1>5 DEF Publish
<1>6. ASSUME NEW r \in Relays, NEW m \in Messages, NEW reached \in BOOLEAN, PublishRaises(r, m, reached)
      PROVE  LockInv'
  <2>1. UNCHANGED <<jobStatus, lockedBy, workerJob>>
    BY <1>6 DEF PublishRaises
  <2>2. \A q \in Relays : todo'[q] \cup published'[q] \cup failed'[q] = todo[q] \cup published[q] \cup failed[q]
    BY <1>6 DEF PublishRaises
  <2>3. \A q \in Relays : todo'[q] # {} => failed'[q] = {}
    BY <1>6 DEF PublishRaises
  <2>. QED
    BY <2>1, <2>2, <2>3
<1>7. ASSUME NEW r \in Relays, FinishPublish(r)
      PROVE  LockInv'
  BY <1>7 DEF FinishPublish
<1>8. ASSUME NEW r \in Relays, RelayCrash(r)
      PROVE  LockInv'
  BY <1>8 DEF RelayCrash
<1>9. ASSUME NEW r \in Relays, NEW S \in SUBSET Messages, ReapSelect(r, S)
      PROVE  LockInv'
  BY <1>9 DEF ReapSelect
<1>10. ASSUME NEW r \in Relays, ReapUpdate(r)
      PROVE  LockInv'
  BY <1>10 DEF ReapUpdate
<1>11. ASSUME NEW w \in Workers, NEW m \in Messages, DropTask(w, m)
      PROVE  LockInv'
  BY <1>11 DEF DropTask
<1>12. ASSUME NEW w \in Workers, NEW m \in Messages, RaiseTask(w, m)
      PROVE  LockInv'
  BY <1>12 DEF RaiseTask
<1>13. ASSUME NEW w \in Workers, NEW m \in Messages, ExpireTask(w, m)
      PROVE  LockInv'
  BY <1>13 DEF ExpireTask
<1>14. ASSUME NEW w \in Workers, NEW m \in Messages, StartDelivery(w, m)
      PROVE  LockInv'
  BY <1>14 DEF StartDelivery
<1>15. ASSUME NEW w \in Workers, NEW outcome \in Outcomes, ProviderAnswers(w, outcome)
      PROVE  LockInv'
  BY <1>15 DEF ProviderAnswers
<1>16. ASSUME NEW w \in Workers, RecordLeaseLost(w)
      PROVE  LockInv'
  BY <1>16 DEF RecordLeaseLost
<1>17. ASSUME NEW w \in Workers, RecordSuccess(w)
      PROVE  LockInv'
  BY <1>17 DEF RecordSuccess
<1>18. ASSUME NEW w \in Workers, RecordFailure(w)
      PROVE  LockInv'
  <2>. DEFINE n == workerJob[w]
  <2>1. /\ n \in Messages
        /\ lockedBy' = [lockedBy EXCEPT ![n] = None]
        /\ jobStatus' = [jobStatus EXCEPT ![n] = "FAILED"]
        /\ workerJob' = [workerJob EXCEPT ![w] = None]
        /\ UNCHANGED relayVars
    BY <1>18 DEF RecordFailure
  <2>. HIDE DEF n
  <2>. QED
    BY <2>1, <1>18 DEF n
<1>19. ASSUME NEW w \in Workers, RecordRetry(w)
      PROVE  LockInv'
  BY <1>19 DEF RecordRetry
<1>20. ASSUME NEW w \in Workers, RecordRaises(w)
      PROVE  LockInv'
  BY <1>20 DEF RecordRaises
<1>21. ASSUME NEW w \in Workers, TaskFails(w)
      PROVE  LockInv'
  BY <1>21 DEF TaskFails
<1>22. ASSUME NEW w \in Workers, WorkerCrash(w)
      PROVE  LockInv'
  BY <1>22 DEF WorkerCrash
<1>23. ASSUME NEW w \in Workers, Redeliver(w)
      PROVE  LockInv'
  BY <1>23 DEF Redeliver
<1>24. ASSUME NEW m \in Messages, LoseTask(m)
      PROVE  LockInv'
  BY <1>24 DEF LoseTask
<1>25. ASSUME NEW m \in Messages, TimePasses(m)
      PROVE  LockInv'
  BY <1>25 DEF TimePasses
<1>26. ASSUME NEW m \in Messages, LeaseOutlived(m)
      PROVE  LockInv'
  BY <1>26 DEF LeaseOutlived
<1>27. ASSUME NEW m \in Messages, ExpressDeadline(m)
      PROVE  LockInv'
  BY <1>27 DEF ExpressDeadline
<1>28. CASE UNCHANGED vars
  BY <1>28 DEF vars
<1>. HIDE DEF LockInv, TypeOK
<1>. QED
  BY <1>1, <1>2, <1>3, <1>4, <1>5, <1>6, <1>7, <1>8, <1>9, <1>10, <1>11, <1>12, <1>13,
     <1>14, <1>15, <1>16, <1>17, <1>18, <1>19, <1>20, <1>21, <1>22, <1>23, <1>24, <1>25,
     <1>26, <1>27, <1>28
  DEF Next, ApiStep, RelayStep, ClaimStep, PublishStep, ReapSelectStep, WorkerStep, TakeTask,
       ProviderStep, RecordOutcome, EnvironmentStep

\* Every live lock of every reachable state fits its holder's work.
LEMMA LockInvCorrect == Spec => [](TypeOK /\ LockInv)
<1>1. Init => LockInv
  BY CastAssumption DEF Init, LockInv
<1>. QED
  BY <1>1, LockInvStep, TypeCorrect, PTL DEF Spec

\* No process goes on to other work and leaves a live lock behind.
THEOREM LocksAreInUse == Spec => []LockHolderAtWork
<1>1. LockInv => LockHolderAtWork
  BY DEF LockInv, LockHolderAtWork
<1>. QED
  BY <1>1, LockInvCorrect, PTL

\* In one step a lock changes hands only when its lease is over, or from a relay to a worker.
LEMMA TakeoverStep ==
    ASSUME TypeOK, LockInv, [Next]_vars, NEW n \in Messages,
           lockedBy[n] \in Relays \cup Workers, ~timeUp[n], lockedBy'[n] \in Relays \cup Workers
    PROVE  \/ lockedBy'[n] = lockedBy[n]
           \/ lockedBy[n] \in Relays /\ lockedBy'[n] \in Workers
<1>. USE CastAssumption
<1>. USE DEF TypeOK, LockInv, MayStart, IsClaimable, Eligible,
             jobVars, msgVars, moneyVars, relayVars, workerVars, envVars,
             Fault, Bury, Receives, EndTask, Records, PermanentlyFail
<1>1. ASSUME NEW u \in Users, TopUp(u)
      PROVE  \/ lockedBy'[n] = lockedBy[n]
             \/ lockedBy[n] \in Relays /\ lockedBy'[n] \in Workers
  BY <1>1 DEF TopUp
<1>2. ASSUME NEW u \in Users, ZeroCredits(u)
      PROVE  \/ lockedBy'[n] = lockedBy[n]
             \/ lockedBy[n] \in Relays /\ lockedBy'[n] \in Workers
  BY <1>2 DEF ZeroCredits
<1>3. ASSUME NEW m \in Messages, Submit(m)
      PROVE  \/ lockedBy'[n] = lockedBy[n]
             \/ lockedBy[n] \in Relays /\ lockedBy'[n] \in Workers
  BY <1>3 DEF Submit
<1>4. ASSUME NEW r \in Relays, NEW S \in SUBSET Messages, ClaimBatch(r, S)
      PROVE  \/ lockedBy'[n] = lockedBy[n]
             \/ lockedBy[n] \in Relays /\ lockedBy'[n] \in Workers
  BY <1>4 DEF ClaimBatch
<1>5. ASSUME NEW r \in Relays, NEW m \in Messages, Publish(r, m)
      PROVE  \/ lockedBy'[n] = lockedBy[n]
             \/ lockedBy[n] \in Relays /\ lockedBy'[n] \in Workers
  BY <1>5 DEF Publish
<1>6. ASSUME NEW r \in Relays, NEW m \in Messages, NEW reached \in BOOLEAN, PublishRaises(r, m, reached)
      PROVE  \/ lockedBy'[n] = lockedBy[n]
             \/ lockedBy[n] \in Relays /\ lockedBy'[n] \in Workers
  BY <1>6 DEF PublishRaises
<1>7. ASSUME NEW r \in Relays, FinishPublish(r)
      PROVE  \/ lockedBy'[n] = lockedBy[n]
             \/ lockedBy[n] \in Relays /\ lockedBy'[n] \in Workers
  BY <1>7 DEF FinishPublish
<1>8. ASSUME NEW r \in Relays, RelayCrash(r)
      PROVE  \/ lockedBy'[n] = lockedBy[n]
             \/ lockedBy[n] \in Relays /\ lockedBy'[n] \in Workers
  BY <1>8 DEF RelayCrash
<1>9. ASSUME NEW r \in Relays, NEW S \in SUBSET Messages, ReapSelect(r, S)
      PROVE  \/ lockedBy'[n] = lockedBy[n]
             \/ lockedBy[n] \in Relays /\ lockedBy'[n] \in Workers
  BY <1>9 DEF ReapSelect
<1>10. ASSUME NEW r \in Relays, ReapUpdate(r)
      PROVE  \/ lockedBy'[n] = lockedBy[n]
             \/ lockedBy[n] \in Relays /\ lockedBy'[n] \in Workers
  BY <1>10 DEF ReapUpdate
<1>11. ASSUME NEW w \in Workers, NEW m \in Messages, DropTask(w, m)
      PROVE  \/ lockedBy'[n] = lockedBy[n]
             \/ lockedBy[n] \in Relays /\ lockedBy'[n] \in Workers
  BY <1>11 DEF DropTask
<1>12. ASSUME NEW w \in Workers, NEW m \in Messages, RaiseTask(w, m)
      PROVE  \/ lockedBy'[n] = lockedBy[n]
             \/ lockedBy[n] \in Relays /\ lockedBy'[n] \in Workers
  BY <1>12 DEF RaiseTask
<1>13. ASSUME NEW w \in Workers, NEW m \in Messages, ExpireTask(w, m)
      PROVE  \/ lockedBy'[n] = lockedBy[n]
             \/ lockedBy[n] \in Relays /\ lockedBy'[n] \in Workers
  BY <1>13 DEF ExpireTask
<1>14. ASSUME NEW w \in Workers, NEW m \in Messages, StartDelivery(w, m)
      PROVE  \/ lockedBy'[n] = lockedBy[n]
             \/ lockedBy[n] \in Relays /\ lockedBy'[n] \in Workers
  BY <1>14 DEF StartDelivery
<1>15. ASSUME NEW w \in Workers, NEW outcome \in Outcomes, ProviderAnswers(w, outcome)
      PROVE  \/ lockedBy'[n] = lockedBy[n]
             \/ lockedBy[n] \in Relays /\ lockedBy'[n] \in Workers
  BY <1>15 DEF ProviderAnswers
<1>16. ASSUME NEW w \in Workers, RecordLeaseLost(w)
      PROVE  \/ lockedBy'[n] = lockedBy[n]
             \/ lockedBy[n] \in Relays /\ lockedBy'[n] \in Workers
  BY <1>16 DEF RecordLeaseLost
<1>17. ASSUME NEW w \in Workers, RecordSuccess(w)
      PROVE  \/ lockedBy'[n] = lockedBy[n]
             \/ lockedBy[n] \in Relays /\ lockedBy'[n] \in Workers
  BY <1>17 DEF RecordSuccess
<1>18. ASSUME NEW w \in Workers, RecordFailure(w)
      PROVE  \/ lockedBy'[n] = lockedBy[n]
             \/ lockedBy[n] \in Relays /\ lockedBy'[n] \in Workers
  BY <1>18 DEF RecordFailure
<1>19. ASSUME NEW w \in Workers, RecordRetry(w)
      PROVE  \/ lockedBy'[n] = lockedBy[n]
             \/ lockedBy[n] \in Relays /\ lockedBy'[n] \in Workers
  BY <1>19 DEF RecordRetry
<1>20. ASSUME NEW w \in Workers, RecordRaises(w)
      PROVE  \/ lockedBy'[n] = lockedBy[n]
             \/ lockedBy[n] \in Relays /\ lockedBy'[n] \in Workers
  BY <1>20 DEF RecordRaises
<1>21. ASSUME NEW w \in Workers, TaskFails(w)
      PROVE  \/ lockedBy'[n] = lockedBy[n]
             \/ lockedBy[n] \in Relays /\ lockedBy'[n] \in Workers
  BY <1>21 DEF TaskFails
<1>22. ASSUME NEW w \in Workers, WorkerCrash(w)
      PROVE  \/ lockedBy'[n] = lockedBy[n]
             \/ lockedBy[n] \in Relays /\ lockedBy'[n] \in Workers
  BY <1>22 DEF WorkerCrash
<1>23. ASSUME NEW w \in Workers, Redeliver(w)
      PROVE  \/ lockedBy'[n] = lockedBy[n]
             \/ lockedBy[n] \in Relays /\ lockedBy'[n] \in Workers
  BY <1>23 DEF Redeliver
<1>24. ASSUME NEW m \in Messages, LoseTask(m)
      PROVE  \/ lockedBy'[n] = lockedBy[n]
             \/ lockedBy[n] \in Relays /\ lockedBy'[n] \in Workers
  BY <1>24 DEF LoseTask
<1>25. ASSUME NEW m \in Messages, TimePasses(m)
      PROVE  \/ lockedBy'[n] = lockedBy[n]
             \/ lockedBy[n] \in Relays /\ lockedBy'[n] \in Workers
  BY <1>25 DEF TimePasses
<1>26. ASSUME NEW m \in Messages, LeaseOutlived(m)
      PROVE  \/ lockedBy'[n] = lockedBy[n]
             \/ lockedBy[n] \in Relays /\ lockedBy'[n] \in Workers
  BY <1>26 DEF LeaseOutlived
<1>27. ASSUME NEW m \in Messages, ExpressDeadline(m)
      PROVE  \/ lockedBy'[n] = lockedBy[n]
             \/ lockedBy[n] \in Relays /\ lockedBy'[n] \in Workers
  BY <1>27 DEF ExpressDeadline
<1>28. CASE UNCHANGED vars
  BY <1>28 DEF vars
<1>. QED
  BY <1>1, <1>2, <1>3, <1>4, <1>5, <1>6, <1>7, <1>8, <1>9, <1>10, <1>11, <1>12, <1>13,
     <1>14, <1>15, <1>16, <1>17, <1>18, <1>19, <1>20, <1>21, <1>22, <1>23, <1>24, <1>25,
     <1>26, <1>27, <1>28
  DEF Next, ApiStep, RelayStep, ClaimStep, PublishStep, ReapSelectStep, WorkerStep, TakeTask,
       ProviderStep, RecordOutcome, EnvironmentStep

\* Leases exclude: a lock is taken over only when its lease is over, except by the worker that
\* receives the task its relay has just published.
THEOREM LeasesExclude == Spec => NoTakeoverOfFreshLease
<1>1. TypeOK /\ LockInv /\ [Next]_vars
      => [\A m \in Messages :
            lockedBy[m] \in Relays \cup Workers /\ ~timeUp[m] /\ lockedBy'[m] \in Relays \cup Workers
            => \/ lockedBy'[m] = lockedBy[m]
               \/ lockedBy[m] \in Relays /\ lockedBy'[m] \in Workers]_vars
  BY TakeoverStep
<1>. QED
  BY <1>1, LockInvCorrect, PTL DEF Spec, NoTakeoverOfFreshLease

-------------------------------------------------------------------------------
\* Every count of a customer's report adds up: the statuses and the payments of his messages are
\* two partitions of the same rows, and StatusMatchesPayment makes them agree part by part.
THEOREM ReportsAddUp == Spec => []ReportAddsUp
<1>1. ASSUME TypeOK, PaymentInv, NEW u \in Users
      PROVE  LET sum == Summary(u) IN
             /\ sum.queued + sum.dispatching + sum.failed = sum.reserved
             /\ sum.sent = sum.deducted
             /\ sum.permanent_failed = sum.refunded
             /\ sum.reserved + sum.deducted + sum.refunded = sum.total
  <2>. DEFINE mine == {m \in Messages : UserOf[m] = u}
              With(s) == {m \in mine : msgStatus[m] = s}
              Paid(p) == {m \in mine : payment[m] = p}
              there == {m \in mine : msgStatus[m] # "ABSENT"}
              waiting == With("QUEUED") \cup With("DISPATCHING")
              settled == Paid("DEDUCTED") \cup Paid("REFUNDED")
  <2>1. \A m \in Messages :
          /\ payment[m] = "RESERVED" <=> msgStatus[m] \in {"QUEUED", "DISPATCHING", "FAILED"}
          /\ payment[m] = "DEDUCTED" <=> msgStatus[m] = "SENT"
          /\ payment[m] = "REFUNDED" <=> msgStatus[m] = "PERMANENT_FAILED"
    BY <1>1 DEF TypeOK, PaymentInv, RowsTogether, StatusMatchesPayment, MessageStatuses, Payments
  <2>2. /\ With("SENT") = Paid("DEDUCTED") /\ With("PERMANENT_FAILED") = Paid("REFUNDED")
        /\ Paid("RESERVED") = waiting \cup With("FAILED")
        /\ waiting \cap With("FAILED") = {}
        /\ With("QUEUED") \cap With("DISPATCHING") = {}
    BY <2>1
  <2>3. /\ there = Paid("RESERVED") \cup settled
        /\ Paid("RESERVED") \cap settled = {}
        /\ Paid("DEDUCTED") \cap Paid("REFUNDED") = {}
    BY <1>1, <2>1 DEF TypeOK, MessageStatuses
  <2>4. there \in SUBSET Messages
    OBVIOUS
  <2>5. IsFiniteSet(there)
    BY <2>4, FS_Subset, PricingAssumption
  <2>6. Summary(u) =
          [total |-> Cardinality(there),
           queued |-> Cardinality(With("QUEUED")),
           dispatching |-> Cardinality(With("DISPATCHING")),
           failed |-> Cardinality(With("FAILED")), sent |-> Cardinality(With("SENT")),
           permanent_failed |-> Cardinality(With("PERMANENT_FAILED")),
           reserved |-> Cardinality(Paid("RESERVED")),
           deducted |-> Cardinality(Paid("DEDUCTED")),
           refunded |-> Cardinality(Paid("REFUNDED"))]
    BY DEF Summary
  <2>. HIDE DEF mine, With, Paid, there, waiting, settled
  <2>7. /\ Cardinality(there) = Cardinality(Paid("RESERVED")) + Cardinality(settled)
        /\ IsFiniteSet(Paid("RESERVED")) /\ IsFiniteSet(settled)
    BY <2>3, <2>5, CountParts
  <2>8. /\ Cardinality(settled) = Cardinality(Paid("DEDUCTED")) + Cardinality(Paid("REFUNDED"))
        /\ Cardinality(Paid("DEDUCTED")) \in Nat /\ Cardinality(Paid("REFUNDED")) \in Nat
    <3>1. IsFiniteSet(settled)
      BY <2>7
    <3>2. settled = Paid("DEDUCTED") \cup Paid("REFUNDED")
      BY DEF settled
    <3>3. Paid("DEDUCTED") \cap Paid("REFUNDED") = {}
      BY <2>3
    <3>. QED
      BY <3>1, <3>2, <3>3, CountParts
  <2>9. /\ Cardinality(Paid("RESERVED")) = Cardinality(waiting) + Cardinality(With("FAILED"))
        /\ IsFiniteSet(waiting) /\ Cardinality(With("FAILED")) \in Nat
    <3>1. Paid("RESERVED") = waiting \cup With("FAILED") /\ waiting \cap With("FAILED") = {}
      BY <2>2
    <3>. QED
      BY <2>7, <3>1, CountParts
  <2>10. /\ Cardinality(waiting) = Cardinality(With("QUEUED")) + Cardinality(With("DISPATCHING"))
         /\ Cardinality(With("QUEUED")) \in Nat /\ Cardinality(With("DISPATCHING")) \in Nat
    <3>1. waiting = With("QUEUED") \cup With("DISPATCHING") /\ With("QUEUED") \cap With("DISPATCHING") = {}
      BY <2>2 DEF waiting
    <3>. QED
      BY <2>9, <3>1, CountParts
  <2>. QED
    BY <2>2, <2>6, <2>7, <2>8, <2>9, <2>10
<1>2. TypeOK /\ PaymentInv => ReportAddsUp
  BY <1>1 DEF ReportAddsUp
<1>. QED
  BY <1>2, PaymentInvCorrect, PTL

-------------------------------------------------------------------------------
\* A set of messages costs a natural number.
LEMMA TotalCostType ==
    ASSUME NEW S \in SUBSET Messages
    PROVE  TotalCost(S) \in Nat
<1>1. IsFiniteSet(S \ ExpressMessages) /\ IsFiniteSet(S \cap ExpressMessages)
  BY FS_Subset, PricingAssumption
<1>2. Cardinality(S \ ExpressMessages) \in Nat /\ Cardinality(S \cap ExpressMessages) \in Nat
  BY <1>1, FS_CardinalityType
<1>3. /\ CostNormal * Cardinality(S \ ExpressMessages) \in Nat
      /\ CostExpress * Cardinality(S \cap ExpressMessages) \in Nat
  BY <1>2, PricingAssumption
<1>. QED
  BY <1>3 DEF TotalCost

\* One message more costs its price more.
LEMMA TotalCostAdd ==
    ASSUME NEW S \in SUBSET Messages, NEW m \in Messages \ S
    PROVE  TotalCost(S \cup {m}) = TotalCost(S) + Cost(m)
<1>1. IsFiniteSet(S \ ExpressMessages) /\ IsFiniteSet(S \cap ExpressMessages)
  BY FS_Subset, PricingAssumption
<1>2. Cardinality(S \ ExpressMessages) \in Nat /\ Cardinality(S \cap ExpressMessages) \in Nat
  BY <1>1, FS_CardinalityType
<1>. DEFINE n == Cardinality(S \ ExpressMessages)
            e == Cardinality(S \cap ExpressMessages)
<1>3. CASE m \in ExpressMessages
  <2>1. /\ (S \cup {m}) \ ExpressMessages = S \ ExpressMessages
        /\ (S \cup {m}) \cap ExpressMessages = (S \cap ExpressMessages) \cup {m}
    BY <1>3
  <2>2. Cardinality((S \cap ExpressMessages) \cup {m}) = e + 1
    BY <1>1, FS_AddElement
  <2>3. CostExpress * (e + 1) = CostExpress * e + CostExpress
    BY <1>2, PricingAssumption
  <2>4. /\ TotalCost(S \cup {m}) = CostNormal * n + CostExpress * (e + 1)
        /\ TotalCost(S) = CostNormal * n + CostExpress * e
    BY <2>1, <2>2 DEF TotalCost
  <2>5. CostNormal * n \in Nat /\ CostExpress * e \in Nat
    BY <1>2, PricingAssumption
  <2>. HIDE DEF n, e
  <2>. QED
    BY <1>3, <2>3, <2>4, <2>5, PricingAssumption DEF Cost
<1>4. CASE m \notin ExpressMessages
  <2>1. /\ (S \cup {m}) \ ExpressMessages = (S \ ExpressMessages) \cup {m}
        /\ (S \cup {m}) \cap ExpressMessages = S \cap ExpressMessages
    BY <1>4
  <2>2. Cardinality((S \ ExpressMessages) \cup {m}) = n + 1
    BY <1>1, FS_AddElement
  <2>3. CostNormal * (n + 1) = CostNormal * n + CostNormal
    BY <1>2, PricingAssumption
  <2>4. /\ TotalCost(S \cup {m}) = CostNormal * (n + 1) + CostExpress * e
        /\ TotalCost(S) = CostNormal * n + CostExpress * e
    BY <2>1, <2>2 DEF TotalCost
  <2>5. CostNormal * n \in Nat /\ CostExpress * e \in Nat
    BY <1>2, PricingAssumption
  <2>. HIDE DEF n, e
  <2>. QED
    BY <1>4, <2>3, <2>4, <2>5, PricingAssumption DEF Cost
<1>. QED
  BY <1>3, <1>4

\* What user u's messages with payment p cost when message m's payment changes from its old value.
Part(m, u, p, is) == IF UserOf[m] = u /\ is = p THEN Cost(m) ELSE 0

\* Of the payments' totals, a changed payment moves the one it leaves and the one it enters.
LEMMA PaymentMoves ==
    ASSUME payment \in [Messages -> Payments], NEW m \in Messages, NEW q \in Payments,
           payment' = [payment EXCEPT ![m] = q], NEW u \in Users, NEW p \in Payments
    PROVE  TotalCost(L!MessagesOf(u, p)') + Part(m, u, p, payment[m])
           = TotalCost(L!MessagesOf(u, p)) + Part(m, u, p, q)
<1>. DEFINE others == {n \in Messages \ {m} : UserOf[n] = u /\ payment[n] = p}
<1>1. L!MessagesOf(u, p) =
        IF UserOf[m] = u /\ payment[m] = p THEN others \cup {m} ELSE others
  BY DEF L!MessagesOf
<1>2. L!MessagesOf(u, p)' = IF UserOf[m] = u /\ q = p THEN others \cup {m} ELSE others
  BY DEF L!MessagesOf
<1>3. TotalCost(others \cup {m}) = TotalCost(others) + Cost(m)
  BY TotalCostAdd
<1>4. TotalCost(others) \in Nat /\ Cost(m) \in Nat
  BY TotalCostType, CostType
<1>. HIDE DEF others
<1>. QED
  BY <1>1, <1>2, <1>3, <1>4 DEF Part

-------------------------------------------------------------------------------
\* What the balance row of u says too little or too much, against what its messages say.
ReservedExcess(u) == reserved[u] - L!Held(u)
CreditsExcess(u) == credits[u] + L!Spent(u) - toppedUp[u]

\* A step after which the balance rows are right, or wrong, as before.
BalanceFollows ==
    \A u \in Users : /\ ReservedExcess(u)' = ReservedExcess(u)
                     /\ CreditsExcess(u)' = CreditsExcess(u)

\* What is held and spent are amounts, before a step and after.
LEMMA SumsType ==
    \A u \in Users : /\ L!Held(u) \in Nat /\ L!Spent(u) \in Nat
                     /\ L!Held(u)' \in Nat /\ L!Spent(u)' \in Nat
<1>1. \A u \in Users : L!Held(u) \in Nat /\ L!Spent(u) \in Nat
  BY TotalCostType DEF L!Held, L!Spent, L!MessagesOf
<1>2. \A u \in Users : L!Held(u)' \in Nat /\ L!Spent(u)' \in Nat
  <2>1. \A u, p : L!MessagesOf(u, p)' \in SUBSET Messages
    BY DEF L!MessagesOf
  <2>2. \A u : L!Held(u)' = TotalCost(L!MessagesOf(u, "RESERVED")') /\ L!Spent(u)' = TotalCost(L!MessagesOf(u, "DEDUCTED")')
    BY DEF L!Held, L!Spent, TotalCost
  <2>. QED
    BY <2>1, <2>2, TotalCostType
<1>. QED
  BY <1>1, <1>2

\* The balance follows a change of a payment that comes with its entries.
LEMMA EntriesFollow ==
    ASSUME TypeOK, NEW m \in Messages, NEW q \in Payments,
           payment' = [payment EXCEPT ![m] = q],
           toppedUp' = toppedUp,
           \A u \in Users :
               /\ reserved'[u] + Part(m, u, "RESERVED", payment[m])
                  = reserved[u] + Part(m, u, "RESERVED", q)
               /\ credits'[u] - Part(m, u, "DEDUCTED", payment[m])
                  = credits[u] - Part(m, u, "DEDUCTED", q),
           reserved' \in [Users -> Int], credits' \in [Users -> Int]
    PROVE  BalanceFollows
<1>. SUFFICES ASSUME NEW u \in Users
              PROVE  /\ ReservedExcess(u)' = ReservedExcess(u)
                     /\ CreditsExcess(u)' = CreditsExcess(u)
  BY DEF BalanceFollows
<1>. DEFINE held == TotalCost(L!MessagesOf(u, "RESERVED"))
            held1 == TotalCost(L!MessagesOf(u, "RESERVED")')
            spent == TotalCost(L!MessagesOf(u, "DEDUCTED"))
            spent1 == TotalCost(L!MessagesOf(u, "DEDUCTED")')
<1>1. /\ held1 + Part(m, u, "RESERVED", payment[m]) = held + Part(m, u, "RESERVED", q)
      /\ spent1 + Part(m, u, "DEDUCTED", payment[m]) = spent + Part(m, u, "DEDUCTED", q)
  BY PaymentMoves DEF TypeOK, Payments
<1>2. held \in Nat /\ held1 \in Nat /\ spent \in Nat /\ spent1 \in Nat
  BY TotalCostType DEF L!MessagesOf
<1>3. /\ L!Held(u) = held /\ L!Held(u)' = held1
      /\ L!Spent(u) = spent /\ L!Spent(u)' = spent1
  BY DEF L!Held, L!Spent, TotalCost
<1>4. \A p, q1 : Part(m, u, p, q1) \in Int
  BY CostType DEF Part
<1>5. toppedUp[u] \in Int /\ reserved[u] \in Int /\ credits[u] \in Int
      /\ reserved'[u] \in Int /\ credits'[u] \in Int
  BY NumberAssumption DEF TypeOK
<1>6. /\ ReservedExcess(u) = reserved[u] - held /\ ReservedExcess(u)' = reserved'[u] - held1
      /\ CreditsExcess(u) = credits[u] + spent - toppedUp[u]
      /\ CreditsExcess(u)' = credits'[u] + spent1 - toppedUp[u]
  BY <1>3 DEF ReservedExcess, CreditsExcess
<1>. HIDE DEF held, held1, spent, spent1
<1>. QED
  BY <1>1, <1>2, <1>4, <1>5, <1>6

\* The balance follows while nobody writes a payment or a balance.
LEMMA UntouchedFollows ==
    ASSUME UNCHANGED <<payment, moneyVars>>
    PROVE  BalanceFollows
BY DEF BalanceFollows, ReservedExcess, CreditsExcess, moneyVars, L!Held, L!Spent, L!MessagesOf, TotalCost

\* The balance follows a refund, which releases what the message held.
LEMMA RefundFollows ==
    ASSUME TypeOK, NEW m \in Messages, payment[m] = "RESERVED", PermanentlyFail(m)
    PROVE  BalanceFollows
<1>1. /\ reserved' = [reserved EXCEPT ![UserOf[m]] = @ - Cost(m)]
      /\ payment' = [payment EXCEPT ![m] = "REFUNDED"]
      /\ UNCHANGED <<credits, toppedUp>>
  BY DEF PermanentlyFail
<1>2. UserOf[m] \in Users /\ Cost(m) \in Int
  BY CastAssumption, CostType
<1>3. reserved' \in [Users -> Int] /\ credits' \in [Users -> Int]
  BY <1>1, <1>2 DEF TypeOK
<1>4. \A u \in Users :
        /\ reserved'[u] + Part(m, u, "RESERVED", payment[m])
           = reserved[u] + Part(m, u, "RESERVED", "REFUNDED")
        /\ credits'[u] - Part(m, u, "DEDUCTED", payment[m])
           = credits[u] - Part(m, u, "DEDUCTED", "REFUNDED")
  BY <1>1, <1>2 DEF TypeOK, Part
<1>. QED
  BY <1>1, <1>3, <1>4, EntriesFollow DEF Payments

\* The balance follows every step but the debug reset.
LEMMA StepFollows ==
    ASSUME TypeOK, PaymentInv, [Next]_vars, ~\E u \in Users : ZeroCredits(u)
    PROVE  BalanceFollows
<1>. USE DEF jobVars, msgVars, relayVars, workerVars, envVars
<1>1. ASSUME NEW u \in Users, TopUp(u)
      PROVE  BalanceFollows
  <2>1. /\ UNCHANGED <<payment, reserved>>
        /\ \A v \in Users : credits'[v] - credits[v] = toppedUp'[v] - toppedUp[v]
    BY <1>1, NumberAssumption DEF TopUp, TypeOK
  <2>2. \A v \in Users : L!Held(v)' = L!Held(v) /\ L!Spent(v)' = L!Spent(v)
    BY <2>1 DEF L!Held, L!Spent, L!MessagesOf, TotalCost
  <2>3. ASSUME NEW v \in Users
        PROVE  ReservedExcess(v)' = ReservedExcess(v) /\ CreditsExcess(v)' = CreditsExcess(v)
    <3>. DEFINE spent == L!Spent(v)
    <3>1. spent \in Nat
      BY SumsType
    <3>2. /\ toppedUp[v] \in Int /\ toppedUp'[v] \in Int
          /\ credits[v] \in Int /\ credits'[v] \in Int
      BY <1>1, NumberAssumption DEF TopUp, TypeOK
    <3>3. /\ CreditsExcess(v) = credits[v] + spent - toppedUp[v]
          /\ CreditsExcess(v)' = credits'[v] + spent - toppedUp'[v]
          /\ ReservedExcess(v)' = ReservedExcess(v)
      BY <2>1, <2>2 DEF CreditsExcess, ReservedExcess
    <3>. HIDE DEF spent
    <3>. QED
      BY <2>1, <3>1, <3>2, <3>3
  <2>. QED
    BY <2>3 DEF BalanceFollows
<1>2. ASSUME NEW u \in Users, ZeroCredits(u)
      PROVE  BalanceFollows
  BY <1>2
<1>3. ASSUME NEW m \in Messages, Submit(m)
      PROVE  BalanceFollows
  <2>1. /\ payment[m] = "NONE"
        /\ payment' = [payment EXCEPT ![m] = "RESERVED"]
        /\ reserved' = [reserved EXCEPT ![UserOf[m]] = @ + Cost(m)]
        /\ UNCHANGED <<credits, toppedUp>>
    BY <1>3 DEF Submit, PaymentInv, RowsTogether
  <2>2. UserOf[m] \in Users /\ Cost(m) \in Int
    BY CastAssumption, CostType
  <2>3. reserved' \in [Users -> Int] /\ credits' \in [Users -> Int]
    BY <2>1, <2>2 DEF TypeOK
  <2>4. \A u \in Users :
          /\ reserved'[u] + Part(m, u, "RESERVED", payment[m])
             = reserved[u] + Part(m, u, "RESERVED", "RESERVED")
          /\ credits'[u] - Part(m, u, "DEDUCTED", payment[m])
             = credits[u] - Part(m, u, "DEDUCTED", "RESERVED")
    BY <2>1, <2>2 DEF TypeOK, Part
  <2>. QED
    BY <2>1, <2>3, <2>4, EntriesFollow DEF Payments
<1>4. ASSUME NEW r \in Relays, NEW S \in SUBSET Messages, ClaimBatch(r, S)
      PROVE  BalanceFollows
  BY <1>4, UntouchedFollows DEF ClaimBatch
<1>5. ASSUME NEW r \in Relays, NEW m \in Messages, Publish(r, m)
      PROVE  BalanceFollows
  BY <1>5, UntouchedFollows DEF Publish
<1>6. ASSUME NEW r \in Relays, NEW m \in Messages, NEW reached \in BOOLEAN, PublishRaises(r, m, reached)
      PROVE  BalanceFollows
  BY <1>6, UntouchedFollows DEF PublishRaises
<1>7. ASSUME NEW r \in Relays, FinishPublish(r)
      PROVE  BalanceFollows
  BY <1>7, UntouchedFollows DEF FinishPublish
<1>8. ASSUME NEW r \in Relays, RelayCrash(r)
      PROVE  BalanceFollows
  BY <1>8, UntouchedFollows DEF RelayCrash
<1>9. ASSUME NEW r \in Relays, NEW S \in SUBSET Messages, ReapSelect(r, S)
      PROVE  BalanceFollows
  BY <1>9, UntouchedFollows DEF ReapSelect
<1>10. ASSUME NEW r \in Relays, ReapUpdate(r)
      PROVE  BalanceFollows
  BY <1>10, UntouchedFollows DEF ReapUpdate
<1>11. ASSUME NEW w \in Workers, NEW m \in Messages, DropTask(w, m)
      PROVE  BalanceFollows
  BY <1>11, UntouchedFollows DEF DropTask
<1>12. ASSUME NEW w \in Workers, NEW m \in Messages, RaiseTask(w, m)
      PROVE  BalanceFollows
  BY <1>12, UntouchedFollows DEF RaiseTask
<1>13. ASSUME NEW w \in Workers, NEW m \in Messages, ExpireTask(w, m)
      PROVE  BalanceFollows
  BY <1>13, RefundFollows DEF ExpireTask
<1>14. ASSUME NEW w \in Workers, NEW m \in Messages, StartDelivery(w, m)
      PROVE  BalanceFollows
  BY <1>14, UntouchedFollows DEF StartDelivery
<1>15. ASSUME NEW w \in Workers, NEW outcome \in Outcomes, ProviderAnswers(w, outcome)
      PROVE  BalanceFollows
  BY <1>15, UntouchedFollows DEF ProviderAnswers
<1>16. ASSUME NEW w \in Workers, RecordLeaseLost(w)
      PROVE  BalanceFollows
  BY <1>16, UntouchedFollows DEF RecordLeaseLost
<1>17. ASSUME NEW w \in Workers, RecordSuccess(w)
      PROVE  BalanceFollows
  <2>. DEFINE m == workerJob[w]
  <2>1. m \in Messages /\ payment[m] = "RESERVED"
    BY <1>17 DEF RecordSuccess, Records, HoldsLease, TypeOK, PaymentInv, InFlightIsReserved
  <2>2. /\ payment' = [payment EXCEPT ![m] = "DEDUCTED"]
        /\ reserved' = [reserved EXCEPT ![UserOf[m]] = @ - Cost(m)]
        /\ credits' = [credits EXCEPT ![UserOf[m]] = @ - Cost(m)]
        /\ UNCHANGED toppedUp
    BY <1>17 DEF RecordSuccess
  <2>. HIDE DEF m
  <2>3. UserOf[m] \in Users /\ Cost(m) \in Int
    BY <2>1, CastAssumption, CostType
  <2>4. reserved' \in [Users -> Int] /\ credits' \in [Users -> Int]
    BY <2>2, <2>3 DEF TypeOK
  <2>5. \A u \in Users :
          /\ reserved'[u] + Part(m, u, "RESERVED", payment[m])
             = reserved[u] + Part(m, u, "RESERVED", "DEDUCTED")
          /\ credits'[u] - Part(m, u, "DEDUCTED", payment[m])
             = credits[u] - Part(m, u, "DEDUCTED", "DEDUCTED")
    BY <2>1, <2>2, <2>3 DEF TypeOK, Part
  <2>. QED
    BY <2>1, <2>2, <2>4, <2>5, EntriesFollow DEF Payments
<1>18. ASSUME NEW w \in Workers, RecordFailure(w)
      PROVE  BalanceFollows
  <2>1. workerJob[w] \in Messages /\ payment[workerJob[w]] = "RESERVED" /\ PermanentlyFail(workerJob[w])
    BY <1>18 DEF RecordFailure, Records, HoldsLease, TypeOK, PaymentInv, InFlightIsReserved
  <2>. QED
    BY <2>1, RefundFollows
<1>19. ASSUME NEW w \in Workers, RecordRetry(w)
      PROVE  BalanceFollows
  <2>1. workerJob[w] \in Messages /\ payment[workerJob[w]] = "RESERVED"
    BY <1>19 DEF RecordRetry, Records, HoldsLease, TypeOK, PaymentInv, InFlightIsReserved
  <2>2. UNCHANGED <<payment, moneyVars>>
    BY <1>19, <2>1 DEF RecordRetry, TypeOK
  <2>. QED
    BY <2>2, UntouchedFollows
<1>20. ASSUME NEW w \in Workers, RecordRaises(w)
      PROVE  BalanceFollows
  BY <1>20, UntouchedFollows DEF RecordRaises, Bury, EndTask
<1>21. ASSUME NEW w \in Workers, TaskFails(w)
      PROVE  BalanceFollows
  BY <1>21, UntouchedFollows DEF TaskFails
<1>22. ASSUME NEW w \in Workers, WorkerCrash(w)
      PROVE  BalanceFollows
  BY <1>22, UntouchedFollows DEF WorkerCrash
<1>23. ASSUME NEW w \in Workers, Redeliver(w)
      PROVE  BalanceFollows
  BY <1>23, UntouchedFollows DEF Redeliver
<1>24. ASSUME NEW m \in Messages, LoseTask(m)
      PROVE  BalanceFollows
  BY <1>24, UntouchedFollows DEF LoseTask
<1>25. ASSUME NEW m \in Messages, TimePasses(m)
      PROVE  BalanceFollows
  BY <1>25, UntouchedFollows DEF TimePasses
<1>26. ASSUME NEW m \in Messages, LeaseOutlived(m)
      PROVE  BalanceFollows
  BY <1>26, UntouchedFollows DEF LeaseOutlived
<1>27. ASSUME NEW m \in Messages, ExpressDeadline(m)
      PROVE  BalanceFollows
  BY <1>27, UntouchedFollows DEF ExpressDeadline
<1>28. CASE UNCHANGED vars
  BY <1>28, UntouchedFollows DEF vars
<1>. QED
  BY <1>1, <1>2, <1>3, <1>4, <1>5, <1>6, <1>7, <1>8, <1>9, <1>10, <1>11, <1>12, <1>13,
     <1>14, <1>15, <1>16, <1>17, <1>18, <1>19, <1>20, <1>21, <1>22, <1>23, <1>24, <1>25,
     <1>26, <1>27, <1>28
  DEF Next, ApiStep, RelayStep, ClaimStep, PublishStep, ReapSelectStep, WorkerStep, TakeTask,
       ProviderStep, RecordOutcome, EnvironmentStep

-------------------------------------------------------------------------------
\* The balance rows are the books of the messages.
Books ==
    \A u \in Users : reserved[u] = L!Held(u) /\ credits[u] = toppedUp[u] - L!Spent(u)

\* One step keeps the books right, unless it is a reset.
LEMMA BooksStep == ~AppDebug /\ TypeOK /\ PaymentInv /\ Books /\ [Next]_vars => Books'
<1>. SUFFICES ASSUME ~AppDebug, TypeOK, PaymentInv, Books, [Next]_vars, NEW u \in Users
              PROVE  reserved'[u] = L!Held(u)' /\ credits'[u] = toppedUp'[u] - L!Spent(u)'
  BY DEF Books
<1>. DEFINE held == L!Held(u)
            held1 == L!Held(u)'
            spent == L!Spent(u)
            spent1 == L!Spent(u)'
<1>1. BalanceFollows
  BY StepFollows DEF ZeroCredits
<1>2. /\ reserved'[u] - held1 = reserved[u] - held
      /\ credits'[u] + spent1 - toppedUp'[u] = credits[u] + spent - toppedUp[u]
  BY <1>1 DEF BalanceFollows, ReservedExcess, CreditsExcess
<1>3. /\ reserved[u] \in Int /\ credits[u] \in Int /\ toppedUp[u] \in Int
      /\ reserved'[u] \in Int /\ credits'[u] \in Int /\ toppedUp'[u] \in Int
  BY TypeStep, NumberAssumption DEF TypeOK
<1>4. held \in Int /\ held1 \in Int /\ spent \in Int /\ spent1 \in Int
  BY SumsType
<1>5. reserved[u] = held /\ credits[u] = toppedUp[u] - spent
  BY DEF Books
<1>. HIDE DEF held, held1, spent, spent1
<1>6. reserved[u] - held = 0 /\ credits[u] + spent - toppedUp[u] = 0
  BY <1>3, <1>4, <1>5
<1>7. reserved'[u] - held1 = 0 /\ credits'[u] + spent1 - toppedUp'[u] = 0
  BY <1>2, <1>6
<1>8. \A a, b \in Int : a - b = 0 => a = b
  OBVIOUS
<1>9. \A a, b, c \in Int : a + b - c = 0 => a = c - b
  OBVIOUS
<1>10. reserved'[u] = held1
  BY <1>3, <1>4, <1>7, <1>8
<1>11. credits'[u] = toppedUp'[u] - spent1
  BY <1>3, <1>4, <1>7, <1>9
<1>. QED
  BY <1>10, <1>11 DEF held1, spent1

\* Before the first top-up the books are empty.
LEMMA BooksInit == Init => Books
<1>. SUFFICES ASSUME Init, NEW u \in Users
              PROVE  reserved[u] = L!Held(u) /\ credits[u] = toppedUp[u] - L!Spent(u)
  BY DEF Books
<1>1. L!MessagesOf(u, "RESERVED") = {} /\ L!MessagesOf(u, "DEDUCTED") = {}
  BY DEF Init, L!MessagesOf
<1>2. TotalCost({}) = 0
  <2>1. {} \ ExpressMessages = {} /\ {} \cap ExpressMessages = {}
    OBVIOUS
  <2>. QED
    BY <2>1, FS_EmptySet, PricingAssumption DEF TotalCost
<1>3. L!Held(u) = 0 /\ L!Spent(u) = 0
  BY <1>1, <1>2 DEF L!Held, L!Spent
<1>. QED
  BY <1>3 DEF Init

\* The books are right in every reachable state.
LEMMA BooksCorrect == ASSUME ~AppDebug PROVE Spec => []Books
<1>1. TypeOK /\ PaymentInv /\ Books /\ [Next]_vars => Books'
  BY BooksStep
<1>. QED
  BY <1>1, BooksInit, PaymentInvCorrect, PTL DEF Spec

\* Without the debug endpoint, a user's reserved credits are the cost of the reserved messages and
\* the credits are what was bought less the cost of the deducted ones, in every reachable state.
THEOREM MoneyIsConserved == Spec => []Conservation
<1>1. Books => Conservation
  BY DEF Books, Conservation
<1>2. AppDebug => Conservation
  BY DEF Conservation
<1>3. CASE ~AppDebug
  BY <1>1, <1>3, BooksCorrect, PTL
<1>4. CASE AppDebug
  <2>1. Conservation
    BY <1>2, <1>4
  <2>. QED
    BY <2>1, PTL
<1>. QED
  BY <1>3, <1>4

-------------------------------------------------------------------------------
\* What the CHECK constraints say of every balance.
BalancesOK == \A u \in Users : BalanceOK(credits[u], reserved[u])

\* One step keeps every balance legal: top-ups add, and every other entry is checked first.
LEMMA BalancesStep == TypeOK /\ PaymentInv /\ BalancesOK /\ [Next]_vars => BalancesOK'
<1>. SUFFICES ASSUME TypeOK, PaymentInv, BalancesOK, [Next]_vars PROVE BalancesOK'
  OBVIOUS
<1>. USE CastAssumption, NumberAssumption, CostType
<1>. USE DEF TypeOK, BalancesOK, BalanceOK, CanReserve, CanRelease, CanSettle,
             jobVars, msgVars, moneyVars, relayVars, workerVars, envVars,
             Fault, Bury, Receives, EndTask, Records, PermanentlyFail
<1>1. ASSUME NEW u \in Users, TopUp(u)
      PROVE  BalancesOK'
  BY <1>1 DEF TopUp
<1>2. ASSUME NEW u \in Users, ZeroCredits(u)
      PROVE  BalancesOK'
  BY <1>2 DEF ZeroCredits
<1>3. ASSUME NEW m \in Messages, Submit(m)
      PROVE  BalancesOK'
  BY <1>3 DEF Submit
<1>4. ASSUME NEW r \in Relays, NEW S \in SUBSET Messages, ClaimBatch(r, S)
      PROVE  BalancesOK'
  BY <1>4 DEF ClaimBatch
<1>5. ASSUME NEW r \in Relays, NEW m \in Messages, Publish(r, m)
      PROVE  BalancesOK'
  BY <1>5 DEF Publish
<1>6. ASSUME NEW r \in Relays, NEW m \in Messages, NEW reached \in BOOLEAN, PublishRaises(r, m, reached)
      PROVE  BalancesOK'
  BY <1>6 DEF PublishRaises
<1>7. ASSUME NEW r \in Relays, FinishPublish(r)
      PROVE  BalancesOK'
  BY <1>7 DEF FinishPublish
<1>8. ASSUME NEW r \in Relays, RelayCrash(r)
      PROVE  BalancesOK'
  BY <1>8 DEF RelayCrash
<1>9. ASSUME NEW r \in Relays, NEW S \in SUBSET Messages, ReapSelect(r, S)
      PROVE  BalancesOK'
  BY <1>9 DEF ReapSelect
<1>10. ASSUME NEW r \in Relays, ReapUpdate(r)
      PROVE  BalancesOK'
  BY <1>10 DEF ReapUpdate
<1>11. ASSUME NEW w \in Workers, NEW m \in Messages, DropTask(w, m)
      PROVE  BalancesOK'
  BY <1>11 DEF DropTask
<1>12. ASSUME NEW w \in Workers, NEW m \in Messages, RaiseTask(w, m)
      PROVE  BalancesOK'
  BY <1>12 DEF RaiseTask
<1>13. ASSUME NEW w \in Workers, NEW m \in Messages, ExpireTask(w, m)
      PROVE  BalancesOK'
  BY <1>13 DEF ExpireTask
<1>14. ASSUME NEW w \in Workers, NEW m \in Messages, StartDelivery(w, m)
      PROVE  BalancesOK'
  BY <1>14 DEF StartDelivery
<1>15. ASSUME NEW w \in Workers, NEW outcome \in Outcomes, ProviderAnswers(w, outcome)
      PROVE  BalancesOK'
  BY <1>15 DEF ProviderAnswers
<1>16. ASSUME NEW w \in Workers, RecordLeaseLost(w)
      PROVE  BalancesOK'
  BY <1>16 DEF RecordLeaseLost
<1>17. ASSUME NEW w \in Workers, RecordSuccess(w)
      PROVE  BalancesOK'
  BY <1>17 DEF RecordSuccess
<1>18. ASSUME NEW w \in Workers, RecordFailure(w)
      PROVE  BalancesOK'
  BY <1>18 DEF RecordFailure
<1>19. ASSUME NEW w \in Workers, RecordRetry(w)
      PROVE  BalancesOK'
  BY <1>19 DEF RecordRetry
<1>20. ASSUME NEW w \in Workers, RecordRaises(w)
      PROVE  BalancesOK'
  BY <1>20 DEF RecordRaises
<1>21. ASSUME NEW w \in Workers, TaskFails(w)
      PROVE  BalancesOK'
  BY <1>21 DEF TaskFails
<1>22. ASSUME NEW w \in Workers, WorkerCrash(w)
      PROVE  BalancesOK'
  BY <1>22 DEF WorkerCrash
<1>23. ASSUME NEW w \in Workers, Redeliver(w)
      PROVE  BalancesOK'
  BY <1>23 DEF Redeliver
<1>24. ASSUME NEW m \in Messages, LoseTask(m)
      PROVE  BalancesOK'
  BY <1>24 DEF LoseTask
<1>25. ASSUME NEW m \in Messages, TimePasses(m)
      PROVE  BalancesOK'
  BY <1>25 DEF TimePasses
<1>26. ASSUME NEW m \in Messages, LeaseOutlived(m)
      PROVE  BalancesOK'
  BY <1>26 DEF LeaseOutlived
<1>27. ASSUME NEW m \in Messages, ExpressDeadline(m)
      PROVE  BalancesOK'
  BY <1>27 DEF ExpressDeadline
<1>28. CASE UNCHANGED vars
  BY <1>28 DEF vars
<1>. HIDE DEF TypeOK, BalancesOK
<1>. QED
  BY <1>1, <1>2, <1>3, <1>4, <1>5, <1>6, <1>7, <1>8, <1>9, <1>10, <1>11, <1>12, <1>13,
     <1>14, <1>15, <1>16, <1>17, <1>18, <1>19, <1>20, <1>21, <1>22, <1>23, <1>24, <1>25,
     <1>26, <1>27, <1>28
  DEF Next, ApiStep, RelayStep, ClaimStep, PublishStep, ReapSelectStep, WorkerStep, TakeTask,
       ProviderStep, RecordOutcome, EnvironmentStep

\* One step lets nobody submit on what was not bought: all but a reset write an entry for what they
\* do, and a reset leaves nothing free, where there was some or nothing.
LEMMA CreditStep == TypeOK /\ PaymentInv /\ BalancesOK /\ CreditIsPaidFor /\ [Next]_vars => CreditIsPaidFor'
<1>. SUFFICES ASSUME TypeOK, PaymentInv, BalancesOK, CreditIsPaidFor, [Next]_vars, NEW u \in Users
              PROVE  (reserved[u] <= L!Held(u) /\ credits[u] - reserved[u] <= L!Available(u))'
  BY DEF CreditIsPaidFor
<1>. DEFINE held == L!Held(u)
            held1 == L!Held(u)'
            spent == L!Spent(u)
            spent1 == L!Spent(u)'
<1>1. /\ reserved[u] <= held /\ credits[u] - reserved[u] <= toppedUp[u] - spent - held
      /\ reserved[u] <= credits[u]
  BY DEF CreditIsPaidFor, L!Available, BalancesOK, BalanceOK
<1>2. /\ reserved[u] \in Int /\ credits[u] \in Int /\ toppedUp[u] \in Int
      /\ reserved'[u] \in Int /\ credits'[u] \in Int /\ toppedUp'[u] \in Int
  BY TypeStep, NumberAssumption DEF TypeOK
<1>3. held \in Nat /\ held1 \in Nat /\ spent \in Nat /\ spent1 \in Nat
  BY SumsType
<1>. SUFFICES reserved'[u] <= held1 /\ credits'[u] - reserved'[u] <= toppedUp'[u] - spent1 - held1
  BY DEF L!Available
<1>4. CASE \E v \in Users : ZeroCredits(v)
  <2>1. PICK v \in Users : ZeroCredits(v)
    BY <1>4
  <2>2. UNCHANGED <<payment, toppedUp>>
    BY <2>1 DEF ZeroCredits, msgVars
  <2>3. held1 = held /\ spent1 = spent /\ toppedUp'[u] = toppedUp[u]
    BY <2>2 DEF L!Held, L!Spent, L!MessagesOf, TotalCost
  <2>4. \/ credits'[u] = 0 /\ reserved'[u] = 0
        \/ credits'[u] = credits[u] /\ reserved'[u] = reserved[u]
    BY <2>1 DEF ZeroCredits, TypeOK
  <2>. HIDE DEF held, held1, spent, spent1
  <2>. QED
    BY <1>1, <1>2, <1>3, <2>3, <2>4
<1>5. CASE ~\E v \in Users : ZeroCredits(v)
  <2>1. BalanceFollows
    BY <1>5, StepFollows
  <2>2. /\ reserved'[u] - held1 = reserved[u] - held
        /\ credits'[u] + spent1 - toppedUp'[u] = credits[u] + spent - toppedUp[u]
    BY <2>1 DEF BalanceFollows, ReservedExcess, CreditsExcess
  <2>. HIDE DEF held, held1, spent, spent1
  <2>. QED
    BY <1>1, <1>2, <1>3, <2>2
<1>. QED
  BY <1>4, <1>5

\* With the debug endpoint or without, nobody ever has credit to submit on that was not bought, or
\* that is spent or owed, and nothing is reserved that no message holds.
THEOREM NoFreeCredit == Spec => []CreditIsPaidFor
<1>1. Init => BalancesOK
  BY DEF Init, BalancesOK, BalanceOK
<1>2. Init => CreditIsPaidFor
  <2>. SUFFICES ASSUME Init, NEW u \in Users
                PROVE  reserved[u] <= L!Held(u) /\ credits[u] - reserved[u] <= L!Available(u)
    BY DEF CreditIsPaidFor
  <2>1. reserved[u] = L!Held(u) /\ credits[u] = toppedUp[u] - L!Spent(u)
    BY BooksInit DEF Books
  <2>2. reserved[u] = 0 /\ credits[u] = 0 /\ toppedUp[u] = 0 /\ L!Spent(u) \in Nat
    BY SumsType DEF Init
  <2>. QED
    BY <2>1, <2>2 DEF L!Available
<1>. QED
  BY <1>1, <1>2, BalancesStep, CreditStep, PaymentInvCorrect, PTL DEF Spec

-------------------------------------------------------------------------------
\* Every step of the implementation is a step of the ledger, or leaves the ledger alone.
LedgerOrStutter == L!LedgerNext \/ UNCHANGED L!ledgerVars

\* Giving a message up is a refund of the ledger.
LEMMA RefundsInLedger ==
    ASSUME NEW m \in Messages, payment[m] = "RESERVED", PermanentlyFail(m), UNCHANGED delivered
    PROVE  LedgerOrStutter
<1>1. L!Refund(m)
  BY DEF PermanentlyFail, L!Refund
<1>. QED
  BY <1>1 DEF LedgerOrStutter, L!LedgerNext

\* The balance row admits a reservation only on credit that the ledger has, because the two agree.
LEMMA AcceptsInLedger ==
    ASSUME TypeOK, PaymentInv, Books, NEW m \in Messages, Submit(m)
    PROVE  LedgerOrStutter
<1>. DEFINE u == UserOf[m]
<1>1. payment[m] = "NONE" /\ payment' = [payment EXCEPT ![m] = "RESERVED"]
      /\ UNCHANGED <<toppedUp, delivered>> /\ credits[u] >= reserved[u] + Cost(m)
  BY DEF Submit, CanReserve, BalanceOK, PaymentInv, RowsTogether, envVars
<1>2. u \in Users /\ Cost(m) \in Nat
  BY CastAssumption, CostType
<1>3. /\ reserved[u] = L!Held(u) /\ credits[u] = toppedUp[u] - L!Spent(u)
      /\ reserved[u] \in Int /\ credits[u] \in Int
  BY <1>2 DEF Books, TypeOK
<1>4. L!Available(u) >= Cost(m)
  <2>. DEFINE spent == L!Spent(u)
  <2>1. L!Available(u) = toppedUp[u] - spent - reserved[u]
    BY <1>3 DEF L!Available
  <2>. HIDE DEF spent, u
  <2>. QED
    BY <1>1, <1>2, <1>3, <2>1 DEF spent
<1>5. L!Accept(m)
  BY <1>1, <1>4 DEF L!Accept
<1>. QED
  BY <1>5 DEF LedgerOrStutter, L!LedgerNext

\* Whatever step is taken, the ledger takes one of its own or none.
LEMMA LedgerStep ==
    ~AppDebug /\ TypeOK /\ PaymentInv /\ Books /\ [Next]_vars => LedgerOrStutter
<1>. SUFFICES ASSUME ~AppDebug, TypeOK, PaymentInv, Books, [Next]_vars PROVE LedgerOrStutter
  OBVIOUS
<1>. USE DEF msgVars, envVars
<1>1. ASSUME NEW u \in Users, TopUp(u)
      PROVE  LedgerOrStutter
  BY <1>1 DEF TopUp, LedgerOrStutter, L!LedgerNext, L!Buy
<1>2. ASSUME NEW u \in Users, ZeroCredits(u)
      PROVE  LedgerOrStutter
  BY <1>2 DEF ZeroCredits
<1>3. ASSUME NEW m \in Messages, Submit(m)
      PROVE  LedgerOrStutter
  BY <1>3, AcceptsInLedger
<1>4. ASSUME NEW r \in Relays, NEW S \in SUBSET Messages, ClaimBatch(r, S)
      PROVE  LedgerOrStutter
  BY <1>4 DEF ClaimBatch, moneyVars, LedgerOrStutter, L!ledgerVars
<1>5. ASSUME NEW r \in Relays, NEW m \in Messages, Publish(r, m)
      PROVE  LedgerOrStutter
  BY <1>5 DEF Publish, moneyVars, LedgerOrStutter, L!ledgerVars
<1>6. ASSUME NEW r \in Relays, NEW m \in Messages, NEW reached \in BOOLEAN, PublishRaises(r, m, reached)
      PROVE  LedgerOrStutter
  BY <1>6 DEF PublishRaises, moneyVars, LedgerOrStutter, L!ledgerVars
<1>7. ASSUME NEW r \in Relays, FinishPublish(r)
      PROVE  LedgerOrStutter
  BY <1>7 DEF FinishPublish, moneyVars, LedgerOrStutter, L!ledgerVars
<1>8. ASSUME NEW r \in Relays, RelayCrash(r)
      PROVE  LedgerOrStutter
  BY <1>8 DEF RelayCrash, moneyVars, LedgerOrStutter, L!ledgerVars
<1>9. ASSUME NEW r \in Relays, NEW S \in SUBSET Messages, ReapSelect(r, S)
      PROVE  LedgerOrStutter
  BY <1>9 DEF ReapSelect, moneyVars, LedgerOrStutter, L!ledgerVars
<1>10. ASSUME NEW r \in Relays, ReapUpdate(r)
      PROVE  LedgerOrStutter
  BY <1>10 DEF ReapUpdate, moneyVars, LedgerOrStutter, L!ledgerVars
<1>11. ASSUME NEW w \in Workers, NEW m \in Messages, DropTask(w, m)
      PROVE  LedgerOrStutter
  BY <1>11 DEF DropTask, moneyVars, LedgerOrStutter, L!ledgerVars
<1>12. ASSUME NEW w \in Workers, NEW m \in Messages, RaiseTask(w, m)
      PROVE  LedgerOrStutter
  BY <1>12 DEF RaiseTask, moneyVars, LedgerOrStutter, L!ledgerVars
<1>13. ASSUME NEW w \in Workers, NEW m \in Messages, ExpireTask(w, m)
      PROVE  LedgerOrStutter
  BY <1>13, RefundsInLedger DEF ExpireTask
<1>14. ASSUME NEW w \in Workers, NEW m \in Messages, StartDelivery(w, m)
      PROVE  LedgerOrStutter
  BY <1>14 DEF StartDelivery, moneyVars, LedgerOrStutter, L!ledgerVars
<1>15. ASSUME NEW w \in Workers, NEW outcome \in Outcomes, ProviderAnswers(w, outcome)
      PROVE  LedgerOrStutter
  <2>. DEFINE m == workerJob[w]
  <2>1. m \in Messages /\ payment[m] # "NONE" /\ UNCHANGED <<payment, toppedUp>>
    BY <1>15 DEF ProviderAnswers, TypeOK, PaymentInv, OnlySubmitted, moneyVars
  <2>2. CASE outcome = "SUCCESS" /\ delivered[m] < 2
    <3>1. L!Deliver(m)
      BY <1>15, <2>1, <2>2 DEF ProviderAnswers, L!Deliver
    <3>. QED
      BY <2>1, <3>1 DEF LedgerOrStutter, L!LedgerNext
  <2>3. CASE ~(outcome = "SUCCESS" /\ delivered[m] < 2)
    BY <1>15, <2>1, <2>3 DEF ProviderAnswers, LedgerOrStutter, L!ledgerVars
  <2>. QED
    BY <2>2, <2>3
<1>16. ASSUME NEW w \in Workers, RecordLeaseLost(w)
      PROVE  LedgerOrStutter
  BY <1>16 DEF RecordLeaseLost, moneyVars, LedgerOrStutter, L!ledgerVars
<1>17. ASSUME NEW w \in Workers, RecordSuccess(w)
      PROVE  LedgerOrStutter
  <2>. DEFINE m == workerJob[w]
  <2>1. m \in Messages /\ payment[m] = "RESERVED" /\ delivered[m] > 0
    BY <1>17 DEF RecordSuccess, Records, HoldsLease, TypeOK, PaymentInv, InFlightIsReserved, OnlySubmitted
  <2>2. L!Charge(m)
    BY <1>17, <2>1 DEF RecordSuccess, L!Charge
  <2>. QED
    BY <2>1, <2>2 DEF LedgerOrStutter, L!LedgerNext
<1>18. ASSUME NEW w \in Workers, RecordFailure(w)
      PROVE  LedgerOrStutter
  <2>1. workerJob[w] \in Messages /\ payment[workerJob[w]] = "RESERVED"
    BY <1>18 DEF RecordFailure, Records, HoldsLease, TypeOK, PaymentInv, InFlightIsReserved
  <2>. QED
    BY <1>18, <2>1, RefundsInLedger DEF RecordFailure
<1>19. ASSUME NEW w \in Workers, RecordRetry(w)
      PROVE  LedgerOrStutter
  <2>1. workerJob[w] \in Messages /\ payment[workerJob[w]] = "RESERVED"
    BY <1>19 DEF RecordRetry, Records, HoldsLease, TypeOK, PaymentInv, InFlightIsReserved
  <2>. QED
    BY <1>19, <2>1 DEF RecordRetry, TypeOK, moneyVars, LedgerOrStutter, L!ledgerVars
<1>20. ASSUME NEW w \in Workers, RecordRaises(w)
      PROVE  LedgerOrStutter
  BY <1>20 DEF RecordRaises, moneyVars, LedgerOrStutter, L!ledgerVars
<1>21. ASSUME NEW w \in Workers, TaskFails(w)
      PROVE  LedgerOrStutter
  BY <1>21 DEF TaskFails, moneyVars, LedgerOrStutter, L!ledgerVars
<1>22. ASSUME NEW w \in Workers, WorkerCrash(w)
      PROVE  LedgerOrStutter
  BY <1>22 DEF WorkerCrash, moneyVars, LedgerOrStutter, L!ledgerVars
<1>23. ASSUME NEW w \in Workers, Redeliver(w)
      PROVE  LedgerOrStutter
  BY <1>23 DEF Redeliver, moneyVars, LedgerOrStutter, L!ledgerVars
<1>24. ASSUME NEW m \in Messages, LoseTask(m)
      PROVE  LedgerOrStutter
  BY <1>24 DEF LoseTask, moneyVars, LedgerOrStutter, L!ledgerVars
<1>25. ASSUME NEW m \in Messages, TimePasses(m)
      PROVE  LedgerOrStutter
  BY <1>25 DEF TimePasses, moneyVars, LedgerOrStutter, L!ledgerVars
<1>26. ASSUME NEW m \in Messages, LeaseOutlived(m)
      PROVE  LedgerOrStutter
  BY <1>26 DEF LeaseOutlived, moneyVars, LedgerOrStutter, L!ledgerVars
<1>27. ASSUME NEW m \in Messages, ExpressDeadline(m)
      PROVE  LedgerOrStutter
  BY <1>27 DEF ExpressDeadline, moneyVars, LedgerOrStutter, L!ledgerVars
<1>28. CASE UNCHANGED vars
  BY <1>28 DEF vars, moneyVars, LedgerOrStutter, L!ledgerVars
<1>. QED
  BY <1>1, <1>2, <1>3, <1>4, <1>5, <1>6, <1>7, <1>8, <1>9, <1>10, <1>11, <1>12, <1>13,
     <1>14, <1>15, <1>16, <1>17, <1>18, <1>19, <1>20, <1>21, <1>22, <1>23, <1>24, <1>25,
     <1>26, <1>27, <1>28
  DEF Next, ApiStep, RelayStep, ClaimStep, PublishStep, ReapSelectStep, WorkerStep, TakeTask,
       ProviderStep, RecordOutcome, EnvironmentStep

\* The outbox, the relays, the workers and the reaper implement the ledger the customer was
\* promised, for every number of processes, messages and faults (the debug endpoint disabled).
THEOREM DispatchImplementsLedger == ASSUME ~AppDebug PROVE Spec => ImplementsLedger
<1>1. Init => L!LedgerInit
  BY DEF Init, L!LedgerInit
<1>2. TypeOK /\ PaymentInv /\ Books /\ [Next]_vars => [L!LedgerNext]_(L!ledgerVars)
  BY LedgerStep DEF LedgerOrStutter
<1>. QED
  BY <1>1, <1>2, PaymentInvCorrect, BooksCorrect, PTL DEF Spec, ImplementsLedger, L!LedgerSpec
===============================================================================
