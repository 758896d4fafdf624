------------------------------- MODULE Dispatch -------------------------------
(* The life of an SMS in the gateway: submission against a prepaid balance,   *)
(* the transactional outbox (dispatch_jobs), the relays that publish its jobs *)
(* to RabbitMQ, the Celery workers that deliver them, and the reaper that     *)
(* recovers the jobs a dead relay or worker left in flight.                   *)
(*                                                                            *)
(* A message and its dispatch job are created together and map one to one, so *)
(* both are indexed by the message. One transaction is one step, except the   *)
(* reaper's UPDATE, whose sub-select reads a snapshot and whose writes come   *)
(* later (see ReapSelect).                                                    *)
EXTENDS Pricing

CONSTANTS
    Users,
    UserOf,                 \* the user who submits a message
    TopUpAmount,
    MaxToppedUp,            \* bound: total credits a user ever buys
    AppDebug,               \* settings.app_debug: POST /users/{id}/zero exists
    Relays,                 \* relay processes
    ExpressRelays,          \* those started with -Q express
    BatchSize,              \* PriorityConfig.batch_size
    ReapLimit,              \* REAP_LIMIT
    Workers,                \* concurrent executions of the Celery task
    MaxDeliveryAttempts,
    QueueCap,               \* bound: copies of one task in RabbitMQ
    MaxFaults,              \* bound: crashes, exceptions, lost calls, outlived leases
    None,
    Dead                    \* the id of any process that no longer runs

ASSUME CastAssumption ==
    /\ UserOf \in [Messages -> Users]
    /\ ExpressRelays \subseteq Relays
    /\ AppDebug \in BOOLEAN
    /\ None \notin Relays \cup Workers \cup Messages
    /\ Dead \notin Relays \cup Workers \cup {None}
    /\ Relays \cap Workers = {}

ASSUME NumberAssumption ==
    /\ TopUpAmount \in Nat \ {0}
    /\ BatchSize \in Nat \ {0} /\ ReapLimit \in Nat \ {0}
    /\ MaxDeliveryAttempts \in Nat \ {0} /\ QueueCap \in Nat \ {0}
    /\ MaxToppedUp \in Nat /\ MaxFaults \in Nat

VARIABLES
    \* the row of dispatch_jobs
    jobStatus,
    lockedBy,
    timeUp,       \* the wait that starts with the current status is over
    attempts,     \* delivery_attempts
    \* the rows of messages and balances
    msgStatus,
    payment,
    credits,
    reserved,
    \* RabbitMQ
    copies,       \* undelivered copies of the job's task
    \* a relay: the batch of publish_claimed_jobs, and the ids of a running reap
    todo,
    published,
    failed,
    reapIds,
    \* a worker: the job it delivers, the provider's answer, its unacked task
    workerJob,
    answer,
    unacked,
    \* the environment
    late,         \* the message is older than express_ttl_seconds
    toppedUp,     \* history: credits bought
    delivered,    \* history: successful provider calls, counted up to 2
    faults        \* what is left of MaxFaults

jobVars    == <<jobStatus, lockedBy, timeUp, attempts>>
moneyVars  == <<credits, reserved, toppedUp>>
msgVars    == <<msgStatus, payment>>
relayVars  == <<todo, published, failed, reapIds>>
workerVars == <<workerJob, answer, unacked>>
envVars    == <<late, delivered>>
vars == <<jobVars, msgVars, moneyVars, copies, relayVars, workerVars, envVars, faults>>

JobStatuses == {"ABSENT", "PENDING", "PUBLISHED", "DISPATCHING", "RETRY", "COMPLETED", "FAILED"}
MessageStatuses == {"ABSENT", "QUEUED", "DISPATCHING", "FAILED", "SENT", "PERMANENT_FAILED"}
Payments == {"NONE", "RESERVED", "DEDUCTED", "REFUNDED"}
Outcomes == {"SUCCESS", "TEMPORARY_FAILURE", "PERMANENT_FAILURE"}
TERMINAL_JOB_STATUSES == {"COMPLETED", "FAILED"}

ASSUME AnswerAssumption == None \notin Outcomes

\* delivery_attempts is only compared with MaxDeliveryAttempts: above it, all values are alike.
AttemptCap == MaxDeliveryAttempts + 1
NextAttempt(m) == attempts[m] + 1
\* Mutant of CountAttempt: one failure is counted by two parties.
CountAttemptTwice(m) == attempts[m] + 2
CountAttempt(m) == IF attempts[m] < AttemptCap THEN NextAttempt(m) ELSE AttemptCap

\* The CHECK constraints of balances; a transaction that breaks one is rolled back.
BalanceOK(c, r) == c >= 0 /\ c >= r /\ r >= 0

-------------------------------------------------------------------------------
Init ==
    /\ jobStatus = [m \in Messages |-> "ABSENT"]
    /\ lockedBy = [m \in Messages |-> None]
    /\ timeUp = [m \in Messages |-> FALSE]
    /\ attempts = [m \in Messages |-> 0]
    /\ msgStatus = [m \in Messages |-> "ABSENT"]
    /\ payment = [m \in Messages |-> "NONE"]
    /\ credits = [u \in Users |-> 0]
    /\ reserved = [u \in Users |-> 0]
    /\ toppedUp = [u \in Users |-> 0]
    /\ copies = [m \in Messages |-> 0]
    /\ todo = [r \in Relays |-> {}]
    /\ published = [r \in Relays |-> {}]
    /\ failed = [r \in Relays |-> {}]
    /\ reapIds = [r \in Relays |-> {}]
    /\ workerJob = [w \in Workers |-> None]
    /\ answer = [w \in Workers |-> None]
    /\ unacked = [w \in Workers |-> FALSE]
    /\ late = [m \in Messages |-> FALSE]
    /\ delivered = [m \in Messages |-> 0]
    /\ faults = MaxFaults

\* A step the environment may take only MaxFaults times.
Fault == faults > 0 /\ faults' = faults - 1

\* Process p stops: nobody will ever present its (random) id again.
Bury(p) == lockedBy' = [m \in Messages |-> IF lockedBy[m] = p THEN Dead ELSE lockedBy[m]]

-------------------------------------------------------------------------------
\* The API.

TopUp(u) ==
    /\ toppedUp[u] + TopUpAmount <= MaxToppedUp
    /\ credits' = [credits EXCEPT ![u] = @ + TopUpAmount]
    /\ toppedUp' = [toppedUp EXCEPT ![u] = @ + TopUpAmount]
    /\ UNCHANGED <<jobVars, msgVars, reserved, copies, relayVars, workerVars, envVars, faults>>

\* Mutant of ZeroCredits: only what is reserved is reset.
ZeroCreditsReleasing(u) ==
    /\ AppDebug
    /\ reserved' = [reserved EXCEPT ![u] = 0]
    /\ UNCHANGED <<jobVars, msgVars, credits, toppedUp, copies, relayVars, workerVars, envVars, faults>>

ZeroCredits(u) ==
    /\ AppDebug
    /\ credits' = [credits EXCEPT ![u] = 0]
    /\ reserved' = [reserved EXCEPT ![u] = 0]
    /\ UNCHANGED <<jobVars, msgVars, toppedUp, copies, relayVars, workerVars, envVars, faults>>

CanReserve(u, m) == BalanceOK(credits[u], reserved[u] + Cost(m))

\* Message, outbox row and reservation in one transaction; it leaves nothing when a CHECK fails.
Submit(m) ==
    LET u == UserOf[m] IN
    /\ jobStatus[m] = "ABSENT"
    /\ CanReserve(u, m)
    /\ reserved' = [reserved EXCEPT ![u] = @ + Cost(m)]
    /\ payment' = [payment EXCEPT ![m] = "RESERVED"]
    /\ msgStatus' = [msgStatus EXCEPT ![m] = "QUEUED"]
    /\ jobStatus' = [jobStatus EXCEPT ![m] = "PENDING"]
    /\ timeUp' = [timeUp EXCEPT ![m] = TRUE]
    /\ UNCHANGED <<lockedBy, attempts, credits, toppedUp, copies, relayVars, workerVars,
                   envVars, faults>>

-------------------------------------------------------------------------------
\* The relay.

Serves(r, m) == r \in ExpressRelays <=> m \in ExpressMessages

RelayIdle(r) == todo[r] \cup published[r] \cup failed[r] \cup reapIds[r] = {}

\* Due and unlocked, or locked so long ago that the 60 s lease is over: timeUp is either.
Eligible(r, m) ==
    /\ Serves(r, m)
    /\ jobStatus[m] \in {"PENDING", "RETRY"}
    /\ timeUp[m]

\* SKIP LOCKED may pass over any eligible row, so any non-empty batch may come back.
ClaimBatch(r, S) ==
    /\ RelayIdle(r)
    /\ S # {} /\ Cardinality(S) <= BatchSize
    /\ \A m \in S : Eligible(r, m)
    /\ lockedBy' = [m \in Messages |-> IF m \in S THEN r ELSE lockedBy[m]]
    /\ timeUp' = [m \in Messages |-> timeUp[m] /\ m \notin S]
    /\ todo' = [todo EXCEPT ![r] = S]
    /\ UNCHANGED <<jobStatus, attempts, msgVars, moneyVars, copies, published, failed, reapIds,
                   workerVars, envVars, faults>>

Publish(r, m) ==
    /\ m \in todo[r]
    /\ copies[m] < QueueCap
    /\ copies' = [copies EXCEPT ![m] = @ + 1]
    /\ todo' = [todo EXCEPT ![r] = @ \ {m}]
    /\ published' = [published EXCEPT ![r] = @ \cup {m}]
    /\ UNCHANGED <<jobVars, msgVars, moneyVars, failed, reapIds, workerVars, envVars, faults>>

\* apply_async raises, after the broker took the task (reached) or before; the loop ends.
PublishRaises(r, m, reached) ==
    /\ m \in todo[r]
    /\ reached => copies[m] < QueueCap
    /\ Fault
    /\ copies' = [copies EXCEPT ![m] = IF reached THEN @ + 1 ELSE @]
    /\ todo' = [todo EXCEPT ![r] = {}]
    /\ failed' = [failed EXCEPT ![r] = todo[r]]
    /\ UNCHANGED <<jobVars, msgVars, moneyVars, published, reapIds, workerVars, envVars>>

\* Mutant of StillClaimedBy: a job claimed for the second time is not PENDING any more.
StillClaimedByFirstTime(r, m) == lockedBy[m] = r /\ jobStatus[m] = "PENDING"

StillClaimedBy(r, m) == lockedBy[m] = r /\ jobStatus[m] \in {"PENDING", "RETRY"}

\* mark_published and mark_publish_retry, in one transaction.
FinishPublish(r) ==
    LET done == {m \in published[r] : StillClaimedBy(r, m)}
        undone == {m \in failed[r] : StillClaimedBy(r, m)}
    IN
    /\ todo[r] = {} /\ published[r] \cup failed[r] # {}
    /\ jobStatus' = [m \in Messages |-> IF m \in done THEN "PUBLISHED"
                                        ELSE IF m \in undone THEN "RETRY" ELSE jobStatus[m]]
    /\ lockedBy' = [m \in Messages |-> IF m \in done \cup undone THEN None ELSE lockedBy[m]]
    /\ timeUp' = [m \in Messages |-> timeUp[m] /\ m \notin done \cup undone]
    /\ published' = [published EXCEPT ![r] = {}]
    /\ failed' = [failed EXCEPT ![r] = {}]
    /\ UNCHANGED <<attempts, msgVars, moneyVars, copies, todo, reapIds, workerVars, envVars, faults>>

\* The process dies, or an exception leaves run(); a new process starts with a new id.
RelayCrash(r) ==
    /\ ~RelayIdle(r)
    /\ Fault
    /\ Bury(r)
    /\ todo' = [todo EXCEPT ![r] = {}]
    /\ published' = [published EXCEPT ![r] = {}]
    /\ failed' = [failed EXCEPT ![r] = {}]
    /\ reapIds' = [reapIds EXCEPT ![r] = {}]
    /\ UNCHANGED <<jobStatus, timeUp, attempts, msgVars, moneyVars, copies, workerVars, envVars>>

-------------------------------------------------------------------------------
\* The reaper, run by each relay for its own priority.

StaleInFlight(r) ==
    {m \in Messages : Serves(r, m) /\ jobStatus[m] \in {"PUBLISHED", "DISPATCHING"} /\ timeUp[m]}

\* The sub-select of the UPDATE reads the statement's snapshot ...
ReapSelect(r, S) ==
    /\ RelayIdle(r)
    /\ S # {} /\ S \subseteq StaleInFlight(r)
    /\ Cardinality(S) = ReapLimit \/ (Cardinality(S) < ReapLimit /\ S = StaleInFlight(r))
    /\ reapIds' = [reapIds EXCEPT ![r] = S]
    /\ UNCHANGED <<jobVars, msgVars, moneyVars, copies, todo, published, failed, workerVars,
                   envVars, faults>>

\* Mutant of ReapUpdate: the reaper retires a job whose attempts are spent by itself.
ReapUpdateRetiring(r) ==
    LET S == reapIds[r] IN
    /\ S # {}
    /\ jobStatus' = [m \in Messages |->
                       IF m \notin S THEN jobStatus[m]
                       ELSE IF NextAttempt(m) >= MaxDeliveryAttempts THEN "FAILED" ELSE "RETRY"]
    /\ attempts' = [m \in Messages |-> IF m \in S THEN CountAttempt(m) ELSE attempts[m]]
    /\ timeUp' = [m \in Messages |-> timeUp[m] \/ m \in S]
    /\ lockedBy' = [m \in Messages |-> IF m \in S THEN None ELSE lockedBy[m]]
    /\ reapIds' = [reapIds EXCEPT ![r] = {}]
    /\ UNCHANGED <<msgVars, moneyVars, copies, todo, published, failed, workerVars, envVars, faults>>

\* ... and the rows are written when their row locks are free. READ COMMITTED re-checks the
\* outer WHERE on the new row version, and that WHERE tests only the id.
ReapUpdate(r) ==
    LET S == reapIds[r] IN
    /\ S # {}
    /\ jobStatus' = [m \in Messages |-> IF m \in S THEN "RETRY" ELSE jobStatus[m]]
    /\ attempts' = [m \in Messages |-> IF m \in S THEN CountAttempt(m) ELSE attempts[m]]
    /\ timeUp' = [m \in Messages |-> timeUp[m] \/ m \in S]
    /\ lockedBy' = [m \in Messages |-> IF m \in S THEN None ELSE lockedBy[m]]
    /\ reapIds' = [reapIds EXCEPT ![r] = {}]
    /\ UNCHANGED <<msgVars, moneyVars, copies, todo, published, failed, workerVars, envVars, faults>>

-------------------------------------------------------------------------------
\* The worker: a claim transaction, the provider call outside any transaction, and a
\* transaction that records the outcome if the lease is still held.

WorkerIdle(w) == workerJob[w] = None

Receives(w, m) == WorkerIdle(w) /\ copies[m] > 0 /\ copies' = [copies EXCEPT ![m] = @ - 1]

\* Mutant of IsClaimable: a DISPATCHING job is claimed without looking at its lease.
IsClaimableIgnoringLease(m) ==
    \/ jobStatus[m] \in {"DISPATCHING", "PUBLISHED"}
    \/ jobStatus[m] \in {"PENDING", "RETRY"} /\ lockedBy[m] # None

IsClaimable(m) ==
    \/ jobStatus[m] = "DISPATCHING" /\ timeUp[m]
    \/ jobStatus[m] = "PUBLISHED"
    \/ jobStatus[m] \in {"PENDING", "RETRY"} /\ lockedBy[m] # None

CanRelease(m) == BalanceOK(credits[UserOf[m]], reserved[UserOf[m]] - Cost(m))

\* Mutant of PermanentlyFail: the reservation is not given back.
PermanentlyFailKeepingCredits(m) ==
    /\ CanRelease(m)
    /\ payment' = [payment EXCEPT ![m] = "REFUNDED"]
    /\ msgStatus' = [msgStatus EXCEPT ![m] = "PERMANENT_FAILED"]
    /\ jobStatus' = [jobStatus EXCEPT ![m] = "FAILED"]
    /\ lockedBy' = [lockedBy EXCEPT ![m] = None]
    /\ timeUp' = [timeUp EXCEPT ![m] = FALSE]
    /\ UNCHANGED <<attempts, moneyVars>>

\* Mutant of PermanentlyFail: the message row keeps its status.
PermanentlyFailKeepingStatus(m) ==
    /\ CanRelease(m)
    /\ reserved' = [reserved EXCEPT ![UserOf[m]] = @ - Cost(m)]
    /\ payment' = [payment EXCEPT ![m] = "REFUNDED"]
    /\ jobStatus' = [jobStatus EXCEPT ![m] = "FAILED"]
    /\ lockedBy' = [lockedBy EXCEPT ![m] = None]
    /\ timeUp' = [timeUp EXCEPT ![m] = FALSE]
    /\ UNCHANGED <<attempts, credits, toppedUp, msgStatus>>

\* Mutant of PermanentlyFail: a message given up on is paid for.
PermanentlyFailCharging(m) ==
    /\ CanRelease(m)
    /\ credits' = [credits EXCEPT ![UserOf[m]] = @ - Cost(m)]
    /\ reserved' = [reserved EXCEPT ![UserOf[m]] = @ - Cost(m)]
    /\ payment' = [payment EXCEPT ![m] = "DEDUCTED"]
    /\ msgStatus' = [msgStatus EXCEPT ![m] = "SENT"]
    /\ jobStatus' = [jobStatus EXCEPT ![m] = "COMPLETED"]
    /\ lockedBy' = [lockedBy EXCEPT ![m] = None]
    /\ timeUp' = [timeUp EXCEPT ![m] = FALSE]
    /\ UNCHANGED <<attempts, toppedUp>>

\* The transition both failure paths share; its transaction commits only if no CHECK fails.
PermanentlyFail(m) ==
    /\ CanRelease(m)
    /\ reserved' = [reserved EXCEPT ![UserOf[m]] = @ - Cost(m)]
    /\ payment' = [payment EXCEPT ![m] = "REFUNDED"]
    /\ msgStatus' = [msgStatus EXCEPT ![m] = "PERMANENT_FAILED"]
    /\ jobStatus' = [jobStatus EXCEPT ![m] = "FAILED"]
    /\ lockedBy' = [lockedBy EXCEPT ![m] = None]
    /\ timeUp' = [timeUp EXCEPT ![m] = FALSE]
    /\ UNCHANGED <<attempts, credits, toppedUp>>

\* Acknowledged without effect: the job is finished, in other hands, or waits for a relay.
DropTask(w, m) ==
    /\ Receives(w, m)
    /\ ~IsClaimable(m)
    /\ UNCHANGED <<jobVars, msgVars, moneyVars, relayVars, workerVars, envVars, faults>>

\* The claim raises and rolls back; Celery acknowledges a task that failed.
RaiseTask(w, m) ==
    /\ Receives(w, m)
    /\ IsClaimable(m)
    /\ payment[m] # "RESERVED" \/ (late[m] /\ ~CanRelease(m))
    /\ UNCHANGED <<jobVars, msgVars, moneyVars, relayVars, workerVars, envVars, faults>>

ExpireTask(w, m) ==
    /\ Receives(w, m)
    /\ IsClaimable(m)
    /\ payment[m] = "RESERVED"
    /\ late[m]
    /\ PermanentlyFail(m)
    /\ UNCHANGED <<relayVars, workerVars, envVars, faults>>

\* Mutant of MayStart: the payment guard is gone.
MayStartUnpaid(m) == IsClaimable(m) /\ ~late[m]

MayStart(m) == IsClaimable(m) /\ payment[m] = "RESERVED" /\ ~late[m]

StartDelivery(w, m) ==
    /\ Receives(w, m)
    /\ MayStart(m)
    /\ msgStatus' = [msgStatus EXCEPT ![m] = "DISPATCHING"]
    /\ jobStatus' = [jobStatus EXCEPT ![m] = "DISPATCHING"]
    /\ lockedBy' = [lockedBy EXCEPT ![m] = w]
    /\ timeUp' = [timeUp EXCEPT ![m] = FALSE]
    /\ workerJob' = [workerJob EXCEPT ![w] = m]
    /\ unacked' = [unacked EXCEPT ![w] = TRUE]
    /\ UNCHANGED <<attempts, payment, moneyVars, relayVars, answer, envVars, faults>>

ProviderAnswers(w, outcome) ==
    LET m == workerJob[w] IN
    /\ m # None /\ answer[w] = None
    /\ answer' = [answer EXCEPT ![w] = outcome]
    /\ delivered' = IF outcome = "SUCCESS" /\ delivered[m] < 2
                    THEN [delivered EXCEPT ![m] = @ + 1] ELSE delivered
    /\ UNCHANGED <<jobVars, msgVars, moneyVars, copies, relayVars, workerJob, unacked, late, faults>>

\* Mutant of HoldsLease: the outcome is recorded without looking at the lease.
HoldsLeaseUnchecked(w) == workerJob[w] # None

HoldsLease(w) == jobStatus[workerJob[w]] = "DISPATCHING" /\ lockedBy[workerJob[w]] = w

\* The task ends; its message leaves the broker.
EndTask(w) ==
    /\ workerJob' = [workerJob EXCEPT ![w] = None]
    /\ answer' = [answer EXCEPT ![w] = None]
    /\ unacked' = [unacked EXCEPT ![w] = FALSE]

Records(w) == workerJob[w] # None /\ answer[w] # None /\ HoldsLease(w)

RecordLeaseLost(w) ==
    /\ workerJob[w] # None /\ answer[w] # None
    /\ ~HoldsLease(w)
    /\ EndTask(w)
    /\ UNCHANGED <<jobVars, msgVars, moneyVars, copies, relayVars, envVars, faults>>

CanSettle(m) == BalanceOK(credits[UserOf[m]] - Cost(m), reserved[UserOf[m]] - Cost(m))

RecordSuccess(w) ==
    LET m == workerJob[w]
        u == UserOf[m]
    IN
    /\ Records(w) /\ answer[w] = "SUCCESS"
    /\ CanSettle(m)
    /\ credits' = [credits EXCEPT ![u] = @ - Cost(m)]
    /\ reserved' = [reserved EXCEPT ![u] = @ - Cost(m)]
    /\ payment' = [payment EXCEPT ![m] = "DEDUCTED"]
    /\ msgStatus' = [msgStatus EXCEPT ![m] = "SENT"]
    /\ jobStatus' = [jobStatus EXCEPT ![m] = "COMPLETED"]
    /\ lockedBy' = [lockedBy EXCEPT ![m] = None]
    /\ timeUp' = [timeUp EXCEPT ![m] = FALSE]
    /\ EndTask(w)
    /\ UNCHANGED <<attempts, toppedUp, copies, relayVars, envVars, faults>>

\* Mutant of AttemptsSpent: the retry budget is never found exhausted.
AttemptsSpentNever(m) == attempts[m] > AttemptCap

AttemptsSpent(m) == NextAttempt(m) >= MaxDeliveryAttempts

\* The backoff (2 to 61 s) may reach past the TTL of an express message that is not late yet.
GivesUp(w, m) ==
    \/ answer[w] = "PERMANENT_FAILURE"
    \/ answer[w] = "TEMPORARY_FAILURE" /\ (AttemptsSpent(m) \/ m \in ExpressMessages)

RecordFailure(w) ==
    LET m == workerJob[w] IN
    /\ Records(w) /\ GivesUp(w, m)
    /\ PermanentlyFail(m)
    /\ EndTask(w)
    /\ UNCHANGED <<copies, relayVars, envVars, faults>>

RecordRetry(w) ==
    LET m == workerJob[w] IN
    /\ Records(w) /\ answer[w] = "TEMPORARY_FAILURE"
    /\ ~AttemptsSpent(m) /\ ~late[m]
    /\ msgStatus' = [msgStatus EXCEPT ![m] = "FAILED"]
    /\ payment' = [payment EXCEPT ![m] = "RESERVED"]
    /\ jobStatus' = [jobStatus EXCEPT ![m] = "RETRY"]
    /\ attempts' = [attempts EXCEPT ![m] = CountAttempt(m)]
    /\ lockedBy' = [lockedBy EXCEPT ![m] = None]
    /\ timeUp' = [timeUp EXCEPT ![m] = FALSE]
    /\ EndTask(w)
    /\ UNCHANGED <<moneyVars, copies, relayVars, envVars, faults>>

\* A CHECK of balances refuses the outcome: rollback, and the task fails with its job in flight.
RecordRaises(w) ==
    LET m == workerJob[w] IN
    /\ Records(w)
    /\ IF answer[w] = "SUCCESS" THEN ~CanSettle(m) ELSE GivesUp(w, m) /\ ~CanRelease(m)
    /\ Bury(w)
    /\ EndTask(w)
    /\ UNCHANGED <<jobStatus, timeUp, attempts, msgVars, moneyVars, copies, relayVars, envVars, faults>>

\* A provider or database exception, or a time limit: acknowledged like any failed task.
TaskFails(w) ==
    /\ workerJob[w] # None
    /\ Fault
    /\ Bury(w)
    /\ EndTask(w)
    /\ UNCHANGED <<jobStatus, timeUp, attempts, msgVars, moneyVars, copies, relayVars, envVars>>

\* The process is lost: reject_on_worker_lost puts the unacknowledged task back.
WorkerCrash(w) ==
    LET m == workerJob[w] IN
    /\ m # None
    /\ unacked[w] => copies[m] < QueueCap
    /\ Fault
    /\ Bury(w)
    /\ copies' = IF unacked[w] THEN [copies EXCEPT ![m] = @ + 1] ELSE copies
    /\ EndTask(w)
    /\ UNCHANGED <<jobStatus, timeUp, attempts, msgVars, moneyVars, relayVars, envVars>>

-------------------------------------------------------------------------------
\* The broker and time.

\* The consumer's connection drops: the task is queued again while its worker still runs.
Redeliver(w) ==
    LET m == workerJob[w] IN
    /\ m # None /\ unacked[w] /\ copies[m] < QueueCap
    /\ Fault
    /\ copies' = [copies EXCEPT ![m] = @ + 1]
    /\ unacked' = [unacked EXCEPT ![w] = FALSE]
    /\ UNCHANGED <<jobVars, msgVars, moneyVars, relayVars, workerJob, answer, envVars>>

LoseTask(m) ==
    /\ copies[m] > 0
    /\ Fault
    /\ copies' = [copies EXCEPT ![m] = @ - 1]
    /\ UNCHANGED <<jobVars, msgVars, moneyVars, relayVars, workerVars, envVars>>

Waits(m) == ~timeUp[m] /\ jobStatus[m] \in {"PENDING", "RETRY", "PUBLISHED", "DISPATCHING"}

\* Nobody is left to end the wait: a backoff, a dead holder's lease, a task that is gone.
Abandoned(m) ==
    \/ jobStatus[m] \in {"PENDING", "RETRY"} /\ lockedBy[m] \in {None, Dead}
    \/ jobStatus[m] = "PUBLISHED" /\ copies[m] = 0
    \/ jobStatus[m] = "DISPATCHING" /\ lockedBy[m] = Dead

TimePasses(m) ==
    /\ Waits(m) /\ Abandoned(m)
    /\ timeUp' = [timeUp EXCEPT ![m] = TRUE]
    /\ UNCHANGED <<jobStatus, lockedBy, attempts, msgVars, moneyVars, copies, relayVars, workerVars,
                   envVars, faults>>

\* A slow relay or worker outlives its lease, or a task waits in the queue past the reaper's limit.
LeaseOutlived(m) ==
    /\ Waits(m) /\ ~Abandoned(m)
    /\ Fault
    /\ timeUp' = [timeUp EXCEPT ![m] = TRUE]
    /\ UNCHANGED <<jobStatus, lockedBy, attempts, msgVars, moneyVars, copies, relayVars, workerVars,
                   envVars>>

ExpressDeadline(m) ==
    /\ m \in ExpressMessages /\ jobStatus[m] # "ABSENT" /\ ~late[m]
    /\ late' = [late EXCEPT ![m] = TRUE]
    /\ UNCHANGED <<jobVars, msgVars, moneyVars, copies, relayVars, workerVars, delivered, faults>>

-------------------------------------------------------------------------------
\* GET /messages/summary: what calculate_summary counts in one statement.
Summary(u) ==
    LET mine == {m \in Messages : UserOf[m] = u}
        inStatus(s) == Cardinality({m \in mine : msgStatus[m] = s})
        paid(p) == Cardinality({m \in mine : payment[m] = p})
    IN  [total |-> Cardinality({m \in mine : msgStatus[m] # "ABSENT"}),
         queued |-> inStatus("QUEUED"), dispatching |-> inStatus("DISPATCHING"),
         failed |-> inStatus("FAILED"), sent |-> inStatus("SENT"),
         permanent_failed |-> inStatus("PERMANENT_FAILED"),
         reserved |-> paid("RESERVED"), deducted |-> paid("DEDUCTED"), refunded |-> paid("REFUNDED")]

-------------------------------------------------------------------------------
ApiStep == (\E u \in Users : TopUp(u) \/ ZeroCredits(u)) \/ (\E m \in Messages : Submit(m))

ClaimStep(r) == \E S \in SUBSET Messages : ClaimBatch(r, S)
ReapSelectStep(r) == \E S \in SUBSET Messages : ReapSelect(r, S)
PublishStep(r) == \E m \in Messages : Publish(r, m)

RelayStep(r) ==
    \/ ClaimStep(r) \/ PublishStep(r) \/ FinishPublish(r)
    \/ ReapSelectStep(r) \/ ReapUpdate(r) \/ RelayCrash(r)
    \/ \E m \in Messages, reached \in BOOLEAN : PublishRaises(r, m, reached)

TakeTask(w, m) == DropTask(w, m) \/ RaiseTask(w, m) \/ ExpireTask(w, m) \/ StartDelivery(w, m)
ProviderStep(w) == \E outcome \in Outcomes : ProviderAnswers(w, outcome)
RecordOutcome(w) ==
    RecordLeaseLost(w) \/ RecordSuccess(w) \/ RecordFailure(w) \/ RecordRetry(w) \/ RecordRaises(w)

WorkerStep(w) ==
    \/ \E m \in Messages : TakeTask(w, m)
    \/ ProviderStep(w) \/ RecordOutcome(w)
    \/ TaskFails(w) \/ WorkerCrash(w) \/ Redeliver(w)

EnvironmentStep ==
    \E m \in Messages : LoseTask(m) \/ TimePasses(m) \/ LeaseOutlived(m) \/ ExpressDeadline(m)

Next ==
    \/ ApiStep
    \/ \E r \in Relays : RelayStep(r)
    \/ \E w \in Workers : WorkerStep(w)
    \/ EnvironmentStep

Spec == Init /\ [][Next]_vars

\* What the deployment schedules. The relay and worker loops never stop; the provider answers or
\* the task's time limit ends the call; clocks advance. A claim is ordered and the broker's queue
\* is first come first served, so a job that is eligible again and again has its turn (SF). For
\* reaps SF is an assumption: their sub-select has a LIMIT and no ORDER BY, and needs it only when
\* more jobs are stale than REAP_LIMIT, since otherwise every one of them is reaped.
Fairness ==
    /\ \A r \in Relays :
        WF_vars(PublishStep(r)) /\ WF_vars(FinishPublish(r)) /\ WF_vars(ReapUpdate(r))
    /\ \A w \in Workers : WF_vars(ProviderStep(w)) /\ WF_vars(RecordOutcome(w))
    /\ \A m \in Messages :
        /\ SF_vars(\E r \in Relays, S \in SUBSET Messages : m \in S /\ ClaimBatch(r, S))
        /\ SF_vars(\E r \in Relays, S \in SUBSET Messages : m \in S /\ ReapSelect(r, S))
        /\ SF_vars(\E w \in Workers : TakeTask(w, m))
        /\ WF_vars(TimePasses(m))

FairSpec == Spec /\ Fairness

-------------------------------------------------------------------------------
\* Every variable has its type.
TypeOK ==
    /\ jobStatus \in [Messages -> JobStatuses]
    /\ lockedBy \in [Messages -> Relays \cup Workers \cup {None, Dead}]
    /\ timeUp \in [Messages -> BOOLEAN]
    /\ attempts \in [Messages -> 0..AttemptCap]
    /\ msgStatus \in [Messages -> MessageStatuses]
    /\ payment \in [Messages -> Payments]
    /\ credits \in [Users -> Int]
    /\ reserved \in [Users -> Int]
    /\ toppedUp \in [Users -> 0..MaxToppedUp]
    /\ copies \in [Messages -> 0..QueueCap]
    /\ todo \in [Relays -> SUBSET Messages]
    /\ published \in [Relays -> SUBSET Messages]
    /\ failed \in [Relays -> SUBSET Messages]
    /\ reapIds \in [Relays -> SUBSET Messages]
    /\ workerJob \in [Workers -> Messages \cup {None}]
    /\ answer \in [Workers -> Outcomes \cup {None}]
    /\ unacked \in [Workers -> BOOLEAN]
    /\ late \in [Messages -> BOOLEAN]
    /\ delivered \in [Messages -> 0..2]
    /\ faults \in 0..MaxFaults

\* The payments of this module's messages, as the ledger the customer was promised.
L == INSTANCE Ledger WITH payment <- payment, toppedUp <- toppedUp, delivered <- delivered

\* The balance is the sum of the messages: reserved_credits is the cost of the user's RESERVED
\* messages, and what was bought is what is left plus the cost of the DEDUCTED ones. Reservation,
\* settlement and release live in three transactions of two processes; the debug reset breaks it.
Conservation ==
    ~AppDebug => \A u \in Users :
        /\ reserved[u] = L!Held(u)
        /\ credits[u] = toppedUp[u] - L!Spent(u)

\* What the debug reset leaves true: no user has more credit to submit on than was bought and is
\* neither spent nor owed for messages under way, however resets, submissions and the outcomes of
\* messages from before a reset interleave; and nothing is reserved that no message holds.
CreditIsPaidFor ==
    \A u \in Users :
        /\ reserved[u] <= L!Held(u)
        /\ credits[u] - reserved[u] <= L!Available(u)

\* Status and payment of a message agree, and a finished job has the outcome its message shows:
\* settle or release, mark_sent or mark_permanent_failure, and the job's end go together.
StatusMatchesPayment ==
    \A m \in Messages :
        /\ payment[m] = "DEDUCTED" <=> msgStatus[m] = "SENT"
        /\ payment[m] = "REFUNDED" <=> msgStatus[m] = "PERMANENT_FAILED"
        /\ jobStatus[m] = "COMPLETED" => payment[m] = "DEDUCTED"
        /\ jobStatus[m] = "FAILED" => payment[m] = "REFUNDED"

\* A customer's report adds up at any moment: all that is under way is reserved, what was sent is
\* paid for and what was given up is refunded, though nine counts of two columns make it up.
ReportAddsUp ==
    \A u \in Users :
        LET sum == Summary(u) IN
        /\ sum.queued + sum.dispatching + sum.failed = sum.reserved
        /\ sum.sent = sum.deducted
        /\ sum.permanent_failed = sum.refunded
        /\ sum.reserved + sum.deducted + sum.refunded = sum.total

\* A job is only ever with a worker while its money is still reserved, even when a reaper
\* brought a finished job back.
InFlightIsReserved == \A m \in Messages : jobStatus[m] = "DISPATCHING" => payment[m] = "RESERVED"

\* Reserved money always has a job that is still going to be worked on.
ReservedHasLiveJob ==
    \A m \in Messages :
        payment[m] = "RESERVED" => jobStatus[m] \notin TERMINAL_JOB_STATUSES \cup {"ABSENT"}

\* A customer pays only for a message the provider accepted.
ChargedOnlyIfDelivered == \A m \in Messages : payment[m] = "DEDUCTED" => delivered[m] > 0

\* A lock in the name of a process that runs is for work that process has in hand: no relay or
\* worker goes on to other work and leaves a lock behind.
LockHolderAtWork ==
    \A m \in Messages :
        /\ \A r \in Relays : lockedBy[m] = r => m \in todo[r] \cup published[r] \cup failed[r]
        /\ \A w \in Workers : lockedBy[m] = w => workerJob[w] = m

\* A payment that was deducted or refunded never changes again: charged or refunded once,
\* whatever is redelivered, reaped or recorded late.
PaymentFinal ==
    [][\A m \in Messages : payment[m] \in {"DEDUCTED", "REFUNDED"} => payment'[m] = payment[m]]_vars

\* No process takes over a lock whose lease is not over, but a worker that receives the task
\* before its relay marked it published.
NoTakeoverOfFreshLease ==
    [][\A m \in Messages :
        lockedBy[m] \in Relays \cup Workers /\ ~timeUp[m] /\ lockedBy'[m] \in Relays \cup Workers
        => \/ lockedBy'[m] = lockedBy[m]
           \/ lockedBy[m] \in Relays /\ lockedBy'[m] \in Workers]_vars

\* Reserved credits are always deducted or refunded in the end, after any finite number of
\* crashes, lost tasks, exceptions and outlived leases.
EventuallySettled ==
    \A m \in Messages : payment[m] = "RESERVED" ~> payment[m] \in {"DEDUCTED", "REFUNDED"}

\* The outbox, the relays, the workers and the reaper implement the ledger: every step is one of
\* its steps or leaves it alone, and a message is accepted on the credit the balance row shows.
ImplementsLedger == L!LedgerSpec

-------------------------------------------------------------------------------
\* What the documentation says, and the code does not keep.

\* dispatch_jobs.py: a reclaimed job is eventually retired instead of looping forever.
EveryJobRetires ==
    \A m \in Messages : jobStatus[m] # "ABSENT" ~> [](jobStatus[m] \in TERMINAL_JOB_STATUSES)

\* docs/architecture-overview.md: no double delivery.
NoDoubleDelivery == \A m \in Messages : delivered[m] <= 1

\* dispatch.py: a worker's delivery lease is honoured until it is over.
WorkerLeaseHonoured ==
    [][\A w \in Workers, m \in Messages :
        jobStatus[m] = "DISPATCHING" /\ lockedBy[m] = w /\ ~timeUp[m] /\ workerJob'[w] = m
        => jobStatus'[m] = "DISPATCHING" /\ lockedBy'[m] = w]_vars
===============================================================================
