------------------------------ MODULE ClaimFairly ------------------------------
(* Which jobs of one priority a relay claims: claim_batch. Each customer's due *)
(* jobs are ranked by age and taken round robin up to per_user_limit; what is  *)
(* left of the batch is filled first come first served. Both queries lock what *)
(* they return and skip what another transaction has locked, a relay's or a    *)
(* worker's.                                                                   *)
(* Dispatch leaves the choice of a batch open; this module makes it.           *)
EXTENDS Integers, FiniteSets

CONSTANTS
    Jobs,           \* the ids of the jobs, numbers in the order of the random UUIDs
    UserOf,         \* the customer of a job
    Relays,
    BatchSize,      \* PriorityConfig.batch_size
    PerUserLimit,   \* PriorityConfig.per_user_limit
    MaxFaults,      \* bound: relays that die or outlive a lease, late commits, early tasks
    None,
    Dead            \* the id of any relay that no longer runs

Users == {UserOf[j] : j \in Jobs}

ASSUME ClaimAssumption ==
    /\ Jobs \subseteq Nat /\ IsFiniteSet(Jobs)
    /\ DOMAIN UserOf = Jobs
    /\ BatchSize \in Nat \ {0} /\ PerUserLimit \in Nat \ {0} /\ MaxFaults \in Nat
    /\ None \notin Relays /\ Dead \notin Relays \cup {None}

VARIABLES
    due,        \* the eligible jobs, locked rows included
    older,      \* their order by available_at and created_at: <<k, j>> if k comes before j
    lockedBy,   \* dispatch_jobs.locked_by, as committed
    phase,      \* what a relay does next
    hand,       \* the jobs its claim has locked, then those it has claimed
    later,      \* the jobs that fell due since it began its claim
    atWorker,   \* the rows a worker's transaction has locked
    faults      \* what is left of MaxFaults

vars == <<due, older, lockedBy, phase, hand, later, atWorker, faults>>

Phases == {"claim", "top up", "commit", "publish"}

Init ==
    /\ due = {} /\ older = {}
    /\ lockedBy = [j \in Jobs |-> None]
    /\ phase = [r \in Relays |-> "claim"]
    /\ hand = [r \in Relays |-> {}]
    /\ later = [r \in Relays |-> {}]
    /\ atWorker = {}
    /\ faults = MaxFaults

Fault == faults > 0 /\ faults' = faults - 1

AtLeastAsOld(k, j) == k = j \/ <<k, j>> \in older

\* The jobs of S are due no more.
Remove(S) ==
    /\ due' = due \ S
    /\ older' = older \cap (due' \X due')

\* A job is due that comes right after those in front.
Insert(j, front) ==
    /\ due' = due \cup {j}
    /\ older' = older \cup (front \X {j}) \cup ({j} \X (due \ front))

\* What falls due now has done so after the claims that are at their second query began.
FallsDue(j) == later' = [r \in Relays |-> IF phase[r] = "top up" THEN later[r] \cup {j} ELSE later[r]]

\* The rows the open transaction of r has locked, and those of all transactions.
OpenRows(r) == IF phase[r] \in {"top up", "commit"} THEN hand[r] ELSE {}
RowsLocked == atWorker \cup UNION {OpenRows(r) : r \in Relays}

-------------------------------------------------------------------------------
\* Mutant of Rank: no PARTITION BY user_id.
RankOverall(j) == Cardinality({k \in due : AtLeastAsOld(k, j)})

\* Mutant of Rank: the newest first.
RankNewestFirst(j) == Cardinality({k \in due : UserOf[k] = UserOf[j] /\ AtLeastAsOld(j, k)})

\* row_number() over a user's due jobs, oldest first; it sees locked rows too.
Rank(j) == Cardinality({k \in due : UserOf[k] = UserOf[j] /\ AtLeastAsOld(k, j)})

\* Round robin; jobs of the same rank come in the order of their ids.
TakenBefore(k, j) == Rank(k) < Rank(j) \/ (Rank(k) = Rank(j) /\ k < j)

Ranked == {j \in due : Rank(j) <= PerUserLimit}

\* The LIMIT comes before the row locks: a locked row uses up its place in the batch.
FairIds == {j \in Ranked : Cardinality({k \in Ranked : TakenBefore(k, j)}) < BatchSize}

\* Mutant of FairRows: no SKIP LOCKED.
FairRowsLocked == FairIds

FairRows == FairIds \ RowsLocked

FairPass(r) ==
    /\ phase[r] = "claim" /\ due # {}
    /\ hand' = [hand EXCEPT ![r] = FairRows]
    /\ phase' = [phase EXCEPT ![r] = IF Cardinality(FairRows) < BatchSize THEN "top up" ELSE "commit"]
    /\ UNCHANGED <<due, older, lockedBy, later, atWorker, faults>>

\* The rows nobody has locked; both queries of a claim go by the time at which it began.
Free(r) == due \ (later[r] \cup RowsLocked)

\* The oldest n of them.
OldestFree(r, n) ==
    LET free == Free(r)
    IN  {j \in free : Cardinality({k \in free : <<k, j>> \in older}) < n}

\* Mutant of Remaining: what the first pass took is not counted.
RemainingWhole(r) == BatchSize

\* Mutant of Remaining: the cap on a customer is a cap on the batch.
RemainingCapped(r) == IF hand[r] = {} THEN BatchSize ELSE 0

Remaining(r) == BatchSize - Cardinality(hand[r])

TopUp(r) ==
    /\ phase[r] = "top up"
    /\ hand' = [hand EXCEPT ![r] = @ \cup OldestFree(r, Remaining(r))]
    /\ phase' = [phase EXCEPT ![r] = "commit"]
    /\ later' = [later EXCEPT ![r] = {}]
    /\ UNCHANGED <<due, older, lockedBy, atWorker, faults>>

\* locked_at and locked_by are set: the jobs are due no more. Nothing claimed, nothing to publish.
CommitClaim(r) ==
    /\ phase[r] = "commit"
    /\ Remove(hand[r])
    /\ lockedBy' = [j \in Jobs |-> IF j \in hand[r] THEN r ELSE lockedBy[j]]
    /\ phase' = [phase EXCEPT ![r] = IF hand[r] = {} THEN "claim" ELSE "publish"]
    /\ UNCHANGED <<hand, later, atWorker, faults>>

-------------------------------------------------------------------------------
StillClaimedBy(r, j) == j \in hand[r] /\ lockedBy[j] = r

\* publish_claimed_jobs up to its marks: published, or to be retried later, the jobs it still has
\* are unlocked and not due. The marks wait for the row locks of others.
Publish(r) ==
    LET mine == {j \in Jobs : StillClaimedBy(r, j)} IN
    /\ phase[r] = "publish"
    /\ mine \cap RowsLocked = {}
    /\ Remove(mine)
    /\ lockedBy' = [j \in Jobs |-> IF j \in mine THEN None ELSE lockedBy[j]]
    /\ hand' = [hand EXCEPT ![r] = {}]
    /\ phase' = [phase EXCEPT ![r] = "claim"]
    /\ UNCHANGED <<later, atWorker, faults>>

\* A relay dies: an open claim is rolled back, what was claimed stays locked until the lease is over.
RelayCrash(r) ==
    /\ phase[r] # "claim"
    /\ Fault
    /\ lockedBy' = [j \in Jobs |-> IF lockedBy[j] = r THEN Dead ELSE lockedBy[j]]
    /\ hand' = [hand EXCEPT ![r] = {}]
    /\ phase' = [phase EXCEPT ![r] = "claim"]
    /\ later' = [later EXCEPT ![r] = {}]
    /\ UNCHANGED <<due, older, atWorker>>

\* A new job, or one whose backoff is over: no other due job has a later available_at.
Arrive(j) ==
    /\ j \notin due /\ lockedBy[j] = None
    /\ Insert(j, due)
    /\ FallsDue(j)
    /\ UNCHANGED <<lockedBy, phase, hand, atWorker, faults>>

\* A place among the due jobs, named by those in front of it.
IsPlace(front) == \A k \in front, i \in due : <<i, k>> \in older => i \in front

\* available_at is the start of the transaction that submits a job: one that commits late puts its
\* job in front of younger ones, and a claim that began in between sees it.
LateCommit(j, front) ==
    /\ j \notin due /\ lockedBy[j] = None
    /\ IsPlace(front)
    /\ Fault
    /\ Insert(j, front)
    /\ UNCHANGED <<lockedBy, phase, hand, later, atWorker>>

\* LEASE_SECONDS after its claim a job is due again, with its old available_at. That the relay
\* which claimed it is still at work is a fault.
LeaseOver(j, front) ==
    /\ j \notin due /\ lockedBy[j] # None
    /\ IsPlace(front)
    /\ IF lockedBy[j] = Dead THEN UNCHANGED faults ELSE Fault
    /\ Insert(j, front)
    /\ FallsDue(j)
    /\ UNCHANGED <<lockedBy, phase, hand, atWorker>>

\* A worker that receives the task of a job which is not marked published locks its row ...
WorkerLocks(j) ==
    /\ j \notin RowsLocked
    /\ lockedBy[j] # None \/ j \in due
    /\ Fault
    /\ atWorker' = atWorker \cup {j}
    /\ UNCHANGED <<due, older, lockedBy, phase, hand, later>>

\* ... and takes the job, if a relay has claimed it, or drops the task.
WorkerTakes(j) ==
    /\ j \in atWorker /\ lockedBy[j] # None
    /\ atWorker' = atWorker \ {j}
    /\ Remove({j})
    /\ lockedBy' = [lockedBy EXCEPT ![j] = None]
    /\ UNCHANGED <<phase, hand, later, faults>>

WorkerDrops(j) ==
    /\ j \in atWorker
    /\ atWorker' = atWorker \ {j}
    /\ UNCHANGED <<due, older, lockedBy, phase, hand, later, faults>>

WorkerStep(j) == WorkerTakes(j) \/ WorkerDrops(j)

RelayStep(r) == FairPass(r) \/ TopUp(r) \/ CommitClaim(r) \/ Publish(r)

Next ==
    \/ \E r \in Relays : RelayStep(r) \/ RelayCrash(r)
    \/ \E j \in Jobs : Arrive(j) \/ WorkerLocks(j) \/ WorkerStep(j)
    \/ \E j \in Jobs, front \in SUBSET due : LateCommit(j, front) \/ LeaseOver(j, front)

Spec == Init /\ [][Next]_vars

\* The relays' loops run and workers' transactions end; nothing is assumed of customers and faults.
FairSpec ==
    /\ Spec
    /\ \A r \in Relays : WF_vars(RelayStep(r))
    /\ \A j \in Jobs : WF_vars(WorkerStep(j))

-------------------------------------------------------------------------------
\* Any two due jobs have an order.
DueInOrder ==
    /\ older \subseteq due \X due
    /\ \A j \in due : <<j, j>> \notin older
    /\ \A i, j \in due : i = j \/ <<i, j>> \in older \/ <<j, i>> \in older
    /\ \A i, j, k \in due : <<i, j>> \in older /\ <<j, k>> \in older => <<i, k>> \in older

\* Every variable has its type, the due jobs are in order, and no batch is larger than its limit.
TypeOK ==
    /\ due \subseteq Jobs /\ DueInOrder
    /\ lockedBy \in [Jobs -> Relays \cup {None, Dead}]
    /\ phase \in [Relays -> Phases]
    /\ hand \in [Relays -> SUBSET Jobs]
    /\ \A r \in Relays : Cardinality(hand[r]) <= BatchSize
    /\ later \in [Relays -> SUBSET Jobs] /\ atWorker \subseteq Jobs
    /\ faults \in 0..MaxFaults

\* No two relays are about to claim the same job, and none claims a job that was published, taken
\* by a worker or claimed by another after its query found it due.
ClaimsExclude ==
    \A r \in Relays :
        /\ OpenRows(r) \subseteq due \ atWorker
        /\ \A r1 \in Relays \ {r} : OpenRows(r) \cap OpenRows(r1) = {}

\* The cap on a customer wastes nothing: a claim leaves room in its batch only when it leaves no
\* job behind that was due when it began and that nobody else has locked.
NoRoomWasted ==
    [][\A r \in Relays :
        phase[r] # "commit" /\ phase'[r] = "commit" =>
        Cardinality(hand'[r]) = BatchSize \/ due \ later[r] \subseteq hand'[r] \cup RowsLocked]_vars

Share(u, S) == Cardinality({j \in S : UserOf[j] = u})

\* A relay that claims while nobody else has locked a row serves the customers alike, before it tops up: one gets
\* more than another only for a last turn, or because the other has no more or is at its limit.
RoundRobin ==
    [][\A r \in Relays :
        phase[r] = "claim" /\ phase'[r] \in {"top up", "commit"} /\ RowsLocked = {} =>
        \A u, v \in Users :
            Share(v, hand'[r]) < Share(u, hand'[r]) - 1 =>
            Share(v, hand'[r]) = PerUserLimit \/ Share(v, hand'[r]) = Share(v, due)]_vars

\* A small customer is served in the first batch beside any flood, also when relays compete: once
\* a relay has made its first pass, the oldest job of every customer is in somebody's hand, if
\* there are no more customers than places.
EveryCustomerServed ==
    [][\A r \in Relays :
        phase[r] = "claim" /\ phase'[r] \in {"top up", "commit"} /\ Cardinality(Users) <= BatchSize =>
        \A u \in {UserOf[j] : j \in due} : \E j \in hand'[r] \cup RowsLocked :
            UserOf[j] = u /\ \A k \in due : UserOf[k] = u => AtLeastAsOld(j, k)]_vars

\* So a due job is claimed in the end, however many newer jobs of other customers arrive, and
\* whatever relays die or are overtaken: no job is due for ever.
EveryJobIsClaimed == \A j \in Jobs : []<>(j \notin due)

===============================================================================
