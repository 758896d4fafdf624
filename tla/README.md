# A TLA+ model of the SMS gateway

The gateway accepts SMS from prepaying users, stores each message with a job in
a transactional outbox, publishes the jobs to RabbitMQ and delivers them to a
provider from Celery workers. This directory holds a model of that pipeline in
TLA+, the TLC configurations that check it on small instances, and proofs of its
safety properties for every instance. Paths below are relative to `src/`.

    Pricing.tla          what messages cost
    Ledger.tla           the abstract promise to the customer
    Dispatch.tla         submission, outbox, relay, worker, reaper, balance
    MCDispatch.tla       instances of Dispatch for TLC
    MessageRequests.tla  what clients submit, and what a request costs
    Submission.tla       single and batch requests, statement by statement
    SerialSubmission.tla the same requests, served one at a time
    ClaimFairly.tla      which jobs a relay claims, in two locking queries
    RequestLimits.tla    which token buckets a request has to pay
    RateLimiter.tla      the token buckets in Redis
    Metrics.tla          the cached gauges that are read from the database
    Listing.tla          paging through the list of messages
    *Proofs.tla          theorems about Dispatch, Submission, ClaimFairly, RateLimiter,
                         Metrics and Listing, checked by TLAPS
    Counting.tla         lemmas about numbers, finite sets and orders for those proofs
    MC*.tla              instances of those for TLC
    *.cfg                one file per run
    PROJECT.json         components, runs, source map, findings, hazards, theorems

## 1. The system

| Component | State | Operations | Talks to |
| --- | --- | --- | --- |
| Message submission (`app/usecases/messages.py`, `repositories/messages.py`) | `messages` | create one, create a batch, list | inserts messages and outbox rows and reserves credits, all in one transaction |
| Prepaid balance (`repositories/balance.py`, `models/balance.py`) | `balances.credits`, `.reserved_credits`, three CHECK constraints | top up, reserve, settle, release, zero (debug only) | called inside the transactions of submission and of the worker |
| Outbox and relay (`repositories/dispatch_jobs.py`, `workers/dispatch_relay.py`) | `dispatch_jobs`: status, lock, lease, retry and attempt counters | claim a batch, publish, mark published or retry, reap stale jobs | claims rows with `FOR UPDATE SKIP LOCKED`, publishes to RabbitMQ outside any transaction |
| Delivery worker (`app/usecases/dispatch.py`, `workers/dispatch_tasks.py`) | the job in hand, the provider's answer | claim for delivery, call the provider, record the outcome | updates job, message and balance; the provider is called between two transactions |
| Providers (`infra/providers`) | none | `send` | a free choice of success, temporary or permanent failure, or an exception |
| Broker and Celery (`workers/celery_app.py`) | queued and unacknowledged tasks | deliver, acknowledge late, requeue, lose | one queue per priority |
| Rate limiter (`api/rate_limit.py`) | token buckets in Redis | a Lua script that charges several buckets | runs before the endpoints |
| Settings (`core/config.py`) | environment values | validation | prices, limits, debug switch, time limits |
| Metrics (`core/metrics.py`, `core/observability.py`) | counters, two caches of gauges | scrape | reads jobs, balances and messages in statements of their own |
| Reports and listings (`repositories/messages.py`, `schemas/pagination.py`) | none | page of messages, summary of a customer | reads what the others write |
| Users, pricing, health | `users` | create, list | reads, except that creating a user creates its balance |

### What is hard about it

* The three parties that write a job (relay, worker, reaper) hold it by a lease,
  not by a row lock, across calls to the broker and to the provider. Each may be
  slow, die, or come back after somebody else took over.
* Publication and its mark are not atomic, so a task may reach a worker before
  the job says PUBLISHED, twice, or never.
* The reaper's `UPDATE ... WHERE id IN (SELECT ... LIMIT)` reads one version of a
  row and may write a later one.
* Acknowledgement is late: a lost worker or connection redelivers; a task that
  raised is acknowledged and gone.
* One balance row is written by all the requests and outcomes of a user.
* A claim is two queries that skip what other relays have locked, so what is fair
  for one relay need not be for two.
* Scrapes and lists are sequences of statements, each with a snapshot of its own,
  of tables that change in between.

### What makes it correct

Money: the balance is exactly what the messages say, nothing is charged that was
not accepted by the provider, and every reservation ends in one charge or one
refund. Jobs: message, payment and job tell the same story, a job in flight has
its money, leases exclude. Requests: each has the effect and the answer it would
have alone. Customers: a flood of one does not keep the others waiting, and limits
are kept and no stricter than stated. Reports: nothing is shown that no moment of
the database accounts for. Progress: no reservation is left behind, every due job is
claimed, every request answered, every broken balance reported. The list
under `hazards` in `PROJECT.json` ties each hazard to the properties that would
show it going wrong.

## 2. The modules

### Pricing and Ledger

`Pricing` gives a message its cost by priority and a set of messages the sum.
`Ledger` is the promise, without balance rows, jobs or processes: per message a
payment (`NONE`, `RESERVED`, `DEDUCTED`, `REFUNDED`) and how often the provider
accepted it, per user what was bought. A message is accepted only against
`Available` and is charged only after a delivery. `Dispatch` instantiates it as `L`; the
refinement mapping is the identity on `payment`, `toppedUp` and `delivered`, and
the ledger's derived `Held` and `Spent` stand for the stored columns.

### Dispatch

A message and its dispatch job are created together and map one to one (unique
`message_id`), so both are indexed by the message.

| Model | Code |
| --- | --- |
| `jobStatus`, `lockedBy`, `attempts` | `dispatch_jobs.status`, `.locked_by`, `.delivery_attempts` |
| `timeUp` | whether the wait of the current status is over: `available_at` reached and the 60 s claim lease over (PENDING, RETRY), the in-flight limit of the reaper (PUBLISHED), the worker's lease of 120 s (DISPATCHING) |
| `msgStatus`, `payment` | `messages.status`, `.payment_status` |
| `credits`, `reserved` | the balance row, in units of the smallest price step |
| `copies` | tasks of the job in the queue |
| `todo`, `published`, `failed` | the batch inside `publish_claimed_jobs` |
| `reapIds` | the ids a running reap has selected |
| `workerJob`, `answer`, `unacked` | one execution of `process_dispatch_job` |
| `late` | older than `express_ttl_seconds` |
| `toppedUp`, `delivered` | history, read by properties (and the bounds) only |

Actions, one per transaction or call:

* API: `TopUp`, `ZeroCredits` (with `app_debug`), `Submit`.
* Relay: `ClaimBatch`; `Publish` and `PublishRaises`, one task each, outside any
  transaction; `FinishPublish`, both marks in one transaction, guarded by the lock
  and the status like the code's WHERE; `RelayCrash`.
* Reaper: `ReapSelect` and `ReapUpdate`. One SQL statement, two steps: under READ
  COMMITTED the sub-select reads the statement's snapshot, the outer UPDATE waits
  for a row lock and then re-checks only its own WHERE, `id IN (...)`, on the new
  version.
* Worker: a task is received by `DropTask`, `RaiseTask`, `ExpireTask` or
  `StartDelivery` (the early returns of `_claim_for_delivery`); `ProviderAnswers`;
  `RecordLeaseLost`, `RecordSuccess`, `RecordFailure`, `RecordRetry` or
  `RecordRaises`; `TaskFails` and `WorkerCrash` at any point in between.
* Environment: `Redeliver`, `LoseTask`, `TimePasses`, `LeaseOutlived`,
  `ExpressDeadline`.

Abstractions, and why they lose nothing the properties need:

* Time is one flag per job. Every comparison in the code is of one deadline with
  now, and each change of status starts a new wait. `TimePasses` ends a wait that
  nobody is there to end; that a live holder outlives its lease is a fault
  (`LeaseOutlived`), bounded like the others. Clocks of different hosts are taken
  to agree.
* Relay and worker ids are random, so a dead process's id is never used again:
  `Bury` renames it to `Dead`, and the process that replaces it takes its name.
* `retry_count` is read by the relay's backoff alone. The length of a backoff
  decides when the wait ends and, after a temporary failure, whether an express
  message would be late by then, which `GivesUp` leaves open.
* `attempts` saturates one above the maximum: the code compares it with the
  maximum only.
* `SKIP LOCKED` may pass over any row and the order of a claim decides only who
  comes first, so `ClaimBatch` takes any eligible set up to the batch size. Any
  worker may consume either queue.
* A provider exception, a database exception and a time limit all end a task
  alike (`TaskFails`): Celery acknowledges it and the job waits for the reaper.
* A CHECK constraint that fails rolls the whole transaction back: `Submit` is then
  disabled (nothing remains), an outcome becomes `RecordRaises`.

### Submission

In `Dispatch` a submission is one step. `Submission` takes it apart for the
requests of one user: the rows of a request are inserted in order under the unique
index on `(user_id, idempotency_key)`, then the balance row is locked and read
(`LockBalance`), and `Commit` writes it. Rows are invisible until the commit, but
an insert of the same key waits for the transaction that holds it (`WaitsFor`):
it goes on if that rolls back (`KeyIsFree`) and fails if it commits
(`UniqueViolation`). A single request then answers with the message that is there
(`Replay`); a batch answers `idempotency_conflict`, also when the client repeats
its own batch, which the API reference documents. `CheckViolation` is the
constraint `credits >= reserved_credits`. Top-ups and outcomes of workers lock the
same balance row; each is one step, because nothing of theirs is visible while
they hold the lock. Two batches with the same keys in opposite orders deadlock in
PostgreSQL; the abort of one (`DeadlockAbort`) is no `IntegrityError` and reaches
the client as a plain 500. Clients try again after a lost answer, an error or a
refusal for want of credits. The model holds the keys and priorities of a request only
(`MessageRequests`, with `_get_message_cost` as `Cost`: a batch is the sum, counted by priority);
job rows come with their message (`Rows`). The user is created at any time, with an
empty balance (`CreateUser`); a request that names it earlier ends in
`ForeignKeyViolation`. The rows of a request go in one multi-row INSERT: PostgreSQL looks at the
unique index row by row and at the foreign keys when the statement ends, so this comes after the
last row and before the balance.

`SerialSubmission` is what a client may rely on: between question and answer a
request takes effect in one step (`Accept`) or is declined for a reason that holds
at that moment (`Reason`), as if it were alone. A lost answer is always possible; an
`error` only for a batch that shares a key with another one under way. `Submission`
implements it under the mapping that takes a request for waiting while its program
counter is not at rest; the rows, locks and reads of open transactions have no
counterpart there. That the loser of a race for a key finds the winner's message, and is not
told there is none, is part of it: `message_not_found` is no answer of `SerialSubmission`.

### ClaimFairly

`Dispatch` lets a claim return any eligible jobs up to the batch size;
`ClaimFairly` makes the choice of `claim_batch`, for one priority. `due` is the set of
jobs the eligibility clause admits, and `older` their order by `available_at` and `created_at`,
as pairs; `Insert` and `Remove` are what a job's becoming due or being claimed does to both. Rows another transaction has locked are still in it, because the window function
and the LIMIT of the first query see them. `FairPass` ranks, cuts at
`per_user_limit` and at the batch size, and only then skips locked rows; `TopUp`
fills the rest with the oldest free ones; `CommitClaim` makes the claim visible.
Each query is a step, since two relays may run them in any order. Both go by the time at
which the claim began, so `later` remembers, per relay, which jobs fell due in between. `Publish` stands
for the publication loop and its marks, which `Dispatch` models in detail: the job
is unlocked and not due, and may become due again (`Arrive`) as after a backoff.
`LeaseOver` is the lease clause: a claimed job is due again in its old place, with
a relay that died or, as a fault, with one still at work. `LateCommit` is a submission whose
transaction began before others that have committed: its job comes in front of theirs, also for a claim that
began before it committed. A worker locks the row of the job whose task it receives
(`WorkerLocks`), which the queries of a claim then skip; it takes the job if a relay has claimed it and
not yet marked it (`WorkerTakes`) or drops the task (`WorkerDrops`). A worker that comes for a published
job has no part in claims. Ids are random in the code,
so jobs of equal rank are ordered by the (arbitrary) numbers of the model.

### RequestLimits and RateLimiter

`RequestLimits` is `resolve_rate_limits`: a list of charges, each a rule, an
identity and a number of tokens, for every endpoint. Paths, query strings and
bodies are read already: a request is an endpoint, a user (or none the limiter
could read), an address, and numbers of messages. The names of the rules are the
code's. The identity of a user is the id as it is written in body, path or query: `7` and `007` name one
user and two buckets, so a "user" of this model is such a text, and the limits hold for each.

`RateLimiter` is the middleware and its Lua script. A request is stamped with the
API's clock (`Send`), and the script runs as one step when Redis gets to it
(`Admit`, `Refuse`): it reads all its buckets, refills them up to the stamp, takes
all costs or none, and writes every bucket with the stamp and a new expiry, also
when it refuses. `RedisFails` raises with or without the script having run, and
the request goes on unmetered (`FailOpen`) or gets a 503. Time is in seconds;
tokens are counted in fractions of 1/window, so that the arithmetic is exact.
Requests may reach Redis in another order than they were stamped, as they may when
they come over several connections or from several hosts. The script then sets the
bucket's time back, also when it refuses, and the next request refills the same
interval again; the history variable `setBack` adds up these seconds. They are the
distance of the code from an exact token bucket, in both directions: `LimitsKept` allows a
customer what is refilled twice, and `RefusedOnlyOverBudget` allows a refusal for what
an overtaken request was not credited. With neither allowance both are violated, so
`docs/rate-limits.md:47` promises slightly more than the code keeps. What a list of charges takes from a
bucket is the number of its tokens, each named by its charge (`TokensFrom`), so that sums over charges and
over requests are cardinalities. `BatchPaysPerMessage` speaks of every message bucket there is, also of
those of other users, and of its level before and after the script as of the same moment.

### Metrics

A scrape is `collect_database_metrics` and `generate_latest`: the ready gauge, then
the payment gauge with its two queries, each step a statement that reads the
database as it then is. `metrics_endpoint` is async and never awaits, so a process serves
one scrape at a time. `IsCached` compares with the clock read when the scrape began
(`elapsed` seconds ago), a success sets the gauge and `expiresIn`, a failed query
(`QueryFails`) leaves both alone and the scrape goes on. `Restart` forgets gauges and
caches. The balance is that of one user with messages of cost 1, and every writer is
a transaction of its own; `ZeroCredits` is what makes a balance disagree with its
messages. `Violations` is the payment gauge, one field per violation type: three of them count the
balance that the first query read, two compare the second query's balance with the messages. The gauge is therefore as old as the first
query (`balanceRead.age`). Ages and expiries are relative and saturate, so time needs no bound.

### Listing

`get_messages_slice` is a count and a SELECT with ORDER BY `created_at` DESC, LIMIT
and OFFSET, under READ COMMITTED, so each sees what is committed by then.
`created_at` is the start of the transaction: messages of a batch share it, and a
slow transaction's messages appear below younger ones. Among equals the server may
choose any order, in every statement anew (`IsPage`). The client is external; it reads on until a
page is not full, or until the page numbered `pages`. Filters are left out.

The operators whose comments begin with "Mutant of" are wrong versions of the
definition that follows them. They are not part of the model; `PROJECT.json`
pairs each with a property that must fail when it takes the definition's place.

## 3. The runs

The runs of `Dispatch` have one user, since users share nothing and competition for one balance
is the interesting case. Symmetry (of workers, and of relays of one priority) is
used in runs without liveness only; the action properties and the ledger name
no relay or worker other than under a quantifier.

| Run | Instance | Question |
| --- | --- | --- |
| `OneExpress` | 1 express message, 2 relays, 2 workers, 3 attempts, 2 queued copies, 3 faults, two top-ups and the debug reset | do rows, payment, balance and leases of one job stay consistent through every publication, redelivery, reap, expiry and retry, also when the balance is zeroed under a reserved message, and does that ever leave credit nobody paid for? |
| `SharedBatch` | 2 normal messages in one batch, credits for them bought one by one, 2 relays, 2 workers, 2 attempts, 1 fault | partial publication, stolen claims, a reap of several jobs: no stranded reservation, no forgotten lock; does the one balance row equal the ledger, does the report add up, and is the ledger implemented? |
| `Settles` | 1 message, 2 relays, 2 workers, 2 faults, fairness | does every reservation end? |
| `SameKey` | 2 single requests for different keys, 2 batches with both keys in opposite orders, at different prices, 2 top-ups of 2, one request of each kind sent twice, 1 fault, fairness | is there one message per key, does the reserved sum stay that of the messages, does every interleaving look like requests served one at a time, and is every request answered although the batches deadlock? |
| `TokenBuckets` | 2 single requests and a batch of one user, a single one of another, a health request, two tight rules, 4 s, 1 s to Redis in any order, 1 fault | are the limits kept in every period, is nobody refused who is within them, is Retry-After enough, does a batch pay like its messages? |
| `FairClaims` | a customer with 3 jobs and one with 1, 2 relays, batches of 3, at most 2 per customer, 1 fault (crash, lease outlived, late commit, or a worker's lock), fairness | do batches exclude each other, is their room used, are customers served in turn, is every due job claimed? |
| `Scrapes` | credits for 2 messages, at most 1 ready job, caches of 2 s and 3 s, a scrape of up to 2 s, 2 faults, fairness | is no value older than its cache, no alarm false, no alarm missed, and do the gauges converge? |
| `Pages` | pages of 2, 4 requests with up to 2 messages | does a reader miss nothing that was there, and read a quiet list exactly? |

Why these bounds: an overtaking needs two holders (relays, workers) and a job;
the longest known story, a finished job that a reap brings back, needs a reap, a
redelivery and a late record, three faults. Two copies of a task are enough for
a duplicate to be received while another is being worked on; two attempts give a
retry and an exhausted budget (the reaper spends some of them, hence three in `OneExpress`). In `SharedBatch` credits are bought in steps that cover one message,
so a submission is refused, delayed and
admitted after a top-up or a refund. In `SameKey` one top-up covers some of the requests and two
not all, so that the key may be taken and
the credits gone in any order, and a batch may fail in the middle (a batch that names a key twice is refused
before its transaction and left out of the run). In `FairClaims` the small
customer's job has a number between those of the large one, the large one has more than
its limit and than a batch leaves room for, and with more of its jobs in front than the
limit a wrong ranking starves somebody. In `Scrapes` a cache may run out during a scrape or between two, both gauges may fail in one scrape
or one of them twice running, and a process may restart with a value it could not refresh. In `Pages` a list grows to four pages, a batch may lie across a
page border, and commits may overtake each other. In
`TokenBuckets` the single, batch and health endpoints are used (the others have
three fixed buckets each), a window is two seconds and a key lives four, so a bucket empties,
refills to the brim and expires within the run; the stated limit is checked for
the rules whose bucket is full again before its key expires, which is every rule
of the default settings. The two like requests are symmetric; the other user's request shares the global and system buckets with them and has one of its own, which nothing else may touch. The batch needs the user's whole burst of normal messages, so that it is refused where single requests are not. `CHECK_DEADLOCK FALSE` is set where everything may be
settled and nothing is left to do.

The other runs each refute one statement of the documentation, and `findings` in
`PROJECT.json` quotes it: `ReapedForever` (a finished job that a late reap wrote
back to RETRY circulates for ever, harmless for the money but never retired),
`DoubleDelivery`
(at-least-once to the provider), `LeaseOverwritten` (a reap in progress clears a
fresh lease), `Monopoly` (with two relays one fills its whole batch from a flooding
customer while another customer's free jobs wait; `MCMonopoly` keeps the rows the
first pass had found free as a history variable). None of them moves money twice: that
is what the passing runs and the proofs say. Two smaller disagreements have no run:
the reaper counts `delivery_attempts` past the maximum that
`docs/database-models.md:173` calls a bound, and counts jobs no worker ever received,
which `docs/architecture-overview.md:143` rules out.

### Fairness

`FairSpec` assumes what the deployment provides: relay and worker loops never
stop (WF for publishing, marking, the reaper's write, the provider's answer or
time limit, and recording); claims and the queue serve the oldest first, so
a job that is eligible again and again is taken (SF); clocks advance (WF for
`TimePasses`). SF of a reap is an assumption: `reclaim_stale_inflight` selects with LIMIT and without ORDER BY, so it
is sure to reach a job only while no more are stale than the limit. Nothing is assumed of faults; they are finite in number
(`MaxFaults`), which stands for "after the last fault". Strong fairness of the
claim is no assumption about the database but a consequence of `claim_batch`:
`EveryJobIsClaimed` shows it in `ClaimFairly` from nothing but the relays' loops, while no more customers than
a batch has places have due jobs. With more, jobs of the first rank come in the
order of their random ids, and the assumption is one of chance. Neither submission nor
`ExpressDeadline` is fair.

In `Submission` each request's next statement is weakly fair: the API's threads
run, PostgreSQL grants a lock that stays free, and its deadlock detector fires.
Clients owe nothing. In `ClaimFairly` the relays' loops run (WF of each relay's
next step) and workers' transactions end. In `Metrics` Prometheus scrapes at intervals, queries end and the clock
goes on; writers owe nothing, and `GaugesConverge` is about a database that comes to
rest. `RateLimiter` and `Listing` are checked for safety only.

## 4. The proofs

Every invariant and every action property that a passing run checks, and both refinements
are theorems: they hold for all values of the constants that the assumptions admit. The
assumptions are those of the modules: parameters have their types (`PricingAssumption`,
`CastAssumption`, `NumberAssumption`, `AnswerAssumption`, `RequestAssumption`, `SubmissionAssumption`,
`ClaimAssumption`, `LimiterAssumption`, `MetricsAssumption`, `ListingAssumption`). They say that costs,
limits, bursts, batch sizes and cache times are positive, which the validators of the settings see to,
that process names differ, and that what is counted is finite. The bounds of the runs (faults, time,
tries, requests) are arbitrary numbers in the proofs. The constants that only name cases of the code,
like rule names and endpoints, are those of the code. TLC checked each inductive invariant on a run
before its proof.

Where sums are concerned the proofs count: an amount is a cardinality (of messages by priority, of
tokens, of rows before a row), and what one step changes is a set gaining or losing an element.
`Counting` has the lemmas for this. Some of them need an induction, over a set's elements or over the place in an order;
as induction theorems cannot be instantiated here, they take a minimal counterexample instead:
`LeastSet` (a collection of subsets of a finite set has a minimal member, from the well-foundedness
theorem of the library), and from it `LeastNat`, `FirstOf` and `FirstN` (the first n of a finite total
order are n, or all).

### Dispatch (`DispatchProofs`)

For all sets of messages (finite), users, relays and workers, all prices, batch sizes and limits, and
any number of faults.

* `TypeCorrect`: `[]TypeOK`, by one step per action.
* `PaymentInv` is the inductive invariant behind the payment properties. The four
  properties alone are not inductive: a refund must find the message RESERVED, which follows
  for a recording worker from `InFlightIsReserved` (its job is DISPATCHING), but
  `ChargedOnlyIfDelivered` also needs that a worker holding SUCCESS has had its
  message delivered, and a reaper may only hold ids of submitted messages, or its
  late write would create a job without a message. `OnlySubmitted` and
  `RowsTogether` say so. From it: `InFlightReserved`, `NoStrandedReservation`,
  `StatusShowsPayment`, `NoChargeWithoutDelivery`, and the action property
  `PaymentIsFinal`.
* `LockInv` strengthens `LockHolderAtWork` with the status a lock goes with, and
  with "a failed publication ends the batch". From it: `LocksAreInUse` and
  `LeasesExclude`.
* `ReportsAddUp`: by `RowsTogether` and `StatusMatchesPayment` the statuses and the payments
  split the same rows into corresponding parts, and `CountParts` adds them up.
* `Books` says the balance row is the ledger's `Held` and `Spent`. The lemmas
  `TotalCostAdd` and `PaymentMoves` say what one changed payment does to a sum;
  `EntriesFollow`, `RefundFollows` and `UntouchedFollows` say that the entries of the balance row follow
  the changes of the payments (`BalanceFollows`), whatever the row held before. From it, while there is
  no reset: `MoneyIsConserved`.
* `NoFreeCredit` holds with the debug endpoint too, where the books do not. It follows from the same
  steps (`StepFollows`), because `BalanceFollows` speaks of differences only: what a reset takes away is
  never given back. The reset itself leaves nothing reserved and nothing free; `Held` and `Available` are no less
  than that, because the CHECK constraints (`BalancesStep`) kept both numbers from being negative before it. The run has one message; with several, one
  message's outcome may take what is reserved for another, and the theorem covers that.
* `DispatchImplementsLedger`: the initial states agree, and every step is a `Buy`,
  `Accept`, `Deliver`, `Charge` or `Refund` or leaves the ledger alone. `Accept`
  is the interesting case: the row's check implies the ledger's because of `Books`.

### Submission (`SubmissionProofs`)

For any requests, batches of any length, keys and prices. `OneMessagePerKey` is not inductive: a
commit adds rows whose keys were checked statements ago. `SubmissionInv` adds `KeysExclude` (a key is
inserted by one open transaction at most, and then there is no row with it), which every insert,
commit and rollback keeps, and `ProgressOK`: per request how many rows its program counter stands for, that the
balance row is held exactly by who is about to commit, and that what it read under the lock is still
true. That last conjunct is why no reservation is lost. `KeysAreUnique` and `NoLostReservation` follow; so
does `RetriesGetTheirMessage`, since a key once there never goes.
`SubmissionIsSerial` takes each statement to a step of `SerialSubmission`: sending a request is an `Ask`
or `AskInVain`, the last step of a transaction is the `Serve` with its answer, the others
stutter. `Reason` must then hold in the state of that last step: the winner's row is there when the
loser looks for it, the refused request had too little credit under its lock, and an aborted request was on a
cycle of transactions, hence a batch that shares a key with another batch. The last needs an argument of its own: a single
request has inserted nothing that another could wait for while it waits itself (`OnlyBatchesDeadlock`).

### ClaimFairly (`ClaimFairlyProofs`)

For any numbers of jobs, customers and relays, all batch sizes and limits. `ClaimInv` is `TypeOK`
with `ClaimsExclude`. It is inductive because a job can stop being due only
by its owner's commit, by a publication, which waits for the row locks, or by a worker that has locked
its row, which no open claim then holds. `TypeOK` contains that the due jobs are totally ordered;
`InsertKeepsOrder` and `RemoveKeepsOrder` show it. The counting theorems rest on `FirstN`:
`BatchesAreFull` (the top-up takes the first n of the free jobs, so there are n or none left),
`CustomersShareAlike` (who has two turns more than another was served at a rank at which the other had no job left, or no turn
within its limit, since all of one rank come before the next), and
`NobodyIsStarved` (a customer's oldest job has rank 1, and only jobs of rank 1 of other customers come before it).

### RateLimiter (`RateLimiterProofs`)

For all rules, bursts, windows, numbers of requests and delays. `RateInv` has per bucket two accounts.
`NothingLost` says that there is a moment and a later one between which the payments and what is left make up
the burst and what was regained: nothing disappears through expiry, refusals or lost replies. From it
`RefusalsAreNeeded`: the refused price on top exceeds that very budget. `SpentOK` and `KeptOK` bound the payments
from above, since each moment and in each period; both are needed, because a late request may pay
into a period whose later payments the bucket has forgotten, and `setBack` grows by exactly the seconds
that make up for it. They hold for buckets that are full again before their key expires
(`FullBeforeExpiry`): for others `LimitsKept` is false. `BucketsOK` relates expiry
and time stamp, `SentInTime` bounds the delay. The lemma `LevelAccounted` carries the first account over the
refill, `SpentStep` and `KeptStep` carry the others over the script.
`RetryAfterSuffices` rests on `RoundedUp` and on `LongestWaitIs`, that the script's loop has a
well-defined result. `BatchesPayPerMessage` needs that no list of charges names a bucket twice
(`Enumerates`), which is proved for every endpoint, and then compares the charges rule by rule.

### Metrics (`MetricsProofs`)

For all cache times, balances and bounds. `MetricsInv` adds to the properties `CacheKnowsAge` (the age of the data
and the time left in its cache never exceed the gauge's cache time, so an unexpired cache is proof of youth, also with the
clock read at the start of a scrape) and `FreshOrFailed` (behind the steps of a gauge, it is fresh or has failed), for
`GaugesAreFresh`; and for `AlarmsAreTrue` `BalanceIsSum`, with the constraint in the balance
that the first query read.

### Listing (`ListingProofs`)

For all page sizes and any number of messages and batches. `NothingMissed` speaks of the end; `ListInv`
says what holds on the way. `RestIsAhead`: what was there at the start and was not shown has its place beyond the offset,
however much was committed in between, because commits only move messages down the list.
`SeenIsBehind`, while nothing is committed: what was shown has its place at or before the offset.
By `BatchesApart` messages of one time become visible together. A page that is not full ends the list (`FullPage`): one whose places
are all taken holds as many messages as it has places, which follows from `IsPage` group by group (`ShownUpTo`,
by a minimal counterexample over the groups of equals).

### Only model-checked

`EventuallySettled`, `EveryRequestIsAnswered`, `EveryJobIsClaimed`,
`MismatchIsReported` and `GaugesConverge` are about progress under fairness. Their proofs need ENABLED, which
the prover does not support, and so they are checked on the instances of section 3 only. Deadlock is checked by TLC in
the runs that do not switch it off. The four refuted statements have counterexamples and no proofs.

## 5. Not modelled

* Health, logging, request context, session set-up, start: reads and wiring. (Readiness
  answers 200 with "not ready" in its body at `api/routes/health.py:106-107` where
  `docs/api-reference.md:34` says 503; there is no state to check it against.)
* Settings: read once. Their validators' results are the modules' assumptions. A price below
  half a cent is rounded to 0.00 after the check that it is positive; then
  `check_cost_gt_zero` refuses every message.
* Benchmark and load scripts, tests: clients of the system.
* Contents of messages, phone numbers, provider ids: no decision depends on them,
  except the markers of the mock provider, which the free choice of outcome covers.
* Counters and histograms: output that nothing reads.
* Filters of the lists, and the list of users, which has no order at all: with either, offsets
  promise nothing.
* The money type's width (`Numeric(10, 2)`): amounts are integers without a limit.
* Disagreeing clocks of the hosts, in `Dispatch`; in `RateLimiter` they are what
  the delay between stamp and script allows.
* Calls that the Redis client library might repeat on its own after a lost reply (the code makes one, `api/rate_limit.py:197`):
  each would take the tokens once more.
* A Redis that restarts or evicts buckets, and reading of paths and bodies.

## 6. Plan

Done: every module named in the first section with its runs, and a theorem for every safety
property of the passing runs.
Left: shorter proofs where a lemma could serve twice (the accounts of `RateLimiter`, the two passes of
`ClaimFairly`); and step facts on which the liveness arguments rest, as far as they need no ENABLED:
that a waiting transaction waits for one that can go on or is on a cycle, that a job only
loses places in the ranking by being claimed, that a failed query leaves the next scrape to try again.
