-------------------------------- MODULE Metrics --------------------------------
(* The gauges of /metrics that are read from the database: the backlog of ready *)
(* jobs and the payment consistency of the balances. Each has a cache of its    *)
(* own, and keeps its values when a refresh fails. A scrape is a sequence of    *)
(* statements, each with a snapshot of its own, between which messages are      *)
(* submitted and settled. One process serves one scrape at a time (the endpoint *)
(* runs on the event loop). Balances are those of one user, messages cost 1.    *)
EXTENDS Integers

CONSTANTS
    TTL,            \* of each gauge: READY_JOBS_CACHE_SECONDS, PAYMENT_CONSISTENCY_CACHE_SECONDS
    InitialCredits,
    AppDebug,       \* settings.app_debug: POST /users/{id}/zero exists
    MaxReady,       \* bound: jobs ready at a time
    MaxScrape,      \* bound: seconds a scrape takes
    MaxFaults,      \* bound: queries that fail and restarts of the API
    NoValue         \* of a gauge that was never read

Gauges == {"ready", "payment"}
ViolationTypes == {"negative_credits", "negative_reserved_credits", "reserved_exceeds_credits",
                   "reserved_without_message", "message_balance_mismatch"}

ASSUME MetricsAssumption ==
    /\ TTL \in [Gauges -> Nat \ {0}]
    /\ InitialCredits \in Nat /\ AppDebug \in BOOLEAN
    /\ MaxReady \in Nat /\ MaxScrape \in Nat /\ MaxFaults \in Nat
    /\ NoValue \notin 0..MaxReady \cup [ViolationTypes -> 0..1]

VARIABLES
    \* the database
    credits, reserved,
    heldCost,       \* the summed cost of the RESERVED messages
    ready,          \* how many jobs are due and unlocked
    \* the process
    pc,             \* what the scrape does next
    elapsed,        \* seconds since it read the clock
    hadSuccess,
    expiresIn,      \* seconds from now until expires_at, less than 0 when that is past
    balanceRead,    \* the balance as the first payment query read it, and how long ago that was
    shown,          \* the values of the gauges
    \* history
    dataAge,        \* the age of a gauge's data, counted up to the largest of interest
    failed,         \* the gauges this scrape tried in vain to refresh
    zeroed,         \* the debug endpoint has been used
    faults

database == <<credits, reserved, heldCost, ready, zeroed>>
process == <<pc, elapsed, hadSuccess, expiresIn, balanceRead, shown, dataAge, failed>>
vars == <<database, process, faults>>

Steps == {"idle", "ready", "payment", "mismatch", "render"}
\* An older age says no more.
AgeCap(g) == TTL[g] + MaxScrape

NothingRead == [credits |-> 0, reserved |-> 0, age |-> 0]

Init ==
    /\ credits = InitialCredits /\ reserved = 0 /\ heldCost = 0 /\ ready = 0
    /\ pc = "idle"
    /\ elapsed = 0
    /\ hadSuccess = [g \in Gauges |-> FALSE]
    /\ expiresIn = [g \in Gauges |-> 0]
    /\ balanceRead = NothingRead
    /\ shown = [g \in Gauges |-> NoValue]
    /\ dataAge = [g \in Gauges |-> AgeCap(g)]
    /\ failed = {}
    /\ zeroed = FALSE
    /\ faults = MaxFaults

\* The gauge counts each way in which balance and messages break their rules.
Count(condition) == IF condition THEN 1 ELSE 0

\* Mutant of Mismatch: only what is reserved too much is found.
MismatchOneSided(reservedCredits, total) == reservedCredits > total

Mismatch(reservedCredits, total) == reservedCredits # total

Violations(balance, reservedCredits, total) ==
    [negative_credits |-> Count(balance.credits < 0),
     negative_reserved_credits |-> Count(balance.reserved < 0),
     reserved_exceeds_credits |-> Count(balance.reserved > balance.credits),
     reserved_without_message |-> Count(reservedCredits > 0 /\ total = 0),
     message_balance_mismatch |-> Count(Mismatch(reservedCredits, total))]

-------------------------------------------------------------------------------
\* The writers, a transaction each.

\* Mutant of CanReserve: the constraint is checked before the reservation.
CanReserveUnchecked == credits >= reserved

CanReserve == credits >= reserved + 1

Submit ==
    /\ CanReserve
    /\ reserved' = reserved + 1 /\ heldCost' = heldCost + 1
    /\ UNCHANGED <<credits, ready, zeroed, process, faults>>

Release ==
    /\ heldCost > 0 /\ reserved >= 1
    /\ reserved' = reserved - 1 /\ heldCost' = heldCost - 1
    /\ UNCHANGED <<credits, ready, zeroed, process, faults>>

Settle ==
    /\ heldCost > 0 /\ reserved >= 1 /\ credits >= 1
    /\ credits' = credits - 1 /\ reserved' = reserved - 1 /\ heldCost' = heldCost - 1
    /\ UNCHANGED <<ready, zeroed, process, faults>>

ZeroCredits ==
    /\ AppDebug
    /\ credits' = 0 /\ reserved' = 0 /\ zeroed' = TRUE
    /\ UNCHANGED <<heldCost, ready, process, faults>>

\* Jobs come due, and relays claim them.
Backlog(n) ==
    /\ n # ready
    /\ ready' = n
    /\ UNCHANGED <<credits, reserved, heldCost, zeroed, process, faults>>

-------------------------------------------------------------------------------
\* The scrape.

\* Mutant of IsCached: what was read once is not read again.
IsCachedForEver(g) == hadSuccess[g]

\* The clock was read when the scrape began.
IsCached(g) == hadSuccess[g] /\ expiresIn[g] + elapsed > 0

Goes(step, next) == pc = step /\ pc' = next

StartScrape ==
    /\ Goes("idle", "ready")
    /\ UNCHANGED <<database, elapsed, hadSuccess, expiresIn, balanceRead, shown, dataAge, failed, faults>>

\* The last query for g succeeded: the gauge and its cache are set.
Refresh(g, value) ==
    /\ shown' = [shown EXCEPT ![g] = value]
    /\ hadSuccess' = [hadSuccess EXCEPT ![g] = TRUE]
    /\ expiresIn' = [expiresIn EXCEPT ![g] = TTL[g] - elapsed]

\* A cached gauge is passed over.
UseCache(g, next) ==
    /\ Goes(g, next)
    /\ IsCached(g)
    /\ UNCHANGED <<database, elapsed, hadSuccess, expiresIn, balanceRead, shown, dataAge, failed, faults>>

QueryReady ==
    /\ Goes("ready", "payment")
    /\ ~IsCached("ready")
    /\ Refresh("ready", ready)
    /\ dataAge' = [dataAge EXCEPT !["ready"] = 0]
    /\ UNCHANGED <<database, elapsed, balanceRead, failed, faults>>

QueryBalances ==
    /\ Goes("payment", "mismatch")
    /\ ~IsCached("payment")
    /\ balanceRead' = [credits |-> credits, reserved |-> reserved, age |-> 0]
    /\ UNCHANGED <<database, elapsed, hadSuccess, expiresIn, shown, dataAge, failed, faults>>

\* Mutant of ReservedNow: the balance of the first query is compared with the messages of the second.
ReservedThen == balanceRead.reserved

\* One statement joins balances and messages.
ReservedNow == reserved

\* The gauge is as old as the older of its two readings.
QueryMismatch ==
    /\ Goes("mismatch", "render")
    /\ Refresh("payment", Violations(balanceRead, ReservedNow, heldCost))
    /\ dataAge' = [dataAge EXCEPT !["payment"] = balanceRead.age]
    /\ UNCHANGED <<database, elapsed, balanceRead, failed, faults>>

\* Mutant of ExpiryAfterFailure: the failure is cached like a success.
ExpiryAfterFailureCached(g) == TTL[g] - elapsed

ExpiryAfterFailure(g) == expiresIn[g]

\* An exception of a query is logged; gauge and cache stay as they are and the scrape goes on.
QueryFails(g, step, next) ==
    /\ Goes(step, next)
    /\ step = g => ~IsCached(g)
    /\ faults > 0 /\ faults' = faults - 1
    /\ failed' = failed \cup {g}
    /\ expiresIn' = [expiresIn EXCEPT ![g] = ExpiryAfterFailure(g)]
    /\ UNCHANGED <<database, elapsed, hadSuccess, balanceRead, shown, dataAge>>

\* What a scrape keeps for itself is gone when it ends.
EndScrape == elapsed' = 0 /\ failed' = {} /\ balanceRead' = NothingRead

\* generate_latest answers with the values of the gauges.
Render ==
    /\ Goes("render", "idle")
    /\ EndScrape
    /\ UNCHANGED <<database, hadSuccess, expiresIn, shown, dataAge, faults>>

\* The API process starts anew.
Restart ==
    /\ faults > 0 /\ faults' = faults - 1
    /\ pc' = "idle"
    /\ EndScrape
    /\ hadSuccess' = [g \in Gauges |-> FALSE]
    /\ shown' = [g \in Gauges |-> NoValue]
    /\ UNCHANGED <<database, expiresIn, dataAge>>

Tick ==
    /\ pc # "idle" => elapsed < MaxScrape
    /\ elapsed' = IF pc = "idle" THEN elapsed ELSE elapsed + 1
    /\ expiresIn' = [g \in Gauges |-> IF expiresIn[g] > -MaxScrape THEN expiresIn[g] - 1 ELSE -MaxScrape]
    /\ dataAge' = [g \in Gauges |-> IF dataAge[g] < AgeCap(g) THEN dataAge[g] + 1 ELSE AgeCap(g)]
    /\ balanceRead' = IF pc = "mismatch" THEN [balanceRead EXCEPT !.age = @ + 1] ELSE balanceRead
    /\ UNCHANGED <<database, pc, hadSuccess, shown, failed, faults>>

WriterStep == Submit \/ Release \/ Settle \/ ZeroCredits \/ (\E n \in 0..MaxReady : Backlog(n))

ScrapeStep ==
    \/ UseCache("ready", "payment") \/ UseCache("payment", "render")
    \/ QueryReady \/ QueryBalances \/ QueryMismatch \/ Render

ScrapeFails ==
    \/ QueryFails("ready", "ready", "payment")
    \/ QueryFails("payment", "payment", "render") \/ QueryFails("payment", "mismatch", "render")
    \/ Restart

Next == WriterStep \/ StartScrape \/ ScrapeStep \/ ScrapeFails \/ Tick

Spec == Init /\ [][Next]_vars

\* Prometheus scrapes at intervals, queries end, and the clock goes on. Writers owe nothing.
FairSpec == Spec /\ WF_vars(StartScrape) /\ WF_vars(ScrapeStep) /\ WF_vars(Tick)

-------------------------------------------------------------------------------
\* Every variable has its type; what the CHECK constraints forbid is neither in the rows nor shown.
TypeOK ==
    /\ credits \in Nat /\ reserved \in 0..credits /\ heldCost \in Nat /\ ready \in 0..MaxReady
    /\ pc \in Steps /\ elapsed \in 0..MaxScrape
    /\ hadSuccess \in [Gauges -> BOOLEAN]
    /\ expiresIn \in [Gauges -> Int] /\ dataAge \in [Gauges -> Nat]
    /\ balanceRead \in [credits : Nat, reserved : Nat, age : 0..elapsed]
    /\ balanceRead.reserved <= balanceRead.credits
    /\ shown["ready"] \in 0..MaxReady \cup {NoValue}
    /\ shown["payment"] \in [ViolationTypes -> 0..1] \cup {NoValue}
    /\ failed \subseteq Gauges /\ zeroed \in BOOLEAN /\ faults \in 0..MaxFaults

\* What a scrape shows was read less than the gauge's cache time before the scrape began, unless
\* its query failed in this very scrape: neither a failure nor a slow or failing query for the
\* other gauge lets a value grow older.
StaleOnlyAfterFailure ==
    pc = "render" => \A g \in Gauges \ failed : shown[g] # NoValue /\ dataAge[g] - elapsed < TTL[g]

\* No false alarm: while messages are submitted and settled between the statements of a scrape, no
\* violation is shown of a database that never had one (only the debug endpoint causes one).
NoFalseAlarm ==
    ~zeroed /\ shown["payment"] # NoValue => \A t \in ViolationTypes : shown["payment"][t] = 0

\* A balance that is not the sum of its messages is reported in the end, however often values are
\* cached, queries fail and the API restarts in between.
MismatchIsReported ==
    reserved # heldCost
    ~> shown["payment"] # NoValue /\ shown["payment"]["message_balance_mismatch"] = 1

\* Once the database rests the gauges come to show it, and keep showing it.
GaugesConverge ==
    <>[][FALSE]_database =>
    <>[](shown["ready"] = ready
         /\ shown["payment"] = Violations([credits |-> credits, reserved |-> reserved], reserved, heldCost))
===============================================================================
