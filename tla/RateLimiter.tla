------------------------------ MODULE RateLimiter ------------------------------
(* The token buckets in Redis. A request is stamped with the clock of the API,  *)
(* travels to Redis and is charged there by one Lua script to all its buckets,  *)
(* or to none. Time is in seconds. Tokens are kept in fractions of 1/Window, so *)
(* that a bucket regains a whole number, its limit, of them per second.         *)
EXTENDS RequestLimits

CONSTANTS
    Requests,       \* each is made once
    RequestOf,      \* what it asks for
    Limit, Burst,   \* of each rule: tokens per window, and the capacity
    Window,         \* WINDOW_SECONDS
    FailOpen,       \* settings.rate_limit_fail_open
    MaxDelay,       \* seconds between the stamp and the script
    MaxTime,        \* bound: seconds of a run
    MaxFaults       \* bound: calls to Redis that fail

Charges == [q \in Requests |-> ResolveLimits(RequestOf[q])]
Buckets == UNION {{BucketOf(Charges[q][i]) : i \in DOMAIN Charges[q]} : q \in Requests}

IsCharged(q, b) == \E i \in DOMAIN Charges[q] : BucketOf(Charges[q][i]) = b
ChargeTo(q, b) == Charges[q][CHOOSE i \in DOMAIN Charges[q] : BucketOf(Charges[q][i]) = b]

\* Settings refuses limits and bursts that are not positive.
RuleOK(rule) == Limit[rule] \in Nat \ {0} /\ Burst[rule] \in Nat \ {0}

ASSUME LimiterAssumption ==
    /\ IsFiniteSet(Requests)
    /\ \A q \in Requests :
          RequestOf[q].endpoint \in Endpoints /\ RequestOf[q].normal \in Nat /\ RequestOf[q].express \in Nat
    /\ \A b \in Buckets : RuleOK(b.rule)
    /\ Window \in Nat \ {0} /\ FailOpen \in BOOLEAN
    /\ MaxDelay \in Nat /\ MaxTime \in Nat /\ MaxFaults \in Nat

VARIABLES
    now,
    phase,      \* of each request
    stamp,      \* time.time() when it was sent to the limiter
    charged,    \* its tokens were taken
    retryAfter, \* the seconds a refused client is told to wait
    deniedBy,   \* and the reason that is recorded
    bucket,     \* the hash in Redis: tokens, updated_at, and when the key expires
    setBack,    \* history: by how many seconds late requests set a bucket's updated_at back
    faults

vars == <<now, phase, stamp, charged, retryAfter, deniedBy, bucket, setBack, faults>>

Phases == {"new", "sent", "admitted", "refused", "unmetered", "unavailable"}
NoBucket == [tokens |-> 0, updated |-> 0, expires |-> 0]

Init ==
    /\ now = 0
    /\ phase = [q \in Requests |-> "new"]
    /\ stamp = [q \in Requests |-> 0]
    /\ charged = [q \in Requests |-> FALSE]
    /\ retryAfter = [q \in Requests |-> 0]
    /\ deniedBy = [q \in Requests |-> "none"]
    /\ bucket = [b \in Buckets |-> NoBucket]
    /\ setBack = [b \in Buckets |-> 0]
    /\ faults = MaxFaults

-------------------------------------------------------------------------------
Capacity(b) == Burst[b.rule] * Window
Price(charge) == charge.cost * Window
Lesser(x, y) == IF x < y THEN x ELSE y
Greater(x, y) == IF x > y THEN x ELSE y

\* ttl_milliseconds: two windows.
Ttl == 2 * Window

\* Mutant of Refill: no cap.
RefillUncapped(b, tokens, elapsed) == tokens + Greater(0, elapsed) * Limit[b.rule]

\* Up to the capacity; a clock that went back regains nothing.
Refill(b, tokens, elapsed) == Lesser(Capacity(b), tokens + Greater(0, elapsed) * Limit[b.rule])

\* The tokens of b as a request stamped t finds them; a key that is gone counts as full.
Level(b, t) ==
    IF now < bucket[b].expires THEN Refill(b, bucket[b].tokens, t - bucket[b].updated) ELSE Capacity(b)

Lacks(q, i) == LET c == Charges[q][i] IN Level(BucketOf(c), stamp[q]) < Price(c)

Denied(q) == {i \in DOMAIN Charges[q] : Lacks(q, i)}

\* Mutant of Wait: rounded down.
WaitRoundedDown(q, i) ==
    LET c == Charges[q][i] IN (Price(c) - Level(BucketOf(c), stamp[q])) \div Limit[c.rule]

\* math.ceil((cost - tokens) / rate)
Wait(q, i) ==
    LET c == Charges[q][i] IN
    (Price(c) - Level(BucketOf(c), stamp[q]) + Limit[c.rule] - 1) \div Limit[c.rule]

\* The first of the buckets that keep the client waiting longest.
LongestWait(q) ==
    CHOOSE i \in Denied(q) :
        \A j \in Denied(q) : Wait(q, j) <= Wait(q, i) /\ (Wait(q, j) = Wait(q, i) => i <= j)

\* Mutant of Taken: a refused request pays what it can.
TakenAlways(q, c) == Lesser(Price(c), Level(BucketOf(c), stamp[q]))

\* Mutant of Taken: every bucket pays, whether the others can or not.
TakenUnchecked(q, c) == Price(c)

Taken(q, c) == IF Denied(q) = {} THEN Price(c) ELSE 0

\* Seconds that b has to wait for again because q, stamped earlier, came later.
StepsBack(q, b) ==
    IF now < bucket[b].expires /\ IsCharged(q, b)
    THEN Greater(0, bucket[b].updated - stamp[q])
    ELSE 0

\* The script writes every bucket, also when it denies: what was regained, and the stamp.
RunScript(q) ==
    /\ bucket' = [b \in Buckets |->
           IF IsCharged(q, b)
           THEN [tokens |-> Level(b, stamp[q]) - Taken(q, ChargeTo(q, b)),
                 updated |-> stamp[q], expires |-> now + Ttl]
           ELSE bucket[b]]
    /\ charged' = [charged EXCEPT ![q] = Denied(q) = {}]
    /\ setBack' = [b \in Buckets |-> setBack[b] + StepsBack(q, b)]

\* The script of q is next at Redis, whatever was stamped before or after it.
Arrives(q) == phase[q] = "sent"

-------------------------------------------------------------------------------
\* Nobody waits for Redis longer than MaxDelay.
Tick ==
    /\ now < MaxTime
    /\ \A q \in Requests : phase[q] = "sent" => now - stamp[q] < MaxDelay
    /\ now' = now + 1
    /\ UNCHANGED <<phase, stamp, charged, retryAfter, deniedBy, bucket, setBack, faults>>

\* A request without buckets does not ask the limiter.
Send(q) ==
    /\ phase[q] = "new"
    /\ IF Charges[q] = <<>>
       THEN phase' = [phase EXCEPT ![q] = "unmetered"] /\ UNCHANGED stamp
       ELSE phase' = [phase EXCEPT ![q] = "sent"] /\ stamp' = [stamp EXCEPT ![q] = now]
    /\ UNCHANGED <<now, charged, retryAfter, deniedBy, bucket, setBack, faults>>

Admit(q) ==
    /\ Arrives(q) /\ Denied(q) = {}
    /\ RunScript(q)
    /\ phase' = [phase EXCEPT ![q] = "admitted"]
    /\ UNCHANGED <<now, stamp, retryAfter, deniedBy, faults>>

\* 429, with the longest wait of its buckets as Retry-After.
Refuse(q) ==
    /\ Arrives(q) /\ Denied(q) # {}
    /\ RunScript(q)
    /\ phase' = [phase EXCEPT ![q] = "refused"]
    /\ retryAfter' = [retryAfter EXCEPT ![q] = Wait(q, LongestWait(q))]
    /\ deniedBy' = [deniedBy EXCEPT ![q] = RejectionReason(Charges[q][LongestWait(q)].rule)]
    /\ UNCHANGED <<now, stamp, faults>>

\* RedisError, before the script ran or after it (ran): let through, or 503. The code makes one call; a
\* client library that repeats it after a lost reply, and so runs the script twice, is left out.
RedisFails(q, ran) ==
    /\ Arrives(q) /\ faults > 0
    /\ faults' = faults - 1
    /\ IF ran THEN RunScript(q) ELSE UNCHANGED <<bucket, charged, setBack>>
    /\ IF FailOpen
       THEN phase' = [phase EXCEPT ![q] = "unmetered"] /\ UNCHANGED deniedBy
       ELSE /\ phase' = [phase EXCEPT ![q] = "unavailable"]
            /\ deniedBy' = [deniedBy EXCEPT ![q] = "system_rate_limited"]
    /\ UNCHANGED <<now, stamp, retryAfter>>

Next ==
    \/ Tick
    \/ \E q \in Requests : Send(q) \/ Admit(q) \/ Refuse(q) \/ (\E ran \in BOOLEAN : RedisFails(q, ran))

Spec == Init /\ [][Next]_vars

-------------------------------------------------------------------------------
\* Every variable has its type; no bucket is overdrawn or holds more than its burst.
TypeOK ==
    /\ now \in 0..MaxTime
    /\ phase \in [Requests -> Phases]
    /\ stamp \in [Requests -> 0..MaxTime]
    /\ charged \in [Requests -> BOOLEAN]
    /\ retryAfter \in [Requests -> Nat]
    /\ deniedBy \in [Requests -> {"none", "rate_limited", "global_rate_limited", "system_rate_limited"}]
    /\ \A b \in Buckets : bucket[b].tokens \in 0..Capacity(b) /\ bucket[b].updated \in 0..MaxTime
    /\ setBack \in [Buckets -> Nat]
    /\ faults \in 0..MaxFaults

\* What the requests stamped between two moments took from a bucket.
Payers(from, to) == {q \in Requests : charged[q] /\ stamp[q] \in from..to}
TokensPaid(b, from, to) == UNION {{q} \X TokensFrom(Charges[q], b) : q \in Payers(from, to)}
PaidBetween(b, from, to) == Window * Cardinality(TokensPaid(b, from, to))

\* A bucket is full again before its key expires, however late the next request is.
FullBeforeExpiry(b) == Capacity(b) <= Limit[b.rule] * (Ttl - MaxDelay)

Budget(b, from, to) == Capacity(b) + (to - from) * Limit[b.rule]

\* What a token bucket is for: in no period do the admitted requests exceed the burst and what was
\* regained meanwhile, through expiry of the key, refusals and lost replies; but for the seconds
\* that requests which overtook each other let a bucket count twice.
LimitsKept ==
    \A b \in {b1 \in Buckets : FullBeforeExpiry(b1)} : \A from \in 0..now : \A to \in from..now :
        PaidBetween(b, from, to) <= Budget(b, from, to) + setBack[b] * Limit[b.rule]

\* And no stricter: a request is refused only when it would exceed one of those budgets, so that
\* what was refused before, or by another bucket, has cost it nothing; but for the same seconds.
RefusedOnlyOverBudget ==
    [][\A q \in Requests :
        phase[q] = "sent" /\ phase'[q] = "refused" =>
        \E i \in DOMAIN Charges[q] : \E from \in 0..stamp[q] : \E to \in stamp[q]..now :
            LET b == BucketOf(Charges[q][i]) IN
            PaidBetween(b, from, to) + Price(Charges[q][i])
                > Budget(b, from, to) - setBack'[b] * Limit[b.rule]]_vars

\* Retry-After is long enough for every bucket that could ever pay: after it, counted from the
\* stamp, each of them has the tokens if nobody else takes them.
RetryAfterIsEnough ==
    [][\A q \in Requests :
        phase[q] = "sent" /\ phase'[q] = "refused" =>
        \A i \in DOMAIN Charges[q] :
            LET c == Charges[q][i]
                b == BucketOf(c)
            IN  c.cost <= Burst[c.rule] =>
                Refill(b, bucket'[b].tokens, stamp[q] + retryAfter'[q] - bucket'[b].updated) >= Price(c)]_vars

\* A batch pays like its messages sent one by one, from every message bucket: that is how much less
\* is there when its script has run and admitted it, not less for a bucket named twice and not more
\* for one of two priorities, and nothing for a bucket of others.
BatchPaysPerMessage ==
    [][\A q \in Requests :
        /\ RequestOf[q].endpoint = "batch"
        /\ phase[q] = "sent" /\ phase'[q] = "admitted"
        => LET req == RequestOf[q]
               one(n, e) == SingleLimits([endpoint |-> "single", user |-> req.user, client |-> req.client,
                                          normal |-> n, express |-> e])
           IN  \A b \in {b1 \in Buckets : b1.rule \in MessageRules} :
                   Level(b, stamp[q])' = Level(b, stamp[q])
                       - Window * (req.normal * Paid(one(1, 0), b) + req.express * Paid(one(0, 1), b))]_vars
===============================================================================
