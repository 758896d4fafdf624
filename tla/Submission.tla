------------------------------ MODULE Submission ------------------------------
(* The requests of one user that submit messages, as the statements they send *)
(* to PostgreSQL: rows inserted under the unique index on the idempotency key, *)
(* the balance row locked and read, everything committed or rolled back. An    *)
(* inserted row is invisible until the commit, but whoever inserts the same    *)
(* key waits for it. Answers get lost and clients try again.                   *)
EXTENDS MessageRequests

CONSTANTS
    TopUpAmount,
    MaxTopUps,      \* bound: how often credits are bought
    MaxTries,       \* bound: how often a client sends each request
    MaxFaults,      \* bound: crashes of the API and lost answers
    NoRequest

ASSUME SubmissionAssumption ==
    /\ NoRequest \notin Requests
    /\ TopUpAmount \in Nat \ {0} /\ MaxTopUps \in Nat
    /\ MaxTries \in [Requests -> Nat] /\ MaxFaults \in Nat

VARIABLES
    messages,   \* the committed rows, each with the request and the try that made it
    pc,         \* what a request does next
    inserted,   \* how many of its rows the open transaction has inserted
    holder,     \* who holds the lock of the balance row
    read,       \* the reserved_credits a request read under that lock
    userExists, \* the rows of users and balances are there
    credits,
    reserved,
    tries,      \* how often the client sent the request
    answer,     \* the last answer to the client
    topUps,     \* how often credits were bought
    faults

balanceVars == <<userExists, credits, reserved>>
vars == <<messages, pc, inserted, holder, read, balanceVars, tries, answer, topUps, faults>>

Steps == {"idle", "insert", "reserve", "commit", "replay"}
Answers == {"none", "created", "replayed", "duplicate", "conflict", "insufficient_balance",
            "user_not_found", "message_not_found", "error", "lost"}

Init ==
    /\ messages = {}
    /\ pc = [q \in Requests |-> "idle"]
    /\ inserted = [q \in Requests |-> 0]
    /\ holder = NoRequest
    /\ read = [q \in Requests |-> 0]
    /\ userExists = FALSE
    /\ credits = 0
    /\ reserved = 0
    /\ tries = [q \in Requests |-> 0]
    /\ answer = [q \in Requests |-> "none"]
    /\ topUps = 0
    /\ faults = MaxFaults

\* The transaction of q is over, either way: its locks are gone.
EndTransaction(q, next) ==
    /\ inserted' = [inserted EXCEPT ![q] = 0]
    /\ read' = [read EXCEPT ![q] = 0]
    /\ holder' = IF holder = q THEN NoRequest ELSE holder
    /\ pc' = [pc EXCEPT ![q] = next]

Answer(q, a) == answer' = [answer EXCEPT ![q] = a]

-------------------------------------------------------------------------------
\* A client sends a request once, and again while it has nothing to show for it.
WantsToSend(q) ==
    /\ pc[q] = "idle" /\ tries[q] < MaxTries[q]
    /\ answer[q] \in {"none", "lost", "error", "insufficient_balance", "user_not_found"}

\* Mutant of MustRefuse: the credits are looked at before the index is.
MustRefuseEarly(q) == HasDuplicates(q) \/ credits - reserved < RequestCost(q)

\* _check_duplicate_idempotency_keys runs before the transaction.
MustRefuse(q) == q \in Batches /\ HasDuplicates(q)

SendRequest(q) ==
    /\ WantsToSend(q)
    /\ tries' = [tries EXCEPT ![q] = @ + 1]
    /\ IF MustRefuse(q) THEN Answer(q, "duplicate") /\ UNCHANGED pc
                        ELSE Answer(q, "none") /\ pc' = [pc EXCEPT ![q] = "insert"]
    /\ UNCHANGED <<messages, inserted, holder, read, balanceVars, topUps, faults>>

\* The key of the row that q inserts next.
NextKey(q) == Items[q][inserted[q] + 1].key

Committed(k) == \E row \in messages : row.key = k

HasInserted(p, k) == \E i \in 1..inserted[p] : Items[p][i].key = k

\* q has to wait for the transaction of p.
WaitsFor(q, p) == p # q /\ pc[q] = "insert" /\ HasInserted(p, NextKey(q))

\* Mutant of KeyIsTaken: a row that is not committed counts, without waiting for its commit.
KeyIsTakenEarly(q) == Committed(NextKey(q)) \/ \E p \in Requests \ {q} : WaitsFor(q, p)

KeyIsTaken(q) == Committed(NextKey(q))

\* Mutant of KeyIsFree: rows that are not committed are overlooked.
KeyIsFreeUncommitted(q) == ~Committed(NextKey(q))

KeyIsFree(q) == ~Committed(NextKey(q)) /\ \A p \in Requests : ~WaitsFor(q, p)

LastRow(q) == inserted[q] + 1 = Len(Items[q])

InsertMessage(q) ==
    /\ pc[q] = "insert"
    /\ KeyIsFree(q)
    /\ LastRow(q) => userExists
    /\ inserted' = [inserted EXCEPT ![q] = @ + 1]
    /\ pc' = [pc EXCEPT ![q] = IF LastRow(q) THEN "reserve" ELSE "insert"]
    /\ UNCHANGED <<messages, holder, read, balanceVars, tries, answer, topUps, faults>>

\* The rows of a request go in one INSERT. The unique index is looked at row by row, the foreign keys
\* when the statement ends: UserNotFoundError.
ForeignKeyViolation(q) ==
    /\ pc[q] = "insert"
    /\ KeyIsFree(q) /\ LastRow(q)
    /\ ~userExists
    /\ EndTransaction(q, "idle")
    /\ Answer(q, "user_not_found")
    /\ UNCHANGED <<messages, balanceVars, tries, topUps, faults>>

\* UniqueViolation rolls back; a single request then looks for the message that is there.
UniqueViolation(q) ==
    /\ pc[q] = "insert"
    /\ KeyIsTaken(q)
    /\ EndTransaction(q, IF q \in Batches THEN "idle" ELSE "replay")
    /\ Answer(q, IF q \in Batches THEN "conflict" ELSE "none")
    /\ UNCHANGED <<messages, balanceVars, tries, topUps, faults>>

Replay(q) ==
    /\ pc[q] = "replay"
    /\ EndTransaction(q, "idle")
    /\ Answer(q, IF Committed(NextKey(q)) THEN "replayed" ELSE "message_not_found")
    /\ UNCHANGED <<messages, balanceVars, tries, topUps, faults>>

\* Mutant of BalanceIsFree: the balance is read without FOR UPDATE.
BalanceIsFreeAlways == TRUE

BalanceIsFree == holder = NoRequest

\* reserve_credits: SELECT ... FOR UPDATE reads the latest version of the row.
LockBalance(q) ==
    /\ pc[q] = "reserve"
    /\ userExists /\ BalanceIsFree
    /\ holder' = q
    /\ read' = [read EXCEPT ![q] = reserved]
    /\ pc' = [pc EXCEPT ![q] = "commit"]
    /\ UNCHANGED <<messages, inserted, balanceVars, tries, answer, topUps, faults>>

\* Mutant of Fits: no CHECK (credits >= reserved_credits).
FitsUnchecked(q) == credits >= 0

Fits(q) == credits >= read[q] + RequestCost(q)

\* What the commit makes visible; each message has its job in dispatch_jobs.
Rows(q) == {[key |-> Items[q][i].key, express |-> Items[q][i].express, payment |-> "RESERVED",
             by |-> q, try |-> tries[q]] : i \in DOMAIN Items[q]}

Commit(q) ==
    /\ pc[q] = "commit"
    /\ Fits(q)
    /\ messages' = messages \cup Rows(q)
    /\ reserved' = read[q] + RequestCost(q)
    /\ EndTransaction(q, "idle")
    /\ Answer(q, "created")
    /\ UNCHANGED <<userExists, credits, tries, topUps, faults>>

CheckViolation(q) ==
    /\ pc[q] = "commit"
    /\ ~Fits(q)
    /\ EndTransaction(q, "idle")
    /\ Answer(q, "insufficient_balance")
    /\ UNCHANGED <<messages, balanceVars, tries, topUps, faults>>

\* Mutant of Deadlocked: the server never looks for a cycle.
DeadlockedNever(q) == WaitsFor(q, q)

\* q is on a cycle of transactions that wait for each other's rows.
Deadlocked(q) ==
    \E S \in SUBSET Requests :
        /\ q \in S
        /\ \A p \in S : (\E p1 \in S : WaitsFor(p, p1)) /\ (\E p1 \in S : WaitsFor(p1, p))

\* The server aborts one of them. This is no IntegrityError: the client gets a plain 500.
DeadlockAbort(q) ==
    /\ Deadlocked(q)
    /\ EndTransaction(q, "idle")
    /\ Answer(q, "error")
    /\ UNCHANGED <<messages, balanceVars, tries, topUps, faults>>

-------------------------------------------------------------------------------
\* The API dies with the request, or the answer does not reach the client.
ApiCrash(q) ==
    /\ pc[q] # "idle" /\ faults > 0
    /\ faults' = faults - 1
    /\ EndTransaction(q, "idle")
    /\ Answer(q, "lost")
    /\ UNCHANGED <<messages, balanceVars, tries, topUps>>

LoseAnswer(q) ==
    /\ pc[q] = "idle" /\ answer[q] \in {"created", "replayed"} /\ faults > 0
    /\ faults' = faults - 1
    /\ Answer(q, "lost")
    /\ UNCHANGED <<messages, pc, inserted, holder, read, balanceVars, tries, topUps>>

\* A user is created with an empty balance.
CreateUser ==
    /\ ~userExists
    /\ userExists' = TRUE
    /\ UNCHANGED <<messages, pc, inserted, holder, read, credits, reserved, tries, answer, topUps, faults>>

\* Others who lock the balance row, each in a transaction of its own.
TopUp ==
    /\ userExists /\ BalanceIsFree
    /\ topUps < MaxTopUps
    /\ topUps' = topUps + 1
    /\ credits' = credits + TopUpAmount
    /\ UNCHANGED <<messages, pc, inserted, holder, read, userExists, reserved, tries, answer, faults>>

\* A worker settles a message or gives it up.
Outcome(row, p) ==
    /\ BalanceIsFree
    /\ row \in messages /\ row.payment = "RESERVED"
    /\ messages' = (messages \ {row}) \cup {[row EXCEPT !.payment = p]}
    /\ reserved' = reserved - Cost(row)
    /\ credits' = IF p = "DEDUCTED" THEN credits - Cost(row) ELSE credits
    /\ UNCHANGED <<pc, inserted, holder, read, userExists, tries, answer, topUps, faults>>

RequestStep(q) ==
    InsertMessage(q) \/ UniqueViolation(q) \/ Replay(q) \/ ForeignKeyViolation(q) \/ LockBalance(q)
    \/ Commit(q) \/ CheckViolation(q) \/ DeadlockAbort(q)

Next ==
    \/ \E q \in Requests : SendRequest(q) \/ RequestStep(q) \/ ApiCrash(q) \/ LoseAnswer(q)
    \/ CreateUser \/ TopUp
    \/ \E row \in messages, p \in {"DEDUCTED", "REFUNDED"} : Outcome(row, p)

Spec == Init /\ [][Next]_vars

\* The threads of the API run, and the server grants free locks and breaks deadlocks.
FairSpec == Spec /\ \A q \in Requests : WF_vars(RequestStep(q))

-------------------------------------------------------------------------------
\* Every variable has its type, and credits and reservations their bounds.
TypeOK ==
    /\ messages \subseteq [key : Keys, express : BOOLEAN, payment : {"RESERVED", "DEDUCTED", "REFUNDED"},
                           by : Requests, try : Nat \ {0}]
    /\ pc \in [Requests -> Steps]
    /\ inserted \in [Requests -> Nat]
    /\ holder \in Requests \cup {NoRequest}
    /\ read \in [Requests -> Nat]
    /\ userExists \in BOOLEAN
    /\ credits \in Nat /\ reserved \in 0..credits
    /\ tries \in [Requests -> Nat] /\ \A q \in Requests : tries[q] <= MaxTries[q]
    /\ answer \in [Requests -> Answers]
    /\ topUps \in 0..MaxTopUps
    /\ faults \in 0..MaxFaults

\* However many requests and tries carry a key, there is one message with it: the index lets the
\* second one wait for the first, and go on only if that one rolls back.
OneMessagePerKey == \A row1, row2 \in messages : row1.key = row2.key => row1 = row2

TotalCost(S) == CostNormal * Cardinality({row \in S : ~row.express})
              + CostExpress * Cardinality({row \in S : row.express})

\* The reservations in the balance row are those of the messages, whoever reserves, settles or
\* refunds at the same time: no update is lost.
ReservationsAddUp == reserved = TotalCost({row \in messages : row.payment = "RESERVED"})

\* Once a key has its message, single requests for it get that message and nothing else, also
\* when the credits are gone by then.
KeyIsReplayed ==
    [][\A q \in Requests \ Batches :
        Committed(Items[q][1].key) /\ answer'[q] # answer[q]
        => answer'[q] \in {"none", "replayed", "lost"}]_vars

\* The same requests, served one at a time; a request waits while its statements are run.
Serial == INSTANCE SerialSubmission WITH waiting <- {q \in Requests : pc[q] # "idle"}

\* Statements of many requests interleaved have the effect of whole requests one after the other,
\* each with the answer it would get alone: who loses a race for a key finds the winner's message,
\* who is refused had no credit at that moment, and only batches that share keys may end in an error.
ImplementsSerial == Serial!SerialSpec

\* Every request is answered: none waits for other transactions for ever.
EveryRequestIsAnswered == \A q \in Requests : []<>(pc[q] = "idle")
===============================================================================
