-------------------------------- MODULE Listing --------------------------------
(* A client reads the list of messages page by page while messages arrive: a    *)
(* count and a SELECT with ORDER BY created_at DESC, LIMIT and OFFSET, each     *)
(* with a snapshot of its own. created_at is the time a transaction began, so   *)
(* messages of a batch share it, and one may become visible after younger ones. *)
(* The order of equals is the server's choice, anew in each statement.          *)
EXTENDS Integers, FiniteSets

CONSTANTS
    PageSize,       \* size of PaginationParams
    MaxBatch,       \* bound: messages of a request
    MaxRequests     \* bound: requests that submit messages

ASSUME ListingAssumption ==
    PageSize \in Nat \ {0} /\ MaxBatch \in Nat \ {0} /\ MaxRequests \in Nat

VARIABLES
    begun,      \* how many submitting transactions have begun
    open,       \* those not yet committed, as the rows they are going to show
    rows,       \* the committed messages
    pc,         \* what the client's request does next
    page,
    total,      \* as the answer for this page says
    followsPages,   \* the client stops at page number "pages"; others stop at a page that is not full
    seen, twice,    \* messages the client was shown, and those it was shown again
    before,     \* history: the messages there when it began
    quiet       \* history: none was committed since

database == <<begun, open, rows>>
client == <<pc, page, total, followsPages, seen, twice, before>>
vars == <<database, client, quiet>>

Row == [created_at : 1..MaxRequests, no : 1..MaxBatch]

Init ==
    /\ begun = 0 /\ open = {} /\ rows = {}
    /\ pc = "idle" /\ page = 1 /\ total = 0 /\ followsPages = FALSE
    /\ seen = {} /\ twice = {} /\ before = {}
    /\ quiet = TRUE

-------------------------------------------------------------------------------
\* A request with n messages begins its transaction: now() is created_at of all of them.
Begin(n) ==
    /\ begun < MaxRequests
    /\ begun' = begun + 1
    /\ open' = open \cup {[created_at : {begun + 1}, no : 1..n]}
    /\ UNCHANGED <<rows, client, quiet>>

Commit(batch) ==
    /\ open' = open \ {batch}
    /\ rows' = rows \cup batch
    /\ quiet' = (pc = "idle")
    /\ UNCHANGED <<begun, client>>

-------------------------------------------------------------------------------
\* Mutant of Offset: pages are counted from 0.
OffsetFromZero == page * PageSize

Offset == (page - 1) * PageSize

\* Mutant of Pages: rounded down.
PagesRoundedDown == total \div PageSize

\* math.ceil(total / size)
Pages == (total + PageSize - 1) \div PageSize

\* Mutant of Visible: rows of open transactions are read.
VisibleUncommitted == rows \cup UNION open

Visible == rows

Younger(row) == {r \in Visible : r.created_at > row.created_at}
Equals(row) == {r \in Visible : r.created_at = row.created_at}

\* The places of a row and its equals in the order.
Places(row) ==
    LET n == Cardinality(Younger(row)) IN (n + 1)..(n + Cardinality(Equals(row)))

OnPage == (Offset + 1)..(Offset + PageSize)

\* The messages a page may show: of each group of equals as many as have their places on it.
IsPage(S) ==
    \A row \in Visible :
        Cardinality(S \cap Equals(row)) = Cardinality(Places(row) \cap OnPage)

\* The client reads the list from its first page.
Start(follows) ==
    /\ pc = "idle"
    /\ pc' = "count" /\ page' = 1 /\ followsPages' = follows
    /\ seen' = {} /\ twice' = {}
    /\ before' = rows /\ quiet' = TRUE
    /\ UNCHANGED <<total, database>>

CountRows ==
    /\ pc = "count"
    /\ pc' = "select"
    /\ total' = Cardinality(Visible)
    /\ UNCHANGED <<page, followsPages, seen, twice, before, database, quiet>>

IsLast(S) == IF followsPages THEN page >= Pages ELSE Cardinality(S) < PageSize

SelectPage(S) ==
    /\ pc = "select"
    /\ IsPage(S)
    /\ seen' = seen \cup S
    /\ twice' = twice \cup (S \cap seen)
    /\ IF IsLast(S) THEN pc' = "done" /\ UNCHANGED page
                    ELSE pc' = "count" /\ page' = page + 1
    /\ UNCHANGED <<total, followsPages, before, database, quiet>>

Finish ==
    /\ pc = "done"
    /\ pc' = "idle" /\ page' = 1 /\ total' = 0 /\ followsPages' = FALSE
    /\ seen' = {} /\ twice' = {} /\ before' = {}
    /\ quiet' = TRUE
    /\ UNCHANGED database

ReadStep == CountRows \/ (\E S \in SUBSET Visible : SelectPage(S))

Next ==
    \/ \E n \in 1..MaxBatch : Begin(n)
    \/ \E batch \in open : Commit(batch)
    \/ \E follows \in BOOLEAN : Start(follows)
    \/ ReadStep \/ Finish

Spec == Init /\ [][Next]_vars

-------------------------------------------------------------------------------
\* Every variable has its type.
TypeOK ==
    /\ begun \in 0..MaxRequests
    /\ open \subseteq SUBSET Row /\ rows \subseteq Row
    /\ pc \in {"idle", "count", "select", "done"}
    /\ page \in Nat \ {0} /\ total \in 0..Cardinality(rows)
    /\ followsPages \in BOOLEAN /\ quiet \in BOOLEAN
    /\ twice \subseteq seen /\ seen \subseteq rows /\ before \subseteq rows

HasEqual(row) == Cardinality(Equals(row)) > 1

\* A client that reads until a page is not full misses no message that was there when it began,
\* however many arrive in between or are committed out of order. One that stops at the number of
\* pages it is told may miss the oldest when messages arrive, because the count is taken before the
\* page. Messages of one batch may be missed by both: their order is not defined.
NothingMissed ==
    pc = "done" /\ (followsPages => quiet) => \A row \in before : row \in seen \/ HasEqual(row)

\* A list at rest is read without repetition and to its last page.
QuietListIsExact ==
    quiet /\ pc = "done" => \A row \in rows : HasEqual(row) \/ (row \in seen /\ row \notin twice)
===============================================================================
