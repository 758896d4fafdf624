---------------------------- MODULE SerialSubmission ---------------------------
(* What a client of one user may rely on when it submits messages: each request *)
(* takes effect in one step between question and answer, or not at all, as if   *)
(* there were no other. No rows that wait for each other, no locks, no reads    *)
(* that go stale.                                                               *)
EXTENDS MessageRequests

CONSTANT TopUpAmount

VARIABLES
    messages,   \* what was accepted, by which request and in which of its tries
    userExists, credits, reserved,
    waiting,    \* the requests being served
    tries, answer

serialVars == <<messages, userExists, credits, reserved, waiting, tries, answer>>

Taken(q) == \E row \in messages : row.key \in KeysOf(q)

SerialInit ==
    /\ messages = {} /\ userExists = FALSE
    /\ credits = 0 /\ reserved = 0
    /\ waiting = {}
    /\ tries = [q \in Requests |-> 0]
    /\ answer = [q \in Requests |-> "none"]

Answers(q, a) == answer' = [answer EXCEPT ![q] = a]

Ask(q) ==
    /\ q \notin waiting
    /\ waiting' = waiting \cup {q}
    /\ tries' = [tries EXCEPT ![q] = @ + 1]
    /\ Answers(q, "none")
    /\ UNCHANGED <<messages, userExists, credits, reserved>>

\* Only a batch can name a key twice; it is refused at once.
AskInVain(q) ==
    /\ q \in Batches \ waiting
    /\ HasDuplicates(q)
    /\ tries' = [tries EXCEPT ![q] = @ + 1]
    /\ Answers(q, "duplicate")
    /\ UNCHANGED <<messages, userExists, credits, reserved, waiting>>

\* All its messages, paid for, and none of them there before.
Accept(q) ==
    /\ userExists /\ ~Taken(q)
    /\ credits - reserved >= RequestCost(q)
    /\ messages' = messages \cup
         {[key |-> Items[q][i].key, express |-> Items[q][i].express, payment |-> "RESERVED",
           by |-> q, try |-> tries[q]] : i \in DOMAIN Items[q]}
    /\ reserved' = reserved + RequestCost(q)
    /\ Answers(q, "created")

\* Why a request may change nothing.
Reason(q, a) ==
    \/ a = "replayed" /\ q \notin Batches /\ Taken(q)
    \/ a = "conflict" /\ q \in Batches /\ Taken(q)
    \/ a = "insufficient_balance" /\ ~Taken(q) /\ credits - reserved < RequestCost(q)
    \/ a = "user_not_found" /\ ~userExists
    \/ a = "error" /\ q \in Batches /\ \E p \in waiting \cap Batches : p # q /\ KeysOf(p) \cap KeysOf(q) # {}
    \/ a = "lost"

Decline(q, a) ==
    /\ Reason(q, a)
    /\ Answers(q, a)
    /\ UNCHANGED <<messages, reserved>>

Serve(q) ==
    /\ q \in waiting
    /\ Accept(q) \/ (\E a \in {"replayed", "conflict", "insufficient_balance", "user_not_found",
                               "error", "lost"} : Decline(q, a))
    /\ waiting' = waiting \ {q}
    /\ UNCHANGED <<userExists, credits, tries>>

LoseReply(q) ==
    /\ q \notin waiting
    /\ Answers(q, "lost")
    /\ UNCHANGED <<messages, userExists, credits, reserved, waiting, tries>>

CreateUser ==
    /\ ~userExists /\ userExists' = TRUE
    /\ UNCHANGED <<messages, credits, reserved, waiting, tries, answer>>

Buy ==
    /\ userExists
    /\ credits' = credits + TopUpAmount
    /\ UNCHANGED <<messages, userExists, reserved, waiting, tries, answer>>

Finish(row, p) ==
    /\ row.payment = "RESERVED"
    /\ messages' = (messages \ {row}) \cup {[row EXCEPT !.payment = p]}
    /\ reserved' = reserved - Cost(row)
    /\ credits' = IF p = "DEDUCTED" THEN credits - Cost(row) ELSE credits
    /\ UNCHANGED <<userExists, waiting, tries, answer>>

SerialNext ==
    \/ \E q \in Requests : Ask(q) \/ AskInVain(q) \/ Serve(q) \/ LoseReply(q)
    \/ CreateUser \/ Buy
    \/ \E row \in messages, p \in {"DEDUCTED", "REFUNDED"} : Finish(row, p)

SerialSpec == SerialInit /\ [][SerialNext]_serialVars
===============================================================================
