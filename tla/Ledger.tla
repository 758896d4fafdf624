-------------------------------- MODULE Ledger ---------------------------------
(* What the gateway promises a prepaying customer, without jobs, queues or      *)
(* processes: a message is accepted only against credit nothing else holds, and *)
(* its price is then either charged, for a message the provider accepted, or    *)
(* refunded, and that once. No balance is stored: it is what was bought less    *)
(* what the messages cost.                                                      *)
EXTENDS Integers

CONSTANTS
    Messages, Users, UserOf, TopUpAmount,
    Cost(_),        \* the price of a message
    TotalCost(_)    \* and of a set of messages

VARIABLES
    payment,    \* payment_status of each message, "NONE" before submission
    toppedUp,   \* credits each user bought
    delivered   \* how often the provider accepted the message, counted up to 2

ledgerVars == <<payment, toppedUp, delivered>>

MessagesOf(u, p) == {m \in Messages : UserOf[m] = u /\ payment[m] = p}
Held(u) == TotalCost(MessagesOf(u, "RESERVED"))
Spent(u) == TotalCost(MessagesOf(u, "DEDUCTED"))
Available(u) == toppedUp[u] - Spent(u) - Held(u)

LedgerInit ==
    /\ payment = [m \in Messages |-> "NONE"]
    /\ toppedUp = [u \in Users |-> 0]
    /\ delivered = [m \in Messages |-> 0]

Buy(u) ==
    /\ toppedUp' = [toppedUp EXCEPT ![u] = @ + TopUpAmount]
    /\ UNCHANGED <<payment, delivered>>

Accept(m) ==
    /\ payment[m] = "NONE"
    /\ Available(UserOf[m]) >= Cost(m)
    /\ payment' = [payment EXCEPT ![m] = "RESERVED"]
    /\ UNCHANGED <<toppedUp, delivered>>

Deliver(m) ==
    /\ payment[m] # "NONE"
    /\ delivered[m] < 2
    /\ delivered' = [delivered EXCEPT ![m] = @ + 1]
    /\ UNCHANGED <<payment, toppedUp>>

Charge(m) ==
    /\ payment[m] = "RESERVED" /\ delivered[m] > 0
    /\ payment' = [payment EXCEPT ![m] = "DEDUCTED"]
    /\ UNCHANGED <<toppedUp, delivered>>

Refund(m) ==
    /\ payment[m] = "RESERVED"
    /\ payment' = [payment EXCEPT ![m] = "REFUNDED"]
    /\ UNCHANGED <<toppedUp, delivered>>

LedgerNext ==
    \/ \E u \in Users : Buy(u)
    \/ \E m \in Messages : Accept(m) \/ Deliver(m) \/ Charge(m) \/ Refund(m)

LedgerSpec == LedgerInit /\ [][LedgerNext]_ledgerVars
===============================================================================
