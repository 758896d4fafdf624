---------------------------- MODULE MessageRequests ----------------------------
(* What clients send to POST /messages and POST /messages/batch, and what it     *)
(* costs: each message by its priority, a batch by the sum.                      *)
EXTENDS Integers, Sequences, FiniteSets

CONSTANTS
    Requests,
    Batches,        \* POST /messages/batch; the others are POST /messages
    Keys,           \* idempotency keys
    Items,          \* the messages of each request, in order
    CostNormal,     \* settings.cost_per_message
    CostExpress     \* settings.cost_per_express_message

\* A message as submitted: its key, and whether its priority is EXPRESS or NORMAL.
Item == [key : Keys, express : BOOLEAN]

ASSUME RequestAssumption ==
    /\ Batches \subseteq Requests
    /\ Items \in [Requests -> Seq(Item)]
    /\ \A q \in Requests : Items[q] # <<>>
    /\ \A q \in Requests \ Batches : Len(Items[q]) = 1
    /\ CostNormal \in Nat \ {0} /\ CostExpress \in Nat \ {0}

KeysOf(q) == {Items[q][i].key : i \in DOMAIN Items[q]}
HasDuplicates(q) == Cardinality(KeysOf(q)) < Len(Items[q])

Cost(item) == IF item.express THEN CostExpress ELSE CostNormal

RequestCost(q) == CostNormal * Cardinality({i \in DOMAIN Items[q] : ~Items[q][i].express})
                + CostExpress * Cardinality({i \in DOMAIN Items[q] : Items[q][i].express})
===============================================================================
