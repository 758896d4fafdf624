-------------------------------- MODULE Pricing --------------------------------
(* What messages cost: each by its priority, several by the sum. Amounts are   *)
(* integers, in units of the smallest price step.                              *)
EXTENDS Integers, FiniteSets

CONSTANTS
    Messages,           \* what clients may submit
    ExpressMessages,    \* those of priority EXPRESS; the others are NORMAL
    CostNormal,         \* settings.cost_per_message
    CostExpress         \* settings.cost_per_express_message

ASSUME PricingAssumption ==
    /\ IsFiniteSet(Messages)
    /\ ExpressMessages \subseteq Messages
    /\ CostNormal \in Nat \ {0} /\ CostExpress \in Nat \ {0}

Cost(m) == IF m \in ExpressMessages THEN CostExpress ELSE CostNormal

TotalCost(S) == CostNormal * Cardinality(S \ ExpressMessages)
              + CostExpress * Cardinality(S \cap ExpressMessages)
===============================================================================
