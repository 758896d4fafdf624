----------------------------- MODULE MCSubmission -----------------------------
(* Requests of one user that share idempotency keys: a single one for each of   *)
(* two keys, and batches that name both in opposite orders, at different prices. *)
(* One of each kind is sent again when it has no answer.                         *)
EXTENDS Submission, TLC

CONSTANTS s1, s2, b1, b2, k1, k2

NormalOne(k) == [key |-> k, express |-> FALSE]
ExpressOne(k) == [key |-> k, express |-> TRUE]

MCItems == [q \in Requests |->
    CASE q = s1 -> <<NormalOne(k1)>>
      [] q = s2 -> <<ExpressOne(k2)>>
      [] q = b1 -> <<NormalOne(k1), NormalOne(k2)>>
      [] q = b2 -> <<NormalOne(k2), ExpressOne(k1)>>]

MCTries == [q \in Requests |-> IF q \in {s1, b1} THEN 2 ELSE 1]
===============================================================================
