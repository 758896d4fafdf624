----------------------------- MODULE MCRateLimiter -----------------------------
(* One user's requests, and one of another user, against two tight buckets that  *)
(* regain three tokens in two seconds: normal messages of a user, with a burst   *)
(* of three, and requests of the whole system, with a burst of two.              *)
EXTENDS RateLimiter, TLC

CONSTANTS q1, q2, q3, b1, h1

Ask(endpoint, user, normal, express) ==
    [endpoint |-> endpoint, user |-> user, client |-> "ip:a", normal |-> normal, express |-> express]

MCRequestOf == [q \in Requests |->
    CASE q \in {q1, q2} -> Ask("single", "user:1", 1, 0)
      [] q = q3 -> Ask("single", "user:2", 0, 1)
      [] q = b1 -> Ask("batch", "user:1", 3, 1)
      [] q = h1 -> Ask("health", "user:1", 0, 0)]

Rules == {"messages:normal", "messages:express", "messages:batch_requests", "global:messages:normal",
          "global:messages:express", "global:messages:batch_requests", "system:messages", "system:requests"}

MCLimit == [r \in Rules |-> IF r \in {"messages:normal", "system:requests"} THEN 3 ELSE 9]
MCBurst == [r \in Rules |-> IF r = "messages:normal" THEN 3 ELSE IF r = "system:requests" THEN 2 ELSE 9]

\* The first two requests are alike.
Alike == Permutations({q1, q2})
===============================================================================
