----------------------------- MODULE RequestLimits -----------------------------
(* Which token buckets a request has to pay, and how much: resolve_rate_limits. *)
(* A bucket is named by its rule and an identity. Paths, methods and the JSON   *)
(* body are read already: a request is the endpoint it asks for, the user it    *)
(* names (NoUser when it names none the limiter can read), the client's address *)
(* and how many normal and express messages its body holds.                     *)
EXTENDS Integers, Sequences, FiniteSets

CONSTANT NoUser

Endpoints == {"single", "batch", "reports", "status", "user creates", "user reads",
              "user writes", "pricing", "unknown", "health"}

Charge(rule, identity, cost) == [rule |-> rule, identity |-> identity, cost |-> cost]

BucketOf(charge) == [rule |-> charge.rule, identity |-> charge.identity]

\* user:<id> when the request names a user, else ip:<address>. The id is taken as it is written, not
\* as a number: '7' and '007' in a path or query name one user and two buckets, and are two users here.
Identity(req) == IF req.user = NoUser THEN req.client ELSE req.user

SystemRequestLimits == <<Charge("system:requests", "system", 1)>>

SystemMessages(cost) == <<Charge("system:messages", "system", cost)>>

\* message_limits; the system buckets are added by the caller, once for the request.
MessageLimits(priority, identity, cost) ==
    IF priority = "express"
    THEN <<Charge("messages:express", identity, cost), Charge("global:messages:express", "global", cost)>>
    ELSE <<Charge("messages:normal", identity, cost), Charge("global:messages:normal", "global", cost)>>

SingleLimits(req) ==
    MessageLimits(IF req.express > 0 THEN "express" ELSE "normal", Identity(req), 1)
    \o SystemMessages(1) \o SystemRequestLimits

\* Only the part of a batch that has messages is charged for messages.
Part(priority, identity, count) ==
    IF count = 0 THEN <<>> ELSE MessageLimits(priority, identity, count)

\* Mutant of BatchLimits: each priority brings its own system charge.
BatchLimitsPerPriority(req) ==
    <<Charge("messages:batch_requests", Identity(req), 1),
      Charge("global:messages:batch_requests", "global", 1)>>
    \o Part("normal", Identity(req), req.normal)
    \o (IF req.normal = 0 THEN <<>> ELSE SystemMessages(req.normal))
    \o Part("express", Identity(req), req.express)
    \o (IF req.express = 0 THEN <<>> ELSE SystemMessages(req.express))
    \o SystemRequestLimits

BatchLimits(req) ==
    <<Charge("messages:batch_requests", Identity(req), 1),
      Charge("global:messages:batch_requests", "global", 1)>>
    \o Part("normal", Identity(req), req.normal)
    \o Part("express", Identity(req), req.express)
    \o (IF req.normal + req.express = 0 THEN <<>> ELSE SystemMessages(req.normal + req.express))
    \o SystemRequestLimits

\* endpoint_limits: one bucket of the identity, one of everybody.
EndpointLimits(rule, global, identity) ==
    <<Charge(rule, identity, 1), Charge(global, "global", 1)>> \o SystemRequestLimits

\* Reads of users, and what names no user, are limited by address.
ResolveLimits(req) ==
    CASE req.endpoint = "health"       -> <<>>
      [] req.endpoint = "single"       -> SingleLimits(req)
      [] req.endpoint = "batch"        -> BatchLimits(req)
      [] req.endpoint = "reports"      -> EndpointLimits("messages:reports", "global:messages:reports", Identity(req))
      [] req.endpoint = "status"       -> EndpointLimits("messages:status", "global:messages:status", Identity(req))
      [] req.endpoint = "user creates" -> EndpointLimits("users:creates", "global:users:creates", req.client)
      [] req.endpoint = "user reads"   -> EndpointLimits("users:reads", "global:users:reads", req.client)
      [] req.endpoint = "user writes"  -> EndpointLimits("users:writes", "global:users:writes", Identity(req))
      [] req.endpoint = "pricing"      -> EndpointLimits("pricing", "global:pricing", req.client)
      [] req.endpoint = "unknown"      -> SystemRequestLimits

\* rate_limit_rejection_reason reads the first part of the rule's name.
GlobalRules == {"global:messages:normal", "global:messages:express", "global:messages:batch_requests",
                "global:messages:reports", "global:messages:status", "global:users:creates",
                "global:users:reads", "global:users:writes", "global:pricing"}
SystemRules == {"system:messages", "system:requests"}

RejectionReason(rule) ==
    IF rule \in GlobalRules THEN "global_rate_limited"
    ELSE IF rule \in SystemRules THEN "system_rate_limited"
    ELSE "rate_limited"

\* The buckets that count messages.
MessageRules == {"messages:normal", "messages:express", "global:messages:normal",
                 "global:messages:express", "system:messages"}

\* The tokens that a list of charges takes from the bucket b, one by one.
TokensFrom(charges, b) ==
    UNION {{i} \X (1..charges[i].cost) : i \in {k \in DOMAIN charges : BucketOf(charges[k]) = b}}

Paid(charges, b) == Cardinality(TokensFrom(charges, b))
===============================================================================
