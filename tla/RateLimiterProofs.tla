--------------------------- MODULE RateLimiterProofs ---------------------------
(* What holds of RateLimiter for every rule set, window, clock and set of       *)
(* requests.                                                                    *)
EXTENDS RateLimiter, Counting, SequenceTheorems, FiniteSetTheorems, TLAPS

\* s lists the charges of C, each once, and no two under the same rule.
Enumerates(s, C) ==
    /\ s \in Seq(C)
    /\ \A c \in C : \E i \in DOMAIN s : s[i] = c
    /\ \A i, j \in DOMAIN s : s[i].rule = s[j].rule => i = j

\* A list of none, one or two charges.
LEMMA EnumerateFew ==
    /\ Enumerates(<<>>, {})
    /\ \A c : Enumerates(<<c>>, {c})
    /\ \A c, d : c.rule # d.rule => Enumerates(<<c, d>>, {c, d})
<1>1. Enumerates(<<>>, {})
  BY DEF Enumerates
<1>2. \A c : Enumerates(<<c>>, {c})
  BY DEF Enumerates
<1>3. ASSUME NEW c, NEW d, c.rule # d.rule
      PROVE  Enumerates(<<c, d>>, {c, d})
  <2>. DEFINE s == <<c, d>>
  <2>1. s \in Seq({c, d}) /\ DOMAIN s = {1, 2} /\ s[1] = c /\ s[2] = d
    OBVIOUS
  <2>. HIDE DEF s
  <2>2. Enumerates(s, {c, d})
    BY <1>3, <2>1 DEF Enumerates
  <2>. QED
    BY <2>2 DEF s
<1>. QED
  BY <1>1, <1>2, <1>3

\* Lists of charges under different rules, one after the other.
LEMMA EnumerateBoth ==
    ASSUME NEW s, NEW t, NEW C, NEW D, Enumerates(s, C), Enumerates(t, D),
           \A c \in C, d \in D : c.rule # d.rule
    PROVE  Enumerates(s \o t, C \cup D)
<1>. DEFINE st == s \o t
            E == C \cup D
<1>1. s \in Seq(E) /\ t \in Seq(E) /\ s \in Seq(C) /\ t \in Seq(D)
  <2>1. C \subseteq E /\ D \subseteq E
    OBVIOUS
  <2>. HIDE DEF E
  <2>. QED
    BY <2>1, SeqMonotonic DEF Enumerates
<1>2. /\ Len(s) \in Nat /\ DOMAIN s = 1..Len(s) /\ Len(t) \in Nat /\ DOMAIN t = 1..Len(t)
      /\ \A i \in 1..Len(s) : s[i] \in C
      /\ \A i \in 1..Len(t) : t[i] \in D
  BY <1>1, ElementOfSeq, LenProperties
<1>. HIDE DEF E
<1>3. /\ st \in Seq(E) /\ DOMAIN st = 1..Len(s) + Len(t)
      /\ \A i \in 1..Len(s) + Len(t) : st[i] = IF i <= Len(s) THEN s[i] ELSE t[i - Len(s)]
  BY <1>1, ConcatProperties, LenProperties
<1>. HIDE DEF st
<1>4. \A i \in 1..Len(s) : i \in DOMAIN st /\ st[i] = s[i]
  BY <1>2, <1>3
<1>5. \A i \in 1..Len(t) : i + Len(s) \in DOMAIN st /\ st[i + Len(s)] = t[i]
  BY <1>2, <1>3
<1>6. ASSUME NEW c \in E
      PROVE  \E i \in DOMAIN st : st[i] = c
  BY <1>2, <1>4, <1>5 DEF Enumerates, E
<1>7. ASSUME NEW i \in DOMAIN st, NEW j \in DOMAIN st, st[i].rule = st[j].rule
      PROVE  i = j
  <2>1. i \in 1..Len(s) + Len(t) /\ j \in 1..Len(s) + Len(t)
    BY <1>3
  <2>2. CASE i <= Len(s) /\ j <= Len(s)
    BY <1>2, <1>3, <1>7, <2>1, <2>2 DEF Enumerates
  <2>3. CASE i > Len(s) /\ j > Len(s)
    <3>1. /\ i - Len(s) \in 1..Len(t) /\ j - Len(s) \in 1..Len(t)
          /\ st[i] = t[i - Len(s)] /\ st[j] = t[j - Len(s)]
      BY <1>2, <1>3, <2>1, <2>3
    <3>2. i - Len(s) = j - Len(s)
      BY <1>2, <1>7, <3>1 DEF Enumerates
    <3>. QED
      BY <1>2, <2>1, <3>2
  <2>4. CASE i <= Len(s) /\ j > Len(s)
    <3>1. st[i] \in C /\ st[j] \in D
      BY <1>2, <1>3, <2>1, <2>4
    <3>. QED
      BY <1>7, <3>1
  <2>5. CASE i > Len(s) /\ j <= Len(s)
    <3>1. st[i] \in D /\ st[j] \in C
      BY <1>2, <1>3, <2>1, <2>5
    <3>. QED
      BY <1>7, <3>1
  <2>. QED
    BY <1>2, <2>1, <2>2, <2>3, <2>4, <2>5
<1>8. Enumerates(st, E)
  BY <1>3, <1>6, <1>7 DEF Enumerates
<1>. QED
  BY <1>8 DEF st, E

\* The charges of a message request, or of the part of a batch, of one priority.
PartCharges(priority, identity, n) ==
    IF n = 0 THEN {}
    ELSE IF priority = "express"
    THEN {Charge("messages:express", identity, n), Charge("global:messages:express", "global", n)}
    ELSE {Charge("messages:normal", identity, n), Charge("global:messages:normal", "global", n)}

SystemCharges(n) == IF n = 0 THEN {} ELSE {Charge("system:messages", "system", n)}

RequestCharge == Charge("system:requests", "system", 1)

SingleCharges(req) ==
    PartCharges(IF req.express > 0 THEN "express" ELSE "normal", Identity(req), 1)
    \cup SystemCharges(1) \cup {RequestCharge}

BatchCharges(req) ==
    {Charge("messages:batch_requests", Identity(req), 1),
     Charge("global:messages:batch_requests", "global", 1)}
    \cup PartCharges("normal", Identity(req), req.normal)
    \cup PartCharges("express", Identity(req), req.express)
    \cup SystemCharges(req.normal + req.express) \cup {RequestCharge}

\* The pieces of which the limits of message requests are made.
LEMMA PiecesEnumerated ==
    /\ Enumerates(SystemRequestLimits, {RequestCharge})
    /\ \A n \in Nat : Enumerates(IF n = 0 THEN <<>> ELSE SystemMessages(n), SystemCharges(n))
    /\ \A identity : \A p \in {"normal", "express"}, n \in Nat :
          Enumerates(Part(p, identity, n), PartCharges(p, identity, n))
BY EnumerateFew DEF SystemRequestLimits, RequestCharge, SystemMessages, SystemCharges,
                    Part, PartCharges, MessageLimits, Charge

\* The charges of a single message.
LEMMA SingleEnumerated ==
    ASSUME NEW req
    PROVE  Enumerates(SingleLimits(req), SingleCharges(req))
<1>. DEFINE p == IF req.express > 0 THEN "express" ELSE "normal"
            s == MessageLimits(p, Identity(req), 1)
            C == PartCharges(p, Identity(req), 1)
<1>1. Enumerates(s, C)
  BY EnumerateFew DEF PartCharges, MessageLimits, Charge
<1>2. Enumerates(SystemMessages(1), SystemCharges(1))
  BY EnumerateFew DEF SystemMessages, SystemCharges
<1>3. /\ \A c \in C, d \in SystemCharges(1) : c.rule # d.rule
      /\ \A c \in C \cup SystemCharges(1), d \in {RequestCharge} : c.rule # d.rule
  BY DEF PartCharges, SystemCharges, RequestCharge, Charge
<1>. HIDE DEF s, C
<1>4. Enumerates(s \o SystemMessages(1), C \cup SystemCharges(1))
  BY <1>1, <1>2, <1>3, EnumerateBoth
<1>5. Enumerates(s \o SystemMessages(1) \o SystemRequestLimits,
                 C \cup SystemCharges(1) \cup {RequestCharge})
  BY <1>3, <1>4, EnumerateBoth, PiecesEnumerated
<1>. QED
  BY <1>5 DEF SingleLimits, SingleCharges, s, C

\* The charges of a batch: at most eight, under different rules.
LEMMA BatchEnumerated ==
    ASSUME NEW req, req.normal \in Nat, req.express \in Nat
    PROVE  Enumerates(BatchLimits(req), BatchCharges(req))
<1>. DEFINE i == Identity(req)
            s1 == <<Charge("messages:batch_requests", i, 1),
                    Charge("global:messages:batch_requests", "global", 1)>>
            C1 == {Charge("messages:batch_requests", i, 1),
                   Charge("global:messages:batch_requests", "global", 1)}
            s2 == Part("normal", i, req.normal)
            C2 == PartCharges("normal", i, req.normal)
            s3 == Part("express", i, req.express)
            C3 == PartCharges("express", i, req.express)
            n == req.normal + req.express
            s4 == IF n = 0 THEN <<>> ELSE SystemMessages(n)
            C4 == SystemCharges(n)
<1>1. Enumerates(s1, C1)
  BY EnumerateFew DEF Charge
<1>2. Enumerates(s2, C2) /\ Enumerates(s3, C3) /\ Enumerates(s4, C4)
  <2>1. n \in Nat
    OBVIOUS
  <2>. HIDE DEF n
  <2>2. Enumerates(s4, C4)
    BY <2>1, PiecesEnumerated
  <2>3. Enumerates(s2, C2) /\ Enumerates(s3, C3)
    BY PiecesEnumerated
  <2>. QED
    BY <2>2, <2>3
<1>3. /\ \A c \in C1, d \in C2 : c.rule # d.rule
      /\ \A c \in C1, d \in C3 : c.rule # d.rule
      /\ \A c \in C1, d \in C4 : c.rule # d.rule
      /\ \A c \in C1 : c.rule # "system:requests"
  BY DEF PartCharges, SystemCharges, Charge
<1>4. /\ \A c \in C2, d \in C3 : c.rule # d.rule
      /\ \A c \in C2, d \in C4 : c.rule # d.rule
      /\ \A c \in C2 : c.rule # "system:requests"
  BY DEF PartCharges, SystemCharges, Charge
<1>5. /\ \A c \in C3, d \in C4 : c.rule # d.rule
      /\ \A c \in C3 \cup C4 : c.rule # "system:requests"
  BY DEF PartCharges, SystemCharges, Charge
<1>6. RequestCharge.rule = "system:requests"
  BY DEF RequestCharge, Charge
<1>. HIDE DEF s1, C1, s2, C2, s3, C3, n, s4, C4
<1>7. Enumerates(s1 \o s2, C1 \cup C2)
  BY <1>1, <1>2, <1>3, EnumerateBoth
<1>8. Enumerates(s1 \o s2 \o s3, C1 \cup C2 \cup C3)
  <2>1. \A c \in C1 \cup C2, d \in C3 : c.rule # d.rule
    BY <1>3, <1>4
  <2>. QED
    BY <1>2, <1>7, <2>1, EnumerateBoth
<1>9. Enumerates(s1 \o s2 \o s3 \o s4, C1 \cup C2 \cup C3 \cup C4)
  <2>1. \A c \in C1 \cup C2 \cup C3, d \in C4 : c.rule # d.rule
    BY <1>3, <1>4, <1>5
  <2>. QED
    BY <1>2, <1>8, <2>1, EnumerateBoth
<1>10. Enumerates(s1 \o s2 \o s3 \o s4 \o SystemRequestLimits,
                  C1 \cup C2 \cup C3 \cup C4 \cup {RequestCharge})
  <2>1. \A c \in C1 \cup C2 \cup C3 \cup C4, d \in {RequestCharge} : c.rule # d.rule
    BY <1>3, <1>4, <1>5, <1>6
  <2>. QED
    BY <1>9, <2>1, EnumerateBoth, PiecesEnumerated
<1>. QED
  BY <1>10 DEF BatchLimits, BatchCharges, s1, C1, s2, C2, s3, C3, n, s4, C4

\* The charges of the other endpoints.
LEMMA EndpointEnumerated ==
    ASSUME NEW rule, NEW global, NEW identity, rule # global,
           rule # "system:requests", global # "system:requests"
    PROVE  Enumerates(EndpointLimits(rule, global, identity),
                      {Charge(rule, identity, 1), Charge(global, "global", 1), RequestCharge})
<1>. DEFINE s == <<Charge(rule, identity, 1), Charge(global, "global", 1)>>
            C == {Charge(rule, identity, 1), Charge(global, "global", 1)}
<1>1. Enumerates(s, C)
  BY EnumerateFew DEF Charge
<1>2. \A c \in C, d \in {RequestCharge} : c.rule # d.rule
  BY DEF Charge, RequestCharge
<1>. HIDE DEF s, C
<1>3. Enumerates(s \o SystemRequestLimits, C \cup {RequestCharge})
  BY <1>1, <1>2, EnumerateBoth, PiecesEnumerated
<1>4. C \cup {RequestCharge} = {Charge(rule, identity, 1), Charge(global, "global", 1), RequestCharge}
  BY DEF C
<1>. QED
  BY <1>3, <1>4 DEF EndpointLimits, s

\* Whatever a request asks for, its charges cost something and are due to different buckets.
LEMMA LimitsEnumerated ==
    ASSUME NEW req, req.endpoint \in Endpoints, req.normal \in Nat, req.express \in Nat
    PROVE  \E C : /\ Enumerates(ResolveLimits(req), C)
                  /\ \A c \in C : c.cost \in Nat \ {0}
                  /\ req.endpoint = "single" => C = SingleCharges(req)
                  /\ req.endpoint = "batch" => C = BatchCharges(req)
<1>1. CASE req.endpoint = "health"
  BY <1>1, EnumerateFew DEF ResolveLimits
<1>2. CASE req.endpoint = "single"
  <2>1. \A c \in SingleCharges(req) : c.cost \in Nat \ {0}
    BY DEF SingleCharges, PartCharges, SystemCharges, RequestCharge, Charge
  <2>. QED
    BY <1>2, <2>1, SingleEnumerated DEF ResolveLimits
<1>3. CASE req.endpoint = "batch"
  <2>1. \A c \in BatchCharges(req) : c.cost \in Nat \ {0}
    BY DEF BatchCharges, PartCharges, SystemCharges, RequestCharge, Charge
  <2>. QED
    BY <1>3, <2>1, BatchEnumerated DEF ResolveLimits
<1>4. CASE req.endpoint = "unknown"
  BY <1>4, PiecesEnumerated DEF ResolveLimits, RequestCharge, Charge
<1>. DEFINE ends == {"reports", "status", "user creates", "user reads", "user writes", "pricing"}
<1>5. CASE req.endpoint \in ends
  <2>1. \E rule, global, identity :
            /\ ResolveLimits(req) = EndpointLimits(rule, global, identity)
            /\ rule # global /\ rule # "system:requests" /\ global # "system:requests"
    BY <1>5 DEF ResolveLimits
  <2>2. PICK rule, global, identity :
            /\ ResolveLimits(req) = EndpointLimits(rule, global, identity)
            /\ rule # global /\ rule # "system:requests" /\ global # "system:requests"
    BY <2>1
  <2>. DEFINE C == {Charge(rule, identity, 1), Charge(global, "global", 1), RequestCharge}
  <2>3. \A c \in C : c.cost = 1
    BY DEF Charge, RequestCharge
  <2>4. Enumerates(ResolveLimits(req), C)
    BY <2>2, EndpointEnumerated
  <2>. HIDE DEF C
  <2>5. \A c \in C : c.cost \in Nat \ {0}
    BY <2>3
  <2>6. req.endpoint # "single" /\ req.endpoint # "batch"
    BY <1>5
  <2>. QED
    BY <2>4, <2>5, <2>6
<1>. QED
  BY <1>1, <1>2, <1>3, <1>4, <1>5 DEF Endpoints

\* The tokens that a list of charges takes from a bucket: the cost of its charge, if it has one.
LEMMA PaidOf ==
    ASSUME NEW s, NEW C, Enumerates(s, C), NEW b
    PROVE  /\ \A c \in C : BucketOf(c) = b /\ c.cost \in Nat =>
                IsFiniteSet(TokensFrom(s, b)) /\ Paid(s, b) = c.cost
           /\ (\A c \in C : BucketOf(c) # b) => TokensFrom(s, b) = {} /\ Paid(s, b) = 0
<1>1. ASSUME NEW c \in C, BucketOf(c) = b, c.cost \in Nat
      PROVE  IsFiniteSet(TokensFrom(s, b)) /\ Paid(s, b) = c.cost
  <2>1. PICK i \in DOMAIN s : s[i] = c
    BY DEF Enumerates
  <2>. DEFINE n == s[i].cost
              I == {i}
              N == 1..n
  <2>2. TokensFrom(s, b) = I \X N
    <3>1. \A k \in DOMAIN s : BucketOf(s[k]) = b => s[k].rule = c.rule
      BY <1>1 DEF BucketOf
    <3>2. {k \in DOMAIN s : BucketOf(s[k]) = b} = {i}
      BY <1>1, <2>1, <3>1 DEF Enumerates
    <3>. QED
      BY <3>2 DEF TokensFrom
  <2>3. n \in Nat
    BY <1>1, <2>1
  <2>4. n = c.cost
    BY <2>1
  <2>. HIDE DEF n
  <2>5. IsFiniteSet(I) /\ Cardinality(I) = 1 /\ IsFiniteSet(N) /\ Cardinality(N) = n
    <3>1. \A m \in Nat : IsFiniteSet(1..m) /\ Cardinality(1..m) = m
      <4>. TAKE m \in Nat
      <4>. QED
        BY FS_Interval
    <3>. QED
      BY <2>3, <3>1, FS_Singleton
  <2>. HIDE DEF I, N
  <2>6. IsFiniteSet(I \X N) /\ Cardinality(I \X N) = n
    BY <2>3, <2>5, FS_Product
  <2>. QED
    BY <2>2, <2>4, <2>6 DEF Paid
<1>2. ASSUME \A c \in C : BucketOf(c) # b
      PROVE  TokensFrom(s, b) = {} /\ Paid(s, b) = 0
  <2>1. DOMAIN s = 1..Len(s) /\ \A i \in DOMAIN s : s[i] \in C
    BY LenProperties, ElementOfSeq DEF Enumerates
  <2>2. TokensFrom(s, b) = {}
    BY <1>2, <2>1 DEF TokensFrom
  <2>. QED
    BY <2>2, FS_EmptySet DEF Paid
<1>. QED
  BY <1>1, <1>2

-------------------------------------------------------------------------------
\* The charges of a request: finitely many, each of something, each due to another bucket.
LEMMA ChargesOf ==
    ASSUME NEW q \in Requests
    PROVE  /\ IsFiniteSet(DOMAIN Charges[q]) /\ DOMAIN Charges[q] \subseteq Nat
           /\ \A i \in DOMAIN Charges[q] : Charges[q][i].cost \in Nat \ {0}
           /\ \A i, j \in DOMAIN Charges[q] : BucketOf(Charges[q][i]) = BucketOf(Charges[q][j]) => i = j
<1>1. PICK C : Enumerates(Charges[q], C) /\ \A c \in C : c.cost \in Nat \ {0}
  BY LimitsEnumerated, LimiterAssumption DEF Charges
<1>2. /\ DOMAIN Charges[q] = 1..Len(Charges[q]) /\ Len(Charges[q]) \in Nat
      /\ \A i \in DOMAIN Charges[q] : Charges[q][i] \in C
  BY <1>1, LenProperties, ElementOfSeq DEF Enumerates
<1>3. \A i, j \in DOMAIN Charges[q] : BucketOf(Charges[q][i]) = BucketOf(Charges[q][j]) => i = j
  <2>1. \A c, d : BucketOf(c) = BucketOf(d) => c.rule = d.rule
    BY DEF BucketOf
  <2>. QED
    BY <1>1, <2>1 DEF Enumerates
<1>4. IsFiniteSet(DOMAIN Charges[q]) /\ DOMAIN Charges[q] \subseteq Nat
  BY <1>2, FS_Interval
<1>. QED
  BY <1>1, <1>2, <1>3, <1>4

\* The one charge of q that b has to pay.
LEMMA ChargeToOf ==
    ASSUME NEW q \in Requests, NEW b, IsCharged(q, b)
    PROVE  \E i \in DOMAIN Charges[q] :
              /\ ChargeTo(q, b) = Charges[q][i] /\ BucketOf(Charges[q][i]) = b
              /\ \A j \in DOMAIN Charges[q] : BucketOf(Charges[q][j]) = b => j = i
<1>. DEFINE i == CHOOSE k \in DOMAIN Charges[q] : BucketOf(Charges[q][k]) = b
<1>1. i \in DOMAIN Charges[q] /\ BucketOf(Charges[q][i]) = b
  BY DEF IsCharged
<1>2. ChargeTo(q, b) = Charges[q][i]
  BY DEF ChargeTo
<1>. HIDE DEF i
<1>. QED
  BY <1>1, <1>2, ChargesOf

\* What q asks of b.
CostTo(q, b) == IF IsCharged(q, b) THEN ChargeTo(q, b).cost ELSE 0

\* A cost is a number.
LEMMA CostToType ==
    ASSUME NEW q \in Requests, NEW b
    PROVE  CostTo(q, b) \in Nat
BY ChargeToOf, ChargesOf DEF CostTo

\* The tokens that q takes from b are as many as it asks.
LEMMA TokensCounted ==
    ASSUME NEW q \in Requests, NEW b
    PROVE  /\ IsFiniteSet(TokensFrom(Charges[q], b))
           /\ Cardinality(TokensFrom(Charges[q], b)) = CostTo(q, b)
<1>1. PICK C : Enumerates(Charges[q], C) /\ \A c \in C : c.cost \in Nat \ {0}
  BY LimitsEnumerated, LimiterAssumption DEF Charges
<1>2. \A c \in C : \E i \in DOMAIN Charges[q] : Charges[q][i] = c
  BY <1>1 DEF Enumerates
<1>3. CASE IsCharged(q, b)
  <2>1. PICK i \in DOMAIN Charges[q] : ChargeTo(q, b) = Charges[q][i] /\ BucketOf(Charges[q][i]) = b
    BY <1>3, ChargeToOf
  <2>2. Charges[q][i] \in C
    BY <1>1, LenProperties, ElementOfSeq DEF Enumerates
  <2>. QED
    BY <1>1, <1>3, <2>1, <2>2, PaidOf DEF CostTo, Paid
<1>4. CASE ~IsCharged(q, b)
  <2>1. \A c \in C : BucketOf(c) # b
    BY <1>2, <1>4 DEF IsCharged
  <2>2. TokensFrom(Charges[q], b) = {}
    BY <1>1, <2>1, PaidOf
  <2>. QED
    BY <1>4, <2>2, FS_EmptySet DEF CostTo
<1>. QED
  BY <1>3, <1>4

\* What requests have paid is finite, and the more the longer the period.
LEMMA PaidFinite ==
    ASSUME NEW b, NEW f, NEW t
    PROVE  IsFiniteSet(TokensPaid(b, f, t))
<1>. DEFINE g == [q \in Payers(f, t) |-> {q} \X TokensFrom(Charges[q], b)]
            G == {g[q] : q \in Payers(f, t)}
<1>1. IsFiniteSet(Payers(f, t)) /\ Payers(f, t) \subseteq Requests
  BY LimiterAssumption, FS_Subset DEF Payers
<1>2. \A q \in Payers(f, t) : IsFiniteSet(g[q])
  <2>. SUFFICES ASSUME NEW q \in Payers(f, t) PROVE IsFiniteSet({q} \X TokensFrom(Charges[q], b))
    OBVIOUS
  <2>. DEFINE Q == {q}
              T == TokensFrom(Charges[q], b)
  <2>1. IsFiniteSet(Q) /\ IsFiniteSet(T)
    BY <1>1, FS_Singleton, TokensCounted
  <2>. HIDE DEF Q, T
  <2>2. IsFiniteSet(Q \X T)
    BY <2>1, FS_Product
  <2>. QED
    BY <2>2 DEF Q, T
<1>3. TokensPaid(b, f, t) = UNION G
  BY DEF TokensPaid
<1>. HIDE DEF g
<1>4. (\A T \in G : IsFiniteSet(T)) /\ IsFiniteSet(G)
  <2>. DEFINE h == [q \in Payers(f, t) |-> g[q]]
  <2>1. h \in Surjection(Payers(f, t), G)
    BY DEF Surjection
  <2>. HIDE DEF h, G
  <2>2. IsFiniteSet(G)
    BY <1>1, <2>1, FS_Surjection
  <2>. USE DEF G
  <2>. QED
    BY <1>2, <2>2
<1>. HIDE DEF G
<1>. QED
  BY <1>3, <1>4, FS_UNION

\* What was paid in a period is a number.
LEMMA PaidType ==
    ASSUME NEW b, NEW f, NEW t
    PROVE  PaidBetween(b, f, t) \in Nat
<1>1. Cardinality(TokensPaid(b, f, t)) \in Nat
  BY PaidFinite, FS_CardinalityType
<1>. QED
  BY <1>1, LimiterAssumption DEF PaidBetween

\* In a longer period not less was paid.
LEMMA PaidMonotonic ==
    ASSUME NEW b, NEW f \in Int, NEW t \in Int, NEW f1 \in Int, NEW t1 \in Int, f1 <= f, t <= t1,
           \A q \in Requests : stamp[q] \in Int
    PROVE  PaidBetween(b, f, t) <= PaidBetween(b, f1, t1)
<1>1. Payers(f, t) \subseteq Payers(f1, t1)
  BY DEF Payers
<1>2. TokensPaid(b, f, t) \subseteq TokensPaid(b, f1, t1)
  BY <1>1 DEF TokensPaid
<1>. DEFINE m == Cardinality(TokensPaid(b, f, t))
            n == Cardinality(TokensPaid(b, f1, t1))
<1>3. m \in Nat /\ n \in Nat /\ m <= n
  BY <1>2, PaidFinite, FS_Subset, FS_CardinalityType
<1>4. PaidBetween(b, f, t) = Window * m /\ PaidBetween(b, f1, t1) = Window * n
  BY DEF PaidBetween
<1>. HIDE DEF m, n
<1>. QED
  BY <1>3, <1>4, LimiterAssumption

\* A request that is charged adds its price to the periods its stamp is in, and to no other.
LEMMA PaidStep ==
    ASSUME NEW q \in Requests, NEW b, NEW f, NEW t, charged \in [Requests -> BOOLEAN], ~charged[q],
           NEW pays \in BOOLEAN, charged' = [charged EXCEPT ![q] = pays], UNCHANGED stamp
    PROVE  PaidBetween(b, f, t)' =
              PaidBetween(b, f, t) + IF pays /\ stamp[q] \in f..t THEN CostTo(q, b) * Window ELSE 0
<1>. DEFINE A == TokensPaid(b, f, t)
            Q == {q}
            T == TokensFrom(Charges[q], b)
            B == Q \X T
<1>1. PaidBetween(b, f, t)' = Window * Cardinality(TokensPaid(b, f, t)')
  BY DEF PaidBetween
<1>2. CASE ~(pays /\ stamp[q] \in f..t)
  <2>1. Payers(f, t)' = Payers(f, t)
    BY <1>2 DEF Payers
  <2>2. TokensPaid(b, f, t)' = TokensPaid(b, f, t)
    BY <2>1 DEF TokensPaid
  <2>. QED
    BY <1>1, <1>2, <2>2, PaidType DEF PaidBetween
<1>3. CASE pays /\ stamp[q] \in f..t
  <2>1. Payers(f, t)' = Payers(f, t) \cup {q} /\ q \notin Payers(f, t)
    BY <1>3 DEF Payers
  <2>2. TokensPaid(b, f, t)' = A \cup B /\ A \cap B = {}
    BY <2>1 DEF TokensPaid
  <2>3. IsFiniteSet(A)
    BY PaidFinite
  <2>4. IsFiniteSet(Q) /\ Cardinality(Q) = 1 /\ IsFiniteSet(T) /\ Cardinality(T) = CostTo(q, b)
    BY FS_Singleton, TokensCounted
  <2>5. CostTo(q, b) \in Nat /\ Window \in Nat
    BY CostToType, LimiterAssumption
  <2>6. PaidBetween(b, f, t) = Window * Cardinality(A)
    BY DEF PaidBetween
  <2>. HIDE DEF A, Q, T
  <2>7. IsFiniteSet(B) /\ Cardinality(B) = CostTo(q, b)
    BY <2>4, <2>5, FS_Product
  <2>. HIDE DEF B
  <2>8. IsFiniteSet(A \cup B)
    BY <2>3, <2>7, FS_Union
  <2>9. /\ Cardinality(A \cup B) = Cardinality(A) + Cardinality(B)
        /\ Cardinality(A) \in Nat
    BY <2>2, <2>8, CountParts
  <2>10. \A w, m, n \in Nat : w * (m + n) = w * m + n * w
    OBVIOUS
  <2>. QED
    BY <1>1, <1>3, <2>2, <2>5, <2>6, <2>7, <2>9, <2>10
<1>. QED
  BY <1>2, <1>3

-------------------------------------------------------------------------------
\* The invariant. The moment up to which a bucket has regained tokens, counting those seconds twice
\* that late requests have set it back: it never goes back.
RegainedTo(b) == bucket[b].updated + setBack[b]

\* A request is under way for MaxDelay at most, and is charged once it has arrived.
SentInTime ==
    \A q \in Requests :
        /\ phase[q] = "sent" => stamp[q] <= now /\ now <= stamp[q] + MaxDelay
        /\ phase[q] \in {"new", "sent"} => ~charged[q]

\* A key lives for Ttl from the last request on. Who paid is in its bucket, and not of the future.
BucketsOK ==
    \A b \in Buckets :
        /\ bucket[b].expires \in Nat /\ bucket[b].updated <= now
        /\ bucket[b].expires = 0 \/ bucket[b].expires >= bucket[b].updated + Ttl
        /\ \A q \in Requests : charged[q] /\ IsCharged(q, b) =>
              bucket[b].expires > 0 /\ (FullBeforeExpiry(b) => stamp[q] <= RegainedTo(b))

\* What was paid since a moment and what is left came from a full bucket and what it regained since.
SpentOK(b) ==
    \A f \in 0..MaxTime :
        PaidBetween(b, f, MaxTime) + bucket[b].tokens
            <= Capacity(b) + Greater(0, RegainedTo(b) - f) * Limit[b.rule]

KeptOK(b) ==
    \A f, t \in 0..MaxTime :
        f <= t => PaidBetween(b, f, t) <= Budget(b, f, t) + setBack[b] * Limit[b.rule]

\* Nothing was lost since some moment when the bucket was full: what is missing has been paid.
NothingLost(b) ==
    bucket[b].expires > 0 =>
    \E f, t \in 0..now :
        /\ f <= bucket[b].updated /\ bucket[b].updated <= t
        /\ PaidBetween(b, f, t) + bucket[b].tokens >= Budget(b, f, t) - setBack[b] * Limit[b.rule]

RateInv ==
    /\ TypeOK /\ SentInTime /\ BucketsOK
    /\ \A b \in Buckets : NothingLost(b) /\ (FullBeforeExpiry(b) => SpentOK(b) /\ KeptOK(b))

-------------------------------------------------------------------------------
\* The arithmetic of the buckets: what is regained grows with the seconds, and adds up.
LEMMA Regained ==
    ASSUME NEW l \in Nat
    PROVE  /\ \A x \in Int : x * l \in Int
           /\ \A x, y \in Int : (x + y) * l = x * l + y * l
           /\ \A x, y \in Int : (x - y) * l = x * l - y * l
           /\ \A x, y \in Int : x <= y => x * l <= y * l
           /\ 0 * l = 0
<1>1. \A x \in Int : x * l \in Int
  OBVIOUS
<1>2. \A x, y \in Int : (x + y) * l = x * l + y * l
  OBVIOUS
<1>3. \A x, y \in Int : (x - y) * l = x * l - y * l
  OBVIOUS
<1>4. \A x, y \in Int : x <= y => x * l <= y * l
  OBVIOUS
<1>. QED
  BY <1>1, <1>2, <1>3, <1>4

\* The constants of a bucket.
LEMMA RuleType ==
    ASSUME NEW b \in Buckets
    PROVE  /\ Capacity(b) \in Nat \ {0} /\ Limit[b.rule] \in Nat \ {0} /\ Burst[b.rule] \in Nat \ {0}
           /\ Window \in Nat \ {0} /\ Ttl \in Nat \ {0}
<1>1. Limit[b.rule] \in Nat \ {0} /\ Burst[b.rule] \in Nat \ {0} /\ Window \in Nat \ {0}
  BY LimiterAssumption DEF RuleOK
<1>2. \A x, y \in Nat \ {0} : x * y \in Nat \ {0}
  OBVIOUS
<1>. QED
  BY <1>1, <1>2 DEF Capacity, Ttl

\* The bucket of a charge is one of the buckets, and its request is charged to it.
LEMMA ChargedBucket ==
    ASSUME NEW q \in Requests, NEW i \in DOMAIN Charges[q]
    PROVE  BucketOf(Charges[q][i]) \in Buckets /\ IsCharged(q, BucketOf(Charges[q][i]))
BY DEF Buckets, IsCharged

\* What is in a bucket as q finds it: all it can hold, or what it held and has regained.
LEMMA LevelIs ==
    ASSUME TypeOK, NEW q \in Requests, NEW b \in Buckets
    PROVE  LET e == Greater(0, stamp[q] - bucket[b].updated)
               l == Level(b, stamp[q])
           IN  /\ e \in Nat /\ l \in 0..Capacity(b)
               /\ \/ l = Capacity(b)
                  \/ now < bucket[b].expires /\ l = bucket[b].tokens + e * Limit[b.rule]
               /\ now < bucket[b].expires => l <= bucket[b].tokens + e * Limit[b.rule]
<1>. DEFINE e == Greater(0, stamp[q] - bucket[b].updated)
            x == e * Limit[b.rule]
            l == Level(b, stamp[q])
<1>1. bucket[b].tokens \in 0..Capacity(b) /\ bucket[b].updated \in Nat /\ stamp[q] \in Nat
  BY LimiterAssumption DEF TypeOK
<1>2. e \in Nat
  BY <1>1 DEF Greater
<1>3. Limit[b.rule] \in Nat /\ Capacity(b) \in Nat
  BY RuleType
<1>. HIDE DEF e
<1>4. x \in Nat
  BY <1>2, <1>3
<1>5. l = IF now < bucket[b].expires THEN Lesser(Capacity(b), bucket[b].tokens + x) ELSE Capacity(b)
  BY DEF Level, Refill, e
<1>. HIDE DEF x, l
<1>6. /\ l \in 0..Capacity(b)
      /\ l = Capacity(b) \/ (now < bucket[b].expires /\ l = bucket[b].tokens + x)
      /\ now < bucket[b].expires => l <= bucket[b].tokens + x
  BY <1>1, <1>3, <1>4, <1>5 DEF Lesser
<1>. QED
  BY <1>2, <1>6 DEF x, l, e

\* A key that has expired would be full: nothing is gained by losing it, and nothing set back.
LEMMA ExpiredIsFull ==
    ASSUME TypeOK, SentInTime, BucketsOK, NEW q \in Requests, phase[q] = "sent",
           NEW b \in Buckets, FullBeforeExpiry(b), bucket[b].expires > 0, ~(now < bucket[b].expires)
    PROVE  /\ stamp[q] >= bucket[b].updated
           /\ Capacity(b) <= Greater(0, stamp[q] - bucket[b].updated) * Limit[b.rule]
<1>. DEFINE d == Ttl - MaxDelay
            e == stamp[q] - bucket[b].updated
            l == Limit[b.rule]
<1>1. /\ stamp[q] \in Nat /\ now \in Nat /\ bucket[b].updated \in Nat /\ MaxDelay \in Nat
      /\ l \in Nat \ {0} /\ Ttl \in Nat /\ Capacity(b) \in Nat \ {0}
  BY RuleType, LimiterAssumption DEF TypeOK
<1>2. /\ now <= stamp[q] + MaxDelay
      /\ bucket[b].expires >= bucket[b].updated + Ttl /\ bucket[b].expires \in Nat
  BY DEF SentInTime, BucketsOK
<1>3. e >= d /\ e \in Int /\ d \in Int
  BY <1>1, <1>2
<1>4. Capacity(b) <= l * d
  BY DEF FullBeforeExpiry
<1>. HIDE DEF d, e, l
<1>5. d > 0
  <2>. SUFFICES ASSUME d <= 0 PROVE FALSE
    BY <1>3
  <2>1. l * d <= 0
    BY <1>1, <1>3
  <2>. QED
    BY <1>1, <1>3, <1>4, <2>1
<1>6. l * d <= e * l /\ e > 0
  BY <1>1, <1>3, <1>5
<1>7. Capacity(b) <= e * l
  <2>. DEFINE x == l * d
              y == e * l
  <2>1. x \in Int /\ y \in Int
    BY <1>1, <1>3
  <2>. HIDE DEF x, y
  <2>. QED
    BY <1>1, <1>4, <1>6, <2>1 DEF x, y
<1>8. Greater(0, stamp[q] - bucket[b].updated) = e
  BY <1>1, <1>6 DEF Greater, e
<1>. QED
  BY <1>1, <1>6, <1>7, <1>8 DEF e, l

\* What q takes from b.
Payment(q, b) == IF Denied(q) = {} THEN CostTo(q, b) * Window ELSE 0

\* What q takes from b, if anything, b has.
LEMMA TakenIsThere ==
    ASSUME TypeOK, NEW q \in Requests, NEW b \in Buckets
    PROVE  /\ Payment(q, b) \in Nat
           /\ IsCharged(q, b) => /\ Taken(q, ChargeTo(q, b)) = Payment(q, b)
                                 /\ Payment(q, b) <= Level(b, stamp[q])
           /\ ~IsCharged(q, b) => Payment(q, b) = 0
<1>1. CostTo(q, b) \in Nat /\ Window \in Nat
  BY CostToType, LimiterAssumption
<1>2. CostTo(q, b) * Window \in Nat
  BY <1>1
<1>3. CASE IsCharged(q, b)
  <2>1. PICK i \in DOMAIN Charges[q] : ChargeTo(q, b) = Charges[q][i] /\ BucketOf(Charges[q][i]) = b
    BY <1>3, ChargeToOf
  <2>2. Price(ChargeTo(q, b)) = CostTo(q, b) * Window
    BY <1>3 DEF Price, CostTo
  <2>3. Level(b, stamp[q]) \in 0..Capacity(b) /\ Capacity(b) \in Nat
    BY LevelIs, RuleType
  <2>4. Denied(q) = {} => ~(Level(b, stamp[q]) < CostTo(q, b) * Window)
    BY <2>1, <2>2 DEF Denied, Lacks
  <2>. HIDE DEF Price
  <2>. QED
    BY <1>2, <1>3, <2>2, <2>3, <2>4 DEF Payment, Taken
<1>4. CASE ~IsCharged(q, b)
  BY <1>1, <1>4 DEF Payment, CostTo
<1>. QED
  BY <1>2, <1>3, <1>4 DEF Payment

\* What the script does to a bucket.
LEMMA ScriptOnBucket ==
    ASSUME TypeOK, NEW q \in Requests, RunScript(q), NEW b \in Buckets
    PROVE  /\ IsCharged(q, b) => /\ bucket'[b].tokens = Level(b, stamp[q]) - Payment(q, b)
                                 /\ bucket'[b].updated = stamp[q] /\ bucket'[b].expires = now + Ttl
           /\ ~IsCharged(q, b) => bucket'[b] = bucket[b] /\ setBack'[b] = setBack[b]
           /\ setBack'[b] = setBack[b] + IF now < bucket[b].expires /\ IsCharged(q, b)
                                         THEN Greater(0, bucket[b].updated - stamp[q]) ELSE 0
<1>1. setBack[b] \in Nat
  BY DEF TypeOK
<1>. QED
  BY <1>1, TakenIsThere DEF RunScript, StepsBack

\* A request that arrives has paid nothing before.
LEMMA ScriptPays ==
    ASSUME TypeOK, SentInTime, NEW q \in Requests, phase[q] = "sent", RunScript(q), UNCHANGED stamp,
           NEW b \in Buckets, NEW f, NEW t
    PROVE  /\ PaidBetween(b, f, t) \in Nat /\ PaidBetween(b, f, t)' \in Nat
           /\ PaidBetween(b, f, t)' = PaidBetween(b, f, t) + IF stamp[q] \in f..t THEN Payment(q, b) ELSE 0
<1>. DEFINE pays == Denied(q) = {}
            P == PaidBetween(b, f, t)
            cost == CostTo(q, b) * Window
<1>1. charged \in [Requests -> BOOLEAN] /\ ~charged[q] /\ charged' = [charged EXCEPT ![q] = pays]
  BY DEF TypeOK, SentInTime, RunScript
<1>2. pays \in BOOLEAN /\ Payment(q, b) = IF pays THEN cost ELSE 0
  BY DEF Payment
<1>3. Payment(q, b) \in Nat /\ P \in Nat
  BY TakenIsThere, PaidType
<1>. HIDE DEF pays
<1>4. P' = P + IF pays /\ stamp[q] \in f..t THEN cost ELSE 0
  BY <1>1, <1>2, PaidStep
<1>. HIDE DEF P, cost
<1>5. P \in Nat /\ P' \in Nat /\ P' = P + IF stamp[q] \in f..t THEN Payment(q, b) ELSE 0
  BY <1>2, <1>3, <1>4
<1>. QED
  BY <1>5 DEF P

\* Nothing was paid by a bucket that is not written yet, or in a time that has not come.
LEMMA NothingPaid ==
    ASSUME TypeOK, BucketsOK, NEW b \in Buckets, FullBeforeExpiry(b), NEW f \in Nat, NEW t,
           bucket[b].expires = 0 \/ RegainedTo(b) < f
    PROVE  PaidBetween(b, f, t) = 0
<1>1. stamp \in [Requests -> Nat] /\ bucket[b].updated \in Nat /\ setBack[b] \in Nat /\ Window \in Nat
  BY LimiterAssumption DEF TypeOK
<1>2. ASSUME NEW q \in Payers(f, t)
      PROVE  TokensFrom(Charges[q], b) = {}
  <2>1. q \in Requests /\ charged[q] /\ stamp[q] \in f..t
    BY DEF Payers
  <2>2. ~IsCharged(q, b)
    BY <1>1, <2>1 DEF BucketsOK, RegainedTo
  <2>. QED
    BY <2>2 DEF TokensFrom, IsCharged
<1>3. TokensPaid(b, f, t) = {}
  BY <1>2 DEF TokensPaid
<1>. QED
  BY <1>1, <1>3, FS_EmptySet DEF PaidBetween

\* The script keeps types.
LEMMA ScriptTypes ==
    ASSUME TypeOK, BucketsOK, NEW q \in Requests, stamp[q] <= now, RunScript(q)
    PROVE  /\ charged' \in [Requests -> BOOLEAN] /\ setBack' \in [Buckets -> Nat]
           /\ \A b \in Buckets :
                /\ bucket'[b].tokens \in 0..Capacity(b) /\ bucket'[b].updated \in 0..MaxTime
                /\ bucket'[b].expires \in Nat /\ bucket'[b].updated <= now
                /\ bucket'[b].expires = 0 \/ bucket'[b].expires >= bucket'[b].updated + Ttl
<1>1. charged' \in [Requests -> BOOLEAN]
  BY DEF TypeOK, RunScript
<1>2. \A b \in Buckets : StepsBack(q, b) \in Nat
  <2>. SUFFICES ASSUME NEW b \in Buckets PROVE StepsBack(q, b) \in Nat
    OBVIOUS
  <2>1. bucket[b].updated \in Nat /\ stamp[q] \in Nat
    BY LimiterAssumption DEF TypeOK
  <2>. QED
    BY <2>1 DEF StepsBack, Greater
<1>3. setBack' \in [Buckets -> Nat]
  BY <1>2 DEF TypeOK, RunScript
<1>4. ASSUME NEW b \in Buckets
      PROVE  /\ bucket'[b].tokens \in 0..Capacity(b) /\ bucket'[b].updated \in 0..MaxTime
             /\ bucket'[b].expires \in Nat /\ bucket'[b].updated <= now
             /\ bucket'[b].expires = 0 \/ bucket'[b].expires >= bucket'[b].updated + Ttl
  <2>1. CASE ~IsCharged(q, b)
    BY <2>1, ScriptOnBucket DEF TypeOK, BucketsOK
  <2>2. CASE IsCharged(q, b)
    <3>1. /\ bucket'[b].tokens = Level(b, stamp[q]) - Payment(q, b)
          /\ bucket'[b].updated = stamp[q] /\ bucket'[b].expires = now + Ttl
      BY <2>2, ScriptOnBucket
    <3>2. /\ Level(b, stamp[q]) \in 0..Capacity(b) /\ Capacity(b) \in Nat
          /\ Payment(q, b) \in Nat /\ Payment(q, b) <= Level(b, stamp[q])
      BY <2>2, LevelIs, RuleType, TakenIsThere
    <3>3. stamp[q] \in 0..MaxTime /\ MaxTime \in Nat /\ now \in Nat /\ Ttl \in Nat
      BY LimiterAssumption, RuleType DEF TypeOK
    <3>. QED
      BY <3>1, <3>2, <3>3
  <2>. QED
    BY <2>1, <2>2
<1>. QED
  BY <1>1, <1>3, <1>4

\* The state of one charged bucket before and after, in numbers.
LEMMA ScriptNumbers ==
    ASSUME RateInv, NEW q \in Requests, phase[q] = "sent", RunScript(q), UNCHANGED <<stamp, now>>,
           NEW b \in Buckets, IsCharged(q, b)
    PROVE  /\ stamp[q] \in 0..MaxTime /\ stamp[q] <= now /\ MaxTime \in Nat /\ now \in 0..MaxTime
           /\ bucket[b].updated \in Nat /\ bucket[b].tokens \in Nat /\ setBack[b] \in Nat
           /\ Limit[b.rule] \in Nat /\ Capacity(b) \in Nat
           /\ Level(b, stamp[q]) \in Nat /\ Level(b, stamp[q]) <= Capacity(b)
           /\ Payment(q, b) \in Nat /\ Payment(q, b) <= Level(b, stamp[q])
           /\ bucket'[b].tokens = Level(b, stamp[q]) - Payment(q, b)
           /\ bucket'[b].updated = stamp[q] /\ bucket'[b].expires > 0
           /\ setBack'[b] \in Nat
           /\ setBack'[b] = setBack[b] + IF now < bucket[b].expires
                                         THEN Greater(0, bucket[b].updated - stamp[q]) ELSE 0
<1>. TypeOK /\ SentInTime /\ BucketsOK
  BY DEF RateInv
<1>1. /\ stamp[q] \in 0..MaxTime /\ stamp[q] <= now /\ MaxTime \in Nat /\ now \in 0..MaxTime
      /\ bucket[b].updated \in 0..MaxTime /\ bucket[b].tokens \in 0..Capacity(b) /\ setBack[b] \in Nat
      /\ Limit[b.rule] \in Nat /\ Capacity(b) \in Nat /\ Ttl \in Nat \ {0}
  BY LimiterAssumption, RuleType DEF TypeOK, SentInTime
<1>2. Level(b, stamp[q]) \in 0..Capacity(b)
  BY LevelIs
<1>3. Payment(q, b) \in Nat /\ Payment(q, b) <= Level(b, stamp[q])
  BY TakenIsThere
<1>4. /\ bucket'[b].tokens = Level(b, stamp[q]) - Payment(q, b)
      /\ bucket'[b].updated = stamp[q] /\ bucket'[b].expires = now + Ttl
      /\ setBack'[b] = setBack[b] + IF now < bucket[b].expires
                                    THEN Greater(0, bucket[b].updated - stamp[q]) ELSE 0
  BY ScriptOnBucket
<1>5. setBack'[b] \in Nat
  BY <1>1, ScriptTypes
<1>. QED
  BY <1>1, <1>2, <1>3, <1>4, <1>5

\* How far a charged bucket has regained after the script.
LEMMA RegainedToStep ==
    ASSUME RateInv, NEW q \in Requests, phase[q] = "sent", RunScript(q), UNCHANGED <<stamp, now>>,
           NEW b \in Buckets, IsCharged(q, b)
    PROVE  /\ RegainedTo(b) \in Nat /\ RegainedTo(b)' \in Nat /\ stamp[q] <= RegainedTo(b)'
           /\ RegainedTo(b)' = stamp[q] + setBack'[b]
           /\ now < bucket[b].expires =>
                RegainedTo(b)' = RegainedTo(b) + Greater(0, stamp[q] - bucket[b].updated)
           /\ ~(now < bucket[b].expires) /\ stamp[q] >= bucket[b].updated =>
                RegainedTo(b)' = RegainedTo(b) + Greater(0, stamp[q] - bucket[b].updated)
BY ScriptNumbers DEF RegainedTo, Greater

\* The bound on what was paid since a moment survives the script.
LEMMA SpentStep ==
    ASSUME RateInv, NEW q \in Requests, phase[q] = "sent", RunScript(q), UNCHANGED <<stamp, now>>,
           NEW b \in Buckets, FullBeforeExpiry(b), IsCharged(q, b)
    PROVE  SpentOK(b)'
<1>. TypeOK /\ SentInTime /\ BucketsOK /\ SpentOK(b)
  BY DEF RateInv
<1>. SUFFICES ASSUME NEW f \in 0..MaxTime
              PROVE  PaidBetween(b, f, MaxTime)' + bucket'[b].tokens
                        <= Capacity(b) + Greater(0, RegainedTo(b)' - f) * Limit[b.rule]
  BY DEF SpentOK, Capacity
<1>. DEFINE P == PaidBetween(b, f, MaxTime)
            p == Payment(q, b)
            V == RegainedTo(b)
            e == Greater(0, stamp[q] - bucket[b].updated)
            l == Limit[b.rule]
            level == Level(b, stamp[q])
            T == bucket[b].tokens
            cap == Capacity(b)
<1>1. /\ level \in Nat /\ level <= cap /\ cap \in Nat /\ p \in Nat /\ bucket'[b].tokens = level - p
      /\ T \in Nat /\ l \in Nat /\ stamp[q] \in Nat /\ bucket[b].updated \in Nat /\ f \in Nat
  BY ScriptNumbers
<1>2. P \in Nat /\ P' \in Nat /\ P' <= P + p
  BY <1>1, ScriptPays
<1>3. V \in Nat /\ V' \in Nat /\ e \in Nat
  BY <1>1, RegainedToStep DEF Greater
<1>4. Greater(0, V' - f) * l \in Nat
  <2>1. Greater(0, V' - f) \in Nat
    BY <1>1, <1>3 DEF Greater
  <2>. HIDE DEF V
  <2>. QED
    BY <1>1, <2>1
<1>. HIDE DEF P, p, V, e, l, level, T, cap
<1>5. CASE P = 0
  <2>1. P' + (level - p) <= cap
    <3>1. \A m, n, k, d \in Int : m <= n /\ k <= d => m + (k - n) <= d
      OBVIOUS
    <3>2. P' <= p /\ P' \in Int /\ p \in Int /\ level \in Int /\ cap \in Int
      BY <1>1, <1>2, <1>5
    <3>. QED
      BY <1>1, <3>1, <3>2
  <2>. QED
    BY <1>1, <1>2, <1>4, <2>1 DEF P, V, l, cap
<1>6. CASE P # 0
  <2>1. bucket[b].expires > 0 /\ f <= V
    <3>1. bucket[b].expires # 0 /\ ~(V < f)
      BY <1>1, <1>6, NothingPaid DEF P, V
    <3>. QED
      BY <1>1, <1>3, <3>1 DEF BucketsOK
  <2>2. V' = V + e /\ level <= T + e * l
    <3>1. CASE now < bucket[b].expires
      BY <3>1, LevelIs, RegainedToStep DEF V, e, level, T, l
    <3>2. CASE ~(now < bucket[b].expires)
      <4>1. stamp[q] >= bucket[b].updated /\ cap <= e * l
        BY <2>1, <3>2, ExpiredIsFull DEF e, l, cap
      <4>2. e * l \in Int
        BY <1>1, <1>3
      <4>3. V' = V + e
        BY <3>2, <4>1, RegainedToStep DEF V, e
      <4>. QED
        BY <1>1, <4>1, <4>2, <4>3
    <3>. QED
      BY <3>1, <3>2
  <2>3. P + T <= cap + Greater(0, V - f) * l
    BY DEF SpentOK, P, T, cap, V, l
  <2>4. Greater(0, V - f) = V - f /\ Greater(0, V' - f) = (V - f) + e
    BY <1>1, <1>3, <2>1, <2>2 DEF Greater
  <2>5. ((V - f) + e) * l = (V - f) * l + e * l /\ (V - f) * l \in Int /\ e * l \in Int
    BY <1>1, <1>3, Regained
  <2>. DEFINE x == (V - f) * l
              y == e * l
  <2>6. P' + (level - p) <= cap + (x + y)
    <3>1. x \in Int /\ y \in Int /\ level <= T + y /\ P + T <= cap + x
      BY <2>2, <2>3, <2>4, <2>5
    <3>2. \A m, m1, n, k, t, c, i, j \in Int :
            m1 <= m + n /\ k <= t + j /\ m + t <= c + i => m1 + (k - n) <= c + (i + j)
      OBVIOUS
    <3>3. P \in Int /\ P' \in Int /\ p \in Int /\ level \in Int /\ T \in Int /\ cap \in Int
      BY <1>1, <1>2
    <3>. HIDE DEF x, y
    <3>. QED
      BY <1>2, <3>1, <3>2, <3>3
  <2>. QED
    BY <1>1, <2>4, <2>5, <2>6 DEF P, V, l, cap
<1>. QED
  BY <1>5, <1>6 DEF P, V, l, cap

\* So does the bound of a period: it is that of a moment when the period was its last.
LEMMA KeptStep ==
    ASSUME RateInv, NEW q \in Requests, phase[q] = "sent", RunScript(q), UNCHANGED <<stamp, now>>,
           NEW b \in Buckets, FullBeforeExpiry(b), IsCharged(q, b)
    PROVE  KeptOK(b)'
<1>. TypeOK /\ SentInTime /\ KeptOK(b)
  BY DEF RateInv
<1>. SUFFICES ASSUME NEW f \in 0..MaxTime, NEW t \in 0..MaxTime, f <= t
              PROVE  PaidBetween(b, f, t)' <= Budget(b, f, t) + setBack'[b] * Limit[b.rule]
  BY DEF KeptOK, Budget, Capacity
<1>. DEFINE P == PaidBetween(b, f, t)
            A == PaidBetween(b, f, MaxTime)
            p == Payment(q, b)
            B == setBack'[b]
            l == Limit[b.rule]
            cap == Capacity(b)
            x == (t - f) * l
            y == B * l
<1>1. /\ cap \in Nat /\ p \in Nat /\ l \in Nat /\ stamp[q] \in 0..MaxTime /\ f \in Nat /\ t \in Nat
      /\ setBack[b] \in Nat /\ B \in Nat /\ bucket'[b].tokens \in Nat /\ MaxTime \in Nat
  BY ScriptNumbers
<1>2. Budget(b, f, t) = cap + x
  BY DEF Budget
<1>3. x \in Int /\ y \in Int /\ setBack[b] * l \in Int
  <2>1. \A m \in Int : m * l \in Int
    BY <1>1, Regained
  <2>2. t - f \in Int /\ B \in Int /\ setBack[b] \in Int
    BY <1>1
  <2>. HIDE DEF l, B
  <2>. QED
    BY <2>1, <2>2
<1>4. /\ P \in Nat /\ P' = P + IF stamp[q] \in f..t THEN p ELSE 0
      /\ A \in Nat /\ A' \in Nat /\ A' = A + IF stamp[q] \in f..MaxTime THEN p ELSE 0
  BY ScriptPays
<1>5. P <= A
  <2>1. \A r \in Requests : stamp[r] \in Int
    BY LimiterAssumption DEF TypeOK
  <2>. QED
    BY <1>1, <2>1, PaidMonotonic
<1>6. setBack[b] <= B
  <2>1. \A i \in Nat : Greater(0, i) = i /\ Greater(0, -i) = 0
    BY DEF Greater
  <2>2. Greater(0, bucket[b].updated - stamp[q]) \in Nat
    BY ScriptNumbers DEF Greater
  <2>. QED
    BY <1>1, <2>2, ScriptNumbers
<1>7. setBack[b] * l <= y
  <2>1. \A m, n \in Int : m <= n => m * l <= n * l
    BY <1>1, Regained
  <2>. QED
    BY <1>1, <1>6, <2>1
<1>8. CASE ~(stamp[q] \in f..t)
  <2>1. P <= Budget(b, f, t) + setBack[b] * l
    BY DEF KeptOK
  <2>2. P' = P
    BY <1>4, <1>8
  <2>. HIDE DEF P, x, y, cap, l, B
  <2>. QED
    BY <1>1, <1>2, <1>3, <1>4, <1>7, <2>1, <2>2 DEF P, y, l, B
<1>9. CASE stamp[q] \in f..t
  <2>. DEFINE g == Greater(0, RegainedTo(b)' - f)
              z == g * l
  <2>1. A' + bucket'[b].tokens <= cap + z
    <3>1. SpentOK(b)'
      BY SpentStep
    <3>. QED
      BY <3>1 DEF SpentOK, Capacity
  <2>2. P' <= A'
    BY <1>1, <1>4, <1>5, <1>9
  <2>3. g <= (t - f) + B /\ g \in Int
    <3>1. RegainedTo(b)' \in Nat /\ RegainedTo(b)' = stamp[q] + B
      BY RegainedToStep
    <3>2. stamp[q] <= t /\ stamp[q] \in Nat
      BY <1>1, <1>9
    <3>. HIDE DEF B
    <3>. QED
      BY <1>1, <3>1, <3>2 DEF Greater
  <2>4. z <= x + y /\ z \in Int
    <3>1. \A m, n \in Int : (m <= n => m * l <= n * l) /\ (m + n) * l = m * l + n * l /\ m * l \in Int
      BY <1>1, Regained
    <3>2. (t - f) + B \in Int /\ t - f \in Int /\ B \in Int
      BY <1>1
    <3>. QED
      BY <2>3, <3>1, <3>2
  <2>5. P' \in Nat
    BY <1>1, <1>4
  <2>. HIDE DEF P, A, x, y, z, cap, l, B
  <2>6. P' <= cap + x + y
    BY <1>1, <1>3, <1>4, <2>1, <2>2, <2>4, <2>5
  <2>. QED
    BY <1>2, <2>6 DEF P, y, l, B
<1>. QED
  BY <1>8, <1>9

\* What q misses in a bucket it has to pay, others have paid since some moment when it was full.
LEMMA LevelAccounted ==
    ASSUME RateInv, NEW q \in Requests, phase[q] = "sent", RunScript(q), UNCHANGED <<stamp, now>>,
           NEW b \in Buckets, IsCharged(q, b)
    PROVE  \E f \in 0..stamp[q], t \in stamp[q]..now :
               PaidBetween(b, f, t) + Level(b, stamp[q])
                   >= Budget(b, f, t) - setBack'[b] * Limit[b.rule]
<1>. TypeOK /\ SentInTime /\ NothingLost(b)
  BY DEF RateInv
<1>. DEFINE s == stamp[q]
            U == bucket[b].updated
            T == bucket[b].tokens
            l == Limit[b.rule]
            cap == Capacity(b)
            level == Level(b, s)
            B == setBack[b]
            B1 == setBack'[b]
<1>. SUFFICES \E f \in 0..s, t \in s..now : PaidBetween(b, f, t) + level >= Budget(b, f, t) - B1 * l
  OBVIOUS
<1>1. /\ s \in 0..now /\ U \in Nat /\ T \in Nat /\ B \in Nat /\ B1 \in Nat /\ l \in Nat /\ cap \in Nat
      /\ level \in Nat /\ level <= cap /\ now \in Nat
      /\ B1 = B + IF now < bucket[b].expires THEN Greater(0, U - s) ELSE 0
  BY ScriptNumbers DEF TypeOK
<1>2. \A f, t : PaidBetween(b, f, t) \in Nat /\ Budget(b, f, t) = cap + (t - f) * l
  BY ScriptPays DEF Budget
<1>3. /\ \A m \in Int : m * l \in Int
      /\ \A m, n \in Int : (m + n) * l = m * l + n * l /\ (m - n) * l = m * l - n * l
      /\ \A m, n \in Int : m <= n => m * l <= n * l
      /\ 0 * l = 0
  BY <1>1, Regained
<1>4. ASSUME NEW f \in 0..now, NEW t \in 0..now, f <= s, s <= t,
             PaidBetween(b, f, t) + level >= (cap + (t - f) * l) - B1 * l
      PROVE  \E f2 \in 0..s, t2 \in s..now :
                 PaidBetween(b, f2, t2) + level >= Budget(b, f2, t2) - B1 * l
  <2>1. f \in 0..s /\ t \in s..now
    BY <1>1, <1>4
  <2>2. PaidBetween(b, f, t) + level >= Budget(b, f, t) - B1 * l
    <3>. HIDE DEF cap, level, l, B1
    <3>. QED
      BY <1>2, <1>4
  <2>. HIDE DEF s, level, B1, l
  <2>. QED
    BY <2>1, <2>2
<1>5. CASE level = cap
  <2>1. PICK k \in 0..now : k = s
    BY <1>1
  <2>2. k - k = 0 /\ k <= s /\ s <= k
    BY <1>1, <2>1
  <2>. DEFINE P == PaidBetween(b, k, k)
              y == B1 * l
  <2>3. y \in Int /\ y >= 0
    <3>1. \A m \in Nat : m * l \in Nat
      BY <1>1
    <3>. HIDE DEF B1, l
    <3>2. B1 * l \in Nat
      BY <1>1, <3>1
    <3>. QED
      BY <3>2
  <2>4. P + level >= (cap + 0) - y
    <3>1. P \in Nat
      BY <1>2
    <3>. HIDE DEF P, y, level, cap
    <3>. QED
      BY <1>1, <1>5, <2>3, <3>1
  <2>5. (k - k) * l = 0
    BY <1>3, <2>2
  <2>6. P + level >= (cap + (k - k) * l) - B1 * l
    BY <2>4, <2>5
  <2>. HIDE DEF s, level, cap, l, B1
  <2>. QED
    BY <1>4, <2>2, <2>6
<1>6. CASE level # cap
  <2>. DEFINE e == Greater(0, s - U)
  <2>1. now < bucket[b].expires /\ level = T + e * l /\ e \in Nat
    BY <1>6, LevelIs
  <2>2. bucket[b].expires > 0
    BY <1>1, <2>1 DEF RateInv, BucketsOK
  <2>3. PICK f \in 0..now, t \in 0..now :
            f <= U /\ U <= t /\ PaidBetween(b, f, t) + T >= Budget(b, f, t) - B * l
    BY <2>2 DEF NothingLost
  <2>4. PICK f1 \in 0..now, t1 \in 0..now :
            f1 = (IF s < f THEN s ELSE f) /\ t1 = (IF s > t THEN s ELSE t)
    BY <1>1, <2>3
  <2>. DEFINE P == PaidBetween(b, f, t)
              P1 == PaidBetween(b, f1, t1)
  <2>5. f1 <= s /\ s <= t1 /\ f1 <= f /\ t <= t1
    BY <1>1, <2>3, <2>4
  <2>6. P \in Nat /\ P1 \in Nat /\ P <= P1
    <3>1. \A r \in Requests : stamp[r] \in Int
      BY LimiterAssumption DEF TypeOK
    <3>2. P <= P1
      BY <1>1, <2>5, <3>1, PaidMonotonic
    <3>. QED
      BY <1>2, <3>2
  <2>7. (t1 - f1) - B1 <= ((t - f) - B) + e
    <3>1. B1 = B + Greater(0, U - s)
      BY <1>1, <2>1
    <3>. HIDE DEF B, B1
    <3>. QED
      BY <1>1, <2>3, <2>4, <3>1 DEF Greater
  <2>8. (t1 - f1) * l - B1 * l <= ((t - f) * l - B * l) + e * l
    <3>1. t1 - f1 \in Int /\ t - f \in Int /\ e \in Int /\ B \in Int /\ B1 \in Int
      BY <1>1, <2>1, <2>4
    <3>2. (t1 - f1) - B1 \in Int /\ (t - f) - B \in Int /\ ((t - f) - B) + e \in Int
      BY <3>1
    <3>. HIDE DEF e, B, B1, l
    <3>3. ((t1 - f1) - B1) * l <= (((t - f) - B) + e) * l
      BY <1>3, <2>7, <3>2
    <3>4. /\ ((t1 - f1) - B1) * l = (t1 - f1) * l - B1 * l
          /\ (((t - f) - B) + e) * l = ((t - f) - B) * l + e * l
          /\ ((t - f) - B) * l = (t - f) * l - B * l
      BY <1>3, <3>1, <3>2
    <3>. QED
      BY <3>3, <3>4
  <2>9. P + T >= (cap + (t - f) * l) - B * l
    <3>1. Budget(b, f, t) = cap + (t - f) * l
      BY DEF Budget
    <3>2. P + T >= Budget(b, f, t) - B * l
      BY <2>3
    <3>. HIDE DEF cap, l, P, T, B
    <3>. QED
      BY <3>1, <3>2
  <2>. DEFINE x1 == (t1 - f1) * l
              y1 == B1 * l
              x == (t - f) * l
              y == B * l
              z == e * l
  <2>10. x1 \in Int /\ y1 \in Int /\ x \in Int /\ y \in Int /\ z \in Int
    <3>1. t1 - f1 \in Int /\ t - f \in Int /\ e \in Int /\ B \in Int /\ B1 \in Int
      BY <1>1, <2>1, <2>4
    <3>. HIDE DEF e, B, B1, l
    <3>. QED
      BY <1>3, <3>1
  <2>11. P1 + level >= (cap + x1) - y1
    <3>1. level = T + z /\ x1 - y1 <= (x - y) + z /\ P + T >= (cap + x) - y
      BY <2>1, <2>8, <2>9
    <3>2. \A a, a1, k, w, c, i, j, i1, j1, m \in Int :
            /\ a <= a1 /\ k = w + m /\ i1 - j1 <= (i - j) + m /\ a + w >= (c + i) - j
            => a1 + k >= (c + i1) - j1
      OBVIOUS
    <3>3. P \in Int /\ P1 \in Int /\ level \in Int /\ T \in Int /\ cap \in Int
      BY <1>1, <2>6
    <3>. HIDE DEF P, P1, x, y, x1, y1, z, level, T, cap
    <3>. QED
      BY <2>6, <2>10, <3>1, <3>2, <3>3
  <2>. HIDE DEF s, B1, l, cap, level
  <2>. QED
    BY <1>4, <2>5, <2>11
<1>. QED
  BY <1>5, <1>6

\* The script loses nothing.
LEMMA NothingLostStep ==
    ASSUME RateInv, NEW q \in Requests, phase[q] = "sent", RunScript(q), UNCHANGED <<stamp, now>>,
           NEW b \in Buckets, IsCharged(q, b)
    PROVE  NothingLost(b)'
<1>. TypeOK /\ SentInTime
  BY DEF RateInv
<1>. DEFINE p == Payment(q, b)
            y == setBack'[b] * Limit[b.rule]
            level == Level(b, stamp[q])
<1>1. /\ stamp[q] \in 0..now /\ now \in Nat /\ level \in Nat /\ p \in Nat
      /\ bucket'[b].tokens = level - p /\ bucket'[b].updated = stamp[q]
      /\ setBack'[b] \in Nat /\ Limit[b.rule] \in Nat /\ Capacity(b) \in Nat
  BY ScriptNumbers DEF TypeOK
<1>2. PICK f \in 0..stamp[q], t \in stamp[q]..now : PaidBetween(b, f, t) + level >= Budget(b, f, t) - y
  BY LevelAccounted
<1>. DEFINE P == PaidBetween(b, f, t)
            m == Budget(b, f, t)
<1>3. P \in Nat /\ P' \in Nat /\ P' = P + p
  <2>1. stamp[q] \in f..t
    BY <1>1
  <2>. QED
    BY <2>1, ScriptPays
<1>4. m \in Int /\ y \in Int
  <2>1. t - f \in Int
    BY <1>1
  <2>2. (t - f) * Limit[b.rule] \in Int /\ y \in Int
    BY <1>1, <2>1, Regained
  <2>. QED
    BY <1>1, <2>2 DEF Budget
<1>5. P' + (level - p) >= m - y
  <2>1. \A a, a1, k, n, c, d \in Int : a1 = a + n /\ a + k >= c - d => a1 + (k - n) >= c - d
    OBVIOUS
  <2>2. P + level >= m - y /\ p \in Int /\ level \in Int
    BY <1>1, <1>2
  <2>. HIDE DEF P, p, level, m, y
  <2>. QED
    BY <1>3, <1>4, <2>1, <2>2
<1>6. /\ f \in 0..now' /\ t \in 0..now' /\ f <= bucket'[b].updated /\ bucket'[b].updated <= t
      /\ Budget(b, f, t)' = m
  BY <1>1 DEF Budget, Capacity
<1>. HIDE DEF level, p
<1>. QED
  BY <1>1, <1>5, <1>6 DEF NothingLost

-------------------------------------------------------------------------------
\* A bucket that denies q will have the price after the wait.
LEMMA WaitIsEnough ==
    ASSUME TypeOK, NEW q \in Requests, NEW i \in Denied(q)
    PROVE  LET c == Charges[q][i]
               level == Level(BucketOf(c), stamp[q])
           IN  Wait(q, i) \in Nat /\ level + Wait(q, i) * Limit[c.rule] >= Price(c)
<1>. DEFINE c == Charges[q][i]
            b == BucketOf(c)
            level == Level(b, stamp[q])
            price == Price(c)
            l == Limit[c.rule]
<1>1. i \in DOMAIN Charges[q] /\ level < price
  BY DEF Denied, Lacks
<1>2. b \in Buckets /\ b.rule = c.rule
  BY <1>1, ChargedBucket DEF BucketOf
<1>3. l \in Nat \ {0} /\ level \in Nat
  BY <1>2, RuleType, LevelIs
<1>4. price \in Nat
  <2>1. c.cost \in Nat /\ Window \in Nat
    BY <1>1, ChargesOf, LimiterAssumption
  <2>. QED
    BY <2>1 DEF Price
<1>5. Wait(q, i) = (price - level + l - 1) \div l
  BY DEF Wait
<1>. HIDE DEF level, price, l
<1>6. price - level \in Nat
  BY <1>1, <1>3, <1>4
<1>. DEFINE n == price - level
            w == (n + l - 1) \div l
<1>7. w \in Nat /\ w * l >= n
  <2>. HIDE DEF n
  <2>. QED
    BY <1>3, <1>6, RoundedUp DEF n
<1>8. w = Wait(q, i)
  BY <1>5
<1>. HIDE DEF w
<1>9. level + w * l >= price
  <2>1. w * l \in Int
    BY <1>3, <1>7
  <2>. QED
    BY <1>3, <1>4, <1>7, <2>1
<1>. QED
  BY <1>7, <1>8, <1>9 DEF level, price, l

\* The longest wait is one of the waits, and no other is longer.
LEMMA LongestWaitIs ==
    ASSUME TypeOK, NEW q \in Requests, Denied(q) # {}
    PROVE  LongestWait(q) \in Denied(q) /\ \A j \in Denied(q) : Wait(q, j) <= Wait(q, LongestWait(q))
<1>. DEFINE D == Denied(q)
            w(i) == Wait(q, i)
            R == {p \in D \X D : w(p[2]) < w(p[1]) \/ (w(p[2]) = w(p[1]) /\ p[1] < p[2])}
<1>1. IsFiniteSet(D) /\ \A i \in D : w(i) \in Nat /\ i \in Nat
  <2>1. D \subseteq DOMAIN Charges[q]
    BY DEF Denied
  <2>. QED
    BY <2>1, ChargesOf, FS_Subset, WaitIsEnough
<1>2. \A i, j \in D : <<i, j>> \in R <=> w(j) < w(i) \/ (w(j) = w(i) /\ i < j)
  OBVIOUS
<1>. HIDE DEF D, w, R
<1>3. TotalOrder(R, D)
  BY <1>1, <1>2 DEF TotalOrder
<1>4. D \in SUBSET D /\ D # {}
  BY DEF D
<1>5. PICK i \in D : \A j \in D : j = i \/ <<i, j>> \in R
  BY <1>1, <1>3, <1>4, FirstOf
<1>6. \A j \in D : w(j) <= w(i) /\ (w(j) = w(i) => i <= j)
  <2>. SUFFICES ASSUME NEW j \in D PROVE w(j) <= w(i) /\ (w(j) = w(i) => i <= j)
    OBVIOUS
  <2>1. w(j) \in Nat /\ w(i) \in Nat /\ i \in Nat /\ j \in Nat
    BY <1>1
  <2>2. j = i \/ w(j) < w(i) \/ (w(j) = w(i) /\ i < j)
    BY <1>2, <1>5
  <2>. QED
    BY <2>1, <2>2
<1>7. \E k \in Denied(q) :
        \A j \in Denied(q) : Wait(q, j) <= Wait(q, k) /\ (Wait(q, j) = Wait(q, k) => k <= j)
  BY <1>6 DEF D, w
<1>. QED
  BY <1>7 DEF LongestWait

\* What is known of a bucket that a step leaves alone.
LEMMA BucketFrame ==
    ASSUME RateInv, NEW b \in Buckets, bucket'[b] = bucket[b], setBack'[b] = setBack[b],
           \A f, t : PaidBetween(b, f, t)' = PaidBetween(b, f, t), now' \in Nat, now <= now'
    PROVE  NothingLost(b)' /\ (FullBeforeExpiry(b) => SpentOK(b)' /\ KeptOK(b)')
<1>1. NothingLost(b)'
  <2>1. now \in Nat
    BY LimiterAssumption DEF RateInv, TypeOK
  <2>2. \A f \in 0..now : f \in 0..now'
    BY <2>1
  <2>. QED
    BY <2>2 DEF RateInv, NothingLost, Budget, Capacity
<1>2. ASSUME FullBeforeExpiry(b)
      PROVE  SpentOK(b)' /\ KeptOK(b)'
  <2>1. SpentOK(b) /\ KeptOK(b)
    BY <1>2 DEF RateInv
  <2>. QED
    BY <2>1 DEF SpentOK, KeptOK, Budget, Capacity, RegainedTo
<1>. QED
  BY <1>1, <1>2

\* A request arrives: the invariant holds after its script if types do.
LEMMA ScriptKeeps ==
    ASSUME RateInv, NEW q \in Requests, phase[q] = "sent", RunScript(q), UNCHANGED <<stamp, now>>,
           NEW next, next \notin {"new", "sent"}, phase' = [phase EXCEPT ![q] = next], TypeOK'
    PROVE  RateInv'
<1>. TypeOK /\ SentInTime /\ BucketsOK
  BY DEF RateInv
<1>1. charged' = [charged EXCEPT ![q] = Denied(q) = {}] /\ charged \in [Requests -> BOOLEAN]
      /\ phase \in [Requests -> Phases]
  BY DEF RunScript, TypeOK
<1>2. SentInTime'
  BY <1>1 DEF SentInTime
<1>3. stamp[q] <= now
  BY DEF SentInTime
<1>4. BucketsOK'
  <2>. SUFFICES ASSUME NEW b \in Buckets, NEW r \in Requests, charged'[r], IsCharged(r, b)
                PROVE  bucket'[b].expires > 0 /\ (FullBeforeExpiry(b) => stamp[r] <= RegainedTo(b)')
    BY <1>3, ScriptTypes DEF BucketsOK, FullBeforeExpiry, Capacity, Ttl, IsCharged, Charges
  <2>1. CASE ~IsCharged(q, b)
    <3>1. r # q /\ charged[r]
      BY <1>1, <2>1
    <3>. QED
      BY <2>1, <3>1, ScriptOnBucket DEF BucketsOK, RegainedTo
  <2>2. CASE IsCharged(q, b)
    <3>1. bucket'[b].expires > 0
      BY <2>2, ScriptNumbers
    <3>2. ASSUME FullBeforeExpiry(b)
          PROVE  stamp[r] <= RegainedTo(b)'
      <4>1. CASE r = q
        BY <2>2, <4>1, RegainedToStep
      <4>2. CASE r # q
        <5>1. bucket[b].expires > 0 /\ stamp[r] <= RegainedTo(b)
          BY <1>1, <3>2, <4>2 DEF BucketsOK
        <5>2. now < bucket[b].expires \/ stamp[q] >= bucket[b].updated
          BY <3>2, <5>1, ExpiredIsFull
        <5>3. RegainedTo(b)' = RegainedTo(b) + Greater(0, stamp[q] - bucket[b].updated)
              /\ RegainedTo(b) \in Nat
          BY <2>2, <5>2, RegainedToStep
        <5>4. Greater(0, stamp[q] - bucket[b].updated) \in Nat /\ stamp[r] \in Nat
          BY LimiterAssumption DEF TypeOK, Greater
        <5>. QED
          BY <5>1, <5>3, <5>4
      <4>. QED
        BY <4>1, <4>2
    <3>. QED
      BY <3>1, <3>2
  <2>. QED
    BY <2>1, <2>2
<1>5. ASSUME NEW b \in Buckets
      PROVE  NothingLost(b)' /\ (FullBeforeExpiry(b) => SpentOK(b)' /\ KeptOK(b)')
  <2>1. CASE IsCharged(q, b)
    BY <2>1, NothingLostStep, SpentStep, KeptStep
  <2>2. CASE ~IsCharged(q, b)
    <3>1. Payment(q, b) = 0 /\ bucket'[b] = bucket[b] /\ setBack'[b] = setBack[b]
      BY <2>2, TakenIsThere, ScriptOnBucket
    <3>2. \A f, t : PaidBetween(b, f, t)' = PaidBetween(b, f, t)
      BY <3>1, ScriptPays
    <3>3. now' \in Nat /\ now <= now'
      BY LimiterAssumption DEF TypeOK
    <3>. QED
      BY <3>1, <3>2, <3>3, BucketFrame
  <2>. QED
    BY <2>1, <2>2
<1>6. \A b \in Buckets : FullBeforeExpiry(b)' <=> FullBeforeExpiry(b)
  BY DEF FullBeforeExpiry, Capacity, Ttl
<1>. QED
  BY <1>2, <1>4, <1>5 DEF RateInv, FullBeforeExpiry, Capacity, Ttl

\* A step that leaves buckets and charges alone keeps the invariant if types, and the stamps of who
\* was charged, stay.
LEMMA QuietKeeps ==
    ASSUME RateInv, UNCHANGED <<bucket, charged, setBack>>, TypeOK', SentInTime', now <= now',
           \A q \in Requests : charged[q] => stamp'[q] = stamp[q]
    PROVE  RateInv'
<1>. TypeOK /\ SentInTime /\ BucketsOK
  BY DEF RateInv
<1>1. \A b, f, t : PaidBetween(b, f, t)' = PaidBetween(b, f, t)
  <2>. SUFFICES ASSUME NEW b, NEW f, NEW t PROVE PaidBetween(b, f, t)' = PaidBetween(b, f, t)
    OBVIOUS
  <2>1. Payers(f, t)' = Payers(f, t)
    BY DEF Payers
  <2>2. TokensPaid(b, f, t)' = TokensPaid(b, f, t)
    BY <2>1 DEF TokensPaid
  <2>. QED
    BY <2>2 DEF PaidBetween
<1>2. now \in Nat /\ now' \in Nat
  BY LimiterAssumption DEF TypeOK
<1>3. BucketsOK'
  <2>. SUFFICES ASSUME NEW b \in Buckets
                PROVE  /\ bucket[b].expires \in Nat /\ bucket[b].updated <= now'
                       /\ bucket[b].expires = 0 \/ bucket[b].expires >= bucket[b].updated + Ttl
                       /\ \A q \in Requests : charged[q] /\ IsCharged(q, b) =>
                            /\ bucket[b].expires > 0
                            /\ FullBeforeExpiry(b) => stamp'[q] <= RegainedTo(b)
    BY DEF BucketsOK, RegainedTo, FullBeforeExpiry, Capacity, Ttl, IsCharged, Charges
  <2>1. bucket[b].updated \in Nat /\ bucket[b].updated <= now
    BY LimiterAssumption DEF TypeOK, BucketsOK
  <2>2. bucket[b].updated <= now'
    BY <1>2, <2>1
  <2>. QED
    BY <2>2 DEF BucketsOK
<1>4. \A b \in Buckets : NothingLost(b)' /\ (FullBeforeExpiry(b) => SpentOK(b)' /\ KeptOK(b)')
  BY <1>1, <1>2, BucketFrame
<1>. QED
  BY <1>3, <1>4 DEF RateInv, FullBeforeExpiry, Capacity, Ttl

\* What the arrival of a request leaves, whatever the answer.
LEMMA ArrivalTypes ==
    ASSUME RateInv, NEW q \in Requests, phase[q] = "sent", RunScript(q), UNCHANGED <<stamp, now>>,
           NEW next \in Phases, phase' = [phase EXCEPT ![q] = next], faults' \in 0..MaxFaults,
           retryAfter' \in [Requests -> Nat],
           deniedBy' \in [Requests -> {"none", "rate_limited", "global_rate_limited", "system_rate_limited"}]
    PROVE  TypeOK'
<1>. TypeOK /\ SentInTime /\ BucketsOK
  BY DEF RateInv
<1>1. stamp[q] <= now
  BY DEF SentInTime
<1>2. /\ charged' \in [Requests -> BOOLEAN] /\ setBack' \in [Buckets -> Nat]
      /\ \A b \in Buckets : bucket'[b].tokens \in 0..Capacity(b) /\ bucket'[b].updated \in 0..MaxTime
  BY <1>1, ScriptTypes
<1>3. phase' \in [Requests -> Phases] /\ now' \in 0..MaxTime /\ stamp' \in [Requests -> 0..MaxTime]
  BY DEF TypeOK
<1>. QED
  BY <1>2, <1>3 DEF TypeOK, Capacity

\* The reasons that are recorded.
LEMMA ReasonType ==
    \A rule : RejectionReason(rule) \in {"rate_limited", "global_rate_limited", "system_rate_limited"}
BY DEF RejectionReason

\* A second passes.
LEMMA TickKeeps ==
    ASSUME RateInv, Tick
    PROVE  RateInv'
<1>. TypeOK /\ SentInTime
  BY DEF RateInv
<1>1. now \in Nat /\ MaxTime \in Nat /\ MaxDelay \in Nat /\ \A q \in Requests : stamp[q] \in Nat
  BY LimiterAssumption DEF TypeOK
<1>2. /\ now' = now + 1 /\ now < MaxTime
      /\ \A q \in Requests : phase[q] = "sent" => now - stamp[q] < MaxDelay
      /\ UNCHANGED <<phase, stamp, charged, retryAfter, deniedBy, bucket, setBack, faults>>
  BY DEF Tick
<1>3. TypeOK'
  <2>1. now' \in 0..MaxTime
    BY <1>1, <1>2
  <2>. QED
    BY <1>2, <2>1 DEF TypeOK, Capacity
<1>4. SentInTime'
  BY <1>1, <1>2 DEF SentInTime
<1>. QED
  BY <1>1, <1>2, <1>3, <1>4, QuietKeeps

\* A request is stamped.
LEMMA SendKeeps ==
    ASSUME RateInv, NEW q \in Requests, Send(q)
    PROVE  RateInv'
<1>. TypeOK /\ SentInTime
  BY DEF RateInv
<1>1. /\ phase[q] = "new" /\ UNCHANGED <<now, charged, retryAfter, deniedBy, bucket, setBack, faults>>
      /\ \/ phase' = [phase EXCEPT ![q] = "unmetered"] /\ UNCHANGED stamp
         \/ phase' = [phase EXCEPT ![q] = "sent"] /\ stamp' = [stamp EXCEPT ![q] = now]
  BY DEF Send
<1>2. now \in 0..MaxTime /\ now \in Nat /\ MaxDelay \in Nat
  BY LimiterAssumption DEF TypeOK
<1>3. TypeOK'
  <2>1. phase' \in [Requests -> Phases] /\ stamp' \in [Requests -> 0..MaxTime]
    BY <1>1, <1>2 DEF TypeOK, Phases
  <2>. QED
    BY <1>1, <2>1 DEF TypeOK, Capacity
<1>4. phase \in [Requests -> Phases] /\ stamp \in [Requests -> 0..MaxTime]
  BY DEF TypeOK
<1>5. SentInTime'
  <2>. SUFFICES ASSUME NEW r \in Requests
                PROVE  /\ phase'[r] = "sent" => stamp'[r] <= now /\ now <= stamp'[r] + MaxDelay
                       /\ phase'[r] \in {"new", "sent"} => ~charged[r]
    BY <1>1 DEF SentInTime
  <2>1. CASE r = q
    BY <1>1, <1>2, <1>4, <2>1 DEF SentInTime
  <2>2. CASE r # q
    BY <1>1, <1>4, <2>2 DEF SentInTime
  <2>. QED
    BY <2>1, <2>2
<1>6. \A r \in Requests : charged[r] => stamp'[r] = stamp[r]
  <2>1. ~charged[q]
    BY <1>1 DEF SentInTime
  <2>. QED
    BY <1>1, <1>4, <2>1
<1>. QED
  BY <1>1, <1>2, <1>3, <1>5, <1>6, QuietKeeps

\* Redis fails, before the script ran or after.
LEMMA FailureKeeps ==
    ASSUME RateInv, NEW q \in Requests, NEW ran \in BOOLEAN, RedisFails(q, ran)
    PROVE  RateInv'
<1>. TypeOK /\ SentInTime
  BY DEF RateInv
<1>1. PICK next \in {"unmetered", "unavailable"} : phase' = [phase EXCEPT ![q] = next]
  BY DEF RedisFails
<1>2. /\ phase[q] = "sent" /\ UNCHANGED <<now, stamp, retryAfter>>
      /\ IF ran THEN RunScript(q) ELSE UNCHANGED <<bucket, charged, setBack>>
      /\ UNCHANGED deniedBy \/ deniedBy' = [deniedBy EXCEPT ![q] = "system_rate_limited"]
  BY DEF RedisFails, Arrives
<1>3. faults' \in 0..MaxFaults
  <2>1. faults > 0 /\ faults' = faults - 1 /\ faults \in 0..MaxFaults /\ MaxFaults \in Nat
    BY LimiterAssumption DEF RedisFails, TypeOK
  <2>. QED
    BY <2>1
<1>4. /\ retryAfter' \in [Requests -> Nat]
      /\ deniedBy' \in [Requests -> {"none", "rate_limited", "global_rate_limited", "system_rate_limited"}]
  BY <1>2 DEF TypeOK
<1>5. next \in Phases /\ next \notin {"new", "sent"}
  BY DEF Phases
<1>6. CASE ran
  BY <1>1, <1>2, <1>3, <1>4, <1>5, <1>6, ArrivalTypes, ScriptKeeps
<1>7. CASE ~ran
  <2>1. TypeOK'
    BY <1>1, <1>2, <1>3, <1>4, <1>5, <1>7 DEF TypeOK, Capacity
  <2>2. SentInTime'
    BY <1>1, <1>2, <1>5, <1>7 DEF SentInTime, TypeOK
  <2>3. now <= now'
    BY <1>2, LimiterAssumption DEF TypeOK
  <2>. QED
    BY <1>2, <1>7, <2>1, <2>2, <2>3, QuietKeeps
<1>. QED
  BY <1>6, <1>7

\* Every step keeps the invariant.
LEMMA RateInvStep == RateInv /\ [Next]_vars => RateInv'
<1>. SUFFICES ASSUME RateInv, [Next]_vars PROVE RateInv'
  OBVIOUS
<1>. TypeOK
  BY DEF RateInv
<1>1. ASSUME NEW q \in Requests, Admit(q)
      PROVE  RateInv'
  <2>1. /\ phase[q] = "sent" /\ RunScript(q) /\ phase' = [phase EXCEPT ![q] = "admitted"]
        /\ UNCHANGED <<now, stamp, retryAfter, deniedBy, faults>>
    BY <1>1 DEF Admit, Arrives
  <2>2. TypeOK'
    BY <2>1, ArrivalTypes DEF TypeOK, Phases
  <2>. QED
    BY <2>1, <2>2, ScriptKeeps
<1>2. ASSUME NEW q \in Requests, Refuse(q)
      PROVE  RateInv'
  <2>1. /\ phase[q] = "sent" /\ RunScript(q) /\ phase' = [phase EXCEPT ![q] = "refused"]
        /\ Denied(q) # {} /\ UNCHANGED <<now, stamp, faults>>
        /\ retryAfter' = [retryAfter EXCEPT ![q] = Wait(q, LongestWait(q))]
        /\ deniedBy' = [deniedBy EXCEPT ![q] = RejectionReason(Charges[q][LongestWait(q)].rule)]
    BY <1>2 DEF Refuse, Arrives
  <2>2. Wait(q, LongestWait(q)) \in Nat
    BY <2>1, LongestWaitIs, WaitIsEnough
  <2>3. /\ retryAfter' \in [Requests -> Nat]
        /\ deniedBy' \in [Requests -> {"none", "rate_limited", "global_rate_limited", "system_rate_limited"}]
    <3>1. retryAfter' \in [Requests -> Nat]
      BY <2>1, <2>2 DEF TypeOK
    <3>2. RejectionReason(Charges[q][LongestWait(q)].rule)
             \in {"none", "rate_limited", "global_rate_limited", "system_rate_limited"}
      BY ReasonType
    <3>3. deniedBy' \in [Requests -> {"none", "rate_limited", "global_rate_limited", "system_rate_limited"}]
      BY <2>1, <3>2 DEF TypeOK
    <3>. QED
      BY <3>1, <3>3
  <2>4. TypeOK'
    BY <2>1, <2>3, ArrivalTypes DEF TypeOK, Phases
  <2>. QED
    BY <2>1, <2>4, ScriptKeeps
<1>3. CASE UNCHANGED vars
  <2>1. TypeOK' /\ SentInTime'
    BY <1>3 DEF vars, RateInv, TypeOK, SentInTime, Capacity
  <2>2. now <= now'
    BY <1>3, LimiterAssumption DEF vars, TypeOK
  <2>. QED
    BY <1>3, <2>1, <2>2, QuietKeeps DEF vars
<1>. QED
  BY <1>1, <1>2, <1>3, TickKeeps, SendKeeps, FailureKeeps DEF Next

\* The invariant holds in every reachable state.
LEMMA RateInvCorrect == Spec => []RateInv
<1>1. Init => RateInv
  <2>. SUFFICES ASSUME Init PROVE RateInv
    OBVIOUS
  <2>1. /\ \A b \in Buckets : /\ bucket[b].tokens = 0 /\ bucket[b].updated = 0
                              /\ bucket[b].expires = 0 /\ setBack[b] = 0
        /\ \A b \in Buckets : Capacity(b) \in Nat /\ Limit[b.rule] \in Nat
        /\ 0 \in 0..MaxTime /\ faults \in 0..MaxFaults
    BY LimiterAssumption, RuleType DEF Init, NoBucket
  <2>2. TypeOK
    <3>1. \A b \in Buckets : bucket[b].tokens \in 0..Capacity(b) /\ bucket[b].updated \in 0..MaxTime
      BY <2>1
    <3>. QED
      BY <2>1, <3>1 DEF Init, TypeOK, Phases
  <2>3. SentInTime
    BY DEF Init, SentInTime
  <2>4. BucketsOK
    BY <2>1 DEF Init, BucketsOK
  <2>5. \A b \in Buckets : NothingLost(b)
    BY <2>1 DEF NothingLost
  <2>6. ASSUME NEW b \in Buckets
        PROVE  SpentOK(b) /\ KeptOK(b)
    <3>1. \A f, t : PaidBetween(b, f, t) = 0
      <4>1. \A f, t : TokensPaid(b, f, t) = {}
        BY DEF Init, TokensPaid, Payers
      <4>2. Window \in Nat
        BY LimiterAssumption
      <4>. QED
        BY <4>1, <4>2, FS_EmptySet DEF PaidBetween
    <3>2. \A n \in Nat : n * Limit[b.rule] \in Nat
      BY <2>1
    <3>3. \A f, t \in 0..MaxTime : f <= t => t - f \in Nat
      BY LimiterAssumption
    <3>4. \A f \in 0..MaxTime : Greater(0, RegainedTo(b) - f) \in Nat
      BY <2>1, LimiterAssumption DEF RegainedTo, Greater
    <3>5. SpentOK(b)
      BY <2>1, <3>1, <3>2, <3>4 DEF SpentOK
    <3>6. KeptOK(b)
      <4>. SUFFICES ASSUME NEW f \in 0..MaxTime, NEW t \in 0..MaxTime, f <= t
                    PROVE  0 <= Budget(b, f, t) + 0 * Limit[b.rule]
        BY <2>1, <3>1 DEF KeptOK
      <4>1. (t - f) * Limit[b.rule] \in Nat /\ 0 * Limit[b.rule] \in Nat
        BY <3>2, <3>3
      <4>. QED
        BY <2>1, <4>1 DEF Budget
    <3>. QED
      BY <3>5, <3>6
  <2>. QED
    BY <2>2, <2>3, <2>4, <2>5, <2>6 DEF RateInv
<1>. QED
  BY <1>1, RateInvStep, PTL DEF Spec
-------------------------------------------------------------------------------
\* Every variable has its type, and no bucket is overdrawn or holds more than its burst, however
\* the scripts of the requests interleave.
THEOREM RateTypeCorrect == Spec => []TypeOK
<1>1. RateInv => TypeOK
  BY DEF RateInv
<1>. QED
  BY <1>1, RateInvCorrect, PTL

\* In no period do the admitted requests exceed the burst and what was regained meanwhile, but for
\* the seconds that requests which overtook each other let a bucket count twice.
THEOREM LimitsAreKept == Spec => []LimitsKept
<1>1. RateInv => LimitsKept
  <2>. SUFFICES ASSUME RateInv, NEW b \in Buckets, FullBeforeExpiry(b),
                       NEW from \in 0..now, NEW to \in from..now
                PROVE  PaidBetween(b, from, to) <= Budget(b, from, to) + setBack[b] * Limit[b.rule]
    BY DEF LimitsKept
  <2>1. now \in 0..MaxTime /\ MaxTime \in Nat
    BY LimiterAssumption DEF RateInv, TypeOK
  <2>2. from \in 0..MaxTime /\ to \in 0..MaxTime /\ from <= to
    BY <2>1
  <2>. QED
    BY <2>2 DEF RateInv, KeptOK
<1>. QED
  BY <1>1, RateInvCorrect, PTL

\* Only Refuse(q) refuses q, and only Admit(q) admits it.
LEMMA AnswersComeFrom ==
    ASSUME TypeOK, NEW q \in Requests, phase[q] = "sent", [Next]_vars
    PROVE  (phase'[q] = "refused" => Refuse(q)) /\ (phase'[q] = "admitted" => Admit(q))
<1>. phase \in [Requests -> Phases]
  BY DEF TypeOK
<1>1. ASSUME NEW r \in Requests, Send(r)
      PROVE  phase'[q] \notin {"refused", "admitted"}
  BY <1>1 DEF Send
<1>2. ASSUME NEW r \in Requests, NEW ran \in BOOLEAN, RedisFails(r, ran)
      PROVE  phase'[q] \notin {"refused", "admitted"}
  BY <1>2 DEF RedisFails
<1>3. ASSUME NEW r \in Requests, Admit(r)
      PROVE  phase'[q] # "refused" /\ (phase'[q] = "admitted" => r = q)
  BY <1>3 DEF Admit
<1>4. ASSUME NEW r \in Requests, Refuse(r)
      PROVE  phase'[q] # "admitted" /\ (phase'[q] = "refused" => r = q)
  BY <1>4 DEF Refuse
<1>5. Tick \/ UNCHANGED vars => phase'[q] = "sent"
  BY DEF Tick, vars
<1>. QED
  BY <1>1, <1>2, <1>3, <1>4, <1>5 DEF Next

\* A request that is refused would exceed the budget of one of its buckets.
LEMMA RefusedOverBudget ==
    ASSUME RateInv, NEW q \in Requests, Refuse(q)
    PROVE  \E i \in DOMAIN Charges[q] : \E from \in 0..stamp[q] : \E to \in stamp[q]..now :
               LET b == BucketOf(Charges[q][i]) IN
               PaidBetween(b, from, to) + Price(Charges[q][i])
                   > Budget(b, from, to) - setBack'[b] * Limit[b.rule]
<1>. TypeOK /\ SentInTime
  BY DEF RateInv
<1>1. /\ phase[q] = "sent" /\ RunScript(q) /\ UNCHANGED <<stamp, now>>
      /\ Denied(q) # {}
  BY DEF Refuse, Arrives
<1>2. PICK i \in Denied(q) : TRUE
  BY <1>1
<1>. DEFINE c == Charges[q][i]
            b == BucketOf(c)
            level == Level(b, stamp[q])
            price == Price(c)
            y == setBack'[b] * Limit[b.rule]
<1>3. i \in DOMAIN Charges[q] /\ level < price
  BY DEF Denied, Lacks
<1>4. b \in Buckets /\ IsCharged(q, b)
  BY <1>3, ChargedBucket
<1>5. price \in Int
  BY <1>3, ChargesOf, LimiterAssumption DEF Price
<1>. HIDE DEF c, b, price
<1>6. PICK f \in 0..stamp[q], t \in stamp[q]..now : PaidBetween(b, f, t) + level >= Budget(b, f, t) - y
  BY <1>1, <1>4, LevelAccounted
<1>7. /\ stamp[q] \in 0..now /\ now \in Nat /\ level \in Nat
      /\ setBack'[b] \in Nat /\ Limit[b.rule] \in Nat /\ Capacity(b) \in Nat
  BY <1>1, <1>4, ScriptNumbers DEF TypeOK
<1>. DEFINE P == PaidBetween(b, f, t)
            m == Budget(b, f, t)
<1>8. P \in Nat
  BY <1>1, <1>4, ScriptPays
<1>9. m \in Int /\ y \in Int
  <2>1. t - f \in Int
    BY <1>7
  <2>2. (t - f) * Limit[b.rule] \in Int /\ y \in Int
    BY <1>7, <2>1, Regained
  <2>. QED
    BY <1>7, <2>2 DEF Budget
<1>10. P + price > m - y
  <2>1. \A a, k, d, n, e \in Int : k < d /\ a + k >= n - e => a + d > n - e
    OBVIOUS
  <2>2. level < price /\ P + level >= m - y /\ P \in Int /\ level \in Int
    BY <1>3, <1>6, <1>7, <1>8
  <2>. HIDE DEF P, level, m, y
  <2>. QED
    BY <1>5, <1>9, <2>1, <2>2
<1>. QED
  BY <1>3, <1>10 DEF c, b, price

\* And no stricter: a request is refused only when it would exceed one of those budgets; what was
\* refused before, or by another bucket, or answered with an error, has cost it nothing.
THEOREM RefusalsAreNeeded == Spec => RefusedOnlyOverBudget
<1>1. RateInv /\ [Next]_vars =>
        [\A q \in Requests :
            phase[q] = "sent" /\ phase'[q] = "refused" =>
            \E i \in DOMAIN Charges[q] : \E from \in 0..stamp[q] : \E to \in stamp[q]..now :
                LET b == BucketOf(Charges[q][i]) IN
                PaidBetween(b, from, to) + Price(Charges[q][i])
                    > Budget(b, from, to) - setBack'[b] * Limit[b.rule]]_vars
  <2>1. RateInv => TypeOK
    BY DEF RateInv
  <2>. QED
    BY <2>1, AnswersComeFrom, RefusedOverBudget
<1>. QED
  BY <1>1, RateInvCorrect, PTL DEF Spec, RefusedOnlyOverBudget

\* When a refused request has waited as it was told, each of its buckets that can pay has the price.
LEMMA WaitingHelps ==
    ASSUME RateInv, NEW q \in Requests, Refuse(q), NEW i \in DOMAIN Charges[q],
           Charges[q][i].cost <= Burst[Charges[q][i].rule]
    PROVE  LET c == Charges[q][i]
               b == BucketOf(c)
           IN  Refill(b, bucket'[b].tokens, stamp[q] + retryAfter'[q] - bucket'[b].updated) >= Price(c)
<1>. TypeOK /\ SentInTime
  BY DEF RateInv
<1>. DEFINE c == Charges[q][i]
            b == BucketOf(c)
            level == Level(b, stamp[q])
            price == Price(c)
            l == Limit[b.rule]
            cap == Capacity(b)
            w == Wait(q, LongestWait(q))
<1>1. /\ phase[q] = "sent" /\ RunScript(q) /\ UNCHANGED <<stamp, now>>
      /\ Denied(q) # {} /\ retryAfter' = [retryAfter EXCEPT ![q] = w]
  BY DEF Refuse, Arrives
<1>2. b \in Buckets /\ IsCharged(q, b) /\ b.rule = c.rule
  BY ChargedBucket DEF BucketOf
<1>3. price \in Nat /\ price <= cap
  <2>1. c.cost \in Nat /\ Window \in Nat /\ Burst[b.rule] \in Nat /\ c.cost <= Burst[b.rule]
    BY <1>2, ChargesOf, LimiterAssumption, RuleType
  <2>2. \A m, n, k \in Nat : m <= n => m * k <= n * k /\ m * k \in Nat
    OBVIOUS
  <2>. QED
    BY <2>1, <2>2 DEF Price, Capacity
<1>4. /\ stamp[q] \in Nat /\ level \in Nat /\ level <= cap /\ cap \in Nat /\ l \in Nat
      /\ bucket'[b].tokens = level - Payment(q, b) /\ bucket'[b].updated = stamp[q]
  BY <1>1, <1>2, ScriptNumbers
<1>5. Payment(q, b) = 0
  BY <1>1 DEF Payment
<1>6. w \in Nat /\ retryAfter'[q] = w
  BY <1>1, LongestWaitIs, WaitIsEnough DEF TypeOK
<1>. HIDE DEF w
<1>7. stamp[q] + retryAfter'[q] - bucket'[b].updated = w /\ bucket'[b].tokens = level
  BY <1>4, <1>5, <1>6
<1>8. w * l \in Nat
  BY <1>4, <1>6
<1>9. level + w * l >= price
  <2>1. CASE i \notin Denied(q)
    <3>1. ~(level < price)
      BY <2>1 DEF Denied, Lacks
    <3>. HIDE DEF level, price, l
    <3>. QED
      BY <1>3, <1>4, <1>8, <3>1
  <2>2. CASE i \in Denied(q)
    <3>1. Wait(q, i) \in Nat /\ level + Wait(q, i) * l >= price /\ Wait(q, i) <= w
      BY <1>1, <1>2, <2>2, LongestWaitIs, WaitIsEnough DEF w
    <3>2. Wait(q, i) * l <= w * l /\ Wait(q, i) * l \in Int
      BY <1>4, <1>6, <3>1, Regained
    <3>. DEFINE x == Wait(q, i) * l
                y == w * l
    <3>. HIDE DEF level, price, x, y
    <3>3. level + y >= price
      BY <1>3, <1>4, <1>8, <3>1, <3>2 DEF x, y
    <3>. QED
      BY <3>3 DEF y
  <2>. QED
    BY <2>1, <2>2
<1>10. Greater(0, w) = w
  BY <1>6 DEF Greater
<1>11. Lesser(cap, level + w * l) >= price
  <2>. DEFINE y == w * l
  <2>. HIDE DEF cap, level, price, y
  <2>1. Lesser(cap, level + y) >= price
    BY <1>3, <1>4, <1>8, <1>9 DEF Lesser, y
  <2>. QED
    BY <2>1 DEF y
<1>12. Refill(b, level, w) = Lesser(cap, level + w * l)
  BY <1>10 DEF Refill
<1>. QED
  BY <1>7, <1>11, <1>12

\* Retry-After is long enough for every bucket that could ever pay.
THEOREM RetryAfterSuffices == Spec => RetryAfterIsEnough
<1>1. RateInv /\ [Next]_vars =>
        [\A q \in Requests :
            phase[q] = "sent" /\ phase'[q] = "refused" =>
            \A i \in DOMAIN Charges[q] :
                LET c == Charges[q][i]
                    b == BucketOf(c)
                IN  c.cost <= Burst[c.rule] =>
                    Refill(b, bucket'[b].tokens, stamp[q] + retryAfter'[q] - bucket'[b].updated) >= Price(c)]_vars
  <2>1. RateInv => TypeOK
    BY DEF RateInv
  <2>. QED
    BY <2>1, AnswersComeFrom, WaitingHelps
<1>. QED
  BY <1>1, RateInvCorrect, PTL DEF Spec, RetryAfterIsEnough

-------------------------------------------------------------------------------
\* A single message of one of the priorities, in the name of who sent a batch.
OneOf(req, n, e) ==
    [endpoint |-> "single", user |-> req.user, client |-> req.client, normal |-> n, express |-> e]

\* The charges of C ask for m tokens of b: by one of them, or there is none.
AsksFor(C, b, m) ==
    IF m = 0 THEN \A c \in C : BucketOf(c) # b ELSE \E c \in C : BucketOf(c) = b /\ c.cost = m

\* What a batch owes a message bucket, and what a single message of each priority owes it.
LEMMA BatchOwes ==
    ASSUME NEW req, req.normal \in Nat, req.express \in Nat,
           NEW b, b = [rule |-> b.rule, identity |-> b.identity], b.rule \in MessageRules
    PROVE  Paid(BatchLimits(req), b) = req.normal * Paid(SingleLimits(OneOf(req, 1, 0)), b)
                                       + req.express * Paid(SingleLimits(OneOf(req, 0, 1)), b)
<1>. DEFINE i == Identity(req)
            n == req.normal
            e == req.express
            N == PartCharges("normal", i, 1) \cup SystemCharges(1) \cup {RequestCharge}
            E == PartCharges("express", i, 1) \cup SystemCharges(1) \cup {RequestCharge}
            A == BatchCharges(req)
            pn == Paid(SingleLimits(OneOf(req, 1, 0)), b)
            pe == Paid(SingleLimits(OneOf(req, 0, 1)), b)
            pb == Paid(BatchLimits(req), b)
<1>. SUFFICES pb = n * pn + e * pe
  OBVIOUS
<1>1. /\ Identity(OneOf(req, 1, 0)) = i /\ Identity(OneOf(req, 0, 1)) = i
      /\ OneOf(req, 1, 0).express = 0 /\ OneOf(req, 0, 1).express = 1
  BY DEF Identity, OneOf
<1>2. SingleCharges(OneOf(req, 1, 0)) = N /\ SingleCharges(OneOf(req, 0, 1)) = E
  BY <1>1 DEF SingleCharges
<1>3. /\ Enumerates(SingleLimits(OneOf(req, 1, 0)), N) /\ Enumerates(SingleLimits(OneOf(req, 0, 1)), E)
      /\ Enumerates(BatchLimits(req), A)
  BY <1>2, SingleEnumerated, BatchEnumerated
<1>. HIDE DEF N, E, A
<1>4. \A x, y, m \in Nat :
          AsksFor(N, b, x) /\ AsksFor(E, b, y) /\ AsksFor(A, b, m) => pn = x /\ pe = y /\ pb = m
  BY <1>3, PaidOf DEF AsksFor
<1>5. \A c : BucketOf(c) = b <=> c.rule = b.rule /\ c.identity = b.identity
  BY DEF BucketOf
<1>6. n \in Nat /\ e \in Nat /\ n + e \in Nat 
      /\ n * 1 + e * 0 = n /\ n * 0 + e * 1 = e /\ n * 1 + e * 1 = n + e /\ n * 0 + e * 0 = 0
  OBVIOUS
<1>. DEFINE c(m) == Charge(b.rule, b.identity, m)
<1>7. \A m : BucketOf(c(m)) = b /\ c(m).cost = m
  BY <1>5 DEF Charge
<1>8. CASE \/ b.rule = "messages:normal" /\ b.identity = i
           \/ b.rule = "global:messages:normal" /\ b.identity = "global"
  <2>1. c(1) \in N /\ \A d \in E : BucketOf(d) # b
    BY <1>5, <1>8 DEF N, E, PartCharges, SystemCharges, RequestCharge, Charge
  <2>2. n # 0 => c(n) \in A
    BY <1>8 DEF A, BatchCharges, PartCharges, SystemCharges, RequestCharge, Charge
  <2>3. n = 0 => \A d \in A : BucketOf(d) # b
    BY <1>5, <1>8 DEF A, BatchCharges, PartCharges, SystemCharges, RequestCharge, Charge
  <2>4. AsksFor(N, b, 1) /\ AsksFor(E, b, 0) /\ AsksFor(A, b, n)
    BY <1>7, <2>1, <2>2, <2>3 DEF AsksFor
  <2>. HIDE DEF n, e, pn, pe, pb
  <2>. QED
    BY <1>4, <1>6, <2>4
<1>9. CASE \/ b.rule = "messages:express" /\ b.identity = i
           \/ b.rule = "global:messages:express" /\ b.identity = "global"
  <2>1. c(1) \in E /\ \A d \in N : BucketOf(d) # b
    BY <1>5, <1>9 DEF N, E, PartCharges, SystemCharges, RequestCharge, Charge
  <2>2. e # 0 => c(e) \in A
    BY <1>9 DEF A, BatchCharges, PartCharges, SystemCharges, RequestCharge, Charge
  <2>3. e = 0 => \A d \in A : BucketOf(d) # b
    BY <1>5, <1>9 DEF A, BatchCharges, PartCharges, SystemCharges, RequestCharge, Charge
  <2>4. AsksFor(E, b, 1) /\ AsksFor(N, b, 0) /\ AsksFor(A, b, e)
    BY <1>7, <2>1, <2>2, <2>3 DEF AsksFor
  <2>. HIDE DEF n, e, pn, pe, pb
  <2>. QED
    BY <1>4, <1>6, <2>4
<1>10. CASE b.rule = "system:messages" /\ b.identity = "system"
  <2>. DEFINE k == n + e
  <2>1. c(1) \in N /\ c(1) \in E
    BY <1>10 DEF N, E, PartCharges, SystemCharges, RequestCharge, Charge
  <2>2. k # 0 => c(k) \in A
    BY <1>10 DEF A, BatchCharges, PartCharges, SystemCharges, RequestCharge, Charge
  <2>3. k = 0 => \A d \in A : BucketOf(d) # b
    BY <1>5, <1>10 DEF A, BatchCharges, PartCharges, SystemCharges, RequestCharge, Charge
  <2>. HIDE DEF k
  <2>4. AsksFor(N, b, 1) /\ AsksFor(E, b, 1) /\ AsksFor(A, b, k)
    BY <1>7, <2>1, <2>2, <2>3 DEF AsksFor
  <2>5. k \in Nat /\ k = n * 1 + e * 1
    BY <1>6 DEF k
  <2>. HIDE DEF n, e, pn, pe, pb
  <2>. QED
    BY <1>4, <2>4, <2>5
<1>11. CASE /\ ~(b.rule \in {"messages:normal", "messages:express"} /\ b.identity = i)
            /\ ~(b.rule \in {"global:messages:normal", "global:messages:express"} /\ b.identity = "global")
            /\ ~(b.rule = "system:messages" /\ b.identity = "system")
  <2>1. \A d \in N \cup E : BucketOf(d) # b
    BY <1>5, <1>11 DEF MessageRules, N, E, PartCharges, SystemCharges, RequestCharge, Charge
  <2>2. \A d \in A : BucketOf(d) # b
    BY <1>5, <1>11 DEF MessageRules, A, BatchCharges, PartCharges, SystemCharges, RequestCharge, Charge
  <2>3. AsksFor(N, b, 0) /\ AsksFor(E, b, 0) /\ AsksFor(A, b, 0)
    BY <2>1, <2>2 DEF AsksFor
  <2>. HIDE DEF n, e, pn, pe, pb
  <2>. QED
    BY <1>4, <1>6, <2>3
<1>. QED
  BY <1>8, <1>9, <1>10, <1>11 DEF MessageRules

\* What there is for q in a bucket, before its script and after it has been admitted.
LEMMA AdmittedPays ==
    ASSUME RateInv, NEW q \in Requests, Admit(q), NEW b \in Buckets
    PROVE  Level(b, stamp[q])' = Level(b, stamp[q]) - Window * Paid(Charges[q], b)
<1>. TypeOK /\ SentInTime
  BY DEF RateInv
<1>. DEFINE level == Level(b, stamp[q])
            tokens == bucket'[b].tokens
<1>1. phase[q] = "sent" /\ RunScript(q) /\ UNCHANGED <<stamp, now>> /\ Denied(q) = {}
  BY DEF Admit, Arrives
<1>2. Level(b, stamp[q])' = IF now < bucket'[b].expires
                            THEN Refill(b, tokens, stamp[q] - bucket'[b].updated) ELSE Capacity(b)
  BY <1>1 DEF Level, Refill, Capacity
<1>3. Window * Paid(Charges[q], b) = Payment(q, b)
  <2>1. Paid(Charges[q], b) = CostTo(q, b)
    BY TokensCounted DEF Paid
  <2>2. CostTo(q, b) \in Nat /\ Window \in Nat
    BY CostToType, LimiterAssumption
  <2>3. \A m, n \in Nat : m * n = n * m
    OBVIOUS
  <2>. QED
    BY <1>1, <2>1, <2>2, <2>3 DEF Payment
<1>4. CASE IsCharged(q, b)
  <2>1. now < bucket'[b].expires
    <3>1. bucket'[b].expires = now + Ttl /\ now \in Nat /\ Ttl \in Nat \ {0}
      BY <1>1, <1>4, ScriptOnBucket, RuleType, LimiterAssumption DEF TypeOK
    <3>. QED
      BY <3>1
  <2>2. /\ level \in Nat /\ level <= Capacity(b) /\ Capacity(b) \in Nat /\ Limit[b.rule] \in Nat
        /\ Payment(q, b) \in Nat /\ Payment(q, b) <= level /\ tokens = level - Payment(q, b)
        /\ stamp[q] \in Nat /\ bucket'[b].updated = stamp[q]
    BY <1>1, <1>4, ScriptNumbers
  <2>3. tokens \in 0..Capacity(b) /\ stamp[q] - bucket'[b].updated = 0
    <3>. HIDE DEF level
    <3>. QED
      BY <2>2
  <2>4. Refill(b, tokens, 0) = tokens
    <3>1. Greater(0, 0) = 0 /\ 0 * Limit[b.rule] = 0
      BY <2>2 DEF Greater
    <3>. HIDE DEF tokens
    <3>. QED
      BY <2>2, <2>3, <3>1 DEF Refill, Lesser
  <2>. QED
    BY <1>2, <1>3, <2>1, <2>2, <2>3, <2>4
<1>5. CASE ~IsCharged(q, b)
  <2>1. Payment(q, b) = 0 /\ bucket'[b] = bucket[b] /\ level \in Nat
    BY <1>1, <1>5, TakenIsThere, ScriptOnBucket, LevelIs, RuleType
  <2>2. Level(b, stamp[q])' = level
    BY <1>2, <2>1 DEF Level
  <2>. HIDE DEF level
  <2>. QED
    BY <1>3, <2>1, <2>2 DEF level
<1>. QED
  BY <1>4, <1>5

\* A batch pays like its messages sent one by one, from every message bucket.
THEOREM BatchesPayPerMessage == Spec => BatchPaysPerMessage
<1>1. RateInv /\ [Next]_vars =>
        [\A q \in Requests :
            /\ RequestOf[q].endpoint = "batch"
            /\ phase[q] = "sent" /\ phase'[q] = "admitted"
            => LET req == RequestOf[q]
                   one(n, e) == SingleLimits([endpoint |-> "single", user |-> req.user, client |-> req.client,
                                              normal |-> n, express |-> e])
               IN  \A b \in {b1 \in Buckets : b1.rule \in MessageRules} :
                       Level(b, stamp[q])' = Level(b, stamp[q])
                           - Window * (req.normal * Paid(one(1, 0), b) + req.express * Paid(one(0, 1), b))]_vars
  <2>. SUFFICES ASSUME RateInv, [Next]_vars, NEW q \in Requests, RequestOf[q].endpoint = "batch",
                       phase[q] = "sent", phase'[q] = "admitted",
                       NEW b \in Buckets, b.rule \in MessageRules
                PROVE  Level(b, stamp[q])' = Level(b, stamp[q])
                           - Window * (RequestOf[q].normal
                                         * Paid(SingleLimits(OneOf(RequestOf[q], 1, 0)), b)
                                       + RequestOf[q].express
                                         * Paid(SingleLimits(OneOf(RequestOf[q], 0, 1)), b))
    BY DEF OneOf
  <2>1. Admit(q)
    BY AnswersComeFrom DEF RateInv
  <2>2. b = [rule |-> b.rule, identity |-> b.identity]
    BY DEF Buckets, BucketOf
  <2>3. Charges[q] = BatchLimits(RequestOf[q])
    BY DEF Charges, ResolveLimits
  <2>4. RequestOf[q].normal \in Nat /\ RequestOf[q].express \in Nat
    BY LimiterAssumption
  <2>. QED
    BY <2>1, <2>2, <2>3, <2>4, AdmittedPays, BatchOwes
<1>. QED
  BY <1>1, RateInvCorrect, PTL DEF Spec, BatchPaysPerMessage
===============================================================================
