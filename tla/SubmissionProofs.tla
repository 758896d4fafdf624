--------------------------- MODULE SubmissionProofs ----------------------------
(* What holds of Submission for every set of requests, keys and items, every    *)
(* price and every bound.                                                       *)
EXTENDS Submission, Counting, FiniteSetTheorems, TLAPS

-------------------------------------------------------------------------------
\* Where the transaction of each request is: how much it has inserted, whether it holds the
\* balance row, and that what it read there is still true.
InOrder(q) ==
    /\ pc[q] \in {"idle", "replay"} => inserted[q] = 0
    /\ pc[q] = "insert" => inserted[q] < Len(Items[q])
    /\ pc[q] \in {"reserve", "commit"} => inserted[q] = Len(Items[q])
    /\ pc[q] # "idle" => answer[q] = "none" /\ tries[q] > 0 /\ ~MustRefuse(q)
    /\ pc[q] = "replay" => q \notin Batches /\ Committed(Items[q][1].key)
    /\ holder = q <=> pc[q] = "commit"
    /\ pc[q] = "commit" => userExists /\ read[q] = reserved

ProgressOK == \A q \in Requests : InOrder(q)

\* The unique index: a key is inserted by one open transaction, or there is a row with it.
KeysExclude ==
    \A k \in Keys : \A q \in Requests :
        HasInserted(q, k) => ~Committed(k) /\ \A p \in Requests : HasInserted(p, k) => p = q

\* The rows and their sum.
RowsOK == IsFiniteSet(messages) /\ OneMessagePerKey /\ ReservationsAddUp

SubmissionInv == TypeOK /\ ProgressOK /\ KeysExclude /\ RowsOK

-------------------------------------------------------------------------------
\* Every request has at least one message, and each of them is one.
LEMMA ItemTypes ==
    ASSUME NEW q \in Requests
    PROVE  /\ Len(Items[q]) \in Nat \ {0}
           /\ DOMAIN Items[q] = 1..Len(Items[q])
           /\ \A i \in 1..Len(Items[q]) : Items[q][i] \in Item
           /\ q \notin Batches => Len(Items[q]) = 1
BY RequestAssumption

\* A settled or refunded message is the message it was, but for its payment.
LEMMA OutcomeRows ==
    ASSUME TypeOK, NEW row \in messages, NEW p \in {"DEDUCTED", "REFUNDED"}, Outcome(row, p)
    PROVE  /\ messages' = (messages \ {row}) \cup {[row EXCEPT !.payment = p]}
           /\ [row EXCEPT !.payment = p] =
                [key |-> row.key, express |-> row.express, payment |-> p, by |-> row.by, try |-> row.try]
           /\ \A k : Committed(k) <=> Committed(k)'
<1>. DEFINE new == [row EXCEPT !.payment = p]
<1>1. messages' = (messages \ {row}) \cup {new}
  BY DEF Outcome
<1>2. new = [key |-> row.key, express |-> row.express, payment |-> p, by |-> row.by, try |-> row.try]
  BY DEF TypeOK
<1>3. new.key = row.key
  BY <1>2
<1>. HIDE DEF new
<1>4. \A k : (\E r \in messages : r.key = k) <=> (\E r \in messages' : r.key = k)
  BY <1>1, <1>3
<1>. QED
  BY <1>1, <1>2, <1>4 DEF new, Committed

\* A single request that is still to insert its row has inserted none.
LEMMA SingleAtStart ==
    ASSUME TypeOK, ProgressOK, NEW q \in Requests \ Batches, pc[q] = "insert"
    PROVE  inserted[q] = 0
<1>1. inserted[q] \in Nat /\ inserted[q] < Len(Items[q])
  BY DEF TypeOK, ProgressOK, InOrder
<1>2. Len(Items[q]) = 1
  BY ItemTypes
<1>. QED
  BY <1>1, <1>2

\* A step of request q leaves the order of another request r alone: what r has read stays true while
\* r holds the lock, and rows stay.
LEMMA OthersInOrder ==
    ASSUME NEW r \in Requests, InOrder(r),
           pc'[r] = pc[r], inserted'[r] = inserted[r], answer'[r] = answer[r], tries'[r] = tries[r],
           read'[r] = read[r], holder' = r <=> holder = r,
           Committed(Items[r][1].key) => Committed(Items[r][1].key)',
           holder = r => UNCHANGED <<userExists, reserved>>
    PROVE  InOrder(r)'
BY DEF InOrder

\* A transaction that has ended holds nothing.
LEMMA EndedInOrder ==
    ASSUME TypeOK, NEW q \in Requests, InOrder(q), EndTransaction(q, "idle")
    PROVE  InOrder(q)'
BY SubmissionAssumption DEF TypeOK, InOrder, EndTransaction

\* One step keeps every request's transaction in order.
LEMMA ProgressStep == TypeOK /\ ProgressOK /\ [Next]_vars => ProgressOK'
<1>. SUFFICES ASSUME TypeOK, ProgressOK, [Next]_vars, NEW r \in Requests PROVE InOrder(r)'
  BY DEF ProgressOK
<1>. InOrder(r)
  BY DEF ProgressOK
<1>. /\ pc \in [Requests -> Steps] /\ inserted \in [Requests -> Nat] /\ read \in [Requests -> Nat]
     /\ tries \in [Requests -> Nat] /\ answer \in [Requests -> Answers]
  BY DEF TypeOK
<1>. USE DEF balanceVars, Answer
<1>1. ASSUME NEW q \in Requests, SendRequest(q)
      PROVE  InOrder(r)'
  <2>1. CASE r = q
    <3>1. /\ pc[q] = "idle" /\ tries[q] \in Nat /\ tries'[q] = tries[q] + 1
          /\ inserted' = inserted /\ holder' = holder
      BY <1>1 DEF SendRequest, WantsToSend
    <3>2. CASE MustRefuse(q)
      BY <1>1, <2>1, <3>1, <3>2 DEF SendRequest, InOrder
    <3>3. CASE ~MustRefuse(q)
      <4>1. pc'[q] = "insert" /\ answer'[q] = "none" /\ tries'[q] > 0
        BY <1>1, <3>1, <3>3 DEF SendRequest
      <4>2. inserted'[q] < Len(Items[q]) /\ holder' # q
        BY <2>1, <3>1, ItemTypes DEF InOrder
      <4>. QED
        BY <2>1, <3>3, <4>1, <4>2 DEF InOrder, MustRefuse, HasDuplicates, KeysOf
    <3>. QED
      BY <3>2, <3>3
  <2>2. CASE r # q
    BY <1>1, <2>2, OthersInOrder DEF SendRequest, Committed
  <2>. QED
    BY <2>1, <2>2
<1>2. ASSUME NEW q \in Requests, InsertMessage(q)
      PROVE  InOrder(r)'
  <2>1. CASE r = q
    <3>1. inserted[q] \in Nat /\ inserted[q] < Len(Items[q]) /\ Len(Items[q]) \in Nat
      BY <1>2, <2>1, ItemTypes DEF InsertMessage, InOrder
    <3>. QED
      BY <1>2, <2>1, <3>1 DEF InsertMessage, LastRow, InOrder
  <2>2. CASE r # q
    BY <1>2, <2>2, OthersInOrder DEF InsertMessage, Committed
  <2>. QED
    BY <2>1, <2>2
<1>3. ASSUME NEW q \in Requests, UniqueViolation(q)
      PROVE  InOrder(r)'
  <2>1. CASE r = q /\ q \in Batches
    BY <1>3, <2>1, EndedInOrder DEF UniqueViolation
  <2>2. CASE r = q /\ q \notin Batches
    <3>1. inserted[q] = 0
      BY <1>3, <2>2, SingleAtStart DEF UniqueViolation
    <3>2. Committed(Items[q][1].key) /\ Committed(Items[q][1].key)'
      BY <1>3, <3>1 DEF UniqueViolation, KeyIsTaken, NextKey, Committed
    <3>3. /\ pc'[q] = "replay" /\ inserted'[q] = 0 /\ answer'[q] = "none"
          /\ tries'[q] = tries[q] /\ holder' # q /\ pc[q] = "insert"
      BY <1>3, <2>2, SubmissionAssumption DEF UniqueViolation, EndTransaction
    <3>. QED
      BY <2>2, <3>2, <3>3 DEF InOrder
  <2>3. CASE r # q
    BY <1>3, <2>3, OthersInOrder, SubmissionAssumption DEF UniqueViolation, EndTransaction, Committed
  <2>. QED
    BY <2>1, <2>2, <2>3
<1>4. ASSUME NEW q \in Requests, Replay(q)
      PROVE  InOrder(r)'
  <2>1. CASE r = q
    BY <1>4, <2>1, EndedInOrder DEF Replay
  <2>2. CASE r # q
    BY <1>4, <2>2, OthersInOrder, SubmissionAssumption DEF Replay, EndTransaction, Committed
  <2>. QED
    BY <2>1, <2>2
<1>5. ASSUME NEW q \in Requests, ForeignKeyViolation(q)
      PROVE  InOrder(r)'
  <2>1. CASE r = q
    BY <1>5, <2>1, EndedInOrder DEF ForeignKeyViolation
  <2>2. CASE r # q
    BY <1>5, <2>2, OthersInOrder, SubmissionAssumption DEF ForeignKeyViolation, EndTransaction, Committed
  <2>. QED
    BY <2>1, <2>2
<1>6. ASSUME NEW q \in Requests, CheckViolation(q)
      PROVE  InOrder(r)'
  <2>1. CASE r = q
    BY <1>6, <2>1, EndedInOrder DEF CheckViolation
  <2>2. CASE r # q
    BY <1>6, <2>2, OthersInOrder, SubmissionAssumption DEF CheckViolation, EndTransaction, Committed
  <2>. QED
    BY <2>1, <2>2
<1>7. ASSUME NEW q \in Requests, DeadlockAbort(q)
      PROVE  InOrder(r)'
  <2>1. CASE r = q
    BY <1>7, <2>1, EndedInOrder DEF DeadlockAbort
  <2>2. CASE r # q
    BY <1>7, <2>2, OthersInOrder, SubmissionAssumption DEF DeadlockAbort, EndTransaction, Committed
  <2>. QED
    BY <2>1, <2>2
<1>8. ASSUME NEW q \in Requests, ApiCrash(q)
      PROVE  InOrder(r)'
  <2>1. CASE r = q
    BY <1>8, <2>1, EndedInOrder DEF ApiCrash
  <2>2. CASE r # q
    BY <1>8, <2>2, OthersInOrder, SubmissionAssumption DEF ApiCrash, EndTransaction, Committed
  <2>. QED
    BY <2>1, <2>2
<1>9. ASSUME NEW q \in Requests, LockBalance(q)
      PROVE  InOrder(r)'
  <2>1. CASE r = q
    BY <1>9, <2>1 DEF LockBalance, InOrder
  <2>2. CASE r # q
    BY <1>9, <2>2, OthersInOrder, SubmissionAssumption DEF LockBalance, BalanceIsFree, Committed
  <2>. QED
    BY <2>1, <2>2
<1>10. ASSUME NEW q \in Requests, Commit(q)
      PROVE  InOrder(r)'
  <2>1. CASE r = q
    BY <1>10, <2>1, EndedInOrder DEF Commit
  <2>2. CASE r # q
    <3>1. holder = q
      BY <1>10 DEF Commit, ProgressOK, InOrder
    <3>2. Committed(Items[r][1].key) => Committed(Items[r][1].key)'
      BY <1>10 DEF Commit, Committed
    <3>. QED
      BY <1>10, <2>2, <3>1, <3>2, OthersInOrder, SubmissionAssumption DEF Commit, EndTransaction
  <2>. QED
    BY <2>1, <2>2
<1>11. ASSUME NEW q \in Requests, LoseAnswer(q)
      PROVE  InOrder(r)'
  <2>1. CASE r = q
    BY <1>11, <2>1 DEF LoseAnswer, InOrder
  <2>2. CASE r # q
    BY <1>11, <2>2, OthersInOrder DEF LoseAnswer, Committed
  <2>. QED
    BY <2>1, <2>2
<1>12. CASE CreateUser
  BY <1>12 DEF CreateUser, InOrder, Committed
<1>13. CASE TopUp
  BY <1>13, OthersInOrder DEF TopUp, Committed
<1>14. ASSUME NEW row \in messages, NEW p \in {"DEDUCTED", "REFUNDED"}, Outcome(row, p)
      PROVE  InOrder(r)'
  <2>1. Committed(Items[r][1].key) => Committed(Items[r][1].key)'
    BY <1>14, OutcomeRows
  <2>2. holder # r
    BY <1>14, SubmissionAssumption DEF Outcome, BalanceIsFree
  <2>. QED
    BY <1>14, <2>1, <2>2, OthersInOrder DEF Outcome
<1>15. CASE UNCHANGED vars
  BY <1>15, OthersInOrder DEF vars, Committed
<1>. HIDE DEF balanceVars, Answer
<1>. QED
  BY <1>1, <1>2, <1>3, <1>4, <1>5, <1>6, <1>7, <1>8, <1>9, <1>10, <1>11, <1>12, <1>13, <1>14,
     <1>15
  DEF Next, RequestStep

\* Who inserts nothing and commits nothing takes no key from anybody.
LEMMA KeysKept ==
    ASSUME KeysExclude, \A q \in Requests : inserted'[q] \in {0, inserted[q]},
           \A k \in Keys : Committed(k)' => Committed(k)
    PROVE  KeysExclude'
<1>1. \A q \in Requests, k \in Keys : HasInserted(q, k)' => HasInserted(q, k)
  BY DEF HasInserted
<1>. QED
  BY <1>1 DEF KeysExclude

\* A request that inserts its next row takes a key that nobody else has.
LEMMA InsertTakesFreeKey ==
    ASSUME TypeOK, ProgressOK, KeysExclude, NEW q \in Requests, InsertMessage(q)
    PROVE  KeysExclude'
<1>1. /\ inserted[q] \in Nat
      /\ inserted' = [inserted EXCEPT ![q] = inserted[q] + 1]
      /\ \A k : Committed(k)' <=> Committed(k)
  BY DEF InsertMessage, TypeOK, Committed
<1>2. \A k : HasInserted(q, k)' => HasInserted(q, k) \/ k = NextKey(q)
  <2>. SUFFICES ASSUME NEW k, HasInserted(q, k)'
                PROVE  HasInserted(q, k) \/ k = NextKey(q)
    OBVIOUS
  <2>1. inserted'[q] = inserted[q] + 1
    BY <1>1 DEF TypeOK
  <2>2. PICK i \in 1..(inserted[q] + 1) : Items[q][i].key = k
    BY <2>1 DEF HasInserted
  <2>3. CASE i = inserted[q] + 1
    BY <2>2, <2>3 DEF NextKey
  <2>4. CASE i # inserted[q] + 1
    BY <1>1, <2>2, <2>4 DEF HasInserted
  <2>. QED
    BY <2>3, <2>4
<1>3. \A p \in Requests \ {q} : \A k : HasInserted(p, k)' => HasInserted(p, k)
  BY <1>1 DEF HasInserted, TypeOK
<1>4. ~Committed(NextKey(q)) /\ \A p \in Requests \ {q} : ~HasInserted(p, NextKey(q))
  BY DEF InsertMessage, KeyIsFree, WaitsFor
<1>. HIDE DEF HasInserted, Committed, NextKey
<1>. QED
  BY <1>1, <1>2, <1>3, <1>4 DEF KeysExclude

\* A commit makes rows of the keys its transaction had.
LEMMA CommittedKeys ==
    ASSUME TypeOK, ProgressOK, NEW q \in Requests, Commit(q)
    PROVE  /\ \A k : HasInserted(q, k) <=> k \in KeysOf(q)
           /\ \A k : Committed(k)' <=> Committed(k) \/ k \in KeysOf(q)
           /\ \A k : ~HasInserted(q, k)'
           /\ \A p \in Requests \ {q} : \A k : HasInserted(p, k)' <=> HasInserted(p, k)
<1>1. inserted[q] = Len(Items[q]) /\ messages' = messages \cup Rows(q)
  BY DEF Commit, ProgressOK, InOrder
<1>2. \A k : HasInserted(q, k) <=> k \in KeysOf(q)
  BY <1>1, ItemTypes DEF HasInserted, KeysOf
<1>3. \A k : (\E row \in Rows(q) : row.key = k) <=> k \in KeysOf(q)
  <2>. DEFINE Row(i) == [key |-> Items[q][i].key, express |-> Items[q][i].express,
                         payment |-> "RESERVED", by |-> q, try |-> tries[q]]
  <2>1. Rows(q) = {Row(i) : i \in DOMAIN Items[q]}
    BY DEF Rows
  <2>2. \A i : Row(i).key = Items[q][i].key
    OBVIOUS
  <2>. HIDE DEF Row
  <2>. QED
    BY <2>1, <2>2 DEF KeysOf
<1>4. \A k : Committed(k)' <=> Committed(k) \/ k \in KeysOf(q)
  <2>. HIDE DEF Rows
  <2>. QED
    BY <1>1, <1>3 DEF Committed
<1>5. inserted' = [inserted EXCEPT ![q] = 0]
  BY DEF Commit, EndTransaction
<1>6. \A k : ~HasInserted(q, k)'
  BY <1>5 DEF HasInserted, TypeOK
<1>7. \A p \in Requests \ {q} : \A k : HasInserted(p, k)' <=> HasInserted(p, k)
  BY <1>5 DEF HasInserted, TypeOK
<1>. QED
  BY <1>2, <1>4, <1>6, <1>7

\* One step lets two transactions never have the same key, nor one that is taken.
LEMMA KeysStep == TypeOK /\ ProgressOK /\ KeysExclude /\ [Next]_vars => KeysExclude'
<1>. SUFFICES ASSUME TypeOK, ProgressOK, KeysExclude, [Next]_vars PROVE KeysExclude'
  OBVIOUS
<1>. USE DEF EndTransaction
<1>1. ASSUME NEW q \in Requests, SendRequest(q)
      PROVE  KeysExclude'
  BY <1>1, KeysKept DEF SendRequest, Committed
<1>2. ASSUME NEW q \in Requests, InsertMessage(q)
      PROVE  KeysExclude'
  BY <1>2, InsertTakesFreeKey
<1>3. ASSUME NEW q \in Requests, UniqueViolation(q)
      PROVE  KeysExclude'
  BY <1>3, KeysKept DEF UniqueViolation, Committed
<1>4. ASSUME NEW q \in Requests, Replay(q)
      PROVE  KeysExclude'
  BY <1>4, KeysKept DEF Replay, Committed
<1>5. ASSUME NEW q \in Requests, ForeignKeyViolation(q)
      PROVE  KeysExclude'
  BY <1>5, KeysKept DEF ForeignKeyViolation, Committed
<1>6. ASSUME NEW q \in Requests, LockBalance(q)
      PROVE  KeysExclude'
  BY <1>6, KeysKept DEF LockBalance, Committed
<1>7. ASSUME NEW q \in Requests, Commit(q)
      PROVE  KeysExclude'
  <2>. HIDE DEF TypeOK
  <2>. QED
    BY <1>7, CommittedKeys DEF KeysExclude
<1>8. ASSUME NEW q \in Requests, CheckViolation(q)
      PROVE  KeysExclude'
  BY <1>8, KeysKept DEF CheckViolation, Committed
<1>9. ASSUME NEW q \in Requests, DeadlockAbort(q)
      PROVE  KeysExclude'
  BY <1>9, KeysKept DEF DeadlockAbort, Committed
<1>10. ASSUME NEW q \in Requests, ApiCrash(q)
      PROVE  KeysExclude'
  BY <1>10, KeysKept DEF ApiCrash, Committed
<1>11. ASSUME NEW q \in Requests, LoseAnswer(q)
      PROVE  KeysExclude'
  BY <1>11, KeysKept DEF LoseAnswer, Committed
<1>12. CASE CreateUser
  BY <1>12, KeysKept DEF CreateUser, Committed
<1>13. CASE TopUp
  BY <1>13, KeysKept DEF TopUp, Committed
<1>14. ASSUME NEW row \in messages, NEW p \in {"DEDUCTED", "REFUNDED"}, Outcome(row, p)
      PROVE  KeysExclude'
  <2>1. \A k : Committed(k)' => Committed(k)
    BY <1>14, OutcomeRows
  <2>2. inserted' = inserted
    BY <1>14 DEF Outcome
  <2>. QED
    BY <2>1, <2>2, KeysKept
<1>15. CASE UNCHANGED vars
  BY <1>15, KeysKept DEF vars, Committed
<1>. HIDE DEF EndTransaction
<1>. QED
  BY <1>1, <1>2, <1>3, <1>4, <1>5, <1>6, <1>7, <1>8, <1>9, <1>10, <1>11, <1>12, <1>13, <1>14,
     <1>15
  DEF Next, RequestStep

-------------------------------------------------------------------------------
\* In a request that is not refused no two messages have the same key.
LEMMA KeysDiffer ==
    ASSUME NEW q \in Requests, ~MustRefuse(q),
           NEW i \in DOMAIN Items[q], NEW j \in DOMAIN Items[q], Items[q][i].key = Items[q][j].key
    PROVE  i = j
<1>1. CASE q \notin Batches
  BY <1>1, ItemTypes
<1>2. CASE q \in Batches
  <2>. DEFINE D == DOMAIN Items[q]
              f == [n \in D |-> Items[q][n].key]
  <2>1. IsFiniteSet(D) /\ Cardinality(D) = Len(Items[q])
    <3>1. D = 1..Len(Items[q]) /\ Len(Items[q]) \in Nat \ {0}
      BY ItemTypes
    <3>2. /\ IsFiniteSet(1..Len(Items[q]))
          /\ Cardinality(1..Len(Items[q])) = IF 1 > Len(Items[q]) THEN 0 ELSE Len(Items[q]) - 1 + 1
      BY <3>1, FS_Interval
    <3>. QED
      BY <3>1, <3>2
  <2>2. f \in Surjection(D, KeysOf(q))
    BY DEF KeysOf, Surjection
  <2>3. Cardinality(KeysOf(q)) <= Cardinality(D)
    BY <2>1, <2>2, FS_Surjection
  <2>4. IsFiniteSet(KeysOf(q))
    BY <2>1, <2>2, FS_Surjection
  <2>5. Cardinality(KeysOf(q)) \in Nat /\ Cardinality(D) \in Nat
    BY <2>1, <2>4, FS_CardinalityType
  <2>6. ~(Cardinality(KeysOf(q)) < Len(Items[q]))
    BY <1>2 DEF MustRefuse, HasDuplicates
  <2>7. Cardinality(KeysOf(q)) = Cardinality(D)
    BY <2>1, <2>3, <2>5, <2>6
  <2>8. f \in Injection(D, KeysOf(q))
    BY <2>1, <2>2, <2>7, FS_Surjection
  <2>9. f[i] = f[j]
    OBVIOUS
  <2>. QED
    BY <2>8, <2>9 DEF Injection, IsInjective
<1>. QED
  BY <1>1, <1>2

\* Two disjoint sets of rows cost what they cost together, a natural number.
LEMMA CostOfUnion ==
    ASSUME NEW A, NEW B, IsFiniteSet(A), IsFiniteSet(B), A \cap B = {}
    PROVE  /\ TotalCost(A \cup B) = TotalCost(A) + TotalCost(B)
           /\ TotalCost(A) \in Nat /\ TotalCost(B) \in Nat
<1>. DEFINE Normal(S) == {row \in S : ~row.express}
            Express(S) == {row \in S : row.express}
            n(S) == Cardinality(Normal(S))
            e(S) == Cardinality(Express(S))
<1>1. /\ Normal(A \cup B) = Normal(A) \cup Normal(B) /\ Normal(A) \cap Normal(B) = {}
      /\ Express(A \cup B) = Express(A) \cup Express(B) /\ Express(A) \cap Express(B) = {}
  OBVIOUS
<1>2. IsFiniteSet(A \cup B)
  BY FS_Union
<1>3. Normal(A \cup B) \subseteq A \cup B /\ Express(A \cup B) \subseteq A \cup B
  OBVIOUS
<1>4. IsFiniteSet(Normal(A \cup B)) /\ IsFiniteSet(Express(A \cup B))
  BY <1>2, <1>3, FS_Subset
<1>5. \A S : TotalCost(S) = CostNormal * n(S) + CostExpress * e(S)
  BY DEF TotalCost
<1>. HIDE DEF Normal, Express
<1>6. n(A \cup B) = n(A) + n(B) /\ n(A) \in Nat /\ n(B) \in Nat
  <2>. DEFINE all == Normal(A \cup B)
              inA == Normal(A)
              inB == Normal(B)
  <2>1. all = inA \cup inB /\ inA \cap inB = {} /\ IsFiniteSet(all)
    BY <1>1, <1>4
  <2>2. n(A \cup B) = Cardinality(all) /\ n(A) = Cardinality(inA) /\ n(B) = Cardinality(inB)
    OBVIOUS
  <2>. HIDE DEF all, inA, inB, n, e
  <2>. QED
    BY <2>1, <2>2, CountParts
<1>7. e(A \cup B) = e(A) + e(B) /\ e(A) \in Nat /\ e(B) \in Nat
  <2>. DEFINE all == Express(A \cup B)
              inA == Express(A)
              inB == Express(B)
  <2>1. all = inA \cup inB /\ inA \cap inB = {} /\ IsFiniteSet(all)
    BY <1>1, <1>4
  <2>2. e(A \cup B) = Cardinality(all) /\ e(A) = Cardinality(inA) /\ e(B) = Cardinality(inB)
    OBVIOUS
  <2>. HIDE DEF all, inA, inB, n, e
  <2>. QED
    BY <2>1, <2>2, CountParts
<1>. HIDE DEF n, e
<1>8. /\ CostNormal * (n(A) + n(B)) = CostNormal * n(A) + CostNormal * n(B)
      /\ CostExpress * (e(A) + e(B)) = CostExpress * e(A) + CostExpress * e(B)
      /\ CostNormal * n(A) \in Nat /\ CostNormal * n(B) \in Nat
      /\ CostExpress * e(A) \in Nat /\ CostExpress * e(B) \in Nat
  <2>1. \A c, a, b \in Nat : c * (a + b) = c * a + c * b /\ c * a \in Nat
    OBVIOUS
  <2>2. CostNormal \in Nat /\ CostExpress \in Nat
    BY RequestAssumption
  <2>. QED
    BY <1>6, <1>7, <2>1, <2>2
<1>. QED
  BY <1>5, <1>6, <1>7, <1>8

\* One row costs the price of its priority.
LEMMA CostOfOne ==
    ASSUME NEW row, row.express \in BOOLEAN
    PROVE  TotalCost({row}) = Cost(row) /\ Cost(row) \in Nat
<1>1. Cardinality({row}) = 1 /\ Cardinality({}) = 0
  BY FS_Singleton, FS_EmptySet
<1>4. /\ CostNormal * 1 = CostNormal /\ CostNormal * 0 = 0 /\ CostNormal \in Nat
      /\ CostExpress * 1 = CostExpress /\ CostExpress * 0 = 0 /\ CostExpress \in Nat
  BY RequestAssumption
<1>2. CASE row.express
  <2>1. {r \in {row} : r.express} = {row} /\ {r \in {row} : ~r.express} = {}
    BY <1>2
  <2>2. TotalCost({row}) = CostNormal * Cardinality({}) + CostExpress * Cardinality({row})
    BY <2>1 DEF TotalCost
  <2>. QED
    BY <1>1, <1>2, <1>4, <2>2 DEF Cost
<1>3. CASE ~row.express
  <2>1. {r \in {row} : r.express} = {} /\ {r \in {row} : ~r.express} = {row}
    BY <1>3
  <2>2. TotalCost({row}) = CostNormal * Cardinality({row}) + CostExpress * Cardinality({})
    BY <2>1 DEF TotalCost
  <2>. QED
    BY <1>1, <1>3, <1>4, <2>2 DEF Cost
<1>. QED
  BY <1>2, <1>3

\* The row that the i-th message of a request becomes.
Row(q, i) == [key |-> Items[q][i].key, express |-> Items[q][i].express, payment |-> "RESERVED",
              by |-> q, try |-> tries[q]]

\* The rows of a request cost what it is charged: there is one for each of its messages.
LEMMA CostOfRequest ==
    ASSUME NEW q \in Requests, ~MustRefuse(q)
    PROVE  IsFiniteSet(Rows(q)) /\ TotalCost(Rows(q)) = RequestCost(q) /\ RequestCost(q) \in Nat
<1>. DEFINE D == DOMAIN Items[q]
            normal == {i \in D : ~Items[q][i].express}
            express == {i \in D : Items[q][i].express}
            normalRows == {row \in Rows(q) : ~row.express}
            expressRows == {row \in Rows(q) : row.express}
            f == [i \in normal |-> Row(q, i)]
            g == [i \in express |-> Row(q, i)]
<1>1. Rows(q) = {Row(q, i) : i \in D}
  BY DEF Rows, Row
<1>2. \A i : Row(q, i).key = Items[q][i].key /\ Row(q, i).express = Items[q][i].express
  BY DEF Row
<1>3. IsFiniteSet(D)
  BY ItemTypes, FS_Interval
<1>4. IsFiniteSet(normal) /\ IsFiniteSet(express)
  BY <1>3, FS_Subset
<1>5. \A i, j \in D : Row(q, i) = Row(q, j) => i = j
  BY <1>2, KeysDiffer
<1>6. f \in Bijection(normal, normalRows)
  BY <1>1, <1>2, <1>5 DEF Bijection, Injection, IsInjective, Surjection
<1>7. g \in Bijection(express, expressRows)
  BY <1>1, <1>2, <1>5 DEF Bijection, Injection, IsInjective, Surjection
<1>8. IsFiniteSet(normalRows) /\ Cardinality(normalRows) = Cardinality(normal)
  BY <1>4, <1>6, FS_Bijection DEF ExistsBijection
<1>9. IsFiniteSet(expressRows) /\ Cardinality(expressRows) = Cardinality(express)
  BY <1>4, <1>7, FS_Bijection DEF ExistsBijection
<1>10. IsFiniteSet(Rows(q))
  <2>1. Rows(q) = normalRows \cup expressRows
    OBVIOUS
  <2>. HIDE DEF normalRows, expressRows
  <2>. QED
    BY <1>8, <1>9, <2>1, FS_Union
<1>11. TotalCost(Rows(q)) = RequestCost(q)
  BY <1>8, <1>9 DEF TotalCost, RequestCost
<1>12. Cardinality(normal) \in Nat /\ Cardinality(express) \in Nat
  BY <1>4, FS_CardinalityType
<1>13. RequestCost(q) = CostNormal * Cardinality(normal) + CostExpress * Cardinality(express)
  BY DEF RequestCost
<1>. HIDE DEF normal, express
<1>14. CostNormal * Cardinality(normal) \in Nat /\ CostExpress * Cardinality(express) \in Nat
  BY <1>12, RequestAssumption
<1>. QED
  BY <1>10, <1>11, <1>13, <1>14

-------------------------------------------------------------------------------
\* The rows that hold credits.
Reserving == {row \in messages : row.payment = "RESERVED"}

\* A commit adds its rows, none of them there before, to those that hold credits.
LEMMA CommitReserves ==
    ASSUME SubmissionInv, NEW q \in Requests, Commit(q)
    PROVE  /\ RowsOK'
           /\ reserved' = reserved + RequestCost(q) /\ reserved' \in 0..credits
<1>1. /\ messages' = messages \cup Rows(q) /\ reserved' = reserved + RequestCost(q)
      /\ credits >= reserved + RequestCost(q) /\ ~MustRefuse(q)
  BY DEF Commit, Fits, SubmissionInv, ProgressOK, InOrder
<1>2. IsFiniteSet(Rows(q)) /\ TotalCost(Rows(q)) = RequestCost(q) /\ RequestCost(q) \in Nat
  BY <1>1, CostOfRequest
<1>3. Rows(q) = {Row(q, i) : i \in DOMAIN Items[q]}
  BY DEF Rows, Row
<1>4. \A i : Row(q, i).key = Items[q][i].key /\ Row(q, i).payment = "RESERVED"
  BY DEF Row
<1>5. \A row \in Rows(q) : row.payment = "RESERVED" /\ row.key \in KeysOf(q)
  BY <1>3, <1>4 DEF KeysOf
<1>6. \A row1, row2 \in Rows(q) : row1.key = row2.key => row1 = row2
  BY <1>1, <1>3, <1>4, KeysDiffer
<1>7. KeysOf(q) \subseteq Keys
  BY ItemTypes DEF KeysOf, Item
<1>8. \A row \in messages : row.key \notin KeysOf(q)
  <2>1. \A k \in KeysOf(q) : HasInserted(q, k)
    BY CommittedKeys DEF SubmissionInv
  <2>2. \A k \in KeysOf(q) : ~Committed(k)
    BY <2>1, <1>7 DEF SubmissionInv, KeysExclude
  <2>. QED
    BY <2>2 DEF Committed
<1>. HIDE DEF Rows
<1>9. OneMessagePerKey'
  BY <1>1, <1>5, <1>6, <1>8 DEF OneMessagePerKey, SubmissionInv, RowsOK
<1>10. IsFiniteSet(messages) /\ reserved = TotalCost(Reserving)
  BY DEF SubmissionInv, RowsOK, ReservationsAddUp, Reserving
<1>11. IsFiniteSet(messages')
  BY <1>1, <1>2, <1>10, FS_Union
<1>12. IsFiniteSet(Reserving)
  BY <1>10, FS_Subset DEF Reserving
<1>13. Reserving' = Reserving \cup Rows(q) /\ Reserving \cap Rows(q) = {}
  BY <1>1, <1>5, <1>8 DEF Reserving
<1>14. TotalCost(Reserving') = reserved + RequestCost(q) /\ reserved \in Nat
  BY <1>2, <1>10, <1>12, <1>13, CostOfUnion
<1>15. RowsOK'
  BY <1>1, <1>9, <1>11, <1>14 DEF RowsOK, ReservationsAddUp, Reserving, TotalCost
<1>. QED
  BY <1>1, <1>2, <1>14, <1>15 DEF SubmissionInv, TypeOK

\* An outcome gives back what its message held.
LEMMA OutcomeReleases ==
    ASSUME SubmissionInv, NEW row \in messages, NEW p \in {"DEDUCTED", "REFUNDED"}, Outcome(row, p)
    PROVE  /\ RowsOK'
           /\ reserved' = reserved - Cost(row) /\ reserved' \in Nat /\ Cost(row) \in Nat
<1>. DEFINE new == [row EXCEPT !.payment = p]
<1>1. /\ messages' = (messages \ {row}) \cup {new}
      /\ new.key = row.key /\ new.payment = p
  BY OutcomeRows DEF SubmissionInv
<1>2. row.payment = "RESERVED" /\ reserved' = reserved - Cost(row) /\ row.express \in BOOLEAN
  BY DEF Outcome, SubmissionInv, TypeOK
<1>. HIDE DEF new
<1>3. OneMessagePerKey'
  BY <1>1 DEF OneMessagePerKey, SubmissionInv, RowsOK
<1>4. IsFiniteSet(messages) /\ reserved = TotalCost(Reserving)
  BY DEF SubmissionInv, RowsOK, ReservationsAddUp, Reserving
<1>5. IsFiniteSet(messages')
  <2>1. IsFiniteSet(messages \ {row})
    BY <1>4, FS_RemoveElement
  <2>. QED
    BY <1>1, <2>1, FS_AddElement
<1>6. IsFiniteSet(Reserving') /\ IsFiniteSet({row})
  BY <1>5, FS_Subset, FS_Singleton DEF Reserving
<1>7. Reserving = Reserving' \cup {row} /\ Reserving' \cap {row} = {}
  BY <1>1, <1>2 DEF Reserving
<1>8. /\ TotalCost(Reserving) = TotalCost(Reserving') + TotalCost({row})
      /\ TotalCost(Reserving') \in Nat
  BY <1>6, <1>7, CostOfUnion
<1>9. TotalCost({row}) = Cost(row) /\ Cost(row) \in Nat
  BY <1>2, CostOfOne
<1>10. reserved' = TotalCost(Reserving')
  BY <1>2, <1>4, <1>8, <1>9
<1>11. RowsOK'
  BY <1>3, <1>5, <1>10 DEF RowsOK, ReservationsAddUp, Reserving, TotalCost
<1>. QED
  BY <1>2, <1>8, <1>9, <1>10, <1>11

\* Nobody else touches the rows or what is reserved.
LEMMA RowsKept ==
    ASSUME RowsOK, UNCHANGED <<messages, reserved>>
    PROVE  RowsOK'
BY DEF RowsOK, OneMessagePerKey, ReservationsAddUp, TotalCost

\* One step keeps the rows and their sum in order.
LEMMA RowsStep == SubmissionInv /\ [Next]_vars => RowsOK'
<1>. SUFFICES ASSUME SubmissionInv, [Next]_vars PROVE RowsOK'
  OBVIOUS
<1>. USE DEF balanceVars
<1>. RowsOK
  BY DEF SubmissionInv
<1>1. ASSUME NEW q \in Requests, SendRequest(q)
      PROVE  RowsOK'
  BY <1>1, RowsKept DEF SendRequest
<1>2. ASSUME NEW q \in Requests, InsertMessage(q)
      PROVE  RowsOK'
  BY <1>2, RowsKept DEF InsertMessage
<1>3. ASSUME NEW q \in Requests, UniqueViolation(q)
      PROVE  RowsOK'
  BY <1>3, RowsKept DEF UniqueViolation
<1>4. ASSUME NEW q \in Requests, Replay(q)
      PROVE  RowsOK'
  BY <1>4, RowsKept DEF Replay
<1>5. ASSUME NEW q \in Requests, ForeignKeyViolation(q)
      PROVE  RowsOK'
  BY <1>5, RowsKept DEF ForeignKeyViolation
<1>6. ASSUME NEW q \in Requests, LockBalance(q)
      PROVE  RowsOK'
  BY <1>6, RowsKept DEF LockBalance
<1>7. ASSUME NEW q \in Requests, Commit(q)
      PROVE  RowsOK'
  BY <1>7, CommitReserves
<1>8. ASSUME NEW q \in Requests, CheckViolation(q)
      PROVE  RowsOK'
  BY <1>8, RowsKept DEF CheckViolation
<1>9. ASSUME NEW q \in Requests, DeadlockAbort(q)
      PROVE  RowsOK'
  BY <1>9, RowsKept DEF DeadlockAbort
<1>10. ASSUME NEW q \in Requests, ApiCrash(q)
      PROVE  RowsOK'
  BY <1>10, RowsKept DEF ApiCrash
<1>11. ASSUME NEW q \in Requests, LoseAnswer(q)
      PROVE  RowsOK'
  BY <1>11, RowsKept DEF LoseAnswer
<1>12. CASE CreateUser
  BY <1>12, RowsKept DEF CreateUser
<1>13. CASE TopUp
  BY <1>13, RowsKept DEF TopUp
<1>14. ASSUME NEW row \in messages, NEW p \in {"DEDUCTED", "REFUNDED"}, Outcome(row, p)
      PROVE  RowsOK'
  BY <1>14, OutcomeReleases
<1>15. CASE UNCHANGED vars
  BY <1>15, RowsKept DEF vars
<1>. HIDE DEF balanceVars
<1>. QED
  BY <1>1, <1>2, <1>3, <1>4, <1>5, <1>6, <1>7, <1>8, <1>9, <1>10, <1>11, <1>12, <1>13, <1>14,
     <1>15
  DEF Next, RequestStep

\* One step keeps every variable in its type.
LEMMA TypeStep == SubmissionInv /\ [Next]_vars => TypeOK'
<1>. SUFFICES ASSUME SubmissionInv, [Next]_vars PROVE TypeOK'
  OBVIOUS
<1>. TypeOK /\ ProgressOK
  BY DEF SubmissionInv
<1>. USE DEF TypeOK, Steps, Answers, balanceVars, EndTransaction, Answer
<1>1. ASSUME NEW q \in Requests, SendRequest(q)
      PROVE  TypeOK'
  <2>1. tries' = [tries EXCEPT ![q] = tries[q] + 1] /\ tries[q] < MaxTries[q]
    BY <1>1 DEF SendRequest, WantsToSend
  <2>2. tries' \in [Requests -> Nat] /\ \A r \in Requests : tries'[r] <= MaxTries[r]
    <3>1. /\ MaxTries \in [Requests -> Nat] /\ tries \in [Requests -> Nat]
          /\ \A r \in Requests : tries[r] <= MaxTries[r]
      BY SubmissionAssumption
    <3>2. tries[q] + 1 <= MaxTries[q] /\ tries[q] + 1 \in Nat
      BY <2>1, <3>1
    <3>. HIDE DEF TypeOK
    <3>. QED
      BY <2>1, <3>1, <3>2
  <2>3. pc' \in [Requests -> Steps] /\ answer' \in [Requests -> Answers]
    BY <1>1 DEF SendRequest
  <2>. QED
    BY <1>1, <2>2, <2>3 DEF SendRequest
<1>2. ASSUME NEW q \in Requests, InsertMessage(q)
      PROVE  TypeOK'
  BY <1>2 DEF InsertMessage
<1>3. ASSUME NEW q \in Requests, UniqueViolation(q)
      PROVE  TypeOK'
  BY <1>3 DEF UniqueViolation
<1>4. ASSUME NEW q \in Requests, Replay(q)
      PROVE  TypeOK'
  BY <1>4 DEF Replay
<1>5. ASSUME NEW q \in Requests, ForeignKeyViolation(q)
      PROVE  TypeOK'
  BY <1>5 DEF ForeignKeyViolation
<1>6. ASSUME NEW q \in Requests, LockBalance(q)
      PROVE  TypeOK'
  BY <1>6 DEF LockBalance
<1>7. ASSUME NEW q \in Requests, Commit(q)
      PROVE  TypeOK'
  <2>1. reserved' \in 0..credits
    BY <1>7, CommitReserves
  <2>2. \A i \in DOMAIN Items[q] : Row(q, i) \in
          [key : Keys, express : BOOLEAN, payment : {"RESERVED", "DEDUCTED", "REFUNDED"},
           by : Requests, try : Nat \ {0}]
    <3>1. pc[q] = "commit"
      BY <1>7 DEF Commit
    <3>2. tries[q] > 0
      BY <3>1 DEF ProgressOK, InOrder
    <3>3. tries[q] \in Nat \ {0}
      BY <3>2
    <3>. QED
      BY <3>3, ItemTypes DEF Row, Item
  <2>3. Rows(q) \subseteq
          [key : Keys, express : BOOLEAN, payment : {"RESERVED", "DEDUCTED", "REFUNDED"},
           by : Requests, try : Nat \ {0}]
    BY <2>2 DEF Rows, Row
  <2>. QED
    BY <1>7, <2>1, <2>3 DEF Commit
<1>8. ASSUME NEW q \in Requests, CheckViolation(q)
      PROVE  TypeOK'
  BY <1>8 DEF CheckViolation
<1>9. ASSUME NEW q \in Requests, DeadlockAbort(q)
      PROVE  TypeOK'
  BY <1>9 DEF DeadlockAbort
<1>10. ASSUME NEW q \in Requests, ApiCrash(q)
      PROVE  TypeOK'
  BY <1>10, SubmissionAssumption DEF ApiCrash
<1>11. ASSUME NEW q \in Requests, LoseAnswer(q)
      PROVE  TypeOK'
  BY <1>11, SubmissionAssumption DEF LoseAnswer
<1>12. CASE CreateUser
  BY <1>12 DEF CreateUser
<1>13. CASE TopUp
  BY <1>13, SubmissionAssumption DEF TopUp
<1>14. ASSUME NEW row \in messages, NEW p \in {"DEDUCTED", "REFUNDED"}, Outcome(row, p)
      PROVE  TypeOK'
  <2>1. reserved' = reserved - Cost(row) /\ reserved' \in Nat /\ Cost(row) \in Nat
    BY <1>14, OutcomeReleases
  <2>2. [row EXCEPT !.payment = p] \in
          [key : Keys, express : BOOLEAN, payment : {"RESERVED", "DEDUCTED", "REFUNDED"},
           by : Requests, try : Nat \ {0}]
    OBVIOUS
  <2>3. reserved' \in 0..credits' /\ credits' \in Nat
    <3>1. credits' = credits - Cost(row) \/ credits' = credits
      BY <1>14 DEF Outcome
    <3>2. credits \in Nat /\ reserved \in Nat /\ reserved <= credits
      OBVIOUS
    <3>. HIDE DEF TypeOK
    <3>. QED
      BY <2>1, <3>1, <3>2
  <2>4. messages' \subseteq
          [key : Keys, express : BOOLEAN, payment : {"RESERVED", "DEDUCTED", "REFUNDED"},
           by : Requests, try : Nat \ {0}]
    BY <1>14, <2>2 DEF Outcome
  <2>. QED
    BY <1>14, <2>3, <2>4 DEF Outcome
<1>15. CASE UNCHANGED vars
  BY <1>15 DEF vars, balanceVars
<1>. HIDE DEF TypeOK, Steps, Answers, balanceVars, EndTransaction, Answer
<1>. QED
  BY <1>1, <1>2, <1>3, <1>4, <1>5, <1>6, <1>7, <1>8, <1>9, <1>10, <1>11, <1>12, <1>13, <1>14,
     <1>15
  DEF Next, RequestStep

-------------------------------------------------------------------------------
\* The invariant holds in every reachable state.
LEMMA SubmissionInvCorrect == Spec => []SubmissionInv
<1>1. Init => SubmissionInv
  <2>. SUFFICES ASSUME Init PROVE SubmissionInv
    OBVIOUS
  <2>1. TypeOK
    <3>1. MaxFaults \in 0..MaxFaults /\ 0 \in 0..0 /\ 0 \in 0..MaxTopUps
      BY SubmissionAssumption
    <3>2. \A q \in Requests : tries[q] <= MaxTries[q]
      BY SubmissionAssumption DEF Init
    <3>. QED
      BY <3>1, <3>2 DEF Init, TypeOK, Steps, Answers
  <2>2. ProgressOK
    BY SubmissionAssumption DEF Init, ProgressOK, InOrder
  <2>3. KeysExclude
    BY DEF Init, KeysExclude, HasInserted
  <2>4. TotalCost({}) = 0 /\ IsFiniteSet({})
    <3>1. /\ {row \in {} : ~row.express} = {} /\ {row \in {} : row.express} = {}
          /\ CostNormal * 0 + CostExpress * 0 = 0
      BY RequestAssumption
    <3>. QED
      BY <3>1, FS_EmptySet DEF TotalCost
  <2>5. {row \in messages : row.payment = "RESERVED"} = {} /\ messages = {} /\ reserved = 0
    BY DEF Init
  <2>6. RowsOK
    BY <2>4, <2>5 DEF RowsOK, OneMessagePerKey, ReservationsAddUp
  <2>. QED
    BY <2>1, <2>2, <2>3, <2>6 DEF SubmissionInv
<1>2. SubmissionInv /\ [Next]_vars => SubmissionInv'
  BY TypeStep, ProgressStep, KeysStep, RowsStep DEF SubmissionInv
<1>. QED
  BY <1>1, <1>2, PTL DEF Spec

\* Type correctness of every reachable state, with 0 <= reserved <= credits.
THEOREM SubmissionTypeCorrect == Spec => []TypeOK
<1>1. SubmissionInv => TypeOK
  BY DEF SubmissionInv
<1>. QED
  BY <1>1, SubmissionInvCorrect, PTL

\* However many requests race for a key, one message is made of it.
THEOREM KeysAreUnique == Spec => []OneMessagePerKey
<1>1. SubmissionInv => OneMessagePerKey
  BY DEF SubmissionInv, RowsOK
<1>. QED
  BY <1>1, SubmissionInvCorrect, PTL

\* No reservation is lost or counted twice, whoever writes the balance row between a request's
\* statements.
THEOREM NoLostReservation == Spec => []ReservationsAddUp
<1>1. SubmissionInv => ReservationsAddUp
  BY DEF SubmissionInv, RowsOK
<1>. QED
  BY <1>1, SubmissionInvCorrect, PTL

-------------------------------------------------------------------------------
\* The keys of a request as its transaction goes through them: the next one, those it has.
LEMMA KeysOnTheWay ==
    ASSUME SubmissionInv, NEW q \in Requests
    PROVE  /\ pc[q] \in {"insert", "replay"} => NextKey(q) \in KeysOf(q)
           /\ pc[q] = "replay" => NextKey(q) = Items[q][1].key /\ Committed(Items[q][1].key)
           /\ \A k : HasInserted(q, k) => k \in KeysOf(q)
           /\ pc[q] \in {"reserve", "commit"} => \A k \in KeysOf(q) : HasInserted(q, k) /\ ~Committed(k)
<1>1. inserted[q] \in Nat /\ pc[q] \in Steps /\ inserted[q] <= Len(Items[q])
  <2>1. pc[q] \in Steps /\ inserted[q] \in Nat
    BY DEF SubmissionInv, TypeOK
  <2>. QED
    BY <2>1, ItemTypes DEF SubmissionInv, ProgressOK, InOrder, Steps
<1>2. pc[q] \in {"insert", "replay"} => inserted[q] + 1 \in DOMAIN Items[q]
  BY <1>1, ItemTypes DEF SubmissionInv, ProgressOK, InOrder
<1>3. pc[q] \in {"insert", "replay"} => NextKey(q) \in KeysOf(q)
  BY <1>2 DEF NextKey, KeysOf
<1>4. pc[q] = "replay" => NextKey(q) = Items[q][1].key /\ Committed(Items[q][1].key)
  BY DEF SubmissionInv, ProgressOK, InOrder, NextKey
<1>5. \A k : HasInserted(q, k) => k \in KeysOf(q)
  BY <1>1, ItemTypes DEF HasInserted, KeysOf
<1>6. ASSUME pc[q] \in {"reserve", "commit"}, NEW k \in KeysOf(q)
      PROVE  HasInserted(q, k) /\ ~Committed(k)
  <2>1. inserted[q] = Len(Items[q])
    BY <1>6 DEF SubmissionInv, ProgressOK, InOrder
  <2>2. HasInserted(q, k) /\ k \in Keys
    BY <1>6, <2>1, ItemTypes DEF HasInserted, KeysOf, Item
  <2>. QED
    BY <2>2 DEF SubmissionInv, KeysExclude
<1>. QED
  BY <1>3, <1>4, <1>5, <1>6

\* Who is on a cycle of waiting transactions is a batch, and waits for another batch that shares a
\* key with it: a single request has nothing that anyone could wait for while it waits itself.
LEMMA OnlyBatchesDeadlock ==
    ASSUME SubmissionInv, NEW q \in Requests, Deadlocked(q)
    PROVE  /\ q \in Batches /\ pc[q] = "insert"
           /\ \E p \in Batches : p # q /\ pc[p] = "insert" /\ KeysOf(p) \cap KeysOf(q) # {}
<1>1. PICK S \in SUBSET Requests :
        /\ q \in S
        /\ \A p \in S : (\E p1 \in S : WaitsFor(p, p1)) /\ (\E p1 \in S : WaitsFor(p1, p))
  BY DEF Deadlocked
<1>2. ASSUME NEW p \in S
      PROVE  p \in Batches /\ pc[p] = "insert"
  <2>1. pc[p] = "insert"
    BY <1>1, <1>2 DEF WaitsFor
  <2>2. PICK p1 \in S : HasInserted(p, NextKey(p1))
    BY <1>1, <1>2 DEF WaitsFor
  <2>3. inserted[p] \in Nat /\ inserted[p] >= 1
    BY <2>2 DEF HasInserted, SubmissionInv, TypeOK
  <2>4. inserted[p] < Len(Items[p])
    BY <2>1 DEF SubmissionInv, ProgressOK, InOrder
  <2>5. Len(Items[p]) # 1
    BY <2>3, <2>4, ItemTypes
  <2>. QED
    BY <2>1, <2>5, ItemTypes
<1>3. PICK p \in S : p # q /\ HasInserted(p, NextKey(q))
  BY <1>1 DEF WaitsFor
<1>4. NextKey(q) \in KeysOf(q) /\ NextKey(q) \in KeysOf(p)
  BY <1>1, <1>2, <1>3, KeysOnTheWay
<1>. QED
  BY <1>1, <1>2, <1>3, <1>4

\* What a step may tell a single request whose key has its message.
LEMMA ReplayStep ==
    ASSUME SubmissionInv, [Next]_vars, NEW r \in Requests \ Batches,
           Committed(Items[r][1].key), answer'[r] # answer[r]
    PROVE  answer'[r] \in {"none", "replayed", "lost"}
<1>. USE DEF Answer
<1>. answer \in [Requests -> Answers]
  BY DEF SubmissionInv, TypeOK
<1>0. pc[r] \notin {"reserve", "commit"}
  <2>1. Items[r][1].key \in KeysOf(r)
    BY ItemTypes DEF KeysOf
  <2>. QED
    BY <2>1, KeysOnTheWay
<1>1. ASSUME NEW q \in Requests, SendRequest(q)
      PROVE  answer'[r] \in {"none", "replayed", "lost"}
  BY <1>1 DEF SendRequest, MustRefuse
<1>2. ASSUME NEW q \in Requests, UniqueViolation(q)
      PROVE  answer'[r] \in {"none", "replayed", "lost"}
  BY <1>2 DEF UniqueViolation
<1>3. ASSUME NEW q \in Requests, Replay(q)
      PROVE  answer'[r] \in {"none", "replayed", "lost"}
  <2>1. Committed(NextKey(q))
    BY <1>3, KeysOnTheWay DEF Replay
  <2>. QED
    BY <1>3, <2>1 DEF Replay
<1>4. ASSUME NEW q \in Requests, ForeignKeyViolation(q)
      PROVE  answer'[r] \in {"none", "replayed", "lost"}
  <2>1. q # r
    <3>. SUFFICES ASSUME q = r PROVE FALSE
      OBVIOUS
    <3>1. inserted[r] = 0
      BY <1>4, SingleAtStart DEF ForeignKeyViolation, SubmissionInv
    <3>. QED
      BY <1>4, <3>1 DEF ForeignKeyViolation, KeyIsFree, NextKey, Committed
  <2>. QED
    BY <1>4, <2>1 DEF ForeignKeyViolation
<1>5. ASSUME NEW q \in Requests, Commit(q) \/ CheckViolation(q)
      PROVE  answer'[r] \in {"none", "replayed", "lost"}
  BY <1>0, <1>5 DEF Commit, CheckViolation
<1>6. ASSUME NEW q \in Requests, DeadlockAbort(q)
      PROVE  answer'[r] \in {"none", "replayed", "lost"}
  BY <1>6, OnlyBatchesDeadlock DEF DeadlockAbort
<1>7. ASSUME NEW q \in Requests, ApiCrash(q) \/ LoseAnswer(q)
      PROVE  answer'[r] \in {"none", "replayed", "lost"}
  BY <1>7 DEF ApiCrash, LoseAnswer
<1>8. ASSUME NEW q \in Requests, InsertMessage(q) \/ LockBalance(q)
      PROVE  answer'[r] \in {"none", "replayed", "lost"}
  BY <1>8 DEF InsertMessage, LockBalance
<1>9. CASE CreateUser \/ TopUp
  BY <1>9 DEF CreateUser, TopUp
<1>10. ASSUME NEW row \in messages, NEW p \in {"DEDUCTED", "REFUNDED"}, Outcome(row, p)
      PROVE  answer'[r] \in {"none", "replayed", "lost"}
  BY <1>10 DEF Outcome
<1>11. CASE UNCHANGED vars
  BY <1>11 DEF vars
<1>. QED
  BY <1>1, <1>2, <1>3, <1>4, <1>5, <1>6, <1>7, <1>8, <1>9, <1>10, <1>11 DEF Next, RequestStep

\* Once a key has its message, a single request for it gets that message, or no answer.
THEOREM RetriesGetTheirMessage == Spec => KeyIsReplayed
<1>1. SubmissionInv /\ [Next]_vars =>
        [\A q \in Requests \ Batches :
            Committed(Items[q][1].key) /\ answer'[q] # answer[q]
            => answer'[q] \in {"none", "replayed", "lost"}]_vars
  BY ReplayStep
<1>. QED
  BY <1>1, SubmissionInvCorrect, PTL DEF Spec, KeyIsReplayed

-------------------------------------------------------------------------------
\* What the refinement shows of a step.
SerialOrStutter == Serial!SerialNext \/ UNCHANGED Serial!serialVars

Waiting == {q \in Requests : pc[q] # "idle"}

\* The abstract specification counts alike.
LEMMA SameCount == \A S : Serial!Cardinality(S) = Cardinality(S)
BY DEF Serial!Cardinality, Cardinality, Serial!IsFiniteSet, IsFiniteSet

\* Whoever ends a transaction without a row has been served, for a reason.
LEMMA Declined ==
    ASSUME SubmissionInv, NEW q \in Requests, pc[q] # "idle",
           NEW a \in {"replayed", "conflict", "insufficient_balance", "user_not_found", "error", "lost"},
           EndTransaction(q, "idle"), Answer(q, a), Serial!Reason(q, a),
           UNCHANGED <<messages, balanceVars, tries>>
    PROVE  SerialOrStutter
<1>1. q \in Waiting /\ Waiting' = Waiting \ {q}
  BY DEF EndTransaction, Waiting, SubmissionInv, TypeOK
<1>2. Serial!Decline(q, a)
  BY DEF Serial!Decline, Serial!Answers, Answer, balanceVars
<1>3. Serial!Serve(q)
  BY <1>1, <1>2 DEF Serial!Serve, balanceVars, Waiting
<1>. QED
  BY <1>3 DEF SerialOrStutter, Serial!SerialNext

\* Steps within a transaction, of which the other requests and the client see nothing.
LEMMA Unseen ==
    ASSUME SubmissionInv, NEW q \in Requests, pc[q] # "idle", NEW next \in Steps \ {"idle"},
           pc' = [pc EXCEPT ![q] = next], answer'[q] = "none", \A p \in Requests \ {q} : answer'[p] = answer[p],
           answer' \in [Requests -> Answers],
           UNCHANGED <<messages, balanceVars, tries>>
    PROVE  SerialOrStutter
<1>1. Waiting' = Waiting
  BY DEF Waiting, SubmissionInv, TypeOK
<1>2. answer \in [Requests -> Answers] /\ answer[q] = "none"
  BY DEF SubmissionInv, TypeOK, ProgressOK, InOrder
<1>3. answer' = answer
  BY <1>2
<1>. QED
  BY <1>1, <1>3 DEF SerialOrStutter, Serial!serialVars, balanceVars, Waiting

\* A commit is a request accepted whole.
LEMMA Accepted ==
    ASSUME SubmissionInv, NEW q \in Requests, Commit(q)
    PROVE  SerialOrStutter
<1>1. /\ pc[q] = "commit" /\ userExists /\ read[q] = reserved
      /\ credits \in Nat /\ reserved \in Nat /\ RequestCost(q) \in Nat
  BY CostOfRequest DEF Commit, SubmissionInv, ProgressOK, InOrder, TypeOK
<1>2. q \in Waiting /\ Waiting' = Waiting \ {q}
  BY <1>1 DEF Commit, EndTransaction, Waiting, SubmissionInv, TypeOK
<1>3. ~Serial!Taken(q)
  BY <1>1, KeysOnTheWay DEF Serial!Taken, Serial!KeysOf, KeysOf, Committed
<1>4. credits - reserved >= RequestCost(q)
  BY <1>1 DEF Commit, Fits
<1>5. Serial!RequestCost(q) = RequestCost(q)
  BY SameCount DEF Serial!RequestCost, RequestCost
<1>6. /\ messages' = messages \cup Rows(q)
      /\ reserved' = reserved + RequestCost(q) /\ answer' = [answer EXCEPT ![q] = "created"]
      /\ UNCHANGED <<userExists, credits, tries>>
  BY <1>1 DEF Commit, Answer
<1>7. Serial!Accept(q)
  BY <1>1, <1>3, <1>4, <1>5, <1>6 DEF Serial!Accept, Serial!Answers, Rows
<1>8. Serial!Serve(q)
  BY <1>2, <1>6, <1>7 DEF Serial!Serve, Waiting
<1>. QED
  BY <1>8 DEF SerialOrStutter, Serial!SerialNext

\* Every step is a step of the requests served one at a time, or none.
LEMMA SerialStep ==
    ASSUME SubmissionInv, [Next]_vars
    PROVE  SerialOrStutter
<1>. pc \in [Requests -> Steps] /\ answer \in [Requests -> Answers]
  BY DEF SubmissionInv, TypeOK
<1>1. ASSUME NEW q \in Requests, SendRequest(q)
      PROVE  SerialOrStutter
  <2>1. q \notin Waiting
    BY <1>1 DEF SendRequest, WantsToSend, Waiting
  <2>2. CASE MustRefuse(q)
    <3>1. Waiting' = Waiting
      BY <1>1, <2>2 DEF SendRequest, Waiting
    <3>2. Serial!AskInVain(q)
      BY <1>1, <2>1, <2>2, <3>1, SameCount
      DEF SendRequest, MustRefuse, Answer, balanceVars, Waiting, HasDuplicates, KeysOf,
          Serial!AskInVain, Serial!Answers, Serial!HasDuplicates, Serial!KeysOf
    <3>. QED
      BY <3>2 DEF SerialOrStutter, Serial!SerialNext
  <2>3. CASE ~MustRefuse(q)
    <3>1. Waiting' = Waiting \cup {q}
      BY <1>1, <2>3 DEF SendRequest, Waiting
    <3>2. Serial!Ask(q)
      BY <1>1, <2>1, <2>3, <3>1 DEF SendRequest, Answer, balanceVars, Waiting, Serial!Ask, Serial!Answers
    <3>. QED
      BY <3>2 DEF SerialOrStutter, Serial!SerialNext
  <2>. QED
    BY <2>2, <2>3
<1>2. ASSUME NEW q \in Requests, InsertMessage(q)
      PROVE  SerialOrStutter
  <2>1. answer[q] = "none"
    BY <1>2 DEF InsertMessage, SubmissionInv, ProgressOK, InOrder
  <2>2. PICK next \in {"reserve", "insert"} : pc' = [pc EXCEPT ![q] = next]
    BY <1>2 DEF InsertMessage
  <2>. QED
    BY <1>2, <2>1, <2>2, Unseen DEF InsertMessage, Steps
<1>3. ASSUME NEW q \in Requests, UniqueViolation(q)
      PROVE  SerialOrStutter
  <2>1. pc[q] = "insert" /\ Serial!Taken(q)
    BY <1>3, KeysOnTheWay DEF UniqueViolation, KeyIsTaken, Committed, Serial!Taken, Serial!KeysOf, KeysOf
  <2>2. CASE q \in Batches
    <3>1. Serial!Reason(q, "conflict")
      BY <2>1, <2>2 DEF Serial!Reason
    <3>. QED
      BY <1>3, <2>1, <2>2, <3>1, Declined DEF UniqueViolation
  <2>3. CASE q \notin Batches
    BY <1>3, <2>1, <2>3, Unseen DEF UniqueViolation, EndTransaction, Answer, Steps, Answers
  <2>. QED
    BY <2>2, <2>3
<1>4. ASSUME NEW q \in Requests, Replay(q)
      PROVE  SerialOrStutter
  <2>1. pc[q] = "replay" /\ Committed(NextKey(q)) /\ NextKey(q) \in KeysOf(q) /\ q \notin Batches
    BY <1>4, KeysOnTheWay DEF Replay, SubmissionInv, ProgressOK, InOrder
  <2>2. Serial!Reason(q, "replayed")
    BY <2>1 DEF Serial!Reason, Serial!Taken, Serial!KeysOf, KeysOf, Committed
  <2>. QED
    BY <1>4, <2>1, <2>2, Declined DEF Replay
<1>5. ASSUME NEW q \in Requests, ForeignKeyViolation(q)
      PROVE  SerialOrStutter
  <2>1. Serial!Reason(q, "user_not_found")
    BY <1>5 DEF ForeignKeyViolation, Serial!Reason
  <2>. QED
    BY <1>5, <2>1, Declined DEF ForeignKeyViolation
<1>6. ASSUME NEW q \in Requests, LockBalance(q)
      PROVE  SerialOrStutter
  <2>1. answer[q] = "none"
    BY <1>6 DEF LockBalance, SubmissionInv, ProgressOK, InOrder
  <2>. QED
    BY <1>6, <2>1, Unseen DEF LockBalance, Steps
<1>7. ASSUME NEW q \in Requests, Commit(q)
      PROVE  SerialOrStutter
  BY <1>7, Accepted
<1>8. ASSUME NEW q \in Requests, CheckViolation(q)
      PROVE  SerialOrStutter
  <2>1. pc[q] = "commit" /\ read[q] = reserved /\ ~MustRefuse(q)
    BY <1>8 DEF CheckViolation, SubmissionInv, ProgressOK, InOrder
  <2>2. ~Serial!Taken(q)
    BY <2>1, KeysOnTheWay DEF Serial!Taken, Serial!KeysOf, KeysOf, Committed
  <2>3. credits - reserved < RequestCost(q)
    <3>1. credits \in Nat /\ reserved \in Nat /\ RequestCost(q) \in Nat
      BY <2>1, CostOfRequest DEF SubmissionInv, TypeOK
    <3>. QED
      BY <1>8, <2>1, <3>1 DEF CheckViolation, Fits
  <2>4. Serial!Reason(q, "insufficient_balance")
    BY <2>2, <2>3, SameCount DEF Serial!Reason, Serial!RequestCost, RequestCost
  <2>. QED
    BY <1>8, <2>1, <2>4, Declined DEF CheckViolation
<1>9. ASSUME NEW q \in Requests, DeadlockAbort(q)
      PROVE  SerialOrStutter
  <2>1. /\ q \in Batches /\ pc[q] = "insert"
        /\ \E p \in Batches : p # q /\ pc[p] = "insert" /\ KeysOf(p) \cap KeysOf(q) # {}
    BY <1>9, OnlyBatchesDeadlock DEF DeadlockAbort
  <2>2. Serial!Reason(q, "error")
    BY <2>1, RequestAssumption DEF Serial!Reason, Serial!KeysOf, KeysOf
  <2>. QED
    BY <1>9, <2>1, <2>2, Declined DEF DeadlockAbort
<1>10. ASSUME NEW q \in Requests, ApiCrash(q)
      PROVE  SerialOrStutter
  <2>1. Serial!Reason(q, "lost")
    BY DEF Serial!Reason
  <2>. QED
    BY <1>10, <2>1, Declined DEF ApiCrash
<1>11. ASSUME NEW q \in Requests, LoseAnswer(q)
      PROVE  SerialOrStutter
  <2>1. Serial!LoseReply(q)
    BY <1>11 DEF LoseAnswer, Answer, balanceVars, Serial!LoseReply, Serial!Answers
  <2>. QED
    BY <2>1 DEF SerialOrStutter, Serial!SerialNext
<1>12. CASE CreateUser
  <2>1. Serial!CreateUser
    BY <1>12 DEF CreateUser, Serial!CreateUser
  <2>. QED
    BY <2>1 DEF SerialOrStutter, Serial!SerialNext
<1>13. CASE TopUp
  <2>1. Serial!Buy
    BY <1>13 DEF TopUp, Serial!Buy
  <2>. QED
    BY <2>1 DEF SerialOrStutter, Serial!SerialNext
<1>14. ASSUME NEW row \in messages, NEW p \in {"DEDUCTED", "REFUNDED"}, Outcome(row, p)
      PROVE  SerialOrStutter
  <2>1. Serial!Finish(row, p)
    BY <1>14 DEF Outcome, Serial!Finish, Serial!Cost, Cost
  <2>. QED
    BY <2>1 DEF SerialOrStutter, Serial!SerialNext
<1>15. CASE UNCHANGED vars
  BY <1>15 DEF vars, balanceVars, SerialOrStutter, Serial!serialVars
<1>. QED
  BY <1>1, <1>2, <1>3, <1>4, <1>5, <1>6, <1>7, <1>8, <1>9, <1>10, <1>11, <1>12, <1>13, <1>14,
     <1>15
  DEF Next, RequestStep

\* Interleaved statements, row locks, rollbacks and deadlocks have the effect of whole requests
\* served one after the other, for every set of requests and prices.
THEOREM SubmissionIsSerial == Spec => ImplementsSerial
<1>1. Init => Serial!SerialInit
  BY DEF Init, Serial!SerialInit
<1>2. SubmissionInv /\ [Next]_vars => [Serial!SerialNext]_(Serial!serialVars)
  BY SerialStep DEF SerialOrStutter
<1>. QED
  BY <1>1, <1>2, SubmissionInvCorrect, PTL DEF Spec, ImplementsSerial, Serial!SerialSpec
===============================================================================
