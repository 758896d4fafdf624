--------------------------- MODULE ClaimFairlyProofs ---------------------------
(* What holds of ClaimFairly for every number of relays, customers, jobs and     *)
(* every size of a batch.                                                       *)
EXTENDS ClaimFairly, Counting, FiniteSetTheorems, TLAPS

\* The jobs that are due, and any of them, are finitely many and in order.
LEMMA DueFinite ==
    ASSUME due \subseteq Jobs
    PROVE  \A S : S \subseteq due => IsFiniteSet(S) /\ Cardinality(S) \in Nat
<1>1. IsFiniteSet(due)
  BY ClaimAssumption, FS_Subset
<1>. QED
  BY <1>1, FS_Subset, FS_CardinalityType

\* The order of the due jobs is the order of any of them.
LEMMA DueOrdered ==
    ASSUME DueInOrder, NEW S \in SUBSET due
    PROVE  TotalOrder(older, S)
BY DEF DueInOrder, TotalOrder

\* A job that falls due finds its place, wherever that is.
LEMMA InsertKeepsOrder ==
    ASSUME DueInOrder, NEW j, j \notin due, NEW front \in SUBSET due, Insert(j, front), IsPlace(front)
    PROVE  DueInOrder'
<1>1. /\ due' = due \cup {j}
      /\ \A i, k : <<i, k>> \in older' <=>
            <<i, k>> \in older \/ (i \in front /\ k = j) \/ (i = j /\ k \in due \ front)
  BY DEF Insert
<1>. USE DEF IsPlace
<1>2. older' \subseteq due' \X due'
  BY DEF Insert, DueInOrder
<1>3. \A i, k \in due : <<i, k>> \in older' <=> <<i, k>> \in older
  <2>. SUFFICES ASSUME NEW i \in due, NEW k \in due
                PROVE  <<i, k>> \in older' <=> <<i, k>> \in older
    OBVIOUS
  <2>1. i # j /\ k # j
    OBVIOUS
  <2>. QED
    BY <1>1, <2>1
<1>4. \A i \in due : (<<i, j>> \in older' <=> i \in front) /\ (<<j, i>> \in older' <=> i \notin front)
  BY <1>1 DEF DueInOrder
<1>5. \A i \in due' : <<i, i>> \notin older'
  <2>1. \A i \in due : <<i, i>> \notin older'
    BY <1>3 DEF DueInOrder
  <2>2. <<j, j>> \notin older
    BY DEF DueInOrder
  <2>3. <<j, j>> \notin older'
    BY <1>1, <2>2
  <2>. QED
    BY <1>1, <2>1, <2>3
<1>6. \A i, k \in due' : i = k \/ <<i, k>> \in older' \/ <<k, i>> \in older'
  BY <1>1, <1>3, <1>4 DEF DueInOrder
<1>7. ASSUME NEW i \in due', NEW k \in due', NEW l \in due', <<i, k>> \in older', <<k, l>> \in older'
      PROVE  <<i, l>> \in older'
  <2>1. CASE i = j
    BY <1>1, <1>3, <1>4, <1>5, <1>7, <2>1
  <2>2. CASE k = j
    <3>1. i \in front /\ l \in due \ front
      BY <1>1, <1>4, <1>5, <1>7, <2>2
    <3>2. <<l, i>> \notin older /\ i # l
      BY <3>1
    <3>. QED
      BY <1>3, <3>1, <3>2 DEF DueInOrder
  <2>3. CASE l = j
    BY <1>1, <1>3, <1>4, <1>5, <1>7, <2>3
  <2>4. CASE i # j /\ k # j /\ l # j
    BY <1>1, <1>3, <1>7, <2>4 DEF DueInOrder
  <2>. QED
    BY <2>1, <2>2, <2>3, <2>4
<1>. QED
  BY <1>2, <1>5, <1>6, <1>7 DEF DueInOrder

\* Jobs that are due no more leave the others in their order.
LEMMA RemoveKeepsOrder ==
    ASSUME DueInOrder, NEW S, Remove(S)
    PROVE  DueInOrder'
BY DEF DueInOrder, Remove

-------------------------------------------------------------------------------
\* A rank is a positive number, and of two jobs of a customer the older one's is lower.
LEMMA RankType ==
    ASSUME TypeOK, NEW j \in due
    PROVE  Rank(j) \in Nat \ {0}
<1>. DEFINE S == {k \in due : UserOf[k] = UserOf[j] /\ AtLeastAsOld(k, j)}
<1>1. j \in S /\ S \subseteq due
  BY DEF AtLeastAsOld
<1>2. IsFiniteSet(S) /\ Cardinality(S) \in Nat
  BY <1>1, DueFinite DEF TypeOK
<1>3. Rank(j) = Cardinality(S)
  BY DEF Rank
<1>. HIDE DEF S
<1>4. Cardinality(S) # 0
  BY <1>1, <1>2, FS_EmptySet
<1>. QED
  BY <1>2, <1>3, <1>4

LEMMA OlderRanksLower ==
    ASSUME TypeOK, NEW j \in due, NEW k \in due, UserOf[k] = UserOf[j], <<k, j>> \in older
    PROVE  Rank(k) < Rank(j)
<1>. DEFINE UpTo(i) == {l \in due : UserOf[l] = UserOf[i] /\ AtLeastAsOld(l, i)}
            A == UpTo(k)
            B == UpTo(j)
<1>1. A \subseteq B /\ j \in B /\ j \notin A /\ B \subseteq due
  BY DEF AtLeastAsOld, TypeOK, DueInOrder
<1>2. Rank(k) = Cardinality(A) /\ Rank(j) = Cardinality(B)
  BY DEF Rank
<1>. HIDE DEF A, B
<1>3. IsFiniteSet(B)
  BY <1>1, DueFinite DEF TypeOK
<1>4. IsFiniteSet(A) /\ Cardinality(A) <= Cardinality(B) /\ Cardinality(A) # Cardinality(B)
  BY <1>1, <1>3, FS_Subset
<1>. QED
  BY <1>2, <1>4, RankType

\* The order in which the fairness pass takes the ranked jobs, as a set of pairs.
Turns == {p \in Ranked \X Ranked : TakenBefore(p[1], p[2])}

LEMMA TurnsInOrder ==
    ASSUME TypeOK
    PROVE  /\ TotalOrder(Turns, Ranked)
           /\ \A j, k \in Ranked : <<k, j>> \in Turns <=> TakenBefore(k, j)
<1>1. \A j, k \in Ranked : <<k, j>> \in Turns <=> TakenBefore(k, j)
  BY DEF Turns
<1>2. \A j \in Ranked : Rank(j) \in Nat /\ j \in Nat
  BY RankType, ClaimAssumption DEF Ranked, TypeOK
<1>. HIDE DEF Turns
<1>3. \A j \in Ranked : ~TakenBefore(j, j)
  BY <1>2 DEF TakenBefore
<1>4. \A i, j \in Ranked : i = j \/ TakenBefore(i, j) \/ TakenBefore(j, i)
  BY <1>2 DEF TakenBefore
<1>5. \A i, j, k \in Ranked : TakenBefore(i, j) /\ TakenBefore(j, k) => TakenBefore(i, k)
  BY <1>2 DEF TakenBefore
<1>. QED
  BY <1>1, <1>3, <1>4, <1>5 DEF TotalOrder

\* The fairness pass takes no more than a batch, and all that is ranked if that is less.
LEMMA FairIdsBound ==
    ASSUME TypeOK
    PROVE  /\ FairIds \subseteq Ranked /\ Ranked \subseteq due
           /\ IsFiniteSet(FairIds) /\ Cardinality(FairIds) <= BatchSize
           /\ Cardinality(FairIds) = BatchSize \/ FairIds = Ranked
<1>1. Ranked \subseteq due /\ FairIds \subseteq Ranked
  BY DEF Ranked, FairIds
<1>2. IsFiniteSet(Ranked)
  BY <1>1, DueFinite DEF TypeOK
<1>3. FairIds = {j \in Ranked : Cardinality(Before(Turns, Ranked, j)) < BatchSize}
  <2>1. \A j \in Ranked : Before(Turns, Ranked, j) = {k \in Ranked : TakenBefore(k, j)}
    BY TurnsInOrder DEF Before
  <2>. QED
    BY <2>1 DEF FairIds
<1>. QED
  BY <1>1, <1>2, <1>3, TurnsInOrder, FirstN, ClaimAssumption

\* The oldest n free rows are at most n, and n unless they are all.
LEMMA OldestFreeBound ==
    ASSUME TypeOK, NEW r, NEW n \in Nat
    PROVE  /\ OldestFree(r, n) \subseteq Free(r)
           /\ IsFiniteSet(OldestFree(r, n)) /\ Cardinality(OldestFree(r, n)) <= n
           /\ Cardinality(OldestFree(r, n)) = n \/ OldestFree(r, n) = Free(r)
<1>. DEFINE free == Free(r)
<1>1. OldestFree(r, n) = {j \in free : Cardinality(Before(older, free, j)) < n}
  BY DEF OldestFree, Before
<1>2. IsFiniteSet(free) /\ TotalOrder(older, free)
  BY DueFinite, DueOrdered DEF TypeOK, Free
<1>. HIDE DEF free
<1>3. OldestFree(r, n) \subseteq free
  BY <1>1
<1>4. IsFiniteSet(OldestFree(r, n)) /\ Cardinality(OldestFree(r, n)) <= n
      /\ (Cardinality(OldestFree(r, n)) = n \/ OldestFree(r, n) = free)
  BY <1>1, <1>2, FirstN
<1>. QED
  BY <1>3, <1>4 DEF free

-------------------------------------------------------------------------------
\* Types and exclusion depend on each other: that an open claim holds due jobs keeps its size.
ClaimInv == TypeOK /\ ClaimsExclude

\* What a relay has locked is locked.
LEMMA OpenRowsLocked == \A r \in Relays : OpenRows(r) \subseteq RowsLocked
BY DEF RowsLocked

\* The step of one relay keeps claims exclusive if it takes only due jobs nobody has locked, and
\* removes none that another has locked.
LEMMA ExcludeStep ==
    ASSUME ClaimsExclude, NEW r \in Relays,
           \A r1 \in Relays \ {r} : phase'[r1] = phase[r1] /\ hand'[r1] = hand[r1],
           \A r1 \in Relays \ {r} : OpenRows(r1) \subseteq due' /\ OpenRows(r1) \cap OpenRows(r)' = {},
           OpenRows(r)' \subseteq due' \ atWorker, UNCHANGED atWorker
    PROVE  ClaimsExclude'
<1>1. \A r1 \in Relays \ {r} : OpenRows(r1)' = OpenRows(r1)
  BY DEF OpenRows
<1>. HIDE DEF OpenRows
<1>. QED
  BY <1>1 DEF ClaimsExclude

\* The first pass of a claim takes fair rows that nobody has locked.
LEMMA FairPassStep ==
    ASSUME ClaimInv, NEW r \in Relays, FairPass(r)
    PROVE  ClaimInv'
<1>. TypeOK /\ ClaimsExclude
  BY DEF ClaimInv
<1>1. FairRows \subseteq due \ RowsLocked /\ Cardinality(FairRows) <= BatchSize /\ FairRows \subseteq Jobs
  <2>1. FairRows \subseteq FairIds
    BY DEF FairRows
  <2>2. IsFiniteSet(FairRows) /\ Cardinality(FairRows) <= Cardinality(FairIds)
    BY <2>1, FairIdsBound, FS_Subset
  <2>3. Cardinality(FairRows) \in Nat /\ Cardinality(FairIds) \in Nat
    BY <2>2, FairIdsBound, FS_CardinalityType
  <2>4. Cardinality(FairIds) <= BatchSize /\ BatchSize \in Nat
    BY FairIdsBound, ClaimAssumption
  <2>5. Cardinality(FairRows) <= BatchSize
    BY <2>2, <2>3, <2>4
  <2>6. FairIds \subseteq due /\ due \subseteq Jobs
    BY FairIdsBound DEF TypeOK
  <2>. QED
    BY <2>1, <2>5, <2>6 DEF FairRows
<1>2. /\ hand' = [hand EXCEPT ![r] = FairRows] /\ UNCHANGED <<due, older, lockedBy, later, atWorker, faults>>
      /\ \E next \in {"top up", "commit"} : phase' = [phase EXCEPT ![r] = next]
  BY DEF FairPass
<1>3. /\ phase' \in [Relays -> Phases] /\ hand' \in [Relays -> SUBSET Jobs]
      /\ \A r1 \in Relays : Cardinality(hand'[r1]) <= BatchSize
  BY <1>1, <1>2 DEF TypeOK, Phases
<1>4. TypeOK'
  <2>1. due' \subseteq Jobs /\ DueInOrder'
    BY <1>2 DEF TypeOK, DueInOrder
  <2>. QED
    BY <1>2, <1>3, <2>1 DEF TypeOK
<1>5. OpenRows(r)' = FairRows
  BY <1>2 DEF OpenRows, TypeOK
<1>6. ClaimsExclude'
  <2>1. \A r1 \in Relays \ {r} : phase'[r1] = phase[r1] /\ hand'[r1] = hand[r1]
    BY <1>2 DEF TypeOK
  <2>2. \A r1 \in Relays \ {r} : OpenRows(r1) \subseteq due' /\ OpenRows(r1) \cap FairRows = {}
    BY <1>1, <1>2, OpenRowsLocked DEF ClaimsExclude
  <2>3. FairRows \subseteq due' \ atWorker
    BY <1>1, <1>2 DEF RowsLocked
  <2>. QED
    BY <1>1, <1>2, <1>5, <2>1, <2>2, <2>3, ExcludeStep
<1>. QED
  BY <1>4, <1>6 DEF ClaimInv

\* What a top-up adds: free rows, as many as there is room for, or all that are left.
LEMMA TopUpTakes ==
    ASSUME ClaimInv, NEW r \in Relays, TopUp(r)
    PROVE  /\ hand'[r] \subseteq due \ atWorker
           /\ \A r1 \in Relays \ {r} : hand'[r1] = hand[r1] /\ hand'[r] \cap OpenRows(r1) = {}
           /\ Cardinality(hand'[r]) <= BatchSize
           /\ Cardinality(hand'[r]) = BatchSize \/ due \ later[r] \subseteq hand'[r] \cup RowsLocked
<1>. TypeOK /\ ClaimsExclude
  BY DEF ClaimInv
<1>. DEFINE more == OldestFree(r, Remaining(r))
            had == hand[r]
<1>1. hand' = [hand EXCEPT ![r] = had \cup more] /\ phase[r] = "top up"
  BY DEF TopUp
<1>2. hand'[r] = had \cup more /\ \A r1 \in Relays \ {r} : hand'[r1] = hand[r1]
  BY <1>1 DEF TypeOK
<1>3. had = OpenRows(r) /\ had \subseteq due \ atWorker /\ had \subseteq RowsLocked
  BY <1>1, OpenRowsLocked DEF OpenRows, ClaimsExclude
<1>4. IsFiniteSet(had) /\ Cardinality(had) \in Nat /\ Cardinality(had) <= BatchSize
  BY <1>3, DueFinite DEF TypeOK
<1>5. Remaining(r) \in Nat /\ Remaining(r) = BatchSize - Cardinality(had)
  BY <1>4, ClaimAssumption DEF Remaining
<1>6. /\ more \subseteq due \ RowsLocked /\ IsFiniteSet(more) /\ Cardinality(more) <= Remaining(r)
      /\ Cardinality(more) = Remaining(r) \/ more = due \ (later[r] \cup RowsLocked)
  BY <1>5, OldestFreeBound DEF Free
<1>. HIDE DEF more, had
<1>7. had \cap more = {}
  BY <1>3, <1>6
<1>8. IsFiniteSet(had \cup more)
  BY <1>4, <1>6, FS_Union
<1>9. Cardinality(had \cup more) = Cardinality(had) + Cardinality(more) /\ Cardinality(more) \in Nat
  BY <1>7, <1>8, CountParts
<1>10. \A r1 \in Relays \ {r} : hand'[r] \cap OpenRows(r1) = {}
  BY <1>2, <1>3, <1>6, OpenRowsLocked DEF ClaimsExclude
<1>11. BatchSize \in Nat
  BY ClaimAssumption
<1>12. more \subseteq due \ atWorker
  BY <1>6 DEF RowsLocked
<1>. QED
  BY <1>2, <1>3, <1>4, <1>5, <1>6, <1>9, <1>10, <1>11, <1>12

\* The second pass keeps the invariant.
LEMMA TopUpStep ==
    ASSUME ClaimInv, NEW r \in Relays, TopUp(r)
    PROVE  ClaimInv'
<1>. TypeOK /\ ClaimsExclude
  BY DEF ClaimInv
<1>1. /\ phase' = [phase EXCEPT ![r] = "commit"] /\ UNCHANGED <<due, older, lockedBy, atWorker, faults>>
      /\ later' = [later EXCEPT ![r] = {}]
      /\ \E rows : hand' = [hand EXCEPT ![r] = rows]
  BY DEF TopUp
<1>2. /\ hand'[r] \subseteq due \ atWorker
      /\ \A r1 \in Relays \ {r} : hand'[r1] = hand[r1] /\ hand'[r] \cap OpenRows(r1) = {}
      /\ Cardinality(hand'[r]) <= BatchSize
  BY TopUpTakes
<1>3. TypeOK'
  <2>1. hand' \in [Relays -> SUBSET Jobs] /\ \A r1 \in Relays : Cardinality(hand'[r1]) <= BatchSize
    BY <1>1, <1>2 DEF TypeOK
  <2>2. due' \subseteq Jobs /\ DueInOrder'
    BY <1>1 DEF TypeOK, DueInOrder
  <2>. QED
    BY <1>1, <2>1, <2>2 DEF TypeOK, Phases
<1>4. OpenRows(r)' = hand'[r]
  BY <1>1 DEF OpenRows, TypeOK
<1>5. \A r1 \in Relays \ {r} : phase'[r1] = phase[r1]
  BY <1>1 DEF TypeOK
<1>6. \A r1 \in Relays \ {r} : OpenRows(r1) \subseteq due'
  BY <1>1 DEF ClaimsExclude
<1>7. ClaimsExclude'
  BY <1>1, <1>2, <1>4, <1>5, <1>6, ExcludeStep
<1>. QED
  BY <1>3, <1>7 DEF ClaimInv

\* Taking jobs out of the due ones, or putting one in, keeps them typed and in order.
LEMMA DueTypeKept ==
    ASSUME due \subseteq Jobs, DueInOrder,
           \/ \E S : Remove(S)
           \/ \E j \in Jobs \ due, front \in SUBSET due :
                Insert(j, front) /\ IsPlace(front)
    PROVE  due' \subseteq Jobs /\ DueInOrder'
<1>1. CASE \E S : Remove(S)
  BY <1>1, RemoveKeepsOrder DEF Remove
<1>2. ASSUME NEW j \in Jobs \ due, NEW front \in SUBSET due, Insert(j, front), IsPlace(front)
      PROVE  due' \subseteq Jobs /\ DueInOrder'
  BY <1>2, InsertKeepsOrder DEF Insert
<1>. QED
  BY <1>1, <1>2

\* A step that adds a job keeps the invariant.
LEMMA InsertStep ==
    ASSUME ClaimInv, NEW j \in Jobs \ due, NEW front \in SUBSET due, Insert(j, front), IsPlace(front),
           UNCHANGED <<lockedBy, phase, hand, atWorker>>, FallsDue(j) \/ UNCHANGED later,
           faults' \in 0..MaxFaults
    PROVE  ClaimInv'
<1>. TypeOK /\ ClaimsExclude
  BY DEF ClaimInv
<1>1. due' \subseteq Jobs /\ DueInOrder'
  BY DueTypeKept DEF TypeOK
<1>2. later' \in [Relays -> SUBSET Jobs]
  <2>1. CASE FallsDue(j)
    <3>1. later' = [r \in Relays |-> IF phase[r] = "top up" THEN later[r] \cup {j} ELSE later[r]]
      BY <2>1 DEF FallsDue
    <3>2. later \in [Relays -> SUBSET Jobs] /\ {j} \subseteq Jobs
      BY DEF TypeOK
    <3>3. \A r \in Relays :
            (IF phase[r] = "top up" THEN later[r] \cup {j} ELSE later[r]) \in SUBSET Jobs
      BY <3>2
    <3>. QED
      BY <3>1, <3>3
  <2>2. CASE UNCHANGED later
    BY <2>2 DEF TypeOK
  <2>. QED
    BY <2>1, <2>2
<1>3. TypeOK'
  BY <1>1, <1>2 DEF TypeOK
<1>4. ClaimsExclude'
  BY DEF ClaimsExclude, OpenRows, Insert
<1>. QED
  BY <1>3, <1>4 DEF ClaimInv

\* A worker locks only rows that no relay has locked, and takes only what it has locked: whichever
\* rows it gives back, those of open claims stay due.
LEMMA WorkerStepKeeps ==
    ASSUME ClaimInv, NEW j \in Jobs, WorkerLocks(j) \/ WorkerStep(j)
    PROVE  ClaimInv'
<1>. TypeOK /\ ClaimsExclude
  BY DEF ClaimInv
<1>1. \A r \in Relays : OpenRows(r)' = OpenRows(r)
  BY DEF WorkerLocks, WorkerStep, WorkerTakes, WorkerDrops, OpenRows
<1>2. CASE WorkerLocks(j)
  <2>1. faults' \in 0..MaxFaults
    BY <1>2, ClaimAssumption DEF WorkerLocks, Fault, TypeOK
  <2>2. TypeOK'
    BY <1>2, <2>1 DEF WorkerLocks, TypeOK, DueInOrder
  <2>3. \A r \in Relays : OpenRows(r) \subseteq due' \ atWorker'
    BY <1>2, OpenRowsLocked DEF WorkerLocks, ClaimsExclude
  <2>4. ClaimsExclude'
    BY <1>1, <2>3 DEF ClaimsExclude
  <2>. QED
    BY <2>2, <2>4 DEF ClaimInv
<1>3. CASE WorkerTakes(j)
  <2>1. Remove({j}) /\ atWorker' = atWorker \ {j} /\ lockedBy' = [lockedBy EXCEPT ![j] = None]
        /\ j \in atWorker /\ UNCHANGED <<phase, hand, later, faults>>
    BY <1>3 DEF WorkerTakes
  <2>2. due' \subseteq Jobs /\ DueInOrder'
    BY <2>1, DueTypeKept DEF TypeOK
  <2>3. TypeOK'
    BY <2>1, <2>2 DEF TypeOK
  <2>4. \A r \in Relays : OpenRows(r) \subseteq due' \ atWorker'
    BY <2>1 DEF ClaimsExclude, Remove
  <2>5. ClaimsExclude'
    BY <1>1, <2>4 DEF ClaimsExclude
  <2>. QED
    BY <2>3, <2>5 DEF ClaimInv
<1>4. CASE WorkerDrops(j)
  <2>1. TypeOK'
    BY <1>4 DEF WorkerDrops, TypeOK, DueInOrder
  <2>2. ClaimsExclude'
    BY <1>1, <1>4 DEF WorkerDrops, ClaimsExclude
  <2>. QED
    BY <2>1, <2>2 DEF ClaimInv
<1>. QED
  BY <1>2, <1>3, <1>4 DEF WorkerStep

\* Every step keeps the invariant.
LEMMA ClaimInvStep == ClaimInv /\ [Next]_vars => ClaimInv'
<1>. SUFFICES ASSUME ClaimInv, [Next]_vars PROVE ClaimInv'
  OBVIOUS
<1>. TypeOK /\ ClaimsExclude
  BY DEF ClaimInv
<1>1. ASSUME NEW r \in Relays, FairPass(r)
      PROVE  ClaimInv'
  BY <1>1, FairPassStep
<1>2. ASSUME NEW r \in Relays, TopUp(r)
      PROVE  ClaimInv'
  BY <1>2, TopUpStep
<1>3. ASSUME NEW r \in Relays, CommitClaim(r)
      PROVE  ClaimInv'
  <2>1. /\ Remove(hand[r]) /\ phase[r] = "commit" /\ UNCHANGED <<hand, later, atWorker, faults>>
        /\ lockedBy' = [j \in Jobs |-> IF j \in hand[r] THEN r ELSE lockedBy[j]]
        /\ \E next \in {"claim", "publish"} : phase' = [phase EXCEPT ![r] = next]
    BY <1>3 DEF CommitClaim
  <2>2. due' \subseteq Jobs /\ DueInOrder'
    BY <2>1, DueTypeKept DEF TypeOK
  <2>3. TypeOK'
    BY <2>1, <2>2 DEF TypeOK, Phases
  <2>4. OpenRows(r) = hand[r] /\ OpenRows(r)' = {}
    BY <2>1 DEF OpenRows, TypeOK
  <2>5. \A r1 \in Relays \ {r} : phase'[r1] = phase[r1] /\ hand'[r1] = hand[r1]
    BY <2>1 DEF TypeOK
  <2>6. \A r1 \in Relays \ {r} : OpenRows(r1) \subseteq due'
    BY <2>1, <2>4 DEF ClaimsExclude, Remove
  <2>7. ClaimsExclude'
    BY <2>1, <2>4, <2>5, <2>6, ExcludeStep
  <2>. QED
    BY <2>3, <2>7 DEF ClaimInv
<1>4. ASSUME NEW r \in Relays, Publish(r)
      PROVE  ClaimInv'
  <2>. DEFINE mine == {j \in Jobs : StillClaimedBy(r, j)}
  <2>1. /\ Remove(mine) /\ mine \cap RowsLocked = {} /\ UNCHANGED <<later, atWorker, faults>>
        /\ lockedBy' = [j \in Jobs |-> IF j \in mine THEN None ELSE lockedBy[j]]
        /\ hand' = [hand EXCEPT ![r] = {}] /\ phase' = [phase EXCEPT ![r] = "claim"]
    BY <1>4 DEF Publish
  <2>. HIDE DEF mine
  <2>2. due' \subseteq Jobs /\ DueInOrder'
    BY <2>1, DueTypeKept DEF TypeOK
  <2>3. Cardinality({}) <= BatchSize
    BY FS_EmptySet, ClaimAssumption
  <2>4. TypeOK'
    BY <2>1, <2>2, <2>3 DEF TypeOK, Phases
  <2>5. OpenRows(r)' = {}
    BY <2>1 DEF OpenRows, TypeOK
  <2>6. \A r1 \in Relays \ {r} : phase'[r1] = phase[r1] /\ hand'[r1] = hand[r1]
    BY <2>1 DEF TypeOK
  <2>7. \A r1 \in Relays \ {r} : OpenRows(r1) \subseteq due'
    BY <2>1, OpenRowsLocked DEF ClaimsExclude, Remove
  <2>8. ClaimsExclude'
    BY <2>1, <2>5, <2>6, <2>7, ExcludeStep
  <2>. QED
    BY <2>4, <2>8 DEF ClaimInv
<1>5. ASSUME NEW r \in Relays, RelayCrash(r)
      PROVE  ClaimInv'
  <2>1. /\ lockedBy' = [j \in Jobs |-> IF lockedBy[j] = r THEN Dead ELSE lockedBy[j]]
        /\ hand' = [hand EXCEPT ![r] = {}] /\ phase' = [phase EXCEPT ![r] = "claim"]
        /\ later' = [later EXCEPT ![r] = {}] /\ UNCHANGED <<due, older, atWorker>>
        /\ faults > 0 /\ faults' = faults - 1
    BY <1>5 DEF RelayCrash, Fault
  <2>2. Cardinality({}) <= BatchSize
    BY FS_EmptySet, ClaimAssumption
  <2>3. TypeOK'
    <3>1. faults' \in 0..MaxFaults
      BY <2>1, ClaimAssumption DEF TypeOK
    <3>2. due' \subseteq Jobs /\ DueInOrder'
      BY <2>1 DEF TypeOK, DueInOrder
    <3>3. lockedBy' \in [Jobs -> Relays \cup {None, Dead}]
      BY <2>1 DEF TypeOK
    <3>4. /\ phase' \in [Relays -> Phases] /\ hand' \in [Relays -> SUBSET Jobs]
          /\ later' \in [Relays -> SUBSET Jobs] /\ atWorker' \subseteq Jobs
      BY <2>1 DEF TypeOK, Phases
    <3>5. \A r1 \in Relays : Cardinality(hand'[r1]) <= BatchSize
      BY <2>1, <2>2 DEF TypeOK
    <3>. QED
      BY <3>1, <3>2, <3>3, <3>4, <3>5 DEF TypeOK
  <2>4. OpenRows(r)' = {}
    BY <2>1 DEF OpenRows, TypeOK
  <2>5. \A r1 \in Relays \ {r} : phase'[r1] = phase[r1] /\ hand'[r1] = hand[r1]
    BY <2>1 DEF TypeOK
  <2>6. \A r1 \in Relays \ {r} : OpenRows(r1) \subseteq due'
    BY <2>1 DEF ClaimsExclude
  <2>7. ClaimsExclude'
    BY <2>1, <2>4, <2>5, <2>6, ExcludeStep
  <2>. QED
    BY <2>3, <2>7 DEF ClaimInv
<1>6. ASSUME NEW j \in Jobs, Arrive(j)
      PROVE  ClaimInv'
  <2>1. IsPlace(due)
    BY DEF IsPlace
  <2>. QED
    BY <1>6, <2>1, InsertStep DEF Arrive, TypeOK
<1>7. ASSUME NEW j \in Jobs, NEW front \in SUBSET due, LeaseOver(j, front)
      PROVE  ClaimInv'
  <2>1. faults' \in 0..MaxFaults
    BY <1>7, ClaimAssumption DEF LeaseOver, Fault, TypeOK
  <2>. QED
    BY <1>7, <2>1, InsertStep DEF LeaseOver
<1>8. ASSUME NEW j \in Jobs, NEW front \in SUBSET due, LateCommit(j, front)
      PROVE  ClaimInv'
  <2>1. faults' \in 0..MaxFaults
    BY <1>8, ClaimAssumption DEF LateCommit, Fault, TypeOK
  <2>. QED
    BY <1>8, <2>1, InsertStep DEF LateCommit
<1>9. ASSUME NEW j \in Jobs, WorkerLocks(j) \/ WorkerStep(j)
      PROVE  ClaimInv'
  BY <1>9, WorkerStepKeeps
<1>10. CASE UNCHANGED vars
  BY <1>10 DEF vars, ClaimInv, TypeOK, DueInOrder, ClaimsExclude, OpenRows
<1>. QED
  BY <1>1, <1>2, <1>3, <1>4, <1>5, <1>6, <1>7, <1>8, <1>9, <1>10 DEF Next, RelayStep

\* The invariant holds in every reachable state.
LEMMA ClaimInvCorrect == Spec => []ClaimInv
<1>1. Init => ClaimInv
  <2>1. Cardinality({}) <= BatchSize /\ MaxFaults \in 0..MaxFaults
    BY FS_EmptySet, ClaimAssumption
  <2>. QED
    BY <2>1, ClaimAssumption DEF Init, ClaimInv, TypeOK, Phases, DueInOrder, ClaimsExclude, OpenRows
<1>. QED
  BY <1>1, ClaimInvStep, PTL DEF Spec

\* Type correctness of every reachable state: the due jobs stay in order, and no batch outgrows its
\* limit, though two passes fill it.
THEOREM ClaimTypeCorrect == Spec => []TypeOK
<1>1. ClaimInv => TypeOK
  BY DEF ClaimInv
<1>. QED
  BY <1>1, ClaimInvCorrect, PTL

\* No job is about to be claimed by two relays, or once it is due no more.
THEOREM NoDoubleClaim == Spec => []ClaimsExclude
<1>1. ClaimInv => ClaimsExclude
  BY DEF ClaimInv
<1>. QED
  BY <1>1, ClaimInvCorrect, PTL

\* A relay that ends its claim has filled its batch, or leaves no job that was due when it began
\* and that nobody has locked.
THEOREM BatchesAreFull == Spec => NoRoomWasted
<1>1. ASSUME ClaimInv, [Next]_vars, NEW r \in Relays, phase[r] # "commit", phase'[r] = "commit"
      PROVE  Cardinality(hand'[r]) = BatchSize \/ due \ later[r] \subseteq hand'[r] \cup RowsLocked
  <2>. phase \in [Relays -> Phases] /\ hand \in [Relays -> SUBSET Jobs]
    BY <1>1 DEF ClaimInv, TypeOK
  <2>1. ASSUME NEW r1 \in Relays, FairPass(r1)
        PROVE  Cardinality(hand'[r]) = BatchSize
    <3>1. r1 = r
      BY <1>1, <2>1 DEF FairPass
    <3>2. hand'[r] = FairRows /\ ~(Cardinality(FairRows) < BatchSize)
      BY <1>1, <2>1, <3>1 DEF FairPass
    <3>3. ClaimInv'
      BY <1>1, ClaimInvStep
    <3>4. Cardinality(FairRows) <= BatchSize
      BY <3>2, <3>3 DEF ClaimInv, TypeOK
    <3>5. Cardinality(FairRows) \in Nat
      BY <1>1, DueFinite, FairIdsBound DEF FairRows, ClaimInv, TypeOK
    <3>. QED
      BY <3>2, <3>4, <3>5, ClaimAssumption
  <2>2. ASSUME NEW r1 \in Relays, TopUp(r1)
        PROVE  Cardinality(hand'[r]) = BatchSize \/ due \ later[r] \subseteq hand'[r] \cup RowsLocked
    <3>1. r1 = r
      BY <1>1, <2>2 DEF TopUp
    <3>. QED
      BY <1>1, <2>2, <3>1, TopUpTakes
  <2>3. ASSUME NEW r1 \in Relays, CommitClaim(r1) \/ Publish(r1) \/ RelayCrash(r1)
        PROVE  FALSE
    BY <1>1, <2>3 DEF CommitClaim, Publish, RelayCrash
  <2>4. ASSUME UNCHANGED phase
        PROVE  FALSE
    BY <1>1, <2>4
  <2>. QED
    BY <1>1, <2>1, <2>2, <2>3, <2>4 DEF Next, RelayStep, Arrive, LateCommit, LeaseOver,
    WorkerLocks, WorkerStep, WorkerTakes, WorkerDrops, vars
<1>2. ClaimInv /\ [Next]_vars =>
        [\A r \in Relays :
            phase[r] # "commit" /\ phase'[r] = "commit" =>
            Cardinality(hand'[r]) = BatchSize \/ due \ later[r] \subseteq hand'[r] \cup RowsLocked]_vars
  BY <1>1
<1>. QED
  BY <1>2, ClaimInvCorrect, PTL DEF Spec, NoRoomWasted

-------------------------------------------------------------------------------
\* Jobs of a customer with ranks up to n are at most n.
LEMMA RanksNumber ==
    ASSUME TypeOK, NEW w, NEW n \in Nat, NEW T \in SUBSET due,
           \A j \in T : UserOf[j] = w /\ Rank(j) <= n
    PROVE  Cardinality(T) \in Nat /\ Cardinality(T) <= n
<1>. DEFINE f == [j \in T |-> Rank(j)]
<1>1. \A j \in T : Rank(j) \in 1..n
  BY RankType
<1>2. \A i, j \in T : Rank(i) = Rank(j) => i = j
  <2>. SUFFICES ASSUME NEW i \in T, NEW j \in T, i # j PROVE Rank(i) # Rank(j)
    OBVIOUS
  <2>1. <<i, j>> \in older \/ <<j, i>> \in older
    BY DEF TypeOK, DueInOrder
  <2>2. Rank(i) < Rank(j) \/ Rank(j) < Rank(i)
    BY <2>1, OlderRanksLower
  <2>. QED
    BY <1>1, <2>2
<1>3. f \in [T -> 1..n] /\ \A i, j \in T : f[i] = f[j] => i = j
  BY <1>1, <1>2
<1>. HIDE DEF f
<1>. QED
  BY <1>3, CountNumbered

\* With a place for every customer, the oldest due job of each is among the fair ones.
LEMMA FirstTurn ==
    ASSUME TypeOK, Cardinality(Users) <= BatchSize, NEW u \in {UserOf[j] : j \in due}
    PROVE  \E j \in FairIds : UserOf[j] = u /\ \A k \in due : UserOf[k] = u => AtLeastAsOld(j, k)
<1>. DEFINE mine == {j \in due : UserOf[j] = u}
            others == Users \ {u}
<1>1. /\ IsFiniteSet(due) /\ TotalOrder(older, due)
      /\ mine \in SUBSET due /\ mine # {}
  BY DueFinite, DueOrdered DEF TypeOK
<1>. HIDE DEF mine
<1>2. PICK j \in mine : \A k \in mine : k = j \/ <<j, k>> \in older
  BY <1>1, FirstOf
<1>. USE DEF mine
<1>3. j \in due /\ UserOf[j] = u /\ \A k \in due : UserOf[k] = u => AtLeastAsOld(j, k)
  BY <1>2 DEF AtLeastAsOld
<1>4. Rank(j) = 1
  <2>1. \A k \in due : UserOf[k] = u /\ AtLeastAsOld(k, j) => k = j
    BY <1>3 DEF AtLeastAsOld, TypeOK, DueInOrder
  <2>2. {k \in due : UserOf[k] = UserOf[j] /\ AtLeastAsOld(k, j)} = {j}
    BY <1>3, <2>1 DEF AtLeastAsOld
  <2>. QED
    BY <2>2, FS_Singleton DEF Rank
<1>5. j \in Ranked
  BY <1>3, <1>4, ClaimAssumption DEF Ranked
<1>. DEFINE earlier == {k \in Ranked : TakenBefore(k, j)}
            f == [k \in earlier |-> UserOf[k]]
<1>6. \A k \in earlier : k \in due /\ Rank(k) = 1 /\ UserOf[k] # u
  <2>. SUFFICES ASSUME NEW k \in earlier PROVE k \in due /\ Rank(k) = 1 /\ UserOf[k] # u
    OBVIOUS
  <2>1. k \in due /\ Rank(k) = 1 /\ k < j
    BY <1>4, RankType DEF Ranked, TakenBefore
  <2>2. k # j
    BY <1>3, <2>1, ClaimAssumption DEF TypeOK
  <2>3. UserOf[k] = u => Rank(j) < Rank(k)
    BY <1>2, <1>3, <2>1, <2>2, OlderRanksLower
  <2>. QED
    BY <1>4, <2>1, <2>3
<1>7. \A k, l \in earlier : UserOf[k] = UserOf[l] => k = l
  <2>. SUFFICES ASSUME NEW k \in earlier, NEW l \in earlier, UserOf[k] = UserOf[l], k # l
                PROVE  FALSE
    OBVIOUS
  <2>1. <<k, l>> \in older \/ <<l, k>> \in older
    BY <1>6 DEF TypeOK, DueInOrder
  <2>2. Rank(k) < Rank(l) \/ Rank(l) < Rank(k)
    BY <1>6, <2>1, OlderRanksLower
  <2>. QED
    BY <1>6, <2>2
<1>8. IsFiniteSet(Users) /\ u \in Users
  <2>. DEFINE g == [i \in Jobs |-> UserOf[i]]
  <2>1. g \in Surjection(Jobs, Users)
    BY DEF Users, Surjection
  <2>. HIDE DEF g
  <2>2. IsFiniteSet(Users)
    BY <2>1, FS_Surjection, ClaimAssumption
  <2>3. u \in Users
    BY DEF Users, TypeOK
  <2>. QED
    BY <2>2, <2>3
<1>9. IsFiniteSet(others) /\ Cardinality(others) = Cardinality(Users) - 1 /\ Cardinality(Users) \in Nat
  BY <1>8, FS_RemoveElement, FS_CardinalityType
<1>10. f \in Injection(earlier, others)
  <2>1. \A k \in earlier : UserOf[k] \in others
    BY <1>6 DEF Users, TypeOK
  <2>. HIDE DEF earlier, others
  <2>. QED
    BY <1>7, <2>1 DEF Injection, IsInjective
<1>. HIDE DEF earlier, others, f
<1>11. IsFiniteSet(earlier) /\ Cardinality(earlier) <= Cardinality(others)
  BY <1>9, <1>10, FS_Injection
<1>12. Cardinality(earlier) < BatchSize
  BY <1>9, <1>11, FS_CardinalityType, ClaimAssumption
<1>13. j \in FairIds
  BY <1>5, <1>12 DEF FairIds, earlier
<1>. QED
  BY <1>3, <1>13

\* Who has more than one fair job fewer than another is at the limit, or has no more due jobs.
LEMMA FairShares ==
    ASSUME TypeOK, NEW u, NEW v, Share(v, FairIds) < Share(u, FairIds) - 1
    PROVE  Share(v, FairIds) = PerUserLimit \/ Share(v, FairIds) = Share(v, due)
<1>. DEFINE Of(w) == {j \in FairIds : UserOf[j] = w}
            ofU == Of(u)
            ofV == Of(v)
            rest == {j \in due : UserOf[j] = v} \ ofV
<1>1. FairIds \subseteq Ranked /\ Ranked \subseteq due /\ IsFiniteSet(Ranked)
  BY FairIdsBound, DueFinite DEF TypeOK
<1>2. /\ ofU \in SUBSET due /\ ofV \in SUBSET due /\ rest \in SUBSET due
      /\ \A j \in ofU : UserOf[j] = u
      /\ \A j \in ofV : UserOf[j] = v /\ Rank(j) <= PerUserLimit
  BY <1>1 DEF Ranked
<1>3. /\ Cardinality(ofU) = Share(u, FairIds) /\ Cardinality(ofV) = Share(v, FairIds)
      /\ rest = {} => Share(v, due) = Share(v, FairIds)
  <2>1. rest = {} => {j \in due : UserOf[j] = v} = ofV
    BY <1>2
  <2>. QED
    BY <2>1 DEF Share
<1>4. /\ IsFiniteSet(ofU) /\ IsFiniteSet(ofV)
      /\ Cardinality(ofU) \in Nat /\ Cardinality(ofV) \in Nat
  BY <1>2, DueFinite DEF TypeOK
<1>. HIDE DEF ofU, ofV, rest
<1>5. Cardinality(ofV) <= PerUserLimit /\ PerUserLimit \in Nat
  BY <1>2, RanksNumber, ClaimAssumption
<1>. SUFFICES ASSUME rest # {}, Cardinality(ofV) < PerUserLimit
              PROVE  FALSE
  BY <1>3, <1>4, <1>5
<1>6. PICK y \in rest : \A k \in rest : k = y \/ <<y, k>> \in older
  <2>1. IsFiniteSet(due) /\ TotalOrder(older, due)
    BY DueFinite, DueOrdered DEF TypeOK
  <2>. QED
    BY <1>2, <2>1, FirstOf
<1>7. y \in due /\ UserOf[y] = v /\ y \notin ofV
  BY <1>6 DEF rest
<1>8. Rank(y) <= Cardinality(ofV) + 1
  <2>. DEFINE upTo == {k \in due : UserOf[k] = UserOf[y] /\ AtLeastAsOld(k, y)}
  <2>1. upTo \subseteq ofV \cup {y}
    BY <1>6, <1>7 DEF rest, AtLeastAsOld, TypeOK, DueInOrder
  <2>2. Rank(y) = Cardinality(upTo)
    BY DEF Rank
  <2>. HIDE DEF upTo
  <2>3. IsFiniteSet(ofV \cup {y}) /\ Cardinality(ofV \cup {y}) = Cardinality(ofV) + 1
    BY <1>4, <1>7, FS_AddElement
  <2>. QED
    BY <2>1, <2>2, <2>3, FS_Subset
<1>9. PICK x \in ofU : ~(Rank(x) <= Cardinality(ofU) - 1)
  <2>1. Cardinality(ofU) - 1 \in Nat /\ ~(Cardinality(ofU) <= Cardinality(ofU) - 1)
    BY <1>3, <1>4
  <2>. QED
    BY <1>2, <2>1, RanksNumber
<1>10. x \in FairIds /\ x \in due
  BY <1>2, <1>9 DEF ofU
<1>11. Rank(y) \in Nat /\ Rank(x) \in Nat
  BY <1>7, <1>10, RankType
<1>12. Rank(y) < Rank(x) /\ Rank(y) <= PerUserLimit
  BY <1>3, <1>4, <1>5, <1>8, <1>9, <1>11
<1>13. y \in Ranked /\ x \in Ranked /\ <<y, x>> \in Turns
  BY <1>1, <1>7, <1>10, <1>12 DEF Ranked, Turns, TakenBefore
<1>14. /\ TotalOrder(Turns, Ranked)
       /\ \A j \in Ranked : Before(Turns, Ranked, j) = {k \in Ranked : TakenBefore(k, j)}
  BY TurnsInOrder DEF Before
<1>15. Cardinality(Before(Turns, Ranked, y)) < Cardinality(Before(Turns, Ranked, x))
  BY <1>1, <1>13, <1>14, BeforeGrows
<1>16. Cardinality(Before(Turns, Ranked, x)) < BatchSize
  BY <1>10, <1>13, <1>14 DEF FairIds
<1>17. Cardinality(Before(Turns, Ranked, y)) < BatchSize
  BY <1>1, <1>15, <1>16, BeforeType, ClaimAssumption
<1>18. y \in FairIds
  BY <1>13, <1>14, <1>17 DEF FairIds
<1>. QED
  BY <1>7, <1>18 DEF ofV

\* A step to the end of the first pass is that of the relay's own fairness pass.
LEMMA FirstPassOnly ==
    ASSUME TypeOK, [Next]_vars, NEW r \in Relays,
           phase[r] = "claim", phase'[r] \in {"top up", "commit"}
    PROVE  hand'[r] = FairRows
<1>1. ASSUME NEW r1 \in Relays, FairPass(r1)
      PROVE  r1 = r /\ hand'[r] = FairRows
  <2>1. r1 = r
    BY <1>1 DEF FairPass, TypeOK
  <2>. QED
    BY <1>1, <2>1 DEF FairPass, TypeOK
<1>2. ASSUME NEW r1 \in Relays, TopUp(r1) \/ CommitClaim(r1) \/ Publish(r1) \/ RelayCrash(r1)
      PROVE  FALSE
  BY <1>2 DEF TopUp, CommitClaim, Publish, RelayCrash, TypeOK
<1>3. ASSUME UNCHANGED phase
      PROVE  FALSE
  BY <1>3
<1>. QED
  BY <1>1, <1>2, <1>3 DEF Next, RelayStep, Arrive, LateCommit, LeaseOver,
    WorkerLocks, WorkerStep, WorkerTakes, WorkerDrops, vars

\* A first pass serves the customers alike: no one has two jobs more in it than another who had
\* more to give.
THEOREM CustomersShareAlike == Spec => RoundRobin
<1>1. ASSUME ClaimInv, [Next]_vars, NEW r \in Relays,
             phase[r] = "claim", phase'[r] \in {"top up", "commit"}, RowsLocked = {},
             NEW u \in Users, NEW v \in Users, Share(v, hand'[r]) < Share(u, hand'[r]) - 1
      PROVE  Share(v, hand'[r]) = PerUserLimit \/ Share(v, hand'[r]) = Share(v, due)
  <2>1. hand'[r] = FairIds
    BY <1>1, FirstPassOnly DEF ClaimInv, FairRows
  <2>. QED
    BY <1>1, <2>1, FairShares DEF ClaimInv
<1>2. ClaimInv /\ [Next]_vars =>
        [\A r \in Relays :
            phase[r] = "claim" /\ phase'[r] \in {"top up", "commit"} /\ RowsLocked = {} =>
            \A u, v \in Users :
                Share(v, hand'[r]) < Share(u, hand'[r]) - 1 =>
                Share(v, hand'[r]) = PerUserLimit \/ Share(v, hand'[r]) = Share(v, due)]_vars
  BY <1>1
<1>. QED
  BY <1>2, ClaimInvCorrect, PTL DEF Spec, RoundRobin

\* After a first pass the oldest job of every customer is in somebody's hand, however many jobs
\* the others have, if a batch has a place for every customer.
THEOREM NobodyIsStarved == Spec => EveryCustomerServed
<1>1. ASSUME ClaimInv, [Next]_vars, NEW r \in Relays,
             phase[r] = "claim", phase'[r] \in {"top up", "commit"}, Cardinality(Users) <= BatchSize,
             NEW u \in {UserOf[j] : j \in due}
      PROVE  \E j \in hand'[r] \cup RowsLocked :
                UserOf[j] = u /\ \A k \in due : UserOf[k] = u => AtLeastAsOld(j, k)
  <2>1. hand'[r] = FairIds \ RowsLocked
    BY <1>1, FirstPassOnly DEF ClaimInv, FairRows
  <2>2. \E j \in FairIds : UserOf[j] = u /\ \A k \in due : UserOf[k] = u => AtLeastAsOld(j, k)
    BY <1>1, FirstTurn DEF ClaimInv
  <2>. QED
    BY <2>1, <2>2
<1>2. ClaimInv /\ [Next]_vars =>
        [\A r \in Relays :
            phase[r] = "claim" /\ phase'[r] \in {"top up", "commit"} /\ Cardinality(Users) <= BatchSize =>
            \A u \in {UserOf[j] : j \in due} : \E j \in hand'[r] \cup RowsLocked :
                UserOf[j] = u /\ \A k \in due : UserOf[k] = u => AtLeastAsOld(j, k)]_vars
  BY <1>1
<1>. QED
  BY <1>2, ClaimInvCorrect, PTL DEF Spec, EveryCustomerServed
===============================================================================
