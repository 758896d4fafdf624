----------------------------- MODULE ListingProofs -----------------------------
(* What holds of Listing for every page size and any number of messages.        *)
EXTENDS Listing, Counting, TLAPS

\* The first of the places a message can have.
Place(row) == Cardinality(Younger(row)) + 1

\* Messages of one time are one request's, and become visible together.
BatchesApart ==
    /\ \A x \in open : \A r \in x : r.created_at <= begun
    /\ \A r \in rows : r.created_at <= begun
    /\ \A x \in open : \A r \in x : \A s \in rows : s.created_at # r.created_at
    /\ \A x, y \in open : \A r \in x : \A s \in y : s.created_at = r.created_at => x = y

\* While nothing is committed, the list is that of the beginning, and so is the count.
RestsIfQuiet ==
    /\ quiet /\ pc # "idle" => before = rows
    /\ quiet /\ pc = "select" => total = Cardinality(rows)

\* What the client has not seen yet is still to come, however far it has moved meanwhile.
RestIsAhead ==
    pc \in {"count", "select"} =>
        \A row \in before : row \in seen \/ HasEqual(row) \/ Place(row) > Offset

\* What it has seen is behind, if nothing has moved; so it is not seen again.
SeenIsBehind ==
    quiet /\ pc # "idle" =>
        /\ \A row \in seen : pc = "done" \/ HasEqual(row) \/ Place(row) <= Offset
        /\ \A row \in twice : HasEqual(row)

ListInv == TypeOK /\ BatchesApart /\ RestsIfQuiet /\ RestIsAhead /\ SeenIsBehind /\ NothingMissed
-------------------------------------------------------------------------------
\* There are finitely many messages.
LEMMA SomeRows ==
    ASSUME NEW R \in SUBSET Row
    PROVE  /\ IsFiniteSet(R) /\ Cardinality(R) \in Nat
           /\ \A S \in SUBSET R : IsFiniteSet(S) /\ Cardinality(S) \in Nat /\ Cardinality(S) <= Cardinality(R)
<1>. DEFINE A == 1..MaxRequests
            B == 1..MaxBatch
            f == [r \in R |-> <<r.created_at, r.no>>]
<1>1. f \in Injection(R, A \X B)
  <2>1. \A r \in R : r = [created_at |-> r.created_at, no |-> r.no] /\ <<r.created_at, r.no>> \in A \X B
    BY DEF Row
  <2>. QED
    BY <2>1 DEF Injection, IsInjective
<1>2. IsFiniteSet(A) /\ IsFiniteSet(B)
  BY ListingAssumption, FS_Interval
<1>. HIDE DEF A, B, f
<1>3. IsFiniteSet(A \X B)
  BY <1>2, FS_Product
<1>4. IsFiniteSet(R)
  BY <1>1, <1>3, FS_Injection
<1>. QED
  BY <1>4, FS_Subset, FS_CardinalityType

\* So are those that are committed.
LEMMA RowsFinite ==
    ASSUME TypeOK
    PROVE  /\ IsFiniteSet(rows) /\ Cardinality(rows) \in Nat
           /\ \A S \in SUBSET rows : /\ IsFiniteSet(S) /\ Cardinality(S) \in Nat
                                     /\ Cardinality(S) <= Cardinality(rows)
BY SomeRows DEF TypeOK

\* A message, its equals and those before them.
UpTo(row) == {r \in rows : r.created_at >= row.created_at}

\* The groups of equals and those before them, in numbers.
LEMMA Groups ==
    ASSUME TypeOK, NEW row \in rows
    PROVE  /\ Cardinality(Younger(row)) \in Nat /\ Cardinality(Equals(row)) \in Nat \ {0}
           /\ IsFiniteSet(Younger(row)) /\ IsFiniteSet(Equals(row)) /\ IsFiniteSet(UpTo(row))
           /\ UpTo(row) = Younger(row) \cup Equals(row) /\ Younger(row) \cap Equals(row) = {}
           /\ Cardinality(UpTo(row)) = Cardinality(Younger(row)) + Cardinality(Equals(row))
           /\ Cardinality(UpTo(row)) <= Cardinality(rows)
<1>. DEFINE upTo == UpTo(row)
            Y == Younger(row)
            E == Equals(row)
<1>1. \A r \in rows : r.created_at \in Nat
  BY DEF TypeOK, Row
<1>2. Y \subseteq rows /\ E \subseteq rows /\ upTo \subseteq rows /\ row \in E
  BY DEF Younger, Equals, UpTo, Visible
<1>3. upTo = Y \cup E /\ Y \cap E = {}
  BY <1>1 DEF Younger, Equals, UpTo, Visible
<1>. HIDE DEF upTo, Y, E
<1>4. IsFiniteSet(upTo) /\ IsFiniteSet(E) /\ Cardinality(upTo) <= Cardinality(rows)
  BY <1>2, RowsFinite
<1>5. /\ IsFiniteSet(Y) /\ Cardinality(Y) \in Nat /\ Cardinality(E) \in Nat
      /\ Cardinality(upTo) = Cardinality(Y) + Cardinality(E)
  BY <1>3, <1>4, CountParts
<1>6. Cardinality(E) # 0
  BY <1>2, <1>4, FS_EmptySet
<1>. QED
  BY <1>3, <1>4, <1>5, <1>6 DEF upTo, Y, E

\* A message without equals is on the page that its place is on.
LEMMA AloneOnPage ==
    ASSUME TypeOK, NEW S \in SUBSET rows, IsPage(S), NEW row \in rows, ~HasEqual(row)
    PROVE  /\ row \in S <=> Place(row) \in OnPage
           /\ Place(row) \in Nat /\ Place(row) <= Cardinality(rows)
<1>. DEFINE p == Place(row)
            One == {row}
            P == {p}
<1>1. Cardinality(Equals(row)) = 1 /\ Cardinality(Younger(row)) \in Nat /\ IsFiniteSet(Equals(row))
  <2>1. ~(Cardinality(Equals(row)) > 1) /\ Cardinality(Equals(row)) \in Nat \ {0}
    BY Groups DEF HasEqual
  <2>2. Cardinality(Equals(row)) = 1
    BY <2>1
  <2>. QED
    BY <2>2, Groups
<1>2. Equals(row) = One
  <2>1. One \subseteq Equals(row)
    BY DEF Equals, Visible
  <2>2. Cardinality(One) = 1
    BY FS_Singleton
  <2>. HIDE DEF One
  <2>. QED
    BY <1>1, <2>1, <2>2, FS_Subset
<1>3. p \in Nat /\ p = Cardinality(Younger(row)) + 1 /\ p <= Cardinality(rows)
  <2>1. Cardinality(UpTo(row)) = p /\ Cardinality(UpTo(row)) <= Cardinality(rows)
    BY <1>1, Groups DEF Place
  <2>. QED
    BY <1>1, <2>1 DEF Place
<1>4. Places(row) = P
  BY <1>1, <1>3 DEF Places
<1>5. Cardinality(S \cap One) = Cardinality(P \cap OnPage)
  BY <1>2, <1>4 DEF IsPage, Visible
<1>6. Cardinality(One) = 1 /\ Cardinality(P) = 1 /\ Cardinality({}) = 0
  BY FS_Singleton, FS_EmptySet
<1>. HIDE DEF p
<1>7. S \cap One = (IF row \in S THEN One ELSE {}) /\ P \cap OnPage = (IF p \in OnPage THEN P ELSE {})
  OBVIOUS
<1>. HIDE DEF One, P
<1>8. row \in S <=> p \in OnPage
  BY <1>5, <1>6, <1>7
<1>. QED
  BY <1>3, <1>8 DEF p
\* Places on the page up to n.
Shown(n) == (1..n) \cap OnPage

\* Places that follow each other on the page: the first m, and the k after them.
LEMMA ShownAddsUp ==
    ASSUME TypeOK, NEW m \in Nat, NEW k \in Nat
    PROVE  Cardinality(Shown(m + k)) = Cardinality(Shown(m)) + Cardinality(((m + 1)..(m + k)) \cap OnPage)
<1>. DEFINE A == Shown(m)
            B == ((m + 1)..(m + k)) \cap OnPage
            S == Shown(m + k)
            I == 1..(m + k)
<1>1. S = A \cup B /\ A \cap B = {}
  BY DEF Shown
<1>2. S \subseteq I
  BY DEF Shown
<1>3. IsFiniteSet(I)
  BY FS_Interval
<1>. HIDE DEF A, B, S, I
<1>4. IsFiniteSet(S)
  BY <1>2, <1>3, FS_Subset
<1>5. Cardinality(S) = Cardinality(A) + Cardinality(B)
  BY <1>1, <1>4, CountParts
<1>. QED
  BY <1>5 DEF A, B, S

\* Of the messages up to one, a page shows as many as have their places on it.
LEMMA ShownUpTo ==
    ASSUME TypeOK, NEW S \in SUBSET rows, IsPage(S), NEW row \in rows
    PROVE  Cardinality(S \cap UpTo(row)) = Cardinality(Shown(Cardinality(UpTo(row))))
<1>. DEFINE ok(r) == Cardinality(S \cap UpTo(r)) = Cardinality(Shown(Cardinality(UpTo(r))))
            bad == {r \in rows : ~ok(r)}
            n(r) == Cardinality(Younger(r))
            N == {n(r) : r \in bad}
<1>. HIDE DEF ok
<1>. SUFFICES ASSUME bad # {} PROVE FALSE
  BY DEF ok
<1>1. N \in SUBSET Nat /\ N # {}
  BY Groups
<1>. HIDE DEF N
<1>2. PICK k \in N : \A m \in N : k <= m
  BY <1>1, LeastNat
<1>3. PICK r \in bad : k = n(r)
  BY <1>2 DEF N
<1>4. r \in rows /\ ~ok(r) /\ \A q \in rows : ~ok(q) => n(r) <= n(q)
  BY <1>2, <1>3 DEF N
<1>. DEFINE Y == Younger(r)
            E == Equals(r)
            j == Cardinality(Y)
            e == Cardinality(E)
<1>5. Cardinality(S \cap Y) = Cardinality(Shown(j))
  <2>1. CASE Y = {}
    <3>1. j = 0 /\ S \cap Y = {} /\ Cardinality({}) = 0
      BY <2>1, FS_EmptySet
    <3>. HIDE DEF j
    <3>2. Shown(j) = {}
      BY <3>1 DEF Shown
    <3>. QED
      BY <3>1, <3>2
  <2>2. CASE Y # {}
    <3>. DEFINE T == {q.created_at : q \in Y}
    <3>1. Y \subseteq rows /\ \A q \in rows : q.created_at \in Nat
      BY DEF TypeOK, Row, Younger, Visible
    <3>2. T \in SUBSET Nat /\ T # {}
      BY <2>2, <3>1
    <3>. HIDE DEF T
    <3>3. PICK t \in T : \A u \in T : t <= u
      BY <3>2, LeastNat
    <3>4. PICK q \in Y : t = q.created_at
      BY <3>3 DEF T
    <3>5. q \in rows /\ UpTo(q) = Y
      <4>1. \A u \in Y : q.created_at <= u.created_at
        BY <3>3, <3>4 DEF T
      <4>2. q.created_at > r.created_at
        BY DEF Younger
      <4>. QED
        BY <1>4, <3>1, <4>1, <4>2 DEF UpTo, Younger, Visible
    <3>6. n(q) < j
      <4>1. j = n(q) + Cardinality(Equals(q)) /\ n(q) \in Nat /\ Cardinality(Equals(q)) \in Nat \ {0}
        BY <3>5, Groups
      <4>. HIDE DEF n, j
      <4>. QED
        BY <4>1
    <3>7. n(q) \in Nat /\ j \in Nat
      BY <1>4, <3>5, Groups
    <3>8. ok(q)
      <4>. HIDE DEF n
      <4>1. ~ok(q) => j <= n(q)
        BY <1>4, <3>5 DEF n
      <4>. HIDE DEF j
      <4>. QED
        BY <3>6, <3>7, <4>1
    <3>. QED
      BY <3>5, <3>8 DEF ok
  <2>. QED
    BY <2>1, <2>2
<1>6. Cardinality(S \cap E) = Cardinality(((j + 1)..(j + e)) \cap OnPage)
  BY <1>4 DEF IsPage, Places, Visible
<1>7. j \in Nat /\ e \in Nat /\ UpTo(r) = Y \cup E /\ Y \cap E = {} /\ Cardinality(UpTo(r)) = j + e
  BY <1>4, Groups
<1>8. Cardinality(S \cap UpTo(r)) = Cardinality(S \cap Y) + Cardinality(S \cap E)
  <2>. DEFINE A == S \cap Y
              B == S \cap E
              C == S \cap UpTo(r)
  <2>1. C = A \cup B /\ A \cap B = {}
    BY <1>7
  <2>2. IsFiniteSet(C)
    BY RowsFinite
  <2>. HIDE DEF A, B, C
  <2>3. Cardinality(C) = Cardinality(A) + Cardinality(B)
    BY <2>1, <2>2, CountParts
  <2>. QED
    BY <2>3 DEF A, B, C
<1>. HIDE DEF Y, E, j, e
<1>9. Cardinality(Shown(j + e)) = Cardinality(Shown(j)) + Cardinality(((j + 1)..(j + e)) \cap OnPage)
  BY <1>7, ShownAddsUp
<1>10. ok(r)
  BY <1>5, <1>6, <1>7, <1>8, <1>9 DEF ok
<1>. QED
  BY <1>4, <1>10

\* A page before the last is full.
LEMMA FullPage ==
    ASSUME TypeOK, NEW S \in SUBSET rows, IsPage(S), Offset + PageSize <= Cardinality(rows)
    PROVE  Cardinality(S) = PageSize
<1>. DEFINE T == {r.created_at : r \in rows}
            n == Cardinality(rows)
<1>1. Offset \in Nat /\ PageSize \in Nat \ {0} /\ n \in Nat
  <2>1. page \in Nat \ {0} /\ PageSize \in Nat \ {0} /\ n \in Nat
    BY RowsFinite, ListingAssumption DEF TypeOK
  <2>2. page - 1 \in Nat
    BY <2>1
  <2>3. \A x, y \in Nat : x * y \in Nat
    OBVIOUS
  <2>. QED
    BY <2>1, <2>2, <2>3 DEF Offset
<1>2. rows # {}
  <2>1. n # 0
    BY <1>1
  <2>. QED
    BY <2>1, FS_EmptySet
<1>3. \A r \in rows : r.created_at \in Nat
  BY DEF TypeOK, Row
<1>4. T \in SUBSET Nat /\ T # {}
  BY <1>2, <1>3
<1>. HIDE DEF T
<1>5. PICK t \in T : \A u \in T : t <= u
  BY <1>4, LeastNat
<1>6. PICK row \in rows : t = row.created_at
  BY <1>5 DEF T
<1>7. UpTo(row) = rows
  BY <1>3, <1>5, <1>6 DEF UpTo, T
<1>8. Cardinality(S) = Cardinality(Shown(n))
  <2>1. S \cap UpTo(row) = S
    BY <1>7
  <2>. QED
    BY <1>7, <2>1, ShownUpTo
<1>. HIDE DEF n
<1>9. Shown(n) = (Offset + 1)..(Offset + PageSize)
  BY <1>1 DEF Shown, OnPage, n
<1>10. Cardinality((Offset + 1)..(Offset + PageSize)) = PageSize
  <2>1. \A a \in Nat, k \in Nat \ {0} : Cardinality((a + 1)..(a + k)) = k
    <3>. TAKE a \in Nat, k \in Nat \ {0}
    <3>1. a + 1 \in Int /\ a + k \in Int /\ a + 1 <= a + k /\ (a + k) - (a + 1) + 1 = k
      OBVIOUS
    <3>. QED
      BY <3>1, FS_Interval
  <2>. QED
    BY <1>1, <2>1
<1>. QED
  BY <1>8, <1>9, <1>10
-------------------------------------------------------------------------------
\* What a step that leaves rows and client alone keeps.
LEMMA ListFrame ==
    ASSUME ListInv, UNCHANGED <<rows, client, quiet>>
    PROVE  RestsIfQuiet' /\ RestIsAhead' /\ SeenIsBehind' /\ NothingMissed'
<1>1. \A row : Younger(row)' = Younger(row) /\ Equals(row)' = Equals(row)
  BY DEF Younger, Equals, Visible
<1>2. \A row : Place(row)' = Place(row) /\ (HasEqual(row)' <=> HasEqual(row))
  BY <1>1 DEF Place, HasEqual
<1>3. Offset' = Offset
  BY DEF Offset, client
<1>. QED
  BY <1>2, <1>3 DEF ListInv, RestsIfQuiet, RestIsAhead, SeenIsBehind, NothingMissed, client

\* A request begins to submit messages.
LEMMA BeginKeeps ==
    ASSUME ListInv, NEW n \in 1..MaxBatch, Begin(n)
    PROVE  ListInv'
<1>. DEFINE new == [created_at : {begun + 1}, no : 1..n]
<1>1. /\ begun < MaxRequests /\ begun' = begun + 1 /\ open' = open \cup {new}
      /\ UNCHANGED <<rows, client, quiet>>
  BY DEF Begin
<1>2. begun \in 0..MaxRequests /\ MaxRequests \in Nat /\ n \in Nat /\ MaxBatch \in Nat /\ n <= MaxBatch
  BY ListingAssumption DEF ListInv, TypeOK
<1>3. begun + 1 \in 1..MaxRequests /\ begun' \in 0..MaxRequests
  BY <1>1, <1>2
<1>4. new \subseteq Row /\ \A r \in new : r.created_at = begun + 1
  BY <1>2, <1>3 DEF Row
<1>5. \A r \in Row : r.created_at \in Nat
  BY DEF Row
<1>6. TypeOK'
  BY <1>1, <1>3, <1>4 DEF ListInv, TypeOK, client
<1>. HIDE DEF new
<1>7. \A x \in open : \A r \in x : r.created_at \in Nat /\ r.created_at <= begun
  BY <1>5 DEF ListInv, TypeOK, BatchesApart
<1>8. \A r \in rows : r.created_at \in Nat /\ r.created_at <= begun
  BY <1>5 DEF ListInv, TypeOK, BatchesApart
<1>9. BatchesApart'
  <2>1. \A x \in open' : \A r \in x : r.created_at <= begun'
    BY <1>1, <1>2, <1>4, <1>7
  <2>2. \A r \in rows' : r.created_at <= begun'
    BY <1>1, <1>2, <1>8
  <2>3. \A x \in open' : \A r \in x : \A s \in rows' : s.created_at # r.created_at
    BY <1>1, <1>2, <1>4, <1>8 DEF ListInv, BatchesApart
  <2>4. ASSUME NEW x \in open', NEW y \in open', NEW r \in x, NEW s \in y, s.created_at = r.created_at
        PROVE  x = y
    BY <1>1, <1>2, <1>4, <1>7, <2>4 DEF ListInv, BatchesApart
  <2>. QED
    BY <2>1, <2>2, <2>3, <2>4 DEF BatchesApart
<1>. QED
  BY <1>1, <1>6, <1>9, ListFrame DEF ListInv

\* The messages of a request become visible.
LEMMA CommitKeeps ==
    ASSUME ListInv, NEW batch \in open, Commit(batch)
    PROVE  ListInv'
<1>. TypeOK /\ BatchesApart
  BY DEF ListInv
<1>1. /\ open' = open \ {batch} /\ rows' = rows \cup batch /\ quiet' = (pc = "idle")
      /\ UNCHANGED <<begun, client>>
  BY DEF Commit
<1>2. batch \subseteq Row /\ rows \subseteq Row
  BY DEF TypeOK
<1>3. /\ IsFiniteSet(rows') /\ Cardinality(rows') \in Nat
      /\ \A S \in SUBSET rows' : IsFiniteSet(S) /\ Cardinality(S) \in Nat /\ Cardinality(S) <= Cardinality(rows')
  <2>1. rows' \in SUBSET Row
    BY <1>1, <1>2
  <2>. QED
    BY <2>1, SomeRows
<1>4. TypeOK'
  <2>1. total \in 0..Cardinality(rows) /\ Cardinality(rows) \in Nat /\ Cardinality(rows) <= Cardinality(rows')
    BY <1>1, <1>3, RowsFinite DEF TypeOK
  <2>2. total' \in 0..Cardinality(rows')
    <3>1. total' = total
      BY <1>1 DEF client
    <3>. QED
      BY <1>3, <2>1, <3>1
  <2>3. UNCHANGED <<pc, page, followsPages, seen, twice, before, begun>>
    BY <1>1 DEF client
  <2>. QED
    BY <1>1, <1>2, <2>2, <2>3 DEF TypeOK
<1>5. BatchesApart'
  <2>1. \A x \in open' : \A r \in x : \A s \in rows' : s.created_at # r.created_at
    BY <1>1 DEF BatchesApart
  <2>. QED
    BY <1>1, <2>1 DEF BatchesApart
<1>6. ASSUME NEW row \in rows
      PROVE  /\ HasEqual(row)' <=> HasEqual(row)
             /\ Place(row) \in Nat /\ Place(row)' \in Nat /\ Place(row) <= Place(row)'
  <2>1. Equals(row)' = Equals(row)
    BY <1>1 DEF Equals, Visible, BatchesApart
  <2>2. Younger(row) \subseteq Younger(row)' /\ Younger(row)' \subseteq rows'
    BY <1>1 DEF Younger, Visible
  <2>3. /\ Cardinality(Younger(row)) \in Nat /\ Cardinality(Younger(row)') \in Nat
        /\ Cardinality(Younger(row)) <= Cardinality(Younger(row)')
    BY <1>3, <2>2, Groups, FS_Subset
  <2>. QED
    BY <2>1, <2>3 DEF HasEqual, Place
<1>7. before \subseteq rows /\ seen \subseteq rows /\ twice \subseteq rows
  BY DEF TypeOK
<1>8. Offset' = Offset /\ Offset \in Int
  <2>1. page - 1 \in Nat /\ PageSize \in Nat
    BY ListingAssumption DEF TypeOK
  <2>2. \A x, y \in Nat : x * y \in Int
    OBVIOUS
  <2>. QED
    BY <1>1, <2>1, <2>2 DEF Offset, client
<1>9. RestsIfQuiet' /\ SeenIsBehind'
  BY <1>1 DEF RestsIfQuiet, SeenIsBehind, client
<1>10. RestIsAhead'
  <2>. SUFFICES ASSUME pc \in {"count", "select"}, NEW row \in before, row \notin seen, ~HasEqual(row)'
                PROVE  Place(row)' > Offset
    BY <1>1, <1>8 DEF RestIsAhead, client
  <2>1. Place(row) > Offset
    BY <1>6, <1>7 DEF ListInv, RestIsAhead
  <2>. QED
    BY <1>6, <1>7, <1>8, <2>1
<1>11. NothingMissed'
  <2>. SUFFICES ASSUME pc = "done", ~followsPages, NEW row \in before
                PROVE  row \in seen \/ HasEqual(row)'
    BY <1>1 DEF NothingMissed, client
  <2>. QED
    BY <1>6, <1>7 DEF ListInv, NothingMissed
<1>. QED
  BY <1>4, <1>5, <1>9, <1>10, <1>11 DEF ListInv
\* The client begins to read.
LEMMA StartKeeps ==
    ASSUME ListInv, NEW follows \in BOOLEAN, Start(follows)
    PROVE  ListInv'
<1>. TypeOK /\ BatchesApart
  BY DEF ListInv
<1>1. /\ pc' = "count" /\ page' = 1 /\ followsPages' = follows
      /\ seen' = {} /\ twice' = {} /\ before' = rows /\ quiet' = TRUE
      /\ UNCHANGED <<total, begun, open, rows>>
  BY DEF Start, database
<1>2. TypeOK' /\ BatchesApart'
  BY <1>1 DEF TypeOK, BatchesApart
<1>3. RestsIfQuiet' /\ SeenIsBehind' /\ NothingMissed'
  BY <1>1 DEF RestsIfQuiet, SeenIsBehind, NothingMissed
<1>4. RestIsAhead'
  <2>1. \A row \in rows : Place(row)' = Cardinality(Younger(row)) + 1
    BY <1>1 DEF Place, Younger, Visible
  <2>2. \A row \in rows : Cardinality(Younger(row)) \in Nat
    BY Groups
  <2>3. Offset' = 0
    BY <1>1, ListingAssumption DEF Offset
  <2>4. \A row \in rows : Place(row)' > Offset'
    BY <2>1, <2>2, <2>3
  <2>. QED
    BY <1>1, <2>4 DEF RestIsAhead
<1>. QED
  BY <1>2, <1>3, <1>4 DEF ListInv

\* Its messages are counted.
LEMMA CountKeeps ==
    ASSUME ListInv, CountRows
    PROVE  ListInv'
<1>. TypeOK /\ BatchesApart
  BY DEF ListInv
<1>1. /\ pc = "count" /\ pc' = "select" /\ total' = Cardinality(rows)
      /\ UNCHANGED <<page, followsPages, seen, twice, before, begun, open, rows, quiet>>
  BY DEF CountRows, Visible, database
<1>2. TypeOK' /\ BatchesApart'
  <2>1. total' \in 0..Cardinality(rows)
    BY <1>1, RowsFinite
  <2>. QED
    BY <1>1, <2>1 DEF TypeOK, BatchesApart
<1>3. RestsIfQuiet' /\ NothingMissed'
  BY <1>1 DEF ListInv, RestsIfQuiet, NothingMissed
<1>4. \A row : Place(row)' = Place(row) /\ (HasEqual(row)' <=> HasEqual(row))
  BY <1>1 DEF Place, HasEqual, Younger, Equals, Visible
<1>5. Offset' = Offset
  BY <1>1 DEF Offset
<1>6. RestIsAhead' /\ SeenIsBehind'
  BY <1>1, <1>4, <1>5 DEF ListInv, RestIsAhead, SeenIsBehind
<1>. QED
  BY <1>2, <1>3, <1>6 DEF ListInv

\* A page is read.
LEMMA SelectKeeps ==
    ASSUME ListInv, NEW S \in SUBSET Visible, SelectPage(S)
    PROVE  ListInv'
<1>. TypeOK /\ BatchesApart
  BY DEF ListInv
<1>1. /\ pc = "select" /\ IsPage(S) /\ S \in SUBSET rows
      /\ seen' = seen \cup S /\ twice' = twice \cup (S \cap seen)
      /\ UNCHANGED <<total, followsPages, before, begun, open, rows, quiet>>
  BY DEF SelectPage, Visible, database
<1>2. \/ IsLast(S) /\ pc' = "done" /\ page' = page
      \/ ~IsLast(S) /\ pc' = "count" /\ page' = page + 1
  BY DEF SelectPage
<1>3. page \in Nat \ {0} /\ PageSize \in Nat \ {0}
  BY ListingAssumption DEF TypeOK
<1>4. TypeOK' /\ BatchesApart'
  <2>1. page' \in Nat \ {0} /\ pc' \in {"idle", "count", "select", "done"}
    BY <1>2, <1>3
  <2>. QED
    BY <1>1, <2>1 DEF TypeOK, BatchesApart
<1>5. \A row : Place(row)' = Place(row) /\ (HasEqual(row)' <=> HasEqual(row))
  BY <1>1 DEF Place, HasEqual, Younger, Equals, Visible
<1>6. /\ Offset \in Nat /\ Offset + PageSize = page * PageSize
      /\ page' = page + 1 => Offset' = Offset + PageSize
  <2>1. \A x \in Nat \ {0}, y \in Nat : (x - 1) * y \in Nat /\ (x - 1) * y + y = x * y
    BY SMT
  <2>2. page' = page + 1 => page' - 1 = page
    BY <1>3
  <2>. QED
    BY <1>3, <2>1, <2>2 DEF Offset
<1>7. before \subseteq rows /\ seen \subseteq rows /\ twice \subseteq seen
  BY DEF TypeOK
<1>8. ASSUME NEW row \in rows, ~HasEqual(row)
      PROVE  /\ Place(row) \in Nat /\ Place(row) <= Cardinality(rows)
             /\ row \in S <=> (Place(row) > Offset /\ Place(row) <= Offset + PageSize)
  <2>1. /\ Place(row) \in Nat /\ Place(row) <= Cardinality(rows)
        /\ row \in S <=> Place(row) \in (Offset + 1)..(Offset + PageSize)
    BY <1>1, <1>8, AloneOnPage DEF OnPage
  <2>. QED
    BY <1>3, <1>6, <2>1
<1>9. ASSUME NEW row \in before, row \notin seen', ~HasEqual(row)
      PROVE  Place(row) > Offset + PageSize
  <2>1. Place(row) > Offset
    BY <1>1, <1>9 DEF ListInv, RestIsAhead
  <2>. QED
    BY <1>1, <1>3, <1>6, <1>7, <1>8, <1>9, <2>1
<1>10. RestsIfQuiet'
  BY <1>1, <1>2 DEF ListInv, RestsIfQuiet
<1>11. RestIsAhead'
  BY <1>1, <1>2, <1>5, <1>6, <1>9 DEF RestIsAhead
<1>12. SeenIsBehind'
  <2>. SUFFICES ASSUME quiet
                PROVE  /\ \A row \in seen' : pc' = "done" \/ HasEqual(row) \/ Place(row) <= Offset'
                       /\ \A row \in twice' : HasEqual(row)
    BY <1>1, <1>5 DEF SeenIsBehind
  <2>1. \A row \in seen : HasEqual(row) \/ Place(row) <= Offset
    BY <1>1 DEF ListInv, SeenIsBehind
  <2>2. \A row \in twice : HasEqual(row)
    BY <1>1 DEF ListInv, SeenIsBehind
  <2>3. ASSUME NEW row \in seen', pc' # "done", ~HasEqual(row)
        PROVE  Place(row) <= Offset'
    <3>1. row \in rows /\ (row \in seen \/ row \in S)
      BY <1>1, <1>7, <2>3
    <3>2. Offset' = Offset + PageSize
      BY <1>2, <1>6, <2>3
    <3>. QED
      BY <1>3, <1>6, <1>8, <2>1, <2>3, <3>1, <3>2
  <2>4. ASSUME NEW row \in S \cap seen, ~HasEqual(row)
        PROVE  FALSE
    BY <1>1, <1>6, <1>8, <2>1, <2>4
  <2>. QED
    BY <1>1, <2>2, <2>3, <2>4
<1>13. NothingMissed'
  <2>. SUFFICES ASSUME pc' = "done", followsPages => quiet, NEW row \in before, row \notin seen', ~HasEqual(row)
                PROVE  FALSE
    BY <1>1, <1>5 DEF NothingMissed
  <2>1. /\ Place(row) > Offset + PageSize /\ Place(row) <= Cardinality(rows)
        /\ Place(row) \in Nat /\ Cardinality(rows) \in Nat
    BY <1>7, <1>8, <1>9, RowsFinite
  <2>2. IsLast(S)
    BY <1>2
  <2>3. CASE followsPages
    <3>1. total = Cardinality(rows) /\ page >= Pages
      BY <1>1, <2>2, <2>3 DEF ListInv, RestsIfQuiet, IsLast
    <3>2. Pages \in Nat /\ Pages * PageSize >= total
      BY <1>3, <2>1, <3>1, RoundedUp DEF Pages
    <3>3. \A x, y \in Nat, z \in Nat : x >= y => x * z >= y * z /\ x * z \in Nat /\ y * z \in Nat
      BY SMT
    <3>4. page * PageSize >= Pages * PageSize /\ page * PageSize \in Nat /\ Pages * PageSize \in Nat
      BY <1>3, <3>1, <3>2, <3>3
    <3>. HIDE DEF Pages
    <3>. DEFINE x == page * PageSize
                y == Pages * PageSize
    <3>5. x >= y /\ y >= total /\ x = Offset + PageSize /\ x \in Nat /\ y \in Nat
      BY <1>6, <3>2, <3>4
    <3>. HIDE DEF x, y
    <3>. QED
      BY <2>1, <3>1, <3>5
  <2>4. CASE ~followsPages
    <3>1. Cardinality(S) < PageSize
      BY <2>2, <2>4 DEF IsLast
    <3>2. Cardinality(S) = PageSize
      <4>1. Offset + PageSize <= Cardinality(rows)
        BY <1>3, <1>6, <2>1
      <4>. QED
        BY <1>1, <4>1, FullPage
    <3>. QED
      BY <1>3, <3>1, <3>2
  <2>. QED
    BY <2>3, <2>4
<1>. QED
  BY <1>4, <1>10, <1>11, <1>12, <1>13 DEF ListInv

\* The client has read its last page.
LEMMA FinishKeeps ==
    ASSUME ListInv, Finish
    PROVE  ListInv'
<1>1. /\ pc' = "idle" /\ page' = 1 /\ total' = 0 /\ followsPages' = FALSE
      /\ seen' = {} /\ twice' = {} /\ before' = {} /\ quiet' = TRUE
      /\ UNCHANGED <<begun, open, rows>>
  BY DEF Finish, database
<1>2. TypeOK' /\ BatchesApart'
  <2>1. total' \in 0..Cardinality(rows') /\ page' \in Nat \ {0}
    BY <1>1, RowsFinite DEF ListInv
  <2>2. TypeOK'
    BY <1>1, <2>1 DEF ListInv, TypeOK
  <2>. QED
    BY <1>1, <2>2 DEF ListInv, BatchesApart
<1>. QED
  BY <1>1, <1>2 DEF ListInv, RestsIfQuiet, RestIsAhead, SeenIsBehind, NothingMissed

\* The invariant holds in every reachable state.
LEMMA ListInvCorrect == Spec => []ListInv
<1>1. Init => ListInv
  <2>. SUFFICES ASSUME Init PROVE ListInv
    OBVIOUS
  <2>1. begun \in 0..MaxRequests /\ total \in 0..Cardinality(rows) /\ page \in Nat \ {0}
    BY ListingAssumption, FS_EmptySet DEF Init
  <2>2. TypeOK
    BY <2>1 DEF Init, TypeOK
  <2>3. BatchesApart
    BY DEF Init, BatchesApart
  <2>. QED
    BY <2>2, <2>3 DEF Init, ListInv, RestsIfQuiet, RestIsAhead, SeenIsBehind, NothingMissed
<1>2. ListInv /\ [Next]_vars => ListInv'
  <2>. SUFFICES ASSUME ListInv, [Next]_vars PROVE ListInv'
    OBVIOUS
  <2>1. CASE UNCHANGED vars
    <3>1. UNCHANGED <<begun, open, rows, client, quiet>>
      BY <2>1 DEF vars, database
    <3>2. TypeOK' /\ BatchesApart'
      BY <3>1 DEF ListInv, TypeOK, BatchesApart, client
    <3>. QED
      BY <3>1, <3>2, ListFrame DEF ListInv
  <2>. QED
    BY <2>1, BeginKeeps, CommitKeeps, StartKeeps, CountKeeps, SelectKeeps, FinishKeeps DEF Next, ReadStep
<1>. QED
  BY <1>1, <1>2, PTL DEF Spec

-------------------------------------------------------------------------------
\* Every variable has its type: the client is shown committed messages only.
THEOREM ListingTypeCorrect == Spec => []TypeOK
<1>1. ListInv => TypeOK
  BY DEF ListInv
<1>. QED
  BY <1>1, ListInvCorrect, PTL

\* A client that reads until a page is not full misses no message that was there when it began,
\* unless it has equals; one that stops at the number of pages does not if nothing is committed.
THEOREM NoMessageIsMissed == Spec => []NothingMissed
<1>1. ListInv => NothingMissed
  BY DEF ListInv
<1>. QED
  BY <1>1, ListInvCorrect, PTL

\* A list at rest is read without repetition and to its last page.
THEOREM RestIsReadExactly == Spec => []QuietListIsExact
<1>1. ListInv => QuietListIsExact
  BY DEF ListInv, RestsIfQuiet, SeenIsBehind, NothingMissed, QuietListIsExact
<1>. QED
  BY <1>1, ListInvCorrect, PTL
===============================================================================
