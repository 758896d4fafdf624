----------------------------- MODULE MetricsProofs -----------------------------
(* What holds of Metrics for all cache times, balances and bounds.              *)
EXTENDS Metrics, TLAPS

\* What TypeOK says of shown, but for its domain.
ShownIsFunction == shown = [g \in Gauges |-> shown[g]]

\* A gauge whose cache is set has a value, and that value is no older than the cache says.
CacheKnowsAge ==
    \A g \in Gauges :
        /\ dataAge[g] <= AgeCap(g)
        /\ hadSuccess[g] => shown[g] # NoValue /\ dataAge[g] + expiresIn[g] <= TTL[g]

\* The steps of a scrape that come after those for g.
After(g) == IF g = "ready" THEN {"payment", "mismatch", "render"} ELSE {"render"}

\* A scrape has refreshed the gauge behind it, or found it fresh when it began, or has failed to.
FreshOrFailed ==
    \A g \in Gauges \ failed : pc \in After(g) => hadSuccess[g] /\ dataAge[g] - elapsed < TTL[g]

\* Only the debug endpoint takes a balance away from its messages.
BalanceIsSum == ~zeroed => reserved = heldCost

MetricsInv == TypeOK /\ ShownIsFunction /\ CacheKnowsAge /\ FreshOrFailed /\ BalanceIsSum /\ NoFalseAlarm

-------------------------------------------------------------------------------
\* The gauges and the steps are known by their names.
USE DEF Gauges, Steps

\* A violation is counted or not, and none is if the balance is right and the sum of its messages.
LEMMA ViolationsType ==
    ASSUME NEW balance, NEW r, NEW total
    PROVE  /\ Violations(balance, r, total) \in [ViolationTypes -> 0..1]
           /\ (balance.credits \in Nat /\ balance.reserved \in Nat
               /\ balance.reserved <= balance.credits /\ r = total /\ r \in Nat) =>
              \A t \in ViolationTypes : Violations(balance, r, total)[t] = 0
<1>1. \A c : Count(c) \in 0..1 /\ (~c => Count(c) = 0)
  BY DEF Count
<1>2. Violations(balance, r, total) \in [ViolationTypes -> 0..1]
  BY <1>1 DEF Violations, ViolationTypes
<1>3. ASSUME balance.credits \in Nat, balance.reserved \in Nat, balance.reserved <= balance.credits,
             r = total, r \in Nat
      PROVE  \A t \in ViolationTypes : Violations(balance, r, total)[t] = 0
  BY <1>3 DEF Violations, ViolationTypes, Mismatch, Count
<1>. QED
  BY <1>2, <1>3

\* What a writer's transaction does, as far as the invariant goes.
LEMMA WriterKeeps ==
    ASSUME MetricsInv, WriterStep
    PROVE  MetricsInv'
<1>1. UNCHANGED <<process, faults>>
  BY DEF WriterStep, Submit, Release, Settle, ZeroCredits, Backlog
<1>2. /\ credits' \in Nat /\ reserved' \in 0..credits' /\ heldCost' \in Nat
      /\ ready' \in 0..MaxReady /\ zeroed' \in BOOLEAN
  <2>1. /\ credits \in Nat /\ reserved \in 0..credits /\ heldCost \in Nat
        /\ ready \in 0..MaxReady /\ zeroed \in BOOLEAN
    BY DEF MetricsInv, TypeOK
  <2>2. CASE Submit
    BY <2>1, <2>2 DEF Submit, CanReserve
  <2>3. CASE Release
    BY <2>1, <2>3 DEF Release
  <2>4. CASE Settle
    BY <2>1, <2>4 DEF Settle
  <2>5. CASE ZeroCredits
    BY <2>1, <2>5 DEF ZeroCredits
  <2>6. CASE \E n \in 0..MaxReady : Backlog(n)
    BY <2>1, <2>6 DEF Backlog
  <2>. QED
    BY <2>2, <2>3, <2>4, <2>5, <2>6 DEF WriterStep
<1>3. (zeroed => zeroed') /\ BalanceIsSum'
  BY DEF WriterStep, Submit, Release, Settle, ZeroCredits, Backlog, MetricsInv, BalanceIsSum
<1>4. TypeOK'
  BY <1>1, <1>2 DEF MetricsInv, TypeOK, process
<1>5. ShownIsFunction' /\ CacheKnowsAge' /\ FreshOrFailed' /\ NoFalseAlarm'
  BY <1>1, <1>3 DEF MetricsInv, ShownIsFunction, CacheKnowsAge, FreshOrFailed, NoFalseAlarm, process
<1>. QED
  BY <1>3, <1>4, <1>5 DEF MetricsInv

\* A step that leaves all gauges and the clock alone, and does not pass one that is not fresh.
LEMMA PassingKeeps ==
    ASSUME MetricsInv, UNCHANGED <<database, elapsed, hadSuccess, expiresIn, shown, dataAge, failed, faults>>,
           pc' \in Steps, balanceRead' \in [credits : Nat, reserved : Nat, age : 0..elapsed],
           balanceRead'.reserved <= balanceRead'.credits,
           \A g \in Gauges : pc' \in After(g) => pc \in After(g) \/ IsCached(g)
    PROVE  MetricsInv'
<1>1. TypeOK'
  BY DEF MetricsInv, TypeOK, database
<1>2. FreshOrFailed'
  <2>. SUFFICES ASSUME NEW g \in Gauges, g \notin failed', pc' \in After(g)
                PROVE  hadSuccess[g] /\ dataAge[g] - elapsed < TTL[g]
    BY DEF FreshOrFailed
  <2>1. CASE pc \in After(g)
    BY <2>1 DEF MetricsInv, FreshOrFailed
  <2>2. CASE IsCached(g)
    <3>1. hadSuccess[g] /\ expiresIn[g] + elapsed > 0 /\ dataAge[g] + expiresIn[g] <= TTL[g]
      BY <2>2 DEF IsCached, MetricsInv, CacheKnowsAge
    <3>2. expiresIn[g] \in Int /\ dataAge[g] \in Nat /\ elapsed \in Nat /\ TTL[g] \in Nat
      BY MetricsAssumption DEF MetricsInv, TypeOK
    <3>. QED
      BY <3>1, <3>2
  <2>. QED
    BY <2>1, <2>2
<1>3. ShownIsFunction' /\ CacheKnowsAge' /\ BalanceIsSum' /\ NoFalseAlarm'
  BY DEF MetricsInv, ShownIsFunction, CacheKnowsAge, BalanceIsSum, NoFalseAlarm, database
<1>. QED
  BY <1>1, <1>2, <1>3 DEF MetricsInv

\* A step that sets one gauge, to a value of its own type that was read during the scrape.
LEMMA RefreshKeeps ==
    ASSUME MetricsInv, NEW g \in Gauges, NEW value, Refresh(g, value),
           NEW age \in 0..elapsed, dataAge' = [dataAge EXCEPT ![g] = age],
           UNCHANGED <<database, elapsed, balanceRead, failed, faults>>,
           pc' \in Steps, \A h \in Gauges \ {g} : pc' \in After(h) => pc \in After(h),
           g = "ready" => value \in 0..MaxReady,
           g = "payment" => value \in [ViolationTypes -> 0..1]
                            /\ (~zeroed => \A t \in ViolationTypes : value[t] = 0)
    PROVE  MetricsInv'
<1>1. /\ shown = [h \in Gauges |-> shown[h]] /\ elapsed \in 0..MaxScrape /\ MaxScrape \in Nat
      /\ TTL \in [Gauges -> Nat \ {0}]
      /\ hadSuccess \in [Gauges -> BOOLEAN] /\ expiresIn \in [Gauges -> Int] /\ dataAge \in [Gauges -> Nat]
  BY MetricsAssumption DEF MetricsInv, TypeOK, ShownIsFunction
<1>2. /\ shown'[g] = value /\ hadSuccess'[g] /\ expiresIn'[g] = TTL[g] - elapsed /\ dataAge'[g] = age
      /\ \A h \in Gauges \ {g} : /\ shown'[h] = shown[h] /\ hadSuccess'[h] = hadSuccess[h]
                                 /\ expiresIn'[h] = expiresIn[h] /\ dataAge'[h] = dataAge[h]
  BY <1>1 DEF Refresh
<1>3. /\ hadSuccess' \in [Gauges -> BOOLEAN] /\ expiresIn' \in [Gauges -> Int]
      /\ dataAge' \in [Gauges -> Nat] /\ ShownIsFunction'
  <2>1. hadSuccess' \in [Gauges -> BOOLEAN]
    BY <1>1 DEF Refresh
  <2>2. TTL[g] - elapsed \in Int
    BY <1>1
  <2>3. expiresIn' \in [Gauges -> Int] /\ dataAge' \in [Gauges -> Nat]
    BY <1>1, <2>2 DEF Refresh
  <2>4. ShownIsFunction'
    BY <1>1 DEF Refresh, ShownIsFunction
  <2>. QED
    BY <2>1, <2>3, <2>4
<1>4. /\ shown'["ready"] \in 0..MaxReady \cup {NoValue}
      /\ shown'["payment"] \in [ViolationTypes -> 0..1] \cup {NoValue}
  BY <1>2 DEF MetricsInv, TypeOK
<1>5. TypeOK'
  BY <1>3, <1>4 DEF MetricsInv, TypeOK, database
<1>6. AgeCap(g) \in Nat /\ AgeCap(g) >= MaxScrape /\ TTL[g] \in Nat /\ TTL[g] > 0
  BY MetricsAssumption DEF AgeCap
<1>7. value # NoValue
  BY MetricsAssumption
<1>8. CacheKnowsAge'
  <2>1. dataAge'[g] <= AgeCap(g) /\ shown'[g] # NoValue /\ dataAge'[g] + expiresIn'[g] <= TTL[g]
    BY <1>1, <1>2, <1>6, <1>7
  <2>2. \A h \in Gauges \ {g} :
            /\ dataAge'[h] <= AgeCap(h)
            /\ hadSuccess'[h] => shown'[h] # NoValue /\ dataAge'[h] + expiresIn'[h] <= TTL[h]
    BY <1>2 DEF MetricsInv, CacheKnowsAge
  <2>. QED
    BY <2>1, <2>2 DEF CacheKnowsAge, AgeCap
<1>9. FreshOrFailed'
  <2>1. hadSuccess'[g] /\ dataAge'[g] - elapsed < TTL[g]
    BY <1>1, <1>2, <1>6
  <2>2. \A h \in Gauges \ failed : h # g /\ pc' \in After(h) => hadSuccess'[h] /\ dataAge'[h] - elapsed < TTL[h]
    BY <1>2 DEF MetricsInv, FreshOrFailed
  <2>. QED
    BY <2>1, <2>2 DEF FreshOrFailed, After
<1>10. NoFalseAlarm'
  <2>1. CASE g = "payment"
    BY <1>2, <2>1 DEF NoFalseAlarm, database
  <2>2. CASE g # "payment"
    BY <1>2, <2>2 DEF MetricsInv, NoFalseAlarm, database
  <2>. QED
    BY <2>1, <2>2
<1>11. BalanceIsSum'
  BY DEF MetricsInv, BalanceIsSum, database
<1>. QED
  BY <1>3, <1>5, <1>8, <1>9, <1>10, <1>11 DEF MetricsInv

\* Seconds pass for caches, data and scrape alike.
LEMMA TickKeeps ==
    ASSUME MetricsInv, Tick
    PROVE  MetricsInv'
<1>1. /\ elapsed \in 0..MaxScrape /\ TTL \in [Gauges -> Nat \ {0}] /\ MaxScrape \in Nat
      /\ expiresIn \in [Gauges -> Int] /\ dataAge \in [Gauges -> Nat]
      /\ \A g \in Gauges : AgeCap(g) = TTL[g] + MaxScrape
  BY MetricsAssumption DEF MetricsInv, TypeOK, AgeCap
<1>2. /\ UNCHANGED <<database, pc, hadSuccess, shown, failed, faults>>
      /\ elapsed' \in 0..MaxScrape /\ elapsed' >= elapsed /\ (pc # "idle" => elapsed' = elapsed + 1)
  BY <1>1 DEF Tick
<1>3. \A g \in Gauges :
        /\ expiresIn'[g] = IF expiresIn[g] > -MaxScrape THEN expiresIn[g] - 1 ELSE -MaxScrape
        /\ dataAge'[g] = IF dataAge[g] < AgeCap(g) THEN dataAge[g] + 1 ELSE AgeCap(g)
  BY DEF Tick
<1>4. expiresIn' \in [Gauges -> Int] /\ dataAge' \in [Gauges -> Nat]
  BY <1>1 DEF Tick
<1>5. TypeOK'
  <2>1. /\ balanceRead \in [credits : Nat, reserved : Nat, age : 0..elapsed]
        /\ balanceRead.reserved <= balanceRead.credits
    BY DEF MetricsInv, TypeOK
  <2>2. /\ balanceRead' \in [credits : Nat, reserved : Nat, age : 0..elapsed']
        /\ balanceRead'.reserved <= balanceRead'.credits
    <3>1. CASE pc = "mismatch"
      <4>1. balanceRead' = [balanceRead EXCEPT !.age = @ + 1] /\ elapsed' = elapsed + 1
        BY <1>2, <3>1 DEF Tick
      <4>. QED
        BY <1>1, <2>1, <4>1
    <3>2. CASE pc # "mismatch"
      <4>1. balanceRead' = balanceRead
        BY <3>2 DEF Tick
      <4>. QED
        BY <1>1, <1>2, <2>1, <4>1
    <3>. QED
      BY <3>1, <3>2
  <2>. QED
    BY <1>2, <1>4, <2>2 DEF MetricsInv, TypeOK, database
<1>6. CacheKnowsAge'
  <2>. SUFFICES ASSUME NEW g \in Gauges
                PROVE  /\ dataAge'[g] <= AgeCap(g)
                       /\ hadSuccess[g] => shown[g] # NoValue /\ dataAge'[g] + expiresIn'[g] <= TTL[g]
    BY <1>2 DEF CacheKnowsAge, AgeCap
  <2>1. dataAge[g] <= AgeCap(g) /\ (hadSuccess[g] => shown[g] # NoValue /\ dataAge[g] + expiresIn[g] <= TTL[g])
    BY DEF MetricsInv, CacheKnowsAge
  <2>2. expiresIn[g] \in Int /\ dataAge[g] \in Nat /\ TTL[g] \in Nat
    BY <1>1
  <2>. QED
    BY <1>1, <1>3, <2>1, <2>2
<1>7. FreshOrFailed'
  <2>. SUFFICES ASSUME NEW g \in Gauges, g \notin failed, pc \in After(g)
                PROVE  hadSuccess[g] /\ dataAge'[g] - elapsed' < TTL[g]
    BY <1>2 DEF FreshOrFailed, After
  <2>1. hadSuccess[g] /\ dataAge[g] - elapsed < TTL[g] /\ pc # "idle" /\ dataAge[g] <= AgeCap(g)
    BY DEF MetricsInv, FreshOrFailed, After, CacheKnowsAge
  <2>2. dataAge'[g] <= dataAge[g] + 1 /\ dataAge'[g] \in Nat
    BY <1>1, <1>3, <1>4, <2>1
  <2>. QED
    BY <1>1, <1>2, <2>1, <2>2
<1>8. ShownIsFunction' /\ BalanceIsSum' /\ NoFalseAlarm'
  BY <1>2 DEF MetricsInv, ShownIsFunction, BalanceIsSum, NoFalseAlarm, database
<1>. QED
  BY <1>5, <1>6, <1>7, <1>8 DEF MetricsInv

\* One fault fewer is left.
LEMMA FaultsLeft ==
    ASSUME MetricsInv, faults > 0, faults' = faults - 1
    PROVE  faults' \in 0..MaxFaults
<1>1. faults \in 0..MaxFaults /\ MaxFaults \in Nat
  BY MetricsAssumption DEF MetricsInv, TypeOK
<1>. QED
  BY <1>1

\* A query fails: its gauge is the scrape's to excuse, and stays as it is.
LEMMA FailureKeeps ==
    ASSUME MetricsInv, NEW g \in Gauges, NEW step, NEW next \in Steps, QueryFails(g, step, next),
           \A h \in Gauges \ {g} : next \in After(h) => step \in After(h)
    PROVE  MetricsInv'
<1>1. /\ UNCHANGED <<database, elapsed, hadSuccess, balanceRead, shown, dataAge>>
      /\ failed' = failed \cup {g} /\ pc = step /\ pc' = next
      /\ faults > 0 /\ faults' = faults - 1
  BY DEF QueryFails, Goes
<1>2. expiresIn' = expiresIn
  BY DEF QueryFails, ExpiryAfterFailure, MetricsInv, TypeOK
<1>3. TypeOK'
  <2>1. faults' \in 0..MaxFaults
    BY <1>1, FaultsLeft
  <2>. QED
    BY <1>1, <1>2, <2>1 DEF MetricsInv, TypeOK, database
<1>4. FreshOrFailed'
  BY <1>1 DEF MetricsInv, FreshOrFailed, After
<1>5. ShownIsFunction' /\ CacheKnowsAge' /\ BalanceIsSum' /\ NoFalseAlarm'
  BY <1>1, <1>2 DEF MetricsInv, ShownIsFunction, CacheKnowsAge, BalanceIsSum, NoFalseAlarm, database
<1>. QED
  BY <1>3, <1>4, <1>5 DEF MetricsInv

\* A scrape ends, or the API starts anew: there is no scrape, and no gauge that was not shown.
LEMMA EndKeeps ==
    ASSUME MetricsInv, EndScrape, pc' = "idle", UNCHANGED <<database, expiresIn, dataAge>>,
           faults' \in 0..MaxFaults,
           \/ UNCHANGED <<hadSuccess, shown>>
           \/ hadSuccess' = [g \in Gauges |-> FALSE] /\ shown' = [g \in Gauges |-> NoValue]
    PROVE  MetricsInv'
<1>1. elapsed' \in 0..MaxScrape /\ elapsed' = 0 /\ failed' = {} /\ balanceRead' = NothingRead
  BY MetricsAssumption DEF EndScrape
<1>2. TypeOK'
  <2>1. /\ balanceRead' \in [credits : Nat, reserved : Nat, age : 0..elapsed']
        /\ balanceRead'.reserved <= balanceRead'.credits
    BY <1>1 DEF NothingRead
  <2>2. /\ hadSuccess' \in [Gauges -> BOOLEAN]
        /\ shown'["ready"] \in 0..MaxReady \cup {NoValue}
        /\ shown'["payment"] \in [ViolationTypes -> 0..1] \cup {NoValue}
    BY DEF MetricsInv, TypeOK
  <2>. QED
    BY <1>1, <2>1, <2>2 DEF MetricsInv, TypeOK, database
<1>3. ShownIsFunction' /\ CacheKnowsAge'
  BY DEF MetricsInv, ShownIsFunction, CacheKnowsAge
<1>4. FreshOrFailed'
  BY DEF FreshOrFailed, After
<1>5. BalanceIsSum' /\ NoFalseAlarm'
  BY DEF MetricsInv, BalanceIsSum, NoFalseAlarm, database
<1>. QED
  BY <1>2, <1>3, <1>4, <1>5 DEF MetricsInv

\* Every step keeps the invariant.
LEMMA MetricsInvStep == MetricsInv /\ [Next]_vars => MetricsInv'
<1>. SUFFICES ASSUME MetricsInv, [Next]_vars PROVE MetricsInv'
  OBVIOUS
<1>1. /\ balanceRead \in [credits : Nat, reserved : Nat, age : 0..elapsed]
      /\ balanceRead.reserved <= balanceRead.credits /\ elapsed \in Nat
      /\ credits \in Nat /\ reserved \in 0..credits /\ reserved \in Nat /\ ready \in 0..MaxReady
  BY DEF MetricsInv, TypeOK
<1>2. CASE StartScrape
  BY <1>1, <1>2, PassingKeeps DEF StartScrape, Goes, After
<1>3. CASE UseCache("ready", "payment")
  BY <1>1, <1>3, PassingKeeps DEF UseCache, Goes, After
<1>4. CASE UseCache("payment", "render")
  BY <1>1, <1>4, PassingKeeps DEF UseCache, Goes, After
<1>5. CASE QueryReady
  <2>1. 0 \in 0..elapsed
    BY <1>1
  <2>. QED
    BY <1>1, <1>5, <2>1, RefreshKeeps DEF QueryReady, Goes, After
<1>6. CASE QueryBalances
  <2>1. /\ balanceRead' \in [credits : Nat, reserved : Nat, age : 0..elapsed]
        /\ balanceRead'.reserved <= balanceRead'.credits
    BY <1>1, <1>6 DEF QueryBalances
  <2>. QED
    BY <1>6, <2>1, PassingKeeps DEF QueryBalances, Goes, After
<1>7. CASE QueryMismatch
  <2>. DEFINE value == Violations(balanceRead, ReservedNow, heldCost)
  <2>1. value \in [ViolationTypes -> 0..1] /\ (~zeroed => \A t \in ViolationTypes : value[t] = 0)
    BY <1>1, ViolationsType DEF ReservedNow, MetricsInv, BalanceIsSum
  <2>. HIDE DEF value
  <2>2. /\ Refresh("payment", value) /\ dataAge' = [dataAge EXCEPT !["payment"] = balanceRead.age]
        /\ balanceRead.age \in 0..elapsed
        /\ UNCHANGED <<database, elapsed, balanceRead, failed, faults>>
        /\ pc = "mismatch" /\ pc' = "render"
    BY <1>1, <1>7 DEF QueryMismatch, Goes, value
  <2>. QED
    BY <2>1, <2>2, RefreshKeeps DEF After
<1>8. CASE Render
  BY <1>8, EndKeeps DEF Render, Goes, MetricsInv, TypeOK
<1>9. CASE QueryFails("ready", "ready", "payment")
  BY <1>9, FailureKeeps DEF After
<1>10. CASE QueryFails("payment", "payment", "render")
  BY <1>10, FailureKeeps DEF After
<1>11. CASE QueryFails("payment", "mismatch", "render")
  BY <1>11, FailureKeeps DEF After
<1>12. CASE Restart
  <2>1. faults' \in 0..MaxFaults
    BY <1>12, FaultsLeft DEF Restart
  <2>. QED
    BY <1>12, <2>1, EndKeeps DEF Restart
<1>13. CASE UNCHANGED vars
  BY <1>13 DEF vars, process, MetricsInv, TypeOK, ShownIsFunction, CacheKnowsAge, FreshOrFailed,
               BalanceIsSum, NoFalseAlarm, database
<1>. QED
  BY <1>2, <1>3, <1>4, <1>5, <1>6, <1>7, <1>8, <1>9, <1>10, <1>11, <1>12, <1>13, WriterKeeps, TickKeeps
     DEF Next, ScrapeStep, ScrapeFails

\* The invariant holds in every reachable state.
LEMMA MetricsInvCorrect == Spec => []MetricsInv
<1>1. Init => MetricsInv
  <2>. SUFFICES ASSUME Init PROVE MetricsInv
    OBVIOUS
  <2>1. TypeOK
    <3>1. \A g \in Gauges : AgeCap(g) \in Nat
      BY MetricsAssumption DEF AgeCap
    <3>2. 0 \in 0..InitialCredits /\ elapsed = 0 /\ balanceRead = NothingRead
      BY MetricsAssumption DEF Init
    <3>3. 0 \in 0..MaxReady /\ 0 \in 0..MaxScrape /\ faults \in 0..MaxFaults
      BY MetricsAssumption DEF Init
    <3>4. credits \in Nat /\ reserved \in 0..credits
      BY <3>2, MetricsAssumption DEF Init
    <3>5. dataAge \in [Gauges -> Nat]
      BY <3>1 DEF Init
    <3>6. /\ balanceRead \in [credits : Nat, reserved : Nat, age : 0..elapsed]
          /\ balanceRead.reserved <= balanceRead.credits
      BY <3>2 DEF NothingRead
    <3>7. heldCost \in Nat /\ ready \in 0..MaxReady /\ pc \in Steps /\ elapsed \in 0..MaxScrape
      BY <3>3 DEF Init
    <3>8. hadSuccess \in [Gauges -> BOOLEAN] /\ expiresIn \in [Gauges -> Int]
      BY DEF Init
    <3>9. shown["ready"] = NoValue /\ shown["payment"] = NoValue
      BY DEF Init
    <3>10. failed \subseteq Gauges /\ zeroed \in BOOLEAN
      BY DEF Init
    <3>. QED
      BY <3>3, <3>4, <3>5, <3>6, <3>7, <3>8, <3>9, <3>10 DEF TypeOK
  <2>2. ShownIsFunction /\ CacheKnowsAge
    BY MetricsAssumption DEF Init, ShownIsFunction, CacheKnowsAge, AgeCap
  <2>3. FreshOrFailed /\ BalanceIsSum /\ NoFalseAlarm
    BY DEF Init, FreshOrFailed, BalanceIsSum, NoFalseAlarm, After
  <2>. QED
    BY <2>1, <2>2, <2>3 DEF MetricsInv
<1>. QED
  BY <1>1, MetricsInvStep, PTL DEF Spec

-------------------------------------------------------------------------------
\* Type correctness of every reachable state, with the CHECK constraints of users.
THEOREM MetricsTypeCorrect == Spec => []TypeOK
<1>1. MetricsInv => TypeOK
  BY DEF MetricsInv
<1>. QED
  BY <1>1, MetricsInvCorrect, PTL

\* A gauge is older than its cache time, when a scrape shows it, only after a failure of its own
\* query in that scrape.
THEOREM GaugesAreFresh == Spec => []StaleOnlyAfterFailure
<1>1. MetricsInv => StaleOnlyAfterFailure
  BY DEF MetricsInv, FreshOrFailed, CacheKnowsAge, After, StaleOnlyAfterFailure
<1>. QED
  BY <1>1, MetricsInvCorrect, PTL

\* No violation is shown of a database that never had one.
THEOREM AlarmsAreTrue == Spec => []NoFalseAlarm
<1>1. MetricsInv => NoFalseAlarm
  BY DEF MetricsInv
<1>. QED
  BY <1>1, MetricsInvCorrect, PTL
===============================================================================
