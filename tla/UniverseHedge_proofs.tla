------------------------ MODULE UniverseHedge_proofs ------------------------
(***************************************************************************)
(* Proofs about the first and the last stage of the pipeline, which share  *)
(* nothing: Universe, for any set of tickers and feeds and any number of   *)
(* syncs (LogReplays needs that syncs do not overlap), then HedgeSizing,   *)
(* for any calendar, market data and sizes.                                *)
(***************************************************************************)
EXTENDS Universe, HedgeSizing, FiniteSetTheorems, WellFoundedInduction, TLAPS

(* The syncs of a behaviour never overlap: there is one process of them.   *)
OneSync == \A r, s \in Syncs : r = s

LEMMA InitTypeOK == Init => TypeOK
BY DEF Init, TypeOK, Changes, Steps

LEMMA NextTypeOK == TypeOK /\ [Next]_vars => TypeOK'
<1> SUFFICES ASSUME TypeOK, [Next]_vars PROVE TypeOK'
  OBVIOUS
<1> USE DEF TypeOK, Changes, Steps, syncVars, rowVars, historyVars
<1>1. ASSUME NEW s \in Syncs, Fetch(s) PROVE TypeOK'
  <2>1. PICK selected \in SUBSET Sources, down \in SUBSET Sources :
          /\ feed' = [feed EXCEPT ![s] = UNION {members[f] : f \in selected \ down}]
          /\ unread' = [unread EXCEPT ![s] = UNION {members[f] : f \in down}]
    BY <1>1 DEF Fetch
  <2>2. UNION {members[f] : f \in selected \ down} \in SUBSET Tickers
    OBVIOUS
  <2>3. UNION {members[f] : f \in down} \in SUBSET Tickers
    OBVIOUS
  <2> QED BY <1>1, <2>1, <2>2, <2>3 DEF Fetch
<1>2. ASSUME NEW s \in Syncs, Plan(s) PROVE TypeOK'
  BY <1>2 DEF Plan, ActiveAuto
<1>3. ASSUME NEW s \in Syncs, Sync(s) PROVE TypeOK'
  <2>1. known' = known \cup feed[s] /\ feed[s] \subseteq Tickers
    BY <1>3 DEF Sync, Inserted
  <2>2. active' \subseteq known'
    BY <1>3, <2>1 DEF Sync
  <2>3. lastChange' \in [Tickers -> Changes] /\ source' \in [Tickers -> {"auto", "manual"}]
    BY <1>3 DEF Sync, LoggedDiff
  <2> QED BY <1>3, <2>1, <2>2, <2>3 DEF Sync
<1>4. ASSUME NEW s \in Syncs, Measure(s) PROVE TypeOK'
  BY <1>4 DEF Measure
<1>5. ASSUME NEW s \in Syncs, DropIlliquid(s) PROVE TypeOK'
  <2>1. lastChange' \in [Tickers -> Changes]
    BY <1>5 DEF DropIlliquid, Logged
  <2> QED BY <1>5, <2>1 DEF DropIlliquid, End
<1>6. ASSUME NEW s \in Syncs, Stop(s) PROVE TypeOK'
  BY <1>6 DEF Stop, End
<1>7. ASSUME NEW f \in Sources, NEW T \in SUBSET Tickers, Reconstitute(f, T) PROVE TypeOK'
  BY <1>7 DEF Reconstitute
<1>8. ASSUME NEW T \in SUBSET Tickers, AddByHand(T) PROVE TypeOK'
  <2>1. lastChange' \in [Tickers -> Changes] /\ source' \in [Tickers -> {"auto", "manual"}]
    BY <1>8 DEF AddByHand, Logged, SourceByHand
  <2> QED BY <1>8, <2>1 DEF AddByHand, Inserted
<1>9. CASE BackfillSector
  BY <1>9 DEF BackfillSector, Inserted
<1>10. CASE InsertSpy
  BY <1>10, SpyAssumption DEF InsertSpy, Inserted
<1>11. CASE UNCHANGED vars
  BY <1>11 DEF vars
<1> QED
  BY <1>1, <1>2, <1>3, <1>4, <1>5, <1>6, <1>7, <1>8, <1>9, <1>10, <1>11 DEF Next, SyncStep

(* Only rows of universe are ever active, and what a sync holds between    *)
(* its transactions are tickers it read there.                             *)
THEOREM TypeCorrect == Spec => []TypeOK
BY InitTypeOK, NextTypeOK, PTL DEF Spec
-----------------------------------------------------------------------------
(* What a sync that has planned its entries may still rely on when it      *)
(* writes them: since it read them, no other step has switched off one of  *)
(* its tickers or made it manual.                                          *)
PlanHolds ==
  \A s \in Syncs : pc[s] = "planned" =>
    currentAuto[s] \subseteq {t \in active : source[t] = "auto"}

(* Only tickers that have a row are in universe_changes: a row inserted    *)
(* without an entry has none from before.                                  *)
OnlyRowsLogged == \A t \in Tickers \ known : lastChange[t] = "none"

LogInv == TypeOK /\ LogReplays /\ PlanHolds /\ OnlyRowsLogged

LEMMA InitLogInv == Init => LogInv
BY InitTypeOK DEF Init, LogInv, LogReplays, PlanHolds, OnlyRowsLogged

LEMMA NextOnlyRowsLogged == TypeOK /\ OnlyRowsLogged /\ [Next]_vars => OnlyRowsLogged'
<1> SUFFICES ASSUME TypeOK, OnlyRowsLogged, [Next]_vars,
                    NEW t \in Tickers, t \notin known'
             PROVE  lastChange'[t] = "none"
  BY DEF OnlyRowsLogged
<1> USE DEF OnlyRowsLogged, syncVars, rowVars
<1>1. ASSUME NEW s \in Syncs, Sync(s) PROVE lastChange'[t] = "none"
  <2>1. t \notin known /\ t \notin feed[s] /\ t \notin currentAuto[s]
    BY <1>1 DEF Sync, Inserted, TypeOK
  <2> QED BY <1>1, <2>1 DEF Sync, LoggedDiff, ToAdd
<1>2. ASSUME NEW s \in Syncs, DropIlliquid(s) PROVE lastChange'[t] = "none"
  <2>1. t \notin known /\ t \notin illiquid[s]
    BY <1>2 DEF DropIlliquid, TypeOK
  <2> QED BY <1>2, <2>1 DEF DropIlliquid, Logged
<1>3. ASSUME NEW T \in SUBSET Tickers, AddByHand(T) PROVE lastChange'[t] = "none"
  BY <1>3 DEF AddByHand, Inserted, Logged
<1>4. ASSUME NEW s \in Syncs, Fetch(s) \/ Plan(s) \/ Measure(s) \/ Stop(s)
      PROVE lastChange'[t] = "none"
  BY <1>4 DEF Fetch, Plan, Measure, Stop
<1>5. CASE \/ BackfillSector \/ InsertSpy
           \/ \E f \in Sources, T \in SUBSET Tickers : Reconstitute(f, T)
  BY <1>5 DEF BackfillSector, InsertSpy, Reconstitute, Inserted
<1>6. CASE UNCHANGED vars
  BY <1>6 DEF vars
<1> QED BY <1>1, <1>2, <1>3, <1>4, <1>5, <1>6 DEF Next, SyncStep

LEMMA NextLogInv == ASSUME OneSync PROVE LogInv /\ [Next]_vars => LogInv'
<1> SUFFICES ASSUME LogInv, [Next]_vars PROVE LogReplays' /\ PlanHolds'
  BY NextTypeOK, NextOnlyRowsLogged DEF LogInv
<1> USE DEF LogInv, TypeOK, syncVars, rowVars
<1>1. ASSUME NEW s \in Syncs, Fetch(s) PROVE LogReplays' /\ PlanHolds'
  BY <1>1 DEF Fetch, LogReplays, PlanHolds
<1>2. ASSUME NEW s \in Syncs, Plan(s) PROVE LogReplays' /\ PlanHolds'
  <2>1. LogReplays'
    BY <1>2 DEF Plan, LogReplays
  <2>2. PlanHolds'
    BY <1>2 DEF Plan, PlanHolds, ActiveAuto
  <2> QED BY <2>1, <2>2
<1>3. ASSUME NEW s \in Syncs, Sync(s) PROVE LogReplays' /\ PlanHolds'
  <2>1. PlanHolds'
    BY <1>3, OneSync DEF Sync, PlanHolds, OneSync
  <2>2. currentAuto[s] \subseteq {t \in active : source[t] = "auto"}
    BY <1>3 DEF Sync, PlanHolds
  <2>3. ToRemove(s) = currentAuto[s] \ feed[s]
    BY <2>2 DEF ToRemove
  <2>4. known' = known \cup feed[s] /\ active' = (active \cup feed[s]) \ (currentAuto[s] \ feed[s])
    BY <1>3, <2>3 DEF Sync, Inserted
  <2>5. ASSUME NEW t \in known', lastChange'[t] # "none"
        PROVE  t \in active' <=> lastChange'[t] = "added"
    <3>1. t \in Tickers
      BY <2>4
    <3>2. lastChange'[t] = IF t \in currentAuto[s] \ feed[s] THEN "removed"
                           ELSE IF t \in feed[s] \ currentAuto[s] THEN "added" ELSE lastChange[t]
      BY <1>3, <3>1 DEF Sync, LoggedDiff, ToAdd
    <3>3. CASE t \in currentAuto[s] \ feed[s]
      BY <3>2, <3>3, <2>4
    <3>4. CASE t \in feed[s] \ currentAuto[s]
      BY <3>2, <3>4, <2>4
    <3>5. CASE t \in feed[s] /\ t \in currentAuto[s]
      <4>1. t \in known /\ t \in active /\ t \in active'
        BY <2>2, <2>4, <3>5
      <4> QED BY <2>5, <3>2, <3>5, <4>1 DEF LogReplays
    <3>6. CASE t \notin feed[s] /\ t \notin currentAuto[s]
      BY <2>4, <2>5, <3>2, <3>6 DEF LogReplays
    <3> QED BY <3>3, <3>4, <3>5, <3>6
  <2> QED BY <2>1, <2>5 DEF LogReplays
<1>4. ASSUME NEW s \in Syncs, Measure(s) PROVE LogReplays' /\ PlanHolds'
  BY <1>4 DEF Measure, LogReplays, PlanHolds
<1>5. ASSUME NEW s \in Syncs, DropIlliquid(s) PROVE LogReplays' /\ PlanHolds'
  <2>1. LogReplays'
    BY <1>5 DEF DropIlliquid, Logged, LogReplays
  <2>2. PlanHolds'
    BY <1>5, OneSync DEF DropIlliquid, End, PlanHolds, OneSync
  <2> QED BY <2>1, <2>2
<1>6. ASSUME NEW s \in Syncs, Stop(s) PROVE LogReplays' /\ PlanHolds'
  BY <1>6, OneSync DEF Stop, End, LogReplays, PlanHolds, OneSync
<1>7. ASSUME NEW f \in Sources, NEW T \in SUBSET Tickers, Reconstitute(f, T)
      PROVE LogReplays' /\ PlanHolds'
  BY <1>7 DEF Reconstitute, LogReplays, PlanHolds
<1>8. ASSUME NEW T \in SUBSET Tickers, AddByHand(T) PROVE LogReplays' /\ PlanHolds'
  <2>1. LogReplays'
    BY <1>8 DEF AddByHand, Inserted, Logged, LogReplays
  <2>2. PlanHolds'
    BY <1>8 DEF AddByHand, SourceByHand, Inserted, PlanHolds
  <2> QED BY <2>1, <2>2
<1>9. CASE BackfillSector
  <2>1. PICK T \in SUBSET Tickers : known' = known \cup T /\ active' = active \cup (T \ known)
    BY <1>9 DEF BackfillSector, Inserted
  <2>2. \A t \in T \ known : lastChange[t] = "none"
    BY <2>1 DEF OnlyRowsLogged
  <2> QED BY <1>9, <2>1, <2>2 DEF BackfillSector, LogReplays, PlanHolds
<1>10. CASE InsertSpy
  BY <1>10, SpyAssumption DEF InsertSpy, Inserted, LogReplays, PlanHolds, OnlyRowsLogged
<1>11. CASE UNCHANGED vars
  BY <1>11 DEF vars, LogReplays, PlanHolds
<1> QED
  BY <1>1, <1>2, <1>3, <1>4, <1>5, <1>6, <1>7, <1>8, <1>9, <1>10, <1>11 DEF Next, SyncStep

(* With syncs that do not overlap, universe_changes replays to is_active   *)
(* for every ticker that has an entry.                                     *)
THEOREM LogReplaysTheorem == ASSUME OneSync PROVE Spec => []LogReplays
<1>1. LogInv /\ [Next]_vars => LogInv'
  BY NextLogInv
<1>2. LogInv => LogReplays
  BY DEF LogInv
<1> QED BY InitLogInv, <1>1, <1>2, PTL DEF Spec
-----------------------------------------------------------------------------
(* Every 'auto' row came from a feed: what the operator inserted is manual *)
(* until a sync fetches it.                                                *)
AutoIsListed == \A t \in known : source[t] = "auto" => t \in listed

LEMMA NextAutoIsListed == TypeOK /\ AutoIsListed /\ [Next]_vars => AutoIsListed'
<1> SUFFICES ASSUME TypeOK, AutoIsListed, [Next]_vars, NEW t \in known', source'[t] = "auto"
             PROVE  t \in listed'
  BY DEF AutoIsListed
<1> USE DEF TypeOK, AutoIsListed, syncVars, rowVars, historyVars
<1>1. ASSUME NEW s \in Syncs, Sync(s) PROVE t \in listed'
  BY <1>1 DEF Sync, Inserted
<1>2. ASSUME NEW T \in SUBSET Tickers, AddByHand(T) PROVE t \in listed'
  BY <1>2 DEF AddByHand, Inserted, SourceByHand
<1>3. CASE BackfillSector
  BY <1>3 DEF BackfillSector, Inserted
<1>4. CASE InsertSpy
  BY <1>4, SpyAssumption DEF InsertSpy, Inserted
<1>5. ASSUME NEW s \in Syncs, Fetch(s) \/ Plan(s) \/ Measure(s) \/ DropIlliquid(s) \/ Stop(s)
      PROVE  t \in listed'
  BY <1>5 DEF Fetch, Plan, Measure, DropIlliquid, Stop
<1>6. CASE \E f \in Sources, T \in SUBSET Tickers : Reconstitute(f, T)
  BY <1>6 DEF Reconstitute
<1>7. CASE UNCHANGED vars
  BY <1>7 DEF vars
<1> QED BY <1>1, <1>2, <1>3, <1>4, <1>5, <1>6, <1>7 DEF Next, SyncStep

LEMMA SyncSparesUnlisted ==
  ASSUME TypeOK, AutoIsListed, [Next]_vars, NEW s \in Syncs, pc[s] = "planned", pc'[s] = "synced"
  PROVE  (active \ active') \cap byHand \subseteq listed
<1> SUFFICES ASSUME NEW t \in active, t \notin active' PROVE t \in listed
  OBVIOUS
<1> USE DEF TypeOK, syncVars, rowVars, historyVars
<1>1. ASSUME NEW r \in Syncs, Sync(r) PROVE t \in listed
  <2>1. t \in ToRemove(r)
    BY <1>1 DEF Sync
  <2> QED BY <2>1 DEF ToRemove, AutoIsListed
<1>2. ASSUME NEW r \in Syncs, DropIlliquid(r) PROVE FALSE
  BY <1>2 DEF DropIlliquid, End
<1>3. ASSUME NEW r \in Syncs, Fetch(r) \/ Plan(r) \/ Measure(r) \/ Stop(r) PROVE FALSE
  BY <1>3 DEF Fetch, Plan, Measure, Stop, End
<1>4. CASE \/ BackfillSector \/ InsertSpy
           \/ (\E f \in Sources, T \in SUBSET Tickers : Reconstitute(f, T))
           \/ \E T \in SUBSET Tickers : AddByHand(T)
  BY <1>4 DEF BackfillSector, InsertSpy, Reconstitute, AddByHand
<1>5. CASE UNCHANGED vars
  BY <1>5 DEF vars
<1> QED BY <1>1, <1>2, <1>3, <1>4, <1>5 DEF Next, SyncStep

(* No sync switches off a ticker the operator added and no feed has        *)
(* brought, for any number of overlapping syncs and failing feeds.         *)
THEOREM ManualStaysUntilListedTheorem == Spec => ManualStaysUntilListed
<1>1. Init => AutoIsListed
  BY DEF Init, AutoIsListed
<1>2. TypeOK /\ AutoIsListed /\ [Next]_vars =>
        [\A s \in Syncs : pc[s] = "planned" /\ pc'[s] = "synced" =>
           (active \ active') \cap byHand \subseteq listed]_vars
  BY SyncSparesUnlisted
<1> QED BY InitTypeOK, NextTypeOK, NextAutoIsListed, <1>1, <1>2, PTL DEF Spec, ManualStaysUntilListed
-----------------------------------------------------------------------------
(* HedgeSizing: a row follows the calendar because every contract expires  *)
(* on a Wednesday of its own month, four weeks or more after the one       *)
(* before, and because the weekdays left to one expiry only shrink.        *)

(* A set of numbers with an element has a least one.                       *)
LEMMA MinIsLeast ==
  ASSUME NEW S \in SUBSET Nat, S # {}
  PROVE  Min(S) \in S /\ \A x \in S : Min(S) <= x
<1>1. PICK m \in S : \A y \in S : ~ (<<y, m>> \in OpToRel(<, Nat))
  BY NatLessThanWellFounded, WFMin
<1>2. ASSUME NEW y \in S PROVE m <= y
  <2>1. m \in Nat /\ y \in Nat
    OBVIOUS
  <2>2. ~ (y < m)
    BY <1>1, <2>1 DEF OpToRel
  <2> QED  BY <2>1, <2>2
<1> QED  BY <1>2 DEF Min

(* One bounded from above has a greatest one.                              *)
LEMMA MaxIsGreatest ==
  ASSUME NEW S \in SUBSET Nat, S # {}, NEW b \in Nat, \A x \in S : x <= b
  PROVE  Max(S) \in S /\ \A x \in S : x <= Max(S)
<1> PICK T \in SUBSET Nat : T = {b - x : x \in S}
  <2>1. \A x \in S : b - x \in Nat
    OBVIOUS
  <2> QED  BY <2>1
<1>1. T # {}
  OBVIOUS
<1>2. Min(T) \in T /\ \A y \in T : Min(T) <= y
  BY <1>1, MinIsLeast
<1> PICK m \in S : Min(T) = b - m  BY <1>2
<1>3. \A x \in S : b - m <= b - x
  BY <1>2
<1>4. \A x \in S : m >= x
  BY <1>3
<1>5. Max(S) \in S /\ \A x \in S : Max(S) >= x
  BY <1>4 DEF Max
<1>6. \A x \in S : x <= Max(S)
  BY <1>5
<1> QED  BY <1>5, <1>6
-----------------------------------------------------------------------------
(* The calendar.                                                           *)
LEMMA MonthsAre ==
  /\ Months = 1 .. Len(FirstOfMonth) /\ Labels = 1 .. (Len(FirstOfMonth) - 1)
  /\ Months \subseteq Nat /\ Labels \subseteq Nat
  /\ Len(FirstOfMonth) \in Nat /\ Len(FirstOfMonth) > 3
  /\ \A m \in Months : FirstOfMonth[m] \in Nat
  /\ \A m \in Labels : FirstOfMonth[m] + 28 <= FirstOfMonth[m + 1]
<1>1. Months = 1 .. Len(FirstOfMonth) /\ Len(FirstOfMonth) \in Nat
  BY CalendarAssumption DEF Months
<1>2. Labels = 1 .. (Len(FirstOfMonth) - 1)
  BY <1>1 DEF Labels
<1>3. \A m \in Months : FirstOfMonth[m] \in Nat
  BY <1>1, CalendarAssumption
<1>4. ASSUME NEW m \in Labels
      PROVE  FirstOfMonth[m] + 28 <= FirstOfMonth[m + 1]
  <2>1. m \in Months /\ m + 1 \in Months
    BY DEF Labels
  <2>2. FirstOfMonth[m + 1] - FirstOfMonth[m] \in 28 .. 31
    BY CalendarAssumption
  <2> QED  BY <2>1, <2>2, <1>3
<1> QED  BY <1>1, <1>2, <1>3, <1>4, CalendarAssumption

(* A later month begins later, by four weeks or more.                      *)
LEMMA MonthsAdvance ==
  ASSUME NEW i \in Months, NEW j \in Months, i < j
  PROVE  FirstOfMonth[i] + 28 <= FirstOfMonth[j]
<1> SUFFICES ASSUME ~ (FirstOfMonth[i] + 28 <= FirstOfMonth[j]) PROVE FALSE
  OBVIOUS
<1> PICK S \in SUBSET Nat :
      S = {k \in Months : i < k /\ ~ (FirstOfMonth[i] + 28 <= FirstOfMonth[k])}
  BY MonthsAre
<1>1. Min(S) \in S /\ \A k \in S : Min(S) <= k
  BY MinIsLeast
<1> PICK k \in S : k = Min(S)  BY <1>1
<1>2. k \in Months /\ i < k /\ k - 1 \in Labels /\ i \in Months /\ k - 1 \in Months
  BY MonthsAre
<1>3. FirstOfMonth[k - 1] + 28 <= FirstOfMonth[k]
  <2>1. (k - 1) + 1 = k
    BY <1>2, MonthsAre
  <2> QED  BY <1>2, <2>1, MonthsAre
<1>4. FirstOfMonth[i] \in Nat /\ FirstOfMonth[k] \in Nat /\ FirstOfMonth[k - 1] \in Nat
  BY <1>2, MonthsAre
<1>5. CASE k - 1 = i
  BY <1>3, <1>5
<1>6. CASE k - 1 # i
  <2>1. i < k - 1 /\ ~ (k <= k - 1)
    BY <1>2, <1>6, MonthsAre
  <2>2. k - 1 \notin S
    BY <1>1, <2>1
  <2>3. FirstOfMonth[i] + 28 <= FirstOfMonth[k - 1]
    BY <1>2, <2>1, <2>2
  <2> QED  BY <1>3, <1>4, <2>3
<1> QED  BY <1>5, <1>6

LEMMA WeekdayTyped ==
  ASSUME NEW d \in Int
  PROVE  Weekday(d) \in 0 .. 6 /\ FirstWeekday \in 0 .. 6
BY CalendarAssumption DEF Weekday

(* Weekdays of dates a distance apart.                                     *)
LEMMA WeekdaysApart ==
  ASSUME NEW a \in Int, NEW b \in Int
  PROVE  /\ a % 7 = 4 => (a - 30) % 7 = 2
         /\ a % 7 = 2 /\ b % 7 = 2 /\ a + 22 <= b => a + 28 <= b
         /\ (a + ((4 - (a % 7)) % 7) + 14) % 7 = 4
OBVIOUS

(* third_friday is a Friday, from the 15th to the 21st.                    *)
LEMMA ThirdFridayIs ==
  ASSUME NEW m \in Months
  PROVE  /\ ThirdFriday(m) \in Int
         /\ FirstOfMonth[m] + 14 <= ThirdFriday(m) /\ ThirdFriday(m) <= FirstOfMonth[m] + 20
         /\ Weekday(ThirdFriday(m)) = Friday
<1> PICK f \in Nat : f = FirstOfMonth[m]  BY MonthsAre
<1> PICK w \in Int : w = FirstWeekday  BY CalendarAssumption
<1> PICK a \in Int : a = w + f  OBVIOUS
<1> PICK k \in 0 .. 6 : k = (4 - (a % 7)) % 7  OBVIOUS
<1>1. ThirdFriday(m) = f + k + 14
  BY DEF ThirdFriday, Friday, Weekday
<1>2. (a + k + 14) % 7 = 4
  BY WeekdaysApart
<1>3. w + (f + k + 14) = a + k + 14
  OBVIOUS
<1>4. Weekday(f + k + 14) = 4
  BY <1>2, <1>3 DEF Weekday
<1> QED  BY <1>1, <1>4 DEF Friday

(* vix_futures_expiration never walks back: 30 days before a Friday is a   *)
(* Wednesday (the comment at vix_futures_calendar.py:38 says it need not). *)
LEMMA NoWalkBack ==
  ASSUME NEW m \in Labels
  PROVE  /\ Weekday(ThirdFriday(m + 1) - 30) = Wednesday
         /\ Expiration[m] = ThirdFriday(m + 1) - 30
<1> PICK t \in Int : t = ThirdFriday(m + 1)
  BY ThirdFridayIs DEF Labels
<1>1. Weekday(t) = 4
  BY ThirdFridayIs DEF Labels, Friday
<1>2. Weekday(t - 30) = 2
  <2> PICK w \in Int : w = FirstWeekday  BY CalendarAssumption
  <2>1. (w + t) % 7 = 4 /\ w + t \in Int /\ w + (t - 30) = (w + t) - 30
    BY <1>1 DEF Weekday
  <2>2. ((w + t) - 30) % 7 = 2
    BY <2>1, WeekdaysApart
  <2> QED  BY <2>1, <2>2 DEF Weekday
<1>3. Expiration[m] = (t - 30) - ((2 - 2) % 7)
  BY <1>2, Zenon DEF Expiration, Wednesday
<1> QED  BY <1>2, <1>3 DEF Wednesday

(* An expiration is a Wednesday of its month.                              *)
LEMMA ExpirationIs ==
  ASSUME NEW m \in Labels
  PROVE  /\ Expiration[m] \in Nat /\ Weekday(Expiration[m]) = Wednesday
         /\ FirstOfMonth[m] + 12 <= Expiration[m]
         /\ Expiration[m] <= FirstOfMonth[m + 1] - 10
<1> PICK t \in Int : t = ThirdFriday(m + 1)
  BY ThirdFridayIs DEF Labels
<1>1. m \in Months /\ m + 1 \in Months
  BY DEF Labels
<1>2. Weekday(t) = 4 /\ FirstOfMonth[m + 1] + 14 <= t /\ t <= FirstOfMonth[m + 1] + 20
  BY <1>1, ThirdFridayIs DEF Friday
<1>3. FirstOfMonth[m] \in Nat /\ FirstOfMonth[m + 1] \in Nat
      /\ FirstOfMonth[m] + 28 <= FirstOfMonth[m + 1]
  BY <1>1, MonthsAre
<1>4. Expiration[m] = t - 30 /\ Weekday(t - 30) = Wednesday
  BY NoWalkBack
<1> PICK u \in Nat, v \in Nat : u = FirstOfMonth[m] /\ v = FirstOfMonth[m + 1]
  BY <1>3
<1>5. u + 28 <= v /\ v + 14 <= t /\ t <= v + 20
  BY <1>2, <1>3
<1>6. t - 30 \in Nat /\ u + 12 <= t - 30 /\ t - 30 <= v - 10
  BY <1>5
<1> QED  BY <1>4, <1>6

(* Two contracts expire four weeks apart, or more.                         *)
LEMMA ExpirationsAdvance ==
  ASSUME NEW i \in Labels, NEW j \in Labels, i < j
  PROVE  Expiration[i] + 28 <= Expiration[j]
<1>1. i + 1 \in Months /\ j + 1 \in Months /\ i + 1 < j + 1
  BY MonthsAre
<1>2. FirstOfMonth[i + 1] + 28 <= FirstOfMonth[j + 1]
  BY <1>1, MonthsAdvance
<1> PICK x \in Nat, y \in Nat : x = Expiration[i] /\ y = Expiration[j]
  BY ExpirationIs
<1> PICK u \in Nat, v \in Nat : u = FirstOfMonth[i + 1] /\ v = FirstOfMonth[j + 1]
  BY <1>1, MonthsAre
<1>3. u + 28 <= v /\ x <= u - 10 /\ v <= y + 16
  <2>1. v + 14 <= ThirdFriday(j + 1) /\ ThirdFriday(j + 1) \in Int /\ y = ThirdFriday(j + 1) - 30
    BY <1>1, ThirdFridayIs, NoWalkBack
  <2> QED  BY <1>2, <2>1, ExpirationIs
<1>4. x + 22 <= y
  BY <1>3
<1> PICK w \in Int : w = FirstWeekday  BY CalendarAssumption
<1>5. (w + x) % 7 = 2 /\ (w + y) % 7 = 2 /\ (w + x) + 22 <= w + y
  BY <1>4, ExpirationIs DEF Weekday, Wednesday
<1>6. (w + x) + 28 <= w + y
  BY <1>5, WeekdaysApart
<1> QED  BY <1>6

Days == FirstDay .. LastDay

(* nearest_unexpired_contracts misses none: every contract before the      *)
(* first it finds has expired, and the next one is listed too.             *)
LEMMA ScanFinds ==
  ASSUME NEW d \in Days
  PROVE  \E f \in Labels :
           /\ f + 1 \in Labels
           /\ NearestUnexpired(d, 1) = Expiration[f] /\ NearestUnexpired(d, 2) = Expiration[f + 1]
           /\ d <= Expiration[f]
           /\ \A m \in Labels : m < f => Expiration[m] < d
<1> PICK n \in Nat : n = Len(FirstOfMonth) /\ n > 3  BY MonthsAre
<1>1. d \in Nat /\ FirstOfMonth[1] <= d /\ d < FirstOfMonth[n - 2] /\ n - 2 \in Months /\ 1 \in Months
  <2>1. FirstOfMonth[n - 2] \in Nat /\ FirstOfMonth[1] \in Nat /\ n - 2 \in Months /\ 1 \in Months
    BY MonthsAre
  <2> QED  BY <2>1, CalendarAssumption DEF Days
<1> PICK begun \in SUBSET Nat : begun = {m \in Months : FirstOfMonth[m] <= d}
  BY MonthsAre
<1>2. 1 \in begun /\ \A m \in begun : m <= n
  BY <1>1, MonthsAre
<1>3. Max(begun) \in begun /\ \A m \in begun : m <= Max(begun)
  BY <1>2, MaxIsGreatest
<1> PICK mu \in begun : mu = MonthOf(d)
  BY <1>3 DEF MonthOf
<1>4. mu \in 1 .. n - 3
  <2>1. ASSUME n - 2 <= mu PROVE FALSE
    <3>1. CASE n - 2 = mu
      BY <1>1, <3>1, MonthsAre
    <3>2. CASE n - 2 < mu
      <4>1. FirstOfMonth[n - 2] + 28 <= FirstOfMonth[mu] /\ mu \in Months
        BY <1>1, <3>2, MonthsAdvance
      <4>2. FirstOfMonth[n - 2] \in Nat /\ FirstOfMonth[mu] \in Nat /\ FirstOfMonth[mu] <= d
        BY <1>1, <4>1, MonthsAre
      <4> QED  BY <1>1, <4>1, <4>2
    <3> QED  BY <2>1, <3>1, <3>2, MonthsAre
  <2> QED  BY <2>1, MonthsAre
<1>5. mu + 1 \in Labels /\ mu \in Labels /\ d < FirstOfMonth[mu + 1]
  <2>1. mu + 1 \in Labels /\ mu \in Labels /\ mu + 1 \in Months /\ ~ (mu + 1 <= mu)
    BY <1>4, MonthsAre
  <2>2. mu + 1 \notin begun
    BY <1>3, <2>1 DEF MonthOf
  <2> QED  BY <1>1, <2>1, <2>2, MonthsAre
<1>6. d <= Expiration[mu + 1]
  <2>1. FirstOfMonth[mu + 1] \in Nat /\ mu + 1 \in Months
    BY <1>5, MonthsAre
  <2>2. FirstOfMonth[mu + 1] + 12 <= Expiration[mu + 1] /\ Expiration[mu + 1] \in Nat
    BY <1>5, ExpirationIs
  <2> QED  BY <1>1, <1>5, <2>1, <2>2
<1> PICK scanned \in SUBSET Nat :
      scanned = {m \in Labels : m >= mu - 1 /\ Expiration[m] >= d}
  BY MonthsAre
<1>7. mu + 1 \in scanned
  BY <1>1, <1>5, <1>6, ExpirationIs
<1>8. Min(scanned) \in scanned /\ \A m \in scanned : Min(scanned) <= m
  BY <1>7, MinIsLeast
<1> PICK f \in scanned : f = Min(scanned)  BY <1>8
<1>9. f \in Labels /\ f <= mu + 1 /\ f + 1 \in Labels
  <2>1. f <= mu + 1
    BY <1>7, <1>8
  <2> QED  BY <1>4, <2>1, MonthsAre
<1>10. NearestUnexpired(d, 1) = Expiration[f] /\ NearestUnexpired(d, 2) = Expiration[f + 1]
  <2>1. \A k \in {1, 2} : NearestUnexpired(d, k) = Expiration[f + k - 1]
    BY DEF NearestUnexpired
  <2>2. f + 1 - 1 = f /\ f + 2 - 1 = f + 1
    OBVIOUS
  <2> QED  BY <2>1, <2>2
<1>11. d <= Expiration[f]
  BY <1>1, <1>9, ExpirationIs
<1>12. ASSUME NEW m \in Labels, m < f PROVE Expiration[m] < d
  <2>1. CASE m >= mu - 1
    <3>1. m \notin scanned
      <4>1. m \in Nat /\ f \in Nat /\ ~ (f <= m)
        BY <1>12, MonthsAre
      <4> QED  BY <1>8, <4>1
    <3> QED  BY <1>1, <2>1, <3>1, ExpirationIs
  <2>2. CASE m < mu - 1
    <3>1. m + 1 \in Months /\ m + 1 < mu /\ mu \in Months
      BY <2>2, <1>4, MonthsAre
    <3>2. FirstOfMonth[m + 1] + 28 <= FirstOfMonth[mu] /\ FirstOfMonth[mu] <= d
      BY <3>1, MonthsAdvance
    <3>3. FirstOfMonth[m + 1] \in Nat /\ FirstOfMonth[mu] \in Nat
      BY <3>1, MonthsAre
    <3>4. Expiration[m] \in Nat /\ Expiration[m] <= FirstOfMonth[m + 1] - 10
      BY ExpirationIs
    <3> PICK x \in Nat, u \in Nat, v \in Nat :
          x = Expiration[m] /\ u = FirstOfMonth[m + 1] /\ v = FirstOfMonth[mu]
      BY <3>3, <3>4
    <3> PICK c \in Nat : c = d  BY <1>1
    <3>5. u + 28 <= v /\ v <= c /\ x <= u - 10
      BY <3>2, <3>4
    <3>6. x < c
      <4>1. \A w, y, z, t \in Nat : y + 28 <= z /\ z <= t /\ w <= y - 10 => w < t
        OBVIOUS
      <4> QED  BY <3>5, <4>1
    <3> QED  BY <3>6
  <2> QED  BY <2>1, <2>2, <1>4, MonthsAre
<1> QED  BY <1>9, <1>10, <1>11, <1>12
-----------------------------------------------------------------------------
(* Weekdays: what is left over of whole weeks, before a Wednesday.         *)
LeftOver(e, r) == {x \in e - r .. e - 1 : Weekday(x) < 5}

LEMMA LeftOverCounted ==
  ASSUME NEW e \in Int, Weekday(e) = Wednesday, NEW r \in 0 .. 6
  PROVE  /\ IsFiniteSet(LeftOver(e, r)) /\ Cardinality(LeftOver(e, r)) \in 0 .. 4
<1> PICK few : few = {e - 1, e - 2, e - 5, e - 6}  OBVIOUS
<1>1. IsFiniteSet(few) /\ Cardinality(few) <= 4 /\ Cardinality(few) \in Nat
  <2>1. IsFiniteSet({}) /\ Cardinality({}) = 0
    BY FS_EmptySet
  <2>2. IsFiniteSet({e - 1}) /\ Cardinality({e - 1}) = 1
    BY FS_Singleton
  <2>3. IsFiniteSet({e - 1, e - 2}) /\ Cardinality({e - 1, e - 2}) \in 0 .. 2
    <3>1. {e - 1} \cup {e - 2} = {e - 1, e - 2}
      OBVIOUS
    <3> QED  BY <2>2, <3>1, FS_AddElement
  <2>4. IsFiniteSet({e - 1, e - 2, e - 5}) /\ Cardinality({e - 1, e - 2, e - 5}) \in 0 .. 3
    <3>1. {e - 1, e - 2} \cup {e - 5} = {e - 1, e - 2, e - 5}
      OBVIOUS
    <3> QED  BY <2>3, <3>1, FS_AddElement
  <2>5. {e - 1, e - 2, e - 5} \cup {e - 6} = few
    OBVIOUS
  <2>6. IsFiniteSet(few) /\ Cardinality(few) \in 0 .. 4
    BY <2>4, <2>5, FS_AddElement
  <2> QED  BY <2>6
<1>2. LeftOver(e, r) \subseteq few
  <2> SUFFICES ASSUME NEW x \in LeftOver(e, r) PROVE x \in few  OBVIOUS
  <2>1. x \in Int /\ e - r <= x /\ x <= e - 1 /\ (FirstWeekday + x) % 7 < 5
    BY DEF LeftOver, Weekday
  <2>2. (FirstWeekday + e) % 7 = 2 /\ FirstWeekday \in 0 .. 6
    BY CalendarAssumption DEF Weekday, Wednesday
  <2>3. e - x \in 1 .. 6
    BY <2>1
  <2>4. e - x # 3 /\ e - x # 4
    BY <2>1, <2>2
  <2> QED  BY <2>1, <2>3, <2>4
<1>3. IsFiniteSet(LeftOver(e, r)) /\ Cardinality(LeftOver(e, r)) <= Cardinality(few)
  BY <1>1, <1>2, FS_Subset
<1>4. Cardinality(LeftOver(e, r)) \in Nat
  BY <1>3, FS_CardinalityType
<1> QED  BY <1>1, <1>3, <1>4

LEMMA BusinessDaysSplit ==
  ASSUME NEW d \in Int, NEW e \in Int, Weekday(e) = Wednesday
  PROVE  \E q \in Int, r \in 0 .. 6 :
           /\ e - d = 7 * q + r
           /\ BusinessDays(d, e) = 5 * q + Cardinality(LeftOver(e, r))
           /\ Cardinality(LeftOver(e, r)) \in 0 .. 4
<1> PICK n \in Int : n = e - d  OBVIOUS
<1> PICK q \in Int, r \in 0 .. 6 : q = n \div 7 /\ r = n % 7 /\ n = 7 * q + r
  OBVIOUS
<1>1. BusinessDays(d, e) = 5 * q + Cardinality(LeftOver(e, r))
  BY DEF BusinessDays, LeftOver
<1> QED  BY <1>1, LeftOverCounted

(* None before an expiration passed, twenty or more four weeks before it.  *)
LEMMA BusinessDaysBounds ==
  ASSUME NEW d \in Int, NEW e \in Int, Weekday(e) = Wednesday
  PROVE  /\ BusinessDays(d, e) \in Int
         /\ e < d => BusinessDays(d, e) < 0
         /\ d + 28 <= e => BusinessDays(d, e) >= 20
<1> PICK q \in Int, r \in 0 .. 6 :
      /\ e - d = 7 * q + r
      /\ BusinessDays(d, e) = 5 * q + Cardinality(LeftOver(e, r))
      /\ Cardinality(LeftOver(e, r)) \in 0 .. 4
  BY BusinessDaysSplit
<1> PICK k \in 0 .. 4 : k = Cardinality(LeftOver(e, r))  OBVIOUS
<1>1. e < d => q < 0
  OBVIOUS
<1>2. d + 28 <= e => q >= 4
  OBVIOUS
<1> QED  BY <1>1, <1>2

(* The later the day, the fewer.                                           *)
LEMMA BusinessDaysShrink ==
  ASSUME NEW c \in Int, NEW d \in Int, c <= d, NEW e \in Int, Weekday(e) = Wednesday
  PROVE  BusinessDays(d, e) <= BusinessDays(c, e)
<1> PICK p \in Int, s \in 0 .. 6 :
      /\ e - c = 7 * p + s
      /\ BusinessDays(c, e) = 5 * p + Cardinality(LeftOver(e, s))
      /\ Cardinality(LeftOver(e, s)) \in 0 .. 4
  BY BusinessDaysSplit
<1> PICK q \in Int, r \in 0 .. 6 :
      /\ e - d = 7 * q + r
      /\ BusinessDays(d, e) = 5 * q + Cardinality(LeftOver(e, r))
      /\ Cardinality(LeftOver(e, r)) \in 0 .. 4
  BY BusinessDaysSplit
<1>1. q <= p
  OBVIOUS
<1>2. CASE q < p
  BY <1>2
<1>3. CASE q = p
  <2>1. r <= s
    BY <1>3
  <2>2. LeftOver(e, r) \subseteq LeftOver(e, s)
    BY <2>1 DEF LeftOver
  <2>3. Cardinality(LeftOver(e, r)) <= Cardinality(LeftOver(e, s))
    BY <2>2, LeftOverCounted, FS_Subset
  <2> QED  BY <1>3, <2>3
<1> QED  BY <1>1, <1>2, <1>3
-----------------------------------------------------------------------------
(* What a row is to say of its date.                                       *)
FollowsCalendar(r) ==
  LET expirations == {Expiration[m] : m \in Labels}
  IN /\ r.contract = Min({e \in expirations : BusinessDays(r.date, e) > RollWindow})
     /\ {e \in expirations : r.date <= e /\ e <= r.next} = {r.front, r.next}
     /\ r.front < r.next

Far(d) == {m \in Labels : BusinessDays(d, Expiration[m]) > RollWindow}

(* The contract sized is the first of those beyond the roll window.        *)
LEMMA FirstBeyondWindow ==
  ASSUME NEW d \in Days
  PROVE  \E g \in Far(d) : SizingContract(d) = Expiration[g] /\ \A m \in Far(d) : g <= m
<1> PICK f \in Labels :
      /\ f + 1 \in Labels
      /\ NearestUnexpired(d, 1) = Expiration[f] /\ NearestUnexpired(d, 2) = Expiration[f + 1]
      /\ d <= Expiration[f]
      /\ \A m \in Labels : m < f => Expiration[m] < d
  BY ScanFinds
<1>1. d \in Nat
  BY CalendarAssumption DEF Days
<1>2. ASSUME NEW m \in Labels, m < f PROVE m \notin Far(d)
  <2>1. Expiration[m] \in Nat /\ Weekday(Expiration[m]) = Wednesday /\ Expiration[m] < d
    BY <1>2, ExpirationIs
  <2>2. BusinessDays(d, Expiration[m]) < 0 /\ BusinessDays(d, Expiration[m]) \in Int
    BY <1>1, <2>1, BusinessDaysBounds
  <2> QED  BY <2>2, RollAssumption DEF Far
<1>3. f + 1 \in Far(d)
  <2>1. f < f + 1 /\ Expiration[f] \in Nat /\ Expiration[f + 1] \in Nat
    BY MonthsAre, ExpirationIs
  <2>2. Expiration[f] + 28 <= Expiration[f + 1]
    BY <2>1, ExpirationsAdvance
  <2>3. d + 28 <= Expiration[f + 1] /\ Weekday(Expiration[f + 1]) = Wednesday
    BY <1>1, <2>1, <2>2, ExpirationIs
  <2>4. BusinessDays(d, Expiration[f + 1]) >= 20 /\ BusinessDays(d, Expiration[f + 1]) \in Int
    BY <1>1, <2>1, <2>3, BusinessDaysBounds
  <2> QED  BY <2>4, RollAssumption DEF Far
<1>4. BusinessDays(d, Expiration[f]) \in Int
  BY <1>1, ExpirationIs, BusinessDaysBounds
<1>5. \A m \in Labels : m \in Nat
  BY MonthsAre
<1>6. CASE Rolled(d)
  <2>1. SizingContract(d) = Expiration[f + 1] /\ BusinessDays(d, Expiration[f]) <= RollWindow
    BY <1>6 DEF SizingContract, Rolled
  <2>2. f \notin Far(d)
    BY <1>4, <2>1, RollAssumption DEF Far
  <2>3. ASSUME NEW m \in Far(d) PROVE f + 1 <= m
    <3>1. m \in Labels
      BY DEF Far
    <3> QED  BY <1>2, <1>5, <2>2, <3>1
  <2> QED  BY <1>3, <2>1, <2>3
<1>7. CASE ~ Rolled(d)
  <2>1. SizingContract(d) = Expiration[f] /\ f \in Far(d)
    BY <1>4, <1>7, RollAssumption DEF SizingContract, Rolled, Far
  <2>2. ASSUME NEW m \in Far(d) PROVE f <= m
    <3>1. m \in Labels
      BY DEF Far
    <3> QED  BY <1>2, <1>5, <3>1
  <2> QED  BY <2>1, <2>2
<1> QED  BY <1>6, <1>7

(* A later day never sizes an earlier contract.                            *)
LEMMA SizingAdvances ==
  ASSUME NEW c \in Days, NEW d \in Days, c <= d
  PROVE  SizingContract(c) <= SizingContract(d)
<1> PICK g \in Far(c) : SizingContract(c) = Expiration[g] /\ \A m \in Far(c) : g <= m
  BY FirstBeyondWindow
<1> PICK h \in Far(d) : SizingContract(d) = Expiration[h] /\ \A m \in Far(d) : h <= m
  BY FirstBeyondWindow
<1>1. c \in Nat /\ d \in Nat /\ g \in Labels /\ h \in Labels /\ g \in Nat /\ h \in Nat
  BY CalendarAssumption, MonthsAre DEF Days, Far
<1>2. Expiration[h] \in Nat /\ Expiration[g] \in Nat /\ Weekday(Expiration[h]) = Wednesday
  BY <1>1, ExpirationIs
<1>3. h \in Far(c)
  <2> PICK x \in Int, y \in Int :
        x = BusinessDays(c, Expiration[h]) /\ y = BusinessDays(d, Expiration[h])
    BY <1>1, <1>2, BusinessDaysBounds
  <2>1. y <= x
    BY <1>1, <1>2, BusinessDaysShrink
  <2> QED  BY <1>1, <2>1, RollAssumption DEF Far
<1>4. g <= h
  BY <1>3
<1>5. CASE g = h
  BY <1>2, <1>5
<1>6. CASE g # h
  <2>1. g < h
    BY <1>1, <1>4, <1>6
  <2>2. Expiration[g] + 28 <= Expiration[h]
    BY <1>1, <2>1, ExpirationsAdvance
  <2> QED  BY <1>2, <2>2
<1> QED  BY <1>5, <1>6

LEMMA RowFollowsCalendar ==
  ASSUME NEW r, r.date \in Days, r.contract = SizingContract(r.date),
         r.front = NearestUnexpired(r.date, 1), r.next = NearestUnexpired(r.date, 2)
  PROVE  FollowsCalendar(r)
<1> PICK d \in Days : d = r.date  OBVIOUS
<1> PICK f \in Labels :
      /\ f + 1 \in Labels
      /\ NearestUnexpired(d, 1) = Expiration[f] /\ NearestUnexpired(d, 2) = Expiration[f + 1]
      /\ d <= Expiration[f]
      /\ \A m \in Labels : m < f => Expiration[m] < d
  BY ScanFinds
<1> PICK g \in Far(d) : SizingContract(d) = Expiration[g] /\ \A m \in Far(d) : g <= m
  BY FirstBeyondWindow
<1> PICK expirations : expirations = {Expiration[m] : m \in Labels}  OBVIOUS
<1>1. d \in Nat /\ \A m \in Labels : m \in Nat /\ Expiration[m] \in Nat
  <2>1. d \in Nat
    BY CalendarAssumption DEF Days
  <2>2. \A m \in Labels : m \in Nat /\ Expiration[m] \in Nat
    BY MonthsAre, ExpirationIs
  <2> QED  BY <2>1, <2>2
<1>2. \A i, j \in Labels : i < j => Expiration[i] < Expiration[j]
  BY <1>1, ExpirationsAdvance
<1>3. r.contract = Min({e \in expirations : BusinessDays(r.date, e) > RollWindow})
  <2> PICK far \in SUBSET Nat : far = {e \in expirations : BusinessDays(d, e) > RollWindow}
    <3>1. {e \in expirations : BusinessDays(d, e) > RollWindow} \subseteq Nat
      BY <1>1
    <3> QED  BY <3>1
  <2>1. Expiration[g] \in far /\ \A x \in far : Expiration[g] <= x
    <3>1. g \in Labels /\ Expiration[g] \in far
      BY DEF Far
    <3>2. ASSUME NEW x \in far PROVE Expiration[g] <= x
      <4> PICK m \in Labels : x = Expiration[m]  OBVIOUS
      <4>1. m \in Far(d)
        BY DEF Far
      <4>2. g <= m
        BY <4>1
      <4>3. g = m \/ g < m
        BY <1>1, <3>1, <4>2
      <4> QED  BY <1>1, <1>2, <3>1, <4>3
    <3> QED  BY <3>1, <3>2
  <2>2. Min(far) \in far /\ \A x \in far : Min(far) <= x
    BY <2>1, MinIsLeast
  <2>3. Min(far) = Expiration[g]
    <3>1. Min(far) \in Nat /\ Expiration[g] \in Nat
      BY <2>1, <2>2
    <3>2. Min(far) <= Expiration[g] /\ Expiration[g] <= Min(far)
      BY <2>1, <2>2
    <3> QED  BY <3>1, <3>2
  <2> QED  BY <2>3
<1>4. {e \in expirations : r.date <= e /\ e <= r.next} = {r.front, r.next}
  <2>1. r.front = Expiration[f] /\ r.next = Expiration[f + 1] /\ f < f + 1
    BY <1>1
  <2>2. Expiration[f] < Expiration[f + 1]
    BY <1>2, <2>1
  <2>3. ASSUME NEW m \in Labels, d <= Expiration[m], Expiration[m] <= Expiration[f + 1]
        PROVE  m = f \/ m = f + 1
    <3>1. ~ (m < f)
      BY <1>1, <2>3
    <3>2. ~ (f + 1 < m)
      <4> SUFFICES ASSUME f + 1 < m PROVE FALSE  OBVIOUS
      <4>1. Expiration[f + 1] < Expiration[m]
        BY <1>2
      <4> QED  BY <1>1, <2>3, <4>1
    <3> QED  BY <1>1, <3>1, <3>2
  <2>4. ASSUME NEW e \in expirations, d <= e, e <= Expiration[f + 1]
        PROVE  e \in {Expiration[f], Expiration[f + 1]}
    BY <2>3, <2>4
  <2>5. \A e \in {Expiration[f], Expiration[f + 1]} :
          e \in expirations /\ d <= e /\ e <= Expiration[f + 1]
    BY <1>1, <2>2
  <2> QED  BY <2>1, <2>4, <2>5
<1>5. r.front < r.next
  <2>1. f < f + 1
    BY <1>1
  <2> QED  BY <1>2, <2>1
<1> QED  BY <1>3, <1>4, <1>5 DEF FollowsCalendar
-----------------------------------------------------------------------------
(* nearest_to_target_delta finds one whenever a quote has a delta.         *)
LEMMA NearestToTargetFinds ==
  ASSUME NEW quotes \in SUBSET Quote, NEW q \in quotes, q.delta # None
  PROVE  NearestToTarget(quotes) # {}
<1> PICK withDelta : withDelta = {p \in quotes : p.delta # None}  OBVIOUS
<1>1. \A p \in withDelta : Gap(p) \in Nat
  BY TargetsAssumption DEF Gap, Quote
<1> PICK gaps \in SUBSET Nat : gaps = {Gap(p) : p \in withDelta}
  BY <1>1
<1>2. Gap(q) \in gaps
  OBVIOUS
<1>3. Min(gaps) \in gaps /\ \A x \in gaps : Min(gaps) <= x
  BY <1>2, MinIsLeast
<1> PICK p \in withDelta : Gap(p) = Min(gaps)  BY <1>3
<1>4. p \in NearestToTarget(quotes)
  BY <1>3 DEF NearestToTarget
<1> QED  BY <1>4

(* The quotes a put may be chosen from, as PutIsNearestUsable has them.    *)
Usable(chain) ==
  {q \in chain : /\ q.standard /\ q.dte \in MinDte .. MaxDte
                 /\ q.delta # None
                 /\ q.bid \notin {None, 0} /\ q.ask \notin {None, 0}}

LEMMA ChoosePutIsNearest ==
  ASSUME NEW chain \in SUBSET Quote
  PROVE  /\ ChoosePut(chain) = {} => Usable(chain) = {}
         /\ \A put \in ChoosePut(chain) :
              put \in Usable(chain) /\ \A q \in Usable(chain) : Gap(put) <= Gap(q)
<1> PICK priceable \in SUBSET Quote : priceable = {q \in ChainInWindow(chain) : Priceable(q)}
  BY DEF ChainInWindow
<1>1. \A q : q \in Usable(chain) <=> q \in priceable /\ q.delta # None
  BY DEF Usable, ChainInWindow, Priceable
<1>2. ChoosePut(chain) = NearestToTarget(priceable)
  BY DEF ChoosePut
<1>3. ChoosePut(chain) = {} => Usable(chain) = {}
  BY <1>1, <1>2, NearestToTargetFinds
<1>4. \A put \in ChoosePut(chain) :
        put \in Usable(chain) /\ \A q \in Usable(chain) : Gap(put) <= Gap(q)
  BY <1>1, <1>2 DEF NearestToTarget
<1> QED  BY <1>3, <1>4

(* contracts_for_target_allocation rounds down.                            *)
LEMMA FloorIsBetween ==
  ASSUME NEW a \in Nat, NEW b \in Nat \ {0}
  PROVE  /\ a \div b \in Nat
         /\ (a \div b) * b <= a /\ a < (a \div b) * b + b
OBVIOUS

Sized(r) ==
  /\ r.dollars2 <= 2 * TargetDollars
  /\ r.dollars2 + Multiplier * Premium2(r.put) > 2 * TargetDollars

LEMMA RowIsSized ==
  ASSUME NEW r, r.put \in Quote, Priceable(r.put),
         r.dollars2 = Contracts(Premium2(r.put)) * Multiplier * Premium2(r.put)
  PROVE  Sized(r)
<1> PICK p \in Nat \ {0} : p = Premium2(r.put)
  BY DEF Quote, Priceable, Premium2
<1> PICK m \in Nat \ {0}, t \in Nat : m = Multiplier /\ t = 2 * TargetDollars
  BY TargetsAssumption
<1> PICK b \in Nat : b = m * p /\ b # 0
  OBVIOUS
<1> PICK n \in Nat : n = t \div b /\ n * b <= t /\ t < n * b + b
  BY FloorIsBetween
<1>1. n * m * p = n * b
  OBVIOUS
<1>2. r.dollars2 = n * m * p
  BY DEF Contracts
<1>3. r.dollars2 <= t /\ r.dollars2 + b > t
  BY <1>1, <1>2
<1> QED  BY <1>3 DEF Sized
-----------------------------------------------------------------------------
(* What the last run left.                                                 *)
RowInv ==
  row # None =>
    /\ row.date \in Days /\ row.date <= today
    /\ row.contract = SizingContract(row.date)
    /\ FollowsCalendar(row)
    /\ Sized(row)

OutcomeInv ==
  /\ outcome = "no_put" /\ seen.spy # None => Usable(seen.chain) = {}
  /\ outcome = "sized" =>
       row.put \in Usable(seen.chain) /\ \A q \in Usable(seen.chain) : Gap(row.put) <= Gap(q)

HedgeInv == today \in Days /\ RowInv /\ OutcomeInv

LEMMA HedgeInitInv == HedgeInit => HedgeInv
BY CalendarAssumption DEF HedgeInit, HedgeInv, RowInv, OutcomeInv, Days

LEMMA FailStep ==
  ASSUME HedgeInv, NEW market \in Markets, NoPut(market) \/ NoFuture(market)
  PROVE  HedgeInv'
<1>1. today' = today /\ row' = row /\ seen' = market
  BY DEF NoPut, NoFuture, Fail
<1>2. market.chain \in SUBSET Quote
  BY MarketsAssumption
<1>3. CASE NoPut(market)
  <2>1. outcome' = "no_put" /\ (market.spy = None \/ ChoosePut(market.chain) = {})
    BY <1>3 DEF NoPut, Fail
  <2>2. OutcomeInv'
    BY <1>1, <1>2, <2>1, ChoosePutIsNearest DEF OutcomeInv, Usable
  <2> QED  BY <1>1, <2>2 DEF HedgeInv, RowInv, FollowsCalendar, Sized
<1>4. CASE NoFuture(market)
  <2>1. outcome' = "no_future"
    BY <1>4 DEF NoFuture, Fail
  <2> QED  BY <1>1, <2>1 DEF HedgeInv, RowInv, OutcomeInv, FollowsCalendar, Sized
<1> QED  BY <1>3, <1>4

LEMMA SizeStep ==
  ASSUME HedgeInv, NEW market \in Markets, Size(market)
  PROVE  HedgeInv' /\ row'.date = today
<1>1. today' = today /\ today \in Days /\ seen' = market /\ outcome' = "sized"
  BY DEF Size, HedgeInv
<1> PICK put \in ChoosePut(market.chain) :
      /\ row'.date = today
      /\ row'.contract = SizingContract(today)
      /\ row'.front = NearestUnexpired(today, 1) /\ row'.next = NearestUnexpired(today, 2)
      /\ row'.put = put
      /\ row'.dollars2 = Contracts(Premium2(put)) * Multiplier * Premium2(put)
  BY DEF Size
<1> PICK r : r = row'  OBVIOUS
<1>2. market.chain \in SUBSET Quote
  BY MarketsAssumption
<1>3. put \in Usable(market.chain) /\ \A q \in Usable(market.chain) : Gap(put) <= Gap(q)
  BY <1>2, ChoosePutIsNearest
<1>4. put \in Quote /\ Priceable(put)
  BY <1>2, <1>3 DEF Usable, Priceable
<1>5. FollowsCalendar(r) /\ Sized(r)
  BY <1>1, <1>4, RowFollowsCalendar, RowIsSized
<1>6. RowInv'
  <2>1. today <= today
    BY <1>1, CalendarAssumption DEF Days
  <2> QED  BY <1>1, <1>5, <2>1 DEF RowInv, FollowsCalendar, Sized
<1>7. OutcomeInv'
  BY <1>1, <1>3 DEF OutcomeInv, Usable
<1> QED  BY <1>1, <1>6, <1>7 DEF HedgeInv

LEMMA NextDayStep ==
  ASSUME HedgeInv, NextDay
  PROVE  HedgeInv'
<1>1. row' = row /\ today' = today + 1 /\ outcome' = "none" /\ today < LastDay
  BY DEF NextDay
<1>2. today \in Int /\ today' \in Days
  BY <1>1, CalendarAssumption DEF HedgeInv, Days
<1>3. ASSUME row # None PROVE row.date <= today'
  <2> PICK d \in Int : d = row.date /\ d <= today
    BY <1>3, CalendarAssumption DEF HedgeInv, RowInv, Days
  <2> QED  BY <1>1, <1>2
<1>4. RowInv'
  BY <1>1, <1>3 DEF HedgeInv, RowInv, FollowsCalendar, Sized
<1> QED  BY <1>1, <1>2, <1>4 DEF HedgeInv, OutcomeInv

LEMMA HedgeNextInv == HedgeInv /\ [HedgeNext]_hedgeVars => HedgeInv'
<1>1. ASSUME HedgeInv, UNCHANGED hedgeVars PROVE HedgeInv'
  BY <1>1 DEF hedgeVars, HedgeInv, RowInv, OutcomeInv, FollowsCalendar, Sized, Usable
<1> QED  BY <1>1, FailStep, SizeStep, NextDayStep DEF HedgeNext

(* The roll rule of DESIGN.md section 3, on every calendar: the contract   *)
(* of a row is the first more than RollWindow weekdays from expiry, and    *)
(* the term structure compares the first two not expired.                  *)
THEOREM RollFollowsTheCalendarTheorem == HedgeSpec => []RollFollowsTheCalendar
<1>1. HedgeInv => RollFollowsTheCalendar
  BY DEF HedgeInv, RowInv, FollowsCalendar, RollFollowsTheCalendar
<1> QED  BY <1>1, HedgeInitInv, HedgeNextInv, PTL DEF HedgeSpec

(* Whatever the chain, the put taken is the usable one nearest to the      *)
(* target delta, and a run gives up only if there is none.                 *)
THEOREM PutIsNearestUsableTheorem == HedgeSpec => []PutIsNearestUsable
<1>1. HedgeInv => PutIsNearestUsable
  BY DEF HedgeInv, OutcomeInv, Usable, PutIsNearestUsable
<1> QED  BY <1>1, HedgeInitInv, HedgeNextInv, PTL DEF HedgeSpec

(* The hedge never costs more than its target, and one contract more       *)
(* always would.                                                           *)
THEOREM SizedToTheTargetTheorem == HedgeSpec => []SizedToTheTarget
<1>1. HedgeInv => SizedToTheTarget
  BY DEF HedgeInv, RowInv, Sized, SizedToTheTarget
<1> QED  BY <1>1, HedgeInitInv, HedgeNextInv, PTL DEF HedgeSpec

(* No later run sizes a contract that expires before the one of an earlier *)
(* run.                                                                    *)
THEOREM ContractOnlyAdvancesTheorem == HedgeSpec => ContractOnlyAdvances
<1>1. ASSUME HedgeInv, HedgeNext, row # None, row' # row
      PROVE  row'.contract >= row.contract
  <2> PICK market \in Markets : Size(market)
    BY <1>1 DEF HedgeNext, NoPut, NoFuture, Fail, NextDay
  <2>1. HedgeInv' /\ row'.date = today /\ today' = today /\ today \in Days
    BY <1>1, SizeStep DEF Size, HedgeInv
  <2>2. row'.contract = SizingContract(today)
    BY DEF Size
  <2> PICK c \in Days : c = row.date /\ c <= today /\ row.contract = SizingContract(c)
    BY <1>1 DEF HedgeInv, RowInv
  <2>3. SizingContract(c) <= SizingContract(today)
    BY <2>1, SizingAdvances
  <2> QED  BY <2>2, <2>3
<1>2. HedgeInv /\ [HedgeNext]_hedgeVars =>
        [row # None => row'.contract >= row.contract]_row
  BY <1>1 DEF hedgeVars
<1> QED  BY <1>2, HedgeInitInv, HedgeNextInv, PTL DEF HedgeSpec, ContractOnlyAdvances
=============================================================================
