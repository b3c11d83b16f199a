----------------------- MODULE PriceIngestion_proofs -----------------------
(***************************************************************************)
(* Proofs about PriceIngestion, for any numbers of tickers, runs and       *)
(* providers' keys, and any limits, thresholds and budgets.                *)
(***************************************************************************)
EXTENDS PriceIngestion, SequenceTheorems, FiniteSetTheorems, TLAPS

(* A run between the answer of a provider and the end of the iteration is  *)
(* at some candidate.                                                      *)
AtACandidate ==
  \A r \in Runs : pc[r] \in {"answered", "refused", "charge_ok", "charge_fail"} =>
    queue[r] # <<>>

TypeInv == Typed /\ AtACandidate

(* What is left of a queue of candidates, and its first, are candidates.   *)
LEMMA HeadAndTail ==
  ASSUME NEW q \in Seq(Candidate), q # <<>>
  PROVE  Head(q) \in Candidate /\ Tail(q) \in Seq(Candidate)
BY HeadTailProperties

(* A function from 1 .. n to candidates is a queue.                        *)
LEMMA Queue ==
  ASSUME NEW n \in Nat, NEW q \in [1 .. n -> Candidate] PROVE q \in Seq(Candidate)
BY SeqDef

LEMMA RemainingNat == ASSUME used \in Nat PROVE TickersRemaining \in Nat
<1>1. DEFINE left == IF used < DailyBudget THEN DailyBudget - used ELSE 0
<1>2. left \in Nat
  BY BudgetAssumption
<1>3. left \div CallsPerTicker \in Nat
  <2> HIDE DEF left
  <2> QED BY <1>2, BudgetAssumption
<1> QED BY <1>3 DEF TickersRemaining

LEMMA ExitTypeInv ==
  ASSUME TypeInv, NEW r \in Runs, Exit(r), UNCHANGED tableVars PROVE TypeInv'
<1>1. UNCHANGED <<active, seeded, status, retry, fetched, attempt, earlier, rank,
                  refreshAsked, used>>
  BY DEF tableVars, rowVars
<1>2. <<>> \in Seq(Candidate)
  OBVIOUS
<1>3. AtACandidate'
  BY DEF TypeInv, Typed, AtACandidate, Exit
<1>4. pc' \in [Runs -> Steps] /\ limit' \in [Runs -> Nat] /\ streak' \in [Runs -> Nat]
      /\ broken' \in [Runs -> SUBSET Providers] /\ runAge' \in [Runs -> {0, 1, 2}]
  BY DEF TypeInv, Typed, Exit, Steps
<1>5. fails' \in [Runs -> [Providers -> Nat]]
  BY DEF TypeInv, Typed, Exit
<1>6. queue' \in [Runs -> Seq(Candidate)]
  BY <1>2 DEF TypeInv, Typed, Exit
<1> QED BY <1>1, <1>3, <1>4, <1>5, <1>6 DEF TypeInv, Typed

LEMMA InitTypeInv == Init => TypeInv
<1> SUFFICES ASSUME Init PROVE TypeInv
  OBVIOUS
<1>1. <<>> \in Seq(Candidate)
  OBVIOUS
<1>2. queue \in [Runs -> Seq(Candidate)]
  BY <1>1 DEF Init
<1>3. fails \in [Runs -> [Providers -> Nat]]
  BY DEF Init
<1>4. AtACandidate
  BY DEF Init, AtACandidate
<1> QED
  BY <1>2, <1>3, <1>4, ThresholdsAssumption
  DEF Init, TypeInv, Typed, Statuses, Ages, AttemptAges, Steps, Null, NormalRank, UrgentRank

LEMMA SelectTypeInv == ASSUME TypeInv, NEW r \in Runs, Select(r) PROVE TypeInv'
<1> DEFINE row(q, i) == [ticker |-> q[i], retry |-> retry[q[i]], caughtUp |-> fetched[q[i]] = 0]
<1>1. \E n \in 0 .. limit[r] : \E q \in [1 .. n -> Tickers] :
        queue' = [queue EXCEPT ![r] = [i \in 1 .. n |-> row(q, i)]]
  <2>1. PICK ended \in SUBSET {t \in seeded \cap active : CoolingEndsToday(t)} :
          LET S == {t \in seeded \cap active : EligibleIn(t, 0)} \cup ended
          IN \E n \in 0 .. limit[r] : \E q \in [1 .. n -> S] :
               queue' = [queue EXCEPT ![r] = [i \in 1 .. n |-> row(q, i)]]
    BY DEF Select
  <2>2. {t \in seeded \cap active : EligibleIn(t, 0)} \cup ended \subseteq Tickers
    BY DEF TypeInv, Typed
  <2> QED BY <2>1, <2>2
<1>9. PICK n \in 0 .. limit[r] : \E q \in [1 .. n -> Tickers] :
        queue' = [queue EXCEPT ![r] = [i \in 1 .. n |-> row(q, i)]]
  BY <1>1
<1>10. PICK q \in [1 .. n -> Tickers] :
        queue' = [queue EXCEPT ![r] = [i \in 1 .. n |-> row(q, i)]]
  BY <1>9
<1>2. n \in Nat
  BY DEF TypeInv, Typed
<1>3. \A i \in 1 .. n : q[i] \in Tickers /\ retry[q[i]] \in 0 .. MaxRetryCount
  BY DEF TypeInv, Typed
<1>4. [i \in 1 .. n |-> row(q, i)] \in [1 .. n -> Candidate]
  BY <1>3 DEF Candidate
<1>5. queue' \in [Runs -> Seq(Candidate)]
  BY <1>10, <1>2, <1>4, Queue DEF TypeInv, Typed
<1>6. UNCHANGED <<active, seeded, status, retry, fetched, attempt, earlier, rank,
                  refreshAsked, used, limit, streak, broken, fails, runAge>>
      /\ pc' = [pc EXCEPT ![r] = "loop"]
  BY DEF Select, tableVars, rowVars, breakerVars, Goto
<1>7. AtACandidate'
  <2> SUFFICES ASSUME NEW x \in Runs,
                      pc'[x] \in {"answered", "refused", "charge_ok", "charge_fail"}
               PROVE  queue'[x] # <<>>
    BY DEF AtACandidate
  <2>1. x # r
    BY <1>6 DEF TypeInv, Typed
  <2> QED BY <1>10, <1>6, <2>1 DEF TypeInv, Typed, AtACandidate
<1> QED BY <1>5, <1>6, <1>7 DEF TypeInv, Typed, Steps

(* A fetch changes the run's breaker and its place in the loop only.       *)
LEMMA AskTypeInv ==
  ASSUME TypeInv, NEW r \in Runs, NEW o, Ask(r, o), NEW step \in {"answered", "refused"},
         Goto(r, step)
  PROVE  TypeInv'
<1>1. UNCHANGED <<active, seeded, status, retry, fetched, attempt, earlier, rank,
                  refreshAsked, used, limit, queue, streak, runAge>>
  BY DEF Ask, tableVars, rowVars
<1>2. Tripped(r, o) \subseteq Providers
  BY ProvidersAssumption DEF Tripped, Reached, Ready
<1>3. broken' \in [Runs -> SUBSET Providers]
  BY <1>2 DEF Ask, TypeInv, Typed
<1>4. FailsAfter(r, o) \in [Providers -> Nat]
  BY DEF FailsAfter, TypeInv, Typed
<1>5. fails' \in [Runs -> [Providers -> Nat]]
  BY <1>4 DEF Ask, TypeInv, Typed
<1>6. pc' \in [Runs -> Steps]
  BY DEF Goto, TypeInv, Typed, Steps
<1>7. AtACandidate'
  BY <1>1 DEF Goto, Ask, AtCandidate, AtACandidate, TypeInv, Typed
<1> QED BY <1>1, <1>3, <1>5, <1>6, <1>7 DEF TypeInv, Typed

LEMMA MarkCompleteTypes ==
  ASSUME TypeInv, NEW r \in Runs, NEW t \in Tickers, MarkComplete(r, t)
  PROVE  /\ status' \in [Tickers -> Statuses]
         /\ retry' \in [Tickers -> 0 .. MaxRetryCount]
         /\ fetched' \in [Tickers -> Ages]
         /\ attempt' \in [Tickers -> AttemptAges]
         /\ earlier' \subseteq Tickers \X Tickers
         /\ rank' = rank
BY ThresholdsAssumption
DEF TypeInv, Typed, MarkComplete, Statuses, Ages, AttemptAges, Oldest, Null, Touched

LEMMA CurrentCandidate ==
  ASSUME TypeInv, NEW r \in Runs, queue[r] # <<>>
  PROVE  /\ Current(r) \in Candidate
         /\ Current(r).ticker \in Tickers
         /\ Current(r).retry \in 0 .. MaxRetryCount
         /\ Tail(queue[r]) \in Seq(Candidate)
<1>1. queue[r] \in Seq(Candidate)
  BY DEF TypeInv, Typed
<1>2. Current(r) \in Candidate /\ Tail(queue[r]) \in Seq(Candidate)
  BY <1>1, HeadAndTail DEF Current
<1> QED BY <1>2 DEF Candidate

LEMMA MarkTypeInv ==
  ASSUME TypeInv, NEW r \in Runs, Mark(r) PROVE TypeInv'
<1>1. CASE MarkSuccess(r)
  <2>1. queue[r] # <<>> /\ Current(r).ticker \in Tickers
    BY <1>1, CurrentCandidate DEF MarkSuccess, TypeInv, AtACandidate
  <2>2. MarkComplete(r, Current(r).ticker)
    BY <1>1 DEF MarkSuccess
  <2>3. /\ status' \in [Tickers -> Statuses]
        /\ retry' \in [Tickers -> 0 .. MaxRetryCount]
        /\ fetched' \in [Tickers -> Ages]
        /\ attempt' \in [Tickers -> AttemptAges]
        /\ earlier' \subseteq Tickers \X Tickers
        /\ rank' = rank
    BY <2>1, <2>2, MarkCompleteTypes
  <2>4. AtACandidate'
    BY <1>1 DEF MarkSuccess, Goto, TypeInv, Typed, AtACandidate
  <2> QED BY <1>1, <2>3, <2>4 DEF MarkSuccess, Goto, TypeInv, Typed, Steps, breakerVars
<1>2. CASE MarkFailure(r)
  <2>1. queue[r] # <<>> /\ Current(r).ticker \in Tickers /\ Current(r).retry \in 0 .. MaxRetryCount
    BY <1>2, CurrentCandidate DEF MarkFailure, TypeInv, AtACandidate
  <2>2. OneMore(Current(r).retry) \in 0 .. MaxRetryCount
    BY <2>1, ThresholdsAssumption DEF OneMore
  <2>3. retry' \in [Tickers -> 0 .. MaxRetryCount]
    BY <1>2, <2>1, <2>2 DEF MarkFailure, TypeInv, Typed
  <2>4. status' \in [Tickers -> Statuses]
    BY <1>2, <2>1 DEF MarkFailure, TypeInv, Typed, FailureStatus, Statuses
  <2>5. attempt' \in [Tickers -> AttemptAges] /\ earlier' \subseteq Tickers \X Tickers
    BY <1>2, <2>1, ThresholdsAssumption
    DEF MarkFailure, TypeInv, Typed, AttemptAges, Oldest, Null, Touched
  <2>6. AtACandidate'
    BY <1>2 DEF MarkFailure, Goto, TypeInv, Typed, AtACandidate
  <2>7. refreshAsked' \subseteq Tickers
    BY <1>2 DEF MarkFailure, TypeInv, Typed
  <2> QED
    BY <1>2, <2>3, <2>4, <2>5, <2>6, <2>7 DEF MarkFailure, Goto, TypeInv, Typed, Steps, breakerVars
<1> QED BY <1>1, <1>2 DEF Mark

LEMMA ChargeTypeInv ==
  ASSUME TypeInv, NEW r \in Runs, Charge(r) PROVE TypeInv'
<1>1. queue[r] # <<>> /\ Tail(queue[r]) \in Seq(Candidate)
  BY CurrentCandidate DEF Charge, ChargeSuccess, ChargeFailure, TypeInv, AtACandidate
<1>2. /\ UNCHANGED <<active, seeded, status, retry, fetched, attempt, earlier, rank, refreshAsked>>
      /\ used' = used + 1
  BY DEF Charge, ChargeSuccess, ChargeFailure, rowVars
<1>3. ASSUME pc' = [pc EXCEPT ![r] = "loop"], queue' = [queue EXCEPT ![r] = Tail(@)],
             streak' = [streak EXCEPT ![r] = 0] \/ streak' = [streak EXCEPT ![r] = @ + 1],
             UNCHANGED <<limit, broken, fails, runAge>>
      PROVE  TypeInv'
  <2>1. queue' \in [Runs -> Seq(Candidate)]
    BY <1>1, <1>3 DEF TypeInv, Typed
  <2>2. streak \in [Runs -> Nat] /\ pc \in [Runs -> Steps]
    BY DEF TypeInv, Typed
  <2>3. streak' \in [Runs -> Nat]
    <3>1. CASE streak' = [streak EXCEPT ![r] = 0]
      BY <2>2, <3>1
    <3>2. CASE streak' = [streak EXCEPT ![r] = @ + 1]
      BY <2>2, <3>2
    <3> QED BY <1>3, <3>1, <3>2
  <2>4. pc' \in [Runs -> Steps]
    BY <1>3, <2>2 DEF Steps
  <2>5. AtACandidate'
    BY <1>3 DEF TypeInv, Typed, AtACandidate
  <2> QED BY <1>2, <1>3, <2>1, <2>3, <2>4, <2>5 DEF TypeInv, Typed
<1>4. CASE ChargeSuccess(r)
  BY <1>4, <1>3 DEF ChargeSuccess, Goto, breakerVars
<1>5. CASE ChargeFailure(r) /\ streak[r] + 1 < MaxConsecutiveFailures
  BY <1>5, <1>3, ThresholdsAssumption DEF ChargeFailure, Goto, breakerVars, TypeInv, Typed
<1>6. CASE ChargeFailure(r) /\ streak[r] + 1 >= MaxConsecutiveFailures
  <2>1. Exit(r)
    BY <1>6 DEF ChargeFailure
  <2>2. AtACandidate'
    BY <2>1 DEF TypeInv, Typed, AtACandidate, Exit
  <2>3. <<>> \in Seq(Candidate)
    OBVIOUS
  <2>4. queue' \in [Runs -> Seq(Candidate)] /\ fails' \in [Runs -> [Providers -> Nat]]
    BY <2>1, <2>3 DEF TypeInv, Typed, Exit
  <2> QED BY <1>2, <2>1, <2>2, <2>4 DEF TypeInv, Typed, Exit, Steps
<1>7. streak[r] + 1 < MaxConsecutiveFailures \/ streak[r] + 1 >= MaxConsecutiveFailures
  BY ThresholdsAssumption DEF TypeInv, Typed
<1> QED BY <1>4, <1>5, <1>6, <1>7 DEF Charge

LEMMA TakeTypeInv ==
  ASSUME TypeInv, NEW r \in Runs, Take(r) PROVE TypeInv'
<1>1. CASE CaughtUp(r)
  <2>1. queue[r] # <<>> /\ Current(r).ticker \in Tickers /\ Tail(queue[r]) \in Seq(Candidate)
    BY <1>1, CurrentCandidate DEF CaughtUp, AtCandidate
  <2>2. MarkComplete(r, Current(r).ticker)
    BY <1>1 DEF CaughtUp
  <2>3. /\ status' \in [Tickers -> Statuses]
        /\ retry' \in [Tickers -> 0 .. MaxRetryCount]
        /\ fetched' \in [Tickers -> Ages]
        /\ attempt' \in [Tickers -> AttemptAges]
        /\ earlier' \subseteq Tickers \X Tickers
        /\ rank' = rank
    BY <2>1, <2>2, MarkCompleteTypes
  <2>4. AtACandidate' /\ queue' \in [Runs -> Seq(Candidate)] /\ streak' \in [Runs -> Nat]
    BY <1>1, <2>1 DEF CaughtUp, AtCandidate, TypeInv, Typed, AtACandidate
  <2> QED BY <1>1, <2>3, <2>4 DEF CaughtUp, TypeInv, Typed, breakerVars
<1>2. CASE FetchSucceeds(r)
  BY <1>2, AskTypeInv DEF FetchSucceeds
<1>3. CASE FetchFails(r)
  BY <1>3, AskTypeInv DEF FetchFails
<1>4. CASE AllUnavailable(r) \/ Finish(r)
  BY <1>4, ExitTypeInv DEF AllUnavailable, Finish
<1> QED BY <1>1, <1>2, <1>3, <1>4 DEF Take

LEMMA NextDayTypeInv == ASSUME TypeInv, NextDay PROVE TypeInv'
<1>1. fetched' \in [Tickers -> Ages]
  BY DEF NextDay, TypeInv, Typed, Ages, Older, Null
<1>2. attempt' \in [Tickers -> AttemptAges]
  BY ThresholdsAssumption DEF NextDay, TypeInv, Typed, AttemptAges, Older, Null, Oldest
<1>3. runAge' \in [Runs -> {0, 1, 2}]
  BY DEF NextDay, TypeInv, Typed, Older, Null
<1>4. AtACandidate'
  BY DEF NextDay, TypeInv, AtACandidate
<1> QED BY <1>1, <1>2, <1>3, <1>4 DEF NextDay, TypeInv, Typed, breakerVars

LEMMA NextTypeInv == TypeInv /\ [Next]_vars => TypeInv'
<1> SUFFICES ASSUME TypeInv, [Next]_vars PROVE TypeInv'
  OBVIOUS
<1>1. ASSUME NEW r \in Runs, Seed(r) PROVE TypeInv'
  BY <1>1 DEF Seed, Goto, TypeInv, Typed, AtACandidate, Steps, rowVars, breakerVars
<1>2. ASSUME NEW r \in Runs, ReadBudget(r) PROVE TypeInv'
  <2>1. CASE TickersRemaining <= 0
    BY <1>2, <2>1, ExitTypeInv DEF ReadBudget
  <2>2. CASE ~ (TickersRemaining <= 0)
    <3>1. TickersRemaining \in Nat
      BY RemainingNat DEF TypeInv, Typed
    <3>2. /\ limit' = [limit EXCEPT ![r] = TickersRemaining]
          /\ pc' = [pc EXCEPT ![r] = "admitted"]
          /\ UNCHANGED <<tableVars, queue, streak, breakerVars, runAge>>
      BY <1>2, <2>2 DEF ReadBudget, Goto
    <3>3. pc' \in [Runs -> Steps] /\ limit' \in [Runs -> Nat]
      BY <3>1, <3>2 DEF TypeInv, Typed, Steps
    <3>4. AtACandidate'
      BY <3>2 DEF TypeInv, Typed, AtACandidate
    <3> QED BY <3>2, <3>3, <3>4 DEF TypeInv, Typed, tableVars, rowVars, breakerVars
  <2> QED BY <2>1, <2>2
<1>3. ASSUME NEW r \in Runs, Die(r) PROVE TypeInv'
  BY <1>3, ExitTypeInv DEF Die
<1>4. ASSUME NEW t \in GuiTickers, Prioritize(t) PROVE TypeInv'
  BY <1>4, TickersAssumption
  DEF Prioritize, TypeInv, Typed, AtACandidate, UrgentRank, runVars, breakerVars
<1>5. ASSUME NEW t \in GuiTickers, ForceRefresh(t) PROVE TypeInv'
  BY <1>5, TickersAssumption, ThresholdsAssumption
  DEF ForceRefresh, TypeInv, Typed, AtACandidate, UrgentRank, Statuses, runVars, breakerVars
<1>6. ASSUME NEW t \in ChurnTickers, Churn(t) PROVE TypeInv'
  BY <1>6, TickersAssumption DEF Churn, TypeInv, Typed, AtACandidate, rowVars, runVars, breakerVars
<1>7. CASE UNCHANGED vars
  BY <1>7 DEF vars, tableVars, rowVars, runVars, breakerVars, TypeInv, Typed, AtACandidate
<1> QED
  BY <1>1, <1>2, <1>3, <1>4, <1>5, <1>6, <1>7,
     SelectTypeInv, TakeTypeInv, MarkTypeInv, ChargeTypeInv, NextDayTypeInv DEF Next

-----------------------------------------------------------------------------
(* Why no row is stranded: whatever a row's status, it carries what the    *)
(* clause of get_candidates for that status reads. A pending row has       *)
(* retries left, a complete one has a date, and a failed one an attempt    *)
(* from which its cooldown runs.                                           *)
LEMMA InitRecovers == Init => RowsRecover
BY ThresholdsAssumption DEF Init, RowsRecover

LEMMA MarkCompleteRecovers ==
  ASSUME TypeInv, RowsRecover, NEW r \in Runs, NEW t \in Tickers, MarkComplete(r, t)
  PROVE  RowsRecover'
<1>1. runAge[r] # Null
  <2>1. runAge[r] \in {0, 1, 2}
    BY DEF TypeInv, Typed
  <2> QED BY <2>1 DEF Null
<1>2. status'[t] = "complete" /\ fetched'[t] # Null
  BY <1>1 DEF MarkComplete, TypeInv, Typed
<1>3. \A u \in Tickers \ {t} :
        status'[u] = status[u] /\ retry'[u] = retry[u] /\ fetched'[u] = fetched[u]
        /\ attempt'[u] = attempt[u]
  BY DEF MarkComplete, TypeInv, Typed
<1> QED BY <1>2, <1>3 DEF RowsRecover

LEMMA NextRecovers == TypeInv /\ RowsRecover /\ [Next]_vars => RowsRecover'
<1> SUFFICES ASSUME TypeInv, RowsRecover, [Next]_vars PROVE RowsRecover'
  OBVIOUS
<1>1. ASSUME UNCHANGED rowVars PROVE RowsRecover'
  BY <1>1 DEF rowVars, RowsRecover
<1>2. ASSUME NEW r \in Runs, CaughtUp(r) PROVE RowsRecover'
  BY <1>2, CurrentCandidate, MarkCompleteRecovers DEF CaughtUp, AtCandidate
<1>3. ASSUME NEW r \in Runs, MarkSuccess(r) PROVE RowsRecover'
  BY <1>3, CurrentCandidate, MarkCompleteRecovers DEF MarkSuccess, TypeInv, AtACandidate
<1>4. ASSUME NEW r \in Runs, MarkFailure(r) PROVE RowsRecover'
  <2>1. Current(r).ticker \in Tickers /\ Current(r).retry \in 0 .. MaxRetryCount
    BY <1>4, CurrentCandidate DEF MarkFailure, TypeInv, AtACandidate
  <2> DEFINE t == Current(r).ticker
             n == OneMore(Current(r).retry)
  <2>2. /\ retry' = [retry EXCEPT ![t] = n]
        /\ status' = [status EXCEPT ![t] = FailureStatus(n)]
        /\ attempt' = [attempt EXCEPT ![t] = 0]
        /\ fetched' = fetched
    BY <1>4 DEF MarkFailure
  <2>3. n \in 0 .. MaxRetryCount
    BY <2>1, ThresholdsAssumption DEF OneMore
  <2> HIDE DEF t, n
  <2>4. t \in Tickers
    BY <2>1 DEF t
  <2>5. FailureStatus(n) = "pending" => n < MaxRetryCount
    BY <2>3, ThresholdsAssumption DEF FailureStatus
  <2>6. FailureStatus(n) # "complete"
    BY DEF FailureStatus
  <2> QED BY <2>2, <2>3, <2>4, <2>5, <2>6 DEF TypeInv, Typed, RowsRecover, Null
<1>5. ASSUME NEW t \in GuiTickers, Prioritize(t) PROVE RowsRecover'
  BY <1>5 DEF Prioritize, RowsRecover
<1>6. ASSUME NEW t \in GuiTickers, ForceRefresh(t) PROVE RowsRecover'
  BY <1>6, ThresholdsAssumption DEF ForceRefresh, RowsRecover, TypeInv, Typed
<1>7. CASE NextDay
  <2>1. \A t \in Tickers : fetched[t] # Null => fetched'[t] # Null
    <3> SUFFICES ASSUME NEW t \in Tickers, fetched[t] # Null PROVE fetched'[t] # Null
      OBVIOUS
    <3>1. fetched[t] \in {0, 1, 2}
      BY DEF TypeInv, Typed, Ages
    <3>2. fetched'[t] = fetched[t] \/ fetched'[t] = fetched[t] + 1
      BY <1>7 DEF NextDay, Older
    <3> QED BY <3>1, <3>2 DEF Null
  <2>2. \A t \in Tickers : attempt[t] # Null => attempt'[t] # Null
    BY <1>7, ThresholdsAssumption DEF NextDay, TypeInv, Typed, Older, Null, AttemptAges, Oldest
  <2> QED BY <1>7, <2>1, <2>2 DEF NextDay, RowsRecover
<1>8. ASSUME NEW r \in Runs,
             \/ Seed(r) \/ ReadBudget(r) \/ Select(r) \/ FetchSucceeds(r) \/ FetchFails(r)
             \/ AllUnavailable(r) \/ Finish(r) \/ Charge(r) \/ Die(r)
      PROVE  UNCHANGED rowVars
  BY <1>8 DEF Seed, ReadBudget, Select, FetchSucceeds, FetchFails, Ask, AllUnavailable, Finish,
              Charge, ChargeSuccess, ChargeFailure, Die, tableVars
<1>9. ASSUME NEW t \in ChurnTickers, Churn(t) PROVE UNCHANGED rowVars
  BY <1>9 DEF Churn
<1>10. CASE UNCHANGED vars
  BY <1>10, <1>1 DEF vars, tableVars
<1> QED
  BY <1>1, <1>2, <1>3, <1>4, <1>5, <1>6, <1>7, <1>8, <1>9, <1>10 DEF Next, Take, Mark

(* A row is a candidate again once its cooldown and the staleness day have *)
(* passed, however runs, deaths, operators and midnights were interleaved. *)
THEOREM NeverStrandedTheorem == Spec => []NeverStranded
<1>1. TypeInv /\ RowsRecover => NeverStranded
  <2> SUFFICES ASSUME TypeInv, RowsRecover, NEW t \in seeded
               PROVE  EligibleIn(t, CooldownDays + 2)
    BY DEF NeverStranded
  <2>1. /\ t \in Tickers /\ status[t] \in Statuses /\ fetched[t] \in Ages
        /\ attempt[t] \in AttemptAges
    BY DEF TypeInv, Typed
  <2>2. CASE status[t] = "pending"
    BY <2>1, <2>2 DEF EligibleIn, RowsRecover
  <2>3. CASE status[t] = "complete"
    BY <2>1, <2>3, ThresholdsAssumption DEF EligibleIn, RowsRecover, Ages, Null
  <2>4. CASE status[t] = "failed"
    <3>1. attempt[t] # Null /\ attempt[t] \in Nat
      BY <2>1, <2>4, ThresholdsAssumption DEF RowsRecover, AttemptAges, Null, Oldest
    <3>2. attempt[t] + (CooldownDays + 2) > CooldownDays
      BY <3>1, ThresholdsAssumption
    <3> QED BY <2>4, <3>1, <3>2 DEF EligibleIn
  <2> QED BY <2>1, <2>2, <2>3, <2>4 DEF Statuses
<1> QED BY InitTypeInv, NextTypeInv, InitRecovers, NextRecovers, <1>1, PTL DEF Spec

(* Rows, budget counters and the locals of every run keep their types, and *)
(* every row what its status needs.                                        *)
THEOREM TypeCorrect == Spec => []TypeOK
<1>1. TypeInv /\ RowsRecover => TypeOK
  BY DEF TypeInv, TypeOK
<1> QED BY InitTypeInv, NextTypeInv, InitRecovers, NextRecovers, <1>1, PTL DEF Spec
-----------------------------------------------------------------------------
(* Why an outage is contained: each candidate that fails has failed at     *)
(* every provider whose breaker is closed, so no closed breaker counts     *)
(* fewer failures than the streak, and none counts CircuitThreshold.       *)
BreakersKeepUp ==
  \A r \in Runs :
    /\ streak[r] <= CircuitThreshold
    /\ \A p \in Ready(r) : fails[r][p] < CircuitThreshold
    /\ pc[r] \in {"idle", "seeded", "admitted"} => streak[r] = 0
    /\ pc[r] = "loop" => \A p \in Ready(r) : streak[r] <= fails[r][p]
    /\ pc[r] \in {"refused", "charge_fail"} =>
         streak[r] < CircuitThreshold /\ \A p \in Ready(r) : streak[r] < fails[r][p]

(* What BreakersKeepUp says of one run, for the runs a step leaves alone.  *)
LEMMA OtherRuns ==
  ASSUME BreakersKeepUp, NEW r \in Runs,
         UNCHANGED <<pc[r], streak[r], broken[r], fails[r]>>
  PROVE  /\ streak'[r] <= CircuitThreshold
         /\ \A p \in Ready(r)' : fails'[r][p] < CircuitThreshold
         /\ pc'[r] \in {"idle", "seeded", "admitted"} => streak'[r] = 0
         /\ pc'[r] = "loop" => \A p \in Ready(r)' : streak'[r] <= fails'[r][p]
         /\ pc'[r] \in {"refused", "charge_fail"} =>
              streak'[r] < CircuitThreshold /\ \A p \in Ready(r)' : streak'[r] < fails'[r][p]
BY DEF BreakersKeepUp, Ready

LEMMA NextBreakersKeepUp == TypeInv /\ BreakersKeepUp /\ [Next]_vars => BreakersKeepUp'
<1> SUFFICES ASSUME TypeInv, BreakersKeepUp, [Next]_vars PROVE BreakersKeepUp'
  OBVIOUS
<1>1. ASSUME NEW r \in Runs, Exit(r) PROVE BreakersKeepUp'
  <2>1. /\ pc'[r] = "idle" /\ streak'[r] = 0 /\ \A p \in Providers : fails'[r][p] = 0
    BY <1>1 DEF Exit, TypeInv, Typed
  <2>2. \A x \in Runs \ {r} : UNCHANGED <<pc[x], streak[x], broken[x], fails[x]>>
    BY <1>1 DEF Exit, TypeInv, Typed
  <2>3. Ready(r)' \subseteq Providers
    BY ProvidersAssumption DEF Ready
  <2> QED BY <2>1, <2>2, <2>3, OtherRuns, ThresholdsAssumption DEF BreakersKeepUp
<1>2. ASSUME NEW r \in Runs, FetchFails(r) PROVE BreakersKeepUp'
  <2>1. PICK o \in [Ready(r) -> Outcomes] :
          /\ Ready(r) # {}
          /\ \A p \in Reached(r, o) : o[p] # "ok"
          /\ Ask(r, o)
          /\ Goto(r, "refused")
    BY <1>2 DEF FetchFails
  <2>2. Ready(r) \subseteq Providers
    BY ProvidersAssumption DEF Ready
  <2>3. Reached(r, o) = Ready(r)
    <3>1. \A p \in Ready(r) : p = FallbackProvider =>
            ActiveProvider \notin Ready(r) \/ o[ActiveProvider] # "ok"
      <4>1. ActiveProvider \in Ready(r) => ActiveProvider \in Reached(r, o)
        BY ProvidersAssumption DEF Reached
      <4> QED BY <2>1, <4>1
    <3> QED BY <3>1 DEF Reached
  <2>4. \A p \in Ready(r) : fails'[r][p] = fails[r][p] + 1
    BY <2>1, <2>2, <2>3 DEF Ask, FailsAfter, TypeInv, Typed
  <2>5. Ready(r)' = {p \in Ready(r) : p \notin Tripped(r, o)}
    BY <2>1 DEF Ready, Ask, TypeInv, Typed
  <2>6. \A p \in Ready(r)' : fails[r][p] + 1 < CircuitThreshold
    <3> SUFFICES ASSUME NEW p \in Ready(r), p \notin Tripped(r, o)
                 PROVE  fails[r][p] + 1 < CircuitThreshold
      BY <2>5
    <3>1. o[p] = "error"
      BY <2>1, <2>3 DEF Tripped, Outcomes
    <3>2. ~ (fails[r][p] + 1 >= CircuitThreshold)
      BY <2>3, <3>1 DEF Tripped
    <3>3. fails[r][p] \in Nat
      BY <2>2 DEF TypeInv, Typed
    <3> QED BY <3>2, <3>3, ThresholdsAssumption
  <2>7. pc[r] = "loop" /\ pc'[r] = "refused" /\ streak'[r] = streak[r]
    BY <2>1 DEF Ask, AtCandidate, Goto, TypeInv, Typed
  <2>8. streak[r] < CircuitThreshold
    <3>1. PICK p \in Ready(r) : TRUE
      BY <2>1
    <3>2. streak[r] <= fails[r][p] /\ fails[r][p] < CircuitThreshold
      BY <2>7, <3>1 DEF BreakersKeepUp
    <3>3. streak[r] \in Nat /\ fails[r][p] \in Nat
      BY <2>2, <3>1 DEF TypeInv, Typed
    <3> QED BY <3>2, <3>3, ThresholdsAssumption
  <2>9. \A p \in Ready(r)' : streak[r] < fails'[r][p] /\ fails'[r][p] < CircuitThreshold
    <3> SUFFICES ASSUME NEW p \in Ready(r)'
                 PROVE  streak[r] < fails'[r][p] /\ fails'[r][p] < CircuitThreshold
      OBVIOUS
    <3>1. p \in Ready(r) /\ fails'[r][p] = fails[r][p] + 1
      BY <2>4, <2>5
    <3>2. streak[r] <= fails[r][p]
      BY <2>7, <3>1 DEF BreakersKeepUp
    <3>3. streak[r] \in Nat /\ fails[r][p] \in Nat
      BY <2>2, <3>1 DEF TypeInv, Typed
    <3> QED BY <2>6, <3>1, <3>2, <3>3
  <2>10. \A x \in Runs \ {r} : UNCHANGED <<pc[x], streak[x], broken[x], fails[x]>>
    BY <2>1 DEF Ask, Goto, TypeInv, Typed
  <2> QED BY <2>7, <2>8, <2>9, <2>10, OtherRuns, ThresholdsAssumption DEF BreakersKeepUp, TypeInv, Typed
<1>3. ASSUME NEW r \in Runs, FetchSucceeds(r) PROVE BreakersKeepUp'
  <2>1. PICK o \in [Ready(r) -> Outcomes] : Ask(r, o) /\ Goto(r, "answered")
    BY <1>3 DEF FetchSucceeds
  <2>2. Ready(r) \subseteq Providers
    BY ProvidersAssumption DEF Ready
  <2>3. Ready(r)' = {p \in Ready(r) : p \notin Tripped(r, o)}
    BY <2>1 DEF Ready, Ask, TypeInv, Typed
  <2>4. \A p \in Ready(r)' : fails'[r][p] < CircuitThreshold
    <3> SUFFICES ASSUME NEW p \in Ready(r), p \notin Tripped(r, o)
                 PROVE  fails'[r][p] < CircuitThreshold
      BY <2>3
    <3>1. fails'[r][p] = FailsAfter(r, o)[p] /\ fails[r][p] \in Nat
      BY <2>1, <2>2 DEF Ask, TypeInv, Typed
    <3>2. CASE p \notin Reached(r, o)
      BY <2>2, <3>1, <3>2 DEF FailsAfter, BreakersKeepUp
    <3>3. CASE p \in Reached(r, o) /\ o[p] = "ok"
      BY <2>2, <3>1, <3>3, ThresholdsAssumption DEF FailsAfter
    <3>4. CASE p \in Reached(r, o) /\ o[p] # "ok"
      <4>1. fails'[r][p] = fails[r][p] + 1
        BY <2>2, <3>1, <3>4 DEF FailsAfter
      <4>2. ~ (fails[r][p] + 1 >= CircuitThreshold)
        BY <2>1, <3>4 DEF Tripped, Outcomes
      <4> QED BY <3>1, <4>1, <4>2, ThresholdsAssumption
    <3> QED BY <3>2, <3>3, <3>4
  <2>5. pc'[r] = "answered" /\ streak'[r] = streak[r]
    BY <2>1 DEF Ask, Goto, TypeInv, Typed
  <2>6. \A x \in Runs \ {r} : UNCHANGED <<pc[x], streak[x], broken[x], fails[x]>>
    BY <2>1 DEF Ask, Goto, TypeInv, Typed
  <2> QED BY <2>4, <2>5, <2>6, OtherRuns DEF BreakersKeepUp
<1>4. ASSUME NEW r \in Runs, CaughtUp(r) \/ ChargeSuccess(r) PROVE BreakersKeepUp'
  <2>1. pc'[r] = "loop" /\ streak'[r] = 0 /\ UNCHANGED <<broken, fails>>
    BY <1>4 DEF CaughtUp, AtCandidate, ChargeSuccess, Goto, breakerVars, TypeInv, Typed
  <2>2. \A p \in Ready(r)' : fails'[r][p] \in Nat /\ fails'[r][p] < CircuitThreshold
    BY <2>1, ProvidersAssumption DEF Ready, BreakersKeepUp, TypeInv, Typed
  <2>3. \A x \in Runs \ {r} : UNCHANGED <<pc[x], streak[x], broken[x], fails[x]>>
    BY <1>4 DEF CaughtUp, AtCandidate, ChargeSuccess, Goto, breakerVars, TypeInv, Typed
  <2> QED BY <2>1, <2>2, <2>3, OtherRuns, ThresholdsAssumption DEF BreakersKeepUp
<1>5. ASSUME NEW r \in Runs, ChargeFailure(r), streak[r] + 1 < MaxConsecutiveFailures
      PROVE  BreakersKeepUp'
  <2>1. streak[r] + 1 < MaxConsecutiveFailures /\ ~ (streak[r] + 1 >= MaxConsecutiveFailures)
    BY <1>5, ThresholdsAssumption DEF TypeInv, Typed
  <2>2. /\ pc' = [pc EXCEPT ![r] = "loop"]
        /\ streak' = [streak EXCEPT ![r] = @ + 1]
        /\ UNCHANGED <<broken, fails>>
    BY <1>5, <2>1 DEF ChargeFailure, Goto, breakerVars
  <2>3. pc'[r] = "loop" /\ streak'[r] = streak[r] + 1 /\ streak[r] \in Nat
    BY <2>2 DEF TypeInv, Typed
  <2>4. streak[r] < CircuitThreshold /\ \A p \in Ready(r) : streak[r] < fails[r][p]
    BY <1>5 DEF ChargeFailure, BreakersKeepUp
  <2>5. \A p \in Ready(r)' : streak[r] + 1 <= fails'[r][p] /\ fails'[r][p] < CircuitThreshold
    <3>1. Ready(r)' = Ready(r) /\ \A p \in Ready(r) : fails'[r][p] = fails[r][p] /\ fails[r][p] \in Nat
      BY <2>2, ProvidersAssumption DEF Ready, TypeInv, Typed
    <3> QED BY <2>3, <2>4, <3>1 DEF BreakersKeepUp
  <2>6. \A x \in Runs \ {r} : UNCHANGED <<pc[x], streak[x], broken[x], fails[x]>>
    BY <2>2 DEF TypeInv, Typed
  <2>7. streak[r] + 1 <= CircuitThreshold
    BY <2>3, <2>4, ThresholdsAssumption
  <2> QED BY <2>3, <2>5, <2>6, <2>7, OtherRuns DEF BreakersKeepUp
<1>6. ASSUME NEW r \in Runs, ChargeFailure(r), streak[r] + 1 >= MaxConsecutiveFailures
      PROVE  BreakersKeepUp'
  BY <1>6, <1>1 DEF ChargeFailure
<1>7. ASSUME NEW r \in Runs, MarkSuccess(r) \/ MarkFailure(r) \/ Seed(r) PROVE BreakersKeepUp'
  <2>1. /\ UNCHANGED <<streak, broken, fails>>
        /\ \/ pc'[r] = "charge_ok"
           \/ pc[r] = "refused" /\ pc'[r] = "charge_fail"
           \/ pc[r] = "idle" /\ pc'[r] = "seeded"
    BY <1>7 DEF MarkSuccess, MarkFailure, Seed, Goto, breakerVars, TypeInv, Typed
  <2>2. \A x \in Runs \ {r} : UNCHANGED <<pc[x], streak[x], broken[x], fails[x]>>
    BY <1>7 DEF MarkSuccess, MarkFailure, Seed, Goto, breakerVars, TypeInv, Typed
  <2> QED BY <2>1, <2>2, OtherRuns DEF BreakersKeepUp, Ready
<1>8. ASSUME NEW r \in Runs, ReadBudget(r), ~ Exit(r) PROVE BreakersKeepUp'
  <2>1. UNCHANGED <<streak, broken, fails>> /\ pc[r] = "seeded" /\ pc'[r] = "admitted"
    BY <1>8 DEF ReadBudget, Goto, breakerVars, TypeInv, Typed
  <2>2. \A x \in Runs \ {r} : UNCHANGED <<pc[x], streak[x], broken[x], fails[x]>>
    BY <1>8 DEF ReadBudget, Goto, breakerVars, TypeInv, Typed
  <2> QED BY <2>1, <2>2, OtherRuns DEF BreakersKeepUp, Ready
<1>9. ASSUME NEW r \in Runs, Select(r) PROVE BreakersKeepUp'
  <2>1. UNCHANGED <<streak, broken, fails>> /\ pc[r] = "admitted" /\ pc'[r] = "loop"
    BY <1>9 DEF Select, Goto, breakerVars, TypeInv, Typed
  <2>2. \A x \in Runs \ {r} : UNCHANGED <<pc[x], streak[x], broken[x], fails[x]>>
    BY <1>9 DEF Select, Goto, breakerVars, TypeInv, Typed
  <2>3. \A p \in Ready(r) : fails[r][p] \in Nat
    BY ProvidersAssumption DEF Ready, TypeInv, Typed
  <2> QED BY <2>1, <2>2, <2>3, OtherRuns DEF BreakersKeepUp, Ready
<1>10. ASSUME UNCHANGED <<pc, streak, broken, fails>> PROVE BreakersKeepUp'
  BY <1>10 DEF BreakersKeepUp, Ready
<1>11. ASSUME NextDay \/ UNCHANGED vars \/ (\E t \in GuiTickers : Prioritize(t) \/ ForceRefresh(t))
                \/ \E t \in ChurnTickers : Churn(t)
       PROVE  BreakersKeepUp'
  BY <1>11, <1>10 DEF NextDay, Prioritize, ForceRefresh, Churn, vars, runVars, breakerVars
<1>12. ASSUME NEW r \in Runs, AllUnavailable(r) \/ Finish(r) \/ Die(r) PROVE BreakersKeepUp'
  BY <1>12, <1>1 DEF AllUnavailable, Finish, Die
<1>13. \A r \in Runs : streak[r] + 1 < MaxConsecutiveFailures \/ streak[r] + 1 >= MaxConsecutiveFailures
  BY ThresholdsAssumption DEF TypeInv, Typed
<1> QED
  BY <1>1, <1>2, <1>3, <1>4, <1>5, <1>6, <1>7, <1>8, <1>9, <1>11, <1>12, <1>13
  DEF Next, Take, Mark, Charge

(* An outage costs a run at most CircuitThreshold candidates' retries, for *)
(* any thresholds, even a MaxConsecutiveFailures far above it.             *)
THEOREM OutageIsContainedTheorem == Spec => []OutageIsContained
<1>1. Init => BreakersKeepUp
  <2> SUFFICES ASSUME Init PROVE BreakersKeepUp
    OBVIOUS
  <2>1. \A r \in Runs : pc[r] = "idle" /\ streak[r] = 0 /\ \A p \in Providers : fails[r][p] = 0
    BY DEF Init
  <2> QED BY <2>1, ThresholdsAssumption, ProvidersAssumption DEF BreakersKeepUp, Ready
<1>2. BreakersKeepUp => OutageIsContained
  BY DEF BreakersKeepUp, OutageIsContained
<1> QED BY InitTypeInv, NextTypeInv, NextBreakersKeepUp, <1>1, <1>2, PTL DEF Spec
-----------------------------------------------------------------------------
(* Why overlapping runs cannot spend more than a budget each: a run that   *)
(* has been admitted holds a claim on the calls it may still make, of at   *)
(* most a day's budget, and a call is paid for out of the claim. What is   *)
(* claimed and not yet spent is counted in units, one pair per call.       *)
Claim(r) == IF pc[r] = "admitted" THEN limit[r] ELSE Len(queue[r])
Claims == {c \in Runs \X (1 .. DailyBudget) : c[2] <= Claim(c[1])}

BudgetInv ==
  /\ \A r \in Runs : Claim(r) <= DailyBudget
  /\ \A r \in Runs : pc[r] \in {"idle", "seeded"} => queue[r] = <<>>
  /\ used + Cardinality(Claims) <= Cardinality(Runs) * DailyBudget

LEMMA ClaimNat == ASSUME TypeInv, NEW r \in Runs PROVE Claim(r) \in Nat /\ Len(queue[r]) \in Nat
<1>1. queue[r] \in Seq(Candidate) /\ limit[r] \in Nat
  BY DEF TypeInv, Typed
<1>2. Len(queue[r]) \in Nat
  BY <1>1, LenProperties
<1> QED BY <1>1, <1>2 DEF Claim

LEMMA ClaimNatNext == ASSUME TypeInv', NEW r \in Runs PROVE Claim(r)' \in Nat
<1>1. queue'[r] \in Seq(Candidate) /\ limit'[r] \in Nat
  BY DEF TypeInv, Typed
<1>2. Len(queue'[r]) \in Nat
  BY <1>1, LenProperties
<1> QED BY <1>1, <1>2 DEF Claim

(* The budgets of all runs together.                                       *)
LEMMA Budgets ==
  ASSUME NEW S \in SUBSET Runs
  PROVE  /\ IsFiniteSet(S) /\ Cardinality(S) \in Nat
         /\ IsFiniteSet(S \X (1 .. DailyBudget))
         /\ Cardinality(S \X (1 .. DailyBudget)) = Cardinality(S) * DailyBudget
<1>1. IsFiniteSet(S)
  BY RunsAssumption, FS_Subset
<1>2. IsFiniteSet(1 .. DailyBudget) /\ Cardinality(1 .. DailyBudget) = DailyBudget
  BY BudgetAssumption, FS_Interval
<1> QED BY <1>1, <1>2, FS_Product, FS_CardinalityType

LEMMA ClaimsFinite ==
  /\ Claims \subseteq Runs \X (1 .. DailyBudget)
  /\ IsFiniteSet(Claims) /\ Cardinality(Claims) \in Nat
  /\ Cardinality(Claims) <= Cardinality(Runs) * DailyBudget
<1>1. Claims \in SUBSET (Runs \X (1 .. DailyBudget))
  BY DEF Claims
<1>2. Runs \in SUBSET Runs
  OBVIOUS
<1>3. IsFiniteSet(Claims) /\ Cardinality(Claims) <= Cardinality(Runs \X (1 .. DailyBudget))
  BY <1>1, <1>2, Budgets, FS_Subset
<1> QED BY <1>1, <1>2, <1>3, Budgets, FS_CardinalityType

LEMMA ClaimsPrimeFinite == IsFiniteSet(Claims') /\ Cardinality(Claims') \in Nat
<1>1. Claims' \in SUBSET (Runs \X (1 .. DailyBudget))
  BY DEF Claims
<1>2. Runs \in SUBSET Runs
  OBVIOUS
<1> QED BY <1>1, <1>2, Budgets, FS_Subset, FS_CardinalityType

(* A step that gives claims up and spends nothing.                         *)
LEMMA ClaimsShrink ==
  ASSUME TypeInv, TypeInv', BudgetInv, used' = used,
         \A r \in Runs : Claim(r)' <= Claim(r),
         \A r \in Runs : pc'[r] \in {"idle", "seeded"} => queue'[r] = <<>>
  PROVE  BudgetInv'
<1>1. \A r \in Runs : Claim(r) \in Nat /\ Claim(r)' \in Nat
  BY ClaimNat, ClaimNatNext
<1>2. \A r \in Runs : Claim(r)' <= DailyBudget
  BY <1>1, BudgetAssumption DEF BudgetInv
<1>3. Claims' \in SUBSET Claims
  BY <1>1, BudgetAssumption DEF Claims
<1> PICK n, m : n = Cardinality(Claims) /\ m = Cardinality(Claims')
  OBVIOUS
<1> PICK b : b = Cardinality(Runs) * DailyBudget
  OBVIOUS
<1>4. m <= n /\ m \in Nat /\ n \in Nat
  BY <1>3, ClaimsFinite, ClaimsPrimeFinite, FS_Subset
<1>5. b \in Nat
  <2>1. Cardinality(Runs) \in Nat
    BY RunsAssumption, FS_CardinalityType
  <2> QED BY <2>1, BudgetAssumption
<1>6. used + n <= b /\ used \in Nat
  BY DEF BudgetInv, TypeInv, Typed
<1>7. used' + m <= b
  BY <1>4, <1>5, <1>6
<1> QED BY <1>2, <1>7 DEF BudgetInv

(* A step of one run leaves the claims of the others alone.                *)
LEMMA SameClaim ==
  ASSUME NEW r \in Runs, UNCHANGED <<pc[r], limit[r], queue[r]>> PROVE Claim(r)' = Claim(r)
BY DEF Claim

(* A call is paid for out of the claim of its run.                         *)
LEMMA ClaimPays ==
  ASSUME TypeInv, TypeInv', BudgetInv, NEW r \in Runs, used' = used + 1,
         pc[r] \in {"charge_ok", "charge_fail"},
         \A x \in Runs \ {r} : UNCHANGED <<pc[x], limit[x], queue[x]>>,
         Claim(r)' < Claim(r),
         pc'[r] \in {"idle", "seeded"} => queue'[r] = <<>>
  PROVE  BudgetInv'
<1>1. \A x \in Runs : Claim(x) \in Nat /\ Claim(x)' \in Nat /\ Claim(x)' <= Claim(x)
  <2>1. \A x \in Runs : Claim(x) \in Nat /\ Claim(x)' \in Nat
    BY ClaimNat, ClaimNatNext
  <2>2. \A x \in Runs \ {r} : Claim(x)' = Claim(x)
    BY SameClaim
  <2> QED BY <2>1, <2>2
<1>2. \A x \in Runs : Claim(x)' <= DailyBudget
  BY <1>1, BudgetAssumption DEF BudgetInv
<1>3. <<r, Claim(r)>> \in Claims /\ <<r, Claim(r)>> \notin Claims'
  BY <1>1, BudgetAssumption DEF Claims, BudgetInv
<1>4. Claims' \in SUBSET (Claims \ {<<r, Claim(r)>>})
  <2>1. Claims' \subseteq Claims
    BY <1>1, BudgetAssumption DEF Claims
  <2> QED BY <1>3, <2>1
<1> PICK u : u = Claims \ {<<r, Claim(r)>>}
  OBVIOUS
<1> PICK n, m : n = Cardinality(Claims) /\ m = Cardinality(Claims')
  OBVIOUS
<1> PICK b : b = Cardinality(Runs) * DailyBudget
  OBVIOUS
<1>5. IsFiniteSet(u) /\ Cardinality(u) = n - 1
  BY <1>3, ClaimsFinite, FS_RemoveElement
<1>6. m <= Cardinality(u)
  BY <1>4, <1>5, FS_Subset
<1>7. m <= n - 1 /\ n \in Nat /\ m \in Nat
  BY <1>5, <1>6, ClaimsFinite, ClaimsPrimeFinite
<1>8. b \in Nat
  <2>1. Cardinality(Runs) \in Nat
    BY RunsAssumption, FS_CardinalityType
  <2> QED BY <2>1, BudgetAssumption
<1>9. used + n <= b /\ used \in Nat
  BY DEF BudgetInv, TypeInv, Typed
<1>10. used' + m <= b
  BY <1>7, <1>8, <1>9
<1>11. \A x \in Runs : pc'[x] \in {"idle", "seeded"} => queue'[x] = <<>>
  BY DEF BudgetInv
<1> QED BY <1>2, <1>10, <1>11 DEF BudgetInv

(* What is left of the day when a run is admitted is all it may claim.     *)
LEMMA RemainingIsLeft ==
  ASSUME used \in Nat, TickersRemaining # 0
  PROVE  used < DailyBudget /\ TickersRemaining \in Nat /\ TickersRemaining <= DailyBudget - used
<1>1. \A a \in Nat, c \in Nat \ {0} : a \div c <= a /\ a \div c \in Nat
  OBVIOUS
<1>2. used < DailyBudget
  <2> SUFFICES ASSUME ~ (used < DailyBudget) PROVE FALSE
    OBVIOUS
  <2>1. TickersRemaining = 0 \div CallsPerTicker
    BY DEF TickersRemaining
  <2>2. 0 \div CallsPerTicker <= 0 /\ 0 \div CallsPerTicker \in Nat
    BY <1>1, BudgetAssumption
  <2> QED BY <2>1, <2>2
<1>3. TickersRemaining = (DailyBudget - used) \div CallsPerTicker
  BY <1>2 DEF TickersRemaining
<1>4. DailyBudget - used \in Nat
  BY <1>2, BudgetAssumption
<1> QED BY <1>1, <1>2, <1>3, <1>4, BudgetAssumption

(* A run that is admitted: the others hold at most a budget each.          *)
LEMMA ClaimIsGranted ==
  ASSUME TypeInv, TypeInv', BudgetInv, NEW r \in Runs, used' = used,
         \A x \in Runs \ {r} : UNCHANGED <<pc[x], limit[x], queue[x]>>,
         pc'[r] = "admitted", limit'[r] = TickersRemaining, TickersRemaining # 0
  PROVE  BudgetInv'
<1> PICK n : n = TickersRemaining
  OBVIOUS
<1>1. used \in Nat /\ n \in Nat /\ n <= DailyBudget - used /\ used < DailyBudget
  <2>1. used \in Nat
    BY DEF TypeInv, Typed
  <2> QED BY <2>1, RemainingIsLeft
<1>2. \A x \in Runs : Claim(x)' <= DailyBudget
  <2>1. Claim(r)' = n
    BY DEF Claim
  <2>2. n <= DailyBudget
    BY <1>1, BudgetAssumption
  <2>3. \A x \in Runs \ {r} : Claim(x)' <= DailyBudget
    BY SameClaim DEF BudgetInv
  <2> QED BY <2>1, <2>2, <2>3
<1>3. \A x \in Runs : pc'[x] \in {"idle", "seeded"} => queue'[x] = <<>>
  BY DEF BudgetInv
<1> PICK O, M : O = (Runs \ {r}) \X (1 .. DailyBudget) /\ M = {r} \X (1 .. n)
  OBVIOUS
<1>4. IsFiniteSet(O) /\ IsFiniteSet(M) /\ Cardinality(M) = n
      /\ Cardinality(O) = (Cardinality(Runs) - 1) * DailyBudget
  <2>1. IsFiniteSet({r}) /\ Cardinality({r}) = 1
    BY FS_Singleton
  <2>2. IsFiniteSet(1 .. n) /\ Cardinality(1 .. n) = n
    BY <1>1, FS_Interval
  <2>3. IsFiniteSet(M) /\ Cardinality(M) = n
    BY <1>1, <2>1, <2>2, FS_Product
  <2>4. Cardinality(Runs \ {r}) = Cardinality(Runs) - 1
    BY RunsAssumption, FS_RemoveElement
  <2>5. (Runs \ {r}) \in SUBSET Runs
    OBVIOUS
  <2> QED BY <2>3, <2>4, <2>5, Budgets
<1>5. Claims' \in SUBSET (O \cup M)
  <2> SUFFICES ASSUME NEW c \in Claims' PROVE c \in O \cup M
    OBVIOUS
  <2>1. c \in Runs \X (1 .. DailyBudget) /\ c[2] <= Claim(c[1])'
    BY DEF Claims
  <2>2. CASE c[1] = r
    <3>1. c[2] <= n
      BY <2>1, <2>2 DEF Claim
    <3>2. c[2] \in 1 .. n
      BY <1>1, <2>1, <3>1, BudgetAssumption
    <3> QED BY <2>1, <2>2, <3>2
  <2>3. CASE c[1] # r
    BY <2>1, <2>3
  <2> QED BY <2>2, <2>3
<1> PICK m, o : m = Cardinality(Claims') /\ o = Cardinality(O)
  OBVIOUS
<1>6. o \in Nat /\ m \in Nat /\ m <= o + n
  <2>1. O \cap M = {}
    <3>1. \A c : c \in O => c[1] # r
      OBVIOUS
    <3>2. \A c : c \in M => c[1] = r
      OBVIOUS
    <3> QED BY <3>1, <3>2
  <2>2. Cardinality(O \cup M) = Cardinality(O) + Cardinality(M) - Cardinality({})
        /\ IsFiniteSet(O \cup M)
    <3>1. Cardinality(O \cup M) = Cardinality(O) + Cardinality(M) - Cardinality(O \cap M)
          /\ IsFiniteSet(O \cup M)
      BY ONLY <1>4, FS_Union
    <3> QED BY <2>1, <3>1
  <2>3. Cardinality({}) = 0
    BY FS_EmptySet
  <2>4. o \in Nat /\ m \in Nat
    BY <1>4, FS_CardinalityType, ClaimsPrimeFinite
  <2>5. m <= Cardinality(O \cup M)
    BY <1>5, <2>2, FS_Subset
  <2> QED BY <1>1, <1>4, <2>2, <2>3, <2>4, <2>5
<1> PICK b : b = Cardinality(Runs) * DailyBudget
  OBVIOUS
<1>7. b \in Nat /\ b = o + DailyBudget
  <2>1. Cardinality(Runs) \in Nat
    BY RunsAssumption, FS_CardinalityType
  <2>2. \A c, d \in Nat : c * d = (c - 1) * d + d /\ c * d \in Nat
    OBVIOUS
  <2> QED BY <1>4, <2>1, <2>2, BudgetAssumption
<1>8. used' + m <= b
  BY <1>1, <1>6, <1>7, BudgetAssumption
<1> QED BY <1>2, <1>3, <1>8 DEF BudgetInv

LEMMA TailIsShorter ==
  ASSUME NEW q \in Seq(Candidate), q # <<>> PROVE Len(Tail(q)) = Len(q) - 1 /\ Len(q) \in Nat
BY HeadTailProperties, LenProperties

LEMMA ExitBudgetInv ==
  ASSUME TypeInv, TypeInv', BudgetInv, NEW r \in Runs, Exit(r)
  PROVE  /\ used' = used => BudgetInv'
         /\ Claim(r)' = 0 /\ queue'[r] = <<>>
         /\ \A x \in Runs \ {r} : UNCHANGED <<pc[x], limit[x], queue[x]>>
<1>1. pc'[r] = "idle" /\ queue'[r] = <<>>
  BY DEF Exit, TypeInv, Typed
<1>2. \A x \in Runs \ {r} : UNCHANGED <<pc[x], limit[x], queue[x]>>
  BY DEF Exit, TypeInv, Typed
<1>3. Claim(r)' = 0
  BY <1>1 DEF Claim
<1>4. \A x \in Runs : Claim(x)' <= Claim(x)
  <2>1. \A x \in Runs : Claim(x) \in Nat
    BY ClaimNat
  <2>2. \A x \in Runs \ {r} : Claim(x)' = Claim(x)
    BY <1>2, SameClaim
  <2> QED BY <1>3, <2>1, <2>2
<1>5. \A x \in Runs : pc'[x] \in {"idle", "seeded"} => queue'[x] = <<>>
  BY <1>1, <1>2 DEF BudgetInv
<1> QED BY <1>1, <1>2, <1>3, <1>4, <1>5, ClaimsShrink

LEMMA SelectBudgetInv ==
  ASSUME TypeInv, TypeInv', BudgetInv, NEW r \in Runs, Select(r) PROVE BudgetInv'
<1>1. pc[r] = "admitted" /\ pc' = [pc EXCEPT ![r] = "loop"] /\ UNCHANGED <<used, limit>>
  BY DEF Select, Goto, tableVars
<1>2. \E n \in 0 .. limit[r] : \E f :
        DOMAIN f = 1 .. n /\ queue' = [queue EXCEPT ![r] = f]
  BY DEF Select
<1>3. PICK n \in 0 .. limit[r] : \E f : DOMAIN f = 1 .. n /\ queue' = [queue EXCEPT ![r] = f]
  BY <1>2
<1>4. PICK f : DOMAIN f = 1 .. n /\ queue' = [queue EXCEPT ![r] = f]
  BY <1>3
<1>5. pc'[r] = "loop" /\ queue'[r] = f
      /\ \A x \in Runs \ {r} : UNCHANGED <<pc[x], limit[x], queue[x]>>
  BY <1>1, <1>4 DEF TypeInv, Typed
<1>6. limit[r] \in Nat /\ n \in Nat /\ n <= limit[r]
  BY DEF TypeInv, Typed
<1>7. Len(f) = n
  <2>1. f \in Seq(Candidate)
    BY <1>5 DEF TypeInv, Typed
  <2>2. Len(f) \in Nat /\ DOMAIN f = 1 .. Len(f)
    BY <2>1, LenProperties
  <2> QED BY <1>4, <1>6, <2>2
<1>8. Claim(r)' <= Claim(r)
  BY <1>1, <1>5, <1>6, <1>7 DEF Claim
<1>9. \A x \in Runs : Claim(x)' <= Claim(x)
  <2>1. \A x \in Runs \ {r} : Claim(x)' = Claim(x) /\ Claim(x) \in Nat
    BY <1>5, SameClaim, ClaimNat
  <2> QED BY <1>8, <2>1
<1>10. \A x \in Runs : pc'[x] \in {"idle", "seeded"} => queue'[x] = <<>>
  BY <1>5 DEF BudgetInv
<1> QED BY <1>1, <1>9, <1>10, ClaimsShrink

LEMMA NextBudgetInv == TypeInv /\ BudgetInv /\ [Next]_vars => BudgetInv'
<1> SUFFICES ASSUME TypeInv, BudgetInv, [Next]_vars PROVE BudgetInv'
  OBVIOUS
<1>1. TypeInv'
  BY NextTypeInv
<1>2. ASSUME UNCHANGED <<limit, queue, used>>, NEW r \in Runs, NEW s, pc' = [pc EXCEPT ![r] = s],
             pc[r] # "admitted", s # "admitted",
             s \in {"idle", "seeded"} => pc[r] \in {"idle", "seeded"}
      PROVE  BudgetInv'
  <2>1. pc'[r] = s /\ \A x \in Runs \ {r} : pc'[x] = pc[x]
    BY <1>2 DEF TypeInv, Typed
  <2>2. \A x \in Runs : Claim(x)' = Claim(x)
    BY <1>2, <2>1 DEF Claim
  <2>3. \A x \in Runs : Claim(x) \in Nat
    BY ClaimNat
  <2>4. \A x \in Runs : pc'[x] \in {"idle", "seeded"} => queue'[x] = <<>>
    BY <1>2, <2>1 DEF BudgetInv
  <2> QED BY <1>1, <1>2, <2>2, <2>3, <2>4, ClaimsShrink
<1>3. ASSUME NEW r \in Runs, ReadBudget(r) PROVE BudgetInv'
  <2>1. CASE TickersRemaining <= 0
    BY <1>1, <1>3, <2>1, ExitBudgetInv DEF ReadBudget, tableVars
  <2>2. CASE ~ (TickersRemaining <= 0)
    <3>1. /\ limit' = [limit EXCEPT ![r] = TickersRemaining]
          /\ pc' = [pc EXCEPT ![r] = "admitted"] /\ UNCHANGED <<queue, used>>
      BY <1>3, <2>2 DEF ReadBudget, Goto, tableVars
    <3>2. pc'[r] = "admitted" /\ limit'[r] = TickersRemaining
          /\ \A x \in Runs \ {r} : UNCHANGED <<pc[x], limit[x], queue[x]>>
      BY <3>1 DEF TypeInv, Typed
    <3>3. TickersRemaining # 0
      BY <2>2
    <3> QED BY <1>1, <3>1, <3>2, <3>3, ClaimIsGranted
  <2> QED BY <2>1, <2>2
<1>4. ASSUME NEW r \in Runs, CaughtUp(r) PROVE BudgetInv'
  <2>1. pc[r] = "loop" /\ queue[r] # <<>> /\ queue' = [queue EXCEPT ![r] = Tail(@)]
        /\ UNCHANGED <<pc, limit, used>>
    BY <1>4 DEF CaughtUp, AtCandidate
  <2>2. queue'[r] = Tail(queue[r]) /\ \A x \in Runs \ {r} : UNCHANGED <<pc[x], limit[x], queue[x]>>
    BY <2>1 DEF TypeInv, Typed
  <2>3. Claim(r)' <= Claim(r)
    <3>1. queue[r] \in Seq(Candidate)
      BY DEF TypeInv, Typed
    <3>2. Len(Tail(queue[r])) <= Len(queue[r])
      BY <2>1, <3>1, TailIsShorter
    <3> QED BY <2>1, <2>2, <3>2 DEF Claim
  <2>4. \A x \in Runs : Claim(x)' <= Claim(x)
    <3>1. \A x \in Runs \ {r} : Claim(x)' = Claim(x) /\ Claim(x) \in Nat
      BY <2>2, SameClaim, ClaimNat
    <3> QED BY <2>3, <3>1
  <2>5. \A x \in Runs : pc'[x] \in {"idle", "seeded"} => queue'[x] = <<>>
    BY <2>1, <2>2 DEF BudgetInv
  <2> QED BY <1>1, <2>1, <2>4, <2>5, ClaimsShrink
<1>5. ASSUME NEW r \in Runs, Charge(r) PROVE BudgetInv'
  <2>1. pc[r] \in {"charge_ok", "charge_fail"} /\ used' = used + 1
        /\ (\/ Exit(r)
            \/ /\ pc' = [pc EXCEPT ![r] = "loop"] /\ queue' = [queue EXCEPT ![r] = Tail(@)]
               /\ limit' = limit)
    BY <1>5 DEF Charge, ChargeSuccess, ChargeFailure, Goto
  <2>2. queue[r] # <<>> /\ queue[r] \in Seq(Candidate)
    BY <2>1 DEF TypeInv, Typed, AtACandidate
  <2>3. Len(Tail(queue[r])) = Len(queue[r]) - 1 /\ Len(queue[r]) \in Nat
        /\ Len(Tail(queue[r])) \in Nat
    BY <2>2, TailIsShorter, HeadTailProperties, LenProperties
  <2>4. Claim(r) = Len(queue[r])
    BY <2>1 DEF Claim
  <2>5. CASE Exit(r)
    <3>1. Claim(r)' = 0 /\ queue'[r] = <<>>
          /\ \A x \in Runs \ {r} : UNCHANGED <<pc[x], limit[x], queue[x]>>
      BY <1>1, <2>5, ExitBudgetInv
    <3>2. 0 < Claim(r)
      BY <2>3, <2>4
    <3> QED BY <1>1, <2>1, <3>1, <3>2, ClaimPays
  <2>6. CASE /\ pc' = [pc EXCEPT ![r] = "loop"] /\ queue' = [queue EXCEPT ![r] = Tail(@)]
             /\ limit' = limit
    <3>1. pc'[r] = "loop" /\ queue'[r] = Tail(queue[r])
          /\ \A x \in Runs \ {r} : UNCHANGED <<pc[x], limit[x], queue[x]>>
      BY <2>6 DEF TypeInv, Typed
    <3>2. Claim(r)' < Claim(r)
      BY <2>3, <2>4, <3>1 DEF Claim
    <3> QED BY <1>1, <2>1, <3>1, <3>2, ClaimPays
  <2> QED BY <2>1, <2>5, <2>6
<1>6. CASE NextDay
  <2>1. used' = 0 /\ UNCHANGED <<pc, limit, queue>>
    BY <1>6 DEF NextDay
  <2>2. Claims' = Claims /\ \A r \in Runs : Claim(r)' = Claim(r)
    BY <2>1 DEF Claims, Claim
  <2>3. 0 + Cardinality(Claims) <= Cardinality(Runs) * DailyBudget
    BY ClaimsFinite
  <2> QED BY <2>1, <2>2, <2>3 DEF BudgetInv
<1>7. ASSUME UNCHANGED <<pc, limit, queue, used>> PROVE BudgetInv'
  BY <1>7 DEF BudgetInv, Claims, Claim
<1>8. ASSUME NEW r \in Runs, AllUnavailable(r) \/ Finish(r) \/ Die(r) PROVE BudgetInv'
  BY <1>1, <1>8, ExitBudgetInv DEF AllUnavailable, Finish, Die, tableVars
<1>9. ASSUME NEW r \in Runs, Seed(r) \/ FetchSucceeds(r) \/ FetchFails(r) \/ Mark(r)
      PROVE  BudgetInv'
  <2>1. UNCHANGED <<limit, queue, used>> /\ pc[r] # "admitted"
        /\ \/ pc' = [pc EXCEPT ![r] = "seeded"] /\ pc[r] = "idle"
           \/ pc' = [pc EXCEPT ![r] = "answered"]
           \/ pc' = [pc EXCEPT ![r] = "refused"]
           \/ pc' = [pc EXCEPT ![r] = "charge_ok"]
           \/ pc' = [pc EXCEPT ![r] = "charge_fail"]
    BY <1>9 DEF Seed, FetchSucceeds, FetchFails, Ask, AtCandidate, Mark, MarkSuccess, MarkFailure,
       Goto, tableVars
  <2> QED BY <1>2, <2>1
<1>10. ASSUME UNCHANGED vars \/ (\E t \in GuiTickers : Prioritize(t) \/ ForceRefresh(t))
                \/ \E t \in ChurnTickers : Churn(t)
       PROVE  BudgetInv'
  BY <1>10, <1>7 DEF Prioritize, ForceRefresh, Churn, vars, tableVars, runVars
<1> QED
  BY <1>1, <1>3, <1>4, <1>5, <1>6, <1>8, <1>9, <1>10, SelectBudgetInv DEF Next, Take

(* However many runs overlap, start late or work past midnight, a day is   *)
(* never charged more than one budget for each process of the job.         *)
THEOREM OverspendIsBoundedTheorem == Spec => []OverspendIsBounded
<1>1. Init => BudgetInv
  <2> SUFFICES ASSUME Init PROVE BudgetInv
    OBVIOUS
  <2>1. \A r \in Runs : Claim(r) = 0 /\ queue[r] = <<>>
    BY DEF Init, Claim
  <2>2. used + Cardinality(Claims) <= Cardinality(Runs) * DailyBudget
    BY ClaimsFinite DEF Init
  <2> QED BY <2>1, <2>2, BudgetAssumption DEF BudgetInv
<1>2. TypeInv /\ BudgetInv => OverspendIsBounded
  <2> SUFFICES ASSUME TypeInv, BudgetInv PROVE OverspendIsBounded
    OBVIOUS
  <2> PICK n, b : n = Cardinality(Claims) /\ b = Cardinality(Runs) * DailyBudget
    OBVIOUS
  <2>1. used + n <= b /\ n \in Nat /\ used \in Nat
    BY ClaimsFinite DEF BudgetInv, TypeInv, Typed
  <2>2. b \in Nat
    <3>1. Cardinality(Runs) \in Nat
      BY RunsAssumption, FS_CardinalityType
    <3> QED BY <3>1, BudgetAssumption
  <2>3. used <= b
    BY <2>1, <2>2
  <2> QED BY <2>3 DEF OverspendIsBounded
<1> QED BY InitTypeInv, NextTypeInv, NextBudgetInv, <1>1, <1>2, PTL DEF Spec
=============================================================================
