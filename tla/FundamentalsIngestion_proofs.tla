--------------------- MODULE FundamentalsIngestion_proofs ---------------------
(***************************************************************************)
(* Type correctness, SpendsWithinBudget and EveryRowComesBack of module    *)
(* FundamentalsIngestion, for any tickers, limits and budget.              *)
(*                                                                         *)
(* The inductive invariant adds two facts. Budgeted: what the run may      *)
(* still spend is counted in (its limit before the candidates are known,   *)
(* its queue after), so that the charge of one candidate only moves a call *)
(* from one term to the other. Recoverable: every row has what one clause  *)
(* of the candidate query will need of it: a pending row a retry left, a   *)
(* complete row a fetch date, a failed row an attempt for its cooldown.    *)
(***************************************************************************)
EXTENDS FundamentalsIngestion, TLAPS

Recoverable(r) ==
  \/ r.status = "pending" /\ r.retry < MaxRetryCount
  \/ r.status = "complete" /\ r.fetched # Null
  \/ r.status = "failed" /\ r.attempt # Null

Outstanding == IF pc = "admitted" THEN limit ELSE Len(queue)
Budgeted ==
  /\ used + CallsPerTicker * Outstanding <= DailyBudget
  /\ pc \in {"idle", "admitted"} => queue = <<>>

RowsRecoverable == \A t \in DOMAIN rows : Recoverable(rows[t])

IInv == TypeOK /\ Budgeted /\ RowsRecoverable
-----------------------------------------------------------------------------
(* A quotient of what is left, in whole tickers, costs no more than that.  *)
LEMMA QuotientFits ==
  ASSUME NEW n \in Nat, NEW c \in Nat \ {0}
  PROVE  n \div c \in Nat /\ c * (n \div c) <= n
<1>1. n \div c \in Int /\ c * (n \div c) <= n
  BY SMT
<1>2. n \div c >= 0
  BY SMT
<1> QED  BY <1>1, <1>2

(* remaining_ticker_budget never promises more than the budget has left.   *)
LEMMA RemainingFits ==
  ASSUME used \in Nat, used <= DailyBudget
  PROVE  TickersRemaining \in Nat /\ used + CallsPerTicker * TickersRemaining <= DailyBudget
<1> USE LimitsAssumption
<1>1. CASE used >= DailyBudget
  BY <1>1 DEF TickersRemaining
<1>2. CASE ~ used >= DailyBudget
  <2> PICK n \in Nat : n = DailyBudget - used  BY <1>2
  <2>1. n \div CallsPerTicker \in Nat /\ CallsPerTicker * (n \div CallsPerTicker) <= n
    BY QuotientFits
  <2>2. TickersRemaining = n \div CallsPerTicker
    BY <1>2 DEF TickersRemaining
  <2> PICK k \in Nat : k = n \div CallsPerTicker  BY <2>1
  <2>3. CallsPerTicker * k \in Nat /\ CallsPerTicker * k <= n
    BY <2>1
  <2> QED  BY <2>2, <2>3
<1> QED  BY <1>1, <1>2

(* A call charged is a candidate less to charge.                           *)
LEMMA OneCharged ==
  ASSUME NEW c \in Nat, NEW k \in Nat \ {0}
  PROVE  c + c * (k - 1) = c * k
BY SMT

(* More candidates cost more.                                              *)
LEMMA CostIsMonotone ==
  ASSUME NEW c \in Nat, NEW k \in Nat, NEW n \in Nat, k <= n
  PROVE  c * k <= c * n /\ c * k \in Nat /\ c * n \in Nat
BY SMT

(* get_candidates returns at most its LIMIT, all of them tickers asked for.*)
LEMMA PagesFit ==
  ASSUME NEW n \in Nat, NEW S, NEW q \in Pages(n, S)
  PROVE  \E k \in 0 .. n : q \in [1 .. k -> S]
BY DEF Pages

(* What mark_failure leaves is recoverable, if the retry count it was      *)
(* given is one of a row.                                                  *)
LEMMA FailedIsRecoverable ==
  ASSUME NEW r \in Row, NEW n \in 0 .. MaxRetryCount
  PROVE  Failed(r, n) \in Row /\ Recoverable(Failed(r, n))
<1> USE LimitsAssumption
<1> PICK m \in 0 .. MaxRetryCount : m = IF n < MaxRetryCount THEN n + 1 ELSE n
  OBVIOUS
<1>1. Failed(r, n) = [r EXCEPT !.retry = m, !.attempt = 0,
                               !.status = IF m >= MaxRetryCount THEN "failed" ELSE "pending"]
  BY DEF Failed
<1>2. 0 \in {Null} \cup 0 .. Cooled /\ 0 # Null
  BY DEF Null, Cooled
<1>3. CASE m >= MaxRetryCount
  <2>1. Failed(r, n) = [r EXCEPT !.retry = m, !.attempt = 0, !.status = "failed"]
    BY <1>1, <1>3
  <2> QED  BY <2>1, <1>2 DEF Row, Recoverable, Statuses
<1>4. CASE ~ m >= MaxRetryCount
  <2>1. Failed(r, n) = [r EXCEPT !.retry = m, !.attempt = 0, !.status = "pending"]
    BY <1>1, <1>4
  <2>2. m < MaxRetryCount
    BY <1>4
  <2> QED  BY <2>1, <2>2, <1>2 DEF Row, Recoverable, Statuses
<1> QED  BY <1>3, <1>4

(* A row is replaced by a recoverable row.                                 *)
LEMMA RowReplaced ==
  ASSUME TypeOK, RowsRecoverable, NEW t \in DOMAIN rows, NEW r \in Row, Recoverable(r),
         rows' = [rows EXCEPT ![t] = r]
  PROVE  /\ \E S \in SUBSET Tickers : rows' \in [S -> Row]
         /\ DOMAIN rows' = DOMAIN rows
         /\ \A u \in DOMAIN rows' : Recoverable(rows'[u])
<1> PICK S \in SUBSET Tickers : rows \in [S -> Row]  BY DEF TypeOK
<1>1. rows' \in [S -> Row] /\ DOMAIN rows' = S /\ DOMAIN rows = S
  OBVIOUS
<1>2. \A u \in S : rows'[u] = IF u = t THEN r ELSE rows[u]
  OBVIOUS
<1> QED  BY <1>1, <1>2 DEF RowsRecoverable

LEMMA RowsTyped ==
  ASSUME TypeOK, NEW t \in DOMAIN rows
  PROVE  rows[t] \in Row /\ t \in Tickers
BY DEF TypeOK

(* Between two transactions the run has a candidate, and rows of all.      *)
LEMMA CandidateTyped ==
  ASSUME TypeOK, pc \in {"loop", "stored", "refused", "charge"}, queue # <<>>
  PROVE  /\ Current.ticker \in DOMAIN rows /\ Current.ticker \in Tickers
         /\ Current.retry \in 0 .. MaxRetryCount
         /\ Tail(queue) \in Seq(Candidate) /\ Len(queue) \in Nat \ {0}
         /\ Len(Tail(queue)) = Len(queue) - 1
<1>1. queue \in Seq(Candidate) /\ DOMAIN rows = Tickers
  BY DEF TypeOK
<1>2. Current \in Candidate
  BY <1>1 DEF Current
<1>3. Current.ticker \in Tickers /\ Current.retry \in 0 .. MaxRetryCount
  BY <1>2 DEF Candidate
<1>4. Tail(queue) \in Seq(Candidate) /\ Len(queue) \in Nat \ {0}
      /\ Len(Tail(queue)) = Len(queue) - 1
  BY <1>1
<1> QED  BY <1>1, <1>3, <1>4

(* What is outstanding is a number, and so is its cost.                    *)
LEMMA OutstandingTyped ==
  ASSUME TypeOK
  PROVE  Outstanding \in Nat /\ CallsPerTicker * Outstanding \in Nat
<1>1. Outstanding \in Nat
  BY DEF TypeOK, Outstanding
<1> QED  BY <1>1, CostIsMonotone, LimitsAssumption
-----------------------------------------------------------------------------
LEMMA InitIInv == Init => IInv
<1> SUFFICES ASSUME Init PROVE IInv  OBVIOUS
<1> USE LimitsAssumption
<1>1. rows \in [{} -> Row] /\ DOMAIN rows = {}
  BY DEF Init
<1>2. TypeOK
  BY <1>1, TickersAssumption DEF Init, TypeOK, Stores, Steps
<1>3. Outstanding = 0
  BY DEF Init, Outstanding
<1>4. Budgeted
  BY <1>3 DEF Init, Budgeted
<1> QED  BY <1>1, <1>2, <1>4 DEF IInv, RowsRecoverable

(* A step that leaves the rows, the queue and the budget alone, or only    *)
(* gives outstanding calls up, needs its types alone.                      *)
LEMMA Released ==
  ASSUME IInv, used' = used, queue' = <<>>, pc' = "idle"
  PROVE  Budgeted'
<1>1. Len(<<>>) = 0
  OBVIOUS
<1>2. Outstanding' = 0
  BY <1>1 DEF Outstanding
<1>3. used + CallsPerTicker * Outstanding <= DailyBudget /\ used \in Nat
  BY DEF IInv, Budgeted, TypeOK
<1>4. CallsPerTicker * Outstanding \in Nat /\ CallsPerTicker * 0 = 0
  BY OutstandingTyped, LimitsAssumption DEF IInv
<1>5. used <= DailyBudget
  BY <1>3, <1>4, LimitsAssumption
<1> QED  BY <1>2, <1>4, <1>5, <1>3 DEF Budgeted

(* The calls under way are those of a candidate still to charge.           *)
LEMMA WithinBudget ==
  ASSUME IInv
  PROVE  SpendsWithinBudget /\ used \in Nat /\ used <= DailyBudget
<1>1. used + CallsPerTicker * Outstanding <= DailyBudget /\ used \in Nat
  BY DEF IInv, Budgeted, TypeOK
<1> PICK cost \in Nat : cost = CallsPerTicker * Outstanding
  BY OutstandingTyped DEF IInv
<1>2. used <= DailyBudget
  BY <1>1, LimitsAssumption
<1> PICK calls \in Nat : calls = CallsUnderWay
  BY LimitsAssumption DEF CallsUnderWay
<1>3. calls <= cost
  <2>1. CASE pc \in {"stored", "refused", "charge"}
    <3>1. Outstanding = Len(queue) /\ Len(queue) \in Nat \ {0}
      BY <2>1, CandidateTyped DEF Outstanding, IInv, TypeOK
    <3> PICK k \in Nat \ {0} : k = Outstanding  BY <3>1
    <3>2. CallsPerTicker * 1 <= CallsPerTicker * k
      BY CostIsMonotone, LimitsAssumption
    <3>3. CallsPerTicker * 1 = CallsPerTicker /\ calls = CallsPerTicker
      BY <2>1, LimitsAssumption DEF CallsUnderWay
    <3> QED  BY <3>2, <3>3
  <2>2. CASE pc \notin {"stored", "refused", "charge"}
    BY <2>2 DEF CallsUnderWay
  <2> QED  BY <2>1, <2>2
<1>4. used + calls <= DailyBudget
  BY <1>1, <1>3, LimitsAssumption
<1> QED  BY <1>1, <1>2, <1>4 DEF SpendsWithinBudget

(* Nothing the invariant speaks of but the outstanding calls stays put.    *)
LEMMA RowsKept ==
  ASSUME IInv, rows' = rows
  PROVE  RowsRecoverable' /\ (\E S \in SUBSET Tickers : rows' \in [S -> Row])
         /\ DOMAIN rows' = DOMAIN rows
BY DEF IInv, RowsRecoverable, TypeOK

LEMMA Touched ==
  ASSUME IInv, NEW t \in Tickers, Touch(t)
  PROVE  earlier' \subseteq Tickers \X Tickers
BY DEF IInv, TypeOK, Touch

LEMMA StartStep ==
  ASSUME IInv, NEW agent \in BOOLEAN, Start(agent)
  PROVE  IInv'
<1> USE DEF Start
<1>1. NewRow \in Row /\ Recoverable(NewRow)
  BY LimitsAssumption DEF NewRow, Row, Recoverable, Statuses
<1>2. DOMAIN rows' = Tickers
  OBVIOUS
<1>3. \A t \in Tickers : rows'[t] = IF t \in DOMAIN rows THEN rows[t] ELSE NewRow
  OBVIOUS
<1>4. \A t \in Tickers : rows'[t] \in Row /\ Recoverable(rows'[t])
  BY <1>1, <1>3, RowsTyped DEF IInv, RowsRecoverable
<1>5. rows' \in [Tickers -> Row]
  BY <1>4
<1>6. RowsRecoverable'
  BY <1>2, <1>4 DEF RowsRecoverable
<1>7. TickersRemaining \in Nat /\ used + CallsPerTicker * TickersRemaining <= DailyBudget
  BY RemainingFits, WithinBudget
<1>8. TypeOK'
  BY <1>2, <1>5, <1>7 DEF IInv, TypeOK, dataVars, Steps
<1>9. Budgeted'
  <2>1. CASE TickersRemaining > 0 /\ agent
    <3>1. Outstanding' = TickersRemaining /\ used' = used /\ queue' = queue
      BY <2>1 DEF Outstanding
    <3>2. queue = <<>>
      BY DEF IInv, Budgeted
    <3> QED  BY <3>1, <3>2, <1>7 DEF Budgeted
  <2>2. CASE ~ (TickersRemaining > 0 /\ agent)
    BY <2>2 DEF IInv, Budgeted, Outstanding
  <2> QED  BY <2>1, <2>2
<1> QED  BY <1>6, <1>8, <1>9 DEF IInv

LEMMA SelectStep ==
  ASSUME IInv, Select
  PROVE  IInv'
<1> PICK S \in SUBSET Tickers : \E q \in Pages(limit, S) :
      queue' = [i \in DOMAIN q |->
         [ticker |-> q[i], retry |-> rows[q[i]].retry, cik |-> q[i] \in cik]]
  <2>1. \A ended \in SUBSET {t \in Tickers : CoolingEndsToday(rows[t])} :
          {t \in Tickers : EligibleIn(rows[t], 0)} \cup ended \in SUBSET Tickers
    OBVIOUS
  <2> QED  BY <2>1 DEF Select
<1> PICK q \in Pages(limit, S) :
      queue' = [i \in DOMAIN q |->
         [ticker |-> q[i], retry |-> rows[q[i]].retry, cik |-> q[i] \in cik]]
  OBVIOUS
<1>1. limit \in Nat /\ DOMAIN rows = Tickers
  BY DEF IInv, TypeOK, Select
<1> PICK k \in 0 .. limit : q \in [1 .. k -> S]
  BY <1>1, PagesFit
<1>2. \A i \in 1 .. k : q[i] \in Tickers /\ rows[q[i]].retry \in 0 .. MaxRetryCount
  BY <1>1, RowsTyped DEF IInv, Row
<1>3. queue' \in [1 .. k -> Candidate]
  BY <1>2 DEF Candidate
<1>4. queue' \in Seq(Candidate) /\ Len(queue') = k /\ k \in Nat
  BY <1>1, <1>3
<1>5. RowsRecoverable' /\ (\E T \in SUBSET Tickers : rows' \in [T -> Row])
      /\ DOMAIN rows' = Tickers
  BY <1>1, RowsKept DEF Select
<1>6. TypeOK'
  BY <1>4, <1>5 DEF IInv, TypeOK, Select, dataVars, Steps
<1>7. Outstanding = limit /\ Outstanding' = k
  BY <1>4 DEF Outstanding, Select
<1>8. CallsPerTicker * k <= CallsPerTicker * limit
      /\ CallsPerTicker * k \in Nat /\ CallsPerTicker * limit \in Nat
  BY <1>1, CostIsMonotone, LimitsAssumption
<1>9. used + CallsPerTicker * limit <= DailyBudget /\ used \in Nat
  BY <1>7 DEF IInv, Budgeted, TypeOK
<1>10. used + CallsPerTicker * k <= DailyBudget
  BY <1>8, <1>9, LimitsAssumption
<1>11. Budgeted'
  BY <1>7, <1>10 DEF Budgeted, Select
<1> QED  BY <1>5, <1>6, <1>11 DEF IInv

(* A candidate fails: without a CIK, or because EDGAR refused.             *)
LEMMA FailedRows ==
  ASSUME IInv, pc \in {"loop", "refused"}, queue # <<>>,
         rows' = [rows EXCEPT ![Current.ticker] = Failed(@, Current.retry)],
         Touch(Current.ticker)
  PROVE  /\ \E S \in SUBSET Tickers : rows' \in [S -> Row]
         /\ DOMAIN rows' = DOMAIN rows
         /\ RowsRecoverable'
         /\ earlier' \subseteq Tickers \X Tickers
<1>1. /\ Current.ticker \in DOMAIN rows /\ Current.ticker \in Tickers
      /\ Current.retry \in 0 .. MaxRetryCount
  BY CandidateTyped DEF IInv
<1> PICK t \in DOMAIN rows : t = Current.ticker  BY <1>1
<1>2. rows[t] \in Row
  BY RowsTyped DEF IInv
<1> PICK r \in Row : r = Failed(rows[t], Current.retry) /\ Recoverable(r)
  BY <1>1, <1>2, FailedIsRecoverable
<1>3. rows' = [rows EXCEPT ![t] = r]
  OBVIOUS
<1>4. /\ \E S \in SUBSET Tickers : rows' \in [S -> Row]
      /\ DOMAIN rows' = DOMAIN rows
      /\ \A u \in DOMAIN rows' : Recoverable(rows'[u])
  BY <1>3, RowReplaced DEF IInv
<1>5. earlier' \subseteq Tickers \X Tickers
  BY <1>1, Touched
<1> QED  BY <1>4, <1>5 DEF RowsRecoverable

LEMMA NoCikStep ==
  ASSUME IInv, NoCik
  PROVE  IInv'
<1>1. pc = "loop" /\ queue # <<>>
  BY DEF NoCik, AtCandidate
<1>2. /\ \E S \in SUBSET Tickers : rows' \in [S -> Row]
      /\ DOMAIN rows' = DOMAIN rows
      /\ RowsRecoverable'
      /\ earlier' \subseteq Tickers \X Tickers
  BY <1>1, FailedRows DEF NoCik
<1>3. /\ Tail(queue) \in Seq(Candidate) /\ Len(queue) \in Nat \ {0}
      /\ Len(Tail(queue)) = Len(queue) - 1
  BY <1>1, CandidateTyped DEF IInv
<1>4. TypeOK'
  BY <1>1, <1>2, <1>3 DEF IInv, TypeOK, NoCik, dataVars
<1>5. Outstanding = Len(queue) /\ Outstanding' = Len(queue) - 1 /\ used' = used
  BY <1>1, <1>3 DEF Outstanding, NoCik
<1>6. CallsPerTicker * (Len(queue) - 1) <= CallsPerTicker * Len(queue)
      /\ CallsPerTicker * (Len(queue) - 1) \in Nat /\ CallsPerTicker * Len(queue) \in Nat
  BY <1>3, CostIsMonotone, LimitsAssumption
<1>7. used + CallsPerTicker * Len(queue) <= DailyBudget /\ used \in Nat
  BY <1>5 DEF IInv, Budgeted, TypeOK
<1>8. used + CallsPerTicker * (Len(queue) - 1) <= DailyBudget
  BY <1>6, <1>7, LimitsAssumption
<1>9. Budgeted'
  BY <1>1, <1>5, <1>8 DEF Budgeted, NoCik
<1> QED  BY <1>2, <1>4, <1>9 DEF IInv

LEMMA FetchStep ==
  ASSUME IInv, NEW t \in Tickers, NEW panel \in Stores, Fetch(t, panel)
  PROVE  IInv'
<1>1. RowsRecoverable' /\ (\E S \in SUBSET Tickers : rows' \in [S -> Row])
      /\ DOMAIN rows' = DOMAIN rows
  BY RowsKept DEF Fetch
<1>2. stored' \in [Tickers -> Stores]
  BY DEF IInv, TypeOK, Fetch
<1>3. TypeOK'
  BY <1>1, <1>2 DEF IInv, TypeOK, Fetch, AtCandidate, Steps
<1>4. Budgeted'
  BY DEF IInv, Budgeted, Outstanding, Fetch, AtCandidate
<1> QED  BY <1>1, <1>3, <1>4 DEF IInv

LEMMA RefuseStep ==
  ASSUME IInv, Refuse
  PROVE  IInv'
<1>1. RowsRecoverable' /\ (\E S \in SUBSET Tickers : rows' \in [S -> Row])
      /\ DOMAIN rows' = DOMAIN rows
  BY RowsKept DEF Refuse
<1>2. TypeOK'
  BY <1>1 DEF IInv, TypeOK, Refuse, AtCandidate, Steps, dataVars
<1>3. Budgeted'
  BY DEF IInv, Budgeted, Outstanding, Refuse, AtCandidate
<1> QED  BY <1>1, <1>2, <1>3 DEF IInv

LEMMA MarkSuccessStep ==
  ASSUME IInv, MarkSuccess
  PROVE  IInv'
<1>1. pc = "stored" /\ queue # <<>>
  BY DEF IInv, TypeOK, MarkSuccess
<1>2. Current.ticker \in DOMAIN rows /\ Current.ticker \in Tickers
  BY <1>1, CandidateTyped DEF IInv
<1> PICK t \in DOMAIN rows : t = Current.ticker  BY <1>2
<1>3. rows[t] \in Row /\ runAge \in {0, 1}
  BY RowsTyped DEF IInv, TypeOK
<1> PICK r : r = [rows[t] EXCEPT !.status = "complete", !.retry = 0, !.attempt = 0,
                                 !.fetched = runAge]
  OBVIOUS
<1>4. 0 \in 0 .. MaxRetryCount /\ 0 \in {Null} \cup 0 .. Cooled
      /\ runAge \in {Null} \cup 0 .. Stale /\ runAge # Null
  BY <1>3, LimitsAssumption DEF Null, Cooled, Stale
<1>5. r \in Row
  BY <1>3, <1>4 DEF Row, Statuses
<1>6. Recoverable(r)
  BY <1>3, <1>4 DEF Row, Recoverable
<1>7. rows' = [rows EXCEPT ![t] = r]
  BY DEF MarkSuccess
<1>8. /\ \E S \in SUBSET Tickers : rows' \in [S -> Row]
      /\ DOMAIN rows' = DOMAIN rows
      /\ \A u \in DOMAIN rows' : Recoverable(rows'[u])
  BY <1>5, <1>6, <1>7, RowReplaced DEF IInv
<1>9. earlier' \subseteq Tickers \X Tickers
  BY <1>2, Touched DEF MarkSuccess
<1>10. TypeOK'
  BY <1>1, <1>8, <1>9 DEF IInv, TypeOK, MarkSuccess, dataVars, Steps
<1>11. Budgeted'
  BY DEF IInv, Budgeted, Outstanding, MarkSuccess
<1> QED  BY <1>8, <1>10, <1>11 DEF IInv, RowsRecoverable

LEMMA MarkFailureStep ==
  ASSUME IInv, MarkFailure
  PROVE  IInv'
<1>1. pc = "refused" /\ queue # <<>>
  BY DEF IInv, TypeOK, MarkFailure
<1>2. /\ \E S \in SUBSET Tickers : rows' \in [S -> Row]
      /\ DOMAIN rows' = DOMAIN rows
      /\ RowsRecoverable'
      /\ earlier' \subseteq Tickers \X Tickers
  BY <1>1, FailedRows DEF MarkFailure
<1>3. TypeOK'
  BY <1>1, <1>2 DEF IInv, TypeOK, MarkFailure, dataVars, Steps
<1>4. Budgeted'
  BY DEF IInv, Budgeted, Outstanding, MarkFailure
<1> QED  BY <1>2, <1>3, <1>4 DEF IInv

LEMMA ChargeStep ==
  ASSUME IInv, Charge
  PROVE  IInv'
<1>1. pc = "charge" /\ queue # <<>>
  BY DEF IInv, TypeOK, Charge
<1>2. RowsRecoverable' /\ (\E S \in SUBSET Tickers : rows' \in [S -> Row])
      /\ DOMAIN rows' = DOMAIN rows
  BY RowsKept DEF Charge
<1>3. /\ Tail(queue) \in Seq(Candidate) /\ Len(queue) \in Nat \ {0}
      /\ Len(Tail(queue)) = Len(queue) - 1
  BY <1>1, CandidateTyped DEF IInv
<1> PICK k \in Nat \ {0} : k = Len(queue)  BY <1>3
<1>4. used + CallsPerTicker * k <= DailyBudget /\ used \in Nat
  BY <1>1 DEF IInv, Budgeted, Outstanding, TypeOK
<1>5. CallsPerTicker + CallsPerTicker * (k - 1) = CallsPerTicker * k
      /\ CallsPerTicker * (k - 1) \in Nat
  BY OneCharged, CostIsMonotone, LimitsAssumption
<1>6. used' = used + CallsPerTicker
  BY DEF Charge
<1>7. used' + CallsPerTicker * (k - 1) <= DailyBudget /\ used' \in Nat
  BY <1>4, <1>5, <1>6, LimitsAssumption
<1>8. CASE streak >= MaxConsecutiveFailures
  <2>1. pc' = "idle" /\ queue' = <<>> /\ limit' = 0 /\ streak' = 0 /\ runAge' = 0 /\ lost' = 0
    BY <1>8 DEF Charge, Exit
  <2>2. TypeOK'
    BY <2>1, <1>2, <1>7, LimitsAssumption DEF IInv, TypeOK, Charge, dataVars, Steps
  <2>3. Outstanding' = 0 /\ CallsPerTicker * 0 = 0
    BY <2>1, LimitsAssumption DEF Outstanding
  <2> PICK cost \in Nat : cost = CallsPerTicker * (k - 1)  BY <1>5
  <2>4. used' + cost <= DailyBudget
    BY <1>7
  <2>5. used' <= DailyBudget
    BY <2>4, <1>7, LimitsAssumption
  <2>6. used' + CallsPerTicker * 0 = used'
    BY <2>3, <1>7
  <2>7. used' + CallsPerTicker * Outstanding' <= DailyBudget
    BY <2>3, <2>5, <2>6
  <2>8. Budgeted'
    BY <2>1, <2>7 DEF Budgeted
  <2> QED  BY <2>2, <2>8, <1>2 DEF IInv
<1>9. CASE ~ streak >= MaxConsecutiveFailures
  <2>1. pc' = "loop" /\ queue' = Tail(queue) /\ UNCHANGED <<limit, streak, runAge, lost>>
    BY <1>9 DEF Charge
  <2>2. TypeOK'
    BY <2>1, <1>1, <1>2, <1>3, <1>7 DEF IInv, TypeOK, Charge, dataVars, Steps
  <2>3. Outstanding' = k - 1
    BY <2>1, <1>3 DEF Outstanding
  <2>4. Budgeted'
    BY <2>1, <2>3, <1>7 DEF Budgeted
  <2> QED  BY <2>2, <2>4, <1>2 DEF IInv
<1> QED  BY <1>8, <1>9

(* The run ends, or is killed: the calls it had outstanding are not spent. *)
LEMMA LeaveStep ==
  ASSUME IInv, Finish \/ Die
  PROVE  IInv'
<1>1. /\ pc' = "idle" /\ queue' = <<>> /\ limit' = 0 /\ streak' = 0 /\ runAge' = 0
      /\ UNCHANGED <<rows, earlier, dataVars, used>>
  BY DEF Finish, Die, Exit
<1>2. lost' \in 0 .. MaxLost
  BY LimitsAssumption DEF IInv, TypeOK, Finish, Die
<1>3. RowsRecoverable' /\ (\E S \in SUBSET Tickers : rows' \in [S -> Row])
  BY <1>1, RowsKept
<1>4. TypeOK'
  BY <1>1, <1>2, <1>3 DEF IInv, TypeOK, dataVars, Steps
<1>5. Budgeted'
  BY <1>1, Released
<1> QED  BY <1>3, <1>4, <1>5 DEF IInv

LEMMA ForceRefreshStep ==
  ASSUME IInv, NEW t \in GuiTickers, ForceRefresh(t)
  PROVE  IInv'
<1>1. t \in DOMAIN rows /\ rows[t] \in Row
  BY RowsTyped DEF IInv, ForceRefresh
<1> PICK r : r = [rows[t] EXCEPT !.status = "pending", !.retry = 0, !.urgent = TRUE]
  OBVIOUS
<1>2. 0 \in 0 .. MaxRetryCount /\ 0 < MaxRetryCount
  BY LimitsAssumption
<1>3. r \in Row
  BY <1>1, <1>2 DEF Row, Statuses
<1>4. Recoverable(r)
  BY <1>1, <1>2 DEF Row, Recoverable
<1>5. rows' = [rows EXCEPT ![t] = r]
  BY DEF ForceRefresh
<1>6. /\ \E S \in SUBSET Tickers : rows' \in [S -> Row]
      /\ DOMAIN rows' = DOMAIN rows
      /\ \A u \in DOMAIN rows' : Recoverable(rows'[u])
  BY <1>1, <1>3, <1>4, <1>5, RowReplaced DEF IInv
<1>7. TypeOK'
  BY <1>6 DEF IInv, TypeOK, ForceRefresh, dataVars, runVars
<1>8. Budgeted'
  BY DEF IInv, Budgeted, Outstanding, ForceRefresh, runVars
<1> QED  BY <1>6, <1>7, <1>8 DEF IInv, RowsRecoverable

LEMMA PrioritizeStep ==
  ASSUME IInv, NEW t \in GuiTickers, Prioritize(t)
  PROVE  IInv'
<1>1. t \in DOMAIN rows /\ rows[t] \in Row
  BY RowsTyped DEF IInv, Prioritize
<1> PICK r : r = [rows[t] EXCEPT !.urgent = TRUE]
  OBVIOUS
<1>2. r \in Row /\ r.status = rows[t].status /\ r.retry = rows[t].retry
      /\ r.fetched = rows[t].fetched /\ r.attempt = rows[t].attempt
  BY <1>1 DEF Row
<1>3. Recoverable(r)
  BY <1>1, <1>2 DEF IInv, RowsRecoverable, Recoverable
<1>4. rows' = [rows EXCEPT ![t] = r]
  BY DEF Prioritize
<1>5. /\ \E S \in SUBSET Tickers : rows' \in [S -> Row]
      /\ DOMAIN rows' = DOMAIN rows
      /\ \A u \in DOMAIN rows' : Recoverable(rows'[u])
  BY <1>1, <1>2, <1>3, <1>4, RowReplaced DEF IInv
<1>6. TypeOK'
  BY <1>5 DEF IInv, TypeOK, Prioritize, dataVars, runVars
<1>7. Budgeted'
  BY DEF IInv, Budgeted, Outstanding, Prioritize, runVars
<1> QED  BY <1>5, <1>6, <1>7 DEF IInv, RowsRecoverable

LEMMA ArrivalStep ==
  ASSUME IInv, NEW t \in LateTickers, CikArrives(t) \/ PricesArrive(t)
  PROVE  IInv'
<1> USE DEF CikArrives, PricesArrive, runVars
<1>1. RowsRecoverable' /\ (\E S \in SUBSET Tickers : rows' \in [S -> Row])
      /\ DOMAIN rows' = DOMAIN rows
  BY RowsKept
<1>2. cik' \subseteq Tickers /\ priced' \subseteq Tickers
  BY TickersAssumption DEF IInv, TypeOK
<1>3. TypeOK'
  BY <1>1, <1>2 DEF IInv, TypeOK
<1>4. Budgeted'
  BY DEF IInv, Budgeted, Outstanding
<1> QED  BY <1>1, <1>3, <1>4 DEF IInv

(* A day later an age is still one, and no age comes from nowhere.         *)
LEMMA OlderTyped ==
  ASSUME NEW m \in Nat, NEW a \in {Null} \cup 0 .. m
  PROVE  Older(a, m) \in {Null} \cup 0 .. m /\ (a # Null => Older(a, m) # Null)
BY DEF Older, Null

LEMMA NextDayStep ==
  ASSUME IInv, NextDay
  PROVE  IInv'
<1> PICK S \in SUBSET Tickers : rows \in [S -> Row]  BY DEF IInv, TypeOK
<1>1. DOMAIN rows' = S /\ DOMAIN rows = S
  BY DEF NextDay
<1>2. ASSUME NEW t \in S
      PROVE  rows'[t] \in Row /\ Recoverable(rows'[t])
  <2> PICK r \in Row : r = rows[t]  OBVIOUS
  <2>1. Recoverable(r)
    BY <1>1 DEF IInv, RowsRecoverable
  <2> PICK f : f = Older(r.fetched, Stale)  OBVIOUS
  <2> PICK a : a = Older(r.attempt, Cooled)  OBVIOUS
  <2>2. f \in {Null} \cup 0 .. Stale /\ (r.fetched # Null => f # Null)
    BY OlderTyped, LimitsAssumption DEF Row, Stale
  <2>3. a \in {Null} \cup 0 .. Cooled /\ (r.attempt # Null => a # Null)
    BY OlderTyped, LimitsAssumption DEF Row, Cooled
  <2>4. rows'[t] = [r EXCEPT !.fetched = f, !.attempt = a]
    BY <1>1 DEF NextDay
  <2>5. rows'[t] \in Row
    BY <2>2, <2>3, <2>4 DEF Row
  <2>6. Recoverable(rows'[t])
    BY <2>1, <2>2, <2>3, <2>4 DEF Row, Recoverable
  <2> QED  BY <2>5, <2>6
<1>3. rows' \in [S -> Row] /\ RowsRecoverable'
  <2>1. rows' = [t \in S |-> rows'[t]]
    BY <1>1 DEF NextDay
  <2> QED  BY <2>1, <1>1, <1>2 DEF RowsRecoverable
<1>4. runAge' \in {0, 1}
  BY DEF NextDay
<1>5. TypeOK'
  BY <1>1, <1>3, <1>4 DEF IInv, TypeOK, NextDay, dataVars
<1>6. Outstanding' = Outstanding /\ used' = 0
  BY DEF NextDay, Outstanding
<1> PICK cost \in Nat : cost = CallsPerTicker * Outstanding
  BY OutstandingTyped DEF IInv
<1>7. used + cost <= DailyBudget /\ used \in Nat
  BY DEF IInv, Budgeted, TypeOK
<1>8. 0 + cost <= DailyBudget
  BY <1>7, LimitsAssumption
<1>9. Budgeted'
  BY <1>6, <1>8 DEF IInv, Budgeted, NextDay
<1> QED  BY <1>3, <1>5, <1>9 DEF IInv

LEMMA StutterStep == IInv /\ UNCHANGED vars => IInv'
<1> SUFFICES ASSUME IInv, UNCHANGED vars PROVE IInv'  OBVIOUS
<1> USE DEF vars, dataVars, runVars
<1>1. TypeOK'
  BY DEF IInv, TypeOK
<1>2. Budgeted'
  BY DEF IInv, Budgeted, Outstanding
<1>3. RowsRecoverable'
  BY RowsKept DEF IInv
<1> QED  BY <1>1, <1>2, <1>3 DEF IInv

LEMMA NextIInv == IInv /\ [Next]_vars => IInv'
<1> SUFFICES ASSUME IInv, [Next]_vars PROVE IInv'  OBVIOUS
<1>1. ASSUME NEW agent \in BOOLEAN, Start(agent) PROVE IInv'
  BY <1>1, StartStep
<1>2. CASE Select
  BY <1>2, SelectStep
<1>3. CASE Take
  <2>1. CASE NoCik
    BY <2>1, NoCikStep
  <2>2. CASE Refuse
    BY <2>2, RefuseStep
  <2>3. CASE Finish
    BY <2>3, LeaveStep
  <2>4. ASSUME NEW t \in Tickers, NEW panel \in Stores, Fetch(t, panel) PROVE IInv'
    BY <2>4, FetchStep
  <2> QED  BY <1>3, <2>1, <2>2, <2>3, <2>4 DEF Take
<1>4. CASE Write
  BY <1>4, MarkSuccessStep, MarkFailureStep, ChargeStep DEF Write
<1>5. CASE Die
  BY <1>5, LeaveStep
<1>6. ASSUME NEW t \in GuiTickers, ForceRefresh(t) \/ Prioritize(t) PROVE IInv'
  BY <1>6, ForceRefreshStep, PrioritizeStep
<1>7. ASSUME NEW t \in LateTickers, CikArrives(t) \/ PricesArrive(t) PROVE IInv'
  BY <1>7, ArrivalStep
<1>8. CASE NextDay
  BY <1>8, NextDayStep
<1>9. CASE UNCHANGED vars
  BY <1>9, StutterStep
<1> QED  BY <1>1, <1>2, <1>3, <1>4, <1>5, <1>6, <1>7, <1>8, <1>9 DEF Next

(* In time a recoverable row meets a clause of the candidate query.        *)
LEMMA RecoverableComesBack ==
  ASSUME NEW r \in Row, Recoverable(r)
  PROVE  EligibleIn(r, StalenessDays + CooldownDays + 2)
<1> USE LimitsAssumption
<1>1. CASE r.status = "pending" /\ r.retry < MaxRetryCount
  BY <1>1 DEF EligibleIn
<1>2. CASE r.status = "complete" /\ r.fetched # Null
  <2>1. r.fetched \in 0 .. Stale
    BY <1>2 DEF Row
  <2>2. r.fetched + (StalenessDays + CooldownDays + 2) > StalenessDays
    BY <2>1 DEF Stale
  <2> QED  BY <1>2, <2>2 DEF EligibleIn, Refetchable
<1>3. CASE r.status = "failed" /\ r.attempt # Null
  <2>1. r.attempt \in 0 .. Cooled
    BY <1>3 DEF Row
  <2>2. r.attempt + (StalenessDays + CooldownDays + 2) > CooldownDays
    BY <2>1 DEF Cooled
  <2> QED  BY <1>3, <2>2 DEF EligibleIn
<1> QED  BY <1>1, <1>2, <1>3 DEF Recoverable

LEMMA IInvBack == IInv => EveryRowComesBack
BY RowsTyped, RecoverableComesBack DEF IInv, RowsRecoverable, EveryRowComesBack
-----------------------------------------------------------------------------
(* Rows, counters and the run's locals keep their types, and a run between *)
(* two transactions of a candidate has one: for any limits and tickers.    *)
THEOREM TypeCorrect == Spec => []TypeOK
<1>1. IInv => TypeOK
  BY DEF IInv
<1> QED  BY <1>1, InitIInv, NextIInv, PTL DEF Spec

(* The calls charged to a day and those under way never exceed its budget, *)
(* whenever runs are killed, candidates fail, midnight passes or the       *)
(* operator intervenes. (Calls a killed run made and did not charge are    *)
(* not counted, neither by the code nor here.)                             *)
THEOREM SpendsWithinBudgetTheorem == Spec => []SpendsWithinBudget
<1>1. IInv => SpendsWithinBudget
  BY WithinBudget
<1> QED  BY <1>1, InitIInv, NextIInv, PTL DEF Spec

(* Every row seeded will be a candidate again, however often its fetch     *)
(* fails or its CIK is missing.                                            *)
THEOREM EveryRowComesBackTheorem == Spec => []EveryRowComesBack
BY InitIInv, NextIInv, IInvBack, PTL DEF Spec
=============================================================================
