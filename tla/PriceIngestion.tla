--------------------------- MODULE PriceIngestion ---------------------------
(***************************************************************************)
(* The price ingestion job of src/ingestion/price_ingestion.py, with the   *)
(* daily budget of src/ingestion/budget.py, the provider fallback and      *)
(* circuit breaker of src/providers/provider_factory.py, and the two GUI   *)
(* writes to ingestion_state in src/gui/queries.py.                        *)
(*                                                                         *)
(* A run is one process of the job (a scheduled one, or a second one       *)
(* dispatched by hand while the first still works). Each of its database   *)
(* transactions is one step, so other runs, the GUI, the universe sync and *)
(* midnight fall between any two of them, and the process may die there.   *)
(*                                                                         *)
(* Dates are kept as ages in days, so that the calendar has no end:        *)
(* last_fetched_date is read only through "today", "yesterday" and "older",*)
(* and last_attempt_at only through the cooldown and the order of attempts.*)
(***************************************************************************)
EXTENDS Integers, Sequences, FiniteSets

CONSTANTS
  Tickers,
  Runs,                    (* Processes of the job that may overlap.        *)
  ActiveProvider,          (* ingestion_config.active_provider.             *)
  FallbackProvider,        (* The other name of PROVIDER_CLASSES.           *)
  UsableProviders,         (* Those _instantiate can build (a key is set).  *)
  MaxRetryCount,
  MaxConsecutiveFailures,
  CircuitThreshold,        (* PROVIDER_FAILURE_CIRCUIT_THRESHOLD.           *)
  CooldownDays,            (* FAILED_RETRY_COOLDOWN_DAYS.                   *)
  DailyBudget,
  CallsPerTicker,
  MidnightsPerRun,         (* Bound: midnights a run may work past.         *)
  GuiTickers,              (* Tickers the operator acts on.                 *)
  ChurnTickers             (* Tickers the universe jobs switch on and off.  *)

Providers == {ActiveProvider, FallbackProvider}

ASSUME RunsAssumption == IsFiniteSet(Runs)
ASSUME ProvidersAssumption ==
  /\ ActiveProvider # FallbackProvider
  /\ UsableProviders \subseteq Providers
ASSUME ThresholdsAssumption ==
  /\ MaxRetryCount \in Nat \ {0}
  /\ MaxConsecutiveFailures \in Nat \ {0}
  /\ CircuitThreshold \in Nat \ {0}
  /\ CooldownDays \in Nat
  /\ MidnightsPerRun \in Nat
ASSUME BudgetAssumption ==
  /\ DailyBudget \in Nat
  /\ CallsPerTicker \in Nat \ {0}
ASSUME TickersAssumption ==
  /\ GuiTickers \subseteq Tickers
  /\ ChurnTickers \subseteq Tickers

VARIABLES
  active,        (* universe: the tickers with is_active.                    *)
  seeded,        (* ingestion_state: the tickers that have a 'price' row.    *)
  status,        (* fetch_status; for a ticker without a row, the default.   *)
  retry,         (* retry_count, up to MaxRetryCount: no query tells more.   *)
  fetched,       (* Age of last_fetched_date: Null, 0, 1, or 2 for older.    *)
  attempt,       (* Age of last_attempt_at, up to one day past the cooldown. *)
  earlier,       (* Pairs <<t, u>>: t's last attempt (or none) is earlier.   *)
  rank,          (* priority_rank.                                           *)
  refreshAsked,  (* History: forced refreshes that no attempt answered yet.  *)
  used,          (* ingestion_daily_usage.calls_used of the current day.     *)
  pc,            (* Where each run stands.                                   *)
  limit,         (* tickers_remaining, as the run read it.                   *)
  queue,         (* The candidates the run has still to process.             *)
  streak,        (* consecutive_failures of the run.                         *)
  broken,        (* _rate_limited_providers of the run's process.            *)
  fails,         (* _consecutive_failures of the run's process.              *)
  runAge         (* Age of the `today` the run took when it selected.        *)

rowVars == <<status, retry, fetched, attempt, earlier, rank>>
tableVars == <<active, seeded, rowVars, refreshAsked, used>>
breakerVars == <<broken, fails>>
runVars == <<pc, limit, queue, streak, breakerVars, runAge>>
vars == <<tableVars, runVars>>

Null == -1
NormalRank == 100
UrgentRank == 0
Oldest == CooldownDays + 1
Statuses == {"pending", "complete", "failed"}
Ages == {Null, 0, 1, 2}
AttemptAges == {Null} \cup 0 .. Oldest
Outcomes == {"ok", "error", "rate_limit"}
Steps == {"idle", "seeded", "admitted", "loop",
          "answered", "refused", "charge_ok", "charge_fail"}
Candidate == [ticker : Tickers, retry : 0 .. MaxRetryCount, caughtUp : BOOLEAN]

Older(age, oldest) == IF age = Null \/ age = oldest THEN age ELSE age + 1
-----------------------------------------------------------------------------
(* As first written, before the third clause was added (lines 62-72).      *)
EligibleInNoCooldown(t, days) ==
  \/ status[t] \in {"pending", "failed"} /\ retry[t] < MaxRetryCount
  \/ status[t] = "complete" /\ fetched[t] # Null /\ fetched[t] + days >= 2

(* The WHERE clause of get_candidates, `days` days from now.               *)
EligibleIn(t, days) ==
  \/ status[t] \in {"pending", "failed"} /\ retry[t] < MaxRetryCount
  \/ status[t] = "complete" /\ fetched[t] # Null /\ fetched[t] + days >= 2
  \/ status[t] = "failed" /\ attempt[t] # Null /\ attempt[t] + days > CooldownDays

(* The cooldown ends today: whether it has ended yet depends on the hour.  *)
CoolingEndsToday(t) == status[t] = "failed" /\ attempt[t] = CooldownDays

(* Ordering by urgency alone.                                              *)
PrecedesByRank(t, u) == rank[t] < rank[u]

(* ORDER BY priority_rank, last_attempt_at NULLS FIRST.                    *)
Precedes(t, u) ==
  \/ rank[t] < rank[u]
  \/ rank[t] = rank[u] /\ <<t, u>> \in earlier

(* The first n rows of S in some order the ORDER BY allows.                *)
IsPage(q, n, S) ==
  /\ \A i, j \in 1 .. n : i < j => q[i] # q[j] /\ ~ Precedes(q[j], q[i])
  /\ \A t \in S, i \in 1 .. n : (\A j \in 1 .. n : q[j] # t) => ~ Precedes(t, q[i])

Touched(t) ==
  {p \in earlier : p[1] # t /\ p[2] # t} \cup {<<u, t>> : u \in Tickers \ {t}}
-----------------------------------------------------------------------------
Init ==
  /\ active \in SUBSET Tickers
  /\ seeded = {}
  /\ status = [t \in Tickers |-> "pending"]
  /\ retry = [t \in Tickers |-> 0]
  /\ fetched = [t \in Tickers |-> Null]
  /\ attempt = [t \in Tickers |-> Null]
  /\ earlier = {}
  /\ rank = [t \in Tickers |-> NormalRank]
  /\ refreshAsked = {}
  /\ used = 0
  /\ pc = [r \in Runs |-> "idle"]
  /\ limit = [r \in Runs |-> 0]
  /\ queue = [r \in Runs |-> <<>>]
  /\ streak = [r \in Runs |-> 0]
  /\ broken = [r \in Runs |-> {}]
  /\ fails = [r \in Runs |-> [p \in Providers |-> 0]]
  /\ runAge = [r \in Runs |-> 0]

(* The process ends, and its locals and module state with it.              *)
Exit(r) ==
  /\ pc' = [pc EXCEPT ![r] = "idle"]
  /\ limit' = [limit EXCEPT ![r] = 0]
  /\ queue' = [queue EXCEPT ![r] = <<>>]
  /\ streak' = [streak EXCEPT ![r] = 0]
  /\ broken' = [broken EXCEPT ![r] = {}]
  /\ fails' = [fails EXCEPT ![r] = [p \in Providers |-> 0]]
  /\ runAge' = [runAge EXCEPT ![r] = 0]

Goto(r, step) == pc' = [pc EXCEPT ![r] = step]

(* A run starts: seed_new_tickers gives every active ticker a row.         *)
Seed(r) ==
  /\ pc[r] = "idle"
  /\ seeded' = seeded \cup active
  /\ Goto(r, "seeded")
  /\ UNCHANGED <<active, rowVars, refreshAsked, used, limit, queue, streak, breakerVars, runAge>>

(* A budget that ignores what the day has already spent.                   *)
TickersRemainingUnspent == DailyBudget \div CallsPerTicker

TickersRemaining ==
  (IF used < DailyBudget THEN DailyBudget - used ELSE 0) \div CallsPerTicker

(* remaining_ticker_budget, read once at the start of the run.             *)
ReadBudget(r) ==
  /\ pc[r] = "seeded"
  /\ IF TickersRemaining <= 0
       THEN Exit(r)
       ELSE /\ limit' = [limit EXCEPT ![r] = TickersRemaining]
            /\ Goto(r, "admitted")
            /\ UNCHANGED <<queue, streak, breakerVars, runAge>>
  /\ UNCHANGED tableVars

(* get_candidates, and the run's `today`. A row keeps the retry_count and  *)
(* the last_fetched_date it had here until the run comes to it.            *)
Select(r) ==
  /\ pc[r] = "admitted"
  /\ \E ended \in SUBSET {t \in seeded \cap active : CoolingEndsToday(t)} :
       LET S == {t \in seeded \cap active : EligibleIn(t, 0)} \cup ended
       IN \E n \in 0 .. limit[r] : \E q \in [1 .. n -> S] :
            /\ IsPage(q, n, S)
            /\ n = limit[r] \/ \A t \in S : \E i \in 1 .. n : q[i] = t
            /\ queue' = [queue EXCEPT ![r] =
                 [i \in 1 .. n |-> [ticker |-> q[i], retry |-> retry[q[i]],
                                    caughtUp |-> fetched[q[i]] = 0]]]
  /\ Goto(r, "loop")
  /\ UNCHANGED <<tableVars, limit, streak, breakerVars, runAge>>

Current(r) == Head(queue[r])
AtCandidate(r) == pc[r] = "loop" /\ queue[r] # <<>>

(* mark_success: the row is complete as of the run's own `today`.          *)
MarkComplete(r, t) ==
  /\ status' = [status EXCEPT ![t] = "complete"]
  /\ retry' = [retry EXCEPT ![t] = 0]
  /\ fetched' = [fetched EXCEPT ![t] = runAge[r]]
  /\ attempt' = [attempt EXCEPT ![t] = 0]
  /\ earlier' = Touched(t)
  /\ UNCHANGED rank

(* Already fetched today: marked complete without asking any provider.     *)
CaughtUp(r) ==
  /\ AtCandidate(r)
  /\ Current(r).caughtUp
  /\ MarkComplete(r, Current(r).ticker)
  /\ streak' = [streak EXCEPT ![r] = 0]
  /\ queue' = [queue EXCEPT ![r] = Tail(@)]
  /\ UNCHANGED <<active, seeded, refreshAsked, used, pc, limit, breakerVars, runAge>>
-----------------------------------------------------------------------------
(* fetch_with_fallback. `o` is what each provider would answer.            *)
Ready(r) == UsableProviders \ broken[r]

Reached(r, o) ==
  {p \in Ready(r) : p = FallbackProvider =>
                      ActiveProvider \notin Ready(r) \/ o[ActiveProvider] # "ok"}

FailsAfter(r, o) ==
  [p \in Providers |-> IF p \notin Reached(r, o) THEN fails[r][p]
                       ELSE IF o[p] = "ok" THEN 0 ELSE fails[r][p] + 1]

(* A breaker that opens only on an explicit rate limit.                    *)
TrippedByRateLimitOnly(r, o) == {p \in Reached(r, o) : o[p] = "rate_limit"}

Tripped(r, o) ==
  {p \in Reached(r, o) :
     o[p] = "rate_limit" \/ (o[p] = "error" /\ fails[r][p] + 1 >= CircuitThreshold)}

Ask(r, o) ==
  /\ AtCandidate(r)
  /\ ~ Current(r).caughtUp
  /\ fails' = [fails EXCEPT ![r] = FailsAfter(r, o)]
  /\ broken' = [broken EXCEPT ![r] = @ \cup Tripped(r, o)]
  /\ UNCHANGED <<tableVars, limit, queue, streak, runAge>>

(* A provider answers; upsert_price_bars stores what it returned.          *)
FetchSucceeds(r) ==
  \E o \in [Ready(r) -> Outcomes] :
    /\ \E p \in Reached(r, o) : o[p] = "ok"
    /\ Ask(r, o)
    /\ Goto(r, "answered")

(* Every provider that was reached fails: PriceProviderError.              *)
FetchFails(r) ==
  \E o \in [Ready(r) -> Outcomes] :
    /\ Ready(r) # {}
    /\ \A p \in Reached(r, o) : o[p] # "ok"
    /\ Ask(r, o)
    /\ Goto(r, "refused")

(* AllProvidersUnavailableError: the run stops, the ticker is not charged. *)
AllUnavailable(r) ==
  /\ AtCandidate(r)
  /\ ~ Current(r).caughtUp
  /\ Ready(r) = {}
  /\ Exit(r)
  /\ UNCHANGED tableVars
-----------------------------------------------------------------------------
MarkSuccess(r) ==
  /\ pc[r] = "answered"
  /\ MarkComplete(r, Current(r).ticker)
  /\ refreshAsked' = refreshAsked \ {Current(r).ticker}
  /\ Goto(r, "charge_ok")
  /\ UNCHANGED <<active, seeded, used, limit, queue, streak, breakerVars, runAge>>

(* A row left pending with its last retry spent.                           *)
FailureStatusLate(n) == IF n > MaxRetryCount THEN "failed" ELSE "pending"

FailureStatus(n) == IF n >= MaxRetryCount THEN "failed" ELSE "pending"

OneMore(n) == IF n < MaxRetryCount THEN n + 1 ELSE MaxRetryCount

(* mark_failure writes the retry_count it selected, plus one.              *)
MarkFailure(r) ==
  /\ pc[r] = "refused"
  /\ LET t == Current(r).ticker
         n == OneMore(Current(r).retry)
     IN /\ retry' = [retry EXCEPT ![t] = n]
        /\ status' = [status EXCEPT ![t] = FailureStatus(n)]
        /\ attempt' = [attempt EXCEPT ![t] = 0]
        /\ earlier' = Touched(t)
        /\ refreshAsked' = refreshAsked \ {t}
  /\ Goto(r, "charge_fail")
  /\ UNCHANGED <<active, seeded, fetched, rank, used, limit, queue, streak, breakerVars, runAge>>

(* record_usage after a success: the streak ends.                          *)
ChargeSuccess(r) ==
  /\ pc[r] = "charge_ok"
  /\ used' = used + 1
  /\ streak' = [streak EXCEPT ![r] = 0]
  /\ queue' = [queue EXCEPT ![r] = Tail(@)]
  /\ Goto(r, "loop")
  /\ UNCHANGED <<active, seeded, rowVars, refreshAsked, limit, breakerVars, runAge>>

(* record_usage after a failure: too many in a row stop the run.           *)
ChargeFailure(r) ==
  /\ pc[r] = "charge_fail"
  /\ used' = used + 1
  /\ IF streak[r] + 1 >= MaxConsecutiveFailures
       THEN Exit(r)
       ELSE /\ streak' = [streak EXCEPT ![r] = @ + 1]
            /\ queue' = [queue EXCEPT ![r] = Tail(@)]
            /\ Goto(r, "loop")
            /\ UNCHANGED <<limit, breakerVars, runAge>>
  /\ UNCHANGED <<active, seeded, rowVars, refreshAsked>>

(* The candidates are used up.                                             *)
Finish(r) ==
  /\ pc[r] = "loop"
  /\ queue[r] = <<>>
  /\ Exit(r)
  /\ UNCHANGED tableVars

(* The process is killed, or another exception leaves run(): what it has   *)
(* committed stays, the rest is lost.                                      *)
Die(r) ==
  /\ pc[r] # "idle"
  /\ Exit(r)
  /\ UNCHANGED tableVars
-----------------------------------------------------------------------------
(* queries.prioritize_ticker *)
Prioritize(t) ==
  /\ t \in seeded
  /\ rank' = [rank EXCEPT ![t] = UrgentRank]
  /\ UNCHANGED <<active, seeded, status, retry, fetched, attempt, earlier, refreshAsked, used, runVars>>

(* queries.force_refresh_ticker *)
ForceRefresh(t) ==
  /\ t \in seeded
  /\ status' = [status EXCEPT ![t] = "pending"]
  /\ retry' = [retry EXCEPT ![t] = 0]
  /\ rank' = [rank EXCEPT ![t] = UrgentRank]
  /\ refreshAsked' = refreshAsked \cup {t}
  /\ UNCHANGED <<active, seeded, fetched, attempt, earlier, used, runVars>>

(* The universe jobs switch a ticker on or off (module Universe).          *)
Churn(t) ==
  /\ active' = IF t \in active THEN active \ {t} ELSE active \cup {t}
  /\ UNCHANGED <<seeded, rowVars, refreshAsked, used, runVars>>

(* Midnight: every date is a day older, and the new day has no usage row.  *)
NextDay ==
  /\ \A r \in Runs : runAge[r] < MidnightsPerRun
  /\ fetched' = [t \in Tickers |-> Older(fetched[t], 2)]
  /\ attempt' = [t \in Tickers |-> Older(attempt[t], Oldest)]
  /\ runAge' = [r \in Runs |-> IF pc[r] \in {"idle", "seeded", "admitted"}
                                 THEN runAge[r] ELSE Older(runAge[r], 2)]
  /\ used' = 0
  /\ UNCHANGED <<active, seeded, status, retry, earlier, rank, refreshAsked,
                 pc, limit, queue, streak, breakerVars>>

(* One iteration of the loop in run(), up to the row it writes.            *)
Take(r) == CaughtUp(r) \/ FetchSucceeds(r) \/ FetchFails(r) \/ AllUnavailable(r) \/ Finish(r)
Mark(r) == MarkSuccess(r) \/ MarkFailure(r)
Charge(r) == ChargeSuccess(r) \/ ChargeFailure(r)

Next ==
  \/ \E r \in Runs : \/ Seed(r)
                     \/ ReadBudget(r)
                     \/ Select(r)
                     \/ Take(r)
                     \/ Mark(r)
                     \/ Charge(r)
                     \/ Die(r)
  \/ \E t \in GuiTickers : Prioritize(t) \/ ForceRefresh(t)
  \/ \E t \in ChurnTickers : Churn(t)
  \/ NextDay

Spec == Init /\ [][Next]_vars

(* The scheduler keeps starting runs, days keep passing, and no run is     *)
(* killed at the same point for ever. Nothing is assumed of the operator,  *)
(* of the universe jobs or of the providers.                               *)
Fairness ==
  /\ WF_vars(NextDay)
  /\ \A r \in Runs : /\ WF_vars(Seed(r))
                     /\ SF_vars(ReadBudget(r))
                     /\ SF_vars(Select(r))
                     /\ SF_vars(Take(r))
                     /\ SF_vars(Mark(r))
                     /\ SF_vars(Charge(r))

FairSpec == Spec /\ Fairness
-----------------------------------------------------------------------------
Typed ==
  /\ active \subseteq Tickers
  /\ seeded \subseteq Tickers
  /\ status \in [Tickers -> Statuses]
  /\ retry \in [Tickers -> 0 .. MaxRetryCount]
  /\ fetched \in [Tickers -> Ages]
  /\ attempt \in [Tickers -> AttemptAges]
  /\ earlier \subseteq Tickers \X Tickers
  /\ rank \in [Tickers -> {UrgentRank, NormalRank}]
  /\ refreshAsked \subseteq Tickers
  /\ used \in Nat
  /\ pc \in [Runs -> Steps]
  /\ limit \in [Runs -> Nat]
  /\ queue \in [Runs -> Seq(Candidate)]
  /\ streak \in [Runs -> Nat]
  /\ broken \in [Runs -> SUBSET Providers]
  /\ fails \in [Runs -> [Providers -> Nat]]
  /\ runAge \in [Runs -> {0, 1, 2}]

RowsRecover ==
  \A t \in Tickers : /\ status[t] = "pending" => retry[t] < MaxRetryCount
                     /\ status[t] = "complete" => fetched[t] # Null
                     /\ status[t] = "failed" => attempt[t] # Null

(* Every variable keeps its type, and every row carries what the clause of *)
(* get_candidates for its status reads: a pending row has retries left, a  *)
(* complete one a date, a failed one an attempt, although runs write back  *)
(* the retry_count they selected long before.                              *)
TypeOK == Typed /\ RowsRecover

(* No row is excluded for ever: left alone, it is a candidate again at the *)
(* latest when the cooldown and the staleness day have passed, however     *)
(* runs, deaths, GUI resets and midnights were interleaved (the repair     *)
(* described at price_ingestion.py:62-72).                                 *)
NeverStranded == \A t \in seeded : EligibleIn(t, CooldownDays + 2)

(* An outage costs a run at most CircuitThreshold tickers' retries: every  *)
(* provider's breaker has opened by then, so the run stops before the      *)
(* MaxConsecutiveFailures stop, and the remaining candidates keep theirs.  *)
OutageIsContained == \A r \in Runs : streak[r] <= CircuitThreshold

(* remaining_ticker_budget is read once per run and spent later, so runs   *)
(* that overlap may each spend the whole budget, but never more: a run     *)
(* that starts late, or works past midnight, does not add to that. Spent   *)
(* is what record_usage wrote: the call of a process that died before it   *)
(* wrote is not counted, by the code or here.                              *)
OverspendIsBounded == used <= Cardinality(Runs) * DailyBudget

(* A forced refresh is answered by a provider (routes.py:178, "reset to    *)
(* pending - will re-fetch next cron run"): a row whose refresh is         *)
(* outstanding is not complete.                                            *)
RefreshRefetches == \A t \in refreshAsked : status[t] # "complete"

(* No starvation: an active ticker that no more urgent ticker is ahead of  *)
(* is attempted again and again, on whatever budget there is, even if runs *)
(* die, providers fail and the operator keeps re-prioritising others.      *)
EveryTickerServed ==
  \A t \in Tickers :
    []<>(\/ t \notin active
         \/ attempt[t] = 0
         \/ \E u \in active : rank[u] < rank[t])
=============================================================================
