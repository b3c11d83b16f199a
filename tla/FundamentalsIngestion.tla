------------------------ MODULE FundamentalsIngestion ------------------------
(***************************************************************************)
(* The fundamentals job of src/ingestion/fundamentals_ingestion.py. It     *)
(* works through rows and a budget of its own, as module PriceIngestion    *)
(* does, but asks one provider (SEC EDGAR, no fallback), refetches a       *)
(* complete row only after StalenessDays, and cannot fetch a ticker whose  *)
(* CIK the universe sync has not supplied. What a fetch stores depends on  *)
(* price ingestion: without prices, or if the one query for them fails,    *)
(* the rows replace what was there without the ratios that need a market   *)
(* cap, and the ticker counts as complete all the same.                    *)
(*                                                                         *)
(* One process, dying at any step; a fetch and its upsert are one step     *)
(* (nothing is written between), every other transaction is its own. Dates *)
(* are ages in days.                                                       *)
(***************************************************************************)
EXTENDS Integers, Sequences, FiniteSets

CONSTANTS
  Tickers,                 (* The active universe.                          *)
  MaxRetryCount,
  MaxConsecutiveFailures,
  StalenessDays,
  CooldownDays,            (* FAILED_RETRY_COOLDOWN_DAYS.                   *)
  DailyBudget,
  CallsPerTicker,
  GuiTickers,              (* Tickers the operator moves to the front.      *)
  LateTickers,             (* Tickers whose CIK and prices come later.      *)
  MaxLost                  (* Bound: runs lost in a row.                    *)

ASSUME LimitsAssumption ==
  /\ MaxRetryCount \in Nat \ {0} /\ MaxConsecutiveFailures \in Nat \ {0}
  /\ StalenessDays \in Nat /\ CooldownDays \in Nat
  /\ DailyBudget \in Nat /\ CallsPerTicker \in Nat \ {0} /\ MaxLost \in Nat
ASSUME TickersAssumption == GuiTickers \cup LateTickers \subseteq Tickers

VARIABLES
  rows,      (* ingestion_state: ticker -> row, for the tickers seeded.     *)
  earlier,   (* Pairs <<t, u>>: t's last attempt (or none) is earlier.      *)
  cik,       (* universe: the tickers with a CIK.                           *)
  priced,    (* price_history: the tickers with prices for their reports.   *)
  stored,    (* fundamentals: "none", "partial" (no valuation), or "full".  *)
  used,      (* ingestion_daily_usage.calls_used of the current day.        *)
  pc,        (* Where the run stands.                                       *)
  limit,     (* tickers_remaining, as the run read it.                      *)
  queue,     (* The candidates the run has still to process.                *)
  streak,    (* consecutive_failures                                        *)
  runAge,    (* Age of the `today` the run took; bound: one midnight a run. *)
  lost       (* Runs lost since one last came to its end.                   *)

dataVars == <<cik, priced, stored>>
runVars == <<pc, limit, queue, streak, runAge, lost>>
vars == <<rows, earlier, dataVars, used, runVars>>

Null == -1
Stale == StalenessDays + 1
Cooled == CooldownDays + 1
Statuses == {"pending", "complete", "failed"}
Stores == {"none", "partial", "full"}
Steps == {"idle", "admitted", "loop", "stored", "refused", "charge"}

(* Ages are kept up to one day past what is compared with; retry_count up  *)
(* to MaxRetryCount.                                                       *)
Row == [status : Statuses, retry : 0 .. MaxRetryCount, urgent : BOOLEAN,
        fetched : {Null} \cup 0 .. Stale, attempt : {Null} \cup 0 .. Cooled]
Candidate == [ticker : Tickers, retry : 0 .. MaxRetryCount, cik : BOOLEAN]
NewRow == [status |-> "pending", retry |-> 0, urgent |-> FALSE,
           fetched |-> Null, attempt |-> Null]
-----------------------------------------------------------------------------
Refetchable(r, days) ==
  r.status = "complete" /\ r.fetched # Null /\ r.fetched + days > StalenessDays

(* Without the third clause, as before the repair of lines 61-66.          *)
EligibleInNoCooldown(r, days) ==
  \/ r.status \in {"pending", "failed"} /\ r.retry < MaxRetryCount
  \/ Refetchable(r, days)

(* A complete row is complete for good.                                    *)
EligibleInNoMaintenance(r, days) ==
  \/ r.status \in {"pending", "failed"} /\ r.retry < MaxRetryCount
  \/ r.status = "failed" /\ r.attempt # Null /\ r.attempt + days > CooldownDays

(* The WHERE clause of get_candidates, `days` days from now.               *)
EligibleIn(r, days) ==
  \/ r.status \in {"pending", "failed"} /\ r.retry < MaxRetryCount
  \/ Refetchable(r, days)
  \/ r.status = "failed" /\ r.attempt # Null /\ r.attempt + days > CooldownDays

(* The cooldown ends today: whether it has ended yet depends on the hour.  *)
CoolingEndsToday(r) == r.status = "failed" /\ r.attempt = CooldownDays

(* By urgency alone.                                                       *)
PrecedesByRank(t, u) == rows[t].urgent /\ ~ rows[u].urgent

(* ORDER BY priority_rank, last_attempt_at NULLS FIRST                     *)
Precedes(t, u) ==
  \/ rows[t].urgent /\ ~ rows[u].urgent
  \/ rows[t].urgent = rows[u].urgent /\ <<t, u>> \in earlier

(* The pages of at most n rows of S that the ORDER BY and LIMIT allow.     *)
IsPage(q, n, S) ==
  LET taken == {q[i] : i \in DOMAIN q}
  IN /\ Cardinality(taken) = Len(q)
     /\ \A i, j \in DOMAIN q : i < j => ~ Precedes(q[j], q[i])
     /\ \A t \in S \ taken : Len(q) = n /\ \A u \in taken : ~ Precedes(t, u)
Pages(n, S) == {q \in UNION {[1 .. k -> S] : k \in 0 .. n} : IsPage(q, n, S)}

(* last_attempt_at = NOW()                                                 *)
Touch(t) ==
  earlier' = {p \in earlier : t \notin {p[1], p[2]}} \cup {<<u, t>> : u \in Tickers \ {t}}
-----------------------------------------------------------------------------
Init ==
  /\ rows = [t \in {} |-> NewRow]
  /\ earlier = {} /\ used = 0
  /\ cik = Tickers \ LateTickers /\ priced = Tickers \ LateTickers
  /\ stored = [t \in Tickers |-> "none"]
  /\ pc = "idle" /\ limit = 0 /\ queue = <<>> /\ streak = 0 /\ runAge = 0 /\ lost = 0

Exit == pc' = "idle" /\ limit' = 0 /\ queue' = <<>> /\ streak' = 0 /\ runAge' = 0

(* The budget as if nothing had been spent yet that day.                   *)
TickersRemainingUnspent == DailyBudget \div CallsPerTicker

(* remaining_ticker_budget. Its bandwidth cap never binds: no call of      *)
(* record_usage passes a bandwidth, and migration 003 sets none.           *)
TickersRemaining ==
  IF used >= DailyBudget THEN 0 ELSE (DailyBudget - used) \div CallsPerTicker

(* seed_new_tickers and the budget check. Without a SEC_EDGAR_USER_AGENT   *)
(* (ingestion_cron.yml passes none) SECEdgarProvider() refuses, and the    *)
(* run is over.                                                            *)
Start(agent) ==
  /\ pc = "idle"
  /\ rows' = [t \in Tickers |-> IF t \in DOMAIN rows THEN rows[t] ELSE NewRow]
  /\ IF TickersRemaining > 0 /\ agent THEN pc' = "admitted" /\ limit' = TickersRemaining
                                      ELSE UNCHANGED <<pc, limit>>
  /\ UNCHANGED <<earlier, dataVars, used, queue, streak, runAge, lost>>

(* get_candidates. Retry counts and CIKs are read here for the whole run.  *)
Select ==
  /\ pc = "admitted"
  /\ \E ended \in SUBSET {t \in Tickers : CoolingEndsToday(rows[t])} :
       \E q \in Pages(limit, {t \in Tickers : EligibleIn(rows[t], 0)} \cup ended) :
         queue' = [i \in DOMAIN q |->
           [ticker |-> q[i], retry |-> rows[q[i]].retry, cik |-> q[i] \in cik]]
  /\ pc' = "loop" /\ limit' = 0
  /\ UNCHANGED <<rows, earlier, dataVars, used, streak, runAge, lost>>

Current == Head(queue)
AtCandidate == pc = "loop" /\ queue # <<>>

(* mark_failure writes the retry_count the run selected, plus one.         *)
Failed(r, selected) ==
  LET n == IF selected < MaxRetryCount THEN selected + 1 ELSE selected
  IN [r EXCEPT !.retry = n, !.attempt = 0,
               !.status = IF n >= MaxRetryCount THEN "failed" ELSE "pending"]

(* Without a CIK a ticker fails: no call, no charge, no strike.            *)
NoCik ==
  /\ AtCandidate /\ ~ Current.cik
  /\ rows' = [rows EXCEPT ![Current.ticker] = Failed(@, Current.retry)]
  /\ Touch(Current.ticker)
  /\ queue' = Tail(queue)
  /\ UNCHANGED <<dataVars, used, pc, limit, streak, runAge, lost>>

(* fetch_fundamentals returns rows, with valuation ratios only if it could *)
(* read prices, or none at all; the upsert replaces every column.          *)
Fetch(t, panel) ==
  /\ AtCandidate /\ Current.cik /\ Current.ticker = t
  /\ panel = "full" => t \in priced
  /\ stored' = IF panel = "none" THEN stored ELSE [stored EXCEPT ![t] = panel]
  /\ pc' = "stored"
  /\ UNCHANGED <<rows, earlier, cik, priced, used, limit, queue, streak, runAge, lost>>

(* PriceProviderError: an HTTP error, a rate limit, no usable facts.       *)
Refuse ==
  /\ AtCandidate /\ Current.cik
  /\ pc' = "refused"
  /\ UNCHANGED <<rows, earlier, dataVars, used, limit, queue, streak, runAge, lost>>

MarkSuccess ==
  /\ pc = "stored"
  /\ rows' = [rows EXCEPT ![Current.ticker] =
                [@ EXCEPT !.status = "complete", !.retry = 0, !.attempt = 0,
                          !.fetched = runAge]]
  /\ Touch(Current.ticker)
  /\ streak' = 0 /\ pc' = "charge"
  /\ UNCHANGED <<dataVars, used, limit, queue, runAge, lost>>

MarkFailure ==
  /\ pc = "refused"
  /\ rows' = [rows EXCEPT ![Current.ticker] = Failed(@, Current.retry)]
  /\ Touch(Current.ticker)
  /\ streak' = streak + 1 /\ pc' = "charge"
  /\ UNCHANGED <<dataVars, used, limit, queue, runAge, lost>>

(* record_usage; too many failures in a row end the run.                   *)
Charge ==
  /\ pc = "charge"
  /\ used' = used + CallsPerTicker
  /\ IF streak >= MaxConsecutiveFailures
       THEN Exit /\ lost' = 0
       ELSE queue' = Tail(queue) /\ pc' = "loop" /\ UNCHANGED <<limit, streak, runAge, lost>>
  /\ UNCHANGED <<rows, earlier, dataVars>>

Finish ==
  /\ pc = "loop" /\ queue = <<>>
  /\ Exit /\ lost' = 0
  /\ UNCHANGED <<rows, earlier, dataVars, used>>

(* The process is killed, or an exception that is no PriceProviderError    *)
(* leaves run(): what it has committed stays.                              *)
Die ==
  /\ pc # "idle" /\ lost < MaxLost
  /\ Exit /\ lost' = lost + 1
  /\ UNCHANGED <<rows, earlier, dataVars, used>>
-----------------------------------------------------------------------------
(* queries.force_refresh_ticker                                            *)
ForceRefresh(t) ==
  /\ t \in DOMAIN rows
  /\ rows' = [rows EXCEPT ![t] =
                [@ EXCEPT !.status = "pending", !.retry = 0, !.urgent = TRUE]]
  /\ UNCHANGED <<earlier, dataVars, used, runVars>>

(* queries.prioritize_ticker: nothing but the rank.                        *)
Prioritize(t) ==
  /\ t \in DOMAIN rows
  /\ rows' = [rows EXCEPT ![t].urgent = TRUE]
  /\ UNCHANGED <<earlier, dataVars, used, runVars>>

(* The universe sync supplies a CIK, and never takes it back (COALESCE).   *)
CikArrives(t) == cik' = cik \cup {t} /\ UNCHANGED <<rows, earlier, priced, stored, used, runVars>>

(* Price ingestion reaches the ticker.                                     *)
PricesArrive(t) == priced' = priced \cup {t} /\ UNCHANGED <<rows, earlier, cik, stored, used, runVars>>

(* Midnight: every date is a day older, and the new day has no usage row.  *)
Older(age, oldest) == IF age \in {Null, oldest} THEN age ELSE age + 1
NextDay ==
  /\ runAge = 0
  /\ rows' = [t \in DOMAIN rows |->
                [rows[t] EXCEPT !.fetched = Older(@, Stale), !.attempt = Older(@, Cooled)]]
  /\ runAge' = IF pc \in {"idle", "admitted"} THEN 0 ELSE 1
  /\ used' = 0
  /\ UNCHANGED <<earlier, dataVars, pc, limit, queue, streak, lost>>

(* An iteration of the loop, up to the row it writes; and the rest of it.  *)
Take == NoCik \/ Refuse \/ Finish \/ \E t \in Tickers, panel \in Stores : Fetch(t, panel)
Write == MarkSuccess \/ MarkFailure \/ Charge

Next ==
  \/ \E agent \in BOOLEAN : Start(agent)
  \/ Select \/ Take \/ Write \/ Die
  \/ \E t \in GuiTickers : ForceRefresh(t) \/ Prioritize(t)
  \/ \E t \in LateTickers : CikArrives(t) \/ PricesArrive(t)
  \/ NextDay

Spec == Init /\ [][Next]_vars

(* Days pass, and a run that was started goes on. That one is started is   *)
(* not assumed here: Dispatched is. Nothing is assumed of the operator's   *)
(* refreshes, of EDGAR's answers, or of when CIKs and prices arrive.       *)
Fairness == WF_vars(NextDay) /\ WF_vars(Select) /\ WF_vars(Take) /\ WF_vars(Write)

FairSpec == Spec /\ Fairness
-----------------------------------------------------------------------------
(* Rows, counters and the run's locals keep their types, and a run between *)
(* two transactions of a candidate has one.                                *)
TypeOK ==
  /\ \E S \in SUBSET Tickers : rows \in [S -> Row]
  /\ earlier \subseteq Tickers \X Tickers
  /\ cik \subseteq Tickers /\ priced \subseteq Tickers
  /\ stored \in [Tickers -> Stores]
  /\ used \in Nat /\ limit \in Nat /\ streak \in Nat /\ lost \in 0 .. MaxLost
  /\ pc \in Steps /\ runAge \in {0, 1}
  /\ queue \in Seq(Candidate)
  /\ pc \in {"stored", "refused", "charge"} => queue # <<>>
  /\ pc # "idle" => DOMAIN rows = Tickers

(* The calls made for the candidate at hand and not charged yet.           *)
CallsUnderWay == IF pc \in {"stored", "refused", "charge"} THEN CallsPerTicker ELSE 0

(* However runs die, work past midnight or are refreshed by the operator,  *)
(* the calls charged to a day and those under way stay within its budget:  *)
(* what is left is read once at the start, and every candidate is charged  *)
(* at most once, before the next is asked for. This is not every call:     *)
(* those of a run killed before record_usage are never charged, and the    *)
(* next run makes them again. (Runs that overlap spend a budget each:      *)
(* PriceIngestion's OverspendIsBounded.)                                   *)
SpendsWithinBudget == used + CallsUnderWay <= DailyBudget

(* No row is excluded for good: left alone, it is a candidate again when   *)
(* its cooldown or its staleness has passed, a ticker without a CIK too.   *)
EveryRowComesBack ==
  \A t \in DOMAIN rows : EligibleIn(rows[t], StalenessDays + CooldownDays + 2)

Outranked(t) == \E u \in DOMAIN rows : t \in DOMAIN rows /\ rows[u].urgent /\ ~ rows[t].urgent

(* The two hypotheses of what follows. The first: as long as a run would   *)
(* get anywhere, one is started again and again. The code's schedule does  *)
(* not make it true: the daily ingestion_cron.yml passes no user agent,    *)
(* and fundamentals_ingestion_cron.yml has workflow_dispatch alone, so     *)
(* somebody has to dispatch it. The second: neither EDGAR nor the price    *)
(* query fails the ticker for ever.                                        *)
Dispatched == SF_vars(Start(TRUE))
Answers(t) == SF_vars(Fetch(t, "full"))

(* If runs are dispatched again and again and EDGAR answers for it, a      *)
(* ticker with a CIK and prices has its valuation ratios again and again,  *)
(* although a fetch before its prices, or one whose price query failed,    *)
(* stores it without and calls it complete, unless the operator keeps a    *)
(* more urgent ticker ahead of it.                                         *)
ValuationReturns ==
  Dispatched =>
    \A t \in Tickers :
      Answers(t) => []<>(stored[t] = "full" \/ t \notin cik \cap priced \/ Outranked(t))

(* No starvation: if runs are dispatched again and again, every ticker,    *)
(* with a CIK or without, is attempted again and again, whatever EDGAR     *)
(* answers and whatever the others' fetches do to the budget.              *)
EveryTickerAttempted ==
  Dispatched =>
    \A t \in Tickers : []<>((t \in DOMAIN rows /\ rows[t].attempt = 0) \/ Outranked(t))
=============================================================================
