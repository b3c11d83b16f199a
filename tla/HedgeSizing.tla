----------------------------- MODULE HedgeSizing -----------------------------
(***************************************************************************)
(* The daily hedge sizing (scripts/run_hedge_sizing_cron.py) with what it  *)
(* stands on: the VIX futures calendar (src/hedge/vix_futures_calendar.py),*)
(* the choice of a SPY put from the live chain (options_provider.py,       *)
(* black_scholes.py), the futures' settlement files                        *)
(* (vix_futures_provider.py) and the contract count (sizing.py).           *)
(*                                                                         *)
(* A date is the number of days since the first of month 1, a month its    *)
(* place in FirstOfMonth. A quote carries the delta Black and Scholes give *)
(* it, in percent, or None; premiums are kept doubled (bid plus ask). Of   *)
(* vol_hedge_state only the latest row is kept: no run reads or changes an *)
(* earlier one.                                                            *)
(***************************************************************************)
EXTENDS Integers, Sequences, FiniteSets, FiniteSetsExt

CONSTANTS
  None,
  FirstOfMonth,    (* The first day of month 1, 2, ...                      *)
  FirstWeekday,    (* The weekday of day 0, Monday being 0.                 *)
  FirstDay, LastDay, (* Bound: the days on which the job runs.              *)
  RollWindow,      (* roll_window_trading_days                              *)
  MinDte, MaxDte, TargetDelta,
  Multiplier,      (* STANDARD_EQUITY_OPTION_MULTIPLIER                     *)
  TargetDollars,   (* target_dollar_allocation(), a tenth of the NAV given. *)
  MinReturns, MinGarchReturns,
  Markets          (* What the providers may answer on a day, see Market.   *)

VARIABLES
  today,
  row,       (* The latest row of vol_hedge_state, or None.                 *)
  seen,      (* What the providers answered to the last run.                *)
  outcome    (* How the last run ended: "none", "sized", or why it failed.  *)

hedgeVars == <<today, row, seen, outcome>>

Months == DOMAIN FirstOfMonth
MonthOf(d) == Max({m \in Months : FirstOfMonth[m] <= d})
Weekday(d) == (FirstWeekday + d) % 7
Friday == 4
Wednesday == 2

(* What the live sources say: the put chain, the last settlement listed of *)
(* each contract (absent if its file cannot be had), SPY's own price, and  *)
(* how many SPY returns price_history holds.                               *)
Quote == [strike : Nat, dte : Nat, delta : Nat \cup {None}, standard : BOOLEAN,
          bid : Nat \cup {None}, ask : Nat \cup {None}]

ASSUME MarketsAssumption ==
  \A m \in Markets : m.chain \subseteq Quote /\ m.spy \in Nat \cup {None}
ASSUME TargetsAssumption ==
  Multiplier \in Nat \ {0} /\ TargetDollars \in Nat /\ TargetDelta \in Nat
-----------------------------------------------------------------------------
ThirdFriday(m) ==
  FirstOfMonth[m] + ((Friday - Weekday(FirstOfMonth[m])) % 7) + 14

Labels == {m \in Months : m + 1 \in Months}

(* The Gregorian calendar, three months of it beyond the last run; a roll  *)
(* window shorter than the four weeks there may be between two contracts.  *)
ASSUME CalendarAssumption ==
  /\ FirstOfMonth \in Seq(Nat) /\ Len(FirstOfMonth) > 3 /\ FirstWeekday \in 0 .. 6
  /\ \A m \in Labels : FirstOfMonth[m + 1] - FirstOfMonth[m] \in 28 .. 31
  /\ FirstDay \in Nat /\ LastDay \in Nat
  /\ FirstOfMonth[1] <= FirstDay /\ FirstDay <= LastDay
  /\ LastDay < FirstOfMonth[Len(FirstOfMonth) - 2]
ASSUME RollAssumption == RollWindow \in 0 .. 19

(* vix_futures_expiration: back from 30 days before the third Friday of    *)
(* the next month to a Wednesday.                                          *)
Expiration == [m \in Labels |->
  LET target == ThirdFriday(m + 1) - 30
  IN target - ((Weekday(target) - Wednesday) % 7)]

(* nearest_unexpired_contracts: the scan starts the month before.          *)
NearestUnexpired(as_of, k) ==
  LET start == MonthOf(as_of) - 1
      scanned == {m \in Labels : m >= start /\ Expiration[m] >= as_of}
  IN Expiration[Min(scanned) + k - 1]

(* numpy.busday_count: the weekdays from d up to, without, e: five a week, *)
(* and those of the days left over.                                        *)
BusinessDays(d, e) ==
  5 * ((e - d) \div 7) + Cardinality({x \in e - ((e - d) % 7) .. e - 1 : Weekday(x) < 5})

Rolled(as_of) == BusinessDays(as_of, NearestUnexpired(as_of, 1)) <= RollWindow

(* A roll to the contract after the next.                                  *)
SizingContractTooFar(as_of) == NearestUnexpired(as_of, IF Rolled(as_of) THEN 3 ELSE 1)

(* A roll a day late.                                                      *)
SizingContractLate(as_of) ==
  NearestUnexpired(as_of,
    IF BusinessDays(as_of, NearestUnexpired(as_of, 1)) < RollWindow THEN 2 ELSE 1)

(* effective_sizing_contract                                               *)
SizingContract(as_of) == NearestUnexpired(as_of, IF Rolled(as_of) THEN 2 ELSE 1)
-----------------------------------------------------------------------------
(* PutQuote.mid_premium is not None.                                       *)
Priceable(q) == q.bid \notin {None, 0} /\ q.ask \notin {None, 0}

(* _quotes_for_expiration for every expiration in the window.              *)
ChainInWindow(chain) == {q \in chain : q.dte \in MinDte .. MaxDte /\ q.standard}

Gap(q) == IF q.delta < TargetDelta THEN TargetDelta - q.delta ELSE q.delta - TargetDelta

(* nearest_to_target_delta: a quote closest to the target; of two equally  *)
(* close ones the first of the chain, whichever that is.                   *)
NearestToTarget(quotes) ==
  LET known == {q \in quotes : q.delta # None}
  IN {q \in known : \A p \in known : Gap(q) <= Gap(p)}

(* The choice before the repair of lines 165-171: a quote without a        *)
(* premium may win, and the run fails.                                     *)
ChoosePutUnfiltered(chain) ==
  {q \in NearestToTarget(ChainInWindow(chain)) : Priceable(q)}

(* select_spy_hedge_put, up to the ties; {} when it raises.                *)
ChoosePut(chain) == NearestToTarget({q \in ChainInWindow(chain) : Priceable(q)})

Premium2(q) == q.bid + q.ask

(* To the nearest contract.                                                *)
ContractsRounded(premium2) ==
  (2 * TargetDollars + (Multiplier * premium2) \div 2) \div (Multiplier * premium2)

(* contracts_for_target_allocation                                         *)
Contracts(premium2) == (2 * TargetDollars) \div (Multiplier * premium2)

(* The settlement of the k-th unexpired contract, or None.                 *)
Settle(market, k) == IF k \in DOMAIN market.settles THEN market.settles[k] ELSE None
-----------------------------------------------------------------------------
HedgeInit ==
  /\ today = FirstDay
  /\ row = None /\ seen = None /\ outcome = "none"

(* The run stops at the first source that fails; the row of an earlier run *)
(* of the day, or of an earlier day, stays.                                *)
Fail(market, why) ==
  /\ seen' = market /\ outcome' = why
  /\ UNCHANGED <<today, row>>

NoPut(market) ==
  /\ market.spy = None \/ ChoosePut(market.chain) = {}
  /\ Fail(market, "no_put")

NoFuture(market) ==
  /\ market.spy # None /\ ChoosePut(market.chain) # {}
  /\ \E k \in {1, 2} : Settle(market, k) = None
  /\ Fail(market, "no_future")

(* INSERT ... ON CONFLICT (date) DO UPDATE of every column.                *)
Size(market) ==
  /\ market.spy # None
  /\ \A k \in {1, 2} : Settle(market, k) # None
  /\ \E put \in ChoosePut(market.chain) :
       row' = [date |-> today,
               front |-> NearestUnexpired(today, 1),
               next |-> NearestUnexpired(today, 2),
               contract |-> SizingContract(today),
               price |-> Settle(market, IF Rolled(today) THEN 2 ELSE 1),
               signal |-> IF Settle(market, 2) >= Settle(market, 1)
                          THEN "contango" ELSE "backwardation",
               realized_known |-> market.returns >= MinReturns,
               garch_known |-> market.returns >= MinGarchReturns /\ market.converges,
               put |-> put,
               action |-> IF Rolled(today) THEN "rolled_and_sized" ELSE "sized",
               contracts |-> Contracts(Premium2(put)),
               dollars2 |-> Contracts(Premium2(put)) * Multiplier * Premium2(put)]
  /\ seen' = market /\ outcome' = "sized"
  /\ UNCHANGED today

NextDay ==
  /\ today < LastDay
  /\ today' = today + 1
  /\ outcome' = "none" /\ seen' = None
  /\ UNCHANGED row

HedgeNext ==
  \/ \E market \in Markets : NoPut(market) \/ NoFuture(market) \/ Size(market)
  \/ NextDay

HedgeSpec == HedgeInit /\ [][HedgeNext]_hedgeVars
-----------------------------------------------------------------------------
(* The hedge rolls forward only: no later run sizes a contract that        *)
(* expires before the one of an earlier run, across expiries, year ends    *)
(* and days the job failed.                                                *)
ContractOnlyAdvances ==
  [][row # None => row'.contract >= row.contract]_row

(* A row's contract is the first of all listed ones that is more than      *)
(* RollWindow weekdays from expiry, and its term structure compares the    *)
(* first two not expired: the scan misses none and skips none.             *)
RollFollowsTheCalendar ==
  row # None =>
    LET expirations == {Expiration[m] : m \in Labels}
    IN /\ row.contract = Min({e \in expirations : BusinessDays(row.date, e) > RollWindow})
       /\ {e \in expirations : row.date <= e /\ e <= row.next} = {row.front, row.next}
       /\ row.front < row.next

(* A run gives up for want of a put only if no standard put in the window  *)
(* has both a premium and a delta, and the put it takes is, among those,   *)
(* nearest to the target.                                                  *)
PutIsNearestUsable ==
  LET usable == {q \in seen.chain : /\ q.standard /\ q.dte \in MinDte .. MaxDte
                                   /\ q.delta # None
                                   /\ q.bid \notin {None, 0} /\ q.ask \notin {None, 0}}
  IN /\ outcome = "no_put" /\ seen.spy # None => usable = {}
     /\ outcome = "sized" => row.put \in usable /\ \A q \in usable : Gap(row.put) <= Gap(q)

(* The hedge costs no more than its target and one contract more would; a  *)
(* recorded 0 therefore says the put was too dear, never that its quote    *)
(* was unusable (sizing.py:24-28, run_hedge_sizing_cron.py:87-88).         *)
SizedToTheTarget ==
  row # None =>
    /\ row.dollars2 <= 2 * TargetDollars
    /\ row.dollars2 + Multiplier * Premium2(row.put) > 2 * TargetDollars
=============================================================================
