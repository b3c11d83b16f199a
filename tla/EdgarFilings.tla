---------------------------- MODULE EdgarFilings ----------------------------
(***************************************************************************)
(* SECEdgarProvider.fetch_fundamentals (src/providers/                     *)
(* sec_edgar_provider.py): one company's XBRL facts, a dict of end date to *)
(* value per concept and tag, become one row of ratios per report date,    *)
(* with a diagnosis of every ratio that never came out.                    *)
(*                                                                         *)
(* Dates are integers in a unit of the instance's choice, values integers, *)
(* a ratio the pair of its numerator and denominator, a variance the       *)
(* window of EPS values it is taken over. Of several facts of one tag with *)
(* the same end (a quarter and the year it closes) the last listed counts; *)
(* the filing given is what is left. The reason counters are read off the  *)
(* rows, which carry their reasons.                                        *)
(***************************************************************************)
EXTENDS Integers, Sequences, FiniteSets, FiniteSetsExt

CONSTANTS
  None,        (* Python's None.                                            *)
  Filings,     (* What EDGAR may answer: concept -> sequence of tags' facts.*)
  PriceIndexes,(* What the price prefetch may give: date -> close, or None. *)
  Tolerance,   (* max_days_tolerance of _nearest_shares                     *)
  Trailing     (* Quarters in the EPS window.                               *)

Concepts == {"net_income", "equity", "liabilities", "liabilities_current",
             "liabilities_noncurrent", "cash", "operating_income", "depreciation",
             "interest", "tax", "operating_cash_flow", "capex", "eps",
             "shares_us_gaap", "shares_dei", "shares_weighted_avg"}

ASSUME NoneAssumption == None \notin Int /\ None \notin Int \X Int
ASSUME TailAssumption == Tolerance \in Nat /\ Trailing \in Nat
ASSUME FilingsAssumption ==
  \A f \in Filings : \A c \in Concepts : \A i \in DOMAIN f[c] :
    i \in Nat /\ \A d \in DOMAIN f[c][i] : d \in Nat /\ f[c][i][d] \in Int
ASSUME PricesAssumption ==
  \A p \in PriceIndexes \ {None} : \A d \in DOMAIN p : d \in Nat /\ p[d] \in Nat \ {0}

VARIABLES
  filing,      (* companyfacts, as EDGAR answered.                          *)
  prices,      (* price_index                                               *)
  left,        (* The report dates not yet processed.                       *)
  eps_history, (* The EPS of the dates processed, in date order.            *)
  rows,        (* results, each with the reasons its date was counted under.*)
  pc           (* "fetched", "loop", "refused" (raised), "returned".        *)

vars == <<filing, prices, left, eps_history, rows, pc>>
-----------------------------------------------------------------------------
Empty == [d \in {} |-> 0]

(* _collect_duration_facts: the facts of the first tag that has any.       *)
Collect(tags) ==
  LET tagged == {i \in DOMAIN tags : DOMAIN tags[i] # {}}
  IN IF tagged = {} THEN Empty ELSE tags[Min(tagged)]

Facts(c) == Collect(filing[c])

Get(facts, d) == IF d \in DOMAIN facts THEN facts[d] ELSE None
OrZero(x) == IF x = None THEN 0 ELSE x

(* _sum_period_dicts                                                       *)
SumPeriods(a, b) ==
  [d \in DOMAIN a \cup DOMAIN b |-> OrZero(Get(a, d)) + OrZero(Get(b, d))]

(* The four lookups of lines 257-271 as they were: on the date itself.     *)
NearestExact(facts, d) == Get(facts, d)

(* _nearest: the latest at or before d, of whatever age.                   *)
Nearest(facts, d) ==
  LET known == {x \in DOMAIN facts : x <= d}
  IN IF known = {} THEN None ELSE facts[Max(known)]

Distance(x, y) == IF x < y THEN y - x ELSE x - y

(* _nearest_shares: the closest within the tolerance; of two equally close *)
(* ones the first listed, on either side.                                  *)
NearestShares(facts, d) ==
  LET near == {x \in DOMAIN facts : Distance(x, d) <= Tolerance}
      best == {x \in near : \A y \in near : Distance(x, d) <= Distance(y, d)}
  IN IF best = {} THEN {None} ELSE {facts[x] : x \in best}

SafeDivide(n, m) == IF n = None \/ m \in {None, 0} THEN None ELSE <<n, m>>

(* Lines 159-167: the split pieces only if the combined tag never occurs.  *)
Liabilities ==
  IF DOMAIN Facts("liabilities") # {} THEN Facts("liabilities")
  ELSE SumPeriods(Facts("liabilities_current"), Facts("liabilities_noncurrent"))

(* The sources as they were before the repair of line 176: the first that  *)
(* has anything at all.                                                    *)
SharesFirstNonEmpty ==
  Collect(<<Facts("shares_us_gaap"), Facts("shares_dei"), Facts("shares_weighted_avg")>>)

(* Lines 190-209: both point-in-time sources, us-gaap first, or else the   *)
(* weighted average.                                                       *)
Shares ==
  LET us == Facts("shares_us_gaap")
      dei == Facts("shares_dei")
      merged == [d \in DOMAIN us \cup DOMAIN dei |-> IF d \in DOMAIN us THEN us[d] ELSE dei[d]]
  IN IF DOMAIN merged # {} THEN merged ELSE Facts("shares_weighted_avg")

(* _lookup_market_cap: the cap, or None, and the reason.                   *)
MarketCap(d, shares) ==
  CASE shares \in {None, 0} -> <<None, "no_shares_this_period">>
    [] shares \notin {None, 0} /\ prices = None -> <<None, "db_error">>
    [] OTHER -> LET close == Nearest(prices, d)
                IN IF close = None THEN <<None, "no_price_data">> ELSE <<close * shares, "ok">>

(* Lines 290-299.                                                          *)
Ebitda(d) ==
  LET part(c) == OrZero(Nearest(Facts(c), d))
      operating == Nearest(Facts("operating_income"), d)
      net == Get(Facts("net_income"), d)
  IN IF operating # None THEN operating + part("depreciation")
     ELSE IF net # None THEN net + part("interest") + part("tax") + part("depreciation")
     ELSE None

(* _trailing_eps_stdev, up to the standard deviation.                      *)
Variance(history) ==
  LET n == Len(history)
      window == SubSeq(history, IF n > Trailing THEN n - Trailing + 1 ELSE 1, n)
  IN IF Len(window) < 2 THEN None ELSE window

Earnings(d) ==
  LET eps == Nearest(Facts("eps"), d)
  IN IF eps = None THEN eps_history ELSE Append(eps_history, eps)

(* One pass of the loop, for a share count the lookup may give.            *)
RowOf(d, shares) ==
  LET equity == Nearest(Facts("equity"), d)
      liabilities == Nearest(Liabilities, d)
      cash == OrZero(Nearest(Facts("cash"), d))
      flow == Nearest(Facts("operating_cash_flow"), d)
      capex == OrZero(Nearest(Facts("capex"), d))
      ebitda == Ebitda(d)
      cap == MarketCap(d, shares)[1]
      ev == IF cap # None /\ ebitda \notin {None, 0} /\ liabilities # None
            THEN SafeDivide(cap + liabilities - cash, ebitda) ELSE None
      fcf == IF cap \notin {None, 0} /\ flow # None
             THEN SafeDivide(flow - capex, cap) ELSE None
  IN [date |-> d,
      roe |-> SafeDivide(Get(Facts("net_income"), d), equity),
      debt_equity |-> SafeDivide(liabilities, equity),
      ev_ebitda |-> ev,
      fcf_yield |-> fcf,
      variance |-> Variance(Earnings(d)),
      cap_reason |-> MarketCap(d, shares)[2],
      ev_reason |-> CASE ev # None -> "ok"
                      [] ev = None /\ cap = None -> "no_market_cap"
                      [] ev = None /\ cap # None /\ ebitda \in {None, 0} -> "no_operating_income"
                      [] OTHER -> "no_liabilities",
      fcf_reason |-> CASE fcf # None -> "ok"
                       [] fcf = None /\ cap \in {None, 0} -> "no_market_cap"
                       [] OTHER -> "no_operating_cash_flow"]

(* Lines 211-221: the dates of net income, or else of equity.              *)
ReportDates ==
  IF DOMAIN Facts("net_income") # {} THEN DOMAIN Facts("net_income")
  ELSE DOMAIN Facts("equity")
-----------------------------------------------------------------------------
(* _fetch_company_facts has answered; its failures are PriceProviderErrors *)
(* like the one of Refuse.                                                 *)
Init ==
  /\ filing \in Filings
  /\ prices \in PriceIndexes
  /\ left = {} /\ eps_history = <<>> /\ rows = <<>>
  /\ pc = "fetched"

(* Nothing usable: the fetch raises.                                       *)
Refuse ==
  /\ pc = "fetched"
  /\ \A c \in {"net_income", "equity", "eps"} : DOMAIN Facts(c) = {}
  /\ pc' = "refused"
  /\ UNCHANGED <<filing, prices, left, eps_history, rows>>

Begin ==
  /\ pc = "fetched"
  /\ \E c \in {"net_income", "equity", "eps"} : DOMAIN Facts(c) # {}
  /\ left' = ReportDates
  /\ pc' = "loop"
  /\ UNCHANGED <<filing, prices, eps_history, rows>>

Report ==
  /\ pc = "loop" /\ left # {}
  /\ LET d == Min(left)
     IN /\ \E shares \in NearestShares(Shares, d) : rows' = Append(rows, RowOf(d, shares))
        /\ eps_history' = Earnings(d)
        /\ left' = left \ {d}
  /\ UNCHANGED <<filing, prices, pc>>

Return ==
  /\ pc = "loop" /\ left = {}
  /\ pc' = "returned"
  /\ UNCHANGED <<filing, prices, left, eps_history, rows>>

Next == Refuse \/ Begin \/ Report \/ Return

Spec == Init /\ [][Next]_vars
-----------------------------------------------------------------------------
(* What is printed on return (lines 350-355).                              *)
Every(field, value) == \A i \in DOMAIN rows : rows[i][field] = value
Some(field, value) == \E i \in DOMAIN rows : rows[i][field] = value

(* Without its last branch, as before 2026-07-13 (lines 637-647).          *)
MarketCapDiagnosisNoMix ==
  CASE rows = <<>> \/ Some("cap_reason", "ok") -> "silent"
    [] Every("cap_reason", "no_shares_this_period") -> "no_shares"
    [] Every("cap_reason", "no_price_data") -> "no_prices"
    [] Some("cap_reason", "db_error") -> "db_error"
    [] OTHER -> "silent"

MarketCapDiagnosis ==
  IF rows = <<>> \/ Some("cap_reason", "ok") THEN "silent"
  ELSE IF Every("cap_reason", "no_shares_this_period")
       THEN IF DOMAIN Shares # {} THEN "shares_dates_never_match" ELSE "no_shares"
  ELSE IF Every("cap_reason", "no_price_data") THEN "no_prices"
  ELSE IF Some("cap_reason", "db_error") THEN "db_error"
  ELSE "mixed"

(* Without its last branch: whatever is left is called a lack of           *)
(* liabilities.                                                            *)
EvDiagnosisNoMix ==
  IF rows = <<>> \/ Some("ev_reason", "ok") \/ Every("ev_reason", "no_market_cap")
  THEN "silent"
  ELSE IF Every("ev_reason", "no_operating_income") THEN "no_operating_income"
  ELSE "no_liabilities"

EvDiagnosis ==
  IF rows = <<>> \/ Some("ev_reason", "ok") \/ Every("ev_reason", "no_market_cap")
  THEN "silent"
  ELSE IF Every("ev_reason", "no_operating_income") THEN "no_operating_income"
  ELSE IF Every("ev_reason", "no_liabilities") THEN "no_liabilities"
  ELSE "mixed"

FcfDiagnosis ==
  IF rows = <<>> \/ Some("fcf_reason", "ok") \/ Every("fcf_reason", "no_market_cap")
  THEN "silent"
  ELSE IF Every("fcf_reason", "no_operating_cash_flow") THEN "no_operating_cash_flow"
  ELSE "mixed"
-----------------------------------------------------------------------------
(* No field fails in silence: a valuation ratio that came out of no period *)
(* is diagnosed beyond the generic warning, the ratio's own diagnosis and  *)
(* the one of the market cap it defers to taken together.                  *)
NoSilentField ==
  pc = "returned" /\ rows # <<>> =>
    /\ Every("ev_ebitda", None) =>
         EvDiagnosis # "silent" \/ MarketCapDiagnosis # "silent"
    /\ Every("fcf_yield", None) =>
         FcfDiagnosis # "silent" \/ MarketCapDiagnosis # "silent"

(* A company has a share count in every period near which either point-in- *)
(* time source has one: neither a sparse us-gaap tag nor the weighted      *)
(* average hides the cover page, or the other way round. Exempt is a       *)
(* period with a count of 0 near: a 0 tagged in us-gaap may hide the cover *)
(* page's count, and a 0 is treated like no count at all.                  *)
PointInTimeSources == {"shares_us_gaap", "shares_dei"}
CountsNear(date) ==
  {Facts(f[1])[f[2]] :
     f \in {g \in PointInTimeSources \X UNION {DOMAIN Facts(c) : c \in PointInTimeSources} :
             g[2] \in DOMAIN Facts(g[1]) /\ Distance(g[2], date) <= Tolerance}}

SharesFromAnySource ==
  \A i \in DOMAIN rows :
    rows[i].cap_reason = "no_shares_this_period" =>
      CountsNear(rows[i].date) = {} \/ 0 \in CountsNear(rows[i].date)

(* Facts of one filing need not share their end date with its report (the  *)
(* failure of some thirty tickers, lines 257-266): a period with a market  *)
(* cap has a cash flow yield as soon as a cash flow was ever reported by   *)
(* then, and with liabilities and a net income, EV/EBITDA unless that is 0.*)
RatiosNeedNoExactDates ==
  \A i \in DOMAIN rows :
    LET known(c) == \E d \in DOMAIN Facts(c) : d <= rows[i].date
    IN rows[i].cap_reason = "ok" =>
         /\ known("operating_cash_flow") => rows[i].fcf_yield # None
         /\ (/\ known("liabilities")
             /\ known("operating_income") \/ rows[i].date \in DOMAIN Facts("net_income"))
            => rows[i].ev_ebitda # None \/ Ebitda(rows[i].date) = 0

(* A diagnosis that names a cause for every period is right about each of  *)
(* them, so that the operator looks in the right place. One exception: for *)
(* a company that reports a share count of 0 (of two equally close counts  *)
(* either may be the one taken), see ShareDatesDiagnosisIsTrue.            *)
DiagnosesAreTrue ==
  pc = "returned" =>
    /\ EvDiagnosis = "no_liabilities" =>
         \A i \in DOMAIN rows : rows[i].debt_equity = None /\ rows[i].cap_reason = "ok"
    /\ EvDiagnosis = "no_operating_income" =>
         \A i \in DOMAIN rows : Ebitda(rows[i].date) \in {None, 0} /\ rows[i].cap_reason = "ok"
    /\ FcfDiagnosis = "no_operating_cash_flow" =>
         \A i \in DOMAIN rows, d \in DOMAIN Facts("operating_cash_flow") : d > rows[i].date
    /\ MarketCapDiagnosis = "no_prices" =>
         \A i \in DOMAIN rows, d \in DOMAIN prices : d > rows[i].date
    /\ MarketCapDiagnosis = "shares_dates_never_match" =>
         \A i \in DOMAIN rows :
           \/ \A d \in DOMAIN Shares : Distance(d, rows[i].date) > Tolerance
           \/ 0 \in NearestShares(Shares, rows[i].date)

(* Lines 605-610: "no per-period date match ever succeeded". Not so of a   *)
(* company whose share count is 0 on the very date: the lookup found it,   *)
(* _lookup_market_cap counts a 0 as no shares, and the message blames the  *)
(* dates.                                                                  *)
ShareDatesDiagnosisIsTrue ==
  pc = "returned" /\ MarketCapDiagnosis = "shares_dates_never_match" =>
    \A i \in DOMAIN rows, d \in DOMAIN Shares : Distance(d, rows[i].date) > Tolerance
=============================================================================
