-------------------------- MODULE EdgarScores_proofs --------------------------
(***************************************************************************)
(* Proofs about the fundamentals of a filing and about the scores made of  *)
(* fundamentals and prices.                                                *)
(*                                                                         *)
(* EdgarFilings, for every filing and price index, whatever dates its      *)
(* facts have. NoSilentField, SharesFromAnySource, RatiosNeedNoExactDates  *)
(* and DiagnosesAreTrue follow from what holds of each row by itself: its  *)
(* reasons say which ratio came out (Reasoned), a row without a share      *)
(* count has none near its date in either point-in-time source (Counted),  *)
(* a row with a market cap has the ratios whose facts were known by then   *)
(* (Derived), and what a reason blames was missing for that row            *)
(* (Diagnosed).                                                            *)
(*                                                                         *)
(* FactorScores, for any universe, reports and dates and any number of     *)
(* runs, failures and restarts: a backfill never holds a date it has done  *)
(* (PlanInv), and a scorer under way is at a 'running' run of its own      *)
(* (CurrentInv).                                                           *)
(***************************************************************************)
EXTENDS EdgarFilings, FactorScores, FiniteSetTheorems, WellFoundedInduction, TLAPS

Reasoned(r) ==
  /\ r.ev_reason = "ok" <=> r.ev_ebitda # None
  /\ r.fcf_reason = "ok" <=> r.fcf_yield # None
  /\ r.ev_reason = "no_market_cap" => r.cap_reason # "ok"
  /\ r.fcf_reason = "no_market_cap" => r.cap_reason # "ok"

Counted(r) ==
  r.cap_reason = "no_shares_this_period" => CountsNear(r.date) = {} \/ 0 \in CountsNear(r.date)

Known(c, d) == \E x \in DOMAIN Facts(c) : x <= d

Derived(r) ==
  r.cap_reason = "ok" =>
    /\ Known("operating_cash_flow", r.date) => r.fcf_yield # None
    /\ (/\ Known("liabilities", r.date)
        /\ Known("operating_income", r.date) \/ r.date \in DOMAIN Facts("net_income"))
       => r.ev_ebitda # None \/ Ebitda(r.date) = 0

Diagnosed(r) ==
  /\ r.ev_reason = "no_liabilities" => r.debt_equity = None /\ r.cap_reason = "ok"
  /\ r.ev_reason = "no_operating_income" => Ebitda(r.date) \in {None, 0} /\ r.cap_reason = "ok"
  /\ r.fcf_reason = "no_operating_cash_flow" =>
       \A x \in DOMAIN Facts("operating_cash_flow") : x > r.date
  /\ r.cap_reason = "no_price_data" => \A x \in DOMAIN prices : x > r.date
  /\ r.cap_reason = "no_shares_this_period" =>
       \/ \A x \in DOMAIN Shares : Distance(x, r.date) > Tolerance
       \/ 0 \in NearestShares(Shares, r.date)

IsRows == \E S : rows \in Seq(S)

IInv ==
  /\ filing \in Filings /\ prices \in PriceIndexes
  /\ left \subseteq Nat
  /\ IsRows
  /\ \A i \in DOMAIN rows :
       Reasoned(rows[i]) /\ Counted(rows[i]) /\ Derived(rows[i]) /\ Diagnosed(rows[i])
-----------------------------------------------------------------------------
(* A set of numbers with an element has a least one.                       *)
LEMMA MinIsLeast ==
  ASSUME NEW S \in SUBSET Nat, S # {}
  PROVE  Min(S) \in S /\ \A x \in S : Min(S) <= x
<1>1. PICK m \in S : \A y \in S : ~ (<<y, m>> \in OpToRel(<, Nat))
  BY NatLessThanWellFounded, WFMin
<1>2. ASSUME NEW y \in S PROVE m <= y
  <2>1. m \in Nat /\ y \in Nat
    OBVIOUS
  <2>2. ~ (y < m)
    BY <1>1, <2>1 DEF OpToRel
  <2> QED  BY <2>1, <2>2
<1> QED  BY <1>2 DEF Min

(* One bounded from above has a greatest one.                              *)
LEMMA MaxIsGreatest ==
  ASSUME NEW S \in SUBSET Nat, S # {}, NEW b \in Nat, \A x \in S : x <= b
  PROVE  Max(S) \in S /\ \A x \in S : x <= Max(S)
<1> PICK T \in SUBSET Nat : T = {b - x : x \in S}
  <2>1. \A x \in S : b - x \in Nat
    OBVIOUS
  <2> QED  BY <2>1
<1>1. T # {}
  OBVIOUS
<1>2. Min(T) \in T /\ \A y \in T : Min(T) <= y
  BY <1>1, MinIsLeast
<1> PICK m \in S : Min(T) = b - m  BY <1>2
<1>3. \A x \in S : b - m <= b - x
  BY <1>2
<1>4. \A x \in S : m >= x
  BY <1>3
<1>5. Max(S) \in S /\ \A x \in S : Max(S) >= x
  BY <1>4 DEF Max
<1>6. \A x \in S : x <= Max(S)
  BY <1>5
<1> QED  BY <1>5, <1>6

(* A concept's facts are numbers at dates.                                 *)
LEMMA FactsTyped ==
  ASSUME filing \in Filings, NEW c \in Concepts
  PROVE  DOMAIN Facts(c) \subseteq Nat /\ \A d \in DOMAIN Facts(c) : Facts(c)[d] \in Int
<1> PICK tags : tags = filing[c]  OBVIOUS
<1>1. \A i \in DOMAIN tags : i \in Nat /\ \A d \in DOMAIN tags[i] : d \in Nat /\ tags[i][d] \in Int
  BY FilingsAssumption
<1> PICK tagged \in SUBSET Nat : tagged = {i \in DOMAIN tags : DOMAIN tags[i] # {}}
  BY <1>1
<1>2. CASE tagged = {}
  <2>1. Facts(c) = Empty
    BY <1>2 DEF Facts, Collect
  <2> QED  BY <2>1 DEF Empty
<1>3. CASE tagged # {}
  <2>1. Min(tagged) \in tagged
    BY <1>3, MinIsLeast
  <2>2. Facts(c) = tags[Min(tagged)]
    BY <1>3 DEF Facts, Collect
  <2> QED  BY <1>1, <2>1, <2>2
<1> QED  BY <1>2, <1>3

(* _nearest finds a value exactly if one is dated by then.                 *)
LEMMA NearestOfFacts ==
  ASSUME NEW facts, DOMAIN facts \subseteq Nat, NEW V, \A x \in DOMAIN facts : facts[x] \in V,
         NEW d \in Nat
  PROVE  /\ (\E x \in DOMAIN facts : x <= d) => Nearest(facts, d) \in V
         /\ ~ (\E x \in DOMAIN facts : x <= d) => Nearest(facts, d) = None
<1> PICK known \in SUBSET Nat : known = {x \in DOMAIN facts : x <= d}
  OBVIOUS
<1>1. CASE known = {}
  BY <1>1 DEF Nearest
<1>2. CASE known # {}
  <2>1. \A x \in known : x <= d
    OBVIOUS
  <2>2. Max(known) \in known
    BY <1>2, <2>1, MaxIsGreatest
  <2>3. Nearest(facts, d) = facts[Max(known)]
    BY <1>2 DEF Nearest
  <2> QED  BY <2>2, <2>3
<1> QED  BY <1>1, <1>2

(* A price found is one of the index; none is if all are dated later.      *)
LEMMA CloseTyped ==
  ASSUME prices \in PriceIndexes, prices # None, NEW d \in Nat
  PROVE  /\ Nearest(prices, d) \in (Nat \ {0}) \cup {None}
         /\ Nearest(prices, d) = None => \A x \in DOMAIN prices : x > d
<1>1. DOMAIN prices \subseteq Nat /\ \A x \in DOMAIN prices : prices[x] \in Nat \ {0}
  BY PricesAssumption
<1>2. /\ (\E x \in DOMAIN prices : x <= d) => Nearest(prices, d) \in Nat \ {0}
      /\ ~ (\E x \in DOMAIN prices : x <= d) => Nearest(prices, d) = None
  BY <1>1, NearestOfFacts
<1>3. None \notin Nat
  BY NoneAssumption
<1> QED  BY <1>1, <1>2, <1>3

(* A market cap is a number other than 0, or there is a reason for none.   *)
LEMMA CapOrReason ==
  ASSUME prices \in PriceIndexes, NEW d \in Nat, NEW shares \in Int \cup {None}
  PROVE  LET cap == MarketCap(d, shares)
         IN /\ cap[2] = "ok" => cap[1] \in Int \ {0, None}
            /\ cap[2] # "ok" => cap[1] = None
<1>1. CASE shares \in {None, 0}
  BY <1>1 DEF MarketCap
<1>2. CASE shares \notin {None, 0} /\ prices = None
  BY <1>2 DEF MarketCap
<1>3. CASE shares \notin {None, 0} /\ prices # None
  <2> PICK close : close = Nearest(prices, d)  OBVIOUS
  <2>1. MarketCap(d, shares) =
          IF close = None THEN <<None, "no_price_data">> ELSE <<close * shares, "ok">>
    BY <1>3 DEF MarketCap
  <2>2. CASE close = None
    BY <2>1, <2>2
  <2>3. CASE close # None
    <3>1. close \in Nat \ {0} /\ shares \in Int \ {0}
      BY <1>3, <2>3, CloseTyped
    <3>2. close * shares \in Int /\ close * shares # 0
      BY <3>1
    <3>3. close * shares # None
      BY <3>2, NoneAssumption
    <3> QED  BY <2>1, <2>3, <3>2, <3>3
  <2> QED  BY <2>2, <2>3
<1> QED  BY <1>1, <1>2, <1>3

(* Shares are said to be missing only if they are.                         *)
LEMMA ReasonIsMissingShares ==
  ASSUME NEW d, NEW shares, MarketCap(d, shares)[2] = "no_shares_this_period"
  PROVE  shares \in {None, 0}
<1> SUFFICES ASSUME shares \notin {None, 0} PROVE FALSE  OBVIOUS
<1>1. CASE prices = None
  BY <1>1 DEF MarketCap
<1>2. CASE prices # None
  <2>1. MarketCap(d, shares) =
          IF Nearest(prices, d) = None THEN <<None, "no_price_data">>
          ELSE <<Nearest(prices, d) * shares, "ok">>
    BY <1>2 DEF MarketCap
  <2> QED  BY <2>1
<1> QED  BY <1>1, <1>2

(* The reasons of a row say which of its ratios came out.                  *)
LEMMA RowIsReasoned ==
  ASSUME prices \in PriceIndexes, NEW d \in Nat, NEW shares \in Int \cup {None}
  PROVE  Reasoned(RowOf(d, shares))
<1> PICK cap, reason : cap = MarketCap(d, shares)[1] /\ reason = MarketCap(d, shares)[2]
  OBVIOUS
<1>1. /\ reason = "ok" => cap \in Int \ {0, None}
      /\ reason # "ok" => cap = None
  BY CapOrReason
<1> PICK r : r = RowOf(d, shares)  OBVIOUS
<1>2. r.cap_reason = reason
  BY DEF RowOf
<1>3. r.ev_reason = IF r.ev_ebitda # None THEN "ok"
                    ELSE IF cap = None THEN "no_market_cap"
                    ELSE IF Ebitda(d) \in {None, 0} THEN "no_operating_income"
                    ELSE "no_liabilities"
  BY DEF RowOf
<1>4. r.fcf_reason = IF r.fcf_yield # None THEN "ok"
                     ELSE IF cap \in {None, 0} THEN "no_market_cap"
                     ELSE "no_operating_cash_flow"
  BY DEF RowOf
<1>5. /\ r.ev_reason = "ok" <=> r.ev_ebitda # None
      /\ r.ev_reason = "no_market_cap" => r.cap_reason # "ok"
  BY <1>1, <1>2, <1>3
<1>6. /\ r.fcf_reason = "ok" <=> r.fcf_yield # None
      /\ r.fcf_reason = "no_market_cap" => r.cap_reason # "ok"
  BY <1>1, <1>2, <1>4
<1> QED  BY <1>5, <1>6 DEF Reasoned

(* Every share count is one of a source.                                   *)
LEMMA SharesTyped ==
  ASSUME filing \in Filings
  PROVE  /\ DOMAIN Shares \subseteq Nat
         /\ \A d \in DOMAIN Shares : Shares[d] \in Int
         /\ \A c \in PointInTimeSources : DOMAIN Facts(c) \subseteq DOMAIN Shares
         /\ (\E c \in PointInTimeSources : DOMAIN Facts(c) # {}) =>
              \A d \in DOMAIN Shares : \E c \in PointInTimeSources :
                d \in DOMAIN Facts(c) /\ Shares[d] = Facts(c)[d]
<1> PICK us : us = Facts("shares_us_gaap")  OBVIOUS
<1> PICK dei : dei = Facts("shares_dei")  OBVIOUS
<1> PICK merged : merged = [d \in DOMAIN us \cup DOMAIN dei |->
                              IF d \in DOMAIN us THEN us[d] ELSE dei[d]]
  OBVIOUS
<1>1. Shares = IF DOMAIN merged # {} THEN merged ELSE Facts("shares_weighted_avg")
  BY DEF Shares
<1>2. /\ DOMAIN us \subseteq Nat /\ \A d \in DOMAIN us : us[d] \in Int
      /\ DOMAIN dei \subseteq Nat /\ \A d \in DOMAIN dei : dei[d] \in Int
  BY FactsTyped DEF Concepts
<1>3. /\ DOMAIN Facts("shares_weighted_avg") \subseteq Nat
      /\ \A d \in DOMAIN Facts("shares_weighted_avg") : Facts("shares_weighted_avg")[d] \in Int
  BY FactsTyped DEF Concepts
<1>4. DOMAIN merged = DOMAIN us \cup DOMAIN dei
  OBVIOUS
<1>5. CASE DOMAIN merged # {}
  <2>1. Shares = merged
    BY <1>1, <1>5
  <2>2. \A d \in DOMAIN merged :
          \/ d \in DOMAIN us /\ merged[d] = us[d]
          \/ d \in DOMAIN dei /\ merged[d] = dei[d]
    OBVIOUS
  <2> QED  BY <2>1, <2>2, <1>2, <1>4 DEF PointInTimeSources
<1>6. CASE DOMAIN merged = {}
  <2>1. Shares = Facts("shares_weighted_avg")
    BY <1>1, <1>6
  <2>2. \A c \in PointInTimeSources : DOMAIN Facts(c) = {}
    BY <1>4, <1>6 DEF PointInTimeSources
  <2> QED  BY <2>1, <2>2, <1>3
<1> QED  BY <1>5, <1>6

LEMMA DistanceTyped ==
  ASSUME NEW x \in Nat, NEW y \in Nat
  PROVE  Distance(x, y) \in Nat
BY DEF Distance

(* _nearest_shares finds a count of a date near, and misses none.          *)
LEMMA NearestSharesFinds ==
  ASSUME filing \in Filings, NEW d \in Nat, NEW shares \in NearestShares(Shares, d)
  PROVE  \/ /\ shares = None
            /\ ~ \E x \in DOMAIN Shares : Distance(x, d) <= Tolerance
         \/ \E x \in DOMAIN Shares : Distance(x, d) <= Tolerance /\ shares = Shares[x]
<1> PICK near : near = {x \in DOMAIN Shares : Distance(x, d) <= Tolerance}  OBVIOUS
<1> PICK best : best = {x \in near : \A y \in near : Distance(x, d) <= Distance(y, d)}  OBVIOUS
<1>1. shares \in IF best = {} THEN {None} ELSE {Shares[x] : x \in best}
  BY DEF NearestShares
<1>2. CASE best # {}
  BY <1>1, <1>2
<1>3. CASE best = {}
  <2>1. near = {}
    <3> SUFFICES ASSUME near # {} PROVE FALSE  OBVIOUS
    <3>1. \A x \in near : Distance(x, d) \in Nat
      BY SharesTyped, DistanceTyped
    <3> PICK T \in SUBSET Nat : T = {Distance(x, d) : x \in near}  BY <3>1
    <3>2. T # {}
      OBVIOUS
    <3>3. Min(T) \in T /\ \A y \in T : Min(T) <= y
      BY <3>2, MinIsLeast
    <3> PICK x \in near : Min(T) = Distance(x, d)  BY <3>3
    <3>4. x \in best
      BY <3>3
    <3> QED  BY <3>4, <1>3
  <2> QED  BY <1>1, <1>3, <2>1
<1> QED  BY <1>2, <1>3

(* A count near the date in a point-in-time source is among CountsNear.    *)
LEMMA NearIsCounted ==
  ASSUME NEW d, NEW c \in PointInTimeSources, NEW x \in DOMAIN Facts(c), Distance(x, d) <= Tolerance
  PROVE  Facts(c)[x] \in CountsNear(d)
<1> PICK f : f = <<c, x>>  OBVIOUS
<1>1. f \in PointInTimeSources \X UNION {DOMAIN Facts(b) : b \in PointInTimeSources}
  OBVIOUS
<1>2. f[1] = c /\ f[2] = x
  OBVIOUS
<1> QED  BY <1>1, <1>2 DEF CountsNear

(* And those are there only if such a source has a date near.              *)
LEMMA CountedIsNear ==
  ASSUME NEW d, CountsNear(d) # {}
  PROVE  \E c \in PointInTimeSources : \E x \in DOMAIN Facts(c) : Distance(x, d) <= Tolerance
BY DEF CountsNear

(* A row without shares has none near in any source it should have.        *)
LEMMA RowIsCounted ==
  ASSUME filing \in Filings, prices \in PriceIndexes,
         NEW d \in Nat, NEW shares \in NearestShares(Shares, d)
  PROVE  Counted(RowOf(d, shares)) /\ shares \in Int \cup {None}
<1>1. shares \in Int \cup {None}
  BY NearestSharesFinds, SharesTyped
<1> PICK r : r = RowOf(d, shares)  OBVIOUS
<1>2. r.date = d /\ r.cap_reason = MarketCap(d, shares)[2]
  BY DEF RowOf
<1>3. ASSUME r.cap_reason = "no_shares_this_period", CountsNear(d) # {}
      PROVE  0 \in CountsNear(d)
  <2>1. shares \in {None, 0}
    <3>1. MarketCap(d, shares)[2] = "no_shares_this_period"
      BY <1>2, <1>3
    <3>2. MarketCap(d, shares)[2] = "no_shares_this_period" => shares \in {None, 0}
      BY <1>1, ReasonIsMissingShares
    <3> QED  BY <3>1, <3>2
  <2>2. PICK c \in PointInTimeSources : \E x \in DOMAIN Facts(c) : Distance(x, d) <= Tolerance
    BY <1>3, CountedIsNear
  <2>3. \E x \in DOMAIN Shares : Distance(x, d) <= Tolerance
    BY <2>2, SharesTyped
  <2>4. PICK x \in DOMAIN Shares : Distance(x, d) <= Tolerance /\ shares = Shares[x]
    BY <2>3, NearestSharesFinds
  <2>5. shares = 0
    BY <2>1, <2>4, SharesTyped, NoneAssumption
  <2>6. PICK b \in PointInTimeSources : x \in DOMAIN Facts(b) /\ Shares[x] = Facts(b)[x]
    BY <2>2, SharesTyped
  <2> QED  BY <2>4, <2>5, <2>6, NearIsCounted
<1> QED  BY <1>1, <1>2, <1>3 DEF Counted

(* A fact known by a date is found, and is a number.                       *)
LEMMA NearestFinds ==
  ASSUME filing \in Filings, NEW c \in Concepts, NEW d \in Nat
  PROVE  /\ Known(c, d) => Nearest(Facts(c), d) \in Int
         /\ ~ Known(c, d) => Nearest(Facts(c), d) = None
BY FactsTyped, NearestOfFacts DEF Known

LEMMA NearestTyped ==
  ASSUME filing \in Filings, NEW c \in Concepts, NEW d \in Nat
  PROVE  Nearest(Facts(c), d) \in Int \cup {None} /\ OrZero(Nearest(Facts(c), d)) \in Int
<1>1. Nearest(Facts(c), d) \in Int \cup {None}
  BY NearestFinds
<1> QED  BY <1>1 DEF OrZero

(* EBITDA is there as soon as operating income is known, or net income     *)
(* reported for the very date.                                             *)
LEMMA EbitdaFinds ==
  ASSUME filing \in Filings, NEW d \in Nat
  PROVE  /\ Ebitda(d) \in Int \cup {None}
         /\ Known("operating_income", d) \/ d \in DOMAIN Facts("net_income") => Ebitda(d) \in Int
<1> PICK operating : operating = Nearest(Facts("operating_income"), d)  OBVIOUS
<1> PICK net : net = Get(Facts("net_income"), d)  OBVIOUS
<1> PICK dep : dep = OrZero(Nearest(Facts("depreciation"), d))  OBVIOUS
<1> PICK interest : interest = OrZero(Nearest(Facts("interest"), d))  OBVIOUS
<1> PICK tax : tax = OrZero(Nearest(Facts("tax"), d))  OBVIOUS
<1>1. dep \in Int /\ interest \in Int /\ tax \in Int
  BY NearestTyped DEF Concepts
<1>2. operating \in Int \cup {None} /\ (Known("operating_income", d) => operating \in Int)
  BY NearestTyped, NearestFinds DEF Concepts
<1>3. net \in Int \cup {None} /\ (d \in DOMAIN Facts("net_income") => net \in Int)
  BY FactsTyped DEF Concepts, Get
<1>4. Ebitda(d) = IF operating # None THEN operating + dep
                  ELSE IF net # None THEN net + interest + tax + dep ELSE None
  BY DEF Ebitda
<1>5. CASE operating # None
  BY <1>1, <1>2, <1>4, <1>5
<1>6. CASE operating = None /\ net # None
  <2>1. net \in Int
    BY <1>3, <1>6
  <2> QED  BY <1>1, <1>4, <1>6, <2>1
<1>7. CASE operating = None /\ net = None
  <2>1. ~ Known("operating_income", d) /\ d \notin DOMAIN Facts("net_income")
    BY <1>2, <1>3, <1>7, NoneAssumption
  <2> QED  BY <1>4, <1>7, <2>1
<1> QED  BY <1>5, <1>6, <1>7

(* Liabilities are numbers at dates, put together from pieces or not.      *)
LEMMA LiabilitiesTyped ==
  ASSUME filing \in Filings, NEW d \in Nat
  PROVE  Nearest(Liabilities, d) \in Int \cup {None}
<1> PICK a, b : a = Facts("liabilities_current") /\ b = Facts("liabilities_noncurrent")
  OBVIOUS
<1>1. /\ DOMAIN a \subseteq Nat /\ \A x \in DOMAIN a : a[x] \in Int
      /\ DOMAIN b \subseteq Nat /\ \A x \in DOMAIN b : b[x] \in Int
  BY FactsTyped DEF Concepts
<1> PICK sum : sum = SumPeriods(a, b)  OBVIOUS
<1>2. \A x : OrZero(Get(a, x)) \in Int /\ OrZero(Get(b, x)) \in Int
  BY <1>1 DEF OrZero, Get
<1>3. DOMAIN sum \subseteq Nat /\ \A x \in DOMAIN sum : sum[x] \in Int
  BY <1>1, <1>2 DEF SumPeriods
<1>4. DOMAIN Facts("liabilities") \subseteq Nat
      /\ \A x \in DOMAIN Facts("liabilities") : Facts("liabilities")[x] \in Int
  BY FactsTyped DEF Concepts
<1>5. Liabilities = IF DOMAIN Facts("liabilities") # {} THEN Facts("liabilities") ELSE sum
  BY DEF Liabilities
<1>6. DOMAIN Liabilities \subseteq Nat /\ \A x \in DOMAIN Liabilities : Liabilities[x] \in Int
  BY <1>3, <1>4, <1>5
<1> QED  BY <1>6, NearestOfFacts

LEMMA QuotientIsNotNone ==
  ASSUME NEW n \in Int, NEW m \in Int \ {0}
  PROVE  SafeDivide(n, m) # None
<1>1. n # None /\ m # None /\ <<n, m>> # None
  BY NoneAssumption
<1> QED  BY <1>1 DEF SafeDivide

(* A row with a market cap has the ratios whose facts were known by then.  *)
LEMMA RowIsDerived ==
  ASSUME filing \in Filings, prices \in PriceIndexes,
         NEW d \in Nat, NEW shares \in Int \cup {None}
  PROVE  Derived(RowOf(d, shares))
<1> PICK cap, reason : cap = MarketCap(d, shares)[1] /\ reason = MarketCap(d, shares)[2]
  OBVIOUS
<1> PICK r : r = RowOf(d, shares)  OBVIOUS
<1>1. reason = "ok" => cap \in Int \ {0, None}
  BY CapOrReason
<1>2. r.date = d /\ r.cap_reason = reason
  BY DEF RowOf
<1>3. ASSUME reason = "ok", Known("operating_cash_flow", d)
      PROVE  r.fcf_yield # None
  <2> PICK flow : flow = Nearest(Facts("operating_cash_flow"), d)  OBVIOUS
  <2> PICK capex : capex = OrZero(Nearest(Facts("capex"), d))  OBVIOUS
  <2>1. flow \in Int /\ flow # None /\ capex \in Int
    BY <1>3, NearestFinds, NearestTyped, NoneAssumption DEF Concepts
  <2>2. r.fcf_yield = IF cap \notin {None, 0} /\ flow # None
                      THEN SafeDivide(flow - capex, cap) ELSE None
    BY DEF RowOf
  <2>3. flow - capex \in Int /\ cap \in Int \ {0} /\ cap # None
    BY <1>1, <1>3, <2>1
  <2> QED  BY <2>1, <2>2, <2>3, QuotientIsNotNone
<1>4. ASSUME reason = "ok", Known("liabilities", d),
             Known("operating_income", d) \/ d \in DOMAIN Facts("net_income")
      PROVE  r.ev_ebitda # None \/ Ebitda(d) = 0
  <2> PICK liabilities : liabilities = Nearest(Liabilities, d)  OBVIOUS
  <2> PICK cash : cash = OrZero(Nearest(Facts("cash"), d))  OBVIOUS
  <2> PICK ebitda : ebitda = Ebitda(d)  OBVIOUS
  <2>1. Liabilities = Facts("liabilities")
    BY <1>4 DEF Liabilities, Known
  <2>2. liabilities \in Int /\ liabilities # None /\ cash \in Int
    BY <1>4, <2>1, NearestFinds, NearestTyped, NoneAssumption DEF Concepts
  <2>3. ebitda \in Int /\ ebitda # None
    BY <1>4, EbitdaFinds, NoneAssumption
  <2>4. r.ev_ebitda = IF cap # None /\ ebitda \notin {None, 0} /\ liabilities # None
                      THEN SafeDivide(cap + liabilities - cash, ebitda) ELSE None
    BY DEF RowOf
  <2>5. cap + liabilities - cash \in Int /\ cap # None
    BY <1>1, <1>4, <2>2
  <2>6. CASE ebitda = 0
    BY <2>6
  <2>7. CASE ebitda # 0
    BY <2>2, <2>3, <2>4, <2>5, <2>7, QuotientIsNotNone
  <2> QED  BY <2>6, <2>7
<1> QED  BY <1>2, <1>3, <1>4 DEF Derived

(* There is no market cap for want of a price only if all prices are dated *)
(* later.                                                                  *)
LEMMA ReasonIsMissingPrice ==
  ASSUME prices \in PriceIndexes, NEW d \in Nat, NEW shares,
         MarketCap(d, shares)[2] = "no_price_data"
  PROVE  \A x \in DOMAIN prices : x > d
<1>1. CASE shares \in {None, 0}
  <2>1. MarketCap(d, shares) = <<None, "no_shares_this_period">>
    BY <1>1 DEF MarketCap
  <2> QED  BY <2>1
<1>2. CASE shares \notin {None, 0} /\ prices = None
  <2>1. MarketCap(d, shares) = <<None, "db_error">>
    BY <1>2 DEF MarketCap
  <2> QED  BY <2>1
<1>3. CASE shares \notin {None, 0} /\ prices # None
  <2>1. MarketCap(d, shares) =
          IF Nearest(prices, d) = None THEN <<None, "no_price_data">>
          ELSE <<Nearest(prices, d) * shares, "ok">>
    BY <1>3 DEF MarketCap
  <2>2. Nearest(prices, d) = None
    BY <2>1
  <2> QED  BY <1>3, <2>2, CloseTyped
<1> QED  BY <1>1, <1>2, <1>3

(* What the reasons of a row blame was missing.                            *)
LEMMA RowIsDiagnosed ==
  ASSUME filing \in Filings, prices \in PriceIndexes,
         NEW d \in Nat, NEW shares \in NearestShares(Shares, d), shares \in Int \cup {None}
  PROVE  Diagnosed(RowOf(d, shares))
<1> PICK cap, reason : cap = MarketCap(d, shares)[1] /\ reason = MarketCap(d, shares)[2]
  OBVIOUS
<1> PICK r : r = RowOf(d, shares)  OBVIOUS
<1> PICK liabilities : liabilities = Nearest(Liabilities, d)  OBVIOUS
<1> PICK ebitda : ebitda = Ebitda(d)  OBVIOUS
<1> PICK cash : cash = OrZero(Nearest(Facts("cash"), d))  OBVIOUS
<1>1. /\ reason = "ok" => cap \in Int \ {0, None}
      /\ reason # "ok" => cap = None
  BY CapOrReason
<1>2. r.date = d /\ r.cap_reason = reason
  BY DEF RowOf
<1>3. r.ev_reason = IF r.ev_ebitda # None THEN "ok"
                    ELSE IF cap = None THEN "no_market_cap"
                    ELSE IF ebitda \in {None, 0} THEN "no_operating_income"
                    ELSE "no_liabilities"
  BY DEF RowOf
<1>4. r.ev_ebitda = IF cap # None /\ ebitda \notin {None, 0} /\ liabilities # None
                    THEN SafeDivide(cap + liabilities - cash, ebitda) ELSE None
  BY DEF RowOf
<1>5. liabilities \in Int \cup {None} /\ ebitda \in Int \cup {None} /\ cash \in Int
  BY LiabilitiesTyped, EbitdaFinds, NearestTyped DEF Concepts
<1>6. ASSUME r.ev_reason = "no_liabilities"
      PROVE  r.debt_equity = None /\ reason = "ok"
  <2>1. r.ev_ebitda = None /\ cap # None /\ ebitda \notin {None, 0}
    BY <1>3, <1>6
  <2>2. ASSUME liabilities # None PROVE FALSE
    <3>1. cap \in Int /\ liabilities \in Int /\ ebitda \in Int \ {0}
      BY <1>1, <1>5, <2>1, <2>2
    <3>2. cap + liabilities - cash \in Int
      BY <1>5, <3>1
    <3> QED  BY <1>4, <2>1, <2>2, <3>1, <3>2, QuotientIsNotNone
  <2>3. r.debt_equity = SafeDivide(liabilities, Nearest(Facts("equity"), d))
    BY DEF RowOf
  <2> QED  BY <1>1, <2>1, <2>2, <2>3 DEF SafeDivide
<1>7. r.ev_reason = "no_operating_income" => ebitda \in {None, 0} /\ reason = "ok"
  BY <1>1, <1>3
<1>8. ASSUME r.fcf_reason = "no_operating_cash_flow"
      PROVE  \A x \in DOMAIN Facts("operating_cash_flow") : x > d
  <2> PICK flow : flow = Nearest(Facts("operating_cash_flow"), d)  OBVIOUS
  <2> PICK capex : capex = OrZero(Nearest(Facts("capex"), d))  OBVIOUS
  <2>1. r.fcf_reason = IF r.fcf_yield # None THEN "ok"
                       ELSE IF cap \in {None, 0} THEN "no_market_cap"
                       ELSE "no_operating_cash_flow"
    BY DEF RowOf
  <2>2. r.fcf_yield = IF cap \notin {None, 0} /\ flow # None
                      THEN SafeDivide(flow - capex, cap) ELSE None
    BY DEF RowOf
  <2>3. r.fcf_yield = None /\ cap \in Int \ {0, None}
    BY <1>1, <1>8, <2>1
  <2>4. capex \in Int /\ flow \in Int \cup {None}
    BY NearestTyped DEF Concepts
  <2>5. ASSUME flow # None PROVE FALSE
    <3>1. flow - capex \in Int
      BY <2>4, <2>5
    <3> QED  BY <2>2, <2>3, <2>5, <3>1, QuotientIsNotNone
  <2>6. ~ Known("operating_cash_flow", d)
    BY <2>5, NearestFinds, NoneAssumption DEF Concepts
  <2>7. DOMAIN Facts("operating_cash_flow") \subseteq Nat
    BY FactsTyped DEF Concepts
  <2> QED  BY <2>6, <2>7 DEF Known
<1>9. reason = "no_price_data" => \A x \in DOMAIN prices : x > d
  BY ReasonIsMissingPrice
<1>10. ASSUME reason = "no_shares_this_period"
       PROVE  \/ \A x \in DOMAIN Shares : Distance(x, d) > Tolerance
              \/ 0 \in NearestShares(Shares, d)
  <2>1. shares \in {None, 0}
    BY <1>10, ReasonIsMissingShares
  <2>2. CASE shares = 0
    BY <2>2
  <2>3. CASE shares = None
    <3>1. ~ \E x \in DOMAIN Shares : Distance(x, d) <= Tolerance
      BY <2>3, NearestSharesFinds, SharesTyped, NoneAssumption
    <3>2. \A x \in DOMAIN Shares : Distance(x, d) \in Nat
      BY SharesTyped, DistanceTyped
    <3> QED  BY <3>1, <3>2, TailAssumption
  <2> QED  BY <2>1, <2>2, <2>3
<1> QED  BY <1>2, <1>6, <1>7, <1>8, <1>9, <1>10 DEF Diagnosed
-----------------------------------------------------------------------------
LEMMA InitIInv == Init => IInv
<1> SUFFICES ASSUME Init PROVE IInv  OBVIOUS
<1>1. rows \in Seq({}) /\ DOMAIN rows = {}
  BY DEF Init
<1> QED  BY <1>1 DEF Init, IInv, IsRows

LEMMA RowKept ==
  ASSUME filing' = filing, prices' = prices, NEW r, Counted(r), Derived(r), Diagnosed(r)
  PROVE  Counted(r)' /\ Derived(r)' /\ Diagnosed(r)'
<1>1. Counted(r)'
  BY DEF Counted, CountsNear, Facts
<1>2. Derived(r)'
  BY DEF Derived, Known, Ebitda, Facts
<1>3. Diagnosed(r)'
  BY DEF Diagnosed, Ebitda, Shares, Facts
<1> QED  BY <1>1, <1>2, <1>3

LEMMA ReportStep ==
  ASSUME IInv, Report
  PROVE  IInv'
<1>1. left # {} /\ left \subseteq Nat
  BY DEF Report, IInv
<1> PICK d : d = Min(left)  OBVIOUS
<1>2. d \in Nat
  BY <1>1, MinIsLeast
<1>3. PICK shares \in NearestShares(Shares, d) : rows' = Append(rows, RowOf(d, shares))
  BY DEF Report
<1> PICK r : r = RowOf(d, shares)  OBVIOUS
<1>4. filing \in Filings /\ prices \in PriceIndexes
  BY DEF IInv
<1>5. Counted(r) /\ shares \in Int \cup {None}
  BY <1>2, <1>3, <1>4, RowIsCounted
<1>6. Reasoned(r) /\ Derived(r) /\ Diagnosed(r)
  BY <1>2, <1>3, <1>4, <1>5, RowIsReasoned, RowIsDerived, RowIsDiagnosed
<1> PICK S : rows \in Seq(S)  BY DEF IInv, IsRows
<1> PICK T : T = S \cup {r}  OBVIOUS
<1>7. rows \in Seq(T) /\ r \in T
  OBVIOUS
<1>8. rows' \in Seq(T) /\ rows' = Append(rows, r)
  BY <1>3, <1>7
<1>9. \A i \in DOMAIN rows' : rows'[i] = r \/ (i \in DOMAIN rows /\ rows'[i] = rows[i])
  BY <1>7, <1>8
<1>10. \A i \in DOMAIN rows' :
         Reasoned(rows'[i]) /\ Counted(rows'[i]) /\ Derived(rows'[i]) /\ Diagnosed(rows'[i])
  BY <1>5, <1>6, <1>9 DEF IInv
<1>11. filing' = filing /\ prices' = prices /\ left' \subseteq Nat
  BY <1>1 DEF Report
<1>12. (\A i \in DOMAIN rows : Counted(rows[i]) /\ Derived(rows[i]) /\ Diagnosed(rows[i]))'
  <2> SUFFICES ASSUME NEW i \in DOMAIN rows'
               PROVE  (Counted(rows[i]) /\ Derived(rows[i]) /\ Diagnosed(rows[i]))'
    OBVIOUS
  <2> PICK q : q = rows'[i]  OBVIOUS
  <2>1. Counted(q)' /\ Derived(q)' /\ Diagnosed(q)'
    BY <1>10, <1>11, RowKept
  <2> QED  BY <2>1
<1>13. IsRows'
  BY <1>8 DEF IsRows
<1> QED  BY <1>4, <1>10, <1>11, <1>12, <1>13 DEF IInv

LEMMA BeginStep ==
  ASSUME IInv, Begin
  PROVE  IInv'
<1>1. filing' = filing /\ prices' = prices /\ rows' = rows /\ filing \in Filings
  BY DEF Begin, IInv
<1>2. ReportDates \subseteq Nat
  BY <1>1, FactsTyped DEF ReportDates, Concepts
<1>3. \A i \in DOMAIN rows : Counted(rows[i])' /\ Derived(rows[i])' /\ Diagnosed(rows[i])'
  BY <1>1, RowKept DEF IInv
<1>4. left' \subseteq Nat
  BY <1>2 DEF Begin
<1> QED  BY <1>1, <1>3, <1>4 DEF IInv, IsRows

LEMMA OtherStep ==
  ASSUME IInv, Refuse \/ Return \/ UNCHANGED vars
  PROVE  IInv'
<1>1. filing' = filing /\ prices' = prices /\ rows' = rows /\ left' = left
  BY DEF Refuse, Return, vars
<1>2. \A i \in DOMAIN rows : Counted(rows[i])' /\ Derived(rows[i])' /\ Diagnosed(rows[i])'
  BY <1>1, RowKept DEF IInv
<1> QED  BY <1>1, <1>2 DEF IInv, IsRows

LEMMA NextIInv == IInv /\ [Next]_vars => IInv'
BY ReportStep, BeginStep, OtherStep DEF Next
-----------------------------------------------------------------------------
(* If no period has a market cap, one of its branches says so.             *)
LEMMA CapDiagnosed ==
  ASSUME rows # <<>>, ~ Some("cap_reason", "ok")
  PROVE  MarketCapDiagnosis # "silent"
BY DEF MarketCapDiagnosis

LEMMA IInvNoSilentField == IInv => NoSilentField
<1> SUFFICES ASSUME IInv, rows # <<>> PROVE NoSilentField
  BY DEF NoSilentField
<1>1. \A i \in DOMAIN rows : Reasoned(rows[i])
  BY DEF IInv
<1>2. ASSUME Every("ev_ebitda", None), EvDiagnosis = "silent"
      PROVE  ~ Some("cap_reason", "ok")
  <2>1. \A i \in DOMAIN rows : rows[i].ev_ebitda = None
    BY <1>2 DEF Every
  <2>2. ~ Some("ev_reason", "ok")
    BY <2>1, <1>1 DEF Reasoned, Some
  <2>3. Every("ev_reason", "no_market_cap")
    BY <2>2, <1>2 DEF EvDiagnosis
  <2> QED  BY <2>3, <1>1 DEF Reasoned, Every, Some
<1>3. ASSUME Every("fcf_yield", None), FcfDiagnosis = "silent"
      PROVE  ~ Some("cap_reason", "ok")
  <2>1. \A i \in DOMAIN rows : rows[i].fcf_yield = None
    BY <1>3 DEF Every
  <2>2. ~ Some("fcf_reason", "ok")
    BY <2>1, <1>1 DEF Reasoned, Some
  <2>3. Every("fcf_reason", "no_market_cap")
    BY <2>2, <1>3 DEF FcfDiagnosis
  <2> QED  BY <2>3, <1>1 DEF Reasoned, Every, Some
<1> QED  BY <1>2, <1>3, CapDiagnosed DEF NoSilentField

(* No valuation ratio fails for a whole company in silence: for every      *)
(* filing and every price index, one diagnosis speaks.                     *)
THEOREM NoSilentFieldTheorem == Spec => []NoSilentField
BY InitIInv, NextIInv, IInvNoSilentField, PTL DEF Spec

(* A period goes without a share count only if neither point-in-time       *)
(* source has one near it, however sparse the sources are.                 *)
THEOREM SharesFromAnySourceTheorem == Spec => []SharesFromAnySource
<1>1. IInv => SharesFromAnySource
  BY DEF IInv, Counted, SharesFromAnySource
<1> QED  BY <1>1, InitIInv, NextIInv, PTL DEF Spec

(* A period with a market cap has its cash flow yield and EV/EBITDA as     *)
(* soon as their facts were reported by then, on whatever date.            *)
THEOREM RatiosNeedNoExactDatesTheorem == Spec => []RatiosNeedNoExactDates
<1>1. IInv => RatiosNeedNoExactDates
  BY DEF IInv, Derived, Known, RatiosNeedNoExactDates
<1> QED  BY <1>1, InitIInv, NextIInv, PTL DEF Spec

LEMMA IInvDiagnosesAreTrue == IInv => DiagnosesAreTrue
<1> SUFFICES ASSUME IInv PROVE DiagnosesAreTrue
  OBVIOUS
<1>1. \A i \in DOMAIN rows : Diagnosed(rows[i])
  BY DEF IInv
<1>2. EvDiagnosis = "no_liabilities" => Every("ev_reason", "no_liabilities")
  BY DEF EvDiagnosis
<1>3. EvDiagnosis = "no_operating_income" => Every("ev_reason", "no_operating_income")
  BY DEF EvDiagnosis
<1>4. FcfDiagnosis = "no_operating_cash_flow" => Every("fcf_reason", "no_operating_cash_flow")
  BY DEF FcfDiagnosis
<1>5. MarketCapDiagnosis = "no_prices" => Every("cap_reason", "no_price_data")
  BY DEF MarketCapDiagnosis
<1>6. MarketCapDiagnosis = "shares_dates_never_match" =>
        Every("cap_reason", "no_shares_this_period")
  BY DEF MarketCapDiagnosis
<1> QED  BY <1>1, <1>2, <1>3, <1>4, <1>5, <1>6 DEF Diagnosed, Every, DiagnosesAreTrue

(* A diagnosis that names a cause for every period, printed once for the   *)
(* whole company, is right about each of them: no liabilities, no          *)
(* operating income, no cash flow, no price, no share count near (unless   *)
(* the company itself reported a count of 0 there).                        *)
THEOREM DiagnosesAreTrueTheorem == Spec => []DiagnosesAreTrue
BY InitIInv, NextIInv, IInvDiagnosesAreTrue, PTL DEF Spec
-----------------------------------------------------------------------------
(* Who a ticker is measured against shares its sector, and was read as     *)
(* active.                                                                 *)
LEMMA PeersShareSector ==
  ASSUME NEW known, NEW t \in known, Sector[t] # "Unknown", NEW raw, NEW u \in Peers(t, raw, known)
  PROVE  u \in known /\ Sector[u] = Sector[t] /\ u \in raw
<1>1. u \in raw /\ SectorOf(u, known) = SectorOf(t, known)
  BY DEF Peers
<1> QED  BY <1>1 DEF SectorOf

(* PeersAreComparable, of one run.                                         *)
Comparable(run) ==
  \A t \in DOMAIN run.rows :
    Sector[t] # "Unknown" =>
      LET row == run.rows[t]
          peers == row.momentum \cup UNION {q[2] : q \in row.quality}
      IN /\ peers \subseteq DOMAIN run.rows
         /\ \A u \in peers : Sector[u] = Sector[t]
         /\ \A u \in row.momentum : run.date \in EnoughOn[u]

LEMMA RowIsComparable ==
  ASSUME NEW known, NEW t \in known, NEW date, Sector[t] # "Unknown"
  PROVE  LET row == Row(t, date, known)
             peers == row.momentum \cup UNION {q[2] : q \in row.quality}
         IN /\ \A u \in peers : u \in known /\ Sector[u] = Sector[t]
            /\ \A u \in row.momentum : date \in EnoughOn[u]
<1> PICK row : row = Row(t, date, known)  OBVIOUS
<1>1. row.momentum = Peers(t, MomentumRaw(date), known) /\ row.quality = Quality(t, date, known)
  BY DEF Row
<1>2. \A u \in row.momentum : u \in known /\ Sector[u] = Sector[t] /\ date \in EnoughOn[u]
  BY <1>1, PeersShareSector DEF MomentumRaw
<1>3. ASSUME NEW q \in row.quality, NEW u \in q[2]
      PROVE  u \in known /\ Sector[u] = Sector[t]
  <2> PICK sub \in SubMetrics : q = <<sub, Peers(t, SubRaw(sub, date), known)>>
    BY <1>1 DEF Quality
  <2>1. q[2] = Peers(t, SubRaw(sub, date), known)
    OBVIOUS
  <2> QED  BY <2>1, PeersShareSector
<1> QED  BY <1>2, <1>3
-----------------------------------------------------------------------------
Statuses == {"running", "complete", "failed"}
Run(S) == [by : Scorers, date : Int, status : Statuses, rows : S]

(* A scorer under way is at a run of its own that is 'running'.            *)
CurrentInv ==
  \A s \in Scorers : step[s] # "idle" =>
    at[s] \in DOMAIN runs /\ runs[at[s]].by = s /\ runs[at[s]].status = "running"

Done(run) == run.by = "backfill" /\ run.status = "complete" /\ run.rows # <<>>

(* What the backfill is at, or is still to do, it has not done.            *)
ToDo(date) ==
  \/ date \in plan
  \/ step["backfill"] # "idle" /\ date = runs[at["backfill"]].date

PlanInv ==
  /\ plan \subseteq Mondays
  /\ \A i \in DOMAIN runs : Done(runs[i]) => ~ ToDo(runs[i].date)
  /\ step["backfill"] # "idle" => runs[at["backfill"]].date \notin plan

DoneInv ==
  \A i, j \in DOMAIN runs :
    Done(runs[i]) /\ Done(runs[j]) /\ runs[i].date = runs[j].date => i = j

ScoringTyped ==
  /\ \E S : runs \in Seq(Run(S))
  /\ step \in [Scorers -> {"idle", "opened", "read", "stored"}]
  /\ at \in [Scorers -> Nat] /\ today \in Int

ScoringInv ==
  /\ ScoringTyped
  /\ CurrentInv /\ PlanInv /\ DoneInv
  /\ \A i \in DOMAIN runs : Comparable(runs[i])

LEMMA ScoringInitInv == ScoringInit => ScoringInv
<1> SUFFICES ASSUME ScoringInit PROVE ScoringInv  OBVIOUS
<1>1. runs = <<>> /\ runs \in Seq(Run({})) /\ DOMAIN runs = {}
  BY DEF ScoringInit
<1>2. step \in [Scorers -> {"idle", "opened", "read", "stored"}] /\ at \in [Scorers -> Nat]
  BY DEF ScoringInit
<1>3. \A s \in Scorers : step[s] = "idle"
  BY DEF ScoringInit
<1>4. plan = {} /\ "backfill" \in Scorers /\ today \in Int
  BY DatesAssumption DEF ScoringInit, Scorers
<1> QED
  BY <1>1, <1>2, <1>3, <1>4 DEF ScoringInv, ScoringTyped, CurrentInv, PlanInv, DoneInv, ToDo

(* A step that opens a run.                                                *)
LEMMA OpenStep ==
  ASSUME ScoringInv, today' \in Int,
         NEW s \in Scorers, NEW date \in Int, step[s] = "idle", Open(s, date),
         s # "backfill" => plan' = plan,
         s = "backfill" => date \in plan /\ plan' = plan \ {date}
  PROVE  ScoringInv'
<1> PICK S : runs \in Seq(Run(S))  BY DEF ScoringInv, ScoringTyped
<1> PICK r : r = [by |-> s, date |-> date, status |-> "running", rows |-> <<>>]  OBVIOUS
<1> PICK n \in Nat : n = Len(runs)  OBVIOUS
<1> PICK T : T = S \cup {<<>>}  OBVIOUS
<1>1. r \in Run(T) /\ runs \in Seq(Run(T))
  <2>1. r \in Run(T)
    BY DEF Run, Statuses
  <2>2. Run(S) \subseteq Run(T)
    BY DEF Run
  <2>3. runs \in Seq(Run(S))
    OBVIOUS
  <2>4. runs \in Seq(Run(T))
    BY ONLY <2>2, <2>3
  <2> QED  BY <2>1, <2>4
<1>2. runs' = Append(runs, r) /\ runs' \in Seq(Run(T))
  BY <1>1 DEF Open
<1>3. /\ DOMAIN runs' = DOMAIN runs \cup {n + 1} /\ n + 1 \notin DOMAIN runs
      /\ runs'[n + 1] = r /\ \A i \in DOMAIN runs : runs'[i] = runs[i]
  BY <1>1, <1>2
<1>4. step' = [step EXCEPT ![s] = "opened"] /\ at' = [at EXCEPT ![s] = n + 1]
  BY DEF Open
<1>5. step \in [Scorers -> {"idle", "opened", "read", "stored"}] /\ at \in [Scorers -> Nat]
  BY DEF ScoringInv, ScoringTyped
<1>6. ScoringTyped'
  BY <1>2, <1>4, <1>5 DEF ScoringTyped
<1>7. CurrentInv'
  <2> SUFFICES ASSUME NEW c \in Scorers, step'[c] # "idle"
               PROVE  at'[c] \in DOMAIN runs' /\ runs'[at'[c]].by = c /\ runs'[at'[c]].status = "running"
    BY DEF CurrentInv
  <2>1. CASE c = s
    BY <1>3, <1>4, <1>5, <2>1
  <2>2. CASE c # s
    BY <1>3, <1>4, <1>5, <2>2 DEF ScoringInv, CurrentInv
  <2> QED  BY <2>1, <2>2
<1>8. \A i \in DOMAIN runs' : Done(runs'[i]) => i \in DOMAIN runs /\ runs'[i] = runs[i]
  BY <1>3 DEF Done
<1>9. DoneInv'
  BY <1>8 DEF ScoringInv, DoneInv, Done
<1>10. PlanInv'
  <2>1. "backfill" \in Scorers
    BY DEF Scorers
  <2>2. CASE s # "backfill"
    <3>1. step'["backfill"] = step["backfill"] /\ at'["backfill"] = at["backfill"] /\ plan' = plan
      BY <1>4, <1>5, <2>1, <2>2
    <3>2. step["backfill"] # "idle" => at["backfill"] \in DOMAIN runs
      BY <2>1 DEF ScoringInv, CurrentInv
    <3> QED  BY <1>3, <1>8, <3>1, <3>2 DEF ScoringInv, PlanInv, ToDo, Done
  <2>3. CASE s = "backfill"
    <3>1. /\ step'["backfill"] = "opened" /\ at'["backfill"] = n + 1
          /\ date \in plan /\ plan' = plan \ {date} /\ runs'[n + 1].date = date
      BY <1>3, <1>4, <1>5, <2>1, <2>3
    <3>2. ASSUME NEW i \in DOMAIN runs', Done(runs'[i])
          PROVE  runs'[i].date \notin plan' /\ runs'[i].date # date
      <4>1. runs'[i] = runs[i] /\ Done(runs[i]) /\ i \in DOMAIN runs
        BY <1>8, <3>2 DEF Done
      <4>2. runs[i].date \notin plan
        BY <4>1 DEF ScoringInv, PlanInv, ToDo
      <4> QED  BY <3>1, <4>1, <4>2
    <3>3. plan' \subseteq Mondays
      BY <3>1 DEF ScoringInv, PlanInv
    <3> QED  BY <3>1, <3>2, <3>3 DEF PlanInv, ToDo, Done
  <2> QED  BY <2>2, <2>3
<1>11. \A i \in DOMAIN runs' : Comparable(runs'[i])
  <2>1. Comparable(r)
    BY DEF Comparable
  <2> QED  BY <1>3, <2>1 DEF ScoringInv
<1>12. (\A i \in DOMAIN runs : Comparable(runs[i]))'
  BY <1>11 DEF Comparable
<1> QED  BY <1>6, <1>7, <1>9, <1>10, <1>12 DEF ScoringInv

(* A step that ends one, whichever way.                                    *)
LEMMA ClosedStep ==
  ASSUME ScoringInv, today' \in Int,
         NEW s \in Scorers, NEW status \in Statuses, step[s] # "idle",
         Closed(s, status), plan' \subseteq plan
  PROVE  ScoringInv'
<1> PICK S : runs \in Seq(Run(S))  BY DEF ScoringInv, ScoringTyped
<1> PICK k : k = at[s]  OBVIOUS
<1>1. k \in DOMAIN runs /\ runs[k].by = s /\ runs[k].status = "running" /\ runs[k] \in Run(S)
  BY DEF ScoringInv, CurrentInv
<1> PICK r : r = [runs[k] EXCEPT !.status = status]  OBVIOUS
<1>2. /\ r \in Run(S) /\ r.by = s /\ r.status = status
      /\ r.date = runs[k].date /\ r.rows = runs[k].rows
  BY <1>1 DEF Run
<1>3. runs' = [runs EXCEPT ![k] = r] /\ runs' \in Seq(Run(S))
  <2>1. runs' = [runs EXCEPT ![k] = r]
    BY DEF Closed
  <2> QED  BY <1>1, <1>2, <2>1
<1>4. DOMAIN runs' = DOMAIN runs /\ runs'[k] = r /\ \A i \in DOMAIN runs \ {k} : runs'[i] = runs[i]
  BY <1>1, <1>3
<1>5. step' = [step EXCEPT ![s] = "idle"] /\ at' = [at EXCEPT ![s] = 0]
  BY DEF Closed
<1>6. step \in [Scorers -> {"idle", "opened", "read", "stored"}] /\ at \in [Scorers -> Nat]
  BY DEF ScoringInv, ScoringTyped
<1>7. ScoringTyped'
  BY <1>3, <1>5, <1>6 DEF ScoringTyped
<1>8. \A c \in Scorers \ {s} : step'[c] = step[c] /\ at'[c] = at[c] /\ (step[c] # "idle" => at[c] # k)
  BY <1>1, <1>5, <1>6 DEF ScoringInv, CurrentInv
<1>9. CurrentInv'
  <2> SUFFICES ASSUME NEW c \in Scorers, step'[c] # "idle"
               PROVE  at'[c] \in DOMAIN runs' /\ runs'[at'[c]].by = c /\ runs'[at'[c]].status = "running"
    BY DEF CurrentInv
  <2>1. c # s
    BY <1>5, <1>6
  <2> QED  BY <1>4, <1>8, <2>1 DEF ScoringInv, CurrentInv
<1>10. \A i \in DOMAIN runs \ {k} : Done(runs'[i]) => Done(runs[i])
  BY <1>4
<1>11. ASSUME Done(runs'[k])
       PROVE  s = "backfill" /\ ToDo(runs[k].date)
  BY <1>2, <1>4, <1>11 DEF Done, ToDo
<1>12. \A i \in DOMAIN runs : runs'[i].date = runs[i].date /\ runs'[i].rows = runs[i].rows
  BY <1>2, <1>4
<1>13. DoneInv'
  <2> SUFFICES ASSUME NEW i \in DOMAIN runs, NEW j \in DOMAIN runs,
                      Done(runs'[i]), Done(runs'[j]), runs'[i].date = runs'[j].date
               PROVE  i = j
    BY <1>4 DEF DoneInv, Done
  <2>1. CASE i # k /\ j # k
    BY <1>4, <1>10, <2>1 DEF ScoringInv, DoneInv
  <2>2. CASE i = k /\ j # k
    BY <1>10, <1>11, <1>12, <2>2 DEF ScoringInv, PlanInv
  <2>3. CASE i # k /\ j = k
    BY <1>10, <1>11, <1>12, <2>3 DEF ScoringInv, PlanInv
  <2> QED  BY <2>1, <2>2, <2>3
<1>14. PlanInv'
  <2>1. "backfill" \in Scorers
    BY DEF Scorers
  <2>2. CASE s = "backfill"
    <3>1. step'["backfill"] = "idle" /\ runs[k].date \notin plan
      BY <1>5, <1>6, <2>1, <2>2 DEF ScoringInv, PlanInv
    <3>2. ASSUME NEW i \in DOMAIN runs, Done(runs'[i]) PROVE runs'[i].date \notin plan'
      BY <1>10, <1>12, <3>1, <3>2 DEF ScoringInv, PlanInv, ToDo
    <3> QED  BY <1>4, <3>1, <3>2 DEF ScoringInv, PlanInv, ToDo, Done
  <2>3. CASE s # "backfill"
    <3>1. /\ step'["backfill"] = step["backfill"] /\ at'["backfill"] = at["backfill"]
          /\ step["backfill"] # "idle" => at["backfill"] \in DOMAIN runs
      BY <1>8, <2>1, <2>3 DEF ScoringInv, CurrentInv
    <3>2. \A i \in DOMAIN runs : Done(runs'[i]) => Done(runs[i])
      BY <1>10, <1>11, <2>3
    <3>3. ASSUME NEW i \in DOMAIN runs, Done(runs'[i])
          PROVE  /\ runs'[i].date \notin plan'
                 /\ step["backfill"] # "idle" => runs'[i].date # runs'[at["backfill"]].date
      BY <1>12, <3>1, <3>2, <3>3 DEF ScoringInv, PlanInv, ToDo
    <3> QED  BY <1>4, <1>12, <3>1, <3>3 DEF ScoringInv, PlanInv, ToDo, Done
  <2> QED  BY <2>2, <2>3
<1>15. \A i \in DOMAIN runs' : Comparable(runs'[i])
  BY <1>4, <1>12 DEF ScoringInv, Comparable
<1>16. (\A i \in DOMAIN runs : Comparable(runs[i]))'
  BY <1>15 DEF Comparable
<1> QED  BY <1>7, <1>9, <1>13, <1>14, <1>16 DEF ScoringInv

(* The step that scores.                                                   *)
LEMMA ScoreStep ==
  ASSUME ScoringInv, NEW s \in Scorers, Score(s)
  PROVE  ScoringInv'
<1> PICK S : runs \in Seq(Run(S))  BY DEF ScoringInv, ScoringTyped
<1> PICK k : k = at[s]  OBVIOUS
<1> PICK known : known = members[s]  OBVIOUS
<1>1. /\ k \in DOMAIN runs /\ runs[k].by = s /\ runs[k].status = "running" /\ runs[k] \in Run(S)
      /\ step[s] = "read"
  BY DEF ScoringInv, CurrentInv, Score
<1> PICK scored : scored = [t \in known |-> Row(t, runs[k].date, known)]  OBVIOUS
<1> PICK r : r = [runs[k] EXCEPT !.rows = scored]  OBVIOUS
<1> PICK T : T = S \cup {scored}  OBVIOUS
<1>2. /\ r \in Run(T) /\ r.by = s /\ r.status = "running"
      /\ r.date = runs[k].date /\ r.rows = scored
  BY <1>1 DEF Run
<1>3. runs \in Seq(Run(T))
  <2>1. Run(S) \subseteq Run(T)
    BY DEF Run
  <2> QED  BY <2>1
<1>4. runs' = [runs EXCEPT ![k] = r] /\ runs' \in Seq(Run(T))
  <2>1. runs' = [runs EXCEPT ![k] = r]
    BY DEF Score
  <2> QED  BY <1>1, <1>2, <1>3, <2>1
<1>5. DOMAIN runs' = DOMAIN runs /\ runs'[k] = r /\ \A i \in DOMAIN runs \ {k} : runs'[i] = runs[i]
  BY <1>1, <1>4
<1>6. step' = [step EXCEPT ![s] = "stored"] /\ at' = at /\ plan' = plan
  BY DEF Score
<1>7. step \in [Scorers -> {"idle", "opened", "read", "stored"}] /\ at \in [Scorers -> Nat]
  BY DEF ScoringInv, ScoringTyped
<1>8. ScoringTyped'
  BY <1>4, <1>6, <1>7 DEF ScoringInv, ScoringTyped, Score
<1>9. \A c \in Scorers : step'[c] # "idle" <=> step[c] # "idle"
  BY <1>1, <1>6, <1>7
<1>10. \A i \in DOMAIN runs :
         runs'[i].by = runs[i].by /\ runs'[i].status = runs[i].status /\ runs'[i].date = runs[i].date
  BY <1>1, <1>2, <1>5
<1>11. CurrentInv'
  BY <1>5, <1>6, <1>9, <1>10 DEF ScoringInv, CurrentInv
<1>12. \A i \in DOMAIN runs : Done(runs'[i]) => Done(runs[i])
  BY <1>2, <1>5 DEF Done
<1>13. DoneInv'
  BY <1>5, <1>10, <1>12 DEF ScoringInv, DoneInv, Done
<1>14. PlanInv'
  <2>1. "backfill" \in Scorers
    BY DEF Scorers
  <2>2. step["backfill"] # "idle" => at["backfill"] \in DOMAIN runs
    BY <2>1 DEF ScoringInv, CurrentInv
  <2>3. \A i \in DOMAIN runs : Done(runs'[i]) => ~ ToDo(runs[i].date)
    BY <1>12 DEF ScoringInv, PlanInv
  <2> QED  BY <1>5, <1>6, <1>9, <1>10, <2>1, <2>2, <2>3 DEF ScoringInv, PlanInv, ToDo, Done
<1>15. Comparable(r)
  <2> SUFFICES ASSUME NEW t \in DOMAIN r.rows, Sector[t] # "Unknown"
               PROVE  LET row == r.rows[t]
                          peers == row.momentum \cup UNION {q[2] : q \in row.quality}
                      IN /\ peers \subseteq DOMAIN r.rows
                         /\ \A u \in peers : Sector[u] = Sector[t]
                         /\ \A u \in row.momentum : r.date \in EnoughOn[u]
    BY Zenon DEF Comparable
  <2>1. DOMAIN r.rows = known /\ t \in known /\ r.rows[t] = Row(t, r.date, known)
    BY <1>2
  <2> QED  BY <2>1, RowIsComparable
<1>16. \A i \in DOMAIN runs' : Comparable(runs'[i])
  BY <1>5, <1>15 DEF ScoringInv
<1>17. (\A i \in DOMAIN runs : Comparable(runs[i]))'
  BY <1>16 DEF Comparable
<1> QED  BY <1>8, <1>11, <1>13, <1>14, <1>17 DEF ScoringInv

(* What leaves the runs alone.                                             *)
LEMMA QuietStep ==
  ASSUME ScoringInv, today' \in Int, runs' = runs, at' = at,
         step' \in [Scorers -> {"idle", "opened", "read", "stored"}],
         \A s \in Scorers : step'[s] # "idle" <=> step[s] # "idle",
         \/ plan' = plan
         \/ /\ step["backfill"] = "idle" /\ plan' \subseteq Mondays
            /\ \A i \in DOMAIN runs : Done(runs[i]) => runs[i].date \notin plan'
  PROVE  ScoringInv'
<1>1. "backfill" \in Scorers
  BY DEF Scorers
<1>2. ScoringTyped' /\ CurrentInv' /\ DoneInv'
  BY DEF ScoringInv, ScoringTyped, CurrentInv, DoneInv, Done
<1>3. PlanInv'
  BY <1>1 DEF ScoringInv, PlanInv, ToDo, Done
<1>4. (\A i \in DOMAIN runs : Comparable(runs[i]))'
  BY DEF ScoringInv, Comparable
<1> QED  BY <1>2, <1>3, <1>4 DEF ScoringInv

LEMMA StartStep ==
  ASSUME ScoringInv, StartBackfill
  PROVE  ScoringInv'
<1>1. /\ runs' = runs /\ at' = at /\ step' = step /\ step["backfill"] = "idle"
      /\ today' = today
  BY DEF StartBackfill
<1>2. plan' \subseteq Mondays /\ plan' \cap AlreadyDone = {}
  BY DEF StartBackfill
<1>3. \A i \in DOMAIN runs : Done(runs[i]) => runs[i].date \notin plan'
  BY <1>2 DEF AlreadyDone, Done, Backfills
<1> QED  BY <1>1, <1>2, <1>3, QuietStep DEF ScoringInv, ScoringTyped

LEMMA ReadStep ==
  ASSUME ScoringInv, NEW s \in Scorers, ReadUniverse(s)
  PROVE  ScoringInv'
<1>1. /\ runs' = runs /\ at' = at /\ plan' = plan /\ today' = today
      /\ step[s] = "opened" /\ step' = [step EXCEPT ![s] = "read"]
  BY DEF ReadUniverse
<1>2. step \in [Scorers -> {"idle", "opened", "read", "stored"}]
  BY DEF ScoringInv, ScoringTyped
<1>3. step' \in [Scorers -> {"idle", "opened", "read", "stored"}]
      /\ \A c \in Scorers : step'[c] # "idle" <=> step[c] # "idle"
  BY <1>1, <1>2
<1>4. today \in Int
  BY DEF ScoringInv, ScoringTyped
<1> QED  BY <1>1, <1>3, <1>4, QuietStep

LEMMA ScoringNextInv == ScoringInv /\ [ScoringNext]_scoringVars => ScoringInv'
<1> SUFFICES ASSUME ScoringInv, [ScoringNext]_scoringVars PROVE ScoringInv'
  OBVIOUS
<1>6. today \in Int /\ today' \in Int
  <2>1. today \in Int
    BY DEF ScoringInv, ScoringTyped
  <2>2. today' = today \/ today' = today + 1
    BY DEF ScoringNext, OpenCron, OpenGui, StartBackfill, OpenBackfill, ReadUniverse, Score,
           SkipEmpty, Close, Raise, Kill, Ingest, Deactivate, NextDate, scoringVars
  <2> QED  BY <2>1, <2>2
<1>1. ASSUME NEW date \in 0 .. today, OpenCron(date) PROVE ScoringInv'
  <2>1. date \in Int /\ "cron" \in Scorers /\ "cron" # "backfill"
    BY DEF Scorers
  <2>2. step["cron"] = "idle" /\ Open("cron", date) /\ plan' = plan
    BY <1>1 DEF OpenCron
  <2> QED  BY <2>1, <2>2, <1>6, OpenStep
<1>5. ASSUME OpenGui PROVE ScoringInv'
  <2>1. today \in Int /\ "gui" \in Scorers /\ "gui" # "backfill"
    BY <1>6 DEF Scorers
  <2>2. step["gui"] = "idle" /\ Open("gui", today) /\ plan' = plan
    BY <1>5 DEF OpenGui
  <2> QED  BY <2>1, <2>2, <1>6, OpenStep
<1>2. ASSUME OpenBackfill PROVE ScoringInv'
  <2>1. plan \in SUBSET Nat /\ plan # {}
    <3>1. Mondays \subseteq Nat
      BY DatesAssumption
    <3>2. plan \subseteq Mondays /\ plan # {}
      BY <1>2 DEF OpenBackfill, ScoringInv, PlanInv
    <3> QED  BY <3>1, <3>2
  <2>2. Min(plan) \in plan
    BY <2>1, MinIsLeast
  <2>4. Min(plan) \in Int
    <3>1. \A x \in plan : x \in Int
      BY <2>1
    <3> QED  BY <2>2, <3>1
  <2>5. "backfill" \in Scorers
    BY DEF Scorers
  <2>3. step["backfill"] = "idle" /\ Open("backfill", Min(plan)) /\ plan' = plan \ {Min(plan)}
    BY <1>2 DEF OpenBackfill
  <2> QED  BY <2>2, <2>3, <2>4, <2>5, <1>6, OpenStep
<1>3. ASSUME NEW s \in Scorers, SkipEmpty(s) \/ Close(s) \/ Raise(s) \/ Kill(s) PROVE ScoringInv'
  <2>1. \E status \in Statuses : Closed(s, status)
    BY <1>3 DEF SkipEmpty, Close, Raise, Kill, Statuses
  <2>2. plan' \subseteq plan /\ step[s] # "idle"
    BY <1>3 DEF SkipEmpty, Close, Raise, Kill
  <2> QED  BY <2>1, <2>2, <1>6, ClosedStep
<1>4. ASSUME \/ \E r \in Reports : Ingest(r)
             \/ \E dropped \in Drops : Deactivate(dropped)
             \/ NextDate
             \/ UNCHANGED scoringVars
      PROVE  ScoringInv'
  <2>1. runs' = runs /\ at' = at /\ step' = step /\ plan' = plan
    BY <1>4 DEF Ingest, Deactivate, NextDate, scoringVars
  <2> QED  BY <2>1, <1>6, QuietStep DEF ScoringInv, ScoringTyped
<1> QED  BY <1>1, <1>2, <1>3, <1>4, <1>5, StartStep, ReadStep, ScoreStep DEF ScoringNext
-----------------------------------------------------------------------------
(* However the backfill is interrupted, restarted and overtaken by other   *)
(* runs, no date is scored by two of its complete runs.                    *)
THEOREM OneCompletePerDateTheorem == ScoringSpec => []OneCompletePerDate
<1>1. ASSUME ScoringInv, NEW d \in Mondays
      PROVE  Cardinality({i \in DOMAIN runs : Scores(i, d)}) <= 1
  <2> PICK D : D = {i \in DOMAIN runs : Scores(i, d)}  OBVIOUS
  <2>1. \A i, j \in D : i = j
    BY <1>1 DEF ScoringInv, DoneInv, Done, Scores, Backfills
  <2>2. CASE D = {}
    BY <2>2, FS_EmptySet
  <2>3. CASE D # {}
    <3> PICK i \in D : D = {i}  BY <2>1, <2>3
    <3>1. Cardinality(D) = 1
      BY FS_Singleton
    <3> QED  BY <3>1
  <2> QED  BY <2>2, <2>3
<1>2. ScoringInv => OneCompletePerDate
  BY <1>1 DEF OneCompletePerDate
<1> QED  BY <1>2, ScoringInitInv, ScoringNextInv, PTL DEF ScoringSpec

(* Whatever the universe sync and ingestion do while a run is under way, a *)
(* ticker with a sector is scored only against tickers of that sector that *)
(* were active in the same run, and its momentum only against those with   *)
(* prices enough as of the date.                                           *)
THEOREM PeersAreComparableTheorem == ScoringSpec => []PeersAreComparable
<1>1. ScoringInv => PeersAreComparable
  BY DEF ScoringInv, Comparable, PeersAreComparable
<1> QED  BY <1>1, ScoringInitInv, ScoringNextInv, PTL DEF ScoringSpec

(* No step changes what a closed run says.                                 *)
LEMMA ClosedStays ==
  ASSUME ScoringInv, ScoringNext, NEW i \in DOMAIN runs, runs[i].status = "failed"
  PROVE  i \in DOMAIN runs' /\ runs'[i].status = "failed"
<1> PICK S : runs \in Seq(Run(S))  BY DEF ScoringInv, ScoringTyped
<1>1. ASSUME NEW s \in Scorers, NEW date, Open(s, date)
      PROVE  i \in DOMAIN runs' /\ runs'[i].status = "failed"
  <2> PICK r : runs' = Append(runs, r)  BY <1>1 DEF Open
  <2> QED  OBVIOUS
<1>2. ASSUME NEW s \in Scorers, NEW status, step[s] # "idle", Closed(s, status)
      PROVE  i \in DOMAIN runs' /\ runs'[i].status = "failed"
  <2>1. at[s] # i
    BY <1>2 DEF ScoringInv, CurrentInv
  <2> QED  BY <1>2, <2>1 DEF Closed
<1>3. ASSUME NEW s \in Scorers, Score(s)
      PROVE  i \in DOMAIN runs' /\ runs'[i].status = "failed"
  <2>1. at[s] # i
    BY <1>3 DEF ScoringInv, CurrentInv, Score
  <2> QED  BY <1>3, <2>1 DEF Score
<1>4. ASSUME runs' = runs
      PROVE  i \in DOMAIN runs' /\ runs'[i].status = "failed"
  BY <1>4
<1>5. "cron" \in Scorers /\ "gui" \in Scorers /\ "backfill" \in Scorers
  BY DEF Scorers
<1> QED
  BY <1>1, <1>2, <1>3, <1>4, <1>5
     DEF ScoringNext, OpenCron, OpenGui, StartBackfill, OpenBackfill, ReadUniverse, SkipEmpty, Close,
         Raise, Kill, Ingest, Deactivate, NextDate

(* A failed run of the cron or the GUI is shown until either begins        *)
(* another: no backfill, however long, covers it.                          *)
THEOREM FailureStaysVisibleTheorem == ScoringSpec => FailureStaysVisible
<1>1. ASSUME ScoringInv, ScoringNext, ShownStatus = "failed", Regular' = Regular
      PROVE  ShownStatus' = "failed"
  <2>1. Regular # {}
    <3> SUFFICES ASSUME Regular = {} PROVE FALSE  OBVIOUS
    <3>1. ShownStatus = "idle"
      BY DEF ShownStatus, LatestForDashboard
    <3> QED  BY <1>1, <3>1
  <2> PICK S : runs \in Seq(Run(S))  BY <1>1 DEF ScoringInv, ScoringTyped
  <2> PICK n \in Nat : n = Len(runs)  OBVIOUS
  <2>7. Regular \subseteq 1 .. n
    BY DEF Regular
  <2> PICK regular \in SUBSET Nat : regular = Regular /\ regular \subseteq 1 .. n
    BY <2>7
  <2>2. \A i \in regular : i <= n
    OBVIOUS
  <2>3. Max(regular) \in regular
    BY <2>1, <2>2, MaxIsGreatest
  <2> PICK k \in regular : k = Max(regular)  BY <2>3
  <2>4. k # 0 /\ LatestForDashboard = k /\ LatestForDashboard' = k
    BY <1>1, <2>1 DEF LatestForDashboard
  <2>5. k \in DOMAIN runs /\ runs[k].status = "failed"
    BY <1>1, <2>4 DEF ShownStatus
  <2>6. runs'[k].status = "failed"
    BY <1>1, <2>5, ClosedStays
  <2> QED  BY <2>4, <2>6 DEF ShownStatus
<1>2. ScoringInv /\ [ScoringNext]_scoringVars =>
        [ShownStatus = "failed" => ShownStatus' = "failed" \/ Regular' # Regular]_scoringVars
  BY <1>1
<1> QED
  BY <1>2, ScoringInitInv, ScoringNextInv, PTL DEF ScoringSpec, FailureStaysVisible
=============================================================================
