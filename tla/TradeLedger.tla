---------------------------- MODULE TradeLedger ----------------------------
(***************************************************************************)
(* The books of the fund: scripts/record_trade.py, which enters a          *)
(* confirmed fill in trades and brings positions and realized_pnl up to    *)
(* date, and scripts/compute_portfolio_snapshot.py, which marks the long   *)
(* sleeve and turns the books into the NAV of a day.                       *)
(*                                                                         *)
(* Each script is one transaction of several statements under READ         *)
(* COMMITTED: what another process commits between two statements is seen  *)
(* by the second. A step ends where a later statement of the script may    *)
(* see something else.                                                     *)
(*                                                                         *)
(* trades and realized_pnl only grow and are only summed, so their sums    *)
(* are kept. Amounts are whole numbers: floating-point and NUMERIC         *)
(* rounding is not modelled, and a buy is entered only if the average cost *)
(* it leads to is whole (WholeAverage).                                    *)
(***************************************************************************)
EXTENDS Integers, FiniteSetsExt

CONSTANTS
  LongKeys,       (* (ticker, sleeve) of the long sleeve ...               *)
  HedgeKeys,      (* ... and of the hedge sleeve.                          *)
  Processes,      (* Scripts that may run at the same time.                *)
  Quantities,
  Prices,         (* Of fills, and closes of price_history.                *)
  Fees,
  InitialCapital,
  Null,           (* SQL's NULL, or no row.                                *)
  MaxTrades,      (* Bound on the trades of a behaviour.                   *)
  LastDate        (* Bound: snapshot dates are 1 .. LastDate.              *)

Keys == LongKeys \cup HedgeKeys
Dates == 1 .. LastDate

ASSUME SleevesAssumption ==
  LongKeys \cap HedgeKeys = {} /\ IsFiniteSet(LongKeys) /\ IsFiniteSet(HedgeKeys)
ASSUME NullAssumption == Null \notin Int
ASSUME AmountsAssumption ==
  /\ Quantities \subseteq Nat \ {0}
  /\ Prices \subseteq Nat
  /\ Fees \subseteq Nat
  /\ InitialCapital \in Nat
  /\ MaxTrades \in Nat
  /\ LastDate \in Nat

VARIABLES
  ledgerQty,   (* trades: shares bought less shares sold, per key.          *)
  ledgerCash,  (* trades: what sells brought in less what buys cost.        *)
  nTrades,     (* trades: its number of rows.                               *)
  qty,         (* positions.quantity; 0 when the key has no row.            *)
  avg,         (* positions.avg_cost_basis                                  *)
  price,       (* positions.current_price                                   *)
  value,       (* positions.market_value                                    *)
  realized,    (* realized_pnl: the sum of realized_gain_loss.              *)
  buyFees,     (* History: the fees of all buys, which no position carries. *)
  nav,         (* portfolio_snapshots.total_nav; Null without a row.        *)
  pnl,         (* portfolio_snapshots.daily_pnl                             *)
  inOrder,     (* History: no snapshot was taken for a date before the last.*)
  pc,          (* Where each process stands.                                *)
  order,       (* The arguments of record_trade.                            *)
  seen,        (* _get_position as the process read it.                     *)
  book,        (* The long positions the snapshot read.                     *)
  marks,       (* mark_price of each of them.                               *)
  cash         (* cash_balance as the snapshot computed it.                 *)

positionVars == <<qty, avg, price, value>>
ledgerVars == <<ledgerQty, ledgerCash, nTrades, realized, buyFees>>
snapshotVars == <<nav, pnl, inOrder>>
localVars == <<order, seen, book, marks, cash>>
vars == <<ledgerVars, positionVars, snapshotVars, pc, localVars>>

Steps == {"idle", "trading", "reading", "marked"}
Order == [key : Keys, side : {"buy", "sell"}, quantity : Quantities,
          price : Prices, fee : Fees]
Position == [quantity : Nat, avg : Nat]
NoRow == [quantity |-> 0, avg |-> 0]
NoOrder == [key |-> Null]

(* The sum of f over S.                                                    *)
SumOver(f, S) == MapThenSumSet(LAMBDA k : f[k], S)

Init ==
  /\ ledgerQty = [k \in Keys |-> 0]
  /\ ledgerCash = 0
  /\ nTrades = 0
  /\ qty = [k \in Keys |-> 0]
  /\ avg = [k \in Keys |-> 0]
  /\ price = [k \in Keys |-> 0]
  /\ value = [k \in Keys |-> 0]
  /\ realized = 0
  /\ buyFees = 0
  /\ nav = [d \in Dates |-> Null]
  /\ pnl = [d \in Dates |-> 0]
  /\ inOrder = TRUE
  /\ pc = [p \in Processes |-> "idle"]
  /\ order = [p \in Processes |-> NoOrder]
  /\ seen = [p \in Processes |-> NoRow]
  /\ book = [p \in Processes |-> <<>>]
  /\ marks = [p \in Processes |-> <<>>]
  /\ cash = [p \in Processes |-> 0]

(* The process ends. Its locals are forgotten.                             *)
End(p) ==
  /\ pc' = [pc EXCEPT ![p] = "idle"]
  /\ order' = [order EXCEPT ![p] = NoOrder]
  /\ seen' = [seen EXCEPT ![p] = NoRow]
  /\ book' = [book EXCEPT ![p] = <<>>]
  /\ marks' = [marks EXCEPT ![p] = <<>>]
  /\ cash' = [cash EXCEPT ![p] = 0]
-----------------------------------------------------------------------------
(* record_trade: the INSERT into trades, then the SELECT of the position.  *)
StartTrade(p, o) ==
  /\ pc[p] = "idle"
  /\ nTrades < MaxTrades
  /\ pc' = [pc EXCEPT ![p] = "trading"]
  /\ order' = [order EXCEPT ![p] = o]
  /\ seen' = [seen EXCEPT ![p] = [quantity |-> qty[o.key], avg |-> avg[o.key]]]
  /\ UNCHANGED <<ledgerVars, positionVars, snapshotVars, book, marks, cash>>

(* Rows a snapshot has updated stay locked until it commits.               *)
Locked(k) == \E p \in Processes : pc[p] = "marked" /\ k \in DOMAIN marks[p] /\ qty[k] > 0

(* An upsert that replaces the position by the fill.                       *)
NewQuantityOfFill(p) == order[p].quantity

NewQuantity(p) == seen[p].quantity + order[p].quantity
NewCost(p) == seen[p].quantity * seen[p].avg + order[p].quantity * order[p].price
WholeAverage(p) == NewCost(p) % NewQuantity(p) = 0

NewAverage(p) == NewCost(p) \div NewQuantity(p)

(* _record_buy, from what was read: the upsert writes absolute values.     *)
Buy(p) ==
  LET o == order[p]
  IN /\ pc[p] = "trading" /\ o.side = "buy"
     /\ ~ Locked(o.key)
     /\ WholeAverage(p)
     /\ ledgerQty' = [ledgerQty EXCEPT ![o.key] = @ + o.quantity]
     /\ ledgerCash' = ledgerCash - (o.quantity * o.price + o.fee)
     /\ nTrades' = nTrades + 1
     /\ qty' = [qty EXCEPT ![o.key] = NewQuantity(p)]
     /\ avg' = [avg EXCEPT ![o.key] = NewAverage(p)]
     /\ price' = [price EXCEPT ![o.key] = o.price]
     /\ value' = [value EXCEPT ![o.key] = NewQuantity(p) * o.price]
     /\ buyFees' = buyFees + o.fee
     /\ UNCHANGED <<realized, snapshotVars>>
     /\ End(p)

(* A gain that leaves out the commission.                                  *)
RealizedBeforeFees(p) == order[p].quantity * (order[p].price - seen[p].avg)

RealizedGain(p) ==
  order[p].quantity * (order[p].price - seen[p].avg) - order[p].fee

(* A check that lets the last share be sold twice over.                    *)
CoversLoosely(p) == seen[p].quantity > 0

Covers(p) == seen[p].quantity >= order[p].quantity

(* _record_sell: the row is deleted or updated, if it is still there.      *)
Sell(p) ==
  LET o == order[p]
      left == seen[p].quantity - o.quantity
      Put(f, x) == IF left = 0 THEN [f EXCEPT ![o.key] = 0]
                   ELSE IF qty[o.key] = 0 THEN f ELSE [f EXCEPT ![o.key] = x]
  IN /\ pc[p] = "trading" /\ o.side = "sell"
     /\ ~ Locked(o.key)
     /\ Covers(p)
     /\ ledgerQty' = [ledgerQty EXCEPT ![o.key] = @ - o.quantity]
     /\ ledgerCash' = ledgerCash + (o.quantity * o.price - o.fee)
     /\ nTrades' = nTrades + 1
     /\ realized' = realized + RealizedGain(p)
     /\ qty' = Put(qty, left)
     /\ avg' = Put(avg, avg[o.key])
     /\ price' = Put(price, o.price)
     /\ value' = Put(value, left * o.price)
     /\ UNCHANGED <<buyFees, snapshotVars>>
     /\ End(p)

(* Selling more than is held: sys.exit rolls the transaction back.         *)
Reject(p) ==
  /\ pc[p] = "trading" /\ order[p].side = "sell"
  /\ ~ Covers(p)
  /\ End(p)
  /\ UNCHANGED <<ledgerVars, positionVars, snapshotVars>>

(* A script that is killed before it commits leaves nothing behind.        *)
Abort(p) ==
  /\ pc[p] # "idle"
  /\ End(p)
  /\ UNCHANGED <<ledgerVars, positionVars, snapshotVars>>
-----------------------------------------------------------------------------
(* compute_portfolio_snapshot: SELECT ... FROM positions WHERE long.       *)
StartSnapshot(p) ==
  /\ pc[p] = "idle"
  /\ LET held == {k \in LongKeys : qty[k] > 0}
     IN book' = [book EXCEPT ![p] = [k \in held |-> [quantity |-> qty[k], price |-> price[k]]]]
  /\ pc' = [pc EXCEPT ![p] = "reading"]
  /\ UNCHANGED <<ledgerVars, positionVars, snapshotVars, order, seen, marks, cash>>

(* _mark_long_sleeve_to_market: the latest close, or the stale price where *)
(* price_history has none; then _compute_cash_balance.                     *)
Mark(p) ==
  /\ pc[p] = "reading"
  /\ \A k \in DOMAIN book[p] : ~ Locked(k)
  /\ \E close \in [DOMAIN book[p] -> Prices \cup {Null}] :
       marks' = [marks EXCEPT ![p] =
         [k \in DOMAIN close |-> IF close[k] = Null THEN book[p][k].price ELSE close[k]]]
  /\ cash' = [cash EXCEPT ![p] = InitialCapital + ledgerCash]
  /\ pc' = [pc EXCEPT ![p] = "marked"]
  /\ UNCHANGED <<ledgerVars, positionVars, snapshotVars, order, seen, book>>

(* The rows the UPDATEs of the process reach.                              *)
Marked(p) == {k \in DOMAIN marks[p] : qty[k] > 0}

(* A NAV that counts the long sleeve only.                                 *)
SleevesLongOnly(v) == SumOver(v, LongKeys)

Sleeves(v) == SumOver(v, LongKeys) + SumOver(v, HedgeKeys)

(* The last snapshot on or before the date, the row being replaced too.    *)
PreviousNavOnOrBefore(d) ==
  LET before == {e \in Dates : e <= d /\ nav[e] # Null}
  IN IF before = {} THEN InitialCapital ELSE nav[CHOOSE e \in before : \A f \in before : f <= e]

PreviousNav(d) ==
  LET before == {e \in Dates : e < d /\ nav[e] # Null}
  IN IF before = {} THEN InitialCapital ELSE nav[CHOOSE e \in before : \A f \in before : f <= e]

(* The sums over positions, the previous NAV, the upsert, and the commit   *)
(* of it all.                                                              *)
WriteSnapshot(p, d) ==
  /\ pc[p] = "marked"
  /\ price' = [k \in Keys |-> IF k \in Marked(p) THEN marks[p][k] ELSE price[k]]
  /\ value' = [k \in Keys |-> IF k \in Marked(p) THEN book[p][k].quantity * marks[p][k]
                              ELSE value[k]]
  /\ LET total == cash[p] + Sleeves(value')
     IN /\ nav' = [nav EXCEPT ![d] = total]
        /\ pnl' = [pnl EXCEPT ![d] = total - PreviousNav(d)]
  /\ inOrder' = (inOrder /\ \A e \in Dates : e > d => nav[e] = Null)
  /\ UNCHANGED <<ledgerVars, qty, avg>>
  /\ End(p)

Step(p) ==
  \/ \E o \in Order : StartTrade(p, o)
  \/ Buy(p)
  \/ Sell(p)
  \/ Reject(p)
  \/ Abort(p)
  \/ StartSnapshot(p)
  \/ Mark(p)
  \/ \E d \in Dates : WriteSnapshot(p, d)

Next == \E p \in Processes : Step(p)

Spec == Init /\ [][Next]_vars
-----------------------------------------------------------------------------
(* The columns of every table and the locals of every process have their   *)
(* types; a position's cost and price are never negative.                  *)
TypeOK ==
  /\ ledgerQty \in [Keys -> Int]
  /\ ledgerCash \in Int
  /\ nTrades \in Nat
  /\ qty \in [Keys -> Nat]
  /\ avg \in [Keys -> Nat]
  /\ price \in [Keys -> Nat]
  /\ value \in [Keys -> Nat]
  /\ realized \in Int
  /\ buyFees \in Nat
  /\ nav \in [Dates -> Int \cup {Null}]
  /\ pnl \in [Dates -> Int]
  /\ inOrder \in BOOLEAN
  /\ pc \in [Processes -> Steps]
  /\ \A p \in Processes : order[p] \in IF pc[p] = "trading" THEN Order ELSE {NoOrder}
  /\ seen \in [Processes -> Position]
  /\ cash \in [Processes -> Int]

(* positions is what trades adds up to (record_trade.py:15-16, "the        *)
(* current-state view derived FROM the ledger"): a row holds exactly the   *)
(* shares bought less the shares sold, and a key without a row has none.   *)
(* As quantities are naturals, the ledger never goes short.                *)
PositionsMatchLedger == \A k \in Keys : qty[k] = ledgerQty[k]

(* No money appears or vanishes in the books: the cash that the ledger     *)
(* replays to, with all open positions at cost, is the capital with the    *)
(* gains realised less the fees of the buys, whatever was bought, partly   *)
(* sold and bought again at other prices.                                  *)
BooksBalance ==
  ledgerCash + SumOver([k \in Keys |-> qty[k] * avg[k]], Keys) = realized - buyFees

(* The NAV of a snapshot, which adds cash and market values, is the one    *)
(* the profit and loss accounts give: capital, realised gains less fees of *)
(* buys, and the unrealised gains of both sleeves at their last prices.    *)
NavReconciles ==
  [][\A d \in Dates : nav'[d] # nav[d] =>
       nav'[d] = InitialCapital + realized' - buyFees'
                 + SumOver([k \in Keys |-> qty'[k] * (price'[k] - avg'[k])], Keys)]_vars

(* While snapshots are taken in the order of their dates, days possibly    *)
(* skipped and the last one possibly taken again after more trades, the    *)
(* daily pnls up to a day add up to what its NAV has gained on the capital.*)
DailyPnlAddsUp ==
  inOrder => \A d \in Dates : nav[d] # Null =>
    SumOver(pnl, {e \in 1 .. d : nav[e] # Null}) = nav[d] - InitialCapital
=============================================================================
