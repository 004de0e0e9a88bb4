------------------------------ MODULE Exchange ------------------------------
(***************************************************************************)
(* The exchange's ledger: accounts, limit orders and the matching of one   *)
(* order against the book.                                                 *)
(*                                                                         *)
(* Every handler here works on a staged copy under the board's write lock, *)
(* commits what it touched in one store transaction and only then publishes*)
(* it, so each is one step whose commit may fail.  An order's place in the *)
(* sequence of orders is its creation time.                                *)
(***************************************************************************)
EXTENDS Naturals, FiniteSets, SequencesExt

CONSTANTS
    Agent,              \* keys that deposit, trade and withdraw
    Operator,           \* the hub's own key, to which taker fees go
    Price, Quantity,    \* what an order may ask for (zero included)
    TAKER_FEE_BPS,      \* basis points of a fill kept from the taker
    MaxAmount,          \* the largest u64
    OpeningCompute,     \* the compute an account may hold from before rewards were retired
    MaxOrders           \* bound: orders ever placed

ASSUME ExchangeAssumption ==
    /\ Operator \notin Agent
    /\ Price \subseteq Nat /\ Quantity \subseteq Nat
    /\ TAKER_FEE_BPS \in 0..10000
    /\ {MaxAmount, MaxOrders} \cup OpeningCompute \subseteq Nat

VARIABLES
    accounts,       \* TaskBoard.exchange_accounts, as on disk
    orders          \* TaskBoard.orders, as on disk

book == <<accounts, orders>>

-----------------------------------------------------------------------------
(* Data *)

Owner == Agent \cup {Operator}
Side == {"Buy", "Sell"}
OrderStatus == {"Open", "Filled", "Cancelled"}
ExchangeAccount == [base : Nat, locked_base : Nat, compute : Nat, locked_compute : Nat]
Order == [owner : Agent, side : Side, price : Nat, quantity : Nat, filled : Nat,
          status : OrderStatus]

NoAccount == [base |-> 0, locked_base |-> 0, compute |-> 0, locked_compute |-> 0]
Remaining(o) == o.quantity - o.filled
AvailableBase(a) == accounts[a].base - accounts[a].locked_base
AvailableCompute(a) == accounts[a].compute - accounts[a].locked_compute
OpenOrders(os, a, side) ==
    {i \in DOMAIN os : os[i].status = "Open" /\ os[i].owner = a /\ os[i].side = side}

\* The accounts the store restores: no payout mints compute any more, so what
\* there is to trade is what accounts already held.
InitExchange ==
    /\ \E held \in [Agent -> OpeningCompute] :
         accounts = [a \in Owner |-> IF a \in Agent THEN [NoAccount EXCEPT !.compute = held[a]]
                                                   ELSE NoAccount]
    /\ orders = << >>

-----------------------------------------------------------------------------
(* Matching *)

\* The resting orders stage_order copies and best_resting_match considers.
Crosses(taker, o) ==
    /\ o.status = "Open" /\ o.side # taker.side /\ o.owner # taker.owner
    /\ IF taker.side = "Buy" THEN o.price <= taker.price ELSE o.price >= taker.price

\* Faulty variant: the oldest crossing order first, whatever its price.
OldestFirst(os, side, i, j) == i < j

\* Resting order i is served before j: better price, then earlier.
ServedBefore(os, side, i, j) ==
    \/ IF side = "Buy" THEN os[i].price < os[j].price ELSE os[i].price > os[j].price
    \/ os[i].price = os[j].price /\ i < j

BestRestingMatch(os, taker) ==
    LET crossing == {i \in DOMAIN os : Crosses(taker, os[i])}
    IN  {i \in crossing : \A j \in crossing \ {i} : ServedBefore(os, taker.side, i, j)}

\* Faulty variant: the buyer's lock is released at the execution price.
ReleaseAtExecutionPrice(buy_price, price, qty) == price * qty

\* What one fill releases of the buyer's lock: its own price, not the
\* (equal or better) price the fill executes at.
ReleasedLock(buy_price, price, qty) == buy_price * qty

TakerFee(side, price, qty) ==
    ((IF side = "Buy" THEN qty ELSE price * qty) * TAKER_FEE_BPS) \div 10000

\* One turn of place_order's loop on s = [accts, os, taker, fee_base,
\* fee_compute]: fill the taker against resting order r, at r's price.
Fill(s, r) ==
    LET rest == s.os[r]
        qty == Min({Remaining(s.taker), Remaining(rest)})
        buying == s.taker.side = "Buy"
        notional == rest.price * qty
        fee == TakerFee(s.taker.side, rest.price, qty)
        buyer == IF buying THEN s.taker.owner ELSE rest.owner
        seller == IF buying THEN rest.owner ELSE s.taker.owner
        buy_price == IF buying THEN s.taker.price ELSE rest.price
        filled(o) == [o EXCEPT !.filled = @ + qty,
                               !.status = IF o.filled + qty >= o.quantity THEN "Filled" ELSE @]
    IN  [accts |-> [s.accts EXCEPT
                       ![buyer].locked_base = @ - ReleasedLock(buy_price, rest.price, qty),
                       ![buyer].base = @ - notional,
                       ![buyer].compute = @ + qty - (IF buying THEN fee ELSE 0),
                       ![seller].locked_compute = @ - qty,
                       ![seller].compute = @ - qty,
                       ![seller].base = @ + notional - (IF buying THEN 0 ELSE fee)],
         os |-> [s.os EXCEPT ![r] = filled(rest)],
         taker |-> filled(s.taker),
         fee_base |-> s.fee_base + (IF buying THEN 0 ELSE fee),
         fee_compute |-> s.fee_compute + (IF buying THEN fee ELSE 0)]

FillBest(s, turn) ==
    LET best == BestRestingMatch(s.os, s.taker)
    IN  IF Remaining(s.taker) = 0 \/ best = {} THEN s
        ELSE Fill(s, CHOOSE r \in best : TRUE)

credit_base(accts, a, amount) == [accts EXCEPT ![a].base = @ + amount]

credit_compute(accts, a, amount) == [accts EXCEPT ![a].compute = @ + amount]

\* taker_fee_totals, credited to the operator in the same commit.
WithFees(s) == credit_compute(credit_base(s.accts, Operator, s.fee_base), Operator, s.fee_compute)

\* What place_order checks before it locks anything.
Placeable(a, side, price, qty) ==
    /\ price > 0 /\ qty > 0 /\ price * qty <= MaxAmount
    /\ IF side = "Buy" THEN AvailableBase(a) >= price * qty ELSE AvailableCompute(a) >= qty

Locked(a, side, price, qty) ==
    IF side = "Buy" THEN [accounts EXCEPT ![a].locked_base = @ + price * qty]
                    ELSE [accounts EXCEPT ![a].locked_compute = @ + qty]

\* One commit of the orders a placement touched and of the accounts behind them.
save_fill(os, accts) == orders' = os /\ accounts' = accts

PlaceOrder(a, side, price, qty) ==
    /\ Len(orders) < MaxOrders
    /\ Placeable(a, side, price, qty)
    /\ LET taker == [owner |-> a, side |-> side, price |-> price, quantity |-> qty,
                     filled |-> 0, status |-> "Open"]
           s == FoldLeftDomain(FillBest,
                    [accts |-> Locked(a, side, price, qty), os |-> orders, taker |-> taker,
                     fee_base |-> 0, fee_compute |-> 0],
                    orders)
       IN  save_fill(Append(s.os, s.taker), WithFees(s))

\* What cancelling an order gives back: the part no fill has consumed.
CancelRelease(o) == Remaining(o)

\* An order and its owner's account, in one commit.
save_order_and_account(i, order, a, account) ==
    /\ orders' = [orders EXCEPT ![i] = order]
    /\ accounts' = [accounts EXCEPT ![a] = account]

CancelOrder(a, i) ==
    /\ i \in DOMAIN orders /\ orders[i].owner = a /\ orders[i].status = "Open"
    /\ save_order_and_account(i, [orders[i] EXCEPT !.status = "Cancelled"], a,
          IF orders[i].side = "Buy"
          THEN [accounts[a] EXCEPT !.locked_base = @ - orders[i].price * CancelRelease(orders[i])]
          ELSE [accounts[a] EXCEPT !.locked_compute = @ - CancelRelease(orders[i])])

Trade ==
    \/ \E a \in Agent, side \in Side, p \in Price, q \in Quantity : PlaceOrder(a, side, p, q)
    \/ \E a \in Agent, i \in 1..MaxOrders : CancelOrder(a, i)

\* What the boot reconciliation reports: accounts with a lock and no open order.
check_locked_balances_without_open_orders ==
    {a \in Owner : /\ accounts[a].locked_base # 0 \/ accounts[a].locked_compute # 0
                   /\ \A side \in Side : OpenOrders(orders, a, side) = {}}

-----------------------------------------------------------------------------
(* Properties *)

\* Nothing in the ledger ever goes below zero and no lock exceeds its balance,
\* through every fill and cancellation (u64 arithmetic that would
\* otherwise panic or wrap under the board's write lock).
LedgerTypeOK ==
    /\ accounts \in [Owner -> ExchangeAccount]
    /\ \A a \in Owner : /\ accounts[a].locked_base <= accounts[a].base
                       /\ accounts[a].locked_compute <= accounts[a].compute
    /\ orders \in Seq(Order) /\ Len(orders) <= MaxOrders
    /\ \A i \in DOMAIN orders : orders[i].filled <= orders[i].quantity

\* Every account's locks are exactly what its open orders still need: the
\* unfilled part of its bids at their own price, and of its asks.  This is the
\* strong form of the check reconcile.rs leaves out as too easy to get wrong, and
\* that check finds nothing either.
LocksMatchOpenOrders ==
    /\ check_locked_balances_without_open_orders = {}
    /\ \A a \in Owner :
        /\ accounts[a].locked_base =
              MapThenSumSet(LAMBDA i : orders[i].price * Remaining(orders[i]),
                            OpenOrders(orders, a, "Buy"))
        /\ accounts[a].locked_compute =
              MapThenSumSet(LAMBDA i : Remaining(orders[i]), OpenOrders(orders, a, "Sell"))

\* No step creates or destroys compute, a taker's fee included: what place_order
\* takes from one account it gives to another or to the operator.
ComputeConserved ==
    MapThenSumSet(LAMBDA a : accounts'[a].compute, Owner)
      = MapThenSumSet(LAMBDA a : accounts[a].compute, Owner)

\* No two open orders of different owners could still trade with each other
\* once the placement that might have matched them has returned.
BookUncrossed ==
    \A i, j \in DOMAIN orders :
        /\ orders[i].status = "Open" /\ orders[i].side = "Buy"
        /\ orders[j].status = "Open" /\ orders[j].side = "Sell"
        /\ orders[i].owner # orders[j].owner
        => orders[i].price < orders[j].price

\* Price-time priority: a step that fills a resting order leaves no order of
\* the same side open that should have been served before it, other than the
\* taker's own, which best_resting_match never offers to it.
PriceTimePriority ==
    \A i, j \in DOMAIN orders :
       LET taker == orders'[Len(orders')]
       IN  /\ orders'[i].filled > orders[i].filled
           /\ orders[j].status = "Open" /\ orders[j].side = orders[i].side
           /\ orders[j].owner # taker.owner
           /\ \/ IF orders[i].side = "Sell" THEN orders[j].price < orders[i].price
                                            ELSE orders[j].price > orders[i].price
              \/ orders[j].price = orders[i].price /\ j < i
           => orders'[j].status = "Filled"

\* Every step that trades is fair: it serves the orders of a side in price-time order and
\* creates or destroys no compute (best_resting_match, place_order).
TradesFair == [][ComputeConserved /\ PriceTimePriority]_<<accounts, orders>>
=============================================================================
