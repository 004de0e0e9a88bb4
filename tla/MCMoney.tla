------------------------------- MODULE MCMoney ------------------------------
(***************************************************************************)
(* The hub's journal of payments, and the exchange whose deposits and      *)
(* withdrawals go through it.  A behaviour follows one of them and leaves  *)
(* the other as it starts.                                                 *)
(***************************************************************************)
EXTENDS MCPayments, Custody

CONSTANTS a1, a2

VARIABLE focus    \* what this behaviour follows

moneyVars == <<vars, custodyVars, focus>>

\* Three orders over one deposit, with no money leaving; one order beside everything the
\* money does; and no orders, with more payments and reshapes.
Trading == withdrawing' = NoEntry /\ fanout'.sent = 0 /\ restarts' = 0 /\ surplus' = 0
OneOrder == Len(orders') <= 1 /\ \A d \in Reservation : payins'[d] <= 1
NoOrders == orders' = << >>

ExchangeScene ==
    \/ focus = "trading" /\ Trading /\ \A d \in Reservation : payins'[d] <= 1
    \/ focus = "one order" /\ OneOrder
    \/ focus = "no orders" /\ NoOrders

\* With two withdrawals no block is empty: one withdrawal beside a reshape covers those.
JournalScene == active = {w1, w2} => \A i \in 1..Len(blocks') : blocks'[i] # None

\* Where nobody trades, nobody has compute to sell; elsewhere one of the two does.
Holders == {a \in Agent : accounts[a].compute > 0}

MoneyInit ==
    /\ focus \in {"journal", "trading", "one order", "no orders"}
    /\ Init /\ CustodyInit
    /\ focus # "journal" => active = {w1, w2}
    /\ Cardinality(Holders) = IF focus \in {"trading", "one order"} THEN 1 ELSE 0

MoneyNext ==
    /\ UNCHANGED focus
    /\ \/ focus = "journal" /\ Next /\ JournalScene /\ UNCHANGED custodyVars
       \/ CustodyNext /\ ExchangeScene /\ UNCHANGED vars

MoneySpec == MoneyInit /\ [][MoneyNext]_moneyVars

\* The coins of the operator's wallet and the two traders behave alike.
Alike == Coins \cup Permutations({a1, a2})
=============================================================================
