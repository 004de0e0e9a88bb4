------------------------------ MODULE MCSpending -----------------------------
(***************************************************************************)
(* Whoever spends coins another may be spending: two operator-funded       *)
(* payouts from one wallet, an agent through the hub and its own wallet,   *)
(* and an operator who pays by hand beside the hub.  A behaviour follows   *)
(* one of them and leaves the rest as it starts.                           *)
(***************************************************************************)
EXTENDS MCSettlement, Spending, HandPayment

MCCoins == <<3, 6>>

VARIABLE focus    \* what this behaviour follows

spendingVars == <<vars, spendVars, payVars, focus>>

SpendersInit ==
    /\ focus \in {"payouts", "wallet", "by hand"}
    /\ Init /\ SpendingInit /\ HandPaymentInit
    /\ focus # "by hand" => ~hubUp

SpendersNext ==
    /\ UNCHANGED focus
    /\ \/ focus = "payouts" /\ Next /\ UNCHANGED <<spendVars, payVars>>
       \/ focus = "wallet" /\ SpendingNext /\ UNCHANGED <<vars, payVars>>
       \/ focus = "by hand" /\ HandPaymentNext /\ UNCHANGED <<vars, spendVars>>

SpendersSpec == SpendersInit /\ [][SpendersNext]_spendingVars
=============================================================================
