---------------------------- MODULE MCSettlement ----------------------------
(* Settlement on small instances: two legs, of one task or of two. *)
EXTENDS SettlementInv, TLC

CONSTANTS t1, t2, l1, l2, h1, sw, c1, c2, x1, x2, x3

OneLeg == [l \in {l1} |-> t1]
TwoTasks == [l \in {l1, l2} |-> IF l = l1 THEN t1 ELSE t2]
TwoLegs == [l \in {l1, l2} |-> t1]
MCChangeOf == [i \in 1..MaxTx |-> <<x1, x2, x3>>[i]]
NoDeposit == [t \in {} |-> {}]
OneDeposit == [t \in {t1} |-> {c1}]
Singles == {{c} : c \in Coin}

\* Symmetries: the legs of one task, the operator's two coins, and two tasks
\* swapped together with their legs.
Legs2 == Permutations({l1, l2})
LegsAndCoins == Legs2 \cup Permutations({c1, c2})
TasksAndCoins == {t1 :> t2 @@ t2 :> t1 @@ l1 :> l2 @@ l2 :> l1} \cup Permutations({c1, c2})
=============================================================================
