----------------------------- MODULE MCPayments -----------------------------
(* Payments with two claims on one grant, two withdrawals, a withdrawal and  *)
(* a reshape of the wallet it spends, or two disbursements of one bond.      *)
EXTENDS Payments, FiniteSets, TLC

CONSTANTS f1, f2, w1, w2, rs, e1, e2, s1, s2, hot, deposit, c1, c2, p1, p2

MCKind == [r \in Request |-> CASE r \in {f1, f2} -> "Faucet" [] r \in {w1, w2} -> "Withdrawal"
                               [] r = rs -> "FanOut" [] OTHER -> "Escrow"]
MCSubject == [r \in Request |-> IF r \in {w2, rs} THEN s2 ELSE s1]
MCWallet == [r \in Request |-> IF r \in {e1, e2} THEN deposit ELSE hot]
MCCoins == [w \in {hot, deposit} |-> IF w = deposit THEN {p1, p2} ELSE {c1, c2}]
MCWorth == [C \in SUBSET Coin |-> Cardinality(C)]
MCActive == {{f1, f2}, {w1, w2}, {w1, rs}, {e1, e2}}
Coins == Permutations({c1, c2})
=============================================================================
