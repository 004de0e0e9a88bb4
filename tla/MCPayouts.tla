----------------------------- MODULE MCPayouts ------------------------------
(***************************************************************************)
(* Two tasks of two legs each, one paid from the operator's wallet and one *)
(* from an escrow deposit.  A behaviour follows the payouts of one of them.*)
(***************************************************************************)
EXTENDS MCSettlement, FiniteSets

CONSTANTS l3, l4, c3

BothTasks == [l \in {l1, l2, l3, l4} |-> IF l \in {l1, l2} THEN t1 ELSE t2]
EscrowDeposit == [t \in {t2} |-> {c3}]

\* The legs of both tasks are swapped together: only one of the tasks is followed.
LegsCoinsEscrow ==
    {l1 :> l2 @@ l2 :> l1 @@ l3 :> l4 @@ l4 :> l3} \cup Permutations({c1, c2})

\* Tasks that somebody is settling, or that differ from what they were at first.
Followed ==
    ({job[p].task : p \in Proc} \ {None})
      \cup {t \in Task : \E b \in {board, disk} : b.status[t] # "Verified"}
      \cup {TaskOf[l] : l \in {k \in Leg : \E b \in {board, disk} : b.attempt[k] # None \/ k \in b.paid}}

\* A recipient who spends a payout before the hub saw it confirmed is left to the runs that
\* settle one leg.
OneTaskAtATime == Cardinality(Followed) \leq 1 /\ spent = {}
=============================================================================
