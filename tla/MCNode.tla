------------------------------- MODULE MCNode -------------------------------
(***************************************************************************)
(* Instances of Node for TLC.  Two blocks are common, g and c; then the    *)
(* branches a1-..-a4 and b1-..-b3 compete.  The b blocks are faster, so the*)
(* retarget after b2 makes b3 harder and worth more work than a3.  x2 spends *)
(* an output twice and y3 has the target of the wrong branch: both are     *)
(* refused.  A run's cfg picks the blocks and transactions it needs.       *)
(***************************************************************************)
EXTENDS Node, TLC

ParentOf == [c |-> "g", a1 |-> "c", a2 |-> "a1", a3 |-> "a2", a4 |-> "a3",
             b1 |-> "c", b2 |-> "b1", b3 |-> "b2", x2 |-> "a1", y3 |-> "b2"]

TimeOf == [g |-> 0, c |-> 8, a1 |-> 10, a2 |-> 26, a3 |-> 30, a4 |-> 34,
           b1 |-> 10, b2 |-> 14, b3 |-> 16, x2 |-> 26, y3 |-> 16]

TxsOf == [g |-> <<>>, c |-> <<>>, a1 |-> <<"t2">>, a2 |-> <<"t3">>, a3 |-> <<>>, a4 |-> <<>>,
          b1 |-> <<>>, b2 |-> <<"t4">>, b3 |-> <<>>, x2 |-> <<"t2">>, y3 |-> <<>>]

InOf  == [t1 |-> <<"og", "oc">>, t2 |-> <<"og">>, t3 |-> <<"o2">>, t4 |-> <<"oc">>]
OutOf == [t1 |-> {"o1"}, t2 |-> {"o2"}, t3 |-> {"o3"}, t4 |-> {"o4"}]
FeeOf == [t1 |-> 1, t2 |-> 2, t3 |-> 1, t4 |-> 2]
RewardOf == [g |-> {"og"}, c |-> {"oc"}]

\* The best peer: none, on the node's own branch, on another one.
NoPeer    == <<>>
PeerAhead == <<"c", "a3">>
PeerForks == <<"c", "b2">>

TreeParent == [b \in Block \ {Genesis} |-> ParentOf[b]]
TreeTime   == [b \in Block |-> TimeOf[b]]
TreeTarget == [b \in Block |-> IF b = "b3" THEN 31 ELSE 63]
TreeTxs    == [b \in Block |-> SelectSeq(TxsOf[b], LAMBDA tx : tx \in Tx)]
TreeReward == [b \in Block |-> IF b \in DOMAIN RewardOf THEN RewardOf[b] ELSE {}]
TxInputs   == [tx \in Tx |-> InOf[tx]]
TxOutputs  == [tx \in Tx |-> OutOf[tx]]
TxFee      == [tx \in Tx |-> FeeOf[tx]]
=============================================================================
