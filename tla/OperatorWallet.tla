--------------------------- MODULE OperatorWallet ---------------------------
(***************************************************************************)
(* The shape of a hub wallet: which outputs a payment spends               *)
(* (hub/src/operator_wallet.rs and build_multi_payment of                  *)
(* lib/src/payment.rs) and how maintain_wallet of hub/src/handlers.rs      *)
(* reshapes what is left, on a chain that mines or loses transactions.     *)
(*                                                                         *)
(* A payment spends whole outputs and its change cannot be spent before    *)
(* the next block, so the number of spendable outputs bounds the payments  *)
(* the hub can make per block.                                             *)
(***************************************************************************)
EXTENDS Naturals, FiniteSets, FiniteSetsExt, SequencesExt

CONSTANTS
  MIN_USEFUL_OUTPUT, HUB_FEE,
  Floor,          \* --operator-wallet-outputs
  FirstOutputs,   \* the wallets a behaviour may start with, as bags of values
  PaySizes,       \* amounts the hub pays
  MaxPayments, MaxDropped   \* bounds on payments and on lost mempools

ASSUME OperatorWalletAssumption ==
  /\ MIN_USEFUL_OUTPUT \in Nat \ {0} /\ HUB_FEE \in Nat /\ Floor \in Nat
  /\ \A w \in FirstOutputs : \A i \in DOMAIN w : w[i] \in Nat \ {0}
  /\ MaxPayments \in Nat /\ MaxDropped \in Nat

VARIABLES
  unspent,    \* the wallet's confirmed outputs nothing in the mempool spends
  pending,    \* transactions in the node's mempool: what they spend and return
  fanout,     \* operator_fan_out_inflight: the outputs the last reshape spent
  payments, losses

walletVars == <<unspent, pending, fanout, payments, losses>>

Value(outputs) == MapThenSumSet(LAMBDA o : o.value, outputs)

OperatorWalletInit ==
  /\ \E w \in FirstOutputs : unspent = {[id |-> i, value |-> w[i]] : i \in DOMAIN w}
  /\ pending = {} /\ fanout = {} /\ payments = 0 /\ losses = 0

Marked == UNION {t.spends : t \in pending}
Listed == unspent \union Marked

\* Ids no output in sight has, for the values a transaction returns.
Minted(values) ==
  LET used == {o.id : o \in Listed \union UNION {t.returns : t \in pending}}
      free == SetToSortSeq((1 .. Cardinality(used) + Len(values)) \ used, <)
  IN {[id |-> free[i], value |-> values[i]] : i \in DOMAIN values}

Submit(inputs, values) ==
  /\ unspent' = unspent \ inputs
  /\ pending' = pending \union {[spends |-> inputs, returns |-> Minted(values)]}

-----------------------------------------------------------------------------
(* A payment.                                                              *)

LargestFirst(o, p) == o.value > p.value \/ (o.value = p.value /\ o.id < p.id)

\* Largest first, but the smallest output that covers all of it before them.
ordered_for_payment(needed) ==
  LET ordered == SetToSortSeq(unspent, LargestFirst)
      covering == {i \in DOMAIN ordered : ordered[i].value >= needed}
      best == Max(covering)
  IN IF covering = {} THEN ordered
     ELSE <<ordered[best]>> \o RemoveAt(ordered, best)

\* build_multi_payment's walk: outputs from the front until they cover it.
Selected(needed) ==
  LET ordered == ordered_for_payment(needed)
      front(n) == {ordered[i] : i \in 1 .. n}
      enough == {n \in 0 .. Len(ordered) : Value(front(n)) >= needed}
  IN front(Min(enough))

Change(paid, needed) == IF paid > needed THEN <<paid - needed>> ELSE <<>>

Affordable(needed) == Value(unspent) >= needed

build_multi_payment(amount) ==
  LET needed == amount + HUB_FEE
  IN /\ payments < MaxPayments /\ payments' = payments + 1
     /\ Affordable(needed)
     /\ \E inputs \in {Selected(needed)} :
          Submit(inputs, Change(Value(inputs), needed))
     /\ UNCHANGED <<fanout, losses>>

-----------------------------------------------------------------------------
(* A reshape.                                                              *)

ready_outputs == {o \in unspent : o.value >= MIN_USEFUL_OUTPUT}
Dust == unspent \ ready_outputs

Spendable(inputs) == IF Value(inputs) > HUB_FEE THEN Value(inputs) - HUB_FEE ELSE 0

\* Equal shares, the last one with the remainder: no change is left.
cut(inputs, pieces) ==
  LET share == Spendable(inputs) \div pieces
  IN [inputs |-> inputs,
      shares |-> [i \in 1 .. pieces |->
                    IF i < pieces THEN share ELSE Spendable(inputs) - (share * (pieces - 1))]]

Lesser(a, b) == IF a < b THEN a ELSE b

\* Faulty variant: a split into one piece counts as a reshape.
PlanAnySplit ==
  LET wanted == Floor - Cardinality(ready_outputs)
      dust == Spendable(Dust) \div MIN_USEFUL_OUTPUT
      inputs == Dust \union {CHOOSE o \in ready_outputs : \A p \in ready_outputs \ {o} : LargestFirst(o, p)}
      pieces == Lesser(wanted + 1, Spendable(inputs) \div MIN_USEFUL_OUTPUT)
  IN IF Cardinality(ready_outputs) >= Floor THEN {}
     ELSE IF dust >= 1 THEN {cut(Dust, Lesser(wanted, dust))}
     ELSE IF ready_outputs = {} \/ pieces < 1 THEN {} ELSE {cut(inputs, pieces)}

\* Consolidate the dust when it makes an output; else split the largest output,
\* the dust with it, when that makes more than one.  {} is None.
plan_reshape ==
  LET wanted == Floor - Cardinality(ready_outputs)
      dust == Spendable(Dust) \div MIN_USEFUL_OUTPUT
      inputs == Dust \union {CHOOSE o \in ready_outputs : \A p \in ready_outputs \ {o} : LargestFirst(o, p)}
      pieces == Lesser(wanted + 1, Spendable(inputs) \div MIN_USEFUL_OUTPUT)
  IN IF Cardinality(ready_outputs) >= Floor THEN {}
     ELSE IF dust >= 1 THEN {cut(Dust, Lesser(wanted, dust))}
     ELSE IF ready_outputs = {} \/ pieces < 2 THEN {} ELSE {cut(inputs, pieces)}

\* A reshape is in flight while an output it spent is listed and marked.
StillInFlight == fanout \intersect Marked # {}

maintain_wallet ==
  /\ ~StillInFlight
  /\ IF plan_reshape = {}
     THEN fanout' = {} /\ UNCHANGED <<unspent, pending>>
     ELSE \E plan \in plan_reshape :
            /\ fanout' = plan.inputs
            /\ Submit(plan.inputs, plan.shares)
  /\ UNCHANGED <<payments, losses>>

-----------------------------------------------------------------------------
(* The chain.                                                              *)

\* A block takes everything pending.
BlockMined ==
  /\ pending # {}
  /\ unspent' = unspent \union UNION {t.returns : t \in pending}
  /\ pending' = {}
  /\ UNCHANGED <<fanout, payments, losses>>

\* The node restarts: its mempool is gone and what it marked is unmarked.
MempoolLost ==
  /\ pending # {} /\ losses < MaxDropped /\ losses' = losses + 1
  /\ unspent' = Listed
  /\ pending' = {}
  /\ UNCHANGED <<fanout, payments>>

OperatorWalletNext ==
  \/ \E a \in PaySizes : build_multi_payment(a)
  \/ maintain_wallet \/ BlockMined \/ MempoolLost

-----------------------------------------------------------------------------
(* A payment spends as few outputs as any choice could, and one that a     *)
(* single output covers leaves every larger one whole: the number of       *)
(* outputs left is the number of payments left before the next block.      *)
FewestOutputs ==
  \A a \in PaySizes :
    LET needed == a + HUB_FEE
        spent == Selected(needed)
    IN Affordable(needed) =>
         /\ \A S \in SUBSET unspent :
              Cardinality(S) < Cardinality(spent) => Value(S) < needed
         /\ Cardinality(spent) = 1 =>
              \A o \in unspent : o.value >= needed => o.value >= Value(spent)

(* A reshape is worth its fee.  It makes more useful outputs than it       *)
(* spends and never more than the floor asks for.                          *)
ReshapeGains ==
  \A plan \in plan_reshape :
    LET kept == Cardinality(ready_outputs \ plan.inputs)
        made == Cardinality({i \in DOMAIN plan.shares : plan.shares[i] >= MIN_USEFUL_OUTPUT})
    IN /\ made = Len(plan.shares)
       /\ kept + made > Cardinality(ready_outputs)
       /\ kept + made <= Floor

(* Its shares and its fee are exactly what it spends, so the transaction   *)
(* has no change output the plan did not choose the size of.               *)
ReshapeExact ==
  \A plan \in plan_reshape :
    HUB_FEE + FoldSeq(+, 0, plan.shares) = Value(plan.inputs)

(* A wallet that has eroded into dust but holds a useful output's worth of *)
(* it does not stay that way: the sweep makes it able to pay again, after  *)
(* any payments, lost mempools and reshapes that came before.              *)
DustRecovers ==
  []<>(ready_outputs # {} \/ Value(Listed) < MIN_USEFUL_OUTPUT + HUB_FEE)

\* The operator's wallet spends and reshapes its outputs so that it can go on paying.
WalletSound == FewestOutputs /\ ReshapeGains /\ ReshapeExact
=============================================================================
