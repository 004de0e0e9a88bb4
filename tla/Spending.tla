------------------------------ MODULE Spending ------------------------------
(***************************************************************************)
(* How an agent spends its own coins: through the hub (POST /wallet/send,  *)
(* send_coins of hub/src/handlers.rs) or with the terminal wallet          *)
(* (wallet/src/core.rs), and what a signature consents to                  *)
(* (lib/src/types/transaction.rs).                                         *)
(*                                                                         *)
(* The hub checks a spend against what the node listed for the signer and  *)
(* only then hands it over, so a second spend of the coin may overtake it. *)
(* The wallet picks coins from a list it refreshes every 20 seconds.  The  *)
(* node's mempool is the node of Chain.tla, reduced to one owner's coins.  *)
(***************************************************************************)
EXTENDS Naturals, Sequences, FiniteSets, FiniteSetsExt

CONSTANTS
  FirstCoins,        \* the owner's coins: id -> value, ids in the node's order
  Payees, Amounts,   \* who and how much a spend pays
  Holder,            \* the owner's own key, where change goes
  Request,           \* concurrent POST /wallet/send requests
  HUB_FEE,
  FEE_BASE, FEE_PER_INPUT, FEE_PER_OUTPUT,   \* FeeType::PerByte, per part of a transaction
  NoSpend,           \* no transaction
  MaxWalletSends, MaxForgotten   \* bounds: payments by the wallet, mempools lost

ASSUME SpendingAssumption ==
  /\ DOMAIN FirstCoins \subseteq Nat /\ IsFiniteSet(DOMAIN FirstCoins)
  /\ \A c \in DOMAIN FirstCoins : FirstCoins[c] \in Nat \ {0}
  /\ Holder \notin Payees /\ Amounts \subseteq Nat \ {0}
  /\ {HUB_FEE, FEE_BASE, FEE_PER_INPUT, FEE_PER_OUTPUT,
      MaxWalletSends, MaxForgotten} \subseteq Nat

VARIABLES
  coins,      \* ids of the owner's confirmed coins
  pool,       \* transactions the node holds
  confirmed,  \* transactions in blocks
  req,        \* each request's spend
  held,       \* the wallet's UtxoStore: coin -> marked
  sending,    \* transactions the wallet has spawned and not yet written
  walletUp,   \* the wallet's one stream to the node is open
  walletSends, forgotten

spendVars == <<coins, pool, confirmed, req, held, sending, walletUp, walletSends, forgotten>>

Total(outputs) == FoldFunctionOnSet(LAMBDA o, sum : o.value + sum, 0, outputs, DOMAIN outputs)
Worth(ids) == MapThenSumSet(LAMBDA c : FirstCoins[c], ids)

MarkedCoins == UNION {DOMAIN t.inputs : t \in pool}
Conflicts(t) == {o \in pool : DOMAIN o.inputs \cap DOMAIN t.inputs # {}}

-----------------------------------------------------------------------------
(* What an input signs.                                                    *)

\* Faulty variant: the signature names the coin and not where it goes.
CoinOnly(coin, outputs) == <<coin>>

\* The coin, and the value and key of every output in order; not the outputs' ids.
spend_commitment(coin, outputs) ==
  <<coin, [i \in DOMAIN outputs |-> <<outputs[i].value, outputs[i].pubkey>>]>>

\* TransactionInput::signed: consent is what the owner had in front of it.
signed(ids, outputs) ==
  [c \in ids |-> [over |-> spend_commitment(c, outputs), consent |-> outputs]]

verifies(t) == \A c \in DOMAIN t.inputs : t.inputs[c].over = spend_commitment(c, t.outputs)

Spend(ids, outputs) == [inputs |-> signed(ids, outputs), outputs |-> outputs]

FeePaid(t) == Worth(DOMAIN t.inputs) - Total(t.outputs)

-----------------------------------------------------------------------------
(* The node (add_to_mempool, see Chain.tla): replaced only by a larger fee.*)

Admissible(t) ==
  /\ DOMAIN t.inputs \subseteq coins
  /\ verifies(t)
  /\ Worth(DOMAIN t.inputs) >= Total(t.outputs)
  /\ \A o \in Conflicts(t) : FeePaid(t) > FeePaid(o)

Admit(t) == pool' = (pool \ Conflicts(t)) \union {t}

MineSpends ==
  /\ pool # {}
  /\ confirmed' = confirmed \union pool
  /\ coins' = coins \ MarkedCoins
  /\ pool' = {}
  /\ UNCHANGED <<req, held, sending, walletUp, walletSends, forgotten>>

\* The node restarts: its mempool is memory only, and the wallet's stream closes.
ForgetSpends ==
  /\ pool # {} /\ forgotten < MaxForgotten
  /\ pool' = {} /\ forgotten' = forgotten + 1 /\ walletUp' = FALSE
  /\ UNCHANGED <<coins, confirmed, req, held, sending, walletSends>>

\* A party that carries a signed spend puts other outputs under its signatures.
CarrierAlters ==
  \E t \in (sending \union {req[r] : r \in Request}) \ {NoSpend}, p \in Payees :
    LET altered == [t EXCEPT !.outputs = [i \in DOMAIN @ |-> [@[i] EXCEPT !.pubkey = p]]]
    IN /\ altered # t
       /\ IF Admissible(altered) THEN Admit(altered) ELSE UNCHANGED pool
  /\ UNCHANGED <<coins, confirmed, req, held, sending, walletUp, walletSends, forgotten>>

-----------------------------------------------------------------------------
(* POST /wallet/send.                                                      *)

Changes == {<<>>} \union {<<[value |-> v, pubkey |-> Holder]>> : v \in Amounts}

Proposal(ids, a, p, change) == Spend(ids, <<[value |-> a, pubkey |-> p]>> \o change)

\* What clients put together: any coins and up to two outputs, signed by the owner,
\* with sums that need not balance.
Proposals ==
  {Proposal(ids, a, p, change) :
     ids \in SUBSET DOMAIN FirstCoins, a \in Amounts, p \in Payees, change \in Changes}

\* Shape, then every input listed for the signer, unmarked and signed, then the fee.
Relayable(t) ==
  /\ DOMAIN t.inputs # {}
  /\ \A i \in DOMAIN t.outputs : t.outputs[i].value > 0
  /\ DOMAIN t.inputs \subseteq coins \ MarkedCoins
  /\ verifies(t)
  /\ Worth(DOMAIN t.inputs) >= Total(t.outputs) + HUB_FEE

send_coins(r) ==
  /\ req[r] = NoSpend
  /\ \E t \in Proposals :
       /\ Relayable(t)
       /\ req' = [req EXCEPT ![r] = t]
  /\ UNCHANGED <<coins, pool, confirmed, held, sending, walletUp, walletSends, forgotten>>

\* submit_transaction is told nothing of what the node made of it.
submit_transaction(r) ==
  /\ req[r] # NoSpend
  /\ IF Admissible(req[r]) THEN Admit(req[r]) ELSE UNCHANGED pool
  /\ req' = [req EXCEPT ![r] = NoSpend]
  /\ UNCHANGED <<coins, confirmed, held, sending, walletUp, walletSends, forgotten>>

-----------------------------------------------------------------------------
(* The terminal wallet.                                                    *)

\* The whole list is replaced.
fetch_utxos == held' = [c \in coins |-> c \in MarkedCoins]

\* Every twenty seconds, as long as the stream is open.  Nothing reopens a closed one.
update_utxos ==
  /\ walletUp
  /\ fetch_utxos
  /\ held' # held
  /\ UNCHANGED <<coins, pool, confirmed, req, sending, walletUp, walletSends, forgotten>>

calculate_fee(inputs, outputs) ==
  FEE_BASE + (inputs * FEE_PER_INPUT) + (outputs * FEE_PER_OUTPUT)

\* The unmarked coins in order, until they cover the amount and the fee of themselves.
Collected(amount) ==
  LET free == {c \in DOMAIN held : ~held[c]}
      front(n) == {c \in free : Cardinality({d \in free : d <= c}) <= n}
      enough == {n \in 0 .. Cardinality(free) : Worth(front(n)) >= amount + calculate_fee(n, 2)}
  IN {front(n) : n \in {m \in enough : \A k \in enough : m <= k}}

\* create_transaction; the coins it picks stay unmarked in the wallet's own list.
send_transaction_async ==
  /\ walletSends < MaxWalletSends
  /\ \E amount \in Amounts, p \in Payees : \E ids \in Collected(amount) :
       LET needed == amount + calculate_fee(Cardinality(ids), 2)
           change == IF Worth(ids) > needed
                     THEN <<[value |-> Worth(ids) - needed, pubkey |-> Holder]>> ELSE <<>>
       IN sending' = sending \union {Proposal(ids, amount, p, change)}
  /\ walletSends' = walletSends + 1
  /\ UNCHANGED <<coins, pool, confirmed, req, held, walletUp, forgotten>>

\* The spawned task.  A refusal closes the stream; on a closed one the write fails and
\* is logged.
send_transaction(t) ==
  /\ t \in sending
  /\ sending' = sending \ {t}
  /\ IF walletUp /\ Admissible(t) THEN Admit(t) /\ UNCHANGED walletUp
     ELSE walletUp' = FALSE /\ UNCHANGED pool
  /\ UNCHANGED <<coins, confirmed, req, held, walletSends, forgotten>>

WalletRestarts ==
  /\ ~walletUp /\ sending = {}
  /\ walletUp' = TRUE /\ held' = [c \in {} |-> FALSE]
  /\ UNCHANGED <<coins, pool, confirmed, req, sending, walletSends, forgotten>>

SpendingInit ==
  /\ coins = DOMAIN FirstCoins
  /\ pool = {} /\ confirmed = {} /\ sending = {}
  /\ req = [r \in Request |-> NoSpend]
  /\ held = [c \in {} |-> FALSE] /\ walletUp = TRUE
  /\ walletSends = 0 /\ forgotten = 0

SpendingNext ==
  \/ MineSpends \/ ForgetSpends \/ CarrierAlters
  \/ \E r \in Request : send_coins(r) \/ submit_transaction(r)
  \/ update_utxos \/ send_transaction_async \/ WalletRestarts
  \/ \E t \in sending : send_transaction(t)

SpendingSpec == SpendingInit /\ [][SpendingNext]_spendVars

-----------------------------------------------------------------------------
(* What is checked.                                                        *)

\* A coin only ever goes where its owner's signature sent it: the outputs of a
\* transaction the chain accepts are the ones every input's signer had before it
\* (spend_commitment; "anything between the signer and the block can rewrite the
\* outputs under it" is what it replaced).
ConsentedOutputs ==
  \A t \in pool \union confirmed : \A c \in DOMAIN t.inputs : t.inputs[c].consent = t.outputs

\* No coin is spent by two transactions the chain holds, however many spends of it the
\* hub relays and the wallet writes.
SpentOnce ==
  \A s, t \in pool \union confirmed : s # t => DOMAIN s.inputs \cap DOMAIN t.inputs = {}

\* What the chain holds is what was signed for, and it holds no coin twice, whatever the
\* hub relays, the wallet writes and a carrier alters on the way.
SpendsSound == ConsentedOutputs /\ SpentOnce
=============================================================================
