----------------------------- MODULE HandPayment -----------------------------
(***************************************************************************)
(* `wallet pay` (wallet/src/pay.rs): one payment made by hand out of the   *)
(* operator's wallet, beside a hub that may be started meanwhile and a     *)
(* node that may die.  The node acknowledges nothing: it closes the        *)
(* connection of a transaction it refuses, and silence means accepted.     *)
(*                                                                         *)
(* The operator does as the command says.  They run it again after a       *)
(* refusal, a "no" at the prompt or a REJECTED, and not after anything     *)
(* else.                                                                   *)
(***************************************************************************)
EXTENDS Naturals, FiniteSets

CONSTANTS
  PayCoin,         \* the operator's outputs, each enough for the payment
  NoCoin,
  MaxRuns,         \* times the command is run
  MaxHubPayouts,   \* payouts a running hub makes from the same wallet
  MaxNodeDeaths

ASSUME HandPaymentAssumption ==
  /\ NoCoin \notin PayCoin
  /\ MaxRuns \in Nat /\ MaxHubPayouts \in Nat /\ MaxNodeDeaths \in Nat

VARIABLES
  hubUp,      \* a hub process listens, and can spend the wallet
  nodeUp,
  memory,     \* the node's mempool: which payment spends which coin
  onChain,    \* the payments mined
  cmd,        \* the command: where it is, the coin it spends, what it said
  closed,     \* the node has closed the connection the payment was sent on
  runs, payouts, deaths,
  diedAfter   \* runs whose payment the node took before it died on them

payVars == <<hubUp, nodeUp, memory, onChain, cmd, closed, runs, payouts, deaths, diedAfter>>

HandPaymentInit ==
  /\ hubUp \in BOOLEAN /\ nodeUp = TRUE
  /\ memory = {} /\ onChain = {}
  /\ cmd = [at |-> "idle", coin |-> NoCoin, said |-> "nothing"]
  /\ closed = FALSE
  /\ runs = 0 /\ payouts = 0 /\ deaths = 0 /\ diedAfter = {}

Spends(txs) == {t.coin : t \in txs}

\* FetchUTXOs: outputs not spent on the chain, and not marked by the mempool.
FreeCoins == (PayCoin \ Spends(onChain)) \ Spends(memory)

\* add_to_mempool, of transactions that all carry the same fee.
Accepts(t) == t.coin \in FreeCoins

Payment(n, coin) == [by |-> "hand", n |-> n, coin |-> coin]
Say(what) == cmd' = [at |-> "idle", coin |-> NoCoin, said |-> what]

-----------------------------------------------------------------------------
(* The command.                                                            *)

hub_is_listening == hubUp

MayRun == cmd.said \in {"nothing", "refused", "declined", "REJECTED"}

\* run, up to the interlock.
Begin ==
  /\ cmd.at = "idle" /\ MayRun /\ runs < MaxRuns /\ runs' = runs + 1
  /\ IF hub_is_listening THEN Say("refused")
     ELSE cmd' = [at |-> "fetch", coin |-> NoCoin, said |-> "nothing"]
  /\ closed' = FALSE
  /\ UNCHANGED <<hubUp, nodeUp, memory, onChain, payouts, deaths, diedAfter>>

\* fetch_utxos and build_payment.  Nothing was sent, so an error is harmless.
build_payment ==
  /\ cmd.at = "fetch"
  /\ \/ nodeUp /\ \E c \in FreeCoins : cmd' = [cmd EXCEPT !.at = "prompt", !.coin = c]
     \/ (~nodeUp \/ FreeCoins = {}) /\ Say("refused")
  /\ UNCHANGED <<hubUp, nodeUp, memory, onChain, closed, runs, payouts, deaths, diedAfter>>

Answer ==
  /\ cmd.at = "prompt"
  /\ \/ cmd' = [cmd EXCEPT !.at = "send"]
     \/ Say("declined")
  /\ UNCHANGED <<hubUp, nodeUp, memory, onChain, closed, runs, payouts, deaths, diedAfter>>

\* SubmitTransaction.  A node that died since is an error before the send.
SendPayment ==
  /\ cmd.at = "send"
  /\ IF ~nodeUp \/ closed
     THEN Say("refused") /\ UNCHANGED <<memory, closed>>
     ELSE /\ cmd' = [cmd EXCEPT !.at = "window"]
          /\ IF Accepts(Payment(runs, cmd.coin))
             THEN memory' = memory \union {Payment(runs, cmd.coin)} /\ UNCHANGED closed
             ELSE closed' = TRUE /\ UNCHANGED memory
  /\ UNCHANGED <<hubUp, nodeUp, onChain, runs, payouts, deaths, diedAfter>>

\* Faulty variant: an early silence is taken for a refusal too.
SilenceRejects ==
  /\ cmd.at = "window"
  /\ \/ closed /\ Say("REJECTED")
     \/ ~closed /\ Say("REJECTED")
  /\ UNCHANGED <<hubUp, nodeUp, memory, onChain, closed, runs, payouts, deaths, diedAfter>>

\* REJECT_WINDOW: a connection closed within it is a rejection, silence is not.
\* A refusal always arrives within the window.
RejectWindow ==
  /\ cmd.at = "window"
  /\ \/ closed /\ Say("REJECTED")
     \/ ~closed /\ cmd' = [cmd EXCEPT !.at = "watch"]
  /\ UNCHANGED <<hubUp, nodeUp, memory, onChain, closed, runs, payouts, deaths, diedAfter>>

\* A poll on a fresh connection: paid, out of time, or no node to ask.
Poll ==
  /\ cmd.at = "watch"
  /\ \/ nodeUp /\ Payment(runs, cmd.coin) \in onChain /\ Say("PAID")
     \/ nodeUp /\ Payment(runs, cmd.coin) \notin onChain /\ Say("unmined")
     \/ ~nodeUp /\ Say("error")
  /\ UNCHANGED <<hubUp, nodeUp, memory, onChain, closed, runs, payouts, deaths, diedAfter>>

-----------------------------------------------------------------------------
(* Everything else.                                                        *)

\* The hub is started or stopped, whatever the command is doing.
HubToggles ==
  /\ hubUp' = ~hubUp
  /\ UNCHANGED <<nodeUp, memory, onChain, cmd, closed, runs, payouts, deaths, diedAfter>>

HubPaysOut ==
  /\ hubUp /\ nodeUp /\ payouts < MaxHubPayouts /\ payouts' = payouts + 1
  /\ \E c \in FreeCoins : memory' = memory \union {[by |-> "hub", n |-> payouts, coin |-> c]}
  /\ UNCHANGED <<hubUp, nodeUp, onChain, cmd, closed, runs, deaths, diedAfter>>

MineBlock ==
  /\ nodeUp /\ memory # {}
  /\ onChain' = onChain \union memory /\ memory' = {}
  /\ UNCHANGED <<hubUp, nodeUp, cmd, closed, runs, payouts, deaths, diedAfter>>

\* The mempool is memory-only, the chain is not, and every connection closes.
NodeDies ==
  /\ nodeUp /\ deaths < MaxNodeDeaths /\ deaths' = deaths + 1
  /\ nodeUp' = FALSE /\ memory' = {} /\ closed' = TRUE
  /\ diedAfter' = IF cmd.at = "window" /\ ~closed THEN diedAfter \union {runs} ELSE diedAfter
  /\ UNCHANGED <<hubUp, onChain, cmd, runs, payouts>>

NodeReturns ==
  /\ ~nodeUp /\ nodeUp' = TRUE
  /\ UNCHANGED <<hubUp, memory, onChain, cmd, closed, runs, payouts, deaths, diedAfter>>

HandPaymentNext ==
  \/ Begin \/ build_payment \/ Answer \/ SendPayment \/ RejectWindow \/ Poll
  \/ HubToggles \/ HubPaysOut \/ MineBlock \/ NodeDies \/ NodeReturns

HandPaymentSpec == HandPaymentInit /\ [][HandPaymentNext]_payVars

-----------------------------------------------------------------------------
ByHand == {t \in onChain : t.by = "hand"}

(* An operator who only pays again when the command tells them nothing was *)
(* paid pays the worker once, whatever the hub does meanwhile.  The one    *)
(* exception is a node that took the payment and died inside the reject    *)
(* window: the command cannot tell its death from a refusal.               *)
PaidByHandOnce ==
  Cardinality({t \in ByHand : t.n \notin diedAfter}) <= 1
    /\ (diedAfter = {} => Cardinality(ByHand) <= 1)
=============================================================================
