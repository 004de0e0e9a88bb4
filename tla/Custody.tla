------------------------------- MODULE Custody ------------------------------
(***************************************************************************)
(* The exchange with the money behind it: deposits arrive at one-time      *)
(* addresses, are credited to the ledger, swept into pooled custody and    *)
(* withdrawn again, while orders trade the credited balances.              *)
(*                                                                         *)
(* A journalled payment goes Pending, then its transaction is mined, then  *)
(* the sweep confirms it; Payments shows that this is all it can do.  Only *)
(* values matter here: coins at one address are one sum.  Every commit is  *)
(* one store transaction made before the board moves, so one that fails    *)
(* leaves everything as it was; the exception is a fresh reservation.      *)
(***************************************************************************)
EXTENDS Exchange

CONSTANTS
    Reservation,            \* escrow reservations of purpose FundExchangeAccount
    Amount,                 \* what a client may pay in, or ask to withdraw
    HUB_TRANSACTION_FEE, MIN_EXCHANGE_DEPOSIT, MIN_EXCHANGE_WITHDRAWAL,
    NoEntry,
    MaxPayIns,              \* bound: payments into one address
    MaxWithdrawals,         \* bound: withdrawals ever journalled
    MaxSurplus,             \* bound: fees the operator has set aside in custody
    MaxFanOuts,             \* bound: reshapes of the custody wallet
    MaxRestarts             \* bound: restarts of the hub

ASSUME CustodyAssumption ==
    /\ Amount \subseteq Nat
    /\ HUB_TRANSACTION_FEE \in Nat \ {0}
    /\ MIN_EXCHANGE_DEPOSIT > HUB_TRANSACTION_FEE
    /\ MIN_EXCHANGE_WITHDRAWAL > HUB_TRANSACTION_FEE

VARIABLES
    deposits,       \* TaskBoard.pending_deposits
    payments,       \* the Escrow payment of each deposit, and the withdrawals
    custody, at,    \* on chain: the pooled address, and each deposit address
    payins,         \* payments made into each address
    observed,       \* confirm_exchange_deposit: the balance the node reported
    disbursing,     \* disburse_escrow: what was read before prepare
    withdrawing,    \* withdraw: the request holding the custody lock
    fanout,         \* reshapes: value of each on the wire, believed in flight, sent
    surplus,        \* fees paid into custody by the operator
    restarts

money == <<deposits, payments, custody, at, payins, observed, disbursing,
           withdrawing, fanout, surplus, restarts>>
custodyVars == <<book, money>>

-----------------------------------------------------------------------------
(* Data *)

Fee == HUB_TRANSACTION_FEE
EscrowStatus == {"Free", "Reserved", "Consumed", "Disbursing", "Refunded"}
PaymentStatus == {"Pending", "Mined", "Confirmed"}
EscrowPayment == [to : Agent \cup {Operator}, gross : Nat, status : PaymentStatus]
Withdrawal == [owner : Agent, debited : Nat, status : PaymentStatus]

NetOf(x) == IF x >= Fee THEN x - Fee ELSE 0
Swept(d) == payments.escrow[d] # NoEntry /\ payments.escrow[d].to = Operator
Unmined == {i \in DOMAIN payments.withdrawals : payments.withdrawals[i].status = "Pending"}
Unconfirmed == {i \in DOMAIN payments.withdrawals : payments.withdrawals[i].status # "Confirmed"}
Debits(I) == MapThenSumSet(LAMBDA i : payments.withdrawals[i].debited, I)

\* What custody holds beside the coins unmined withdrawals and reshapes spend.
Unmarked == custody - Debits(Unmined) - FoldLeft(+, 0, fanout.wire)

\* TaskBoard::exchange_liabilities, less what unconfirmed withdrawals hold.
Liabilities == MapThenSumSet(LAMBDA a : accounts[a].base, Owner)

CustodyInit ==
    /\ InitExchange
    /\ deposits = [d \in Reservation |-> [owner |-> NoEntry, status |-> "Free", saved |-> FALSE,
                                          expired |-> FALSE]]
    /\ payments = [escrow |-> [d \in Reservation |-> NoEntry], withdrawals |-> << >>]
    /\ custody = 0 /\ surplus = 0 /\ restarts = 0
    /\ at = [d \in Reservation |-> 0] /\ payins = [d \in Reservation |-> 0]
    /\ observed = [d \in Reservation |-> NoEntry]
    /\ disbursing = [d \in Reservation |-> NoEntry]
    /\ withdrawing = NoEntry
    /\ fanout = [wire |-> << >>, inflight |-> FALSE, sent |-> 0]

-----------------------------------------------------------------------------
(* Deposits *)

\* reserve_escrow in memory, then save_pending_deposit; the address is shown
\* to the client only when the save succeeded.
CreateExchangeDeposit(a, d, saved) ==
    /\ deposits[d].status = "Free"
    /\ deposits' = [deposits EXCEPT ![d] = [owner |-> a, status |-> "Reserved",
                                            saved |-> saved, expired |-> FALSE]]
    /\ UNCHANGED <<book, payments, custody, at, payins, observed, disbursing, withdrawing,
                   fanout, surplus, restarts>>

PayIn(d, x) ==
    /\ deposits[d].saved
    /\ payins[d] < MaxPayIns
    /\ payins' = [payins EXCEPT ![d] = @ + 1]
    /\ at' = [at EXCEPT ![d] = @ + x]
    /\ UNCHANGED <<book, deposits, payments, custody, observed, disbursing, withdrawing,
                   fanout, surplus, restarts>>

Expire(d) ==
    /\ deposits[d].status = "Reserved"
    /\ deposits' = [deposits EXCEPT ![d].expired = TRUE]
    /\ UNCHANGED <<book, payments, custody, at, payins, observed, disbursing, withdrawing,
                   fanout, surplus, restarts>>

\* confirm_exchange_deposit asks the node before it takes the write lock.
ObserveDeposit(d) ==
    /\ deposits[d].status # "Free" /\ observed[d] = NoEntry
    /\ observed' = [observed EXCEPT ![d] = at[d]]
    /\ UNCHANGED <<book, deposits, payments, custody, at, payins, disbursing, withdrawing,
                   fanout, surplus, restarts>>

\* Faulty variant: the credit forgets the fee the custody sweep will pay.
CreditedInFull(x) == x

\* What confirm_exchange_deposit credits for an observed balance.
Credited(x) == NetOf(x)

\* The credited account and the deposit that credited it, in one commit.
save_exchange_account_and_deposit(a, account, d, deposit) ==
    /\ accounts' = [accounts EXCEPT ![a] = account]
    /\ deposits' = [deposits EXCEPT ![d] = deposit]

ConfirmExchangeDeposit(d) ==
    /\ observed[d] # NoEntry
    /\ observed' = [observed EXCEPT ![d] = NoEntry]
    /\ IF /\ deposits[d].status = "Reserved" /\ ~deposits[d].expired
          /\ observed[d] >= MIN_EXCHANGE_DEPOSIT
       THEN save_exchange_account_and_deposit(
                deposits[d].owner,
                [accounts[deposits[d].owner] EXCEPT !.base = @ + Credited(observed[d])],
                d, [deposits[d] EXCEPT !.status = "Consumed", !.saved = TRUE])
       ELSE UNCHANGED <<deposits, accounts>>
    /\ UNCHANGED <<orders, payments, custody, at, payins, disbursing, withdrawing,
                   fanout, surplus, restarts>>

\* disburse_escrow up to its await: sweep_exchange_deposit sends a Consumed
\* deposit to custody, the overdue pass sends an expired one home.
ReadForDisbursement(d) ==
    /\ disbursing[d] = NoEntry /\ payments.escrow[d] = NoEntry
    /\ \/ deposits[d].status = "Consumed"
       \/ deposits[d].status = "Reserved" /\ deposits[d].expired
    /\ disbursing' = [disbursing EXCEPT ![d] =
          [to |-> IF deposits[d].status = "Consumed" THEN Operator ELSE deposits[d].owner,
           gross |-> at[d], previous |-> deposits[d].status]]
    /\ UNCHANGED <<book, deposits, payments, custody, at, payins, observed, withdrawing,
                   fanout, surplus, restarts>>

\* prepare refuses a deposit that changed since the disbursement read it.
StillAs(d, previous) == deposits[d].status = previous

\* prepare, then send: an empty escrow is closed at once, without a transaction.
PrepareDisbursement(d) ==
    /\ disbursing[d] # NoEntry
    /\ LET job == disbursing[d]
           empty == NetOf(job.gross) = 0
       IN  IF payments.escrow[d] = NoEntry /\ StillAs(d, job.previous)
           THEN /\ payments' = [payments EXCEPT !.escrow[d] =
                       [to |-> job.to, gross |-> IF empty THEN 0 ELSE job.gross,
                        status |-> IF empty THEN "Confirmed" ELSE "Pending"]]
                /\ deposits' = [deposits EXCEPT ![d].saved = TRUE,
                       ![d].status = IF empty THEN "Refunded" ELSE "Disbursing"]
           ELSE UNCHANGED <<payments, deposits>>
    /\ disbursing' = [disbursing EXCEPT ![d] = NoEntry]
    /\ UNCHANGED <<book, custody, at, payins, observed, withdrawing, fanout, surplus, restarts>>

\* The transaction is mined: its inputs leave the address, net of the fee
\* they reach custody or the depositor.
MineDisbursement(d) ==
    /\ payments.escrow[d] # NoEntry /\ payments.escrow[d].status = "Pending"
    /\ payments' = [payments EXCEPT !.escrow[d].status = "Mined"]
    /\ at' = [at EXCEPT ![d] = @ - payments.escrow[d].gross]
    /\ custody' = custody + (IF Swept(d) THEN NetOf(payments.escrow[d].gross) ELSE 0)
    /\ UNCHANGED <<book, deposits, payins, observed, disbursing, withdrawing, fanout, surplus,
                   restarts>>

ConfirmDisbursement(d) ==
    /\ payments.escrow[d] # NoEntry /\ payments.escrow[d].status = "Mined"
    /\ payments' = [payments EXCEPT !.escrow[d].status = "Confirmed"]
    /\ deposits' = [deposits EXCEPT ![d].status = "Refunded"]
    /\ UNCHANGED <<book, custody, at, payins, observed, disbursing, withdrawing, fanout, surplus,
                   restarts>>

-----------------------------------------------------------------------------
(* Withdrawals and the custody wallet *)

\* withdraw, holding exchange_custody_payout_lock, up to the built payment.
BuildWithdrawal(a, x) ==
    /\ withdrawing = NoEntry /\ Len(payments.withdrawals) < MaxWithdrawals
    /\ x >= MIN_EXCHANGE_WITHDRAWAL
    /\ AvailableBase(a) >= x
    /\ Unmarked >= x
    /\ withdrawing' = [owner |-> a, debited |-> x]
    /\ UNCHANGED <<book, deposits, payments, custody, at, payins, observed, disbursing,
                   fanout, surplus, restarts>>

\* prepare reads the balance again, under the write lock.
StillAvailable(a, x) == AvailableBase(a) >= x

PrepareWithdrawal ==
    /\ withdrawing # NoEntry
    /\ withdrawing' = NoEntry
    /\ LET a == withdrawing.owner  x == withdrawing.debited
       IN  IF StillAvailable(a, x)
           THEN /\ accounts' = [accounts EXCEPT ![a].base = @ - x]
                /\ payments' = [payments EXCEPT !.withdrawals =
                       Append(@, [owner |-> a, debited |-> x, status |-> "Pending"])]
           ELSE UNCHANGED <<accounts, payments>>
    /\ UNCHANGED <<orders, deposits, custody, at, payins, observed, disbursing,
                   fanout, surplus, restarts>>

MineWithdrawal(i) ==
    /\ i \in Unmined
    /\ payments' = [payments EXCEPT !.withdrawals[i].status = "Mined"]
    /\ custody' = custody - payments.withdrawals[i].debited
    /\ UNCHANGED <<book, deposits, at, payins, observed, disbursing, withdrawing, fanout,
                   surplus, restarts>>

ConfirmWithdrawal(i) ==
    /\ i \in Unconfirmed \ Unmined
    /\ payments' = [payments EXCEPT !.withdrawals[i].status = "Confirmed"]
    /\ UNCHANGED <<book, deposits, custody, at, payins, observed, disbursing, withdrawing,
                   fanout, surplus, restarts>>

FundSurplus ==
    /\ surplus < MaxSurplus
    /\ surplus' = surplus + 1
    /\ custody' = custody + Fee
    /\ UNCHANGED <<book, deposits, payments, at, payins, observed, disbursing, withdrawing,
                   fanout, restarts>>

\* maintain_wallet reshapes custody only out of money no customer is owed.
SurplusCoversFee == custody >= Liabilities + Debits(Unconfirmed) + Fee

\* maintain_wallet on custody, splitting unmarked coins worth x: one reshape at
\* a time, as far as this process remembers; the record of one whose coins are
\* unmarked again is dropped.
FanOut(x) ==
    /\ withdrawing = NoEntry /\ fanout.sent < MaxFanOuts
    /\ SurplusCoversFee
    /\ ~(fanout.inflight /\ fanout.wire # << >>)
    /\ Unmarked >= x
    /\ fanout' = [wire |-> Append(fanout.wire, x), inflight |-> TRUE, sent |-> fanout.sent + 1]
    /\ UNCHANGED <<book, deposits, payments, custody, at, payins, observed, disbursing,
                   withdrawing, surplus, restarts>>

MineFanOut ==
    /\ fanout.wire # << >>
    /\ fanout' = [fanout EXCEPT !.wire = Tail(@)]
    /\ custody' = custody - Fee
    /\ UNCHANGED <<book, deposits, payments, at, payins, observed, disbursing, withdrawing,
                   surplus, restarts>>

LoseFanOut ==
    /\ fanout.wire # << >>
    /\ fanout' = [fanout EXCEPT !.wire = Tail(@)]
    /\ UNCHANGED <<book, deposits, payments, custody, at, payins, observed, disbursing,
                   withdrawing, surplus, restarts>>

\* main: the tables come back from disk, the handlers and the record of what
\* fan-out is in flight do not.
Restart ==
    /\ restarts < MaxRestarts
    /\ restarts' = restarts + 1
    /\ deposits' = [d \in Reservation |-> IF deposits[d].saved THEN deposits[d]
                                          ELSE [deposits[d] EXCEPT !.status = "Free", !.owner = NoEntry]]
    /\ observed' = [d \in Reservation |-> NoEntry]
    /\ disbursing' = [d \in Reservation |-> NoEntry]
    /\ withdrawing' = NoEntry
    /\ fanout' = [fanout EXCEPT !.inflight = FALSE]
    /\ UNCHANGED <<book, payments, custody, at, payins, surplus>>

-----------------------------------------------------------------------------
CustodyNext ==
    \/ Trade /\ UNCHANGED money
    \/ \E a \in Agent, d \in Reservation, saved \in BOOLEAN : CreateExchangeDeposit(a, d, saved)
    \/ \E d \in Reservation, x \in Amount : PayIn(d, x)
    \/ \E d \in Reservation :
          \/ Expire(d) \/ ObserveDeposit(d) \/ ConfirmExchangeDeposit(d)
          \/ ReadForDisbursement(d) \/ PrepareDisbursement(d)
          \/ MineDisbursement(d) \/ ConfirmDisbursement(d)
    \/ \E a \in Agent, x \in Amount : BuildWithdrawal(a, x)
    \/ PrepareWithdrawal
    \/ \E i \in 1..MaxWithdrawals : MineWithdrawal(i) \/ ConfirmWithdrawal(i)
    \/ \E x \in Amount : FanOut(x)
    \/ FundSurplus \/ MineFanOut \/ LoseFanOut \/ Restart

CustodySpec == CustodyInit /\ [][CustodyNext]_custodyVars

-----------------------------------------------------------------------------
(* Properties *)

\* The shape of the money's state; on-chain sums never go negative.
CustodyTypeOK ==
    /\ LedgerTypeOK
    /\ deposits \in [Reservation -> [owner : Agent \cup {NoEntry}, status : EscrowStatus,
                                     saved : BOOLEAN, expired : BOOLEAN]]
    /\ payments.escrow \in [Reservation -> EscrowPayment \cup {NoEntry}]
    /\ payments.withdrawals \in Seq(Withdrawal)
    /\ custody \in Nat /\ at \in [Reservation -> Nat]

\* Every unit of base currency the ledger owes its customers, and every debit
\* whose transaction is still to be mined, is on chain: in pooled custody, or
\* at the address of a credited deposit with the fee of its sweep set aside.
\* (The solvency main.rs and sample_gauges only print.)  A restart may cost one
\* fee: maintain_wallet forgets the reshape it has on the wire and pays another
\* out of a surplus that was enough for one.
CustomersBacked ==
    custody + (restarts * Fee) + MapThenSumSet(LAMBDA d : NetOf(at[d]),
                  {d \in Reservation : \/ deposits[d].status = "Consumed"
                                       \/ Swept(d) /\ payments.escrow[d].status = "Pending"})
        >= Liabilities + Debits(Unmined)

\* The ledger is what the book needs: its types, locks equal to what the open orders of an
\* account still need, and no two orders left that could trade (handlers.rs place_order).
BookSound == CustodyTypeOK /\ LocksMatchOpenOrders /\ BookUncrossed
=============================================================================
