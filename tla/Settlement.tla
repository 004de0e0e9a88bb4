----------------------------- MODULE Settlement -----------------------------
(***************************************************************************)
(* How the hub pays the winners of a verified task.                        *)
(*                                                                         *)
(* A "leg" is one (task, recipient) pair the hub owes a share of a bounty. *)
(* HTTP handlers and the sweep run `try_settle_verified_task` concurrently;*)
(* the sweep alone asks the node what became of a submitted payout and     *)
(* confirms, resends or abandons it.  Between any two awaits of one of     *)
(* them every other one, the node, the chain and a crash may step.         *)
(*                                                                         *)
(* An operator-funded task pays each leg with a transaction of its own,    *)
(* built from the operator's wallet under `payout_lock`.  An escrow-funded *)
(* task pays all its legs with one transaction spending the deposit.       *)
(*                                                                         *)
(* Amounts, fees and keys are abstracted: a coin is an unspent output, and *)
(* Selections lists the sets of coins that coin selection may return.      *)
(***************************************************************************)
EXTENDS Naturals

CONSTANTS
    Task,               \* the tasks, all of them already Verified
    Escrowed,           \* those funded by an escrow deposit
    Leg, TaskOf,        \* the payouts owed, and the task that owes each
    Handler, Sweep,     \* the hub's processes: request handlers, one sweep
    Cancellable,        \* handlers whose client may disconnect
    Coin,               \* transaction outputs
    OperatorCoin,       \* the operator's wallet at the start
    Deposit,            \* the outputs at each escrow's own address
    ChangeOf,           \* the change output of each operator transaction
    Selections,         \* input sets that cover a payout
    None,               \* Rust's None
    MAX_PAYOUT_SUBMISSIONS,
    MaxTx,              \* bound: transactions the hub ever builds
    MaxCrashes          \* bound: restarts of the hub

ASSUME ConstantsAssumption ==
    /\ Escrowed \subseteq Task
    /\ TaskOf \in [Leg -> Task]
    /\ Sweep \notin Handler
    /\ Cancellable \subseteq Handler
    /\ OperatorCoin \subseteq Coin
    /\ Deposit \in [Escrowed -> SUBSET Coin]
    /\ ChangeOf \in [1..MaxTx -> Coin]
    /\ Selections \subseteq SUBSET Coin
    /\ {} \notin Selections
    /\ MAX_PAYOUT_SUBMISSIONS \in Nat \ {0}
    /\ MaxTx \in Nat
    /\ MaxCrashes \in Nat

VARIABLES
    board,      \* TaskBoard, in memory
    disk,       \* HubStore, what a restart loads
    pc, job,    \* where each hub process is, and its local variables
    nextTx,     \* id of the next transaction built
    crashes,    \* restarts so far
    wire,       \* transactions written to the node's socket, not yet read
    mempool,    \* the mempool of the node the hub talks to
    peers,      \* the mempools of every other node
    mined,      \* transactions on the active chain
    spent       \* <<transaction, leg>> outputs their recipient has spent

hub == <<board, disk, pc, job, nextTx, crashes>>
chain == <<mempool, peers, mined, spent>>
vars == <<hub, wire, chain>>

-----------------------------------------------------------------------------
(* Data *)

Proc == Handler \cup {Sweep}
Tx == [id : 1..MaxTx, task : Task, legs : SUBSET Leg, inputs : SUBSET Coin]
PayoutAttempt == [tx : Tx, submissions : Nat]
ASSUME NoneIsNoAttempt == None \notin PayoutAttempt
Attempts == [Leg -> PayoutAttempt \cup {None}]
TaskStatus == {"Verified", "Submitted", "Paid", "PayoutFailed"}
TaskBoard == [status : [Task -> TaskStatus], paid : SUBSET Leg,
              earned : [Leg -> Nat], attempt : Attempts]

Settling == {"fetch", "build", "save", "record", "save_task", "send"}
Resolving == {"sweep", "recipient", "source", "confirm", "record_paid",
              "resend", "abandon"}
Pc == {"idle", "settle", "payout_lock"} \cup Settling \cup Resolving

\* mode: whose copy of the save/record/send steps runs; task, todo: the
\* snapshot a settlement took; legs, rec: the attempts being written; view:
\* the coins the node showed; batch, leg, holds: the sweep's resolution.
Job == [mode : {"settle", "resend"}, task : Task \cup {None}, todo : SUBSET Leg,
        legs : SUBSET Leg, rec : Attempts, saved : SUBSET Leg,
        view : SUBSET Coin, batch : Attempts, leg : Leg \cup {None}, holds : BOOLEAN]

NoAttempts == [l \in Leg |-> None]
Legs(t) == {l \in Leg : TaskOf[l] = t}

\* Task::owed_payouts, Task::pending_payouts, TaskBoard::unsubmitted_payouts
OwedPayouts(t) == Legs(t) \ board.paid
PendingPayouts(t) ==
    IF board.status[t] \in {"Verified", "Submitted"} THEN OwedPayouts(t) ELSE {}
UnsubmittedPayouts(t) ==
    {l \in PendingPayouts(t) : board.attempt[l] = None}

SameSource(t, u) == t = u \/ (t \notin Escrowed /\ u \notin Escrowed)

\* What fetch_utxos returns for the address that funds t: the unspent
\* outputs there, and which of them the node's mempool has marked.
Unspent(t) ==
    ( (IF t \in Escrowed THEN Deposit[t] ELSE
          OperatorCoin \cup {ChangeOf[x.id] : x \in {y \in mined : y.task \notin Escrowed}})
      \ UNION {x.inputs : x \in mined} )
Marked(c) == \E x \in mempool : c \in x.inputs

\* Faulty variant: no coin is reserved.
NothingReserved(t, rebuilding) == {}

\* payments::reserve_inputs: coins promised to an unresolved attempt other
\* than the ones being rebuilt.
Reserved(t, rebuilding) ==
    UNION {board.attempt[l].tx.inputs :
             l \in {k \in Leg \ rebuilding : /\ board.attempt[k] # None
                                             /\ SameSource(TaskOf[k], t)}}

\* The guards, read off where each process is.  PAYOUT_IN_FLIGHT is held per
\* leg by an operator payout and by a confirmation, and
\* ESCROW_SETTLEMENT_IN_FLIGHT per escrow.
PayoutGuardHeld(l) ==
    \E q \in Proc :
        \/ /\ pc[q] \in Settling \cup {"payout_lock"}
           /\ job[q].mode = "settle"
           /\ job[q].task \notin Escrowed
           /\ l \in job[q].legs
        \/ pc[q] = "record_paid" /\ job[q].leg = l
EscrowGuardHeld(t) ==
    \E q \in Proc : /\ pc[q] \in Settling
                    /\ job[q].mode = "settle"
                    /\ job[q].task = t
PayoutLockHeld ==
    \E q \in Proc : /\ pc[q] \in Settling
                    /\ job[q].mode = "settle"
                    /\ job[q].task \notin Escrowed

-----------------------------------------------------------------------------
(* Initial state: every task verified and durable, nothing sent. *)

IdleJob == [mode |-> "settle", task |-> None, todo |-> {}, legs |-> {},
            rec |-> NoAttempts, saved |-> {}, view |-> {},
            batch |-> NoAttempts, leg |-> None, holds |-> FALSE]

Init ==
    /\ board = [status |-> [t \in Task |-> "Verified"], paid |-> {},
                earned |-> [l \in Leg |-> 0], attempt |-> NoAttempts]
    /\ disk = board
    /\ pc = [p \in Proc |-> "idle"]
    /\ job = [p \in Proc |-> IdleJob]
    /\ nextTx = 1 /\ crashes = 0
    /\ wire = {} /\ mempool = {} /\ peers = {} /\ mined = {} /\ spent = {}

Step(p, at, j) ==
    /\ pc' = [pc EXCEPT ![p] = at]
    /\ job' = [job EXCEPT ![p] = j]

-----------------------------------------------------------------------------
(* Choosing what to send. *)

\* A settlement reads what the task owes and nobody is sending yet, and works
\* from that snapshot.  A Submitted task with something unsent is refused.
TrySettleVerifiedTask(p, t) ==
    /\ pc[p] = "idle"
    /\ board.status[t] = "Verified"
    /\ UnsubmittedPayouts(t) # {}
    /\ Step(p, "settle", [IdleJob EXCEPT !.task = t, !.todo = UnsubmittedPayouts(t)])
    /\ UNCHANGED <<board, disk, nextTx, crashes, wire, chain>>

InFlightOnly(l) == board.attempt[l] # None

\* settle_one_payout_inner's second look, under the guard.
PaidOrInFlight(l) == l \in board.paid \/ board.attempt[l] # None

\* Operator-funded: one leg at a time, skipped if another settlement holds
\* its guard, or has paid or recorded it since the snapshot.
SettleOnePayout(p) ==
    /\ pc[p] = "settle"
    /\ job[p].task \notin Escrowed
    /\ \E l \in job[p].todo :
         LET rest == [job[p] EXCEPT !.todo = @ \ {l}]
         IN IF PayoutGuardHeld(l) \/ PaidOrInFlight(l)
            THEN Step(p, "settle", rest)
            ELSE Step(p, "payout_lock", [rest EXCEPT !.legs = {l}])
    /\ UNCHANGED <<board, disk, nextTx, crashes, wire, chain>>

SubmitBountyPayout(p) ==
    /\ pc[p] = "payout_lock"
    /\ ~PayoutLockHeld
    /\ Step(p, "fetch", job[p])
    /\ UNCHANGED <<board, disk, nextTx, crashes, wire, chain>>

\* Escrow-funded: every leg still owed, in one transaction.  What is owed is
\* read again under the guard; what is already in flight is not.
SettleEscrowFundedTask(p) ==
    LET t == job[p].task IN
    /\ pc[p] = "settle"
    /\ t \in Escrowed
    /\ job[p].todo # {}
    /\ IF EscrowGuardHeld(t) \/ OwedPayouts(t) = {}
       THEN Step(p, "idle", IdleJob)
       ELSE Step(p, "fetch", [job[p] EXCEPT !.todo = {}, !.legs = OwedPayouts(t)])
    /\ UNCHANGED <<board, disk, nextTx, crashes, wire, chain>>

FinishSettle(p) ==
    /\ pc[p] = "settle"
    /\ job[p].todo = {}
    /\ Step(p, "idle", IdleJob)
    /\ UNCHANGED <<board, disk, nextTx, crashes, wire, chain>>

-----------------------------------------------------------------------------
(* Sending: fetch, build, make each attempt durable, publish it on the      *)
(* board, save the task, and only then write to the node's socket.          *)

\* The process is through with one send, whatever came of it.
Resume(p) ==
    Step(p, IF job[p].mode = "resend" THEN "sweep" ELSE "settle",
         [IdleJob EXCEPT !.task = job[p].task, !.todo = job[p].todo,
                         !.batch = job[p].batch])

FetchUtxos(p) ==
    /\ pc[p] = "fetch"
    /\ Step(p, "build", [job[p] EXCEPT !.view = {c \in Unspent(job[p].task) : ~Marked(c)}])
    /\ UNCHANGED <<board, disk, nextTx, crashes, wire, chain>>

Affordable(p) ==
    {ins \in Selections : ins \subseteq job[p].view \ Reserved(job[p].task, job[p].legs)}

Submissions(l) == IF board.attempt[l] = None THEN 0 ELSE board.attempt[l].submissions

BuildPayment(p) ==
    /\ pc[p] = "build"
    /\ nextTx <= MaxTx
    /\ \E ins \in Affordable(p) :
         LET tx == [id |-> nextTx, task |-> job[p].task, legs |-> job[p].legs, inputs |-> ins]
         IN Step(p, "save", [job[p] EXCEPT !.view = {}, !.rec =
                [l \in Leg |-> IF l \in job[p].legs
                               THEN [tx |-> tx, submissions |-> Submissions(l) + 1]
                               ELSE None]])
    /\ nextTx' = nextTx + 1
    /\ UNCHANGED <<board, disk, crashes, wire, chain>>

InsufficientFunds(p) ==
    /\ pc[p] = "build"
    /\ Affordable(p) = {} \/ nextTx > MaxTx
    /\ Resume(p)
    /\ UNCHANGED <<board, disk, nextTx, crashes, wire, chain>>

\* Faulty variant: the attempts are kept in memory only.
UnsavedPayoutAttempt(p) ==
    /\ pc[p] = "save"
    /\ Step(p, "record", [job[p] EXCEPT !.saved = job[p].legs])
    /\ UNCHANGED <<board, disk, nextTx, crashes, wire, chain>>

\* One commit per leg: a crash may fall between two of them.
SavePayoutAttempt(p) ==
    /\ pc[p] = "save"
    /\ \E l \in job[p].legs \ job[p].saved :
         LET saved == job[p].saved \cup {l}
         IN /\ disk' = [disk EXCEPT !.attempt[l] = job[p].rec[l]]
            /\ Step(p, IF saved = job[p].legs THEN "record" ELSE "save",
                    [job[p] EXCEPT !.saved = saved])
    /\ UNCHANGED <<board, nextTx, crashes, wire, chain>>

\* The node cannot be read, or the store refuses an attempt: nothing is sent.
SubmitFails(p) ==
    /\ pc[p] \in {"fetch", "save"}
    /\ Resume(p)
    /\ UNCHANGED <<board, disk, nextTx, crashes, wire, chain>>

AllSubmitted(t, attempts) == \A l \in OwedPayouts(t) : attempts[l] # None

RecordPayoutAttempt(p) ==
    LET t == job[p].task
        attempts == [l \in Leg |-> IF l \in job[p].legs THEN job[p].rec[l]
                                                        ELSE board.attempt[l]]
    IN /\ pc[p] = "record"
       /\ board' = [board EXCEPT !.attempt = attempts,
                      !.status[t] = IF @ = "Verified" /\ AllSubmitted(t, attempts)
                                    THEN "Submitted" ELSE @]
       /\ Step(p, IF job[p].mode = "settle" THEN "save_task" ELSE "send", job[p])
       /\ UNCHANGED <<disk, nextTx, crashes, wire, chain>>

\* The task as board b has it, written over the task d holds.
TaskSaved(d, b, t) ==
    [d EXCEPT !.status[t] = b.status[t],
              !.paid = (@ \ Legs(t)) \cup (b.paid \cap Legs(t))]

\* A failure to save the task is logged and the payout goes ahead.
SaveTask(p) ==
    /\ pc[p] = "save_task"
    /\ disk' \in {disk, TaskSaved(disk, board, job[p].task)}
    /\ Step(p, "send", job[p])
    /\ UNCHANGED <<board, nextTx, crashes, wire, chain>>

\* submit_transaction: fire and forget, or an error the sweep recovers from.
SubmitTransaction(p) ==
    /\ pc[p] = "send"
    /\ wire' \in {wire, wire \cup {job[p].rec[l].tx : l \in job[p].legs}}
    /\ Resume(p)
    /\ UNCHANGED <<board, disk, nextTx, crashes, chain>>

\* The client disconnects: a handler's future is dropped at an await and its
\* guards are released.  There is no await between two attempt saves.
Cancel(p) ==
    /\ p \in Cancellable
    /\ pc[p] \notin {"idle", "save"}
    /\ Step(p, "idle", IdleJob)
    /\ UNCHANGED <<board, disk, nextTx, crashes, wire, chain>>

-----------------------------------------------------------------------------
(* The sweep's resolution pass. *)

BeginPass ==
    /\ pc[Sweep] = "idle"
    /\ Step(Sweep, "sweep", [IdleJob EXCEPT !.batch = board.attempt])
    /\ UNCHANGED <<board, disk, nextTx, crashes, wire, chain>>

NextAttempt ==
    /\ pc[Sweep] = "sweep"
    /\ \E l \in Leg : /\ job[Sweep].batch[l] # None
                      /\ Step(Sweep, "recipient",
                              [job[Sweep] EXCEPT !.leg = l, !.task = TaskOf[l]])
    /\ UNCHANGED <<board, disk, nextTx, crashes, wire, chain>>

EndPass ==
    /\ pc[Sweep] = "sweep"
    /\ job[Sweep].batch = NoAttempts
    /\ Step(Sweep, "idle", IdleJob)
    /\ UNCHANGED <<board, disk, nextTx, crashes, wire, chain>>

\* The leg and the attempt resolve_payout_attempt was called with, and its
\* return to the sweep's loop.
leg == job[Sweep].leg
attempt == job[Sweep].batch[leg]
batchLeft == [job[Sweep].batch EXCEPT ![leg] = None]
Return == Step(Sweep, "sweep", [IdleJob EXCEPT !.batch = batchLeft])

AskRecipient ==
    /\ pc[Sweep] = "recipient"
    /\ Step(Sweep, "source", [job[Sweep] EXCEPT
               !.holds = attempt.tx \in mined /\ <<attempt.tx, leg>> \notin spent])
    /\ UNCHANGED <<board, disk, nextTx, crashes, wire, chain>>

\* Faulty variants: a claim in the mempool counts as a payment; untouched
\* inputs prove nothing.
MempoolConfirms(holds, inputs, present) ==
    IF holds \/ \E c \in inputs : Marked(c) THEN "Confirmed"
    ELSE IF inputs = {} \/ ~(inputs \subseteq present) THEN "Ambiguous"
    ELSE "NeverLanded"
AlwaysAmbiguous(holds, inputs, present) == IF holds THEN "Confirmed" ELSE "Ambiguous"

\* resolve_against
ResolveAgainst(holds, inputs, present) ==
    IF holds THEN "Confirmed"
    ELSE IF inputs = {} \/ ~(inputs \subseteq present) THEN "Ambiguous"
    ELSE IF \E c \in inputs : Marked(c) THEN "HeldInMempool"
    ELSE "NeverLanded"

BudgetSpent(a) == a.submissions >= MAX_PAYOUT_SUBMISSIONS

AskSource ==
    LET outcome == ResolveAgainst(job[Sweep].holds, attempt.tx.inputs, Unspent(TaskOf[leg]))
    IN /\ pc[Sweep] = "source"
       /\ CASE outcome = "Confirmed" -> Step(Sweep, "confirm", job[Sweep])
            [] outcome = "NeverLanded" ->
                 Step(Sweep, IF BudgetSpent(attempt) THEN "abandon" ELSE "resend",
                      job[Sweep])
            [] OTHER -> Return
       /\ UNCHANGED <<board, disk, nextTx, crashes, wire, chain>>

\* A node read fails; an attempt still in its grace period is skipped alike.
NodeUnreachable ==
    /\ pc[Sweep] \in {"recipient", "source"}
    /\ Return
    /\ UNCHANGED <<board, disk, nextTx, crashes, wire, chain>>

\* Take the leg's guard and look again: the attempt may have been superseded
\* during the two node reads.
ConfirmPayout ==
    /\ pc[Sweep] = "confirm"
    /\ IF PayoutGuardHeld(leg) \/ board.attempt[leg] # attempt
       THEN Return
       ELSE Step(Sweep, "record_paid", job[Sweep])
    /\ UNCHANGED <<board, disk, nextTx, crashes, wire, chain>>

\* TaskBoard::mark_recipient_paid
MarkRecipientPaid(b, l) ==
    IF l \in b.paid THEN b
    ELSE [b EXCEPT !.paid = @ \cup {l},
                   !.earned[l] = @ + 1,
                   !.status[TaskOf[l]] = IF Legs(TaskOf[l]) \subseteq b.paid \cup {l}
                                         THEN "Paid" ELSE @]

\* save_confirmed_payout: task, reputation and attempt in one commit.
SaveConfirmedPayout(d, b, l) ==
    [TaskSaved(d, b, TaskOf[l]) EXCEPT !.earned[l] = b.earned[l], !.attempt[l] = None]

\* mark_recipient_paid refuses a task that is neither Verified nor Submitted.
RecordConfirmedPayout ==
    LET b == [MarkRecipientPaid(board, leg) EXCEPT !.attempt[leg] = None]
    IN /\ pc[Sweep] = "record_paid"
       /\ IF board.status[TaskOf[leg]] \in {"Verified", "Submitted"}
          THEN board' = b /\ disk' = SaveConfirmedPayout(disk, b, leg)
          ELSE UNCHANGED <<board, disk>>
       /\ Return
       /\ UNCHANGED <<nextTx, crashes, wire, chain>>

\* The same transaction again, counted against every leg it pays.
ResendLostPayout ==
    LET legs == {l \in Legs(TaskOf[leg]) : /\ board.attempt[l] # None
                                           /\ board.attempt[l].tx = attempt.tx}
    IN /\ pc[Sweep] = "resend"
       /\ IF board.attempt[leg] # attempt
          THEN Return
          ELSE Step(Sweep, "save",
                 [job[Sweep] EXCEPT
                    !.mode = "resend", !.legs = legs, !.batch = batchLeft, !.leg = None,
                    !.rec = [l \in Leg |-> IF l \in legs
                               THEN [board.attempt[l] EXCEPT !.submissions = @ + 1]
                               ELSE None]])
       /\ UNCHANGED <<board, disk, nextTx, crashes, wire, chain>>

\* mark_payout_failed, on the board and, with the keys it dropped, in the store.
Dropped(b, legs) == [b EXCEPT !.attempt = [l \in Leg |-> IF l \in legs THEN None ELSE @[l]]]

\* Faulty variant: a payout is given up in memory only.
GivenUpInMemory(d, b, t, legs) == d

SaveTaskAndDropPayoutAttempts(d, b, t, legs) == Dropped(TaskSaved(d, b, t), legs)

AbandonPayout ==
    LET t == TaskOf[leg]
        dropped == {l \in Legs(t) : board.attempt[l] # None}
        b == Dropped([board EXCEPT !.status[t] = "PayoutFailed"], dropped)
    IN /\ pc[Sweep] = "abandon"
       /\ IF board.status[t] \in {"Verified", "Submitted"}
          THEN board' = b /\ disk' = SaveTaskAndDropPayoutAttempts(disk, b, t, dropped)
          ELSE UNCHANGED <<board, disk>>
       /\ Return
       /\ UNCHANGED <<nextTx, crashes, wire, chain>>

\* The store refuses the commit and the board is rolled back under its lock.
CommitFails ==
    /\ pc[Sweep] \in {"record_paid", "abandon"}
    /\ Return
    /\ UNCHANGED <<board, disk, nextTx, crashes, wire, chain>>

\* The process dies; the store is loaded into an empty board.
Crash ==
    /\ crashes < MaxCrashes
    /\ crashes' = crashes + 1
    /\ board' = disk
    /\ pc' = [p \in Proc |-> "idle"]
    /\ job' = [p \in Proc |-> IdleJob]
    /\ UNCHANGED <<disk, nextTx, wire, chain>>

-----------------------------------------------------------------------------
(* The node, its peers and the recipients. *)

Conflict(x, pool) == \E y \in pool : y.inputs \cap x.inputs # {}

\* add_to_mempool then broadcast.  All the hub's transactions carry the same
\* fee, so a conflicting one never replaces what the mempool holds.
NodeReads(x) ==
    /\ x \in wire
    /\ wire' = wire \ {x}
    /\ IF x.inputs \subseteq Unspent(x.task) /\ ~Conflict(x, mempool)
       THEN /\ mempool' = mempool \cup {x}
            /\ peers' \in {peers} \cup (IF Conflict(x, peers) THEN {} ELSE {peers \cup {x}})
       ELSE UNCHANGED <<mempool, peers>>
    /\ UNCHANGED <<hub, mined, spent>>

\* The connection dies before the node reads it.
WireLoses(x) ==
    /\ x \in wire
    /\ wire' = wire \ {x}
    /\ UNCHANGED <<hub, chain>>

\* A restart, or the mempool's age limit.
NodeForgets(x) ==
    /\ x \in mempool
    /\ mempool' = mempool \ {x}
    /\ UNCHANGED <<hub, wire, peers, mined, spent>>

PeersForget(x) ==
    /\ x \in peers
    /\ peers' = peers \ {x}
    /\ UNCHANGED <<hub, wire, mempool, mined, spent>>

Mine(x) ==
    /\ x \in mempool \cup peers
    /\ mined' = mined \cup {x}
    /\ mempool' = {y \in mempool : y.inputs \cap x.inputs = {}}
    /\ peers' = {y \in peers : y.inputs \cap x.inputs = {}}
    /\ UNCHANGED <<hub, wire, spent>>

RecipientSpends(x, l) ==
    /\ x \in mined /\ l \in x.legs
    /\ <<x, l>> \notin spent
    /\ spent' = spent \cup {<<x, l>>}
    /\ UNCHANGED <<hub, wire, mempool, peers, mined>>

-----------------------------------------------------------------------------

Settle(p) ==
    \/ SettleOnePayout(p) \/ SubmitBountyPayout(p)
    \/ SettleEscrowFundedTask(p) \/ FinishSettle(p)
    \/ FetchUtxos(p) \/ BuildPayment(p) \/ InsufficientFunds(p)
    \/ SavePayoutAttempt(p) \/ RecordPayoutAttempt(p) \/ SaveTask(p)
    \/ SubmitTransaction(p)

Resolve ==
    \/ NextAttempt \/ EndPass \/ AskRecipient \/ AskSource \/ ConfirmPayout
    \/ RecordConfirmedPayout \/ ResendLostPayout \/ AbandonPayout

Failure ==
    \/ \E p \in Proc : SubmitFails(p) \/ Cancel(p)
    \/ NodeUnreachable \/ CommitFails \/ Crash

Network ==
    \/ \E x \in wire : NodeReads(x) \/ WireLoses(x)
    \/ \E x \in mempool : NodeForgets(x)
    \/ \E x \in peers : PeersForget(x)
    \/ \E x \in mempool \cup peers : Mine(x)
    \/ \E x \in mined : \E l \in x.legs : RecipientSpends(x, l)

Next ==
    \/ \E p \in Proc : Settle(p) \/ \E t \in Task : TrySettleVerifiedTask(p, t)
    \/ BeginPass \/ Resolve
    \/ Failure
    \/ Network

Spec == Init /\ [][Next]_vars

\* Once begun, a request or a sweep pass runs on; the sweep loops for ever,
\* resolving and then settling in every pass; the payout lock is FIFO; the
\* node reads its socket, and what a mempool keeps is eventually mined.  A node
\* read or a commit the hub keeps retrying does not fail every time.
Fairness ==
    /\ \A p \in Proc : /\ WF_vars(Settle(p)) /\ SF_vars(SubmitBountyPayout(p))
                       /\ SF_vars(FetchUtxos(p)) /\ SF_vars(SavePayoutAttempt(p))
    /\ WF_vars(Resolve)
    /\ SF_vars(AskRecipient) /\ SF_vars(AskSource)
    /\ SF_vars(RecordConfirmedPayout) /\ SF_vars(AbandonPayout)
    /\ SF_vars(BeginPass)
    /\ \A t \in Task : SF_vars(TrySettleVerifiedTask(Sweep, t))
    /\ WF_vars(\E x \in wire : NodeReads(x))
    /\ WF_vars(\E x \in mempool \cup peers : Mine(x))

LiveSpec == Spec /\ Fairness

-----------------------------------------------------------------------------
(* Properties *)

\* The board, the store and every handler's locals keep their Rust types.
TypeOK ==
    /\ board \in TaskBoard
    /\ disk \in TaskBoard
    /\ pc \in [Proc -> Pc]
    /\ job \in [Proc -> Job]
    /\ nextTx \in 1..(MaxTx + 1) /\ crashes \in 0..MaxCrashes
    /\ wire \subseteq Tx /\ mempool \subseteq Tx /\ peers \subseteq Tx
    /\ mined \subseteq Tx
    /\ spent \subseteq Tx \X Leg

\* The bounty of a leg is never paid by two transactions on the chain, as
\* long as the hub has not handed the task to an operator (PayoutFailed):
\* what PAYOUT_IN_FLIGHT, the second look under it and the record made before
\* sending are for.
NoBountyPaidTwice ==
    \A x, y \in mined : \A l \in x.legs \cap y.legs :
        x # y => board.status[TaskOf[l]] = "PayoutFailed"

\* Earnings are recorded once per leg, and only for one that is on the chain:
\* mark_recipient_paid is idempotent and runs only on a Confirmed outcome.
EarnedOnceAndOnChain ==
    \A l \in Leg : /\ board.earned[l] = (IF l \in board.paid THEN 1 ELSE 0)
                   /\ l \in board.paid => \E x \in mined : l \in x.legs

\* A Submitted task, live or as a restart would load it, has an attempt for
\* every leg it still owes.  try_settle_verified_task refuses such a task, so a
\* leg without one would never be paid.
SubmittedIsTracked ==
    \A b \in {board, disk} : \A l \in Leg :
        b.status[TaskOf[l]] = "Submitted" => l \in b.paid \/ b.attempt[l] # None

\* Every transaction out there that pays a leg is one the hub has recorded as
\* paid or is watching, in memory and on disk, until it gives the task up:
\* submit_task_payout records an attempt before it sends.
Outstanding == wire \cup mempool \cup peers \cup mined
InFlightIsTracked ==
    \A x \in Outstanding : \A l \in x.legs : \A b \in {board, disk} :
        \/ b.status[TaskOf[l]] = "PayoutFailed"
        \/ l \in b.paid
        \/ b.attempt[l] # None /\ b.attempt[l].tx = x

\* An operator-funded task recorded as Paid has every leg on the chain and no
\* attempt left that the sweep would go on resolving, in memory or after a
\* restart: save_confirmed_payout commits the task and the attempt's removal
\* together.
PaidIsFinal ==
    \A b \in {board, disk} : \A l \in Leg :
        b.status[TaskOf[l]] = "Paid" /\ TaskOf[l] \notin Escrowed
            => l \in b.paid /\ b.attempt[l] = None

\* A payout is sent at most MAX_PAYOUT_SUBMISSIONS times, counted by
\* submit_task_payout and resend_lost_payout across restarts.
SubmissionsBounded ==
    \A b \in {board, disk} : \A l \in Leg :
        b.attempt[l] # None => b.attempt[l].submissions <= MAX_PAYOUT_SUBMISSIONS

\* A task abandon_payout has given up as PayoutFailed has no owed leg paid on
\* the chain.
PayoutFailedMeansUnpaid ==
    \A l \in Leg : board.status[TaskOf[l]] = "PayoutFailed" /\ l \notin board.paid
        => ~\E x \in mined : l \in x.legs

\* Two payouts the hub is watching never rest on the same coin, unless they
\* are legs of one transaction: reserve_inputs hides the coins of the others.
AttemptsDisjoint ==
    \A k, l \in Leg :
        board.attempt[k] # None /\ board.attempt[l] # None =>
            \/ board.attempt[k].tx = board.attempt[l].tx
            \/ board.attempt[k].tx.inputs \cap board.attempt[l].tx.inputs = {}

\* Coins promised to a payout that has not resolved are consumed by no other
\* transaction of the hub, short of one belonging to a task it has given up,
\* as reserve_inputs promises.
InputsNotStolen ==
    \A l \in Leg : \A x \in mined :
        /\ board.attempt[l] # None
        /\ x.inputs \cap board.attempt[l].tx.inputs # {}
        => \/ x = board.attempt[l].tx
           \/ "PayoutFailed" \in {board.status[x.task], board.status[TaskOf[l]]}

\* A task the hub has called Paid or PayoutFailed keeps that verdict, through
\* every later step and every restart.
VerdictIsFinal ==
    [][\A t \in Task : board.status[t] \in {"Paid", "PayoutFailed"}
                          => board'.status[t] = board.status[t]]_vars

\* A payout in flight is not replaced by another transaction for the same leg:
\* try_settle_verified_task only sends what has no attempt.
InFlightNotReplaced ==
    [][\A l \in Leg : board.attempt[l] # None /\ board'.attempt[l] # None
                         => board'.attempt[l].tx = board.attempt[l].tx]_vars

\* The sweep loop eventually sees every leg paid or gives it up, unless its
\* recipient spends the output before the sweep looks (resolve_against then
\* reads Ambiguous), or the bound on transactions is hit.
EventuallySettled ==
    \A l \in Leg :
        <>(\/ l \in board.paid
           \/ board.status[TaskOf[l]] = "PayoutFailed"
           \/ \E x \in mined : <<x, l>> \in spent
           \/ nextTx > MaxTx)

\* What the board and the store say of a payout is what happened to it: a recipient is
\* credited once and for a mined transaction, a Submitted task tracks every leg it owes,
\* and a Paid one owes none (mark_recipient_paid, save_confirmed_payout).
RecordsTrue == EarnedOnceAndOnChain /\ SubmittedIsTracked /\ PaidIsFinal

\* Every payout on the network has its attempt, in memory and in the store, and none is
\* sent more often than MAX_PAYOUT_SUBMISSIONS, by the two send paths together.
AttemptsSound == InFlightIsTracked /\ SubmissionsBounded
=============================================================================
