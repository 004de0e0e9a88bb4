--------------------------- MODULE SettlementInv ---------------------------
(***************************************************************************)
(* The inductive invariant behind Settlement's safety properties, in named *)
(* parts.  TLC checks it on the small instances; SettlementProofs proves   *)
(* it for all of them.                                                     *)
(***************************************************************************)
EXTENDS Settlement

\* Every escrow address holds the one output of its deposit.
SingleDeposit == \A t \in Escrowed : \A c, d \in Deposit[t] : c = d

\* A transaction pays legs of its own task, spends something, and spends the
\* deposit of that task if there is one; from the operator's wallet it pays
\* one leg only.
TxOK(x) ==
    /\ x.legs \subseteq Legs(x.task)
    /\ x.inputs # {}
    /\ x.task \in Escrowed => x.inputs \subseteq Deposit[x.task]
    /\ x.task \notin Escrowed => \A k, l \in x.legs : k = l

AttemptsOK(a) == \A l \in Leg : a[l] # None => TxOK(a[l].tx) /\ l \in a[l].tx.legs

TxsOK ==
    /\ \A x \in Outstanding : TxOK(x)
    /\ AttemptsOK(board.attempt)
    /\ AttemptsOK(disk.attempt)

\* Transactions on the chain spend different coins, and what a mempool holds
\* could still be mined.
ChainOK ==
    /\ \A x, y \in mined : x # y => x.inputs \cap y.inputs = {}
    /\ \A x \in mempool \cup peers : \A y \in mined : x.inputs \cap y.inputs = {}

\* What is on disk agrees with the board on every payment and every verdict.
DiskAgrees ==
    /\ disk.paid = board.paid
    /\ disk.earned = board.earned
    /\ \A t \in Task : \A v \in {"Paid", "PayoutFailed"} :
          disk.status[t] = v <=> board.status[t] = v

\* A restart would still know of leg l's payout, or need not.
Durable(d, l) ==
    \/ d.attempt[l] # None
    \/ l \in d.paid
    \/ d.status[TaskOf[l]] = "PayoutFailed"

AttemptsDurable == \A l \in Leg : board.attempt[l] # None => Durable(disk, l)

\* Legs paid from the operator's wallet, of tasks not given up.
Live(b, l) == TaskOf[l] \notin Escrowed /\ b.status[TaskOf[l]] # "PayoutFailed"

Tracks(b, l, x) == b.attempt[l] # None /\ b.attempt[l].tx = x

\* InFlightIsTracked for operator payouts, and no two transactions out there
\* pay the same leg.  A confirmed leg has no attempt left.
Tracked ==
    \A l \in Leg : Live(board, l) =>
     /\ board.attempt[l] # None \/ disk.attempt[l] # None => l \notin board.paid
     /\ \A x \in Outstanding : l \in x.legs =>
            /\ l \in board.paid \/ Tracks(board, l, x)
            /\ l \in disk.paid \/ Tracks(disk, l, x)
            /\ \A y \in Outstanding : l \in y.legs => x = y

\* Whether a process at `at` with locals j holds leg l's PAYOUT_IN_FLIGHT entry
\* as a sender.
Sending(at, j, l) ==
    /\ at \in Settling \cup {"payout_lock"}
    /\ j.mode = "settle"
    /\ j.task \notin Escrowed
    /\ l \in j.legs

\* The entry is exclusive, among senders and against a confirmation.
Exclusive ==
    \A p \in Proc : \A l \in Leg : Sending(pc[p], job[p], l) =>
        /\ \A q \in Proc : Sending(pc[q], job[q], l) => q = p
        /\ ~(pc[Sweep] = "record_paid" /\ leg = l)

Written == {"save", "record", "save_task", "send"}

\* The shape of process p's locals j at step `at`.
JobOK(p, at, j) ==
    /\ AttemptsOK(j.rec) /\ AttemptsOK(j.batch)
    /\ p # Sweep => at \notin Resolving /\ j.mode = "settle"
    /\ at \in {"settle", "payout_lock", "fetch", "build", "save_task"} => j.mode = "settle"
    /\ at \in {"settle", "payout_lock"} \cup Settling =>
          /\ j.task \in Task
          /\ j.todo \subseteq Legs(j.task)
          /\ j.legs \subseteq Legs(j.task)
    /\ at \in {"payout_lock", "fetch", "build"} /\ j.task \notin Escrowed
          => \A k, l \in j.legs : k = l
    /\ at = "build" /\ j.task \in Escrowed => j.view \subseteq Deposit[j.task]
    /\ at \in Written => \A l \in j.legs : /\ j.rec[l] # None
                                           /\ j.rec[l].tx.task = j.task
                                           /\ \A k \in j.legs : j.rec[k].tx = j.rec[l].tx
    /\ j.saved \subseteq (IF at \in Written THEN j.legs ELSE {})
    /\ at \in {"record", "save_task", "send"} => j.saved = j.legs
    /\ at \in Resolving \ {"sweep"} =>
          j.leg \in Leg /\ j.batch[j.leg] # None /\ j.task = TaskOf[j.leg]
    /\ at \in Resolving \/ j.mode = "resend" => j.todo = {}

\* What it knows: the output it is about to confirm is on the chain, and what
\* it has saved is durable.
KnowsOK(d, m, at, j) ==
    /\ (at = "source" /\ j.holds) \/ at \in {"confirm", "record_paid"}
          => j.batch[j.leg].tx \in m
    /\ at \in {"save", "record"} => \A l \in j.saved : Durable(d, l)

\* A first send of a live leg: nothing tracks the leg until its attempt is
\* published, and from then on board and disk track the transaction to send.
SendOK(b, d, at, j) ==
    \A l \in Leg : Sending(at, j, l) /\ Live(b, l) =>
        /\ l \notin b.paid
        /\ at \in {"payout_lock", "fetch", "build", "save", "record"} => b.attempt[l] = None
        /\ at \in {"save_task", "send"} => Tracks(b, l, j.rec[l].tx)
        /\ at \in {"record", "save_task", "send"} => Tracks(d, l, j.rec[l].tx)

\* A resend of a live leg: it writes back the transaction the board tracks.
ResendOK(b, d, at, j) ==
    at \in Written /\ j.mode = "resend" =>
        \A l \in j.legs : Live(b, l) =>
            /\ l \notin b.paid
            /\ Tracks(b, l, j.rec[l].tx)
            /\ at \in {"record", "send"} => Tracks(d, l, j.rec[l].tx)

LocalOK(b, d, m, p, at, j) ==
    JobOK(p, at, j) /\ KnowsOK(d, m, at, j) /\ SendOK(b, d, at, j) /\ ResendOK(b, d, at, j)

AllLocalOK == \A p \in Proc : LocalOK(board, disk, mined, p, pc[p], job[p])

\* The inductive invariant: every step of a handler, the sweep, the network or
\* a restart preserves it.  A payout is durable before it is published, published
\* before it is sent, sent under its guard, and confirmed only when mined.
IInv ==
    /\ TypeOK /\ TxsOK /\ ChainOK /\ DiskAgrees
    /\ EarnedOnceAndOnChain /\ AttemptsDurable /\ SubmittedIsTracked
    /\ Tracked /\ Exclusive /\ AllLocalOK

\* A task recorded as Paid owes nothing.
PaidLegs == \A t \in Task : board.status[t] = "Paid" => Legs(t) \subseteq board.paid

Within(a) == \A l \in Leg : a[l] # None => a[l].submissions <= MAX_PAYOUT_SUBMISSIONS

\* What a process may still count: a first send starts from no attempt and a resend from
\* an attempt below the limit, and nobody else writes the leg's attempt meanwhile.
CountsOK(b, at, j) ==
    /\ at \in Written => Within(j.rec)
    /\ at = "resend" => j.batch[j.leg].submissions < MAX_PAYOUT_SUBMISSIONS
    /\ \A l \in j.legs :
          /\ at \in {"payout_lock", "fetch", "build", "save", "record"} /\ j.mode = "settle"
                => b.attempt[l] = None
          /\ at \in {"save", "record"} /\ j.mode = "resend" => b.attempt[l] # None

\* Inductive where no task is escrow-funded.
BudgetInv ==
    /\ Within(board.attempt) /\ Within(disk.attempt)
    /\ \A p \in Proc : CountsOK(board, pc[p], job[p])
=============================================================================
