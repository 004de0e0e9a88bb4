------------------------------ MODULE TaskBoard ------------------------------
(***************************************************************************)
(* The task board (hub/src/board.rs): what a task, an escrow deposit and a *)
(* reputation are, and what each board method does to them.  The board is  *)
(* pure state, so every method is an operator: a guard over a board, and   *)
(* the board it leaves behind.  Tasks.tla drives it from the handlers, the *)
(* sweep and the store.                                                    *)
(*                                                                         *)
(* A board is [task, deposit, rep].  Times are instants of one clock and a *)
(* deadline has passed only strictly after it.  Descriptions, capability   *)
(* tags and hashes are left out; an output either is the expected one or   *)
(* is not.                                                                 *)
(***************************************************************************)
EXTENDS Integers, Sequences, FiniteSets, FiniteSetsExt, TLC

CONSTANTS
    Agent,              \* keys that claim, join, answer and challenge
    Poster,             \* the key that funds escrows
    Operator,           \* the hub's own key
    Answer,             \* what an assignee may answer
    Nobody,             \* the absent key, deposit or ruling
    Bounty,             \* what a task pays
    NumAssignees,       \* how many a consensus task takes
    MAX_CONTEST_ANSWERS,
    Bond,               \* what a challenger stakes
    Window              \* the length of every window: claim, join, submission, dispute, pick

Never == -1
Passed(now, deadline) == deadline # Never /\ now > deadline

----------------------------------------------------------------------------
(* Tasks.                                                                  *)

\* Settlement alone reaches PayoutFailed.
TaskStatus == {"Open", "Claimed", "AwaitingDispute", "Disputed", "AwaitingPick", "Verified",
               "Submitted", "Paid", "PayoutFailed", "Closed"}

CloseReason == {"None", "NoAnswers", "NeverClosed", "Understaffed", "NoMajority", "CancelledByOperator"}

\* "legacy" is an open-ended task answered under the rules before contests.
TaskKind == {"hash", "consensus", "contest", "legacy"}

EscrowPurpose == TaskKind \cup {"bond"}

EscrowStatus == {"Reserved", "Consumed", "Disbursing", "Refunded"}

DisputeResolution == {"ChallengerWins", "AssigneeWins"}

NoDispute == [challenger |-> Nobody, bond |-> Nobody, resolution |-> Nobody]

\* Task::submission_deadline: derived from the instant a contest went live, not stored.
submission_deadline(kind, live_at) == IF kind = "contest" THEN live_at + Window ELSE Never

\* One task as create_task, create_consensus_task or create_disputable_task makes it.
\* `part` is a consensus task's assignees or a contest's answers; `closes_at` is
\* Task::submission_deadline.
NewTask(kind, poster, escrow, min_reputation, now) ==
    [kind |-> kind, poster |-> poster, escrow |-> escrow, min_reputation |-> min_reputation,
     status |-> "Open", reason |-> "None", claimant |-> Nobody, claim_deadline |-> Never,
     failed_attempts |-> 0, part |-> << >>,
     join_deadline |-> IF kind = "consensus" THEN now + Window ELSE Never,
     submission_deadline |-> Never,
     closes_at |-> submission_deadline(kind, now),
     pick_deadline |-> Never, picked |-> Nobody,
     dispute_deadline |-> Never, dispute |-> NoDispute]

IsContest(task) == task.kind = "contest" /\ DOMAIN task.part # {}

\* Who a legacy open-ended task's bounty goes to, once that is known.
DisputeWinner(task) ==
    CASE task.dispute.challenger = Nobody -> task.claimant
      [] task.dispute.resolution = "ChallengerWins" -> task.dispute.challenger
      [] task.dispute.resolution = "AssigneeWins" -> task.claimant
      [] OTHER -> Nobody

\* Every (recipient, amount) the task will ever pay, as a function.
allocated_payouts(task) ==
    IF task.kind = "consensus" \/ IsContest(task)
      THEN LET named == {a \in DOMAIN task.part : task.part[a].share # Never}
           IN  [a \in named |-> task.part[a].share]
      ELSE LET winner == IF task.kind = "hash" THEN task.claimant ELSE DisputeWinner(task)
           IN  [a \in {winner} \ {Nobody} |-> Bounty]

\* The same of a task whose status has moved on: a ruling not yet made names the claimant.
pending_payouts_recipient_hint(task) ==
    IF task.dispute.resolution = "ChallengerWins" THEN task.dispute.challenger ELSE task.claimant

is_recipient_paid(task, a) ==
    IF task.kind = "consensus" \/ IsContest(task)
      THEN a \in DOMAIN task.part /\ task.part[a].paid
      ELSE /\ task.status = "Paid"
           /\ a = IF task.kind = "hash" THEN task.claimant ELSE pending_payouts_recipient_hint(task)

\* Whose reputation a resolution may have changed.
consensus_assignees(task) == IF task.kind = "consensus" THEN DOMAIN task.part ELSE {}

owed_payouts(task) == {a \in DOMAIN allocated_payouts(task) : ~is_recipient_paid(task, a)}

paid_payouts(task) == {a \in DOMAIN allocated_payouts(task) : is_recipient_paid(task, a)}

Settled(task) == task.status \in {"Paid", "Closed"}

\* What the unsettled operator-funded tasks promise out of the operator's balance.
allocated_bounty(b) ==
    Bounty * Cardinality({t \in DOMAIN b.task : ~Settled(b.task[t]) /\ b.task[t].escrow = Nobody})

\* What rides on unsettled consensus tasks, however funded.
consensus_exposure(b) ==
    Bounty * Cardinality({t \in DOMAIN b.task : ~Settled(b.task[t]) /\ b.task[t].kind = "consensus"})

WithTask(b, t, task) == [b EXCEPT !.task = (t :> task) @@ @]

----------------------------------------------------------------------------
(* Claiming and joining.                                                   *)

MayTake(b, t, a) ==
    /\ b.task[t].status = "Open"
    /\ b.task[t].poster # a
    /\ b.rep[a].completed >= b.task[t].min_reputation

CanClaim(b, t, a) == b.task[t].kind = "hash" /\ MayTake(b, t, a)

claim_task(b, t, a, now) ==
    WithTask(b, t, [b.task[t] EXCEPT !.status = "Claimed", !.claimant = a,
                                     !.claim_deadline = now + Window])

CanJoin(b, t, a, now) ==
    /\ b.task[t].kind = "consensus"
    /\ MayTake(b, t, a)
    /\ ~Passed(now, b.task[t].join_deadline)
    /\ a \notin DOMAIN b.task[t].part

Unanswered == [answer |-> Nobody, share |-> Never, paid |-> FALSE]

join_consensus_task(b, t, a, now) ==
    LET part == (a :> Unanswered) @@ b.task[t].part
        filled == Cardinality(DOMAIN part) >= NumAssignees
    IN  WithTask(b, t,
          [b.task[t] EXCEPT !.part = part,
                            !.submission_deadline = IF filled THEN now + Window ELSE @,
                            !.status = IF filled THEN "Claimed" ELSE @])

Due(b, Is(_)) == {t \in DOMAIN b.task : Is(b.task[t])}

\* The board with every task in ts replaced by its image.
Each(b, ts, New(_)) == [b EXCEPT !.task = [t \in DOMAIN @ |-> IF t \in ts THEN New(@[t]) ELSE @[t]]]

ExpiredClaims(b, now) ==
    LET expired(task) == task.status = "Claimed" /\ Passed(now, task.claim_deadline)
    IN  Due(b, expired)

Reopened(task) == [task EXCEPT !.status = "Open", !.claimant = Nobody, !.claim_deadline = Never]

expire_claims(b, now) == Each(b, ExpiredClaims(b, now), Reopened)

----------------------------------------------------------------------------
(* Answering a hash-match task.                                            *)

Ding(b, as) == [b EXCEPT !.rep = [a \in DOMAIN @ |-> IF a \in as THEN [@[a] EXCEPT !.failed = @ + 1]
                                                                ELSE @[a]]]

CanSubmit(b, t, a) ==
    b.task[t].kind = "hash" /\ b.task[t].status = "Claimed" /\ b.task[t].claimant = a

submit(b, t, a, matches) ==
    IF matches
      THEN WithTask(b, t, [b.task[t] EXCEPT !.status = "Verified"])
      ELSE Ding(WithTask(b, t, [Reopened(b.task[t]) EXCEPT !.failed_attempts = @ + 1]), {a})

----------------------------------------------------------------------------
(* Consensus.                                                              *)

Voters(part, x) == {a \in DOMAIN part : part[a].answer = x}

\* Faulty variant: a plurality wins.
PluralityAnswer(part) ==
    {x \in Answer : \A y \in Answer \ {x} : Cardinality(Voters(part, y)) < Cardinality(Voters(part, x))}

\* The answer of strictly more than half of all assignees, if there is one.
majority_answer(part) ==
    {x \in Answer :
        /\ \A y \in Answer \ {x} : Cardinality(Voters(part, y)) < Cardinality(Voters(part, x))
        /\ Cardinality(Voters(part, x)) > Cardinality(DOMAIN part) \div 2}

resolve_consensus(b, t) ==
    LET part == b.task[t].part
        winners == UNION {Voters(part, x) : x \in majority_answer(part)}
        share == Bounty \div Cardinality(winners)
    IN  IF winners = {}
          THEN WithTask(b, t, [b.task[t] EXCEPT !.status = "Closed", !.reason = "NoMajority"])
          ELSE Ding(WithTask(b, t,
                      [b.task[t] EXCEPT
                         !.status = "Verified",
                         !.part = [a \in DOMAIN @ |-> IF a \in winners
                                                        THEN [@[a] EXCEPT !.share = share]
                                                        ELSE @[a]]]),
                    DOMAIN part \ winners)

CanAnswerConsensus(b, t, a, now) ==
    /\ b.task[t].kind = "consensus" /\ b.task[t].status = "Claimed"
    /\ ~Passed(now, b.task[t].submission_deadline)
    /\ a \in DOMAIN b.task[t].part /\ b.task[t].part[a].answer = Nobody

AllAnswered(task) == \A a \in DOMAIN task.part : task.part[a].answer # Nobody

submit_consensus_answer(b, t, a, x) ==
    LET answered == WithTask(b, t, [b.task[t] EXCEPT !.part[a].answer = x])
    IN  IF AllAnswered(answered.task[t]) THEN resolve_consensus(answered, t) ELSE answered

ExpiredConsensus(b, now) ==
    LET expired(task) == task.kind = "consensus" /\ task.status = "Claimed"
                           /\ Passed(now, task.submission_deadline)
    IN  Due(b, expired)

resolve_expired_consensus_tasks(b, now) ==
    FoldSet(LAMBDA t, acc : resolve_consensus(acc, t), b, ExpiredConsensus(b, now))

Understaffed(b, now) ==
    LET short(task) == task.kind = "consensus" /\ task.status = "Open"
                         /\ Passed(now, task.join_deadline)
    IN  Due(b, short)

cancel_understaffed_consensus_tasks(b, now) ==
    Each(b, Understaffed(b, now),
         LAMBDA task : [task EXCEPT !.status = "Closed", !.reason = "Understaffed"])

----------------------------------------------------------------------------
(* Contests.                                                               *)

CanEnter(b, t, a, now) ==
    /\ b.task[t].kind = "contest"
    /\ MayTake(b, t, a)
    /\ ~Passed(now, b.task[t].closes_at)
    /\ a \notin DOMAIN b.task[t].part
    /\ Cardinality(DOMAIN b.task[t].part) < MAX_CONTEST_ANSWERS

\* A contest's answers are told apart by their author alone.
ContestAnswer == [answer |-> Nobody, share |-> Never, paid |-> FALSE]

submit_contest_answer(b, t, a) ==
    WithTask(b, t, [b.task[t] EXCEPT !.part = (a :> ContestAnswer) @@ @])

CanClose(b, t, caller, now) ==
    /\ b.task[t].kind = "contest" /\ b.task[t].poster = caller
    /\ b.task[t].status = "Open"
    /\ ~Passed(now, b.task[t].closes_at)

close_contest(b, t, now) ==
    WithTask(b, t,
      IF DOMAIN b.task[t].part = {}
        THEN [b.task[t] EXCEPT !.status = "Closed", !.reason = "NoAnswers"]
        ELSE [b.task[t] EXCEPT !.status = "AwaitingPick", !.pick_deadline = now + Window])

CanPick(b, t, caller, a, now) ==
    /\ b.task[t].kind = "contest" /\ b.task[t].poster = caller
    /\ b.task[t].status = "AwaitingPick"
    /\ ~Passed(now, b.task[t].pick_deadline)
    /\ a \in DOMAIN b.task[t].part

pick_answer(b, t, a) ==
    WithTask(b, t, [b.task[t] EXCEPT !.part[a].share = Bounty, !.picked = a, !.status = "Verified"])

Unclosed(b, now) ==
    LET stale(task) == task.status = "Open" /\ Passed(now, task.closes_at)
    IN  Due(b, stale)

close_unclosed_contests(b, now) ==
    Each(b, Unclosed(b, now),
         LAMBDA task : [task EXCEPT !.status = "Closed", !.reason = "NeverClosed"])

Unpicked(b, now) ==
    LET stale(task) == task.status = "AwaitingPick" /\ Passed(now, task.pick_deadline)
    IN  Due(b, stale)

\* The remainder of the division stays unallocated: it is the poster's change.
Split(task) ==
    LET share == Bounty \div Cardinality(DOMAIN task.part)
    IN  [task EXCEPT !.status = "Verified",
                     !.part = [a \in DOMAIN @ |-> [@[a] EXCEPT !.share = share]]]

split_unpicked_contests(b, now) == Each(b, Unpicked(b, now), Split)

----------------------------------------------------------------------------
(* Disputes, for the open-ended tasks answered before contests.            *)

Unchallenged(b, now) ==
    LET quiet(task) == task.status = "AwaitingDispute" /\ task.dispute = NoDispute
                         /\ Passed(now, task.dispute_deadline)
    IN  Due(b, quiet)

finalize_unchallenged_disputable_tasks(b, now) ==
    Each(b, Unchallenged(b, now), LAMBDA task : [task EXCEPT !.status = "Verified"])

CanRule(b, t) == b.task[t].status = "Disputed"

DisputeLoser(task, outcome) ==
    IF outcome = "ChallengerWins" THEN task.claimant ELSE task.dispute.challenger

resolve_dispute(b, t, outcome) ==
    Ding(WithTask(b, t, [b.task[t] EXCEPT !.status = "Verified", !.dispute.resolution = outcome]),
         {DisputeLoser(b.task[t], outcome)})

credit_forfeited_bond(b, a) == [b EXCEPT !.rep[a].earned = @ + Bond]

\* Resolved disputes whose bond still sits consumed at its own address.
tasks_with_unsettled_dispute_bonds(b) ==
    {t \in DOMAIN b.task :
        /\ b.task[t].dispute.resolution # Nobody
        /\ b.deposit[b.task[t].dispute.bond].status = "Consumed"}

----------------------------------------------------------------------------
(* Escrow deposits.                                                        *)

NewDeposit(purpose, depositor, target, min_reputation, now) ==
    [status |-> "Reserved", purpose |-> purpose, depositor |-> depositor, target |-> target,
     min_reputation |-> min_reputation, expires_at |-> now + Window, to |-> Nobody, forfeit |-> FALSE]

reserve_escrow(b, d, deposit) == [b EXCEPT !.deposit = (d :> deposit) @@ @]

WithStatus(b, d, status) == [b EXCEPT !.deposit[d].status = status]

\* confirm_escrow's checks; the amount was compared with what the caller observed.
CanConfirm(b, d, now) ==
    /\ b.deposit[d].purpose # "bond"
    /\ b.deposit[d].status = "Reserved"
    /\ ~Passed(now, b.deposit[d].expires_at)

\* Faulty variant: the task is opened and its deposit stays reserved.
LeavesReserved(b, d, t, now) ==
    WithTask(b, t, NewTask(b.deposit[d].purpose, b.deposit[d].depositor, d, b.deposit[d].min_reputation, now))

confirm_escrow(b, d, t, now) ==
    WithTask(WithStatus(b, d, "Consumed"), t,
             NewTask(b.deposit[d].purpose, b.deposit[d].depositor, d, b.deposit[d].min_reputation, now))

BondReady(b, d, now) ==
    /\ b.deposit[d].purpose = "bond"
    /\ b.deposit[d].status = "Reserved"
    /\ ~Passed(now, b.deposit[d].expires_at)

DisputeWindowClosed(b, t, now) ==
    b.task[t].status # "AwaitingDispute" \/ Passed(now, b.task[t].dispute_deadline)

CanChallenge(b, d, now) ==
    LET t == b.deposit[d].target
    IN  /\ BondReady(b, d, now)
        /\ ~DisputeWindowClosed(b, t, now)
        /\ b.task[t].dispute = NoDispute
        /\ b.task[t].claimant # b.deposit[d].depositor

confirm_dispute_bond(b, d) ==
    LET t == b.deposit[d].target
    IN  WithTask(WithStatus(b, d, "Consumed"), t,
                 [b.task[t] EXCEPT
                    !.status = "Disputed",
                    !.dispute = [challenger |-> b.deposit[d].depositor, bond |-> d, resolution |-> Nobody]])

overdue_reserved_escrows(b, now) ==
    {d \in DOMAIN b.deposit : b.deposit[d].status = "Reserved" /\ Passed(now, b.deposit[d].expires_at)}

\* Faulty variant: a refund that failed when its task closed is never tried again.
NoRetry(b) == {}

closed_tasks_with_unrefunded_escrow(b) ==
    {t \in DOMAIN b.task :
        /\ b.task[t].status = "Closed" /\ b.task[t].escrow # Nobody
        /\ b.deposit[b.task[t].escrow].status = "Consumed"}

----------------------------------------------------------------------------
(* Cancelling and paying.                                                  *)

CanCancel(b, t) == b.task[t].status \in {"Open", "Claimed", "AwaitingDispute", "AwaitingPick"}

cancel_task(b, t) ==
    WithTask(b, t, [b.task[t] EXCEPT !.status = "Closed", !.reason = "CancelledByOperator"])

verified_unpaid_tasks(b) == {t \in DOMAIN b.task : b.task[t].status = "Verified"}

\* Faulty variant: a share of a split counts as a completed task.
AlwaysCredited(task) == TRUE

\* A split share was judged by nobody and builds no reputation.
Credited(task) == IsContest(task) => task.picked # Nobody

mark_recipient_paid(b, t, a) ==
    LET task == b.task[t]
        marked == IF task.kind = "consensus" \/ IsContest(task)
                    THEN [task EXCEPT !.part[a].paid = TRUE] ELSE task
        fully == marked = task \/ owed_payouts(marked) = {}
        amount == allocated_payouts(task)[a]
    IN  [WithTask(b, t, [marked EXCEPT !.status = IF fully THEN "Paid" ELSE @])
           EXCEPT !.rep[a] = [@ EXCEPT !.completed = @ + (IF Credited(task) THEN 1 ELSE 0),
                                       !.earned = @ + amount]]

----------------------------------------------------------------------------
(* What boot reconciliation looks for (hub/src/reconcile.rs).              *)

\* A consumed deposit that nothing on the board refers to.
check_orphaned_consumed_deposits(b) ==
    {d \in DOMAIN b.deposit :
        /\ b.deposit[d].status = "Consumed"
        /\ ~ IF b.deposit[d].purpose = "bond"
               THEN /\ b.deposit[d].target \in DOMAIN b.task
                    /\ b.task[b.deposit[d].target].dispute.bond = d
               ELSE \E t \in DOMAIN b.task : b.task[t].escrow = d}

=============================================================================
