-------------------------------- MODULE Tasks --------------------------------
(***************************************************************************)
(* The life of a task (hub/src/handlers.rs, main.rs, store.rs): escrow     *)
(* reserved, funded and confirmed; claims, answers, closes, picks and      *)
(* rulings; the sweep that expires, resolves, splits and refunds; the      *)
(* store behind them, and a hub that crashes and boots again.              *)
(*                                                                         *)
(* A handler changes the board under its lock and commits what it changed  *)
(* after letting go, so the board runs ahead of the disk by the commits in *)
(* `saves`.  They reach the disk in the order the board changed: redb      *)
(* takes one writer at a time.  A commit may fail, and then the board      *)
(* keeps what the disk never got.                                          *)
(*                                                                         *)
(* How a payout or a refund survives the wire is Settlement and Payments;  *)
(* here either is one durable step, and its confirmation another.          *)
(***************************************************************************)
EXTENDS TaskBoard, SequencesExt

CONSTANTS
    Deposit,            \* deposit ids
    TaskId,             \* task ids
    Scene,              \* what a behaviour is about: [kind, funding, agents, deposits,
                        \* min_reputation, faults], faults bounding crashes and failed commits
    Veteran,            \* agents with one completed task behind them
    OperatorBalance,    \* what the operator's address holds
    consensus_max_exposure,
    MaxClock, MaxOpening, MaxFailed, MaxSaves   \* bounds

VARIABLES
    scene,              \* the scene of this behaviour
    now,                \* the clock
    board,              \* the live board
    stored,             \* the board the store would restore
    saves,              \* commits not yet made, oldest first
    confirming,         \* confirm handlers that have read a funded balance, by deposit
    jobs,               \* what the running sweep pass still has to do
    held,               \* what each deposit address holds on chain
    sent,               \* disbursements mined: [deposit, to]
    read,               \* ghost: contests whose answers have been shown, with those answers
    lost,               \* commits that failed
    hubCrashes

taskVars == <<scene, now, board, stored, saves, confirming, jobs, held, sent, read, lost, hubCrashes>>
hubVars == <<saves, confirming, jobs>>
chainVars == <<held, sent>>
ghostVars == <<scene, read, lost, hubCrashes>>

NewRep(a) == [completed |-> IF a \in Veteran THEN 1 ELSE 0, failed |-> 0, earned |-> 0]

Required(d) == IF board.deposit[d].purpose = "bond" THEN Bond ELSE Bounty

----------------------------------------------------------------------------
(* The store.  A commit names the task and deposit it snapshotted under    *)
(* the lock and the agents whose reputation it reads as it commits.        *)

Save(t, d, agents, then) ==
    [task |-> IF t = Nobody THEN Nobody ELSE board'.task[t], t |-> t,
     deposit |-> IF d = Nobody THEN Nobody ELSE board'.deposit[d], d |-> d,
     agents |-> agents, then |-> then]

save_task(disks, t, task) == [disks EXCEPT !.task = (t :> task) @@ @]

save_pending_deposit(disks, d, deposit) == [disks EXCEPT !.deposit = (d :> deposit) @@ @]

\* Faulty variant: the deposit is committed and its task is not.
save_deposit_only(disks, t, task, d, deposit) == save_pending_deposit(disks, d, deposit)

save_task_and_deposit(disks, t, task, d, deposit) ==
    save_pending_deposit(save_task(disks, t, task), d, deposit)

save_task_and_reputation(disks, t, task, a) ==
    [save_task(disks, t, task) EXCEPT !.rep[a] = board.rep[a]]

save_task_and_reputation_batch(disks, t, task, agents) ==
    [save_task(disks, t, task) EXCEPT
       !.rep = [a \in Agent |-> IF a \in agents THEN board.rep[a] ELSE @[a]]]

Committed(s) ==
    CASE s.t = Nobody -> save_pending_deposit(stored, s.d, s.deposit)
      [] s.d # Nobody -> save_task_and_deposit(stored, s.t, s.task, s.d, s.deposit)
      [] Cardinality(s.agents) = 1 ->
           save_task_and_reputation(stored, s.t, s.task, CHOOSE a \in s.agents : TRUE)
      [] OTHER -> save_task_and_reputation_batch(stored, s.t, s.task, s.agents)

\* A write made while holding the lock waits for the commits queued before it.
MayWrite == saves = << >>

Queue(s) == Len(saves) < MaxSaves /\ saves' = Append(saves, s)

----------------------------------------------------------------------------
(* Opening a task.                                                         *)

FreshTask == CHOOSE t \in TaskId \ DOMAIN board.task : TRUE

ensure_consensus_exposure_allows(kind) ==
    kind = "consensus" => consensus_exposure(board) + Bounty <= consensus_max_exposure

ensure_operator_can_fund == OperatorBalance - allocated_bounty(board) >= Bounty

\* create_task, create_consensus_task: the operator posts from its own balance.
CreateTask ==
    /\ scene.funding = "operator" /\ now <= MaxOpening
    /\ TaskId \ DOMAIN board.task # {}
    /\ ensure_consensus_exposure_allows(scene.kind)
    /\ ensure_operator_can_fund
    /\ board' = WithTask(board, FreshTask,
                         NewTask(scene.kind, Operator, Nobody, scene.min_reputation, now))
    /\ Queue(Save(FreshTask, Nobody, {}, "none"))
    /\ UNCHANGED <<now, stored, confirming, jobs, chainVars, ghostVars>>

\* create_task_escrow, create_consensus_task_escrow, create_disputable_task_escrow.
ReserveEscrow(d) ==
    /\ scene.funding = "escrow" /\ now <= MaxOpening
    /\ d \notin DOMAIN board.deposit
    /\ ensure_consensus_exposure_allows(scene.kind)
    /\ board' = reserve_escrow(board, d,
                               NewDeposit(scene.kind, Poster, Nobody, scene.min_reputation, now))
    /\ Queue(Save(Nobody, d, {}, "none"))
    /\ UNCHANGED <<now, stored, confirming, jobs, chainVars, ghostVars>>

\* The depositor pays the address it was given once the reservation is durable.
Fund(d) ==
    /\ d \in DOMAIN stored.deposit /\ d \in DOMAIN board.deposit
    /\ board.deposit[d].status = "Reserved" /\ held[d] = 0
    /\ held' = [held EXCEPT ![d] = Required(d)]
    /\ UNCHANGED <<now, board, stored, hubVars, sent, ghostVars>>

\* confirm_task_escrow and confirm_dispute_escrow ask the node what the address holds
\* before they take the board's lock.
ReadBalance(d) ==
    /\ d \in DOMAIN board.deposit /\ d \notin confirming
    /\ held[d] >= Required(d)
    /\ confirming' = confirming \cup {d}
    /\ UNCHANGED <<now, board, stored, saves, jobs, chainVars, ghostVars>>

confirm_task_escrow(d) ==
    /\ d \in confirming
    /\ confirming' = confirming \ {d}
    /\ IF CanConfirm(board, d, now) /\ TaskId \ DOMAIN board.task # {}
         THEN /\ board' = confirm_escrow(board, d, FreshTask, now)
              /\ Queue(Save(FreshTask, d, {}, "none"))
         ELSE UNCHANGED <<board, saves>>
    /\ UNCHANGED <<now, stored, jobs, chainVars, ghostVars>>

----------------------------------------------------------------------------
(* Disbursing a deposit: journalled and marked in one transaction, unless  *)
(* it changed since the caller looked.                                     *)

Disburse(d, status, to, forfeit) ==
    /\ MayWrite
    /\ board.deposit[d].to = Nobody /\ board.deposit[d].status = status
    /\ status \in {"Reserved", "Consumed"}
    /\ LET paid == [board.deposit[d] EXCEPT !.status = "Disbursing", !.to = to, !.forfeit = forfeit]
       IN  /\ board' = [board EXCEPT !.deposit[d] = paid]
           /\ stored' = save_pending_deposit(stored, d, paid)

\* The payment is in a block: the deposit is done with, and a forfeited bond was earned.
ConfirmDisbursement(d) ==
    /\ d \in DOMAIN board.deposit /\ board.deposit[d].status = "Disbursing" /\ MayWrite
    /\ LET to == board.deposit[d].to
           done == WithStatus(board, d, "Refunded")
       IN  /\ board' = IF board.deposit[d].forfeit /\ held[d] > 0 THEN credit_forfeited_bond(done, to) ELSE done
           /\ stored' = [save_pending_deposit(stored, d, done.deposit[d]) EXCEPT
                         !.rep = IF board.deposit[d].forfeit THEN [@ EXCEPT ![to] = board'.rep[to]] ELSE @]
           /\ sent' = IF held[d] > 0 THEN sent \cup {[deposit |-> d, to |-> to]} ELSE sent
    /\ held' = [held EXCEPT ![d] = 0]
    /\ UNCHANGED <<now, hubVars, ghostVars>>

----------------------------------------------------------------------------
(* Working on a task.                                                      *)

claim_or_join(t, a) ==
    /\ \/ CanClaim(board, t, a) /\ board' = claim_task(board, t, a, now)
       \/ CanJoin(board, t, a, now) /\ board' = join_consensus_task(board, t, a, now)
    /\ Queue(Save(t, Nobody, {}, "none"))
    /\ UNCHANGED <<now, stored, confirming, jobs, chainVars, ghostVars>>

submit_hash_match_task(t, a, matches) ==
    /\ CanSubmit(board, t, a)
    /\ matches \/ board.task[t].failed_attempts < MaxFailed
    /\ board' = submit(board, t, a, matches)
    /\ Queue(Save(t, Nobody, {a}, "none"))
    /\ UNCHANGED <<now, stored, confirming, jobs, chainVars, ghostVars>>

\* persist_consensus_submission: the submitter, and every assignee once it resolved.
submit_consensus_task(t, a, x) ==
    /\ CanAnswerConsensus(board, t, a, now)
    /\ board' = submit_consensus_answer(board, t, a, x)
    /\ LET resolved == board'.task[t].status # "Claimed"
           closed == board'.task[t].status = "Closed"
       IN  Queue(Save(t, Nobody, IF resolved THEN consensus_assignees(board.task[t]) ELSE {a},
                      IF closed THEN "refund" ELSE "none"))
    /\ UNCHANGED <<now, stored, confirming, jobs, chainVars, ghostVars>>

\* Saved before the lock is let go, and put back if the store refuses.
submit_disputable_task(t, a) ==
    /\ CanEnter(board, t, a, now) /\ MayWrite
    /\ board' = submit_contest_answer(board, t, a)
    /\ stored' = save_task(stored, t, board'.task[t])
    /\ UNCHANGED <<now, hubVars, chainVars, ghostVars>>

\* The endpoint all three kinds share; each kind's guard is in its own branch.
submit_task(t, a) ==
    \/ \E matches \in BOOLEAN : submit_hash_match_task(t, a, matches)
    \/ \E x \in Answer : submit_consensus_task(t, a, x)
    \/ submit_disputable_task(t, a)

\* close_task, pick_answer and cancel_task stage the change and commit it before the live
\* board moves; whoever closes without a winner then refunds.
Staged(t, staged) ==
    /\ MayWrite
    /\ stored' = save_task(stored, t, staged.task[t])
    /\ board' = WithTask(board, t, staged.task[t])
    /\ jobs' = IF staged.task[t].status = "Closed" THEN Append(jobs, [op |-> "refund", id |-> t]) ELSE jobs
    /\ UNCHANGED <<now, saves, confirming, chainVars, ghostVars>>

\* Faulty variant: the live board closes first and the commit follows.
CloseInMemory(t) ==
    /\ CanClose(board, t, Poster, now)
    /\ board' = close_contest(board, t, now)
    /\ Queue(Save(t, Nobody, {}, IF board'.task[t].status = "Closed" THEN "refund" ELSE "none"))
    /\ UNCHANGED <<now, stored, confirming, jobs, chainVars, ghostVars>>

CloseTask(t) == CanClose(board, t, Poster, now) /\ Staged(t, close_contest(board, t, now))

PickAnswer(t, a) == CanPick(board, t, Poster, a, now) /\ Staged(t, pick_answer(board, t, a))

CancelTask(t) == CanCancel(board, t) /\ Staged(t, cancel_task(board, t))

\* What the hub shows of a task: the number of answers always, whose they are only once
\* the poster has closed the contest.
TaskDto(task) ==
    [status |-> task.status, answer_count |-> Cardinality(DOMAIN task.part),
     answers |-> IF task.pick_deadline = Never THEN Nobody ELSE DOMAIN task.part]

\* get_task, list_tasks: somebody reads the answers the hub shows.
ReadAnswers(t) ==
    LET shown == TaskDto(board.task[t]).answers
    IN  /\ shown # Nobody /\ t \notin DOMAIN read
        /\ read' = (t :> shown) @@ read
    /\ UNCHANGED <<scene, now, board, stored, hubVars, chainVars, lost, hubCrashes>>

----------------------------------------------------------------------------
(* Disputes over tasks answered before contests.                           *)

confirm_dispute_escrow(d) ==
    /\ d \in confirming /\ BondReady(board, d, now)
    /\ confirming' = confirming \ {d}
    /\ LET t == board.deposit[d].target
       IN  \/ /\ CanChallenge(board, d, now)
              /\ board' = confirm_dispute_bond(board, d)
              /\ Queue(Save(t, d, {}, "none"))
              /\ UNCHANGED stored
           \/ /\ DisputeWindowClosed(board, t, now)
              /\ Disburse(d, "Reserved", board.deposit[d].depositor, FALSE)
              /\ UNCHANGED saves
    /\ UNCHANGED <<now, jobs, chainVars, ghostVars>>

ResolveDispute(t, outcome) ==
    /\ CanRule(board, t)
    /\ board' = resolve_dispute(board, t, outcome)
    /\ Queue(Save(t, Nobody, {DisputeLoser(board.task[t], outcome)}, "none"))
    /\ UNCHANGED <<now, stored, confirming, jobs, chainVars, ghostVars>>

settle_dispute_bond(t) ==
    /\ t \in tasks_with_unsettled_dispute_bonds(board)
    /\ Disburse(board.task[t].dispute.bond, "Consumed", DisputeWinner(board.task[t]),
                board.task[t].dispute.resolution = "AssigneeWins")
    /\ UNCHANGED <<now, hubVars, chainVars, ghostVars>>

----------------------------------------------------------------------------
(* Commits.                                                                *)

Commit ==
    /\ saves # << >>
    /\ stored' = Committed(Head(saves))
    /\ saves' = Tail(saves)
    /\ jobs' = IF Head(saves).then = "refund" THEN Append(jobs, [op |-> "refund", id |-> Head(saves).t]) ELSE jobs
    /\ UNCHANGED <<now, board, confirming, chainVars, ghostVars>>

\* The handler answers with an error; the board stays where it is.
CommitFails ==
    /\ saves # << >> /\ lost + hubCrashes < scene.faults
    /\ saves' = Tail(saves)
    /\ lost' = lost + 1
    /\ UNCHANGED <<scene, now, board, stored, confirming, jobs, chainVars, read, hubCrashes>>

----------------------------------------------------------------------------
(* The sweep.  A stage changes every task that is due and then works       *)
(* through them; stages with nothing due do nothing, so any stage that has *)
(* work may be the next to run.                                            *)

Jobs(op, ids) == [i \in 1..Cardinality(ids) |-> [op |-> op, id |-> SetToSeq(ids)[i]]]

Stage(ts, changed, op) ==
    /\ jobs = << >> /\ ts # {}
    /\ board' = changed
    /\ jobs' = Jobs(op, ts)
    /\ UNCHANGED <<now, stored, saves, confirming, chainVars, ghostVars>>

SweepExpire == Stage(ExpiredClaims(board, now), expire_claims(board, now), "persist")
SweepCancel == Stage(Understaffed(board, now), cancel_understaffed_consensus_tasks(board, now), "persist")
SweepResolve == Stage(ExpiredConsensus(board, now), resolve_expired_consensus_tasks(board, now), "persist")
SweepFinalize == Stage(Unchallenged(board, now), finalize_unchallenged_disputable_tasks(board, now), "persist")
SweepUnclosed == Stage(Unclosed(board, now), close_unclosed_contests(board, now), "persist")
SweepSplit == Stage(Unpicked(board, now), split_unpicked_contests(board, now), "persist")
SweepUnrefunded == Stage(closed_tasks_with_unrefunded_escrow(board), board, "refund")
SweepOverdue == Stage(overdue_reserved_escrows(board, now), board, "overdue")

\* Whose reputation a resolved task's commit carries.
Touched(task) == IF task.status \in {"Verified", "Closed"} THEN consensus_assignees(task) ELSE {}

\* Faulty variant: a swept task is refunded without having been saved.
PersistNothing(t) == UNCHANGED stored

persist_task_by_id(t) ==
    stored' = save_task_and_reputation_batch(stored, t, board.task[t], Touched(board.task[t]))

\* The job after this one: a closed task's refund.
AfterPersist(t) ==
    (IF board.task[t].status = "Closed" THEN <<[op |-> "refund", id |-> t]>> ELSE << >>) \o Tail(jobs)

JobPersist ==
    /\ jobs # << >> /\ Head(jobs).op = "persist" /\ MayWrite
    /\ persist_task_by_id(Head(jobs).id)
    /\ jobs' = AfterPersist(Head(jobs).id)
    /\ UNCHANGED <<now, board, saves, confirming, chainVars, ghostVars>>

\* The sweep only logs a commit that failed, and goes on.
JobPersistFails ==
    /\ jobs # << >> /\ Head(jobs).op = "persist" /\ lost + hubCrashes < scene.faults
    /\ lost' = lost + 1
    /\ jobs' = AfterPersist(Head(jobs).id)
    /\ UNCHANGED <<scene, now, board, stored, saves, confirming, chainVars, read, hubCrashes>>

\* refund_closed_task_escrow: a no-op for a task the operator funded.
refund_closed_task_escrow ==
    /\ jobs # << >> /\ Head(jobs).op = "refund"
    /\ LET d == board.task[Head(jobs).id].escrow
       IN  d # Nobody /\ Disburse(d, "Consumed", board.deposit[d].depositor, FALSE)
    /\ jobs' = Tail(jobs)
    /\ UNCHANGED <<now, saves, confirming, chainVars, ghostVars>>

RefundOverdue ==
    /\ jobs # << >> /\ Head(jobs).op = "overdue"
    /\ Disburse(Head(jobs).id, "Reserved", board.deposit[Head(jobs).id].depositor, FALSE)
    /\ jobs' = Tail(jobs)
    /\ UNCHANGED <<now, saves, confirming, chainVars, ghostVars>>

\* disburse_escrow gives up quietly: the node did not answer, or there is nothing to do.
GiveUp ==
    /\ jobs # << >> /\ Head(jobs).op \in {"refund", "overdue"}
    /\ jobs' = Tail(jobs)
    /\ UNCHANGED <<now, board, stored, saves, confirming, chainVars, ghostVars>>

----------------------------------------------------------------------------
(* Settlement, in two durable steps.  Whoever verified a task saves it     *)
(* before settling it.                                                     *)

try_settle_verified_task(t) ==
    /\ t \in verified_unpaid_tasks(board) /\ MayWrite
    /\ [op |-> "persist", id |-> t] \notin Range(jobs)
    /\ board.task[t].escrow # Nobody => held[board.task[t].escrow] >= Bounty
    /\ board' = WithTask(board, t, [board.task[t] EXCEPT !.status = "Submitted"])
    /\ stored' = save_task(stored, t, board'.task[t])
    /\ UNCHANGED <<now, hubVars, chainVars, ghostVars>>

\* A leg was found on chain: task and recipient's reputation commit together.
ConfirmPayout(t, a) ==
    /\ board.task[t].status = "Submitted" /\ a \in owed_payouts(board.task[t]) /\ MayWrite
    /\ board' = mark_recipient_paid(board, t, a)
    /\ stored' = [save_task(stored, t, board'.task[t]) EXCEPT !.rep[a] = board'.rep[a]]
    /\ held' = IF board.task[t].escrow = Nobody THEN held ELSE [held EXCEPT ![board.task[t].escrow] = 0]
    /\ UNCHANGED <<now, hubVars, sent, ghostVars>>

----------------------------------------------------------------------------
(* Time, crashes and boot.                                                 *)

TickClock ==
    /\ now < MaxClock /\ now' = now + 1
    /\ UNCHANGED <<board, stored, hubVars, chainVars, ghostVars>>

\* The process dies and the next one restores the board from the store.
CrashHub ==
    /\ lost + hubCrashes < scene.faults /\ hubCrashes' = hubCrashes + 1
    /\ board' = stored
    /\ saves' = << >> /\ confirming' = {} /\ jobs' = << >>
    /\ UNCHANGED <<scene, now, stored, chainVars, read, lost>>

\* A store written before contests: a task awaiting a dispute, and a bond reserved
\* against it.
LegacyTask(claimant, escrow) ==
    [NewTask("legacy", Poster, escrow, 0, 0) EXCEPT
       !.status = "AwaitingDispute", !.claimant = claimant, !.claim_deadline = Window,
       !.dispute_deadline = Window]

LegacyBoard(claimant, challenger, t, escrow, bond) ==
    [task |-> t :> LegacyTask(claimant, escrow),
     deposit |-> escrow :> [NewDeposit("legacy", Poster, Nobody, 0, 0) EXCEPT !.status = "Consumed"]
                   @@ bond :> NewDeposit("bond", challenger, t, 0, 0),
     rep |-> [a \in Agent |-> NewRep(a)]]

EmptyBoard == [task |-> << >>, deposit |-> << >>, rep |-> [a \in Agent |-> NewRep(a)]]

TasksInit ==
    /\ scene \in Scene
    /\ now = 0
    /\ board \in IF scene.kind = "legacy"
                   THEN LET ids == SetToSeq(Deposit)
                        IN  {LegacyBoard(p[1], p[2], CHOOSE t \in TaskId : TRUE, ids[1], ids[2]) :
                               p \in {q \in scene.agents \X scene.agents : q[1] # q[2]}}
                   ELSE {EmptyBoard}
    /\ stored = board
    /\ saves = << >> /\ confirming = {} /\ jobs = << >>
    /\ held = [d \in Deposit |-> IF d \in DOMAIN board.deposit /\ board.deposit[d].purpose = "legacy"
                                   THEN Bounty ELSE 0]
    /\ sent = {} /\ read = << >> /\ lost = 0 /\ hubCrashes = 0

TasksNext ==
    \/ CreateTask
    \/ \E d \in scene.deposits : ReserveEscrow(d) \/ Fund(d) \/ ReadBalance(d) \/ confirm_task_escrow(d)
                            \/ confirm_dispute_escrow(d) \/ ConfirmDisbursement(d)
    \/ \E t \in DOMAIN board.task :
         \/ \E a \in scene.agents :
              \/ claim_or_join(t, a)
              \/ submit_task(t, a)
              \/ PickAnswer(t, a)
              \/ ConfirmPayout(t, a)
         \/ CloseTask(t) \/ CancelTask(t) \/ ReadAnswers(t)
         \/ \E outcome \in DisputeResolution : ResolveDispute(t, outcome)
         \/ settle_dispute_bond(t)
         \/ try_settle_verified_task(t)
    \/ Commit \/ CommitFails
    \/ SweepExpire \/ SweepCancel \/ SweepResolve \/ SweepFinalize
    \/ SweepUnclosed \/ SweepSplit \/ SweepUnrefunded \/ SweepOverdue
    \/ JobPersist \/ JobPersistFails \/ refund_closed_task_escrow \/ RefundOverdue \/ GiveUp
    \/ TickClock \/ CrashHub

\* What is scheduled.  The sweep runs for ever, handlers run to their end, the node answers
\* in the end, and what is sent is mined; how often is not assumed.
SweepRefunds == refund_closed_task_escrow \/ RefundOverdue
SomeDisbursementMined == \E d \in Deposit : ConfirmDisbursement(d)
SomeTaskSettled == \E t \in DOMAIN board.task : try_settle_verified_task(t)
SomePayoutMined == \E t \in DOMAIN board.task : \E a \in scene.agents : ConfirmPayout(t, a)

TasksSpec == TasksInit /\ [][TasksNext]_taskVars

----------------------------------------------------------------------------
(* Properties.                                                             *)

Boards == {board, stored}

\* Type invariant.  A claimed task has a claimant and a deadline or is full, a disputed one
\* names its challenger, and only a closed one has a reason.
TasksTypeOK ==
    /\ now \in 0..MaxClock
    /\ \A b \in Boards : \A t \in DOMAIN b.task :
         LET task == b.task[t] IN
         /\ task.kind \in TaskKind /\ task.status \in TaskStatus /\ task.reason \in CloseReason
         /\ (task.reason # "None") <=> (task.status = "Closed")
         /\ task.status = "Claimed" =>
              IF task.kind = "consensus"
                THEN Cardinality(DOMAIN task.part) = NumAssignees /\ task.submission_deadline # Never
                ELSE task.claimant \in Agent /\ task.claim_deadline # Never
         /\ task.status = "Disputed" => task.dispute.challenger \in Agent \ {task.claimant}
    /\ \A b \in Boards : \A d \in DOMAIN b.deposit :
         /\ b.deposit[d].purpose \in EscrowPurpose /\ b.deposit[d].status \in EscrowStatus
         /\ b.deposit[d].status \in {"Reserved", "Consumed"} <=> b.deposit[d].to = Nobody
    /\ \A d \in Deposit : held[d] \in {0, Bounty, Bond}

\* One payment funds one task: no two tasks, in memory or in the store, name the same
\* deposit, whatever confirmations, crashes and restarts come between (confirm_task_escrow
\* and HubStore::save_task_and_deposit), as long as no commit failed.
OneTaskPerDeposit ==
    lost = 0 =>
      \A b \in Boards : \A s, t \in DOMAIN b.task :
        s # t /\ b.task[s].escrow = b.task[t].escrow => b.task[s].escrow = Nobody

\* Boot reconciliation has nothing to report: every deposit the store calls consumed is
\* named by a task or a dispute in the store (hub/src/reconcile.rs).
ReconcileClean == check_orphaned_consumed_deposits(stored) = {}

\* An escrow-funded task that can still be worked on, judged or paid has its bounty at its
\* address, in memory and in the board a restart would bring back: nothing is refunded on
\* the strength of a close the store never got, as long as no commit failed.
LiveTaskBacked ==
    lost = 0 =>
      \A b \in Boards : \A t \in DOMAIN b.task :
        /\ b.task[t].escrow # Nobody
        /\ b.task[t].status \notin {"Submitted", "Paid", "Closed"}
        => held[b.task[t].escrow] >= Bounty

\* Once a contest's answers have been shown to anybody, no answer joins them and the
\* poster's money does not go back unpaid: across any restart the contest stays closed to
\* answers and pays, unless the operator cancels it (close_task stages and saves first).
ContestSealed ==
    \A t \in DOMAIN read : \A b \in Boards :
      /\ t \in DOMAIN b.task
      /\ DOMAIN b.task[t].part = read[t]
      /\ \/ b.task[t].status \in {"AwaitingPick", "Verified", "Submitted", "Paid"}
         \/ b.task[t].reason = "CancelledByOperator"

\* What a consensus task pays: never more than the bounty, and only the answer of more
\* than half of all assignees, no-shows counted against it (majority_answer).
MajorityPaid ==
    \A b \in Boards : \A t \in DOMAIN b.task :
      LET part == b.task[t].part
          winners == {a \in DOMAIN part : part[a].share # Never}
      IN  b.task[t].kind = "consensus" /\ winners # {} =>
            /\ 2 * Cardinality(winners) > Cardinality(DOMAIN part)
            /\ \A a, c \in winners : part[a].answer = part[c].answer /\ part[a].answer # Nobody
            /\ SumSet({0} \cup {part[a].share * Cardinality(winners) : a \in winners}) <= Bounty

\* Penalties a board's tasks record: wrong outputs, losers of a vote, losers of a dispute.
PenaltiesRecorded(b) ==
    MapThenSumSet(LAMBDA t :
        LET task == b.task[t] IN
          task.failed_attempts
          + (IF task.kind = "consensus" /\ DOMAIN allocated_payouts(task) # {}
               THEN Cardinality(DOMAIN task.part \ DOMAIN allocated_payouts(task)) ELSE 0)
          + (IF task.dispute.resolution # Nobody THEN 1 ELSE 0),
      DOMAIN b.task)

\* A penalty is never lost while the task that records it survives: the store's reputations
\* carry at least the failures its tasks record, after any crash, as long as no commit
\* failed (save_task_and_reputation, save_task_and_reputation_batch).
PenaltiesKept ==
    lost = 0 => MapThenSumSet(LAMBDA a : stored.rep[a].failed, Agent) >= PenaltiesRecorded(stored)

\* Completed tasks and earnings are exactly what was confirmed on chain: one completed task
\* per judged payment, none for a split share, and every payment and forfeited bond counted
\* in the earnings once, in memory and in the store.
CreditsMatchPayments ==
    \A b \in Boards : \A a \in Agent :
      LET paid == {t \in DOMAIN b.task : a \in paid_payouts(b.task[t])}
          split == {t \in paid : b.task[t].kind = "contest" /\ b.task[t].picked = Nobody}
          bonds == {d \in DOMAIN b.deposit : /\ b.deposit[d].forfeit /\ b.deposit[d].to = a
                                             /\ b.deposit[d].status = "Refunded"}
      IN  /\ b.rep[a].completed = NewRep(a).completed + Cardinality(paid \ split)
          /\ b.rep[a].earned = MapThenSumSet(LAMBDA t : allocated_payouts(b.task[t])[a], paid)
                                 + Bond * Cardinality(bonds)

\* A bond goes to whoever the ruling says, and back to its challenger only when no dispute
\* was ever attached to it (settle_dispute_bond, confirm_dispute_escrow).
BondFollowsRuling ==
    \A s \in sent : board.deposit[s.deposit].purpose = "bond" =>
      LET task == board.task[board.deposit[s.deposit].target]
      IN  IF task.dispute.bond = s.deposit /\ lost = 0
            THEN task.dispute.resolution # Nobody /\ s.to = DisputeWinner(task)
            ELSE s.to \in Agent

\* Every durable deposit for a contest or a consensus task is released in the end: refunded,
\* or its task paid out of it.  Nodes fail and the hub crashes on the way.
EscrowReleased ==
    \A d \in Deposit : []<>(
        \/ ~(d \in DOMAIN stored.deposit /\ stored.deposit[d].purpose \in {"contest", "consensus"})
        \/ d \in DOMAIN stored.deposit /\ stored.deposit[d].status = "Refunded"
        \/ \E t \in DOMAIN stored.task : stored.task[t].escrow = d /\ stored.task[t].status = "Paid")

\* Reputations are what happened: every payment is credited once, and no penalty a task
\* records is lost (mark_recipient_paid, save_task_and_reputation_batch).
ReputationsExact == CreditsMatchPayments /\ PenaltiesKept

\* Tasks pay what was decided: the majority of a vote, and the winner of a dispute.
PaidAsRuled == TasksTypeOK /\ MajorityPaid /\ BondFollowsRuling
=============================================================================
