-------------------------- MODULE SettlementProofs --------------------------
(***************************************************************************)
(* What is proved of task settlement: that SettlementInv's IInv is         *)
(* inductive, action by action, and what follows from it.                  *)
(***************************************************************************)
EXTENDS SettlementInv, TLAPS

(* Steps that only move one process: the board, the store and the chain     *)
(* stay as they are.                                                        *)

LEMMA StepFacts ==
  ASSUME TypeOK, NEW p \in Proc, NEW at \in Pc, NEW j \in Job, Step(p, at, j)
  PROVE  /\ pc' \in [Proc -> Pc] /\ job' \in [Proc -> Job]
         /\ pc'[p] = at /\ job'[p] = j
         /\ \A q \in Proc : q # p => pc'[q] = pc[q] /\ job'[q] = job[q]
BY Zenon DEF TypeOK, Step

LEMMA SweepIsProc == Sweep \in Proc
BY Zenon DEF Proc

\* The two ways a step may newly hold a leg's guard.
LEMMA ExclusiveStep ==
  ASSUME TypeOK, Exclusive, NEW p \in Proc, NEW at \in Pc, NEW j \in Job, Step(p, at, j),
         \A l \in Leg : Sending(at, j, l) =>
            Sending(pc[p], job[p], l) \/ ~PayoutGuardHeld(l),
         p = Sweep /\ at = "record_paid" => ~PayoutGuardHeld(j.leg)
  PROVE  Exclusive'
<1> SUFFICES ASSUME NEW q \in Proc, NEW l \in Leg, Sending(pc'[q], job'[q], l)
             PROVE  /\ \A r \in Proc : Sending(pc'[r], job'[r], l) => r = q
                    /\ ~(pc'[Sweep] = "record_paid" /\ job'[Sweep].leg = l)
  BY Zenon DEF Exclusive, leg
<1>0. /\ pc'[p] = at /\ job'[p] = j
      /\ \A r \in Proc : r # p => pc'[r] = pc[r] /\ job'[r] = job[r]
  BY StepFacts, Zenon
<1>1. \A r \in Proc : Sending(pc[r], job[r], l) => PayoutGuardHeld(l)
  BY Zenon DEF Sending, PayoutGuardHeld
<1>2. ASSUME NEW r \in Proc, Sending(pc'[r], job'[r], l) PROVE r = q
  BY <1>0, <1>1, <1>2, Zenon DEF Exclusive
<1>3. ASSUME pc'[Sweep] = "record_paid", job'[Sweep].leg = l PROVE FALSE
  <2>1. CASE p = Sweep
    <3>1. q # p
      BY <1>0, <1>3, <2>1, Zenon DEF Sending, Settling
    <3> QED
      BY <1>0, <1>1, <1>3, <2>1, <3>1, Zenon
  <2>2. CASE p # Sweep
    <3>1. pc[Sweep] = "record_paid" /\ job[Sweep].leg = l
      BY <1>0, <1>3, <2>2, SweepIsProc, Zenon
    <3>2. PayoutGuardHeld(l)
      BY <3>1, SweepIsProc, Zenon DEF PayoutGuardHeld
    <3> QED
      BY <1>0, <3>1, <3>2, SweepIsProc, Zenon DEF Exclusive, leg
  <2> QED BY <2>1, <2>2, Zenon
<1> QED BY <1>2, <1>3, Zenon

LEMMA LocalStep ==
  ASSUME IInv, NEW p \in Proc, NEW at \in Pc, NEW j \in Job, Step(p, at, j),
         UNCHANGED <<board, disk, crashes, wire, chain>>,
         nextTx' \in 1..(MaxTx + 1),
         LocalOK(board, disk, mined, p, at, j),
         \A l \in Leg : Sending(at, j, l) =>
            Sending(pc[p], job[p], l) \/ ~PayoutGuardHeld(l),
         p = Sweep /\ at = "record_paid" => ~PayoutGuardHeld(j.leg)
  PROVE  IInv'
<1>0. /\ pc'[p] = at /\ job'[p] = j
      /\ \A q \in Proc : q # p => pc'[q] = pc[q] /\ job'[q] = job[q]
      /\ pc' \in [Proc -> Pc] /\ job' \in [Proc -> Job]
  BY StepFacts, Zenon DEF IInv
<1>1. TypeOK'
  BY <1>0, Zenon DEF IInv, TypeOK, chain
<1>2. TxsOK' /\ ChainOK' /\ DiskAgrees'
  BY Zenon DEF IInv, TxsOK, ChainOK, DiskAgrees, Outstanding, chain
<1>3. EarnedOnceAndOnChain' /\ AttemptsDurable' /\ SubmittedIsTracked'
  BY Zenon DEF IInv, EarnedOnceAndOnChain, AttemptsDurable, SubmittedIsTracked, chain
<1>4. Tracked'
  BY Zenon DEF IInv, Tracked, Outstanding, chain
<1>5. Exclusive'
  BY ExclusiveStep, Zenon DEF IInv
<1>6. AllLocalOK'
  BY <1>0, Zenon DEF IInv, AllLocalOK, chain
<1> QED
  BY <1>1, <1>2, <1>3, <1>4, <1>5, <1>6, Zenon DEF IInv

\* What the invariant says of one process.
LEMMA ProcessFacts ==
  ASSUME IInv, NEW p \in Proc
  PROVE  /\ pc[p] \in Pc /\ job[p] \in Job
         /\ JobOK(p, pc[p], job[p]) /\ KnowsOK(disk, mined, pc[p], job[p])
         /\ SendOK(board, disk, pc[p], job[p]) /\ ResendOK(board, disk, pc[p], job[p])
BY Zenon DEF IInv, TypeOK, AllLocalOK, LocalOK

LEMMA IdleFacts ==
  ASSUME NEW b, NEW d, NEW m, NEW p
  PROVE  /\ IdleJob \in Job
         /\ LocalOK(b, d, m, p, "idle", IdleJob)
BY Zenon DEF IdleJob, Job, LocalOK, JobOK, KnowsOK, SendOK, ResendOK, AttemptsOK, NoAttempts,
       Attempts, Sending, Settling, Written, Resolving

\* The locals of a process between two steps of its own, spelt out.
LEMMA IdleExcept3 ==
  ASSUME NEW j, NEW t, NEW todo, NEW batch,
         j = [IdleJob EXCEPT !.task = t, !.todo = todo, !.batch = batch]
  PROVE  j =
              [mode |-> "settle", task |-> t, todo |-> todo, legs |-> {},
               rec |-> NoAttempts, saved |-> {}, view |-> {},
               batch |-> batch, leg |-> None, holds |-> FALSE]
BY Zenon DEF IdleJob

LEMMA IdleExcept2 ==
  ASSUME NEW j, NEW t, NEW todo,
         j = [IdleJob EXCEPT !.task = t, !.todo = todo]
  PROVE  j =
              [mode |-> "settle", task |-> t, todo |-> todo, legs |-> {},
               rec |-> NoAttempts, saved |-> {}, view |-> {},
               batch |-> NoAttempts, leg |-> None, holds |-> FALSE]
BY Zenon DEF IdleJob

LEMMA IdleExcept1 ==
  ASSUME NEW j, NEW batch,
         j = [IdleJob EXCEPT !.batch = batch]
  PROVE  j =
              [mode |-> "settle", task |-> None, todo |-> {}, legs |-> {},
               rec |-> NoAttempts, saved |-> {}, view |-> {},
               batch |-> batch, leg |-> None, holds |-> FALSE]
BY Zenon DEF IdleJob

\* A process between two sends, or between two attempts of the sweep's batch.
LEMMA BetweenFacts ==
  ASSUME NEW b, NEW d, NEW m, NEW p, NEW at \in {"settle", "sweep"},
         NEW t \in Task \cup {None}, NEW todo \in SUBSET Leg, NEW batch \in Attempts,
         AttemptsOK(batch),
         at = "settle" => t \in Task /\ todo \subseteq Legs(t),
         at = "sweep" => p = Sweep /\ todo = {},
         NEW j, j = [mode |-> "settle", task |-> t, todo |-> todo, legs |-> {},
                     rec |-> NoAttempts, saved |-> {}, view |-> {},
                     batch |-> batch, leg |-> None, holds |-> FALSE]
  PROVE  /\ at \in Pc /\ j \in Job
         /\ LocalOK(b, d, m, p, at, j)
         /\ \A l \in Leg : ~Sending(at, j, l)
<1>a. NoAttempts \in Attempts /\ AttemptsOK(NoAttempts)
  BY Zenon DEF NoAttempts, Attempts, AttemptsOK
<1>b. at \in Pc
  BY Zenon DEF Pc, Resolving
<1>2. at \in Pc /\ j \in Job
  BY <1>a, <1>b, Zenon DEF Job
<1>3. JobOK(p, at, j)
  <2>1. AttemptsOK(j.rec) /\ AttemptsOK(j.batch)
    BY <1>a, Zenon
  <2> QED
    BY <2>1, Zenon DEF JobOK, Settling, Written, Resolving
<1>4. KnowsOK(d, m, at, j) /\ SendOK(b, d, at, j) /\ ResendOK(b, d, at, j)
      /\ \A l \in Leg : ~Sending(at, j, l)
  BY Zenon DEF KnowsOK, SendOK, ResendOK, Sending, Settling, Written
<1> QED
  BY <1>2, <1>3, <1>4, Zenon DEF LocalOK

LEMMA SweepReady ==
  ASSUME NEW b, NEW d, NEW m, NEW batch \in Attempts, AttemptsOK(batch)
  PROVE  /\ "sweep" \in Pc /\ [IdleJob EXCEPT !.batch = batch] \in Job
         /\ LocalOK(b, d, m, Sweep, "sweep", [IdleJob EXCEPT !.batch = batch])
         /\ \A l \in Leg : ~Sending("sweep", [IdleJob EXCEPT !.batch = batch], l)
<1> DEFINE j == [IdleJob EXCEPT !.batch = batch]
<1>1. j = [mode |-> "settle", task |-> None, todo |-> {}, legs |-> {},
           rec |-> NoAttempts, saved |-> {}, view |-> {},
           batch |-> batch, leg |-> None, holds |-> FALSE]
  BY IdleExcept1, Zenon
<1> HIDE DEF j
<1>2. /\ "sweep" \in Pc /\ j \in Job
      /\ LocalOK(b, d, m, Sweep, "sweep", j)
      /\ \A l \in Leg : ~Sending("sweep", j, l)
  <2>1. {} \in SUBSET Leg /\ None \in Task \cup {None} OBVIOUS
  <2> QED BY <1>1, <2>1, BetweenFacts, Zenon
<1> QED BY <1>2, Zenon DEF j

LEMMA BoardFacts ==
  ASSUME TypeOK
  PROVE  /\ board \in TaskBoard /\ board.attempt \in Attempts /\ board.paid \subseteq Leg
         /\ board.status \in [Task -> TaskStatus] /\ board.earned \in [Leg -> Nat]
         /\ disk \in TaskBoard /\ disk.attempt \in Attempts /\ disk.paid \subseteq Leg
         /\ disk.status \in [Task -> TaskStatus] /\ disk.earned \in [Leg -> Nat]
         /\ nextTx \in 1..(MaxTx + 1)
BY Zenon DEF TypeOK, TaskBoard

LEMMA TrySettleVerifiedTaskPreserves ==
  ASSUME IInv, NEW p \in Proc, NEW t \in Task, TrySettleVerifiedTask(p, t)
  PROVE  IInv'
<1> DEFINE j == [IdleJob EXCEPT !.task = t, !.todo = UnsubmittedPayouts(t)]
<1>0. TypeOK BY Zenon DEF IInv
<1>1. UnsubmittedPayouts(t) \in SUBSET Legs(t)
  BY Zenon DEF UnsubmittedPayouts, PendingPayouts, OwedPayouts, Legs
<1>2. j = [mode |-> "settle", task |-> t, todo |-> UnsubmittedPayouts(t), legs |-> {},
           rec |-> NoAttempts, saved |-> {}, view |-> {},
           batch |-> NoAttempts, leg |-> None, holds |-> FALSE]
  BY IdleExcept2, Zenon
<1>3. NoAttempts \in Attempts /\ AttemptsOK(NoAttempts)
  BY Zenon DEF NoAttempts, Attempts, AttemptsOK
<1>4. UnsubmittedPayouts(t) \in SUBSET Leg
  BY <1>1, Zenon DEF Legs
<1> HIDE DEF j
<1>5. /\ "settle" \in Pc /\ j \in Job
      /\ LocalOK(board, disk, mined, p, "settle", j)
      /\ \A l \in Leg : ~Sending("settle", j, l)
  BY <1>1, <1>2, <1>3, <1>4, BetweenFacts, Zenon
<1>6. Step(p, "settle", j) /\ UNCHANGED <<board, disk, nextTx, crashes, wire, chain>>
  BY Zenon DEF TrySettleVerifiedTask, j
<1> QED
  BY <1>0, <1>5, <1>6, LocalStep, BoardFacts, Zenon

\* Where a process is left when it is through with one send.
LEMMA ResumeFacts ==
  ASSUME IInv, NEW p \in Proc, pc[p] \in Settling, Resume(p)
  PROVE  \E at \in Pc, j \in Job :
            /\ Step(p, at, j) /\ at \in {"settle", "sweep"}
            /\ LocalOK(board, disk, mined, p, at, j)
            /\ \A l \in Leg : ~Sending(at, j, l)
<1> DEFINE at == IF job[p].mode = "resend" THEN "sweep" ELSE "settle"
           j == [IdleJob EXCEPT !.task = job[p].task, !.todo = job[p].todo,
                                !.batch = job[p].batch]
<1>1. job[p] \in Job /\ JobOK(p, pc[p], job[p])
  BY ProcessFacts, Zenon
<1>2. /\ job[p].task \in Task \cup {None} /\ job[p].todo \in SUBSET Leg
      /\ job[p].batch \in Attempts /\ AttemptsOK(job[p].batch)
  BY <1>1, Zenon DEF Job, JobOK
<1>3. /\ at = "settle" => job[p].task \in Task /\ job[p].todo \subseteq Legs(job[p].task)
      /\ at = "sweep" => p = Sweep /\ job[p].todo = {}
      /\ at \in {"settle", "sweep"}
  BY <1>1, Zenon DEF JobOK
<1>4. Step(p, at, j)
  BY Zenon DEF Resume
<1>5. j = [mode |-> "settle", task |-> job[p].task, todo |-> job[p].todo, legs |-> {},
           rec |-> NoAttempts, saved |-> {}, view |-> {},
           batch |-> job[p].batch, leg |-> None, holds |-> FALSE]
  BY IdleExcept3, Zenon
<1> HIDE DEF j, at
<1>6. /\ at \in Pc /\ j \in Job
      /\ LocalOK(board, disk, mined, p, at, j)
      /\ \A l \in Leg : ~Sending(at, j, l)
  BY <1>2, <1>3, <1>5, BetweenFacts, ZenonT(40)
<1> QED
  BY <1>3, <1>4, <1>6, Zenon

LEMMA ResumePreserves ==
  ASSUME IInv, NEW p \in Proc, pc[p] \in Settling, Resume(p),
         UNCHANGED <<board, disk, nextTx, crashes, wire, chain>>
  PROVE  IInv'
<1>1. PICK at \in Pc, j \in Job :
            /\ Step(p, at, j) /\ at \in {"settle", "sweep"}
            /\ LocalOK(board, disk, mined, p, at, j)
            /\ \A l \in Leg : ~Sending(at, j, l)
  BY ResumeFacts, Zenon
<1>2. nextTx' \in 1..(MaxTx + 1)
  BY BoardFacts, Zenon DEF IInv
<1> QED
  BY <1>1, <1>2, LocalStep, Zenon

LEMMA IdlePreserves ==
  ASSUME IInv, NEW p \in Proc, Step(p, "idle", IdleJob),
         UNCHANGED <<board, disk, nextTx, crashes, wire, chain>>
  PROVE  IInv'
<1>1. \A l \in Leg : ~Sending("idle", IdleJob, l)
  BY Zenon DEF Sending, Settling
<1>2. "idle" \in Pc BY Zenon DEF Pc
<1>3. nextTx' \in 1..(MaxTx + 1)
  BY BoardFacts, Zenon DEF IInv
<1> QED
  BY <1>1, <1>2, <1>3, IdleFacts, LocalStep, Zenon

LEMMA JobFacts ==
  ASSUME NEW p, p \in Proc, IInv
  PROVE  /\ job[p] = [mode |-> job[p].mode, task |-> job[p].task, todo |-> job[p].todo,
                      legs |-> job[p].legs, rec |-> job[p].rec, saved |-> job[p].saved,
                      view |-> job[p].view, batch |-> job[p].batch, leg |-> job[p].leg,
                      holds |-> job[p].holds]
         /\ job[p].mode \in {"settle", "resend"} /\ job[p].task \in Task \cup {None}
         /\ job[p].todo \subseteq Leg /\ job[p].legs \subseteq Leg
         /\ job[p].rec \in Attempts /\ job[p].saved \subseteq Leg
         /\ job[p].view \subseteq Coin /\ job[p].batch \in Attempts
         /\ job[p].leg \in Leg \cup {None} /\ job[p].holds \in BOOLEAN
BY ProcessFacts, Zenon DEF Job

LEMMA SettleOnePayoutPreserves ==
  ASSUME IInv, NEW p \in Proc, SettleOnePayout(p)
  PROVE  IInv'
<1>0. TypeOK BY Zenon DEF IInv
<1>1. PICK l \in job[p].todo :
         LET rest == [job[p] EXCEPT !.todo = @ \ {l}]
         IN IF PayoutGuardHeld(l) \/ PaidOrInFlight(l)
            THEN Step(p, "settle", rest)
            ELSE Step(p, "payout_lock", [rest EXCEPT !.legs = {l}])
  BY Zenon DEF SettleOnePayout
<1>2. /\ pc[p] = "settle" /\ job[p].task \notin Escrowed
      /\ UNCHANGED <<board, disk, nextTx, crashes, wire, chain>>
  BY Zenon DEF SettleOnePayout
<1>3. /\ JobOK(p, "settle", job[p]) /\ job[p] \in Job /\ nextTx' \in 1..(MaxTx + 1)
  BY <1>0, <1>2, ProcessFacts, BoardFacts, Zenon
<1>4. /\ job[p].mode = "settle" /\ job[p].task \in Task /\ job[p].todo \subseteq Legs(job[p].task)
      /\ job[p].legs \subseteq Legs(job[p].task) /\ job[p].saved = {}
      /\ AttemptsOK(job[p].rec) /\ AttemptsOK(job[p].batch) /\ l \in Leg
      /\ l \in Legs(job[p].task)
  BY <1>1, <1>3, JobFacts, Zenon DEF JobOK, Written
<1>5. CASE PayoutGuardHeld(l) \/ PaidOrInFlight(l)
  <2> DEFINE j == [job[p] EXCEPT !.todo = @ \ {l}]
  <2>1. Step(p, "settle", j) BY <1>1, <1>5, Zenon
  <2>2. /\ j \in Job /\ j.mode = "settle" /\ j.task = job[p].task /\ j.todo = job[p].todo \ {l}
        /\ j.legs = job[p].legs /\ j.rec = job[p].rec /\ j.batch = job[p].batch
        /\ j.saved = {}
    BY <1>3, <1>4, Zenon DEF Job
  <2> HIDE DEF j
  <2>3. JobOK(p, "settle", j)
    BY <1>4, <2>2, Zenon DEF JobOK, Written, Settling, Resolving
  <2>4. /\ KnowsOK(disk, mined, "settle", j) /\ SendOK(board, disk, "settle", j)
        /\ ResendOK(board, disk, "settle", j)
        /\ \A k \in Leg : ~Sending("settle", j, k)
    BY Zenon DEF KnowsOK, SendOK, ResendOK, Sending, Settling, Written
  <2>5. "settle" \in Pc BY Zenon DEF Pc
  <2> QED
    BY <1>2, <1>3, <2>1, <2>2, <2>3, <2>4, <2>5, LocalStep, Zenon DEF LocalOK
<1>6. CASE ~(PayoutGuardHeld(l) \/ PaidOrInFlight(l))
  <2> DEFINE j == [[job[p] EXCEPT !.todo = @ \ {l}] EXCEPT !.legs = {l}]
  <2>1. Step(p, "payout_lock", j) BY <1>1, <1>6, Zenon
  <2>2. /\ j \in Job /\ j.mode = "settle" /\ j.task = job[p].task /\ j.todo = job[p].todo \ {l}
        /\ j.legs = {l} /\ j.rec = job[p].rec /\ j.batch = job[p].batch
        /\ j.saved = {}
    BY <1>3, <1>4, Zenon DEF Job
  <2> HIDE DEF j
  <2>3. JobOK(p, "payout_lock", j)
    BY <1>4, <2>2, Zenon DEF JobOK, Written, Settling, Resolving
  <2>4. /\ KnowsOK(disk, mined, "payout_lock", j) /\ ResendOK(board, disk, "payout_lock", j)
        /\ \A k \in Leg : Sending("payout_lock", j, k) => ~PayoutGuardHeld(k)
    BY <1>6, <2>2, Zenon DEF KnowsOK, ResendOK, Sending, Written
  <2>5. SendOK(board, disk, "payout_lock", j)
    BY <1>6, <2>2, Zenon DEF SendOK, Sending, PaidOrInFlight
  <2>6. "payout_lock" \in Pc BY Zenon DEF Pc
  <2> QED
    BY <1>2, <1>3, <2>1, <2>2, <2>3, <2>4, <2>5, <2>6, LocalStep, Zenon DEF LocalOK
<1> QED BY <1>5, <1>6, Zenon

LEMMA SubmitBountyPayoutPreserves ==
  ASSUME IInv, NEW p \in Proc, SubmitBountyPayout(p)
  PROVE  IInv'
<1>0. TypeOK BY Zenon DEF IInv
<1>2. /\ pc[p] = "payout_lock" /\ Step(p, "fetch", job[p])
      /\ UNCHANGED <<board, disk, nextTx, crashes, wire, chain>>
  BY Zenon DEF SubmitBountyPayout
<1>3. /\ JobOK(p, "payout_lock", job[p]) /\ SendOK(board, disk, "payout_lock", job[p])
      /\ job[p] \in Job /\ nextTx' \in 1..(MaxTx + 1)
  BY <1>0, <1>2, ProcessFacts, BoardFacts, Zenon
<1>4. JobOK(p, "fetch", job[p])
  BY <1>3, Zenon DEF JobOK, Written, Settling, Resolving
<1>5. /\ KnowsOK(disk, mined, "fetch", job[p]) /\ ResendOK(board, disk, "fetch", job[p])
      /\ \A l \in Leg : Sending("fetch", job[p], l) => Sending(pc[p], job[p], l)
  BY <1>2, Zenon DEF KnowsOK, ResendOK, Sending, Written, Settling
<1>6. SendOK(board, disk, "fetch", job[p])
  BY <1>3, Zenon DEF SendOK, Sending, Settling
<1>7. "fetch" \in Pc BY Zenon DEF Pc, Settling
<1> QED
  BY <1>2, <1>3, <1>4, <1>5, <1>6, <1>7, LocalStep, Zenon DEF LocalOK

LEMMA SettleEscrowFundedTaskPreserves ==
  ASSUME IInv, NEW p \in Proc, SettleEscrowFundedTask(p)
  PROVE  IInv'
<1> DEFINE t == job[p].task
           j == [job[p] EXCEPT !.todo = {}, !.legs = OwedPayouts(t)]
<1>0. TypeOK BY Zenon DEF IInv
<1>2. /\ pc[p] = "settle" /\ t \in Escrowed
      /\ Step(p, "idle", IdleJob) \/ Step(p, "fetch", j)
      /\ UNCHANGED <<board, disk, nextTx, crashes, wire, chain>>
  BY Zenon DEF SettleEscrowFundedTask
<1>3. CASE Step(p, "idle", IdleJob)
  BY <1>2, <1>3, IdlePreserves, Zenon
<1>4. CASE Step(p, "fetch", j)
  <2>1. /\ JobOK(p, "settle", job[p]) /\ job[p] \in Job /\ nextTx' \in 1..(MaxTx + 1)
    BY <1>0, <1>2, ProcessFacts, BoardFacts, Zenon
  <2>2. OwedPayouts(t) \subseteq Legs(t) /\ OwedPayouts(t) \subseteq Leg
    BY Zenon DEF OwedPayouts, Legs
  <2>3. /\ job[p].mode = "settle" /\ job[p].task \in Task /\ job[p].saved = {}
        /\ AttemptsOK(job[p].rec) /\ AttemptsOK(job[p].batch)
    BY <2>1, JobFacts, Zenon DEF JobOK, Written
  <2>4. /\ j \in Job /\ j.mode = "settle" /\ j.task = job[p].task /\ j.todo = {}
        /\ j.legs = OwedPayouts(t) /\ j.rec = job[p].rec /\ j.batch = job[p].batch
        /\ j.saved = {}
    BY <2>1, <2>2, <2>3, Zenon DEF Job
  <2>5. Step(p, "fetch", j) /\ j.task \in Escrowed /\ j.legs \subseteq Legs(j.task)
    BY <1>2, <1>4, <2>2, <2>4, Zenon
  <2> HIDE DEF j, t
  <2>6. JobOK(p, "fetch", j)
    BY <2>3, <2>4, <2>5, Zenon DEF JobOK, Written, Settling, Resolving
  <2>7. /\ KnowsOK(disk, mined, "fetch", j) /\ ResendOK(board, disk, "fetch", j)
        /\ SendOK(board, disk, "fetch", j)
        /\ \A l \in Leg : ~Sending("fetch", j, l)
    BY <2>5, Zenon DEF KnowsOK, ResendOK, SendOK, Sending, Written
  <2>8. "fetch" \in Pc BY Zenon DEF Pc, Settling
  <2> QED
    BY <1>2, <2>1, <2>4, <2>5, <2>6, <2>7, <2>8, LocalStep, Zenon DEF LocalOK
<1> QED BY <1>2, <1>3, <1>4, Zenon

\* The node shows coins only, and at an escrow's address only its deposit.
LEMMA UnspentFacts ==
  ASSUME TypeOK, NEW t \in Task
  PROVE  /\ Unspent(t) \subseteq Coin
         /\ t \in Escrowed => Unspent(t) \subseteq Deposit[t]
<1>1. \A x \in mined : ChangeOf[x.id] \in Coin
  BY ConstantsAssumption, Zenon DEF TypeOK, Tx
<1> QED
  BY <1>1, ConstantsAssumption DEF Unspent

LEMMA FetchUtxosPreserves ==
  ASSUME IInv, NEW p \in Proc, FetchUtxos(p)
  PROVE  IInv'
<1> DEFINE view == {c \in Unspent(job[p].task) : ~Marked(c)}
           j == [job[p] EXCEPT !.view = view]
<1>0. TypeOK BY Zenon DEF IInv
<1>1. /\ pc[p] = "fetch" /\ Step(p, "build", j)
      /\ UNCHANGED <<board, disk, nextTx, crashes, wire, chain>>
  BY Zenon DEF FetchUtxos
<1>2. /\ JobOK(p, "fetch", job[p]) /\ SendOK(board, disk, "fetch", job[p])
      /\ job[p] \in Job /\ nextTx' \in 1..(MaxTx + 1)
  BY <1>0, <1>1, ProcessFacts, BoardFacts, Zenon
<1>3. /\ job[p].mode = "settle" /\ job[p].task \in Task /\ job[p].saved = {}
  BY <1>2, JobFacts, Zenon DEF JobOK, Written, Settling
<1>4. view \subseteq Coin /\ (job[p].task \in Escrowed => view \subseteq Deposit[job[p].task])
  BY <1>0, <1>3, UnspentFacts, Zenon
<1> HIDE DEF view
<1>5. /\ j \in Job /\ j.mode = "settle" /\ j.task = job[p].task /\ j.todo = job[p].todo
      /\ j.legs = job[p].legs /\ j.rec = job[p].rec /\ j.batch = job[p].batch
      /\ j.saved = {} /\ j.view = view
  BY <1>2, <1>3, <1>4, Zenon DEF Job
<1> HIDE DEF j
<1>6. JobOK(p, "build", j)
  BY <1>2, <1>4, <1>5, Zenon DEF JobOK, Written, Settling, Resolving
<1>7. /\ KnowsOK(disk, mined, "build", j) /\ ResendOK(board, disk, "build", j)
      /\ \A l \in Leg : Sending("build", j, l) => Sending(pc[p], job[p], l)
  BY <1>1, <1>3, <1>5, Zenon DEF KnowsOK, ResendOK, Sending, Written, Settling
<1>8. SendOK(board, disk, "build", j)
  BY <1>2, <1>3, <1>5, Zenon DEF SendOK, Sending, Settling
<1>9. "build" \in Pc BY Zenon DEF Pc, Settling
<1> QED
  BY <1>1, <1>2, <1>5, <1>6, <1>7, <1>8, <1>9, LocalStep, Zenon DEF LocalOK

LEMMA BuildPaymentPreserves ==
  ASSUME IInv, NEW p \in Proc, BuildPayment(p)
  PROVE  IInv'
<1>0. TypeOK BY Zenon DEF IInv
<1>1. PICK ins \in Affordable(p) :
        Step(p, "save", [job[p] EXCEPT !.view = {}, !.rec =
                [l \in Leg |-> IF l \in job[p].legs
                               THEN [tx |-> [id |-> nextTx, task |-> job[p].task,
                                             legs |-> job[p].legs, inputs |-> ins],
                                     submissions |-> Submissions(l) + 1]
                               ELSE None]])
  BY Zenon DEF BuildPayment
<1> DEFINE tx == [id |-> nextTx, task |-> job[p].task, legs |-> job[p].legs, inputs |-> ins]
           rec == [l \in Leg |-> IF l \in job[p].legs
                                 THEN [tx |-> tx, submissions |-> Submissions(l) + 1]
                                 ELSE None]
           j == [job[p] EXCEPT !.view = {}, !.rec = rec]
<1>2. /\ pc[p] = "build" /\ nextTx <= MaxTx /\ nextTx' = nextTx + 1 /\ Step(p, "save", j)
      /\ UNCHANGED <<board, disk, crashes, wire, chain>>
  BY <1>1, Zenon DEF BuildPayment
<1>3. /\ JobOK(p, "build", job[p]) /\ SendOK(board, disk, "build", job[p])
      /\ job[p] \in Job /\ nextTx \in 1..(MaxTx + 1)
  BY <1>0, <1>2, ProcessFacts, BoardFacts, Zenon
<1>4. /\ job[p].mode = "settle" /\ job[p].task \in Task /\ job[p].saved = {}
      /\ job[p].legs \subseteq Legs(job[p].task) /\ job[p].legs \subseteq Leg
      /\ job[p].task \notin Escrowed => \A k, l \in job[p].legs : k = l
      /\ job[p].task \in Escrowed => job[p].view \subseteq Deposit[job[p].task]
      /\ AttemptsOK(job[p].batch)
  BY <1>3, JobFacts, Zenon DEF JobOK, Written, Settling
<1>5. nextTx \in 1..MaxTx /\ nextTx' \in 1..(MaxTx + 1)
  BY <1>2, <1>3, ConstantsAssumption
<1>6. ins \subseteq job[p].view /\ ins \subseteq Coin /\ ins # {}
  BY ConstantsAssumption, Zenon DEF Affordable
<1>7. tx \in Tx /\ TxOK(tx)
  BY <1>4, <1>5, <1>6, Zenon DEF Tx, TxOK
<1>8. \A l \in Leg : Submissions(l) + 1 \in Nat
  BY <1>0, BoardFacts DEF Submissions, Attempts, PayoutAttempt
<1>a. tx.legs = job[p].legs /\ tx.task = job[p].task
  OBVIOUS
<1> HIDE DEF tx
<1>9. rec \in Attempts
  BY <1>7, <1>8, Zenon DEF Attempts, PayoutAttempt
<1>10. /\ \A l \in job[p].legs : rec[l] # None /\ rec[l].tx = tx
       /\ \A l \in Leg \ job[p].legs : rec[l] = None
  BY <1>4, <1>7, <1>8, NoneIsNoAttempt DEF PayoutAttempt
<1>11. AttemptsOK(rec)
  BY <1>7, <1>10, <1>a, Zenon DEF AttemptsOK
<1> HIDE DEF rec
<1>12. /\ j \in Job /\ j.mode = "settle" /\ j.task = job[p].task /\ j.todo = job[p].todo
       /\ j.legs = job[p].legs /\ j.rec = rec /\ j.batch = job[p].batch
       /\ j.saved = {}
  BY <1>3, <1>4, <1>9, Zenon DEF Job
<1> HIDE DEF j
<1>13. JobOK(p, "save", j)
  <2>1. \A l \in j.legs : /\ j.rec[l] # None /\ j.rec[l].tx.task = j.task
                           /\ \A k \in j.legs : j.rec[k].tx = j.rec[l].tx
    <3>1. \A l \in j.legs : j.rec[l] = rec[l] /\ rec[l].tx = tx /\ rec[l] # None
      BY <1>10, <1>12, Zenon
    <3>2. tx.task = j.task
      BY <1>12, <1>a, Zenon
    <3> QED BY <3>1, <3>2, Zenon
  <2>2. j.todo \subseteq Legs(j.task)
    BY <1>3, <1>12, Zenon DEF JobOK, Settling
  <2> QED
    BY <1>4, <1>11, <1>12, <2>1, <2>2, Zenon DEF JobOK, Written, Resolving
<1>14. /\ KnowsOK(disk, mined, "save", j) /\ ResendOK(board, disk, "save", j)
       /\ \A l \in Leg : Sending("save", j, l) => Sending(pc[p], job[p], l)
  BY <1>2, <1>4, <1>12, Zenon DEF KnowsOK, ResendOK, Sending, Settling
<1>15. SendOK(board, disk, "save", j)
  BY <1>3, <1>4, <1>12, Zenon DEF SendOK, Sending, Settling
<1>16. "save" \in Pc BY Zenon DEF Pc, Settling
<1> QED
  BY <1>2, <1>5, <1>12, <1>13, <1>14, <1>15, <1>16, LocalStep, Zenon DEF LocalOK

\* The sweep is through with one attempt.
LEMMA ReturnPreserves ==
  ASSUME IInv, pc[Sweep] \in Resolving \ {"sweep"}, Return,
         UNCHANGED <<board, disk, nextTx, crashes, wire, chain>>
  PROVE  IInv'
<1>1. /\ JobOK(Sweep, pc[Sweep], job[Sweep]) /\ job[Sweep] \in Job
      /\ nextTx' \in 1..(MaxTx + 1)
  BY ProcessFacts, BoardFacts, SweepIsProc, Zenon DEF IInv
<1>2. batchLeft \in Attempts /\ AttemptsOK(batchLeft)
  BY <1>1, Zenon DEF JobOK, Job, Attempts, batchLeft, AttemptsOK
<1>3. /\ "sweep" \in Pc /\ [IdleJob EXCEPT !.batch = batchLeft] \in Job
      /\ LocalOK(board, disk, mined, Sweep, "sweep", [IdleJob EXCEPT !.batch = batchLeft])
      /\ \A l \in Leg : ~Sending("sweep", [IdleJob EXCEPT !.batch = batchLeft], l)
  BY <1>2, SweepReady, Zenon
<1> QED
  BY <1>1, <1>3, LocalStep, SweepIsProc, Zenon DEF Return

LEMMA BeginPassPreserves ==
  ASSUME IInv, BeginPass
  PROVE  IInv'
<1>1. board.attempt \in Attempts /\ AttemptsOK(board.attempt) /\ nextTx' \in 1..(MaxTx + 1)
  BY BoardFacts, Zenon DEF IInv, TxsOK, BeginPass
<1>2. /\ "sweep" \in Pc /\ [IdleJob EXCEPT !.batch = board.attempt] \in Job
      /\ LocalOK(board, disk, mined, Sweep, "sweep", [IdleJob EXCEPT !.batch = board.attempt])
      /\ \A l \in Leg : ~Sending("sweep", [IdleJob EXCEPT !.batch = board.attempt], l)
  BY <1>1, SweepReady, Zenon
<1> QED
  BY <1>1, <1>2, LocalStep, SweepIsProc, Zenon DEF BeginPass

\* The sweep's locals while it resolves the attempt of one leg.
LEMMA ResolvingReady ==
  ASSUME NEW b, NEW d, NEW m, NEW at \in Resolving \ {"sweep"},
         NEW j \in Job, AttemptsOK(j.rec), AttemptsOK(j.batch), j.saved = {}, j.todo = {},
         j.leg \in Leg, j.batch[j.leg] # None, j.task = TaskOf[j.leg],
         (at = "source" /\ j.holds) \/ at \in {"confirm", "record_paid"}
            => j.batch[j.leg].tx \in m
  PROVE  /\ at \in Pc
         /\ LocalOK(b, d, m, Sweep, at, j)
         /\ \A l \in Leg : ~Sending(at, j, l)
<1>1. JobOK(Sweep, at, j)
  BY Zenon DEF JobOK, Resolving, Written, Settling
<1>2. /\ KnowsOK(d, m, at, j) /\ SendOK(b, d, at, j) /\ ResendOK(b, d, at, j)
      /\ \A l \in Leg : ~Sending(at, j, l)
  BY Zenon DEF KnowsOK, SendOK, ResendOK, Sending, Resolving, Written, Settling
<1> QED
  BY <1>1, <1>2, Zenon DEF LocalOK, Pc

LEMMA ResolvingFacts ==
  ASSUME IInv, pc[Sweep] \in Resolving
  PROVE  /\ job[Sweep] \in Job /\ AttemptsOK(job[Sweep].rec) /\ AttemptsOK(job[Sweep].batch)
         /\ job[Sweep].saved = {} /\ job[Sweep].todo = {} /\ nextTx \in 1..(MaxTx + 1)
         /\ pc[Sweep] # "sweep" => /\ leg \in Leg /\ attempt # None
                                   /\ job[Sweep].task = TaskOf[leg]
         /\ (pc[Sweep] = "source" /\ job[Sweep].holds) \/ pc[Sweep] \in {"confirm", "record_paid"}
              => attempt.tx \in mined
<1>1. /\ JobOK(Sweep, pc[Sweep], job[Sweep]) /\ KnowsOK(disk, mined, pc[Sweep], job[Sweep])
      /\ job[Sweep] \in Job /\ nextTx \in 1..(MaxTx + 1)
  BY ProcessFacts, BoardFacts, SweepIsProc, Zenon DEF IInv
<1>2. job[Sweep].saved = {}
  BY <1>1, Zenon DEF JobOK, Resolving, Written
<1> QED
  BY <1>1, <1>2, Zenon DEF JobOK, KnowsOK, leg, attempt

LEMMA NextAttemptPreserves ==
  ASSUME IInv, NextAttempt
  PROVE  IInv'
<1>1. PICK l \in Leg : /\ job[Sweep].batch[l] # None
                       /\ Step(Sweep, "recipient",
                               [job[Sweep] EXCEPT !.leg = l, !.task = TaskOf[l]])
  BY Zenon DEF NextAttempt
<1>2. /\ job[Sweep] \in Job /\ AttemptsOK(job[Sweep].rec) /\ AttemptsOK(job[Sweep].batch)
      /\ job[Sweep].saved = {} /\ job[Sweep].todo = {} /\ nextTx' \in 1..(MaxTx + 1)
  BY ResolvingFacts, Zenon DEF NextAttempt, Resolving
<1> DEFINE j == [job[Sweep] EXCEPT !.leg = l, !.task = TaskOf[l]]
<1>3. TaskOf[l] \in Task BY ConstantsAssumption, Zenon
<1>4. /\ j \in Job /\ j.rec = job[Sweep].rec /\ j.batch = job[Sweep].batch
      /\ j.saved = {} /\ j.todo = {} /\ j.leg = l /\ j.task = TaskOf[l]
  BY <1>2, <1>3, Zenon DEF Job
<1>5. Step(Sweep, "recipient", j) BY <1>1, Zenon
<1> HIDE DEF j
<1>6. "recipient" \in Resolving \ {"sweep"} BY Zenon DEF Resolving
<1>7. /\ LocalOK(board, disk, mined, Sweep, "recipient", j) /\ "recipient" \in Pc
      /\ \A k \in Leg : ~Sending("recipient", j, k)
  BY <1>1, <1>2, <1>4, <1>6, ResolvingReady, Zenon
<1> QED
  BY <1>2, <1>4, <1>5, <1>7, LocalStep, SweepIsProc, Zenon DEF NextAttempt

LEMMA AskRecipientPreserves ==
  ASSUME IInv, AskRecipient
  PROVE  IInv'
<1> DEFINE h == attempt.tx \in mined /\ <<attempt.tx, leg>> \notin spent
           j == [job[Sweep] EXCEPT !.holds = h]
<1>1. pc[Sweep] = "recipient" /\ Step(Sweep, "source", j)
      /\ UNCHANGED <<board, disk, nextTx, crashes, wire, chain>>
  BY Zenon DEF AskRecipient
<1>2. /\ job[Sweep] \in Job /\ AttemptsOK(job[Sweep].rec) /\ AttemptsOK(job[Sweep].batch)
      /\ job[Sweep].saved = {} /\ job[Sweep].todo = {} /\ nextTx' \in 1..(MaxTx + 1)
      /\ job[Sweep].leg \in Leg /\ job[Sweep].batch[job[Sweep].leg] # None
      /\ job[Sweep].task = TaskOf[job[Sweep].leg]
  BY <1>1, ResolvingFacts, Zenon DEF Resolving, leg, attempt
<1>3. h \in BOOLEAN /\ (h => job[Sweep].batch[job[Sweep].leg].tx \in mined)
  BY Zenon DEF attempt, leg
<1> HIDE DEF h
<1>4. /\ j \in Job /\ j.rec = job[Sweep].rec /\ j.batch = job[Sweep].batch /\ j.saved = {}
      /\ j.todo = {} /\ j.leg = job[Sweep].leg /\ j.task = job[Sweep].task /\ j.holds = h
  BY <1>2, <1>3, Zenon DEF Job
<1> HIDE DEF j
<1>5. "source" \in Resolving \ {"sweep"} BY Zenon DEF Resolving
<1>6. /\ LocalOK(board, disk, mined, Sweep, "source", j) /\ "source" \in Pc
      /\ \A k \in Leg : ~Sending("source", j, k)
  BY <1>2, <1>3, <1>4, <1>5, ResolvingReady, Zenon
<1> QED
  BY <1>1, <1>2, <1>4, <1>6, LocalStep, SweepIsProc, Zenon

\* The sweep goes on with the same attempt: a verdict was reached.
LEMMA VerdictPreserves ==
  ASSUME IInv, pc[Sweep] \in Resolving \ {"sweep"}, NEW at \in Resolving \ {"sweep", "source"},
         Step(Sweep, at, job[Sweep]), UNCHANGED <<board, disk, nextTx, crashes, wire, chain>>,
         at \in {"confirm", "record_paid"} => attempt.tx \in mined,
         at = "record_paid" => ~PayoutGuardHeld(leg)
  PROVE  IInv'
<1>1. /\ job[Sweep] \in Job /\ AttemptsOK(job[Sweep].rec) /\ AttemptsOK(job[Sweep].batch)
      /\ job[Sweep].saved = {} /\ job[Sweep].todo = {} /\ nextTx' \in 1..(MaxTx + 1)
      /\ job[Sweep].leg \in Leg /\ job[Sweep].batch[job[Sweep].leg] # None
      /\ job[Sweep].task = TaskOf[job[Sweep].leg]
  BY ResolvingFacts, Zenon DEF leg, attempt
<1>2. at \in {"confirm", "record_paid"} => job[Sweep].batch[job[Sweep].leg].tx \in mined
  BY Zenon DEF attempt, leg
<1>3. /\ LocalOK(board, disk, mined, Sweep, at, job[Sweep]) /\ at \in Pc
      /\ \A k \in Leg : ~Sending(at, job[Sweep], k)
  BY <1>1, <1>2, ResolvingReady, Zenon
<1>4. at = "record_paid" => ~PayoutGuardHeld(job[Sweep].leg)
  BY Zenon DEF leg
<1> QED
  BY <1>1, <1>3, <1>4, LocalStep, SweepIsProc, Zenon

LEMMA AskSourcePreserves ==
  ASSUME IInv, AskSource
  PROVE  IInv'
<1> DEFINE outcome == ResolveAgainst(job[Sweep].holds, attempt.tx.inputs, Unspent(TaskOf[leg]))
<1>1. /\ pc[Sweep] = "source" /\ UNCHANGED <<board, disk, nextTx, crashes, wire, chain>>
      /\ pc[Sweep] \in Resolving \ {"sweep"}
  BY Zenon DEF AskSource, Resolving
<1>2. outcome = "Confirmed" => job[Sweep].holds
  BY Zenon DEF ResolveAgainst
<1>3. CASE outcome = "Confirmed"
  <2>1. Step(Sweep, "confirm", job[Sweep])
    BY <1>3, Zenon DEF AskSource
  <2>2. "confirm" \in Resolving \ {"sweep", "source"} BY Zenon DEF Resolving
  <2>3. attempt.tx \in mined
    BY <1>1, <1>2, <1>3, ResolvingFacts, Zenon
  <2> QED
    BY <1>1, <2>1, <2>2, <2>3, VerdictPreserves, Zenon
<1>4. CASE outcome = "NeverLanded"
  <2>1. \/ Step(Sweep, "abandon", job[Sweep])
        \/ Step(Sweep, "resend", job[Sweep])
    BY <1>4, Zenon DEF AskSource
  <2>2. {"abandon", "resend"} \subseteq Resolving \ {"sweep", "source"} BY Zenon DEF Resolving
  <2> QED
    BY <1>1, <2>1, <2>2, VerdictPreserves, Zenon
<1>5. CASE outcome \notin {"Confirmed", "NeverLanded"}
  <2>1. Return BY <1>5, Zenon DEF AskSource
  <2> QED BY <1>1, <2>1, ReturnPreserves, Zenon
<1> QED BY <1>3, <1>4, <1>5, Zenon

LEMMA ConfirmPayoutPreserves ==
  ASSUME IInv, ConfirmPayout
  PROVE  IInv'
<1>1. /\ pc[Sweep] = "confirm" /\ UNCHANGED <<board, disk, nextTx, crashes, wire, chain>>
      /\ pc[Sweep] \in Resolving \ {"sweep"}
  BY Zenon DEF ConfirmPayout, Resolving
<1>2. CASE Return
  BY <1>1, <1>2, ReturnPreserves, Zenon
<1>3. CASE ~PayoutGuardHeld(leg) /\ Step(Sweep, "record_paid", job[Sweep])
  <2>1. "record_paid" \in Resolving \ {"sweep", "source"} BY Zenon DEF Resolving
  <2>2. attempt.tx \in mined
    BY <1>1, ResolvingFacts, Zenon
  <2> QED
    BY <1>1, <1>3, <2>1, <2>2, VerdictPreserves, Zenon
<1> QED BY <1>2, <1>3, Zenon DEF ConfirmPayout

LEMMA ResendLostPayoutPreserves ==
  ASSUME IInv, ResendLostPayout
  PROVE  IInv'
<1> DEFINE legs == {l \in Legs(TaskOf[leg]) : /\ board.attempt[l] # None
                                              /\ board.attempt[l].tx = attempt.tx}
           rec == [l \in Leg |-> IF l \in legs
                                 THEN [board.attempt[l] EXCEPT !.submissions = @ + 1]
                                 ELSE None]
           j == [job[Sweep] EXCEPT !.mode = "resend", !.legs = legs, !.batch = batchLeft,
                                   !.leg = None, !.rec = rec]
<1>1. /\ pc[Sweep] = "resend" /\ UNCHANGED <<board, disk, nextTx, crashes, wire, chain>>
      /\ pc[Sweep] \in Resolving \ {"sweep"}
      /\ Return \/ Step(Sweep, "save", j)
  BY Zenon DEF ResendLostPayout, Resolving
<1>2. CASE Return
  BY <1>1, <1>2, ReturnPreserves, Zenon
<1>3. CASE Step(Sweep, "save", j)
  <2>1. /\ job[Sweep] \in Job /\ AttemptsOK(job[Sweep].batch)
        /\ job[Sweep].saved = {} /\ job[Sweep].todo = {} /\ nextTx' \in 1..(MaxTx + 1)
        /\ leg \in Leg /\ attempt # None /\ job[Sweep].task = TaskOf[leg]
    BY <1>1, ResolvingFacts, Zenon
  <2>2. TypeOK /\ board.attempt \in Attempts /\ AttemptsOK(board.attempt) /\ Tracked
    BY BoardFacts, Zenon DEF IInv, TxsOK
  <2>3. batchLeft \in Attempts /\ AttemptsOK(batchLeft)
    BY <2>1, Zenon DEF Job, Attempts, batchLeft, AttemptsOK
  <2>4. TaskOf[leg] \in Task /\ legs \subseteq Leg /\ legs \subseteq Legs(TaskOf[leg])
    BY <2>1, ConstantsAssumption, Zenon DEF Legs
  <2>5. attempt.tx.task = TaskOf[leg]
    BY <2>1, Zenon DEF AttemptsOK, TxOK, Legs, attempt
  <2>6. /\ \A l \in legs : /\ board.attempt[l] # None /\ board.attempt[l] \in PayoutAttempt
                            /\ board.attempt[l].tx = attempt.tx
    BY <2>2, <2>4, Zenon DEF Attempts
  <2> HIDE DEF legs
  <2>7. /\ \A l \in legs : /\ rec[l] \in PayoutAttempt /\ rec[l] # None
                            /\ rec[l].tx = attempt.tx /\ rec[l].tx = board.attempt[l].tx
        /\ \A l \in Leg \ legs : rec[l] = None
    BY <2>4, <2>6, NoneIsNoAttempt DEF PayoutAttempt
  <2>8. rec \in Attempts
    BY <2>7, Zenon DEF Attempts
  <2> HIDE DEF rec
  <2>9. AttemptsOK(rec)
    BY <2>2, <2>4, <2>6, <2>7, Zenon DEF AttemptsOK
  <2>10. /\ j \in Job /\ j.mode = "resend" /\ j.task = TaskOf[leg] /\ j.todo = {}
         /\ j.legs = legs /\ j.rec = rec /\ j.batch = batchLeft /\ j.saved = {}
    BY <2>1, <2>3, <2>4, <2>8, Zenon DEF Job
  <2> HIDE DEF j
  <2>11. JobOK(Sweep, "save", j)
    <3>1. \A l \in j.legs : /\ j.rec[l] # None /\ j.rec[l].tx.task = j.task
                             /\ \A k \in j.legs : j.rec[k].tx = j.rec[l].tx
      BY <2>5, <2>7, <2>10, Zenon
    <3> QED
      BY <2>3, <2>4, <2>9, <2>10, <3>1, Zenon DEF JobOK, Written, Resolving, Settling
  <2>12. /\ KnowsOK(disk, mined, "save", j) /\ SendOK(board, disk, "save", j)
         /\ \A l \in Leg : ~Sending("save", j, l)
    BY <2>10, Zenon DEF KnowsOK, SendOK, Sending
  <2>13. ResendOK(board, disk, "save", j)
    BY <2>2, <2>4, <2>6, <2>7, <2>10, Zenon DEF ResendOK, Tracks, Tracked
  <2>14. "save" \in Pc BY Zenon DEF Pc, Settling
  <2> QED
    BY <1>1, <1>3, <2>1, <2>10, <2>11, <2>12, <2>13, <2>14, LocalStep, SweepIsProc, Zenon DEF LocalOK
<1> QED BY <1>1, <1>2, <1>3, Zenon

(* Steps of the node, its peers and the recipients: nothing new is sent.    *)

LEMMA NetworkStep ==
  ASSUME IInv, UNCHANGED hub, Outstanding' \subseteq Outstanding, mined \subseteq mined',
         TypeOK', ChainOK'
  PROVE  IInv'
<1>1. TxsOK' /\ DiskAgrees'
  BY Zenon DEF IInv, TxsOK, DiskAgrees, hub
<1>2. EarnedOnceAndOnChain' /\ AttemptsDurable' /\ SubmittedIsTracked'
  BY Zenon DEF IInv, EarnedOnceAndOnChain, AttemptsDurable, SubmittedIsTracked, hub
<1>3. Tracked'
  BY Zenon DEF IInv, Tracked, hub
<1>4. Exclusive'
  BY Zenon DEF IInv, Exclusive, hub, leg
<1>5. AllLocalOK'
  <2> SUFFICES ASSUME NEW p \in Proc PROVE LocalOK(board, disk, mined', p, pc[p], job[p])
    BY Zenon DEF AllLocalOK, hub
  <2>1. KnowsOK(disk, mined', pc[p], job[p])
    BY ProcessFacts, Zenon DEF KnowsOK
  <2> QED
    BY <2>1, ProcessFacts, Zenon DEF LocalOK
<1> QED
  BY <1>1, <1>2, <1>3, <1>4, <1>5, Zenon DEF IInv

LEMMA NodeReadsPreserves ==
  ASSUME IInv, NEW x \in wire, NodeReads(x)
  PROVE  IInv'
<1>1. /\ wire' \subseteq wire /\ mempool' \subseteq mempool \cup {x} /\ peers' \subseteq peers \cup {x}
      /\ UNCHANGED <<hub, mined, spent>>
  BY Zenon DEF NodeReads
<1>2. TypeOK /\ ChainOK
  BY Zenon DEF IInv
<1>3. TypeOK' /\ Outstanding' \subseteq Outstanding
  BY <1>1, <1>2, Zenon DEF TypeOK, Outstanding, hub
<1>4. ChainOK'
  <2>1. CASE x.inputs \subseteq Unspent(x.task)
    <3>1. \A y \in mined : x.inputs \cap y.inputs = {}
      BY <2>1, Zenon DEF Unspent
    <3> QED
      BY <1>1, <1>2, <3>1, Zenon DEF ChainOK
  <2>2. CASE ~(x.inputs \subseteq Unspent(x.task))
    BY <1>2, <2>2, Zenon DEF NodeReads, ChainOK
  <2> QED BY <2>1, <2>2, Zenon
<1> QED
  BY <1>1, <1>3, <1>4, NetworkStep, Zenon

LEMMA ForgetPreserves ==
  ASSUME IInv, UNCHANGED <<hub, mined, spent>>,
         wire' \subseteq wire, mempool' \subseteq mempool, peers' \subseteq peers
  PROVE  IInv'
<1>1. TypeOK' /\ Outstanding' \subseteq Outstanding /\ ChainOK'
  BY Zenon DEF IInv, TypeOK, ChainOK, Outstanding, hub
<1> QED
  BY <1>1, NetworkStep, Zenon

LEMMA MinePreserves ==
  ASSUME IInv, NEW x \in mempool \cup peers, Mine(x)
  PROVE  IInv'
<1>1. /\ mined' = mined \cup {x} /\ mempool' \subseteq mempool /\ peers' \subseteq peers
      /\ \A y \in mempool' \cup peers' : y.inputs \cap x.inputs = {}
      /\ UNCHANGED <<hub, wire, spent>>
  BY Zenon DEF Mine
<1>2. TypeOK' /\ Outstanding' \subseteq Outstanding /\ mined \subseteq mined'
  BY <1>1, Zenon DEF IInv, TypeOK, Outstanding, hub
<1>3. ChainOK'
  <2>1. \A y \in mined : x.inputs \cap y.inputs = {}
    BY Zenon DEF IInv, ChainOK
  <2> QED
    BY <1>1, <2>1, Zenon DEF IInv, ChainOK
<1> QED
  BY <1>1, <1>2, <1>3, NetworkStep, Zenon

LEMMA RecipientSpendsPreserves ==
  ASSUME IInv, NEW x \in mined, NEW l \in x.legs, RecipientSpends(x, l)
  PROVE  IInv'
<1>1. TypeOK' /\ Outstanding' \subseteq Outstanding /\ ChainOK'
  BY DEF IInv, TypeOK, ChainOK, Outstanding, RecipientSpends, hub, Tx
<1> QED
  BY <1>1, NetworkStep, Zenon DEF RecipientSpends

LEMMA CrashPreserves ==
  ASSUME IInv, Crash
  PROVE  IInv'
<1>1. /\ board' = disk /\ disk' = disk /\ pc' = [p \in Proc |-> "idle"]
      /\ job' = [p \in Proc |-> IdleJob] /\ UNCHANGED <<nextTx, wire, chain>>
      /\ crashes < MaxCrashes /\ crashes' = crashes + 1
  BY Zenon DEF Crash
<1>2. TypeOK'
  BY <1>1, IdleFacts, ConstantsAssumption DEF IInv, TypeOK, Pc, chain
<1>3. TxsOK' /\ ChainOK' /\ DiskAgrees'
  BY <1>1, Zenon DEF IInv, TxsOK, ChainOK, DiskAgrees, Outstanding, chain
<1>4. EarnedOnceAndOnChain' /\ AttemptsDurable' /\ SubmittedIsTracked'
  BY <1>1, Zenon DEF IInv, DiskAgrees, EarnedOnceAndOnChain, AttemptsDurable, Durable,
              SubmittedIsTracked, chain
<1>5. Tracked'
  <2>1. \A l \in Leg : Live(disk, l) <=> Live(board, l)
    BY ConstantsAssumption, Zenon DEF IInv, DiskAgrees, Live
  <2> QED
    BY <1>1, <2>1 DEF IInv, DiskAgrees, Tracked, Outstanding, chain
<1>6. Exclusive' /\ AllLocalOK'
  BY <1>1, IdleFacts, Zenon DEF Exclusive, AllLocalOK, Sending, Settling
<1> QED
  BY <1>2, <1>3, <1>4, <1>5, <1>6, Zenon DEF IInv

(* Steps that write the store, the board or the wire.                       *)

\* A process that is writing attempts of a live leg writes for that leg only.
LEMMA WritesOneLeg ==
  ASSUME NEW p, NEW at, NEW j, JobOK(p, at, j), at \in Written, j \in Job,
         NEW b, NEW k \in j.legs, Live(b, k)
  PROVE  /\ j.task = TaskOf[k] /\ j.task \notin Escrowed
         /\ \A l \in j.legs : l = k
         /\ j.rec[k] # None /\ TxOK(j.rec[k].tx) /\ k \in j.rec[k].tx.legs
         /\ \A l \in j.rec[k].tx.legs : l = k
<1>1. /\ k \in Leg /\ j.legs \subseteq Leg /\ j.legs \subseteq Legs(j.task)
  BY Zenon DEF JobOK, Job, Written, Settling
<1>2. /\ j.task = TaskOf[k] /\ j.task \notin Escrowed
  BY <1>1, Zenon DEF Legs, Live
<1>3. \A l \in j.legs : /\ j.rec[l] # None /\ TxOK(j.rec[l].tx) /\ l \in j.rec[l].tx.legs
                         /\ j.rec[l].tx.task = j.task /\ j.rec[l].tx = j.rec[k].tx
  BY <1>1, Zenon DEF JobOK, AttemptsOK
<1>4. \A l \in j.rec[k].tx.legs : l = k
  BY <1>2, <1>3, Zenon DEF TxOK
<1> QED
  BY <1>2, <1>3, <1>4, Zenon

\* What process p knows of a live leg whose attempt it is about to write.
LEMMA WriterFacts ==
  ASSUME IInv, NEW p \in Proc, pc[p] \in Written, NEW k \in job[p].legs, Live(board, k)
  PROVE  /\ k \in Leg /\ k \notin board.paid /\ k \notin disk.paid
         /\ \/ /\ job[p].mode = "settle" /\ Sending(pc[p], job[p], k)
               /\ pc[p] \in {"save", "record"} => board.attempt[k] = None
            \/ job[p].mode = "resend" /\ p = Sweep
         /\ pc[p] \in {"save_task", "send"} \/ job[p].mode = "resend"
               => Tracks(board, k, job[p].rec[k].tx)
         /\ pc[p] \in {"record", "save_task", "send"}
               => Tracks(disk, k, job[p].rec[k].tx)
<1>1. /\ JobOK(p, pc[p], job[p]) /\ job[p] \in Job
      /\ SendOK(board, disk, pc[p], job[p]) /\ ResendOK(board, disk, pc[p], job[p])
  BY ProcessFacts, Zenon
<1>2. k \in Leg /\ job[p].mode \in {"settle", "resend"} /\ job[p].task \notin Escrowed
  BY <1>1, WritesOneLeg, Zenon DEF Job
<1>3. board.paid = disk.paid
  BY Zenon DEF IInv, DiskAgrees
<1>4. CASE job[p].mode = "settle"
  <2>1. Sending(pc[p], job[p], k)
    BY <1>2, <1>4, Zenon DEF Sending, Written, Settling
  <2> QED
    BY <1>1, <1>2, <1>3, <1>4, <2>1, Zenon DEF SendOK
<1>5. CASE job[p].mode = "resend"
  <2>1. p = Sweep /\ pc[p] # "save_task"
    BY <1>1, <1>5, Zenon DEF JobOK
  <2> QED
    BY <1>1, <1>2, <1>3, <1>5, <2>1, Zenon DEF ResendOK, Written
<1> QED BY <1>2, <1>4, <1>5, Zenon

\* Transactions out there that pay a live leg being written.
LEMMA WriterOutstanding ==
  ASSUME IInv, NEW p \in Proc, pc[p] \in Written, NEW k \in job[p].legs, Live(board, k),
         NEW x \in Outstanding, k \in x.legs
  PROVE  /\ Tracks(board, k, x) /\ Tracks(disk, k, x)
         /\ x = job[p].rec[k].tx
<1>1. k \in Leg /\ k \notin board.paid /\ k \notin disk.paid
  BY WriterFacts, Zenon
<1>2. Tracks(board, k, x) /\ Tracks(disk, k, x)
  BY <1>1, Zenon DEF IInv, Tracked
<1>3. pc[p] \in {"save_task", "send"} \/ job[p].mode = "resend"
  BY <1>2, WriterFacts, Zenon DEF Tracks, Written
<1>4. Tracks(board, k, job[p].rec[k].tx)
  BY <1>3, WriterFacts, Zenon
<1> QED
  BY <1>2, <1>4, Zenon DEF Tracks

LEMMA SavePayoutAttemptPreserves ==
  ASSUME IInv, NEW p \in Proc, SavePayoutAttempt(p)
  PROVE  IInv'
<1>1. PICK l \in job[p].legs \ job[p].saved :
         LET saved == job[p].saved \cup {l}
         IN /\ disk' = [disk EXCEPT !.attempt[l] = job[p].rec[l]]
            /\ Step(p, IF saved = job[p].legs THEN "record" ELSE "save",
                    [job[p] EXCEPT !.saved = saved])
  BY Zenon DEF SavePayoutAttempt
<1> DEFINE saved == job[p].saved \cup {l}
           at == IF saved = job[p].legs THEN "record" ELSE "save"
           j == [job[p] EXCEPT !.saved = saved]
<1>2. /\ pc[p] = "save" /\ Step(p, at, j) /\ at \in {"record", "save"}
      /\ UNCHANGED <<board, nextTx, crashes, wire, chain>>
      /\ at = "record" => saved = job[p].legs
  BY <1>1, Zenon DEF SavePayoutAttempt
<1>3. /\ TypeOK /\ job[p] \in Job /\ JobOK(p, "save", job[p])
      /\ KnowsOK(disk, mined, "save", job[p])
      /\ SendOK(board, disk, "save", job[p]) /\ ResendOK(board, disk, "save", job[p])
  BY <1>2, ProcessFacts, Zenon DEF IInv
<1>4. /\ l \in Leg /\ job[p].legs \subseteq Leg /\ job[p].saved \subseteq job[p].legs
      /\ job[p].rec[l] \in PayoutAttempt /\ job[p].rec[l] # None
      /\ TxOK(job[p].rec[l].tx) /\ l \in job[p].rec[l].tx.legs
  BY <1>3 DEF JobOK, Job, Written, Attempts, AttemptsOK
<1>5. /\ disk' \in TaskBoard /\ disk'.status = disk.status /\ disk'.paid = disk.paid
      /\ disk'.earned = disk.earned /\ disk'.attempt[l] = job[p].rec[l]
      /\ \A k \in Leg : k # l => disk'.attempt[k] = disk.attempt[k]
  BY <1>1, <1>3, <1>4, Zenon DEF TypeOK, TaskBoard, Attempts
<1>6. /\ j \in Job /\ j.mode = job[p].mode /\ j.task = job[p].task /\ j.todo = job[p].todo
      /\ j.legs = job[p].legs /\ j.rec = job[p].rec /\ j.batch = job[p].batch
      /\ j.saved = saved
  BY <1>3, <1>4, Zenon DEF Job
<1>7. at \in Pc BY <1>2, Zenon DEF Pc, Settling
<1> HIDE DEF j, at
<1>8. /\ pc'[p] = at /\ job'[p] = j
      /\ \A q \in Proc : q # p => pc'[q] = pc[q] /\ job'[q] = job[q]
      /\ pc' \in [Proc -> Pc] /\ job' \in [Proc -> Job]
  BY <1>2, <1>3, <1>6, <1>7, StepFacts
<1>9. TypeOK' /\ TxsOK' /\ ChainOK' /\ DiskAgrees'
  <2>1. TypeOK'
    BY <1>2, <1>3, <1>5, <1>8, Zenon DEF TypeOK, chain
  <2>2. AttemptsOK(disk'.attempt)
    BY <1>4, <1>5, Zenon DEF IInv, TxsOK, AttemptsOK
  <2>3. TxsOK' /\ ChainOK' /\ DiskAgrees'
    BY <1>2, <1>5, <2>2, ZenonT(40) DEF IInv, TxsOK, ChainOK, DiskAgrees, Outstanding, chain
  <2> QED BY <2>1, <2>3, Zenon
<1>10. \A k \in Leg : Durable(disk, k) => Durable(disk', k)
  BY <1>4, <1>5, Zenon DEF Durable
<1>11. EarnedOnceAndOnChain' /\ AttemptsDurable' /\ SubmittedIsTracked'
  <2>1. EarnedOnceAndOnChain' /\ AttemptsDurable'
    BY <1>2, <1>10, Zenon DEF IInv, EarnedOnceAndOnChain, AttemptsDurable, chain
  <2>2. SubmittedIsTracked'
    BY <1>2, <1>4, <1>5 DEF IInv, SubmittedIsTracked
  <2> QED BY <2>1, <2>2, Zenon
<1>12. pc[p] \in Written BY <1>2, Zenon DEF Written
<1>13. Tracked'
  <2> SUFFICES ASSUME NEW k \in Leg, Live(board, k)
               PROVE  /\ board.attempt[k] # None \/ disk'.attempt[k] # None => k \notin board.paid
                      /\ \A x \in Outstanding : k \in x.legs =>
                           /\ k \in board.paid \/ Tracks(board, k, x)
                           /\ k \in disk'.paid \/ Tracks(disk', k, x)
                           /\ \A y \in Outstanding : k \in y.legs => x = y
    BY <1>2, Zenon DEF Tracked, Outstanding, chain
  <2>1. CASE k = l
    <3>1. \A x \in Outstanding : k \in x.legs => x = job[p].rec[k].tx /\ Tracks(board, k, x)
      BY <1>12, <2>1, WriterOutstanding, Zenon
    <3>2. k \notin board.paid
      BY <1>12, <2>1, WriterFacts, Zenon
    <3> QED
      BY <1>4, <1>5, <2>1, <3>1, <3>2, ZenonT(40) DEF Tracks
  <2>2. CASE k # l
    BY <1>5, <2>2, Zenon DEF IInv, Tracked, Tracks
  <2> QED BY <2>1, <2>2, Zenon
<1>14. Exclusive'
  <2>1. \A k \in Leg : Sending(at, j, k) => Sending(pc[p], job[p], k)
    BY <1>2, <1>6, Zenon DEF Sending, Settling
  <2> QED
    BY <1>2, <1>3, <1>6, <1>7, <2>1, ExclusiveStep, Zenon DEF IInv
<1>15. LocalOK(board, disk', mined, p, at, j)
  <2>1. JobOK(p, at, j)
    BY <1>2, <1>3, <1>4, <1>6 DEF JobOK, Written, Settling, Resolving
  <2>2. KnowsOK(disk', mined, at, j)
    BY <1>2, <1>3, <1>4, <1>5, <1>6, <1>10, Zenon DEF KnowsOK, Durable
  <2>3. ASSUME NEW k \in j.legs, Live(board, k), at = "record" PROVE Tracks(disk', k, j.rec[k].tx)
    <3>1. l = k
      BY <1>2, <1>3, <1>6, <1>12, <2>3, WritesOneLeg
    <3> QED BY <1>4, <1>5, <1>6, <3>1, Zenon DEF Tracks
  <2>4. SendOK(board, disk', at, j)
    BY <1>2, <1>3, <1>6, <2>3, Zenon DEF SendOK, Sending, Settling
  <2>5. ResendOK(board, disk', at, j)
    BY <1>2, <1>3, <1>6, <2>3, Zenon DEF ResendOK, Written
  <2> QED BY <2>1, <2>2, <2>4, <2>5, Zenon DEF LocalOK
<1>16. ASSUME NEW q \in Proc, q # p PROVE LocalOK(board, disk', mined, q, pc[q], job[q])
  <2>1. /\ job[q] \in Job /\ JobOK(q, pc[q], job[q]) /\ KnowsOK(disk, mined, pc[q], job[q])
        /\ SendOK(board, disk, pc[q], job[q]) /\ ResendOK(board, disk, pc[q], job[q])
    BY ProcessFacts, Zenon
  <2>2. KnowsOK(disk', mined, pc[q], job[q])
    <3>1. job[q].saved \subseteq Leg BY <2>1, Zenon DEF Job
    <3> QED BY <1>10, <2>1, <3>1, Zenon DEF KnowsOK
  <2>3. ASSUME NEW k \in job[q].legs, Live(board, k), pc[q] \in {"record", "save_task", "send"}
        PROVE  Tracks(disk', k, job[q].rec[k].tx)
    <3>1. pc[q] \in Written BY <2>3, Zenon DEF Written
    <3>2. Tracks(disk, k, job[q].rec[k].tx) /\ k \in Leg
      BY <2>3, <3>1, WriterFacts, Zenon
    <3>3. CASE k = l
      <4>1. /\ \/ Sending(pc[p], job[p], k) /\ board.attempt[k] = None
               \/ p = Sweep /\ Tracks(board, k, job[p].rec[k].tx)
        BY <1>2, <1>12, <2>3, <3>3, WriterFacts, Zenon
      <4>2. \/ Sending(pc[q], job[q], k) /\ (pc[q] = "record" => board.attempt[k] = None)
            \/ q = Sweep /\ Tracks(board, k, job[q].rec[k].tx)
        BY <2>3, <3>1, WriterFacts, Zenon
      <4>3. pc[q] # "record" => Tracks(board, k, job[q].rec[k].tx)
        BY <2>3, <3>1, WriterFacts, Zenon
      <4>4. ~(Sending(pc[p], job[p], k) /\ Sending(pc[q], job[q], k))
        BY <1>16, <3>2, Zenon DEF IInv, Exclusive
      <4>5. Tracks(board, k, job[p].rec[k].tx) /\ Tracks(board, k, job[q].rec[k].tx)
        BY <1>16, <4>1, <4>2, <4>3, <4>4, Zenon DEF Tracks
      <4> QED
        BY <1>4, <1>5, <3>3, <4>5, Zenon DEF Tracks
    <3>4. CASE k # l
      BY <1>5, <3>2, <3>4, Zenon DEF Tracks
    <3> QED BY <3>3, <3>4, Zenon
  <2>4. SendOK(board, disk', pc[q], job[q])
    BY <2>1, <2>3, Zenon DEF SendOK, Sending
  <2>5. ResendOK(board, disk', pc[q], job[q])
    BY <2>1, <2>3, Zenon DEF ResendOK
  <2> QED BY <2>1, <2>2, <2>4, <2>5, Zenon DEF LocalOK
<1>17. AllLocalOK'
  BY <1>2, <1>8, <1>15, <1>16, Zenon DEF AllLocalOK, chain
<1> QED
  BY <1>9, <1>11, <1>13, <1>14, <1>17, Zenon DEF IInv

LEMMA RecordPayoutAttemptPreserves ==
  ASSUME IInv, NEW p \in Proc, RecordPayoutAttempt(p)
  PROVE  IInv'
<1> DEFINE t == job[p].task
           attempts == [l \in Leg |-> IF l \in job[p].legs THEN job[p].rec[l]
                                                           ELSE board.attempt[l]]
           at == IF job[p].mode = "settle" THEN "save_task" ELSE "send"
<1>1. /\ pc[p] = "record" /\ Step(p, at, job[p])
      /\ board' = [board EXCEPT !.attempt = attempts,
                      !.status[t] = IF @ = "Verified" /\ AllSubmitted(t, attempts)
                                    THEN "Submitted" ELSE @]
      /\ UNCHANGED <<disk, nextTx, crashes, wire, chain>>
  BY Zenon DEF RecordPayoutAttempt
<1>2. /\ TypeOK /\ job[p] \in Job /\ JobOK(p, "record", job[p])
      /\ KnowsOK(disk, mined, "record", job[p])
      /\ SendOK(board, disk, "record", job[p]) /\ ResendOK(board, disk, "record", job[p])
  BY <1>1, ProcessFacts, Zenon DEF IInv
<1>3. /\ t \in Task /\ job[p].legs \subseteq Leg /\ job[p].legs \subseteq Legs(t)
      /\ job[p].rec \in Attempts /\ AttemptsOK(job[p].rec)
      /\ \A l \in job[p].legs : job[p].rec[l] # None
      /\ \A l \in job[p].legs : Durable(disk, l)
  BY <1>2, Zenon DEF JobOK, KnowsOK, Job, Written, Settling
<1>4. board \in TaskBoard /\ board.attempt \in Attempts
  BY <1>2, BoardFacts, Zenon
<1>5. attempts \in Attempts
  BY <1>3, <1>4, Zenon DEF Attempts
<1>6. /\ \A l \in job[p].legs : attempts[l] = job[p].rec[l]
      /\ \A l \in Leg \ job[p].legs : attempts[l] = board.attempt[l]
  BY <1>3, Zenon
<1> HIDE DEF attempts
<1>7. /\ board' \in TaskBoard /\ board'.paid = board.paid /\ board'.earned = board.earned
      /\ board'.attempt = attempts
      /\ \A u \in Task : u # t => board'.status[u] = board.status[u]
      /\ \/ board'.status[t] = board.status[t]
         \/ /\ board.status[t] = "Verified" /\ board'.status[t] = "Submitted"
            /\ AllSubmitted(t, attempts)
  BY <1>1, <1>3, <1>4, <1>5, Zenon DEF TaskBoard, TaskStatus
<1>8. at \in Pc /\ at \in {"save_task", "send"} /\ (at = "save_task" <=> job[p].mode = "settle")
  BY Zenon DEF Pc, Settling
<1> HIDE DEF at
<1>9. /\ pc'[p] = at /\ job'[p] = job[p]
      /\ \A q \in Proc : q # p => pc'[q] = pc[q] /\ job'[q] = job[q]
      /\ pc' \in [Proc -> Pc] /\ job' \in [Proc -> Job]
  BY <1>1, <1>2, <1>8, StepFacts, Zenon
<1>10. pc[p] \in Written BY <1>1, Zenon DEF Written
<1>11. TypeOK' /\ TxsOK' /\ ChainOK' /\ DiskAgrees'
  <2>1. TypeOK'
    BY <1>1, <1>2, <1>7, <1>9, Zenon DEF TypeOK, chain
  <2>2. AttemptsOK(attempts)
    BY <1>3, <1>6, Zenon DEF IInv, TxsOK, AttemptsOK
  <2>3. TxsOK' /\ ChainOK'
    BY <1>1, <1>7, <2>2, Zenon DEF IInv, TxsOK, ChainOK, Outstanding, chain
  <2>4. DiskAgrees'
    BY <1>1, <1>7 DEF IInv, DiskAgrees
  <2> QED BY <2>1, <2>3, <2>4, Zenon
<1>12. EarnedOnceAndOnChain' /\ AttemptsDurable' /\ SubmittedIsTracked'
  <2>1. EarnedOnceAndOnChain'
    BY <1>1, <1>7, Zenon DEF IInv, EarnedOnceAndOnChain, chain
  <2>2. AttemptsDurable'
    BY <1>1, <1>3, <1>6, <1>7, Zenon DEF IInv, AttemptsDurable
  <2>3. \A l \in Leg : board'.status[TaskOf[l]] = "Submitted"
            => l \in board'.paid \/ board'.attempt[l] # None
    <3> TAKE l \in Leg
    <3> HAVE board'.status[TaskOf[l]] = "Submitted"
    <3>1. TaskOf[l] \in Task BY ConstantsAssumption, Zenon
    <3>2. CASE board.status[TaskOf[l]] = "Submitted"
      BY <1>3, <1>6, <1>7, <3>2, Zenon DEF IInv, SubmittedIsTracked
    <3>3. CASE board.status[TaskOf[l]] # "Submitted"
      <4>1. TaskOf[l] = t /\ AllSubmitted(t, attempts)
        BY <1>7, <3>1, <3>3, Zenon
      <4> QED
        BY <1>7, <4>1, Zenon DEF AllSubmitted, OwedPayouts, Legs
    <3> QED BY <3>2, <3>3, Zenon
  <2>4. SubmittedIsTracked'
    BY <1>1, <2>3, Zenon DEF IInv, SubmittedIsTracked
  <2> QED BY <2>1, <2>2, <2>4, Zenon
<1>13. \A l \in Leg : Live(board', l) <=> Live(board, l)
  BY <1>7, ConstantsAssumption, Zenon DEF Live
<1>14. Tracked'
  <2> SUFFICES ASSUME NEW k \in Leg, Live(board, k)
               PROVE  /\ attempts[k] # None \/ disk.attempt[k] # None => k \notin board.paid
                      /\ \A x \in Outstanding : k \in x.legs =>
                           /\ k \in board.paid \/ Tracks(board', k, x)
                           /\ k \in disk.paid \/ Tracks(disk, k, x)
                           /\ \A y \in Outstanding : k \in y.legs => x = y
    BY <1>1, <1>7, <1>13 DEF Tracked, Outstanding, chain
  <2>1. CASE k \in job[p].legs
    <3>1. \A x \in Outstanding : k \in x.legs => x = job[p].rec[k].tx /\ Tracks(disk, k, x)
      BY <1>10, <2>1, WriterOutstanding, Zenon
    <3>2. k \notin board.paid
      BY <1>10, <2>1, WriterFacts, Zenon
    <3> QED
      BY <1>3, <1>6, <1>7, <2>1, <3>1, <3>2 DEF Tracks
  <2>2. CASE k \notin job[p].legs
    BY <1>6, <1>7, <2>2 DEF IInv, Tracked, Tracks
  <2> QED BY <2>1, <2>2, Zenon
<1>15. Exclusive'
  <2>1. \A k \in Leg : Sending(at, job[p], k) => Sending(pc[p], job[p], k)
    BY <1>1, <1>8, Zenon DEF Sending, Settling
  <2> QED
    BY <1>1, <1>2, <1>8, <2>1, ExclusiveStep, Zenon DEF IInv
<1>16. LocalOK(board', disk, mined, p, at, job[p])
  <2>1. JobOK(p, at, job[p])
    BY <1>2, <1>8, Zenon DEF JobOK, Written, Settling, Resolving
  <2>2. KnowsOK(disk, mined, at, job[p])
    BY <1>8, Zenon DEF KnowsOK
  <2>3. ASSUME NEW k \in job[p].legs, Live(board', k)
        PROVE  k \notin board'.paid /\ Tracks(board', k, job[p].rec[k].tx)
               /\ Tracks(disk, k, job[p].rec[k].tx)
    <3>1. k \in Leg /\ Live(board, k)
      BY <1>3, <1>13, <2>3, Zenon
    <3>2. pc[p] \in Written /\ pc[p] \in {"record", "save_task", "send"}
      BY <1>1, Zenon DEF Written
    <3>3. k \notin board.paid /\ Tracks(disk, k, job[p].rec[k].tx)
      BY <3>1, <3>2, WriterFacts, Zenon
    <3>4. Tracks(board', k, job[p].rec[k].tx)
      BY <1>3, <1>6, <1>7, Zenon DEF Tracks
    <3> QED
      BY <1>7, <3>3, <3>4, Zenon
  <2>4. SendOK(board', disk, at, job[p])
    BY <1>8, <2>3, Zenon DEF SendOK, Sending
  <2>5. ResendOK(board', disk, at, job[p])
    BY <1>8, <2>3, Zenon DEF ResendOK
  <2> QED BY <2>1, <2>2, <2>4, <2>5, Zenon DEF LocalOK
<1>17. ASSUME NEW q \in Proc, q # p PROVE LocalOK(board', disk, mined, q, pc[q], job[q])
  <2>1. /\ job[q] \in Job /\ JobOK(q, pc[q], job[q]) /\ KnowsOK(disk, mined, pc[q], job[q])
        /\ SendOK(board, disk, pc[q], job[q]) /\ ResendOK(board, disk, pc[q], job[q])
    BY ProcessFacts, Zenon
  <2>2. SendOK(board', disk, pc[q], job[q])
    <3> SUFFICES ASSUME NEW k \in Leg, Sending(pc[q], job[q], k), Live(board, k)
                 PROVE  /\ k \notin board.paid
                        /\ pc[q] \in {"payout_lock", "fetch", "build", "save", "record"}
                              => attempts[k] = None
                        /\ pc[q] \in {"save_task", "send"}
                              => Tracks(board', k, job[q].rec[k].tx)
                        /\ pc[q] \in {"record", "save_task", "send"}
                              => Tracks(disk, k, job[q].rec[k].tx)
      BY <1>7, <1>13, Zenon DEF SendOK
    <3>1. CASE k \notin job[p].legs
      BY <1>6, <1>7, <2>1, <3>1, Zenon DEF SendOK, Tracks
    <3>2. CASE k \in job[p].legs
      <4>1. ~Sending(pc[p], job[p], k)
        BY <1>17, Zenon DEF IInv, Exclusive
      <4>2. Tracks(board, k, job[p].rec[k].tx)
        BY <1>10, <3>2, <4>1, WriterFacts, Zenon
      <4>3. /\ k \notin board.paid
            /\ pc[q] \in {"save_task", "send"} => Tracks(board, k, job[q].rec[k].tx)
            /\ pc[q] \in {"record", "save_task", "send"} => Tracks(disk, k, job[q].rec[k].tx)
            /\ pc[q] \notin {"payout_lock", "fetch", "build", "save", "record"}
        BY <2>1, <4>2, Zenon DEF SendOK, Tracks
      <4>4. Tracks(board', k, job[p].rec[k].tx)
        BY <1>3, <1>6, <1>7, <3>2, Zenon DEF Tracks
      <4> QED
        BY <4>2, <4>3, <4>4, Zenon DEF Tracks
    <3> QED BY <3>1, <3>2, Zenon
  <2>3. ResendOK(board', disk, pc[q], job[q])
    <3> SUFFICES ASSUME pc[q] \in Written, job[q].mode = "resend",
                        NEW k \in job[q].legs, Live(board', k)
                 PROVE  /\ k \notin board.paid /\ Tracks(board', k, job[q].rec[k].tx)
                        /\ pc[q] \in {"record", "send"} => Tracks(disk, k, job[q].rec[k].tx)
      BY <1>7, Zenon DEF ResendOK
    <3>1. k \in Leg BY <2>1, Zenon DEF Job
    <3>2. Live(board, k) BY <1>13, <3>1, Zenon
    <3>3. /\ k \notin board.paid /\ Tracks(board, k, job[q].rec[k].tx) /\ q = Sweep
          /\ pc[q] \in {"record", "send"} => Tracks(disk, k, job[q].rec[k].tx)
      BY <3>2, WriterFacts, Zenon
    <3>4. k \notin job[p].legs
      BY <1>1, <1>10, <1>17, <3>2, <3>3, WriterFacts, Zenon DEF Tracks
    <3> QED
      BY <1>6, <1>7, <3>1, <3>3, <3>4, Zenon DEF Tracks
  <2> QED BY <2>1, <2>2, <2>3, Zenon DEF LocalOK
<1>18. AllLocalOK'
  BY <1>1, <1>9, <1>16, <1>17, Zenon DEF AllLocalOK, chain
<1> QED
  BY <1>11, <1>12, <1>14, <1>15, <1>18, Zenon DEF IInv

\* Saving a task changes its status on disk and nothing else.
LEMMA TaskSavedFacts ==
  ASSUME TypeOK, NEW b \in TaskBoard, NEW t \in Task,
         \A l \in Leg : TaskOf[l] # t => (l \in disk.paid <=> l \in b.paid)
  PROVE  /\ TaskSaved(disk, b, t) \in TaskBoard
         /\ TaskSaved(disk, b, t).paid = b.paid
         /\ TaskSaved(disk, b, t).earned = disk.earned
         /\ TaskSaved(disk, b, t).attempt = disk.attempt
         /\ TaskSaved(disk, b, t).status[t] = b.status[t]
         /\ \A u \in Task : u # t => TaskSaved(disk, b, t).status[u] = disk.status[u]
<1>1. /\ disk \in TaskBoard /\ disk.paid \subseteq Leg /\ b.paid \subseteq Leg
      /\ b.status \in [Task -> TaskStatus]
  BY BoardFacts, Zenon DEF TaskBoard
<1>2. (disk.paid \ Legs(t)) \cup (b.paid \cap Legs(t)) = b.paid
  BY <1>1, Zenon DEF Legs
<1> DEFINE s == TaskSaved(disk, b, t)
<1>3. s = [disk EXCEPT !.status[t] = b.status[t], !.paid = b.paid]
  BY <1>2, Zenon DEF TaskSaved
<1> HIDE DEF s
<1>4. /\ s \in TaskBoard /\ s.paid = b.paid /\ s.earned = disk.earned /\ s.attempt = disk.attempt
      /\ s.status[t] = b.status[t] /\ \A u \in Task : u # t => s.status[u] = disk.status[u]
  BY <1>1, <1>3, Zenon DEF TaskBoard
<1> QED BY <1>4, Zenon DEF s

LEMMA SaveTaskPreserves ==
  ASSUME IInv, NEW p \in Proc, SaveTask(p)
  PROVE  IInv'
<1>1. /\ pc[p] = "save_task" /\ Step(p, "send", job[p])
      /\ disk' \in {disk, TaskSaved(disk, board, job[p].task)}
      /\ UNCHANGED <<board, nextTx, crashes, wire, chain>>
  BY Zenon DEF SaveTask
<1>2. /\ TypeOK /\ job[p] \in Job /\ JobOK(p, "save_task", job[p])
      /\ SendOK(board, disk, "save_task", job[p]) /\ DiskAgrees
  BY <1>1, ProcessFacts, Zenon DEF IInv
<1>3. job[p].task \in Task /\ job[p].mode = "settle"
  BY <1>2, Zenon DEF JobOK, Settling
<1>4. /\ disk' \in TaskBoard /\ disk'.paid = disk.paid /\ disk'.earned = disk.earned
      /\ disk'.attempt = disk.attempt
      /\ \A t \in Task : disk'.status[t] \in {disk.status[t], board.status[t]}
  <2>1. /\ board \in TaskBoard /\ disk \in TaskBoard /\ disk.paid = board.paid
    BY <1>2, BoardFacts, Zenon DEF DiskAgrees
  <2>2. CASE disk' = disk
    BY <2>1, <2>2, Zenon
  <2>3. CASE disk' = TaskSaved(disk, board, job[p].task)
    BY <1>2, <1>3, <2>1, <2>3, TaskSavedFacts
  <2> QED BY <1>1, <2>2, <2>3, Zenon
<1>5. "send" \in Pc BY Zenon DEF Pc, Settling
<1>6. /\ pc'[p] = "send" /\ job'[p] = job[p]
      /\ \A q \in Proc : q # p => pc'[q] = pc[q] /\ job'[q] = job[q]
      /\ pc' \in [Proc -> Pc] /\ job' \in [Proc -> Job]
  BY <1>1, <1>2, <1>5, StepFacts, Zenon
<1>7. TypeOK' /\ TxsOK' /\ ChainOK' /\ DiskAgrees'
  <2>1. TypeOK'
    BY <1>1, <1>2, <1>4, <1>6, Zenon DEF TypeOK, chain
  <2>2. TxsOK' /\ ChainOK'
    BY <1>1, <1>4, Zenon DEF IInv, TxsOK, ChainOK, Outstanding, chain
  <2>3. DiskAgrees'
    BY <1>1, <1>2, <1>4, Zenon DEF DiskAgrees
  <2> QED BY <2>1, <2>2, <2>3, Zenon
<1>8. \A l \in Leg : Durable(disk, l) => Durable(disk', l)
  BY <1>2, <1>4, ConstantsAssumption, Zenon DEF Durable, DiskAgrees
<1>9. EarnedOnceAndOnChain' /\ AttemptsDurable'
  BY <1>1, <1>8, Zenon DEF IInv, EarnedOnceAndOnChain, AttemptsDurable, chain
<1>10. SubmittedIsTracked'
  <2>1. \A l \in Leg : disk'.status[TaskOf[l]] = "Submitted"
            => l \in disk'.paid \/ disk'.attempt[l] # None
    <3> TAKE l \in Leg
    <3> HAVE disk'.status[TaskOf[l]] = "Submitted"
    <3>1. TaskOf[l] \in Task BY ConstantsAssumption, Zenon
    <3>2. CASE disk.status[TaskOf[l]] = "Submitted"
      BY <1>4, <3>2, Zenon DEF IInv, SubmittedIsTracked
    <3>3. CASE board.status[TaskOf[l]] = "Submitted"
      <4>1. l \in board.paid \/ board.attempt[l] # None
        BY <3>3, Zenon DEF IInv, SubmittedIsTracked
      <4>2. l \in disk.paid \/ Durable(disk, l)
        BY <1>2, <4>1, Zenon DEF IInv, DiskAgrees, AttemptsDurable
      <4>3. disk.status[TaskOf[l]] # "PayoutFailed"
        BY <1>2, <3>1, <3>3, Zenon DEF DiskAgrees
      <4> QED
        BY <1>4, <4>2, <4>3, Zenon DEF Durable
    <3> QED BY <1>4, <3>1, <3>2, <3>3, Zenon
  <2> QED
    BY <1>1, <2>1, Zenon DEF IInv, SubmittedIsTracked
<1>11. Tracked'
  BY <1>1, <1>4 DEF IInv, Tracked, Tracks, Outstanding, chain
<1>12. Exclusive'
  <2>1. \A k \in Leg : Sending("send", job[p], k) => Sending(pc[p], job[p], k)
    BY <1>1, Zenon DEF Sending, Settling
  <2> QED
    BY <1>1, <1>2, <1>5, <2>1, ExclusiveStep, Zenon DEF IInv
<1>13. LocalOK(board, disk', mined, p, "send", job[p])
  <2>1. JobOK(p, "send", job[p])
    BY <1>2, <1>3, Zenon DEF JobOK, Written, Settling, Resolving
  <2>2. /\ KnowsOK(disk', mined, "send", job[p]) /\ ResendOK(board, disk', "send", job[p])
    BY <1>3, Zenon DEF KnowsOK, ResendOK
  <2>3. SendOK(board, disk', "send", job[p])
    BY <1>2, <1>4, Zenon DEF SendOK, Sending, Settling, Tracks
  <2> QED BY <2>1, <2>2, <2>3, Zenon DEF LocalOK
<1>14. ASSUME NEW q \in Proc, q # p PROVE LocalOK(board, disk', mined, q, pc[q], job[q])
  <2>1. /\ job[q] \in Job /\ JobOK(q, pc[q], job[q]) /\ KnowsOK(disk, mined, pc[q], job[q])
        /\ SendOK(board, disk, pc[q], job[q]) /\ ResendOK(board, disk, pc[q], job[q])
    BY ProcessFacts, Zenon
  <2>2. KnowsOK(disk', mined, pc[q], job[q])
    <3>1. job[q].saved \subseteq Leg BY <2>1, Zenon DEF Job
    <3> QED BY <1>8, <2>1, <3>1, Zenon DEF KnowsOK
  <2>3. SendOK(board, disk', pc[q], job[q]) /\ ResendOK(board, disk', pc[q], job[q])
    BY <1>4, <2>1, Zenon DEF SendOK, ResendOK, Tracks
  <2> QED BY <2>1, <2>2, <2>3, Zenon DEF LocalOK
<1>15. AllLocalOK'
  BY <1>1, <1>6, <1>13, <1>14, Zenon DEF AllLocalOK, chain
<1> QED
  BY <1>7, <1>9, <1>10, <1>11, <1>12, <1>15, Zenon DEF IInv

LEMMA SubmitTransactionPreserves ==
  ASSUME IInv, NEW p \in Proc, SubmitTransaction(p)
  PROVE  IInv'
<1> DEFINE sent == {job[p].rec[l].tx : l \in job[p].legs}
<1>1. /\ pc[p] = "send" /\ Resume(p) /\ wire \subseteq wire' /\ wire' \subseteq wire \cup sent
      /\ UNCHANGED <<board, disk, nextTx, crashes, chain>>
  BY Zenon DEF SubmitTransaction
<1>2. /\ TypeOK /\ job[p] \in Job /\ JobOK(p, "send", job[p])
  BY <1>1, ProcessFacts, Zenon DEF IInv
<1>6. PICK at \in Pc, j \in Job :
            /\ Step(p, at, j) /\ at \in {"settle", "sweep"}
            /\ LocalOK(board, disk, mined, p, at, j)
            /\ \A l \in Leg : ~Sending(at, j, l)
  <2>1. pc[p] \in Settling BY <1>1, Zenon DEF Settling
  <2> QED BY <1>1, <2>1, ResumeFacts, Zenon
<1>7. /\ pc'[p] = at /\ job'[p] = j
      /\ \A q \in Proc : q # p => pc'[q] = pc[q] /\ job'[q] = job[q]
      /\ pc' \in [Proc -> Pc] /\ job' \in [Proc -> Job]
  BY <1>1, <1>2, <1>6, StepFacts, Zenon
<1>8. /\ job[p].legs \subseteq Leg /\ job[p].rec \in Attempts
      /\ \A l \in job[p].legs : /\ job[p].rec[l] # None /\ TxOK(job[p].rec[l].tx)
                                 /\ job[p].rec[l].tx.task = job[p].task
                                 /\ l \in job[p].rec[l].tx.legs
  BY <1>2, Zenon DEF Job, JobOK, Written, AttemptsOK
<1>9. \A l \in job[p].legs : job[p].rec[l].tx \in Tx
  BY <1>8, Zenon DEF Attempts, PayoutAttempt
<1>10. TypeOK'
  BY <1>1, <1>2, <1>7, <1>9 DEF TypeOK, chain
<1>11. Outstanding' \subseteq Outstanding \cup sent
  BY <1>1, Zenon DEF Outstanding, chain
<1>12. TxsOK' /\ ChainOK' /\ DiskAgrees'
  <2>1. \A x \in sent : TxOK(x)
    BY <1>8, Zenon
  <2>2. TxsOK'
    BY <1>1, <1>11, <2>1, Zenon DEF IInv, TxsOK
  <2> QED
    BY <1>1, <2>2, Zenon DEF IInv, ChainOK, DiskAgrees, chain
<1>13. EarnedOnceAndOnChain' /\ AttemptsDurable' /\ SubmittedIsTracked'
  BY <1>1, Zenon DEF IInv, EarnedOnceAndOnChain, AttemptsDurable, SubmittedIsTracked, chain
<1>14. Tracked'
  <2> SUFFICES ASSUME NEW k \in Leg, Live(board, k),
                      NEW x \in Outstanding \cup sent, k \in x.legs
               PROVE  /\ k \in board.paid \/ Tracks(board, k, x)
                      /\ k \in disk.paid \/ Tracks(disk, k, x)
                      /\ \A y \in Outstanding \cup sent : k \in y.legs => x = y
    BY <1>1, <1>11, Zenon DEF IInv, Tracked, chain
  <2>1. ASSUME NEW y \in sent, k \in y.legs
        PROVE  k \in job[p].legs /\ y = job[p].rec[k].tx
    <3>1. PICK l \in job[p].legs : y = job[p].rec[l].tx
      BY <2>1, Zenon
    <3>2. TxOK(y) /\ y.task = job[p].task /\ l \in y.legs
      BY <1>8, <3>1, Zenon
    <3>3. y.task = TaskOf[k] /\ y.task \notin Escrowed
      BY <2>1, <3>2, Zenon DEF TxOK, Legs, Live
    <3>4. l = k
      BY <2>1, <3>2, <3>3, Zenon DEF TxOK
    <3> QED BY <3>1, <3>4, Zenon
  <2>2. pc[p] \in Written BY <1>1, Zenon DEF Written
  <2>3. CASE k \in job[p].legs
    <3>1. Tracks(board, k, job[p].rec[k].tx) /\ Tracks(disk, k, job[p].rec[k].tx)
      BY <1>1, <2>2, <2>3, WriterFacts, Zenon
    <3>2. \A y \in Outstanding \cup sent : k \in y.legs => y = job[p].rec[k].tx
      BY <2>1, <2>2, <2>3, WriterOutstanding, Zenon
    <3> QED BY <3>1, <3>2, Zenon
  <2>4. CASE k \notin job[p].legs
    <3>1. \A y \in Outstanding \cup sent : k \in y.legs => y \in Outstanding
      BY <2>1, <2>4, Zenon
    <3> QED BY <3>1, Zenon DEF IInv, Tracked
  <2> QED BY <2>3, <2>4, Zenon
<1>15. Exclusive'
  <2>1. ~(p = Sweep /\ at = "record_paid") BY <1>6, Zenon
  <2> QED
    BY <1>1, <1>2, <1>6, <2>1, ExclusiveStep, Zenon DEF IInv
<1>16. AllLocalOK'
  BY <1>1, <1>6, <1>7, Zenon DEF IInv, AllLocalOK, chain
<1> QED
  BY <1>10, <1>12, <1>13, <1>14, <1>15, <1>16, Zenon DEF IInv

\* The sweep's locals after a Return.
LEMMA ReturnFacts ==
  ASSUME IInv, pc[Sweep] \in Resolving \ {"sweep"}, Return, NEW b, NEW d
  PROVE  \E j \in Job :
            /\ Step(Sweep, "sweep", j) /\ "sweep" \in Pc
            /\ LocalOK(b, d, mined, Sweep, "sweep", j)
            /\ \A l \in Leg : ~Sending("sweep", j, l)
<1>1. /\ JobOK(Sweep, pc[Sweep], job[Sweep]) /\ job[Sweep] \in Job
  BY ProcessFacts, SweepIsProc, Zenon
<1>2. batchLeft \in Attempts /\ AttemptsOK(batchLeft)
  BY <1>1, Zenon DEF JobOK, Job, Attempts, batchLeft, AttemptsOK
<1> QED
  BY <1>2, SweepReady, Zenon DEF Return

\* A step of the sweep that rewrites board and disk without sending anything.
\* Legs whose task is not given up keep their attempts, except the sweep's own.
LEMMA SweepWrites ==
  ASSUME IInv, pc[Sweep] \in Resolving \ {"sweep"}, Return,
         UNCHANGED <<nextTx, crashes, wire, chain>>,
         board' \in TaskBoard, disk' \in TaskBoard, DiskAgrees', EarnedOnceAndOnChain',
         AttemptsDurable', SubmittedIsTracked',
         \A l \in Leg : Live(board', l) => Live(board, l),
         \A l \in Leg : /\ board'.attempt[l] \in {None, board.attempt[l]}
                        /\ disk'.attempt[l] \in {None, disk.attempt[l]}
                        /\ Durable(disk, l) => Durable(disk', l),
         \A l \in Leg : Live(board', l) =>
            \/ /\ board'.attempt[l] = board.attempt[l] /\ disk'.attempt[l] = disk.attempt[l]
               /\ (l \in board'.paid) <=> (l \in board.paid)
            \/ /\ pc[Sweep] = "record_paid" /\ l = leg
               /\ board'.attempt[l] = None /\ disk'.attempt[l] = None
               /\ l \in board'.paid
  PROVE  IInv'
<1>1. PICK j \in Job :
            /\ Step(Sweep, "sweep", j) /\ "sweep" \in Pc
            /\ LocalOK(board', disk', mined, Sweep, "sweep", j)
            /\ \A l \in Leg : ~Sending("sweep", j, l)
  BY ReturnFacts, Zenon
<1>2. /\ TypeOK /\ pc'[Sweep] = "sweep" /\ job'[Sweep] = j
      /\ \A q \in Proc : q # Sweep => pc'[q] = pc[q] /\ job'[q] = job[q]
      /\ pc' \in [Proc -> Pc] /\ job' \in [Proc -> Job]
  BY <1>1, StepFacts, SweepIsProc, Zenon DEF IInv
<1>3. TypeOK'
  BY <1>2, Zenon DEF TypeOK, chain
<1>4. TxsOK' /\ ChainOK'
  BY Zenon DEF IInv, TxsOK, ChainOK, AttemptsOK, Outstanding, chain
<1>5. disk'.paid = board'.paid /\ disk.paid = board.paid
  BY Zenon DEF IInv, DiskAgrees
<1>6. Tracked'
  <2> SUFFICES ASSUME NEW k \in Leg, Live(board', k)
               PROVE  /\ board'.attempt[k] # None \/ disk'.attempt[k] # None => k \notin board'.paid
                      /\ \A x \in Outstanding : k \in x.legs =>
                           /\ k \in board'.paid \/ Tracks(board', k, x)
                           /\ k \in disk'.paid \/ Tracks(disk', k, x)
                           /\ \A y \in Outstanding : k \in y.legs => x = y
    BY DEF Tracked, Outstanding, chain
  <2>1. Live(board, k) OBVIOUS
  <2> QED
    BY <1>5, <2>1 DEF IInv, Tracked, Tracks
<1>7. Exclusive'
  BY <1>1, <1>2, SweepIsProc, ExclusiveStep, Zenon DEF IInv
<1>8. ASSUME NEW q \in Proc, q # Sweep PROVE LocalOK(board', disk', mined, q, pc[q], job[q])
  <2>1. /\ job[q] \in Job /\ JobOK(q, pc[q], job[q]) /\ KnowsOK(disk, mined, pc[q], job[q])
        /\ SendOK(board, disk, pc[q], job[q])
    BY ProcessFacts, Zenon
  <2>2. KnowsOK(disk', mined, pc[q], job[q])
    <3>1. job[q].saved \subseteq Leg BY <2>1, Zenon DEF Job
    <3>2. pc[q] \notin Resolving BY <1>8, <2>1, Zenon DEF JobOK
    <3> QED BY <2>1, <3>1, <3>2, Zenon DEF KnowsOK
  <2>3. ResendOK(board', disk', pc[q], job[q])
    BY <1>8, <2>1, Zenon DEF ResendOK, JobOK
  <2>4. SendOK(board', disk', pc[q], job[q])
    <3> SUFFICES ASSUME NEW k \in Leg, Sending(pc[q], job[q], k), Live(board', k)
                 PROVE  /\ board'.attempt[k] = board.attempt[k]
                        /\ disk'.attempt[k] = disk.attempt[k]
                        /\ (k \in board'.paid) <=> (k \in board.paid)
      BY <2>1, Zenon DEF SendOK, Tracks
    <3>1. ~(pc[Sweep] = "record_paid" /\ leg = k)
      BY Zenon DEF IInv, Exclusive
    <3> QED BY <3>1, Zenon
  <2> QED BY <2>1, <2>2, <2>3, <2>4, Zenon DEF LocalOK
<1>9. AllLocalOK'
  BY <1>1, <1>2, <1>8, Zenon DEF AllLocalOK, chain
<1> QED
  BY <1>3, <1>4, <1>6, <1>7, <1>9, Zenon DEF IInv

LEMMA MarkRecipientPaidFacts ==
  ASSUME TypeOK, NEW l \in Leg
  PROVE  /\ MarkRecipientPaid(board, l) \in TaskBoard
         /\ MarkRecipientPaid(board, l).paid = board.paid \cup {l}
         /\ MarkRecipientPaid(board, l).attempt = board.attempt
         /\ MarkRecipientPaid(board, l).earned[l] =
               IF l \in board.paid THEN board.earned[l] ELSE board.earned[l] + 1
         /\ \A k \in Leg : k # l => MarkRecipientPaid(board, l).earned[k] = board.earned[k]
         /\ MarkRecipientPaid(board, l).status[TaskOf[l]] \in {"Paid", board.status[TaskOf[l]]}
         /\ \A t \in Task : t # TaskOf[l]
               => MarkRecipientPaid(board, l).status[t] = board.status[t]
<1>1. /\ TaskOf[l] \in Task /\ board \in TaskBoard /\ board.status \in [Task -> TaskStatus]
      /\ board.earned \in [Leg -> Nat] /\ board.paid \subseteq Leg
  BY BoardFacts, ConstantsAssumption, Zenon
<1> DEFINE m == MarkRecipientPaid(board, l)
<1>2. CASE l \in board.paid
  <2>1. m = board BY <1>2, Zenon DEF MarkRecipientPaid
  <2> HIDE DEF m
  <2>2. m.paid = board.paid \cup {l} BY <1>1, <1>2, <2>1, Zenon
  <2>3. /\ m \in TaskBoard /\ m.attempt = board.attempt /\ m.earned = board.earned
        /\ m.status = board.status
    BY <1>1, <2>1, Zenon
  <2> QED
    BY <1>2, <2>2, <2>3, Zenon DEF m
<1>3. CASE l \notin board.paid
  <2>1. PICK st \in {"Paid", board.status[TaskOf[l]]} :
          m = [board EXCEPT !.paid = @ \cup {l}, !.earned[l] = @ + 1, !.status[TaskOf[l]] = st]
    BY <1>3, Zenon DEF MarkRecipientPaid
  <2>2. st \in TaskStatus
    BY <1>1, <2>1, Zenon DEF TaskStatus
  <2> HIDE DEF m
  <2>a. m.paid = board.paid \cup {l} /\ m.attempt = board.attempt
    BY <1>1, <2>1, <2>2, Zenon DEF TaskBoard
  <2>b. /\ [board.earned EXCEPT ![l] = @ + 1] \in [Leg -> Nat]
        /\ [board.status EXCEPT ![TaskOf[l]] = st] \in [Task -> TaskStatus]
        /\ board.paid \cup {l} \in SUBSET Leg
    BY <1>1, <2>2
  <2>3. m \in TaskBoard /\ m.paid = board.paid \cup {l} /\ m.attempt = board.attempt
    BY <1>1, <2>1, <2>a, <2>b, Zenon DEF TaskBoard
  <2>4. /\ m.earned[l] = board.earned[l] + 1
        /\ \A k \in Leg : k # l => m.earned[k] = board.earned[k]
        /\ m.status[TaskOf[l]] = st
        /\ \A t \in Task : t # TaskOf[l] => m.status[t] = board.status[t]
    BY <1>1, <2>1, <2>2, Zenon DEF TaskBoard
  <2> QED
    BY <1>3, <2>1, <2>3, <2>4, Zenon DEF m
<1> QED BY <1>2, <1>3, Zenon

LEMMA RecordConfirmedPayoutPreserves ==
  ASSUME IInv, RecordConfirmedPayout
  PROVE  IInv'
<1> DEFINE t == TaskOf[leg]
           b == [MarkRecipientPaid(board, leg) EXCEPT !.attempt[leg] = None]
<1>1. /\ pc[Sweep] = "record_paid" /\ pc[Sweep] \in Resolving \ {"sweep"} /\ Return
      /\ UNCHANGED <<nextTx, crashes, wire, chain>>
  BY Zenon DEF RecordConfirmedPayout, Resolving
<1>2. CASE UNCHANGED <<board, disk>>
  BY <1>1, <1>2, ReturnPreserves, Zenon
<1>3. CASE /\ board.status[t] \in {"Verified", "Submitted"}
           /\ board' = b /\ disk' = SaveConfirmedPayout(disk, b, leg)
  <2>1. /\ TypeOK /\ DiskAgrees /\ leg \in Leg /\ attempt # None /\ attempt.tx \in mined
        /\ AttemptsOK(job[Sweep].batch) /\ t \in Task
    BY <1>1, ResolvingFacts, ConstantsAssumption, Zenon DEF IInv
  <2>2. leg \in attempt.tx.legs
    BY <2>1, Zenon DEF AttemptsOK, attempt
  <2>3. /\ board' \in TaskBoard /\ board'.paid = board.paid \cup {leg}
        /\ board'.attempt[leg] = None
        /\ \A k \in Leg : k # leg => board'.attempt[k] = board.attempt[k]
        /\ board'.earned[leg] = IF leg \in board.paid THEN board.earned[leg] ELSE board.earned[leg] + 1
        /\ \A k \in Leg : k # leg => board'.earned[k] = board.earned[k]
        /\ board'.status[t] \in {"Paid", board.status[t]}
        /\ \A u \in Task : u # t => board'.status[u] = board.status[u]
    <3> DEFINE m == MarkRecipientPaid(board, leg)
    <3>1. /\ m \in TaskBoard /\ m.paid = board.paid \cup {leg} /\ m.attempt = board.attempt
          /\ m.earned[leg] = IF leg \in board.paid THEN board.earned[leg] ELSE board.earned[leg] + 1
          /\ \A k \in Leg : k # leg => m.earned[k] = board.earned[k]
          /\ m.status[t] \in {"Paid", board.status[t]}
          /\ \A u \in Task : u # t => m.status[u] = board.status[u]
      BY <2>1, MarkRecipientPaidFacts, Zenon
    <3>2. board' = [m EXCEPT !.attempt[leg] = None]
      BY <1>3, Zenon
    <3> HIDE DEF m
    <3>3. /\ board' \in TaskBoard /\ board'.paid = m.paid /\ board'.earned = m.earned
          /\ board'.status = m.status
      BY <2>1, <3>1, <3>2, Zenon DEF TaskBoard, Attempts
    <3>4. /\ board'.attempt[leg] = None
          /\ \A k \in Leg : k # leg => board'.attempt[k] = board.attempt[k]
      BY <2>1, <3>1, <3>2, Zenon DEF TaskBoard, Attempts
    <3> QED
      BY <3>1, <3>3, <3>4, Zenon
  <2> DEFINE s == TaskSaved(disk, board', t)
  <2>4. /\ s \in TaskBoard /\ s.paid = board'.paid /\ s.earned = disk.earned
        /\ s.attempt = disk.attempt /\ s.status[t] = board'.status[t]
        /\ \A u \in Task : u # t => s.status[u] = disk.status[u]
    <3>1. \A l \in Leg : TaskOf[l] # t => (l \in disk.paid <=> l \in board'.paid)
      BY <2>1, <2>3, Zenon DEF DiskAgrees
    <3> QED
      BY <2>1, <2>3, <3>1, TaskSavedFacts, ZenonT(40)
  <2> HIDE DEF s
  <2>5. disk' = [s EXCEPT !.earned[leg] = board'.earned[leg], !.attempt[leg] = None]
    BY <1>3, Zenon DEF SaveConfirmedPayout, s
  <2>6. board'.earned[leg] \in Nat
    BY <2>1, <2>3, Zenon DEF TaskBoard
  <2>7. /\ disk' \in TaskBoard /\ disk'.paid = board'.paid /\ disk'.status = s.status
        /\ disk'.earned = [disk.earned EXCEPT ![leg] = board'.earned[leg]]
        /\ disk'.attempt = [disk.attempt EXCEPT ![leg] = None]
    BY <2>1, <2>4, <2>5, <2>6, Zenon DEF TaskBoard, Attempts
  <2>8. /\ disk'.attempt[leg] = None
        /\ \A k \in Leg : k # leg => disk'.attempt[k] = disk.attempt[k]
        /\ disk'.status[t] = board'.status[t]
        /\ \A u \in Task : u # t => disk'.status[u] = disk.status[u]
    BY <2>1, <2>4, <2>7, BoardFacts, Zenon DEF Attempts
  <2>9. disk.status[t] # "PayoutFailed" /\ board'.status[t] # "PayoutFailed"
    BY <1>3, <2>1, <2>3, Zenon DEF DiskAgrees
  <2>10. disk'.earned = board'.earned
    <3>1. \A k \in Leg : disk'.earned[k] = board'.earned[k]
      BY <2>1, <2>3, <2>7, BoardFacts DEF DiskAgrees
    <3>2. disk'.earned \in [Leg -> Nat] /\ board'.earned \in [Leg -> Nat]
      BY <2>3, <2>7, Zenon DEF TaskBoard
    <3> QED BY <3>1, <3>2
  <2>11. DiskAgrees'
    BY <2>1, <2>3, <2>7, <2>8, <2>9, <2>10 DEF DiskAgrees
  <2>12. EarnedOnceAndOnChain'
    BY <1>1, <2>1, <2>2, <2>3 DEF IInv, EarnedOnceAndOnChain, chain
  <2>13. \A l \in Leg : Durable(disk, l) => Durable(disk', l)
    BY <2>1, <2>3, <2>7, <2>8, <2>9, ConstantsAssumption, Zenon DEF Durable, DiskAgrees
  <2>14. AttemptsDurable'
    BY <2>3, <2>13, Zenon DEF IInv, AttemptsDurable
  <2>15. SubmittedIsTracked'
    <3>1. \A l \in Leg : board'.status[TaskOf[l]] = "Submitted"
              => l \in board'.paid \/ board'.attempt[l] # None
      BY <2>3, ConstantsAssumption DEF IInv, SubmittedIsTracked
    <3>2. \A l \in Leg : disk'.status[TaskOf[l]] = "Submitted"
              => l \in disk'.paid \/ disk'.attempt[l] # None
      <4> TAKE l \in Leg
      <4> HAVE disk'.status[TaskOf[l]] = "Submitted"
      <4>1. CASE TaskOf[l] = t
        <5>1. l \in board'.paid \/ board'.attempt[l] # None
          BY <2>8, <3>1, <4>1, Zenon
        <5>2. l \in disk'.paid \/ Durable(disk', l)
          BY <2>7, <2>14, <5>1, Zenon DEF AttemptsDurable
        <5> QED BY <5>2, Zenon DEF Durable
      <4>2. CASE TaskOf[l] # t
        <5>1. disk.status[TaskOf[l]] = "Submitted" /\ l # leg
          BY <2>8, <4>2, ConstantsAssumption, Zenon
        <5>2. l \in disk.paid \/ disk.attempt[l] # None
          BY <5>1, Zenon DEF IInv, SubmittedIsTracked
        <5> QED BY <2>1, <2>3, <2>7, <2>8, <5>1, <5>2, Zenon DEF DiskAgrees
      <4> QED BY <4>1, <4>2, Zenon
    <3> QED BY <3>1, <3>2, Zenon DEF SubmittedIsTracked
  <2>16. \A l \in Leg : Live(board', l) => Live(board, l)
    BY <1>3, <2>3, ConstantsAssumption, Zenon DEF Live
  <2>17. \A l \in Leg : /\ board'.attempt[l] \in {None, board.attempt[l]}
                        /\ disk'.attempt[l] \in {None, disk.attempt[l]}
                        /\ Durable(disk, l) => Durable(disk', l)
    BY <2>3, <2>8, <2>13, Zenon
  <2>18. \A l \in Leg : Live(board', l) =>
            \/ /\ board'.attempt[l] = board.attempt[l] /\ disk'.attempt[l] = disk.attempt[l]
               /\ (l \in board'.paid) <=> (l \in board.paid)
            \/ /\ pc[Sweep] = "record_paid" /\ l = leg
               /\ board'.attempt[l] = None /\ disk'.attempt[l] = None
               /\ l \in board'.paid
    BY <1>1, <2>3, <2>8, Zenon
  <2> QED
    BY <1>1, <2>3, <2>7, <2>11, <2>12, <2>14, <2>15, <2>16, <2>17, <2>18, SweepWrites, Zenon
<1> QED BY <1>2, <1>3, Zenon DEF RecordConfirmedPayout

LEMMA AbandonPayoutPreserves ==
  ASSUME IInv, AbandonPayout
  PROVE  IInv'
<1> DEFINE t == TaskOf[leg]
           dropped == {l \in Legs(t) : board.attempt[l] # None}
           b == Dropped([board EXCEPT !.status[t] = "PayoutFailed"], dropped)
<1>1. /\ pc[Sweep] = "abandon" /\ pc[Sweep] \in Resolving \ {"sweep"} /\ Return
      /\ UNCHANGED <<nextTx, crashes, wire, chain>>
  BY Zenon DEF AbandonPayout, SaveTaskAndDropPayoutAttempts, Resolving
<1>2. CASE UNCHANGED <<board, disk>>
  BY <1>1, <1>2, ReturnPreserves, Zenon
<1>3. CASE /\ board.status[t] \in {"Verified", "Submitted"}
           /\ board' = b /\ disk' = Dropped(TaskSaved(disk, b, t), dropped)
  <2>1. /\ TypeOK /\ DiskAgrees /\ leg \in Leg /\ t \in Task
        /\ board \in TaskBoard /\ disk \in TaskBoard
    BY <1>1, ResolvingFacts, BoardFacts, ConstantsAssumption, Zenon DEF IInv
  <2>2. dropped \subseteq Leg /\ dropped \subseteq Legs(t)
    BY Zenon DEF Legs
  <2>3. \A l \in Leg : TaskOf[l] = t /\ l \notin dropped => board.attempt[l] = None
    BY Zenon DEF Legs
  <2> HIDE DEF dropped
  <2>4. /\ board' \in TaskBoard /\ board'.paid = board.paid /\ board'.earned = board.earned
        /\ \A k \in Leg : board'.attempt[k] = IF k \in dropped THEN None ELSE board.attempt[k]
        /\ board'.status = [board.status EXCEPT ![t] = "PayoutFailed"]
    BY <1>3, <2>1, Zenon DEF Dropped, TaskBoard, TaskStatus, Attempts
  <2> DEFINE s == TaskSaved(disk, board', t)
  <2>5. /\ s \in TaskBoard /\ s.paid = board'.paid /\ s.earned = disk.earned
        /\ s.attempt = disk.attempt /\ s.status[t] = board'.status[t]
        /\ \A u \in Task : u # t => s.status[u] = disk.status[u]
    <3>1. \A l \in Leg : TaskOf[l] # t => (l \in disk.paid <=> l \in board'.paid)
      BY <2>1, <2>4, Zenon DEF DiskAgrees
    <3>2. board' \in TaskBoard BY <2>4, Zenon
    <3> QED
      BY <2>1, <3>1, <3>2, TaskSavedFacts, Zenon
  <2> HIDE DEF s
  <2>6. disk' = Dropped(s, dropped)
    BY <1>3, Zenon DEF s
  <2>7. /\ disk' \in TaskBoard /\ disk'.paid = board'.paid /\ disk'.earned = disk.earned
        /\ \A k \in Leg : disk'.attempt[k] = IF k \in dropped THEN None ELSE disk.attempt[k]
        /\ disk'.status = s.status
    BY <2>5, <2>6, Zenon DEF Dropped, TaskBoard, Attempts
  <2>8. /\ board'.status[t] = "PayoutFailed" /\ disk'.status[t] = "PayoutFailed"
        /\ \A u \in Task : u # t => /\ disk'.status[u] = disk.status[u]
                                    /\ board'.status[u] = board.status[u]
    BY <2>1, <2>4, <2>5, <2>7, BoardFacts, Zenon
  <2>9. DiskAgrees'
    BY <2>1, <2>4, <2>7, <2>8 DEF DiskAgrees
  <2>10. EarnedOnceAndOnChain'
    BY <1>1, <2>4, Zenon DEF IInv, EarnedOnceAndOnChain, chain
  <2>11. \A l \in Leg : Durable(disk, l) => Durable(disk', l)
    BY <2>1, <2>2, <2>4, <2>7, <2>8, ConstantsAssumption, Zenon DEF Durable, DiskAgrees, Legs
  <2>12. AttemptsDurable'
    BY <2>4, <2>11, Zenon DEF IInv, AttemptsDurable
  <2>13. SubmittedIsTracked'
    <3> SUFFICES ASSUME NEW l \in Leg
                 PROVE  /\ board'.status[TaskOf[l]] = "Submitted"
                              => l \in board'.paid \/ board'.attempt[l] # None
                        /\ disk'.status[TaskOf[l]] = "Submitted"
                              => l \in disk'.paid \/ disk'.attempt[l] # None
      BY Zenon DEF SubmittedIsTracked
    <3>1. TaskOf[l] \in Task BY ConstantsAssumption, Zenon
    <3>2. CASE TaskOf[l] = t
      BY <2>8, <3>2, Zenon
    <3>3. CASE TaskOf[l] # t
      <4>1. l \notin dropped BY <2>2, <3>3, Zenon DEF Legs
      <4>2. /\ board'.attempt[l] = board.attempt[l] /\ disk'.attempt[l] = disk.attempt[l]
            /\ board'.paid = board.paid /\ disk'.paid = disk.paid
            /\ board'.status[TaskOf[l]] = board.status[TaskOf[l]]
            /\ disk'.status[TaskOf[l]] = disk.status[TaskOf[l]]
        BY <2>1, <2>4, <2>7, <2>8, <3>1, <3>3, <4>1, Zenon DEF DiskAgrees
      <4> QED
        BY <4>2, Zenon DEF IInv, SubmittedIsTracked
    <3> QED BY <3>2, <3>3, Zenon
  <2>14. \A l \in Leg : Live(board', l) => Live(board, l) /\ TaskOf[l] # t
    BY <2>8, ConstantsAssumption, Zenon DEF Live
  <2>15. \A l \in Leg : /\ board'.attempt[l] \in {None, board.attempt[l]}
                        /\ disk'.attempt[l] \in {None, disk.attempt[l]}
                        /\ Durable(disk, l) => Durable(disk', l)
    BY <2>4, <2>7, <2>11, Zenon
  <2>16. \A l \in Leg : Live(board', l) =>
            /\ board'.attempt[l] = board.attempt[l] /\ disk'.attempt[l] = disk.attempt[l]
            /\ (l \in board'.paid) <=> (l \in board.paid)
    BY <2>2, <2>4, <2>7, <2>14, Zenon DEF Legs
  <2> QED
    BY <1>1, <2>4, <2>7, <2>9, <2>10, <2>12, <2>13, <2>14, <2>15, <2>16, SweepWrites, Zenon
<1> QED BY <1>2, <1>3, Zenon DEF AbandonPayout, SaveTaskAndDropPayoutAttempts

-----------------------------------------------------------------------------
(* The invariant, and what follows from it.                                 *)

LEMMA InitIInv == Init => IInv
<1> SUFFICES ASSUME Init PROVE IInv
  OBVIOUS
<1>1. NoAttempts \in Attempts /\ AttemptsOK(NoAttempts)
  BY Zenon DEF NoAttempts, Attempts, AttemptsOK
<1>2. /\ board \in TaskBoard /\ disk = board /\ board.paid = {} /\ board.attempt = NoAttempts
      /\ \A l \in Leg : board.earned[l] = 0 /\ board.attempt[l] = None
      /\ \A t \in Task : board.status[t] = "Verified"
  BY <1>1, Zenon DEF Init, TaskBoard, TaskStatus, NoAttempts
<1>3. TypeOK
  BY <1>2, IdleFacts, ConstantsAssumption DEF Init, TypeOK, Pc
<1>4. TxsOK /\ ChainOK /\ DiskAgrees /\ EarnedOnceAndOnChain /\ AttemptsDurable /\ Tracked
  BY <1>1, <1>2, Zenon DEF Init, TxsOK, ChainOK, DiskAgrees, EarnedOnceAndOnChain, AttemptsDurable,
                    Tracked, Outstanding
<1>5. SubmittedIsTracked
  BY <1>2, ConstantsAssumption, Zenon DEF SubmittedIsTracked
<1>6. Exclusive /\ AllLocalOK
  BY IdleFacts, Zenon DEF Init, Exclusive, AllLocalOK, Sending, Settling
<1> QED
  BY <1>3, <1>4, <1>5, <1>6, Zenon DEF IInv

LEMMA StutterIInv == IInv /\ UNCHANGED vars => IInv'
<1> SUFFICES ASSUME IInv, UNCHANGED vars PROVE IInv'
  OBVIOUS
<1>1. UNCHANGED <<hub, mined, spent>> /\ wire' = wire /\ mempool' = mempool /\ peers' = peers
  BY Zenon DEF vars, chain
<1> QED BY <1>1, ForgetPreserves, Zenon

LEMMA SettleIInv ==
  ASSUME IInv, NEW p \in Proc, Settle(p)
  PROVE  IInv'
<1>1. CASE SettleOnePayout(p) BY <1>1, SettleOnePayoutPreserves, Zenon
<1>2. CASE SubmitBountyPayout(p) BY <1>2, SubmitBountyPayoutPreserves, Zenon
<1>3. CASE SettleEscrowFundedTask(p) BY <1>3, SettleEscrowFundedTaskPreserves, Zenon
<1>4. CASE FinishSettle(p) BY <1>4, IdlePreserves, Zenon DEF FinishSettle
<1>5. CASE FetchUtxos(p) BY <1>5, FetchUtxosPreserves, Zenon
<1>6. CASE BuildPayment(p) BY <1>6, BuildPaymentPreserves, Zenon
<1>7. CASE InsufficientFunds(p) BY <1>7, ResumePreserves, Zenon DEF InsufficientFunds, Settling
<1>8. CASE SavePayoutAttempt(p) BY <1>8, SavePayoutAttemptPreserves, Zenon
<1>9. CASE RecordPayoutAttempt(p) BY <1>9, RecordPayoutAttemptPreserves, Zenon
<1>10. CASE SaveTask(p) BY <1>10, SaveTaskPreserves, Zenon
<1>11. CASE SubmitTransaction(p) BY <1>11, SubmitTransactionPreserves, Zenon
<1> QED
  BY <1>1, <1>2, <1>3, <1>4, <1>5, <1>6, <1>7, <1>8, <1>9, <1>10, <1>11, Zenon DEF Settle

LEMMA ResolveIInv ==
  ASSUME IInv, Resolve
  PROVE  IInv'
<1>1. CASE NextAttempt BY <1>1, NextAttemptPreserves, Zenon
<1>2. CASE EndPass BY <1>2, IdlePreserves, SweepIsProc, Zenon DEF EndPass
<1>3. CASE AskRecipient BY <1>3, AskRecipientPreserves, Zenon
<1>4. CASE AskSource BY <1>4, AskSourcePreserves, Zenon
<1>5. CASE ConfirmPayout BY <1>5, ConfirmPayoutPreserves, Zenon
<1>6. CASE RecordConfirmedPayout BY <1>6, RecordConfirmedPayoutPreserves, Zenon
<1>7. CASE ResendLostPayout BY <1>7, ResendLostPayoutPreserves, Zenon
<1>8. CASE AbandonPayout BY <1>8, AbandonPayoutPreserves, Zenon
<1> QED
  BY <1>1, <1>2, <1>3, <1>4, <1>5, <1>6, <1>7, <1>8, Zenon DEF Resolve

LEMMA FailureIInv ==
  ASSUME IInv, Failure
  PROVE  IInv'
<1>1. ASSUME NEW p \in Proc, SubmitFails(p) PROVE IInv'
  BY <1>1, ResumePreserves, Zenon DEF SubmitFails, Settling
<1>2. ASSUME NEW p \in Proc, Cancel(p) PROVE IInv'
  BY <1>2, IdlePreserves, Zenon DEF Cancel
<1>3. CASE NodeUnreachable BY <1>3, ReturnPreserves, Zenon DEF NodeUnreachable, Resolving
<1>4. CASE CommitFails BY <1>4, ReturnPreserves, Zenon DEF CommitFails, Resolving
<1>5. CASE Crash BY <1>5, CrashPreserves, Zenon
<1> QED
  BY <1>1, <1>2, <1>3, <1>4, <1>5, Zenon DEF Failure

LEMMA NetworkIInv ==
  ASSUME IInv, Network
  PROVE  IInv'
<1>1. ASSUME NEW x \in wire, NodeReads(x) PROVE IInv'
  BY <1>1, NodeReadsPreserves, Zenon
<1>2. ASSUME NEW x \in wire, WireLoses(x) PROVE IInv'
  BY <1>2, ForgetPreserves, Zenon DEF WireLoses, chain
<1>3. ASSUME NEW x \in mempool, NodeForgets(x) PROVE IInv'
  BY <1>3, ForgetPreserves, Zenon DEF NodeForgets
<1>4. ASSUME NEW x \in peers, PeersForget(x) PROVE IInv'
  BY <1>4, ForgetPreserves, Zenon DEF PeersForget
<1>5. ASSUME NEW x \in mempool \cup peers, Mine(x) PROVE IInv'
  BY <1>5, MinePreserves, Zenon
<1>6. ASSUME NEW x \in mined, NEW l \in x.legs, RecipientSpends(x, l) PROVE IInv'
  BY <1>6, RecipientSpendsPreserves, Zenon
<1> QED
  BY <1>1, <1>2, <1>3, <1>4, <1>5, <1>6, Zenon DEF Network

LEMMA NextIInv == IInv /\ [Next]_vars => IInv'
<1> SUFFICES ASSUME IInv, [Next]_vars PROVE IInv'
  OBVIOUS
<1>1. ASSUME NEW p \in Proc, NEW t \in Task, TrySettleVerifiedTask(p, t) PROVE IInv'
  BY <1>1, TrySettleVerifiedTaskPreserves, Zenon
<1> QED
  BY <1>1, SettleIInv, BeginPassPreserves, ResolveIInv, FailureIInv, NetworkIInv, StutterIInv, Zenon
     DEF Next

\* The invariant holds of every reachable state, whatever the constants.
THEOREM Invariance == Spec => []IInv
<1> QED
  BY InitIInv, NextIInv, PTL DEF Spec

\* The hub's memory, its store, its processes' locals, the mempools and the
\* chain always have the shapes the code gives them.
THEOREM TypeCorrect == Spec => []TypeOK
<1>1. IInv => TypeOK BY Zenon DEF IInv
<1> QED BY <1>1, Invariance, PTL

\* mark_recipient_paid credits a recipient once, and only for a payout that
\* is on the chain, through every interleaving, resend and restart.
THEOREM EarningsCorrect == Spec => []EarnedOnceAndOnChain
<1>1. IInv => EarnedOnceAndOnChain BY Zenon DEF IInv
<1> QED BY <1>1, Invariance, PTL

\* A task stored or held as Submitted never owes a leg that no attempt tracks,
\* so the sweep, which resolves attempts only, never strands a recipient.
THEOREM SubmittedTracked == Spec => []SubmittedIsTracked
<1>1. IInv => SubmittedIsTracked BY Zenon DEF IInv
<1> QED BY <1>1, Invariance, PTL

\* As long as every escrow address holds the one output of its deposit, no two
\* transactions on the chain pay the same leg, unless its task was given up.
THEOREM PaidOnce ==
  ASSUME SingleDeposit
  PROVE  Spec => []NoBountyPaidTwice
<1>1. IInv => NoBountyPaidTwice
  <2> SUFFICES ASSUME IInv, NEW x \in mined, NEW y \in mined, NEW l \in x.legs \cap y.legs,
                      x # y, board.status[TaskOf[l]] # "PayoutFailed"
               PROVE  FALSE
    BY Zenon DEF NoBountyPaidTwice
  <2>1. x \in Outstanding /\ y \in Outstanding /\ l \in Leg
    BY Zenon DEF IInv, TypeOK, Tx, Outstanding
  <2>2. TxOK(x) /\ TxOK(y) /\ x.inputs \cap y.inputs = {}
    BY <2>1, Zenon DEF IInv, TxsOK, ChainOK
  <2>3. x.task = TaskOf[l] /\ y.task = TaskOf[l]
    BY <2>2, Zenon DEF TxOK, Legs
  <2>4. CASE TaskOf[l] \in Escrowed
    BY <2>2, <2>3, <2>4 DEF TxOK, SingleDeposit
  <2>5. CASE TaskOf[l] \notin Escrowed
    BY <2>1, <2>5, Zenon DEF IInv, Tracked, Live
  <2> QED BY <2>4, <2>5, Zenon
<1> QED BY <1>1, Invariance, PTL

\* Where every payout comes from the operator's wallet, a transaction that may
\* still reach the chain is one that the board, and the board a restart would
\* load, are watching or have confirmed.
THEOREM OperatorPayoutsTracked ==
  ASSUME Escrowed = {}
  PROVE  Spec => []InFlightIsTracked
<1>1. IInv => InFlightIsTracked
  <2> SUFFICES ASSUME IInv, NEW x \in Outstanding, NEW l \in x.legs
               PROVE  \A b \in {board, disk} :
                        \/ b.status[TaskOf[l]] = "PayoutFailed" \/ l \in b.paid
                        \/ b.attempt[l] # None /\ b.attempt[l].tx = x
    BY Zenon DEF InFlightIsTracked
  <2>1. l \in Leg /\ TaskOf[l] \in Task
    BY ConstantsAssumption, Zenon DEF IInv, TypeOK, Tx, Outstanding
  <2>2. CASE board.status[TaskOf[l]] = "PayoutFailed"
    BY <2>1, <2>2, Zenon DEF IInv, DiskAgrees
  <2>3. CASE board.status[TaskOf[l]] # "PayoutFailed"
    BY <2>1, <2>3, Zenon DEF IInv, Tracked, Live, Tracks
  <2> QED BY <2>2, <2>3, Zenon
<1> QED BY <1>1, Invariance, PTL

KeepsVerdicts ==
    \A t \in Task : board.status[t] \in {"Paid", "PayoutFailed"}
                       => board'.status[t] = board.status[t]

LEMMA NextKeepsVerdicts ==
  ASSUME IInv, Next
  PROVE  KeepsVerdicts
<1>0. TypeOK /\ board \in TaskBoard /\ board.status \in [Task -> TaskStatus]
  BY BoardFacts, Zenon DEF IInv
<1>1. CASE UNCHANGED board
  BY <1>1, Zenon DEF KeepsVerdicts
<1>2. ASSUME NEW p \in Proc, RecordPayoutAttempt(p) PROVE KeepsVerdicts
  BY <1>0, <1>2, Zenon DEF RecordPayoutAttempt, KeepsVerdicts, TaskBoard
<1>3. CASE RecordConfirmedPayout
  <2>1. leg \in Leg /\ TaskOf[leg] \in Task
    BY <1>3, ResolvingFacts, ConstantsAssumption, Zenon DEF RecordConfirmedPayout, Resolving
  <2> DEFINE m == MarkRecipientPaid(board, leg)
  <2>2. /\ m \in TaskBoard
        /\ \A u \in Task : u # TaskOf[leg] => m.status[u] = board.status[u]
    BY <1>0, <2>1, MarkRecipientPaidFacts, Zenon
  <2>3. CASE /\ board.status[TaskOf[leg]] \in {"Verified", "Submitted"}
             /\ board' = [m EXCEPT !.attempt[leg] = None]
    <3> HIDE DEF m
    <3>1. board'.status = m.status
      BY <2>2, <2>3, Zenon DEF TaskBoard
    <3> QED BY <2>2, <2>3, <3>1, Zenon DEF KeepsVerdicts
  <2>4. CASE UNCHANGED <<board, disk>>
    BY <2>4, Zenon DEF KeepsVerdicts
  <2> QED BY <1>3, <2>3, <2>4, Zenon DEF RecordConfirmedPayout
<1>4. CASE AbandonPayout
  BY <1>0, <1>4, Zenon DEF AbandonPayout, SaveTaskAndDropPayoutAttempts, Dropped, KeepsVerdicts, TaskBoard
<1>5. CASE Crash
  BY <1>5, Zenon DEF Crash, KeepsVerdicts, IInv, DiskAgrees
<1>6. ASSUME NEW p \in Proc, Settle(p), ~RecordPayoutAttempt(p) PROVE UNCHANGED board
  BY <1>6, Zenon DEF Settle, SettleOnePayout, SubmitBountyPayout, SettleEscrowFundedTask, FinishSettle,
              FetchUtxos, BuildPayment, InsufficientFunds, SavePayoutAttempt, SaveTask,
              SubmitTransaction
<1>7. CASE Resolve /\ ~RecordConfirmedPayout /\ ~AbandonPayout
  <2>1. UNCHANGED board
    BY <1>7, Zenon DEF Resolve, NextAttempt, EndPass, AskRecipient, AskSource, ConfirmPayout,
                ResendLostPayout
  <2> QED BY <1>1, <2>1, Zenon
<1>8. CASE Failure /\ ~Crash
  <2>1. UNCHANGED board
    BY <1>8, Zenon DEF Failure, SubmitFails, Cancel, NodeUnreachable, CommitFails
  <2> QED BY <1>1, <2>1, Zenon
<1>9. CASE Network
  <2>1. UNCHANGED board
    BY <1>9, Zenon DEF Network, NodeReads, WireLoses, NodeForgets, PeersForget, Mine, RecipientSpends, hub
  <2> QED BY <1>1, <2>1, Zenon
<1>10. ASSUME NEW p \in Proc, NEW t \in Task, TrySettleVerifiedTask(p, t) PROVE UNCHANGED board
  BY <1>10, Zenon DEF TrySettleVerifiedTask
<1>11. CASE BeginPass
  BY <1>1, <1>11, Zenon DEF BeginPass
<1> QED
  BY <1>1, <1>2, <1>3, <1>4, <1>5, <1>6, <1>7, <1>8, <1>9, <1>10, <1>11, Zenon DEF Next

\* Once a task is Paid or PayoutFailed no step of the hub, and no restart from
\* its store, gives it another status.
THEOREM VerdictsFinal == Spec => VerdictIsFinal
<1>1. IInv /\ [Next]_vars => [KeepsVerdicts]_vars
  BY NextKeepsVerdicts, Zenon
<1> QED
  BY <1>1, Invariance, PTL DEF Spec, VerdictIsFinal, KeepsVerdicts
----------------------------------------------------------------------------
(* Paid is final: with PaidLegs beside IInv, a Paid task's legs are all    *)
(* paid, and Tracked leaves a paid leg no attempt.                         *)

LEMMA NextKeepsPaidLegs ==
  ASSUME IInv, PaidLegs, Next
  PROVE  PaidLegs'
<1>0. TypeOK /\ board \in TaskBoard /\ board.status \in [Task -> TaskStatus]
  BY BoardFacts, Zenon DEF IInv
<1>1. CASE UNCHANGED board
  BY <1>1, Zenon DEF PaidLegs
<1>2. ASSUME NEW p \in Proc, RecordPayoutAttempt(p) PROVE PaidLegs'
  BY <1>0, <1>2, Zenon DEF RecordPayoutAttempt, PaidLegs, TaskBoard
<1>3. CASE RecordConfirmedPayout
  <2>1. leg \in Leg /\ TaskOf[leg] \in Task
    BY <1>3, ResolvingFacts, ConstantsAssumption, Zenon DEF RecordConfirmedPayout, Resolving
  <2> DEFINE m == MarkRecipientPaid(board, leg)
  <2>2. /\ m \in TaskBoard /\ m.paid = board.paid \cup {leg}
        /\ \A u \in Task : u # TaskOf[leg] => m.status[u] = board.status[u]
    BY <1>0, <2>1, MarkRecipientPaidFacts, Zenon
  <2>3. m.status[TaskOf[leg]] = "Paid" => Legs(TaskOf[leg]) \subseteq m.paid
    <3>1. CASE leg \in board.paid
      BY <2>1, <3>1, Zenon DEF MarkRecipientPaid, PaidLegs
    <3>2. CASE leg \notin board.paid
      <4>1. CASE Legs(TaskOf[leg]) \subseteq board.paid \cup {leg}
        BY <2>2, <4>1, Zenon
      <4>2. CASE ~(Legs(TaskOf[leg]) \subseteq board.paid \cup {leg})
        <5>1. m = [board EXCEPT !.paid = @ \cup {leg}, !.earned[leg] = @ + 1,
                                !.status[TaskOf[leg]] = @]
          BY <3>2, <4>2, Zenon DEF MarkRecipientPaid
        <5>2. m.status[TaskOf[leg]] = board.status[TaskOf[leg]]
          BY <1>0, <2>1, <5>1, Zenon DEF TaskBoard
        <5> QED BY <2>1, <4>2, <5>2, Zenon DEF PaidLegs
      <4> QED BY <4>1, <4>2, Zenon
    <3> QED BY <3>1, <3>2, Zenon
  <2>4. CASE board' = [m EXCEPT !.attempt[leg] = None]
    <3> HIDE DEF m
    <3>1. board'.status = m.status /\ board'.paid = m.paid
      BY <2>2, <2>4, Zenon DEF TaskBoard
    <3> QED BY <2>2, <2>3, <3>1, Zenon DEF PaidLegs
  <2>5. CASE UNCHANGED <<board, disk>>
    BY <1>1, <2>5, Zenon
  <2> QED BY <1>3, <2>4, <2>5, Zenon DEF RecordConfirmedPayout
<1>4. CASE AbandonPayout
  BY <1>0, <1>4, Zenon DEF AbandonPayout, SaveTaskAndDropPayoutAttempts, Dropped, PaidLegs, TaskBoard
<1>5. CASE Crash
  BY <1>5, Zenon DEF Crash, PaidLegs, IInv, DiskAgrees
<1>6. ASSUME NEW p \in Proc, Settle(p), ~RecordPayoutAttempt(p) PROVE UNCHANGED board
  BY <1>6, Zenon DEF Settle, SettleOnePayout, SubmitBountyPayout, SettleEscrowFundedTask, FinishSettle,
              FetchUtxos, BuildPayment, InsufficientFunds, SavePayoutAttempt, SaveTask,
              SubmitTransaction
<1>7. CASE Resolve /\ ~RecordConfirmedPayout /\ ~AbandonPayout
  <2>1. UNCHANGED board
    BY <1>7, Zenon DEF Resolve, NextAttempt, EndPass, AskRecipient, AskSource, ConfirmPayout,
                ResendLostPayout
  <2> QED BY <1>1, <2>1, Zenon
<1>8. CASE Failure /\ ~Crash
  <2>1. UNCHANGED board
    BY <1>8, Zenon DEF Failure, SubmitFails, Cancel, NodeUnreachable, CommitFails
  <2> QED BY <1>1, <2>1, Zenon
<1>9. CASE Network
  <2>1. UNCHANGED board
    BY <1>9, Zenon DEF Network, NodeReads, WireLoses, NodeForgets, PeersForget, Mine, RecipientSpends, hub
  <2> QED BY <1>1, <2>1, Zenon
<1>10. ASSUME NEW p \in Proc, NEW t \in Task, TrySettleVerifiedTask(p, t) PROVE UNCHANGED board
  BY <1>10, Zenon DEF TrySettleVerifiedTask
<1>11. CASE BeginPass
  BY <1>1, <1>11, Zenon DEF BeginPass
<1> QED
  BY <1>1, <1>2, <1>3, <1>4, <1>5, <1>6, <1>7, <1>8, <1>9, <1>10, <1>11, Zenon DEF Next

\* An operator-funded task recorded as Paid, in memory or in the store, has every leg
\* paid and no attempt left for the sweep to resolve (save_confirmed_payout).
THEOREM PaidFinal == Spec => []PaidIsFinal
<1>1. Init => PaidLegs
  <2> SUFFICES ASSUME Init, NEW t \in Task PROVE board.status[t] # "Paid"
    BY Zenon DEF PaidLegs
  <2>1. board.status[t] = "Verified"
    BY Zenon DEF Init
  <2> QED BY <2>1
<1>2. IInv /\ PaidLegs /\ [Next]_vars => PaidLegs'
  <2>1. PaidLegs /\ UNCHANGED vars => PaidLegs'
    BY Zenon DEF vars, hub, PaidLegs
  <2> QED BY <2>1, NextKeepsPaidLegs, Zenon
<1>3. IInv /\ PaidLegs => PaidIsFinal
  <2> SUFFICES ASSUME IInv, PaidLegs, NEW b \in {board, disk}, NEW l \in Leg,
                      b.status[TaskOf[l]] = "Paid", TaskOf[l] \notin Escrowed
               PROVE  l \in b.paid /\ b.attempt[l] = None
    BY Zenon DEF PaidIsFinal
  <2>1. TaskOf[l] \in Task
    BY ConstantsAssumption, Zenon
  <2>2. board.status[TaskOf[l]] = "Paid" /\ b.paid = board.paid
    BY <2>1, Zenon DEF IInv, DiskAgrees
  <2>3. l \in board.paid
    BY <2>1, <2>2, Zenon DEF PaidLegs, Legs
  <2>4. board.attempt[l] = None /\ disk.attempt[l] = None
    BY <2>2, <2>3 DEF IInv, Tracked, Live
  <2> QED BY <2>2, <2>3, <2>4, Zenon
<1> QED BY <1>1, <1>2, <1>3, Invariance, PTL DEF Spec

\* Earnings, Submitted and Paid are what happened on chain, for any tasks, handlers,
\* coins, crashes and lost messages (mark_recipient_paid, save_confirmed_payout).
THEOREM RecordsAreTrue == Spec => []RecordsTrue
<1>1. EarnedOnceAndOnChain /\ SubmittedIsTracked /\ PaidIsFinal => RecordsTrue
  BY Zenon DEF RecordsTrue
<1> QED BY <1>1, EarningsCorrect, SubmittedTracked, PaidFinal, PTL

----------------------------------------------------------------------------
(* The submission budget.  IInv leaves out the legs of tasks given up, so  *)
(* BudgetInv says for every leg who may count it: the holder of the leg's  *)
(* PAYOUT_IN_FLIGHT entry while nothing tracks the leg, and otherwise the  *)
(* sweep.  An escrow-funded task has no such entry: a handler that read    *)
(* its legs before they were sent counts them again.                       *)

Counting == {"payout_lock", "fetch", "build", "resend"} \cup Written

\* Elsewhere nothing is being counted.
LEMMA NotCounting ==
  ASSUME NEW b, NEW at, NEW j, at \notin Counting
  PROVE  CountsOK(b, at, j)
BY Zenon DEF CountsOK, Counting, Written

\* A process moves while board and store keep their attempts.
LEMMA CountsStep ==
  ASSUME IInv, BudgetInv, NEW p \in Proc, NEW at, NEW j, Step(p, at, j), CountsOK(board, at, j),
         board'.attempt = board.attempt, Within(disk'.attempt)
  PROVE  BudgetInv'
<1>1. pc \in [Proc -> Pc] /\ job \in [Proc -> Job]
  BY Zenon DEF IInv, TypeOK
<1>2. ASSUME NEW q \in Proc PROVE CountsOK(board, pc'[q], job'[q])
  <2>1. CASE q = p
    <3>1. pc'[q] = at /\ job'[q] = j
      BY <1>1, <2>1, Zenon DEF Step
    <3> QED BY <3>1, Zenon
  <2>2. CASE q # p
    <3>1. pc'[q] = pc[q] /\ job'[q] = job[q]
      BY <1>1, <2>2, Zenon DEF Step
    <3> QED BY <3>1, Zenon DEF BudgetInv
  <2> QED BY <2>1, <2>2, Zenon
<1>3. Within(board'.attempt)
  BY Zenon DEF BudgetInv
<1>4. ASSUME NEW q \in Proc PROVE CountsOK(board', pc'[q], job'[q])
  BY <1>2, Zenon DEF CountsOK
<1> QED BY <1>3, <1>4, Zenon DEF BudgetInv

\* Steps that end in a place where nothing is counted.
LEMMA BudgetRests ==
  ASSUME IInv, BudgetInv, NEW p \in Proc, NEW at, NEW j, Step(p, at, j), at \notin Counting,
         UNCHANGED <<board, disk>>
  PROVE  BudgetInv'
<1>1. CountsOK(board, at, j)
  BY NotCounting, Zenon
<1>2. Within(disk'.attempt) /\ board'.attempt = board.attempt
  BY Zenon DEF BudgetInv
<1> QED BY <1>1, <1>2, CountsStep, Zenon

\* The sweep drops attempts and goes back to its loop.
LEMMA BudgetDrops ==
  ASSUME IInv, BudgetInv, pc[Sweep] \in Resolving, Return,
         \A l \in Leg : /\ board'.attempt[l] \in {None, board.attempt[l]}
                        /\ disk'.attempt[l] \in {None, disk.attempt[l]}
  PROVE  BudgetInv'
<1>1. Within(board'.attempt) /\ Within(disk'.attempt)
  BY Zenon DEF BudgetInv, Within
<1>2. ASSUME NEW q \in Proc PROVE CountsOK(board', pc'[q], job'[q])
  <2>1. CASE q = Sweep
    <3>1. pc'[q] = "sweep"
      BY <2>1, Zenon DEF Return, Step, IInv, TypeOK
    <3> QED BY <3>1, Zenon DEF CountsOK, Written
  <2>2. CASE q # Sweep
    <3>1. pc'[q] = pc[q] /\ job'[q] = job[q]
      BY <2>2, Zenon DEF Return, Step, IInv, TypeOK
    <3>2. job[q].mode = "settle" /\ job[q].legs \subseteq Leg /\ CountsOK(board, pc[q], job[q])
      BY <2>2, ProcessFacts, JobFacts, Zenon DEF JobOK, BudgetInv
    <3>3. job[q].mode # "resend"
      BY <3>2
    <3> QED BY <3>1, <3>2, <3>3, Zenon DEF CountsOK
  <2> QED BY <2>1, <2>2, Zenon
<1> QED BY <1>1, <1>2, Zenon DEF BudgetInv

\* An operator's payout: taken up with nothing tracking its leg, and counted once.
LEMMA BudgetSends ==
  ASSUME IInv, BudgetInv, Escrowed = {}, NEW p \in Proc,
         SettleOnePayout(p) \/ SubmitBountyPayout(p) \/ FetchUtxos(p) \/ BuildPayment(p)
  PROVE  BudgetInv'
<1>1. /\ job[p] \in Job /\ CountsOK(board, pc[p], job[p]) /\ JobOK(p, pc[p], job[p])
      /\ UNCHANGED <<board, disk>>
  BY ProcessFacts, Zenon DEF BudgetInv, SettleOnePayout, SubmitBountyPayout, FetchUtxos, BuildPayment
<1>2. Within(disk'.attempt) /\ board'.attempt = board.attempt
  BY <1>1, Zenon DEF BudgetInv
<1>3. CASE SettleOnePayout(p)
  <2>1. PICK l \in job[p].todo :
           LET rest == [job[p] EXCEPT !.todo = @ \ {l}]
           IN IF PayoutGuardHeld(l) \/ PaidOrInFlight(l)
              THEN Step(p, "settle", rest)
              ELSE Step(p, "payout_lock", [rest EXCEPT !.legs = {l}])
    BY <1>3, Zenon DEF SettleOnePayout
  <2>2. CASE PayoutGuardHeld(l) \/ PaidOrInFlight(l)
    <3>1. "settle" \notin Counting
      BY Zenon DEF Counting, Written
    <3> QED BY <1>1, <2>1, <2>2, <3>1, BudgetRests, Zenon
  <2>3. CASE ~(PayoutGuardHeld(l) \/ PaidOrInFlight(l))
    <3> DEFINE j == [[job[p] EXCEPT !.todo = @ \ {l}] EXCEPT !.legs = {l}]
    <3>1. Step(p, "payout_lock", j)
      BY <2>1, <2>3, Zenon
    <3>2. j.legs = {l} /\ j.mode = job[p].mode
      BY <1>1, Zenon DEF Job
    <3>3. board.attempt[l] = None
      BY <2>3, Zenon DEF PaidOrInFlight
    <3> HIDE DEF j
    <3>4. CountsOK(board, "payout_lock", j)
      BY <3>2, <3>3, Zenon DEF CountsOK, Written
    <3> QED BY <1>2, <3>1, <3>4, CountsStep, Zenon
  <2> QED BY <2>2, <2>3, Zenon
<1>4. CASE SubmitBountyPayout(p)
  <2>1. pc[p] = "payout_lock" /\ Step(p, "fetch", job[p])
    BY <1>4, Zenon DEF SubmitBountyPayout
  <2>2. CountsOK(board, "fetch", job[p])
    BY <1>1, <2>1, Zenon DEF CountsOK, Written
  <2> QED BY <1>2, <2>1, <2>2, CountsStep, Zenon
<1>5. CASE FetchUtxos(p)
  <2> DEFINE j == [job[p] EXCEPT !.view = {c \in Unspent(job[p].task) : ~Marked(c)}]
  <2>1. pc[p] = "fetch" /\ Step(p, "build", j)
    BY <1>5, Zenon DEF FetchUtxos
  <2>2. j.legs = job[p].legs /\ j.mode = job[p].mode
    BY <1>1, Zenon DEF Job
  <2> HIDE DEF j
  <2>3. CountsOK(board, "build", j)
    BY <1>1, <2>1, <2>2, Zenon DEF CountsOK, Written
  <2> QED BY <1>2, <2>1, <2>3, CountsStep, Zenon
<1>6. CASE BuildPayment(p)
  <2>1. PICK ins \in Affordable(p) :
         LET tx == [id |-> nextTx, task |-> job[p].task, legs |-> job[p].legs, inputs |-> ins]
         IN Step(p, "save", [job[p] EXCEPT !.view = {}, !.rec =
                [l \in Leg |-> IF l \in job[p].legs
                               THEN [tx |-> tx, submissions |-> Submissions(l) + 1]
                               ELSE None]])
    BY <1>6, Zenon DEF BuildPayment
  <2> DEFINE tx == [id |-> nextTx, task |-> job[p].task, legs |-> job[p].legs, inputs |-> ins]
             rec == [l \in Leg |-> IF l \in job[p].legs
                                   THEN [tx |-> tx, submissions |-> Submissions(l) + 1]
                                   ELSE None]
             j == [job[p] EXCEPT !.view = {}, !.rec = rec]
  <2>2. pc[p] = "build" /\ Step(p, "save", j)
    BY <1>6, <2>1, Zenon DEF BuildPayment
  <2>3. job[p].mode = "settle"
    BY <1>1, <2>2, Zenon DEF JobOK
  <2>4. \A l \in job[p].legs : board.attempt[l] = None
    BY <1>1, <2>2, <2>3, Zenon DEF CountsOK
  <2> HIDE DEF tx
  <2>5. \A l \in Leg : rec[l] # None => rec[l].submissions = 1
    <3> SUFFICES ASSUME NEW l \in Leg, rec[l] # None PROVE rec[l].submissions = 1
      OBVIOUS
    <3>1. l \in job[p].legs /\ rec[l] = [tx |-> tx, submissions |-> Submissions(l) + 1]
      BY Zenon
    <3>2. Submissions(l) = 0
      BY <2>4, <3>1, Zenon DEF Submissions
    <3> QED BY <3>1, <3>2
  <2>6. j.legs = job[p].legs /\ j.mode = "settle" /\ j.rec = rec
    BY <1>1, <2>3, Zenon DEF Job
  <2> HIDE DEF j, rec
  <2>7. Within(j.rec)
    BY <2>5, <2>6, ConstantsAssumption DEF Within
  <2>8. "settle" # "resend"
    OBVIOUS
  <2>9. CountsOK(board, "save", j)
    BY <2>4, <2>6, <2>7, <2>8, Zenon DEF CountsOK
  <2> QED BY <1>2, <2>2, <2>9, CountsStep, Zenon
<1> QED BY <1>3, <1>4, <1>5, <1>6, Zenon

\* The commits of a send.
LEMMA BudgetSaves ==
  ASSUME IInv, BudgetInv, NEW p \in Proc, SavePayoutAttempt(p) \/ SaveTask(p)
  PROVE  BudgetInv'
<1>1. /\ job[p] \in Job /\ CountsOK(board, pc[p], job[p]) /\ UNCHANGED board
      /\ disk \in TaskBoard /\ job[p].legs \subseteq Leg /\ disk.attempt \in Attempts
  BY ProcessFacts, BoardFacts, JobFacts, Zenon DEF IInv, BudgetInv, SavePayoutAttempt, SaveTask
<1>2. CASE SavePayoutAttempt(p)
  <2>1. PICK l \in job[p].legs \ job[p].saved :
           /\ disk' = [disk EXCEPT !.attempt[l] = job[p].rec[l]]
           /\ Step(p, IF job[p].saved \cup {l} = job[p].legs THEN "record" ELSE "save",
                   [job[p] EXCEPT !.saved = job[p].saved \cup {l}])
    BY <1>2, Zenon DEF SavePayoutAttempt
  <2>2. PICK at \in {"record", "save"} : Step(p, at, [job[p] EXCEPT !.saved = job[p].saved \cup {l}])
    BY <2>1, Zenon
  <2> DEFINE j == [job[p] EXCEPT !.saved = job[p].saved \cup {l}]
  <2>3. j.legs = job[p].legs /\ j.mode = job[p].mode /\ j.rec = job[p].rec
    BY <1>1, Zenon DEF Job
  <2> HIDE DEF j
  <2>4. pc[p] = "save" /\ Within(job[p].rec)
    BY <1>1, <1>2, Zenon DEF SavePayoutAttempt, CountsOK, Written
  <2>5. CountsOK(board, at, j)
    BY <1>1, <2>2, <2>3, <2>4, Zenon DEF CountsOK
  <2>6. disk'.attempt = [disk.attempt EXCEPT ![l] = job[p].rec[l]]
    BY <1>1, <2>1, Zenon DEF TaskBoard
  <2>7. Within(disk'.attempt)
    BY <1>1, <2>4, <2>6, Zenon DEF Within, BudgetInv, Attempts
  <2>8. Step(p, at, j)
    BY <2>2, Zenon DEF j
  <2> QED BY <1>1, <2>5, <2>7, <2>8, CountsStep, Zenon
<1>3. CASE SaveTask(p)
  <2>1. pc[p] = "save_task" /\ Step(p, "send", job[p]) /\ disk' \in {disk, TaskSaved(disk, board, job[p].task)}
    BY <1>3, Zenon DEF SaveTask
  <2>2. disk'.attempt = disk.attempt
    BY <1>1, <2>1, Zenon DEF TaskSaved, TaskBoard
  <2>3. CountsOK(board, "send", job[p])
    BY <1>1, <2>1, Zenon DEF CountsOK, Written
  <2>4. Within(disk'.attempt)
    BY <2>2, Zenon DEF BudgetInv
  <2> QED BY <1>1, <2>1, <2>3, <2>4, CountsStep, Zenon
<1> QED BY <1>2, <1>3, Zenon

\* An attempt is published: nobody else was counting its leg from nothing.
LEMMA BudgetRecords ==
  ASSUME IInv, BudgetInv, Escrowed = {}, NEW p \in Proc, RecordPayoutAttempt(p)
  PROVE  BudgetInv'
<1> DEFINE legs == job[p].legs
           rec == job[p].rec
           attempts == [l \in Leg |-> IF l \in legs THEN rec[l] ELSE board.attempt[l]]
<1>1. /\ pc[p] = "record" /\ UNCHANGED disk /\ board \in TaskBoard /\ legs \subseteq Leg
      /\ CountsOK(board, "record", job[p]) /\ JobOK(p, "record", job[p])
      /\ pc \in [Proc -> Pc] /\ job \in [Proc -> Job]
  BY ProcessFacts, BoardFacts, JobFacts, Zenon DEF IInv, TypeOK, BudgetInv, RecordPayoutAttempt
<1>2. PICK st : board' = [board EXCEPT !.attempt = attempts, !.status[job[p].task] = st]
  BY Zenon DEF RecordPayoutAttempt
<1>3. board'.attempt = attempts
  BY <1>1, <1>2, Zenon DEF TaskBoard
<1>4. Within(rec) /\ \A l \in legs : rec[l] # None
  BY <1>1, Zenon DEF CountsOK, JobOK, Written
<1>5. PICK at \in {"save_task", "send"} : Step(p, at, job[p])
  BY Zenon DEF RecordPayoutAttempt
<1>6. Within(board'.attempt) /\ Within(disk'.attempt)
  BY <1>1, <1>3, <1>4, Zenon DEF BudgetInv, Within
<1>7. ASSUME NEW q \in Proc PROVE CountsOK(board', pc'[q], job'[q])
  <2>1. CASE q = p
    <3>1. pc'[q] \in {"save_task", "send"} /\ job'[q] = job[p]
      BY <1>1, <1>5, <2>1, Zenon DEF Step
    <3> QED BY <1>4, <3>1, Zenon DEF CountsOK
  <2>2. CASE q # p
    <3>1. pc'[q] = pc[q] /\ job'[q] = job[q] /\ CountsOK(board, pc[q], job[q])
      BY <1>1, <1>5, <2>2, Zenon DEF Step, BudgetInv
    <3>2. job[q] \in Job /\ job[q].legs \subseteq Leg /\ job[q].mode \in {"settle", "resend"}
      BY JobFacts, <1>1, Zenon
    <3>3. ASSUME NEW l \in job[q].legs, job[q].mode = "settle",
                 pc[q] \in {"payout_lock", "fetch", "build", "save", "record"}
          PROVE  board'.attempt[l] = None
      <4>1. l \in Leg /\ board.attempt[l] = None
        BY <3>1, <3>2, <3>3, Zenon DEF CountsOK
      <4>2. Sending(pc[q], job[q], l)
        BY <3>3, Zenon DEF Sending, Settling
      <4>3. ASSUME l \in legs PROVE FALSE
        <5>1. CASE job[p].mode = "settle"
          <6>1. Sending(pc[p], job[p], l)
            BY <1>1, <4>3, <5>1, Zenon DEF Sending, Settling
          <6> QED BY <2>2, <4>1, <4>2, <6>1, Zenon DEF IInv, Exclusive
        <5>2. CASE job[p].mode = "resend"
          BY <1>1, <4>1, <4>3, <5>2, Zenon DEF CountsOK
        <5>3. job[p].mode \in {"settle", "resend"}
          BY JobFacts, Zenon
        <5> QED BY <5>1, <5>2, <5>3, Zenon
      <4> QED BY <1>3, <4>1, <4>3, Zenon
    <3>4. ASSUME NEW l \in job[q].legs, job[q].mode = "resend", pc[q] \in {"save", "record"}
          PROVE  board'.attempt[l] # None
      <4>1. l \in Leg /\ board.attempt[l] # None
        BY <3>1, <3>2, <3>4, Zenon DEF CountsOK
      <4>2. board'.attempt[l] = IF l \in legs THEN rec[l] ELSE board.attempt[l]
        BY <1>3, <4>1, Zenon
      <4> QED BY <1>4, <4>1, <4>2, Zenon
    <3> QED BY <3>1, <3>3, <3>4, Zenon DEF CountsOK
  <2> QED BY <2>1, <2>2, Zenon
<1> QED BY <1>6, <1>7, Zenon DEF BudgetInv

\* The sweep resends only what is below the limit, and only the one leg its transaction
\* pays.
LEMMA BudgetResends ==
  ASSUME IInv, BudgetInv, Escrowed = {}, AskSource \/ ResendLostPayout
  PROVE  BudgetInv'
<1>0. Sweep \in Proc /\ UNCHANGED <<board, disk>> /\ "sweep" \notin Counting
  BY SweepIsProc, Zenon DEF AskSource, ResendLostPayout, Counting, Written
<1>1. Within(disk'.attempt) /\ board'.attempt = board.attempt
  BY <1>0, Zenon DEF BudgetInv
<1>2. pc[Sweep] \in Resolving /\ pc[Sweep] # "sweep"
  BY DEF AskSource, ResendLostPayout, Resolving
<1>3. /\ leg \in Leg /\ attempt # None /\ attempt \in PayoutAttempt /\ job[Sweep] \in Job
      /\ AttemptsOK(job[Sweep].batch) /\ AttemptsOK(board.attempt) /\ board.attempt \in Attempts
  <2>1. /\ leg \in Leg /\ attempt # None /\ job[Sweep] \in Job /\ AttemptsOK(job[Sweep].batch)
        /\ AttemptsOK(board.attempt) /\ board.attempt \in Attempts
    BY <1>2, ResolvingFacts, BoardFacts, Zenon DEF IInv, TxsOK
  <2> QED BY <2>1, Zenon DEF Job, Attempts, attempt
<1>4. ASSUME Return PROVE BudgetInv'
  BY <1>0, <1>4, BudgetRests, Zenon DEF Return
<1>5. CASE AskSource
  <2>1. ASSUME NEW at \in {"confirm", "abandon"}, Step(Sweep, at, job[Sweep]) PROVE BudgetInv'
    <3>1. at \notin Counting
      BY DEF Counting, Written
    <3> QED BY <1>0, <2>1, <3>1, BudgetRests, Zenon
  <2>2. ASSUME ~BudgetSpent(attempt), Step(Sweep, "resend", job[Sweep]) PROVE BudgetInv'
    <3>1. attempt.submissions < MAX_PAYOUT_SUBMISSIONS
      BY <1>3, <2>2, ConstantsAssumption DEF BudgetSpent, PayoutAttempt
    <3>2. CountsOK(board, "resend", job[Sweep])
      BY <3>1, Zenon DEF CountsOK, Written, attempt, leg
    <3> QED BY <1>0, <1>1, <2>2, <3>2, CountsStep, Zenon
  <2> DEFINE outcome == ResolveAgainst(job[Sweep].holds, attempt.tx.inputs, Unspent(TaskOf[leg]))
  <2>3. CASE outcome = "Confirmed"
    BY <1>5, <2>1, <2>3, Zenon DEF AskSource
  <2>4. CASE outcome = "NeverLanded"
    BY <1>5, <2>1, <2>2, <2>4, Zenon DEF AskSource
  <2>5. CASE outcome \notin {"Confirmed", "NeverLanded"}
    BY <1>4, <1>5, <2>5, Zenon DEF AskSource
  <2> QED BY <2>3, <2>4, <2>5, Zenon
<1>6. CASE ResendLostPayout
  <2> DEFINE legs == {l \in Legs(TaskOf[leg]) : /\ board.attempt[l] # None
                                                /\ board.attempt[l].tx = attempt.tx}
             rec == [l \in Leg |-> IF l \in legs
                                   THEN [board.attempt[l] EXCEPT !.submissions = @ + 1]
                                   ELSE None]
             j == [job[Sweep] EXCEPT !.mode = "resend", !.legs = legs, !.batch = batchLeft,
                                     !.leg = None, !.rec = rec]
  <2>1. Return \/ (board.attempt[leg] = attempt /\ Step(Sweep, "save", j))
    BY <1>6, Zenon DEF ResendLostPayout
  <2>2. CASE board.attempt[leg] = attempt /\ Step(Sweep, "save", j)
    <3>1. \A l \in legs : l \in Leg /\ board.attempt[l] # None /\ board.attempt[l].tx = attempt.tx
      BY Zenon DEF Legs
    <3>2. TxOK(attempt.tx) /\ leg \in attempt.tx.legs
      BY <1>3, Zenon DEF AttemptsOK, attempt
    <3>3. ASSUME NEW l \in legs PROVE l = leg
      <4>1. l \in attempt.tx.legs
        BY <1>3, <3>1, Zenon DEF AttemptsOK
      <4>2. attempt.tx.task \notin Escrowed
        OBVIOUS
      <4> QED BY <3>2, <4>1, <4>2, Zenon DEF TxOK
    <3>4. attempt.submissions < MAX_PAYOUT_SUBMISSIONS
      BY <1>0, <1>6, Zenon DEF BudgetInv, CountsOK, ResendLostPayout, attempt, leg
    <3> HIDE DEF legs
    <3>5. ASSUME NEW l \in Leg, rec[l] # None PROVE rec[l].submissions <= MAX_PAYOUT_SUBMISSIONS
      <4>1. l \in legs /\ rec[l] = [board.attempt[l] EXCEPT !.submissions = @ + 1]
        BY <3>5, Zenon
      <4>2. board.attempt[l] = attempt
        BY <2>2, <3>3, <4>1, Zenon
      <4>3. rec[l] = [attempt EXCEPT !.submissions = @ + 1]
        BY <4>1, <4>2, Zenon
      <4>4. rec[l].submissions = attempt.submissions + 1 /\ attempt.submissions \in Nat
        BY <1>3, <4>3 DEF PayoutAttempt
      <4> QED BY <3>4, <4>4, ConstantsAssumption
    <3>6. j.legs = legs /\ j.mode = "resend" /\ j.rec = rec
      BY <1>3, Zenon DEF Job
    <3> HIDE DEF j, rec
    <3>7. Within(j.rec)
      BY <3>5, <3>6, Zenon DEF Within
    <3>8. "settle" # "resend"
      OBVIOUS
    <3>9. CountsOK(board, "save", j)
      BY <3>1, <3>6, <3>7, <3>8, Zenon DEF CountsOK
    <3> QED BY <1>0, <1>1, <2>2, <3>9, CountsStep, Zenon
  <2> QED BY <1>4, <2>1, <2>2, Zenon
<1> QED BY <1>5, <1>6, Zenon

LEMMA BudgetStarts == Init => BudgetInv
<1> SUFFICES ASSUME Init PROVE BudgetInv
  OBVIOUS
<1>1. Within(board.attempt) /\ Within(disk.attempt)
  BY Zenon DEF Init, Within, NoAttempts
<1>2. "idle" \notin Counting
  BY DEF Counting, Written
<1>3. ASSUME NEW p \in Proc PROVE CountsOK(board, pc[p], job[p])
  BY <1>2, NotCounting, Zenon DEF Init
<1> QED BY <1>1, <1>3, Zenon DEF BudgetInv

\* What mark_payout_failed and save_confirmed_payout do to the attempts.
LEMMA BudgetVerdicts ==
  ASSUME IInv, BudgetInv, RecordConfirmedPayout \/ AbandonPayout
  PROVE  BudgetInv'
<1>1. pc[Sweep] \in Resolving /\ pc[Sweep] # "sweep" /\ Return
  BY DEF RecordConfirmedPayout, AbandonPayout, Resolving
<1>2. TypeOK /\ leg \in Leg /\ board \in TaskBoard /\ disk \in TaskBoard
      /\ board.attempt \in Attempts /\ disk.attempt \in Attempts
  BY <1>1, ResolvingFacts, BoardFacts, Zenon DEF IInv
<1>3. CASE RecordConfirmedPayout
  <2> DEFINE m == MarkRecipientPaid(board, leg)
             b == [m EXCEPT !.attempt[leg] = None]
  <2>1. m \in TaskBoard /\ m.attempt = board.attempt
    BY <1>2, MarkRecipientPaidFacts, Zenon
  <2>2. UNCHANGED <<board, disk>> \/ (board' = b /\ disk' = SaveConfirmedPayout(disk, b, leg))
    BY <1>3, Zenon DEF RecordConfirmedPayout
  <2> HIDE DEF m
  <2>3. b.attempt = [board.attempt EXCEPT ![leg] = None]
    BY <2>1, Zenon DEF TaskBoard
  <2> HIDE DEF b
  <2>4. SaveConfirmedPayout(disk, b, leg).attempt = [disk.attempt EXCEPT ![leg] = None]
    BY <1>2, Zenon DEF SaveConfirmedPayout, TaskSaved, TaskBoard
  <2>5. ASSUME NEW l \in Leg
        PROVE  /\ board'.attempt[l] \in {None, board.attempt[l]}
               /\ disk'.attempt[l] \in {None, disk.attempt[l]}
    BY <1>2, <2>2, <2>3, <2>4, Zenon DEF Attempts
  <2> QED BY <1>1, <2>5, BudgetDrops, Zenon
<1>4. CASE AbandonPayout
  <2> DEFINE t == TaskOf[leg]
             dropped == {l \in Legs(t) : board.attempt[l] # None}
             f == [board EXCEPT !.status[t] = "PayoutFailed"]
             b == Dropped(f, dropped)
  <2>1. UNCHANGED <<board, disk>>
        \/ (board' = b /\ disk' = SaveTaskAndDropPayoutAttempts(disk, b, t, dropped))
    BY <1>4, Zenon DEF AbandonPayout
  <2>2. f \in TaskBoard /\ f.attempt = board.attempt
    BY <1>2, ConstantsAssumption, Zenon DEF TaskBoard, TaskStatus
  <2> HIDE DEF dropped, f, t
  <2>3. b.attempt = [l \in Leg |-> IF l \in dropped THEN None ELSE board.attempt[l]]
    BY <2>2, Zenon DEF Dropped, TaskBoard
  <2> HIDE DEF b
  <2>4. SaveTaskAndDropPayoutAttempts(disk, b, t, dropped).attempt
           = [l \in Leg |-> IF l \in dropped THEN None ELSE disk.attempt[l]]
    <3> DEFINE s == TaskSaved(disk, b, t)
    <3>1. s.attempt = disk.attempt /\ DOMAIN s = DOMAIN disk
      BY <1>2, Zenon DEF TaskSaved, TaskBoard
    <3>2. "attempt" \in DOMAIN s
      BY <1>2, <3>1, Zenon DEF TaskBoard
    <3> HIDE DEF s
    <3>3. Dropped(s, dropped).attempt = [l \in Leg |-> IF l \in dropped THEN None ELSE s.attempt[l]]
      BY <3>2, Zenon DEF Dropped
    <3> QED BY <3>1, <3>3, Zenon DEF SaveTaskAndDropPayoutAttempts, s
  <2>5. ASSUME NEW l \in Leg
        PROVE  /\ board'.attempt[l] \in {None, board.attempt[l]}
               /\ disk'.attempt[l] \in {None, disk.attempt[l]}
    BY <2>1, <2>3, <2>4, Zenon
  <2> QED BY <1>1, <2>5, BudgetDrops, Zenon
<1> QED BY <1>3, <1>4, Zenon

\* Where the process goes, nothing is counted.
LEMMA BudgetElsewhere ==
  ASSUME IInv, BudgetInv, Escrowed = {},
         \/ \E p \in Proc : \/ SettleEscrowFundedTask(p) \/ FinishSettle(p) \/ InsufficientFunds(p)
                            \/ SubmitTransaction(p) \/ SubmitFails(p) \/ Cancel(p)
                            \/ \E t \in Task : TrySettleVerifiedTask(p, t)
         \/ BeginPass \/ NextAttempt \/ EndPass \/ AskRecipient \/ ConfirmPayout
         \/ NodeUnreachable \/ CommitFails
  PROVE  BudgetInv'
<1>1. {"idle", "settle", "sweep", "recipient", "source", "record_paid"} \cap Counting = {}
  BY DEF Counting, Written
<1>2. Sweep \in Proc
  BY SweepIsProc
<1>3. ASSUME NEW p \in Proc, NEW at \in {"idle", "settle", "sweep", "recipient", "source", "record_paid"},
             NEW j, Step(p, at, j), UNCHANGED <<board, disk>>
      PROVE  BudgetInv'
  BY <1>1, <1>3, BudgetRests, Zenon
<1>4. ASSUME NEW p \in Proc, Resume(p), UNCHANGED <<board, disk>> PROVE BudgetInv'
  BY <1>3, <1>4, Zenon DEF Resume
<1>5. ASSUME Return, UNCHANGED <<board, disk>> PROVE BudgetInv'
  BY <1>2, <1>3, <1>5, Zenon DEF Return
<1>6. ASSUME NEW p \in Proc,
             \/ SettleEscrowFundedTask(p) \/ FinishSettle(p) \/ InsufficientFunds(p)
             \/ SubmitTransaction(p) \/ SubmitFails(p) \/ Cancel(p)
             \/ \E t \in Task : TrySettleVerifiedTask(p, t)
      PROVE  BudgetInv'
  <2>1. ~SettleEscrowFundedTask(p)
    BY Zenon DEF SettleEscrowFundedTask
  <2>2. CASE InsufficientFunds(p) \/ SubmitTransaction(p) \/ SubmitFails(p)
    BY <1>4, <2>2, Zenon DEF InsufficientFunds, SubmitTransaction, SubmitFails
  <2>3. CASE FinishSettle(p) \/ Cancel(p)
    BY <1>3, <2>3, Zenon DEF FinishSettle, Cancel
  <2>4. ASSUME NEW t \in Task, TrySettleVerifiedTask(p, t) PROVE BudgetInv'
    BY <1>3, <2>4, Zenon DEF TrySettleVerifiedTask
  <2> QED BY <1>6, <2>1, <2>2, <2>3, <2>4, Zenon
<1>7. CASE BeginPass \/ NextAttempt \/ EndPass \/ AskRecipient
  BY <1>2, <1>3, <1>7, Zenon DEF BeginPass, NextAttempt, EndPass, AskRecipient
<1>8. CASE ConfirmPayout \/ NodeUnreachable \/ CommitFails
  BY <1>2, <1>3, <1>5, <1>8, Zenon DEF ConfirmPayout, NodeUnreachable, CommitFails
<1> QED BY <1>6, <1>7, <1>8, Zenon

LEMMA BudgetSteps ==
  ASSUME Escrowed = {}, IInv, BudgetInv, [Next]_vars
  PROVE  BudgetInv'
<1>1. ASSUME UNCHANGED hub PROVE BudgetInv'
  <2>1. UNCHANGED <<board, disk, pc, job>>
    BY <1>1, Zenon DEF hub
  <2> QED BY <2>1, Zenon DEF BudgetInv
<1>2. CASE Network \/ UNCHANGED vars
  <2>1. UNCHANGED hub
    BY <1>2, Zenon DEF Network, NodeReads, WireLoses, NodeForgets, PeersForget, Mine, RecipientSpends, vars
  <2> QED BY <1>1, <2>1, Zenon
<1>3. CASE Crash
  <2>1. "idle" \notin Counting
    BY DEF Counting, Written
  <2>2. ASSUME NEW p \in Proc PROVE CountsOK(board', pc'[p], job'[p])
    BY <1>3, <2>1, NotCounting, Zenon DEF Crash
  <2>3. Within(board'.attempt) /\ Within(disk'.attempt)
    BY <1>3, Zenon DEF Crash, BudgetInv
  <2> QED BY <2>2, <2>3, Zenon DEF BudgetInv
<1>4. ASSUME NEW p \in Proc, Settle(p) PROVE BudgetInv'
  BY <1>4, BudgetSends, BudgetSaves, BudgetRecords, BudgetElsewhere, Zenon DEF Settle
<1>5. CASE Resolve
  BY <1>5, BudgetResends, BudgetVerdicts, BudgetElsewhere, Zenon DEF Resolve
<1>6. CASE Failure
  BY <1>3, <1>6, BudgetElsewhere, Zenon DEF Failure
<1>7. CASE BeginPass \/ \E p \in Proc : \E t \in Task : TrySettleVerifiedTask(p, t)
  BY <1>7, BudgetElsewhere, Zenon
<1> QED BY <1>2, <1>4, <1>5, <1>6, <1>7, Zenon DEF Next

\* Where every payout comes from the operator's wallet, no payout is counted more than
\* MAX_PAYOUT_SUBMISSIONS times, in memory or in the store, for any number of handlers,
\* disconnects and restarts (submit_task_payout, resend_lost_payout).
THEOREM OperatorPayoutsBounded ==
  ASSUME Escrowed = {}
  PROVE  Spec => []SubmissionsBounded
<1>1. IInv /\ BudgetInv /\ [Next]_vars => BudgetInv'
  BY BudgetSteps
<1>2. BudgetInv => SubmissionsBounded
  BY Zenon DEF BudgetInv, Within, SubmissionsBounded
<1> QED BY <1>1, <1>2, BudgetStarts, Invariance, PTL DEF Spec

\* Where every payout comes from the operator's wallet, each one on the network has its
\* attempt in memory and in the store, and is sent within its budget.
THEOREM OperatorAttemptsSound ==
  ASSUME Escrowed = {}
  PROVE  Spec => []AttemptsSound
<1>1. InFlightIsTracked /\ SubmissionsBounded => AttemptsSound
  BY Zenon DEF AttemptsSound
<1>2. Spec => []InFlightIsTracked
  BY OperatorPayoutsTracked
<1>3. Spec => []SubmissionsBounded
  BY OperatorPayoutsBounded
<1> QED BY <1>1, <1>2, <1>3, PTL
=============================================================================
