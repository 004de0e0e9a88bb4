------------------------------ MODULE Payments ------------------------------
(***************************************************************************)
(* The payment journal: faucet grants, exchange withdrawals and escrow     *)
(* disbursements, from the request that builds a transaction to the sweep  *)
(* that finds out what became of it.                                       *)
(*                                                                         *)
(* A request holds its wallet's lock from the check to the commit.  The    *)
(* commit writes the payment and takes the money it promises (a grant, a   *)
(* debit, a deposit) at once, before anything is sent; the board is changed*)
(* under the same lock after the commit, so memory and store agree and one *)
(* journal stands for both.  A transaction is named after the request that *)
(* built it, and a resend sends that same transaction.  FanOut requests are*)
(* maintain_wallet's reshapes, which spend coins without a journal entry.  *)
(***************************************************************************)
EXTENDS Naturals, Sequences

CONSTANTS
    Request,        \* requests that may build one transaction each
    Kind,           \* "Faucet", "Withdrawal", "Escrow" or "FanOut"
    SubjectOf,      \* the key, withdrawal or deposit a request is about
    Forfeit,        \* the Escrow requests that pay out a forfeited bond
    WalletOf,       \* the address whose coins a request spends
    Coin, CoinsOf,  \* outputs that may ever be at each address
    Worth,          \* what a set of outputs adds up to
    AtStart,        \* those there when the hub starts
    Active,         \* the sets of requests that may arrive together
    Subject,
    Watched,        \* the subject whose promise is followed (any one of them)
    None,
    MAX_PAYOUT_SUBMISSIONS,
    EVIDENCE_SCAN_BLOCKS_PER_PASS,
    EVIDENCE_SCAN_LOOKBACK,
    MaxBlocks       \* bound: blocks mined

Wallet == {WalletOf[r] : r \in Request}
Journalled == {r \in Request : Kind[r] # "FanOut"}

Status == {"Pending", "Confirmed", "NeedsReview"}
Payment == [status : Status, submissions : 1..MAX_PAYOUT_SUBMISSIONS, scanned_through : Nat]

ASSUME PaymentsAssumption ==
    /\ Kind \in [Request -> {"Faucet", "Withdrawal", "Escrow", "FanOut"}]
    /\ SubjectOf \in [Request -> Subject] /\ Watched \in Subject
    /\ Forfeit \subseteq {r \in Request : Kind[r] = "Escrow"}
    /\ CoinsOf \in [Wallet -> SUBSET Coin]
    /\ Worth \in [SUBSET Coin -> Nat] /\ Worth[{}] = 0
    /\ \A v, w \in Wallet : v # w => CoinsOf[v] \cap CoinsOf[w] = {}
    /\ None \notin Request /\ None \notin Payment
    /\ AtStart \subseteq Coin
    /\ Active \subseteq SUBSET Request
    /\ MAX_PAYOUT_SUBMISSIONS \in Nat \ {0}
    /\ EVIDENCE_SCAN_BLOCKS_PER_PASS \in Nat \ {0}
    /\ EVIDENCE_SCAN_LOOKBACK \in Nat
    /\ MaxBlocks \in Nat
    /\ \A A \in Active : \A q, r \in A \cap Journalled :
          SubjectOf[q] = SubjectOf[r] => Kind[q] = Kind[r]

VARIABLES
    journal,        \* TaskBoard.payments and PAYMENTS_TABLE
    taken,          \* subjects granted, debited or Disbursing
    closed,         \* subjects whose deposit is Refunded
    earned,         \* what each subject's forfeited bond has been credited for
    pc, view, tx,   \* each request: where it is, coins it saw, its inputs
    inflight,       \* coins of the fan-outs this process believes in flight
    sweep,          \* resolve_all's locals
    arrived,        \* coins that have reached their address
    wire, mempool, peers,   \* transactions on the socket, at our node, elsewhere
    blocks,         \* the active chain: the transaction of each block, or None
    onward,         \* payments whose recipient has spent the output
    active          \* the requests of this behaviour

hub == <<journal, taken, closed, earned, pc, view, tx, inflight, sweep, active>>
chain == <<arrived, mempool, peers, blocks, onward>>
vars == <<hub, wire, chain>>

-----------------------------------------------------------------------------
(* Data *)

Mined == {blocks[i] : i \in 1..Len(blocks)} \ {None}
Unspent(w) == (CoinsOf[w] \cap arrived) \ UNION {tx[r] : r \in Mined}
Marked(c) == \E r \in mempool : c \in tx[r]
PaymentsFor(s) == {r \in Journalled \cap active : journal[r] # None /\ SubjectOf[r] = s}

\* payout_lock, exchange_custody_payout_lock and EscrowSettlementGuard.
LockHeld(w) == \E r \in active : WalletOf[r] = w /\ pc[r] \in {"fetch", "build", "prepare"}

\* reserve_inputs: the coins of every unresolved payment of this wallet.
Reserved(w) ==
    UNION {tx[r] : r \in {q \in Journalled \cap active :
                             /\ journal[q] # None /\ journal[q].status # "Confirmed"
                             /\ WalletOf[q] = w}}

IdleSweep == [at |-> "idle", todo |-> {}, cur |-> None, snap |-> None, holds |-> FALSE,
              scanned |-> 0, again |-> FALSE]

Init ==
    /\ journal = [r \in Journalled |-> None]
    /\ taken = {} /\ closed = {}
    /\ earned = [s \in Subject |-> 0]
    /\ pc = [r \in Request |-> "idle"]
    /\ view = [r \in Request |-> {}]
    /\ tx = [r \in Request |-> {}]
    /\ inflight = {}
    /\ sweep = IdleSweep
    /\ arrived = AtStart
    /\ wire = {} /\ mempool = {} /\ peers = {} /\ onward = {}
    /\ blocks = << >>
    /\ active \in Active

-----------------------------------------------------------------------------
(* A request: faucet_claim, withdraw, disburse_escrow or maintain_wallet. *)

\* The subject is still to be paid: can_claim_faucet, an available balance,
\* a deposit with no payment and not Refunded.
Owed(r) == Kind[r] = "FanOut" \/ SubjectOf[r] \notin taken

Lock(r) ==
    /\ pc[r] = "idle"
    /\ ~LockHeld(WalletOf[r])
    /\ Owed(r)
    /\ pc' = [pc EXCEPT ![r] = "fetch"]
    /\ UNCHANGED <<journal, taken, closed, earned, view, tx, inflight, sweep, active, wire, chain>>

\* A reshape believed in flight, an input present and marked: maintain_wallet
\* leaves the wallet alone.
StillInFlight(r) ==
    /\ Kind[r] = "FanOut"
    /\ \E c \in Unspent(WalletOf[r]) \cap inflight : Marked(c) \/ c \in Reserved(WalletOf[r])

\* fetch_utxos (or the balance of a deposit): the coins the node shows as
\* unspent and unmarked.
FetchUtxos(r) ==
    LET waiting == StillInFlight(r)
    IN  /\ pc[r] = "fetch"
        /\ view' = [view EXCEPT ![r] = IF waiting THEN {}
                                       ELSE {c \in Unspent(WalletOf[r]) : ~Marked(c)}]
        /\ pc' = [pc EXCEPT ![r] = IF waiting THEN "done" ELSE "build"]
        /\ inflight' = IF Kind[r] = "FanOut" /\ ~waiting THEN {} ELSE inflight
        /\ UNCHANGED <<journal, taken, closed, earned, tx, sweep, active, wire, chain>>

\* The build: one coin covers a grant, a withdrawal or a reshape; a deposit's
\* whole balance goes, and an empty one gets a payment without a transaction.
Affordable(r) ==
    LET free == view[r] \ Reserved(WalletOf[r])
    IN  CASE Kind[r] # "Escrow" -> {{c} : c \in free}
          [] Kind[r] = "Escrow" /\ view[r] = {} -> {{}}
          [] OTHER -> {free} \ {{}}

BuildPayment(r) ==
    /\ pc[r] = "build"
    /\ \E inputs \in Affordable(r) :
          /\ tx' = [tx EXCEPT ![r] = inputs]
          /\ inflight' = IF Kind[r] = "FanOut" THEN inputs ELSE inflight
    /\ view' = [view EXCEPT ![r] = {}]
    /\ pc' = [pc EXCEPT ![r] = IF Kind[r] = "FanOut" THEN "send" ELSE "prepare"]
    /\ UNCHANGED <<journal, taken, closed, earned, sweep, active, wire, chain>>

\* prepare, under the board's write lock: the same conditions once more.
StillOwed(r) == SubjectOf[r] \notin taken

\* save_payment_effects: the payment, and the money it takes, in one commit.
\* scanned_through starts from a chain height sampled up to a sweep ago.
Prepare(r) ==
    /\ pc[r] = "prepare"
    /\ IF StillOwed(r)
       THEN /\ \E height \in 0..Len(blocks) :
                  journal' = [journal EXCEPT ![r] =
                      [status |-> "Pending", submissions |-> 1,
                       scanned_through |-> IF height > EVIDENCE_SCAN_LOOKBACK
                                           THEN height - EVIDENCE_SCAN_LOOKBACK ELSE 0]]
            /\ taken' = taken \cup {SubjectOf[r]}
            /\ pc' = [pc EXCEPT ![r] = "send"]
       ELSE /\ pc' = [pc EXCEPT ![r] = "done"]
            /\ UNCHANGED <<journal, taken>>
    /\ tx' = IF StillOwed(r) THEN tx ELSE [tx EXCEPT ![r] = {}]
    /\ UNCHANGED <<closed, earned, view, inflight, sweep, active, wire, chain>>

\* Faulty variant: a payment that was under review confirms without effects.
ConfirmPendingOnly(r) ==
    LET live == journal[r].status = "Pending"
    IN  /\ journal' = [journal EXCEPT ![r].status = "Confirmed"]
        /\ closed' = IF Kind[r] = "Escrow" /\ live THEN closed \cup {SubjectOf[r]} ELSE closed
        /\ earned' = IF r \in Forfeit /\ live
                     THEN [earned EXCEPT ![SubjectOf[r]] = @ + Worth[tx[r]]] ELSE earned

\* confirm: the status, the deposit and the forfeited bond's credit in one
\* commit; a payment already confirmed is left alone.
Confirm(r) ==
    IF journal[r].status = "Confirmed" THEN UNCHANGED <<journal, closed, earned>>
    ELSE /\ journal' = [journal EXCEPT ![r].status = "Confirmed"]
         /\ closed' = IF Kind[r] = "Escrow" THEN closed \cup {SubjectOf[r]} ELSE closed
         /\ earned' = IF r \in Forfeit
                      THEN [earned EXCEPT ![SubjectOf[r]] = @ + Worth[tx[r]]] ELSE earned

\* send: a write the node may never read, or the closing of an empty deposit.
Send(r) ==
    /\ pc[r] = "send"
    /\ pc' = [pc EXCEPT ![r] = "done"]
    /\ IF tx[r] = {}
       THEN Confirm(r) /\ UNCHANGED wire
       ELSE wire' = wire \cup {r} /\ UNCHANGED <<journal, closed, earned>>
    /\ UNCHANGED <<taken, view, tx, inflight, sweep, active, chain>>

\* An early return, a failed node call or commit, or a client that hangs up.
GiveUp(r) ==
    /\ pc[r] \in {"fetch", "build", "prepare", "send"}
    /\ pc' = [pc EXCEPT ![r] = "done"]
    /\ tx' = IF pc[r] = "prepare" THEN [tx EXCEPT ![r] = {}] ELSE tx
    /\ view' = [view EXCEPT ![r] = {}]
    /\ UNCHANGED <<journal, taken, closed, earned, inflight, sweep, active, wire, chain>>

\* The sweep tries a disbursement again while nothing is journalled for it.
Retry(r) ==
    /\ pc[r] = "done" /\ Kind[r] = "Escrow" /\ journal[r] = None
    /\ pc' = [pc EXCEPT ![r] = "idle"]
    /\ tx' = [tx EXCEPT ![r] = {}]
    /\ UNCHANGED <<journal, taken, closed, earned, view, inflight, sweep, active, wire, chain>>

RequestStep(r) ==
    \/ Lock(r) \/ FetchUtxos(r) \/ BuildPayment(r) \/ Prepare(r) \/ Send(r)
    \/ GiveUp(r) \/ Retry(r)

-----------------------------------------------------------------------------
(* The sweep: resolve_all, then resolve for each payment of its snapshot. *)

cur == sweep.cur
Resolved == [sweep EXCEPT !.at = "next", !.cur = None, !.snap = None, !.holds = FALSE,
                          !.scanned = 0, !.again = FALSE]

ResolveAll ==
    /\ sweep.at = "idle"
    /\ \E r \in Journalled : journal[r] # None /\ journal[r].status # "Confirmed"
    /\ sweep' = [sweep EXCEPT !.at = "next", !.todo =
                    {<<r, journal[r]>> : r \in {q \in Journalled :
                        journal[q] # None /\ journal[q].status # "Confirmed"}}]
    /\ UNCHANGED <<journal, taken, closed, earned, pc, view, tx, inflight, active, wire, chain>>

NextPayment ==
    /\ sweep.at = "next"
    /\ IF sweep.todo = {} THEN sweep' = IdleSweep
       ELSE \E p \in sweep.todo :
               sweep' = [sweep EXCEPT !.at = "recipient", !.todo = @ \ {p}, !.cur = p[1],
                                      !.snap = p[2], !.scanned = p[2].scanned_through]
    /\ UNCHANGED <<journal, taken, closed, earned, pc, view, tx, inflight, active, wire, chain>>

\* A payment still in its grace period is skipped; a node read or a commit fails.
Unresolved ==
    /\ sweep.at \in {"recipient", "source", "confirm", "resend", "scan"}
    /\ sweep' = Resolved
    /\ UNCHANGED <<journal, taken, closed, earned, pc, view, tx, inflight, active, wire, chain>>

AskRecipient ==
    /\ sweep.at = "recipient"
    /\ sweep' = [sweep EXCEPT !.at = IF tx[cur] = {} THEN "confirm" ELSE "source",
                              !.holds = cur \in Mined \ onward]
    /\ UNCHANGED <<journal, taken, closed, earned, pc, view, tx, inflight, active, wire, chain>>

\* Faulty variant: coins that are gone must have paid the recipient.
GoneMeansPaid(holds, inputs, present) ==
    IF holds \/ ~(inputs \subseteq present) THEN "Confirmed"
    ELSE IF \E c \in inputs : Marked(c) THEN "HeldInMempool" ELSE "NeverLanded"

\* resolve_against
ResolveAgainst(holds, inputs, present) ==
    IF holds THEN "Confirmed"
    ELSE IF ~(inputs \subseteq present) THEN "Ambiguous"
    ELSE IF \E c \in inputs : Marked(c) THEN "HeldInMempool"
    ELSE "NeverLanded"

\* Compare-then-write: nothing moved the payment since the snapshot.
Unmoved == /\ journal[cur].submissions = sweep.snap.submissions
           /\ journal[cur].status = sweep.snap.status

OutOfSubmissions(p) == p.submissions >= MAX_PAYOUT_SUBMISSIONS

AskSource ==
    LET outcome == ResolveAgainst(sweep.holds, tx[cur], Unspent(WalletOf[cur]))
    IN  /\ sweep.at = "source"
        /\ sweep' = CASE outcome = "Confirmed" -> [sweep EXCEPT !.at = "confirm"]
                      [] outcome = "NeverLanded" /\ sweep.snap.status = "Pending" ->
                            [sweep EXCEPT !.at = "resend"]
                      [] outcome = "HeldInMempool" -> Resolved
                      [] OTHER -> [sweep EXCEPT !.at = "scan"]
        /\ UNCHANGED <<journal, taken, closed, earned, pc, view, tx, inflight, active, wire, chain>>

\* NeverLanded while Pending: file it for review, or count a submission and
\* send the same transaction again.
Resend ==
    /\ sweep.at = "resend"
    /\ IF ~Unmoved THEN UNCHANGED <<journal, wire>>
       ELSE IF OutOfSubmissions(sweep.snap)
       THEN /\ journal' = [journal EXCEPT ![cur] = [sweep.snap EXCEPT !.status = "NeedsReview"]]
            /\ UNCHANGED wire
       ELSE /\ journal' = [journal EXCEPT ![cur] = [sweep.snap EXCEPT !.submissions = @ + 1]]
            /\ wire' \in {wire, wire \cup {cur}}
    /\ sweep' = Resolved
    /\ UNCHANGED <<taken, closed, earned, pc, view, tx, inflight, active, chain>>

ConfirmPayment ==
    /\ sweep.at = "confirm"
    /\ Confirm(cur)
    /\ sweep' = Resolved
    /\ UNCHANGED <<taken, pc, view, tx, inflight, active, wire, chain>>

\* save_progress
SaveProgress(status, upto) ==
    IF Unmoved
    THEN journal' = [journal EXCEPT ![cur] = [sweep.snap EXCEPT !.status = status,
                                                 !.scanned_through = upto]]
    ELSE UNCHANGED journal

\* Only an empty reply is the tip: the node caps its own batches.
AtTip(read) == read = 0

\* scan_for_evidence: up to two bounded reads of the chain from where the last
\* left off, for a payment whose coins are gone and whose output is too.
ScanForEvidence ==
    /\ sweep.at = "scan"
    /\ \E read \in 0..EVIDENCE_SCAN_BLOCKS_PER_PASS :
          LET from == sweep.scanned
              found == \E i \in (from + 1)..(from + read) : blocks[i] = cur
          IN  /\ from + read <= Len(blocks) \/ read = 0
              /\ read = 0 => from >= Len(blocks)
              /\ CASE found ->
                        sweep' = [sweep EXCEPT !.at = "confirm"] /\ UNCHANGED journal
                   [] ~found /\ AtTip(read) ->
                        SaveProgress("NeedsReview", from) /\ sweep' = Resolved
                   [] ~found /\ ~AtTip(read) /\ sweep.again ->
                        SaveProgress(sweep.snap.status, from + read) /\ sweep' = Resolved
                   [] OTHER ->
                        /\ sweep' = [sweep EXCEPT !.scanned = from + read, !.again = TRUE]
                        /\ UNCHANGED journal
    /\ UNCHANGED <<taken, closed, earned, pc, view, tx, inflight, active, wire, chain>>

SweepStep ==
    \/ ResolveAll \/ NextPayment \/ Unresolved \/ AskRecipient \/ AskSource
    \/ Resend \/ ConfirmPayment \/ ScanForEvidence

\* The process dies: every request is gone, the journal is read back.
Crash ==
    /\ pc' = [r \in Request |-> IF pc[r] = "idle" THEN "idle" ELSE "done"]
    /\ tx' = [r \in Request |-> IF pc[r] = "prepare" THEN {} ELSE tx[r]]
    /\ view' = [r \in Request |-> {}]
    /\ sweep' = IdleSweep
    /\ inflight' = {}
    /\ UNCHANGED <<journal, taken, closed, earned, active, wire, chain>>

-----------------------------------------------------------------------------
(* The node, the chain and the payer of a deposit. *)

Conflict(r, pool) == \E q \in pool : tx[q] \cap tx[r] # {}

CoinArrives(c) ==
    /\ c \notin arrived
    /\ arrived' = arrived \cup {c}
    /\ UNCHANGED <<hub, wire, mempool, peers, blocks, onward>>

NodeReads(r) ==
    /\ r \in wire
    /\ wire' = wire \ {r}
    /\ IF tx[r] \subseteq Unspent(WalletOf[r]) /\ ~Conflict(r, mempool)
       THEN /\ mempool' = mempool \cup {r}
            /\ peers' \in {peers} \cup (IF Conflict(r, peers) THEN {} ELSE {peers \cup {r}})
       ELSE UNCHANGED <<mempool, peers>>
    /\ UNCHANGED <<hub, arrived, blocks, onward>>

WireLoses(r) ==
    /\ r \in wire
    /\ wire' = wire \ {r}
    /\ UNCHANGED <<hub, chain>>

NodeForgets(r) ==
    /\ r \in mempool
    /\ mempool' = mempool \ {r}
    /\ UNCHANGED <<hub, wire, arrived, peers, blocks, onward>>

PeersForget(r) ==
    /\ r \in peers
    /\ peers' = peers \ {r}
    /\ UNCHANGED <<hub, wire, arrived, mempool, blocks, onward>>

\* A block, with one of the hub's transactions or with none.
Mine(x) ==
    /\ Len(blocks) < MaxBlocks
    /\ x \in mempool \cup peers \cup {None}
    /\ blocks' = Append(blocks, x)
    /\ IF x = None THEN UNCHANGED <<mempool, peers>>
       ELSE /\ mempool' = {r \in mempool : tx[r] \cap tx[x] = {}}
            /\ peers' = {r \in peers : tx[r] \cap tx[x] = {}}
    /\ UNCHANGED <<hub, wire, arrived, onward>>

RecipientSpends(r) ==
    /\ r \in Mined \ onward
    /\ onward' = onward \cup {r}
    /\ UNCHANGED <<hub, wire, arrived, mempool, peers, blocks>>

Network ==
    \/ \E c \in Coin : CoinArrives(c)
    \/ \E r \in active : \/ NodeReads(r) \/ WireLoses(r) \/ NodeForgets(r) \/ PeersForget(r)
                         \/ RecipientSpends(r)
    \/ \E x \in active \cup {None} : Mine(x)

Next == (\E r \in active : RequestStep(r)) \/ SweepStep \/ Crash \/ Network

Spec == Init /\ [][Next]_vars

-----------------------------------------------------------------------------
(* Properties *)

\* The journal and every local keep their types; in particular a payment is
\* sent at most MAX_PAYOUT_SUBMISSIONS times, over every restart.
TypeOK ==
    /\ journal \in [Journalled -> Payment \cup {None}]
    /\ taken \subseteq Subject /\ closed \subseteq Subject
    /\ earned \in [Subject -> Nat]
    /\ pc \in [Request -> {"idle", "fetch", "build", "prepare", "send", "done"}]
    /\ view \in [Request -> SUBSET Coin] /\ tx \in [Request -> SUBSET Coin]
    /\ inflight \subseteq Coin /\ arrived \subseteq Coin
    /\ wire \cup mempool \cup peers \cup onward \subseteq Request
    /\ blocks \in Seq(Request \cup {None})
    /\ active \in Active

\* No two unresolved payments, of any purpose, rest on the same coin: the
\* wallet lock and reserve_inputs, across restarts and forgotten mempools.
InputsDisjoint ==
    \A q, r \in Journalled :
        /\ q # r /\ journal[q] # None /\ journal[r] # None
        /\ "Confirmed" \notin {journal[q].status, journal[r].status}
        => tx[q] \cap tx[r] = {}

\* A deposit is Refunded exactly when its one payment is Confirmed, and a
\* forfeited bond counts as earned exactly once and for what was sent (confirm).
ClosedWithItsPayment ==
    \A s \in Subject :
        /\ s \in closed <=> \E r \in PaymentsFor(s) :
                                Kind[r] = "Escrow" /\ journal[r].status = "Confirmed"
        /\ earned[s] = Worth[UNION {tx[r] : r \in {p \in PaymentsFor(s) \cap Forfeit :
                                                      journal[p].status = "Confirmed"}}]

\* A payment filed for review because the scan reached the tip without finding
\* it, its coins gone, is one no block holds; only a payment that ran out of
\* submissions may still be mined (resolve's AbsentFromChain arm).
ReviewedIsUnmined ==
    \A r \in Journalled :
        /\ journal[r] # None /\ journal[r].status = "NeedsReview"
        /\ journal[r].submissions < MAX_PAYOUT_SUBMISSIONS
        => r \notin Mined

PaymentOf(r, s) == r \in Journalled /\ SubjectOf[r] = s /\ journal[r] # None

standing(s) ==
    IF s \notin taken THEN "free"
    ELSE IF \E r \in active : PaymentOf(r, s) /\ journal[r].status = "Confirmed"
    THEN IF \E r \in active : PaymentOf(r, s) /\ journal[r].status = "Confirmed" /\ tx[r] = {}
         THEN "void" ELSE "reported"
    ELSE "reserved"

minedFor(s) ==
    LET at == {i \in 1..Len(blocks) : blocks[i] # None /\ PaymentOf(blocks[i], s)}
    IN  IF at = {} THEN 0 ELSE IF \A i, j \in at : i = j THEN 1 ELSE 2

\* The journal implements Promise for one payment: the money is set aside
\* first, leaves at most once, and is reported only when it did.
Promised == INSTANCE Promise WITH promise <- standing(Watched), paid <- minedFor(Watched)
KeepsPromise == Promised!PSpec

\* The journal is right about every payment in it: no two unresolved ones rest on one coin,
\* a deposit is Refunded exactly when its one payment is confirmed, and what was filed for
\* review because the scan found nothing is on no block (payments.rs).
JournalSound == TypeOK /\ InputsDisjoint /\ ClosedWithItsPayment /\ ReviewedIsUnmined
=============================================================================
