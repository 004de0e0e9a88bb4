------------------------------- MODULE Watch -------------------------------
(***************************************************************************)
(* What the hub can say of itself while it runs: the sweep loop with its   *)
(* lag (sweep_loop of hub/src/main.rs), the gauges a pass samples last     *)
(* (sample_gauges), and the operators' overview with its alerts            *)
(* (hub/src/admin.rs).  A pass takes time, the node may be away for any    *)
(* step of it, and the overview is read at any moment, from gauges of the  *)
(* last pass and a board that has moved on.                                *)
(***************************************************************************)
EXTENDS Integers, FiniteSets, FiniteSetsExt

CONSTANTS
  Payout,          \* task payouts on the wire
  INTERVAL,        \* SWEEP_INTERVAL_SECONDS
  CHAIN_STALE,     \* 180 seconds
  PAYOUT_STUCK,    \* 900 seconds
  LastTick,        \* bound on the clock
  MaxOutages,      \* bound on the times the node goes away
  MaxMoves,        \* bound on deposits, withdrawals and losses
  Unsent           \* a payout that is not on the wire

ASSUME WatchAssumption ==
  /\ INTERVAL \in Nat \ {0} /\ {CHAIN_STALE, PAYOUT_STUCK, LastTick} \subseteq Nat
  /\ Unsent \notin Nat

VARIABLES
  tick,              \* seconds since the hub came up
  node_up, outages,
  pass,              \* the sweep: the stage it is at and when its next tick is due
  previous_start,    \* start of the last pass, -1 before the first
  lag,               \* sweep_last_lag_ms and sweep_max_lag_ms
  lateness,          \* how far behind its schedule the last pass started
  submitted_at,      \* when each payout was put on the wire
  custody, owed,     \* custody's balance on chain, and what the board owes its accounts
  moved, moves,      \* when either last changed, and how often they did
  gauge,             \* the sampled atomics
  read               \* when tip, balance and board were last sampled, -1 for never

watchVars == <<tick, node_up, outages, pass, previous_start, lag, lateness, submitted_at,
               custody, owed, moved, moves, gauge, read>>

WatchInit ==
  /\ tick = 0 /\ node_up \in BOOLEAN /\ outages = 0
  /\ pass = [at |-> "idle", due |-> 0] /\ previous_start = -1
  /\ lag = [last |-> 0, max |-> 0] /\ lateness = 0
  /\ submitted_at = [p \in Payout |-> Unsent]
  /\ custody = 1 /\ owed \in {0, 1} /\ moved = 0 /\ moves = 0
  /\ gauge = [outstanding |-> {}, oldest |-> 0, observed |-> -1, custody |-> 0]
  /\ read = [tip |-> -1, balance |-> -1, board |-> -1]

Outstanding == {p \in Payout : submitted_at[p] # Unsent}

-----------------------------------------------------------------------------
(* The sweep loop.  tokio's interval keeps its schedule: a tick that was   *)
(* missed fires as soon as the loop asks for it.                           *)

\* The stages of a pass that matter here; sample_gauges runs last.
Following == [start |-> "resolve", resolve |-> "board", board |-> "tip", tip |-> "balance",
              balance |-> "idle"]

StartPass ==
  /\ pass.at = "idle" /\ tick \geq pass.due
  /\ LET behind == IF previous_start = -1 THEN 0
                   ELSE Max({0, tick - previous_start - INTERVAL})
     IN lag' = [last |-> behind, max |-> Max({lag.max, behind})]
  /\ previous_start' = tick /\ lateness' = tick - pass.due
  /\ pass' = [at |-> Following.start, due |-> pass.due + INTERVAL]
  /\ UNCHANGED <<tick, node_up, outages, submitted_at, custody, owed, moved, moves, gauge, read>>

Proceeds(stage) ==
  /\ pass' = [pass EXCEPT !.at = Following[stage]]
  /\ UNCHANGED previous_start

\* The work of the pass, of which the payouts it settles matter here.
ResolvePayouts ==
  /\ pass.at = "resolve" /\ Proceeds("resolve")
  /\ \E done \in SUBSET Outstanding :
       /\ done # {} => node_up
       /\ submitted_at' = [p \in Payout |-> IF p \in done THEN Unsent ELSE submitted_at[p]]
  /\ UNCHANGED <<tick, node_up, outages, lag, lateness, custody, owed, moved, moves, gauge, read>>

\* The head of outstanding_payout_attempts, oldest first.
OldestWait == IF Outstanding = {} THEN 0 ELSE tick - Min({submitted_at[p] : p \in Outstanding})

SampleBoard ==
  /\ pass.at = "board" /\ Proceeds("board")
  /\ gauge' = [gauge EXCEPT !.outstanding = Outstanding, !.oldest = OldestWait]
  /\ read' = [read EXCEPT !.board = tick]
  /\ UNCHANGED <<tick, node_up, outages, lag, lateness, submitted_at, custody, owed, moved, moves>>

\* Faulty variant: the observation is stamped whatever came back.
StampsAlways == tick

\* A success stamps the observation, a failure is only counted.
TipObserved == IF node_up THEN tick ELSE gauge.observed

SampleTip ==
  /\ pass.at = "tip" /\ Proceeds("tip")
  /\ gauge' = [gauge EXCEPT !.observed = TipObserved]
  /\ read' = IF node_up THEN [read EXCEPT !.tip = tick] ELSE read
  /\ UNCHANGED <<tick, node_up, outages, lag, lateness, submitted_at, custody, owed, moved, moves>>

BalanceRead == IF node_up THEN custody ELSE gauge.custody

SampleBalance ==
  /\ pass.at = "balance" /\ Proceeds("balance")
  /\ gauge' = [gauge EXCEPT !.custody = BalanceRead]
  /\ read' = IF node_up THEN [read EXCEPT !.balance = tick] ELSE read
  /\ UNCHANGED <<tick, node_up, outages, lag, lateness, submitted_at, custody, owed, moved, moves>>

-----------------------------------------------------------------------------
(* The rest of the hub and the world.                                      *)

Submits(p) ==
  /\ submitted_at[p] = Unsent
  /\ submitted_at' = [submitted_at EXCEPT ![p] = tick]
  /\ UNCHANGED <<tick, node_up, outages, pass, previous_start, lag, lateness, custody, owed,
                 moved, moves, gauge, read>>

\* A deposit or a withdrawal on the board, a transaction of custody on the chain.
MoneyMoves ==
  /\ moves < MaxMoves
  /\ \/ \E n \in {owed - 1, owed + 1} : n \in 0 .. 2 /\ owed' = n /\ UNCHANGED custody
     \/ \E n \in {custody - 1, custody + 1} : n \in 0 .. 2 /\ custody' = n /\ UNCHANGED owed
  /\ moved' = tick /\ moves' = moves + 1
  /\ UNCHANGED <<tick, node_up, outages, pass, previous_start, lag, lateness, submitted_at,
                 gauge, read>>

NodeComesAndGoes ==
  /\ node_up => outages < MaxOutages
  /\ node_up' = ~node_up
  /\ outages' = IF node_up THEN outages + 1 ELSE outages
  /\ UNCHANGED <<tick, pass, previous_start, lag, lateness, submitted_at, custody, owed, moved,
                 moves, gauge, read>>

\* A loop that waits for its tick starts when it is due; only a running pass delays it.
SecondPasses ==
  /\ tick < LastTick /\ (pass.at = "idle" => tick < pass.due)
  /\ tick' = tick + 1
  /\ UNCHANGED <<node_up, outages, pass, previous_start, lag, lateness, submitted_at, custody,
                 owed, moved, moves, gauge, read>>

WatchNext ==
  \/ StartPass \/ ResolvePayouts \/ SampleBoard \/ SampleTip \/ SampleBalance
  \/ \E p \in Payout : Submits(p)
  \/ MoneyMoves
  \/ NodeComesAndGoes
  \/ SecondPasses

WatchSpec == WatchInit /\ [][WatchNext]_watchVars

-----------------------------------------------------------------------------
(* The overview: liabilities live from the board, everything else from the *)
(* gauges, and three of the alerts alerts_for draws from both.             *)

overview ==
  [custody_balance |-> gauge.custody,
   solvent |-> gauge.custody \geq owed,
   task_payouts_outstanding |-> gauge.outstanding,
   task_payouts_oldest_seconds |-> gauge.oldest,
   chain_observation_age_seconds |-> IF gauge.observed = -1 THEN 0 ELSE tick - gauge.observed]

insolvent(o) == ~o.solvent
chain_stale(o) == o.chain_observation_age_seconds > CHAIN_STALE
task_payout_stuck(o) == o.task_payouts_oldest_seconds > PAYOUT_STUCK

-----------------------------------------------------------------------------
(* Properties.                                                             *)

\* A node that answered once and has been silent since raises chain_stale when the limit is
\* past, whether the passes since then failed, hang or never ran: the age is taken when the
\* overview is read.  (A node that never answered raises nothing: age 0 means both never
\* and just now.)
SilenceIsAlerted ==
  read.tip # -1 /\ tick - read.tip > CHAIN_STALE => chain_stale(overview)

\* When the balance was read after the last movement of money, the verdict on solvency is
\* the truth: a node that cannot be asked later does not change it.
VerdictIsExactAtRest ==
  read.balance > moved => (insolvent(overview) <=> (custody < owed))

\* A payout that had waited too long when the board was last sampled and is still on the
\* wire is alerted, however many younger ones are in flight beside it.
StuckPayoutIsAlerted ==
  \A p \in Outstanding :
    read.board - submitted_at[p] > PAYOUT_STUCK => task_payout_stuck(overview)

\* Between two passes the overview counts no payout the last pass has settled: the gauges
\* are sampled after the work, so a falling count is the pass making progress.
GaugesFollowTheWork ==
  pass.at = "idle" => \A p \in gauge.outstanding : submitted_at[p] # Unsent

\* A sweep that has fallen behind its schedule shows it: the lag is taken from start to
\* start, so the time a pass takes is part of it.
LatenessShows == lateness > 0 => lag.max > 0

\* What the operators are told is so: silence, a shortfall, a stuck payout and a late sweep
\* all show, and a settled payout does not (hub/src/main.rs, overview).
AlertsTrue ==
  /\ SilenceIsAlerted /\ VerdictIsExactAtRest /\ StuckPayoutIsAlerted
  /\ GaugesFollowTheWork /\ LatenessShows
=============================================================================
