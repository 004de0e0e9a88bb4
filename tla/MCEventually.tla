---------------------------- MODULE MCEventually ----------------------------
(***************************************************************************)
(* Everything the system must eventually do but pay a winner: the hub's    *)
(* calls of its node, the miner, nodes that relay, a node that restarts,   *)
(* the wallet's reshapes, the backup, and escrows that are released.  A    *)
(* behaviour follows one of them and leaves the rest as it starts.         *)
(***************************************************************************)
EXTENDS MCNode, NodeClient, Miner, Relay, OperatorWallet, Boot, Tasks

CONSTANTS q1, q2, s1, n1, n2, n3, a1, a2, a3, d1, d2, x, y

MCAddresses == <<n1, n2>>

\* A node is started with none of the others, or with some that may be up.
MCCommandLines == n1 :> {{}, {n2}} @@ n2 :> {{}, {n1}} @@ n3 :> {{n1}, {n1, n2}}

\* One large output; dust only; dust beside useful outputs; none below the minimum but one.
MCFirstOutputs == {<<19>>, <<3, 3, 2>>, <<7, 3, 2, 1>>, <<5, 4, 2>>}

MCKeyFiles == <<"operator", "custody", "escrow">>

\* The kinds of task whose every window has an end.
Bounded ==
    { [kind |-> "consensus", funding |-> "escrow", agents |-> {a1, a2, a3}, deposits |-> {d1},
       min_reputation |-> 0, faults |-> 1],
      [kind |-> "contest", funding |-> "escrow", agents |-> {a1}, deposits |-> {d1},
       min_reputation |-> 0, faults |-> 1] }

VARIABLE focus    \* what this behaviour follows

allVars == <<vars, clientVars, minerVars, relayVars, walletVars, bootVars, taskVars, focus>>

Foci == {"sync", "client", "miner", "relay", "wallet", "boot", "tasks"}

\* The choices a part's Init leaves open are made only when it is followed.
EventuallyInit ==
    /\ focus \in Foci
    /\ Init /\ NodeClientInit /\ MinerInit /\ RelayInit /\ OperatorWalletInit /\ BootInit /\ TasksInit
    /\ focus # "miner" => \A i \in Link : upstream[i].state = "up"
    /\ focus # "wallet" => Cardinality(unspent) = 1
    /\ focus # "tasks" => scene.kind = "contest"
    /\ focus # "boot" => build = 4

\* A step of the part that is followed, and of no other.
NodeOnly == /\ focus = "sync"
            /\ UNCHANGED <<focus, clientVars, minerVars, relayVars, walletVars, bootVars, taskVars>>
ClientOnly == /\ focus = "client"
            /\ UNCHANGED <<focus, vars, minerVars, relayVars, walletVars, bootVars, taskVars>>
MinerOnly == /\ focus = "miner"
            /\ UNCHANGED <<focus, vars, clientVars, relayVars, walletVars, bootVars, taskVars>>
RelayOnly == /\ focus = "relay"
            /\ UNCHANGED <<focus, vars, clientVars, minerVars, walletVars, bootVars, taskVars>>
WalletOnly == /\ focus = "wallet"
            /\ UNCHANGED <<focus, vars, clientVars, minerVars, relayVars, bootVars, taskVars>>
BootOnly == /\ focus = "boot"
            /\ UNCHANGED <<focus, vars, clientVars, minerVars, relayVars, walletVars, taskVars>>
TaskOnly == /\ focus = "tasks"
            /\ UNCHANGED <<focus, vars, clientVars, minerVars, relayVars, walletVars, bootVars>>

EventuallyNext ==
    \/ NodeOnly /\ Next
    \/ ClientOnly /\ NodeClientNext
    \/ MinerOnly /\ MinerNext
    \/ RelayOnly /\ RelayNext
    \/ WalletOnly /\ OperatorWalletNext
    \/ BootOnly /\ BootNext
    \/ TaskOnly /\ TasksNext

\* focus never changes, so fairness of a disjunction over the parts is fairness of the one
\* that is followed.
Runs ==
    \/ NodeOnly /\ NodeProgress
    \/ ClientOnly /\ ClientProgress
    \/ MinerOnly /\ MinerProgress
    \/ RelayOnly /\ Relays
    \/ WalletOnly /\ maintain_wallet
    \/ BootOnly /\ BackupStep
    \/ TaskOnly /\ Commit

TimeRuns ==
    \/ MinerOnly /\ TimePasses
    \/ WalletOnly /\ BlockMined
    \/ TaskOnly /\ TickClock

EventuallyFairness ==
    /\ WF_allVars(Runs) /\ WF_allVars(TimeRuns)
    /\ WF_allVars(TaskOnly /\ SweepCancel)
    /\ WF_allVars(TaskOnly /\ SweepResolve)
    /\ WF_allVars(TaskOnly /\ SweepFinalize)
    /\ WF_allVars(TaskOnly /\ SweepUnclosed)
    /\ WF_allVars(TaskOnly /\ SweepSplit)
    /\ WF_allVars(TaskOnly /\ SweepUnrefunded)
    /\ WF_allVars(TaskOnly /\ SweepOverdue)
    /\ WF_allVars(TaskOnly /\ JobPersist)
    /\ WF_allVars(TaskOnly /\ GiveUp)
    /\ WF_allVars(TaskOnly /\ SomeDisbursementMined)
    /\ WF_allVars(TaskOnly /\ SomeTaskSettled)
    /\ WF_allVars(TaskOnly /\ SomePayoutMined)
    /\ SF_allVars(TaskOnly /\ SweepRefunds)

EventuallySpec == EventuallyInit /\ [][EventuallyNext]_allVars /\ EventuallyFairness

-----------------------------------------------------------------------------
(* The properties that begin with the first state, of the part they are    *)
(* about; the others hold of a part that is not followed.                  *)

\* A node that stops crashing ends up serving for good: main loads the store, fetches what
\* the best peer has beyond it, and binds the listener (node/src/main.rs).
RestartedNodeServes == <>[](focus = "sync" => phase = "serve")

\* Every operation on the node returns, whatever the nodes do: a wedged node costs
\* timeouts, never a caller that hangs with a permit in its hand (hub/src/node_client.rs,
\* within).
NodeCallsReturn == <>[](focus = "client" => Finished)

\* Once the primary stays up, the miner is again and again mining on the primary's own
\* tip: no failed socket, backoff, cleared flag or pass without an end keeps it idle or on
\* an old template (miner/src/main.rs: run, fetch_template, NodeLink::connected).
MinerStaysOnTheTip ==
    <>[](upstream[1].state = "up") => []<>(focus = "miner" => mining /\ current_template = tip)

\* The network recovers: a restarted node serves, the miner returns to the tip, and a node
\* that broadcasts lets go of its lock.
NetworkRecovers == RestartedNodeServes /\ MinerStaysOnTheTip /\ BroadcastEnds

\* The hub recovers: a call of its node returns, a wallet of dust pays again, and a hub
\* stopped for a backup is wanted again.
HubRecovers == NodeCallsReturn /\ DustRecovers /\ HubWantedAgain
=============================================================================
