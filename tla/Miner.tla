------------------------------- MODULE Miner -------------------------------
(***************************************************************************)
(* The miner (miner/src/main.rs): mining threads that share a template and *)
(* a flag with one run loop, which refreshes the template from the first   *)
(* configured node on a timer and submits what is found to all of them.    *)
(*                                                                         *)
(* A template is the height of the tip it extends.  A stream remembers the *)
(* node process it was opened to; every restart of a node is a new life.   *)
(* Backoff is counted in units of time that pass.                          *)
(***************************************************************************)
EXTENDS Integers, Sequences, FiniteSets, FiniteSetsExt

CONSTANTS
    Links,                   \* number of configured addresses; the first is the primary
    Thread,                  \* mining threads
    RECONNECT_BACKOFF_START, RECONNECT_BACKOFF_MAX,
    NoStream, NoBlock,
    MaxTip,                  \* bound: tips the primary reports
    MaxPeerFaults,           \* bound: node stops and wedges
    MaxFound                 \* bound: blocks found

ASSUME MinerAssumption ==
    /\ {Links, RECONNECT_BACKOFF_START} \subseteq Nat \ {0}
    /\ RECONNECT_BACKOFF_MAX \in Nat /\ RECONNECT_BACKOFF_START <= RECONNECT_BACKOFF_MAX
    /\ Thread \subseteq Nat
    /\ {MaxTip, MaxPeerFaults, MaxFound} \subseteq Nat
    /\ NoBlock \notin Nat /\ NoStream \notin Nat

VARIABLES
    upstream,          \* upstream[i]: state and life of the node behind link i
    tip,               \* the primary's chain height
    link,              \* link[i]: stream (the life it was opened in), backoff, wait
    current_template,  \* the block to work on, or none
    mining,            \* the flag shared with the threads
    thread,            \* thread[t]: where it is, and the block it works on
    queue,             \* mined blocks on their way to the run loop
    run,               \* the run loop: where it is, its block, the next link to submit to
    got,               \* history: got[i] are the blocks node i was handed
    steady,            \* history: links whose stream has been good since the submission began
    peerFaults,        \* node faults so far
    blocksFound        \* blocks found so far

minerVars == <<upstream, tip, link, current_template, mining, thread, queue, run, got, steady,
               peerFaults, blocksFound>>

Link == 1..Links

Selecting == [at |-> "select", block |-> NoBlock, next |-> 1]

----------------------------------------------------------------------------
(* Links.                                                                  *)

Good(i) == link[i].stream = upstream[i].life /\ upstream[i].state # "down"

NewLink == [stream |-> NoStream, backoff |-> RECONNECT_BACKOFF_START, wait |-> 0]

\* The dial and the handshake; a wedged node never finishes the second.
Redialled(i) ==
    IF upstream[i].state = "up"
    THEN [link[i] EXCEPT !.stream = upstream[i].life, !.backoff = RECONNECT_BACKOFF_START]
    ELSE [link[i] EXCEPT !.wait = link[i].backoff,
                         !.backoff = Min({2 * @, RECONNECT_BACKOFF_MAX})]

\* The link as connected() leaves it.
connected(i) ==
    IF link[i].stream # NoStream \/ link[i].wait > 0 THEN link[i] ELSE Redialled(i)

disconnect(l) == [l EXCEPT !.stream = NoStream, !.wait = 0]

\* Time brings every next_attempt nearer.
TimePasses ==
    /\ \E i \in Link : link[i].wait > 0
    /\ link' = [i \in Link |-> [link[i] EXCEPT !.wait = Max({@ - 1, 0})]]
    /\ UNCHANGED <<upstream, tip, current_template, mining, thread, queue, run, got, steady, peerFaults, blocksFound>>

----------------------------------------------------------------------------
(* The nodes: external, modelled from what the miner sees of them.         *)

PeerFails(i, state) ==
    /\ peerFaults < MaxPeerFaults
    /\ upstream[i].state = "up"
    /\ peerFaults' = peerFaults + 1
    /\ upstream' = [upstream EXCEPT ![i] = [state |-> state,
                                    life |-> IF state = "down" THEN @.life + 1 ELSE @.life]]
    /\ steady' = IF state = "down" THEN steady \ {i} ELSE steady
    /\ UNCHANGED <<tip, link, current_template, mining, thread, queue, run, got, blocksFound>>

PeerServes(i) ==
    /\ upstream[i].state # "up"
    /\ upstream' = [upstream EXCEPT ![i].state = "up"]
    /\ UNCHANGED <<tip, link, current_template, mining, thread, queue, run, got, steady, peerFaults, blocksFound>>

\* The primary's chain grows, from any miner's block.
TipMoves ==
    /\ tip < MaxTip
    /\ tip' = tip + 1
    /\ UNCHANGED <<upstream, link, current_template, mining, thread, queue, run, got, steady, peerFaults, blocksFound>>

----------------------------------------------------------------------------
(* Mining threads.                                                         *)

\* mining.load: the flag is read before the template is locked.
ReadFlag(t) ==
    /\ thread[t].at = "idle"
    /\ mining
    /\ thread' = [thread EXCEPT ![t].at = "clone"]
    /\ UNCHANGED <<upstream, tip, link, current_template, mining, queue, run, got, steady, peerFaults, blocksFound>>

CloneTemplate(t) ==
    /\ thread[t].at = "clone"
    /\ thread' = [thread EXCEPT ![t] =
                     [at |-> IF current_template = NoBlock THEN "idle" ELSE "mine", block |-> current_template]]
    /\ UNCHANGED <<upstream, tip, link, current_template, mining, queue, run, got, steady, peerFaults, blocksFound>>

\* The pass ends without a block, and the thread looks at the flag again.
NothingFound(t) ==
    /\ thread[t].at = "mine"
    /\ thread' = [thread EXCEPT ![t].at = "idle"]
    /\ UNCHANGED <<upstream, tip, link, current_template, mining, queue, run, got, steady, peerFaults, blocksFound>>

\* mine() cannot be cancelled: whatever it was cloned from, the block is sent.
BlockFound(t) ==
    /\ thread[t].at = "mine"
    /\ blocksFound < MaxFound
    /\ blocksFound' = blocksFound + 1
    /\ queue' = Append(queue, [tip |-> thread[t].block, nr |-> blocksFound])
    /\ thread' = [thread EXCEPT ![t].at = "clear"]
    /\ UNCHANGED <<upstream, tip, link, current_template, mining, run, got, steady, peerFaults>>

\* The flag the finder clears may have been set again for a newer template.
ClearFlag(t) ==
    /\ thread[t].at = "clear"
    /\ mining' = FALSE
    /\ thread' = [thread EXCEPT ![t].at = "idle"]
    /\ UNCHANGED <<upstream, tip, link, current_template, queue, run, got, steady, peerFaults, blocksFound>>

----------------------------------------------------------------------------
(* The run loop: the template timer.                                       *)

FetchDue == TRUE

\* The tick connects to the primary and asks it, or gives up.
Tick ==
    /\ run.at = "select"
    /\ FetchDue
    /\ link' = [link EXCEPT ![1] = connected(1)]
    /\ run' = [run EXCEPT !.at = IF connected(1).stream = NoStream THEN "stop" ELSE "reply"]
    /\ UNCHANGED <<upstream, tip, current_template, mining, thread, queue, got, steady, peerFaults, blocksFound>>

ReceiveTemplate ==
    /\ run.at = "reply"
    /\ upstream[1].state = "up"
    /\ Good(1)
    /\ current_template' = tip
    /\ run' = [run EXCEPT !.at = "arm"]
    /\ UNCHANGED <<upstream, tip, link, mining, thread, queue, got, steady, peerFaults, blocksFound>>

StartMining ==
    /\ run.at = "arm"
    /\ mining' = TRUE
    /\ run' = Selecting
    /\ UNCHANGED <<upstream, tip, link, current_template, thread, queue, got, steady, peerFaults, blocksFound>>

\* The socket is closed, or answers with something else.
FetchFails ==
    /\ run.at = "reply"
    /\ ~ Good(1)
    /\ link' = [link EXCEPT ![1] = disconnect(@)]
    /\ run' = [run EXCEPT !.at = "stop"]
    /\ UNCHANGED <<upstream, tip, current_template, mining, thread, queue, got, steady, peerFaults, blocksFound>>

\* Faulty variant: the template goes first and the flag is left for the next step.
TemplateFirst == current_template' = NoBlock /\ UNCHANGED mining

FlagFirst == mining' = FALSE /\ UNCHANGED current_template

stop_mining_on_a_stale_template ==
    /\ run.at = "stop"
    /\ FlagFirst
    /\ run' = [run EXCEPT !.at = "drop"]
    /\ UNCHANGED <<upstream, tip, link, thread, queue, got, steady, peerFaults, blocksFound>>

DropTemplate ==
    /\ run.at = "drop"
    /\ current_template' = NoBlock
    /\ run' = Selecting
    /\ UNCHANGED <<upstream, tip, link, mining, thread, queue, got, steady, peerFaults, blocksFound>>

----------------------------------------------------------------------------
(* The run loop: submission.                                               *)

TakeBlock ==
    /\ run.at = "select"
    /\ queue # << >>
    /\ queue' = Tail(queue)
    /\ run' = [at |-> "submit", block |-> Head(queue), next |-> 1]
    /\ steady' = {i \in Link : Good(i)}
    /\ UNCHANGED <<upstream, tip, link, current_template, mining, thread, got, peerFaults, blocksFound>>

NextLink(i, l) == i + 1

\* Writing on a stream whose node is gone succeeds and reaches nobody; on a wedged one it
\* may run into SUBMIT_TIMEOUT.
SubmitToLink ==
    /\ run.at = "submit"
    /\ run.next \in Link
    /\ LET i == run.next
           l == connected(i)
       IN  /\ run' = [run EXCEPT !.next = NextLink(i, l)]
           /\ \/ /\ link' = [link EXCEPT ![i] = l]
                 /\ got' = IF l.stream = upstream[i].life /\ upstream[i].state # "down"
                           THEN [got EXCEPT ![i] = @ \cup {run.block}]
                           ELSE got
              \/ /\ l.stream # NoStream
                 /\ upstream[i].state # "up"
                 /\ link' = [link EXCEPT ![i] = disconnect(l)]
                 /\ UNCHANGED got
    /\ UNCHANGED <<upstream, tip, current_template, mining, thread, queue, steady, peerFaults, blocksFound>>

\* The flag is cleared, and what the other threads found meanwhile is discarded.
Submitted ==
    /\ run.at = "submit"
    /\ run.next \notin Link
    /\ mining' = FALSE
    /\ queue' = << >>
    /\ run' = Selecting
    /\ steady' = {}
    /\ UNCHANGED <<upstream, tip, link, current_template, thread, got, peerFaults, blocksFound>>

----------------------------------------------------------------------------

\* Every address is dialled once before the threads start.
MinerInit ==
    /\ upstream \in [Link -> {[state |-> "up", life |-> 1], [state |-> "down", life |-> 1]}]
    /\ tip = 1
    /\ link = [i \in Link |-> IF upstream[i].state = "up"
                              THEN [NewLink EXCEPT !.stream = 1]
                              ELSE [NewLink EXCEPT !.wait = RECONNECT_BACKOFF_START,
                                       !.backoff = Min({2 * @, RECONNECT_BACKOFF_MAX})]]
    /\ current_template = NoBlock
    /\ mining = FALSE
    /\ thread = [t \in Thread |-> [at |-> "idle", block |-> NoBlock]]
    /\ queue = << >>
    /\ run = Selecting
    /\ got = [i \in Link |-> {}]
    /\ steady = {}
    /\ peerFaults = 0
    /\ blocksFound = 0

RunLoop ==
    \/ Tick \/ ReceiveTemplate \/ StartMining \/ FetchFails
    \/ stop_mining_on_a_stale_template \/ DropTemplate
    \/ TakeBlock \/ SubmitToLink \/ Submitted

Mines(t) == ReadFlag(t) \/ CloneTemplate(t) \/ NothingFound(t) \/ BlockFound(t) \/ ClearFlag(t)

MinerNext ==
    \/ RunLoop
    \/ \E t \in Thread : Mines(t)
    \/ \E i \in Link : PeerFails(i, "down") \/ PeerFails(i, "wedged") \/ PeerServes(i)
    \/ TipMoves
    \/ TimePasses

MinerSpec == MinerInit /\ [][MinerNext]_minerVars

\* What is scheduled: the run loop is one task whose timer keeps firing, and time passes.
\* Nothing is assumed of the threads.
MinerProgress == RunLoop

----------------------------------------------------------------------------
(* Properties.                                                             *)

\* The flag is never up without a template behind it, between any two steps of the run
\* loop and of the threads, which read the two in the other order
\* (stop_mining_on_a_stale_template, fetch_template).
FlagHasTemplate == mining => current_template # NoBlock

\* A mined block reaches every node that was connected when its submission began and did
\* not stop meanwhile, whatever became of the other links (submit_block).
RedundantSubmission ==
    run.at = "submit" =>
        \A i \in steady : (i < run.next /\ upstream[i].state = "up" /\ Good(i)) => run.block \in got[i]

\* Threads mine only on a template, and a found block goes to every steady node
\* (miner/src/main.rs: run, submit).
MinersSound == FlagHasTemplate /\ RedundantSubmission
=============================================================================
