-------------------------------- MODULE Node --------------------------------
(***************************************************************************)
(* A node: its main task and connection handlers (node/src/main.rs,        *)
(* handler.rs, util.rs) over the shared Blockchain of module Chain and the *)
(* durable BlockStore (lib/src/store.rs).                                  *)
(*                                                                         *)
(* Every handler adds a block under the write lock, releases it, and then  *)
(* persists in separate commits: the block, a snapshot of the active chain,*)
(* the deletion of pruned blocks.  Handlers interleave between commits, a  *)
(* commit can fail, and the process can crash anywhere.                    *)
(***************************************************************************)
EXTENDS Chain

CONSTANTS
  Conn,                    \* connections served at once
  Main,                    \* the task that starts the node and syncs it
  PeerTips,                \* the tips the best peer's chain has over time
  Mining,                  \* whether a miner asks this node for templates
  NoTemplate,
  BLOCKS_PER_FETCH_BATCH,
  MaxCrashes, MaxFailures  \* bounds on crashes and on failed commits

ASSUME NodeAssumption ==
  /\ Main \notin Conn
  /\ \A i \in DOMAIN PeerTips : PeerTips[i] \in Block
  /\ Mining \in BOOLEAN
  /\ MaxCrashes \in Nat /\ MaxFailures \in Nat

VARIABLES
  bc,        \* BLOCKCHAIN
  phase,     \* "down", "start", "sync" (the listener not yet bound) or "serve"
  proc,      \* where each task is in persisting a block
  attach,    \* the orphans that nested calls of try_attach_orphans have left
  disk,      \* the BlockStore: blocks, and the active chain's hashes
  peer,      \* where the best peer is in PeerTips
  goal,      \* target_height, the peer's height when the sync began
  todo,      \* what is left of the last batch fetched from the peer
  template,  \* the block template a miner holds
  crashes, failures

sync == <<peer, goal, todo>>

vars == <<bc, phase, proc, attach, disk, peer, goal, todo, template, crashes, failures>>

Proc == Conn \union {Main}

Idle == [pc |-> "idle", block |-> Genesis, chain |-> <<>>, pruned |-> {}]

\* The write lock is held across a whole add_block, retries of orphans included.
Unlocked == \A p \in Proc : proc[p].pc # "attach"

Init ==
  /\ bc = New /\ phase = "down"
  /\ proc = [p \in Proc |-> Idle] /\ attach = <<>>
  /\ disk = [blocks |-> {}, chain |-> <<>>]
  /\ peer = 1 /\ goal = 0 /\ todo = <<>> /\ template = NoTemplate
  /\ crashes = 0 /\ failures = 0

\* The process ends: everything but the store is gone.
ProcessEnds ==
  /\ phase' = "down" /\ bc' = New
  /\ proc' = [p \in Proc |-> Idle] /\ attach' = <<>>
  /\ goal' = 0 /\ todo' = <<>> /\ peer' = peer

-----------------------------------------------------------------------------
(* Starting *)

\* The outcomes of load_from_store: the stored chain replayed through add_block,
\* up to the first block that is missing or refused.
Replays(stored) ==
  LET Step(r, b) == IF r.result # "ok" \/ b \notin stored.blocks
                      THEN {Rejected(r.bc)} ELSE add_block(r.bc, b)
  IN  FoldLeft(LAMBDA outcomes, b : UNION {Step(r, b) : r \in outcomes},
               {Accepted(New)}, stored.chain)

\* A start that cannot load the store ends the process.
LoadFromStore ==
  /\ phase = "down" /\ disk.chain # <<>>
  /\ \E r \in Replays(disk) :
       IF r.result = "ok"
         THEN /\ phase' = "start" /\ bc' = [r.bc EXCEPT !.prunes = {}]
              /\ disk' = [disk EXCEPT !.blocks = @ \ r.bc.prunes]
         ELSE UNCHANGED <<phase, bc, disk>>
  /\ UNCHANGED <<proc, attach, sync, template, crashes, failures>>

EstablishGenesis ==
  /\ phase = "down" /\ disk.chain = <<>>
  /\ phase' = "start"
  /\ \E r \in add_block(New, Genesis) : bc' = r.bc
  /\ proc' = [proc EXCEPT ![Main] = [Idle EXCEPT !.pc = "put"]]
  /\ UNCHANGED <<attach, disk, sync, template, crashes, failures>>

Height == Len(bc.active)

\* The best peer's active chain; with no peer configured there is none.
PeerChain == IF PeerTips = <<>> THEN <<>> ELSE PathTo[PeerTips[peer]]

\* find_best_chain_node, or nothing to ask.
FindBestChainNode ==
  /\ phase = "start" /\ proc[Main].pc = "idle"
  /\ phase' = "sync" /\ goal' = Len(PeerChain)
  /\ UNCHANGED <<bc, proc, attach, disk, peer, todo, template, crashes, failures>>

Syncing == phase = "sync" /\ proc[Main].pc = "idle"

\* A mutant: the heights are off by one.
BatchSkipsOne == SubSeq(PeerChain, Height + 2,
                        Min({goal, Len(PeerChain), Height + 1 + BLOCKS_PER_FETCH_BATCH}))

\* The peer's answer to FetchBlocks from our height on.
Batch == SubSeq(PeerChain, Height + 1,
                Min({goal, Len(PeerChain), Height + BLOCKS_PER_FETCH_BATCH}))

\* One pass of download_blockchain's loop; an empty answer ends it.
FetchBlocks ==
  /\ Syncing /\ todo = <<>> /\ Height < goal
  /\ todo' = Batch
  /\ phase' = IF Batch = <<>> THEN "serve" ELSE phase
  /\ UNCHANGED <<bc, proc, attach, disk, peer, goal, template, crashes, failures>>

\* The listener is bound once there is nothing beyond our height to fetch.
Serve ==
  /\ Syncing /\ todo = <<>> /\ Height >= goal
  /\ phase' = "serve"
  /\ UNCHANGED <<bc, proc, attach, disk, sync, template, crashes, failures>>

\* The peer's own chain changes, to one with more work.
PeerMoves ==
  /\ peer < Len(PeerTips)
  /\ peer' = peer + 1
  /\ UNCHANGED <<bc, phase, proc, attach, disk, goal, todo, template, crashes, failures>>

-----------------------------------------------------------------------------
(* Adding a block *)

\* Task p has b accepted with result r, and goes on to the orphans it readies
\* or, with none, to persisting it.
BlockAccepted(p, b, r) ==
  LET ready == Ready(r.bc, b)
  IN  /\ proc' = [proc EXCEPT ![p] =
                    [Idle EXCEPT !.block = b, !.pc = IF ready = {} THEN "put" ELSE "attach"]]
      /\ attach' = IF ready = {} THEN <<>> ELSE <<ready>>
      /\ bc' = r.bc

\* NewBlock and SubmitTemplate: a refused or orphaned block is not persisted.
ReceiveBlock(c, b) ==
  /\ phase = "serve" /\ proc[c].pc = "idle" /\ Unlocked
  /\ \E r \in add_block(bc, b) :
       IF r.result = "ok"
         THEN BlockAccepted(c, b, r)
         ELSE bc' = r.bc /\ UNCHANGED <<proc, attach>>
  /\ UNCHANGED <<phase, disk, sync, template, crashes, failures>>

\* The next block of a batch.  One that is refused, or does not connect, fails
\* the sync, and main returns its error.
SyncBlock ==
  /\ Syncing /\ todo # <<>>
  /\ \E r \in add_block(bc, Head(todo)) :
       IF r.result = "ok"
         THEN /\ BlockAccepted(Main, Head(todo), r)
              /\ todo' = Tail(todo) /\ UNCHANGED <<phase, peer, goal>>
         ELSE ProcessEnds
  /\ UNCHANGED <<disk, template, crashes, failures>>

\* try_attach_orphans: the orphans in the top set are retried in any order, and
\* those an accepted one readies come before the rest.
AttachOrphan(p) ==
  /\ proc[p].pc = "attach"
  /\ \E o \in Head(attach) : \E r \in add_block([bc EXCEPT !.orphans = @ \ {o}], o) :
       LET ready == IF r.result = "ok" THEN Ready(r.bc, o) ELSE {}
           stack == SelectSeq(<<ready, Head(attach) \ {o}>> \o Tail(attach),
                              LAMBDA s : s # {})
       IN  /\ bc' = r.bc
           /\ attach' = stack
           /\ proc' = [proc EXCEPT ![p].pc = IF stack = <<>> THEN "put" ELSE "attach"]
  /\ UNCHANGED <<phase, disk, sync, template, crashes, failures>>

-----------------------------------------------------------------------------
(* persist_chain_state, one action per commit *)

\* A mutant: only a block of the active chain is stored.
PutActiveBlock(p) ==
  /\ proc[p].pc = "put"
  /\ disk' = [disk EXCEPT !.blocks = @ \union ({proc[p].block} \intersect Range(bc.active))]
  /\ proc' = [proc EXCEPT ![p].pc = "snapshot"]
  /\ UNCHANGED <<bc, phase, attach, sync, template, crashes, failures>>

PutBlock(p) ==
  /\ proc[p].pc = "put"
  /\ disk' = [disk EXCEPT !.blocks = @ \union {proc[p].block}]
  /\ proc' = [proc EXCEPT ![p].pc = "snapshot"]
  /\ UNCHANGED <<bc, phase, attach, sync, template, crashes, failures>>

Snapshot(p) ==
  /\ proc[p].pc = "snapshot" /\ Unlocked
  /\ proc' = [proc EXCEPT ![p].pc = "set", ![p].chain = bc.active, ![p].pruned = bc.prunes]
  /\ bc' = [bc EXCEPT !.prunes = {}]
  /\ UNCHANGED <<phase, attach, disk, sync, template, crashes, failures>>

SetActiveChain(p) ==
  /\ proc[p].pc = "set"
  /\ disk' = [disk EXCEPT !.chain = proc[p].chain]
  /\ proc' = [proc EXCEPT ![p].pc = "delete"]
  /\ UNCHANGED <<bc, phase, attach, sync, template, crashes, failures>>

DeleteBlocks(p) ==
  /\ proc[p].pc = "delete"
  /\ disk' = [disk EXCEPT !.blocks = @ \ proc[p].pruned]
  /\ proc' = [proc EXCEPT ![p] = Idle]
  /\ UNCHANGED <<bc, phase, attach, sync, template, crashes, failures>>

\* A commit fails: a handler logs it and goes on, main returns the error.
StoreFails(p) ==
  /\ proc[p].pc \in {"put", "set", "delete"} /\ failures < MaxFailures
  /\ failures' = failures + 1
  /\ IF p = Main THEN ProcessEnds
                 ELSE /\ proc' = [proc EXCEPT ![p] = Idle]
                      /\ UNCHANGED <<bc, phase, attach, sync>>
  /\ UNCHANGED <<disk, template, crashes>>

Persist(p) == PutBlock(p) \/ Snapshot(p) \/ SetActiveChain(p) \/ DeleteBlocks(p)

-----------------------------------------------------------------------------
(* Transactions, templates, time and crashes *)

ReceiveTransaction(tx) ==
  /\ phase = "serve" /\ Unlocked
  /\ bc' = add_to_mempool(bc, tx).bc
  /\ UNCHANGED <<phase, proc, attach, disk, sync, template, crashes, failures>>

\* A pending transaction reaches MAX_MEMPOOL_TRANSACTION_AGE.
Age(tx) ==
  /\ tx \in Range(bc.mempool) \ bc.old
  /\ bc' = [bc EXCEPT !.old = @ \union {tx}]
  /\ UNCHANGED <<phase, proc, attach, disk, sync, template, crashes, failures>>

\* The periodic cleanup task.
Cleanup ==
  /\ phase = "serve" /\ Unlocked /\ bc.old # {}
  /\ bc' = cleanup_mempool(bc)
  /\ UNCHANGED <<phase, proc, attach, disk, sync, template, crashes, failures>>

FetchTemplate ==
  /\ Mining /\ phase = "serve" /\ Unlocked
  /\ template' = create_block_template(bc)
  /\ UNCHANGED <<bc, phase, proc, attach, disk, sync, crashes, failures>>

Crash ==
  /\ phase # "down" /\ crashes < MaxCrashes
  /\ crashes' = crashes + 1
  /\ ProcessEnds
  /\ UNCHANGED <<disk, template, failures>>

Next ==
  \/ LoadFromStore \/ EstablishGenesis \/ FindBestChainNode
  \/ FetchBlocks \/ SyncBlock \/ Serve \/ PeerMoves
  \/ \E c \in Conn, b \in Block : ReceiveBlock(c, b)
  \/ \E p \in Proc : AttachOrphan(p) \/ Persist(p) \/ StoreFails(p)
  \/ \E tx \in Tx : ReceiveTransaction(tx) \/ Age(tx)
  \/ Cleanup \/ FetchTemplate \/ Crash

Spec == Init /\ [][Next]_vars

\* The supervisor restarts a node that exits, and tasks that can run do run.
NodeProgress ==
  \/ LoadFromStore \/ EstablishGenesis \/ FindBestChainNode \/ FetchBlocks \/ SyncBlock \/ Serve
  \/ \E p \in Proc : AttachOrphan(p) \/ Persist(p)

-----------------------------------------------------------------------------
(* Properties of the chain in memory *)

\* The chain, the pools and the tasks have their types, and the orphan pool
\* keeps to its limit.
TypeOK ==
  /\ bc.blocks \subseteq Block /\ bc.orphans \subseteq Block /\ bc.prunes \subseteq Block
  /\ Cardinality(bc.orphans) <= MAX_ORPHAN_BLOCKS
  /\ Range(bc.active) \subseteq bc.blocks /\ Range(bc.mempool) \subseteq Tx
  /\ bc.old \subseteq Range(bc.mempool) /\ bc.marked \subseteq bc.utxos
  /\ bc.target \in 0 .. MIN_TARGET
  /\ phase \in {"down", "start", "sync", "serve"}
  /\ \A p \in Proc : proc[p].pc \in {"idle", "attach", "put", "snapshot", "set", "delete"}
  /\ disk.blocks \subseteq Block /\ Range(disk.chain) \subseteq Block

\* apply_block changes the UTXO set in place and reorg_to rebuilds it; either
\* way it is what replaying the active chain from genesis gives, and the
\* running target that try_adjust_target keeps is what replaying every retarget
\* gives, so tip and side-branch blocks are held to the same difficulty.
DerivedFromChain ==
  /\ bc.utxos = replay_utxos(bc.active)
  /\ bc.target = recompute_target_for_chain(bc.active)

\* No known branch has more work behind it than the active chain, whatever order
\* blocks, forks and orphans came in (add_block_off_tip, try_attach_orphans).
MostWork ==
  \A b \in bc.blocks : work_of_chain(PathTo[b]) <= work_of_chain(bc.active)

\* Pruning takes whole branches: the parent of a known block is known, so
\* trace_branch's "called on a block with unknown ancestry" cannot fire.
AncestryKnown == \A b \in bc.blocks \ {Genesis} : Parent[b] \in bc.blocks

\* No orphan is left waiting for a parent that is known, once add_block returns.
NoOrphanForgotten == Unlocked => \A o \in bc.orphans : Parent[o] \notin bc.blocks

\* Every pending transaction can be mined on the tip and no two spend the same
\* output: what transaction_fee's "BUG: impossible" relies on after every
\* eviction, reorg and replacement.
MempoolMinable == VerifyTxs(bc.mempool, bc.utxos)

\* The outputs a pending transaction spends are marked, which is what
\* add_to_mempool's search for conflicts and every balance read go by.
PendingIsMarked == AllInputs(Range(bc.mempool)) \subseteq bc.marked

\* A template that ValidateTemplate tells its miner to keep is still accepted as
\* a block, however the mempool and the chain changed since it was fetched.
ValidTemplateAccepted ==
  (phase = "serve" /\ template # NoTemplate /\ ValidateTemplate(bc, template))
    => VerifyTxs(template.txs, bc.utxos)

-----------------------------------------------------------------------------
(* Properties of the store *)

\* The stored chain can be loaded: no crash, failed commit or interleaving of
\* handlers leaves a chain with a block the store does not hold.
StoreLoadable == \E r \in Replays(disk) : r.result = "ok"

Quiet == phase = "serve" /\ \A p \in Proc : proc[p].pc = "idle"

\* With no block being handled, the store has the chain that memory has, so
\* nothing that was ever persisted is lost to a crash.
StoreCaughtUp == Quiet /\ failures = 0 => disk.chain = bc.active

\* What apply_block's comment promises: an output is marked only while a
\* pending transaction spends it.
MarkedIsPending == Unlocked => bc.marked \subseteq AllInputs(Range(bc.mempool))

\* The chain a node serves: derived state that replaying it gives, the most work of the
\* known branches, their ancestry known, and no orphan forgotten (blockchain.rs).
ChainSound == TypeOK /\ DerivedFromChain /\ MostWork /\ AncestryKnown /\ NoOrphanForgotten

\* What is pending can be mined and is marked, and a template called valid is accepted.
MiningSound == MempoolMinable /\ PendingIsMarked /\ ValidTemplateAccepted
=============================================================================
