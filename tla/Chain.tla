------------------------------- MODULE Chain -------------------------------
(***************************************************************************)
(* The in-memory blockchain of a node: lib/src/types/blockchain.rs and the *)
(* transaction checks of lib/src/types/block.rs.                           *)
(*                                                                         *)
(* A `Blockchain` value is a record, and each method that takes `&mut self`*)
(* is an operator from the record before the call to the record after it.  *)
(* The methods run under the node's write lock, so each is one step of     *)
(* module Node, except that add_block's retries of orphans are steps of    *)
(* their own that keep the lock.                                           *)
(*                                                                         *)
(* A block's contents are fixed by its hash, so the blocks that can ever be*)
(* mined are a CONSTANT tree.  What depends on the block alone (its proof  *)
(* of work, Merkle root, size and coinbase sum) is membership of           *)
(* WellFormed; what depends on the chain under it is computed.             *)
(***************************************************************************)
EXTENDS Integers, Sequences, FiniteSets, SequencesExt, FiniteSetsExt

CONSTANTS
  Block, Genesis,      \* the blocks, and the network's one genesis
  Parent,              \* header.prev_block_hash of every block but Genesis
  Time,                \* header.timestamp
  HeaderTarget,        \* header.target
  WellFormed,          \* blocks that pass every check of their own contents
  Future,              \* blocks whose timestamp may be ahead of the clock
  Txs,                 \* the transactions of a block, without its coinbase
  Reward,              \* the outputs of a block's coinbase
  Tx, TxIn, TxOut,     \* transactions, their inputs in order, their outputs
  Fee,                 \* input value less output value
  Signed,              \* transactions whose signatures and sums check
  MaxTarget,           \* U256::MAX
  MIN_TARGET,          \* the easiest target
  IDEAL_BLOCK_TIME, DIFFICULTY_UPDATE_INTERVAL, SIDE_BRANCH_PRUNE_DEPTH,
  MAX_ORPHAN_BLOCKS, BLOCK_CAP

ASSUME ChainAssumption ==
  /\ Genesis \in Block
  /\ WellFormed \subseteq Block /\ Future \subseteq Block /\ Signed \subseteq Tx
  /\ Parent \in [Block \ {Genesis} -> Block]
  /\ MIN_TARGET \in 1 .. MaxTarget
  /\ DIFFICULTY_UPDATE_INTERVAL \in Nat \ {0}

Inputs(tx) == Range(TxIn[tx])

\* The chain of blocks that ends with b, genesis first.
PathTo[b \in Block] ==
  IF b = Genesis THEN <<b>> ELSE Append(PathTo[Parent[b]], b)

New == [blocks |-> {}, active |-> <<>>, utxos |-> {}, marked |-> {},
        target |-> MIN_TARGET, mempool |-> <<>>, old |-> {},
        orphans |-> {}, prunes |-> {}]

-----------------------------------------------------------------------------
(* Work and difficulty *)

work_from_target(t) == ((MaxTarget - t) \div (t + 1)) + 1

work_of_chain(chain) ==
  FoldLeft(LAMBDA acc, b : acc + work_from_target(HeaderTarget[b]), 0, chain)

\* The elapsed time is clamped to a factor of four either way, and the result
\* never exceeds MIN_TARGET.
adjust_target(t, start, end) ==
  LET ideal == IDEAL_BLOCK_TIME * DIFFICULTY_UPDATE_INTERVAL
      took  == Max({ideal \div 4, Min({ideal * 4, Max({1, end - start})})})
  IN  Min({MIN_TARGET, (t * took) \div ideal})

\* The fork choice.  The mutants compare heights, or switch on a tie.
Longer(chain, active)       == Len(chain) > Len(active)
Outweighs(chain, active)    == work_of_chain(chain) > work_of_chain(active)

\* The retarget at `height`, over the interval of blocks that ends there.
RetargetAt(t, chain, height) ==
  adjust_target(t, Time[chain[height + 1 - DIFFICULTY_UPDATE_INTERVAL]],
                   Time[chain[height]])

recompute_target_for_chain(chain) ==
  FoldLeft(LAMBDA t, k : RetargetAt(t, chain, k * DIFFICULTY_UPDATE_INTERVAL),
           MIN_TARGET,
           [k \in 1 .. (Len(chain) \div DIFFICULTY_UPDATE_INTERVAL) |-> k])

AtBoundary(chain) == Len(chain) % DIFFICULTY_UPDATE_INTERVAL = 0

\* The running target of the active chain: one retarget more than before.
try_adjust_target(bc) ==
  IF AtBoundary(bc.active)
    THEN [bc EXCEPT !.target = RetargetAt(@, bc.active, Len(bc.active))]
    ELSE bc

-----------------------------------------------------------------------------
(* Unspent outputs *)

Spent(b)   == UNION {Inputs(Txs[b][i]) : i \in DOMAIN Txs[b]}
Created(b) == Reward[b] \union UNION {TxOut[Txs[b][i]] : i \in DOMAIN Txs[b]}

replay_utxos(chain) ==
  FoldLeft(LAMBDA u, b : (u \ Spent(b)) \union Created(b), {}, chain)

\* The transactions `txs` of a block spend distinct outputs of `utxos`, each
\* with its owner's signature.
VerifyTxs(txs, utxos) ==
  /\ \A i \in DOMAIN txs : txs[i] \in Signed /\ Inputs(txs[i]) \subseteq utxos
  /\ \A i, j \in DOMAIN txs : i # j => Inputs(txs[i]) \intersect Inputs(txs[j]) = {}

-----------------------------------------------------------------------------
(* The mempool: a sequence, highest fee first.  `old` holds the entries     *)
(* older than MAX_MEMPOOL_TRANSACTION_AGE.                                  *)

Drop(mempool, gone) == SelectSeq(mempool, LAMBDA tx : tx \notin gone)

AllInputs(txs) == UNION {Inputs(tx) : tx \in txs}

cleanup_mempool(bc) ==
  [bc EXCEPT !.mempool = Drop(@, bc.old), !.marked = @ \ AllInputs(bc.old), !.old = {}]

\* The first entry that spends output o, if any does.
Spender(bc, o) ==
  LET at == {i \in DOMAIN bc.mempool : o \in Inputs(bc.mempool[i])}
  IN  IF at = {} THEN {} ELSE {bc.mempool[Min(at)]}

\* A stable sort by fee, highest first.
SortedByFee(mempool) ==
  FoldLeft(LAMBDA acc, f : SelectSeq(mempool, LAMBDA tx : Fee[tx] = f) \o acc,
           <<>>, SetToSortSeq({Fee[tx] : tx \in Range(mempool)}, <))

\* An output marked with nothing pending against it is unmarked on the way; a
\* pending spend is replaced by one that pays more, or refuses it.  A refusal
\* keeps the unmarkings of the inputs before the one that was refused.
add_to_mempool(bc0, tx) ==
  LET bc       == cleanup_mempool(bc0)
      outbid   == {i \in DOMAIN TxIn[tx] :
                    /\ TxIn[tx][i] \in bc.marked
                    /\ \E t \in Spender(bc, TxIn[tx][i]) : Fee[tx] <= Fee[t]}
      seen     == {TxIn[tx][i] : i \in {i \in DOMAIN TxIn[tx] : \A j \in outbid : i < j}}
      stale    == {o \in seen \intersect bc.marked : Spender(bc, o) = {}}
      replaced == UNION {Spender(bc, o) : o \in Inputs(tx) \intersect bc.marked}
  IN  IF tx \notin Signed \/ ~ Inputs(tx) \subseteq bc.utxos
        THEN [ok |-> FALSE, bc |-> bc]
      ELSE IF outbid # {}
        THEN [ok |-> FALSE, bc |-> [bc EXCEPT !.marked = @ \ stale]]
      ELSE [ok |-> TRUE,
            bc |-> [bc EXCEPT
                      !.mempool = SortedByFee(Append(Drop(@, replaced), tx)),
                      !.marked  = (@ \ AllInputs(replaced)) \union Inputs(tx)]]

\* A mutant: only confirmed entries are dropped.
EvictConfirmedOnly(bc0, confirmed) ==
  LET bc == cleanup_mempool(bc0) IN [bc EXCEPT !.mempool = Drop(@, confirmed)]

\* Called with bc.utxos already up to date.
evict_stale_mempool_entries(bc0, confirmed) ==
  LET bc == cleanup_mempool(bc0)
  IN  [bc EXCEPT !.mempool =
         SelectSeq(@, LAMBDA tx : tx \notin confirmed /\ Inputs(tx) \subseteq bc.utxos)]

\* Greedy by fee, up to the block's capacity; the coinbase is left out.
create_block_template(bc) ==
  [prev |-> Last(bc.active), target |-> bc.target,
   txs  |-> SubSeq(bc.mempool, 1, Min({BLOCK_CAP, Len(bc.mempool)}))]

\* A miner is told to go on with a template it holds.
ValidateTemplate(bc, template) ==
  template.prev = Last(bc.active) /\ template.target = bc.target

-----------------------------------------------------------------------------
(* Adding a block *)

\* The number of blocks that b's branch shares with the active chain.
ForkIndex(bc, b) ==
  Cardinality({i \in DOMAIN PathTo[b] \intersect DOMAIN bc.active :
                 PathTo[b][i] = bc.active[i]})

prunable_side_blocks(bc) ==
  {b \in bc.blocks \ Range(bc.active) :
     Len(bc.active) - ForkIndex(bc, b) > SIDE_BRANCH_PRUNE_DEPTH}

prune_side_blocks(bc) ==
  IF AtBoundary(bc.active)
    THEN [bc EXCEPT !.blocks = @ \ prunable_side_blocks(bc),
                    !.prunes = @ \union prunable_side_blocks(bc)]
    ELSE bc

apply_block(bc, b) ==
  evict_stale_mempool_entries(
    [bc EXCEPT !.utxos  = (@ \ Spent(b)) \union Created(b),
               !.marked = @ \ (Spent(b) \union Created(b))],
    Range(Txs[b]))

sync_mempool_with_active_chain(bc0) ==
  LET bc == evict_stale_mempool_entries(
              [bc0 EXCEPT !.utxos = replay_utxos(bc0.active), !.marked = {}],
              UNION {Range(Txs[b]) : b \in Range(bc0.active)})
  IN  [bc EXCEPT !.marked = @ \union (AllInputs(Range(bc.mempool)) \intersect bc.utxos)]

\* The displaced transactions are offered to the mempool in chain order.
reorg_to(bc, fork, chain) ==
  LET displaced == FlattenSeq([i \in 1 .. (Len(bc.active) - fork) |-> Txs[bc.active[fork + i]]])
      switched  == sync_mempool_with_active_chain(
                     [bc EXCEPT !.active = chain,
                                !.target = recompute_target_for_chain(chain)])
  IN  FoldLeft(LAMBDA acc, tx : add_to_mempool(acc, tx).bc, switched, displaced)

Rejected(bc) == [result |-> "invalid", bc |-> bc]
Accepted(bc) == [result |-> "ok", bc |-> bc]

\* Every node derives the one genesis by itself.
IsGenesis(b) == b = Genesis

\* `early`: the block's timestamp is too far ahead of the node's clock.
add_block_extending_tip(bc, b, early) ==
  IF \/ bc.active = <<>> /\ ~ IsGenesis(b)
     \/ HeaderTarget[b] # bc.target
     \/ b \notin WellFormed
     \/ early
     \/ bc.active # <<>> /\ Time[b] <= Time[Last(bc.active)]
     \/ ~ VerifyTxs(Txs[b], bc.utxos)
    THEN Rejected(bc)
    ELSE LET applied == apply_block(bc, b)
             grown   == [applied EXCEPT !.blocks = @ \union {b},
                                        !.active = Append(@, b)]
         IN  Accepted(prune_side_blocks(try_adjust_target(grown)))

\* The pool of orphans has a fixed size; a full one drops the block.
buffer_orphan(bc, b) ==
  [result |-> "orphan",
   bc |-> IF Cardinality(bc.orphans) >= MAX_ORPHAN_BLOCKS
            THEN bc ELSE [bc EXCEPT !.orphans = @ \union {b}]]

\* trace_branch finds the known ancestors of the parent, which are PathTo of
\* it as long as none is missing (AncestryKnown of module Node).
add_block_off_tip(bc, b, early) ==
  IF b = Genesis THEN Rejected(bc)
  ELSE IF Parent[b] \notin bc.blocks THEN buffer_orphan(bc, b)
  ELSE LET path == PathTo[Parent[b]]
           kept == [bc EXCEPT !.blocks = @ \union {b}]
       IN  IF \/ HeaderTarget[b] # recompute_target_for_chain(path)
              \/ b \notin WellFormed
              \/ early
              \/ Time[b] <= Time[Parent[b]]
              \/ ~ VerifyTxs(Txs[b], replay_utxos(path))
             THEN Rejected(bc)
           ELSE IF Outweighs(PathTo[b], bc.active)
             THEN Accepted(reorg_to(kept, ForkIndex(bc, Parent[b]), PathTo[b]))
           ELSE Accepted(kept)

ExtendsTip(bc, b) ==
  IF bc.active = <<>> THEN b = Genesis
                      ELSE b # Genesis /\ Parent[b] = Last(bc.active)

\* check_timestamp, against a clock the model does not keep.
MayBeEarly(b) == IF b \in Future THEN BOOLEAN ELSE {FALSE}

\* The outcomes of add_block, up to its call of try_attach_orphans.
add_block(bc, b) ==
  {IF ExtendsTip(bc, b) THEN add_block_extending_tip(bc, b, early)
                        ELSE add_block_off_tip(bc, b, early) : early \in MayBeEarly(b)}

\* The orphans that try_attach_orphans retries once `b` is in.
Ready(bc, b) == {o \in bc.orphans : Parent[o] = b}
=============================================================================
