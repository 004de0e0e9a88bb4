----------------------------- MODULE MCFullNode -----------------------------
(***************************************************************************)
(* A node on small instances.  A behaviour is about competing branches,    *)
(* about pending transactions, about the store, about the peers the node   *)
(* bans or about the clock it takes from them.                             *)
(***************************************************************************)
EXTENDS MCNode, Bans, TimeSync

VARIABLE scene    \* what this behaviour is about

fullNodeVars == <<vars, banVars, timeVars, scene>>

ChainScenes == {"reorgs", "mempool", "store"}

MCSkews == {-20, 4245}

\* One sample just within the bound, and one far beyond it on the other side.
MCClaims == {-4230, 9000}

\* The two branches that compete; a4 extends the first beyond them.
Branches == {"g", "c", "a1", "a2", "a3", "b1", "b2", "b3"}

\* Nothing is submitted, and nothing assembled; a block may still displace a transaction.
NoTxs == /\ bc'.old = {} /\ template' = NoTemplate
         /\ bc'.active = bc.active => Range(bc'.mempool) \subseteq Range(bc.mempool)

\* Orphans among the branches, and a crash or a failed commit.
ReorgScene == /\ NoTxs
              /\ crashes' + failures' <= 1
              /\ bc'.blocks \cup bc'.orphans \subseteq Branches \cup {"a4"}

\* Transactions displaced and expiring, before a slow clock.
MempoolScene == /\ crashes' = 0 /\ failures' = 0
                /\ Cardinality(bc'.orphans) <= 1
                /\ bc'.blocks \cup bc'.orphans \subseteq Branches \ {"a3"}

\* Every block comes after its parent, and the node crashes twice.
StoreScene == /\ NoTxs
              /\ failures' = 0
              /\ bc'.orphans = {} /\ bc'.blocks \subseteq Branches

FullNodeInit ==
    /\ scene \in ChainScenes \cup {"bans", "time"}
    /\ Init /\ BansInit /\ TimeSyncInit

FullNodeNext ==
    /\ UNCHANGED scene
    /\ \/ /\ scene \in ChainScenes
          /\ Next
          /\ scene = "reorgs" => ReorgScene
          /\ scene = "mempool" => MempoolScene
          /\ scene = "store" => StoreScene
          /\ UNCHANGED <<banVars, timeVars>>
       \/ scene = "bans" /\ BansNext /\ UNCHANGED <<vars, timeVars>>
       \/ scene = "time" /\ TimeSyncNext /\ UNCHANGED <<vars, banVars>>

FullNodeSpec == FullNodeInit /\ [][FullNodeNext]_fullNodeVars

-----------------------------------------------------------------------------

\* When every block comes after its parent, the stored chain can be loaded at any moment
\* a crash may choose: each of its blocks is in the store (persist_chain_state,
\* load_from_store).
InOrderStoreLoadable == scene = "store" => StoreLoadable

\* ... and with no block being handled, the store has the chain that memory has, so
\* nothing that was ever persisted is lost to a crash (persist_chain_state).
InOrderStoreCaughtUp == scene = "store" => StoreCaughtUp

\* The store of a node whose blocks come in order can be loaded, and is not behind.
InOrderStoreSound == InOrderStoreLoadable /\ InOrderStoreCaughtUp
=============================================================================
