----------------------------- MODULE NodeClient -----------------------------
(***************************************************************************)
(* The hub's client of its node (hub/src/node_client.rs): a pool of        *)
(* persistent connections to one address at a time, requests that retry a  *)
(* dead pooled connection once on a fresh one, and sends that always dial. *)
(*                                                                         *)
(* A connection remembers the node process it was opened to (life) and the *)
(* requests written on it whose replies nobody has read yet.  A node       *)
(* process serves, is wedged (it accepts bytes and never answers) or is    *)
(* down; every restart starts a new life.                                  *)
(***************************************************************************)
EXTENDS Integers, Sequences, Functions, FiniteSets

CONSTANTS
    Op,          \* node operations, each made once
    Sends,       \* the operations that expect no reply: submit_transaction
    addresses,   \* the configured addresses, in the order they are tried
    PoolSize,    \* MAX_POOLED_CONNECTIONS
    NoAddress, NoConn, NoReply,
    MaxFaults    \* bound: changes of a node's state, and slow answers

ASSUME NodeClientAssumption ==
    /\ Sends \subseteq Op
    /\ addresses \in Seq(Range(addresses)) /\ addresses # << >>
    /\ NoAddress \notin Range(addresses) /\ NoReply \notin Op
    /\ {PoolSize, MaxFaults} \subseteq Nat /\ PoolSize > 0

Address == Range(addresses)

VARIABLES
    node,      \* node[a]: the state of the process at a
    life,      \* life[a]: which process that is
    pool,      \* PoolState: the address the idle connections go to, and they
    permits,   \* permits left in the semaphore
    ops,       \* ops[o]: how far the operation is, the connection it owns, the
               \* address it dials next, whether its connection came from the
               \* pool, and what it returned
    received,  \* history: the sends whose bytes a live process was handed
    disturbed, \* history: the sends under way when some node stopped
    faults

clientVars == <<node, life, pool, permits, ops, received, disturbed, faults>>

Ended == {"done", "failed", "cancelled"}

Connection(a, l) == [to |-> a, life |-> l, unread |-> << >>]

NodeClientInit ==
    /\ node = [a \in Address |-> "up"]
    /\ life = [a \in Address |-> 0]
    /\ pool = [address |-> NoAddress, connections |-> << >>]
    /\ permits = PoolSize
    /\ ops = [o \in Op |-> [at |-> "queued", conn |-> NoConn, next |-> 1, pooled |-> FALSE, reply |-> NoReply]]
    /\ received = {}
    /\ disturbed = {}
    /\ faults = 0

----------------------------------------------------------------------------
(* The node processes: external, modelled from what a connection sees.     *)

Alive(c) == node[c.to] # "down" /\ life[c.to] = c.life

Fault == faults < MaxFaults /\ faults' = faults + 1

NodeStops(a) ==
    /\ Fault
    /\ node[a] # "down"
    /\ node' = [node EXCEPT ![a] = "down"]
    /\ life' = [life EXCEPT ![a] = @ + 1]
    /\ disturbed' = disturbed \cup {o \in Sends : ops[o].at \notin {"queued"} \cup Ended}
    /\ UNCHANGED <<pool, permits, ops, received>>

NodeWedges(a) ==
    /\ Fault
    /\ node[a] = "up"
    /\ node' = [node EXCEPT ![a] = "wedged"]
    /\ UNCHANGED <<life, pool, permits, ops, received, disturbed>>

NodeServes(a) ==
    /\ node[a] # "up"
    /\ node' = [node EXCEPT ![a] = "up"]
    /\ UNCHANGED <<life, pool, permits, ops, received, disturbed, faults>>

----------------------------------------------------------------------------
(* Taking a permit and a connection.                                       *)

MayPool(o) == o \notin Sends /\ pool.connections # << >>

\* acquire_permit: whoever finds none left waits for one.
acquire_permit(o) ==
    /\ ops[o].at = "queued"
    /\ permits > 0
    /\ permits' = permits - 1
    /\ ops' = [ops EXCEPT ![o].at = "take"]
    /\ UNCHANGED <<node, life, pool, received, disturbed, faults>>

take(o) ==
    /\ ops[o].at = "take"
    /\ IF MayPool(o)
       THEN /\ ops' = [ops EXCEPT ![o].at = "write", ![o].conn = pool.connections[Len(pool.connections)],
                                  ![o].pooled = TRUE]
            /\ pool' = [pool EXCEPT !.connections = SubSeq(@, 1, Len(@) - 1)]
       ELSE /\ ops' = [ops EXCEPT ![o].at = "dial"]
            /\ UNCHANGED pool
    /\ UNCHANGED <<node, life, permits, received, disturbed, faults>>

----------------------------------------------------------------------------
(* Dialling.                                                               *)

\* The operation is over: its connection, if it still owns one, is closed.
Returned(o, how) ==
    [ops EXCEPT ![o] = [@ EXCEPT !.at = how, !.conn = NoConn, !.next = 1, !.pooled = FALSE]]

\* The dial and the handshake: only a serving process completes both in time.
connect_one(o) ==
    /\ ops[o].at = "dial"
    /\ LET a == addresses[ops[o].next]
       IN  /\ node[a] = "up"
           /\ ops' = [ops EXCEPT ![o].at = "adopt", ![o].conn = Connection(a, life[a]),
                                 ![o].pooled = FALSE]
    /\ UNCHANGED <<node, life, pool, permits, received, disturbed, faults>>

\* The address refuses or does not answer within NODE_CONNECT_TIMEOUT: the next one is
\* tried, and with none left the operation fails.
connect_fails(o) ==
    /\ ops[o].at = "dial"
    /\ IF node[addresses[ops[o].next]] = "up" THEN Fault ELSE UNCHANGED faults
    /\ IF ops[o].next < Len(addresses)
       THEN ops' = [ops EXCEPT ![o].next = @ + 1] /\ UNCHANGED permits
       ELSE ops' = Returned(o, "failed") /\ permits' = permits + 1
    /\ UNCHANGED <<node, life, pool, received, disturbed>>

Pointed(a) == [address |-> a, connections |-> << >>]

adopt(o) ==
    /\ ops[o].at = "adopt"
    /\ LET a == ops[o].conn.to
       IN  pool' = IF pool.address = a THEN pool ELSE Pointed(a)
    /\ ops' = [ops EXCEPT ![o].at = "write"]
    /\ UNCHANGED <<node, life, permits, received, disturbed, faults>>

----------------------------------------------------------------------------
(* The exchange.                                                           *)

\* Writing on a socket whose peer is gone succeeds: the bytes reach the kernel's buffer.
write(o) ==
    /\ ops[o].at = "write"
    /\ ops' = [ops EXCEPT ![o].at = IF o \in Sends THEN "put" ELSE "read",
                          ![o].conn.unread = IF o \in Sends THEN @ ELSE Append(@, o)]
    /\ received' = IF o \in Sends /\ Alive(ops[o].conn) THEN received \cup {o} ELSE received
    /\ UNCHANGED <<node, life, pool, permits, disturbed, faults>>

read_reply(o) ==
    /\ ops[o].at = "read"
    /\ node[ops[o].conn.to] = "up"
    /\ Alive(ops[o].conn)
    /\ ops' = [ops EXCEPT ![o].at = "put", ![o].reply = Head(ops[o].conn.unread),
                          ![o].conn.unread = Tail(@)]
    /\ UNCHANGED <<node, life, pool, permits, received, disturbed, faults>>

\* Faulty variant: no time limit; only a closed socket ends an exchange.
OnlyClosed(o) == ops[o].at = "read" /\ ~ Alive(ops[o].conn) /\ UNCHANGED faults

\* The write or the read fails, or outlasts NODE_REQUEST_TIMEOUT: a closed socket, a
\* wedged process, or one that is only slow.
Broken(o) ==
    /\ \/ ops[o].at = "read"
       \/ ops[o].at = "write" /\ node[ops[o].conn.to] = "wedged"
    /\ IF node[ops[o].conn.to] = "up" /\ Alive(ops[o].conn) THEN Fault ELSE UNCHANGED faults

\* Faulty variant: the failed connection goes back among the idle ones.
ReturnsBroken(o) == [pool EXCEPT !.connections = Append(@, ops[o].conn)]

DropsBroken(o) == pool

\* A request that fails on a pooled connection dials a fresh one; any other failure is
\* the caller's.  Either way the connection is dropped.
exchange_fails(o) ==
    /\ Broken(o)
    /\ pool' = DropsBroken(o)
    /\ IF ops[o].pooled
       THEN ops' = [ops EXCEPT ![o].at = "dial", ![o].conn = NoConn] /\ UNCHANGED permits
       ELSE ops' = Returned(o, "failed") /\ permits' = permits + 1
    /\ UNCHANGED <<node, life, received, disturbed>>

\* The caller goes away in the middle of its exchange: the future is dropped, and the
\* connection it owned with it.
Cancelled(o) ==
    /\ Fault
    /\ ops[o].at \in {"write", "read"}
    /\ ops' = Returned(o, "cancelled")
    /\ permits' = permits + 1
    /\ UNCHANGED <<node, life, pool, received, disturbed>>

StillPooled(a) == pool.address = a

put(o) ==
    /\ ops[o].at = "put"
    /\ pool' = IF StillPooled(ops[o].conn.to)
               THEN [pool EXCEPT !.connections = Append(@, ops[o].conn)]
               ELSE pool
    /\ ops' = Returned(o, "done")
    /\ permits' = permits + 1
    /\ UNCHANGED <<node, life, received, disturbed, faults>>

----------------------------------------------------------------------------

ClientStep(o) ==
    \/ acquire_permit(o) \/ take(o)
    \/ connect_one(o) \/ connect_fails(o) \/ adopt(o)
    \/ write(o) \/ read_reply(o) \/ exchange_fails(o) \/ put(o)

Finished == \A o \in Op : ops[o].at \in Ended

NodeClientNext ==
    \/ \E o \in Op : ClientStep(o) \/ Cancelled(o)
    \/ \E a \in Address : NodeStops(a) \/ NodeWedges(a) \/ NodeServes(a)

NodeClientSpec == NodeClientInit /\ [][NodeClientNext]_clientVars

\* Every call of an operation is bounded by one of the two timeouts, and the semaphore
\* is first come, first served.
ClientProgress == \E o \in Op : ClientStep(o)

----------------------------------------------------------------------------
(* Properties.                                                             *)

\* A request never reads another operation's reply, whichever of its predecessors timed
\* out, failed or was cancelled with its own reply still on the way (request: "the next
\* caller would read it as their own answer").
OwnReply == \A o \in Op : ops[o].reply \in {o, NoReply}

\* Every idle connection goes to the address the pool points at, so the hub's reads come
\* from one node's view at a time (Pool::put, Pool::adopt).
OneNode == \A i \in DOMAIN pool.connections : pool.connections[i].to = pool.address

\* A submission that was reported sent had its bytes handed to a live node process, unless
\* a node stopped while the submission was under way (send: never on a pooled connection).
SendsArrive ==
    \A o \in Sends : ops[o].at = "done" =>
        o \in received \/ o \in disturbed

\* What the hub's pool of connections promises its callers: their own reply, from the node
\* it points at, and a submission that reached a node (hub/src/node_client.rs).
ConnectionsSound == OwnReply /\ OneNode /\ SendsArrive
=============================================================================
