-------------------------------- MODULE Relay --------------------------------
(***************************************************************************)
(* Nodes that start, find one another and relay transactions               *)
(* (populate_connections, find_best_chain_node and broadcast of            *)
(* node/src/util.rs, the main task of node/src/main.rs, and the            *)
(* SubmitTransaction and NewTransaction arms of node/src/handler.rs).      *)
(*                                                                         *)
(* A node dials its configured peers and the peers those know of once,     *)
(* before it listens.  It relays a submitted transaction to each of them   *)
(* while it holds its own chain's write lock, and a receiver needs its     *)
(* write lock to take the transaction off the socket.  Nothing times out.  *)
(***************************************************************************)
EXTENDS Naturals, FiniteSets

CONSTANTS
  Nodes,         \* the nodes
  CommandLines,  \* node -> the sets of peers it may be started with
  Buffer,        \* transactions a socket holds before a send waits
  MaxStops,      \* bound on the times nodes stop
  MaxSubmits     \* bound on transactions submitted to the nodes

ASSUME RelayAssumption ==
  /\ CommandLines \in [Nodes -> SUBSET SUBSET Nodes]
  /\ Buffer \in Nat \ {0} /\ MaxStops \in Nat /\ MaxSubmits \in Nat

VARIABLES
  boot,      \* node -> "down", "dial", "ask" or "serve" (its listener is bound)
  dialling,  \* node -> configured peers still to be dialled
  found,     \* node -> peers a configured one named, still to be dialled
  NODES,     \* node -> the peers it has an entry for
  live,      \* <<a, b>>: a's stream to b is still connected
  tosend,    \* node -> peers its broadcast, under the write lock, has left
  socket,    \* <<a, b>> -> transactions sent by a that b has not read
  stops, submits

relayVars == <<boot, dialling, found, NODES, live, tosend, socket, stops, submits>>

Serving(n) == boot[n] = "serve"
Locked(n) == tosend[n] # {}

RelayInit ==
  /\ boot = [n \in Nodes |-> "down"]
  /\ dialling = [n \in Nodes |-> {}] /\ found = [n \in Nodes |-> {}]
  /\ NODES = [n \in Nodes |-> {}] /\ live = {}
  /\ tosend = [n \in Nodes |-> {}]
  /\ socket = [l \in Nodes \X Nodes |-> 0]
  /\ stops = 0 /\ submits = 0

-----------------------------------------------------------------------------
(* Starting.                                                               *)

Start(n) ==
  /\ boot[n] = "down"
  /\ boot' = [boot EXCEPT ![n] = "dial"]
  /\ \E peers \in CommandLines[n] : dialling' = [dialling EXCEPT ![n] = peers]
  /\ found' = [found EXCEPT ![n] = {}]
  /\ NODES' = [NODES EXCEPT ![n] = {}]
  /\ UNCHANGED <<live, tosend, socket, stops, submits>>

\* What the end of n's process leaves: its streams are reset at both ends.
Gone(n) ==
  /\ boot' = [boot EXCEPT ![n] = "down"]
  /\ dialling' = [dialling EXCEPT ![n] = {}] /\ found' = [found EXCEPT ![n] = {}]
  /\ NODES' = [NODES EXCEPT ![n] = {}]
  /\ live' = {l \in live : l[1] # n /\ l[2] # n}
  /\ tosend' = [tosend EXCEPT ![n] = {}]
  /\ socket' = [l \in Nodes \X Nodes |-> IF n \in {l[1], l[2]} THEN 0 ELSE socket[l]]

\* Connected, shaken hands, and entered in NODES.
Linked(n, m) ==
  /\ NODES' = [NODES EXCEPT ![n] = @ \union {m}]
  /\ live' = live \union {<<n, m>>}

\* Faulty variant: a node is reachable while it is still dialling.
ReachableEarly(m) == boot[m] # "down"

\* The listener is bound only after the node has dialled and synced.
Reachable(m) == Serving(m)

\* A configured peer: it must be there, and it names the peers it knows.
DialConfigured(n, m) ==
  /\ boot[n] = "dial" /\ found[n] = {} /\ m \in dialling[n]
  /\ IF Reachable(m)
     THEN /\ dialling' = [dialling EXCEPT ![n] = @ \ {m}]
          /\ found' = [found EXCEPT ![n] = NODES[m]]
          /\ Linked(n, m)
          /\ UNCHANGED <<boot, tosend, socket>>
     ELSE Gone(n)
  /\ UNCHANGED <<stops, submits>>

\* A discovered one is skipped when it is not.  Its own address is among them.
DialDiscovered(n, m) ==
  /\ boot[n] = "dial" /\ m \in found[n]
  /\ found' = [found EXCEPT ![n] = @ \ {m}]
  /\ IF Reachable(m) THEN Linked(n, m) ELSE UNCHANGED <<NODES, live>>
  /\ UNCHANGED <<boot, dialling, tosend, socket, stops, submits>>

DialledAll(n) ==
  /\ boot[n] = "dial" /\ dialling[n] = {} /\ found[n] = {}
  /\ boot' = [boot EXCEPT ![n] = "ask"]
  /\ UNCHANGED <<dialling, found, NODES, live, tosend, socket, stops, submits>>

\* find_best_chain_node asks every entry, configured or discovered, and an
\* entry that has gone since ends the start.
AskTips(n) ==
  /\ boot[n] = "ask"
  /\ IF \A m \in NODES[n] : <<n, m>> \in live
     THEN /\ boot' = [boot EXCEPT ![n] = "serve"]
          /\ UNCHANGED <<dialling, found, NODES, live, tosend, socket>>
     ELSE Gone(n)
  /\ UNCHANGED <<stops, submits>>

Stop(n) ==
  /\ boot[n] # "down" /\ stops < MaxStops /\ stops' = stops + 1
  /\ Gone(n)
  /\ UNCHANGED submits

-----------------------------------------------------------------------------
(* Relaying.                                                               *)

\* SubmitTransaction from a client: accepted, and broadcast under the lock.
SubmitTransaction(n) ==
  /\ Serving(n) /\ ~Locked(n)
  /\ submits < MaxSubmits /\ submits' = submits + 1
  /\ tosend' = [tosend EXCEPT ![n] = NODES[n]]
  /\ UNCHANGED <<boot, dialling, found, NODES, live, socket, stops>>

\* One send of broadcast: it waits for room, and a dead stream is skipped.
broadcast(n, m) ==
  /\ m \in tosend[n]
  /\ IF <<n, m>> \in live
     THEN /\ socket[<<n, m>>] < Buffer
          /\ socket' = [socket EXCEPT ![<<n, m>>] = @ + 1]
     ELSE UNCHANGED socket
  /\ tosend' = [tosend EXCEPT ![n] = @ \ {m}]
  /\ UNCHANGED <<boot, dialling, found, NODES, live, stops, submits>>

\* NewTransaction at m, under its write lock.  It is not relayed further.
NewTransaction(n, m) ==
  /\ socket[<<n, m>>] > 0 /\ ~Locked(m)
  /\ socket' = [socket EXCEPT ![<<n, m>>] = @ - 1]
  /\ UNCHANGED <<boot, dialling, found, NODES, live, tosend, stops, submits>>

RelayNext ==
  \/ \E n \in Nodes : Start(n) \/ DialledAll(n) \/ AskTips(n) \/ Stop(n) \/ SubmitTransaction(n)
  \/ \E n, m \in Nodes : \/ DialConfigured(n, m) \/ DialDiscovered(n, m)
                         \/ broadcast(n, m) \/ NewTransaction(n, m)

RelaySpec == RelayInit /\ [][RelayNext]_relayVars

\* Handlers are scheduled, and a socket whose reader is free is read.
Relays == \E n, m \in Nodes : broadcast(n, m) \/ NewTransaction(n, m)

-----------------------------------------------------------------------------
(* A broadcast that holds the write lock ends, however many of the nodes   *)
(* are broadcasting to one another at once: no ring of nodes waits on each *)
(* other's lock.  A live stream leads to a node that was serving before    *)
(* its owner was, so the waits have no cycle.                              *)
BroadcastEnds == \A n \in Nodes : []<>~Locked(n)

(* The reason it does: no chain of live streams leads back to its start.   *)
(* It depends on the order of main, which binds the listener only after    *)
(* every stream it will ever own has been opened.                          *)
NoRing ==
  ~\E S \in (SUBSET Nodes) \ {{}} : \A n \in S : \E m \in S : <<n, m>> \in live
=============================================================================
