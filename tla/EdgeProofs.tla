----------------------------- MODULE EdgeProofs -----------------------------
(***************************************************************************)
(* What is proved at the hub's edges: of its client of the node            *)
(* (NodeClient), of the gauges and alerts its operator watches (Watch), and*)
(* of the leaderboard's readers (Leaderboard).                             *)
(***************************************************************************)
EXTENDS NodeClient, Watch, Leaderboard, SequenceTheorems, WellFoundedInduction, TLAPS

-----------------------------------------------------------------------------
(* The hub's node client, for any number of operations, addresses,         *)
(* permits and faults: no operation is answered with another's reply, the  *)
(* pool holds connections to one address only, and a submission reported   *)
(* sent reached a live process.                                            *)
(*                                                                         *)
(* OwnReply needs to know what is unread on every connection: nothing on   *)
(* an idle one or on one about to be written, and the operation's own      *)
(* request on one it is reading.  SendsArrive needs to know that a         *)
(* submission's connection leads to a process that is alive, or that some  *)
(* node stopped since it was dialled.                                      *)

Conn == [to : Address, life : Nat, unread : Seq(Op)]
OpStates == {"queued", "take", "dial", "adopt", "write", "read", "put"} \cup Ended
OpRecord == [at : OpStates, conn : Conn \cup {NoConn}, next : 1..Len(addresses),
             pooled : BOOLEAN, reply : Op \cup {NoReply}]

\* What an operation's record says of the connection it owns and of its reply.
OpOK(o, r) ==
    /\ r \in OpRecord
    /\ r.at \in {"adopt", "write", "read", "put"} => r.conn \in Conn
    /\ r.at \in {"adopt", "write", "put"} => r.conn.unread = << >>
    /\ r.at = "read" => r.conn.unread = <<o>>
    /\ r.reply \in {o, NoReply}

OpsOK ==
    /\ ops \in [Op -> OpRecord]
    /\ \A o \in Op : OpOK(o, ops[o])

NodesOK == node \in [Address -> {"up", "wedged", "down"}] /\ life \in [Address -> Nat]

PoolOK ==
    /\ pool \in [address : Address \cup {NoAddress}, connections : Seq(Conn)]
    /\ OneNode
    /\ \A i \in DOMAIN pool.connections : pool.connections[i].unread = << >>

\* Where a submission is on its way to a live process.
SendOK(o, r) ==
    /\ r.at # "read"
    /\ r.at \in {"adopt", "write"} => Alive(r.conn) \/ o \in disturbed
    /\ r.at \in {"put", "done"} => o \in received \/ o \in disturbed

SendsOK == \A o \in Sends : SendOK(o, ops[o])

ClientInv == NodesOK /\ PoolOK /\ OpsOK /\ SendsOK

----------------------------------------------------------------------------

LEMMA FirstAddress == addresses \in Seq(Address) /\ Len(addresses) \in Nat \ {0}
BY NodeClientAssumption DEF Address

LEMMA AddressAt ==
    ASSUME NEW i \in 1..Len(addresses)
    PROVE  addresses[i] \in Address
BY FirstAddress

\* A request is written on a connection with nothing unread, and its reply read from one
\* with nothing else unread.
LEMMA OneUnread ==
    ASSUME NEW o \in Op
    PROVE  /\ Append(<< >>, o) = <<o>> /\ <<o>> \in Seq(Op) /\ << >> \in Seq(Op)
           /\ Head(<<o>>) = o /\ Tail(<<o>>) = << >>
<1>1. Append(<< >>, o) = <<o>> /\ <<o>> \in Seq(Op) /\ << >> \in Seq(Op)
  OBVIOUS
<1>2. Head(<<o>>) = o
  OBVIOUS
<1>3. Tail(<<o>>) \in Seq(Op) /\ Len(Tail(<<o>>)) = 0
  OBVIOUS
<1> QED BY <1>1, <1>2, <1>3, EmptySeq, Zenon

\* What Pool::take leaves behind.
Front(s) == SubSeq(s, 1, Len(s) - 1)

\* What Pool::take leaves and hands over.
LEMMA FrontAndLast ==
    ASSUME NEW S, NEW s \in Seq(S), s # << >>
    PROVE  /\ Front(s) \in Seq(S)
           /\ Len(Front(s)) = Len(s) - 1
           /\ \A i \in 1..Len(s) - 1 : Front(s)[i] = s[i]
           /\ s[Len(s)] \in S /\ Len(s) \in DOMAIN s
<1>1. Len(s) \in Nat /\ Len(s) >= 1 /\ DOMAIN s = 1..Len(s)
  OBVIOUS
<1> QED BY <1>1 DEF Front

\* One operation's record changes, and no node does: r is the new record.
Sendable(o, r) ==
    /\ r.at # "read"
    /\ r.at \in {"adopt", "write"} => Alive(r.conn) \/ o \in disturbed
    /\ r.at \in {"put", "done"} => o \in received' \/ o \in disturbed

LEMMA OneOpChanges ==
    ASSUME OpsOK, SendsOK, UNCHANGED <<node, life, disturbed>>, received \subseteq received',
           NEW o \in Op, NEW r, ops' = [ops EXCEPT ![o] = r],
           OpOK(o, r), o \in Sends => Sendable(o, r)
    PROVE  OpsOK' /\ SendsOK'
<1>1. ops'[o] = r /\ \A p \in Op : p # o => ops'[p] = ops[p]
  BY Zenon DEF OpsOK
<1>2. OpsOK'
  BY Zenon DEF OpsOK, OpOK
<1>3. ASSUME NEW p \in Sends PROVE SendOK(p, ops[p])'
  <2>0. p \in Op
    BY NodeClientAssumption, Zenon
  <2>1. CASE p = o
    BY <1>1, <2>1, Zenon DEF SendOK, Sendable, Alive
  <2>2. CASE p # o
    <3>1. ops'[p] = ops[p] /\ SendOK(p, ops[p])
      BY <1>1, <2>0, <2>2, Zenon DEF SendsOK
    <3> QED BY <3>1, Zenon DEF SendOK, Alive
  <2> QED BY <2>1, <2>2, Zenon
<1> QED BY <1>2, <1>3, Zenon DEF SendsOK

LEMMA NodesAndPoolStand ==
    ASSUME NodesOK, PoolOK, UNCHANGED <<node, life, pool>>
    PROVE  NodesOK' /\ PoolOK'
BY Zenon DEF NodesOK, PoolOK, OneNode

----------------------------------------------------------------------------

LEMMA ClientStarts == NodeClientInit => ClientInv
<1> SUFFICES ASSUME NodeClientInit PROVE ClientInv
  BY Zenon
<1>1. NodesOK
  BY Zenon DEF NodeClientInit, NodesOK
<1>2. PoolOK
  BY DEF NodeClientInit, PoolOK, OneNode
<1>3. \A o \in Op : OpOK(o, ops[o])
  BY FirstAddress DEF NodeClientInit, OpOK, OpRecord, OpStates
<1>4. OpsOK
  BY <1>3, ZenonT(30) DEF OpsOK, OpOK, NodeClientInit
<1>5. SendsOK
  BY NodeClientAssumption, Zenon DEF SendsOK, SendOK, NodeClientInit
<1> QED BY <1>1, <1>2, <1>4, <1>5, Zenon DEF ClientInv

LEMMA OpRecordParts ==
    ASSUME OpsOK, NEW o \in Op
    PROVE  /\ ops \in [Op -> OpRecord] /\ ops[o] \in OpRecord /\ OpOK(o, ops[o])
BY Zenon DEF OpsOK

\* Returned ends an operation and takes its connection away; a submission that ends as
\* done must have arrived.
LEMMA ReturnedKeeps ==
    ASSUME OpsOK, SendsOK, UNCHANGED <<node, life, disturbed, received>>,
           NEW o \in Op, NEW how \in Ended, ops' = Returned(o, how),
           how = "done" => ops[o].at = "put"
    PROVE  OpsOK' /\ SendsOK'
<1> DEFINE r == [ops[o] EXCEPT !.at = how, !.conn = NoConn, !.next = 1, !.pooled = FALSE]
<1>0. ops[o] \in OpRecord /\ ops[o].reply \in {o, NoReply}
  BY OpRecordParts, Zenon DEF OpOK
<1>1. ops' = [ops EXCEPT ![o] = r]
  BY Zenon DEF Returned
<1>2. r \in OpRecord
  <2>1. how \in OpStates /\ 1 \in 1..Len(addresses)
    BY FirstAddress DEF OpStates
  <2> QED BY <1>0, <2>1, ZenonT(30) DEF OpRecord
<1>3. r.at = how /\ r.reply = ops[o].reply
  BY <1>0, Zenon DEF OpRecord
<1>4. how \notin {"adopt", "write", "read", "put"}
  BY Zenon DEF Ended
<1> HIDE DEF r
<1>5. OpOK(o, r)
  BY <1>0, <1>2, <1>3, <1>4, Zenon DEF OpOK
<1>6. o \in Sends => Sendable(o, r)
  BY <1>3, <1>4, Zenon DEF Sendable, SendsOK, SendOK
<1> QED BY <1>1, <1>5, <1>6, OneOpChanges, ZenonT(30)

LEMMA ClientStep_acquire ==
    ASSUME ClientInv, NEW o \in Op, acquire_permit(o)
    PROVE  ClientInv'
<1> DEFINE r == [ops[o] EXCEPT !.at = "take"]
<1>1. ops' = [ops EXCEPT ![o] = r] /\ UNCHANGED <<node, life, pool, received, disturbed>>
  BY OpRecordParts, Zenon DEF acquire_permit, ClientInv
<1>2. OpOK(o, r) /\ r.at = "take"
  BY OpRecordParts, Zenon DEF ClientInv, OpOK, OpRecord, OpStates
<1> HIDE DEF r
<1>3. Sendable(o, r)
  BY <1>2, Zenon DEF Sendable
<1> QED BY <1>1, <1>2, <1>3, OneOpChanges, NodesAndPoolStand, ZenonT(30) DEF ClientInv

LEMMA ClientStep_take ==
    ASSUME ClientInv, NEW o \in Op, take(o)
    PROVE  ClientInv'
<1>0. OpsOK /\ PoolOK /\ NodesOK /\ SendsOK /\ UNCHANGED <<node, life, received, disturbed>>
  BY Zenon DEF ClientInv, take
<1>1. CASE MayPool(o)
  <2> DEFINE c == pool.connections[Len(pool.connections)]
             r == [ops[o] EXCEPT !.at = "write", !.conn = c, !.pooled = TRUE]
  <2>1. /\ ops' = [ops EXCEPT ![o] = r]
        /\ pool' = [pool EXCEPT !.connections = Front(@)]
        /\ o \notin Sends /\ pool.connections # << >>
    BY <1>0, <1>1, OpRecordParts, ZenonT(30) DEF take, MayPool, Front
  <2>2. pool.connections \in Seq(Conn)
    BY <1>0, Zenon DEF PoolOK
  <2>3. c \in Conn /\ c.unread = << >>
    BY <1>0, <2>1, <2>2, FrontAndLast, Zenon DEF PoolOK
  <2>4. PoolOK'
    <3>1. /\ Front(pool.connections) \in Seq(Conn)
          /\ pool'.address = pool.address /\ pool'.connections = Front(pool.connections)
          /\ pool' \in [address : Address \cup {NoAddress}, connections : Seq(Conn)]
      BY <1>0, <2>1, <2>2, FrontAndLast, Zenon DEF PoolOK
    <3>2. \A i \in DOMAIN pool'.connections :
             i \in DOMAIN pool.connections /\ pool'.connections[i] = pool.connections[i]
      <4> DEFINE s == pool.connections
      <4>1. Len(Front(s)) = Len(s) - 1 /\ \A i \in 1..Len(s) - 1 : Front(s)[i] = s[i]
        BY <2>1, <2>2, FrontAndLast, Zenon
      <4>2. DOMAIN pool'.connections = 1..Len(s) - 1 /\ DOMAIN s = 1..Len(s) /\ Len(s) \in Nat
        BY <2>2, <3>1, <4>1
      <4> QED BY <3>1, <4>1, <4>2, SMTT(30)
    <3> QED BY <1>0, <3>1, <3>2, Zenon DEF PoolOK, OneNode
  <2>5. OpOK(o, r)
    BY <1>0, <2>3, OpRecordParts, ZenonT(30) DEF OpOK, OpRecord, OpStates
  <2> HIDE DEF r
  <2>6. NodesOK'
    BY <1>0, Zenon DEF NodesOK
  <2> QED BY <1>0, <2>1, <2>4, <2>5, <2>6, OneOpChanges, ZenonT(30) DEF ClientInv
<1>2. CASE ~ MayPool(o)
  <2> DEFINE r == [ops[o] EXCEPT !.at = "dial"]
  <2>1. ops' = [ops EXCEPT ![o] = r] /\ UNCHANGED pool
    BY <1>0, <1>2, OpRecordParts, Zenon DEF take
  <2>2. OpOK(o, r) /\ r.at = "dial"
    BY <1>0, OpRecordParts, Zenon DEF OpOK, OpRecord, OpStates
  <2> HIDE DEF r
  <2>3. Sendable(o, r)
    BY <2>2, Zenon DEF Sendable
  <2> QED BY <1>0, <2>1, <2>2, <2>3, OneOpChanges, NodesAndPoolStand, ZenonT(30) DEF ClientInv
<1> QED BY <1>1, <1>2, Zenon

LEMMA ClientStep_connect ==
    ASSUME ClientInv, NEW o \in Op, connect_one(o)
    PROVE  ClientInv'
<1> DEFINE a == addresses[ops[o].next]
           c == Connection(a, life[a])
           r == [ops[o] EXCEPT !.at = "adopt", !.conn = c, !.pooled = FALSE]
<1>0. OpsOK /\ PoolOK /\ NodesOK /\ SendsOK /\ UNCHANGED <<node, life, pool, received, disturbed>>
  BY Zenon DEF ClientInv, connect_one
<1>1. ops' = [ops EXCEPT ![o] = r] /\ node[a] = "up"
  BY <1>0, OpRecordParts, ZenonT(30) DEF connect_one
<1>2. a \in Address
  BY <1>0, OpRecordParts, AddressAt, Zenon DEF OpRecord
<1>3. c \in Conn /\ c.unread = << >> /\ Alive(c)
  BY <1>0, <1>1, <1>2 DEF NodesOK, Conn, Connection, Alive
<1> HIDE DEF c
<1>4. OpOK(o, r) /\ r.at = "adopt" /\ r.conn = c
  BY <1>0, <1>3, OpRecordParts, ZenonT(30) DEF OpOK, OpRecord, OpStates
<1> HIDE DEF r
<1>5. Sendable(o, r)
  BY <1>0, <1>3, <1>4, Zenon DEF Sendable
<1> QED BY <1>0, <1>1, <1>4, <1>5, OneOpChanges, NodesAndPoolStand, ZenonT(30) DEF ClientInv

LEMMA ClientStep_connect_fails ==
    ASSUME ClientInv, NEW o \in Op, connect_fails(o)
    PROVE  ClientInv'
<1>0. OpsOK /\ PoolOK /\ NodesOK /\ SendsOK /\ UNCHANGED <<node, life, pool, received, disturbed>>
  BY Zenon DEF ClientInv, connect_fails
<1>1. CASE ops[o].next < Len(addresses)
  <2> DEFINE r == [ops[o] EXCEPT !.next = @ + 1]
  <2>1. ops' = [ops EXCEPT ![o] = r] /\ ops[o].at = "dial"
    BY <1>0, <1>1, OpRecordParts, Zenon DEF connect_fails
  <2>2. OpOK(o, r) /\ r.at = "dial"
    BY <1>0, <1>1, <2>1, OpRecordParts, FirstAddress, SMTT(30) DEF OpOK, OpRecord, OpStates
  <2> HIDE DEF r
  <2>3. Sendable(o, r)
    BY <2>2, Zenon DEF Sendable
  <2> QED BY <1>0, <2>1, <2>2, <2>3, OneOpChanges, NodesAndPoolStand, ZenonT(30) DEF ClientInv
<1>2. CASE ~ ops[o].next < Len(addresses)
  <2>1. ops' = Returned(o, "failed")
    BY <1>2, Zenon DEF connect_fails
  <2>2. "failed" \in Ended
    BY Zenon DEF Ended
  <2> QED BY <1>0, <2>1, <2>2, ReturnedKeeps, NodesAndPoolStand, Zenon DEF ClientInv
<1> QED BY <1>1, <1>2, Zenon

LEMMA ClientStep_adopt ==
    ASSUME ClientInv, NEW o \in Op, adopt(o)
    PROVE  ClientInv'
<1> DEFINE r == [ops[o] EXCEPT !.at = "write"]
<1>0. OpsOK /\ PoolOK /\ NodesOK /\ SendsOK /\ UNCHANGED <<node, life, received, disturbed>>
  BY Zenon DEF ClientInv, adopt
<1>1. /\ ops' = [ops EXCEPT ![o] = r] /\ ops[o].at = "adopt"
      /\ pool' = IF pool.address = ops[o].conn.to THEN pool ELSE Pointed(ops[o].conn.to)
  BY <1>0, OpRecordParts, Zenon DEF adopt
<1>2. ops[o].conn \in Conn /\ ops[o].conn.unread = << >>
  BY <1>0, <1>1, OpRecordParts, Zenon DEF OpOK
<1>3. OpOK(o, r) /\ r.at = "write" /\ r.conn = ops[o].conn
  BY <1>0, <1>2, OpRecordParts, SMTT(30) DEF OpOK, OpRecord, OpStates
<1> HIDE DEF r
<1>4. o \in Sends => Sendable(o, r)
  BY <1>0, <1>1, <1>3, Zenon DEF Sendable, SendsOK, SendOK
<1>5. PoolOK'
  <2>1. CASE pool.address = ops[o].conn.to
    BY <1>0, <1>1, <2>1, Zenon DEF PoolOK, OneNode
  <2>2. CASE pool.address # ops[o].conn.to
    <3>1. pool' = [address |-> ops[o].conn.to, connections |-> << >>]
      BY <1>1, <2>2, Zenon DEF Pointed
    <3>2. ops[o].conn.to \in Address
      BY <1>2, Zenon DEF Conn
    <3> QED BY <3>1, <3>2, SMTT(30) DEF PoolOK, OneNode
  <2> QED BY <2>1, <2>2, Zenon
<1>6. NodesOK'
  BY <1>0, Zenon DEF NodesOK
<1> QED BY <1>0, <1>1, <1>3, <1>4, <1>5, <1>6, OneOpChanges, ZenonT(30) DEF ClientInv

LEMMA ClientStep_write ==
    ASSUME ClientInv, NEW o \in Op, write(o)
    PROVE  ClientInv'
<1>0. /\ OpsOK /\ PoolOK /\ NodesOK /\ SendsOK /\ UNCHANGED <<node, life, pool, disturbed>>
      /\ ops[o].at = "write"
  BY Zenon DEF ClientInv, write
<1>1. ops[o].conn \in Conn /\ ops[o].conn.unread = << >> /\ ops[o] \in OpRecord
      /\ ops[o].reply \in {o, NoReply}
  BY <1>0, OpRecordParts, Zenon DEF OpOK
<1>2. CASE o \in Sends
  <2> DEFINE r == [ops[o] EXCEPT !.at = "put", !.conn.unread = @]
  <2>1. ops' = [ops EXCEPT ![o] = r]
    BY <1>0, <1>2, OpRecordParts, ZenonT(30) DEF write
  <2>2. r.conn = ops[o].conn /\ r.at = "put" /\ r.reply = ops[o].reply /\ r \in OpRecord
    BY <1>1, ZenonT(30) DEF OpRecord, OpStates, Conn
  <2> HIDE DEF r
  <2>3. OpOK(o, r)
    BY <1>1, <2>2, Zenon DEF OpOK
  <2>4. received' = IF Alive(ops[o].conn) THEN received \cup {o} ELSE received
    BY <1>2, Zenon DEF write
  <2>5. Sendable(o, r)
    BY <1>0, <1>2, <2>2, <2>4, Zenon DEF Sendable, SendsOK, SendOK
  <2> QED BY <1>0, <2>1, <2>3, <2>4, <2>5, OneOpChanges, NodesAndPoolStand, ZenonT(30) DEF ClientInv
<1>3. CASE o \notin Sends
  <2> DEFINE c == [ops[o].conn EXCEPT !.unread = Append(@, o)]
             r == [ops[o] EXCEPT !.at = "read", !.conn = c]
  <2>1. ops' = [ops EXCEPT ![o] = r] /\ received' = received
    BY <1>0, <1>1, <1>3, OpRecordParts, ZenonT(30) DEF write, OpRecord
  <2>2. c \in Conn /\ c.unread = <<o>>
    <3>1. Append(ops[o].conn.unread, o) = <<o>> /\ <<o>> \in Seq(Op)
      BY <1>1, OneUnread, Zenon
    <3> QED BY <1>1, <3>1, ZenonT(30) DEF Conn
  <2> HIDE DEF c
  <2>3. r.conn = c /\ r.at = "read" /\ r.reply = ops[o].reply /\ r \in OpRecord
    BY <1>1, <2>2, ZenonT(30) DEF OpRecord, OpStates
  <2> HIDE DEF r
  <2>4. OpOK(o, r)
    BY <1>1, <2>2, <2>3, Zenon DEF OpOK
  <2> QED BY <1>0, <1>3, <2>1, <2>4, OneOpChanges, NodesAndPoolStand, ZenonT(30) DEF ClientInv
<1> QED BY <1>2, <1>3, Zenon

LEMMA ClientStep_read ==
    ASSUME ClientInv, NEW o \in Op, read_reply(o)
    PROVE  ClientInv'
<1> DEFINE c == [ops[o].conn EXCEPT !.unread = Tail(@)]
           r == [ops[o] EXCEPT !.at = "put", !.reply = Head(ops[o].conn.unread), !.conn = c]
<1>0. /\ OpsOK /\ PoolOK /\ NodesOK /\ SendsOK
      /\ UNCHANGED <<node, life, pool, received, disturbed>>
      /\ ops[o].at = "read"
  BY Zenon DEF ClientInv, read_reply
<1>1. ops[o].conn \in Conn /\ ops[o].conn.unread = <<o>> /\ ops[o] \in OpRecord
  BY <1>0, OpRecordParts, Zenon DEF OpOK
<1>2. ops' = [ops EXCEPT ![o] = r]
  BY <1>0, <1>1, OpRecordParts, ZenonT(30) DEF read_reply, OpRecord
<1>3. c \in Conn /\ c.unread = << >> /\ Head(ops[o].conn.unread) = o
  <2>1. /\ Tail(ops[o].conn.unread) = << >> /\ << >> \in Seq(Op)
        /\ Head(ops[o].conn.unread) = o
    BY <1>1, OneUnread, Zenon
  <2> QED BY <1>1, <2>1, ZenonT(30) DEF Conn
<1> HIDE DEF c
<1>4. r.conn = c /\ r.at = "put" /\ r.reply = o /\ r \in OpRecord
  BY <1>1, <1>3, ZenonT(30) DEF OpRecord, OpStates
<1> HIDE DEF r
<1>5. OpOK(o, r)
  BY <1>3, <1>4, Zenon DEF OpOK
<1>6. o \notin Sends
  BY <1>0, Zenon DEF SendsOK, SendOK
<1> QED BY <1>0, <1>2, <1>5, <1>6, OneOpChanges, NodesAndPoolStand, ZenonT(30) DEF ClientInv

LEMMA ClientStep_fails ==
    ASSUME ClientInv, NEW o \in Op, exchange_fails(o)
    PROVE  ClientInv'
<1>0. /\ OpsOK /\ PoolOK /\ NodesOK /\ SendsOK
      /\ UNCHANGED <<node, life, pool, received, disturbed>>
  BY Zenon DEF ClientInv, exchange_fails, DropsBroken
<1>1. CASE ops[o].pooled
  <2> DEFINE r == [ops[o] EXCEPT !.at = "dial", !.conn = NoConn]
  <2>1. ops' = [ops EXCEPT ![o] = r]
    BY <1>0, <1>1, OpRecordParts, ZenonT(30) DEF exchange_fails
  <2>2. OpOK(o, r) /\ r.at = "dial"
    BY <1>0, OpRecordParts, ZenonT(30) DEF OpOK, OpRecord, OpStates
  <2> HIDE DEF r
  <2>3. Sendable(o, r)
    BY <2>2, Zenon DEF Sendable
  <2> QED BY <1>0, <2>1, <2>2, <2>3, OneOpChanges, NodesAndPoolStand, ZenonT(30) DEF ClientInv
<1>2. CASE ~ ops[o].pooled
  <2>1. ops' = Returned(o, "failed") /\ "failed" \in Ended
    BY <1>2, Zenon DEF exchange_fails, Ended
  <2> QED BY <1>0, <2>1, ReturnedKeeps, NodesAndPoolStand, Zenon DEF ClientInv
<1> QED BY <1>1, <1>2, Zenon

LEMMA ClientStep_put ==
    ASSUME ClientInv, NEW o \in Op, put(o)
    PROVE  ClientInv'
<1>0. /\ OpsOK /\ PoolOK /\ NodesOK /\ SendsOK
      /\ UNCHANGED <<node, life, received, disturbed>>
      /\ ops' = Returned(o, "done") /\ "done" \in Ended /\ ops[o].at = "put"
  BY Zenon DEF ClientInv, put, Ended
<1>1. OpsOK' /\ SendsOK'
  BY <1>0, ReturnedKeeps, Zenon
<1>2. ops[o].conn \in Conn /\ ops[o].conn.unread = << >>
  BY <1>0, OpRecordParts, SMTT(30) DEF OpOK
<1>3. PoolOK'
  <2>1. CASE pool.address = ops[o].conn.to
    <3> DEFINE s == pool.connections
    <3>1. /\ pool'.address = pool.address /\ pool'.connections = Append(s, ops[o].conn)
          /\ pool' \in [address : Address \cup {NoAddress}, connections : Seq(Conn)]
          /\ s \in Seq(Conn)
      BY <1>0, <1>2, <2>1, SMTT(30) DEF put, StillPooled, PoolOK
    <3>2. \A i \in DOMAIN pool'.connections :
             \/ i \in DOMAIN s /\ pool'.connections[i] = s[i]
             \/ pool'.connections[i] = ops[o].conn
      BY <1>2, <3>1, SMTT(30)
    <3> QED BY <1>0, <1>2, <2>1, <3>1, <3>2, SMTT(30) DEF PoolOK, OneNode
  <2>2. CASE pool.address # ops[o].conn.to
    BY <1>0, <2>2, Zenon DEF put, StillPooled, PoolOK, OneNode
  <2> QED BY <2>1, <2>2, Zenon
<1>4. NodesOK'
  BY <1>0, Zenon DEF NodesOK
<1> QED BY <1>1, <1>3, <1>4, SMTT(30) DEF ClientInv

\* A node that stops takes its connections with it, and disturbs the submissions under way.
LEMMA ClientStep_stops ==
    ASSUME ClientInv, NEW a \in Address, NodeStops(a)
    PROVE  ClientInv'
<1>0. OpsOK /\ PoolOK /\ NodesOK /\ SendsOK /\ UNCHANGED <<pool, ops, received>>
  BY Zenon DEF ClientInv, NodeStops
<1>1. NodesOK'
  BY <1>0 DEF NodesOK, NodeStops
<1>2. PoolOK' /\ OpsOK'
  BY <1>0, Zenon DEF PoolOK, OneNode, OpsOK, OpOK
<1>3. ASSUME NEW o \in Sends PROVE SendOK(o, ops[o])'
  BY <1>0, Zenon DEF NodeStops, SendsOK, SendOK, Ended
<1> QED BY <1>1, <1>2, <1>3, SMTT(30) DEF ClientInv, SendsOK

\* A node that wedges or serves again is the same process to its connections.
LEMMA ClientStep_turns ==
    ASSUME ClientInv, NEW a \in Address, NodeWedges(a) \/ NodeServes(a)
    PROVE  ClientInv'
<1>0. /\ OpsOK /\ PoolOK /\ NodesOK /\ SendsOK
      /\ UNCHANGED <<life, pool, ops, received, disturbed>>
      /\ node' \in [Address -> {"up", "wedged", "down"}]
      /\ \A b \in Address : node[b] # "down" => node'[b] # "down"
  BY Zenon DEF ClientInv, NodeWedges, NodeServes, NodesOK
<1>1. NodesOK' /\ PoolOK' /\ OpsOK'
  BY <1>0, Zenon DEF NodesOK, PoolOK, OneNode, OpsOK, OpOK
<1>2. ASSUME NEW o \in Sends PROVE SendOK(o, ops[o])'
  <2>1. o \in Op
    BY NodeClientAssumption, Zenon
  <2>2. ops[o].at \in {"adopt", "write"} => ops[o].conn.to \in Address
    BY <1>0, <2>1, OpRecordParts, SMTT(30) DEF OpOK, Conn
  <2> QED BY <1>0, <2>2, SMTT(30) DEF SendsOK, SendOK, Alive
<1> QED BY <1>1, <1>2, Zenon DEF ClientInv, SendsOK

LEMMA ClientSteps == ClientInv /\ [NodeClientNext]_clientVars => ClientInv'
<1> SUFFICES ASSUME ClientInv, [NodeClientNext]_clientVars PROVE ClientInv'
  BY Zenon
<1>1. ASSUME NEW o \in Op, ClientStep(o) PROVE ClientInv'
  BY <1>1, ClientStep_acquire, ClientStep_take, ClientStep_connect, ClientStep_connect_fails,
     ClientStep_adopt, ClientStep_write, ClientStep_read, ClientStep_fails, ClientStep_put, SMTT(30)
     DEF ClientStep
<1>2. ASSUME NEW o \in Op, Cancelled(o) PROVE ClientInv'
  <2>1. /\ OpsOK /\ PoolOK /\ NodesOK /\ SendsOK
        /\ UNCHANGED <<node, life, pool, received, disturbed>>
        /\ ops' = Returned(o, "cancelled") /\ "cancelled" \in Ended
    BY <1>2, Zenon DEF ClientInv, Cancelled, Ended
  <2> QED BY <2>1, ReturnedKeeps, NodesAndPoolStand, SMTT(30) DEF ClientInv
<1>3. ASSUME NEW a \in Address, NodeStops(a) \/ NodeWedges(a) \/ NodeServes(a) PROVE ClientInv'
  BY <1>3, ClientStep_stops, ClientStep_turns, SMTT(30)
<1>4. CASE UNCHANGED clientVars
  BY <1>4, Zenon DEF clientVars, ClientInv, NodesOK, PoolOK, OneNode, OpsOK, OpOK, SendsOK, SendOK, Alive
<1> QED BY <1>1, <1>2, <1>3, <1>4, SMTT(30) DEF NodeClientNext

----------------------------------------------------------------------------

\* However many exchanges time out, fail or are cancelled with a reply still on the way, no
\* request is answered with another operation's reply (request drops the connection).
THEOREM RepliesNotMixed == NodeClientSpec => []OwnReply
<1>1. ClientInv => OwnReply
  BY SMTT(30) DEF ClientInv, OpsOK, OpOK, OwnReply
<1> QED BY <1>1, ClientStarts, ClientSteps, PTL DEF NodeClientSpec

\* The pool never holds connections to two addresses, whichever operation dials which
\* address in between (Pool::adopt, Pool::put).
THEOREM PoolToOneNode == NodeClientSpec => []OneNode
<1>1. ClientInv => OneNode
  BY SMTT(30) DEF ClientInv, PoolOK
<1> QED BY <1>1, ClientStarts, ClientSteps, PTL DEF NodeClientSpec

\* A submission reported sent was handed to a live process, or some node stopped while it
\* was under way (send dials afresh, so it never writes into a dead pooled socket).
THEOREM SentReachesANode == NodeClientSpec => []SendsArrive
<1>1. ClientInv => SendsArrive
  BY Zenon DEF ClientInv, SendsOK, SendOK, SendsArrive
<1> QED BY <1>1, ClientStarts, ClientSteps, PTL DEF NodeClientSpec

\* Callers of the pool get their own reply from the node it points at, and a submission
\* reported sent reached a node (hub/src/node_client.rs).
THEOREM ConnectionsAreSound == NodeClientSpec => []ConnectionsSound
<1>1. OwnReply /\ OneNode /\ SendsArrive => ConnectionsSound
  BY Zenon DEF ConnectionsSound
<1> QED BY <1>1, RepliesNotMixed, PoolToOneNode, SentReachesANode, PTL

-----------------------------------------------------------------------------
(* Gauges and alerts, for any interval, limits, payouts and outages.  A    *)
(* gauge says what was true at its last reading, and what changed since    *)
(* then changed at a later instant, or leaves the alert as it was.         *)

Whole == Nat \cup {-1}

Clocks ==
    /\ tick \in Nat /\ moved \in Nat /\ moved <= tick
    /\ custody \in Int /\ owed \in Int
    /\ \A p \in Payout : submitted_at[p] \in Nat \cup {Unsent}
    /\ submitted_at = [p \in Payout |-> submitted_at[p]]
    /\ \A p \in Outstanding : submitted_at[p] <= tick

\* The shapes of the records that a step rewrites in part.
Records ==
    /\ pass = [at |-> pass.at, due |-> pass.due]
    /\ gauge = [outstanding |-> gauge.outstanding, oldest |-> gauge.oldest,
                observed |-> gauge.observed, custody |-> gauge.custody]
    /\ read = [tip |-> read.tip, balance |-> read.balance, board |-> read.board]
    /\ read.tip \in Whole /\ read.balance \in Whole /\ read.board \in Whole
    /\ read.balance <= tick /\ read.board <= tick
    /\ gauge.oldest \in Nat

\* What the gauges say is what was read, when it was read.
GaugesExact ==
    /\ gauge.observed = read.tip
    /\ read.balance > moved => gauge.custody = custody
    /\ \A p \in Outstanding : read.board - submitted_at[p] <= gauge.oldest
    /\ pass.at \in {"tip", "balance", "idle"} => gauge.outstanding \subseteq Outstanding

WatchInv == Clocks /\ Records /\ GaugesExact

-----------------------------------------------------------------------------

\* A set of natural numbers that is not empty has a least element.
LEMMA LeastOf ==
    ASSUME NEW T, T \subseteq Nat, T # {}
    PROVE  Min(T) \in T /\ \A y \in T : Min(T) <= y
<1> DEFINE R == OpToRel(<, Nat)
<1>1. \E x \in T : \A y \in T : ~ (<<y, x>> \in R)
  <2>1. IsWellFoundedOn(R, Nat)
    BY NatLessThanWellFounded, Zenon
  <2> HIDE DEF R
  <2> QED BY <2>1, WFMin, ZenonT(30)
<1>2. PICK x \in T : \A y \in T : ~ (<<y, x>> \in R)
  BY <1>1, Zenon
<1>3. ASSUME NEW y \in T PROVE x <= y
  <2>1. y \in Nat /\ x \in Nat
    BY Zenon
  <2>2. ~ (y < x)
    BY <1>2, <2>1, ZenonT(30) DEF OpToRel
  <2> QED BY <2>1, <2>2
<1>4. \E m \in T : \A y \in T : m =< y
  BY <1>3, Zenon
<1> QED BY <1>4, ZenonT(30) DEF Min

LEMMA UnsentIs == Unsent \notin Nat
  BY WatchAssumption, Zenon

LEMMA WatchStarts == WatchInit => WatchInv
<1> SUFFICES ASSUME WatchInit PROVE WatchInv
  BY Zenon
<1>1. Outstanding = {}
  BY Zenon DEF WatchInit, Outstanding
<1>2. Clocks
  BY <1>1 DEF WatchInit, Clocks
<1>3. Records
  BY SMTT(30) DEF WatchInit, Records, Whole
<1>4. GaugesExact
  BY <1>1 DEF WatchInit, GaugesExact
<1> QED BY <1>2, <1>3, <1>4 DEF WatchInv

\* Steps that leave the gauges and what they sample alone.
LEMMA WatchRests ==
    ASSUME WatchInv,
           UNCHANGED <<submitted_at, custody, moved, owed, gauge, read>>,
           tick' \in Nat, tick' >= tick,
           pass' = [at |-> pass'.at, due |-> pass'.due],
           pass'.at \in {"tip", "balance", "idle"} => pass.at \in {"tip", "balance", "idle"}
    PROVE  WatchInv'
<1>1. Outstanding' = Outstanding
  BY Zenon DEF Outstanding
<1>2. Clocks'
  BY <1>1, SMTT(30) DEF WatchInv, Clocks, Outstanding
<1>3. Records'
  BY DEF WatchInv, Records, Whole, Clocks
<1>4. GaugesExact'
  BY <1>1, Zenon DEF WatchInv, GaugesExact
<1> QED BY <1>2, <1>3, <1>4 DEF WatchInv

LEMMA PassesOn ==
    ASSUME WatchInv, NEW stage \in {"start", "resolve", "board", "tip", "balance"}, Proceeds(stage)
    PROVE  pass' = [at |-> Following[stage], due |-> pass.due]
  BY Zenon DEF WatchInv, Records, Proceeds

LEMMA BoardSampled ==
    ASSUME WatchInv, SampleBoard
    PROVE  WatchInv'
<1>1. pass' = [at |-> "tip", due |-> pass.due]
  BY PassesOn, Zenon DEF SampleBoard, Following
<1>2. /\ UNCHANGED <<tick, submitted_at, custody, owed, moved>>
      /\ gauge' = [outstanding |-> Outstanding, oldest |-> OldestWait,
                   observed |-> gauge.observed, custody |-> gauge.custody]
      /\ read' = [tip |-> read.tip, balance |-> read.balance, board |-> tick]
  BY ZenonT(30) DEF SampleBoard, WatchInv, Records
<1>3. Outstanding' = Outstanding
  BY <1>2 DEF Outstanding
<1>4. OldestWait \in Nat /\ \A p \in Outstanding : tick - submitted_at[p] <= OldestWait
  <2>1. CASE Outstanding = {}
    BY <2>1, Zenon DEF OldestWait
  <2>2. CASE Outstanding # {}
    <3> DEFINE T == {submitted_at[p] : p \in Outstanding}
    <3>1. T \subseteq Nat /\ T # {} /\ \A p \in Outstanding : submitted_at[p] \in T
      BY <2>2, Zenon DEF Outstanding, WatchInv, Clocks
    <3>2. OldestWait = tick - Min(T)
      BY <2>2, Zenon DEF OldestWait
    <3> HIDE DEF T
    <3>3. Min(T) \in Nat /\ \A y \in T : Min(T) <= y
      BY <3>1, LeastOf, ZenonT(30)
    <3>4. Min(T) <= tick
      <4>1. \A y \in T : y <= tick
        BY Zenon DEF T, WatchInv, Clocks
      <4> QED BY <3>1, <4>1, LeastOf, ZenonT(30)
    <3> QED BY <3>1, <3>2, <3>3, <3>4 DEF WatchInv, Clocks
  <2> QED BY <2>1, <2>2, Zenon
<1>5. Clocks'
  BY <1>2, <1>3, Zenon DEF WatchInv, Clocks
<1>6. Records'
  BY <1>1, <1>2, <1>4, SMTT(30) DEF WatchInv, Records, Whole, Clocks
<1>7. GaugesExact'
  BY <1>1, <1>2, <1>3, <1>4, ZenonT(30) DEF WatchInv, GaugesExact
<1> QED BY <1>5, <1>6, <1>7 DEF WatchInv

LEMMA TipSampled ==
    ASSUME WatchInv, SampleTip
    PROVE  WatchInv'
<1>1. pass' = [at |-> "balance", due |-> pass.due] /\ pass.at = "tip"
  BY PassesOn, Zenon DEF SampleTip, Following
<1>2. /\ UNCHANGED <<tick, submitted_at, custody, owed, moved>>
      /\ gauge' = [outstanding |-> gauge.outstanding, oldest |-> gauge.oldest,
                   observed |-> TipObserved, custody |-> gauge.custody]
      /\ read' = [tip |-> TipObserved, balance |-> read.balance, board |-> read.board]
  BY Zenon DEF SampleTip, TipObserved, WatchInv, Records, GaugesExact
<1>3. Outstanding' = Outstanding
  BY <1>2, Zenon DEF Outstanding
<1>4. TipObserved \in Whole
  BY Zenon DEF TipObserved, WatchInv, Clocks, Records, GaugesExact, Whole
<1>5. Clocks'
  BY <1>2, <1>3, SMTT(30) DEF WatchInv, Clocks
<1>6. Records'
  BY <1>1, <1>2, <1>4, SMTT(30) DEF WatchInv, Records
<1>7. GaugesExact'
  BY <1>1, <1>2, <1>3, ZenonT(30) DEF WatchInv, GaugesExact
<1> QED BY <1>5, <1>6, <1>7, Zenon DEF WatchInv

LEMMA BalanceSampled ==
    ASSUME WatchInv, SampleBalance
    PROVE  WatchInv'
<1>1. pass' = [at |-> "idle", due |-> pass.due] /\ pass.at = "balance"
  BY PassesOn DEF SampleBalance, Following
<1>2. /\ UNCHANGED <<tick, submitted_at, custody, owed, moved>>
      /\ gauge' = [outstanding |-> gauge.outstanding, oldest |-> gauge.oldest,
                   observed |-> gauge.observed, custody |-> BalanceRead]
  BY Zenon DEF SampleBalance, WatchInv, Records
<1>3. Outstanding' = Outstanding
  BY <1>2 DEF Outstanding
<1>4. CASE node_up
  <2>1. read' = [tip |-> read.tip, balance |-> tick, board |-> read.board] /\ gauge'.custody = custody
    BY <1>2, <1>4, Zenon DEF SampleBalance, WatchInv, Records, BalanceRead
  <2>2. Clocks'
    BY <1>2, <1>3, SMTT(30) DEF WatchInv, Clocks
  <2>3. Records'
    BY <1>1, <1>2, <2>1, SMTT(30) DEF WatchInv, Records, Whole, Clocks
  <2>4. GaugesExact'
    BY <1>1, <1>2, <1>3, <2>1, ZenonT(30) DEF WatchInv, GaugesExact
  <2> QED BY <2>2, <2>3, <2>4, Zenon DEF WatchInv
<1>5. CASE ~node_up
  <2>1. read' = read /\ gauge' = gauge
    BY <1>2, <1>5 DEF SampleBalance, WatchInv, Records, BalanceRead
  <2> QED BY <1>1, <1>2, <2>1, WatchRests DEF WatchInv, Clocks
<1> QED BY <1>4, <1>5

\* Payouts leave the wire before the board is sampled, and the money moves at a tick that is
\* not before the last reading.
LEMMA WorldMoves ==
    ASSUME WatchInv, ResolvePayouts \/ MoneyMoves \/ \E p \in Payout : Submits(p)
    PROVE  WatchInv'
<1>1. CASE ResolvePayouts
  <2>1. pass' = [at |-> "board", due |-> pass.due]
    BY <1>1, PassesOn, ZenonT(30) DEF ResolvePayouts, Following
  <2>2. PICK done \in SUBSET Outstanding :
          submitted_at' = [p \in Payout |-> IF p \in done THEN Unsent ELSE submitted_at[p]]
    BY <1>1 DEF ResolvePayouts
  <2>3. UNCHANGED <<tick, custody, owed, moved, gauge, read>>
    BY <1>1 DEF ResolvePayouts
  <2>4. \A p \in Outstanding' : p \in Outstanding /\ submitted_at'[p] = submitted_at[p]
    BY <2>2 DEF Outstanding
  <2>5. Clocks'
    BY <2>2, <2>3, <2>4, SMTT(30) DEF WatchInv, Clocks
  <2>6. Records'
    BY <2>1, <2>3, SMTT(30) DEF WatchInv, Records
  <2>7. GaugesExact'
    BY <2>1, <2>3, <2>4 DEF WatchInv, GaugesExact
  <2> QED BY <2>5, <2>6, <2>7, SMTT(30) DEF WatchInv
<1>2. CASE MoneyMoves
  <2>1. UNCHANGED <<tick, pass, submitted_at, gauge, read>> /\ moved' = tick
    BY <1>2, Zenon DEF MoneyMoves
  <2>2. custody' \in Int /\ owed' \in Int
    BY <1>2 DEF MoneyMoves, WatchInv, Clocks
  <2>3. Outstanding' = Outstanding
    BY <2>1, Zenon DEF Outstanding
  <2>4. Clocks'
    BY <2>1, <2>2, <2>3, SMTT(30) DEF WatchInv, Clocks
  <2>5. Records'
    BY <2>1, Zenon DEF WatchInv, Records
  <2>6. GaugesExact'
    BY <2>1, <2>3 DEF WatchInv, GaugesExact, Records, Clocks, Whole
  <2> QED BY <2>4, <2>5, <2>6 DEF WatchInv
<1>3. ASSUME NEW q \in Payout, Submits(q) PROVE WatchInv'
  <2>1. UNCHANGED <<tick, pass, custody, owed, moved, gauge, read>>
    BY <1>3, Zenon DEF Submits
  <2>2. submitted_at' = [p \in Payout |-> IF p = q THEN tick ELSE submitted_at[p]]
    BY <1>3 DEF Submits, WatchInv, Clocks
  <2>3. tick # Unsent
    BY UnsentIs DEF WatchInv, Clocks
  <2>4. Outstanding' = Outstanding \cup {q}
    BY <2>2, <2>3 DEF Outstanding
  <2>5. Clocks'
    <3>1. \A p \in Payout : submitted_at'[p] = IF p = q THEN tick ELSE submitted_at[p]
      BY <2>2
    <3>2. submitted_at' = [p \in Payout |-> submitted_at'[p]]
      BY <2>2
    <3>3. \A p \in Payout : submitted_at'[p] \in Nat \cup {Unsent}
      BY <3>1, Zenon DEF WatchInv, Clocks
    <3>4. \A p \in Outstanding' : submitted_at'[p] <= tick
      BY <2>4, <3>1, SMTT(30) DEF WatchInv, Clocks, Outstanding
    <3> QED BY <2>1, <3>2, <3>3, <3>4 DEF WatchInv, Clocks
  <2>6. Records'
    BY <2>1, Zenon DEF WatchInv, Records
  <2>7. \A p \in Outstanding' : read'.board - submitted_at'[p] <= gauge'.oldest
    <3> TAKE p \in Outstanding'
    <3>1. CASE p = q
      BY <2>1, <2>2, <3>1, SMTT(30) DEF WatchInv, Records, Clocks, Whole
    <3>2. CASE p # q
      <4>1. p \in Outstanding /\ p \in Payout
        BY <2>4, <3>2, SMTT(30) DEF Outstanding
      <4> QED BY <2>1, <2>2, <3>2, <4>1, SMTT(30) DEF WatchInv, GaugesExact
    <3> QED BY <3>1, <3>2
  <2>8. GaugesExact'
    BY <2>1, <2>4, <2>7, ZenonT(30) DEF WatchInv, GaugesExact
  <2> QED BY <2>5, <2>6, <2>8, Zenon DEF WatchInv
<1> QED BY <1>1, <1>2, <1>3

LEMMA WatchSteps == WatchInv /\ [WatchNext]_watchVars => WatchInv'
<1> SUFFICES ASSUME WatchInv, [WatchNext]_watchVars PROVE WatchInv'
  BY Zenon
<1>0. tick \in Nat /\ pass = [at |-> pass.at, due |-> pass.due]
  BY Zenon DEF WatchInv, Clocks, Records
<1>1. CASE StartPass
  <2>1. pass' = [at |-> "resolve", due |-> pass.due + INTERVAL]
    BY <1>1, SMTT(30) DEF StartPass, Following
  <2>2. UNCHANGED <<tick, submitted_at, custody, moved, owed, gauge, read>>
    BY <1>1 DEF StartPass
  <2> QED BY <1>0, <2>1, <2>2, WatchRests, SMTT(30)
<1>2. CASE NodeComesAndGoes
  <2>1. UNCHANGED <<tick, pass, submitted_at, custody, moved, owed, gauge, read>>
    BY <1>2 DEF NodeComesAndGoes
  <2> QED BY <1>0, <2>1, WatchRests
<1>3. CASE SecondPasses
  <2>1. tick' = tick + 1 /\ UNCHANGED <<pass, submitted_at, custody, moved, owed, gauge, read>>
    BY <1>3 DEF SecondPasses
  <2> QED BY <1>0, <2>1, WatchRests
<1>4. CASE UNCHANGED watchVars
  <2>1. UNCHANGED <<tick, pass, submitted_at, custody, moved, owed, gauge, read>>
    BY <1>4 DEF watchVars
  <2> QED BY <1>0, <2>1, WatchRests
<1> QED BY <1>1, <1>2, <1>3, <1>4, BoardSampled, TipSampled, BalanceSampled, WorldMoves, ZenonT(30) DEF WatchNext

LEMMA WatchHolds == WatchSpec => []WatchInv
  BY WatchStarts, WatchSteps, PTL DEF WatchSpec

\* A silent node is alerted: the age the overview shows is that of the last answer (admin.rs
\* overview; main.rs sample_gauges).
THEOREM SilenceAlerted == WatchSpec => []SilenceIsAlerted
<1>1. WatchInv => SilenceIsAlerted
  BY DEF WatchInv, GaugesExact, SilenceIsAlerted, chain_stale, overview
<1> QED BY <1>1, WatchHolds, PTL

\* The verdict on solvency is exact once the balance was read at rest.
THEOREM SolvencyExact == WatchSpec => []VerdictIsExactAtRest
<1>1. WatchInv => VerdictIsExactAtRest
  <2>1. insolvent(overview) <=> ~ (gauge.custody >= owed)
    BY Zenon DEF insolvent, overview
  <2> QED BY <2>1 DEF WatchInv, Clocks, GaugesExact, VerdictIsExactAtRest
<1> QED BY <1>1, WatchHolds, PTL

\* A stuck payout is alerted.
THEOREM StuckAlerted == WatchSpec => []StuckPayoutIsAlerted
<1>1. WatchInv => StuckPayoutIsAlerted
  <2> SUFFICES ASSUME WatchInv, NEW p \in Outstanding, read.board - submitted_at[p] > PAYOUT_STUCK
               PROVE  gauge.oldest > PAYOUT_STUCK
    BY DEF StuckPayoutIsAlerted, task_payout_stuck, overview
  <2>1. submitted_at[p] \in Nat
    BY SMTT(30) DEF WatchInv, Clocks, Outstanding
  <2> QED BY <2>1, WatchAssumption, SMTT(30) DEF WatchInv, Records, GaugesExact, Whole
<1> QED BY <1>1, WatchHolds, PTL

\* The gauges count no payout the last pass settled.
THEOREM GaugesAfterTheWork == WatchSpec => []GaugesFollowTheWork
<1>1. WatchInv => GaugesFollowTheWork
  BY DEF WatchInv, GaugesExact, GaugesFollowTheWork, Outstanding
<1> QED BY <1>1, WatchHolds, PTL

-----------------------------------------------------------------------------
(* The lag.  As long as none was ever measured, every pass began when the  *)
(* one before it was due to.                                               *)

LagInv ==
    /\ tick \in Nat /\ lateness \in Int
    /\ lag = [last |-> lag.last, max |-> lag.max] /\ lag.max \in Nat
    /\ pass = [at |-> pass.at, due |-> pass.due] /\ pass.due \in Nat
    /\ previous_start \in Whole
    /\ previous_start = -1 => pass.at = "idle" /\ pass.due = 0 /\ tick = 0 /\ lateness = 0
    /\ previous_start # -1 /\ lag.max = 0 => lateness = 0 /\ previous_start + INTERVAL = pass.due

LEMMA LargerOf ==
    ASSUME NEW x \in Int, NEW y \in Int
    PROVE  Max({x, y}) \in {x, y} /\ Max({x, y}) >= x /\ Max({x, y}) >= y
<1>1. \E m \in {x, y} : \A n \in {x, y} : m >= n
  <2>1. CASE x >= y
    BY <2>1
  <2>2. CASE ~ (x >= y)
    BY <2>2, SMTT(30)
  <2> QED BY <2>1, <2>2
<1> QED BY <1>1 DEF Max

LEMMA LagStarts == WatchInit => LagInv
  BY SMTT(30) DEF WatchInit, LagInv, Whole

LEMMA LagMeasured ==
    ASSUME LagInv, StartPass
    PROVE  LagInv'
<1>1. PICK behind \in Int :
        /\ behind = IF previous_start = -1 THEN 0 ELSE Max({0, tick - previous_start - INTERVAL})
        /\ behind >= 0
        /\ previous_start # -1 => behind >= tick - previous_start - INTERVAL
  <2>1. CASE previous_start = -1
    BY <2>1
  <2>2. CASE previous_start # -1
    <3>1. PICK gap \in Int : gap = tick - previous_start - INTERVAL
      BY WatchAssumption DEF LagInv, Whole
    <3>2. Max({0, gap}) \in {0, gap} /\ Max({0, gap}) >= 0 /\ Max({0, gap}) >= gap
      BY LargerOf
    <3> QED BY <2>2, <3>1, <3>2
  <2> QED BY <2>1, <2>2
<1>2. PICK most \in Nat : most = Max({lag.max, behind}) /\ most >= lag.max /\ most >= behind
  BY LargerOf, SMTT(30) DEF LagInv
<1>3. /\ lag' = [last |-> behind, max |-> most] /\ tick' = tick
      /\ previous_start' = tick /\ lateness' = tick - pass.due /\ tick >= pass.due
      /\ pass' = [at |-> "resolve", due |-> pass.due + INTERVAL] /\ pass.at = "idle"
  BY <1>1, <1>2, SMTT(30) DEF StartPass, Following
<1>4. most = 0 => tick = pass.due
  BY <1>1, <1>2, <1>3, WatchAssumption DEF LagInv, Whole
<1> QED BY <1>3, <1>4, WatchAssumption DEF LagInv, Whole

LEMMA LagSteps == LagInv /\ [WatchNext]_watchVars => LagInv'
<1> SUFFICES ASSUME LagInv, [WatchNext]_watchVars PROVE LagInv'
  BY Zenon
<1>1. ASSUME NEW stage \in {"resolve", "board", "tip", "balance"}, pass.at = stage, Proceeds(stage),
             UNCHANGED <<tick, lag, lateness>>
      PROVE  LagInv'
  <2>1. PICK next : pass' = [at |-> next, due |-> pass.due]
    BY <1>1, ZenonT(30) DEF Proceeds, LagInv
  <2>2. UNCHANGED previous_start /\ pass.at # "idle"
    BY <1>1 DEF Proceeds
  <2> QED BY <1>1, <2>1, <2>2 DEF LagInv
<1>2. CASE ResolvePayouts
  BY <1>1, <1>2 DEF ResolvePayouts
<1>3. CASE SampleBoard
  BY <1>1, <1>3 DEF SampleBoard
<1>4. CASE SampleTip
  BY <1>1, <1>4 DEF SampleTip
<1>5. CASE SampleBalance
  BY <1>1, <1>5 DEF SampleBalance
<1>6. ASSUME UNCHANGED <<tick, pass, previous_start, lag, lateness>> PROVE LagInv'
  BY <1>6 DEF LagInv
<1>7. CASE MoneyMoves \/ NodeComesAndGoes \/ \E p \in Payout : Submits(p)
  BY <1>6, <1>7 DEF MoneyMoves, NodeComesAndGoes, Submits
<1>8. CASE SecondPasses
  BY <1>8 DEF SecondPasses, LagInv
<1>9. CASE UNCHANGED watchVars
  BY <1>6, <1>9, SMTT(30) DEF watchVars
<1> QED BY <1>2, <1>3, <1>4, <1>5, <1>7, <1>8, <1>9, LagMeasured, ZenonT(30) DEF WatchNext

\* A sweep that has fallen behind its schedule shows it (main.rs sweep_loop).
THEOREM LagShowsLateness == WatchSpec => []LatenessShows
<1>1. LagInv => LatenessShows
  BY DEF LagInv, LatenessShows, Whole
<1> QED BY <1>1, LagStarts, LagSteps, PTL DEF WatchSpec

\* What the operators are told is so, for any limits, payouts and slow, failed or hanging
\* passes (hub/src/main.rs, overview).
THEOREM AlertsAreTrue == WatchSpec => []AlertsTrue
<1>1. SilenceIsAlerted /\ VerdictIsExactAtRest /\ StuckPayoutIsAlerted /\ GaugesFollowTheWork /\ LatenessShows
      => AlertsTrue
  BY Zenon DEF AlertsTrue
<1> QED BY <1>1, SilenceAlerted, SolvencyExact, StuckAlerted, GaugesAfterTheWork,
           LagShowsLateness, PTL


-----------------------------------------------------------------------------
(* The sweep over the field.  Whoever prices the field holds the write     *)
(* lock, and found the snapshot stale under it.                            *)

ReaderFields == {"pc", "asc", "finds", "offset", "field", "got", "snaps", "first"}
ReaderShape(w) == w = [x \in ReaderFields |-> w[x]]

SweepInv ==
    /\ reader = [r \in Reader |-> reader[r]]
    /\ \A r \in Reader : ReaderShape(reader[r])
    /\ time \in Nat /\ net_worths.n \in Nat /\ net_worths.taken \in Nat
    /\ \A r \in Reader : reader[r].pc = "sweep" => writer = r
    /\ writer # NoReader => ~Fresh

LEMMA SweepStarts == LeaderboardInit => SweepInv
<1> SUFFICES ASSUME LeaderboardInit PROVE SweepInv
  BY Zenon
<1>1. \A r \in Reader : reader[r] = Idle
  BY Zenon DEF LeaderboardInit
<1>2. ReaderShape(Idle) /\ Idle.pc = "idle"
  BY SMTT(30) DEF Idle, ReaderShape, ReaderFields
<1> QED BY <1>1, <1>2, SMTT(30) DEF LeaderboardInit, SweepInv

\* Serving a page moves one reader, out of the sweep.
LEMMA ServedIs ==
    ASSUME SweepInv, NEW r \in Reader, NEW snapshot, reader' = Serve(r, snapshot)
    PROVE  /\ reader' = [q \in Reader |-> reader'[q]]
           /\ \A q \in Reader : q # r => reader'[q] = reader[q]
           /\ ReaderShape(reader'[r]) /\ reader'[r].pc \in {"done", "paging"}
<1>1. PICK page, pc :
        /\ pc \in {"done", "paging"}
        /\ reader' = [reader EXCEPT ![r].got = @ \o page, ![r].offset = @ + PER_PAGE,
                                    ![r].snaps = @ \union {snapshot.n}, ![r].field = {}, ![r].pc = pc]
  <2> DEFINE entries == Entries(Ranked(reader[r].field, snapshot.prices, reader[r].asc), reader[r].finds)
             page == SubSeq(entries, reader[r].offset + 1, Min({reader[r].offset + PER_PAGE, Len(entries)}))
             pc == IF Len(page) < PER_PAGE THEN "done" ELSE "paging"
  <2>1. reader' = [reader EXCEPT ![r].got = @ \o page, ![r].offset = @ + PER_PAGE,
                                 ![r].snaps = @ \union {snapshot.n}, ![r].field = {}, ![r].pc = pc]
    BY Zenon DEF Serve
  <2>2. pc \in {"done", "paging"}
    BY SMTT(30)
  <2> HIDE DEF page, pc
  <2> QED BY <2>1, <2>2, Zenon
<1>2. reader'[r] = [reader[r] EXCEPT !.got = @ \o page, !.offset = @ + PER_PAGE,
                                     !.snaps = @ \union {snapshot.n}, !.field = {}, !.pc = pc]
  BY <1>1 DEF SweepInv
<1>3. ReaderShape(reader'[r]) /\ reader'[r].pc = pc
  BY <1>2, ZenonT(30) DEF SweepInv, ReaderShape, ReaderFields
<1>4. /\ reader' = [q \in Reader |-> reader'[q]]
      /\ \A q \in Reader : q # r => reader'[q] = reader[q]
  BY <1>1, ZenonT(30) DEF SweepInv
<1> QED BY <1>1, <1>3, <1>4, ZenonT(30)

LEMMA SweepSteps == SweepInv /\ [LeaderboardNext]_rankVars => SweepInv'
<1> SUFFICES ASSUME SweepInv, [LeaderboardNext]_rankVars PROVE SweepInv'
  BY Zenon
\* A reader moves and nobody sweeps more than before.
<1>1. ASSUME NEW r \in Reader, UNCHANGED <<time, net_worths, writer>>,
             reader' = [q \in Reader |-> reader'[q]],
             \A q \in Reader : q # r => reader'[q] = reader[q],
             ReaderShape(reader'[r]), reader'[r].pc # "sweep"
      PROVE  SweepInv'
  BY <1>1, SMTT(30) DEF SweepInv, Fresh
<1>2. ASSUME NEW r \in Reader, NEW asc, NEW finds, BeginWalk(r, asc, finds) PROVE SweepInv'
  <2>1. reader'[r] = [reader[r] EXCEPT !.pc = "paging", !.asc = asc, !.finds = finds, !.first = field]
    BY <1>2 DEF BeginWalk, SweepInv
  <2>2. ReaderShape(reader'[r]) /\ reader'[r].pc = "paging"
    BY <2>1, ZenonT(30) DEF SweepInv, ReaderShape, ReaderFields
  <2>3. /\ reader' = [q \in Reader |-> reader'[q]]
        /\ \A q \in Reader : q # r => reader'[q] = reader[q]
    BY <1>2, ZenonT(30) DEF BeginWalk, SweepInv
  <2> QED BY <1>1, <1>2, <2>2, <2>3, ZenonT(30) DEF BeginWalk
<1>3. ASSUME NEW r \in Reader, NEW pc, NEW f,
             reader' = [reader EXCEPT ![r].pc = pc, ![r].field = f]
      PROVE  /\ reader' = [q \in Reader |-> reader'[q]]
             /\ \A q \in Reader : q # r => reader'[q] = reader[q]
             /\ ReaderShape(reader'[r]) /\ reader'[r].pc = pc
  <2>1. reader'[r] = [reader[r] EXCEPT !.pc = pc, !.field = f]
    BY <1>3 DEF SweepInv
  <2>2. ReaderShape(reader'[r]) /\ reader'[r].pc = pc
    BY <2>1, ZenonT(30) DEF SweepInv, ReaderShape, ReaderFields
  <2>3. /\ reader' = [q \in Reader |-> reader'[q]]
        /\ \A q \in Reader : q # r => reader'[q] = reader[q]
    BY <1>3, Zenon DEF SweepInv
  <2> QED BY <2>2, <2>3
<1>4. ASSUME NEW r \in Reader, NEW pc, reader' = [reader EXCEPT ![r].pc = pc]
      PROVE  /\ reader' = [q \in Reader |-> reader'[q]]
             /\ \A q \in Reader : q # r => reader'[q] = reader[q]
             /\ ReaderShape(reader'[r]) /\ reader'[r].pc = pc
  <2>1. reader'[r] = [reader[r] EXCEPT !.pc = pc]
    BY <1>4 DEF SweepInv
  <2>2. ReaderShape(reader'[r]) /\ reader'[r].pc = pc
    BY <2>1 DEF SweepInv, ReaderShape, ReaderFields
  <2>3. /\ reader' = [q \in Reader |-> reader'[q]]
        /\ \A q \in Reader : q # r => reader'[q] = reader[q]
    BY <1>4, SMTT(30) DEF SweepInv
  <2> QED BY <2>2, <2>3, Zenon
<1>5. ASSUME NEW r \in Reader, ReadField(r) PROVE SweepInv'
  BY <1>1, <1>3, <1>5, ZenonT(30) DEF ReadField
<1>6. ASSUME NEW r \in Reader, ReadSnapshot(r) PROVE SweepInv'
  <2>1. CASE Fresh
    BY <1>1, <1>6, <2>1, ServedIs, Zenon DEF ReadSnapshot
  <2>2. CASE ~Fresh
    BY <1>1, <1>4, <1>6, <2>2, ZenonT(30) DEF ReadSnapshot
  <2> QED BY <2>1, <2>2, Zenon
<1>7. ASSUME NEW r \in Reader, TakeWriteLock(r) PROVE SweepInv'
  <2>1. CASE Fresh
    BY <1>1, <1>7, <2>1, ServedIs DEF TakeWriteLock
  <2>2. CASE ~Fresh
    <3>1. writer' = r /\ writer = NoReader /\ UNCHANGED <<time, net_worths>>
      BY <1>7, <2>2 DEF TakeWriteLock
    <3>2. /\ reader' = [q \in Reader |-> reader'[q]]
          /\ \A q \in Reader : q # r => reader'[q] = reader[q]
          /\ ReaderShape(reader'[r])
      BY <1>4, <1>7, <2>2, SMTT(30) DEF TakeWriteLock
    <3>3. \A q \in Reader : reader[q].pc # "sweep"
      BY <3>1, LeaderboardAssumption, SMTT(30) DEF SweepInv
    <3> QED BY <2>2, <3>1, <3>2, <3>3, SMTT(30) DEF SweepInv, Fresh
  <2> QED BY <2>1, <2>2, Zenon
<1>8. ASSUME NEW r \in Reader, FinishSweep(r) PROVE SweepInv'
  <2>0. reader[r].pc = "sweep" /\ writer' = NoReader /\ time' = time
    BY <1>8, ZenonT(30) DEF FinishSweep, Doing
  <2>1. PICK prices : /\ net_worths' = [taken |-> time, prices |-> prices, n |-> net_worths.n + 1]
                      /\ reader' = Serve(r, [taken |-> time, prices |-> prices, n |-> net_worths.n + 1])
    BY <1>8, ZenonT(30) DEF FinishSweep
  <2>2. /\ reader' = [q \in Reader |-> reader'[q]]
        /\ \A q \in Reader : q # r => reader'[q] = reader[q]
        /\ ReaderShape(reader'[r]) /\ reader'[r].pc \in {"done", "paging"}
    BY <2>1, ServedIs, ZenonT(30)
  <2>3. \A q \in Reader : reader[q].pc = "sweep" => writer = q
    BY ZenonT(30) DEF SweepInv
  <2>4. \A q \in Reader : q # r => reader[q].pc # "sweep"
    BY <2>0, <2>3, ZenonT(30)
  <2>5. time' \in Nat /\ net_worths'.n \in Nat /\ net_worths'.taken \in Nat
    <3>1. time \in Nat /\ net_worths.n \in Nat
      BY ZenonT(30) DEF SweepInv
    <3> QED BY <2>0, <2>1, <3>1, SMTT(30)
  <2>6. \A q \in Reader : reader'[q].pc # "sweep" /\ ReaderShape(reader'[q])
    <3>1. \A q \in Reader : ReaderShape(reader[q])
      BY ZenonT(30) DEF SweepInv
    <3>2. reader'[r].pc # "sweep"
      BY <2>2, SMTT(30)
    <3> QED BY <2>2, <2>4, <3>1, <3>2, ZenonT(30)
  <2> QED BY <2>0, <2>2, <2>5, <2>6, ZenonT(30) DEF SweepInv
<1>9. CASE TimePasses
  BY <1>9, LeaderboardAssumption, SMTT(30) DEF TimePasses, SweepInv, Fresh
<1>10. CASE (\E a \in PubKey : Joins(a)) \/ UNCHANGED rankVars
  BY <1>10 DEF Joins, rankVars, SweepInv, Fresh
<1> QED BY <1>2, <1>5, <1>6, <1>7, <1>8, <1>9, <1>10, Zenon DEF LeaderboardNext

\* The field is priced at most once in TTL, however many readers find the snapshot stale
\* together (handlers.rs net_worth_snapshot).
THEOREM SweptOncePerTTL == LeaderboardSpec => OneSweepPerTTL
<1>1. SweepInv /\ [LeaderboardNext]_rankVars
        => [net_worths'.n # net_worths.n /\ net_worths.n > 0 => time - net_worths.taken \geq TTL]_rankVars
  <2> SUFFICES ASSUME SweepInv, LeaderboardNext, net_worths'.n # net_worths.n, net_worths.n > 0
               PROVE  time - net_worths.taken \geq TTL
    BY SMTT(30)
  <2>1. PICK r \in Reader : FinishSweep(r)
    BY ZenonT(30) DEF LeaderboardNext, BeginWalk, ReadField, ReadSnapshot, TakeWriteLock, Joins, TimePasses
  <2>2. writer # NoReader
    BY <2>1, LeaderboardAssumption, Zenon DEF FinishSweep, Doing, SweepInv
  <2> QED BY <2>2, LeaderboardAssumption, SMTT(30) DEF SweepInv, Fresh
<1> QED BY <1>1, SweepStarts, SweepSteps, PTL DEF LeaderboardSpec, OneSweepPerTTL

=============================================================================
