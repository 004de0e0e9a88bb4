----------------------------- MODULE PeerProofs -----------------------------
(***************************************************************************)
(* What is proved of a node among its peers: the block streams between     *)
(* nodes (Relay), the bans a node hands out (Bans) and the miners that     *)
(* work for it (Miner).                                                    *)
(***************************************************************************)
EXTENDS Relay, Bans, Miner, FiniteSetTheorems, TLAPS

----------------------------------------------------------------------------
(* Streams.  NoRing is not inductive.  What makes it so is that a live     *)
(* stream always leads to a node that is serving (StreamsServed).  A new   *)
(* stream begins at a node that is still dialling, so no live stream leads *)
(* to that node, and a ring through the new stream could be shortened to   *)
(* a ring that was there before.                                           *)

BootStates == {"down", "dial", "ask", "serve"}

RelayTypes ==
  /\ boot \in [Nodes -> BootStates]
  /\ live \subseteq Nodes \X Nodes

StreamsServed == \A l \in live : Serving(l[2])

RelayInv == RelayTypes /\ StreamsServed /\ NoRing

\* The end of a process takes streams away and adds none.
LEMMA GoneKeeps ==
  ASSUME RelayInv, NEW n \in Nodes, Gone(n)
  PROVE  RelayInv'
<1>1. live' \subseteq live /\ \A l \in live' : l[2] # n
  BY Zenon DEF Gone
<1>2. RelayTypes'
  BY <1>1, Zenon DEF RelayInv, RelayTypes, Gone, BootStates
<1>3. StreamsServed'
  <2> SUFFICES ASSUME NEW l \in live' PROVE boot'[l[2]] = "serve"
    BY Zenon DEF StreamsServed, Serving
  <2>1. l[2] \in Nodes /\ boot[l[2]] = "serve" /\ l[2] # n
    BY <1>1, Zenon DEF RelayInv, RelayTypes, StreamsServed, Serving
  <2> QED BY <2>1, Zenon DEF Gone, RelayInv, RelayTypes
<1>4. NoRing'
  BY <1>1, ZenonT(30) DEF RelayInv, NoRing
<1> QED BY <1>2, <1>3, <1>4, Zenon DEF RelayInv

\* A stream opened by a node that is still dialling closes no ring.
LEMMA LinkedKeeps ==
  ASSUME RelayInv, NEW n \in Nodes, NEW m \in Nodes,
         boot[n] = "dial", Serving(m), Linked(n, m), boot' = boot
  PROVE  RelayInv'
<1>1. live' = live \union {<<n, m>>}
  BY Zenon DEF Linked
<1>2. RelayTypes'
  BY <1>1 DEF RelayInv, RelayTypes
<1>3. StreamsServed'
  BY <1>1 DEF RelayInv, StreamsServed, Serving
<1>4. \A k \in Nodes : <<k, n>> \notin live'
  <2> SUFFICES ASSUME NEW k \in Nodes, <<k, n>> \in live' PROVE FALSE
    BY Zenon
  <2>1. boot'[n] = "serve"
    BY <1>3, Zenon DEF StreamsServed, Serving
  <2> QED BY <2>1, Zenon
<1>5. NoRing'
  <2> SUFFICES ASSUME NEW S \in (SUBSET Nodes) \ {{}},
                      \A k \in S : \E j \in S : <<k, j>> \in live'
               PROVE  FALSE
    BY ZenonT(30) DEF NoRing
  <2> DEFINE T == S \ {n}
  <2>1. T # {}
    <3> SUFFICES ASSUME S = {n} PROVE FALSE
      BY Zenon
    <3>1. <<n, n>> \in live'
      BY Zenon
    <3> QED BY <3>1, <1>4, Zenon
  <2>2. \A k \in T : \E j \in T : <<k, j>> \in live
    <3> SUFFICES ASSUME NEW k \in T PROVE \E j \in T : <<k, j>> \in live
      BY Zenon
    <3>1. PICK j \in S : <<k, j>> \in live'
      BY Zenon
    <3>2. j # n
      BY <3>1, <1>4, Zenon
    <3> QED BY <3>1, <3>2, <1>1, Zenon
  <2>3. T \in (SUBSET Nodes) \ {{}}
    BY <2>1, Zenon
  <2> QED BY <2>2, <2>3, ZenonT(30) DEF RelayInv, NoRing
<1> QED BY <1>2, <1>3, <1>5, Zenon DEF RelayInv

\* A node's own progress, with its streams as they are: it may begin to serve, and only a
\* node that is down or dialling changes otherwise.
LEMMA BootKeeps ==
  ASSUME RelayInv, NEW n \in Nodes, NEW s \in BootStates,
         boot[n] # "serve", boot' = [boot EXCEPT ![n] = s], live' = live
  PROVE  RelayInv'
<1>1. RelayTypes'
  BY Zenon DEF RelayInv, RelayTypes
<1>2. StreamsServed'
  <2> SUFFICES ASSUME NEW l \in live PROVE boot'[l[2]] = "serve"
    BY Zenon DEF StreamsServed, Serving
  <2>1. l[2] \in Nodes /\ boot[l[2]] = "serve"
    BY Zenon DEF RelayInv, RelayTypes, StreamsServed, Serving
  <2> QED BY <2>1, Zenon DEF RelayInv, RelayTypes
<1>3. NoRing'
  BY Zenon DEF RelayInv, NoRing
<1> QED BY <1>1, <1>2, <1>3, Zenon DEF RelayInv

LEMMA StandsStill ==
  ASSUME RelayInv, UNCHANGED <<boot, live>>
  PROVE  RelayInv'
BY ZenonT(30) DEF RelayInv, RelayTypes, StreamsServed, NoRing, Serving

LEMMA RelayStep == RelayInv /\ [RelayNext]_relayVars => RelayInv'
<1> SUFFICES ASSUME RelayInv, [RelayNext]_relayVars PROVE RelayInv'
  BY Zenon
<1>1. ASSUME NEW n \in Nodes, Start(n) PROVE RelayInv'
  BY <1>1, BootKeeps, ZenonT(30) DEF Start, BootStates
<1>2. ASSUME NEW n \in Nodes, DialledAll(n) PROVE RelayInv'
  BY <1>2, BootKeeps, ZenonT(30) DEF DialledAll, BootStates
<1>3. ASSUME NEW n \in Nodes, AskTips(n) PROVE RelayInv'
  BY <1>3, BootKeeps, GoneKeeps, Zenon DEF AskTips, BootStates
<1>4. ASSUME NEW n \in Nodes, Stop(n) PROVE RelayInv'
  BY <1>4, GoneKeeps, Zenon DEF Stop
<1>5. ASSUME NEW n \in Nodes, SubmitTransaction(n) PROVE RelayInv'
  BY <1>5, StandsStill, Zenon DEF SubmitTransaction
<1>6. ASSUME NEW n \in Nodes, NEW m \in Nodes, DialConfigured(n, m) PROVE RelayInv'
  BY <1>6, LinkedKeeps, GoneKeeps, Zenon DEF DialConfigured, Reachable
<1>7. ASSUME NEW n \in Nodes, NEW m \in Nodes, DialDiscovered(n, m) PROVE RelayInv'
  BY <1>7, LinkedKeeps, StandsStill, Zenon DEF DialDiscovered, Reachable
<1>8. ASSUME NEW n \in Nodes, NEW m \in Nodes, broadcast(n, m) PROVE RelayInv'
  BY <1>8, StandsStill, Zenon DEF broadcast
<1>9. ASSUME NEW n \in Nodes, NEW m \in Nodes, NewTransaction(n, m) PROVE RelayInv'
  BY <1>9, StandsStill, Zenon DEF NewTransaction
<1>10. CASE UNCHANGED relayVars
  BY <1>10, StandsStill, Zenon DEF relayVars
<1> QED
  BY <1>1, <1>2, <1>3, <1>4, <1>5, <1>6, <1>7, <1>8, <1>9, <1>10, Zenon DEF RelayNext

LEMMA RelayStarts == RelayInit => RelayInv
BY Zenon DEF RelayInit, RelayInv, RelayTypes, StreamsServed, NoRing, BootStates

\* However nodes start, stop and find one another, no chain of live streams leads back to
\* its start: the order of main in node/src/main.rs, which binds the listener last, is
\* enough for every number of nodes.
THEOREM NoRingEver == RelaySpec => []NoRing
<1>1. RelayInv => NoRing
  BY Zenon DEF RelayInv
<1> QED BY <1>1, RelayStarts, RelayStep, PTL DEF RelaySpec
----------------------------------------------------------------------------
(* Bans.                                                                   *)

SocketShape(k) == k = [pc |-> k.pc, ip |-> k.ip, until |-> k.until] /\ k.ip \in Ip /\ k.until \in Int

BanTypes ==
    /\ now \in Nat
    /\ BANNED \in [Ip -> Int \union {NoBan}] /\ stored \in [Ip -> Int \union {NoBan}]
    /\ conns = [c \in Socket |-> conns[c]]
    /\ \A c \in Socket : SocketShape(conns[c])

\* One connection changes, and how.
Moved(c, pc, ip, until) ==
    /\ conns' = [k \in Socket |-> conns'[k]]
    /\ \A k \in Socket : SocketShape(conns'[k])
    /\ conns'[c].pc = pc /\ conns'[c].ip = ip /\ conns'[c].until = until
    /\ \A k \in Socket : k # c => conns'[k] = conns[k]

LEMMA ConnMoves ==
    ASSUME BanTypes, NEW c \in Socket, NEW pc, NEW ip \in Ip, NEW until \in Int,
           conns' = [conns EXCEPT ![c] = [pc |-> pc, ip |-> ip, until |-> until]]
    PROVE  Moved(c, pc, ip, until)
<1>1. PICK k : k = [pc |-> pc, ip |-> ip, until |-> until]
  BY ZenonT(30)
<1>2. SocketShape(k) /\ k.pc = pc /\ k.ip = ip /\ k.until = until
  BY <1>1, Zenon DEF SocketShape
<1>3. conns' = [conns EXCEPT ![c] = k]
  BY <1>1, Zenon
<1> QED BY <1>2, <1>3, Zenon DEF BanTypes, Moved

LEMMA ConnGoes ==
    ASSUME BanTypes, NEW c \in Socket, NEW pc, Goto(c, pc)
    PROVE  Moved(c, pc, From(c), conns[c].until)
<1>1. PICK k : k = conns[c]
  BY Zenon
<1>2. k = [pc |-> k.pc, ip |-> k.ip, until |-> k.until] /\ k.ip \in Ip /\ k.until \in Int
  BY <1>1, Zenon DEF BanTypes, SocketShape
<1>3. [k EXCEPT !.pc = pc] = [pc |-> pc, ip |-> k.ip, until |-> k.until]
  BY <1>2
<1>4. conns' = [conns EXCEPT ![c] = [pc |-> pc, ip |-> k.ip, until |-> k.until]]
  BY <1>1, <1>3, ZenonT(30) DEF Goto, BanTypes
<1> QED BY <1>1, <1>2, <1>4, ConnMoves, ZenonT(30) DEF From

LEMMA ConnSaves ==
    ASSUME BanTypes, NEW c \in Socket, NEW pc, NEW until \in Int,
           conns' = [conns EXCEPT ![c].pc = pc, ![c].until = until]
    PROVE  Moved(c, pc, From(c), until)
<1>1. PICK k : k = conns[c]
  BY Zenon
<1>2. k = [pc |-> k.pc, ip |-> k.ip, until |-> k.until] /\ k.ip \in Ip
  BY <1>1, Zenon DEF BanTypes, SocketShape
<1>4. PICK f : f = [conns EXCEPT ![c].pc = pc]
  BY Zenon
<1>5. /\ DOMAIN f = Socket /\ f[c] = [k EXCEPT !.pc = pc]
      /\ \A j \in Socket : j # c => f[j] = conns[j]
  BY <1>1, <1>4, Zenon DEF BanTypes
<1>6. conns' = [f EXCEPT ![c].until = until]
  BY <1>4, Zenon
<1>7. /\ DOMAIN conns' = Socket /\ conns'[c] = [[k EXCEPT !.pc = pc] EXCEPT !.until = until]
      /\ \A j \in Socket : j # c => conns'[j] = conns[j]
  BY <1>5, <1>6, ZenonT(30)
<1>8. conns'[c] = [pc |-> pc, ip |-> k.ip, until |-> until]
  BY <1>2, <1>7, ZenonT(30)
<1>9. SocketShape(conns'[c]) /\ conns'[c].pc = pc /\ conns'[c].ip = k.ip /\ conns'[c].until = until
  <2>1. PICK m : m = [pc |-> pc, ip |-> k.ip, until |-> until]
    BY ZenonT(30)
  <2>2. m.pc = pc /\ m.ip = k.ip /\ m.until = until /\ SocketShape(m)
    BY <1>2, <2>1, Zenon DEF SocketShape
  <2>3. conns'[c] = m
    BY <1>8, <2>1, Zenon
  <2> QED BY <2>2, <2>3, ZenonT(30)
<1>10. conns' = [j \in Socket |-> conns'[j]]
  BY <1>6, <1>7, ZenonT(30)
<1> QED BY <1>1, <1>7, <1>9, <1>10, Zenon DEF Moved, BanTypes, From

\* A new ban: in memory, and on its way to the store.
LEMMA BansNow ==
    ASSUME BanTypes, NEW c \in Socket, ban_now(c)
    PROVE  /\ Moved(c, "save", From(c), now + BAN_DURATION)
           /\ BANNED' \in [Ip -> Int \union {NoBan}]
           /\ BANNED' = [BANNED EXCEPT ![From(c)] = now + BAN_DURATION]
           /\ raced' = raced \ {From(c)} /\ From(c) \in Ip
<1>1. now + BAN_DURATION \in Int /\ From(c) \in Ip
  BY BansAssumption DEF BanTypes, SocketShape, From
<1>2. Moved(c, "save", From(c), now + BAN_DURATION)
  BY <1>1, ConnSaves, ZenonT(30) DEF ban_now
<1> QED BY <1>1, <1>2, Zenon DEF ban_now, BanTypes

\* Neither the bans nor the times they run to change; a connection that was to be saved may
\* have been, and no other is.
Quietly ==
    /\ UNCHANGED <<BANNED, stored, raced, now>>
    /\ conns' = [k \in Socket |-> conns'[k]]
    /\ \A k \in Socket : SocketShape(conns'[k])
    /\ \A k \in Socket : conns'[k].pc = "save" => conns'[k] = conns[k]

LEMMA QuietActions ==
    ASSUME BanTypes, NEW c \in Socket,
           \/ \E ip \in Ip : accept(c, ip)
           \/ Handshaken(c) \/ HangsUp(c)
    PROVE  Quietly /\ UNCHANGED <<STRIKES, offences, severe>>
<1>1. UNCHANGED <<BANNED, stored, raced, now, STRIKES, offences, severe>>
  BY Zenon DEF accept, Handshaken, HangsUp
<1>2. ASSUME NEW pc, NEW ip, NEW until, Moved(c, pc, ip, until), pc # "save"
      PROVE  Quietly
  BY <1>1, <1>2, Zenon DEF Quietly, Moved
<1>3. CASE UNCHANGED conns
  BY <1>1, <1>3, Zenon DEF Quietly, BanTypes
<1>4. ASSUME NEW ip \in Ip, accept(c, ip) PROVE Quietly
  <2>1. CASE ~ InForce(BANNED[ip])
    <3>0. PICK pc : pc = IF BANNED[ip] = NoBan THEN "hello" ELSE "prune"
      BY Zenon
    <3>1. pc # "save" /\ conns' = [conns EXCEPT ![c] = [pc |-> pc, ip |-> ip, until |-> 0]]
      BY <1>4, <2>1, <3>0, Zenon DEF accept
    <3>2. 0 \in Int
      OBVIOUS
    <3>3. Moved(c, pc, ip, 0)
      BY <3>1, <3>2, ConnMoves, Zenon
    <3> QED BY <1>2, <3>1, <3>3, Zenon
  <2> QED BY <1>3, <1>4, <2>1, Zenon DEF accept
<1>5. CASE Handshaken(c) \/ HangsUp(c)
  <2>1. PICK pc : Goto(c, pc) /\ pc # "save"
    BY <1>5 DEF Handshaken, HangsUp
  <2>2. Moved(c, pc, From(c), conns[c].until)
    BY <2>1, ConnGoes, Zenon
  <2> QED BY <1>1, <1>2, <2>1, <2>2, Zenon
<1> QED BY <1>1, <1>4, <1>5, Zenon

\* The store holds, or is about to be handed, a ban of ip up to this time.
Promised(ip, until) ==
    \/ stored[ip] = until
    \/ \E c \in Socket : conns[c].pc = "save" /\ conns[c].ip = ip /\ conns[c].until = until

Reaches(ip, until) == until > now /\ ip \notin raced => BANNED[ip] # NoBan /\ BANNED[ip] >= until

\* StoredBanInForce for the bans still on their way too, and none beyond what a ban handed
\* out now would run to.
HoldInv ==
    /\ BanTypes
    /\ \A ip \in Ip, until \in Int : Promised(ip, until) => until <= now + BAN_DURATION /\ Reaches(ip, until)

LEMMA HoldStarts == BansInit => HoldInv
<1> SUFFICES ASSUME BansInit PROVE HoldInv
  BY Zenon
<1>1. ASSUME NEW c \in Socket PROVE SocketShape(conns[c]) /\ conns[c].pc = "closed"
  <2>1. PICK ip \in Ip : conns[c] = ClosedSocket(ip)
    BY Zenon DEF BansInit
  <2> QED BY <2>1 DEF ClosedSocket, SocketShape
<1>2. BanTypes
  BY <1>1, Zenon DEF BansInit, BanTypes
<1>3. ASSUME NEW ip \in Ip, NEW until \in Int PROVE ~ Promised(ip, until)
  BY <1>1, BansAssumption, Zenon DEF BansInit, Promised
<1> QED BY <1>2, <1>3, Zenon DEF HoldInv

LEMMA StillLater ==
    ASSUME NEW a \in Int, NEW n \in Nat, NEW m \in Nat, NEW d \in Nat, m >= n, a <= n + d
    PROVE  a <= m + d /\ (a > m => a > n)
  OBVIOUS

\* Nothing new is promised, and no ban is shortened.
LEMMA HoldKeeps ==
    ASSUME HoldInv, BanTypes', UNCHANGED <<BANNED, raced>>, now' \in {now, now + 1},
           \A ip \in Ip, until \in Int : Promised(ip, until)' => Promised(ip, until)
    PROVE  HoldInv'
<1> SUFFICES ASSUME NEW ip \in Ip, NEW until \in Int, Promised(ip, until)'
             PROVE  until <= now' + BAN_DURATION /\ Reaches(ip, until)'
  BY Zenon DEF HoldInv
<1>1. until <= now + BAN_DURATION /\ Reaches(ip, until) /\ now \in Nat
  BY Zenon DEF HoldInv, BanTypes
<1>2. now' \in Nat /\ now' >= now /\ BAN_DURATION \in Nat
  BY <1>1, BansAssumption
<1>3. until <= now' + BAN_DURATION /\ (until > now' => until > now)
  BY <1>1, <1>2, StillLater, ZenonT(30)
<1>4. BANNED' = BANNED /\ raced' = raced
  BY Zenon
<1> QED BY <1>1, <1>3, <1>4, Zenon DEF Reaches

LEMMA HoldStep_quiet ==
    ASSUME HoldInv, Quietly
    PROVE  HoldInv'
<1>1. BanTypes'
  BY Zenon DEF HoldInv, BanTypes, Quietly
<1>2. ASSUME NEW ip \in Ip, NEW until \in Int, Promised(ip, until)' PROVE Promised(ip, until)
  BY <1>2, Zenon DEF Promised, Quietly
<1> QED BY <1>1, <1>2, HoldKeeps, Zenon DEF Quietly

LEMMA HoldStep_bans ==
    ASSUME HoldInv, NEW c \in Socket, ban_now(c), UNCHANGED <<now, stored>>
    PROVE  HoldInv'
<1>1. PICK ip, u : ip = From(c) /\ u = now + BAN_DURATION
  BY Zenon
<1>2. /\ Moved(c, "save", ip, u) /\ BANNED' \in [Ip -> Int \union {NoBan}]
      /\ BANNED' = [BANNED EXCEPT ![ip] = u] /\ raced' = raced \ {ip} /\ ip \in Ip
  BY <1>1, BansNow, Zenon DEF HoldInv
<1>3. u \in Int /\ u # NoBan /\ now \in Nat
  BY <1>1, BansAssumption DEF HoldInv, BanTypes
<1>4. BanTypes'
  BY <1>2, Zenon DEF HoldInv, BanTypes, Moved
<1>5. ASSUME NEW j \in Ip, NEW until \in Int, Promised(j, until)'
      PROVE  Promised(j, until) \/ (j = ip /\ until = u)
  BY <1>2, <1>5, Zenon DEF Promised, Moved
<1>6. ASSUME NEW j \in Ip, NEW until \in Int, Promised(j, until)'
      PROVE  until <= now' + BAN_DURATION /\ Reaches(j, until)'
  <2>1. CASE j = ip
    <3>1. BANNED'[j] = u
      BY <1>2, <2>1, Zenon DEF HoldInv, BanTypes
    <3>2. until <= u
      BY <1>1, <1>3, <1>5, <1>6 DEF HoldInv
    <3> QED BY <1>1, <1>3, <3>1, <3>2, Zenon DEF Reaches
  <2>2. CASE j # ip
    <3>1. Promised(j, until) /\ BANNED'[j] = BANNED[j] /\ (j \notin raced' => j \notin raced)
      BY <1>2, <1>5, <1>6, <2>2, Zenon DEF HoldInv, BanTypes
    <3> QED BY <3>1, Zenon DEF HoldInv, Reaches
  <2> QED BY <2>1, <2>2, Zenon
<1> QED BY <1>4, <1>6, Zenon DEF HoldInv

LEMMA HoldStep_prune ==
    ASSUME HoldInv, NEW c \in Socket, prune(c)
    PROVE  HoldInv'
<1>1. PICK ip : ip = From(c)
  BY Zenon
<1>2. ip \in Ip /\ BANNED[ip] \in Int \union {NoBan} /\ now \in Nat
  BY <1>1, Zenon DEF HoldInv, BanTypes, SocketShape, From
<1>3. /\ Moved(c, "hello", ip, conns[c].until) /\ UNCHANGED <<now, stored>>
      /\ BANNED' = [BANNED EXCEPT ![ip] = NoBan]
      /\ raced' = IF InForce(BANNED[ip]) THEN raced \union {ip} ELSE raced
  BY <1>1, ConnGoes, Zenon DEF HoldInv, prune
<1>4. BanTypes'
  BY <1>2, <1>3, Zenon DEF HoldInv, BanTypes, Moved
<1>5. ASSUME NEW j \in Ip, NEW until \in Int, Promised(j, until)' PROVE Promised(j, until)
  BY <1>3, <1>5, Zenon DEF Promised, Moved
<1>6. ASSUME NEW j \in Ip, NEW until \in Int, Promised(j, until)'
      PROVE  until <= now' + BAN_DURATION /\ Reaches(j, until)'
  <2>1. until <= now + BAN_DURATION /\ Reaches(j, until)
    BY <1>5, <1>6, Zenon DEF HoldInv
  <2>2. CASE j # ip
    BY <1>3, <2>1, <2>2, Zenon DEF Reaches, HoldInv, BanTypes
  <2>3. CASE j = ip
    BY <1>2, <1>3, <2>1, <2>3, BansAssumption DEF Reaches, InForce
  <2> QED BY <1>3, <2>1, <2>2, <2>3, Zenon
<1> QED BY <1>4, <1>6, Zenon DEF HoldInv

LEMMA HoldStep_saves ==
    ASSUME HoldInv, NEW c \in Socket, save_ban(c)
    PROVE  HoldInv'
<1>1. PICK ip, u : ip = From(c) /\ u = conns[c].until
  BY Zenon
<1>2. ip \in Ip /\ u \in Int /\ Promised(ip, u)
  BY <1>1, Zenon DEF HoldInv, BanTypes, SocketShape, From, Promised, save_ban, At
<1>3. /\ Moved(c, "closed", ip, 0) /\ UNCHANGED <<now, BANNED, raced>>
      /\ stored' = stored \/ stored' = [stored EXCEPT ![ip] = u]
  <2>1. 0 \in Int /\ conns' = [conns EXCEPT ![c].pc = "closed", ![c].until = 0]
    BY DEF save_ban
  <2>2. Moved(c, "closed", ip, 0)
    BY <1>1, <2>1, ConnSaves, Zenon DEF HoldInv
  <2> QED BY <1>1, <2>2, Zenon DEF save_ban
<1>4. BanTypes'
  BY <1>2, <1>3, Zenon DEF HoldInv, BanTypes, Moved
<1>5. ASSUME NEW j \in Ip, NEW until \in Int, Promised(j, until)' PROVE Promised(j, until)
  BY <1>2, <1>3, <1>5 DEF Promised, Moved, HoldInv, BanTypes
<1> QED BY <1>3, <1>4, <1>5, HoldKeeps, Zenon

LEMMA HoldStep_reboots ==
    ASSUME HoldInv, Reboot
    PROVE  HoldInv'
<1>1. /\ UNCHANGED <<now, stored>> /\ BANNED' = load_persisted
      /\ conns' = [c \in Socket |-> ClosedSocket(From(c))]
  BY Zenon DEF Reboot
<1>2. ASSUME NEW c \in Socket PROVE SocketShape(conns'[c]) /\ conns'[c].pc = "closed"
  BY <1>1 DEF HoldInv, BanTypes, ClosedSocket, SocketShape, From
<1>3. BanTypes'
  BY <1>1, <1>2, Zenon DEF HoldInv, BanTypes, load_persisted
<1>4. ASSUME NEW ip \in Ip, NEW until \in Int, Promised(ip, until)'
      PROVE  until <= now' + BAN_DURATION /\ Reaches(ip, until)'
  <2>1. stored[ip] = until /\ until # NoBan
    BY <1>1, <1>2, <1>4, BansAssumption, Zenon DEF Promised
  <2>2. until <= now + BAN_DURATION
    BY <2>1, Zenon DEF HoldInv, Promised
  <2>3. until > now => BANNED'[ip] = until
    BY <1>1, <2>1, Zenon DEF load_persisted, load_bans, InForce
  <2> QED BY <1>1, <2>1, <2>2, <2>3, SMTT(30) DEF Reaches
<1> QED BY <1>3, <1>4, Zenon DEF HoldInv

\* Time, and a strike that bans nobody.
LEMMA HoldStep_rests ==
    ASSUME HoldInv, UNCHANGED <<BANNED, stored, conns, raced>>, now' \in {now, now + 1}
    PROVE  HoldInv'
<1>1. BanTypes'
  BY DEF HoldInv, BanTypes, SocketShape
<1> QED BY <1>1, HoldKeeps, Zenon DEF Promised

LEMMA HoldSteps == HoldInv /\ [BansNext]_banVars => HoldInv'
<1> SUFFICES ASSUME HoldInv, [BansNext]_banVars PROVE HoldInv'
  BY Zenon
<1>1. ASSUME NEW c \in Socket, (\E ip \in Ip : accept(c, ip)) \/ Handshaken(c) \/ HangsUp(c)
      PROVE  HoldInv'
  BY <1>1, QuietActions, HoldStep_quiet, Zenon DEF HoldInv
<1>2. ASSUME NEW c \in Socket, StrikeSevere(c) PROVE HoldInv'
  BY <1>2, HoldStep_bans, Zenon DEF StrikeSevere
<1>3. ASSUME NEW c \in Socket, Strike(c) PROVE HoldInv'
  <2>1. CASE ban_now(c)
    BY <1>3, <2>1, HoldStep_bans, Zenon DEF Strike
  <2>2. CASE Goto(c, "closed") /\ UNCHANGED <<BANNED, raced>>
    <3>1. Moved(c, "closed", From(c), conns[c].until) /\ UNCHANGED <<now, stored>>
      BY <1>3, <2>2, ConnGoes, Zenon DEF Strike, HoldInv
    <3>2. Quietly
      BY <2>2, <3>1, Zenon DEF Quietly, Moved
    <3> QED BY <3>2, HoldStep_quiet, Zenon
  <2> QED BY <1>3, <2>1, <2>2, Zenon DEF Strike
<1>4. ASSUME NEW c \in Socket, prune(c) \/ save_ban(c) PROVE HoldInv'
  BY <1>4, HoldStep_prune, HoldStep_saves, Zenon
<1>5. CASE Reboot
  BY <1>5, HoldStep_reboots, Zenon
<1>6. CASE ClockTicks \/ UNCHANGED banVars
  BY <1>6, HoldStep_rests, Zenon DEF ClockTicks, banVars
<1> QED BY <1>1, <1>2, <1>3, <1>4, <1>5, <1>6, Zenon DEF BansNext

\* A ban that reached the store is in force until it expires, across any number of restarts,
\* strikes and connections, but for the race in is_banned (node/src/ban.rs).
THEOREM StoredBansHold == BansSpec => []StoredBanInForce
<1>1. HoldInv => StoredBanInForce
  <2> SUFFICES ASSUME HoldInv, NEW ip \in Ip \ raced, InForce(stored[ip])
               PROVE  BANNED[ip] # NoBan /\ BANNED[ip] >= stored[ip]
    BY Zenon DEF StoredBanInForce
  <2>1. stored[ip] \in Int /\ stored[ip] > now
    BY Zenon DEF InForce, HoldInv, BanTypes
  <2> QED BY <2>1, Zenon DEF HoldInv, Promised, Reaches
<1> QED BY <1>1, HoldStarts, HoldSteps, PTL DEF BansSpec

\* MAX_STRIKES offences in a row within one window.
RunOf(o) == \E i \in DOMAIN o : /\ i + MAX_STRIKES - 1 \in DOMAIN o
                                /\ o[i + MAX_STRIKES - 1] - o[i] <= STRIKE_WINDOW

Earned(ip) == ip \in severe \/ RunOf(offences[ip])

\* Banned in memory or in the store, or about to be in the store.
Suspect(ip) ==
    \/ BANNED[ip] # NoBan \/ stored[ip] # NoBan
    \/ \E c \in Socket : conns[c].pc = "save" /\ conns[c].ip = ip

\* The counter counts the last offences, from the one it remembers the time of.
CountsThem(s, o) ==
    /\ s = [count |-> s.count, since |-> s.since] /\ s.count \in Nat /\ s.since \in Int
    /\ s.count > 0 => s.count <= Len(o) /\ o[Len(o) - s.count + 1] = s.since

Striking ==
    /\ offences \in [Ip -> Seq(Int)]
    /\ STRIKES = [ip \in Ip |-> STRIKES[ip]]
    /\ \A ip \in Ip : CountsThem(STRIKES[ip], offences[ip]) /\ STRIKES[ip].count < MAX_STRIKES

EarnInv == BanTypes /\ Striking /\ \A ip \in Ip : Suspect(ip) => Earned(ip)

LEMMA NoStrikesIs == \A o : CountsThem(NoStrikes, o) /\ NoStrikes.count < MAX_STRIKES
  BY BansAssumption DEF CountsThem, NoStrikes

LEMMA EarnStarts == BansInit => EarnInv
<1> SUFFICES ASSUME BansInit PROVE EarnInv
  BY Zenon
<1>1. BanTypes
  BY HoldStarts, Zenon DEF HoldInv
<1>2. ASSUME NEW c \in Socket PROVE conns[c].pc # "save"
  BY DEF BansInit, ClosedSocket
<1>3. Striking
  BY NoStrikesIs DEF BansInit, Striking
<1> QED BY <1>1, <1>2, <1>3, Zenon DEF BansInit, EarnInv, Suspect

LEMMA RunGrows ==
    ASSUME NEW o \in Seq(Int), NEW t \in Int, RunOf(o)
    PROVE  RunOf(Append(o, t))
<1>1. PICK i \in DOMAIN o : /\ i + MAX_STRIKES - 1 \in DOMAIN o
                            /\ o[i + MAX_STRIKES - 1] - o[i] <= STRIKE_WINDOW
  BY Zenon DEF RunOf
<1>2. DOMAIN o \subseteq DOMAIN Append(o, t) /\ \A j \in DOMAIN o : Append(o, t)[j] = o[j]
  OBVIOUS
<1> QED BY <1>1, <1>2, Zenon DEF RunOf

\* A strike keeps the count, and the one that fills it completes a run.
LEMMA CountedIs ==
    ASSUME NEW o \in Seq(Int), NEW s, CountsThem(s, o), s.count < MAX_STRIKES, now \in Nat,
           NEW q, q = Counted(s)
    PROVE  /\ CountsThem(q, Append(o, now))
           /\ q.count >= MAX_STRIKES => RunOf(Append(o, now))
<1>1. PICK a : a = Append(o, now)
  BY ZenonT(30)
<1>2. /\ Len(a) = Len(o) + 1 /\ Len(o) \in Nat /\ DOMAIN a = 1 .. Len(a) /\ a[Len(a)] = now
      /\ \A j \in 1 .. Len(o) : a[j] = o[j]
  BY <1>1
<1>3. MAX_STRIKES \in Nat \ {0} /\ STRIKE_WINDOW \in Nat
  BY BansAssumption, Zenon
<1>4. CASE s.count = 0 \/ now - s.since > STRIKE_WINDOW
  <2>1. q = [count |-> 1, since |-> now]
    BY <1>4, Zenon DEF Counted
  <2>2. CountsThem(q, a)
    BY <1>2, <2>1 DEF CountsThem
  <2>3. ASSUME q.count >= MAX_STRIKES PROVE RunOf(a)
    <3>1. MAX_STRIKES = 1
      BY <1>3, <2>1, <2>3
    <3>2. Len(a) \in DOMAIN a /\ Len(a) + MAX_STRIKES - 1 = Len(a) /\ a[Len(a)] - a[Len(a)] <= STRIKE_WINDOW
      BY <1>2, <1>3, <3>1, SMTT(30)
    <3> QED BY <3>2, Zenon DEF RunOf
  <2> QED BY <1>1, <2>2, <2>3, Zenon
<1>5. CASE ~ (s.count = 0 \/ now - s.since > STRIKE_WINDOW)
  <2>1. PICK n, t : n = s.count /\ t = s.since
    BY Zenon
  <2>2. s = [count |-> n, since |-> t] /\ n \in Nat /\ t \in Int /\ n > 0 /\ n < MAX_STRIKES
    BY <1>5, <2>1, SMTT(30) DEF CountsThem
  <2>3. n <= Len(o) /\ o[Len(o) - n + 1] = t /\ now - t <= STRIKE_WINDOW
    BY <1>3, <1>5, <2>1, <2>2 DEF CountsThem
  <2>4. q = [count |-> n + 1, since |-> t]
    BY <1>5, <2>1, <2>2, Zenon DEF Counted
  <2>5. Len(o) - n + 1 \in 1 .. Len(o) /\ Len(a) - (n + 1) + 1 = Len(o) - n + 1
    BY <1>2, <2>2, <2>3
  <2>6. CountsThem(q, a)
    <3>1. q.count = n + 1 /\ q.since = t /\ q = [count |-> q.count, since |-> q.since]
      BY <2>4
    <3>2. PICK j : j = Len(a) - (n + 1) + 1 /\ j = Len(o) - n + 1
      BY <2>5, Zenon
    <3>3. a[j] = t
      BY <1>2, <2>3, <2>5, <3>2, Zenon
    <3>4. n + 1 \in Nat /\ n + 1 <= Len(a)
      BY <1>2, <2>2, <2>3
    <3> QED BY <2>2, <3>1, <3>2, <3>3, <3>4, SMTT(30) DEF CountsThem
  <2>7. ASSUME q.count >= MAX_STRIKES PROVE RunOf(a)
    <3>1. n + 1 = MAX_STRIKES
      BY <1>3, <2>2, <2>4, <2>7
    <3>2. PICK j : j = Len(o) - n + 1
      BY Zenon
    <3>3. j \in 1 .. Len(o) /\ o[j] = t
      BY <2>3, <2>5, <3>2, Zenon
    <3>4. j \in DOMAIN a /\ a[j] = t
      BY <1>2, <3>3, SMTT(30)
    <3>5. j + MAX_STRIKES - 1 = Len(a) /\ Len(a) \in DOMAIN a
      BY <1>2, <2>2, <3>1, <3>2
    <3>6. a[Len(a)] - a[j] <= STRIKE_WINDOW
      BY <1>2, <2>3, <3>4, Zenon
    <3> QED BY <3>4, <3>5, <3>6, Zenon DEF RunOf
  <2> QED BY <1>1, <2>6, <2>7, Zenon
<1> QED BY <1>4, <1>5, Zenon

LEMMA EarnKeeps ==
    ASSUME EarnInv, BanTypes', Striking', \A ip \in Ip : Earned(ip) => Earned(ip)',
           \A ip \in Ip : Suspect(ip)' => Suspect(ip) \/ Earned(ip)'
    PROVE  EarnInv'
  BY Zenon DEF EarnInv

\* The strikes are left alone, and nobody becomes a suspect.
LEMMA EarnUntouched ==
    ASSUME EarnInv, BanTypes', UNCHANGED <<STRIKES, offences, severe>>,
           \A ip \in Ip : Suspect(ip)' => Suspect(ip)
    PROVE  EarnInv'
<1>1. Striking'
  BY Zenon DEF EarnInv, Striking, CountsThem
<1>2. \A ip \in Ip : Earned(ip) => Earned(ip)'
  BY Zenon DEF Earned, RunOf
<1> QED BY <1>1, <1>2, EarnKeeps, Zenon

LEMMA EarnStep_quiet ==
    ASSUME EarnInv, Quietly, UNCHANGED <<STRIKES, offences, severe>>
    PROVE  EarnInv'
<1>1. BanTypes'
  BY Zenon DEF EarnInv, BanTypes, Quietly
<1>2. ASSUME NEW ip \in Ip, Suspect(ip)' PROVE Suspect(ip)
  BY <1>2, Zenon DEF Suspect, Quietly
<1> QED BY <1>1, <1>2, EarnUntouched, Zenon

\* A ban handed out to whoever has earned it.
LEMMA EarnStep_bans ==
    ASSUME EarnInv, NEW c \in Socket, ban_now(c), UNCHANGED <<now, stored>>, Striking',
           \A ip \in Ip : Earned(ip) => Earned(ip)', Earned(From(c))'
    PROVE  EarnInv'
<1>1. PICK ip, u : ip = From(c) /\ u = now + BAN_DURATION
  BY Zenon
<1>2. /\ Moved(c, "save", ip, u) /\ BANNED' \in [Ip -> Int \union {NoBan}]
      /\ BANNED' = [BANNED EXCEPT ![ip] = u] /\ ip \in Ip
  BY <1>1, BansNow, Zenon DEF EarnInv
<1>3. BanTypes'
  BY <1>2, Zenon DEF EarnInv, BanTypes, Moved
<1>4. Earned(ip)'
  <2>1. From(c)' = From(c)
    BY <1>1, <1>2, Zenon DEF Moved, From
  <2> QED BY <1>1, <2>1, Zenon DEF Earned
<1>5. ASSUME NEW j \in Ip, Suspect(j)' PROVE Suspect(j) \/ j = ip
  BY <1>2, <1>5, Zenon DEF Suspect, Moved, EarnInv, BanTypes
<1> QED BY <1>3, <1>4, <1>5, EarnKeeps

LEMMA EarnStep_severe ==
    ASSUME EarnInv, NEW c \in Socket, StrikeSevere(c)
    PROVE  EarnInv'
<1>1. ban_now(c) /\ UNCHANGED <<now, stored, STRIKES, offences>> /\ severe' = severe \union {From(c)}
  BY Zenon DEF StrikeSevere
<1>2. Striking'
  BY <1>1, Zenon DEF EarnInv, Striking, CountsThem
<1>3. \A ip \in Ip : Earned(ip) => Earned(ip)'
  BY <1>1, Zenon DEF Earned, RunOf
<1>4. From(c)' = From(c)
  BY <1>1, BansNow, Zenon DEF EarnInv, Moved, From
<1>5. Earned(From(c))'
  BY <1>1, <1>4, Zenon DEF Earned
<1> QED BY <1>1, <1>2, <1>3, <1>5, EarnStep_bans, Zenon

LEMMA EarnStep_strike ==
    ASSUME EarnInv, NEW c \in Socket, Strike(c)
    PROVE  EarnInv'
<1>1. PICK ip, o, q : ip = From(c) /\ o = offences[ip] /\ q = Counted(STRIKES[ip])
  BY Zenon
<1>2. ip \in Ip /\ o \in Seq(Int) /\ now \in Nat /\ CountsThem(STRIKES[ip], o) /\ STRIKES[ip].count < MAX_STRIKES
  BY <1>1, Zenon DEF EarnInv, BanTypes, SocketShape, From, Striking
<1>3. CountsThem(q, Append(o, now)) /\ (q.count >= MAX_STRIKES => RunOf(Append(o, now)))
  BY <1>1, <1>2, CountedIs, Zenon
<1>4. offences' = [offences EXCEPT ![ip] = Append(o, now)] /\ UNCHANGED <<now, stored, severe>>
  BY <1>1, Zenon DEF Strike
<1>5. /\ offences' \in [Ip -> Seq(Int)] /\ offences'[ip] = Append(o, now)
      /\ \A j \in Ip : j # ip => offences'[j] = offences[j]
  BY <1>2, <1>4 DEF EarnInv, Striking
<1>6. ASSUME NEW j \in Ip, Earned(j) PROVE Earned(j)'
  <2>1. CASE j = ip
    BY <1>1, <1>2, <1>4, <1>5, <1>6, <2>1, RunGrows, SMTT(30) DEF Earned
  <2>2. CASE j # ip
    BY <1>4, <1>5, <1>6, <2>2 DEF Earned
  <2> QED BY <2>1, <2>2, Zenon
<1>7. ASSUME q.count >= MAX_STRIKES PROVE EarnInv'
  <2>1. ban_now(c) /\ STRIKES' = [STRIKES EXCEPT ![ip] = NoStrikes]
    BY <1>1, <1>7, Zenon DEF Strike
  <2>2. Striking'
    BY <1>2, <1>5, <2>1, NoStrikesIs, ZenonT(30) DEF EarnInv, Striking
  <2>3. From(c)' = From(c)
    BY <2>1, BansNow, Zenon DEF EarnInv, Moved, From
  <2>4. Earned(From(c))'
    BY <1>1, <1>3, <1>5, <1>7, <2>3, ZenonT(30) DEF Earned
  <2> QED BY <1>4, <1>6, <2>1, <2>2, <2>4, EarnStep_bans, SMTT(30)
<1>8. ASSUME ~ (q.count >= MAX_STRIKES) PROVE EarnInv'
  <2>1. Goto(c, "closed") /\ STRIKES' = [STRIKES EXCEPT ![ip] = q] /\ UNCHANGED BANNED
    BY <1>1, <1>8, Zenon DEF Strike
  <2>2. q.count < MAX_STRIKES
    BY <1>3, <1>8, BansAssumption DEF CountsThem
  <2>3. Striking'
    BY <1>2, <1>3, <1>5, <2>1, <2>2, ZenonT(30) DEF EarnInv, Striking
  <2>4. Moved(c, "closed", ip, conns[c].until)
    BY <1>1, <2>1, ConnGoes DEF EarnInv
  <2>5. BanTypes'
    BY <1>4, <2>1, <2>4 DEF EarnInv, BanTypes, Moved
  <2>6. ASSUME NEW j \in Ip, Suspect(j)' PROVE Suspect(j)
    BY <1>4, <2>1, <2>4, <2>6 DEF Suspect, Moved
  <2> QED BY <1>6, <2>3, <2>5, <2>6, EarnKeeps
<1> QED BY <1>7, <1>8, Zenon

LEMMA EarnStep_saves ==
    ASSUME EarnInv, NEW c \in Socket, prune(c) \/ save_ban(c)
    PROVE  EarnInv'
<1>1. PICK ip : ip = From(c)
  BY Zenon
<1>2. ip \in Ip /\ UNCHANGED <<now, STRIKES, offences, severe>>
  BY <1>1, Zenon DEF EarnInv, BanTypes, SocketShape, From, prune, save_ban
<1>3. CASE prune(c)
  <2>1. /\ Moved(c, "hello", ip, conns[c].until) /\ UNCHANGED stored
        /\ BANNED' = [BANNED EXCEPT ![ip] = NoBan]
    BY <1>1, <1>3, ConnGoes, SMTT(30) DEF EarnInv, prune
  <2>2. BanTypes'
    BY <1>2, <2>1, Zenon DEF EarnInv, BanTypes, Moved
  <2>3. ASSUME NEW j \in Ip, Suspect(j)' PROVE Suspect(j)
    BY <1>2, <2>1, <2>3, SMTT(30) DEF Suspect, Moved, EarnInv, BanTypes
  <2> QED BY <1>2, <2>2, <2>3, EarnUntouched, SMTT(30)
<1>4. CASE save_ban(c)
  <2>1. 0 \in Int /\ conns' = [conns EXCEPT ![c].pc = "closed", ![c].until = 0]
    BY <1>4 DEF save_ban
  <2>2. Moved(c, "closed", ip, 0)
    BY <1>1, <2>1, ConnSaves, Zenon DEF EarnInv
  <2>3. PICK u : u = conns[c].until
    BY Zenon
  <2>4. /\ UNCHANGED BANNED /\ conns[c].pc = "save" /\ conns[c].ip = ip /\ u \in Int
        /\ stored' = stored \/ stored' = [stored EXCEPT ![ip] = u]
    BY <1>1, <1>4, <2>3, SMTT(30) DEF save_ban, From, At, EarnInv, BanTypes, SocketShape
  <2>5. BanTypes'
    BY <1>2, <2>2, <2>4, Zenon DEF EarnInv, BanTypes, Moved
  <2>6. ASSUME NEW j \in Ip, Suspect(j)' PROVE Suspect(j)
    BY <1>2, <2>2, <2>4, <2>6 DEF Suspect, Moved, EarnInv, BanTypes
  <2> QED BY <1>2, <2>5, <2>6, EarnUntouched, Zenon
<1> QED BY <1>3, <1>4, Zenon

LEMMA EarnStep_reboots ==
    ASSUME EarnInv, Reboot
    PROVE  EarnInv'
<1>1. /\ UNCHANGED <<now, stored, offences, severe>> /\ BANNED' = load_persisted
      /\ conns' = [c \in Socket |-> ClosedSocket(From(c))]
      /\ STRIKES' = [ip \in Ip |-> NoStrikes]
  BY Zenon DEF Reboot
<1>2. ASSUME NEW c \in Socket PROVE SocketShape(conns'[c]) /\ conns'[c].pc = "closed"
  BY <1>1 DEF EarnInv, BanTypes, ClosedSocket, SocketShape, From
<1>3. BanTypes'
  BY <1>1, <1>2, Zenon DEF EarnInv, BanTypes, load_persisted
<1>4. Striking'
  BY <1>1, NoStrikesIs, Zenon DEF EarnInv, Striking
<1>5. \A ip \in Ip : Earned(ip) => Earned(ip)'
  BY <1>1, Zenon DEF Earned
<1>6. ASSUME NEW ip \in Ip, Suspect(ip)' PROVE Suspect(ip)
  BY <1>1, <1>2, <1>6, Zenon DEF Suspect, load_persisted, load_bans
<1> QED BY <1>3, <1>4, <1>5, <1>6, EarnKeeps, Zenon

LEMMA EarnSteps == EarnInv /\ [BansNext]_banVars => EarnInv'
<1> SUFFICES ASSUME EarnInv, [BansNext]_banVars PROVE EarnInv'
  BY Zenon
<1>1. ASSUME NEW c \in Socket, (\E ip \in Ip : accept(c, ip)) \/ Handshaken(c) \/ HangsUp(c)
      PROVE  EarnInv'
  BY <1>1, QuietActions, EarnStep_quiet, Zenon DEF EarnInv
<1>2. ASSUME NEW c \in Socket, StrikeSevere(c) \/ Strike(c) \/ prune(c) \/ save_ban(c) PROVE EarnInv'
  BY <1>2, EarnStep_severe, EarnStep_strike, EarnStep_saves, SMTT(30)
<1>3. CASE Reboot
  BY <1>3, EarnStep_reboots, Zenon
<1>4. CASE ClockTicks \/ UNCHANGED banVars
  <2>1. UNCHANGED <<BANNED, stored, conns, STRIKES, offences, severe>> /\ now' \in {now, now + 1}
    BY <1>4, Zenon DEF ClockTicks, banVars
  <2>2. BanTypes'
    BY <2>1, SMTT(30) DEF EarnInv, BanTypes, SocketShape
  <2> QED BY <2>1, <2>2, EarnUntouched, Zenon DEF Suspect
<1> QED BY <1>1, <1>2, <1>3, <1>4, SMTT(30) DEF BansNext

\* Whoever is banned without having broken the protocol outright was rejected MAX_STRIKES
\* times within one window, for any addresses, connections and restarts (node/src/ban.rs
\* strike).
THEOREM BansEarned == BansSpec => []BansAreEarned
<1>1. EarnInv => BansAreEarned
  BY Zenon DEF EarnInv, Suspect, Earned, RunOf, BansAreEarned
<1> QED BY <1>1, EarnStarts, EarnSteps, PTL DEF BansSpec

\* Bans are earned and what the store has of them is in force, for any addresses,
\* connections and reboots (ban.rs).
THEOREM BansAreSound == BansSpec => []BansSound
<1>1. BansAreEarned /\ StoredBanInForce => BansSound
  BY Zenon DEF BansSound
<1> QED BY <1>1, BansEarned, StoredBansHold, PTL

----------------------------------------------------------------------------
(* The miner.  The flag has a template behind it because the run loop      *)
(* raises it only once it holds one (Armed at "arm") and takes it down     *)
(* before it drops the template (Armed at "drop"); a thread can only clear *)
(* it.  A submission skips nobody because the links already served and     *)
(* still good have the block (Handed), and a link that is not good cannot  *)
(* become good again behind the submission's back: its node would have to  *)
(* be the process the stream was opened to, and a node that stopped is no  *)
(* longer steady (SteadyUp).                                               *)

LinkShape(l) ==
  /\ l = [stream |-> l.stream, backoff |-> l.backoff, wait |-> l.wait]
  /\ l.stream \in Nat \union {NoStream}

PeerShape(u) == u = [state |-> u.state, life |-> u.life] /\ u.life \in Nat

MinerTypes ==
  /\ upstream = [i \in Link |-> upstream[i]] /\ \A i \in Link : PeerShape(upstream[i])
  /\ link = [i \in Link |-> link[i]] /\ \A i \in Link : LinkShape(link[i])
  /\ run = [at |-> run.at, block |-> run.block, next |-> run.next] /\ run.next \in Nat
  /\ got = [i \in Link |-> got[i]]
  /\ tip \in Nat /\ mining \in BOOLEAN /\ steady \subseteq Link

Armed ==
  /\ mining => current_template # NoBlock
  /\ run.at = "arm" => current_template # NoBlock
  /\ run.at = "drop" => ~ mining

SteadyUp == \A i \in steady : upstream[i].state # "down"

Handed ==
  run.at = "submit" => \A i \in steady : i < run.next /\ Good(i) => run.block \in got[i]

MinerInv == MinerTypes /\ Armed /\ SteadyUp /\ Handed

LEMMA MinerStarts == MinerInit => MinerInv
<1> SUFFICES ASSUME MinerInit PROVE MinerInv
  BY Zenon
<1>1. ASSUME NEW i \in Link PROVE PeerShape(upstream[i]) /\ LinkShape(link[i])
  <2>1. upstream[i] \in {[state |-> "up", life |-> 1], [state |-> "down", life |-> 1]}
    BY Zenon DEF MinerInit
  <2>2. PeerShape(upstream[i])
    BY <2>1 DEF PeerShape
  <2>3. LinkShape(link[i])
    BY ZenonT(30) DEF MinerInit, LinkShape, NewLink
  <2> QED BY <2>2, <2>3, Zenon
<1>2. MinerTypes
  BY <1>1, ZenonT(30) DEF MinerInit, MinerTypes, Selecting
<1> QED BY <1>2 DEF MinerInit, MinerInv, Armed, SteadyUp, Handed, Selecting

\* What connected makes of a link: itself, or what the dial left.
LEMMA Connects ==
    ASSUME MinerTypes, NEW i \in Link
    PROVE  LinkShape(connected(i))
<1>1. LinkShape(link[i]) /\ PeerShape(upstream[i])
  BY Zenon DEF MinerTypes
<1>2. LinkShape(Redialled(i))
  BY <1>1, ZenonT(30) DEF Redialled, LinkShape, PeerShape
<1> QED BY <1>1, <1>2, Zenon DEF connected

LEMMA Disconnects ==
    ASSUME NEW l, LinkShape(l)
    PROVE  LinkShape(disconnect(l)) /\ disconnect(l).stream = NoStream
<1>1. PICK s, b, w : s = l.stream /\ b = l.backoff /\ w = l.wait
  BY Zenon
<1>2. l = [stream |-> s, backoff |-> b, wait |-> w]
  BY <1>1, Zenon DEF LinkShape
<1>3. ASSUME NEW z PROVE [l EXCEPT !.stream = NoStream, !.wait = z] = [stream |-> NoStream, backoff |-> b, wait |-> z]
  <2>1. PICK m : m = [l EXCEPT !.stream = NoStream, !.wait = z]
    BY Zenon
  <2>2. m = [x \in {"stream", "backoff", "wait"} |-> m[x]] /\ m.stream = NoStream /\ m.backoff = b /\ m.wait = z
    BY <1>2, <2>1, ZenonT(30)
  <2> QED BY <2>1, <2>2, ZenonT(30)
<1>4. disconnect(l) = [stream |-> NoStream, backoff |-> b, wait |-> 0]
  BY <1>3, Zenon DEF disconnect
<1> QED BY <1>4 DEF LinkShape

\* Steps of the threads and of the primary's chain leave links, nodes and run loop alone.
LEMMA MinerStep_threads ==
    ASSUME MinerInv, UNCHANGED <<upstream, link, current_template, run, got, steady>>,
           tip' \in Nat, mining' \in BOOLEAN, mining' => mining
    PROVE  MinerInv'
<1>1. MinerTypes'
  BY Zenon DEF MinerInv, MinerTypes
<1>2. Armed'
  BY Zenon DEF MinerInv, Armed
<1>3. SteadyUp' /\ Handed'
  BY Zenon DEF MinerInv, SteadyUp, Handed, Good
<1> QED BY <1>1, <1>2, <1>3 DEF MinerInv

\* Steps of the run loop outside a submission.
LEMMA MinerStep_templates ==
    ASSUME MinerInv, Tick \/ ReceiveTemplate \/ StartMining \/ FetchFails
                     \/ stop_mining_on_a_stale_template \/ DropTemplate
    PROVE  MinerInv'
<1>1. UNCHANGED <<upstream, got, tip, steady>> /\ 1 \in Link
  BY MinerAssumption DEF Tick, ReceiveTemplate, StartMining, FetchFails,
     stop_mining_on_a_stale_template, DropTemplate, Link
<1>2. PICK r : r = run
  BY Zenon
<1>3. r = [at |-> r.at, block |-> r.block, next |-> r.next] /\ r.next \in Nat
  BY <1>2, Zenon DEF MinerInv, MinerTypes
<1>4. ASSUME NEW l, LinkShape(l), link' = [link EXCEPT ![1] = l]
      PROVE  link' = [i \in Link |-> link'[i]] /\ \A i \in Link : LinkShape(link'[i])
  BY <1>1, <1>4, Zenon DEF MinerInv, MinerTypes
<1>5. ASSUME run'.at # "submit" PROVE SteadyUp' /\ Handed'
  BY <1>1, <1>5, Zenon DEF MinerInv, SteadyUp, Handed
<1>6. CASE Tick
  <2>1. PICK l : l = connected(1)
    BY Zenon
  <2>2. LinkShape(l) /\ link' = [link EXCEPT ![1] = l]
    BY <1>1, <1>6, <2>1, Connects DEF MinerInv, Tick
  <2>3. run' \in {[r EXCEPT !.at = "stop"], [r EXCEPT !.at = "reply"]}
    BY <1>2, <1>6, Zenon DEF Tick
  <2>4. run' = [at |-> run'.at, block |-> r.block, next |-> r.next] /\ run'.at \in {"stop", "reply"}
    BY <1>3, <2>3, Zenon
  <2>5. MinerTypes'
    BY <1>1, <1>3, <1>4, <1>6, <2>2, <2>4, SMTT(30) DEF MinerInv, MinerTypes, Tick
  <2>6. Armed'
    BY <1>6, <2>4, Zenon DEF MinerInv, Armed, Tick
  <2> QED BY <1>5, <2>4, <2>5, <2>6 DEF MinerInv
<1>7. CASE FetchFails
  <2>1. PICK l : l = disconnect(link[1])
    BY Zenon
  <2>2. LinkShape(l) /\ link' = [link EXCEPT ![1] = l]
    BY <1>1, <1>7, <2>1, Disconnects DEF MinerInv, MinerTypes, FetchFails
  <2>3. run' = [at |-> "stop", block |-> r.block, next |-> r.next]
    BY <1>2, <1>3, <1>7, Zenon DEF FetchFails
  <2>4. MinerTypes'
    BY <1>1, <1>3, <1>4, <1>7, <2>2, <2>3, SMTT(30) DEF MinerInv, MinerTypes, FetchFails
  <2>5. Armed'
    BY <1>7, <2>3, Zenon DEF MinerInv, Armed, FetchFails
  <2> QED BY <1>5, <2>3, <2>4, <2>5, Zenon DEF MinerInv
<1>8. CASE ReceiveTemplate \/ stop_mining_on_a_stale_template
  <2>1. run' \in {[r EXCEPT !.at = "arm"], [r EXCEPT !.at = "drop"]} /\ UNCHANGED link
    BY <1>2, <1>8, Zenon DEF ReceiveTemplate, stop_mining_on_a_stale_template
  <2>2. run' = [at |-> run'.at, block |-> r.block, next |-> r.next] /\ run'.at \in {"arm", "drop"}
    BY <1>3, <2>1, Zenon
  <2>3. MinerTypes'
    BY <1>1, <1>3, <1>8, <2>1, <2>2, ZenonT(30)
    DEF MinerInv, MinerTypes, ReceiveTemplate, stop_mining_on_a_stale_template, FlagFirst
  <2>4. Armed'
    <3>1. CASE ReceiveTemplate
      <4>1. run' = [at |-> "arm", block |-> r.block, next |-> r.next]
        BY <1>2, <1>3, <3>1, Zenon DEF ReceiveTemplate
      <4>2. current_template' # NoBlock
        BY <3>1, MinerAssumption, Zenon DEF ReceiveTemplate, MinerInv, MinerTypes
      <4> QED BY <4>1, <4>2, Zenon DEF Armed
    <3>2. CASE stop_mining_on_a_stale_template
      <4>1. run' = [at |-> "drop", block |-> r.block, next |-> r.next] /\ ~ mining'
        BY <1>2, <1>3, <3>2, SMTT(30) DEF stop_mining_on_a_stale_template, FlagFirst
      <4> QED BY <4>1, Zenon DEF Armed
    <3> QED BY <1>8, <3>1, <3>2, Zenon
  <2> QED BY <1>5, <2>2, <2>3, <2>4 DEF MinerInv
<1>9. CASE StartMining \/ DropTemplate
  <2>1. run' = Selecting /\ UNCHANGED link /\ mining' \in BOOLEAN
    BY <1>9, ZenonT(30) DEF StartMining, DropTemplate, MinerInv, MinerTypes
  <2>2. MinerTypes'
    BY <1>1, <2>1, Zenon DEF MinerInv, MinerTypes, Selecting
  <2>3. Armed'
    BY <1>9, <2>1 DEF MinerInv, Armed, StartMining, DropTemplate, Selecting
  <2> QED BY <1>5, <2>1, <2>2, <2>3, Zenon DEF MinerInv, Selecting
<1> QED BY <1>6, <1>7, <1>8, <1>9

LEMMA MinerStep_peers ==
    ASSUME MinerInv, NEW i \in Link, PeerFails(i, "down") \/ PeerFails(i, "wedged") \/ PeerServes(i)
    PROVE  MinerInv'
<1>1. /\ UNCHANGED <<tip, link, current_template, mining, run, got>>
      /\ steady' \subseteq steady
      /\ \A j \in Link : j # i => upstream'[j] = upstream[j]
      /\ upstream' = [j \in Link |-> upstream'[j]]
  BY Zenon DEF PeerFails, PeerServes, MinerInv, MinerTypes
<1>2. PICK u : u = upstream[i]
  BY Zenon
<1>3. u = [state |-> u.state, life |-> u.life] /\ u.life \in Nat
  BY <1>2, Zenon DEF MinerInv, MinerTypes, PeerShape
<1>4. CASE PeerFails(i, "down")
  <2>1. upstream'[i] = [state |-> "down", life |-> u.life + 1] /\ i \notin steady'
    BY <1>2, <1>4, Zenon DEF PeerFails, MinerInv, MinerTypes
  <2>2. PeerShape(upstream'[i])
    BY <1>3, <2>1, SMTT(30) DEF PeerShape
  <2>3. MinerTypes'
    BY <1>1, <2>2, Zenon DEF MinerInv, MinerTypes
  <2>4. SteadyUp' /\ Handed'
    BY <1>1, <2>1, SMTT(30) DEF MinerInv, MinerTypes, SteadyUp, Handed, Good
  <2> QED BY <1>1, <2>3, <2>4, Zenon DEF MinerInv, Armed
<1>5. CASE PeerFails(i, "wedged") \/ PeerServes(i)
  <2>1. upstream' = [upstream EXCEPT ![i] = [state |-> "wedged", life |-> u.life]]
        \/ upstream' = [upstream EXCEPT ![i] = [state |-> "up", life |-> u.life]]
    <3>1. CASE PeerFails(i, "wedged")
      BY <1>2, <3>1 DEF PeerFails, MinerInv, MinerTypes
    <3>2. CASE PeerServes(i)
      <4>1. upstream' = [upstream EXCEPT ![i] = [u EXCEPT !.state = "up"]]
        BY <1>2, <3>2, Zenon DEF PeerServes, MinerInv, MinerTypes
      <4>2. [u EXCEPT !.state = "up"] = [state |-> "up", life |-> u.life]
        BY <1>3
      <4> QED BY <4>1, <4>2, ZenonT(30)
    <3> QED BY <1>5, <3>1, <3>2, SMTT(30)
  <2>2. upstream'[i].state # "down" /\ upstream'[i].life = u.life /\ PeerShape(upstream'[i])
    BY <1>3, <2>1 DEF MinerInv, MinerTypes, PeerShape
  <2>3. MinerTypes'
    BY <1>1, <2>2, Zenon DEF MinerInv, MinerTypes
  <2>4. SteadyUp'
    BY <1>1, <2>2, Zenon DEF MinerInv, MinerTypes, SteadyUp
  <2>5. \A j \in steady : Good(j)' => Good(j)
    BY <1>1, <1>2, <2>2, Zenon DEF MinerInv, MinerTypes, SteadyUp, Good
  <2>6. Handed'
    BY <1>1, <2>5, Zenon DEF MinerInv, Handed
  <2> QED BY <1>1, <2>3, <2>4, <2>6 DEF MinerInv, Armed
<1> QED BY <1>4, <1>5, Zenon

LEMMA MinerStep_time ==
    ASSUME MinerInv, TimePasses
    PROVE  MinerInv'
<1>1. UNCHANGED <<upstream, tip, current_template, mining, run, got, steady>>
  BY Zenon DEF TimePasses
<1>2. ASSUME NEW i \in Link PROVE link'[i].stream = link[i].stream /\ LinkShape(link'[i])
  <2>1. PICK w : link'[i] = [link[i] EXCEPT !.wait = w]
    BY ZenonT(30) DEF TimePasses
  <2>2. PICK l : l = link[i]
    BY Zenon
  <2>3. LinkShape(l)
    BY <2>2, Zenon DEF MinerInv, MinerTypes
  <2>4. link'[i] = [stream |-> l.stream, backoff |-> l.backoff, wait |-> w]
    BY <2>1, <2>2, <2>3 DEF LinkShape
  <2> QED BY <2>2, <2>3, <2>4 DEF LinkShape
<1>3. link' = [i \in Link |-> link'[i]]
  BY Zenon DEF TimePasses
<1>4. MinerTypes'
  BY <1>1, <1>2, <1>3, Zenon DEF MinerInv, MinerTypes
<1>5. \A i \in Link : Good(i)' <=> Good(i)
  BY <1>1, <1>2, Zenon DEF Good
<1>6. Handed' /\ SteadyUp' /\ Armed'
  BY <1>1, <1>5, Zenon DEF MinerInv, MinerTypes, Handed, SteadyUp, Armed
<1> QED BY <1>4, <1>6, Zenon DEF MinerInv

LEMMA MinerStep_submits ==
    ASSUME MinerInv, SubmitToLink
    PROVE  MinerInv'
<1>1. PICK i, l, r : i = run.next /\ l = connected(i) /\ r = run
  BY Zenon
<1>2. i \in Link /\ i \in Nat /\ LinkShape(l) /\ PeerShape(upstream[i])
  BY <1>1, Connects, Zenon DEF MinerInv, MinerTypes, SubmitToLink
<1>3. r = [at |-> "submit", block |-> r.block, next |-> i]
  BY <1>1, Zenon DEF MinerInv, MinerTypes, SubmitToLink
<1>4. run' = [at |-> "submit", block |-> r.block, next |-> i + 1]
  <2>1. run' = [r EXCEPT !.next = i + 1]
    BY <1>1, Zenon DEF SubmitToLink, NextLink
  <2> QED BY <1>3, <2>1
<1>5. UNCHANGED <<upstream, tip, current_template, mining, steady>>
  BY Zenon DEF SubmitToLink
<1>6. ASSUME NEW m, LinkShape(m), link' = [link EXCEPT ![i] = m],
             got' = got \/ got' = [got EXCEPT ![i] = @ \cup {r.block}],
             m.stream = upstream[i].life /\ upstream[i].state # "down" => r.block \in got'[i]
      PROVE  MinerInv'
  <2>1. /\ link' = [j \in Link |-> link'[j]] /\ link'[i] = m
        /\ \A j \in Link : j # i => link'[j] = link[j]
    BY <1>2, <1>6, Zenon DEF MinerInv, MinerTypes
  <2>2. got' = [j \in Link |-> got'[j]] /\ \A j \in Link : j # i => got'[j] = got[j]
    BY <1>2, <1>6, Zenon DEF MinerInv, MinerTypes
  <2>3. MinerTypes'
    BY <1>2, <1>4, <1>5, <1>6, <2>1, <2>2, SMTT(30) DEF MinerInv, MinerTypes
  <2>4. Armed' /\ SteadyUp'
    BY <1>3, <1>4, <1>5, Zenon DEF MinerInv, Armed, SteadyUp
  <2>5. ASSUME NEW j \in steady', j < run'.next, Good(j)' PROVE run'.block \in got'[j]
    <3>1. j \in Link /\ j \in Nat
      BY <1>5, SMTT(30) DEF MinerInv, MinerTypes, Link
    <3>2. CASE j = i
      BY <1>4, <1>5, <1>6, <2>1, <2>5, <3>2, SMTT(30) DEF Good
    <3>3. CASE j # i
      <4>1. j < i /\ Good(j) /\ j \in steady
        BY <1>2, <1>4, <1>5, <2>1, <2>5, <3>1, <3>3, SMTT(30) DEF Good
      <4>2. run.at = "submit" /\ run.next = i /\ run.block = r.block
        BY <1>1, <1>3, SMTT(30)
      <4> QED BY <1>4, <2>2, <3>1, <3>3, <4>1, <4>2, SMTT(30) DEF MinerInv, Handed
    <3> QED BY <3>2, <3>3, SMTT(30)
  <2>6. Handed'
    BY <2>5, Zenon DEF Handed
  <2> QED BY <2>3, <2>4, <2>6, SMTT(30) DEF MinerInv
<1>7. ASSUME link' = [link EXCEPT ![i] = l],
             got' = IF l.stream = upstream[i].life /\ upstream[i].state # "down"
                    THEN [got EXCEPT ![i] = @ \cup {r.block}] ELSE got
      PROVE  MinerInv'
  <2>1. l.stream = upstream[i].life /\ upstream[i].state # "down" => r.block \in got'[i]
    BY <1>2, <1>7, Zenon DEF MinerInv, MinerTypes
  <2> QED BY <1>2, <1>6, <1>7, <2>1, ZenonT(30)
<1>8. ASSUME link' = [link EXCEPT ![i] = disconnect(l)], got' = got
      PROVE  MinerInv'
  <2>1. LinkShape(disconnect(l)) /\ disconnect(l).stream # upstream[i].life
    BY <1>2, Disconnects, MinerAssumption DEF PeerShape
  <2> QED BY <1>6, <1>8, <2>1, ZenonT(30)
<1> QED BY <1>1, <1>7, <1>8 DEF SubmitToLink

LEMMA MinerSteps == MinerInv /\ [MinerNext]_minerVars => MinerInv'
<1> SUFFICES ASSUME MinerInv, [MinerNext]_minerVars PROVE MinerInv'
  BY Zenon
<1>1. CASE TakeBlock \/ Submitted
  <2>1. UNCHANGED <<upstream, tip, link, current_template, got>>
    BY <1>1, Zenon DEF TakeBlock, Submitted
  <2>2. CASE TakeBlock
    <3>1. run' = [at |-> "submit", block |-> Head(queue), next |-> 1]
          /\ steady' = {i \in Link : Good(i)} /\ UNCHANGED mining
      BY <2>2, Zenon DEF TakeBlock
    <3>2. MinerTypes'
      BY <2>1, <3>1, Zenon DEF MinerInv, MinerTypes
    <3>3. Armed' /\ SteadyUp'
      BY <2>1, <3>1, Zenon DEF MinerInv, Armed, SteadyUp, Good
    <3>4. Handed'
      BY <3>1, SMTT(30) DEF Handed, Link
    <3> QED BY <3>2, <3>3, <3>4, SMTT(30) DEF MinerInv
  <2>3. CASE Submitted
    BY <2>1, <2>3, ZenonT(30) DEF Submitted, Selecting, MinerInv, MinerTypes, Armed, SteadyUp, Handed
  <2> QED BY <1>1, <2>2, <2>3, Zenon
<1>2. ASSUME NEW t \in Thread, Mines(t) PROVE MinerInv'
  <2>1. UNCHANGED <<upstream, tip, link, current_template, run, got, steady>>
        /\ (mining' = mining \/ mining' = FALSE)
    BY <1>2, Zenon DEF Mines, ReadFlag, CloneTemplate, NothingFound, BlockFound, ClearFlag
  <2>2. tip' \in Nat
    BY <2>1, Zenon DEF MinerInv, MinerTypes
  <2>3. mining \in BOOLEAN
    BY Zenon DEF MinerInv, MinerTypes
  <2>4. mining' \in BOOLEAN /\ (mining' => mining)
    <3>1. CASE mining' = mining
      BY <2>3, <3>1, Zenon
    <3>2. CASE mining' = FALSE
      BY <3>2, ZenonT(30)
    <3> QED BY <2>1, <3>1, <3>2, ZenonT(30)
  <2> QED BY <2>1, <2>2, <2>4, MinerStep_threads, Zenon
<1>3. CASE TipMoves \/ UNCHANGED minerVars
  <2>1. UNCHANGED <<upstream, link, current_template, mining, run, got, steady>> /\ tip' \in Nat
    BY <1>3, SMTT(30) DEF TipMoves, minerVars, MinerInv, MinerTypes
  <2> QED BY <2>1, MinerStep_threads, Zenon DEF MinerInv, MinerTypes
<1>4. CASE SubmitToLink
  BY <1>4, MinerStep_submits, Zenon
<1>5. CASE TimePasses
  BY <1>5, MinerStep_time, Zenon
<1>6. ASSUME NEW i \in Link, PeerFails(i, "down") \/ PeerFails(i, "wedged") \/ PeerServes(i)
      PROVE  MinerInv'
  BY <1>6, MinerStep_peers, Zenon
<1> QED BY <1>1, <1>2, <1>3, <1>4, <1>5, <1>6, MinerStep_templates, SMTT(30) DEF MinerNext, RunLoop

\* The flag is never up without a template behind it, for any number of threads, links
\* and node failures (stop_mining_on_a_stale_template, fetch_template).
THEOREM TemplateBehindTheFlag == MinerSpec => []FlagHasTemplate
<1>1. MinerInv => FlagHasTemplate
  BY Zenon DEF MinerInv, Armed, FlagHasTemplate
<1> QED BY <1>1, MinerStarts, MinerSteps, PTL DEF MinerSpec

\* A mined block has been handed to every node its submission has passed, if the node was
\* connected when the submission began and has not stopped since, for any number of links
\* and failures (submit_block).
THEOREM SubmissionSkipsNobody == MinerSpec => []RedundantSubmission
<1>1. MinerInv => RedundantSubmission
  BY Zenon DEF MinerInv, Handed, RedundantSubmission
<1> QED BY <1>1, MinerStarts, MinerSteps, PTL DEF MinerSpec

\* Threads mine only on a template, and a found block passes over no steady node, for any
\* number of threads and links (miner/src/main.rs).
THEOREM MinersAreSound == MinerSpec => []MinersSound
<1>1. FlagHasTemplate /\ RedundantSubmission => MinersSound
  BY Zenon DEF MinersSound
<1> QED BY <1>1, TemplateBehindTheFlag, SubmissionSkipsNobody, PTL

=============================================================================
