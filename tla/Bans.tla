-------------------------------- MODULE Bans --------------------------------
(***************************************************************************)
(* The node's peer bans (node/src/ban.rs) and the connections that earn    *)
(* them (the accept loop of node/src/main.rs and handle_connection of      *)
(* node/src/handler.rs).                                                   *)
(*                                                                         *)
(* A ban lives in memory and, best effort, in the store.  The memory copy  *)
(* is written first and the store second, so the process can end between   *)
(* the two.  Checking an address prunes an expired ban in a second step,   *)
(* after the entry's lock has been dropped.                                *)
(***************************************************************************)
EXTENDS Integers, Sequences

CONSTANTS
  Ip, Socket,          \* peer addresses; connections served at once
  BAN_DURATION, MAX_STRIKES, STRIKE_WINDOW,
  NoBan,               \* no entry in BANNED, or no row in the store
  MaxNow,              \* bound on the clock
  MaxOffences,         \* bound on the ordinary strikes an address earns
  MaxReboots

ASSUME BansAssumption ==
  /\ BAN_DURATION \in Nat \ {0} /\ MAX_STRIKES \in Nat \ {0}
  /\ STRIKE_WINDOW \in Nat /\ MaxNow \in Nat
  /\ MaxOffences \in Nat /\ MaxReboots \in Nat
  /\ NoBan \notin Int

VARIABLES
  now,       \* Utc::now()
  BANNED,    \* address -> until
  STRIKES,   \* address -> how many strikes, and since when
  stored,    \* the store's bans table: address -> until
  conns,     \* connection -> the address it comes from and where its task is
  offences,  \* address -> times of its ordinary strikes, oldest first
  severe,    \* addresses that broke the protocol outright
  raced,     \* addresses whose live ban a concurrent prune removed
  reboots

banVars == <<now, BANNED, STRIKES, stored, conns, offences, severe, raced, reboots>>

NoStrikes == [count |-> 0, since |-> 0]
ClosedSocket(ip) == [pc |-> "closed", ip |-> ip, until |-> 0]

BansInit ==
  /\ now = 0
  /\ BANNED = [ip \in Ip |-> NoBan] /\ stored = [ip \in Ip |-> NoBan]
  /\ STRIKES = [ip \in Ip |-> NoStrikes]
  /\ conns \in [Socket -> {ClosedSocket(ip) : ip \in Ip}]
  /\ offences = [ip \in Ip |-> <<>>] /\ severe = {} /\ raced = {}
  /\ reboots = 0

At(c, pc) == conns[c].pc = pc
Goto(c, pc) == conns' = [conns EXCEPT ![c].pc = pc]
From(c) == conns[c].ip

InForce(until) == until # NoBan /\ until > now

-----------------------------------------------------------------------------
(* The accept loop.  It is one task: it checks one address at a time.      *)

Checking == \E c \in Socket : At(c, "prune")

\* is_banned: a live ban refuses the socket, an expired one is dropped next.
accept(c, ip) ==
  /\ At(c, "closed") /\ ~Checking
  /\ conns' = IF InForce(BANNED[ip]) THEN conns
              ELSE [conns EXCEPT ![c] = [pc |-> IF BANNED[ip] = NoBan THEN "hello" ELSE "prune",
                                         ip |-> ip, until |-> 0]]
  /\ UNCHANGED <<now, BANNED, STRIKES, stored, offences, severe, raced, reboots>>

\* BANNED.remove(&ip), of whatever is there by now.
prune(c) ==
  /\ At(c, "prune")
  /\ BANNED' = [BANNED EXCEPT ![From(c)] = NoBan]
  /\ raced' = IF InForce(BANNED[From(c)]) THEN raced \union {From(c)} ELSE raced
  /\ Goto(c, "hello")
  /\ UNCHANGED <<now, STRIKES, stored, offences, severe, reboots>>

-----------------------------------------------------------------------------
(* Strikes.                                                                *)

\* ban_now: memory first, the store in a step of its own.
ban_now(c) ==
  LET until == now + BAN_DURATION
  IN /\ BANNED' = [BANNED EXCEPT ![From(c)] = until]
     /\ raced' = raced \ {From(c)}
     /\ conns' = [conns EXCEPT ![c].pc = "save", ![c].until = until]

\* The window runs from the first strike of a run, not over the last ones.
Counted(s) ==
  IF s.count = 0 \/ now - s.since > STRIKE_WINDOW
  THEN [count |-> 1, since |-> now]
  ELSE [s EXCEPT !.count = @ + 1]

\* strike(ip, true): garbage, an oversized or reply-only message, or a failed
\* handshake, which is also what a bare connect and hang-up looks like.
StrikeSevere(c) ==
  /\ At(c, "hello") \/ At(c, "open")
  /\ severe' = severe \union {From(c)}
  /\ ban_now(c)
  /\ UNCHANGED <<now, STRIKES, stored, offences, reboots>>

\* strike(ip, false): a rejected block or submitted transaction.
Strike(c) ==
  LET ip == From(c)
      s == Counted(STRIKES[ip])
  IN /\ At(c, "open") /\ Len(offences[ip]) < MaxOffences
     /\ offences' = [offences EXCEPT ![ip] = Append(@, now)]
     /\ IF s.count >= MAX_STRIKES
        THEN /\ STRIKES' = [STRIKES EXCEPT ![ip] = NoStrikes]
             /\ ban_now(c)
        ELSE /\ STRIKES' = [STRIKES EXCEPT ![ip] = s]
             /\ Goto(c, "closed")
             /\ UNCHANGED <<BANNED, raced>>
     /\ UNCHANGED <<now, stored, severe, reboots>>

\* store.save_ban: a failure is only logged.
save_ban(c) ==
  /\ At(c, "save")
  /\ \/ stored' = [stored EXCEPT ![From(c)] = conns[c].until]
     \/ UNCHANGED stored
  /\ conns' = [conns EXCEPT ![c].pc = "closed", ![c].until = 0]
  /\ UNCHANGED <<now, BANNED, STRIKES, offences, severe, raced, reboots>>

-----------------------------------------------------------------------------
(* The rest of a connection's life earns nothing.                          *)

Handshaken(c) ==
  /\ At(c, "hello") /\ Goto(c, "open")
  /\ UNCHANGED <<now, BANNED, STRIKES, stored, offences, severe, raced, reboots>>

\* is_benign_disconnect, a refused NewTransaction or a template that could not
\* be built: the connection may end, and nobody is struck.
HangsUp(c) ==
  /\ At(c, "open") /\ Goto(c, "closed")
  /\ UNCHANGED <<now, BANNED, STRIKES, stored, offences, severe, raced, reboots>>

ClockTicks ==
  /\ now < MaxNow /\ now' = now + 1
  /\ UNCHANGED <<BANNED, STRIKES, stored, conns, offences, severe, raced, reboots>>

\* Every row of the table, expired or not.
load_bans == {ip \in Ip : stored[ip] # NoBan}

\* Faulty variant: the bans of the last run are not read back.
ForgetsBans == [ip \in Ip |-> NoBan]

load_persisted == [ip \in Ip |-> IF ip \in load_bans /\ InForce(stored[ip]) THEN stored[ip] ELSE NoBan]

\* The process ends and starts again: strikes and connections are gone.
Reboot ==
  /\ reboots < MaxReboots /\ reboots' = reboots + 1
  /\ BANNED' = load_persisted
  /\ STRIKES' = [ip \in Ip |-> NoStrikes]
  /\ conns' = [c \in Socket |-> ClosedSocket(From(c))]
  /\ raced' = {}
  /\ UNCHANGED <<now, stored, offences, severe>>

BansNext ==
  \/ \E c \in Socket, ip \in Ip : accept(c, ip)
  \/ \E c \in Socket : \/ prune(c) \/ StrikeSevere(c) \/ Strike(c) \/ save_ban(c)
                      \/ Handshaken(c) \/ HangsUp(c)
  \/ ClockTicks \/ Reboot

BansSpec == BansInit /\ [][BansNext]_banVars

-----------------------------------------------------------------------------
(* A ban of an address that never broke the protocol outright was earned   *)
(* by MAX_STRIKES rejected blocks or transactions within STRIKE_WINDOW of  *)
(* one another: ban.rs means an honest peer's occasional mistake not to    *)
(* add up.                                                                 *)
BansAreEarned ==
  \A ip \in Ip :
    BANNED[ip] = NoBan \/ ip \in severe
    \/ \E i \in DOMAIN offences[ip] :
         LET last == i + MAX_STRIKES - 1
         IN last \in DOMAIN offences[ip]
            /\ offences[ip][last] - offences[ip][i] <= STRIKE_WINDOW

(* A ban that reached the store is in force in memory until it expires,    *)
(* across restarts, and is never shortened.  The one exception is the      *)
(* race in is_banned: a prune that began on the expired entry removes the  *)
(* ban that replaced it.                                                   *)
StoredBanInForce ==
  \A ip \in Ip \ raced :
    InForce(stored[ip]) => /\ BANNED[ip] # NoBan
                           /\ BANNED[ip] >= stored[ip]

\* Bans are earned, and they last: what the store has of them is in force (ban.rs).
BansSound == BansAreEarned /\ StoredBanInForce
=============================================================================
