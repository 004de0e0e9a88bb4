----------------------------- MODULE RateLimit -----------------------------
(***************************************************************************)
(* The hub's request budgets (hub/src/rate_limit.rs): which address a      *)
(* request is charged to, which tier its route draws from, and the         *)
(* fixed-window counters behind both the per-network and the per-key       *)
(* limits.                                                                 *)
(*                                                                         *)
(* An address is a family and its groups: four octets for IPv4 and for an  *)
(* IPv4 address mapped into IPv6, four network groups and a host for IPv6. *)
(* Time is counted in ticks, TicksPerSecond of them to the second.         *)
(***************************************************************************)
EXTENDS Integers, Sequences, FiniteSets, FiniteSetsExt, Tables

CONSTANTS
    Client,           \* the addresses requests really come from
    Forged,           \* forwarding headers a client may send, sequences of entries
    Proxy,            \* the address of the reverse proxy
    trusted,          \* --trusted-proxies
    Unreadable,       \* a forwarding entry that does not parse
    Route,            \* the requests made: method and path segments
    TierLimit,        \* requests per window, by tier
    KEY_LIMIT,        \* MAX_SIGNED_REQUESTS_PER_PUBKEY_PER_WINDOW
    WINDOW_SECONDS,
    TicksPerSecond,
    MaxClock,         \* bound: ticks a behaviour lasts
    MaxRequests,      \* bound: requests the middleware admits
    MaxOver           \* bound: requests counted past a bucket's limit

Tier == {"health", "metrics", "read", "write", "chain"}

ASSUME RateLimitAssumption ==
    /\ TierLimit \in [Tier -> Nat \ {0}]
    /\ {KEY_LIMIT, WINDOW_SECONDS, TicksPerSecond, MaxClock, MaxRequests, MaxOver}
           \subseteq Nat \ {0}

VARIABLES
    clock,     \* the hub's clock, in ticks
    windows,   \* the rate-limit table: a window for every bucket in it
    admitted   \* history: <<network, tier, tick>> of every admitted request

limitVars == <<clock, windows, admitted>>

----------------------------------------------------------------------------
(* Addresses.                                                              *)

ToCanonical(ip) == IF ip.fam = "mapped" THEN [ip EXCEPT !.fam = "v4"] ELSE ip

\* The first groups of the canonical address: a /24 or a /64, a /16 or a /48.
Block(ip, v4, v6) ==
    LET c == ToCanonical(ip)
    IN  [fam |-> c.fam, net |-> SubSeq(c.groups, 1, IF c.fam = "v4" THEN v4 ELSE v6)]

prefix_of(ip) == Block(ip, 3, 4)

wide_prefix_of(ip) == Block(ip, 2, 3)

\* The same block from a network already cut to its prefix.
widen_prefix(prefix) ==
    [prefix EXCEPT !.net = SubSeq(@, 1, IF prefix.fam = "v4" THEN 2 ELSE 3)]

limit_key(ip) == Block(ip, 4, 4)

\* Faulty variant: an unreadable entry is skipped and the walk goes on left.
SkipsUnreadable(peer, entries) ==
    {i \in DOMAIN entries : entries[i] # Unreadable /\ entries[i] \notin trusted}

\* The forwarding entries at which the right-to-left walk may stop.
StopsWalk(peer, entries) ==
    {i \in DOMAIN entries : entries[i] = Unreadable \/ entries[i] \notin trusted}

client_ip(connected, entries) ==
    LET peer  == ToCanonical(connected)
        stops == StopsWalk(peer, entries)
    IN  IF peer \notin trusted \/ stops = {} \/ entries[Max(stops)] = Unreadable
        THEN peer
        ELSE entries[Max(stops)]

----------------------------------------------------------------------------
(* Tiers and buckets.                                                      *)

Matches(pattern, path) ==
    /\ Len(pattern) = Len(path)
    /\ \A i \in DOMAIN pattern : pattern[i] \in {"*", path[i]}

ChainRoutes ==
    { <<"tasks">>, <<"tasks", "consensus">>, <<"tasks", "escrow", "*", "confirm">>,
      <<"tasks", "*", "submit">>, <<"tasks", "*", "close">>, <<"tasks", "*", "pick">>,
      <<"tasks", "*", "dispute", "confirm">>, <<"tasks", "*", "dispute", "resolve">>,
      <<"faucet">>, <<"wallet", "send">>,
      <<"exchange", "deposit", "*", "confirm">>, <<"exchange", "withdraw">> }

tier_for(method, path) ==
    IF method \in {"GET", "HEAD"}
    THEN CASE path = <<"health">>  -> "health"
           [] path = <<"metrics">> -> "metrics"
           [] OTHER                -> "read"
    ELSE IF \E pattern \in ChainRoutes : Matches(pattern, path) THEN "chain" ELSE "write"

IpBucket(ip, tier) == <<"ip", limit_key(ip), tier>>
KeyBucket(pubkey)  == <<"key", pubkey>>

max_per_window(bucket) == IF bucket[1] = "ip" THEN TierLimit[bucket[3]] ELSE KEY_LIMIT

Window == WINDOW_SECONDS * TicksPerSecond

\* The window a request at this tick falls in: the bucket's own unless it has none
\* or the one it has is over.
CurrentWindow(bucket) ==
    IF bucket \in DOMAIN windows /\ clock - windows[bucket].started_at <= Window
    THEN windows[bucket]
    ELSE [started_at |-> clock, count |-> 0]

\* check_and_record: the request is counted whether or not it is within the limit.
Recorded(bucket) == [CurrentWindow(bucket) EXCEPT !.count = @ + 1]
WithinLimit(bucket) == Recorded(bucket).count <= max_per_window(bucket)
Record(bucket) ==
    /\ Recorded(bucket).count <= max_per_window(bucket) + MaxOver
    /\ windows' = Insert(windows, bucket, Recorded(bucket))

----------------------------------------------------------------------------
(* The middleware.                                                         *)

LimitInit ==
    /\ clock = 0
    /\ windows = << >>
    /\ admitted = << >>

\* A client's request, straight to the hub or through the proxy, which appends the
\* address it saw to whatever header the client sent, in a form the hub may not read.
middleware(client, forged, route, via) ==
    LET ip   == CASE via = "direct"  -> client_ip(client, forged)
                  [] via = "proxy"   -> client_ip(Proxy, Append(forged, client))
                  [] via = "garbled" -> client_ip(Proxy, Append(forged, Unreadable))
        tier == tier_for(route.method, route.path)
    IN  /\ Len(admitted) < MaxRequests
        /\ Record(IpBucket(ip, tier))
        /\ admitted' = IF WithinLimit(IpBucket(ip, tier))
                       THEN Append(admitted, <<limit_key(client), tier, clock>>)
                       ELSE admitted
        /\ UNCHANGED clock

\* A window the sweep leaves in the table.
Retained(w) == w.started_at > clock - Window

CleanupTable ==
    /\ windows' = [b \in {b \in DOMAIN windows : Retained(windows[b])} |-> windows[b]]
    /\ UNCHANGED <<clock, admitted>>

Tick ==
    /\ clock < MaxClock
    /\ clock' = clock + 1
    /\ UNCHANGED <<windows, admitted>>

LimitNext ==
    \/ \E client \in Client, forged \in Forged, route \in Route,
         via \in {"direct", "proxy", "garbled"} : middleware(client, forged, route, via)
    \/ CleanupTable
    \/ Tick

----------------------------------------------------------------------------
(* Properties.                                                             *)

\* Entries of a history made less than a window apart, starting at the i-th.
WithinWindow(history, i, same(_, _)) ==
    {j \in DOMAIN history : /\ same(history[i], history[j])
                            /\ history[j][3] >= history[i][3]
                            /\ history[j][3] < history[i][3] + Window}

\* Whatever forwarding header it sends, directly or through the proxy, one network's
\* requests in one tier are admitted at most twice a window's limit in any span
\* shorter than a window (rate_limit.rs middleware, client_ip, check_and_record).
NetworkBounded ==
    \A i \in DOMAIN admitted :
        Cardinality(WithinWindow(admitted, i, LAMBDA a, b : a[1] = b[1] /\ a[2] = b[2]))
            <= 2 * TierLimit[admitted[i][2]]
=============================================================================
