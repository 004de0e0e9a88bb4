------------------------------ MODULE MCSurface ------------------------------
(***************************************************************************)
(* One instance of the hub's surface: what a request meets before a task   *)
(* or an order (rate limits, authentication, the faucet, names) and what   *)
(* the hub reports (task pages, series, the leaderboard, the operators'    *)
(* overview).  A behaviour follows one part of it.                         *)
(***************************************************************************)
EXTENDS Auth, Faucet, Names, MarketViews, Leaderboard, Watch, TLC

CONSTANTS alice, e1, e2, e3, d1, d2, k1, k2, k3, r1, r2, a1, a2, a3,
          poster, w1, w2, python, reader1, reader2, o1, o2

V6(block, net, host) == [fam |-> "v6", groups |-> <<32, 1, block, net, host>>]
V4(n) == [fam |-> "v4", groups |-> <<10, 0, 0, n>>]

\* Two addresses of one customer; headers naming addresses that are not theirs; and a
\* proxy that reaches a dual-stack listener as a mapped address.
MCClient == {V6(1, 1, 1), V6(1, 1, 2)}
MCForged == {<< >>, <<V4(7)>>, <<V4(8)>>}
MCProxy == [fam |-> "mapped", groups |-> <<10, 0, 0, 1>>]
MCTrusted == {V4(1)}
MCRoute == {[method |-> "GET", path |-> <<"tasks">>],
            [method |-> "POST", path |-> <<"tasks", "t1", "submit">>]}
MCTierLimit == [t \in Tier |-> 1]

\* Envelopes of one signer, two of them stamped ahead of the hub's clock.
MCStamp == e1 :> 3 @@ e2 :> 3 @@ e3 :> 1
MCSigner == [e \in {e1, e2, e3} |-> alice]

\* Two networks of one block ask, or two blocks when a third has had a grant already.
MCScene ==
    { [networks |-> << >>, clients |-> {V6(1, 1, 1), V6(1, 2, 1)}],
      [networks |-> k3 :> prefix_of(V6(3, 1, 1)), clients |-> {V6(1, 1, 1), V6(2, 1, 1)}] }

MCWindows == <<1, 3>>
MCQueries == { [capability |-> NoTag, window |-> -1, buckets |-> 3],
               [capability |-> python, window |-> 3, buckets |-> 2],
               [capability |-> NoTag, window |-> 0, buckets |-> 0] }

\* One reader walks the field or searches it; another, whose search finds nobody, may sweep.
MCAsks == [r \in {reader1, reader2} |->
             IF r = reader1 THEN {[asc |-> TRUE, finds |-> PubKey], [asc |-> FALSE, finds |-> {3}]}
             ELSE {[asc |-> FALSE, finds |-> {}]}]

\* The two keys that ask the faucet behave alike, and so do the two requests inside it.
Alike == Permutations({k1, k2}) \cup Permutations({r1, r2})

VARIABLE focus    \* the part of the surface this behaviour follows

doorVars == <<authVars, faucetVars, nameVars>>
reportVars == <<viewVars, rankVars, watchVars>>
surfaceVars == <<doorVars, reportVars, focus>>

Doors == {"limits", "quota", "replay", "faucet", "crash", "names"}
Reports == {"pages", "series", "ranking", "solvency", "payouts"}

SurfaceInit ==
    /\ focus \in Doors \cup Reports
    /\ AuthInit /\ FaucetInit /\ NamesInit
    /\ focus \notin {"faucet", "crash"} => clients = {V6(1, 1, 1), V6(1, 2, 1)}
    /\ focus # "names" => by_pubkey = << >>
    /\ MarketViewsInit /\ LeaderboardInit /\ WatchInit
    /\ focus \notin {"solvency", "payouts"} => node_up /\ owed = 0
    /\ focus = "payouts" => owed = 0

\* The faucet without a crash, and with one while little time passes; envelopes without a
\* restart, and with restarts when two of them are not stamped alike.
NoRestart == restarts' = 0 /\ clock' \leq 5
NotStampedAlike == \A d \in Delivery : request'[d].envelope # e2
NoCrash == crashes' = 0
CrashSoon == clock' \leq 1

DoorNext ==
    \/ focus = "limits" /\ LimitNext /\ UNCHANGED <<guardVars, faucetVars, nameVars>>
    \/ focus = "quota" /\ AuthNext /\ NoRestart /\ UNCHANGED <<faucetVars, nameVars>>
    \/ focus = "replay" /\ AuthNext /\ NotStampedAlike /\ UNCHANGED <<faucetVars, nameVars>>
    \/ focus = "faucet" /\ FaucetNext /\ NoCrash /\ UNCHANGED <<guardVars, nameVars>>
    \/ focus = "crash" /\ FaucetNext /\ CrashSoon /\ UNCHANGED <<guardVars, nameVars>>
    \/ focus = "names" /\ NamesNext /\ UNCHANGED <<limitVars, guardVars, faucetVars>>

\* Pages: tasks of one market, at most claimed.  Series: two tasks of different markets,
\* and a grant or a clock that is set back.
PagesOnly ==
    /\ wall' = Cardinality(DOMAIN board') /\ grants' = {}
    /\ \A t \in DOMAIN board' : /\ board'[t].tag = NoTag /\ ~board'[t].escrow
                                /\ board'[t].status # "Paid"
SeriesOnly ==
    /\ walk' = NoWalk /\ DOMAIN board' \in {{}, {1}, {1, 2}} /\ Cardinality(grants') \leq 1
    /\ backs' = 0 \/ grants' = {}
    /\ \A t \in DOMAIN board' : (board'[t].tag = python) = (t = 1)

ReportNext ==
    \/ focus = "pages" /\ MarketViewsNext /\ PagesOnly /\ UNCHANGED <<rankVars, watchVars>>
    \/ focus = "series" /\ MarketViewsNext /\ SeriesOnly /\ UNCHANGED <<rankVars, watchVars>>
    \/ focus = "ranking" /\ LeaderboardNext /\ UNCHANGED <<viewVars, watchVars>>
    \/ focus = "solvency" /\ WatchNext /\ submitted_at' = submitted_at /\ UNCHANGED <<viewVars, rankVars>>
    \/ focus = "payouts" /\ WatchNext /\ moves' = moves /\ UNCHANGED <<viewVars, rankVars>>

SurfaceNext ==
    /\ UNCHANGED focus
    /\ \/ DoorNext /\ UNCHANGED reportVars
       \/ ReportNext /\ UNCHANGED doorVars

SurfaceSpec == SurfaceInit /\ [][SurfaceNext]_surfaceVars
=============================================================================
