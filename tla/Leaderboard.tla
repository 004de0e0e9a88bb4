---------------------------- MODULE Leaderboard ----------------------------
(***************************************************************************)
(* GET /leaderboard (hub/src/handlers.rs), ranked by net worth: the field  *)
(* is priced by asking the node for one balance after another, the prices  *)
(* are kept for NET_WORTH_SNAPSHOT_TTL, and a reader pages through the     *)
(* ranking in requests of their own.  Readers share the snapshot behind a  *)
(* read-write lock.  Balances move, lookups fail and agents join           *)
(* meanwhile.                                                              *)
(***************************************************************************)
EXTENDS Naturals, Sequences, FiniteSets, FiniteSetsExt

CONSTANTS
  PubKey,         \* public keys, in their order
  FirstAgents,    \* those with a reputation from the start
  Reader,
  Balances,       \* balances the node may report
  NoPrice,
  NoReader,
  TTL,            \* NET_WORTH_SNAPSHOT_TTL_SECS
  PER_PAGE,       \* the page size, MAX_LEADERBOARD_PAGE_SIZE
  Asks,           \* what each reader may ask for: a direction, and the agents found
  MaxTime         \* bound on the clock

ASSUME LeaderboardAssumption ==
  /\ PubKey \subseteq Nat /\ FirstAgents \subseteq PubKey /\ Balances \subseteq Nat
  /\ PER_PAGE \in Nat \ {0} /\ TTL \in Nat \ {0}
  /\ NoReader \notin Reader

VARIABLES
  field,        \* agents with a reputation on the board
  time,         \* the hub's monotonic clock
  net_worths,   \* the snapshot: [taken, prices, n], n counting the sweeps
  writer,       \* the reader holding the write lock and sweeping, if any
  reader        \* where each reader is

rankVars == <<field, time, net_worths, writer, reader>>

Idle == [pc |-> "idle", asc |-> FALSE, finds |-> {}, offset |-> 0, field |-> {},
         got |-> << >>, snaps |-> {}, first |-> {}]

LeaderboardInit ==
  /\ field = FirstAgents /\ time = 0
  /\ net_worths = [taken |-> 0, prices |-> [a \in {} |-> 0], n |-> 0]
  /\ writer = NoReader
  /\ reader = [r \in Reader |-> Idle]

Fresh == net_worths.n > 0 /\ time - net_worths.taken < TTL

Doing(r, pc) == reader[r].pc = pc

-----------------------------------------------------------------------------
(* Ranking the field.                                                      *)

Figure(prices, a) == IF a \in DOMAIN prices THEN prices[a] ELSE NoPrice

\* Faulty variant: an agent without a figure ranks as one who has nothing.
UnpricedIsZero(left, right, ascending) ==
  LET V(x) == IF x = NoPrice THEN 0 ELSE x
  IN IF ascending THEN V(left) < V(right) ELSE V(left) > V(right)

\* Whether the left figure ranks ahead; an agent with none is last in both directions.
compare_for_ranking(left, right, ascending) ==
  CASE left # NoPrice /\ right # NoPrice -> IF ascending THEN left < right ELSE left > right
    [] left # NoPrice /\ right = NoPrice -> TRUE
    [] OTHER -> FALSE

\* The public key settles ties.
RanksAhead(a, b, prices, ascending) ==
  LET l == Figure(prices, a) r == Figure(prices, b)
  IN \/ compare_for_ranking(l, r, ascending)
     \/ ~compare_for_ranking(r, l, ascending) /\ a < b

\* The agent of rank i has i - 1 others ahead.
Ranked(agents, prices, ascending) ==
  [i \in 1..Cardinality(agents) |-> CHOOSE a \in agents :
     Cardinality({b \in agents \ {a} : RanksAhead(b, a, prices, ascending)}) = i - 1]

\* Ranks are attached to the whole order, and the search filters afterwards.
Entries(order, finds) ==
  SelectSeq([i \in DOMAIN order |-> [agent |-> order[i], rank |-> i]],
            LAMBDA e : e.agent \in finds)

\* The rest of a request once it has the prices: the slice of the entries asked for.
Serve(r, snapshot) ==
  LET entries == Entries(Ranked(reader[r].field, snapshot.prices, reader[r].asc),
                         reader[r].finds)
      page == SubSeq(entries, reader[r].offset + 1,
                     Min({reader[r].offset + PER_PAGE, Len(entries)}))
  IN [reader EXCEPT ![r].got = @ \o page,
                    ![r].offset = @ + PER_PAGE,
                    ![r].snaps = @ \union {snapshot.n},
                    ![r].field = {},
                    ![r].pc = IF Len(page) < PER_PAGE THEN "done" ELSE "paging"]

-----------------------------------------------------------------------------
(* One request, from its read of the board to its page.                    *)

BeginWalk(r, ascending, finds) ==
  /\ Doing(r, "idle")
  /\ reader' = [reader EXCEPT ![r].pc = "paging", ![r].asc = ascending,
                              ![r].finds = finds, ![r].first = field]
  /\ UNCHANGED <<field, time, net_worths, writer>>

\* board.leaderboard under the board's read lock, which is released before the pricing.
ReadField(r) ==
  /\ Doing(r, "paging")
  /\ reader' = [reader EXCEPT ![r].pc = "snapshot", ![r].field = field]
  /\ UNCHANGED <<field, time, net_worths, writer>>

\* The first look, under the snapshot's read lock.
ReadSnapshot(r) ==
  /\ Doing(r, "snapshot") /\ writer = NoReader
  /\ reader' = IF Fresh THEN Serve(r, net_worths)
               ELSE [reader EXCEPT ![r].pc = "refresh"]
  /\ UNCHANGED <<field, time, net_worths, writer>>

\* Faulty variant: no second look under the write lock.
AlwaysSweeps(r) ==
  /\ Doing(r, "refresh") /\ writer = NoReader
  /\ writer' = r
  /\ reader' = [reader EXCEPT ![r].pc = "sweep"]
  /\ UNCHANGED <<field, time, net_worths>>

\* The write lock, and a second look: another reader may have swept while this one waited.
TakeWriteLock(r) ==
  /\ Doing(r, "refresh") /\ writer = NoReader
  /\ IF Fresh
     THEN reader' = Serve(r, net_worths) /\ UNCHANGED writer
     ELSE writer' = r /\ reader' = [reader EXCEPT ![r].pc = "sweep"]
  /\ UNCHANGED <<field, time, net_worths>>

\* Every lookup answered, at an instant of its own, or failed: the snapshot is replaced and
\* the lock released.
FinishSweep(r) ==
  /\ Doing(r, "sweep")
  /\ \E prices \in UNION {[S -> Balances] : S \in SUBSET reader[r].field} :
       LET snapshot == [taken |-> time, prices |-> prices, n |-> net_worths.n + 1]
       IN net_worths' = snapshot /\ reader' = Serve(r, snapshot)
  /\ writer' = NoReader
  /\ UNCHANGED <<field, time>>

-----------------------------------------------------------------------------
\* A first payment gives an agent a reputation.
Joins(a) ==
  /\ a \in PubKey \ field
  /\ field' = field \union {a}
  /\ UNCHANGED <<time, net_worths, writer, reader>>

TimePasses ==
  /\ time < MaxTime
  /\ time' = time + 1
  /\ UNCHANGED <<field, net_worths, writer, reader>>

LeaderboardNext ==
  \/ \E r \in Reader :
       \/ \E q \in Asks[r] : BeginWalk(r, q.asc, q.finds)
       \/ ReadField(r) \/ ReadSnapshot(r) \/ TakeWriteLock(r) \/ FinishSweep(r)
  \/ \E a \in PubKey : Joins(a)
  \/ TimePasses

LeaderboardSpec == LeaderboardInit /\ [][LeaderboardNext]_rankVars

-----------------------------------------------------------------------------
(* Properties.                                                             *)

\* The field is priced at most once in TTL, however many readers find the snapshot stale at
\* the same moment: net_worth_snapshot looks again once it has the write lock.
OneSweepPerTTL ==
  [][net_worths'.n # net_worths.n /\ net_worths.n > 0 => time - net_worths.taken \geq TTL]_rankVars

\* A walk whose pages were all ranked by the snapshot in force served every agent it prices
\* and the search finds exactly once, with the agent's place in the whole field, although
\* agents join between two pages: they have no price yet and rank behind.  (Not so when the
\* sweep of another reader priced an agent that joined after the walk's first page: that
\* agent enters the middle of the order.)
WalkRanksEachOnce ==
  \A r \in Reader :
    LET w == reader[r]
        prices == net_worths.prices
        ahead(a) == {b \in DOMAIN prices :
                       \/ IF w.asc THEN prices[b] < prices[a] ELSE prices[b] > prices[a]
                       \/ prices[b] = prices[a] /\ b < a}
    IN w.pc = "done" /\ w.snaps = {net_worths.n} /\ DOMAIN prices \subseteq w.first =>
         \A a \in DOMAIN prices \intersect w.finds :
           \E i \in DOMAIN w.got :
             /\ w.got[i] = [agent |-> a, rank |-> Cardinality(ahead(a)) + 1]
             /\ \A j \in DOMAIN w.got : w.got[j].agent = a => j = i
=============================================================================
