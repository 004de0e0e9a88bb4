---------------------------- MODULE MarketViews ----------------------------
(***************************************************************************)
(* What the hub shows of its board to a reader who holds no lock between   *)
(* two requests (hub/src/handlers.rs): the pages of list_tasks, the board  *)
(* summary, and one market's series over a window and a resolution the     *)
(* reader picks.  Tasks are posted, claimed and paid meanwhile, and the    *)
(* hub's clock may be set back.                                            *)
(***************************************************************************)
EXTENDS Integers, FiniteSets, FiniteSetsExt, SequencesExt

CONSTANTS
  TaskId,               \* ids in the order the board's map iterates
  Poster,
  Winners,              \* the sets of agents that may win a task
  Tag,                  \* capability tags
  NoTag,
  BountySizes,
  PAGE,                 \* the page size a reader asks for
  SUMMARY_WINDOWS,      \* the presets, shortest first
  SUMMARY_DEFAULT_WINDOW, SUMMARY_BUCKETS,
  MIN_SERIES_WINDOW, MAX_SERIES_WINDOW, MAX_SERIES_BUCKETS,
  SeriesQueries,        \* [capability, window, buckets] readers ask for
  SECOND,               \* clock units in a second
  TX_FEE,               \* HUB_TRANSACTION_FEE
  MaxWall, MaxBack      \* bounds: the clock, and how often it is set back

ASSUME MarketViewsAssumption ==
  /\ TaskId \subseteq Nat /\ BountySizes \subseteq Nat \ {0}
  /\ {PAGE, SUMMARY_BUCKETS, SECOND, MIN_SERIES_WINDOW} \subseteq Nat \ {0}
  /\ MIN_SERIES_WINDOW \leq MAX_SERIES_WINDOW

VARIABLES
  board,       \* the tasks posted so far, by id
  wall,        \* the hub's wall clock
  backs,       \* times it was set back
  grants,      \* faucet grants, stamped in whole seconds
  walk,        \* one reader's walk through the pages of list_tasks
  broadcasts   \* settlement transactions of each task that reached the chain

viewVars == <<board, wall, backs, grants, walk, broadcasts>>

NoWalk == [filter |-> "all", offset |-> 0, got |-> << >>, saw |-> {}, state |-> "none"]

MarketViewsInit ==
  /\ board = [t \in {} |-> 0] /\ wall = 0 /\ backs = 0 /\ grants = {}
  /\ walk = NoWalk /\ broadcasts = [t \in TaskId |-> 0]

Posted == DOMAIN board

-----------------------------------------------------------------------------
(* What happens to the board while it is read.                             *)

\* The clock has nanoseconds: no two tasks are created at one reading of it.
Post(t, p, size, tag, escrowed) ==
  /\ t \in TaskId \ Posted /\ wall < MaxWall
  /\ board' = [u \in Posted \union {t} |->
                 IF u = t
                 THEN [created_at |-> wall, status |-> "Open", bounty |-> size, poster |-> p,
                       tag |-> tag, escrow |-> escrowed, settled_at |-> -1, paid |-> {}]
                 ELSE board[u]]
  /\ wall' = wall + 1
  /\ UNCHANGED <<backs, grants, walk, broadcasts>>

ClaimTask(t) ==
  /\ t \in Posted /\ board[t].status = "Open"
  /\ board' = [board EXCEPT ![t].status = "Claimed"]
  /\ UNCHANGED <<wall, backs, grants, walk, broadcasts>>

\* The last winner's payment confirmed.  An escrow pays all winners in one transaction,
\* the operator pays each in a transaction of its own.
Paid(t, winners) ==
  /\ t \in Posted /\ board[t].status = "Claimed"
  /\ board' = [board EXCEPT ![t].status = "Paid", ![t].settled_at = wall, ![t].paid = winners]
  /\ broadcasts' = [broadcasts EXCEPT ![t] = IF board[t].escrow THEN 1 ELSE Cardinality(winners)]
  /\ UNCHANGED <<wall, backs, grants, walk>>

FaucetGrant ==
  /\ grants' = grants \union {wall \div SECOND}
  /\ UNCHANGED <<board, wall, backs, walk, broadcasts>>

ClockRuns ==
  /\ wall < MaxWall
  /\ wall' = wall + 1
  /\ UNCHANGED <<board, backs, grants, walk, broadcasts>>

ClockSetBack ==
  /\ backs < MaxBack /\ wall > 0
  /\ \E c \in 0 .. wall - 1 : wall' = c
  /\ backs' = backs + 1
  /\ UNCHANGED <<board, grants, walk, broadcasts>>

-----------------------------------------------------------------------------
(* GET /tasks.                                                             *)

Matching(filter) == {t \in Posted : filter = "all" \/ board[t].status = "Open"}

\* Faulty variant: the order of the board's map.
ById(filter) == SetToSortSeq(Matching(filter), <)

\* A stable sort on created_at of what the map iterates in the order of ids.
ListedTasks(filter) ==
  SetToSortSeq(Matching(filter),
               LAMBDA t, u : \/ board[t].created_at < board[u].created_at
                             \/ board[t].created_at = board[u].created_at /\ t < u)

Page(s, offset, limit) == SubSeq(s, offset + 1, Min({offset + limit, Len(s)}))

StartWalk(filter) ==
  /\ walk.state = "none"
  /\ walk' = [NoWalk EXCEPT !.filter = filter, !.saw = Matching(filter), !.state = "reading"]
  /\ UNCHANGED <<board, wall, backs, grants, broadcasts>>

list_tasks ==
  /\ walk.state = "reading"
  /\ LET page == Page(ListedTasks(walk.filter), walk.offset, PAGE)
     IN walk' = [walk EXCEPT !.got = @ \o page, !.offset = @ + PAGE,
                             !.state = IF Len(page) < PAGE THEN "done" ELSE "reading"]
  /\ UNCHANGED <<board, wall, backs, grants, broadcasts>>

-----------------------------------------------------------------------------
(* GET /board/summary and GET /board/series.                               *)

\* The smallest preset that holds the span, or the largest there is.
PresetFor(span) ==
  LET holding == {i \in DOMAIN SUMMARY_WINDOWS : SUMMARY_WINDOWS[i] \geq span}
  IN SUMMARY_WINDOWS[IF holding = {} THEN Len(SUMMARY_WINDOWS) ELSE Min(holding)]

DefaultWindow(tasks) ==
  IF tasks = {} THEN SUMMARY_DEFAULT_WINDOW
  ELSE PresetFor(Max({0, wall - Min({board[t].created_at : t \in tasks})}))

\* The bucket of an instant, or none outside the window.
bucket_of(at, window, buckets) ==
  IF at < wall - window \/ at > wall THEN {}
  ELSE {Min({((at - (wall - window)) * buckets) \div window, buckets - 1})}

\* A series over 0 .. buckets - 1: each item adds its weight to the bucket of its instant.
Series(at, weight, window, buckets) ==
  [b \in 0 .. buckets - 1 |->
     MapThenSumSet(LAMBDA i : weight[i],
                   {i \in DOMAIN at : b \in bucket_of(at[i], window, buckets)})]

Total(series) == MapThenSumSet(LAMBDA b : series[b], DOMAIN series)
CreatedAt(t) == board[t].created_at
SettledAt(t) == board[t].settled_at
Bounty(t) == board[t].bounty
One(t) == 1

With(status, tasks) == {t \in tasks : board[t].status = status}

\* One row of the summary; the rows for the kinds of task are built like those for the tags.
SummaryRow(tasks, window) ==
  [posted |-> Cardinality(tasks), open |-> Cardinality(With("Open", tasks)),
   open_bounty |-> MapThenSumSet(Bounty, With("Open", tasks)),
   posted_series |-> Series([t \in tasks |-> CreatedAt(t)], [t \in tasks |-> 1],
                            window, SUMMARY_BUCKETS)]

\* The figures for the whole board and for each tag.
summarize_board ==
  LET window == DefaultWindow(Posted)
  IN [window |-> window, totals |-> SummaryRow(Posted, window),
      paid_bounty |-> MapThenSumSet(Bounty, With("Paid", Posted)),
      capabilities |-> [tag \in {board[t].tag : t \in Posted} \ {NoTag} |->
                          SummaryRow({t \in Posted : board[t].tag = tag}, window)]]

Clamp(x, lo, hi) == Max({lo, Min({x, hi})})

\* One fee for an escrow's single transaction, else one for each winner.
leg_fees(t) ==
  IF board[t].paid = {} THEN 0
  ELSE IF board[t].escrow THEN TX_FEE
  ELSE Cardinality(board[t].paid) * TX_FEE

\* The answer for the tasks of one market.  The totals are summed over the window and not
\* from the series.
MarketSeriesDto(market, window, buckets) ==
  LET open == With("Open", market)
      settled == {t \in market : board[t].settled_at # -1}
      Of(items, At(_), Weight(_)) ==
        Series([i \in items |-> At(i)], [i \in items |-> Weight(i)], window, buckets)
      In(items, At(_)) == {t \in items : bucket_of(At(t), window, buckets) # {}}
  IN [start |-> wall - window, end |-> wall,
      posted_series |-> Of(market, CreatedAt, One),
      bounty_series |-> Of(market, CreatedAt, Bounty),
      open_bounty_series |-> Of(open, CreatedAt, Bounty),
      settled_series |-> Of(settled, SettledAt, One),
      fees_series |-> Of(settled, SettledAt, leg_fees),
      faucet_series |-> Of(grants, LAMBDA g : g * SECOND, One),
      posted |-> Cardinality(In(market, CreatedAt)),
      bounty |-> MapThenSumSet(Bounty, In(market, CreatedAt)),
      settled |-> Cardinality(In(settled, SettledAt)),
      fees |-> MapThenSumSet(leg_fees, In(settled, SettledAt)),
      open_bounty |-> MapThenSumSet(Bounty, open),
      agents |-> Cardinality({board[t].poster : t \in In(market, CreatedAt)}
                               \union UNION {board[t].paid : t \in In(settled, SettledAt)})]

series_for(q) ==
  LET market == {t \in Posted : q.capability = NoTag \/ board[t].tag = q.capability}
      window == IF q.window = -1 THEN DefaultWindow(market)
                ELSE Clamp(q.window, MIN_SERIES_WINDOW, MAX_SERIES_WINDOW)
      buckets == Clamp(q.buckets, 1, MAX_SERIES_BUCKETS)
  IN MarketSeriesDto(market, window, buckets)

-----------------------------------------------------------------------------
MarketViewsNext ==
  \/ \E t \in TaskId, p \in Poster, size \in BountySizes, tag \in Tag, e \in BOOLEAN :
       Post(t, p, size, tag, e)
  \/ \E t \in TaskId : ClaimTask(t) \/ \E w \in Winners : Paid(t, w)
  \/ FaucetGrant
  \/ ClockRuns
  \/ ClockSetBack
  \/ \E filter \in {"all", "open"} : StartWalk(filter)
  \/ list_tasks

-----------------------------------------------------------------------------
(* Properties.                                                             *)

\* A reader who walks the pages of every task, one request at a time, is served each task
\* that was on the board when it began exactly once, whatever is posted, claimed or paid
\* between two pages: list_tasks orders by creation time, so what arrives lands behind what
\* was there.  It rests on the clock: a task posted after the clock was set back lands in
\* front.
WalkServesEachOnce ==
  walk.state = "done" /\ walk.filter = "all" /\ backs = 0 =>
    \A t \in walk.saw : Cardinality({i \in DOMAIN walk.got : walk.got[i] = t}) = 1

\* Every task of the board is in the summary's series, and in the series of its tag, as long
\* as the largest preset reaches back to the oldest and no task bears a time the clock has
\* not reached.
SummaryHoldsTheBoard ==
  (\A t \in Posted : wall - board[t].created_at
                       \in 0 .. SUMMARY_WINDOWS[Len(SUMMARY_WINDOWS)]) =>
     LET s == summarize_board
     IN /\ Total(s.totals.posted_series) = s.totals.posted
        /\ \A tag \in DOMAIN s.capabilities :
             Total(s.capabilities[tag].posted_series) = s.capabilities[tag].posted

\* A series adds up to the totals printed above it, at both edges of the window and for
\* every number of buckets: what the header counts is in exactly one bucket, and the open
\* bounty that is in none is the bounty posted outside the window.
SeriesAddsUp ==
  Posted # {} => \A q \in SeriesQueries : LET s == series_for(q) IN
    /\ Total(s.posted_series) = s.posted
    /\ Total(s.bounty_series) = s.bounty
    /\ Total(s.settled_series) = s.settled
    /\ Total(s.faucet_series) = Cardinality({g \in grants : g * SECOND \in s.start .. s.end})
    /\ s.open_bounty - Total(s.open_bounty_series) =
         MapThenSumSet(Bounty, {t \in Posted : /\ board[t].status = "Open"
                                               /\ q.capability \in {NoTag, board[t].tag}
                                               /\ board[t].created_at \notin s.start .. s.end})

\* The fees a series reports are the fees of the transactions that settled its tasks: one
\* for a task an escrow paid however many won it, one for each winner the operator paid.
FeesAreTransactions ==
  Posted # {} => \A q \in SeriesQueries : LET s == series_for(q) IN
    /\ Total(s.fees_series) = s.fees
    /\ s.fees = TX_FEE * MapThenSumSet(LAMBDA t : broadcasts[t],
                                       {t \in Posted : /\ q.capability \in {NoTag, board[t].tag}
                                                       /\ board[t].settled_at \in s.start .. s.end
                                                       /\ board[t].settled_at # -1})

\* The pages and the figures of the market agree with the board: a walk serves each task
\* once, and every series adds up to its totals (list_tasks, series_for, summarize_board).
ViewsSound == WalkServesEachOnce /\ SummaryHoldsTheBoard /\ SeriesAddsUp /\ FeesAreTransactions
=============================================================================
