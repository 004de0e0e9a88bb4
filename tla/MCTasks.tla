------------------------------- MODULE MCTasks -------------------------------
(***************************************************************************)
(* Instances of Tasks: every kind of task, funded every way the hub allows *)
(* it.                                                                     *)
(***************************************************************************)
EXTENDS Tasks

CONSTANTS a1, a2, a3, d1, d2, x, y

MCScene(kind, funding, agents, deposits, min, faults) ==
    [kind |-> kind, funding |-> funding, agents |-> agents, deposits |-> deposits,
     min_reputation |-> min, faults |-> faults]

EveryKind ==
    { MCScene("hash", "operator", {a1, a2, a3}, {}, 1, 1),
      MCScene("hash", "escrow", {a1, a2}, {d1}, 0, 1),
      MCScene("consensus", "operator", {a1, a2, a3}, {}, 0, 1),
      MCScene("consensus", "escrow", {a1, a2, a3}, {d1}, 0, 1),
      MCScene("contest", "escrow", {a1, a2}, {d1}, 0, 2),
      MCScene("legacy", "escrow", {a1, a2}, {d1, d2}, 0, 2) }

\* The two veterans behave alike, and so do the two answers.
Alike == Permutations({a1, a2}) \cup Permutations({x, y})
=============================================================================
