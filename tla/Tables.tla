------------------------------- MODULE Tables -------------------------------
(***************************************************************************)
(* The maps the hub and its store keep: HashMap, DashMap and redb tables,  *)
(* as functions on the keys they hold.                                     *)
(***************************************************************************)

\* insert: the key's earlier value, if any, is replaced.
Insert(table, key, value) ==
    [k \in DOMAIN table \cup {key} |-> IF k = key THEN value ELSE table[k]]

\* extend: every entry of the batch is inserted.
Extend(table, batch) ==
    [k \in DOMAIN table \cup DOMAIN batch |-> IF k \in DOMAIN batch THEN batch[k] ELSE table[k]]

=============================================================================
