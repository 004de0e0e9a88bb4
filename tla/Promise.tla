------------------------------- MODULE Promise ------------------------------
(***************************************************************************)
(* What the hub's payment journal promises about one thing it may pay for: *)
(* a faucet grant to a key, one withdrawal, the money of one deposit.      *)
(* The money is set aside before anything is sent, leaves at most once, and*)
(* is reported as paid only when it was.                                   *)
(***************************************************************************)
EXTENDS Naturals

VARIABLES promise,          \* where the payment stands
          paid              \* transactions on the chain that made it

pvars == <<promise, paid>>

PInit == promise = "free" /\ paid = 0

Reserve ==
    /\ promise = "free" /\ promise' = "reserved"
    /\ UNCHANGED paid

Pay ==
    /\ promise = "reserved" /\ paid = 0
    /\ paid' = 1
    /\ UNCHANGED promise

Report ==
    /\ promise = "reserved" /\ paid = 1
    /\ promise' = "reported"
    /\ UNCHANGED paid

\* A deposit found empty is closed without a payment.
Close ==
    /\ promise = "reserved" /\ paid = 0
    /\ promise' = "void"
    /\ UNCHANGED paid

PNext == Reserve \/ Pay \/ Report \/ Close

PSpec == PInit /\ [][PNext]_pvars
=============================================================================
