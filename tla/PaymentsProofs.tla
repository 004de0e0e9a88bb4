--------------------------- MODULE PaymentsProofs ---------------------------
(***************************************************************************)
(* The payment journal implements Promise, for any set of requests,        *)
(* subjects, wallets and coins, any bound on submissions and on the scan,  *)
(* and any number of crashes: money is set aside before it is sent, leaves *)
(* at most once, and is reported only when it did.                         *)
(*                                                                         *)
(* The argument follows a transaction.  Until its payment is committed it  *)
(* is known to nobody, so it may still be dropped or rebuilt; from then on *)
(* its inputs never change.  A transaction at a node spends nothing that a *)
(* block has spent, so it is mined at most once, and once one of its coins *)
(* is gone it is mined already or never will be: which is why a scan that  *)
(* reaches the tip without it settles the matter.  The sweep works on a    *)
(* snapshot, and what it has learnt must still hold when it writes.        *)
(***************************************************************************)
EXTENDS Payments, TLAPS

Locked == {"fetch", "build", "prepare"}
Early == {"idle"} \cup Locked

\* One request at a time between the wallet's lock and the commit.
LocksOK ==
    /\ \A q, r \in active :
          q # r /\ WalletOf[q] = WalletOf[r] => ~ (pc[q] \in Locked /\ pc[r] \in Locked)
    /\ \A r \in Request \ active : pc[r] = "idle"

\* No unresolved payment of r's wallet rests on one of r's coins.
Clear(r) ==
    \A q \in Journalled :
        journal[q] # None /\ journal[q].status # "Confirmed" /\ WalletOf[q] = WalletOf[r]
        => tx[q] \cap tx[r] = {}

\* What a request read and built: coins of its own wallet that have arrived, and none that
\* an unresolved payment rests on.  It is journalled by the commit and not before.
BuiltOK ==
    \A r \in Request :
        /\ view[r] \subseteq CoinsOf[WalletOf[r]] \cap arrived
        /\ tx[r] \subseteq CoinsOf[WalletOf[r]] \cap arrived
        /\ pc[r] = "prepare" => r \in Journalled /\ Clear(r)
        /\ r \in Journalled /\ pc[r] \in Early => journal[r] = None
        /\ r \in Journalled /\ pc[r] = "send" => journal[r] # None
        /\ r \notin Journalled /\ pc[r] = "send" => tx[r] # {}

\* A transaction anyone outside has seen was committed first.
SentOK ==
    \A r \in wire \cup mempool \cup peers \cup Mined :
        /\ tx[r] # {} /\ pc[r] \notin Early
        /\ r \in Journalled => journal[r] # None

Spent(r) == \E q \in Mined : tx[q] \cap tx[r] # {}

ChainOK ==
    /\ \A r \in mempool \cup peers : ~ Spent(r)
    /\ \A i, j \in 1..Len(blocks) : blocks[i] = blocks[j] /\ blocks[i] # None => i = j

\* The first n blocks are known not to hold r.
NotIn(r, n) == n \in Nat /\ n <= Len(blocks) /\ \A i \in 1..n : blocks[i] # r

\* A payment's record says only what is so.
Says(r, p) ==
    /\ p.status = "Confirmed" => tx[r] = {} \/ r \in Mined
    /\ p.status = "NeedsReview" /\ p.submissions < MAX_PAYOUT_SUBMISSIONS =>
          r \notin Mined /\ Spent(r)
    /\ NotIn(r, p.scanned_through)

JournalOK ==
    /\ \A r \in Journalled : journal[r] # None =>
          r \in active /\ SubjectOf[r] \in taken /\ Says(r, journal[r])
    /\ \A q, r \in Journalled :
          journal[q] # None /\ journal[r] # None /\ SubjectOf[q] = SubjectOf[r] => q = r

\* ClosedWithItsPayment, payment by payment.
EffectsOK ==
    /\ \A s \in Subject :
          /\ s \in closed => \E r \in Journalled :
                journal[r] # None /\ SubjectOf[r] = s /\ Kind[r] = "Escrow"
                /\ journal[r].status = "Confirmed"
          /\ (\A r \in Forfeit : journal[r] # None /\ SubjectOf[r] = s
                                => journal[r].status # "Confirmed")
             => earned[s] = 0
    /\ \A r \in Journalled :
          journal[r] # None /\ Kind[r] = "Escrow" /\ journal[r].status = "Confirmed" =>
             /\ SubjectOf[r] \in closed
             /\ r \in Forfeit => earned[SubjectOf[r]] = Worth[tx[r]]

\* An unresolved payment of the snapshot.
Snapped(r, p) ==
    /\ r \in Journalled /\ journal[r] # None
    /\ p \in Payment /\ p.status # "Confirmed" /\ NotIn(r, p.scanned_through)

Resolving == {"recipient", "source", "confirm", "resend", "scan"}

SweepType ==
    [at : Resolving \cup {"idle", "next"}, todo : SUBSET (Journalled \X Payment),
     cur : Journalled \cup {None}, snap : Payment \cup {None}, holds : BOOLEAN,
     scanned : Nat, again : BOOLEAN]

SweepOK ==
    /\ sweep \in SweepType
    /\ \A t \in sweep.todo : Snapped(t[1], t[2])
    /\ sweep.at \in Resolving => Snapped(cur, sweep.snap) /\ NotIn(cur, sweep.scanned)
    /\ sweep.at = "source" /\ sweep.holds => cur \in Mined
    /\ sweep.at = "confirm" => tx[cur] = {} \/ cur \in Mined
    /\ sweep.at \in {"source", "resend"} => tx[cur] # {}
    /\ sweep.at = "resend" => sweep.snap.status = "Pending"
    /\ sweep.at = "scan" => Spent(cur) \/ sweep.snap.status = "NeedsReview"

PInv == /\ TypeOK /\ LocksOK /\ BuiltOK /\ SentOK /\ ChainOK /\ JournalOK /\ InputsDisjoint
        /\ EffectsOK /\ SweepOK

-----------------------------------------------------------------------------
(* What the definitions say, element by element.                           *)

LEMMA MinedIs ==
    \A r : r \in Mined <=> r # None /\ \E i \in 1..Len(blocks) : blocks[i] = r
BY Zenon DEF Mined

LEMMA UnspentIs ==
    ASSUME NEW w
    PROVE  \A c : c \in Unspent(w) <=> c \in CoinsOf[w] /\ c \in arrived /\ \A q \in Mined : c \notin tx[q]
BY Zenon DEF Unspent

LEMMA KindsOK ==
    /\ Journalled \subseteq Request /\ Forfeit \subseteq Journalled
    /\ \A r \in Forfeit : Kind[r] = "Escrow"
    /\ \A r \in Request : SubjectOf[r] \in Subject
    /\ \A r \in Request : WalletOf[r] \in Wallet /\ CoinsOf[WalletOf[r]] \subseteq Coin
    /\ \A A \in Active : A \subseteq Request
    /\ None \notin Request /\ None \notin Payment
BY PaymentsAssumption DEF Journalled, Wallet

\* Nobody outside has seen r's transaction, and the journal has no payment of it.
Free(r) ==
    /\ r \notin wire \cup mempool \cup peers \cup Mined
    /\ r \in Journalled => journal[r] = None

LEMMA EarlyIsFree ==
    ASSUME PInv, NEW r \in Request
    PROVE  /\ pc[r] \in Early => Free(r)
           /\ r \in Journalled /\ journal[r] = None => Free(r)
BY Zenon DEF PInv, SentOK, BuiltOK, Free

\* Two transactions with a coin in common spend from one wallet.
LEMMA SameWallet ==
    ASSUME BuiltOK, NEW q \in Request, NEW r \in Request, tx[q] \cap tx[r] # {}
    PROVE  WalletOf[q] = WalletOf[r]
BY PaymentsAssumption, KindsOK DEF BuiltOK

LEMMA IdleIs == IdleSweep \in SweepType /\ IdleSweep.at = "idle" /\ IdleSweep.todo = {}
BY Zenon DEF IdleSweep, SweepType

LEMMA ResetIs ==
    ASSUME NEW s \in SweepType, NEW no \in BOOLEAN, NEW t,
           t = [s EXCEPT !.at = "next", !.cur = None, !.snap = None, !.holds = no,
                         !.scanned = 0, !.again = no]
    PROVE  t \in SweepType /\ t.at = "next" /\ t.todo = s.todo
BY ZenonT(30) DEF SweepType

-----------------------------------------------------------------------------
(* The first states.                                                       *)

LEMMA PStarts == Init => PInv
<1> SUFFICES ASSUME Init PROVE PInv
  BY Zenon
<1>0. blocks = << >> /\ Len(blocks) = 0 /\ Mined = {}
  BY DEF Init, Mined
<1>1. TypeOK
  BY PaymentsAssumption DEF Init, TypeOK
<1>2. LocksOK /\ BuiltOK
  BY KindsOK, Zenon DEF Init, LocksOK, BuiltOK, Locked
<1>3. SentOK /\ ChainOK
  BY <1>0 DEF Init, SentOK, ChainOK
<1>4. JournalOK /\ InputsDisjoint /\ EffectsOK
  BY KindsOK, Zenon DEF Init, JournalOK, InputsDisjoint, EffectsOK
<1>5. SweepOK
  BY IdleIs, Zenon DEF Init, SweepOK, Resolving
<1> QED BY <1>1, <1>2, <1>3, <1>4, <1>5, Zenon DEF PInv

-----------------------------------------------------------------------------
(* Frames: what stands when only some of the state moves.                  *)

\* Requests move, and only transactions nobody knows of change.
LEMMA OnlyFreeChange ==
    ASSUME PInv,
           UNCHANGED <<journal, taken, closed, earned, active, wire, chain>>,
           pc' \in [Request -> {"idle", "fetch", "build", "prepare", "send", "done"}],
           view' \in [Request -> SUBSET Coin], tx' \in [Request -> SUBSET Coin],
           inflight' \subseteq Coin,
           \A r \in Request : tx'[r] = tx[r] \/ Free(r),
           \A r \in Request : pc'[r] \in Early => Free(r)
    PROVE  /\ TypeOK' /\ SentOK' /\ ChainOK' /\ JournalOK' /\ InputsDisjoint' /\ EffectsOK'
           /\ UNCHANGED sweep => SweepOK'
<1>0. /\ UNCHANGED <<journal, taken, closed, earned, active, wire, arrived, mempool, peers, blocks, onward>>
      /\ Mined' = Mined /\ Mined \subseteq Request
      /\ wire \cup mempool \cup peers \subseteq Request
  BY DEF chain, Mined, PInv, TypeOK
<1>1. TypeOK'
  BY <1>0, Zenon DEF PInv, TypeOK
<1>2. \A r \in wire \cup mempool \cup peers \cup Mined : tx'[r] = tx[r] /\ pc'[r] \notin Early
  BY <1>0, Zenon DEF Free
<1>3. \A r \in Journalled : journal[r] # None => tx'[r] = tx[r]
  BY KindsOK, Zenon DEF Free
<1>4. SentOK'
  BY <1>0, <1>2, Zenon DEF PInv, SentOK
<1>5. \A r : tx'[r] = tx[r] => (Spent(r)' <=> Spent(r))
  BY <1>0, <1>2, Zenon DEF Spent
<1>6. ChainOK'
  BY <1>0, <1>2, <1>5, Zenon DEF PInv, ChainOK
<1>7. \A r \in Journalled : journal[r] # None => \A p : Says(r, p) => Says(r, p)'
  BY <1>0, <1>3, <1>5, Zenon DEF Says, NotIn
<1>8. JournalOK'
  BY <1>0, <1>7, Zenon DEF PInv, JournalOK
<1>9. InputsDisjoint'
  BY <1>0, <1>3, Zenon DEF PInv, InputsDisjoint
<1>10. EffectsOK'
  BY <1>0, <1>3 DEF PInv, EffectsOK
<1>11. ASSUME UNCHANGED sweep PROVE SweepOK'
  <2>1. \A r, p : Snapped(r, p)' <=> Snapped(r, p)
    BY <1>0, Zenon DEF Snapped, NotIn
  <2>2. sweep.at \in Resolving => cur' = cur /\ tx'[cur] = tx[cur] /\ (Spent(cur)' <=> Spent(cur))
    BY <1>3, <1>5, <1>11, Zenon DEF cur, PInv, SweepOK, Snapped
  <2>3. \A r, n : NotIn(r, n)' <=> NotIn(r, n)
    BY <1>0, Zenon DEF NotIn
  <2> QED BY <1>0, <1>11, <2>1, <2>2, <2>3, Zenon DEF PInv, SweepOK, cur, Resolving
<1> QED BY <1>1, <1>4, <1>6, <1>8, <1>9, <1>10, <1>11, Zenon

-----------------------------------------------------------------------------
(* A request, up to its commit.                                            *)

LEMMA StepTypes ==
    ASSUME PInv
    PROVE  /\ pc \in [Request -> {"idle", "fetch", "build", "prepare", "send", "done"}]
           /\ view \in [Request -> SUBSET Coin] /\ tx \in [Request -> SUBSET Coin]
           /\ inflight \subseteq Coin /\ active \subseteq Request
BY KindsOK, Zenon DEF PInv, TypeOK

LEMMA Step_Lock ==
    ASSUME PInv, NEW r \in active, Lock(r)
    PROVE  PInv'
<1>0. /\ pc[r] = "idle" /\ ~LockHeld(WalletOf[r]) /\ pc' = [pc EXCEPT ![r] = "fetch"] /\ r \in Request
      /\ UNCHANGED <<journal, taken, closed, earned, view, tx, inflight, sweep, active, wire, chain>>
      /\ UNCHANGED arrived
  BY StepTypes, Zenon DEF Lock, chain
<1>1. LocksOK'
  <2> SUFFICES ASSUME NEW p \in active, NEW q \in active, p # q, WalletOf[p] = WalletOf[q],
                      pc'[p] \in Locked, pc'[q] \in Locked
               PROVE  FALSE
    BY <1>0, StepTypes, Zenon DEF LocksOK, PInv
  <2>1. \A z \in active : WalletOf[z] = WalletOf[r] => pc[z] \notin Locked
    BY <1>0, Zenon DEF LockHeld, Locked
  <2>2. \A z \in active : z # r => pc'[z] = pc[z]
    BY <1>0, StepTypes, Zenon
  <2> QED BY <2>1, <2>2, Zenon DEF PInv, LocksOK
<1>2. BuiltOK'
  <2> SUFFICES ASSUME NEW q \in Request
               PROVE  /\ pc'[q] = "prepare" => pc[q] = "prepare"
                      /\ pc'[q] = "send" => pc[q] = "send"
                      /\ pc'[q] \in Early => pc[q] \in Early
    BY <1>0, Zenon DEF PInv, BuiltOK, Clear
  <2> QED BY <1>0, StepTypes, Zenon DEF Early
<1>3. \A q \in Request : pc'[q] \in Early => Free(q)
  BY <1>0, StepTypes, EarlyIsFree, Zenon DEF Early
<1> QED BY <1>0, <1>1, <1>2, <1>3, StepTypes, OnlyFreeChange, Zenon DEF PInv

LEMMA Step_FetchUtxos ==
    ASSUME PInv, NEW r \in active, FetchUtxos(r)
    PROVE  PInv'
<1> DEFINE seen == IF StillInFlight(r) THEN {} ELSE {c \in Unspent(WalletOf[r]) : ~Marked(c)}
           to == IF StillInFlight(r) THEN "done" ELSE "build"
<1>0. /\ pc[r] = "fetch" /\ view' = [view EXCEPT ![r] = seen] /\ pc' = [pc EXCEPT ![r] = to]
      /\ r \in Request /\ inflight' \subseteq Coin /\ to \in {"done", "build"}
      /\ UNCHANGED <<journal, taken, closed, earned, tx, sweep, active, wire, chain>>
      /\ UNCHANGED arrived
  BY StepTypes, Zenon DEF FetchUtxos, chain
<1>1. seen \subseteq CoinsOf[WalletOf[r]] \cap arrived
  BY UnspentIs, Zenon
<1> HIDE DEF seen, to
<1>2. LocksOK'
  BY <1>0, StepTypes, SMTT(30) DEF PInv, LocksOK, Locked
<1>3. BuiltOK'
  <2> SUFFICES ASSUME NEW q \in Request
               PROVE  /\ view'[q] \subseteq CoinsOf[WalletOf[q]] \cap arrived
                      /\ pc'[q] = "prepare" => pc[q] = "prepare"
                      /\ pc'[q] = "send" => pc[q] = "send"
                      /\ pc'[q] \in Early => pc[q] \in Early
    BY <1>0, Zenon DEF PInv, BuiltOK, Clear
  <2> QED BY <1>0, <1>1, StepTypes, Zenon DEF Early, Locked, PInv, BuiltOK
<1>4. \A q \in Request : pc'[q] \in Early => Free(q)
  BY <1>0, StepTypes, EarlyIsFree, Zenon DEF Early, Locked
<1>5. /\ view' \in [Request -> SUBSET Coin]
      /\ pc' \in [Request -> {"idle", "fetch", "build", "prepare", "send", "done"}]
  BY <1>0, <1>1, StepTypes, KindsOK, Zenon
<1> QED BY <1>0, <1>2, <1>3, <1>4, <1>5, StepTypes, OnlyFreeChange, Zenon DEF PInv

\* The build takes nothing an unresolved payment of the wallet rests on.
LEMMA BuildsFromFree ==
    ASSUME PInv, NEW r \in active, NEW inputs \in Affordable(r)
    PROVE  /\ inputs \subseteq view[r]
           /\ \A q \in Journalled \cap active :
                 /\ journal[q] # None /\ journal[q].status # "Confirmed"
                 /\ WalletOf[q] = WalletOf[r]
                 => tx[q] \cap inputs = {}
           /\ Kind[r] = "FanOut" => inputs # {}
<1> DEFINE free == view[r] \ Reserved(WalletOf[r])
<1>1. /\ inputs = {} \/ inputs \subseteq free
      /\ Kind[r] = "FanOut" => inputs # {}
  <2>1. CASE Kind[r] # "Escrow"
    BY <2>1, Zenon DEF Affordable
  <2>2. CASE Kind[r] = "Escrow" /\ view[r] = {}
    BY <2>2, Zenon DEF Affordable
  <2>3. CASE Kind[r] = "Escrow" /\ view[r] # {}
    BY <2>3, Zenon DEF Affordable
  <2> QED BY <2>1, <2>2, <2>3, Zenon
<1> QED BY <1>1, Zenon DEF Reserved

LEMMA Step_BuildPayment ==
    ASSUME PInv, NEW r \in active, BuildPayment(r)
    PROVE  PInv'
<1> DEFINE to == IF Kind[r] = "FanOut" THEN "send" ELSE "prepare"
<1>0. /\ pc[r] = "build" /\ view' = [view EXCEPT ![r] = {}] /\ pc' = [pc EXCEPT ![r] = to]
      /\ r \in Request /\ to \in {"send", "prepare"}
      /\ UNCHANGED <<journal, taken, closed, earned, sweep, active, wire, chain>>
      /\ UNCHANGED arrived
  BY StepTypes, Zenon DEF BuildPayment, chain
<1>1. PICK inputs \in Affordable(r) :
          /\ tx' = [tx EXCEPT ![r] = inputs]
          /\ inflight' = IF Kind[r] = "FanOut" THEN inputs ELSE inflight
  BY ZenonT(30) DEF BuildPayment
<1>2. /\ inputs \subseteq view[r]
      /\ \A q \in Journalled \cap active :
            journal[q] # None /\ journal[q].status # "Confirmed" /\ WalletOf[q] = WalletOf[r]
            => tx[q] \cap inputs = {}
      /\ Kind[r] = "FanOut" => inputs # {}
  BY <1>1, BuildsFromFree, Zenon
<1>3. inputs \subseteq CoinsOf[WalletOf[r]] \cap arrived /\ inputs \subseteq Coin
  BY <1>0, <1>2, KindsOK, Zenon DEF PInv, BuiltOK
<1>4. Free(r)
  BY <1>0, EarlyIsFree, Zenon DEF Early, Locked
<1>5. /\ r \in Journalled <=> Kind[r] # "FanOut"
      /\ r \in Journalled => to = "prepare" /\ journal[r] = None
      /\ r \notin Journalled => to = "send"
  BY <1>0, <1>4, Zenon DEF Journalled, Free
<1>6. /\ tx'[r] = inputs /\ pc'[r] = to
      /\ \A q \in Request : q # r => tx'[q] = tx[q] /\ pc'[q] = pc[q]
  BY <1>0, <1>1, StepTypes, Zenon
<1> HIDE DEF to
<1>7. LocksOK'
  BY <1>0, <1>6, StepTypes, SMTT(30) DEF PInv, LocksOK, Locked
<1>8. BuiltOK'
  <2> SUFFICES ASSUME NEW q \in Request
               PROVE  /\ view'[q] \subseteq CoinsOf[WalletOf[q]] \cap arrived
                      /\ tx'[q] \subseteq CoinsOf[WalletOf[q]] \cap arrived
                      /\ pc'[q] = "prepare" => q \in Journalled /\ Clear(q)'
                      /\ q \in Journalled /\ pc'[q] \in Early => journal[q] = None
                      /\ q \in Journalled /\ pc'[q] = "send" => journal[q] # None
                      /\ q \notin Journalled /\ pc'[q] = "send" => tx'[q] # {}
    BY <1>0, Zenon DEF BuiltOK
  <2>1. CASE q = r
    <3>1. \A p \in Journalled : journal[p] # None => p \in active /\ p # r
      BY <1>4, Zenon DEF PInv, JournalOK, Free
    <3>2. r \in Journalled => Clear(r)'
      BY <1>0, <1>2, <1>6, <3>1, KindsOK, ZenonT(30) DEF Clear
    <3> QED BY <1>0, <1>2, <1>3, <1>5, <1>6, <2>1, <3>2, StepTypes, SMTT(30) DEF PInv, BuiltOK
  <2>2. CASE q # r
    <3>1. Clear(q) => Clear(q)'
      BY <1>0, <1>4, <1>6, <2>2, KindsOK, Zenon DEF Clear, Free
    <3> QED BY <1>0, <1>6, <2>2, <3>1, StepTypes, ZenonT(30) DEF PInv, BuiltOK
  <2> QED BY <2>1, <2>2, Zenon
<1>9. \A q \in Request : /\ tx'[q] = tx[q] \/ Free(q)
                         /\ pc'[q] \in Early => Free(q)
  BY <1>4, <1>6, StepTypes, EarlyIsFree, Zenon
<1>10. /\ view' \in [Request -> SUBSET Coin] /\ tx' \in [Request -> SUBSET Coin]
       /\ pc' \in [Request -> {"idle", "fetch", "build", "prepare", "send", "done"}]
       /\ inflight' \subseteq Coin
  BY <1>0, <1>1, <1>3, StepTypes, Zenon
<1> QED BY <1>0, <1>7, <1>8, <1>9, <1>10, OnlyFreeChange, Zenon DEF PInv

LEMMA IdleOK == sweep' = IdleSweep => SweepOK'
BY IdleIs, Zenon DEF SweepOK, Resolving

\* A request that stops before its commit leaves nothing but transactions nobody knows of.
LEMMA Stops ==
    ASSUME PInv, NEW R \in SUBSET active, NEW to \in {"idle", "done"},
           UNCHANGED <<journal, taken, closed, earned, active, wire, chain>>,
           pc' \in [Request -> {"idle", "fetch", "build", "prepare", "send", "done"}],
           view' \in [Request -> SUBSET Coin], tx' \in [Request -> SUBSET Coin],
           inflight' \subseteq Coin,
           \A r \in Request : pc'[r] = IF r \in R THEN to ELSE pc[r],
           \A r \in Request : view'[r] \in {view[r], {}},
           \A r \in Request : tx'[r] = tx[r] \/ (tx'[r] = {} /\ Free(r) /\ r \in R),
           to = "idle" => \A r \in R : Free(r)
    PROVE  /\ TypeOK' /\ LocksOK' /\ BuiltOK' /\ SentOK' /\ ChainOK' /\ JournalOK'
           /\ InputsDisjoint' /\ EffectsOK' /\ (UNCHANGED sweep => SweepOK')
<1>0. UNCHANGED <<journal, active, arrived>>
  BY Zenon DEF chain
<1>1. LocksOK'
  BY <1>0, StepTypes, Zenon DEF PInv, LocksOK, Locked
<1>2. BuiltOK'
  <2> SUFFICES ASSUME NEW q \in Request
               PROVE  /\ view'[q] \subseteq CoinsOf[WalletOf[q]] \cap arrived
                      /\ tx'[q] \subseteq CoinsOf[WalletOf[q]] \cap arrived
                      /\ pc'[q] = "prepare" => q \in Journalled /\ Clear(q)'
                      /\ q \in Journalled /\ pc'[q] \in Early => journal[q] = None
                      /\ q \in Journalled /\ pc'[q] = "send" => journal[q] # None
                      /\ q \notin Journalled /\ pc'[q] = "send" => tx'[q] # {}
    BY <1>0, SMTT(30) DEF BuiltOK
  <2>1. \A p \in Journalled : journal[p] # None => tx'[p] = tx[p]
    BY KindsOK, Zenon DEF Free
  <2>2. CASE q \in R
    BY <2>2, Zenon DEF PInv, BuiltOK, Early, Locked, Free
  <2>3. CASE q \notin R
    <3>1. tx'[q] = tx[q] /\ pc'[q] = pc[q]
      BY <2>3, Zenon
    <3>2. Clear(q) => Clear(q)'
      BY <1>0, <2>1, <3>1, Zenon DEF Clear
    <3> QED BY <3>1, <3>2, Zenon DEF PInv, BuiltOK
  <2> QED BY <2>2, <2>3, Zenon
<1>3. \A r \in Request : pc'[r] \in Early => Free(r)
  BY EarlyIsFree, Zenon DEF Early, Locked
<1> QED BY <1>1, <1>2, <1>3, OnlyFreeChange, Zenon

LEMMA Step_GiveUp ==
    ASSUME PInv, NEW r \in active, GiveUp(r)
    PROVE  PInv'
<1>0. /\ r \in Request /\ pc' = [pc EXCEPT ![r] = "done"]
      /\ view' = [view EXCEPT ![r] = {}]
      /\ tx' = IF pc[r] = "prepare" THEN [tx EXCEPT ![r] = {}] ELSE tx
      /\ UNCHANGED <<journal, taken, closed, earned, inflight, sweep, active, wire, chain>>
  BY StepTypes, Zenon DEF GiveUp
<1>1. pc[r] = "prepare" => Free(r)
  BY <1>0, EarlyIsFree, Zenon DEF Early, Locked
<1>2. /\ pc' \in [Request -> {"idle", "fetch", "build", "prepare", "send", "done"}]
      /\ view' \in [Request -> SUBSET Coin] /\ tx' \in [Request -> SUBSET Coin]
  BY <1>0, StepTypes, Zenon
<1>3. \A q \in Request : /\ pc'[q] = IF q \in {r} THEN "done" ELSE pc[q]
                         /\ view'[q] \in {view[q], {}}
                         /\ tx'[q] = tx[q] \/ (tx'[q] = {} /\ Free(q) /\ q \in {r})
  BY <1>0, <1>1, StepTypes, Zenon
<1>4. {r} \in SUBSET active
  BY <1>0, Zenon
<1> QED BY <1>0, <1>2, <1>3, <1>4, StepTypes, Stops, ZenonT(30) DEF PInv

LEMMA Step_Retry ==
    ASSUME PInv, NEW r \in active, Retry(r)
    PROVE  PInv'
<1>0. /\ r \in Request /\ pc' = [pc EXCEPT ![r] = "idle"] /\ tx' = [tx EXCEPT ![r] = {}]
      /\ r \in Journalled /\ journal[r] = None
      /\ UNCHANGED <<journal, taken, closed, earned, view, inflight, sweep, active, wire, chain>>
  BY StepTypes, Zenon DEF Retry, Journalled
<1>1. Free(r)
  BY <1>0, EarlyIsFree, Zenon
<1>2. /\ pc' \in [Request -> {"idle", "fetch", "build", "prepare", "send", "done"}]
      /\ view' \in [Request -> SUBSET Coin] /\ tx' \in [Request -> SUBSET Coin]
  BY <1>0, StepTypes, Zenon
<1>3. \A q \in Request : /\ pc'[q] = IF q \in {r} THEN "idle" ELSE pc[q]
                         /\ view'[q] \in {view[q], {}}
                         /\ tx'[q] = tx[q] \/ (tx'[q] = {} /\ Free(q) /\ q \in {r})
  BY <1>0, <1>1, StepTypes, Zenon
<1>4. {r} \in SUBSET active /\ \A q \in {r} : Free(q)
  BY <1>0, <1>1, Zenon
<1> QED BY <1>0, <1>2, <1>3, <1>4, StepTypes, Stops, ZenonT(30) DEF PInv

LEMMA Step_Crash ==
    ASSUME PInv, Crash
    PROVE  PInv'
<1> DEFINE R == {r \in Request : pc[r] # "idle"}
<1>0. /\ pc' = [r \in Request |-> IF pc[r] = "idle" THEN "idle" ELSE "done"]
      /\ tx' = [r \in Request |-> IF pc[r] = "prepare" THEN {} ELSE tx[r]]
      /\ view' = [r \in Request |-> {}]
      /\ sweep' = IdleSweep /\ inflight' = {}
      /\ UNCHANGED <<journal, taken, closed, earned, active, wire, chain>>
  BY Zenon DEF Crash
<1>1. \A r \in Request : pc[r] = "prepare" => Free(r)
  BY EarlyIsFree, Zenon DEF Early, Locked
<1>2. /\ pc' \in [Request -> {"idle", "fetch", "build", "prepare", "send", "done"}]
      /\ view' \in [Request -> SUBSET Coin] /\ tx' \in [Request -> SUBSET Coin]
  BY <1>0, StepTypes, Zenon
<1>3. \A q \in Request : /\ pc'[q] = IF q \in R THEN "done" ELSE pc[q]
                         /\ view'[q] \in {view[q], {}}
                         /\ tx'[q] = tx[q] \/ (tx'[q] = {} /\ Free(q) /\ q \in R)
  BY <1>0, <1>1, StepTypes, Zenon
<1>4. R \in SUBSET active /\ inflight' \subseteq Coin
  BY <1>0, Zenon DEF PInv, LocksOK
<1>5. SweepOK'
  BY <1>0, IdleOK, Zenon
<1> HIDE DEF R
<1> QED BY <1>0, <1>2, <1>3, <1>4, <1>5, Stops, Zenon DEF PInv

-----------------------------------------------------------------------------
(* The commit.                                                             *)

LEMMA Step_Prepare ==
    ASSUME PInv, NEW r \in active, Prepare(r)
    PROVE  PInv'
<1>0. /\ r \in Request /\ pc[r] = "prepare" /\ r \in Journalled /\ Clear(r) /\ journal[r] = None
      /\ UNCHANGED <<closed, earned, view, inflight, sweep, active, wire, chain>>
      /\ UNCHANGED <<arrived, mempool, peers, blocks, onward>>
      /\ Mined' = Mined /\ Free(r) /\ SubjectOf[r] \in Subject
  BY StepTypes, EarlyIsFree, KindsOK, SMTT(30) DEF Prepare, chain, PInv, BuiltOK, Early, Locked, Mined
<1>1. CASE ~ StillOwed(r)
  <2>1. /\ pc' = [pc EXCEPT ![r] = "done"] /\ tx' = [tx EXCEPT ![r] = {}]
        /\ UNCHANGED <<journal, taken>>
    BY <1>1, Zenon DEF Prepare
  <2>2. /\ pc' \in [Request -> {"idle", "fetch", "build", "prepare", "send", "done"}]
        /\ view' \in [Request -> SUBSET Coin] /\ tx' \in [Request -> SUBSET Coin]
    BY <1>0, <2>1, StepTypes, Zenon
  <2>3. \A q \in Request : /\ pc'[q] = IF q \in {r} THEN "done" ELSE pc[q]
                           /\ view'[q] \in {view[q], {}}
                           /\ tx'[q] = tx[q] \/ (tx'[q] = {} /\ Free(q) /\ q \in {r})
    BY <1>0, <2>1, StepTypes, Zenon
  <2>4. {r} \in SUBSET active
    BY <1>0, Zenon
  <2> QED BY <1>0, <2>1, <2>2, <2>3, <2>4, StepTypes, Stops, ZenonT(30) DEF PInv
<1>2. CASE StillOwed(r)
  <2>1. /\ taken' = taken \cup {SubjectOf[r]} /\ pc' = [pc EXCEPT ![r] = "send"] /\ tx' = tx
        /\ SubjectOf[r] \notin taken
    BY <1>2, Zenon DEF Prepare, StillOwed
  <2>2. PICK height \in 0..Len(blocks) :
            journal' = [journal EXCEPT ![r] =
                [status |-> "Pending", submissions |-> 1,
                 scanned_through |-> IF height > EVIDENCE_SCAN_LOOKBACK
                                     THEN height - EVIDENCE_SCAN_LOOKBACK ELSE 0]]
    BY <1>2, Zenon DEF Prepare
  <2> DEFINE from == IF height > EVIDENCE_SCAN_LOOKBACK THEN height - EVIDENCE_SCAN_LOOKBACK ELSE 0
             new == [status |-> "Pending", submissions |-> 1, scanned_through |-> from]
  <2>3. from \in Nat /\ from <= Len(blocks) /\ Len(blocks) \in Nat
    BY PaymentsAssumption, SMTT(30) DEF PInv, TypeOK
  <2>4. new \in Payment /\ new.status = "Pending" /\ new.submissions = 1 /\ new.scanned_through = from
    BY <2>3, PaymentsAssumption DEF Payment, Status
  <2> HIDE DEF from
  <2>5. journal' = [journal EXCEPT ![r] = new]
    BY <2>2, Zenon DEF from
  <2> HIDE DEF new
  <2>6. /\ journal'[r] = new /\ new # None
        /\ \A q \in Journalled : q # r => journal'[q] = journal[q]
        /\ \A q \in Journalled : journal[q] # None => q # r /\ journal'[q] = journal[q]
        /\ journal' \in [Journalled -> Payment \cup {None}]
    BY <1>0, <2>4, <2>5, KindsOK, Zenon DEF PInv, TypeOK
  <2>7. NotIn(r, from)
    <3>1. \A i \in 1..Len(blocks) : blocks[i] # r
      BY <1>0, MinedIs, KindsOK, Zenon DEF Free
    <3> QED BY <2>3, <3>1, SMTT(30) DEF NotIn
  <2>8. TypeOK'
    BY <1>0, <2>1, <2>6, StepTypes, Zenon DEF PInv, TypeOK
  <2>9. LocksOK'
    BY <1>0, <2>1, StepTypes, ZenonT(30) DEF PInv, LocksOK, Locked
  <2>10. \A q \in Request : pc'[q] = IF q = r THEN "send" ELSE pc[q]
    BY <1>0, <2>1, StepTypes, Zenon
  <2>11. BuiltOK'
    <3> SUFFICES ASSUME NEW q \in Request
                 PROVE  /\ pc'[q] = "prepare" => q \in Journalled /\ Clear(q)'
                        /\ q \in Journalled /\ pc'[q] \in Early => journal'[q] = None
                        /\ q \in Journalled /\ pc'[q] = "send" => journal'[q] # None
                        /\ q \notin Journalled /\ pc'[q] = "send" => tx'[q] # {}
      BY <1>0, <2>1, Zenon DEF PInv, BuiltOK
    <3>1. CASE q = r
      BY <2>6, <2>10, <3>1, <1>0, Zenon DEF Early, Locked
    <3>2. CASE q # r
      <4>1. pc[q] = "prepare" => Clear(q)'
        <5> SUFFICES ASSUME pc[q] = "prepare", NEW p \in Journalled, journal'[p] # None,
                            journal'[p].status # "Confirmed", WalletOf[p] = WalletOf[q]
                     PROVE  tx[p] \cap tx[q] = {}
          BY <2>1, Zenon DEF Clear
        <5>0. q \in Journalled /\ Clear(q)
          BY ZenonT(30) DEF PInv, BuiltOK
        <5>1. CASE p # r
          BY <2>6, <5>0, <5>1, Zenon DEF Clear
        <5>2. CASE p = r
          <6>1. q \in active => FALSE
            BY <1>0, <3>2, <5>2, Zenon DEF PInv, LocksOK, Locked
          <6>2. q \in active
            BY Zenon DEF PInv, LocksOK
          <6> QED BY <6>1, <6>2, Zenon
        <5> QED BY <5>1, <5>2, Zenon
      <4> QED BY <2>1, <2>6, <2>10, <3>2, <4>1, SMTT(30) DEF PInv, BuiltOK
    <3> QED BY <3>1, <3>2, Zenon
  <2>12. SentOK'
    <3>1. \A q \in wire \cup mempool \cup peers \cup Mined : q # r
      BY <1>0, Zenon DEF Free
    <3>2. wire \cup mempool \cup peers \cup Mined \subseteq Request
      BY SMTT(30) DEF PInv, TypeOK, Mined
    <3> QED BY <1>0, <2>1, <2>6, <2>10, <3>1, <3>2, SMTT(30) DEF PInv, SentOK
  <2>13. ChainOK'
    BY <1>0, <2>1, ZenonT(30) DEF PInv, ChainOK, Spent
  <2>14. \A q, p : Says(q, p)' <=> Says(q, p)
    BY <1>0, <2>1, ZenonT(30) DEF Says, NotIn, Spent
  <2>15. JournalOK'
    <3>1. Says(r, new)
      BY <2>4, <2>7, Zenon DEF Says
    <3>2. \A q \in Journalled : journal[q] # None => SubjectOf[q] # SubjectOf[r]
      BY <2>1, Zenon DEF PInv, JournalOK
    <3> QED BY <1>0, <2>1, <2>6, <2>14, <3>1, <3>2, Zenon DEF PInv, JournalOK
  <2>16. InputsDisjoint'
    <3> SUFFICES ASSUME NEW p \in Journalled, NEW q \in Journalled, p # q,
                        journal'[p] # None, journal'[q] # None,
                        journal'[p].status # "Confirmed", journal'[q].status # "Confirmed"
                 PROVE  tx[p] \cap tx[q] = {}
      BY <2>1, Zenon DEF InputsDisjoint
    <3>1. CASE p # r /\ q # r
      BY <2>6, <3>1, Zenon DEF PInv, InputsDisjoint
    <3>2. ASSUME NEW z \in Journalled, z # r, journal'[z] # None, journal'[z].status # "Confirmed"
          PROVE  tx[z] \cap tx[r] = {}
      BY <1>0, <2>6, <3>2, SameWallet, KindsOK, ZenonT(30) DEF Clear, PInv
    <3> QED BY <3>1, <3>2, Zenon
  <2>17. EffectsOK'
    BY <1>0, <2>1, <2>4, <2>6, KindsOK, SMTT(30) DEF PInv, EffectsOK
  <2>18. SweepOK'
    <3>1. \A q, p : Snapped(q, p) => Snapped(q, p)'
      BY <1>0, <2>6, Zenon DEF Snapped, NotIn
    <3>2. \A q : (Spent(q)' <=> Spent(q)) /\ \A n : NotIn(q, n)' <=> NotIn(q, n)
      BY <1>0, <2>1, Zenon DEF Spent, NotIn
    <3> QED BY <1>0, <2>1, <3>1, <3>2, ZenonT(30) DEF PInv, SweepOK, cur, Resolving
  <2> QED BY <2>8, <2>9, <2>11, <2>12, <2>13, <2>15, <2>16, <2>17, <2>18, Zenon DEF PInv
<1> QED BY <1>1, <1>2, Zenon

-----------------------------------------------------------------------------
(* After the commit.                                                       *)

\* Records are rewritten, truthfully and never out of Confirmed; committed transactions are
\* sent; requests that have sent are done.
LEMMA Records ==
    ASSUME PInv, UNCHANGED <<taken, view, tx, inflight, active, chain>>,
           journal' \in [Journalled -> Payment \cup {None}],
           \A q \in Journalled :
               \/ journal'[q] = journal[q]
               \/ /\ journal[q] # None /\ journal'[q] \in Payment /\ Says(q, journal'[q])
                  /\ journal[q].status = "Confirmed" => journal'[q].status = "Confirmed",
           pc' \in [Request -> {"idle", "fetch", "build", "prepare", "send", "done"}],
           \A q \in Request : pc'[q] = pc[q] \/ (pc[q] = "send" /\ pc'[q] = "done"),
           \A q \in wire' :
               \/ q \in wire
               \/ /\ q \in Request /\ tx[q] # {} /\ pc'[q] \notin Early
                  /\ q \in Journalled => journal[q] # None,
           closed' \subseteq Subject, earned' \in [Subject -> Nat]
    PROVE  /\ TypeOK' /\ LocksOK' /\ BuiltOK' /\ SentOK' /\ ChainOK' /\ JournalOK'
           /\ InputsDisjoint'
           /\ \A q, p : Snapped(q, p) => Snapped(q, p)'
           /\ \A q : (Spent(q)' <=> Spent(q)) /\ \A n : NotIn(q, n)' <=> NotIn(q, n)
<1>0. UNCHANGED <<arrived, mempool, peers, blocks, onward>> /\ Mined' = Mined
  BY ZenonT(30) DEF chain, Mined
<1>1. \A q \in Journalled : /\ journal'[q] # None <=> journal[q] # None
                            /\ journal'[q] # None /\ journal'[q].status # "Confirmed"
                               => journal[q].status # "Confirmed"
  BY KindsOK, ZenonT(30)
<1>2. TypeOK'
  BY <1>0, Zenon DEF PInv, TypeOK
<1>3. LocksOK'
  BY StepTypes, SMTT(30) DEF PInv, LocksOK, Locked
<1>4. \A q \in Request : Clear(q) => Clear(q)'
  BY <1>1, Zenon DEF Clear
<1>5. BuiltOK'
  <2> SUFFICES ASSUME NEW q \in Request
               PROVE  /\ pc'[q] = "prepare" => q \in Journalled /\ Clear(q)'
                      /\ q \in Journalled /\ pc'[q] \in Early => journal'[q] = None
                      /\ q \in Journalled /\ pc'[q] = "send" => journal'[q] # None
                      /\ q \notin Journalled /\ pc'[q] = "send" => tx'[q] # {}
    BY <1>0, Zenon DEF PInv, BuiltOK
  <2>1. CASE pc'[q] = pc[q]
    BY <1>1, <1>4, <2>1, ZenonT(30) DEF PInv, BuiltOK
  <2>2. CASE pc'[q] = "done"
    BY <2>2, Zenon DEF Early, Locked
  <2> QED BY <2>1, <2>2, ZenonT(30)
<1>6. SentOK'
  <2> SUFFICES ASSUME NEW q \in wire' \cup mempool \cup peers \cup Mined
               PROVE  tx[q] # {} /\ pc'[q] \notin Early /\ (q \in Journalled => journal'[q] # None)
    BY <1>0, ZenonT(30) DEF SentOK
  <2>1. q \in Request
    BY DEF PInv, TypeOK, Mined
  <2>2. CASE q \in wire \cup mempool \cup peers \cup Mined
    BY <1>1, <2>1, <2>2, Zenon DEF PInv, SentOK, Early, Locked
  <2>3. CASE q \notin wire \cup mempool \cup peers \cup Mined
    BY <1>1, <2>3, ZenonT(30)
  <2> QED BY <2>2, <2>3, Zenon
<1>7. \A q : (Spent(q)' <=> Spent(q)) /\ \A n : NotIn(q, n)' <=> NotIn(q, n)
  BY <1>0, ZenonT(30) DEF Spent, NotIn
<1>8. ChainOK'
  BY <1>0, <1>7, ZenonT(30) DEF PInv, ChainOK
<1>9. \A q, p : Says(q, p)' <=> Says(q, p)
  BY <1>0, <1>7, ZenonT(30) DEF Says
<1>10. JournalOK'
  BY <1>1, <1>9, Zenon DEF PInv, JournalOK
<1>11. InputsDisjoint'
  BY <1>1, Zenon DEF PInv, InputsDisjoint
<1>12. \A q, p : Snapped(q, p) => Snapped(q, p)'
  BY <1>1, <1>7, ZenonT(30) DEF Snapped
<1> QED BY <1>2, <1>3, <1>5, <1>6, <1>7, <1>8, <1>10, <1>11, <1>12, ZenonT(30)

LEMMA EffectsStand ==
    ASSUME PInv, UNCHANGED <<closed, earned, tx>>,
           \A q \in Journalled :
               \/ journal'[q] = journal[q]
               \/ /\ journal[q] # None /\ journal'[q] # None
                  /\ journal[q].status # "Confirmed" /\ journal'[q].status # "Confirmed"
    PROVE  EffectsOK'
BY KindsOK DEF PInv, EffectsOK

LEMMA SweepStands ==
    ASSUME PInv, UNCHANGED <<sweep, tx>>, Mined' = Mined,
           \A q, p : Snapped(q, p) => Snapped(q, p)',
           \A q : (Spent(q)' <=> Spent(q)) /\ \A n : NotIn(q, n)' <=> NotIn(q, n)
    PROVE  SweepOK'
BY Zenon DEF PInv, SweepOK, cur, Resolving

\* A payment on the chain, or an empty one, is confirmed.
LEMMA ConfirmRecords ==
    ASSUME PInv, NEW r \in Journalled, journal[r] # None, tx[r] = {} \/ r \in Mined, Confirm(r),
           UNCHANGED tx
    PROVE  /\ journal' \in [Journalled -> Payment \cup {None}]
           /\ \A q \in Journalled :
               \/ journal'[q] = journal[q]
               \/ /\ journal[q] # None /\ journal'[q] \in Payment /\ Says(q, journal'[q])
                  /\ journal[q].status = "Confirmed" => journal'[q].status = "Confirmed"
           /\ closed' \subseteq Subject /\ earned' \in [Subject -> Nat]
           /\ EffectsOK'
<1>1. CASE journal[r].status = "Confirmed"
  <2>1. UNCHANGED <<journal, closed, earned>>
    BY <1>1, Zenon DEF Confirm
  <2> QED BY <2>1, EffectsStand, Zenon DEF PInv, TypeOK
<1>2. CASE journal[r].status # "Confirmed"
  <2> DEFINE s == SubjectOf[r]
             n == Worth[tx[r]]
             p == [journal[r] EXCEPT !.status = "Confirmed"]
  <2>0. journal \in [Journalled -> Payment \cup {None}] /\ journal[r] \in Payment /\ s \in Subject
        /\ r \in Request
    BY KindsOK, Zenon DEF PInv, TypeOK
  <2>1. /\ journal' = [journal EXCEPT ![r] = p]
        /\ closed' = IF Kind[r] = "Escrow" THEN closed \cup {s} ELSE closed
        /\ earned' = IF r \in Forfeit THEN [earned EXCEPT ![s] = @ + n] ELSE earned
    BY <1>2, <2>0, Zenon DEF Confirm
  <2>2. p \in Payment /\ p.status = "Confirmed" /\ p.scanned_through = journal[r].scanned_through
    BY <2>0, Zenon DEF Payment, Status
  <2> HIDE DEF p
  <2>3. Says(r, p)
    BY <2>2, Zenon DEF Says, PInv, JournalOK
  <2>4. n \in Nat
    BY <2>0, StepTypes, PaymentsAssumption, Zenon
  <2> HIDE DEF n
  <2>5. /\ journal'[r] = p /\ p # None
        /\ \A q \in Journalled : q # r => journal'[q] = journal[q]
        /\ journal' \in [Journalled -> Payment \cup {None}]
    BY <2>0, <2>1, <2>2, KindsOK, Zenon
  <2>6. closed' \subseteq Subject /\ earned' \in [Subject -> Nat]
    BY <2>0, <2>1, <2>4, SMTT(30) DEF PInv, TypeOK
  <2>7. \A q \in Journalled : journal[q] # None /\ SubjectOf[q] = s => q = r
    BY Zenon DEF PInv, JournalOK
  <2>8. r \in Forfeit => earned[s] = 0
    BY <1>2, <2>0, <2>7, KindsOK, SMTT(30) DEF PInv, EffectsOK
  <2>9. EffectsOK'
    <3>1. ASSUME NEW z \in Subject
          PROVE  /\ z \in closed' => \E q \in Journalled :
                      journal'[q] # None /\ SubjectOf[q] = z /\ Kind[q] = "Escrow"
                      /\ journal'[q].status = "Confirmed"
                 /\ (\A q \in Forfeit : journal'[q] # None /\ SubjectOf[q] = z
                                          => journal'[q].status # "Confirmed")
                    => earned'[z] = 0
      <4>1. z \in closed' => \E q \in Journalled :
                      journal'[q] # None /\ SubjectOf[q] = z /\ Kind[q] = "Escrow"
                      /\ journal'[q].status = "Confirmed"
        <5>1. CASE z = s
          <6>1. z \in closed => Kind[r] = "Escrow"
            BY <1>2, <2>7, <5>1, SMTT(30) DEF PInv, EffectsOK
          <6> QED BY <2>1, <2>2, <2>5, <5>1, <6>1, Zenon
        <5>2. CASE z # s
          BY <1>2, <2>1, <2>5, <5>2 DEF PInv, EffectsOK
        <5> QED BY <5>1, <5>2, Zenon
      <4>2. ASSUME \A q \in Forfeit : journal'[q] # None /\ SubjectOf[q] = z
                                        => journal'[q].status # "Confirmed"
            PROVE  earned'[z] = 0
        <5>1. CASE r \in Forfeit
          <6>1. z # s
            BY <2>2, <2>5, <4>2, <5>1, Zenon
          <6>2. \A q \in Forfeit : journal[q] # None /\ SubjectOf[q] = z
                                     => journal[q].status # "Confirmed"
            BY <2>5, <4>2, <6>1, KindsOK, Zenon
          <6> QED BY <2>1, <2>0, <5>1, <6>1, <6>2, SMTT(30) DEF PInv, EffectsOK, TypeOK
        <5>2. CASE r \notin Forfeit
          <6>1. \A q \in Forfeit : journal[q] # None /\ SubjectOf[q] = z
                                     => journal[q].status # "Confirmed"
            BY <2>5, <4>2, <5>2, KindsOK, Zenon
          <6> QED BY <2>1, <5>2, <6>1, Zenon DEF PInv, EffectsOK
        <5> QED BY <5>1, <5>2, ZenonT(30)
      <4> QED BY <4>1, <4>2, Zenon
    <3>2. ASSUME NEW q \in Journalled, journal'[q] # None, Kind[q] = "Escrow",
                 journal'[q].status = "Confirmed"
          PROVE  /\ SubjectOf[q] \in closed'
                 /\ q \in Forfeit => earned'[SubjectOf[q]] = Worth[tx[q]]
      <4>1. CASE q = r
        BY <2>0, <2>1, <2>4, <2>8, <3>2, <4>1, SMTT(30) DEF n, PInv, TypeOK
      <4>2. CASE q # r
        <5>1. journal[q] # None /\ journal[q].status = "Confirmed" /\ SubjectOf[q] # s
          BY <2>5, <2>7, <3>2, <4>2, ZenonT(30)
        <5> QED BY <2>0, <2>1, <3>2, <5>1, ZenonT(30) DEF PInv, EffectsOK, TypeOK
      <4> QED BY <4>1, <4>2, Zenon
    <3> QED BY <3>1, <3>2, ZenonT(30) DEF EffectsOK
  <2> QED BY <2>2, <2>3, <2>5, <2>6, <2>9, <1>2, Zenon
<1> QED BY <1>1, <1>2, Zenon

LEMMA Step_Send ==
    ASSUME PInv, NEW r \in active, Send(r)
    PROVE  PInv'
<1>0. /\ r \in Request /\ pc[r] = "send" /\ pc' = [pc EXCEPT ![r] = "done"]
      /\ UNCHANGED <<taken, view, tx, inflight, sweep, active, chain>>
      /\ Mined' = Mined
  BY StepTypes, ZenonT(30) DEF Send, chain, Mined
<1>1. /\ pc' \in [Request -> {"idle", "fetch", "build", "prepare", "send", "done"}]
      /\ \A q \in Request : pc'[q] = pc[q] \/ (pc[q] = "send" /\ pc'[q] = "done")
      /\ pc'[r] \notin Early
  BY <1>0, StepTypes, Zenon DEF Early, Locked
<1>2. r \in Journalled => journal[r] # None
  BY <1>0, Zenon DEF PInv, BuiltOK
<1>3. CASE tx[r] = {}
  <2>1. Confirm(r) /\ UNCHANGED wire /\ r \in Journalled
    BY <1>0, <1>3, Zenon DEF Send, PInv, BuiltOK
  <2>2. /\ journal' \in [Journalled -> Payment \cup {None}]
        /\ \A q \in Journalled :
            \/ journal'[q] = journal[q]
            \/ /\ journal[q] # None /\ journal'[q] \in Payment /\ Says(q, journal'[q])
               /\ journal[q].status = "Confirmed" => journal'[q].status = "Confirmed"
        /\ closed' \subseteq Subject /\ earned' \in [Subject -> Nat]
        /\ EffectsOK'
    BY <1>0, <1>2, <1>3, <2>1, ConfirmRecords, Zenon
  <2>3. /\ TypeOK' /\ LocksOK' /\ BuiltOK' /\ SentOK' /\ ChainOK' /\ JournalOK'
        /\ InputsDisjoint' /\ SweepOK'
    BY <1>0, <1>1, <2>1, <2>2, Records, SweepStands, ZenonT(30)
  <2> QED BY <2>2, <2>3, Zenon DEF PInv
<1>4. CASE tx[r] # {}
  <2>1. UNCHANGED <<journal, closed, earned>> /\ wire' = wire \cup {r}
    BY <1>4, Zenon DEF Send
  <2>2. /\ journal' \in [Journalled -> Payment \cup {None}]
        /\ closed' \subseteq Subject /\ earned' \in [Subject -> Nat]
    BY <2>1, Zenon DEF PInv, TypeOK
  <2>3. \A q \in wire' : \/ q \in wire
                         \/ /\ q \in Request /\ tx[q] # {} /\ pc'[q] \notin Early
                            /\ q \in Journalled => journal[q] # None
    BY <1>0, <1>1, <1>2, <1>4, <2>1, Zenon
  <2>4. EffectsOK'
    BY <1>0, <2>1, EffectsStand, Zenon
  <2>5. /\ TypeOK' /\ LocksOK' /\ BuiltOK' /\ SentOK' /\ ChainOK' /\ JournalOK'
        /\ InputsDisjoint' /\ SweepOK'
    BY <1>0, <1>1, <2>1, <2>2, <2>3, Records, SweepStands, ZenonT(30)
  <2> QED BY <2>4, <2>5, Zenon DEF PInv
<1> QED BY <1>3, <1>4, Zenon

-----------------------------------------------------------------------------
(* The sweep.                                                              *)

\* A sweep step that writes no record.
LEMMA SweepOnly ==
    ASSUME PInv, SweepOK',
           UNCHANGED <<journal, taken, closed, earned, pc, view, tx, inflight, active, wire, chain>>
    PROVE  PInv'
<1>1. UNCHANGED <<arrived, mempool, peers, blocks, onward>> /\ Mined' = Mined
  BY Zenon DEF chain, Mined
<1>2. TypeOK' /\ LocksOK' /\ BuiltOK' /\ SentOK' /\ ChainOK' /\ InputsDisjoint' /\ EffectsOK'
  BY <1>1 DEF PInv, TypeOK, LocksOK, BuiltOK, Clear, SentOK, ChainOK, Spent, InputsDisjoint, EffectsOK
<1>3. JournalOK'
  BY <1>1, ZenonT(30) DEF PInv, JournalOK, Says, NotIn, Spent
<1> QED BY <1>2, <1>3, Zenon DEF PInv

\* What is known of the payment the sweep is at.
LEMMA AtPayment ==
    ASSUME PInv, sweep.at \in Resolving
    PROVE  /\ cur \in Journalled /\ cur \in Request /\ journal[cur] # None /\ journal[cur] \in Payment
           /\ sweep.snap \in Payment /\ sweep.snap.status # "Confirmed"
           /\ NotIn(cur, sweep.snap.scanned_through) /\ NotIn(cur, sweep.scanned)
           /\ pc[cur] \notin Early
<1>1. Snapped(cur, sweep.snap) /\ NotIn(cur, sweep.scanned)
  BY ZenonT(30) DEF PInv, SweepOK
<1> QED BY <1>1, KindsOK, ZenonT(30) DEF Snapped, PInv, TypeOK, BuiltOK

\* Snapshots outlive a step that leaves the journal and the chain alone.
LEMMA SnapshotsStand ==
    ASSUME UNCHANGED <<journal, tx, chain>>
    PROVE  /\ \A q, p : Snapped(q, p)' <=> Snapped(q, p)
           /\ \A q : (Spent(q)' <=> Spent(q)) /\ \A n : NotIn(q, n)' <=> NotIn(q, n)
           /\ Mined' = Mined
BY Zenon DEF chain, Snapped, Spent, NotIn, Mined

\* The sweep moves on to its next payment.
LEMMA ResolvedOK ==
    ASSUME PInv, sweep' = Resolved, \A q, p : Snapped(q, p) => Snapped(q, p)'
    PROVE  SweepOK'
<1>1. sweep' = [sweep EXCEPT !.at = "next", !.cur = None, !.snap = None, !.holds = FALSE,
                             !.scanned = 0, !.again = FALSE]
  BY Zenon DEF Resolved
<1>2. /\ sweep' \in SweepType
      /\ sweep'.at = "next" /\ sweep'.todo = sweep.todo
  <2>1. FALSE \in BOOLEAN /\ sweep \in SweepType
    BY ZenonT(30) DEF PInv, SweepOK
  <2>2. PICK z \in BOOLEAN :
            sweep' = [sweep EXCEPT !.at = "next", !.cur = None, !.snap = None, !.holds = z,
                                   !.scanned = 0, !.again = z]
    BY <1>1, <2>1, Zenon
  <2> QED BY <2>1, <2>2, ResetIs, ZenonT(30)
<1> QED BY <1>2, ZenonT(30) DEF PInv, SweepOK, Resolving

LEMMA Step_ResolveAll ==
    ASSUME PInv, ResolveAll
    PROVE  PInv'
<1> DEFINE found == {<<r, journal[r]>> : r \in {q \in Journalled :
                        journal[q] # None /\ journal[q].status # "Confirmed"}}
<1>1. /\ sweep' = [sweep EXCEPT !.at = "next", !.todo = found]
      /\ UNCHANGED <<journal, taken, closed, earned, pc, view, tx, inflight, active, wire, chain>>
  BY Zenon DEF ResolveAll
<1>2. \A t \in found : Snapped(t[1], t[2]) /\ t \in Journalled \X Payment
  <2> SUFFICES ASSUME NEW r \in Journalled, journal[r] # None, journal[r].status # "Confirmed"
               PROVE  Snapped(r, journal[r]) /\ journal[r] \in Payment
    OBVIOUS
  <2> QED BY Zenon DEF PInv, JournalOK, Says, Snapped, TypeOK
<1> HIDE DEF found
<1>3. /\ sweep' \in SweepType
      /\ sweep'.at = "next" /\ sweep'.todo = found
  BY <1>1, <1>2, ZenonT(30) DEF PInv, SweepOK, SweepType
<1>4. SweepOK'
  BY <1>1, <1>2, <1>3, SnapshotsStand, Zenon DEF SweepOK, Resolving
<1> QED BY <1>1, <1>4, SweepOnly, Zenon

LEMMA Step_NextPayment ==
    ASSUME PInv, NextPayment
    PROVE  PInv'
<1>0. UNCHANGED <<journal, taken, closed, earned, pc, view, tx, inflight, active, wire, chain>>
  BY ZenonT(30) DEF NextPayment
<1>1. CASE sweep.todo = {}
  <2>1. SweepOK'
    BY <1>1, IdleOK, Zenon DEF NextPayment
  <2> QED BY <1>0, <2>1, SweepOnly, Zenon
<1>2. CASE sweep.todo # {}
  <2>1. PICK p \in sweep.todo :
             sweep' = [sweep EXCEPT !.at = "recipient", !.todo = @ \ {p}, !.cur = p[1],
                                    !.snap = p[2], !.scanned = p[2].scanned_through]
    BY <1>2, ZenonT(30) DEF NextPayment
  <2>2. Snapped(p[1], p[2]) /\ p[1] \in Journalled /\ p[2] \in Payment
    BY Zenon DEF PInv, SweepOK, Snapped
  <2>3. p[2].scanned_through \in Nat /\ NotIn(p[1], p[2].scanned_through)
    BY <2>2, Zenon DEF Snapped, NotIn
  <2>4. /\ sweep' \in SweepType
        /\ sweep'.at = "recipient" /\ sweep'.todo \subseteq sweep.todo
        /\ sweep'.cur = p[1] /\ sweep'.snap = p[2] /\ sweep'.scanned = p[2].scanned_through
    BY <2>1, <2>2, <2>3, ZenonT(30) DEF PInv, SweepOK, SweepType, Resolving
  <2>5. SweepOK'
    BY <1>0, <2>2, <2>3, <2>4, SnapshotsStand, ZenonT(30) DEF PInv, SweepOK, cur, Resolving
  <2> QED BY <1>0, <2>5, SweepOnly, Zenon
<1> QED BY <1>1, <1>2, Zenon

LEMMA Step_Unresolved ==
    ASSUME PInv, Unresolved
    PROVE  PInv'
BY SnapshotsStand, ResolvedOK, SweepOnly, Zenon DEF Unresolved

LEMMA Step_AskRecipient ==
    ASSUME PInv, AskRecipient
    PROVE  PInv'
<1>0. UNCHANGED <<journal, taken, closed, earned, pc, view, tx, inflight, active, wire, chain>>
  BY Zenon DEF AskRecipient
<1> DEFINE to == IF tx[cur] = {} THEN "confirm" ELSE "source"
           holding == cur \in Mined \ onward
<1>1. sweep.at \in Resolving /\ sweep' = [sweep EXCEPT !.at = to, !.holds = holding]
  BY Zenon DEF AskRecipient, Resolving
<1>2. to \in Resolving /\ holding \in BOOLEAN
  BY SMTT(30) DEF Resolving
<1>a. to = "confirm" \/ to = "source"
  BY Zenon
<1>b. (to = "confirm" => tx[cur] = {}) /\ (to = "source" => tx[cur] # {})
  BY Zenon
<1>c. holding => cur \in Mined
  BY Zenon
<1> HIDE DEF to, holding
<1>3. /\ sweep' \in SweepType
      /\ sweep'.at = to /\ sweep'.todo = sweep.todo /\ sweep'.cur = cur
      /\ sweep'.snap = sweep.snap /\ sweep'.scanned = sweep.scanned
  BY <1>1, <1>2, ZenonT(30) DEF PInv, SweepOK, SweepType, cur
<1>4. sweep'.holds <=> holding
  BY <1>1, <1>2, Zenon DEF PInv, SweepOK, SweepType
<1>5. SweepOK'
  BY <1>0, <1>1, <1>a, <1>b, <1>c, <1>3, <1>4, SnapshotsStand, Zenon DEF PInv, SweepOK, cur, Resolving
<1> QED BY <1>0, <1>5, SweepOnly, Zenon

LEMMA MovesTo ==
    ASSUME PInv, NEW to \in Resolving, sweep' = [sweep EXCEPT !.at = to]
    PROVE  /\ sweep' \in SweepType /\ sweep'.at = to /\ sweep'.todo = sweep.todo
           /\ sweep'.cur = sweep.cur /\ sweep'.snap = sweep.snap /\ sweep'.scanned = sweep.scanned
<1>1. sweep \in SweepType
  BY Zenon DEF PInv, SweepOK
<1> QED BY <1>1, Zenon DEF SweepType

\* Coins the node no longer shows were spent by a block.
LEMMA GoneIsSpent ==
    ASSUME PInv, NEW r \in Request, ~ (tx[r] \subseteq Unspent(WalletOf[r]))
    PROVE  Spent(r)
BY UnspentIs, Zenon DEF PInv, BuiltOK, Spent

LEMMA Step_AskSource ==
    ASSUME PInv, AskSource
    PROVE  PInv'
<1> DEFINE outcome == ResolveAgainst(sweep.holds, tx[cur], Unspent(WalletOf[cur]))
<1>0. /\ sweep.at = "source" /\ sweep.at \in Resolving
      /\ UNCHANGED <<journal, taken, closed, earned, pc, view, tx, inflight, active, wire, chain>>
      /\ sweep' = CASE outcome = "Confirmed" -> [sweep EXCEPT !.at = "confirm"]
                    [] outcome = "NeverLanded" /\ sweep.snap.status = "Pending" ->
                          [sweep EXCEPT !.at = "resend"]
                    [] outcome = "HeldInMempool" -> Resolved
                    [] OTHER -> [sweep EXCEPT !.at = "scan"]
  BY Zenon DEF AskSource, Resolving
<1>1. /\ cur \in Request /\ tx[cur] # {} /\ sweep.snap \in Payment
      /\ sweep.snap.status # "Confirmed"
      /\ sweep.holds => cur \in Mined
  BY <1>0, AtPayment, Zenon DEF PInv, SweepOK
<1>2. /\ outcome = "Confirmed" => cur \in Mined
      /\ outcome = "Ambiguous" => Spent(cur)
      /\ outcome \in {"Confirmed", "Ambiguous", "HeldInMempool", "NeverLanded"}
  BY <1>1, GoneIsSpent, Zenon DEF ResolveAgainst
<1>3. sweep.snap.status \in {"Pending", "NeedsReview"}
  BY <1>1, Zenon DEF Payment, Status
<1> HIDE DEF outcome
<1>4. CASE outcome = "HeldInMempool"
  <2>1. sweep' = Resolved
    BY <1>0, <1>4, Zenon
  <2> QED BY <1>0, <2>1, SnapshotsStand, ResolvedOK, SweepOnly, Zenon
<1>5. CASE outcome # "HeldInMempool"
  <2>1. PICK to \in {"confirm", "resend", "scan"} :
            /\ sweep' = [sweep EXCEPT !.at = to]
            /\ to = "confirm" => cur \in Mined
            /\ to = "resend" => sweep.snap.status = "Pending"
            /\ to = "scan" => Spent(cur) \/ sweep.snap.status = "NeedsReview"
    BY <1>0, <1>2, <1>3, <1>5, Zenon
  <2>2. to \in Resolving
    BY Zenon DEF Resolving
  <2>3. SweepOK'
    BY <1>0, <1>1, <2>1, <2>2, MovesTo, SnapshotsStand, Zenon DEF PInv, SweepOK, cur
  <2> QED BY <1>0, <2>3, SweepOnly, Zenon
<1> QED BY <1>4, <1>5, Zenon

\* The sweep writes its snapshot back, with what it has learnt, where nothing moved since.
LEMMA SnapshotWritten ==
    ASSUME PInv, sweep.at \in Resolving, Unmoved, sweep' = Resolved,
           NEW p \in Payment, journal' = [journal EXCEPT ![cur] = p],
           p.status # "Confirmed", Says(cur, p),
           UNCHANGED <<taken, closed, earned, pc, view, tx, inflight, active, chain>>,
           wire' = wire \/ (wire' = wire \cup {cur} /\ tx[cur] # {})
    PROVE  PInv'
<1>0. /\ cur \in Journalled /\ cur \in Request /\ journal[cur] # None /\ pc[cur] \notin Early
      /\ journal[cur].status # "Confirmed"
      /\ journal \in [Journalled -> Payment \cup {None}]
      /\ Mined' = Mined
  BY AtPayment, ZenonT(30) DEF Unmoved, PInv, TypeOK, chain, Mined
<1>1. /\ journal' \in [Journalled -> Payment \cup {None}] /\ journal'[cur] = p /\ p # None
      /\ \A q \in Journalled : q # cur => journal'[q] = journal[q]
  BY <1>0, KindsOK, ZenonT(30)
<1>2. EffectsOK'
  BY <1>0, <1>1, EffectsStand, Zenon
<1>3. /\ TypeOK' /\ LocksOK' /\ BuiltOK' /\ SentOK' /\ ChainOK' /\ JournalOK'
      /\ InputsDisjoint' /\ \A q, z : Snapped(q, z) => Snapped(q, z)'
  <2>1. closed' \subseteq Subject /\ earned' \in [Subject -> Nat]
    BY Zenon DEF PInv, TypeOK
  <2>2. \A q \in wire' : \/ q \in wire
                         \/ /\ q \in Request /\ tx[q] # {} /\ pc'[q] \notin Early
                            /\ q \in Journalled => journal[q] # None
    BY <1>0, Zenon
  <2> QED BY <1>0, <1>1, <2>1, <2>2, StepTypes, Records, Zenon
<1>4. SweepOK'
  BY <1>3, ResolvedOK, Zenon
<1> QED BY <1>2, <1>3, <1>4, Zenon DEF PInv

LEMMA Step_Resend ==
    ASSUME PInv, Resend
    PROVE  PInv'
<1>0. /\ sweep.at = "resend" /\ sweep.at \in Resolving /\ sweep' = Resolved
      /\ UNCHANGED <<taken, closed, earned, pc, view, tx, inflight, active, chain>>
      /\ tx[cur] # {} /\ sweep.snap.status = "Pending"
  BY Zenon DEF Resend, Resolving, PInv, SweepOK
<1>1. CASE ~Unmoved
  <2>1. UNCHANGED <<journal, wire>>
    BY <1>1, Zenon DEF Resend
  <2> QED BY <1>0, <2>1, SnapshotsStand, ResolvedOK, SweepOnly, Zenon
<1>2. CASE Unmoved /\ OutOfSubmissions(sweep.snap)
  <2> DEFINE p == [sweep.snap EXCEPT !.status = "NeedsReview"]
  <2>1. journal' = [journal EXCEPT ![cur] = p] /\ UNCHANGED wire
    BY <1>2, Zenon DEF Resend
  <2>2. /\ p \in Payment /\ p.status = "NeedsReview" /\ p.submissions = sweep.snap.submissions
        /\ p.scanned_through = sweep.snap.scanned_through
    BY <1>0, AtPayment, ZenonT(30) DEF Payment, Status
  <2> HIDE DEF p
  <2>3. ~ p.submissions < MAX_PAYOUT_SUBMISSIONS
    BY <1>0, <1>2, <2>2, AtPayment, PaymentsAssumption DEF OutOfSubmissions, Payment
  <2>4. Says(cur, p)
    BY <1>0, <2>2, <2>3, AtPayment, ZenonT(30) DEF Says
  <2> QED BY <1>0, <1>2, <2>1, <2>2, <2>4, SnapshotWritten, ZenonT(30)
<1>3. CASE Unmoved /\ ~OutOfSubmissions(sweep.snap)
  <2> DEFINE p == [sweep.snap EXCEPT !.submissions = @ + 1]
  <2>1. journal' = [journal EXCEPT ![cur] = p] /\ wire' \in {wire, wire \cup {cur}}
    BY <1>3, Zenon DEF Resend
  <2>2. /\ p \in Payment /\ p.status = sweep.snap.status
        /\ p.scanned_through = sweep.snap.scanned_through
    BY <1>0, <1>3, AtPayment, PaymentsAssumption, SMTT(30) DEF Payment, OutOfSubmissions
  <2> HIDE DEF p
  <2>3. Says(cur, p)
    BY <1>0, <2>2, AtPayment, Zenon DEF Says
  <2> QED BY <1>0, <1>3, <2>1, <2>2, <2>3, SnapshotWritten, ZenonT(30)
<1> QED BY <1>1, <1>2, <1>3, Zenon

LEMMA Step_ConfirmPayment ==
    ASSUME PInv, ConfirmPayment
    PROVE  PInv'
<1>0. /\ sweep.at = "confirm" /\ sweep.at \in Resolving /\ sweep' = Resolved /\ Confirm(cur)
      /\ UNCHANGED <<taken, pc, view, tx, inflight, active, wire, chain>>
      /\ tx[cur] = {} \/ cur \in Mined
  BY Zenon DEF ConfirmPayment, Resolving, PInv, SweepOK
<1>1. cur \in Journalled /\ journal[cur] # None
  BY <1>0, AtPayment, Zenon
<1>2. /\ journal' \in [Journalled -> Payment \cup {None}]
      /\ \A q \in Journalled :
          \/ journal'[q] = journal[q]
          \/ /\ journal[q] # None /\ journal'[q] \in Payment /\ Says(q, journal'[q])
             /\ journal[q].status = "Confirmed" => journal'[q].status = "Confirmed"
      /\ closed' \subseteq Subject /\ earned' \in [Subject -> Nat]
      /\ EffectsOK'
  BY <1>0, <1>1, ConfirmRecords, Zenon
<1>3. /\ TypeOK' /\ LocksOK' /\ BuiltOK' /\ SentOK' /\ ChainOK' /\ JournalOK'
      /\ InputsDisjoint' /\ \A q, p : Snapped(q, p) => Snapped(q, p)'
  BY <1>0, <1>2, StepTypes, Records, ZenonT(30)
<1>4. SweepOK'
  BY <1>0, <1>3, ResolvedOK, ZenonT(30)
<1> QED BY <1>2, <1>3, <1>4, ZenonT(30) DEF PInv

\* A scan that has read up to upto without the payment files it with what it was, or for
\* review once there is nothing left to read.
LEMMA Step_SaveProgress ==
    ASSUME PInv, sweep.at = "scan", sweep' = Resolved, NEW status, NEW upto,
           SaveProgress(status, upto), NotIn(cur, upto),
           \/ status = sweep.snap.status
           \/ status = "NeedsReview" /\ upto >= Len(blocks),
           UNCHANGED <<taken, closed, earned, pc, view, tx, inflight, active, wire, chain>>
    PROVE  PInv'
<1>0. /\ sweep.at \in Resolving /\ sweep.snap \in Payment /\ cur \in Request /\ cur \in Journalled
      /\ sweep.snap.status \in {"Pending", "NeedsReview"}
      /\ Spent(cur) \/ sweep.snap.status = "NeedsReview"
      /\ upto \in Nat /\ journal[cur] # None
  BY AtPayment, Zenon DEF Resolving, PInv, SweepOK, NotIn, Payment, Status
<1>1. CASE ~Unmoved
  <2>1. UNCHANGED journal
    BY <1>1, Zenon DEF SaveProgress
  <2> QED BY <1>0, <2>1, SnapshotsStand, ResolvedOK, SweepOnly, Zenon
<1>2. CASE Unmoved
  <2> DEFINE p == [sweep.snap EXCEPT !.status = status, !.scanned_through = upto]
  <2>1. journal' = [journal EXCEPT ![cur] = p]
    BY <1>2, Zenon DEF SaveProgress
  <2>2. status \in {"Pending", "NeedsReview"}
    BY <1>0, Zenon
  <2>3. /\ p \in Payment /\ p.status = status /\ p.submissions = sweep.snap.submissions
        /\ p.scanned_through = upto
    BY <1>0, <2>2, ZenonT(30) DEF Payment, Status
  <2> HIDE DEF p
  <2>4. Says(cur, p)
    <3>1. ASSUME status = "NeedsReview", p.submissions < MAX_PAYOUT_SUBMISSIONS
          PROVE  cur \notin Mined /\ Spent(cur)
      <4>1. CASE sweep.snap.status = "NeedsReview"
        <5>1. /\ journal[cur].status = "NeedsReview"
              /\ journal[cur].submissions < MAX_PAYOUT_SUBMISSIONS
          BY <1>2, <2>3, <3>1, <4>1, ZenonT(30) DEF Unmoved
        <5> QED BY <1>0, <5>1, Zenon DEF PInv, JournalOK, Says
      <4>2. CASE sweep.snap.status # "NeedsReview"
        <5>1. upto >= Len(blocks) /\ Spent(cur)
          BY <1>0, <3>1, <4>2, Zenon
        <5>2. \A i \in 1..Len(blocks) : blocks[i] # cur
          <6>1. Len(blocks) \in Nat
            BY DEF PInv, TypeOK
          <6> QED BY <1>0, <5>1, <6>1, SMTT(30) DEF NotIn
        <5> QED BY <5>1, <5>2, MinedIs, ZenonT(30)
      <4> QED BY <4>1, <4>2, Zenon
    <3> QED BY <2>2, <2>3, <3>1, Zenon DEF Says
  <2> QED BY <1>0, <1>2, <2>1, <2>2, <2>3, <2>4, SnapshotWritten, ZenonT(30)
<1> QED BY <1>1, <1>2, Zenon

LEMMA Step_ScanForEvidence ==
    ASSUME PInv, ScanForEvidence
    PROVE  PInv'
<1> DEFINE from == sweep.scanned
<1>0. /\ sweep.at = "scan" /\ sweep.at \in Resolving /\ from \in Nat /\ NotIn(cur, from)
      /\ UNCHANGED <<taken, closed, earned, pc, view, tx, inflight, active, wire, chain>>
      /\ cur \in Journalled /\ cur # None /\ sweep \in SweepType /\ Len(blocks) \in Nat
      /\ cur \in Request
  BY AtPayment, KindsOK, SMTT(30) DEF ScanForEvidence, Resolving, NotIn, PInv, SweepOK, TypeOK
<1>1. PICK read \in 0..EVIDENCE_SCAN_BLOCKS_PER_PASS :
          LET found == \E i \in (from + 1)..(from + read) : blocks[i] = cur
          IN  /\ from + read <= Len(blocks) \/ read = 0
              /\ read = 0 => from >= Len(blocks)
              /\ CASE found ->
                        sweep' = [sweep EXCEPT !.at = "confirm"] /\ UNCHANGED journal
                   [] ~found /\ AtTip(read) ->
                        SaveProgress("NeedsReview", from) /\ sweep' = Resolved
                   [] ~found /\ ~AtTip(read) /\ sweep.again ->
                        SaveProgress(sweep.snap.status, from + read) /\ sweep' = Resolved
                   [] OTHER ->
                        /\ sweep' = [sweep EXCEPT !.scanned = from + read, !.again = TRUE]
                        /\ UNCHANGED journal
  BY ZenonT(30) DEF ScanForEvidence
<1> DEFINE found == \E i \in (from + 1)..(from + read) : blocks[i] = cur
<1>2. read \in Nat
  BY PaymentsAssumption
<1>3. from + read <= Len(blocks)
  BY <1>0, <1>1, <1>2, SMTT(30) DEF NotIn
<1>4. found => cur \in Mined
  BY <1>0, <1>2, <1>3, MinedIs, SMTT(30)
<1>5. ~found => NotIn(cur, from + read)
  <2> SUFFICES ASSUME ~found, NEW i \in 1..(from + read) PROVE blocks[i] # cur
    BY <1>0, <1>2, <1>3, SMTT(30) DEF NotIn
  <2>1. CASE i <= from
    BY <1>0, <2>1, SMTT(30) DEF NotIn
  <2>2. CASE ~ i <= from
    BY <1>0, <1>2, <2>2
  <2> QED BY <2>1, <2>2, Zenon
<1> HIDE DEF found
<1>6. \/ found /\ sweep' = [sweep EXCEPT !.at = "confirm"] /\ UNCHANGED journal
      \/ ~found /\ AtTip(read) /\ SaveProgress("NeedsReview", from) /\ sweep' = Resolved
      \/ ~found /\ SaveProgress(sweep.snap.status, from + read) /\ sweep' = Resolved
      \/ /\ ~found /\ sweep' = [sweep EXCEPT !.scanned = from + read, !.again = TRUE]
         /\ UNCHANGED journal
  BY <1>1, Zenon DEF found
<1>7. CASE found /\ sweep' = [sweep EXCEPT !.at = "confirm"] /\ UNCHANGED journal
  <2>1. "confirm" \in Resolving
    BY Zenon DEF Resolving
  <2>2. SweepOK'
    BY <1>0, <1>4, <1>7, <2>1, MovesTo, SnapshotsStand, Zenon DEF PInv, SweepOK, cur
  <2> QED BY <1>0, <1>7, <2>2, SweepOnly, Zenon
<1>8. CASE ~found /\ AtTip(read) /\ SaveProgress("NeedsReview", from) /\ sweep' = Resolved
  <2>1. from >= Len(blocks)
    BY <1>1, <1>8, Zenon DEF AtTip
  <2> QED BY <1>0, <1>8, <2>1, Step_SaveProgress, Zenon
<1>9. CASE ~found /\ SaveProgress(sweep.snap.status, from + read) /\ sweep' = Resolved
  BY <1>0, <1>5, <1>9, Step_SaveProgress, Zenon
<1>10. CASE /\ ~found /\ sweep' = [sweep EXCEPT !.scanned = from + read, !.again = TRUE]
            /\ UNCHANGED journal
  <2>1. from + read \in Nat /\ TRUE \in BOOLEAN
    BY <1>0, <1>2
  <2>2. PICK z \in BOOLEAN : sweep' = [sweep EXCEPT !.scanned = from + read, !.again = z]
    BY <1>10, <2>1, Zenon
  <2>3. /\ sweep' \in SweepType /\ sweep'.at = sweep.at /\ sweep'.todo = sweep.todo
        /\ sweep'.cur = sweep.cur /\ sweep'.snap = sweep.snap /\ sweep'.scanned = from + read
    BY <1>0, <2>1, <2>2, ZenonT(30) DEF SweepType
  <2>4. SweepOK'
    BY <1>0, <1>5, <1>10, <2>3, SnapshotsStand, ZenonT(30) DEF PInv, SweepOK, cur
  <2> QED BY <1>0, <1>10, <2>4, SweepOnly, Zenon
<1> QED BY <1>6, <1>7, <1>8, <1>9, <1>10, Zenon

-----------------------------------------------------------------------------
(* The node, the chain and the payers.                                     *)

\* Coins arrive, outputs are spent onward, and transactions nobody has mined move between
\* the socket and the pools.
LEMMA PoolsMove ==
    ASSUME PInv, UNCHANGED <<hub, blocks>>, arrived \subseteq arrived', arrived' \subseteq Coin,
           wire' \cup mempool' \cup peers' \subseteq wire \cup mempool \cup peers,
           onward' \subseteq Request,
           \A r \in mempool' \cup peers' : ~ Spent(r)
    PROVE  PInv'
<1>0. /\ UNCHANGED <<journal, taken, closed, earned, pc, view, tx, inflight, sweep, active, blocks>>
      /\ Mined' = Mined
  BY Zenon DEF hub, Mined
<1>1. TypeOK' /\ LocksOK' /\ SentOK' /\ InputsDisjoint' /\ EffectsOK'
  BY <1>0 DEF PInv, TypeOK, LocksOK, SentOK, InputsDisjoint, EffectsOK
<1>2. BuiltOK'
  BY <1>0, ZenonT(30) DEF PInv, BuiltOK, Clear
<1>3. \A q : (Spent(q)' <=> Spent(q)) /\ \A n : NotIn(q, n)' <=> NotIn(q, n)
  BY <1>0, ZenonT(30) DEF Spent, NotIn
<1>4. ChainOK'
  BY <1>0, <1>3, Zenon DEF PInv, ChainOK
<1>5. JournalOK'
  BY <1>0, <1>3, ZenonT(30) DEF PInv, JournalOK, Says
<1>6. \A q, p : Snapped(q, p) => Snapped(q, p)'
  BY <1>0, <1>3, Zenon DEF Snapped
<1>7. SweepOK'
  BY <1>0, <1>3, <1>6, SweepStands, Zenon
<1> QED BY <1>1, <1>2, <1>4, <1>5, <1>7, Zenon DEF PInv

LEMMA Step_Pools ==
    ASSUME PInv, NEW r \in active,
           NodeReads(r) \/ WireLoses(r) \/ NodeForgets(r) \/ PeersForget(r) \/ RecipientSpends(r)
    PROVE  PInv'
<1>0. /\ \A q \in mempool \cup peers : ~ Spent(q)
      /\ arrived \subseteq Coin /\ onward \subseteq Request /\ r \in Request
  BY StepTypes, Zenon DEF PInv, ChainOK, TypeOK
<1>1. CASE NodeReads(r)
  <2>1. /\ UNCHANGED <<hub, arrived, blocks, onward>> /\ r \in wire /\ wire' = wire \ {r}
        /\ \/ UNCHANGED <<mempool, peers>>
           \/ /\ tx[r] \subseteq Unspent(WalletOf[r]) /\ mempool' = mempool \cup {r}
              /\ peers' \subseteq peers \cup {r}
    BY <1>1, Zenon DEF NodeReads
  <2>2. tx[r] \subseteq Unspent(WalletOf[r]) => ~ Spent(r)
    BY UnspentIs, Zenon DEF Spent
  <2> QED BY <1>0, <2>1, <2>2, PoolsMove, Zenon
<1>2. CASE WireLoses(r) \/ NodeForgets(r) \/ PeersForget(r)
  <2>1. /\ UNCHANGED <<hub, arrived, blocks, onward>>
        /\ wire' \subseteq wire /\ mempool' \subseteq mempool /\ peers' \subseteq peers
    BY <1>2, Zenon DEF WireLoses, NodeForgets, PeersForget, chain
  <2> QED BY <1>0, <2>1, PoolsMove, Zenon
<1>3. CASE RecipientSpends(r)
  <2>1. UNCHANGED <<hub, wire, arrived, mempool, peers, blocks>> /\ onward' = onward \cup {r}
    BY <1>3, Zenon DEF RecipientSpends
  <2> QED BY <1>0, <2>1, PoolsMove, Zenon
<1> QED BY <1>1, <1>2, <1>3, Zenon

LEMMA Step_CoinArrives ==
    ASSUME PInv, NEW c \in Coin, CoinArrives(c)
    PROVE  PInv'
<1>1. UNCHANGED <<hub, wire, mempool, peers, blocks, onward>> /\ arrived' = arrived \cup {c}
  BY Zenon DEF CoinArrives
<1>2. /\ \A q \in mempool \cup peers : ~ Spent(q)
      /\ arrived \subseteq Coin /\ onward \subseteq Request
  BY Zenon DEF PInv, ChainOK, TypeOK
<1> QED BY <1>1, <1>2, PoolsMove, Zenon

\* A mined transaction was not mined before, and no other transaction shares a coin with it.
LEMMA MineFacts ==
    ASSUME PInv, NEW x \in active \cup {None}, Mine(x)
    PROVE  /\ UNCHANGED <<hub, wire, arrived, onward>>
           /\ blocks' = Append(blocks, x) /\ Len(blocks') = Len(blocks) + 1 /\ Len(blocks) \in Nat
           /\ blocks'[Len(blocks) + 1] = x
           /\ \A i \in 1..Len(blocks) : blocks'[i] = blocks[i]
           /\ Mined' = Mined \cup ({x} \ {None})
           /\ mempool' \subseteq mempool /\ peers' \subseteq peers
           /\ x # None => /\ x \in Request /\ x \in mempool \cup peers /\ x \notin Mined
                          /\ tx[x] # {} /\ ~ Spent(x)
                          /\ \A r \in mempool' \cup peers' : tx[r] \cap tx[x] = {}
<1>1. /\ UNCHANGED <<hub, wire, arrived, onward>> /\ x \in mempool \cup peers \cup {None}
      /\ blocks' = Append(blocks, x)
      /\ IF x = None THEN UNCHANGED <<mempool, peers>>
         ELSE /\ mempool' = {r \in mempool : tx[r] \cap tx[x] = {}}
              /\ peers' = {r \in peers : tx[r] \cap tx[x] = {}}
  BY Zenon DEF Mine
<1>2. blocks \in Seq(Request \cup {None}) /\ x \in Request \cup {None}
  BY StepTypes, Zenon DEF PInv, TypeOK
<1>3. /\ Len(blocks') = Len(blocks) + 1 /\ Len(blocks) \in Nat
      /\ blocks'[Len(blocks) + 1] = x
      /\ \A i \in 1..Len(blocks) : blocks'[i] = blocks[i]
  BY <1>1, <1>2
<1>4. \A r : r \in Mined' <=> r \in Mined \/ (r = x /\ x # None)
  <2>1. \A r : r \in Mined' <=> r # None /\ \E i \in 1..Len(blocks') : blocks'[i] = r
    BY Zenon DEF Mined
  <2>2. \A r : (\E i \in 1..Len(blocks') : blocks'[i] = r)
                  <=> r = x \/ \E i \in 1..Len(blocks) : blocks[i] = r
    BY <1>3
  <2> QED BY <2>1, <2>2, MinedIs, Zenon
<1>5. x # None => /\ x \in Request /\ x \in mempool \cup peers /\ tx[x] # {} /\ ~ Spent(x)
  BY <1>1, <1>2, Zenon DEF PInv, SentOK, ChainOK
<1>6. x # None => x \notin Mined
  BY <1>5, Zenon DEF Spent
<1> QED BY <1>1, <1>3, <1>4, <1>5, <1>6, Zenon

LEMMA Step_Mine ==
    ASSUME PInv, NEW x \in active \cup {None}, Mine(x)
    PROVE  PInv'
<1>0. /\ UNCHANGED <<journal, taken, closed, earned, pc, view, tx, inflight, sweep, active>>
      /\ UNCHANGED <<wire, arrived, onward>>
      /\ Len(blocks') = Len(blocks) + 1 /\ Len(blocks) \in Nat
      /\ blocks'[Len(blocks) + 1] = x
      /\ \A i \in 1..Len(blocks) : blocks'[i] = blocks[i]
      /\ Mined' = Mined \cup ({x} \ {None})
      /\ mempool' \subseteq mempool /\ peers' \subseteq peers
      /\ x # None => /\ x \in Request /\ x \in mempool \cup peers /\ x \notin Mined
                     /\ tx[x] # {} /\ ~ Spent(x)
                     /\ \A r \in mempool' \cup peers' : tx[r] \cap tx[x] = {}
  BY MineFacts, Zenon DEF hub
<1>1. TypeOK'
  <2>1. blocks \in Seq(Request \cup {None}) /\ x \in Request \cup {None} /\ blocks' = Append(blocks, x)
    BY MineFacts, StepTypes, Zenon DEF PInv, TypeOK
  <2>2. blocks' \in Seq(Request \cup {None})
    BY <2>1
  <2> QED BY <1>0, <2>2, Zenon DEF PInv, TypeOK
<1>2. LocksOK' /\ BuiltOK' /\ InputsDisjoint' /\ EffectsOK'
  <2>1. /\ journal' = journal /\ closed' = closed /\ earned' = earned /\ pc' = pc /\ view' = view
        /\ tx' = tx /\ arrived' = arrived /\ active' = active
    BY <1>0, Zenon
  <2>2. LocksOK'
    BY <2>1, Zenon DEF PInv, LocksOK
  <2>3. BuiltOK'
    BY <2>1, Zenon DEF PInv, BuiltOK, Clear
  <2>4. InputsDisjoint'
    BY <2>1, Zenon DEF PInv, InputsDisjoint
  <2>5. EffectsOK'
    BY <2>1, Zenon DEF PInv, EffectsOK
  <2> QED BY <2>2, <2>3, <2>4, <2>5, Zenon
<1>3. SentOK'
  BY <1>0 DEF PInv, SentOK
<1>4. \A q : Spent(q) => Spent(q)'
  BY <1>0, Zenon DEF Spent
<1>5. \A q \in mempool' \cup peers' : ~ Spent(q)'
  BY <1>0, Zenon DEF Spent, PInv, ChainOK
<1>6. \A i, j \in 1..Len(blocks') : blocks'[i] = blocks'[j] /\ blocks'[i] # None => i = j
  <2>1. \A i \in 1..Len(blocks') : i \in 1..Len(blocks) \/ i = Len(blocks) + 1
    BY <1>0
  <2>2. x # None => \A i \in 1..Len(blocks) : blocks[i] # x
    BY <1>0, MinedIs, Zenon
  <2> QED BY <1>0, <2>1, <2>2 DEF PInv, ChainOK
<1>7. ChainOK'
  BY <1>5, <1>6, Zenon DEF ChainOK
<1>8. \A q, n : NotIn(q, n) => NotIn(q, n)'
  <2> SUFFICES ASSUME NEW q, NEW n, NotIn(q, n) PROVE NotIn(q, n)'
    BY Zenon
  <2>1. n \in Nat /\ n <= Len(blocks) /\ \A i \in 1..n : blocks[i] # q
    BY Zenon DEF NotIn
  <2>2. n <= Len(blocks') /\ \A i \in 1..n : i \in 1..Len(blocks)
    BY <1>0, <2>1
  <2> QED BY <1>0, <2>1, <2>2, Zenon DEF NotIn
<1>9. ASSUME NEW r \in Journalled, journal[r] # None
      PROVE  Says(r, journal[r])'
  <2>1. Says(r, journal[r])
    BY <1>9, Zenon DEF PInv, JournalOK
  <2>2. r \notin Mined /\ Spent(r) => r \notin Mined'
    BY <1>0, Zenon
  <2> QED BY <1>0, <1>4, <1>8, <2>1, <2>2, Zenon DEF Says
<1>10. JournalOK'
  BY <1>0, <1>9, Zenon DEF PInv, JournalOK
<1>11. \A q, p : Snapped(q, p) => Snapped(q, p)'
  BY <1>0, <1>8, Zenon DEF Snapped
<1>12. SweepOK'
  BY <1>0, <1>4, <1>8, <1>11, Zenon DEF PInv, SweepOK, cur, Resolving
<1> QED BY <1>1, <1>2, <1>3, <1>7, <1>10, <1>12, Zenon DEF PInv

-----------------------------------------------------------------------------

LEMMA PSteps == PInv /\ [Next]_vars => PInv'
<1> SUFFICES ASSUME PInv, [Next]_vars PROVE PInv'
  BY Zenon
<1>1. ASSUME NEW r \in active, RequestStep(r) PROVE PInv'
  BY <1>1, Step_Lock, Step_FetchUtxos, Step_BuildPayment, Step_Prepare, Step_Send,
     Step_GiveUp, Step_Retry, Zenon DEF RequestStep
<1>2. CASE SweepStep
  BY <1>2, Step_ResolveAll, Step_NextPayment, Step_Unresolved, Step_AskRecipient, Step_AskSource,
     Step_Resend, Step_ConfirmPayment, Step_ScanForEvidence, Zenon DEF SweepStep
<1>3. CASE Network
  BY <1>3, Step_CoinArrives, Step_Pools, Step_Mine, Zenon DEF Network
<1>4. CASE UNCHANGED vars
  <2>1. /\ UNCHANGED <<journal, taken, closed, earned, pc, view, tx, inflight, sweep, active>>
        /\ UNCHANGED <<wire, chain>>
    BY <1>4, Zenon DEF vars, hub
  <2>2. SweepOK'
    BY <2>1, SnapshotsStand, SweepStands, Zenon
  <2> QED BY <2>1, <2>2, SweepOnly, Zenon
<1> QED BY <1>1, <1>2, <1>3, <1>4, Step_Crash, Zenon DEF Next

-----------------------------------------------------------------------------

\* The journal keeps its types through every crash, and no payment is ever submitted more
\* than MAX_PAYOUT_SUBMISSIONS times (resolve's submissions bound).
THEOREM JournalTyped == Spec => []TypeOK
<1>1. PInv => TypeOK
  BY Zenon DEF PInv
<1> QED BY <1>1, PStarts, PSteps, PTL DEF Spec

\* No two unresolved payments ever rest on the same coin, whatever was forgotten, resent or
\* rebuilt after a crash (reserve_inputs and the wallet's lock).
THEOREM CoinsReservedOnce == Spec => []InputsDisjoint
<1>1. PInv => InputsDisjoint
  BY Zenon DEF PInv
<1> QED BY <1>1, PStarts, PSteps, PTL DEF Spec

\* A deposit is closed exactly with its one payment, and a forfeited bond is credited once,
\* for what was sent (confirm's single commit).
THEOREM ClosedExactly == Spec => []ClosedWithItsPayment
<1>1. PInv => ClosedWithItsPayment
  <2> SUFFICES ASSUME PInv, NEW s \in Subject
               PROVE  /\ s \in closed <=> \E r \in PaymentsFor(s) :
                             Kind[r] = "Escrow" /\ journal[r].status = "Confirmed"
                      /\ earned[s] = Worth[UNION {tx[r] : r \in {p \in PaymentsFor(s) \cap Forfeit :
                                                               journal[p].status = "Confirmed"}}]
    BY Zenon DEF ClosedWithItsPayment
  <2>1. \A r : r \in PaymentsFor(s) <=> r \in Journalled /\ journal[r] # None /\ SubjectOf[r] = s
    BY Zenon DEF PaymentsFor, PInv, JournalOK
  <2>2. s \in closed <=> \E r \in PaymentsFor(s) :
                             Kind[r] = "Escrow" /\ journal[r].status = "Confirmed"
    BY <2>1 DEF PInv, EffectsOK
  <2> DEFINE made == {p \in PaymentsFor(s) \cap Forfeit : journal[p].status = "Confirmed"}
  <2>3. CASE made = {}
    <3>1. earned[s] = 0
      BY <2>1, <2>3, KindsOK DEF PInv, EffectsOK
    <3>2. UNION {tx[r] : r \in made} = {}
      BY <2>3, Zenon
    <3> QED BY <2>2, <3>1, <3>2, PaymentsAssumption, Zenon
  <2>4. CASE made # {}
    <3>1. PICK r : r \in made
      BY <2>4, Zenon
    <3>2. made = {r}
      BY <2>1, <3>1, KindsOK DEF PInv, JournalOK
    <3>3. UNION {tx[q] : q \in made} = tx[r]
      BY <3>2, Zenon
    <3>4. earned[s] = Worth[tx[r]]
      BY <2>1, <3>1, KindsOK, Zenon DEF PInv, EffectsOK
    <3> QED BY <2>2, <3>3, <3>4, Zenon
  <2> QED BY <2>3, <2>4, Zenon
<1> QED BY <1>1, PStarts, PSteps, PTL DEF Spec

\* A payment filed for review by a scan that reached the tip is on no block, and will never
\* be: its coins went elsewhere (resolve's AbsentFromChain arm).
THEOREM ReviewsAreRight == Spec => []ReviewedIsUnmined
<1>1. PInv => ReviewedIsUnmined
  BY Zenon DEF PInv, JournalOK, Says, ReviewedIsUnmined
<1> QED BY <1>1, PStarts, PSteps, PTL DEF Spec

\* The journal is right about every payment in it, for any requests, subjects, wallets and
\* coins, and any crashes and disconnects (payments.rs).
THEOREM JournalIsSound == Spec => []JournalSound
<1>1. TypeOK /\ InputsDisjoint /\ ClosedWithItsPayment /\ ReviewedIsUnmined => JournalSound
  BY Zenon DEF JournalSound
<1> QED BY <1>1, JournalTyped, CoinsReservedOnce, ClosedExactly, ReviewsAreRight, PTL

-----------------------------------------------------------------------------
(* The journal implements Promise.                                         *)

Paid == \E r \in Mined : PaymentOf(r, Watched)
Reported == \E r \in active : PaymentOf(r, Watched) /\ journal[r].status = "Confirmed"
Void == \E r \in active : PaymentOf(r, Watched) /\ journal[r].status = "Confirmed" /\ tx[r] = {}

\* The refinement mapping, without counting.
Mapped ==
    /\ standing(Watched) = IF Watched \notin taken THEN "free"
                     ELSE IF Reported THEN IF Void THEN "void" ELSE "reported" ELSE "reserved"
    /\ minedFor(Watched) = IF Paid THEN 1 ELSE 0

LEMMA PMapped == PInv => Mapped
<1> SUFFICES ASSUME PInv PROVE Mapped
  BY Zenon
<1> DEFINE at == {i \in 1..Len(blocks) : blocks[i] # None /\ PaymentOf(blocks[i], Watched)}
<1>1. \A i, j \in at : i = j
  BY DEF PInv, ChainOK, JournalOK, PaymentOf
<1>2. at = {} <=> ~ Paid
  BY MinedIs, Zenon DEF Paid
<1>3. minedFor(Watched) = IF at = {} THEN 0 ELSE IF \A i, j \in at : i = j THEN 1 ELSE 2
  BY Zenon DEF minedFor
<1> HIDE DEF at
<1>4. minedFor(Watched) = IF Paid THEN 1 ELSE 0
  BY <1>1, <1>2, <1>3, ZenonT(30)
<1> QED BY <1>4, Zenon DEF Mapped, standing, Reported, Void

\* A subject has at most one payment, and a confirmed one was mined or had nothing to send.
LEMMA PromiseFacts ==
    ASSUME PInv
    PROVE  /\ Watched \in Subject
           /\ \A q, r : PaymentOf(q, Watched) /\ PaymentOf(r, Watched) => q = r
           /\ \A r : PaymentOf(r, Watched) =>
                 /\ r \in active /\ r \in Request /\ Watched \in taken
                 /\ journal[r].status = "Confirmed" => tx[r] = {} \/ r \in Mined
           /\ \A r \in Mined : tx[r] # {}
BY PaymentsAssumption, KindsOK DEF PInv, JournalOK, PaymentOf, Says, SentOK

\* A step that commits nothing and mines nothing is no step of the promise.
LEMMA Quiet ==
    ASSUME PInv, Mapped, Mapped', UNCHANGED <<taken, active, blocks>>,
           \A r \in Journalled :
              /\ journal'[r] = None <=> journal[r] = None
              /\ journal[r] # None =>
                    /\ journal'[r].status = "Confirmed" <=> journal[r].status = "Confirmed"
                    /\ tx'[r] = tx[r]
    PROVE  UNCHANGED <<standing(Watched), minedFor(Watched)>>
<1>1. Mined' = Mined
  BY Zenon DEF Mined
<1>2. /\ \A r : PaymentOf(r, Watched)' <=> PaymentOf(r, Watched)
      /\ \A r : PaymentOf(r, Watched) =>
            /\ journal'[r].status = "Confirmed" <=> journal[r].status = "Confirmed"
            /\ tx'[r] = tx[r]
  BY Zenon DEF PaymentOf
<1>3. (Paid' <=> Paid) /\ (Reported' <=> Reported) /\ (Void' <=> Void)
  BY <1>1, <1>2, Zenon DEF Paid, Reported, Void
<1> QED BY <1>3, Zenon DEF Mapped

LEMMA PromiseAtPrepare ==
    ASSUME PInv, Mapped, Mapped', NEW r \in active, Prepare(r)
    PROVE  [Promised!PNext]_(Promised!pvars)
<1>0. /\ pc[r] = "prepare" /\ r \in Request /\ r \in Journalled /\ Free(r)
      /\ UNCHANGED <<active, blocks>> /\ journal \in [Journalled -> Payment \cup {None}]
  BY StepTypes, EarlyIsFree, Zenon DEF Prepare, PInv, BuiltOK, TypeOK, chain, Early, Locked
<1>1. CASE ~ StillOwed(r)
  <2>1. UNCHANGED <<journal, taken>> /\ tx' = [tx EXCEPT ![r] = {}] /\ journal[r] = None
    BY <1>0, <1>1, Zenon DEF Prepare, Free
  <2>2. \A q \in Journalled : journal[q] # None => tx'[q] = tx[q]
    BY <2>1, KindsOK, Zenon DEF PInv, TypeOK
  <2> QED BY <1>0, <2>1, <2>2, Quiet, Zenon DEF Promised!pvars
<1>2. CASE StillOwed(r)
  <2>1. PICK p : /\ journal' = [journal EXCEPT ![r] = p] /\ p # None /\ p.status = "Pending"
    <3>1. PICK h \in Nat : journal' = [journal EXCEPT ![r] = [status |-> "Pending", submissions |-> 1,
                                                      scanned_through |-> h]]
      <4>1. PICK h \in 0..Len(blocks) : journal' = [journal EXCEPT ![r] =
               [status |-> "Pending", submissions |-> 1,
                scanned_through |-> IF h > EVIDENCE_SCAN_LOOKBACK THEN h - EVIDENCE_SCAN_LOOKBACK ELSE 0]]
        BY <1>2, Zenon DEF Prepare
      <4>2. (IF h > EVIDENCE_SCAN_LOOKBACK THEN h - EVIDENCE_SCAN_LOOKBACK ELSE 0) \in Nat
        BY PaymentsAssumption
      <4> QED BY <4>1, <4>2, Zenon
    <3> DEFINE new == [status |-> "Pending", submissions |-> 1, scanned_through |-> h]
    <3>2. new \in Payment
      BY PaymentsAssumption DEF Payment, Status
    <3>3. new # None /\ new.status = "Pending"
      BY <3>2, KindsOK, Zenon
    <3>4. journal' = [journal EXCEPT ![r] = new]
      BY <3>1, Zenon
    <3> HIDE DEF new
    <3> QED BY <3>3, <3>4, Zenon
  <2>2. taken' = taken \cup {SubjectOf[r]} /\ SubjectOf[r] \notin taken /\ tx' = tx
    BY <1>2, Zenon DEF Prepare, StillOwed
  <2>3. Mined' = Mined /\ r \notin Mined
    BY <1>0, Zenon DEF Mined, Free
  <2>4. \A q \in Journalled : q # r => journal'[q] = journal[q]
    BY <1>0, <2>1, Zenon
  <2>5. journal'[r] = p
    BY <1>0, <2>1, Zenon
  <2>6. CASE SubjectOf[r] = Watched
    <3>1. \A q : ~ PaymentOf(q, Watched)
      BY <2>2, <2>6, PromiseFacts, Zenon
    <3>2. \A q : PaymentOf(q, Watched)' <=> q = r
      BY <1>0, <2>1, <2>4, <2>5, <2>6, <3>1, Zenon DEF PaymentOf
    <3>3. ~ Paid /\ ~ Paid' /\ ~ Reported'
      BY <2>1, <2>3, <2>5, <3>1, <3>2, Zenon DEF Paid, Reported
    <3>4. Promised!Reserve
      BY <2>2, <2>6, <3>3, Zenon DEF Mapped, Promised!Reserve
    <3> QED BY <3>4, Zenon DEF Promised!PNext
  <2>7. CASE SubjectOf[r] # Watched
    <3>1. \A q : PaymentOf(q, Watched)' <=> PaymentOf(q, Watched)
      BY <2>4, <2>7, Zenon DEF PaymentOf
    <3>2. \A q : PaymentOf(q, Watched) => journal'[q] = journal[q]
      BY <2>4, <2>7, Zenon DEF PaymentOf
    <3>3. (Paid' <=> Paid) /\ (Reported' <=> Reported) /\ (Void' <=> Void)
          /\ (Watched \in taken' <=> Watched \in taken)
      BY <1>0, <2>2, <2>3, <2>7, <3>1, <3>2, Zenon DEF Paid, Reported, Void
    <3> QED BY <3>3 DEF Mapped, Promised!pvars
  <2> QED BY <2>6, <2>7, Zenon
<1> QED BY <1>1, <1>2, Zenon

\* The commit of a payment that was made, or that had nothing to send.
LEMMA PromiseAtConfirm ==
    ASSUME PInv, Mapped, Mapped', NEW r \in Journalled, journal[r] # None, Confirm(r),
           tx[r] = {} \/ r \in Mined, UNCHANGED <<taken, active, blocks, tx>>
    PROVE  [Promised!PNext]_(Promised!pvars)
<1>0. journal \in [Journalled -> Payment \cup {None}] /\ None \notin Payment /\ Mined' = Mined
  BY KindsOK DEF PInv, TypeOK, Mined
<1>1. CASE journal[r].status = "Confirmed"
  <2>1. UNCHANGED journal
    BY <1>1, Zenon DEF Confirm
  <2> QED BY <2>1, Quiet, Zenon DEF Promised!pvars
<1>2. CASE journal[r].status # "Confirmed"
  <2>1. journal' = [journal EXCEPT ![r].status = "Confirmed"]
    BY <1>2, Zenon DEF Confirm
  <2>2. /\ \A q \in Journalled : q # r => journal'[q] = journal[q]
        /\ journal'[r] \in Payment /\ journal'[r] # None /\ journal'[r].status = "Confirmed"
    BY <1>0, <2>1, Zenon DEF Payment, Status
  <2>3. CASE SubjectOf[r] = Watched
    <3>1. \A q : (PaymentOf(q, Watched) <=> q = r) /\ (PaymentOf(q, Watched)' <=> q = r)
      BY <2>2, <2>3, PromiseFacts, Zenon DEF PaymentOf
    <3>2. ~ Reported /\ Reported' /\ (Void' <=> tx[r] = {}) /\ (Paid <=> r \in Mined) /\ (Paid' <=> Paid)
      BY <1>0, <1>2, <2>2, <3>1, PromiseFacts, Zenon DEF Reported, Void, Paid
    <3>3. Watched \in taken /\ (r \in Mined => tx[r] # {})
      BY <3>1, PromiseFacts, Zenon
    <3>4. Promised!Report \/ Promised!Close
      BY <3>2, <3>3, Zenon DEF Mapped, Promised!Report, Promised!Close
    <3> QED BY <3>4, Zenon DEF Promised!PNext
  <2>4. CASE SubjectOf[r] # Watched
    <3>1. \A q : /\ PaymentOf(q, Watched)' <=> PaymentOf(q, Watched)
                 /\ PaymentOf(q, Watched) => journal'[q] = journal[q]
      BY <2>2, <2>4, Zenon DEF PaymentOf
    <3>2. (Paid' <=> Paid) /\ (Reported' <=> Reported) /\ (Void' <=> Void)
      BY <1>0, <3>1, Zenon DEF Paid, Reported, Void
    <3> QED BY <3>2 DEF Mapped, Promised!pvars
  <2> QED BY <2>3, <2>4, Zenon
<1> QED BY <1>1, <1>2, Zenon

LEMMA PromiseAtMine ==
    ASSUME PInv, Mapped, Mapped', NEW x \in active \cup {None}, Mine(x)
    PROVE  [Promised!PNext]_(Promised!pvars)
<1>0. /\ UNCHANGED <<journal, taken, tx, active>> /\ Mined' = Mined \cup ({x} \ {None})
      /\ x # None => x \notin Mined /\ tx[x] # {}
  BY MineFacts, Zenon DEF hub
<1>1. \A q : PaymentOf(q, Watched)' <=> PaymentOf(q, Watched)
  BY <1>0, Zenon DEF PaymentOf
<1>2. (Reported' <=> Reported) /\ (Void' <=> Void)
  BY <1>0, <1>1, Zenon DEF Reported, Void
<1>3. CASE x # None /\ PaymentOf(x, Watched)
  <2>1. ~ Paid /\ Paid' /\ ~ Reported /\ Watched \in taken
    BY <1>0, <1>1, <1>3, PromiseFacts, Zenon DEF Paid, Reported
  <2>2. Promised!Pay
    BY <1>0, <1>2, <2>1, Zenon DEF Mapped, Promised!Pay
  <2> QED BY <2>2, Zenon DEF Promised!PNext
<1>4. CASE ~ (x # None /\ PaymentOf(x, Watched))
  <2>1. Paid' <=> Paid
    BY <1>0, <1>1, <1>4, Zenon DEF Paid
  <2> QED BY <1>0, <1>2, <2>1 DEF Mapped, Promised!pvars
<1> QED BY <1>3, <1>4, Zenon

\* Every step of the journal and of the network around it is a step of the promise, or none.
LEMMA PromiseSteps == PInv /\ Mapped /\ Mapped' /\ [Next]_vars => [Promised!PNext]_(Promised!pvars)
<1> SUFFICES ASSUME PInv, Mapped, Mapped', [Next]_vars
             PROVE  [Promised!PNext]_(Promised!pvars)
  BY Zenon
<1>0. ASSUME UNCHANGED <<taken, active, blocks, tx, journal>>
      PROVE  [Promised!PNext]_(Promised!pvars)
  BY <1>0, Quiet, Zenon DEF Promised!pvars
<1>1. ASSUME UNCHANGED <<taken, active, blocks, journal>>,
             \A q \in Journalled : journal[q] # None => tx'[q] = tx[q]
      PROVE  [Promised!PNext]_(Promised!pvars)
  BY <1>1, Quiet, Zenon DEF Promised!pvars
<1>2. ASSUME NEW r \in active, RequestStep(r)
      PROVE  [Promised!PNext]_(Promised!pvars)
  <2>0. r \in Request /\ tx \in [Request -> SUBSET Coin] /\ Journalled \subseteq Request
    BY StepTypes, KindsOK, Zenon DEF PInv, TypeOK
  <2>1. CASE Lock(r) \/ FetchUtxos(r)
    BY <1>0, <2>1, Zenon DEF Lock, FetchUtxos, chain
  <2>2. CASE BuildPayment(r)
    <3>1. /\ r \in Journalled => journal[r] = None
          /\ UNCHANGED <<taken, active, blocks, journal>>
          /\ \E inputs : tx' = [tx EXCEPT ![r] = inputs]
      BY <2>0, <2>2, EarlyIsFree, Zenon DEF BuildPayment, chain, Free, Early, Locked
    <3> QED BY <1>1, <2>0, <3>1, Zenon
  <2>3. CASE Prepare(r)
    BY <2>3, PromiseAtPrepare, Zenon
  <2>4. CASE Send(r)
    <3>1. /\ pc[r] = "send" /\ UNCHANGED <<taken, tx, active, blocks>>
          /\ IF tx[r] = {} THEN Confirm(r) ELSE UNCHANGED journal
      BY <2>4, Zenon DEF Send, chain
    <3>2. tx[r] = {} => r \in Journalled /\ journal[r] # None
      BY <2>0, <3>1, Zenon DEF PInv, BuiltOK
    <3> QED BY <1>0, <3>1, <3>2, PromiseAtConfirm, Zenon
  <2>5. CASE GiveUp(r)
    <3>1. /\ pc[r] = "prepare" /\ r \in Journalled => journal[r] = None
          /\ UNCHANGED <<taken, active, blocks, journal>>
          /\ tx' = IF pc[r] = "prepare" THEN [tx EXCEPT ![r] = {}] ELSE tx
      BY <2>0, <2>5, EarlyIsFree, Zenon DEF GiveUp, chain, Free, Early, Locked
    <3> QED BY <1>1, <2>0, <3>1, Zenon
  <2>6. CASE Retry(r)
    <3>1. /\ journal[r] = None /\ UNCHANGED <<taken, active, blocks, journal>>
          /\ tx' = [tx EXCEPT ![r] = {}]
      BY <2>6, Zenon DEF Retry, chain
    <3> QED BY <1>1, <2>0, <3>1, Zenon
  <2> QED BY <1>2, <2>1, <2>2, <2>3, <2>4, <2>5, <2>6, Zenon DEF RequestStep
<1>3. CASE SweepStep
  <2>1. CASE ResolveAll \/ NextPayment \/ Unresolved \/ AskRecipient \/ AskSource
    BY <1>0, <2>1, Zenon DEF ResolveAll, NextPayment, Unresolved, AskRecipient, AskSource, chain
  <2>2. CASE ConfirmPayment
    <3>1. /\ Confirm(cur) /\ sweep.at \in Resolving /\ UNCHANGED <<taken, tx, active, blocks>>
          /\ tx[cur] = {} \/ cur \in Mined
      BY <2>2, Zenon DEF ConfirmPayment, chain, Resolving, PInv, SweepOK
    <3> QED BY <3>1, AtPayment, PromiseAtConfirm, Zenon
  <2>3. ASSUME sweep.at \in Resolving, Unmoved, UNCHANGED <<taken, tx, active, blocks>>,
               NEW p \in Payment, p.status # "Confirmed", journal' = [journal EXCEPT ![cur] = p]
        PROVE  [Promised!PNext]_(Promised!pvars)
    <3>1. /\ cur \in Journalled /\ journal[cur] # None /\ journal[cur].status # "Confirmed"
          /\ journal \in [Journalled -> Payment \cup {None}] /\ p # None
      BY <2>3, AtPayment, KindsOK, Zenon DEF Unmoved, PInv, TypeOK
    <3>2. /\ journal'[cur] = p
          /\ \A q \in Journalled : q # cur => journal'[q] = journal[q]
      BY <2>3, <3>1, Zenon
    <3> QED BY <2>3, <3>1, <3>2, Quiet, Zenon DEF Promised!pvars
  <2>4. CASE Resend
    <3>1. /\ sweep.at \in Resolving /\ UNCHANGED <<taken, tx, active, blocks>>
          /\ sweep.snap.status = "Pending"
      BY <2>4, Zenon DEF Resend, chain, Resolving, PInv, SweepOK
    <3>2. sweep.snap \in Payment
      BY <3>1, AtPayment, Zenon
    <3>3. CASE ~ Unmoved
      BY <1>0, <2>4, <3>1, <3>3, Zenon DEF Resend
    <3>4. CASE Unmoved /\ OutOfSubmissions(sweep.snap)
      <4> DEFINE new == [sweep.snap EXCEPT !.status = "NeedsReview"]
      <4>1. new \in Payment /\ new.status # "Confirmed"
        BY <3>2, Zenon DEF Payment, Status
      <4>2. journal' = [journal EXCEPT ![cur] = new]
        BY <2>4, <3>4, Zenon DEF Resend
      <4> HIDE DEF new
      <4> QED BY <2>3, <3>1, <3>4, <4>1, <4>2, Zenon
    <3>5. CASE Unmoved /\ ~ OutOfSubmissions(sweep.snap)
      <4> DEFINE new == [sweep.snap EXCEPT !.submissions = @ + 1]
      <4>1. new \in Payment /\ new.status # "Confirmed"
        BY <3>1, <3>2, <3>5, PaymentsAssumption DEF Payment, Status, OutOfSubmissions
      <4>2. journal' = [journal EXCEPT ![cur] = new]
        BY <2>4, <3>5, Zenon DEF Resend
      <4> HIDE DEF new
      <4> QED BY <2>3, <3>1, <3>5, <4>1, <4>2, Zenon
    <3> QED BY <3>3, <3>4, <3>5, Zenon
  <2>5. CASE ScanForEvidence
    <3>1. /\ sweep.at \in Resolving /\ UNCHANGED <<taken, tx, active, blocks>>
      BY <2>5, Zenon DEF ScanForEvidence, chain, Resolving
    <3>2. sweep.snap \in Payment /\ sweep.snap.status # "Confirmed" /\ sweep.scanned \in Nat
      BY <3>1, AtPayment, Zenon DEF NotIn
    <3>3. ASSUME NEW status, NEW upto, SaveProgress(status, upto), upto \in Nat,
                 status \in {"NeedsReview", sweep.snap.status}
          PROVE  [Promised!PNext]_(Promised!pvars)
      <4>1. CASE ~ Unmoved
        BY <1>0, <3>1, <3>3, <4>1, Zenon DEF SaveProgress
      <4>2. CASE Unmoved
        <5> DEFINE new == [sweep.snap EXCEPT !.status = status, !.scanned_through = upto]
        <5>1. new \in Payment /\ new.status # "Confirmed"
          BY <3>2, <3>3, Zenon DEF Payment, Status
        <5>2. journal' = [journal EXCEPT ![cur] = new]
          BY <3>3, <4>2, Zenon DEF SaveProgress
        <5> HIDE DEF new
        <5> QED BY <2>3, <3>1, <4>2, <5>1, <5>2, Zenon
      <4> QED BY <4>1, <4>2, Zenon
    <3>4. PICK read \in 0..EVIDENCE_SCAN_BLOCKS_PER_PASS :
             \/ UNCHANGED journal
             \/ SaveProgress("NeedsReview", sweep.scanned)
             \/ SaveProgress(sweep.snap.status, sweep.scanned + read)
      BY <2>5, Zenon DEF ScanForEvidence
    <3>5. sweep.scanned + read \in Nat
      BY <3>2, PaymentsAssumption
    <3> QED BY <1>0, <3>1, <3>2, <3>3, <3>4, <3>5, Zenon
  <2> QED BY <1>3, <2>1, <2>2, <2>4, <2>5, Zenon DEF SweepStep
<1>4. CASE Crash
  <2>1. \A q \in Journalled : journal[q] # None => pc[q] # "prepare" /\ q \in Request
    BY KindsOK, Zenon DEF PInv, BuiltOK, Early, Locked
  <2>2. /\ UNCHANGED <<taken, active, blocks, journal>>
        /\ tx' = [r \in Request |-> IF pc[r] = "prepare" THEN {} ELSE tx[r]]
    BY <1>4, Zenon DEF Crash, chain
  <2> QED BY <1>1, <2>1, <2>2, Zenon
<1>5. CASE Network
  <2>1. CASE \E x \in active \cup {None} : Mine(x)
    BY <2>1, PromiseAtMine, Zenon
  <2>2. CASE ~ \E x \in active \cup {None} : Mine(x)
    <3>1. UNCHANGED <<hub, blocks>>
      BY <1>5, <2>2, Zenon DEF Network, CoinArrives, NodeReads, WireLoses, NodeForgets, PeersForget,
                        RecipientSpends, chain
    <3> QED BY <1>0, <3>1, Zenon DEF hub
  <2> QED BY <2>1, <2>2, Zenon
<1>6. CASE UNCHANGED vars
  BY <1>0, <1>6, Zenon DEF vars, hub, chain
<1> QED BY <1>2, <1>3, <1>4, <1>5, <1>6, Zenon DEF Next

\* For each thing the hub may pay for, its journal keeps the promise: the money is set aside
\* before anything is sent, leaves at most once, and is reported as paid only when it was
\* (prepare, send, resolve and confirm of payments.rs).
THEOREM PromiseKept == Spec => KeepsPromise
<1>1. Init => Promised!PInit
  <2> SUFFICES ASSUME Init PROVE Promised!PInit
    BY Zenon
  <2>1. Mapped
    BY PStarts, PMapped, Zenon
  <2>2. Watched \notin taken /\ ~ Paid
    BY MinedIs DEF Init, Paid
  <2> QED BY <2>1, <2>2, Zenon DEF Mapped, Promised!PInit
<1>2. PInv /\ PInv' => Mapped /\ Mapped'
  BY PMapped, PTL
<1> QED BY <1>1, <1>2, PStarts, PSteps, PromiseSteps, PTL DEF Spec, KeepsPromise, Promised!PSpec
=============================================================================
