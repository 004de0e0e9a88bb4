-------------------------- MODULE KeyHolderProofs --------------------------
(***************************************************************************)
(* What is proved of those who hold keys: `wallet pay` (HandPayment), the  *)
(* spends of an agent's own coins (Spending), and the files and secrets of *)
(* a hub installation (Boot).                                              *)
(***************************************************************************)
EXTENDS HandPayment, Spending, Boot, FiniteSetTheorems, TLAPS

----------------------------------------------------------------------------
(* `wallet pay`.  A payment made by hand belongs to the current run, which *)
(* has not said yet that nothing was paid, or to a run whose node died     *)
(* inside the reject window.                                               *)

ByTheCommand == {t \in memory \union onChain : t.by = "hand"}

\* The payments the command answers for.
Unexplained == {t \in ByTheCommand : t.n \notin diedAfter}

\* The command may have paid in this run.
MayHavePaid ==
    \/ cmd.at = "window" /\ ~ closed
    \/ cmd.at = "watch"
    \/ cmd.at = "idle" /\ cmd.said \in {"PAID", "unmined", "error"}

HandInv ==
    /\ runs \in Nat /\ diedAfter \subseteq 0 .. runs /\ closed \in BOOLEAN
    /\ cmd = [at |-> cmd.at, coin |-> cmd.coin, said |-> cmd.said]
    /\ \A t \in Unexplained : t.n = runs /\ MayHavePaid
    /\ \A s, t \in Unexplained : s = t
    /\ cmd.at \in {"fetch", "prompt", "send"} => runs \notin diedAfter

LEMMA HandStarts == HandPaymentInit => HandInv
<1> SUFFICES ASSUME HandPaymentInit PROVE HandInv
  BY Zenon
<1>1. cmd = [at |-> cmd.at, coin |-> cmd.coin, said |-> cmd.said] /\ cmd.at = "idle"
  BY Zenon DEF HandPaymentInit
<1>2. Unexplained = {} /\ closed \in BOOLEAN
  BY Zenon DEF HandPaymentInit, Unexplained, ByTheCommand
<1>3. runs \in Nat /\ diedAfter \subseteq 0 .. runs
  BY Zenon DEF HandPaymentInit
<1> QED BY <1>1, <1>2, <1>3, Zenon DEF HandInv

\* A step that pays nothing and explains nothing more.
LEMMA HandUntouched ==
    ASSUME HandInv, UNCHANGED diedAfter, ByTheCommand' \subseteq ByTheCommand,
           runs' = runs, closed' \in BOOLEAN,
           cmd' = [at |-> cmd'.at, coin |-> cmd'.coin, said |-> cmd'.said],
           MayHavePaid => MayHavePaid',
           cmd'.at \in {"fetch", "prompt", "send"} => cmd.at \in {"fetch", "prompt", "send"}
    PROVE  HandInv'
<1>1. Unexplained' \subseteq Unexplained
  BY Zenon DEF Unexplained
<1>2. \A t \in Unexplained' : t.n = runs' /\ MayHavePaid'
  BY <1>1, Zenon DEF HandInv
<1> QED BY <1>1, <1>2, Zenon DEF HandInv

\* What the command says, or where it goes next, makes a record of the same shape.
LEMMA HandSays ==
    ASSUME HandInv
    PROVE  /\ \A what : Say(what) =>
                /\ cmd' = [at |-> cmd'.at, coin |-> cmd'.coin, said |-> cmd'.said]
                /\ cmd'.at = "idle" /\ cmd'.said = what
           /\ \A at : cmd' = [cmd EXCEPT !.at = at] =>
                /\ cmd' = [at |-> cmd'.at, coin |-> cmd'.coin, said |-> cmd'.said]
                /\ cmd'.at = at /\ cmd'.said = cmd.said
           /\ \A at, c : cmd' = [cmd EXCEPT !.at = at, !.coin = c] =>
                /\ cmd' = [at |-> cmd'.at, coin |-> cmd'.coin, said |-> cmd'.said]
                /\ cmd'.at = at /\ cmd'.said = cmd.said
<1>0. PICK a, c, s : cmd = [at |-> a, coin |-> c, said |-> s]
  BY Zenon DEF HandInv
<1>1. ASSUME NEW what, Say(what)
      PROVE  /\ cmd' = [at |-> cmd'.at, coin |-> cmd'.coin, said |-> cmd'.said]
             /\ cmd'.at = "idle" /\ cmd'.said = what
  BY <1>1, Zenon DEF Say
<1>2. ASSUME NEW at, cmd' = [cmd EXCEPT !.at = at]
      PROVE  /\ cmd' = [at |-> cmd'.at, coin |-> cmd'.coin, said |-> cmd'.said]
             /\ cmd'.at = at /\ cmd'.said = cmd.said
  <2>1. cmd' = [at |-> at, coin |-> c, said |-> s]
    BY <1>0, <1>2, Zenon
  <2> QED BY <1>0, <2>1, Zenon
<1>3. ASSUME NEW at, NEW k, cmd' = [cmd EXCEPT !.at = at, !.coin = k]
      PROVE  /\ cmd' = [at |-> cmd'.at, coin |-> cmd'.coin, said |-> cmd'.said]
             /\ cmd'.at = at /\ cmd'.said = cmd.said
  <2>1. cmd' = [at |-> at, coin |-> k, said |-> s]
    BY <1>0, <1>3, ZenonT(30)
  <2> QED BY <1>0, <2>1, Zenon
<1> QED BY <1>1, <1>2, <1>3, Zenon

LEMMA HandStep_begin ==
    ASSUME HandInv, Begin
    PROVE  HandInv'
<1>1. /\ runs' = runs + 1 /\ closed' = FALSE /\ UNCHANGED <<memory, onChain, diedAfter>>
      /\ cmd.at = "idle" /\ cmd.said \in {"nothing", "refused", "declined", "REJECTED"}
  BY Zenon DEF Begin, MayRun
<1>2. Unexplained' = {}
  <2>1. Unexplained = {}
    BY <1>1, Zenon DEF HandInv, MayHavePaid
  <2> QED BY <1>1, <2>1, Zenon DEF Unexplained, ByTheCommand
<1>3. /\ runs' \in Nat /\ diedAfter' \subseteq 0 .. runs' /\ runs' \notin diedAfter'
  BY <1>1, SMTT(30) DEF HandInv
<1>4. cmd' = [at |-> cmd'.at, coin |-> cmd'.coin, said |-> cmd'.said]
  <2>1. Say("refused") \/ cmd' = [at |-> "fetch", coin |-> NoCoin, said |-> "nothing"]
    BY Zenon DEF Begin
  <2>2. CASE cmd' = [at |-> "fetch", coin |-> NoCoin, said |-> "nothing"]
    BY <2>2, Zenon
  <2> QED BY <2>1, <2>2, HandSays, ZenonT(30)
<1> QED BY <1>1, <1>2, <1>3, <1>4, ZenonT(30) DEF HandInv

LEMMA HandStep_prepares ==
    ASSUME HandInv, build_payment \/ Answer
    PROVE  HandInv'
<1>1. /\ UNCHANGED <<memory, onChain, runs, closed, diedAfter>>
      /\ cmd.at \in {"fetch", "prompt"} /\ ~ MayHavePaid
  BY ZenonT(30) DEF build_payment, Answer, MayHavePaid
<1>2. cmd' = [at |-> cmd'.at, coin |-> cmd'.coin, said |-> cmd'.said]
  BY HandSays, ZenonT(30) DEF build_payment, Answer
<1> QED BY <1>1, <1>2, HandUntouched, Zenon DEF HandInv, ByTheCommand

LEMMA HandStep_sends ==
    ASSUME HandInv, SendPayment
    PROVE  HandInv'
<1>1. /\ cmd.at = "send" /\ UNCHANGED <<onChain, runs, diedAfter>> /\ runs \notin diedAfter
      /\ ~ MayHavePaid /\ Unexplained = {}
  BY Zenon DEF SendPayment, HandInv, MayHavePaid
<1>2. CASE Say("refused") /\ UNCHANGED <<memory, closed>>
  BY <1>1, <1>2, HandSays, HandUntouched, ZenonT(30) DEF HandInv, ByTheCommand
<1>3. CASE cmd' = [cmd EXCEPT !.at = "window"] /\ closed' = TRUE /\ UNCHANGED memory
  BY <1>1, <1>3, HandSays, HandUntouched, ZenonT(30) DEF HandInv, ByTheCommand
<1>4. ASSUME cmd' = [cmd EXCEPT !.at = "window"], ~ closed, UNCHANGED closed,
             memory' = memory \union {Payment(runs, cmd.coin)}
      PROVE  HandInv'
  <2>0. PICK t : t = Payment(runs, cmd.coin)
    BY Zenon
  <2>1. t = Payment(runs, cmd.coin) /\ t.n = runs
    BY <2>0, Zenon DEF Payment
  <2>2. ByTheCommand' \subseteq ByTheCommand \union {t}
    BY <1>1, <1>4, <2>1, Zenon DEF ByTheCommand
  <2>3. Unexplained' \subseteq {t}
    BY <1>1, <2>2, Zenon DEF Unexplained
  <2>4. MayHavePaid' /\ cmd'.at = "window"
        /\ cmd' = [at |-> cmd'.at, coin |-> cmd'.coin, said |-> cmd'.said]
    BY <1>4, HandSays, ZenonT(30) DEF MayHavePaid
  <2> QED BY <1>1, <1>4, <2>1, <2>3, <2>4, Zenon DEF HandInv
<1>5. \/ Say("refused") /\ UNCHANGED <<memory, closed>>
      \/ cmd' = [cmd EXCEPT !.at = "window"] /\ closed' = TRUE /\ UNCHANGED memory
      \/ /\ cmd' = [cmd EXCEPT !.at = "window"] /\ ~ closed /\ UNCHANGED closed
         /\ memory' = memory \union {Payment(runs, cmd.coin)}
  BY Zenon DEF SendPayment
<1> QED BY <1>2, <1>3, <1>4, <1>5, ZenonT(30)

LEMMA HandStep_reports ==
    ASSUME HandInv, RejectWindow \/ Poll
    PROVE  HandInv'
<1>1. UNCHANGED <<memory, onChain, runs, closed, diedAfter>>
  BY Zenon DEF RejectWindow, Poll
<1>2. cmd' = [at |-> cmd'.at, coin |-> cmd'.coin, said |-> cmd'.said]
      /\ cmd'.at \in {"idle", "watch"} /\ (MayHavePaid => MayHavePaid')
  <2>1. CASE RejectWindow
    BY <1>1, <2>1, HandSays, ZenonT(30) DEF RejectWindow, MayHavePaid
  <2>2. CASE Poll
    BY <1>1, <2>2, HandSays, ZenonT(30) DEF Poll, MayHavePaid
  <2> QED BY <2>1, <2>2, Zenon
<1> QED BY <1>1, <1>2, HandUntouched, Zenon DEF HandInv, ByTheCommand

LEMMA HandStep_others ==
    ASSUME HandInv, HubToggles \/ HubPaysOut \/ MineBlock \/ NodeReturns \/ UNCHANGED payVars
    PROVE  HandInv'
<1>1. UNCHANGED <<cmd, runs, closed, diedAfter>>
  BY Zenon DEF HubToggles, HubPaysOut, MineBlock, NodeReturns, payVars
<1>2. ByTheCommand' \subseteq ByTheCommand
  <2>1. CASE HubPaysOut
    BY <2>1 DEF HubPaysOut, ByTheCommand
  <2>2. CASE MineBlock
    BY <2>2, Zenon DEF MineBlock, ByTheCommand
  <2>3. CASE UNCHANGED <<memory, onChain>>
    BY <2>3, Zenon DEF ByTheCommand
  <2> QED BY <2>1, <2>2, <2>3, Zenon DEF HubToggles, NodeReturns, payVars
<1> QED BY <1>1, <1>2, HandUntouched, Zenon DEF HandInv, MayHavePaid

LEMMA HandStep_dies ==
    ASSUME HandInv, NodeDies
    PROVE  HandInv'
<1>1. /\ UNCHANGED <<cmd, runs, onChain>> /\ memory' = {} /\ closed' = TRUE
      /\ diedAfter' = IF cmd.at = "window" /\ ~closed THEN diedAfter \union {runs} ELSE diedAfter
  BY Zenon DEF NodeDies
<1>2. ByTheCommand' \subseteq ByTheCommand
  BY <1>1, Zenon DEF ByTheCommand
<1>3. CASE cmd.at = "window" /\ ~ closed
  <2>1. Unexplained' = {}
    BY <1>1, <1>2, <1>3, Zenon DEF Unexplained, HandInv
  <2> QED BY <1>1, <1>3, <2>1 DEF HandInv
<1>4. CASE ~ (cmd.at = "window" /\ ~ closed)
  BY <1>1, <1>2, <1>4, HandUntouched, Zenon DEF HandInv, MayHavePaid
<1> QED BY <1>3, <1>4, Zenon

\* An operator who pays again only when told that nothing was paid pays the worker once, for
\* any number of runs, coins, hub payouts and node deaths, short of a node that dies inside
\* the reject window with the payment taken (wallet/src/pay.rs run).
THEOREM HandPaysOnce == HandPaymentSpec => []PaidByHandOnce
<1>1. HandInv /\ [HandPaymentNext]_payVars => HandInv'
  BY HandStep_begin, HandStep_prepares, HandStep_sends, HandStep_reports, HandStep_others,
     HandStep_dies, Zenon DEF HandPaymentNext
<1>2. HandInv => PaidByHandOnce
  <2> SUFFICES ASSUME HandInv PROVE PaidByHandOnce
    BY Zenon
  <2>1. PICK P : P = {t \in ByHand : t.n \notin diedAfter}
    BY ZenonT(30)
  <2>2. P \subseteq Unexplained
    BY <2>1, Zenon DEF Unexplained, ByTheCommand, ByHand
  <2>3. Cardinality(P) <= 1
    <3>1. CASE P = {}
      BY <3>1, FS_EmptySet
    <3>2. CASE P # {}
      <4>1. PICK t : P = {t}
        BY <2>2, <3>2 DEF HandInv
      <4> QED BY <4>1, FS_Singleton, SMTT(30)
    <3> QED BY <3>1, <3>2, Zenon
  <2>4. diedAfter = {} => P = ByHand
    BY <2>1, Zenon
  <2> QED BY <2>1, <2>3, <2>4, ZenonT(30) DEF PaidByHandOnce
<1> QED BY <1>1, <1>2, HandStarts, PTL DEF HandPaymentSpec

----------------------------------------------------------------------------
(* Spends.  Whoever carries a spend, its signatures are over the outputs   *)
(* its owner saw, and a commitment determines the outputs it is of.        *)

Plain(outputs) == outputs = [i \in DOMAIN outputs |-> [value |-> outputs[i].value, pubkey |-> outputs[i].pubkey]]

SignedForm(t) ==
    /\ t = [inputs |-> t.inputs, outputs |-> t.outputs]
    /\ Plain(t.outputs)
    /\ \A c \in DOMAIN t.inputs : /\ Plain(t.inputs[c].consent)
                                  /\ t.inputs[c].over = spend_commitment(c, t.inputs[c].consent)

Drafts ==
    /\ req = [r \in Request |-> req[r]]
    /\ \A t \in sending : SignedForm(t)
    /\ \A r \in Request : req[r] # NoSpend => SignedForm(req[r])

Held ==
    /\ \A t \in pool \union confirmed : SignedForm(t) /\ verifies(t)
    /\ \A t \in pool : DOMAIN t.inputs \subseteq coins
    /\ \A t \in confirmed : DOMAIN t.inputs \cap coins = {}
    /\ SpentOnce

SpendInv == Drafts /\ Held

\* Equal commitments are of equal outputs.
LEMMA CommitmentBinds ==
    ASSUME NEW c, NEW f, NEW g, Plain(f), Plain(g), spend_commitment(c, f) = spend_commitment(c, g)
    PROVE  f = g
<1>1. [i \in DOMAIN f |-> <<f[i].value, f[i].pubkey>>] = [i \in DOMAIN g |-> <<g[i].value, g[i].pubkey>>]
  BY Zenon DEF spend_commitment
<1>2. DOMAIN f = DOMAIN g
  BY <1>1, Zenon
<1>3. \A i \in DOMAIN f : <<f[i].value, f[i].pubkey>> = <<g[i].value, g[i].pubkey>>
  BY <1>1, <1>2, Zenon
<1>4. \A i \in DOMAIN f : f[i].value = g[i].value /\ f[i].pubkey = g[i].pubkey
  BY <1>3, Zenon
<1>5. [i \in DOMAIN f |-> [value |-> f[i].value, pubkey |-> f[i].pubkey]]
      = [i \in DOMAIN g |-> [value |-> g[i].value, pubkey |-> g[i].pubkey]]
  BY <1>2, <1>4, Zenon
<1> QED BY <1>5, Zenon DEF Plain

LEMMA SpendIs ==
    ASSUME NEW ids, NEW outputs, Plain(outputs)
    PROVE  SignedForm(Spend(ids, outputs))
<1>1. PICK t : t = Spend(ids, outputs)
  BY Zenon
<1>2. /\ t.inputs = signed(ids, outputs) /\ t.outputs = outputs
      /\ t = [inputs |-> t.inputs, outputs |-> t.outputs]
  BY <1>1, Zenon DEF Spend
<1>3. DOMAIN t.inputs = ids
  BY <1>2, Zenon DEF signed
<1>4. ASSUME NEW c \in ids
      PROVE  t.inputs[c].consent = outputs /\ t.inputs[c].over = spend_commitment(c, outputs)
  BY <1>2 DEF signed
<1>5. SignedForm(t)
  BY <1>2, <1>3, <1>4, Zenon DEF SignedForm
<1> QED BY <1>1, <1>5, Zenon

LEMMA TwoInARow ==
    ASSUME NEW x, NEW y
    PROVE  <<x>> \o <<y>> = <<x, y>>
<1>1. <<x>> \in Seq({x, y}) /\ <<y>> \in Seq({x, y}) /\ <<x, y>> \in Seq({x, y})
  OBVIOUS
<1>2. PICK s : s = <<x>> \o <<y>>
  BY ZenonT(30)
<1>3. s \in Seq({x, y}) /\ Len(s) = 2 /\ s[1] = x /\ s[2] = y
  BY <1>1, <1>2
<1>4. s = [i \in 1 .. 2 |-> s[i]] /\ <<x, y>> = [i \in 1 .. 2 |-> <<x, y>>[i]]
  BY <1>3
<1>5. \A i \in 1 .. 2 : s[i] = <<x, y>>[i]
  BY <1>3
<1>6. s = <<x, y>>
  BY <1>4, <1>5, Zenon
<1> QED BY <1>2, <1>6, ZenonT(30)

\* One payee, and change or none.
LEMMA OutputsPlain ==
    ASSUME NEW a, NEW p, NEW v, NEW change,
           change = << >> \/ change = <<[value |-> v, pubkey |-> Holder]>>
    PROVE  Plain(<<[value |-> a, pubkey |-> p]>> \o change)
<1>1. CASE change = << >>
  <2>1. <<[value |-> a, pubkey |-> p]>> \o change = <<[value |-> a, pubkey |-> p]>>
    BY <1>1
  <2>2. Plain(<<[value |-> a, pubkey |-> p]>>)
    BY DEF Plain
  <2> QED BY <2>1, <2>2, ZenonT(30)
<1>2. CASE change = <<[value |-> v, pubkey |-> Holder]>>
  <2>1. <<[value |-> a, pubkey |-> p]>> \o change
        = <<[value |-> a, pubkey |-> p], [value |-> v, pubkey |-> Holder]>>
    BY <1>2, TwoInARow, Zenon
  <2>2. ASSUME NEW o, o = <<[value |-> a, pubkey |-> p], [value |-> v, pubkey |-> Holder]>>
        PROVE  Plain(o)
    <3>1. DOMAIN o = {1, 2} /\ o = [i \in DOMAIN o |-> o[i]]
      BY <2>2
    <3>2. /\ o[1] = [value |-> o[1].value, pubkey |-> o[1].pubkey]
          /\ o[2] = [value |-> o[2].value, pubkey |-> o[2].pubkey]
      BY <2>2, Zenon
    <3>3. \A i \in DOMAIN o : o[i] = [value |-> o[i].value, pubkey |-> o[i].pubkey]
      BY <3>1, <3>2, Zenon
    <3> QED BY <3>1, <3>3, Zenon DEF Plain
  <2> QED BY <2>1, <2>2, ZenonT(30)
<1> QED BY <1>1, <1>2, Zenon

\* Other outputs under the same signatures.
LEMMA AlteredIs ==
    ASSUME NEW t, SignedForm(t), NEW p
    PROVE  SignedForm([t EXCEPT !.outputs = [i \in DOMAIN @ |-> [@[i] EXCEPT !.pubkey = p]]])
<1>1. PICK o : o = [i \in DOMAIN t.outputs |-> [t.outputs[i] EXCEPT !.pubkey = p]]
  BY ZenonT(30)
<1>2. PICK u : u = [t EXCEPT !.outputs = o]
  BY ZenonT(30)
<1>3. u = [inputs |-> t.inputs, outputs |-> o]
  BY <1>2, Zenon DEF SignedForm
<1>4. Plain(o)
  <2>1. DOMAIN o = DOMAIN t.outputs
    BY <1>1, Zenon
  <2>2. ASSUME NEW i \in DOMAIN o PROVE o[i] = [value |-> o[i].value, pubkey |-> o[i].pubkey]
    <3>1. t.outputs[i] = [value |-> t.outputs[i].value, pubkey |-> t.outputs[i].pubkey]
      BY <2>1, Zenon DEF SignedForm, Plain
    <3>2. o[i] = [t.outputs[i] EXCEPT !.pubkey = p]
      BY <1>1, <2>1, Zenon
    <3> QED BY <3>1, <3>2, Zenon
  <2> QED BY <1>1, <2>1, <2>2, ZenonT(30) DEF Plain
<1>5. SignedForm(u)
  BY <1>3, <1>4, Zenon DEF SignedForm
<1> QED BY <1>1, <1>2, <1>5, Zenon

LEMMA SpendsStart == SpendingInit => SpendInv
<1> SUFFICES ASSUME SpendingInit PROVE SpendInv
  BY Zenon
<1>1. req = [r \in Request |-> req[r]] /\ \A r \in Request : req[r] = NoSpend
  BY Zenon DEF SpendingInit
<1>2. pool = {} /\ confirmed = {} /\ sending = {}
  BY Zenon DEF SpendingInit
<1> QED BY <1>1, <1>2, Zenon DEF SpendInv, Drafts, Held, SpentOnce

\* What the node takes in displaces every spend of the same coins.
LEMMA SpendAdmitted ==
    ASSUME Held, NEW t, SignedForm(t), Admissible(t), Admit(t), UNCHANGED <<coins, confirmed>>
    PROVE  Held'
<1>1. pool' = (pool \ Conflicts(t)) \union {t}
  BY Zenon DEF Admit
<1>2. verifies(t) /\ DOMAIN t.inputs \subseteq coins
  BY Zenon DEF Admissible
<1>3. \A u \in pool' \union confirmed' : SignedForm(u) /\ verifies(u)'
  <2>1. \A u : verifies(u)' = verifies(u)
    BY Zenon DEF verifies
  <2> QED BY <1>1, <1>2, <2>1, Zenon DEF Held
<1>4. \A u \in pool' : DOMAIN u.inputs \subseteq coins'
  BY <1>1, <1>2, Zenon DEF Held
<1>5. \A u \in pool \ Conflicts(t) : DOMAIN u.inputs \cap DOMAIN t.inputs = {}
  BY Zenon DEF Conflicts
<1>6. \A u \in confirmed : DOMAIN u.inputs \cap DOMAIN t.inputs = {}
  BY <1>2, Zenon DEF Held
<1>7. SpentOnce'
  BY <1>1, <1>5, <1>6 DEF Held, SpentOnce
<1> QED BY <1>3, <1>4, <1>7, Zenon DEF Held, verifies

LEMMA SpendStep_node ==
    ASSUME SpendInv, MineSpends \/ ForgetSpends \/ CarrierAlters
    PROVE  SpendInv'
<1>1. Drafts'
  BY ZenonT(30) DEF SpendInv, Drafts, MineSpends, ForgetSpends, CarrierAlters
<1>2. CASE MineSpends
  <2>1. /\ confirmed' = confirmed \union pool /\ pool' = {} /\ coins' = coins \ MarkedCoins
    BY <1>2, Zenon DEF MineSpends
  <2>2. \A t \in pool : DOMAIN t.inputs \subseteq MarkedCoins
    BY Zenon DEF MarkedCoins
  <2> QED BY <1>1, <2>1, <2>2, Zenon DEF SpendInv, Held, SpentOnce, verifies
<1>3. CASE ForgetSpends
  BY <1>1, <1>3, Zenon DEF ForgetSpends, SpendInv, Held, SpentOnce, verifies
<1>4. CASE CarrierAlters
  <2>1. PICK t \in (sending \union {req[r] : r \in Request}) \ {NoSpend}, p \in Payees :
            LET altered == [t EXCEPT !.outputs = [i \in DOMAIN @ |-> [@[i] EXCEPT !.pubkey = p]]]
            IN  IF Admissible(altered) THEN Admit(altered) ELSE UNCHANGED pool
    BY <1>4, Zenon DEF CarrierAlters
  <2>2. SignedForm(t)
    BY Zenon DEF SpendInv, Drafts
  <2>3. PICK u : u = [t EXCEPT !.outputs = [i \in DOMAIN @ |-> [@[i] EXCEPT !.pubkey = p]]]
    BY ZenonT(30)
  <2>4. SignedForm(u) /\ UNCHANGED <<coins, confirmed>>
    BY <1>4, <2>2, <2>3, AlteredIs, ZenonT(30) DEF CarrierAlters
  <2>5. IF Admissible(u) THEN Admit(u) ELSE UNCHANGED pool
    BY <2>1, <2>3, Zenon
  <2>6. CASE UNCHANGED pool
    BY <1>1, <2>4, <2>6, Zenon DEF SpendInv, Held, SpentOnce, verifies
  <2> QED BY <1>1, <2>4, <2>5, <2>6, SpendAdmitted, Zenon DEF SpendInv
<1> QED BY <1>2, <1>3, <1>4, Zenon

LEMMA SpendStep_hub ==
    ASSUME SpendInv, NEW r \in Request, send_coins(r) \/ submit_transaction(r)
    PROVE  SpendInv'
<1>1. UNCHANGED <<coins, confirmed, sending>>
  BY Zenon DEF send_coins, submit_transaction
<1>2. CASE send_coins(r)
  <2>1. PICK t \in Proposals : req' = [req EXCEPT ![r] = t]
    BY <1>2, ZenonT(30) DEF send_coins
  <2>2. SignedForm(t)
    <3>1. PICK ids \in SUBSET DOMAIN FirstCoins, a \in Amounts, p \in Payees, change \in Changes :
              t = Proposal(ids, a, p, change)
      BY DEF Proposals
    <3>2. \E v : change = << >> \/ change = <<[value |-> v, pubkey |-> Holder]>>
      BY Zenon DEF Changes
    <3>3. Plain(<<[value |-> a, pubkey |-> p]>> \o change)
      BY <3>2, OutputsPlain, ZenonT(30)
    <3> QED BY <3>1, <3>3, SpendIs, Zenon DEF Proposal
  <2>3. Drafts'
    BY <1>1, <2>1, <2>2, Zenon DEF SpendInv, Drafts
  <2> QED BY <1>1, <1>2, <2>3, Zenon DEF send_coins, SpendInv, Held, SpentOnce, verifies
<1>3. CASE submit_transaction(r)
  <2>1. PICK t : t = req[r]
    BY Zenon
  <2>2. SignedForm(t) /\ ((Admissible(t) /\ Admit(t)) \/ UNCHANGED pool)
    BY <1>3, <2>1, Zenon DEF submit_transaction, SpendInv, Drafts
  <2>3. Drafts'
    BY <1>1, <1>3, ZenonT(30) DEF submit_transaction, SpendInv, Drafts
  <2>4. CASE UNCHANGED pool
    BY <1>1, <2>3, <2>4, Zenon DEF SpendInv, Held, SpentOnce, verifies
  <2> QED BY <1>1, <2>2, <2>3, <2>4, SpendAdmitted, Zenon DEF SpendInv
<1> QED BY <1>2, <1>3, Zenon

LEMMA SpendStep_wallet ==
    ASSUME SpendInv,
           \/ update_utxos \/ send_transaction_async \/ WalletRestarts
           \/ \E t \in sending : send_transaction(t)
           \/ UNCHANGED spendVars
    PROVE  SpendInv'
<1>1. UNCHANGED <<coins, confirmed, req>>
  BY Zenon DEF update_utxos, send_transaction_async, WalletRestarts, send_transaction, spendVars
<1>2. CASE UNCHANGED <<pool, sending>>
  BY <1>1, <1>2, Zenon DEF SpendInv, Drafts, Held, SpentOnce, verifies
<1>3. CASE send_transaction_async
  <2>1. PICK amount \in Amounts, p \in Payees : \E ids \in Collected(amount) :
            LET needed == amount + calculate_fee(Cardinality(ids), 2)
                change == IF Worth(ids) > needed
                          THEN <<[value |-> Worth(ids) - needed, pubkey |-> Holder]>> ELSE <<>>
            IN  sending' = sending \union {Proposal(ids, amount, p, change)}
    BY <1>3, Zenon DEF send_transaction_async
  <2>2. PICK ids, v, change :
            /\ change = << >> \/ change = <<[value |-> v, pubkey |-> Holder]>>
            /\ sending' = sending \union {Proposal(ids, amount, p, change)}
    BY <2>1, ZenonT(30)
  <2>3. SignedForm(Proposal(ids, amount, p, change))
    BY <2>2, OutputsPlain, SpendIs, SMTT(30) DEF Proposal
  <2>4. Drafts' /\ UNCHANGED pool
    BY <1>1, <1>3, <2>2, <2>3 DEF send_transaction_async, SpendInv, Drafts
  <2> QED BY <1>1, <2>4, Zenon DEF SpendInv, Held, SpentOnce, verifies
<1>4. ASSUME NEW t \in sending, send_transaction(t) PROVE SpendInv'
  <2>1. SignedForm(t) /\ sending' \subseteq sending /\ ((Admissible(t) /\ Admit(t)) \/ UNCHANGED pool)
    BY <1>4, Zenon DEF send_transaction, SpendInv, Drafts
  <2>2. Drafts'
    BY <1>1, <2>1, Zenon DEF SpendInv, Drafts
  <2>3. CASE UNCHANGED pool
    BY <1>1, <2>2, <2>3, Zenon DEF SpendInv, Held, SpentOnce, verifies
  <2> QED BY <1>1, <2>1, <2>2, <2>3, SpendAdmitted, Zenon DEF SpendInv
<1> QED BY <1>2, <1>3, <1>4, Zenon DEF update_utxos, WalletRestarts, spendVars

LEMMA SpendSteps == SpendInv /\ [SpendingNext]_spendVars => SpendInv'
  BY SpendStep_node, SpendStep_hub, SpendStep_wallet, Zenon DEF SpendingNext

\* No transaction the chain accepts sends a coin anywhere but where its owner's signature
\* sent it, whoever carried the spend and whatever they changed in it
\* (lib/src/types/transaction.rs spend_commitment).
THEOREM OutputsConsented == SpendingSpec => []ConsentedOutputs
<1>1. SpendInv => ConsentedOutputs
  BY CommitmentBinds DEF SpendInv, Held, SignedForm, verifies, ConsentedOutputs
<1> QED BY <1>1, SpendsStart, SpendSteps, PTL DEF SpendingSpec

\* No coin is spent by two transactions of the chain and the mempool, for any number of
\* concurrent requests, wallet sends, replacements and lost mempools (add_to_mempool).
THEOREM CoinsSpentOnce == SpendingSpec => []SpentOnce
<1>1. SpendInv => SpentOnce
  BY Zenon DEF SpendInv, Held
<1> QED BY <1>1, SpendsStart, SpendSteps, PTL DEF SpendingSpec

\* What the chain holds is what its owners signed for, and no coin is spent twice in it.
THEOREM SpendsAreSound == SpendingSpec => []SpendsSound
<1>1. ConsentedOutputs /\ SpentOnce => SpendsSound
  BY Zenon DEF SpendsSound
<1> QED BY <1>1, OutputsConsented, CoinsSpentOnce, PTL

-----------------------------------------------------------------------------
(* The life of a hub installation, for any key files, builds, archives and *)
(* number of boots, power cuts and losses: a serving hub can sign for its  *)
(* open deposits with a secret that is on disk for good, sees every row of *)
(* its store, and an archive is one whole state of it.                     *)
(*                                                                         *)
(* None of the four is inductive alone.  That the secret is on disk needs  *)
(* the keys in memory to be those of the files, at every step of main.     *)
(* That an archive is whole needs the hub to stay down, and so the store   *)
(* to stand still, from the stop to the last byte copied; and a store put  *)
(* back from an archive has its rows under its stamp only because every    *)
(* archive does.                                                           *)

IsStore(s) ==
  /\ s = [stamp |-> s.stamp, rows |-> s.rows, secrets |-> s.secrets, commit |-> s.commit]
  /\ s.stamp \in Nat /\ s.rows \in Nat /\ s.rows <= s.stamp

Shapes ==
  /\ build \in Nat
  /\ storeFile = NoStore \/ IsStore(storeFile)
  /\ hub = [pc |-> hub.pc, mem |-> hub.mem, generate |-> hub.generate]
  /\ backup = [pc |-> backup.pc, keys |-> backup.keys, front |-> backup.front, back |-> backup.back]

\* The process: its keys are the files', it has all of them before it opens the store, and
\* the store it opened carries its stamp.
HubHolds ==
  /\ \A f \in DOMAIN hub.mem : f \in DOMAIN keys /\ keys[f] = hub.mem[f]
  /\ hub.pc \in {"open", "validate", "up"} => DOMAIN hub.mem = AllFiles
  /\ hub.pc \in {"validate", "up"} => IsStore(storeFile) /\ storeFile.stamp = build
  /\ HubServes => storeFile.secrets \subseteq {hub.mem[EscrowFile]}

SecretFlushed == EscrowFile \in DOMAIN keys => EscrowFile \in flushed

Whole(a) == a.front = a.back /\ IsStore(a.back) /\ a.back.secrets \subseteq {a.keys[EscrowFile]}

\* The script: the hub is down from its stop to the last byte, so what was copied is what
\* is there.
BackupHolds ==
  /\ backup.pc \in {"secrets", "front", "back", "staged"} =>
       /\ hub.pc = "down" /\ DOMAIN hub.mem = {} /\ ~wanted
       /\ IsStore(storeFile) /\ storeFile.secrets \subseteq {keys[EscrowFile]}
  /\ backup.pc \in {"front", "back", "staged"} => backup.keys = keys
  /\ backup.pc \in {"back", "staged"} => backup.front = storeFile
  /\ backup.pc = "staged" => backup.back = storeFile
  /\ backup.pc = "encrypt" => Whole(Archive)

ArchivesHold == \A a \in archives : Whole(a)

BootInv == Shapes /\ HubHolds /\ SecretFlushed /\ BackupHolds /\ ArchivesHold

-----------------------------------------------------------------------------

LEMMA EscrowIsAFile == EscrowFile \in AllFiles
BY BootAssumption, Zenon DEF AllFiles

LEMMA DownIs == Down.pc = "down" /\ DOMAIN Down.mem = {}
             /\ Down = [pc |-> Down.pc, mem |-> Down.mem, generate |-> Down.generate]
BY Zenon DEF Down, NoKeys

LEMMA RefusedIs == Refused.pc = "refused" /\ DOMAIN Refused.mem = {}
             /\ Refused = [pc |-> Refused.pc, mem |-> Refused.mem, generate |-> Refused.generate]
BY Zenon DEF Refused, NoKeys

LEMMA NoBackupIs ==
  /\ NoBackup.pc = "idle"
  /\ NoBackup = [pc |-> NoBackup.pc, keys |-> NoBackup.keys, front |-> NoBackup.front, back |-> NoBackup.back]
BY Zenon DEF NoBackup

\* A hub that went down holds nothing, so nothing is asked of it.
LEMMA StoppedHolds ==
  ASSUME hub' = Down \/ hub' = Refused
  PROVE  /\ HubHolds'
         /\ hub' = [pc |-> hub'.pc, mem |-> hub'.mem, generate |-> hub'.generate]
<1>1. hub'.pc \notin {"open", "validate", "up"} /\ DOMAIN hub'.mem = {}
  BY DownIs, RefusedIs, Zenon
<1> QED BY <1>1, DownIs, RefusedIs, Zenon DEF HubHolds, HubServes

LEMMA BootStarts == BootInit => BootInv
<1> SUFFICES ASSUME BootInit PROVE BootInv
  BY Zenon
<1>1. Shapes
  BY BootAssumption, DownIs, NoBackupIs, Zenon DEF BootInit, Shapes
<1>2. HubHolds
  BY DownIs, Zenon DEF BootInit, HubHolds, HubServes
<1>3. SecretFlushed /\ BackupHolds /\ ArchivesHold
  BY NoBackupIs, Zenon DEF BootInit, SecretFlushed, BackupHolds, ArchivesHold, NoKeys
<1> QED BY <1>1, <1>2, <1>3 DEF BootInv

-----------------------------------------------------------------------------
(* One lemma per action, main's first.                                     *)

LEMMA BootStep_start ==
  ASSUME BootInv, StartHub
  PROVE  BootInv'
<1>1. /\ UNCHANGED <<build, keys, flushed, storeFile, wanted, backup, archives>>
      /\ hub'.pc = "keys" /\ DOMAIN hub'.mem = {} /\ wanted
      /\ hub' = [pc |-> hub'.pc, mem |-> hub'.mem, generate |-> hub'.generate]
  BY Zenon DEF StartHub, NoKeys
<1>2. Shapes' /\ HubHolds'
  BY <1>1, Zenon DEF BootInv, Shapes, HubHolds, HubServes, IsStore
<1>3. BackupHolds'
  BY <1>1, Zenon DEF BootInv, BackupHolds, IsStore, Whole, Archive
<1> QED BY <1>1, <1>2, <1>3, SMTT(30) DEF BootInv, SecretFlushed, ArchivesHold, Whole, IsStore

LEMMA BootStep_load ==
  ASSUME BootInv, load_or_generate_key
  PROVE  BootInv'
<1> DEFINE f == NextFile
           key == IF f \in DOMAIN keys THEN load(f) ELSE generate
<1>1. /\ UNCHANGED <<build, storeFile, wanted, backup, archives>>
      /\ hub.pc = "keys"
      /\ keys' = [g \in DOMAIN keys \union {f} |-> IF g = f THEN key ELSE keys[g]]
      /\ flushed' = flushed \union (IF f \in DOMAIN keys THEN {} ELSE SyncedOnWrite(f))
      /\ hub' = [hub EXCEPT !.mem = [g \in DOMAIN @ \union {f} |-> IF g = f THEN key ELSE @[g]],
                            !.pc = IF DOMAIN hub.mem \union {f} = AllFiles THEN "open" ELSE "keys"]
  BY Zenon DEF load_or_generate_key
<1>2. \A g \in DOMAIN keys : g \in DOMAIN keys' /\ keys'[g] = keys[g]
  BY <1>1, Zenon DEF load
<1>3. f \in DOMAIN keys' /\ keys'[f] = key /\ DOMAIN keys' = DOMAIN keys \union {f}
  BY <1>1, Zenon
<1> HIDE DEF f, key
<1>4. /\ hub' = [pc |-> hub'.pc, mem |-> hub'.mem, generate |-> hub'.generate]
      /\ hub'.mem = [g \in DOMAIN hub.mem \union {f} |-> IF g = f THEN key ELSE hub.mem[g]]
      /\ hub'.pc = IF DOMAIN hub.mem \union {f} = AllFiles THEN "open" ELSE "keys"
  BY <1>1, ZenonT(30) DEF BootInv, Shapes
<1>5. HubHolds'
  <2>1. ASSUME NEW g \in DOMAIN hub'.mem PROVE g \in DOMAIN keys' /\ keys'[g] = hub'.mem[g]
    BY <1>2, <1>3, <1>4 DEF BootInv, HubHolds
  <2>2. hub'.pc \in {"open", "validate", "up"} => DOMAIN hub'.mem = AllFiles
    BY <1>4, Zenon
  <2>3. hub'.pc \notin {"validate", "up"}
    BY <1>4, Zenon
  <2> QED BY <2>1, <2>2, <2>3 DEF HubHolds, HubServes
<1>6. SecretFlushed'
  BY <1>1, <1>3, Zenon DEF BootInv, SecretFlushed, SyncedOnWrite
<1>7. Shapes' /\ ArchivesHold'
  BY <1>1, <1>4, Zenon DEF BootInv, Shapes, IsStore, ArchivesHold, Whole
<1>8. BackupHolds'
  BY <1>1, Zenon DEF BootInv, BackupHolds, IsStore, Whole, Archive
<1> QED BY <1>5, <1>6, <1>7, <1>8 DEF BootInv

LEMMA BootStep_open ==
  ASSUME BootInv, open_or_create
  PROVE  BootInv'
<1>0. /\ UNCHANGED <<build, keys, flushed, wanted, backup, archives>>
      /\ hub.pc = "open" /\ build \in Nat
  BY Zenon DEF open_or_create, BootInv, Shapes
<1>1. SecretFlushed' /\ ArchivesHold'
  BY <1>0, Zenon DEF BootInv, SecretFlushed, ArchivesHold, Whole, IsStore
<1>2. BackupHolds'
  BY <1>0, Zenon DEF BootInv, BackupHolds, IsStore, Whole, Archive
<1>3. CASE storeFile # NoStore /\ storeFile.stamp > build
  <2>1. hub' = Refused /\ UNCHANGED storeFile
    BY <1>3, Zenon DEF open_or_create
  <2> QED BY <1>0, <1>1, <1>2, <2>1, StoppedHolds DEF BootInv, Shapes, IsStore
<1>4. CASE ~ (storeFile # NoStore /\ storeFile.stamp > build)
  <2>1. hub' = [hub EXCEPT !.pc = "validate"]
    BY <1>4, Zenon DEF open_or_create
  <2>2. IsStore(storeFile)' /\ storeFile'.stamp = build
    <3>1. CASE storeFile = NoStore
      <4>1. storeFile' = [stamp |-> build, rows |-> 0, secrets |-> {}, commit |-> 0]
        BY <1>4, <3>1, Zenon DEF open_or_create
      <4> QED BY <1>0, <4>1 DEF IsStore
    <3>2. CASE storeFile # NoStore
      <4>1. storeFile' = [storeFile EXCEPT !.stamp = build] /\ IsStore(storeFile)
        BY <1>4, <3>2, Zenon DEF open_or_create, Stamped, BootInv, Shapes
      <4>2. ~ storeFile.stamp > build
        BY <1>4, <3>2, Zenon
      <4>3. storeFile' = [stamp |-> build, rows |-> storeFile.rows,
                          secrets |-> storeFile.secrets, commit |-> storeFile.commit]
        BY <4>1, Zenon DEF IsStore
      <4> QED BY <1>0, <4>1, <4>2, <4>3 DEF IsStore
    <3> QED BY <3>1, <3>2, Zenon
  <2>3. /\ hub' = [pc |-> hub'.pc, mem |-> hub'.mem, generate |-> hub'.generate]
        /\ hub'.pc = "validate" /\ hub'.mem = hub.mem
    BY <2>1, Zenon DEF BootInv, Shapes
  <2>4. HubHolds'
    BY <1>0, <2>2, <2>3, SMTT(30) DEF BootInv, HubHolds, HubServes
  <2>5. Shapes'
    BY <1>0, <2>2, <2>3 DEF BootInv, Shapes
  <2> QED BY <1>1, <1>2, <2>4, <2>5, Zenon DEF BootInv
<1> QED BY <1>3, <1>4, Zenon

LEMMA BootStep_listen ==
  ASSUME BootInv, ListenOrRefuse
  PROVE  BootInv'
<1>0. /\ UNCHANGED <<build, keys, flushed, storeFile, wanted, backup, archives>>
      /\ hub.pc = "validate"
  BY Zenon DEF ListenOrRefuse
<1>1. SecretFlushed' /\ ArchivesHold'
  BY <1>0, Zenon DEF BootInv, SecretFlushed, ArchivesHold, Whole, IsStore
<1>2. BackupHolds'
  BY <1>0, Zenon DEF BootInv, BackupHolds, IsStore, Whole, Archive
<1>3. CASE ~ validate_derived_deposit_keys
  <2>1. hub' = Refused
    BY <1>3, Zenon DEF ListenOrRefuse
  <2> QED BY <1>0, <1>1, <1>2, <2>1, StoppedHolds DEF BootInv, Shapes, IsStore
<1>4. CASE validate_derived_deposit_keys
  <2>1. hub' = [hub EXCEPT !.pc = "up"] /\ storeFile.secrets \subseteq {hub.mem[EscrowFile]}
    BY <1>4, Zenon DEF ListenOrRefuse, Listens, validate_derived_deposit_keys
  <2>2. /\ hub' = [pc |-> hub'.pc, mem |-> hub'.mem, generate |-> hub'.generate]
        /\ hub'.pc = "up" /\ hub'.mem = hub.mem
    BY <2>1, Zenon DEF BootInv, Shapes
  <2>3. HubHolds'
    BY <1>0, <2>1, <2>2, Zenon DEF BootInv, HubHolds, HubServes, IsStore
  <2> QED BY <1>0, <1>1, <1>2, <2>2, <2>3 DEF BootInv, Shapes, IsStore
<1> QED BY <1>3, <1>4, Zenon

LEMMA BootStep_reserve ==
  ASSUME BootInv, ReserveDeposit
  PROVE  BootInv'
<1> DEFINE key == hub.mem[EscrowFile]
<1>0. /\ UNCHANGED <<build, keys, flushed, hub, wanted, backup, archives>>
      /\ hub.pc = "up" /\ build \in Nat /\ IsStore(storeFile) /\ storeFile.stamp = build
      /\ storeFile' = [storeFile EXCEPT !.secrets = @ \union {key}, !.rows = build, !.commit = @ + 1]
  BY Zenon DEF ReserveDeposit, HubServes, BootInv, Shapes, HubHolds
<1> DEFINE after == storeFile.secrets \union {key}
<1>a. storeFile' = [storeFile EXCEPT !.secrets = after, !.rows = build, !.commit = @ + 1]
  BY <1>0, Zenon
<1> HIDE DEF after
<1>1. storeFile' = [stamp |-> storeFile.stamp, rows |-> build,
                    secrets |-> after, commit |-> storeFile.commit + 1]
  BY <1>0, <1>a, ZenonT(30) DEF IsStore
<1>2. /\ IsStore(storeFile)' /\ storeFile'.stamp = build
      /\ storeFile'.secrets = storeFile.secrets \union {key}
  <2>1. /\ storeFile'.stamp = storeFile.stamp /\ storeFile'.rows = build
        /\ storeFile'.secrets = after /\ storeFile'.commit = storeFile.commit + 1
    BY <1>1, Zenon
  <2>2. storeFile' = [stamp |-> storeFile'.stamp, rows |-> storeFile'.rows,
                      secrets |-> storeFile'.secrets, commit |-> storeFile'.commit]
    BY <1>1, <2>1, Zenon
  <2>3. IsStore(storeFile)'
    BY <1>0, <2>1, <2>2 DEF IsStore
  <2> QED BY <1>0, <2>1, <2>3, Zenon DEF after
<1>3. HubHolds'
  BY <1>0, <1>2, Zenon DEF BootInv, HubHolds, HubServes
<1>4. BackupHolds'
  BY <1>0, Zenon DEF BootInv, BackupHolds, Whole, Archive, IsStore
<1> QED BY <1>0, <1>2, <1>3, <1>4 DEF BootInv, Shapes, SecretFlushed, ArchivesHold, Whole, IsStore

LEMMA BootStep_settle ==
  ASSUME BootInv, SettleDeposits
  PROVE  BootInv'
<1>0. /\ UNCHANGED <<build, keys, flushed, hub, wanted, backup, archives>>
      /\ hub.pc = "up" /\ IsStore(storeFile) /\ storeFile.stamp = build
      /\ storeFile' = [storeFile EXCEPT !.secrets = {}, !.commit = @ + 1]
  BY Zenon DEF SettleDeposits, HubServes, BootInv, Shapes, HubHolds
<1>1. /\ storeFile' = [stamp |-> storeFile.stamp, rows |-> storeFile.rows,
                       secrets |-> {}, commit |-> storeFile.commit + 1]
  BY <1>0, ZenonT(30) DEF IsStore
<1>2. /\ IsStore(storeFile)' /\ storeFile'.stamp = build /\ storeFile'.secrets = {}
  BY <1>0, <1>1, ZenonT(30) DEF IsStore
<1>3. HubHolds'
  BY <1>0, <1>2 DEF BootInv, HubHolds, HubServes
<1>4. BackupHolds'
  BY <1>0, Zenon DEF BootInv, BackupHolds, Whole, Archive, IsStore
<1> QED BY <1>0, <1>2, <1>3, <1>4 DEF BootInv, Shapes, SecretFlushed, ArchivesHold, Whole, IsStore

LEMMA BootStep_write_back ==
  ASSUME BootInv, WriteBack
  PROVE  BootInv'
<1>1. UNCHANGED <<build, keys, storeFile, hub, wanted, backup, archives>> /\ flushed' = DOMAIN keys
  BY Zenon DEF WriteBack
<1>2. HubHolds' /\ Shapes' /\ SecretFlushed'
  BY <1>1, Zenon DEF BootInv, HubHolds, HubServes, Shapes, SecretFlushed, IsStore
<1>3. BackupHolds' /\ ArchivesHold'
  BY <1>1, Zenon DEF BootInv, BackupHolds, ArchivesHold, Whole, Archive, IsStore
<1> QED BY <1>2, <1>3, Zenon DEF BootInv

\* Everything that stops the hub with no backup under way, or ends the backup with it.
LEMMA StopsWithoutBackup ==
  ASSUME BootInv, hub' = Down, backup'.pc = "idle", build' \in Nat, UNCHANGED archives,
         backup' = backup \/ backup' = NoBackup,
         storeFile' = storeFile \/ storeFile' = NoStore \/ \E a \in archives : storeFile' = a.back,
         SecretFlushed'
  PROVE  BootInv'
<1>1. storeFile' = NoStore \/ IsStore(storeFile)'
  BY ZenonT(30) DEF BootInv, Shapes, ArchivesHold, Whole, IsStore
<1>2. Shapes'
  BY <1>1, StoppedHolds, NoBackupIs, Zenon DEF BootInv, Shapes
<1>3. BackupHolds'
  BY Zenon DEF BackupHolds
<1> QED BY <1>2, <1>3, StoppedHolds, SMTT(30) DEF BootInv, ArchivesHold, Whole, IsStore

LEMMA BootStep_power ==
  ASSUME BootInv, PowerCut
  PROVE  BootInv'
<1>1. /\ UNCHANGED <<build, flushed, storeFile, archives>> /\ hub' = Down /\ backup' = NoBackup
      /\ keys' = [f \in DOMAIN keys \cap flushed |-> keys[f]] /\ build \in Nat
  BY Zenon DEF PowerCut, BootInv, Shapes
<1>2. SecretFlushed'
  BY <1>1, Zenon DEF SecretFlushed
<1> QED BY <1>1, <1>2, NoBackupIs, StopsWithoutBackup

LEMMA BootStep_lose ==
  ASSUME BootInv, LoseFile
  PROVE  BootInv'
<1>1. /\ UNCHANGED <<build, storeFile, backup, archives>> /\ hub' = Down /\ backup.pc = "idle"
      /\ build \in Nat
  BY Zenon DEF LoseFile, BootInv, Shapes
<1>2. SecretFlushed'
  BY Zenon DEF LoseFile, BootInv, SecretFlushed
<1> QED BY <1>1, <1>2, StopsWithoutBackup, SMTT(30)

LEMMA BootStep_restore ==
  ASSUME BootInv, RestoreStore
  PROVE  BootInv'
<1>1. /\ UNCHANGED <<build, keys, flushed, backup, archives>> /\ hub' = Down /\ backup.pc = "idle"
      /\ build \in Nat /\ \E a \in archives : storeFile' = a.back
  BY Zenon DEF RestoreStore, BootInv, Shapes
<1>2. SecretFlushed'
  BY <1>1, Zenon DEF BootInv, SecretFlushed
<1> QED BY <1>1, <1>2, StopsWithoutBackup, SMTT(30)

LEMMA BootStep_recover ==
  ASSUME BootInv, Recover
  PROVE  BootInv'
<1>1. /\ UNCHANGED <<build, backup, archives>> /\ hub' = Down /\ backup.pc = "idle"
      /\ build \in Nat /\ \E a \in archives : storeFile' = a.back
      /\ flushed' = DOMAIN keys'
  BY Zenon DEF Recover, BootInv, Shapes
<1>2. SecretFlushed'
  BY <1>1, Zenon DEF SecretFlushed
<1> QED BY <1>1, <1>2, StopsWithoutBackup, SMTT(30)

LEMMA BootStep_remove ==
  ASSUME BootInv, RemoveAll
  PROVE  BootInv'
<1>1. /\ UNCHANGED <<build, backup, archives>> /\ hub' = Down /\ backup.pc = "idle"
      /\ build \in Nat /\ storeFile' = NoStore /\ DOMAIN keys' = {}
  BY Zenon DEF RemoveAll, NoKeys, BootInv, Shapes
<1>2. SecretFlushed'
  BY <1>1, Zenon DEF SecretFlushed
<1> QED BY <1>1, <1>2, StopsWithoutBackup, SMTT(30)

LEMMA BootStep_install ==
  ASSUME BootInv, InstallBuild
  PROVE  BootInv'
<1>1. /\ UNCHANGED <<keys, flushed, storeFile, backup, archives>> /\ hub' = Down
      /\ backup.pc = "idle" /\ build' \in Nat
  BY BootAssumption, Zenon DEF InstallBuild
<1>2. SecretFlushed'
  BY <1>1, Zenon DEF BootInv, SecretFlushed
<1> QED BY <1>1, <1>2, StopsWithoutBackup

-----------------------------------------------------------------------------
(* The backup script.                                                      *)

LEMMA BootStep_begins ==
  ASSUME BootInv, BackupBegins
  PROVE  BootInv'
<1>0. /\ UNCHANGED <<build, keys, flushed, storeFile, archives>>
      /\ hub.pc = "up" /\ hub' = Down /\ wanted' = FALSE
      /\ backup' = [NoBackup EXCEPT !.pc = "secrets"]
  BY Zenon DEF BackupBegins, StopHub, HubServes
<1>1. /\ backup' = [pc |-> backup'.pc, keys |-> backup'.keys, front |-> backup'.front,
                    back |-> backup'.back]
      /\ backup'.pc = "secrets"
  BY <1>0, NoBackupIs, Zenon
<1>2. storeFile.secrets \subseteq {keys[EscrowFile]} /\ IsStore(storeFile)
  BY <1>0, EscrowIsAFile DEF BootInv, HubHolds, HubServes
<1>3. BackupHolds'
  BY <1>0, <1>1, <1>2, DownIs, SMTT(30) DEF BackupHolds, IsStore
<1> QED BY <1>0, <1>1, <1>3, StoppedHolds
        DEF BootInv, Shapes, SecretFlushed, ArchivesHold, Whole, IsStore

\* A step of the script that touches neither the hub nor the files.
LEMMA BackupOnly ==
  ASSUME BootInv, UNCHANGED <<build, keys, flushed, storeFile, hub, archives>>,
         backup' = [pc |-> backup'.pc, keys |-> backup'.keys, front |-> backup'.front,
                    back |-> backup'.back],
         BackupHolds'
  PROVE  BootInv'
BY DEF BootInv, Shapes, HubHolds, HubServes, SecretFlushed, ArchivesHold, Whole, IsStore

LEMMA BootStep_copies ==
  ASSUME BootInv, CopySecrets \/ CopyFront \/ CopyBack
  PROVE  BootInv'
<1>0. UNCHANGED <<build, keys, flushed, storeFile, hub, wanted, archives>>
  BY Zenon DEF CopySecrets, CopyFront, CopyBack
<1>s. backup = [pc |-> backup.pc, keys |-> backup.keys, front |-> backup.front, back |-> backup.back]
  BY Zenon DEF BootInv, Shapes
<1>1. CASE CopySecrets
  <2>1. backup' = [pc |-> "front", keys |-> keys, front |-> backup.front, back |-> backup.back]
        /\ backup.pc = "secrets"
    BY <1>1, <1>s, ZenonT(30) DEF CopySecrets
  <2>2. BackupHolds'
    BY <1>0, <2>1, Zenon DEF BootInv, BackupHolds, IsStore
  <2> QED BY <1>0, <2>1, <2>2, BackupOnly
<1>2. CASE CopyFront
  <2>1. backup' = [pc |-> "back", keys |-> backup.keys, front |-> storeFile, back |-> backup.back]
        /\ backup.pc = "front"
    BY <1>2, <1>s, ZenonT(30) DEF CopyFront
  <2>2. BackupHolds'
    BY <1>0, <2>1, Zenon DEF BootInv, BackupHolds, IsStore
  <2> QED BY <1>0, <2>1, <2>2, BackupOnly
<1>3. CASE CopyBack
  <2>1. backup' = [pc |-> "staged", keys |-> backup.keys, front |-> backup.front, back |-> storeFile]
        /\ backup.pc = "back"
    BY <1>3, <1>s, ZenonT(30) DEF CopyBack
  <2>2. BackupHolds'
    BY <1>0, <2>1 DEF BootInv, BackupHolds, IsStore
  <2> QED BY <1>0, <2>1, <2>2, BackupOnly
<1> QED BY <1>1, <1>2, <1>3, Zenon

LEMMA BootStep_ends ==
  ASSUME BootInv, restart_stopped \/ RenameArchive \/ BackupFails
  PROVE  BootInv'
<1>0. UNCHANGED <<build, keys, flushed, storeFile, hub>>
  BY Zenon DEF restart_stopped, RenameArchive, BackupFails
<1>s. backup = [pc |-> backup.pc, keys |-> backup.keys, front |-> backup.front, back |-> backup.back]
  BY Zenon DEF BootInv, Shapes
<1>1. CASE restart_stopped
  <2>1. /\ backup' = [pc |-> "encrypt", keys |-> backup.keys, front |-> backup.front,
                      back |-> backup.back]
        /\ backup.pc = "staged" /\ UNCHANGED archives
    BY <1>1, <1>s, SMTT(30) DEF restart_stopped
  <2>2. BackupHolds'
    BY <1>0, <2>1, SMTT(30) DEF BootInv, BackupHolds, Whole, Archive, IsStore
  <2> QED BY <1>0, <2>1, <2>2, BackupOnly
<1>2. CASE BackupFails
  <2>1. backup' = NoBackup /\ UNCHANGED archives
    BY <1>2, Zenon DEF BackupFails
  <2>2. BackupHolds'
    BY <2>1, NoBackupIs, SMTT(30) DEF BackupHolds
  <2> QED BY <1>0, <2>1, <2>2, NoBackupIs, BackupOnly, SMTT(30)
<1>3. CASE RenameArchive
  <2>1. backup' = NoBackup /\ archives' = archives \union {Archive} /\ Whole(Archive)
    BY <1>3, ZenonT(30) DEF RenameArchive, BootInv, BackupHolds
  <2>2. BackupHolds'
    BY <2>1, NoBackupIs, Zenon DEF BackupHolds
  <2>3. ArchivesHold'
    BY <2>1, Zenon DEF BootInv, ArchivesHold, Whole, IsStore
  <2> QED BY <1>0, <2>1, <2>2, <2>3, NoBackupIs, SMTT(30)
          DEF BootInv, Shapes, HubHolds, HubServes, SecretFlushed, IsStore
<1> QED BY <1>1, <1>2, <1>3, Zenon

LEMMA BootSteps == BootInv /\ [BootNext]_bootVars => BootInv'
<1> SUFFICES ASSUME BootInv, [BootNext]_bootVars PROVE BootInv'
  BY Zenon
<1>1. CASE StartHub \/ load_or_generate_key \/ open_or_create \/ ListenOrRefuse
  BY <1>1, BootStep_start, BootStep_load, BootStep_open, BootStep_listen, SMTT(30)
<1>2. CASE ReserveDeposit \/ SettleDeposits \/ WriteBack \/ PowerCut
  BY <1>2, BootStep_reserve, BootStep_settle, BootStep_write_back, BootStep_power, SMTT(30)
<1>3. CASE BackupBegins \/ BackupStep
  BY <1>3, BootStep_begins, BootStep_copies, BootStep_ends, SMTT(30) DEF BackupStep
<1>4. CASE LoseFile \/ RestoreStore \/ Recover \/ RemoveAll \/ InstallBuild
  BY <1>4, BootStep_lose, BootStep_restore, BootStep_recover, BootStep_remove, BootStep_install, SMTT(30)
<1>5. CASE UNCHANGED bootVars
  <2>1. UNCHANGED <<build, keys, flushed, storeFile, hub, wanted, backup, archives>>
    BY <1>5, Zenon DEF bootVars
  <2>2. BackupHolds' /\ Shapes'
    BY <2>1, ZenonT(30) DEF BootInv, BackupHolds, Shapes, Whole, Archive, IsStore
  <2> QED BY <2>1, <2>2 DEF BootInv, HubHolds, HubServes, SecretFlushed, ArchivesHold, Whole, IsStore
<1> QED BY <1>1, <1>2, <1>3, <1>4, <1>5, SMTT(30) DEF BootNext

-----------------------------------------------------------------------------

\* Whatever files were lost, restored or made, a hub that serves holds the secret of every
\* deposit its store has open (validate_derived_deposit_keys, key_generation_policy).
THEOREM ServesOnlySweepable == BootSpec => []DepositsSweepable
<1>1. BootInv => DepositsSweepable
  BY SMTT(30) DEF BootInv, HubHolds, DepositsSweepable
<1> QED BY <1>1, BootStarts, BootSteps, PTL DEF BootSpec

\* No power cut can take from a serving hub the secret its open deposits were derived from:
\* it is flushed before any address is handed out (EscrowSecret::write_new_file).
THEOREM SecretOnDisk == BootSpec => []SecretReachedDisk
<1>1. BootInv => SecretReachedDisk
  BY EscrowIsAFile, SMTT(30) DEF BootInv, HubHolds, SecretFlushed, SecretReachedDisk, HubServes
<1> QED BY <1>1, BootStarts, BootSteps, PTL DEF BootSpec

\* No build ever serves a store with rows of a newer one, through any sequence of upgrades,
\* rollbacks and restored archives (SCHEMA_VERSION, open_or_create).
THEOREM NoUnreadRows == BootSpec => []RowsUnderstood
<1>1. BootInv => RowsUnderstood
  BY Zenon DEF BootInv, HubHolds, RowsUnderstood, HubServes, IsStore
<1> QED BY <1>1, BootStarts, BootSteps, PTL DEF BootSpec

\* Every archive is one state of the store with the secret of every deposit in it, though
\* the copy is made in pieces (itx-backup.sh keeps the hub stopped for all of them).
THEOREM ArchivesWhole == BootSpec => []ArchiveWhole
<1>1. BootInv => ArchiveWhole
  BY Zenon DEF BootInv, ArchivesHold, Whole, ArchiveWhole
<1> QED BY <1>1, BootStarts, BootSteps, PTL DEF BootSpec

\* The secret of every open deposit is in memory, on disk and in every archive, beside rows
\* the build understands, for any losses, restores, power cuts and changes of build.
THEOREM SecretsAreKept == BootSpec => []SecretsKept
<1>1. DepositsSweepable /\ SecretReachedDisk /\ RowsUnderstood /\ ArchiveWhole => SecretsKept
  BY Zenon DEF SecretsKept
<1> QED BY <1>1, ServesOnlySweepable, SecretOnDisk, NoUnreadRows, ArchivesWhole, PTL

=============================================================================
