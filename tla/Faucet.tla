------------------------------- MODULE Faucet -------------------------------
(***************************************************************************)
(* The faucet: the challenge book (hub/src/faucet_pow.rs), the two         *)
(* handlers that price a challenge and turn a solved one into a grant      *)
(* (handlers.rs faucet_challenge and faucet_claim), the grants and the     *)
(* networks they are counted against (board.rs), and what the store keeps  *)
(* of all three across a restart.                                          *)
(*                                                                         *)
(* Solving is not modelled: a claim presents a right solution, and a wrong *)
(* one is refused by validate with nothing changed.  How the reserved      *)
(* payment reaches the chain is module Payments.                           *)
(***************************************************************************)
EXTENDS RateLimit

CONSTANTS
    Key,                          \* the keys that ask for grants
    InHub,                        \* the requests that can be in the hub at once
    CHALLENGE_TTL,                \* CHALLENGE_TTL_SECONDS, in ticks
    REDEEMED_RETENTION,           \* REDEEMED_RETENTION_SECONDS, in ticks
    BUDGET_WINDOW,                \* FAUCET_BUDGET_WINDOW_SECONDS, in ticks
    faucet_daily_grants,
    faucet_network_share_percent,
    faucet_expected_hashes,       \* the base price
    faucet_free_grants_per_prefix,
    faucet_pow_doubling_grants,
    MAX_PREFIX_DOUBLINGS,
    Scene,                        \* the grants a behaviour may begin with, and who asks in it
    MaxChallenges,                \* bound: challenges issued
    MaxCrashes,                   \* bound: restarts
    MaxTick,                      \* bound: ticks a behaviour of the faucet lasts
    NoOne                         \* no key, no challenge

ASSUME FaucetAssumption ==
    /\ {CHALLENGE_TTL, REDEEMED_RETENTION, BUDGET_WINDOW, faucet_daily_grants,
        faucet_expected_hashes, MaxChallenges} \subseteq Nat \ {0}
    /\ {faucet_network_share_percent, faucet_free_grants_per_prefix,
        faucet_pow_doubling_grants, MAX_PREFIX_DOUBLINGS, MaxCrashes, MaxTick} \subseteq Nat
    /\ NoOne \notin InHub /\ NoOne \notin Int

VARIABLES
    by_id,         \* ChallengeBook.by_id: the challenges held in memory
    outstanding,   \* ChallengeBook.outstanding: a key's one challenge
    challenges,    \* the durable challenge table
    faucet_grants, \* when each granted key was granted, durable with its payment
    grant_prefix,  \* the network each grant is counted against, in memory
    prefix_table,  \* the same, on disk
    payout_lock,   \* the request that holds the operator's payout lock
    asking,        \* each request in the hub: its step, key and challenge
    redemptions,   \* history: how often each challenge was redeemed
    clients,       \* the addresses the behaviour's requests come from
    quoted,        \* history: the network and price each line of challenges began with
    crashes        \* restarts so far

bookVars == <<by_id, outstanding, challenges>>
grantVars == <<faucet_grants, grant_prefix, prefix_table>>
faucetVars == <<bookVars, grantVars, payout_lock, asking, redemptions, clients, quoted,
                crashes>>

----------------------------------------------------------------------------
(* Prices and limits.                                                      *)

expected_hashes_for_prefix(taken) ==
    IF taken < faucet_free_grants_per_prefix
    THEN faucet_expected_hashes
    ELSE LET step      == Max({faucet_pow_doubling_grants, 1})
             doublings == 1 + ((taken - faucet_free_grants_per_prefix) \div step)
         IN  faucet_expected_hashes * 2 ^ Min({doublings, MAX_PREFIX_DOUBLINGS})

GrantedSince == {k \in DOMAIN faucet_grants : faucet_grants[k] >= clock - BUDGET_WINDOW}

faucet_granted_from_prefix_since(p) ==
    Cardinality({k \in GrantedSince \cap DOMAIN grant_prefix : grant_prefix[k] = p})

faucet_granted_from_wide_prefix_since(wide) ==
    Cardinality({k \in GrantedSince \cap DOMAIN grant_prefix :
                    widen_prefix(grant_prefix[k]) = wide})

can_claim_faucet(k) == k \notin DOMAIN faucet_grants

faucet_budget_exhausted == Cardinality(GrantedSince) >= faucet_daily_grants

NetworkShare == Max({(faucet_daily_grants * faucet_network_share_percent) \div 100, 1})

\* A behaviour begins with no more grants than the hub could have made.
ASSUME SceneAssumption ==
    \A scene \in Scene :
        /\ IsFiniteSet(DOMAIN scene.networks)
        /\ Cardinality(DOMAIN scene.networks) <= faucet_daily_grants
        /\ faucet_network_share_percent < 100 =>
               \A k \in DOMAIN scene.networks :
                   Cardinality({j \in DOMAIN scene.networks :
                                   widen_prefix(scene.networks[j]) = widen_prefix(scene.networks[k])})
                       <= NetworkShare

faucet_network_share_exhausted(p) ==
    /\ faucet_network_share_percent < 100
    /\ faucet_granted_from_wide_prefix_since(widen_prefix(p)) >= NetworkShare

\* The refusals made before work is spent and again, under the lock, after.
Refused(k, p) ==
    ~can_claim_faucet(k) \/ faucet_budget_exhausted \/ faucet_network_share_exhausted(p)

----------------------------------------------------------------------------
(* The challenge book.                                                     *)

is_expired(c) == clock > c.expires_at

\* validate: everything but the hash.
Redeemable(k, id) ==
    /\ id \in DOMAIN by_id
    /\ by_id[id].pubkey = k /\ ~by_id[id].redeemed /\ ~is_expired(by_id[id])

\* What cleanup keeps and restore loads: a redeemed challenge outlives its expiry.
StillMatters(c) == clock <= c.expires_at + (IF c.redeemed THEN REDEEMED_RETENTION ELSE 0)

Keep(table) == [id \in {id \in DOMAIN table : StillMatters(table[id])} |-> table[id]]

\* The store's half.
save_faucet_challenge(id, c) == Insert(challenges, id, c)
prune_faucet_challenges == Keep(challenges)
save_faucet_grant_prefix(k, p) == Insert(prefix_table, k, p)

----------------------------------------------------------------------------
NotAsking == [step |-> "absent", pubkey |-> NoOne, id |-> NoOne, prefix |-> NoOne, price |-> NoOne,
              expires_at |-> NoOne]

FaucetInit ==
    /\ by_id = << >> /\ outstanding = << >> /\ challenges = << >>
    /\ \E scene \in Scene :
           /\ faucet_grants = [k \in DOMAIN scene.networks |-> clock]
           /\ grant_prefix = scene.networks
           /\ prefix_table = scene.networks
           /\ clients = scene.clients
    /\ payout_lock = NoOne
    /\ asking = [r \in InHub |-> NotAsking]
    /\ redemptions = << >>
    /\ quoted = << >>
    /\ crashes = 0

\* The payout lock's guard is dropped when the handler returns.
Release(r) == payout_lock' = IF payout_lock = r THEN NoOne ELSE payout_lock
Depart(r) == asking' = [asking EXCEPT ![r] = NotAsking] /\ Release(r)
Step(r, step) == asking' = [asking EXCEPT ![r].step = step]

\* faucet_challenge up to the issue: the refusals, then the price of the caller's network.
AskForChallenge(r, k, client) ==
    LET p == prefix_of(client)
    IN  /\ asking[r].step = "absent"
        /\ ~Refused(k, p)
        /\ asking' = [asking EXCEPT ![r] =
               [NotAsking EXCEPT !.step = "issue", !.pubkey = k, !.prefix = p,
                !.price = expected_hashes_for_prefix(faucet_granted_from_prefix_since(p))]]
        /\ UNCHANGED <<limitVars, bookVars, grantVars, payout_lock, redemptions, clients, quoted, crashes>>

\* Challenge::issue, for the key, network and price of request r.
Challenge(r, expires_at) ==
    [pubkey |-> asking[r].pubkey, prefix |-> asking[r].prefix, price |-> asking[r].price,
     expires_at |-> expires_at, redeemed |-> FALSE]

\* issue_at_target, first the durable record, without which there is no challenge.
SaveChallenge(r) ==
    LET id    == Cardinality(DOMAIN quoted) + 1
        first == asking[r].id     \* the spent challenge this one replaces, if any
    IN  /\ asking[r].step = "issue"
        /\ id <= MaxChallenges
        /\ \/ /\ challenges' = save_faucet_challenge(id, Challenge(r, clock + CHALLENGE_TTL))
              /\ quoted' = Insert(quoted, id,
                                   IF first = NoOne
                                   THEN [prefix |-> asking[r].prefix, price |-> asking[r].price]
                                   ELSE quoted[first])
              /\ redemptions' = Insert(redemptions, id, 0)
              /\ asking' = [asking EXCEPT ![r].step = "evict", ![r].id = id,
                                          ![r].expires_at = clock + CHALLENGE_TTL]
              /\ UNCHANGED payout_lock
           \/ /\ Depart(r)
              /\ UNCHANGED <<challenges, quoted, redemptions>>
        /\ UNCHANGED <<limitVars, by_id, outstanding, grantVars, clients, crashes>>

\* ... then the key's previous challenge leaves memory,
EvictPrevious(r) ==
    LET k == asking[r].pubkey
    IN  /\ asking[r].step = "evict"
        /\ by_id' = [id \in DOMAIN by_id \ (IF k \in DOMAIN outstanding THEN {outstanding[k]} ELSE {})
                        |-> by_id[id]]
        /\ Step(r, "publish")
        /\ UNCHANGED <<limitVars, outstanding, challenges, grantVars, payout_lock, redemptions,
                       clients, quoted, crashes>>

\* ... and the new one enters it.
Publish(r) ==
    /\ asking[r].step = "publish"
    /\ outstanding' = Insert(outstanding, asking[r].pubkey, asking[r].id)
    /\ by_id' = Insert(by_id, asking[r].id, Challenge(r, asking[r].expires_at))
    /\ Depart(r)
    /\ UNCHANGED <<limitVars, challenges, grantVars, redemptions, clients, quoted, crashes>>

\* faucet_claim begins with check, which spends nothing.
Check(r, k, id) ==
    /\ asking[r].step = "absent"
    /\ Redeemable(k, id)
    /\ asking' = [asking EXCEPT ![r] = [NotAsking EXCEPT !.step = "preflight", !.pubkey = k, !.id = id]]
    /\ UNCHANGED <<limitVars, bookVars, grantVars, payout_lock, redemptions, clients, quoted, crashes>>

\* What the node may answer of the operator's balance; a node that does not answer is not
\* an empty wallet.
operator_can_fund_a_grant == BOOLEAN

\* The advisory refusals; an unfunded operator refuses too and costs nothing.
Preflight(r) ==
    LET id      == asking[r].id
        refused == \/ ~can_claim_faucet(asking[r].pubkey) \/ faucet_budget_exhausted
                   \/ id \in DOMAIN by_id /\ faucet_network_share_exhausted(by_id[id].prefix)
    IN  /\ asking[r].step = "preflight"
        /\ \E funded \in operator_can_fund_a_grant :
               IF funded /\ ~refused THEN Step(r, "redeem") /\ UNCHANGED payout_lock
               ELSE Depart(r)
        /\ UNCHANGED <<limitVars, bookVars, grantVars, redemptions, clients, quoted, crashes>>

\* The durable half of redeem.
RedeemedOnDisk(id) == save_faucet_challenge(id, [by_id[id] EXCEPT !.redeemed = TRUE])

\* redeem: validated again and saved before anything is paid.
Redeem(r) ==
    LET id == asking[r].id
    IN  /\ asking[r].step = "redeem"
        /\ \/ /\ Redeemable(asking[r].pubkey, id)
              /\ challenges' = RedeemedOnDisk(id)
              /\ by_id' = [by_id EXCEPT ![id].redeemed = TRUE]
              /\ outstanding' = [k \in DOMAIN outstanding \ {asking[r].pubkey} |-> outstanding[k]]
              /\ redemptions' = [redemptions EXCEPT ![id] = @ + 1]
              /\ asking' = [asking EXCEPT ![r].step = "lock", ![r].prefix = by_id[id].prefix,
                                          ![r].price = by_id[id].price]
              /\ UNCHANGED payout_lock
           \/ Depart(r) /\ UNCHANGED <<bookVars, redemptions>>
        /\ UNCHANGED <<limitVars, grantVars, clients, quoted, crashes>>

\* grant_unfunded after the redemption: a replacement, priced as the spent one was.
Replacement(r) == [asking[r] EXCEPT !.step = "issue"]

\* Faulty variant: the budget read before the redemption is taken for final.
BudgetNotReread(r) ==
    ~can_claim_faucet(asking[r].pubkey) \/ faucet_network_share_exhausted(asking[r].prefix)

\* The refusals that bind, read under the payout lock.
RefusedUnderLock(r) == Refused(asking[r].pubkey, asking[r].prefix)

\* Under the lock: refuse, or build the payment, which may find nothing to spend.
Decide(r) ==
    /\ asking[r].step = "lock"
    /\ payout_lock = NoOne
    /\ \/ RefusedUnderLock(r) /\ Depart(r)
       \/ /\ ~RefusedUnderLock(r)
          /\ payout_lock' = r
          /\ \/ Step(r, "prepare")
             \/ asking' = [asking EXCEPT ![r] = Replacement(r)]
       \/ ~RefusedUnderLock(r) /\ Depart(r)      \* any other failure to build
    /\ UNCHANGED <<limitVars, bookVars, grantVars, redemptions, clients, quoted, crashes>>

\* payments::prepare reserves the grant with its payment in one transaction.
PrepareGrant(r) ==
    /\ asking[r].step = "prepare"
    /\ \/ /\ can_claim_faucet(asking[r].pubkey)
          /\ faucet_grants' = Insert(faucet_grants, asking[r].pubkey, clock)
          /\ Step(r, "network")
          /\ UNCHANGED payout_lock
       \/ Depart(r) /\ UNCHANGED faucet_grants
    /\ UNCHANGED <<limitVars, bookVars, grant_prefix, prefix_table, redemptions, clients, quoted, crashes>>

\* The network is recorded after the grant, on disk if the disk will have it; sending
\* the payment and answering change nothing here.
RecordNetwork(r) ==
    /\ asking[r].step = "network"
    /\ grant_prefix' = Insert(grant_prefix, asking[r].pubkey, asking[r].prefix)
    /\ prefix_table' \in {prefix_table, save_faucet_grant_prefix(asking[r].pubkey, asking[r].prefix)}
    /\ Depart(r)
    /\ UNCHANGED <<limitVars, bookVars, faucet_grants, redemptions, clients, quoted, crashes>>

\* The sweep: cleanup of both halves on one horizon, the disk half if it can.
CleanupChallenges ==
    /\ by_id' = Keep(by_id)
    /\ outstanding' = [k \in {k \in DOMAIN outstanding : outstanding[k] \in DOMAIN by_id'}
                          |-> outstanding[k]]
    /\ challenges' \in {challenges, prune_faucet_challenges}
    /\ UNCHANGED <<limitVars, grantVars, payout_lock, asking, redemptions, clients, quoted, crashes>>

\* The process dies and ChallengeBook::restore reads back what still matters; of a key's
\* unredeemed challenges the last one read is the outstanding one.
RestartFaucet ==
    LET held == Keep(challenges)
        open(k) == {id \in DOMAIN held : held[id].pubkey = k /\ ~held[id].redeemed}
    IN  /\ crashes < MaxCrashes
        /\ crashes' = crashes + 1
        /\ by_id' = held
        /\ outstanding' \in {f \in [{k \in Key : open(k) # {}} -> DOMAIN held] :
                                \A k \in DOMAIN f : f[k] \in open(k)}
        /\ grant_prefix' = prefix_table
        /\ payout_lock' = NoOne
        /\ asking' = [r \in InHub |-> NotAsking]
        /\ UNCHANGED <<limitVars, challenges, faucet_grants, prefix_table, redemptions, clients, quoted>>

FaucetNext ==
    \/ \E r \in InHub :
          \/ \E k \in Key, client \in clients : AskForChallenge(r, k, client)
          \/ SaveChallenge(r) \/ EvictPrevious(r) \/ Publish(r)
          \/ \E k \in Key, id \in DOMAIN by_id : Check(r, k, id)
          \/ Preflight(r) \/ Redeem(r) \/ Decide(r) \/ PrepareGrant(r) \/ RecordNetwork(r)
    \/ CleanupChallenges
    \/ RestartFaucet
    \/ clock < MaxTick /\ Tick /\ UNCHANGED faucetVars

FaucetSpec == LimitInit /\ FaucetInit /\ [][FaucetNext]_<<limitVars, faucetVars>>

----------------------------------------------------------------------------
(* Properties.                                                             *)

\* A solved challenge is spent at most once, whatever requests present it together and
\* whether or not the hub restarts in between (faucet_pow.rs redeem, restore, cleanup).
RedeemedOnce == \A id \in DOMAIN redemptions : redemptions[id] <= 1

\* The hub never makes more than the day's grants in any budget window, however many
\* claims race for the last one (handlers.rs faucet_budget_exhausted, under the lock).
BudgetHeld == Cardinality(GrantedSince) <= faucet_daily_grants

\* No block of networks holds more than its share of the grants counted in a window
\* (handlers.rs faucet_network_share_exhausted).
ShareHeld ==
    faucet_network_share_percent < 100 =>
        \A client \in clients :
            faucet_granted_from_wide_prefix_since(wide_prefix_of(client)) <= NetworkShare

\* A challenge, replacements for unfunded grants included, keeps the network and the
\* price its line was first quoted (handlers.rs GrantUnfunded::AfterRedemption).
PricedAsQuoted ==
    \A id \in DOMAIN challenges : /\ challenges[id].prefix = quoted[id].prefix
                                  /\ challenges[id].price = quoted[id].price

\* What the faucet gives away: a challenge pays once and at the price it was quoted, and
\* neither the day's grants nor a block's share of them are exceeded, however many claims
\* race (faucet_pow.rs, handlers.rs).
GrantsSound == RedeemedOnce /\ PricedAsQuoted /\ BudgetHeld /\ ShareHeld
=============================================================================
