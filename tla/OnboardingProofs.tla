-------------------------- MODULE OnboardingProofs --------------------------
(***************************************************************************)
(* What a newcomer gets from the hub, for any keys, requests, networks and *)
(* limits: a name of its own (Names) and at most one grant for a solved    *)
(* challenge, within the day's budget and its network's share (Faucet).    *)
(***************************************************************************)
EXTENDS Faucet, Names, FiniteSetTheorems, TLAPS

(***************************************************************************)
(* The requests inside the faucet.                                         *)
(***************************************************************************)

AskShape(a) ==
    a = [step |-> a.step, pubkey |-> a.pubkey, id |-> a.id, prefix |-> a.prefix, price |-> a.price,
         expires_at |-> a.expires_at]

Asks ==
    /\ asking = [r \in InHub |-> asking[r]]
    /\ \A r \in InHub : AskShape(asking[r])

Others(r) == \A q \in InHub : q # r => asking'[q] = asking[q]

\* One request changes, the others stay as they were.
LEMMA AskChanges ==
    ASSUME Asks, NEW r \in InHub, NEW a, AskShape(a), asking' = [asking EXCEPT ![r] = a]
    PROVE  Asks' /\ asking'[r] = a /\ Others(r)
  BY Zenon DEF Asks, Others

\* A request moves to another step with everything else it holds.
LEMMA AskSteps ==
    ASSUME Asks, NEW r \in InHub, NEW step, asking' = [asking EXCEPT ![r].step = step]
    PROVE  /\ Asks' /\ Others(r)
           /\ asking'[r].step = step /\ asking'[r].pubkey = asking[r].pubkey
           /\ asking'[r].id = asking[r].id /\ asking'[r].prefix = asking[r].prefix
           /\ asking'[r].price = asking[r].price
<1>1. asking' = [x \in InHub |-> asking'[x]] /\ Others(r)
      /\ asking'[r] = [asking[r] EXCEPT !.step = step]
  BY Zenon DEF Asks, Others
<1>2. /\ asking'[r].step = step /\ asking'[r].pubkey = asking[r].pubkey
      /\ asking'[r].id = asking[r].id /\ asking'[r].prefix = asking[r].prefix
      /\ asking'[r].price = asking[r].price /\ asking'[r].expires_at = asking[r].expires_at
  BY <1>1 DEF Asks, AskShape
<1>3. AskShape(asking'[r])
  BY <1>1, <1>2, Zenon DEF Asks, AskShape
<1> QED BY <1>1, <1>2, <1>3, Zenon DEF Asks, Others

LEMMA NotAskingIs == AskShape(NotAsking) /\ NotAsking.step = "absent"
  BY Zenon DEF AskShape, NotAsking

\* What a request holds when it comes in.
LEMMA CheckingIs ==
    ASSUME NEW k, NEW id, NEW a, a = [NotAsking EXCEPT !.step = "preflight", !.pubkey = k, !.id = id]
    PROVE  AskShape(a) /\ a.step = "preflight"
  BY ZenonT(30) DEF AskShape, NotAsking

\* A request leaves, and with it the lock if it was its own.
LEMMA Departs ==
    ASSUME Asks, NEW r \in InHub, Depart(r)
    PROVE  /\ Asks' /\ Others(r) /\ asking'[r].step = "absent"
           /\ payout_lock' # r => payout_lock' = payout_lock \/ payout_lock = r
           /\ payout_lock # r => payout_lock' = payout_lock
  BY AskChanges, NotAskingIs, ZenonT(30) DEF Depart, Release
(***************************************************************************)
(* The challenge book.                                                     *)
(***************************************************************************)

\* A request's network and price are the ones its challenge's line was quoted.
AsQuoted(r) ==
    /\ asking[r].id \in DOMAIN quoted
    /\ asking[r].prefix = quoted[asking[r].id].prefix /\ asking[r].price = quoted[asking[r].id].price

ChallengeShape(c) ==
    c = [pubkey |-> c.pubkey, prefix |-> c.prefix, price |-> c.price, expires_at |-> c.expires_at,
         redeemed |-> c.redeemed]

\* What memory or the store holds of a challenge; once spent, both know it.
Sound(id, c) ==
    /\ ChallengeShape(c)
    /\ c.prefix = quoted[id].prefix /\ c.price = quoted[id].price
    /\ redemptions[id] = 1 => c.redeemed

Ids ==
    /\ \E n \in Nat : DOMAIN quoted = 1 .. n
    /\ redemptions \in [DOMAIN quoted -> {0, 1}]
    /\ by_id = [id \in DOMAIN by_id |-> by_id[id]]
    /\ DOMAIN by_id \subseteq DOMAIN quoted /\ DOMAIN challenges \subseteq DOMAIN quoted

Books ==
    /\ \A id \in DOMAIN by_id : Sound(id, by_id[id])
    /\ \A id \in DOMAIN challenges : Sound(id, challenges[id])

\* A challenge on its way into memory is not there yet, unspent, and only one request
\* carries it.
Issuing ==
    \A r \in InHub :
        /\ asking[r].step \in {"evict", "publish"} =>
               /\ AsQuoted(r) /\ asking[r].id \notin DOMAIN by_id /\ redemptions[asking[r].id] = 0
               /\ \A q \in InHub :
                      asking[q].step \in {"evict", "publish"} /\ asking[q].id = asking[r].id => q = r
        /\ asking[r].step \in {"lock", "prepare"} => AsQuoted(r)
        /\ asking[r].step = "issue" => asking[r].id = NoOne \/ AsQuoted(r)

BookInv == Asks /\ Ids /\ Books /\ Issuing

LEMMA BookStarts == LimitInit /\ FaucetInit => BookInv
<1> SUFFICES ASSUME FaucetInit PROVE BookInv
  BY Zenon
<1>1. Asks /\ \A r \in InHub : asking[r].step = "absent"
  BY NotAskingIs, Zenon DEF FaucetInit, Asks
<1>2. DOMAIN by_id = {} /\ DOMAIN challenges = {} /\ DOMAIN quoted = {} /\ DOMAIN redemptions = {}
  BY DEF FaucetInit
<1>3. \E n \in Nat : DOMAIN quoted = 1 .. n
  <2>1. DOMAIN quoted = 1 .. 0
    BY <1>2
  <2> QED BY <2>1, Zenon
<1>4. Ids
  BY <1>2, <1>3 DEF Ids, FaucetInit
<1> QED BY <1>1, <1>2, <1>4, Zenon DEF BookInv, Books, Issuing

\* A request that stays clear of the book: it leaves, or moves with what it holds.
LEMMA BookUntouched ==
    ASSUME BookInv, Asks', UNCHANGED <<bookVars, redemptions, quoted>>, NEW r \in InHub, Others(r),
           \/ asking'[r].step \in {"absent", "preflight", "redeem", "network"}
           \/ asking'[r].step = "issue" /\ asking'[r].id = NoOne
           \/ /\ asking'[r].step \in {"lock", "prepare", "issue"} /\ AsQuoted(r)
              /\ asking'[r].id = asking[r].id /\ asking'[r].prefix = asking[r].prefix
              /\ asking'[r].price = asking[r].price
    PROVE  BookInv'
<1>1. UNCHANGED <<by_id, outstanding, challenges, redemptions, quoted>>
  BY Zenon DEF bookVars
<1>2. Ids' /\ Books'
  BY <1>1 DEF BookInv, Ids, Books, Sound
<1>3. ASSUME NEW q \in InHub, q # r
      PROVE  asking'[q] = asking[q] /\ (AsQuoted(q) => AsQuoted(q)')
  BY <1>1, <1>3, Zenon DEF Others, AsQuoted
<1>4. asking'[r].step \notin {"evict", "publish"}
      /\ (asking'[r].step \in {"lock", "prepare"} => AsQuoted(r)')
      /\ (asking'[r].step = "issue" => asking'[r].id = NoOne \/ AsQuoted(r)')
  BY <1>1, Zenon DEF AsQuoted
<1>5. Issuing'
  BY <1>1, <1>3, <1>4 DEF BookInv, Issuing
<1> QED BY <1>2, <1>5, Zenon DEF BookInv

LEMMA BookStep_ask ==
    ASSUME BookInv, NEW r \in InHub, NEW k, NEW client, AskForChallenge(r, k, client)
    PROVE  BookInv'
<1> DEFINE p == prefix_of(client)
           price == expected_hashes_for_prefix(faucet_granted_from_prefix_since(p))
<1>1. PICK a : a = [NotAsking EXCEPT !.step = "issue", !.pubkey = k, !.prefix = p, !.price = price]
  BY Zenon
<1>2. asking' = [asking EXCEPT ![r] = a] /\ UNCHANGED <<bookVars, redemptions, quoted>>
  BY <1>1, Zenon DEF AskForChallenge
<1> HIDE DEF p, price
<1>3. AskShape(a) /\ a.step = "issue" /\ a.id = NoOne
  BY <1>1, ZenonT(30) DEF AskShape, NotAsking
<1> QED BY <1>2, <1>3, AskChanges, BookUntouched, ZenonT(30) DEF BookInv

LEMMA BookStep_check ==
    ASSUME BookInv, NEW r \in InHub, NEW k, NEW id, Check(r, k, id)
    PROVE  BookInv'
<1> DEFINE a == [NotAsking EXCEPT !.step = "preflight", !.pubkey = k, !.id = id]
<1>1. asking' = [asking EXCEPT ![r] = a] /\ UNCHANGED <<bookVars, redemptions, quoted>>
  BY Zenon DEF Check
<1>2. AskShape(a) /\ a.step = "preflight"
  BY CheckingIs, ZenonT(30)
<1> HIDE DEF a
<1> QED BY <1>1, <1>2, AskChanges, BookUntouched, ZenonT(30) DEF BookInv

LEMMA BookStep_leaves ==
    ASSUME BookInv, NEW r \in InHub, Depart(r), UNCHANGED <<bookVars, redemptions, quoted>>
    PROVE  BookInv'
  BY Departs, BookUntouched, Zenon DEF BookInv

LEMMA BookStep_preflight ==
    ASSUME BookInv, NEW r \in InHub, Preflight(r)
    PROVE  BookInv'
<1>1. UNCHANGED <<bookVars, redemptions, quoted>> /\ (Step(r, "redeem") \/ Depart(r))
  BY Zenon DEF Preflight
<1> QED BY <1>1, BookStep_leaves, AskSteps, BookUntouched DEF BookInv, Step

LEMMA BookStep_decide ==
    ASSUME BookInv, NEW r \in InHub, Decide(r)
    PROVE  BookInv'
<1>1. asking[r].step = "lock" /\ UNCHANGED <<bookVars, redemptions, quoted>> /\ AsQuoted(r) /\ Asks
  BY Zenon DEF Decide, BookInv, Issuing
<1>2. Depart(r) \/ Step(r, "prepare") \/ asking' = [asking EXCEPT ![r] = Replacement(r)]
  BY Zenon DEF Decide
<1>3. CASE Depart(r)
  BY <1>1, <1>3, BookStep_leaves, Zenon
<1>4. CASE Step(r, "prepare")
  <2>1. asking' = [asking EXCEPT ![r].step = "prepare"]
    BY <1>4, Zenon DEF Step
  <2> QED BY <1>1, <2>1, AskSteps, BookUntouched, ZenonT(30)
<1>5. CASE asking' = [asking EXCEPT ![r] = Replacement(r)]
  <2>1. asking' = [asking EXCEPT ![r].step = "issue"]
    BY <1>1, <1>5, Zenon DEF Replacement, Asks
  <2> QED BY <1>1, <2>1, AskSteps, BookUntouched, ZenonT(30)
<1> QED BY <1>2, <1>3, <1>4, <1>5, Zenon

LEMMA BookStep_grant ==
    ASSUME BookInv, NEW r \in InHub, PrepareGrant(r) \/ RecordNetwork(r)
    PROVE  BookInv'
<1>1. UNCHANGED <<bookVars, redemptions, quoted>> /\ (Step(r, "network") \/ Depart(r))
  BY Zenon DEF PrepareGrant, RecordNetwork
<1> QED BY <1>1, BookStep_leaves, AskSteps, BookUntouched DEF BookInv, Step

\* A new challenge gets an id no challenge ever had.
LEMMA BookStep_save ==
    ASSUME BookInv, NEW r \in InHub, SaveChallenge(r)
    PROVE  BookInv'
<1>1. CASE Depart(r) /\ UNCHANGED <<challenges, quoted, redemptions>>
  BY <1>1, BookStep_leaves, Zenon DEF SaveChallenge, bookVars
<1>2. ASSUME ~ (Depart(r) /\ UNCHANGED <<challenges, quoted, redemptions>>)
      PROVE  BookInv'
  <2>0. PICK n \in Nat : DOMAIN quoted = 1 .. n
    BY Zenon DEF BookInv, Ids
  <2>1. PICK id \in Nat : id = n + 1 /\ id = Cardinality(DOMAIN quoted) + 1
    <3>1. Cardinality(1 .. n) = n
      BY FS_Interval
    <3> QED BY <2>0, <3>1
  <2> DEFINE c == Challenge(r, clock + CHALLENGE_TTL)
             line == IF asking[r].id = NoOne
                     THEN [prefix |-> asking[r].prefix, price |-> asking[r].price]
                     ELSE quoted[asking[r].id]
  <2>2. /\ asking[r].step = "issue" /\ UNCHANGED <<by_id, outstanding>>
        /\ challenges' = Insert(challenges, id, c) /\ quoted' = Insert(quoted, id, line)
        /\ redemptions' = Insert(redemptions, id, 0)
        /\ asking' = [asking EXCEPT ![r].step = "evict", ![r].id = id,
                                    ![r].expires_at = clock + CHALLENGE_TTL]
    BY <1>2, <2>1, ZenonT(30) DEF SaveChallenge, save_faucet_challenge
  <2>3. /\ ChallengeShape(c) /\ c.prefix = asking[r].prefix /\ c.price = asking[r].price
    BY Zenon DEF Challenge, ChallengeShape
  <2>4. line.prefix = asking[r].prefix /\ line.price = asking[r].price
    BY <2>2, Zenon DEF BookInv, Issuing, AsQuoted
  <2> HIDE DEF c, line
  <2>5. /\ DOMAIN quoted' = 1 .. (n + 1) /\ id \notin DOMAIN quoted /\ id \in DOMAIN quoted'
        /\ quoted'[id] = line /\ \A x \in DOMAIN quoted : x \in DOMAIN quoted' /\ quoted'[x] = quoted[x]
    BY <2>0, <2>1, <2>2 DEF Insert
  <2>6. /\ redemptions' \in [DOMAIN quoted' -> {0, 1}] /\ redemptions'[id] = 0
        /\ \A x \in DOMAIN quoted : redemptions'[x] = redemptions[x]
    BY <2>0, <2>1, <2>2, <2>5, Zenon DEF Insert, BookInv, Ids
  <2>7. /\ DOMAIN challenges' = DOMAIN challenges \cup {id} /\ challenges'[id] = c
        /\ \A x \in DOMAIN challenges : x # id => challenges'[x] = challenges[x]
    BY <2>2, Zenon DEF Insert
  <2>8. Ids'
    BY <2>1, <2>2, <2>5, <2>6, <2>7 DEF BookInv, Ids
  <2>9. Books'
    <3>1. \A x \in DOMAIN by_id' : Sound(x, by_id[x])'
      BY <2>2, <2>5, <2>6 DEF BookInv, Ids, Books, Sound
    <3>2. Sound(id, challenges[id])'
      BY <2>3, <2>4, <2>5, <2>6, <2>7, SMTT(30) DEF Sound
    <3>3. ASSUME NEW x \in DOMAIN challenges, x # id PROVE Sound(x, challenges[x])'
      BY <2>5, <2>6, <2>7, <3>3 DEF BookInv, Ids, Books, Sound
    <3> QED BY <2>7, <3>1, <3>2, <3>3, Zenon DEF Books
  <2>10. /\ Asks' /\ Others(r) /\ asking'[r].step = "evict" /\ asking'[r].id = id
         /\ asking'[r].prefix = asking[r].prefix /\ asking'[r].price = asking[r].price
    <3>1. asking' = [x \in InHub |-> asking'[x]] /\ Others(r)
          /\ asking'[r] = [asking[r] EXCEPT !.step = "evict", !.id = id, !.expires_at = clock + CHALLENGE_TTL]
      BY <2>2, ZenonT(30) DEF BookInv, Asks, Others
    <3>2. /\ asking'[r].step = "evict" /\ asking'[r].id = id /\ asking'[r].pubkey = asking[r].pubkey
          /\ asking'[r].prefix = asking[r].prefix /\ asking'[r].price = asking[r].price
          /\ asking'[r].expires_at = clock + CHALLENGE_TTL
      BY <3>1, Zenon DEF BookInv, Asks, AskShape
    <3>3. AskShape(asking'[r])
      BY <3>1, <3>2, ZenonT(30) DEF BookInv, Asks, AskShape
    <3> QED BY <3>1, <3>2, <3>3, Zenon DEF BookInv, Asks, Others
  <2>11. ASSUME NEW q \in InHub, q # r
         PROVE  /\ asking'[q] = asking[q]
                /\ AsQuoted(q) => AsQuoted(q)' /\ asking[q].id # id
    BY <2>5, <2>10, <2>11 DEF Others, AsQuoted
  <2>12. Issuing'
    <3>1. AsQuoted(r)' /\ id \notin DOMAIN by_id' /\ redemptions'[id] = 0
      BY <2>2, <2>4, <2>5, <2>6, <2>10, SMTT(30) DEF AsQuoted, BookInv, Ids
    <3>2. ASSUME NEW q \in InHub, q # r, asking[q].step \in {"evict", "publish"}
          PROVE  /\ AsQuoted(q)' /\ asking[q].id # id /\ asking[q].id \notin DOMAIN by_id
                 /\ redemptions'[asking[q].id] = 0
      BY <2>6, <2>11, <3>2 DEF BookInv, Issuing, AsQuoted
    <3>3. ASSUME NEW q \in InHub, asking'[q].step \in {"evict", "publish"}
          PROVE  /\ AsQuoted(q)' /\ asking'[q].id \notin DOMAIN by_id' /\ redemptions'[asking'[q].id] = 0
                 /\ \A p \in InHub :
                        asking'[p].step \in {"evict", "publish"} /\ asking'[p].id = asking'[q].id => p = q
      <4>1. CASE q = r
        BY <2>10, <2>11, <3>1, <3>2, <4>1, Zenon
      <4>2. CASE q # r
        <5>1. asking'[q] = asking[q] /\ asking[q].step \in {"evict", "publish"}
          BY <2>11, <3>3, <4>2, Zenon
        <5>2. AsQuoted(q)' /\ asking[q].id # id /\ asking[q].id \notin DOMAIN by_id
              /\ redemptions'[asking[q].id] = 0
          BY <3>2, <4>2, <5>1, Zenon
        <5>3. ASSUME NEW p \in InHub, asking'[p].step \in {"evict", "publish"}, asking'[p].id = asking'[q].id
              PROVE  p = q
          <6>1. p # r
            BY <2>10, <5>1, <5>2, <5>3, Zenon
          <6> QED BY <2>11, <5>1, <5>3, <6>1, Zenon DEF BookInv, Issuing
        <5> QED BY <2>2, <5>1, <5>2, <5>3, ZenonT(30)
      <4> QED BY <4>1, <4>2, Zenon
    <3>4. ASSUME NEW q \in InHub
          PROVE  /\ asking'[q].step \in {"lock", "prepare"} => AsQuoted(q)'
                 /\ asking'[q].step = "issue" => asking'[q].id = NoOne \/ AsQuoted(q)'
      BY <2>10, <2>11, Zenon DEF BookInv, Issuing
    <3> QED BY <3>3, <3>4, Zenon DEF Issuing
  <2> QED BY <2>8, <2>9, <2>10, <2>12, Zenon DEF BookInv
<1> QED BY <1>1, <1>2, Zenon

LEMMA BookStep_evict ==
    ASSUME BookInv, NEW r \in InHub, EvictPrevious(r)
    PROVE  BookInv'
<1>1. /\ asking[r].step = "evict" /\ asking' = [asking EXCEPT ![r].step = "publish"]
      /\ UNCHANGED <<challenges, redemptions, quoted>>
  BY Zenon DEF EvictPrevious, Step
<1>2. /\ DOMAIN by_id' \subseteq DOMAIN by_id /\ by_id' = [id \in DOMAIN by_id' |-> by_id'[id]]
      /\ \A id \in DOMAIN by_id' : by_id'[id] = by_id[id]
  BY Zenon DEF EvictPrevious
<1>3. /\ Asks' /\ Others(r) /\ asking'[r].step = "publish" /\ asking'[r].id = asking[r].id
      /\ asking'[r].prefix = asking[r].prefix /\ asking'[r].price = asking[r].price
  BY <1>1, AskSteps, ZenonT(30) DEF BookInv
<1>4. Ids' /\ Books'
  BY <1>1, <1>2 DEF BookInv, Ids, Books, Sound
<1>5. \A q \in InHub : /\ AsQuoted(q)' <=> AsQuoted(q)
                       /\ asking'[q].id = asking[q].id
                       /\ asking'[q].step \in {"evict", "publish"} <=> asking[q].step \in {"evict", "publish"}
                       /\ asking'[q].step \in {"lock", "prepare"} <=> asking[q].step \in {"lock", "prepare"}
                       /\ asking'[q].step = "issue" <=> asking[q].step = "issue"
  BY <1>1, <1>3 DEF Others, AsQuoted
<1>6. Issuing'
  BY <1>1, <1>2, <1>5 DEF BookInv, Issuing
<1> QED BY <1>3, <1>4, <1>6, Zenon DEF BookInv

LEMMA BookStep_publish ==
    ASSUME BookInv, NEW r \in InHub, Publish(r)
    PROVE  BookInv'
<1>0. AsQuoted(r) /\ asking[r].step = "publish" /\ redemptions[asking[r].id] = 0
  BY Zenon DEF BookInv, Issuing, Publish
<1>1. PICK i : i = asking[r].id /\ i \in DOMAIN quoted
  BY <1>0, Zenon DEF AsQuoted
<1>2. PICK c : c = Challenge(r, asking[r].expires_at)
  BY Zenon
<1>3. /\ UNCHANGED <<challenges, redemptions, quoted>> /\ Depart(r) /\ by_id' = Insert(by_id, i, c)
  BY <1>1, <1>2, Zenon DEF Publish
<1>4. ChallengeShape(c) /\ c.prefix = asking[r].prefix /\ c.price = asking[r].price
  BY <1>2, Zenon DEF Challenge, ChallengeShape
<1>5. /\ DOMAIN by_id' = DOMAIN by_id \cup {i} /\ by_id' = [id \in DOMAIN by_id' |-> by_id'[id]]
      /\ by_id'[i] = c /\ \A id \in DOMAIN by_id : id # i => by_id'[id] = by_id[id]
  BY <1>3, Zenon DEF Insert
<1>6. Asks' /\ Others(r) /\ asking'[r].step = "absent"
  BY <1>3, Departs, Zenon DEF BookInv
<1>7. Ids'
  BY <1>1, <1>3, <1>5, Zenon DEF BookInv, Ids
<1>8. Books'
  <2>1. Sound(i, c)'
    BY <1>0, <1>1, <1>3, <1>4 DEF Sound, AsQuoted
  <2>2. \A id \in DOMAIN by_id : Sound(id, by_id[id]) => (id # i => Sound(id, by_id[id])')
    BY <1>3, <1>5, Zenon DEF Sound
  <2>3. \A id \in DOMAIN challenges' : Sound(id, challenges[id])'
    BY <1>3, Zenon DEF Sound, BookInv, Books
  <2> QED BY <1>5, <2>1, <2>2, <2>3, SMTT(30) DEF BookInv, Books, Sound
<1>9. Issuing'
  <2>1. ASSUME NEW q \in InHub, q # r, asking[q].step \in {"evict", "publish"}
        PROVE  asking[q].id # i
    BY <1>0, <1>1, <2>1, Zenon DEF BookInv, Issuing
  <2>2. ASSUME NEW q \in InHub, q # r PROVE asking'[q] = asking[q] /\ (AsQuoted(q)' <=> AsQuoted(q))
    BY <1>3, <1>6, <2>2, Zenon DEF Others, AsQuoted
  <2> QED BY <1>3, <1>5, <1>6, <2>1, <2>2, SMTT(30) DEF BookInv, Issuing
<1> QED BY <1>6, <1>7, <1>8, <1>9, Zenon DEF BookInv

LEMMA RedeemedIs ==
    ASSUME NEW b, ChallengeShape(b), NEW c, c = [b EXCEPT !.redeemed = TRUE]
    PROVE  ChallengeShape(c) /\ c.redeemed /\ c.prefix = b.prefix /\ c.price = b.price
<1>1. c.redeemed = TRUE /\ c.prefix = b.prefix /\ c.price = b.price /\ c.pubkey = b.pubkey
      /\ c.expires_at = b.expires_at
  BY Zenon DEF ChallengeShape
<1>2. ChallengeShape(c)
  BY <1>1, ZenonT(30) DEF ChallengeShape
<1> QED BY <1>1, <1>2, Zenon

\* A challenge can be redeemed only while neither half of the book has it redeemed.
LEMMA BookStep_redeem ==
    ASSUME BookInv, NEW r \in InHub, Redeem(r)
    PROVE  BookInv'
<1>1. CASE Depart(r) /\ UNCHANGED <<bookVars, redemptions>>
  BY <1>1, BookStep_leaves, Zenon DEF Redeem
<1>2. ASSUME ~ (Depart(r) /\ UNCHANGED <<bookVars, redemptions>>) PROVE BookInv'
  <2>1. PICK i : i = asking[r].id
    BY Zenon
  <2>2. /\ i \in DOMAIN by_id /\ ~ by_id[i].redeemed /\ UNCHANGED quoted
        /\ challenges' = Insert(challenges, i, [by_id[i] EXCEPT !.redeemed = TRUE])
        /\ by_id' = [by_id EXCEPT ![i].redeemed = TRUE]
        /\ redemptions' = [redemptions EXCEPT ![i] = @ + 1]
        /\ asking' = [asking EXCEPT ![r].step = "lock", ![r].prefix = by_id[i].prefix,
                                    ![r].price = by_id[i].price]
    BY <1>2, <2>1, Zenon DEF Redeem, Redeemable, RedeemedOnDisk, save_faucet_challenge
  <2>3. PICK c : c = [by_id[i] EXCEPT !.redeemed = TRUE]
    BY ZenonT(30)
  <2>4. ChallengeShape(c) /\ c.redeemed /\ c.prefix = by_id[i].prefix /\ c.price = by_id[i].price
    <3>1. ChallengeShape(by_id[i])
      BY <2>2, Zenon DEF BookInv, Books, Sound
    <3> QED BY <2>3, <3>1, RedeemedIs, Zenon
  <2>5. /\ DOMAIN by_id' = DOMAIN by_id /\ by_id' = [id \in DOMAIN by_id' |-> by_id'[id]] /\ by_id'[i] = c
        /\ \A id \in DOMAIN by_id : id # i => by_id'[id] = by_id[id]
    BY <2>2, <2>3, ZenonT(30) DEF BookInv, Ids
  <2>6. /\ DOMAIN challenges' = DOMAIN challenges \cup {i} /\ challenges'[i] = c
        /\ \A id \in DOMAIN challenges : id # i => challenges'[id] = challenges[id]
    BY <2>2, <2>3, Zenon DEF Insert
  <2>7. /\ i \in DOMAIN quoted /\ redemptions[i] = 0 /\ redemptions' \in [DOMAIN quoted -> {0, 1}]
        /\ \A id \in DOMAIN quoted : id # i => redemptions'[id] = redemptions[id]
    BY <2>2 DEF BookInv, Ids, Books, Sound
  <2>8. Ids'
    BY <2>2, <2>5, <2>6, <2>7, Zenon DEF BookInv, Ids
  <2>9. Books'
    <3>1. Sound(i, c)'
      BY <2>2, <2>4, Zenon DEF BookInv, Books, Sound
    <3>2. ASSUME NEW id \in DOMAIN by_id, id # i PROVE Sound(id, by_id[id])'
      BY <2>2, <2>5, <2>7, <3>2, Zenon DEF BookInv, Ids, Books, Sound
    <3>3. ASSUME NEW id \in DOMAIN challenges, id # i PROVE Sound(id, challenges[id])'
      BY <2>2, <2>6, <2>7, <3>3, ZenonT(30) DEF BookInv, Ids, Books, Sound
    <3>4. Sound(i, by_id[i])' /\ Sound(i, challenges[i])'
      BY <2>5, <2>6, <3>1, Zenon DEF Sound
    <3> QED BY <2>5, <2>6, <3>2, <3>3, <3>4, Zenon DEF Books
  <2>10. /\ Asks' /\ Others(r) /\ asking'[r].step = "lock" /\ asking'[r].id = i
         /\ asking'[r].prefix = by_id[i].prefix /\ asking'[r].price = by_id[i].price
    <3>1. PICK p, price : p = by_id[i].prefix /\ price = by_id[i].price
      BY Zenon
    <3>2. asking' = [x \in InHub |-> asking'[x]] /\ Others(r)
          /\ asking'[r] = [asking[r] EXCEPT !.step = "lock", !.prefix = p, !.price = price]
      BY <2>2, <3>1, Zenon DEF BookInv, Asks, Others
    <3>3. /\ asking'[r].step = "lock" /\ asking'[r].id = i /\ asking'[r].pubkey = asking[r].pubkey
          /\ asking'[r].prefix = p /\ asking'[r].price = price
          /\ asking'[r].expires_at = asking[r].expires_at
      BY <2>1, <3>2, Zenon DEF BookInv, Asks, AskShape
    <3>4. AskShape(asking'[r])
      BY <3>2, <3>3, ZenonT(30) DEF BookInv, Asks, AskShape
    <3> QED BY <3>1, <3>2, <3>3, <3>4, Zenon DEF BookInv, Asks, Others
  <2>11. Issuing'
    <3>1. AsQuoted(r)'
      BY <2>2, <2>7, <2>10 DEF AsQuoted, BookInv, Books, Sound
    <3>2. ASSUME NEW q \in InHub, q # r PROVE asking'[q] = asking[q] /\ (AsQuoted(q)' <=> AsQuoted(q))
      BY <2>2, <2>10, <3>2, ZenonT(30) DEF Others, AsQuoted
    <3>3. ASSUME NEW q \in InHub, q # r, asking[q].step \in {"evict", "publish"}
          PROVE  asking[q].id # i /\ asking[q].id \in DOMAIN quoted /\ redemptions'[asking[q].id] = 0
      BY <2>2, <2>7, <3>3 DEF BookInv, Issuing, AsQuoted
    <3> QED BY <2>5, <2>10, <3>1, <3>2, <3>3 DEF BookInv, Issuing
  <2> QED BY <2>8, <2>9, <2>10, <2>11, Zenon DEF BookInv
<1> QED BY <1>1, <1>2, Zenon

\* Cleanup and restart only drop challenges, and restart empties the hub.
LEMMA BookStep_keeps ==
    ASSUME BookInv, UNCHANGED <<redemptions, quoted>>,
           by_id' = Keep(by_id) \/ by_id' = Keep(challenges),
           challenges' \in {challenges, Keep(challenges)},
           \/ UNCHANGED asking /\ by_id' = Keep(by_id)
           \/ asking' = [r \in InHub |-> NotAsking]
    PROVE  BookInv'
<1>1. /\ by_id' = [id \in DOMAIN by_id' |-> by_id'[id]]
      /\ \A id \in DOMAIN by_id' : \/ id \in DOMAIN by_id /\ by_id'[id] = by_id[id]
                                   \/ id \in DOMAIN challenges /\ by_id'[id] = challenges[id]
  BY Zenon DEF Keep
<1>2. \A id \in DOMAIN challenges' : id \in DOMAIN challenges /\ challenges'[id] = challenges[id]
  BY Zenon DEF Keep
<1>3. Ids'
  BY <1>1, <1>2, Zenon DEF BookInv, Ids
<1>4. Books'
  BY <1>1, <1>2 DEF BookInv, Books, Sound
<1>5. CASE asking' = [r \in InHub |-> NotAsking]
  BY <1>3, <1>4, <1>5, NotAskingIs, Zenon DEF BookInv, Asks, Issuing
<1>6. CASE UNCHANGED asking /\ by_id' = Keep(by_id)
  <2>1. DOMAIN by_id' \subseteq DOMAIN by_id
    BY <1>6, Zenon DEF Keep
  <2>2. \A r \in InHub : AsQuoted(r)' <=> AsQuoted(r)
    BY <1>6, Zenon DEF AsQuoted
  <2>3. Asks' /\ Issuing'
    BY <1>6, <2>1, <2>2, Zenon DEF BookInv, Asks, Issuing
  <2> QED BY <1>3, <1>4, <2>3, Zenon DEF BookInv
<1> QED BY <1>5, <1>6, Zenon

LEMMA BookSteps == BookInv /\ [FaucetNext]_<<limitVars, faucetVars>> => BookInv'
<1> SUFFICES ASSUME BookInv, [FaucetNext]_<<limitVars, faucetVars>> PROVE BookInv'
  BY Zenon
<1>1. ASSUME NEW r \in InHub,
             \/ \E k \in Key, client \in clients : AskForChallenge(r, k, client)
             \/ \E k \in Key, id \in DOMAIN by_id : Check(r, k, id)
      PROVE  BookInv'
  BY <1>1, BookStep_ask, BookStep_check, Zenon
<1>2. ASSUME NEW r \in InHub, SaveChallenge(r) \/ EvictPrevious(r) \/ Publish(r)
      PROVE  BookInv'
  BY <1>2, BookStep_save, BookStep_evict, BookStep_publish, Zenon
<1>3. ASSUME NEW r \in InHub,
             Preflight(r) \/ Redeem(r) \/ Decide(r) \/ PrepareGrant(r) \/ RecordNetwork(r)
      PROVE  BookInv'
  BY <1>3, BookStep_preflight, BookStep_redeem, BookStep_decide, BookStep_grant
<1>4. CASE CleanupChallenges
  BY <1>4, BookStep_keeps, Zenon DEF CleanupChallenges, prune_faucet_challenges
<1>5. CASE RestartFaucet
  BY <1>5, BookStep_keeps, Zenon DEF RestartFaucet
<1>6. CASE (Tick /\ UNCHANGED faucetVars) \/ UNCHANGED <<limitVars, faucetVars>>
  <2>1. UNCHANGED <<by_id, challenges, asking, redemptions, quoted>>
    BY <1>6, Zenon DEF faucetVars, bookVars
  <2> QED BY <2>1, ZenonT(30) DEF BookInv, Asks, AskShape, Ids, Books, Sound, ChallengeShape, Issuing, AsQuoted
<1> QED BY <1>1, <1>2, <1>3, <1>4, <1>5, <1>6, Zenon DEF FaucetNext

\* A solved challenge pays once, whatever requests present it together, with a restart
\* between any two of their steps and after any cleanup (faucet_pow.rs redeem, restore).
THEOREM ChallengesPayOnce == FaucetSpec => []RedeemedOnce
<1>1. BookInv => RedeemedOnce
  BY DEF BookInv, Ids, RedeemedOnce
<1> QED BY <1>1, BookStarts, BookSteps, PTL DEF FaucetSpec

\* A challenge keeps the network and the price its line was first quoted, replacements for
\* unfunded grants included (handlers.rs GrantUnfunded::AfterRedemption).
THEOREM PricesStand == FaucetSpec => []PricedAsQuoted
<1>1. BookInv => PricedAsQuoted
  BY Zenon DEF BookInv, Books, Sound, PricedAsQuoted
<1> QED BY <1>1, BookStarts, BookSteps, PTL DEF FaucetSpec

(***************************************************************************)
(* The grants.  What the payout lock protects is the count between the     *)
(* refusals read under it and the grant: while a request is past them,     *)
(* nobody else's grant can be made.                                        *)
(***************************************************************************)

FromBlock(wide) == {k \in GrantedSince \cap DOMAIN grant_prefix : widen_prefix(grant_prefix[k]) = wide}

Granting(r) == asking[r].step \in {"prepare", "network"}

GrantTables ==
    /\ clock \in Int
    /\ IsFiniteSet(DOMAIN faucet_grants)
    /\ \A k \in DOMAIN faucet_grants : faucet_grants[k] \in Int
    /\ DOMAIN grant_prefix \subseteq DOMAIN faucet_grants
    /\ \A k \in DOMAIN prefix_table : k \in DOMAIN grant_prefix /\ prefix_table[k] = grant_prefix[k]

Exclusive == \A r \in InHub : Granting(r) => payout_lock = r

WithinBudget ==
    /\ Cardinality(GrantedSince) <= faucet_daily_grants
    /\ \A r \in InHub : asking[r].step = "prepare" => Cardinality(GrantedSince) < faucet_daily_grants

WithinShare ==
    faucet_network_share_percent < 100 =>
        /\ \A wide : Cardinality(FromBlock(wide)) <= NetworkShare
        /\ \A r \in InHub :
               Granting(r) => Cardinality(FromBlock(widen_prefix(asking[r].prefix))) < NetworkShare

GrantedFirst ==
    \A r \in InHub : asking[r].step = "network" =>
        asking[r].pubkey \in DOMAIN faucet_grants \ DOMAIN grant_prefix

GrantInv == Asks /\ GrantTables /\ Exclusive /\ WithinBudget /\ WithinShare /\ GrantedFirst

LEMMA ShareIs == NetworkShare \in Int
<1>1. PICK n \in Int : n = (faucet_daily_grants * faucet_network_share_percent) \div 100
  BY FaucetAssumption
<1>2. \E x \in {n, 1} : \A y \in {n, 1} : x >= y
  <2>1. CASE n >= 1
    BY <2>1
  <2>2. CASE ~ (n >= 1)
    BY <2>2
  <2> QED BY <2>1, <2>2, Zenon
<1> QED BY <1>1, <1>2 DEF NetworkShare, Max

LEMMA LimitsAre == faucet_daily_grants \in Nat /\ faucet_network_share_percent \in Nat
                   /\ BUDGET_WINDOW \in Nat /\ NoOne \notin InHub
  BY FaucetAssumption, Zenon

\* The sets that are counted are finite, and smaller sets have smaller counts.
LEMMA CountsAre ==
    ASSUME GrantTables
    PROVE  /\ IsFiniteSet(GrantedSince) /\ Cardinality(GrantedSince) \in Nat
           /\ \A wide : IsFiniteSet(FromBlock(wide)) /\ Cardinality(FromBlock(wide)) \in Nat
<1>1. IsFiniteSet(GrantedSince)
  BY FS_Subset, Zenon DEF GrantTables, GrantedSince
<1>2. ASSUME NEW wide PROVE IsFiniteSet(FromBlock(wide))
  <2>1. FromBlock(wide) \subseteq GrantedSince
    BY Zenon DEF FromBlock
  <2> QED BY <1>1, <2>1, FS_Subset, Zenon
<1> QED BY <1>1, <1>2, FS_CardinalityType

LEMMA OneMore ==
    ASSUME NEW S, IsFiniteSet(S), NEW x
    PROVE  /\ IsFiniteSet(S \cup {x}) /\ Cardinality(S \cup {x}) \in Nat
           /\ Cardinality(S \cup {x}) <= Cardinality(S) + 1
<1>1. Cardinality(S) \in Nat
  BY FS_CardinalityType, Zenon
<1>2. IsFiniteSet(S \cup {x}) /\ (Cardinality(S \cup {x}) = Cardinality(S) \/ Cardinality(S \cup {x}) = Cardinality(S) + 1)
  BY FS_AddElement, Zenon
<1> QED BY <1>1, <1>2

LEMMA GrantStarts == LimitInit /\ FaucetInit => GrantInv
<1> SUFFICES ASSUME LimitInit, FaucetInit PROVE GrantInv
  BY Zenon
<1>1. Asks /\ \A r \in InHub : asking[r].step = "absent"
  BY NotAskingIs, Zenon DEF FaucetInit, Asks
<1>2. PICK scene \in Scene :
           /\ faucet_grants = [k \in DOMAIN scene.networks |-> clock]
           /\ grant_prefix = scene.networks /\ prefix_table = scene.networks
  BY Zenon DEF FaucetInit
<1>3. DOMAIN faucet_grants = DOMAIN scene.networks /\ clock = 0
  BY <1>2, Zenon DEF LimitInit
<1>4. GrantTables
  BY <1>2, <1>3, SceneAssumption DEF GrantTables
<1>5. GrantedSince \subseteq DOMAIN scene.networks
  BY <1>3, Zenon DEF GrantedSince
<1>6. Cardinality(GrantedSince) <= faucet_daily_grants
  <2>1. Cardinality(GrantedSince) <= Cardinality(DOMAIN scene.networks)
    BY <1>5, SceneAssumption, FS_Subset, Zenon
  <2>2. Cardinality(DOMAIN scene.networks) \in Nat /\ Cardinality(GrantedSince) \in Nat
    BY <1>4, SceneAssumption, FS_CardinalityType, CountsAre, Zenon
  <2> QED BY <2>1, <2>2, LimitsAre, SceneAssumption, SMTT(30)
<1>7. ASSUME faucet_network_share_percent < 100, NEW wide
      PROVE  Cardinality(FromBlock(wide)) <= NetworkShare
  <2>1. CASE FromBlock(wide) = {}
    <3>1. NetworkShare >= 1
      BY FaucetAssumption DEF NetworkShare, Max
    <3> QED BY <2>1, <3>1, FS_EmptySet, ShareIs
  <2>2. CASE FromBlock(wide) # {}
    <3>1. PICK k : k \in FromBlock(wide)
      BY <2>2, Zenon
    <3>2. k \in DOMAIN scene.networks /\ wide = widen_prefix(scene.networks[k])
      BY <1>2, <1>5, <3>1 DEF FromBlock
    <3> DEFINE T == {j \in DOMAIN scene.networks :
                        widen_prefix(scene.networks[j]) = widen_prefix(scene.networks[k])}
    <3>3. FromBlock(wide) \subseteq T
      BY <1>2, <1>5, <3>2 DEF FromBlock
    <3>4. IsFiniteSet(T) /\ Cardinality(T) <= NetworkShare
      BY <1>7, <3>2, SceneAssumption, FS_Subset
    <3> HIDE DEF T
    <3>5. Cardinality(FromBlock(wide)) <= Cardinality(T) /\ Cardinality(T) \in Nat
      BY <3>3, <3>4, FS_Subset, FS_CardinalityType
    <3>6. Cardinality(FromBlock(wide)) \in Nat
      BY <1>4, CountsAre, Zenon
    <3> QED BY <3>4, <3>5, <3>6, ShareIs
  <2> QED BY <2>1, <2>2, Zenon
<1>8. WithinShare
  BY <1>1, <1>7, Zenon DEF WithinShare, Granting
<1> QED BY <1>1, <1>4, <1>6, <1>8 DEF GrantInv, Exclusive, WithinBudget, Granting, GrantedFirst

\* A request that makes no grant, and leaves another's lock alone.
LEMMA GrantsUntouched ==
    ASSUME GrantInv, Asks', UNCHANGED <<clock, grantVars>>, NEW r \in InHub, Others(r),
           ~ Granting(r)', payout_lock # r => payout_lock' = payout_lock
    PROVE  GrantInv'
<1>1. UNCHANGED <<clock, faucet_grants, grant_prefix, prefix_table>>
  BY Zenon DEF grantVars
<1>2. GrantTables' /\ GrantedSince' = GrantedSince /\ \A wide : FromBlock(wide)' = FromBlock(wide)
  BY <1>1, Zenon DEF GrantInv, GrantTables, GrantedSince, FromBlock
<1>3. \A q \in InHub : q # r => asking'[q] = asking[q] /\ (Granting(q)' <=> Granting(q))
  BY Zenon DEF Others, Granting
<1>4. Exclusive'
  BY <1>3, Zenon DEF GrantInv, Exclusive
<1>5. WithinBudget'
  BY <1>2, <1>3, Zenon DEF GrantInv, WithinBudget, Granting
<1>6. WithinShare'
  BY <1>2, <1>3, Zenon DEF GrantInv, WithinShare
<1>7. GrantedFirst'
  BY <1>1, <1>3, Zenon DEF GrantInv, GrantedFirst, Granting
<1> QED BY <1>2, <1>4, <1>5, <1>6, <1>7 DEF GrantInv

LEMMA GrantStep_leaves ==
    ASSUME GrantInv, NEW r \in InHub, Depart(r), UNCHANGED <<clock, grantVars>>
    PROVE  GrantInv'
<1>1. Asks' /\ Others(r) /\ asking'[r].step = "absent" /\ (payout_lock # r => payout_lock' = payout_lock)
  BY Departs, Zenon DEF GrantInv
<1> QED BY <1>1, GrantsUntouched, Zenon DEF Granting

LEMMA GrantStep_asks ==
    ASSUME GrantInv, NEW r \in InHub,
           \/ \E k \in Key, client \in clients : AskForChallenge(r, k, client)
           \/ \E k \in Key, id \in DOMAIN by_id : Check(r, k, id)
    PROVE  GrantInv'
<1>1. CASE \E k \in Key, client \in clients : AskForChallenge(r, k, client)
  <2>1. PICK k \in Key, client \in clients : AskForChallenge(r, k, client)
    BY <1>1, Zenon
  <2> DEFINE p == prefix_of(client)
             price == expected_hashes_for_prefix(faucet_granted_from_prefix_since(p))
  <2>2. PICK a : a = [NotAsking EXCEPT !.step = "issue", !.pubkey = k, !.prefix = p, !.price = price]
    BY Zenon
  <2>3. asking' = [asking EXCEPT ![r] = a] /\ UNCHANGED <<clock, grantVars, payout_lock>>
    BY <2>1, <2>2, Zenon DEF AskForChallenge, limitVars
  <2> HIDE DEF p, price
  <2>4. AskShape(a) /\ a.step = "issue"
    BY <2>2, ZenonT(30) DEF AskShape, NotAsking
  <2>5. Asks' /\ Others(r) /\ ~ Granting(r)'
    BY <2>3, <2>4, AskChanges, ZenonT(30) DEF GrantInv, Granting
  <2> QED BY <2>3, <2>5, GrantsUntouched, Zenon
<1>2. CASE \E k \in Key, id \in DOMAIN by_id : Check(r, k, id)
  <2>1. PICK k \in Key, id \in DOMAIN by_id : Check(r, k, id)
    BY <1>2, Zenon
  <2>2. PICK a : a = [NotAsking EXCEPT !.step = "preflight", !.pubkey = k, !.id = id]
    BY Zenon
  <2>3. asking' = [asking EXCEPT ![r] = a] /\ UNCHANGED <<clock, grantVars, payout_lock>>
    BY <2>1, <2>2, Zenon DEF Check, limitVars
  <2>4. AskShape(a) /\ a.step = "preflight"
    BY <2>2, CheckingIs, ZenonT(30)
  <2>5. Asks' /\ Others(r) /\ ~ Granting(r)'
    BY <2>3, <2>4, AskChanges, ZenonT(30) DEF GrantInv, Granting
  <2> QED BY <2>3, <2>5, GrantsUntouched, Zenon
<1> QED BY <1>1, <1>2, Zenon

LEMMA GrantStep_issues ==
    ASSUME GrantInv, NEW r \in InHub, SaveChallenge(r) \/ EvictPrevious(r) \/ Publish(r)
    PROVE  GrantInv'
<1>1. UNCHANGED <<clock, grantVars>>
  BY Zenon DEF SaveChallenge, EvictPrevious, Publish, limitVars
<1>2. CASE Depart(r)
  BY <1>1, <1>2, GrantStep_leaves, Zenon
<1>3. CASE EvictPrevious(r)
  <2>1. asking' = [asking EXCEPT ![r].step = "publish"] /\ UNCHANGED payout_lock
    BY <1>3, Zenon DEF EvictPrevious, Step
  <2>2. Asks' /\ Others(r) /\ asking'[r].step = "publish"
    BY <2>1, AskSteps, ZenonT(30) DEF GrantInv
  <2> QED BY <1>1, <2>1, <2>2, GrantsUntouched, Zenon DEF Granting
<1>4. CASE SaveChallenge(r) /\ ~ Depart(r)
  <2>1. PICK id, at : /\ asking' = [asking EXCEPT ![r].step = "evict", ![r].id = id, ![r].expires_at = at]
                      /\ UNCHANGED payout_lock
    BY <1>4, ZenonT(30) DEF SaveChallenge
  <2>2. asking' = [x \in InHub |-> asking'[x]] /\ Others(r)
        /\ asking'[r] = [asking[r] EXCEPT !.step = "evict", !.id = id, !.expires_at = at]
    BY <2>1, ZenonT(30) DEF GrantInv, Asks, Others
  <2>3. /\ asking'[r].step = "evict" /\ asking'[r].id = id /\ asking'[r].pubkey = asking[r].pubkey
        /\ asking'[r].prefix = asking[r].prefix /\ asking'[r].price = asking[r].price
        /\ asking'[r].expires_at = at
    BY <2>2, Zenon DEF GrantInv, Asks, AskShape
  <2>4. AskShape(asking'[r])
    BY <2>2, <2>3, ZenonT(30) DEF GrantInv, Asks, AskShape
  <2>5. Asks' /\ ~ Granting(r)'
    BY <2>2, <2>3, <2>4, Zenon DEF GrantInv, Asks, Others, Granting
  <2> QED BY <1>1, <2>1, <2>2, <2>5, GrantsUntouched, Zenon
<1> QED BY <1>2, <1>3, <1>4, Zenon DEF Publish

LEMMA GrantStep_redeems ==
    ASSUME GrantInv, NEW r \in InHub, Preflight(r) \/ Redeem(r)
    PROVE  GrantInv'
<1>1. UNCHANGED <<clock, grantVars>>
  BY Zenon DEF Preflight, Redeem, limitVars
<1>2. CASE Depart(r)
  BY <1>1, <1>2, GrantStep_leaves, Zenon
<1>3. CASE Preflight(r) /\ ~ Depart(r)
  <2>1. asking' = [asking EXCEPT ![r].step = "redeem"] /\ UNCHANGED payout_lock
    BY <1>3, Zenon DEF Preflight, Step
  <2>2. Asks' /\ Others(r) /\ asking'[r].step = "redeem"
    BY <2>1, AskSteps, ZenonT(30) DEF GrantInv
  <2> QED BY <1>1, <2>1, <2>2, GrantsUntouched, Zenon DEF Granting
<1>4. CASE Redeem(r) /\ ~ Depart(r)
  <2>1. PICK p, price : /\ asking' = [asking EXCEPT ![r].step = "lock", ![r].prefix = p, ![r].price = price]
                        /\ UNCHANGED payout_lock
    BY <1>4, ZenonT(30) DEF Redeem
  <2>2. asking' = [x \in InHub |-> asking'[x]] /\ Others(r)
        /\ asking'[r] = [asking[r] EXCEPT !.step = "lock", !.prefix = p, !.price = price]
    BY <2>1, ZenonT(30) DEF GrantInv, Asks, Others
  <2>3. /\ asking'[r].step = "lock" /\ asking'[r].id = asking[r].id /\ asking'[r].pubkey = asking[r].pubkey
        /\ asking'[r].prefix = p /\ asking'[r].price = price
        /\ asking'[r].expires_at = asking[r].expires_at
    BY <2>2, Zenon DEF GrantInv, Asks, AskShape
  <2>4. AskShape(asking'[r])
    BY <2>2, <2>3, ZenonT(30) DEF GrantInv, Asks, AskShape
  <2>5. Asks' /\ ~ Granting(r)'
    BY <2>2, <2>3, <2>4, Zenon DEF GrantInv, Asks, Others, Granting
  <2> QED BY <1>1, <2>1, <2>2, <2>5, GrantsUntouched
<1> QED BY <1>2, <1>3, <1>4, Zenon

\* The refusals are read when nobody else is past them.
LEMMA GrantStep_decide ==
    ASSUME GrantInv, NEW r \in InHub, Decide(r)
    PROVE  GrantInv'
<1>1. UNCHANGED <<clock, grantVars>> /\ payout_lock = NoOne /\ asking[r].step = "lock"
  BY Zenon DEF Decide, limitVars
<1>2. \A q \in InHub : ~ Granting(q)
  BY <1>1, LimitsAre, Zenon DEF GrantInv, Exclusive
<1>3. CASE Depart(r)
  BY <1>1, <1>3, GrantStep_leaves, Zenon
<1>4. ASSUME ~ Depart(r) PROVE GrantInv'
  <2>1. /\ ~ RefusedUnderLock(r) /\ payout_lock' = r
        /\ \/ asking' = [asking EXCEPT ![r].step = "prepare"]
           \/ asking' = [asking EXCEPT ![r] = Replacement(r)]
    BY <1>4, Zenon DEF Decide, Step
  <2>2. PICK step \in {"prepare", "issue"} : asking' = [asking EXCEPT ![r].step = step]
    BY <2>1, Zenon DEF Replacement, GrantInv, Asks
  <2>3. /\ Asks' /\ Others(r) /\ asking'[r].step = step /\ asking'[r].prefix = asking[r].prefix
        /\ asking'[r].pubkey = asking[r].pubkey
    BY <2>2, AskSteps, ZenonT(30) DEF GrantInv
  <2>4. UNCHANGED <<clock, faucet_grants, grant_prefix, prefix_table>>
    BY <1>1, Zenon DEF grantVars
  <2>5. GrantTables' /\ GrantedSince' = GrantedSince /\ \A wide : FromBlock(wide)' = FromBlock(wide)
    BY <2>4, Zenon DEF GrantInv, GrantTables, GrantedSince, FromBlock
  <2>6. \A q \in InHub : q # r => asking'[q] = asking[q] /\ ~ Granting(q)'
    BY <1>2, <2>3, Zenon DEF Others, Granting
  <2>7. Exclusive'
    BY <2>1, <2>6, Zenon DEF Exclusive
  <2>8. /\ Cardinality(GrantedSince) < faucet_daily_grants
        /\ faucet_network_share_percent < 100 =>
               Cardinality(FromBlock(widen_prefix(asking[r].prefix))) < NetworkShare
    <3>1. /\ Cardinality(GrantedSince) \in Nat
          /\ Cardinality(FromBlock(widen_prefix(asking[r].prefix))) \in Nat
      BY CountsAre, Zenon DEF GrantInv
    <3>2. ~ (Cardinality(GrantedSince) >= faucet_daily_grants)
          /\ (faucet_network_share_percent < 100 =>
                 ~ (Cardinality(FromBlock(widen_prefix(asking[r].prefix))) >= NetworkShare))
      BY <2>1, Zenon DEF RefusedUnderLock, Refused, faucet_budget_exhausted, faucet_network_share_exhausted,
                  faucet_granted_from_wide_prefix_since, FromBlock
    <3> QED BY <3>1, <3>2, LimitsAre, ShareIs
  <2>9. WithinBudget'
    BY <2>3, <2>5, <2>6, <2>8, Zenon DEF GrantInv, WithinBudget, Granting
  <2>10. WithinShare'
    BY <2>3, <2>5, <2>6, <2>8, ZenonT(30) DEF GrantInv, WithinShare
  <2>11. GrantedFirst'
    BY <2>3, <2>6, Zenon DEF GrantedFirst, Granting
  <2> QED BY <2>3, <2>5, <2>7, <2>9, <2>10, <2>11, SMTT(30) DEF GrantInv
<1> QED BY <1>3, <1>4, Zenon

\* The grant is made while the counts still are what the refusals read.
LEMMA GrantStep_prepare ==
    ASSUME GrantInv, NEW r \in InHub, PrepareGrant(r)
    PROVE  GrantInv'
<1>1. UNCHANGED <<clock, grant_prefix, prefix_table>> /\ asking[r].step = "prepare" /\ Granting(r)
  BY ZenonT(30) DEF PrepareGrant, limitVars, Granting
<1>2. CASE Depart(r) /\ UNCHANGED faucet_grants
  BY <1>1, <1>2, GrantStep_leaves, Zenon DEF grantVars
<1>3. ASSUME ~ (Depart(r) /\ UNCHANGED faucet_grants) PROVE GrantInv'
  <2>1. PICK k : k = asking[r].pubkey
    BY Zenon
  <2>2. /\ k \notin DOMAIN faucet_grants /\ faucet_grants' = Insert(faucet_grants, k, clock)
        /\ asking' = [asking EXCEPT ![r].step = "network"] /\ UNCHANGED payout_lock
    BY <1>3, <2>1, Zenon DEF PrepareGrant, can_claim_faucet, Step
  <2>3. /\ DOMAIN faucet_grants' = DOMAIN faucet_grants \cup {k} /\ faucet_grants'[k] = clock
        /\ \A j \in DOMAIN faucet_grants : faucet_grants'[j] = faucet_grants[j]
    BY <2>2, Zenon DEF Insert
  <2>4. /\ Asks' /\ Others(r) /\ asking'[r].step = "network" /\ asking'[r].prefix = asking[r].prefix
        /\ asking'[r].pubkey = k
    BY <2>1, <2>2, AskSteps, ZenonT(30) DEF GrantInv
  <2>5. GrantTables'
    BY <1>1, <2>3, FS_AddElement DEF GrantInv, GrantTables
  <2>6. GrantedSince' \subseteq GrantedSince \cup {k}
    BY <1>1, <2>3, Zenon DEF GrantedSince
  <2>7. \A wide : FromBlock(wide)' = FromBlock(wide)
    BY <1>1, <2>2, <2>3, Zenon DEF FromBlock, GrantedSince, GrantInv, GrantTables
  <2>8. ASSUME NEW q \in InHub, q # r PROVE asking'[q] = asking[q] /\ ~ Granting(q)'
    BY <1>1, <2>4, <2>8, Zenon DEF Others, Granting, GrantInv, Exclusive
  <2>9. Exclusive'
    BY <1>1, <2>2, <2>8, Zenon DEF GrantInv, Exclusive
  <2>10. WithinBudget'
    <3>1. IsFiniteSet(GrantedSince) /\ Cardinality(GrantedSince) \in Nat
      BY CountsAre, Zenon DEF GrantInv
    <3>2. /\ IsFiniteSet(GrantedSince \cup {k}) /\ Cardinality(GrantedSince \cup {k}) \in Nat
          /\ Cardinality(GrantedSince \cup {k}) <= Cardinality(GrantedSince) + 1
      BY <3>1, OneMore, Zenon
    <3>3. Cardinality(GrantedSince') <= Cardinality(GrantedSince \cup {k}) /\ Cardinality(GrantedSince') \in Nat
      BY <2>6, <3>2, FS_Subset, FS_CardinalityType, Zenon
    <3>4. Cardinality(GrantedSince) < faucet_daily_grants
      BY <1>1, Zenon DEF GrantInv, WithinBudget
    <3>5. Cardinality(GrantedSince') <= faucet_daily_grants
      BY <3>1, <3>2, <3>3, <3>4, LimitsAre, SMTT(30)
    <3> QED BY <2>4, <2>8, <3>5, Zenon DEF WithinBudget, Granting
  <2>11. WithinShare'
    BY <1>1, <2>4, <2>7, <2>8 DEF GrantInv, WithinShare
  <2>12. GrantedFirst'
    BY <1>1, <2>2, <2>3, <2>4, <2>8, SMTT(30) DEF GrantInv, GrantTables, GrantedFirst, Granting
  <2> QED BY <2>4, <2>5, <2>9, <2>10, <2>11, <2>12, Zenon DEF GrantInv
<1> QED BY <1>2, <1>3, Zenon

\* The network is counted while the lock is still held.
LEMMA GrantStep_network ==
    ASSUME GrantInv, NEW r \in InHub, RecordNetwork(r)
    PROVE  GrantInv'
<1>1. UNCHANGED <<clock, faucet_grants>> /\ asking[r].step = "network" /\ Granting(r) /\ Depart(r)
  BY ZenonT(30) DEF RecordNetwork, limitVars, Granting
<1>2. PICK k, p : k = asking[r].pubkey /\ p = asking[r].prefix
  BY Zenon
<1>3. /\ grant_prefix' = Insert(grant_prefix, k, p)
      /\ prefix_table' = prefix_table \/ prefix_table' = Insert(prefix_table, k, p)
  BY <1>2, ZenonT(30) DEF RecordNetwork, save_faucet_grant_prefix
<1>4. /\ DOMAIN grant_prefix' = DOMAIN grant_prefix \cup {k} /\ grant_prefix'[k] = p
      /\ \A j \in DOMAIN grant_prefix : j # k => grant_prefix'[j] = grant_prefix[j]
  BY <1>3, Zenon DEF Insert
<1>5. Asks' /\ Others(r) /\ asking'[r].step = "absent"
  BY <1>1, Departs, Zenon DEF GrantInv
<1>6. ASSUME NEW q \in InHub PROVE ~ Granting(q)'
  BY <1>1, <1>5, <1>6, Zenon DEF Others, Granting, GrantInv, Exclusive
<1>7. GrantTables'
  <2>1. k \in DOMAIN faucet_grants
    BY <1>1, <1>2, Zenon DEF GrantInv, GrantedFirst
  <2>2. \A j \in DOMAIN prefix_table' : j \in DOMAIN grant_prefix' /\ prefix_table'[j] = grant_prefix'[j]
    <3>1. CASE prefix_table' = Insert(prefix_table, k, p)
      BY <1>4, <3>1, Zenon DEF Insert, GrantInv, GrantTables
    <3>2. CASE prefix_table' = prefix_table
      BY <1>1, <1>2, <1>4, <3>2, Zenon DEF GrantInv, GrantTables, GrantedFirst
    <3> QED BY <1>3, <3>1, <3>2, Zenon
  <2> QED BY <1>1, <1>4, <2>1, <2>2, Zenon DEF GrantInv, GrantTables
<1>8. GrantedSince' = GrantedSince
  BY <1>1, Zenon DEF GrantedSince
<1>9. WithinShare'
  <2> SUFFICES ASSUME faucet_network_share_percent < 100, NEW wide
               PROVE  Cardinality(FromBlock(wide)') <= NetworkShare
    BY <1>6, Zenon DEF WithinShare
  <2>1. IsFiniteSet(FromBlock(wide)) /\ Cardinality(FromBlock(wide)) \in Nat
    BY CountsAre, Zenon DEF GrantInv
  <2>2. CASE wide = widen_prefix(p)
    <3>1. FromBlock(wide)' \subseteq FromBlock(wide) \cup {k}
      BY <1>4, <1>8, Zenon DEF FromBlock
    <3>2. /\ IsFiniteSet(FromBlock(wide) \cup {k}) /\ Cardinality(FromBlock(wide) \cup {k}) \in Nat
          /\ Cardinality(FromBlock(wide) \cup {k}) <= Cardinality(FromBlock(wide)) + 1
      BY <2>1, OneMore, ZenonT(30)
    <3>3. Cardinality(FromBlock(wide)') <= Cardinality(FromBlock(wide) \cup {k})
          /\ Cardinality(FromBlock(wide)') \in Nat
      BY <3>1, <3>2, FS_Subset, FS_CardinalityType, Zenon
    <3>4. Cardinality(FromBlock(wide)) < NetworkShare
      BY <1>1, <1>2, <2>2, Zenon DEF GrantInv, WithinShare
    <3> QED BY <2>1, <3>2, <3>3, <3>4, ShareIs, SMTT(30)
  <2>3. CASE wide # widen_prefix(p)
    <3>1. FromBlock(wide)' \subseteq FromBlock(wide)
      BY <1>4, <1>8, <2>3, Zenon DEF FromBlock
    <3>2. Cardinality(FromBlock(wide)') <= Cardinality(FromBlock(wide))
          /\ Cardinality(FromBlock(wide)') \in Nat
      BY <2>1, <3>1, FS_Subset, FS_CardinalityType, Zenon
    <3>3. Cardinality(FromBlock(wide)) <= NetworkShare
      BY Zenon DEF GrantInv, WithinShare
    <3> QED BY <2>1, <3>2, <3>3, ShareIs, SMTT(30)
  <2> QED BY <2>2, <2>3, Zenon
<1>10. Exclusive' /\ WithinBudget' /\ GrantedFirst'
  BY <1>6, <1>8, Zenon DEF GrantInv, Exclusive, WithinBudget, GrantedFirst, Granting
<1> QED BY <1>5, <1>7, <1>9, <1>10, Zenon DEF GrantInv

\* Time and restarts only make the counted sets smaller.
LEMMA GrantsShrink ==
    ASSUME GrantInv, Asks', GrantTables', Exclusive', GrantedFirst',
           GrantedSince' \subseteq GrantedSince,
           \A wide : FromBlock(wide)' \subseteq FromBlock(wide),
           \A r \in InHub : /\ Granting(r)' => Granting(r) /\ asking'[r] = asking[r]
    PROVE  GrantInv'
<1>1. /\ IsFiniteSet(GrantedSince) /\ Cardinality(GrantedSince) \in Nat
      /\ \A wide : IsFiniteSet(FromBlock(wide)) /\ Cardinality(FromBlock(wide)) \in Nat
  BY CountsAre, Zenon DEF GrantInv
<1>2. Cardinality(GrantedSince') <= Cardinality(GrantedSince) /\ Cardinality(GrantedSince') \in Nat
  BY <1>1, FS_Subset, FS_CardinalityType, Zenon
<1>3. ASSUME NEW wide
      PROVE  Cardinality(FromBlock(wide)') <= Cardinality(FromBlock(wide)) /\ Cardinality(FromBlock(wide)') \in Nat
  BY <1>1, FS_Subset, FS_CardinalityType, Zenon
<1>4. WithinBudget'
  <2>1. ASSUME NEW r \in InHub, asking'[r].step = "prepare"
        PROVE  Cardinality(GrantedSince') < faucet_daily_grants
    <3>1. asking[r].step = "prepare"
      BY <2>1, Zenon DEF Granting
    <3> QED BY <1>1, <1>2, <3>1, LimitsAre, SMTT(30) DEF GrantInv, WithinBudget
  <2> QED BY <1>1, <1>2, <2>1, LimitsAre, SMTT(30) DEF GrantInv, WithinBudget
<1>5. WithinShare'
  <2> SUFFICES ASSUME faucet_network_share_percent < 100
               PROVE  /\ \A wide : Cardinality(FromBlock(wide)') <= NetworkShare
                      /\ \A r \in InHub : Granting(r)' =>
                             Cardinality(FromBlock(widen_prefix(asking[r].prefix))') < NetworkShare
    BY Zenon DEF WithinShare
  <2>1. ASSUME NEW wide PROVE Cardinality(FromBlock(wide)') <= NetworkShare
    BY <1>1, <1>3, ShareIs, SMTT(30) DEF GrantInv, WithinShare
  <2>2. ASSUME NEW r \in InHub, Granting(r)'
        PROVE  Cardinality(FromBlock(widen_prefix(asking[r].prefix))') < NetworkShare
    <3>1. PICK wide : wide = widen_prefix(asking[r].prefix) /\ wide = widen_prefix(asking'[r].prefix)
      BY <2>2, Zenon
    <3>2. Cardinality(FromBlock(wide)) < NetworkShare
      BY <2>2, <3>1, Zenon DEF GrantInv, WithinShare
    <3>3. Cardinality(FromBlock(wide)') < NetworkShare
      BY <1>1, <1>3, <3>2, ShareIs, SMTT(30)
    <3> QED BY <3>1, <3>3, SMTT(30) DEF FromBlock
  <2> QED BY <2>1, <2>2, ZenonT(30)
<1> QED BY <1>4, <1>5, Zenon DEF GrantInv

LEMMA GrantStep_restarts ==
    ASSUME GrantInv, RestartFaucet
    PROVE  GrantInv'
<1>1. /\ UNCHANGED <<clock, faucet_grants, prefix_table>> /\ grant_prefix' = prefix_table
      /\ asking' = [r \in InHub |-> NotAsking]
  BY Zenon DEF RestartFaucet, limitVars
<1>2. \A r \in InHub : asking'[r].step = "absent" /\ AskShape(asking'[r])
  BY <1>1, NotAskingIs, Zenon
<1>3. Asks' /\ GrantTables'
  BY <1>1, <1>2, Zenon DEF Asks, GrantInv, GrantTables
<1>4. Exclusive' /\ GrantedFirst' /\ \A r \in InHub : ~ Granting(r)'
  BY <1>2, Zenon DEF Exclusive, GrantedFirst, Granting
<1>5. GrantedSince' = GrantedSince
  BY <1>1, Zenon DEF GrantedSince
<1>6. ASSUME NEW wide PROVE FromBlock(wide)' \subseteq FromBlock(wide)
  BY <1>1, <1>5, Zenon DEF FromBlock, GrantInv, GrantTables
<1> QED BY <1>3, <1>4, <1>5, <1>6, GrantsShrink, Zenon

LEMMA GrantStep_rests ==
    ASSUME GrantInv, UNCHANGED <<grantVars, payout_lock, asking>>, clock' \in {clock, clock + 1}
    PROVE  GrantInv'
<1>1. UNCHANGED <<faucet_grants, grant_prefix, prefix_table, payout_lock, asking>>
  BY Zenon DEF grantVars
<1>2. Asks' /\ GrantTables' /\ Exclusive' /\ GrantedFirst'
  BY <1>1, SMTT(30) DEF GrantInv, Asks, AskShape, GrantTables, Exclusive, GrantedFirst, Granting
<1>3. GrantedSince' \subseteq GrantedSince
  BY <1>1, LimitsAre DEF GrantedSince, GrantInv, GrantTables
<1>4. ASSUME NEW wide PROVE FromBlock(wide)' \subseteq FromBlock(wide)
  BY <1>1, <1>3, Zenon DEF FromBlock
<1>5. \A r \in InHub : Granting(r)' => Granting(r) /\ asking'[r] = asking[r]
  BY <1>1, Zenon DEF Granting
<1> QED BY <1>2, <1>3, <1>4, <1>5, GrantsShrink, Zenon

LEMMA GrantSteps == GrantInv /\ [FaucetNext]_<<limitVars, faucetVars>> => GrantInv'
<1> SUFFICES ASSUME GrantInv, [FaucetNext]_<<limitVars, faucetVars>> PROVE GrantInv'
  BY Zenon
<1>1. ASSUME NEW r \in InHub,
             \/ \E k \in Key, client \in clients : AskForChallenge(r, k, client)
             \/ \E k \in Key, id \in DOMAIN by_id : Check(r, k, id)
      PROVE  GrantInv'
  BY <1>1, GrantStep_asks, Zenon
<1>2. ASSUME NEW r \in InHub, SaveChallenge(r) \/ EvictPrevious(r) \/ Publish(r)
      PROVE  GrantInv'
  BY <1>2, GrantStep_issues, Zenon
<1>3. ASSUME NEW r \in InHub,
             Preflight(r) \/ Redeem(r) \/ Decide(r) \/ PrepareGrant(r) \/ RecordNetwork(r)
      PROVE  GrantInv'
  BY <1>3, GrantStep_redeems, GrantStep_decide, GrantStep_prepare, GrantStep_network, SMTT(30)
<1>4. CASE CleanupChallenges
  BY <1>4, GrantStep_rests, Zenon DEF CleanupChallenges, limitVars
<1>5. CASE RestartFaucet
  BY <1>5, GrantStep_restarts, Zenon
<1>6. CASE (Tick /\ UNCHANGED faucetVars) \/ UNCHANGED <<limitVars, faucetVars>>
  <2>1. UNCHANGED <<grantVars, payout_lock, asking>> /\ clock' \in {clock, clock + 1}
    BY <1>6, Zenon DEF faucetVars, limitVars, Tick
  <2> QED BY <2>1, GrantStep_rests, Zenon
<1> QED BY <1>1, <1>2, <1>3, <1>4, <1>5, <1>6, Zenon DEF FaucetNext

\* In no window does the hub make more grants than the day's budget, however many claims
\* race for the last one (handlers.rs faucet_budget_exhausted, read under the payout lock).
THEOREM BudgetNeverExceeded == FaucetSpec => []BudgetHeld
<1>1. GrantInv => BudgetHeld
  BY Zenon DEF GrantInv, WithinBudget, BudgetHeld
<1> QED BY <1>1, GrantStarts, GrantSteps, PTL DEF FaucetSpec

\* No block of networks is counted more grants in a window than its share of the budget,
\* although the network is written after the grant (handlers.rs faucet_claim).
THEOREM ShareNeverExceeded == FaucetSpec => []ShareHeld
<1>1. GrantInv => ShareHeld
  BY Zenon DEF GrantInv, WithinShare, ShareHeld, FromBlock, faucet_granted_from_wide_prefix_since
<1> QED BY <1>1, GrantStarts, GrantSteps, PTL DEF FaucetSpec

\* A challenge pays once and at its quoted price, and the day's grants and a block's share
\* of them are never exceeded, for any number of racing claims and restarts.
THEOREM GrantsAreSound == FaucetSpec => []GrantsSound
<1>1. RedeemedOnce /\ PricedAsQuoted /\ BudgetHeld /\ ShareHeld => GrantsSound
  BY Zenon DEF GrantsSound
<1> QED BY <1>1, ChallengesPayOnce, PricesStand, BudgetNeverExceeded, ShareNeverExceeded, PTL

----------------------------------------------------------------------------
(* Names.  What is stored, and what is still to be written, is part of the *)
(* registry, and the registry is one to one on the names it marks taken.   *)

Within(f, g) == \A a \in DOMAIN f : a \in DOMAIN g /\ f[a] = g[a]

NamesInv ==
    /\ OneToOne(by_pubkey)
    /\ taken_names = Values(by_pubkey)
    /\ Within(agent_names, by_pubkey)
    /\ \A batch \in fresh : Within(batch, by_pubkey)

\* A batch names only the unnamed, with names nobody holds, all different.
LEMMA DrawsAre ==
    ASSUME NEW keys, NEW named, NEW used, NEW new \in Draws(keys, named, used)
    PROVE  /\ OneToOne(new)
           /\ \A a \in DOMAIN new : a \notin named /\ new[a] \notin used
  BY Zenon DEF Draws, Unnamed

\* Such a batch extends a one-to-one table to another.
LEMMA ExtendsOneToOne ==
    ASSUME NEW f, NEW new, NEW g, g = Extend(f, new), OneToOne(f), OneToOne(new),
           \A a \in DOMAIN new : a \notin DOMAIN f /\ new[a] \notin Values(f)
    PROVE  OneToOne(g) /\ Values(g) = Values(f) \cup Values(new) /\ Within(f, g) /\ Within(new, g)
<1>1. /\ DOMAIN g = DOMAIN f \cup DOMAIN new
      /\ \A a \in DOMAIN new : g[a] = new[a]
      /\ \A a \in DOMAIN f : g[a] = f[a]
  BY Zenon DEF Extend
<1>2. \A a \in DOMAIN f : f[a] \in Values(f)
  BY Zenon DEF Values
<1>3. OneToOne(g)
  BY <1>1, <1>2, SMTT(30) DEF OneToOne
<1>4. Values(g) = Values(f) \cup Values(new)
  BY <1>1 DEF Values
<1> QED BY <1>1, <1>3, <1>4, Zenon DEF Within

LEMMA NamesStart == NamesInit => NamesInv
<1> SUFFICES ASSUME NamesInit PROVE NamesInv
  BY Zenon
<1>1. OneToOne(by_pubkey)
  BY DEF NamesInit, OneToOne
<1> QED BY <1>1, Zenon DEF NamesInit, NamesInv, Within

\* One step: the invariant is kept, and so is every stored name.
LEMMA NamesSteps ==
    NamesInv /\ [NamesNext]_nameVars => NamesInv' /\ Within(agent_names, agent_names')
<1> SUFFICES ASSUME NamesInv, [NamesNext]_nameVars
             PROVE  NamesInv' /\ Within(agent_names, agent_names')
  BY Zenon
<1>1. ASSUME NEW keys \in SUBSET Agent, ensure_named(keys)
      PROVE  NamesInv' /\ Within(agent_names, agent_names')
  <2>1. PICK new \in Draws(keys, DOMAIN by_pubkey, taken_names) :
            /\ by_pubkey' = Extend(by_pubkey, new)
            /\ taken_names' = taken_names \cup Values(new)
            /\ fresh' = IF new = << >> THEN fresh ELSE fresh \cup {new}
            /\ UNCHANGED agent_names
    BY <1>1, ZenonT(30) DEF ensure_named
  <2>2. /\ OneToOne(by_pubkey') /\ Values(by_pubkey') = taken_names'
        /\ Within(by_pubkey, by_pubkey') /\ Within(new, by_pubkey')
    BY <2>1, DrawsAre, ExtendsOneToOne DEF NamesInv
  <2> QED BY <2>1, <2>2, ZenonT(30) DEF NamesInv, Within, OneToOne, Values
<1>2. ASSUME NEW batch \in fresh, SaveNames(batch)
      PROVE  NamesInv' /\ Within(agent_names, agent_names')
  <2>1. /\ UNCHANGED <<by_pubkey, taken_names>> /\ fresh' \subseteq fresh
        /\ agent_names' = agent_names \/ agent_names' = Extend(agent_names, batch)
    BY <1>2, Zenon DEF SaveNames
  <2>2. Within(batch, by_pubkey) /\ Within(agent_names, by_pubkey)
    BY Zenon DEF NamesInv
  <2>3. Within(agent_names, agent_names') /\ Within(agent_names', by_pubkey)
    BY <2>1, <2>2, SMTT(30) DEF Extend, Within
  <2> QED BY <2>1, <2>3 DEF NamesInv, Within, OneToOne, Values
<1>3. CASE RebootNames
  <2>1. PICK new \in Draws(Earning, DOMAIN agent_names, Values(agent_names)) :
            /\ by_pubkey' = Extend(agent_names, new)
            /\ agent_names' = Extend(agent_names, new)
            /\ taken_names' = Values(agent_names) \cup Values(new)
    BY <1>3, Zenon DEF RebootNames, Marked
  <2>2. OneToOne(agent_names)
    BY Zenon DEF NamesInv, Within, OneToOne
  <2>3. /\ OneToOne(by_pubkey') /\ Values(by_pubkey') = taken_names'
        /\ Within(agent_names, agent_names')
    BY <2>1, <2>2, DrawsAre, ExtendsOneToOne, SMTT(30)
  <2>4. fresh' = {} /\ agent_names' = by_pubkey'
    BY <1>3, <2>1, Zenon DEF RebootNames
  <2> QED BY <2>3, <2>4, Zenon DEF NamesInv, Within, OneToOne, Values
<1>4. CASE UNCHANGED nameVars
  BY <1>4 DEF nameVars, NamesInv, Within, OneToOne, Values
<1> QED BY <1>1, <1>2, <1>3, <1>4 DEF NamesNext

\* Two agents never answer to one name, nor are stored under one, whichever writes fail and
\* however often the hub restarts (names.rs draw, restore).
THEOREM NamesAreDistinct == NamesSpec => []NamesDistinct
<1>1. NamesInv => NamesDistinct
  BY DEF NamesInv, NamesDistinct, Within, OneToOne, lookup_names
<1> QED BY <1>1, NamesStart, NamesSteps, PTL DEF NamesSpec

\* A stored name is for good: a late write of a batch and a restart's draw included
\* (names.rs assign; main.rs ensure_named).
THEOREM StoredNamesStick == NamesSpec => NameSticks
<1>1. NamesInv /\ [NamesNext]_nameVars =>
          [\A a \in DOMAIN agent_names : a \in DOMAIN agent_names' /\ agent_names'[a] = agent_names[a]]_nameVars
  BY NamesSteps, Zenon DEF Within
<1> QED BY <1>1, NamesStart, NamesSteps, PTL DEF NamesSpec, NameSticks

=============================================================================
