----------------------------- MODULE AuthProofs -----------------------------
(***************************************************************************)
(* The replay guard: no signed envelope takes effect twice, for any        *)
(* envelopes, deliveries, drift, resolution of the clock and number of     *)
(* restarts.                                                               *)
(*                                                                         *)
(* An envelope that took effect, or is about to, is shut out: it is in the *)
(* guard's memory, or it can no longer verify and no request that verified *)
(* it earlier is still unclaimed.  What makes this inductive is how far a  *)
(* remembered time can be from the envelope's stamp: less than the drift   *)
(* and, after a restart, one second more.                                  *)
(***************************************************************************)
EXTENDS Auth, TLAPS

\* Verified, and not claimed yet.
Pending(d) == request[d].step \in {"charge", "claim"}

\* Claimed, and not yet refused or run.
Holding(d) == request[d].step \in {"record", "run"}

NonePending(e) == \A d \in Delivery : Pending(d) => request[d].envelope # e

\* The envelope is too old to verify.
Lapsed(e) == clock > Stamp[e] + Drift

ShutOut(e) ==
    \/ e \in DOMAIN seen
    \/ NonePending(e) /\ Lapsed(e)
    \/ NonePending(e) /\ accepting_from # Nil /\ accepting_from > Stamp[e] + Drift

OnFile(e) == e \in DOMAIN recorded \/ Lapsed(e)

Request == [step : {"absent", "charge", "claim", "record", "run"},
            envelope : Envelope \cup {Nil}, now : Int \cup {Nil}, charged : Int \cup {Nil}]

AuthShapes ==
    /\ clock \in Int
    /\ accepting_from \in Int \cup {Nil}
    /\ request \in [Delivery -> Request]
    /\ effects \in [Envelope -> {0, 1}]
    /\ DOMAIN seen \subseteq Envelope
    /\ DOMAIN recorded \subseteq Envelope

\* A remembered time is at most the drift before the envelope's stamp, and a second more
\* when it went through the store.
Memories ==
    /\ \A e \in DOMAIN seen : seen[e] \in Int /\ seen[e] > Stamp[e] - Drift - TicksPerSecond
    /\ \A e \in DOMAIN recorded :
           recorded[e] \in Int /\ recorded[e] * TicksPerSecond > Stamp[e] - Drift - TicksPerSecond

\* A request's clock reading; one that is not yet claimed is fresh, and whatever is in
\* memory of its envelope was claimed by this process.
Readings ==
    \A d \in Delivery :
        LET e == request[d].envelope
        IN  /\ request[d].step # "absent" =>
                   e \in Envelope /\ request[d].now \in Int
                   /\ request[d].now <= clock /\ Stamp[e] - Drift <= request[d].now
            /\ Pending(d) =>
                   /\ request[d].now <= Stamp[e] + Drift /\ clock <= request[d].now + Stall
                   /\ e \in DOMAIN seen => seen[e] >= Stamp[e] - Drift

Down == serving \/ \A d \in Delivery : request[d] = Absent

\* The envelopes that are spoken for.
Spent ==
    \A e \in Envelope : effects[e] = 1 =>
        /\ OnFile(e) /\ clock >= Stamp[e] - Drift
        /\ serving => ShutOut(e)
        /\ ~serving => clock > Stamp[e] - Drift
        /\ \A d \in Delivery : Holding(d) => request[d].envelope # e

Held ==
    \A d \in Delivery : Holding(d) =>
        /\ ShutOut(request[d].envelope)
        /\ request[d].step = "run" => OnFile(request[d].envelope)
        /\ \A c \in Delivery : Holding(c) /\ request[c].envelope = request[d].envelope => c = d

AuthInv == AuthShapes /\ Memories /\ Readings /\ Down /\ Spent /\ Held

-----------------------------------------------------------------------------
(* Arithmetic.                                                             *)

\* The constants are numbers, and a stall is shorter than a second.
LEMMA DriftIs ==
    /\ Drift \in Nat /\ ReplayMemory = 2 * Drift
    /\ TicksPerSecond \in Nat \ {0} /\ Stall \in Nat /\ Stall < TicksPerSecond
    /\ \A e \in Envelope : Stamp[e] \in Int
    /\ Nil \notin Int
  BY RateLimitAssumption, AuthAssumption DEF Drift, ReplayMemory

\* timestamp rounds down to a whole second.
LEMMA WholeSeconds ==
    ASSUME NEW at \in Int
    PROVE  /\ timestamp(at) \in Int
           /\ timestamp(at) * TicksPerSecond <= at
           /\ at < timestamp(at) * TicksPerSecond + TicksPerSecond
  BY RateLimitAssumption, SMT DEF timestamp

LEMMA SecondsOrdered ==
    ASSUME NEW a \in Int, NEW b \in Int, a <= b
    PROVE  a * TicksPerSecond <= b * TicksPerSecond
  BY RateLimitAssumption, SMT

\* What the store has forgotten by the cutoff has lapsed, though the cutoff and the
\* recorded time are both rounded down.
LEMMA ForgottenHasLapsed ==
    ASSUME AuthInv, NEW e \in DOMAIN recorded,
           ~ (recorded[e] > timestamp(forget_before(clock)))
    PROVE  Lapsed(e)
<1>1. forget_before(clock) \in Int /\ recorded[e] \in Int /\ e \in Envelope
  BY DriftIs DEF forget_before, AuthInv, AuthShapes, Memories
<1>2. recorded[e] * TicksPerSecond <= timestamp(forget_before(clock)) * TicksPerSecond
  BY <1>1, WholeSeconds, SecondsOrdered
<1>3. recorded[e] * TicksPerSecond <= forget_before(clock)
  <2>1. recorded[e] * TicksPerSecond \in Int /\ timestamp(forget_before(clock)) * TicksPerSecond \in Int
    BY <1>1, WholeSeconds, DriftIs
  <2> QED BY <1>1, <1>2, <2>1, WholeSeconds
<1>4. recorded[e] * TicksPerSecond \in Int
  BY <1>1, DriftIs
<1> QED BY <1>1, <1>3, <1>4, DriftIs DEF forget_before, Lapsed, AuthInv, AuthShapes, Memories

\* What memory has forgotten by the cutoff has lapsed, and no request still holds a
\* reading from before that.
LEMMA DroppedHasLapsed ==
    ASSUME AuthInv, NEW e \in DOMAIN seen, ~ (seen[e] > forget_before(clock))
    PROVE  Lapsed(e) /\ NonePending(e)
<1>1. e \in Envelope /\ seen[e] \in Int /\ clock \in Int /\ seen[e] <= forget_before(clock)
  BY DriftIs DEF forget_before, AuthInv, AuthShapes, Memories
<1>2. Lapsed(e)
  BY <1>1, DriftIs DEF forget_before, Lapsed, AuthInv, Memories
<1>3. ASSUME NEW d \in Delivery, Pending(d), request[d].envelope = e PROVE FALSE
  <2>1. /\ request[d].now \in Int /\ request[d].now <= Stamp[e] + Drift
        /\ clock <= request[d].now + Stall /\ seen[e] >= Stamp[e] - Drift
    BY <1>1, <1>3, Zenon DEF AuthInv, Readings, Pending
  <2> QED BY <1>1, <2>1, DriftIs DEF forget_before
<1> QED BY <1>2, <1>3, Zenon DEF NonePending

-----------------------------------------------------------------------------
(* Every step keeps the invariant.                                         *)

LEMMA AuthStarts == AuthInit => AuthInv
<1> SUFFICES ASSUME AuthInit PROVE AuthInv
  BY Zenon
<1>1. \A d \in Delivery : request[d] = Absent /\ request[d].step = "absent"
  BY Zenon DEF AuthInit, Absent
<1>2. AuthShapes
  BY DEF AuthInit, LimitInit, AuthShapes, Request, Absent
<1>3. DOMAIN seen = {} /\ DOMAIN recorded = {} /\ \A e \in Envelope : effects[e] = 0
  BY DEF AuthInit
<1> QED BY <1>1, <1>2, <1>3 DEF AuthInv, Memories, Readings, Down, Spent, Held, Holding, Pending
LEMMA AuthStep_quiet ==
    ASSUME AuthInv, UNCHANGED <<clock, guardVars>>
    PROVE  AuthInv'
  BY DEF guardVars, AuthInv, AuthShapes, Memories, Readings, Down, Spent, Held, Holding, Pending,
         ShutOut, OnFile, Lapsed, NonePending, Request, Absent

\* A request that verifies an envelope finds it not shut out.
LEMMA AuthStep_verify ==
    ASSUME AuthInv, NEW d \in Delivery, NEW e \in Envelope, Verify(d, e)
    PROVE  AuthInv'
<1> DEFINE new == [step |-> "charge", envelope |-> e, now |-> clock, charged |-> Nil]
<1>1. /\ request' = [request EXCEPT ![d] = new] /\ request[d].step = "absent"
      /\ UNCHANGED <<clock, seen, recorded, accepting_from, serving, effects>>
      /\ serving /\ e \notin DOMAIN seen
  BY Zenon DEF Verify, At, limitVars
<1>2. clock \in Int /\ clock <= Stamp[e] + Drift /\ Stamp[e] - Drift <= clock
  BY DriftIs DEF Verify, Verifies, AuthInv, AuthShapes
<1>3. ~ Lapsed(e) /\ ~ (accepting_from # Nil /\ accepting_from > Stamp[e] + Drift)
  BY <1>2, DriftIs DEF Verify, refuses_at, Lapsed, AuthInv, AuthShapes
<1>4. new \in Request /\ new.step = "charge" /\ new.envelope = e /\ new.now = clock
  BY <1>2, Zenon DEF Request
<1> HIDE DEF new
<1>5. request' \in [Delivery -> Request] /\ request'[d] = new
      /\ \A c \in Delivery : c # d => request'[c] = request[c]
  BY <1>1, <1>4, Zenon DEF AuthInv, AuthShapes
<1>6. ~ Holding(d)' /\ Pending(d)' /\ \A c \in Delivery : c # d => (Pending(c)' <=> Pending(c)) /\ (Holding(c)' <=> Holding(c))
  BY <1>4, <1>5, Zenon DEF Holding, Pending
<1>7. ASSUME NEW f \in Envelope, ShutOut(f) PROVE ShutOut(f)'
  <2>1. CASE f = e
    BY <1>1, <1>3, <1>7, <2>1, Zenon DEF ShutOut
  <2>2. CASE f # e
    BY <1>1, <1>4, <1>5, <1>6, <1>7, <2>2, Zenon DEF ShutOut, NonePending, Lapsed
  <2> QED BY <2>1, <2>2, Zenon
<1>8. AuthShapes' /\ Memories' /\ Down'
  BY <1>1, <1>5, Zenon DEF AuthInv, AuthShapes, Memories, Down
<1>9. Readings'
  <2> SUFFICES ASSUME NEW c \in Delivery
      PROVE LET g == request'[c].envelope
            IN  /\ request'[c].step # "absent" =>
                       g \in Envelope /\ request'[c].now \in Int
                       /\ request'[c].now <= clock /\ Stamp[g] - Drift <= request'[c].now
                /\ Pending(c)' =>
                       /\ request'[c].now <= Stamp[g] + Drift /\ clock <= request'[c].now + Stall
                       /\ g \in DOMAIN seen => seen[g] >= Stamp[g] - Drift
    BY <1>1, Zenon DEF Readings
  <2>1. CASE c = d
    BY <1>1, <1>2, <1>4, <1>5, <2>1, DriftIs
  <2>2. CASE c # d
    BY <1>5, <1>6, <2>2, Zenon DEF AuthInv, Readings
  <2> QED BY <2>1, <2>2, Zenon
<1>10. Spent'
  BY <1>1, <1>5, <1>6, <1>7 DEF AuthInv, Spent, OnFile, Lapsed
<1>11. Held'
  BY <1>1, <1>5, <1>6, <1>7 DEF AuthInv, Held, OnFile, Lapsed, Readings, Holding
<1> QED BY <1>8, <1>9, <1>10, <1>11, Zenon DEF AuthInv

\* A request that only leaves, or moves on to its claim.
LEMMA AuthStep_moves ==
    ASSUME AuthInv, NEW d \in Delivery, NEW r \in Request,
           request' = [request EXCEPT ![d] = r],
           UNCHANGED <<clock, seen, recorded, accepting_from, serving, effects>>,
           \/ r = Absent
           \/ /\ serving /\ request[d].step = "charge" /\ r.step = "claim"
              /\ r.envelope = request[d].envelope /\ r.now = request[d].now
    PROVE  AuthInv'
<1>1. request' \in [Delivery -> Request] /\ request'[d] = r
      /\ \A c \in Delivery : c # d => request'[c] = request[c]
  BY Zenon DEF AuthInv, AuthShapes
<1>2. ~ Holding(d)' /\ (Pending(d)' => Pending(d) /\ request'[d].envelope = request[d].envelope
                                          /\ request'[d].now = request[d].now /\ request[d].step # "absent")
  BY <1>1 DEF Holding, Pending, Absent
<1>3. \A c \in Delivery : c # d => (Pending(c)' <=> Pending(c)) /\ (Holding(c)' <=> Holding(c))
  BY <1>1, Zenon DEF Holding, Pending
<1>4. request'[d].step # "absent" => Pending(d)'
  BY <1>1 DEF Absent, Pending
<1>5. ASSUME NEW f \in Envelope, ShutOut(f) PROVE ShutOut(f)'
  BY <1>1, <1>2, <1>3, <1>5, Zenon DEF ShutOut, NonePending, Lapsed
<1>6. AuthShapes' /\ Memories' /\ Down'
  BY <1>1, Zenon DEF AuthInv, AuthShapes, Memories, Down
<1>7. Readings'
  <2> SUFFICES ASSUME NEW c \in Delivery
      PROVE LET g == request'[c].envelope
            IN  /\ request'[c].step # "absent" =>
                       g \in Envelope /\ request'[c].now \in Int
                       /\ request'[c].now <= clock /\ Stamp[g] - Drift <= request'[c].now
                /\ Pending(c)' =>
                       /\ request'[c].now <= Stamp[g] + Drift /\ clock <= request'[c].now + Stall
                       /\ g \in DOMAIN seen => seen[g] >= Stamp[g] - Drift
    BY Zenon DEF Readings
  <2>1. CASE c = d
    BY <1>2, <1>4, <2>1 DEF AuthInv, Readings
  <2>2. CASE c # d
    BY <1>1, <1>3, <2>2, Zenon DEF AuthInv, Readings
  <2> QED BY <2>1, <2>2, Zenon
<1>8. Spent'
  BY <1>1, <1>2, <1>3, <1>5, SMTT(30) DEF AuthInv, Spent, OnFile, Lapsed
<1>9. Held'
  BY <1>1, <1>2, <1>3, <1>5 DEF AuthInv, Held, OnFile, Lapsed, Readings, Holding
<1> QED BY <1>6, <1>7, <1>8, <1>9, Zenon DEF AuthInv

LEMMA AuthStep_charge ==
    ASSUME AuthInv, NEW d \in Delivery, Charge(d)
    PROVE  AuthInv'
<1>1. request[d] \in Request /\ clock \in Int
  BY Zenon DEF AuthInv, AuthShapes
<1>2. Absent \in Request
  BY Zenon DEF Absent, Request
<1> DEFINE r == IF WithinLimit(KeyBucket(Signer[request[d].envelope]))
                THEN [request[d] EXCEPT !.step = "claim", !.charged = clock] ELSE Absent
<1>3. /\ request' = [request EXCEPT ![d] = r] /\ serving /\ request[d].step = "charge"
      /\ UNCHANGED <<clock, seen, recorded, accepting_from, serving, effects>>
  BY Zenon DEF Charge, At
<1>4. r \in Request
      /\ \/ r = Absent
         \/ r.step = "claim" /\ r.envelope = request[d].envelope /\ r.now = request[d].now
  <2> DEFINE q == [request[d] EXCEPT !.step = "claim", !.charged = clock]
  <2>1. q \in Request /\ q.step = "claim" /\ q.envelope = request[d].envelope /\ q.now = request[d].now
    BY <1>1, ZenonT(30) DEF Request
  <2>2. r = q \/ r = Absent
    BY Zenon
  <2> HIDE DEF q, r
  <2> QED BY <1>2, <2>1, <2>2, Zenon
<1> HIDE DEF r
<1> QED BY <1>3, <1>4, AuthStep_moves, ZenonT(30)

\* The first claim of an envelope that is not shut out, or a claim that comes to nothing.
LEMMA AuthStep_claim ==
    ASSUME AuthInv, NEW d \in Delivery, Claim(d)
    PROVE  AuthInv'
<1>0. PICK e \in Envelope, n \in Int : request[d].envelope = e /\ request[d].now = n
  BY Zenon DEF Claim, At, AuthInv, Readings
<1>1. /\ n <= clock /\ clock \in Int
      /\ Stamp[e] - Drift <= n /\ n <= Stamp[e] + Drift
      /\ request[d].step = "claim" /\ serving /\ Pending(d)
  BY <1>0, Zenon DEF Claim, At, AuthInv, AuthShapes, Readings, Pending
<1>2. UNCHANGED <<clock, recorded, accepting_from, serving, effects>>
  BY Zenon DEF Claim, limitVars
<1>3. /\ DOMAIN seen' = DOMAIN seen \cup {e} /\ seen'[e] = n
      /\ \A f \in DOMAIN seen : f # e => seen'[f] = seen[f]
  BY <1>0, Zenon DEF Claim, Insert
<1>4. /\ request' \in [Delivery -> Request]
      /\ \A c \in Delivery : c # d => request'[c] = request[c]
      /\ \/ request'[d] = Absent
         \/ /\ e \notin DOMAIN seen /\ request'[d].step = "record"
            /\ request'[d].envelope = e /\ request'[d].now = n
  <2>1. request \in [Delivery -> Request] /\ request[d] \in Request /\ Absent \in Request
    BY Zenon DEF AuthInv, AuthShapes, Request, Absent
  <2>2. CASE FirstClaim(d)
    BY <1>0, <2>1, <2>2 DEF Claim, Goto, FirstClaim, Request
  <2>3. CASE ~ FirstClaim(d)
    BY <2>1, <2>3, Zenon DEF Claim, Leave
  <2> QED BY <2>2, <2>3, Zenon
<1>5. /\ ~ Pending(d)'
      /\ \A c \in Delivery : c # d => (Pending(c)' <=> Pending(c)) /\ (Holding(c)' <=> Holding(c))
      /\ Holding(d)' => e \notin DOMAIN seen /\ request'[d].step = "record"
                        /\ request'[d].envelope = e /\ request'[d].now = n
  BY <1>4 DEF Pending, Holding, Absent
<1>6. ASSUME NEW f \in Envelope, ShutOut(f) PROVE ShutOut(f)'
  BY <1>2, <1>3, <1>4, <1>5, <1>6, SMTT(30) DEF ShutOut, NonePending, Lapsed
<1>7. ASSUME Holding(d)' PROVE effects[e] = 0 /\ \A c \in Delivery : Holding(c) => request[c].envelope # e
  <2>1. ~ ShutOut(e)
    BY <1>0, <1>1, <1>5, <1>7, Zenon DEF ShutOut, NonePending
  <2> QED BY <1>1, <2>1, Zenon DEF AuthInv, AuthShapes, Spent, Held
<1>8. AuthShapes' /\ Down'
  BY <1>1, <1>2, <1>3, <1>4, Zenon DEF AuthInv, AuthShapes, Down
<1>9. Memories'
  BY <1>1, <1>2, <1>3, DriftIs, SMTT(30) DEF AuthInv, Memories
<1>10. Readings'
  <2> SUFFICES ASSUME NEW c \in Delivery
      PROVE LET g == request'[c].envelope
            IN  /\ request'[c].step # "absent" =>
                       g \in Envelope /\ request'[c].now \in Int
                       /\ request'[c].now <= clock /\ Stamp[g] - Drift <= request'[c].now
                /\ Pending(c)' =>
                       /\ request'[c].now <= Stamp[g] + Drift /\ clock <= request'[c].now + Stall
                       /\ g \in DOMAIN seen' => seen'[g] >= Stamp[g] - Drift
    BY <1>2, Zenon DEF Readings
  <2>1. CASE c = d
    BY <1>1, <1>4, <1>5, <2>1, SMTT(30) DEF Absent
  <2>2. CASE c # d
    BY <1>1, <1>3, <1>4, <1>5, <2>2, SMTT(30) DEF AuthInv, Readings
  <2> QED BY <2>1, <2>2, Zenon
<1>11. Spent'
  BY <1>1, <1>2, <1>4, <1>5, <1>6, <1>7, SMTT(30) DEF AuthInv, Spent, OnFile, Lapsed
<1>12. Held'
  <2>1. ShutOut(e)'
    BY <1>3, Zenon DEF ShutOut
  <2>2. ASSUME NEW c \in Delivery, Holding(c)', c # d
        PROVE  /\ ShutOut(request[c].envelope) /\ request[c].envelope \in Envelope
               /\ request[c].step = "run" => OnFile(request[c].envelope)
    BY <1>5, <2>2, Zenon DEF AuthInv, Held, Readings, Holding
  <2>3. ASSUME NEW c \in Delivery, Holding(c)'
        PROVE  /\ ShutOut(request[c].envelope)'
               /\ request'[c].step = "run" => OnFile(request[c].envelope)'
    BY <1>2, <1>4, <1>5, <1>6, <2>1, <2>2, <2>3, Zenon DEF OnFile, Lapsed
  <2>4. ASSUME NEW c \in Delivery, Holding(c)', NEW b \in Delivery, Holding(b)',
               request'[b].envelope = request'[c].envelope
        PROVE  b = c
    BY <1>4, <1>5, <1>7, <2>4 DEF AuthInv, Held
  <2> QED BY <2>3, <2>4, Zenon DEF Held
<1> QED BY <1>8, <1>9, <1>10, <1>11, <1>12, Zenon DEF AuthInv

\* The durable record is made before the handler runs; one that fails ends the request.
LEMMA AuthStep_record ==
    ASSUME AuthInv, NEW d \in Delivery, RecordSignature(d)
    PROVE  AuthInv'
<1>0. PICK e \in Envelope, n \in Int : request[d].envelope = e /\ request[d].now = n
  BY Zenon DEF RecordSignature, At, AuthInv, Readings
<1>1. /\ n <= clock /\ clock \in Int /\ Stamp[e] - Drift <= n
      /\ request[d].step = "record" /\ serving /\ Holding(d)
      /\ UNCHANGED <<clock, seen, accepting_from, serving, effects>>
  BY <1>0, Zenon DEF RecordSignature, At, AuthInv, AuthShapes, Readings, Holding, limitVars
<1>2. CASE Leave(d) /\ UNCHANGED recorded
  <2>1. Absent \in Request
    BY Zenon DEF Absent, Request
  <2> QED BY <1>1, <1>2, <2>1, AuthStep_moves, ZenonT(30) DEF Leave
<1>3. CASE recorded' = record_seen_signature(request[d].envelope, request[d].now) /\ Goto(d, "run")
  <2>1. /\ DOMAIN recorded' = DOMAIN recorded \cup {e} /\ recorded'[e] = timestamp(n)
        /\ \A f \in DOMAIN recorded : f # e => recorded'[f] = recorded[f]
    BY <1>0, <1>3, Zenon DEF record_seen_signature, Insert
  <2>2. /\ request' \in [Delivery -> Request]
        /\ \A c \in Delivery : c # d => request'[c] = request[c]
        /\ request'[d].step = "run" /\ request'[d].envelope = e /\ request'[d].now = n
    <3>1. request \in [Delivery -> Request] /\ request[d] \in Request
      BY Zenon DEF AuthInv, AuthShapes
    <3> QED BY <1>0, <1>3, <3>1, Zenon DEF Goto, Request
  <2>3. /\ ~ Pending(d)' /\ Holding(d)'
        /\ \A c \in Delivery : /\ request'[c].envelope = request[c].envelope
                               /\ Pending(c)' <=> Pending(c)
                               /\ Holding(c)' <=> Holding(c)
    BY <1>0, <1>1, <2>2, Zenon DEF Pending, Holding
  <2>4. ASSUME NEW f \in Envelope
        PROVE  (ShutOut(f) => ShutOut(f)') /\ (OnFile(f) => OnFile(f)')
    BY <1>1, <2>1, <2>3, Zenon DEF ShutOut, NonePending, Lapsed, OnFile
  <2>5. AuthShapes' /\ Down'
    BY <1>1, <2>1, <2>2, Zenon DEF AuthInv, AuthShapes, Down
  <2>6. Memories'
    <3>1. timestamp(n) \in Int /\ timestamp(n) * TicksPerSecond \in Int
          /\ n < timestamp(n) * TicksPerSecond + TicksPerSecond
      BY WholeSeconds, DriftIs
    <3>2. timestamp(n) * TicksPerSecond > Stamp[e] - Drift - TicksPerSecond
      BY <1>1, <3>1, DriftIs, SMTT(30)
    <3> QED BY <1>1, <2>1, <3>1, <3>2, Zenon DEF AuthInv, Memories
  <2>7. Readings'
    BY <1>0, <1>1, <2>2, <2>3, SMTT(30) DEF AuthInv, Readings
  <2>8. Spent'
    BY <1>1, <2>3, <2>4, SMTT(30) DEF AuthInv, Spent
  <2>9. Held'
    <3>1. OnFile(e)'
      BY <2>1, Zenon DEF OnFile
    <3>2. ASSUME NEW c \in Delivery, Holding(c)' PROVE request'[c].envelope \in Envelope
      BY <2>2, <2>3, <3>2, Zenon DEF AuthInv, Readings, Holding
    <3> QED BY <2>2, <2>3, <2>4, <3>1, <3>2 DEF AuthInv, Held
  <2> QED BY <2>5, <2>6, <2>7, <2>8, <2>9, Zenon DEF AuthInv
<1> QED BY <1>2, <1>3, Zenon DEF RecordSignature

\* The handler runs: the envelope had no effect before.
LEMMA AuthStep_run ==
    ASSUME AuthInv, NEW d \in Delivery, RunHandler(d)
    PROVE  AuthInv'
<1>0. PICK e \in Envelope : request[d].envelope = e
  BY Zenon DEF RunHandler, At, AuthInv, Readings
<1>1. /\ clock \in Int /\ clock >= Stamp[e] - Drift
      /\ request[d].step = "run" /\ serving /\ Holding(d)
      /\ UNCHANGED <<clock, seen, recorded, accepting_from, serving>>
  <2>1. request[d].now \in Int /\ clock \in Int /\ request[d].now <= clock /\ Stamp[e] - Drift <= request[d].now
    BY <1>0, Zenon DEF RunHandler, At, AuthInv, AuthShapes, Readings
  <2> QED BY <2>1, DriftIs, SMTT(30) DEF RunHandler, At, Holding, limitVars
<1>2. effects[e] = 0 /\ effects' = [effects EXCEPT ![e] = @ + 1]
  BY <1>0, <1>1, Zenon DEF RunHandler, AuthInv, AuthShapes, Spent
<1>3. effects' \in [Envelope -> {0, 1}] /\ \A f \in Envelope : f # e => effects'[f] = effects[f]
  BY <1>2, SMTT(30) DEF AuthInv, AuthShapes
<1>4. /\ request' \in [Delivery -> Request] /\ request'[d] = Absent
      /\ \A c \in Delivery : c # d => request'[c] = request[c]
  <2>1. Absent \in Request
    BY Zenon DEF Absent, Request
  <2> QED BY <2>1, Zenon DEF RunHandler, Leave, AuthInv, AuthShapes
<1>5. /\ ~ Pending(d)' /\ ~ Holding(d)'
      /\ \A c \in Delivery : c # d => (Pending(c)' <=> Pending(c)) /\ (Holding(c)' <=> Holding(c))
  BY <1>4, SMTT(30) DEF Pending, Holding, Absent
<1>6. ASSUME NEW f \in Envelope
      PROVE  (ShutOut(f) => ShutOut(f)') /\ (OnFile(f) => OnFile(f)')
  BY <1>1, <1>4, <1>5, Zenon DEF ShutOut, NonePending, Lapsed, OnFile
<1>7. AuthShapes' /\ Down' /\ Memories'
  BY <1>1, <1>3, <1>4, Zenon DEF AuthInv, AuthShapes, Down, Memories
<1>8. Readings'
  BY <1>1, <1>4, <1>5, SMTT(30) DEF AuthInv, Readings, Absent
<1>9. Spent'
  <2>1. ShutOut(e) /\ OnFile(e) /\ \A c \in Delivery : Holding(c) /\ request[c].envelope = e => c = d
    BY <1>0, <1>1, Zenon DEF AuthInv, Held
  <2>2. ASSUME NEW c \in Delivery, Holding(c)' PROVE request'[c].envelope # e
    BY <1>4, <1>5, <2>1, <2>2, Zenon
  <2> QED BY <1>1, <1>3, <1>4, <1>5, <1>6, <2>1, <2>2, ZenonT(30) DEF AuthInv, Spent
<1>10. Held'
  <2>1. ASSUME NEW c \in Delivery, Holding(c)' PROVE request'[c].envelope \in Envelope
    BY <1>4, <1>5, <2>1, Zenon DEF AuthInv, Readings, Holding
  <2> QED BY <1>4, <1>5, <1>6, <2>1, SMTT(30) DEF AuthInv, Held
<1> QED BY <1>7, <1>8, <1>9, <1>10, Zenon DEF AuthInv

\* The sweep forgets only what has lapsed, in memory and on disk.
LEMMA AuthStep_cleanup ==
    ASSUME AuthInv, CleanupGuard
    PROVE  AuthInv'
<1>1. serving /\ UNCHANGED <<clock, accepting_from, serving, request, effects>>
  BY Zenon DEF CleanupGuard, limitVars
<1>2. /\ DOMAIN seen' \subseteq DOMAIN seen /\ \A f \in DOMAIN seen' : seen'[f] = seen[f]
      /\ \A f \in DOMAIN seen : f \notin DOMAIN seen' => ~ (seen[f] > forget_before(clock))
  BY Zenon DEF CleanupGuard
<1>3. /\ DOMAIN recorded' \subseteq DOMAIN recorded /\ \A f \in DOMAIN recorded' : recorded'[f] = recorded[f]
      /\ \A f \in DOMAIN recorded : f \notin DOMAIN recorded' => ~ (recorded[f] > timestamp(forget_before(clock)))
  BY Zenon DEF CleanupGuard, prune_seen_signatures
<1>4. \A c \in Delivery : (Pending(c)' <=> Pending(c)) /\ (Holding(c)' <=> Holding(c))
  BY <1>1, Zenon DEF Pending, Holding
<1>5. ASSUME NEW f \in Envelope
      PROVE  (ShutOut(f) => ShutOut(f)') /\ (OnFile(f) => OnFile(f)')
  <2>1. (Lapsed(f)' <=> Lapsed(f)) /\ (NonePending(f)' <=> NonePending(f))
    BY <1>1, <1>4, Zenon DEF Lapsed, NonePending
  <2>2. f \in DOMAIN seen => f \in DOMAIN seen' \/ (Lapsed(f) /\ NonePending(f))
    BY <1>2, DroppedHasLapsed, Zenon
  <2>3. f \in DOMAIN recorded => f \in DOMAIN recorded' \/ Lapsed(f)
    BY <1>3, ForgottenHasLapsed, Zenon
  <2> QED BY <1>1, <2>1, <2>2, <2>3, Zenon DEF ShutOut, OnFile
<1>6. AuthShapes' /\ Down'
  BY <1>1, <1>2, <1>3, Zenon DEF AuthInv, AuthShapes, Down
<1>7. Memories'
  BY <1>2, <1>3, Zenon DEF AuthInv, Memories
<1>8. Readings'
  BY <1>1, <1>2, <1>4, Zenon DEF AuthInv, Readings
<1>9. Spent'
  BY <1>1, <1>4, <1>5, Zenon DEF AuthInv, Spent
<1>10. Held'
  <2>1. ASSUME NEW c \in Delivery, Holding(c)' PROVE request'[c].envelope \in Envelope
    BY <1>1, <1>4, <2>1, Zenon DEF AuthInv, Readings, Holding
  <2> QED BY <1>1, <1>4, <1>5, <2>1, Zenon DEF AuthInv, Held
<1> QED BY <1>6, <1>7, <1>8, <1>9, <1>10, Zenon DEF AuthInv

\* The process ends: no request survives it, and the clock moves on.
LEMMA AuthStep_stop ==
    ASSUME AuthInv, Stop
    PROVE  AuthInv'
<1>1. /\ ~ serving' /\ clock' = clock + 1 /\ clock \in Int /\ DOMAIN seen' = {}
      /\ request' = [d \in Delivery |-> Absent]
      /\ UNCHANGED <<recorded, accepting_from, effects>>
  BY DEF Stop, AuthInv, AuthShapes
<1>2. request' \in [Delivery -> Request] /\ \A d \in Delivery : ~ Pending(d)' /\ ~ Holding(d)'
  BY <1>1, Zenon DEF Request, Absent, Pending, Holding
<1>3. AuthShapes' /\ Down' /\ Memories' /\ Held'
  BY <1>1, <1>2 DEF AuthInv, AuthShapes, Down, Memories, Held
<1>4. Readings'
  BY <1>1, <1>2, Zenon DEF Readings, Absent
<1>5. Spent'
  <2>1. ASSUME NEW e \in Envelope, effects[e] = 1
        PROVE  OnFile(e)' /\ clock' > Stamp[e] - Drift
    BY <1>1, <2>1, DriftIs DEF AuthInv, Spent, OnFile, Lapsed
  <2>2. \A e \in Envelope : clock' > Stamp[e] - Drift => clock' >= Stamp[e] - Drift
    BY <1>1, DriftIs
  <2> QED BY <1>1, <1>2, <2>1, <2>2, Zenon DEF Spent
<1> QED BY <1>3, <1>4, <1>5, Zenon DEF AuthInv

\* A process that read its log remembers every envelope that can still verify.
LEMMA AuthStep_restore ==
    ASSUME AuthInv, Restore
    PROVE  AuthInv'
<1>1. /\ ~ serving /\ serving' /\ accepting_from' = Nil /\ clock \in Int
      /\ UNCHANGED <<clock, recorded, request, effects>>
  BY Zenon DEF Restore, AuthInv, AuthShapes, limitVars
<1>2. /\ \A d \in Delivery : request[d] = Absent
      /\ \A d \in Delivery : ~ Pending(d)' /\ ~ Holding(d)'
  BY <1>1 DEF AuthInv, Down, Absent, Pending, Holding
<1>3. /\ DOMAIN seen' = {e \in DOMAIN recorded : recorded[e] > timestamp(forget_before(clock))}
      /\ \A e \in DOMAIN seen' : seen'[e] = recorded[e] * TicksPerSecond
  BY Zenon DEF Restore, load_recent_signatures
<1>4. AuthShapes' /\ Down' /\ Held'
  BY <1>1, <1>2, <1>3, Zenon DEF AuthInv, AuthShapes, Down, Held
<1>5. Memories'
  <2>1. ASSUME NEW e \in DOMAIN seen' PROVE recorded[e] * TicksPerSecond \in Int
    BY <1>3, <2>1, DriftIs, SMTT(30) DEF AuthInv, Memories
  <2> QED BY <1>1, <1>3, <2>1, Zenon DEF AuthInv, Memories
<1>6. Readings'
  BY <1>1, <1>2, SMTT(30) DEF Readings, Absent
<1>7. Spent'
  <2>1. ASSUME NEW e \in Envelope, effects[e] = 1
        PROVE  OnFile(e)' /\ ShutOut(e)' /\ clock >= Stamp[e] - Drift
    <3>1. OnFile(e) /\ clock >= Stamp[e] - Drift
      BY <2>1, Zenon DEF AuthInv, Spent
    <3>2. e \in DOMAIN seen' \/ Lapsed(e)
      BY <1>3, <3>1, ForgottenHasLapsed, Zenon DEF OnFile
    <3> QED BY <1>1, <1>2, <3>1, <3>2, Zenon DEF OnFile, ShutOut, NonePending, Lapsed
  <2> QED BY <1>1, <1>2, <2>1, Zenon DEF Spent
<1> QED BY <1>4, <1>5, <1>6, <1>7, Zenon DEF AuthInv

\* A process that could not read it lets no request in until they have all lapsed.
LEMMA AuthStep_booting ==
    ASSUME AuthInv, Booting
    PROVE  AuthInv'
<1>1. /\ ~ serving /\ serving' /\ accepting_from' = clock + ReplayMemory /\ clock \in Int
      /\ UNCHANGED <<clock, seen, recorded, request, effects>>
  BY Zenon DEF Booting, AuthInv, AuthShapes, limitVars
<1>2. accepting_from' \in Int /\ accepting_from' # Nil
  BY <1>1, DriftIs
<1>3. /\ \A d \in Delivery : request[d] = Absent
      /\ \A d \in Delivery : ~ Pending(d)' /\ ~ Holding(d)'
  BY <1>1, SMTT(30) DEF AuthInv, Down, Absent, Pending, Holding
<1>4. AuthShapes' /\ Down' /\ Held' /\ Memories'
  BY <1>1, <1>2, <1>3, Zenon DEF AuthInv, AuthShapes, Down, Held, Memories
<1>5. Readings'
  BY <1>1, <1>3, SMTT(30) DEF Readings, Absent
<1>6. Spent'
  <2>1. ASSUME NEW e \in Envelope, effects[e] = 1
        PROVE  OnFile(e)' /\ ShutOut(e)' /\ clock >= Stamp[e] - Drift
    <3>1. OnFile(e) /\ clock > Stamp[e] - Drift
      BY <1>1, <2>1, Zenon DEF AuthInv, Spent
    <3>2. accepting_from' > Stamp[e] + Drift
      BY <1>1, <3>1, DriftIs
    <3> QED BY <1>1, <1>2, <1>3, <3>1, <3>2, DriftIs DEF OnFile, ShutOut, NonePending, Lapsed
  <2> QED BY <1>1, <1>3, <2>1, Zenon DEF Spent
<1> QED BY <1>4, <1>5, <1>6, Zenon DEF AuthInv

\* Time passes, by no more than an unclaimed request may stall.
LEMMA AuthStep_pass ==
    ASSUME AuthInv, Pass
    PROVE  AuthInv'
<1>1. /\ clock' = clock + 1 /\ clock \in Int
      /\ UNCHANGED <<seen, recorded, accepting_from, serving, request, effects>>
  BY Zenon DEF Pass, Tick, guardVars, AuthInv, AuthShapes
<1>2. /\ \A d \in Delivery : Pending(d) => clock - request[d].now < Stall
      /\ \A d \in Delivery : (Pending(d)' <=> Pending(d)) /\ (Holding(d)' <=> Holding(d))
  BY <1>1, Zenon DEF Pass, Pending, Holding
<1>3. ASSUME NEW e \in Envelope
      PROVE  (ShutOut(e) => ShutOut(e)') /\ (OnFile(e) => OnFile(e)')
  BY <1>1, <1>2, DriftIs, SMTT(30) DEF ShutOut, OnFile, NonePending, Lapsed
<1>4. AuthShapes' /\ Down' /\ Memories'
  BY <1>1, SMTT(30) DEF AuthInv, AuthShapes, Down, Memories
<1>5. Readings'
  <2> SUFFICES ASSUME NEW d \in Delivery
      PROVE LET g == request[d].envelope
            IN  /\ request[d].step # "absent" =>
                       g \in Envelope /\ request[d].now \in Int
                       /\ request[d].now <= clock' /\ Stamp[g] - Drift <= request[d].now
                /\ Pending(d) =>
                       /\ request[d].now <= Stamp[g] + Drift /\ clock' <= request[d].now + Stall
                       /\ g \in DOMAIN seen => seen[g] >= Stamp[g] - Drift
    BY <1>1, <1>2 DEF Readings
  <2>1. Pending(d) => request[d].step # "absent"
    BY Zenon DEF Pending
  <2> QED BY <1>1, <1>2, <2>1, DriftIs, SMTT(30) DEF AuthInv, Readings
<1>6. Spent'
  BY <1>1, <1>2, <1>3, DriftIs, SMTT(30) DEF AuthInv, Spent
<1>7. Held'
  <2>1. ASSUME NEW c \in Delivery, Holding(c)' PROVE request'[c].envelope \in Envelope
    BY <1>1, <1>2, <2>1, Zenon DEF AuthInv, Readings, Holding
  <2> QED BY <1>1, <1>2, <1>3, <2>1, Zenon DEF AuthInv, Held
<1> QED BY <1>4, <1>5, <1>6, <1>7, Zenon DEF AuthInv

LEMMA AuthSteps == AuthInv /\ [AuthNext]_authVars => AuthInv'
<1> SUFFICES ASSUME AuthInv, [AuthNext]_authVars PROVE AuthInv'
  BY Zenon
<1>1. ASSUME NEW d \in Delivery,
             (\E e \in Envelope : Verify(d, e)) \/ Charge(d) \/ Claim(d) \/ RecordSignature(d) \/ RunHandler(d)
      PROVE  AuthInv'
  BY <1>1, AuthStep_verify, AuthStep_charge, AuthStep_claim, AuthStep_record, AuthStep_run
<1>2. CASE CleanupGuard
  BY <1>2, AuthStep_cleanup, Zenon
<1>3. CASE CleanupTable /\ UNCHANGED guardVars
  BY <1>3, AuthStep_quiet, Zenon DEF CleanupTable
<1>4. CASE Stop \/ BootGuard \/ Pass
  BY <1>4, AuthStep_stop, AuthStep_restore, AuthStep_booting, AuthStep_pass, Zenon DEF BootGuard
<1>5. CASE UNCHANGED authVars
  BY <1>5, AuthStep_quiet, Zenon DEF authVars, limitVars
<1> QED BY <1>1, <1>2, <1>3, <1>4, <1>5 DEF AuthNext

-----------------------------------------------------------------------------

\* No signed envelope takes effect twice, whatever deliveries of it race, whichever sweeps,
\* failed writes and restarts come between them, and whether or not the log of signatures
\* could be read back (auth.rs claim, forget_before, restore, booting).
THEOREM EnvelopesOnce == AuthSpec => []TakesEffectOnce
<1>1. AuthInv => TakesEffectOnce
  BY DEF AuthInv, AuthShapes, TakesEffectOnce
<1> QED BY <1>1, AuthStarts, AuthSteps, PTL DEF AuthSpec

=============================================================================
