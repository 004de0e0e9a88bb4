-------------------------------- MODULE Auth --------------------------------
(***************************************************************************)
(* Authentication of signed requests (hub/src/auth.rs and                  *)
(* lib/src/envelope.rs): the drift check, the replay guard with its memory *)
(* and its durable half, the per-key quota charged between the two, and    *)
(* what a restart, a failed disk write or a sweep does to them.            *)
(*                                                                         *)
(* A request is one HTTP delivery of a signed envelope; the same envelope  *)
(* may be delivered any number of times, by any number of requests at      *)
(* once.  Every envelope here is genuine: one that is not is turned away   *)
(* by verify_signature before it touches any state.                        *)
(***************************************************************************)
EXTENDS RateLimit

CONSTANTS
    Envelope,                    \* the signed envelopes in circulation
    Stamp,                       \* the tick each was stamped with, by its signer's clock
    Signer,                      \* the key each is signed by
    Delivery,                    \* the requests that can be in the hub at once
    MAX_REQUEST_DRIFT_SECONDS,
    Stall,                       \* bound: ticks between a request's clock read and its claim
    MaxRestarts,                 \* bound: restarts of the hub
    Nil                          \* no value

ASSUME AuthAssumption ==
    /\ Stamp \in [Envelope -> Int]
    /\ {MAX_REQUEST_DRIFT_SECONDS, Stall} \subseteq Nat \ {0}
    /\ Stall < TicksPerSecond
    /\ MaxRestarts \in Nat
    /\ Nil \notin Int

VARIABLES
    seen,           \* ReplayGuard.seen: signature to the tick it was claimed
    recorded,       \* the durable twin: signature to the second it was claimed
    accepting_from, \* the end of the restart window, Nil when there is none
    serving,        \* whether a hub process is up
    request,        \* each delivery: its step, envelope and the tick it read the clock
    effects,        \* history: how often each envelope's request took effect
    fsyncs,         \* history: <<key, "signed", tick charged>> of each durable write
    restarts        \* restarts so far

guardVars == <<seen, recorded, accepting_from, serving, request, effects, fsyncs, restarts>>
authVars == <<limitVars, guardVars>>

----------------------------------------------------------------------------
Drift == MAX_REQUEST_DRIFT_SECONDS * TicksPerSecond

\* REPLAY_MEMORY_SECONDS, in ticks.
ReplayMemory == 2 * Drift

\* Faulty variant: the cutoff is not moved back by the second that truncation costs.
WithoutTheSecond(now) == now - ReplayMemory

forget_before(now) == now - (ReplayMemory + TicksPerSecond)

\* DateTime::timestamp: whole seconds, rounded down.
timestamp(tick) == tick \div TicksPerSecond

\* The part of verify_signature that depends on when the envelope arrives.
Verifies(e, now) == now - Stamp[e] \in -Drift .. Drift

\* The store's replay-guard table, and what it keeps of it past a cutoff.
record_seen_signature(e, at) == Insert(recorded, e, timestamp(at))
load_recent_signatures(cutoff) == {e \in DOMAIN recorded : recorded[e] > cutoff}
prune_seen_signatures(cutoff) ==
    [e \in {e \in DOMAIN recorded : recorded[e] > cutoff} |-> recorded[e]]

refuses_at(now) == accepting_from # Nil /\ now < accepting_from

----------------------------------------------------------------------------
Absent == [step |-> "absent", envelope |-> Nil, now |-> Nil, charged |-> Nil]

AuthInit ==
    /\ LimitInit
    /\ seen = << >>
    /\ recorded = << >>
    /\ accepting_from = Nil
    /\ serving = TRUE
    /\ request = [d \in Delivery |-> Absent]
    /\ effects = [e \in Envelope |-> 0]
    /\ fsyncs = << >>
    /\ restarts = 0

At(d, step) == serving /\ request[d].step = step
Leave(d) == request' = [request EXCEPT ![d] = Absent]
Goto(d, step) == request' = [request EXCEPT ![d].step = step]

\* verify_charging reads the clock once, then refuses_at, verify_signature and
\* already_seen; a request any of them refuses leaves no trace.
Verify(d, e) ==
    /\ At(d, "absent")
    /\ ~refuses_at(clock)
    /\ Verifies(e, clock)
    /\ e \notin DOMAIN seen
    /\ request' = [request EXCEPT ![d] = [step |-> "charge", envelope |-> e,
                                          now |-> clock, charged |-> Nil]]
    /\ UNCHANGED <<limitVars, seen, recorded, accepting_from, serving, effects, fsyncs, restarts>>

\* charge_pubkey: over its quota the request ends, its envelope unclaimed.
Charge(d) ==
    LET bucket == KeyBucket(Signer[request[d].envelope])
    IN  /\ At(d, "charge")
        /\ Record(bucket)
        /\ request' = [request EXCEPT
               ![d] = IF WithinLimit(bucket)
                      THEN [@ EXCEPT !.step = "claim", !.charged = clock]
                      ELSE Absent]
        /\ UNCHANGED <<clock, admitted, seen, recorded, accepting_from, serving, effects,
                       fsyncs, restarts>>

\* The atomic insert of claim decides between two deliveries of one envelope.
FirstClaim(d) == request[d].envelope \notin DOMAIN seen

Claim(d) ==
    /\ At(d, "claim")
    /\ seen' = Insert(seen, request[d].envelope, request[d].now)
    /\ IF FirstClaim(d) THEN Goto(d, "record") ELSE Leave(d)
    /\ UNCHANGED <<limitVars, recorded, accepting_from, serving, effects, fsyncs, restarts>>

\* record_seen_signature: one fsync; when it fails the envelope stays claimed in
\* memory and the request is refused, otherwise the handler runs.
RecordSignature(d) ==
    /\ At(d, "record")
    /\ fsyncs' = Append(fsyncs, <<Signer[request[d].envelope], "signed", request[d].charged>>)
    /\ \/ /\ recorded' = record_seen_signature(request[d].envelope, request[d].now)
          /\ Goto(d, "run")
       \/ /\ Leave(d)
          /\ UNCHANGED recorded
    /\ UNCHANGED <<limitVars, seen, accepting_from, serving, effects, restarts>>

RunHandler(d) ==
    /\ At(d, "run")
    /\ effects' = [effects EXCEPT ![request[d].envelope] = @ + 1]
    /\ Leave(d)
    /\ UNCHANGED <<limitVars, seen, recorded, accepting_from, serving, fsyncs, restarts>>

\* The sweep: ReplayGuard::cleanup drops from memory and from disk on one cutoff; a
\* prune that fails is only logged.
CleanupGuard ==
    /\ serving
    /\ seen' = [e \in {e \in DOMAIN seen : seen[e] > forget_before(clock)} |-> seen[e]]
    /\ recorded' \in {recorded, prune_seen_signatures(timestamp(forget_before(clock)))}
    /\ UNCHANGED <<limitVars, accepting_from, serving, request, effects, fsyncs, restarts>>

\* The process stops, drained or killed with requests in it; coming back takes at least a
\* tick.
Stop ==
    /\ serving /\ restarts < MaxRestarts /\ clock < MaxClock
    /\ serving' = FALSE
    /\ restarts' = restarts + 1
    /\ clock' = clock + 1
    /\ seen' = << >>
    /\ windows' = << >>
    /\ fsyncs' = << >>
    /\ request' = [d \in Delivery |-> Absent]
    /\ UNCHANGED <<admitted, recorded, accepting_from, effects>>

\* ReplayGuard::restore: every signature recorded after the cutoff comes back.
Restore ==
    /\ ~serving
    /\ seen' = [e \in load_recent_signatures(timestamp(forget_before(clock)))
                   |-> recorded[e] * TicksPerSecond]
    /\ accepting_from' = Nil
    /\ serving' = TRUE
    /\ UNCHANGED <<limitVars, recorded, request, effects, fsyncs, restarts>>

\* ReplayGuard::booting: the log could not be read, so requests wait the memory out.
Booting ==
    /\ ~serving
    /\ accepting_from' = clock + ReplayMemory
    /\ serving' = TRUE
    /\ UNCHANGED <<limitVars, seen, recorded, request, effects, fsyncs, restarts>>

\* main tries the one and falls back on the other.
BootGuard == Restore \/ Booting

\* Time passes while no request has held its clock reading for longer than Stall.
Pass ==
    /\ Tick
    /\ \A d \in Delivery : request[d].step \in {"charge", "claim"} => clock - request[d].now < Stall
    /\ UNCHANGED guardVars

AuthNext ==
    \/ \E d \in Delivery :
          \/ \E e \in Envelope : Verify(d, e)
          \/ Charge(d) \/ Claim(d) \/ RecordSignature(d) \/ RunHandler(d)
    \/ CleanupGuard
    \/ CleanupTable /\ UNCHANGED guardVars
    \/ Stop \/ BootGuard \/ Pass

AuthSpec == AuthInit /\ [][AuthNext]_authVars

----------------------------------------------------------------------------
(* Properties.                                                             *)

\* A signature maps to when it was claimed, in memory and on disk, never to a later
\* time; no request is in a hub that is down (auth.rs ReplayGuard).
AuthTypeOK ==
    /\ clock \in 0 .. MaxClock
    /\ DOMAIN seen \subseteq Envelope
    /\ DOMAIN recorded \subseteq Envelope
    /\ \A e \in DOMAIN seen : seen[e] \in 0 .. clock
    /\ \A e \in DOMAIN recorded : recorded[e] * TicksPerSecond \in 0 .. clock
    /\ accepting_from \in {Nil} \cup Nat
    /\ \A d \in Delivery : request[d].step \in {"absent", "charge", "claim", "record", "run"}
    /\ ~serving => seen = << >> /\ \A d \in Delivery : request[d] = Absent

\* No envelope takes effect twice: not delivered twice at once, not around a sweep,
\* not across a restart that read its log or one that could not, not after a disk
\* write that failed (auth.rs claim, forget_before, restore, booting).
TakesEffectOnce == \A e \in Envelope : effects[e] <= 1

\* A process makes at most twice the quota of durable writes for one key among
\* requests charged within a window: the charge comes before the write
\* (auth.rs verify_charging, constraint 2).
QuotaBoundsWrites ==
    \A i \in DOMAIN fsyncs :
        Cardinality(WithinWindow(fsyncs, i, LAMBDA a, b : a[1] = b[1])) <= 2 * KEY_LIMIT

\* What the limits let through: one network's requests, and one key's durable writes, stay
\* within twice the limit of a window (rate_limit.rs, auth.rs verify_charging).
LimitsHold == AuthTypeOK /\ NetworkBounded /\ QuotaBoundsWrites
=============================================================================
