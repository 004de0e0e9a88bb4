------------------------------ MODULE TimeSync ------------------------------
(***************************************************************************)
(* Network-adjusted time: the clock samples taken by the handshake         *)
(* (lib/src/network.rs), their median (node/src/time_sync.rs) and the      *)
(* offset applied to the chain's timestamp checks.                         *)
(*                                                                         *)
(* A sample is stored and the median taken first, and the offset is        *)
(* applied after waiting for the chain's write lock: two handshakes can    *)
(* apply their offsets in either order.                                    *)
(***************************************************************************)
EXTENDS Integers, FiniteSets, SequencesExt

CONSTANTS
  TimePeer, Liars,         \* peer addresses; those whose reported time is arbitrary
  Skews,                 \* seconds by which an honest peer's clock differs
  Delays,                \* seconds a handshake message may take
  Claims,                \* samples a liar can cause
  MAX_SAMPLES, MIN_SAMPLES_TO_ADJUST, MAX_TIME_ADJUSTMENT_MINUTES,
  NoSample

ASSUME TimeSyncAssumption ==
  /\ Liars \subseteq TimePeer
  /\ Skews \subseteq Int /\ Delays \subseteq Nat /\ Claims \subseteq Int
  /\ MIN_SAMPLES_TO_ADJUST \in Nat \ {0} /\ MAX_SAMPLES >= MIN_SAMPLES_TO_ADJUST
  /\ NoSample \notin Int

VARIABLES
  SAMPLES,      \* address -> offset sample
  applying,     \* address -> the offset its record_sample is about to apply
  time_offset   \* Blockchain::time_offset

timeVars == <<SAMPLES, applying, time_offset>>

TimeSyncInit ==
  /\ SAMPLES = [p \in TimePeer |-> NoSample]
  /\ applying = [p \in TimePeer |-> NoSample]
  /\ time_offset = 0

\* perform_handshake_initiator reads its clock before it waits for the reply:
\* the reply's delay is added to what the peer's clock really differs by.
InitiatorSamples == {s + d : s \in Skews, d \in Delays}

\* perform_handshake_acceptor reads its clock once the Hello has arrived.
AcceptorSamples == {s - d : s \in Skews, d \in Delays}

HonestSamples == InitiatorSamples \union AcceptorSamples

Sampled(s) == {p \in TimePeer : s[p] # NoSample}

\* chrono truncates towards zero.
num_minutes(secs) == IF secs < 0 THEN -((-secs) \div 60) ELSE secs \div 60

Magnitude(x) == IF x < 0 THEN -x ELSE x

\* Faulty variant: one sample is enough.
AnyMedian(s) ==
  LET sorted == SetToSortSeq(Sampled(s), LAMBDA p, q : s[p] < s[q])
  IN IF Sampled(s) = {} THEN NoSample ELSE s[sorted[(Len(sorted) \div 2) + 1]]

\* median_of_seconds: the upper middle of the sorted samples, once enough.
median_offset(s) ==
  LET sorted == SetToSortSeq(Sampled(s), LAMBDA p, q : s[p] < s[q])
  IN IF Len(sorted) < MIN_SAMPLES_TO_ADJUST
     THEN NoSample
     ELSE s[sorted[(Len(sorted) \div 2) + 1]]

\* Compared in whole minutes, so the bound admits up to 59 seconds more.
Trusted(m) ==
  IF m = NoSample \/ Magnitude(num_minutes(m)) > MAX_TIME_ADJUSTMENT_MINUTES THEN 0 ELSE m

\* At capacity a new address's sample is not kept, and nothing is recomputed.
HasRoom(p) == Cardinality(Sampled(SAMPLES)) < MAX_SAMPLES \/ SAMPLES[p] # NoSample

\* record_sample up to its wait for the write lock.
record_sample(p, offset) ==
  /\ applying[p] = NoSample
  /\ IF HasRoom(p)
     THEN \E s \in {[SAMPLES EXCEPT ![p] = offset]} :
            /\ SAMPLES' = s
            /\ applying' = [applying EXCEPT ![p] = Trusted(median_offset(s))]
     ELSE UNCHANGED <<SAMPLES, applying>>
  /\ UNCHANGED time_offset

\* blockchain.set_time_offset(applied)
set_time_offset(p) ==
  /\ applying[p] # NoSample
  /\ time_offset' = applying[p]
  /\ applying' = [applying EXCEPT ![p] = NoSample]
  /\ UNCHANGED SAMPLES

TimeSyncNext ==
  \E p \in TimePeer :
    \/ \E o \in IF p \in Liars THEN Claims ELSE HonestSamples : record_sample(p, o)
    \/ set_time_offset(p)

-----------------------------------------------------------------------------
(* As long as fewer than half of MIN_SAMPLES_TO_ADJUST addresses lie, the  *)
(* applied offset is one an honest peer could have caused, however often   *)
(* anyone reconnects and in whatever order the handshakes apply theirs.    *)
MinorityCannotMove ==
  2 * Cardinality(Liars) < MIN_SAMPLES_TO_ADJUST =>
    \E lo, hi \in HonestSamples \union {0} : time_offset \in lo .. hi

(* No set of peers moves the clock by a minute more than the bound         *)
(* time_sync.rs sets itself, even with every sample a lie.                 *)
OffsetBounded == Magnitude(time_offset) < 60 * (MAX_TIME_ADJUSTMENT_MINUTES + 1)

\* The network clock is one an honest peer could have caused, and within its bound.
ClockSound == MinorityCannotMove /\ OffsetBounded
=============================================================================
