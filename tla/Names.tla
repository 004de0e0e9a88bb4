-------------------------------- MODULE Names --------------------------------
(***************************************************************************)
(* Agent display names (hub/src/names.rs, main.rs ensure_named): a name is *)
(* drawn under the registry's lock, answered at once, and written to the   *)
(* store afterwards, so a crash or a failed write loses a name that was    *)
(* already shown.                                                          *)
(***************************************************************************)
EXTENDS Naturals, FiniteSets, Tables

CONSTANTS
    Agent,         \* the keys that can be named
    Candidate,     \* the names the current wordlist renders
    Retired,       \* names of an earlier wordlist, still in the store
    Earning,       \* the agents the board holds a reputation for
    MaxReboots     \* bound: restarts

VARIABLES
    by_pubkey,     \* NameRegistry.by_pubkey
    taken_names,   \* NameRegistry.taken
    agent_names,   \* the durable name table
    fresh,         \* batches of new names not yet written
    reboots        \* restarts so far

nameVars == <<by_pubkey, taken_names, agent_names, fresh, reboots>>

----------------------------------------------------------------------------
OneToOne(f) == \A a, b \in DOMAIN f : f[a] = f[b] => a = b

\* assign draws for a key without a name and returns the old name of any other.
Unnamed(keys, named) == keys \ named

\* The names a batch may be given: drawn one after another, each unused, until the
\* pool runs out; then the remaining keys stay unnamed.
Draws(keys, named, used) ==
    LET free   == Candidate \ used
        asking == Unnamed(keys, named)
    IN  UNION {{f \in [lucky -> free] : OneToOne(f)} :
               lucky \in {l \in SUBSET asking :
                             Cardinality(l) = IF Cardinality(asking) <= Cardinality(free)
                                              THEN Cardinality(asking) ELSE Cardinality(free)}}

Values(f) == {f[k] : k \in DOMAIN f}

\* A store from an earlier release may hold names no longer in the wordlist.
NamesInit ==
    /\ \E old \in {<< >>} \cup {f \in [Earning -> Retired] : OneToOne(f)} :
           /\ by_pubkey = old
           /\ taken_names = Values(old)
           /\ agent_names = old
    /\ fresh = {}
    /\ reboots = 0

ensure_named(keys) ==
    \E new \in Draws(keys, DOMAIN by_pubkey, taken_names) :
        /\ by_pubkey' = Extend(by_pubkey, new)
        /\ taken_names' = taken_names \cup Values(new)
        /\ fresh' = IF new = << >> THEN fresh ELSE fresh \cup {new}
        /\ UNCHANGED <<agent_names, reboots>>

\* save_agent_name_batch, outside the lock; a failed write is only logged.
SaveNames(batch) ==
    /\ fresh' = fresh \ {batch}
    /\ agent_names' \in {agent_names, Extend(agent_names, batch)}
    /\ UNCHANGED <<by_pubkey, taken_names, reboots>>

\* Faulty variant: restored names are not marked taken.
NotMarked(table) == {}

\* restore marks every stored name taken, whatever wordlist it came from.
Marked(table) == Values(table)

\* Boot: the stored names, then names for every earning agent that has none, written
\* before the hub serves.
RebootNames ==
    /\ reboots < MaxReboots
    /\ reboots' = reboots + 1
    /\ \E new \in Draws(Earning, DOMAIN agent_names, Marked(agent_names)) :
           /\ by_pubkey' = Extend(agent_names, new)
           /\ agent_names' = Extend(agent_names, new)
           /\ taken_names' = Marked(agent_names) \cup Values(new)
    /\ fresh' = {}

\* What anybody may ask the hub; a read never draws a name.
lookup_names(keys) == [k \in keys \cap DOMAIN by_pubkey |-> by_pubkey[k]]

NamesNext ==
    \/ \E keys \in SUBSET Agent : ensure_named(keys)
    \/ \E batch \in fresh : SaveNames(batch)
    \/ RebootNames

NamesSpec == NamesInit /\ [][NamesNext]_nameVars

----------------------------------------------------------------------------
(* Properties.                                                             *)

\* Two agents never answer to one name, nor are stored under one, whichever writes were
\* lost and however often the hub restarts (names.rs draw, restore).
NamesDistinct ==
    /\ OneToOne(lookup_names(Agent))
    /\ OneToOne(agent_names)

\* A stored name is for good: no later request, write or restart renames its agent
\* (names.rs assign, "for the lifetime of the store").
NameSticks ==
    [][\A a \in DOMAIN agent_names : a \in DOMAIN agent_names' /\ agent_names'[a] = agent_names[a]]_nameVars
=============================================================================
