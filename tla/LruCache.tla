------------------------------ MODULE LruCache ------------------------------
(***************************************************************************)
(* LruCache of packages/sdk/src/cache.ts: the snapshots of contract state   *)
(* that callers share, filled by `wrap`, whose producers are awaited while  *)
(* others read, fill, delete and clear.                                     *)
(*                                                                         *)
(* A value is what the contract's state was when its producer was called.   *)
(* Two misses on one key call two producers, and a producer that answers    *)
(* after delete or clear puts its value back: both are part of the model.   *)
(* `entries` is the Map: it is read in the order of its insertions, so each *)
(* entry carries the number of its own.                                     *)
(***************************************************************************)
EXTENDS Naturals, FiniteSets, Sequences, SequencesExt

CONSTANTS
    Keys,           \* contractStateKey
    MaxEntries,     \* LruCacheOptions.maxEntries
    Ttls,           \* ttlMs: of the cache, and those given to wrap; not zero
    NoEntry,        \* nothing served yet
    MaxLoad,        \* how long a producer takes at most
    MaxLoads,       \* bound: producers awaited at once
    MaxUses,        \* bound: insertions into the Map
    MaxClock        \* bound: the clock

ASSUME CacheAssumption ==
    /\ IsFiniteSet(Keys)
    /\ MaxEntries \in Nat \ {0} /\ Ttls \subseteq Nat \ {0}
    /\ MaxLoad \in Nat /\ MaxLoads \in Nat /\ MaxUses \in Nat /\ MaxClock \in Nat

VARIABLES
    entries,        \* the Map, from the keys that are cached
    loads,          \* the producers that are awaited
    served,         \* the age of the value served last, and its lifetime
    clock,          \* options.now()
    uses,           \* the number of the last insertion
    lastUse,        \* history: when each key was used last, 0 if never
    dropped         \* history: the keys that expired or were deleted since their last use

cacheVars == <<entries, loads, served, clock, uses, lastUse, dropped>>

Cached == DOMAIN entries
With(key, e) == [k \in Cached \cup {key} |-> IF k = key THEN e ELSE entries[k]]
Without(keys) == Restrict(entries, Cached \ keys)
Served(e) == [age |-> clock - e.readAt, ttl |-> e.ttl]

Used(key) ==
    /\ uses < MaxUses
    /\ uses' = uses + 1
    /\ lastUse' = [lastUse EXCEPT ![key] = uses + 1]

\* Mutant: an entry lives on through the instant at which it expires.
Expired_Later(e) == e.expiresAt < clock

\* The lifetime begins when the value arrives.
Expired(e) == e.expiresAt <= clock

\* Mutant: an entry keeps its place when it is read.
Refreshed_InPlace(e) == e

\* get: the entry is deleted and inserted again.
Refreshed(e) == [e EXCEPT !.place = uses + 1]

Living(map) == {key \in DOMAIN map : ~ Expired(map[key])}
Later(map, key) == {other \in Living(map) : map[other].place > map[key].place}

\* Mutant: evict stops when the size is one above the maximum.
Kept_OneMore(map) ==
    Restrict(map, {key \in Living(map) : Cardinality(Later(map, key)) <= MaxEntries})

\* evict: the expired ones go, then the first until the size fits.
Kept(map) ==
    Restrict(map, {key \in Living(map) : Cardinality(Later(map, key)) < MaxEntries})

\* wrap, or get, of a key that is cached.
Hit(key) ==
    /\ key \in Cached /\ ~ Expired(entries[key])
    /\ served' = Served(entries[key])
    /\ entries' = With(key, Refreshed(entries[key]))
    /\ Used(key)
    /\ UNCHANGED <<loads, clock, dropped>>

\* wrap of a key that is not, or no longer: the producer is called.
Miss(key, ttl) ==
    /\ key \in Cached => Expired(entries[key])
    /\ Len(loads) < MaxLoads
    /\ entries' = Without({key})
    /\ dropped' = dropped \cup ({key} \cap Cached)
    /\ loads' = Append(loads, [key |-> key, readAt |-> clock, ttl |-> ttl])
    /\ UNCHANGED <<served, clock, uses, lastUse>>

\* A producer answers: the value is set, over whatever is there.
Loaded(i) ==
    LET load == loads[i]
        entry == [place |-> uses + 1, readAt |-> load.readAt, ttl |-> load.ttl,
                  expiresAt |-> clock + load.ttl]
        set == With(load.key, entry)
    IN /\ served' = Served(entry)
       /\ entries' = Kept(set)
       /\ Used(load.key)
       /\ dropped' = (dropped \ {load.key}) \cup {k \in DOMAIN set : Expired(set[k])}
       /\ loads' = RemoveAt(loads, i)
       /\ UNCHANGED clock

\* A producer rejects.
LoadFails(i) ==
    /\ loads' = RemoveAt(loads, i)
    /\ UNCHANGED <<entries, served, clock, uses, lastUse, dropped>>

\* delete, or clear.
Delete(keys) ==
    /\ entries' = Without(keys)
    /\ dropped' = dropped \cup (keys \cap Cached)
    /\ UNCHANGED <<loads, served, clock, uses, lastUse>>

\* No producer takes longer than MaxLoad.
ClockTicks ==
    /\ clock < MaxClock
    /\ \A i \in DOMAIN loads : clock < loads[i].readAt + MaxLoad
    /\ clock' = clock + 1
    /\ UNCHANGED <<entries, loads, served, uses, lastUse, dropped>>

CacheInit ==
    /\ entries = <<>> /\ loads = <<>> /\ served = NoEntry
    /\ clock = 0 /\ uses = 0 /\ lastUse = [key \in Keys |-> 0] /\ dropped = {}

CacheNext ==
    \/ \E key \in Keys : Hit(key) \/ \E ttl \in Ttls : Miss(key, ttl)
    \/ \E i \in DOMAIN loads : Loaded(i) \/ LoadFails(i)
    \/ \E keys \in {{key} : key \in Keys} \cup {Keys} : Delete(keys)
    \/ ClockTicks

CacheSpec == CacheInit /\ [][CacheNext]_cacheVars

----------------------------------------------------------------------------
(* Properties.                                                              *)

\* There are no more entries than fit, and no more producers than are awaited.
CacheTypeOK ==
    /\ Cached \subseteq Keys /\ Cardinality(Cached) <= MaxEntries
    /\ \A key \in Cached : entries[key].place \in 1 .. uses /\ entries[key].ttl \in Ttls
    /\ lastUse \in [Keys -> 0 .. uses] /\ dropped \subseteq Keys
    /\ Len(loads) <= MaxLoads /\ uses \in 0 .. MaxUses /\ clock \in 0 .. MaxClock

\* What is served was the contract's state less than its lifetime and the time a producer
\* takes ago, although the slowest answer replaces the latest, a deleted value may come back
\* and a read moves its entry to the end of the Map.
ServedIsRecent ==
    served # NoEntry => served.age < served.ttl + MaxLoad

\* A key that is among the MaxEntries used last, and has not expired or been deleted since,
\* is still cached: evict takes the least recently used.
RecentlyUsedIsKept ==
    \A key \in Keys \ dropped :
        /\ lastUse[key] > 0
        /\ Cardinality({other \in Keys : lastUse[other] > lastUse[key]}) < MaxEntries
        => key \in Cached
=============================================================================
