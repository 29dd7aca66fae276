------------------------------ MODULE TtlCache ------------------------------
(***************************************************************************)
(* InMemoryCache of cache.py: a dictionary of (time stamp, value) pairs    *)
(* with a time to live and a maximum number of entries.  Every method runs *)
(* under the instance's lock, so each one is a single step; they are given *)
(* here as operators on the dictionary for the modules that own a cache.   *)
(*                                                                         *)
(* A dictionary is a total function over the keys, a missing key having    *)
(* held = FALSE.  "late" is an observation, not part of the program: the   *)
(* value was already out of date when it was stored.                       *)
(***************************************************************************)
EXTENDS Integers, FiniteSets

CONSTANTS
    TTL,         \* MARKET_DATA_CACHE_TTL, in ticks of the clock
    MaxEntries   \* MARKET_DATA_CACHE_MAX_ENTRIES

ASSUME CacheAssumption == TTL \in Nat /\ MaxEntries \in Nat

Missing(noval) == [held |-> FALSE, val |-> noval, ts |-> 0, late |-> FALSE]

EmptyCache(K, noval) == [k \in K |-> Missing(noval)]

HeldKeys(store) == {k \in DOMAIN store : store[k].held}

\* Mutant: get() forgets to compare the age with the time to live.
IsFreshForever(entry, now) == entry.held

\* get() answers from the entry; an entry that is not fresh is deleted and
\* reported as a miss.
IsFresh(entry, now) == entry.held /\ now - entry.ts < TTL

\* delete(), delete_prefix() and clear(), and the deletion inside get().
WithoutKeys(store, K, noval) ==
    [k \in DOMAIN store |-> IF k \in K THEN Missing(noval) ELSE store[k]]

AfterGet(store, k, now, noval) ==
    IF store[k].held /\ ~IsFresh(store[k], now)
    THEN WithoutKeys(store, {k}, noval) ELSE store

\* The entries min() may pick over "store": the oldest stamps.  The key just
\* inserted is the last one in dictionary order, so it loses every tie.
Oldest(store, new) ==
    LET oldest == {k \in HeldKeys(store) :
                      \A j \in HeldKeys(store) : store[k].ts <= store[j].ts}
    IN  IF oldest = {new} THEN oldest ELSE oldest \ {new}

\* Mutant: set() stamps an entry with the wrong end of its life time.
AfterSetBackdated(store, k, val, now, late, noval) ==
    {[store EXCEPT ![k] = [held |-> TRUE, val |-> val, ts |-> now - TTL, late |-> late]]}

\* set(): insert with the current time, then evict one entry if there are now
\* more than MaxEntries.  The result is a set: ties are not resolved here.
AfterSet(store, k, val, now, late, noval) ==
    LET inserted == [store EXCEPT ![k] =
                        [held |-> TRUE, val |-> val, ts |-> now, late |-> late]]
    IN  IF Cardinality(HeldKeys(inserted)) > MaxEntries
        THEN {WithoutKeys(inserted, {old}, noval) : old \in Oldest(inserted, k)}
        ELSE {inserted}
=============================================================================
