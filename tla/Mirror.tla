-------------------------------- MODULE Mirror --------------------------------
(***************************************************************************)
(* The cache of states a client keeps warm (src/mirror/cache.ts) in front of *)
(* the store of Storage.  Values are fetched in advance, or again before they *)
(* expire; a fetch notes the height of the chain, awaits the store key by key *)
(* and puts what it read in the cache, other calls and blocks in between.   *)
(***************************************************************************)
EXTENDS Storage

CONSTANTS
    Wanted,                 \* what may be fetched in advance: sequences of keys
    Fetches,                \* fetches that may be in flight together
    MaxEntries, Ttl, RefreshBelow, MaxConcurrentFetches,    \* of MirrorConfig
    MaxIssued               \* bound: fetches that are started

ASSUME MirrorAssumption ==
    /\ Wanted \subseteq Seq(Keys) /\ IsFiniteSet(Fetches)
    /\ MaxEntries \in Nat \ {0} /\ MaxConcurrentFetches \in Nat \ {0}
    /\ {Ttl, RefreshBelow, MaxIssued} \subseteq Nat

VARIABLES
    cache,      \* WarmMirrorCache
    fetch,      \* the fetches in flight
    issued

mirror == <<cache, fetch, issued>>

NoCache == [entries |-> [k \in {} |-> 0],
            lru |-> <<>>,       \* the nodes from lruHead to lruTail, each by its key
            mapped |-> {},      \* lruMap; the node of a key is its first one in lru
            pending |-> <<>>,   \* pendingRefreshes
            active |-> 0,       \* activeFetches
            hung |-> FALSE,     \* the loop in set does not end
            again |-> FALSE]    \* history: a key was set while it was cached
NoFetch == [kind |-> "none", keys |-> <<>>, height |-> 0, left |-> <<>>, got |-> <<>>]

MirrorInit == StorageInit /\ cache = NoCache /\ fetch = [f \in Fetches |-> NoFetch] /\ issued = 0

-----------------------------------------------------------------------------
(* The list of recently used keys.                                         *)

RemoveLRU(c, k) ==
    IF k \notin c.mapped THEN c ELSE [c EXCEPT !.lru = RemoveFirst(@, k), !.mapped = @ \ {k}]
AddLRU(c, k) == [c EXCEPT !.lru = <<k>> \o @, !.mapped = @ \cup {k}]
TouchLRU(c, k) == AddLRU(RemoveLRU(c, k), k)

Without(c, k) == [c EXCEPT !.entries = [j \in DOMAIN @ \ {k} |-> @[j]]]
\* (bug) the list is not told
ForgetBug(c, k) == Without(c, k)
\* A key leaves the cache: expired, invalidated or evicted.
Forget(c, k) == RemoveLRU(Without(c, k), k)

EvictOne(c) == IF c.lru = <<>> THEN c ELSE Forget(c, Last(c.lru))

Full(c) == Cardinality(DOMAIN c.entries) >= MaxEntries

\* set.  A full cache is full by one entry; a node at the tail that is not the one
\* of its key in lruMap is removed by nothing, and the loop runs for ever.
Set(c, k, v, h) ==
    LET room == IF Full(c) THEN EvictOne(c) ELSE c IN
    IF c.hung \/ Full(room) THEN [c EXCEPT !.hung = TRUE]
    ELSE AddLRU([room EXCEPT !.entries = [j \in DOMAIN @ \cup {k} |->
                                            IF j = k THEN [value |-> v, height |-> h, age |-> 0] ELSE @[j]],
                             !.again = @ \/ k \in DOMAIN room.entries], k)

-----------------------------------------------------------------------------
(* Reads.                                                                  *)

Hit(c, k) == k \in DOMAIN c.entries /\ c.entries[k].age <= Ttl
ScheduleRefresh(c, k) ==
    IF k \in ToSet(c.pending) \/ c.active >= MaxConcurrentFetches THEN c
    ELSE [c EXCEPT !.pending = Append(@, k)]
GetState(c, k) ==
    IF Hit(c, k)
    THEN LET touched == TouchLRU(c, k)
         IN  IF Ttl - c.entries[k].age < RefreshBelow THEN ScheduleRefresh(touched, k) ELSE touched
    ELSE Forget(c, k)

-----------------------------------------------------------------------------
(* The calls.  A hung loop stops the process.                              *)

Runs == reader = "cache" /\ ~ cache.hung

Lookup(k) ==
    /\ Runs /\ k \in DOMAIN cache.entries
    /\ cache' = GetState(cache, k)
    /\ UNCHANGED <<fetch, issued>>

Issue(f, kind, keys) ==
    /\ fetch[f] = NoFetch /\ issued < MaxIssued /\ keys # <<>>
    /\ fetch' = [fetch EXCEPT ![f] = [kind |-> kind, keys |-> keys, height |-> height, left |-> keys, got |-> <<>>]]
    /\ issued' = issued + 1

\* prefetch, up to its await; without a miss it is a lookup of each key.
Prefetch(f, keys) ==
    /\ Runs
    /\ Issue(f, "prefetch", Filtered(keys, {k \in ToSet(keys) : ~ Hit(cache, k)}))
    /\ cache' = FoldLeft(GetState, cache, keys)

\* checkRefreshes, up to its await.
CheckRefreshes(f) ==
    /\ Runs
    /\ LET n == MaxConcurrentFetches - cache.active
           due == SubSeq(cache.pending, 1, IF n < Len(cache.pending) THEN n ELSE Len(cache.pending))
       IN  /\ Issue(f, "refresh", due)
           /\ cache' = [cache EXCEPT !.pending = SubSeq(@, Len(due) + 1, Len(@)), !.active = @ + Len(due)]

\* The provider's multiGet reads a key at each await.
FetchRead(f) ==
    /\ Runs /\ fetch[f].left # <<>>
    /\ fetch' = [fetch EXCEPT ![f].left = Tail(@), ![f].got = Append(@, Get(data, Head(fetch[f].left)))]
    /\ UNCHANGED <<cache, issued>>

\* (bug) what a refresh counted stays counted
ReleasedBug(c, f) == c
\* The finally of checkRefreshes.
Released(c, f) == IF fetch[f].kind = "refresh" THEN [c EXCEPT !.active = @ - Len(fetch[f].keys)] ELSE c

\* (bug) the height is looked up when the values are there
HeightOfBug(f) == height
HeightOf(f) == fetch[f].height

\* What was found of the n-th key is put in the cache.
Found(c, f, n) ==
    IF fetch[f].got[n] = {} THEN c
    ELSE Set(c, fetch[f].keys[n], CHOOSE v \in fetch[f].got[n] : TRUE, HeightOf(f))

FoundAll(c, f) == FoldLeft(LAMBDA d, n : Found(d, f, n), c, [n \in DOMAIN fetch[f].keys |-> n])

FetchReturns(f) ==
    /\ Runs /\ fetch[f] # NoFetch /\ fetch[f].left = <<>>
    /\ cache' = Released(FoundAll(cache, f), f)
    /\ fetch' = [fetch EXCEPT ![f] = NoFetch]
    /\ UNCHANGED issued

\* The provider fails, or the budget of a prefetch is over: a late answer is
\* dropped by Promise.race.
FetchFails(f) ==
    /\ Runs /\ fetch[f] # NoFetch
    /\ cache' = Released(cache, f)
    /\ fetch' = [fetch EXCEPT ![f] = NoFetch]
    /\ UNCHANGED issued

Invalidate(k) ==
    /\ Runs /\ k \in DOMAIN cache.entries
    /\ cache' = Forget(cache, k)
    /\ UNCHANGED <<fetch, issued>>

\* invalidateBeforeHeight, called with the height of the chain.
InvalidateBeforeHeight ==
    /\ Runs
    /\ LET old == {k \in DOMAIN cache.entries : cache.entries[k].height < height}
       IN  old # {} /\ cache' = FoldLeft(Forget, cache, SetToSeq(old))
    /\ UNCHANGED <<fetch, issued>>

Clear ==
    /\ Runs /\ cache.entries # NoCache.entries
    /\ cache' = [NoCache EXCEPT !.active = cache.active]
    /\ UNCHANGED <<fetch, issued>>

Older(e) == [e EXCEPT !.age = @ + 1]
\* Time passes; an expired entry grows no older.
Age ==
    /\ Runs /\ \E k \in DOMAIN cache.entries : cache.entries[k].age <= Ttl
    /\ cache' = [cache EXCEPT !.entries = [k \in DOMAIN @ |->
                    IF @[k].age <= Ttl THEN Older(@[k]) ELSE @[k]]]
    /\ UNCHANGED <<fetch, issued>>

Calls ==
    \/ \E k \in Keys : Lookup(k) \/ Invalidate(k)
    \/ InvalidateBeforeHeight \/ Clear \/ Age
    \/ \E f \in Fetches :
          \/ \E keys \in Wanted : Prefetch(f, keys)
          \/ CheckRefreshes(f) \/ FetchRead(f) \/ FetchReturns(f) \/ FetchFails(f)

MirrorNext == (StorageNext /\ UNCHANGED mirror) \/ (Calls /\ UNCHANGED <<store, reader, copy>>)
MirrorSpec == MirrorInit /\ [][MirrorNext]_<<store, reader, copy, mirror>>

-----------------------------------------------------------------------------
(* Properties.                                                             *)

\* The cache holds at most what it may, lruMap knows what it holds, and the refreshes
\* in flight are as many as are counted.
InFlight == [f \in Fetches |-> IF fetch[f].kind = "refresh" THEN Len(fetch[f].keys) ELSE 0]
CountsHold ==
    /\ Cardinality(DOMAIN cache.entries) <= MaxEntries
    /\ cache.mapped = DOMAIN cache.entries
    /\ cache.active = SumFunctionOnSet(InFlight, Fetches)
    /\ cache.active <= MaxConcurrentFetches

\* The list names what the cache holds, each key once, unless a key was set while it
\* was cached: only then can set run for ever.
ListHolds ==
    /\ cache.mapped \subseteq ToSet(cache.lru)
    /\ ~ cache.again => ~ cache.hung /\ IsInjective(cache.lru) /\ ToSet(cache.lru) = cache.mapped

\* A cached value is no older than the height it is labelled with: no block up to
\* that height wrote the key after the block the value is from.
ValuesMatchHeights ==
    \A k \in DOMAIN cache.entries : LET e == cache.entries[k] IN
        \A h \in written[k] : h <= e.height => h <= e.value

\* Whatever fetches overlap, fail or answer late while blocks are written and states
\* are invalidated, the cache keeps its limits, its list and its heights (set, prefetch,
\* checkRefreshes).
CacheIsSound == CountsHold /\ ListHolds /\ ValuesMatchHeights
=============================================================================
