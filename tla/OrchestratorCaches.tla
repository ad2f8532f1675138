------------------------- MODULE OrchestratorCaches -------------------------
(***************************************************************************)
(* The bounded maps of the orchestrator                                    *)
(* (src/src/core/corsa_orchestrator/src/orchestrator/api.rs): snapshots by *)
(* key, results by key with a time to live, and, in a fleet, the worker a  *)
(* project is pinned to.  Each is a map under one lock and the order in    *)
(* which its keys were last put in under another.  No step holds both:     *)
(* remember_*_key holds the order while it looks at the map and evicts     *)
(* from it, but fills and invalidations touch the map first and the order  *)
(* afterwards, so that they overtake each other in between.                *)
(*                                                                         *)
(* A step is one access to a shared map or deque.  Testing the size and    *)
(* popping the oldest key is one, since the deque is locked throughout.    *)
(***************************************************************************)
EXTENDS Integers, Sequences, FiniteSets, SequencesExt

CONSTANTS
    CacheKeys,     \* keys of entries
    CacheCallers,  \* threads that use the maps
    NoCaller,      \* nobody holds the order
    MaxKept        \* configured bound, already raised to at least 1

ASSUME CacheAssumption ==
    /\ IsFiniteSet(CacheKeys) /\ CacheKeys # {} /\ NoCaller \notin CacheCallers
    /\ MaxKept \in Nat \ {0}

VARIABLES
    kind,       \* which of the maps this is; never changes
    kept,       \* keys of the map
    expired,    \* results whose time to live has run out
    order,      \* the deque of keys, oldest first
    orderLock,  \* the caller that holds the lock of the deque
    doing,      \* control point of each caller
    about,      \* the key the step of each caller is about
    overtaken   \* history: keys put in while an invalidation that had already
                \* emptied the map had not yet come to the deque

cacheVars == <<kind, kept, expired, order, orderLock, doing, about, overtaken>>

Kinds == {"snapshots", "results", "affinity"}

CacheInit ==
    /\ kind \in Kinds
    /\ kept = {} /\ expired = {} /\ order = <<>>
    /\ orderLock = NoCaller
    /\ doing = [c \in CacheCallers |-> "idle"]
    /\ about \in [CacheCallers -> {CHOOSE k \in CacheKeys : TRUE}]
    /\ overtaken = {}

Turns(c, from, to, k) ==
    /\ doing[c] = from
    /\ doing' = [doing EXCEPT ![c] = to]
    /\ about' = [about EXCEPT ![c] = k]

\* retain(|known| known != k), of a deque that lists k once at most (ListedOnce).
Without(s, k) ==
    IF k \in ToSet(s) THEN RemoveAt(s, CHOOSE i \in DOMAIN s : s[i] = k) ELSE s

\* An invalidation of k, or of everything, is between the map and the deque.
Invalidating(k) == \E c \in CacheCallers :
    \/ doing[c] = "clearing"
    \/ doing[c] = "invalidating" /\ about[c] = k

-----------------------------------------------------------------------------
\* cached_snapshot, cached: the lookup misses and the entry is made.
Miss(c, k) ==
    /\ kind # "affinity" /\ k \notin kept \ expired
    /\ Turns(c, "idle", "filling", k)
    /\ UNCHANGED <<kind, kept, expired, order, orderLock, overtaken>>

FillFails(c) ==
    /\ Turns(c, "filling", "idle", about[c])
    /\ UNCHANGED <<kind, kept, expired, order, orderLock, overtaken>>

\* The entry replaces whatever is there.  lease_for_project tests and inserts
\* under one lock instead.
Insert(c, k) ==
    /\ IF kind = "affinity"
         THEN k \notin kept /\ Turns(c, "idle", "inserted", k)
         ELSE k = about[c] /\ Turns(c, "filling", "inserted", k)
    /\ kept' = kept \cup {k}
    /\ expired' = expired \ {k}
    /\ overtaken' = IF Invalidating(k) THEN overtaken \cup {k} ELSE overtaken
    /\ UNCHANGED <<kind, order, orderLock>>

\* remember_*_key: the key becomes the youngest of the deque.
Remember(c) ==
    /\ orderLock = NoCaller
    /\ Turns(c, "inserted", "trimming", about[c])
    /\ order' = Append(Without(order, about[c]), about[c])
    /\ orderLock' = c
    /\ overtaken' = IF Invalidating(about[c]) THEN overtaken ELSE overtaken \ {about[c]}
    /\ UNCHANGED <<kind, kept, expired>>

\* The loop of remember_*_key: too many entries, and a key to give up.
PopOldest(c) ==
    /\ Cardinality(kept) > MaxKept /\ order # <<>>
    /\ Turns(c, "trimming", "evicting", Head(order))
    /\ order' = Tail(order)
    /\ UNCHANGED <<kind, kept, expired, orderLock, overtaken>>

\* Mutant: the deadline outlives the entry.
EvictKeepsDeadline(c) ==
    /\ Turns(c, "evicting", "trimming", about[c])
    /\ kept' = kept \ {about[c]}
    /\ overtaken' = overtaken \ {about[c]}
    /\ UNCHANGED <<kind, expired, order, orderLock>>

Evict(c) ==
    /\ Turns(c, "evicting", "trimming", about[c])
    /\ kept' = kept \ {about[c]}
    /\ expired' = expired \ {about[c]}
    /\ overtaken' = overtaken \ {about[c]}
    /\ UNCHANGED <<kind, order, orderLock>>

\* Mutant: the loop pops a key before it looks at the size.
TrimEndsPopped(c) ==
    /\ Cardinality(kept) <= MaxKept \/ order = <<>>
    /\ Turns(c, "trimming", "idle", about[c])
    /\ order' = IF order = <<>> THEN order ELSE Tail(order)
    /\ orderLock' = NoCaller
    /\ UNCHANGED <<kind, kept, expired, overtaken>>

\* Mutant: one eviction per fill.
TrimEndsEarly(c) ==
    /\ Turns(c, "trimming", "idle", about[c])
    /\ orderLock' = NoCaller
    /\ UNCHANGED <<kind, kept, expired, order, overtaken>>

TrimEnds(c) ==
    /\ Cardinality(kept) <= MaxKept \/ order = <<>>
    /\ Turns(c, "trimming", "idle", about[c])
    /\ orderLock' = NoCaller
    /\ UNCHANGED <<kind, kept, expired, order, overtaken>>

\* invalidate_snapshot, invalidate_cached, release_project_affinity: the map ...
Invalidate(c, k) ==
    /\ Turns(c, "idle", "invalidating", k)
    /\ kept' = kept \ {k}
    /\ expired' = expired \ {k}
    /\ overtaken' = overtaken \ {k}
    /\ UNCHANGED <<kind, order, orderLock>>

\* ... and then the deque.
Unlist(c) ==
    /\ orderLock = NoCaller
    /\ Turns(c, "invalidating", "idle", about[c])
    /\ order' = Without(order, about[c])
    /\ UNCHANGED <<kind, kept, expired, orderLock, overtaken>>

\* shutdown_profile forgets every pin, in the same two steps.
Clear(c) ==
    /\ kind = "affinity"
    /\ Turns(c, "idle", "clearing", about[c])
    /\ kept' = {} /\ overtaken' = {} /\ UNCHANGED expired
    /\ UNCHANGED <<kind, order, orderLock>>

UnlistAll(c) ==
    /\ orderLock = NoCaller
    /\ Turns(c, "clearing", "idle", about[c])
    /\ order' = <<>>
    /\ UNCHANGED <<kind, kept, expired, orderLock, overtaken>>

\* The deadline of a result passes.
Expire(k) ==
    /\ kind = "results" /\ k \in kept \ expired
    /\ expired' = expired \cup {k}
    /\ UNCHANGED <<kind, kept, order, orderLock, doing, about, overtaken>>

-----------------------------------------------------------------------------
CacheContinues(c) ==
    \/ FillFails(c) \/ (\E k \in CacheKeys : doing[c] = "filling" /\ Insert(c, k))
    \/ Remember(c) \/ PopOldest(c) \/ Evict(c) \/ TrimEnds(c)
    \/ Unlist(c) \/ UnlistAll(c)

CacheNext ==
    \/ \E c \in CacheCallers, k \in CacheKeys :
           Miss(c, k) \/ Insert(c, k) \/ Invalidate(c, k)
    \/ \E c \in CacheCallers :
           \/ FillFails(c) \/ Remember(c) \/ PopOldest(c) \/ Evict(c)
           \/ TrimEnds(c) \/ Unlist(c) \/ Clear(c) \/ UnlistAll(c)
    \/ \E k \in CacheKeys : Expire(k)

CacheSpec == CacheInit /\ [][CacheNext]_cacheVars

\* Threads run, tasks that make entries end, and a lock that is given back
\* again and again is some day got by each that waits for it.
CacheFairness == \A c \in CacheCallers : SF_cacheVars(CacheContinues(c))

-----------------------------------------------------------------------------
CacheTypeOK ==
    /\ kind \in Kinds
    /\ kept \subseteq CacheKeys /\ expired \subseteq kept /\ overtaken \subseteq kept
    /\ expired # {} => kind = "results"
    /\ order \in Seq(CacheKeys)
    /\ orderLock \in CacheCallers \cup {NoCaller}
    /\ doing \in [CacheCallers -> {"idle", "filling", "inserted", "trimming",
                                   "evicting", "invalidating", "clearing"}]
    /\ about \in [CacheCallers -> CacheKeys]

(* Every entry can still be evicted: it is listed, or about to be listed or  *)
(* removed by the caller in charge of it -- unless a fill overtook an        *)
(* invalidation of its key between the map and the deque, which               *)
(* invalidate_* and remember_*_key do not exclude.                            *)
EntriesTracked ==
    kept \subseteq ToSet(order) \cup overtaken
              \cup {about[c] : c \in {d \in CacheCallers : doing[d] \in {"inserted", "evicting"}}}

\* The deque lists a key once, or the oldest place would evict a young entry.
ListedOnce == IsInjective(order)

(* Eviction can reach every entry, and by the place it was put in last.       *)
EveryEntryEvictable == EntriesTracked /\ ListedOnce

(* "Maximum number of cached snapshots retained at once" (api.rs:46), and     *)
(* likewise for results and pins: when no fill is under way a map is within   *)
(* its bound, although keys that lost their place in the deque count too.     *)
WithinBound ==
    (\A c \in CacheCallers : doing[c] \notin {"inserted", "trimming", "evicting"})
        => Cardinality(kept) <= MaxKept

(* Every call of a map returns: the loop that evicts ends although others    *)
(* put entries in meanwhile, and nobody keeps the order.                      *)
CacheCallsReturn == \A c \in CacheCallers : doing[c] # "idle" ~> doing[c] = "idle"
=============================================================================
