-------------------------- MODULE OrchestratorProofs -------------------------
(***************************************************************************)
(* Proofs about OrchestratorCaches and BatchExecutor, for any keys,        *)
(* callers, workers, inputs and bounds, and about the three parts of the   *)
(* orchestrator together; those about its fleets are WorkerFleetsProofs.   *)
(*                                                                         *)
(* The bound of the caches is the subtle one: the loop that evicts may run *)
(* out of listed keys while the map is still too large, because            *)
(* invalidations drop the listing of entries that fills have put in        *)
(* meanwhile.  The argument counts such entries: while the deque is free   *)
(* all entries but those of unfinished fills fit the bound, so that at     *)
(* most MaxKept entries can ever lose their listing, and these are what    *)
(* the loop leaves behind.                                                 *)
(*                                                                         *)
(* In a batch an input moves from the channel to one worker and on to the  *)
(* results.  That the mutex of the receiver admits one worker at a time is *)
(* not needed: what makes the moves sound is that recv pops what it        *)
(* returns.  A worker leaves only when the channel is closed and empty, so *)
(* that when all have left every input is among the results, once; sorting *)
(* them then can only give the inputs in their order.                      *)
(***************************************************************************)
EXTENDS MCOrchestrator, WorkerFleetsProofs, FiniteSetTheorems, FunctionTheorems

-----------------------------------------------------------------------------
(* Sequences *)

\* A sequence that grows by an element it does not have stays without
\* repetitions.
LEMMA Appended ==
    ASSUME NEW S, NEW s \in Seq(S), NEW e \in S
    PROVE  /\ Append(s, e) \in Seq(S) /\ ToSet(Append(s, e)) = ToSet(s) \cup {e}
           /\ IsInjective(s) /\ e \notin ToSet(s) => IsInjective(Append(s, e))
<1> DEFINE t == Append(s, e)
<1>1. /\ t \in Seq(S) /\ Len(t) = Len(s) + 1 /\ Len(s) \in Nat
      /\ \A i \in 1..Len(s) : t[i] = s[i]
      /\ t[Len(s) + 1] = e
  BY AppendProperties
<1> HIDE DEF t
<1>2. /\ \A x : x \in ToSet(t) <=> \E i \in 1..Len(t) : t[i] = x
      /\ \A x : x \in ToSet(s) <=> \E i \in 1..Len(s) : s[i] = x
  BY <1>1 DEF ToSet
<1>3. \A i : i \in 1..Len(t) <=> i \in 1..Len(s) \/ i = Len(s) + 1
  BY <1>1
<1>4. \A x : x \in ToSet(t) <=> x \in ToSet(s) \/ x = e
  BY <1>1, <1>2, <1>3
<1>5. ASSUME IsInjective(s), e \notin ToSet(s) PROVE IsInjective(t)
  <2>1. \A i, j \in 1..Len(s) : s[i] = s[j] => i = j
    BY <1>5 DEF IsInjective
  <2>2. \A i \in 1..Len(s) : s[i] # e
    BY <1>5, <1>2
  <2>3. \A i, j \in 1..Len(t) : t[i] = t[j] => i = j
    BY <2>1, <2>2, <1>1, <1>3
  <2> QED BY <2>3, <1>1 DEF IsInjective
<1> QED BY <1>1, <1>4, <1>5 DEF t


USE DEF CacheTypeOK

-----------------------------------------------------------------------------
(* The caches: the invariant *)

\* Entries whose fill has not come to the deque yet.
Filled == {about[c] : c \in {d \in CacheCallers : doing[d] = "inserted"}}

\* The entry that the holder of the deque is about to evict.
Evicted == {about[c] : c \in {d \in CacheCallers : doing[d] = "evicting"}}

\* The order is held exactly by the caller that trims.
OrderHeld == \A c \in CacheCallers :
    orderLock = c <=> doing[c] \in {"trimming", "evicting"}

\* Entries that no eviction will find.
Unlisted == kept \ (ToSet(order) \cup Filled \cup Evicted)

UnlistedFit == Cardinality(Unlisted) <= MaxKept

FreeFit == orderLock = NoCaller => Cardinality(kept \ Filled) <= MaxKept

BoundInv == CacheTypeOK /\ OrderHeld /\ UnlistedFit /\ FreeFit

-----------------------------------------------------------------------------
(* The deque of the order *)

(* RemoveAt leaves the elements before a place, and those behind it one place *)
(* earlier.                                                                    *)
LEMMA RemovedAt ==
    ASSUME NEW S, NEW s \in Seq(S), NEW j \in 1..Len(s)
    PROVE  /\ RemoveAt(s, j) \in Seq(S)
           /\ Len(RemoveAt(s, j)) = Len(s) - 1
           /\ \A i \in 1..(Len(s) - 1) :
                 RemoveAt(s, j)[i] = IF i < j THEN s[i] ELSE s[i + 1]
<1> DEFINE front == SubSeq(s, 1, j - 1)
           back  == SubSeq(s, j + 1, Len(s))
<1>1. front \in Seq(S) /\ Len(front) = j - 1 /\ \A i \in 1..(j - 1) : front[i] = s[i]
  BY SubSeqProperties
<1>2. /\ back \in Seq(S) /\ Len(back) = Len(s) - j
      /\ \A i \in 1..(Len(s) - j) : back[i] = s[j + i]
  BY SubSeqProperties
<1> HIDE DEF front, back
<1>3. RemoveAt(s, j) = front \o back
  BY DEF RemoveAt, front, back
<1>4. front \o back \in Seq(S) /\ Len(front \o back) = Len(s) - 1
  BY <1>1, <1>2
<1>5. ASSUME NEW i \in 1..(Len(s) - 1)
      PROVE  (front \o back)[i] = IF i < j THEN s[i] ELSE s[i + 1]
  <2>0. i \in Int /\ j \in Int
    OBVIOUS
  <2>1. (front \o back)[i] = IF i <= Len(front) THEN front[i] ELSE back[i - Len(front)]
    BY <1>1, <1>2, <1>4, ConcatProperties
  <2>2. CASE i < j
    BY <1>1, <2>1, <2>2
  <2>3. CASE i >= j
    BY <1>1, <1>2, <2>1, <2>3
  <2>4. i < j \/ i >= j
    BY <2>0
  <2> QED BY <2>2, <2>3, <2>4, Zenon
<1> QED BY <1>3, <1>4, <1>5

(* Without keeps the other elements and adds none; of a sequence without      *)
(* repetitions it leaves one without repetitions and without the element.     *)
LEMMA WithoutKey ==
    ASSUME NEW s \in Seq(CacheKeys), NEW k
    PROVE  /\ Without(s, k) \in Seq(CacheKeys)
           /\ ToSet(s) \ {k} \subseteq ToSet(Without(s, k))
           /\ IsInjective(s) => IsInjective(Without(s, k)) /\ k \notin ToSet(Without(s, k))
<1>1. CASE k \notin ToSet(s)
  BY <1>1 DEF Without
<1>2. CASE k \in ToSet(s)
  <2> DEFINE j == CHOOSE i \in DOMAIN s : s[i] = k
             t == RemoveAt(s, j)
  <2>1. j \in 1..Len(s) /\ s[j] = k
    BY <1>2 DEF ToSet
  <2>2. Without(s, k) = t
    BY <1>2 DEF Without
  <2>3. /\ t \in Seq(CacheKeys) /\ Len(t) = Len(s) - 1
        /\ \A i \in 1..(Len(s) - 1) : t[i] = IF i < j THEN s[i] ELSE s[i + 1]
    BY <2>1, RemovedAt
  <2> HIDE DEF t, j
  <2>4. \A e \in ToSet(s) : e # k => e \in ToSet(t)
    <3> SUFFICES ASSUME NEW i \in 1..Len(s), s[i] # k PROVE s[i] \in ToSet(t)
      BY DEF ToSet
    <3>1. CASE i < j
      BY <3>1, <2>1, <2>3 DEF ToSet
    <3>2. CASE i > j
      <4>1. i - 1 \in 1..Len(t) /\ t[i - 1] = s[i]
        BY <3>2, <2>1, <2>3
      <4> QED BY <4>1, <2>3 DEF ToSet
    <3> QED BY <3>1, <3>2, <2>1
  <2>5. ASSUME IsInjective(s) PROVE IsInjective(t) /\ k \notin ToSet(t)
    <3>1. \A a, b \in 1..Len(s) : s[a] = s[b] => a = b
      BY <2>5 DEF IsInjective
    <3> QED BY <3>1, <2>1, <2>3 DEF IsInjective, ToSet
  <2> QED BY <2>2, <2>3, <2>4, <2>5
<1> QED BY <1>1, <1>2

(* An element of a sequence is one of its places.                             *)
LEMMA ElementPlaced ==
    ASSUME NEW S, NEW s \in Seq(S), NEW e
    PROVE  e \in ToSet(s) <=> \E i \in 1..Len(s) : s[i] = e
BY DEF ToSet

(* The head is the only element the tail of a sequence may lack.              *)
LEMMA PoppedHead ==
    ASSUME NEW s \in Seq(CacheKeys), s # <<>>
    PROVE  ToSet(s) \subseteq ToSet(Tail(s)) \cup {Head(s)}
<1>1. /\ Tail(s) \in Seq(CacheKeys) /\ Len(Tail(s)) = Len(s) - 1
      /\ \A j \in 1..Len(Tail(s)) : Tail(s)[j] = s[j + 1]
  BY HeadTailProperties
<1>2. ASSUME NEW i \in 1..Len(s), i # 1 PROVE s[i] \in ToSet(Tail(s))
  <2>1. i - 1 \in 1..Len(Tail(s)) /\ Tail(s)[i - 1] = s[i]
    BY <1>1, <1>2
  <2> QED BY <2>1, <1>1, ElementPlaced
<1>3. s[1] = Head(s)
  OBVIOUS
<1>4. \A e \in ToSet(s) : \E i \in 1..Len(s) : s[i] = e
  BY ElementPlaced
<1> QED BY <1>2, <1>3, <1>4, Zenon

-----------------------------------------------------------------------------
(* The types of the caches *)

(* The type invariant holds of the caches for any keys, callers and bound.    *)
THEOREM CacheTypeCorrect == CacheSpec => []CacheTypeOK
<1>1. CacheInit => CacheTypeOK
  BY CacheAssumption DEF CacheInit, Kinds
<1>2. CacheTypeOK /\ [CacheNext]_cacheVars => CacheTypeOK'
  <2> SUFFICES ASSUME CacheTypeOK, [CacheNext]_cacheVars PROVE CacheTypeOK'
    OBVIOUS
  <2>1. CASE UNCHANGED cacheVars
    BY <2>1 DEF cacheVars
  <2>2. ASSUME NEW c \in CacheCallers, NEW k \in CacheKeys, Miss(c, k) PROVE CacheTypeOK'
    BY <2>2 DEF Miss, Turns
  <2>3. ASSUME NEW c \in CacheCallers, NEW k \in CacheKeys, Insert(c, k) PROVE CacheTypeOK'
    BY <2>3 DEF Insert, Turns
  <2>4. ASSUME NEW c \in CacheCallers, NEW k \in CacheKeys, Invalidate(c, k) PROVE CacheTypeOK'
    BY <2>4 DEF Invalidate, Turns
  <2>5. ASSUME NEW c \in CacheCallers, FillFails(c) PROVE CacheTypeOK'
    BY <2>5 DEF FillFails, Turns
  <2>6. ASSUME NEW c \in CacheCallers, Remember(c) PROVE CacheTypeOK'
    <3>1. about[c] \in CacheKeys /\ Without(order, about[c]) \in Seq(CacheKeys)
      BY WithoutKey
    <3> QED BY <3>1, <2>6 DEF Remember, Turns
  <2>7. ASSUME NEW c \in CacheCallers, PopOldest(c) PROVE CacheTypeOK'
    BY <2>7 DEF PopOldest, Turns
  <2>8. ASSUME NEW c \in CacheCallers, Evict(c) PROVE CacheTypeOK'
    BY <2>8 DEF Evict, Turns
  <2>9. ASSUME NEW c \in CacheCallers, TrimEnds(c) PROVE CacheTypeOK'
    BY <2>9 DEF TrimEnds, Turns
  <2>10. ASSUME NEW c \in CacheCallers, Unlist(c) PROVE CacheTypeOK'
    <3>1. Without(order, about[c]) \in Seq(CacheKeys)
      BY WithoutKey
    <3> QED BY <3>1, <2>10 DEF Unlist, Turns
  <2>11. ASSUME NEW c \in CacheCallers, Clear(c) PROVE CacheTypeOK'
    BY <2>11 DEF Clear, Turns
  <2>12. ASSUME NEW c \in CacheCallers, UnlistAll(c) PROVE CacheTypeOK'
    BY <2>12 DEF UnlistAll, Turns
  <2>13. ASSUME NEW k \in CacheKeys, Expire(k) PROVE CacheTypeOK'
    BY <2>13 DEF Expire
  <2> QED BY <2>1, <2>2, <2>3, <2>4, <2>5, <2>6, <2>7, <2>8, <2>9, <2>10, <2>11, <2>12, <2>13
          DEF CacheNext
<1> QED BY <1>1, <1>2, PTL DEF CacheSpec

-----------------------------------------------------------------------------
(* Listings *)

(* A key is listed once at most: whatever fills, invalidations and evictions  *)
(* of one key overtake each other, eviction takes the oldest entry.            *)
THEOREM Listing == CacheSpec => []ListedOnce
<1> DEFINE Inv == CacheTypeOK /\ ListedOnce
<1>1. CacheInit => ListedOnce
  BY DEF CacheInit, ListedOnce, IsInjective
<1>2. Inv /\ [CacheNext]_cacheVars => ListedOnce'
  <2> SUFFICES ASSUME Inv, [CacheNext]_cacheVars PROVE ListedOnce'
    OBVIOUS
  <2>1. CASE UNCHANGED order
    BY <2>1 DEF ListedOnce, IsInjective
  <2>2. ASSUME NEW c \in CacheCallers, Remember(c) PROVE ListedOnce'
    <3> DEFINE rest == Without(order, about[c])
    <3>1. rest \in Seq(CacheKeys) /\ IsInjective(rest) /\ about[c] \notin ToSet(rest)
      BY WithoutKey DEF ListedOnce
    <3>2. order' = Append(rest, about[c]) /\ about[c] \in CacheKeys
      BY <2>2 DEF Remember
    <3> HIDE DEF rest
    <3> QED BY <3>1, <3>2 DEF ListedOnce, IsInjective, ToSet
  <2>3. ASSUME NEW c \in CacheCallers, PopOldest(c) PROVE ListedOnce'
    <3>1. order \in Seq(CacheKeys) /\ order # <<>> /\ order' = Tail(order)
      BY <2>3 DEF PopOldest
    <3>2. /\ order' \in Seq(CacheKeys) /\ Len(order') = Len(order) - 1
          /\ \A i \in 1..Len(order') : order'[i] = order[i + 1]
      BY <3>1, HeadTailProperties
    <3> QED BY <3>1, <3>2 DEF ListedOnce, IsInjective
  <2>4. ASSUME NEW c \in CacheCallers, Unlist(c) PROVE ListedOnce'
    BY <2>4, WithoutKey DEF Unlist, ListedOnce
  <2>5. ASSUME NEW c \in CacheCallers, UnlistAll(c) PROVE ListedOnce'
    BY <2>5 DEF UnlistAll, ListedOnce, IsInjective
  <2> QED BY <2>1, <2>2, <2>3, <2>4, <2>5
          DEF CacheNext, cacheVars, Miss, Insert, Invalidate, FillFails, Evict, TrimEnds, Clear, Expire
<1> QED BY <1>1, <1>2, CacheTypeCorrect, PTL DEF CacheSpec

-----------------------------------------------------------------------------
(* Entries *)

\* What an invalidation finds in the map later has overtaken it.
Overtook == \A k \in CacheKeys : Invalidating(k) /\ k \in kept => k \in overtaken

(* Every entry can still be evicted, unless its fill overtook an invalidation *)
(* of the same key.                                                            *)
THEOREM Tracked == CacheSpec => []EntriesTracked
<1> DEFINE Inv == CacheTypeOK /\ Overtook /\ EntriesTracked
<1>1. CacheInit => Overtook /\ EntriesTracked
  BY DEF CacheInit, Overtook, EntriesTracked
<1>2. Inv /\ CacheTypeOK' /\ [CacheNext]_cacheVars => Overtook' /\ EntriesTracked'
  <2> SUFFICES ASSUME Inv, CacheTypeOK', [CacheNext]_cacheVars PROVE Overtook' /\ EntriesTracked'
    OBVIOUS
  <2> USE DEF Overtook, EntriesTracked, Invalidating
  <2>1. CASE UNCHANGED cacheVars
    BY <2>1 DEF cacheVars
  <2>2. ASSUME NEW c \in CacheCallers, NEW k \in CacheKeys, Miss(c, k)
       PROVE Overtook' /\ EntriesTracked'
    BY <2>2 DEF Miss, Turns
  <2>3. ASSUME NEW c \in CacheCallers, NEW k \in CacheKeys, Insert(c, k)
       PROVE Overtook' /\ EntriesTracked'
    BY <2>3 DEF Insert, Turns
  <2>4. ASSUME NEW c \in CacheCallers, NEW k \in CacheKeys, Invalidate(c, k)
       PROVE Overtook' /\ EntriesTracked'
    BY <2>4 DEF Invalidate, Turns
  <2>5. ASSUME NEW c \in CacheCallers, FillFails(c)
       PROVE Overtook' /\ EntriesTracked'
    BY <2>5 DEF FillFails, Turns
  <2>6. ASSUME NEW c \in CacheCallers, Remember(c)
       PROVE Overtook' /\ EntriesTracked'
    <3> DEFINE rest == Without(order, about[c])
    <3>1. rest \in Seq(CacheKeys) /\ ToSet(order) \ {about[c]} \subseteq ToSet(rest)
      BY WithoutKey
    <3>2. ToSet(order') = ToSet(rest) \cup {about[c]}
      BY <3>1, <2>6, Appended DEF Remember
    <3> HIDE DEF rest
    <3> QED BY <3>1, <3>2, <2>6 DEF Remember, Turns
  <2>7. ASSUME NEW c \in CacheCallers, PopOldest(c)
       PROVE Overtook' /\ EntriesTracked'
    <3>1. ToSet(order) \subseteq ToSet(order') \cup {Head(order)}
      BY <2>7, PoppedHead DEF PopOldest
    <3> QED BY <3>1, <2>7 DEF PopOldest, Turns
  <2>8. ASSUME NEW c \in CacheCallers, Evict(c)
       PROVE Overtook' /\ EntriesTracked'
    BY <2>8 DEF Evict, Turns
  <2>9. ASSUME NEW c \in CacheCallers, TrimEnds(c)
       PROVE Overtook' /\ EntriesTracked'
    BY <2>9 DEF TrimEnds, Turns
  <2>10. ASSUME NEW c \in CacheCallers, Unlist(c)
       PROVE Overtook' /\ EntriesTracked'
    <3>1. ToSet(order) \ {about[c]} \subseteq ToSet(order')
      BY <2>10, WithoutKey DEF Unlist
    <3> QED BY <3>1, <2>10 DEF Unlist, Turns
  <2>11. ASSUME NEW c \in CacheCallers, Clear(c)
       PROVE Overtook' /\ EntriesTracked'
    BY <2>11 DEF Clear, Turns
  <2>12. ASSUME NEW c \in CacheCallers, UnlistAll(c)
       PROVE Overtook' /\ EntriesTracked'
    BY <2>12 DEF UnlistAll, Turns
  <2>13. ASSUME NEW k \in CacheKeys, Expire(k)
       PROVE Overtook' /\ EntriesTracked'
    BY <2>13 DEF Expire
  <2> QED BY <2>1, <2>2, <2>3, <2>4, <2>5, <2>6, <2>7, <2>8, <2>9, <2>10, <2>11, <2>12, <2>13 DEF CacheNext
<1> QED BY <1>1, <1>2, CacheTypeCorrect, PTL DEF CacheSpec

(* Eviction reaches every entry, by the place it was put in last.             *)
THEOREM Evictable == CacheSpec => []EveryEntryEvictable
BY Listing, Tracked, PTL DEF EveryEntryEvictable

-----------------------------------------------------------------------------
(* The bound *)

\* What an action keeps of an invariant of cardinalities.
LEMMA StillFits ==
    ASSUME NEW S, NEW T, IsFiniteSet(S), Cardinality(S) <= MaxKept, T \subseteq S
    PROVE  Cardinality(T) <= MaxKept
<1>1. IsFiniteSet(T) /\ Cardinality(T) <= Cardinality(S)
  BY FS_Subset
<1>2. Cardinality(S) \in Nat /\ Cardinality(T) \in Nat /\ MaxKept \in Nat
  BY <1>1, FS_CardinalityType, CacheAssumption
<1> QED BY <1>1, <1>2

LEMMA KeptFinite ==
    ASSUME CacheTypeOK, NEW S, S \subseteq kept
    PROVE  IsFiniteSet(S)
BY FS_Subset, CacheAssumption

(* Whatever a step does, it leaves no more unlisted entries than there were,  *)
(* or it is an invalidation that comes to a free deque.                       *)
THEOREM Bounded == CacheSpec => []WithinBound
<1>1. CacheInit => OrderHeld /\ UnlistedFit /\ FreeFit
  <2> SUFFICES ASSUME CacheInit PROVE OrderHeld /\ UnlistedFit /\ FreeFit
    OBVIOUS
  <2>1. OrderHeld
    BY CacheAssumption DEF CacheInit, OrderHeld
  <2>2. Unlisted = {} /\ kept \ Filled = {}
    BY DEF CacheInit, Unlisted
  <2> QED BY <2>1, <2>2, FS_EmptySet, CacheAssumption DEF UnlistedFit, FreeFit
<1>2. BoundInv /\ CacheTypeOK' /\ [CacheNext]_cacheVars => OrderHeld' /\ UnlistedFit' /\ FreeFit'
  <2> SUFFICES ASSUME BoundInv, CacheTypeOK', [CacheNext]_cacheVars
               PROVE  OrderHeld' /\ UnlistedFit' /\ FreeFit'
    OBVIOUS
  <2> USE DEF BoundInv
  \* An action that keeps the listing of every entry.
  <2>a. ASSUME OrderHeld', Unlisted' \subseteq Unlisted,
               orderLock' = orderLock, kept' \ Filled' \subseteq kept \ Filled
        PROVE  OrderHeld' /\ UnlistedFit' /\ FreeFit'
    <3>1. IsFiniteSet(Unlisted) /\ IsFiniteSet(kept \ Filled)
      BY KeptFinite DEF Unlisted
    <3> QED BY <2>a, <3>1, StillFits DEF UnlistedFit, FreeFit
  <2>b. ASSUME OrderHeld', orderLock' # NoCaller, Unlisted' \subseteq Unlisted
        PROVE  OrderHeld' /\ UnlistedFit' /\ FreeFit'
    <3>1. IsFiniteSet(Unlisted)
      BY KeptFinite DEF Unlisted
    <3> QED BY <2>b, <3>1, StillFits DEF UnlistedFit, FreeFit
  <2>c. ASSUME orderLock = NoCaller, OrderHeld',
               Unlisted' \subseteq kept \ Filled, kept' \ Filled' \subseteq kept \ Filled
        PROVE  OrderHeld' /\ UnlistedFit' /\ FreeFit'
    <3>1. IsFiniteSet(kept \ Filled)
      BY KeptFinite
    <3> QED BY <2>c, <3>1, StillFits DEF UnlistedFit, FreeFit
  <2>1. CASE UNCHANGED cacheVars
    BY <2>1 DEF cacheVars, OrderHeld, UnlistedFit, FreeFit, Unlisted, Filled, Evicted
  <2>2. ASSUME NEW c \in CacheCallers, NEW k \in CacheKeys, Miss(c, k)
        PROVE  OrderHeld' /\ UnlistedFit' /\ FreeFit'
    <3>1. OrderHeld'
      BY <2>2 DEF Miss, Turns, OrderHeld
    <3>2. Filled \subseteq Filled' /\ Evicted \subseteq Evicted'
      BY <2>2 DEF Miss, Turns, Filled, Evicted
    <3>3. Unlisted' \subseteq Unlisted /\ kept' \ Filled' \subseteq kept \ Filled
      BY <3>2, <2>2 DEF Miss, Unlisted
    <3> QED BY <3>1, <3>3, <2>2, <2>a DEF Miss
  <2>3. ASSUME NEW c \in CacheCallers, NEW k \in CacheKeys, Insert(c, k)
        PROVE  OrderHeld' /\ UnlistedFit' /\ FreeFit'
    <3>1. OrderHeld'
      BY <2>3 DEF Insert, Turns, OrderHeld
    <3>2. Filled \subseteq Filled' /\ k \in Filled' /\ Evicted \subseteq Evicted'
      BY <2>3 DEF Insert, Turns, Filled, Evicted
    <3>3. Unlisted' \subseteq Unlisted /\ kept' \ Filled' \subseteq kept \ Filled
      BY <3>2, <2>3 DEF Insert, Unlisted
    <3> QED BY <3>1, <3>3, <2>3, <2>a DEF Insert
  <2>4. ASSUME NEW c \in CacheCallers, NEW k \in CacheKeys, Invalidate(c, k)
        PROVE  OrderHeld' /\ UnlistedFit' /\ FreeFit'
    <3>1. OrderHeld'
      BY <2>4 DEF Invalidate, Turns, OrderHeld
    <3>2. Filled \subseteq Filled' /\ Evicted \subseteq Evicted'
      BY <2>4 DEF Invalidate, Turns, Filled, Evicted
    <3>3. Unlisted' \subseteq Unlisted /\ kept' \ Filled' \subseteq kept \ Filled
      BY <3>2, <2>4 DEF Invalidate, Unlisted
    <3> QED BY <3>1, <3>3, <2>4, <2>a DEF Invalidate
  <2>5. ASSUME NEW c \in CacheCallers, FillFails(c)
        PROVE  OrderHeld' /\ UnlistedFit' /\ FreeFit'
    <3>1. OrderHeld'
      BY <2>5 DEF FillFails, Turns, OrderHeld
    <3>2. Filled \subseteq Filled' /\ Evicted \subseteq Evicted'
      BY <2>5 DEF FillFails, Turns, Filled, Evicted
    <3>3. Unlisted' \subseteq Unlisted /\ kept' \ Filled' \subseteq kept \ Filled
      BY <3>2, <2>5 DEF FillFails, Unlisted
    <3> QED BY <3>1, <3>3, <2>5, <2>a DEF FillFails
  <2>6. ASSUME NEW c \in CacheCallers, Remember(c)
        PROVE  OrderHeld' /\ UnlistedFit' /\ FreeFit'
    <3>1. OrderHeld' /\ orderLock' # NoCaller
      BY <2>6, CacheAssumption DEF Remember, Turns, OrderHeld
    <3>2. Filled \subseteq Filled' \cup {about[c]} /\ Evicted \subseteq Evicted'
      BY <2>6 DEF Remember, Turns, Filled, Evicted
    <3>3. about[c] \in CacheKeys /\ Without(order, about[c]) \in Seq(CacheKeys)
      BY WithoutKey
    <3>4. ToSet(order) \cup {about[c]} \subseteq ToSet(order')
      BY <2>6, <3>3, WithoutKey, Appended DEF Remember
    <3>5. Unlisted' \subseteq Unlisted
      BY <3>2, <3>4, <2>6 DEF Remember, Unlisted
    <3> QED BY <3>1, <3>5, <2>b
  <2>7. ASSUME NEW c \in CacheCallers, PopOldest(c)
        PROVE  OrderHeld' /\ UnlistedFit' /\ FreeFit'
    <3>1. OrderHeld' /\ orderLock' # NoCaller
      BY <2>7, CacheAssumption DEF PopOldest, Turns, OrderHeld
    <3>2. Filled \subseteq Filled' /\ Evicted \cup {Head(order)} \subseteq Evicted'
      BY <2>7 DEF PopOldest, Turns, Filled, Evicted
    <3>3. ToSet(order) \subseteq ToSet(order') \cup {Head(order)}
      BY <2>7, PoppedHead DEF PopOldest
    <3>4. Unlisted' \subseteq Unlisted
      BY <3>2, <3>3, <2>7 DEF PopOldest, Unlisted
    <3> QED BY <3>1, <3>4, <2>b
  <2>8. ASSUME NEW c \in CacheCallers, Evict(c)
        PROVE  OrderHeld' /\ UnlistedFit' /\ FreeFit'
    <3>1. OrderHeld' /\ orderLock' # NoCaller
      BY <2>8, CacheAssumption DEF Evict, Turns, OrderHeld
    <3>2. Filled \subseteq Filled' /\ Evicted \subseteq Evicted' \cup {about[c]}
      BY <2>8 DEF Evict, Turns, Filled, Evicted
    <3>3. Unlisted' \subseteq Unlisted
      BY <3>2, <2>8 DEF Evict, Unlisted
    <3> QED BY <3>1, <3>3, <2>b
  <2>9. ASSUME NEW c \in CacheCallers, TrimEnds(c)
        PROVE  OrderHeld' /\ UnlistedFit' /\ FreeFit'
    <3>1. OrderHeld' /\ orderLock = c
      BY <2>9, CacheAssumption DEF TrimEnds, Turns, OrderHeld
    <3>2. Evicted = {}
      BY <3>1, <2>9 DEF TrimEnds, Turns, OrderHeld, Evicted
    <3>3. Filled \subseteq Filled' /\ kept' = kept /\ order' = order
      BY <2>9 DEF TrimEnds, Turns, Filled
    <3>4. UnlistedFit'
      <4>1. Unlisted' \subseteq Unlisted
        BY <3>2, <3>3 DEF Unlisted
      <4>2. IsFiniteSet(Unlisted)
        BY KeptFinite DEF Unlisted
      <4> QED BY <4>1, <4>2, StillFits DEF UnlistedFit
    <3>5. Cardinality(kept \ Filled') <= MaxKept
      <4>1. CASE Cardinality(kept) <= MaxKept
        <5>1. IsFiniteSet(kept)
          BY KeptFinite
        <5> QED BY <5>1, <4>1, StillFits
      <4>2. CASE order = <<>>
        <5>1. kept \ Filled' \subseteq Unlisted
          BY <4>2, <3>2, <3>3 DEF Unlisted, ToSet
        <5>2. IsFiniteSet(Unlisted)
          BY KeptFinite DEF Unlisted
        <5> QED BY <5>1, <5>2, StillFits DEF UnlistedFit
      <4> QED BY <4>1, <4>2, <2>9 DEF TrimEnds
    <3> QED BY <3>1, <3>3, <3>4, <3>5 DEF FreeFit
  <2>10. ASSUME NEW c \in CacheCallers, Unlist(c)
        PROVE  OrderHeld' /\ UnlistedFit' /\ FreeFit'
    <3>1. OrderHeld' /\ orderLock = NoCaller /\ kept' = kept
      BY <2>10 DEF Unlist, Turns, OrderHeld
    <3>2. Filled \subseteq Filled'
      BY <2>10 DEF Unlist, Turns, Filled
    <3>3. Unlisted' \subseteq kept \ Filled
      BY <3>1, <3>2 DEF Unlisted
    <3> QED BY <3>1, <3>2, <3>3, <2>c
  <2>11. ASSUME NEW c \in CacheCallers, Clear(c)
        PROVE  OrderHeld' /\ UnlistedFit' /\ FreeFit'
    <3>1. OrderHeld'
      BY <2>11 DEF Clear, Turns, OrderHeld
    <3>2. Filled \subseteq Filled' /\ Evicted \subseteq Evicted'
      BY <2>11 DEF Clear, Turns, Filled, Evicted
    <3>3. Unlisted' \subseteq Unlisted /\ kept' \ Filled' \subseteq kept \ Filled
      BY <3>2, <2>11 DEF Clear, Unlisted
    <3> QED BY <3>1, <3>3, <2>11, <2>a DEF Clear
  <2>12. ASSUME NEW c \in CacheCallers, UnlistAll(c)
        PROVE  OrderHeld' /\ UnlistedFit' /\ FreeFit'
    <3>1. OrderHeld' /\ orderLock = NoCaller /\ kept' = kept
      BY <2>12 DEF UnlistAll, Turns, OrderHeld
    <3>2. Filled \subseteq Filled'
      BY <2>12 DEF UnlistAll, Turns, Filled
    <3>3. Unlisted' \subseteq kept \ Filled
      BY <3>1, <3>2 DEF Unlisted
    <3> QED BY <3>1, <3>2, <3>3, <2>c
  <2>13. ASSUME NEW k \in CacheKeys, Expire(k)
        PROVE  OrderHeld' /\ UnlistedFit' /\ FreeFit'
    BY <2>13 DEF Expire, OrderHeld, UnlistedFit, FreeFit, Unlisted, Filled, Evicted
  <2> QED BY <2>1, <2>2, <2>3, <2>4, <2>5, <2>6, <2>7, <2>8, <2>9, <2>10, <2>11, <2>12, <2>13
          DEF CacheNext
<1>3. BoundInv => WithinBound
  <2> SUFFICES ASSUME BoundInv,
                      \A c \in CacheCallers : doing[c] \notin {"inserted", "trimming", "evicting"}
               PROVE  Cardinality(kept) <= MaxKept
    BY DEF WithinBound
  <2>1. orderLock = NoCaller
    BY DEF BoundInv, OrderHeld
  <2>2. kept \ Filled = kept
    BY DEF Filled
  <2> QED BY <2>1, <2>2 DEF BoundInv, FreeFit
<1> QED BY <1>1, <1>2, <1>3, CacheTypeCorrect, PTL DEF CacheSpec, BoundInv

-----------------------------------------------------------------------------
(* The batch: the invariant *)

\* Types, as far as the places of inputs go; what was not fed is nowhere.
Places ==
    /\ inputs \in Nat /\ fed \in 0..inputs
    /\ work \in Seq(1..fed) /\ results \in Seq(1..fed)
    /\ at \in [BatchWorkers -> {"unborn", "locking", "receiving", "running", "reporting", "left"}]
    /\ job \in [BatchWorkers -> 0..fed]
    /\ outcomes \in [1..inputs -> {"no", "ok", "error"}]

\* A worker has an input in hand while it runs it and until it has reported it,
\* and there are none before the call spawns them.
Busy ==
    /\ \A w \in BatchWorkers : job[w] # 0 <=> at[w] \in {"running", "reporting"}
    /\ caller = "idle" => \A w \in BatchWorkers : at[w] = "unborn"

\* No input is in the channel or in hand twice, nor in two of the places.
Once ==
    /\ IsInjective(work) /\ IsInjective(results)
    /\ \A i \in ToSet(work) : i \notin ToSet(results) /\ ~InHand(i)
    /\ \A w \in BatchWorkers : job[w] \notin ToSet(results)
    /\ \A v, w \in BatchWorkers : job[v] = job[w] /\ job[v] # 0 => v = w

Somewhere == \A i \in 1..fed : i \in ToSet(work) \/ InHand(i) \/ i \in ToSet(results)

\* A task has run exactly for the inputs that came out of a worker's hands, or
\* that are about to.
RanOnce == \A i \in 1..inputs :
    outcomes[i] # "no" <=>
        \/ i \in ToSet(results)
        \/ \E w \in BatchWorkers : job[w] = i /\ at[w] = "reporting"

BatchInv == Places /\ Busy /\ Once /\ Somewhere /\ RanOnce

-----------------------------------------------------------------------------
(* The batch: its channels *)

\* What recv takes out of a channel without repetitions is no longer there.
LEMMA Popped ==
    ASSUME NEW S, NEW s \in Seq(S), s # <<>>, IsInjective(s)
    PROVE  /\ Tail(s) \in Seq(S) /\ Head(s) \in S /\ Head(s) \in ToSet(s)
           /\ IsInjective(Tail(s))
           /\ ToSet(Tail(s)) = ToSet(s) \ {Head(s)}
<1> DEFINE t == Tail(s)
<1>1. /\ t \in Seq(S) /\ Len(t) = Len(s) - 1 /\ Head(s) \in S
      /\ \A i \in 1..Len(t) : t[i] = s[i + 1]
  BY HeadTailProperties
<1>2. Head(s) = s[1] /\ Len(s) \in Nat /\ 1 \in 1..Len(s)
  OBVIOUS
<1> HIDE DEF t
<1>3. /\ \A x : x \in ToSet(t) <=> \E i \in 1..Len(t) : t[i] = x
      /\ \A x : x \in ToSet(s) <=> \E i \in 1..Len(s) : s[i] = x
  BY <1>1 DEF ToSet
<1>4. \A i, j \in 1..Len(s) : s[i] = s[j] => i = j
  BY DEF IsInjective
<1>5. \A i, j \in 1..Len(t) : t[i] = t[j] => i = j
  BY <1>1, <1>2, <1>4
<1>6. ASSUME NEW i \in 1..Len(s), s[i] # Head(s) PROVE s[i] \in ToSet(t)
  <2>1. i - 1 \in 1..Len(t) /\ t[i - 1] = s[i]
    BY <1>1, <1>2, <1>6
  <2> QED BY <2>1, <1>3
<1>7. ASSUME NEW i \in 1..Len(t) PROVE t[i] \in ToSet(s) /\ t[i] # Head(s)
  <2>1. i + 1 \in 1..Len(s) /\ t[i] = s[i + 1] /\ i + 1 # 1
    BY <1>1, <1>2
  <2> QED BY <2>1, <1>2, <1>3, <1>4
<1>8. ToSet(t) = ToSet(s) \ {Head(s)}
  BY <1>3, <1>6, <1>7
<1>9. Head(s) \in ToSet(s) /\ IsInjective(t)
  BY <1>1, <1>2, <1>3, <1>5 DEF IsInjective
<1> QED BY <1>1, <1>8, <1>9 DEF t

-----------------------------------------------------------------------------
(* The batch: its steps *)

LEMMA BatchInitHolds == BatchInit => BatchInv
<1> SUFFICES ASSUME BatchInit PROVE BatchInv
  OBVIOUS
<1>1. ToSet(<<>>) = {} /\ IsInjective(<<>>)
  BY DEF ToSet, IsInjective
<1> QED BY <1>1, BatchAssumption
        DEF BatchInit, BatchInv, Places, Busy, Once, Somewhere, RanOnce, InHand

LEMMA Fed ==
    ASSUME BatchInv, Feed
    PROVE  BatchInv'
<1>1. /\ fed' = fed + 1 /\ fed' \in 1..inputs /\ work' = Append(work, fed')
      /\ UNCHANGED <<inputs, caller, at, job, outcomes, results>>
  BY DEF Feed, BatchInv, Places
<1>2. fed' \notin ToSet(work) /\ fed' \notin ToSet(results) /\ ~InHand(fed')
  <2>1. ToSet(work) \subseteq 1..fed /\ ToSet(results) \subseteq 1..fed
    BY DEF BatchInv, Places, ToSet
  <2> QED BY <2>1, <1>1 DEF BatchInv, Places, InHand
<1>3. work \in Seq(1..fed') /\ results \in Seq(1..fed') /\ IsInjective(work)
  <2>1. Seq(1..fed) \subseteq Seq(1..fed')
    BY <1>1 DEF BatchInv, Places
  <2> QED BY <2>1 DEF BatchInv, Places, Once
<1>4. /\ work' \in Seq(1..fed') /\ ToSet(work') = ToSet(work) \cup {fed'}
      /\ IsInjective(work')
  BY <1>1, <1>2, <1>3, Appended
<1>5. Places' /\ Busy'
  BY <1>1, <1>3, <1>4 DEF BatchInv, Places, Busy
<1>6. Once' /\ RanOnce'
  BY <1>1, <1>2, <1>4 DEF BatchInv, Places, Once, InHand, RanOnce
<1>7. Somewhere'
  BY <1>1, <1>4 DEF BatchInv, Places, Somewhere, InHand
<1> QED BY <1>5, <1>6, <1>7 DEF BatchInv

LEMMA Received ==
    ASSUME BatchInv, NEW w \in BatchWorkers, Receive(w)
    PROVE  BatchInv'
<1>1. /\ work # <<>> /\ at[w] = "receiving" /\ job[w] = 0
      /\ at' = [at EXCEPT ![w] = "running"]
      /\ job' = [job EXCEPT ![w] = Head(work)]
      /\ work' = Tail(work)
      /\ UNCHANGED <<inputs, caller, fed, outcomes, results>>
  BY DEF Receive, Works, BatchInv, Busy
<1>2. /\ work' \in Seq(1..fed) /\ Head(work) \in 1..fed /\ Head(work) \in ToSet(work)
      /\ IsInjective(work') /\ ToSet(work') = ToSet(work) \ {Head(work)}
  BY <1>1, Popped DEF BatchInv, Places, Once
<1>3. Places' /\ Busy'
  BY <1>1, <1>2 DEF BatchInv, Places, Busy
<1>4. Once'
  BY <1>1, <1>2 DEF BatchInv, Places, Once, InHand
<1>5. Somewhere'
  BY <1>1, <1>2 DEF BatchInv, Places, Somewhere, InHand
<1>6. RanOnce'
  BY <1>1, <1>2 DEF BatchInv, Places, RanOnce
<1> QED BY <1>3, <1>4, <1>5, <1>6 DEF BatchInv

LEMMA Ran ==
    ASSUME BatchInv, NEW w \in BatchWorkers, RunJob(w)
    PROVE  BatchInv'
<1>1. PICK o \in {"ok", "error"} :
        /\ at[w] = "running" /\ at' = [at EXCEPT ![w] = "reporting"]
        /\ outcomes' = [outcomes EXCEPT ![job[w]] = o]
        /\ UNCHANGED <<inputs, caller, fed, work, job, results>>
  BY DEF RunJob, Works
<1>2. job[w] \in 1..inputs
  BY <1>1 DEF BatchInv, Places, Busy
<1>3. Places' /\ Busy' /\ Once' /\ Somewhere'
  BY <1>1, <1>2 DEF BatchInv, Places, Busy, Once, Somewhere, InHand
<1>4. RanOnce'
  BY <1>1, <1>2 DEF BatchInv, Places, Once, RanOnce
<1> QED BY <1>3, <1>4 DEF BatchInv

LEMMA Reported ==
    ASSUME BatchInv, NEW w \in BatchWorkers, Report(w)
    PROVE  BatchInv'
<1>1. /\ at[w] = "reporting" /\ at' = [at EXCEPT ![w] = "locking"]
      /\ results' = Append(results, job[w])
      /\ job' = [job EXCEPT ![w] = 0]
      /\ UNCHANGED <<inputs, caller, fed, work, outcomes>>
  BY DEF Report, Works
<1>2. job[w] \in 1..fed /\ job[w] \notin ToSet(results)
  BY <1>1 DEF BatchInv, Places, Busy, Once
<1>3. /\ results' \in Seq(1..fed) /\ ToSet(results') = ToSet(results) \cup {job[w]}
      /\ IsInjective(results')
  BY <1>1, <1>2, Appended DEF BatchInv, Places, Once
<1>4. Places' /\ Busy'
  BY <1>1, <1>3 DEF BatchInv, Places, Busy
<1>5. 0 \notin ToSet(results')
  BY <1>1, <1>3 DEF ToSet, BatchInv, Places
<1>6. Once'
  <2>1. \A i \in ToSet(work') : i \notin ToSet(results') /\ ~InHand(i)'
    <3> SUFFICES ASSUME NEW i \in ToSet(work) PROVE i \notin ToSet(results') /\ ~InHand(i)'
      BY <1>1 DEF ToSet
    <3>1. i \notin ToSet(results) /\ i # job[w] /\ i # 0
      <4>1. ToSet(work) \subseteq 1..fed /\ fed \in Nat
        BY DEF BatchInv, Places, ToSet
      <4>2. i \notin ToSet(results) /\ ~InHand(i)
        BY DEF BatchInv, Once
      <4> QED BY <4>1, <4>2 DEF InHand
    <3>2. \A v \in BatchWorkers : job'[v] # i
      BY <1>1, <3>1 DEF BatchInv, Places, Once, InHand
    <3> QED BY <1>3, <3>1, <3>2 DEF InHand
  <2>2. \A v \in BatchWorkers : job'[v] \notin ToSet(results')
    BY <1>1, <1>2, <1>3, <1>5 DEF BatchInv, Places, Once
  <2>3. \A u, v \in BatchWorkers : job'[u] = job'[v] /\ job'[u] # 0 => u = v
    BY <1>1 DEF BatchInv, Places, Once
  <2>4. IsInjective(work')
    BY <1>1 DEF BatchInv, Once
  <2> QED BY <1>1, <1>3, <2>1, <2>2, <2>3, <2>4 DEF Once
<1>7. Somewhere'
  BY <1>1, <1>2, <1>3 DEF BatchInv, Places, Somewhere, InHand
<1>8. RanOnce'
  BY <1>1, <1>2, <1>3 DEF BatchInv, Places, Once, RanOnce
<1> QED BY <1>4, <1>6, <1>7, <1>8 DEF BatchInv

\* The steps that move no input.
LEMMA Moved ==
    ASSUME BatchInv, UNCHANGED <<inputs, fed, work, results, job, outcomes>>,
           \/ UNCHANGED at /\ (UNCHANGED caller \/ caller' # "idle")
           \/ \E w \in BatchWorkers : LockReceiver(w) \/ LeaveWork(w)
           \/ SpawnWorkers
    PROVE  BatchInv'
<1>1. Places' /\ Busy'
  <2>1. CASE UNCHANGED at /\ (UNCHANGED caller \/ caller' # "idle")
    BY <2>1 DEF BatchInv, Places, Busy
  <2>2. ASSUME NEW w \in BatchWorkers, LockReceiver(w) \/ LeaveWork(w) PROVE Places' /\ Busy'
    BY <2>2 DEF BatchInv, Places, Busy, LockReceiver, LeaveWork, Works
  <2>3. CASE SpawnWorkers
    BY <2>3 DEF BatchInv, Places, Busy, SpawnWorkers, Calls
  <2> QED BY <2>1, <2>2, <2>3
<1>2. Once' /\ Somewhere'
  BY DEF BatchInv, Once, Somewhere, InHand
<1>3. RanOnce'
  <2>1. \A w \in BatchWorkers : at'[w] = "reporting" <=> at[w] = "reporting"
    <3>1. CASE UNCHANGED at
      BY <3>1
    <3>2. ASSUME NEW v \in BatchWorkers, LockReceiver(v) \/ LeaveWork(v),
                 NEW w \in BatchWorkers
          PROVE  at'[w] = "reporting" <=> at[w] = "reporting"
      BY <3>2 DEF BatchInv, Places, LockReceiver, LeaveWork, Works
    <3>3. CASE SpawnWorkers
      BY <3>3 DEF BatchInv, Busy, SpawnWorkers, Calls
    <3> QED BY <3>1, <3>2, <3>3
  <2> QED BY <2>1 DEF BatchInv, RanOnce
<1> QED BY <1>1, <1>2, <1>3 DEF BatchInv

LEMMA BatchInvariant == BatchSpec => []BatchInv
<1>1. BatchInv /\ [BatchNext]_batchVars => BatchInv'
  <2> SUFFICES ASSUME BatchInv, [BatchNext]_batchVars PROVE BatchInv'
    OBVIOUS
  <2>1. CASE UNCHANGED batchVars
    BY <2>1, Moved DEF batchVars
  <2>2. CASE ReturnEmpty \/ PrewarmRefuses \/ CloseWork \/ Collect
    BY <2>2, Moved DEF ReturnEmpty, PrewarmRefuses, CloseWork, Collect, Calls
  <2>3. CASE SpawnWorkers
    BY <2>3, Moved DEF SpawnWorkers
  <2>4. ASSUME NEW w \in BatchWorkers, LockReceiver(w) \/ LeaveWork(w) PROVE BatchInv'
    BY <2>4, Moved DEF LockReceiver, LeaveWork
  <2> QED BY <2>1, <2>2, <2>3, <2>4, Fed, Received, Ran, Reported
          DEF BatchNext, BatchContinues, WorkerContinues
<1> QED BY <1>1, BatchInitHolds, PTL DEF BatchSpec

-----------------------------------------------------------------------------
(* No input of a batch is lost or handed out twice, for any number of workers *)
(* and inputs.                                                                 *)
THEOREM Complete == BatchSpec => []NoInputLost
<1>1. BatchInv => NoInputLost
  BY DEF BatchInv, Places, Once, Somewhere, NoInputLost, PlacedOnce, InHand
<1> QED BY <1>1, BatchInvariant, PTL

(* The task runs once for each input: what it has made of one stays.          *)
THEOREM NoRerun ==
    BatchSpec => [][\A i \in 1..inputs : outcomes[i] # "no" => outcomes'[i] = outcomes[i]]_batchVars
<1>1. BatchInv /\ [BatchNext]_batchVars
        => [\A i \in 1..inputs : outcomes[i] # "no" => outcomes'[i] = outcomes[i]]_batchVars
  <2> SUFFICES ASSUME BatchInv, BatchNext, NEW i \in 1..inputs, outcomes[i] # "no"
               PROVE  outcomes'[i] = outcomes[i]
    BY DEF batchVars
  <2>1. ASSUME NEW w \in BatchWorkers, RunJob(w) PROVE outcomes'[i] = outcomes[i]
    <3>1. PICK o \in {"ok", "error"} :
            at[w] = "running" /\ outcomes' = [outcomes EXCEPT ![job[w]] = o]
      BY <2>1 DEF RunJob, Works
    <3>2. job[w] # i
      BY <3>1 DEF BatchInv, Places, Busy, Once, RanOnce
    <3> QED BY <3>1, <3>2 DEF BatchInv, Places
  <2>2. CASE UNCHANGED outcomes
    BY <2>2
  <2> QED BY <2>1, <2>2
          DEF BatchNext, BatchContinues, WorkerContinues, ReturnEmpty, PrewarmRefuses, SpawnWorkers,
              Feed, CloseWork, Collect, LockReceiver, Receive, LeaveWork, Report
<1> QED BY <1>1, BatchInvariant, PTL DEF BatchSpec

-----------------------------------------------------------------------------
(* The promise of a batch *)

\* What orders the numbers from 1 to n leaves each where it is: the first i of
\* them need i places at and below that of i, and the others the rest.
LEMMA OrderedIsIdentity ==
    ASSUME NEW n \in Nat, NEW f \in Injection(1..n, 1..n),
           \A i, j \in 1..n : i < j => f[i] <= f[j]
    PROVE  \A i \in 1..n : f[i] = i
<1>1. f \in [1..n -> 1..n] /\ \A i, j \in 1..n : f[i] = f[j] => i = j
  BY Fun_InjectionProperties
<1> SUFFICES ASSUME NEW i \in 1..n PROVE f[i] = i
  OBVIOUS
<1>2. f[i] \in 1..n /\ i \in 1..n
  BY <1>1
<1>3. i <= f[i]
  <2> DEFINE g == [j \in 1..i |-> f[j]]
  <2>1. \A j \in 1..i : j \in 1..n /\ f[j] \in 1..f[i]
    <3> SUFFICES ASSUME NEW j \in 1..i PROVE j \in 1..n /\ f[j] \in 1..f[i]
      OBVIOUS
    <3>1. j \in 1..n /\ (j < i \/ j = i)
      BY <1>2
    <3>2. f[j] \in 1..n /\ f[j] <= f[i]
      BY <1>1, <1>2, <3>1
    <3> QED BY <1>2, <3>1, <3>2
  <2>2. g \in [1..i -> 1..f[i]] /\ \A a, b \in 1..i : g[a] = g[b] => a = b
    BY <1>1, <2>1
  <2> HIDE DEF g
  <2>3. g \in Injection(1..i, 1..f[i])
    BY <2>2, Fun_IsInj
  <2>4. IsFiniteSet(1..f[i]) /\ Cardinality(1..f[i]) = f[i] /\ Cardinality(1..i) = i
    BY <1>2, FS_Interval
  <2>5. Cardinality(1..i) <= Cardinality(1..f[i])
    BY <2>3, <2>4, FS_Injection
  <2> QED BY <2>4, <2>5
<1>4. f[i] <= i
  <2> DEFINE g == [j \in i..n |-> f[j]]
  <2>1. \A j \in i..n : j \in 1..n /\ f[j] \in f[i]..n
    <3> SUFFICES ASSUME NEW j \in i..n PROVE j \in 1..n /\ f[j] \in f[i]..n
      OBVIOUS
    <3>1. j \in 1..n /\ (i < j \/ j = i)
      BY <1>2
    <3>2. f[j] \in 1..n /\ f[i] <= f[j]
      BY <1>1, <1>2, <3>1
    <3> QED BY <1>2, <3>1, <3>2
  <2>2. g \in [i..n -> f[i]..n] /\ \A a, b \in i..n : g[a] = g[b] => a = b
    BY <1>1, <2>1
  <2> HIDE DEF g
  <2>3. g \in Injection(i..n, f[i]..n)
    BY <2>2, Fun_IsInj
  <2>4. IsFiniteSet(f[i]..n) /\ Cardinality(f[i]..n) = n - f[i] + 1 /\ Cardinality(i..n) = n - i + 1
    BY <1>2, FS_Interval
  <2>5. Cardinality(i..n) <= Cardinality(f[i]..n)
    BY <2>3, <2>4, FS_Injection
  <2> QED BY <1>2, <2>4, <2>5
<1> QED BY <1>2, <1>3, <1>4

\* The outputs of all inputs, sorted, are those of the inputs in their order.
LEMMA SortedOutputs ==
    ASSUME NEW n \in Nat, NEW s \in Seq(1..n), IsInjective(s), ToSet(s) = 1..n
    PROVE  Len(s) = n /\ Sorted(s) = [i \in 1..n |-> i]
<1>1. s \in [1..Len(s) -> 1..n] /\ Len(s) \in Nat /\ DOMAIN s = 1..Len(s)
  OBVIOUS
<1>2. /\ \A i, j \in 1..Len(s) : s[i] = s[j] => i = j
      /\ \A x \in 1..n : \E i \in 1..Len(s) : s[i] = x
  BY <1>1 DEF IsInjective, ToSet
<1>3. s \in Bijection(1..Len(s), 1..n)
  BY <1>1, <1>2, Fun_IsBij
<1>4. Len(s) = n
  <2>1. /\ IsFiniteSet(1..Len(s)) /\ Cardinality(1..Len(s)) = Len(s) /\ Cardinality(1..n) = n
    <3> DEFINE m == Len(s)
    <3>1. m \in Nat
      BY <1>1
    <3> HIDE DEF m
    <3>2. IsFiniteSet(1..m) /\ Cardinality(1..m) = m
      BY <3>1, FS_Interval
    <3>3. Cardinality(1..n) = n
      BY FS_Interval
    <3> QED BY <3>2, <3>3 DEF m
  <2>2. ExistsBijection(1..Len(s), 1..n)
    BY <1>3 DEF ExistsBijection
  <2> QED BY <2>1, <2>2, FS_Bijection
<1>5. s \in Bijection(1..n, 1..n) /\ s \in [1..n -> 1..n]
  BY <1>1, <1>3, <1>4
<1> DEFINE Orders(p) == \A i, j \in 1..n : i < j => s[p[i]] <= s[p[j]]
           sorting == CHOOSE p \in Bijection(1..n, 1..n) : Orders(p)
<1>6. sorting \in Bijection(1..n, 1..n) /\ Orders(sorting)
  <2> DEFINE p == Inverse(s, 1..n, 1..n)
  <2>1. p \in Bijection(1..n, 1..n) /\ Range(s) = 1..n
    BY <1>5, Fun_BijInverse, Fun_BijectionProperties, Fun_SurjectionProperties
  <2>2. \A i \in 1..n : s[p[i]] = i
    BY <1>5, <2>1, Fun_InverseProperties
  <2> HIDE DEF p
  <2>3. Orders(p)
    BY <2>2
  <2> HIDE DEF Orders
  <2> QED BY <2>1, <2>3
<1> DEFINE t == [i \in 1..n |-> s[sorting[i]]]
<1> HIDE DEF sorting
<1>7. t \in Bijection(1..n, 1..n)
  <2>1. sorting \in Bijection(1..n, 1..n) /\ s \in Bijection(1..n, 1..n)
    BY <1>5, <1>6
  <2> QED BY <2>1, Fun_BijTransitive, Zenon
<1>8. t \in Injection(1..n, 1..n) /\ \A i, j \in 1..n : i < j => t[i] <= t[j]
  BY <1>6, <1>7, Fun_BijectionProperties
<1> HIDE DEF t
<1>9. t = [i \in 1..n |-> i]
  <2>1. \A i \in 1..n : t[i] = i
    BY <1>8, OrderedIsIdentity
  <2>2. t \in [1..n -> 1..n]
    BY <1>7, Fun_BijectionProperties
  <2> QED BY <2>1, <2>2
<1> QED BY <1>4, <1>9 DEF Sorted, t, sorting

\* The control points: what the caller has done, and the workers with it.
Phases ==
    /\ inputs \in 0..MaxInputs /\ receiver \in BatchWorkers \cup {NoWorker}
    /\ caller \in {"idle", "feeding", "joining", "returned"}
    /\ caller = "idle" => fed = 0
    /\ caller = "joining" => fed = inputs
    /\ \A w \in BatchWorkers :
         /\ at[w] = "left" => caller \in {"joining", "returned"} /\ work = <<>>
         /\ caller = "returned" => at[w] \in {"unborn", "left"}

\* What the caller has returned, and when.
ReturnedValue ==
    /\ caller # "returned" => value = Promise!Nothing
    /\ value \in {Promise!Nothing, Promise!Error, Promise!Outputs([i \in 1..inputs |-> i])}

\* The call has not begun.
LEMMA PhasesStart == BatchInit => Phases /\ ReturnedValue
  BY BatchAssumption DEF BatchInit, Phases, ReturnedValue

\* A worker leaves only a closed and empty channel, and the caller returns only
\* when none of them is at work.
LEMMA PhasesKept ==
    ASSUME BatchInv, Phases, [BatchNext]_batchVars
    PROVE  Phases'
<1>1. CASE UNCHANGED batchVars
  BY <1>1 DEF batchVars, Phases
<1>2. CASE ReturnEmpty \/ PrewarmRefuses \/ SpawnWorkers
  BY <1>2 DEF ReturnEmpty, PrewarmRefuses, SpawnWorkers, Calls, Phases, BatchInv, Places, Busy
<1>3. CASE Feed
  BY <1>3 DEF Feed, Phases, BatchInv, Places
<1>4. CASE CloseWork
  BY <1>4 DEF CloseWork, Calls, Phases, BatchInv, Places
<1>5. CASE Collect
  BY <1>5 DEF Collect, Calls, Phases, BatchInv, Places
<1>6. ASSUME NEW w \in BatchWorkers, LockReceiver(w) \/ RunJob(w) \/ Report(w) PROVE Phases'
  BY <1>6 DEF LockReceiver, RunJob, Report, Works, Phases, BatchInv, Places
<1>7. ASSUME NEW w \in BatchWorkers, Receive(w) PROVE Phases'
  BY <1>7 DEF Receive, Works, Phases, BatchInv, Places
<1>8. ASSUME NEW w \in BatchWorkers, LeaveWork(w) PROVE Phases'
  BY <1>8 DEF LeaveWork, Works, Phases, BatchInv, Places, Busy
<1> QED
  BY <1>1, <1>2, <1>3, <1>4, <1>5, <1>6, <1>7, <1>8 DEF BatchNext, BatchContinues, WorkerContinues

\* When all workers have left, every input has its outcome among the results.
LEMMA AllReported ==
    ASSUME BatchInv, Phases, Collect
    PROVE  /\ ToSet(results) = 1..inputs /\ Len(results) = inputs
           /\ Sorted(results) = [i \in 1..inputs |-> i]
           /\ \A i \in 1..inputs : outcomes[i] # "no"
<1>1. /\ fed = inputs /\ inputs \in Nat /\ results \in Seq(1..inputs) /\ IsInjective(results)
      /\ \A w \in BatchWorkers : at[w] = "left" /\ job[w] = 0
  BY DEF Collect, Calls, Phases, BatchInv, Places, Busy, Once
<1>2. ToSet(work) = {}
  <2>1. work = <<>>
    BY <1>1, BatchAssumption DEF Phases
  <2> QED BY <2>1 DEF ToSet
<1>3. ToSet(results) = 1..inputs
  <2>1. ToSet(results) \subseteq 1..inputs
    BY <1>1 DEF ToSet
  <2>2. \A i \in 1..inputs : i \in ToSet(results)
    BY <1>1, <1>2 DEF BatchInv, Somewhere, InHand
  <2> QED BY <2>1, <2>2
<1>4. Len(results) = inputs /\ Sorted(results) = [i \in 1..inputs |-> i]
  BY <1>1, <1>3, SortedOutputs
<1>5. \A i \in 1..inputs : outcomes[i] # "no"
  BY <1>3 DEF BatchInv, RanOnce
<1> QED BY <1>3, <1>4, <1>5

\* Each step of execute_all is one of its promise, or is not seen there.
LEMMA PromiseStep ==
    ASSUME BatchInv, Phases, ReturnedValue, [BatchNext]_batchVars
    PROVE  [Promise!PromiseNext]_(Promise!promiseVars) /\ ReturnedValue'
<1> USE DEF Promise!promiseVars
<1>1. CASE UNCHANGED <<inputs, caller, outcomes, value>>
  BY <1>1 DEF ReturnedValue
<1>2. CASE UNCHANGED <<inputs, outcomes, value>> /\ caller # "returned"
  BY <1>2 DEF ReturnedValue
<1>3. CASE ReturnEmpty
  <2>1. /\ inputs = 0 /\ caller = "idle" /\ value' = Promise!Outputs(<<>>)
        /\ caller' = "returned" /\ UNCHANGED <<inputs, outcomes>>
    BY <1>3 DEF ReturnEmpty, Calls
  <2>2. DOMAIN outcomes = {} /\ 1..inputs = {} /\ value = Promise!Nothing
    BY <2>1 DEF BatchInv, Places, ReturnedValue
  <2>3. <<>> = [i \in {} |-> i]
    OBVIOUS
  <2>4. Promise!Answer
    BY <2>1, <2>2, <2>3 DEF Promise!Answer
  <2>5. ReturnedValue'
    BY <2>1, <2>2, <2>3 DEF ReturnedValue
  <2> QED BY <2>4, <2>5 DEF Promise!PromiseNext
<1>4. CASE PrewarmRefuses
  <2>1. /\ caller = "idle" /\ value' = Promise!Error
        /\ caller' = "returned" /\ UNCHANGED <<inputs, outcomes>>
    BY <1>4 DEF PrewarmRefuses, Calls
  <2>2. fed = 0 /\ ToSet(results) = {}
    <3>1. fed = 0 /\ results \in Seq(1..0)
      BY <2>1 DEF Phases, BatchInv, Places
    <3> QED BY <3>1 DEF ToSet
  <2>3. \A i \in 1..inputs : outcomes[i] = "no"
    BY <2>1, <2>2 DEF BatchInv, Busy, RanOnce
  <2>4. Promise!Refuse
    BY <2>1, <2>3 DEF Promise!Refuse, BatchInv, Places, ReturnedValue
  <2>5. ReturnedValue'
    BY <2>1 DEF ReturnedValue
  <2> QED BY <2>4, <2>5 DEF Promise!PromiseNext
<1>5. CASE Collect
  <2>1. /\ caller = "joining" /\ caller' = "returned" /\ UNCHANGED <<inputs, outcomes>>
        /\ value' = IF Len(results) < inputs \/ \E i \in ToSet(results) : outcomes[i] = "error"
                      THEN Promise!Error ELSE Promise!Outputs(Sorted(results))
    BY <1>5 DEF Collect, Calls
  <2>2. DOMAIN outcomes = 1..inputs /\ inputs \in Nat /\ value = Promise!Nothing
    BY <2>1 DEF BatchInv, Places, ReturnedValue
  <2>3. value' = IF \E i \in 1..inputs : outcomes[i] = "error"
                   THEN Promise!Error ELSE Promise!Outputs([i \in 1..inputs |-> i])
    BY <1>5, <2>1, <2>2, AllReported
  <2>4. Promise!Answer
    BY <1>5, <2>1, <2>2, <2>3, AllReported DEF Promise!Answer
  <2>5. ReturnedValue'
    BY <2>1, <2>3 DEF ReturnedValue
  <2> QED BY <2>4, <2>5 DEF Promise!PromiseNext
<1>6. ASSUME NEW w \in BatchWorkers, RunJob(w)
      PROVE  [Promise!PromiseNext]_(Promise!promiseVars) /\ ReturnedValue'
  <2>1. /\ at[w] = "running" /\ UNCHANGED <<inputs, caller, value>>
        /\ \E o \in {"ok", "error"} : outcomes' = [outcomes EXCEPT ![job[w]] = o]
    BY <1>6 DEF RunJob, Works
  <2>2. caller # "returned" /\ value = Promise!Nothing
    BY <2>1 DEF Phases, ReturnedValue
  <2>3. job[w] \in 1..inputs /\ outcomes[job[w]] = "no" /\ DOMAIN outcomes = 1..inputs
    BY <2>1 DEF BatchInv, Places, Busy, Once, RanOnce
  <2>4. Promise!RunTask(job[w])
    BY <2>1, <2>2, <2>3 DEF Promise!RunTask
  <2> QED BY <2>1, <2>3, <2>4 DEF Promise!PromiseNext, ReturnedValue
<1>7. CASE SpawnWorkers \/ Feed \/ CloseWork
  BY <1>2, <1>7 DEF SpawnWorkers, Feed, CloseWork, Calls
<1>8. ASSUME NEW w \in BatchWorkers, LockReceiver(w) \/ Receive(w) \/ LeaveWork(w) \/ Report(w)
      PROVE  [Promise!PromiseNext]_(Promise!promiseVars) /\ ReturnedValue'
  BY <1>1, <1>8 DEF LockReceiver, Receive, LeaveWork, Report
<1> QED
  BY <1>1, <1>3, <1>4, <1>5, <1>6, <1>7, <1>8
  DEF BatchNext, BatchContinues, WorkerContinues, batchVars

\* The three parts hold together.
LEMMA BatchFullInvariant == BatchSpec => [](BatchInv /\ Phases /\ ReturnedValue)
<1>1. Phases /\ ReturnedValue /\ BatchInv /\ BatchInv' /\ [BatchNext]_batchVars => Phases' /\ ReturnedValue'
  BY PhasesKept, PromiseStep
<1> QED BY <1>1, PhasesStart, BatchInvariant, PTL DEF BatchSpec

\* execute_all implements its promise: one run of the task for each input, and
\* the outputs in the order of the inputs (api.rs), for any workers and any
\* capacity of the channel.
THEOREM BatchKeepsPromise == BatchSpec => KeepsPromise
<1>1. BatchInit => Promise!PromiseInit
  BY DEF BatchInit, Promise!PromiseInit
<1>2. BatchInv /\ Phases /\ ReturnedValue /\ [BatchNext]_batchVars
        => [Promise!PromiseNext]_(Promise!promiseVars)
  BY PromiseStep
<1> QED BY <1>1, <1>2, BatchFullInvariant, PTL DEF BatchSpec, KeepsPromise, Promise!BatchPromiseSpec

\* Every variable of execute_all (api.rs) keeps to its type.
THEOREM BatchTypeCorrect == BatchSpec => []BatchTypeOK
<1>1. BatchInv /\ Phases /\ ReturnedValue => BatchTypeOK
  <2> SUFFICES ASSUME BatchInv, Phases, ReturnedValue PROVE BatchTypeOK
    OBVIOUS
  <2>1. Seq(1..fed) \subseteq Seq(1..inputs) /\ 0..fed \subseteq 0..inputs
    BY DEF BatchInv, Places
  <2>2. value \in [is : {"none", "error", "ok"}, outputs : Seq(1..inputs)]
    <3>1. <<>> \in Seq(1..inputs) /\ [i \in 1..inputs |-> i] \in Seq(1..inputs)
      BY DEF BatchInv, Places
    <3>2. \A k \in {"none", "error", "ok"}, s \in Seq(1..inputs) :
            [is |-> k, outputs |-> s] \in [is : {"none", "error", "ok"}, outputs : Seq(1..inputs)]
      OBVIOUS
    <3> DEFINE D == [is : {"none", "error", "ok"}, outputs : Seq(1..inputs)]
    <3>3. /\ Promise!Nothing \in D /\ Promise!Error \in D
          /\ Promise!Outputs([i \in 1..inputs |-> i]) \in D
      BY <3>1, <3>2 DEF Promise!Nothing, Promise!Error, Promise!Outputs
    <3> QED BY <3>3 DEF ReturnedValue
  <2> QED BY <2>1, <2>2 DEF BatchInv, Places, Phases, BatchTypeOK
<1> QED BY <1>1, BatchFullInvariant, PTL

-----------------------------------------------------------------------------
(* The three parts together *)

\* A behaviour of the instance that TLC explores is one of each part: a step of
\* one leaves the others alone.
LEMMA PartsBehave == MCSpec => CacheSpec /\ FleetSpec /\ BatchSpec
<1>1. MCInit => CacheInit /\ FleetInit /\ BatchInit
  BY DEF MCInit
<1>2. [MCNext]_<<subject, cacheVars, fleetVars, batchVars>>
        => [CacheNext]_cacheVars /\ [FleetNext]_fleetVars /\ [BatchNext]_batchVars
  BY DEF MCNext
<1> QED BY <1>1, <1>2, PTL DEF MCSpec, CacheSpec, FleetSpec, BatchSpec

\* Every variable of the orchestrator's caches, fleets and batches keeps to its
\* type.
THEOREM OrchestratorTypesCorrect == MCSpec => []TypesOK
<1>1. CacheTypeOK /\ FleetTypeOK /\ BatchTypeOK => TypesOK
  BY DEF TypesOK
<1> QED BY <1>1, PartsBehave, CacheTypeCorrect, FleetTypeCorrect, BatchTypeCorrect, PTL
==============================================================================
