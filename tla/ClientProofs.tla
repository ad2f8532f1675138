---------------------------- MODULE ClientProofs -----------------------------
(***************************************************************************)
(* Proofs about SnapshotLineage, Singleflight, LspShutdown and             *)
(* MsgpackWorker, and about the four together.  They hold for any updaters *)
(* and projects and any number of updates, and for any callers, clones,    *)
(* requests and closes, finitely many or not, and any room in the channel. *)
(*                                                                         *)
(* SnapshotLineage.  The gate is the argument for what updates see of each *)
(* other: whoever has read the head holds the gate until it has replaced it. *)
(* The leases are the argument for what the server keeps: only a snapshot  *)
(* that nobody names any more is queued, and one that was just made is named *)
(* by nobody else.                                                         *)
(*                                                                         *)
(* Singleflight.  Only the latest flight can be in the air, since the cell *)
(* is InFlight from the moment a leader is chosen until it has an outcome; *)
(* the leader sends it to those that joined its own flight, which a caller *)
(* that joins later has not.                                               *)
(*                                                                         *)
(* LspShutdown.  The phase is the argument: whoever attempts found it Open *)
(* and has set it to Closing, so that nobody else attempts, and it only    *)
(* becomes Closed with the verdict and the end of the attempt.  The child  *)
(* is accounted for along the control points of the attempt.               *)
(*                                                                         *)
(* MsgpackWorker.  A request that waits is in the channel or served until  *)
(* its answer is sent or its end of the reply channel dropped, and a close *)
(* passes the reaping of the child and the end of the thread in order.     *)
(***************************************************************************)
EXTENDS MCClient, FiniteSetTheorems, SequenceTheorems, TLAPS

-----------------------------------------------------------------------------
(* SnapshotLineage: the invariant *)

\* Updates past the gate have it, and the head with it.
Gated ==
    /\ \A u \in Updaters : task[u] \in {"granted", "request", "answered", "leaving"} => gate = u
    /\ \A u \in Updaters : base[u] # 0 => task[u] \in {"request", "answered", "leaving"}
    /\ \A u \in Updaters : task[u] \in {"request", "answered"} /\ ~closing => base[u] = head

\* A snapshot with an owner has been committed, and nobody has let it go.
Leased == \A s \in Made :
    Owned(s) => s \in DOMAIN listed /\ s \notin queued /\ s \in alive \cup rawReleased

\* Raw releases name snapshots that were given out, and never the head.
Raw ==
    /\ queued \cup rawReleased \subseteq DOMAIN listed
    /\ head \notin rawReleased
    /\ \A u \in Updaters : task[u] = "raw" => delta[u].snapshot \in (DOMAIN listed) \ {head}

\* An answer on its way names a snapshot that nobody has seen, and tells how it
\* differs from its base.
Answered == \A u \in Updaters : task[u] = "answered" =>
    /\ delta[u].snapshot \in alive \ DOMAIN listed
    /\ content[delta[u].snapshot] = Merge(Revisions(base[u]), delta[u])
    /\ \A p \in ProjectIds : p \in delta[u].removed => delta[u].updated[p] = 0

\* The lists of the client are those of the server.
Listed ==
    /\ \A s \in DOMAIN listed : listed[s] = content[s]
    /\ ~closing => applied = Revisions(head)

LineageInv == LineageTypeOK /\ Gated /\ Leased /\ Raw /\ Answered /\ Listed /\ NothingLeaks

-----------------------------------------------------------------------------
(* Steps *)

LEMMA ZeroNotMade == LineageTypeOK => 0 \notin Made
BY DEF LineageTypeOK, Made

LEMMA InitHolds == LineageInit => LineageInv
<1> SUFFICES ASSUME LineageInit PROVE LineageInv
  OBVIOUS
<1>1. Made = {} /\ DOMAIN listed = {}
  BY DEF LineageInit, Made
<1>2. LineageTypeOK
  BY <1>1 DEF LineageInit, LineageTypeOK, Lists, Tasks, Empty, NoDelta
<1> QED BY <1>1, <1>2
        DEF LineageInit, LineageInv, Gated, Leased, Raw, Answered, Listed, NothingLeaks, Revisions

\* The steps of block_on and the gate outside it touch no snapshot.
LEMMA GateSteps ==
    ASSUME LineageInv, NEW u \in Updaters,
           BeginUpdate(u) \/ ClearNotified(u) \/ Poll(u) \/ Park(u) \/ Wake(u)
    PROVE  LineageInv'
<1>t. task \in [Updaters -> Tasks]
  BY DEF LineageInv, LineageTypeOK
<1>0. UNCHANGED <<head, listed, base, delta, managed, content, alive, queued, closing, rawReleased, applied>>
  BY DEF BeginUpdate, ClearNotified, Poll, Park, Wake, server
<1>1. task[u] \notin {"granted", "request", "answered", "leaving", "raw"}
  BY DEF BeginUpdate, ClearNotified, Poll, Park, Wake, Steps
<1>2. \/ gate' = gate /\ \E to \in {"clear", "poll", "park", "idle"} : task' = [task EXCEPT ![u] = to]
      \/ gate = NoUpdater /\ gate' = u /\ task' = [task EXCEPT ![u] = "granted"]
  BY DEF BeginUpdate, ClearNotified, Poll, Park, Wake, Steps, gates
<1>3. \A v \in Updaters : v # u => task'[v] = task[v]
  BY <1>t, <1>2
<1>4. task'[u] \in {"clear", "poll", "park", "idle", "granted"} /\ task' \in [Updaters -> Tasks]
  BY <1>t, <1>2 DEF Tasks
<1>5. waiters' \subseteq Updaters /\ gate' \in Updaters \cup {NoUpdater}
  BY <1>2 DEF LineageInv, LineageTypeOK, BeginUpdate, ClearNotified, Poll, Park, Wake, gates
<1>6. LineageTypeOK'
  BY <1>0, <1>4, <1>5 DEF LineageInv, LineageTypeOK, Made, Lists
<1>7. Gated'
  BY <1>0, <1>1, <1>2, <1>3, <1>4, LineageAssumption DEF LineageInv, Gated
<1>8. Leased' /\ NothingLeaks'
  BY <1>0, <1>1, <1>3, <1>4 DEF LineageInv, Leased, Owned, NothingLeaks, Made
<1>9. Raw' /\ Answered' /\ Listed'
  BY <1>0, <1>1, <1>3, <1>4 DEF LineageInv, Raw, Answered, Listed, Revisions
<1> QED BY <1>6, <1>7, <1>8, <1>9 DEF LineageInv

LEMMA ReadBaseStep ==
    ASSUME LineageInv, NEW u \in Updaters, ReadBase(u)
    PROVE  LineageInv'
<1>0. /\ task[u] = "granted" /\ task' = [task EXCEPT ![u] = "request"]
      /\ base' = [base EXCEPT ![u] = head]
      /\ UNCHANGED <<head, listed, gate, waiters, notified, waking, delta, managed, content, alive,
                     queued, closing, rawReleased, applied>>
  BY DEF ReadBase, Steps, gates, server
<1>t. task \in [Updaters -> Tasks] /\ base \in [Updaters -> Made \cup {0}]
  BY DEF LineageInv, LineageTypeOK
<1>1. LineageTypeOK'
  BY <1>0 DEF LineageInv, LineageTypeOK, Made, Lists, Tasks
<1>2. Gated'
  BY <1>0, <1>t DEF LineageInv, Gated
<1>3. \A s \in Made : Owned(s)' <=> Owned(s)
  BY <1>0, <1>t, ZeroNotMade DEF Owned, Gated, LineageInv
<1>4. Leased' /\ NothingLeaks'
  BY <1>0, <1>t, <1>3 DEF LineageInv, LineageTypeOK, Leased, NothingLeaks, Made
<1>5. Raw' /\ Answered' /\ Listed'
  BY <1>0, <1>t DEF LineageInv, Raw, Answered, Listed, Revisions
<1> QED BY <1>1, <1>2, <1>4, <1>5 DEF LineageInv

\* The server makes a snapshot: nobody has heard of it.
LEMMA AnswerStep ==
    ASSUME LineageInv, NEW u \in Updaters, Answer(u)
    PROVE  LineageInv'
<1> DEFINE new == Len(content) + 1
<1>0. PICK p \in ProjectIds, r \in {0, new} :
        /\ base[u] \in alive \cup {0}
        /\ task[u] = "request" /\ task' = [task EXCEPT ![u] = "answered"]
        /\ content' = Append(content, [Revisions(base[u]) EXCEPT ![p] = r])
        /\ delta' = [delta EXCEPT ![u] = [snapshot |-> new, updated |-> [Empty EXCEPT ![p] = r],
                                         removed |-> IF r = 0 THEN {p} ELSE {}]]
        /\ alive' = alive \cup {new}
        /\ UNCHANGED <<head, listed, gates, base, managed, begun, queued, closing, rawReleased, applied>>
  BY Zenon DEF Answer, Steps
<1>t. /\ task \in [Updaters -> Tasks] /\ base \in [Updaters -> Made \cup {0}]
      /\ content \in Seq(Lists) /\ delta \in [Updaters -> [snapshot : Made \cup {0}, updated : Lists,
                                                          removed : SUBSET ProjectIds]]
      /\ alive \subseteq Made /\ DOMAIN listed \subseteq Made
  BY DEF LineageInv, LineageTypeOK
<1> DEFINE list == [Revisions(base[u]) EXCEPT ![p] = r]
<1>1. Revisions(base[u]) \in Lists
  BY <1>t DEF Revisions, Empty, Lists, Made
<1>2. list \in [ProjectIds -> Made \cup {0, new}]
  BY <1>1 DEF Lists
<1>3. /\ Made' = Made \cup {new} /\ new \notin Made /\ new # 0
      /\ content'[new] = list /\ \A s \in Made : content'[s] = content[s]
  <2>1. content \in Seq(Lists \cup {list})
    BY <1>t
  <2>2. content' = Append(content, list)
    BY <1>0
  <2> HIDE DEF list
  <2> QED BY <2>1, <2>2, AppendProperties DEF Made
<1>4. LineageTypeOK'
  <2>1. Lists' = [ProjectIds -> Made \cup {0, new}] /\ Lists \subseteq Lists'
    BY <1>3 DEF Lists
  <2>2. content' \in Seq(Lists')
    <3>1. content \in Seq(Lists') /\ list \in Lists'
      BY <1>t, <1>2, <2>1
    <3> HIDE DEF list
    <3> QED BY <3>1, <1>0, AppendProperties DEF list
  <2>3. delta' \in [Updaters -> [snapshot : Made' \cup {0}, updated : Lists', removed : SUBSET ProjectIds]]
    <3>1. [Empty EXCEPT ![p] = r] \in Lists'
      BY <2>1 DEF Empty
    <3>2. delta \in [Updaters -> [snapshot : Made' \cup {0}, updated : Lists', removed : SUBSET ProjectIds]]
      BY <1>t, <1>3, <2>1
    <3> QED BY <1>0, <1>3, <3>1, <3>2
  <2>4. applied' \in Lists' /\ listed' \in [DOMAIN listed' -> Lists']
    BY <1>0, <2>1 DEF LineageInv, LineageTypeOK
  <2>5. rawReleased' \cap alive' = {}
    BY <1>0, <1>3, <1>t DEF LineageInv, LineageTypeOK, Raw
  <2>6. task' \in [Updaters -> Tasks]
    BY <1>0, <1>t DEF Tasks
  <2> QED BY <1>0, <1>3, <2>2, <2>3, <2>4, <2>5, <2>6 DEF LineageInv, LineageTypeOK, gates
<1>5. Gated'
  BY <1>0, <1>t DEF LineageInv, Gated, gates
<1>6. ASSUME NEW s PROVE Owned(s)' <=> Owned(s)
  BY <1>0 DEF Owned
<1>7. ~Owned(new)
  BY <1>3, <1>t DEF Owned, LineageInv, LineageTypeOK
<1>8. Leased' /\ NothingLeaks'
  BY <1>0, <1>3, <1>t, <1>6, <1>7 DEF LineageInv, Leased, NothingLeaks
<1>9. Raw'
  BY <1>0, <1>t DEF LineageInv, Raw
<1>10. Answered'
  <2>1. content'[new] = Merge(Revisions(base[u]), delta'[u])
    <3>1. list = [q \in ProjectIds |-> IF q = p THEN r ELSE Revisions(base[u])[q]]
      BY <1>1 DEF Lists
    <3>2. \A q \in ProjectIds : delta'[u].updated[q] = IF q = p THEN r ELSE 0
      BY <1>0, <1>t DEF Empty
    <3>3. delta'[u].removed = IF r = 0 THEN {p} ELSE {}
      BY <1>0, <1>t
    <3> HIDE DEF list
    <3> QED BY <3>1, <3>2, <3>3, <1>3 DEF Merge
  <2>2. \A q \in ProjectIds : q \in delta'[u].removed => delta'[u].updated[q] = 0
    BY <1>0, <1>t DEF Empty
  <2>3. \A v \in Updaters : v # u => delta'[v] = delta[v] /\ task'[v] = task[v] /\ task'[v] # "answered"
    BY <1>0, <1>t DEF LineageInv, Gated
  <2>4. delta'[u].snapshot = new /\ Revisions(base[u])' = Revisions(base[u])
    BY <1>0, <1>3, <1>t DEF Revisions
  <2> QED BY <2>1, <2>2, <2>3, <2>4, <1>0, <1>3, <1>t DEF Answered
<1>11. Listed'
  BY <1>0, <1>3, <1>t DEF LineageInv, LineageTypeOK, Listed, Revisions
<1> QED BY <1>4, <1>5, <1>8, <1>9, <1>10, <1>11 DEF LineageInv

\* Letting go of leases queues those that nobody has any more.
LEMMA Dropped ==
    ASSUME LineageInv, UNCHANGED <<content, alive, rawReleased, listed>>, DropLeases,
           \A s \in Made : Owned(s)' => Owned(s),
           \A v \in Updaters : task[v] = "answered" =>
              task'[v] = "answered" /\ delta'[v].snapshot = delta[v].snapshot
    PROVE  Leased' /\ NothingLeaks' /\ queued' \subseteq DOMAIN listed
<1>1. Made' = Made /\ alive \subseteq Made
  BY DEF Made, LineageInv, LineageTypeOK
<1>2. \A s \in Made : Owned(s) => s \in DOMAIN listed /\ s \notin queued /\ s \in alive \cup rawReleased
  BY DEF LineageInv, Leased
<1>3. queued \subseteq DOMAIN listed
  BY DEF LineageInv, Raw
<1>4. \A s \in Made : s \in queued' <=> s \in queued \/ (Owned(s) /\ ~Owned(s)')
  BY DEF DropLeases
<1>5. Leased'
  BY <1>1, <1>2, <1>4 DEF Leased
<1>6. NothingLeaks'
  BY <1>1, <1>4 DEF LineageInv, NothingLeaks
<1>7. queued' \subseteq DOMAIN listed
  BY <1>2, <1>3 DEF DropLeases
<1> QED BY <1>5, <1>6, <1>7

\* An update that ends, well or not, lets go of its base and of the gate.
LEMMA EndStep ==
    ASSUME LineageInv, NEW u \in Updaters, AnswerFails(u) \/ Leave(u)
    PROVE  LineageInv'
<1>t. /\ task \in [Updaters -> Tasks] /\ base \in [Updaters -> Made \cup {0}]
      /\ delta \in [Updaters -> [snapshot : Made \cup {0}, updated : Lists, removed : SUBSET ProjectIds]]
  BY DEF LineageInv, LineageTypeOK
<1>0. /\ task[u] \in {"request", "leaving"} /\ task' = [task EXCEPT ![u] = "waking"]
      /\ base' = [base EXCEPT ![u] = 0] /\ gate' = NoUpdater /\ waiters' = {}
      /\ delta' \in {delta, [delta EXCEPT ![u] = NoDelta]}
      /\ UNCHANGED <<head, listed, managed, content, alive, closing, rawReleased, applied>>
      /\ DropLeases
  BY DEF AnswerFails, Leave, Steps, OpenGate, server
<1>1. /\ task'[u] = "waking" /\ base'[u] = 0
      /\ \A v \in Updaters : v # u =>
            task'[v] = task[v] /\ base'[v] = base[v] /\ delta'[v] = delta[v]
  BY <1>0, <1>t
<1>2. NoDelta \in [snapshot : Made \cup {0}, updated : Lists, removed : SUBSET ProjectIds]
  BY DEF NoDelta, Empty, Lists
<1>3. \A s \in Made : Owned(s)' => Owned(s)
  BY <1>0, <1>1, ZeroNotMade DEF Owned, LineageInv
<1>4. Leased' /\ NothingLeaks' /\ queued' \subseteq DOMAIN listed
  BY <1>0, <1>1, <1>3, Dropped
<1>5. LineageTypeOK'
  <2>1. Made' = Made /\ Lists' = Lists
    BY <1>0 DEF Made, Lists
  <2>2. task' \in [Updaters -> Tasks] /\ base' \in [Updaters -> Made \cup {0}]
    BY <1>0, <1>t DEF Tasks
  <2>3. delta' \in [Updaters -> [snapshot : Made \cup {0}, updated : Lists, removed : SUBSET ProjectIds]]
    BY <1>0, <1>2, <1>t
  <2>4. queued' \subseteq Made
    BY <1>4 DEF LineageInv, LineageTypeOK
  <2> QED BY <1>0, <2>1, <2>2, <2>3, <2>4 DEF LineageInv, LineageTypeOK
<1>6. Gated'
  BY <1>0, <1>1 DEF LineageInv, Gated
<1>7. Raw' /\ Answered' /\ Listed'
  BY <1>0, <1>1, <1>4 DEF LineageInv, Raw, Answered, Listed, Revisions
<1> QED BY <1>4, <1>5, <1>6, <1>7 DEF LineageInv

\* A snapshot is dropped or released; the client is closed.
LEMMA LetGoStep ==
    ASSUME LineageInv, (\E u \in Updaters : LetGo(u)) \/ ClearLineage
    PROVE  LineageInv'
<1>t. /\ managed \in [Updaters -> Made \cup {0}]
      /\ head' \in {head, 0} /\ applied' \in {applied, Empty}
      /\ UNCHANGED <<listed, gates, task, base, delta, begun, content, alive, rawReleased>>
      /\ managed' \in [Updaters -> Made \cup {0}]
      /\ \A v \in Updaters : managed'[v] \in {managed[v], 0}
      /\ DropLeases
      /\ UNCHANGED <<head, applied, closing>> \/ closing'
  BY DEF LineageInv, LineageTypeOK, LetGo, ClearLineage, server
<1>1. \A s \in Made : Owned(s)' => Owned(s)
  BY <1>t, ZeroNotMade DEF Owned, LineageInv
<1>2. Leased' /\ NothingLeaks' /\ queued' \subseteq DOMAIN listed
  BY <1>t, <1>1, Dropped
<1>3. LineageTypeOK'
  BY <1>t, <1>2 DEF LineageInv, LineageTypeOK, Made, Lists, Empty, gates
<1>4. Gated'
  BY <1>t DEF LineageInv, Gated, gates
<1>5. Raw'
  BY <1>t, <1>2, ZeroNotMade DEF LineageInv, LineageTypeOK, Raw
<1>6. Answered' /\ Listed'
  BY <1>t DEF LineageInv, Answered, Listed, Revisions
<1> QED BY <1>2, <1>3, <1>4, <1>5, <1>6 DEF LineageInv

LEMMA ReleaseStep ==
    ASSUME LineageInv, NEW u \in Updaters, Release(u)
    PROVE  LineageInv'
<1>0. PICK s \in Made :
        /\ managed[u] = s /\ managed' = [managed EXCEPT ![u] = 0] /\ alive' = alive \ {s}
        /\ UNCHANGED <<head, listed, gates, task, base, delta, begun, content, queued, closing,
                       rawReleased, applied>>
        /\ ~Owned(s)'
  BY Zenon DEF Release
<1>1. managed \in [Updaters -> Made \cup {0}] /\ managed' \in [Updaters -> Made \cup {0}]
  BY <1>0 DEF LineageInv, LineageTypeOK
<1>2. \A x \in Made : x # s => (Owned(x)' <=> Owned(x))
  BY <1>0, <1>1, ZeroNotMade DEF Owned, LineageInv
<1>3. Made' = Made /\ Owned(s) /\ alive \subseteq Made
  BY <1>0 DEF Made, Owned, LineageInv, LineageTypeOK
<1>4. Leased' /\ NothingLeaks'
  BY <1>0, <1>2, <1>3 DEF LineageInv, Leased, NothingLeaks
<1>5. LineageTypeOK'
  BY <1>0, <1>1, <1>3 DEF LineageInv, LineageTypeOK, Lists, gates
<1>6. Gated' /\ Raw' /\ Listed'
  BY <1>0 DEF LineageInv, Gated, Raw, Listed, Revisions, gates
<1>7. s \in DOMAIN listed
  BY <1>0, <1>3 DEF LineageInv, Leased
<1>8. Answered'
  BY <1>0, <1>7 DEF LineageInv, Answered, Revisions
<1> QED BY <1>4, <1>5, <1>6, <1>8 DEF LineageInv

LEMMA QueueStep ==
    ASSUME LineageInv, NEW s, QueueReleases(s)
    PROVE  LineageInv'
<1>0. /\ s \in queued /\ queued' = queued \ {s} /\ alive' = alive \ {s}
      /\ UNCHANGED <<head, listed, gates, task, base, delta, managed, begun, content, closing,
                     rawReleased, applied>>
  BY DEF QueueReleases
<1>1. s \in DOMAIN listed /\ s \in Made /\ ~Owned(s) /\ Made' = Made /\ alive \subseteq Made
  BY <1>0 DEF LineageInv, LineageTypeOK, Raw, Leased, Made
<1>2. \A x \in Made : Owned(x)' <=> Owned(x)
  BY <1>0 DEF Owned
<1>3. Leased' /\ NothingLeaks'
  BY <1>0, <1>1, <1>2 DEF LineageInv, Leased, NothingLeaks
<1>4. LineageTypeOK'
  BY <1>0, <1>1 DEF LineageInv, LineageTypeOK, Lists, gates
<1>5. Gated' /\ Raw' /\ Listed' /\ Answered'
  BY <1>0, <1>1 DEF LineageInv, Gated, Raw, Listed, Answered, Revisions, gates
<1> QED BY <1>3, <1>4, <1>5 DEF LineageInv

LEMMA RawStep ==
    ASSUME LineageInv, NEW u \in Updaters,
           (\E s \in 1..MaxSnapshots : RawTest(u, s)) \/ RawSend(u)
    PROVE  LineageInv'
<1>t. /\ task \in [Updaters -> Tasks] /\ DOMAIN listed \subseteq Made
      /\ delta \in [Updaters -> [snapshot : Made \cup {0}, updated : Lists, removed : SUBSET ProjectIds]]
  BY DEF LineageInv, LineageTypeOK
<1>1. CASE \E s \in 1..MaxSnapshots : RawTest(u, s)
  <2>0. PICK s \in (DOMAIN listed) \ {head} :
          /\ task[u] = "idle" /\ task' = [task EXCEPT ![u] = "raw"]
          /\ delta' = [delta EXCEPT ![u].snapshot = s]
          /\ UNCHANGED <<head, listed, gates, base, managed, begun, content, alive, queued, closing,
                         rawReleased, applied>>
    BY <1>1 DEF RawTest, Steps, server
  <2>1. /\ task'[u] = "raw" /\ delta'[u].snapshot = s /\ Made' = Made
        /\ \A v \in Updaters : v # u => task'[v] = task[v] /\ delta'[v] = delta[v]
    BY <2>0, <1>t DEF Made
  <2>2. LineageTypeOK'
    <3>1. task' \in [Updaters -> Tasks]
      BY <2>0, <1>t DEF Tasks
    <3>2. delta' \in [Updaters -> [snapshot : Made \cup {0}, updated : Lists, removed : SUBSET ProjectIds]]
      <4>1. [delta[u] EXCEPT !.snapshot = s]
              \in [snapshot : Made \cup {0}, updated : Lists, removed : SUBSET ProjectIds]
        BY <1>t
      <4> QED BY <2>0, <1>t, <4>1
    <3> QED BY <2>0, <2>1, <3>1, <3>2 DEF LineageInv, LineageTypeOK, Lists, gates
  <2>3. Gated' /\ Raw' /\ Answered' /\ Listed'
    BY <2>0, <2>1 DEF LineageInv, Gated, Raw, Answered, Listed, Revisions, gates
  <2>4. Leased' /\ NothingLeaks'
    BY <2>0, <2>1 DEF LineageInv, Leased, Owned, NothingLeaks
  <2> QED BY <2>2, <2>3, <2>4 DEF LineageInv
<1>2. CASE RawSend(u)
  <2>0. /\ task[u] = "raw" /\ task' = [task EXCEPT ![u] = "idle"]
        /\ alive' = alive \ {delta[u].snapshot} /\ rawReleased' = rawReleased \cup {delta[u].snapshot}
        /\ delta' = [delta EXCEPT ![u] = NoDelta]
        /\ UNCHANGED <<head, listed, gates, base, managed, begun, content, queued, closing, applied>>
    BY <1>2 DEF RawSend, Steps
  <2>1. /\ task'[u] = "idle" /\ Made' = Made
        /\ \A v \in Updaters : v # u => task'[v] = task[v] /\ delta'[v] = delta[v]
    BY <2>0, <1>t DEF Made
  <2>2. delta[u].snapshot \in (DOMAIN listed) \ {head}
    BY <2>0 DEF LineageInv, Raw
  <2>3. NoDelta \in [snapshot : Made \cup {0}, updated : Lists, removed : SUBSET ProjectIds]
    BY DEF NoDelta, Empty, Lists
  <2>4. LineageTypeOK'
    BY <2>0, <2>1, <2>2, <2>3, <1>t DEF LineageInv, LineageTypeOK, Tasks, Lists, gates
  <2>5. Gated' /\ Raw' /\ Answered' /\ Listed'
    BY <2>0, <2>1, <2>2 DEF LineageInv, Gated, Raw, Answered, Listed, Revisions, gates
  <2>6. Leased' /\ NothingLeaks'
    BY <2>0, <2>1 DEF LineageInv, Leased, Owned, NothingLeaks
  <2> QED BY <2>4, <2>5, <2>6 DEF LineageInv
<1> QED BY <1>1, <1>2

\* The answer becomes the head, and the list of the base what the answer makes
\* of it.
LEMMA CommitStep ==
    ASSUME LineageInv, NEW u \in Updaters, Commit(u)
    PROVE  LineageInv'
<1> DEFINE s == delta[u].snapshot
           known == IF base[u] = 0 THEN Empty ELSE listed[base[u]]
           list == Merge(known, delta[u])
<1>0. /\ task[u] = "answered" /\ task' = [task EXCEPT ![u] = "leaving"]
      /\ listed' = [x \in (DOMAIN listed) \cup {s} |-> IF x = s THEN list ELSE listed[x]]
      /\ head' = s /\ managed' = [managed EXCEPT ![u] = s]
      /\ applied' = [p \in ProjectIds |->
                       CASE p \in delta[u].removed -> 0
                         [] delta[u].updated[p] = 0 /\ p \notin delta[u].removed -> applied[p]
                         [] OTHER -> delta[u].updated[p]]
      /\ UNCHANGED <<gates, base, delta, begun, content, alive, closing, rawReleased>>
      /\ DropLeases
  BY DEF Commit, Steps, server
<1>t. /\ task \in [Updaters -> Tasks] /\ base \in [Updaters -> Made \cup {0}]
      /\ managed \in [Updaters -> Made \cup {0}] /\ head \in Made \cup {0}
      /\ delta \in [Updaters -> [snapshot : Made \cup {0}, updated : Lists, removed : SUBSET ProjectIds]]
      /\ alive \subseteq Made /\ DOMAIN listed \subseteq Made /\ listed \in [DOMAIN listed -> Lists]
      /\ applied \in Lists /\ 0 \notin Made
  BY ZeroNotMade DEF LineageInv, LineageTypeOK
<1>1. /\ s \in alive \ DOMAIN listed /\ s \in Made
      /\ content[s] = Merge(Revisions(base[u]), delta[u])
      /\ \A p \in ProjectIds : p \in delta[u].removed => delta[u].updated[p] = 0
  BY <1>0, <1>t DEF LineageInv, Answered
<1>2. /\ task'[u] = "leaving" /\ managed'[u] = s
      /\ \A v \in Updaters : v # u => task'[v] = task[v] /\ managed'[v] = managed[v]
  BY <1>0, <1>t
<1>3. \A v \in Updaters : v # u => task[v] \notin {"granted", "request", "answered", "leaving"}
  BY <1>0 DEF LineageInv, Gated
\* The base of the update has an owner, so that the client has its list.
<1>4. known = Revisions(base[u])
  <2>1. CASE base[u] = 0
    BY <2>1 DEF Revisions
  <2>2. CASE base[u] # 0
    <3>1. base[u] \in Made /\ Owned(base[u])
      BY <2>2, <1>t DEF Owned
    <3>2. base[u] \in DOMAIN listed /\ listed[base[u]] = content[base[u]]
      BY <3>1 DEF LineageInv, Leased, Listed
    <3> QED BY <2>2, <3>2 DEF Revisions
  <2> QED BY <2>1, <2>2
<1>5. list = content[s]
  BY <1>1, <1>4
<1>6. list \in Lists
  <2>1. Revisions(base[u]) \in Lists
    BY <1>t DEF Revisions, Empty, Lists, LineageInv, LineageTypeOK, Made
  <2> QED BY <2>1, <1>4, <1>t DEF Merge, Lists
<1> HIDE DEF list, known
<1>7. DOMAIN listed' = (DOMAIN listed) \cup {s} /\ listed'[s] = list
      /\ \A x \in DOMAIN listed : listed'[x] = listed[x]
  BY <1>0, <1>1
<1>8. Made' = Made /\ Lists' = Lists
  BY <1>0 DEF Made, Lists
<1>9. Owned(s)' /\ ~Owned(s)
  BY <1>0, <1>1, <1>2 DEF Owned, LineageInv, Leased
<1>10. \A x \in Made : x # s => (Owned(x)' => Owned(x))
  BY <1>0, <1>1, <1>2 DEF Owned
<1>11. \A x \in Made : x \in queued' <=> x \in queued \/ (Owned(x) /\ ~Owned(x)')
  BY <1>0 DEF DropLeases
<1>12. queued \cup rawReleased \subseteq DOMAIN listed /\ queued' \subseteq DOMAIN listed
  BY <1>0 DEF LineageInv, Raw, Leased, DropLeases
<1>13. Leased'
  <2> SUFFICES ASSUME NEW x \in Made, Owned(x)'
               PROVE  x \in DOMAIN listed' /\ x \notin queued' /\ x \in alive \cup rawReleased
    BY <1>0, <1>8 DEF Leased
  <2>1. CASE x = s
    BY <2>1, <1>1, <1>7, <1>12
  <2>2. CASE x # s
    BY <2>2, <1>7, <1>10, <1>11 DEF LineageInv, Leased
  <2> QED BY <2>1, <2>2
<1>14. NothingLeaks'
  <2> SUFFICES ASSUME NEW x \in alive
               PROVE  Owned(x)' \/ x \in queued'
    BY <1>0 DEF NothingLeaks
  <2>1. CASE x = s
    BY <2>1, <1>9, <1>0 DEF Owned
  <2>2. CASE x # s
    <3>1. Owned(x) \/ x \in queued
      <4>1. \A v \in Updaters : ~(task[v] = "answered" /\ delta[v].snapshot = x)
        BY <2>2, <1>3 DEF s
      <4> QED BY <4>1 DEF LineageInv, NothingLeaks
    <3>2. x \in Made
      BY <1>t
    <3> QED BY <3>1, <3>2, <1>11
  <2> QED BY <2>1, <2>2
<1>15. Gated'
  BY <1>0, <1>2, <1>3 DEF LineageInv, Gated, gates
<1>16. Raw'
  BY <1>0, <1>1, <1>2, <1>7, <1>12 DEF LineageInv, Raw
<1>17. Answered'
  BY <1>0, <1>2, <1>3 DEF Answered
<1>18. Listed'
  <2>1. \A x \in DOMAIN listed' : listed'[x] = content'[x]
    BY <1>0, <1>5, <1>7 DEF LineageInv, Listed
  <2>2. ASSUME ~closing PROVE applied' = content[s]
    <3>1. applied = Revisions(base[u])
      BY <2>2, <1>0 DEF LineageInv, Gated, Listed
    <3>2. \A p \in ProjectIds :
            applied'[p] = IF delta[u].updated[p] # 0 THEN delta[u].updated[p]
                          ELSE IF p \in delta[u].removed THEN 0 ELSE applied[p]
      BY <1>0, <1>1
    <3>3. applied' = Merge(applied, delta[u])
      BY <1>0, <3>2 DEF Merge
    <3> QED BY <1>1, <3>1, <3>3
  <2>3. Revisions(head)' = content[s]
    BY <1>0, <1>1, <1>t DEF Revisions
  <2> QED BY <2>1, <2>2, <2>3, <1>0 DEF Listed
<1>19. LineageTypeOK'
  <2>1. applied' \in Lists
    BY <1>0, <1>t DEF Lists
  <2>2. listed' \in [DOMAIN listed' -> Lists] /\ DOMAIN listed' \subseteq Made
    BY <1>0, <1>1, <1>6, <1>t
  <2>3. task' \in [Updaters -> Tasks] /\ managed' \in [Updaters -> Made \cup {0}]
    BY <1>0, <1>1, <1>t DEF Tasks
  <2> QED BY <1>0, <1>1, <1>8, <1>12, <1>t, <2>1, <2>2, <2>3 DEF LineageInv, LineageTypeOK, gates
<1> QED BY <1>13, <1>14, <1>15, <1>16, <1>17, <1>18, <1>19 DEF LineageInv

LEMMA Invariant == LineageSpec => []LineageInv
<1>1. LineageInv /\ UNCHANGED lineageVars => LineageInv'
  BY DEF lineageVars, gates, server, LineageInv, LineageTypeOK, Gated, Leased, Owned, Raw, Answered,
         Listed, Revisions, NothingLeaks, Made, Lists
<1>2. LineageInv /\ [LineageNext]_lineageVars => LineageInv'
  BY <1>1, GateSteps, ReadBaseStep, AnswerStep, EndStep, LetGoStep, ReleaseStep, QueueStep, RawStep,
     CommitStep
     DEF LineageNext, LineageContinues
<1> QED BY InitHolds, <1>2, PTL DEF LineageSpec

-----------------------------------------------------------------------------
(* Every variable keeps to its type, and what was released by a raw request   *)
(* is not on the server.                                                       *)
THEOREM TypeCorrect == LineageSpec => []LineageTypeOK
BY Invariant, PTL DEF LineageInv

(* What somebody has a lease of is on the server, however updates, drops and  *)
(* releases interleave, unless a raw release named it; and none names the head. *)
THEOREM LeasesHold == LineageSpec => []LeasedIsAlive
<1>1. LineageInv => LeasedIsAlive
  BY DEF LineageInv, Leased, Raw, LeasedIsAlive
<1> QED BY <1>1, Invariant, PTL

(* An update finds its base on the server.                                     *)
THEOREM BasesFound == LineageSpec => []BaseFound
<1>1. LineageInv => BaseFound
  <2> SUFFICES ASSUME LineageInv, NEW u \in Updaters, task[u] = "request", base[u] # 0
               PROVE  base[u] \in (IF closing THEN alive \cup rawReleased ELSE alive)
    BY DEF BaseFound
  <2>1. base[u] \in Made /\ Owned(base[u])
    BY DEF LineageInv, LineageTypeOK, Owned
  <2>2. base[u] \in alive \cup rawReleased
    BY <2>1 DEF LineageInv, Leased
  <2>3. ~closing => base[u] \notin rawReleased
    BY DEF LineageInv, Gated, Raw
  <2> QED BY <2>2, <2>3
<1> QED BY <1>1, Invariant, PTL

(* No snapshot stays on the server that nobody can release.                    *)
THEOREM NoLeak == LineageSpec => []NothingLeaks
BY Invariant, PTL DEF LineageInv

(* What the server keeps and what the client holds leases of agree, whatever  *)
(* updates, drops, releases and closes interleave.                            *)
THEOREM Accounted == LineageSpec => []SnapshotsAccounted
BY LeasesHold, BasesFound, NoLeak, PTL DEF SnapshotsAccounted

(* No concurrent update loses another's change, and the client's project list *)
(* is the server's.                                                            *)
THEOREM NoLostUpdate == LineageSpec => []ChangesAccumulate
<1>1. LineageInv => ChangesAccumulate
  <2> SUFFICES ASSUME LineageInv, head # 0, ~closing
               PROVE  content[head] = applied /\ listed[head] = content[head]
    BY DEF ChangesAccumulate
  <2>1. head \in Made /\ Owned(head)
    BY DEF LineageInv, LineageTypeOK, Owned
  <2>2. head \in DOMAIN listed
    BY <2>1 DEF LineageInv, Leased
  <2> QED BY <2>2 DEF LineageInv, Listed, Revisions
<1> QED BY <1>1, Invariant, PTL

-----------------------------------------------------------------------------
(* Singleflight *)

Latest    == Cardinality(Flown)
\* Flights are numbered in the order of their start; f has come to an end that
\* its leader has lived to tell.
Landed(f) == f \in Flown /\ flown[f] \in {"ok", "error"}

\* What FlightTypeOK says, and that the flights are numbered without gaps.
FlightTypes ==
    /\ cell.open \in BOOLEAN /\ cell.waiters \subseteq Joiners /\ DOMAIN cell = {"open", "waiters"}
    /\ cell = [open |-> cell.open, waiters |-> cell.waiters]
    /\ Latest \in Nat /\ Flown = 1..Latest
    /\ flown \in [Flown -> {"up", "ok", "error", "lost"}]
    /\ ready \in Flown \cup {0}
    /\ who \in [Joiners -> {"idle", "clear", "poll", "park", "leading", "sending", "panicked", "done"}]
    /\ flight \in [Joiners -> Flown \cup {0}] /\ got \in [Joiners -> Flown \cup {0}]
    /\ channel \in [Joiners -> Flown \cup {0}] /\ result \in [Joiners -> Flown \cup {0}]
    /\ waker \in [Joiners -> BOOLEAN] /\ woken \in [Joiners -> BOOLEAN]
    /\ helper \in [Joiners -> {"none", "recv", "wake", "gone"}]

\* Only the latest flight can be in the air, and then the cell is InFlight; it
\* stays so for ever when the leader is lost.  The value kept is that of the
\* only flight that succeeded.
OneInTheAir ==
    /\ \A f \in Flown : flown[f] \in {"up", "lost"} => cell.open /\ f = Latest
    /\ \A f \in Flown : flown[f] = "ok" <=> ready = f
    /\ cell.open => ready = 0 /\ Latest # 0 /\ flown[Latest] \in {"up", "lost"}
    /\ \A c, d \in Joiners : who[c] = "leading" /\ who[d] = "leading" => c = d

\* What caller c has of its flight, wherever it is kept, is the outcome of that
\* flight, and a sender in the cell has not been used.
Heard(c) ==
    /\ who[c] = "idle" => flight[c] = 0
    /\ who[c] = "leading" => flight[c] \in Flown /\ flown[flight[c]] = "up"
    /\ who[c] = "sending" => Landed(flight[c])
    /\ channel[c] # 0 => channel[c] = flight[c] /\ Landed(flight[c])
    /\ result[c] # 0 => result[c] = flight[c] /\ Landed(flight[c])
    /\ who[c] = "done" /\ flight[c] # 0 => got[c] = flight[c] /\ Landed(flight[c])
    /\ c \in cell.waiters => channel[c] = 0

\* The invariant of the cell.
FlightInv == FlightTypes /\ OneInTheAir /\ \A c \in Joiners : Heard(c)

\* The invariant is strong enough.
LEMMA FlightInvImplies == FlightInv => FlightTypeOK /\ FlightsApart
<1> SUFFICES ASSUME FlightInv PROVE FlightTypeOK /\ FlightsApart
  OBVIOUS
<1>1. FlightTypes /\ OneInTheAir /\ \A c \in Joiners : Heard(c)
  BY DEF FlightInv
<1>2. cell.waiters \in SUBSET {c \in Joiners : channel[c] = 0}
  BY <1>1 DEF FlightTypes, Heard
<1>3. cell \in [open : BOOLEAN, waiters : SUBSET {c \in Joiners : channel[c] = 0}]
  BY <1>1, <1>2 DEF FlightTypes
<1>4. FlightTypeOK
  BY <1>1, <1>3 DEF FlightTypes, FlightTypeOK, Latest
<1>5. Cardinality({f \in Flown : flown[f] = "up"}) <= 1
  <2> DEFINE up == {f \in Flown : flown[f] = "up"}
  <2>1. up \subseteq {Latest}
    BY <1>1 DEF OneInTheAir
  <2>2. IsFiniteSet({Latest}) /\ Cardinality({Latest}) = 1
    BY FS_Singleton
  <2>3. IsFiniteSet(up) /\ Cardinality(up) <= Cardinality({Latest})
    BY <2>1, <2>2, FS_Subset
  <2> QED BY <2>2, <2>3
<1>6. OneFlight
  BY <1>1, <1>5 DEF OneFlight, OneInTheAir, FlightTypes
<1>7. OwnFlight
  BY <1>1 DEF OwnFlight, Heard, Landed
<1> QED BY <1>4, <1>6, <1>7 DEF FlightsApart

\* No flight has begun.
LEMMA FlightInitHolds == FlightInit => FlightInv
<1> SUFFICES ASSUME FlightInit PROVE FlightInv
  OBVIOUS
<1>1. Flown = {} /\ Latest = 0
  BY FS_EmptySet DEF FlightInit, Flown, Latest
<1>2. {} = 1..0
  OBVIOUS
<1>3. flown \in [Flown -> {"up", "ok", "error", "lost"}]
  BY <1>1 DEF FlightInit, Flown
<1>4. FlightTypes
  BY <1>1, <1>2, <1>3 DEF FlightInit, FlightTypes
<1>5. OneInTheAir /\ \A c \in Joiners : Heard(c)
  BY <1>1 DEF FlightInit, OneInTheAir, Heard
<1> QED BY <1>4, <1>5 DEF FlightInv

\* A step that makes no flight and decides none disturbs only its caller.
LEMMA NothingFlies ==
    ASSUME FlightInv, flown' = flown
    PROVE  Flown' = Flown /\ Latest' = Latest /\ \A f : Landed(f)' <=> Landed(f)
  BY DEF Flown, Latest, Landed

\* Waiting, hearing and returning change only what their caller has.
LEMMA FlightContinuesStep ==
    ASSUME FlightInv, NEW c \in Joiners,
           \/ ClearBit(c) \/ PollReady(c) \/ PollPending(c) \/ ParkCaller(c) \/ Hear(c) \/ WakeCaller(c)
           \/ AskAgain(c) \/ Find(c)
    PROVE  FlightInv'
<1>0. FlightTypes /\ OneInTheAir /\ \A d \in Joiners : Heard(d)
  BY DEF FlightInv
<1>1. flown' = flown /\ ready' = ready /\ cell' = cell
  BY DEF ClearBit, PollReady, PollPending, ParkCaller, Hear, WakeCaller, AskAgain, Find
<1>2. Flown' = Flown /\ Latest' = Latest /\ \A f : Landed(f)' <=> Landed(f)
  BY <1>1, NothingFlies
<1>3. /\ who' \in [Joiners -> {"idle", "clear", "poll", "park", "leading", "sending", "panicked", "done"}]
      /\ \A d \in Joiners : who'[d] = who[d] \/ who'[d] \in {"idle", "clear", "poll", "park", "done"}
  BY <1>0 DEF ClearBit, PollReady, PollPending, ParkCaller, Hear, WakeCaller, AskAgain, Find, Acts, FlightTypes
<1>4. /\ flight' \in [Joiners -> Flown \cup {0}] /\ got' \in [Joiners -> Flown \cup {0}]
      /\ channel' \in [Joiners -> Flown \cup {0}] /\ result' \in [Joiners -> Flown \cup {0}]
  <2>1. /\ flight \in [Joiners -> Flown \cup {0}] /\ got \in [Joiners -> Flown \cup {0}]
        /\ channel \in [Joiners -> Flown \cup {0}] /\ result \in [Joiners -> Flown \cup {0}]
        /\ ready \in Flown \cup {0}
    BY <1>0 DEF FlightTypes
  <2>2. CASE ClearBit(c) \/ PollPending(c) \/ ParkCaller(c) \/ WakeCaller(c)
    BY <2>1, <2>2 DEF ClearBit, PollPending, ParkCaller, WakeCaller
  <2>3. CASE PollReady(c) \/ Hear(c) \/ Find(c)
    BY <2>1, <2>3 DEF PollReady, Hear, Find
  <2>4. CASE AskAgain(c)
    BY <2>1, <2>4 DEF AskAgain
  <2> QED BY <2>2, <2>3, <2>4
<1>5. /\ waker' \in [Joiners -> BOOLEAN] /\ woken' \in [Joiners -> BOOLEAN]
      /\ helper' \in [Joiners -> {"none", "recv", "wake", "gone"}]
  <2>1. waker \in [Joiners -> BOOLEAN] /\ woken \in [Joiners -> BOOLEAN]
        /\ helper \in [Joiners -> {"none", "recv", "wake", "gone"}]
    BY <1>0 DEF FlightTypes
  <2>2. CASE ClearBit(c) \/ PollReady(c) \/ ParkCaller(c) \/ WakeCaller(c) \/ AskAgain(c) \/ Find(c)
    BY <2>1, <2>2 DEF ClearBit, PollReady, ParkCaller, WakeCaller, AskAgain, Find
  <2>3. CASE PollPending(c)
    BY <2>1, <2>3 DEF PollPending
  <2>4. CASE Hear(c)
    BY <2>1, <2>4 DEF Hear
  <2> QED BY <2>2, <2>3, <2>4
<1>6. FlightTypes'
  BY <1>0, <1>1, <1>2, <1>3, <1>4, <1>5 DEF FlightTypes
<1>7. OneInTheAir'
  BY <1>0, <1>1, <1>2, <1>3 DEF OneInTheAir
<1>8. ASSUME NEW d \in Joiners PROVE Heard(d)'
  <2>1. Heard(d) /\ Heard(c)
    BY <1>0
  <2>2. CASE Find(c)
    BY <1>0, <1>1, <1>2, <2>1, <2>2 DEF Find, Acts, Heard, FlightTypes
  <2>3. CASE PollReady(c)
    BY <1>0, <1>1, <1>2, <2>1, <2>3 DEF PollReady, Acts, Heard, FlightTypes
  <2>4. CASE Hear(c)
    BY <1>0, <1>1, <1>2, <2>1, <2>4 DEF Hear, Heard, FlightTypes
  <2>5. CASE AskAgain(c)
    BY <1>0, <1>1, <1>2, <2>1, <2>5 DEF AskAgain, Acts, Heard, FlightTypes
  <2>6. CASE ClearBit(c) \/ PollPending(c) \/ ParkCaller(c) \/ WakeCaller(c)
    BY <1>0, <1>1, <1>2, <2>1, <2>6 DEF ClearBit, PollPending, ParkCaller, WakeCaller, Acts, Heard, FlightTypes
  <2> QED BY <2>2, <2>3, <2>4, <2>5, <2>6
<1> QED BY <1>6, <1>7, <1>8 DEF FlightInv

\* Whoever joins has joined the latest flight, which is in the air or lost.
LEMMA JoinStep == ASSUME FlightInv, NEW c \in Joiners, Join(c) PROVE FlightInv'
<1>0. FlightTypes /\ OneInTheAir /\ \A d \in Joiners : Heard(d)
  BY DEF FlightInv
<1>1. /\ flown' = flown /\ ready' = ready /\ cell.open /\ who[c] = "idle"
      /\ who' = [who EXCEPT ![c] = "clear"] /\ flight' = [flight EXCEPT ![c] = Latest]
      /\ cell' = [cell EXCEPT !.waiters = @ \cup {c}]
      /\ UNCHANGED <<channel, result, waker, helper, woken, got>>
  BY DEF Join, Acts, Latest
<1>2. Flown' = Flown /\ Latest' = Latest /\ \A f : Landed(f)' <=> Landed(f)
  BY <1>1, NothingFlies
<1>3. Latest \in Flown
  BY <1>0, <1>1 DEF FlightTypes, OneInTheAir
<1>4. cell'.open = cell.open /\ cell'.waiters = cell.waiters \cup {c}
      /\ DOMAIN cell' = {"open", "waiters"} /\ cell' = [open |-> cell'.open, waiters |-> cell'.waiters]
  BY <1>0, <1>1 DEF FlightTypes
<1>5. FlightTypes'
  BY <1>0, <1>1, <1>2, <1>3, <1>4 DEF FlightTypes
<1>6. OneInTheAir'
  BY <1>0, <1>1, <1>2, <1>4 DEF OneInTheAir, FlightTypes
<1>7. ASSUME NEW d \in Joiners PROVE Heard(d)'
  BY <1>0, <1>1, <1>2, <1>4 DEF Heard, FlightTypes, Landed
<1> QED BY <1>5, <1>6, <1>7 DEF FlightInv

\* A new flight begins only when no other is in the air.
LEMMA LeadStep == ASSUME FlightInv, NEW c \in Joiners, Lead(c) PROVE FlightInv'
<1>0. FlightTypes /\ OneInTheAir /\ \A d \in Joiners : Heard(d)
  BY DEF FlightInv
<1> DEFINE n == Latest + 1
<1>1. /\ ready = 0 /\ ready' = ready /\ ~cell.open /\ who[c] = "idle"
      /\ who' = [who EXCEPT ![c] = "leading"] /\ flight' = [flight EXCEPT ![c] = n]
      /\ flown' = [f \in 1..n |-> IF f \in Flown THEN flown[f] ELSE "up"]
      /\ cell' = [cell EXCEPT !.open = TRUE]
      /\ UNCHANGED <<channel, result, waker, helper, woken, got>>
  BY DEF Lead, Acts, Latest
<1>2. n \in Nat /\ n # 0 /\ n \notin Flown /\ Flown \subseteq 1..n /\ 1..n = Flown \cup {n} /\ 0 \notin Flown
  BY <1>0 DEF FlightTypes
<1>3. Flown' = 1..n /\ Latest' = n
  <2>1. Flown' = 1..n
    BY <1>1 DEF Flown
  <2>2. Cardinality(1..n) = n
    BY <1>2, FS_Interval
  <2> QED BY <2>1, <2>2 DEF Latest
<1>4. flown'[n] = "up" /\ \A f \in Flown : flown'[f] = flown[f]
  BY <1>1, <1>2
<1>5. cell'.open /\ cell'.waiters = cell.waiters
      /\ DOMAIN cell' = {"open", "waiters"} /\ cell' = [open |-> cell'.open, waiters |-> cell'.waiters]
  BY <1>0, <1>1 DEF FlightTypes
<1> HIDE DEF n
<1>6. flown' \in [Flown' -> {"up", "ok", "error", "lost"}]
  BY <1>0, <1>1, <1>3 DEF FlightTypes
<1>7. FlightTypes'
  BY <1>0, <1>1, <1>2, <1>3, <1>5, <1>6 DEF FlightTypes
<1>8. OneInTheAir'
  <2>1. \A d \in Joiners : who[d] # "leading"
    BY <1>0, <1>1 DEF OneInTheAir, Heard
  <2>2. \A f \in Flown : flown[f] \notin {"up", "lost"} /\ flown[f] # "ok"
    BY <1>0, <1>1, <1>2 DEF OneInTheAir
  <2> QED BY <1>0, <1>1, <1>2, <1>3, <1>4, <1>5, <2>1, <2>2 DEF OneInTheAir, FlightTypes
<1>9. ASSUME NEW d \in Joiners PROVE Heard(d)'
  <2>1. Heard(d)
    BY <1>0
  <2>2. CASE d = c
    BY <1>0, <1>1, <1>2, <1>3, <1>4, <1>5, <2>1, <2>2 DEF Heard, FlightTypes
  <2>3. CASE d # c
    BY <1>0, <1>1, <1>2, <1>3, <1>4, <1>5, <2>1, <2>3 DEF Heard, FlightTypes, Landed
  <2> QED BY <2>2, <2>3
<1> QED BY <1>7, <1>8, <1>9 DEF FlightInv

\* The leader is told of its flight, by an outcome or by a panic.
LEMMA FlightEnds ==
    ASSUME FlightInv, NEW c \in Joiners, Land(c) \/ LeaderPanics(c)
    PROVE  FlightInv'
<1>0. FlightTypes /\ OneInTheAir /\ \A d \in Joiners : Heard(d)
  BY DEF FlightInv
<1> DEFINE f == flight[c]
<1>1. /\ who[c] = "leading" /\ UNCHANGED <<flight, channel, result, waker, helper, woken, got>>
      /\ \E o \in {"ok", "error", "lost"} :
            /\ flown' = [flown EXCEPT ![f] = o]
            /\ ready' = IF o = "ok" THEN f ELSE IF o = "lost" THEN ready ELSE 0
            /\ cell' = IF o = "lost" THEN cell ELSE [cell EXCEPT !.open = FALSE]
            /\ who' = [who EXCEPT ![c] = IF o = "lost" THEN "panicked" ELSE "sending"]
  BY DEF Land, LeaderPanics, Acts
<1>2. PICK o \in {"ok", "error", "lost"} :
            /\ flown' = [flown EXCEPT ![f] = o]
            /\ ready' = IF o = "ok" THEN f ELSE IF o = "lost" THEN ready ELSE 0
            /\ cell' = IF o = "lost" THEN cell ELSE [cell EXCEPT !.open = FALSE]
            /\ who' = [who EXCEPT ![c] = IF o = "lost" THEN "panicked" ELSE "sending"]
  BY <1>1
<1>3. f \in Flown /\ flown[f] = "up" /\ f = Latest /\ cell.open /\ f # 0 /\ 0 \notin Flown
  BY <1>0, <1>1 DEF OneInTheAir, FlightTypes, Heard
<1>4. ready = 0
  BY <1>0, <1>3 DEF OneInTheAir
<1>5. Flown' = Flown /\ Latest' = Latest
  BY <1>0, <1>2 DEF Flown, Latest, FlightTypes
<1>6. flown'[f] = o /\ \A g \in Flown : g # f => flown'[g] = flown[g]
  BY <1>0, <1>2, <1>3 DEF FlightTypes
<1>7. /\ cell'.open = (o = "lost") /\ cell'.waiters = cell.waiters
      /\ DOMAIN cell' = {"open", "waiters"} /\ cell' = [open |-> cell'.open, waiters |-> cell'.waiters]
  BY <1>0, <1>2, <1>3 DEF FlightTypes
<1> HIDE DEF f
<1>8. FlightTypes'
  BY <1>0, <1>1, <1>2, <1>3, <1>5, <1>6, <1>7 DEF FlightTypes
<1>9. OneInTheAir'
  BY <1>0, <1>1, <1>2, <1>3, <1>4, <1>5, <1>6, <1>7 DEF OneInTheAir, FlightTypes
<1>10. ASSUME NEW d \in Joiners PROVE Heard(d)'
  <2>1. Heard(d) /\ \A g : Landed(g) => Landed(g)'
    BY <1>0, <1>3, <1>5, <1>6 DEF Landed
  <2>2. CASE d = c
    BY <1>0, <1>1, <1>2, <1>3, <1>5, <1>6, <1>7, <2>1, <2>2 DEF Heard, FlightTypes, Landed, f
  <2>3. CASE d # c
    <3>1. who'[d] = who[d] /\ (who[d] # "leading")
      BY <1>0, <1>1, <1>2, <2>3 DEF FlightTypes, OneInTheAir
    <3> QED BY <1>1, <1>5, <1>7, <2>1, <3>1 DEF Heard
  <2> QED BY <2>2, <2>3
<1> QED BY <1>8, <1>9, <1>10 DEF FlightInv

\* The leader tells those that wait for its own flight.
LEMMA SendStep == ASSUME FlightInv, NEW c \in Joiners, Send(c) PROVE FlightInv'
<1>0. FlightTypes /\ OneInTheAir /\ \A d \in Joiners : Heard(d)
  BY DEF FlightInv
<1> DEFINE f == flight[c]
<1>1. /\ flown' = flown /\ ready' = ready /\ who[c] = "sending" /\ who' = [who EXCEPT ![c] = "done"]
      /\ channel' = [w \in Joiners |-> IF w \in Waiting(f) \cap cell.waiters THEN f ELSE channel[w]]
      /\ cell' = [cell EXCEPT !.waiters = @ \ Waiting(f)]
      /\ got' = [got EXCEPT ![c] = f]
      /\ UNCHANGED <<flight, result, waker, helper, woken>>
  BY DEF Send, Acts
<1>2. Flown' = Flown /\ Latest' = Latest /\ \A g : Landed(g)' <=> Landed(g)
  BY <1>1, NothingFlies
<1>3. Landed(f) /\ f \in Flown
  BY <1>0, <1>1 DEF Heard, Landed
<1>4. cell'.open = cell.open /\ cell'.waiters = cell.waiters \ Waiting(f)
      /\ DOMAIN cell' = {"open", "waiters"} /\ cell' = [open |-> cell'.open, waiters |-> cell'.waiters]
  BY <1>0, <1>1 DEF FlightTypes
<1>5. \A w \in Waiting(f) : flight[w] = f /\ who[w] \in {"clear", "poll", "park"}
  BY DEF Waiting
<1> HIDE DEF f
<1>6. FlightTypes'
  BY <1>0, <1>1, <1>2, <1>3, <1>4 DEF FlightTypes
<1>7. OneInTheAir'
  BY <1>0, <1>1, <1>2, <1>4 DEF OneInTheAir, FlightTypes
<1>8. ASSUME NEW d \in Joiners PROVE Heard(d)'
  <2>1. Heard(d)
    BY <1>0
  <2>2. channel'[d] = channel[d] \/ (channel'[d] = f /\ flight[d] = f)
    BY <1>1, <1>5
  <2>3. d \in cell'.waiters => channel'[d] = channel[d] /\ d \in cell.waiters
    BY <1>1, <1>4
  <2>4. CASE d = c
    BY <1>0, <1>1, <1>2, <1>3, <2>1, <2>2, <2>3, <2>4 DEF Heard, FlightTypes, f
  <2>5. CASE d # c
    <3>1. who'[d] = who[d] /\ got'[d] = got[d]
      BY <1>0, <1>1, <2>5 DEF FlightTypes
    <3> QED BY <1>1, <1>2, <1>3, <2>1, <2>2, <2>3, <3>1 DEF Heard
  <2> QED BY <2>4, <2>5
<1> QED BY <1>6, <1>7, <1>8 DEF FlightInv

\* Every step keeps the invariant.
LEMMA FlightStep == FlightInv /\ [FlightNext]_flightVars => FlightInv'
<1> SUFFICES ASSUME FlightInv, [FlightNext]_flightVars PROVE FlightInv'
  OBVIOUS
<1>1. CASE FlightNext
  BY <1>1, FlightContinuesStep, JoinStep, LeadStep, FlightEnds, SendStep DEF FlightNext, FlightContinues
<1>2. CASE UNCHANGED flightVars
  <2>1. UNCHANGED <<cell, ready, flown, who, flight, channel, result, waker, helper, woken, got>>
    BY <1>2 DEF flightVars
  <2>2. Flown' = Flown /\ Latest' = Latest /\ \A f : Landed(f)' <=> Landed(f)
    BY <2>1, NothingFlies
  <2> QED BY <2>1, <2>2 DEF FlightInv, FlightTypes, OneInTheAir, Heard
<1> QED BY <1>1, <1>2

\* The invariant holds for any callers and any number of flights.
THEOREM FlightInvariant == FlightSpec => []FlightInv
  BY FlightInitHolds, FlightStep, PTL DEF FlightSpec

\* Every variable of run_singleflight (singleflight.rs) keeps to its type.
THEOREM FlightTypeCorrect == FlightSpec => []FlightTypeOK
  BY FlightInvariant, FlightInvImplies, PTL

\* One flight is in the air at a time, and every caller of run_singleflight gets
\* the outcome of the flight that it joined or led, not of an earlier or later one.
THEOREM FlightsCorrect == FlightSpec => []FlightsApart
  BY FlightInvariant, FlightInvImplies, PTL

-----------------------------------------------------------------------------
(* LspShutdown *)

\* One clone attempts, only while the phase is Closing, and asks once.
Attempt ==
    /\ \A c, d \in Attempting : c = d
    /\ Attempting # {} => phase = "closing"
    /\ asked \in {0, 1}
    /\ asked = 1 => phase # "open" /\ \A c \in Clones : clone[c] # "protocol"

\* What has been returned, and when there is a verdict.
Verdicts ==
    /\ phase = "closed" <=> verdict # "nothing"
    /\ \A c \in Clones : returned[c] # "nothing" => phase = "closed" /\ returned[c] = verdict

\* Where the child is at each point of the attempt, and what a verdict says of it.
ChildAccounted ==
    /\ \A c \in Clones : clone[c] \in {"reader", "finish"} => child = "reaped" \/ "process" \in failed
    /\ verdict = "ok" => child = "reaped" /\ failed = {}

\* The invariant of a shutdown.
ShutdownInv == ShutdownTypeOK /\ Attempt /\ Verdicts /\ ChildAccounted

-----------------------------------------------------------------------------
(* The first failure is one of the steps of the attempt; "ok" means that      *)
(* there was none.                                                             *)
LEMMA FailureNamed ==
    ASSUME NEW f, f \subseteq ToSet(Order)
    PROVE  /\ FirstFailure(f) \in {"ok"} \cup ToSet(Order)
           /\ FirstFailure(f) = "ok" => f = {}
           /\ FirstFailure(f) # "nothing"
<1> DEFINE steps == {i \in DOMAIN Order : Order[i] \in f}
<1>1. DOMAIN Order = 1..4 /\ ToSet(Order) = {"protocol", "transport", "process", "reader"}
  BY DEF Order, ToSet
<1>2. CASE f = {}
  BY <1>2 DEF FirstFailure
<1>3. CASE f # {}
  <2>1. \E i \in steps : \A j \in steps : i <= j
    <3>1. steps \subseteq 1..4 /\ steps # {}
      BY <1>1, <1>3 DEF Order
    <3>2. 1 \in steps \/ 2 \in steps \/ 3 \in steps \/ 4 \in steps
      BY <3>1
    <3> HIDE DEF steps
    <3> QED BY <3>1, <3>2
  <2>2. PICK i \in steps : FirstFailure(f) = Order[i]
    BY <2>1, <1>3 DEF FirstFailure
  <2>3. Order[i] \in ToSet(Order)
    BY <2>2 DEF ToSet
  <2> QED BY <2>2, <2>3, <1>1
<1> QED BY <1>2, <1>3

\* Nobody attempts yet.
LEMMA ShutdownInitHolds == ShutdownInit => ShutdownInv
BY FS_EmptySet DEF ShutdownInit, ShutdownInv, ShutdownTypeOK, Attempt, Attempting, Verdicts, ChildAccounted

\* Every step of every clone, and dropping the guard.
LEMMA ShutdownStep == ShutdownInv /\ [ShutdownNext]_shutdownVars => ShutdownInv'
<1> SUFFICES ASSUME ShutdownInv, [ShutdownNext]_shutdownVars PROVE ShutdownInv'
  OBVIOUS
<1> USE DEF ShutdownInv, ShutdownTypeOK, Attempt, Attempting, Verdicts, ChildAccounted, CloneGoes
<1>0. ToSet(Order) = {"protocol", "transport", "process", "reader"}
  BY DEF Order, ToSet
<1>1. CASE UNCHANGED shutdownVars
  BY <1>1 DEF shutdownVars
<1>2. ASSUME NEW c \in Clones, BeginAttempt(c) PROVE ShutdownInv'
  BY <1>2 DEF BeginAttempt
<1>3. ASSUME NEW c \in Clones, Sleep(c) PROVE ShutdownInv'
  BY <1>3 DEF Sleep
<1>4. ASSUME NEW c \in Clones, ReturnVerdict(c) PROVE ShutdownInv'
  BY <1>4 DEF ReturnVerdict
<1>5. ASSUME NEW c \in Clones, Protocol(c) PROVE ShutdownInv'
  BY <1>5, <1>0 DEF Protocol
<1>6. ASSUME NEW c \in Clones, Transport(c) PROVE ShutdownInv'
  BY <1>6, <1>0 DEF Transport
<1>7. ASSUME NEW c \in Clones, TakeChild(c) PROVE ShutdownInv'
  BY <1>7 DEF TakeChild
<1>8. ASSUME NEW c \in Clones, WaitChild(c) PROVE ShutdownInv'
  BY <1>8, <1>0 DEF WaitChild
<1>9. ASSUME NEW c \in Clones, JoinReader(c) PROVE ShutdownInv'
  BY <1>9, <1>0 DEF JoinReader
<1>10. ASSUME NEW c \in Clones, Finish(c) PROVE ShutdownInv'
  <2>1. /\ verdict' \in {"ok"} \cup ToSet(Order) /\ verdict' # "nothing"
        /\ verdict' = "ok" => failed = {}
    BY <1>10, FailureNamed DEF Finish
  <2> QED BY <1>10, <2>1 DEF Finish
<1>11. ASSUME NEW c \in Clones, AttemptPanics(c) PROVE ShutdownInv'
  BY <1>11 DEF AttemptPanics
<1>12. ASSUME NEW c \in Clones, DropClone(c) PROVE ShutdownInv'
  BY <1>12 DEF DropClone
<1>13. CASE DropGuard
  BY <1>13 DEF DropGuard, Gone
<1> QED BY <1>1, <1>2, <1>3, <1>4, <1>5, <1>6, <1>7, <1>8, <1>9, <1>10, <1>11, <1>12, <1>13
        DEF ShutdownNext

\* The invariant always holds.
LEMMA ShutdownInvariant == ShutdownSpec => []ShutdownInv
BY ShutdownInitHolds, ShutdownStep, PTL DEF ShutdownSpec

-----------------------------------------------------------------------------
(* Every variable of the shutdown keeps to its type, and a child that was     *)
(* taken out of its guard is in the hands of the attempt.                      *)
THEOREM ShutdownTypeCorrect == ShutdownSpec => []ShutdownTypeOK
BY ShutdownInvariant, PTL DEF ShutdownInv

(* However many clones close at once, one of them attempts, and the server is *)
(* asked to shut down once at most.                                            *)
THEOREM Exclusive == ShutdownSpec => []OneAttempt
<1>1. ShutdownInv => OneAttempt
  <2> SUFFICES ASSUME ShutdownInv PROVE OneAttempt
    OBVIOUS
  <2>1. Cardinality(Attempting) <= 1
    <3>1. CASE Attempting = {}
      BY <3>1, FS_EmptySet
    <3>2. CASE Attempting # {}
      <4>1. PICK c \in Attempting : Attempting = {c}
        <5>1. \A c, d \in Attempting : c = d
          BY DEF ShutdownInv, Attempt
        <5> QED BY <3>2, <5>1
      <4>2. Cardinality({c}) = 1
        BY FS_Singleton
      <4> QED BY <4>1, <4>2
    <3> QED BY <3>1, <3>2
  <2>2. asked <= 1 /\ (phase = "closed" => Attempting = {})
    BY DEF ShutdownInv, Attempt
  <2> QED BY <2>1, <2>2 DEF OneAttempt
<1> QED BY <1>1, ShutdownInvariant, PTL

(* All clones are told the same.                                               *)
THEOREM Shared == ShutdownSpec => []SameOutcome
<1>1. ShutdownInv => SameOutcome
  BY DEF ShutdownInv, Verdicts, SameOutcome
<1> QED BY <1>1, ShutdownInvariant, PTL

(* All clones share one attempt and its outcome.                               *)
THEOREM SharedAttempt == ShutdownSpec => []OneShutdown
BY Exclusive, Shared, PTL DEF OneShutdown

(* Success means that the child is reaped and nothing failed, for whoever is  *)
(* told so.                                                                    *)
THEOREM Sound == ShutdownSpec => []OkMeansReaped
<1>1. ShutdownInv => OkMeansReaped
  BY DEF ShutdownInv, Verdicts, ChildAccounted, OkMeansReaped
<1> QED BY <1>1, ShutdownInvariant, PTL

-----------------------------------------------------------------------------
(* MsgpackWorker: the channel *)

USE DEF MsgpackTypeOK

\* What an append and a pop leave in the channel.
LEMMA Appended ==
    ASSUME NEW S, NEW s \in Seq(S), NEW e \in S
    PROVE  /\ Append(s, e) \in Seq(S)
           /\ \A x : x \in Range(s) \/ x = e <=> x \in Range(Append(s, e))
<1> DEFINE t == Append(s, e)
<1>1. /\ t \in Seq(S) /\ Len(t) = Len(s) + 1
      /\ \A i \in 1..Len(s) : t[i] = s[i]
      /\ t[Len(s) + 1] = e
  BY AppendProperties
<1> HIDE DEF t
<1>2. Range(t) = {t[i] : i \in 1..Len(t)} /\ Range(s) = {s[i] : i \in 1..Len(s)}
  BY <1>1 DEF Range
<1>3. \A i : i \in 1..Len(t) <=> i \in 1..Len(s) \/ i = Len(s) + 1
  BY <1>1, LenProperties
<1>4. \A x : x \in Range(s) \/ x = e <=> x \in Range(t)
  BY <1>1, <1>2, <1>3
<1> QED BY <1>1, <1>4 DEF t

\* Everything but the head stays in the channel.
LEMMA Popped ==
    ASSUME NEW S, NEW s \in Seq(S), s # <<>>
    PROVE  /\ Tail(s) \in Seq(S) /\ Head(s) \in S
           /\ \A x : x \in Range(s) => x = Head(s) \/ x \in Range(Tail(s))
<1> DEFINE t == Tail(s)
<1>1. /\ t \in Seq(S) /\ Len(t) = Len(s) - 1 /\ Head(s) \in S
      /\ \A i \in 1..Len(t) : t[i] = s[i + 1]
  BY HeadTailProperties
<1>2. Head(s) = s[1] /\ Len(s) \in Nat
  OBVIOUS
<1> HIDE DEF t
<1>3. Range(t) = {t[i] : i \in 1..Len(t)} /\ Range(s) = {s[i] : i \in 1..Len(s)}
  BY <1>1 DEF Range
<1>4. ASSUME NEW i \in 1..Len(s), i # 1 PROVE s[i] \in Range(t)
  <2>1. i - 1 \in 1..Len(t) /\ t[i - 1] = s[i]
    BY <1>1, <1>2, <1>4
  <2> QED BY <2>1, <1>3
<1> QED BY <1>1, <1>2, <1>3, <1>4 DEF t

-----------------------------------------------------------------------------
(* MsgpackWorker: the invariant *)

\* How far the closes have brought the child and the thread.
Closing == \A k \in Closes :
    /\ close[k] \in {"joining", "closed"} => process = "reaped"
    /\ close[k] = "closed" => thread = "exited"

\* The invariant of the worker.
MsgpackInv == MsgpackTypeOK /\ AnswersOwed /\ Closing

\* Nothing is requested yet.
LEMMA MsgpackInitHolds == MsgpackInit => MsgpackInv
BY MsgpackAssumption DEF MsgpackInit, MsgpackInv, AnswersOwed, Closing

\* The steps of a request.
LEMMA RequestStep ==
    ASSUME MsgpackInv, NEW r \in Requests,
           CloneSender(r) \/ FindNoSender(r) \/ RequestContinues(r)
    PROVE  MsgpackInv'
<1> USE MsgpackAssumption DEF MsgpackInv, AnswersOwed, Closing, Unserved, Requested, ReturnsWith
<1>1. CASE CloneSender(r)
  BY <1>1 DEF CloneSender
<1>2. CASE FindNoSender(r)
  BY <1>2 DEF FindNoSender
<1>3. CASE Enqueue(r)
  <2>1. /\ commands' \in Seq(Requests \cup {"shutdown"}) /\ Len(commands') <= CommandRoom
        /\ r \in Range(commands') /\ \A x : x \in Range(commands) => x \in Range(commands')
    BY <1>3, Appended, AppendProperties DEF Enqueue
  <2> QED BY <1>3, <2>1 DEF Enqueue
<1>4. CASE RefuseFull(r)
  BY <1>4 DEF RefuseFull
<1>5. CASE RefuseDisconnected(r)
  BY <1>5 DEF RefuseDisconnected
<1>6. CASE Receives(r)
  BY <1>6 DEF Receives
<1>7. CASE FindDropped(r)
  BY <1>7 DEF FindDropped
<1>8. CASE TimesOut(r)
  BY <1>8 DEF TimesOut
<1>9. CASE Kills(r)
  BY <1>9 DEF Kills
<1> QED BY <1>1, <1>2, <1>3, <1>4, <1>5, <1>6, <1>7, <1>8, <1>9 DEF RequestContinues

\* The steps of the thread and of the child.
LEMMA ThreadStep ==
    ASSUME MsgpackInv, ThreadContinues \/ ReadsAnswer \/ ThreadPanics \/ ChildExits
    PROVE  MsgpackInv'
<1> USE MsgpackAssumption DEF MsgpackInv, AnswersOwed, Closing, Unserved
<1>1. CASE TakeRequest
  <2>1. /\ commands' \in Seq(Requests \cup {"shutdown"}) /\ Len(commands') <= CommandRoom
        /\ serving' \in Requests
        /\ \A x : x \in Range(commands) => x = serving' \/ x \in Range(commands')
    BY <1>1, Popped, HeadTailProperties DEF TakeRequest
  <2> QED BY <1>1, <2>1 DEF TakeRequest
<1>2. CASE ReadsEnd \/ ReadsAnswer
  BY <1>2 DEF ReadsEnd, ReadsAnswer, Reply
<1>3. CASE Stop
  <2>1. /\ commands' \in Seq(Requests \cup {"shutdown"}) /\ Len(commands') <= CommandRoom
        /\ \A x : x \in Range(commands) => x = "shutdown" \/ x \in Range(commands')
    <3>1. CASE commands = <<>>
      <4>1. commands' = commands
        BY <1>3, <3>1 DEF Stop
      <4> QED BY <4>1
    <3>2. CASE commands # <<>>
      <4>1. Head(commands) = "shutdown" /\ commands' = Tail(commands)
        BY <1>3, <3>2 DEF Stop
      <4> QED BY <4>1, <3>2, Popped, HeadTailProperties
    <3> QED BY <3>1, <3>2
  <2> QED BY <1>3, <2>1 DEF Stop
<1>4. CASE Exit
  BY <1>4 DEF Exit
<1>5. CASE ThreadPanics
  BY <1>5 DEF ThreadPanics
<1>6. CASE ChildExits
  BY <1>6 DEF ChildExits
<1> QED BY <1>1, <1>2, <1>3, <1>4, <1>5, <1>6 DEF ThreadContinues

\* The steps of a close.
LEMMA CloseStep ==
    ASSUME MsgpackInv, NEW k \in Closes, TakeSender(k) \/ CloseContinues(k)
    PROVE  MsgpackInv'
<1> USE MsgpackAssumption DEF MsgpackInv, AnswersOwed, Closing, Unserved, Closed
<1>1. CASE TakeSender(k)
  <2>1. /\ commands' \in Seq(Requests \cup {"shutdown"}) /\ Len(commands') <= CommandRoom
        /\ \A x : x \in Range(commands) => x \in Range(commands')
    BY <1>1, Appended, AppendProperties DEF TakeSender
  <2> QED BY <1>1, <2>1 DEF TakeSender
<1>2. CASE Terminate(k)
  BY <1>2 DEF Terminate
<1>3. CASE JoinThread(k)
  BY <1>3 DEF JoinThread
<1> QED BY <1>1, <1>2, <1>3 DEF CloseContinues

\* The invariant always holds.
LEMMA MsgpackInvariant == MsgpackSpec => []MsgpackInv
<1>1. MsgpackInv /\ UNCHANGED msgpackVars => MsgpackInv'
  BY DEF MsgpackInv, AnswersOwed, Closing, Unserved, msgpackVars
<1>2. MsgpackInv /\ [MsgpackNext]_msgpackVars => MsgpackInv'
  BY <1>1, RequestStep, ThreadStep, CloseStep DEF MsgpackNext
<1> QED BY MsgpackInitHolds, <1>2, PTL DEF MsgpackSpec

-----------------------------------------------------------------------------
(* Every variable of the worker keeps to its type, and the channel to its     *)
(* room.                                                                       *)
THEOREM MsgpackTypeCorrect == MsgpackSpec => []MsgpackTypeOK
BY MsgpackInvariant, PTL DEF MsgpackInv

(* No request waits for an answer that nobody is left to give, whatever the   *)
(* child does and whoever closes or times out.                                 *)
THEOREM NobodyForgotten == MsgpackSpec => []AnswersOwed
BY MsgpackInvariant, PTL DEF MsgpackInv

(* Once any close has returned the thread is gone and the child reaped.       *)
THEOREM NoZombie == MsgpackSpec => []ClosedMeansReaped
<1>1. MsgpackInv => ClosedMeansReaped
  BY DEF MsgpackInv, Closing, ClosedMeansReaped
<1> QED BY <1>1, MsgpackInvariant, PTL

HIDE DEF MsgpackTypeOK

-----------------------------------------------------------------------------
(* The four parts together *)

\* A behaviour of the instance that TLC explores is one of each part: a step of
\* one leaves the others alone.
LEMMA PartsBehave == MCSpec => LineageSpec /\ FlightSpec /\ MsgpackSpec /\ ShutdownSpec
<1>1. MCInit => LineageInit /\ FlightInit /\ MsgpackInit /\ ShutdownInit
  BY DEF MCInit
<1>2. [MCNext]_<<subject, lineageVars, flightVars, msgpackVars, shutdownVars>>
        => /\ [LineageNext]_lineageVars /\ [FlightNext]_flightVars
           /\ [MsgpackNext]_msgpackVars /\ [ShutdownNext]_shutdownVars
  BY DEF MCNext
<1> QED BY <1>1, <1>2, PTL DEF MCSpec, LineageSpec, FlightSpec, MsgpackSpec, ShutdownSpec

\* Every variable of the four parts of the clients keeps to its type.
THEOREM ClientTypesCorrect == MCSpec => []TypesOK
<1>1. LineageTypeOK /\ FlightTypeOK /\ MsgpackTypeOK /\ ShutdownTypeOK => TypesOK
  BY DEF TypesOK
<1> QED
  BY <1>1, PartsBehave, TypeCorrect, FlightTypeCorrect, MsgpackTypeCorrect, ShutdownTypeCorrect, PTL
==============================================================================
