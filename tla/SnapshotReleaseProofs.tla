------------------------ MODULE SnapshotReleaseProofs ------------------------
(* Theorems about SnapshotRelease, for any number of handles, drains and      *)
(* closers and any capacity of the release channel.                           *)
EXTENDS SnapshotRelease, FiniteSetTheorems, TLAPS

USE DEF progress, channel, thread, waits, closes, Moves, Steps

\* What the worker has in hand agrees with where it is, and a worker that
\* panicked never works again.
WorkerInv ==
    /\ worker # "release" => working = NoHandle
    /\ panicked => worker \in {"panicked", "report", "leaving", "stopped"}
    /\ worker = "panicked" => panicked
    /\ worker \in {"report", "leaving", "stopped"} /\ ~panicked => ~sender

\* A failure is never forgotten, and what a drain has been told, or will find
\* covered by the counter, is confirmed.
CoverInv ==
    /\ Failed => error
    /\ \A h \in Handles : at[h] = "settled" => h \in acked \/ error
    /\ \A d \in Drains, h \in Handles : h \in covered[d] => at[h] \in Submitted
    /\ \A d \in Drains : heard[d] = "ok" => covered[d] \subseteq acked

\* A drain that has not been called has not been told anything.
IdleInv == \A d \in Drains : drain[d] = "idle" => heard[d] = "none"

IInv == /\ TypeOK
        /\ WorkerInv
        /\ PendingCountsUnfinished
        /\ IdleInv
        /\ CoverInv
        /\ ReleasedOnce
        /\ CleanStopLeavesNothing

-----------------------------------------------------------------------------
(* The release channel: every handle marked "queued" is in it, once. *)

\* Two facts about sequences, without the state around them.
LEMMA AppendElements ==
    ASSUME NEW S, NEW s \in Seq(S), NEW x \in S
    PROVE  /\ Append(s, x) \in Seq(S)
           /\ DOMAIN s = 1..Len(s) /\ Len(s) \in Nat
           /\ DOMAIN Append(s, x) = 1..(Len(s) + 1)
           /\ Len(Append(s, x)) = Len(s) + 1
           /\ \A n \in 1..Len(s) : Append(s, x)[n] = s[n]
           /\ Append(s, x)[Len(s) + 1] = x
OBVIOUS

LEMMA TailElements ==
    ASSUME NEW S, NEW s \in Seq(S), s # <<>>
    PROVE  /\ Tail(s) \in Seq(S)
           /\ DOMAIN s = 1..Len(s) /\ Len(s) \in Nat \ {0}
           /\ Head(s) = s[1] /\ Head(s) \in S
           /\ DOMAIN Tail(s) = 1..(Len(s) - 1)
           /\ Len(Tail(s)) = Len(s) - 1
           /\ \A n \in 1..(Len(s) - 1) : Tail(s)[n] = s[n + 1]
OBVIOUS

LEMMA AppendInjective ==
    ASSUME NEW S, NEW s \in Seq(S), NEW x \in S, IsInjective(s),
           \A n \in DOMAIN s : s[n] # x
    PROVE  IsInjective(Append(s, x))
<1> DEFINE t == Append(s, x)
<1>1. /\ DOMAIN s = 1..Len(s) /\ Len(s) \in Nat
      /\ DOMAIN t = 1..(Len(s) + 1)
      /\ \A n \in 1..Len(s) : t[n] = s[n]
      /\ t[Len(s) + 1] = x
  BY AppendElements
<1> HIDE DEF t
<1> SUFFICES ASSUME NEW m \in DOMAIN t, NEW n \in DOMAIN t, t[m] = t[n]
             PROVE  m = n
  BY DEF IsInjective, t
<1>2. CASE m \in 1..Len(s) /\ n \in 1..Len(s)
  BY <1>1, <1>2 DEF IsInjective
<1>3. CASE m = Len(s) + 1 \/ n = Len(s) + 1
  BY <1>1, <1>3
<1> QED
  BY <1>1, <1>2, <1>3

LEMMA TailInjective ==
    ASSUME NEW S, NEW s \in Seq(S), s # <<>>, IsInjective(s)
    PROVE  /\ IsInjective(Tail(s))
           /\ \A n \in DOMAIN Tail(s) : Tail(s)[n] # Head(s)
<1> DEFINE t == Tail(s)
<1>1. /\ DOMAIN s = 1..Len(s) /\ Len(s) \in Nat \ {0} /\ Head(s) = s[1]
      /\ DOMAIN t = 1..(Len(s) - 1)
      /\ \A n \in 1..(Len(s) - 1) : t[n] = s[n + 1]
  BY TailElements
<1> HIDE DEF t
<1>2. ASSUME NEW m \in DOMAIN t, NEW n \in DOMAIN t, t[m] = t[n]
      PROVE  m = n
  <2>1. s[m + 1] = s[n + 1] /\ m + 1 \in DOMAIN s /\ n + 1 \in DOMAIN s
    BY <1>1, <1>2
  <2>2. m + 1 = n + 1
    BY <2>1 DEF IsInjective
  <2> QED
    BY <1>1, <2>2
<1>3. ASSUME NEW n \in DOMAIN t, t[n] = s[1] PROVE FALSE
  <2>1. n + 1 \in DOMAIN s /\ 1 \in DOMAIN s /\ s[n + 1] = s[1] /\ n \in Nat \ {0}
    BY <1>1, <1>3
  <2> QED
    BY <2>1 DEF IsInjective
<1> QED
  BY <1>1, <1>2, <1>3 DEF IsInjective, t

LEMMA TrySendQueue ==
    ASSUME TypeOK, NEW h \in Handles, TrySend(h)
    PROVE  /\ queue' \in Seq(Handles) /\ Len(queue') <= Capacity
           /\ Buffered'
<1>1. /\ at[h] = "armed" /\ at' = [at EXCEPT ![h] = "queued"]
      /\ queue' = Append(queue, h)
      /\ Len(queue) < Capacity
  BY DEF TrySend
<1>2. /\ queue \in Seq(Handles) /\ IsInjective(queue) /\ DOMAIN at = Handles
      /\ \A g \in Handles : at[g] = "queued" <=> \E n \in DOMAIN queue : queue[n] = g
  BY DEF TypeOK, Types, Buffered
<1>3. /\ queue' \in Seq(Handles)
      /\ DOMAIN queue = 1..Len(queue) /\ Len(queue) \in Nat
      /\ DOMAIN queue' = 1..(Len(queue) + 1)
      /\ Len(queue') = Len(queue) + 1
      /\ \A n \in 1..Len(queue) : queue'[n] = queue[n]
      /\ queue'[Len(queue) + 1] = h
  BY <1>1, <1>2, AppendElements
<1>4. \A n \in DOMAIN queue : queue[n] # h
  BY <1>1, <1>2
<1>5. IsInjective(queue')
  BY <1>1, <1>2, <1>4, AppendInjective
<1>6. ASSUME NEW g \in Handles
      PROVE  at'[g] = "queued" <=> \E n \in DOMAIN queue' : queue'[n] = g
  <2>1. CASE g = h
    <3>1. at'[g] = "queued" /\ Len(queue) + 1 \in DOMAIN queue'
      BY <1>1, <1>2, <1>3, <2>1
    <3> QED
      BY <1>3, <2>1, <3>1
  <2>2. CASE g # h
    <3>1. at'[g] = at[g]
      BY <1>1, <1>2, <2>2
    <3>2. (\E n \in DOMAIN queue : queue[n] = g)
            <=> (\E n \in DOMAIN queue' : queue'[n] = g)
      BY <1>3, <2>2
    <3> QED
      BY <1>2, <3>1, <3>2
  <2> QED
    BY <2>1, <2>2
<1>7. Len(queue') <= Capacity
  BY <1>1, <1>3, OptionsAssumption
<1> QED
  BY <1>3, <1>5, <1>6, <1>7 DEF Buffered

LEMMA WorkerTakesQueue ==
    ASSUME TypeOK, WorkerTakes
    PROVE  /\ queue' \in Seq(Handles) /\ Len(queue') <= Capacity
           /\ Buffered'
           /\ Head(queue) \in Handles /\ at[Head(queue)] = "queued"
<1>1. /\ queue # <<>> /\ queue' = Tail(queue)
      /\ at' = [at EXCEPT ![Head(queue)] = "releasing"]
  BY DEF WorkerTakes
<1>2. /\ queue \in Seq(Handles) /\ IsInjective(queue) /\ DOMAIN at = Handles
      /\ Len(queue) <= Capacity
      /\ \A g \in Handles : at[g] = "queued" <=> \E n \in DOMAIN queue : queue[n] = g
  BY DEF TypeOK, Types, Buffered
<1>3. /\ queue' \in Seq(Handles)
      /\ DOMAIN queue = 1..Len(queue) /\ Len(queue) \in Nat \ {0}
      /\ Head(queue) = queue[1] /\ Head(queue) \in Handles
      /\ DOMAIN queue' = 1..(Len(queue) - 1)
      /\ Len(queue') = Len(queue) - 1
      /\ \A n \in 1..(Len(queue) - 1) : queue'[n] = queue[n + 1]
  BY <1>1, <1>2, TailElements
<1>4. /\ IsInjective(queue')
      /\ \A n \in DOMAIN queue' : queue'[n] # Head(queue)
  BY <1>1, <1>2, TailInjective
<1>5. at[Head(queue)] = "queued"
  BY <1>2, <1>3
<1>6. ASSUME NEW g \in Handles
      PROVE  at'[g] = "queued" <=> \E n \in DOMAIN queue' : queue'[n] = g
  <2>1. CASE g = Head(queue)
    <3>1. at'[g] = "releasing"
      BY <1>1, <1>2, <2>1
    <3> QED
      BY <1>4, <2>1, <3>1
  <2>2. CASE g # Head(queue)
    <3>1. at'[g] = at[g]
      BY <1>1, <1>2, <2>2
    <3>2. ASSUME NEW n \in DOMAIN queue, queue[n] = g
          PROVE  \E m \in DOMAIN queue' : queue'[m] = g
      <4>1. n - 1 \in 1..(Len(queue) - 1) /\ (n - 1) + 1 = n
        BY <1>3, <2>2, <3>2
      <4>2. queue'[n - 1] = g
        BY <1>3, <3>2, <4>1
      <4> QED
        BY <1>3, <4>1, <4>2
    <3>3. ASSUME NEW m \in DOMAIN queue', queue'[m] = g
          PROVE  \E n \in DOMAIN queue : queue[n] = g
      <4>1. m + 1 \in DOMAIN queue /\ queue[m + 1] = g
        BY <1>3, <3>3
      <4> QED
        BY <4>1
    <3> QED
      BY <1>2, <3>1, <3>2, <3>3
  <2> QED
    BY <2>1, <2>2
<1>7. Len(queue') <= Capacity
  BY <1>2, <1>3, OptionsAssumption
<1> QED
  BY <1>3, <1>4, <1>5, <1>6, <1>7 DEF Buffered

-----------------------------------------------------------------------------
LEMMA TypesStep == TypeOK /\ [Next]_vars => Types'
<1> SUFFICES ASSUME TypeOK, [Next]_vars PROVE Types'
  OBVIOUS
<1> USE OptionsAssumption
    DEF Types, Labels, Submitted, InFlight
<1>0. Types
  BY DEF TypeOK
<1> USE <1>0
<1>1. ASSUME NEW h \in Handles, Owner(h) PROVE Types'
  <2>1. CASE Claim(h)
    BY <2>1 DEF Claim
  <2>2. CASE ClaimAcked(h)
    BY <2>2 DEF ClaimAcked
  <2>3. CASE ClaimFails(h)
    BY <2>3 DEF ClaimFails
  <2>4. CASE ClaimPanics(h)
    BY <2>4 DEF ClaimPanics
  <2>5. CASE Submit(h)
    BY <2>5 DEF Submit
  <2> QED
    BY <1>1, <2>1, <2>2, <2>3, <2>4, <2>5 DEF Owner
<1>2. ASSUME NEW h \in Handles, Enqueue(h) PROVE Types'
  <2>1. CASE CloneSender(h)
    BY <2>1 DEF CloneSender
  <2>2. CASE FindClosed(h)
    BY <2>2 DEF FindClosed
  <2>3. CASE TrySend(h)
    BY <2>3, TrySendQueue DEF TrySend
  <2>4. CASE Overflow(h)
    BY <2>4 DEF Overflow
  <2>5. CASE Disconnected(h)
    BY <2>5 DEF Disconnected
  <2> QED
    BY <1>2, <2>1, <2>2, <2>3, <2>4, <2>5 DEF Enqueue
<1>3. ASSUME NEW h \in Handles, Release(h) PROVE Types'
  <2>1. CASE ReleaseAcked(h)
    BY <2>1 DEF ReleaseAcked
  <2>2. CASE ReleaseFails(h)
    BY <2>2 DEF ReleaseFails
  <2>3. CASE ReleasePanics(h)
    <3>1. CASE h = working
      BY <2>3, <3>1 DEF ReleasePanics
    <3>2. CASE h # working
      BY <2>3, <3>2 DEF ReleasePanics
    <3> QED
      BY <3>1, <3>2
  <2>4. CASE Complete(h)
    <3>1. CASE h = working
      BY <2>4, <3>1 DEF Complete, WakeWaiters, Result
    <3>2. CASE h # working
      BY <2>4, <3>2 DEF Complete, WakeWaiters, Result
    <3> QED
      BY <3>1, <3>2
  <2> QED
    BY <1>3, <2>1, <2>2, <2>3, <2>4 DEF Release
<1>4. CASE Worker
  <2>1. CASE Fail
    BY <2>1 DEF Fail, WakeWaiters, Result
  <2>2. CASE WorkerTakes
    BY <2>2, WorkerTakesQueue DEF WorkerTakes
  <2>3. CASE WorkerStops
    BY <2>3 DEF WorkerStops
  <2>4. CASE WorkerReports
    BY <2>4 DEF WorkerReports
  <2>5. CASE WorkerLeaves
    <3>1. /\ queue' \in Seq(Handles) /\ Len(queue') <= Capacity
      BY <2>5 DEF WorkerLeaves
    <3> QED
      BY <2>5, <3>1 DEF WorkerLeaves
  <2> QED
    BY <1>4, <2>1, <2>2, <2>3, <2>4, <2>5 DEF Worker
<1>5. ASSUME NEW d \in Drains,
             StartDrain(d) \/ Draining(d) \/ DrainExpires(d) \/ CancelDrain(d)
      PROVE  Types'
  <2>1. CASE StartDrain(d)
    BY <2>1 DEF StartDrain, Result
  <2>2. CASE FirstPoll(d)
    BY <2>2 DEF FirstPoll
  <2>3. CASE DrainHears(d)
    BY <2>3 DEF DrainHears
  <2>4. CASE DrainExpires(d)
    BY <2>4 DEF DrainExpires
  <2>5. CASE CancelDrain(d)
    BY <2>5 DEF CancelDrain
  <2> QED
    BY <1>5, <2>1, <2>2, <2>3, <2>4, <2>5 DEF Draining
<1>6. ASSUME NEW k \in Closers, TakeSender(k) \/ Closing(k) PROVE Types'
  <2>1. CASE TakeSender(k)
    BY <2>1 DEF TakeSender
  <2>2. CASE SkipWorker(k)
    BY <2>2 DEF SkipWorker
  <2>3. CASE ReceiveDone(k)
    BY <2>3 DEF ReceiveDone
  <2>4. CASE MissDone(k)
    BY <2>4 DEF MissDone
  <2>5. CASE TakeDone(k)
    BY <2>5 DEF TakeDone
  <2>6. CASE JoinWorker(k)
    BY <2>6 DEF JoinWorker
  <2>7. CASE CloseDriver(k)
    BY <2>7 DEF CloseDriver
  <2> QED
    BY <1>6, <2>1, <2>2, <2>3, <2>4, <2>5, <2>6, <2>7 DEF Closing
<1>7. CASE UNCHANGED vars
  BY <1>7 DEF vars
<1> QED
  BY <1>1, <1>2, <1>3, <1>4, <1>5, <1>6, <1>7 DEF Next

\* Only try_send, the worker's recv and the end of the worker touch the
\* channel or what is marked to be in it.
LEMMA BufferedStep == TypeOK /\ [Next]_vars => Buffered'
<1> SUFFICES ASSUME TypeOK, [Next]_vars PROVE Buffered'
  OBVIOUS
<1>0. Buffered /\ DOMAIN at = Handles
  BY DEF TypeOK, Types
<1>1. ASSUME NEW h \in Handles, NEW l \in Labels \ {"queued"},
             at[h] # "queued", at' = [at EXCEPT ![h] = l], UNCHANGED queue
      PROVE  Buffered'
  BY <1>0, <1>1 DEF Buffered
<1>2. ASSUME UNCHANGED <<at, queue>> PROVE Buffered'
  BY <1>0, <1>2 DEF Buffered
<1> DEFINE Other == Labels \ {"queued"}
<1>3. {"held", "claimed", "released", "leaked", "counted", "armed", "refused",
       "releasing", "answered", "settled", "abandoned"} \subseteq Other
  BY DEF Labels, Submitted, InFlight
<1> HIDE DEF Other
<1>4. ASSUME NEW h \in Handles, Owner(h) PROVE Buffered'
  <2>1. \E l \in Other : at[h] # "queued" /\ at' = [at EXCEPT ![h] = l]
    BY <1>3, <1>4
    DEF Owner, Claim, ClaimAcked, ClaimFails, ClaimPanics, Submit
  <2>2. UNCHANGED queue
    BY <1>4 DEF Owner, Claim, ClaimAcked, ClaimFails, ClaimPanics, Submit
  <2> QED
    BY <1>1, <2>1, <2>2 DEF Other
<1>5. ASSUME NEW h \in Handles, Enqueue(h) PROVE Buffered'
  <2>1. CASE TrySend(h)
    BY <2>1, TrySendQueue
  <2>2. CASE ~TrySend(h)
    <3>1. \E l \in Other : at[h] # "queued" /\ at' = [at EXCEPT ![h] = l]
      BY <1>3, <1>5, <2>2
      DEF Enqueue, CloneSender, FindClosed, Overflow, Disconnected
    <3>2. UNCHANGED queue
      BY <1>5, <2>2
      DEF Enqueue, CloneSender, FindClosed, Overflow, Disconnected
    <3> QED
      BY <1>1, <3>1, <3>2 DEF Other
  <2> QED
    BY <2>1, <2>2
<1>6. ASSUME NEW h \in Handles, Release(h) PROVE Buffered'
  <2>1. \E l \in Other : at[h] # "queued" /\ at' = [at EXCEPT ![h] = l]
    BY <1>3, <1>6
    DEF Release, ReleaseAcked, ReleaseFails, ReleasePanics, Complete
  <2>2. UNCHANGED queue
    BY <1>6 DEF Release, ReleaseAcked, ReleaseFails, ReleasePanics, Complete
  <2> QED
    BY <1>1, <2>1, <2>2 DEF Other
<1>7. CASE Worker
  <2>1. CASE WorkerTakes
    BY <2>1, WorkerTakesQueue
  <2>2. CASE WorkerLeaves
    <3>1. queue' = <<>> /\ \A h \in Handles : at'[h] # "queued"
      BY <2>2 DEF WorkerLeaves
    <3>2. DOMAIN queue' = {}
      BY <3>1
    <3> QED
      BY <3>1, <3>2 DEF Buffered, IsInjective
  <2>3. CASE Fail \/ WorkerStops \/ WorkerReports
    BY <1>2, <2>3 DEF Fail, WorkerStops, WorkerReports
  <2> QED
    BY <1>7, <2>1, <2>2, <2>3 DEF Worker
<1>8. ASSUME NEW d \in Drains,
             StartDrain(d) \/ Draining(d) \/ DrainExpires(d) \/ CancelDrain(d)
      PROVE  Buffered'
  BY <1>2, <1>8
  DEF StartDrain, Draining, FirstPoll, DrainHears, DrainExpires, CancelDrain
<1>9. ASSUME NEW k \in Closers, TakeSender(k) \/ Closing(k) PROVE Buffered'
  BY <1>2, <1>9
  DEF TakeSender, Closing, SkipWorker, ReceiveDone, MissDone, TakeDone,
      JoinWorker, CloseDriver
<1>10. CASE UNCHANGED vars
  BY <1>2, <1>10 DEF vars
<1> QED
  BY <1>4, <1>5, <1>6, <1>7, <1>8, <1>9, <1>10 DEF Next

LEMMA TypeStep == TypeOK /\ [Next]_vars => TypeOK'
BY TypesStep, BufferedStep DEF TypeOK

LEMMA TypeInit == Init => TypeOK
<1> SUFFICES ASSUME Init PROVE TypeOK
  OBVIOUS
<1>1. /\ queue \in Seq(Handles) /\ Len(queue) <= Capacity
      /\ DOMAIN queue = {} /\ IsInjective(queue)
  BY OptionsAssumption DEF Init, IsInjective
<1> QED
  BY <1>1 DEF Init, TypeOK, Types, Buffered, Labels, Submitted, InFlight

\* Every variable keeps to its type: the release channel within its bound,
\* each handle in it at most once and exactly those that enqueue put there.
THEOREM TypeCorrect == Spec => []TypeOK
<1>1. Init => TypeOK
  BY TypeInit
<1>2. TypeOK /\ [Next]_vars => TypeOK'
  BY TypeStep
<1> QED
  BY <1>1, <1>2, PTL DEF Spec

-----------------------------------------------------------------------------
LEMMA WorkerStep == TypeOK /\ WorkerInv /\ [Next]_vars => WorkerInv'
<1> SUFFICES ASSUME TypeOK, WorkerInv, [Next]_vars PROVE WorkerInv'
  OBVIOUS
<1> USE DEF WorkerInv
<1>1. ASSUME NEW h \in Handles, Owner(h) \/ Enqueue(h) PROVE WorkerInv'
  BY <1>1
  DEF Owner, Claim, ClaimAcked, ClaimFails, ClaimPanics, Submit,
      Enqueue, CloneSender, FindClosed, TrySend, Overflow, Disconnected
<1>2. ASSUME NEW h \in Handles, Release(h) PROVE WorkerInv'
  <2>1. CASE ReleaseAcked(h) \/ ReleaseFails(h)
    BY <2>1 DEF ReleaseAcked, ReleaseFails
  <2>2. CASE ReleasePanics(h)
    BY <2>2, HandlesAssumption DEF ReleasePanics
  <2>3. CASE Complete(h)
    BY <2>3, HandlesAssumption DEF Complete
  <2> QED
    BY <1>2, <2>1, <2>2, <2>3 DEF Release
<1>3. CASE Worker
  <2>1. CASE Fail
    BY <2>1 DEF Fail
  <2>2. CASE WorkerTakes
    BY <2>2 DEF WorkerTakes
  <2>3. CASE WorkerStops
    <3>1. ~sender
      BY <2>3 DEF WorkerStops, Connected
    <3> QED
      BY <2>3, <3>1 DEF WorkerStops
  <2>4. CASE WorkerReports
    BY <2>4 DEF WorkerReports
  <2>5. CASE WorkerLeaves
    BY <2>5 DEF WorkerLeaves
  <2> QED
    BY <1>3, <2>1, <2>2, <2>3, <2>4, <2>5 DEF Worker
<1>4. ASSUME NEW d \in Drains,
             StartDrain(d) \/ Draining(d) \/ DrainExpires(d) \/ CancelDrain(d)
      PROVE  WorkerInv'
  BY <1>4
  DEF StartDrain, Draining, FirstPoll, DrainHears, DrainExpires, CancelDrain
<1>5. ASSUME NEW k \in Closers, TakeSender(k) \/ Closing(k) PROVE WorkerInv'
  BY <1>5
  DEF TakeSender, Closing, SkipWorker, ReceiveDone, MissDone, TakeDone,
      JoinWorker, CloseDriver
<1>6. CASE UNCHANGED vars
  BY <1>6 DEF vars
<1> QED
  BY <1>1, <1>2, <1>3, <1>4, <1>5, <1>6 DEF Next

-----------------------------------------------------------------------------
(* The counter *)

LEMMA UnfinishedFinite == IsFiniteSet(Unfinished) /\ Cardinality(Unfinished) \in Nat
BY HandlesAssumption, FS_Subset, FS_CardinalityType DEF Unfinished

\* A step that leaves the counter alone and moves handles only between labels
\* that count, or between labels that do not, keeps it exact.
LEMMA CountKept ==
    ASSUME PendingCountsUnfinished, Unfinished' = Unfinished, UNCHANGED pending,
           Failed' = Failed
    PROVE  PendingCountsUnfinished'
BY DEF PendingCountsUnfinished

\* Completing a submitted handle while the counter is exact takes one off both.
LEMMA CompleteCount ==
    ASSUME TypeOK, PendingCountsUnfinished, NEW h \in Handles, Complete(h)
    PROVE  /\ Unfinished' = Unfinished \ {h}
           /\ ~Failed => pending' = Cardinality(Unfinished')
<1>1. h \in Unfinished /\ DOMAIN at = Handles
  BY DEF TypeOK, Types, Complete, Unfinished, InFlight
<1>2. Unfinished' = Unfinished \ {h}
  BY <1>1 DEF Complete, Unfinished, InFlight
<1>3. Cardinality(Unfinished \ {h}) = Cardinality(Unfinished) - 1
  BY <1>1, UnfinishedFinite, FS_RemoveElement
<1>4. Cardinality(Unfinished) # 0
  BY <1>1, UnfinishedFinite, FS_EmptySet
<1>5. ~Failed => pending' = Cardinality(Unfinished) - 1
  BY <1>4, UnfinishedFinite DEF PendingCountsUnfinished, Complete
<1> QED
  BY <1>2, <1>3, <1>5

LEMMA CountStep ==
    TypeOK /\ WorkerInv /\ PendingCountsUnfinished /\ [Next]_vars
        => PendingCountsUnfinished'
<1> SUFFICES ASSUME TypeOK, WorkerInv, PendingCountsUnfinished, [Next]_vars
             PROVE  PendingCountsUnfinished'
  OBVIOUS
<1>0. DOMAIN at = Handles /\ pending \in Nat
  BY DEF TypeOK, Types
<1>1. ASSUME NEW h \in Handles, Owner(h) PROVE PendingCountsUnfinished'
  <2>1. CASE Submit(h)
    <3>1. h \notin Unfinished
      BY <2>1 DEF Submit, Unfinished, InFlight
    <3>2. Unfinished' = Unfinished \cup {h}
      BY <1>0, <2>1 DEF Submit, Unfinished, InFlight
    <3>3. Cardinality(Unfinished') = Cardinality(Unfinished) + 1
      BY <3>1, <3>2, UnfinishedFinite, FS_AddElement
    <3> QED
      BY <2>1, <3>3 DEF Submit, PendingCountsUnfinished, Failed
  <2>2. CASE ~Submit(h)
    <3>1. Unfinished' = Unfinished
      BY <1>0, <1>1, <2>2
      DEF Owner, Claim, ClaimAcked, ClaimFails, ClaimPanics, Unfinished, InFlight
    <3> QED
      BY <1>1, <2>2, <3>1, CountKept
      DEF Owner, Claim, ClaimAcked, ClaimFails, ClaimPanics, Failed
  <2> QED
    BY <2>1, <2>2
<1>2. ASSUME NEW h \in Handles, Enqueue(h) PROVE PendingCountsUnfinished'
  <2>1. Unfinished' = Unfinished
    BY <1>0, <1>2
    DEF Enqueue, CloneSender, FindClosed, TrySend, Overflow, Disconnected,
        Unfinished, InFlight
  <2> QED
    BY <1>2, <2>1, CountKept
    DEF Enqueue, CloneSender, FindClosed, TrySend, Overflow, Disconnected, Failed
<1>3. ASSUME NEW h \in Handles, Release(h) PROVE PendingCountsUnfinished'
  <2>1. CASE ReleaseAcked(h) \/ ReleaseFails(h)
    <3>1. Unfinished' = Unfinished
      BY <1>0, <2>1 DEF ReleaseAcked, ReleaseFails, Unfinished, InFlight
    <3> QED
      BY <2>1, <3>1, CountKept DEF ReleaseAcked, ReleaseFails, Failed
  <2>2. CASE ReleasePanics(h)
    <3>1. Unfinished' = Unfinished
      BY <1>0, <2>2 DEF ReleasePanics, Unfinished, InFlight
    <3>2. Failed' = Failed
      BY <2>2, HandlesAssumption DEF ReleasePanics, Failed, WorkerInv
    <3> QED
      BY <2>2, <3>1, <3>2, CountKept DEF ReleasePanics
  <2>3. CASE Complete(h)
    <3>1. Failed' = Failed
      BY <2>3, HandlesAssumption DEF Complete, Failed, WorkerInv
    <3> QED
      BY <2>3, <3>1, CompleteCount DEF PendingCountsUnfinished
  <2> QED
    BY <1>3, <2>1, <2>2, <2>3 DEF Release
<1>4. CASE Worker
  <2>1. CASE Fail
    BY <2>1 DEF Fail, Failed, WorkerInv, PendingCountsUnfinished
  <2>2. CASE WorkerTakes
    <3>1. Head(queue) \in Handles /\ at[Head(queue)] = "queued"
      BY <2>2, WorkerTakesQueue
    <3>2. Unfinished' = Unfinished
      BY <1>0, <2>2, <3>1 DEF WorkerTakes, Unfinished, InFlight
    <3> QED
      BY <2>2, <3>2, CountKept DEF WorkerTakes, Failed
  <2>3. CASE WorkerStops \/ WorkerReports
    <3>1. Unfinished' = Unfinished
      BY <2>3 DEF WorkerStops, WorkerReports, Unfinished
    <3> QED
      BY <2>3, <3>1, CountKept DEF WorkerStops, WorkerReports, Failed
  <2>4. CASE WorkerLeaves
    <3>1. Unfinished' = Unfinished
      BY <1>0, <2>4 DEF WorkerLeaves, Unfinished, InFlight
    <3> QED
      BY <2>4, <3>1, CountKept DEF WorkerLeaves, Failed
  <2> QED
    BY <1>4, <2>1, <2>2, <2>3, <2>4 DEF Worker
<1>5. ASSUME NEW d \in Drains,
             StartDrain(d) \/ Draining(d) \/ DrainExpires(d) \/ CancelDrain(d)
      PROVE  PendingCountsUnfinished'
  BY <1>5, CountKept
  DEF StartDrain, Draining, FirstPoll, DrainHears, DrainExpires, CancelDrain,
      Unfinished, Failed
<1>6. ASSUME NEW k \in Closers, TakeSender(k) \/ Closing(k)
      PROVE  PendingCountsUnfinished'
  BY <1>6, CountKept
  DEF TakeSender, Closing, SkipWorker, ReceiveDone, MissDone, TakeDone,
      JoinWorker, CloseDriver, Unfinished, Failed
<1>7. CASE UNCHANGED vars
  BY <1>7, CountKept DEF vars, Unfinished, Failed
<1> QED
  BY <1>1, <1>2, <1>3, <1>4, <1>5, <1>6, <1>7 DEF Next

-----------------------------------------------------------------------------
(* What a drain is told *)

\* When the counter is exact and zero and no failure is recorded, every
\* submitted handle is confirmed.
LEMMA NothingPending ==
    ASSUME PendingCountsUnfinished, CoverInv, pending = 0, ~error
    PROVE  \A h \in Handles : at[h] \in Submitted => h \in acked
<1>1. Unfinished = {}
  BY UnfinishedFinite, FS_EmptySet DEF PendingCountsUnfinished, CoverInv
<1> QED
  BY <1>1 DEF Unfinished, Submitted, CoverInv

\* A step that tells no drain anything, submits or confirms monotonically and
\* settles no handle keeps the cover.
LEMMA CoverKept ==
    ASSUME CoverInv, acked \subseteq acked', error => error',
           UNCHANGED <<heard, covered>>, Failed' => Failed \/ error',
           \A h \in Handles : at[h] \in Submitted => at'[h] \in Submitted,
           \A h \in Handles : at'[h] = "settled" => at[h] = "settled"
    PROVE  CoverInv'
<1>1. Failed' => error'
  BY DEF CoverInv
<1>2. \A h \in Handles : at'[h] = "settled" => h \in acked' \/ error'
  BY DEF CoverInv
<1>3. \A d \in Drains, h \in Handles : h \in covered'[d] => at'[h] \in Submitted
  BY DEF CoverInv
<1>4. \A d \in Drains : heard'[d] = "ok" => covered'[d] \subseteq acked'
  BY DEF CoverInv
<1> QED
  BY <1>1, <1>2, <1>3, <1>4 DEF CoverInv

LEMMA IdleStep == TypeOK /\ IdleInv /\ [Next]_vars => IdleInv'
<1> SUFFICES ASSUME TypeOK, IdleInv, [Next]_vars PROVE IdleInv'
  OBVIOUS
<1>1. DOMAIN drain = Drains /\ DOMAIN heard = Drains
  BY DEF TypeOK, Types
<1>2. CASE UNCHANGED <<drain, heard>>
  BY <1>2 DEF IdleInv
<1>3. ASSUME UNCHANGED drain, WakeWaiters(error') PROVE IdleInv'
  BY <1>1, <1>3 DEF IdleInv, WakeWaiters, Listening
<1>4. ASSUME NEW h \in Handles, Owner(h) \/ Enqueue(h) PROVE IdleInv'
  BY <1>2, <1>4
  DEF Owner, Claim, ClaimAcked, ClaimFails, ClaimPanics, Submit,
      Enqueue, CloneSender, FindClosed, TrySend, Overflow, Disconnected
<1>5. ASSUME NEW h \in Handles, Release(h) PROVE IdleInv'
  BY <1>2, <1>3, <1>5
  DEF Release, ReleaseAcked, ReleaseFails, ReleasePanics, Complete
<1>6. CASE Worker
  <2>1. CASE Fail
    <3>1. error' = TRUE /\ UNCHANGED drain /\ WakeWaiters(TRUE)
      BY <2>1 DEF Fail
    <3> QED
      BY <1>1, <3>1 DEF IdleInv, WakeWaiters, Listening
  <2>2. CASE ~Fail
    BY <1>2, <1>6, <2>2
    DEF Worker, WorkerTakes, WorkerStops, WorkerReports, WorkerLeaves
  <2> QED
    BY <2>1, <2>2
<1>7. ASSUME NEW d \in Drains,
             StartDrain(d) \/ Draining(d) \/ DrainExpires(d) \/ CancelDrain(d)
      PROVE  IdleInv'
  BY <1>1, <1>7
  DEF StartDrain, Draining, FirstPoll, DrainHears, DrainExpires, CancelDrain,
      Listening, IdleInv
<1>8. ASSUME NEW k \in Closers, TakeSender(k) \/ Closing(k) PROVE IdleInv'
  BY <1>2, <1>8
  DEF TakeSender, Closing, SkipWorker, ReceiveDone, MissDone, TakeDone,
      JoinWorker, CloseDriver
<1>9. CASE UNCHANGED vars
  BY <1>2, <1>9 DEF vars
<1> QED
  BY <1>4, <1>5, <1>6, <1>7, <1>8, <1>9 DEF Next

LEMMA CoverStep ==
    /\ TypeOK /\ WorkerInv /\ PendingCountsUnfinished /\ IdleInv /\ CoverInv
    /\ [Next]_vars
    => CoverInv'
<1> SUFFICES ASSUME TypeOK, WorkerInv, PendingCountsUnfinished, IdleInv,
                    CoverInv, [Next]_vars
             PROVE  CoverInv'
  OBVIOUS
<1>0. /\ DOMAIN at = Handles /\ DOMAIN heard = Drains /\ DOMAIN covered = Drains
      /\ covered \in [Drains -> SUBSET Handles]
      /\ acked \subseteq Handles /\ error \in BOOLEAN
  BY DEF TypeOK, Types
<1>1. ASSUME NEW h \in Handles, Owner(h) PROVE CoverInv'
  BY <1>0, <1>1, CoverKept
  DEF Owner, Claim, ClaimAcked, ClaimFails, ClaimPanics, Submit,
      Submitted, InFlight, Failed
<1>2. ASSUME NEW h \in Handles, Enqueue(h) PROVE CoverInv'
  BY <1>0, <1>2, CoverKept
  DEF Enqueue, CloneSender, FindClosed, TrySend, Overflow, Disconnected,
      Submitted, InFlight, Failed
<1>3. ASSUME NEW h \in Handles, Release(h) PROVE CoverInv'
  <2>1. CASE ReleaseAcked(h) \/ ReleaseFails(h)
    BY <1>0, <2>1, CoverKept
    DEF ReleaseAcked, ReleaseFails, Submitted, InFlight, Failed
  <2>2. CASE ReleasePanics(h)
    <3>1. Failed' => Failed
      BY <2>2, HandlesAssumption DEF ReleasePanics, Failed, WorkerInv
    <3> QED
      BY <1>0, <2>2, <3>1, CoverKept DEF ReleasePanics, Submitted, InFlight
  <2>3. CASE Complete(h)
    <3>1. /\ at' = [at EXCEPT ![h] = "settled"] /\ at[h] \in {"answered", "refused"}
          /\ error' = (error \/ h \notin acked)
          /\ UNCHANGED <<acked, covered>>
      BY <2>3 DEF Complete
    <3>2. Failed' = Failed
      BY <2>3, HandlesAssumption DEF Complete, Failed, WorkerInv
    <3>3. Failed' => error'
      BY <3>1, <3>2 DEF CoverInv
    <3>4. \A g \in Handles : at'[g] = "settled" => g \in acked' \/ error'
      BY <1>0, <3>1 DEF CoverInv
    <3>5. \A d \in Drains, g \in Handles : g \in covered'[d] => at'[g] \in Submitted
      BY <1>0, <3>1 DEF CoverInv, Submitted, InFlight
    <3>6. ASSUME NEW d \in Drains, heard'[d] = "ok"
          PROVE  covered'[d] \subseteq acked'
      <4>1. CASE heard[d] = "ok"
        BY <3>1, <4>1 DEF CoverInv
      <4>2. CASE heard[d] # "ok"
        <5>1. pending' = 0 /\ ~error'
          BY <2>3, <3>6, <4>2 DEF Complete, WakeWaiters, Result
        <5>2. ~Failed
          BY <3>2, <3>3, <5>1
        <5>3. Unfinished' = {}
          <6>1. IsFiniteSet(Unfinished')
            BY <2>3, CompleteCount, UnfinishedFinite, FS_RemoveElement
          <6>2. Cardinality(Unfinished') = 0
            BY <2>3, <5>1, <5>2, CompleteCount
          <6> QED
            BY <6>1, <6>2, FS_EmptySet
        <5>4. \A g \in Handles : at'[g] \in Submitted => at'[g] = "settled"
          BY <5>3 DEF Unfinished, Submitted
        <5> QED
          BY <1>0, <3>1, <3>4, <3>5, <5>1, <5>4
      <4> QED
        BY <4>1, <4>2
    <3> QED
      BY <3>3, <3>4, <3>5, <3>6 DEF CoverInv
  <2> QED
    BY <1>3, <2>1, <2>2, <2>3 DEF Release
<1>4. CASE Worker
  <2>1. CASE Fail
    <3>1. /\ error' /\ UNCHANGED <<at, acked, covered>>
      BY <2>1 DEF Fail
    <3>2. \A d \in Drains : heard'[d] = "ok" => heard[d] = "ok"
      BY <2>1 DEF Fail, WakeWaiters, Result
    <3> QED
      BY <3>1, <3>2 DEF CoverInv
  <2>2. CASE WorkerTakes
    <3>1. Head(queue) \in Handles /\ at[Head(queue)] = "queued"
      BY <2>2, WorkerTakesQueue
    <3> QED
      BY <1>0, <2>2, <3>1, CoverKept DEF WorkerTakes, Submitted, InFlight, Failed
  <2>3. CASE WorkerStops \/ WorkerReports
    BY <2>3, CoverKept DEF WorkerStops, WorkerReports, Failed
  <2>4. CASE WorkerLeaves
    BY <1>0, <2>4, CoverKept DEF WorkerLeaves, Submitted, InFlight, Failed
  <2> QED
    BY <1>4, <2>1, <2>2, <2>3, <2>4 DEF Worker
<1>5. ASSUME NEW d \in Drains,
             StartDrain(d) PROVE CoverInv'
  <2>1. /\ UNCHANGED <<at, acked, error>> /\ Failed' = Failed
        /\ covered' = [covered EXCEPT ![d] = {h \in Handles : at[h] \in Submitted}]
    BY <1>5 DEF StartDrain, Failed
  <2>2. \A e \in Drains, h \in Handles : h \in covered'[e] => at'[h] \in Submitted
    BY <1>0, <2>1 DEF CoverInv
  <2>3. ASSUME NEW e \in Drains, heard'[e] = "ok"
        PROVE  covered'[e] \subseteq acked'
    <3>1. CASE e # d
      <4>1. heard'[e] = heard[e] /\ covered'[e] = covered[e]
        BY <1>0, <1>5, <2>1, <3>1 DEF StartDrain
      <4> QED
        BY <2>1, <2>3, <4>1 DEF CoverInv
    <3>2. CASE e = d
      <4>1. pending = 0 /\ ~error
        BY <1>0, <1>5, <2>3, <3>2 DEF StartDrain, Result, IdleInv
      <4>2. covered'[e] = {h \in Handles : at[h] \in Submitted}
        BY <1>0, <2>1, <3>2
      <4> QED
        BY <2>1, <4>1, <4>2, NothingPending
    <3> QED
      BY <3>1, <3>2
  <2> QED
    BY <2>1, <2>2, <2>3 DEF CoverInv
<1>6. ASSUME NEW d \in Drains,
             Draining(d) \/ DrainExpires(d) \/ CancelDrain(d) PROVE CoverInv'
  <2>1. UNCHANGED <<at, acked, error, covered, worker, panicked>>
    BY <1>6 DEF Draining, FirstPoll, DrainHears, DrainExpires, CancelDrain
  <2>2. \A e \in Drains : heard'[e] = "ok" => heard[e] = "ok"
    BY <1>0, <1>6 DEF Draining, FirstPoll, DrainHears, DrainExpires, CancelDrain
  <2> QED
    BY <2>1, <2>2 DEF CoverInv, Failed
<1>7. ASSUME NEW k \in Closers, TakeSender(k) \/ Closing(k) PROVE CoverInv'
  BY <1>7, CoverKept
  DEF TakeSender, Closing, SkipWorker, ReceiveDone, MissDone, TakeDone,
      JoinWorker, CloseDriver, Failed
<1>8. CASE UNCHANGED vars
  BY <1>8, CoverKept DEF vars, Failed
<1> QED
  BY <1>1, <1>2, <1>3, <1>4, <1>5, <1>6, <1>7, <1>8 DEF Next

-----------------------------------------------------------------------------
(* Confirmed releases and the end of the worker *)

LEMMA ReleasedStep == TypeOK /\ ReleasedOnce /\ [Next]_vars => ReleasedOnce'
<1> SUFFICES ASSUME TypeOK, ReleasedOnce, [Next]_vars PROVE ReleasedOnce'
  OBVIOUS
<1>0. DOMAIN at = Handles /\ acked \subseteq Handles
  BY DEF TypeOK, Types
<1> USE DEF ReleasedOnce
<1>1. CASE UNCHANGED <<at, acked>>
  BY <1>1
<1>2. ASSUME NEW h \in Handles, Owner(h) PROVE ReleasedOnce'
  BY <1>0, <1>2 DEF Owner, Claim, ClaimAcked, ClaimFails, ClaimPanics, Submit
<1>3. ASSUME NEW h \in Handles, Enqueue(h) PROVE ReleasedOnce'
  BY <1>0, <1>3
  DEF Enqueue, CloneSender, FindClosed, TrySend, Overflow, Disconnected
<1>4. ASSUME NEW h \in Handles, Release(h) PROVE ReleasedOnce'
  BY <1>0, <1>4
  DEF Release, ReleaseAcked, ReleaseFails, ReleasePanics, Complete
<1>5. CASE Worker
  <2>1. CASE WorkerTakes
    <3>1. Head(queue) \in Handles /\ at[Head(queue)] = "queued"
      BY <2>1, WorkerTakesQueue
    <3> QED
      BY <1>0, <2>1, <3>1 DEF WorkerTakes
  <2>2. CASE WorkerLeaves
    BY <1>0, <2>2 DEF WorkerLeaves
  <2>3. CASE Fail \/ WorkerStops \/ WorkerReports
    BY <1>1, <2>3 DEF Fail, WorkerStops, WorkerReports
  <2> QED
    BY <1>5, <2>1, <2>2, <2>3 DEF Worker
<1>6. ASSUME NEW d \in Drains,
             StartDrain(d) \/ Draining(d) \/ DrainExpires(d) \/ CancelDrain(d)
      PROVE  ReleasedOnce'
  BY <1>1, <1>6
  DEF StartDrain, Draining, FirstPoll, DrainHears, DrainExpires, CancelDrain
<1>7. ASSUME NEW k \in Closers, TakeSender(k) \/ Closing(k) PROVE ReleasedOnce'
  BY <1>1, <1>7
  DEF TakeSender, Closing, SkipWorker, ReceiveDone, MissDone, TakeDone,
      JoinWorker, CloseDriver
<1>8. CASE UNCHANGED vars
  BY <1>1, <1>8 DEF vars
<1> QED
  BY <1>2, <1>3, <1>4, <1>5, <1>6, <1>7, <1>8 DEF Next

Stopped == worker \in {"report", "leaving", "stopped"} /\ ~panicked

LEMMA CleanStopStep ==
    TypeOK /\ WorkerInv /\ CleanStopLeavesNothing /\ [Next]_vars
        => CleanStopLeavesNothing'
<1> SUFFICES ASSUME TypeOK, WorkerInv, CleanStopLeavesNothing, [Next]_vars
             PROVE  CleanStopLeavesNothing'
  OBVIOUS
<1>0. DOMAIN at = Handles
  BY DEF TypeOK, Types
<1>1. ASSUME Stopped' => Stopped,
             \A h \in Handles : Stopped /\ at'[h] \in {"armed", "queued", "releasing"}
                 => at[h] \in {"armed", "queued", "releasing"}
      PROVE  CleanStopLeavesNothing'
  BY <1>1 DEF CleanStopLeavesNothing, Stopped
<1>2. ASSUME NEW h \in Handles, Owner(h) PROVE CleanStopLeavesNothing'
  BY <1>0, <1>1, <1>2
  DEF Owner, Claim, ClaimAcked, ClaimFails, ClaimPanics, Submit, Stopped
<1>3. ASSUME NEW h \in Handles, Enqueue(h) PROVE CleanStopLeavesNothing'
  BY <1>0, <1>1, <1>3
  DEF Enqueue, CloneSender, FindClosed, TrySend, Overflow, Disconnected,
      Stopped, WorkerInv
<1>4. ASSUME NEW h \in Handles, Release(h) PROVE CleanStopLeavesNothing'
  <2>1. CASE ReleaseAcked(h) \/ ReleaseFails(h)
    BY <1>0, <1>1, <2>1 DEF ReleaseAcked, ReleaseFails, Stopped
  <2>2. CASE ReleasePanics(h)
    BY <1>0, <1>1, <2>2, HandlesAssumption DEF ReleasePanics, Stopped, WorkerInv
  <2>3. CASE Complete(h)
    BY <1>0, <1>1, <2>3, HandlesAssumption DEF Complete, Stopped, WorkerInv
  <2> QED
    BY <1>4, <2>1, <2>2, <2>3 DEF Release
<1>5. CASE Worker
  <2>1. CASE Fail \/ WorkerReports
    BY <1>0, <1>1, <2>1 DEF Fail, WorkerReports, Stopped, WorkerInv
  <2>2. CASE WorkerTakes
    BY <2>2 DEF WorkerTakes, CleanStopLeavesNothing
  <2>3. CASE WorkerStops
    <3>1. \A h \in Handles : at[h] # "queued"
      <4>1. queue = <<>> /\ DOMAIN queue = {}
        BY <2>3 DEF WorkerStops
      <4> QED
        BY <4>1 DEF TypeOK, Buffered
    <3>2. \A h \in Handles : at[h] \notin {"armed", "releasing"}
      BY <2>3, HandlesAssumption DEF WorkerStops, Connected, HoldsSender, WorkerInv
    <3> QED
      BY <2>3, <3>1, <3>2 DEF WorkerStops, CleanStopLeavesNothing
  <2>4. CASE WorkerLeaves
    BY <1>0, <1>1, <2>4 DEF WorkerLeaves, Stopped
  <2> QED
    BY <1>5, <2>1, <2>2, <2>3, <2>4 DEF Worker
<1>6. ASSUME NEW d \in Drains,
             StartDrain(d) \/ Draining(d) \/ DrainExpires(d) \/ CancelDrain(d)
      PROVE  CleanStopLeavesNothing'
  BY <1>1, <1>6
  DEF StartDrain, Draining, FirstPoll, DrainHears, DrainExpires, CancelDrain,
      Stopped
<1>7. ASSUME NEW k \in Closers, TakeSender(k) \/ Closing(k)
      PROVE  CleanStopLeavesNothing'
  BY <1>1, <1>7
  DEF TakeSender, Closing, SkipWorker, ReceiveDone, MissDone, TakeDone,
      JoinWorker, CloseDriver, Stopped
<1>8. CASE UNCHANGED vars
  BY <1>1, <1>8 DEF vars, Stopped
<1> QED
  BY <1>2, <1>3, <1>4, <1>5, <1>6, <1>7, <1>8 DEF Next

-----------------------------------------------------------------------------
LEMMA InvInit == Init => IInv
<1> SUFFICES ASSUME Init PROVE IInv
  OBVIOUS
<1>1. TypeOK
  BY TypeInit
<1>2. Unfinished = {}
  BY DEF Init, Unfinished, InFlight
<1>3. PendingCountsUnfinished
  BY <1>2, FS_EmptySet DEF Init, PendingCountsUnfinished
<1>4. WorkerInv /\ IdleInv /\ CoverInv /\ ReleasedOnce /\ CleanStopLeavesNothing
  BY DEF Init, WorkerInv, IdleInv, CoverInv, ReleasedOnce,
         CleanStopLeavesNothing, Failed
<1> QED
  BY <1>1, <1>3, <1>4 DEF IInv

LEMMA Invariance == Spec => []IInv
<1>1. Init => IInv
  BY InvInit
<1>2. IInv /\ [Next]_vars => IInv'
  BY TypeStep, WorkerStep, CountStep, IdleStep, CoverStep, ReleasedStep,
     CleanStopStep
  DEF IInv
<1> QED
  BY <1>1, <1>2, PTL DEF Spec

\* A drain that succeeds found every release submitted before it confirmed.
THEOREM DrainSound == Spec => []DrainOkMeansReleased
<1>1. IInv => DrainOkMeansReleased
  BY DEF IInv, CoverInv, DrainOkMeansReleased
<1> QED
  BY <1>1, Invariance, PTL

\* The pending counter is exact until the worker's panic resets it.
THEOREM CounterExact == Spec => []PendingCountsUnfinished
<1>1. IInv => PendingCountsUnfinished
  BY DEF IInv
<1> QED
  BY <1>1, Invariance, PTL

\* A release the server has confirmed is never asked for again, and a worker
\* that stops without a panic leaves no handle in the queue or on its way.
THEOREM EachReleasedOnce == Spec => []GivenBackOnce
<1>1. IInv => GivenBackOnce
  BY DEF IInv, GivenBackOnce
<1> QED
  BY <1>1, Invariance, PTL

=============================================================================
