--------------------------- MODULE SnapshotRelease ---------------------------
(***************************************************************************)
(* How a client gives server snapshots back                                *)
(* (src/src/core/corsa_client/src/api/snapshot.rs,                         *)
(* snapshot_release_drain.rs and ApiClient::close in client.rs).           *)
(*                                                                         *)
(* Every handle is held by one lease.  Its owner releases it explicitly    *)
(* (ManagedSnapshot::release) or lets the last reference go, and then the  *)
(* lease's drop enqueues it: the handle is counted in ReleaseProgress,     *)
(* sent through a bounded channel to the release worker, released on the   *)
(* owner's own thread when the channel is full, and given up when the      *)
(* channel is closed.  Drains wait until nothing is pending.  Closers run  *)
(* ApiClient::close.                                                       *)
(*                                                                         *)
(* A step is one access to shared state.  The state of the thread that     *)
(* works for a handle is kept with the handle.  The release request itself *)
(* is one step: it is answered or it fails, as JsonRpcConnection says of   *)
(* every request.  A deadline may pass at any moment of a wait.            *)
(***************************************************************************)
EXTENDS Integers, Sequences, FiniteSets, Functions

CONSTANTS
    Handles,    \* snapshot handles the server has given out
    Drains,     \* calls of drain_snapshot_releases
    Closers,    \* calls of ApiClient::close
    NoHandle,   \* the worker has nothing in hand
    Capacity,   \* bound of the release channel
    Deadlines,  \* TRUE when the deadline of a drain may pass
    Refusals,   \* TRUE when a release request may fail
    Panics      \* TRUE when the profiler called by a release may panic

ASSUME HandlesAssumption == IsFiniteSet(Handles) /\ NoHandle \notin Handles

ASSUME OptionsAssumption ==
    /\ Capacity \in Nat \ {0}
    /\ {Deadlines, Refusals, Panics} \subseteq BOOLEAN

VARIABLES
    at,          \* where each handle is on its way back
    acked,       \* handles whose release the server has confirmed
    pending,     \* ProgressState.pending
    error,       \* TRUE once ProgressState.error holds one
    waiters,     \* drains registered in ProgressState.waiters
    sender,      \* TRUE while SnapshotReleaseQueue.sender holds the sender
    queue,       \* handles buffered in the release channel
    working,     \* the handle the worker is releasing
    worker,      \* control point of the "corsa-snapshot-release" thread
    panicked,    \* TRUE once the worker has panicked
    done,        \* SnapshotReleaseQueue.done and the message in it
    drain,       \* state of each drain future
    heard,       \* what the channel of each drain contains, or it returned
    covered,     \* history: handles submitted before each drain was called
    closing,     \* control point of each close
    driverOpen   \* FALSE once ClientDriver::close has run

progress == <<pending, error, waiters>>
channel  == <<sender, queue>>
thread   == <<working, worker, panicked, done>>
waits    == <<drain, heard, covered>>
closes   == <<closing, driverOpen>>
vars     == <<at, acked, progress, channel, thread, waits, closes>>

-----------------------------------------------------------------------------
\* Labels of a handle.  A handle is submitted from "counted" on.
InFlight  == {"counted", "armed", "refused", "queued", "releasing", "answered"}
Submitted == InFlight \cup {"settled", "abandoned"}
Labels    == Submitted \cup {"held", "claimed", "released", "leaked"}

Init ==
    /\ at = [h \in Handles |-> "held"]
    /\ acked = {}
    /\ pending = 0
    /\ error = FALSE
    /\ waiters = {}
    /\ sender = TRUE
    /\ queue = <<>>
    /\ working = NoHandle
    /\ worker = "recv"
    /\ panicked = FALSE
    /\ done = "pending"
    /\ drain = [d \in Drains |-> "idle"]
    /\ heard = [d \in Drains |-> "none"]
    /\ covered = [d \in Drains |-> {}]
    /\ closing = [k \in Closers |-> "idle"]
    /\ driverOpen = TRUE

Moves(h, from, to) == at[h] = from /\ at' = [at EXCEPT ![h] = to]

\* The receiver lives as long as the worker thread's closure.
Receiving == worker # "stopped"

\* enqueue keeps its clone of the sender while it releases on its own thread.
HoldsSender(h) ==
    \/ at[h] = "armed"
    \/ at[h] \in {"releasing", "answered"} /\ h # working

Connected == sender \/ \E h \in Handles : HoldsSender(h)

\* A drain keeps its strong sender until it is woken, expires or is dropped;
\* the registrations in `waiters` are weak.
Listening(d) == drain[d] \in {"new", "waiting"}

Result(failed) == IF failed THEN "error" ELSE "ok"

\* wake_waiters: every registered drain that still listens gets the result.
WakeWaiters(failed) ==
    /\ waiters' = {}
    /\ heard' = [d \in Drains |-> IF d \in waiters /\ Listening(d)
                                    THEN Result(failed) ELSE heard[d]]

-----------------------------------------------------------------------------
(* SnapshotLease and ManagedSnapshot::release *)

\* The lease is taken out of the snapshot and marked released.
Claim(h) ==
    /\ Moves(h, "held", "claimed")
    /\ UNCHANGED <<acked, progress, channel, thread, waits, closes>>

ClaimAcked(h) ==
    /\ Moves(h, "claimed", "released")
    /\ driverOpen
    /\ acked' = acked \cup {h}
    /\ UNCHANGED <<progress, channel, thread, waits, closes>>

\* A failed release puts the lease back, for a later release or drop.
ClaimFails(h) ==
    /\ Refusals \/ ~driverOpen
    /\ Moves(h, "claimed", "held")
    /\ UNCHANGED <<acked, progress, channel, thread, waits, closes>>

\* The lease is unwound while it is marked released.
ClaimPanics(h) ==
    /\ Panics
    /\ Moves(h, "claimed", "leaked")
    /\ UNCHANGED <<acked, progress, channel, thread, waits, closes>>

(* SnapshotReleaseQueue::enqueue, called by the drop of the lease *)

Submit(h) ==
    /\ Moves(h, "held", "counted")
    /\ pending' = pending + 1
    /\ UNCHANGED <<acked, error, waiters, channel, thread, waits, closes>>

\* The sender is cloned under its lock, and used after the lock is released.
CloneSender(h) ==
    /\ sender
    /\ Moves(h, "counted", "armed")
    /\ UNCHANGED <<acked, progress, channel, thread, waits, closes>>

FindClosed(h) ==
    /\ ~sender
    /\ Moves(h, "counted", "refused")
    /\ UNCHANGED <<acked, progress, channel, thread, waits, closes>>

\* Mutant: the channel has no bound.
TrySendUnbounded(h) ==
    /\ Receiving
    /\ Moves(h, "armed", "queued")
    /\ queue' = Append(queue, h)
    /\ UNCHANGED <<acked, progress, sender, thread, waits, closes>>

TrySend(h) ==
    /\ Receiving
    /\ Len(queue) < Capacity
    /\ Moves(h, "armed", "queued")
    /\ queue' = Append(queue, h)
    /\ UNCHANGED <<acked, progress, sender, thread, waits, closes>>

\* TrySendError::Full: released on the current thread.
Overflow(h) ==
    /\ Receiving
    /\ Len(queue) >= Capacity
    /\ Moves(h, "armed", "releasing")
    /\ UNCHANGED <<acked, progress, channel, thread, waits, closes>>

Disconnected(h) ==
    /\ ~Receiving
    /\ Moves(h, "armed", "refused")
    /\ UNCHANGED <<acked, progress, channel, thread, waits, closes>>

(* release_handle, on the worker or on an overflowing thread *)

ReleaseAcked(h) ==
    /\ Moves(h, "releasing", "answered")
    /\ driverOpen
    /\ acked' = acked \cup {h}
    /\ UNCHANGED <<progress, channel, thread, waits, closes>>

ReleaseFails(h) ==
    /\ Refusals \/ ~driverOpen
    /\ Moves(h, "releasing", "answered")
    /\ UNCHANGED <<acked, progress, channel, thread, waits, closes>>

\* catch_unwind keeps a panic of the worker; on another thread it unwinds
\* through enqueue, past the call of complete.
ReleasePanics(h) ==
    /\ Panics
    /\ Moves(h, "releasing", "abandoned")
    /\ IF h = working
         THEN /\ worker' = "panicked"
              /\ working' = NoHandle
              /\ panicked' = TRUE
         ELSE UNCHANGED <<working, worker, panicked>>
    /\ UNCHANGED <<acked, progress, channel, done, waits, closes>>

(* ReleaseProgress::complete and fail *)

\* Mutant: a drain is woken before the failure is recorded.
CompleteBeforeError(h) ==
    /\ at[h] \in {"answered", "refused"}
    /\ at' = [at EXCEPT ![h] = "settled"]
    /\ pending' = IF pending = 0 THEN 0 ELSE pending - 1
    /\ error' = (error \/ h \notin acked)
    /\ IF pending' = 0 THEN WakeWaiters(error) ELSE UNCHANGED <<waiters, heard>>
    /\ IF h = working
         THEN working' = NoHandle /\ worker' = "recv"
         ELSE UNCHANGED <<working, worker>>
    /\ UNCHANGED <<acked, channel, panicked, done, drain, covered, closes>>

\* Mutant: only the worker's own releases are completed.
CompleteWorkerOnly(h) ==
    /\ at[h] \in {"answered", "refused"}
    /\ at' = [at EXCEPT ![h] = "settled"]
    /\ pending' = IF pending = 0 \/ h # working THEN pending ELSE pending - 1
    /\ error' = (error \/ h \notin acked)
    /\ IF pending' = 0 THEN WakeWaiters(error') ELSE UNCHANGED <<waiters, heard>>
    /\ IF h = working
         THEN working' = NoHandle /\ worker' = "recv"
         ELSE UNCHANGED <<working, worker>>
    /\ UNCHANGED <<acked, channel, panicked, done, drain, covered, closes>>

\* The first error stays; the last completion wakes the drains.
Complete(h) ==
    /\ at[h] \in {"answered", "refused"}
    /\ at' = [at EXCEPT ![h] = "settled"]
    /\ pending' = IF pending = 0 THEN 0 ELSE pending - 1
    /\ error' = (error \/ h \notin acked)
    /\ IF pending' = 0 THEN WakeWaiters(error') ELSE UNCHANGED <<waiters, heard>>
    /\ IF h = working
         THEN working' = NoHandle /\ worker' = "recv"
         ELSE UNCHANGED <<working, worker>>
    /\ UNCHANGED <<acked, channel, panicked, done, drain, covered, closes>>

\* The worker's closure was unwound: progress fails for everything pending.
Fail ==
    /\ worker = "panicked"
    /\ worker' = "report"
    /\ pending' = 0
    /\ error' = TRUE
    /\ WakeWaiters(TRUE)
    /\ UNCHANGED <<at, acked, channel, working, panicked, done, drain, covered,
                   closes>>

-----------------------------------------------------------------------------
(* The release worker *)

WorkerTakes ==
    /\ worker = "recv"
    /\ queue # <<>>
    /\ worker' = "release"
    /\ working' = Head(queue)
    /\ queue' = Tail(queue)
    /\ at' = [at EXCEPT ![Head(queue)] = "releasing"]
    /\ UNCHANGED <<acked, progress, sender, panicked, done, waits, closes>>

\* Mutant: stops when the queue is closed, clones of the sender or not.
WorkerStopsEarly ==
    /\ worker = "recv"
    /\ queue = <<>>
    /\ ~sender
    /\ worker' = "report"
    /\ UNCHANGED <<at, acked, progress, channel, working, panicked, done,
                   waits, closes>>

\* recv fails once the buffer is empty and the last sender is dropped.
WorkerStops ==
    /\ worker = "recv"
    /\ queue = <<>>
    /\ ~Connected
    /\ worker' = "report"
    /\ UNCHANGED <<at, acked, progress, channel, working, panicked, done,
                   waits, closes>>

WorkerReports ==
    /\ worker = "report"
    /\ worker' = "leaving"
    /\ done' = "sent"
    /\ UNCHANGED <<at, acked, progress, channel, working, panicked, waits,
                   closes>>

\* The receiver goes with the closure, and with it what is still buffered.
WorkerLeaves ==
    /\ worker = "leaving"
    /\ worker' = "stopped"
    /\ queue' = <<>>
    /\ at' = [h \in Handles |-> IF at[h] = "queued" THEN "abandoned" ELSE at[h]]
    /\ UNCHANGED <<acked, progress, sender, working, panicked, done, waits,
                   closes>>

-----------------------------------------------------------------------------
(* ReleaseProgress::drain and the ReleaseDrain future *)

\* Mutant: always waits for a completion.
StartDrainBlind(d) ==
    /\ drain[d] = "idle"
    /\ drain' = [drain EXCEPT ![d] = "new"]
    /\ covered' = [covered EXCEPT ![d] = {h \in Handles : at[h] \in Submitted}]
    /\ waiters' = {w \in waiters : Listening(w)} \cup {d}
    /\ UNCHANGED <<at, acked, pending, error, channel, thread, heard, closes>>

StartDrain(d) ==
    /\ drain[d] = "idle"
    /\ drain' = [drain EXCEPT ![d] = "new"]
    /\ covered' = [covered EXCEPT ![d] = {h \in Handles : at[h] \in Submitted}]
    /\ LET live == {w \in waiters : Listening(w)}
       IN  IF pending = 0
             THEN /\ heard' = [heard EXCEPT ![d] = Result(error)]
                  /\ waiters' = live
             ELSE /\ waiters' = live \cup {d}
                  /\ UNCHANGED heard
    /\ UNCHANGED <<at, acked, pending, error, channel, thread, closes>>

\* The first poll finds the answer or starts the waiting thread.
FirstPoll(d) ==
    /\ drain[d] = "new"
    /\ drain' = [drain EXCEPT ![d] = IF heard[d] = "none" THEN "waiting"
                                                          ELSE "returned"]
    /\ UNCHANGED <<at, acked, progress, channel, thread, heard, covered, closes>>

\* The thread receives, stores the result and wakes the future.
DrainHears(d) ==
    /\ drain[d] = "waiting"
    /\ heard[d] # "none"
    /\ drain' = [drain EXCEPT ![d] = "returned"]
    /\ UNCHANGED <<at, acked, progress, channel, thread, heard, covered, closes>>

DrainExpires(d) ==
    /\ Deadlines
    /\ drain[d] = "waiting"
    /\ heard[d] = "none"
    /\ drain' = [drain EXCEPT ![d] = "returned"]
    /\ heard' = [heard EXCEPT ![d] = "timeout"]
    /\ UNCHANGED <<at, acked, progress, channel, thread, covered, closes>>

CancelDrain(d) ==
    /\ Listening(d)
    /\ drain' = [drain EXCEPT ![d] = "cancelled"]
    /\ UNCHANGED <<at, acked, progress, channel, thread, heard, covered, closes>>

-----------------------------------------------------------------------------
(* ApiClient::close: SnapshotReleaseQueue::close, then the driver's *)

Steps(k, from, to) == closing[k] = from /\ closing' = [closing EXCEPT ![k] = to]

TakeSender(k) ==
    /\ Steps(k, "idle", "wait")
    /\ sender' = FALSE
    /\ UNCHANGED <<at, acked, progress, queue, thread, waits, driverOpen>>

\* wait_for_worker: an earlier close took the receiver, or the deadline
\* passes, and the close goes on to the driver.
SkipWorker(k) ==
    /\ Steps(k, "wait", "driver")
    /\ done \in {"taken", "pending"}
    /\ UNCHANGED <<at, acked, progress, channel, thread, waits, driverOpen>>

ReceiveDone(k) ==
    /\ Steps(k, "wait", "takeDone")
    /\ done = "sent"
    /\ done' = "received"
    /\ UNCHANGED <<at, acked, progress, channel, working, worker, panicked,
                   waits, driverOpen>>

\* The receiver is there and the only message in it is gone.
MissDone(k) ==
    /\ Steps(k, "wait", "failed")
    /\ done = "received"
    /\ UNCHANGED <<at, acked, progress, channel, thread, waits, driverOpen>>

TakeDone(k) ==
    /\ Steps(k, "takeDone", "join")
    /\ done' = "taken"
    /\ UNCHANGED <<at, acked, progress, channel, working, worker, panicked,
                   waits, driverOpen>>

\* A panic of the worker fails the close before it reaches the driver.
JoinWorker(k) ==
    /\ Steps(k, "join", IF panicked THEN "failed" ELSE "driver")
    /\ worker = "stopped"
    /\ UNCHANGED <<at, acked, progress, channel, thread, waits, driverOpen>>

CloseDriver(k) ==
    /\ Steps(k, "driver", "closed")
    /\ driverOpen' = FALSE
    /\ UNCHANGED <<at, acked, progress, channel, thread, waits>>

-----------------------------------------------------------------------------
Owner(h) ==
    \/ Claim(h) \/ ClaimAcked(h) \/ ClaimFails(h) \/ ClaimPanics(h)
    \/ Submit(h)

\* What a thread that has begun to give a handle back goes on to do.
Enqueue(h) ==
    \/ CloneSender(h) \/ FindClosed(h)
    \/ TrySend(h) \/ Overflow(h) \/ Disconnected(h)

Release(h) ==
    \/ ReleaseAcked(h) \/ ReleaseFails(h) \/ ReleasePanics(h) \/ Complete(h)

Worker == Fail \/ WorkerTakes \/ WorkerStops \/ WorkerReports \/ WorkerLeaves

Draining(d) == FirstPoll(d) \/ DrainHears(d)

Closing(k) ==
    \/ SkipWorker(k) \/ ReceiveDone(k) \/ MissDone(k) \/ TakeDone(k)
    \/ JoinWorker(k) \/ CloseDriver(k)

Next ==
    \/ \E h \in Handles : Owner(h) \/ Enqueue(h) \/ Release(h)
    \/ Worker
    \/ \E d \in Drains : StartDrain(d) \/ Draining(d) \/ DrainExpires(d) \/ CancelDrain(d)
    \/ \E k \in Closers : TakeSender(k) \/ Closing(k)

Spec == Init /\ [][Next]_vars

\* Threads that have begun are scheduled and their requests end, by an
\* answer or at the request timeout; woken futures are polled.  Nobody has to
\* drop a lease, to drain or to close, and no deadline has to pass: a drain
\* may have none.
FairSpec ==
    /\ Spec
    /\ \A h \in Handles : WF_vars(Enqueue(h)) /\ WF_vars(Release(h))
    /\ WF_vars(Worker)
    /\ \A d \in Drains : WF_vars(Draining(d))
    /\ \A k \in Closers : WF_vars(Closing(k))

-----------------------------------------------------------------------------
(* Properties *)

\* Every variable holds a value of the kind the code's type allows.
Types ==
    /\ at \in [Handles -> Labels]
    /\ acked \subseteq Handles
    /\ pending \in Nat
    /\ error \in BOOLEAN
    /\ waiters \subseteq Drains
    /\ sender \in BOOLEAN
    /\ queue \in Seq(Handles) /\ Len(queue) <= Capacity
    /\ working \in Handles \cup {NoHandle}
    /\ worker \in {"recv", "release", "panicked", "report", "leaving", "stopped"}
    /\ panicked \in BOOLEAN
    /\ done \in {"pending", "sent", "received", "taken"}
    /\ drain \in [Drains -> {"idle", "new", "waiting", "returned", "cancelled"}]
    /\ heard \in [Drains -> {"none", "ok", "error", "timeout"}]
    /\ covered \in [Drains -> SUBSET Handles]
    /\ closing \in [Closers -> {"idle", "wait", "takeDone", "join", "driver",
                                "closed", "failed"}]
    /\ driverOpen \in BOOLEAN

\* The channel holds the handles sent to it and not taken, each once.
Buffered ==
    /\ \A h \in Handles : at[h] = "queued" <=> \E n \in DOMAIN queue : queue[n] = h
    /\ IsInjective(queue)

TypeOK == Types /\ Buffered

\* What drain_snapshot_releases promises: when it succeeds, the server has
\* confirmed every release that was submitted before it was called, those on
\* an overflowing thread included, and none of them had failed.
DrainOkMeansReleased ==
    \A d \in Drains :
        drain[d] = "returned" /\ heard[d] = "ok" => covered[d] \subseteq acked

\* The counter counts what was submitted and is not completed, until a panic
\* of the worker resets it; a release whose thread panicked is never
\* completed and is counted for ever.
Unfinished == {h \in Handles : at[h] \in InFlight \cup {"abandoned"}}
Failed     == panicked /\ worker # "panicked"

PendingCountsUnfinished == ~Failed => pending = Cardinality(Unfinished)

\* Once the server has confirmed a release nobody asks for it again: not the
\* drop of a lease that was released explicitly, nor the worker.
ReleasedOnce ==
    \A h \in acked : at[h] \in {"released", "answered", "settled"}

\* The worker stops by itself only when nothing can arrive any more: no
\* handle is left behind in the queue by a thread that cloned the sender
\* before it was taken, and no overflowing thread is still releasing.
CleanStopLeavesNothing ==
    worker \in {"report", "leaving", "stopped"} /\ ~panicked =>
        \A h \in Handles : at[h] \notin {"armed", "queued", "releasing"}

\* A lease is given back once, and one that was dropped is given back: by the
\* worker, or by the thread that found the channel full or closed.
GivenBackOnce == ReleasedOnce /\ CleanStopLeavesNothing

\* Unless a thread panics, a drain needs no deadline, and every lease that
\* was dropped is accounted for, whoever closes the queue meanwhile.
AnyPanic == panicked \/ \E h \in Handles : at[h] = "abandoned"

NothingWaitsForever ==
    /\ \A d \in Drains : Listening(d) ~> (~Listening(d) \/ AnyPanic)
    /\ \A h \in Handles : (at[h] = "counted") ~> (at[h] = "settled" \/ AnyPanic)

\* The doc comment of ApiClient::close (client.rs:557): "Closes the client
\* and shuts down the underlying worker process."
CloseShutsDown ==
    \A k \in Closers : (closing[k] \in {"closed", "failed"}) ~> ~driverOpen

=============================================================================
