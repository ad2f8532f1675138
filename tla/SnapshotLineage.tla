--------------------------- MODULE SnapshotLineage --------------------------
(***************************************************************************)
(* Updates on a runtime whose snapshots derive from an explicit base       *)
(* (src/src/core/corsa_client/src/api/snapshot.rs: SnapshotLineage,        *)
(* AsyncGate, merge_projects; derive_snapshot, close and raw releases in   *)
(* client.rs; each update runs in its own block_on, corsa_runtime          *)
(* executor.rs).                                                           *)
(*                                                                         *)
(* The client keeps the head of the chain, updates take turns behind an    *)
(* async gate, and a lease shared by Arc keeps a snapshot alive on the     *)
(* server.  Strong counts are not stored: a lease has the owners that name *)
(* its snapshot, and whoever stops naming it last enqueues its release,    *)
(* which SnapshotRelease describes.  The server's side of a snapshot is    *)
(* the revision of each project; an update opens, rebuilds or removes one. *)
(* A fork has a lineage of its own, and nothing of this is shared by two.  *)
(***************************************************************************)
EXTENDS Integers, Sequences

CONSTANTS
    Updaters,       \* threads that update, use, release and drop snapshots
    NoUpdater,      \* nobody holds the gate
    ProjectIds,     \* projects of the workspace
    MaxSnapshots    \* bound: updates that are begun

ASSUME LineageAssumption == NoUpdater \notin Updaters /\ MaxSnapshots \in Nat

VARIABLES
    head,        \* snapshot the next update derives from, 0 for none
    listed,      \* project list the client has of each snapshot: id -> revision
    gate,        \* holder of the permit
    waiters,     \* updaters whose wakers the gate has
    notified,    \* Parker.notified of each updater's block_on
    task,        \* control point of each updater
    base,        \* lease an update in flight keeps of its base, or 0
    delta,       \* what the answer of an update reports
    managed,     \* snapshot of each updater's ManagedSnapshot, or 0
    waking,      \* wakers a dropped permit has still to call
    begun,       \* updates begun
    content,     \* server: project revisions of every snapshot made
    alive,       \* server: snapshots not released
    queued,      \* snapshots whose lease was dropped by its last owner
    closing,     \* TRUE once ApiClient::close has begun
    rawReleased, \* history: snapshots released by raw requests
    applied      \* history: all committed updates since the chain began

gates       == <<gate, waiters, notified, waking>>
server      == <<content, alive>>
lineageVars == <<head, listed, gates, task, base, delta, managed, begun, server,
                 queued, closing, rawReleased, applied>>

Empty   == [p \in ProjectIds |-> 0]
NoDelta == [snapshot |-> 0, updated |-> Empty, removed |-> {}]
Made    == DOMAIN content

LineageInit ==
    /\ head = 0 /\ gate = NoUpdater /\ waiters = {} /\ begun = 0
    /\ listed = <<>> /\ content = <<>> /\ alive = {} /\ queued = {}
    /\ notified = [u \in Updaters |-> FALSE]
    /\ task = [u \in Updaters |-> "idle"]
    /\ base = [u \in Updaters |-> 0] /\ managed = [u \in Updaters |-> 0]
    /\ delta = [u \in Updaters |-> NoDelta]
    /\ waking = [u \in Updaters |-> {}]
    /\ closing = FALSE /\ rawReleased = {} /\ applied = Empty

Steps(u, from, to) == task[u] = from /\ task' = [task EXCEPT ![u] = to]

\* Owners of the lease of s: the head, updates derived from it, snapshots given out.
Owned(s) == head = s \/ \E u \in Updaters : base[u] = s \/ managed[u] = s

\* Leases whose last owner lets go in this step are released by the queue.
DropLeases == queued' = queued \cup {s \in Made : Owned(s) /\ ~Owned(s)'}

-----------------------------------------------------------------------------
(* block_on and the gate *)

BeginUpdate(u) ==
    /\ begun < MaxSnapshots /\ managed[u] = 0 /\ Steps(u, "idle", "clear")
    /\ begun' = begun + 1
    /\ UNCHANGED <<head, listed, gates, base, delta, managed, server, queued, closing, rawReleased, applied>>

ClearNotified(u) ==
    /\ Steps(u, "clear", "poll")
    /\ notified' = [notified EXCEPT ![u] = FALSE]
    /\ UNCHANGED <<head, listed, gate, waiters, waking, base, delta, managed, begun, server, queued, closing, rawReleased, applied>>

\* Mutant: the gate is not looked at.
PollUngated(u) ==
    /\ Steps(u, "poll", "granted") /\ gate' = u /\ UNCHANGED waiters
    /\ UNCHANGED <<head, listed, notified, waking, base, delta, managed, begun, server, queued, closing, rawReleased, applied>>

\* GateAcquire::poll: take the permit or leave the waker.
Poll(u) ==
    /\ IF gate = NoUpdater
         THEN Steps(u, "poll", "granted") /\ gate' = u /\ UNCHANGED waiters
         ELSE Steps(u, "poll", "park") /\ waiters' = waiters \cup {u} /\ UNCHANGED gate
    /\ UNCHANGED <<head, listed, notified, waking, base, delta, managed, begun, server, queued, closing, rawReleased, applied>>

Park(u) ==
    /\ notified[u] /\ Steps(u, "park", "clear")
    /\ UNCHANGED <<head, listed, gates, base, delta, managed, begun, server, queued, closing, rawReleased, applied>>

\* Mutant: the permit is kept for a waiter, who asks for it as before.
OpenUnlessWaited(u) ==
    /\ gate' = IF waiters = {} THEN NoUpdater ELSE gate
    /\ waiters' = {}
    /\ waking' = [waking EXCEPT ![u] = waiters]
    /\ UNCHANGED notified

\* Dropping the permit: the gate is open and the wakers are taken, ...
OpenGate(u) ==
    /\ gate' = NoUpdater /\ waiters' = {}
    /\ waking' = [waking EXCEPT ![u] = waiters]
    /\ UNCHANGED notified

\* ... and the wakers are called without the lock.
Wake(u) ==
    /\ Steps(u, "waking", "idle")
    /\ notified' = [v \in Updaters |-> notified[v] \/ v \in waking[u]]
    /\ waking' = [waking EXCEPT ![u] = {}]
    /\ UNCHANGED <<head, listed, gate, waiters, base, delta, managed, begun, server, queued, closing, rawReleased, applied>>

-----------------------------------------------------------------------------
(* derive_snapshot *)

\* SnapshotLineage::advance clones the lease of the head.
ReadBase(u) ==
    /\ Steps(u, "granted", "request")
    /\ base' = [base EXCEPT ![u] = head]
    /\ UNCHANGED <<head, listed, gates, delta, managed, begun, server, queued, closing, rawReleased, applied>>

Revisions(s) == IF s = 0 THEN Empty ELSE content[s]

\* The server makes a snapshot from its base and answers with the projects it
\* added or replaced and with the ids it removed.
Answer(u) ==
    LET s == Len(content) + 1 IN
    /\ base[u] \in alive \cup {0}
    /\ Steps(u, "request", "answered")
    /\ \E p \in ProjectIds, r \in {0, s} :
         /\ content' = Append(content, [Revisions(base[u]) EXCEPT ![p] = r])
         /\ delta' = [delta EXCEPT ![u] =
                        [snapshot |-> s, updated |-> [Empty EXCEPT ![p] = r],
                         removed |-> IF r = 0 THEN {p} ELSE {}]]
    /\ alive' = alive \cup {s}
    /\ UNCHANGED <<head, listed, gates, base, managed, begun, queued, closing, rawReleased, applied>>

\* The request fails, as it does when the server no longer knows the base.
AnswerFails(u) ==
    /\ Steps(u, "request", "waking")
    /\ base' = [base EXCEPT ![u] = 0]
    /\ OpenGate(u)
    /\ UNCHANGED <<head, listed, delta, managed, begun, server, closing, rawReleased, applied>>
    /\ DropLeases

\* merge_projects: removed projects leave the list, updated ones replace or join.
Merge(known, d) ==
    [p \in ProjectIds |-> IF d.updated[p] # 0 THEN d.updated[p]
                          ELSE IF p \in d.removed THEN 0 ELSE known[p]]

\* commit: the new head replaces the old one, whose lease is dropped.
Commit(u) ==
    LET s == delta[u].snapshot
        known == IF base[u] = 0 THEN Empty ELSE listed[base[u]]
    IN  /\ Steps(u, "answered", "leaving")
        /\ listed' = [x \in (DOMAIN listed) \cup {s} |->
                        IF x = s THEN Merge(known, delta[u]) ELSE listed[x]]
        /\ head' = s
        /\ managed' = [managed EXCEPT ![u] = s]
        /\ applied' = [p \in ProjectIds |->
                         CASE p \in delta[u].removed -> 0
                           [] delta[u].updated[p] = 0 /\ p \notin delta[u].removed -> applied[p]
                           [] OTHER -> delta[u].updated[p]]
        /\ UNCHANGED <<gates, base, delta, begun, server, closing, rawReleased>>
        /\ DropLeases

\* The advance is dropped: first the lease of the base, then the permit.
Leave(u) ==
    /\ Steps(u, "leaving", "waking")
    /\ base' = [base EXCEPT ![u] = 0]
    /\ delta' = [delta EXCEPT ![u] = NoDelta]
    /\ OpenGate(u)
    /\ UNCHANGED <<head, listed, managed, begun, server, closing, rawReleased, applied>>
    /\ DropLeases

-----------------------------------------------------------------------------
(* The ways a snapshot goes *)

\* ManagedSnapshot dropped, or released while the lease is shared.
LetGo(u) ==
    /\ managed[u] # 0 /\ task[u] = "idle"
    /\ managed' = [managed EXCEPT ![u] = 0]
    /\ UNCHANGED <<head, listed, gates, task, base, delta, begun, server, closing, rawReleased, applied>>
    /\ DropLeases

\* Mutant: release does not ask who else has the lease.
ReleaseShared(u) ==
    /\ managed[u] # 0 /\ task[u] = "idle"
    /\ alive' = alive \ {managed[u]}
    /\ managed' = [managed EXCEPT ![u] = 0]
    /\ UNCHANGED <<head, listed, gates, task, base, delta, begun, content, queued, closing, rawReleased, applied>>

\* ManagedSnapshot::release by the only owner; when the request fails the lease
\* is put back.
Release(u) == \E s \in Made :
    /\ managed[u] = s /\ task[u] = "idle"
    /\ managed' = [managed EXCEPT ![u] = 0]
    /\ alive' = alive \ {s}
    /\ UNCHANGED <<head, listed, gates, task, base, delta, begun, content, queued, closing, rawReleased, applied>>
    /\ ~Owned(s)'

\* The release queue asks the server for it.
QueueReleases(s) ==
    /\ s \in queued
    /\ queued' = queued \ {s} /\ alive' = alive \ {s}
    /\ UNCHANGED <<head, listed, gates, task, base, delta, managed, begun, content, closing, rawReleased, applied>>

\* A raw release of a handle that was given out is refused for the head ...
RawTest(u, s) ==
    /\ s \in DOMAIN listed /\ s # head /\ Steps(u, "idle", "raw") /\ managed[u] = 0
    /\ delta' = [delta EXCEPT ![u].snapshot = s]
    /\ UNCHANGED <<head, listed, gates, base, managed, begun, server, queued, closing, rawReleased, applied>>

\* ... and sent otherwise, later.
RawSend(u) ==
    /\ Steps(u, "raw", "idle")
    /\ alive' = alive \ {delta[u].snapshot}
    /\ rawReleased' = rawReleased \cup {delta[u].snapshot}
    /\ delta' = [delta EXCEPT ![u] = NoDelta]
    /\ UNCHANGED <<head, listed, gates, base, managed, begun, content, queued, closing, applied>>

\* close: the client lets go of the head, whatever is in flight.
ClearLineage ==
    /\ ~closing /\ closing' = TRUE
    /\ head' = 0 /\ applied' = Empty
    /\ UNCHANGED <<listed, gates, task, base, delta, managed, begun, server, rawReleased>>
    /\ DropLeases

-----------------------------------------------------------------------------
LineageContinues(u) ==
    \/ ClearNotified(u) \/ Poll(u) \/ Park(u) \/ ReadBase(u) \/ Answer(u) \/ AnswerFails(u)
    \/ Commit(u) \/ Leave(u) \/ Wake(u)

LineageNext ==
    \/ \E u \in Updaters :
         \/ LineageContinues(u) \/ BeginUpdate(u) \/ LetGo(u) \/ Release(u) \/ RawSend(u)
         \/ \E s \in 1..MaxSnapshots : RawTest(u, s)
    \/ \E s \in 1..MaxSnapshots : QueueReleases(s)
    \/ ClearLineage

LineageSpec == LineageInit /\ [][LineageNext]_lineageVars

\* Threads run and requests are answered or fail.  The gate is not first come,
\* first served; it is the bound on updates that keeps others from barging in.
LineageFairness == \A u \in Updaters : WF_lineageVars(LineageContinues(u))

-----------------------------------------------------------------------------
\* The revision of a project is the snapshot that brought it.
Lists == [ProjectIds -> Made \cup {0}]

Tasks == {"idle", "clear", "poll", "park", "granted", "request", "answered", "leaving", "waking", "raw"}

LineageTypeOK ==
    /\ content \in Seq(Lists) /\ applied \in Lists
    /\ head \in Made \cup {0} /\ alive \subseteq Made /\ queued \subseteq Made
    /\ DOMAIN listed \subseteq Made /\ listed \in [DOMAIN listed -> Lists]
    /\ delta \in [Updaters -> [snapshot : Made \cup {0}, updated : Lists,
                               removed : SUBSET ProjectIds]]
    /\ gate \in Updaters \cup {NoUpdater} /\ waiters \subseteq Updaters
    /\ task \in [Updaters -> Tasks]
    /\ base \in [Updaters -> Made \cup {0}] /\ managed \in [Updaters -> Made \cup {0}]
    /\ rawReleased \cap alive = {}

(* "without either of them releasing it underneath the other" (snapshot.rs:   *)
(* 176): what somebody has a lease of is alive on the server, unless a raw    *)
(* release named it -- which the client refuses for its head.                  *)
LeasedIsAlive ==
    /\ \A s \in Made : Owned(s) => s \in alive \cup rawReleased
    /\ head \notin rawReleased

(* An update finds its base on the server; only a raw release between the     *)
(* clear of a close and the end of the connection can take it.                *)
BaseFound == \A u \in Updaters :
    task[u] = "request" /\ base[u] # 0
        => base[u] \in (IF closing THEN alive \cup rawReleased ELSE alive)

(* No snapshot stays on the server that nobody can release: it has an owner,  *)
(* or is queued, or is the answer an update is about to commit.                *)
NothingLeaks == \A s \in alive :
    Owned(s) \/ s \in queued \/ \E u \in Updaters : task[u] = "answered" /\ delta[u].snapshot = s

(* The server's snapshots and the client's leases agree, in both directions.  *)
SnapshotsAccounted == LeasedIsAlive /\ BaseFound /\ NothingLeaks

(* "two concurrent updates from one base would lose a change" (snapshot.rs:   *)
(* 229): the head has every update committed since the chain began, and the   *)
(* client's project list is the server's although answers report a delta.     *)
ChangesAccumulate ==
    head # 0 /\ ~closing => content[head] = applied /\ listed[head] = content[head]

(* Every update gets the gate and returns: no wake-up of a waiter is lost     *)
(* between the gate and the parker of its block_on.                           *)
UpdatesReturn == \A u \in Updaters : task[u] = "clear" ~> task[u] = "idle"
=============================================================================
