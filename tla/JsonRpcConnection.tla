-------------------------- MODULE JsonRpcConnection --------------------------
(***************************************************************************)
(* The thread-backed JSON-RPC connection of corsa_jsonrpc                  *)
(* (src/src/core/corsa_jsonrpc/src/jsonrpc/connection.rs).                 *)
(*                                                                         *)
(* Application threads (Callers) run request_optional_value, notify and    *)
(* respond; Closers run the close sequence; the connection's own writer    *)
(* thread drains the bounded outbound queue into the peer's stdin and its  *)
(* reader thread decodes the peer's frames.  The shared state is the       *)
(* `closed` flag, the Option<SyncSender> behind the `outbound` mutex, the  *)
(* `pending` table and one single-slot reply channel per request.          *)
(*                                                                         *)
(* A step is one access to shared state: everything the code does under    *)
(* one lock, or one atomic operation, is one action, and whatever it does  *)
(* before taking the next lock may interleave.  Deadlines are not          *)
(* modelled as durations: a timeout may fire at any moment of the wait.    *)
(***************************************************************************)
EXTENDS Integers, Sequences, FiniteSets

CONSTANTS
    Callers,      \* application threads
    Closers,      \* threads that run the close sequence
    Reader,       \* the "corsa-jsonrpc-reader" thread
    Writer,       \* the "corsa-jsonrpc-writer" thread
    Capacity,     \* outbound_capacity
    PipeRoom,     \* frames the peer's stdin pipe holds before a write blocks
    PeerRoom,     \* frames the peer's stdout pipe holds before the peer blocks
    MaxCalls,     \* bound: requests issued on the connection
    MaxPosts,     \* bound: notifications posted by the application
    MaxInbound,   \* bound: requests the peer sends
    Timeouts,     \* TRUE when request_timeout is Some
    OwnsChild     \* TRUE when the closer also shuts the peer process down

ASSUME ThreadsAssumption ==
    /\ Callers \cap Closers = {}
    /\ Reader # Writer
    /\ {Reader, Writer} \cap (Callers \cup Closers) = {}

ASSUME SizesAssumption ==
    /\ Capacity \in Nat \ {0}
    /\ PipeRoom \in Nat \ {0}
    /\ PeerRoom \in Nat \ {0}
    /\ MaxCalls \in Nat
    /\ MaxPosts \in Nat
    /\ MaxInbound \in Nat
    /\ Timeouts \in BOOLEAN
    /\ OwnsChild \in BOOLEAN

VARIABLES
    closed,      \* Inner.closed
    nextId,      \* Inner.next_id
    outbound,    \* TRUE while Inner.outbound still holds the sender
    queue,       \* messages buffered in the outbound channel
    writing,     \* the message the writer took from the channel
    writeTask,   \* TRUE while Inner.write_task holds the join handle
    readDone,    \* Inner.read_done: "held", "received" from, or "taken"
    pending,     \* keys of Inner.pending
    slot,        \* content of the reply channel of each request
    callId,      \* request id each caller is working for, 0 when idle
    outcome,     \* what each caller's last request and each close returned
    subscribed,  \* TRUE while the event broadcast has a live receiver
    events,      \* inbound requests handed to the subscriber, not yet answered
    replyTo,     \* inbound request the reader is computing a response for
    toPeer,      \* frames in the peer's stdin pipe
    fromPeer,    \* frames in the peer's stdout pipe
    alive,       \* TRUE until the peer process has exited
    asked,       \* requests the peer has read and not answered
    answered,    \* history: requests whose response the peer has written
    inbound,     \* number of requests the peer has sent
    posts,       \* number of notifications posted
    pc           \* control point of every thread

tasks   == <<writing, writeTask, readDone>>
channel == <<outbound, queue>>
calls   == <<nextId, pending, slot, callId, outcome>>
served  == <<subscribed, events, replyTo, posts>>
wire    == <<toPeer, fromPeer, alive>>
peer    == <<asked, answered, inbound>>
conn    == <<closed, outbound, queue, writing, writeTask, readDone>>
env     == <<subscribed, events, replyTo, toPeer, fromPeer, alive,
             asked, answered, inbound, posts>>
vars    == <<conn, calls, env, pc>>

-----------------------------------------------------------------------------
Ids     == 1..MaxCalls
Threads == Callers \cup Closers \cup {Reader, Writer}

NoMessage == [kind |-> "none", id |-> 0]

\* RawMessage, by what the properties tell apart: requests carry our id,
\* replies carry the peer's id, notifications carry none.
Outgoing == [kind : {"request"}, id : Ids]
              \cup [kind : {"reply"}, id : 1..MaxInbound]
              \cup [kind : {"note"}, id : {0}]

\* "local" and "foreign" are requests with and without a registered handler;
\* "malformed" stands for every frame read_frame, serde or into_kind rejects.
Incoming == [kind : {"response"}, id : Ids]
              \cup [kind : {"local", "foreign"}, id : 1..MaxInbound]
              \cup [kind : {"event", "malformed"}, id : {0}]

Replies  == {"none", "answer", "closed", "transport"}
Outcomes == Replies \cup {"full", "timeout"}

CallLabels   == {"checked", "registered", "refused", "waiting", "expired"}
CloseLabels  == {"drain", "takeOutbound", "takeTask", "joinWriter",
                 "shutdown", "joinReader", "takeDone", "done"}
ThreadLabels == {"recv", "write", "stopped", "read", "reply", "fail",
                 "failOutbound", "failPending", "failed"}
Labels == {"idle"} \cup CallLabels \cup CloseLabels \cup ThreadLabels

Init ==
    /\ closed = FALSE
    /\ nextId = 0
    /\ outbound = TRUE
    /\ queue = <<>>
    /\ writing = NoMessage
    /\ writeTask = TRUE
    /\ readDone = "held"
    /\ pending = {}
    /\ slot = [i \in Ids |-> "none"]
    /\ callId = [c \in Callers |-> 0]
    /\ outcome = [t \in Callers \cup Closers |-> "none"]
    /\ subscribed = FALSE
    /\ events = {}
    /\ replyTo = 0
    /\ toPeer = <<>>
    /\ fromPeer = <<>>
    /\ alive = TRUE
    /\ asked = {}
    /\ answered = {}
    /\ inbound = 0
    /\ posts = 0
    /\ pc = [t \in Threads |-> IF t = Reader THEN "read"
                               ELSE IF t = Writer THEN "recv" ELSE "idle"]

Goto(t, label) == pc' = [pc EXCEPT ![t] = label]
Moves(t, from, to) == pc[t] = from /\ Goto(t, to)

\* The writer drops the channel's receiver when its loop returns.
Receiving == pc[Writer] \notin {"stopped", "failed"}

\* Mutant: the channel has no bound.
SendableUnbounded == outbound /\ Receiving

\* send_outbound: the three results of try_send behind the outbound mutex.
Sendable    == outbound /\ Receiving /\ Len(queue) < Capacity
SendRefusal == IF outbound /\ Receiving THEN "full" ELSE "closed"

\* fail_pending: everything in the table is drained under one lock.
FailPending(error) ==
    /\ pending' = {}
    /\ slot' = [i \in Ids |-> IF i \in pending THEN error ELSE slot[i]]

-----------------------------------------------------------------------------
(* request_optional_value *)

\* The early return of a call made after the connection closed.
CallClosed(c) ==
    /\ pc[c] = "idle"
    /\ closed
    /\ outcome' = [outcome EXCEPT ![c] = "closed"]
    /\ UNCHANGED <<conn, nextId, pending, slot, callId, env, pc>>

\* The load of `closed`, then fetch_add on next_id.  The id is private to
\* the caller until it is in the table, so the two accesses are one step.
CallOpen(c) ==
    /\ Moves(c, "idle", "checked")
    /\ ~closed
    /\ nextId < MaxCalls
    /\ nextId' = nextId + 1
    /\ callId' = [callId EXCEPT ![c] = nextId + 1]
    /\ outcome' = [outcome EXCEPT ![c] = "none"]
    /\ UNCHANGED <<conn, pending, slot, env>>

Register(c) ==
    /\ Moves(c, "checked", "registered")
    /\ pending' = pending \cup {callId[c]}
    /\ UNCHANGED <<conn, nextId, slot, callId, outcome, env>>

SendRequest(c) ==
    /\ Moves(c, "registered", "waiting")
    /\ Sendable
    /\ queue' = Append(queue, [kind |-> "request", id |-> callId[c]])
    /\ UNCHANGED <<closed, outbound, tasks, calls, env>>

RefuseRequest(c) ==
    /\ Moves(c, "registered", "refused")
    /\ ~Sendable
    /\ outcome' = [outcome EXCEPT ![c] = SendRefusal]
    /\ UNCHANGED <<conn, nextId, pending, slot, callId, env>>

\* The reply channel has a value: recv and recv_timeout both return it.
TakeReply(c) ==
    /\ Moves(c, "waiting", "idle")
    /\ slot[callId[c]] # "none"
    /\ outcome' = [outcome EXCEPT ![c] = slot[callId[c]]]
    /\ callId' = [callId EXCEPT ![c] = 0]
    /\ UNCHANGED <<conn, nextId, pending, slot, env>>

\* recv_timeout gives up; the table entry is removed by a later step.
Expire(c) ==
    /\ Timeouts
    /\ Moves(c, "waiting", "expired")
    /\ slot[callId[c]] = "none"
    /\ outcome' = [outcome EXCEPT ![c] = "timeout"]
    /\ UNCHANGED <<conn, nextId, pending, slot, callId, env>>

\* Mutant: a refused request keeps its table entry.
WithdrawExpired(c) ==
    /\ pc[c] \in {"refused", "expired"}
    /\ pending' = IF pc[c] = "expired" THEN pending \ {callId[c]} ELSE pending
    /\ callId' = [callId EXCEPT ![c] = 0]
    /\ Goto(c, "idle")
    /\ UNCHANGED <<conn, nextId, slot, outcome, env>>

\* pending.remove(&id) on the way out of a refused or timed-out request.
Withdraw(c) ==
    /\ pc[c] \in {"refused", "expired"}
    /\ pending' = pending \ {callId[c]}
    /\ callId' = [callId EXCEPT ![c] = 0]
    /\ Goto(c, "idle")
    /\ UNCHANGED <<conn, nextId, slot, outcome, env>>

(* notify, respond and subscribe *)

\* A message that expects no answer: one send_outbound.
Post(c, message) ==
    /\ pc[c] = "idle"
    /\ queue' = IF Sendable THEN Append(queue, message) ELSE queue
    /\ UNCHANGED <<closed, outbound, tasks, calls, subscribed, replyTo, wire,
                   peer, pc>>

Notify(c) ==
    /\ posts < MaxPosts
    /\ posts' = posts + 1
    /\ Post(c, [kind |-> "note", id |-> 0])
    /\ UNCHANGED events

\* The error of a refused response is returned: the request stays answerable.
Respond(c, j) ==
    /\ j \in events
    /\ events' = IF Sendable THEN events \ {j} ELSE events
    /\ Post(c, [kind |-> "reply", id |-> j])
    /\ UNCHANGED posts

SetSubscribed(on) ==
    /\ MaxInbound > 0   \* bound: nothing to subscribe to otherwise
    /\ subscribed # on
    /\ subscribed' = on
    /\ events' = IF on THEN events ELSE {}
    /\ UNCHANGED <<conn, calls, replyTo, wire, peer, posts, pc>>

-----------------------------------------------------------------------------
(* write_loop *)

WriterTakes ==
    /\ Moves(Writer, "recv", "write")
    /\ queue # <<>>
    /\ writing' = Head(queue)
    /\ queue' = Tail(queue)
    /\ UNCHANGED <<closed, outbound, writeTask, readDone, calls, env>>

\* Mutant: stops as soon as the sender is gone, buffered messages or not.
WriterStopsEarly ==
    /\ Moves(Writer, "recv", "stopped")
    /\ ~outbound
    /\ UNCHANGED <<conn, calls, env>>

\* recv fails once the sender is gone and the buffer is empty.
WriterStops ==
    /\ Moves(Writer, "recv", "stopped")
    /\ queue = <<>>
    /\ ~outbound
    /\ UNCHANGED <<conn, calls, env>>

\* write_frame returns once the peer's pipe has room for the frame.
WriteFrame ==
    /\ Moves(Writer, "write", "recv")
    /\ alive
    /\ Len(toPeer) < PipeRoom
    /\ toPeer' = Append(toPeer, writing)
    /\ writing' = NoMessage
    /\ UNCHANGED <<closed, channel, writeTask, readDone, calls, served,
                   fromPeer, alive, peer>>

WriteFails ==
    /\ Moves(Writer, "write", "fail")
    /\ ~alive
    /\ writing' = NoMessage
    /\ UNCHANGED <<closed, channel, writeTask, readDone, calls, env>>

-----------------------------------------------------------------------------
(* read_loop *)

Received == Head(fromPeer)

Consume(kinds) ==
    /\ pc[Reader] = "read"
    /\ fromPeer # <<>>
    /\ Received.kind \in kinds
    /\ fromPeer' = Tail(fromPeer)

\* Mutant: hands the answer to any one waiting request.
RouteToAnyone ==
    /\ Consume({"response"})
    /\ \E i \in pending :
         /\ pending' = pending \ {i}
         /\ slot' = [slot EXCEPT ![i] = "answer"]
    /\ UNCHANGED <<conn, nextId, callId, outcome, served, toPeer, alive, peer,
                   pc>>

\* Removal and send happen under the pending lock; the answer of a request
\* nobody waits for any more is dropped.
RouteResponse ==
    /\ Consume({"response"})
    /\ pending' = pending \ {Received.id}
    /\ slot' = IF Received.id \in pending
                 THEN [slot EXCEPT ![Received.id] = "answer"]
                 ELSE slot
    /\ UNCHANGED <<conn, nextId, callId, outcome, served, toPeer, alive, peer,
                   pc>>

\* A registered handler runs on the reader thread, and a request nobody
\* subscribed to is answered "method not found".
AnswerInbound ==
    /\ \/ Consume({"local"})
       \/ Consume({"foreign"}) /\ ~subscribed
    /\ replyTo' = Received.id
    /\ Goto(Reader, "reply")
    /\ UNCHANGED <<conn, calls, subscribed, events, toPeer, alive, peer,
                   posts>>

\* Mutant: refuses the request without looking at the delivered count.
DeliverAndRefuse ==
    /\ Consume({"foreign"})
    /\ subscribed
    /\ events' = events \cup {Received.id}
    /\ replyTo' = Received.id
    /\ Goto(Reader, "reply")
    /\ UNCHANGED <<conn, calls, subscribed, toPeer, alive, peer, posts>>

DeliverInbound ==
    /\ Consume({"foreign"})
    /\ subscribed
    /\ events' = events \cup {Received.id}
    /\ UNCHANGED <<conn, calls, subscribed, replyTo, toPeer, alive, peer,
                   posts, pc>>

\* The result of this send_outbound is discarded: a full queue loses it.
SendReply ==
    /\ Moves(Reader, "reply", "read")
    /\ queue' = IF Sendable
                  THEN Append(queue, [kind |-> "reply", id |-> replyTo])
                  ELSE queue
    /\ replyTo' = 0
    /\ UNCHANGED <<closed, outbound, tasks, calls, subscribed, events, wire,
                   peer, posts>>

\* A notification goes to its handler or to the subscribers.
DeliverEvent ==
    /\ Consume({"event"})
    /\ UNCHANGED <<conn, calls, served, toPeer, alive, peer, pc>>

RejectFrame ==
    /\ Consume({"malformed"})
    /\ Goto(Reader, "fail")
    /\ UNCHANGED <<conn, calls, served, toPeer, alive, peer>>

\* Mutant: the end of the stream is not a failure of the transport.
EndOfStreamQuiet ==
    /\ Moves(Reader, "read", "failed")
    /\ fromPeer = <<>>
    /\ ~alive
    /\ UNCHANGED <<conn, calls, env>>

EndOfStream ==
    /\ Moves(Reader, "read", "fail")
    /\ fromPeer = <<>>
    /\ ~alive
    /\ UNCHANGED <<conn, calls, env>>

-----------------------------------------------------------------------------
(* fail_transport, run by the reader or the writer *)

\* Mutant: drains the table while the sender can still be used.
MarkClosedKeepsSender(t) ==
    /\ Moves(t, "fail", "failPending")
    /\ closed' = TRUE
    /\ UNCHANGED <<channel, tasks, calls, env>>

MarkClosed(t) ==
    /\ Moves(t, "fail", "failOutbound")
    /\ closed' = TRUE
    /\ UNCHANGED <<channel, tasks, calls, env>>

DropOutbound(t) ==
    /\ Moves(t, "failOutbound", "failPending")
    /\ outbound' = FALSE
    /\ UNCHANGED <<closed, queue, tasks, calls, env>>

\* The loop then returns; a returning writer drops what is still queued.
FailTransportPending(t) ==
    /\ Moves(t, "failPending", "failed")
    /\ FailPending("transport")
    /\ queue' = IF t = Writer THEN <<>> ELSE queue
    /\ UNCHANGED <<closed, outbound, tasks, nextId, callId, outcome, env>>

FailTransport(t) ==
    MarkClosed(t) \/ DropOutbound(t) \/ FailTransportPending(t)

-----------------------------------------------------------------------------
(* begin_close, AsyncChildGuard::shutdown, join_reader *)

\* closed.swap(true): only the closer that flips the flag fails the table.
SwapClosed(k) ==
    /\ Moves(k, "idle", IF closed THEN "takeOutbound" ELSE "drain")
    /\ closed' = TRUE
    /\ UNCHANGED <<channel, tasks, calls, env>>

DrainPending(k) ==
    /\ Moves(k, "drain", "takeOutbound")
    /\ FailPending("closed")
    /\ UNCHANGED <<conn, nextId, callId, outcome, env>>

TakeOutbound(k) ==
    /\ Moves(k, "takeOutbound", "takeTask")
    /\ outbound' = FALSE
    /\ UNCHANGED <<closed, queue, tasks, calls, env>>

AfterWriter == IF OwnsChild THEN "shutdown" ELSE "joinReader"

\* Mutant: the handle is joined after the write_task lock is released.
TakeTaskUnlocked(k) ==
    /\ Moves(k, "takeTask", IF writeTask THEN "joinWriter" ELSE AfterWriter)
    /\ writeTask' = FALSE
    /\ UNCHANGED readDone
    /\ UNCHANGED <<closed, channel, writing, calls, env>>

\* One closer gets the writer's join handle.  It keeps the write_task lock
\* while it joins, so the others wait here for it.
TakeTask(k) ==
    /\ Moves(k, "takeTask", IF writeTask THEN "joinWriter" ELSE AfterWriter)
    /\ \A j \in Closers : pc[j] # "joinWriter"
    /\ writeTask' = FALSE
    /\ UNCHANGED readDone
    /\ UNCHANGED <<closed, channel, writing, calls, env>>

\* task.join() has no deadline.
JoinWriter(k) ==
    /\ Moves(k, "joinWriter", AfterWriter)
    /\ pc[Writer] \in {"stopped", "failed"}
    /\ UNCHANGED <<conn, calls, env>>

\* Waits for the child, kills it at the deadline, and reaps it either way.
ShutdownChild(k) ==
    /\ Moves(k, "shutdown", "joinReader")
    /\ alive' = FALSE
    /\ UNCHANGED <<conn, calls, served, toPeer, fromPeer, peer>>

\* join_reader holds the read_done lock while it waits.  It is done at once
\* when an earlier close took the receiver, and gives up at its deadline.
JoinReader(k) ==
    /\ Moves(k, "joinReader", "done")
    /\ \/ readDone = "taken"
       \/ readDone = "held" /\ pc[Reader] # "failed"
    /\ UNCHANGED <<conn, calls, env>>

\* Mutant: leaves the emptied receiver for the next close to find.
ReceiveDoneOnly(k) ==
    /\ Moves(k, "joinReader", "done")
    /\ readDone = "held"
    /\ pc[Reader] = "failed"
    /\ readDone' = "received"
    /\ UNCHANGED <<closed, channel, writing, writeTask, calls, env>>

\* The reader's result is received; the lock is released and taken again
\* before the receiver is removed.
ReceiveDone(k) ==
    /\ Moves(k, "joinReader", "takeDone")
    /\ readDone = "held"
    /\ pc[Reader] = "failed"
    /\ readDone' = "received"
    /\ UNCHANGED <<closed, channel, writing, writeTask, calls, env>>

\* The receiver is there and the only message in it is gone.
MissDone(k) ==
    /\ Moves(k, "joinReader", "done")
    /\ readDone = "received"
    /\ outcome' = [outcome EXCEPT ![k] = "closed"]
    /\ UNCHANGED <<conn, nextId, pending, slot, callId, env>>

TakeDone(k) ==
    /\ Moves(k, "takeDone", "done")
    /\ readDone' = "taken"
    /\ UNCHANGED <<closed, channel, writing, writeTask, calls, env>>

Close(k) ==
    \/ SwapClosed(k) \/ DrainPending(k) \/ TakeOutbound(k) \/ TakeTask(k)
    \/ JoinWriter(k) \/ ShutdownChild(k)
    \/ JoinReader(k) \/ ReceiveDone(k) \/ MissDone(k) \/ TakeDone(k)

-----------------------------------------------------------------------------
(* The peer process, external *)

PeerReads ==
    /\ alive
    /\ toPeer # <<>>
    /\ toPeer' = Tail(toPeer)
    /\ asked' = IF Head(toPeer).kind = "request"
                  THEN asked \cup {Head(toPeer).id}
                  ELSE asked
    /\ UNCHANGED <<conn, calls, served, fromPeer, alive, answered, inbound,
                   pc>>

PeerWrites(frame) ==
    /\ alive
    /\ Len(fromPeer) < PeerRoom
    /\ fromPeer' = Append(fromPeer, frame)
    /\ UNCHANGED <<conn, calls, served, toPeer, alive, pc>>

PeerAnswers(i) ==
    /\ i \in asked
    /\ asked' = asked \ {i}
    /\ answered' = answered \cup {i}
    /\ PeerWrites([kind |-> "response", id |-> i])
    /\ UNCHANGED inbound

PeerRequests(kind) ==
    /\ inbound < MaxInbound
    /\ inbound' = inbound + 1
    /\ PeerWrites([kind |-> kind, id |-> inbound + 1])
    /\ UNCHANGED <<asked, answered>>

\* A notification, or a frame the reader rejects.
PeerSends(kind) ==
    /\ PeerWrites([kind |-> kind, id |-> 0])
    /\ UNCHANGED <<peer>>

PeerExits ==
    /\ alive
    /\ alive' = FALSE
    /\ UNCHANGED <<conn, calls, served, toPeer, fromPeer, peer, pc>>

-----------------------------------------------------------------------------
\* What a thread that has begun goes on to do.
Finishing(c) ==
    \/ Register(c) \/ SendRequest(c) \/ RefuseRequest(c)
    \/ TakeReply(c) \/ Expire(c) \/ Withdraw(c)

Closing(k) == pc[k] # "idle" /\ Close(k)

Application(c) == Notify(c) \/ \E j \in events : Respond(c, j)

Writing == WriterTakes \/ WriterStops \/ WriteFrame \/ WriteFails
Reading == RouteResponse \/ AnswerInbound \/ DeliverInbound \/ DeliverEvent
             \/ SendReply \/ RejectFrame \/ EndOfStream

Peer ==
    \/ PeerReads
    \/ \E i \in asked : PeerAnswers(i)
    \/ \E kind \in {"local", "foreign"} : PeerRequests(kind)
    \/ \E kind \in {"event", "malformed"} : PeerSends(kind)
    \/ PeerExits

Next ==
    \/ \E c \in Callers : CallClosed(c) \/ CallOpen(c) \/ Finishing(c)
                             \/ Application(c)
    \/ \E on \in BOOLEAN : SetSubscribed(on)
    \/ \E t \in {Reader, Writer} : FailTransport(t)
    \/ \E k \in Closers : Close(k)
    \/ Writing
    \/ Reading
    \/ Peer

Spec == Init /\ [][Next]_vars

\* The threads of this process are scheduled: a started call, both loops and
\* a started close keep taking steps.  Nobody has to start a call or a close.
ThreadFairness ==
    /\ \A c \in Callers : WF_vars(Finishing(c))
    /\ WF_vars(Writing)
    /\ WF_vars(Reading)
    /\ \A t \in {Reader, Writer} : WF_vars(FailTransport(t))
    /\ \A k \in Closers : WF_vars(Closing(k))

FairSpec == Spec /\ ThreadFairness

\* A peer that also drains its stdin as long as it runs.
LivePeerSpec == FairSpec /\ WF_vars(PeerReads)

-----------------------------------------------------------------------------
(* Properties *)

\* Every variable holds a value of the kind the code's type allows.
TypeOK ==
    /\ closed \in BOOLEAN
    /\ nextId \in 0..MaxCalls
    /\ outbound \in BOOLEAN
    /\ queue \in Seq(Outgoing) /\ Len(queue) <= Capacity
    /\ writing \in Outgoing \cup {NoMessage}
    /\ writeTask \in BOOLEAN
    /\ readDone \in {"held", "received", "taken"}
    /\ pending \subseteq Ids
    /\ slot \in [Ids -> Replies]
    /\ callId \in [Callers -> 0..MaxCalls]
    /\ outcome \in [Callers \cup Closers -> Outcomes]
    /\ subscribed \in BOOLEAN
    /\ events \subseteq 1..MaxInbound
    /\ replyTo \in 0..MaxInbound
    /\ toPeer \in Seq(Outgoing) /\ Len(toPeer) <= PipeRoom
    /\ fromPeer \in Seq(Incoming) /\ Len(fromPeer) <= PeerRoom
    /\ alive \in BOOLEAN
    /\ asked \subseteq Ids
    /\ answered \subseteq Ids
    /\ inbound \in 0..MaxInbound
    /\ posts \in 0..MaxPosts
    /\ pc \in [Threads -> Labels]

\* fail_transport takes the sender before it drains the table, so that a
\* request racing with it is either refused or drained: once a failing loop
\* has finished fail_transport, whoever waits for a reply already has one.
FailedTransportStrandsNobody ==
    \A t \in {Reader, Writer}, c \in Callers :
        pc[t] = "failed" /\ pc[c] = "waiting" => slot[callId[c]] # "none"

\* No call leaks its table entry, whichever way it ends: every entry belongs
\* to a call in progress, and its one-slot reply channel is still empty, so
\* the send under the pending lock never blocks the thread that routes it.
PendingIsWaitedFor ==
    \A i \in pending :
        /\ slot[i] = "none"
        /\ \E c \in Callers : pc[c] \in CallLabels /\ callId[c] = i

\* A writer that stopped because the connection closed wrote everything
\* that send_outbound accepted: no later send slips into the channel.
CleanStopLosesNothing ==
    pc[Writer] = "stopped" => queue = <<>> /\ writing = NoMessage

\* Whichever closer got the join handle, none of them goes on to shut the
\* child down or to join the reader while the writer may still write.
CloseWaitsForWriter ==
    \A k \in Closers :
        pc[k] \in {"shutdown", "joinReader", "takeDone", "done"}
            => pc[Writer] \in {"stopped", "failed"}

\* A close reports an error only while another close that has received the
\* reader's result has not yet removed the receiver: closing one after the
\* other never fails.
CloseFailsOnlyInOverlap ==
    [][\A k \in Closers :
         outcome'[k] # outcome[k] =>
             \E j \in Closers \ {k} : pc[j] = "takeDone"]_vars

\* A request of the peer is in one place only, as the request or as its
\* reply, so it is never answered twice: not by a handler and a subscriber,
\* nor by a subscriber after the reader refused it.
AtMostOneReply ==
    \A j \in 1..MaxInbound :
        LET reply == [kind |-> "reply", id |-> j]
            Holds(s) == Cardinality({n \in DOMAIN s : s[n].id = j /\
                            s[n].kind \in {"local", "foreign", "reply"}})
            At(condition)  == IF condition THEN 1 ELSE 0
        IN  Holds(fromPeer) + Holds(queue) + Holds(toPeer) + At(j \in events)
              + At(replyTo = j) + At(writing = reply) <= 1

\* Callers see the promises of RpcCalls.  A call that was refused or timed
\* out has returned once its table entry is withdrawn.
Results == [c \in Callers |-> IF callId[c] = 0 THEN outcome[c] ELSE "none"]

Promised == INSTANCE RpcCalls WITH
    open <- ~closed, issued <- nextId, call <- callId, result <- Results,
    served <- answered

KeepsPromises == Promised!Spec

\* No thread waits for ever.  A call returns when it has a deadline, and when
\* the peer exits, whatever the closers and the transport do; begin_close and
\* everything after it ends.  The writer is joined without a deadline, so it
\* takes LivePeerSpec, a peer that reads or exits.  (There are finitely many
\* calls and closes: each returns just when none stays under way.)
ThreadsReturn ==
    <>[](/\ \A c \in Callers : pc[c] # "idle" => ~Timeouts /\ alive
         /\ \A k \in Closers : pc[k] \in {"idle", "done"})

\* The doc comment of graceful_close (corsa_lsp/.../client.rs:314): "The
\* transport is then drained and closed, and the child is reaped or
\* force-killed within `shutdown_timeout`."  A close returns, whatever the
\* peer does.
CloseEndsAnyway ==
    \A k \in Closers : (pc[k] # "idle") ~> (pc[k] = "done")

\* The doc comment of close (connection.rs:388): "Closes the connection and
\* fails outstanding requests."  A call in progress when close has returned
\* comes to an end.
CloseFailsOutstanding ==
    \A c \in Callers, k \in Closers :
        (pc[k] = "done" /\ pc[c] # "idle") ~> (pc[c] = "idle")

=============================================================================
