----------------------- MODULE JsonRpcConnectionProofs -----------------------
(* Theorems about JsonRpcConnection, for every number of threads, every queue *)
(* capacity and every bound. *)
EXTENDS JsonRpcConnection, SequenceTheorems, FunctionTheorems, FiniteSetTheorems, TLAPS

USE DEF tasks, channel, calls, served, wire, peer, conn, env, Moves

\* What TypeOK needs to be inductive: a thread that is about to put a message
\* somewhere has one.
MessagesAtHand ==
    /\ \A c \in Callers : pc[c] \in CallLabels => callId[c] \in Ids
    /\ pc[Reader] = "reply" => replyTo \in 1..MaxInbound
    /\ pc[Writer] = "write" => writing \in Outgoing

TypeInv == TypeOK /\ MessagesAtHand

LEMMA Kinds ==
    /\ \A i \in Ids : [kind |-> "request", id |-> i] \in Outgoing
    /\ \A j \in 1..MaxInbound : [kind |-> "reply", id |-> j] \in Outgoing
    /\ [kind |-> "note", id |-> 0] \in Outgoing
    /\ \A m \in Outgoing : m.kind = "request" => m.id \in Ids
    /\ \A i \in Ids : [kind |-> "response", id |-> i] \in Incoming
    /\ \A kind \in {"local", "foreign"}, j \in 1..MaxInbound :
           [kind |-> kind, id |-> j] \in Incoming
    /\ \A kind \in {"event", "malformed"} : [kind |-> kind, id |-> 0] \in Incoming
    /\ \A m \in Incoming : m.kind = "response" => m.id \in Ids
    /\ \A m \in Incoming : m.kind \in {"local", "foreign"} => m.id \in 1..MaxInbound
BY DEF Outgoing, Incoming

\* Taking a frame from the peer's stdout: it is a frame, and the others stay.
LEMMA Consumed ==
    ASSUME TypeOK, NEW kinds, Consume(kinds)
    PROVE  /\ Received.kind = "response" => Received.id \in Ids
           /\ Received.kind \in {"local", "foreign"} => Received.id \in 1..MaxInbound
           /\ fromPeer' \in Seq(Incoming) /\ Len(fromPeer') <= PeerRoom
<1>1. Received \in Incoming
  BY DEF TypeOK, Consume, Received
<1>2. fromPeer' \in Seq(Incoming) /\ Len(fromPeer') <= PeerRoom
  BY SizesAssumption DEF TypeOK, Consume
<1> QED
  BY <1>1, <1>2, Kinds

LEMMA TypeStep == TypeInv /\ [Next]_vars => TypeInv'
<1> SUFFICES ASSUME TypeInv, [Next]_vars PROVE TypeInv'
  OBVIOUS
<1> USE ThreadsAssumption, SizesAssumption
    DEF TypeInv, TypeOK, MessagesAtHand, Threads, Labels, CallLabels,
        CloseLabels, ThreadLabels, Goto
<1>1. ASSUME NEW c \in Callers, CallClosed(c) PROVE TypeInv'
  BY <1>1 DEF CallClosed, Replies, Outcomes
<1>2. ASSUME NEW c \in Callers, CallOpen(c) PROVE TypeInv'
  BY <1>2 DEF CallOpen, Replies, Outcomes, Ids
<1>3. ASSUME NEW c \in Callers, Finishing(c) PROVE TypeInv'
  <2>1. CASE Register(c)
    BY <2>1 DEF Register
  <2>2. CASE SendRequest(c)
    BY <2>2, Kinds DEF SendRequest, Sendable, Receiving
  <2>3. CASE RefuseRequest(c)
    BY <2>3
    DEF RefuseRequest, Sendable, Receiving, SendRefusal, Replies, Outcomes
  <2>4. CASE TakeReply(c)
    BY <2>4 DEF TakeReply, Replies, Outcomes
  <2>5. CASE Expire(c)
    BY <2>5 DEF Expire, Replies, Outcomes
  <2>6. CASE Withdraw(c)
    BY <2>6 DEF Withdraw
  <2> QED
    BY <1>3, <2>1, <2>2, <2>3, <2>4, <2>5, <2>6 DEF Finishing
<1>4. ASSUME NEW c \in Callers, Notify(c) PROVE TypeInv'
  BY <1>4, Kinds DEF Notify, Post, Sendable, Receiving
<1>5. ASSUME NEW c \in Callers, NEW j \in events, Respond(c, j) PROVE TypeInv'
  BY <1>5, Kinds DEF Respond, Post, Sendable, Receiving
<1>6. ASSUME NEW on \in BOOLEAN, SetSubscribed(on) PROVE TypeInv'
  BY <1>6 DEF SetSubscribed
<1>7. ASSUME NEW t \in {Reader, Writer}, FailTransport(t) PROVE TypeInv'
  <2>1. CASE MarkClosed(t)
    BY <2>1 DEF MarkClosed
  <2>2. CASE DropOutbound(t)
    BY <2>2 DEF DropOutbound
  <2>3. CASE FailTransportPending(t)
    BY <2>3 DEF FailTransportPending, FailPending, Replies, Outcomes
  <2> QED
    BY <1>7, <2>1, <2>2, <2>3 DEF FailTransport
<1>8. ASSUME NEW k \in Closers, Close(k) PROVE TypeInv'
  <2>1. CASE SwapClosed(k)
    BY <2>1 DEF SwapClosed
  <2>2. CASE DrainPending(k)
    BY <2>2 DEF DrainPending, FailPending, Replies, Outcomes
  <2>3. CASE TakeOutbound(k)
    BY <2>3 DEF TakeOutbound
  <2>4. CASE TakeTask(k)
    <3>1. \E l \in {"joinWriter", "shutdown", "joinReader"} :
             pc' = [pc EXCEPT ![k] = l]
      BY <2>4 DEF TakeTask, AfterWriter
    <3>2. /\ writeTask' = FALSE
          /\ UNCHANGED <<closed, channel, writing, readDone, calls, env>>
      BY <2>4 DEF TakeTask
    <3> QED
      BY <3>1, <3>2
  <2>5. CASE JoinWriter(k)
    BY <2>5 DEF JoinWriter, AfterWriter
  <2>6. CASE ShutdownChild(k)
    BY <2>6 DEF ShutdownChild
  <2>7. CASE JoinReader(k)
    BY <2>7 DEF JoinReader
  <2>8. CASE ReceiveDone(k)
    BY <2>8 DEF ReceiveDone
  <2>9. CASE MissDone(k)
    BY <2>9 DEF MissDone, Replies, Outcomes
  <2>10. CASE TakeDone(k)
    BY <2>10 DEF TakeDone
  <2> QED
    BY <1>8, <2>1, <2>2, <2>3, <2>4, <2>5, <2>6, <2>7, <2>8, <2>9, <2>10
    DEF Close
<1>9. CASE Writing
  <2>1. CASE WriterTakes
    BY <2>1 DEF WriterTakes
  <2>2. CASE WriterStops
    BY <2>2 DEF WriterStops
  <2>3. CASE WriteFrame
    BY <2>3 DEF WriteFrame
  <2>4. CASE WriteFails
    BY <2>4 DEF WriteFails
  <2> QED
    BY <1>9, <2>1, <2>2, <2>3, <2>4 DEF Writing
<1>10. CASE Reading
  <2>1. CASE RouteResponse
    BY <2>1, Consumed DEF RouteResponse, Consume, Replies, Outcomes
  <2>2. CASE AnswerInbound
    <3>1. PICK kinds \in {{"local"}, {"foreign"}} : Consume(kinds)
      BY <2>2 DEF AnswerInbound
    <3>2. /\ Received.id \in 1..MaxInbound
          /\ fromPeer' \in Seq(Incoming) /\ Len(fromPeer') <= PeerRoom
      BY <3>1, Consumed DEF Consume
    <3>3. pc' = [pc EXCEPT ![Reader] = "reply"] /\ replyTo' = Received.id
          /\ UNCHANGED <<conn, calls, subscribed, events, posts, toPeer,
                         alive, peer>>
      BY <2>2 DEF AnswerInbound
    <3>4. pc' \in [Threads -> Labels]
      BY <3>3
    <3>5. TypeOK'
      BY <3>2, <3>3, <3>4
    <3>6. MessagesAtHand'
      BY <3>2, <3>3
    <3> QED
      BY <3>5, <3>6
  <2>3. CASE DeliverInbound
    BY <2>3, Consumed DEF DeliverInbound, Consume
  <2>4. CASE DeliverEvent
    BY <2>4, Consumed DEF DeliverEvent, Consume
  <2>5. CASE SendReply
    BY <2>5, Kinds DEF SendReply, Sendable, Receiving
  <2>6. CASE RejectFrame
    BY <2>6, Consumed DEF RejectFrame, Consume
  <2>7. CASE EndOfStream
    BY <2>7 DEF EndOfStream
  <2> QED
    BY <1>10, <2>1, <2>2, <2>3, <2>4, <2>5, <2>6, <2>7 DEF Reading
<1>11. CASE PeerReads
  BY <1>11, Kinds DEF PeerReads
<1>12. ASSUME NEW i \in asked, PeerAnswers(i) PROVE TypeInv'
  BY <1>12, Kinds DEF PeerAnswers, PeerWrites
<1>13. ASSUME NEW kind \in {"local", "foreign"}, PeerRequests(kind) PROVE TypeInv'
  BY <1>13, Kinds DEF PeerRequests, PeerWrites
<1>14. ASSUME NEW kind \in {"event", "malformed"}, PeerSends(kind) PROVE TypeInv'
  BY <1>14, Kinds DEF PeerSends, PeerWrites
<1>15. CASE PeerExits
  BY <1>15 DEF PeerExits
<1>16. CASE UNCHANGED vars
  BY <1>16 DEF vars
<1> QED
  BY <1>1, <1>2, <1>3, <1>4, <1>5, <1>6, <1>7, <1>8, <1>9, <1>10, <1>11, <1>12,
     <1>13, <1>14, <1>15, <1>16 DEF Next, Application, Peer

LEMMA TypeInit == Init => TypeInv
<1> SUFFICES ASSUME Init PROVE TypeInv
  OBVIOUS
<1>1. pc \in [Threads -> Labels] /\ pc[Reader] = "read" /\ pc[Writer] = "recv"
  BY ThreadsAssumption
  DEF Init, Threads, Labels, CallLabels, CloseLabels, ThreadLabels
<1>2. \A c \in Callers : pc[c] = "idle"
  BY ThreadsAssumption DEF Init, Threads
<1>3. MessagesAtHand
  BY <1>1, <1>2 DEF MessagesAtHand, CallLabels
<1>4. TypeOK
  <2>1. queue \in Seq(Outgoing) /\ Len(queue) <= Capacity
    BY SizesAssumption DEF Init
  <2>2. toPeer \in Seq(Outgoing) /\ Len(toPeer) <= PipeRoom
    BY SizesAssumption DEF Init
  <2>3. fromPeer \in Seq(Incoming) /\ Len(fromPeer) <= PeerRoom
    BY SizesAssumption DEF Init
  <2>4. /\ slot \in [Ids -> Replies]
        /\ callId \in [Callers -> 0..MaxCalls]
        /\ outcome \in [Callers \cup Closers -> Outcomes]
    BY SizesAssumption DEF Init, Replies, Outcomes
  <2>5. /\ nextId \in 0..MaxCalls
        /\ replyTo \in 0..MaxInbound
        /\ inbound \in 0..MaxInbound
        /\ posts \in 0..MaxPosts
    BY SizesAssumption DEF Init
  <2>6. /\ writing \in Outgoing \cup {NoMessage}
        /\ readDone \in {"held", "received", "taken"}
        /\ pending \subseteq Ids /\ asked \subseteq Ids /\ answered \subseteq Ids
        /\ events \subseteq 1..MaxInbound
    BY DEF Init
  <2>7. /\ closed \in BOOLEAN /\ outbound \in BOOLEAN /\ alive \in BOOLEAN
        /\ writeTask \in BOOLEAN /\ subscribed \in BOOLEAN
    BY DEF Init
  <2> QED
    BY <1>1, <2>1, <2>2, <2>3, <2>4, <2>5, <2>6, <2>7 DEF TypeOK
<1> QED
  BY <1>3, <1>4 DEF TypeInv

\* Every variable keeps to its type, for every instance.
THEOREM TypeCorrect == Spec => []TypeOK
<1>1. TypeInv => TypeOK
  BY DEF TypeInv
<1> QED
  BY <1>1, TypeInit, TypeStep, PTL DEF Spec

-----------------------------------------------------------------------------
\* The invariant behind the pending table.  A caller that is not idle works
\* for an id of its own; an id that is in the table, or not yet in it, has an
\* empty reply channel; a caller that will read its channel is in the table
\* or has its reply; and a failing loop has taken the sender by the time it
\* drains the table, so nobody starts waiting after the drain.
CallerLabels == \A c \in Callers : pc[c] \in {"idle"} \cup CallLabels

OwnIds ==
    /\ \A c \in Callers :
         IF pc[c] = "idle" THEN callId[c] = 0 ELSE callId[c] \in 1..nextId
    /\ \A c, d \in Callers : c # d /\ callId[c] # 0 => callId[c] # callId[d]

FreshIds ==
    /\ \A i \in pending : i <= nextId
    /\ \A i \in Ids : i > nextId => slot[i] = "none"
    /\ \A c \in Callers :
         pc[c] = "checked" => callId[c] \notin pending /\ slot[callId[c]] = "none"

WaitersCovered ==
    \A c \in Callers :
        pc[c] \in {"registered", "waiting"} =>
            callId[c] \in pending \/ slot[callId[c]] # "none"

SenderGone ==
    \A t \in {Reader, Writer} :
        pc[t] \in {"failPending", "failed"} => ~outbound

CallInv ==
    /\ CallerLabels /\ OwnIds /\ FreshIds /\ WaitersCovered /\ SenderGone
    /\ PendingIsWaitedFor
    /\ FailedTransportStrandsNobody

LEMMA CallStep == TypeInv /\ CallInv /\ [Next]_vars => CallInv'
<1> SUFFICES ASSUME TypeInv, CallInv, [Next]_vars PROVE CallInv'
  OBVIOUS
<1> USE ThreadsAssumption, SizesAssumption
    DEF TypeInv, TypeOK, MessagesAtHand, CallInv, CallerLabels, OwnIds,
        FreshIds, WaitersCovered, SenderGone, PendingIsWaitedFor,
        FailedTransportStrandsNobody, Threads, CallLabels, Ids, Goto
<1>1. ASSUME NEW c \in Callers, CallClosed(c) PROVE CallInv'
  BY <1>1 DEF CallClosed
<1>2. ASSUME NEW c \in Callers, CallOpen(c) PROVE CallInv'
  <2>1. CallerLabels' /\ SenderGone' /\ FailedTransportStrandsNobody'
    BY <1>2 DEF CallOpen
  <2>2. OwnIds'
    BY <1>2 DEF CallOpen
  <2>3. FreshIds' /\ WaitersCovered'
    BY <1>2 DEF CallOpen
  <2>4. ASSUME NEW i \in pending'
       PROVE  slot'[i] = "none" /\ \E d \in Callers : pc'[d] \in CallLabels /\ callId'[d] = i
    <3>1. PICK d \in Callers : pc[d] \in CallLabels /\ callId[d] = i
      BY <1>2, <2>4 DEF CallOpen
    <3>2. d # c
      BY <1>2, <2>4, <3>1 DEF CallOpen
    <3> QED
      BY <1>2, <2>4, <3>1, <3>2 DEF CallOpen
  <2> QED
    BY <2>1, <2>2, <2>3, <2>4
<1>3. ASSUME NEW c \in Callers, Finishing(c) PROVE CallInv'
  <2>1. CASE Register(c)
    BY <2>1 DEF Register
  <2>2. CASE SendRequest(c)
    BY <2>2 DEF SendRequest, Sendable, Receiving
  <2>3. CASE RefuseRequest(c)
    BY <2>3 DEF RefuseRequest, Sendable, Receiving, SendRefusal
  <2>4. CASE TakeReply(c)
    <3>1. CallerLabels' /\ SenderGone' /\ FailedTransportStrandsNobody'
      BY <2>4 DEF TakeReply
    <3>2. OwnIds'
      BY <2>4 DEF TakeReply
    <3>3. FreshIds' /\ WaitersCovered'
      BY <2>4 DEF TakeReply
    <3>4. ASSUME NEW i \in pending'
         PROVE  slot'[i] = "none" /\ \E d \in Callers : pc'[d] \in CallLabels /\ callId'[d] = i
      <4>1. PICK d \in Callers : pc[d] \in CallLabels /\ callId[d] = i
        BY <2>4, <3>4 DEF TakeReply
      <4>2. d # c
        BY <2>4, <3>4, <4>1 DEF TakeReply
      <4> QED
        BY <2>4, <3>4, <4>1, <4>2 DEF TakeReply
    <3> QED
      BY <3>1, <3>2, <3>3, <3>4
  <2>5. CASE Expire(c)
    BY <2>5 DEF Expire
  <2>6. CASE Withdraw(c)
    <3>1. CallerLabels' /\ SenderGone' /\ FailedTransportStrandsNobody'
      BY <2>6 DEF Withdraw
    <3>2. OwnIds'
      BY <2>6 DEF Withdraw
    <3>3. FreshIds' /\ WaitersCovered'
      BY <2>6 DEF Withdraw
    <3>4. ASSUME NEW i \in pending'
         PROVE  slot'[i] = "none" /\ \E d \in Callers : pc'[d] \in CallLabels /\ callId'[d] = i
      <4>1. PICK d \in Callers : pc[d] \in CallLabels /\ callId[d] = i
        BY <2>6, <3>4 DEF Withdraw
      <4>2. d # c
        BY <2>6, <3>4, <4>1 DEF Withdraw
      <4> QED
        BY <2>6, <3>4, <4>1, <4>2 DEF Withdraw
    <3> QED
      BY <3>1, <3>2, <3>3, <3>4
  <2> QED
    BY <1>3, <2>1, <2>2, <2>3, <2>4, <2>5, <2>6 DEF Finishing
<1>4. ASSUME NEW c \in Callers, Notify(c) PROVE CallInv'
  BY <1>4 DEF Notify, Post, Sendable, Receiving
<1>5. ASSUME NEW c \in Callers, NEW j \in events, Respond(c, j) PROVE CallInv'
  BY <1>5 DEF Respond, Post, Sendable, Receiving
<1>6. ASSUME NEW on \in BOOLEAN, SetSubscribed(on) PROVE CallInv'
  BY <1>6 DEF SetSubscribed
<1>7. ASSUME NEW t \in {Reader, Writer}, FailTransport(t) PROVE CallInv'
  <2>1. CASE MarkClosed(t)
    BY <2>1 DEF MarkClosed
  <2>2. CASE DropOutbound(t)
    BY <2>2 DEF DropOutbound
  <2>3. CASE FailTransportPending(t)
    BY <2>3 DEF FailTransportPending, FailPending
  <2> QED
    BY <1>7, <2>1, <2>2, <2>3 DEF FailTransport
<1>8. ASSUME NEW k \in Closers, Close(k) PROVE CallInv'
  <2>1. CASE SwapClosed(k)
    BY <2>1 DEF SwapClosed
  <2>2. CASE DrainPending(k)
    BY <2>2 DEF DrainPending, FailPending
  <2>3. CASE TakeOutbound(k)
    BY <2>3 DEF TakeOutbound
  <2>4. CASE TakeTask(k)
    BY <2>4 DEF TakeTask, AfterWriter
  <2>5. CASE JoinWriter(k)
    BY <2>5 DEF JoinWriter, AfterWriter
  <2>6. CASE ShutdownChild(k)
    BY <2>6 DEF ShutdownChild
  <2>7. CASE JoinReader(k)
    BY <2>7 DEF JoinReader
  <2>8. CASE ReceiveDone(k)
    BY <2>8 DEF ReceiveDone
  <2>9. CASE MissDone(k)
    BY <2>9 DEF MissDone
  <2>10. CASE TakeDone(k)
    BY <2>10 DEF TakeDone
  <2> QED
    BY <1>8, <2>1, <2>2, <2>3, <2>4, <2>5, <2>6, <2>7, <2>8, <2>9, <2>10
    DEF Close
<1>9. CASE Writing
  <2>1. CASE WriterTakes
    BY <2>1 DEF WriterTakes
  <2>2. CASE WriterStops
    BY <2>2 DEF WriterStops
  <2>3. CASE WriteFrame
    BY <2>3 DEF WriteFrame
  <2>4. CASE WriteFails
    BY <2>4 DEF WriteFails
  <2> QED
    BY <1>9, <2>1, <2>2, <2>3, <2>4 DEF Writing
<1>10. CASE Reading
  <2>1. CASE RouteResponse
    BY <2>1 DEF RouteResponse, Consume
  <2>2. CASE AnswerInbound
    BY <2>2 DEF AnswerInbound, Consume
  <2>3. CASE DeliverInbound
    BY <2>3 DEF DeliverInbound, Consume
  <2>4. CASE DeliverEvent
    BY <2>4 DEF DeliverEvent, Consume
  <2>5. CASE SendReply
    BY <2>5 DEF SendReply, Sendable, Receiving
  <2>6. CASE RejectFrame
    BY <2>6 DEF RejectFrame, Consume
  <2>7. CASE EndOfStream
    BY <2>7 DEF EndOfStream
  <2> QED
    BY <1>10, <2>1, <2>2, <2>3, <2>4, <2>5, <2>6, <2>7 DEF Reading
<1>11. CASE PeerReads
  BY <1>11 DEF PeerReads
<1>12. ASSUME NEW i \in asked, PeerAnswers(i) PROVE CallInv'
  BY <1>12 DEF PeerAnswers, PeerWrites
<1>13. ASSUME NEW kind \in {"local", "foreign"}, PeerRequests(kind) PROVE CallInv'
  BY <1>13 DEF PeerRequests, PeerWrites
<1>14. ASSUME NEW kind \in {"event", "malformed"}, PeerSends(kind) PROVE CallInv'
  BY <1>14 DEF PeerSends, PeerWrites
<1>15. CASE PeerExits
  BY <1>15 DEF PeerExits
<1>16. CASE UNCHANGED vars
  BY <1>16 DEF vars
<1> QED
  BY <1>1, <1>2, <1>3, <1>4, <1>5, <1>6, <1>7, <1>8, <1>9, <1>10, <1>11, <1>12,
     <1>13, <1>14, <1>15, <1>16 DEF Next, Application, Peer

\* Both from the one invariant: no waiter is left behind by a failed
\* transport, and no entry of the table outlives its call.
LEMMA CallInvariant == Spec => [](TypeInv /\ CallInv)
<1>1. Init => TypeInv
  BY TypeInit
<1>2. Init => CallInv
  BY ThreadsAssumption
  DEF Init, CallInv, CallerLabels, OwnIds, FreshIds, WaitersCovered, SenderGone,
      PendingIsWaitedFor, FailedTransportStrandsNobody, Threads, CallLabels
<1> QED
  BY <1>1, <1>2, TypeStep, CallStep, PTL DEF Spec

\* fail_transport strands nobody, for any number of callers and closers.
THEOREM NobodyStranded == Spec => []FailedTransportStrandsNobody
<1>1. TypeInv /\ CallInv => FailedTransportStrandsNobody
  BY DEF CallInv
<1> QED
  BY <1>1, CallInvariant, PTL

\* The pending table holds the calls in progress and nothing else.
THEOREM NoLeakedEntry == Spec => []PendingIsWaitedFor
<1>1. TypeInv /\ CallInv => PendingIsWaitedFor
  BY DEF CallInv
<1> QED
  BY <1>1, CallInvariant, PTL

-----------------------------------------------------------------------------
\* The invariant behind the refinement.  Only issued ids travel to the peer;
\* only answered ids travel back; and an error of the connection is in a
\* reply channel, or on its way to a refused caller, only when it has closed.
IssuedIds ==
    /\ \A n \in 1..Len(queue) : queue[n].kind = "request" => queue[n].id \in 1..nextId
    /\ \A n \in 1..Len(toPeer) : toPeer[n].kind = "request" => toPeer[n].id \in 1..nextId
    /\ writing.kind = "request" => writing.id \in 1..nextId
    /\ \A i \in asked : i \in 1..nextId

ServedIds ==
    /\ \A n \in 1..Len(fromPeer) :
         fromPeer[n].kind = "response" => fromPeer[n].id \in answered
    /\ \A i \in Ids : slot[i] = "answer" => i \in answered

ErrorsAfterClose ==
    /\ ~outbound => closed
    /\ \A i \in Ids : slot[i] \in {"closed", "transport"} => closed
    /\ \A k \in Closers : pc[k] # "idle" => closed
    /\ \A t \in {Reader, Writer} :
         pc[t] \in {"failOutbound", "failPending", "failed", "stopped"} => closed

RefusalsJustified ==
    \A c \in Callers :
        /\ pc[c] = "refused" =>
             outcome[c] = "full" \/ (outcome[c] = "closed" /\ closed)
        /\ pc[c] = "expired" => outcome[c] = "timeout" /\ Timeouts

PromiseInv == IssuedIds /\ ServedIds /\ ErrorsAfterClose /\ RefusalsJustified

\* Where the elements of a shortened or extended channel come from.
LEMMA TailElements ==
    ASSUME NEW S, NEW s \in Seq(S), s # <<>>
    PROVE  /\ 1 \in 1..Len(s) /\ Head(s) = s[1]
           /\ \A n \in 1..Len(Tail(s)) : n + 1 \in 1..Len(s) /\ Tail(s)[n] = s[n + 1]
OBVIOUS

LEMMA AppendElements ==
    ASSUME NEW S, NEW s \in Seq(S), NEW e
    PROVE  \A n \in 1..Len(Append(s, e)) :
               \/ n \in 1..Len(s) /\ Append(s, e)[n] = s[n]
               \/ Append(s, e)[n] = e
OBVIOUS

LEMMA ConsumedServed ==
    ASSUME TypeOK, ServedIds, NEW kinds, Consume(kinds)
    PROVE  /\ Received.kind = "response" => Received.id \in answered
           /\ \A n \in 1..Len(fromPeer') :
                fromPeer'[n].kind = "response" => fromPeer'[n].id \in answered
<1>1. fromPeer \in Seq(Incoming) /\ fromPeer # <<>> /\ fromPeer' = Tail(fromPeer)
  BY DEF TypeOK, Consume
<1> QED
  BY <1>1, TailElements DEF ServedIds, Received

LEMMA PromiseStep ==
    TypeInv /\ CallInv /\ PromiseInv /\ [Next]_vars => PromiseInv'
<1> SUFFICES ASSUME TypeInv, CallInv, PromiseInv, [Next]_vars PROVE PromiseInv'
  OBVIOUS
<1> USE ThreadsAssumption, SizesAssumption
    DEF TypeInv, TypeOK, MessagesAtHand, CallInv, CallerLabels, OwnIds,
        PromiseInv, IssuedIds, ServedIds, ErrorsAfterClose, RefusalsJustified,
        Threads, CallLabels, Ids, Goto
<1>1. ASSUME NEW c \in Callers, CallClosed(c) PROVE PromiseInv'
  BY <1>1 DEF CallClosed
<1>2. ASSUME NEW c \in Callers, CallOpen(c) PROVE PromiseInv'
  BY <1>2 DEF CallOpen
<1>3. ASSUME NEW c \in Callers, Finishing(c) PROVE PromiseInv'
  <2>1. CASE Register(c)
    BY <2>1 DEF Register
  <2>2. CASE SendRequest(c)
    BY <2>2 DEF SendRequest, Sendable, Receiving
  <2>3. CASE RefuseRequest(c)
    <3>1. outbound /\ Receiving => SendRefusal = "full"
      BY DEF SendRefusal
    <3>2. ~(outbound /\ Receiving) => SendRefusal = "closed" /\ closed
      BY DEF SendRefusal, Receiving
    <3> QED
      BY <2>3, <3>1, <3>2 DEF RefuseRequest
  <2>4. CASE TakeReply(c)
    BY <2>4 DEF TakeReply
  <2>5. CASE Expire(c)
    BY <2>5 DEF Expire
  <2>6. CASE Withdraw(c)
    BY <2>6 DEF Withdraw
  <2> QED
    BY <1>3, <2>1, <2>2, <2>3, <2>4, <2>5, <2>6 DEF Finishing
<1>4. ASSUME NEW c \in Callers, Notify(c) PROVE PromiseInv'
  BY <1>4 DEF Notify, Post, Sendable, Receiving
<1>5. ASSUME NEW c \in Callers, NEW j \in events, Respond(c, j) PROVE PromiseInv'
  BY <1>5 DEF Respond, Post, Sendable, Receiving
<1>6. ASSUME NEW on \in BOOLEAN, SetSubscribed(on) PROVE PromiseInv'
  BY <1>6 DEF SetSubscribed
<1>7. ASSUME NEW t \in {Reader, Writer}, FailTransport(t) PROVE PromiseInv'
  <2>1. CASE MarkClosed(t)
    BY <2>1 DEF MarkClosed
  <2>2. CASE DropOutbound(t)
    BY <2>2 DEF DropOutbound
  <2>3. CASE FailTransportPending(t)
    BY <2>3 DEF FailTransportPending, FailPending
  <2> QED
    BY <1>7, <2>1, <2>2, <2>3 DEF FailTransport
<1>8. ASSUME NEW k \in Closers, Close(k) PROVE PromiseInv'
  <2>1. CASE SwapClosed(k)
    BY <2>1 DEF SwapClosed
  <2>2. CASE DrainPending(k)
    BY <2>2 DEF DrainPending, FailPending
  <2>3. CASE TakeOutbound(k)
    BY <2>3 DEF TakeOutbound
  <2>4. CASE TakeTask(k)
    BY <2>4 DEF TakeTask, AfterWriter
  <2>5. CASE JoinWriter(k)
    BY <2>5 DEF JoinWriter, AfterWriter
  <2>6. CASE ShutdownChild(k)
    BY <2>6 DEF ShutdownChild
  <2>7. CASE JoinReader(k)
    BY <2>7 DEF JoinReader
  <2>8. CASE ReceiveDone(k)
    BY <2>8 DEF ReceiveDone
  <2>9. CASE MissDone(k)
    BY <2>9 DEF MissDone
  <2>10. CASE TakeDone(k)
    BY <2>10 DEF TakeDone
  <2> QED
    BY <1>8, <2>1, <2>2, <2>3, <2>4, <2>5, <2>6, <2>7, <2>8, <2>9, <2>10
    DEF Close
<1>9. CASE Writing
  <2>1. CASE WriterTakes
    <3>1. /\ writing' = queue[1] /\ 1 \in 1..Len(queue)
          /\ \A n \in 1..Len(queue') : n + 1 \in 1..Len(queue) /\ queue'[n] = queue[n + 1]
      BY <2>1, TailElements DEF WriterTakes
    <3>2. IssuedIds'
      BY <2>1, <3>1 DEF WriterTakes
    <3>3. ServedIds' /\ ErrorsAfterClose' /\ RefusalsJustified'
      BY <2>1 DEF WriterTakes
    <3> QED
      BY <3>2, <3>3
  <2>2. CASE WriterStops
    BY <2>2 DEF WriterStops
  <2>3. CASE WriteFrame
    BY <2>3, AppendElements DEF WriteFrame, NoMessage
  <2>4. CASE WriteFails
    BY <2>4 DEF WriteFails, NoMessage
  <2> QED
    BY <1>9, <2>1, <2>2, <2>3, <2>4 DEF Writing
<1>10. CASE Reading
  <2>1. CASE RouteResponse
    BY <2>1, ConsumedServed DEF RouteResponse, Consume
  <2>2. CASE AnswerInbound
    <3>1. PICK kinds \in {{"local"}, {"foreign"}} : Consume(kinds)
      BY <2>2 DEF AnswerInbound
    <3>2. \A n \in 1..Len(fromPeer') :
             fromPeer'[n].kind = "response" => fromPeer'[n].id \in answered
      BY <3>1, ConsumedServed
    <3> QED
      BY <2>2, <3>2 DEF AnswerInbound
  <2>3. CASE DeliverInbound
    BY <2>3 DEF DeliverInbound, Consume
  <2>4. CASE DeliverEvent
    BY <2>4 DEF DeliverEvent, Consume
  <2>5. CASE SendReply
    <3>1. \A n \in 1..Len(queue') : queue'[n].kind = "request" =>
                     n \in 1..Len(queue) /\ queue'[n] = queue[n]
      BY <2>5, AppendElements DEF SendReply
    <3> QED
      BY <2>5, <3>1 DEF SendReply
  <2>6. CASE RejectFrame
    BY <2>6 DEF RejectFrame, Consume
  <2>7. CASE EndOfStream
    BY <2>7 DEF EndOfStream
  <2> QED
    BY <1>10, <2>1, <2>2, <2>3, <2>4, <2>5, <2>6, <2>7 DEF Reading
<1>11. CASE PeerReads
  <2>1. /\ Head(toPeer) = toPeer[1] /\ 1 \in 1..Len(toPeer)
        /\ \A n \in 1..Len(toPeer') : n + 1 \in 1..Len(toPeer) /\ toPeer'[n] = toPeer[n + 1]
    BY <1>11, TailElements DEF PeerReads
  <2> QED
    BY <1>11, <2>1 DEF PeerReads
<1>12. ASSUME NEW i \in asked, PeerAnswers(i) PROVE PromiseInv'
  BY <1>12 DEF PeerAnswers, PeerWrites
<1>13. ASSUME NEW kind \in {"local", "foreign"}, PeerRequests(kind) PROVE PromiseInv'
  BY <1>13 DEF PeerRequests, PeerWrites
<1>14. ASSUME NEW kind \in {"event", "malformed"}, PeerSends(kind) PROVE PromiseInv'
  BY <1>14 DEF PeerSends, PeerWrites
<1>15. CASE PeerExits
  BY <1>15 DEF PeerExits
<1>16. CASE UNCHANGED vars
  BY <1>16 DEF vars
<1> QED
  BY <1>1, <1>2, <1>3, <1>4, <1>5, <1>6, <1>7, <1>8, <1>9, <1>10, <1>11, <1>12,
     <1>13, <1>14, <1>15, <1>16 DEF Next, Application, Peer

\* A step of the connection is a step of RpcCalls or invisible to it.
Kept == [Promised!Next]_(Promised!promises)

LEMMA Silent ==
    UNCHANGED <<closed, nextId, callId, outcome, answered>> => Kept
BY DEF Kept, Promised!promises, Results

LEMMA PromiseKept == TypeInv /\ CallInv /\ PromiseInv /\ [Next]_vars => Kept
<1> SUFFICES ASSUME TypeInv, CallInv, PromiseInv, [Next]_vars PROVE Kept
  OBVIOUS
<1> USE ThreadsAssumption, SizesAssumption DEF TypeInv, TypeOK, CallInv, PromiseInv
<1>1. ASSUME NEW c \in Callers, CallClosed(c) PROVE Kept
  <2>1. Promised!Refuse(c)
    BY <1>1 DEF CallClosed, Promised!Refuse, Results, OwnIds
  <2> QED
    BY <2>1 DEF Kept, Promised!Next
<1>2. ASSUME NEW c \in Callers, CallOpen(c) PROVE Kept
  <2>1. Promised!Begin(c)
    BY <1>2 DEF CallOpen, Promised!Begin, Results, OwnIds
  <2> QED
    BY <2>1 DEF Kept, Promised!Next
<1>3. ASSUME NEW c \in Callers, Finishing(c) PROVE Kept
  <2>1. CASE Register(c)
    BY <2>1, Silent DEF Register
  <2>2. CASE SendRequest(c)
    BY <2>2, Silent DEF SendRequest, Sendable, Receiving
  <2>3. CASE RefuseRequest(c)
    <3>1. callId[c] # 0
      BY <2>3 DEF RefuseRequest, OwnIds, CallLabels
    <3> QED
      BY <2>3, <3>1 DEF RefuseRequest, Kept, Promised!promises, Results
  <2>4. CASE TakeReply(c)
    <3>1. callId[c] # 0 /\ callId[c] \in Ids
      BY <2>4 DEF TakeReply, OwnIds, CallLabels, Ids
    <3>2. outcome'[c] \in {"answer", "closed", "transport"}
      BY <2>4, <3>1 DEF TakeReply, Replies
    <3>3. Promised!Justified(c, outcome'[c])
      BY <2>4, <3>1, <3>2
      DEF TakeReply, Promised!Justified, ServedIds, ErrorsAfterClose
    <3>4. Promised!Return(c, outcome'[c])
      BY <2>4, <3>1, <3>3 DEF TakeReply, Promised!Return, Results
    <3> QED
      BY <3>2, <3>4 DEF Kept, Promised!Next, Promised!Errors
  <2>5. CASE Expire(c)
    <3>1. callId[c] # 0
      BY <2>5 DEF Expire, OwnIds, CallLabels
    <3> QED
      BY <2>5, <3>1 DEF Expire, Kept, Promised!promises, Results
  <2>6. CASE Withdraw(c)
    <3>1. callId[c] # 0
      BY <2>6 DEF Withdraw, OwnIds, CallLabels
    <3>2. outcome[c] \in Promised!Errors /\ Promised!Justified(c, outcome[c])
      BY <2>6
      DEF Withdraw, Promised!Errors, Promised!Justified, RefusalsJustified
    <3>3. Promised!Return(c, outcome[c])
      BY <2>6, <3>1, <3>2 DEF Withdraw, Promised!Return, Results
    <3> QED
      BY <3>2, <3>3 DEF Kept, Promised!Next
  <2> QED
    BY <1>3, <2>1, <2>2, <2>3, <2>4, <2>5, <2>6 DEF Finishing
<1>4. ASSUME NEW c \in Callers, Notify(c) PROVE Kept
  BY <1>4, Silent DEF Notify, Post, Sendable, Receiving
<1>5. ASSUME NEW c \in Callers, NEW j \in events, Respond(c, j) PROVE Kept
  BY <1>5, Silent DEF Respond, Post, Sendable, Receiving
<1>6. ASSUME NEW on \in BOOLEAN, SetSubscribed(on) PROVE Kept
  BY <1>6, Silent DEF SetSubscribed
<1>7. ASSUME NEW t \in {Reader, Writer}, FailTransport(t) PROVE Kept
  <2>1. CASE MarkClosed(t)
    <3>1. Promised!Close \/ UNCHANGED Promised!promises
      BY <2>1 DEF MarkClosed, Promised!Close, Promised!promises, Results
    <3> QED
      BY <3>1 DEF Kept, Promised!Next
  <2>2. CASE DropOutbound(t)
    BY <2>2, Silent DEF DropOutbound
  <2>3. CASE FailTransportPending(t)
    BY <2>3, Silent DEF FailTransportPending, FailPending
  <2> QED
    BY <1>7, <2>1, <2>2, <2>3 DEF FailTransport
<1>8. ASSUME NEW k \in Closers, Close(k) PROVE Kept
  <2>1. CASE SwapClosed(k)
    <3>1. Promised!Close \/ UNCHANGED Promised!promises
      BY <2>1 DEF SwapClosed, Promised!Close, Promised!promises, Results
    <3> QED
      BY <3>1 DEF Kept, Promised!Next
  <2>2. CASE DrainPending(k)
    BY <2>2, Silent DEF DrainPending, FailPending
  <2>3. CASE TakeOutbound(k)
    BY <2>3, Silent DEF TakeOutbound
  <2>4. CASE TakeTask(k)
    BY <2>4, Silent DEF TakeTask, AfterWriter
  <2>5. CASE JoinWriter(k)
    BY <2>5, Silent DEF JoinWriter, AfterWriter
  <2>6. CASE ShutdownChild(k)
    BY <2>6, Silent DEF ShutdownChild
  <2>7. CASE JoinReader(k)
    BY <2>7, Silent DEF JoinReader
  <2>8. CASE ReceiveDone(k)
    BY <2>8, Silent DEF ReceiveDone
  <2>9. CASE MissDone(k)
    BY <2>9, ThreadsAssumption DEF MissDone, Kept, Promised!promises, Results
  <2>10. CASE TakeDone(k)
    BY <2>10, Silent DEF TakeDone
  <2> QED
    BY <1>8, <2>1, <2>2, <2>3, <2>4, <2>5, <2>6, <2>7, <2>8, <2>9, <2>10
    DEF Close
<1>9. CASE Writing
  <2>1. CASE WriterTakes
    BY <2>1, Silent DEF WriterTakes
  <2>2. CASE WriterStops
    BY <2>2, Silent DEF WriterStops
  <2>3. CASE WriteFrame
    BY <2>3, Silent DEF WriteFrame
  <2>4. CASE WriteFails
    BY <2>4, Silent DEF WriteFails
  <2> QED
    BY <1>9, <2>1, <2>2, <2>3, <2>4 DEF Writing
<1>10. CASE Reading
  <2>1. CASE RouteResponse
    BY <2>1, Silent DEF RouteResponse, Consume
  <2>2. CASE AnswerInbound
    BY <2>2, Silent DEF AnswerInbound, Consume
  <2>3. CASE DeliverInbound
    BY <2>3, Silent DEF DeliverInbound, Consume
  <2>4. CASE DeliverEvent
    BY <2>4, Silent DEF DeliverEvent, Consume
  <2>5. CASE SendReply
    BY <2>5, Silent DEF SendReply, Sendable, Receiving
  <2>6. CASE RejectFrame
    BY <2>6, Silent DEF RejectFrame, Consume
  <2>7. CASE EndOfStream
    BY <2>7, Silent DEF EndOfStream
  <2> QED
    BY <1>10, <2>1, <2>2, <2>3, <2>4, <2>5, <2>6, <2>7 DEF Reading
<1>11. CASE PeerReads
  BY <1>11, Silent DEF PeerReads
<1>12. ASSUME NEW i \in asked, PeerAnswers(i) PROVE Kept
  <2>1. i \in 1..nextId /\ i \in 1..MaxCalls
    BY <1>12 DEF IssuedIds, Ids
  <2>2. Promised!Serve(i)
    BY <1>12, <2>1 DEF PeerAnswers, PeerWrites, Promised!Serve, Results
  <2> QED
    BY <2>1, <2>2 DEF Kept, Promised!Next
<1>13. ASSUME NEW kind \in {"local", "foreign"}, PeerRequests(kind) PROVE Kept
  BY <1>13, Silent DEF PeerRequests, PeerWrites
<1>14. ASSUME NEW kind \in {"event", "malformed"}, PeerSends(kind) PROVE Kept
  BY <1>14, Silent DEF PeerSends, PeerWrites
<1>15. CASE PeerExits
  BY <1>15, Silent DEF PeerExits
<1>16. CASE UNCHANGED vars
  BY <1>16, Silent DEF vars
<1> QED
  BY <1>1, <1>2, <1>3, <1>4, <1>5, <1>6, <1>7, <1>8, <1>9, <1>10, <1>11, <1>12,
     <1>13, <1>14, <1>15, <1>16 DEF Next, Application, Peer

\* The connection implements RpcCalls: an answer belongs to the id it is
\* returned for, and a connection error is only seen once it has closed.
THEOREM Refinement == Spec => KeepsPromises
<1>1. Init => PromiseInv
  BY ThreadsAssumption, SizesAssumption
  DEF Init, PromiseInv, IssuedIds, ServedIds, ErrorsAfterClose,
      RefusalsJustified, Threads, NoMessage
<1>2. Init => Promised!Init
  BY DEF Init, Promised!Init, Results
<1> QED
  BY <1>1, <1>2, CallInvariant, PromiseStep, PromiseKept, PTL
  DEF Spec, KeepsPromises, Promised!Spec, Kept

-----------------------------------------------------------------------------
\* The invariant behind the close.  A writer has a message in hand only while it
\* writes it; once it stopped, the sender is gone, so that nothing is accepted
\* any more; and once its handle was taken and nobody is joining, it is over.
WriterOver == pc[Writer] \in {"stopped", "failed"}

WriterInv ==
    /\ pc[Writer] # "write" => writing = NoMessage
    /\ pc[Writer] = "stopped" => queue = <<>> /\ ~outbound
    /\ ~writeTask => WriterOver \/ \E k \in Closers : pc[k] = "joinWriter"
    /\ CloseWaitsForWriter

LEMMA WriterStep == TypeInv /\ WriterInv /\ [Next]_vars => WriterInv'
<1> SUFFICES ASSUME TypeInv, WriterInv, [Next]_vars PROVE WriterInv'
  OBVIOUS
<1> USE ThreadsAssumption DEF WriterInv, WriterOver, CloseWaitsForWriter, Goto
<1>t. /\ pc \in [Threads -> Labels] /\ Writer \in Threads /\ Reader \in Threads
      /\ Callers \subseteq Threads /\ Closers \subseteq Threads
  BY DEF TypeInv, TypeOK, Threads
\* Steps of callers, and of the reader, that leave the writer and the closers
\* where they are.
<1>a. ASSUME UNCHANGED <<writing, writeTask, outbound>>,
             queue' = queue \/ Sendable,
             pc'[Writer] = pc[Writer], \A k \in Closers : pc'[k] = pc[k]
      PROVE  WriterInv'
  BY <1>a DEF Sendable
<1>1. ASSUME NEW c \in Callers, CallClosed(c) \/ CallOpen(c) \/ Finishing(c) \/ Notify(c)
                                 \/ \E j \in events : Respond(c, j)
      PROVE  WriterInv'
  <2>1. /\ UNCHANGED <<writing, writeTask, outbound>> /\ (queue' = queue \/ Sendable)
        /\ pc' = pc \/ \E label : pc' = [pc EXCEPT ![c] = label]
    BY <1>1 DEF CallClosed, CallOpen, Finishing, Register, SendRequest, RefuseRequest, TakeReply,
                Expire, Withdraw, Notify, Respond, Post
  <2>2. c # Writer /\ c \notin Closers
    OBVIOUS
  <2>3. pc'[Writer] = pc[Writer] /\ \A k \in Closers : pc'[k] = pc[k]
    BY <1>t, <2>1, <2>2
  <2> QED BY <1>a, <2>1, <2>3
<1>2. ASSUME NEW on \in BOOLEAN, SetSubscribed(on) PROVE WriterInv'
  BY <1>2, <1>a DEF SetSubscribed
<1>3. CASE Reading \/ FailTransport(Reader)
  <2>1. /\ UNCHANGED <<writing, writeTask>> /\ (queue' = queue \/ Sendable)
        /\ outbound' = outbound \/ ~outbound'
        /\ pc' = pc \/ \E label : pc' = [pc EXCEPT ![Reader] = label]
    BY <1>3 DEF Reading, RouteResponse, AnswerInbound, DeliverInbound, DeliverEvent, SendReply,
                RejectFrame, EndOfStream, Consume, FailTransport, MarkClosed, DropOutbound,
                FailTransportPending
  <2>2. pc'[Writer] = pc[Writer] /\ \A k \in Closers : pc'[k] = pc[k]
    BY <1>t, <2>1
  <2> QED BY <2>1, <2>2 DEF Sendable
<1>4. CASE FailTransport(Writer)
  <2>1. /\ UNCHANGED <<writing, writeTask>> /\ pc[Writer] \in {"fail", "failOutbound", "failPending"}
        /\ \E label \in {"failOutbound", "failPending", "failed"} : pc' = [pc EXCEPT ![Writer] = label]
    BY <1>4 DEF FailTransport, MarkClosed, DropOutbound, FailTransportPending
  <2>2. /\ pc'[Writer] \in {"failOutbound", "failPending", "failed"}
        /\ \A k \in Closers : pc'[k] = pc[k]
    BY <1>t, <2>1
  <2> QED BY <2>1, <2>2
<1>5. CASE Writing
  <2>1. UNCHANGED writeTask /\ pc[Writer] \in {"recv", "write"}
        /\ \E label : pc' = [pc EXCEPT ![Writer] = label]
    BY <1>5 DEF Writing, WriterTakes, WriterStops, WriteFrame, WriteFails
  <2>2. \A k \in Closers : pc'[k] = pc[k]
    BY <1>t, <2>1
  <2>3. /\ pc'[Writer] # "write" => writing' = NoMessage
        /\ pc'[Writer] = "stopped" => queue' = <<>> /\ ~outbound'
    BY <1>5, <1>t DEF Writing, WriterTakes, WriterStops, WriteFrame, WriteFails
  <2> QED BY <2>1, <2>2, <2>3
<1>6. ASSUME NEW k \in Closers, Close(k) PROVE WriterInv'
  <2>1. /\ UNCHANGED <<writing, queue>> /\ (outbound' = outbound \/ ~outbound')
        /\ \E label : pc' = [pc EXCEPT ![k] = label]
    BY <1>6 DEF Close, SwapClosed, DrainPending, TakeOutbound, TakeTask, JoinWriter, ShutdownChild,
                JoinReader, ReceiveDone, MissDone, TakeDone
  <2>2. pc'[Writer] = pc[Writer] /\ \A j \in Closers : j # k => pc'[j] = pc[j]
    BY <1>t, <2>1
  <2>3. /\ pc'[k] \in {"shutdown", "joinReader", "takeDone", "done"} => WriterOver
        /\ ~writeTask' => WriterOver \/ \E j \in Closers : pc'[j] = "joinWriter"
    <3>1. CASE SwapClosed(k) \/ DrainPending(k) \/ TakeOutbound(k)
      BY <3>1, <1>t, <2>2 DEF SwapClosed, DrainPending, TakeOutbound
    <3>2. CASE TakeTask(k)
      <4>1. CASE writeTask
        BY <3>2, <4>1, <1>t DEF TakeTask
      <4>2. CASE ~writeTask
        BY <3>2, <4>2 DEF TakeTask
      <4> QED BY <4>1, <4>2
    <3>3. CASE JoinWriter(k)
      BY <3>3 DEF JoinWriter
    <3>4. CASE ShutdownChild(k) \/ JoinReader(k) \/ ReceiveDone(k) \/ MissDone(k) \/ TakeDone(k)
      BY <3>4 DEF ShutdownChild, JoinReader, ReceiveDone, MissDone, TakeDone
    <3> QED BY <1>6, <3>1, <3>2, <3>3, <3>4 DEF Close
  <2> QED BY <2>1, <2>2, <2>3
<1>7. CASE Peer
  BY <1>7, <1>a DEF Peer, PeerReads, PeerAnswers, PeerWrites, PeerRequests, PeerSends, PeerExits
<1>8. CASE UNCHANGED vars
  BY <1>8, <1>a DEF vars
<1> QED
  BY <1>1, <1>2, <1>3, <1>4, <1>5, <1>6, <1>7, <1>8 DEF Next, Application

LEMMA WriterInvariant == Spec => []WriterInv
<1>1. Init => TypeInv
  BY TypeInit
<1>2. Init => WriterInv
  BY ThreadsAssumption DEF Init, WriterInv, CloseWaitsForWriter, Threads
<1> QED
  BY <1>1, <1>2, TypeStep, WriterStep, PTL DEF Spec

\* No closer passes the join of the writer before the writer is over, however
\* many close at once.
THEOREM WriterJoined == Spec => []CloseWaitsForWriter
<1>1. WriterInv => CloseWaitsForWriter
  BY DEF WriterInv
<1> QED
  BY <1>1, WriterInvariant, PTL

\* What was accepted before the connection closed is written before the writer
\* stops.
THEOREM CleanStop == Spec => []CleanStopLosesNothing
<1>1. WriterInv => CleanStopLosesNothing
  BY DEF WriterInv, CleanStopLosesNothing
<1> QED
  BY <1>1, WriterInvariant, PTL

-----------------------------------------------------------------------------
(* Replies to the peer *)

\* A message is request j of the peer, or the reply to it.
Concerns(m, j) == m.id = j /\ m.kind \in {"local", "foreign", "reply"}
\* Where a sequence of messages has one about request j, and in how many spots.
Spots(s, j) == {n \in DOMAIN s : Concerns(s[n], j)}
Copies(s, j) == Cardinality(Spots(s, j))
One(condition) == IF condition THEN 1 ELSE 0

\* Sequences have finitely many.
LEMMA SpotsFinite ==
    ASSUME NEW S, NEW s \in Seq(S), NEW j
    PROVE  /\ IsFiniteSet(Spots(s, j)) /\ Copies(s, j) \in Nat
           /\ Spots(s, j) \subseteq 1..Len(s) /\ Len(s) \in Nat
<1>1. IsFiniteSet(1..Len(s)) /\ Spots(s, j) \in SUBSET (1..Len(s)) /\ Len(s) \in Nat
  BY FS_Interval DEF Spots
<1>2. IsFiniteSet(Spots(s, j))
  BY <1>1, FS_Subset
<1> QED BY <1>1, <1>2, FS_CardinalityType DEF Copies

\* Sending a message adds the one.
LEMMA Sent ==
    ASSUME NEW S, NEW s \in Seq(S), NEW e \in S, NEW j
    PROVE  Copies(Append(s, e), j) = Copies(s, j) + One(Concerns(e, j))
<1> DEFINE t == Append(s, e)
           end == Len(s) + 1
<1>1. /\ t \in Seq(S) /\ Len(t) = end /\ Len(s) \in Nat /\ t[end] = e
      /\ \A n \in 1..Len(s) : t[n] = s[n]
  BY AppendProperties
<1> HIDE DEF t
<1>2. DOMAIN t = 1..end /\ DOMAIN s = 1..Len(s)
  BY <1>1
<1>3. end \notin Spots(s, j)
  BY <1>1, <1>2 DEF Spots
<1>4. Spots(t, j) = IF Concerns(e, j) THEN Spots(s, j) \cup {end} ELSE Spots(s, j)
  <2>1. \A n : n \in Spots(t, j) <=> n \in 1..end /\ Concerns(t[n], j)
    BY <1>2 DEF Spots
  <2>2. \A n : n \in Spots(s, j) <=> n \in 1..Len(s) /\ Concerns(s[n], j)
    BY <1>2 DEF Spots
  <2>3. \A n : n \in 1..end <=> n \in 1..Len(s) \/ n = end
    BY <1>1
  <2>4. \A n : n \in Spots(t, j) <=> n \in Spots(s, j) \/ (n = end /\ Concerns(e, j))
    BY <1>1, <2>1, <2>2, <2>3
  <2> QED BY <2>4
<1>5. IsFiniteSet(Spots(s, j)) /\ Copies(s, j) \in Nat
  BY SpotsFinite
<1>6. Cardinality(Spots(s, j) \cup {end}) = Cardinality(Spots(s, j)) + 1
  BY <1>3, <1>5, FS_AddElement
<1> QED BY <1>4, <1>5, <1>6 DEF Copies, One, t

\* Receiving a message takes it out.
LEMMA Taken ==
    ASSUME NEW S, NEW s \in Seq(S), s # <<>>, NEW j
    PROVE  /\ Copies(Tail(s), j) \in Nat
           /\ Copies(Tail(s), j) + One(Concerns(Head(s), j)) <= Copies(s, j)
<1> DEFINE t == Tail(s)
           rest == Spots(s, j) \ {1}
           next == [n \in Spots(t, j) |-> n + 1]
<1>1. /\ t \in Seq(S) /\ Len(t) = Len(s) - 1 /\ Len(s) \in Nat \ {0} /\ Head(s) = s[1]
      /\ \A n \in 1..Len(t) : t[n] = s[n + 1]
  BY HeadTailProperties
<1> HIDE DEF t
<1>2. DOMAIN t = 1..Len(t) /\ DOMAIN s = 1..Len(s)
  BY <1>1
<1>3. \A n \in Spots(t, j) : n \in Nat /\ n + 1 \in rest
  BY <1>1, <1>2 DEF Spots
<1>4. next \in [Spots(t, j) -> rest] /\ \A m, n \in Spots(t, j) : next[m] = next[n] => m = n
  BY <1>3
<1> HIDE DEF next
<1>5. next \in Injection(Spots(t, j), rest)
  BY <1>4, Fun_IsInj
<1>6. IsFiniteSet(Spots(s, j)) /\ Copies(s, j) \in Nat /\ Copies(t, j) \in Nat
  BY <1>1, SpotsFinite
<1>7. /\ IsFiniteSet(rest)
      /\ Cardinality(rest) = IF 1 \in Spots(s, j) THEN Copies(s, j) - 1 ELSE Copies(s, j)
  BY <1>6, FS_RemoveElement DEF Copies
<1> HIDE DEF rest
<1>8. Copies(t, j) <= Cardinality(rest)
  BY <1>5, <1>7, FS_Injection DEF Copies
<1>9. 1 \in Spots(s, j) <=> Concerns(Head(s), j)
  BY <1>1, <1>2 DEF Spots
<1> QED BY <1>6, <1>7, <1>8, <1>9 DEF One, t

-----------------------------------------------------------------------------
(* One place for each request *)

\* In how many places request j of the peer is, as the request or its reply.
Places(j) ==
    Copies(fromPeer, j) + Copies(queue, j) + Copies(toPeer, j) + One(j \in events)
      + One(replyTo = j) + One(writing = [kind |-> "reply", id |-> j])

\* A request that was not sent is nowhere.
ReplyInv ==
    \A j \in 1..MaxInbound : Places(j) <= 1 /\ (j > inbound => Places(j) = 0)

\* So they can be added up.
LEMMA Countable ==
    ASSUME TypeOK, TypeOK', NEW j
    PROVE  /\ Copies(fromPeer, j) \in Nat /\ Copies(queue, j) \in Nat /\ Copies(toPeer, j) \in Nat
           /\ Copies(fromPeer', j) \in Nat /\ Copies(queue', j) \in Nat /\ Copies(toPeer', j) \in Nat
<1>1. Copies(fromPeer, j) \in Nat /\ Copies(queue, j) \in Nat /\ Copies(toPeer, j) \in Nat
  BY SpotsFinite DEF TypeOK
<1>2. Copies(fromPeer', j) \in Nat /\ Copies(queue', j) \in Nat /\ Copies(toPeer', j) \in Nat
  BY SpotsFinite DEF TypeOK
<1> QED BY <1>1, <1>2

\* A step that moves no request to a second place.
Moved(j) == Places(j)' <= Places(j)

\* A step that sends no request and moves every one keeps the invariant.
LEMMA NoMore ==
    ASSUME ReplyInv, TypeOK, TypeOK', inbound' = inbound, \A j \in 1..MaxInbound : Moved(j)
    PROVE  ReplyInv'
<1>1. ASSUME NEW j \in 1..MaxInbound
      PROVE  Places(j)' \in Nat /\ Places(j) \in Nat
  BY Countable DEF Places, One
<1> QED BY <1>1 DEF ReplyInv, Moved

\* Only the places that a step changes matter.
LEMMA PlacesStay ==
    ASSUME UNCHANGED <<fromPeer, queue, toPeer, events, replyTo, writing>>, TypeOK, TypeOK', NEW j
    PROVE  Moved(j)
  BY Countable DEF Places, One, Moved

\* A message given to the writer is put in its queue or dropped.
LEMMA QueueGrows ==
    ASSUME TypeOK, NEW m \in Outgoing, NEW j,
           queue' = IF Sendable THEN Append(queue, m) ELSE queue
    PROVE  Copies(queue', j) = Copies(queue, j) + One(Sendable /\ Concerns(m, j))
<1>1. queue \in Seq(Outgoing) /\ Copies(queue, j) \in Nat
  BY SpotsFinite DEF TypeOK
<1>2. CASE Sendable
  <2>1. Copies(queue', j) = Copies(queue, j) + One(Concerns(m, j))
    BY <1>1, <1>2, Sent
  <2> QED BY <1>2, <2>1 DEF One
<1>3. CASE ~Sendable
  BY <1>1, <1>3 DEF One
<1> QED BY <1>2, <1>3

\* The application answers a request that it took from the events.
LEMMA CallerReplies ==
    ASSUME ReplyInv, TypeInv, TypeOK', NEW c \in Callers,
           CallClosed(c) \/ CallOpen(c) \/ Finishing(c) \/ Application(c)
    PROVE  ReplyInv'
<1> USE DEF TypeInv
<1>1. inbound' = inbound
  BY DEF CallClosed, CallOpen, Finishing, Register, SendRequest, RefuseRequest, TakeReply, Expire,
         Withdraw, Application, Notify, Respond, Post
<1> SUFFICES ASSUME NEW j \in 1..MaxInbound PROVE Moved(j)
  BY <1>1, NoMore
<1>2. CASE UNCHANGED <<fromPeer, queue, toPeer, events, replyTo, writing>>
  BY <1>2, PlacesStay
<1>3. ASSUME NEW m \in Outgoing, ~Concerns(m, j), queue' = IF Sendable THEN Append(queue, m) ELSE queue,
             UNCHANGED <<fromPeer, toPeer, events, replyTo, writing>>
      PROVE  Moved(j)
  <2>1. Copies(queue', j) = Copies(queue, j)
    BY <1>3, QueueGrows, Countable DEF One
  <2> QED BY <1>3, <2>1, Countable DEF Moved, Places, One
<1>4. CASE SendRequest(c)
  <2> DEFINE m == [kind |-> "request", id |-> callId[c]]
  <2>1. m \in Outgoing /\ ~Concerns(m, j)
    BY <1>4, Kinds DEF SendRequest, MessagesAtHand, CallLabels, Concerns
  <2>2. queue' = IF Sendable THEN Append(queue, m) ELSE queue
    BY <1>4 DEF SendRequest
  <2> HIDE DEF m
  <2>3. UNCHANGED <<fromPeer, toPeer, events, replyTo, writing>>
    BY <1>4 DEF SendRequest
  <2> QED BY <1>3, <2>1, <2>2, <2>3
<1>5. CASE Notify(c)
  <2> DEFINE m == [kind |-> "note", id |-> 0]
  <2>1. m \in Outgoing /\ ~Concerns(m, j)
    BY Kinds DEF Concerns
  <2>2. queue' = IF Sendable THEN Append(queue, m) ELSE queue
    BY <1>5 DEF Notify, Post
  <2> HIDE DEF m
  <2>3. UNCHANGED <<fromPeer, toPeer, events, replyTo, writing>>
    BY <1>5 DEF Notify, Post
  <2> QED BY <1>3, <2>1, <2>2, <2>3
<1>6. ASSUME NEW r \in events, Respond(c, r) PROVE Moved(j)
  <2> DEFINE m == [kind |-> "reply", id |-> r]
  <2>1. m \in Outgoing /\ (Concerns(m, j) <=> r = j)
    BY Kinds DEF Concerns, TypeOK
  <2>2. queue' = IF Sendable THEN Append(queue, m) ELSE queue
    BY <1>6 DEF Respond, Post
  <2> HIDE DEF m
  <2>3. /\ UNCHANGED <<fromPeer, toPeer, replyTo, writing>>
        /\ events' = IF Sendable THEN events \ {r} ELSE events
    BY <1>6 DEF Respond, Post
  <2>4. Copies(queue', j) = Copies(queue, j) + One(Sendable /\ r = j)
    BY <2>1, <2>2, QueueGrows DEF One
  <2>5. One(Sendable /\ r = j) + One(j \in events') <= One(j \in events)
    BY <2>3 DEF One
  <2>6. One(j \in events') \in 0..1 /\ One(j \in events) \in 0..1 /\ One(Sendable /\ r = j) \in 0..1
        /\ One(replyTo = j) \in 0..1 /\ One(writing = [kind |-> "reply", id |-> j]) \in 0..1
    BY DEF One
  <2> QED BY <2>3, <2>4, <2>5, <2>6, Countable DEF Moved, Places
<1> QED
  BY <1>2, <1>4, <1>5, <1>6
  DEF CallClosed, CallOpen, Finishing, Register, RefuseRequest, TakeReply, Expire, Withdraw, Application

\* A frame of the peer that the reader takes is no longer in the pipe.
LEMMA FrameTaken ==
    ASSUME TypeOK, NEW kinds, Consume(kinds), NEW j \in 1..MaxInbound
    PROVE  /\ Copies(fromPeer', j) + One(Concerns(Received, j)) <= Copies(fromPeer, j)
           /\ Received.kind \in {"local", "foreign"} => (Concerns(Received, j) <=> Received.id = j)
<1>1. fromPeer \in Seq(Incoming) /\ fromPeer # <<>> /\ fromPeer' = Tail(fromPeer)
  BY DEF TypeOK, Consume
<1>2. Copies(fromPeer', j) + One(Concerns(Received, j)) <= Copies(fromPeer, j)
  BY <1>1, Taken DEF Received
<1> QED BY <1>2 DEF Concerns

\* The reader answers a request itself or hands it to the application, not both.
LEMMA ReaderReplies ==
    ASSUME ReplyInv, TypeInv, TypeOK', Reading
    PROVE  ReplyInv'
<1> USE DEF TypeInv
<1>1. inbound' = inbound
  BY DEF Reading, RouteResponse, AnswerInbound, DeliverInbound, DeliverEvent, SendReply, RejectFrame,
         EndOfStream, Consume
<1> SUFFICES ASSUME NEW j \in 1..MaxInbound PROVE Moved(j)
  BY <1>1, NoMore
<1> DEFINE reply == [kind |-> "reply", id |-> j]
<1>b. /\ One(j \in events) \in 0..1 /\ One(j \in events') \in 0..1
      /\ One(replyTo = j) \in 0..1 /\ One(replyTo' = j) \in 0..1
      /\ One(writing = reply) \in 0..1 /\ One(writing' = reply) \in 0..1
  BY DEF One
<1>2. CASE EndOfStream
  BY <1>2, PlacesStay DEF EndOfStream
<1>3. CASE RouteResponse \/ DeliverEvent \/ RejectFrame
  <2>1. PICK kinds : Consume(kinds)
    BY <1>3 DEF RouteResponse, DeliverEvent, RejectFrame
  <2>2. UNCHANGED <<queue, toPeer, events, replyTo, writing>>
    BY <1>3 DEF RouteResponse, DeliverEvent, RejectFrame
  <2>3. Copies(fromPeer', j) <= Copies(fromPeer, j)
    BY <2>1, FrameTaken, Countable DEF One
  <2> QED BY <1>b, <2>2, <2>3, Countable DEF Moved, Places
<1>4. CASE AnswerInbound \/ DeliverInbound
  <2>1. PICK kinds \in SUBSET {"local", "foreign"} : Consume(kinds)
    BY <1>4 DEF AnswerInbound, DeliverInbound
  <2>2. Received.kind \in {"local", "foreign"}
    BY <2>1 DEF Consume
  <2>3. Copies(fromPeer', j) + One(Received.id = j) <= Copies(fromPeer, j)
    BY <2>1, <2>2, FrameTaken DEF One
  <2>4. UNCHANGED <<queue, toPeer, writing>>
    BY <1>4 DEF AnswerInbound, DeliverInbound
  <2>5. One(j \in events') + One(replyTo' = j)
          <= One(j \in events) + One(replyTo = j) + One(Received.id = j)
    BY <1>4 DEF AnswerInbound, DeliverInbound, One
  <2>6. One(Received.id = j) \in 0..1
    BY DEF One
  <2> QED BY <1>b, <2>3, <2>4, <2>5, <2>6, Countable DEF Moved, Places
<1>5. CASE SendReply
  <2> DEFINE m == [kind |-> "reply", id |-> replyTo]
  <2>1. m \in Outgoing /\ (Concerns(m, j) <=> replyTo = j)
    BY <1>5, Kinds DEF SendReply, MessagesAtHand, Concerns
  <2>2. queue' = IF Sendable THEN Append(queue, m) ELSE queue
    BY <1>5 DEF SendReply
  <2> HIDE DEF m
  <2>3. UNCHANGED <<fromPeer, toPeer, events, writing>> /\ replyTo' = 0
    BY <1>5 DEF SendReply
  <2>4. Copies(queue', j) = Copies(queue, j) + One(Sendable /\ replyTo = j)
    BY <2>1, <2>2, QueueGrows DEF One
  <2>5. One(Sendable /\ replyTo = j) \in 0..1
        /\ One(Sendable /\ replyTo = j) + One(replyTo' = j) <= One(replyTo = j)
    BY <2>3 DEF One
  <2> QED BY <1>b, <2>3, <2>4, <2>5, Countable DEF Moved, Places
<1> QED BY <1>2, <1>3, <1>4, <1>5 DEF Reading

\* The writer holds the message that it has taken until it is written.
LEMMA WriterReplies ==
    ASSUME ReplyInv, TypeInv, TypeOK', Writing
    PROVE  ReplyInv'
<1> USE DEF TypeInv
<1>1. inbound' = inbound
  BY DEF Writing, WriterTakes, WriterStops, WriteFrame, WriteFails
<1> SUFFICES ASSUME NEW j \in 1..MaxInbound PROVE Moved(j)
  BY <1>1, NoMore
<1> DEFINE reply == [kind |-> "reply", id |-> j]
<1>b. /\ One(j \in events) \in 0..1 /\ One(replyTo = j) \in 0..1
      /\ One(writing = reply) \in 0..1 /\ One(writing' = reply) \in 0..1
  BY DEF One
<1>2. CASE WriterStops
  BY <1>2, PlacesStay DEF WriterStops
<1>3. CASE WriteFails
  <2>1. UNCHANGED <<fromPeer, queue, toPeer, events, replyTo>> /\ writing' # reply
    BY <1>3 DEF WriteFails, NoMessage
  <2>2. One(writing' = reply) = 0
    BY <2>1 DEF One
  <2> QED BY <1>b, <2>1, <2>2, Countable DEF Moved, Places
<1>4. CASE WriterTakes
  <2>1. /\ queue \in Seq(Outgoing) /\ queue # <<>> /\ queue' = Tail(queue) /\ writing' = Head(queue)
        /\ UNCHANGED <<fromPeer, toPeer, events, replyTo>>
    BY <1>4 DEF WriterTakes, TypeOK
  <2>2. Copies(queue', j) + One(Concerns(writing', j)) <= Copies(queue, j)
    BY <2>1, Taken
  <2>3. One(writing' = reply) <= One(Concerns(writing', j))
    BY DEF One, Concerns
  <2>4. One(Concerns(writing', j)) \in 0..1
    BY DEF One
  <2>5. Copies(queue', j) + One(writing' = reply) <= Copies(queue, j)
    <3> DEFINE left  == Copies(queue', j)
               was   == Copies(queue, j)
               taken == One(Concerns(writing', j))
               holds == One(writing' = reply)
    <3>1. left \in Nat /\ was \in Nat /\ taken \in 0..1 /\ holds \in 0..1
      BY <1>b, <2>4, Countable
    <3>2. left + taken <= was /\ holds <= taken
      BY <2>2, <2>3
    <3> HIDE DEF left, was, taken, holds
    <3>3. left + holds <= was
      BY <3>1, <3>2
    <3> QED BY <3>3 DEF left, was, holds
  <2>6. /\ UNCHANGED <<fromPeer, toPeer, events, replyTo>>
        /\ Copies(fromPeer, j) \in Nat /\ Copies(toPeer, j) \in Nat
        /\ Copies(queue, j) \in Nat /\ Copies(queue', j) \in Nat
    BY <2>1, Countable
  <2> DEFINE others == Copies(fromPeer, j) + Copies(toPeer, j) + One(j \in events) + One(replyTo = j)
             before == Copies(queue, j) + One(writing = reply)
             after  == Copies(queue', j) + One(writing' = reply)
             was    == Places(j)
             is     == Places(j)'
  <2>7. was = others + before /\ before \in Nat /\ others \in Nat
    BY <1>b, <2>6 DEF Places
  <2>8. is = others + after /\ after \in Nat
    BY <1>b, <2>6 DEF Places
  <2>9. after <= before
    BY <1>b, <2>5, <2>6
  <2> HIDE DEF others, before, after, was, is
  <2>10. is <= was
    BY <2>7, <2>8, <2>9
  <2> QED BY <2>10 DEF Moved, was, is
<1>5. CASE WriteFrame
  <2>1. /\ toPeer \in Seq(Outgoing) /\ writing \in Outgoing /\ toPeer' = Append(toPeer, writing)
        /\ writing' = NoMessage /\ UNCHANGED <<fromPeer, queue, events, replyTo>>
    BY <1>5 DEF WriteFrame, TypeOK, MessagesAtHand
  <2>2. Copies(toPeer', j) = Copies(toPeer, j) + One(Concerns(writing, j))
    BY <2>1, Sent
  <2>3. Concerns(writing, j) => writing = reply
    BY <2>1 DEF Concerns, Outgoing
  <2>4. writing' # reply
    BY <2>1 DEF NoMessage
  <2>5. One(Concerns(writing, j)) + One(writing' = reply) <= One(writing = reply)
        /\ One(Concerns(writing, j)) \in 0..1
    BY <2>3, <2>4 DEF One
  <2> QED BY <1>b, <2>1, <2>2, <2>5, Countable DEF Moved, Places
<1> QED BY <1>2, <1>3, <1>4, <1>5 DEF Writing

\* The peer numbers its requests.
LEMMA PeerReplies ==
    ASSUME ReplyInv, TypeInv, TypeOK', Peer
    PROVE  ReplyInv'
<1> USE DEF TypeInv
<1>1. CASE PeerReads
  <2>1. /\ toPeer \in Seq(Outgoing) /\ toPeer # <<>> /\ toPeer' = Tail(toPeer)
        /\ UNCHANGED <<fromPeer, queue, events, replyTo, writing, inbound>>
    BY <1>1 DEF PeerReads, TypeOK
  <2> SUFFICES ASSUME NEW j \in 1..MaxInbound PROVE Moved(j)
    BY <2>1, NoMore
  <2>2. Copies(toPeer', j) + One(Concerns(Head(toPeer), j)) <= Copies(toPeer, j)
    BY <2>1, Taken
  <2>3. Copies(toPeer', j) <= Copies(toPeer, j)
    BY <2>2, Countable DEF One
  <2> QED BY <2>1, <2>3, Countable DEF Moved, Places, One
<1>2. ASSUME NEW m \in Incoming, PeerWrites(m), inbound' = inbound,
             \A j \in 1..MaxInbound : ~Concerns(m, j)
      PROVE  ReplyInv'
  <2>1. /\ fromPeer \in Seq(Incoming) /\ fromPeer' = Append(fromPeer, m)
        /\ UNCHANGED <<toPeer, queue, events, replyTo, writing>>
    BY <1>2 DEF PeerWrites, TypeOK
  <2> SUFFICES ASSUME NEW j \in 1..MaxInbound PROVE Moved(j)
    BY <1>2, NoMore
  <2>2. Copies(fromPeer', j) = Copies(fromPeer, j) + One(Concerns(m, j))
    BY <2>1, Sent
  <2>3. Copies(fromPeer', j) = Copies(fromPeer, j)
    BY <1>2, <2>2, Countable DEF One
  <2> QED BY <2>1, <2>3, Countable DEF Moved, Places, One
<1>3. ASSUME NEW i \in asked, PeerAnswers(i) PROVE ReplyInv'
  <2> DEFINE m == [kind |-> "response", id |-> i]
  <2>1. m \in Incoming /\ \A j \in 1..MaxInbound : ~Concerns(m, j)
    BY Kinds DEF Concerns, TypeOK
  <2>2. PeerWrites(m) /\ inbound' = inbound
    BY <1>3 DEF PeerAnswers
  <2> QED BY <1>2, <2>1, <2>2
<1>4. ASSUME NEW kind \in {"event", "malformed"}, PeerSends(kind) PROVE ReplyInv'
  <2> DEFINE m == [kind |-> kind, id |-> 0]
  <2>1. m \in Incoming /\ \A j \in 1..MaxInbound : ~Concerns(m, j)
    BY Kinds DEF Concerns
  <2>2. PeerWrites(m) /\ inbound' = inbound
    BY <1>4 DEF PeerSends
  <2> QED BY <1>2, <2>1, <2>2
<1>5. ASSUME NEW kind \in {"local", "foreign"}, PeerRequests(kind) PROVE ReplyInv'
  <2> DEFINE new == inbound + 1
             m == [kind |-> kind, id |-> new]
  <2>1. /\ inbound \in Nat /\ new \in 1..MaxInbound /\ inbound' = new
        /\ fromPeer \in Seq(Incoming) /\ m \in Incoming /\ fromPeer' = Append(fromPeer, m)
        /\ UNCHANGED <<toPeer, queue, events, replyTo, writing>>
    BY <1>5, Kinds, SizesAssumption DEF PeerRequests, PeerWrites, TypeOK
  <2>2. \A j \in 1..MaxInbound : Concerns(m, j) <=> j = new
    BY DEF Concerns
  <2> HIDE DEF new, m
  <2> SUFFICES ASSUME NEW j \in 1..MaxInbound
               PROVE  Places(j)' <= 1 /\ (j > inbound' => Places(j)' = 0)
    BY DEF ReplyInv
  <2>3. Copies(fromPeer', j) = Copies(fromPeer, j) + One(j = new)
    BY <2>1, <2>2, Sent DEF One
  <2> DEFINE others == Copies(queue, j) + Copies(toPeer, j) + One(j \in events) + One(replyTo = j)
                         + One(writing = [kind |-> "reply", id |-> j])
  <2>c. others \in Nat /\ others' = others /\ Copies(fromPeer, j) \in Nat /\ One(j = new) \in Nat
    BY <2>1, Countable DEF One
  <2>p. Places(j) = Copies(fromPeer, j) + others
    BY Countable DEF Places, One
  <2>q. Places(j)' = Copies(fromPeer', j) + others'
    BY Countable DEF Places, One
  <2> HIDE DEF others
  <2>4. Places(j)' = Places(j) + One(j = new)
    BY <2>c, <2>p, <2>q, <2>3
  <2>5. Places(j) \in Nat
    BY <2>c, <2>p
  <2>6. CASE j = new
    <3>1. j > inbound /\ ~(j > inbound')
      BY <2>1, <2>6 DEF new
    <3> QED BY <2>4, <2>5, <2>6, <3>1 DEF ReplyInv, One
  <2>7. CASE j # new
    <3>1. j > inbound' => j > inbound
      BY <2>1 DEF new
    <3> QED BY <2>4, <2>5, <2>7, <3>1 DEF ReplyInv, One
  <2> QED BY <2>6, <2>7
<1>6. CASE PeerExits
  BY <1>6, PlacesStay, NoMore DEF PeerExits
<1> QED BY <1>1, <1>3, <1>4, <1>5, <1>6 DEF Peer

\* Failing and closing the connection can only lose messages.
LEMMA OtherReplies ==
    ASSUME ReplyInv, TypeInv, TypeOK',
           \/ \E on \in BOOLEAN : SetSubscribed(on)
           \/ \E t \in {Reader, Writer} : FailTransport(t)
           \/ \E k \in Closers : Close(k)
           \/ UNCHANGED vars
    PROVE  ReplyInv'
<1> USE DEF TypeInv
<1>1. /\ UNCHANGED <<fromPeer, toPeer, replyTo, writing, inbound>>
      /\ queue' = queue \/ queue' = <<>>
      /\ events' = events \/ events' = {}
  BY DEF SetSubscribed, FailTransport, MarkClosed, DropOutbound, FailTransportPending, Close, SwapClosed,
         DrainPending, TakeOutbound, TakeTask, JoinWriter, ShutdownChild, JoinReader, ReceiveDone,
         MissDone, TakeDone, vars
<1> SUFFICES ASSUME NEW j \in 1..MaxInbound PROVE Moved(j)
  BY <1>1, NoMore
<1>2. Copies(<<>>, j) = 0
  <2>1. Spots(<<>>, j) = {}
    BY DEF Spots
  <2> QED BY <2>1, FS_EmptySet DEF Copies
<1>3. Copies(queue', j) <= Copies(queue, j)
  BY <1>1, <1>2, Countable
<1> QED BY <1>1, <1>3, Countable DEF Moved, Places, One

\* No step puts a request in a second place.
LEMMA ReplyInvariant == Spec => []ReplyInv
<1>1. Init => ReplyInv
  <2> SUFFICES ASSUME Init, NEW j \in 1..MaxInbound PROVE Places(j) = 0
    BY DEF ReplyInv
  <2>1. Copies(<<>>, j) = 0
    <3>1. Spots(<<>>, j) = {}
      BY DEF Spots
    <3> QED BY <3>1, FS_EmptySet DEF Copies
  <2> QED BY <2>1 DEF Init, Places, One, NoMessage
<1>2. ReplyInv /\ TypeInv /\ TypeInv' /\ [Next]_vars => ReplyInv'
  BY CallerReplies, ReaderReplies, WriterReplies, PeerReplies, OtherReplies DEF TypeInv, Next
<1> QED BY <1>1, <1>2, TypeInit, TypeStep, PTL DEF Spec

\* A request of the peer is never in two places, so it gets at most one reply.
THEOREM OneReply == Spec => []AtMostOneReply
<1>1. ReplyInv => AtMostOneReply
  BY DEF ReplyInv, AtMostOneReply, Places, Copies, Spots, Concerns, One
<1> QED BY <1>1, ReplyInvariant, PTL

-----------------------------------------------------------------------------
(* What a close reports *)

\* The reader's result stays received only while the closer that received it
\* has not removed the receiver.
Removing == readDone = "received" => \E k \in Closers : pc[k] = "takeDone"

\* Only that closer itself leaves the step that removes it.
LEMMA RemoverStays ==
    ASSUME TypeInv, [Next]_vars, NEW k \in Closers, pc[k] = "takeDone", pc'[k] # "takeDone"
    PROVE  readDone' = "taken"
<1>t. /\ pc \in [Threads -> Labels] /\ k \in Threads /\ k \notin Callers /\ k # Reader /\ k # Writer
      /\ Callers \cup Closers \cup {Reader, Writer} \subseteq Threads
  BY ThreadsAssumption DEF TypeInv, TypeOK, Threads
<1>a. ASSUME NEW t \in Threads \ {k}, NEW label, pc' = [pc EXCEPT ![t] = label] PROVE FALSE
  BY <1>a, <1>t
<1>1. ASSUME NEW c \in Callers, CallClosed(c) \/ CallOpen(c) \/ Finishing(c) \/ Application(c)
      PROVE  FALSE
  <2>1. pc' = pc \/ \E label : pc' = [pc EXCEPT ![c] = label]
    BY <1>1 DEF CallClosed, CallOpen, Finishing, Register, SendRequest, RefuseRequest, TakeReply,
                Expire, Withdraw, Application, Notify, Respond, Post, Goto
  <2> QED BY <1>a, <1>t, <2>1
<1>2. CASE Reading \/ FailTransport(Reader)
  <2>1. pc' = pc \/ \E label : pc' = [pc EXCEPT ![Reader] = label]
    BY <1>2 DEF Reading, RouteResponse, AnswerInbound, DeliverInbound, DeliverEvent, SendReply, Goto,
                RejectFrame, EndOfStream, Consume, FailTransport, MarkClosed, DropOutbound,
                FailTransportPending
  <2> QED BY <1>a, <1>t, <2>1
<1>3. CASE Writing \/ FailTransport(Writer)
  <2>1. pc' = pc \/ \E label : pc' = [pc EXCEPT ![Writer] = label]
    BY <1>3 DEF Writing, WriterTakes, WriterStops, WriteFrame, WriteFails, Goto,
                FailTransport, MarkClosed, DropOutbound, FailTransportPending
  <2> QED BY <1>a, <1>t, <2>1
<1>4. ASSUME NEW j \in Closers, Close(j), j # k PROVE FALSE
  <2>1. \E label : pc' = [pc EXCEPT ![j] = label]
    BY <1>4 DEF Close, SwapClosed, DrainPending, TakeOutbound, TakeTask, JoinWriter, ShutdownChild,
                JoinReader, ReceiveDone, MissDone, TakeDone, Goto
  <2> QED BY <1>a, <1>t, <1>4, <2>1
<1>5. CASE Close(k)
  BY <1>5 DEF Close, SwapClosed, DrainPending, TakeOutbound, TakeTask, JoinWriter, ShutdownChild,
              JoinReader, ReceiveDone, MissDone, TakeDone
<1>6. CASE (\E on \in BOOLEAN : SetSubscribed(on)) \/ Peer \/ UNCHANGED vars
  BY <1>6 DEF SetSubscribed, Peer, PeerReads, PeerAnswers, PeerRequests, PeerSends, PeerWrites,
              PeerExits, vars
<1> QED BY <1>1, <1>2, <1>3, <1>4, <1>5, <1>6 DEF Next

\* The reader's result is received by a closer that then removes its receiver.
LEMMA RemovingStep == TypeInv /\ Removing /\ [Next]_vars => Removing'
<1> SUFFICES ASSUME TypeInv, Removing, [Next]_vars, readDone' = "received"
             PROVE  \E k \in Closers : pc'[k] = "takeDone"
  BY DEF Removing
<1>1. CASE readDone = "received"
  BY <1>1, RemoverStays DEF Removing
<1>2. CASE readDone # "received"
  <2>1. PICK k \in Closers : ReceiveDone(k)
    BY <1>2 DEF Next, CallClosed, CallOpen, Finishing, Register, SendRequest, RefuseRequest, TakeReply,
           Expire, Withdraw, Application, Notify, Respond, Post, SetSubscribed, Reading, RouteResponse,
           AnswerInbound, DeliverInbound, DeliverEvent, SendReply, RejectFrame, EndOfStream, Consume,
           FailTransport, MarkClosed, DropOutbound, FailTransportPending, Writing, WriterTakes,
           WriterStops, WriteFrame, WriteFails, Close, SwapClosed, DrainPending, TakeOutbound, TakeTask,
           JoinWriter, ShutdownChild, JoinReader, MissDone, TakeDone, Peer, PeerReads, PeerAnswers,
           PeerWrites, PeerRequests, PeerSends, PeerExits, vars
  <2> QED BY <2>1 DEF ReceiveDone, Goto, TypeInv, TypeOK, Threads
<1> QED BY <1>1, <1>2

\* A close reports an error only while another one is about to remove the
\* receiver of the reader's result.
THEOREM CloseFailure == Spec => CloseFailsOnlyInOverlap
<1>1. TypeInv /\ Removing /\ [Next]_vars
        => [\A k \in Closers :
              outcome'[k] # outcome[k] => \E j \in Closers \ {k} : pc[j] = "takeDone"]_vars
  <2> SUFFICES ASSUME TypeInv, Removing, Next, NEW k \in Closers, outcome'[k] # outcome[k]
               PROVE  \E j \in Closers \ {k} : pc[j] = "takeDone"
    OBVIOUS
  <2>1. MissDone(k)
    <3>1. k \notin Callers /\ outcome \in [Callers \cup Closers -> Outcomes]
      BY ThreadsAssumption DEF TypeInv, TypeOK
    <3>2. outcome' # outcome
      OBVIOUS
    <3>3. (\E c \in Callers : \E o : outcome' = [outcome EXCEPT ![c] = o])
          \/ \E j \in Closers : MissDone(j)
      BY <3>2 DEF Next, CallClosed, CallOpen, Finishing, Register, SendRequest, RefuseRequest, TakeReply,
           Expire, Withdraw, Application, Notify, Respond, Post, SetSubscribed, Reading, RouteResponse,
           AnswerInbound, DeliverInbound, DeliverEvent, SendReply, RejectFrame, EndOfStream, Consume,
           FailTransport, MarkClosed, DropOutbound, FailTransportPending, Writing, WriterTakes,
           WriterStops, WriteFrame, WriteFails, Close, SwapClosed, DrainPending, TakeOutbound, TakeTask,
           JoinWriter, ShutdownChild, JoinReader, ReceiveDone, TakeDone, Peer, PeerReads, PeerAnswers,
           PeerWrites, PeerRequests, PeerSends, PeerExits
    <3> QED BY <3>1, <3>3 DEF MissDone
  <2> QED BY <2>1 DEF MissDone, Removing
<1>2. Init => Removing
  BY DEF Init, Removing
<1> QED BY <1>1, <1>2, TypeInit, TypeStep, RemovingStep, PTL DEF Spec, CloseFailsOnlyInOverlap
=============================================================================
