---------------------------- MODULE MsgpackWorker ---------------------------
(***************************************************************************)
(* The worker thread of the sync msgpack transport                         *)
(* (src/src/core/corsa_client/src/api/msgpack_worker.rs): requests go      *)
(* through a bounded channel to one thread that writes each to the child   *)
(* and reads until its answer.  A request that times out, and a close,     *)
(* kill the child so that the thread comes out of its read.  A request     *)
(* keeps its clone of the sender until it returns.                         *)
(*                                                                         *)
(* The child answers when it likes, or never, or exits; killing it works.  *)
(* Killing and reaping is one step: terminate_process holds the process    *)
(* lock over both.  So is the end of close: it holds the lock of the join  *)
(* handle while it joins, and a second close waits for that lock.          *)
(***************************************************************************)
EXTENDS Integers, Sequences, FiniteSets, Functions

CONSTANTS Requests,       \* calls of request
          Closes,         \* calls of close
          NoRequest,      \* the thread serves nothing
          CommandRoom     \* bound of the channel

ASSUME MsgpackAssumption ==
    NoRequest \notin Requests /\ CommandRoom \in Nat \ {0} /\ "shutdown" \notin Requests

VARIABLES
    timed,      \* request_timeout is Some; never changes
    hasSender,  \* MsgpackWorker.tx is Some
    commands,   \* the channel: requests and "shutdown"
    thread,     \* control point of the worker thread
    serving,    \* the request it serves
    process,    \* the child: "running", "exited", or "reaped"
    request,    \* control point of each request
    reply,      \* the reply channel of each: "none", "answer", "error", "dropped"
    outcome,    \* what each request returned
    close       \* control point of each close

msgpackVars == <<timed, hasSender, commands, thread, serving, process, request, reply, outcome, close>>

MsgpackInit ==
    /\ timed \in BOOLEAN
    /\ hasSender = TRUE /\ commands = <<>> /\ thread = "recv" /\ serving = NoRequest
    /\ process = "running"
    /\ request = [r \in Requests |-> "idle"] /\ reply = [r \in Requests |-> "none"]
    /\ outcome = [r \in Requests |-> "none"]
    /\ close = [k \in Closes |-> "idle"]

\* Requests that have a clone of the sender.
Cloned == {r \in Requests : request[r] \in {"sending", "waiting", "killing"}}

Requested(r, from, to) == request[r] = from /\ request' = [request EXCEPT ![r] = to]
Closed(k, from, to)    == close[k] = from /\ close' = [close EXCEPT ![k] = to]

ReturnsWith(r, from, o) ==
    Requested(r, from, "done") /\ outcome' = [outcome EXCEPT ![r] = o]

-----------------------------------------------------------------------------
(* request *)

CloneSender(r) ==
    /\ hasSender /\ Requested(r, "idle", "sending")
    /\ UNCHANGED <<timed, hasSender, commands, thread, serving, process, reply, outcome, close>>

FindNoSender(r) ==
    /\ ~hasSender /\ ReturnsWith(r, "idle", "closed")
    /\ UNCHANGED <<timed, hasSender, commands, thread, serving, process, reply, close>>

\* Mutant: a channel without a bound.
EnqueueUnbounded(r) ==
    /\ thread # "exited" /\ Requested(r, "sending", "waiting")
    /\ commands' = Append(commands, r)
    /\ UNCHANGED <<timed, hasSender, thread, serving, process, reply, outcome, close>>

Enqueue(r) ==
    /\ thread # "exited" /\ Len(commands) < CommandRoom /\ Requested(r, "sending", "waiting")
    /\ commands' = Append(commands, r)
    /\ UNCHANGED <<timed, hasSender, thread, serving, process, reply, outcome, close>>

RefuseFull(r) ==
    /\ thread # "exited" /\ Len(commands) >= CommandRoom /\ ReturnsWith(r, "sending", "full")
    /\ UNCHANGED <<timed, hasSender, commands, thread, serving, process, reply, close>>

RefuseDisconnected(r) ==
    /\ thread = "exited" /\ ReturnsWith(r, "sending", "closed")
    /\ UNCHANGED <<timed, hasSender, commands, thread, serving, process, reply, close>>

Receives(r) ==
    /\ reply[r] \in {"answer", "error"} /\ ReturnsWith(r, "waiting", reply[r])
    /\ UNCHANGED <<timed, hasSender, commands, thread, serving, process, reply, close>>

FindDropped(r) ==
    /\ reply[r] = "dropped" /\ ~timed /\ ReturnsWith(r, "waiting", "closed")
    /\ UNCHANGED <<timed, hasSender, commands, thread, serving, process, reply, close>>

\* recv_timeout fails: the deadline passed, or the reply was dropped.
TimesOut(r) ==
    /\ timed /\ reply[r] \in {"none", "dropped"} /\ Requested(r, "waiting", "killing")
    /\ UNCHANGED <<timed, hasSender, commands, thread, serving, process, reply, outcome, close>>

\* terminate_process, whoever the thread serves by now.
Kills(r) ==
    /\ ReturnsWith(r, "killing", "timeout")
    /\ process' = "reaped"
    /\ UNCHANGED <<timed, hasSender, commands, thread, serving, reply, close>>

-----------------------------------------------------------------------------
(* The worker thread and the child *)

TakeRequest ==
    /\ thread = "recv" /\ commands # <<>> /\ Head(commands) # "shutdown"
    /\ thread' = "serving" /\ serving' = Head(commands) /\ commands' = Tail(commands)
    /\ UNCHANGED <<timed, hasSender, process, request, reply, outcome, close>>

Reply(o) ==
    /\ thread = "serving"
    /\ reply' = [reply EXCEPT ![serving] = o]
    /\ thread' = "recv" /\ serving' = NoRequest
    /\ UNCHANGED <<timed, hasSender, commands, request, outcome, close>>

\* read_response returns: the child answered, with a result or an error.
ReadsAnswer == process = "running" /\ Reply("answer") /\ UNCHANGED process

\* Writing fails or the read finds the end of the stream.
ReadsEnd == process # "running" /\ Reply("error") /\ UNCHANGED process

\* A Shutdown, or a channel with no sender left.
Stop ==
    /\ thread = "recv"
    /\ IF commands = <<>> THEN ~hasSender /\ Cloned = {} /\ UNCHANGED commands
                          ELSE Head(commands) = "shutdown" /\ commands' = Tail(commands)
    /\ thread' = "exiting"
    /\ UNCHANGED <<timed, hasSender, serving, process, request, reply, outcome, close>>

Unserved == Requests \cap Range(commands)

\* The thread reaps a child that is still there; what is in the channel goes
\* with the receiver, and the replies with it.
Exit ==
    /\ thread = "exiting" /\ thread' = "exited"
    /\ process' = "reaped" /\ commands' = <<>>
    /\ reply' = [r \in Requests |-> IF r \in Unserved THEN "dropped" ELSE reply[r]]
    /\ UNCHANGED <<timed, hasSender, serving, request, outcome, close>>

\* Mutant: only the request in hand loses its reply.
PanicForgets ==
    /\ thread = "serving" /\ process = "running"
    /\ thread' = "exited" /\ commands' = <<>> /\ serving' = NoRequest
    /\ reply' = [reply EXCEPT ![serving] = "dropped"]
    /\ UNCHANGED <<timed, hasSender, process, request, outcome, close>>

\* A filesystem callback served inside the read panics.  The thread unwinds with
\* the channel and the reply in hand; the child is left to close.
ThreadPanics ==
    /\ thread = "serving" /\ process = "running"
    /\ thread' = "exited" /\ commands' = <<>> /\ serving' = NoRequest
    /\ reply' = [r \in Requests |-> IF r \in Unserved \cup {serving} THEN "dropped" ELSE reply[r]]
    /\ UNCHANGED <<timed, hasSender, process, request, outcome, close>>

ChildExits ==
    /\ process = "running" /\ process' = "exited"
    /\ UNCHANGED <<timed, hasSender, commands, thread, serving, request, reply, outcome, close>>

-----------------------------------------------------------------------------
(* close *)

\* The sender is taken and Shutdown tried, which a full channel refuses.
TakeSender(k) ==
    /\ Closed(k, "idle", "terminating")
    /\ hasSender' = FALSE
    /\ commands' = IF hasSender /\ thread # "exited" /\ Len(commands) < CommandRoom
                     THEN Append(commands, "shutdown") ELSE commands
    /\ UNCHANGED <<timed, thread, serving, process, request, reply, outcome>>

\* Mutant: the child is left to the thread.
SkipTerminate(k) ==
    /\ Closed(k, "terminating", "joining")
    /\ UNCHANGED <<timed, hasSender, commands, thread, serving, process, request, reply, outcome>>

Terminate(k) ==
    /\ Closed(k, "terminating", "joining")
    /\ process' = "reaped"
    /\ UNCHANGED <<timed, hasSender, commands, thread, serving, request, reply, outcome>>

\* Mutant: whoever does not get the join handle returns at once.
JoinUnlessTaken(k) ==
    /\ thread = "exited" \/ \E j \in Closes \ {k} : close[j] = "joining"
    /\ Closed(k, "joining", "closed")
    /\ UNCHANGED <<timed, hasSender, commands, thread, serving, process, request, reply, outcome>>

JoinThread(k) ==
    /\ thread = "exited" /\ Closed(k, "joining", "closed")
    /\ UNCHANGED <<timed, hasSender, commands, thread, serving, process, request, reply, outcome>>

-----------------------------------------------------------------------------
RequestContinues(r) ==
    \/ Enqueue(r) \/ RefuseFull(r) \/ RefuseDisconnected(r) \/ Receives(r)
    \/ FindDropped(r) \/ TimesOut(r) \/ Kills(r)

ThreadContinues == TakeRequest \/ ReadsEnd \/ Stop \/ Exit

CloseContinues(k) == Terminate(k) \/ JoinThread(k)

MsgpackNext ==
    \/ \E r \in Requests : CloneSender(r) \/ FindNoSender(r) \/ RequestContinues(r)
    \/ \E k \in Closes : TakeSender(k) \/ CloseContinues(k)
    \/ ThreadContinues \/ ReadsAnswer \/ ThreadPanics \/ ChildExits

MsgpackSpec == MsgpackInit /\ [][MsgpackNext]_msgpackVars

\* Threads run and deadlines pass.  Nothing is assumed of the child.
MsgpackFairness ==
    /\ WF_msgpackVars(ThreadContinues)
    /\ \A r \in Requests : WF_msgpackVars(RequestContinues(r))
    /\ \A k \in Closes : WF_msgpackVars(CloseContinues(k))

-----------------------------------------------------------------------------
MsgpackTypeOK ==
    /\ {timed, hasSender} \subseteq BOOLEAN
    /\ commands \in Seq(Requests \cup {"shutdown"}) /\ Len(commands) <= CommandRoom
    /\ thread \in {"recv", "serving", "exiting", "exited"}
    /\ serving \in Requests \cup {NoRequest} /\ (serving # NoRequest <=> thread = "serving")
    /\ process \in {"running", "exited", "reaped"}
    /\ request \in [Requests -> {"idle", "sending", "waiting", "killing", "done"}]
    /\ reply \in [Requests -> {"none", "answer", "error", "dropped"}]
    /\ outcome \in [Requests -> {"none", "answer", "error", "closed", "full", "timeout"}]
    /\ close \in [Closes -> {"idle", "terminating", "joining", "closed"}]

(* After any close returned, also one that found everything taken, the thread *)
(* is gone and the child reaped: no zombie outlives the client.                *)
ClosedMeansReaped ==
    (\E k \in Closes : close[k] = "closed") => thread = "exited" /\ process = "reaped"

(* Whoever waits for an answer is owed one: its request is in the channel or  *)
(* in the hands of the thread, also while closes and timeouts, a panic and the *)
(* end of the thread take the channel apart.                                   *)
AnswersOwed == \A r \in Requests :
    request[r] = "waiting" /\ reply[r] = "none" => r \in Unserved \cup {serving}

(* Nobody waits for ever.  A timeout ends the read it interrupts and not only  *)
(* the call: the thread does not stay with a child that hangs, although it    *)
(* may be serving the request of somebody else by now.  A request that was    *)
(* accepted returns when there is a timeout or a close, also when it is        *)
(* dropped with the channel.  And close returns although the thread may be    *)
(* waiting for a child that hangs.                                             *)
WorkerRests == <>[](
    /\ \A r \in Requests : request[r] = "waiting" => ~timed /\ hasSender
    /\ (\E r \in Requests : outcome[r] = "timeout") => thread # "serving"
    /\ \A k \in Closes : close[k] \in {"idle", "closed"})
=============================================================================
