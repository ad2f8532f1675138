----------------------------- MODULE LspShutdown ----------------------------
(***************************************************************************)
(* close and graceful_close of LspClient                                   *)
(* (src/src/core/corsa_lsp/src/lsp/client.rs): clones of a client share    *)
(* one shutdown attempt through ShutdownCoordinator.  Whoever finds the    *)
(* phase Open runs the attempt; the others wait on the condition variable  *)
(* and return a copy of its result.  The child is owned by an              *)
(* AsyncChildGuard (corsa_core process.rs), which the last clone drops.    *)
(* What the steps of the connection do is JsonRpcConnection's part: each   *)
(* ends well or not.  An observer called by the attempt may panic.         *)
(***************************************************************************)
EXTENDS Integers, Sequences, SequencesExt, FiniteSets

CONSTANT Clones   \* clones of the client; each closes once, and is dropped

VARIABLES
    phase,      \* ShutdownPhase
    verdict,    \* the result in Closed
    asleep,     \* clones that wait on the condition variable
    clone,      \* control point of each clone
    graceful,   \* clones that called graceful_close
    failed,     \* steps of the attempt that failed, with the clone's name
    returned,   \* what each clone was told: "nothing", "ok" or the failed step
    child,      \* "guarded", "taken", "reaped", or "lost"
    asked       \* history: shutdown requests sent

shutdownVars == <<phase, verdict, asleep, clone, graceful, failed, returned, child, asked>>

ShutdownInit ==
    /\ phase = "open" /\ verdict = "nothing" /\ asleep = {} /\ failed = {} /\ asked = 0
    /\ clone = [c \in Clones |-> "idle"] /\ graceful \in SUBSET Clones
    /\ returned = [c \in Clones |-> "nothing"]
    /\ child = "guarded"

CloneGoes(c, from, to) == clone[c] = from /\ clone' = [clone EXCEPT ![c] = to]

Order == <<"protocol", "transport", "process", "reader">>

\* protocol.and(transport).and(process).and(reader): the first that failed.
FirstFailure(f) ==
    LET steps == {i \in DOMAIN Order : Order[i] \in f}
    IN  IF f = {} THEN "ok" ELSE Order[CHOOSE i \in steps : \A j \in steps : i <= j]

-----------------------------------------------------------------------------
\* ShutdownCoordinator::begin, first look.
BeginAttempt(c) ==
    /\ phase = "open" /\ phase' = "closing"
    /\ CloneGoes(c, "idle", IF c \in graceful THEN "protocol" ELSE "transport")
    /\ UNCHANGED <<verdict, asleep, graceful, failed, returned, child, asked>>

\* Mutant: a clone that finds another at work helps it.
JoinAttempt(c) ==
    /\ phase = "closing"
    /\ CloneGoes(c, "idle", IF c \in graceful THEN "protocol" ELSE "transport")
    /\ UNCHANGED <<phase, verdict, asleep, graceful, failed, returned, child, asked>>

Sleep(c) ==
    /\ phase = "closing" /\ CloneGoes(c, "idle", "waiting")
    /\ asleep' = asleep \cup {c}
    /\ UNCHANGED <<phase, verdict, graceful, failed, returned, child, asked>>

\* Found closed at once or after a wake-up: the result is copied.
ReturnVerdict(c) ==
    /\ phase = "closed" /\ clone[c] \in {"idle", "waiting"} /\ c \notin asleep
    /\ clone' = [clone EXCEPT ![c] = "gone"]
    /\ returned' = [returned EXCEPT ![c] = verdict]
    /\ UNCHANGED <<phase, verdict, asleep, graceful, failed, child, asked>>

\* The shutdown request, and exit once it is answered; either may fail.
Protocol(c) ==
    /\ CloneGoes(c, "protocol", "transport")
    /\ asked' = asked + 1
    /\ failed' \in {failed, failed \cup {"protocol"}}
    /\ UNCHANGED <<phase, verdict, asleep, graceful, returned, child>>

\* begin_close of the connection.
Transport(c) ==
    /\ CloneGoes(c, "transport", "process")
    /\ failed' \in {failed, failed \cup {"transport"}}
    /\ UNCHANGED <<phase, verdict, asleep, graceful, returned, child, asked>>

\* AsyncChildGuard::shutdown takes the child ...
TakeChild(c) ==
    /\ CloneGoes(c, "process", "waits")
    /\ child' = "taken"
    /\ UNCHANGED <<phase, verdict, asleep, graceful, failed, returned, asked>>

\* Mutant: an error of wait_for_child_exit is logged and forgotten.
WaitChildLenient(c) ==
    /\ CloneGoes(c, "waits", "reader")
    /\ child' \in {"reaped", "lost"} /\ UNCHANGED failed
    /\ UNCHANGED <<phase, verdict, asleep, graceful, returned, asked>>

\* ... and reaps it, killed or not; an error of try_wait, kill or wait drops the
\* handle of a child nobody can wait for any more.
WaitChild(c) ==
    /\ CloneGoes(c, "waits", "reader")
    /\ \/ child' = "reaped" /\ UNCHANGED failed
       \/ child' = "lost" /\ failed' = failed \cup {"process"}
    /\ UNCHANGED <<phase, verdict, asleep, graceful, returned, asked>>

JoinReader(c) ==
    /\ CloneGoes(c, "reader", "finish")
    /\ failed' \in {failed, failed \cup {"reader"}}
    /\ UNCHANGED <<phase, verdict, asleep, graceful, returned, child, asked>>

\* Mutant: notify_one, so that one of those who wait hears of it.
FinishOne(c) ==
    /\ CloneGoes(c, "finish", "gone")
    /\ phase' = "closed" /\ verdict' = FirstFailure(failed)
    /\ \E d \in asleep \cup {c} : asleep' = asleep \ {d}
    /\ returned' = [returned EXCEPT ![c] = verdict']
    /\ UNCHANGED <<graceful, failed, child, asked>>

\* ShutdownCoordinator::finish.
Finish(c) ==
    /\ CloneGoes(c, "finish", "gone")
    /\ phase' = "closed" /\ verdict' = FirstFailure(failed)
    /\ asleep' = {}
    /\ returned' = [returned EXCEPT ![c] = verdict']
    /\ UNCHANGED <<graceful, failed, child, asked>>

\* An observer of the connection panics in a step of the attempt.
AttemptPanics(c) ==
    /\ clone[c] \in {"protocol", "transport"}
    /\ clone' = [clone EXCEPT ![c] = "panicked"]
    /\ UNCHANGED <<phase, verdict, asleep, graceful, failed, returned, child, asked>>

Gone(c) == clone[c] \in {"gone", "panicked"}

\* A client may also be dropped unclosed.
DropClone(c) ==
    /\ CloneGoes(c, "idle", "gone")
    /\ UNCHANGED <<phase, verdict, asleep, graceful, failed, returned, child, asked>>

\* AsyncChildGuard::drop, by the last clone.
DropGuard ==
    /\ child = "guarded" /\ \A c \in Clones : Gone(c)
    /\ child' \in {"reaped", "lost"}
    /\ UNCHANGED <<phase, verdict, asleep, clone, graceful, failed, returned, asked>>

-----------------------------------------------------------------------------
ShutdownContinues(c) ==
    \/ ReturnVerdict(c) /\ clone[c] # "idle"
    \/ Protocol(c) \/ Transport(c) \/ TakeChild(c) \/ WaitChild(c) \/ JoinReader(c) \/ Finish(c)

ShutdownNext ==
    \/ \E c \in Clones :
         \/ BeginAttempt(c) \/ Sleep(c) \/ ReturnVerdict(c) \/ Protocol(c) \/ Transport(c)
         \/ TakeChild(c) \/ WaitChild(c) \/ JoinReader(c) \/ Finish(c)
         \/ AttemptPanics(c) \/ DropClone(c)
    \/ DropGuard

ShutdownSpec == ShutdownInit /\ [][ShutdownNext]_shutdownVars

\* A step of the attempt ends: requests time out, and waiting for the child does.
ShutdownFairness ==
    WF_shutdownVars(DropGuard) /\ \A c \in Clones : WF_shutdownVars(ShutdownContinues(c))

-----------------------------------------------------------------------------
Attempting == {c \in Clones : clone[c] \in {"protocol", "transport", "process", "waits", "reader", "finish"}}

ShutdownTypeOK ==
    /\ phase \in {"open", "closing", "closed"}
    /\ verdict \in {"nothing", "ok"} \cup ToSet(Order)
    /\ asleep \subseteq {c \in Clones : clone[c] = "waiting"}
    /\ clone \in [Clones -> {"idle", "waiting", "protocol", "transport", "process", "waits",
                             "reader", "finish", "gone", "panicked"}]
    /\ graceful \subseteq Clones /\ failed \subseteq ToSet(Order)
    /\ returned \in [Clones -> {"nothing", "ok"} \cup ToSet(Order)]
    /\ child \in {"guarded", "taken", "reaped", "lost"}
    /\ child = "taken" => \E c \in Clones : clone[c] = "waits"

(* "Concurrent or repeated calls across cloned clients share one shutdown     *)
(* attempt" (client.rs:315): one clone at a time attempts, the server is asked *)
(* at most once, and nobody attempts after one was begun.                      *)
OneAttempt ==
    /\ Cardinality(Attempting) <= 1 /\ asked <= 1
    /\ phase = "closed" => Attempting = {}

(* "and return the same outcome": whatever a clone was told is what all are   *)
(* told.                                                                       *)
SameOutcome == \A c \in Clones : returned[c] # "nothing" => returned[c] = verdict

OneShutdown == OneAttempt /\ SameOutcome

(* A close that reports success has reaped the child and nothing failed on    *)
(* the way, also for a clone that only waited.                                 *)
OkMeansReaped == \A c \in Clones :
    returned[c] = "ok" => child = "reaped" /\ failed = {}

(* Every clone that closes returns, unless the attempt panicked: then the     *)
(* phase stays Closing, and those who wait keep the child alive.  And the     *)
(* child is not left running: once every clone is gone it is reaped, or the   *)
(* system refused to say what became of it.                                    *)
ShutdownRests == <>[](
    /\ \A c \in Clones : clone[c] = "waiting" => \E d \in Clones : clone[d] = "panicked"
    /\ (\A c \in Clones : Gone(c)) => child \in {"reaped", "lost"})
=============================================================================
