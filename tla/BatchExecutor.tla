---------------------------- MODULE BatchExecutor ---------------------------
(***************************************************************************)
(* execute_all of the orchestrator                                         *)
(* (src/src/core/corsa_orchestrator/src/orchestrator/api.rs): the caller   *)
(* feeds a bounded channel; scoped workers share its receiver behind a     *)
(* mutex, which each keeps while it waits in recv; they run the task, send *)
(* what came of it, and leave when the channel is closed and empty.  The   *)
(* caller joins them, collects, and sorts by input.                        *)
(*                                                                         *)
(* The output for input i is i.  A task that panics is caught and counts   *)
(* as an error, and so does a lease that fails.  Nobody can panic inside   *)
(* recv, so the mutex is never poisoned; both receivers live until the     *)
(* caller is done, so no send fails.                                       *)
(***************************************************************************)
EXTENDS Integers, Sequences, FiniteSets, SequencesExt

CONSTANTS
    BatchWorkers,   \* scoped threads: replicas, and at least one
    NoWorker,       \* nobody holds the receiver
    MaxInputs,      \* bound: inputs of the batch
    QueueCapacity   \* work_queue_capacity, at least 1

ASSUME BatchAssumption ==
    /\ BatchWorkers # {} /\ IsFiniteSet(BatchWorkers) /\ NoWorker \notin BatchWorkers
    /\ MaxInputs \in Nat /\ QueueCapacity \in Nat \ {0}

VARIABLES
    inputs,    \* number of inputs; never changes
    caller,    \* control point of execute_all
    fed,       \* inputs sent so far
    work,      \* the work channel
    receiver,  \* worker that holds the mutex of the receiver
    at,        \* control point of each worker
    job,       \* input each worker has in hand, 0 for none
    outcomes,  \* history: what the task made of each input
    results,   \* the result channel: inputs whose outcome was sent
    value      \* what execute_all returned, see BatchPromise

Promise == INSTANCE BatchPromise WITH ran <- outcomes, answer <- value

batchVars == <<inputs, caller, fed, work, receiver, at, job, outcomes, results, value>>

BatchInit ==
    /\ inputs \in 0..MaxInputs
    /\ caller = "idle" /\ fed = 0 /\ work = <<>> /\ receiver = NoWorker
    /\ at = [w \in BatchWorkers |-> "unborn"]
    /\ job = [w \in BatchWorkers |-> 0]
    /\ outcomes = [i \in 1..inputs |-> "no"]
    /\ results = <<>> /\ value = Promise!Nothing

Calls(from, to) == caller = from /\ caller' = to

Works(w, from, to) == at[w] = from /\ at' = [at EXCEPT ![w] = to]

-----------------------------------------------------------------------------
\* No inputs: an empty result at once.
ReturnEmpty ==
    /\ inputs = 0 /\ Calls("idle", "returned") /\ value' = Promise!Outputs(<<>>)
    /\ UNCHANGED <<inputs, fed, work, receiver, at, job, outcomes, results>>

\* prewarm refuses the replicas or fails.
PrewarmRefuses ==
    /\ inputs > 0 /\ Calls("idle", "returned") /\ value' = Promise!Error
    /\ UNCHANGED <<inputs, fed, work, receiver, at, job, outcomes, results>>

SpawnWorkers ==
    /\ inputs > 0 /\ Calls("idle", "feeding")
    /\ at' = [w \in BatchWorkers |-> "locking"]
    /\ UNCHANGED <<inputs, fed, work, receiver, job, outcomes, results, value>>

Feed ==
    /\ caller = "feeding" /\ fed < inputs /\ Len(work) < QueueCapacity
    /\ fed' = fed + 1
    /\ work' = Append(work, fed')
    /\ UNCHANGED <<inputs, caller, receiver, at, job, outcomes, results, value>>

\* The sender is dropped, and the scope waits for its threads.
CloseWork ==
    /\ fed = inputs /\ Calls("feeding", "joining")
    /\ UNCHANGED <<inputs, fed, work, receiver, at, job, outcomes, results, value>>

LockReceiver(w) ==
    /\ receiver = NoWorker /\ Works(w, "locking", "receiving")
    /\ receiver' = w
    /\ UNCHANGED <<inputs, caller, fed, work, job, outcomes, results, value>>

\* Mutant: the guard lives as long as the job.
ReceiveAndHold(w) ==
    /\ work # <<>> /\ Works(w, "receiving", "running")
    /\ job' = [job EXCEPT ![w] = Head(work)]
    /\ work' = Tail(work)
    /\ UNCHANGED <<inputs, caller, fed, receiver, outcomes, results, value>>

Receive(w) ==
    /\ work # <<>> /\ Works(w, "receiving", "running")
    /\ job' = [job EXCEPT ![w] = Head(work)]
    /\ work' = Tail(work) /\ receiver' = NoWorker
    /\ UNCHANGED <<inputs, caller, fed, outcomes, results, value>>

LeaveWork(w) ==
    /\ work = <<>> /\ caller # "feeding" /\ Works(w, "receiving", "left")
    /\ receiver' = NoWorker
    /\ UNCHANGED <<inputs, caller, fed, work, job, outcomes, results, value>>

\* The task ends well, with an error, or with a panic that is caught.
RunJob(w) ==
    /\ Works(w, "running", "reporting")
    /\ \E o \in {"ok", "error"} : outcomes' = [outcomes EXCEPT ![job[w]] = o]
    /\ UNCHANGED <<inputs, caller, fed, work, receiver, job, results, value>>

\* Mutant: a panic is not caught, and ends the worker without a report.
ReportUnlessFailed(w) ==
    /\ Works(w, "reporting", IF outcomes[job[w]] = "error" THEN "left" ELSE "locking")
    /\ results' = IF outcomes[job[w]] = "error" THEN results ELSE Append(results, job[w])
    /\ job' = [job EXCEPT ![w] = 0]
    /\ UNCHANGED <<inputs, caller, fed, work, receiver, outcomes, value>>

Report(w) ==
    /\ Works(w, "reporting", "locking")
    /\ results' = Append(results, job[w])
    /\ job' = [job EXCEPT ![w] = 0]
    /\ UNCHANGED <<inputs, caller, fed, work, receiver, outcomes, value>>

\* Mutant: the outputs stay in the order the workers finished in.
Unsorted(s) == s

\* sort_by_key, by the input.
Sorted(s) ==
    LET places == 1..Len(s)
        order  == CHOOSE p \in Bijection(places, places) :
                    \A i, j \in places : i < j => s[p[i]] <= s[p[j]]
    IN  [i \in places |-> s[order[i]]]

\* All workers joined: as many results as inputs are received, the first error
\* ends the loop, and a missing one is an error too.
Collect ==
    /\ (\A w \in BatchWorkers : at[w] = "left") /\ Calls("joining", "returned")
    /\ value' = IF Len(results) < inputs \/ \E i \in ToSet(results) : outcomes[i] = "error"
                  THEN Promise!Error ELSE Promise!Outputs(Sorted(results))
    /\ UNCHANGED <<inputs, fed, work, receiver, at, job, outcomes, results>>

-----------------------------------------------------------------------------
BatchContinues == Feed \/ CloseWork \/ Collect

WorkerContinues(w) ==
    LockReceiver(w) \/ Receive(w) \/ LeaveWork(w) \/ RunJob(w) \/ Report(w)

BatchNext ==
    \/ ReturnEmpty \/ PrewarmRefuses \/ SpawnWorkers \/ BatchContinues
    \/ \E w \in BatchWorkers : WorkerContinues(w)

BatchSpec == BatchInit /\ [][BatchNext]_batchVars

\* Threads run and tasks end.  No fairness between the workers is needed: any
\* of them may do all the work.
BatchFairness ==
    /\ WF_batchVars(BatchContinues)
    /\ \A w \in BatchWorkers : WF_batchVars(WorkerContinues(w))

-----------------------------------------------------------------------------
BatchTypeOK ==
    /\ inputs \in 0..MaxInputs /\ fed \in 0..inputs
    /\ caller \in {"idle", "feeding", "joining", "returned"}
    /\ work \in Seq(1..inputs) /\ results \in Seq(1..inputs)
    /\ receiver \in BatchWorkers \cup {NoWorker}
    /\ at \in [BatchWorkers -> {"unborn", "locking", "receiving", "running", "reporting", "left"}]
    /\ job \in [BatchWorkers -> 0..inputs]
    /\ outcomes \in [1..inputs -> {"no", "ok", "error"}]
    /\ value \in [is : {"none", "error", "ok"}, outputs : Seq(1..inputs)]

\* Where an input that was fed is: exactly one of these is its place.
InHand(i) == \E w \in BatchWorkers : job[w] = i
PlacedOnce(i) ==
    /\ IsInjective(work) /\ IsInjective(results)
    /\ (i \in ToSet(work)) => ~InHand(i) /\ i \notin ToSet(results)
    /\ InHand(i) => i \notin ToSet(results)
    /\ \A v, w \in BatchWorkers : job[v] = i /\ job[w] = i => v = w

(* No input is lost and none is worked on twice: every input that was fed is *)
(* in the channel, in the hands of one worker, or among the results.          *)
NoInputLost ==
    \A i \in 1..inputs :
        /\ PlacedOnce(i)
        /\ i <= fed => i \in ToSet(work) \/ InHand(i) \/ i \in ToSet(results)

(* execute_all does what it promises ("Results preserve the original input   *)
(* order even though execution may happen concurrently", api.rs:404).         *)
KeepsPromise == Promise!BatchPromiseSpec

(* execute_all returns: the caller that waits for room, the workers that wait *)
(* for the receiver and the one that waits in recv never wait on each other.  *)
BatchReturns == caller = "feeding" ~> caller = "returned"
=============================================================================
