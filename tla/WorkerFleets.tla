---------------------------- MODULE WorkerFleets ----------------------------
(***************************************************************************)
(* The fleet of workers of one profile                                     *)
(* (src/src/core/corsa_orchestrator/src/orchestrator/api.rs): prewarm,     *)
(* lease, lease_for_project, release_project_affinity, shutdown_profile.   *)
(*                                                                         *)
(* A call fetches the fleet, and keeps working on that fleet although a    *)
(* shutdown may have unmapped and emptied it meanwhile and another call    *)
(* made a new one.  Between its steps a call holds no lock: a step is what *)
(* happens under one.  Dropping a fleet nobody maps or holds is left out;  *)
(* the bound of the affinity map is OrchestratorCaches'.                   *)
(***************************************************************************)
EXTENDS Integers, Sequences, FiniteSets, SequencesExt

CONSTANTS
    FleetCallers,   \* threads that use the fleet
    Projects,       \* project keys that are pinned
    MaxWorkers,     \* max_workers_per_profile
    MaxFleets,      \* bound: fleets made for the profile
    MaxSpawned,     \* bound: processes spawned; then spawning fails
    Period          \* bound: where the round robin counter starts over

\* A period that every possible size of a fleet divides changes no choice.
ASSUME FleetAssumption ==
    /\ {MaxWorkers, MaxFleets, MaxSpawned, Period} \subseteq Nat \ {0}
    /\ \A n \in 1..MaxWorkers : Period % n = 0

VARIABLES
    fleet,      \* the mapped fleet, 0 for none
    made,       \* fleets made so far
    clients,    \* workers of each fleet, in the order they were accepted
    next,       \* round robin counter of each fleet
    pin,        \* index a project is pinned to in each fleet, or 0
    spawned,    \* workers spawned so far
    asked,      \* workers that were asked to close
    step,       \* control point of each caller
    call,       \* what each caller is doing: kind of call, replicas, project
    held,       \* fleet each caller works on
    inHand,     \* workers each caller has to close or to offer to its fleet
    disturbed,  \* history: a shutdown unmapped the fleet during the call
    leased,     \* history: worker given to each project since it was unpinned
    accepted    \* history: workers that have been in a fleet

shared    == <<fleet, made, clients, next, pin>>
fleetVars == <<shared, spawned, asked, step, call, held, inHand, disturbed, leased, accepted>>

Fleets     == 1..MaxFleets
NoCall     == [op |-> "none", want |-> 1, project |-> CHOOSE p \in Projects : TRUE]
FleetCalls ==
    {[NoCall EXCEPT !.op = "prewarm", !.want = n] : n \in 1..MaxWorkers}
    \cup {[NoCall EXCEPT !.op = o] : o \in {"lease", "shutdown"}}
    \cup {[NoCall EXCEPT !.op = "pinned", !.project = p] : p \in Projects}
    \cup {[NoCall EXCEPT !.op = "unpin", !.project = p] : p \in Projects}

Wrap(n) == n % Period

FleetInit ==
    /\ fleet = 0 /\ made = 0 /\ spawned = 0 /\ asked = {} /\ accepted = {}
    /\ clients = [f \in Fleets |-> <<>>]
    /\ next = [f \in Fleets |-> 0]
    /\ pin = [f \in Fleets |-> [p \in Projects |-> 0]]
    /\ leased = [f \in Fleets |-> [p \in Projects |-> 0]]
    /\ step = [c \in FleetCallers |-> "idle"]
    /\ call = [c \in FleetCallers |-> NoCall]
    /\ held = [c \in FleetCallers |-> 0]
    /\ inHand = [c \in FleetCallers |-> <<>>]
    /\ disturbed = [c \in FleetCallers |-> FALSE]

Goes(c, from, to) == step[c] = from /\ step' = [step EXCEPT ![c] = to]

Returns(c, from) ==
    /\ Goes(c, from, "idle")
    /\ call' = [call EXCEPT ![c] = NoCall]
    /\ held' = [held EXCEPT ![c] = 0]
    /\ inHand' = [inHand EXCEPT ![c] = <<>>]
    /\ disturbed' = [disturbed EXCEPT ![c] = FALSE]

Here(c) == clients[held[c]]

-----------------------------------------------------------------------------
\* fleet(): found, or made under the write lock.
Fetch(c) ==
    /\ \/ fleet # 0 /\ UNCHANGED <<fleet, made>>
       \/ fleet = 0 /\ made' = made + 1 /\ fleet' = made'
    /\ held' = [held EXCEPT ![c] = fleet']
    /\ UNCHANGED <<clients, next, pin, spawned, asked, inHand, disturbed, leased, accepted>>

\* prewarm begins with the fleet; more replicas than max_workers_per_profile
\* are refused before.
StartCall(c, x) ==
    /\ x.op \in {"prewarm", "lease", "pinned"}
    /\ Goes(c, "idle", "counting")
    /\ call' = [call EXCEPT ![c] = x]
    /\ Fetch(c)

\* The loop of prewarm looks at the fleet and spawns without a lock.
Spawn(c) ==
    /\ Goes(c, "counting", "offering")
    /\ Len(Here(c)) < call[c].want /\ spawned < MaxSpawned
    /\ spawned' = spawned + 1
    /\ inHand' = [inHand EXCEPT ![c] = <<spawned'>>]
    /\ UNCHANGED <<shared, asked, call, held, disturbed, leased, accepted>>

SpawnFails(c) ==
    /\ Returns(c, "counting")
    /\ Len(Here(c)) < call[c].want
    /\ UNCHANGED <<shared, spawned, asked, leased, accepted>>

\* Mutant: the size looked at before the spawn is trusted.
WelcomeAlways(c) == Len(Here(c)) >= 0

\* Looked at again under the write lock.
Welcome(c) == Len(Here(c)) < call[c].want /\ Len(Here(c)) < MaxWorkers

Accept(c) ==
    /\ Goes(c, "offering", "counting")
    /\ Welcome(c)
    /\ clients' = [clients EXCEPT ![held[c]] = @ \o inHand[c]]
    /\ accepted' = accepted \cup ToSet(inHand[c])
    /\ inHand' = [inHand EXCEPT ![c] = <<>>]
    /\ UNCHANGED <<fleet, made, next, pin, spawned, asked, call, held, disturbed, leased>>

\* A concurrent prewarm was faster: the extra worker is closed and the loop left.
CloseExtra(c) ==
    /\ Goes(c, "offering", "warm")
    /\ ~Welcome(c)
    /\ asked' = asked \cup ToSet(inHand[c])
    /\ inHand' = [inHand EXCEPT ![c] = <<>>]
    /\ UNCHANGED <<shared, spawned, call, held, disturbed, leased, accepted>>

\* Mutant: the loop ends one worker too early.
AlmostEnough(c) ==
    /\ Goes(c, "counting", "warm")
    /\ Len(Here(c)) >= call[c].want - 1
    /\ UNCHANGED <<shared, spawned, asked, call, held, inHand, disturbed, leased, accepted>>

EnoughWorkers(c) ==
    /\ Goes(c, "counting", "warm")
    /\ Len(Here(c)) >= call[c].want
    /\ UNCHANGED <<shared, spawned, asked, call, held, inHand, disturbed, leased, accepted>>

PrewarmReturns(c) ==
    /\ call[c].op = "prewarm" /\ Returns(c, "warm")
    /\ UNCHANGED <<shared, spawned, asked, leased, accepted>>

\* A lease fetches the fleet again after its prewarm.
FetchAgain(c) ==
    /\ call[c].op # "prewarm" /\ Goes(c, "warm", "choosing")
    /\ UNCHANGED call /\ Fetch(c)

RoundRobin(f) == (next[f] % Len(clients[f])) + 1

\* round_robin_index: the next worker, or the error for an empty fleet.
Lease(c) ==
    /\ call[c].op = "lease" /\ Returns(c, "choosing")
    /\ next' = IF Here(c) = <<>> THEN next ELSE [next EXCEPT ![held[c]] = Wrap(@ + 1)]
    /\ UNCHANGED <<fleet, made, clients, pin, spawned, asked, leased, accepted>>

\* Mutant: the pin is written and never looked at.
PinnedIndexIgnored(f, p) == 0

\* The pin of a project, 0 when there is none or it points past the fleet.
PinnedIndex(f, p) == IF pin[f][p] <= Len(clients[f]) THEN pin[f][p] ELSE 0

\* lease_for_project: looked up and inserted under one lock.
LeasePinned(c) ==
    LET f == held[c]
        p == call[c].project
        i == IF PinnedIndex(f, p) # 0 THEN PinnedIndex(f, p) ELSE RoundRobin(f)
    IN  /\ call[c].op = "pinned" /\ Returns(c, "choosing")
        /\ IF Here(c) = <<>> THEN UNCHANGED <<next, pin, leased>>
           ELSE /\ pin' = [pin EXCEPT ![f][p] = i]
                /\ leased' = [leased EXCEPT ![f][p] = clients[f][i]]
                /\ next' = IF PinnedIndex(f, p) # 0 THEN next ELSE [next EXCEPT ![f] = Wrap(@ + 1)]
        /\ UNCHANGED <<fleet, made, clients, spawned, asked, accepted>>

\* release_project_affinity: the fleet is looked up, the pin removed later.
FindFleet(c, p) ==
    /\ fleet # 0 /\ Goes(c, "idle", "unpinning")
    /\ call' = [call EXCEPT ![c] = [NoCall EXCEPT !.op = "unpin", !.project = p]]
    /\ held' = [held EXCEPT ![c] = fleet]
    /\ UNCHANGED <<shared, spawned, asked, inHand, disturbed, leased, accepted>>

Unpin(c) ==
    /\ Returns(c, "unpinning")
    /\ pin' = [pin EXCEPT ![held[c]][call[c].project] = 0]
    /\ leased' = [leased EXCEPT ![held[c]][call[c].project] = 0]
    /\ UNCHANGED <<fleet, made, clients, next, spawned, asked, accepted>>

\* shutdown_profile, step by step.
Unmap(c) ==
    /\ fleet # 0 /\ made < MaxFleets  \* bound
    /\ Goes(c, "idle", "unmapped")
    /\ call' = [call EXCEPT ![c] = [NoCall EXCEPT !.op = "shutdown"]]
    /\ held' = [held EXCEPT ![c] = fleet]
    /\ fleet' = 0
    /\ disturbed' = [d \in FleetCallers |-> disturbed[d] \/ step[d] # "idle"]
    /\ UNCHANGED <<made, clients, next, pin, spawned, asked, inHand, leased, accepted>>

TakeClients(c) ==
    /\ Goes(c, "unmapped", "forgetting")
    /\ inHand' = [inHand EXCEPT ![c] = Here(c)]
    /\ clients' = [clients EXCEPT ![held[c]] = <<>>]
    /\ UNCHANGED <<fleet, made, next, pin, spawned, asked, call, held, disturbed, leased, accepted>>

ForgetPins(c) ==
    /\ Goes(c, "forgetting", "closing")
    /\ pin' = [pin EXCEPT ![held[c]] = [p \in Projects |-> 0]]
    /\ leased' = [leased EXCEPT ![held[c]] = [p \in Projects |-> 0]]
    /\ UNCHANGED <<fleet, made, clients, next, spawned, asked, call, held, inHand, disturbed, accepted>>

\* Whether the close succeeds or fails, the loop goes on.
CloseNext(c) ==
    /\ inHand[c] # <<>> /\ step[c] = "closing"
    /\ asked' = asked \cup {Head(inHand[c])}
    /\ inHand' = [inHand EXCEPT ![c] = Tail(@)]
    /\ UNCHANGED <<shared, spawned, step, call, held, disturbed, leased, accepted>>

ShutdownReturns(c) ==
    /\ inHand[c] = <<>> /\ Returns(c, "closing")
    /\ UNCHANGED <<shared, spawned, asked, leased, accepted>>

-----------------------------------------------------------------------------
FleetContinues(c) ==
    \/ FetchAgain(c) \/ Spawn(c) \/ SpawnFails(c) \/ Accept(c) \/ CloseExtra(c)
    \/ EnoughWorkers(c) \/ PrewarmReturns(c) \/ Lease(c) \/ LeasePinned(c)
    \/ Unpin(c) \/ TakeClients(c) \/ ForgetPins(c) \/ CloseNext(c) \/ ShutdownReturns(c)

FleetNext == \E c \in FleetCallers :
    \/ FleetContinues(c) \/ Unmap(c)
    \/ (\E x \in FleetCalls : StartCall(c, x))
    \/ (\E p \in Projects : FindFleet(c, p))

FleetSpec == FleetInit /\ [][FleetNext]_fleetVars

\* Every call goes on: spawning and closing a worker end some time.
FleetFairness == \A c \in FleetCallers : WF_fleetVars(FleetContinues(c))

-----------------------------------------------------------------------------
Workers == 1..MaxSpawned

FleetTypeOK ==
    /\ fleet \in 0..made /\ made \in 0..MaxFleets /\ spawned \in 0..MaxSpawned
    /\ clients \in [Fleets -> Seq(Workers)]
    /\ next \in [Fleets -> Nat]
    /\ pin \in [Fleets -> [Projects -> 0..MaxWorkers]]
    /\ leased \in [Fleets -> [Projects -> 0..MaxSpawned]]
    /\ asked \subseteq 1..spawned /\ accepted \subseteq 1..spawned
    /\ call \in [FleetCallers -> FleetCalls \cup {NoCall}]
    /\ held \in [FleetCallers -> 0..made]
    /\ inHand \in [FleetCallers -> Seq(Workers)]
    /\ disturbed \in [FleetCallers -> BOOLEAN]
    /\ step \in [FleetCallers -> {"idle", "counting", "offering", "warm", "choosing",
                                 "unpinning", "unmapped", "forgetting", "closing"}]

(* A fleet never has more workers than max_workers_per_profile, whatever     *)
(* prewarms run side by side.                                                *)
FleetWithinMax == \A f \in Fleets : Len(clients[f]) <= MaxWorkers

(* A worker a lease can hand out has not been asked to close: not by a        *)
(* prewarm that found it superfluous, nor by a shutdown.                      *)
MembersOpen == \A f \in Fleets : ToSet(clients[f]) \cap asked = {}

(* prewarm that returns Ok leaves the replicas it was asked for in the fleet  *)
(* it worked on, unless that fleet was shut down meanwhile.                   *)
PrewarmDelivers == \A c \in FleetCallers :
    step[c] = "warm" /\ Len(Here(c)) < call[c].want => disturbed[c]

(* A lease finds its fleet empty only when a shutdown overlapped the call     *)
(* (the comment at lease: "which a concurrent shutdown_profile can cause").   *)
EmptyOnlyByShutdown == \A c \in FleetCallers :
    step[c] = "choosing" /\ Here(c) = <<>> => disturbed[c]

(* "one stuck process cannot strand the rest": a worker that was in a fleet   *)
(* is in one, or was asked to close, or is on the list of a shutdown.         *)
NoneStranded ==
    accepted \subseteq asked \cup (UNION {ToSet(clients[f]) : f \in Fleets})
                         \cup (UNION {ToSet(inHand[c]) : c \in FleetCallers})

(* What prewarms and shutdowns that overlap must keep of the workers.         *)
WorkersAccounted == FleetWithinMax /\ MembersOpen /\ NoneStranded

(* What a caller may rely on although others work on the same fleet.          *)
FleetServes == PrewarmDelivers /\ EmptyOnlyByShutdown

(* A project keeps the worker it was given as long as that worker is in the   *)
(* fleet and the pin is not released.                                         *)
AffinityKept == [][\A f \in Fleets, p \in Projects :
    leased[f][p] \in ToSet(clients[f]) => leased'[f][p] \in {leased[f][p], 0}]_fleetVars

(* Every call returns: the loop of prewarm ends although others add, refuse   *)
(* and take workers meanwhile.                                                *)
FleetCallsReturn == \A c \in FleetCallers : step[c] # "idle" ~> step[c] = "idle"
=============================================================================
