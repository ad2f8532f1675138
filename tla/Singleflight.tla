---------------------------- MODULE Singleflight ----------------------------
(***************************************************************************)
(* The cell behind initialize and describe_capabilities                    *)
(* (src/src/core/corsa_client/src/api/client.rs: SingleflightCell,         *)
(* SingleflightWait): the first caller runs the request, those who come    *)
(* meanwhile wait for its result, a success is kept and a failure is not.  *)
(* A waiter is a future in a block_on of its own (corsa_runtime            *)
(* executor.rs): its first poll starts a thread that waits on the channel  *)
(* for it, puts the result into the shared state and calls the waker.      *)
(* A leader may panic, and then nobody takes the cell out of InFlight.     *)
(***************************************************************************)
EXTENDS Integers, FiniteSets

CONSTANTS Joiners,      \* threads that ask for the value
          MaxFlights    \* bound: requests made

ASSUME FlightAssumption == MaxFlights \in Nat

VARIABLES
    cell,       \* SingleflightState: the flight in the air, and who waits
    ready,      \* the flight whose value is kept, 0 for none
    flown,      \* outcome of each flight: a sequence grows with each leader
    who,        \* control point of each caller
    flight,     \* history: flight each caller leads or joined
    channel,    \* result in each waiter's channel: 0 none, else its flight
    result,     \* SingleflightWaitState.result, likewise
    waker,      \* TRUE while SingleflightWaitState.waker holds one
    helper,     \* control point of each waiter's thread
    woken,      \* Parker.notified of each caller
    got         \* the flight whose outcome each caller was given

flightVars == <<cell, ready, flown, who, flight, channel, result, waker, helper, woken, got>>

FlightInit ==
    /\ cell = [open |-> FALSE, waiters |-> {}] /\ ready = 0 /\ flown = <<>>
    /\ who = [c \in Joiners |-> "idle"]
    /\ flight = [c \in Joiners |-> 0] /\ got = [c \in Joiners |-> 0]
    /\ channel = [c \in Joiners |-> 0] /\ result = [c \in Joiners |-> 0]
    /\ waker = [c \in Joiners |-> FALSE] /\ woken = [c \in Joiners |-> FALSE]
    /\ helper = [c \in Joiners |-> "none"]

Acts(c, from, to) == who[c] = from /\ who' = [who EXCEPT ![c] = to]

Flown == DOMAIN flown

-----------------------------------------------------------------------------
\* get_or_try_init, under the lock of the cell.
Find(c) ==
    /\ ready # 0 /\ Acts(c, "idle", "done")
    /\ got' = [got EXCEPT ![c] = ready]
    /\ UNCHANGED <<cell, ready, flown, flight, channel, result, waker, helper, woken>>

Join(c) ==
    /\ ready = 0 /\ cell.open /\ Acts(c, "idle", "clear")
    /\ cell' = [cell EXCEPT !.waiters = @ \cup {c}]
    /\ flight' = [flight EXCEPT ![c] = Cardinality(Flown)]
    /\ UNCHANGED <<ready, flown, channel, result, waker, helper, woken, got>>

Lead(c) ==
    /\ ready = 0 /\ ~cell.open /\ Cardinality(Flown) < MaxFlights  \* bound
    /\ Acts(c, "idle", "leading")
    /\ cell' = [cell EXCEPT !.open = TRUE]
    /\ flown' = [f \in 1..(Cardinality(Flown) + 1) |-> IF f \in Flown THEN flown[f] ELSE "up"]
    /\ flight' = [flight EXCEPT ![c] = Cardinality(Flown) + 1]
    /\ UNCHANGED <<ready, channel, result, waker, helper, woken, got>>

\* The request ends, and the cell is Ready or, after a failure, Empty again.
\* The leader has taken the waiters; they stay in the record until it sends.
Land(c) ==
    /\ Acts(c, "leading", "sending")
    /\ \E o \in {"ok", "error"} :
         /\ flown' = [flown EXCEPT ![flight[c]] = o]
         /\ ready' = IF o = "ok" THEN flight[c] ELSE 0
    /\ cell' = [cell EXCEPT !.open = FALSE]
    /\ UNCHANGED <<flight, channel, result, waker, helper, woken, got>>

LeaderPanics(c) ==
    /\ Acts(c, "leading", "panicked")
    /\ flown' = [flown EXCEPT ![flight[c]] = "lost"]
    /\ UNCHANGED <<cell, ready, flight, channel, result, waker, helper, woken, got>>

\* Those who joined this flight; a later one may have waiters already.
Waiting(f) == {w \in Joiners : flight[w] = f /\ who[w] \in {"clear", "poll", "park"}}

\* Each channel has room for one result, and no send blocks.
Send(c) ==
    /\ Acts(c, "sending", "done")
    /\ channel' = [w \in Joiners |-> IF w \in Waiting(flight[c]) \cap cell.waiters
                                       THEN flight[c] ELSE channel[w]]
    /\ cell' = [cell EXCEPT !.waiters = @ \ Waiting(flight[c])]
    /\ got' = [got EXCEPT ![c] = flight[c]]
    /\ UNCHANGED <<ready, flown, flight, result, waker, helper, woken>>

-----------------------------------------------------------------------------
\* block_on clears the bit before it polls.
ClearBit(c) ==
    /\ Acts(c, "clear", "poll")
    /\ woken' = [woken EXCEPT ![c] = FALSE]
    /\ UNCHANGED <<cell, ready, flown, flight, channel, result, waker, helper, got>>

\* Poll::Ready: the result is taken.
PollReady(c) ==
    /\ result[c] # 0 /\ Acts(c, "poll", "done")
    /\ got' = [got EXCEPT ![c] = result[c]]
    /\ UNCHANGED <<cell, ready, flown, flight, channel, result, waker, helper, woken>>

\* Mutant: the waker is registered by the first poll only, after its thread.
PollUnregistered(c) ==
    /\ result[c] = 0 /\ Acts(c, "poll", "park")
    /\ waker' = [waker EXCEPT ![c] = helper[c] # "none"]
    /\ helper' = [helper EXCEPT ![c] = IF @ = "none" THEN "recv" ELSE @]
    /\ UNCHANGED <<cell, ready, flown, flight, channel, result, woken, got>>

\* Poll::Pending: the waker is registered and the thread runs.
PollPending(c) ==
    /\ result[c] = 0 /\ Acts(c, "poll", "park")
    /\ waker' = [waker EXCEPT ![c] = TRUE]
    /\ helper' = [helper EXCEPT ![c] = IF @ = "none" THEN "recv" ELSE @]
    /\ UNCHANGED <<cell, ready, flown, flight, channel, result, woken, got>>

ParkCaller(c) ==
    /\ woken[c] /\ Acts(c, "park", "clear")
    /\ UNCHANGED <<cell, ready, flown, flight, channel, result, waker, helper, woken, got>>

\* Mutant: the thread takes what the cell has by now.
HearLatest(c) ==
    /\ channel[c] # 0 /\ helper[c] = "recv"
    /\ helper' = [helper EXCEPT ![c] = IF waker[c] THEN "wake" ELSE "gone"]
    /\ result' = [result EXCEPT ![c] = Cardinality(Flown)]
    /\ waker' = [waker EXCEPT ![c] = FALSE]
    /\ UNCHANGED <<cell, ready, flown, who, flight, channel, woken, got>>

\* The thread receives, stores and takes the waker under one lock, ...
Hear(c) ==
    /\ channel[c] # 0 /\ helper[c] = "recv"
    /\ helper' = [helper EXCEPT ![c] = IF waker[c] THEN "wake" ELSE "gone"]
    /\ result' = [result EXCEPT ![c] = channel[c]]
    /\ waker' = [waker EXCEPT ![c] = FALSE]
    /\ UNCHANGED <<cell, ready, flown, who, flight, channel, woken, got>>

\* ... and calls it without.
WakeCaller(c) ==
    /\ helper[c] = "wake"
    /\ helper' = [helper EXCEPT ![c] = "gone"]
    /\ woken' = [woken EXCEPT ![c] = TRUE]
    /\ UNCHANGED <<cell, ready, flown, who, flight, channel, result, waker, got>>

\* The caller asks again another time.
AskAgain(c) ==
    /\ Acts(c, "done", "idle") /\ helper[c] \in {"none", "gone"}
    /\ flight' = [flight EXCEPT ![c] = 0] /\ got' = [got EXCEPT ![c] = 0]
    /\ channel' = [channel EXCEPT ![c] = 0] /\ result' = [result EXCEPT ![c] = 0]
    /\ helper' = [helper EXCEPT ![c] = "none"]
    /\ UNCHANGED <<cell, ready, flown, waker, woken>>

-----------------------------------------------------------------------------
FlightContinues(c) ==
    \/ Land(c) \/ Send(c) \/ ClearBit(c) \/ PollReady(c) \/ PollPending(c)
    \/ ParkCaller(c) \/ Hear(c) \/ WakeCaller(c)

FlightNext == \E c \in Joiners :
    FlightContinues(c) \/ Find(c) \/ Join(c) \/ Lead(c) \/ LeaderPanics(c) \/ AskAgain(c)

FlightSpec == FlightInit /\ [][FlightNext]_flightVars

\* The caller and its waiting thread both run, and requests end.
FlightFairness == \A c \in Joiners :
    /\ WF_flightVars(Land(c) \/ Send(c) \/ ClearBit(c) \/ PollReady(c) \/ PollPending(c) \/ ParkCaller(c))
    /\ WF_flightVars(Hear(c) \/ WakeCaller(c))

-----------------------------------------------------------------------------
FlightTypeOK ==
    /\ cell \in [open : BOOLEAN, waiters : SUBSET {c \in Joiners : channel[c] = 0}]
    /\ ready \in Flown \cup {0}
    /\ flown \in [1..Cardinality(Flown) -> {"up", "ok", "error", "lost"}]
    /\ who \in [Joiners -> {"idle", "clear", "poll", "park", "leading", "sending", "panicked", "done"}]
    /\ {flight, channel, result, got} \subseteq [Joiners -> Flown \cup {0}]
    /\ {waker, woken} \subseteq [Joiners -> BOOLEAN]
    /\ helper \in [Joiners -> {"none", "recv", "wake", "gone"}]

(* One request is in the air at a time, whoever asks, and none after a        *)
(* success: the handshake runs once per connection.                           *)
OneFlight ==
    /\ Cardinality({f \in Flown : flown[f] = "up"}) <= 1
    /\ ready # 0 => \A f \in Flown : flown[f] # "up" /\ (flown[f] = "ok" => f = ready)

(* A caller that waited is told what became of the flight it joined, although *)
(* others failed before and after it.                                         *)
OwnFlight == \A c \in Joiners :
    who[c] = "done" /\ flight[c] # 0 => got[c] = flight[c] /\ flown[got[c]] \in {"ok", "error"}

(* Flights are kept apart, in the air and in what callers are told.           *)
FlightsApart == OneFlight /\ OwnFlight

(* Whoever joined a flight returns once it lands; a leader that panics in its *)
(* task strands those who joined it and those who come later.                 *)
JoinersReturn == \A c \in Joiners :
    who[c] = "clear" ~> who[c] = "done" \/ \E d \in Joiners : who[d] = "panicked"
=============================================================================
