------------------------- MODULE WorkerFleetsProofs -------------------------
(***************************************************************************)
(* Proofs about WorkerFleets for any callers and projects, any size of a   *)
(* fleet and any number of fleets and workers.                             *)
(*                                                                         *)
(* A worker has one owner: a fleet, or the call that spawned it or is to   *)
(* close it.  Every step moves it between owners under the write lock of   *)
(* the fleet, which is why the size a call has looked at without the lock  *)
(* does not matter: Accept looks again.                                    *)
(***************************************************************************)
EXTENDS WorkerFleets, SequenceTheorems, TLAPS

-----------------------------------------------------------------------------
(* The invariant *)

\* What the calls share.
FleetPools ==
    /\ made \in 0..MaxFleets /\ spawned \in 0..MaxSpawned
    /\ fleet \in {0, made} /\ (fleet = 0 => made < MaxFleets)
    /\ clients \in [Fleets -> Seq(1..spawned)]
    /\ next \in [Fleets -> Nat]
    /\ pin \in [Fleets -> [Projects -> 0..MaxWorkers]]
    /\ leased \in [Fleets -> [Projects -> accepted \cup {0}]]
    /\ asked \subseteq 1..spawned /\ accepted \subseteq 1..spawned

\* Where a call is, and what it works with: a fleet when it has begun, and a
\* worker only while it offers or closes.
Steps == {"idle", "counting", "offering", "warm", "choosing",
          "unpinning", "unmapped", "forgetting", "closing"}

\* A line: step s, call x, fleet h and workers i of one caller, when m fleets are
\* made and n workers spawned.
Line(s, x, h, i, m, n) ==
    /\ s \in Steps /\ x \in FleetCalls \cup {NoCall} /\ h \in 0..m /\ i \in Seq(1..n)
    /\ x.want \in 1..MaxWorkers
    /\ s # "idle" => h \in 1..m
    /\ x.op = "pinned" \/ s = "unpinning" => x.project \in Projects
    /\ s \notin {"offering", "forgetting", "closing"} => i = <<>>

\* Every caller has one.
FleetLines ==
    /\ step \in [FleetCallers -> Steps]
    /\ call \in [FleetCallers -> FleetCalls \cup {NoCall}]
    /\ held \in [FleetCallers -> Nat]
    /\ inHand \in [FleetCallers -> Seq(Nat)]
    /\ disturbed \in [FleetCallers -> BOOLEAN]
    /\ \A c \in FleetCallers : Line(step[c], call[c], held[c], inHand[c], made, spawned)

\* A worker is in one fleet or in the hands of one caller, and those of fleets
\* were accepted.
OneOwner ==
    /\ \A f, g \in Fleets : f # g => ToSet(clients[f]) \cap ToSet(clients[g]) = {}
    /\ \A f \in Fleets, c \in FleetCallers : ToSet(clients[f]) \cap ToSet(inHand[c]) = {}
    /\ \A c, d \in FleetCallers : c # d => ToSet(inHand[c]) \cap ToSet(inHand[d]) = {}
    /\ \A f \in Fleets : ToSet(clients[f]) \subseteq accepted

\* What a prewarm offers is the one worker it has spawned, and nobody has seen it.
Fresh == \A c \in FleetCallers : step[c] = "offering" =>
    /\ Len(inHand[c]) = 1
    /\ ToSet(inHand[c]) \cap (asked \cup accepted) = {}

\* A call that works on a fleet that is not the mapped one was overlapped by a
\* shutdown; the shutdown itself has unmapped its own.
Noticed == \A c \in FleetCallers :
    /\ step[c] \in {"counting", "offering", "warm", "choosing"} /\ held[c] # fleet => disturbed[c]
    /\ step[c] = "unmapped" => held[c] # fleet

\* While the worker a project was given is in the fleet, the pin points to it.
PinAgrees == \A f \in Fleets, p \in Projects : leased[f][p] \in ToSet(clients[f]) =>
    pin[f][p] \in 1..Len(clients[f]) /\ clients[f][pin[f][p]] = leased[f][p]

\* The invariant: with it every part of the properties can be shown step by step.
FleetInv ==
    /\ FleetPools /\ FleetLines /\ OneOwner /\ Fresh /\ Noticed /\ PinAgrees
    /\ WorkersAccounted /\ FleetServes

-----------------------------------------------------------------------------
\* Accepting workers: a fleet and the workers put behind it.
LEMMA Joined ==
    ASSUME NEW S, NEW s \in Seq(S), NEW t \in Seq(S)
    PROVE  /\ s \o t \in Seq(S) /\ Len(s \o t) = Len(s) + Len(t)
           /\ ToSet(s \o t) = ToSet(s) \cup ToSet(t)
           /\ \A i \in 1..Len(s) : (s \o t)[i] = s[i]
<1> DEFINE r == s \o t
<1>1. /\ r \in Seq(S) /\ Len(r) = Len(s) + Len(t) /\ Len(s) \in Nat /\ Len(t) \in Nat
      /\ \A i \in 1..Len(s) : r[i] = s[i]
      /\ \A i \in 1..Len(t) : r[Len(s) + i] = t[i]
  BY ConcatProperties
<1> HIDE DEF r
<1>2. /\ \A x : x \in ToSet(r) <=> \E i \in 1..Len(r) : r[i] = x
      /\ \A x : x \in ToSet(s) <=> \E i \in 1..Len(s) : s[i] = x
      /\ \A x : x \in ToSet(t) <=> \E i \in 1..Len(t) : t[i] = x
  BY <1>1 DEF ToSet
<1>3. ASSUME NEW i \in 1..Len(r) PROVE r[i] \in ToSet(s) \cup ToSet(t)
  <2>1. CASE i \in 1..Len(s)
    BY <2>1, <1>1, <1>2
  <2>2. CASE i \notin 1..Len(s)
    <3>1. i - Len(s) \in 1..Len(t) /\ r[i] = t[i - Len(s)]
      BY <2>2, <1>1
    <3> QED BY <3>1, <1>2
  <2> QED BY <2>1, <2>2
<1>4. ASSUME NEW i \in 1..Len(s) PROVE s[i] \in ToSet(r)
  <2>1. i \in 1..Len(r) /\ r[i] = s[i]
    BY <1>1
  <2> QED BY <2>1, <1>2
<1>5. ASSUME NEW i \in 1..Len(t) PROVE t[i] \in ToSet(r)
  <2>1. Len(s) + i \in 1..Len(r) /\ r[Len(s) + i] = t[i]
    BY <1>1
  <2> QED BY <2>1, <1>2
<1>6. ToSet(r) = ToSet(s) \cup ToSet(t)
  BY <1>2, <1>3, <1>4, <1>5
<1> QED BY <1>1, <1>6 DEF r

\* Closing the next worker: the others are still to close.
LEMMA Headed ==
    ASSUME NEW S, NEW s \in Seq(S), s # <<>>
    PROVE  /\ Tail(s) \in Seq(S) /\ Head(s) \in S
           /\ ToSet(s) = ToSet(Tail(s)) \cup {Head(s)}
<1> DEFINE t == Tail(s)
<1>1. /\ t \in Seq(S) /\ Len(t) = Len(s) - 1 /\ Head(s) \in S
      /\ \A i \in 1..Len(t) : t[i] = s[i + 1]
  BY HeadTailProperties
<1>2. Head(s) = s[1] /\ Len(s) \in Nat /\ 1 \in 1..Len(s)
  OBVIOUS
<1> HIDE DEF t
<1>3. /\ \A x : x \in ToSet(t) <=> \E i \in 1..Len(t) : t[i] = x
      /\ \A x : x \in ToSet(s) <=> \E i \in 1..Len(s) : s[i] = x
  BY <1>1 DEF ToSet
<1>4. ASSUME NEW i \in 1..Len(s), i # 1 PROVE s[i] \in ToSet(t)
  <2>1. i - 1 \in 1..Len(t) /\ t[i - 1] = s[i]
    BY <1>1, <1>2, <1>4
  <2> QED BY <2>1, <1>3
<1>5. ASSUME NEW i \in 1..Len(t) PROVE t[i] \in ToSet(s)
  <2>1. i + 1 \in 1..Len(s) /\ t[i] = s[i + 1]
    BY <1>1, <1>2
  <2> QED BY <2>1, <1>3
<1>6. ToSet(s) = ToSet(t) \cup {Head(s)}
  BY <1>2, <1>3, <1>4, <1>5
<1> QED BY <1>1, <1>6 DEF t

\* Nobody in hand, and one worker in hand.
LEMMA Few ==
    /\ ToSet(<<>>) = {} /\ Len(<<>>) = 0
    /\ \A x : ToSet(<<x>>) = {x} /\ Len(<<x>>) = 1
<1>1. ToSet(<<>>) = {} /\ Len(<<>>) = 0
  BY DEF ToSet
<1>2. ASSUME NEW x PROVE ToSet(<<x>>) = {x} /\ Len(<<x>>) = 1
  <2>1. <<x>> \in Seq({x}) /\ Len(<<x>>) = 1 /\ <<x>>[1] = x /\ DOMAIN <<x>> = 1..1
    OBVIOUS
  <2> QED BY <2>1 DEF ToSet
<1> QED BY <1>1, <1>2

\* The workers of a list are those at its places.
LEMMA Element ==
    ASSUME NEW S, NEW s \in Seq(S)
    PROVE  /\ \A i \in 1..Len(s) : s[i] \in ToSet(s) /\ s[i] \in S
           /\ ToSet(s) \subseteq S /\ Len(s) \in Nat
           /\ s = <<>> <=> Len(s) = 0
  BY DEF ToSet

\* Calls want a worker, and those that pin have a project.
LEMMA CallFacts ==
    /\ NoCall.want \in 1..MaxWorkers /\ NoCall.op = "none"
    /\ \A x \in FleetCalls : x.want \in 1..MaxWorkers
                             /\ (x.op = "pinned" => x.project \in Projects)
<1>1. MaxWorkers \in Nat \ {0} /\ 1 \in 1..MaxWorkers
  BY FleetAssumption
<1>2. ASSUME NEW x \in FleetCalls
      PROVE x.want \in 1..MaxWorkers /\ (x.op = "pinned" => x.project \in Projects)
  <2>1. \/ \E n \in 1..MaxWorkers : x = [NoCall EXCEPT !.op = "prewarm", !.want = n]
        \/ \E o \in {"lease", "shutdown"} : x = [NoCall EXCEPT !.op = o]
        \/ \E p \in Projects : x = [NoCall EXCEPT !.op = "pinned", !.project = p]
        \/ \E p \in Projects : x = [NoCall EXCEPT !.op = "unpin", !.project = p]
    BY <1>2 DEF FleetCalls
  <2>2. ASSUME NEW n \in 1..MaxWorkers, x = [NoCall EXCEPT !.op = "prewarm", !.want = n]
        PROVE x.want \in 1..MaxWorkers /\ x.op # "pinned"
    BY <2>2 DEF NoCall
  <2>3. ASSUME NEW o \in {"lease", "shutdown"}, x = [NoCall EXCEPT !.op = o]
        PROVE x.want \in 1..MaxWorkers /\ x.op # "pinned"
    BY <1>1, <2>3 DEF NoCall
  <2>4. ASSUME NEW p \in Projects,
               \/ x = [NoCall EXCEPT !.op = "pinned", !.project = p]
               \/ x = [NoCall EXCEPT !.op = "unpin", !.project = p]
        PROVE x.want \in 1..MaxWorkers /\ x.project \in Projects
    BY <1>1, <2>4 DEF NoCall
  <2> QED BY <2>1, <2>2, <2>3, <2>4
<1>5. NoCall.want \in 1..MaxWorkers /\ NoCall.op = "none"
  BY <1>1 DEF NoCall
<1> QED BY <1>2, <1>5

\* The call of a release of an affinity.
LEMMA ReleaseCall ==
    ASSUME NEW p \in Projects, NEW x, x = [NoCall EXCEPT !.op = "unpin", !.project = p]
    PROVE  x \in FleetCalls /\ x.want = 1 /\ x.project = p /\ x.op = "unpin"
<1>1. x \in FleetCalls
  BY DEF FleetCalls
<1>2. x.want = 1 /\ x.project = p /\ x.op = "unpin"
  BY DEF NoCall
<1> QED BY <1>1, <1>2

\* The call of a shutdown.
LEMMA ShutdownCall ==
    ASSUME NEW x, x = [NoCall EXCEPT !.op = "shutdown"]
    PROVE  x \in FleetCalls /\ x.want = 1 /\ x.op = "shutdown"
<1>1. x \in FleetCalls
  BY DEF FleetCalls
<1>2. x.want = 1 /\ x.op = "shutdown"
  BY DEF NoCall
<1> QED BY <1>1, <1>2

\* Lists of the workers spawned so far are lists of those spawned later.
LEMMA Widened ==
    ASSUME NEW S, NEW T, S \subseteq T
    PROVE  Seq(S) \subseteq Seq(T)
  OBVIOUS

\* The type invariant follows from the two parts that say where things are.
LEMMA PlacesKeepTypes == FleetPools /\ FleetLines => FleetTypeOK
<1> SUFFICES ASSUME FleetPools, FleetLines PROVE FleetTypeOK
  OBVIOUS
<1>1. 1..spawned \subseteq Workers /\ accepted \cup {0} \subseteq 0..MaxSpawned /\ fleet \in 0..made
  BY FleetAssumption DEF FleetPools, Workers
<1>2. Seq(1..spawned) \subseteq Seq(Workers)
  BY <1>1, Widened
<1>3. clients \in [Fleets -> Seq(Workers)] 
  BY <1>2 DEF FleetPools
<1>4. inHand \in [FleetCallers -> Seq(Workers)] /\ held \in [FleetCallers -> 0..made]
  BY <1>2 DEF FleetLines, Line
<1>5. leased \in [Fleets -> [Projects -> 0..MaxSpawned]]
  BY <1>1 DEF FleetPools
<1> QED BY <1>1, <1>3, <1>4, <1>5 DEF FleetPools, FleetLines, FleetTypeOK, Steps

\* Nothing is mapped, spawned or called at first.
LEMMA FleetInitHolds == FleetInit => FleetInv
<1> SUFFICES ASSUME FleetInit PROVE FleetInv
  OBVIOUS
<1>0. /\ MaxWorkers \in Nat \ {0} /\ MaxFleets \in Nat \ {0} /\ MaxSpawned \in Nat \ {0}
      /\ \A S : <<>> \in Seq(S)
  BY FleetAssumption
<1>1. FleetPools
  BY <1>0 DEF FleetInit, FleetPools, Fleets
<1>6. Line("idle", NoCall, 0, <<>>, made, spawned)
  BY <1>0, CallFacts DEF FleetInit, Line, Steps
<1>7. FleetLines
  BY <1>0, <1>6 DEF FleetInit, FleetLines, Steps
<1>2. OneOwner /\ Fresh /\ Noticed /\ PinAgrees
  BY Few DEF FleetInit, OneOwner, Fresh, Noticed, PinAgrees, Fleets
<1>3. WorkersAccounted /\ FleetServes
  BY <1>0, Few DEF FleetInit, WorkersAccounted, FleetWithinMax, MembersOpen, NoneStranded,
    FleetServes, PrewarmDelivers, EmptyOnlyByShutdown
<1> QED BY <1>1, <1>2, <1>3, <1>7 DEF FleetInv

\* A call that takes a step has its line changed, and the others keep theirs.
Moves(c, s, x, h, i) ==
    /\ step' = [step EXCEPT ![c] = s] /\ call' = [call EXCEPT ![c] = x]
    /\ held' = [held EXCEPT ![c] = h] /\ inHand' = [inHand EXCEPT ![c] = i]
    /\ disturbed' \in [FleetCallers -> BOOLEAN]
    /\ made \in Nat /\ made' \in Nat /\ spawned \in Nat /\ spawned' \in Nat
    /\ made <= made' /\ spawned <= spawned'

\* The callers keep their lines when the one that moves gets a new one.
LEMMA LineMoves ==
    ASSUME FleetLines, NEW c \in FleetCallers, NEW s, NEW x, NEW h, NEW i,
           Moves(c, s, x, h, i), Line(s, x, h, i, made', spawned')
    PROVE  FleetLines'
<1>1. Seq(1..spawned) \subseteq Seq(1..spawned') /\ Seq(1..spawned') \subseteq Seq(Nat)
  BY Widened DEF Moves
<1>2. /\ step' \in [FleetCallers -> Steps] /\ call' \in [FleetCallers -> FleetCalls \cup {NoCall}]
      /\ held' \in [FleetCallers -> Nat] /\ inHand' \in [FleetCallers -> Seq(Nat)]
      /\ disturbed' \in [FleetCallers -> BOOLEAN]
  BY <1>1 DEF FleetLines, Line, Moves
<1>3. ASSUME NEW d \in FleetCallers
      PROVE  Line(step'[d], call'[d], held'[d], inHand'[d], made', spawned')
  <2>1. CASE d = c
    BY <2>1 DEF FleetLines, Moves
  <2>2. CASE d # c
    <3>1. Line(step[d], call[d], held[d], inHand[d], made, spawned)
      BY DEF FleetLines
    <3>2. step'[d] = step[d] /\ call'[d] = call[d] /\ held'[d] = held[d] /\ inHand'[d] = inHand[d]
      BY <2>2 DEF FleetLines, Moves
    <3> QED BY <1>1, <3>1, <3>2 DEF Line, Moves
  <2> QED BY <2>1, <2>2
<1> QED BY <1>2, <1>3 DEF FleetLines

\* The form in which the actions leave parts of a line alone.
LEMMA LineKept ==
    ASSUME FleetLines, NEW c \in FleetCallers
    PROVE  /\ step = [step EXCEPT ![c] = step[c]] /\ call = [call EXCEPT ![c] = call[c]]
           /\ held = [held EXCEPT ![c] = held[c]] /\ inHand = [inHand EXCEPT ![c] = inHand[c]]
           /\ \A b \in BOOLEAN : [disturbed EXCEPT ![c] = b] \in [FleetCallers -> BOOLEAN]
           /\ disturbed \in [FleetCallers -> BOOLEAN]
           /\ Line(step[c], call[c], held[c], inHand[c], made, spawned)
  BY DEF FleetLines

\* One step of one caller.
FleetMove(c) ==
    \/ FleetContinues(c) \/ Unmap(c)
    \/ (\E x \in FleetCalls : StartCall(c, x))
    \/ (\E p \in Projects : FindFleet(c, p))

\* Every step leaves every caller with a line.
LEMMA LinesStep ==
    ASSUME FleetInv, NEW c \in FleetCallers, FleetMove(c)
    PROVE  FleetLines'
<1>0. FleetLines /\ MaxFleets \in Nat /\ MaxSpawned \in Nat
  BY FleetAssumption DEF FleetInv
<1>m. /\ made \in Nat /\ spawned \in Nat /\ fleet \in {0, made}
      /\ clients \in [Fleets -> Seq(1..spawned)]
  BY <1>0 DEF FleetInv, FleetPools
<1>l. /\ inHand[c] \in Seq(1..spawned) /\ call[c] \in FleetCalls \cup {NoCall}
      /\ call[c].want \in 1..MaxWorkers
      /\ step[c] # "idle" => held[c] \in 1..made
      /\ call[c].op = "pinned" \/ step[c] = "unpinning" => call[c].project \in Projects
      /\ step[c] \notin {"offering", "forgetting", "closing"} => inHand[c] = <<>>
      /\ step[c] \in Steps
  BY <1>0, LineKept DEF Line
<1>r. ASSUME NEW s, Returns(c, s), made' = made, spawned' = spawned PROVE FleetLines'
  <2>1. Line("idle", NoCall, 0, <<>>, made', spawned')
    BY <1>m, <1>r, CallFacts DEF Line, Steps
  <2>9. Moves(c, "idle", NoCall, 0, <<>>)
    BY <1>0, <1>m, <1>r, LineKept DEF Moves, Returns, Goes
  <2> QED BY <1>0, <2>9, <2>1, LineMoves
<1>1. CASE \E x \in FleetCalls : StartCall(c, x)
  <2>1. PICK x \in FleetCalls : StartCall(c, x)
    BY <1>1
  <2>2. /\ made' \in Nat /\ made <= made' /\ fleet' \in 1..made' /\ spawned' = spawned
        /\ step[c] = "idle" /\ x.op \in {"prewarm", "lease", "pinned"}
    BY <1>m, <2>1 DEF StartCall, Fetch, Goes
  <2>3. Line("counting", x, fleet', inHand[c], made', spawned')
    BY <1>m, <1>l, <2>2, CallFacts DEF Line, Steps
  <2>9. Moves(c, "counting", x, fleet', inHand[c])
    BY <1>0, <1>m, <2>1, <2>2, LineKept DEF Moves, StartCall, Fetch, Goes
  <2> QED BY <1>0, <2>9, <2>3, LineMoves
<1>2. CASE \E p \in Projects : FindFleet(c, p)
  <2>1. PICK p \in Projects : FindFleet(c, p)
    BY <1>2
  <2> DEFINE x == [NoCall EXCEPT !.op = "unpin", !.project = p]
  <2>4. step[c] = "idle" /\ made' = made /\ spawned' = spawned /\ fleet # 0
    BY <2>1 DEF FindFleet, Goes, shared
  <2>2. x \in FleetCalls /\ x.want = 1 /\ x.project = p /\ x.op = "unpin"
    BY ReleaseCall
  <2> HIDE DEF x
  <2>3. Line("unpinning", x, fleet, inHand[c], made', spawned')
    BY <1>m, <1>l, <2>2, <2>4, FleetAssumption DEF Line, Steps
  <2>9. Moves(c, "unpinning", x, fleet, inHand[c])
    BY <1>0, <1>m, <2>1, LineKept DEF Moves, FindFleet, Goes, shared, x
  <2> QED BY <1>0, <2>9, <2>3, LineMoves
<1>3. CASE Unmap(c)
  <2> DEFINE x == [NoCall EXCEPT !.op = "shutdown"]
  <2>2. x \in FleetCalls /\ x.want = 1 /\ x.op = "shutdown"
    BY ShutdownCall
  <2> HIDE DEF x
  <2>3. Line("unmapped", x, fleet, inHand[c], made', spawned')
    BY <1>0, <1>m, <1>3, <2>2, <1>l, CallFacts DEF Unmap, Goes, Line, Steps
  <2>4. disturbed' \in [FleetCallers -> BOOLEAN]
    BY <1>3 DEF Unmap
  <2>9. Moves(c, "unmapped", x, fleet, inHand[c])
    BY <1>0, <1>m, <1>3, <2>4, LineKept DEF Moves, Unmap, Goes, x
  <2> QED BY <1>0, <2>9, <2>3, LineMoves
<1>4. CASE FetchAgain(c)
  <2>2. /\ made' \in Nat /\ made <= made' /\ fleet' \in 1..made' /\ spawned' = spawned
        /\ step[c] = "warm"
    BY <1>m, <1>4 DEF FetchAgain, Fetch, Goes
  <2>3. Line("choosing", call[c], fleet', inHand[c], made', spawned')
    BY <1>m, <1>l, <2>2 DEF Line, Steps
  <2>9. Moves(c, "choosing", call[c], fleet', inHand[c])
    BY <1>0, <1>m, <1>4, <2>2, LineKept DEF Moves, FetchAgain, Fetch, Goes
  <2> QED BY <1>0, <2>9, <2>3, LineMoves
<1>5. CASE Spawn(c)
  <2>1. Line("offering", call[c], held[c], <<spawned'>>, made', spawned')
    BY <1>0, <1>m, <1>5, <1>l DEF Spawn, shared, Goes, Line, Steps
  <2>9. Moves(c, "offering", call[c], held[c], <<spawned'>>)
    BY <1>0, <1>m, <1>5, LineKept DEF Moves, Spawn, shared, Goes
  <2> QED BY <1>0, <2>9, <2>1, LineMoves
<1>6. CASE SpawnFails(c)
  BY <1>6, <1>r DEF SpawnFails, shared
<1>7. CASE Accept(c)
  <2>1. Line("counting", call[c], held[c], <<>>, made', spawned')
    BY <1>0, <1>m, <1>7, <1>l DEF Accept, Goes, Line, Steps
  <2>9. Moves(c, "counting", call[c], held[c], <<>>)
    BY <1>0, <1>m, <1>7, LineKept DEF Moves, Accept, Goes
  <2> QED BY <1>0, <2>9, <2>1, LineMoves
<1>8. CASE CloseExtra(c)
  <2>1. Line("warm", call[c], held[c], <<>>, made', spawned')
    BY <1>0, <1>m, <1>8, <1>l DEF CloseExtra, shared, Goes, Line, Steps
  <2>9. Moves(c, "warm", call[c], held[c], <<>>)
    BY <1>0, <1>m, <1>8, LineKept DEF Moves, CloseExtra, shared, Goes
  <2> QED BY <1>0, <2>9, <2>1, LineMoves
<1>9. CASE EnoughWorkers(c)
  <2>1. Line("warm", call[c], held[c], inHand[c], made', spawned')
    BY <1>0, <1>m, <1>9, <1>l DEF EnoughWorkers, shared, Goes, Line, Steps
  <2>9. Moves(c, "warm", call[c], held[c], inHand[c])
    BY <1>0, <1>m, <1>9, LineKept DEF Moves, EnoughWorkers, shared, Goes
  <2> QED BY <1>0, <2>9, <2>1, LineMoves
<1>10. CASE PrewarmReturns(c)
  BY <1>10, <1>r DEF PrewarmReturns, shared
<1>11. CASE Lease(c)
  BY <1>11, <1>r DEF Lease
<1>12. CASE LeasePinned(c)
  BY <1>12, <1>r DEF LeasePinned
<1>13. CASE Unpin(c)
  BY <1>13, <1>r DEF Unpin
<1>14. CASE TakeClients(c)
  <2>1. Here(c) \in Seq(1..spawned)
    BY <1>0, <1>m, <1>l, <1>14 DEF TakeClients, Here, Goes, Fleets, FleetInv, FleetPools
  <2>2. Line("forgetting", call[c], held[c], Here(c), made', spawned')
    BY <1>0, <1>m, <1>14, <2>1, <1>l DEF TakeClients, Goes, Line, Steps
  <2>9. Moves(c, "forgetting", call[c], held[c], Here(c))
    BY <1>0, <1>m, <1>14, LineKept DEF Moves, TakeClients, Goes
  <2> QED BY <1>0, <2>9, <2>2, LineMoves
<1>15. CASE ForgetPins(c)
  <2>1. Line("closing", call[c], held[c], inHand[c], made', spawned')
    BY <1>0, <1>m, <1>15, <1>l DEF ForgetPins, Goes, Line, Steps
  <2>9. Moves(c, "closing", call[c], held[c], inHand[c])
    BY <1>0, <1>m, <1>15, LineKept DEF Moves, ForgetPins, Goes
  <2> QED BY <1>0, <2>9, <2>1, LineMoves
<1>16. CASE CloseNext(c)
  <2>1. inHand[c] \in Seq(1..spawned) /\ Tail(inHand[c]) \in Seq(1..spawned)
    BY <1>l, <1>16, Headed DEF CloseNext
  <2>2. Line(step[c], call[c], held[c], Tail(inHand[c]), made', spawned')
    BY <1>0, <1>m, <1>16, <2>1, <1>l DEF CloseNext, shared, Line
  <2>9. Moves(c, step[c], call[c], held[c], Tail(inHand[c]))
    BY <1>0, <1>m, <1>16, LineKept DEF Moves, CloseNext, shared
  <2> QED BY <1>0, <2>9, <2>2, LineMoves
<1>17. CASE ShutdownReturns(c)
  BY <1>17, <1>r DEF ShutdownReturns, shared
<1> QED BY <1>1, <1>2, <1>3, <1>4, <1>5, <1>6, <1>7, <1>8, <1>9, <1>10, <1>11, <1>12, <1>13,
  <1>14, <1>15, <1>16, <1>17 DEF FleetContinues, FleetMove

\* What the invariant says of the call that moves and of the fleet it holds.
LEMMA LineFacts ==
    ASSUME FleetInv, NEW c \in FleetCallers
    PROVE  /\ inHand[c] \in Seq(1..spawned)
           /\ call[c].want \in 1..MaxWorkers
           /\ step[c] # "idle" => held[c] \in Fleets /\ held[c] \in 1..made /\ Here(c) \in Seq(1..spawned)
           /\ call[c].op = "pinned" \/ step[c] = "unpinning" => call[c].project \in Projects
           /\ step[c] \notin {"offering", "forgetting", "closing"} => inHand[c] = <<>>
           /\ Len(Here(c)) <= MaxWorkers \/ step[c] = "idle"
<1>1. Line(step[c], call[c], held[c], inHand[c], made, spawned)
  BY DEF FleetInv, FleetLines
<1>2. made \in 0..MaxFleets /\ clients \in [Fleets -> Seq(1..spawned)]
  BY DEF FleetInv, FleetPools
<1>3. step[c] # "idle" => held[c] \in Fleets /\ held[c] \in 1..made
  BY <1>1, <1>2, FleetAssumption DEF Line, Fleets
<1>4. \A f \in Fleets : Len(clients[f]) <= MaxWorkers
  BY DEF FleetInv, WorkersAccounted, FleetWithinMax
<1> QED BY <1>1, <1>2, <1>3, <1>4 DEF Line, Here

\* round_robin_index is an index of the fleet, whatever the counter.
LEMMA InTurn ==
    ASSUME FleetInv, NEW f \in Fleets, clients[f] # <<>>
    PROVE  RoundRobin(f) \in 1..Len(clients[f]) /\ RoundRobin(f) \in 1..MaxWorkers
<1>1. Len(clients[f]) \in Nat \ {0} /\ next[f] \in Nat /\ Len(clients[f]) <= MaxWorkers
  BY Element DEF FleetInv, FleetPools, WorkersAccounted, FleetWithinMax
<1>2. next[f] % Len(clients[f]) \in 0..(Len(clients[f]) - 1)
  BY <1>1
<1> QED BY <1>1, <1>2, FleetAssumption DEF RoundRobin

\* Every step leaves the fleets, the counters and the pins within their types.
LEMMA PoolsStep ==
    ASSUME FleetInv, NEW c \in FleetCallers, FleetMove(c)
    PROVE  FleetPools'
<1>0. /\ FleetPools /\ MaxFleets \in Nat /\ MaxSpawned \in Nat /\ Period \in Nat \ {0}
      /\ MaxWorkers \in Nat \ {0} /\ 0 \in 0..MaxWorkers
  BY FleetAssumption DEF FleetInv
<1>1. CASE \E x \in FleetCalls : StartCall(c, x)
  BY <1>0, <1>1 DEF StartCall, Fetch, FleetPools
<1>2. CASE \E p \in Projects : FindFleet(c, p)
  BY <1>0, <1>2 DEF FindFleet, shared, FleetPools
<1>3. CASE Unmap(c)
  BY <1>0, <1>3 DEF Unmap, FleetPools
<1>4. CASE FetchAgain(c)
  BY <1>0, <1>4 DEF FetchAgain, Fetch, FleetPools
<1>5. CASE Spawn(c)
  <2>1. /\ spawned' = spawned + 1 /\ spawned' \in 0..MaxSpawned
        /\ UNCHANGED <<fleet, made, clients, next, pin, asked, leased, accepted>>
    BY <1>0, <1>5 DEF Spawn, shared, FleetPools
  <2>2. 1..spawned \subseteq 1..spawned'
    BY <1>0, <2>1 DEF FleetPools
  <2>3. Seq(1..spawned) \subseteq Seq(1..spawned')
    BY <2>2, Widened
  <2> QED BY <1>0, <2>1, <2>2, <2>3 DEF FleetPools
<1>6. CASE SpawnFails(c)
  BY <1>0, <1>6 DEF SpawnFails, shared, FleetPools
<1>7. CASE Accept(c)
  <2>1. /\ held[c] \in Fleets /\ Here(c) \in Seq(1..spawned) /\ inHand[c] \in Seq(1..spawned)
        /\ step[c] = "offering"
    BY <1>7, LineFacts DEF Accept, Goes
  <2>2. Here(c) \o inHand[c] \in Seq(1..spawned) /\ ToSet(inHand[c]) \subseteq 1..spawned
    BY <2>1, Joined, Element
  <2>3. clients' \in [Fleets -> Seq(1..spawned)]
    BY <1>0, <1>7, <2>1, <2>2 DEF Accept, Here, FleetPools
  <2>4. accepted' \subseteq 1..spawned /\ accepted \subseteq accepted'
    BY <1>0, <1>7, <2>2 DEF Accept, FleetPools
  <2>5. UNCHANGED <<fleet, made, next, pin, spawned, asked, leased>>
    BY <1>7 DEF Accept
  <2> QED BY <1>0, <2>3, <2>4, <2>5 DEF FleetPools
<1>8. CASE CloseExtra(c)
  <2>1. inHand[c] \in Seq(1..spawned)
    BY LineFacts
  <2>2. ToSet(inHand[c]) \subseteq 1..spawned
    BY <2>1, Element
  <2> QED BY <1>0, <1>8, <2>2 DEF CloseExtra, shared, FleetPools
<1>9. CASE EnoughWorkers(c)
  BY <1>0, <1>9 DEF EnoughWorkers, shared, FleetPools
<1>10. CASE PrewarmReturns(c)
  BY <1>0, <1>10 DEF PrewarmReturns, shared, FleetPools
<1>11. CASE Lease(c)
  <2>1. held[c] \in Fleets
    BY <1>11, LineFacts DEF Lease, Returns, Goes
  <2>2. next' \in [Fleets -> Nat]
    BY <1>0, <1>11, <2>1 DEF Lease, Wrap, FleetPools
  <2>3. UNCHANGED <<fleet, made, clients, pin, spawned, asked, leased, accepted>>
    BY <1>11 DEF Lease
  <2> QED BY <1>0, <2>2, <2>3 DEF FleetPools
<1>12. CASE LeasePinned(c)
  <2> DEFINE f == held[c]
             p == call[c].project
             i == IF PinnedIndex(f, p) # 0 THEN PinnedIndex(f, p) ELSE RoundRobin(f)
  <2>1. f \in Fleets /\ p \in Projects /\ clients[f] \in Seq(1..spawned)
    BY <1>12, LineFacts DEF LeasePinned, Returns, Goes, Here
  <2>2. UNCHANGED <<fleet, made, clients, spawned, asked, accepted>>
    BY <1>12 DEF LeasePinned
  <2>3. CASE Here(c) = <<>>
    BY <1>0, <1>12, <2>2, <2>3 DEF LeasePinned, FleetPools
  <2>4. CASE Here(c) # <<>>
    <3>1. i \in 1..Len(clients[f]) /\ i \in 0..MaxWorkers
      BY <1>0, <2>1, <2>4, InTurn DEF PinnedIndex, FleetPools, Here
    <3>2. clients[f][i] \in accepted
      BY <2>1, <3>1, Element DEF FleetInv, OneOwner
    <3>3. /\ pin' = [pin EXCEPT ![f][p] = i] /\ leased' = [leased EXCEPT ![f][p] = clients[f][i]]
          /\ next' \in {next, [next EXCEPT ![f] = Wrap(@ + 1)]}
      BY <1>12, <2>4 DEF LeasePinned
    <3> HIDE DEF f, p, i
    <3>4. pin' \in [Fleets -> [Projects -> 0..MaxWorkers]] /\ leased' \in [Fleets -> [Projects -> accepted \cup {0}]]
      BY <1>0, <2>1, <3>1, <3>2, <3>3 DEF FleetPools
    <3>5. next' \in [Fleets -> Nat]
      <4>1. next[f] \in Nat /\ Wrap(next[f] + 1) \in Nat
        BY <1>0, <2>1 DEF FleetPools, Wrap
      <4> QED BY <1>0, <2>1, <3>3, <4>1 DEF FleetPools
    <3> QED BY <1>0, <2>2, <3>4, <3>5 DEF FleetPools
  <2> QED BY <2>3, <2>4
<1>13. CASE Unpin(c)
  <2>1. held[c] \in Fleets /\ call[c].project \in Projects
    BY <1>13, LineFacts DEF Unpin, Returns, Goes
  <2>2. pin' \in [Fleets -> [Projects -> 0..MaxWorkers]] /\ leased' \in [Fleets -> [Projects -> accepted \cup {0}]]
    BY <1>0, <1>13, <2>1 DEF Unpin, FleetPools
  <2>3. UNCHANGED <<fleet, made, clients, next, spawned, asked, accepted>>
    BY <1>13 DEF Unpin
  <2> QED BY <1>0, <2>2, <2>3 DEF FleetPools
<1>14. CASE TakeClients(c)
  <2>1. <<>> \in Seq(1..spawned)
    OBVIOUS
  <2>2. clients' \in [Fleets -> Seq(1..spawned)]
    BY <1>0, <1>14, <2>1 DEF TakeClients, FleetPools
  <2>3. UNCHANGED <<fleet, made, next, pin, spawned, asked, leased, accepted>>
    BY <1>14 DEF TakeClients
  <2> QED BY <1>0, <2>2, <2>3 DEF FleetPools
<1>15. CASE ForgetPins(c)
  <2>2. pin' \in [Fleets -> [Projects -> 0..MaxWorkers]] /\ leased' \in [Fleets -> [Projects -> accepted \cup {0}]]
    BY <1>0, <1>15 DEF ForgetPins, FleetPools
  <2>3. UNCHANGED <<fleet, made, clients, next, spawned, asked, accepted>>
    BY <1>15 DEF ForgetPins
  <2> QED BY <1>0, <2>2, <2>3 DEF FleetPools
<1>16. CASE CloseNext(c)
  <2>1. inHand[c] \in Seq(1..spawned) /\ inHand[c] # <<>>
    BY <1>16, LineFacts DEF CloseNext
  <2>2. Head(inHand[c]) \in 1..spawned
    BY <2>1, Headed
  <2> QED BY <1>0, <1>16, <2>2 DEF CloseNext, shared, FleetPools
<1>17. CASE ShutdownReturns(c)
  BY <1>0, <1>17 DEF ShutdownReturns, shared, FleetPools
<1> QED BY <1>1, <1>2, <1>3, <1>4, <1>5, <1>6, <1>7, <1>8, <1>9, <1>10, <1>11, <1>12, <1>13,
  <1>14, <1>15, <1>16, <1>17 DEF FleetContinues, FleetMove

\* Most steps leave the workers where they are.
LEMMA WorkersStay ==
    ASSUME FleetInv, UNCHANGED <<clients, inHand, asked, accepted>>,
           \A d \in FleetCallers : step'[d] = "offering" => step[d] = "offering"
    PROVE  OneOwner' /\ Fresh' /\ WorkersAccounted'
<1>1. OneOwner' /\ WorkersAccounted'
  BY DEF FleetInv, OneOwner, WorkersAccounted, FleetWithinMax, MembersOpen, NoneStranded
<1>2. Fresh'
  BY DEF FleetInv, Fresh
<1> QED BY <1>1, <1>2

\* NoneStranded, worker by worker.
Kept(w) ==
    \/ w \in asked
    \/ \E f \in Fleets : w \in ToSet(clients[f])
    \/ \E d \in FleetCallers : w \in ToSet(inHand[d])

\* No step makes a worker that is closed a member, or forgets one: an offer is
\* accepted or closed, and a shutdown closes what it took.
LEMMA WorkersStep ==
    ASSUME FleetInv, NEW c \in FleetCallers, FleetMove(c)
    PROVE  OneOwner' /\ Fresh' /\ WorkersAccounted'
<1>0. /\ FleetPools /\ FleetLines /\ OneOwner /\ Fresh /\ FleetWithinMax /\ MembersOpen /\ NoneStranded
      /\ step \in [FleetCallers -> Steps] /\ inHand \in [FleetCallers -> Seq(Nat)]
      /\ clients \in [Fleets -> Seq(1..spawned)] /\ spawned \in Nat
      /\ asked \subseteq 1..spawned /\ accepted \subseteq 1..spawned
  BY FleetAssumption DEF FleetInv, WorkersAccounted, FleetLines, FleetPools
<1>k. /\ \A f \in Fleets : ToSet(clients[f]) \subseteq 1..spawned
      /\ \A d \in FleetCallers : ToSet(inHand[d]) \subseteq 1..spawned
  BY <1>0, LineFacts, Element
<1>h. step[c] \notin {"offering", "forgetting", "closing"} => inHand[c] = <<>>
  BY LineFacts
<1>n. /\ \A w \in accepted : Kept(w)
      /\ (\A w \in accepted' : Kept(w)') => NoneStranded'
  BY <1>0 DEF NoneStranded, Kept
<1>s. ASSUME NEW s, NEW t, Goes(c, s, t), t # "offering"
      PROVE  \A d \in FleetCallers : step'[d] = "offering" => step[d] = "offering" /\ d # c
  BY <1>0, <1>s DEF Goes
<1>r. ASSUME NEW s, Returns(c, s), inHand[c] = <<>>, UNCHANGED <<clients, asked, accepted>>
      PROVE  OneOwner' /\ Fresh' /\ WorkersAccounted'
  <2>1. inHand' = inHand
    BY <1>0, <1>r DEF Returns
  <2> QED BY <1>r, <1>s, <2>1, WorkersStay DEF Returns
<1>1. CASE \E x \in FleetCalls : StartCall(c, x)
  BY <1>1, <1>s, WorkersStay DEF StartCall, Fetch
<1>2. CASE \E p \in Projects : FindFleet(c, p)
  BY <1>2, <1>s, WorkersStay DEF FindFleet, shared
<1>3. CASE Unmap(c)
  BY <1>3, <1>s, WorkersStay DEF Unmap
<1>4. CASE FetchAgain(c)
  BY <1>4, <1>s, WorkersStay DEF FetchAgain, Fetch
<1>5. CASE Spawn(c)
  <2> DEFINE w == spawned'
  <2>1. /\ w = spawned + 1 /\ w \notin 1..spawned /\ inHand[c] = <<>>
        /\ UNCHANGED <<clients, asked, accepted>>
        /\ inHand' = [inHand EXCEPT ![c] = <<w>>] /\ step' = [step EXCEPT ![c] = "offering"]
    BY <1>0, <1>5, <1>h DEF Spawn, shared, Goes
  <2>2. /\ ToSet(inHand'[c]) = {w} /\ Len(inHand'[c]) = 1 /\ ToSet(inHand[c]) = {}
        /\ \A d \in FleetCallers : d # c => inHand'[d] = inHand[d] /\ step'[d] = step[d]
    BY <1>0, <2>1, Few
  <2> HIDE DEF w
  <2>3. OneOwner'
    BY <1>0, <1>k, <2>1, <2>2 DEF OneOwner
  <2>4. Fresh'
    BY <1>0, <1>k, <2>1, <2>2 DEF Fresh
  <2>5. FleetWithinMax' /\ MembersOpen'
    BY <1>0, <2>1 DEF FleetWithinMax, MembersOpen
  <2>6. NoneStranded'
    BY <1>n, <2>1, <2>2 DEF Kept
  <2> QED BY <2>3, <2>4, <2>5, <2>6 DEF WorkersAccounted
<1>6. CASE SpawnFails(c)
  BY <1>6, <1>r, <1>h DEF SpawnFails, shared, Returns, Goes
<1>7. CASE Accept(c)
  <2> DEFINE f == held[c]
  <2>1. /\ step[c] = "offering" /\ Welcome(c) /\ UNCHANGED <<spawned, asked>>
        /\ clients' = [clients EXCEPT ![f] = @ \o inHand[c]]
        /\ accepted' = accepted \cup ToSet(inHand[c])
        /\ inHand' = [inHand EXCEPT ![c] = <<>>]
    BY <1>7 DEF Accept, Goes
  <2>2. f \in Fleets /\ clients[f] \in Seq(1..spawned) /\ inHand[c] \in Seq(1..spawned)
    BY <2>1, LineFacts DEF Here
  <2>3. /\ Len(inHand[c]) = 1 /\ ToSet(inHand[c]) \cap (asked \cup accepted) = {}
        /\ Len(clients[f]) < MaxWorkers /\ Len(clients[f]) \in Nat
    BY <1>0, <2>1, <2>2, Element DEF Fresh, Welcome, Here
  <2>4. /\ \A g \in Fleets : g # f => clients'[g] = clients[g]
        /\ ToSet(clients'[f]) = ToSet(clients[f]) \cup ToSet(inHand[c])
        /\ Len(clients'[f]) = Len(clients[f]) + 1
    <3>1. clients'[f] = clients[f] \o inHand[c] /\ \A g \in Fleets : g # f => clients'[g] = clients[g]
      BY <1>0, <2>1, <2>2
    <3>2. /\ ToSet(clients[f] \o inHand[c]) = ToSet(clients[f]) \cup ToSet(inHand[c])
          /\ Len(clients[f] \o inHand[c]) = Len(clients[f]) + Len(inHand[c])
      BY <2>2, Joined
    <3> QED BY <2>3, <3>1, <3>2
  <2>5. /\ ToSet(inHand'[c]) = {}
        /\ \A d \in FleetCallers : d # c => inHand'[d] = inHand[d]
    BY <1>0, <2>1, Few
  <2> HIDE DEF f
  <2>6. OneOwner'
    BY <1>0, <2>1, <2>2, <2>4, <2>5 DEF OneOwner
  <2>7. Fresh'
    BY <1>0, <1>7, <1>s, <2>1, <2>5 DEF Fresh, OneOwner, Accept
  <2>8. FleetWithinMax' /\ MembersOpen'
    BY <1>0, <2>1, <2>2, <2>3, <2>4, FleetAssumption DEF FleetWithinMax, MembersOpen
  <2>9. NoneStranded'
    BY <1>n, <2>1, <2>2, <2>4, <2>5 DEF Kept
  <2> QED BY <2>6, <2>7, <2>8, <2>9 DEF WorkersAccounted
<1>8. CASE CloseExtra(c)
  <2>1. /\ step[c] = "offering" /\ UNCHANGED <<clients, spawned, accepted>>
        /\ asked' = asked \cup ToSet(inHand[c])
        /\ inHand' = [inHand EXCEPT ![c] = <<>>]
    BY <1>8 DEF CloseExtra, Goes, shared
  <2>2. /\ ToSet(inHand'[c]) = {}
        /\ \A d \in FleetCallers : d # c => inHand'[d] = inHand[d]
    BY <1>0, <2>1, Few
  <2>3. OneOwner'
    BY <1>0, <2>1, <2>2 DEF OneOwner
  <2>4. Fresh'
    BY <1>0, <1>8, <1>s, <2>1, <2>2 DEF Fresh, OneOwner, CloseExtra
  <2>5. FleetWithinMax' /\ MembersOpen'
    BY <1>0, <2>1 DEF FleetWithinMax, MembersOpen, OneOwner
  <2>6. NoneStranded'
    BY <1>n, <2>1, <2>2 DEF Kept
  <2> QED BY <2>3, <2>4, <2>5, <2>6 DEF WorkersAccounted
<1>9. CASE EnoughWorkers(c)
  BY <1>9, <1>s, WorkersStay DEF EnoughWorkers, shared
<1>10. CASE PrewarmReturns(c)
  BY <1>10, <1>r, <1>h DEF PrewarmReturns, shared, Returns, Goes
<1>11. CASE Lease(c)
  BY <1>11, <1>r, <1>h DEF Lease, Returns, Goes
<1>12. CASE LeasePinned(c)
  BY <1>12, <1>r, <1>h DEF LeasePinned, Returns, Goes
<1>13. CASE Unpin(c)
  BY <1>13, <1>r, <1>h DEF Unpin, Returns, Goes
<1>14. CASE TakeClients(c)
  <2> DEFINE f == held[c]
  <2>1. /\ step[c] = "unmapped" /\ UNCHANGED <<spawned, asked, accepted>>
        /\ inHand' = [inHand EXCEPT ![c] = clients[f]]
        /\ clients' = [clients EXCEPT ![f] = <<>>]
    BY <1>14 DEF TakeClients, Goes, Here
  <2>2. f \in Fleets /\ inHand[c] = <<>>
    BY <2>1, LineFacts
  <2>3. /\ \A g \in Fleets : g # f => clients'[g] = clients[g]
        /\ ToSet(clients'[f]) = {} /\ Len(clients'[f]) = 0
    BY <1>0, <2>1, <2>2, Few
  <2>4. /\ inHand'[c] = clients[f] /\ ToSet(inHand[c]) = {}
        /\ \A d \in FleetCallers : d # c => inHand'[d] = inHand[d]
    BY <1>0, <2>1, <2>2, Few
  <2> HIDE DEF f
  <2>5. OneOwner'
    BY <1>0, <2>1, <2>2, <2>3, <2>4 DEF OneOwner
  <2>6. Fresh'
    BY <1>0, <1>14, <1>s, <2>1, <2>4 DEF Fresh, TakeClients
  <2>7. FleetWithinMax' /\ MembersOpen'
    <3>1. \A g \in Fleets : \/ clients'[g] = clients[g]
                            \/ ToSet(clients'[g]) = {} /\ Len(clients'[g]) = 0
      BY <2>3
    <3>2. MaxWorkers \in Nat /\ asked' = asked /\ 0 <= MaxWorkers
      BY <2>1, FleetAssumption
    <3>3. FleetWithinMax'
      BY <1>0, <3>1, <3>2 DEF FleetWithinMax
    <3>4. MembersOpen'
      BY <1>0, <3>1, <3>2 DEF MembersOpen
    <3> QED BY <3>3, <3>4
  <2>8. NoneStranded'
    BY <1>n, <2>1, <2>2, <2>3, <2>4 DEF Kept
  <2> QED BY <2>5, <2>6, <2>7, <2>8 DEF WorkersAccounted
<1>15. CASE ForgetPins(c)
  BY <1>15, <1>s, WorkersStay DEF ForgetPins
<1>16. CASE CloseNext(c)
  <2>1. /\ step[c] = "closing" /\ UNCHANGED <<step, clients, spawned, accepted>>
        /\ inHand[c] \in Seq(1..spawned) /\ inHand[c] # <<>>
        /\ asked' = asked \cup {Head(inHand[c])}
        /\ inHand' = [inHand EXCEPT ![c] = Tail(@)]
    BY <1>16, LineFacts DEF CloseNext, shared
  <2>2. /\ ToSet(inHand[c]) = ToSet(inHand'[c]) \cup {Head(inHand[c])}
        /\ \A d \in FleetCallers : d # c => inHand'[d] = inHand[d]
    BY <1>0, <2>1, Headed
  <2>3. OneOwner'
    BY <1>0, <2>1, <2>2 DEF OneOwner
  <2>4. Fresh'
    BY <1>0, <2>1, <2>2 DEF Fresh, OneOwner
  <2>5. FleetWithinMax' /\ MembersOpen'
    BY <1>0, <2>1, <2>2 DEF FleetWithinMax, MembersOpen, OneOwner
  <2>6. NoneStranded'
    BY <1>n, <2>1, <2>2 DEF Kept
  <2> QED BY <2>3, <2>4, <2>5, <2>6 DEF WorkersAccounted
<1>17. CASE ShutdownReturns(c)
  BY <1>17, <1>r DEF ShutdownReturns, shared
<1> QED BY <1>1, <1>2, <1>3, <1>4, <1>5, <1>6, <1>7, <1>8, <1>9, <1>10, <1>11, <1>12, <1>13,
  <1>14, <1>15, <1>16, <1>17 DEF FleetContinues, FleetMove

\* Where a caller goes on: the steps at which it can be and does not hold the
\* fleet that is mapped are those of a call a shutdown has disturbed.
LEMMA ServesStep ==
    ASSUME FleetInv, NEW c \in FleetCallers, FleetMove(c)
    PROVE  Noticed' /\ FleetServes'
<1>0. /\ Noticed /\ PrewarmDelivers /\ EmptyOnlyByShutdown /\ fleet \in {0, made} /\ made \in Nat
      /\ MaxWorkers \in Nat \ {0}
      /\ step \in [FleetCallers -> Steps] /\ held \in [FleetCallers -> Nat]
      /\ call \in [FleetCallers -> FleetCalls \cup {NoCall}]
      /\ disturbed \in [FleetCallers -> BOOLEAN] /\ clients \in [Fleets -> Seq(1..spawned)]
  BY FleetAssumption DEF FleetInv, FleetServes, FleetLines, FleetPools
<1>l. \A d \in FleetCallers :
        /\ call[d].want \in 1..MaxWorkers
        /\ step[d] # "idle" => held[d] \in Fleets /\ held[d] \in 1..made /\ Here(d) \in Seq(1..spawned)
        /\ step[d] # "idle" => Len(Here(d)) \in Nat /\ Len(Here(d)) <= MaxWorkers
        /\ step[d] # "idle" => (Here(d) = <<>> <=> Len(Here(d)) = 0)
  BY LineFacts, Element
<1> DEFINE Fine(d) ==
      /\ step[d] \in {"counting", "offering", "warm", "choosing"} /\ held[d] # fleet => disturbed[d]
      /\ step[d] = "unmapped" => held[d] # fleet
      /\ step[d] = "warm" /\ Len(Here(d)) < call[d].want => disturbed[d]
      /\ step[d] = "choosing" /\ Here(d) = <<>> => disturbed[d]
<1>f. \A d \in FleetCallers : Fine(d)
  BY <1>0 DEF Noticed, PrewarmDelivers, EmptyOnlyByShutdown
<1>g. (\A d \in FleetCallers : Fine(d)') => Noticed' /\ FleetServes'
  BY DEF Noticed, PrewarmDelivers, EmptyOnlyByShutdown, FleetServes
<1> SUFFICES ASSUME NEW d \in FleetCallers PROVE Fine(d)'
  BY <1>g
<1>h. Fine(d) /\ Fine(c)
  BY <1>f
<1>1. CASE \E x \in FleetCalls : StartCall(c, x)
  BY <1>0, <1>1, <1>h, <1>l DEF StartCall, Fetch, Goes, Here
<1>2. CASE \E p \in Projects : FindFleet(c, p)
  BY <1>0, <1>2, <1>h DEF FindFleet, shared, Goes, Here
<1>3. CASE Unmap(c)
  <2>1. /\ step[c] = "idle" /\ step' = [step EXCEPT ![c] = "unmapped"] /\ UNCHANGED <<clients>>
        /\ held' = [held EXCEPT ![c] = fleet] /\ fleet' = 0 /\ fleet # 0
        /\ call' = [call EXCEPT ![c] = [NoCall EXCEPT !.op = "shutdown"]]
        /\ disturbed' = [e \in FleetCallers |-> disturbed[e] \/ step[e] # "idle"]
    BY <1>3 DEF Unmap, Goes
  <2>2. CASE d = c
    BY <1>0, <2>1, <2>2
  <2>3. CASE d # c
    <3>1. step'[d] = step[d] /\ held'[d] = held[d]
      BY <1>0, <2>1, <2>3
    <3>2. step[d] # "idle" => disturbed'[d] /\ held[d] \in 1..made
      BY <1>l, <2>1
    <3> QED BY <1>0, <2>1, <3>1, <3>2
  <2> QED BY <2>2, <2>3
<1>4. CASE FetchAgain(c)
  BY <1>0, <1>4, <1>h, <1>l DEF FetchAgain, Fetch, Goes, Here
<1>5. CASE Spawn(c)
  BY <1>0, <1>5, <1>h DEF Spawn, shared, Goes, Here
<1>6. CASE SpawnFails(c)
  BY <1>0, <1>6, <1>h DEF SpawnFails, Returns, shared, Goes, Here
<1>7. CASE Accept(c)
  <2>1. /\ step[c] = "offering" /\ step' = [step EXCEPT ![c] = "counting"]
        /\ clients' = [clients EXCEPT ![held[c]] = @ \o inHand[c]]
        /\ UNCHANGED <<fleet, call, held, disturbed>>
    BY <1>7 DEF Accept, Goes
  <2>2. /\ held[c] \in Fleets /\ clients[held[c]] \in Seq(1..spawned)
        /\ inHand[c] \in Seq(1..spawned)
    BY <1>l, <2>1, LineFacts DEF Here
  <2>3. /\ Len(clients[held[c]] \o inHand[c]) = Len(clients[held[c]]) + Len(inHand[c])
        /\ Len(inHand[c]) \in Nat /\ Len(clients[held[c]]) \in Nat
        /\ Len(clients[held[c]] \o inHand[c]) >= Len(clients[held[c]])
        /\ Len(clients[held[c]] \o inHand[c]) \in Nat
        /\ clients[held[c]] \o inHand[c] = <<>> => clients[held[c]] = <<>>
    <3> DEFINE s == clients[held[c]]
               t == inHand[c]
               r == s \o t
    <3>1. s \in Seq(1..spawned) /\ t \in Seq(1..spawned)
      BY <2>2
    <3>2. r \in Seq(1..spawned) /\ Len(r) = Len(s) + Len(t)
      BY <3>1, Joined
    <3> HIDE DEF s, t, r
    <3>3. Len(s) \in Nat /\ Len(t) \in Nat /\ (s = <<>> <=> Len(s) = 0) /\ (r = <<>> <=> Len(r) = 0)
      BY <3>1, <3>2, Element
    <3>4. Len(r) >= Len(s) /\ Len(r) \in Nat /\ (r = <<>> => s = <<>>)
      BY <3>2, <3>3
    <3> QED BY <3>2, <3>3, <3>4 DEF s, t, r
  <2>4. step[d] # "idle" /\ held[d] # held[c] => Here(d)' = Here(d)
    BY <1>0, <1>l, <2>1 DEF Here
  <2>5. held[d] = held[c] => Here(d)' = clients[held[c]] \o inHand[c]
    BY <1>0, <2>1, <2>2 DEF Here
  <2>6. step[d] # "idle" =>
          /\ Len(Here(d)') >= Len(Here(d)) /\ Len(Here(d)') \in Nat /\ Len(Here(d)) \in Nat
          /\ Here(d)' = <<>> => Here(d) = <<>>
    <3>1. CASE held[d] = held[c]
      <4>1. Here(d) = clients[held[c]] /\ Here(d)' = clients[held[c]] \o inHand[c]
        BY <2>5, <3>1 DEF Here
      <4> QED BY <2>3, <4>1
    <3>2. CASE held[d] # held[c]
      BY <1>l, <2>4, <3>2
    <3> QED BY <3>1, <3>2
  <2>7. d # c => step'[d] = step[d]
    BY <1>0, <2>1
  <2>8. step'[c] = "counting" /\ call[d].want \in Nat
    BY <1>0, <1>l, <2>1
  <2> QED BY <1>h, <2>1, <2>6, <2>7, <2>8
<1>8. CASE CloseExtra(c)
  BY <1>0, <1>8, <1>h, <1>l DEF CloseExtra, Welcome, shared, Goes, Here
<1>9. CASE EnoughWorkers(c)
  BY <1>0, <1>9, <1>h, <1>l DEF EnoughWorkers, shared, Goes, Here
<1>10. CASE PrewarmReturns(c)
  BY <1>0, <1>10, <1>h DEF PrewarmReturns, Returns, shared, Goes, Here
<1>11. CASE Lease(c)
  BY <1>0, <1>11, <1>h DEF Lease, Returns, Goes, Here
<1>12. CASE LeasePinned(c)
  <2>1. Returns(c, "choosing") /\ UNCHANGED <<fleet, clients>>
    BY <1>12 DEF LeasePinned
  <2> QED BY <1>0, <2>1, <1>h DEF Returns, Goes, Here
<1>13. CASE Unpin(c)
  BY <1>0, <1>13, <1>h DEF Unpin, Returns, Goes, Here
<1>14. CASE TakeClients(c)
  BY <1>0, <1>14, <1>h, <1>l DEF TakeClients, Goes, Here
<1>15. CASE ForgetPins(c)
  BY <1>0, <1>15, <1>h DEF ForgetPins, Goes, Here
<1>16. CASE CloseNext(c)
  BY <1>0, <1>16, <1>h DEF CloseNext, shared, Here
<1>17. CASE ShutdownReturns(c)
  BY <1>0, <1>17, <1>h DEF ShutdownReturns, Returns, shared, Goes, Here
<1> QED BY <1>1, <1>2, <1>3, <1>4, <1>5, <1>6, <1>7, <1>8, <1>9, <1>10, <1>11, <1>12, <1>13,
  <1>14, <1>15, <1>16, <1>17 DEF FleetContinues, FleetMove

\* The worker a project was given, while it is in the fleet, is where the pin of
\* the project points: the pin is looked at and written under one lock, workers
\* are only added at the end, and a shutdown takes them all.
LEMMA PinsStep ==
    ASSUME FleetInv, NEW c \in FleetCallers, FleetMove(c), NEW f \in Fleets, NEW p \in Projects
    PROVE  /\ leased[f][p] \in ToSet(clients[f]) => leased'[f][p] \in {leased[f][p], 0}
           /\ leased'[f][p] \in ToSet(clients'[f]) =>
                pin'[f][p] \in 1..Len(clients'[f]) /\ clients'[f][pin'[f][p]] = leased'[f][p]
<1>0. /\ clients \in [Fleets -> Seq(1..spawned)] /\ spawned \in Nat /\ clients[f] \in Seq(1..spawned)
      /\ pin \in [Fleets -> [Projects -> 0..MaxWorkers]]
      /\ leased \in [Fleets -> [Projects -> accepted \cup {0}]]
      /\ accepted \subseteq 1..spawned /\ Len(clients[f]) \in Nat
  BY FleetAssumption, Element DEF FleetInv, FleetPools
<1>i. leased[f][p] \in ToSet(clients[f]) =>
        pin[f][p] \in 1..Len(clients[f]) /\ clients[f][pin[f][p]] = leased[f][p]
  BY DEF FleetInv, PinAgrees
<1>q. CASE UNCHANGED <<clients, pin, leased>>
  BY <1>i, <1>q
<1>7. CASE Accept(c)
  <2>1. /\ step[c] = "offering" /\ UNCHANGED <<pin, leased>>
        /\ clients' = [clients EXCEPT ![held[c]] = @ \o inHand[c]]
    BY <1>7 DEF Accept, Goes
  <2>2. held[c] \in Fleets /\ inHand[c] \in Seq(1..spawned)
    BY <2>1, LineFacts
  <2>3. CASE f # held[c]
    BY <1>0, <1>i, <2>1, <2>2, <2>3
  <2>4. CASE f = held[c]
    <3>1. clients'[f] = clients[f] \o inHand[c]
      BY <1>0, <2>1, <2>4
    <3>2. /\ ToSet(clients'[f]) = ToSet(clients[f]) \cup ToSet(inHand[c])
          /\ Len(clients'[f]) = Len(clients[f]) + Len(inHand[c]) /\ Len(inHand[c]) \in Nat
          /\ \A i \in 1..Len(clients[f]) : clients'[f][i] = clients[f][i]
      BY <1>0, <2>2, <3>1, Joined, Element
    <3>3. leased[f][p] \notin ToSet(inHand[c])
      <4>1. ToSet(inHand[c]) \cap accepted = {} /\ ToSet(inHand[c]) \subseteq 1..spawned
        BY <2>1, <2>2, Element DEF FleetInv, Fresh
      <4>2. leased[f][p] \in accepted \/ leased[f][p] = 0
        BY <1>0
      <4>3. 0 \notin 1..spawned
        BY <1>0
      <4> QED BY <4>1, <4>2, <4>3
    <3>4. leased[f][p] \in ToSet(clients'[f]) => leased[f][p] \in ToSet(clients[f])
      BY <3>2, <3>3
    <3>5. 1..Len(clients[f]) \subseteq 1..Len(clients'[f])
      BY <1>0, <3>2
    <3> QED BY <1>i, <2>1, <3>2, <3>4, <3>5
  <2> QED BY <2>3, <2>4
<1>12. CASE LeasePinned(c)
  <2> DEFINE g == held[c]
             q == call[c].project
             i == IF PinnedIndex(g, q) # 0 THEN PinnedIndex(g, q) ELSE RoundRobin(g)
  <2>1. g \in Fleets /\ q \in Projects /\ clients[g] \in Seq(1..spawned) /\ clients' = clients
    BY <1>12, LineFacts DEF LeasePinned, Returns, Goes, Here
  <2>2. CASE Here(c) = <<>>
    BY <1>12, <1>q, <2>1, <2>2 DEF LeasePinned
  <2>3. CASE Here(c) # <<>>
    <3>1. i \in 1..Len(clients[g])
      BY <1>0, <2>1, <2>3, InTurn DEF PinnedIndex, Here
    <3>2. pin[g][q] \in 1..Len(clients[g]) => i = pin[g][q]
      BY <1>0, <2>1, Element DEF PinnedIndex
    <3>3. pin' = [pin EXCEPT ![g][q] = i] /\ leased' = [leased EXCEPT ![g][q] = clients[g][i]]
      BY <1>12, <2>3 DEF LeasePinned
    <3> HIDE DEF g, q, i
    <3>4. CASE f = g /\ p = q
      <4>1. pin'[f][p] = i /\ leased'[f][p] = clients[f][i]
        BY <1>0, <2>1, <3>3, <3>4
      <4> QED BY <1>i, <2>1, <3>1, <3>2, <3>4, <4>1
    <3>5. CASE ~(f = g /\ p = q)
      <4>1. pin'[f][p] = pin[f][p] /\ leased'[f][p] = leased[f][p]
        BY <1>0, <2>1, <3>3, <3>5
      <4> QED BY <1>i, <2>1, <4>1
    <3> QED BY <3>4, <3>5
  <2> QED BY <2>2, <2>3
<1>13. CASE Unpin(c)
  <2>1. held[c] \in Fleets /\ call[c].project \in Projects
    BY <1>13, LineFacts DEF Unpin, Returns, Goes
  <2>2. /\ clients' = clients /\ pin' = [pin EXCEPT ![held[c]][call[c].project] = 0]
        /\ leased' = [leased EXCEPT ![held[c]][call[c].project] = 0]
    BY <1>13 DEF Unpin
  <2>3. \/ leased'[f][p] = 0
        \/ pin'[f][p] = pin[f][p] /\ leased'[f][p] = leased[f][p]
    BY <1>0, <2>1, <2>2
  <2>4. 0 \notin ToSet(clients[f])
    BY <1>0, Element
  <2> QED BY <1>i, <2>2, <2>3, <2>4
<1>14. CASE TakeClients(c)
  <2>1. /\ UNCHANGED <<pin, leased>> /\ clients' = [clients EXCEPT ![held[c]] = <<>>]
    BY <1>14 DEF TakeClients
  <2>2. clients'[f] = clients[f] \/ ToSet(clients'[f]) = {}
    BY <1>0, <2>1, Few
  <2> QED BY <1>i, <2>1, <2>2
<1>15. CASE ForgetPins(c)
  <2>1. /\ clients' = clients /\ pin' = [pin EXCEPT ![held[c]] = [r \in Projects |-> 0]]
        /\ leased' = [leased EXCEPT ![held[c]] = [r \in Projects |-> 0]]
    BY <1>15 DEF ForgetPins
  <2>3. \/ leased'[f][p] = 0
        \/ pin'[f][p] = pin[f][p] /\ leased'[f][p] = leased[f][p]
    BY <1>0, <2>1
  <2>4. 0 \notin ToSet(clients[f])
    BY <1>0, Element
  <2> QED BY <1>i, <2>1, <2>3, <2>4
<1>1. CASE \E x \in FleetCalls : StartCall(c, x)
  BY <1>1, <1>q DEF StartCall, Fetch
<1>2. CASE \E r \in Projects : FindFleet(c, r)
  BY <1>2, <1>q DEF FindFleet, shared
<1>3. CASE Unmap(c)
  BY <1>3, <1>q DEF Unmap
<1>4. CASE FetchAgain(c)
  BY <1>4, <1>q DEF FetchAgain, Fetch
<1>5. CASE Spawn(c) \/ SpawnFails(c) \/ CloseExtra(c) \/ EnoughWorkers(c) \/ PrewarmReturns(c) \/ Lease(c)
  BY <1>5, <1>q DEF Spawn, SpawnFails, CloseExtra, EnoughWorkers, PrewarmReturns, Lease, shared
<1>6. CASE CloseNext(c) \/ ShutdownReturns(c)
  BY <1>6, <1>q DEF CloseNext, ShutdownReturns, shared
<1> QED BY <1>1, <1>2, <1>3, <1>4, <1>5, <1>6, <1>7, <1>12, <1>13, <1>14, <1>15
  DEF FleetContinues, FleetMove

\* The invariant mentions no other variables.
LEMMA FleetStutter == FleetInv /\ UNCHANGED fleetVars => FleetInv'
<1> SUFFICES ASSUME FleetInv, UNCHANGED fleetVars PROVE FleetInv'
  OBVIOUS
<1>1. UNCHANGED <<fleet, made, clients, next, pin, spawned, asked, step, call, held, inHand, disturbed, leased, accepted>>
  BY DEF fleetVars, shared
<1>2. FleetPools' /\ OneOwner' /\ Fresh' /\ Noticed' /\ PinAgrees'
  BY <1>1 DEF FleetInv, FleetPools, OneOwner, Fresh, Noticed, PinAgrees
<1>3. FleetLines'
  BY <1>1 DEF FleetInv, FleetLines
<1>4. WorkersAccounted' /\ FleetServes'
  BY <1>1 DEF FleetInv, WorkersAccounted, FleetWithinMax, MembersOpen, NoneStranded, FleetServes,
    PrewarmDelivers, EmptyOnlyByShutdown, Here
<1> QED BY <1>2, <1>3, <1>4 DEF FleetInv

\* Every step of every caller keeps the invariant.
LEMMA FleetStep == FleetInv /\ [FleetNext]_fleetVars => FleetInv'
<1> SUFFICES ASSUME FleetInv, [FleetNext]_fleetVars PROVE FleetInv'
  OBVIOUS
<1>1. CASE FleetNext
  <2>1. PICK c \in FleetCallers : FleetMove(c)
    BY <1>1 DEF FleetNext, FleetMove
  <2>2. FleetPools' /\ FleetLines' /\ OneOwner' /\ Fresh' /\ WorkersAccounted' /\ Noticed' /\ FleetServes'
    BY <2>1, PoolsStep, LinesStep, WorkersStep, ServesStep
  <2>3. PinAgrees'
    BY <2>1, PinsStep DEF PinAgrees
  <2> QED BY <2>2, <2>3 DEF FleetInv
<1>2. CASE UNCHANGED fleetVars
  BY <1>2, FleetStutter
<1> QED BY <1>1, <1>2

\* The invariant holds of every fleet, any callers, projects and bounds.
THEOREM FleetInvariant == FleetSpec => []FleetInv
  BY FleetInitHolds, FleetStep, PTL DEF FleetSpec

\* Every variable of the fleet of a profile (api.rs) keeps to its type.
THEOREM FleetTypeCorrect == FleetSpec => []FleetTypeOK
<1>1. FleetInv => FleetTypeOK
  BY PlacesKeepTypes DEF FleetInv
<1> QED BY <1>1, FleetInvariant, PTL

\* No fleet outgrows max_workers_per_profile, no member was asked to close and no
\* worker is stranded, whichever prewarms, leases and shutdowns of api.rs overlap.
THEOREM WorkersCorrect == FleetSpec => []WorkersAccounted
<1>1. FleetInv => WorkersAccounted
  BY DEF FleetInv
<1> QED BY <1>1, FleetInvariant, PTL

\* prewarm leaves the replicas it was asked for, and lease finds an empty fleet
\* only when a shutdown_profile overlapped the call.
THEOREM FleetServesCorrect == FleetSpec => []FleetServes
<1>1. FleetInv => FleetServes
  BY DEF FleetInv
<1> QED BY <1>1, FleetInvariant, PTL

\* lease_for_project gives a project the same worker until it is unpinned or the
\* worker leaves the fleet.
THEOREM AffinityCorrect == FleetSpec => AffinityKept
<1> DEFINE Keeps == \A f \in Fleets, p \in Projects :
      leased[f][p] \in ToSet(clients[f]) => leased'[f][p] \in {leased[f][p], 0}
<1>1. FleetInv /\ FleetNext => Keeps
  <2> SUFFICES ASSUME FleetInv, FleetNext PROVE Keeps
    OBVIOUS
  <2>1. PICK c \in FleetCallers : FleetMove(c)
    BY DEF FleetNext, FleetMove
  <2> QED BY <2>1, PinsStep
<1>2. FleetInv /\ [FleetNext]_fleetVars => [Keeps]_fleetVars
  BY <1>1
<1> QED BY <1>2, FleetInvariant, PTL DEF FleetSpec, AffinityKept
=============================================================================
