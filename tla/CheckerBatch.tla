---------------------------- MODULE CheckerBatch ----------------------------
(***************************************************************************)
(* Checker queries sent in one round trip: resolveCheckerBatch of          *)
(* src/src/bindings/nodejs/corsa_node/ts/orchestrator.ts over              *)
(* batchCheckerRequests of checker_batch.ts.                               *)
(*                                                                         *)
(* Queries for positions in one file, and queries for types of symbols,    *)
(* are merged into one request each, which asks for an item once.  Any     *)
(* other query is a request of its own (direct), shared by equal queries.  *)
(* Every request has routes to the queries that its answer serves.         *)
(*                                                                         *)
(* A query asks for items in a file: positions, symbols (all of one file   *)
(* then) or, when direct, its parameters.  One that is single gets the     *)
(* answer to its item, any other a list.  No items, no request.            *)
(***************************************************************************)
EXTENDS Integers, SequencesExt

CONSTANTS Queries, MaxQueries,
          Null, Failed   \* no answer, and an error

Merging == {"getTypesAtPositions", "getSymbolsAtPositions", "getTypesOfSymbols"}
Items == UNION {ToSet(q.items) : q \in Queries}

\* A method is merged or direct.
ASSUME CheckerAssumption ==
    \A q \in Queries :
        /\ q.items \in Seq(Items) /\ {q.direct, q.single, q.list} \subseteq BOOLEAN
        /\ q.direct = (q.method \notin Merging)

VARIABLES
    queries,    \* the queries planned so far
    groups,     \* merged requests in the making of each method, with their routes
    requests,   \* what is sent
    routes,     \* the queries each request serves
    refused,    \* the requests the server answers with an error
    unknown,    \* what the server answers null to
    results,    \* of some of the queries
    phase

checkerVars == <<queries, groups, requests, routes, refused, unknown, results, phase>>

CheckerInit ==
    /\ queries = <<>> /\ groups = [m \in Merging |-> <<>>] /\ requests = <<>> /\ routes = <<>>
    /\ refused = {} /\ unknown = {} /\ results = [i \in {} |-> Null]
    /\ phase = "planning"

Next1 == Len(queries) + 1

Plan(q) ==
    /\ phase = "planning" /\ Len(queries) < MaxQueries
    /\ queries' = Append(queries, q)
    /\ UNCHANGED <<refused, unknown, phase>>

AddEmpty(q) ==
    /\ q.items = <<>> /\ Plan(q)
    /\ results' = [i \in DOMAIN results \cup {Next1} |-> IF i \in DOMAIN results THEN results[i] ELSE <<>>]
    /\ UNCHANGED <<groups, requests, routes>>

Request(q) == [method |-> q.method, file |-> q.file, items |-> q.items]

\* Mutant: an equal request is there, but has no route to the query.
AddDirectUnrouted(q) ==
    /\ q.direct /\ q.items # <<>> /\ Plan(q)
    /\ IF Contains(requests, Request(q)) THEN UNCHANGED <<requests, routes>>
       ELSE requests' = Append(requests, Request(q)) /\ routes' = Append(routes, <<Next1>>)
    /\ UNCHANGED <<groups, results>>

\* addDirectRequest.
AddDirect(q) ==
    /\ q.direct /\ q.items # <<>> /\ Plan(q)
    /\ LET at == SelectInSeq(requests, LAMBDA r : r = Request(q))
       IN  IF at # 0
           THEN routes' = [routes EXCEPT ![at] = Append(@, Next1)] /\ UNCHANGED requests
           ELSE requests' = Append(requests, Request(q)) /\ routes' = Append(routes, <<Next1>>)
    /\ UNCHANGED <<groups, results>>

\* The items of a group and those of more that it does not have, each once.
Coalesce(items, more) ==
    LET list[n \in 0 .. Len(more)] ==
            IF n = 0 THEN items
            ELSE IF Contains(list[n - 1], more[n]) THEN list[n - 1]
            ELSE Append(list[n - 1], more[n])
    IN  list[Len(more)]

\* addPositionBatchQuery and addSymbolTypeBatchQuery.
AddToGroup(q) ==
    /\ ~q.direct /\ q.items # <<>> /\ Plan(q)
    /\ LET list == groups[q.method]
           at == SelectInSeq(list, LAMBDA g : g.file = q.file)
       IN  groups' = [groups EXCEPT ![q.method] =
                         IF at # 0
                         THEN [list EXCEPT ![at] = [file |-> q.file, items |-> Coalesce(@.items, q.items),
                                                    routes |-> Append(@.routes, Next1)]]
                         ELSE Append(list, [file |-> q.file, items |-> Coalesce(<<>>, q.items),
                                            routes |-> <<Next1>>])]
    /\ UNCHANGED <<requests, routes, results>>

\* flushPositionBatchGroups, for types and for symbols, and
\* flushSymbolTypeBatchGroup.
Flush ==
    LET asked(m) == [n \in DOMAIN groups[m] |->
                        [method |-> m, file |-> groups[m][n].file, items |-> groups[m][n].items]]
        served(m) == [n \in DOMAIN groups[m] |-> groups[m][n].routes]
    IN  /\ phase = "planning" /\ phase' = "planned"
        /\ requests' = requests \o asked("getTypesAtPositions") \o asked("getSymbolsAtPositions")
                           \o asked("getTypesOfSymbols")
        /\ routes' = routes \o served("getTypesAtPositions") \o served("getSymbolsAtPositions")
                         \o served("getTypesOfSymbols")
        /\ UNCHANGED <<queries, groups, refused, unknown, results>>

\* batchCheckerRequests; without requests nothing is sent.
Respond ==
    /\ phase = "planned" /\ phase' = "answered"
    /\ refused' \in SUBSET ToSet(requests)
    /\ unknown' \in SUBSET UNION {ToSet(r.items) : r \in ToSet(requests)}
    /\ UNCHANGED <<queries, groups, requests, routes, results>>

\* A list of answers of another length fails all of them.
Malformed ==
    /\ phase = "planned" /\ requests # <<>> /\ phase' = "failed"
    /\ UNCHANGED <<queries, groups, requests, routes, refused, unknown, results>>

AnswerTo(method, file, x) == IF x \in unknown THEN Null ELSE <<method, file, x>>
Answers(r) == [n \in DOMAIN r.items |-> AnswerTo(r.method, r.file, r.items[n])]

\* The transform of a direct query, and the routes of a merged request.
Routed(q, r) ==
    LET answerOf(x) == Answers(r)[SelectInSeq(r.items, LAMBDA y : y = x)]
    IN  IF r \in refused THEN Failed
        ELSE IF ~q.single THEN [n \in DOMAIN q.items |-> answerOf(q.items[n])]
        ELSE IF q.list /\ answerOf(q.items[1]) = Null THEN <<>> ELSE answerOf(q.items[1])

\* resolve: an index has one route.
Resolve ==
    LET served(n) == ToSet(routes[n])
        serving(i) == CHOOSE n \in DOMAIN routes : i \in served(n)
        routed == UNION {served(n) : n \in DOMAIN routes}
    IN  /\ phase = "answered" /\ phase' = "resolved"
        /\ results' = [i \in DOMAIN results \cup routed |->
                          IF i \in routed THEN Routed(queries[i], requests[serving(i)]) ELSE results[i]]
        /\ UNCHANGED <<queries, groups, requests, routes, refused, unknown>>

CheckerNext ==
    \/ \E q \in Queries : AddEmpty(q) \/ AddDirect(q) \/ AddToGroup(q)
    \/ Flush \/ Respond \/ Malformed \/ Resolve

CheckerSpec == CheckerInit /\ [][CheckerNext]_checkerVars

-----------------------------------------------------------------------------
\* The request a query would make alone, and what it would answer.
Fails(q) ==
    \E r \in refused : /\ r.method = q.method /\ r.file = q.file
                       /\ q.direct => r.items = q.items

Alone(q) ==
    LET answer(n) == AnswerTo(q.method, q.file, q.items[n])
    IN  IF q.items = <<>> THEN <<>>
        ELSE IF Fails(q) THEN Failed
        ELSE IF ~q.single THEN [n \in DOMAIN q.items |-> answer(n)]
        ELSE IF q.list /\ answer(1) = Null THEN <<>> ELSE answer(1)

(* Every query of a batch that is answered has a result, and it is what it    *)
(* would get alone: its own items, in its order and as often as it asked,     *)
(* whatever it was merged with.  Only an error of a merged request is shared. *)
EachGetsItsOwn ==
    phase = "resolved" => \A i \in DOMAIN queries :
        i \in DOMAIN results /\ results[i] = Alone(queries[i])
=============================================================================
