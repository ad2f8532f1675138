---------------------------- MODULE CheckerProofs ---------------------------
(***************************************************************************)
(* Proofs about CheckerSession for any files, texts and modification       *)
(* times, a server that refuses updates or does not, and any number of     *)
(* queries, deaths of the worker and edits, and about CheckerBatch for any *)
(* queries and any length of a batch.                                      *)
(*                                                                         *)
(* The session decides from what it remembers whether the server has an    *)
(* overlay.  That is sound because what it remembers of a live worker is   *)
(* what the server has: everything is forgotten with a snapshot, and with  *)
(* the worker.                                                             *)
(*                                                                         *)
(* A batch gives each query what it would get alone because a request has  *)
(* all the items of the queries that its routes lead to, and no other      *)
(* request asks for the same.                                              *)
(***************************************************************************)
EXTENDS CheckerSession, CheckerBatch, SequenceTheorems, WellFoundedInduction, TLAPS

-----------------------------------------------------------------------------
(* The session: the invariant *)

\* A query under way.
Asked == [at : {"prepare", "update", "file", "answer"}, file : SourceFiles, text : MaybeTexts,
          mtime : Mtimes, source : MaybeTexts, retried : BOOLEAN]
\* What the session remembers of a file.
Memory == [mtime : Mtimes, lint : MaybeTexts, source : MaybeTexts]

\* What SessionTypeOK says of each variable but what is remembered.
SessionTypes ==
    /\ client \in BOOLEAN /\ issued \in BOOLEAN /\ fatal \in BOOLEAN /\ up \in BOOLEAN
    /\ snapshot \in Snapshots \cup {0} /\ alive \in SUBSET Snapshots
    /\ supports \in {"unknown", "yes", "no"}
    /\ statted \in [SourceFiles -> Mtimes]
    /\ disk \in [SourceFiles -> [text : SourceTexts, mtime : Mtimes]]
    /\ overlay \in [SourceFiles -> MaybeTexts]
    /\ query \in Asked \cup {NoQuery}

\* It remembers source files.
FilesTyped ==
    /\ DOMAIN files \subseteq SourceFiles
    /\ \A f \in DOMAIN files : files[f] \in Memory

\* A session without a worker remembers nothing, and one that has a snapshot
\* knows whether the server takes overlays.
Forgetful ==
    /\ up => client
    /\ ~client => snapshot = 0 /\ DOMAIN files = {}
    /\ snapshot # 0 => supports # "unknown"
    /\ query # NoQuery /\ query.at # "prepare" => supports # "unknown"

\* No overlay is wanted of a server that does not take them.
Wanted ==
    query # NoQuery /\ query.at # "prepare" /\ supports = "no" => query.source = NoText

\* While the worker lives, the server has every overlay that the session believes
\* it sent, and only the snapshot that the session holds; a query that has passed
\* the update has its text there.
InTouch ==
    up => /\ \A f \in DOMAIN files : files[f].source # NoText => overlay[f] = files[f].source
          /\ alive = {snapshot} \ {0}
          /\ query # NoQuery /\ query.at \in {"file", "answer"} /\ query.source # NoText
                 => overlay[query.file] = query.source

\* The invariant.
SessionInv == SessionTypes /\ FilesTyped /\ Forgetful /\ Wanted /\ InTouch

-----------------------------------------------------------------------------
(* The session: steps *)

\* A session starts with nothing.
LEMMA SessionStarts == SessionInit => SessionInv
<1> SUFFICES ASSUME SessionInit PROVE SessionInv
  OBVIOUS
<1>1. disk \in [SourceFiles -> [text : SourceTexts, mtime : Mtimes]]
  <2>1. {1} \subseteq Mtimes
    BY SessionAssumption DEF Mtimes
  <2> QED BY <2>1 DEF SessionInit
<1>2. 0 \in Mtimes
  BY SessionAssumption DEF Mtimes
<1> QED
  BY <1>1, <1>2
  DEF SessionInit, SessionInv, SessionTypes, FilesTyped, Forgetful, Wanted, InTouch, Nothing,
      MaybeTexts, Snapshots

\* No query is a query under way.
LEMMA Idle == NoQuery \notin Asked /\ NoQuery.at = "idle"
  BY DEF NoQuery, Asked

\* A query that moves keeps its file and its text.
LEMMA QueryMoves ==
    ASSUME NEW q \in Asked, NEW to \in {"prepare", "update", "file", "answer"}
    PROVE  /\ [q EXCEPT !.at = to] \in Asked /\ [q EXCEPT !.at = to] # NoQuery
           /\ [q EXCEPT !.at = to].at = to
           /\ [q EXCEPT !.at = to].file = q.file
           /\ [q EXCEPT !.at = to].source = q.source
  BY DEF Asked, NoQuery

\* Whatever happens to the worker and the disk: a dead worker has no overlays, and
\* editing a file on the disk does not touch those of a live one.
LEMMA EnvironmentSteps ==
    ASSUME SessionInv,
           \/ WorkerDies \/ Refuse \/ Close
           \/ \E f \in SourceFiles, t \in SourceTexts : EditFile(f, t)
           \/ UNCHANGED sessionVars
    PROVE  SessionInv'
<1>1. CASE UNCHANGED sessionVars
  BY <1>1 DEF sessionVars, session, serverState, SessionInv, SessionTypes, FilesTyped, Forgetful, Wanted, InTouch
<1>2. CASE WorkerDies
  BY <1>2 DEF WorkerDies, session, serverState, SessionInv, SessionTypes, FilesTyped, Forgetful, Wanted, InTouch
<1>3. CASE Refuse
  BY <1>3 DEF Refuse, session, serverState, SessionInv, SessionTypes, FilesTyped, Forgetful, Wanted, InTouch
<1>4. CASE Close
  BY <1>4 DEF Close, Forget, Nothing, serverState, SessionInv, SessionTypes, FilesTyped, Forgetful, Wanted, InTouch
<1>5. ASSUME NEW f \in SourceFiles, NEW t \in SourceTexts, EditFile(f, t) PROVE SessionInv'
  <2>1. disk' \in [SourceFiles -> [text : SourceTexts, mtime : Mtimes]]
    BY <1>5, SessionAssumption DEF EditFile, SessionInv, SessionTypes, Mtimes
  <2> QED
    BY <1>5, <2>1 DEF EditFile, session, serverState, SessionInv, SessionTypes, FilesTyped, Forgetful, Wanted, InTouch
<1> QED BY <1>1, <1>2, <1>3, <1>4, <1>5

\* A query begins.
LEMMA AskStep ==
    ASSUME SessionInv, NEW f \in SourceFiles, NEW t \in MaybeTexts, Ask(f, t)
    PROVE  SessionInv'
<1>1. query' \in Asked /\ query'.at = "prepare"
  BY SessionAssumption DEF Ask, Asked, Mtimes, MaybeTexts
<1> QED BY <1>1 DEF Ask, session, serverState, SessionInv, SessionTypes, FilesTyped, Forgetful, Wanted, InTouch

\* A new worker has no overlays, and the session remembers none.
LEMMA SpawnStep == ASSUME SessionInv, Spawn PROVE SessionInv'
<1>1. /\ ~client /\ query # NoQuery /\ query.at \in {"prepare", "update"}
      /\ client' = TRUE /\ up' = TRUE /\ alive' = {} /\ overlay' = [f \in SourceFiles |-> NoText]
      /\ UNCHANGED <<snapshot, files, issued, supports, fatal, statted, query, disk>>
  BY Idle DEF Spawn
<1> QED BY <1>1 DEF SessionInv, SessionTypes, FilesTyped, Forgetful, Wanted, InTouch, MaybeTexts

\* The server tells whether it takes overlays.
LEMMA DescribeStep == ASSUME SessionInv, Describe PROVE SessionInv'
<1>1. query.at = "prepare" /\ supports = "unknown" /\ supports' \in {"yes", "no"}
  BY DEF Describe
<1> QED
  BY <1>1 DEF Describe, serverState, SessionInv, SessionTypes, FilesTyped, Forgetful, Wanted, InTouch

\* What refreshIfNeeded has decided when it does not ask for a snapshot: the
\* server has the text wanted, if it is one.
LEMMA NotStale ==
    ASSUME SessionInv, NEW f \in SourceFiles, NEW mtime, NEW source, NEW expired,
           ~Stale(f, mtime, source, expired), source # NoText, up
    PROVE  overlay[f] = source
<1>1. Remembered(f) /\ files[f].source = source
  BY DEF Stale, SentText
<1> QED BY <1>1 DEF SessionInv, InTouch, Remembered

\* The modification time and the text that Prepare chooses: no text is chosen for
\* a server that takes no overlays.
LEMMA OverlayTextTyped ==
    ASSUME SessionInv, NEW f \in SourceFiles, NEW t \in MaybeTexts, NEW lapsed
    PROVE  /\ Mtime(f, t, lapsed) \in Mtimes
           /\ \A m : OverlayText(f, t, m) \in MaybeTexts /\ (supports = "no" => OverlayText(f, t, m) = NoText)
<1>1. Remembered(f) => files[f].source \in MaybeTexts
  BY DEF SessionInv, FilesTyped, Remembered, Memory
<1>2. NoText \in MaybeTexts
  BY DEF MaybeTexts
<1>3. statted[f] \in Mtimes /\ disk[f].mtime \in Mtimes
  BY DEF SessionInv, SessionTypes
<1> QED BY <1>1, <1>2, <1>3 DEF Mtime, OverlayText

\* What is decided on the remembered overlay agrees with the server.
LEMMA PrepareStep == ASSUME SessionInv, Prepare PROVE SessionInv'
<1>1. query \in Asked /\ query.file \in SourceFiles /\ query.text \in MaybeTexts /\ supports # "unknown"
  BY Idle DEF Prepare, SessionInv, SessionTypes, Asked
<1>2. PICK lapsed \in BOOLEAN, expired \in BOOLEAN :
        LET f == query.file
            mtime == Mtime(f, query.text, lapsed)
            source == OverlayText(f, query.text, mtime)
        IN  /\ statted' = [statted EXCEPT ![f] = mtime]
            /\ query' = [query EXCEPT !.mtime = mtime, !.source = source,
                             !.at = IF Stale(f, mtime, source, expired) THEN "update" ELSE "file"]
  BY DEF Prepare
<1> DEFINE f == query.file
           mtime == Mtime(f, query.text, lapsed)
           source == OverlayText(f, query.text, mtime)
           to == IF Stale(f, mtime, source, expired) THEN "update" ELSE "file"
<1>3. mtime \in Mtimes /\ source \in MaybeTexts /\ (supports = "no" => source = NoText)
  BY <1>1, OverlayTextTyped
<1>4. to = "update" \/ (to = "file" /\ (up /\ source # NoText => overlay[f] = source))
  BY <1>1, NotStale
<1>5. statted' = [statted EXCEPT ![f] = mtime]
  BY <1>2
<1>6. query' = [query EXCEPT !.mtime = mtime, !.source = source, !.at = to]
  BY <1>2
<1> HIDE DEF mtime, source, to
<1>7. /\ query' \in Asked /\ query'.at = to /\ query'.file = f /\ query'.source = source
  BY <1>1, <1>3, <1>4, <1>6 DEF Asked
<1>8. /\ UNCHANGED <<client, snapshot, files, issued, supports, fatal, disk, up, overlay, alive>>
  BY DEF Prepare, session, serverState
<1>9. SessionTypes' /\ FilesTyped' /\ Forgetful' /\ Wanted'
  BY <1>1, <1>3, <1>4, <1>5, <1>7, <1>8 DEF SessionInv, SessionTypes, FilesTyped, Forgetful, Wanted
<1>10. InTouch'
  BY <1>4, <1>7, <1>8 DEF SessionInv, InTouch
<1> QED BY <1>9, <1>10 DEF SessionInv

\* A new snapshot: everything remembered is dropped, and the text is sent again.
LEMMA UpdateStep == ASSUME SessionInv, Update PROVE SessionInv'
<1>1. query \in Asked /\ query # NoQuery /\ query.file \in SourceFiles /\ query.source \in MaybeTexts
      /\ query.at = "update" /\ supports # "unknown"
  BY Idle DEF Update, Goes, SessionInv, SessionTypes, Asked, Forgetful
<1>2. /\ query' \in Asked /\ query' # NoQuery /\ query'.at = "file"
      /\ query'.file = query.file /\ query'.source = query.source
  BY <1>1, QueryMoves DEF Update, Goes
<1>3. /\ up /\ alive = {snapshot} \ {0} /\ DOMAIN files' = {}
      /\ issued' = FALSE /\ UNCHANGED <<client, supports, fatal, statted, disk, up>>
  BY DEF Update, Nothing, SessionInv, InTouch
<1>4. snapshot' \in Snapshots /\ snapshot' \notin alive
  <2>1. \E s \in Snapshots : s \notin alive
    BY <1>3 DEF Snapshots
  <2> QED BY <2>1 DEF Update
<1>5. alive' = {snapshot'} /\ snapshot' # 0
  <2>1. alive' = (alive \cup {snapshot'}) \ {snapshot}
    BY DEF Update
  <2>2. snapshot' # snapshot /\ snapshot' # 0
    BY <1>3, <1>4 DEF Snapshots
  <2> QED BY <1>3, <2>1, <2>2
<1>6. /\ overlay' \in [SourceFiles -> MaybeTexts]
      /\ query.source # NoText => overlay'[query.file] = query.source
  BY <1>1 DEF Update, OverlayAfter, SessionInv, SessionTypes, Wanted
<1>7. SessionTypes' /\ FilesTyped' /\ Forgetful' /\ Wanted'
  BY <1>1, <1>2, <1>3, <1>4, <1>5, <1>6 DEF SessionInv, SessionTypes, FilesTyped, Forgetful, Wanted
<1>8. InTouch'
  BY <1>2, <1>3, <1>5, <1>6 DEF InTouch
<1> QED BY <1>7, <1>8 DEF SessionInv

\* What is remembered of a file is what the query has seen sent.
LEMMA KnowFileStep == ASSUME SessionInv, KnowFile PROVE SessionInv'
<1>1. query \in Asked /\ query # NoQuery /\ query.file \in SourceFiles
      /\ query.at = "file" /\ supports # "unknown"
  BY Idle DEF KnowFile, Goes, SessionInv, SessionTypes, Asked, Forgetful
<1>2. /\ query' \in Asked /\ query' # NoQuery /\ query'.at = "answer"
      /\ query'.file = query.file /\ query'.source = query.source
  BY <1>1, QueryMoves DEF KnowFile, Goes
<1>3. UNCHANGED <<client, snapshot, issued, supports, fatal, statted, disk, up, overlay, alive>>
  BY DEF KnowFile, serverState
<1> DEFINE m == [mtime |-> query.mtime, lint |-> query.text, source |-> query.source]
<1>4. m \in Memory /\ m.source = query.source
  BY <1>1 DEF Asked, Memory
<1>5. /\ DOMAIN files' = DOMAIN files \cup {query.file}
      /\ \A f \in DOMAIN files' : files'[f] = IF f \in DOMAIN files THEN files[f] ELSE m
      /\ up \/ query.file \in DOMAIN files
  BY DEF KnowFile, Remembered
<1> HIDE DEF m
<1>6. SessionTypes' /\ Wanted'
  BY <1>1, <1>2, <1>3 DEF SessionInv, SessionTypes, Wanted
<1>7. FilesTyped'
  BY <1>1, <1>4, <1>5 DEF SessionInv, FilesTyped
<1>8. Forgetful'
  BY <1>1, <1>2, <1>3, <1>5 DEF SessionInv, Forgetful
<1>9. InTouch'
  <2> SUFFICES ASSUME up PROVE InTouch'
    BY <1>3 DEF InTouch
  <2>1. \A f \in DOMAIN files' : files'[f].source # NoText => overlay'[f] = files'[f].source
    BY <1>1, <1>3, <1>4, <1>5 DEF SessionInv, InTouch
  <2>2. alive' = {snapshot'} \ {0}
    BY <1>3 DEF SessionInv, InTouch
  <2>3. query'.source # NoText => overlay'[query'.file] = query'.source
    BY <1>1, <1>2, <1>3 DEF SessionInv, InTouch
  <2> QED BY <2>1, <2>2, <2>3 DEF InTouch
<1> QED BY <1>6, <1>7, <1>8, <1>9 DEF SessionInv

\* The query returns.
LEMMA AnswerStep == ASSUME SessionInv, Answer PROVE SessionInv'
  BY DEF Answer, serverState, SessionInv, SessionTypes, FilesTyped, Forgetful, Wanted, InTouch

\* When the worker has died, the session forgets it and the query starts over.
LEMMA RecoverStep == ASSUME SessionInv, Recover PROVE SessionInv'
<1>1. ~up /\ query \in Asked /\ query # NoQuery
  BY Idle DEF Recover, SessionInv, SessionTypes
<1>2. UNCHANGED <<statted, disk, up, overlay, alive>>
  BY DEF Recover, serverState
<1>3. CASE query.retried
  BY <1>1, <1>2, <1>3 DEF Recover, SessionInv, SessionTypes, FilesTyped, Forgetful, Wanted, InTouch
<1>4. CASE ~query.retried
  <2>1. query' \in Asked /\ query'.at = "prepare"
    BY <1>1, <1>4 DEF Recover, Asked
  <2>2. /\ client' = FALSE /\ snapshot' = 0 /\ DOMAIN files' = {} /\ issued' = FALSE
        /\ supports' = "unknown" /\ UNCHANGED fatal
    BY <1>4 DEF Recover, Forget, Nothing
  <2> QED
    BY <1>1, <1>2, <2>1, <2>2
    DEF SessionInv, SessionTypes, FilesTyped, Forgetful, Wanted, InTouch
<1> QED BY <1>3, <1>4

\* The invariant always holds.
LEMMA SessionInvariant == SessionSpec => []SessionInv
<1>1. SessionInv /\ [SessionNext]_sessionVars => SessionInv'
  BY EnvironmentSteps, AskStep, SpawnStep, DescribeStep, PrepareStep, UpdateStep, KnowFileStep,
     AnswerStep, RecoverStep DEF SessionNext, MaybeTexts
<1> QED BY <1>1, SessionStarts, PTL DEF SessionSpec

-----------------------------------------------------------------------------
(* The session: theorems *)

\* Every variable of the session (session.ts) keeps to its type.
THEOREM SessionTypeCorrect == SessionSpec => []SessionTypeOK
<1>1. SessionInv => SessionTypeOK
  BY Idle DEF SessionInv, SessionTypes, FilesTyped, Forgetful, SessionTypeOK, Memory, Asked
<1> QED BY <1>1, SessionInvariant, PTL

\* A query that needs its text as an overlay is answered by a server that has it,
\* and so has every file the session remembers (session.ts), whatever was asked
\* before and however often the worker died.
THEOREM AnswersCorrect == SessionSpec => []AnsweredFromOverlay
<1>1. SessionInv => AnsweredFromOverlay
  BY Idle DEF SessionInv, InTouch, AnsweredFromOverlay
<1> QED BY <1>1, SessionInvariant, PTL

-----------------------------------------------------------------------------
(* Least elements and induction *)

\* A set of naturals that is not empty has a least element.
LEMMA Least ==
    ASSUME NEW T, T \subseteq Nat, T # {}
    PROVE  \E n \in T : \A k \in T : n =< k
<1> DEFINE R == OpToRel(<, Nat)
<1>1. IsWellFoundedOn(R, Nat)
      BY NatLessThanWellFounded
<1>2. PICK n \in T : \A k \in T : <<k, n>> \notin R
  <2> HIDE DEF R
  <2> QED BY <1>1, WFMin
<1>3. \A k \in T : ~(k < n)
      BY <1>2 DEF OpToRel
<1> HIDE DEF R
<1>4. QED
      BY <1>3

\* Hence Min finds one.
LEMMA LeastIsMin ==
    ASSUME NEW T, T \subseteq Nat, T # {}
    PROVE  Min(T) \in T
  BY Least DEF Min

\* Induction over a set of naturals.
LEMMA Climb ==
    ASSUME NEW T, 0 \in T, \A n \in Nat : n \in T => n + 1 \in T
    PROVE  Nat \subseteq T
<1> DEFINE Out == {n \in Nat : n \notin T}
<1>1. SUFFICES ASSUME Out # {} PROVE FALSE
      OBVIOUS
<1>2. PICK n \in Out : \A k \in Out : n =< k
  <2>1. Out \subseteq Nat
        OBVIOUS
  <2> HIDE DEF Out
  <2>2. QED BY <2>1, <1>1, Least
<1>3. n # 0 /\ n - 1 \in Nat
      BY <1>2
<1>4. n - 1 \in T
      BY <1>2, <1>3
<1>5. (n - 1) + 1 \in T
      BY <1>3, <1>4
<1>6. QED
      BY <1>2, <1>3, <1>5

-----------------------------------------------------------------------------
(* Checker batches: lists of items *)

\* Every item is in a list.
HasItems(list, items) == \A k \in 1 .. Len(items) : \E n \in 1 .. Len(list) : list[n] = items[k]

\* One round of Coalesce.
Once(list, x) == IF Contains(list, x) THEN list ELSE Append(list, x)

\* The recursive function of Coalesce.
Merger(items, more) ==
    CHOOSE list : list = [n \in 0 .. Len(more) |->
        IF n = 0 THEN items ELSE Once(list[n - 1], more[n])]

\* Coalesce by that function.
LEMMA CoalesceIsMerger ==
    ASSUME NEW items, NEW more
    PROVE  Coalesce(items, more) = Merger(items, more)[Len(more)]
  BY Zenon DEF Coalesce, Merger, Once

\* A round adds an item and keeps the others.
LEMMA OnceKeeps ==
    ASSUME NEW S, NEW list \in Seq(S), NEW x \in S
    PROVE  /\ Once(list, x) \in Seq(S)
           /\ HasItems(Once(list, x), <<x>>)
           /\ \A items : HasItems(list, items) => HasItems(Once(list, x), items)
<1>1. CASE Contains(list, x)
      BY <1>1 DEF Once, Contains, HasItems
<1>2. CASE ~Contains(list, x)
  <2>1. Once(list, x) = Append(list, x)
        BY <1>2 DEF Once
  <2>2. QED
        BY <2>1, AppendProperties DEF HasItems
<1>3. QED
      BY <1>1, <1>2

\* The recursion defines a function: it can be built step by step.
LEMMA MergerExists ==
    ASSUME NEW S, NEW items \in Seq(S), NEW more \in Seq(S)
    PROVE  Merger(items, more) = [n \in 0 .. Len(more) |->
               IF n = 0 THEN items ELSE Once(Merger(items, more)[n - 1], more[n])]
<1> DEFINE Built(f, n) == /\ f \in [0 .. n -> Seq(S)]
                          /\ f[0] = items
                          /\ \A k \in 1 .. n : f[k] = Once(f[k - 1], more[k])
           T == {n \in Nat : n =< Len(more) => \E f : Built(f, n)}
<1>1. 0 \in T
  <2>1. Built([n \in 0 .. 0 |-> items], 0)
        OBVIOUS
  <2> HIDE DEF Built
  <2>2. QED BY <2>1
<1>2. ASSUME NEW n \in Nat, n \in T
      PROVE  n + 1 \in T
  <2>1. SUFFICES ASSUME n + 1 =< Len(more)
                 PROVE  \E f : Built(f, n + 1)
    <3> HIDE DEF Built
    <3> QED OBVIOUS
  <2>2. PICK f : Built(f, n)
    <3> HIDE DEF Built
    <3> QED BY <1>2, <2>1
  <2> DEFINE g == [k \in 0 .. n + 1 |-> IF k =< n THEN f[k] ELSE Once(f[n], more[n + 1])]
  <2>3. Once(f[n], more[n + 1]) \in Seq(S)
    <3>1. n + 1 \in 1 .. Len(more)
          BY <2>1, LenProperties
    <3>2. more[n + 1] \in S
          BY <3>1, ElementOfSeq
    <3>3. f[n] \in Seq(S)
          BY <2>2
    <3>4. QED
          BY <3>2, <3>3, OnceKeeps
  <2>4. g \in [0 .. n + 1 -> Seq(S)]
        BY <2>2, <2>3
  <2>5. g[0] = items
        BY <2>2
  <2>6. ASSUME NEW k \in 1 .. n + 1
        PROVE  g[k] = Once(g[k - 1], more[k])
        BY <2>2, <2>6
  <2>7. Built(g, n + 1)
        BY <2>4, <2>5, <2>6
  <2> HIDE DEF Built
  <2>8. QED BY <2>7
<1>3. \E f : Built(f, Len(more))
  <2>1. Nat \subseteq T
    <3> HIDE DEF T
    <3> QED BY <1>1, <1>2, Climb
  <2> HIDE DEF Built
  <2>2. QED BY <2>1, LenProperties
<1>4. PICK f : Built(f, Len(more))
      BY <1>3
<1>5. f = [n \in 0 .. Len(more) |-> IF n = 0 THEN items ELSE Once(f[n - 1], more[n])]
      BY <1>4, LenProperties
<1>6. QED
      BY <1>5, Zenon DEF Merger

\* Coalesce has the items of both lists.
LEMMA Coalesced ==
    ASSUME NEW S, NEW items \in Seq(S), NEW more \in Seq(S)
    PROVE  /\ Coalesce(items, more) \in Seq(S)
           /\ HasItems(Coalesce(items, more), items)
           /\ HasItems(Coalesce(items, more), more)
<1> DEFINE f == Merger(items, more)
           Good(n) == /\ f[n] \in Seq(S)
                      /\ HasItems(f[n], items)
                      /\ \A k \in 1 .. n : \E j \in 1 .. Len(f[n]) : f[n][j] = more[k]
           T == {n \in Nat : n =< Len(more) => Good(n)}
<1>1. f = [n \in 0 .. Len(more) |-> IF n = 0 THEN items ELSE Once(f[n - 1], more[n])]
      BY MergerExists
<1> HIDE DEF f
<1>2. f[0] = items /\ \A n \in 1 .. Len(more) : f[n] = Once(f[n - 1], more[n])
      BY <1>1, LenProperties
<1>3. 0 \in T
      BY <1>2 DEF HasItems
<1>4. ASSUME NEW n \in Nat, n \in T
      PROVE  n + 1 \in T
  <2>1. SUFFICES ASSUME n + 1 =< Len(more)
                 PROVE  Good(n + 1)
        OBVIOUS
  <2>2. Good(n) /\ f[n + 1] = Once(f[n], more[n + 1]) /\ more[n + 1] \in S
        BY <1>2, <1>4, <2>1, ElementOfSeq
  <2>3. f[n + 1] \in Seq(S) /\ HasItems(f[n + 1], items)
        BY <2>2, OnceKeeps
  <2>4. ASSUME NEW k \in 1 .. n + 1
        PROVE  \E j \in 1 .. Len(f[n + 1]) : f[n + 1][j] = more[k]
    <3>1. CASE k = n + 1
      <4>1. HasItems(f[n + 1], <<more[n + 1]>>)
            BY <2>2, OnceKeeps
      <4>2. QED
            BY <3>1, <4>1 DEF HasItems
    <3>2. CASE k \in 1 .. n
      <4>1. HasItems(f[n], <<more[k]>>)
            BY <2>2, <3>2 DEF HasItems
      <4>2. HasItems(Once(f[n], more[n + 1]), <<more[k]>>)
        <5>1. f[n] \in Seq(S) /\ more[n + 1] \in S
              BY <2>2
        <5>2. \A ms : HasItems(f[n], ms) => HasItems(Once(f[n], more[n + 1]), ms)
              BY <5>1, OnceKeeps
        <5>3. QED
              BY <4>1, <5>2
      <4>3. QED
            BY <2>2, <4>2 DEF HasItems
    <3>3. QED
          BY <3>1, <3>2
  <2>5. QED
        BY <2>3, <2>4
<1>5. Nat \subseteq T
  <2> HIDE DEF T
  <2> QED BY <1>3, <1>4, Climb
<1>6. Good(Len(more))
  <2>1. Len(more) \in Nat
        BY LenProperties
  <2> HIDE DEF Good
  <2>2. QED
        BY <1>5, <2>1
<1>7. QED
      BY <1>6, CoalesceIsMerger DEF HasItems, f

-----------------------------------------------------------------------------
(* Checker batches: the invariant *)

\* What is asked for, and of what.
Methods == {q.method : q \in Queries} \cup Merging
Files == {q.file : q \in Queries}
\* Requests, and groups that will be requests.
RequestSet == [method : Methods, file : Files, items : Seq(Items)]
GroupSet == [file : Files, items : Seq(Items), routes : Seq(Nat)]

\* The types of the variables; only requests that were sent are refused.
BatchTypes ==
    /\ queries \in Seq(Queries)
    /\ groups \in [Merging -> Seq(GroupSet)]
    /\ requests \in Seq(RequestSet) /\ routes \in Seq(Seq(Nat))
    /\ Len(routes) = Len(requests)
    /\ refused \subseteq ToSet(requests)
    /\ phase \in {"planning", "planned", "answered", "failed", "resolved"}

\* A request for items of a file serves a query.
Serves(method, file, items, q) ==
    /\ q.items # <<>>
    /\ q.method = method /\ q.file = file
    /\ HasItems(items, q.items)
    /\ q.direct => q.items = items

\* A request serves the queries that its routes lead to.
RoutesFit ==
    \A n \in 1 .. Len(requests) : \A i \in ToSet(routes[n]) :
        /\ i \in 1 .. Len(queries)
        /\ Serves(requests[n].method, requests[n].file, requests[n].items, queries[i])

\* So will a group.
GroupsFit ==
    \A m \in Merging : \A n \in 1 .. Len(groups[m]) : \A i \in ToSet(groups[m][n].routes) :
        /\ i \in 1 .. Len(queries)
        /\ Serves(m, groups[m][n].file, groups[m][n].items, queries[i])

\* A method has one group for each file.
FilesApart ==
    \A m \in Merging : \A a, b \in 1 .. Len(groups[m]) :
        groups[m][a].file = groups[m][b].file => a = b

\* No request is a merged one before the groups are flushed.
Unflushed == phase = "planning" => \A n \in 1 .. Len(requests) : requests[n].method \notin Merging

\* A method that merges has one request for each file.
RequestsApart ==
    phase # "planning" => \A a, b \in 1 .. Len(requests) :
        /\ requests[a].method \in Merging
        /\ requests[a].method = requests[b].method
        /\ requests[a].file = requests[b].file
        => a = b

\* A query that a route leads to, and one in a group.
InRequests(i) == \E n \in 1 .. Len(requests) : i \in ToSet(routes[n])
InGroups(i) == \E m \in Merging : \E n \in 1 .. Len(groups[m]) : i \in ToSet(groups[m][n].routes)

\* Every query has its answer, a request or a group.
Placed ==
    \A i \in 1 .. Len(queries) :
        \/ queries[i].items = <<>> /\ i \in DOMAIN results
        \/ InRequests(i)
        \/ phase = "planning" /\ InGroups(i)

\* Before the responses are in, only queries for nothing have a result.
NothingYet ==
    phase # "resolved" => \A i \in DOMAIN results :
        i \in 1 .. Len(queries) /\ queries[i].items = <<>> /\ results[i] = <<>>

\* The invariant.
BatchInv ==
    /\ BatchTypes /\ RoutesFit /\ GroupsFit /\ FilesApart /\ Unflushed /\ RequestsApart
    /\ Placed /\ NothingYet /\ EachGetsItsOwn

-----------------------------------------------------------------------------
(* Checker batches: steps *)

\* A batch starts empty.
LEMMA BatchStarts == CheckerInit => BatchInv
<1> SUFFICES ASSUME CheckerInit PROVE BatchInv
    OBVIOUS
<1> USE DEF CheckerInit
<1>1. BatchTypes
      BY DEF BatchTypes, ToSet
<1>2. RoutesFit /\ GroupsFit /\ FilesApart /\ Unflushed /\ RequestsApart
      BY DEF RoutesFit, GroupsFit, FilesApart, Unflushed, RequestsApart
<1>3. Placed /\ NothingYet /\ EachGetsItsOwn
      BY DEF Placed, NothingYet, EachGetsItsOwn
<1>4. QED
      BY <1>1, <1>2, <1>3 DEF BatchInv

\* What a query asks for.
LEMMA QueryTyped ==
    ASSUME NEW q \in Queries
    PROVE  /\ q.items \in Seq(Items) /\ q.method \in Methods /\ q.file \in Files
           /\ q.direct \in BOOLEAN /\ (q.direct <=> q.method \notin Merging)
           /\ Request(q) \in RequestSet
<1>1. q.items \in Seq(Items) /\ q.direct \in BOOLEAN /\ (q.direct <=> q.method \notin Merging)
      BY CheckerAssumption
<1>2. q.method \in Methods /\ q.file \in Files
      BY DEF Methods, Files
<1>3. QED
      BY <1>1, <1>2 DEF Request, RequestSet

\* Planning adds a query at the end.
LEMMA Planned ==
    ASSUME NEW q \in Queries, Plan(q), BatchTypes
    PROVE  /\ phase = "planning" /\ phase' = "planning"
           /\ queries' \in Seq(Queries)
           /\ Len(queries) \in Nat
           /\ Len(queries') = Len(queries) + 1
           /\ 1 .. Len(queries') = (1 .. Len(queries)) \cup {Next1}
           /\ queries'[Next1] = q
           /\ \A i \in 1 .. Len(queries) : queries'[i] = queries[i]
           /\ UNCHANGED <<refused, unknown>>
<1>1. queries' = Append(queries, q) /\ queries \in Seq(Queries)
      BY DEF Plan, BatchTypes
<1>2. Len(queries) \in Nat
      BY <1>1, LenProperties
<1>3. /\ queries' \in Seq(Queries)
      /\ Len(queries') = Len(queries) + 1
      /\ queries'[Next1] = q
      /\ \A i \in 1 .. Len(queries) : queries'[i] = queries[i]
      BY <1>1, AppendProperties DEF Next1
<1>4. QED
      BY <1>2, <1>3 DEF Plan, Next1

\* A query that leaves requests and routes alone leaves them fitting.
LEMMA RoutesKept ==
    ASSUME BatchTypes, RoutesFit, Unflushed, NEW q \in Queries, Plan(q), UNCHANGED <<requests, routes>>
    PROVE  RoutesFit' /\ Unflushed' /\ RequestsApart' /\ EachGetsItsOwn'
<1>1. /\ phase = "planning" /\ phase' = "planning"
      /\ 1 .. Len(queries') = (1 .. Len(queries)) \cup {Next1}
      /\ \A i \in 1 .. Len(queries) : queries'[i] = queries[i]
      BY Planned
<1>2. ASSUME NEW n \in 1 .. Len(requests'), NEW i \in ToSet(routes'[n])
      PROVE  /\ i \in 1 .. Len(queries')
             /\ Serves(requests'[n].method, requests'[n].file, requests'[n].items, queries'[i])
  <2>1. /\ i \in 1 .. Len(queries)
        /\ Serves(requests[n].method, requests[n].file, requests[n].items, queries[i])
        BY <1>2 DEF RoutesFit
  <2>2. QED
        BY <2>1, <1>1
<1>3. RoutesFit'
      BY <1>2 DEF RoutesFit
<1>4. Unflushed' /\ RequestsApart' /\ EachGetsItsOwn'
      BY <1>1 DEF Unflushed, RequestsApart, EachGetsItsOwn
<1>5. QED
      BY <1>3, <1>4

\* A query that leaves the groups alone leaves them fitting.
LEMMA GroupsKept ==
    ASSUME BatchTypes, GroupsFit, FilesApart, NEW q \in Queries, Plan(q), UNCHANGED groups
    PROVE  GroupsFit' /\ FilesApart'
<1>1. /\ 1 .. Len(queries') = (1 .. Len(queries)) \cup {Next1}
      /\ \A i \in 1 .. Len(queries) : queries'[i] = queries[i]
      BY Planned
<1>2. ASSUME NEW m \in Merging, NEW n \in 1 .. Len(groups'[m]), NEW i \in ToSet(groups'[m][n].routes)
      PROVE  /\ i \in 1 .. Len(queries')
             /\ Serves(m, groups'[m][n].file, groups'[m][n].items, queries'[i])
  <2>1. /\ i \in 1 .. Len(queries)
        /\ Serves(m, groups[m][n].file, groups[m][n].items, queries[i])
        BY <1>2 DEF GroupsFit
  <2>2. QED
        BY <2>1, <1>1
<1>3. GroupsFit'
      BY <1>2 DEF GroupsFit
<1>4. FilesApart'
      BY DEF FilesApart
<1>5. QED
      BY <1>3, <1>4

\* A query that has its place, while the others keep theirs.
LEMMA StaysPlaced ==
    ASSUME BatchTypes, Placed, NEW q \in Queries, Plan(q),
           DOMAIN results \subseteq DOMAIN results',
           \A i \in 1 .. Len(queries) : InRequests(i) => InRequests(i)',
           \A i \in 1 .. Len(queries) : InGroups(i) => InGroups(i)',
           \/ q.items = <<>> /\ Next1 \in DOMAIN results'
           \/ \E n \in 1 .. Len(requests') : Next1 \in ToSet(routes'[n])
           \/ \E m \in Merging : \E n \in 1 .. Len(groups'[m]) : Next1 \in ToSet(groups'[m][n].routes)
    PROVE  Placed'
<1>1. /\ phase = "planning" /\ phase' = "planning"
      /\ 1 .. Len(queries') = (1 .. Len(queries)) \cup {Next1}
      /\ queries'[Next1] = q
      /\ \A i \in 1 .. Len(queries) : queries'[i] = queries[i]
      BY Planned
<1>2. SUFFICES ASSUME NEW i \in 1 .. Len(queries')
               PROVE  \/ queries'[i].items = <<>> /\ i \in DOMAIN results'
                      \/ InRequests(i)'
                      \/ InGroups(i)'
      BY <1>1 DEF Placed
<1>3. CASE i = Next1
      BY <1>3, <1>1 DEF InRequests, InGroups
<1>4. CASE i \in 1 .. Len(queries)
  <2>1. \/ queries[i].items = <<>> /\ i \in DOMAIN results
        \/ InRequests(i)
        \/ InGroups(i)
        BY <1>4 DEF Placed
  <2>2. QED
        BY <1>1, <1>4, <2>1
<1>5. QED
      BY <1>1, <1>3, <1>4

\* A query for nothing gets the empty list.
LEMMA AddEmptyStep ==
    ASSUME BatchInv, NEW q \in Queries, AddEmpty(q)
    PROVE  BatchInv'
<1> USE DEF BatchInv
<1>1. Plan(q) /\ q.items = <<>> /\ UNCHANGED <<groups, requests, routes>>
      BY DEF AddEmpty
<1>2. /\ phase = "planning" /\ phase' = "planning"
      /\ queries' \in Seq(Queries)
      /\ 1 .. Len(queries') = (1 .. Len(queries)) \cup {Next1}
      /\ queries'[Next1] = q
      /\ \A i \in 1 .. Len(queries) : queries'[i] = queries[i]
      /\ UNCHANGED <<refused, unknown>>
      BY <1>1, Planned
<1>3. BatchTypes'
      BY <1>1, <1>2 DEF BatchTypes
<1>4. RoutesFit' /\ Unflushed' /\ RequestsApart' /\ EachGetsItsOwn'
      BY <1>1, RoutesKept
<1>5. GroupsFit' /\ FilesApart'
      BY <1>1, GroupsKept
<1>6. /\ DOMAIN results' = DOMAIN results \cup {Next1}
      /\ \A i \in DOMAIN results' : results'[i] = IF i \in DOMAIN results THEN results[i] ELSE <<>>
      BY DEF AddEmpty
<1>7. \A i : InRequests(i)' = InRequests(i) /\ InGroups(i)' = InGroups(i)
      BY <1>1 DEF InRequests, InGroups
<1>8. Placed'
      BY <1>1, <1>6, <1>7, StaysPlaced
<1>9. NothingYet'
      BY <1>1, <1>2, <1>6 DEF NothingYet
<1>10. QED
      BY <1>3, <1>4, <1>5, <1>8, <1>9

\* The elements of a sequence with one more.
LEMMA ToSetAppend ==
    ASSUME NEW S, NEW s \in Seq(S), NEW x \in S
    PROVE  ToSet(Append(s, x)) = ToSet(s) \cup {x}
<1>1. /\ Append(s, x) \in Seq(S) /\ Len(Append(s, x)) = Len(s) + 1
      /\ \A i \in 1 .. Len(s) : Append(s, x)[i] = s[i]
      /\ Append(s, x)[Len(s) + 1] = x
      BY AppendProperties
<1>2. DOMAIN s = 1 .. Len(s) /\ DOMAIN Append(s, x) = 1 .. Len(s) + 1 /\ Len(s) \in Nat
      BY <1>1, LenProperties
<1>3. 1 .. Len(s) + 1 = (1 .. Len(s)) \cup {Len(s) + 1}
      BY <1>2
<1>4. QED
      BY <1>1, <1>2, <1>3, ZenonT(40) DEF ToSet

\* The first element that equals x, and the first group of a file.
PlaceOf(s, x) == SelectInSeq(s, LAMBDA y : y = x)
FileAt(s, x) == SelectInSeq(s, LAMBDA g : g.file = x)

\* PlaceOf finds an equal element if there is one.
LEMMA FirstEqual ==
    ASSUME NEW s, Len(s) \in Nat, NEW x
    PROVE  /\ PlaceOf(s, x) = 0 \/ (PlaceOf(s, x) \in 1 .. Len(s) /\ s[PlaceOf(s, x)] = x)
           /\ (\E k \in 1 .. Len(s) : s[k] = x) => PlaceOf(s, x) # 0
<1> DEFINE I == {i \in 1 .. Len(s) : s[i] = x}
<1>1. I = {} \/ Min(I) \in I
  <2>1. I \subseteq Nat
        OBVIOUS
  <2> HIDE DEF I
  <2>2. QED BY <2>1, LeastIsMin
<1>2. PlaceOf(s, x) = IF I # {} THEN Min(I) ELSE 0
      BY Zenon DEF PlaceOf, SelectInSeq
<1>3. QED
      BY <1>1, <1>2

\* FileAt finds the group of a file if there is one.
LEMMA FirstOfFile ==
    ASSUME NEW s, Len(s) \in Nat, NEW x
    PROVE  /\ FileAt(s, x) = 0 \/ (FileAt(s, x) \in 1 .. Len(s) /\ s[FileAt(s, x)].file = x)
           /\ (\E k \in 1 .. Len(s) : s[k].file = x) => FileAt(s, x) # 0
<1> DEFINE I == {i \in 1 .. Len(s) : s[i].file = x}
<1>1. I = {} \/ Min(I) \in I
  <2>1. I \subseteq Nat
        OBVIOUS
  <2> HIDE DEF I
  <2>2. QED BY <2>1, LeastIsMin
<1>2. FileAt(s, x) = IF I # {} THEN Min(I) ELSE 0
      BY Zenon DEF FileAt, SelectInSeq
<1>3. QED
      BY <1>1, <1>2

\* A list that grows still has every item.
LEMMA CoversTransitive ==
    ASSUME NEW a, NEW b, NEW c, HasItems(a, b), HasItems(b, c)
    PROVE  HasItems(a, c)
  BY DEF HasItems

\* A direct query joins the equal request, or makes one.
LEMMA AddDirectStep ==
    ASSUME BatchInv, NEW q \in Queries, AddDirect(q)
    PROVE  BatchInv'
<1> DEFINE at == PlaceOf(requests, Request(q))
<1> USE DEF BatchInv
<1>1. Plan(q) /\ q.direct /\ q.items # <<>> /\ UNCHANGED <<groups, results>>
      BY DEF AddDirect
<1>2. /\ phase = "planning" /\ phase' = "planning"
      /\ queries' \in Seq(Queries)
      /\ 1 .. Len(queries') = (1 .. Len(queries)) \cup {Next1}
      /\ queries'[Next1] = q
      /\ \A i \in 1 .. Len(queries) : queries'[i] = queries[i]
      /\ UNCHANGED <<refused, unknown>>
      /\ Next1 \in Nat
      BY <1>1, Planned DEF Next1
<1>3. /\ requests \in Seq(RequestSet) /\ routes \in Seq(Seq(Nat)) /\ Len(routes) = Len(requests)
      /\ Len(requests) \in Nat
      /\ Request(q) \in RequestSet
      BY QueryTyped, LenProperties DEF BatchTypes
<1>4. at = 0 \/ (at \in 1 .. Len(requests) /\ requests[at] = Request(q))
      BY <1>3, FirstEqual
<1>5. \/ at # 0 /\ routes' = [routes EXCEPT ![at] = Append(@, Next1)] /\ UNCHANGED requests
      \/ requests' = Append(requests, Request(q)) /\ routes' = Append(routes, <<Next1>>)
      BY Zenon DEF AddDirect, PlaceOf
<1> HIDE DEF at
<1> DEFINE Known(n) == n \in 1 .. Len(requests) /\ requests'[n] = requests[n]
           Origin == \A n \in 1 .. Len(requests') :
                         /\ Known(n) \/ requests'[n] = Request(q)
                         /\ \A i \in ToSet(routes'[n]) :
                                \/ Known(n) /\ i \in ToSet(routes[n])
                                \/ i = Next1 /\ requests'[n] = Request(q)
           Keeps == \A n \in 1 .. Len(requests) :
                         /\ n \in 1 .. Len(requests') /\ requests'[n] = requests[n]
                         /\ ToSet(routes[n]) \subseteq ToSet(routes'[n])
           Served == \E n \in 1 .. Len(requests') : Next1 \in ToSet(routes'[n])
           Typed == /\ requests' \in Seq(RequestSet) /\ routes' \in Seq(Seq(Nat))
                    /\ Len(routes') = Len(requests')
<1>6. ASSUME at # 0, routes' = [routes EXCEPT ![at] = Append(@, Next1)], UNCHANGED requests
      PROVE  Typed /\ Origin /\ Keeps /\ Served
  <2>1. at \in 1 .. Len(routes) /\ at \in 1 .. Len(requests) /\ requests[at] = Request(q)
        BY <1>3, <1>4, <1>6
  <2>2. routes[at] \in Seq(Nat) /\ routes \in [1 .. Len(routes) -> Seq(Nat)]
        BY <2>1, <1>3, LenProperties
  <2>3. Append(routes[at], Next1) \in Seq(Nat) /\ ToSet(Append(routes[at], Next1)) = ToSet(routes[at]) \cup {Next1}
    <3>1. Next1 \in Nat /\ routes[at] \in Seq(Nat)
          BY <2>2, <1>2
    <3>2. QED
          BY <3>1, ToSetAppend, AppendProperties
  <2>4. routes' \in Seq(Seq(Nat)) /\ Len(routes') = Len(routes)
        BY <2>1, <2>3, <1>3, <1>6, ExceptSeq
  <2>5. /\ routes'[at] = Append(routes[at], Next1)
        /\ \A n \in 1 .. Len(routes) : n # at => routes'[n] = routes[n]
        BY <2>1, <2>2, <1>6
  <2>6. \A n \in 1 .. Len(requests) :
            ToSet(routes'[n]) = ToSet(routes[n]) \cup (IF n = at THEN {Next1} ELSE {})
        BY <2>3, <2>5, <1>3
  <2>7. Origin
        BY <2>1, <2>6, <1>6
  <2>8. Keeps /\ Served
        BY <2>1, <2>6, <1>6
  <2>9. Typed
        BY <2>4, <1>3, <1>6
  <2>10. QED
        BY <2>7, <2>8, <2>9
<1>7. ASSUME requests' = Append(requests, Request(q)), routes' = Append(routes, <<Next1>>)
      PROVE  Typed /\ Origin /\ Keeps /\ Served
  <2>1. /\ requests' \in Seq(RequestSet) /\ Len(requests') = Len(requests) + 1
        /\ requests'[Len(requests) + 1] = Request(q)
        /\ \A n \in 1 .. Len(requests) : requests'[n] = requests[n]
        BY <1>3, <1>7, AppendProperties
  <2>2. /\ <<Next1>> \in Seq(Nat) /\ ToSet(<<Next1>>) = {Next1}
        BY <1>2 DEF ToSet
  <2>3. /\ routes' \in Seq(Seq(Nat)) /\ Len(routes') = Len(routes) + 1
        /\ routes'[Len(routes) + 1] = <<Next1>>
        /\ \A n \in 1 .. Len(routes) : routes'[n] = routes[n]
        BY <2>2, <1>3, <1>7, AppendProperties
  <2>4. 1 .. Len(requests') = (1 .. Len(requests)) \cup {Len(requests) + 1}
        BY <2>1, <1>3
  <2>5. Origin
    <3>1. ASSUME NEW n \in 1 .. Len(requests)
          PROVE  Known(n) /\ routes'[n] = routes[n]
          BY <2>1, <2>3, <1>3
    <3>2. ASSUME NEW n, n = Len(requests) + 1
          PROVE  requests'[n] = Request(q) /\ ToSet(routes'[n]) = {Next1}
          BY <3>2, <2>1, <2>2, <2>3, <1>3
    <3>3. QED
          BY <3>1, <3>2, <2>4
  <2>6. Keeps /\ Served
        BY <2>1, <2>2, <2>3, <2>4, <1>3
  <2>7. QED
        BY <2>1, <2>3, <2>5, <2>6, <1>3
<1>8. Origin /\ Keeps /\ Served /\ Typed
      BY <1>5, <1>6, <1>7
<1>9. BatchTypes'
  <2>1. ToSet(requests) \subseteq ToSet(requests')
    <3>1. DOMAIN requests = 1 .. Len(requests) /\ DOMAIN requests' = 1 .. Len(requests')
          BY <1>3, <1>8, LenProperties
    <3>2. QED
          BY <3>1, <1>8 DEF ToSet
  <2>2. QED
        BY <2>1, <1>1, <1>2, <1>8 DEF BatchTypes
<1>10. RoutesFit'
  <2>1. SUFFICES ASSUME NEW n \in 1 .. Len(requests'), NEW i \in ToSet(routes'[n])
                 PROVE  /\ i \in 1 .. Len(queries')
                        /\ Serves(requests'[n].method, requests'[n].file, requests'[n].items, queries'[i])
        BY DEF RoutesFit
  <2>2. CASE Known(n) /\ i \in ToSet(routes[n])
    <3>1. /\ i \in 1 .. Len(queries)
          /\ Serves(requests[n].method, requests[n].file, requests[n].items, queries[i])
          BY <2>2 DEF RoutesFit
    <3>2. QED
          BY <3>1, <2>2, <1>2
  <2>3. CASE i = Next1 /\ requests'[n] = Request(q)
    <3>1. HasItems(q.items, q.items)
          BY DEF HasItems
    <3>2. Serves(q.method, q.file, q.items, q)
          BY <3>1, <1>1 DEF Serves
    <3>3. /\ requests'[n].method = q.method /\ requests'[n].file = q.file
          /\ requests'[n].items = q.items
          BY <2>3 DEF Request
    <3>4. QED
          BY <3>2, <3>3, <2>3, <1>2
  <2>4. QED
        BY <2>2, <2>3, <1>8
<1>11. GroupsFit' /\ FilesApart'
      BY <1>1, GroupsKept
<1>12. Unflushed'
  <2>1. q.method \notin Merging
        BY <1>1, QueryTyped
  <2>2. QED
    <3>1. \A n \in 1 .. Len(requests) : requests[n].method \notin Merging
          BY <1>2 DEF Unflushed
    <3>2. Request(q).method = q.method
          BY DEF Request
    <3>3. QED
          BY <3>1, <3>2, <2>1, <1>8 DEF Unflushed
<1>13. RequestsApart' /\ EachGetsItsOwn' /\ NothingYet'
  <2>1. NothingYet'
        BY <1>1, <1>2 DEF NothingYet
  <2>2. QED
        BY <2>1, <1>2 DEF RequestsApart, EachGetsItsOwn
<1>14. Placed'
  <2>1. \A i : InRequests(i) => InRequests(i)'
        BY <1>8 DEF InRequests
  <2>2. \A i : InGroups(i) => InGroups(i)'
        BY <1>1 DEF InGroups
  <2>3. QED
        BY <2>1, <2>2, <1>1, <1>8, StaysPlaced
<1>15. QED
      BY <1>9, <1>10, <1>11, <1>12, <1>13, <1>14

\* A merged query joins the group of its file, which then asks for its items too.
LEMMA AddToGroupStep ==
    ASSUME BatchInv, NEW q \in Queries, AddToGroup(q)
    PROVE  BatchInv'
<1> DEFINE list == groups[q.method]
           at == FileAt(list, q.file)
           more == [file |-> q.file, items |-> Coalesce(list[at].items, q.items),
                    routes |-> Append(list[at].routes, Next1)]
           new == [file |-> q.file, items |-> Coalesce(<<>>, q.items), routes |-> <<Next1>>]
           list2 == groups'[q.method]
<1> USE DEF BatchInv
<1>1. Plan(q) /\ ~q.direct /\ q.items # <<>> /\ UNCHANGED <<requests, routes, results>>
      BY DEF AddToGroup
<1>2. /\ phase = "planning" /\ phase' = "planning"
      /\ queries \in Seq(Queries) /\ queries' \in Seq(Queries)
      /\ 1 .. Len(queries') = (1 .. Len(queries)) \cup {Next1}
      /\ queries'[Next1] = q
      /\ \A i \in 1 .. Len(queries) : queries'[i] = queries[i]
      /\ UNCHANGED <<refused, unknown>>
      /\ Next1 \in Nat
      BY <1>1, Planned DEF Next1, BatchTypes
<1>3. /\ q.method \in Merging /\ q.file \in Files /\ q.items \in Seq(Items)
      /\ list \in Seq(GroupSet) /\ Len(list) \in Nat
  <2>1. q.method \in Merging /\ q.file \in Files /\ q.items \in Seq(Items)
        BY <1>1, QueryTyped
  <2>2. list \in Seq(GroupSet)
        BY <2>1 DEF BatchTypes
  <2>3. QED
        BY <2>1, <2>2, LenProperties
<1>4. at = 0 \/ (at \in 1 .. Len(list) /\ list[at].file = q.file)
  <2> HIDE DEF list
  <2> QED BY <1>3, FirstOfFile
<1>5. at = 0 => \A k \in 1 .. Len(list) : list[k].file # q.file
  <2> HIDE DEF list
  <2> QED BY <1>3, FirstOfFile
<1>6. groups' = [groups EXCEPT ![q.method] =
                    IF at # 0 THEN [list EXCEPT ![at] = more] ELSE Append(list, new)]
      BY Zenon DEF AddToGroup, FileAt
<1>7. /\ groups \in [Merging -> Seq(GroupSet)]
      /\ list2 = (IF at # 0 THEN [list EXCEPT ![at] = more] ELSE Append(list, new))
      /\ \A m \in Merging : m # q.method => groups'[m] = groups[m]
      /\ groups' = [groups EXCEPT ![q.method] = list2]
  <2> HIDE DEF at, more, new
  <2> QED BY <1>3, <1>6 DEF BatchTypes
<1> HIDE DEF at, list
<1> DEFINE Known(n) == /\ n \in 1 .. Len(list) /\ list2[n].file = list[n].file
                       /\ HasItems(list2[n].items, list[n].items)
           Mine(n) == list2[n].file = q.file /\ HasItems(list2[n].items, q.items)
           Origin == \A n \in 1 .. Len(list2) : \A i \in ToSet(list2[n].routes) :
                         \/ Known(n) /\ i \in ToSet(list[n].routes)
                         \/ i = Next1 /\ Mine(n)
           Keeps == \A n \in 1 .. Len(list) :
                         /\ n \in 1 .. Len(list2)
                         /\ ToSet(list[n].routes) \subseteq ToSet(list2[n].routes)
           Served == \E n \in 1 .. Len(list2) : Next1 \in ToSet(list2[n].routes)
           Apart == \A a, b \in 1 .. Len(list2) : list2[a].file = list2[b].file => a = b
           Typed == list2 \in Seq(GroupSet)
<1>8. \A a, b \in 1 .. Len(list) : list[a].file = list[b].file => a = b
      BY <1>3 DEF FilesApart, list
<1>9. ASSUME at # 0
      PROVE  Typed /\ Origin /\ Keeps /\ Served /\ Apart
  <2>1. /\ at \in 1 .. Len(list) /\ list[at].file = q.file
        /\ list2 = [list EXCEPT ![at] = more]
        BY <1>4, <1>7, <1>9
  <2>2. list[at] \in GroupSet
        BY <2>1, <1>3, ElementOfSeq
  <2>3. list[at].items \in Seq(Items) /\ list[at].routes \in Seq(Nat)
        BY <2>2 DEF GroupSet
  <2>4. /\ Coalesce(list[at].items, q.items) \in Seq(Items)
        /\ HasItems(Coalesce(list[at].items, q.items), list[at].items)
        /\ HasItems(Coalesce(list[at].items, q.items), q.items)
        BY <2>3, <1>3, Coalesced
  <2>5. /\ Append(list[at].routes, Next1) \in Seq(Nat)
        /\ ToSet(Append(list[at].routes, Next1)) = ToSet(list[at].routes) \cup {Next1}
    <3>1. Next1 \in Nat /\ list[at].routes \in Seq(Nat)
          BY <2>3, <1>2
    <3>2. QED
          BY <3>1, ToSetAppend, AppendProperties
  <2>6. more \in GroupSet
        BY <2>4, <2>5, <1>3 DEF GroupSet
  <2>7. /\ more.file = list[at].file /\ more.file = q.file
        /\ HasItems(more.items, list[at].items) /\ HasItems(more.items, q.items)
        /\ ToSet(more.routes) = ToSet(list[at].routes) \cup {Next1}
        BY <2>1, <2>4, <2>5
  <2> HIDE DEF more
  <2>8. list2 \in Seq(GroupSet) /\ Len(list2) = Len(list)
        BY <2>1, <2>6, <1>3, ExceptSeq
  <2>9. list \in [1 .. Len(list) -> GroupSet]
        BY <1>3, LenProperties
  <2>10. list2[at] = more /\ \A n \in 1 .. Len(list) : n # at => list2[n] = list[n]
        BY <2>1, <2>9
  <2>11. \A n \in 1 .. Len(list) : HasItems(list[n].items, list[n].items)
        BY DEF HasItems
  <2>12. Typed /\ Keeps /\ Served
    <3> HIDE DEF list2
    <3> QED BY <2>1, <2>7, <2>8, <2>10
  <2>13. Origin
    <3> HIDE DEF list2
    <3> QED BY <2>1, <2>7, <2>8, <2>10, <2>11
  <2>14. Apart
    <3> HIDE DEF list2
    <3> QED BY <2>1, <2>7, <2>8, <2>10, <1>8
  <2>15. QED
        BY <2>12, <2>13, <2>14
<1>10. ASSUME at = 0
       PROVE  Typed /\ Origin /\ Keeps /\ Served /\ Apart
  <2>1. /\ list2 = Append(list, new)
        /\ \A k \in 1 .. Len(list) : list[k].file # q.file
    <3> HIDE DEF new, more
    <3> QED BY <1>5, <1>7, <1>10
  <2>2. Coalesce(<<>>, q.items) \in Seq(Items) /\ HasItems(Coalesce(<<>>, q.items), q.items)
    <3>1. <<>> \in Seq(Items)
          OBVIOUS
    <3>2. QED
          BY <3>1, <1>3, Coalesced
  <2>3. <<Next1>> \in Seq(Nat) /\ ToSet(<<Next1>>) = {Next1}
        BY <1>2 DEF ToSet
  <2>4. new \in GroupSet
        BY <2>2, <2>3, <1>3 DEF GroupSet
  <2>5. new.file = q.file /\ HasItems(new.items, q.items) /\ ToSet(new.routes) = {Next1}
        BY <2>2, <2>3
  <2> HIDE DEF new
  <2>6. /\ list2 \in Seq(GroupSet) /\ Len(list2) = Len(list) + 1
        /\ list2[Len(list) + 1] = new
        /\ \A n \in 1 .. Len(list) : list2[n] = list[n]
        BY <2>1, <2>4, <1>3, AppendProperties
  <2>7. 1 .. Len(list2) = (1 .. Len(list)) \cup {Len(list) + 1}
    <3> HIDE DEF list2
    <3> QED BY <2>6, <1>3
  <2>8. \A n \in 1 .. Len(list) : HasItems(list[n].items, list[n].items)
        BY DEF HasItems
  <2>9. Typed /\ Keeps /\ Served
    <3> HIDE DEF list2
    <3> QED BY <2>5, <2>6, <2>7
  <2>10. Origin
    <3>1. ASSUME NEW n \in 1 .. Len(list)
          PROVE  Known(n) /\ list2[n].routes = list[n].routes
          BY <2>6, <2>8
    <3>2. ASSUME NEW n, n = Len(list) + 1
          PROVE  Mine(n) /\ ToSet(list2[n].routes) = {Next1}
          BY <3>2, <2>5, <2>6
    <3> HIDE DEF list2, Known, Mine
    <3>3. QED
          BY <3>1, <3>2, <2>7
  <2>11. Apart
    <3> HIDE DEF list2
    <3> QED BY <2>1, <2>5, <2>6, <2>7, <1>8
  <2>12. QED
        BY <2>9, <2>10, <2>11
<1>11. Typed /\ Origin /\ Keeps /\ Served /\ Apart
      BY <1>9, <1>10
<1>12. BatchTypes'
      BY <1>1, <1>2, <1>7, <1>11 DEF BatchTypes
<1>13. RoutesFit' /\ Unflushed' /\ RequestsApart' /\ EachGetsItsOwn'
      BY <1>1, RoutesKept
<1>14. GroupsFit'
  <2>1. ASSUME NEW m \in Merging, NEW n \in 1 .. Len(groups'[m]), NEW i \in ToSet(groups'[m][n].routes),
               m # q.method
        PROVE  /\ i \in 1 .. Len(queries')
               /\ Serves(m, groups'[m][n].file, groups'[m][n].items, queries'[i])
    <3>1. groups'[m] = groups[m]
          BY <2>1, <1>7
    <3>2. /\ i \in 1 .. Len(queries)
          /\ Serves(m, groups[m][n].file, groups[m][n].items, queries[i])
          BY <2>1, <3>1 DEF GroupsFit
    <3>3. QED
          BY <3>1, <3>2, <1>2
  <2>2. ASSUME NEW n \in 1 .. Len(list2), NEW i \in ToSet(list2[n].routes)
        PROVE  /\ i \in 1 .. Len(queries')
               /\ Serves(q.method, list2[n].file, list2[n].items, queries'[i])
    <3>1. CASE Known(n) /\ i \in ToSet(list[n].routes)
      <4>1. /\ i \in 1 .. Len(queries)
            /\ Serves(q.method, list[n].file, list[n].items, queries[i])
            BY <3>1, <1>3 DEF GroupsFit, list
      <4>2. queries[i] \in Queries
            BY <4>1, <1>2, ElementOfSeq
      <4>3. ~queries[i].direct
            BY <4>1, <4>2, <1>3, QueryTyped DEF Serves
      <4>4. HasItems(list2[n].items, queries[i].items)
            BY <4>1, <3>1, CoversTransitive DEF Serves
      <4>5. Serves(q.method, list2[n].file, list2[n].items, queries[i])
            BY <4>1, <4>3, <4>4, <3>1 DEF Serves
      <4>6. QED
            BY <4>1, <4>5, <1>2
    <3>2. CASE i = Next1 /\ Mine(n)
          BY <3>2, <1>1, <1>2 DEF Serves
    <3>3. QED
          BY <3>1, <3>2, <1>11, <2>2
  <2>3. QED
        BY <2>1, <2>2 DEF GroupsFit
<1>15. FilesApart'
  <2>1. ASSUME NEW m \in Merging, m # q.method, NEW a \in 1 .. Len(groups'[m]),
               NEW b \in 1 .. Len(groups'[m]), groups'[m][a].file = groups'[m][b].file
        PROVE  a = b
        BY <2>1, <1>7 DEF FilesApart
  <2>2. QED
        BY <2>1, <1>11 DEF FilesApart
<1>16. Placed'
  <2>1. \A i : InRequests(i) => InRequests(i)'
        BY <1>1 DEF InRequests
  <2>2. ASSUME NEW i, InGroups(i)
        PROVE  InGroups(i)'
    <3>1. PICK m \in Merging : \E n \in 1 .. Len(groups[m]) : i \in ToSet(groups[m][n].routes)
          BY <2>2 DEF InGroups
    <3>2. CASE m = q.method
          BY <3>1, <3>2, <1>3, <1>11 DEF InGroups, list
    <3>3. CASE m # q.method
          BY <3>1, <3>3, <1>7 DEF InGroups
    <3>4. QED
          BY <3>2, <3>3
  <2>3. QED
        BY <2>1, <2>2, <1>1, <1>3, <1>11, StaysPlaced
<1>17. NothingYet'
      BY <1>1, <1>2 DEF NothingYet
<1>18. QED
      BY <1>12, <1>13, <1>14, <1>15, <1>16, <1>17

\* Four sequences, one after the other.
InARow(all, s, a, b, c) ==
    /\ Len(all) = Len(s) + Len(a) + Len(b) + Len(c)
    /\ \A n \in 1 .. Len(s) : all[n] = s[n]
    /\ \A n \in 1 .. Len(a) : all[Len(s) + n] = a[n]
    /\ \A n \in 1 .. Len(b) : all[Len(s) + Len(a) + n] = b[n]
    /\ \A n \in 1 .. Len(c) : all[Len(s) + Len(a) + Len(b) + n] = c[n]

\* Two sequences, one after the other.
Two(all, s, a) ==
    /\ Len(all) = Len(s) + Len(a)
    /\ \A n \in 1 .. Len(s) : all[n] = s[n]
    /\ \A n \in 1 .. Len(a) : all[Len(s) + n] = a[n]

\* What a concatenation is.
LEMMA TwoJoined ==
    ASSUME NEW S, NEW s \in Seq(S), NEW a \in Seq(S)
    PROVE  s \o a \in Seq(S) /\ Two(s \o a, s, a)
<1> DEFINE all == s \o a
<1>1. Len(s) \in Nat /\ Len(a) \in Nat
      BY LenProperties
<1>2. /\ all \in Seq(S) /\ Len(all) = Len(s) + Len(a)
      /\ \A i \in 1 .. Len(s) + Len(a) : all[i] = IF i =< Len(s) THEN s[i] ELSE a[i - Len(s)]
      BY ConcatProperties
<1> HIDE DEF all
<1>3. ASSUME NEW n \in 1 .. Len(s) PROVE all[n] = s[n]
      BY <1>1, <1>2
<1>4. ASSUME NEW n \in 1 .. Len(a) PROVE all[Len(s) + n] = a[n]
  <2>1. Len(s) + n \in 1 .. Len(s) + Len(a) /\ ~(Len(s) + n =< Len(s)) /\ (Len(s) + n) - Len(s) = n
        BY <1>1
  <2>2. QED
        BY <2>1, <1>2
<1>5. QED
      BY <1>2, <1>3, <1>4 DEF Two, all

\* What a concatenation of four is.
LEMMA Joined ==
    ASSUME NEW S, NEW s \in Seq(S), NEW a \in Seq(S), NEW b \in Seq(S), NEW c \in Seq(S)
    PROVE  s \o a \o b \o c \in Seq(S) /\ InARow(s \o a \o b \o c, s, a, b, c)
<1> DEFINE sa == s \o a
           sab == sa \o b
           all == sab \o c
           R == Len(s)
           A == Len(a)
           B == Len(b)
           C == Len(c)
<1>1. R \in Nat /\ A \in Nat /\ B \in Nat /\ C \in Nat
      BY LenProperties
<1>2. sa \in Seq(S) /\ Two(sa, s, a)
      BY TwoJoined
<1> HIDE DEF sa
<1>3. sab \in Seq(S) /\ Two(sab, sa, b)
      BY <1>2, TwoJoined
<1> HIDE DEF sab
<1>4. all \in Seq(S) /\ Two(all, sab, c)
      BY <1>3, TwoJoined
<1> HIDE DEF all
<1>5. /\ Len(sa) = R + A
      /\ \A n \in 1 .. R : sa[n] = s[n]
      /\ \A n \in 1 .. A : sa[R + n] = a[n]
      BY <1>2 DEF Two
<1>6. /\ Len(sab) = R + A + B
      /\ \A n \in 1 .. R + A : sab[n] = sa[n]
      /\ \A n \in 1 .. B : sab[R + A + n] = b[n]
      BY <1>3, <1>5 DEF Two
<1>7. /\ Len(all) = R + A + B + C
      /\ \A n \in 1 .. R + A + B : all[n] = sab[n]
      /\ \A n \in 1 .. C : all[R + A + B + n] = c[n]
      BY <1>4, <1>6 DEF Two
<1>8. InARow(all, s, a, b, c)
  <2>1. ASSUME NEW n \in 1 .. R PROVE all[n] = s[n]
    <3>1. n \in 1 .. R + A /\ n \in 1 .. R + A + B
      <4> HIDE DEF R, A, B
      <4> QED BY <1>1
    <3>2. QED
          BY <3>1, <1>5, <1>6, <1>7
  <2>2. ASSUME NEW n \in 1 .. A PROVE all[R + n] = a[n]
    <3>1. R + n \in 1 .. R + A /\ R + n \in 1 .. R + A + B
      <4> HIDE DEF R, A, B
      <4> QED BY <1>1
    <3>2. QED
          BY <3>1, <1>5, <1>6, <1>7
  <2>3. ASSUME NEW n \in 1 .. B PROVE all[R + A + n] = b[n]
    <3>1. R + A + n \in 1 .. R + A + B
      <4> HIDE DEF R, A, B
      <4> QED BY <1>1
    <3>2. QED
          BY <3>1, <1>6, <1>7
  <2>4. QED
        BY <2>1, <2>2, <2>3, <1>7 DEF InARow
<1>9. QED
      BY <1>4, <1>8 DEF all, sab, sa

\* Where the requests of a method begin when all are flushed.
Offset(m) ==
    IF m = "getTypesAtPositions" THEN Len(requests)
    ELSE IF m = "getSymbolsAtPositions" THEN Len(requests) + Len(groups["getTypesAtPositions"])
    ELSE Len(requests) + Len(groups["getTypesAtPositions"]) + Len(groups["getSymbolsAtPositions"])

\* The request that a group becomes.
Flushed(m, n) == [method |-> m, file |-> groups[m][n].file, items |-> groups[m][n].items]

\* The groups follow the requests, method by method, each with its routes.
LEMMA FlushedRequests ==
    ASSUME BatchTypes, Flush
    PROVE  /\ requests' \in Seq(RequestSet) /\ routes' \in Seq(Seq(Nat))
           /\ Len(routes') = Len(requests')
           /\ \A n \in 1 .. Len(requests) :
                  n \in 1 .. Len(requests') /\ requests'[n] = requests[n] /\ routes'[n] = routes[n]
           /\ \A m \in Merging : \A k \in 1 .. Len(groups[m]) :
                  /\ Offset(m) + k \in 1 .. Len(requests')
                  /\ requests'[Offset(m) + k] = Flushed(m, k)
                  /\ routes'[Offset(m) + k] = groups[m][k].routes
           /\ \A n \in 1 .. Len(requests') :
                  \/ n \in 1 .. Len(requests)
                  \/ \E m \in Merging : \E k \in 1 .. Len(groups[m]) : n = Offset(m) + k
<1> DEFINE T == "getTypesAtPositions"
           Y == "getSymbolsAtPositions"
           O == "getTypesOfSymbols"
           asked(m) == [n \in DOMAIN groups[m] |-> Flushed(m, n)]
           served(m) == [n \in DOMAIN groups[m] |-> groups[m][n].routes]
<1>1. /\ requests \in Seq(RequestSet) /\ routes \in Seq(Seq(Nat)) /\ Len(routes) = Len(requests)
      /\ Len(requests) \in Nat
      BY LenProperties DEF BatchTypes
<1>2. ASSUME NEW m \in Merging
      PROVE  /\ Len(groups[m]) \in Nat
             /\ asked(m) \in Seq(RequestSet) /\ Len(asked(m)) = Len(groups[m])
             /\ served(m) \in Seq(Seq(Nat)) /\ Len(served(m)) = Len(groups[m])
             /\ \A k \in 1 .. Len(groups[m]) :
                    asked(m)[k] = Flushed(m, k) /\ served(m)[k] = groups[m][k].routes
  <2>1. groups[m] \in Seq(GroupSet)
        BY DEF BatchTypes
  <2>2. /\ Len(groups[m]) \in Nat /\ DOMAIN groups[m] = 1 .. Len(groups[m])
        /\ groups[m] \in [1 .. Len(groups[m]) -> GroupSet]
        BY <2>1, LenProperties
  <2>3. ASSUME NEW k \in 1 .. Len(groups[m])
        PROVE  Flushed(m, k) \in RequestSet /\ groups[m][k].routes \in Seq(Nat)
    <3>1. groups[m][k] \in GroupSet
          BY <2>2
    <3>2. m \in Methods
          BY DEF Methods
    <3>3. QED
          BY <3>1, <3>2 DEF Flushed, GroupSet, RequestSet
  <2>4. /\ asked(m) \in [1 .. Len(groups[m]) -> RequestSet]
        /\ served(m) \in [1 .. Len(groups[m]) -> Seq(Nat)]
        BY <2>2, <2>3
  <2>5. QED
        BY <2>2, <2>4
<1>3. T \in Merging /\ Y \in Merging /\ O \in Merging
      BY DEF Merging
<1>4. /\ requests' = requests \o asked(T) \o asked(Y) \o asked(O)
      /\ routes' = routes \o served(T) \o served(Y) \o served(O)
      BY Zenon DEF Flush, Flushed
<1> DEFINE R == Len(requests)
           A == Len(groups[T])
           B == Len(groups[Y])
           C == Len(groups[O])
<1> HIDE DEF asked, served
<1>5. /\ R \in Nat /\ A \in Nat /\ B \in Nat /\ C \in Nat
      /\ asked(T) \in Seq(RequestSet) /\ asked(Y) \in Seq(RequestSet) /\ asked(O) \in Seq(RequestSet)
      /\ served(T) \in Seq(Seq(Nat)) /\ served(Y) \in Seq(Seq(Nat)) /\ served(O) \in Seq(Seq(Nat))
      /\ Len(asked(T)) = A /\ Len(asked(Y)) = B /\ Len(asked(O)) = C
      /\ Len(served(T)) = A /\ Len(served(Y)) = B /\ Len(served(O)) = C
      /\ Len(requests) = R /\ Len(routes) = R
      BY <1>1, <1>2, <1>3
<1>6. /\ Offset(T) = R /\ Offset(Y) = R + A /\ Offset(O) = R + A + B
      /\ Len(groups[T]) = A /\ Len(groups[Y]) = B /\ Len(groups[O]) = C
      BY DEF Offset
<1> HIDE DEF R, A, B, C
<1>7. /\ requests' \in Seq(RequestSet) /\ Len(requests') = R + A + B + C
      /\ \A n \in 1 .. R : requests'[n] = requests[n]
      /\ \A n \in 1 .. A : requests'[R + n] = asked(T)[n]
      /\ \A n \in 1 .. B : requests'[R + A + n] = asked(Y)[n]
      /\ \A n \in 1 .. C : requests'[R + A + B + n] = asked(O)[n]
  <2>1. requests' \in Seq(RequestSet) /\ InARow(requests', requests, asked(T), asked(Y), asked(O))
        BY <1>1, <1>4, <1>5, Joined
  <2>2. QED
        BY <2>1, <1>5 DEF InARow
<1>8. /\ routes' \in Seq(Seq(Nat)) /\ Len(routes') = R + A + B + C
      /\ \A n \in 1 .. R : routes'[n] = routes[n]
      /\ \A n \in 1 .. A : routes'[R + n] = served(T)[n]
      /\ \A n \in 1 .. B : routes'[R + A + n] = served(Y)[n]
      /\ \A n \in 1 .. C : routes'[R + A + B + n] = served(O)[n]
  <2>1. routes' \in Seq(Seq(Nat)) /\ InARow(routes', routes, served(T), served(Y), served(O))
        BY <1>1, <1>4, <1>5, Joined
  <2>2. QED
        BY <2>1, <1>5 DEF InARow
<1>9. \A n \in 1 .. R : n \in 1 .. R + A + B + C
      BY <1>5
<1>10. ASSUME NEW m \in Merging, NEW k \in 1 .. Len(groups[m])
       PROVE  /\ Offset(m) + k \in 1 .. Len(requests')
              /\ requests'[Offset(m) + k] = Flushed(m, k)
              /\ routes'[Offset(m) + k] = groups[m][k].routes
  <2>1. asked(m)[k] = Flushed(m, k) /\ served(m)[k] = groups[m][k].routes
        BY <1>2
  <2>2. CASE m = T
    <3>1. k \in 1 .. A /\ Offset(m) = R
          BY <2>2, <1>6
    <3>2. R + k \in 1 .. R + A + B + C
          BY <3>1, <1>5
    <3>3. QED
          BY <2>1, <2>2, <3>1, <3>2, <1>7, <1>8
  <2>3. CASE m = Y
    <3>1. k \in 1 .. B /\ Offset(m) = R + A
          BY <2>3, <1>6
    <3>2. R + A + k \in 1 .. R + A + B + C
          BY <3>1, <1>5
    <3>3. QED
          BY <2>1, <2>3, <3>1, <3>2, <1>7, <1>8
  <2>4. CASE m = O
    <3>1. k \in 1 .. C /\ Offset(m) = R + A + B
          BY <2>4, <1>6
    <3>2. R + A + B + k \in 1 .. R + A + B + C
          BY <3>1, <1>5
    <3>3. QED
          BY <2>1, <2>4, <3>1, <3>2, <1>7, <1>8
  <2>5. QED
        BY <2>2, <2>3, <2>4 DEF Merging
<1>11. ASSUME NEW n \in 1 .. Len(requests'), n \notin 1 .. Len(requests)
       PROVE  \E m \in Merging : \E k \in 1 .. Len(groups[m]) : n = Offset(m) + k
  <2>1. n \in 1 .. R + A + B + C /\ n \notin 1 .. R
        BY <1>5, <1>7, <1>11
  <2>2. \/ n - R \in 1 .. A
        \/ n - (R + A) \in 1 .. B
        \/ n - (R + A + B) \in 1 .. C
        BY <2>1, <1>5
  <2>3. /\ n = R + (n - R) /\ n = R + A + (n - (R + A))
        /\ n = R + A + B + (n - (R + A + B))
        BY <2>1, <1>5
  <2>4. CASE n - R \in 1 .. A
        BY <2>3, <2>4, <1>3, <1>6
  <2>5. CASE n - (R + A) \in 1 .. B
        BY <2>3, <2>5, <1>3, <1>6
  <2>6. CASE n - (R + A + B) \in 1 .. C
        BY <2>3, <2>6, <1>3, <1>6
  <2>7. QED
        BY <2>2, <2>4, <2>5, <2>6
<1>12. \A n \in 1 .. Len(requests) :
           n \in 1 .. Len(requests') /\ requests'[n] = requests[n] /\ routes'[n] = routes[n]
       BY <1>5, <1>7, <1>8, <1>9
<1>13. QED
       BY <1>7, <1>8, <1>10, <1>11, <1>12

\* Every group becomes a request with its routes.
LEMMA FlushStep ==
    ASSUME BatchInv, Flush
    PROVE  BatchInv'
<1> USE DEF BatchInv
<1>1. /\ phase = "planning" /\ phase' = "planned"
      /\ UNCHANGED <<queries, groups, refused, unknown, results>>
      BY DEF Flush
<1>2. /\ requests' \in Seq(RequestSet) /\ routes' \in Seq(Seq(Nat))
      /\ Len(routes') = Len(requests')
      /\ \A n \in 1 .. Len(requests) :
             n \in 1 .. Len(requests') /\ requests'[n] = requests[n] /\ routes'[n] = routes[n]
      BY FlushedRequests
<1>3. \A m \in Merging : \A k \in 1 .. Len(groups[m]) :
          /\ Offset(m) + k \in 1 .. Len(requests')
          /\ requests'[Offset(m) + k] = Flushed(m, k)
          /\ routes'[Offset(m) + k] = groups[m][k].routes
      BY FlushedRequests
<1>4. \A n \in 1 .. Len(requests') :
          \/ n \in 1 .. Len(requests)
          \/ \E m \in Merging : \E k \in 1 .. Len(groups[m]) : n = Offset(m) + k
      BY FlushedRequests
<1>5. BatchTypes'
  <2>1. ToSet(requests) \subseteq ToSet(requests')
    <3>1. DOMAIN requests = 1 .. Len(requests) /\ DOMAIN requests' = 1 .. Len(requests')
          BY <1>2, LenProperties DEF BatchTypes
    <3>2. QED
          BY <3>1, <1>2 DEF ToSet
  <2>2. QED
        BY <2>1, <1>1, <1>2 DEF BatchTypes
<1>6. RoutesFit'
  <2>1. SUFFICES ASSUME NEW n \in 1 .. Len(requests'), NEW i \in ToSet(routes'[n])
                 PROVE  /\ i \in 1 .. Len(queries)
                        /\ Serves(requests'[n].method, requests'[n].file, requests'[n].items, queries[i])
        BY <1>1 DEF RoutesFit
  <2>2. CASE n \in 1 .. Len(requests)
        BY <2>2, <1>2 DEF RoutesFit
  <2>3. ASSUME NEW m \in Merging, NEW k \in 1 .. Len(groups[m]), n = Offset(m) + k
        PROVE  /\ i \in 1 .. Len(queries)
               /\ Serves(requests'[n].method, requests'[n].file, requests'[n].items, queries[i])
    <3>1. requests'[n] = Flushed(m, k) /\ i \in ToSet(groups[m][k].routes)
          BY <2>3, <1>3
    <3>2. /\ i \in 1 .. Len(queries)
          /\ Serves(m, groups[m][k].file, groups[m][k].items, queries[i])
          BY <3>1 DEF GroupsFit
    <3>3. QED
          BY <3>1, <3>2 DEF Flushed
  <2>4. QED
        BY <2>2, <2>3, <1>4
<1>7. GroupsFit' /\ FilesApart' /\ Unflushed' /\ NothingYet' /\ EachGetsItsOwn'
  <2>1. GroupsFit'
        BY <1>1 DEF GroupsFit
  <2>2. FilesApart'
        BY <1>1 DEF FilesApart
  <2>3. Unflushed' /\ EachGetsItsOwn'
        BY <1>1 DEF Unflushed, EachGetsItsOwn
  <2>4. NothingYet'
        BY <1>1 DEF NothingYet
  <2>5. QED
        BY <2>1, <2>2, <2>3, <2>4
<1>8. RequestsApart'
  <2>1. SUFFICES ASSUME NEW a \in 1 .. Len(requests'), NEW b \in 1 .. Len(requests'),
                        requests'[a].method \in Merging,
                        requests'[a].method = requests'[b].method,
                        requests'[a].file = requests'[b].file
                 PROVE  a = b
        BY DEF RequestsApart
  <2>2. ASSUME NEW n \in 1 .. Len(requests'), requests'[n].method \in Merging
        PROVE  \E m \in Merging : \E k \in 1 .. Len(groups[m]) : n = Offset(m) + k
    <3>1. n \notin 1 .. Len(requests)
          BY <2>2, <1>1, <1>2 DEF Unflushed
    <3>2. QED
          BY <3>1, <1>4
  <2>3. PICK m \in Merging : \E k \in 1 .. Len(groups[m]) : a = Offset(m) + k
        BY <2>1, <2>2
  <2>4. PICK k \in 1 .. Len(groups[m]) : a = Offset(m) + k
        BY <2>3
  <2>5. PICK m2 \in Merging : \E j \in 1 .. Len(groups[m2]) : b = Offset(m2) + j
        BY <2>1, <2>2
  <2>6. PICK j \in 1 .. Len(groups[m2]) : b = Offset(m2) + j
        BY <2>5
  <2>7. requests'[a] = Flushed(m, k) /\ requests'[b] = Flushed(m2, j)
        BY <2>4, <2>6, <1>3
  <2>8. m = m2 /\ groups[m][k].file = groups[m2][j].file
        BY <2>1, <2>7 DEF Flushed
  <2>9. k = j
        BY <2>8 DEF FilesApart
  <2>10. QED
        BY <2>4, <2>6, <2>8, <2>9
<1>9. Placed'
  <2>1. SUFFICES ASSUME NEW i \in 1 .. Len(queries)
                 PROVE  \/ queries[i].items = <<>> /\ i \in DOMAIN results
                        \/ InRequests(i)'
        BY <1>1 DEF Placed
  <2>2. InRequests(i) => InRequests(i)'
        BY <1>2 DEF InRequests
  <2>3. InGroups(i) => InRequests(i)'
        BY <1>3 DEF InRequests, InGroups
  <2>4. QED
        BY <2>2, <2>3 DEF Placed
<1>10. QED
       BY <1>5, <1>6, <1>7, <1>8, <1>9

\* The server answers some requests and refuses others, or breaks the protocol.
LEMMA RespondStep ==
    ASSUME BatchInv, Respond \/ Malformed
    PROVE  BatchInv'
<1> USE DEF BatchInv
<1>1. /\ phase = "planned" /\ phase' \in {"answered", "failed"}
      /\ refused' \subseteq ToSet(requests)
      /\ UNCHANGED <<queries, groups, requests, routes, results>>
      BY DEF Respond, Malformed, BatchTypes
<1>2. BatchTypes'
      BY <1>1 DEF BatchTypes
<1>3. RoutesFit' /\ GroupsFit' /\ FilesApart'
  <2>1. RoutesFit'
        BY <1>1 DEF RoutesFit
  <2>2. GroupsFit'
        BY <1>1 DEF GroupsFit
  <2>3. FilesApart'
        BY <1>1 DEF FilesApart
  <2>4. QED
        BY <2>1, <2>2, <2>3
<1>4. Unflushed' /\ RequestsApart' /\ NothingYet' /\ EachGetsItsOwn'
  <2>1. RequestsApart'
        BY <1>1 DEF RequestsApart
  <2>2. NothingYet'
        BY <1>1 DEF NothingYet
  <2>3. QED
        BY <2>1, <2>2, <1>1 DEF Unflushed, EachGetsItsOwn
<1>5. Placed'
  <2>1. \A i : InRequests(i)' = InRequests(i)
        BY <1>1 DEF InRequests
  <2>2. QED
        BY <2>1, <1>1 DEF Placed
<1>6. QED
      BY <1>2, <1>3, <1>4, <1>5

\* What the routes of a request find for an item.
Got(r, x) == Answers(r)[PlaceOf(r.items, x)]

\* A query fails just when the request that serves it is refused: no other request
\* asks for the same.
LEMMA RefusedAlike ==
    ASSUME BatchInv, phase = "answered", NEW n \in 1 .. Len(requests), NEW q \in Queries,
           Serves(requests[n].method, requests[n].file, requests[n].items, q)
    PROVE  requests[n] \in refused <=> Fails(q)
<1> DEFINE r == requests[n]
<1> USE DEF BatchInv
<1>1. DOMAIN requests = 1 .. Len(requests) /\ requests \in Seq(RequestSet)
      BY LenProperties DEF BatchTypes
<1>2. r.method = q.method /\ r.file = q.file /\ (q.direct => r.items = q.items)
      BY DEF Serves
<1>3. r \in refused => Fails(q)
      BY <1>2 DEF Fails
<1>4. ASSUME NEW o \in refused, o.method = q.method, o.file = q.file, q.direct => o.items = q.items
      PROVE  r = o
  <2>1. PICK k \in 1 .. Len(requests) : o = requests[k]
        BY <1>1 DEF BatchTypes, ToSet
  <2>2. CASE q.direct
    <3>1. o \in RequestSet /\ r \in RequestSet
          BY <2>1, <1>1, ElementOfSeq
    <3>2. o.method = r.method /\ o.file = r.file /\ o.items = r.items
          BY <2>2, <1>2, <1>4
    <3>3. QED
          BY <3>1, <3>2 DEF RequestSet
  <2>3. CASE ~q.direct
    <3>1. q.method \in Merging
          BY <2>3, QueryTyped
    <3>2. n = k
          BY <3>1, <2>1, <1>2, <1>4 DEF RequestsApart
    <3>3. QED
          BY <3>2, <2>1
  <2>4. QED
        BY <2>2, <2>3
<1>5. QED
      BY <1>3, <1>4 DEF Fails

\* A route gives a query what it would get alone.
LEMMA RoutedIsAlone ==
    ASSUME BatchInv, phase = "answered", NEW n \in 1 .. Len(requests), NEW q \in Queries,
           Serves(requests[n].method, requests[n].file, requests[n].items, q)
    PROVE  Routed(q, requests[n]) = Alone(q)
<1> DEFINE r == requests[n]
<1>1. r \in refused <=> Fails(q)
      BY RefusedAlike
<1>2. /\ q.items \in Seq(Items) /\ q.items # <<>>
      /\ DOMAIN q.items = 1 .. Len(q.items) /\ Len(q.items) \in Nat
      BY QueryTyped, LenProperties DEF Serves
<1>3. 1 \in 1 .. Len(q.items)
      BY <1>2
<1>4. r.items \in Seq(Items) /\ DOMAIN r.items = 1 .. Len(r.items) /\ Len(r.items) \in Nat
  <2>1. r \in RequestSet
        BY ElementOfSeq DEF BatchInv, BatchTypes
  <2>2. r.items \in Seq(Items)
        BY <2>1 DEF RequestSet
  <2>3. QED
        BY <2>2, LenProperties
<1>5. ASSUME NEW k \in 1 .. Len(q.items)
      PROVE  Got(r, q.items[k]) = AnswerTo(q.method, q.file, q.items[k])
  <2> DEFINE p == PlaceOf(r.items, q.items[k])
  <2>1. p \in 1 .. Len(r.items) /\ r.items[p] = q.items[k]
    <3>1. \E j \in 1 .. Len(r.items) : r.items[j] = q.items[k]
          BY DEF Serves, HasItems
    <3>2. QED
          BY <3>1, <1>4, FirstEqual
  <2> HIDE DEF p
  <2>2. Answers(r)[p] = AnswerTo(r.method, r.file, r.items[p])
        BY <2>1, <1>4 DEF Answers
  <2>3. r.method = q.method /\ r.file = q.file
        BY DEF Serves
  <2>4. QED
        BY <2>1, <2>2, <2>3 DEF Got, p
<1> DEFINE gotAll == [k \in DOMAIN q.items |-> Got(r, q.items[k])]
           got == Got(r, q.items[1])
           all == [k \in DOMAIN q.items |-> AnswerTo(q.method, q.file, q.items[k])]
           one == AnswerTo(q.method, q.file, q.items[1])
<1>6. Routed(q, r) = IF r \in refused THEN Failed
                     ELSE IF ~q.single THEN gotAll
                     ELSE IF q.list /\ got = Null THEN <<>> ELSE got
      BY Zenon DEF Routed, Got, PlaceOf
<1>7. Alone(q) = IF Fails(q) THEN Failed
                 ELSE IF ~q.single THEN all
                 ELSE IF q.list /\ one = Null THEN <<>> ELSE one
      BY <1>2, Zenon DEF Alone
<1>8. gotAll = all /\ got = one
      BY <1>2, <1>3, <1>5
<1> HIDE DEF r, gotAll, got, all, one
<1>9. Routed(q, r) = Alone(q)
      BY <1>1, <1>6, <1>7, <1>8
<1>10. QED
      BY <1>9 DEF r

\* Every query that was not for nothing is served by a route.
LEMMA ResolveStep ==
    ASSUME BatchInv, Resolve
    PROVE  BatchInv'
<1> DEFINE served(n) == ToSet(routes[n])
           serving(i) == CHOOSE n \in DOMAIN routes : i \in served(n)
           routed == UNION {served(n) : n \in DOMAIN routes}
<1> USE DEF BatchInv
<1>1. /\ phase = "answered" /\ phase' = "resolved"
      /\ UNCHANGED <<queries, groups, requests, routes, refused, unknown>>
      BY DEF Resolve
<1>2. results' = [i \in DOMAIN results \cup routed |->
                    IF i \in routed THEN Routed(queries[i], requests[serving(i)]) ELSE results[i]]
      BY Zenon DEF Resolve
<1>3. DOMAIN routes = 1 .. Len(requests) /\ queries \in Seq(Queries)
      /\ DOMAIN queries = 1 .. Len(queries)
      BY LenProperties DEF BatchTypes
<1>4. ASSUME NEW i \in routed
      PROVE  i \in 1 .. Len(queries) /\ results'[i] = Alone(queries[i])
  <2>1. serving(i) \in DOMAIN routes /\ i \in served(serving(i))
    <3>1. \E n \in DOMAIN routes : i \in served(n)
          BY <1>4
    <3>2. QED
          BY <3>1, Zenon
  <2> DEFINE n == serving(i)
  <2> HIDE DEF serving, n
  <2>2. n \in 1 .. Len(requests) /\ i \in ToSet(routes[n])
        BY <2>1, <1>3 DEF n
  <2>3. /\ i \in 1 .. Len(queries)
        /\ Serves(requests[n].method, requests[n].file, requests[n].items, queries[i])
        BY <2>2 DEF RoutesFit
  <2>4. queries[i] \in Queries
        BY <2>3, <1>3, ElementOfSeq
  <2>5. Routed(queries[i], requests[n]) = Alone(queries[i])
        BY <2>2, <2>3, <2>4, <1>1, RoutedIsAlone
  <2> HIDE DEF routed
  <2>6. results'[i] = Routed(queries[i], requests[n])
        BY <1>2, <1>4 DEF n
  <2>7. QED
        BY <2>3, <2>5, <2>6
<1>5. ASSUME NEW i \in 1 .. Len(queries), i \notin routed
      PROVE  i \in DOMAIN results' /\ results'[i] = Alone(queries[i])
  <2>1. ~InRequests(i)
        BY <1>3, <1>5 DEF InRequests
  <2>2. queries[i].items = <<>> /\ i \in DOMAIN results
        BY <2>1, <1>1 DEF Placed
  <2>3. results[i] = <<>>
        BY <2>2, <1>1 DEF NothingYet
  <2> HIDE DEF routed, serving
  <2>4. i \in DOMAIN results' /\ results'[i] = results[i]
        BY <2>2, <1>2, <1>5
  <2>5. Alone(queries[i]) = <<>>
        BY <2>2 DEF Alone
  <2>6. QED
        BY <2>3, <2>4, <2>5
<1>6. DOMAIN results' = DOMAIN results \cup routed
  <2> HIDE DEF routed, serving
  <2> QED BY <1>2
<1>7. ASSUME NEW i \in 1 .. Len(queries)
      PROVE  i \in DOMAIN results' /\ results'[i] = Alone(queries[i])
  <2> HIDE DEF routed, serving
  <2> QED BY <1>4, <1>5, <1>6
<1>8. \A q : Alone(q)' = Alone(q)
      BY <1>1 DEF Alone, AnswerTo, Fails
<1>9. EachGetsItsOwn'
      BY <1>1, <1>3, <1>7, <1>8 DEF EachGetsItsOwn
<1>10. BatchTypes' /\ RoutesFit' /\ GroupsFit' /\ FilesApart'
  <2>1. BatchTypes'
        BY <1>1 DEF BatchTypes
  <2>2. RoutesFit'
        BY <1>1 DEF RoutesFit
  <2>3. GroupsFit'
        BY <1>1 DEF GroupsFit
  <2>4. FilesApart'
        BY <1>1 DEF FilesApart
  <2>5. QED
        BY <2>1, <2>2, <2>3, <2>4
<1>11. Unflushed' /\ RequestsApart' /\ NothingYet'
  <2>1. RequestsApart'
        BY <1>1 DEF RequestsApart
  <2>2. QED
        BY <2>1, <1>1 DEF Unflushed, NothingYet
<1>12. Placed'
  <2>1. \A i : InRequests(i)' = InRequests(i)
        BY <1>1 DEF InRequests
  <2> HIDE DEF routed, serving
  <2>2. QED
        BY <2>1, <1>1, <1>6 DEF Placed
<1>13. QED
       BY <1>9, <1>10, <1>11, <1>12

\* A step that changes no variable.
LEMMA BatchUnchanged ==
    ASSUME BatchInv, UNCHANGED checkerVars
    PROVE  BatchInv'
<1> USE DEF BatchInv, checkerVars
<1>1. BatchTypes' /\ RoutesFit' /\ GroupsFit' /\ FilesApart' /\ Unflushed' /\ RequestsApart'
      BY DEF BatchTypes, RoutesFit, GroupsFit, FilesApart, Unflushed, RequestsApart
<1>2. Placed' /\ NothingYet'
      BY DEF Placed, NothingYet, InRequests, InGroups
<1>3. EachGetsItsOwn'
      BY DEF EachGetsItsOwn, Alone, AnswerTo, Fails
<1>4. QED
      BY <1>1, <1>2, <1>3

-----------------------------------------------------------------------------
(* Checker batches: theorems *)

\* The invariant always holds.
THEOREM BatchInvariant == CheckerSpec => []BatchInv
<1>1. CheckerInit => BatchInv
      BY BatchStarts
<1>2. BatchInv /\ [CheckerNext]_checkerVars => BatchInv'
  <2> SUFFICES ASSUME BatchInv, [CheckerNext]_checkerVars
               PROVE  BatchInv'
      OBVIOUS
  <2>1. ASSUME NEW q \in Queries, AddEmpty(q)
        PROVE  BatchInv'
        BY <2>1, AddEmptyStep
  <2>2. ASSUME NEW q \in Queries, AddDirect(q)
        PROVE  BatchInv'
        BY <2>2, AddDirectStep
  <2>3. ASSUME NEW q \in Queries, AddToGroup(q)
        PROVE  BatchInv'
        BY <2>3, AddToGroupStep
  <2>4. CASE Flush
        BY <2>4, FlushStep
  <2>5. CASE Respond \/ Malformed
        BY <2>5, RespondStep
  <2>6. CASE Resolve
        BY <2>6, ResolveStep
  <2>7. CASE UNCHANGED checkerVars
        BY <2>7, BatchUnchanged
  <2>8. QED
        BY <2>1, <2>2, <2>3, <2>4, <2>5, <2>6, <2>7 DEF CheckerNext
<1>3. QED
      BY <1>1, <1>2, PTL DEF CheckerSpec

\* Every query of a batch gets what it would get alone (orchestrator.ts,
\* checker_batch.ts), whatever it was merged with.
THEOREM MergedQueriesCorrect == CheckerSpec => []EachGetsItsOwn
<1>1. BatchInv => EachGetsItsOwn
      BY DEF BatchInv
<1>2. QED
      BY <1>1, BatchInvariant, PTL
=============================================================================
