--------------------------- MODULE CheckerSession ---------------------------
(***************************************************************************)
(* The session of the linter with one project: class CorsaProjectSession   *)
(* of src/src/bindings/nodejs/corsa_oxlint/ts/session.ts.                  *)
(*                                                                         *)
(* A query names a file and, mostly, the text the linter holds.  Before it *)
(* is answered the session brings the server up to date: refreshIfNeeded   *)
(* compares the file's mtime and text with what it remembers of the file,  *)
(* and asks for a new snapshot, with the text as an overlay where it       *)
(* differs from the disk.  Then everything it remembers is forgotten.      *)
(* Queries are synchronous, so there is one at a time; between its         *)
(* requests the worker may die and files may be edited.  A worker that     *)
(* died is replaced and the query tried once more.                         *)
(*                                                                         *)
(* Answers are left out: what matters is which text they are computed      *)
(* from.  The lifetime of the cache may have run out at any query.  A      *)
(* query looks at the disk in one step.                                    *)
(***************************************************************************)
EXTENDS Integers, FiniteSets

CONSTANTS
    SourceFiles, SourceTexts,
    NoText,      \* undefined, for a text
    Refusals,    \* TRUE when the server may answer with an error
    MaxMtime     \* bound of the model: edits of a file, and one

ASSUME SessionAssumption ==
    /\ NoText \notin SourceTexts /\ Refusals \in BOOLEAN /\ MaxMtime \in Nat \ {0}

VARIABLES
    client,      \* TRUE when #client is defined
    snapshot,    \* #snapshot, 0 for undefined
    files,       \* #files: what is remembered of some of the files
    issued,      \* #snapshotHasIssuedHandles
    supports,    \* #supportsOverlayChanges
    fatal,       \* TRUE once #fatalTransportError is set
    statted,     \* #statByPath: the last mtime seen of a file, 0 for none
    query,       \* the query under way and how far it is
    disk,        \* text and mtime of each file
    up,          \* the worker process runs
    overlay,     \* the server's overlays
    alive        \* the server's snapshots

session == <<client, snapshot, files, issued, supports, fatal>>
serverState == <<overlay, alive>>
sessionVars == <<session, statted, query, disk, up, serverState>>

Nothing == [f \in {} |-> 0]
NoQuery == [at |-> "idle"]
Snapshots == 1..2  \* enough: one is released when another is made

SessionInit ==
    /\ client = FALSE /\ snapshot = 0 /\ files = Nothing /\ issued = FALSE
    /\ supports = "unknown" /\ fatal = FALSE
    /\ statted = [f \in SourceFiles |-> 0]
    /\ query = NoQuery
    /\ disk \in [SourceFiles -> [text : SourceTexts, mtime : {1}]]
    /\ up = FALSE
    /\ overlay = [f \in SourceFiles |-> NoText]
    /\ alive = {}

Goes(from, to) == query.at = from /\ query' = [query EXCEPT !.at = to]

-----------------------------------------------------------------------------
(* The environment *)

EditFile(f, t) ==
    /\ t # disk[f].text /\ disk[f].mtime < MaxMtime
    /\ disk' = [disk EXCEPT ![f] = [text |-> t, mtime |-> @.mtime + 1]]
    /\ UNCHANGED <<session, statted, query, up, serverState>>

WorkerDies ==
    /\ up /\ up' = FALSE
    /\ UNCHANGED <<session, statted, query, disk, serverState>>

-----------------------------------------------------------------------------
(* A query *)

\* A session that has failed for good fails every query.
Ask(f, t) ==
    /\ query = NoQuery /\ ~fatal
    /\ query' = [at |-> "prepare", file |-> f, text |-> t,
                 mtime |-> 0, source |-> NoText, retried |-> FALSE]
    /\ UNCHANGED <<session, statted, disk, up, serverState>>

\* client() as every request calls it: a worker is started for the first one.
Spawn ==
    /\ ~client /\ \/ query.at = "prepare" /\ supports = "unknown"
                  \/ query.at = "update"
    /\ client' = TRUE /\ up' = TRUE
    /\ overlay' = [f \in SourceFiles |-> NoText] /\ alive' = {}
    /\ UNCHANGED <<snapshot, files, issued, supports, fatal, statted, query, disk>>

\* supportsOverlayChanges: whatever fails means no, a worker that cannot be
\* started or refuses to be initialized too.
Describe ==
    /\ query.at = "prepare" /\ supports = "unknown"
    /\ supports' \in IF up THEN {"yes", "no"} ELSE {"no"}
    /\ up => client
    /\ ~client => Refusals
    /\ UNCHANGED <<client, snapshot, files, issued, fatal, statted, query, disk, up, serverState>>

Remembered(f) == f \in DOMAIN files

\* statMtimeMsThrottled, when the lifetime of the last stat may be over.
Mtime(f, t, lapsed) ==
    IF ~lapsed /\ Remembered(f) /\ files[f].lint = t THEN statted[f] ELSE disk[f].mtime

\* supportedOverlayText and overlayTextFor.
OverlayText(f, t, mtime) ==
    IF t = NoText \/ supports = "no" THEN NoText
    ELSE IF Remembered(f) /\ files[f].lint = t /\ files[f].mtime = mtime THEN files[f].source
    ELSE IF t = disk[f].text THEN NoText ELSE t

SentText(f) == IF Remembered(f) THEN files[f].source ELSE NoText

\* Mutant: a changed text alone is no reason.
StaleByMtime(f, mtime, source, expired) ==
    \/ snapshot = 0
    \/ Remembered(f) /\ mtime # files[f].mtime
    \/ expired /\ ~issued

Stale(f, mtime, source, expired) ==
    \/ snapshot = 0
    \/ Remembered(f) /\ mtime # files[f].mtime
    \/ source # SentText(f)
    \/ expired /\ ~issued

\* refreshIfNeeded up to its decision.
Prepare ==
    /\ query.at = "prepare" /\ supports # "unknown"
    /\ \E lapsed, expired \in BOOLEAN :
        LET f == query.file
            mtime == Mtime(f, query.text, lapsed)
            source == OverlayText(f, query.text, mtime)
        IN  /\ statted' = [statted EXCEPT ![f] = mtime]
            /\ query' = [query EXCEPT !.mtime = mtime, !.source = source,
                             !.at = IF Stale(f, mtime, source, expired) THEN "update" ELSE "file"]
    /\ UNCHANGED <<session, disk, up, serverState>>

\* overlayChanges: an upsert, a delete or nothing.
OverlayAfter(f, source) ==
    IF supports = "no" \/ (source = NoText /\ SentText(f) = NoText) THEN overlay
    ELSE [overlay EXCEPT ![f] = source]

\* updateSnapshot makes a snapshot; what was remembered is forgotten and the
\* previous snapshot released.
Update ==
    /\ up /\ Goes("update", "file")
    /\ snapshot' = CHOOSE s \in Snapshots : s \notin alive
    /\ alive' = (alive \cup {snapshot'}) \ {snapshot}
    /\ overlay' = OverlayAfter(query.file, query.source)
    /\ files' = Nothing /\ issued' = FALSE
    /\ UNCHANGED <<client, supports, fatal, statted, disk, up>>

\* fileState: a file that is not remembered costs a request.
KnowFile ==
    /\ Goes("file", "answer") /\ (up \/ Remembered(query.file))
    /\ files' = [f \in DOMAIN files \cup {query.file} |->
                    IF Remembered(f) THEN files[f]
                    ELSE [mtime |-> query.mtime, lint |-> query.text, source |-> query.source]]
    /\ UNCHANGED <<client, snapshot, issued, supports, fatal, statted, disk, up, serverState>>

\* The answer, of the server or remembered; types are handles.
Answer ==
    /\ query.at = "answer" /\ query' = NoQuery
    /\ issued' \in {issued, TRUE}
    /\ UNCHANGED <<client, snapshot, files, supports, fatal, statted, disk, up, serverState>>

\* The server answers with an error, or the worker cannot be started: the
\* query fails, and nothing is undone.
Refuse ==
    /\ Refusals /\ (client => up)
    /\ query.at \in {"update", "file", "answer"} /\ query' = NoQuery
    /\ UNCHANGED <<session, statted, disk, up, serverState>>

\* resetClientAfterTransportFailure forgets all but the stats.
Forget ==
    /\ client' = FALSE /\ snapshot' = 0 /\ files' = Nothing /\ issued' = FALSE
    /\ supports' = "unknown"

\* withTransportRecovery: once more with a new worker, then never again.
Recover ==
    /\ client /\ ~up /\ query.at \in {"update", "file", "answer"}
    /\ IF query.retried THEN /\ query' = NoQuery /\ fatal' = TRUE
                             /\ UNCHANGED <<client, snapshot, files, issued, supports>>
                        ELSE /\ query' = [query EXCEPT !.at = "prepare", !.retried = TRUE]
                             /\ Forget /\ UNCHANGED fatal
    /\ UNCHANGED <<statted, disk, up, serverState>>

\* close: a session may be used again, unless it failed for good.
Close ==
    /\ query = NoQuery
    /\ Forget /\ up' = FALSE
    /\ UNCHANGED <<fatal, statted, query, disk, serverState>>

-----------------------------------------------------------------------------
SessionNext ==
    \/ \E f \in SourceFiles, t \in SourceTexts \cup {NoText} : Ask(f, t)
    \/ Spawn \/ Describe \/ Prepare \/ Update \/ KnowFile \/ Answer
    \/ Refuse \/ Recover \/ Close
    \/ WorkerDies \/ \E f \in SourceFiles, t \in SourceTexts : EditFile(f, t)

SessionSpec == SessionInit /\ [][SessionNext]_sessionVars

-----------------------------------------------------------------------------
Mtimes == 0..MaxMtime
MaybeTexts == SourceTexts \cup {NoText}

SessionTypeOK ==
    /\ {client, issued, fatal, up} \subseteq BOOLEAN
    /\ snapshot \in Snapshots \cup {0} /\ alive \subseteq Snapshots
    /\ DOMAIN files \subseteq SourceFiles
    /\ \A f \in DOMAIN files :
           files[f] \in [mtime : Mtimes, lint : MaybeTexts, source : MaybeTexts]
    /\ supports \in {"unknown", "yes", "no"} /\ (snapshot # 0 => supports # "unknown")
    /\ statted \in [SourceFiles -> Mtimes]
    /\ query.at \in {"idle", "prepare", "update", "file", "answer"}
    /\ overlay \in [SourceFiles -> MaybeTexts]

(* A query is answered from the text it came with when that is not the text   *)
(* on disk, and what is remembered of a file was answered from the overlay    *)
(* the server has of it, whatever happened to other files, to the worker and  *)
(* to the session in between.  Of its snapshots the server keeps the one the  *)
(* session answers from.                                                       *)
AnsweredFromOverlay ==
    up => /\ query.at \in {"file", "answer"} /\ query.source # NoText
                 => overlay[query.file] = query.source
          /\ \A f \in DOMAIN files :
                 files[f].source # NoText => overlay[f] = files[f].source
          /\ alive = {snapshot} \ {0}

(* What the test "sends linted source text overlay changes when it differs    *)
(* from disk" (type_location.test.ts:2661) expects: a query with the text on  *)
(* disk has the overlay deleted.                                               *)
DiskTextDropsOverlay ==
    query.at = "answer" /\ up /\ supports = "yes" /\ query.text # NoText
        => overlay[query.file] = query.source
=============================================================================
