----------------------------- MODULE LspOverlay ------------------------------
(***************************************************************************)
(* The documents an editor mirrors to a language server                    *)
(* (src/src/core/corsa_lsp/src/lsp/overlay.rs).                            *)
(*                                                                         *)
(* The overlay is shared by the threads that edit through it.  open tests  *)
(* the map under the read lock, sends didOpen without any lock and inserts *)
(* under the write lock; change edits and sends didChange under the write  *)
(* lock; close removes under the write lock and sends didClose after it.   *)
(* Each of these is a step here.                                           *)
(*                                                                         *)
(* The connection keeps notifications in the order they are queued in      *)
(* (JsonRpcConnection), so the server is shown as it will be when it has   *)
(* read everything queued so far, and queueing a notification is a step of *)
(* the server.  The connection refuses every notification once it is       *)
(* closed, and any notification before, when its queue is full.            *)
(***************************************************************************)
EXTENDS VirtualText

CONSTANTS
    Editors,     \* threads that use the overlay
    Uris,        \* document URIs
    Owns,        \* who opens and closes what: pairs of an editor and a URI
    Openings,    \* texts a document is opened with
    Batches,     \* change lists passed to change
    Texts,       \* bound: the texts that a document may have on either side
    MaxVersion,  \* bound on the version of a document
    Absent       \* no document

ASSUME OverlayAssumption ==
    /\ Owns \subseteq Editors \X Uris
    /\ Openings \subseteq Texts
    /\ MaxVersion \in Nat \ {0}
    /\ Absent \notin [version : Nat \ {0}, text : Texts]

VARIABLES
    documents,   \* LspOverlay.documents: the document of each URI or Absent
    step,        \* control point of each editor's call
    uri,         \* URI of each editor's call
    document,    \* the document that each editor's call opens
    connected,   \* FALSE once the connection is closed
    server,      \* the document the server has for each URI
    complaints,  \* history: notifications of each URI the server cannot place
    apart        \* history: what has set the two sides of each URI apart

vars == <<documents, step, uri, document, connected, server, complaints, apart>>

call == <<step, uri, document>>
peer == <<server, complaints, apart>>

(* A VirtualDocument without what never changes. *)
Document == [version : Nat \ {0}, text : Texts]

Steps == {"idle", "opening", "inserting", "closing"}

(***************************************************************************)
(* "edited" by a change that the server does not get, "unclosed" when the  *)
(* server did not get the didClose; a didOpen or didClose that it gets     *)
(* puts an end to both.                                                    *)
(***************************************************************************)
Partings == {"no", "edited", "unclosed"}

(* Mutant of NewDocument: versions start at 0. *)
NewDocumentZero(text) == [version |-> 0, text |-> text]

NewDocument(text) == [version |-> 1, text |-> text]

Init ==
    /\ documents = [u \in Uris |-> Absent]
    /\ step = [e \in Editors |-> "idle"]
    /\ uri \in [Editors -> Uris]
    /\ document = [e \in Editors |-> Absent]
    /\ connected = TRUE
    /\ server = [u \in Uris |-> Absent]
    /\ complaints = [u \in Uris |-> {}]
    /\ apart = [u \in Uris |-> "no"]

-----------------------------------------------------------------------------
(***************************************************************************)
(* The notifications, as the server takes them.  It complains of a didOpen *)
(* of a document it has open, of a didChange or didClose of a document it  *)
(* does not have open, and of a didChange that does not raise the version. *)
(***************************************************************************)
Complain(u, method, misplaced) ==
    complaints' = IF misplaced
                  THEN [complaints EXCEPT ![u] = @ \cup {method}]
                  ELSE complaints

DidOpen(u, doc) ==
    /\ server' = [server EXCEPT ![u] = doc]
    /\ apart' = [apart EXCEPT ![u] = "no"]
    /\ Complain(u, "didOpen", server[u] # Absent)

DidChange(u, version, batch) ==
    /\ \/ server[u] = Absent /\ UNCHANGED server
       \/ /\ server[u] # Absent
          /\ \E text \in Texts :
                /\ text = ApplyChanges(server[u].text, batch).text
                /\ server' = [server EXCEPT ![u] = [version |-> version, text |-> text]]
    /\ Complain(u, "didChange", server[u] = Absent \/ version <= server[u].version)
    /\ UNCHANGED apart

DidClose(u) ==
    /\ server' = [server EXCEPT ![u] = Absent]
    /\ apart' = [apart EXCEPT ![u] = "no"]
    /\ Complain(u, "didClose", server[u] = Absent)

(***************************************************************************)
(* LspClient::notify queues a notification, which takes a connection, or   *)
(* refuses it, at any time; what the server does not get may set the two   *)
(* sides apart.                                                            *)
(***************************************************************************)
Accepted == connected

Unsent(u, parting) ==
    /\ apart' = [apart EXCEPT ![u] = parting]
    /\ UNCHANGED <<server, complaints>>

-----------------------------------------------------------------------------
(* open *)

CheckAbsent(e, u) ==
    /\ step[e] = "idle"
    /\ <<e, u>> \in Owns
    /\ documents[u] = Absent
    /\ step' = [step EXCEPT ![e] = "opening"]
    /\ uri' = [uri EXCEPT ![e] = u]
    /\ \E text \in Openings : document' = [document EXCEPT ![e] = NewDocument(text)]
    /\ UNCHANGED <<documents, connected, peer>>

(* Mutant of SendOpen: the outcome of the notification is ignored. *)
SendOpenInserts(e) ==
    /\ step[e] = "opening"
    /\ \/ Accepted /\ DidOpen(uri[e], document[e])
       \/ Unsent(uri[e], apart[uri[e]])
    /\ step' = [step EXCEPT ![e] = "inserting"]
    /\ UNCHANGED <<documents, uri, document, connected>>

SendOpen(e) ==
    /\ step[e] = "opening"
    /\ \/ Accepted /\ DidOpen(uri[e], document[e]) /\ step' = [step EXCEPT ![e] = "inserting"]
       \/ Unsent(uri[e], apart[uri[e]]) /\ step' = [step EXCEPT ![e] = "idle"]
    /\ UNCHANGED <<documents, uri, document, connected>>

InsertDocument(e) ==
    /\ step[e] = "inserting"
    /\ documents' = [documents EXCEPT ![uri[e]] = document[e]]
    /\ step' = [step EXCEPT ![e] = "idle"]
    /\ UNCHANGED <<uri, document, connected, peer>>

(* Mutant of Edited: the version stays. *)
EditedKeepsVersion(doc, batch) ==
    [version |-> doc.version, text |-> ApplyChanges(doc.text, batch).text]

(* A document after apply_changes: a version more when all changes succeeded. *)
Edited(doc, batch) ==
    LET outcome == ApplyChanges(doc.text, batch)
    IN  [version |-> IF outcome.ok THEN doc.version + 1 ELSE doc.version,
         text    |-> outcome.text]

(***************************************************************************)
(* change, all of it under the write lock: an empty list sends nothing, a  *)
(* list that fails keeps the changes before the failure and sends nothing, *)
(* a list that succeeds is kept even when the notification is refused.     *)
(***************************************************************************)
Change(e, u, batch) ==
    LET edited  == Edited(documents[u], batch)
        applied == ApplyChanges(documents[u].text, batch).ok
        altered == edited.text # documents[u].text
    IN  /\ step[e] = "idle"
        /\ documents[u] # Absent
        /\ batch # <<>>
        /\ edited.version <= MaxVersion
        /\ edited.text \in Texts
        /\ documents' = [documents EXCEPT ![u] = edited]
        /\ \/ applied /\ Accepted /\ DidChange(u, edited.version, batch)
           \/ applied /\ Unsent(u, "edited")
           \/ ~applied /\ altered /\ Unsent(u, "edited")
           \/ ~applied /\ ~altered /\ UNCHANGED peer
        /\ UNCHANGED <<call, connected>>

(* close *)

RemoveDocument(e, u) ==
    /\ step[e] = "idle"
    /\ <<e, u>> \in Owns
    /\ documents[u] # Absent
    /\ documents' = [documents EXCEPT ![u] = Absent]
    /\ step' = [step EXCEPT ![e] = "closing"]
    /\ uri' = [uri EXCEPT ![e] = u]
    /\ UNCHANGED <<document, connected, peer>>

(* Mutant of SendClose: didClose is not sent. *)
SendNothing(e) ==
    /\ step[e] = "closing"
    /\ step' = [step EXCEPT ![e] = "idle"]
    /\ UNCHANGED <<documents, uri, document, connected, peer>>

SendClose(e) ==
    /\ step[e] = "closing"
    /\ \/ Accepted /\ DidClose(uri[e])
       \/ Unsent(uri[e], "unclosed")
    /\ step' = [step EXCEPT ![e] = "idle"]
    /\ UNCHANGED <<documents, uri, document, connected>>

(* LspClient::close, or the end of the connection. *)
Disconnect ==
    /\ connected
    /\ connected' = FALSE
    /\ UNCHANGED <<documents, call, peer>>

-----------------------------------------------------------------------------
Next ==
    \/ \E e \in Editors, u \in Uris :
            \/ CheckAbsent(e, u)
            \/ RemoveDocument(e, u)
            \/ \E batch \in Batches : Change(e, u, batch)
    \/ \E e \in Editors : SendOpen(e) \/ InsertDocument(e) \/ SendClose(e)
    \/ Disconnect

Spec == Init /\ [][Next]_vars

-----------------------------------------------------------------------------
(* Every variable keeps to its type. *)
TypeOK ==
    /\ documents \in [Uris -> Document \cup {Absent}]
    /\ step \in [Editors -> Steps]
    /\ uri \in [Editors -> Uris]
    /\ document \in [Editors -> Document \cup {Absent}]
    /\ connected \in BOOLEAN
    /\ server \in [Uris -> Document \cup {Absent}]
    /\ complaints \in [Uris -> SUBSET {"didOpen", "didChange", "didClose"}]
    /\ apart \in [Uris -> Partings]

(* Each URI is opened and closed by one editor at most. *)
Exclusive ==
    \A e, f \in Editors, u \in Uris : <<e, u>> \in Owns /\ <<f, u>> \in Owns => e = f

Settled(u) == \A e \in Editors : step[e] # "idle" => uri[e] # u

(***************************************************************************)
(* What is in the overlay is what the server has, when no call is under    *)
(* way for the document and nothing has set the two apart since it was     *)
(* last opened or closed: "synchronized with an LspClient" (LspOverlay),   *)
(* "consistent with local in-memory state" (LspClient::overlay).           *)
(***************************************************************************)
Synchronized ==
    \A u \in Uris : Settled(u) /\ apart[u] = "no" => documents[u] = server[u]

(***************************************************************************)
(* Whatever fails, the server has every document that is in the overlay,   *)
(* at no higher version: nothing that change sends is out of place.        *)
(***************************************************************************)
ServerBehind ==
    \A u \in Uris : documents[u] # Absent =>
        /\ server[u] # Absent
        /\ server[u].version <= documents[u].version

(***************************************************************************)
(* The overlay emits "valid didOpen / didChange / didClose sequences" and  *)
(* keeps "version numbers monotonic" (LspOverlay).  The server has to put  *)
(* up with one thing, the didOpen after a didClose that was refused.       *)
(***************************************************************************)
Sequence == INSTANCE DocumentSequence WITH
    latest   <- [u \in Uris |-> IF server[u] = Absent THEN 0 ELSE server[u].version],
    unclosed <- {u \in Uris : apart[u] = "unclosed"}

ValidSequence == Sequence!Spec
=============================================================================
