--------------------------- MODULE DocumentProofs ----------------------------
(***************************************************************************)
(* Proofs about LspOverlay for any numbers of editors, documents and       *)
(* changes, about VirtualDocument for any texts and any batches of changes, *)
(* and about the parts of MCDocuments together.                            *)
(*                                                                         *)
(* Texts.  The code walks a text character by character and counts what each *)
(* takes; a position of the LSP counts units in a line.  The two agree since *)
(* the units of a text are those of its characters one after the other: the *)
(* offsets at which a position may be read are where characters start, and *)
(* the walk stops at the only one the position names, or at none.          *)
(***************************************************************************)
EXTENDS MCDocuments, SpanProofs

(* Nothing is known of texts but that some are in Texts. *)
USE OverlayAssumption

(***************************************************************************)
(* TypeOK is inductive by itself.                                          *)
(***************************************************************************)
LEMMA TypesStep == TypeOK /\ [Next]_vars => TypeOK'
<1> SUFFICES ASSUME TypeOK, [Next]_vars PROVE TypeOK'
    OBVIOUS
<1> USE DEF TypeOK, Document, Steps, Partings, call, peer, Complain
<1>1. ASSUME NEW e \in Editors, NEW u \in Uris, CheckAbsent(e, u) PROVE TypeOK'
    BY <1>1 DEF CheckAbsent, NewDocument
<1>2. ASSUME NEW e \in Editors, SendOpen(e) PROVE TypeOK'
    BY <1>2 DEF SendOpen, Accepted, Unsent, DidOpen
<1>3. ASSUME NEW e \in Editors, InsertDocument(e) PROVE TypeOK'
    BY <1>3 DEF InsertDocument
<1>4. ASSUME NEW e \in Editors, NEW u \in Uris, NEW batch \in Batches,
             Change(e, u, batch)
      PROVE  TypeOK'
  <2> USE <1>4 DEF Change, Edited
  <2>1. documents' \in [Uris -> Document \cup {Absent}]
      OBVIOUS
  <2>2. server' \in [Uris -> Document \cup {Absent}]
      BY DEF Accepted, Unsent, DidChange
  <2>3. complaints' \in [Uris -> SUBSET {"didOpen", "didChange", "didClose"}]
      BY DEF Accepted, Unsent, DidChange
  <2>4. apart' \in [Uris -> Partings]
      BY DEF Accepted, Unsent, DidChange
  <2>5. UNCHANGED <<step, uri, document, connected>>
      OBVIOUS
  <2> QED
      BY <2>1, <2>2, <2>3, <2>4, <2>5
<1>5. ASSUME NEW e \in Editors, NEW u \in Uris, RemoveDocument(e, u) PROVE TypeOK'
    BY <1>5 DEF RemoveDocument
<1>6. ASSUME NEW e \in Editors, SendClose(e) PROVE TypeOK'
    BY <1>6 DEF SendClose, Accepted, Unsent, DidClose
<1>7. CASE Disconnect
    BY <1>7 DEF Disconnect
<1>8. CASE UNCHANGED vars
    BY <1>8 DEF vars
<1> QED
    BY <1>1, <1>2, <1>3, <1>4, <1>5, <1>6, <1>7, <1>8 DEF Next

(* Every variable keeps to its type. *)
THEOREM TypeCorrect == Spec => []TypeOK
<1>1. Init => TypeOK
    BY DEF Init, TypeOK, Steps, Partings
<1> QED
    BY <1>1, TypesStep, PTL DEF Spec

-----------------------------------------------------------------------------
(***************************************************************************)
(* Where a document is while its editor opens or closes it.  Only the      *)
(* owner opens and closes, so between its steps the document stays out of  *)
(* the overlay and nothing is sent about it.                               *)
(***************************************************************************)
OwnerActs ==
    \A e \in Editors : step[e] # "idle" => <<e, uri[e]>> \in Owns

OutOfOverlay ==
    \A e \in Editors : step[e] # "idle" => documents[uri[e]] = Absent

InsertsWhatIsOpen ==
    \A e \in Editors : step[e] = "inserting" => server[uri[e]] = document[e]

DocumentAtHand ==
    \A e \in Editors : step[e] \in {"opening", "inserting"} => document[e] \in Document

ClosesWhatIsOpen ==
    \A e \in Editors : step[e] = "closing" => server[uri[e]] # Absent

IInv ==
    /\ TypeOK
    /\ OwnerActs
    /\ OutOfOverlay
    /\ InsertsWhatIsOpen
    /\ DocumentAtHand
    /\ ClosesWhatIsOpen
    /\ ServerBehind

USE DEF OwnerActs, OutOfOverlay, InsertsWhatIsOpen, DocumentAtHand,
        ClosesWhatIsOpen, ServerBehind

(* Two editors that are both opening or closing are not at one document. *)
LEMMA OwnerAlone ==
    ASSUME Exclusive, OwnerActs, uri \in [Editors -> Uris],
           NEW e \in Editors, step[e] # "idle",
           NEW f \in Editors, step[f] # "idle", f # e
    PROVE  uri[f] # uri[e]
<1>1. <<e, uri[e]>> \in Owns /\ <<f, uri[f]>> \in Owns
    BY DEF OwnerActs
<1>2. uri[e] \in Uris
    OBVIOUS
<1>3. ASSUME uri[f] = uri[e] PROVE FALSE
    <2>1. <<f, uri[e]>> \in Owns
        BY <1>1, <1>3
    <2> QED
        BY <1>1, <1>2, <2>1 DEF Exclusive
<1> QED
    BY <1>3

LEMMA IInvStep == Exclusive /\ IInv /\ [Next]_vars => IInv'
<1> SUFFICES ASSUME Exclusive, IInv, [Next]_vars PROVE IInv'
    OBVIOUS
<1>0. TypeOK /\ TypeOK'
    BY TypesStep DEF IInv
<1> USE <1>0 DEF IInv, TypeOK, Document, Steps, Partings, call, peer, Complain
<1>1. ASSUME NEW e \in Editors, NEW u \in Uris, CheckAbsent(e, u)
      PROVE  IInv'
  <2>1. OwnerActs'
      BY <1>1 DEF CheckAbsent, NewDocument
  <2>2. OutOfOverlay'
      BY <1>1 DEF CheckAbsent, NewDocument
  <2>3. InsertsWhatIsOpen'
      BY <1>1 DEF CheckAbsent, NewDocument
  <2>4. DocumentAtHand'
      BY <1>1 DEF CheckAbsent, NewDocument
  <2>5. ClosesWhatIsOpen'
      BY <1>1 DEF CheckAbsent, NewDocument
  <2>6. ServerBehind'
      BY <1>1 DEF CheckAbsent, NewDocument
  <2> QED
      BY <2>1, <2>2, <2>3, <2>4, <2>5, <2>6
<1>2. ASSUME NEW e \in Editors, SendOpen(e)
      PROVE  IInv'
  <2>1. OwnerActs'
      BY <1>2 DEF SendOpen, Accepted, Unsent, DidOpen, Exclusive
  <2>2. OutOfOverlay'
      BY <1>2 DEF SendOpen, Accepted, Unsent, DidOpen, Exclusive
  <2>0. ASSUME NEW f \in Editors, f # e, step[f] # "idle"
        PROVE  uri[f] # uri[e]
      <3>1. step[e] # "idle"
          BY <1>2 DEF SendOpen
      <3> QED
          BY <2>0, <3>1, OwnerAlone
  <2>3. InsertsWhatIsOpen'
      <3>1. ASSUME NEW f \in Editors, step'[f] = "inserting"
            PROVE  server'[uri'[f]] = document'[f]
          <4>1. CASE f = e
              BY <1>2, <3>1, <4>1 DEF SendOpen, Accepted, Unsent, DidOpen
          <4>2. CASE f # e
              BY <1>2, <2>0, <3>1, <4>2 DEF SendOpen, Accepted, Unsent, DidOpen
          <4> QED
              BY <4>1, <4>2
      <3> QED
          BY <3>1
  <2>4. DocumentAtHand'
      BY <1>2 DEF SendOpen, Accepted, Unsent, DidOpen, Exclusive
  <2>5. ClosesWhatIsOpen'
      BY <1>2 DEF SendOpen, Accepted, Unsent, DidOpen, Exclusive
  <2>6. ServerBehind'
      BY <1>2 DEF SendOpen, Accepted, Unsent, DidOpen, Exclusive
  <2> QED
      BY <2>1, <2>2, <2>3, <2>4, <2>5, <2>6
<1>3. ASSUME NEW e \in Editors, InsertDocument(e)
      PROVE  IInv'
  <2>1. OwnerActs'
      BY <1>3 DEF InsertDocument, Exclusive
  <2>2. OutOfOverlay'
      BY <1>3, ZenonT(40) DEF InsertDocument, Exclusive
  <2>3. InsertsWhatIsOpen'
      BY <1>3 DEF InsertDocument, Exclusive
  <2>4. DocumentAtHand'
      BY <1>3 DEF InsertDocument, Exclusive
  <2>5. ClosesWhatIsOpen'
      BY <1>3 DEF InsertDocument, Exclusive
  <2>6. ServerBehind'
      BY <1>3 DEF InsertDocument, Exclusive
  <2> QED
      BY <2>1, <2>2, <2>3, <2>4, <2>5, <2>6
<1>4. ASSUME NEW e \in Editors, NEW u \in Uris,
             NEW batch \in Batches, Change(e, u, batch)
      PROVE  IInv'
  <2>1. OwnerActs'
      BY <1>4 DEF Change, Edited, Accepted, Unsent, DidChange
  <2>2. OutOfOverlay'
      BY <1>4 DEF Change, Edited, Accepted, Unsent, DidChange
  <2>3. InsertsWhatIsOpen'
      BY <1>4 DEF Change, Edited, Accepted, Unsent, DidChange
  <2>4. DocumentAtHand'
      BY <1>4 DEF Change, Edited, Accepted, Unsent, DidChange
  <2>5. ClosesWhatIsOpen'
      BY <1>4 DEF Change, Edited, Accepted, Unsent, DidChange
  <2>6. ServerBehind'
      BY <1>4 DEF Change, Edited, Accepted, Unsent, DidChange
  <2> QED
      BY <2>1, <2>2, <2>3, <2>4, <2>5, <2>6
<1>5. ASSUME NEW e \in Editors, NEW u \in Uris, RemoveDocument(e, u)
      PROVE  IInv'
  <2>1. OwnerActs'
      BY <1>5 DEF RemoveDocument
  <2>2. OutOfOverlay'
      BY <1>5 DEF RemoveDocument
  <2>3. InsertsWhatIsOpen'
      BY <1>5 DEF RemoveDocument
  <2>4. DocumentAtHand'
      BY <1>5 DEF RemoveDocument
  <2>5. ClosesWhatIsOpen'
      BY <1>5 DEF RemoveDocument
  <2>6. ServerBehind'
      BY <1>5 DEF RemoveDocument
  <2> QED
      BY <2>1, <2>2, <2>3, <2>4, <2>5, <2>6
<1>6. ASSUME NEW e \in Editors, SendClose(e)
      PROVE  IInv'
  <2>1. OwnerActs'
      BY <1>6 DEF SendClose, Accepted, Unsent, DidClose, Exclusive
  <2>2. OutOfOverlay'
      BY <1>6 DEF SendClose, Accepted, Unsent, DidClose, Exclusive
  <2>0. ASSUME NEW f \in Editors, f # e, step[f] # "idle"
        PROVE  uri[f] # uri[e]
      <3>1. step[e] # "idle"
          BY <1>6 DEF SendClose
      <3> QED
          BY <2>0, <3>1, OwnerAlone
  <2>3. InsertsWhatIsOpen'
      <3>1. ASSUME NEW f \in Editors, step'[f] = "inserting"
            PROVE  server'[uri'[f]] = document'[f]
          <4>1. f # e /\ step[f] = "inserting"
              BY <1>6, <3>1 DEF SendClose
          <4> QED
              BY <1>6, <2>0, <4>1 DEF SendClose, Accepted, Unsent, DidClose
      <3> QED
          BY <3>1
  <2>4. DocumentAtHand'
      BY <1>6 DEF SendClose, Accepted, Unsent, DidClose, Exclusive
  <2>5. ClosesWhatIsOpen'
      <3>1. ASSUME NEW f \in Editors, step'[f] = "closing"
            PROVE  server'[uri'[f]] # Absent
          <4>1. f # e
              BY <1>6, <3>1 DEF SendClose
          <4> QED
              BY <1>6, <2>0, <3>1, <4>1 DEF SendClose, Accepted, Unsent, DidClose
      <3> QED
          BY <3>1
  <2>6. ServerBehind'
      BY <1>6 DEF SendClose, Accepted, Unsent, DidClose, Exclusive
  <2> QED
      BY <2>1, <2>2, <2>3, <2>4, <2>5, <2>6
<1>7. CASE Disconnect
    BY <1>7 DEF Disconnect
<1>8. CASE UNCHANGED vars
    BY <1>8 DEF vars
<1> QED
    BY <1>1, <1>2, <1>3, <1>4, <1>5, <1>6, <1>7, <1>8 DEF Next

LEMMA IInvHolds == Exclusive => (Spec => []IInv)
<1> SUFFICES ASSUME Exclusive PROVE Spec => []IInv
    OBVIOUS
<1>1. Init => IInv
    BY DEF Init, IInv, TypeOK, Steps, Partings
<1>2. IInv /\ [Next]_vars => IInv'
    BY IInvStep
<1> QED
    BY <1>1, <1>2, PTL DEF Spec

(***************************************************************************)
(* Whatever is refused, the server has what is in the overlay, at no       *)
(* higher version.                                                         *)
(***************************************************************************)
THEOREM Behind == Exclusive => (Spec => []ServerBehind)
BY IInvHolds, PTL DEF IInv

-----------------------------------------------------------------------------
(***************************************************************************)
(* The overlay and the server have the same documents open, but for those  *)
(* whose didClose was refused: these the server alone has.                 *)
(***************************************************************************)
NotYetOpen ==
    \A e \in Editors : step[e] = "opening" =>
        server[uri[e]] = Absent \/ apart[uri[e]] = "unclosed"

ClosedOnBothSides ==
    \A u \in Uris : Settled(u) /\ documents[u] = Absent =>
        server[u] = Absent \/ apart[u] = "unclosed"

UnclosedOnServer ==
    \A u \in Uris : apart[u] = "unclosed" => server[u] # Absent /\ documents[u] = Absent

OwnedAgain ==
    \A e \in Editors : step[e] \in {"inserting", "closing"} => apart[uri[e]] # "unclosed"

InStep ==
    /\ NotYetOpen
    /\ ClosedOnBothSides
    /\ UnclosedOnServer
    /\ OwnedAgain
    /\ Synchronized

USE DEF NotYetOpen, ClosedOnBothSides, UnclosedOnServer, OwnedAgain, Synchronized

(* The owner of a document finds it settled. *)
LEMMA OwnerFindsSettled ==
    ASSUME Exclusive, OwnerActs, NEW e \in Editors, step[e] = "idle",
           NEW u \in Uris, <<e, u>> \in Owns
    PROVE  Settled(u)
<1>1. ASSUME NEW f \in Editors, step[f] # "idle", uri[f] = u PROVE FALSE
    <2>1. <<f, u>> \in Owns
        BY <1>1 DEF OwnerActs
    <2>2. f = e
        BY <2>1 DEF Exclusive
    <2> QED
        BY <1>1, <2>2
<1> QED
    BY <1>1 DEF Settled

LEMMA InStepStep == Exclusive /\ IInv /\ InStep /\ [Next]_vars => InStep'
<1> SUFFICES ASSUME Exclusive, IInv, InStep, [Next]_vars PROVE InStep'
    OBVIOUS
<1>0. TypeOK'
    BY TypesStep DEF IInv
<1> USE <1>0 DEF IInv, TypeOK, Document, Steps, Partings, call, peer, InStep
<1>1. ASSUME NEW e \in Editors, NEW u \in Uris, CheckAbsent(e, u)
      PROVE  InStep'
  <2>0. Settled(u)
      BY <1>1, OwnerFindsSettled DEF CheckAbsent
  <2>1. NotYetOpen'
      BY <1>1, <2>0 DEF CheckAbsent, Settled
  <2>2. ClosedOnBothSides'
      BY <1>1, <2>0 DEF CheckAbsent, Settled
  <2>3. UnclosedOnServer'
      BY <1>1, <2>0 DEF CheckAbsent, Settled
  <2>4. OwnedAgain'
      BY <1>1, <2>0 DEF CheckAbsent, Settled
  <2>5. Synchronized'
      BY <1>1, <2>0 DEF CheckAbsent, Settled
  <2> QED
      BY <2>1, <2>2, <2>3, <2>4, <2>5
<1>2. ASSUME NEW e \in Editors, SendOpen(e)
      PROVE  InStep'
  <2>0. ASSUME NEW f \in Editors, f # e, step[f] # "idle"
        PROVE  uri[f] # uri[e]
      <3>1. step[e] # "idle"
          BY <1>2 DEF SendOpen
      <3> QED
          BY <2>0, <3>1, OwnerAlone
  <2>1. NotYetOpen'
      BY <1>2, <2>0 DEF SendOpen, Accepted, Unsent, DidOpen, Settled
  <2>2. ClosedOnBothSides'
      BY <1>2, <2>0 DEF SendOpen, Accepted, Unsent, DidOpen, Settled
  <2>3. UnclosedOnServer'
      BY <1>2, <2>0 DEF SendOpen, Accepted, Unsent, DidOpen, Settled
  <2>4. OwnedAgain'
      BY <1>2, <2>0 DEF SendOpen, Accepted, Unsent, DidOpen, Settled
  <2>5. Synchronized'
      BY <1>2, <2>0 DEF SendOpen, Accepted, Unsent, DidOpen, Settled
  <2> QED
      BY <2>1, <2>2, <2>3, <2>4, <2>5
<1>3. ASSUME NEW e \in Editors, InsertDocument(e)
      PROVE  InStep'
  <2>0. ASSUME NEW f \in Editors, f # e, step[f] # "idle"
        PROVE  uri[f] # uri[e]
      <3>1. step[e] # "idle"
          BY <1>3 DEF InsertDocument
      <3> QED
          BY <2>0, <3>1, OwnerAlone
  <2>1. NotYetOpen'
      BY <1>3, <2>0 DEF InsertDocument, Settled
  <2>2. ClosedOnBothSides'
      BY <1>3, <2>0 DEF InsertDocument, Settled
  <2>3. UnclosedOnServer'
      BY <1>3, <2>0 DEF InsertDocument, Settled
  <2>4. OwnedAgain'
      BY <1>3, <2>0 DEF InsertDocument, Settled
  <2>5. Synchronized'
      BY <1>3, <2>0 DEF InsertDocument, Settled
  <2> QED
      BY <2>1, <2>2, <2>3, <2>4, <2>5
<1>4. ASSUME NEW e \in Editors, NEW u \in Uris, NEW batch \in Batches,
             Change(e, u, batch)
      PROVE  InStep'
  <2>0. /\ server[u] # Absent
        /\ server'[u] # Absent
        /\ apart'[u] # "unclosed"
        /\ documents'[u] # Absent
      BY <1>4 DEF Change, Edited, Accepted, Unsent, DidChange
  <2>6. ASSUME NEW w \in Uris, w # u
        PROVE  /\ server'[w] = server[w]
               /\ documents'[w] = documents[w]
               /\ apart'[w] = apart[w]
      BY <1>4, <2>6 DEF Change, Accepted, Unsent, DidChange
  <2>7. ASSUME apart'[u] = "no"
        PROVE  documents'[u] = server'[u]
    <3>1. Settled(u)
        BY <1>4 DEF Change, Settled
    <3> DEFINE outcome == ApplyChanges(documents[u].text, batch)
               edited  == Edited(documents[u], batch)
    <3>2. CASE outcome.ok /\ Accepted /\ DidChange(u, edited.version, batch)
      <4>1. documents[u] = server[u]
          BY <2>7, <3>1, <3>2 DEF DidChange
      <4> QED
          BY <1>4, <3>2, <4>1 DEF Change, Edited, DidChange
    <3>3. CASE UNCHANGED peer /\ ~outcome.ok /\ edited.text = documents[u].text
      <4>1. documents[u] = server[u]
          BY <2>7, <3>1, <3>3
      <4>2. documents[u] \in Document
          BY <1>4 DEF Change
      <4>3. edited = documents[u]
          BY <3>3, <4>2 DEF Edited
      <4> QED
          BY <1>4, <3>3, <4>1, <4>3 DEF Change
    <3>4. CASE Unsent(u, "edited")
        BY <2>7, <3>4 DEF Unsent
    <3> QED
        BY <1>4, <3>2, <3>3, <3>4 DEF Change
  <2>1. NotYetOpen'
      BY <1>4, <2>0, <2>6, <2>7 DEF Change, Settled
  <2>2. ClosedOnBothSides'
      BY <1>4, <2>0, <2>6, <2>7 DEF Change, Settled
  <2>3. UnclosedOnServer'
      BY <1>4, <2>0, <2>6, <2>7 DEF Change, Settled
  <2>4. OwnedAgain'
      BY <1>4, <2>0, <2>6, <2>7 DEF Change, Settled
  <2>5. Synchronized'
      BY <1>4, <2>0, <2>6, <2>7 DEF Change, Settled
  <2> QED
      BY <2>1, <2>2, <2>3, <2>4, <2>5
<1>5. ASSUME NEW e \in Editors, NEW u \in Uris, RemoveDocument(e, u)
      PROVE  InStep'
  <2>0. Settled(u)
      BY <1>5, OwnerFindsSettled DEF RemoveDocument
  <2>1. NotYetOpen'
      BY <1>5, <2>0 DEF RemoveDocument, Settled
  <2>2. ClosedOnBothSides'
      BY <1>5, <2>0 DEF RemoveDocument, Settled
  <2>3. UnclosedOnServer'
      BY <1>5, <2>0 DEF RemoveDocument, Settled
  <2>4. OwnedAgain'
      BY <1>5, <2>0 DEF RemoveDocument, Settled
  <2>5. Synchronized'
      BY <1>5, <2>0 DEF RemoveDocument, Settled
  <2> QED
      BY <2>1, <2>2, <2>3, <2>4, <2>5
<1>6. ASSUME NEW e \in Editors, SendClose(e)
      PROVE  InStep'
  <2>0. ASSUME NEW f \in Editors, f # e, step[f] # "idle"
        PROVE  uri[f] # uri[e]
      <3>1. step[e] # "idle"
          BY <1>6 DEF SendClose
      <3> QED
          BY <2>0, <3>1, OwnerAlone
  <2>1. NotYetOpen'
      BY <1>6, <2>0 DEF SendClose, Accepted, Unsent, DidClose, Settled
  <2>2. ClosedOnBothSides'
      BY <1>6, <2>0 DEF SendClose, Accepted, Unsent, DidClose, Settled
  <2>3. UnclosedOnServer'
      BY <1>6, <2>0 DEF SendClose, Accepted, Unsent, DidClose, Settled
  <2>4. OwnedAgain'
      BY <1>6, <2>0 DEF SendClose, Accepted, Unsent, DidClose, Settled
  <2>5. Synchronized'
      BY <1>6, <2>0 DEF SendClose, Accepted, Unsent, DidClose, Settled
  <2> QED
      BY <2>1, <2>2, <2>3, <2>4, <2>5
<1>7. CASE Disconnect
    BY <1>7 DEF Disconnect, Settled
<1>8. CASE UNCHANGED vars
    BY <1>8 DEF vars, Settled
<1> QED
    BY <1>1, <1>2, <1>3, <1>4, <1>5, <1>6, <1>7, <1>8 DEF Next

LEMMA InStepHolds == Exclusive => (Spec => []InStep)
<1> SUFFICES ASSUME Exclusive PROVE Spec => []InStep
    OBVIOUS
<1>1. Init => InStep
    BY DEF Init, InStep
<1>2. IInv /\ InStep /\ [Next]_vars => InStep'
    BY InStepStep
<1>3. Spec => []IInv
    BY IInvHolds
<1> QED
    BY <1>1, <1>2, <1>3, PTL DEF Spec

(***************************************************************************)
(* With one owner per document, the overlay is what the server has unless  *)
(* a change or a didClose that the server did not get set them apart.      *)
(***************************************************************************)
THEOREM InSync == Exclusive => (Spec => []Synchronized)
BY InStepHolds, PTL DEF InStep

-----------------------------------------------------------------------------
(***************************************************************************)
(* The refinement.  Each notification, and the refusal of a didClose, is a *)
(* step of DocumentSequence; everything else is a stutter.                 *)
(***************************************************************************)
Latest == [u \in Uris |-> IF server[u] = Absent THEN 0 ELSE server[u].version]

Unclosed == {u \in Uris : apart[u] = "unclosed"}

(* What a document shows when nothing but it changes on the server. *)
LEMMA ShowsOne ==
    ASSUME TypeOK, TypeOK', NEW u \in Uris,
           \A w \in Uris : w # u => server'[w] = server[w]
    PROVE  Sequence!Show(u)
<1>1. Latest \in [Uris -> Nat] /\ Latest' \in [Uris -> Nat]
    BY DEF Latest, TypeOK, Document
<1>2. \A w \in Uris : w # u => Latest'[w] = Latest[w]
    BY DEF Latest
<1>3. Latest' = [Latest EXCEPT ![u] = Latest'[u]]
    BY <1>1, <1>2
<1> QED
    BY <1>1, <1>3 DEF Sequence!Show, Latest

LEMMA StepRefines ==
    ASSUME Exclusive, IInv, InStep, [Next]_vars
    PROVE  [Sequence!Next]_Sequence!seen
<1> DEFINE Goal == [Sequence!Next]_Sequence!seen
<1>0. TypeOK /\ TypeOK'
    BY TypesStep DEF IInv
<1>1. ASSUME NEW u \in Uris,
             \/ Sequence!DidOpen(u) \/ Sequence!DidChange(u) \/ Sequence!DidClose(u)
             \/ Sequence!LoseClose(u) \/ Sequence!Reopen(u)
      PROVE  Goal
    BY <1>1 DEF Sequence!Next
<1>2. ASSUME server' = server, complaints' = complaints, Unclosed' = Unclosed
      PROVE  Goal
    BY <1>2 DEF Sequence!seen, Unclosed
<1>3. ASSUME NEW e \in Editors, SendOpen(e) PROVE Goal
  <2>0. PICK u \in Uris : u = uri[e]
      BY <1>0 DEF TypeOK
  <2>1. CASE Unsent(u, apart[u])
    <3>1. apart' = apart
        BY <1>0, <2>1 DEF Unsent, TypeOK
    <3> QED
        BY <1>2, <2>1, <3>1 DEF Unsent, Unclosed
  <2>2. CASE Accepted /\ DidOpen(u, document[e])
    <3>1. document[e] \in Document
        BY <1>0, <1>3 DEF SendOpen, TypeOK, IInv
    <3>2. server'[u] = document[e] /\ \A w \in Uris : w # u => server'[w] = server[w]
        BY <1>0, <2>2, <3>1 DEF DidOpen, TypeOK
    <3>3. Sequence!Show(u)
        BY <1>0, <3>1, <3>2, ShowsOne
    <3>4. Latest'[u] \in Nat /\ Latest'[u] > 0
        BY <1>0, <3>1, <3>2 DEF Latest, TypeOK, Document
    <3>5. apart' = [apart EXCEPT ![u] = "no"]
        BY <2>2 DEF DidOpen
    <3>6. Unclosed' = Unclosed \ {u}
        BY <1>0, <3>5 DEF Unclosed, TypeOK
    <3>7. CASE server[u] = Absent
      <4>1. Latest[u] = 0
          BY <3>1, <3>7 DEF Latest
      <4>2. UNCHANGED complaints
          BY <2>2, <3>7 DEF DidOpen, Complain
      <4>3. u \notin Unclosed
          BY <3>7 DEF Unclosed, InStep
      <4>4. Unclosed' = Unclosed
          BY <3>6, <4>3
      <4>5. Sequence!DidOpen(u)
          BY <3>3, <3>4, <4>1, <4>2, <4>4 DEF Sequence!DidOpen, Latest, Unclosed
      <4> QED
          BY <1>1, <3>1, <4>5
    <3>8. CASE server[u] # Absent
      <4>1. complaints' = [complaints EXCEPT ![u] = @ \cup {"didOpen"}]
          BY <2>2, <3>8 DEF DidOpen, Complain
      <4>2. u \in Unclosed
          BY <1>3, <2>0, <3>8 DEF SendOpen, InStep, Unclosed
      <4>3. Sequence!Reopen(u)
          BY <3>3, <3>4, <3>6, <4>1, <4>2 DEF Sequence!Reopen, Latest, Unclosed
      <4> QED
          BY <1>1, <3>1, <4>3
    <3> QED
        BY <3>7, <3>8
  <2> QED
      BY <1>3, <2>0, <2>1, <2>2 DEF SendOpen
<1>4. ASSUME NEW e \in Editors, NEW u \in Uris, NEW batch \in Batches,
             Change(e, u, batch)
      PROVE  Goal
  <2> DEFINE outcome == ApplyChanges(documents[u].text, batch)
             edited  == Edited(documents[u], batch)
  <2>0. /\ u \notin Unclosed
        /\ Sequence!Open(u)
    <3>1. documents[u] # Absent /\ documents[u] \in Document
        BY <1>0, <1>4 DEF Change, TypeOK
    <3>2. server[u] # Absent /\ server[u] \in Document
        BY <1>0, <3>1 DEF TypeOK, IInv
    <3>3. u \notin Unclosed
        BY <3>1 DEF Unclosed, InStep
    <3>4. Latest[u] > 0
        BY <3>2 DEF Latest, Document
    <3> QED
        BY <3>3, <3>4 DEF Sequence!Open, Latest, Unclosed
  <2>1. CASE Unsent(u, "edited")
    <3>1. Unclosed' = Unclosed
        BY <1>0, <2>0, <2>1 DEF Unsent, Unclosed, TypeOK
    <3> QED
        BY <1>2, <2>1, <3>1 DEF Unsent
  <2>2. CASE UNCHANGED peer
      BY <1>2, <2>2 DEF peer, Unclosed
  <2>3. CASE outcome.ok /\ Accepted /\ DidChange(u, edited.version, batch)
    <3>1. /\ documents[u] \in Document
          /\ server[u] \in Document
          /\ server[u].version <= documents[u].version
        BY <1>0, <1>4 DEF Change, TypeOK, IInv
    <3>2. edited.version = documents[u].version + 1
        BY <2>3 DEF Edited
    <3>3. server[u] # Absent
        BY <1>4 DEF Change, IInv
    <3>4. /\ server'[u] # Absent
          /\ server'[u].version = edited.version
          /\ \A w \in Uris : w # u => server'[w] = server[w]
        BY <1>0, <2>3, <3>1, <3>2, <3>3 DEF DidChange, TypeOK, Document
    <3>5. Sequence!Show(u)
        BY <1>0, <3>4, ShowsOne
    <3>6. Latest'[u] > Latest[u]
        BY <3>1, <3>2, <3>3, <3>4 DEF Latest, Document
    <3>7. UNCHANGED complaints /\ UNCHANGED Unclosed
        BY <2>3, <3>1, <3>2, <3>3 DEF Document, DidChange, Complain, Unclosed
    <3>8. Sequence!DidChange(u)
        BY <2>0, <3>5, <3>6, <3>7 DEF Sequence!DidChange, Latest, Unclosed
    <3> QED
        BY <1>1, <3>8
  <2> QED
      BY <1>4, <2>1, <2>2, <2>3 DEF Change
<1>5. ASSUME NEW e \in Editors, SendClose(e) PROVE Goal
  <2>0. PICK u \in Uris : u = uri[e]
      BY <1>0 DEF TypeOK
  <2>1. server[u] # Absent /\ server[u] \in Document
      BY <1>0, <1>5, <2>0 DEF SendClose, TypeOK, IInv
  <2>2. u \notin Unclosed
      BY <1>5, <2>0 DEF SendClose, Unclosed, InStep
  <2>3. Latest[u] > 0
      BY <2>1 DEF Latest, Document
  <2>4. Sequence!Open(u)
      BY <2>2, <2>3 DEF Sequence!Open, Latest, Unclosed
  <2>5. CASE Unsent(u, "unclosed")
    <3>1. Unclosed' = Unclosed \cup {u}
        BY <1>0, <2>5 DEF Unsent, Unclosed, TypeOK
    <3>2. Sequence!LoseClose(u)
        BY <2>4, <2>5, <3>1 DEF Sequence!LoseClose, Unsent, Unclosed
    <3> QED
        BY <1>1, <3>2
  <2>6. CASE Accepted /\ DidClose(u)
    <3>1. server'[u] = Absent /\ \A w \in Uris : w # u => server'[w] = server[w]
        BY <1>0, <2>6 DEF DidClose, TypeOK
    <3>2. Sequence!Show(u)
        BY <1>0, <3>1, ShowsOne
    <3>3. Latest'[u] = 0
        BY <3>1 DEF Latest
    <3>4. UNCHANGED complaints
        BY <2>1, <2>6 DEF DidClose, Complain
    <3>5. apart' = [apart EXCEPT ![u] = "no"]
        BY <2>6 DEF DidClose
    <3>6. Unclosed' = Unclosed
        BY <1>0, <2>2, <3>5 DEF Unclosed, TypeOK
    <3>7. Sequence!DidClose(u)
        BY <2>4, <3>2, <3>3, <3>4, <3>6 DEF Sequence!DidClose, Latest, Unclosed
    <3> QED
        BY <1>1, <3>7
  <2> QED
      BY <1>5, <2>0, <2>5, <2>6 DEF SendClose
<1>6. ASSUME NEW e \in Editors, NEW u \in Uris,
             CheckAbsent(e, u) \/ RemoveDocument(e, u)
      PROVE  Goal
    BY <1>2, <1>6 DEF CheckAbsent, RemoveDocument, peer, Unclosed
<1>7. ASSUME NEW e \in Editors, InsertDocument(e) PROVE Goal
    BY <1>2, <1>7 DEF InsertDocument, peer, Unclosed
<1>8. CASE Disconnect
    BY <1>2, <1>8 DEF Disconnect, peer, Unclosed
<1>9. CASE UNCHANGED vars
    BY <1>2, <1>9 DEF vars, Unclosed
<1> QED
    BY <1>3, <1>4, <1>5, <1>6, <1>7, <1>8, <1>9 DEF Next

(***************************************************************************)
(* The notifications of an overlay whose documents have one owner each are *)
(* a sequence that DocumentSequence allows.                                *)
(***************************************************************************)
THEOREM Refinement == Exclusive => (Spec => ValidSequence)
<1> SUFFICES ASSUME Exclusive PROVE Spec => ValidSequence
    OBVIOUS
<1>1. Init => Sequence!Init
    BY DEF Init, Sequence!Init
<1>2. Spec => []IInv
    BY IInvHolds
<1>3. Spec => []InStep
    BY InStepHolds
<1>4. IInv /\ InStep /\ [Next]_vars => [Sequence!Next]_Sequence!seen
    BY StepRefines
<1> QED
    BY <1>1, <1>2, <1>3, <1>4, PTL DEF Spec, ValidSequence, Sequence!Spec

-----------------------------------------------------------------------------
(* Texts and their units *)

\* What a UTF-16 text is made of.
UnitSet == Characters \cup {"high", "low"}

\* The recursive function of Units: the units of each part of a text.
UnitsTo(chars) ==
    CHOOSE units : units = [n \in 0 .. Len(chars) |->
        IF n = 0 THEN <<>> ELSE units[n - 1] \o UnitsOf(chars[n])]

\* How many units the first n characters take.
Width(chars, n) == Len(UnitsTo(chars)[n])

\* Units by that function.
LEMMA UnitsByParts == ASSUME NEW chars PROVE Units(chars) = UnitsTo(chars)[Len(chars)]
  BY Zenon DEF Units, UnitsTo

\* The units of a character.
LEMMA UnitsOfTyped ==
    ASSUME NEW ch \in Characters
    PROVE  /\ UnitsOf(ch) \in Seq(UnitSet)
           /\ ch = Wide => Len(UnitsOf(ch)) = 2 /\ UnitsOf(ch)[1] = "high" /\ UnitsOf(ch)[2] = "low"
           /\ ch # Wide => Len(UnitsOf(ch)) = 1 /\ UnitsOf(ch)[1] = ch
<1>1. CASE ch = Wide
  BY <1>1 DEF UnitsOf, UnitSet
<1>2. CASE ch # Wide
  BY <1>2 DEF UnitsOf, UnitSet
<1> QED BY <1>1, <1>2

\* The units are those of the first character, and then of the second, and so on.
LEMMA UnitsGrow ==
    ASSUME NEW chars \in Seq(Characters)
    PROVE  /\ \A n \in 0 .. Len(chars) : UnitsTo(chars)[n] \in Seq(UnitSet)
           /\ UnitsTo(chars)[0] = <<>>
           /\ \A n \in 1 .. Len(chars) :
                  UnitsTo(chars)[n] = UnitsTo(chars)[n - 1] \o UnitsOf(chars[n])
<1> DEFINE N == Len(chars)
           S == Seq(UnitSet)
           onward == [n \in 1 .. N |-> [s \in S |-> s \o UnitsOf(chars[n])]]
<1>1. N \in Nat /\ <<>> \in S
  BY LenProperties, EmptySeq
<1>2. ASSUME NEW n \in 1 .. N, NEW s \in S PROVE onward[n][s] \in S
  <2>1. chars[n] \in Characters
    BY ElementOfSeq
  <2>2. UnitsOf(chars[n]) \in Seq(UnitSet)
    BY <2>1, UnitsOfTyped
  <2>3. s \o UnitsOf(chars[n]) \in S
    BY <2>2, ConcatProperties
  <2> QED BY <2>3
<1>3. PICK f \in [0 .. N -> S] : Follows(f, N, <<>>, onward)
  <2>1. N \in Nat
    BY <1>1
  <2>2. <<>> \in S
    BY <1>1
  <2> HIDE DEF N, S, onward
  <2>3. \A n \in 1 .. N : \A s \in S : onward[n][s] \in S
    BY <1>2
  <2> QED BY <2>1, <2>2, <2>3, Recursion
<1>4. ASSUME NEW n \in 0 .. N
      PROVE  f[n] = IF n = 0 THEN <<>> ELSE f[n - 1] \o UnitsOf(chars[n])
  <2>1. CASE n = 0
    BY <1>3, <2>1 DEF Follows
  <2>2. CASE n # 0
    <3>1. n \in 1 .. N /\ n - 1 \in 0 .. N
      BY <2>2, <1>1
    <3>2. f[n - 1] \in S /\ f[n] = onward[n][f[n - 1]]
      BY <1>3, <3>1 DEF Follows
    <3> QED BY <2>2, <3>1, <3>2
  <2> QED BY <2>1, <2>2
<1>5. f = [n \in 0 .. N |-> IF n = 0 THEN <<>> ELSE f[n - 1] \o UnitsOf(chars[n])]
  BY <1>4
<1>6. UnitsTo(chars) = [n \in 0 .. N |-> IF n = 0 THEN <<>> ELSE UnitsTo(chars)[n - 1] \o UnitsOf(chars[n])]
  BY <1>5, Zenon DEF UnitsTo
<1> HIDE DEF S
<1> DEFINE u == UnitsTo(chars)
<1>7. u[0] = <<>> /\ \A n \in 1 .. N : u[n] = u[n - 1] \o UnitsOf(chars[n])
  <2> HIDE DEF u
  <2>1. u = [n \in 0 .. N |-> IF n = 0 THEN <<>> ELSE u[n - 1] \o UnitsOf(chars[n])]
    BY <1>6 DEF u
  <2> QED BY <2>1, <1>1
<1>8. \A n \in 0 .. N : u[n] \in S
  <2> DEFINE T == {n \in 0 .. N : u[n] \in S}
  <2> HIDE DEF u
  <2>1. 0 \in T
    BY <1>1, <1>7
  <2>2. ASSUME NEW n \in 0 .. N - 1, n \in T PROVE n + 1 \in T
    <3>1. n + 1 \in 1 .. N /\ u[n] \in S
      BY <2>2, <1>1
    <3>2. onward[n + 1][u[n]] = u[n] \o UnitsOf(chars[n + 1])
      BY <3>1
    <3>3. u[n + 1] = u[n] \o UnitsOf(chars[n + 1])
      BY <3>1, <1>7
    <3>4. onward[n + 1][u[n]] \in S
      BY <3>1, <1>2
    <3>5. u[n + 1] \in S
      BY <3>2, <3>3, <3>4
    <3> QED BY <3>1, <3>5
  <2>3. 0 .. N \subseteq T
    <3> HIDE DEF T
    <3> QED BY <1>1, <2>1, <2>2, ClimbTo
  <2> QED BY <2>3
<1> QED BY <1>7, <1>8 DEF S

\* What one more character adds: a unit, or two if it is wide.
LEMMA WidthGrows ==
    ASSUME NEW chars \in Seq(Characters), NEW n \in 1 .. Len(chars)
    PROVE  /\ Width(chars, n - 1) \in Nat
           /\ Width(chars, n) = Width(chars, n - 1) + Utf16(chars[n])
           /\ \A i \in 1 .. Width(chars, n - 1) : UnitsTo(chars)[n][i] = UnitsTo(chars)[n - 1][i]
           /\ chars[n] = Wide => /\ UnitsTo(chars)[n][Width(chars, n - 1) + 1] = "high"
                                /\ UnitsTo(chars)[n][Width(chars, n - 1) + 2] = "low"
           /\ chars[n] # Wide => UnitsTo(chars)[n][Width(chars, n - 1) + 1] = chars[n]
<1> DEFINE a == UnitsTo(chars)[n - 1]
           b == UnitsOf(chars[n])
<1>1. Len(chars) \in Nat /\ n - 1 \in 0 .. Len(chars) /\ chars[n] \in Characters
  BY LenProperties, ElementOfSeq
<1>2. a \in Seq(UnitSet)
  BY <1>1, UnitsGrow
<1>3. b \in Seq(UnitSet)
  BY <1>1, UnitsOfTyped
<1>4. UnitsTo(chars)[n] = a \o b
  BY UnitsGrow
<1>5. /\ chars[n] = Wide => Len(b) = 2 /\ b[1] = "high" /\ b[2] = "low"
      /\ chars[n] # Wide => Len(b) = 1 /\ b[1] = chars[n]
  BY <1>1, UnitsOfTyped
<1> HIDE DEF a, b
<1>6. Len(a) \in Nat
  BY <1>2, LenProperties
<1>7. /\ Len(a \o b) = Len(a) + Len(b)
      /\ \A i \in 1 .. Len(a) + Len(b) : (a \o b)[i] = IF i <= Len(a) THEN a[i] ELSE b[i - Len(a)]
  BY <1>2, <1>3, ConcatProperties
<1>8. Len(b) = Utf16(chars[n])
  BY <1>5 DEF Utf16
<1>9. Width(chars, n - 1) = Len(a) /\ Width(chars, n) = Len(a \o b)
  BY <1>4 DEF Width, a
<1>10. \A i \in 1 .. Len(a) : (a \o b)[i] = a[i]
  BY <1>5, <1>6, <1>7
<1>11. ASSUME chars[n] = Wide PROVE (a \o b)[Len(a) + 1] = "high" /\ (a \o b)[Len(a) + 2] = "low"
  <2>1. Len(b) = 2 /\ b[1] = "high" /\ b[2] = "low"
    BY <1>5, <1>11
  <2>2. (a \o b)[Len(a) + 1] = b[1]
    BY <2>1, <1>6, <1>7
  <2>3. (a \o b)[Len(a) + 2] = b[2]
    BY <2>1, <1>6, <1>7
  <2> QED BY <2>1, <2>2, <2>3
<1>12. chars[n] # Wide => (a \o b)[Len(a) + 1] = chars[n]
  BY <1>5, <1>6, <1>7
<1> QED BY <1>4, <1>6, <1>7, <1>8, <1>9, <1>10, <1>11, <1>12 DEF a

\* The units of a part of a text are the first ones of the text.
LEMMA UnitsOfParts ==
    ASSUME NEW chars \in Seq(Characters), NEW m \in 0 .. Len(chars), NEW n \in m .. Len(chars)
    PROVE  /\ Width(chars, m) \in Nat
           /\ m <= Width(chars, m)
           /\ Width(chars, n) - Width(chars, m) >= n - m
           /\ \A i \in 1 .. Width(chars, m) : UnitsTo(chars)[n][i] = UnitsTo(chars)[m][i]
<1>1. Len(chars) \in Nat
  BY LenProperties
<1>2. \A k \in 0 .. Len(chars) : Width(chars, k) \in Nat
  BY UnitsGrow, LenProperties DEF Width
<1>3. Width(chars, 0) = 0
  BY UnitsGrow, EmptySeq DEF Width
<1>4. \A k \in 1 .. Len(chars) : Width(chars, k) - Width(chars, k - 1) \in {1, 2}
  <2> SUFFICES ASSUME NEW k \in 1 .. Len(chars) PROVE Width(chars, k) - Width(chars, k - 1) \in {1, 2}
    OBVIOUS
  <2>1. Width(chars, k) = Width(chars, k - 1) + Utf16(chars[k]) /\ Width(chars, k - 1) \in Nat
    BY WidthGrows
  <2> QED BY <2>1 DEF Utf16
<1>5. ASSUME NEW k \in 0 .. Len(chars), NEW from \in 0 .. k
      PROVE  /\ Width(chars, k) - Width(chars, from) >= k - from
             /\ \A i \in 1 .. Width(chars, from) : UnitsTo(chars)[k][i] = UnitsTo(chars)[from][i]
  <2> DEFINE Good(j) == /\ Width(chars, j) - Width(chars, from) >= j - from
                        /\ \A i \in 1 .. Width(chars, from) : UnitsTo(chars)[j][i] = UnitsTo(chars)[from][i]
             T == {j \in 0 .. Len(chars) : from <= j => Good(j)}
  <2>1. 0 \in T
    BY <1>1, <1>2
  <2>2. ASSUME NEW j \in 0 .. Len(chars) - 1, j \in T PROVE j + 1 \in T
    <3>1. CASE j + 1 <= from
      <4>1. from <= j + 1 => from = j + 1
        BY <3>1
      <4>2. Good(from)
        BY <1>2, <1>1
      <4> QED BY <4>1, <4>2, <1>1
    <3>2. CASE from <= j
      <4>1. j + 1 \in 1 .. Len(chars) /\ Good(j) /\ (j + 1) - 1 = j
        BY <2>2, <3>2, <1>1
      <4>2. \A i \in 1 .. Width(chars, j) : UnitsTo(chars)[j + 1][i] = UnitsTo(chars)[j][i]
        BY <4>1, WidthGrows
      <4>3. Width(chars, j) >= Width(chars, from)
        BY <4>1, <3>2, <1>2, SMTT(30)
      <4>4. \A i \in 1 .. Width(chars, from) : UnitsTo(chars)[j + 1][i] = UnitsTo(chars)[from][i]
        <5> SUFFICES ASSUME NEW i \in 1 .. Width(chars, from)
                     PROVE  UnitsTo(chars)[j + 1][i] = UnitsTo(chars)[from][i]
          OBVIOUS
        <5>1. i \in 1 .. Width(chars, j)
          <6>1. Width(chars, j) \in Nat /\ Width(chars, from) \in Nat
            BY <1>1, <1>2
          <6> QED BY <6>1, <4>3
        <5> QED BY <5>1, <4>1, <4>2
      <4>5. Width(chars, j + 1) - Width(chars, from) >= j + 1 - from
        <5>1. Width(chars, j + 1) - Width(chars, j) \in {1, 2}
          BY <4>1, <1>4
        <5>2. Width(chars, j) \in Nat /\ Width(chars, from) \in Nat /\ Width(chars, j + 1) \in Nat
          BY <1>1, <1>2, <4>1
        <5> QED BY <5>1, <5>2, <4>1, <1>1, SMTT(30)
      <4> QED BY <4>1, <4>4, <4>5, <1>1
    <3> QED BY <3>1, <3>2
  <2>3. 0 .. Len(chars) \subseteq T
    <3> HIDE DEF T
    <3> QED BY <1>1, <2>1, <2>2, ClimbTo
  <2> QED BY <2>3
<1>6. n \in 0 .. Len(chars) /\ m \in 0 .. n /\ 0 \in 0 .. m
  BY <1>1
<1> QED BY <1>2, <1>3, <1>5, <1>6

\* The units of a text, character by character.
LEMMA UnitsPlaced ==
    ASSUME NEW chars \in Seq(Characters)
    PROVE  /\ Units(chars) \in Seq(UnitSet) /\ Len(Units(chars)) = Width(chars, Len(chars))
           /\ Width(chars, 0) = 0
           /\ \A n \in 0 .. Len(chars) : Width(chars, n) \in 0 .. Len(Units(chars))
           /\ \A n \in 1 .. Len(chars) :
                  LET before == Width(chars, n - 1)
                  IN  /\ Width(chars, n) = before + Utf16(chars[n])
                      /\ chars[n] = Wide => /\ Units(chars)[before + 1] = "high"
                                           /\ Units(chars)[before + 2] = "low"
                      /\ chars[n] # Wide => Units(chars)[before + 1] = chars[n]
<1> DEFINE K == Units(chars)
           N == Len(chars)
<1>1. N \in Nat /\ K = UnitsTo(chars)[N]
  BY LenProperties, UnitsByParts
<1>2. K \in Seq(UnitSet) /\ Len(K) = Width(chars, N)
  <2>1. N \in 0 .. N
    BY <1>1
  <2> QED BY <1>1, <2>1, UnitsGrow DEF Width
<1>3. Width(chars, 0) = 0
  BY UnitsGrow, EmptySeq DEF Width
<1>4. ASSUME NEW n \in 0 .. N
      PROVE  /\ Width(chars, n) \in 0 .. Len(K)
             /\ \A i \in 1 .. Width(chars, n) : K[i] = UnitsTo(chars)[n][i]
  <2>1. N \in n .. N
    BY <1>1
  <2>2. /\ Width(chars, n) \in Nat /\ Width(chars, N) - Width(chars, n) >= N - n
        /\ \A i \in 1 .. Width(chars, n) : UnitsTo(chars)[N][i] = UnitsTo(chars)[n][i]
    BY <2>1, UnitsOfParts
  <2>3. Len(K) \in Nat
    BY <1>2, LenProperties
  <2> HIDE DEF K
  <2> QED BY <1>1, <1>2, <2>2, <2>3
<1>5. ASSUME NEW n \in 1 .. N
      PROVE  LET before == Width(chars, n - 1)
             IN  /\ Width(chars, n) = before + Utf16(chars[n])
                 /\ chars[n] = Wide => K[before + 1] = "high" /\ K[before + 2] = "low"
                 /\ chars[n] # Wide => K[before + 1] = chars[n]
  <2> DEFINE before == Width(chars, n - 1)
             u == UnitsTo(chars)[n]
  <2>1. /\ before \in Nat /\ Width(chars, n) = before + Utf16(chars[n])
        /\ chars[n] = Wide => u[before + 1] = "high" /\ u[before + 2] = "low"
        /\ chars[n] # Wide => u[before + 1] = chars[n]
    BY WidthGrows
  <2>2. \A i \in 1 .. Width(chars, n) : K[i] = u[i]
    BY <1>4
  <2> HIDE DEF K, before, u
  <2>3. CASE chars[n] = Wide
    <3>1. Width(chars, n) = before + 2
      BY <2>1, <2>3 DEF Utf16
    <3>2. K[before + 1] = u[before + 1] /\ K[before + 2] = u[before + 2]
      BY <2>1, <2>2, <3>1
    <3> QED BY <2>1, <2>3, <3>2 DEF before
  <2>4. CASE chars[n] # Wide
    <3>1. Width(chars, n) = before + 1
      BY <2>1, <2>4 DEF Utf16
    <3>2. K[before + 1] = u[before + 1]
      BY <2>1, <2>2, <3>1
    <3> QED BY <2>1, <2>4, <3>2 DEF before
  <2> QED BY <2>3, <2>4
<1> QED BY <1>2, <1>3, <1>4, <1>5

-----------------------------------------------------------------------------
(* Positions in a text *)

\* How many lines end in the first m units.
Lines(units, m) == Cardinality({i \in 1 .. m : NewlineBreaks(units, i)})

\* The line of that number begins after m units, and goes on up to n.
LineFrom(units, line, m, n) ==
    /\ m = 0 \/ NewlineBreaks(units, m)
    /\ \A i \in m + 1 .. n : ~NewlineBreaks(units, i)
    /\ Lines(units, m) = line

\* Counting lines.
LEMMA LinesGrow ==
    ASSUME NEW units, NEW m \in Nat
    PROVE  /\ Lines(units, m) \in Nat
           /\ Lines(units, 0) = 0
           /\ Lines(units, m + 1) = Lines(units, m) + IF NewlineBreaks(units, m + 1) THEN 1 ELSE 0
           /\ \A k \in 0 .. m : Lines(units, k) <= Lines(units, m)
<1> DEFINE B(k) == {i \in 1 .. k : NewlineBreaks(units, i)}
<1>1. ASSUME NEW k \in Nat PROVE IsFiniteSet(B(k)) /\ Cardinality(B(k)) \in Nat
  <2>1. IsFiniteSet(1 .. k)
    BY FS_Interval
  <2>2. B(k) \in SUBSET (1 .. k)
    OBVIOUS
  <2>3. IsFiniteSet(B(k))
    BY <2>1, <2>2, FS_Subset
  <2> QED BY <2>3, FS_CardinalityType
<1>2. Cardinality(B(0)) = 0
  <2>1. B(0) = {}
    OBVIOUS
  <2> QED BY <2>1, FS_EmptySet
<1>3. Cardinality(B(m + 1)) = Cardinality(B(m)) + IF NewlineBreaks(units, m + 1) THEN 1 ELSE 0
  <2>1. CASE NewlineBreaks(units, m + 1)
    <3>1. B(m + 1) = B(m) \cup {m + 1} /\ m + 1 \notin B(m)
      BY <2>1
    <3> HIDE DEF B
    <3>2. Cardinality(B(m) \cup {m + 1}) = Cardinality(B(m)) + 1
      BY <1>1, <3>1, FS_AddElement
    <3> QED BY <2>1, <3>1, <3>2
  <2>2. CASE ~NewlineBreaks(units, m + 1)
    <3>1. B(m + 1) = B(m)
      BY <2>2
    <3> HIDE DEF B
    <3> QED BY <2>2, <3>1, <1>1
  <2> QED BY <2>1, <2>2
<1>4. ASSUME NEW k \in 0 .. m PROVE Cardinality(B(k)) <= Cardinality(B(m))
  <2>1. B(k) \in SUBSET B(m)
    OBVIOUS
  <2> HIDE DEF B
  <2> QED BY <2>1, <1>1, FS_Subset
<1> QED BY <1>1, <1>2, <1>3, <1>4 DEF Lines

\* A line begins at one place.
LEMMA OneLine ==
    ASSUME NEW units, NEW line, NEW m \in Nat, NEW n \in Nat, NEW i, NEW j,
           LineFrom(units, line, m, i), LineFrom(units, line, n, j)
    PROVE  m = n
<1>1. ASSUME NEW p \in Nat, NEW q \in Nat, p < q, LineFrom(units, line, p, i) \/ LineFrom(units, line, p, j),
             LineFrom(units, line, q, i) \/ LineFrom(units, line, q, j)
      PROVE  FALSE
  <2>1. NewlineBreaks(units, q) /\ Lines(units, p) = line /\ Lines(units, q) = line
    BY <1>1 DEF LineFrom
  <2>2. q - 1 \in Nat /\ p \in 0 .. q - 1 /\ (q - 1) + 1 = q
    BY <1>1
  <2>3. Lines(units, p) <= Lines(units, q - 1) /\ Lines(units, q - 1) \in Nat
    BY <2>2, LinesGrow
  <2>4. Lines(units, q) = Lines(units, q - 1) + 1
    BY <2>1, <2>2, LinesGrow
  <2>5. Lines(units, p) \in Nat
    BY LinesGrow
  <2> QED BY <2>1, <2>3, <2>4, <2>5
<1> QED BY <1>1

\* What byte_offset knows of the characters read.
Scans == [index : Nat \cup {Refused}, line : Nat, column : Nat]
ScanStart == [index |-> 0, line |-> 0, column |-> 0]

\* The recursive function of ByteOffset.
Scan(chars, position) ==
    CHOOSE scan : scan = [n \in 0 .. Len(chars) |->
        IF n = 0 THEN [index |-> 0, line |-> 0, column |-> 0] ELSE ReadOn(scan[n - 1], chars[n], position)]

\* ByteOffset by that function.
LEMMA OffsetByScan ==
    ASSUME NEW chars, NEW position
    PROVE  ByteOffset(chars, position) =
               IF Here(Scan(chars, position)[Len(chars)], position)
               THEN Scan(chars, position)[Len(chars)].index ELSE Refused
  BY Zenon DEF ByteOffset, Scan

\* One character.
LEMMA ReadTyped ==
    ASSUME NEW scan \in Scans, NEW ch \in Characters, NEW position \in TextPositions
    PROVE  ReadOn(scan, ch, position) \in Scans
<1>1. Utf16(ch) \in Nat
  BY DEF Utf16
<1>2. CASE scan.index = Refused \/ Here(scan, position)
  BY <1>2 DEF ReadOn
<1>3. ASSUME scan.index # Refused PROVE scan.index \in Nat
  BY <1>3 DEF Scans
<1>4. CASE ~(scan.index = Refused \/ Here(scan, position)) /\ scan.line # position.line
  BY <1>3, <1>4 DEF ReadOn, Scans
<1>5. CASE ~(scan.index = Refused \/ Here(scan, position)) /\ scan.line = position.line
  <2>1. CASE ch = Newline \/ scan.column + Utf16(ch) > position.character
    BY <1>5, <2>1 DEF ReadOn, Scans
  <2>2. CASE ~(ch = Newline \/ scan.column + Utf16(ch) > position.character)
    <3>1. ReadOn(scan, ch, position) = [scan EXCEPT !.index = @ + 1, !.column = @ + Utf16(ch)]
      BY <1>5, <2>2 DEF ReadOn
    <3>2. scan.index + 1 \in Nat /\ scan.column + Utf16(ch) \in Nat
      BY <1>1, <1>3, <1>5 DEF Scans
    <3> QED BY <3>1, <3>2 DEF Scans
  <2> QED BY <2>1, <2>2
<1> QED BY <1>2, <1>4, <1>5

\* The scan goes from character to character.
LEMMA ScanSteps ==
    ASSUME NEW chars \in Seq(Characters), NEW position \in TextPositions
    PROVE  /\ \A n \in 0 .. Len(chars) : Scan(chars, position)[n] \in Scans
           /\ Scan(chars, position)[0] = ScanStart
           /\ \A n \in 1 .. Len(chars) :
                  Scan(chars, position)[n] = ReadOn(Scan(chars, position)[n - 1], chars[n], position)
<1> DEFINE N == Len(chars)
           onward == [n \in 1 .. N |-> [s \in Scans |-> ReadOn(s, chars[n], position)]]
           u == Scan(chars, position)
<1>1. N \in Nat /\ ScanStart \in Scans /\ \A n \in 1 .. N : chars[n] \in Characters
  BY LenProperties, ElementOfSeq DEF ScanStart, Scans
<1>2. \A n \in 1 .. N : \A s \in Scans : onward[n][s] = ReadOn(s, chars[n], position) /\ onward[n][s] \in Scans
  BY <1>1, ReadTyped
<1> HIDE DEF onward
<1>3. PICK f \in [0 .. N -> Scans] : Follows(f, N, ScanStart, onward)
  BY <1>1, <1>2, Recursion
<1>4. ASSUME NEW n \in 0 .. N
      PROVE  f[n] = IF n = 0 THEN ScanStart ELSE ReadOn(f[n - 1], chars[n], position)
  <2>1. CASE n = 0
    BY <1>3, <2>1 DEF Follows
  <2>2. CASE n # 0
    <3>1. n \in 1 .. N /\ n - 1 \in 0 .. N
      BY <2>2, <1>1
    <3>2. f[n - 1] \in Scans /\ f[n] = onward[n][f[n - 1]]
      BY <1>3, <3>1 DEF Follows
    <3> QED BY <1>2, <2>2, <3>1, <3>2
  <2> QED BY <2>1, <2>2
<1>5. f = [n \in 0 .. N |-> IF n = 0 THEN ScanStart ELSE ReadOn(f[n - 1], chars[n], position)]
  BY <1>4
<1>6. u = [n \in 0 .. N |-> IF n = 0 THEN ScanStart ELSE ReadOn(u[n - 1], chars[n], position)]
  BY <1>5, Zenon DEF Scan, ScanStart
<1> HIDE DEF u
<1>7. u[0] = ScanStart /\ \A n \in 1 .. N : u[n] = ReadOn(u[n - 1], chars[n], position)
  BY <1>1, <1>6
<1>8. \A n \in 0 .. N : u[n] \in Scans
  <2> DEFINE T == {n \in 0 .. N : u[n] \in Scans}
  <2>1. 0 \in T
    BY <1>1, <1>7
  <2>2. ASSUME NEW n \in 0 .. N - 1, n \in T PROVE n + 1 \in T
    <3>1. n + 1 \in 1 .. N /\ u[n] \in Scans /\ (n + 1) - 1 = n
      BY <2>2, <1>1
    <3>2. u[n + 1] = ReadOn(u[n], chars[n + 1], position)
      BY <3>1, <1>7
    <3>3. u[n + 1] \in Scans
      BY <3>1, <3>2, <1>1, ReadTyped
    <3> QED BY <3>1, <3>3
  <2>3. 0 .. N \subseteq T
    <3> HIDE DEF T
    <3> QED BY <1>1, <2>1, <2>2, ClimbTo
  <2> QED BY <2>3
<1> QED BY <1>7, <1>8 DEF u

\* The numbers of units before the place that a position names.
Named(chars, position) == UnitOffsets(Units(chars), position, NewlineBreaks)

\* A place is named by a position when the units before it end the right number
\* of lines and the rest of them is the column.
LEMMA NamedMeans ==
    ASSUME NEW chars, NEW position, NEW n
    PROVE  n \in Named(chars, position) <=>
               /\ n \in 0 .. Len(Units(chars))
               /\ ~(n > 0 /\ Units(chars)[n] = "high")
               /\ \E m \in 0 .. n : /\ n = m + position.character
                                    /\ LineFrom(Units(chars), position.line, m, n)
  BY DEF Named, UnitOffsets, LineFrom, Lines

\* The scan is still on its way after n characters: it knows the line they end in
\* and, on the line of the position, how many units of it they take.
Underway(chars, position, scan, n) ==
    /\ scan.index = n /\ scan.line <= position.line
    /\ scan.line = Lines(Units(chars), Width(chars, n))
    /\ scan.line = position.line =>
           /\ scan.column < position.character
           /\ \E m \in 0 .. Width(chars, n) :
                  /\ scan.column = Width(chars, n) - m
                  /\ LineFrom(Units(chars), position.line, m, Width(chars, n))

\* It has found the place.
Arrived(chars, position, scan, n) ==
    /\ Here(scan, position) /\ scan.index \in 0 .. n
    /\ Width(chars, scan.index) \in Named(chars, position)

\* It has found that there is none.
Nowhere(chars, position, scan) ==
    scan.index = Refused /\ ~Here(scan, position) /\ Named(chars, position) = {}

\* What is true of a scan.
Scanned(chars, position, scan, n) ==
    \/ Underway(chars, position, scan, n)
    \/ Arrived(chars, position, scan, n)
    \/ Nowhere(chars, position, scan)

\* After n characters on the line of the position, with a line that begins at m.
LEMMA Reached ==
    ASSUME NEW chars \in Seq(Characters), NEW position \in TextPositions, NEW scan \in Scans,
           NEW n \in 0 .. Len(chars), NEW m \in 0 .. Width(chars, n),
           scan.index = n, scan.line = position.line, scan.column = Width(chars, n) - m,
           scan.column <= position.character,
           LineFrom(Units(chars), position.line, m, Width(chars, n)),
           Lines(Units(chars), Width(chars, n)) = position.line,
           Width(chars, n) > 0 => Units(chars)[Width(chars, n)] # "high"
    PROVE  Scanned(chars, position, scan, n)
<1>1. Width(chars, n) \in 0 .. Len(Units(chars)) /\ Len(Units(chars)) \in Nat
  BY UnitsPlaced, LenProperties
<1>2. CASE scan.column = position.character
  <2>1. Width(chars, n) = m + position.character
    BY <1>1, <1>2 DEF TextPositions
  <2>2. Width(chars, n) \in Named(chars, position)
    BY <1>1, <2>1, NamedMeans
  <2>3. scan.index \in 0 .. n
    OBVIOUS
  <2> QED BY <1>2, <2>2, <2>3 DEF Scanned, Arrived, Here
<1>3. CASE scan.column # position.character
  <2>1. scan.column < position.character
    BY <1>1, <1>3 DEF TextPositions
  <2> QED BY <2>1 DEF Scanned, Underway, TextPositions
<1> QED BY <1>2, <1>3

\* What one character adds to the lines.
LEMMA LinesOver ==
    ASSUME NEW chars \in Seq(Characters), NEW n \in 1 .. Len(chars)
    PROVE  /\ Width(chars, n - 1) \in Nat /\ Width(chars, n) \in Nat
           /\ Width(chars, n) = Width(chars, n - 1) + Utf16(chars[n])
           /\ Units(chars)[Width(chars, n)] # "high"
           /\ chars[n] = Newline =>
                  /\ Width(chars, n) = Width(chars, n - 1) + 1
                  /\ NewlineBreaks(Units(chars), Width(chars, n))
                  /\ Lines(Units(chars), Width(chars, n)) = Lines(Units(chars), Width(chars, n - 1)) + 1
           /\ chars[n] # Newline =>
                  /\ \A i \in Width(chars, n - 1) + 1 .. Width(chars, n) : ~NewlineBreaks(Units(chars), i)
                  /\ Lines(Units(chars), Width(chars, n)) = Lines(Units(chars), Width(chars, n - 1))
<1> DEFINE K == Units(chars)
           before == Width(chars, n - 1)
           after == Width(chars, n)
<1>1. before \in Nat /\ after \in Nat
  <2>1. n - 1 \in 0 .. Len(chars) /\ n \in 0 .. Len(chars) /\ Len(K) \in Nat
    BY UnitsPlaced, LenProperties
  <2> QED BY <2>1, UnitsPlaced
<1>2. /\ after = before + Utf16(chars[n])
      /\ chars[n] = Wide => K[before + 1] = "high" /\ K[before + 2] = "low"
      /\ chars[n] # Wide => K[before + 1] = chars[n]
  BY UnitsPlaced
<1>3. chars[n] \in Characters
  BY ElementOfSeq
<1> HIDE DEF K, before, after
<1>4. Lines(K, before + 1) = Lines(K, before) + IF NewlineBreaks(K, before + 1) THEN 1 ELSE 0
  BY <1>1, LinesGrow
<1>5. Lines(K, before) \in Nat
  BY <1>1, LinesGrow
<1>6. CASE chars[n] = Wide
  <2>1. after = before + 2 /\ before + 1 \in Nat
    BY <1>1, <1>2, <1>6 DEF Utf16
  <2>2. ~NewlineBreaks(K, before + 1) /\ ~NewlineBreaks(K, before + 2) /\ K[after] # "high"
    BY <1>2, <1>6, <2>1 DEF NewlineBreaks, Newline
  <2>3. Lines(K, (before + 1) + 1) = Lines(K, before + 1) + IF NewlineBreaks(K, (before + 1) + 1) THEN 1 ELSE 0
    BY <2>1, LinesGrow
  <2>4. (before + 1) + 1 = before + 2
    BY <1>1
  <2>5. Lines(K, after) = Lines(K, before)
    BY <1>4, <1>5, <2>1, <2>2, <2>3, <2>4
  <2>6. \A i \in before + 1 .. after : i = before + 1 \/ i = before + 2
    BY <1>1, <2>1
  <2>7. chars[n] # Newline
    BY <1>6 DEF Wide, Newline
  <2> QED BY <1>1, <1>2, <2>2, <2>5, <2>6, <2>7 DEF K, before, after
<1>7. CASE chars[n] # Wide
  <2>1. after = before + 1
    BY <1>1, <1>2, <1>7 DEF Utf16
  <2>2. K[after] = chars[n] /\ chars[n] # "high"
    BY <1>2, <1>3, <1>7, <2>1 DEF Characters, Plain, Wide, Return, Newline
  <2>3. NewlineBreaks(K, after) <=> chars[n] = Newline
    BY <2>2 DEF NewlineBreaks
  <2>4. \A i \in before + 1 .. after : i = after
    BY <1>1, <2>1
  <2>5. Lines(K, after) = Lines(K, before) + IF chars[n] = Newline THEN 1 ELSE 0
    BY <1>4, <2>1, <2>3
  <2> QED BY <1>1, <1>2, <1>5, <2>1, <2>2, <2>3, <2>4, <2>5 DEF K, before, after
<1> QED BY <1>6, <1>7

\* One more character.
LEMMA ScanStep ==
    ASSUME NEW chars \in Seq(Characters), NEW position \in TextPositions,
           NEW n \in 1 .. Len(chars), NEW scan \in Scans, Scanned(chars, position, scan, n - 1)
    PROVE  Scanned(chars, position, ReadOn(scan, chars[n], position), n)
<1> DEFINE K == Units(chars)
           before == Width(chars, n - 1)
           after == Width(chars, n)
           ch == chars[n]
           next == ReadOn(scan, ch, position)
           line == position.line
           character == position.character
<1>1. /\ before \in Nat /\ after \in Nat /\ after = before + Utf16(ch)
      /\ K[after] # "high"
      /\ ch = Newline => /\ after = before + 1
                         /\ NewlineBreaks(K, after)
                         /\ Lines(K, after) = Lines(K, before) + 1
      /\ ch # Newline => /\ \A i \in before + 1 .. after : ~NewlineBreaks(K, i)
                         /\ Lines(K, after) = Lines(K, before)
  BY LinesOver
<1>2. ch \in Characters /\ Len(chars) \in Nat /\ n \in 0 .. Len(chars)
  BY ElementOfSeq, LenProperties
<1>3. line \in Nat /\ character \in Nat
  BY DEF TextPositions
<1>4. next \in Scans
  BY <1>2, ReadTyped
<1>5. CASE Nowhere(chars, position, scan)
  BY <1>5 DEF Nowhere, ReadOn, Scanned
<1>6. CASE Arrived(chars, position, scan, n - 1)
  <2>1. next = scan
    BY <1>6 DEF Arrived, ReadOn
  <2>2. scan.index \in 0 .. n
    BY <1>6 DEF Arrived
  <2> HIDE DEF next
  <2> QED BY <1>6, <2>1, <2>2 DEF Arrived, Scanned, next
<1>7. CASE Underway(chars, position, scan, n - 1)
  <2>1. /\ scan.index = n - 1 /\ scan.line <= line /\ scan.line = Lines(K, before)
        /\ scan.line = line =>
               /\ scan.column < character
               /\ \E m \in 0 .. before : scan.column = before - m /\ LineFrom(K, line, m, before)
    BY <1>7 DEF Underway
  <2>2. scan.index \in Nat /\ scan.line \in Nat /\ scan.column \in Nat
    BY <2>1 DEF Scans
  <2>3. ~(scan.index = Refused \/ Here(scan, position))
    BY <2>1, <2>2, <1>3 DEF Refused, Here
  <2>4. ASSUME scan.line # line, ch = Newline PROVE Scanned(chars, position, next, n)
    <3>1. next = [index |-> n, line |-> scan.line + 1, column |-> 0]
      BY <2>1, <2>3, <2>4 DEF ReadOn
    <3>2. next.line <= line /\ next.line = Lines(K, after)
      BY <1>1, <1>3, <2>1, <2>2, <2>4, <3>1
    <3>3. CASE next.line = line
      <4>1. LineFrom(K, line, after, after)
        BY <1>1, <2>4, <3>2, <3>3 DEF LineFrom
      <4>2. after \in 0 .. after /\ next.column = after - after /\ next.column <= character
        BY <1>1, <1>3, <3>1
      <4>3. next.index = n
        BY <3>1
      <4> HIDE DEF next
      <4> QED BY <1>1, <1>2, <1>4, <3>2, <3>3, <4>1, <4>2, <4>3, Reached
    <3>4. CASE next.line # line
      BY <3>1, <3>2, <3>4 DEF Scanned, Underway
    <3> QED BY <3>3, <3>4
  <2>5. ASSUME scan.line # line, ch # Newline PROVE Scanned(chars, position, next, n)
    <3>1. next = [scan EXCEPT !.index = @ + 1]
      BY <2>3, <2>5 DEF ReadOn
    <3>2. next.index = n /\ next.line = scan.line
      BY <2>1, <3>1 DEF Scans
    <3> QED BY <1>1, <2>1, <2>5, <3>2 DEF Scanned, Underway
  <2>6. ASSUME scan.line = line PROVE Scanned(chars, position, next, n)
    <3>1. PICK m \in 0 .. before : scan.column = before - m /\ LineFrom(K, line, m, before)
      BY <2>1, <2>6
    <3>2. ASSUME NEW k \in Named(chars, position)
          PROVE  /\ k \in Nat /\ k = m + character /\ LineFrom(K, line, m, k)
                 /\ ~(k > 0 /\ K[k] = "high")
      <4>1. k \in 0 .. Len(K) /\ ~(k > 0 /\ K[k] = "high")
        BY NamedMeans
      <4>2. PICK j \in 0 .. k : k = j + character /\ LineFrom(K, line, j, k)
        BY NamedMeans
      <4>3. j \in Nat /\ m \in Nat /\ k \in Nat
        BY <4>1, <4>2, <1>1
      <4>4. j = m
        BY <3>1, <4>2, <4>3, <1>1, OneLine
      <4> QED BY <4>1, <4>2, <4>3, <4>4
    <3>3. CASE ch = Newline
      <4>1. ASSUME NEW k \in Named(chars, position) PROVE FALSE
        <5>1. k = m + character /\ LineFrom(K, line, m, k)
          BY <3>2
        <5>2. after \in m + 1 .. k
          BY <1>1, <1>3, <2>1, <2>2, <2>6, <3>1, <3>3, <5>1, SMTT(30)
        <5> QED BY <1>1, <3>3, <5>1, <5>2 DEF LineFrom
      <4>2. next = [scan EXCEPT !.index = Refused]
        BY <2>3, <2>6, <3>3 DEF ReadOn
      <4>3. next.index = Refused /\ ~Here(next, position)
        BY <2>3, <4>2 DEF Scans, Here
      <4> QED BY <4>1, <4>3 DEF Scanned, Nowhere
    <3>4. CASE ch # Newline /\ scan.column + Utf16(ch) > character
      <4>1. ch = Wide /\ scan.column + 1 = character
        BY <1>3, <2>1, <2>2, <2>6, <3>4 DEF Utf16
      <4>2. K[before + 1] = "high"
        BY <4>1, UnitsPlaced
      <4>3. ASSUME NEW k \in Named(chars, position) PROVE FALSE
        <5>1. k = before + 1
          BY <1>1, <1>3, <3>1, <3>2, <4>1
        <5> QED BY <1>1, <3>2, <4>2, <5>1
      <4>4. next = [scan EXCEPT !.index = Refused]
        BY <2>3, <2>6, <3>4 DEF ReadOn
      <4>5. next.index = Refused /\ ~Here(next, position)
        BY <2>3, <4>4 DEF Scans, Here
      <4> QED BY <4>3, <4>5 DEF Scanned, Nowhere
    <3>5. CASE ch # Newline /\ ~(scan.column + Utf16(ch) > character)
      <4>1. next = [scan EXCEPT !.index = @ + 1, !.column = @ + Utf16(ch)]
        BY <2>3, <2>6, <3>5 DEF ReadOn
      <4>2. next.index = n /\ next.line = line /\ next.column = scan.column + Utf16(ch)
        BY <2>1, <2>6, <4>1 DEF Scans
      <4>3. Utf16(ch) \in {1, 2}
        BY DEF Utf16
      <4>4. next.column = after - m /\ next.column <= character /\ m \in 0 .. after
        BY <1>1, <1>3, <2>2, <3>1, <3>5, <4>2, <4>3, SMTT(30)
      <4>5. LineFrom(K, line, m, after)
        BY <1>1, <3>1, <3>5, <4>3 DEF LineFrom
      <4>6. Lines(K, after) = line
        BY <1>1, <2>1, <2>6, <3>5
      <4> HIDE DEF next
      <4> QED BY <1>1, <1>2, <1>4, <4>2, <4>4, <4>5, <4>6, Reached
    <3> QED BY <3>3, <3>4, <3>5
  <2> QED BY <2>4, <2>5, <2>6
<1> QED BY <1>5, <1>6, <1>7 DEF Scanned

\* A position names one place at most.
LEMMA NamesOne ==
    ASSUME NEW chars \in Seq(Characters), NEW position \in TextPositions,
           NEW j \in Named(chars, position), NEW k \in Named(chars, position)
    PROVE  j = k
<1>1. Len(Units(chars)) \in Nat
  BY UnitsPlaced, LenProperties
<1>2. PICK m \in 0 .. j : j = m + position.character /\ LineFrom(Units(chars), position.line, m, j)
  BY NamedMeans
<1>3. PICK n \in 0 .. k : k = n + position.character /\ LineFrom(Units(chars), position.line, n, k)
  BY NamedMeans
<1>4. j \in Nat /\ k \in Nat
  BY <1>1, NamedMeans
<1>5. m \in Nat /\ n \in Nat
  BY <1>2, <1>3, <1>4
<1>6. m = n
  BY <1>2, <1>3, <1>5, OneLine
<1> QED BY <1>2, <1>3, <1>6

\* byte_offset finds the place that a position names, if there is one.
LEMMA OffsetsAgree ==
    ASSUME NEW chars \in Seq(Characters), NEW position \in TextPositions
    PROVE  \/ ByteOffset(chars, position) = Refused /\ Named(chars, position) = {}
           \/ /\ ByteOffset(chars, position) \in 0 .. Len(chars)
              /\ Named(chars, position) = {Width(chars, ByteOffset(chars, position))}
<1> DEFINE K == Units(chars)
           N == Len(chars)
           u == Scan(chars, position)
           line == position.line
           T == {n \in 0 .. N : Scanned(chars, position, u[n], n)}
<1>1. N \in Nat /\ line \in Nat /\ position.character \in Nat
  BY LenProperties DEF TextPositions
<1>2. /\ \A n \in 0 .. N : u[n] \in Scans
      /\ u[0] = ScanStart
      /\ \A n \in 1 .. N : u[n] = ReadOn(u[n - 1], chars[n], position)
  BY ScanSteps
<1>3. Width(chars, 0) = 0 /\ Width(chars, N) = Len(K) /\ Len(K) \in Nat
  BY UnitsPlaced, LenProperties
<1> HIDE DEF u, K
<1>4. 0 \in T
  <2>1. u[0].index = 0 /\ u[0].line = 0 /\ u[0].column = 0 /\ u[0] \in Scans
    BY <1>1, <1>2 DEF ScanStart
  <2>2. Lines(K, 0) = 0
    BY LinesGrow
  <2>3. CASE line = 0
    <3>1. LineFrom(K, line, 0, 0)
      BY <2>2, <2>3 DEF LineFrom
    <3>2. 0 \in 0 .. Width(chars, 0) /\ 0 \in 0 .. N
      BY <1>1, <1>3
    <3>3. Scanned(chars, position, u[0], 0)
      BY <1>1, <1>3, <2>1, <2>2, <2>3, <3>1, <3>2, Reached DEF K
    <3> QED BY <1>1, <3>3
  <2>4. CASE line # 0
    <3>1. Underway(chars, position, u[0], 0)
      BY <1>1, <1>3, <2>1, <2>2, <2>4 DEF Underway, K
    <3> QED BY <1>1, <3>1 DEF Scanned
  <2> QED BY <2>3, <2>4
<1>5. ASSUME NEW n \in 0 .. N - 1, n \in T PROVE n + 1 \in T
  <2>1. n + 1 \in 1 .. N /\ (n + 1) - 1 = n /\ u[n] \in Scans
    BY <1>1, <1>2
  <2>2. Scanned(chars, position, u[n], n) /\ u[n + 1] = ReadOn(u[n], chars[n + 1], position)
    BY <1>2, <1>5, <2>1
  <2>3. Scanned(chars, position, u[n + 1], n + 1)
    BY <2>1, <2>2, ScanStep
  <2> QED BY <2>1, <2>3
<1>6. Scanned(chars, position, u[N], N)
  <2>1. 0 .. N \subseteq T
    <3> HIDE DEF T
    <3> QED BY <1>1, <1>4, <1>5, ClimbTo
  <2> QED BY <1>1, <2>1
<1>7. ByteOffset(chars, position) = IF Here(u[N], position) THEN u[N].index ELSE Refused
  BY OffsetByScan DEF u
<1>8. CASE Nowhere(chars, position, u[N])
  BY <1>7, <1>8 DEF Nowhere
<1>9. CASE Arrived(chars, position, u[N], N)
  <2>1. /\ ByteOffset(chars, position) = u[N].index /\ u[N].index \in 0 .. N
        /\ Width(chars, u[N].index) \in Named(chars, position)
    BY <1>7, <1>9 DEF Arrived
  <2>2. \A k \in Named(chars, position) : k = Width(chars, u[N].index)
    BY <2>1, NamesOne
  <2> QED BY <2>1, <2>2
<1>10. CASE Underway(chars, position, u[N], N)
  <2>1. /\ u[N].line <= line /\ u[N].line = Lines(K, Len(K))
        /\ u[N].line = line =>
               /\ u[N].column < position.character
               /\ \E m \in 0 .. Len(K) : u[N].column = Len(K) - m /\ LineFrom(K, line, m, Len(K))
    BY <1>3, <1>10 DEF Underway, K
  <2>2. ~Here(u[N], position)
    BY <1>1, <1>2, <2>1 DEF Here, Scans
  <2>3. ASSUME NEW k \in Named(chars, position) PROVE FALSE
    <3>1. k \in 0 .. Len(K)
      BY NamedMeans DEF K
    <3>2. PICK j \in 0 .. k : k = j + position.character /\ LineFrom(K, line, j, k)
      BY NamedMeans DEF K
    <3>3. j \in 0 .. Len(K) /\ j \in Nat
      BY <1>3, <3>1, <3>2
    <3>4. Lines(K, j) = line /\ Lines(K, j) <= Lines(K, Len(K))
      BY <1>3, <3>2, <3>3, LinesGrow DEF LineFrom
    <3>5. u[N].line = line
      BY <1>1, <1>3, <2>1, <3>4, LinesGrow
    <3>6. PICK m \in 0 .. Len(K) : u[N].column = Len(K) - m /\ LineFrom(K, line, m, Len(K))
      BY <2>1, <3>5
    <3>7. m \in Nat
      BY <1>3
    <3>8. m = j
      BY <3>2, <3>3, <3>6, <3>7, OneLine
    <3> QED BY <1>1, <1>3, <2>1, <3>1, <3>2, <3>5, <3>6, <3>8
  <2> QED BY <1>7, <2>2, <2>3
<1> QED BY <1>6, <1>8, <1>9, <1>10 DEF Scanned

-----------------------------------------------------------------------------
(* Edits of a text and of its units *)

\* Cutting a sequence where it was joined.
LEMMA CutAtJoin ==
    ASSUME NEW S, NEW s \in Seq(S), NEW t \in Seq(S)
    PROVE  /\ SubSeq(s \o t, 1, Len(s)) = s
           /\ SubSeq(s \o t, Len(s) + 1, Len(s \o t)) = t
<1> DEFINE u == s \o t
           m == Len(s)
           n == Len(t)
<1>1. m \in Nat /\ n \in Nat
  BY LenProperties
<1>2. /\ u \in Seq(S) /\ Len(u) = m + n
      /\ \A i \in 1 .. m + n : u[i] = IF i <= m THEN s[i] ELSE t[i - m]
  BY ConcatProperties
<1>3. \A i \in 1 .. m + n : u[i] \in S
  BY <1>1, <1>2, ElementOfSeq
<1> HIDE DEF u
<1>4. /\ SubSeq(u, 1, m) \in Seq(S) /\ Len(SubSeq(u, 1, m)) = m
      /\ \A i \in 1 .. m : SubSeq(u, 1, m)[i] = u[i]
  <2>1. 1 \in Int /\ m \in Int /\ \A i \in 1 .. m : u[i] \in S
    BY <1>1, <1>3
  <2> HIDE DEF m
  <2>2. /\ SubSeq(u, 1, m) \in Seq(S) /\ Len(SubSeq(u, 1, m)) = IF 1 <= m THEN m - 1 + 1 ELSE 0
        /\ \A i \in 1 .. m - 1 + 1 : SubSeq(u, 1, m)[i] = u[1 + i - 1]
    BY <2>1, SubSeqProperties
  <2>3. \A i \in 1 .. m : SubSeq(u, 1, m)[i] = u[i]
    <3> SUFFICES ASSUME NEW i \in 1 .. m PROVE SubSeq(u, 1, m)[i] = u[i]
      OBVIOUS
    <3>1. i \in 1 .. m - 1 + 1 /\ 1 + i - 1 = i
      BY <1>1
    <3> QED BY <2>2, <3>1
  <2> QED BY <1>1, <2>2, <2>3
<1>5. /\ SubSeq(u, m + 1, m + n) \in Seq(S) /\ Len(SubSeq(u, m + 1, m + n)) = n
      /\ \A i \in 1 .. n : SubSeq(u, m + 1, m + n)[i] = u[m + i]
  <2>1. m + 1 \in Int /\ m + n \in Int /\ \A i \in m + 1 .. m + n : u[i] \in S
    BY <1>1, <1>3
  <2> DEFINE low == m + 1
             high == m + n
  <2>2. /\ SubSeq(u, low, high) \in Seq(S)
        /\ Len(SubSeq(u, low, high)) = IF low <= high THEN high - low + 1 ELSE 0
        /\ \A i \in 1 .. high - low + 1 : SubSeq(u, low, high)[i] = u[low + i - 1]
    <3> HIDE DEF low, high
    <3> QED BY <2>1, SubSeqProperties DEF low, high
  <2>3. \A i \in 1 .. n : SubSeq(u, m + 1, m + n)[i] = u[m + i]
    <3> SUFFICES ASSUME NEW i \in 1 .. n PROVE SubSeq(u, m + 1, m + n)[i] = u[m + i]
      OBVIOUS
    <3>1. i \in 1 .. m + n - (m + 1) + 1 /\ (m + 1) + i - 1 = m + i
      BY <1>1
    <3> QED BY <2>2, <3>1
  <2> QED BY <1>1, <2>2, <2>3
<1>6. SubSeq(u, 1, m) = s
  <2>1. ASSUME NEW i \in 1 .. m PROVE SubSeq(u, 1, m)[i] = s[i]
    <3>1. SubSeq(u, 1, m)[i] = u[i]
      BY <1>4
    <3>2. u[i] = s[i]
      BY <1>2
    <3> QED BY <3>1, <3>2
  <2> QED BY <1>4, <2>1, SeqEqual
<1>7. SubSeq(u, m + 1, m + n) = t
  <2>1. ASSUME NEW i \in 1 .. n PROVE SubSeq(u, m + 1, m + n)[i] = t[i]
    <3>1. SubSeq(u, m + 1, m + n)[i] = u[m + i]
      BY <1>5
    <3>2. u[m + i] = t[i]
      BY <1>2
    <3> QED BY <3>1, <3>2
  <2> QED BY <1>5, <2>1, SeqEqual
<1> QED BY <1>2, <1>6, <1>7 DEF u

\* The units of a text joined of two.
LEMMA UnitsJoin ==
    ASSUME NEW a \in Seq(Characters), NEW b \in Seq(Characters)
    PROVE  /\ Units(a \o b) = Units(a) \o Units(b)
           /\ Width(a \o b, Len(a)) = Len(Units(a))
<1> DEFINE c == a \o b
           m == Len(a)
           n == Len(b)
<1>1. m \in Nat /\ n \in Nat
  BY LenProperties
<1>2. /\ c \in Seq(Characters) /\ Len(c) = m + n
      /\ \A i \in 1 .. m + n : c[i] = IF i <= m THEN a[i] ELSE b[i - m]
  BY ConcatProperties
<1> HIDE DEF c
<1>3. /\ UnitsTo(a)[0] = <<>> /\ UnitsTo(b)[0] = <<>> /\ UnitsTo(c)[0] = <<>>
      /\ \A i \in 1 .. m : UnitsTo(a)[i] = UnitsTo(a)[i - 1] \o UnitsOf(a[i])
      /\ \A i \in 1 .. n : UnitsTo(b)[i] = UnitsTo(b)[i - 1] \o UnitsOf(b[i])
      /\ \A i \in 1 .. m + n : UnitsTo(c)[i] = UnitsTo(c)[i - 1] \o UnitsOf(c[i])
      /\ \A i \in 0 .. m : UnitsTo(a)[i] \in Seq(UnitSet)
      /\ \A i \in 0 .. n : UnitsTo(b)[i] \in Seq(UnitSet)
  BY <1>2, UnitsGrow
<1>4. UnitsTo(c)[m] = UnitsTo(a)[m]
  <2> DEFINE T == {i \in 0 .. m : UnitsTo(c)[i] = UnitsTo(a)[i]}
  <2>1. 0 \in T
    BY <1>1, <1>3
  <2>2. ASSUME NEW i \in 0 .. m - 1, i \in T PROVE i + 1 \in T
    <3>1. i + 1 \in 1 .. m /\ i + 1 \in 1 .. m + n /\ (i + 1) - 1 = i
      BY <1>1
    <3>2. c[i + 1] = a[i + 1]
      BY <1>2, <3>1
    <3>3. UnitsTo(c)[i + 1] = UnitsTo(c)[i] \o UnitsOf(c[i + 1])
      BY <1>3, <3>1
    <3>4. UnitsTo(a)[i + 1] = UnitsTo(a)[i] \o UnitsOf(a[i + 1])
      BY <1>3, <3>1
    <3>5. UnitsTo(c)[i + 1] = UnitsTo(a)[i + 1]
      BY <2>2, <3>1, <3>2, <3>3, <3>4
    <3>6. i + 1 \in 0 .. m
      BY <1>1
    <3> QED BY <3>5, <3>6
  <2>3. 0 .. m \subseteq T
    <3> HIDE DEF T, m
    <3> QED BY <1>1, <2>1, <2>2, ClimbTo
  <2> QED BY <1>1, <2>3
<1>5. UnitsTo(c)[m + n] = UnitsTo(a)[m] \o UnitsTo(b)[n]
  <2> DEFINE T == {i \in 0 .. n : UnitsTo(c)[m + i] = UnitsTo(a)[m] \o UnitsTo(b)[i]}
  <2>1. 0 \in T
    <3>1. UnitsTo(a)[m] \o <<>> = UnitsTo(a)[m]
      BY <1>1, <1>3, ConcatEmptySeq
    <3>2. m + 0 = m
      BY <1>1
    <3>3. UnitsTo(c)[m + 0] = UnitsTo(a)[m] \o UnitsTo(b)[0]
      BY <1>3, <1>4, <3>1, <3>2
    <3>4. 0 \in 0 .. n
      BY <1>1
    <3> QED BY <3>3, <3>4
  <2>2. ASSUME NEW i \in 0 .. n - 1, i \in T PROVE i + 1 \in T
    <3>1. i + 1 \in 1 .. n /\ (i + 1) - 1 = i /\ i \in 0 .. n
      BY <1>1
    <3>2. m + i + 1 \in 1 .. m + n /\ (m + i + 1) - 1 = m + i /\ m + (i + 1) = m + i + 1
      BY <1>1
    <3>3. c[m + i + 1] = b[i + 1]
      <4>1. ~(m + i + 1 <= m) /\ m + i + 1 - m = i + 1
        BY <1>1
      <4> QED BY <1>2, <3>2, <4>1
    <3>4. UnitsTo(c)[m + i + 1] = UnitsTo(c)[m + i] \o UnitsOf(b[i + 1])
      BY <1>3, <3>2, <3>3
    <3>5. UnitsTo(b)[i + 1] = UnitsTo(b)[i] \o UnitsOf(b[i + 1])
      BY <1>3, <3>1
    <3>6. UnitsTo(b)[i] \in Seq(UnitSet) /\ UnitsTo(a)[m] \in Seq(UnitSet)
      BY <1>1, <1>3, <3>1
    <3>7. UnitsOf(b[i + 1]) \in Seq(UnitSet)
      BY <3>1, ElementOfSeq, UnitsOfTyped
    <3>8. (UnitsTo(a)[m] \o UnitsTo(b)[i]) \o UnitsOf(b[i + 1]) = UnitsTo(a)[m] \o (UnitsTo(b)[i] \o UnitsOf(b[i + 1]))
      <4> DEFINE p == UnitsTo(a)[m]
                 q == UnitsTo(b)[i]
                 r == UnitsOf(b[i + 1])
      <4>1. p \in Seq(UnitSet) /\ q \in Seq(UnitSet) /\ r \in Seq(UnitSet)
        BY <3>6, <3>7
      <4> HIDE DEF p, q, r
      <4>2. (p \o q) \o r = p \o (q \o r)
        BY <4>1, ConcatAssociative, SMTT(30)
      <4> QED BY <4>2 DEF p, q, r
    <3>9. UnitsTo(c)[m + i] = UnitsTo(a)[m] \o UnitsTo(b)[i]
      BY <2>2
    <3>10. UnitsTo(c)[m + (i + 1)] = UnitsTo(a)[m] \o UnitsTo(b)[i + 1]
      BY <3>2, <3>4, <3>5, <3>8, <3>9
    <3>11. i + 1 \in 0 .. n
      BY <1>1
    <3> QED BY <3>10, <3>11
  <2>3. 0 .. n \subseteq T
    <3> HIDE DEF T, m, n
    <3> QED BY <1>1, <2>1, <2>2, ClimbTo
  <2>4. n \in T
    <3> HIDE DEF T
    <3> QED BY <1>1, <2>3
  <2> QED BY <2>4
<1>6. Units(c) = Units(a) \o Units(b)
  BY <1>2, <1>5, UnitsByParts
<1>7. Width(c, m) = Len(Units(a))
  BY <1>4, UnitsByParts DEF Width
<1> QED BY <1>6, <1>7 DEF c

\* The units of the two parts of a text that is cut.
LEMMA UnitsCut ==
    ASSUME NEW chars \in Seq(Characters), NEW n \in 0 .. Len(chars)
    PROVE  /\ SubSeq(chars, 1, n) \in Seq(Characters)
           /\ SubSeq(chars, n + 1, Len(chars)) \in Seq(Characters)
           /\ Units(SubSeq(chars, 1, n)) = SubSeq(Units(chars), 1, Width(chars, n))
           /\ Units(SubSeq(chars, n + 1, Len(chars))) =
                  SubSeq(Units(chars), Width(chars, n) + 1, Len(Units(chars)))
<1> DEFINE N == Len(chars)
           a == SubSeq(chars, 1, n)
           b == SubSeq(chars, n + 1, N)
<1>1. N \in Nat /\ \A i \in 1 .. N : chars[i] \in Characters
  BY LenProperties, ElementOfSeq
<1>2. a \in Seq(Characters) /\ Len(a) = n
  <2>1. n \in Int /\ 1 \in Int /\ \A i \in 1 .. n : chars[i] \in Characters
    BY <1>1
  <2>2. a \in Seq(Characters) /\ Len(a) = IF 1 <= n THEN n - 1 + 1 ELSE 0
    BY <2>1, SubSeqProperties
  <2> HIDE DEF a
  <2> QED BY <1>1, <2>2
<1>3. b \in Seq(Characters)
  <2>1. n + 1 \in Int /\ N \in Int /\ \A i \in n + 1 .. N : chars[i] \in Characters
    BY <1>1
  <2> QED BY <2>1, SubSeqProperties
<1>4. a \o b = chars
  <2>1. 1 \in 1 .. N + 1 /\ n \in 1 - 1 .. N /\ N \in n .. N
    BY <1>1
  <2>2. SubSeq(chars, 1, n) \o SubSeq(chars, n + 1, N) = SubSeq(chars, 1, N)
    BY <2>1, ConcatAdjacentSubSeq
  <2> QED BY <2>2, SubSeqFull
<1> HIDE DEF a, b
<1>5. Units(chars) = Units(a) \o Units(b) /\ Width(chars, n) = Len(Units(a))
  BY <1>2, <1>3, <1>4, UnitsJoin
<1>6. Units(a) \in Seq(UnitSet) /\ Units(b) \in Seq(UnitSet)
  BY <1>2, <1>3, UnitsPlaced
<1>7. /\ SubSeq(Units(chars), 1, Width(chars, n)) = Units(a)
      /\ SubSeq(Units(chars), Width(chars, n) + 1, Len(Units(chars))) = Units(b)
  BY <1>5, <1>6, CutAtJoin
<1> QED BY <1>2, <1>3, <1>7 DEF a, b

\* Cutting out what is between two places joins what is before and after them.
LEMMA UnitsSplice ==
    ASSUME NEW chars \in Seq(Characters), NEW insert \in Seq(Characters),
           NEW m \in 0 .. Len(chars), NEW n \in 0 .. Len(chars)
    PROVE  LET after == SubSeq(chars, 1, m) \o insert \o SubSeq(chars, n + 1, Len(chars))
           IN  /\ after \in Seq(Characters)
               /\ Units(after) = SubSeq(Units(chars), 1, Width(chars, m)) \o Units(insert)
                                    \o SubSeq(Units(chars), Width(chars, n) + 1, Len(Units(chars)))
<1> DEFINE a == SubSeq(chars, 1, m)
           b == SubSeq(chars, n + 1, Len(chars))
<1>1. a \in Seq(Characters) /\ b \in Seq(Characters)
  BY UnitsCut
<1>2. Units(a) = SubSeq(Units(chars), 1, Width(chars, m))
  BY UnitsCut
<1>3. Units(b) = SubSeq(Units(chars), Width(chars, n) + 1, Len(Units(chars)))
  BY UnitsCut
<1> HIDE DEF a, b
<1>4. a \o insert \in Seq(Characters)
  BY <1>1, ConcatProperties
<1>5. (a \o insert) \o b \in Seq(Characters)
  BY <1>1, <1>4, ConcatProperties
<1>6. Units((a \o insert) \o b) = Units(a \o insert) \o Units(b)
  BY <1>1, <1>4, UnitsJoin
<1>7. Units(a \o insert) = Units(a) \o Units(insert)
  BY <1>1, UnitsJoin
<1> QED BY <1>2, <1>3, <1>5, <1>6, <1>7 DEF a, b

\* One change of the text is the change of its units, or neither can be made.
LEMMA ChangeAgrees ==
    ASSUME NEW chars \in Seq(Characters), NEW change \in VirtualChanges
    PROVE  /\ ApplyChange(chars, change).text \in Seq(Characters)
           /\ ApplyChange(chars, change).ok \in BOOLEAN
           /\ UnitsAfter(Units(chars), change) =
                  IF ApplyChange(chars, change).ok
                  THEN {Units(ApplyChange(chars, change).text)} ELSE {}
<1>1. CASE change.whole
  <2>1. ApplyChange(chars, change) = [text |-> change.text, ok |-> TRUE]
    BY <1>1 DEF ApplyChange
  <2>2. change.text \in Seq(Characters)
    BY DEF VirtualChanges
  <2> QED BY <1>1, <2>1, <2>2 DEF UnitsAfter
<1>2. CASE ~change.whole
  <2> DEFINE start == ByteOffset(chars, change.start)
             end == ByteOffset(chars, change.end)
             K == Units(chars)
             starts == Named(chars, change.start)
             ends == Named(chars, change.end)
             After(p) == SubSeq(K, 1, p[1]) \o Units(change.text) \o SubSeq(K, p[2] + 1, Len(K))
  <2>1. change.start \in TextPositions /\ change.end \in TextPositions /\ change.text \in Seq(Characters)
    BY <1>2 DEF VirtualChanges
  <2>2. /\ \/ start = Refused /\ starts = {}
           \/ start \in 0 .. Len(chars) /\ starts = {Width(chars, start)}
        /\ \/ end = Refused /\ ends = {}
           \/ end \in 0 .. Len(chars) /\ ends = {Width(chars, end)}
    BY <2>1, OffsetsAgree
  <2>3. UnitsAfter(K, change) = {After(p) : p \in {q \in starts \X ends : q[1] <= q[2]}}
    BY <1>2 DEF UnitsAfter, Named
  <2>4. Len(chars) \in Nat
    BY LenProperties
  <2>5. /\ Refused \in {start, end} \/ start > end => ApplyChange(chars, change) = [text |-> chars, ok |-> FALSE]
        /\ ~(Refused \in {start, end} \/ start > end) =>
               ApplyChange(chars, change) =
                   [text |-> SubSeq(chars, 1, start) \o change.text \o SubSeq(chars, end + 1, Len(chars)),
                    ok |-> TRUE]
    BY <1>2 DEF ApplyChange
  <2> HIDE DEF start, end, K, starts, ends, After
  <2>6. CASE Refused \in {start, end}
    <3>1. starts = {} \/ ends = {}
      BY <2>2, <2>4, <2>6 DEF Refused
    <3>2. UnitsAfter(K, change) = {}
      BY <2>3, <3>1
    <3>3. ApplyChange(chars, change) = [text |-> chars, ok |-> FALSE]
      BY <2>5, <2>6
    <3> QED BY <3>2, <3>3 DEF K
  <2>7. CASE Refused \notin {start, end}
    <3>1. /\ start \in 0 .. Len(chars) /\ starts = {Width(chars, start)}
          /\ end \in 0 .. Len(chars) /\ ends = {Width(chars, end)}
      BY <2>2, <2>7
    <3>2. /\ Width(chars, start) \in Nat /\ Width(chars, end) \in Nat
          /\ start <= end => Width(chars, start) <= Width(chars, end)
          /\ start > end => Width(chars, start) > Width(chars, end)
      <4>1. ASSUME NEW i \in 0 .. Len(chars), NEW j \in 0 .. Len(chars), i <= j
            PROVE  Width(chars, j) - Width(chars, i) >= j - i /\ Width(chars, i) \in Nat
        <5>1. j \in i .. Len(chars)
          BY <2>4, <4>1
        <5> QED BY <5>1, UnitsOfParts
      <4>2. Width(chars, start) \in Nat /\ Width(chars, end) \in Nat
        BY <3>1, <4>1, <2>4
      <4>3. CASE start <= end
        <5>1. Width(chars, end) - Width(chars, start) >= end - start
          BY <3>1, <4>1, <4>3
        <5> QED BY <2>4, <3>1, <4>2, <4>3, <5>1
      <4>4. CASE end < start
        <5>1. Width(chars, start) - Width(chars, end) >= start - end
          BY <3>1, <4>1, <4>4
        <5> QED BY <2>4, <3>1, <4>2, <4>4, <5>1
      <4> QED BY <2>4, <3>1, <4>3, <4>4
    <3>3. CASE start > end
      <4>1. {q \in starts \X ends : q[1] <= q[2]} = {}
        BY <3>1, <3>2, <3>3
      <4>2. UnitsAfter(K, change) = {}
        BY <2>3, <4>1
      <4>3. ApplyChange(chars, change) = [text |-> chars, ok |-> FALSE]
        BY <2>5, <3>3
      <4> QED BY <4>2, <4>3 DEF K
    <3>4. CASE ~(start > end)
      <4>1. {q \in starts \X ends : q[1] <= q[2]} = {<<Width(chars, start), Width(chars, end)>>}
        <5>1. Width(chars, start) <= Width(chars, end)
          BY <2>4, <3>1, <3>2, <3>4
        <5> QED BY <3>1, <5>1
      <4>2. UnitsAfter(K, change) = {After(<<Width(chars, start), Width(chars, end)>>)}
        BY <2>3, <4>1
      <4> DEFINE after == SubSeq(chars, 1, start) \o change.text \o SubSeq(chars, end + 1, Len(chars))
      <4>3. ApplyChange(chars, change) = [text |-> after, ok |-> TRUE]
        BY <2>5, <2>7, <3>4
      <4>4. after \in Seq(Characters) /\ Units(after) = After(<<Width(chars, start), Width(chars, end)>>)
        BY <2>1, <3>1, UnitsSplice, ZenonT(40) DEF After, K
      <4> HIDE DEF after
      <4> QED BY <4>2, <4>3, <4>4 DEF K
    <3> QED BY <3>3, <3>4
  <2> QED BY <2>6, <2>7
<1> QED BY <1>1, <1>2

-----------------------------------------------------------------------------
(* Batches of changes *)

\* Texts and whether every change so far could be made.
Outcomes == [text : Seq(Characters), ok : BOOLEAN]

\* The recursive functions of ApplyChanges and UnitsAfterAll.
OutcomeOf(chars, list) ==
    CHOOSE outcome : outcome = [n \in 0 .. Len(list) |->
        IF n = 0 THEN [text |-> chars, ok |-> TRUE] ELSE ApplyNext(outcome[n - 1], list[n])]

\* The texts that a server may have reached after each change.
ReachedFrom(units, list) ==
    CHOOSE reached : reached = [n \in 0 .. Len(list) |->
        IF n = 0 THEN {units} ELSE Reaching(reached[n - 1], list[n])]

\* Batches by those functions.
LEMMA BatchesByParts ==
    ASSUME NEW chars, NEW units, NEW list
    PROVE  /\ ApplyChanges(chars, list) = OutcomeOf(chars, list)[Len(list)]
           /\ UnitsAfterAll(units, list) = ReachedFrom(units, list)[Len(list)]
  BY Zenon DEF ApplyChanges, OutcomeOf, UnitsAfterAll, ReachedFrom

\* The texts of a batch.
LEMMA OutcomesGrow ==
    ASSUME NEW chars \in Seq(Characters), NEW list \in Seq(VirtualChanges)
    PROVE  /\ \A n \in 0 .. Len(list) : OutcomeOf(chars, list)[n] \in Outcomes
           /\ OutcomeOf(chars, list)[0] = [text |-> chars, ok |-> TRUE]
           /\ \A n \in 1 .. Len(list) :
                  OutcomeOf(chars, list)[n] = ApplyNext(OutcomeOf(chars, list)[n - 1], list[n])
<1> DEFINE N == Len(list)
           first == [text |-> chars, ok |-> TRUE]
           onward == [n \in 1 .. N |-> [s \in Outcomes |-> ApplyNext(s, list[n])]]
           u == OutcomeOf(chars, list)
<1>1. N \in Nat /\ first \in Outcomes /\ \A n \in 1 .. N : list[n] \in VirtualChanges
  BY LenProperties, ElementOfSeq DEF Outcomes
<1>2. ASSUME NEW n \in 1 .. N, NEW s \in Outcomes
      PROVE  onward[n][s] = ApplyNext(s, list[n]) /\ onward[n][s] \in Outcomes
  <2>1. onward[n][s] = ApplyNext(s, list[n])
    OBVIOUS
  <2>2. CASE s.ok
    <3>1. ApplyNext(s, list[n]) = ApplyChange(s.text, list[n])
      BY <2>2 DEF ApplyNext
    <3>2. s.text \in Seq(Characters) /\ list[n] \in VirtualChanges
      BY <1>1 DEF Outcomes
    <3>3. /\ ApplyChange(s.text, list[n]).text \in Seq(Characters)
          /\ ApplyChange(s.text, list[n]).ok \in BOOLEAN
      BY <3>2, ChangeAgrees
    <3>4. \E t, o : ApplyChange(s.text, list[n]) = [text |-> t, ok |-> o]
      BY DEF ApplyChange
    <3> HIDE DEF onward
    <3> QED BY <2>1, <3>1, <3>3, <3>4 DEF Outcomes
  <2>3. CASE ~s.ok
    BY <2>1, <2>3 DEF ApplyNext
  <2> QED BY <2>2, <2>3
<1> HIDE DEF onward, first
<1>3. PICK f \in [0 .. N -> Outcomes] : Follows(f, N, first, onward)
  BY <1>1, <1>2, Recursion
<1>4. ASSUME NEW n \in 0 .. N
      PROVE  f[n] = IF n = 0 THEN first ELSE ApplyNext(f[n - 1], list[n])
  <2>1. CASE n = 0
    BY <1>3, <2>1 DEF Follows
  <2>2. CASE n # 0
    <3>1. n \in 1 .. N /\ n - 1 \in 0 .. N
      BY <2>2, <1>1
    <3>2. f[n - 1] \in Outcomes /\ f[n] = onward[n][f[n - 1]]
      BY <1>3, <3>1 DEF Follows
    <3> QED BY <1>2, <2>2, <3>1, <3>2
  <2> QED BY <2>1, <2>2
<1>5. f = [n \in 0 .. N |-> IF n = 0 THEN first ELSE ApplyNext(f[n - 1], list[n])]
  BY <1>4
<1>6. u = [n \in 0 .. N |-> IF n = 0 THEN first ELSE ApplyNext(u[n - 1], list[n])]
  BY <1>5, Zenon DEF OutcomeOf, first
<1> HIDE DEF u
<1>7. u[0] = first /\ \A n \in 1 .. N : u[n] = ApplyNext(u[n - 1], list[n])
  BY <1>1, <1>6
<1>8. \A n \in 0 .. N : u[n] \in Outcomes
  <2> DEFINE T == {n \in 0 .. N : u[n] \in Outcomes}
  <2>1. 0 \in T
    BY <1>1, <1>7
  <2>2. ASSUME NEW n \in 0 .. N - 1, n \in T PROVE n + 1 \in T
    <3>1. n + 1 \in 1 .. N /\ u[n] \in Outcomes /\ (n + 1) - 1 = n
      BY <2>2, <1>1
    <3>2. u[n + 1] = ApplyNext(u[n], list[n + 1])
      BY <3>1, <1>7
    <3>3. u[n + 1] \in Outcomes
      BY <3>1, <3>2, <1>2
    <3> QED BY <3>1, <3>3
  <2>3. 0 .. N \subseteq T
    <3> HIDE DEF T
    <3> QED BY <1>1, <2>1, <2>2, ClimbTo
  <2> QED BY <2>3
<1> QED BY <1>7, <1>8 DEF u, first

\* The units that one outcome allows.
UnitsOfOutcome(outcome) == IF outcome.ok THEN {Units(outcome.text)} ELSE {}

\* One change more.
LEMMA NextAgrees ==
    ASSUME NEW outcome \in Outcomes, NEW change \in VirtualChanges
    PROVE  Reaching(UnitsOfOutcome(outcome), change) = UnitsOfOutcome(ApplyNext(outcome, change))
<1>1. outcome.text \in Seq(Characters)
  BY DEF Outcomes
<1>2. CASE outcome.ok
  <2>1. Reaching(UnitsOfOutcome(outcome), change) = UnitsAfter(Units(outcome.text), change)
    BY <1>2 DEF Reaching, UnitsOfOutcome
  <2>2. ApplyNext(outcome, change) = ApplyChange(outcome.text, change)
    BY <1>2 DEF ApplyNext
  <2> QED BY <1>1, <2>1, <2>2, ChangeAgrees DEF UnitsOfOutcome
<1>3. CASE ~outcome.ok
  BY <1>3 DEF Reaching, UnitsOfOutcome, ApplyNext
<1> QED BY <1>2, <1>3

\* A batch of changes of the text is that of its units, or neither can be made.
LEMMA BatchAgrees ==
    ASSUME NEW chars \in Seq(Characters), NEW list \in Seq(VirtualChanges)
    PROVE  /\ ApplyChanges(chars, list) \in Outcomes
           /\ UnitsAfterAll(Units(chars), list) = UnitsOfOutcome(ApplyChanges(chars, list))
<1> DEFINE N == Len(list)
           u == OutcomeOf(chars, list)
           v == ReachedFrom(Units(chars), list)
           f == [n \in 0 .. N |-> UnitsOfOutcome(u[n])]
           T == {n \in 0 .. N : v[n] = UnitsOfOutcome(u[n])}
<1>1. N \in Nat /\ \A n \in 1 .. N : list[n] \in VirtualChanges
  BY LenProperties, ElementOfSeq
<1>2. /\ \A n \in 0 .. N : u[n] \in Outcomes
      /\ u[0] = [text |-> chars, ok |-> TRUE]
      /\ \A n \in 1 .. N : u[n] = ApplyNext(u[n - 1], list[n])
  BY OutcomesGrow
<1> HIDE DEF u
<1>3. UnitsOfOutcome(u[0]) = {Units(chars)}
  BY <1>2 DEF UnitsOfOutcome
<1>4. ASSUME NEW n \in 1 .. N PROVE UnitsOfOutcome(u[n]) = Reaching(UnitsOfOutcome(u[n - 1]), list[n])
  <2>1. n - 1 \in 0 .. N
    BY <1>1
  <2> QED BY <1>1, <1>2, <2>1, NextAgrees
<1>5. f = [n \in 0 .. N |-> IF n = 0 THEN {Units(chars)} ELSE Reaching(f[n - 1], list[n])]
  <2> SUFFICES ASSUME NEW n \in 0 .. N
               PROVE  f[n] = IF n = 0 THEN {Units(chars)} ELSE Reaching(f[n - 1], list[n])
    OBVIOUS
  <2>1. CASE n = 0
    BY <1>3, <2>1
  <2>2. CASE n # 0
    <3>1. n \in 1 .. N /\ n - 1 \in 0 .. N
      BY <1>1, <2>2
    <3>2. f[n - 1] = UnitsOfOutcome(u[n - 1]) /\ f[n] = UnitsOfOutcome(u[n])
      BY <3>1
    <3> QED BY <1>4, <2>2, <3>1, <3>2
  <2> QED BY <2>1, <2>2
<1>6. v = [n \in 0 .. N |-> IF n = 0 THEN {Units(chars)} ELSE Reaching(v[n - 1], list[n])]
  <2> HIDE DEF f
  <2> QED BY <1>5, Zenon DEF ReachedFrom
<1> HIDE DEF v
<1>7. v[0] = {Units(chars)} /\ \A n \in 1 .. N : v[n] = Reaching(v[n - 1], list[n])
  <2> DEFINE first == {Units(chars)}
  <2>1. v = [n \in 0 .. N |-> IF n = 0 THEN first ELSE Reaching(v[n - 1], list[n])]
    BY <1>6
  <2> HIDE DEF first, N
  <2>2. v[0] = first
    BY <1>1, <2>1
  <2>3. \A n \in 1 .. N : v[n] = Reaching(v[n - 1], list[n])
    BY <1>1, <2>1
  <2> QED BY <2>2, <2>3 DEF first, N
<1>8. 0 \in T
  <2>1. v[0] = UnitsOfOutcome(u[0])
    BY <1>3, <1>7
  <2> QED BY <1>1, <2>1
<1>9. ASSUME NEW n \in 0 .. N - 1, n \in T PROVE n + 1 \in T
  <2>1. n + 1 \in 1 .. N /\ (n + 1) - 1 = n
    BY <1>1
  <2>2. v[n + 1] = Reaching(v[n], list[n + 1]) /\ v[n] = UnitsOfOutcome(u[n])
    BY <1>7, <1>9, <2>1
  <2>3. UnitsOfOutcome(u[n + 1]) = Reaching(UnitsOfOutcome(u[n]), list[n + 1])
    BY <1>4, <2>1
  <2> QED BY <2>1, <2>2, <2>3
<1>10. v[N] = UnitsOfOutcome(u[N]) /\ u[N] \in Outcomes
  <2>1. 0 .. N \subseteq T
    <3> HIDE DEF T
    <3> QED BY <1>1, <1>8, <1>9, ClimbTo
  <2> QED BY <1>1, <1>2, <2>1
<1>11. ApplyChanges(chars, list) = u[N] /\ UnitsAfterAll(Units(chars), list) = v[N]
  BY BatchesByParts DEF u, v
<1> QED BY <1>10, <1>11

-----------------------------------------------------------------------------
(* The document *)

\* Texts of bounded length.
LEMMA BoundedTexts ==
    /\ \A chars \in BoundedSeq(Characters, MaxLength) : chars \in Seq(Characters)
    /\ \A chars \in Seq(Characters) :
           Len(chars) <= MaxLength => chars \in BoundedSeq(Characters, MaxLength)
<1>1. ASSUME NEW chars \in BoundedSeq(Characters, MaxLength) PROVE chars \in Seq(Characters)
  <2>1. PICK n \in 0 .. MaxLength : chars \in [1 .. n -> Characters]
    BY Zenon DEF BoundedSeq, SeqOf
  <2>2. n \in Nat
    BY DocumentAssumption
  <2> QED BY <2>1, <2>2, SeqDef
<1>2. ASSUME NEW chars \in Seq(Characters), Len(chars) <= MaxLength
      PROVE  chars \in BoundedSeq(Characters, MaxLength)
  <2>1. Len(chars) \in 0 .. MaxLength /\ chars \in [1 .. Len(chars) -> Characters]
    BY <1>2, DocumentAssumption, LenProperties
  <2> HIDE DEF Characters
  <2> QED BY <2>1, Zenon DEF BoundedSeq, SeqOf
<1> QED BY <1>1, <1>2

\* Every variable of the document keeps to its type, and no call counts twice.
THEOREM DocumentTypes == DocumentSpec => []DocumentTypeOK
<1>1. DocumentInit => DocumentTypeOK
  <2> SUFFICES ASSUME DocumentInit PROVE DocumentTypeOK
    OBVIOUS
  <2>1. text \in Seq(Characters) /\ Len(text) <= MaxLength
    BY DocumentAssumption DEF DocumentInit
  <2>2. text \in BoundedSeq(Characters, MaxLength)
    BY <2>1, BoundedTexts
  <2> QED BY <2>2, DocumentAssumption DEF DocumentInit, DocumentTypeOK
<1>2. DocumentTypeOK /\ [DocumentNext]_documentVars => DocumentTypeOK'
  <2> SUFFICES ASSUME DocumentTypeOK, [DocumentNext]_documentVars PROVE DocumentTypeOK'
    OBVIOUS
  <2>1. CASE UNCHANGED documentVars
    BY <2>1 DEF DocumentTypeOK, documentVars
  <2>2. CASE DocumentNext
    <3>1. calls < MaxEdits /\ calls' = calls + 1
      BY <2>2 DEF DocumentNext, Edit
    <3>2. PICK batch \in EditLists : EditText(batch)
      BY <2>2 DEF DocumentNext, Edit
    <3> DEFINE outcome == ApplyChanges(text, batch)
    <3>3. text \in Seq(Characters) /\ batch \in Seq(VirtualChanges)
      BY DocumentAssumption, BoundedTexts DEF DocumentTypeOK
    <3>4. outcome \in Outcomes
      BY <3>3, BatchAgrees
    <3>5. /\ Len(outcome.text) <= MaxLength /\ text' = outcome.text /\ ok' = outcome.ok
          /\ version' = IF outcome.ok /\ batch # <<>> THEN version + 1 ELSE version
          /\ changes' = batch
      BY <3>2 DEF EditText
    <3> HIDE DEF outcome
    <3>6. text' \in Seq(Characters) /\ Len(text') <= MaxLength /\ ok' \in BOOLEAN
      BY <3>4, <3>5 DEF Outcomes
    <3>7. text' \in BoundedSeq(Characters, MaxLength)
      BY <3>6, BoundedTexts
    <3>8. calls' \in 0 .. MaxEdits /\ version' \in 1 .. 1 + calls'
      BY <3>1, <3>5, DocumentAssumption DEF DocumentTypeOK
    <3> QED BY <3>5, <3>6, <3>7, <3>8 DEF DocumentTypeOK
  <2> QED BY <2>1, <2>2
<1> QED BY <1>1, <1>2, PTL DEF DocumentSpec

\* A server that replays a batch on UTF-16 units ends with the text of the document,
\* and refuses it exactly if the document does, whatever the texts and the batches
\* (apply_changes, apply_change and byte_offset against the LSP's positions).
THEOREM ReplaysAgree == DocumentSpec => ReplayAgrees
<1> DEFINE Replayed == UnitsAfterAll(Units(text), changes') = IF ok' THEN {Units(text')} ELSE {}
<1>1. DocumentTypeOK /\ [DocumentNext]_documentVars => [Replayed]_documentVars
  <2> SUFFICES ASSUME DocumentTypeOK, DocumentNext PROVE Replayed
    OBVIOUS
  <2>1. PICK batch \in EditLists : EditText(batch)
    BY DEF DocumentNext, Edit
  <2>2. text \in Seq(Characters) /\ batch \in Seq(VirtualChanges)
    BY DocumentAssumption, BoundedTexts DEF DocumentTypeOK
  <2>3. /\ text' = ApplyChanges(text, batch).text /\ ok' = ApplyChanges(text, batch).ok
        /\ changes' = batch
    BY <2>1 DEF EditText
  <2>4. UnitsAfterAll(Units(text), batch) = UnitsOfOutcome(ApplyChanges(text, batch))
    BY <2>2, BatchAgrees
  <2> QED BY <2>3, <2>4 DEF UnitsOfOutcome
<1> QED BY <1>1, DocumentTypes, PTL DEF DocumentSpec, ReplayAgrees

-----------------------------------------------------------------------------
(* The parts side by side *)

\* Each part behaves in the composition as it does alone.
LEMMA PartsBehave ==
    MCSpec => /\ Spec /\ DocumentSpec /\ SessionSpec /\ SpanSpec /\ CheckerSpec
<1>1. MCInit => Init /\ DocumentInit /\ SessionInit /\ SpanInit /\ CheckerInit
  BY DEF MCInit
<1>2. [MCNext]_<<subject, vars, documentVars, sessionVars, lookupVars>> =>
          /\ [Next]_vars /\ [DocumentNext]_documentVars /\ [SessionNext]_sessionVars
          /\ [SpanNext]_segments /\ [CheckerNext]_checkerVars
  BY DEF MCNext, lookupVars
<1> QED BY <1>1, <1>2, PTL DEF MCSpec, Spec, DocumentSpec, SessionSpec, SpanSpec, CheckerSpec

\* The type invariant of the run.
THEOREM TypesCorrect == MCSpec => []TypesOK
<1>1. TypeOK /\ DocumentTypeOK /\ SessionTypeOK => TypesOK
  BY DEF TypesOK
<1> QED BY <1>1, PartsBehave, TypeCorrect, DocumentTypes, SessionTypeCorrect, PTL

\* Every lookup in a span map finds what a look at all segments would, in the run.
THEOREM SpanLookupsCorrect == MCSpec => []SpanLookupsAgree
<1>1. LookupsAgree => SpanLookupsAgree
  BY DEF SpanLookupsAgree
<1>2. MCSpec => SpanSpec
  BY PartsBehave
<1> QED BY <1>1, <1>2, LookupsCorrect, PTL
==============================================================================
