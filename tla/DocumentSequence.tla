--------------------------- MODULE DocumentSequence --------------------------
(***************************************************************************)
(* The didOpen, didChange and didClose notifications that a language       *)
(* server may be sent, without the client that sends them: a document is   *)
(* opened when it is not open, and while it is open it is changed to a     *)
(* higher version or closed.  A close may get lost; then the document may  *)
(* only be opened again.                                                   *)
(***************************************************************************)
EXTENDS Integers

CONSTANT Uris    \* documents

VARIABLES
    latest,      \* version of each open document, 0 when it is not open
    unclosed,    \* open documents whose close was lost
    complaints   \* notifications of each document that were out of place

seen == <<latest, unclosed, complaints>>

Init ==
    /\ latest = [u \in Uris |-> 0]
    /\ unclosed = {}
    /\ complaints = [u \in Uris |-> {}]

(* Only u changes, to a version. *)
Show(u) ==
    /\ latest'[u] \in Nat
    /\ latest' = [latest EXCEPT ![u] = latest'[u]]

Open(u) == latest[u] > 0 /\ u \notin unclosed

DidOpen(u) ==
    /\ latest[u] = 0
    /\ Show(u) /\ latest'[u] > 0
    /\ UNCHANGED <<unclosed, complaints>>

DidChange(u) ==
    /\ Open(u)
    /\ Show(u) /\ latest'[u] > latest[u]
    /\ UNCHANGED <<unclosed, complaints>>

DidClose(u) ==
    /\ Open(u)
    /\ Show(u) /\ latest'[u] = 0
    /\ UNCHANGED <<unclosed, complaints>>

LoseClose(u) ==
    /\ Open(u)
    /\ unclosed' = unclosed \cup {u}
    /\ UNCHANGED <<latest, complaints>>

Reopen(u) ==
    /\ u \in unclosed
    /\ Show(u) /\ latest'[u] > 0
    /\ unclosed' = unclosed \ {u}
    /\ complaints' = [complaints EXCEPT ![u] = @ \cup {"didOpen"}]

Next ==
    \E u \in Uris :
        \/ DidOpen(u) \/ DidChange(u) \/ DidClose(u)
        \/ LoseClose(u) \/ Reopen(u)

Spec == Init /\ [][Next]_seen
=============================================================================
