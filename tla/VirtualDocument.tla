--------------------------- MODULE VirtualDocument ---------------------------
(***************************************************************************)
(* One VirtualDocument edited by batches of changes                        *)
(* (VirtualDocument::apply_changes in                                      *)
(* src/src/core/corsa_lsp/src/lsp/virtual_document.rs).                    *)
(***************************************************************************)
EXTENDS VirtualText

CONSTANTS
    FirstTexts,   \* texts a document is created with
    EditLists,    \* change lists passed to apply_changes
    MaxEdits,     \* bound: calls of apply_changes
    MaxLength    \* bound: characters of the text

TextPositions == [line : Nat, character : Nat]
VirtualChanges ==
    [whole : {TRUE}, text : Seq(Characters)]
    \cup [whole : {FALSE}, start : TextPositions, end : TextPositions, text : Seq(Characters)]

ASSUME DocumentAssumption ==
    /\ MaxEdits \in Nat /\ MaxLength \in Nat
    /\ \A first \in FirstTexts : first \in Seq(Characters) /\ Len(first) <= MaxLength
    /\ \A batch \in EditLists : batch \in Seq(VirtualChanges)

VARIABLES
    version,   \* VirtualDocument.version
    text,      \* VirtualDocument.text
    calls,     \* calls made so far
    changes,   \* history: the batch of the last call
    ok         \* history: whether the last call succeeded

documentVars == <<version, text, calls, changes, ok>>

DocumentInit ==
    /\ version = 1
    /\ text \in FirstTexts
    /\ calls = 0
    /\ changes = <<>>
    /\ ok = TRUE

(* Mutant of EditText: the version counts changes, not calls. *)
EditTextCountsChanges(batch) ==
    LET outcome == ApplyChanges(text, batch)
    IN  /\ Len(outcome.text) <= MaxLength
        /\ text' = outcome.text
        /\ ok' = outcome.ok
        /\ version' = IF outcome.ok THEN version + Len(batch) ELSE version
        /\ changes' = batch

(***************************************************************************)
(* apply_changes: an empty list changes nothing; a failing list leaves the *)
(* text where the failure found it; a list that succeeds counts once.      *)
(***************************************************************************)
EditText(batch) ==
    LET outcome == ApplyChanges(text, batch)
    IN  /\ Len(outcome.text) <= MaxLength
        /\ text' = outcome.text
        /\ ok' = outcome.ok
        /\ version' = IF outcome.ok /\ batch # <<>> THEN version + 1 ELSE version
        /\ changes' = batch

Edit ==
    /\ calls < MaxEdits
    /\ calls' = calls + 1
    /\ \E batch \in EditLists : EditText(batch)

DocumentNext == Edit

DocumentSpec == DocumentInit /\ [][DocumentNext]_documentVars

-----------------------------------------------------------------------------
(***************************************************************************)
(* What a language server does with the same changes: it keeps the text as *)
(* UTF-16 units and a position is a line and a number of units into it.    *)
(* Breaks(units, i) is TRUE when a line ends with the unit i.              *)
(***************************************************************************)
UnitsOf(ch) == IF ch = Wide THEN <<"high", "low">> ELSE <<ch>>

Units(chars) ==
    LET units[n \in 0 .. Len(chars)] ==
            IF n = 0 THEN <<>> ELSE units[n - 1] \o UnitsOf(chars[n])
    IN  units[Len(chars)]

NewlineBreaks(units, i) == units[i] = Newline

(* The line ends of the LSP standard: LF, CR LF and CR. *)
StandardBreaks(units, i) ==
    \/ units[i] = Newline
    \/ units[i] = Return /\ ~(i < Len(units) /\ units[i + 1] = Newline)

(* The number of units before the place named by a position, if any. *)
UnitOffsets(units, position, Breaks(_, _)) ==
    {n \in 0 .. Len(units) :
        \E m \in 0 .. n :
            /\ n = m + position.character
            /\ m = 0 \/ Breaks(units, m)
            /\ \A i \in m + 1 .. n : ~Breaks(units, i)
            /\ Cardinality({i \in 1 .. m : Breaks(units, i)}) = position.line
            /\ ~(n > 0 /\ units[n] = "high")}

(* The units after one change, the empty set when the change is not legal. *)
UnitsAfter(units, change) ==
    IF change.whole THEN {Units(change.text)}
    ELSE LET starts == UnitOffsets(units, change.start, NewlineBreaks)
             ends   == UnitOffsets(units, change.end, NewlineBreaks)
         IN  {SubSeq(units, 1, p[1]) \o Units(change.text)
                    \o SubSeq(units, p[2] + 1, Len(units)) :
                p \in {q \in starts \X ends : q[1] <= q[2]}}

Reaching(reached, change) == UNION {UnitsAfter(u, change) : u \in reached}

UnitsAfterAll(units, list) ==
    LET reached[n \in 0 .. Len(list)] ==
            IF n = 0 THEN {units} ELSE Reaching(reached[n - 1], list[n])
    IN  reached[Len(list)]

-----------------------------------------------------------------------------
(* Every variable keeps to its type, and no call counts twice. *)
DocumentTypeOK ==
    /\ calls \in 0 .. MaxEdits
    /\ version \in 1 .. 1 + calls
    /\ text \in BoundedSeq(Characters, MaxLength)
    /\ changes \in EditLists \cup {<<>>}
    /\ ok \in BOOLEAN

(***************************************************************************)
(* A server that replays the batch on UTF-16 units, as the didChange       *)
(* notification asks it to, ends with the text of the document, and the    *)
(* document refuses exactly the batches that no server could replay        *)
(* (apply_changes, apply_change, byte_offset).                             *)
(***************************************************************************)
ReplayAgrees ==
    [][UnitsAfterAll(Units(text), changes')
            = IF ok' THEN {Units(text')} ELSE {}]_documentVars

(***************************************************************************)
(* "Offsets follow standard LSP UTF-16 coordinate rules"                   *)
(* (VirtualChange::splice): an accepted splice is at the offsets that the  *)
(* standard's line ends give.                                              *)
(***************************************************************************)
StandardOffsets ==
    [][\A i \in DOMAIN changes' :
        (Len(changes') = 1 /\ ok' /\ ~changes'[i].whole) =>
            UnitOffsets(Units(text), changes'[i].start, StandardBreaks) # {}]_documentVars
=============================================================================
