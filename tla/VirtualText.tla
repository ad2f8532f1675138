----------------------------- MODULE VirtualText -----------------------------
(***************************************************************************)
(* The text edits of src/src/core/corsa_lsp/src/lsp/virtual_document.rs,   *)
(* as operators without state.                                             *)
(*                                                                         *)
(* A text is a sequence of characters, and an offset into it counts        *)
(* characters: a byte offset on a character boundary, which is all that    *)
(* byte_offset returns, names the same place.  Of a character only what    *)
(* the code looks at is kept: whether it is a newline, and how many UTF-16 *)
(* units it takes.                                                         *)
(***************************************************************************)
EXTENDS Integers, SequencesExt

Plain   == "plain"    \* one UTF-16 unit
Wide    == "wide"     \* a surrogate pair
Return  == "return"   \* carriage return
Newline == "newline"

Characters == {Plain, Wide, Return, Newline}

(* Mutant of Utf16: columns counted in characters. *)
CountCharacters(ch) == 1

Utf16(ch) == IF ch = Wide THEN 2 ELSE 1

(* A position that byte_offset refuses. *)
Refused == -1

(***************************************************************************)
(* One character of the scan of byte_offset, which stops at the position,  *)
(* at the end of the position's line, or inside the character that the     *)
(* position splits.                                                        *)
(***************************************************************************)
Here(scan, position) == scan.line = position.line /\ scan.column = position.character

ReadOn(scan, ch, position) ==
    IF scan.index = Refused \/ Here(scan, position) THEN scan
    ELSE IF scan.line # position.line
    THEN IF ch = Newline THEN [index |-> scan.index + 1, line |-> scan.line + 1, column |-> 0]
         ELSE [scan EXCEPT !.index = @ + 1]
    ELSE IF ch = Newline \/ scan.column + Utf16(ch) > position.character
    THEN [scan EXCEPT !.index = Refused]
    ELSE [scan EXCEPT !.index = @ + 1, !.column = @ + Utf16(ch)]

(* byte_offset: the scan of the whole text. *)
ByteOffset(text, position) ==
    LET scan[n \in 0 .. Len(text)] ==
            IF n = 0 THEN [index |-> 0, line |-> 0, column |-> 0]
            ELSE ReadOn(scan[n - 1], text[n], position)
        end == scan[Len(text)]
    IN  IF Here(end, position) THEN end.index ELSE Refused

(* A VirtualChange: a full replacement or the replacement of a range. *)
Replace(text) == [whole |-> TRUE, text |-> text]

Splice(start, end, text) ==
    [whole |-> FALSE, start |-> start, end |-> end, text |-> text]

(***************************************************************************)
(* apply_change: the text it leaves behind and whether it succeeded.       *)
(***************************************************************************)
ApplyChange(text, change) ==
    LET start == ByteOffset(text, change.start)
        end   == ByteOffset(text, change.end)
    IN  CASE change.whole -> [text |-> change.text, ok |-> TRUE]
          [] ~change.whole /\ (Refused \in {start, end} \/ start > end) ->
                [text |-> text, ok |-> FALSE]
          [] OTHER ->
                [text |-> SubSeq(text, 1, start) \o change.text
                            \o SubSeq(text, end + 1, Len(text)),
                 ok   |-> TRUE]

(***************************************************************************)
(* The loop of apply_changes: the first change that fails ends it, and the *)
(* changes before it stay applied.                                         *)
(***************************************************************************)
ApplyNext(outcome, change) ==
    IF outcome.ok THEN ApplyChange(outcome.text, change) ELSE outcome

ApplyChanges(text, changes) ==
    LET outcome[n \in 0 .. Len(changes)] ==
            IF n = 0 THEN [text |-> text, ok |-> TRUE]
            ELSE ApplyNext(outcome[n - 1], changes[n])
    IN  outcome[Len(changes)]
=============================================================================
