----------------------------- MODULE MCDocuments -----------------------------
(* TLC instances of LspOverlay, VirtualDocument, CheckerSession, SpanMap and *)
(* CheckerBatch, which share no state: each behaviour exercises one of them, *)
(* chosen at the start.                                                      *)
EXTENDS LspOverlay, VirtualDocument, CheckerSession, SpanMap, CheckerBatch

CONSTANTS e1, e2, u1, u2, f1, f2, x, y,
          Subjects   \* the parts at work in an instance

VARIABLE subject   \* the part at work; never changes

lookupVars == <<segments, checkerVars>>

MCInit ==
    /\ subject \in Subjects
    /\ Init /\ DocumentInit /\ SessionInit /\ SpanInit /\ CheckerInit
    /\ subject # "overlay" => uri = [e \in Editors |-> u1]
    /\ subject # "document" => text = <<>>
    /\ subject # "session" => disk = [f \in SourceFiles |-> [text |-> x, mtime |-> 1]]

MCNext ==
    /\ UNCHANGED subject
    /\ \/ subject = "overlay" /\ Next /\ UNCHANGED <<documentVars, sessionVars, lookupVars>>
       \/ subject = "document" /\ DocumentNext /\ UNCHANGED <<vars, sessionVars, lookupVars>>
       \/ subject = "session" /\ SessionNext /\ UNCHANGED <<vars, documentVars, lookupVars>>
       \/ subject = "spans" /\ SpanNext /\ UNCHANGED <<vars, documentVars, sessionVars, checkerVars>>
       \/ subject = "checkers" /\ CheckerNext /\ UNCHANGED <<vars, documentVars, sessionVars, segments>>

MCSpec == MCInit /\ [][MCNext]_<<subject, vars, documentVars, sessionVars, lookupVars>>

AllParts == {"overlay", "document", "session", "spans", "checkers"}
SessionOnly == {"session"}
OverlayOnly == {"overlay"}
DocumentOnly == {"document"}

(* Every variable of the part at work keeps to its type.                      *)
TypesOK ==
    /\ subject = "overlay" => TypeOK
    /\ subject = "document" => DocumentTypeOK
    /\ subject = "session" => SessionTypeOK

(* Every lookup in a span map finds what a look at all segments would.        *)
SpanLookupsAgree == subject = "spans" => LookupsAgree

-----------------------------------------------------------------------------
Place(line, character) == [line |-> line, character |-> character]

\* The overlay: texts of up to two characters.
ShortTexts == BoundedSeq({Plain}, 2)
OpeningTexts == {<<>>, <<Plain>>}
Prepend == Splice(Place(0, 0), Place(0, 0), <<Plain>>)
DeleteSecond == Splice(Place(0, 1), Place(0, 2), <<>>)  \* fails on fewer than two
SingleChanges == {<<Replace(<<Plain>>)>>, <<Prepend>>, <<DeleteSecond>>}
ChangeLists == SingleChanges \cup {<<Prepend, DeleteSecond>>}  \* half of it fails on <<>>

OnePerEditor == {<<e1, u1>>, <<e2, u2>>}
OneForBoth == {<<e1, u1>>, <<e2, u1>>}

\* A document: every place in a text of three characters, and places past its ends.
Splices(places, texts) == {Splice(s, e, t) : s \in places, e \in places, t \in texts}
AllTexts == BoundedSeq(Characters, 3)
Places == {Place(l, c) : l \in 0 .. 2, c \in 0 .. 4}
NearPlaces == {Place(0, 0), Place(0, 2), Place(1, 0)}
Single == {Replace(<<Wide>>)} \cup Splices(Places, {<<>>, <<Wide>>})
Near == {Replace(<<Newline>>)} \cup Splices(NearPlaces, {<<>>, <<Plain, Newline>>})
AllLists == {<<>>} \cup {<<c>> : c \in Single} \cup (Near \X Near)

\* Segments of a span map: virtual texts of four units, originals of two.
Ranges(last) == {r \in (0 .. last) \X (0 .. last) : r[1] <= r[2]}
Segment(v, o, verbatim, features) ==
    [virtualStart |-> v[1], virtualEnd |-> v[2], originalStart |-> o[1], originalEnd |-> o[2],
     verbatim |-> verbatim, features |-> features]
Atoms == {Segment(v, o, FALSE, fs) : v \in Ranges(4), o \in Ranges(2), fs \in SUBSET {"rename"}}
Verbatims == {Segment(v, o, TRUE, fs) : v \in Ranges(4), o \in Ranges(2), fs \in SUBSET {"rename"}}
AllSegments ==
    {s \in Atoms \cup Verbatims :
        /\ s.virtualStart < s.virtualEnd
        /\ s.verbatim => s.virtualEnd - s.virtualStart = s.originalEnd - s.originalStart}

\* Queries for a batch: merged ones with and without repetitions, in two files,
\* and direct ones whose answer is a value or a list.
Merged(method, file, items, single) ==
    [method |-> method, file |-> file, items |-> items, single |-> single, direct |-> FALSE, list |-> FALSE]
Direct(method, item, list) ==
    [method |-> method, file |-> "none", items |-> <<item>>, single |-> TRUE, direct |-> TRUE, list |-> list]
SomeQueries ==
    {Merged("getTypesAtPositions", "a", items, FALSE) : items \in {<<>>, <<1, 2>>, <<2, 1, 2>>}}
    \cup {Merged("getTypesAtPositions", file, <<1>>, TRUE) : file \in {"a", "b"}}
    \cup {Merged("getSymbolsAtPositions", "a", <<1>>, TRUE), Merged("getTypesOfSymbols", "none", <<3, 4>>, FALSE)}
    \cup {Direct("getSymbolOfType", 1, FALSE), Direct("getTypeArguments", 1, TRUE)}
=============================================================================
