------------------------------ MODULE TextEdits ------------------------------
(* apply_text_edits (utils/workspace_edit.py): text edits of one document     *)
(* applied to its lines one after the other, the last first, against what the *)
(* edits mean together, each a replacement in the text as it was. A text is a *)
(* sequence of characters, of which only the end of a line is told from the   *)
(* others. Characters outside the plane where code points and the protocol's  *)
(* code units are the same, and the separators beside the newline that        *)
(* splitlines knows, are left out.                                            *)
EXTENDS Naturals, SequencesExt

CONSTANTS
    Newline,
    Texts,      \* the texts that are edited
    NewTexts,   \* the texts that edits put in
    MaxEdits    \* how many are applied at most

ASSUME TextsAssumption ==
    MaxEdits \in Nat /\ \A t \in Texts \cup NewTexts : t \in Seq(ToSet(t))

VARIABLES
    text,       \* the text before
    spans,      \* what the edits are to replace
    lines,      \* the lines as the edits so far left them
    pending     \* the edits still to apply, in their order

vars == <<text, spans, lines, pending>>

(* Lines and characters count from 0, an edit replaces what is from its start *)
(* up to its end.                                                             *)
TextEdit(start, end, new) == [start |-> start, end |-> end, new |-> new]

Precedes(p, q) == p[1] < q[1] \/ (p[1] = q[1] /\ p[2] < q[2])

(* splitlines(keepends): no line behind the last newline.                     *)
Ends(content) == {i \in DOMAIN content : content[i] = Newline \/ i = Len(content)}

EndOf(content, n) ==
    IF n = 0 THEN 0
    ELSE CHOOSE i \in Ends(content) : Cardinality({j \in Ends(content) : j <= i}) = n

SplitLines(content) ==
    [n \in 1 .. Cardinality(Ends(content)) |->
        SubSeq(content, EndOf(content, n - 1) + 1, EndOf(content, n))]

(* Python's line[:n] and line[n:].                                            *)
Before(line, n) == SubSeq(line, 1, IF n < Len(line) THEN n ELSE Len(line))
From(line, n) == SubSeq(line, n + 1, Len(line))

-----------------------------------------------------------------------------
(* What a slip in the code would make of an operator below: the variants TLC  *)
(* must tell from the code. No specification uses them.                       *)

(* The line an edit ends on stays behind the line it became part of.          *)
ReplaceKeepsEnd(edit) ==
    LET first == edit.start[1]
        last == edit.end[1]
        rest == IF last >= Len(lines) THEN <<>> ELSE From(lines[last + 1], edit.end[2])
        line == Before(lines[first + 1], edit.start[2]) \o edit.new \o rest IN
    SubSeq(lines, 1, first) \o <<line>>
        \o SubSeq(lines, IF last >= Len(lines) \/ last = first THEN first + 2 ELSE last + 1,
                  Len(lines))

(* The edits are applied from the start of the document.                      *)
FirstToLast(edits) ==
    LET sooner(i, j) == \/ Precedes(edits[i].start, edits[j].start)
                        \/ edits[i].start = edits[j].start /\ i <= j
        nth(n) == CHOOSE i \in DOMAIN edits :
                      Cardinality({j \in DOMAIN edits : sooner(j, i)}) = n IN
    [n \in DOMAIN edits |-> edits[nth(n)]]

-----------------------------------------------------------------------------
(* sorted(..., reverse=True) leaves edits with the same start in their order. *)
LastToFirst(edits) ==
    LET sooner(i, j) == \/ Precedes(edits[j].start, edits[i].start)
                        \/ edits[i].start = edits[j].start /\ i <= j
        nth(n) == CHOOSE i \in DOMAIN edits :
                      Cardinality({j \in DOMAIN edits : sooner(j, i)}) = n IN
    [n \in DOMAIN edits |-> edits[nth(n)]]

(* Behind the last line: empty lines up to the one that becomes the new text. *)
Extend(edit) ==
    lines \o [n \in 1 .. edit.start[1] - Len(lines) |-> <<Newline>>] \o <<edit.new>>

(* The lines the edit ends and starts on become one. An end behind the last   *)
(* line leaves the lines that follow the first as they are.                   *)
Replace(edit) ==
    LET first == edit.start[1]
        last == edit.end[1]
        rest == IF last >= Len(lines) THEN <<>> ELSE From(lines[last + 1], edit.end[2])
        line == Before(lines[first + 1], edit.start[2]) \o edit.new \o rest IN
    SubSeq(lines, 1, first) \o <<line>>
        \o SubSeq(lines, IF last >= Len(lines) THEN first + 2 ELSE last + 2, Len(lines))

-----------------------------------------------------------------------------
(* What edits mean: the places of a text are counted in characters, and       *)
(* everything between two places of a span gives way to its new text.         *)
Spans(content) ==
    {span \in [from : 0 .. Len(content), to : 0 .. Len(content), new : NewTexts] :
        span.from <= span.to}

Apart(s, t) == s.to <= t.from \/ t.to <= s.from

(* At every place what is put in there, then the character behind it unless   *)
(* that goes. No two spans start at one place (see Sound).                    *)
Meant ==
    LET at(place) == {n \in DOMAIN spans : spans[n].from = place}
        put(place) == IF at(place) = {} THEN <<>> ELSE spans[CHOOSE n \in at(place) : TRUE].new
        goes(place) == \E n \in DOMAIN spans : spans[n].from <= place /\ place < spans[n].to
        kept(place) == IF place = Len(text) \/ goes(place) THEN <<>> ELSE <<text[place + 1]>> IN
    FlattenSeq([n \in 1 .. Len(text) + 1 |-> put(n - 1) \o kept(n - 1)])

Position(content, place) ==
    LET newlines == {i \in 1 .. place : content[i] = Newline} IN
    <<Cardinality(newlines), place - (IF newlines = {} THEN 0 ELSE Max(newlines))>>

AsEdit(content, span) ==
    TextEdit(Position(content, span.from), Position(content, span.to), span.new)

-----------------------------------------------------------------------------
(* Edits that do not overlap, in any order.                                   *)
Init ==
    /\ text \in Texts
    /\ \E count \in 0 .. MaxEdits : spans \in [1 .. count -> Spans(text)]
    /\ \A m, n \in DOMAIN spans : m < n => Apart(spans[m], spans[n])
    /\ lines = SplitLines(text)
    /\ pending = LastToFirst([n \in DOMAIN spans |-> AsEdit(text, spans[n])])

ApplyNext ==
    LET edit == Head(pending) IN
    /\ pending # <<>>
    /\ lines' = IF edit.start[1] >= Len(lines) THEN Extend(edit) ELSE Replace(edit)
    /\ pending' = Tail(pending)
    /\ UNCHANGED <<text, spans>>

Spec == Init /\ [][ApplyNext]_vars

-----------------------------------------------------------------------------
(* Properties                                                                 *)

(* An edit that starts before the last line and ends behind it is not applied *)
(* as it should be, nor are edits that start at one place.                    *)
Sound ==
    /\ \A m, n \in DOMAIN spans : m # n => spans[m].from # spans[n].from
    /\ \A n \in DOMAIN spans :
          LET edit == AsEdit(text, spans[n])
              count == Len(SplitLines(text)) IN
          edit.end[1] >= count => edit.start[1] >= count - 1

(* Edits in any order change a text as if they were all made at once, though  *)
(* each is applied to the lines that the others left.                         *)
AppliedTogether == Sound /\ pending = <<>> => FlattenSeq(lines) = Meant

(* The reason, which utils/workspace_edit.py:43 gives for the order: an edit  *)
(* finds all the text up to its end as it was and where it was.               *)
PositionsKept ==
    Sound =>
        \A n \in DOMAIN spans :
            AsEdit(text, spans[n]) \in ToSet(pending) =>
                Before(FlattenSeq(lines), spans[n].to) = Before(text, spans[n].to)
=============================================================================
