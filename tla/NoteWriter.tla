---- MODULE NoteWriter ----
(***************************************************************************)
(* A note as it is written, and the scratch space it is written through.   *)
(* One record holds both: the spills of the section, the state of the      *)
(* note's filters, the block structure, the output buffer and what the     *)
(* sink has been given.  Each operator takes the record and answers the    *)
(* next one.  At the end, where a run's text goes: its core is marked and  *)
(* escaped on its way, and what it is pushed into is a paragraph's block   *)
(* or a table's cell, each of them a filter of its own.                    *)
(***************************************************************************)
EXTENDS TextStreams

CONSTANT NoteBuffer    \* noteBufferBytes
ASSUME BufferAssumption == NoteBuffer \in Nat \ {0}

SpillNames == {"trailing", "paragraph", "line", "runWhitespace"}

NewNote == [collapsing |-> 0, seen |-> FALSE, started |-> FALSE, previousListItem |-> FALSE,
            openCallout |-> Nil, quoting |-> FALSE, buffer |-> <<>>, sink |-> <<>>]
NewPipe == [spills |-> [name \in SpillNames |-> NewSpill], note |-> NewNote, core |-> Nil,
            target |-> Nil]

(* openNote: the note is new, the spills are the section's. *)
OpenNote(pipe) == [pipe EXCEPT !.spills.trailing = Clear(@), !.note = NewNote]

ResetSpills(pipe) ==
  [pipe EXCEPT !.spills = [name \in SpillNames |-> Clear(pipe.spills[name])]]

-----------------------------------------------------------------------------
(* The output buffer. *)

Flush(pipe) ==
  [pipe EXCEPT !.note.sink = @ \o pipe.note.buffer, !.note.buffer = <<>>]

Out(pipe, text) ==
  IF text = <<>> THEN pipe
  ELSE IF Len(text) >= NoteBuffer THEN [Flush(pipe) EXCEPT !.note.sink = @ \o text]
  ELSE LET room == IF Len(pipe.note.buffer \o text) > NoteBuffer THEN Flush(pipe) ELSE pipe
       IN [room EXCEPT !.note.buffer = @ \o text]

(* Newlines are collapsed, then the note is trimmed, then it is out. *)
OutTrimmed(pipe, trimmed) ==
  FoldLeft(Out, [pipe EXCEPT !.note.seen = trimmed.seen, !.spills.trailing = trimmed.pending],
           trimmed.out)

TrimNote(pipe, piece) ==
  OutTrimmed(pipe, TrimPiece(pipe.note.seen, pipe.spills.trailing, piece))

PushCollapsed(pipe, collapsed) ==
  LET counted == [pipe EXCEPT !.note.collapsing = collapsed.run]
  IN IF collapsed.out = <<>> THEN counted ELSE TrimNote(counted, collapsed.out)

PushNote(pipe, text) == PushCollapsed(pipe, CollapseNewlines(pipe.note.collapsing, text))

-----------------------------------------------------------------------------
(* Blocks. *)

Separators(note, listItem) ==
  IF ~note.started THEN <<>>
  ELSE IF note.previousListItem /\ listItem THEN << <<"LF">> >> ELSE << <<"LF", "LF">> >>

BeginBlock(pipe, listItem) ==
  [FoldLeft(PushNote, pipe, Separators(pipe.note, listItem))
     EXCEPT !.note.previousListItem = listItem, !.note.started = TRUE,
            !.note.openCallout = Nil, !.note.quoting = FALSE]

(* A callout of the heading that is open goes on; another is a block.      *)
BeginCallout(pipe, opening) ==
  LET continues == pipe.note.openCallout = opening
      before == IF continues THEN << <<"LF", ">", "LF">> >>
                ELSE Append(Separators(pipe.note, FALSE), Append(opening, "LF"))
  IN [FoldLeft(PushNote, pipe, Append(before, <<">", " ">>))
        EXCEPT !.note.previousListItem = @ /\ continues, !.note.started = TRUE,
               !.note.openCallout = opening, !.note.quoting = TRUE]

Quoted(text) ==
  FlattenSeq([i \in DOMAIN text |-> IF text[i] = "LF" THEN <<"LF", ">", " ">> ELSE <<text[i]>>])

PushBlock(pipe, text) ==
  IF text = <<>> THEN pipe
  ELSE PushNote(pipe, IF pipe.note.quoting THEN Quoted(text) ELSE text)

FinishNote(pipe) ==
  LET tail == Newlines(pipe.note.collapsing)
      collapsed == [pipe EXCEPT !.note.collapsing = 0]
      Ended(trimmed) == Flush(Out([trimmed EXCEPT !.spills.trailing = Clear(@)], <<"LF">>))
  IN Ended(IF tail = <<>> THEN collapsed ELSE TrimNote(collapsed, tail))

-----------------------------------------------------------------------------
(* A paragraph's body.  opening is Nil or the callout's heading.           *)

BlockBody(prefix, indent, opening, listItem) ==
  [kind |-> "block", prefix |-> prefix, indent |-> indent, opening |-> opening,
   listItem |-> listItem, opened |-> FALSE, firstLine |-> TRUE, returning |-> FALSE,
   seen |-> FALSE]

OpenBody(pipe, body) ==
  [pipe EXCEPT !.spills.line = Clear(@), !.target = body]

(* A line's pieces, with the escape in the one where its indentation ends, or
   after the last if none reaches that far.                                *)
EscapedPieces(pieces, decided) ==
  LET at == decided.whitespace
      Emit(f, piece) ==
        LET space == at - f.emitted
            here == decided.matched /\ space \in 0..Len(piece)
        IN [emitted |-> f.emitted + Len(piece),
            out |-> Append(f.out, IF ~here THEN piece
                                  ELSE SubSeq(piece, 1, space) \o <<"\\">>
                                         \o SubSeq(piece, space + 1, Len(piece)))]
      all == FoldLeft(Emit, [emitted |-> 0, out |-> <<>>], pieces)
  IN IF decided.matched /\ all.emitted < at THEN Append(all.out, <<"\\">>) ELSE all.out

FlushLine(pipe) ==
  LET break == IF pipe.target.firstLine THEN <<>> ELSE <<HardBreak \o pipe.target.indent>>
      pieces == Pieces(pipe.spills.line)
  IN [FoldLeft(PushBlock, pipe, break \o EscapedPieces(pieces, DecideLineStart(pieces)))
        EXCEPT !.target.firstLine = FALSE, !.spills.line = Clear(@)]

AddToLine(pipe, text) == [pipe EXCEPT !.spills.line = Spill(@, text)]

OpenBlock(pipe, body) ==
  LET begun == IF body.opening = Nil THEN BeginBlock(pipe, body.listItem)
               ELSE BeginCallout(pipe, body.opening)
  IN IF body.opened THEN pipe ELSE [PushBlock(begun, body.prefix) EXCEPT !.target.opened = TRUE]

AddLines(pipe, lines) ==
  AddToLine(FoldLeft(LAMBDA p, line : FlushLine(AddToLine(p, line)), pipe, Front(lines)),
            Last(lines))

AcceptPiece(pipe, piece) == AddLines(OpenBlock(pipe, pipe.target), Split(piece, "LF"))

AcceptTrimmed(pipe, trimmed) ==
  FoldLeft(AcceptPiece,
           [pipe EXCEPT !.target.seen = trimmed.seen, !.spills.paragraph = trimmed.pending],
           trimmed.out)

PushReturned(pipe, returned) ==
  LET kept == [pipe EXCEPT !.target.returning = returned.returning]
  IN IF returned.out = <<>> THEN kept
     ELSE AcceptTrimmed(kept, TrimPiece(pipe.target.seen, pipe.spills.paragraph, returned.out))

PushBody(pipe, text) == PushReturned(pipe, CarriageReturns(pipe.target.returning, text))

CloseBody(pipe) ==
  LET dropped == [pipe EXCEPT !.spills.paragraph = Clear(@), !.target.returning = FALSE]
  IN [IF pipe.target.opened THEN FlushLine(dropped) ELSE dropped EXCEPT !.target = Nil]

-----------------------------------------------------------------------------
(* A cell: whitespace is one space and only between content, a pipe is     *)
(* escaped, and parts that produced anything are a space apart.            *)

NewCell == [kind |-> "cell", pendingSpace |-> FALSE, seenContent |-> FALSE,
            produced |-> FALSE, anyProduced |-> FALSE]

BeginPart(pipe) == [pipe EXCEPT !.target.produced = FALSE]
EndPart(pipe) ==
  [pipe EXCEPT !.target.anyProduced = @ \/ pipe.target.produced, !.target.produced = FALSE]

CellChar(f, c) ==
  LET space == IF f.cell.pendingSpace /\ f.cell.seenContent THEN <<" ">> ELSE <<>>
      content == IF c = "|" THEN <<"\\", "|">> ELSE <<c>>
  IN IF c \in Whitespace THEN [f EXCEPT !.cell.pendingSpace = TRUE]
     ELSE [cell |-> [f.cell EXCEPT !.pendingSpace = FALSE, !.seenContent = TRUE],
           out |-> f.out \o space \o content]

PushCell(pipe, text) ==
  LET cell == pipe.target
      joined == [cell EXCEPT !.produced = TRUE,
                             !.pendingSpace = @ \/ (~cell.produced /\ cell.anyProduced)]
      passed == FoldLeft(CellChar, [cell |-> joined, out |-> <<>>], text)
  IN IF text = <<>> THEN pipe
     ELSE PushBlock([pipe EXCEPT !.target = passed.cell], passed.out)

CellPart(pipe, text) == EndPart(PushCell(BeginPart(pipe), text))

PushInto(pipe, text) ==
  IF pipe.target.kind = "block" THEN PushBody(pipe, text) ELSE PushCell(pipe, text)

-----------------------------------------------------------------------------
(* One run's markers and escaping.  Whitespace at either end is held until *)
(* it is known whether content follows.                                    *)

OpenCore(pipe, style) ==
  [pipe EXCEPT !.core = [style |-> style, opened |-> FALSE], !.spills.runWhitespace = Clear(@)]

Marks == <<"strike", "italic", "bold", "underline", "subscript", "superscript">>
OpeningMark == [strike |-> "~~", italic |-> "*", bold |-> "**", underline |-> "<u>",
                subscript |-> "<sub>", superscript |-> "<sup>"]
ClosingMark == [OpeningMark EXCEPT !.underline = "</u>", !.subscript = "</sub>",
                                   !.superscript = "</sup>"]

Prefix(style) ==
  LET marks == SelectSeq(Marks, LAMBDA mark : mark \in style.marks)
  IN (IF Linked(style) THEN <<"[">> ELSE <<>>)
       \o [i \in DOMAIN marks |-> OpeningMark[marks[i]]]
       \o (IF style.highlight = Nil THEN <<>> ELSE HighlightPrefix(style.highlight))

Suffix(style) ==
  LET marks == SelectSeq(Reverse(Marks), LAMBDA mark : mark \in style.marks)
  IN (IF style.highlight = Nil THEN <<>> ELSE <<"==">>)
       \o [i \in DOMAIN marks |-> ClosingMark[marks[i]]]
       \o (IF Linked(style) THEN <<"](">> \o LinkTarget(style.link) \o <<")">> ELSE <<>>)

PushCore(pipe, piece) ==
  LET opened == pipe.core.opened
      start == IF opened THEN 0 ELSE LeadingSpace(piece)
      end == Max({start, LastContent(piece)})
      held == Spill(pipe.spills.runWhitespace, SubSeq(piece, 1, start))
      tail == SubSeq(piece, end + 1, Len(piece))
      marker == IF opened THEN <<>> ELSE <<Prefix(pipe.core.style)>>
      content == EscapeInline(SubSeq(piece, start + 1, end))
  IN IF start = Len(piece) THEN [pipe EXCEPT !.spills.runWhitespace = held]
     ELSE IF end = start THEN [pipe EXCEPT !.spills.runWhitespace = Spill(held, tail)]
     ELSE [FoldLeft(PushInto, pipe, Pieces(held) \o marker \o <<content>>)
             EXCEPT !.core.opened = TRUE, !.spills.runWhitespace = Spill(Clear(held), tail)]

CloseCore(pipe) ==
  LET suffix == IF pipe.core.opened THEN <<Suffix(pipe.core.style)>> ELSE <<>>
  IN [FoldLeft(PushInto, pipe, suffix \o Pieces(pipe.spills.runWhitespace))
        EXCEPT !.spills.runWhitespace = Clear(@), !.core = Nil]

(* A maths run is read whole: what is around its core stays around it.     *)
MathText(text) ==
  LET start == LeadingSpace(text)
      end == LastContent(text)
      latex == ToLatex(SubSeq(text, start + 1, end))
  IN IF end = 0 THEN text
     ELSE IF latex = <<>> THEN <<>>
     ELSE SubSeq(text, 1, start) \o <<"$">> \o latex \o <<"$">>
            \o SubSeq(text, end + 1, Len(text))
====
