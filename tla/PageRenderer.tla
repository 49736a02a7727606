---- MODULE PageRenderer ----
(***************************************************************************)
(* The pages of one section, each walked and written in the same pass.     *)
(* The renderer's calls are an agenda, the innermost call last: elements   *)
(* still to visit, a paragraph's or a cell's runs, a table's rows, a       *)
(* cell's children.  A step visits one element, or pushes one piece of a   *)
(* run, and ends where the code awaits the note, the assets or the next    *)
(* element; the sink, the store or a signal may end the page between any   *)
(* two.  What a page leaves in the spills and in the store, the next page  *)
(* of the section finds.                                                   *)
(***************************************************************************)
EXTENDS NoteWriter, InkPath

CONSTANTS Sections,          \* sequences of pages
          StepSizes,         \* how many characters of a run are read at once
          MaxValueChars, MaxMathChars, MaxTableColumns,   \* StreamLimits
          MaxFailures        \* bound: writes the sink or the store refuses

ASSUME StepAssumption == StepSizes \subseteq Nat \ {0}

Eager == INSTANCE EagerPage

VARIABLES section,    \* the pages of this section
          step,       \* the read window
          at,         \* which of them is being converted
          status,     \* idle, rendering, inked, written, refused, failed or cancelled
          agenda,     \* the renderer's calls
          pipe,       \* the note and the spills it is written through
          ink,        \* the page's drawing
          known,      \* what recognition has put in the store
          saved,      \* attachments written so far
          skipped,    \* onSkipped, this page
          title,      \* the page's title
          expected,   \* what the eager path makes of the page
          failures    \* how often a write was refused

vars == <<section, step, at, status, agenda, pipe, ink, known, saved, skipped, title,
          expected, failures>>

page == section[at]
Object(id) == page.objects[id]

-----------------------------------------------------------------------------
(* Text. *)

Slices(text, from, to) ==
  LET count == (to - from + step - 1) \div step
  IN IF to <= from THEN <<>>
     ELSE [i \in 1..count |-> SubSeq(text, from + (i - 1) * step + 1, Min({from + i * step, to}))]

IdleScan == [state |-> "idle", matched |-> 0, candidate |-> 0, url |-> <<>>]
Idle(c, position) ==
  IF c = "F" THEN [IdleScan EXCEPT !.state = "space", !.candidate = position] ELSE IdleScan

Word == <<"H", "L">>

(* The scanner after one character, which is at position. *)
ScanField(scan, c, position) ==
  LET white == c \in Whitespace
  IN CASE scan.state = "idle" -> Idle(c, position)
       [] scan.state = "space" ->
            IF white THEN scan
            ELSE IF c = Word[1] THEN [scan EXCEPT !.state = "word", !.matched = 1]
            ELSE Idle(c, position)
       [] scan.state = "word" ->
            IF c /= Word[scan.matched + 1] THEN Idle(c, position)
            ELSE [scan EXCEPT !.matched = @ + 1,
                              !.state = IF scan.matched + 1 = Len(Word) THEN "gap" ELSE @]
       [] scan.state = "gap" ->
            IF white THEN [scan EXCEPT !.matched = -1]
            ELSE IF c = "quote" /\ scan.matched = -1 THEN [scan EXCEPT !.state = "url"]
            ELSE Idle(c, position)
       [] scan.state = "url" ->
            IF c = "quote" THEN [scan EXCEPT !.state = "tail"]
            ELSE IF Len(scan.url) >= MaxValueChars THEN [scan EXCEPT !.state = "over"]
            ELSE [scan EXCEPT !.url = Append(@, c)]
       [] scan.state = "tail" -> IF white THEN scan ELSE [scan EXCEPT !.state = "found"]
       [] OTHER -> scan

(* The field in a run: where it is, how long, and its target; thrown when  *)
(* the target outgrows its ceiling.                                        *)
NoField == [length |-> 0, start |-> 0, url |-> Nil, thrown |-> FALSE]
FieldOf(last) ==
  IF last.scan.state \in {"tail", "found"}
  THEN [start |-> last.scan.candidate, length |-> last.position - last.scan.candidate,
        url |-> last.scan.url, thrown |-> FALSE]
  ELSE [NoField EXCEPT !.thrown = last.scan.state = "over"]

Advance(f, scan) ==
  [position |-> IF scan.state = "found" THEN f.position ELSE f.position + 1, scan |-> scan]

FindHyperlinkField(text, start, end) ==
  FieldOf(FoldLeft(LAMBDA f, c : Advance(f, ScanField(f.scan, c, f.position)),
                   [position |-> start, scan |-> IdleScan],
                   FlattenSeq(Slices(text, start, end))))

RunPieces(text, start, end, field) ==
  IF field.url = Nil THEN Slices(text, start, end)
  ELSE Slices(text, start, field.start) \o Slices(text, field.start + field.length, end)

RunEnd(object, index, start) ==
  LET length == Len(TextOf(object))
      boundary == IF index <= Len(object.boundaries)
                  THEN Min({length, object.boundaries[index]}) ELSE length
  IN Max({start, boundary})
RunCount(object) == Len(object.boundaries) + 1

-----------------------------------------------------------------------------
(* The title, for a page whose cached title is blank: its runs' own text   *)
(* and the words of its ink, whose strokes go to spools of their own.      *)

(* The pieces of a paragraph's runs, run by run. *)
TitleRun(f, text, end) ==
  [start |-> end,
   parts |-> Append(f.parts, FlattenSeq(RunPieces(text, f.start, end,
                                          FindHyperlinkField(text, f.start, end))))]
TitleRuns(object) ==
  FoldLeft(LAMBDA f, index : TitleRun(f, TextOf(object), RunEnd(object, index, f.start)),
           [start |-> 0, parts |-> <<>>], [i \in 1..RunCount(object) |-> i]).parts

OfKindIn(p, ids, jcid) == SelectSeq(ids, LAMBDA id : JcidOf(p, id) = jcid)
ElementsIn(p, ids) == FlattenSeq([i \in DOMAIN ids |-> p.objects[ids[i]].elements])

(* The words of ink in the title; seen is what recognition found, and the  *)
(* page's slot in it.                                                      *)
TitleWords(p, container, seen) == InkInto(p, NewInk, container, seen.known, seen.slot).words

(* Of an outline element's content, the first that is an element.          *)
TitlePrimary(p, object, seen) ==
  LET Counts(child) ==
        IF JcidOf(p, child) = "inkContainer" THEN TitleWords(p, p.objects[child], seen) /= Nil
        ELSE JcidOf(p, child) \in Handled
  IN SelectSeq(SubSeq(object.contents, 1, SelectInSeq(object.contents, Counts)), Counts)

(* What is visited inside a title's element. *)
TitleChildren(p, object, seen) ==
  LET rows == OfKindIn(p, object.elements, "tableRowNode")
      cells == OfKindIn(p, ElementsIn(p, rows), "tableCellNode")
  IN CASE object.jcid = "tableNode" -> ElementsIn(p, cells)
       [] object.jcid = "outlineElementNode" ->
            SelectSeq(TitlePrimary(p, object, seen),
                      LAMBDA id : JcidOf(p, id) /= "inkContainer") \o object.elements
       [] object.jcid \in {"outlineNode", "outlineGroup"} -> object.elements
       [] OTHER -> <<>>

(* The parts an element adds of its own, ink an outline element opens with *)
(* included.                                                               *)
TitleOwn(p, object, seen) ==
  LET AddWords(parts, container) ==
        parts \o SelectSeq(<<TitleWords(p, container, seen)>>,
                           LAMBDA part : part \notin {Nil, <<>>})
      AddInk(parts, id) == IF JcidOf(p, id) /= "inkContainer" THEN parts
                           ELSE AddWords(parts, p.objects[id])
  IN CASE object.jcid = "richTextNode" -> TitleRuns(object)
       [] object.jcid = "inkContainer" -> AddWords(<<>>, object)
       [] object.jcid = "outlineElementNode" ->
            FoldLeft(AddInk, <<>>, TitlePrimary(p, object, seen))
       [] OTHER -> <<>>

RECURSIVE TitleParts(_, _, _, _, _)
TitleParts(p, seen, id, depth, path) ==
  LET AddParts(parts, child) ==
        parts \o TitleParts(p, seen, child, depth + 1, path \union {id})
  IN IF depth >= MaxDepth \/ id \in path \/ ~Exists(p, id) THEN <<>>
     ELSE FoldLeft(AddParts, TitleOwn(p, p.objects[id], seen),
                   TitleChildren(p, p.objects[id], seen))

CollectTitle(p, slot, words) ==
  LET seen == [known |-> words, slot |-> slot]
      AddParts(parts, id) == parts \o TitleParts(p, seen, id, 0, {})
      Add(value, part) == IF Trim(part) = <<>> THEN value ELSE JoinWords(value, part)
      Of(current, id) ==
        IF JcidOf(p, id) /= "titleNode" THEN current
        ELSE Trim(FoldLeft(Add, <<>>, FoldLeft(AddParts, <<>>, p.objects[id].elements)))
  IN FoldLeft(Of, <<>>, p.titles)

-----------------------------------------------------------------------------
(* The agenda. *)

Top == Last(agenda)
Below == Front(agenda)

ElementsCall(ids, depth, path) ==
  [do |-> "elements", ids |-> ids, depth |-> depth, path |-> path]
RunsCall(object, children, depth, path) ==
  [do |-> "runs", object |-> object, children |-> children, depth |-> depth, path |-> path,
   index |-> 1, start |-> 0, pending |-> Nil, open |-> FALSE, pieces |-> <<>>]
TableCall(rows, columns, depth) ==
  [do |-> "table", rows |-> rows, columns |-> columns, depth |-> depth,
   row |-> 1, column |-> 0]
CellCall(ids, depth) == [do |-> "cell", ids |-> ids, depth |-> depth]

In(call) == status = "rendering" /\ agenda /= <<>> /\ Top.do = call

(* The agenda once the first identifier of its innermost call is taken.    *)
Rest == Append(Below, [Top EXCEPT !.ids = Tail(@)])

Kept == <<section, step, at, known, title, expected, failures>>

(* The first of content that is an element: ink is gathered to find out.   *)
TryInk(f, id, gathered) ==
  [ink |-> Recognize(gathered.ink, gathered.words), thrown |-> gathered.thrown,
   primary |-> IF gathered.words = Nil THEN Nil ELSE id]

PickPrimary(content, barred) ==
  LET Try(f, id) ==
        CASE f.primary /= Nil \/ f.thrown -> f
          [] JcidOf(page, id) = "inkContainer" /\ id \notin barred ->
               TryInk(f, id, InkInto(page, f.ink, Object(id), known, at))
          [] JcidOf(page, id) \in Handled \ {"inkContainer"} -> [f EXCEPT !.primary = id]
          [] OTHER -> f
  IN FoldLeft(Try, [primary |-> Nil, ink |-> ink, thrown |-> FALSE], content)

(* What is left to visit of an outline element: its primary, unless it was *)
(* ink and is gathered already, and its children.                          *)
Following(picked, object) ==
  IF picked.primary = Nil \/ JcidOf(page, picked.primary) = "inkContainer"
  THEN object.elements ELSE <<picked.primary>> \o object.elements

Outcome(thrown) == IF thrown THEN "refused" ELSE status

ParagraphBody(object, list, inherited) ==
  LET own == TagsOf(page, object)
      tags == IF own = <<>> THEN inherited ELSE own
      task == TaskPrefix(tags, list)
      prefix == IF task /= Nil THEN task ELSE ListPrefix(list)
      heading == HeadingPrefix(StyleId(page, object.paragraphStyles))
      asCallout == CalloutOpening(tags) /= Nil /\ list = Nil /\ task = Nil
  IN BlockBody(IF prefix = <<>> THEN heading ELSE prefix,
               IF list = Nil THEN <<>> ELSE Tabs(list.level),
               IF asCallout THEN CalloutOpening(tags) ELSE Nil,
               task /= Nil \/ list /= Nil)

-----------------------------------------------------------------------------
(* Elements. *)

Visited == Head(Top.ids)
Barred == Top.depth >= MaxDepth \/ Visited \in Top.path \/ ~Exists(page, Visited)
Visit(jcids) ==
  In("elements") /\ Top.ids /= <<>> /\ ~Barred /\ Object(Visited).jcid \in jcids
Inside == Top.path \union {Visited}

PassOver ==
  /\ In("elements") /\ Top.ids /= <<>>
  /\ Barred \/ JcidOf(page, Visited) \notin Handled
  /\ agenda' = Rest
  /\ UNCHANGED <<status, pipe, ink, saved, skipped>> /\ UNCHANGED Kept

EnterOutline ==
  /\ Visit({"outlineNode", "outlineGroup"})
  /\ agenda' = Append(Rest, ElementsCall(Object(Visited).elements, Top.depth + 1, Inside))
  /\ UNCHANGED <<status, pipe, ink, saved, skipped>> /\ UNCHANGED Kept

EnterPicked(object, picked) ==
  LET paragraph == Object(picked.primary)
  IN /\ status' = Outcome(picked.thrown)
     /\ ink' = picked.ink
     /\ IF JcidOf(page, picked.primary) = "richTextNode"
        THEN /\ agenda' = Append(Rest, RunsCall(paragraph, object.elements, Top.depth, Inside))
             /\ pipe' = OpenBody(pipe, ParagraphBody(paragraph, ListInfo(page, object),
                                                     TagsOf(page, object)))
        ELSE /\ agenda' = Append(Rest, ElementsCall(Following(picked, object),
                                                    Top.depth + 1, Inside))
             /\ UNCHANGED pipe

EnterOutlineElement ==
  /\ Visit({"outlineElementNode"})
  /\ EnterPicked(Object(Visited),
       PickPrimary(Object(Visited).contents,
                   IF Top.depth + 1 >= MaxDepth THEN ToSet(Object(Visited).contents)
                   ELSE Inside))
  /\ UNCHANGED <<saved, skipped>> /\ UNCHANGED Kept

EnterParagraph ==
  /\ Visit({"richTextNode"})
  /\ pipe' = OpenBody(pipe, ParagraphBody(Object(Visited), Nil, <<>>))
  /\ agenda' = Append(Rest, RunsCall(Object(Visited), <<>>, Top.depth, Inside))
  /\ UNCHANGED <<status, ink, saved, skipped>> /\ UNCHANGED Kept

(* The link to an asset; Nil when there was nothing to save. *)
Asset(object) ==
  LET image == object.jcid = "imageNode"
      name == IF image THEN ImageName(page, object) ELSE EmbeddedName(page, object)
      data == Container(page, object.containers).data
  IN [name |-> name, data |-> data,
      link |-> IF NothingToSave(page, data) THEN Nil
               ELSE AssetLink(SavedName(saved, data, name),
                              IF image THEN <<>> ELSE name, image)]

SaveAsset(asset) ==
  IF asset.link = Nil THEN skipped' = Append(skipped, asset.name) /\ UNCHANGED saved
  ELSE saved' = Save(saved, asset.data, asset.name) /\ UNCHANGED skipped

PlaceAsset ==
  /\ Visit({"imageNode", "embeddedFileNode"})
  /\ LET asset == Asset(Object(Visited))
     IN /\ SaveAsset(asset)
        /\ pipe' = IF asset.link = Nil THEN pipe
                   ELSE PushBlock(BeginBlock(pipe, FALSE), asset.link)
  /\ agenda' = Rest
  /\ UNCHANGED <<status, ink>> /\ UNCHANGED Kept

TakeInk(gathered) ==
  ink' = Recognize(gathered.ink, gathered.words) /\ status' = Outcome(gathered.thrown)

GatherInk ==
  /\ Visit({"inkContainer"})
  /\ TakeInk(InkInto(page, ink, Object(Visited), known, at))
  /\ agenda' = Rest
  /\ UNCHANGED <<pipe, saved, skipped>> /\ UNCHANGED Kept

EndElements ==
  /\ In("elements") /\ Top.ids = <<>>
  /\ agenda' = Below
  /\ UNCHANGED <<status, pipe, ink, saved, skipped>> /\ UNCHANGED Kept

-----------------------------------------------------------------------------
(* Runs: a paragraph's, or a cell's. *)

NextRun(end, pending) ==
  [Top EXCEPT !.index = @ + 1, !.start = end, !.pending = pending,
              !.open = FALSE, !.pieces = <<>>]

StyledRun(style, link) == IF style.link = Nil THEN [style EXCEPT !.link = link] ELSE style

WriteRun(end, pending, style, pieces) ==
  IF style.math
  THEN /\ agenda' = Append(Below, NextRun(end, pending))
       /\ pipe' = PushInto([pipe EXCEPT !.spills.runWhitespace = Clear(@)],
                           MathText(FlattenSeq(pieces)))
  ELSE /\ agenda' = Append(Below, [NextRun(end, pending) EXCEPT
                                     !.index = Top.index, !.open = TRUE, !.pieces = pieces])
       /\ pipe' = OpenCore(pipe, style)

(* A style's own target is read before anything of the run is. *)
TargetTooLong(object, index) ==
  LET format == Object(object.styles[index]).format
  IN /\ index <= Len(object.styles) /\ Exists(page, object.styles[index])
     /\ format.hyperlink /\ format.hyperlinkUrl /= Nil
     /\ Len(format.hyperlinkUrl) > MaxValueChars

(* A field lifts its target onto the next run that has any text.           *)
StartRun(end, field) ==
  LET object == Top.object
      pending == IF field.url = Nil THEN Top.pending ELSE field.url
      remaining == end - Top.start - field.length
      style == StyledRun(StyleOf(page, object.styles, Top.index), pending)
      over == \/ TargetTooLong(object, Top.index) \/ field.thrown
              \/ (remaining > 0 /\ style.math /\ end - Top.start > MaxMathChars)
  IN /\ status' = Outcome(over)
     /\ IF over THEN UNCHANGED <<agenda, pipe>>
        ELSE IF remaining = 0
             THEN agenda' = Append(Below, NextRun(end, pending)) /\ UNCHANGED pipe
             ELSE WriteRun(end, Nil, style, RunPieces(TextOf(object), Top.start, end, field))

OpenRun ==
  LET end == RunEnd(Top.object, Top.index, Top.start)
  IN /\ In("runs") /\ ~Top.open /\ Top.index <= RunCount(Top.object)
     /\ StartRun(end, FindHyperlinkField(TextOf(Top.object), Top.start, end))
     /\ UNCHANGED <<ink, saved, skipped>> /\ UNCHANGED Kept

PushPiece ==
  /\ In("runs") /\ Top.open /\ Top.pieces /= <<>>
  /\ pipe' = PushCore(pipe, Head(Top.pieces))
  /\ agenda' = Append(Below, [Top EXCEPT !.pieces = Tail(@)])
  /\ UNCHANGED <<status, ink, saved, skipped>> /\ UNCHANGED Kept

CloseRun ==
  /\ In("runs") /\ Top.open /\ Top.pieces = <<>>
  /\ pipe' = CloseCore(pipe)
  /\ agenda' = Append(Below, NextRun(Top.start, Top.pending))
  /\ UNCHANGED <<status, ink, saved, skipped>> /\ UNCHANGED Kept

(* The paragraph's body is closed, and then its element's children; a cell *)
(* goes on.                                                                *)
EndRuns ==
  /\ In("runs") /\ ~Top.open /\ Top.index > RunCount(Top.object)
  /\ IF pipe.target.kind = "block"
     THEN /\ pipe' = CloseBody(pipe)
          /\ agenda' = Append(Below, ElementsCall(Top.children, Top.depth + 1, Top.path))
     ELSE pipe' = EndPart(pipe) /\ agenda' = Below
  /\ UNCHANGED <<status, ink, saved, skipped>> /\ UNCHANGED Kept

-----------------------------------------------------------------------------
(* Tables. *)

OfKind(ids, jcid) == SelectSeq(ids, LAMBDA id : JcidOf(page, id) = jcid)
RowsOf(table) ==
  LET rows == OfKind(table.elements, "tableRowNode")
  IN [i \in DOMAIN rows |-> OfKind(Object(rows[i]).elements, "tableCellNode")]
ColumnsOf(rows) == Max({Len(rows[i]) : i \in DOMAIN rows})

SeparatorRow(columns) ==
  <<"LF", "|", " ">> \o Join([i \in 1..columns |-> <<"---">>], <<" ", "|", " ">>) \o <<" ", "|">>

EnterTable ==
  LET rows == RowsOf(Object(Visited))
      over == IF rows = <<>> THEN FALSE ELSE ColumnsOf(rows) > MaxTableColumns
  IN /\ Visit({"tableNode"})
     /\ status' = Outcome(over)
     /\ IF rows = <<>> \/ over THEN agenda' = Rest /\ UNCHANGED pipe
        ELSE /\ agenda' = Append(Rest, TableCall(rows, ColumnsOf(rows), Top.depth))
             /\ pipe' = BeginBlock(pipe, FALSE)
     /\ UNCHANGED <<ink, saved, skipped>> /\ UNCHANGED Kept

StartRow ==
  LET separated == IF Top.row = 2 THEN PushBlock(pipe, SeparatorRow(Top.columns)) ELSE pipe
      below == IF Top.row > 1 THEN PushBlock(separated, <<"LF">>) ELSE separated
  IN /\ In("table") /\ Top.row <= Len(Top.rows) /\ Top.column = 0
     /\ pipe' = PushBlock(below, <<"|", " ">>)
     /\ agenda' = Append(Below, [Top EXCEPT !.column = 1])
     /\ UNCHANGED <<status, ink, saved, skipped>> /\ UNCHANGED Kept

CellLeft == Top.column \in 1..Top.columns

NextCell ==
  LET cells == Top.rows[Top.row]
      next == Append(Below, [Top EXCEPT !.column = @ + 1])
      apart == IF Top.column > 1 THEN PushBlock(pipe, <<" ", "|", " ">>) ELSE pipe
  IN /\ In("table") /\ Top.row <= Len(Top.rows) /\ CellLeft
     /\ IF Top.column > Len(cells) THEN agenda' = next /\ pipe' = apart
        ELSE /\ agenda' = Append(next, CellCall(Object(cells[Top.column]).elements, Top.depth))
             /\ pipe' = [apart EXCEPT !.target = NewCell]
     /\ UNCHANGED <<status, ink, saved, skipped>> /\ UNCHANGED Kept

EndRow ==
  /\ In("table") /\ Top.row <= Len(Top.rows) /\ Top.column > Top.columns
  /\ pipe' = PushBlock(pipe, <<" ", "|">>)
  /\ agenda' = Append(Below, [Top EXCEPT !.row = @ + 1, !.column = 0])
  /\ UNCHANGED <<status, ink, saved, skipped>> /\ UNCHANGED Kept

EndTable ==
  /\ In("table") /\ Top.row > Len(Top.rows)
  /\ pipe' = [IF Len(Top.rows) = 1 THEN PushBlock(pipe, SeparatorRow(Top.columns)) ELSE pipe
                EXCEPT !.target = Nil]
  /\ agenda' = Below
  /\ UNCHANGED <<status, ink, saved, skipped>> /\ UNCHANGED Kept

-----------------------------------------------------------------------------
(* A cell's children: no path is kept, and the depth is the table's.       *)

InCell(jcids) ==
  /\ In("cell") /\ Top.ids /= <<>> /\ Top.depth < MaxDepth
  /\ JcidOf(page, Visited) \in jcids

CellText ==
  /\ InCell({"richTextNode"})
  /\ pipe' = BeginPart(pipe)
  /\ agenda' = Append(Rest, RunsCall(Object(Visited), <<>>, Top.depth, {}))
  /\ UNCHANGED <<status, ink, saved, skipped>> /\ UNCHANGED Kept

CellOutline ==
  /\ InCell({"outlineNode", "outlineGroup"})
  /\ agenda' = Append(Rest, CellCall(Object(Visited).elements, Top.depth + 1))
  /\ UNCHANGED <<status, pipe, ink, saved, skipped>> /\ UNCHANGED Kept

EnterCellPicked(object, picked) ==
  /\ ink' = picked.ink
  /\ status' = Outcome(picked.thrown)
  /\ agenda' = Append(Rest, CellCall(Following(picked, object), Top.depth + 1))

CellOutlineElement ==
  /\ InCell({"outlineElementNode"})
  /\ EnterCellPicked(Object(Visited),
                     PickPrimary(Object(Visited).contents, {}))
  /\ UNCHANGED <<pipe, saved, skipped>> /\ UNCHANGED Kept

CellAsset ==
  /\ InCell({"imageNode", "embeddedFileNode"})
  /\ LET asset == Asset(Object(Visited))
     IN SaveAsset(asset) /\ pipe' = CellPart(pipe, IF asset.link = Nil THEN <<>> ELSE asset.link)
  /\ agenda' = Rest
  /\ UNCHANGED <<status, ink>> /\ UNCHANGED Kept

CellInk ==
  /\ InCell({"inkContainer"})
  /\ TakeInk(InkInto(page, ink, Object(Visited), known, at))
  /\ agenda' = Rest
  /\ UNCHANGED <<pipe, saved, skipped>> /\ UNCHANGED Kept

CellTable ==
  /\ InCell({"tableNode"})
  /\ skipped' = Append(skipped, page.noteName)
  /\ agenda' = Rest
  /\ UNCHANGED <<status, pipe, ink, saved>> /\ UNCHANGED Kept

CellPassOver ==
  /\ In("cell") /\ Top.ids /= <<>> /\ Top.depth < MaxDepth
  /\ JcidOf(page, Visited) \notin Handled
  /\ agenda' = Rest
  /\ UNCHANGED <<status, pipe, ink, saved, skipped>> /\ UNCHANGED Kept

EndCell ==
  /\ In("cell") /\ (Top.ids = <<>> \/ Top.depth >= MaxDepth)
  /\ agenda' = Below
  /\ UNCHANGED <<status, pipe, ink, saved, skipped>> /\ UNCHANGED Kept

-----------------------------------------------------------------------------
(* A page from its opening to its end. *)

(* Its title is settled, then its note is opened over the section's        *)
(* spills, and every region is forgotten before the first element.         *)
OpenPage ==
  /\ status \in {"idle", "written", "refused", "failed"} /\ at < Len(section)
  /\ at' = at + 1
  /\ status' = "rendering"
  /\ LET p == section[at + 1]
         blank == Trim(p.cachedTitle) = <<>>
         untitled == IF blank THEN ResetSpills(pipe) ELSE pipe
         words == CollectRecognition(p, at + 1, known)
     IN /\ known' = words
        /\ title' = IF blank THEN CollectTitle(p, at + 1, words) ELSE p.cachedTitle
        /\ pipe' = [ResetSpills(Out(OpenNote(untitled), p.frontMatter))
                      EXCEPT !.core = Nil, !.target = Nil]
        /\ ink' = [ResetCollector(ResetInkSpools(ink))
                     EXCEPT !.recognizedCount = 0, !.lastRecognized = Nil]
        /\ agenda' = <<ElementsCall(p.elements, 0, {})>>
        /\ skipped' = <<>>
        /\ expected' = Eager!ConvertPage(p, saved)
  /\ UNCHANGED <<section, step, saved, failures>>

WriteCollectedInk ==
  LET drawn == WriteSvg(ink)
      svg == FlattenSeq(Chunks(drawn.document))
      name == InkName(page)
      kept == ~NothingToSave(page, svg)
      linked == IF kept
                THEN PushBlock(BeginBlock(pipe, FALSE),
                               AssetLink(SavedName(saved, svg, name), <<>>, TRUE))
                ELSE pipe
      words == Chunks(ink.recognized)
  IN /\ status = "rendering" /\ agenda = <<>>
     /\ status' = "inked"
     /\ IF ink.drawable = 0 THEN UNCHANGED <<ink, pipe, saved, skipped>>
        ELSE /\ ink' = drawn
             /\ saved' = IF kept THEN Save(saved, svg, name) ELSE saved
             /\ skipped' = IF kept THEN skipped ELSE Append(skipped, name)
             /\ pipe' = IF ink.recognizedCount = 0 THEN linked
                        ELSE FoldLeft(PushBlock, BeginBlock(linked, FALSE), words)
     /\ UNCHANGED agenda /\ UNCHANGED Kept

FinishPage ==
  /\ status = "inked"
  /\ status' = "written"
  /\ pipe' = FinishNote(pipe)
  /\ UNCHANGED <<agenda, ink, saved, skipped>> /\ UNCHANGED Kept

(* A signal is seen between two of the page's own elements. *)
Cancel ==
  /\ In("elements") /\ Len(agenda) = 1 /\ Top.ids /= <<>>
  /\ status' = "cancelled"
  /\ UNCHANGED <<agenda, pipe, ink, saved, skipped>> /\ UNCHANGED Kept

(* The sink or the store refuses a write.  A spill the store refused while *)
(* it moved its head out is left with a full chunk that was not stored.    *)
Fail ==
  /\ status \in {"rendering", "inked"} /\ failures < MaxFailures
  /\ failures' = failures + 1
  /\ status' = "failed"
  /\ \/ pipe' = pipe
     \/ \E name \in SpillNames :
          LET spill == pipe.spills[name]
          IN /\ ~spill.spilled /\ Len(spill.head) >= ChunkUnits
             /\ pipe' = [pipe EXCEPT !.spills[name].spool = CutShort(@, spill.head)]
  /\ UNCHANGED <<section, step, at, agenda, ink, known, saved, skipped, title, expected>>

-----------------------------------------------------------------------------
NoPage == [title |-> <<>>, skipped |-> <<>>, saved |-> <<>>, note |-> <<>>]

Init ==
  /\ section \in Sections /\ step \in StepSizes
  /\ at = 0 /\ status = "idle" /\ agenda = <<>>
  /\ pipe = NewPipe /\ ink = NewInk /\ known = NothingKnown
  /\ saved = <<>> /\ skipped = <<>> /\ title = <<>> /\ expected = NoPage
  /\ failures = 0

Walk == \/ PassOver \/ EnterOutline \/ EnterOutlineElement \/ EnterParagraph
        \/ PlaceAsset \/ GatherInk \/ EnterTable \/ EndElements
        \/ OpenRun \/ PushPiece \/ CloseRun \/ EndRuns
        \/ StartRow \/ NextCell \/ EndRow \/ EndTable
        \/ CellText \/ CellOutline \/ CellOutlineElement \/ CellAsset \/ CellInk
        \/ CellTable \/ CellPassOver \/ EndCell
Next == OpenPage \/ Walk \/ WriteCollectedInk \/ FinishPage \/ Cancel \/ Fail

Spec == Init /\ [][Next]_vars

-----------------------------------------------------------------------------
(* Properties. *)

(* However long a page's text, a field, a row or a stroke, what is held of *)
(* it in memory is within the budgets: a spill's head, one chunk of each   *)
(* spool, the note's buffer, a target of the ceiling's length, a row of    *)
(* the ceiling's cells.  The rest has gone to the store or to the sink.    *)
HeldWithin ==
  /\ \A name \in SpillNames :
       /\ Len(pipe.spills[name].head) <= SpillBudget
       /\ Len(pipe.spills[name].spool.pending) <= ChunkUnits
  /\ \A name \in {"points", "coordinates", "document", "recognized"} :
       Len(ink[name].pending) < ChunkUnits
  /\ Len(pipe.note.buffer) <= NoteBuffer
  /\ \A i \in DOMAIN agenda :
       /\ agenda[i].do = "table" => agenda[i].columns <= MaxTableColumns
       /\ agenda[i].do = "runs" /\ agenda[i].pending /= Nil
            => Len(agenda[i].pending) <= MaxValueChars

(* A ceiling only the streaming path has: a row, a maths run or a target   *)
(* of this page could be past it.                                          *)
OverACeiling ==
  \E id \in DOMAIN page.objects :
    \/ Len(page.objects[id].elements) > MaxTableColumns
    \/ Len(TextOf(page.objects[id])) > Min({MaxMathChars, MaxValueChars})
    \/ /\ page.objects[id].format.hyperlinkUrl /= Nil
       /\ Len(page.objects[id].format.hyperlinkUrl) > MaxValueChars

(* page.ts says of map.ts and convert.ts that "the two files remain the    *)
(* specification for what this produces": at every moment what the sink    *)
(* holds begins the note the eager path makes of the page, and a note that *)
(* is written is that note, however the text was cut into pieces and       *)
(* whatever the pages before it left in the spills.                        *)
SameNote ==
  /\ IF status = "written" THEN pipe.note.sink = expected.note
     ELSE IsPrefix(pipe.note.sink, expected.note)
  /\ status = "written" => ~Eager!RefusesInk(page)
  /\ status = "refused" => Eager!RefusesInk(page) \/ OverACeiling

(* A written page saved what the eager path saves, under the same names    *)
(* and in the same order, skipped what it skips and has the same title;    *)
(* its drawing is one of the files.                                        *)
SameFiles ==
  /\ at > 0 => title = expected.title
  /\ status = "written" => saved = expected.saved /\ skipped = expected.skipped

(* What becomes of a page is what the eager path makes of it.              *)
SamePage == SameNote /\ SameFiles

(* A spill reads back exactly what it was given since it was last cleared, *)
(* from its head or from a spool over a region of the store that earlier   *)
(* paragraphs and earlier pages wrote to and did not clean.                *)
SpillsReadBack ==
  status \in {"rendering", "inked", "written"} =>
    \A name \in SpillNames :
      FlattenSeq(Pieces(pipe.spills[name])) = pipe.spills[name].appended
====
