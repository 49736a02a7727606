---- MODULE EagerPage ----
(***************************************************************************)
(* What a page's note is: the eager path, which builds the page's elements *)
(* and then writes them.  An element is a record of its kind; the writer   *)
(* gathers blocks, strokes and recognized words, and what it saved and     *)
(* skipped.  Every string operation is over the whole string.              *)
(***************************************************************************)
EXTENDS PageRules

-----------------------------------------------------------------------------
(* The rules of PageRules as map.ts and convert.ts have them, over decoded *)
(* objects where page.ts reads them from the section.                      *)

There(page, ids) == SelectSeq(ids, LAMBDA id : id \in DOMAIN page.objects)

-----------------------------------------------------------------------------
(* map.ts *)

(* What a style object says is added to what the run has; a colour that is *)
(* white, or more than a colour, says nothing.                             *)
ApplyTextStyle(style, page, id) ==
  LET format == page.objects[id].format
      color == format.highlight
      shows == color /= Nil /\ color < (256 ^ 3) - 1
      channels == <<color % 256, (color \div 256) % 256, color \div 65536>>
  IN IF id \notin DOMAIN page.objects THEN style
     ELSE [math |-> style.math \/ format.math,
           marks |-> style.marks \union format.marks,
           highlight |-> IF shows THEN channels ELSE style.highlight,
           link |-> IF format.hyperlink /\ format.hyperlinkUrl \notin {Nil, <<>>}
                    THEN format.hyperlinkUrl ELSE style.link]

(* The first style object there is, named or not. *)
ReadStyleId(page, item) ==
  LET styles == There(page, item.paragraphStyles)
  IN IF styles = <<>> THEN Nil ELSE page.objects[styles[1]].styleId

IsCheckableShape(shape) ==
  \/ shape \in 1..12
  \/ shape \in {28, 30, 32, 48, 50, 52, 69, 71, 73}
  \/ shape \in 89..99

BuildTag(page, state) ==
  LET defined == state.definition \in DOMAIN page.objects
      definition == page.objects[state.definition]
      shared == defined /\ definition.jcid = "noteTagSharedDefinition"
      shape == IF state.shape = Nil /\ shared THEN definition.shape ELSE state.shape
      checkable == shape /= Nil /\ IsCheckableShape(shape)
  IN [checkable |-> checkable, completed |-> state.completed, shape |-> shape,
      label |-> IF defined /\ ~checkable THEN definition.label ELSE Nil]

BuildTags(page, item) ==
  LET states == SubSeq(item.tagStates, 1, Min({9, Len(item.tagStates)}))
  IN FoldLeft(LAMBDA tags, state :
                IF state.hidden THEN tags ELSE Append(tags, BuildTag(page, state)),
              <<>>, states)

(* The first unit says how many of the others are the format. *)
ReadNumberListFormat(listNode) ==
  LET data == listNode.numberListFormat
  IN IF data = Nil THEN <<>> ELSE SubSeq(data.units, 1, Min({data.length, Len(data.units)}))

(* Of the list nodes the last that is one. *)
BuildListInfo(page, item) ==
  LET Later(found, id) ==
        IF JcidOf(page, id) = "numberListNode" THEN page.objects[id] ELSE found
      listNode == FoldLeft(Later, Nil, item.listNodes)
  IN IF listNode = Nil THEN Nil
     ELSE [level |-> IF item.childLevel = Nil \/ item.childLevel = 0 THEN 0
                     ELSE item.childLevel - 1,
           ordered |-> "placeholder" \in ToSet(ReadNumberListFormat(listNode))]

(* An image's or a file's name, and what its first container holds. *)
BuildAsset(page, kind, item) ==
  LET containers == There(page, item.containers)
      container == page.objects[containers[1]]
      empty == [kind |-> kind, fileName |-> item.fileName, extension |-> Nil, data |-> Nil]
  IN IF containers = <<>> THEN empty
     ELSE [empty EXCEPT !.data = container.data,
             !.extension = IF container.extension = Nil THEN container.fileExtension
                           ELSE container.extension]

-----------------------------------------------------------------------------
(* convert.ts *)

(* A later marker is nearer only when it is strictly so. *)
Highlighted(text, color) ==
  LET Distance(each) == Min({InkDistance(ink, color) : ink \in each.inks})
      Nearer(best, each) == IF Distance(each) < Distance(best) THEN each ELSE best
      nearest == FoldLeft(Nearer, Head(HighlightMarkers), HighlightMarkers)
  IN <<"==", nearest.marker>> \o text \o <<"==">>

(* The title an internal link carries; Nil when it carries none. *)
PageTitleIn(url) ==
  LET hash == SelectInSeq(url, LAMBDA c : c = "#")
      tail == SubSeq(url, hash + 1, Len(url))
      separator == SelectInSeq(tail, LAMBDA c : c = "&")
      encoded == SubSeq(tail, 1, IF separator = 0 THEN Len(tail) ELSE separator - 1)
  IN IF url[1] = "onenote:" /\ hash /= 0 /\ encoded /= <<>> THEN encoded ELSE Nil

TargetOf(url) ==
  IF PageTitleIn(url) = Nil THEN EncodeURI(url) ELSE EncodeURI(Sanitize(PageTitleIn(url)))

HeadingOf(styleId) ==
  LET level == SelectInSeq(<<"h1", "h2", "h3", "h4", "h5", "h6">>, LAMBDA name : name = styleId)
  IN IF level = 0 THEN <<>> ELSE [i \in 1..level |-> "#"] \o <<" ">>

BulletOf(list) ==
  CASE list = Nil -> <<>>
    [] list /= Nil /\ list.ordered -> Tabs(list.level) \o <<"1", ".", " ">>
    [] OTHER -> Tabs(list.level) \o <<"-", " ">>

TaskOf(tags, list) ==
  LET tasks == SelectSeq(tags, LAMBDA tag : tag.checkable)
      box == IF tasks[1].completed THEN "- [x]" ELSE "- [ ]"
  IN IF tasks = <<>> THEN Nil
     ELSE Tabs(IF list = Nil THEN 0 ELSE list.level) \o <<box, " ">>

CalloutFor(tags) ==
  LET Admonishes(tag) == ~tag.checkable /\ tag.shape \in DOMAIN CalloutTypes
      admonitions == SelectSeq(tags, Admonishes)
  IN IF admonitions = <<>> THEN Nil
     ELSE [type |-> CalloutTypes[admonitions[1].shape], title |-> admonitions[1].label]

(* An attachment without an extension is given the one it is known to have.*)
NameWithExtension(base, extension) ==
  IF extension = Nil \/ Last(base) \in Extensions THEN base ELSE Append(base, extension)

ImageNameOf(page, image) ==
  LET own == IF image.fileName = Nil THEN Nil
             ELSE IF Last(image.fileName) \in Extensions THEN Last(image.fileName) ELSE Nil
  IN NameWithExtension(page.noteName \o <<" ", "image">>,
                       IF image.extension = Nil THEN own ELSE image.extension)

FileNameOf(file) ==
  NameWithExtension(IF file.fileName = Nil THEN <<"attachment">> ELSE file.fileName, file.extension)

-----------------------------------------------------------------------------
(* What page elements are made of. *)

InkPadding == 10
NonNil(elements) == SelectSeq(elements, LAMBDA element : element /= Nil)

-----------------------------------------------------------------------------
(* map.ts: runs and the HYPERLINK fields in them. *)

(* The ends of the runs, each at least the one before and in the text.     *)
RunEnds(text, boundaries) ==
  FoldLeft(LAMBDA ends, boundary :
             Append(ends, Max({Min({Len(text), boundary}), IF ends = <<>> THEN 0 ELSE Last(ends)})),
           <<>>, boundaries) \o <<Len(text)>>

Spaces(text, from) == LeadingSpace(SubSeq(text, from, Len(text)))

(* The quoted target at a position and the space after it: how long it is, *)
(* counting its quotes; 0 when there is none.                              *)
TargetAt(text, quote) ==
  IF quote \notin DOMAIN text \/ text[quote] /= "quote" THEN 0
  ELSE SelectInSeq(SubSeq(text, quote + 1, Len(text)), LAMBDA c : c = "quote")

FieldFrom(text, start, quote) ==
  LET close == quote + TargetAt(text, quote)
  IN IF close = quote THEN Nil
     ELSE [start |-> start, end |-> close + Spaces(text, close + 1),
           url |-> SubSeq(text, quote + 1, close - 1)]

(* The pattern's match that opens at start; Nil when there is none.        *)
FieldAt(text, start) ==
  LET word == start + 1 + Spaces(text, start + 1)
      space == Spaces(text, word + 2)
  IN IF /\ text[start] = "F"
        /\ word + 1 <= Len(text) /\ SubSeq(text, word, word + 1) = <<"H", "L">>
        /\ space > 0
     THEN FieldFrom(text, start, word + 2 + space)
     ELSE Nil

FieldIn(text) ==
  LET fields == NonNil([i \in DOMAIN text |-> FieldAt(text, i)])
  IN IF fields = <<>> THEN Nil ELSE Head(fields)

(* A field's target is lifted onto the next run that has any text left.    *)
TakeLink(f, run, text, pending) ==
  LET takes == pending /= Nil /\ text /= <<>>
      link == IF takes /\ run.style.link = Nil THEN pending ELSE run.style.link
  IN [pending |-> IF takes THEN Nil ELSE pending,
      runs |-> Append(f.runs, [text |-> text, style |-> [run.style EXCEPT !.link = link]])]

LiftField(f, run, field) ==
  IF field = Nil THEN TakeLink(f, run, run.text, f.pending)
  ELSE TakeLink(f, run, SubSeq(run.text, 1, field.start - 1)
                          \o SubSeq(run.text, field.end + 1, Len(run.text)), field.url)

LiftFields(runs) ==
  FoldLeft(LAMBDA f, run : LiftField(f, run, FieldIn(run.text)),
           [pending |-> Nil, runs |-> <<>>], runs).runs

RunsOf(page, object, text, ends) ==
  [i \in DOMAIN ends |->
     [text |-> SubSeq(text, (IF i = 1 THEN 0 ELSE ends[i - 1]) + 1, ends[i]),
      style |-> IF i <= Len(object.styles) THEN ApplyTextStyle(PlainStyle, page, object.styles[i])
                ELSE PlainStyle]]

BuildParagraph(page, object) ==
  LET text == TextOf(object)
  IN [kind |-> "paragraph",
      runs |-> LiftFields(RunsOf(page, object, text, RunEnds(text, object.boundaries))),
      children |-> <<>>, list |-> Nil, tags |-> BuildTags(page, object),
      styleId |-> ReadStyleId(page, object)]

-----------------------------------------------------------------------------
(* map.ts: ink. *)

PrefixSums(values) ==
  FoldLeft(LAMBDA sums, value : Append(sums, value + IF sums = <<>> THEN 0 ELSE Last(sums)),
           <<>>, values)

(* A stroke's points; Nil when it is no stroke.                            *)
DecodeStroke(page, stroke, scale) ==
  LET properties == page.objects[stroke.strokeProperties]
      dimensions == properties.dimensions
      IndexOf(name) == SelectInSeq(dimensions, LAMBDA dimension : dimension = name)
      count == Len(stroke.path.values) \div Len(dimensions)
      Values(name) ==
        PrefixSums(SubSeq(stroke.path.values, (IndexOf(name) - 1) * count + 1,
                          IndexOf(name) * count))
  IN IF \/ JcidOf(page, stroke.strokeProperties) /= "strokePropertiesNode"
        \/ stroke.path = Nil
        \/ IndexOf("x") = 0 \/ IndexOf("y") = 0
        \/ stroke.path.values = <<>>
        \/ Len(stroke.path.values) % Len(dimensions) /= 0
     THEN Nil
     ELSE [points |-> [i \in 1..count |-> <<Values("x")[i] * scale[1], Values("y")[i] * scale[2]>>],
           pen |-> properties.pen]

(* A path that ends before its last value fails the section. *)
RefusesInk(page) ==
  \E id \in DOMAIN page.objects :
    LET path == page.objects[id].path IN path /= Nil /\ Len(path.values) < path.declared

BuildInk(page, object, known) ==
  LET ids == IF JcidOf(page, object.inkData) = "inkDataNode"
             THEN SelectSeq(page.objects[object.inkData].strokes,
                            LAMBDA id : JcidOf(page, id) = "inkStrokeNode") ELSE <<>>
      drawn == SelectSeq(ids, LAMBDA id : DecodeStroke(page, page.objects[id], object.scale) /= Nil)
      words == NonNil([i \in DOMAIN drawn |-> WordOn(known, 0, drawn[i])])
  IN IF drawn = <<>> THEN Nil
     ELSE [kind |-> "ink", words |-> Join(words, <<" ">>),
           strokes |-> [i \in DOMAIN drawn |->
                          DecodeStroke(page, page.objects[drawn[i]], object.scale)]]

-----------------------------------------------------------------------------
(* map.ts: elements. *)

(* A table's rows, each the cells it lists. *)
TableCells(page, table) ==
  LET OfKind(ids, jcid) == SelectSeq(ids, LAMBDA child : JcidOf(page, child) = jcid)
      rows == OfKind(table.elements, "tableRowNode")
  IN [i \in DOMAIN rows |-> OfKind(page.objects[rows[i]].elements, "tableCellNode")]

RECURSIVE BuildElement(_, _, _, _, _)
BuildElement(page, known, id, depth, path) ==
  LET object == page.objects[id]
      Built(ids) ==
        NonNil([i \in DOMAIN ids |->
                  BuildElement(page, known, ids[i], depth + 1, path \union {id})])
      Row(cells) == [i \in DOMAIN cells |-> Built(page.objects[cells[i]].elements)]
      content == Built(object.contents)
      primary == content[1]
      children == Built(object.elements)
      list == BuildListInfo(page, object)
      folded == [primary EXCEPT !.list = list, !.children = @ \o children,
                                !.tags = IF @ = <<>> THEN BuildTags(page, object) ELSE @]
      OutlineElement ==
        IF content = <<>> THEN [kind |-> "paragraph", runs |-> <<>>, children |-> children,
                                list |-> list, tags |-> <<>>, styleId |-> Nil]
        ELSE IF primary.kind = "paragraph" THEN folded
        ELSE [kind |-> "outline", children |-> <<primary>> \o children]
  IN IF depth >= MaxDepth \/ id \in path \/ ~Exists(page, id) THEN Nil
     ELSE CASE object.jcid \in {"outlineNode", "outlineGroup"} ->
                 [kind |-> "outline", children |-> children]
            [] object.jcid = "outlineElementNode" -> OutlineElement
            [] object.jcid = "richTextNode" -> BuildParagraph(page, object)
            [] object.jcid = "imageNode" -> BuildAsset(page, "image", object)
            [] object.jcid = "embeddedFileNode" -> BuildAsset(page, "file", object)
            [] object.jcid = "tableNode" ->
                 LET rows == TableCells(page, object)
                 IN [kind |-> "table", rows |-> [i \in DOMAIN rows |-> Row(rows[i])]]
            [] object.jcid = "inkContainer" -> BuildInk(page, object, known)
            [] OTHER -> Nil

Elements(page, known, ids) ==
  NonNil([i \in DOMAIN ids |-> BuildElement(page, known, ids[i], 0, {})])

-----------------------------------------------------------------------------
(* convert.ts: runs. *)

ReplaceReturns(text) ==
  LET kept == SelectSeq([i \in DOMAIN text |-> i],
                        LAMBDA i : ~(i > 1 /\ text[i] = "LF" /\ text[i - 1] = "CR"))
  IN [i \in DOMAIN kept |-> IF text[kept[i]] = "CR" THEN "LF" ELSE text[kept[i]]]

CollapseBlankLines(text) ==
  LET kept == SelectSeq([i \in DOMAIN text |-> i],
                LAMBDA i : ~(i > 2 /\ \A j \in (i - 2)..i : text[j] = "LF"))
  IN [i \in DOMAIN kept |-> text[kept[i]]]

(* The pattern of escapeLineStart, alternative by alternative. *)
OpensStructure(line) ==
  LET At(i) == IF i <= Len(line) THEN line[i] ELSE "end"
      Run(c) == IF \A i \in DOMAIN line : line[i] = c THEN Len(line)
                ELSE SelectInSeq(line, LAMBDA other : other /= c) - 1
      number == SelectInSeq(line, LAMBDA c : c \notin {"1", "2"}) - 1
  IN \/ Run("#") \in 1..6 /\ At(Run("#") + 1) \in Whitespace \union {"end"}
     \/ At(1) \in {">", "|"}
     \/ At(1) \in {"-", "*", "+"} /\ At(2) \in Whitespace
     \/ number > 0 /\ At(number + 1) \in {".", ")"} /\ At(number + 2) \in Whitespace
     \/ \E c \in {"tick", "~"} : Run(c) >= 3
     \/ \E c \in {"-", "="} : Run(c) >= 3 /\ Run(c) = Len(line)

EscapeLineStart(line) ==
  LET space == LeadingSpace(line)
      rest == SubSeq(line, space + 1, Len(line))
  IN IF OpensStructure(rest) THEN SubSeq(line, 1, space) \o <<"\\">> \o rest ELSE line

Wrap(core, open, close) == <<open>> \o core \o <<close>>

RenderRun(run) ==
  LET start == LeadingSpace(run.text)
      end == LastContent(run.text)
      core == SubSeq(run.text, start + 1, end)
      Marked(text, mark, open, close) ==
        IF mark \in run.style.marks THEN Wrap(text, open, close) ELSE text
      lit == IF run.style.highlight = Nil THEN EscapeInline(core)
             ELSE Highlighted(EscapeInline(core), run.style.highlight)
      high == Marked(lit, "superscript", "<sup>", "</sup>")
      low == Marked(high, "subscript", "<sub>", "</sub>")
      under == Marked(low, "underline", "<u>", "</u>")
      bold == Marked(under, "bold", "**", "**")
      italic == Marked(bold, "italic", "*", "*")
      struck == Marked(italic, "strike", "~~", "~~")
      linked == IF ~Linked(run.style) THEN struck
                ELSE <<"[">> \o struck \o <<"](">> \o TargetOf(run.style.link) \o <<")">>
      wrapped == IF run.style.math THEN Wrap(ToLatex(core), "$", "$") ELSE linked
  IN IF end = 0 THEN run.text
     ELSE IF run.style.math /\ ToLatex(core) = <<>> THEN <<>>
     ELSE SubSeq(run.text, 1, start) \o wrapped \o SubSeq(run.text, end + 1, Len(run.text))

RenderRuns(runs) ==
  Trim(ReplaceReturns(FlattenSeq([i \in DOMAIN runs |-> RenderRun(runs[i])])))

-----------------------------------------------------------------------------
(* convert.ts: the page writer. *)

NewWriter(saved) ==
  [blocks |-> <<>>, strokes |-> <<>>, recognized |-> <<>>, saved |-> saved, skipped |-> <<>>]

PushText(writer, text, listItem) ==
  [writer EXCEPT !.blocks = Append(@, [text |-> text, listItem |-> listItem, callout |-> Nil])]

PushCallout(writer, callout, body) ==
  LET titled == callout.title \notin {Nil, <<>>}
      opening == <<">", " ", "[!", callout.type, "!]">>
                   \o (IF titled THEN <<" ">> \o callout.title ELSE <<>>)
      lines == Split(body, "LF")
      quoted == Join([i \in DOMAIN lines |-> <<">", " ">> \o lines[i]], <<"LF">>)
      blocks == writer.blocks
      continues == blocks /= <<>> /\ Last(blocks).callout = opening
      longer == [Last(blocks) EXCEPT !.text = @ \o <<"LF", ">", "LF">> \o quoted]
  IN [writer EXCEPT !.blocks =
        IF continues THEN Append(Front(@), longer)
        ELSE Append(@, [text |-> opening \o <<"LF">> \o quoted, listItem |-> FALSE,
                        callout |-> opening])]

(* The writer after saving an asset, and the link to it; Nil when skipped. *)
RenderAsset(page, writer, data, name, label, embed) ==
  IF NothingToSave(page, data)
  THEN [writer |-> [writer EXCEPT !.skipped = Append(@, name)], link |-> Nil]
  ELSE [writer |-> [writer EXCEPT !.saved = Save(@, data, name)],
        link |-> AssetLink(SavedName(writer.saved, data, name), label, embed)]

AssetOf(page, writer, element) ==
  LET image == element.kind = "image"
      name == IF image THEN ImageNameOf(page, element) ELSE FileNameOf(element)
  IN RenderAsset(page, writer, element.data, name, IF image THEN <<>> ELSE name, image)

CollectInk(writer, ink) ==
  [writer EXCEPT !.strokes = @ \o ink.strokes,
                 !.recognized =
                   IF ink.words = <<>> \/ (@ /= <<>> /\ Last(@) = ink.words) THEN @
                   ELSE Append(@, ink.words)]

WriteText(writer, paragraph, text) ==
  LET lines == Split(text, "LF")
      task == TaskOf(paragraph.tags, paragraph.list)
      listed == paragraph.list /= Nil
      indent == IF listed THEN Tabs(paragraph.list.level) ELSE <<>>
      prefix == IF task /= Nil THEN task ELSE BulletOf(paragraph.list)
      body == (IF prefix = <<>> THEN HeadingOf(paragraph.styleId) ELSE prefix)
                \o Join([i \in DOMAIN lines |-> EscapeLineStart(lines[i])], HardBreak \o indent)
      callout == CalloutFor(paragraph.tags)
  IN IF text = <<>> THEN writer
     ELSE IF callout /= Nil /\ ~listed /\ task = Nil THEN PushCallout(writer, callout, body)
     ELSE PushText(writer, body, task /= Nil \/ listed)

WriteParagraph(writer, paragraph) == WriteText(writer, paragraph, RenderRuns(paragraph.runs))

ChildrenOf(element) ==
  IF element.kind \in {"paragraph", "outline"} THEN element.children ELSE <<>>

(* A cell's parts, in order; a table in a cell is skipped.                 *)
AddAsset(found, asset) ==
  [writer |-> asset.writer,
   parts |-> Append(found.parts, IF asset.link = Nil THEN <<>> ELSE asset.link)]

CellPart(page, found, element) ==
  CASE element.kind = "paragraph" -> [found EXCEPT !.parts = Append(@, RenderRuns(element.runs))]
    [] element.kind = "outline" -> found
    [] element.kind \in {"image", "file"} -> AddAsset(found, AssetOf(page, found.writer, element))
    [] element.kind = "ink" -> [found EXCEPT !.writer = CollectInk(@, element)]
    [] element.kind = "table" -> [found EXCEPT !.writer.skipped = Append(@, page.noteName)]

RECURSIVE CellParts(_, _, _)
CellParts(page, found, element) ==
  FoldLeft(LAMBDA f, child : CellParts(page, f, child), CellPart(page, found, element),
           ChildrenOf(element))

CellText(parts) ==
  LET joined == Join(SelectSeq(parts, LAMBDA part : part /= <<>>), <<" ">>)
      kept == SelectSeq([i \in DOMAIN joined |-> i],
                LAMBDA i : ~(i > 1 /\ joined[i] \in Whitespace /\ joined[i - 1] \in Whitespace))
      Char(c) == IF c \in Whitespace THEN <<" ">> ELSE IF c = "|" THEN <<"\\", "|">> ELSE <<c>>
  IN Trim(FlattenSeq([i \in DOMAIN kept |-> Char(joined[kept[i]])]))

RowLine(cells) == <<"|", " ">> \o Join(cells, <<" ", "|", " ">>) \o <<" ", "|">>

AddCell(f, found) == [writer |-> found.writer, cells |-> Append(f.cells, CellText(found.parts))]

CellOf(page, f, elements) ==
  AddCell(f, FoldLeft(LAMBDA g, e : CellParts(page, g, e),
                      [writer |-> f.writer, parts |-> <<>>], elements))

AddRow(f, filled) == [writer |-> filled.writer, lines |-> Append(f.lines, RowLine(filled.cells))]

RowOf(page, f, row, columns) ==
  AddRow(f, FoldLeft(LAMBDA g, i : CellOf(page, g, IF i <= Len(row) THEN row[i] ELSE <<>>),
                     [writer |-> f.writer, cells |-> <<>>], [i \in 1..columns |-> i]))

PushTable(columns, rendered) ==
  LET separator == RowLine([i \in 1..columns |-> <<"---">>])
      lines == <<rendered.lines[1], separator>> \o Tail(rendered.lines)
  IN PushText(rendered.writer, Join(lines, <<"LF">>), FALSE)

WriteTable(page, writer, table) ==
  LET columns == Max({Len(table.rows[i]) : i \in DOMAIN table.rows})
  IN IF table.rows = <<>> THEN writer
     ELSE PushTable(columns, FoldLeft(LAMBDA f, row : RowOf(page, f, row, columns),
                                      [writer |-> writer, lines |-> <<>>], table.rows))

WriteAsset(asset) ==
  IF asset.link = Nil THEN asset.writer ELSE PushText(asset.writer, asset.link, FALSE)

WriteOwn(page, writer, element) ==
  CASE element.kind = "outline" -> writer
    [] element.kind = "paragraph" -> WriteParagraph(writer, element)
    [] element.kind = "table" -> WriteTable(page, writer, element)
    [] element.kind \in {"image", "file"} -> WriteAsset(AssetOf(page, writer, element))
    [] element.kind = "ink" -> CollectInk(writer, element)

RECURSIVE WriteElement(_, _, _)
WriteElement(page, writer, element) ==
  FoldLeft(LAMBDA w, child : WriteElement(page, w, child), WriteOwn(page, writer, element),
           ChildrenOf(element))

WriteElements(page, writer, elements) ==
  FoldLeft(LAMBDA w, e : WriteElement(page, w, e), writer, elements)

StrokesToSvg(strokes) ==
  LET points == UNION {ToSet(strokes[i].points) : i \in DOMAIN strokes}
      minX == Min({p[1] : p \in points})
      minY == Min({p[2] : p \in points})
      At(p) == <<p[1] - minX + InkPadding, p[2] - minY + InkPadding>>
      Shape(stroke) ==
        IF Len(stroke.points) = 1 THEN << <<"circle", At(stroke.points[1]), stroke.pen>> >>
        ELSE << <<"path">> >>
               \o [i \in DOMAIN stroke.points |->
                     <<IF i = 1 THEN "M" ELSE "L", At(stroke.points[i])>>]
               \o << <<"pen", stroke.pen>> >>
      size == <<"svg", Max({p[1] : p \in points}) - minX + 2 * InkPadding,
                Max({p[2] : p \in points}) - minY + 2 * InkPadding>>
  IN <<size>> \o Join([i \in DOMAIN strokes |-> Shape(strokes[i])], << <<"newline">> >>)
       \o << <<"/svg">> >>

WriteCollectedInk(page, writer) ==
  LET saved == RenderAsset(page, writer, StrokesToSvg(writer.strokes), InkName(page), <<>>, TRUE)
      linked == IF saved.link = Nil THEN saved.writer
                ELSE PushText(saved.writer, saved.link, FALSE)
  IN IF writer.strokes = <<>> THEN writer
     ELSE IF writer.recognized = <<>> THEN linked
     ELSE PushText(linked, Join(writer.recognized, <<" ">>), FALSE)

Markdown(blocks) ==
  LET Apart(i) == i > 1 /\ ~(blocks[i].listItem /\ blocks[i - 1].listItem)
      Lines(i) == IF Apart(i) THEN <<<<>>, blocks[i].text>> ELSE <<blocks[i].text>>
      lines == FlattenSeq([i \in DOMAIN blocks |-> Lines(i)])
  IN Trim(CollapseBlankLines(Join(lines, <<"LF">>)))

-----------------------------------------------------------------------------
(* map.ts mapPage, convert.ts convertPage and the note around it. *)

RECURSIVE CollectText(_)
CollectText(element) ==
  LET Texts(elements) == FlattenSeq([i \in DOMAIN elements |-> CollectText(elements[i])])
  IN CASE element.kind = "paragraph" ->
            [i \in DOMAIN element.runs |-> element.runs[i].text] \o Texts(element.children)
       [] element.kind = "outline" -> Texts(element.children)
       [] element.kind = "table" ->
            FlattenSeq([i \in DOMAIN element.rows |->
              FlattenSeq([j \in DOMAIN element.rows[i] |-> Texts(element.rows[i][j])])])
       [] element.kind = "ink" -> IF element.words = <<>> THEN <<>> ELSE <<element.words>>
       [] OTHER -> <<>>

TitleText(elements) ==
  LET texts == FlattenSeq([i \in DOMAIN elements |-> CollectText(elements[i])])
  IN Trim(Join(SelectSeq(texts, LAMBDA part : Trim(part) /= <<>>), <<" ">>))

TitleOf(page, known) ==
  LET titles == SelectSeq(page.titles, LAMBDA id : JcidOf(page, id) = "titleNode")
  IN IF Trim(page.cachedTitle) /= <<>> \/ titles = <<>> THEN page.cachedTitle
     ELSE TitleText(Elements(page, known, page.objects[Last(titles)].elements))

(* Outlines come first, then what is directly on the page, then the ink.   *)
InOrder(elements) ==
  SelectSeq(elements, LAMBDA element : element.kind = "outline")
    \o SelectSeq(elements, LAMBDA element : element.kind /= "outline")

Converted(page, title, written) ==
  [title |-> title, skipped |-> written.skipped, saved |-> written.saved,
   note |-> page.frontMatter \o Markdown(written.blocks) \o <<"LF">>]

ConvertKnown(page, saved, known) ==
  Converted(page, TitleOf(page, known),
    WriteCollectedInk(page,
      WriteElements(page, NewWriter(saved), InOrder(Elements(page, known, page.elements)))))

ConvertPage(page, saved) ==
  ConvertKnown(page, saved, CollectRecognition(page, 0, NothingKnown))
====
