---- MODULE MCPageRenderer ----
(***************************************************************************)
(* Small pages for the renderer: every short text, every field with one    *)
(* character wrong, one page for each structure the walk knows, and        *)
(* sections of two pages of which the first leaves the spills full.        *)
(***************************************************************************)
EXTENDS PageRenderer

PlainFormat == [math |-> FALSE, marks |-> {}, highlight |-> Nil, hyperlink |-> FALSE,
                hyperlinkUrl |-> Nil]

Blank ==
  [jcid |-> "other", elements |-> <<>>, contents |-> <<>>, text |-> <<>>, ascii |-> <<>>,
   boundaries |-> <<>>, styles |-> <<>>, paragraphStyles |-> <<>>, styleId |-> Nil,
   format |-> PlainFormat, tagStates |-> <<>>, label |-> Nil, shape |-> Nil,
   listNodes |-> <<>>, numberListFormat |-> Nil, childLevel |-> Nil, containers |-> <<>>,
   fileName |-> Nil, extension |-> Nil, fileExtension |-> Nil, data |-> Nil,
   inkData |-> Nil, strokes |-> <<>>, strokeProperties |-> Nil, path |-> Nil,
   scale |-> <<1, 1>>, dimensions |-> <<>>, pen |-> Nil, alternatives |-> <<>>]

PageOf(ids, objects) ==
  [elements |-> ids, objects |-> objects, titles |-> <<>>, cachedTitle |-> <<"t">>,
   recognized |-> Nil, noteName |-> <<"n">>, frontMatter |-> <<"---", "LF">>,
   writeAttachments |-> TRUE]

Of(jcid, ids) == [Blank EXCEPT !.jcid = jcid, !.elements = ids]
Outline(ids) == Of("outlineNode", ids)
Element(contents, ids) == [Of("outlineElementNode", ids) EXCEPT !.contents = contents]
Text(text) == [Blank EXCEPT !.jcid = "richTextNode", !.text = text]
Styled(text, boundaries, styles) ==
  [Text(text) EXCEPT !.boundaries = boundaries, !.styles = styles]
Format(format) == [Blank EXCEPT !.format = format]
Bold == Format([PlainFormat EXCEPT !.marks = {"bold"}])
InternalLink == <<"onenote:", "#", "/", "&", "a">>
RichFormat == [math |-> FALSE, marks |-> {"italic", "underline", "strike", "superscript"},
               highlight |-> 11823615, hyperlink |-> TRUE, hyperlinkUrl |-> InternalLink]
Rich == Format(RichFormat)
Maths == Format([PlainFormat EXCEPT !.math = TRUE])

(* One paragraph in an element in an outline. *)
Paragraph(text, boundaries, styles) ==
  PageOf(<<1>>, 1 :> Outline(<<2>>) @@ 2 :> Element(<<3>>, <<>>)
                  @@ 3 :> Styled(text, boundaries, styles)
                  @@ 4 :> Bold @@ 5 :> Rich @@ 6 :> Maths)

-----------------------------------------------------------------------------
(* Every text of five characters, plain, or with its tail in bold.         *)

Letters == <<" ", "a", "LF", "#", "CR">>
TextOfNumber(n, length) ==
  [i \in 1..length |-> Letters[((n \div (5 ^ (i - 1))) % 5) + 1]]

TextLength == 5
TextCount == 5 ^ TextLength

(* A line whose indentation ends where a spool's chunk does is escaped     *)
(* twice: the README tells of it, and the texts here avoid it.             *)
Seam(text) ==
  \E i \in 1..(Len(text) - 3) :
    text[i] \in {"LF", "CR"} /\ SubSeq(text, i + 1, i + 3) = <<" ", " ", "#">>

TextPage(n) ==
  LET text == TextOfNumber(n, TextLength)
  IN IF n % 2 = 0 THEN Paragraph(text, <<>>, <<>>) ELSE Paragraph(text, <<3>>, <<4, 9>>)

(* A field and what follows it, with one character replaced or left out,   *)
(* and the run cut at one place.                                           *)
Field == <<"F", " ", "H", "L", " ", "quote", "a", "quote", " ", "b">>
FieldLetters == <<"F", "H", "L", " ", "quote", "a">>
FieldPage(i, j, cut) ==
  LET text == IF j > Len(FieldLetters) THEN RemoveAt(Field, i)
              ELSE ReplaceAt(Field, i, FieldLetters[j])
  IN Paragraph(text, <<cut>>, <<9, 4>>)

Cuts == <<0, 5, 8, 10>>
FieldCount == Len(Field) * (Len(FieldLetters) + 1) * Len(Cuts)
FieldPageOfNumber(n) ==
  FieldPage((n % 10) + 1, ((n \div 10) % 7) + 1, Cuts[((n \div 70) % 4) + 1])

-----------------------------------------------------------------------------
(* One page for each structure. *)

State(shape, completed, hidden, definition) ==
  [shape |-> shape, completed |-> completed, hidden |-> hidden, definition |-> definition]
Tagged(object, states) == [object EXCEPT !.tagStates = states]
Definition(shape, label) ==
  [Blank EXCEPT !.jcid = "noteTagSharedDefinition", !.shape = shape, !.label = label]
Listed(object, ids, level) == [object EXCEPT !.listNodes = ids, !.childLevel = level]
ListNode(units) ==
  [Blank EXCEPT !.jcid = "numberListNode",
                !.numberListFormat = [length |-> Len(units), units |-> units]]
HeadingStyle == [Blank EXCEPT !.styleId = "h2"]

(* Items of three lists, of two levels and two kinds, with a paragraph     *)
(* between them.                                                           *)
Lists ==
  PageOf(<<1>>,
    1 :> Outline(<<2, 4, 6, 8>>)
    @@ 2 :> Listed(Element(<<3>>, <<>>), <<20, 21>>, Nil) @@ 3 :> Text(<<"a", "LF", "-", " ", "b">>)
    @@ 4 :> Listed(Element(<<5>>, <<>>), <<21, 20>>, 2) @@ 5 :> Text(<<"1", ".", " ", "a", "CR", "b">>)
    @@ 6 :> Element(<<7>>, <<9>>) @@ 7 :> Text(<<"-", "-", "-", "LF", "-", "-">>)
    @@ 8 :> Listed(Element(<<30>>, <<>>), <<22, 21>>, 1) @@ 30 :> Text(<<"=", "=", "=">>)
    @@ 9 :> Listed(Element(<<10>>, <<>>), <<20, 22>>, 3) @@ 10 :> Text(<<"2", ")">>)
    @@ 20 :> ListNode(<<"placeholder", ".">>) @@ 21 :> ListNode(<<"-">>))

(* Tasks, a hidden tag, an element's tags that its paragraph inherits and  *)
(* ones it does not, headings.                                             *)
Tags ==
  PageOf(<<1>>,
    1 :> Outline(<<2, 4, 6>>)
    @@ 2 :> Tagged(Element(<<3>>, <<>>), <<State(3, TRUE, FALSE, Nil)>>) @@ 3 :> Text(<<"a">>)
    @@ 4 :> Tagged(Element(<<5>>, <<>>), <<State(3, TRUE, FALSE, Nil)>>)
    @@ 5 :> [Tagged(Text(<<"b">>), <<State(3, TRUE, TRUE, Nil), State(Nil, FALSE, FALSE, 20)>>)
               EXCEPT !.paragraphStyles = <<40, 22>>]
    @@ 6 :> Element(<<7>>, <<8>>)
    @@ 7 :> [Text(<<"c">>) EXCEPT !.paragraphStyles = <<40, 22>>]
    @@ 8 :> Tagged(Listed(Element(<<9>>, <<>>), <<23>>, 2), <<State(13, FALSE, FALSE, Nil)>>)
    @@ 9 :> Text(<<"d">>)
    @@ 20 :> Definition(12, <<"x">>) @@ 22 :> HeadingStyle @@ 23 :> ListNode(<<"-">>))

(* The ninth tag and the tenth, a shape from what is no definition, a      *)
(* style without a name before one that has one, and shapes at the ends    *)
(* of those that can be checked.                                           *)
Hidden(count) == [i \in 1..count |-> State(3, FALSE, TRUE, Nil)]
Shapes == <<0, 1, 12, 28, 29, 73, 88, 89, 99, 100>>
TagLimits ==
  LET shaped == [id \in {100 + i : i \in DOMAIN Shapes} |->
                   Tagged(Text(<<"e">>), <<State(Shapes[id - 100], FALSE, FALSE, 20)>>)]
  IN PageOf(<<1>>,
       1 :> Outline(<<2, 3, 4, 5>> \o [i \in DOMAIN Shapes |-> 100 + i])
       @@ 2 :> Tagged(Text(<<"a">>), Append(Hidden(8), State(3, FALSE, FALSE, Nil)))
       @@ 3 :> Tagged(Text(<<"b">>), Append(Hidden(9), State(3, FALSE, FALSE, Nil)))
       @@ 4 :> Tagged(Text(<<"c">>), <<State(Nil, FALSE, FALSE, 21)>>)
       @@ 5 :> [Text(<<"d">>) EXCEPT !.paragraphStyles = <<23, 22>>]
       @@ 20 :> Definition(12, <<"x">>) @@ 21 :> [Definition(3, Nil) EXCEPT !.jcid = "other"]
       @@ 22 :> HeadingStyle @@ 23 :> Blank @@ shaped)

(* Callouts: one continued with the same heading, one of another heading,  *)
(* one after a plain paragraph, bodies of two lines.                       *)
Callouts ==
  PageOf(<<1>>,
    1 :> Outline(<<2, 3, 4, 5, 6>>)
    @@ 2 :> Tagged(Text(<<"a", "LF", ">", "b">>), <<State(13, FALSE, FALSE, 20)>>)
    @@ 3 :> Tagged(Text(<<"LF", "b", " ">>), <<State(Nil, FALSE, FALSE, 20)>>)
    @@ 4 :> Tagged(Text(<<"c">>), <<State(17, FALSE, FALSE, Nil)>>)
    @@ 5 :> Text(<<"d">>)
    @@ 6 :> Tagged(Text(<<"e">>), <<State(1, FALSE, TRUE, Nil), State(17, FALSE, FALSE, Nil)>>)
    @@ 20 :> Definition(13, <<"x", "y">>))

(* Rows of different lengths; cells of two paragraphs, of whitespace, of   *)
(* pipes, of links, of images, of nothing; a table in a cell.              *)
CellTable1 ==
  PageOf(<<1>>,
    1 :> Outline(<<2>>) @@ 2 :> Of("tableNode", <<3, 9, 4>>)
    @@ 3 :> Of("tableRowNode", <<5, 6>>) @@ 4 :> Of("tableRowNode", <<7>>)
    @@ 5 :> Of("tableCellNode", <<10, 11, 12>>) @@ 6 :> Of("tableCellNode", <<13, 14>>)
    @@ 7 :> Of("tableCellNode", <<15, 16, 19, 17>>)
    @@ 10 :> Text(<<" ", "a", "|", "LF", " ", "b", " ">>) @@ 11 :> Text(<<" ", "CR">>)
    @@ 12 :> Text(<<"|">>)
    @@ 13 :> Element(<<99, 14, 18>>, <<10>>) @@ 14 :> Of("outlineGroup", <<12, 20>>)
    @@ 15 :> Styled(<<"a", " ", "b">>, <<1>>, <<40, 41>>)
    @@ 16 :> [Of("imageNode", <<>>) EXCEPT !.containers = <<30>>]
    @@ 17 :> [Of("embeddedFileNode", <<>>) EXCEPT !.containers = <<99>>]
    @@ 18 :> Text(<<"z">>) @@ 19 :> Of("tableNode", <<3>>) @@ 20 :> Of("other", <<>>)
    @@ 30 :> [Blank EXCEPT !.data = << <<"png", 1>> >>, !.extension = ".png"]
    @@ 40 :> Rich @@ 41 :> Maths)

(* A table of one row and one of a row without cells. *)
CellTable2 ==
  PageOf(<<1>>,
    1 :> Outline(<<2, 6, 8>>) @@ 2 :> Of("tableNode", <<3>>) @@ 3 :> Of("tableRowNode", <<4>>)
    @@ 4 :> Of("tableCellNode", <<5>>) @@ 5 :> Text(<<"a">>)
    @@ 6 :> Of("tableNode", <<7, 7>>) @@ 7 :> Of("tableRowNode", <<>>)
    @@ 8 :> Of("tableNode", <<5>>))

WideTable ==
  PageOf(<<1>>,
    1 :> Outline(<<2>>) @@ 2 :> Of("tableNode", <<3>>)
    @@ 3 :> Of("tableRowNode", <<4, 4, 4, 4>>) @@ 4 :> Of("tableCellNode", <<>>))

(* Two images of the same bytes, two files of one name, one without data.  *)
Assets ==
  PageOf(<<1, 6>>,
    1 :> Outline(<<2, 3, 4, 5>>)
    @@ 2 :> [Of("imageNode", <<>>) EXCEPT !.containers = <<99, 30>>]
    @@ 3 :> [Of("imageNode", <<>>) EXCEPT !.containers = <<30>>, !.fileName = <<"f", ".png">>]
    @@ 4 :> [Of("embeddedFileNode", <<>>) EXCEPT !.containers = <<31, 30>>,
                                                 !.fileName = <<"f", " ", ".txt">>]
    @@ 5 :> [Of("embeddedFileNode", <<>>) EXCEPT !.containers = <<32>>, !.fileName = <<"f", " ">>]
    @@ 6 :> [Of("imageNode", <<>>) EXCEPT !.containers = <<33>>, !.fileName = <<"f", ".png">>]
    @@ 30 :> [Blank EXCEPT !.data = << <<"png", 1>> >>]
    @@ 31 :> [Blank EXCEPT !.data = << <<"txt", 1>> >>, !.fileExtension = ".txt"]
    @@ 32 :> [Blank EXCEPT !.data = << <<"txt", 2>> >>, !.extension = ".txt"]
    @@ 33 :> [Blank EXCEPT !.data = <<>>])

Unwritten == [Assets EXCEPT !.writeAttachments = FALSE]

InkStroke(path) == [Blank EXCEPT !.jcid = "inkStrokeNode", !.strokeProperties = 50, !.path = path]
InkStyle(dimensions) ==
  [Blank EXCEPT !.jcid = "strokePropertiesNode", !.dimensions = dimensions, !.pen = "pen"]
Path(values) == [declared |-> Len(values), values |-> values]
Drawing(strokes) == [Blank EXCEPT !.jcid = "inkDataNode", !.strokes = strokes]
InkBox(data) == [Of("inkContainer", <<>>) EXCEPT !.inkData = data, !.scale = <<1, 2>>]

(* Strokes of one point and of three, one that is none, words on some of   *)
(* them; ink as an element's content, in a cell, and beside an outline.    *)
InkPage(dimensions, path) ==
  [PageOf(<<1, 12>>,
    1 :> Outline(<<2, 4, 5>>)
    @@ 2 :> Element(<<99, 13, 12, 3>>, <<3>>) @@ 3 :> Text(<<"a">>)
    @@ 4 :> InkBox(21)
    @@ 5 :> Of("tableNode", <<6>>) @@ 6 :> Of("tableRowNode", <<7>>)
    @@ 7 :> Of("tableCellNode", <<12, 8>>) @@ 8 :> Element(<<13, 4>>, <<3>>)
    @@ 12 :> InkBox(20) @@ 13 :> InkBox(22)
    @@ 20 :> Drawing(<<30, 31, 3, 32>>) @@ 21 :> Drawing(<<33>>)
    @@ 22 :> Drawing(<<32, 31>>)
    @@ 30 :> InkStroke(path) @@ 31 :> InkStroke(Path(<<>>)) @@ 32 :> InkStroke(Path(<<1>>))
    @@ 33 :> InkStroke([Path([i \in DOMAIN dimensions |-> i]) EXCEPT !.declared = @])
    @@ 50 :> InkStyle(dimensions)
    @@ 60 :> Of("other", <<61, 62, 60>>)
    @@ 61 :> [Blank EXCEPT !.jcid = "recognizedTextWord", !.strokes = <<30, 33>>,
                           !.alternatives = <<<<>>, <<"w", "o">>, <<"x">>>>]
    @@ 62 :> [Blank EXCEPT !.jcid = "recognizedTextWord", !.strokes = <<33>>,
                           !.alternatives = <<<<"v", "i", "o">>>>])
   EXCEPT !.recognized = 60]

Inks ==
  <<InkPage(<<"x", "y">>, Path(<<1, 2, 3, 4, 5, 6>>)),
    InkPage(<<"p", "y", "x">>, Path(<<9, 9, 9, 1, -2, 3, 4, 5, -6>>)),
    InkPage(<<"x", "y">>, [declared |-> 6, values |-> <<1, 2, 3, 4, 5>>])>>

(* Nesting past the depth, a cycle, a missing object, an unknown kind, a   *)
(* narrow text, runs whose boundaries go back.                             *)
Nesting ==
  PageOf(<<1>>,
    1 :> Outline(<<2, 99, 8>>) @@ 2 :> Outline(<<1, 3, 7>>) @@ 3 :> Outline(<<4>>)
    @@ 4 :> Outline(<<5>>) @@ 5 :> Outline(<<6>>) @@ 6 :> Outline(<<7>>)
    @@ 7 :> [Text(<<>>) EXCEPT !.ascii = <<"a", "[", "a", "NUL">>, !.boundaries = <<2, 1, 9>>,
                               !.styles = <<40, 41, 40, 41>>]
    @@ 8 :> Of("other", <<7>>) @@ 40 :> Bold @@ 41 :> Rich)

TitleNode(ids) == Of("titleNode", ids)
Titled ==
  [InkPage(<<"x", "y">>, Path(<<1, 2>>))
     EXCEPT !.cachedTitle = <<" ">>, !.titles = <<70, 3, 71>>,
            !.objects = @ @@ 70 :> TitleNode(<<3>>) @@ 71 :> TitleNode(<<72, 5, 1>>)
                          @@ 72 :> Styled(<<" ", "a", " ">> \o Field, <<2>>, <<>>)]

Links == Paragraph(<<"a", " ", "b", "[", "c">>, <<2, 4>>, <<5, 4, 5>>)

(* Every colour the markers are told apart by, as far from two of them as  *)
(* can be, white, one more than a colour; and targets that are none.       *)
Colors == <<255, 11823615, 42495, 65535, 65280, 32768, 16711680, 16776960, 8388736, 16711935,
            0, 4210752, 8421504, (2 ^ 24) - 1, 2 ^ 24, 2147483647>>
Highlights ==
  LET styles == [i \in DOMAIN Colors |-> 100 + i]
  IN [Paragraph([i \in DOMAIN Colors |-> "a"], [i \in 1..(Len(Colors) - 1) |-> i], styles)
        EXCEPT !.objects = @ @@ [id \in ToSet(styles) |->
          Format([PlainFormat EXCEPT !.highlight = Colors[id - 100]])]]
NoTargets ==
  [Paragraph(<<"a", "b", "c">>, <<1, 2>>, <<100, 101, 102>>)
     EXCEPT !.objects = @ @@ 100 :> Format([RichFormat EXCEPT !.hyperlink = FALSE])
                          @@ 101 :> Format([RichFormat EXCEPT !.hyperlinkUrl = <<>>])
                          @@ 102 :> Format([RichFormat EXCEPT !.hyperlinkUrl = Nil])]
LongStyleTarget ==
  [Paragraph(<<"a", "b">>, <<1>>, <<100>>)
     EXCEPT !.objects = @ @@ 100 :> Format([RichFormat EXCEPT !.hyperlinkUrl =
                                              [i \in 1..12 |-> "a"]])]

Formula == Paragraph(<<" ", "invisible", "LF", "a", " ", "invisible">>, <<2>>, <<6, 6>>)
LongFormula == Paragraph([i \in 1..14 |-> "a"], <<>>, <<6>>)
LongTarget ==
  Paragraph(<<"F", "H", "L", " ", "quote">> \o [i \in 1..12 |-> "a"] \o <<"quote">>, <<>>, <<>>)

(* Text that leaves every spill over its budget, and nothing but space.    *)
Spaces == [i \in 1..5 |-> " "]
Spilling == Paragraph(<<"a">> \o Spaces \o <<"b", "LF", "LF", "c">> \o Spaces, <<4>>, <<9, 4>>)
Hollow == Paragraph(Spaces, <<>>, <<4>>)

Structures ==
  <<Lists, Tags, TagLimits, Callouts, CellTable1, CellTable2, WideTable, Assets, Unwritten, Nesting,
    Titled, Links, Highlights, NoTargets, LongStyleTarget, Formula, LongFormula,
    LongTarget, Spilling, Hollow>> \o Inks

Fields == {FieldPageOfNumber(n) : n \in 1..FieldCount}
Texts ==
  {TextPage(n) : n \in {m \in 1..TextCount : ~Seam(TextOfNumber(m, TextLength))}}

(* First pages that leave the spills or the drawing in use, and pages that *)
(* find them so.                                                           *)
Leaving == {Tags, Callouts, CellTable1, Spilling, Inks[2]}
Finding == {Lists, Callouts, CellTable1, Assets, Titled, Spilling, Inks[2]}

MCSections ==
  {<<p>> : p \in ToSet(Structures) \union Fields \union Texts}
    \union (Leaving \X Finding)
====
