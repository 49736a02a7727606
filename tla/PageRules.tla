---- MODULE PageRules ----
(***************************************************************************)
(* A page as both renderers find it, and the rules of page.ts for a run, a *)
(* paragraph, a list, a tag and an asset: most of them are written out a   *)
(* second time in map.ts and convert.ts (EagerPage).  Text is a sequence   *)
(* of characters, of which only those are told apart that a rule looks at; *)
(* a marker is one character.  A page is its lists of objects and the      *)
(* objects themselves, each a record of the properties the renderers read; *)
(* an absent value is Nil, an absent list empty.                           *)
(***************************************************************************)
EXTENDS Integers, Sequences, FiniteSets, SequencesExt, TLC

CONSTANTS Nil,       \* undefined
          MaxDepth   \* maxPropertySetDepth

ASSUME DepthAssumption == MaxDepth \in Nat \ {0}

Whitespace == {" ", "TAB", "LF", "CR"}

(* How many characters s opens with that trim would take, and where its    *)
(* last other character is; 0 when there is none.                          *)
LeadingSpace(s) ==
  LET first == SelectInSeq(s, LAMBDA c : c \notin Whitespace)
  IN IF first = 0 THEN Len(s) ELSE first - 1
LastContent(s) == SelectLastInSeq(s, LAMBDA c : c \notin Whitespace)

Trim(s) == SubSeq(s, LeadingSpace(s) + 1, LastContent(s))

Split(s, separator) ==
  FoldLeft(LAMBDA parts, c :
             IF c = separator THEN Append(parts, <<>>)
             ELSE Append(Front(parts), Append(Last(parts), c)),
           <<<<>>>>, s)

Join(parts, separator) ==
  FlattenSeq([i \in DOMAIN parts |-> IF i = 1 THEN parts[i] ELSE separator \o parts[i]])

Handled == {"outlineNode", "outlineGroup", "outlineElementNode", "richTextNode", "imageNode",
            "embeddedFileNode", "tableNode", "inkContainer"}

Exists(page, id) == id \in DOMAIN page.objects
JcidOf(page, id) == IF Exists(page, id) THEN page.objects[id].jcid ELSE Nil

-----------------------------------------------------------------------------
(* Inline rules. *)

EscapeInline(text) ==
  FlattenSeq([i \in DOMAIN text |->
    IF text[i] \in {"[", "]", "tick", "<"} THEN <<"\\", text[i]>> ELSE <<text[i]>>])

(* Of the LaTeX form only what can make it empty matters here: characters  *)
(* nobody sees are dropped and what is left is trimmed.                    *)
ToLatex(core) == Trim(SelectSeq(core, LAMBDA c : c /= "invisible"))

HardBreak == <<" ", " ", "LF">>
Tabs(level) == [i \in 1..level |-> "TAB"]

(* Where an internal link leads: the page it names, between the hash and   *)
(* the next ampersand; Nil when it is no such link or names nothing.       *)
InternalPageTitle(url) ==
  LET hash == SelectInSeq(url, LAMBDA c : c = "#")
      tail == SubSeq(url, hash + 1, Len(url))
      title == Head(Split(tail, "&"))
  IN IF url[1] /= "onenote:" \/ hash = 0 THEN Nil
     ELSE IF title = <<>> THEN Nil ELSE title

(* resolveInternalLink is sanitizeFileName: a slash cannot be in a name.   *)
Sanitize(title) == [i \in DOMAIN title |-> IF title[i] = "/" THEN "-" ELSE title[i]]

EncodeURI(target) == [i \in DOMAIN target |-> IF target[i] = " " THEN "%20" ELSE target[i]]

LinkTarget(url) ==
  LET title == InternalPageTitle(url)
  IN EncodeURI(IF title = Nil THEN url ELSE Sanitize(title))

(* Colours are 0x00BBGGRR: anything above them, and white, highlights      *)
(* nothing; otherwise the red, the green and the blue.                     *)
HighlightColor(color) ==
  IF color = Nil \/ color \div (2 ^ 24) /= 0 \/ color = (2 ^ 24) - 1 THEN Nil
  ELSE [i \in 1..3 |-> (color \div (256 ^ (i - 1))) % 256]

HighlightMarkers ==
  << [marker |-> "red",    inks |-> {<<255, 0, 0>>, <<255, 105, 180>>}],
     [marker |-> "orange", inks |-> {<<255, 165, 0>>}],
     [marker |-> "yellow", inks |-> {<<255, 255, 0>>}],
     [marker |-> "green",  inks |-> {<<0, 255, 0>>, <<0, 128, 0>>}],
     [marker |-> "blue",   inks |-> {<<0, 0, 255>>, <<0, 255, 255>>}],
     [marker |-> "purple", inks |-> {<<128, 0, 128>>, <<255, 0, 255>>}] >>

InkDistance(ink, color) ==
  (ink[1] - color[1]) ^ 2 + (ink[2] - color[2]) ^ 2 + (ink[3] - color[3]) ^ 2

(* The first of the markers nearest to the colour. *)
HighlightPrefix(color) ==
  LET Distance(i) == Min({InkDistance(ink, color) : ink \in HighlightMarkers[i].inks})
      nearest == Min({Distance(i) : i \in DOMAIN HighlightMarkers})
      first == Min({i \in DOMAIN HighlightMarkers : Distance(i) = nearest})
  IN <<"==", HighlightMarkers[first].marker>>

(* A run's style: what its style object says, when there is one.  A target *)
(* counts only with the flag, and an empty one never.                      *)
PlainStyle == [math |-> FALSE, marks |-> {}, highlight |-> Nil, link |-> Nil]
StyleOf(page, styles, index) ==
  LET format == page.objects[styles[index]].format
      linked == format.hyperlink /\ format.hyperlinkUrl \notin {Nil, <<>>}
  IN IF index > Len(styles) THEN PlainStyle
     ELSE IF ~Exists(page, styles[index]) THEN PlainStyle
     ELSE [math |-> format.math, marks |-> format.marks,
           highlight |-> HighlightColor(format.highlight),
           link |-> IF linked THEN format.hyperlinkUrl ELSE Nil]

(* An empty target is no link, though it is the run's. *)
Linked(style) == style.link \notin {Nil, <<>>}

-----------------------------------------------------------------------------
(* Block rules. *)

HeadingLevel == [h1 |-> 1, h2 |-> 2, h3 |-> 3, h4 |-> 4, h5 |-> 5, h6 |-> 6]
HeadingPrefix(styleId) ==
  IF styleId \in DOMAIN HeadingLevel
  THEN Append([i \in 1..HeadingLevel[styleId] |-> "#"], " ") ELSE <<>>

(* The first style object there is decides, whether it has a name or not.  *)
StyleId(page, styles) ==
  LET first == SelectInSeq(styles, LAMBDA id : Exists(page, id))
  IN IF first = 0 THEN Nil ELSE page.objects[styles[first]].styleId

CheckableShapes ==
  (1..12) \union {28, 30, 32, 48, 50, 52, 69, 71, 73} \union (89..99)
CalloutTypes ==
  (13 :> "important") @@ (15 :> "question") @@ (17 :> "danger") @@ (21 :> "tip")
    @@ (111 :> "question")

MaxTagsPerParagraph == 9

(* The tags of a paragraph or of the element around it.  A hidden tag is   *)
(* passed over; a shape the state does not give is its definition's.       *)
TagsOf(page, object) ==
  LET Definition(state) ==
        IF Exists(page, state.definition) THEN page.objects[state.definition] ELSE Nil
      Shape(state) ==
        IF state.shape /= Nil THEN state.shape
        ELSE IF JcidOf(page, state.definition) = "noteTagSharedDefinition"
             THEN Definition(state).shape ELSE Nil
      Label(state) ==
        IF Shape(state) \in CheckableShapes \/ Definition(state) = Nil THEN Nil
        ELSE Definition(state).label
      Tag(state) == [checkable |-> Shape(state) \in CheckableShapes,
                     completed |-> state.completed, shape |-> Shape(state),
                     label |-> Label(state)]
      considered == SubSeq(object.tagStates, 1,
                           Min({Len(object.tagStates), MaxTagsPerParagraph}))
      shown == SelectSeq(considered, LAMBDA state : ~state.hidden)
  IN [i \in DOMAIN shown |-> Tag(shown[i])]

(* The length is in the format itself, in its first unit. *)
NumberListFormat(format) ==
  IF format = Nil THEN <<>> ELSE SubSeq(format.units, 1, format.length)

(* The last list node that is one. *)
ListInfo(page, object) ==
  LET lists == SelectSeq(object.listNodes, LAMBDA id : JcidOf(page, id) = "numberListNode")
      format == NumberListFormat(page.objects[Last(lists)].numberListFormat)
      level == IF object.childLevel = Nil THEN 1 ELSE object.childLevel
  IN IF lists = <<>> THEN Nil
     ELSE [level |-> Max({0, level - 1}), ordered |-> Contains(format, "placeholder")]

ListPrefix(list) ==
  IF list = Nil THEN <<>>
  ELSE Tabs(list.level) \o (IF list.ordered THEN <<"1", ".", " ">> ELSE <<"-", " ">>)

TaskPrefix(tags, list) ==
  LET task == SelectInSeq(tags, LAMBDA tag : tag.checkable)
      level == IF list = Nil THEN 0 ELSE list.level
  IN IF task = 0 THEN Nil
     ELSE Tabs(level) \o (IF tags[task].completed THEN <<"- [x]", " ">> ELSE <<"- [ ]", " ">>)

(* The heading of the callout a tag asks for; Nil when none does. *)
CalloutOpening(tags) ==
  LET first == SelectInSeq(tags, LAMBDA tag : ~tag.checkable /\ tag.shape \in DOMAIN CalloutTypes)
      tag == tags[first]
  IN IF first = 0 THEN Nil
     ELSE <<">", " ", "[!", CalloutTypes[tag.shape], "!]">>
            \o (IF tag.label \in {Nil, <<>>} THEN <<>> ELSE <<" ">> \o tag.label)

-----------------------------------------------------------------------------
(* Which word each stroke was recognized as.  What is known is kept under  *)
(* the slot of the page's space: the nodes visited, and a stroke's word.   *)

MaxRecognitionDepth == 8
NothingKnown == [visited |-> {}, words |-> <<>>]

RECURSIVE WalkRecognition(_, _, _, _, _)
WalkRecognition(page, slot, id, depth, known) ==
  LET seen == [known EXCEPT !.visited = @ \union {<<slot, id>>}]
      object == page.objects[id]
      named == SelectInSeq(object.alternatives, LAMBDA word : word /= <<>>)
      read == [key \in {<<slot, stroke>> : stroke \in ToSet(object.strokes)} |->
                 object.alternatives[named]]
  IN IF depth > MaxRecognitionDepth \/ <<slot, id>> \in known.visited THEN known
     ELSE IF ~Exists(page, id) THEN seen
     ELSE IF object.jcid = "recognizedTextWord"
          THEN IF named = 0 THEN seen ELSE [seen EXCEPT !.words = read @@ @]
     ELSE FoldLeft(LAMBDA k, child : WalkRecognition(page, slot, child, depth + 1, k),
                   seen, object.elements)

CollectRecognition(page, slot, known) ==
  IF page.recognized = Nil THEN known ELSE WalkRecognition(page, slot, page.recognized, 0, known)

WordOn(known, slot, stroke) ==
  IF <<slot, stroke>> \in DOMAIN known.words THEN known.words[<<slot, stroke>>] ELSE Nil

-----------------------------------------------------------------------------
(* Assets. *)

Extensions == {".png", ".txt"}
HasExtension(name) == Last(name) \in Extensions
WithExtension(base, extension) ==
  IF extension = Nil THEN base ELSE IF HasExtension(base) THEN base ELSE Append(base, extension)

(* The first container there is, with its bytes and its extension. *)
Container(page, ids) ==
  LET first == SelectInSeq(ids, LAMBDA id : Exists(page, id))
      object == page.objects[ids[first]]
  IN IF first = 0 THEN [extension |-> Nil, data |-> Nil]
     ELSE [extension |-> IF object.extension /= Nil THEN object.extension
                         ELSE object.fileExtension,
           data |-> object.data]

ImageName(page, object) ==
  LET container == Container(page, object.containers)
      named == object.fileName /= Nil /\ HasExtension(object.fileName)
  IN WithExtension(page.noteName \o <<" ", "image">>,
       IF container.extension /= Nil THEN container.extension
       ELSE IF named THEN Last(object.fileName) ELSE Nil)

EmbeddedName(page, object) ==
  WithExtension(IF object.fileName = Nil THEN <<"attachment">> ELSE object.fileName,
                Container(page, object.containers).extension)

(* A paragraph's text: the wide property when it has any bytes, or else    *)
(* the narrow one, without the NULs it ends in.                            *)
TextOf(object) ==
  LET value == IF object.text /= <<>> THEN object.text ELSE object.ascii
  IN SubSeq(value, 1, SelectLastInSeq(value, LAMBDA c : c /= "NUL"))

InkName(page) == page.noteName \o <<" ", "-", " ", "Ink", ".svg">>

(* Saving: bytes already written keep the name they have, and a name that  *)
(* is taken is added to until it is free (Workspace models the claim).     *)
NothingToSave(page, data) == data \in {Nil, <<>>} \/ ~page.writeAttachments
SavedName(saved, data, name) ==
  LET known == SelectInSeq(saved, LAMBDA file : file.data = data)
      taken == SelectSeq(saved, LAMBDA file : file.suggested = name)
  IN IF known /= 0 THEN saved[known].name ELSE name \o [i \in DOMAIN taken |-> "'"]
Save(saved, data, name) ==
  IF \E i \in DOMAIN saved : saved[i].data = data THEN saved
  ELSE Append(saved, [data |-> data, suggested |-> name, name |-> SavedName(saved, data, name)])

AssetLink(name, label, embed) ==
  (IF embed THEN <<"![">> ELSE <<"[">>) \o label \o <<"](">> \o EncodeURI(name) \o <<")">>
====
