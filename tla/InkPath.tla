---- MODULE InkPath ----
(***************************************************************************)
(* Ink: a path stores its dimensions a block at a time, so the first axis  *)
(* waits in a spool while the second is read; points and strokes wait in   *)
(* spools for the end of the page, where they become one drawing in a      *)
(* third.  A path is the count it declares and the values it holds; how a  *)
(* value is packed into bytes, its unit and the pen's width are left out,  *)
(* and a colour, width and opacity are one pen.                            *)
(***************************************************************************)
EXTENDS TextStreams

Padding == 10

NoBox == [minX |-> Nil, minY |-> Nil, maxX |-> Nil, maxY |-> Nil]
NewInk == [points |-> NewSpool, strokes |-> NewRecords, coordinates |-> NewSpool,
           document |-> NewSpool, recognized |-> NewSpool, pointCount |-> 0, drawable |-> 0,
           box |-> NoBox, recognizedCount |-> 0, lastRecognized |-> Nil]

ResetCollector(ink) ==
  [ink EXCEPT !.points = ResetSpool(@), !.strokes = ResetRecords(@),
              !.pointCount = 0, !.drawable = 0, !.box = NoBox]

ResetInkSpools(ink) ==
  [ink EXCEPT !.points = ResetSpool(@), !.strokes = ResetRecords(@),
              !.document = ResetSpool(@), !.recognized = ResetSpool(@),
              !.coordinates = ResetSpool(@)]

(* Where x and y are among a stroke's dimensions; 0 when they are not. *)
Axis(dimensions, name) == SelectInSeq(dimensions, LAMBDA dimension : dimension = name)

Widen(box, x, y) ==
  IF box = NoBox THEN [minX |-> x, minY |-> y, maxX |-> x, maxY |-> y]
  ELSE [minX |-> Min({box.minX, x}), minY |-> Min({box.minY, y}),
        maxX |-> Max({box.maxX, x}), maxY |-> Max({box.maxY, y})]

PushPoint(ink, point) ==
  [ink EXCEPT !.points = WriteSpool(@, <<point>>), !.pointCount = @ + 1,
              !.box = Widen(@, point[1], point[2])]

EndStroke(ink, first, pen) ==
  LET count == ink.pointCount - first
  IN [ink EXCEPT !.drawable = IF count > 0 THEN @ + 1 ELSE @,
                 !.strokes = PushRecord(@, [first |-> first, count |-> count, pen |-> pen])]

-----------------------------------------------------------------------------
(* Decoding one path: drawn says whether it is a stroke, thrown whether it *)
(* ended before the values it declares.                                    *)

(* How a path's values fall into a block of x and a block of y. *)
Blocks(path, dimensions) ==
  LET count == path.declared \div Len(dimensions)
      x == Axis(dimensions, "x")
      y == Axis(dimensions, "y")
  IN [divides |-> path.declared % Len(dimensions) = 0, count |-> count, xFirst |-> x < y,
      first |-> (Min({x, y}) - 1) * count, second |-> (Max({x, y}) - 1) * count]

InBlock(i, block, count) == i > block /\ i <= block + count

(* A block's values are differences from the value before. *)
Summed(sum, i, block, values) == (IF i = block + 1 THEN 0 ELSE sum) + values[i]

PointOf(first, second, blocks, scale) ==
  IF blocks.xFirst THEN <<first * scale[1], second * scale[2]>>
  ELSE <<second * scale[1], first * scale[2]>>

TakeFirst(f, sum) ==
  [f EXCEPT !.firstSum = sum, !.ink.coordinates = WriteSpool(@, <<sum>>)]

TakeSecond(f, sum, blocks, scale) ==
  LET first == FlattenSeq(Chunks(f.ink.coordinates))[f.paired + 1]
  IN [f EXCEPT !.secondSum = sum, !.paired = @ + 1,
               !.ink = PushPoint(@, PointOf(first, sum, blocks, scale))]

TakeValue(f, i, values, blocks, scale) ==
  CASE InBlock(i, blocks.first, blocks.count) ->
         TakeFirst(f, Summed(f.firstSum, i, blocks.first, values))
    [] InBlock(i, blocks.second, blocks.count) ->
         TakeSecond(f, Summed(f.secondSum, i, blocks.second, values), blocks, scale)
    [] OTHER -> f

(* Values of a path that is not a whole number of points are read past. *)
DecodeBlocks(ink, path, blocks, scale) ==
  LET begun == [ink |-> [ink EXCEPT !.coordinates = ResetSpool(@)],
                firstSum |-> 0, secondSum |-> 0, paired |-> 0]
      Take(f, i) == TakeValue(f, i, path.values, blocks, scale)
      wanted == IF blocks.divides THEN Len(path.values) ELSE 0
  IN [drawn |-> blocks.divides, thrown |-> Len(path.values) < path.declared,
      ink |-> FoldLeft(Take, begun, [i \in 1..wanted |-> i]).ink]

DecodePath(ink, path, dimensions, scale) ==
  IF path.declared = 0 THEN [drawn |-> FALSE, thrown |-> FALSE, ink |-> ink]
  ELSE DecodeBlocks(ink, path, Blocks(path, dimensions), scale)

EndDrawn(decoded, first, pen) ==
  IF decoded.drawn THEN [decoded EXCEPT !.ink = EndStroke(@, first, pen)] ELSE decoded

Stroke(page, ink, stroke, scale) ==
  LET properties == page.objects[stroke.strokeProperties]
  IN IF \/ JcidOf(page, stroke.strokeProperties) /= "strokePropertiesNode"
        \/ stroke.path = Nil
        \/ Axis(properties.dimensions, "x") = 0
        \/ Axis(properties.dimensions, "y") = 0
     THEN [drawn |-> FALSE, thrown |-> FALSE, ink |-> ink]
     ELSE EndDrawn(DecodePath(ink, stroke.path, properties.dimensions, scale),
                   ink.pointCount, properties.pen)

JoinWords(words, word) == IF words = <<>> THEN word ELSE words \o <<" ">> \o word

(* A container's strokes, and its words: Nil when it drew nothing.         *)
Gathered(f, decoded, word) ==
  [ink |-> decoded.ink, thrown |-> decoded.thrown, drawn |-> f.drawn \/ decoded.drawn,
   words |-> IF decoded.drawn /\ word /= Nil THEN JoinWords(f.words, word) ELSE f.words]

WordsIfDrawn(gathered) ==
  [gathered EXCEPT !.words = IF gathered.drawn THEN @ ELSE Nil]

InkInto(page, ink, container, known, slot) ==
  LET strokes == IF JcidOf(page, container.inkData) = "inkDataNode"
                 THEN page.objects[container.inkData].strokes ELSE <<>>
      Add(f, id) ==
        IF f.thrown \/ JcidOf(page, id) /= "inkStrokeNode" THEN f
        ELSE Gathered(f, Stroke(page, f.ink, page.objects[id], container.scale),
                      WordOn(known, slot, id))
  IN WordsIfDrawn(FoldLeft(Add,
       [ink |-> ink, thrown |-> FALSE, drawn |-> FALSE, words |-> <<>>], strokes))

(* A word is repeated on each of its strokes, and written once in a row.   *)
Recognize(ink, words) ==
  IF words \in {Nil, <<>>, ink.lastRecognized} THEN ink
  ELSE [ink EXCEPT !.recognized =
                     WriteSpool(@, IF ink.recognizedCount = 0 THEN words ELSE <<" ">> \o words),
                   !.recognizedCount = @ + 1, !.lastRecognized = words]

-----------------------------------------------------------------------------
(* The drawing, written into its spool. *)

PointsOf(ink, record) ==
  SubSeq(FlattenSeq(Chunks(ink.points)), record.first + 1, record.first + record.count)

Place(box, point) == <<point[1] - box.minX + Padding, point[2] - box.minY + Padding>>

ShapeTokens(ink, record) ==
  LET points == PointsOf(ink, record)
      Token(i) == <<IF i = 1 THEN "M" ELSE "L", Place(ink.box, points[i])>>
  IN IF record.count = 1 THEN << <<"circle", Place(ink.box, points[1]), record.pen>> >>
     ELSE << <<"path">> >> \o [i \in DOMAIN points |-> Token(i)] \o << <<"pen", record.pen>> >>

Opening(box) == <<"svg", box.maxX - box.minX + 2 * Padding, box.maxY - box.minY + 2 * Padding>>

WriteSvg(ink) ==
  LET drawn == SelectSeq(RecordsOf(ink.strokes), LAMBDA record : record.count > 0)
      WriteStroke(spool, i) ==
        WriteSpool(IF i = 1 THEN spool ELSE WriteSpool(spool, << <<"newline">> >>),
                   ShapeTokens(ink, drawn[i]))
      opened == WriteSpool(ResetSpool(ink.document), <<Opening(ink.box)>>)
      body == FoldLeft(WriteStroke, opened, [i \in DOMAIN drawn |-> i])
  IN [ink EXCEPT !.document = WriteSpool(body, << <<"/svg">> >>)]
====
