---- MODULE PropertyStore ----
(***************************************************************************)
(* Property sets read where they lie.  A set that is asked for is walked   *)
(* once: a fixed-size descriptor of every property goes into the paged     *)
(* store under the set's slot, and when the last is there a record says    *)
(* that the object's set has been walked.  A nested set is walked again,   *)
(* into a slot of its own, every time it is asked for.  A value, or the    *)
(* identifier a reference names, is fetched from the file when it is       *)
(* needed.  A walk ends half way where the set is malformed and where the  *)
(* store refuses a record.                                                 *)
(***************************************************************************)
EXTENDS SpaceResolver, DesktopFile

CONSTANT WindowUnits   \* units of the byte window a value is read through

ASSUME WindowAssumption == WindowUnits \in Nat \ {0}

VARIABLES kept,      \* the store's records: <<"parsed", object>>, <<"property", slot, id>>
          setSlots,  \* the slots given out
          walk,      \* the walk that is on
          views,     \* history: the nested sets answered
          unread     \* history: the objects, and the paths in them, that were refused

propertyVars == <<kept, setSlots, walk, views, unread>>

NotWalking == [object |-> 0]
InWalk == walk /= NotWalking

PropertyInit ==
  kept = <<>> /\ setSlots = 0 /\ walk = NotWalking /\ views = <<>> /\ unread = {}

Value(object) == ObjectAt(index, object).properties

(* The identifiers a page may ask a set of the object for. *)
Ids(object) == IF Value(object) = Nil THEN {} ELSE {PropertyId(unit) : unit \in Range(Value(object))}

-----------------------------------------------------------------------------
(* RecordWriter and RecordReader: a field that may be absent is a flag and *)
(* then the field, and is read back in the order it was written.           *)
Flagged(fields) == IF fields = Nil THEN <<0>> ELSE <<1>> \o fields

(* An optional field that is so many units wide, and where it ends. *)
FieldAt(record, at, width) == IF record[at] = 0 THEN Nil ELSE SubSeq(record, at + 1, at + width)
EndOf(record, at, width) == IF record[at] = 0 THEN at + 1 ELSE at + 1 + width

(* A range is an offset and a length; a stream that is absent has none. *)
StreamsRecord(slot, streams) ==
  <<slot>> \o streams.object \o Flagged(streams.objectSpace) \o Flagged(streams.context)
    \o <<streams.root>>

ReadStreamsRecord(record) ==
  LET context == EndOf(record, 4, 2)
  IN [slot |-> record[1], object |-> SubSeq(record, 2, 3), objectSpace |-> FieldAt(record, 4, 2),
      context |-> FieldAt(record, context, 2), root |-> record[EndOf(record, context, 2)]]

KindNumber == ("object" :> 0) @@ ("objectSpace" :> 1) @@ ("context" :> 2)

PropertyRecord(p) ==
  <<p.rawId, p.index, PropertyType(p.rawId)>>
    \o Flagged(p.boolean) \o Flagged(p.scalar) \o Flagged(p.data)
    \o Flagged(p.references) \o Flagged(p.children)

ReadPropertyRecord(record) ==
  LET scalar     == EndOf(record, 4, 1)
      data       == EndOf(record, scalar, 1)
      references == EndOf(record, data, 2)
      children   == EndOf(record, references, 3)
  IN [rawId |-> record[1], index |-> record[2], boolean |-> FieldAt(record, 4, 1),
      scalar |-> FieldAt(record, scalar, 1), data |-> FieldAt(record, data, 2),
      references |-> FieldAt(record, references, 3), children |-> FieldAt(record, children, 5)]

(* lookup *)
Lookup(slot, id) ==
  LET key == <<"property", slot, id>>
  IN IF Has(kept, key) THEN ReadPropertyRecord(kept[key]) ELSE Nil

-----------------------------------------------------------------------------
(* #readStreams: where the three streams lie, none of their CompactIDs     *)
(* read.  A range is the place of its first unit and a length.             *)

StreamFault(data, at) ==
  CASE Short(data, at, 1)        -> "TRUNCATED_PROPERTY_SET"
    [] BadHeader(data[at])       -> "OBJECT_STREAM_HEADER"
    [] Short(data, at + 1, StreamCount(data[at])) -> "TRUNCATED_PROPERTY_SET"
    [] OTHER                     -> Ok

StreamAt(data, at) == <<at + 1, StreamCount(data[at])>>
AfterStream(data, at) == at + 1 + StreamCount(data[at])

LocateStreams(data) ==
  LET second == AfterStream(data, 1)
      third  == AfterStream(data, second)
      found  == [error |-> Ok, object |-> StreamAt(data, 1), objectSpace |-> Nil,
                 context |-> Nil, root |-> second]
  IN IF StreamFault(data, 1) /= Ok THEN [error |-> StreamFault(data, 1)]
     ELSE IF SpacesNotPresent(data[1]) THEN found
     ELSE IF StreamFault(data, second) /= Ok THEN [error |-> StreamFault(data, second)]
     ELSE IF ~ExtendedStreams(data[second])
     THEN [found EXCEPT !.objectSpace = StreamAt(data, second), !.root = third]
     ELSE IF StreamFault(data, third) /= Ok THEN [error |-> StreamFault(data, third)]
     ELSE [found EXCEPT !.objectSpace = StreamAt(data, second),
                        !.context = StreamAt(data, third), !.root = AfterStream(data, third)]

-----------------------------------------------------------------------------
(* #walk.  A place in a set is an offset and what has been taken of each   *)
(* stream; describing a property moves it past the property's value, and   *)
(* past nested sets by walking them without recording anything.            *)

Counters(c) == <<c.taken["object"], c.taken["objectSpace"], c.taken["context"]>>

DescribeScalar(data, c, p) ==
  LET width == Width[PropertyType(p.rawId)]
      units == SubSeq(data, c.at, c.at + width - 1)
      scalar == ScalarOf(units)
  IN IF Short(data, c.at, width) THEN Throw(c, "TRUNCATED_PROPERTY_SET")
     ELSE [c EXCEPT !.at = @ + width,
             !.property = [p EXCEPT !.data = <<c.at, width>>,
                                    !.scalar = IF scalar = Nil THEN Nil ELSE <<scalar>>]]

DescribeData(data, c, p) ==
  LET length == data[c.at]
  IN IF Short(data, c.at, 1) THEN Throw(c, "TRUNCATED_PROPERTY_SET")
     ELSE IF length >= MaxDataLength THEN Throw(c, "PROPERTY_DATA_LENGTH")
     ELSE IF Short(data, c.at + 1, length) THEN Throw(c, "TRUNCATED_PROPERTY_SET")
     ELSE [c EXCEPT !.at = @ + 1 + length, !.property = [p EXCEPT !.data = <<c.at + 1, length>>]]

(* #take: the identifiers are a place in the stream and a number. *)
Take(streams, c, p, count) ==
  LET kind == KindOf[PropertyType(p.rawId)]
      available == IF streams[kind] = Nil THEN 0 ELSE streams[kind][2]
      first == c.taken[kind]
  IN IF first > available - count THEN Throw(c, "REFERENCE_STREAM")
     ELSE [c EXCEPT !.taken[kind] = first + count,
             !.property = [p EXCEPT !.references = <<KindNumber[kind], first, count>>]]

DescribeReferences(data, streams, c, p) ==
  IF ~HasCount(PropertyType(p.rawId)) THEN Take(streams, c, p, 1)
  ELSE IF CountFault(data, c.at) /= Ok THEN Throw(c, CountFault(data, c.at))
  ELSE Take(streams, [c EXCEPT !.at = @ + 1], p, data[c.at])

(* Sets passed over one after another, each from where the last left off:  *)
(* pass gives what is left behind by the place and the depth of a set.     *)
PassSets(pass, c, count, depth) ==
  FoldLeft(LAMBDA st, i: IF Stopped(st) THEN st
                         ELSE pass[[at |-> st.at, taken |-> st.taken, depth |-> depth]],
           c, [i \in 1..count |-> i])

(* A property that holds sets remembers where the first begins and what    *)
(* was taken before it; the ones after it start from where it ends.        *)
DescribeSets(pass, c, p, count, depth) ==
  LET passed == PassSets(pass, c, count, depth + 1)
  IN [error |-> passed.error, at |-> passed.at, taken |-> passed.taken,
      property |-> [p EXCEPT !.children = <<count, c.at>> \o Counters(c)]]

DescribeSetArray(data, pass, c, p, depth) ==
  LET count == data[c.at]
  IN IF CountFault(data, c.at) /= Ok THEN Throw(c, CountFault(data, c.at))
     ELSE IF count = 0 THEN DescribeSets(pass, [c EXCEPT !.at = @ + 1], p, 0, depth)
     ELSE IF Short(data, c.at + 1, 1) THEN Throw(c, "TRUNCATED_PROPERTY_SET")
     ELSE IF PropertyType(data[c.at + 1]) /= OneSet THEN Throw(c, "PROPERTY_ARRAY_TYPE")
     ELSE DescribeSets(pass, [c EXCEPT !.at = @ + 2], p, count, depth)

Describe(data, streams, pass, c, rawId, i, depth) ==
  LET type == PropertyType(rawId)
      p == Blank(rawId, i)
  IN CASE type = 1              -> [c EXCEPT !.property = p]
       [] type = 2              -> [c EXCEPT !.property = [p EXCEPT !.boolean = <<IF TopBit(rawId) THEN 1 ELSE 0>>]]
       [] type \in DOMAIN Width -> DescribeScalar(data, c, p)
       [] type = 7              -> DescribeData(data, c, p)
       [] type \in DOMAIN KindOf -> DescribeReferences(data, streams, c, p)
       [] type = SetArray       -> DescribeSetArray(data, pass, c, p, depth)
       [] type = OneSet         -> DescribeSets(pass, c, p, 1, depth)
       [] OTHER                 -> Throw(c, "PROPERTY_TYPE")

SetFault(data, at, depth) ==
  CASE depth >= MaxSetDepth               -> "PROPERTY_DEPTH"
    [] Short(data, at, 1)                 -> "TRUNCATED_PROPERTY_SET"
    [] data[at] > MaxProperties           -> "PROPERTY_LIMIT"
    [] Short(data, at + 1, data[at])      -> "TRUNCATED_PROPERTY_SET"
    [] OTHER                              -> Ok

(* #walk without a slot. *)
Passing(data, streams) ==
  LET pass[from \in [at : Nat, taken : [Kinds -> Nat], depth : Nat]] ==
        LET c == [error |-> SetFault(data, from.at, from.depth), at |-> from.at,
                  taken |-> from.taken, property |-> Nil]
            count == Unit(data, from.at)
            Next1(st, i) == IF Stopped(st) THEN st
                            ELSE Describe(data, streams, pass, st, data[from.at + i], i, from.depth)
        IN IF Stopped(c) THEN c
           ELSE FoldLeft(Next1, [c EXCEPT !.at = @ + 1 + count], [i \in 1..count |-> i])
  IN pass

-----------------------------------------------------------------------------
StartOfSet(at, counters) ==
  [error |-> Ok, at |-> at, property |-> Nil,
   taken |-> ("object" :> counters[1]) @@ ("objectSpace" :> counters[2])
             @@ ("context" :> counters[3])]

Refused(object, path) ==
  unread' = unread \union {<<object, path>>} /\ walk' = NotWalking

(* The set's count and its raw identifiers; then its values, one by one.   *)
StartWalk(object, path, streams, place, depth) ==
  LET data == Value(object)
      fault == IF Stopped(place) THEN place.error ELSE SetFault(data, place.at, depth)
  IN IF fault /= Ok THEN Refused(object, path)
     ELSE /\ walk' = [object |-> object, path |-> path, slot |-> setSlots + 1,
                      streams |-> streams, depth |-> depth, ids |-> place.at,
                      count |-> Unit(data, place.at), position |-> 1,
                      place |-> [error |-> Ok, at |-> place.at + 1 + Unit(data, place.at),
                                 taken |-> place.taken, property |-> Nil]]
          /\ UNCHANGED unread

(* Mutant of OpenSet: the object is marked as walked before it has been.   *)
OpenSetMarked(object) ==
  /\ ~InWalk /\ Value(object) /= Nil /\ ~Has(kept, <<"parsed", object>>)
  /\ setSlots' = setSlots + 1
  /\ LET streams == LocateStreams(Value(object))
     IN IF Stopped(streams) THEN Refused(object, <<>>) /\ UNCHANGED kept
        ELSE /\ StartWalk(object, <<>>, streams, StartOfSet(streams.root, <<0, 0, 0>>), 0)
             /\ kept' = WithEntry(kept, <<"parsed", object>>, StreamsRecord(setSlots', streams))
  /\ UNCHANGED <<index, resolverVars, views>>

(* viewOf.  An object whose set was walked is answered from the record.    *)
OpenSet(object) ==
  /\ ~InWalk /\ Value(object) /= Nil /\ ~Has(kept, <<"parsed", object>>)
  /\ setSlots' = setSlots + 1
  /\ LET streams == LocateStreams(Value(object))
     IN IF Stopped(streams) THEN Refused(object, <<>>)
        ELSE StartWalk(object, <<>>, streams, StartOfSet(streams.root, <<0, 0, 0>>), 0)
  /\ UNCHANGED <<index, resolverVars, kept, views>>

(* childView: the sets before the one asked for are walked for their       *)
(* length alone.                                                           *)
OpenChild(view, id, position) ==
  LET children == Lookup(view.slot, id).children
      data == Value(view.object)
      first == StartOfSet(children[2], SubSeq(children, 3, 5))
  IN /\ ~InWalk /\ Lookup(view.slot, id) /= Nil /\ children /= Nil /\ position < children[1]
     /\ setSlots' = setSlots + 1
     /\ StartWalk(view.object, view.path \o <<<<id, position>>>>, view.streams,
                  PassSets(Passing(data, view.streams), first, position, 1), 1)
     /\ UNCHANGED <<index, resolverVars, kept, views>>

(* One value, and its descriptor over any other of the same identifier.    *)
WalkProperty ==
  /\ InWalk /\ walk.position <= walk.count
  /\ LET data == Value(walk.object)
         rawId == Unit(data, walk.ids + walk.position)
         after == Describe(data, walk.streams, Passing(data, walk.streams), walk.place, rawId,
                           walk.position, walk.depth)
     IN IF Stopped(after) THEN Refused(walk.object, walk.path) /\ UNCHANGED kept
        ELSE /\ kept' = WithEntry(kept, <<"property", walk.slot, PropertyId(rawId)>>,
                                  PropertyRecord(after.property))
             /\ walk' = [walk EXCEPT !.position = @ + 1, !.place = after]
             /\ UNCHANGED unread
  /\ UNCHANGED <<index, resolverVars, setSlots, views>>

EndWalk ==
  /\ InWalk /\ walk.position > walk.count
  /\ IF walk.path = <<>>
     THEN /\ kept' = WithEntry(kept, <<"parsed", walk.object>>, StreamsRecord(walk.slot, walk.streams))
          /\ UNCHANGED views
     ELSE /\ views' = Append(views, [object |-> walk.object, path |-> walk.path,
                                     slot |-> walk.slot, streams |-> walk.streams,
                                     ids |-> walk.ids])
          /\ UNCHANGED kept
  /\ walk' = NotWalking
  /\ UNCHANGED <<index, resolverVars, setSlots, unread>>

(* What the walk has recorded stays behind, in a slot nobody is given. *)
WalkFails ==
  /\ InWalk /\ failures < MaxFailures
  /\ failures' = failures + 1
  /\ walk' = NotWalking
  /\ UNCHANGED <<index, cells, slots, cache, request, search, kept, setSlots, views, unread>>

PropertyNext == WalkProperty \/ EndWalk \/ WalkFails

-----------------------------------------------------------------------------
(* What a page reads of a view. *)

View(object) ==
  LET record == ReadStreamsRecord(kept[<<"parsed", object>>])
  IN [object |-> object, path |-> <<>>, slot |-> record.slot, streams |-> record,
      ids |-> record.root]

Walked == {object \in DOMAIN index.objects : Has(kept, <<"parsed", object>>)}
Views == {View(object) : object \in Walked} \union Range(views)

Units(view, range) == SubSeq(Value(view.object), range[1], range[1] + range[2] - 1)

(* referenceAt: the CompactID at a computed place, and only then what it   *)
(* stands for.                                                             *)
ReferenceAt(view, references, n) ==
  LET kind == CHOOSE k \in Kinds : KindNumber[k] = references[1]
      compact == Value(view.object)[view.streams[kind][1] + references[2] + n - 1]
  IN GlobalId(index, ObjectAt(index, view.object).scope, compact)

ReferencesOf(view, p) == [n \in 1..p.references[3] |-> ReferenceAt(view, p.references, n)]

(* utf16Length and asciiLength: the trailing NULs are counted off from the *)
(* end, a window at a time.                                                *)
TextLength(text) ==
  LET length[end \in 0..Len(text)] ==
        IF end = 0 THEN 0
        ELSE LET from == IF end > WindowUnits THEN end - WindowUnits ELSE 0
                 kept0 == SelectLastInSeq(SubSeq(text, from + 1, end), LAMBDA unit: unit /= 0)
             IN IF kept0 > 0 \/ from = 0 THEN from + kept0 ELSE length[from]
  IN length[Len(text)]

(* utf16Text and asciiText: the pieces of a slice. *)
TextPieces(text, start, end) ==
  [i \in 1..((end - start + WindowUnits - 1) \div WindowUnits) |->
     LET from == start + (i - 1) * WindowUnits
     IN SubSeq(text, from + 1, IF from + WindowUnits < end THEN from + WindowUnits ELSE end)]

TextOf(view, range) ==
  LET text == Units(view, range)
  IN FlattenSeq(TextPieces(text, 0, TextLength(text)))

-----------------------------------------------------------------------------
(* A view says of every identifier of its set what the last property with  *)
(* it says, and knows no other identifier: nothing is missing of a set     *)
(* that is answered, and nothing of another set, finished or given up, is  *)
(* taken for its own.                                                      *)
RawIdOf(view, i) == Unit(Value(view.object), view.ids + i)
CountOf(view) == Unit(Value(view.object), view.ids)

SaysTheLast(view, i) ==
  LET id == PropertyId(RawIdOf(view, i))
  IN (\A j \in i + 1..CountOf(view) : PropertyId(RawIdOf(view, j)) /= id) =>
       /\ Has(kept, <<"property", view.slot, id>>)
       /\ Lookup(view.slot, id).rawId = RawIdOf(view, i)
       /\ Lookup(view.slot, id).index = i

ViewIsWhole(view) ==
  /\ \A i \in 1..CountOf(view) : SaysTheLast(view, i)
  /\ \A key \in DOMAIN kept :
       key[1] = "property" /\ key[2] = view.slot =>
         \E i \in 1..CountOf(view) : key[3] = PropertyId(RawIdOf(view, i))

(* Every view that is answered is whole, has its slot for itself, and the  *)
(* set of an object is the one its streams lead to.                        *)
ViewsAreWhole ==
  /\ \A view \in Views : ViewIsWhole(view) /\ view.slot \in 1..setSlots
  /\ \A view, other \in Views : view.slot = other.slot => view = other
  /\ \A object \in Walked : View(object).ids = LocateStreams(Value(object)).root
====
