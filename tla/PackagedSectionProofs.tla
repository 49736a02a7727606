------------------------ MODULE PackagedSectionProofs ------------------------
(***************************************************************************)
(* What PackagedSection keeps true for every package: the tables of the    *)
(* index fit together, a space that is remembered was replayed whole, and  *)
(* a table of identifiers that is marked complete is.                      *)
(***************************************************************************)
EXTENDS PackagedSection, SpaceResolverProofs

-----------------------------------------------------------------------------
(* The tables of the index.  Every object is one of a revision, and a      *)
(* revision puts one object together for an identity.                      *)

ObjectFields == {"id", "jcid", "referenceCount", "revision", "revisionId", "isRevision",
                 "properties", "objectReferences", "cellReferences", "blob"}

OneForAnIdentity(ix) ==
  /\ ix.encoding = "file-synchronization-package"
  /\ \A o \in DOMAIN ix.objects :
       DOMAIN ix.objects[o] = ObjectFields /\ ix.objects[o].revision \in DOMAIN ix.revisions
  /\ \A o, p \in DOMAIN ix.objects :
       ix.objects[o].revision = ix.objects[p].revision /\ ix.objects[o].id = ix.objects[p].id
         => o = p

TablesFit(ix, tb) ==
  /\ DOMAIN tb = {"manifestMappings", "cellMappings", "revisionMappings", "manifestRoots",
                  "cellManifests", "revisionOfElement", "revisionGroups", "groups",
                  "groupByElement"}
  /\ Sequential(tb.groups) /\ Sequential(tb.revisionGroups)
  /\ Len(tb.revisionGroups) = Len(ix.revisions)
  /\ \A e \in DOMAIN tb.revisionOfElement : tb.revisionOfElement[e] \in DOMAIN ix.revisions

(* Where the indexer is, at a depth of the walk.  It is in an element from *)
(* the third object down, in a section of an object group only, and in a   *)
(* revision manifest it is filling the revision added last.                *)
ReaderFits(ix, tb, rd, depth) ==
  /\ DOMAIN rd = {"sawPackage", "inPackage", "sawIndex", "sawManifest", "element", "section"}
  /\ DOMAIN rd.element = {"id", "type", "children", "group", "revision"}
  /\ rd.element.children \in Nat /\ rd.element.revision \in 0..Len(ix.revisions)
  /\ depth < 3 => rd.element = NoElement /\ rd.section = Nil
  /\ rd.element.type = "ObjectGroup" => rd.element.group \in DOMAIN tb.groups
  /\ rd.section /= Nil => rd.element.type = "ObjectGroup"
  /\ rd.element.type = "RevisionManifest" /\ rd.element.children > 0
       => rd.element.revision = Len(ix.revisions) /\ rd.element.revision > 0

PackageSound(ix) == IndexSound(ix) /\ OneForAnIdentity(ix)

IndexerSound ==
  /\ PackageSound(index) /\ TablesFit(index, tables) /\ ReaderFits(index, tables, reader, Depth)
  /\ Sequential(open) /\ Depth <= MaxDepth + 1

(* Until every revision has its place, nothing has been asked. *)
Unasked ==
  /\ slots = <<>> /\ cache = <<>> /\ request = Idle /\ search = NotSearching
  /\ paired = <<>> /\ built = {} /\ refused = {} /\ pairing = NotPairing
PhaseSound ==
  /\ phase \in {"walk", "merge", "placed", "done", "failed"}
  /\ phase = "failed" <=> fault /= Ok
  /\ phase /= "done" => Unasked
  /\ DOMAIN assigning = {"position", "revision", "visited", "order", "inChain"}
  /\ assigning.revision \in 0..Len(index.revisions)
  /\ DOMAIN cells \subseteq DOMAIN index.revisions

-----------------------------------------------------------------------------
(* The cells.  A chain has an order, and only its head is associated by it, *)
(* once: the order in use has been given out when the head has its place.  *)

CellsSound ==
  /\ assigning.order \in Nat
  /\ \A r \in DOMAIN cells : Sequential(cells[r].associations)
  /\ \A r \in DOMAIN cells : \A a \in Range(cells[r].associations) :
       /\ a.order \in Nat /\ a.order <= assigning.order
       /\ a.order = assigning.order => assigning.inChain /\ assigning.visited /= {}
  /\ \A r, s \in DOMAIN cells :
       \A a \in Range(cells[r].associations), b \in Range(cells[s].associations) :
         a.order = b.order => r = s

-----------------------------------------------------------------------------
(* The tables of identifiers. *)

PairingSound ==
  /\ built \union refused \union DOMAIN paired \subseteq DOMAIN index.objects
  /\ \A object \in refused : \E n \in DOMAIN Streams(object) : \E position \in Nat \ {0} :
       Misfit(object, Streams(object)[n], position)
  /\ DOMAIN pairing = {"object", "stream", "position"}
  /\ pairing /= NotPairing =>
       LET streams == Streams(pairing.object)
       IN /\ pairing.object \in DOMAIN index.objects \ built
          /\ pairing.stream \in 1..Len(streams) + 1 /\ pairing.position \in Nat \ {0}
          /\ \A n \in 1..pairing.stream - 1 : Complete(pairing.object, streams[n])
          /\ \A position \in 1..pairing.position - 1 :
               pairing.stream \in DOMAIN streams
                 /\ Settled(pairing.object, streams[pairing.stream], position)

Answers == SlotsSound /\ SpacesAreWhole /\ RequestSound /\ MarksAreTrue /\ PairingSound

IInv == IndexerSound /\ PhaseSound /\ CellsSound /\ Answers

-----------------------------------------------------------------------------
(* What the operations of the index keep. *)

LEMMA AddRevisionKeeps ==
  ASSUME NEW ix, PackageSound(ix), NEW id, NEW dependency, NEW role, NEW encrypted, NEW context,
         NEW space
  PROVE  LET after == AddRevision(ix, id, dependency, role, encrypted, context, space)
         IN PackageSound(after) /\ Len(after.revisions) = Len(ix.revisions) + 1
<1> DEFINE after == AddRevision(ix, id, dependency, role, encrypted, context, space)
<1>1. /\ IndexSound(after) /\ Len(after.revisions) = Len(ix.revisions) + 1
      /\ \A r \in DOMAIN ix.revisions : r \in DOMAIN after.revisions
      /\ after.objects = ix.objects /\ after.encoding = ix.encoding
  BY AddRevisionSound DEF PackageSound
<1> HIDE DEF after
<1>2. OneForAnIdentity(after)
  BY <1>1 DEF PackageSound, OneForAnIdentity
<1>. QED  BY <1>1, <1>2 DEF PackageSound, after

LEMMA AddRootKeeps ==
  ASSUME NEW ix, PackageSound(ix), NEW revision \in DOMAIN ix.revisions, NEW object, NEW role
  PROVE  LET after == AddRootObject(ix, revision, object, role)
         IN PackageSound(after) /\ Len(after.revisions) = Len(ix.revisions)
<1> DEFINE after == AddRootObject(ix, revision, object, role)
<1>1. /\ IndexSound(after) /\ Len(after.revisions) = Len(ix.revisions)
      /\ DOMAIN after.revisions = DOMAIN ix.revisions
      /\ after.objects = ix.objects /\ after.encoding = ix.encoding
  BY AddRootSound DEF PackageSound
<1> HIDE DEF after
<1>2. OneForAnIdentity(after)
  BY <1>1 DEF PackageSound, OneForAnIdentity
<1>. QED  BY <1>1, <1>2 DEF PackageSound, after

LEMMA AddFileDataKeeps ==
  ASSUME NEW ix, PackageSound(ix), NEW key, NEW payload
  PROVE  LET after == AddFileData(ix, key, payload)
         IN PackageSound(after) /\ after.revisions = ix.revisions
<1> DEFINE after == AddFileData(ix, key, payload)
<1>1. /\ IndexSound(after) /\ after.revisions = ix.revisions
      /\ after.objects = ix.objects /\ after.encoding = ix.encoding
  BY AddFileDataSound DEF PackageSound
<1> HIDE DEF after
<1>2. OneForAnIdentity(after)
  BY <1>1 DEF PackageSound, OneForAnIdentity
<1>. QED  BY <1>1, <1>2 DEF PackageSound, after

LEMMA AddObjectKeeps ==
  ASSUME NEW ix, PackageSound(ix), NEW object, DOMAIN object = ObjectFields,
         object.revision \in DOMAIN ix.revisions,
         \A o \in DOMAIN ix.objects :
           ix.objects[o].revision = object.revision => ix.objects[o].id # object.id
  PROVE  LET after == AddObject(ix, object)
         IN /\ PackageSound(after) /\ Len(after.revisions) = Len(ix.revisions)
            /\ Len(after.objects) \in DOMAIN after.objects
            /\ after.objects[Len(after.objects)] = object
<1> DEFINE after == AddObject(ix, object)
           n == Len(ix.objects)
<1>1. /\ IndexSound(after) /\ Len(after.revisions) = Len(ix.revisions)
      /\ DOMAIN after.revisions = DOMAIN ix.revisions
      /\ Len(after.objects) = n + 1 /\ DOMAIN after.objects = 1..n + 1
      /\ \A o \in DOMAIN ix.objects : o \in 1..n /\ after.objects[o] = ix.objects[o]
      /\ after.objects[n + 1] = object /\ after.encoding = ix.encoding
  BY AddObjectSound DEF PackageSound
<1>2. n \in Nat /\ DOMAIN ix.objects = 1..n
  BY SequentialIsSeq DEF PackageSound, IndexSound, IndexShape
<1> HIDE DEF after, n
<1>3. OneForAnIdentity(after)
  <2>1. ASSUME NEW o \in DOMAIN after.objects
        PROVE  /\ DOMAIN after.objects[o] = ObjectFields
               /\ after.objects[o].revision \in DOMAIN after.revisions
    <3>1. CASE o \in DOMAIN ix.objects
      BY <1>1, <3>1 DEF PackageSound, OneForAnIdentity
    <3>2. CASE o = n + 1
      BY <1>1, <3>2
    <3>. QED  BY <1>1, <1>2, <3>1, <3>2
  <2>2. ASSUME NEW o \in DOMAIN after.objects, NEW p \in DOMAIN after.objects,
               after.objects[o].revision = after.objects[p].revision,
               after.objects[o].id = after.objects[p].id
        PROVE  o = p
    <3>1. CASE o \in 1..n /\ p \in 1..n
      BY <1>1, <1>2, <2>2, <3>1 DEF PackageSound, OneForAnIdentity
    <3>2. CASE o = n + 1 /\ p \in 1..n
      BY <1>1, <1>2, <2>2, <3>2
    <3>3. CASE o \in 1..n /\ p = n + 1
      BY <1>1, <1>2, <2>2, <3>3
    <3>. QED  BY <1>1, <1>2, <3>1, <3>2, <3>3
  <2>. QED  BY <1>1, <2>1, <2>2 DEF PackageSound, OneForAnIdentity
<1>. QED  BY <1>1, <1>2, <1>3 DEF PackageSound, after, n

LEMMA UpdateObjectKeeps ==
  ASSUME NEW ix, PackageSound(ix), NEW order \in DOMAIN ix.objects, NEW object,
         DOMAIN object = ObjectFields, object.id = ix.objects[order].id,
         object.revision = ix.objects[order].revision
  PROVE  LET after == UpdateObject(ix, order, object)
         IN PackageSound(after) /\ after.revisions = ix.revisions
<1> DEFINE after == UpdateObject(ix, order, object)
<1>1. /\ IndexSound(after) /\ after.revisions = ix.revisions
      /\ DOMAIN after.objects = DOMAIN ix.objects
      /\ \A o \in DOMAIN ix.objects :
           after.objects[o] = IF o = order THEN object ELSE ix.objects[o]
      /\ after.encoding = ix.encoding
  BY UpdateObjectSound DEF PackageSound
<1> HIDE DEF after
<1>2. OneForAnIdentity(after)
  BY <1>1 DEF PackageSound, OneForAnIdentity
<1>. QED  BY <1>1, <1>2 DEF PackageSound, after

-----------------------------------------------------------------------------
(* The indexer. *)

\* An event that is taken leaves what its handler made, one object deeper when it opens one;
\* one that is refused leaves everything.
LEMMA TakeKeeps ==
  ASSUME IndexerSound, NEW depth, Starts(depth), NEW code, NEW ix, NEW tb, NEW rd,
         Take(code, ix, tb, rd),
         code = Ok => /\ PackageSound(ix) /\ TablesFit(ix, tb) /\ Len(index.revisions) <= Len(ix.revisions)
                      /\ ReaderFits(ix, tb, rd, IF Header.compound THEN depth + 1 ELSE depth)
  PROVE  /\ IndexerSound' /\ Len(index.revisions) <= Len(index'.revisions)
         /\ (phase' = phase /\ fault' = fault) \/ (phase' = "failed" /\ fault' # Ok)
<1>1. /\ depth = Len(open) /\ Sequential(open) /\ Len(open) \in Nat
      /\ Walking /\ FrameFault = Ok
  BY SequentialIsSeq DEF Starts, Depth, IndexerSound
<1>2. MaxDepth \in Nat
  BY DepthAssumption
<1>3. Len(open) <= MaxDepth
  <2>1. CASE Len(open) > MaxDepth
    <3>1. FrameFault # Ok
      BY <2>1 DEF FrameFault, Depth, Ok
    <3>. QED  BY <1>1, <3>1
  <2>. QED  BY <1>1, <1>2, <2>1
<1>4. CASE code = Ok
  <2>1. /\ index' = ix /\ tables' = tb /\ reader' = rd /\ phase' = phase /\ fault' = fault
        /\ open' = IF Header.compound THEN Append(open, Header.type) ELSE open
    BY <1>4 DEF Take
  <2>2. /\ Sequential(open') /\ Len(open') = IF Header.compound THEN depth + 1 ELSE depth
        /\ Len(open') <= MaxDepth + 1
    BY <1>1, <1>2, <1>3, <2>1, AppendSequence
  <2>. QED  BY <1>4, <2>1, <2>2 DEF IndexerSound, Depth
<1>5. CASE code # Ok
  <2>1. /\ UNCHANGED <<index, tables, reader, open>> /\ phase' = "failed" /\ fault' = code
    BY <1>5 DEF Take, Fail
  <2>2. Len(index.revisions) \in Nat
    BY SequentialIsSeq DEF IndexerSound, PackageSound, IndexSound, IndexShape
  <2>3. IndexerSound'
    BY <2>1 DEF IndexerSound, Depth
  <2>. QED  BY <1>5, <2>1, <2>2, <2>3
<1>. QED  BY <1>4, <1>5

\* A child more of the element it is in, with the tables grown or not.
LEMMA CountedFits ==
  ASSUME NEW ix, NEW tb, NEW depth, IndexerSound, depth >= 3, depth \in Nat, Depth >= 3, Depth \in Nat,
         Len(ix.revisions) = Len(index.revisions), DOMAIN tb.groups = DOMAIN tables.groups,
         Element.type = "RevisionManifest" => Element.children > 0
  PROVE  ReaderFits(ix, tb, Counted, depth)
<1>1. /\ Counted.element = [reader.element EXCEPT !.children = @ + 1]
      /\ Counted.section = reader.section /\ DOMAIN Counted = DOMAIN reader
  BY DEF Counted, IndexerSound, ReaderFits
<1>2. /\ Counted.element.children = reader.element.children + 1
      /\ Counted.element.type = reader.element.type /\ Counted.element.group = reader.element.group
      /\ Counted.element.revision = reader.element.revision
      /\ DOMAIN Counted.element = DOMAIN reader.element
  BY <1>1 DEF IndexerSound, ReaderFits
<1> HIDE DEF Counted
<1>. QED  BY <1>1, <1>2 DEF IndexerSound, ReaderFits, Element

LEMMA ReadPackagingKeeps ==
  ASSUME IndexerSound, ReadPackaging \/ StartPackage
  PROVE  /\ IndexerSound' /\ Len(index.revisions) <= Len(index'.revisions)
         /\ (phase' = phase /\ fault' = fault) \/ (phase' = "failed" /\ fault' # Ok)
<1>1. /\ Len(index.revisions) \in Nat
      /\ reader.element = NoElement \/ Depth \notin 0..2
      /\ reader.section = Nil \/ Depth \notin 0..2
  BY SequentialIsSeq DEF IndexerSound, PackageSound, IndexSound, IndexShape, ReaderFits
<1>2. CASE ReadPackaging
  <2>1. Starts(0) /\ Take(Ok, index, tables, reader) /\ Depth = 0
    BY <1>2 DEF ReadPackaging, Starts
  <2>2. ReaderFits(index, tables, reader, IF Header.compound THEN 0 + 1 ELSE 0)
    BY <2>1 DEF IndexerSound, ReaderFits
  <2>. QED  BY <1>1, <2>1, <2>2, TakeKeeps DEF IndexerSound
<1>3. CASE StartPackage
  <2> DEFINE entered == [reader EXCEPT !.sawPackage = TRUE, !.inPackage = TRUE]
  <2>1. Starts(1) /\ Depth = 1
    BY <1>3 DEF StartPackage, Starts
  <2>2. /\ ReaderFits(index, tables, reader, IF Header.compound THEN 1 + 1 ELSE 1)
        /\ ReaderFits(index, tables, entered, IF Header.compound THEN 1 + 1 ELSE 1)
    BY <2>1 DEF IndexerSound, ReaderFits
  <2>3. PICK code \in {Ok, "MISSING_STRUCTURE"}, rd \in {reader, entered} :
          Take(code, index, tables, rd)
    BY <1>3 DEF StartPackage
  <2> HIDE DEF entered
  <2>. QED  BY <1>1, <2>1, <2>2, <2>3, TakeKeeps DEF IndexerSound
<1>. QED  BY <1>2, <1>3

LEMMA BeginElementKeeps ==
  ASSUME IndexerSound, BeginElement
  PROVE  /\ IndexerSound' /\ Len(index.revisions) <= Len(index'.revisions)
         /\ (phase' = phase /\ fault' = fault) \/ (phase' = "failed" /\ fault' # Ok)
<1> DEFINE id == Header.body.id
           type == Header.body.type
           group == Len(tables.groups) + 1
           element == [NoElement EXCEPT !.id = id, !.type = type,
                                        !.group = IF type = "ObjectGroup" THEN group ELSE 0]
           entered == [reader EXCEPT !.element = element,
                                     !.sawIndex = @ \/ type = "StorageIndex",
                                     !.sawManifest = @ \/ type = "StorageManifest"]
           tb == IF type = "ObjectGroup"
                 THEN [tables EXCEPT !.groups = Append(@, [declarations |-> <<>>, data |-> <<>>]),
                                     !.groupByElement = WithEntry(@, id, group)]
                 ELSE tables
           rd == IF Header.compound THEN entered ELSE Leave(entered)
<1>1. PICK code : Take(code, index, tb, rd)
  BY DEF BeginElement
<1>2. Starts(2) /\ Depth = 2
  BY DEF BeginElement, Starts
<1>3. Len(index.revisions) \in Nat /\ Len(tables.groups) \in Nat
  BY SequentialIsSeq DEF IndexerSound, PackageSound, IndexSound, IndexShape, TablesFit
<1>4. TablesFit(index, tb) /\ (type = "ObjectGroup" => group \in DOMAIN tb.groups)
  <2>1. CASE type # "ObjectGroup"
    BY <2>1 DEF IndexerSound
  <2>2. CASE type = "ObjectGroup"
    <3> DEFINE new == [declarations |-> <<>>, data |-> <<>>]
    <3>1. /\ tb.groups = Append(tables.groups, new) /\ DOMAIN tb = DOMAIN tables
          /\ tb.revisionGroups = tables.revisionGroups
          /\ tb.revisionOfElement = tables.revisionOfElement
      BY <2>2 DEF IndexerSound, TablesFit
    <3> HIDE DEF new, tb
    <3>2. Sequential(tb.groups) /\ group \in DOMAIN tb.groups
      BY <1>3, <3>1, AppendSequence DEF IndexerSound, TablesFit
    <3>. QED  BY <3>1, <3>2 DEF IndexerSound, TablesFit
  <2>. QED  BY <2>1, <2>2
<1>5. ReaderFits(index, tb, rd, IF Header.compound THEN 2 + 1 ELSE 2)
  <2>1. /\ DOMAIN reader = {"sawPackage", "inPackage", "sawIndex", "sawManifest", "element",
                            "section"}
        /\ reader.section = Nil
    BY <1>2 DEF IndexerSound, ReaderFits
  <2>2. /\ element.children = 0 /\ element.type = type /\ element.revision = 0
        /\ element.group = IF type = "ObjectGroup" THEN group ELSE 0
        /\ DOMAIN element = {"id", "type", "children", "group", "revision"}
    BY DEF NoElement
  <2>3. /\ NoElement.children = 0 /\ NoElement.type = Nil /\ NoElement.revision = 0
        /\ DOMAIN NoElement = {"id", "type", "children", "group", "revision"}
        /\ Nil \notin {"ObjectGroup", "RevisionManifest"}
    BY NoTypeAssumption DEF NoElement, ElementTypes, NeedsChild
  <2> HIDE DEF element
  <2>4. CASE Header.compound
    <3>1. /\ rd.element = element /\ rd.section = Nil /\ DOMAIN rd = DOMAIN reader
      BY <2>1, <2>4
    <3> HIDE DEF rd, tb, type, group
    <3>. QED  BY <1>3, <1>4, <2>1, <2>2, <2>4, <3>1 DEF ReaderFits
  <2>5. CASE ~Header.compound
    <3>1. /\ rd.element = NoElement /\ rd.section = Nil /\ DOMAIN rd = DOMAIN reader
      BY <2>1, <2>5 DEF Leave
    <3> HIDE DEF rd, tb, type, group
    <3>. QED  BY <1>3, <1>4, <2>1, <2>3, <2>5, <3>1 DEF ReaderFits
  <2>. QED  BY <2>4, <2>5
<1> HIDE DEF rd, tb
<1>. QED  BY <1>1, <1>2, <1>3, <1>4, <1>5, TakeKeeps DEF IndexerSound

\* What a handler of a child leaves, when only tables that stand alone have grown.
LEMMA ChildKeeps ==
  ASSUME IndexerSound, Starts(3), NEW code, NEW tb, Take(code, index, tb, Counted),
         Element.type = "RevisionManifest" => Element.children > 0,
         DOMAIN tb = DOMAIN tables, tb.groups = tables.groups,
         tb.revisionGroups = tables.revisionGroups,
         tb.revisionOfElement = tables.revisionOfElement
  PROVE  /\ IndexerSound' /\ Len(index.revisions) <= Len(index'.revisions)
         /\ (phase' = phase /\ fault' = fault) \/ (phase' = "failed" /\ fault' # Ok)
<1>1. Depth = 3 /\ Len(index.revisions) \in Nat
  BY SequentialIsSeq DEF Starts, IndexerSound, PackageSound, IndexSound, IndexShape
<1>2. TablesFit(index, tb)
  BY DEF IndexerSound, TablesFit
<1>3. ReaderFits(index, tb, Counted, IF Header.compound THEN 3 + 1 ELSE 3)
  BY <1>1, CountedFits
<1>. QED  BY <1>1, <1>2, <1>3, TakeKeeps DEF IndexerSound

LEMMA ReadChildKeeps ==
  ASSUME IndexerSound, ReadStorageIndexMapping \/ ReadStorageManifestChild \/ ReadCellManifest
  PROVE  /\ IndexerSound' /\ Len(index.revisions) <= Len(index'.revisions)
         /\ (phase' = phase /\ fault' = fault) \/ (phase' = "failed" /\ fault' # Ok)
<1> DEFINE Alike(tb) == /\ DOMAIN tb = DOMAIN tables /\ tb.groups = tables.groups
                        /\ tb.revisionGroups = tables.revisionGroups
                        /\ tb.revisionOfElement = tables.revisionOfElement
<1>1. /\ \A new : Alike([tables EXCEPT !.manifestMappings = new])
      /\ \A new : Alike([tables EXCEPT !.cellMappings = new])
      /\ \A new : Alike([tables EXCEPT !.revisionMappings = new])
      /\ \A new : Alike([tables EXCEPT !.manifestRoots = new])
      /\ \A new : Alike([tables EXCEPT !.cellManifests = new])
      /\ Alike(tables)
  BY DEF IndexerSound, TablesFit
<1> HIDE DEF Alike
<1>2. CASE ReadStorageIndexMapping
  <2> DEFINE tb == CASE Header.type = "StorageIndexManifestMapping" ->
                          [tables EXCEPT !.manifestMappings = Append(@, Header.body)]
                     [] Header.type = "StorageIndexCellMapping" ->
                          [tables EXCEPT !.cellMappings = Append(@, Header.body)]
                     [] OTHER -> [tables EXCEPT !.revisionMappings = Append(@, Header.body)]
  <2>1. Alike(tb)
    BY <1>1
  <2>2. /\ Starts(3) /\ Element.type = "StorageIndex"
        /\ Take(ShapeFault(Header, IndexMappings), index, tb, Counted)
    BY <1>2 DEF ReadStorageIndexMapping, InElement
  <2> HIDE DEF tb
  <2>. QED  BY <2>1, <2>2, ChildKeeps DEF Alike
<1>3. CASE ReadStorageManifestChild
  <2>1. /\ Starts(3) /\ Element.type = "StorageManifest"
        /\ \E code : \E tb : Alike(tb) /\ Take(code, index, tb, Counted)
    BY <1>1, <1>3 DEF ReadStorageManifestChild, InElement
  <2>. QED  BY <2>1, ChildKeeps DEF Alike
<1>4. CASE ReadCellManifest
  <2>1. /\ Starts(3) /\ Element.type = "CellManifest"
        /\ \E code : \E tb : Alike(tb) /\ Take(code, index, tb, Counted)
    BY <1>1, <1>4 DEF ReadCellManifest, InElement
  <2>. QED  BY <2>1, ChildKeeps DEF Alike
<1>. QED  BY <1>2, <1>3, <1>4

LEMMA ReadRevisionManifestKeeps ==
  ASSUME IndexerSound, ReadRevisionManifest
  PROVE  /\ IndexerSound' /\ Len(index.revisions) <= Len(index'.revisions)
         /\ (phase' = phase /\ fault' = fault) \/ (phase' = "failed" /\ fault' # Ok)
<1> DEFINE order == Len(index.revisions) + 1
           ix == AddRevision(index, Header.body.revision, Optional(Header.body.base), 0, FALSE,
                             Nil, Nil)
           tb == [tables EXCEPT !.revisionOfElement = WithEntry(@, Element.id, order),
                                !.revisionGroups = Append(@, <<>>)]
           rd == [Counted EXCEPT !.element.revision = order]
<1>1. /\ Starts(3) /\ Depth = 3 /\ Element.type = "RevisionManifest" /\ Element.children = 0
      /\ Take(ShapeFault(Header, {"RevisionManifest"}), ix, tb, rd)
  BY DEF ReadRevisionManifest, InElement, Starts
<1>2. Len(index.revisions) \in Nat /\ DOMAIN index.revisions = 1..Len(index.revisions)
  BY SequentialIsSeq DEF IndexerSound, PackageSound, IndexSound, IndexShape
<1>3. PackageSound(ix) /\ Len(ix.revisions) = order
  <2>1. PackageSound(index)
    BY DEF IndexerSound
  <2>2. \A id, dependency, role, encrypted, context, space :
          LET after == AddRevision(index, id, dependency, role, encrypted, context, space)
          IN PackageSound(after) /\ Len(after.revisions) = Len(index.revisions) + 1
    BY <2>1, AddRevisionKeeps
  <2>. QED  BY <2>2, Zenon
<1>4. DOMAIN ix.revisions = 1..order
  BY <1>3, SequentialIsSeq DEF PackageSound, IndexSound, IndexShape
<1> HIDE DEF ix
<1>5. TablesFit(ix, tb)
  <2>1. /\ DOMAIN tb = DOMAIN tables /\ tb.groups = tables.groups
        /\ tb.revisionGroups = Append(tables.revisionGroups, <<>>)
        /\ tb.revisionOfElement = WithEntry(tables.revisionOfElement, Element.id, order)
    BY DEF IndexerSound, TablesFit
  <2> HIDE DEF tb
  <2>2. Sequential(tb.revisionGroups) /\ Len(tb.revisionGroups) = order
    BY <2>1, AppendSequence DEF IndexerSound, TablesFit
  <2>3. \A e \in DOMAIN tb.revisionOfElement : tb.revisionOfElement[e] \in 1..order
    BY <1>2, <2>1 DEF IndexerSound, TablesFit, WithEntry
  <2>. QED  BY <1>3, <1>4, <2>1, <2>2, <2>3 DEF IndexerSound, TablesFit
<1>6. tb.groups = tables.groups
  BY DEF IndexerSound, TablesFit
<1>7. \A depth \in {3, 4} : ReaderFits(ix, tb, rd, depth)
  <2>1. /\ DOMAIN Counted = DOMAIN reader /\ Counted.section = reader.section
        /\ Counted.element = [reader.element EXCEPT !.children = @ + 1]
    BY DEF Counted, IndexerSound, ReaderFits
  <2>2. /\ Counted.element.children = reader.element.children + 1
        /\ Counted.element.type = reader.element.type
        /\ DOMAIN Counted.element = DOMAIN reader.element
    BY <2>1 DEF IndexerSound, ReaderFits
  <2>3. /\ DOMAIN rd = DOMAIN reader /\ rd.section = reader.section
        /\ rd.element = [Counted.element EXCEPT !.revision = order]
    BY <2>1 DEF IndexerSound, ReaderFits
  <2>4. /\ rd.element.children = reader.element.children + 1
        /\ rd.element.type = reader.element.type /\ rd.element.revision = order
        /\ DOMAIN rd.element = DOMAIN reader.element
    BY <2>2, <2>3 DEF IndexerSound, ReaderFits
  <2>5. reader.section = Nil
    BY <1>1 DEF IndexerSound, ReaderFits, Element
  <2> HIDE DEF rd, tb
  <2>6. order \in Nat /\ rd.element.type # "ObjectGroup"
    BY <1>1, <1>2, <2>4 DEF Element
  <2>. QED  BY <1>3, <2>3, <2>4, <2>5, <2>6 DEF IndexerSound, ReaderFits
<1> HIDE DEF tb, rd
<1>8. ReaderFits(ix, tb, rd, IF Header.compound THEN 3 + 1 ELSE 3)
  BY <1>7
<1>. QED  BY <1>1, <1>2, <1>3, <1>5, <1>8, TakeKeeps

LEMMA ReadManifestChildKeeps ==
  ASSUME IndexerSound, ReadRevisionManifestChild
  PROVE  /\ IndexerSound' /\ Len(index.revisions) <= Len(index'.revisions)
         /\ (phase' = phase /\ fault' = fault) \/ (phase' = "failed" /\ fault' # Ok)
<1> DEFINE shape == ShapeFault(Header, {"RevisionManifestRootDeclare",
                                        "RevisionManifestObjectGroupReference"})
           ix == AddRootObject(index, Element.revision, Header.body.object, Header.body.role)
           tb == [tables EXCEPT !.revisionGroups[Element.revision] = Append(@, Header.body)]
<1>1. /\ Starts(3) /\ Depth = 3 /\ Element.type = "RevisionManifest" /\ Element.children > 0
      /\ Take(shape, ix, tables, Counted) \/ Take(shape, index, tb, Counted)
  BY DEF ReadRevisionManifestChild, InElement, Starts
<1> HIDE DEF shape
<1>2. Len(index.revisions) \in Nat /\ DOMAIN index.revisions = 1..Len(index.revisions)
  BY SequentialIsSeq DEF IndexerSound, PackageSound, IndexSound, IndexShape
<1>3. Element.revision \in DOMAIN index.revisions
  <2>1. Element.revision = Len(index.revisions) /\ Element.revision > 0
    BY <1>1 DEF IndexerSound, ReaderFits, Element
  <2>. QED  BY <1>2, <2>1
<1>4. PackageSound(ix) /\ Len(ix.revisions) = Len(index.revisions)
  BY <1>3, AddRootKeeps DEF IndexerSound
<1> HIDE DEF ix
<1>5. TablesFit(ix, tables)
  <2>1. DOMAIN ix.revisions = DOMAIN index.revisions
    BY <1>2, <1>4, SequentialIsSeq DEF PackageSound, IndexSound, IndexShape
  <2>. QED  BY <1>4, <2>1 DEF IndexerSound, TablesFit
<1>6. TablesFit(index, tb) /\ tb.groups = tables.groups
  <2>1. /\ DOMAIN tb = DOMAIN tables /\ tb.groups = tables.groups
        /\ \E new : tb.revisionGroups = [tables.revisionGroups EXCEPT ![Element.revision] = new]
        /\ tb.revisionOfElement = tables.revisionOfElement
    BY DEF IndexerSound, TablesFit
  <2> HIDE DEF tb
  <2>2. Element.revision \in DOMAIN tables.revisionGroups
    BY <1>2, <1>3, SequentialIsSeq DEF IndexerSound, TablesFit
  <2>3. Sequential(tb.revisionGroups) /\ Len(tb.revisionGroups) = Len(tables.revisionGroups)
    BY <2>1, <2>2, ReplaceInSequence DEF IndexerSound, TablesFit
  <2>. QED  BY <2>1, <2>3 DEF IndexerSound, TablesFit
<1>7. /\ ReaderFits(ix, tables, Counted, IF Header.compound THEN 3 + 1 ELSE 3)
      /\ ReaderFits(index, tb, Counted, IF Header.compound THEN 3 + 1 ELSE 3)
  <2> HIDE DEF tb
  <2>. QED  BY <1>1, <1>4, <1>6, CountedFits
<1> HIDE DEF tb
<1>. QED  BY <1>1, <1>2, <1>4, <1>5, <1>6, <1>7, TakeKeeps DEF IndexerSound

LEMMA ReadBlobKeeps ==
  ASSUME IndexerSound, ReadBlob
  PROVE  /\ IndexerSound' /\ Len(index.revisions) <= Len(index'.revisions)
         /\ (phase' = phase /\ fault' = fault) \/ (phase' = "failed" /\ fault' # Ok)
<1> DEFINE ix == AddFileData(index, Element.id, Header.body)
<1>1. /\ Starts(3) /\ Depth = 3 /\ Element.type = "ObjectDataBlob"
      /\ \E code : Take(code, ix, tables, Counted) \/ Take(code, index, tables, Counted)
  BY DEF ReadBlob, InElement, Starts
<1>2. Len(index.revisions) \in Nat
  BY SequentialIsSeq DEF IndexerSound, PackageSound, IndexSound, IndexShape
<1>3. PackageSound(ix) /\ ix.revisions = index.revisions
  BY AddFileDataKeeps DEF IndexerSound
<1> HIDE DEF ix
<1>4. TablesFit(ix, tables)
  BY <1>3 DEF IndexerSound, TablesFit
<1>5. /\ ReaderFits(ix, tables, Counted, IF Header.compound THEN 3 + 1 ELSE 3)
      /\ ReaderFits(index, tables, Counted, IF Header.compound THEN 3 + 1 ELSE 3)
  BY <1>1, <1>3, CountedFits
<1>. QED  BY <1>1, <1>2, <1>3, <1>4, <1>5, TakeKeeps DEF IndexerSound

LEMMA OpenSectionKeeps ==
  ASSUME IndexerSound, OpenSection
  PROVE  /\ IndexerSound' /\ Len(index.revisions) <= Len(index'.revisions)
         /\ (phase' = phase /\ fault' = fault) \/ (phase' = "failed" /\ fault' # Ok)
<1> DEFINE rd == [Counted EXCEPT !.section = Header.type]
<1>1. /\ Starts(3) /\ Depth = 3 /\ Element.type = "ObjectGroup"
      /\ \E code : Take(code, index, tables, rd)
  BY DEF OpenSection, InElement, Starts
<1>2. Len(index.revisions) \in Nat
  BY SequentialIsSeq DEF IndexerSound, PackageSound, IndexSound, IndexShape
<1>3. \A depth \in {3, 4} : ReaderFits(index, tables, Counted, depth)
  BY <1>1, CountedFits
<1>4. /\ DOMAIN rd = DOMAIN Counted /\ rd.element = Counted.element
      /\ rd.element.type = "ObjectGroup"
  BY <1>1, <1>3 DEF IndexerSound, ReaderFits, Counted, Element
<1> HIDE DEF rd
<1>5. ReaderFits(index, tables, rd, IF Header.compound THEN 3 + 1 ELSE 3)
  BY <1>3, <1>4 DEF ReaderFits
<1>. QED  BY <1>1, <1>2, <1>5, TakeKeeps DEF IndexerSound

LEMMA ReadPartKeeps ==
  ASSUME IndexerSound, ReadDeclaration \/ ReadObjectData
  PROVE  /\ IndexerSound' /\ Len(index.revisions) <= Len(index'.revisions)
         /\ (phase' = phase /\ fault' = fault) \/ (phase' = "failed" /\ fault' # Ok)
<1> DEFINE group == tables.groups[Element.group]
           tb(new) == [tables EXCEPT !.groups[Element.group] = new]
<1>1. /\ Starts(4) /\ Depth = 4 /\ reader.section # Nil
      /\ \E code : \E new : Take(code, index, tb(new), reader)
  <2>1. CASE ReadDeclaration
    <3>1. [tables EXCEPT !.groups[Element.group].declarations = Append(@, Header.body)]
            = tb([group EXCEPT !.declarations = Append(@, Header.body)])
      OBVIOUS
    <3> HIDE DEF tb
    <3>. QED  BY <2>1, <3>1, NoTypeAssumption DEF ReadDeclaration, InSection, Starts, Sections
  <2>2. CASE ReadObjectData
    <3>1. [tables EXCEPT !.groups[Element.group].data = Append(@, Header.body)]
            = tb([group EXCEPT !.data = Append(@, Header.body)])
      OBVIOUS
    <3> HIDE DEF tb
    <3>. QED  BY <2>2, <3>1, NoTypeAssumption DEF ReadObjectData, InSection, Starts, Sections
  <2>. QED  BY <2>1, <2>2
<1>2. Len(index.revisions) \in Nat
  BY SequentialIsSeq DEF IndexerSound, PackageSound, IndexSound, IndexShape
<1>3. Element.group \in DOMAIN tables.groups
  BY <1>1 DEF IndexerSound, ReaderFits, Element
<1>4. ASSUME NEW new PROVE TablesFit(index, tb(new)) /\ DOMAIN tb(new).groups = DOMAIN tables.groups
  <2>1. /\ DOMAIN tb(new) = DOMAIN tables
        /\ tb(new).groups = [tables.groups EXCEPT ![Element.group] = new]
        /\ tb(new).revisionGroups = tables.revisionGroups
        /\ tb(new).revisionOfElement = tables.revisionOfElement
    BY DEF IndexerSound, TablesFit
  <2> HIDE DEF tb
  <2>2. Sequential(tb(new).groups) /\ DOMAIN tb(new).groups = DOMAIN tables.groups
    BY <1>3, <2>1, ReplaceInSequence DEF IndexerSound, TablesFit
  <2>. QED  BY <2>1, <2>2 DEF IndexerSound, TablesFit
<1> HIDE DEF tb
<1>5. ASSUME NEW new
      PROVE  ReaderFits(index, tb(new), reader, IF Header.compound THEN 4 + 1 ELSE 4)
  BY <1>1, <1>4 DEF IndexerSound, ReaderFits
<1>. QED  BY <1>1, <1>2, <1>4, <1>5, TakeKeeps DEF IndexerSound

LEMMA PassEventKeeps ==
  ASSUME IndexerSound, PassEvent
  PROVE  /\ IndexerSound' /\ Len(index.revisions) <= Len(index'.revisions)
         /\ (phase' = phase /\ fault' = fault) \/ (phase' = "failed" /\ fault' # Ok)
<1>1. Len(index.revisions) \in Nat /\ Depth \in Nat
  BY SequentialIsSeq DEF IndexerSound, PackageSound, IndexSound, IndexShape, Depth
<1>2. /\ Starts(Depth) /\ Depth >= 2
      /\ Depth = 3 => Element.type \in {Nil, "DataElementFragment"}
      /\ Take(Ok, index, tables, IF Depth = 3 /\ Element.type /= Nil THEN Counted ELSE reader)
  BY <1>1 DEF PassEvent, Starts
<1> DEFINE deeper == IF Header.compound THEN Depth + 1 ELSE Depth
<1>3. deeper \in Nat /\ deeper >= Depth
  BY <1>1
<1> HIDE DEF deeper
<1>4. ReaderFits(index, tables, reader, deeper)
  BY <1>1, <1>2, <1>3 DEF IndexerSound, ReaderFits
<1>5. Depth = 3 => ReaderFits(index, tables, Counted, deeper)
  <2>1. Nil # "RevisionManifest"
    BY NoTypeAssumption DEF ElementTypes, NeedsChild
  <2>. QED  BY <1>1, <1>2, <1>3, <2>1, CountedFits
<1>6. \E rd : Take(Ok, index, tables, rd) /\ ReaderFits(index, tables, rd, deeper)
  BY <1>2, <1>4, <1>5
<1>. QED  BY <1>1, <1>2, <1>6, TakeKeeps DEF IndexerSound, deeper

LEMMA EndObjectKeeps ==
  ASSUME IndexerSound, EndObject
  PROVE  /\ IndexerSound' /\ index' = index
         /\ (phase' = phase /\ fault' = fault) \/ (phase' = "failed" /\ fault' # Ok)
<1>1. CASE Depth - 1 = 2 /\ Unfinished(Element)
  <2>1. /\ UNCHANGED <<index, tables, reader, open>> /\ phase' = "failed" /\ fault' # Ok
    BY <1>1 DEF EndObject, Fail, Ok
  <2>. QED  BY <2>1 DEF IndexerSound, Depth
<1>2. CASE ~(Depth - 1 = 2 /\ Unfinished(Element))
  <2> DEFINE closes == Depth - 1
  <2>1. /\ UNCHANGED <<index, tables, phase, fault>> /\ open' = Front(open)
        /\ reader' = (CASE closes = 1 -> [reader EXCEPT !.inPackage = FALSE]
                        [] closes = 2 -> Leave(reader)
                        [] closes = 3 -> [reader EXCEPT !.section = Nil]
                        [] OTHER      -> reader)
    BY <1>2 DEF EndObject
  <2>2. open # <<>>
    <3>1. FrameFault = Ok /\ Header.kind = "end"
      BY DEF EndObject
    <3>. QED  BY <3>1 DEF FrameFault, Ok
  <2>3. /\ Sequential(open') /\ Len(open') = Depth - 1 /\ Depth - 1 \in Nat /\ Depth \in Nat
        /\ Depth <= MaxDepth + 1 /\ MaxDepth \in Nat
    BY <2>1, <2>2, FrontOfSequence, SequentialIsSeq, DepthAssumption DEF IndexerSound, Depth
  <2>4. ReaderFits(index, tables, reader', closes)
    <3>1. ReaderFits(index, tables, reader, Depth)
      BY DEF IndexerSound
    <3>2. CASE closes = 1
      BY <2>1, <2>3, <3>1, <3>2 DEF ReaderFits
    <3>3. CASE closes = 2
      <4>1. /\ reader'.element = NoElement /\ reader'.section = Nil
            /\ DOMAIN reader' = DOMAIN reader
        BY <2>1, <3>1, <3>3 DEF Leave, ReaderFits
      <4>2. /\ NoElement.children = 0 /\ NoElement.type = Nil /\ NoElement.revision = 0
            /\ DOMAIN NoElement = {"id", "type", "children", "group", "revision"}
            /\ Nil \notin {"ObjectGroup", "RevisionManifest"}
        BY NoTypeAssumption DEF NoElement, ElementTypes, NeedsChild
      <4>3. Len(index.revisions) \in Nat
        BY SequentialIsSeq DEF IndexerSound, PackageSound, IndexSound, IndexShape
      <4>. QED  BY <3>1, <4>1, <4>2, <4>3 DEF ReaderFits
    <3>4. CASE closes = 3
      <4>1. /\ reader'.element = reader.element /\ reader'.section = Nil
            /\ DOMAIN reader' = DOMAIN reader
        BY <2>1, <3>1, <3>4 DEF ReaderFits
      <4>. QED  BY <2>3, <3>1, <3>4, <4>1 DEF ReaderFits
    <3>5. CASE closes \notin {1, 2, 3}
      BY <2>1, <2>3, <3>1, <3>5 DEF ReaderFits
    <3>. QED  BY <3>2, <3>3, <3>4, <3>5
  <2>5. Depth' = closes /\ closes <= MaxDepth + 1
    BY <2>3 DEF Depth
  <2>6. UNCHANGED <<index, tables, phase, fault>>
    BY <2>1
  <2> HIDE DEF closes
  <2>7. ReaderFits(index', tables', reader', Depth')
    BY <2>4, <2>5, <2>6
  <2>. QED  BY <2>3, <2>5, <2>6, <2>7 DEF IndexerSound
<1>. QED  BY <1>1, <1>2

LEMMA PartitionKeeps ==
  ASSUME NEW object, DOMAIN object = ObjectFields, NEW declaration, NEW data
  PROVE  LET after == WithPartition(object, declaration, data)
         IN DOMAIN after = ObjectFields /\ after.id = object.id /\ after.revision = object.revision
BY DEF WithPartition, ObjectFields

LEMMA MergeKeeps ==
  ASSUME PackageSound(index), NEW revision \in DOMAIN index.revisions, NEW declaration, NEW data,
         Merge(revision, declaration, data)
  PROVE  /\ PackageSound(index') /\ Len(index'.revisions) = Len(index.revisions)
         /\ (phase' = phase /\ fault' = fault) \/ (phase' = "failed" /\ fault' # Ok)
<1> DEFINE known == InRevision(index, revision, declaration.object)
           new == FreshObject(revision, declaration.object)
           held == IF known /= {} THEN index ELSE AddObject(index, new)
           order == IF known /= {} THEN CHOOSE o \in known : TRUE ELSE Len(held.objects)
           object == WithPartition(ObjectAt(held, order), declaration, data)
<1>1. \/ UNCHANGED index /\ phase' = "failed" /\ fault' # Ok
      \/ index' = UpdateObject(held, order, object) /\ UNCHANGED <<phase, fault>>
  BY DEF Merge, Fail
<1>2. PackageSound(held) /\ Len(held.revisions) = Len(index.revisions) /\ order \in DOMAIN held.objects
  <2>1. CASE known # {}
    <3>1. order \in Range(ObjectsOf(index, revision))
      BY <2>1 DEF InRevision
    <3>. QED  BY <2>1, <3>1 DEF PackageSound, IndexSound, ListsItsOwn
  <2>2. CASE known = {}
    <3>1. /\ DOMAIN new = ObjectFields /\ new.revision = revision
          /\ new.id = declaration.object
      BY DEF FreshObject, ObjectFields
    <3>2. \A o \in DOMAIN index.objects :
            index.objects[o].revision = revision => index.objects[o].id # declaration.object
      <4>1. revision # NoRevision
        BY SequentialIsSeq DEF PackageSound, IndexSound, IndexShape, NoRevision
      <4>2. InRevision(index, revision, declaration.object) =
              {o \in Range(ObjectsOf(index, revision)) :
                 ObjectAt(index, o).id = declaration.object}
        BY DEF InRevision
      <4>. QED  BY <2>2, <4>1, <4>2 DEF PackageSound, IndexSound, ListsItsOwn, ObjectAt
    <3>3. /\ PackageSound(AddObject(index, new))
          /\ Len(AddObject(index, new).revisions) = Len(index.revisions)
          /\ Len(AddObject(index, new).objects) \in DOMAIN AddObject(index, new).objects
      <4> HIDE DEF new
      <4>. QED  BY <3>1, <3>2, AddObjectKeeps
    <3> HIDE DEF new
    <3>. QED  BY <2>2, <3>3
  <2>. QED  BY <2>1, <2>2
<1> HIDE DEF held, order
<1>3. DOMAIN held.objects[order] = ObjectFields
  BY <1>2 DEF PackageSound, OneForAnIdentity
<1>4. /\ DOMAIN object = ObjectFields /\ object.id = held.objects[order].id
      /\ object.revision = held.objects[order].revision
  BY <1>3, PartitionKeeps DEF ObjectAt
<1> HIDE DEF object
<1>5. /\ PackageSound(UpdateObject(held, order, object))
      /\ UpdateObject(held, order, object).revisions = held.revisions
  BY <1>2, <1>4, UpdateObjectKeeps
<1>. QED  BY <1>1, <1>2, <1>5

LEMMA MergePartitionKeeps ==
  ASSUME IndexerSound, MergePartition
  PROVE  /\ IndexerSound' /\ Len(index'.revisions) = Len(index.revisions)
         /\ (phase' = phase /\ fault' = fault) \/ (phase' = "failed" /\ fault' # Ok)
<1>1. PICK p \in Unmerged : LET group == ObjectGroup(ObjectGroupsOf(p[1])[p[2]])
                            IN Merge(p[1], DeclarationAt(group, p[3]), ObjectDataAt(group, p[3]))
  BY DEF MergePartition
<1>2. p[1] \in DOMAIN index.revisions
  BY DEF Unmerged, Partitions
<1>3. /\ PackageSound(index') /\ Len(index'.revisions) = Len(index.revisions)
      /\ (phase' = phase /\ fault' = fault) \/ (phase' = "failed" /\ fault' # Ok)
  BY <1>1, <1>2, MergeKeeps DEF IndexerSound
<1>4. UNCHANGED <<reader, open, tables>>
  BY DEF MergePartition
<1>5. DOMAIN index'.revisions = DOMAIN index.revisions
  BY <1>3, SequentialIsSeq DEF IndexerSound, PackageSound, IndexSound, IndexShape
<1>6. IndexerSound'
  BY <1>3, <1>4, <1>5 DEF IndexerSound, TablesFit, ReaderFits, Depth
<1>. QED  BY <1>3, <1>6

\* Every step of the indexer.
LEMMA IndexingKeeps ==
  ASSUME IndexerSound, PackageNext
  PROVE  /\ IndexerSound' /\ Len(index.revisions) <= Len(index'.revisions)
         /\ \/ phase' = phase /\ fault' = fault
            \/ phase' = "failed" /\ fault' # Ok
            \/ phase' \in {"merge", "placed"} /\ fault' = fault
         /\ phase \in {"walk", "merge"}
<1>1. Len(index.revisions) \in Nat
  BY SequentialIsSeq DEF IndexerSound, PackageSound, IndexSound, IndexShape
<1>2. CASE FrameFails
  <2>1. UNCHANGED <<index, tables, reader, open>> /\ phase' = "failed" /\ fault' # Ok
    BY <1>2 DEF FrameFails, Fail
  <2>. QED  BY <1>1, <1>2, <2>1 DEF IndexerSound, Depth, FrameFails, Walking
<1>3. CASE WalkEnds
  <2>1. /\ UNCHANGED <<index, tables, reader, open>>
        /\ \/ phase' = "merge" /\ fault' = fault
           \/ phase' = "failed" /\ fault' # Ok
    BY <1>3 DEF WalkEnds, Fail
  <2>. QED  BY <1>1, <1>3, <2>1 DEF IndexerSound, Depth, WalkEnds
<1>4. CASE MergeEnds
  BY <1>1, <1>4 DEF MergeEnds, IndexerSound, Depth
<1>5. CASE MergePartition
  BY <1>1, <1>5, MergePartitionKeeps DEF MergePartition
<1>6. CASE EndObject
  BY <1>1, <1>6, EndObjectKeeps DEF EndObject, Walking
<1>7. CASE ReadPackaging \/ StartPackage
  BY <1>7, ReadPackagingKeeps DEF ReadPackaging, StartPackage, Starts, Walking
<1>8. CASE BeginElement
  BY <1>8, BeginElementKeeps DEF BeginElement, Starts, Walking
<1>9. CASE ReadStorageIndexMapping \/ ReadStorageManifestChild \/ ReadCellManifest
  BY <1>9, ReadChildKeeps DEF ReadStorageIndexMapping, ReadStorageManifestChild,
       ReadCellManifest, InElement, Starts, Walking
<1>10. CASE ReadRevisionManifest
  BY <1>10, ReadRevisionManifestKeeps DEF ReadRevisionManifest, InElement, Starts, Walking
<1>11. CASE ReadRevisionManifestChild
  BY <1>11, ReadManifestChildKeeps DEF ReadRevisionManifestChild, InElement, Starts, Walking
<1>12. CASE OpenSection
  BY <1>12, OpenSectionKeeps DEF OpenSection, InElement, Starts, Walking
<1>13. CASE ReadBlob
  BY <1>13, ReadBlobKeeps DEF ReadBlob, InElement, Starts, Walking
<1>14. CASE ReadDeclaration \/ ReadObjectData
  BY <1>14, ReadPartKeeps DEF ReadDeclaration, ReadObjectData, InSection, Starts, Walking
<1>15. CASE PassEvent
  BY <1>15, PassEventKeeps DEF PassEvent, Starts, Walking
<1>. QED  BY <1>2, <1>3, <1>4, <1>5, <1>6, <1>7, <1>8, <1>9, <1>10, <1>11, <1>12, <1>13, <1>14,
            <1>15 DEF PackageNext

-----------------------------------------------------------------------------
(* Placing the revisions. *)

LEMMA UnaskedIsSound == Unasked => Answers
<1>. SUFFICES ASSUME Unasked PROVE Answers
  OBVIOUS
<1>1. SlotsSound /\ SpacesAreWhole
  BY EmptySequence DEF Unasked, SlotsSound, SpacesAreWhole
<1>2. RequestSound
  BY DEF Unasked, RequestSound
<1>3. MarksAreTrue
  BY EmptySequence DEF Unasked, MarksAreTrue
<1>4. PairingSound
  BY EmptySequence DEF Unasked, PairingSound, NotPairing
<1>. QED  BY <1>1, <1>2, <1>3, <1>4 DEF Answers

LEMMA InitSound == Init => IInv
<1>. SUFFICES ASSUME Init PROVE IInv
  OBVIOUS
<1> USE DEF Init, PackageInit
<1>1. /\ index = EmptyIndex("file-synchronization-package") /\ index.revisions = <<>>
      /\ PackageSound(index)
  BY EmptyIndexSound, EmptySequence DEF EmptyIndex, PackageSound, OneForAnIdentity
<1>2. Len(index.revisions) = 0 /\ DOMAIN index.revisions = {}
  BY <1>1, EmptySequence
<1>3. TablesFit(index, tables)
  BY <1>2, EmptySequence DEF EmptyTables, TablesFit
<1>4. Depth = 0 /\ Sequential(open) /\ Depth <= MaxDepth + 1
  BY EmptySequence, DepthAssumption DEF Depth
<1>5. ReaderFits(index, tables, reader, Depth)
  <2>1. Nil \notin {"ObjectGroup", "RevisionManifest"}
    BY NoTypeAssumption DEF ElementTypes, NeedsChild
  <2>. QED  BY <1>2, <1>4, <2>1 DEF ReaderFits, NoElement
<1>6. Unasked
  BY DEF Unasked, ResolverInit, CompactInit
<1>7. PhaseSound
  BY <1>2, <1>6, EmptySequence DEF PhaseSound, ResolverInit, NoRevision
<1>8. CellsSound
  BY EmptySequence DEF CellsSound, ResolverInit
<1>. QED  BY <1>1, <1>3, <1>4, <1>5, <1>6, <1>7, <1>8, UnaskedIsSound DEF IInv, IndexerSound

LEMMA CellsStay == CellsSound /\ UNCHANGED <<cells, assigning>> => CellsSound'
BY DEF CellsSound

LEMMA IndexingStep ==
  ASSUME IInv, Indexing
  PROVE  IInv'
<1>1. /\ IndexerSound' /\ Len(index.revisions) <= Len(index'.revisions)
      /\ \/ phase' = phase /\ fault' = fault
         \/ phase' = "failed" /\ fault' # Ok
         \/ phase' \in {"merge", "placed"} /\ fault' = fault
      /\ phase \in {"walk", "merge"}
  BY IndexingKeeps DEF IInv, Indexing
<1>2. UNCHANGED <<cells, slots, cache, request, search, failures, paired, built, refused, pairing,
                  assigning>>
  BY DEF Indexing, resolverVars, compactVars
<1>3. Unasked'
  BY <1>1, <1>2 DEF IInv, PhaseSound, Unasked
<1>4. /\ DOMAIN index.revisions \subseteq DOMAIN index'.revisions
      /\ Len(index.revisions) \in Nat /\ Len(index'.revisions) \in Nat
  BY <1>1, SequentialIsSeq DEF IInv, IndexerSound, PackageSound, IndexSound, IndexShape
<1>5. PhaseSound'
  <2>1. phase' \in {"walk", "merge", "placed", "failed"} /\ (phase' = "failed" <=> fault' # Ok)
    BY <1>1 DEF IInv, PhaseSound
  <2>. QED  BY <1>1, <1>2, <1>3, <1>4, <2>1 DEF IInv, PhaseSound
<1>6. Answers'
  BY <1>3, UnaskedIsSound, PTL
<1>7. CellsSound'
  BY <1>2, CellsStay DEF IInv
<1>. QED  BY <1>1, <1>5, <1>6, <1>7 DEF IInv

\* A revision is given its place, and the head of a chain its association.
LEMMA PlaceRevisionCells ==
  ASSUME IInv, PlaceRevision
  PROVE  CellsSound'
<1> DEFINE r0 == assigning.revision
           before == IF Has(cells, r0) THEN cells[r0].associations ELSE <<>>
           given == [context |-> ContextOf(Mapping.cell.first), role |-> 1, order |-> assigning.order]
           association == IF assigning.visited = {} THEN <<given>> ELSE <<>>
           after == before \o association
           place == [first |-> Mapping.cell.first, second |-> Mapping.cell.second,
                     context |-> ContextOf(Mapping.cell.first), associations |-> after]
<1>1. /\ cells' = WithEntry(cells, r0, place) /\ assigning.inChain
      /\ assigning'.order = assigning.order /\ assigning'.inChain
      /\ assigning'.visited = assigning.visited \union {r0}
  BY DEF PlaceRevision, PlacedIn, NextInChain, IInv, PhaseSound
<1>2. place.associations = after /\ given.order = assigning.order
  OBVIOUS
<1>3. /\ DOMAIN cells' = DOMAIN cells \cup {r0} /\ cells'[r0] = place
      /\ \A r \in DOMAIN cells : r # r0 => cells'[r] = cells[r]
  BY <1>1 DEF WithEntry
<1>4. /\ Sequential(before)
      /\ Range(before) = IF r0 \in DOMAIN cells THEN Range(cells[r0].associations) ELSE {}
  BY EmptySequence DEF Has, Range, IInv, CellsSound
<1> HIDE DEF place, given, before
<1>5. /\ Sequential(after)
      /\ Range(after) = Range(before) \cup (IF assigning.visited = {} THEN {given} ELSE {})
  <2>1. CASE assigning.visited = {}
    <3>1. after = Append(before, given)
      BY <1>4, <2>1, ConcatOne
    <3>2. /\ Sequential(Append(before, given))
          /\ Range(Append(before, given)) = Range(before) \cup {given}
      BY <1>4, AppendSequence, RangeOfAppend
    <3> HIDE DEF after
    <3>. QED  BY <2>1, <3>1, <3>2
  <2>2. CASE assigning.visited # {}
    <3>1. after = before
      BY <1>4, <2>2, ConcatOne
    <3> HIDE DEF after
    <3>. QED  BY <1>4, <2>2, <3>1
  <2>. QED  BY <2>1, <2>2
<1> HIDE DEF after
<1>6. assigning.order \in Nat
  BY DEF IInv, CellsSound
<1>7. \A r \in DOMAIN cells' : Sequential(cells'[r].associations)
  BY <1>2, <1>3, <1>5 DEF IInv, CellsSound
<1>8. \A r \in DOMAIN cells' : \A a \in Range(cells'[r].associations) :
        \/ r \in DOMAIN cells /\ a \in Range(cells[r].associations)
        \/ r = r0 /\ a = given /\ assigning.visited = {}
  BY <1>2, <1>3, <1>4, <1>5
<1>9. \A r \in DOMAIN cells : \A a \in Range(cells[r].associations) :
        /\ a.order \in Nat /\ a.order <= assigning.order
        /\ assigning.visited = {} => a.order # assigning.order
  BY DEF IInv, CellsSound
<1>10. \A r \in DOMAIN cells' : \A a \in Range(cells'[r].associations) :
         a.order \in Nat /\ a.order <= assigning'.order
  BY <1>1, <1>2, <1>6, <1>8, <1>9
<1>11. ASSUME NEW r \in DOMAIN cells', NEW s \in DOMAIN cells',
              NEW a \in Range(cells'[r].associations), NEW b \in Range(cells'[s].associations),
              a.order = b.order
       PROVE  r = s
  <2>1. CASE /\ r \in DOMAIN cells /\ a \in Range(cells[r].associations)
             /\ s \in DOMAIN cells /\ b \in Range(cells[s].associations)
    BY <1>11, <2>1 DEF IInv, CellsSound
  <2>. QED  BY <1>2, <1>8, <1>9, <1>11, <2>1
<1>12. assigning'.visited # {}
  BY <1>1
<1>. QED  BY <1>1, <1>6, <1>7, <1>10, <1>11, <1>12 DEF CellsSound

LEMMA PlacingCells ==
  ASSUME IInv, Placing
  PROVE  CellsSound'
<1>0. DOMAIN assigning = {"position", "revision", "visited", "order", "inChain"}
  BY DEF IInv, PhaseSound
<1>1. CASE ChooseHead
  <2>1. UNCHANGED cells /\ ~assigning.inChain
    BY <1>1 DEF ChooseHead, resolverVars
  <2>2. \/ assigning' = [assigning EXCEPT !.position = @ + 1]
        \/ assigning' = [assigning EXCEPT !.revision = Head0, !.visited = {}, !.inChain = TRUE]
    BY <1>1 DEF ChooseHead
  <2>3. assigning'.order = assigning.order
    BY <1>0, <2>2
  <2>. QED  BY <2>1, <2>3 DEF IInv, CellsSound
<1>2. CASE PlaceRevision
  BY <1>2, PlaceRevisionCells
<1>3. CASE ChainPlaced
  <2>1. UNCHANGED cells /\ assigning'.order = assigning.order + 1
    BY <1>0, <1>3 DEF ChainPlaced, resolverVars
  <2>2. \A r \in DOMAIN cells : \A a \in Range(cells[r].associations) :
          a.order \in Nat /\ a.order <= assigning.order
    BY DEF IInv, CellsSound
  <2>3. \A r \in DOMAIN cells : \A a \in Range(cells[r].associations) :
          a.order <= assigning'.order /\ a.order # assigning'.order
    BY <2>1, <2>2 DEF IInv, CellsSound
  <2>. QED  BY <2>1, <2>2, <2>3 DEF IInv, CellsSound
<1>4. CASE CellsAssigned
  BY <1>4, CellsStay DEF CellsAssigned, resolverVars, IInv
<1>. QED  BY <1>1, <1>2, <1>3, <1>4 DEF Placing

LEMMA PlacingStep ==
  ASSUME IInv, Placing
  PROVE  IInv'
<1>1. /\ UNCHANGED <<index, open, reader, tables, fault>> /\ phase = "placed"
      /\ UNCHANGED <<slots, cache, request, search, paired, built, refused, pairing>>
      /\ phase' \in {"placed", "done"}
  BY DEF Placing, ChooseHead, PlaceRevision, ChainPlaced, CellsAssigned, Assigning,
     UnchangedPackage, resolverVars, compactVars
<1>2. IndexerSound'
  BY <1>1 DEF IInv, IndexerSound, Depth
<1>3. Unasked'
  BY <1>1 DEF IInv, PhaseSound, Unasked
<1>4. Len(index.revisions) \in Nat /\ DOMAIN index.revisions = 1..Len(index.revisions)
  BY SequentialIsSeq DEF IInv, IndexerSound, PackageSound, IndexSound, IndexShape
<1>5. /\ DOMAIN assigning' = DOMAIN assigning /\ assigning'.revision \in 0..Len(index.revisions)
      /\ DOMAIN cells' \subseteq DOMAIN index.revisions
  <2>1. CASE ChooseHead
    <3>1. UNCHANGED cells
      BY <2>1 DEF ChooseHead, resolverVars
    <3>2. Head0 # Nil => Head0 \in DOMAIN index.revisions
      BY DEF Head0, RevisionElementFor, RevisionOfElement, Get, Has, IInv, IndexerSound, TablesFit
    <3>3. \/ assigning' = [assigning EXCEPT !.position = @ + 1]
          \/ /\ Head0 # Nil
             /\ assigning' = [assigning EXCEPT !.revision = Head0, !.visited = {}, !.inChain = TRUE]
      BY <2>1 DEF ChooseHead
    <3>4. /\ DOMAIN assigning = {"position", "revision", "visited", "order", "inChain"}
          /\ assigning.revision \in 0..Len(index.revisions)
          /\ DOMAIN cells \subseteq DOMAIN index.revisions
      BY DEF IInv, PhaseSound
    <3>5. CASE assigning' = [assigning EXCEPT !.position = @ + 1]
      BY <3>1, <3>4, <3>5
    <3>6. CASE /\ Head0 # Nil
               /\ assigning' = [assigning EXCEPT !.revision = Head0, !.visited = {}, !.inChain = TRUE]
      <4>1. assigning'.revision = Head0 /\ DOMAIN assigning' = DOMAIN assigning
        BY <3>4, <3>6
      <4>. QED  BY <1>4, <3>1, <3>2, <3>4, <3>6, <4>1
    <3>. QED  BY <3>3, <3>5, <3>6
  <2>2. CASE PlaceRevision
    <3>1. LastRevisionFor(RevisionAt(index, assigning.revision).dependency)
            \in 0..Len(index.revisions)
      BY LastRevision DEF IInv, IndexerSound, PackageSound
    <3>2. /\ DOMAIN assigning' = DOMAIN assigning
          /\ assigning'.revision \in 0..Len(index.revisions)
      BY <2>2, <3>1 DEF PlaceRevision, NextInChain, IInv, PhaseSound
    <3>3. assigning.revision \in DOMAIN index.revisions
      BY <1>4, <2>2 DEF PlaceRevision, AtEnd, NoRevision, IInv, PhaseSound
    <3>4. DOMAIN cells' = DOMAIN cells \cup {assigning.revision}
      BY <2>2 DEF PlaceRevision, PlacedIn, WithEntry
    <3>. QED  BY <3>2, <3>3, <3>4 DEF IInv, PhaseSound
  <2>3. CASE ChainPlaced
    BY <2>3 DEF ChainPlaced, resolverVars, IInv, PhaseSound
  <2>4. CASE CellsAssigned
    BY <2>4 DEF CellsAssigned, resolverVars, IInv, PhaseSound
  <2>. QED  BY <2>1, <2>2, <2>3, <2>4 DEF Placing
<1>6. PhaseSound'
  BY <1>1, <1>3, <1>5 DEF IInv, PhaseSound
<1>7. Answers'
  BY <1>3, UnaskedIsSound, PTL
<1>8. CellsSound'
  BY PlacingCells
<1>. QED  BY <1>2, <1>6, <1>7, <1>8 DEF IInv

-----------------------------------------------------------------------------
(* The tables of identifiers. *)

IdentifiersSound == MarksAreTrue /\ PairingSound

\* An object's streams are what the index and the cells say.
LEMMA SameStreams ==
  ASSUME UNCHANGED <<index, cells>>
  PROVE  \A object : Streams(object)' = Streams(object)
BY DEF Streams, CellOf, ObjectAt

\* An object has one stream, two or three.
LEMMA StreamCount ==
  ASSUME NEW object
  PROVE  Len(Streams(object)) \in 1..3 /\ DOMAIN Streams(object) = 1..Len(Streams(object))
<1>1. \A o, cell : \E a, b, c : StreamsOf(o, cell) \in {<<a>>, <<a, b>>, <<a, b, c>>}
  BY DEF StreamsOf
<1>2. PICK a, b, c : Streams(object) \in {<<a>>, <<a, b>>, <<a, b, c>>}
  BY <1>1 DEF Streams
<1>. QED  BY <1>2

\* What a table has of an object's identifiers it keeps when it grows.
LEMMA TablesGrow ==
  ASSUME \A object, i : Has(TableOf(object), i) =>
           Has(TableOf(object), i)' /\ TableOf(object)'[i] = TableOf(object)[i]
  PROVE  /\ \A object, stream, position :
              Settled(object, stream, position) => Settled(object, stream, position)'
         /\ \A object, stream, position :
              Misfit(object, stream, position) => Misfit(object, stream, position)'
         /\ \A object, stream : Complete(object, stream) => Complete(object, stream)'
<1>1. \A object, stream, position :
        Settled(object, stream, position) => Settled(object, stream, position)'
  BY DEF Settled, NullAt, NullPair
<1>2. \A object, stream, position :
        Misfit(object, stream, position) => Misfit(object, stream, position)'
  BY DEF Misfit, NullAt, NullPair
<1>3. \A object, stream : Complete(object, stream) => Complete(object, stream)'
  BY <1>1 DEF Complete
<1>. QED  BY <1>1, <1>2, <1>3

\* A stream that is complete has no place that does not pair.
LEMMA CompleteFits ==
  ASSUME NEW object, NEW stream, Complete(object, stream), NEW position \in Nat \ {0},
         Misfit(object, stream, position)
  PROVE  FALSE
<1> DEFINE n == Len(stream.compact)
<1>1. /\ n \in Nat /\ n + 1 \notin DOMAIN stream.extended
      /\ \A place \in 1..n : Settled(object, stream, place)
  BY DEF Complete
<1>2. \A earlier \in 1..position - 1 : earlier \in DOMAIN stream.extended
  BY DEF Misfit
<1>3. position \in 1..n + 1
  <2>1. CASE n + 1 \in 1..position - 1
    BY <1>1, <1>2, <2>1
  <2>. QED  BY <1>1, <2>1
<1>4. CASE position = n + 1
  BY <1>1, <1>4 DEF Misfit
<1>5. CASE position \in 1..n
  BY <1>1, <1>5 DEF Settled, Misfit
<1>. QED  BY <1>1, <1>3, <1>4, <1>5

\* And so it does when they stay.
LEMMA TablesStay ==
  ASSUME UNCHANGED <<index, cells, paired>>
  PROVE  /\ \A object : Streams(object)' = Streams(object)
         /\ \A object, stream, position :
              Settled(object, stream, position) => Settled(object, stream, position)'
         /\ \A object, stream, position :
              Misfit(object, stream, position) => Misfit(object, stream, position)'
         /\ \A object, stream : Complete(object, stream) => Complete(object, stream)'
         /\ \A object, i : Paired(object, i) => Paired(object, i)'
<1>1. /\ \A object : TableOf(object)' = TableOf(object)
      /\ \A object : Streams(object)' = Streams(object)
  BY SameStreams DEF TableOf
<1>2. \A object, i : Paired(object, i) => Paired(object, i)'
  BY <1>1 DEF Paired
<1>. QED  BY <1>1, <1>2, TablesGrow DEF Has

\* A step that leaves the tables and what is known of them, and may leave the pairing.
LEMMA IdentifiersStay ==
  ASSUME IdentifiersSound, UNCHANGED <<index, cells, paired, built, refused>>,
         pairing' \in {pairing, NotPairing}
  PROVE  IdentifiersSound'
<1>1. MarksAreTrue'
  BY TablesStay DEF IdentifiersSound, MarksAreTrue
<1>2. CASE pairing' = NotPairing
  <2>1. PairingSound'
    BY <1>2, TablesStay DEF IdentifiersSound, PairingSound, NotPairing
  <2>. QED  BY <1>1, <2>1 DEF IdentifiersSound
<1>3. CASE pairing' = pairing
  <2>1. PairingSound'
    BY <1>3, TablesStay DEF IdentifiersSound, PairingSound, NotPairing
  <2>. QED  BY <1>1, <2>1 DEF IdentifiersSound
<1>. QED  BY <1>2, <1>3

LEMMA AskIdentifierStep ==
  ASSUME IdentifiersSound, NEW object \in DOMAIN index.objects, AskIdentifier(object)
  PROVE  IdentifiersSound'
<1>1. /\ UNCHANGED <<index, cells, paired, built, refused>> /\ pairing = NotPairing
      /\ object \notin built /\ pairing' = [NotPairing EXCEPT !.object = object]
  BY DEF AskIdentifier, resolverVars
<1>2. MarksAreTrue'
  BY <1>1, TablesStay DEF IdentifiersSound, MarksAreTrue
<1>3. /\ pairing'.object = object /\ pairing'.stream = 1 /\ pairing'.position = 1
      /\ DOMAIN pairing' = {"object", "stream", "position"}
  BY <1>1 DEF NotPairing
<1>4. PairingSound'
  <2>1. /\ built' \union refused' \union DOMAIN paired' \subseteq DOMAIN index'.objects
        /\ \A o \in refused' : \E n \in DOMAIN Streams(o)' : \E position \in Nat \ {0} :
             Misfit(o, Streams(o)[n], position)'
    BY <1>1, TablesStay DEF IdentifiersSound, PairingSound
  <2>2. 1 \in 1..Len(Streams(object)) + 1 /\ 1..1 - 1 = {}
    BY StreamCount
  <2>. QED  BY <1>1, <1>3, <2>1, <2>2, TablesStay DEF PairingSound
<1>. QED  BY <1>2, <1>4 DEF IdentifiersSound

\* What a pairing under way says.
LEMMA PairingSays ==
  ASSUME IdentifiersSound, pairing # NotPairing
  PROVE  /\ DOMAIN pairing = {"object", "stream", "position"}
         /\ pairing.object \in DOMAIN index.objects /\ pairing.object \notin built
         /\ pairing.stream \in 1..Len(Streams(pairing.object)) + 1
         /\ pairing.position \in Nat \ {0}
         /\ \A n \in 1..pairing.stream - 1 :
              Complete(pairing.object, Streams(pairing.object)[n])
         /\ \A position \in 1..pairing.position - 1 : Settled(pairing.object, Stream, position)
         /\ AtPair => pairing.stream \in DOMAIN Streams(pairing.object)
         /\ ~AtPair => \A n \in DOMAIN Streams(pairing.object) : n \in 1..pairing.stream - 1
<1>1. /\ Len(Streams(pairing.object)) \in Nat
      /\ DOMAIN Streams(pairing.object) = 1..Len(Streams(pairing.object))
  BY StreamCount
<1>. QED  BY <1>1 DEF IdentifiersSound, PairingSound, Stream, AtPair, Pairing

\* Refusing an object at a place where its arrays do not pair.
LEMMA RefuseStep ==
  ASSUME IdentifiersSound, UNCHANGED <<index, cells, paired, built>>, AtPair, Refuse,
         Misfit(pairing.object, Stream, pairing.position)
  PROVE  IdentifiersSound'
<1>1. pairing # NotPairing
  BY DEF AtPair, Pairing
<1>2. refused' = refused \union {pairing.object} /\ pairing' = NotPairing
  BY DEF Refuse
<1>3. MarksAreTrue'
  BY <1>1, <1>2, PairingSays, TablesStay DEF IdentifiersSound, MarksAreTrue
<1>4. PairingSound'
  <2>1. \A o \in refused' : \E n \in DOMAIN Streams(o)' : \E position \in Nat \ {0} :
          Misfit(o, Streams(o)[n], position)'
    <3>. SUFFICES ASSUME NEW o \in refused'
                  PROVE  \E n \in DOMAIN Streams(o) : \E position \in Nat \ {0} :
                           Misfit(o, Streams(o)[n], position)
      BY TablesStay
    <3>1. CASE o = pairing.object
      BY <1>1, <3>1, PairingSays DEF Stream
    <3>2. CASE o \in refused
      BY <3>2 DEF IdentifiersSound, PairingSound
    <3>. QED  BY <1>2, <3>1, <3>2
  <2>2. built' \union refused' \union DOMAIN paired' \subseteq DOMAIN index'.objects
    BY <1>1, <1>2, PairingSays DEF IdentifiersSound, PairingSound
  <2>. QED  BY <1>2, <2>1, <2>2 DEF PairingSound, NotPairing
<1>. QED  BY <1>3, <1>4 DEF IdentifiersSound

\* The place a pairing is at is settled: on to the next, the tables grown for it or not.
LEMMA NextPlace ==
  ASSUME IdentifiersSound, AtPair, UNCHANGED <<index, cells, built, refused>>,
         DOMAIN paired' \subseteq DOMAIN index.objects, MarksAreTrue',
         pairing' = [pairing EXCEPT !.position = @ + 1],
         \A object, i : Has(TableOf(object), i) =>
           Has(TableOf(object), i)' /\ TableOf(object)'[i] = TableOf(object)[i],
         NEW CONSTANT place, place = <<pairing.object, Stream, pairing.position>>,
         Settled(place[1], place[2], place[3])'
  PROVE  IdentifiersSound'
<1>1. pairing # NotPairing
  BY DEF AtPair, Pairing
<1>2. /\ DOMAIN pairing = {"object", "stream", "position"}
      /\ pairing.object \in DOMAIN index.objects /\ pairing.object \notin built
      /\ pairing.stream \in 1..Len(Streams(pairing.object)) + 1
      /\ pairing.position \in Nat \ {0}
      /\ \A n \in 1..pairing.stream - 1 : Complete(pairing.object, Streams(pairing.object)[n])
      /\ \A position \in 1..pairing.position - 1 : Settled(pairing.object, Stream, position)
      /\ pairing.stream \in DOMAIN Streams(pairing.object)
  BY <1>1, PairingSays
<1>3. /\ DOMAIN pairing' = DOMAIN pairing /\ pairing'.object = pairing.object
      /\ pairing'.stream = pairing.stream /\ pairing'.position = pairing.position + 1
  BY <1>2
<1>4. /\ \A object, stream, position :
           Settled(object, stream, position) => Settled(object, stream, position)'
      /\ \A object, stream, position :
           Misfit(object, stream, position) => Misfit(object, stream, position)'
      /\ \A object, stream : Complete(object, stream) => Complete(object, stream)'
      /\ \A object : Streams(object)' = Streams(object)
  BY TablesGrow, SameStreams
<1>5. \A position \in 1..pairing'.position - 1 : Settled(pairing.object, Stream, position)'
  <2>. SUFFICES ASSUME NEW position \in 1..pairing'.position - 1
                PROVE  Settled(pairing.object, Stream, position)'
    OBVIOUS
  <2>1. Stream' = Stream
    BY <1>3, <1>4 DEF Stream
  <2>2. CASE position = pairing.position
    BY <1>3, <2>1, <2>2
  <2>3. CASE position \in 1..pairing.position - 1
    BY <1>2, <1>3, <1>4, <2>1, <2>3
  <2>. QED  BY <1>2, <1>3, <2>2, <2>3
<1>6. \A n \in 1..pairing'.stream - 1 : Complete(pairing.object, Streams(pairing.object)[n])'
  BY <1>2, <1>3, <1>4
<1>7. PairingSound'
  <2>1. /\ built' \union refused' \union DOMAIN paired' \subseteq DOMAIN index'.objects
        /\ \A o \in refused' : \E n \in DOMAIN Streams(o)' : \E position \in Nat \ {0} :
             Misfit(o, Streams(o)[n], position)'
    BY <1>4 DEF IdentifiersSound, PairingSound
  <2>2. pairing'.position \in Nat \ {0}
    BY <1>2, <1>3
  <2>. QED  BY <1>2, <1>3, <1>4, <1>5, <1>6, <2>1, <2>2 DEF PairingSound, Stream
<1>. QED  BY <1>7 DEF IdentifiersSound

LEMMA PairOneStep ==
  ASSUME IdentifiersSound, PairOne
  PROVE  IdentifiersSound'
<1> DEFINE object == pairing.object
           position == pairing.position
           compact == Stream.compact[position]
           extended == Stream.extended[position]
<1>1. /\ AtPair /\ position \in DOMAIN Stream.extended /\ UNCHANGED <<index, cells, built>>
      /\ pairing # NotPairing
  BY DEF PairOne, resolverVars, AtPair, Pairing
<1>2. /\ DOMAIN pairing = {"object", "stream", "position"}
      /\ object \in DOMAIN index.objects /\ object \notin built /\ position \in Nat \ {0}
      /\ pairing.stream \in DOMAIN Streams(object)
      /\ \A earlier \in 1..position - 1 : Settled(object, Stream, earlier)
  BY <1>1, PairingSays
<1>3. \A earlier \in 1..position - 1 : earlier \in DOMAIN Stream.extended
  BY <1>2 DEF Settled
<1>4. Entries = TableOf(object)
  BY DEF Entries, TableOf
<1>5. CASE position \notin DOMAIN Stream.compact
  <2>1. Misfit(object, Stream, position)
    BY <1>1, <1>3, <1>5 DEF Misfit
  <2>2. Refuse /\ UNCHANGED paired
    BY <1>5 DEF PairOne
  <2>. QED  BY <1>1, <2>1, <2>2, RefuseStep
<1>6. CASE position \in DOMAIN Stream.compact /\ NullPair(compact, extended)
  <2>1. /\ pairing' = [pairing EXCEPT !.position = @ + 1] /\ UNCHANGED <<paired, refused>>
    BY <1>6 DEF PairOne
  <2>2. Settled(object, Stream, position)
    BY <1>1, <1>6 DEF Settled, NullAt
  <2>3. PICK place : place = <<object, Stream, position>>
    OBVIOUS
  <2>4. Settled(place[1], place[2], place[3])'
    BY <1>1, <2>1, <2>2, <2>3, TablesStay
  <2>5. MarksAreTrue'
    BY <1>1, <2>1, TablesStay DEF IdentifiersSound, MarksAreTrue
  <2>6. /\ DOMAIN paired' \subseteq DOMAIN index.objects
        /\ \A o, i : Has(TableOf(o), i) => Has(TableOf(o), i)' /\ TableOf(o)'[i] = TableOf(o)[i]
    BY <2>1 DEF IdentifiersSound, PairingSound, TableOf, Has
  <2>. QED  BY <1>1, <2>1, <2>3, <2>4, <2>5, <2>6, NextPlace
<1>7. CASE /\ position \in DOMAIN Stream.compact /\ ~NullPair(compact, extended)
           /\ PairFault(compact, extended) # Ok
  <2>1. Misfit(object, Stream, position)
    BY <1>1, <1>3, <1>4, <1>7 DEF Misfit, NullAt, PairFault
  <2>2. Refuse /\ UNCHANGED paired
    BY <1>7 DEF PairOne
  <2>. QED  BY <1>1, <2>1, <2>2, RefuseStep
<1>8. CASE /\ position \in DOMAIN Stream.compact /\ ~NullPair(compact, extended)
           /\ PairFault(compact, extended) = Ok
  <2> DEFINE table == WithEntry(TableOf(object), compact.index, extended.guid)
  <2>1. /\ pairing' = [pairing EXCEPT !.position = @ + 1] /\ UNCHANGED refused
        /\ paired' = WithEntry(paired, object, table)
    BY <1>4, <1>8 DEF PairOne
  <2>2. /\ ~BadIndex(compact.index)
        /\ extended.guid # NilGuid /\ extended.ordinal = compact.ordinal
        /\ Has(TableOf(object), compact.index) => TableOf(object)[compact.index] = extended.guid
    BY <1>4, <1>8 DEF PairFault, Ok
  <2>3. /\ DOMAIN table = DOMAIN TableOf(object) \cup {compact.index}
        /\ table[compact.index] = extended.guid
        /\ \A i \in DOMAIN TableOf(object) : table[i] = TableOf(object)[i]
    BY <2>2 DEF WithEntry, Has
  <2> HIDE DEF table
  <2>4. /\ DOMAIN paired' = DOMAIN paired \cup {object} /\ paired'[object] = table
        /\ \A o \in DOMAIN paired : o # object => paired'[o] = paired[o]
    BY <2>1 DEF WithEntry
  <2>5. PICK place : place = <<object, Stream, position>>
    OBVIOUS
  <2>6. /\ TableOf(place[1])' = table
        /\ \A o : o # object => TableOf(o)' = TableOf(o)
    BY <2>4, <2>5 DEF TableOf, Has
  <2>7. \A o, i : Has(TableOf(o), i) => Has(TableOf(o), i)' /\ TableOf(o)'[i] = TableOf(o)[i]
    BY <2>3, <2>5, <2>6 DEF Has
  <2>8. Settled(place[1], place[2], place[3])'
    BY <1>1, <1>8, <2>2, <2>3, <2>5, <2>6 DEF Settled, Has
  <2>9. MarksAreTrue'
    <3>1. \A o \in built' : \A n \in DOMAIN Streams(o)' : Complete(o, Streams(o)[n])'
      BY <1>1, <2>7, TablesGrow, SameStreams DEF IdentifiersSound, MarksAreTrue
    <3>2. ASSUME NEW o \in DOMAIN paired', NEW i \in DOMAIN paired'[o]
          PROVE  Paired(o, i)'
      <4>1. ASSUME o \in DOMAIN paired, i \in DOMAIN paired[o]
            PROVE  Paired(o, i)'
        <5>1. Paired(o, i) /\ Has(TableOf(o), i)
          BY <4>1 DEF IdentifiersSound, MarksAreTrue, TableOf, Has
        <5>2. TableOf(o)'[i] = TableOf(o)[i] /\ Streams(o)' = Streams(o)
          BY <1>1, <2>7, <5>1, SameStreams
        <5>. QED  BY <5>1, <5>2 DEF Paired
      <4>2. CASE o = object /\ i = compact.index
        <5>1. /\ TableOf(o)'[i] = extended.guid /\ Streams(o)' = Streams(o)
              /\ Stream = Streams(o)[pairing.stream]
          BY <1>1, <2>3, <2>5, <2>6, <4>2, SameStreams DEF Stream
        <5>. QED  BY <1>1, <1>2, <1>8, <4>2, <5>1 DEF Paired
      <4>3. CASE o = object /\ i # compact.index
        <5>1. i \in DOMAIN TableOf(object)
          BY <2>3, <2>4, <4>3
        <5>2. o \in DOMAIN paired /\ i \in DOMAIN paired[o]
          BY <4>3, <5>1, EmptySequence DEF TableOf, Has
        <5>. QED  BY <4>1, <5>2
      <4>4. CASE o # object
        BY <2>4, <4>1, <4>4
      <4>. QED  BY <4>2, <4>3, <4>4
    <3>3. built' \intersect refused' = {}
      BY <1>1, <2>1 DEF IdentifiersSound, MarksAreTrue
    <3>. QED  BY <3>1, <3>2, <3>3 DEF MarksAreTrue
  <2>10. DOMAIN paired' \subseteq DOMAIN index.objects
    BY <1>2, <2>4 DEF IdentifiersSound, PairingSound
  <2>. QED  BY <1>1, <2>1, <2>5, <2>7, <2>8, <2>9, <2>10, NextPlace
<1>. QED  BY <1>5, <1>6, <1>7, <1>8

LEMMA StreamPairedStep ==
  ASSUME IdentifiersSound, StreamPaired
  PROVE  IdentifiersSound'
<1> DEFINE object == pairing.object
           position == pairing.position
<1>1. /\ AtPair /\ position \notin DOMAIN Stream.extended
      /\ UNCHANGED <<index, cells, built, paired>> /\ pairing # NotPairing
  BY DEF StreamPaired, resolverVars, AtPair, Pairing
<1>2. /\ DOMAIN pairing = {"object", "stream", "position"}
      /\ object \in DOMAIN index.objects /\ object \notin built /\ position \in Nat \ {0}
      /\ pairing.stream \in DOMAIN Streams(object)
      /\ \A n \in 1..pairing.stream - 1 : Complete(object, Streams(object)[n])
      /\ \A earlier \in 1..position - 1 : Settled(object, Stream, earlier)
  BY <1>1, PairingSays
<1>3. CASE position - 1 # Len(Stream.compact)
  <2>1. Misfit(object, Stream, position)
    BY <1>1, <1>2, <1>3 DEF Misfit, Settled
  <2>2. Refuse
    BY <1>3 DEF StreamPaired
  <2>. QED  BY <1>1, <2>1, <2>2, RefuseStep
<1>4. CASE position - 1 = Len(Stream.compact)
  <2>1. pairing' = [pairing EXCEPT !.stream = @ + 1, !.position = 1] /\ UNCHANGED refused
    BY <1>4 DEF StreamPaired
  <2>2. /\ DOMAIN pairing' = DOMAIN pairing /\ pairing'.object = object
        /\ pairing'.stream = pairing.stream + 1 /\ pairing'.position = 1
    BY <1>2, <2>1
  <2>3. Complete(object, Stream)
    BY <1>1, <1>2, <1>4 DEF Complete
  <2>4. /\ Len(Streams(object)) \in Nat /\ DOMAIN Streams(object) = 1..Len(Streams(object))
    BY StreamCount
  <2>5. \A n \in 1..pairing'.stream - 1 : Complete(object, Streams(object)[n])
    <3>. SUFFICES ASSUME NEW n \in 1..pairing'.stream - 1
                  PROVE  Complete(object, Streams(object)[n])
      OBVIOUS
    <3>1. n = pairing.stream \/ n \in 1..pairing.stream - 1
      BY <1>2, <2>2, <2>4
    <3>. QED  BY <1>2, <2>3, <3>1 DEF Stream
  <2>6. MarksAreTrue'
    BY <1>1, <2>1, TablesStay DEF IdentifiersSound, MarksAreTrue
  <2>7. PairingSound'
    <3>1. /\ built' \union refused' \union DOMAIN paired' \subseteq DOMAIN index'.objects
          /\ \A o \in refused' : \E n \in DOMAIN Streams(o)' : \E p \in Nat \ {0} :
               Misfit(o, Streams(o)[n], p)'
      BY <1>1, <2>1, TablesStay DEF IdentifiersSound, PairingSound
    <3>2. pairing'.stream \in 1..Len(Streams(object)) + 1 /\ 1..1 - 1 = {}
      BY <1>2, <2>2, <2>4
    <3>3. \A n \in 1..pairing'.stream - 1 :
            (Complete(pairing.object, Streams(pairing.object)[n]))'
      BY <1>1, <2>2, <2>5, TablesStay
    <3>. QED  BY <1>1, <1>2, <2>2, <3>1, <3>2, <3>3, TablesStay DEF PairingSound
  <2>. QED  BY <2>6, <2>7 DEF IdentifiersSound
<1>. QED  BY <1>3, <1>4

\* The mark comes last: whatever is marked is complete, and so has nothing to refuse.
LEMMA MarkBuiltStep ==
  ASSUME IdentifiersSound, MarkBuilt
  PROVE  IdentifiersSound'
<1>1. /\ pairing # NotPairing /\ ~AtPair /\ pairing' = NotPairing
      /\ UNCHANGED <<index, cells, paired, refused>> /\ built' = built \union {pairing.object}
  BY DEF MarkBuilt, resolverVars, Pairing
<1>2. /\ pairing.object \in DOMAIN index.objects
      /\ \A n \in DOMAIN Streams(pairing.object) :
           Complete(pairing.object, Streams(pairing.object)[n])
  BY <1>1, PairingSays
<1>3. pairing.object \notin refused
  BY <1>2, CompleteFits DEF IdentifiersSound, PairingSound
<1>4. MarksAreTrue'
  <2>1. \A o \in built' : \A n \in DOMAIN Streams(o) : Complete(o, Streams(o)[n])
    BY <1>1, <1>2 DEF IdentifiersSound, MarksAreTrue
  <2>2. \A o \in built' : \A n \in DOMAIN Streams(o)' : Complete(o, Streams(o)[n])'
    BY <1>1, <2>1, TablesStay
  <2>. QED  BY <1>1, <1>3, <2>2, TablesStay DEF IdentifiersSound, MarksAreTrue
<1>5. PairingSound'
  BY <1>1, <1>2, TablesStay DEF IdentifiersSound, PairingSound, NotPairing
<1>. QED  BY <1>4, <1>5 DEF IdentifiersSound

LEMMA CompactStep ==
  ASSUME IdentifiersSound, CompactNext
  PROVE  IdentifiersSound' /\ UNCHANGED <<index, cells, slots, cache, request>>
<1>1. UNCHANGED <<index, cells, slots, cache, request>>
  BY DEF CompactNext, PairOne, StreamPaired, MarkBuilt, PairingFails, resolverVars
<1>2. CASE PairingFails
  BY <1>2, IdentifiersStay DEF PairingFails
<1>. QED  BY <1>1, <1>2, PairOneStep, StreamPairedStep, MarkBuiltStep DEF CompactNext

-----------------------------------------------------------------------------
(* The invariant of the section. *)

\* A step after the placing leaves the index and where its reading ended.
LEMMA DoneStays ==
  ASSUME IInv, phase = "done",
         UNCHANGED <<index, cells, phase, assigning, fault, open, reader, tables>>
  PROVE  IndexerSound' /\ PhaseSound' /\ CellsSound'
<1>1. IndexerSound'
  BY DEF IInv, IndexerSound, Depth
<1>2. PhaseSound'
  BY DEF IInv, PhaseSound
<1>3. CellsSound'
  BY CellsStay DEF IInv
<1>. QED  BY <1>1, <1>2, <1>3

LEMMA AskStep ==
  ASSUME IInv, Ask
  PROVE  IInv'
<1>1. /\ phase = "done" /\ UNCHANGED <<phase, assigning, fault, open, reader, tables>>
      /\ request = Idle
  BY DEF Ask, UnchangedPackage
<1>2. IndexSound(index) /\ SpacesSound /\ IdentifiersSound
  BY DEF IInv, IndexerSound, PackageSound, Answers, SpacesSound, IdentifiersSound
<1>3. CASE \E key \in SpaceKeys : AskSpace(key[1], key[2]) /\ UNCHANGED compactVars
  <2>1. PICK key \in SpaceKeys : AskSpace(key[1], key[2]) /\ UNCHANGED compactVars
    BY <1>3
  <2>2. UNCHANGED <<index, cells, paired, built, refused, pairing>>
    BY <2>1 DEF AskSpace, compactVars
  <2>3. SpacesSound'
    BY <1>1, <1>2, <2>1, <2>2, ResolveStep DEF AskSpace
  <2>4. IdentifiersSound'
    BY <1>2, <2>2, IdentifiersStay
  <2>. QED  BY <1>1, <2>2, <2>3, <2>4, DoneStays DEF IInv, Answers, SpacesSound, IdentifiersSound
<1>4. CASE \E jcid \in RootJcids : StartSearch(jcid) /\ UNCHANGED compactVars
  <2>1. UNCHANGED <<index, cells, slots, cache, request, paired, built, refused, pairing>>
    BY <1>4 DEF StartSearch, compactVars
  <2>2. SpacesSound' /\ IdentifiersSound'
    BY <1>2, <2>1, SpacesStay, IdentifiersStay
  <2>. QED  BY <1>1, <2>1, <2>2, DoneStays DEF IInv, Answers, SpacesSound, IdentifiersSound
<1>5. CASE \E object \in {o \in DOMAIN index.objects : Placed(o)} : AskIdentifier(object)
  <2>1. PICK object \in DOMAIN index.objects : AskIdentifier(object)
    BY <1>5
  <2>2. UNCHANGED <<index, cells, slots, cache, request>>
    BY <2>1 DEF AskIdentifier, resolverVars
  <2>3. SpacesSound' /\ IdentifiersSound'
    BY <1>2, <2>1, <2>2, SpacesStay, AskIdentifierStep
  <2>. QED  BY <1>1, <2>2, <2>3, DoneStays DEF IInv, Answers, SpacesSound, IdentifiersSound
<1>. QED  BY <1>3, <1>4, <1>5 DEF Ask

LEMMA AnsweringStep ==
  ASSUME IInv, Answering \/ EndSearch
  PROVE  IInv'
<1>1. IndexSound(index) /\ SpacesSound /\ IdentifiersSound
  BY DEF IInv, IndexerSound, PackageSound, Answers, SpacesSound, IdentifiersSound
<1>2. CASE Answering
  <2>1. phase = "done" /\ UNCHANGED <<phase, assigning, fault, open, reader, tables>>
    BY <1>2 DEF Answering, UnchangedPackage
  <2>2. CASE ResolverNext /\ UNCHANGED compactVars
    <3>1. SpacesSound' /\ UNCHANGED <<index, cells>>
      BY <1>1, <2>2, ResolverStep
    <3>2. UNCHANGED <<paired, built, refused, pairing>>
      BY <2>2 DEF compactVars
    <3>3. IdentifiersSound'
      BY <1>1, <3>1, <3>2, IdentifiersStay
    <3>. QED  BY <2>1, <3>1, <3>3, DoneStays DEF IInv, Answers, SpacesSound, IdentifiersSound
  <2>3. CASE CompactNext
    <3>1. IdentifiersSound' /\ UNCHANGED <<index, cells, slots, cache, request>>
      BY <1>1, <2>3, CompactStep
    <3>2. SpacesSound'
      BY <1>1, <3>1, SpacesStay
    <3>. QED  BY <2>1, <3>1, <3>2, DoneStays DEF IInv, Answers, SpacesSound, IdentifiersSound
  <2>. QED  BY <1>2, <2>2, <2>3 DEF Answering
<1>3. CASE EndSearch
  <2>1. UNCHANGED <<index, cells, phase, assigning, fault, open, reader, tables, slots, cache,
                    request, paired, built, refused, pairing>>
    BY <1>3 DEF EndSearch, UnchangedPackage, compactVars
  <2>2. phase = "done"
    <3>1. search # NotSearching
      BY <1>3 DEF EndSearch, SearchDone, Searching, NotSearching
    <3>. QED  BY <3>1 DEF IInv, PhaseSound, Unasked
  <2>3. SpacesSound' /\ IdentifiersSound'
    BY <1>1, <2>1, SpacesStay, IdentifiersStay
  <2>. QED  BY <2>1, <2>2, <2>3, DoneStays DEF IInv, Answers, SpacesSound, IdentifiersSound
<1>. QED  BY <1>2, <1>3

\* A step that changes nothing.
LEMMA SectionStays == IInv /\ UNCHANGED sectionVars => IInv'
<1>. SUFFICES ASSUME IInv, UNCHANGED sectionVars PROVE IInv'
  OBVIOUS
<1>1. UNCHANGED <<index, phase, open, reader, tables, fault, cells, slots, cache, request, search,
                  paired, built, refused, pairing, assigning>>
  BY DEF sectionVars, packageVars, resolverVars, compactVars
<1>2. IndexerSound'
  BY <1>1 DEF IInv, IndexerSound, Depth
<1>3. PhaseSound'
  BY <1>1 DEF IInv, PhaseSound, Unasked
<1>4. SpacesSound' /\ IdentifiersSound'
  BY <1>1, SpacesStay, IdentifiersStay DEF IInv, Answers, SpacesSound, IdentifiersSound
<1>5. CellsSound'
  BY <1>1, CellsStay DEF IInv
<1>. QED  BY <1>2, <1>3, <1>4, <1>5 DEF IInv, Answers, SpacesSound, IdentifiersSound

\* The invariant: the tables fit together wherever the indexer stands in the framing, and
\* what the pages were answered follows from them.
THEOREM SectionInvariance == Spec => []IInv
<1>1. IInv /\ [Next]_sectionVars => IInv'
  BY IndexingStep, PlacingStep, AskStep, AnsweringStep, SectionStays DEF Next
<1>. QED  BY <1>1, InitSound, PTL DEF Spec

\* The type invariant of a packaged section: an error is what ended a reading that failed, the
\* nesting is bounded, and no object is both marked complete and known not to pair.
THEOREM SectionTypes == Spec => []TypeOK
<1>1. IInv => TypeOK
  <2>. SUFFICES ASSUME IInv PROVE TypeOK
    OBVIOUS
  <2>1. /\ phase \in {"walk", "merge", "placed", "done", "failed"}
        /\ (phase = "failed") <=> (fault /= Ok)
        /\ DOMAIN cells \subseteq DOMAIN index.revisions
        /\ assigning.revision \in 0..Len(index.revisions)
    BY DEF IInv, PhaseSound
  <2>2. /\ Len(open) <= MaxDepth + 1
        /\ reader.section /= Nil => reader.element.group \in DOMAIN tables.groups
        /\ reader.element.revision \in 0..Len(index.revisions)
        /\ reader.element.type = "RevisionManifest" /\ reader.element.children > 0
             => reader.element.revision = Len(index.revisions)
        /\ Len(tables.revisionGroups) = Len(index.revisions)
    BY DEF IInv, IndexerSound, ReaderFits, TablesFit, Depth
  <2>3. built \intersect refused = {}
    BY DEF IInv, Answers, MarksAreTrue
  <2>4. pairing.object \notin built
    <3>1. CASE pairing = NotPairing
      <4>1. DOMAIN index.objects = 1..Len(index.objects) /\ Len(index.objects) \in Nat
        BY SequentialIsSeq DEF IInv, IndexerSound, PackageSound, IndexSound, IndexShape
      <4>2. built \subseteq DOMAIN index.objects
        BY DEF IInv, Answers, PairingSound
      <4>3. pairing.object = 0
        BY <3>1 DEF NotPairing
      <4>. QED  BY <4>1, <4>2, <4>3
    <3>2. CASE pairing # NotPairing
      BY <3>2 DEF IInv, Answers, PairingSound
    <3>. QED  BY <3>1, <3>2
  <2>. QED  BY <2>1, <2>2, <2>3, <2>4 DEF TypeOK
<1>. QED  BY <1>1, SectionInvariance, PTL

\* At every moment of the reading a revision lists its own objects and no others, and what the
\* index finds by an identifier is the last that was added with it.
THEOREM RevisionsListTheirOwn == Spec => []TablesAgree
<1>1. IInv => TablesAgree
  BY DEF IInv, IndexerSound, PackageSound, IndexSound, TablesAgree
<1>. QED  BY <1>1, SectionInvariance, PTL

\* The chains of two cells never make two revisions current at once: the head of each is
\* associated by an order of its own.
THEOREM HeadsAreCurrent == Spec => []OneIsCurrent
<1>1. IInv => OneIsCurrent
  <2>. SUFFICES ASSUME IInv PROVE OrdersDistinct
    BY LatestIsOne
  <2>1. Packaged
    BY DEF IInv, IndexerSound, PackageSound, OneForAnIdentity, Packaged
  <2>2. ASSUME NEW i \in DOMAIN index.revisions, NEW a \in Range(AssociationsOf(i))
        PROVE  i \in DOMAIN cells /\ a \in Range(cells[i].associations)
    <3>1. CASE CellOf(i) = Nil
      BY <2>1, <2>2, <3>1, EmptySequence DEF AssociationsOf, Range
    <3>2. CASE CellOf(i) # Nil
      BY <2>1, <2>2, <3>2 DEF AssociationsOf, CellOf, Get, Has
    <3>. QED  BY <3>1, <3>2
  <2>. QED  BY <2>2 DEF OrdersDistinct, IInv, CellsSound
<1>. QED  BY <1>1, SectionInvariance, PTL

\* A remembered space is current where it should be, its chain follows the dependencies until
\* nothing new comes, and of what its revisions declare the newest declaration stands,
\* whatever writes failed before it was remembered.
THEOREM SpacesAreReplayed == Spec => []SpacesAreWhole
<1>1. IInv => SpacesAreWhole
  BY DEF IInv, Answers
<1>. QED  BY <1>1, SectionInvariance, PTL

\* A table marked complete is complete, an entry is never for another identifier, and an
\* object whose arrays did not pair is never marked, however often it is tried again.
THEOREM MarksComeLast == Spec => []MarksAreTrue
<1>1. IInv => MarksAreTrue
  BY DEF IInv, Answers
<1>. QED  BY <1>1, SectionInvariance, PTL
=============================================================================
