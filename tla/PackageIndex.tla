---- MODULE PackageIndex ----
(***************************************************************************)
(* Indexing a packaged section from the events of its framing, without     *)
(* building the tree: the walker keeps the types that are open, the        *)
(* indexer which element and which section of it the walker is in.  What   *)
(* the elements say goes to the tables of the index; once all of them are  *)
(* there, every revision's objects are put together from the partitions of *)
(* its object groups.                                                      *)
(***************************************************************************)
EXTENDS SectionIndex, PackageFile, SequencesExt

VARIABLES package,   \* the package being read; never changes
          phase,     \* "walk", "merge", "placed" or "failed"
          at,        \* the header the walker is at
          open,      \* the types of the open compound objects
          reader,    \* what the indexer remembers from one event to the next
          tables,    \* the tables only this encoding has
          merged,    \* the partition merged last
          fault      \* the code of the error that ended the reading

packageVars == <<index, package, phase, at, open, reader, tables, merged, fault>>

Fail(code) == /\ phase' = "failed"
              /\ fault' = code

NoElement == [id |-> Nil, type |-> Nil, children |-> 0, group |-> 0, revision |-> 0]

EmptyTables ==
  [manifestMappings |-> <<>>, cellMappings |-> <<>>, revisionMappings |-> <<>>,
   manifestRoots    |-> <<>>,
   cellManifests    |-> <<>>,   \* element -> the revision it declares current
   revisionOfElement |-> <<>>,  \* element -> the order of its revision
   revisionGroups   |-> <<>>,   \* revision order -> the groups it names
   groups           |-> <<>>,   \* group order -> its declarations and data
   groupByElement   |-> <<>>]

-----------------------------------------------------------------------------
(* walkStreamObjects. *)

Walking == phase = "walk" /\ (at = 1 \/ open /= <<>>)
Header == package.headers[at]
Depth == Len(open)

FrameFault ==
  IF at > Len(package.headers) THEN "UNBALANCED"
  ELSE IF Depth > MaxDepth THEN "DEPTH"
  ELSE IF Header.kind = "end" /\ (open = <<>> \/ Last(open) /= Header.type) THEN "UNBALANCED"
  ELSE Ok

FrameFails ==
  /\ Walking /\ FrameFault /= Ok
  /\ Fail(FrameFault)
  /\ UNCHANGED <<index, package, at, open, reader, tables, merged>>

Starts(depth) == Walking /\ FrameFault = Ok /\ Header.kind = "start" /\ Depth = depth

(* The event is consumed: the handler's code, and what it leaves behind.   *)
Take(code, ix, tb, rd) ==
  /\ IF code = Ok
     THEN /\ index' = ix /\ tables' = tb /\ reader' = rd
          /\ at' = at + 1
          /\ open' = IF Header.compound THEN Append(open, Header.type) ELSE open
          /\ UNCHANGED <<phase, fault>>
     ELSE Fail(code) /\ UNCHANGED <<index, tables, reader, at, open>>
  /\ UNCHANGED <<package, merged>>

-----------------------------------------------------------------------------
Element == reader.element
Counted == [reader EXCEPT !.element.children = @ + 1]

(* The packaging object itself, and the first object in it, which is the   *)
(* package; what comes after the package is passed over.                   *)
ReadPackaging == Starts(0) /\ Take(Ok, index, tables, reader)

StartPackage ==
  /\ Starts(1)
  /\ IF reader.sawPackage THEN Take(Ok, index, tables, reader)
     ELSE Take(IF Header.type = "DataElementPackage" THEN Ok ELSE "MISSING_STRUCTURE",
               index, tables, [reader EXCEPT !.sawPackage = TRUE, !.inPackage = TRUE])

LeaveElement(rd) == [rd EXCEPT !.element = NoElement]
Leave(rd) == [rd EXCEPT !.element = NoElement, !.section = Nil]
Unfinished(element) == element.children = 0 /\ element.type \in NeedsChild

BeginElement ==
  /\ Starts(2) /\ reader.inPackage
  /\ LET shape == ShapeFault(Header, {"DataElement"})
         id == Header.body.id
         type == Header.body.type
         group == Len(tables.groups) + 1
         element == [NoElement EXCEPT !.id = id, !.type = type,
                                      !.group = IF type = "ObjectGroup" THEN group ELSE 0]
         entered == [reader EXCEPT
                       !.element = element,
                       !.sawIndex = @ \/ type = "StorageIndex",
                       !.sawManifest = @ \/ type = "StorageManifest"]
         code == CASE shape /= Ok              -> shape
                   [] type \notin ElementTypes -> "DATA_ELEMENT_TYPE"
                   [] ~Header.compound /\ Unfinished(element) -> "MISSING_STRUCTURE"
                   [] OTHER                    -> Ok
     IN Take(code, index,
             IF type = "ObjectGroup"
             THEN [tables EXCEPT !.groups = Append(@, [declarations |-> <<>>, data |-> <<>>]),
                                 !.groupByElement = WithEntry(@, id, group)]
             ELSE tables,
             IF Header.compound THEN entered ELSE Leave(entered))

InElement(type) == Starts(3) /\ Element.type = type

ReadStorageIndexMapping ==
  /\ InElement("StorageIndex")
  /\ Take(ShapeFault(Header, IndexMappings), index,
       CASE Header.type = "StorageIndexManifestMapping" ->
              [tables EXCEPT !.manifestMappings = Append(@, Header.body)]
         [] Header.type = "StorageIndexCellMapping" ->
              [tables EXCEPT !.cellMappings = Append(@, Header.body)]
         [] OTHER -> [tables EXCEPT !.revisionMappings = Append(@, Header.body)],
       Counted)

ReadStorageManifestChild ==
  /\ InElement("StorageManifest")
  /\ IF Element.children = 0
     THEN Take(ShapeFault(Header, {"StorageManifestSchemaGuid"}), index, tables, Counted)
     ELSE Take(ShapeFault(Header, {"StorageManifestRootDeclare"}), index,
               [tables EXCEPT !.manifestRoots = Append(@, Header.body)], Counted)

ReadCellManifest ==
  /\ InElement("CellManifest")
  /\ IF Element.children = 0
     THEN Take(ShapeFault(Header, {"CellManifestCurrentRevision"}), index,
               [tables EXCEPT !.cellManifests = WithEntry(@, Element.id, Header.body)], Counted)
     ELSE Take(Ok, index, tables, Counted)

ReadRevisionManifest ==
  /\ InElement("RevisionManifest") /\ Element.children = 0
  /\ LET order == Len(index.revisions) + 1
     IN Take(ShapeFault(Header, {"RevisionManifest"}),
             AddRevision(index, Header.body.revision, Optional(Header.body.base),
                         0, FALSE, Nil, Nil),
             [tables EXCEPT !.revisionOfElement = WithEntry(@, Element.id, order),
                            !.revisionGroups = Append(@, <<>>)],
             [Counted EXCEPT !.element.revision = order])

ReadRevisionManifestChild ==
  /\ InElement("RevisionManifest") /\ Element.children > 0
  /\ LET shape == ShapeFault(Header, {"RevisionManifestRootDeclare",
                                      "RevisionManifestObjectGroupReference"})
     IN IF Header.type = "RevisionManifestRootDeclare"
        THEN Take(shape, AddRootObject(index, Element.revision, Header.body.object,
                                       Header.body.role), tables, Counted)
        ELSE Take(shape, index,
                  [tables EXCEPT !.revisionGroups[Element.revision] = Append(@, Header.body)],
                  Counted)

OpenSection ==
  /\ InElement("ObjectGroup")
  /\ Take(IF Header.type \in Sections THEN Ok ELSE "MISSING_STRUCTURE", index, tables,
          [Counted EXCEPT !.section = Header.type])

ReadBlob ==
  /\ InElement("ObjectDataBlob")
  /\ IF Element.children = 0
     THEN Take(IF Header.type = "ObjectDataBlob" THEN Ok ELSE "MISSING_STRUCTURE",
               AddFileData(index, Element.id, Header.body), tables, Counted)
     ELSE Take(Ok, index, tables, Counted)

InSection(section) == Starts(4) /\ reader.section = section

ReadDeclaration ==
  /\ InSection("ObjectGroupDeclarations")
  /\ Take(ShapeFault(Header, DeclareTypes), index,
          [tables EXCEPT !.groups[Element.group].declarations = Append(@, Header.body)], reader)

ReadObjectData ==
  /\ InSection("ObjectGroupData")
  /\ Take(ShapeFault(Header, DataTypes), index,
          [tables EXCEPT !.groups[Element.group].data = Append(@, Header.body)], reader)

(* What no handler looks at: objects outside the package, the children of  *)
(* a fragment, and whatever nests deeper than an object's data.            *)
PassEvent ==
  /\ \/ Starts(2) /\ ~reader.inPackage
     \/ Starts(3) /\ Element.type \in {Nil, "DataElementFragment"}
     \/ Starts(4) /\ reader.section = Nil
     \/ Depth > 4 /\ Starts(Depth)
  /\ Take(Ok, index, tables, IF Depth = 3 /\ Element.type /= Nil THEN Counted ELSE reader)

EndObject ==
  /\ Walking /\ FrameFault = Ok /\ Header.kind = "end"
  /\ LET closes == Depth - 1
         fails == closes = 2 /\ Unfinished(Element)
     IN IF fails THEN Fail("MISSING_STRUCTURE") /\ UNCHANGED <<reader, at, open>>
        ELSE /\ reader' = (CASE closes = 1 -> [reader EXCEPT !.inPackage = FALSE]
                             [] closes = 2 -> Leave(reader)
                             [] closes = 3 -> [reader EXCEPT !.section = Nil]
                             [] OTHER      -> reader)
             /\ at' = at + 1 /\ open' = Front(open)
             /\ UNCHANGED <<phase, fault>>
  /\ UNCHANGED <<index, package, tables, merged>>

(* Nothing but padding may follow, and both halves of the storage must     *)
(* have been there.                                                        *)
EndFault ==
  CASE package.trailing    -> "TRAILING"
    [] ~reader.sawIndex    -> "NO_STORAGE_INDEX"
    [] ~reader.sawManifest -> "NO_STORAGE_MANIFEST"
    [] OTHER               -> Ok

WalkEnds ==
  /\ phase = "walk" /\ at > 1 /\ open = <<>>
  /\ IF EndFault = Ok THEN phase' = "merge" /\ UNCHANGED fault ELSE Fail(EndFault)
  /\ UNCHANGED <<index, package, at, open, reader, tables, merged>>

-----------------------------------------------------------------------------
(* #accumulateObjects.  A declaration and the data at its position make a  *)
(* partition; a declaration with no data beside it describes nothing.      *)

ObjectGroupsOf(revision) == tables.revisionGroups[revision]
ObjectGroup(element) == Get(tables.groupByElement, element)
ObjectGroupAt(order) ==
  [declarationCount |-> Len(tables.groups[order].declarations),
   dataCount |-> Len(tables.groups[order].data)]
DeclarationAt(group, position) == tables.groups[group].declarations[position]
ObjectDataAt(group, position) == tables.groups[group].data[position]

PartitionsOf(group) ==
  IF group = Nil THEN {}
  ELSE {i \in 1..ObjectGroupAt(group).declarationCount : i <= ObjectGroupAt(group).dataCount}

(* Where a partition is: its revision, which of the revision's groups, and *)
(* its position there.  They are merged in that order.                     *)
Partitions ==
  UNION {UNION {{<<r, i, position>> : position \in PartitionsOf(ObjectGroup(ObjectGroupsOf(r)[i]))}
                : i \in DOMAIN ObjectGroupsOf(r)} : r \in DOMAIN index.revisions}
Before(p, q) ==
  \/ p[1] < q[1]
  \/ p[1] = q[1] /\ (p[2] < q[2] \/ (p[2] = q[2] /\ p[3] < q[3]))
Unmerged == {p \in Partitions : Before(merged, p)}

(* The object being put together for an identity in a revision: one of     *)
(* this revision's, or a new one, which an identity seen before carries    *)
(* forward.                                                                *)
AcrossRevisions(ix, revision, id) ==
  IF Has(ix.objectByGuid, id) THEN {ix.objectByGuid[id]} ELSE {}

InRevision(ix, revision, id) ==
  {o \in Range(ObjectsOf(ix, revision)) : ObjectAt(ix, o).id = id}

FreshObject(revision, id) ==
  [id |-> id, jcid |-> 0, referenceCount |-> 0, revision |-> revision,
   revisionId |-> RevisionAt(index, revision).id,
   isRevision |-> HasObject(index, id),
   properties |-> Nil, objectReferences |-> <<>>, cellReferences |-> <<>>, blob |-> Nil]

BlobOf(declaration, data) == IF data.blob /= Nil THEN data.blob ELSE declaration.blob
Larger(a, b) == IF a >= b THEN a ELSE b

WithPartition(object, declaration, data) ==
  LET counted == [object EXCEPT !.referenceCount = Larger(@, declaration.references)]
  IN CASE declaration.partition = "metadata" -> [counted EXCEPT !.jcid = data.bytes.jcid]
       [] declaration.partition = "data" ->
            [counted EXCEPT !.properties = data.bytes,
                            !.objectReferences = data.objectReferences,
                            !.cellReferences = data.cellReferences]
       [] declaration.partition = "file" -> [counted EXCEPT !.blob = BlobOf(declaration, data)]
       [] OTHER -> counted

Merge(revision, declaration, data) ==
  LET known == InRevision(index, revision, declaration.object)
      held == IF known /= {} THEN index
              ELSE AddObject(index, FreshObject(revision, declaration.object))
      order == IF known /= {} THEN CHOOSE o \in known : TRUE ELSE Len(held.objects)
      code == CASE known = {} /\ Len(index.objects) >= MaxObjects -> "OBJECT_LIMIT"
                [] declaration.partition = "metadata" /\ ~FourBytes(data.bytes) -> "JCID"
                [] OTHER -> Ok
  IN IF code /= Ok THEN Fail(code) /\ UNCHANGED index
     ELSE /\ index' = UpdateObject(held, order,
                        WithPartition(ObjectAt(held, order), declaration, data))
          /\ UNCHANGED <<phase, fault>>

MergePartition ==
  /\ phase = "merge"
  /\ \E p \in Unmerged :
       LET group == ObjectGroup(ObjectGroupsOf(p[1])[p[2]])
       IN /\ \A q \in Unmerged \ {p} : Before(p, q)
          /\ Merge(p[1], DeclarationAt(group, p[3]), ObjectDataAt(group, p[3]))
          /\ merged' = p
  /\ UNCHANGED <<package, at, open, reader, tables>>

MergeEnds ==
  /\ phase = "merge" /\ Unmerged = {}
  /\ phase' = "placed"
  /\ UNCHANGED <<index, package, at, open, reader, tables, merged, fault>>

-----------------------------------------------------------------------------
PackageInit ==
  /\ package \in Packages
  /\ index = EmptyIndex("file-synchronization-package")
  /\ phase = "walk" /\ at = 1 /\ open = <<>>
  /\ reader = [sawPackage |-> FALSE, inPackage |-> FALSE, sawIndex |-> FALSE,
               sawManifest |-> FALSE, element |-> NoElement, section |-> Nil]
  /\ tables = EmptyTables /\ merged = <<0, 0, 0>> /\ fault = Ok

PackageNext ==
  \/ FrameFails \/ ReadPackaging \/ StartPackage \/ BeginElement
  \/ ReadStorageIndexMapping \/ ReadStorageManifestChild \/ ReadCellManifest
  \/ ReadRevisionManifest \/ ReadRevisionManifestChild \/ OpenSection \/ ReadBlob
  \/ ReadDeclaration \/ ReadObjectData \/ PassEvent \/ EndObject \/ WalkEnds
  \/ MergePartition \/ MergeEnds
====
