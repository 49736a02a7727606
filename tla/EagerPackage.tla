---- MODULE EagerPackage ----
(***************************************************************************)
(* The packaged reader that builds everything: walk makes a tree of the    *)
(* stream objects, readDataElementPackage maps of the tree, and            *)
(* buildObjectGraph the ObjectGraph of the maps.  It is the reference the  *)
(* packaged indexer and the resolver are checked against.  Each pass       *)
(* carries the code of the error that ended it.                            *)
(***************************************************************************)
EXTENDS PackageFile, SequencesExt

Broken(st) == st.error /= Ok
Throws(st, code) == [st EXCEPT !.error = code]

-----------------------------------------------------------------------------
(* walk: readChildren from a header on, for the object that closes with    *)
(* the given type.                                                         *)
RECURSIVE ReadChildren(_, _, _, _, _)
ReadChildren(headers, from, depth, closing, nodes) ==
  LET Out(code) == [error |-> code, at |-> from + 1, nodes |-> nodes]
      h == headers[from]
  IN IF depth > MaxDepth THEN Out("DEPTH")
     ELSE IF from > Len(headers) THEN Out("UNBALANCED")
     ELSE IF h.kind = "end" THEN Out(IF h.type = closing THEN Ok ELSE "UNBALANCED")
     ELSE LET inner == IF h.compound THEN ReadChildren(headers, from + 1, depth + 1, h.type, <<>>)
                       ELSE Out(Ok)
              node == [type |-> h.type, body |-> h.body,
                       children |-> IF h.compound THEN inner.nodes ELSE <<>>]
          IN IF Broken(inner) THEN inner
             ELSE ReadChildren(headers, inner.at, depth, closing, Append(nodes, node))

(* The children of the packaging object. *)
Walked(p) ==
  LET h == p.headers[1]
      result == CASE p.headers = <<>> -> [error |-> "UNBALANCED", at |-> 1, nodes |-> <<>>]
                  [] h.kind = "end"   -> [error |-> "UNBALANCED", at |-> 1, nodes |-> <<>>]
                  [] ~h.compound      -> [error |-> Ok, at |-> 2, nodes |-> <<>>]
                  [] OTHER            -> ReadChildren(p.headers, 2, 1, h.type, <<>>)
  IN IF Broken(result) \/ ~p.trailing THEN result ELSE Throws(result, "TRAILING")

-----------------------------------------------------------------------------
(* readDataElementPackage, element by element.                             *)

(* A map keeps the place of a key that is set again, and its last value.   *)
Put(map, key, value) ==
  IF \E i \in DOMAIN map : map[i].key = key
  THEN [i \in DOMAIN map |-> IF map[i].key = key THEN [key |-> key, value |-> value] ELSE map[i]]
  ELSE Append(map, [key |-> key, value |-> value])
Fetch(map, key) ==
  LET places == {i \in DOMAIN map : map[i].key = key}
  IN IF places = {} THEN Nil ELSE map[CHOOSE i \in places : TRUE].value

FirstFault(faults) ==
  IF SelectInSeq(faults, LAMBDA f: f /= Ok) = 0 THEN Ok
  ELSE faults[SelectInSeq(faults, LAMBDA f: f /= Ok)]

Shapes(nodes, types) == FirstFault([i \in DOMAIN nodes |-> ShapeFault(nodes[i], types)])

(* The first child has its own type, the others one of theirs. *)
HeadedFault(element, head, rest) ==
  IF element.children = <<>> THEN "MISSING_STRUCTURE"
  ELSE FirstFault(<<ShapeFault(element.children[1], {head}), Shapes(Tail(element.children), rest)>>)

OfType(nodes, type) == SelectSeq(nodes, LAMBDA n: n.type = type)
Bodies(nodes) == [i \in DOMAIN nodes |-> nodes[i].body]

SectionFault(section) ==
  CASE section.type = "ObjectGroupDeclarations" -> Shapes(section.children, DeclareTypes)
    [] section.type = "ObjectGroupData"         -> Shapes(section.children, DataTypes)
    [] OTHER                                    -> "MISSING_STRUCTURE"

RevisionChildren == {"RevisionManifestRootDeclare", "RevisionManifestObjectGroupReference"}

ElementFault(element) ==
  LET children == element.children
      shape == ShapeFault(element, {"DataElement"})
  IN IF shape /= Ok THEN shape
     ELSE CASE element.body.type = "StorageIndex" -> Shapes(children, IndexMappings)
            [] element.body.type = "StorageManifest" ->
                 HeadedFault(element, "StorageManifestSchemaGuid", {"StorageManifestRootDeclare"})
            [] element.body.type = "CellManifest" ->
                 IF children = <<>> THEN "MISSING_STRUCTURE"
                 ELSE ShapeFault(children[1], {"CellManifestCurrentRevision"})
            [] element.body.type = "RevisionManifest" ->
                 HeadedFault(element, "RevisionManifest", RevisionChildren)
            [] element.body.type = "ObjectGroup" ->
                 FirstFault([i \in DOMAIN children |-> SectionFault(children[i])])
            [] element.body.type = "ObjectDataBlob" ->
                 IF children = <<>> THEN "MISSING_STRUCTURE"
                 ELSE IF children[1].type = "ObjectDataBlob" THEN Ok ELSE "MISSING_STRUCTURE"
            [] element.body.type = "DataElementFragment" -> Ok
            [] OTHER -> "DATA_ELEMENT_TYPE"

InSections(element, type) ==
  LET sections == OfType(element.children, type)
  IN Bodies(FlattenSeq([i \in DOMAIN sections |-> sections[i].children]))

ReadElement(st, element) ==
  LET children == element.children
      key == element.body.id
      Of(type) == Bodies(OfType(Tail(children), type))
  IN IF Broken(st) THEN st
     ELSE IF ElementFault(element) /= Ok THEN Throws(st, ElementFault(element))
     ELSE CASE element.body.type = "StorageIndex" ->
                 [st EXCEPT !.storageIndex =
                    [manifestMappings |-> Bodies(OfType(children, "StorageIndexManifestMapping")),
                     cellMappings     |-> Bodies(OfType(children, "StorageIndexCellMapping")),
                     revisionMappings |-> Bodies(OfType(children, "StorageIndexRevisionMapping"))]]
            [] element.body.type = "StorageManifest" ->
                 [st EXCEPT !.storageManifest = Of("StorageManifestRootDeclare")]
            [] element.body.type = "CellManifest" ->
                 [st EXCEPT !.cellManifests = Put(@, key, children[1].body)]
            [] element.body.type = "RevisionManifest" ->
                 [st EXCEPT !.revisionManifests = Put(@, key,
                    [id |-> children[1].body.revision, base |-> children[1].body.base,
                     roots |-> Of("RevisionManifestRootDeclare"),
                     objectGroups |-> Of("RevisionManifestObjectGroupReference")])]
            [] element.body.type = "ObjectGroup" ->
                 [st EXCEPT !.objectGroups = Put(@, key,
                    [declarations |-> InSections(element, "ObjectGroupDeclarations"),
                     data         |-> InSections(element, "ObjectGroupData")])]
            [] element.body.type = "ObjectDataBlob" ->
                 [st EXCEPT !.blobs = Put(@, key, children[1].body)]
            [] OTHER -> st

NoParts == [error |-> Ok, storageIndex |-> Nil, storageManifest |-> Nil, cellManifests |-> <<>>,
            revisionManifests |-> <<>>, objectGroups |-> <<>>, blobs |-> <<>>]

ReadPackage(p) ==
  LET walked == Walked(p)
      st == FoldLeft(LAMBDA s, element: ReadElement(s, element), NoParts, walked.nodes[1].children)
  IN CASE Broken(walked)            -> Throws(NoParts, walked.error)
       [] walked.nodes = <<>>       -> Throws(NoParts, "MISSING_STRUCTURE")
       [] walked.nodes[1].type /= "DataElementPackage" -> Throws(NoParts, "MISSING_STRUCTURE")
       [] Broken(st)                -> st
       [] st.storageIndex = Nil     -> Throws(st, "NO_STORAGE_INDEX")
       [] st.storageManifest = Nil  -> Throws(st, "NO_STORAGE_MANIFEST")
       [] OTHER                     -> st

-----------------------------------------------------------------------------
(* buildObjectGraph.  A working revision has the cell it is placed in.     *)

LastWith(seq, Test(_)) == SelectLastInSeq(seq, Test)

(* assignCell: the head of the chain is current, all of it is in the cell. *)
RECURSIVE AssignCell(_, _, _, _, _)
AssignCell(working, at, cell, order, visited) ==
  IF at = 0 THEN working
  ELSE IF working[at].id \in visited THEN working
  ELSE LET context == ContextOf(cell.first)
           role == [context |-> context, role |-> 1, order |-> order]
           placed == [working EXCEPT
             ![at].cell = cell, ![at].space = cell.second, ![at].context = context,
             ![at].roles = IF visited = {} THEN Append(@, role) ELSE @]
       IN AssignCell(placed, LastWith(working, LAMBDA r: r.id = working[at].dependency), cell,
                     order, visited \union {working[at].id})

AssignMapping(st, parts, mapping) ==
  LET manifest == Fetch(parts.cellManifests, mapping.id)
      mappings == parts.storageIndex.revisionMappings
      mapped == LastWith(mappings, LAMBDA m: m.revision = manifest)
      head == IF manifest = Nil \/ mapped = 0 THEN 0
              ELSE LastWith(st.working, LAMBDA r: r.element = mappings[mapped].id)
  IN IF head = 0 THEN st
     ELSE [working |-> AssignCell(st.working, head, mapping.cell, st.order, {}),
           order |-> st.order + 1]

Working(parts) ==
  LET manifests == parts.revisionManifests
      fresh == [i \in DOMAIN manifests |->
                  [element |-> manifests[i].key, id |-> manifests[i].value.id,
                   dependency |-> Optional(manifests[i].value.base), encrypted |-> FALSE,
                   context |-> Nil, space |-> Nil, cell |-> Nil,
                   roots |-> [j \in DOMAIN manifests[i].value.roots |->
                                [object |-> manifests[i].value.roots[j].object,
                                 role |-> manifests[i].value.roots[j].role]],
                   roles |-> <<>>, objectGroups |-> manifests[i].value.objectGroups]]
  IN FoldLeft(LAMBDA st, mapping: AssignMapping(st, parts, mapping),
              [working |-> fresh, order |-> 1], parts.storageIndex.cellMappings).working

(* accumulate: one partition into the objects of a revision, in the order  *)
(* the objects were first declared.                                        *)
Accumulate(st, declaration, data) ==
  LET found == SelectInSeq(st.items, LAMBDA o: o.id = declaration.object)
      place == IF found = 0 THEN Len(st.items) + 1 ELSE found
      fresh == [id |-> declaration.object, jcid |-> 0, referenceCount |-> 0, properties |-> Nil,
                objectReferences |-> <<>>, cellReferences |-> <<>>, blob |-> Nil]
      items == IF found = 0 THEN Append(st.items, fresh) ELSE st.items
      item == [items[place] EXCEPT
                 !.referenceCount = IF @ >= declaration.references THEN @ ELSE declaration.references]
      Holding(new) == [st EXCEPT !.items = [items EXCEPT ![place] = new]]
  IN IF Broken(st) THEN st
     ELSE CASE declaration.partition = "metadata" ->
                 IF FourBytes(data.bytes) THEN Holding([item EXCEPT !.jcid = data.bytes.jcid])
                 ELSE Throws(st, "JCID")
            [] declaration.partition = "data" ->
                 Holding([item EXCEPT !.properties = data.bytes,
                                      !.objectReferences = data.objectReferences,
                                      !.cellReferences = data.cellReferences])
            [] declaration.partition = "file" ->
                 Holding([item EXCEPT !.blob = IF data.blob = Nil THEN declaration.blob
                                               ELSE data.blob])
            [] OTHER -> Holding(item)

AccumulateGroup(st, group) ==
  IF group = Nil THEN st
  ELSE FoldLeft(LAMBDA s, i: IF i > Len(group.data) THEN s
                             ELSE Accumulate(s, group.declarations[i], group.data[i]),
                st, [i \in DOMAIN group.declarations |-> i])

(* addMappings and buildGlobalIds: the table an object's CompactIDs are    *)
(* resolved through, rebuilt from its reference arrays; Nil when they do   *)
(* not pair, which ends the code's reading: the model goes on, so that the *)
(* rest of the graph can be compared with an index that pairs later, when  *)
(* it is asked.  A CompactID is its index and the ordinal it repeats.      *)
Null(compact, extended) == /\ compact = [index |-> 0, ordinal |-> 0]
                           /\ extended = [guid |-> NilGuid, ordinal |-> 0]

AddMappings(into, compactIds, extendedIds) ==
  IF into = Nil \/ Len(compactIds) /= Len(extendedIds) THEN Nil
  ELSE FoldLeft(LAMBDA table, i:
         LET compact == compactIds[i]
             extended == extendedIds[i]
         IN CASE table = Nil             -> Nil
              [] Null(compact, extended) -> table
              [] BadIndex(compact.index) -> Nil
              [] extended.guid = NilGuid -> Nil
              [] extended.ordinal /= compact.ordinal -> Nil
              [] Get(table, compact.index) \notin {Nil, extended.guid} -> Nil
              [] OTHER -> (compact.index :> extended.guid) @@ table,
       into, [i \in DOMAIN compactIds |-> i])

BuildGlobalIds(item, cell) ==
  LET own == SelectSeq(item.cellReferences, LAMBDA c: c.first.guid = cell.first)
      other == SelectSeq(item.cellReferences, LAMBDA c: c.first.guid /= cell.first)
      streams == item.properties.streams
      objects == AddMappings(<<>>, streams.object, item.objectReferences)
      spaces == IF streams.space = Nil THEN objects
                ELSE AddMappings(objects, streams.space, [i \in DOMAIN own |-> own[i].second])
  IN IF streams.space = Nil \/ streams.context = Nil THEN spaces
     ELSE AddMappings(spaces, streams.context, [i \in DOMAIN other |-> other[i].first])

(* The objects of one placed revision, after those of the revisions before *)
(* it, and the bytes of those that name them; the first to give a name its *)
(* bytes is the one that does.                                             *)
AddRevisionObjects(st, parts, revision) ==
  LET st0 == FoldLeft(LAMBDA s, id: AccumulateGroup(s, Fetch(parts.objectGroups, id)),
                      [error |-> Ok, items |-> <<>>], revision.objectGroups)
      Known(id) == \E i \in DOMAIN st.objects : st.objects[i].id = id
      records == [i \in DOMAIN st0.items |->
                    [revisionId |-> revision.id, isRevision |-> Known(st0.items[i].id),
                     globalIds |-> IF st0.items[i].properties = Nil THEN <<>>
                                   ELSE BuildGlobalIds(st0.items[i], revision.cell)]
                    @@ st0.items[i]]
      AddFile(files, o) ==
        LET name == IF o.properties = Nil THEN Nil ELSE o.properties.file
            payload == Fetch(parts.blobs, o.blob)
        IN IF Nil \in {name, o.blob, payload} THEN files ELSE files @@ (name :> payload)
  IN CASE Broken(st)            -> st
       [] revision.cell = Nil   -> st
       [] Broken(st0)           -> Throws(st, st0.error)
       [] Len(st.objects) + Len(records) > MaxObjects -> Throws(st, "OBJECT_LIMIT")
       [] OTHER                 -> [st EXCEPT !.objects = @ \o records,
                                              !.files = FoldLeft(AddFile, @, records)]

(* The whole reading: its error, the parts, the graph of the placed        *)
(* revisions, and whether every revision found a place.                    *)
BuildObjectGraph(p) ==
  LET parts == ReadPackage(p)
      working == Working(parts)
      built == FoldLeft(LAMBDA st, r: AddRevisionObjects(st, parts, r),
                        [error |-> Ok, objects |-> <<>>, files |-> <<>>], working)
  IN IF Broken(parts)
     THEN [error |-> parts.error, parts |-> parts, allPlaced |-> TRUE,
           graph |-> [revisions |-> <<>>, objects |-> <<>>, files |-> <<>>]]
     ELSE [error |-> built.error, parts |-> parts,
           allPlaced |-> \A i \in DOMAIN working : working[i].cell /= Nil,
           graph |-> [revisions |-> FlattenSeq([i \in DOMAIN working |->
                                      IF working[i].space = Nil THEN <<>> ELSE <<working[i]>>]),
                      objects |-> built.objects, files |-> built.files]]
====
