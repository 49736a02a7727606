---- MODULE EagerReader ----
(***************************************************************************)
(* The vendored desktop reader: the whole transaction log, then every list *)
(* as an array of nodes, linked breadth first, then one walk of the linked *)
(* lists into an ObjectGraph whose property sets are decoded as they are   *)
(* met.  It is the reference the indexer is checked against; nothing in it *)
(* is a step.  Each pass is a record that carries the code of the error    *)
(* that ended it.                                                          *)
(***************************************************************************)
EXTENDS DesktopFile, SequencesExt

-----------------------------------------------------------------------------
(* readPropertySet: the whole set, every CompactID resolved on the way.  A *)
(* cursor is where it stands, how many properties it has counted, what it  *)
(* has taken of each stream, the set in its hands and the error that       *)
(* stopped it.                                                             *)

ReadReferenceStream(data, ids, c, kind) ==
  LET header == data[c.at]
      count == StreamCount(header)
      here == SubSeq(data, c.at + 1, IF Short(data, c.at + 1, count) THEN Len(data) ELSE c.at + count)
  IN IF Stopped(c) THEN c
     ELSE IF Short(data, c.at, 1) THEN Throw(c, "TRUNCATED_PROPERTY_SET")
     ELSE IF BadHeader(header) THEN Throw(c, "OBJECT_STREAM_HEADER")
     ELSE IF \E i \in DOMAIN here : ~Has(ids, here[i]) THEN Throw(c, "COMPACT_ID")
     ELSE IF Len(here) < count THEN Throw(c, "TRUNCATED_PROPERTY_SET")
     ELSE [c EXCEPT !.streams[kind] = [i \in 1..count |-> ids[here[i]]],
                    !.at = @ + 1 + count, !.header = header]

(* A stream's header says whether the next one is there. *)
ReadContexts(data, ids, c) ==
  IF ExtendedStreams(c.header) THEN ReadReferenceStream(data, ids, c, "context") ELSE c

ReadSpaces(data, ids, c) ==
  IF SpacesNotPresent(c.header) THEN c
  ELSE ReadContexts(data, ids, ReadReferenceStream(data, ids, c, "objectSpace"))

ReadReferenceStreams(data, ids) ==
  LET start == [error |-> Ok, at |-> 1, total |-> 0, header |-> 0, set |-> <<>>,
                taken |-> [k \in Kinds |-> 0], streams |-> [k \in Kinds |-> <<>>]]
  IN ReadSpaces(data, ids, ReadReferenceStream(data, ids, start, "object"))

Holding(c, property) == [c EXCEPT !.set = Append(@, property)]

ReadScalar(data, c, property) ==
  LET width == Width[PropertyType(property.rawId)]
      units == SubSeq(data, c.at, c.at + width - 1)
  IN IF Short(data, c.at, width) THEN Throw(c, "TRUNCATED_PROPERTY_SET")
     ELSE Holding([c EXCEPT !.at = @ + width],
                  [property EXCEPT !.data = units, !.scalar = ScalarOf(units)])

ReadData(data, c, property) ==
  LET length == data[c.at]
  IN IF Short(data, c.at, 1) THEN Throw(c, "TRUNCATED_PROPERTY_SET")
     ELSE IF length >= MaxDataLength THEN Throw(c, "PROPERTY_DATA_LENGTH")
     ELSE IF Short(data, c.at + 1, length) THEN Throw(c, "TRUNCATED_PROPERTY_SET")
     ELSE Holding([c EXCEPT !.at = @ + 1 + length],
                  [property EXCEPT !.data = SubSeq(data, c.at + 1, c.at + length)])

TakeReferences(c, property, count) ==
  LET kind == KindOf[PropertyType(property.rawId)]
      first == c.taken[kind]
  IN IF first > Len(c.streams[kind]) - count THEN Throw(c, "REFERENCE_STREAM")
     ELSE Holding([c EXCEPT !.taken[kind] = @ + count],
                  [property EXCEPT !.references = SubSeq(c.streams[kind], first + 1, first + count)])

ReadReferences(data, c, property) ==
  IF ~HasCount(PropertyType(property.rawId)) THEN TakeReferences(c, property, 1)
  ELSE IF CountFault(data, c.at) /= Ok THEN Throw(c, CountFault(data, c.at))
  ELSE TakeReferences([c EXCEPT !.at = @ + 1], property, data[c.at])

RECURSIVE ReadSet(_, _, _), ReadChildren(_, _, _, _, _, _)

(* count sets, one after another, each from where the last left off. *)
ReadChildren(data, c, property, children, count, depth) ==
  IF count = 0
  THEN Holding(c, [property EXCEPT !.children = children])
  ELSE LET child == ReadSet(data, [c EXCEPT !.set = <<>>], depth + 1)
       IN IF Stopped(child) THEN child
          ELSE ReadChildren(data, [child EXCEPT !.set = c.set], property,
                            Append(children, child.set), count - 1, depth)

ReadSetArray(data, c, property, depth) ==
  LET count == data[c.at]
  IN IF CountFault(data, c.at) /= Ok THEN Throw(c, CountFault(data, c.at))
     ELSE IF count = 0 THEN Holding([c EXCEPT !.at = @ + 1], [property EXCEPT !.children = <<>>])
     ELSE IF Short(data, c.at + 1, 1) THEN Throw(c, "TRUNCATED_PROPERTY_SET")
     ELSE IF PropertyType(data[c.at + 1]) /= OneSet THEN Throw(c, "PROPERTY_ARRAY_TYPE")
     ELSE ReadChildren(data, [c EXCEPT !.at = @ + 2], property, <<>>, count, depth)

ReadProperty(data, c, property, depth) ==
  LET type == PropertyType(property.rawId)
  IN IF Stopped(c) THEN c
     ELSE CASE type = 1              -> Holding(c, property)
            [] type = 2              -> Holding(c, [property EXCEPT !.boolean = TopBit(property.rawId)])
            [] type \in DOMAIN Width -> ReadScalar(data, c, property)
            [] type = 7              -> ReadData(data, c, property)
            [] type \in DOMAIN KindOf -> ReadReferences(data, c, property)
            [] type = SetArray       -> ReadSetArray(data, c, property, depth)
            [] type = OneSet         -> ReadChildren(data, c, property, <<>>, 1, depth)
            [] OTHER                 -> Throw(c, "PROPERTY_TYPE")

(* The count is charged to the object, nested sets and all. *)
ReadSet(data, c, depth) ==
  LET count == data[c.at]
  IN IF depth >= MaxSetDepth THEN Throw(c, "PROPERTY_DEPTH")
     ELSE IF Short(data, c.at, 1) THEN Throw(c, "TRUNCATED_PROPERTY_SET")
     ELSE IF c.total + count > MaxProperties THEN Throw(c, "PROPERTY_LIMIT")
     ELSE IF Short(data, c.at + 1, count) THEN Throw(c, "TRUNCATED_PROPERTY_SET")
     ELSE FoldLeft(LAMBDA st, i: ReadProperty(data, st, Blank(data[c.at + i], i), depth),
                   [c EXCEPT !.at = @ + 1 + count, !.total = @ + count],
                   [i \in 1..count |-> i])

(* readPropertySet: the error, the identifiers of the object stream, and   *)
(* the properties.                                                         *)
ReadRootSet(data, c) == IF Stopped(c) THEN c ELSE ReadSet(data, c, 0)
Summary(c) == [error |-> c.error, objects |-> c.streams["object"], set |-> c.set]

ReadPropertySet(data, ids) ==
  Summary(ReadRootSet(data, ReadReferenceStreams(data, ids)))

(* findProperty: of those that share an identifier the last. *)
FindProperty(set, id) ==
  LET at == SelectLastInSeq(set, LAMBDA p: PropertyId(p.rawId) = id)
  IN IF at = 0 THEN Nil ELSE set[at]

TrimTrailingNulls(text) == SubSeq(text, 1, SelectLastInSeq(text, LAMBDA unit: unit /= 0))

-----------------------------------------------------------------------------
(* readTransactionLog.  read is the number of entries seen, and so the     *)
(* running checksum.                                                       *)

LogEntry(f, st, e) ==
  IF Stopped(st) \/ st.completed = f.log.transactions THEN st
  ELSE IF st.read >= MaxLogEntries THEN Throw(st, "TRANSACTION_ENTRY_LIMIT")
  ELSE IF e.list = Sentinel
  THEN IF e.value = st.read THEN [st EXCEPT !.completed = @ + 1, !.read = @ + 1]
       ELSE Throw(st, "TRANSACTION_CHECKSUM")
  ELSE IF e.list = Outside THEN Throw(st, "TRANSACTION_SOURCE_ID")
  ELSE IF e.value > MaxFileNodes THEN Throw(st, "TRANSACTION_FILE_NODE_COUNT")
  ELSE IF Has(st.counts, e.list) /\ e.value <= st.counts[e.list]
  THEN Throw(st, "TRANSACTION_FILE_NODE_SEQUENCE")
  ELSE [st EXCEPT !.counts = (e.list :> e.value) @@ @, !.read = @ + 1]

RECURSIVE LogFrom(_, _, _, _)
LogFrom(f, at, seen, st) ==
  IF Stopped(st) \/ st.completed = f.log.transactions THEN st
  ELSE IF at = Nil THEN Throw(st, "TRANSACTION_LOG_TRUNCATED")
  ELSE IF Cardinality(seen) >= MaxLogFragments THEN Throw(st, "TRANSACTION_FRAGMENT_LIMIT")
  ELSE IF at \in seen THEN Throw(st, "TRANSACTION_FRAGMENT_CYCLE")
  ELSE IF at = Outside THEN Throw(st, "TRANSACTION_FRAGMENT_BOUNDS")
  ELSE LET fragment == f.log.fragments[at]
       IN LogFrom(f, fragment.next, seen \union {at},
            FoldLeft(LAMBDA s, e: LogEntry(f, s, e), st, fragment.entries))

ReadTransactionLog(f) ==
  LET st == LogFrom(f, f.log.start, {},
              [error |-> Ok, completed |-> 0, read |-> 0, counts |-> <<>>])
  IN IF ~Stopped(st) /\ st.counts = <<>> THEN Throw(st, "TRANSACTION_LOG_EMPTY") ELSE st

-----------------------------------------------------------------------------
(* readFileNodeList: the nodes of one fragment, no more of them than are   *)
(* committed and none past a terminator; then the chain.                   *)

FragmentNodes(nodes, maximum) ==
  LET ends == {i \in DOMAIN nodes : nodes[i].id = "chunkTerminator"} \union {Len(nodes), maximum}
  IN SubSeq(nodes, 1, CHOOSE n \in ends : \A m \in ends : n <= m)

NodesError(nodes) ==
  LET bad == {i \in DOMAIN nodes : \/ nodes[i].id = "malformed"
                                   \/ References(nodes[i]) /\ nodes[i].child = Outside}
  IN IF bad = {} THEN Ok
     ELSE IF nodes[CHOOSE i \in bad : \A j \in bad : i <= j].id = "malformed"
     THEN "FILE_NODE_SIZE" ELSE "CHUNK_REFERENCE_BOUNDS"

RECURSIVE FragmentsFrom(_, _, _, _, _)
FragmentsFrom(f, counts, at, seen, st) ==
  IF at = Nil THEN st
  ELSE IF Cardinality(seen) >= MaxListFragments THEN Throw(st, "FILE_NODE_FRAGMENT_LIMIT")
  ELSE IF at \in seen THEN Throw(st, "FILE_NODE_FRAGMENT_CYCLE")
  ELSE IF at = Outside THEN Throw(st, "CHUNK_REFERENCE_BOUNDS")
  ELSE LET fragment == f.fragments[at]
           list == fragment.list
           committed == Get(counts, list)
       IN IF st.list \notin {Nil, list} THEN Throw(st, "FILE_NODE_LIST_MISMATCH")
          ELSE IF committed = Nil THEN Throw(st, "TRANSACTION_FILE_NODE_LIST")
          ELSE IF committed < 1 THEN Throw(st, "TRANSACTION_FILE_NODE_COUNT")
          ELSE IF fragment.sequence /= Cardinality(seen) THEN Throw(st, "FILE_NODE_SEQUENCE")
          ELSE LET nodes == FragmentNodes(fragment.nodes, committed - Len(st.nodes))
                   read  == [st EXCEPT !.list = list, !.committed = committed,
                                       !.nodes = @ \o nodes, !.error = NodesError(nodes)]
               IN IF Stopped(read) \/ Len(read.nodes) = committed THEN read
                  ELSE FragmentsFrom(f, counts, fragment.next, seen \union {at}, read)

WholeList(st) ==
  IF Stopped(st) THEN st
  ELSE IF st.list = Nil THEN Throw(st, "FILE_NODE_LIST_EMPTY")
  ELSE IF Len(st.nodes) /= st.committed THEN Throw(st, "FILE_NODE_COUNT")
  ELSE st

ReadFileNodeList(f, counts, first) ==
  WholeList(FragmentsFrom(f, counts, first, {},
              [error |-> Ok, list |-> Nil, committed |-> 0, nodes |-> <<>>]))

-----------------------------------------------------------------------------
(* readRevisionStore: the root list, and every list reachable from it.     *)

RootError(nodes) ==
  LET OfKind(id) == Cardinality({i \in DOMAIN nodes : nodes[i].id = id})
  IN IF OfKind("objectSpaceManifestListReference") < 1 \/ OfKind("objectSpaceManifestRoot") /= 1
     THEN "ROOT_FILE_NODE_LIST"
     ELSE IF \E i \in DOMAIN nodes : nodes[i].id \notin RootAllowed THEN "ROOT_FILE_NODE_TYPE"
     ELSE Ok

LinkList(st, at, child) ==
  IF Stopped(child) THEN Throw(st, child.error)
  ELSE IF st.nodes + Len(child.nodes) > MaxFileNodes THEN Throw(st, "FILE_NODE_LIMIT")
  ELSE [st EXCEPT !.lists = (at :> child.nodes) @@ @,
                  !.nodes = @ + Len(child.nodes),
                  !.queue = Append(@, child.nodes)]

LinkNode(f, counts, st, node) ==
  IF Stopped(st) \/ ~References(node) THEN st
  ELSE IF node.child = Nil \/ Has(st.lists, node.child) THEN st
  ELSE LinkList(st, node.child, ReadFileNodeList(f, counts, node.child))

RECURSIVE LinkFrom(_, _, _)
LinkFrom(f, counts, st) ==
  IF Stopped(st) \/ st.queue = <<>> THEN st
  ELSE LinkFrom(f, counts,
         FoldLeft(LAMBDA s, node: LinkNode(f, counts, s, node),
                  [st EXCEPT !.queue = Tail(@)], Head(st.queue)))

-----------------------------------------------------------------------------
(* GraphReader: the linked lists, depth first.                             *)

ListFrame(nodes, revision, space) ==
  [nodes |-> nodes, next |-> 1, globalIds |-> <<>>, revision |-> revision, space |-> space]

EmptyGraph == [revisions |-> <<>>, objects |-> <<>>, fileData |-> <<>>]

(* The position of a revision in the graph; 0 when none carries the id. *)
Known(graph, id) ==
  LET at == {i \in DOMAIN graph.revisions : graph.revisions[i].id = id}
  IN IF at = {} THEN 0 ELSE CHOOSE i \in at : TRUE

ReadManifest(st, frame, node) ==
  IF Known(st.graph, node.revision) /= 0 THEN Throw(st, "REVISION_ID")
  ELSE [st EXCEPT
    !.graph.revisions = Append(@,
       [id |-> node.revision, dependency |-> Optional(node.dependency), role |-> node.role,
        encrypted |-> node.encrypted, context |-> node.context, space |-> frame.space,
        roots |-> <<>>,
        roles |-> <<[context |-> node.context, role |-> node.role, order |-> st.order + 1]>>]),
    !.order = @ + 1,
    !.frames[Len(st.frames)].revision = Len(st.graph.revisions) + 1]

ReadRole(st, frame, node) ==
  LET target == Known(st.graph, node.revision)
  IN IF node.role > 65535 THEN Throw(st, "REVISION_ROLE")
     ELSE IF \/ target = 0 \/ frame.space = Nil
             \/ st.graph.revisions[target].space /= frame.space
     THEN Throw(st, "REVISION_ROLE_TARGET")
     ELSE [st EXCEPT !.order = @ + 1,
             !.graph.revisions[target].roles =
               Append(@, [context |-> Optional(node.context), role |-> node.role,
                          order |-> st.order + 1])]

ReadEntry(st, frame, node) ==
  IF BadIndex(node.index) \/ Has(frame.globalIds, node.index) THEN Throw(st, "GLOBAL_ID_INDEX")
  ELSE IF node.guid = NilGuid THEN Throw(st, "GLOBAL_ID_GUID")
  ELSE [st EXCEPT !.frames[Len(st.frames)].globalIds = (node.index :> node.guid) @@ @]

ReadRoot(st, frame, node) ==
  LET object == IF node.id = "rootObjectReference3" THEN node.object
                ELSE Get(frame.globalIds, node.object)
  IN IF frame.revision = 0 THEN st
     ELSE IF object = Nil THEN Throw(st, "COMPACT_ID")
     ELSE [st EXCEPT !.graph.revisions[frame.revision].roots =
             Append(@, [object |-> object, role |-> node.role])]

LastJcid(graph, id) ==
  LET known == {i \in DOMAIN graph.objects : graph.objects[i].id = id /\ graph.objects[i].jcid /= 0}
  IN IF known = {} THEN 0 ELSE graph.objects[CHOOSE i \in known : \A j \in known : j <= i].jcid

(* The set of a declaration, resolved through the table as it stands there. *)
(* With decode FALSE it is left unread.                                    *)
DeclaredSet(st, frame, node, decode) ==
  LET encrypted == frame.revision /= 0 /\ st.graph.revisions[frame.revision].encrypted
  IN IF decode /\ node.id \in Declarations /\ ~encrypted
     THEN ReadPropertySet(node.properties, frame.globalIds) ELSE Nil

AddDeclared(st, frame, node, set) ==
  LET id == Get(frame.globalIds, node.object)
      revision == frame.revision
      jcid == IF node.id = "objectRevision" THEN LastJcid(st.graph, id) ELSE node.jcid
  IN IF Len(st.graph.objects) >= MaxObjects THEN Throw(st, "OBJECT_LIMIT")
     ELSE IF node.id \in Declarations /\ ~node.real THEN Throw(st, "OBJECT_REFERENCE")
     ELSE IF id = Nil THEN Throw(st, "COMPACT_ID")
     ELSE IF set /= Nil /\ set.error /= Ok THEN Throw(st, set.error)
     ELSE [st EXCEPT !.graph.objects = Append(@,
             [id |-> id, jcid |-> jcid, isRevision |-> node.id = "objectRevision",
              revisionId |-> IF revision = 0 THEN Nil ELSE st.graph.revisions[revision].id,
              properties |-> set,
              name |-> IF node.id \in Declarations THEN Nil ELSE node.name])]

ReadDeclaration(st, frame, node, decode) ==
  AddDeclared(st, frame, node, DeclaredSet(st, frame, node, decode))

ReadStoreObject(st, node) ==
  IF ~node.real THEN st
  ELSE IF node.length > MaxAssetBytes \/ st.assets + node.length > MaxTotalAssetBytes
  THEN Throw(st, "ASSET_LIMIT")
  ELSE IF ~node.framed THEN Throw(st, "FILE_DATA_FRAMING")
  ELSE [st EXCEPT !.assets = @ + node.length,
          !.graph.fileData = Append(@, [key |-> node.key, payload |-> node.payload])]

ProcessNode(st, node, decode) ==
  LET top == Len(st.frames)
      frame == st.frames[top]
  IN CASE node.id = "revisionManifestListStart" -> [st EXCEPT !.frames[top].space = node.space]
       [] node.id = "revisionManifestStart"     -> ReadManifest(st, frame, node)
       [] node.id = "revisionRoleDeclaration"   -> ReadRole(st, frame, node)
       [] node.id = "globalIdTableStart"        -> [st EXCEPT !.frames[top].globalIds = <<>>]
       [] node.id = "globalIdTableEntry"        -> ReadEntry(st, frame, node)
       [] node.id \in RootReferences            -> ReadRoot(st, frame, node)
       [] node.id \in Declarations \union {"objectDeclarationFileData"} ->
            ReadDeclaration(st, frame, node, decode)
       [] node.id = "fileDataStoreObjectReference" -> ReadStoreObject(st, node)
       [] OTHER                                 -> st

(* After a node, the list it refers to, unless that was visited. *)
EnterList(lists, st, node) ==
  LET revision == IF node.id = "objectGroupListReference"
                  THEN st.frames[Len(st.frames)].revision ELSE 0
      space == IF revision = 0 THEN Nil ELSE st.graph.revisions[revision].space
  IN IF Stopped(st) \/ ~References(node) THEN st
     ELSE IF node.child \in {Nil} \union st.visited THEN st
     ELSE [st EXCEPT !.visited = @ \union {node.child},
             !.frames = Append(@, ListFrame(lists[node.child], revision, space))]

RECURSIVE WalkFrom(_, _, _)
WalkFrom(lists, st, decode) ==
  IF Stopped(st) \/ st.frames = <<>> THEN st
  ELSE LET top == Len(st.frames)
           frame == st.frames[top]
           node == frame.nodes[frame.next]
           moved == [st EXCEPT !.frames[top].next = @ + 1]
       IN WalkFrom(lists,
            IF frame.next > Len(frame.nodes) THEN [st EXCEPT !.frames = Front(@)]
            ELSE EnterList(lists, ProcessNode(moved, node, decode), node), decode)

ReadObjectGraph(lists, root, decode) ==
  WalkFrom(lists, [error |-> Ok, graph |-> EmptyGraph, order |-> 0, assets |-> 0,
                   visited |-> {root}, frames |-> <<ListFrame(lists[root], 0, Nil)>>], decode)

(* The whole reading: its error, whether the error came before the walk of *)
(* the lists, and the graph.                                               *)
Failed(error, early) == [error |-> error, early |-> early, graph |-> EmptyGraph]
Early(error) == Failed(error, TRUE)

Outcome(st) == [error |-> st.error, early |-> FALSE, graph |-> st.graph]

ReadLinked(f, linked, decode) ==
  IF Stopped(linked) THEN Failed(linked.error, FALSE)
  ELSE Outcome(ReadObjectGraph(linked.lists, f.root, decode))

ReadRooted(f, counts, root, decode) ==
  IF Stopped(root) THEN Early(root.error)
  ELSE IF RootError(root.nodes) /= Ok THEN Early(RootError(root.nodes))
  ELSE ReadLinked(f, LinkFrom(f, counts,
         [error |-> Ok, lists |-> f.root :> root.nodes, nodes |-> Len(root.nodes),
          queue |-> <<root.nodes>>]), decode)

ReadLogged(f, log, decode) ==
  IF Stopped(log) THEN Early(log.error)
  ELSE ReadRooted(f, log.counts, ReadFileNodeList(f, log.counts, f.root), decode)

ReadRevisionStore(f, decode) == ReadLogged(f, ReadTransactionLog(f), decode)
====
