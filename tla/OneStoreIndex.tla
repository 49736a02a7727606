---- MODULE OneStoreIndex ----
(***************************************************************************)
(* Indexing a desktop section in one pass, without keeping its lists: the  *)
(* transaction log first, then the file-node lists depth first, each list  *)
(* a generator that stands somewhere in its fragment chain.                *)
(***************************************************************************)
EXTENDS SectionIndex, DesktopFile

CONSTANT MaxNesting    \* how deep referenced lists may nest

ASSUME NestingAssumption == MaxNesting \in Nat \ {0}

VARIABLES file,      \* the file being read; never changes
          phase,     \* "log", "root", "walk", "done" or "failed"
          log,       \* where the log's reader stands
          counts,    \* the committed node count of each list
          frames,    \* the open lists, the one being read last
          visited,   \* the offsets of the lists descended into
          totals,    \* nodes walked, associations made, asset bytes promised
          rootNodes, \* the nodes of the root list, counted before the walk
          jcids,     \* the type each object was last declared with
          fault      \* the code of the error that ended the reading

vars == <<index, file, phase, log, counts, frames, visited, totals, rootNodes, jcids, fault>>

Fail(code) == /\ phase' = "failed"
              /\ fault' = code

-----------------------------------------------------------------------------
(* The transaction log. *)

LogFragment == file.log.fragments[log.at]

LogFault ==
  CASE log.at = Nil               -> "TRANSACTION_LOG_TRUNCATED"
    [] log.count >= MaxLogFragments -> "TRANSACTION_FRAGMENT_LIMIT"
    [] log.at \in log.seen        -> "TRANSACTION_FRAGMENT_CYCLE"
    [] log.at = Outside           -> "TRANSACTION_FRAGMENT_BOUNDS"
    [] OTHER                      -> Ok

(* The loop goes on while transactions are missing. *)
ReadingLog == phase = "log" /\ log.completed < file.log.transactions

OpenLogFragment ==
  /\ ReadingLog /\ log.pos = 0
  /\ IF LogFault = Ok
     THEN /\ log' = [log EXCEPT !.pos = 1, !.count = @ + 1, !.seen = @ \union {log.at}]
          /\ UNCHANGED <<phase, fault>>
     ELSE Fail(LogFault) /\ UNCHANGED log
  /\ UNCHANGED <<index, file, counts, frames, visited, totals, rootNodes, jcids>>

EntryFault(e) ==
  CASE log.entries >= MaxLogEntries      -> "TRANSACTION_ENTRY_LIMIT"
    [] e.list = Sentinel                 -> IF e.value = log.crc THEN Ok ELSE "TRANSACTION_CHECKSUM"
    [] e.list = Outside                  -> "TRANSACTION_SOURCE_ID"
    [] e.value > MaxFileNodes            -> "TRANSACTION_FILE_NODE_COUNT"
    [] Has(counts, e.list) /\ e.value <= counts[e.list] -> "TRANSACTION_FILE_NODE_SEQUENCE"
    [] OTHER                             -> Ok

ReadLogEntry ==
  /\ ReadingLog /\ log.pos > 0 /\ log.pos <= Len(LogFragment.entries)
  /\ LET e == LogFragment.entries[log.pos]
     IN IF EntryFault(e) = Ok
        THEN /\ log' = [log EXCEPT !.pos = @ + 1, !.entries = @ + 1, !.crc = @ + 1,
                                   !.completed = IF e.list = Sentinel THEN @ + 1 ELSE @]
             /\ counts' = IF e.list = Sentinel THEN counts ELSE WithEntry(counts, e.list, e.value)
             /\ UNCHANGED <<phase, fault>>
        ELSE Fail(EntryFault(e)) /\ UNCHANGED <<log, counts>>
  /\ UNCHANGED <<index, file, frames, visited, totals, rootNodes, jcids>>

OneEntryMore ==
  /\ ReadingLog /\ log.pos > 0 /\ log.pos > Len(LogFragment.entries) + 1
  /\ log' = [log EXCEPT !.at = LogFragment.next, !.pos = 0]
  /\ UNCHANGED <<index, file, phase, counts, frames, visited, totals, rootNodes, jcids, fault>>

NextLogFragment ==
  /\ ReadingLog /\ log.pos > 0 /\ log.pos > Len(LogFragment.entries)
  /\ log' = [log EXCEPT !.at = LogFragment.next, !.pos = 0]
  /\ UNCHANGED <<index, file, phase, counts, frames, visited, totals, rootNodes, jcids, fault>>

-----------------------------------------------------------------------------
(* A list: #fileNodes, as the position its generator is suspended at.  step *)
(* is "fragment" (the next fragment is to be opened), "nodes" or "ended".   *)

Frame(offset, scope, revision, space) ==
  [at |-> offset, step |-> "fragment", pos |-> 1, quota |-> 0,
   list |-> Nil, committed |-> 0, produced |-> 0, expected |-> 0,
   seen |-> {}, count |-> 0,
   scope |-> scope, revision |-> revision, space |-> space]

LogEnds ==
  /\ phase = "log" /\ ~ReadingLog
  /\ IF counts = <<>>
     THEN Fail("TRANSACTION_LOG_EMPTY") /\ UNCHANGED frames
     ELSE /\ phase' = "root"
          /\ frames' = <<Frame(file.root, 0, NoRevision, Nil)>>
          /\ UNCHANGED fault
  /\ UNCHANGED <<index, file, log, counts, visited, totals, rootNodes, jcids>>

Top == frames[Len(frames)]
Below == SubSeq(frames, 1, Len(frames) - 1)
Fragment == file.fragments[Top.at]
Node == Fragment.nodes[Top.pos]
Walking == phase \in {"root", "walk"} /\ frames /= <<>>

(* The last entry for a list holds: a list's count only ever rises. *)
CommittedNodeCount(list) == Get(counts, list)

(* What is left to read of a list: what its log committed, less what the   *)
(* fragments before gave.  The mutant forgets those.                       *)
RemainingOfOne(list) == CommittedNodeCount(list)
Remaining(list) == CommittedNodeCount(list) - Top.produced

FragmentFault ==
  CASE Top.count >= MaxListFragments -> "FILE_NODE_FRAGMENT_LIMIT"
    [] Top.at \in Top.seen           -> "FILE_NODE_FRAGMENT_CYCLE"
    [] Top.at = Outside              -> "CHUNK_REFERENCE_BOUNDS"
    [] Top.list \notin {Nil, Fragment.list} -> "FILE_NODE_LIST_MISMATCH"
    [] CommittedNodeCount(Fragment.list) = Nil -> "TRANSACTION_FILE_NODE_LIST"
    [] CommittedNodeCount(Fragment.list) < 1 -> "TRANSACTION_FILE_NODE_COUNT"
    [] Fragment.sequence /= Top.expected -> "FILE_NODE_SEQUENCE"
    [] OTHER                         -> Ok

OpenFragment ==
  /\ Walking /\ Top.step = "fragment"
  /\ IF Top.at = Nil
     THEN frames' = Append(Below, [Top EXCEPT !.step = "ended"]) /\ UNCHANGED <<phase, fault>>
     ELSE IF FragmentFault /= Ok
     THEN Fail(FragmentFault) /\ UNCHANGED frames
     ELSE LET committed == CommittedNodeCount(Fragment.list)
              remaining == Remaining(Fragment.list)
          IN /\ frames' = Append(Below,
                  [Top EXCEPT !.list = Fragment.list, !.committed = committed,
                     !.seen = @ \union {Top.at}, !.count = @ + 1, !.pos = 1,
                     !.quota = IF remaining > 0 THEN remaining ELSE 0,
                     !.step = IF remaining <= 0 THEN "ended" ELSE "nodes"])
             /\ UNCHANGED <<phase, fault>>
  /\ UNCHANGED <<index, file, log, counts, visited, totals, rootNodes, jcids>>

FragmentEnds ==
  /\ Walking /\ Top.step = "nodes"
  /\ Top.pos > Len(Fragment.nodes) \/ Top.quota = 0
  /\ frames' = Append(Below,
       [Top EXCEPT !.at = Fragment.next, !.expected = @ + 1,
                   !.step = IF Top.produced = Top.committed THEN "ended" ELSE "fragment"])
  /\ UNCHANGED <<index, file, phase, log, counts, visited, totals, rootNodes, jcids, fault>>

ListFault ==
  CASE Top.list = Nil               -> "FILE_NODE_LIST_EMPTY"
    [] Top.produced /= Top.committed -> "FILE_NODE_COUNT"
    [] OTHER                        -> Ok

(* A node, once taken, moves the generator on; a terminator ends the fragment. *)
Taken(frame) ==
  [frame EXCEPT !.produced = @ + 1, !.quota = @ - 1,
                !.pos = IF Node.id = "chunkTerminator" THEN Len(Fragment.nodes) + 1 ELSE @ + 1]

NodeFault ==
  CASE Top.produced >= MaxFileNodes -> "FILE_NODE_LIMIT"
    [] Node.id = "malformed"        -> "FILE_NODE_SIZE"
    [] References(Node) /\ Node.child = Outside -> "CHUNK_REFERENCE_BOUNDS"
    [] phase = "walk" /\ totals.nodes >= MaxFileNodes -> "FILE_NODE_LIMIT"
    [] OTHER                        -> Ok

AtNode == Walking /\ Top.step = "nodes" /\ Top.pos <= Len(Fragment.nodes) /\ Top.quota > 0

NodeFails ==
  /\ AtNode /\ NodeFault /= Ok
  /\ Fail(NodeFault)
  /\ UNCHANGED <<index, file, log, counts, frames, visited, totals, rootNodes, jcids>>

-----------------------------------------------------------------------------
(* validateRootList reads the root list to its end before the walk opens it. *)

CountRootNode ==
  /\ phase = "root" /\ AtNode /\ NodeFault = Ok
  /\ rootNodes' = Append(rootNodes, Node.id)
  /\ frames' = Append(Below, Taken(Top))
  /\ UNCHANGED <<index, file, phase, log, counts, visited, totals, jcids, fault>>

Occurrences(id) == Cardinality({i \in DOMAIN rootNodes : rootNodes[i] = id})

RootFault ==
  CASE ListFault /= Ok -> ListFault
    [] Occurrences("objectSpaceManifestListReference") < 1 -> "ROOT_FILE_NODE_LIST"
    [] Occurrences("objectSpaceManifestRoot") /= 1          -> "ROOT_FILE_NODE_LIST"
    [] \E i \in DOMAIN rootNodes : rootNodes[i] \notin RootAllowed -> "ROOT_FILE_NODE_TYPE"
    [] OTHER -> Ok

RootRead ==
  /\ phase = "root" /\ Top.step = "ended"
  /\ IF RootFault /= Ok
     THEN Fail(RootFault) /\ UNCHANGED <<index, frames, visited>>
     ELSE /\ phase' = "walk"
          /\ index' = OpenScope(index)
          /\ frames' = <<Frame(file.root, Len(index.scopes) + 1, NoRevision, Nil)>>
          /\ visited' = visited \union {file.root}
          /\ UNCHANGED fault
  /\ UNCHANGED <<file, log, counts, totals, rootNodes, jcids>>

ListEnds ==
  /\ phase = "walk" /\ frames /= <<>> /\ Top.step = "ended"
  /\ IF ListFault /= Ok THEN Fail(ListFault) /\ UNCHANGED frames
     ELSE frames' = Below /\ UNCHANGED <<phase, fault>>
  /\ UNCHANGED <<index, file, log, counts, visited, totals, rootNodes, jcids>>

WalkEnds ==
  /\ phase = "walk" /\ frames = <<>>
  /\ phase' = "done"
  /\ UNCHANGED <<index, file, log, counts, frames, visited, totals, rootNodes, jcids, fault>>

-----------------------------------------------------------------------------
(* The walk proper: one action per kind of node. *)

Reading(ids) == phase = "walk" /\ AtNode /\ NodeFault = Ok /\ Node.id \in ids
Unhandled == phase = "walk" /\ AtNode /\ NodeFault = Ok /\ Node.id \notin Handled

Advance(frame) == frames' = Append(Below, Taken(frame))
CountNode == totals' = [totals EXCEPT !.nodes = @ + 1]

(* An object group continues the revision that references it; any other    *)
(* list starts with no revision in scope.                                  *)
InheritedAlways == Top.revision
Inherited == IF Node.id = "objectGroupListReference" THEN Top.revision ELSE NoRevision

ChildFrame == Frame(Node.child, Len(index.scopes) + 1, Inherited,
                    IF Inherited = NoRevision THEN Nil ELSE RevisionAt(index, Inherited).space)

(* Lists nest so far and no further. *)
TooDeep == Len(frames) >= MaxNesting

(* Whatever the node is, the list it references is entered; a list already *)
(* visited, and a reference to nothing, are passed over.                   *)
Descend ==
  /\ Unhandled /\ References(Node)
  /\ CountNode
  /\ IF Node.child = Nil \/ Node.child \in visited
     THEN Advance(Top) /\ UNCHANGED <<index, phase, visited, fault>>
     ELSE IF TooDeep
     THEN Fail("FILE_NODE_LIST_DEPTH") /\ UNCHANGED <<index, frames, visited>>
     ELSE /\ index' = OpenScope(index)
          /\ frames' = Below \o <<Taken(Top), ChildFrame>>
          /\ visited' = visited \union {Node.child}
          /\ UNCHANGED <<phase, fault>>
  /\ UNCHANGED <<file, log, counts, rootNodes, jcids>>

(* What a handler does when its checks pass: code is the error otherwise.  *)
Handle(code, ix, frame) ==
  /\ CountNode
  /\ IF code = Ok
     THEN index' = ix /\ Advance(frame) /\ UNCHANGED <<phase, fault>>
     ELSE Fail(code) /\ UNCHANGED <<index, frames>>
  /\ UNCHANGED <<file, log, counts, visited, rootNodes>>

ListStart ==
  /\ Reading({"revisionManifestListStart"})
  /\ Handle(Ok, index, [Top EXCEPT !.space = Node.space])
  /\ UNCHANGED jcids

NextAssociation == totals.associations + 1

(* Mutant of Associates: every association takes one number.               *)
AssociatesUncounted(code) == CountNode
Associates(code) ==
  totals' = [totals EXCEPT !.nodes = @ + 1,
                           !.associations = IF code = Ok THEN @ + 1 ELSE @]

(* The manifest's own role and context are the revision's first association. *)
ReadRevisionManifest ==
  /\ Reading({"revisionManifestStart"})
  /\ LET code == IF Has(index.revisionByGuid, Node.revision) THEN "REVISION_ID" ELSE Ok
         order == Len(index.revisions) + 1
         added == AddRevision(index, Node.revision,
                    Optional(Node.dependency),
                    Node.role, Node.encrypted, Node.context, Top.space)
     IN /\ Associates(code)
        /\ IF code = Ok
           THEN /\ index' = AddRoleAssociation(added, order, Node.context, Node.role, NextAssociation)
                /\ Advance([Top EXCEPT !.revision = order])
                /\ UNCHANGED <<phase, fault>>
           ELSE Fail(code) /\ UNCHANGED <<index, frames>>
  /\ UNCHANGED <<file, log, counts, visited, rootNodes, jcids>>

RoleFault ==
  LET revision == RevisionOf(index, Node.revision)
  IN CASE Node.role > 65535 -> "REVISION_ROLE"
       [] revision = Nil \/ Top.space = Nil -> "REVISION_ROLE_TARGET"
       [] RevisionAt(index, revision).space /= Top.space -> "REVISION_ROLE_TARGET"
       [] OTHER -> Ok

ReadRoleDeclaration ==
  /\ Reading({"revisionRoleDeclaration"})
  /\ Associates(RoleFault)
  /\ IF RoleFault = Ok
     THEN /\ index' = AddRoleAssociation(index, RevisionOf(index, Node.revision),
                        Optional(Node.context),
                        Node.role, NextAssociation)
          /\ Advance(Top)
          /\ UNCHANGED <<phase, fault>>
     ELSE Fail(RoleFault) /\ UNCHANGED <<index, frames>>
  /\ UNCHANGED <<file, log, counts, visited, rootNodes, jcids>>

ClearGlobalIds ==
  /\ Reading({"globalIdTableStart"})
  /\ Handle(Ok, [index EXCEPT !.scopes[Top.scope] = <<>>], Top)
  /\ UNCHANGED jcids

(* A cleared table cannot forget what an indexed object resolved against,  *)
(* so clearing opens a scope.                                              *)
StartGlobalIds ==
  /\ Reading({"globalIdTableStart"})
  /\ Handle(Ok, OpenScope(index), [Top EXCEPT !.scope = Len(index.scopes) + 1])
  /\ UNCHANGED jcids

ReadGlobalIdEntry ==
  /\ Reading({"globalIdTableEntry"})
  /\ LET code == CASE BadIndex(Node.index) -> "GLOBAL_ID_INDEX"
                   [] HasGlobalId(index, Top.scope, Node.index) -> "GLOBAL_ID_INDEX"
                   [] Node.guid = NilGuid -> "GLOBAL_ID_GUID"
                   [] OTHER -> Ok
     IN Handle(code, AddGlobalId(index, Top.scope, Node.index, Node.guid), Top)
  /\ UNCHANGED jcids

ResolveCompactId(i) == GlobalId(index, Top.scope, i)

(* A root declared outside any revision is passed over unread. *)
ReadRootReference ==
  /\ Reading(RootReferences)
  /\ LET object == IF Node.id = "rootObjectReference3" THEN Node.object
                   ELSE ResolveCompactId(Node.object)
     IN IF Top.revision = NoRevision THEN Handle(Ok, index, Top)
        ELSE Handle(IF object = Nil THEN "COMPACT_ID" ELSE Ok,
                    AddRootObject(index, Top.revision, object, Node.role), Top)
  /\ UNCHANGED jcids

Encrypted == Top.revision /= NoRevision /\ RevisionAt(index, Top.revision).encrypted
RevisionId == IF Top.revision = NoRevision THEN Nil ELSE RevisionAt(index, Top.revision).id

ObjectFault(id) ==
  CASE Len(index.objects) >= MaxObjects -> "OBJECT_LIMIT"
    [] Node.id \in Declarations /\ ~Node.real -> "OBJECT_REFERENCE"
    [] id = Nil   -> "COMPACT_ID"
    [] OTHER      -> Ok

(* A revised object keeps the type its declaration gave it.  Its property  *)
(* set is kept as a range, here the CompactIDs in it, to be resolved when  *)
(* it is asked for.                                                        *)
ReadObject ==
  /\ Reading(Declarations)
  /\ LET id == ResolveCompactId(Node.object)
         jcid == IF Node.id = "objectDeclaration" THEN Node.jcid
                 ELSE IF Has(jcids, id) THEN jcids[id] ELSE 0
     IN /\ Handle(ObjectFault(id),
                  AddObject(index, [id |-> id, jcid |-> jcid, revision |-> Top.revision,
                    revisionId |-> RevisionId, isRevision |-> Node.id = "objectRevision",
                    properties |-> IF Encrypted THEN Nil ELSE Node.properties,
                    scope |-> Top.scope, name |-> Nil]), Top)
        /\ jcids' = IF ObjectFault(id) = Ok /\ jcid /= 0 THEN WithEntry(jcids, id, jcid) ELSE jcids

ReadFileDataDeclaration ==
  /\ Reading({"objectDeclarationFileData"})
  /\ LET id == ResolveCompactId(Node.object)
     IN /\ Handle(ObjectFault(id),
                  AddObject(index, [id |-> id, jcid |-> Node.jcid, revision |-> Top.revision,
                    revisionId |-> RevisionId, isRevision |-> FALSE, properties |-> Nil,
                    scope |-> Top.scope, name |-> Node.name]), Top)
        /\ jcids' = IF ObjectFault(id) = Ok THEN WithEntry(jcids, id, Node.jcid) ELSE jcids

(* The caps are enforced against the declared length; no payload is read.  *)
(* A reference to no bytes is passed over.                                 *)
ReadFileDataStoreObject ==
  /\ Reading({"fileDataStoreObjectReference"}) /\ Node.real
  /\ LET code == CASE Node.length > MaxAssetBytes -> "ASSET_LIMIT"
                   [] totals.assets + Node.length > MaxTotalAssetBytes -> "ASSET_LIMIT"
                   [] ~Node.framed -> "FILE_DATA_FRAMING"
                   [] OTHER -> Ok
     IN /\ totals' = [totals EXCEPT !.nodes = @ + 1,
                        !.assets = IF code = Ok THEN @ + Node.length ELSE @]
        /\ IF code = Ok
           THEN /\ index' = AddFileData(index, Node.key, Node.payload)
                /\ Advance(Top)
                /\ UNCHANGED <<phase, fault>>
           ELSE Fail(code) /\ UNCHANGED <<index, frames>>
  /\ UNCHANGED <<file, log, counts, visited, rootNodes, jcids>>

(* Every other node is counted and means nothing to the walk. *)
PassNode ==
  /\ \/ Unhandled /\ ~References(Node)
     \/ Reading({"fileDataStoreObjectReference"}) /\ ~Node.real
  /\ Handle(Ok, index, Top)
  /\ UNCHANGED jcids

-----------------------------------------------------------------------------

IndexInit ==
  /\ file \in Files
  /\ index = EmptyIndex("revision-store")
  /\ phase = "log"
  /\ log = [at |-> file.log.start, pos |-> 0, completed |-> 0, seen |-> {},
            count |-> 0, entries |-> 0, crc |-> 0]
  /\ counts = <<>> /\ frames = <<>> /\ visited = {} /\ rootNodes = <<>> /\ jcids = <<>>
  /\ totals = [nodes |-> 0, associations |-> 0, assets |-> 0]
  /\ fault = Ok

IndexNext ==
  \/ OpenLogFragment \/ ReadLogEntry \/ NextLogFragment \/ LogEnds
  \/ OpenFragment \/ FragmentEnds \/ NodeFails
  \/ CountRootNode \/ RootRead \/ ListEnds \/ WalkEnds
  \/ Descend \/ ListStart \/ ReadRevisionManifest \/ ReadRoleDeclaration
  \/ StartGlobalIds \/ ReadGlobalIdEntry \/ ReadRootReference
  \/ ReadObject \/ ReadFileDataDeclaration \/ ReadFileDataStoreObject \/ PassNode

-----------------------------------------------------------------------------
(* A list, in one fragment or many, gives no node that the log has not     *)
(* committed: what was rolled back or half written stays unread.           *)
NothingUncommitted ==
  \A i \in DOMAIN frames :
    /\ frames[i].produced <= frames[i].committed
    /\ frames[i].list /= Nil => frames[i].committed = CommittedNodeCount(frames[i].list)
====
