---------------------------- MODULE SameDesktop ----------------------------
(***************************************************************************)
(* DesktopSection beside the eager reader of the same file: what the two   *)
(* are to agree on.  reference is what the eager reader made of the file,  *)
(* with its property sets and (lenient) without them.                      *)
(***************************************************************************)
EXTENDS DesktopSection, EagerReader, EagerSpaces

VARIABLES reference, lenient

history == <<reference, lenient>>
SameInit ==
  /\ Init
  /\ reference = ReadRevisionStore(file, TRUE)
  /\ lenient = ReadRevisionStore(file, FALSE)
SameNext == Next /\ UNCHANGED history
SameVars == <<sectionVars, history>>
SameSpec == SameInit /\ [][SameNext]_SameVars /\ WF_SameVars(Indexing /\ UNCHANGED history)

-----------------------------------------------------------------------------
(* The second reader is no more forgiving than the first and no stricter:  *)
(* it accepts a file exactly when readRevisionStore does, property sets    *)
(* apart, which it leaves unread; only the nesting of lists has a limit of *)
(* its own.  A fault in the log or the root list is the same fault.        *)
SameVerdict ==
  /\ phase = "done" => lenient.error = Ok
  /\ phase = "failed" /\ fault /= "FILE_NODE_LIST_DEPTH" => lenient.error /= Ok
  /\ phase = "failed" /\ lenient.early => fault = lenient.error
  /\ phase \in {"walk", "done"} => ~lenient.early

(* What the index holds of a revision or an object, in the graph's terms.  *)
IndexedRevisions ==
  [i \in DOMAIN index.revisions |->
     LET r == index.revisions[i]
     IN [id |-> r.id, dependency |-> r.dependency, role |-> r.role, encrypted |-> r.encrypted,
         context |-> r.context, space |-> r.space, roots |-> r.roots, roles |-> r.roles]]

(* The CompactIDs of a set's object stream, resolved when the set is       *)
(* opened: the scope is complete by then.                                  *)
LateIds(o) ==
  IF o.properties = Nil THEN Nil
  ELSE LET stream == LocateStreams(o.properties).object
       IN [n \in 1..stream[2] |-> GlobalId(index, o.scope, o.properties[stream[1] + n - 1])]

Described(o) == [id |-> o.id, jcid |-> o.jcid, isRevision |-> o.isRevision,
                 revisionId |-> o.revisionId, name |-> o.name]

(* The bytes an object's name leads to.  A name is what is left of it when *)
(* its scheme, its braces and its case are taken away.                     *)
FileDataRangeOf(o) ==
  IF o.name = Nil THEN Nil
  ELSE IF ~o.name.ifndf THEN Nil ELSE FileDataOf(index, o.name.key)

(* The descriptors add up to the ObjectGraph the eager reader builds:      *)
(* every revision with its associations and roots, every object with its   *)
(* type and its revision and the bytes its name leads to, every file-data  *)
(* entry, in the same order.                                               *)
SameGraph ==
  phase = "done" =>
    LET graph == lenient.graph
    IN /\ IndexedRevisions = graph.revisions
       /\ index.fileData = graph.fileData
       /\ Len(index.objects) = Len(graph.objects)
       /\ \A i \in DOMAIN graph.objects :
            /\ Described(index.objects[i]) = Described(graph.objects[i])
            /\ FileDataRangeOf(index.objects[i]) = ResolveFileData(graph, graph.objects[i])

(* A CompactID read long after the walk has left its list still means what *)
(* the global-identification table said when its object was declared.      *)
SameIdentifiers ==
  phase = "done" /\ reference.error = Ok =>
    \A i \in DOMAIN index.objects :
      LET set == reference.graph.objects[i].properties
      IN LateIds(index.objects[i]) = IF set = Nil THEN Nil ELSE set.objects

(* An answered space is the one the materializer replays: the same current *)
(* revision, and for every identifier and role the same object; a space    *)
(* remembered as absent is absent.  A resolution that failed part way has  *)
(* left nothing an answer rests on.  And the section's own space, searched *)
(* for by the type of its root, is the one the eager reader finds.         *)
SameObject(o, graphObject) ==
  IF graphObject = Nil THEN o = Nil ELSE o /= Nil /\ Described(o) = Described(graphObject)

SameSpace(key) ==
  LET space == GraphSpace(lenient.graph, key[1], key[2])
      slot == cache[key].slot
  IN IF space = Nil THEN slot = 0
     ELSE /\ slot /= 0
          /\ cache[key].revision = space.revision
          /\ DOMAIN slots[slot].objects = DOMAIN space.objects
          /\ \A id \in DOMAIN space.objects : SameObject(Object(slot, id), space.objects[id])
          /\ slots[slot].roots = space.roots

SpaceAnswers ==
  /\ \A key \in DOMAIN cache : SameSpace(key)
  /\ SearchDone => search.found = SpaceByRootJcid(lenient.graph, search.jcid)

(* A set opened where it lies says what the eager reader decoded of it,    *)
(* property by property: the same of two that share an identifier, the     *)
(* same value, the same objects for its references whatever came before    *)
(* them in the streams, and nested sets that say the same again, in the    *)
(* place they were asked for.  What an abandoned walk recorded is never    *)
(* answered.  A set is refused only if the eager reader refuses it, and    *)
(* one that was walked has no nested set that is; the eager reader alone   *)
(* wants every CompactID resolved and counts an object's properties        *)
(* together.                                                               *)
RECURSIVE SetAt(_, _)
SetAt(set, path) ==
  IF path = <<>> THEN set
  ELSE SetAt(FindProperty(set, Head(path)[1]).children[Head(path)[2] + 1], Tail(path))

Boolean(p) == IF p.boolean = Nil THEN Nil ELSE p.boolean = <<1>>

SameProperty(view, p, decoded) ==
  IF decoded = Nil \/ p = Nil THEN p = decoded
  ELSE /\ p.rawId = decoded.rawId /\ p.index = decoded.index
       /\ Boolean(p) = decoded.boolean
       /\ p.scalar = IF decoded.scalar = Nil THEN Nil ELSE <<decoded.scalar>>
       /\ (p.data = Nil) = (decoded.data = Nil)
       /\ p.data /= Nil => /\ Units(view, p.data) = decoded.data
                           /\ TextOf(view, p.data) = TrimTrailingNulls(decoded.data)
       /\ (p.references = Nil) = (decoded.references = Nil)
       /\ p.references /= Nil => ReferencesOf(view, p) = decoded.references
       /\ (p.children = Nil) = (decoded.children = Nil)
       /\ p.children /= Nil => p.children[1] = Len(decoded.children)

Verdict(object) == ReadPropertySet(Value(object), index.scopes[index.objects[object].scope]).error

SameProperties ==
  phase = "done" =>
    /\ \A view \in Views :
         /\ Verdict(view.object) \in {Ok, "COMPACT_ID", "PROPERTY_LIMIT"}
         /\ reference.error = Ok =>
              LET set == SetAt(reference.graph.objects[view.object].properties.set, view.path)
              IN \A id \in Ids(view.object) :
                   SameProperty(view, Lookup(view.slot, id), FindProperty(set, id))
    /\ \A refused \in unread : Verdict(refused[1]) /= Ok /\ refused[2] = <<>>

-----------------------------------------------------------------------------
(* What is indexed is the graph readRevisionStore builds, or its refusal.  *)
SameIndex == SameVerdict /\ SameGraph

(* What is asked of the index, now or after a failure, is answered as the  *)
(* eager path answers it: identifiers, spaces and property sets.           *)
SameAnswers == SameIdentifiers /\ SpaceAnswers /\ SameProperties
=============================================================================
