---------------------------- MODULE SamePackage ----------------------------
(***************************************************************************)
(* PackagedSection beside the eager reader of the same package: what the   *)
(* two are to agree on.  reference is what the eager reader made of it.    *)
(***************************************************************************)
EXTENDS PackagedSection, EagerPackage, EagerSpaces

VARIABLE reference

SameInit == Init /\ reference = BuildObjectGraph(package)
SameNext == Next /\ UNCHANGED reference
SameVars == <<sectionVars, reference>>
SameSpec ==
  SameInit /\ [][SameNext]_SameVars /\ WF_SameVars((Indexing \/ Placing) /\ UNCHANGED reference)

-----------------------------------------------------------------------------
(* The package is accepted exactly when the eager reader accepts it.  Only *)
(* a revision no cell reaches may cost more here: its objects are put      *)
(* together and counted all the same.                                      *)
SameVerdict ==
  /\ phase \in {"placed", "done"} => reference.error = Ok
  /\ phase = "failed" => reference.error /= Ok \/ (fault \in {"JCID", "OBJECT_LIMIT"}
                                                    /\ ~reference.allPlaced)

(* In the graph's terms: the revisions that have a place, and the objects  *)
(* of those.                                                               *)
PlacedRevisions ==
  LET Described(i) ==
        LET r == index.revisions[i]
        IN [id |-> r.id, dependency |-> r.dependency, space |-> SpaceOf(i),
            context |-> cells[i].context, roots |-> r.roots, roles |-> AssociationsOf(i)]
      placed == SelectSeq(Orders, LAMBDA i: SpaceOf(i) /= Nil)
  IN [i \in DOMAIN placed |-> Described(placed[i])]

GraphRevisions ==
  LET revisions == reference.graph.revisions
  IN [i \in DOMAIN revisions |->
        [id |-> revisions[i].id, dependency |-> revisions[i].dependency,
         space |-> revisions[i].space, context |-> revisions[i].context,
         roots |-> revisions[i].roots, roles |-> revisions[i].roles]]

PlacedObjects ==
  SelectSeq([i \in DOMAIN index.objects |-> i], LAMBDA o: Placed(o))

(* An object's bytes are in the element it declared, under its blob id. *)
FileDataRangeOf(o) == IF o.blob = Nil THEN Nil ELSE FileDataOf(index, o.blob)

(* The eager reader finds them by the name in the object's properties.     *)
NameOf(graphObject) ==
  IF graphObject.properties = Nil THEN Nil ELSE graphObject.properties.file

(* Name and declaration lead to the same bytes where an object has both or *)
(* neither, and no other object has the name and declares something else.  *)
OneName(graphObject) ==
  LET name == NameOf(graphObject)
      Others == {o \in Range(reference.graph.objects) : NameOf(o) = name}
  IN IF name = Nil THEN graphObject.blob = Nil
     ELSE graphObject.blob /= Nil /\ \A o \in Others : o.blob \in {Nil, graphObject.blob}

SameParts(o, graphObject) ==
  /\ o.id = graphObject.id /\ o.jcid = graphObject.jcid
  /\ o.revisionId = graphObject.revisionId /\ o.referenceCount = graphObject.referenceCount
  /\ o.properties = graphObject.properties
  /\ reference.allPlaced => o.isRevision = graphObject.isRevision
  /\ o.blob = graphObject.blob
  /\ FileDataRangeOf(o) = IF o.blob = Nil THEN Nil ELSE Fetch(reference.parts.blobs, o.blob)
  /\ OneName(graphObject) =>
       FileDataRangeOf(o) = Get(reference.graph.files, NameOf(graphObject))

(* What was gathered from events is what the tree says: the placed         *)
(* revisions with their associations, their objects put together from the  *)
(* same partitions, each with the bytes it declared, in the same order.    *)
SameGraph ==
  phase = "done" =>
    /\ PlacedRevisions = GraphRevisions
    /\ Len(PlacedObjects) = Len(reference.graph.objects)
    /\ \A i \in DOMAIN PlacedObjects :
         SameParts(index.objects[PlacedObjects[i]], reference.graph.objects[i])
    /\ tables.manifestRoots = reference.parts.storageManifest

(* A table marked complete holds what the eager reader pairs for the same  *)
(* object, nothing less after a failed write and nothing more after a      *)
(* second attempt; arrays are refused only where it refuses them too.      *)
SameIdentifiers ==
  phase = "done" =>
    \A i \in DOMAIN PlacedObjects :
      LET object == PlacedObjects[i]
          table == reference.graph.objects[i].globalIds
      IN /\ object \in built => (IF Has(paired, object) THEN paired[object] ELSE <<>>) = table
         /\ object \in refused => table = Nil

(* Every answer is the materializer's: a space its current revision, its   *)
(* objects and roots; the section's own space the one it finds.            *)
SameSpace(key) ==
  LET space == GraphSpace(reference.graph, key[1], key[2])
      slot == cache[key].slot
  IN IF space = Nil THEN slot = 0
     ELSE /\ slot /= 0
          /\ index.revisions[cache[key].revision].id
               = reference.graph.revisions[space.revision].id
          /\ DOMAIN slots[slot].objects = DOMAIN space.objects
          /\ \A id \in DOMAIN space.objects : SameParts(Object(slot, id), space.objects[id])
          /\ slots[slot].roots = space.roots

SpaceAnswers ==
  /\ \A key \in DOMAIN cache : SameSpace(key)
  /\ SearchDone => search.found = SpaceByRootJcid(reference.graph, search.jcid)

-----------------------------------------------------------------------------
(* What is indexed is the graph buildObjectGraph makes of the package, or  *)
(* its refusal.                                                            *)
SameIndex == SameVerdict /\ SameGraph

(* What is asked of the index, now or after a failure, is answered as the  *)
(* eager path answers it: the identifiers of an object, and the spaces.    *)
SameAnswers == SameIdentifiers /\ SpaceAnswers
=============================================================================
