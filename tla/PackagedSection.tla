---- MODULE PackagedSection ----
(***************************************************************************)
(* A packaged section from its stream objects to its object spaces.  The   *)
(* indexer runs to its end; the resolver then gives every revision that a  *)
(* cell reaches its place, which is what the desktop encoding has written  *)
(* in the file; and then the pages of the section ask for spaces and for   *)
(* the identifiers in their objects.                                       *)
(***************************************************************************)
EXTENDS PackageIndex, CompactIds

CONSTANTS SpaceKeys,    \* the spaces and contexts the pages ask for
          RootJcids,    \* the root types searched for
          MaxRequests   \* how many questions the pages ask; a bound of the model

ASSUME MaxRequests \in Nat

VARIABLES assigning,    \* where #assignCells stands
          requests

sectionVars == <<packageVars, resolverVars, compactVars, assigning, requests>>

Init ==
  /\ PackageInit /\ ResolverInit /\ CompactInit
  /\ assigning = [position |-> 1, revision |-> NoRevision, visited |-> {}, order |-> 1,
                  inChain |-> FALSE]
  /\ requests = 0

Indexing == PackageNext /\ UNCHANGED <<resolverVars, compactVars, assigning, requests>>

UnchangedPackage == UNCHANGED <<package, at, open, reader, tables, merged, fault>>

-----------------------------------------------------------------------------
(* #assignCells, one revision of one cell's chain at a time. *)

CellMappingAt(position) == tables.cellMappings[position]
Mapping == CellMappingAt(assigning.position)
CellManifestOf(element) == Get(tables.cellManifests, element)
RevisionOfElement(element) == Get(tables.revisionOfElement, element)

(* The first mapping of a revision decides which element it is. *)
RevisionElementFor(revision) ==
  LET mapping == SelectInSeq(tables.revisionMappings, LAMBDA m: m.revision = revision)
  IN IF mapping = 0 THEN Nil ELSE RevisionOfElement(tables.revisionMappings[mapping].id)

Head0 ==
  IF CellManifestOf(Mapping.id) = Nil THEN Nil ELSE RevisionElementFor(CellManifestOf(Mapping.id))

Assigning == phase = "placed" /\ assigning.position <= Len(tables.cellMappings)

ChooseHead ==
  /\ Assigning /\ ~assigning.inChain
  /\ assigning' = IF Head0 = Nil THEN [assigning EXCEPT !.position = @ + 1]
                  ELSE [assigning EXCEPT !.revision = Head0, !.visited = {}, !.inChain = TRUE]
  /\ UNCHANGED <<index, phase, resolverVars, compactVars, requests>> /\ UnchangedPackage

AtOldest == assigning.revision = NoRevision
AtEnd == assigning.revision \in {NoRevision} \union assigning.visited

(* The cell a revision last belongs to wins; its associations add up, and  *)
(* only the head of a chain gets one.                                      *)
PlacedIn(mapping, association) ==
  LET revision == assigning.revision
      before == IF Has(cells, revision) THEN cells[revision].associations ELSE <<>>
  IN WithEntry(cells, revision,
               [first |-> mapping.cell.first, second |-> mapping.cell.second,
                context |-> ContextOf(mapping.cell.first),
                associations |-> before \o association])

NextInChain ==
  [assigning EXCEPT !.visited = @ \union {assigning.revision},
                    !.revision = LastRevisionFor(RevisionAt(index, assigning.revision).dependency)]

EveryLinkCurrent ==
  /\ Assigning /\ assigning.inChain /\ ~AtEnd
  /\ cells' = PlacedIn(Mapping, <<[context |-> ContextOf(Mapping.cell.first), role |-> 1,
                                   order |-> assigning.order]>>)
  /\ assigning' = NextInChain
  /\ UNCHANGED <<index, phase, slots, cache, request, search, failures, compactVars, requests>>
  /\ UnchangedPackage

PlaceRevision ==
  /\ Assigning /\ assigning.inChain /\ ~AtEnd
  /\ LET association == [context |-> ContextOf(Mapping.cell.first), role |-> 1,
                         order |-> assigning.order]
     IN cells' = PlacedIn(Mapping, IF assigning.visited = {} THEN <<association>> ELSE <<>>)
  /\ assigning' = NextInChain
  /\ UNCHANGED <<index, phase, slots, cache, request, search, failures, compactVars, requests>>
  /\ UnchangedPackage

ChainPlaced ==
  /\ Assigning /\ assigning.inChain /\ AtEnd
  /\ assigning' = [assigning EXCEPT !.position = @ + 1, !.order = @ + 1, !.inChain = FALSE]
  /\ UNCHANGED <<index, phase, resolverVars, compactVars, requests>> /\ UnchangedPackage

CellsAssigned ==
  /\ phase = "placed" /\ ~Assigning
  /\ phase' = "done"
  /\ UNCHANGED <<index, resolverVars, compactVars, assigning, requests>> /\ UnchangedPackage

Placing == ChooseHead \/ PlaceRevision \/ ChainPlaced \/ CellsAssigned

-----------------------------------------------------------------------------
(* The questions of the pages, one after another. *)

Placed(object) == SpaceOf(ObjectAt(index, object).revision) /= Nil

Ask ==
  /\ phase = "done" /\ requests < MaxRequests /\ ~Pairing /\ request = Idle /\ search.at = 0
  /\ requests' = requests + 1
  /\ \/ /\ \/ \E key \in SpaceKeys : AskSpace(key[1], key[2])
           \/ \E jcid \in RootJcids : StartSearch(jcid)
        /\ UNCHANGED compactVars
     \/ \E object \in {o \in DOMAIN index.objects : Placed(o)} : AskIdentifier(object)
  /\ UNCHANGED <<phase, assigning>> /\ UnchangedPackage

Answering ==
  /\ phase = "done"
  /\ \/ ResolverNext /\ UNCHANGED compactVars
     \/ CompactNext
  /\ UNCHANGED <<phase, assigning, requests>> /\ UnchangedPackage

EndSearch ==
  /\ SearchDone /\ search' = NotSearching
  /\ UNCHANGED <<index, phase, cells, slots, cache, request, failures, compactVars, assigning,
                 requests>> /\ UnchangedPackage

Next == Indexing \/ Placing \/ Ask \/ Answering \/ EndSearch

(* Indexing and placing are synchronous calls. *)
Spec == Init /\ [][Next]_sectionVars /\ WF_sectionVars(Indexing \/ Placing)

-----------------------------------------------------------------------------
TypeOK ==
  /\ phase \in {"walk", "merge", "placed", "done", "failed"}
  /\ (phase = "failed") <=> (fault /= Ok)
  /\ Len(open) <= MaxDepth + 1
  /\ reader.section /= Nil => reader.element.group \in DOMAIN tables.groups
  /\ reader.element.revision \in 0..Len(index.revisions)
  /\ reader.element.type = "RevisionManifest" /\ reader.element.children > 0
       => reader.element.revision = Len(index.revisions)
  /\ Len(tables.revisionGroups) = Len(index.revisions)
  /\ DOMAIN cells \subseteq DOMAIN index.revisions
  /\ assigning.revision \in 0..Len(index.revisions)
  /\ built \intersect refused = {} /\ pairing.object \notin built

(* Nothing the framing says, and no loop of dependencies, keeps the        *)
(* section from being placed or refused.                                   *)
Terminates == <>(phase \in {"done", "failed"})
====
