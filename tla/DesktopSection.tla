---- MODULE DesktopSection ----
(***************************************************************************)
(* A desktop section from its bytes to its object spaces: the indexer runs *)
(* to its end, and then the pages of the section ask the resolver for the  *)
(* spaces they name and open the property sets of objects.  The indexer,   *)
(* the resolver and the property store share the index and nothing else.   *)
(***************************************************************************)
EXTENDS OneStoreIndex, PropertyStore

CONSTANTS SpaceKeys,    \* the spaces and contexts the pages ask for
          RootJcids,    \* the root types searched for
          MaxRequests   \* how many questions the pages ask; a bound of the model

ASSUME RequestsAssumption == MaxRequests \in Nat

VARIABLE requests

sectionVars == <<vars, resolverVars, propertyVars, requests>>

Init ==
  /\ IndexInit /\ ResolverInit /\ PropertyInit
  /\ requests = 0

Indexing == IndexNext /\ UNCHANGED <<resolverVars, propertyVars, requests>>

Untouched == UNCHANGED <<file, phase, log, counts, frames, visited, totals, rootNodes, jcids,
                         fault>>

(* The pages of a section come one after another, and so do the questions  *)
(* of a page: for a space, for the set of an object, for a nested set of   *)
(* one it has.                                                             *)
Asking == phase = "done" /\ requests < MaxRequests /\ ~InWalk /\ request = Idle /\ search.at = 0

AskForSpace ==
  /\ Asking /\ requests' = requests + 1
  /\ \/ \E key \in SpaceKeys : AskSpace(key[1], key[2])
     \/ \E jcid \in RootJcids : StartSearch(jcid)
  /\ UNCHANGED propertyVars /\ Untouched

AskForSet ==
  /\ Asking /\ requests' = requests + 1
  /\ \/ \E object \in DOMAIN index.objects : OpenSet(object)
     \/ \E view \in Views : \E id \in Ids(view.object), position \in 0..1 :
          OpenChild(view, id, position)
  /\ Untouched

Resolving ==
  /\ phase = "done"
  /\ \/ ResolverNext /\ UNCHANGED propertyVars
     \/ PropertyNext
  /\ Untouched /\ UNCHANGED requests

EndSearch == SearchDone /\ search' = NotSearching
             /\ UNCHANGED <<index, cells, slots, cache, request, failures, propertyVars, requests>>
             /\ Untouched

Next == Indexing \/ AskForSpace \/ AskForSet \/ Resolving \/ EndSearch

(* Indexing is one synchronous call, and so is an answer. *)
Spec == Init /\ [][Next]_sectionVars /\ WF_sectionVars(Indexing)

-----------------------------------------------------------------------------
TypeOK ==
  /\ phase \in {"log", "root", "walk", "done", "failed"}
  /\ (phase = "failed") <=> (fault /= Ok)
  /\ Len(frames) <= MaxNesting
  /\ \A i \in DOMAIN frames :
       /\ frames[i].revision \in 0..Len(index.revisions)
       /\ phase = "walk" => frames[i].scope \in DOMAIN index.scopes
  /\ totals.nodes <= MaxFileNodes /\ totals.assets <= MaxTotalAssetBytes
  /\ Len(index.objects) <= MaxObjects
  /\ InWalk => walk.slot = setSlots /\ walk.position \in 1..walk.count + 1
  /\ failures <= MaxFailures /\ requests <= MaxRequests

(* What an indexed object says, and what a CompactID of it stands for,     *)
(* never changes again: it is read long after the walk has left its list,  *)
(* and its table with it.                                                  *)
IdentifiersStay ==
  [][/\ \A o \in DOMAIN index.objects :
         o \in DOMAIN index'.objects /\ index'.objects[o] = index.objects[o]
     /\ \A s \in DOMAIN index.scopes : \A i \in DOMAIN index.scopes[s] :
         /\ s \in DOMAIN index'.scopes /\ i \in DOMAIN index'.scopes[s]
         /\ index'.scopes[s][i] = index.scopes[s][i]]_sectionVars

(* Whatever the chains of fragments and lists, loops included, the reading *)
(* ends: with an index or with an error.                                   *)
Terminates == <>(phase \in {"done", "failed"})
====
