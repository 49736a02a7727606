---- MODULE SectionIndex ----
(***************************************************************************)
(* The tables both indexers write and every later stage reads: revisions,  *)
(* objects and file data in the order they were met, each also found by    *)
(* identifier, and the global-identification scopes.  They live in a       *)
(* PagedKeyValueStore, which PagedStore shows to be a map, so a table is a *)
(* sequence or a function here.  An order is a position counted from one.  *)
(***************************************************************************)
EXTENDS ReaderLimits, Functions

VARIABLE index

(* NO_REVISION: the order of a declaration that stands outside any revision. *)
NoRevision == 0

EmptyIndex(encoding) ==
  [encoding       |-> encoding,
   revisions      |-> <<>>, objects      |-> <<>>, fileData      |-> <<>>,
   revisionByGuid |-> <<>>, objectByGuid |-> <<>>, fileDataByKey |-> <<>>,
   scopes         |-> <<>>]

(* A revision enters with empty lists and replaces the one its identifier  *)
(* named; the replaced revision keeps its order.                           *)
AddRevision(ix, id, dependency, role, encrypted, context, space) ==
  [ix EXCEPT
     !.revisions = Append(@, [id |-> id, dependency |-> dependency, role |-> role,
                              encrypted |-> encrypted, context |-> context, space |-> space,
                              roots |-> <<>>, roles |-> <<>>, objects |-> <<>>]),
     !.revisionByGuid = WithEntry(@, id, Len(ix.revisions) + 1)]

AddRootObject(ix, revision, object, role) ==
  [ix EXCEPT !.revisions[revision].roots = Append(@, [object |-> object, role |-> role])]

AddRoleAssociation(ix, revision, context, role, order) ==
  [ix EXCEPT !.revisions[revision].roles =
     Append(@, [context |-> context, role |-> role, order |-> order])]

(* Mutant of AddObject: an object of no revision is taken for one of the   *)
(* revision added last.                                                    *)
AddObjectToLast(ix, object) ==
  LET order == Len(ix.objects) + 1
      added == [ix EXCEPT !.objects = Append(@, object),
                          !.objectByGuid = WithEntry(@, object.id, order)]
  IN IF ix.revisions = <<>> THEN added
     ELSE [added EXCEPT !.revisions[Len(ix.revisions)].objects = Append(@, order)]

(* An object is listed under its revision as well, when it has one.        *)
AddObject(ix, object) ==
  LET order == Len(ix.objects) + 1
      added == [ix EXCEPT !.objects = Append(@, object),
                          !.objectByGuid = WithEntry(@, object.id, order)]
  IN IF object.revision = NoRevision THEN added
     ELSE [added EXCEPT !.revisions[object.revision].objects = Append(@, order)]

(* Rewrites an object in place, for a partition seen later. *)
UpdateObject(ix, order, object) == [ix EXCEPT !.objects[order] = object]

AddFileData(ix, key, payload) ==
  [ix EXCEPT !.fileData = Append(@, [key |-> key, payload |-> payload]),
             !.fileDataByKey = WithEntry(@, key, Len(ix.fileData) + 1)]

(* A scope is never emptied or closed: an object met under it is resolved  *)
(* through it long after the walk has left.                                *)
OpenScope(ix) == [ix EXCEPT !.scopes = Append(@, <<>>)]
AddGlobalId(ix, scope, i, identifier) ==
  [ix EXCEPT !.scopes[scope] = WithEntry(@, i, identifier)]
HasGlobalId(ix, scope, i) == Has(ix.scopes[scope], i)
GlobalId(ix, scope, i) == Get(ix.scopes[scope], i)

(* What later stages read back: a revision and its lists, an object by the *)
(* order it was added in or by whether its identifier is known, file data. *)
RevisionAt(ix, order) == ix.revisions[order]
RevisionOf(ix, id) == Get(ix.revisionByGuid, id)
RootObjectsOf(ix, revision) == RevisionAt(ix, revision).roots
RoleAssociationsOf(ix, revision) == RevisionAt(ix, revision).roles
ObjectsOf(ix, revision) == RevisionAt(ix, revision).objects
ObjectAt(ix, order) == ix.objects[order]
HasObject(ix, id) == Has(ix.objectByGuid, id)
FileDataOf(ix, key) ==
  IF Has(ix.fileDataByKey, key) THEN ix.fileData[ix.fileDataByKey[key]].payload ELSE Nil

-----------------------------------------------------------------------------
(* The tables fit together, at every moment: a revision lists the objects  *)
(* that are its own and no others, an object of a revision is listed under *)
(* it, and what an identifier finds is the last that was added with it.    *)
Sequential(s) == Len(s) \in Nat /\ s = [i \in 1..Len(s) |-> s[i]]

ListsItsOwn(ix) ==
  /\ \A r \in DOMAIN ix.revisions : \A o \in Range(ObjectsOf(ix, r)) :
       o \in DOMAIN ix.objects /\ ix.objects[o].revision = r
  /\ \A o \in DOMAIN ix.objects :
       ix.objects[o].revision /= NoRevision =>
         /\ ix.objects[o].revision \in DOMAIN ix.revisions
         /\ o \in Range(ObjectsOf(ix, ix.objects[o].revision))

FindsTheLast(rows, table) ==
  /\ \A id \in DOMAIN table : table[id] \in DOMAIN rows /\ rows[table[id]] = id
  /\ \A n \in DOMAIN rows : rows[n] \in DOMAIN table /\ n <= table[rows[n]]

FindsByIdentifier(ix) ==
  /\ FindsTheLast([r \in DOMAIN ix.revisions |-> ix.revisions[r].id], ix.revisionByGuid)
  /\ FindsTheLast([o \in DOMAIN ix.objects |-> ix.objects[o].id], ix.objectByGuid)
  /\ FindsTheLast([n \in DOMAIN ix.fileData |-> ix.fileData[n].key], ix.fileDataByKey)

TablesAgree == ListsItsOwn(index) /\ FindsByIdentifier(index)
====
