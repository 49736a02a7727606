---- MODULE SpaceResolver ----
(***************************************************************************)
(* Object spaces resolved from the index, one store record at a time.  A   *)
(* space that has been asked for is a slot: a chain of revisions walked    *)
(* from the current one down its dependencies, then applied oldest first,  *)
(* and only then remembered under the space's key.  A write to the store   *)
(* can fail between any two of these, and the next page of the section     *)
(* asks again.                                                             *)
(*                                                                         *)
(* The tables built at construction (revisions by identifier, spaces in    *)
(* order of appearance) are functions of the finished index and are read   *)
(* off it.  cells is what #assignCells derived for a packaged section.     *)
(***************************************************************************)
EXTENDS SectionIndex, SequencesExt

CONSTANT MaxFailures   \* failed store writes while resolving; a bound of the model

ASSUME FailuresAssumption == MaxFailures \in Nat

VARIABLES cells,     \* revision order -> [first, second, context, associations]
          slots,     \* the resolved spaces, finished or not
          cache,     \* <<space, context>> -> [slot, revision]; slot 0 is "no such space"
          request,   \* the space being resolved
          search,    \* the search for a space by the type of its root
          failures

resolverVars == <<cells, slots, cache, request, search, failures>>

Packaged == index.encoding = "file-synchronization-package"

-----------------------------------------------------------------------------
Orders == [i \in DOMAIN index.revisions |-> i]

(* Every revision that carries an identifier, and the last of them. *)
OrdersFor(id) == {i \in DOMAIN index.revisions : RevisionAt(index, i).id = id}
LastRevisionFor(id) ==
  IF id = Nil \/ OrdersFor(id) = {} THEN NoRevision ELSE Max(OrdersFor(id))

CellOf(revision) == Get(cells, revision)

(* A packaged revision that no cell reaches sits in no space. *)
SpaceOf(revision) ==
  IF ~Packaged THEN RevisionAt(index, revision).space
  ELSE IF CellOf(revision) = Nil THEN Nil ELSE CellOf(revision).second

IsEncrypted(revision) == ~Packaged /\ RevisionAt(index, revision).encrypted

AssociationsOf(revision) ==
  IF ~Packaged THEN RoleAssociationsOf(index, revision)
  ELSE IF CellOf(revision) = Nil THEN <<>> ELSE CellOf(revision).associations

Spaces ==
  FoldLeft(LAMBDA known, i: IF SpaceOf(i) = Nil \/ Contains(known, SpaceOf(i)) THEN known
                            ELSE Append(known, SpaceOf(i)),
           <<>>, Orders)

(* The revision the space is current at: the one associated last wins, and *)
(* of those associated at once the later.                                  *)
Claims(revision, context) ==
  {a.order : a \in {b \in Range(AssociationsOf(revision)) : b.role = 1 /\ b.context = context}}
Claimants(space) == {i \in DOMAIN index.revisions : SpaceOf(i) = space /\ ~IsEncrypted(i)}
Latest(space, context) ==
  {i \in Claimants(space) :
     \E order \in Claims(i, context) :
       \A j \in Claimants(space) : \A other \in Claims(j, context) : other <= order}
Current(space, context) ==
  IF Latest(space, context) = {} THEN NoRevision ELSE Max(Latest(space, context))

-----------------------------------------------------------------------------
Idle == [step |-> "idle", key |-> <<>>, slot |-> 0, revision |-> NoRevision,
         next |-> NoRevision, position |-> 0]

NotSearching == [at |-> 0, jcid |-> 0, found |-> Nil]

ResolverInit ==
  /\ cells = <<>> /\ slots = <<>> /\ cache = <<>> /\ failures = 0
  /\ request = Idle /\ search = NotSearching

(* #resolve up to the replay: an unknown space, and one with no current    *)
(* revision, are remembered as absent without a slot.                      *)
Resolve(key) ==
  LET current == Current(key[1], key[2])
  IN IF current = NoRevision
     THEN /\ cache' = WithEntry(cache, key, [slot |-> 0, revision |-> NoRevision])
          /\ UNCHANGED <<slots, request>>
     ELSE /\ slots' = Append(slots, [chain |-> <<>>, objects |-> <<>>, roots |-> <<>>])
          /\ request' = [step |-> "chain", key |-> key, slot |-> Len(slots) + 1,
                         revision |-> current, next |-> current, position |-> 0]
          /\ UNCHANGED cache

(* tryGetSpace from the page that names the space; asking for one that is  *)
(* remembered changes nothing.                                             *)
AskSpace(space, context) ==
  /\ request = Idle /\ search.at = 0
  /\ ~Has(cache, <<space, context>>)
  /\ Resolve(<<space, context>>)
  /\ UNCHANGED <<index, cells, search, failures>>

Chain == slots[request.slot].chain
ChainIds == {RevisionAt(index, Chain[i]).id : i \in DOMAIN Chain}
AtChainEnd ==
  request.next \in {NoRevision} \union
    {i \in DOMAIN index.revisions : RevisionAt(index, i).id \in ChainIds}

WalkChain ==
  /\ request.step = "chain" /\ ~AtChainEnd
  /\ slots' = [slots EXCEPT ![request.slot].chain = Append(@, request.next)]
  /\ request' = [request EXCEPT
       !.next = LastRevisionFor(RevisionAt(index, request.next).dependency)]
  /\ UNCHANGED <<index, cells, cache, search, failures>>

EndChain ==
  /\ request.step = "chain" /\ AtChainEnd
  /\ request' = [request EXCEPT !.step = "apply", !.position = Len(Chain)]
  /\ UNCHANGED <<index, cells, slots, cache, search, failures>>

(* What a revision declares: of objects with one identifier, and of roots  *)
(* with one role, the last.                                                *)
Declares(revision) == {ObjectAt(index, o).id : o \in Range(ObjectsOf(index, revision))}
Declared(revision, id) ==
  LET objects == ObjectsOf(index, revision)
  IN objects[Max({n \in DOMAIN objects : ObjectAt(index, objects[n]).id = id})]

RootsOf(revision) ==
  LET roots == RootObjectsOf(index, revision)
      Named(role) == {n \in DOMAIN roots : roots[n].role = role}
  IN [role \in {root.role : root \in Range(roots)} |-> roots[Max(Named(role))].object]

(* Every order that shares the identifier contributes its objects; the     *)
(* roots are those of the revision in the chain alone.                     *)
ObjectsNamed(revision) ==
  LET orders == OrdersFor(RevisionAt(index, revision).id)
      Declaring(id) == {i \in orders : id \in Declares(i)}
  IN [id \in UNION {Declares(i) : i \in orders} |-> Declared(Max(Declaring(id)), id)]

FirstDeclarationWins ==
  /\ request.step = "apply" /\ request.position > 0
  /\ LET order == Chain[request.position]
     IN slots' = [slots EXCEPT ![request.slot].objects = Overlay(@, ObjectsNamed(order)),
                               ![request.slot].roots = Overlay(RootsOf(order), @)]
  /\ request' = [request EXCEPT !.position = @ - 1]
  /\ UNCHANGED <<index, cells, cache, search, failures>>

ApplyRevision ==
  /\ request.step = "apply" /\ request.position > 0
  /\ LET order == Chain[request.position]
     IN slots' = [slots EXCEPT ![request.slot].objects = Overlay(ObjectsNamed(order), @),
                               ![request.slot].roots = Overlay(RootsOf(order), @)]
  /\ request' = [request EXCEPT !.position = @ - 1]
  /\ UNCHANGED <<index, cells, cache, search, failures>>

RememberSpace ==
  /\ request.step = "apply" /\ request.position = 0
  /\ cache' = WithEntry(cache, request.key,
                        [slot |-> request.slot, revision |-> request.revision])
  /\ request' = Idle
  /\ UNCHANGED <<index, cells, slots, search, failures>>

(* The store refuses a record: whoever asked fails with it, and nothing is *)
(* remembered.  The slot's number is spent.                                *)
ResolveFails ==
  /\ request /= Idle /\ failures < MaxFailures
  /\ failures' = failures + 1
  /\ request' = Idle /\ search' = NotSearching
  /\ UNCHANGED <<index, cells, slots, cache>>

-----------------------------------------------------------------------------
(* ResolvedSpace, by the slot the cache holds. *)
Object(slot, id) == IF Has(slots[slot].objects, id) THEN ObjectAt(index, slots[slot].objects[id])
                    ELSE Nil
Root(slot, role) == IF Has(slots[slot].roots, role) THEN Object(slot, slots[slot].roots[role])
                    ELSE Nil

(* currentSpaceByRootJcid: each space in turn is asked for, the header's   *)
(* skipped, until a primary root has the type.                             *)
StartSearch(jcid) ==
  /\ request = Idle /\ search.at = 0
  /\ search' = [at |-> 1, jcid |-> jcid, found |-> Nil]
  /\ UNCHANGED <<index, cells, slots, cache, request, failures>>

Searching == search.at > 0 /\ request = Idle
Candidate == <<Spaces[search.at], Nil>>

SearchAsks ==
  /\ Searching /\ search.at <= Len(Spaces) /\ Spaces[search.at] /= HeaderSpace
  /\ ~Has(cache, Candidate)
  /\ Resolve(Candidate)
  /\ UNCHANGED <<index, cells, search, failures>>

Matches(key) ==
  LET slot == cache[key].slot
      root == IF slot = 0 THEN Nil ELSE Root(slot, 1)
  IN root /= Nil /\ root.jcid = search.jcid

SearchMoves ==
  /\ Searching /\ search.at <= Len(Spaces)
  /\ \/ /\ Spaces[search.at] = HeaderSpace
        /\ search' = [search EXCEPT !.at = @ + 1]
     \/ /\ Spaces[search.at] /= HeaderSpace /\ Has(cache, Candidate)
        /\ search' = IF Matches(Candidate)
                     THEN [search EXCEPT !.found = Spaces[search.at], !.at = Len(Spaces) + 1]
                     ELSE [search EXCEPT !.at = @ + 1]
  /\ UNCHANGED <<index, cells, slots, cache, request, failures>>

SearchDone == Searching /\ search.at > Len(Spaces)

ResolverNext ==
  \/ WalkChain \/ EndChain \/ ApplyRevision \/ RememberSpace \/ ResolveFails
  \/ SearchAsks \/ SearchMoves

-----------------------------------------------------------------------------
IdOf(revision) == RevisionAt(index, revision).id
Next0(revision) == LastRevisionFor(RevisionAt(index, revision).dependency)

Linked(chain) ==
  /\ Sequential(chain) /\ \A i \in 1..Len(chain) : chain[i] \in DOMAIN index.revisions
  /\ \A i \in 1..Len(chain) - 1 : chain[i + 1] = Next0(chain[i])
  /\ \A i, j \in 1..Len(chain) : IdOf(chain[i]) = IdOf(chain[j]) => i = j

(* Nothing follows but what was met before. *)
Ended(chain) ==
  LET next == Next0(chain[Len(chain)])
  IN next = NoRevision \/ \E i \in 1..Len(chain) : IdOf(chain[i]) = IdOf(next)

(* What a table holds once the revisions of the chain past position have   *)
(* been applied: of what several of them say, what the newest does.        *)
Replay(table, chain, position, said) ==
  /\ DOMAIN table = UNION {DOMAIN said[chain[k]] : k \in position + 1..Len(chain)}
  /\ \A k \in position + 1..Len(chain) : \A id \in DOMAIN said[chain[k]] :
       (\A j \in position + 1..k - 1 : id \notin DOMAIN said[chain[j]])
         => table[id] = said[chain[k]][id]

NamedObjects == [r \in DOMAIN index.revisions |-> ObjectsNamed(r)]
NamedRoots == [r \in DOMAIN index.revisions |-> RootsOf(r)]

Replayed(space, position) ==
  /\ Replay(space.objects, space.chain, position, NamedObjects)
  /\ Replay(space.roots, space.chain, position, NamedRoots)

(* A resolved space: its chain down from the current revision to where     *)
(* nothing new follows, and all of it replayed.                            *)
Whole(space, current) ==
  /\ Linked(space.chain) /\ space.chain /= <<>> /\ space.chain[1] = current
  /\ Ended(space.chain)
  /\ Replayed(space, 0)

(* What is remembered of a space: that it has no current revision, or the  *)
(* chain of it, replayed whole.                                            *)
SpacesAreWhole ==
  \A key \in DOMAIN cache :
    IF Current(key[1], key[2]) = NoRevision THEN cache[key].slot = 0
    ELSE /\ cache[key].revision = Current(key[1], key[2])
         /\ cache[key].slot \in DOMAIN slots
         /\ Whole(slots[cache[key].slot], cache[key].revision)

(* The choice of the current revision is never a toss between two: no two  *)
(* revisions that one space holds are associated latest with one context.  *)
OneIsCurrent ==
  \A i \in DOMAIN index.revisions : \A a \in Range(AssociationsOf(i)) :
    \A j, k \in Latest(SpaceOf(i), a.context) : j = k
====
