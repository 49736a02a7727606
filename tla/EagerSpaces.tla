---- MODULE EagerSpaces ----
(***************************************************************************)
(* ObjectSpaceMaterializer over an eager ObjectGraph of either encoding:   *)
(* the state of an object space is one revision chain replayed from its    *)
(* oldest revision.  An answer is the current revision's place in the      *)
(* graph with the objects and roots of the chain; Nil when there is none.  *)
(***************************************************************************)
EXTENDS ReaderLimits, SequencesExt

(* The spaces in the order their first revisions come. *)
GraphSpaces(graph) ==
  FoldLeft(LAMBDA known, r: IF r.space = Nil \/ Contains(known, r.space) THEN known
                            ELSE Append(known, r.space),
           <<>>, graph.revisions)

(* The revisions map keeps the last of those that share an identifier. *)
RevisionNamed(graph, id) ==
  SelectLastInSeq(graph.revisions, LAMBDA r: r.id = id)

RECURSIVE RevisionChain(_, _, _)
RevisionChain(graph, current, visited) ==
  IF current = 0 THEN <<>>
  ELSE LET revision == graph.revisions[current]
       IN IF revision.id \in visited THEN <<>>
          ELSE Append(RevisionChain(graph,
                        IF revision.dependency = Nil THEN 0
                        ELSE RevisionNamed(graph, revision.dependency),
                        visited \union {revision.id}), current)

(* tryGetSpace.  The associations that make a revision current for the     *)
(* context; of these the one made last decides.                            *)
Associated(graph, space, context) ==
  UNION {{[revision |-> i, order |-> a.order] :
            a \in {b \in ToSet(graph.revisions[i].roles) : b.role = 1 /\ b.context = context}} :
         i \in {j \in DOMAIN graph.revisions : /\ graph.revisions[j].space = space
                                              /\ ~graph.revisions[j].encrypted}}

GraphSpace(graph, space, context) ==
  LET associated == Associated(graph, space, context)
      current == (CHOOSE a \in associated : \A b \in associated : b.order <= a.order).revision
      chain == RevisionChain(graph, current, {})
      DeclaredIn(revision) == SelectSeq(graph.objects, LAMBDA o: o.revisionId = revision.id)
      declared == FlattenSeq([i \in DOMAIN chain |-> DeclaredIn(graph.revisions[chain[i]])])
      rooted == FlattenSeq([i \in DOMAIN chain |-> graph.revisions[chain[i]].roots])
  IN IF associated = {} THEN Nil
     ELSE [revision |-> current,
           objects |-> FoldLeft(LAMBDA table, o: (o.id :> o) @@ table, <<>>, declared),
           roots   |-> FoldLeft(LAMBDA table, r: (r.role :> r.object) @@ table, <<>>, rooted)]

RootObject(space, role) ==
  IF space = Nil THEN Nil
  ELSE IF Has(space.roots, role) THEN Get(space.objects, space.roots[role])
  ELSE Nil

(* findCurrentSpaceByRootJcid: the first space whose primary root has the  *)
(* type, the header cell's space apart; Nil when there is none.            *)
SpaceByRootJcid(graph, jcid) ==
  LET spaces == GraphSpaces(graph)
      matches == {i \in DOMAIN spaces :
                    /\ spaces[i] /= HeaderSpace
                    /\ LET root == RootObject(GraphSpace(graph, spaces[i], Nil), 1)
                       IN root /= Nil /\ root.jcid = jcid}
  IN IF matches = {} THEN Nil ELSE spaces[CHOOSE i \in matches : \A j \in matches : i <= j]

(* resolveFileData: the bytes an object of a desktop graph names, of those *)
(* stored under the name the last; a name of another scheme names none.    *)
ResolveFileData(graph, object) ==
  LET stored == SelectLastInSeq(graph.fileData, LAMBDA item: item.key = object.name.key)
  IN IF object.name = Nil THEN Nil
     ELSE IF ~object.name.ifndf \/ stored = 0 THEN Nil
     ELSE graph.fileData[stored].payload
====
