---- MODULE MCDesktopSection ----
(***************************************************************************)
(* The files.  Every file has a root list "r", an object-space manifest    *)
(* list "a", a revision manifest list "b" and two object groups "g", "h".  *)
(* One family varies what the revision manifest list goes on to say and    *)
(* what the groups hold; the other the log, the fragment chains and the    *)
(* shape of the list graph.                                                *)
(***************************************************************************)
EXTENDS SameDesktop

Ref(id, child) == [id |-> id, child |-> child]
Plain(id) == [id |-> id]
Space(s) == [id |-> "revisionManifestListStart", space |-> s]
Revision(r, dependency, role, encrypted, context) ==
  [id |-> "revisionManifestStart", revision |-> r, dependency |-> dependency, role |-> role,
   encrypted |-> encrypted, context |-> context]
Role(r, role, context) ==
  [id |-> "revisionRoleDeclaration", revision |-> r, role |-> role, context |-> context]
Entry(i, guid) == [id |-> "globalIdTableEntry", index |-> i, guid |-> guid]
Root2(i, role) == [id |-> "rootObjectReference2", object |-> i, role |-> role]
Root3(id, role) == [id |-> "rootObjectReference3", object |-> id, role |-> role]
DeclareSet(i, jcid, set) ==
  [id |-> "objectDeclaration", object |-> i, jcid |-> jcid, real |-> TRUE, properties |-> set]
(* A set of no properties: an object stream alone, and a count of none. *)
Only(ids) == <<32 + Len(ids)>> \o ids \o <<0>>
Declare(i, jcid, ids) == DeclareSet(i, jcid, Only(ids))
Revise(i, ids) ==
  [id |-> "objectRevision", object |-> i, real |-> TRUE, properties |-> Only(ids)]
FileDataNamed(i, ifndf, key) ==
  [id |-> "objectDeclarationFileData", object |-> i, jcid |-> 9,
   name |-> [ifndf |-> ifndf, key |-> key]]
FileData(i) == FileDataNamed(i, TRUE, "f")
Stored(key, length, framed) ==
  [id |-> "fileDataStoreObjectReference", key |-> key, payload |-> length, length |-> length,
   framed |-> framed, real |-> length > 0]
Start == Plain("globalIdTableStart")

Fragment1(list, nodes) == [list |-> list, sequence |-> 0, nodes |-> nodes, next |-> Nil]
OneFragment(entries) == [entries |-> entries, next |-> Nil]

LogOf(entries) ==
  [start |-> "l", transactions |-> 1,
   fragments |-> ("l" :> OneFragment(Append(entries, [list |-> Sentinel, value |-> Len(entries)])))]

Counted(lists) ==
  LogOf([i \in DOMAIN lists |-> [list |-> lists[i][1], value |-> Len(lists[i][2])]])

RootNodes == <<Ref("objectSpaceManifestListReference", "a"), Plain("objectSpaceManifestRoot")>>
SpaceNodes == <<Ref("revisionManifestListReference", "b")>>

Standard(b, g, h) ==
  [root |-> "r",
   log  |-> Counted(<<<<"R", RootNodes>>, <<"A", SpaceNodes>>, <<"B", b>>, <<"G", g>>, <<"H", h>>>>),
   fragments |-> ("r" :> Fragment1("R", RootNodes)) @@ ("a" :> Fragment1("A", SpaceNodes))
              @@ ("b" :> Fragment1("B", b)) @@ ("g" :> Fragment1("G", g)) @@ ("h" :> Fragment1("H", h))]

-----------------------------------------------------------------------------
(* First family: what is said about revisions and objects.                 *)
Head1 == <<Space("s1"), Revision("r1", NilGuid, 1, FALSE, Nil),
           Ref("objectGroupListReference", "g")>>

Tails == {Revision("r2", "r1", 1, FALSE, Nil), Revision("r3", "r2", 4, TRUE, Nil),
          Revision("r2", "r2", 1, FALSE, "c"),
          Role("r1", 1, NilGuid), Role("r1", 1, "c"), Role("r2", 1, NilGuid),
          Ref("objectGroupListReference", "h"), Ref("revisionManifestListReference", "h"),
          Ref("objectGroupListReference", "b"), Space("s2"), Space(HeaderSpace), Start,
          Entry(1, "y"), Root2(1, 1), Root3("x", 1),
          Declare(1, 7, <<1>>)}

Groups ==
  {<<<<Start, Entry(1, "x"), Declare(1, 5, <<1>>)>>,
     <<Start, Entry(1, "x"), Revise(1, <<1>>), Start, Entry(1, "z"), Declare(1, 6, <<1>>)>>>>,
   <<<<Entry(1, "x"), Entry(2, "y"), Declare(1, 5, <<2, 1>>), Root2(1, 1)>>,
     <<Entry(1, "y"), Entry(3, "x"), FileData(1), Revise(3, <<1>>), Root3("y", 2)>>>>,
   <<<<Entry(1, "x"), Declare(1, 5, <<2>>), Entry(2, "y"), Root2(2, 1)>>,
     <<Entry(1, "y"), Start, Declare(1, 6, <<>>)>>>>}

(* Longer tails begin with what changes the place (a revision, a space, a  *)
(* group or a table) and end with what depends on it.                      *)
Openings == {Revision("r2", "r1", 1, FALSE, Nil), Revision("r3", "r2", 4, TRUE, Nil),
             Revision("r2", "r2", 1, FALSE, "c"), Ref("objectGroupListReference", "h"),
             Space("s2"), Space(HeaderSpace), Start}

Closings == {Role("r2", 1, NilGuid), Ref("objectGroupListReference", "h"), Start, Entry(1, "y"),
             Root2(1, 1), Root3("x", 1), Declare(1, 7, <<1>>)}

Longer == {Standard(Head1 \o <<x, y, z>>, p[1], p[2]) :
             x \in Openings, y \in Tails, z \in Closings, p \in Groups}

Said(length) == {Standard(Head1 \o s, p[1], p[2]) : s \in [1..length -> Tails], p \in Groups}

-----------------------------------------------------------------------------
(* Second family: one file, told in all the wrong ways.                    *)
BNodes == Head1 \o <<Ref("objectGroupListReference", "h"), Root3("x", 1)>>
GNodes == <<Entry(1, "x"), Declare(1, 5, <<1>>), Plain("chunkTerminator")>>
HNodes == <<Entry(1, "y"), Declare(1, 6, <<1>>)>>
Base == Standard(BNodes, GNodes, HNodes)

Entries == Base.log.fragments["l"].entries
WithLog(l) == [Base EXCEPT !.log = l]
WithEntries(entries) == WithLog([Base.log EXCEPT !.fragments["l"].entries = entries])
SplitLog(next2, transactions) ==
  [start |-> "l", transactions |-> transactions,
   fragments |-> ("l" :> [entries |-> SubSeq(Entries, 1, 3), next |-> "m"])
              @@ ("m" :> [entries |-> SubSeq(Entries, 4, 6), next |-> next2])]

Logs ==
  {WithLog(SplitLog(n, t)) : n \in {Nil, "l", "m", Outside}, t \in {1, 2}}
  \union {WithLog([Base.log EXCEPT !.start = s]) : s \in {Nil, Outside}}
  \union {WithLog([Base.log EXCEPT !.transactions = 0])}
  \union {WithEntries(<<[list |-> l, value |-> v]>> \o Entries) :
            l \in {Sentinel, Outside, "G", "X"}, v \in {0, 1, 3, MaxFileNodes + 1}}
  \union {WithEntries(SubSeq(Entries, 1, n)) : n \in 0..5}
  \union {WithEntries([i \in 1..6 |-> IF i = j THEN [list |-> Entries[j].list, value |-> v]
                                      ELSE Entries[i]]) : j \in 1..5, v \in {0, 1, 4}}
  \union {WithEntries(<<[list |-> Sentinel, value |-> 0]>>),
          WithEntries([i \in 1..MaxLogEntries |-> [list |-> "X", value |-> i]])}

ChangeAt(at, fragment) == [Base EXCEPT !.fragments = (at :> fragment) @@ @]
SplitAt(at, n, list, sequence, next) ==
  LET whole == Base.fragments[at]
  IN [Base EXCEPT !.fragments =
        (at :> [whole EXCEPT !.nodes = SubSeq(@, 1, n), !.next = "t"])
        @@ ("t" :> [list |-> list, sequence |-> sequence,
                    nodes |-> SubSeq(whole.nodes, n + 1, Len(whole.nodes)), next |-> next]) @@ @]

(* A list in two fragments of which the log committed less than is there.  *)
Shortened(n, count) ==
  [SplitAt("b", n, "B", 1, Nil) EXCEPT
     !.log.fragments["l"].entries = [i \in 1..6 |-> IF i = 3 THEN [list |-> "B", value |-> count]
                                                    ELSE Entries[i]]]

Chains ==
  {Shortened(n, count) : n \in 1..4, count \in 1..4} \union
  {SplitAt("b", n, "B", s, x) : n \in 0..5, s \in {0, 1}, x \in {Nil, "b", "t", Outside}}
  \union {SplitAt("g", n, l, 1, Nil) : n \in {1, 2}, l \in {"G", "H"}}
  \union {SplitAt("r", 1, l, 1, "t") : l \in {"R", "X"}}
  \union {ChangeAt(at, [Base.fragments[at] EXCEPT !.nodes = SubSeq(@, 1, 1), !.next = at]) :
            at \in {"r", "a", "b", "g"}}
  \union {ChangeAt("g", [Base.fragments["g"] EXCEPT !.list = l]) : l \in {"H", "X"}}

Extra == {Ref("objectGroupListReference", c) : c \in {Nil, Outside, "r", "b", "g"}}
         \union {Plain("malformed"), Plain("other"), Plain("chunkTerminator"),
                 Stored("k", 1, TRUE), Stored("k", 2, TRUE), Stored("k", 3, TRUE),
                 Stored("k", 2, FALSE), Stored("k", 0, TRUE), Role("r1", 65536, NilGuid),
                 Entry(1, NilGuid), Entry(1, "x"), Entry(9, "y"), Root2(9, 1),
                 [Declare(1, 5, <<>>) EXCEPT !.real = FALSE]}

Placed ==
  {Standard(SubSeq(BNodes, 1, i) \o <<x>> \o SubSeq(BNodes, i + 1, 5), GNodes, HNodes) :
     i \in {0, 1, 3, 5}, x \in Extra}
  \union {Standard(BNodes, GNodes, HNodes \o x) : x \in [1..2 -> Extra]}
  \union {Standard(BNodes \o <<Ref("objectGroupListReference", "g")>>, <<x>> \o GNodes, HNodes) :
            x \in Extra}

(* A node of any kind may reference a list, and one that should may not.   *)
Misplaced ==
  {Standard(SubSeq(BNodes, 1, i) \o <<x>> \o SubSeq(BNodes, i + 1, 5), GNodes, HNodes) :
     i \in 1..5, x \in {Ref("other", "h"), Ref("other", "b"), Ref("chunkTerminator", "h"),
                        Plain("objectGroupListReference")}}

(* Objects that name bytes of the store, or something else, and bytes that *)
(* come before them, after them, twice or not at all.                      *)
Names == {FileDataNamed(1, ifndf, key) : ifndf \in BOOLEAN, key \in {"k", "m"}}
Named ==
  {Standard(Head1 \o <<x>>, <<Entry(1, "x"), n, Declare(1, 5, <<1>>), n, y>>, <<z>>) :
     n \in Names, x \in {Stored("m", 1, TRUE), Ref("objectGroupListReference", "h")},
     y \in {Stored("k", 2, TRUE), Plain("other")},
     z \in {Stored("k", 1, TRUE), Plain("other")}}

(* The root list said otherwise, and lists that nest. *)
Rooted(nodes) ==
  [Standard(BNodes, GNodes, HNodes) EXCEPT
     !.fragments["r"].nodes = nodes,
     !.log = Counted(<<<<"R", nodes>>, <<"A", SpaceNodes>>, <<"B", BNodes>>, <<"G", GNodes>>,
                       <<"H", HNodes>>>>)]

Roots ==
  {Rooted(<<Ref("objectSpaceManifestListReference", "a"), x, y>>) :
     x \in {Plain("objectSpaceManifestRoot"), Ref("objectSpaceManifestRoot", "h"), Plain("other"),
            Ref("fileDataStoreListReference", "h")},
     y \in {Plain("objectSpaceManifestRoot"), Plain("other"), Plain("malformed")}}
  \union {Rooted(<<Plain("objectSpaceManifestRoot"), Plain("other")>>)}

Nested == Standard(BNodes, <<Ref("objectGroupListReference", "h")>> \o GNodes,
                   <<Ref("objectGroupListReference", "b"), Ref("objectGroupListReference", "g")>> \o HNodes)
Deeper == [Nested EXCEPT !.fragments["h"].nodes[1].child = "u",
                         !.fragments = ("u" :> Fragment1("X", <<Plain("other")>>)) @@ @,
                         !.log.fragments["l"].entries = <<[list |-> "X", value |-> 1]>>
                            \o SubSeq(Entries, 1, 3) \o <<[list |-> "G", value |-> 4],
                            [list |-> "H", value |-> 4], [list |-> Sentinel, value |-> 6]>>]

(* More nodes than the limit, in the group the walk reaches last. *)
Many == {Standard(BNodes, GNodes, [i \in 1..n |-> Plain("other")]) : n \in 6..MaxFileNodes}

-----------------------------------------------------------------------------
(* Third family: one object, and the set it is declared with.  A raw       *)
(* identifier is a type and a name; a boolean has its value on top.        *)
Raw(type, name) == 4 * type + name
True(name) == 128 + Raw(2, name)

Holds(set) ==
  Standard(Head1, <<Entry(1, "x"), Entry(2, "y"), DeclareSet(1, 5, set), Start, Entry(1, "z"),
                    Declare(1, 6, <<1>>)>>, <<>>)

Streams == <<34, 1, 2>>          \* two objects, no more streams
ThreeStreams == <<2, 2, 1, 17, 1, 1, 2>>  \* two objects, a space, a context
TwoStreams == <<1, 2, 1, 1>>

Typed == {Raw(1, 1), Raw(2, 1), True(1), Raw(5, 1), Raw(6, 2), Raw(7, 1), Raw(8, 2), Raw(9, 1),
          Raw(10, 1), Raw(11, 2), Raw(13, 2), Raw(14, 1), Raw(16, 1), Raw(17, 2)}
Values == {<<>>, <<2, 0, 0, 1>>, <<1, 33, 2, 1, 1>>, <<3, 1, 0, 0, 1>>, <<2, 68, 1, 33, 1, 33>>}

Second == {Raw(2, 1), Raw(5, 1), Raw(7, 1), Raw(8, 2), Raw(9, 1), Raw(17, 2)}
Pairs == {Holds(ThreeStreams \o <<2, a, b>> \o v) : a \in Typed, b \in Second, v \in Values}

(* Sets in sets: what is taken inside them moves what comes after.         *)
Inner == {<<0>>, <<1, Raw(8, 1)>>, <<2, Raw(5, 1), Raw(5, 1), 2, 3>>, <<1, Raw(17, 1), 1, Raw(8, 2)>>,
          <<1, Raw(17, 1), 1, Raw(17, 1), 0>>, <<1, Raw(16, 1), 1, Raw(17, 0), 1, Raw(2, 3)>>, <<4>>}
Nests ==
  {Holds(Streams \o <<2, Raw(17, 3), Raw(8, 2)>> \o i) : i \in Inner}
  \union {Holds(Streams \o <<2, Raw(16, 3), Raw(8, 2), 2, Raw(17, 0)>> \o i \o j) :
            i \in Inner, j \in Inner}
  \union {Holds(Streams \o <<3, Raw(16, 3), Raw(5, 3), Raw(16, 2), 2, t>> \o i \o <<0>> \o <<7, 0, 1>>) :
            i \in Inner, t \in {Raw(17, 0), Raw(16, 0)}}

Headers ==
  {Holds(h \o <<1, p, 1, 2>>) :
     h \in {<<40, 1>>, <<36>>, <<34, 1>>, <<33, 9>>, <<33>>, <<1, 1, 40>>, <<1, 1, 17, 1, 9>>,
            TwoStreams, <<>>, <<0, 0>>, <<32>>},
     p \in {Raw(8, 1), Raw(11, 1), Raw(5, 1)}}

MCFiles ==
  Pairs \union Nests \union Headers \union Many \union Longer \union Said(2) \union {Base}
    \union Logs \union Chains \union Placed \union Misplaced \union Named \union Roots \union {Nested, Deeper}

MCSpaceKeys == {"s1", "s2"} \X {Nil, "c"}
MCRootJcids == {5, 6}
====
