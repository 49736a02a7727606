---- MODULE MCPackagedSection ----
(***************************************************************************)
(* The packages.  All hold a storage index, a storage manifest, two cell   *)
(* manifests, two or three revision manifests, two object groups and a     *)
(* blob.  One family varies what these say: which cells there are and      *)
(* where their chains lead, which partitions the groups hold, which        *)
(* identifiers go with an object, and which names its bytes have.  The     *)
(* other takes one package and breaks its framing in every place.          *)
(***************************************************************************)
EXTENDS SamePackage

Leaf(type, body) == <<[kind |-> "start", type |-> type, compound |-> FALSE, body |-> body]>>
End(type) == <<[kind |-> "end", type |-> type]>>
Compound(type, body, children) ==
  <<[kind |-> "start", type |-> type, compound |-> TRUE, body |-> body]>>
    \o FlattenSeq(children) \o End(type)
DataElement(id, type, children) == Compound("DataElement", [id |-> id, type |-> type], children)

Cell(first, second) == [first |-> first, second |-> second]
CellMapping(cell, id) == Leaf("StorageIndexCellMapping", [cell |-> cell, id |-> id])
RevisionMapping(revision, id) ==
  Leaf("StorageIndexRevisionMapping", [revision |-> revision, id |-> id])
CellManifest(id, revision) ==
  DataElement(id, "CellManifest", <<Leaf("CellManifestCurrentRevision", revision)>>)
RootOf(object, role) == Leaf("RevisionManifestRootDeclare", [object |-> object, role |-> role])
GroupReference(id) == Leaf("RevisionManifestObjectGroupReference", id)
RevisionManifest(id, revision, base, rest) ==
  DataElement(id, "RevisionManifest",
    <<Leaf("RevisionManifest", [revision |-> revision, base |-> base])>> \o rest)

Declare(object, partition, references) ==
  Leaf("ObjectGroupObjectDeclare",
       [object |-> object, blob |-> Nil, partition |-> partition, references |-> references])
DeclareBlob(object, blob) ==
  Leaf("ObjectGroupObjectDeclareBlobReference",
       [object |-> object, blob |-> blob, partition |-> "file", references |-> 0])
Data(bytes, objectReferences, cellReferences) ==
  Leaf("ObjectGroupObjectData",
       [objectReferences |-> objectReferences, cellReferences |-> cellReferences,
        bytes |-> bytes, blob |-> Nil])
BlobData(blob) ==
  Leaf("ObjectGroupObjectDataBlobReference",
       [objectReferences |-> <<>>, cellReferences |-> <<>>, bytes |-> Nil, blob |-> blob])

NoStreams == [object |-> <<>>, space |-> Nil, context |-> Nil]
Jcid(n) == [length |-> 4, jcid |-> n, streams |-> NoStreams, file |-> Nil]
Set(streams) == [length |-> 20, jcid |-> 0, streams |-> streams, file |-> Nil]
Naming(file) == [Set(NoStreams) EXCEPT !.file = file]

Group(id, declarations, data) ==
  DataElement(id, "ObjectGroup", <<Compound("ObjectGroupDeclarations", <<>>, declarations),
                                   Compound("ObjectGroupData", <<>>, data)>>)

(* The two halves in the other order, and the declarations in two sections. *)
GroupReversed(id, declarations, data) ==
  DataElement(id, "ObjectGroup", <<Compound("ObjectGroupData", <<>>, data),
                                   Compound("ObjectGroupDeclarations", <<>>, Tail(declarations)),
                                   Compound("ObjectGroupDeclarations", <<>>, SubSeq(declarations, 1, 1))>>)

Storage(held, revisions) ==
  <<DataElement("si", "StorageIndex", held \o revisions),
    DataElement("sm", "StorageManifest", <<Leaf("StorageManifestSchemaGuid", "schema"),
      Leaf("StorageManifestRootDeclare", [root |-> "x", cell |-> Cell(NilGuid, "s1")])>>)>>

BlobAs(id, payload) == DataElement(id, "ObjectDataBlob", <<Leaf("ObjectDataBlob", payload)>>)
Blob(payload) == BlobAs("b1", payload)

Packaged0(elements) ==
  [headers |-> Compound("Packaging", Nil, <<Compound("DataElementPackage", Nil, elements)>>),
   trailing |-> FALSE]

-----------------------------------------------------------------------------
(* First family: cells and chains. *)
Cells ==
  {CellMapping(Cell(NilGuid, "s1"), "cm1"), CellMapping(Cell("c", "s1"), "cm1"),
   CellMapping(Cell(DefaultContext, "s2"), "cm2"), CellMapping(Cell(NilGuid, "s1"), "cm2"),
   CellMapping(Cell(NilGuid, HeaderSpace), "cm2"), CellMapping(Cell(NilGuid, "s2"), "cm9")}

Mappings == <<RevisionMapping("r1", "e1"), RevisionMapping("r2", "e2"), RevisionMapping("r3", "e3")>>

Plain(object, jcid) == <<Declare(object, "metadata", 1), Declare(object, "data", 2)>>
PlainData(jcid) == <<Data(Jcid(jcid), <<>>, <<>>), Data(Set(NoStreams), <<>>, <<>>)>>

G1 == Group("g1", Plain("x", 5), PlainData(5))
G2 == Group("g2", <<Declare("x", "metadata", 0), Declare("y", "metadata", 0),
                    Declare("y", "other", 3), Declare("z", "data", 0)>>,
            <<Data(Jcid(6), <<>>, <<>>), Data(Jcid(5), <<>>, <<>>), BlobData("b1")>>)

Chained(held, base1, base2, current, rest) ==
  Packaged0(Storage(held, Mappings)
    \o <<CellManifest("cm1", "r1"), CellManifest("cm2", current),
         RevisionManifest("e1", "r1", base1, <<RootOf("x", 1), GroupReference("g1")>>)>>
    \o rest
    \o <<RevisionManifest("e2", "r2", base2,
           <<GroupReference("g2"), RootOf("y", 1), GroupReference("g9"), GroupReference("g1")>>),
         G1, G2, Blob(7)>>)

Third == RevisionManifest("e3", "r3", "r2", <<GroupReference("g2"), RootOf("x", 2)>>)

(* Every sequence of up to two cells over chains that end, that loop and   *)
(* that share a tail; a cell that is mapped twice over one of them.        *)
Dependencies == {<<NilGuid, "r1">>, <<"r2", "r1">>, <<NilGuid, "r2">>}
Heads == {<<"r2", <<>>>>, <<"r3", <<Third>>>>, <<"r9", <<>>>>}

Chains ==
  {Chained(c, d[1], d[2], h[1], h[2]) :
     c \in {<<>>} \union {<<x>> : x \in Cells} \union (Cells \X Cells),
     d \in Dependencies, h \in Heads}
  \union {Chained(<<x, y, x>>, NilGuid, "r1", "r3", <<Third>>) : x \in Cells, y \in Cells}

(* Second family: one revision, and what its group says of an object. *)
GroupedWith(blobs, group) ==
  Packaged0(Storage(<<CellMapping(Cell("c", "s1"), "cm1")>>, Mappings)
    \o blobs
    \o <<CellManifest("cm1", "r9"), CellManifest("cm1", "r1"),
         RevisionManifest("e1", "r1", NilGuid, <<RootOf("x", 1), GroupReference("g1")>>)>>
    \o <<G1, group>>)
Grouped(group) == GroupedWith(<<Blob(6), Blob(7)>>, group)

Partition == {"metadata", "data", "file", "other"}
Datum == {Data(Jcid(6), <<>>, <<>>), Data(Set(NoStreams), <<>>, <<>>), BlobData("b1"), BlobData("b9")}

Grouping(p, d, q, u, v, w) ==
  Grouped(Group("g1", <<Declare("x", p, 1), d, Declare("y", q, 2), Declare("x", "data", 0)>>,
                <<u, v, w>>))
Seconds == {DeclareBlob("x", "b1"), Declare("y", "metadata", 1)}

Partitioned ==
  {Grouping(p, d, "data", u, BlobData(Nil), BlobData("b1")) :
     p \in Partition, d \in Seconds, u \in Datum}
  \union {Grouping("metadata", d, q, Data(Jcid(5), <<>>, <<>>), Data(Jcid(6), <<>>, <<>>), w) :
     q \in Partition, d \in Seconds, w \in Datum}

(* Two objects that name bytes and declare them, the same or others. *)
Files(n, b, m, c) ==
  GroupedWith(<<Blob(6), BlobAs("b2", 8)>>,
    Group("g1", <<Declare("x", "data", 1), DeclareBlob("x", b), Declare("y", "data", 1),
                  DeclareBlob("y", c)>>,
          <<Data(Naming(n), <<>>, <<>>), BlobData(Nil), Data(Naming(m), <<>>, <<>>), BlobData(Nil)>>))
Named == {Files("f", b, m, c) : b \in {"b1", "b9"}, m \in {Nil, "f", "g"}, c \in {"b1", "b2"}}

(* Identifiers that pair, and that do not. *)
Compact(i, ordinal) == [index |-> i, ordinal |-> ordinal]
Guid(guid, ordinal) == [guid |-> guid, ordinal |-> ordinal]
CompactLists == {<<>>, <<Compact(1, 1)>>, <<Compact(0, 0), Compact(1, 1)>>,
                 <<Compact(1, 1), Compact(1, 2)>>, <<Compact(1, 1), Compact(2, 1)>>,
                 <<Compact(9, 1)>>, <<Compact(8, 1), Compact(9, 2)>>}
GuidLists == {<<>>, <<Guid("a", 1)>>, <<Guid(NilGuid, 0), Guid("a", 1)>>,
              <<Guid("a", 1), Guid("a", 2)>>, <<Guid("a", 1), Guid("b", 2)>>,
              <<Guid("a", 1), Guid("b", 1)>>}
CellLists == {<<>>, <<Cell(Guid("c", 1), Guid("a", 1))>>, <<Cell(Guid("d", 1), Guid("a", 1))>>,
              <<Cell(Guid("d", 1), Guid("a", 1)), Cell(Guid("c", 1), Guid("b", 1))>>}
Optionally == {Nil, <<>>, <<Compact(1, 1)>>, <<Compact(3, 1)>>}

Referred(o, s, c, g, k) ==
  Grouped(Group("g1", <<Declare("x", "metadata", 1), Declare("x", "data", 1)>>,
                <<Data(Jcid(5), <<>>, <<>>),
                  Data(Set([object |-> o, space |-> s, context |-> c]), g, k)>>))

Referring ==
  {Referred(o, Nil, Nil, g, <<>>) : o \in CompactLists, g \in GuidLists}
  \union {Referred(<<Compact(1, 1)>>, s, c, <<Guid("a", 1)>>, k) :
             s \in Optionally, c \in Optionally, k \in CellLists}

-----------------------------------------------------------------------------
(* Third family: one package, its framing broken. *)
Base == Chained(<<CellMapping(Cell(NilGuid, "s1"), "cm1"), CellMapping(Cell("c", "s2"), "cm2")>>,
                NilGuid, "r1", "r2", <<>>)
Headers == Base.headers
Without(i) == SubSeq(Headers, 1, i - 1) \o SubSeq(Headers, i + 1, Len(Headers))
With(i, extra) == SubSeq(Headers, 1, i) \o extra \o SubSeq(Headers, i + 1, Len(Headers))
Framed(headers) == [headers |-> headers, trailing |-> FALSE]

Extras ==
  {Leaf("other", Nil), End("DataElement"), Compound("other", 1, <<Leaf("other", Nil)>>),
   Compound("other", 1, <<Compound("other", 1, <<Compound("other", 1, <<>>)>>)>>),
   Leaf("DataElement", [id |-> "g1", type |-> "ObjectGroup"]),
   Leaf("DataElement", [id |-> "cm1", type |-> "CellManifest"]),
   DataElement("f", "DataElementFragment", <<Leaf("other", 1), Compound("other", 1, <<Leaf("other", 1)>>)>>),
   DataElement("q", "unknown", <<>>), Leaf("DataElementPackage", Nil),
   Leaf("ObjectGroupData", Nil)}

(* Where the two disagree: the indexer takes the next package, a compound  *)
(* one, for the first; the README tells of it.                             *)
AnEmptyPackageFirst == Framed(With(1, Leaf("DataElementPackage", Nil)))

Framings ==
  {Framed(Without(i)) : i \in DOMAIN Headers}
  \union {Framed(SubSeq(Headers, 1, i)) : i \in 0..Len(Headers) - 1}
  \union ({Framed(With(i, e)) : i \in 0..Len(Headers), e \in Extras} \ {AnEmptyPackageFirst})
  \union {Framed([Headers EXCEPT ![i] = [kind |-> "start", type |-> @.type, compound |-> FALSE,
                                         body |-> Nil]]) : i \in DOMAIN Headers}
  \union {[Base EXCEPT !.trailing = TRUE], Framed(Leaf("Packaging", Nil)),
          Framed(End("Packaging")), Framed(Compound("Packaging", Nil, <<>>))}

MCPackages == Chains \union Partitioned \union Named \union Referring \union Framings

MCSpaceKeys == {"s1", "s2"} \X {Nil, "c"}
MCRootJcids == {5}
====
