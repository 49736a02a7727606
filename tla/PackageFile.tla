---- MODULE PackageFile ----
(***************************************************************************)
(* What a packaged section is to its two readers: the headers of its       *)
(* stream objects one after another, and whether anything but zeros        *)
(* follows.  A start header has a type and the body behind it, Nil when    *)
(* the body does not parse to exactly its declared length; a compound one  *)
(* is closed by an end header of its type.                                 *)
(***************************************************************************)
EXTENDS ReaderLimits

CONSTANTS Packages,         \* the packages
          MaxDepth,         \* how deep stream objects may nest
          DefaultContext    \* the context every section shares

ASSUME DepthAssumption == MaxDepth \in Nat \ {0}

(* The data elements that must have a child, and the child they need.      *)
NeedsChild == {"StorageManifest", "CellManifest", "RevisionManifest", "ObjectDataBlob"}
ElementTypes == NeedsChild \union {"StorageIndex", "ObjectGroup", "DataElementFragment"}

IndexMappings == {"StorageIndexManifestMapping", "StorageIndexCellMapping",
                  "StorageIndexRevisionMapping"}
Sections == {"ObjectGroupDeclarations", "ObjectGroupData"}

(* The walker is in no element, or in no section, when it has no type.     *)
ASSUME NoTypeAssumption == Nil \notin ElementTypes \union Sections

DeclareTypes == {"ObjectGroupObjectDeclare", "ObjectGroupObjectDeclareBlobReference"}
DataTypes == {"ObjectGroupObjectData", "ObjectGroupObjectDataBlobReference"}

(* expect, and then #exact or readExact: a body is of one of the types and *)
(* parses to its end.                                                      *)
ShapeFault(object, types) ==
  CASE object.type \notin types -> "MISSING_STRUCTURE"
    [] object.body = Nil        -> "STRUCTURE_LENGTH"
    [] OTHER                    -> Ok

(* A cell that names the context every section shares is in the default.   *)
ContextOf(first) == IF first \in {NilGuid, DefaultContext} THEN Nil ELSE first

(* The bytes of an object: metadata is a type code of four bytes.          *)
FourBytes(bytes) == IF bytes = Nil THEN FALSE ELSE bytes.length = 4
====
