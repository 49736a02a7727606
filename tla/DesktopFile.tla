---- MODULE DesktopFile ----
(***************************************************************************)
(* What a desktop section is to its two readers.                           *)
(*                                                                         *)
(* A file is the fragments at its offsets: a log fragment is a sequence of *)
(* entries and the next fragment; a list fragment names its list and its   *)
(* place in the chain, and holds nodes.  A node is a record whose id is    *)
(* its FileNodeId; one that references a list has a child, and real says   *)
(* whether it references bytes at all.  A CompactID is an index of the     *)
(* table in force.  The running checksum of the log is the number of       *)
(* entries folded into it.  A fragment that fails one of the checks on its *)
(* own bytes (a magic number, a length) fails as a malformed node does.    *)
(*                                                                         *)
(* An object's property set is three streams of CompactIDs, then a count,  *)
(* so many raw identifiers and so many values, nested sets among them.     *)
(* Its bytes are a sequence of units: a field of up to four bytes is one   *)
(* unit, a number whatever it means, and so is a character of data; a      *)
(* value of eight bytes is two.  Where one field ends and the next begins  *)
(* is decided by what was read before, as in the bytes.                    *)
(***************************************************************************)
EXTENDS ReaderLimits

CONSTANTS Files, Outside,    \* the files; a reference past the end of the file
          Sentinel,          \* the source of a log entry that ends a transaction
          MaxLogFragments, MaxLogEntries, MaxListFragments,
          MaxProperties, MaxSetDepth, MaxDataLength

ASSUME FileLimits ==
  {MaxLogFragments, MaxLogEntries, MaxListFragments} \subseteq Nat \ {0}

ASSUME SetLimits == {MaxProperties, MaxSetDepth, MaxDataLength} \subseteq Nat \ {0}

(* The node references a list: baseType is file-node-list-reference. *)
References(node) == "child" \in DOMAIN node

RootReferences == {"rootObjectReference2", "rootObjectReference3"}
Declarations   == {"objectDeclaration", "objectRevision"}

(* The nodes that say something themselves.                               *)
Handled == {"revisionManifestListStart", "revisionManifestStart", "revisionRoleDeclaration",
            "globalIdTableStart", "globalIdTableEntry", "objectDeclarationFileData",
            "fileDataStoreObjectReference"} \union RootReferences \union Declarations

(* A file is well formed where its bytes are numbers and its references    *)
(* lead to a fragment, to nothing or past its end, and where no node both  *)
(* says something itself and references a list.                            *)
Whole1(nodes) == Len(nodes) \in Nat /\ DOMAIN nodes = 1..Len(nodes)
Leads(reference, fragments) == reference \in DOMAIN fragments \union {Nil, Outside}

ASSUME FilesAssumption ==
  \A f \in Files :
    /\ Leads(f.log.start, f.log.fragments) /\ f.log.transactions \in Nat
    /\ \A at \in DOMAIN f.log.fragments :
         LET fragment == f.log.fragments[at]
         IN /\ Leads(fragment.next, f.log.fragments) /\ Whole1(fragment.entries)
            /\ \A i \in DOMAIN fragment.entries : fragment.entries[i].value \in Nat
    /\ Leads(f.root, f.fragments)
    /\ \A at \in DOMAIN f.fragments :
         LET fragment == f.fragments[at]
         IN /\ Leads(fragment.next, f.fragments) /\ Whole1(fragment.nodes) /\ fragment.list /= Nil
            /\ \A i \in DOMAIN fragment.nodes :
                 LET node == fragment.nodes[i]
                 IN /\ References(node) => node.id \notin Handled
                    /\ References(node) => Leads(node.child, f.fragments)
                    /\ node.id \in Declarations => node.properties \in Seq(Nat)
                    /\ node.id = "fileDataStoreObjectReference" => node.length \in Nat

(* What the root list may hold, in a section. *)
RootAllowed == {"objectSpaceManifestListReference", "objectSpaceManifestRoot",
                "chunkTerminator", "fileDataStoreListReference"}

-----------------------------------------------------------------------------
(* Property sets. *)

Kinds == {"object", "objectSpace", "context"}

(* The fields of a stream's header. *)
StreamCount(header) == header % 8
Reserved(header) == (header \div 8) % 2 = 1
ExtendedStreams(header) == (header \div 16) % 2 = 1
SpacesNotPresent(header) == (header \div 32) % 2 = 1
BadHeader(header) == Reserved(header) \/ StreamCount(header) > MaxObjects

(* The fields of a raw identifier; its top bit is the value of a boolean.  *)
PropertyType(rawId) == (rawId \div 4) % 32
PropertyId(rawId) == rawId % 128
TopBit(rawId) == rawId \div 128 = 1

(* The width of a fixed-width value, and the kind a reference is of. *)
Width == [type \in 3..6 |-> IF type = 6 THEN 2 ELSE 1]
KindOf == [type \in 8..13 |-> IF type < 10 THEN "object" ELSE IF type < 12 THEN "objectSpace"
                              ELSE "context"]
HasCount(type) == type \in {9, 11, 13}
SetArray == 16
OneSet == 17

(* A value that is too large to be exact is kept as its bytes alone. *)
Word == 4
ScalarOf(units) ==
  IF Len(units) = 1 THEN units[1]
  ELSE IF units[2] < 2 THEN units[1] + Word * units[2] ELSE Nil

(* A reader of a set carries the error that stopped it. *)
Stopped(st) == st.error /= Ok
Throw(st, code) == [st EXCEPT !.error = code]

Short(data, at, n) == at + n > Len(data) + 1

(* The unit at a place; past the end there is none to read. *)
Unit(data, at) == IF at \in DOMAIN data THEN data[at] ELSE 0

(* A property before its value is read, and what a count may not be. *)
Blank(rawId, i) ==
  [rawId |-> rawId, index |-> i, boolean |-> Nil, scalar |-> Nil, data |-> Nil,
   references |-> Nil, children |-> Nil]

CountFault(data, at) ==
  CASE Short(data, at, 1)     -> "TRUNCATED_PROPERTY_SET"
    [] data[at] > MaxObjects  -> "REFERENCE_COUNT"
    [] OTHER                  -> Ok
=============================================================================
