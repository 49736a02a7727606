----------------------------- MODULE FileNames ------------------------------
(***************************************************************************)
(* File names and output paths: sanitizeFileName and availableFileName     *)
(* (src/names.ts), and what a file system makes of a path FsSink           *)
(* (src/sinks.ts) asks for.  A name is a sequence of characters, a path a  *)
(* sequence of names.  A file system may take two spellings of one name    *)
(* for the same; FsSink neither knows nor asks.  And what both conversions *)
(* ask of the files given to them, and keep of what they have done.        *)
(***************************************************************************)
EXTENDS Integers, SequencesExt, FiniteSetsExt, Functions

CONSTANTS None,
          MaxNameChars,       \* MAX_NAME_BYTES
          MaxPageGraphNodes   \* the reader's limit on the pages of a section

ASSUME NameLength == MaxNameChars \in Nat \ {0}
ASSUME PageLimit == MaxPageGraphNodes \in Nat \ {0}

Untitled == <<"Untitled">>
Illegal == {"?", "<", ">", ":", "*", "|"}
Control == {"bell"}
BadInLinks == {"[", "]", "#", "^"}

(* What s holds at these positions, in their order. *)
Selected(s, positions) ==
  [n \in 1..Cardinality(positions) |->
     s[CHOOSE i \in positions : Cardinality({j \in positions : j <= i}) = n]]

Without(name, characters) == Selected(name, {i \in DOMAIN name : name[i] \notin characters})
TrimmedEnd(name, characters) ==
  SubSeq(name, 1, Max({0} \cup {i \in DOMAIN name : name[i] \notin characters}))
TrimmedStart(name, characters) ==
  SubSeq(name, Min({Len(name) + 1} \cup {i \in DOMAIN name : name[i] \notin characters}), Len(name))

(* "con" stands for the device names Windows reserves. *)
NotReserved(name) ==
  IF name # <<>> /\ name[1] = "con" /\ (Len(name) = 1 \/ name[2] = ".") THEN <<>> ELSE name

Tidied(name) ==
  TrimmedStart(Without(NotReserved(TrimmedEnd(name, {".", " "})), BadInLinks), {".", " "})

(* Cut to the limit, and back to a space if there is one in its second half. *)
BackToSpace(cut, space) == IF 2 * (space - 1) > Len(cut) THEN SubSeq(cut, 1, space - 1) ELSE cut
Limited(name) ==
  IF Len(name) <= MaxNameChars THEN name
  ELSE BackToSpace(SubSeq(name, 1, MaxNameChars),
                   Max({0} \cup {i \in 1..MaxNameChars : name[i] = " "}))

Named(name) == IF name = <<>> THEN Untitled ELSE name
Shortened(name) == IF Limited(name) = name THEN name ELSE Tidied(Limited(name))
Sanitized(name) ==
  LET dashed == [i \in DOMAIN name |-> IF name[i] \in {"/", "\\"} THEN "-" ELSE name[i]]
  IN  Named(TrimmedEnd(TrimmedStart(
              Shortened(Tidied(Without(dashed, Illegal \cup Control))), {" "}), {" "}))

(* ``name'', ``name 1'', ``name 2'', ...: the number goes before the extension. *)
Numbered(fileName, n, dot) ==
  IF n = 0 THEN fileName
  ELSE SubSeq(fileName, 1, dot - 1) \o <<" ", ToString(n)>> \o SubSeq(fileName, dot, Len(fileName))
Candidate(fileName, n) ==
  LET dot == Max({1} \cup {i \in DOMAIN fileName : fileName[i] = "."})
  IN  Numbered(fileName, n, IF dot = 1 THEN Len(fileName) + 1 ELSE dot)

LowerCase == [A |-> "a", B |-> "b", G |-> "g", S |-> "s", Untitled |-> "untitled"]
Folded(name) ==
  [i \in DOMAIN name |-> IF name[i] \in DOMAIN LowerCase THEN LowerCase[name[i]] ELSE name[i]]

(* The first candidate none of the names taken in a folder stands against. *)
AvailableFileName(fileName, taken) ==
  Candidate(fileName, CHOOSE n \in 0..Cardinality(taken) :
                        /\ Folded(Candidate(fileName, n)) \notin taken
                        /\ \A m \in 0..n-1 : Folded(Candidate(fileName, m)) \in taken)

(* extensionFromName, and the name an attachment with no extension is given: *)
(* its bytes may say what it is.                                             *)
HasExtension(name) ==
  \E i \in 1..Len(name) - 1 :
    name[i] = "." /\ \A j \in i+1..Len(name) : name[j] \notin {".", " ", "/", "\\"}
Suggested(asset) ==
  IF HasExtension(asset.name) \/ asset.sniffed = <<>> THEN asset.name
  ELSE asset.name \o <<".">> \o asset.sniffed

Markdown == <<".", "md">>
Stem(noteName) == SubSeq(noteName, 1, Len(noteName) - Len(Markdown))

(* Parts of a path that are empty are dropped. *)
Join(folder, name) == IF name = <<>> THEN folder ELSE Append(folder, name)

-----------------------------------------------------------------------------
(* The output folder: its files, each with its path and content, and its   *)
(* folders.  `folds` says whether the file system ignores case.            *)
EmptyDisk(folds) == [folds |-> folds, files |-> {}, folders |-> {<<>>}]

Key(disk, path) == IF disk.folds THEN [i \in DOMAIN path |-> Folded(path[i])] ELSE path
FileKeys(disk) == {Key(disk, f.path) : f \in disk.files}
Ancestors(path) == {SubSeq(path, 1, i) : i \in 0..Len(path)}

(* FsSink.prepare: mkdir, which a file in the way refuses. *)
Preparable(disk, path) == Ancestors(Key(disk, Front(path))) \cap FileKeys(disk) = {}
Prepared(disk, path) ==
  IF Preparable(disk, path)
  THEN [disk EXCEPT !.folders = @ \cup Ancestors(Key(disk, Front(path)))]
  ELSE disk

(* The flag is `wx`: neither a file nor a folder may have the path. *)
Creatable(disk, path) ==
  Preparable(disk, path) /\ Key(disk, path) \notin FileKeys(disk) \cup disk.folders
With(disk, path, content) ==
  IF Creatable(disk, path)
  THEN [Prepared(disk, path) EXCEPT !.files = @ \cup {[path |-> path, content |-> content]}]
  ELSE Prepared(disk, path)
Removed(disk, path) == [disk EXCEPT !.files = {f \in @ : f.path # path}]

-----------------------------------------------------------------------------
(* The files given: the order their names are taken in (compareNames), what  *)
(* a compound file is (inspectOnex), and what a damaged archive is.           *)
Before(a, b) == a.locale < b.locale \/ (a.locale = b.locale /\ a.units < b.units)

(* The streams of a compound file say whether it is protected. *)
ProtectedBy == {"EncryptedPackage", "DRMEncryptedTransform", "DRMEncryptedDataSpace"}
OnexKind(streams) ==
  IF \E s \in Range(streams) : s \in ProtectedBy THEN "protected" ELSE "unsupported"

(* readSections: a compound file is refused, a damaged archive throws. *)
Unreadable(f) == f.kind = "compound" \/ (f.kind = "archive" /\ ~f.opens)
UnreadableKind(f) == IF f.kind = "compound" THEN OnexKind(f.streams) ELSE "malformed"
GroupsOf(path) == Selected(path, {i \in 1..Len(path) - 1 : path[i] \notin {<<>>, <<".">>}})

(* A space of a section is a page when all of it is there. *)
IsPage(space) == space.resolves /\ space.manifest /\ space.node

-----------------------------------------------------------------------------
(* What a conversion has done: the names it claimed, the bytes it wrote, the *)
(* disk and the report.                                                     *)
Undone(disk) ==
  [names |-> {}, content |-> {}, disk |-> disk, notes |-> <<>>, attachments |-> <<>>,
   skipped |-> <<>>, errors |-> <<>>, progress |-> <<>>]
Told(done, list, item) == [done EXCEPT ![list] = Append(@, item)]

(* What a file holds: an attachment's bytes, or a note. *)
Bytes(digest) == [front |-> None, body |-> digest, link |-> None]
=============================================================================
