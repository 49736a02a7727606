--------------------------- MODULE SameConversion ---------------------------
(***************************************************************************)
(* The streaming path of FileConversion beside the path that reads whole   *)
(* sections, EagerFile, over the same folder: what they are to agree on.   *)
(***************************************************************************)
EXTENDS FileConversion

VARIABLES expected   \* what the eager path makes of what was given

Eager == INSTANCE EagerFile

SameInit ==
  /\ Init
  /\ expected = Eager!ConvertAll(given.entries, EmptyDisk(given.folds), given.options)
SameNext == Next /\ UNCHANGED expected
SameSpec == SameInit /\ [][SameNext]_<<vars, expected>>

-----------------------------------------------------------------------------
\* The notes, the attachments, their names, their front matter, the report and the
\* progress are those of the path that reads whole sections, as far as the
\* conversion got; and all of them once it is over and was not stopped.  Where the
\* two are known to part the inputs are left out: an archive given to a bounded run,
\* a page that is broken, and an attachment saved for a note that cannot be.
SoundSection(section) == \A s \in Range(section.spaces) : s.broken = "no"
Comparable ==
  \A f \in Range(Eager!Collected(given.entries)) :
    /\ f.kind # "section" => ~options.bounded
    /\ f.kind = "section" => SoundSection(f.section)
    /\ f.kind = "archive" => \A i \in DOMAIN f.sections : SoundSection(f.sections[i].section)
Lists == {"notes", "attachments", "skipped", "errors", "progress"}
Whole(disk) == {f \in disk.files : f.content # Partial}
SameNotes ==
  Comparable =>
    /\ \A list \in Lists : IsPrefix(made[list], expected[list])
    /\ Whole(made.disk) \subseteq expected.disk.files
    /\ pc = "done" /\ ~cancelled => made = expected
=============================================================================
