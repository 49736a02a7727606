----------------------------- MODULE Workspace ------------------------------
(***************************************************************************)
(* StreamWorkspace (src/stream/workspace.ts): what a batch has claimed,     *)
(* written and reported, kept in a PagedKeyValueStore.  A write to that     *)
(* store either goes through or throws and changes nothing, which is what   *)
(* KeyValueStore promises; `ok` says which.                                 *)
(*                                                                          *)
(* Each list of the report is a counter and one record per index.  The      *)
(* counter is taken while the record's key is built, before the write, so a *)
(* write that throws leaves an index with no record: Missing.               *)
(***************************************************************************)
EXTENDS Integers, Sequences, FiniteSets

VARIABLES claimed,  \* the paths handed out
          content,  \* which attachment holds which bytes, by folder
          report,   \* the lists of the report
          stopped   \* `cancelled`

workspace == <<claimed, content, report, stopped>>

\* An index that was counted and never stored: no record looks like it.
Missing == [stored |-> FALSE]

Lists == {"inputs", "notes", "attachments", "skipped", "failures", "groups"}

WorkspaceInit ==
  /\ claimed = {} /\ content = {} /\ stopped = FALSE
  /\ report = [list \in Lists |-> <<>>]

\* availableFileName: the first of ``name'', ``name 1'', ``name 2'', ... that is free.
Available(dir, name) ==
  LET Candidate(n) == [dir |-> dir, name |-> name, copy |-> n]
  IN  Candidate(CHOOSE n \in 0..Cardinality(claimed) :
                  /\ Candidate(n) \notin claimed
                  /\ \A m \in 0..n-1 : Candidate(m) \in claimed)

\* Mutant of Claim: the name is handed out and not reserved.
ClaimNothing(path, ok) == UNCHANGED claimed

Claim(path, ok) == claimed' = IF ok THEN claimed \cup {path} ELSE claimed

WrittenFor(dir, digest) == \E c \in content : c.dir = dir /\ c.digest = digest

\* Called for bytes WrittenFor did not know.
RememberContent(dir, digest, path, ok) ==
  content' = IF ok THEN content \cup {[dir |-> dir, digest |-> digest, path |-> path]}
                   ELSE content

\* record*: the index is taken whether or not the record goes through.
Record(list, record, ok) ==
  report' = [report EXCEPT ![list] = Append(@, IF ok THEN record ELSE Missing)]

\* The lists' lengths: the marks either side of an input.
Marks == [list \in Lists |-> Len(report[list])]

\* Reading a record that was counted and never stored throws.
Readable(list, from, to) == \A n \in from[list]+1..to[list] : report[list][n] # Missing
=============================================================================
