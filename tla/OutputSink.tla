----------------------------- MODULE OutputSink -----------------------------
(***************************************************************************)
(* FsSink and NullSink (src/sinks.ts): the files a run writes.  A file is   *)
(* partial from the moment it is opened until its writer is closed; a       *)
(* writer that is aborted deletes it.  `openWriters` is what an exit that   *)
(* does not unwind can still abort.                                         *)
(***************************************************************************)

CONSTANTS Modes   \* how an output file may be opened

ASSUME ModesAssumption == Modes \subseteq {"newOnly", "overwrite", "dryRun"}

VARIABLES mode,         \* `wx`, `w` with --overwrite, or a NullSink
          theirs,       \* files the run found there and has not touched
          partial,      \* files the run opened and has not settled
          whole,        \* files the run completed
          unsure,       \* files whose close threw: written, and left where they are
          openWriters

files == <<theirs, partial, whole, unsure, openWriters>>

SinkInit(found) ==
  /\ mode \in Modes
  /\ theirs \in found
  /\ partial = {} /\ whole = {} /\ unsure = {} /\ openWriters = {}

\* Mutant of CanOpen: the flag is `w` whatever was asked.
CanOpenAnything(path) == TRUE

\* `wx` refuses a file that exists, whoever wrote it.
CanOpen(path) == mode = "newOnly" => path \notin theirs \cup partial \cup whole \cup unsure

\* FsSink.open: the file is created, or emptied.
Open(path) ==
  IF mode = "dryRun" THEN UNCHANGED files
  ELSE /\ partial' = partial \cup {path}
       /\ openWriters' = openWriters \cup {path}
       /\ theirs' = theirs \ {path}
       /\ whole' = whole \ {path}
       /\ unsure' = unsure \ {path}

\* A writer's close and its abort share one flag, which the first of them sets;
\* a close that throws has set it too.
Close(path, ok) ==
  IF path \notin openWriters THEN UNCHANGED files
  ELSE /\ openWriters' = openWriters \ {path}
       /\ partial' = partial \ {path}
       /\ whole' = IF ok THEN whole \cup {path} ELSE whole
       /\ unsure' = IF ok THEN unsure ELSE unsure \cup {path}
       /\ UNCHANGED theirs

\* Mutant of Abort: the descriptor is closed and the file is left.
AbortAndLeave(path) ==
  /\ openWriters' = openWriters \ {path}
  /\ UNCHANGED <<theirs, partial, whole, unsure>>

Abort(path) ==
  IF path \notin openWriters THEN UNCHANGED files
  ELSE /\ openWriters' = openWriters \ {path}
       /\ partial' = partial \ {path}
       /\ UNCHANGED <<theirs, whole, unsure>>

AbortAll ==
  /\ openWriters' = {}
  /\ partial' = partial \ openWriters
  /\ UNCHANGED <<theirs, whole, unsure>>
=============================================================================
