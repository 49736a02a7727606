----------------------------- MODULE BoundedRun -----------------------------
(***************************************************************************)
(* A bounded batch conversion from the command line: runBoundedCli          *)
(* (src/cli.ts), runBounded (src/stream/run.ts), the section and page loops *)
(* (src/stream/convert.ts), StreamSection's opening and closing             *)
(* (src/stream/section.ts) and AssetWriter.save (src/stream/assets.ts),     *)
(* over the report, the output files and the closers they share.            *)
(*                                                                          *)
(* The conversion is one thread of steps, of which any that reads, writes   *)
(* or stores may throw.  Signals arrive at any moment, and their handler    *)
(* runs only while the conversion waits in a setImmediate: before each page *)
(* it counts and before each page it converts.                              *)
(***************************************************************************)
EXTENDS OutputSink, Workspace, Functions

CONSTANTS Batches,         \* the batches to run: sequences of inputs
          Found,           \* the files that may be in the output folder already
          IncludeDeleted,  \* --include-deleted
          MaxFaults,       \* bound: steps that throw in one run
          MaxSignals,      \* bound: signals sent to one run
          Root, None

ASSUME BoundsAssumption ==
  MaxFaults \in Nat /\ MaxSignals \in Nat /\ IncludeDeleted \in BOOLEAN

ASSUME BatchesAssumption ==
  \A b \in Batches : /\ Len(b) \in Nat
                     /\ \A n \in 1..Len(b) : Len(b[n].pages) \in Nat

\* An input has a kind, the title its section claims, and its pages; a page has
\* a title, what it embeds (a digest, "nothing" or "noData"), and whether it is
\* deleted.
VARIABLES batch, input, page,
          section,      \* the folder the open section claimed
          note, asset,  \* the files being written
          stack,        \* what the run has open, in the order it was opened
          held,         \* what is open of it
          why,          \* what is unwinding the note: "failed" or "cancelled"
          rethrow,      \* recording the section's failure itself threw
          from,         \* the marks before this input
          pc, code,
          told,         \* what the user was shown last: the error, the report
          arrived,      \* signals sent and not yet handled
          signals,      \* signals handled
          hook,         \* ONE2MD_TEST_CANCEL_AFTER has been passed
          faults,
          late,         \* history: notes finished since a signal arrived
          interrupted   \* history: the note open when the first one arrived

settings == <<mode, batch>>
names == <<claimed, content>>
closers == <<stack, held>>
cursor == <<input, page, section, note, asset>>
unwinding == <<why, rethrow>>
outcome == <<code, told>>
events == <<arrived, signals, hook, late, interrupted>>
vars == <<settings, files, workspace, closers, cursor, unwinding, from, pc, outcome,
          events, faults>>

-----------------------------------------------------------------------------
\* Closers: an entry is released by its owner or, on the way out, newest first by
\* closeAll.  A close that throws is reported and passed over, so here every
\* close counts as done.

ClosersInit == stack = <<>> /\ held = {}

\* Open the resources and register their closes, in order.
Acquire(whats) ==
  /\ stack' = stack \o whats
  /\ held' = held \cup {whats[i] : i \in 1..Len(whats)}

\* What `add` returned: find the entry, splice it out of the stack, close it.
Without(entries, what) ==
  IF \A i \in 1..Len(entries) : entries[i] # what THEN entries
  ELSE LET at == CHOOSE i \in 1..Len(entries) : entries[i] = what
       IN  [i \in 1..Len(entries)-1 |-> entries[IF i < at THEN i ELSE i + 1]]

Release(what) ==
  /\ stack' = Without(stack, what)
  /\ held' = held \ {what}

\* Two releases in a row.
ReleaseBoth(first, then) ==
  /\ stack' = Without(Without(stack, first), then)
  /\ held' = held \ {first, then}

\* Mutant of ReleaseLast: the oldest first.
ReleaseFirst ==
  /\ stack' = Tail(stack)
  /\ held' = held \ {Head(stack)}

\* One turn of closeAll.
ReleaseLast ==
  /\ stack' = SubSeq(stack, 1, Len(stack) - 1)
  /\ held' = held \ {stack[Len(stack)]}

-----------------------------------------------------------------------------
Input == batch[input]
Pages == Input.pages
Page == Pages[page]
Attachments == [dir |-> section, name |-> "attachments", copy |-> 0]
Cancelled == signals > 0 \/ hook

\* A step that can throw: it goes through, or uses up a fault.
Tries(ok) == IF ok THEN UNCHANGED faults ELSE faults < MaxFaults /\ faults' = faults + 1

Goto(label) == pc' = label

Init ==
  /\ SinkInit(Found) /\ WorkspaceInit /\ ClosersInit
  /\ batch \in Batches /\ input = 0 /\ page = 1
  /\ section = None /\ note = None /\ asset = None
  /\ why = "nothing" /\ rethrow = FALSE /\ from = Marks
  /\ pc = "start" /\ code = -1 /\ told = "nothing"
  /\ arrived = 0 /\ signals = 0 /\ hook = FALSE
  /\ faults = 0 /\ late = 0 /\ interrupted = None

\* An error nobody catches before the CLI's finally: main prints it and exits 1.
Crash == code' = 1 /\ Goto("closing") /\ told' = "error"

-----------------------------------------------------------------------------
\* runBounded: the inputs in turn

Launch ==
  /\ pc = "start"
  /\ \E ok \in BOOLEAN :
       /\ Tries(ok)
       /\ IF ok THEN Acquire(<<"workspace">>) /\ Goto("next") /\ UNCHANGED outcome
                ELSE Crash /\ UNCHANGED closers
  /\ UNCHANGED <<settings, files, workspace, cursor, unwinding, from, events>>

NextInput ==
  /\ pc = "next" /\ input < Len(batch) /\ ~Cancelled
  /\ \E ok \in BOOLEAN :
       /\ Tries(ok)
       /\ Record("inputs", input + 1, ok)
       /\ IF ok THEN input' = input + 1 /\ from' = Marks /\ Goto("open") /\ UNCHANGED outcome
                ELSE Crash /\ UNCHANGED <<input, from>>
  /\ UNCHANGED <<settings, files, names, stopped, closers, page, section, note, asset,
                 unwinding, events>>

\* Mutant of NoMoreInputs: an interrupted batch is not marked as one.
NoMoreInputsUnmarked ==
  /\ pc = "next" /\ (input = Len(batch) \/ Cancelled)
  /\ Goto("report")
  /\ UNCHANGED <<settings, files, workspace, closers, cursor, unwinding, from, outcome,
                 events, faults>>

NoMoreInputs ==
  /\ pc = "next" /\ (input = Len(batch) \/ Cancelled)
  /\ stopped' = (stopped \/ input < Len(batch))
  /\ Goto("report")
  /\ UNCHANGED <<settings, files, names, report, closers, cursor, unwinding, from, outcome,
                 events, faults>>

\* An archive by its name, or a file that cannot be opened: the failure is
\* recorded with nothing around it to catch a throw.
RefuseInput ==
  /\ pc = "open" /\ Input.kind \in {"archive", "missing"}
  /\ \E ok \in BOOLEAN :
       /\ Tries(ok)
       /\ Record("failures", [input |-> input, page |-> 0], ok)
       /\ IF ok THEN Goto("group") /\ UNCHANGED outcome ELSE Crash
  /\ UNCHANGED <<settings, files, names, stopped, closers, cursor, unwinding, from, events>>

\* The descriptor, its size and the first bytes, read under convertOne's catch; then
\* a sink whose open files the way out can abort.
OpenInput ==
  /\ pc = "open" /\ Input.kind \notin {"archive", "missing"}
  /\ \E ok \in BOOLEAN :
       /\ Tries(ok)
       /\ IF ~ok \/ Input.kind = "misnamedArchive"
          THEN Acquire(<<"descriptor">>) /\ Goto(IF ok THEN "reject" ELSE "inputFailed")
          ELSE /\ Acquire(IF mode = "dryRun" THEN <<"descriptor">>
                                             ELSE <<"descriptor", "sink">>)
               /\ Goto("index")
  /\ UNCHANGED <<settings, files, workspace, cursor, unwinding, from, outcome, events>>

RejectContainer ==
  /\ pc = "reject"
  /\ \E ok \in BOOLEAN :
       /\ Tries(ok)
       /\ Record("failures", [input |-> input, page |-> 0], ok)
       /\ Goto(IF ok THEN "closeInput" ELSE "inputFailed")
  /\ UNCHANGED <<settings, files, names, stopped, closers, cursor, unwinding, from, outcome,
                 events>>

\* convertOne's catch, for what the section's own recording let through.
InputFailed ==
  /\ pc = "inputFailed"
  /\ \E ok \in BOOLEAN :
       /\ Tries(ok)
       /\ Record("failures", [input |-> input, page |-> 0], ok)
       /\ rethrow' = ~ok
  /\ Goto("closeInput")
  /\ UNCHANGED <<settings, files, names, stopped, closers, cursor, why, from, outcome,
                 events>>

\* Its finally: the sink, with whatever it still has open, then the descriptor.
CloseInput ==
  /\ pc = "closeInput"
  /\ ReleaseBoth("sink", "descriptor")
  /\ AbortAll
  /\ IF rethrow THEN Crash ELSE Goto("group") /\ UNCHANGED outcome
  /\ rethrow' = FALSE
  /\ UNCHANGED <<settings, workspace, cursor, why, from, events, faults>>

CloseGroup ==
  /\ pc = "group"
  /\ \E ok \in BOOLEAN :
       /\ Tries(ok)
       /\ Record("groups",
                 [input |-> input, from |-> from, to |-> Marks, cancelled |-> stopped], ok)
       /\ IF ok THEN Goto("next") /\ UNCHANGED outcome ELSE Crash
  /\ UNCHANGED <<settings, files, names, stopped, closers, cursor, unwinding, from, events>>

-----------------------------------------------------------------------------
\* convertOne: one section

\* StreamSection.open, first half.  An index that fails closes itself.
OpenIndex ==
  /\ pc = "index"
  /\ IF Cancelled
     THEN stopped' = TRUE /\ Goto("closeInput") /\ UNCHANGED <<closers, faults>>
     ELSE /\ UNCHANGED stopped
          /\ \E ok \in BOOLEAN :
               /\ Tries(ok)
               /\ IF ok /\ Input.kind # "malformed"
                  THEN Acquire(<<"index">>) /\ Goto("store")
                  ELSE Goto("sectionFailed") /\ UNCHANGED closers
  /\ UNCHANGED <<settings, files, names, report, cursor, unwinding, from, outcome, events>>

\* Second half: the conversion store, and the section's own space.  A failure
\* releases what the halves opened before it reaches convertOne.
OpenStore ==
  /\ pc = "store"
  /\ \E ok \in BOOLEAN :
       /\ Tries(ok)
       /\ IF ok /\ Input.kind # "noSection"
          THEN Acquire(<<"store">>) /\ Goto("claimSection")
          ELSE Release("index") /\ Goto("sectionFailed")
  /\ UNCHANGED <<settings, files, workspace, cursor, unwinding, from, outcome, events>>

ClaimSection ==
  LET folder == Available(Root, Input.title)
  IN  /\ pc = "claimSection"
      /\ \E ok \in BOOLEAN :
           /\ Tries(ok)
           /\ Claim(folder, ok)
           /\ section' = IF ok THEN folder ELSE section
           /\ Goto(IF ok THEN "count" ELSE "sectionFailed")
      /\ page' = 1
      /\ UNCHANGED <<settings, files, content, report, stopped, closers, input, note, asset,
                     unwinding, from, outcome, events>>

\* A step that may fail the section.
SectionStep(label, next) ==
  /\ pc = label
  /\ \E ok \in BOOLEAN : Tries(ok) /\ Goto(IF ok THEN next ELSE "sectionFailed")
  /\ UNCHANGED <<settings, files, workspace, closers, input, section, note, asset,
                 unwinding, from, outcome, events>>

\* countPages: each candidate is marked visited in the section's store, and the
\* event loop turns before its deletion state is read.
CountNext == SectionStep("count", "countWait") /\ page <= Len(Pages) /\ UNCHANGED page

\* The wait is over when nothing is left to deliver.
CountPage ==
  /\ pc = "countWait" /\ arrived = 0
  /\ IF Cancelled
     THEN stopped' = TRUE /\ Goto("closeSection") /\ UNCHANGED page
     ELSE page' = page + 1 /\ Goto("count") /\ UNCHANGED stopped
  /\ UNCHANGED <<settings, files, names, report, closers, input, section, note, asset,
                 unwinding, from, outcome, events, faults>>

\* The walk starts over, with a fresh stack of subpage folders.
StartPages == SectionStep("count", "pages") /\ page > Len(Pages) /\ page' = 1

\* The section's failure: of its opening, or of the walk.
SectionFailed ==
  /\ pc = "sectionFailed"
  /\ \E ok \in BOOLEAN :
       /\ Tries(ok)
       /\ Record("failures", [input |-> input, page |-> 0], ok)
       /\ rethrow' = ~ok
  /\ Goto("closeSection")
  /\ UNCHANGED <<settings, files, names, stopped, closers, cursor, why, from, outcome,
                 events>>

CloseSection ==
  /\ pc = "closeSection"
  /\ ReleaseBoth("store", "index")
  /\ Goto(IF rethrow THEN "inputFailed" ELSE "closeInput")
  /\ rethrow' = FALSE
  /\ UNCHANGED <<settings, files, workspace, cursor, why, from, outcome, events, faults>>

-----------------------------------------------------------------------------
\* convertPages: one page at a time

NextPage == SectionStep("pages", "pageWait") /\ page <= Len(Pages) /\ UNCHANGED page

NoMorePages ==
  /\ pc = "pages" /\ page > Len(Pages)
  /\ Goto("closeSection")
  /\ UNCHANGED <<settings, files, workspace, closers, cursor, unwinding, from, outcome,
                 events, faults>>

PageFrame == <<settings, files, names, report, closers, input, section, note, asset,
               unwinding, from, outcome, events, faults>>

\* Mutants of StartPage: without the setImmediate; a deleted page that is not passed over.
StartPageAtOnce ==
  /\ pc = "pageWait"
  /\ IF Cancelled
     THEN stopped' = TRUE /\ Goto("closeSection") /\ UNCHANGED page
     ELSE Goto("claimNote") /\ UNCHANGED <<page, stopped>>
  /\ UNCHANGED PageFrame
StartPageStuck ==
  /\ pc = "pageWait" /\ arrived = 0
  /\ Goto(IF Page.deleted /\ ~IncludeDeleted THEN "pages" ELSE "claimNote")
  /\ UNCHANGED <<page, stopped, PageFrame>>

StartPage ==
  /\ pc = "pageWait" /\ arrived = 0
  /\ IF Cancelled
     THEN stopped' = TRUE /\ Goto("closeSection") /\ UNCHANGED page
     ELSE /\ UNCHANGED stopped
          /\ IF Page.deleted /\ ~IncludeDeleted
             THEN page' = page + 1 /\ Goto("pages")
             ELSE Goto("claimNote") /\ UNCHANGED page
  /\ UNCHANGED PageFrame

ClaimNote ==
  LET path == Available(section, Page.title)
  IN  /\ pc = "claimNote"
      /\ \E ok \in BOOLEAN :
           /\ Tries(ok)
           /\ Claim(path, ok)
           /\ note' = IF ok THEN path ELSE note
           /\ Goto(IF ok THEN "openNote" ELSE "sectionFailed")
      /\ UNCHANGED <<settings, files, content, report, stopped, closers, input, page,
                     section, asset, unwinding, from, outcome, events>>

\* writeNote: the output file is created, and refuses to replace one it may not.
OpenNote ==
  /\ pc = "openNote"
  /\ \E ok \in BOOLEAN :
       /\ Tries(ok)
       /\ IF ok /\ CanOpen(note) THEN Open(note) /\ Goto("render")
                                 ELSE Goto("noteFailed") /\ UNCHANGED files
  /\ UNCHANGED <<settings, workspace, closers, cursor, unwinding, from, outcome, events>>

\* What may throw while the note is open, and what the throw unwinds with.
Writing(ok, next) ==
  /\ Tries(ok)
  /\ why' = IF ok THEN why ELSE "failed"
  /\ Goto(IF ok THEN next ELSE "abortNote")

\* ConversionCancelled, thrown before a top-level element of the page; a page that
\* embeds nothing stands for one without elements, where nobody checks.
Interrupted == Cancelled /\ Page.embeds # "nothing"
ThrowCancelled == why' = "cancelled" /\ Goto("abortNote") /\ UNCHANGED faults

WritingFrame == <<settings, closers, input, page, section, note, rethrow, from, outcome,
                  events>>

\* render: up to the element that embeds something.  Bytes already written for
\* this folder are linked to; an embed with no data is noted as skipped.
Render ==
  /\ pc = "render"
  /\ IF Interrupted THEN ThrowCancelled /\ UNCHANGED report
     ELSE \E ok \in BOOLEAN :
            IF Page.embeds = "noData"
            THEN /\ Record("skipped", [input |-> input, page |-> page], ok)
                 /\ Writing(ok, "renderRest")
            ELSE /\ UNCHANGED report
                 /\ Writing(ok, IF Page.embeds = "nothing" \/ WrittenFor(Attachments, Page.embeds)
                                THEN "renderRest" ELSE "claimAsset")
  /\ UNCHANGED <<WritingFrame, files, names, stopped, asset>>

ClaimAsset ==
  LET path == Available(Attachments, "image")
  IN  /\ pc = "claimAsset"
      /\ \E ok \in BOOLEAN :
           /\ Writing(ok, "openAsset")
           /\ Claim(path, ok)
           /\ asset' = IF ok THEN path ELSE asset
      /\ UNCHANGED <<WritingFrame, files, content, report, stopped>>

OpenAsset ==
  /\ pc = "openAsset"
  /\ \E ok \in BOOLEAN :
       IF ok /\ ~CanOpen(asset)
       THEN why' = "failed" /\ Goto("abortNote") /\ UNCHANGED <<files, faults>>
       ELSE /\ Writing(ok, "copyAsset")
            /\ IF ok THEN Open(asset) ELSE UNCHANGED files
  /\ UNCHANGED <<WritingFrame, workspace, asset>>

\* The copy, and the writer's close: the first to throw ends it.  An abort after
\* a close that threw finds the writer settled.
CopyAsset ==
  /\ pc = "copyAsset"
  /\ \E end \in {"closed", "copyThrew", "closeThrew"} :
       /\ Writing(end = "closed", "recordAsset")
       /\ IF end = "copyThrew" THEN Abort(asset) ELSE Close(asset, end = "closed")
  /\ UNCHANGED <<WritingFrame, workspace, asset>>

RecordAsset ==
  /\ pc = "recordAsset"
  /\ \E ok \in BOOLEAN :
       /\ Writing(ok, "rememberAsset")
       /\ Record("attachments", [input |-> input, path |-> asset], ok)
  /\ UNCHANGED <<WritingFrame, files, names, stopped, asset>>

RememberAsset ==
  /\ pc = "rememberAsset"
  /\ \E ok \in BOOLEAN :
       /\ Writing(ok, "renderRest")
       /\ RememberContent(Attachments, Page.embeds, asset, ok)
  /\ UNCHANGED <<WritingFrame, files, claimed, report, stopped, asset>>

\* The page's other elements, each behind its own check.
RenderRest ==
  /\ pc = "renderRest"
  /\ IF Interrupted THEN ThrowCancelled
                    ELSE \E ok \in BOOLEAN : Writing(ok, "finishNote")
  /\ UNCHANGED <<WritingFrame, files, workspace, asset>>

\* Mutant of FinishNote: the note is reported before its writer is closed.
FinishNoteUnclosed ==
  /\ pc = "finishNote"
  /\ Goto("recordNote")
  /\ UNCHANGED <<WritingFrame, files, workspace, asset, why, faults>>

\* NoteWriter.finish, then the writer's close.
FinishNote ==
  /\ pc = "finishNote"
  /\ \E end \in {"closed", "finishThrew", "closeThrew"} :
       /\ Writing(end = "closed", "recordNote")
       /\ IF end = "finishThrew" THEN UNCHANGED files ELSE Close(note, end = "closed")
       /\ late' = IF end = "closed" /\ arrived + signals > 0 THEN late + 1 ELSE late
  /\ UNCHANGED <<settings, closers, input, page, section, note, asset, rethrow, from,
                 outcome, workspace, arrived, signals, hook, interrupted>>

\* writeNote's catch, then convertPages': a cancellation stops the section, and
\* anything else fails the page.
AbortNote ==
  /\ pc = "abortNote"
  /\ Abort(note)
  /\ stopped' = (stopped \/ why = "cancelled")
  /\ Goto(IF why = "cancelled" THEN "closeSection" ELSE "noteFailed")
  /\ why' = "nothing"
  /\ UNCHANGED <<WritingFrame, names, report, faults, asset>>

RecordNote ==
  /\ pc = "recordNote"
  /\ \E ok \in BOOLEAN :
       /\ Tries(ok)
       /\ Record("notes", [input |-> input, page |-> page, path |-> note], ok)
       /\ Goto(IF ok THEN "level" ELSE "noteFailed")
  /\ UNCHANGED <<settings, files, names, stopped, closers, cursor, unwinding, from, outcome,
                 events>>

\* Mutant of NoteFailed: the catch moves on without recording.
NoteFailedSilently ==
  /\ pc = "noteFailed"
  /\ Goto("level")
  /\ UNCHANGED <<settings, files, workspace, closers, cursor, unwinding, from, outcome,
                 events, faults>>

NoteFailed ==
  /\ pc = "noteFailed"
  /\ \E ok \in BOOLEAN :
       /\ Tries(ok)
       /\ Record("failures", [input |-> input, page |-> page], ok)
       /\ Goto(IF ok THEN "level" ELSE "sectionFailed")
  /\ UNCHANGED <<settings, files, names, stopped, closers, cursor, unwinding, from, outcome,
                 events>>

\* The page's folder is noted for its subpages, and the walk goes on.
Level == SectionStep("level", "pages") /\ page' = page + 1

-----------------------------------------------------------------------------
\* runBoundedCli: the report, and the way out

\* With --json every list is read back, otherwise the failures are.
Legible(json) ==
  \A g \in 1..Len(report["groups"]) :
    LET group == report["groups"][g]
    IN  \A list \in IF json THEN Lists \ {"inputs", "groups"} ELSE {"failures"} :
          Readable(list, group.from, group.to)

Report ==
  /\ pc = "report"
  /\ IF report["groups"] = <<>>
     THEN code' = 2 /\ Goto("closing") /\ UNCHANGED told
     ELSE \E json \in BOOLEAN :
            /\ Goto("closing")
            /\ IF Legible(json)
               THEN /\ told' = "report"
                    /\ code' = IF stopped THEN 130
                               ELSE IF report["failures"] # <<>> THEN 1 ELSE 0
               ELSE told' = "unreadable" /\ code' = 1
  /\ UNCHANGED <<settings, files, workspace, closers, cursor, unwinding, from, events,
                 faults>>

\* closeAll, one entry at a time; then process.exit.
Closing ==
  /\ pc = "closing"
  /\ IF stack = <<>>
     THEN Goto("exited") /\ UNCHANGED <<closers, files>>
     ELSE /\ ReleaseLast
          /\ IF stack[Len(stack)] = "sink" THEN AbortAll ELSE UNCHANGED files
          /\ UNCHANGED pc
  /\ UNCHANGED <<settings, workspace, cursor, unwinding, from, outcome, events, faults>>

Exited == pc = "exited" /\ UNCHANGED vars

-----------------------------------------------------------------------------
\* Signals

Still == UNCHANGED <<settings, files, workspace, closers, cursor, unwinding, from, faults>>

Arrive ==
  /\ pc # "exited" /\ arrived + signals < MaxSignals
  /\ arrived' = arrived + 1
  /\ interrupted' = IF arrived + signals = 0 /\ note \in openWriters THEN note ELSE interrupted
  /\ Still /\ UNCHANGED <<pc, outcome, signals, hook, late>>

\* onSignal: the first asks the conversion to stop, the second leaves at once.
Deliver ==
  /\ pc \in {"countWait", "pageWait"} /\ arrived > 0
  /\ arrived' = arrived - 1
  /\ signals' = signals + 1
  /\ IF signals > 0 THEN code' = 130 /\ Goto("closing") /\ UNCHANGED told
                    ELSE UNCHANGED <<pc, outcome>>
  /\ Still /\ UNCHANGED <<hook, late, interrupted>>

\* The tests' cancellation by count, at whichever check it comes due.
HookFires ==
  /\ pc \in {"next", "index", "countWait", "pageWait", "render", "renderRest"} /\ ~hook
  /\ hook' = TRUE
  /\ Still /\ UNCHANGED <<pc, outcome, arrived, signals, late, interrupted>>

-----------------------------------------------------------------------------
RunStep ==
  \/ Launch \/ NextInput \/ NoMoreInputs \/ RefuseInput \/ OpenInput \/ RejectContainer
  \/ InputFailed \/ CloseInput \/ CloseGroup \/ Report \/ Closing
SectionSteps ==
  \/ OpenIndex \/ OpenStore \/ ClaimSection \/ CountNext \/ CountPage \/ StartPages
  \/ NextPage \/ NoMorePages \/ SectionFailed \/ CloseSection
NoteSteps ==
  \/ StartPage \/ ClaimNote \/ OpenNote \/ Render \/ ClaimAsset \/ OpenAsset \/ CopyAsset
  \/ RecordAsset \/ RememberAsset \/ RenderRest \/ FinishNote \/ AbortNote \/ RecordNote
  \/ NoteFailed \/ Level

Process == RunStep \/ SectionSteps \/ NoteSteps

Next == Process \/ Arrive \/ Deliver \/ HookFires \/ Exited

Spec == Init /\ [][Next]_vars

\* One thread that never waits for anything but the event loop, which delivers
\* what has arrived before it lets the conversion go on.
FairSpec == Spec /\ WF_vars(Process) /\ WF_vars(Deliver)

-----------------------------------------------------------------------------
\* Properties

Labels ==
  {"start", "next", "open", "reject", "inputFailed", "closeInput", "group", "index",
   "store", "claimSection", "count", "countWait", "pages", "pageWait", "sectionFailed",
   "closeSection", "claimNote", "openNote", "render", "claimAsset", "openAsset",
   "copyAsset", "recordAsset", "rememberAsset", "renderRest", "finishNote",
   "abortNote", "recordNote", "noteFailed", "level", "report", "closing", "exited"}

Records(list) == {r \in Range(report[list]) : r # Missing}

\* The walk stays on an input of the batch and on a page of it or just past its
\* last, every file is in one state, and what is open is what is registered.
TypeOK ==
  /\ pc \in Labels
  /\ input \in 0..Len(batch)
  /\ "store" \in held /\ pc # "claimSection" => page \in 1..Len(Pages) + 1
  /\ openWriters = partial
  /\ whole \cap (partial \cup unsure \cup theirs) = {}
  /\ partial \cap (unsure \cup theirs) = {} /\ unsure \cap theirs = {}
  /\ held = Range(stack) /\ held \subseteq {"workspace", "descriptor", "sink", "index", "store"}
  /\ why \in {"nothing", "failed", "cancelled"} /\ {rethrow, hook, stopped} \subseteq BOOLEAN
  /\ told \in {"nothing", "error", "report", "unreadable"}
  /\ arrived + signals \in 0..MaxSignals /\ faults \in 0..MaxFaults
  /\ code \in {-1, 0, 1, 2, 130} /\ (code = -1 <=> pc \notin {"closing", "exited"})

\* A note or an attachment is reported, and bytes are linked to, only once the
\* file is complete; nothing the run does later takes it away.  (convertPages
\* records after writeNote; AssetWriter.save remembers after the close.)
RecordedOnDisk ==
  mode # "dryRun" =>
    {r.path : r \in Records("notes") \cup Records("attachments") \cup content} \subseteq whole

\* No two notes or attachments of a batch are reported under one path, whatever
\* inputs they came from and whatever failed between.  (StreamWorkspace.claim.)
NoPathTwice ==
  \A list, other \in {"notes", "attachments"} :
    \A n \in 1..Len(report[list]), m \in 1..Len(report[other]) :
      LET r == report[list][n]
          s == report[other][m]
      IN  Missing \notin {r, s} /\ r.path = s.path => list = other /\ n = m

\* However a run ends, it leaves no half-written file and nothing open.
\* (writeNote's and save's catches, the finally blocks, Closers.closeAll.)
NothingLeft == pc = "exited" => partial = {} /\ openWriters = {} /\ held = {}

\* A store is never open without the descriptor its index reads through, and
\* nothing is open without the workspace store, on any way out.
DescriptorOutlives ==
  /\ held \cap {"index", "store"} # {} => "descriptor" \in held
  /\ held # {} => "workspace" \in held

\* A run never replaces or deletes a file it has finished, nor, unless it may
\* overwrite, one it found there.  (Claims, the `wx` flag, the settled flag.)
FinishedFilesStay ==
  [][whole \subseteq whole' /\ (mode # "overwrite" => theirs \subseteq theirs')]_vars

\* What a report that was printed says of each input.  Its range holds that
\* input's notes and no other's, and every page to convert is noted, or failed,
\* or the section failed as a whole, or the group says it was cancelled; no page
\* is both noted and failed.
Slice(list, group) ==
  {report[list][n] : n \in group.from[list]+1..group.to[list]} \ {Missing}
ToConvert(i) ==
  {p \in 1..Len(batch[i].pages) : IncludeDeleted \/ ~batch[i].pages[p].deleted}
ReportAccounts ==
  told = "report" => \A group \in Records("groups") :
    LET noted  == {r.page : r \in Slice("notes", group)}
        failed == {r.page : r \in Slice("failures", group)}
    IN  /\ \A r \in Slice("notes", group) \cup Slice("failures", group) : r.input = group.input
        /\ noted \cap failed = {}
        /\ ToConvert(group.input) \subseteq noted \cup failed
             \/ 0 \in failed \/ group.cancelled

\* Exit code 0 is a complete conversion: every input read, every page to convert
\* noted and nothing failed, however many signals came and went.
ZeroMeansAll ==
  code = 0 => /\ input = Len(batch) /\ report["failures"] = <<>>
              /\ \A i \in 1..Len(batch) : \A p \in ToConvert(i) :
                   \E r \in Records("notes") : r.input = i /\ r.page = p

\* After a signal arrives at most one more note is finished: the one in hand.
\* (The setImmediate before each page.)
OneNoteAfterInterrupt == late <= 1

\* Every run ends, whatever throws and whatever signals come.
Terminates == <>(pc = "exited")

-----------------------------------------------------------------------------
\* What the documentation says, and the code does otherwise

\* run.ts: every note path, skipped item and failure lives in the workspace
\* store, and the report is read from there.  A run that gets as far as its report
\* can print it.
ReportReadsBack == told # "unreadable"

\* README: the note being written at the first Ctrl-C is abandoned and its file
\* removed.
InterruptedNoteRemoved == interrupted # None => interrupted \notin whole
=============================================================================
