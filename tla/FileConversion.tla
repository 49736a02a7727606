--------------------------- MODULE FileConversion ---------------------------
(***************************************************************************)
(* The streaming path around a page: the walk over the folders given       *)
(* (src/cli.ts), the sections of a file and the pages of a section         *)
(* (src/stream/convert.ts, src/stream/section.ts), the names, the levels   *)
(* and the report kept in the workspace's store (src/stream/workspace.ts), *)
(* and the note and its attachment as files (src/stream/assets.ts,         *)
(* src/stream/sink.ts).  What a page says, once read, is data here; how    *)
(* its body is rendered is in PageRenderer.                                *)
(*                                                                         *)
(* A host may ask it to stop at any moment; it looks between steps.        *)
(***************************************************************************)
EXTENDS FileNames

CONSTANTS Entries,   \* what a folder may hold
          Inputs     \* what may be converted, and how: [entries, options, folds]

\* A string is a sequence of characters; a title that is not kept is None.
IsText(name) == Len(name) \in Nat /\ name = [i \in 1..Len(name) |-> name[i]]
LegibleSpace(space) ==
  /\ \A title \in {space.cached, space.titleOnPage, space.titleText} \ {None} : IsText(title)
  /\ space.titleText # None
  /\ space.embeds # None => IsText(space.embeds.name) /\ IsText(space.embeds.sniffed)

\* What the page series of a section list.
ListedIn(section) ==
  FlattenSeq([i \in DOMAIN section.series |->
                IF section.series[i].isSeries THEN section.series[i].pages ELSE <<>>])
LegibleSection(section) ==
  section.opens =>
    /\ IsText(section.name)
    /\ \A i \in DOMAIN ListedIn(section) : LegibleSpace(section.spaces[ListedIn(section)[i]])
LegibleFile(f) ==
  /\ f.kind \in {"section", "archive", "compound"}
  /\ f.kind = "section" => IsText(f.name) /\ LegibleSection(f.section)
  /\ f.kind = "archive" /\ f.opens =>
       /\ IsText(f.sections)
       /\ \A i \in DOMAIN f.sections :
            /\ IsText(f.sections[i].path) /\ IsText(Last(f.sections[i].path))
            /\ LegibleSection(f.sections[i].section)

\* compareNames tells the entries of one folder apart.
Ordered(entries) ==
  /\ \A e \in entries : e.locale \in Nat /\ e.units \in Nat
  /\ \A a, b \in entries : a.locale = b.locale /\ a.units = b.units => a = b

ASSUME EntriesLegible ==
  \A e \in Entries :
    IF e.isDirectory THEN e.entries \subseteq Entries /\ Ordered(e.entries)
    ELSE e.ours => LegibleFile(e.file)
ASSUME InputsListed == \A input \in Inputs : input.entries \subseteq Entries /\ Ordered(input.entries)

VARIABLES
  given,      \* the folder's entries, the options, the file system
  frames,     \* the folders the walk is in, each with the last name it yielded
  file,       \* the input in hand
  sources, source,     \* its sections; the one in hand
  walks, at, seen,     \* the walk over pages: which, how far, what it met
  total, done,         \* pages announced, pages attempted
  folders, depth,      \* SubpageLevels
  page, note, asset,   \* the page in hand, its note, its attachment
  link,                \* what its body links to
  made,       \* names, content, disk and report so far
  filed,      \* history: where the section's pages went
  asked,      \* the host wants it to stop
  cancelled, pc

walking == <<frames, file>>
listing == <<sources, source>>
paging == <<walks, at, seen>>
counting == <<total, done>>
nesting == <<folders, depth, filed>>
writing == <<page, note, asset, link>>
vars == <<given, walking, listing, paging, counting, nesting, writing, made, asked, cancelled, pc>>

options == given.options
Goto(label) == pc' = label
Tell(list, item) == made' = Told(made, list, item)

Init ==
  /\ given \in Inputs
  /\ frames = <<[entries |-> given.entries, previous |-> None]>> /\ file = None
  /\ sources = <<>> /\ source = 0
  /\ walks = 0 /\ at = 0 /\ seen = {}
  /\ total = 0 /\ done = 0
  /\ folders = <<>> /\ depth = 0 /\ filed = <<>>
  /\ page = None /\ note = None /\ asset = None /\ link = None
  /\ made = Undone(EmptyDisk(given.folds))
  /\ asked = FALSE /\ cancelled = FALSE
  /\ pc = "discover"

-----------------------------------------------------------------------------
\* discover: the files under a folder, depth first, one name at a time

\* Mutant of Follows: by locale alone.
FollowsByLocale(entry, previous) == previous = None \/ previous.locale < entry.locale

\* compareNames: what a locale takes for one name is still two.
Follows(entry, previous) == previous = None \/ Before(previous, entry)

\* sortedEntries: one scan for the least name after the last.
Beyond(frame) == {e \in frame.entries : Follows(e, frame.previous)}
NextEntry(frame) == CHOOSE e \in Beyond(frame) : \A other \in Beyond(frame) \ {e} : Before(e, other)

Discover ==
  /\ pc = "discover" /\ frames # <<>>
  /\ LET frame == Last(frames)
         entry == NextEntry(frame)
         past  == [frames EXCEPT ![Len(frames)].previous = entry]
     IN  IF Beyond(frame) = {} THEN frames' = Front(frames) /\ UNCHANGED <<file, pc>>
         ELSE IF entry.isDirectory
         THEN /\ frames' = Append(past, [entries |-> entry.entries, previous |-> None])
              /\ UNCHANGED <<file, pc>>
         ELSE /\ frames' = past
              /\ IF entry.ours THEN file' = entry.file /\ Goto("input") ELSE UNCHANGED <<file, pc>>
  /\ UNCHANGED <<given, listing, paging, counting, nesting, writing, made, asked, cancelled>>

\* runBounded, before each input.
StopInputs ==
  /\ pc = "input" /\ asked
  /\ cancelled' = TRUE /\ Goto("done")
  /\ UNCHANGED <<given, walking, listing, paging, counting, nesting, writing, made, asked>>

\* A bounded run takes loose sections only; the library takes archives, in memory.
Archive == options.bounded /\ file.kind # "section"
RefuseInput ==
  /\ pc = "input" /\ ~asked
  /\ Archive \/ Unreadable(file)
  /\ Tell("errors", [of |-> IF Archive THEN "scope" ELSE UnreadableKind(file), name |-> file.name])
  /\ Goto("discover")
  /\ UNCHANGED <<given, walking, listing, paging, counting, nesting, writing, asked, cancelled>>

\* convertFileStream: sectionsOf.
SectionsOf ==
  IF file.kind = "section" THEN <<[title |-> file.name, groups |-> <<>>, section |-> file.section]>>
  ELSE LET Of(s) == [title |-> Last(s.path), groups |-> GroupsOf(s.path), section |-> s.section]
           wanted == {i \in DOMAIN file.sections :
                        options.wanted = {} \/ file.sections[i].path \in options.wanted}
       IN  Selected([i \in DOMAIN file.sections |-> Of(file.sections[i])], wanted)
OpenInput ==
  /\ pc = "input" /\ ~asked /\ ~Archive /\ ~Unreadable(file)
  /\ sources' = SectionsOf /\ source' = 0
  /\ Goto("section")
  /\ UNCHANGED <<given, walking, paging, counting, nesting, writing, made, asked, cancelled>>

-----------------------------------------------------------------------------
\* convert and convertOne: one section at a time

Source == sources[source]
Section == Source.section
Label == IF Section.name # <<>> THEN Section.name ELSE Source.title
Notebook ==
  IF options.notebookName # None THEN options.notebookName
  ELSE IF Len(sources) > 1 \/ (sources # <<>> /\ sources[1].groups # <<>>) THEN file.name
  ELSE None
Parent ==
  (IF Notebook = None THEN <<>> ELSE <<Sanitized(Notebook)>>)
    \o [i \in DOMAIN Source.groups |-> Sanitized(Source.groups[i])]

NoMoreSections ==
  /\ pc = "section" /\ (source = Len(sources) \/ asked)
  /\ cancelled' = (cancelled \/ source < Len(sources))
  /\ Goto("discover")
  /\ UNCHANGED <<given, walking, listing, paging, counting, nesting, writing, made, asked>>

NextSection ==
  /\ pc = "section" /\ source < Len(sources) /\ ~asked
  /\ source' = source + 1
  /\ Tell("progress", [kind |-> "section", of |-> file.name, name |-> sources[source + 1].title,
                       total |-> Len(sources)])
  /\ Goto("openSection")
  /\ UNCHANGED <<given, walking, sources, paging, counting, nesting, writing, asked, cancelled>>

\* StreamSection.open: what is no section fails here, before it has a name.
OpenFails ==
  /\ pc = "openSection" /\ ~Section.opens
  /\ Tell("errors", [of |-> "section", name |-> Source.title])
  /\ Goto("section")
  /\ UNCHANGED <<given, walking, listing, paging, counting, nesting, writing, asked, cancelled>>

\* Mutant of ClaimKey: the name with its case.
ClaimKeyWithCase(folder, name) == [folder |-> folder, name |-> name]

\* StreamWorkspace.claim: the key has the folder as it is and the name without case.
ClaimKey(folder, name) == [folder |-> folder, name |-> Folded(name)]

IsClaimed(folder, name) == ClaimKey(folder, name) \in made.names
Chosen(folder, name) ==
  Candidate(name, CHOOSE n \in 0..Cardinality(made.names) :
                    /\ ~IsClaimed(folder, Candidate(name, n))
                    /\ \A m \in 0..n-1 : IsClaimed(folder, Candidate(name, m)))
Claim(folder, name) == made' = [made EXCEPT !.names = @ \cup {ClaimKey(folder, name)}]

\* SubpageLevels.set: a level forgets those below it.
SetLevel(level, folder) ==
  /\ folders' = [l \in DOMAIN folders \cup {level} |-> IF l = level THEN folder ELSE folders[l]]
  /\ depth' = level

ClaimSection ==
  LET name == Chosen(Parent, Sanitized(Label))
  IN  /\ pc = "openSection" /\ Section.opens
      /\ Claim(Parent, name)
      /\ SetLevel(0, Append(Parent, name))
      /\ walks' = walks + 1 /\ at' = 0 /\ seen' = {}
      /\ total' = 0 /\ done' = 0 /\ filed' = <<>>
      /\ Goto("count")
      /\ UNCHANGED <<given, walking, listing, writing, asked, cancelled>>

\* A walk that fails costs the section, and so its pages still to come.
SectionFails ==
  /\ Tell("errors", [of |-> "section", name |-> Source.title])
  /\ Goto("closeSection")
  /\ UNCHANGED cancelled
StopSection == cancelled' = TRUE /\ Goto("closeSection") /\ UNCHANGED made

CloseSection ==
  /\ pc = "closeSection"
  /\ seen' = {} /\ folders' = <<>> /\ depth' = 0
  /\ page' = None /\ note' = None /\ asset' = None /\ link' = None
  /\ Goto("section")
  /\ UNCHANGED <<given, walking, listing, walks, at, counting, filed, made, asked, cancelled>>

-----------------------------------------------------------------------------
\* #pageSpaceIds: a walk over what the page series list.  Which spaces it met is
\* in the section's store, under the walk's number.

Listed == ListedIn(Section)

\* Mutant of Met: what either walk met.
MetInAnyWalk(walk) == {s.space : s \in seen}
Met(walk) == {s.space : s \in {t \in seen : t.walk = walk}}
AtEnd == at + 1 \notin DOMAIN Listed \/ Cardinality(Met(walks)) >= MaxPageGraphNodes
Space == Section.spaces[Listed[at]]

Repeated(label) ==
  /\ pc = label /\ ~AtEnd /\ Listed[at + 1] \in Met(walks)
  /\ at' = at + 1
  /\ UNCHANGED <<given, walking, listing, walks, seen, counting, nesting, writing, made, asked,
                 cancelled, pc>>
Reached(label, next) ==
  /\ pc = label /\ ~AtEnd /\ Listed[at + 1] \notin Met(walks)
  /\ at' = at + 1
  /\ seen' = seen \cup {[walk |-> walks, space |-> Listed[at + 1]]}
  /\ Goto(next)
  /\ UNCHANGED <<given, walking, listing, walks, counting, nesting, writing, made, asked, cancelled>>

\* countPages, and #pageDeletionState for each space.
CountRepeated == Repeated("count")
CountReached == Reached("count", "countPage")

Counts(space) == IsPage(space) /\ (options.includeDeleted \/ ~space.deleted)
CountPage ==
  /\ pc = "countPage"
  /\ IF asked THEN StopSection /\ UNCHANGED total
     ELSE IF IsPage(Space) /\ Space.broken = "metadata" THEN SectionFails /\ UNCHANGED total
     ELSE /\ total' = IF Counts(Space) THEN total + 1 ELSE total
          /\ Goto("count")
          /\ UNCHANGED <<made, cancelled>>
  /\ UNCHANGED <<given, walking, listing, paging, done, nesting, writing, asked>>

\* convertPages walks again, in a generation of its own.
StartPages ==
  /\ pc = "count" /\ AtEnd
  /\ walks' = walks + 1 /\ at' = 0
  /\ Goto("pages")
  /\ UNCHANGED <<given, walking, listing, seen, counting, nesting, writing, made, asked, cancelled>>

PageRepeated == Repeated("pages")
PageReached == Reached("pages", "readPage")
NoMorePages ==
  /\ pc = "pages" /\ AtEnd
  /\ Goto("closeSection")
  /\ UNCHANGED <<given, walking, listing, paging, counting, nesting, writing, made, asked, cancelled>>

\* #page: its metadata.  A cached title that is blank gives way to the title nodes'.
TitleOf(space) ==
  LET cached == IF space.cached # None THEN space.cached
                ELSE IF space.titleOnPage # None THEN space.titleOnPage ELSE <<>>
  IN  IF Range(cached) \subseteq {" "} THEN space.titleText ELSE cached
LevelOf(space) == IF space.level \in Nat \ {0} THEN space.level - 1 ELSE 0
ReadPage ==
  /\ pc = "readPage"
  /\ IF ~IsPage(Space) THEN Goto("pages") /\ UNCHANGED <<page, made, cancelled>>
     ELSE IF Space.broken \in {"metadata", "title"} THEN SectionFails /\ UNCHANGED page
     ELSE /\ page' = [id |-> Listed[at], title |-> TitleOf(Space), level |-> LevelOf(Space),
                      created  |-> Space.created,
                      updated  |-> IF Space.revised # None THEN Space.revised ELSE Space.modified,
                      conflict |-> IF Space.conflict # None THEN Space.conflict
                                   ELSE Space.conflictRoot,
                      deleted  |-> Space.deleted]
          /\ Goto("page") /\ UNCHANGED <<made, cancelled>>
  /\ UNCHANGED <<given, walking, listing, paging, counting, nesting, note, asset, link, asked>>

-----------------------------------------------------------------------------
\* convertPages and writeNote: one page

Folder == folders[depth]

\* The event loop turns; then the page is passed over, or its level names a folder
\* and the folder a note.
PassOver ==
  /\ pc = "page"
  /\ asked \/ (page.deleted /\ ~options.includeDeleted)
  /\ IF asked THEN StopSection ELSE Goto("pages") /\ UNCHANGED <<made, cancelled>>
  /\ UNCHANGED <<given, walking, listing, paging, counting, nesting, writing, asked>>

\* Mutant of Depth: the level as the page has it, where there is a folder for it.
DepthUnclamped(level) == IF level \in DOMAIN folders THEN level ELSE depth
Depth(level) == IF options.nestSubpages THEN Min({level, depth}) ELSE 0

ClaimNote ==
  LET level  == Depth(page.level)
      folder == folders[level]
      name   == Chosen(folder, Sanitized(page.title) \o Markdown)
  IN  /\ pc = "page" /\ ~asked /\ (options.includeDeleted \/ ~page.deleted)
      /\ depth' = level
      /\ Claim(folder, name)
      /\ note' = Append(folder, name)
      /\ link' = None
      /\ filed' = Append(filed, [level |-> page.level, depth |-> level,
                                 folder |-> folder, stem |-> Stem(Last(note'))])
      /\ Goto("openNote")
      /\ UNCHANGED <<given, walking, listing, paging, counting, folders, page, asset, asked, cancelled>>

Partial == Bytes("partial")
Abandon == IF options.chunked THEN Removed(made.disk, note) ELSE made.disk
PageFails(disk) ==
  /\ made' = Told([made EXCEPT !.disk = disk], "errors", [of |-> "page", name |-> Stem(Last(note))])
  /\ Goto("level")

\* A sink that opens files creates the note now; one that only takes whole files
\* is given it at the end.
OpenNote ==
  /\ pc = "openNote"
  /\ IF options.chunked /\ ~Creatable(made.disk, note)
     THEN PageFails(Prepared(made.disk, note))
     ELSE /\ made' = IF options.chunked
                     THEN [made EXCEPT !.disk = With(@, note, Partial)] ELSE made
          /\ Goto("body")
  /\ UNCHANGED <<given, walking, listing, paging, counting, nesting, writing, asked, cancelled>>

\* render throws before an element when asked to stop; a page that embeds nothing
\* stands for one without elements.
Interrupted ==
  /\ pc = "body" /\ asked /\ Space.embeds # None
  /\ made' = [made EXCEPT !.disk = Abandon]
  /\ cancelled' = TRUE /\ Goto("closeSection")
  /\ UNCHANGED <<given, walking, listing, paging, counting, nesting, writing, asked>>

\* AssetWriter.save, up to the claim: nothing to save, bytes saved before, or a name.
Attachments == Join(Folder, options.attachmentsDir)
LinkTo(name) == Join(Join(<<>>, options.attachmentsDir), name)
WrittenFor(digest) == {c \in made.content : c.folder = Attachments /\ c.digest = digest}
FindAsset ==
  /\ pc = "body" /\ Space.embeds # None /\ ~asked
  /\ IF Space.embeds.digest = None \/ ~options.attachments
     THEN /\ Tell("skipped", [page |-> Stem(Last(note)), item |-> Space.embeds.name])
          /\ Goto("finishNote") /\ UNCHANGED <<asset, link>>
     ELSE IF WrittenFor(Space.embeds.digest) # {}
     THEN /\ link' = LinkTo((CHOOSE c \in WrittenFor(Space.embeds.digest) : TRUE).name)
          /\ Goto("finishNote") /\ UNCHANGED <<asset, made>>
     ELSE LET name == Chosen(Attachments, Sanitized(Suggested(Space.embeds)))
          IN  /\ Claim(Attachments, name)
              /\ asset' = Append(Attachments, name)
              /\ Goto("saveAsset") /\ UNCHANGED link
  /\ UNCHANGED <<given, walking, listing, paging, counting, nesting, page, note, asked, cancelled>>

\* The copy, then the report and what is remembered of the bytes.
SaveAsset ==
  /\ pc = "saveAsset"
  /\ IF ~Creatable(made.disk, asset)
     THEN PageFails(IF options.chunked THEN Removed(Prepared(made.disk, asset), note)
                    ELSE Prepared(made.disk, asset)) /\ UNCHANGED link
     ELSE /\ made' = [made EXCEPT !.disk = With(@, asset, Bytes(Space.embeds.digest)),
                                  !.attachments = Append(@, asset),
                                  !.content = @ \cup {[folder |-> Attachments,
                                                       digest |-> Space.embeds.digest,
                                                       name   |-> Last(asset)]}]
          /\ link' = LinkTo(Last(asset))
          /\ Goto("finishNote")
  /\ UNCHANGED <<given, walking, listing, paging, counting, nesting, page, note, asset, asked, cancelled>>

\* frontMatterFor
FrontMatter ==
  IF ~options.frontmatter THEN None
  ELSE [title |-> page.title, id |-> page.id, section |-> Label, notebook |-> Notebook,
        groups |-> Source.groups, created |-> page.created, updated |-> page.updated,
        conflict |-> page.conflict, deleted |-> page.deleted]

\* The rest of the body, the writer's close and the record of the note.
FinishNote ==
  LET content == [front |-> FrontMatter, body |-> page.id, link |-> link]
  IN  /\ pc = "finishNote" \/ (pc = "body" /\ Space.embeds = None)
      /\ IF Space.broken = "body" THEN PageFails(Abandon)
         ELSE IF ~options.chunked /\ ~Creatable(made.disk, note)
         THEN PageFails(Prepared(made.disk, note))
         ELSE /\ made' = Told([made EXCEPT !.disk = With(Abandon, note, content)], "notes", note)
              /\ Goto("level")
      /\ UNCHANGED <<given, walking, listing, paging, counting, nesting, writing, asked, cancelled>>

\* Progress, and the folder the page's subpages would go to.
Level ==
  /\ pc = "level"
  /\ done' = done + 1
  /\ Tell("progress", [kind |-> "note", of |-> Label, name |-> Stem(Last(note)), total |-> total])
  /\ SetLevel(depth + 1, Append(Folder, Stem(Last(note))))
  /\ Goto("pages")
  /\ UNCHANGED <<given, walking, listing, paging, total, filed, writing, asked, cancelled>>

-----------------------------------------------------------------------------
Finish == pc = "discover" /\ frames = <<>> /\ Goto("done")
          /\ UNCHANGED <<given, walking, listing, paging, counting, nesting, writing, made, asked,
                         cancelled>>

\* The host's flag; it is not taken back.
Ask ==
  /\ pc # "done" /\ ~asked /\ options.stops
  /\ asked' = TRUE
  /\ UNCHANGED <<given, walking, listing, paging, counting, nesting, writing, made, cancelled, pc>>

Convert ==
  \/ Discover \/ StopInputs \/ RefuseInput \/ OpenInput \/ NoMoreSections \/ NextSection
  \/ OpenFails \/ ClaimSection \/ CloseSection \/ CountRepeated \/ CountReached \/ CountPage
  \/ StartPages \/ PageRepeated \/ PageReached \/ NoMorePages \/ ReadPage \/ PassOver
  \/ ClaimNote \/ OpenNote \/ Interrupted \/ FindAsset \/ SaveAsset \/ FinishNote \/ Level \/ Finish

Next == Convert \/ Ask
Spec == Init /\ [][Next]_vars

-----------------------------------------------------------------------------
\* Properties

\* The note in hand is claimed: no file has its path, except where a folder of
\* another spelling is the same folder to the file system.  (claim keeps the case
\* of the folder and not of the name.)
NameIsFree ==
  LET path == IF pc = "saveAsset" THEN asset ELSE note
  IN  pc \in {"openNote", "saveAsset"} =>
        \A f \in made.disk.files :
          Key(made.disk, f.path) = Key(made.disk, path) => Front(f.path) # Front(path)

\* No page is attempted that was not announced, and a section walked to its end has
\* attempted every one that was, though the announcement and the conversion each find
\* the pages by a walk of their own over one store.
CountsAgree ==
  /\ pc \in {"pages", "readPage", "page", "openNote", "body", "saveAsset", "finishNote",
             "level"} => done <= total
  /\ pc = "pages" /\ AtEnd => done = total

\* A page filed below another is in the folder named after the last page filed above
\* it, one level up, and every other page in the section's own folder, whatever levels
\* the pages have and whichever were passed over: no folder of an earlier page is ever
\* taken up again.  And it is as deep as its level says as long as no page is more than
\* one level below the page before it, which is what src/stream/workspace.ts:174 takes
\* a section to be.
Stepwise(pages) ==
  \A i \in DOMAIN pages : pages[i].level <= (IF i = 1 THEN 0 ELSE pages[i - 1].level + 1)
UnderItsParent ==
  options.nestSubpages =>
    \A i \in DOMAIN filed :
      LET above  == {j \in 1..i-1 : filed[j].depth < filed[i].depth}
          parent == filed[Max(above)]
      IN  /\ IF above = {} THEN filed[i].depth = 0 /\ filed[i].folder = filed[1].folder
             ELSE /\ filed[i].depth = parent.depth + 1
                  /\ filed[i].folder = Append(parent.folder, parent.stem)
          /\ Stepwise(filed) => filed[i].depth = filed[i].level
=============================================================================
