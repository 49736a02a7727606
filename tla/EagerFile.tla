----------------------------- MODULE EagerFile ------------------------------
(***************************************************************************)
(* The path without a memory budget: readSections (src/read-section.ts),   *)
(* mapSection and mapPage (src/onenote-file/semantic/map.ts), convertFile  *)
(* (src/convert-file.ts) and the loop over the inputs (src/cli.ts), as     *)
(* operators over what has been done so far.  A whole section is in memory *)
(* before its first note is written; what cannot be read of it costs it    *)
(* whole.                                                                   *)
(***************************************************************************)
EXTENDS FileNames

Entry(path, section) == [title |-> Last(path), groups |-> GroupsOf(path), section |-> section]
ReadSections(f, options) ==
  LET wanted == SelectSeq(f.sections, LAMBDA s : options.wanted = {} \/ s.path \in options.wanted)
  IN  IF f.kind = "section" THEN <<Entry(<<f.name>>, f.section)>>
      ELSE [i \in DOMAIN wanted |-> Entry(wanted[i].path, wanted[i].section)]

-----------------------------------------------------------------------------
(* mapPage.  A space that is no page is passed over; a broken one throws.  *)
Blank(name) == \A c \in Range(name) : c = " "
FirstOf(values) == LET present == SelectSeq(values, LAMBDA v : v # None)
                   IN  IF present = <<>> THEN None ELSE present[1]
MappedTitle(space) == LET cached == FirstOf(<<space.cached, space.titleOnPage, <<>>>>)
                      IN  IF Blank(cached) THEN space.titleText ELSE cached
MapPage(id, space) ==
  [id |-> id, title |-> MappedTitle(space),
   level |-> Max({0, FirstOf(<<space.level, 1>>) - 1}),
   created |-> space.created, updated |-> FirstOf(<<space.revised, space.modified>>),
   conflict |-> IF space.conflict # None THEN space.conflict ELSE space.conflictRoot,
   deleted |-> space.deleted, embeds |-> space.embeds]

(* The spaces the page series list, each once, up to the limit. *)
ListedSpaces(section) ==
  FoldLeft(LAMBDA seen, id : IF Contains(seen, id) \/ Len(seen) >= MaxPageGraphNodes
                             THEN seen ELSE Append(seen, id),
           <<>>,
           FlattenSeq([i \in DOMAIN section.series |->
                         IF section.series[i].isSeries THEN section.series[i].pages ELSE <<>>]))

Maps(section) ==
  section.opens /\ \A s \in Range(section.spaces) : s.broken \notin {"metadata", "body"}
MapSection(section) ==
  LET pages == SelectSeq(ListedSpaces(section), LAMBDA id : IsPage(section.spaces[id]))
  IN  [i \in DOMAIN pages |-> MapPage(pages[i], section.spaces[pages[i]])]

-----------------------------------------------------------------------------
(* NameRegistry.claim *)
Taken(names, folder) == {n.name : n \in {m \in names : m.folder = folder}}
Claimed(done, folder, name) ==
  [done EXCEPT !.names = @ \cup {[folder |-> folder, name |-> Folded(name)]}]
Free(done, folder, name) == AvailableFileName(name, Taken(done.names, folder))

(* FsSink.write *)
Write(done, path, content) == [done EXCEPT !.disk = With(@, path, content)]

(* frontMatterFor *)
FrontMatterOf(page, ctx) ==
  [title |-> page.title, id |-> page.id, section |-> ctx.label, notebook |-> ctx.notebook,
   groups |-> ctx.groups, created |-> page.created, updated |-> page.updated,
   conflict |-> page.conflict, deleted |-> page.deleted]

(* saveAttachment: answers [done, link, failed].  Bytes already in the      *)
(* folder are linked to; no bytes, or no attachments, is an item skipped.   *)
Skipped(done, stem, asset) ==
  [done |-> Told(done, "skipped", [page |-> stem, item |-> asset.name]), link |-> None, failed |-> FALSE]
SavedAs(done, folder, asset, name, options) ==
  IF ~Creatable(done.disk, Append(folder, name))
  THEN [done |-> [done EXCEPT !.disk = Prepared(@, Append(folder, name))], link |-> None, failed |-> TRUE]
  ELSE [done |-> [Told(Write(done, Append(folder, name), Bytes(asset.digest)),
                       "attachments", Append(folder, name))
                    EXCEPT !.content = @ \cup {[folder |-> folder, digest |-> asset.digest,
                                                name |-> name]}],
        link |-> Join(Join(<<>>, options.attachmentsDir), name), failed |-> FALSE]
SavedNew(done, folder, asset, name, options) ==
  SavedAs(Claimed(done, folder, name), folder, asset, name, options)
SaveAttachment(done, stem, folder, asset, options) ==
  LET known == {c \in done.content : c.folder = folder /\ c.digest = asset.digest}
  IN  IF asset = None THEN [done |-> done, link |-> None, failed |-> FALSE]
      ELSE IF asset.digest = None \/ ~options.attachments THEN Skipped(done, stem, asset)
      ELSE IF known # {}
      THEN [done |-> done, failed |-> FALSE,
            link |-> Join(Join(<<>>, options.attachmentsDir), (CHOOSE c \in known : TRUE).name)]
      ELSE SavedNew(done, folder, asset,
                    Free(done, folder, Sanitized(Suggested(asset))), options)

(* One page of convertSection: its attachments, then the note as a whole.  *)
Failure(done, stem) == Told(done, "errors", [of |-> "page", name |-> stem])
NoteWritten(saved, page, path, ctx) ==
  IF saved.failed \/ ~Creatable(saved.done.disk, path)
  THEN Failure(IF saved.failed THEN saved.done
               ELSE [saved.done EXCEPT !.disk = Prepared(@, path)], Stem(Last(path)))
  ELSE Told(Write(saved.done, path,
                  [front |-> IF ctx.options.frontmatter THEN FrontMatterOf(page, ctx) ELSE None,
                   body |-> page.id, link |-> saved.link]),
            "notes", path)
Noted(done, stem, total, label) ==
  Told(done, "progress", [kind |-> "note", of |-> label, name |-> stem, total |-> total])
ConvertNamed(done, page, folder, noteName, total, ctx) ==
  Noted(NoteWritten(SaveAttachment(Claimed(done, folder, noteName), Stem(noteName),
                                   Join(folder, ctx.options.attachmentsDir), page.embeds, ctx.options),
                    page, Append(folder, noteName), ctx),
        Stem(noteName), total, ctx.label)

(* convertSection, over the folders of the levels reached so far. *)
NextLevels(levels, depth, stem) == SubSeq(levels, 1, depth + 1) \o <<Append(levels[depth + 1], stem)>>
AtDepth(depth, state, page, total, ctx) ==
  LET folder == state.levels[depth + 1]
      noteName == Free(state.done, folder, Sanitized(page.title) \o Markdown)
  IN  [levels |-> NextLevels(state.levels, depth, Stem(noteName)),
       done   |-> ConvertNamed(state.done, page, folder, noteName, total, ctx)]
ConvertSection(done, pages, folder, ctx) ==
  LET wanted == SelectSeq(pages, LAMBDA p : ctx.options.includeDeleted \/ ~p.deleted)
      Step(state, page) ==
        AtDepth(IF ctx.options.nestSubpages THEN Min({page.level, Len(state.levels) - 1}) ELSE 0,
                state, page, Len(wanted), ctx)
  IN  FoldLeft(Step, [done |-> done, levels |-> <<folder>>], wanted).done

-----------------------------------------------------------------------------
(* convertFile.  Only a notebook of several sections, or of groups, is     *)
(* named after its file.                                                    *)
NotebookOf(f, entries, options) ==
  IF options.notebookName # None THEN options.notebookName
  ELSE IF Len(entries) > 1 \/ (entries # <<>> /\ entries[1].groups # <<>>) THEN f.name
  ELSE None
ParentFolder(notebook, groups) ==
  (IF notebook = None THEN <<>> ELSE <<Sanitized(notebook)>>)
    \o [i \in DOMAIN groups |-> Sanitized(groups[i])]

InFolder(done, parent, name, entry, ctx) ==
  ConvertSection(Claimed(done, parent, name), MapSection(entry.section), Append(parent, name), ctx)
ConvertEntry(done, entry, parent, ctx) ==
  IF ~Maps(entry.section) THEN Told(done, "errors", [of |-> "section", name |-> entry.title])
  ELSE InFolder(done, parent, Free(done, parent, Sanitized(ctx.label)), entry, ctx)
ConvertSections(done, f, entries, notebook, options) ==
  FoldLeft(LAMBDA d, e :
             ConvertEntry(Told(d, "progress", [kind |-> "section", of |-> f.name, name |-> e.title,
                                               total |-> Len(entries)]),
                          e, ParentFolder(notebook, e.groups),
                          [label    |-> IF e.section.name = <<>> THEN e.title ELSE e.section.name,
                           notebook |-> notebook, groups |-> e.groups, options |-> options]),
           done, entries)
ConvertFile(done, f, options) ==
  IF Unreadable(f) THEN Told(done, "errors", [of |-> UnreadableKind(f), name |-> f.name])
  ELSE LET entries == ReadSections(f, options)
       IN  ConvertSections(done, f, entries, NotebookOf(f, entries, options), options)

-----------------------------------------------------------------------------
(* The command line: every file under the folders named, in order.         *)
Sorted(entries) == SetToSortSeq(entries, Before)

RECURSIVE Collected(_)
Collected(entries) ==
  LET sorted == Sorted(entries)
  IN  FlattenSeq([i \in DOMAIN sorted |->
        IF sorted[i].isDirectory THEN Collected(sorted[i].entries)
        ELSE IF sorted[i].ours THEN <<sorted[i].file>> ELSE <<>>])

(* main: one workspace for the whole run. *)
ConvertAll(entries, disk, options) ==
  FoldLeft(LAMBDA d, f : ConvertFile(d, f, options), Undone(disk), Collected(entries))
=============================================================================
