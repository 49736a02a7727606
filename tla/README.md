# one2md in TLA+

one2md converts OneNote sections to Markdown. Its default path reads a file into
memory; its bounded path (`--memory-budget`) reads through a window, keeps every
growing structure in temporary files and writes notes as it goes. The bounded path
is where state, failure and ordering meet, so that is what the state machines are
of; the default, or eager, path is modelled as operators and is what they are
compared with.

## The system

| Part | Source | State it keeps | Operations | Talks to |
|---|---|---|---|---|
| Paged key-value store | `storage/paged-key-value-store.ts` | two temporary files, an LRU page cache, the active page | get, has, set, close | every part that "keeps" something below |
| Spools, spills, records | `storage/spool.ts`, `stream/spills.ts`, `storage/records.ts`, `stream/text.ts` | a pending buffer and chunk counters over a store region | write, chunks, reset | store |
| Byte source and window | `storage/byte-source.ts`, `storage/byte-window.ts` | one buffer and its offset | peek, read | descriptor |
| Section indexers | `indexing/*` | one store per section | indexSection, lookups | window, store |
| Object-space resolver | `resolve/*` | the conversion store | root, object, properties | index, window |
| Streaming section | `stream/section.ts` | index, conversion store, walk generations | open, countPages, pages, openNote, close | resolver, store |
| Page renderer | `stream/page.ts`, `ink.ts`, `markdown.ts`, `sink.ts` | spills for one page | render | resolver, note writer, assets |
| Asset writer | `stream/assets.ts` | none of its own | save | workspace, sink |
| Workspace | `stream/workspace.ts` | claimed names, digests, report lists, subpage folders | claim, record*, marks, read back | store |
| Section loop | `stream/convert.ts` | the walk's position | convertOne, convertPages, writeNote | all of the above |
| Batch run | `stream/run.ts`, `cli.ts` | closers, signal flag, exit code | runBounded, onSignal, closeAll | sections, workspace, sinks |
| Output sinks | `sinks.ts` | open writers | open, close, abort, abortAll | the output folder |
| Names | `names.ts` | claimed sets (eager) | sanitize, availableFileName | workspace |
| Budget, limits, account | `stream/budget.ts`, `limits.ts`, `account.ts` | counters | resolve, read, release | stores, window |
| Parsers | `onenote-file/*`, `fsshttpb/*` | none between calls | decode | bytes |
| Eager conversion | `convert-file.ts`, `onenote-file/convert.ts`, `semantic/*` | in-memory model | convert | parsers |

Everything runs on one thread and every store and file call is synchronous. What
makes the behaviour hard is that any of those calls may throw (the temporary disk
fills up), that the program goes on after most throws (a failed page costs the
page, a failed section the section), that the *failure itself* is recorded in a
store whose write may throw, and that signals arrive at any moment and are
delivered only where the loop yields.

What makes each part correct:

* store: it is a map, whatever is evicted, whatever write fails part-way;
* sink, section loop, batch: no half-written note is left, no finished one is lost
  or replaced, everything opened is closed on every way out;
* workspace: one name is handed out once, and the report accounts for every page;
* spool, window, index, resolver: they answer what the in-memory structure they
  stand for would answer;
* renderer, section walk, names: the notes are those the eager path writes. The
  repository says so itself: `page.ts` calls `map.ts` and `convert.ts` "the
  specification for what this produces".

## Modules

| Module | What it is |
|---|---|
| `KeyValueStore` | what a store promises: a map, asked and answered |
| `PagedStore` | `PagedKeyValueStore`, one action per step that can fail |
| `PagedStoreProofs` | its inductive invariant, four safety theorems, and the proof that it implements `KeyValueStore` |
| `OutputSink` | `FsSink` and `NullSink`: which files are partial, whole, found there |
| `Workspace` | `StreamWorkspace`: claims, digests, report lists with their holes |
| `BoundedRun` | the batch: the loops of `run.ts` and `convert.ts`, `section.ts` opening and closing, `assets.ts`, `cli.ts` signals, report and exit, and `Closers`, the stack of what is open; over the two modules above |
| `BoundedRunProofs` | its inductive invariant and seven theorems about every batch |
| `BoundedRunAccounts` | two more: that the report accounts for every page, and what exit code 0 means |
| `ResidentAccount` | `planBudget` and `limitsFor` as operators: how a budget is divided; then what a run holds and what its account says: three caches, the window, the values, `ResidentAccount` and who registers and releases with it |
| `ResidentAccountProofs` | the plan's arithmetic and four theorems about every budget |
| `MCPagedStore`, `MCBoundedRun` | the instances TLC checks; `ResidentAccount` needs no module of its own for it |
| `ReaderLimits` | the limits every reader has, and what absent, nil and default identifiers are |
| `SectionIndex` | the tables an indexer writes and everything later reads |
| `DesktopFile`, `PackageFile` | what a desktop section, down to the layout of a property set, and a packaged one consist of |
| `OneStoreIndex`, `PackageIndex` | the two indexers, one action per node or event |
| `EagerReader`, `EagerPackage` | the readers that build everything, property sets included, as operators |
| `SpaceResolver`, `CompactIds` | object spaces and packaged identifiers, one store record at a time |
| `EagerSpaces` | `ObjectSpaceMaterializer`, as operators |
| `PropertyStore` | property sets read where they lie: walks, descriptors, nested sets, values |
| `DesktopSection`, `PackagedSection` | a section from its bytes to its pages' questions: indexer, resolver and (of a desktop section) property store over one index |
| `SpaceResolverProofs` | what the operations of `SectionIndex` and the steps of `SpaceResolver` keep true, whichever indexer filled the index |
| `DesktopSectionProofs` | what `DesktopSection` keeps true of every file: its inductive invariant, the seven theorems that follow, and that records read back |
| `PackagedSectionProofs` | what `PackagedSection` keeps true of every package: its inductive invariant and five theorems |
| `SameDesktop` | `DesktopSection` beside `EagerReader` and `EagerSpaces`, and what they are to agree on |
| `SamePackage` | the same of `PackagedSection` and `EagerPackage` |
| `TextStreams`, `NoteWriter`, `InkPath` | spools and spills; the note's filters and where a run's text goes; strokes |
| `PageRules` | the rules of a page (tags, lists, headings, callouts, asset names) as `page.ts` has them |
| `PageRenderer` | `page.ts`: the walk over a page and the note it writes on the way |
| `EagerPage` | the same rules as `map.ts` and `convert.ts` have them, and the note the eager path makes of the same page |
| `FileNames` | `names.ts`, the paths `sinks.ts` writes to over a disk that may fold case, and what both conversions ask of a file and keep of what they did |
| `EagerFile` | `convertFile` over files, archives and folders, as operators |
| `FileConversion` | the streaming path around a page: folders, archives, sections, names, levels, attachments, report |
| `FileConversionProofs` | its inductive invariants and three theorems about every folder given |
| `SameConversion` | `FileConversion` beside `EagerFile`, and what the two are to agree on |
| `MCDesktopSection`, `MCPackagedSection`, `MCPageRenderer`, `MCFileConversion` | the files, packages, pages and folders TLC tries |

A module that declares `RECURSIVE` operators is one of the eager references or one
that only runs use; the modules with proofs reach none of them. That is why what
`FileConversion` and `EagerFile` share is in `FileNames`, and their comparison in
`SameConversion`; and why the two sections are compared in `SameDesktop` and
`SamePackage`, beside the modules that are proved about.

### PagedStore

A page is `[used, at]`: the header's fill mark and the record at each offset. A
record is a key, a value and `previous`, the link of the record that headed its
bucket before. `pages` is the backing file, `buckets` the index file, `cache` the
`Map` in its iteration order, so eviction is from the front and a hit moves to the
back. Links are addresses plus one, as in the code, so zero ends a chain.

A `set` is `Start` (size check, bucket head), `WalkChain`* and `WalkEnds`, then
`LoadActive` or `CreatePage`, `WritePage`, `WriteHead`; a `get` is the walk alone.
Each write has a twin that fails (`CreatePageFails`, `WritePageFails`,
`WriteHeadFails`). A failing page write leaves none of it, its header only
(`Torn`), or all of it on disk, and in each case the cached page keeps the record,
because `set` fills the page in place before writing it. A bucket head is eight
bytes inside a block of a file sized beforehand, so its write is taken to be all or
nothing. `live` is a history variable: the addresses of records whose `set`
returned. `uniqueKeys` is `size`.

`pageCount` grows for ever in the code until a page would pass the safe-integer
range; the model stops one past `MaxPages` (the constant that stands for that
range), where every later attempt is refused alike.

Lengths, headers and page size are constants, so records that fit exactly and
records one byte too long both occur. Bytes themselves are not modelled: a record
whose bytes are all there is a record, one whose bytes are not is `Blank`.

### BoundedRun

`pc` is where the single thread is; each label is a call that can throw or a wait.
A step that can throw chooses `ok`, and `Tries(ok)` uses up one of `MaxFaults`
faults when it is `FALSE`. `Workspace.Record` models the shape shared by every
`record*` method: the counter moves whether or not the write goes through, so a
throw leaves `Missing` at that index.

| Code | Model |
|---|---|
| `runBounded`'s loop | `Launch`, `NextInput`, `NoMoreInputs`, `CloseGroup` |
| `run.ts` `convertOne` | `RefuseInput`, `OpenInput`, `RejectContainer`, `InputFailed` (its catch), `CloseInput` (its finally) |
| `convert.ts` `convertOne` | `OpenIndex`, `OpenStore`, `ClaimSection`, `SectionFailed`, `CloseSection` |
| `countPages`, `pages` | `CountNext`, `CountPage`, `StartPages`, `NextPage`, `NoMorePages` |
| `convertPages` | `StartPage`, `ClaimNote`, `RecordNote`, `NoteFailed`, `Level` |
| `writeNote` | `OpenNote`, `Render`, `RenderRest`, `FinishNote`, `AbortNote` |
| `AssetWriter.save` | `ClaimAsset`, `OpenAsset`, `CopyAsset`, `RecordAsset`, `RememberAsset` |
| report, exit codes, `closeAll` | `Report`, `Closing`, `Exited` |
| `onSignal`, `ONE2MD_TEST_CANCEL_AFTER` | `Arrive`, `Deliver`, `HookFires` |

The nesting of try blocks is the `Goto` of each failing branch: a throw in the
walk goes to "sectionFailed"; recording that failure may throw as well, which
closes the section and goes to "inputFailed", whose own failing record ends the
run once the input is closed. An input whose size or first bytes cannot be read goes
there directly, with nothing but its descriptor to close.

`Deliver` is enabled only at the two `setImmediate` waits, and the wait ends only
when nothing is left to deliver: everything between two waits is microtasks. The
first signal sets the flag the checks read. The second closes everything and exits
from inside the handler.

A writer whose `close` throws is neither open nor aborted, because the flag that
makes close and abort exclusive is set first; such a file is `unsure`. A close or
an unlink that throws during an abort or a release is passed over by the code and
taken as done here.

Names are `[dir, name, copy]`, so `Available` is the search for the first free
copy; sections claim in the output folder, notes in the section's, assets in its
attachments folder. Pages have a digest to embed, nothing, or an embed without
data. Titles and digests repeat, so claims collide and content is found again.

### ResidentAccount

Its first half is `planBudget` read as arithmetic over bytes. The code's shares are a
quarter, an eighth and three quarters, and its one quotient, `scale`, multiplies
defaults that are powers of two; rounding down to a unit that is one too gives the
whole quotient `Scaled` takes, so no fraction is left.

The second half keeps of each page cache the pages it holds and the most it ever
held (`PagedStore` models the cache itself), and of the window the bytes in its
buffer. `Held` is what those and the plan's fixed parts come to.

| Code | Model |
|---|---|
| `StreamSection.open` | `OpenIndex`, `OpenFailsUnregistered`, `OpenConversion` (which registers with the account), `OpenFails`, `SectionOpens` |
| `convertOne`'s finally, `release` | `CloseSection` with `CloseStores` and `Forget` |
| the failed open, which nobody releases | `Strand` |
| `#loadPage`, `#makeRoom`, `get` | `LoadPage`, `LoadFails`, `MakeRoom`, `Get` |
| `ByteWindow.#refill`, the source's read | `Refill`, then `Refilled` or `ShortRead` |
| `joinBounded`, the maths ceiling | `JoinValue`, `ValueDone`, `MathRun` |

A refill is two steps, so that the moment with two buffers is a state; `Still`
keeps everything else out of it, the calls being synchronous. The account's maps
are abstracted to what their entries add up to: `section` says whether the open
section is registered, `workspaceCopies` whether the run-long store's copy counter
is, and `leftPages` and `leftCopy` stand for the entries of failed sections, whose
stores are closed and change no more.

The section closes its stores before the account is released, though the comment
in `convertOne` says "releasing first". It does no harm: the high-water counters of
a closed store still answer, and `PeakCoversSection` is the property that depends
on it.

### Sections

`SectionIndex` is the store behind an index as what `PagedStore` shows it to be, a
map: a table is a sequence or a function. The address of an object's bytes is the
value itself, and the value byte of an object identifier is folded into it.

| Code | Model |
|---|---|
| the log's fragments and entries | `OpenLogFragment`, `ReadLogEntry`, `NextLogFragment`, `LogEnds` |
| `#fileNodes`, a generator per list | `frames`: where each open list is suspended; `OpenFragment`, `FragmentEnds`, `ListEnds` |
| `validateRootList` | `CountRootNode`, `RootRead` |
| the walk's switch | one action per kind of node: `Descend`, `ListStart`, `ReadRevisionManifest`, `ReadRoleDeclaration`, `StartGlobalIds`, `ReadGlobalIdEntry`, `ReadRootReference`, `ReadObject` and those for file data |
| `walkStreamObjects` and the handlers of `fsshttpb-index.ts` | `PackageIndex`: the types that are open, and one action per event in each place; `FrameFails`, `PassEvent` and `EndObject` for what no handler takes |
| `#accumulateObjects`, `#merge` | `MergePartition`, the least of the partitions not yet merged; `Merge`, what it does to its object |
| `#assignCells` | `ChooseHead`, `PlaceRevision`, `ChainPlaced`, `CellsAssigned` |
| `tryGetSpace`, `#resolve`, `currentSpaceByRootJcid` | `AskSpace`, `WalkChain`, `EndChain`, `ApplyRevision`, `RememberSpace`; `StartSearch`, `SearchAsks`, `SearchMoves` |
| `PackagedCompactIds` | `AskIdentifier`, `PairOne`, `StreamPaired`, `MarkBuilt` |
| `viewOf`, `childView`, the walk of a set | `OpenSet`, `OpenChild`, `WalkProperty`, `EndWalk` |
| a store that refuses a record, or a value that cannot be read | `ResolveFails`, `PairingFails`, `WalkFails` |

A failure while a space is resolved, a table paired or a set walked costs the page
that asked (`convert.ts:302`); the next page of the section may ask again, which is
why these actions return to idle and leave what was written where it is.

Inside a structure one malformed kind stands for the magic numbers and lengths it
may get wrong. List fragments are keyed by their offset. An index that reaches
`IndexLimit` (0xffffff in the code) is refused by both readers, in an identifier
table's entry, a CompactID and a pairing. Any node that references a list is
descended into, whatever its id, as `baseType` says; `FilesAssumption` keeps only to
nodes of the ids `#processNode` handles that reference none, since such a node
would be both. A name of file data is what is left when scheme,
braces, case and trailing NULs are taken away. Error codes are compared for a
desktop section's log and root list, where both readers stop at once, and elsewhere
only whether there is one.

A property set is a sequence of units: a field of up to four bytes, or a character
of data, is one; a value of eight bytes is two. The store's records are modelled
with their flags and the order of their fields, because a reader that skips a flag
reads another field's bytes.

Both readers are given the same input, the eager one once, at the beginning. Where
they are known to differ, the properties or the inputs say so:

* a desktop section's property sets are not read while it is indexed, so
  `SameIndex` compares with `lenient`, the eager reader without its sets. Asked
  for a set, streaming does not want every CompactID of it resolved and counts
  properties per set, the eager reader per object;
* the depth of nested lists has a limit in the indexer only;
* in a package, revisions that no cell reaches count towards the object limit, may
  fail over their type and decide whether a later object is a revision, in
  streaming only (`allPlaced`);
* a packaged object's bytes are found by its declaration in streaming
  (`space.ts:526`), in the eager path by the name in its properties, which belongs to
  the first object to give it bytes (`object-graph.ts:343`). They agree unless a name
  stands with two declarations or without one (`OneName`);
* left out of the inputs: a package that maps a revision twice, holds a revision or
  an element identifier twice or has several storage indexes (one reader takes the
  first, the other the last or all), and a package element that is not compound
  before the real one (`fsshttpb-index.ts:387`: the indexer never leaves it).

### Pages

`PageRenderer` keeps the renderer's call stack as `agenda`, the innermost call
last: elements still to visit, a paragraph's or a cell's runs, a table's rows, a
cell's children. A step visits one element or pushes one piece of a run, which is
where the code awaits the sink, the assets or the next element. `pipe` is the note
and the section's four spills, `ink` the drawing and its four spools, `known` the
recognized words in the store. `OpenPage` resets what the code resets, and only
that: the records of an earlier page stay in the regions.

| Code | Model |
|---|---|
| `ByteSpool`, `RecordSpool`, `Spill` | `WriteSpool`, `Chunks`, `ResetSpool`; `PushRecord`; `Spill`, `Pieces`, `Clear` |
| the filters of `text.ts` and `markdown.ts` | `CarriageReturns`, `TrimPiece`, `CollapseNewlines`, `DecideLineStart`: a state and a piece give a state and what is let out |
| `NoteWriter` | `PushNote`, `BeginBlock`, `BeginCallout`, `PushBlock`, `Out`, `FinishNote` |
| `CoreWriter`, `BlockBody`, `CellText` | the second half of `NoteWriter`, one operator per method |
| `#element` and its cases | `EnterOutline`, `EnterOutlineElement`, `EnterParagraph`, `PlaceAsset`, `GatherInk`, `EnterTable`, `PassOver`, `EndElements` |
| `#runs`, `#run` | `OpenRun`, `PushPiece`, `CloseRun`, `EndRuns`; `ScanField` is the HYPERLINK scanner, a character at a time |
| `#table`, `#cell`, `#writeChildren` | `StartRow`, `NextCell`, `EndRow`, `EndTable`; the `Cell...` actions |
| `#writeCollectedInk`, `collectTitle` | `WriteCollectedInk`, `CollectTitle` |

A character is one unit and one byte. A run is read `step` characters at a time, so
every cut of a text into pieces up to two happens. Colours are the real numbers; ink
scales are integers and a stroke's colour, width and opacity are one pen. The
eager side is translated separately, from `map.ts` and `convert.ts`, down to the
small rules: the first part of `EagerPage` restates what `PageRules` says. Only the tables of
markers and callout types are shared, the two sources having the same.

The two paths are known to differ in these places, which the pages avoid or the
properties name:

* order: streaming writes elements as they are listed, the eager path the outlines
  first (`map.ts:138`, `convert.ts:418`). The comments at `page.ts:285` and
  `page.ts:308` say outlines come first. A page that lists an image or a table
  before an outline has its parts in another order; the pages here list outlines
  first;
* a line whose indentation ends where a chunk of its spool does, and whose first
  word must be escaped, gets its backslash twice (`page.ts:1795`, against
  `text.ts:18`): `Seam` in `MCPageRenderer`;
* ceilings on values, maths, columns and link targets are streaming's alone
  (`OverACeiling`); the title's are left out;
* a cell: streaming checks the table's depth and keeps no path, so a table that
  holds itself is reported as skipped where the eager path drops it; ink in a table
  inside a cell is decoded by the eager path only;
* an outline element whose content is an outline element: the eager path folds the
  inner paragraph into the outer list, tags and children, streaming keeps the
  inner's;
* malformed ink costs streaming the page, the eager path the section
  (`RefusesInk`);
* a cached title of spaces with no title node stays as it is in the eager path;
* a byte-order mark or half a surrogate pair at the edge of a run, characters being
  units here.

### Files

`FileConversion` has the walk over the folders given, `convertFileStream`'s loops
and, of a page, everything but its body: metadata, names, level, attachment, front
matter, the writer and the report. A page's body is a value and at most one
attachment, whose place it is to come between the note's opening and its end.

| Code | Model |
|---|---|
| `discover`, `sortedEntries` | `Discover` |
| `runBounded`'s refusals | `StopInputs`, `RefuseInput`, `OpenInput` |
| `convert`, `convertOne` | `NextSection`, `OpenFails`, `ClaimSection`, `CloseSection`, `NoMoreSections` |
| `#pageSpaceIds`, `countPages` | `CountReached`, `CountRepeated`, `CountPage`; `walks` is the generation and `seen` the marks in the store |
| `pages`, `#page` | `StartPages`, `PageReached`, `PageRepeated`, `ReadPage`, `NoMorePages` |
| `convertPages`, `SubpageLevels` | `PassOver`, `ClaimNote`, `Level`, `SetLevel` |
| `writeNote`, `AssetWriter.save` | `OpenNote`, `Interrupted`, `FindAsset`, `SaveAsset`, `FinishNote` |
| the host's `isCancelled` | `Ask`, at any moment; looked at where the code looks |

`chunked` says whether the sink opens files or only takes whole ones
(`BufferedChunkWriter`). Names are short sequences of marked characters, sanitised,
shortened, numbered and folded by what `names.ts` does. The disk is its files
and folders, and it may fold their case. The section's folder is recorded as
level zero when it is named; the code does so after the count, with nothing in
between that reads it. The lists of the report that the code keeps per input are
one list here; `BoundedRun` has them apart, and the throws.

Known differences between the paths, and what the model does about them:

* a page that cannot be read costs the eager path the section before it is named,
  and streaming only itself, or the pages still to come; deleted pages are read by
  the eager path too. `SameNotes` leaves broken pages out (`Comparable`);
* an archive given to a bounded run is refused; the eager path opens it
  (`Comparable`);
* when a note cannot be written its attachment stays behind in the eager path; the
  inputs leave this out;
* stopping is asked of the streaming path only. The eager path takes a stopped page
  for a finished one (`onenote-file/convert.ts:256`), but the command line never
  passes it the flag.

Three things about names hold in both paths and are worth knowing. A claim folds the
case of the file's name and not of its folder, and the folders of a notebook and its
groups are not claimed (`workspace.ts:144`): on a disk that folds case two groups
that differ in case share a folder, and with `--overwrite` their notes replace one
another. A page's subpage folder is its note's stem and not claimed
(`convert.ts:316`): a note titled `X.md` is refused where a folder `X.md` stands, and
costs its page. A page whose level jumps, or whose parent is deleted, lands
in the folder of the last page above it (`convert.ts:290`). `UnderItsParent` says of
every section which page that is: the last one filed one level up, with none filed
higher since. That a page is as deep as its own level says it promises only to sections
that are `Stepwise`, which `workspace.ts:174` takes all to be. `filed` is the history it
speaks of: of each page the level, the depth it was given, the folder and the stem.

## Runs

| Run | Instance | What it shows |
|---|---|---|
| `paged_store` | two keys in one bucket, two values of different length, pages of six bytes that hold one or two records, two pages, a cache of one; every write may fail, any number of times | types, cache, survival of committed records, chains, the refinement to a map, and that every call ends |
| `bounded_run` | six batches of up to two inputs and two pages, covering every kind of input; every output mode; an empty folder, or one holding a file where the first note or image would go; three faults, two signals | the nine properties at the end of `BoundedRun` other than its types, which are proved |
| `resident_account` | the smallest budget, whose caches get one page, and 1 138 687 bytes, which the plan divides without a byte to spare and whose caches get two; two sections; value parts of which two and a space are one past the smallest ceiling | what is held stays within the budget, what is built within its reserve, and the peak covers a section that ended |
| `failed_sections`, `workspace_copies`, `second_window` | the same instance | three findings about the account and the window |
| `section_index` | desktop files whose revision list says any two things, or any three of a kind that leave the walk somewhere and then use it; one file whose log, fragments, root list, nesting, file data and names are wrong in every way; list references under ids of other nodes; objects with one to three properties of every type, nested sets and malformed headers; two questions, one refused record | `SameIndex`, `SameAnswers`: the index is the eager reader's graph, CompactIDs mean what they meant, and spaces and property sets are answered as the eager path answers them, or not at all. At every moment before: the tables agree, no list is read past its committed count, what is remembered of spaces and sets is whole, and what an indexed object means stays. Indexing ends |
| `package_index` | every pair of cells over chains that end, loop and share a tail; partitions of every kind in every pairing; identifiers that pair and that do not; objects that name their bytes, share them and share their name; one package with each header dropped, cut off, or with ten things inserted anywhere; two questions, one refused record | the same two of a packaged section; that its types hold event by event, that one revision of a space is current, that a mark comes after what it marks; that placing ends |
| `rendered_page` | 3125 texts of five characters from five (less those of `Seam`), half of them with a bold tail; 280 pages with a HYPERLINK field in which one character is wrong, cut at four places; 23 pages, one per structure; 35 sections of two pages; a write refused at any step | `SamePage`: the note, its title and its files are the eager path's at every step; in bounded memory, and each spill reads back what it was given |
| `same_notes` | eleven families of inputs, each about one thing the paths must agree on: titles, where titles are, subpages, clashes, listings, attachments, a note in the way, broken pages, archives, refusals, folders | names are free, counts agree, subpages lie where they belong, and what is written and reported is what the eager path does |
| `unreadable_report` | the same batches, one fault | the report cannot always be read back (a finding) |
| `interrupted_note` | the same batches, one signal | the note being written at Ctrl-C is kept (a finding) |

Why the bounds are enough: in the store, every behaviour involves a key, another
key of its bucket, and the page boundary; two pages make the second page both the
last one allowed and the one that evicts the first. In the run, three faults are
what it takes for a step, the recording of its failure and the recording of *that*
failure to throw, and two signals are all the handler tells apart. Two inputs that
claim one name, each with pages, are the smallest batch in which one input can
disturb another's files or report.

For the account, two pages are the least that makes a cache both grow and evict,
two sections the least in which one's leftovers meet another's entries; the
theorems remove both bounds and the choice of budgets.

For a desktop section every limit is small enough to be passed: three objects
(`MaxObjects`), 18 nodes, three log fragments and seven entries, two fragments of a
list, five nested lists, three properties, three nested sets, data of less than four
units, text in windows of two; `IndexLimit` is 9, so that 8 is the last index allowed. Two
revisions, two groups and two spaces are the
least in which something said in one place can be read in another; the third thing
said is what lets a table be cleared, or a space changed, between an object's
declaration and its use. Two questions are one that fails and one that is asked
again on top of what it left. A package has three revisions because a chain of two
has no middle, five objects and five open types as its limits.

Of a page, chunks and spills of two characters and a note buffer of three make a
text of five spill, fill chunks and flush in every alignment. A maths run is at most
twelve characters, a value eight, a table three columns, and each has a page one past
it; `MaxDepth` is five. Sections of two pages are the least in which a page finds
what another left, and `MaxFailures` of one is enough for the first page to end
anywhere.

Of a file, names of five characters can be cut, numbered and folded; four pages are
past the reader's limit (`MaxPageGraphNodes`) with a fifth; four levels in a row have
every jump, return and orphan.

The largest runs are `section_index` (753 560 distinct states) and `bounded_run` (634 005), about
a minute and a half each at most; `package_index` has 210 058, `rendered_page` 259 906
and `same_notes` about 150 000.

Fairness. The store's requests and the batch's steps each have weak fairness: they
run on one thread that blocks on nothing. `Deliver` has weak fairness because the
event loop runs pending handlers before it resumes an immediate. `Arrive`,
`HookFires`, new requests and `Close` have none. Indexing a section is one
synchronous call and so is placing a package's revisions, hence the weak fairness of
`Indexing` and of `Indexing \/ Placing`; asking has none. `ResidentAccount`,
`PageRenderer` and `FileConversion` state safety only and have no fairness.

Deadlock is checked in the runs of `PagedStore`, `BoundedRun` and `ResidentAccount`,
whose machines do not stop: `Exited` is the batch's only end. A section that was
refused, or whose questions are used up, a section whose last page is written, and a
conversion that is over do stop, so the other four runs do not check it.

## Findings

* `ReportReadsBack`. The workspace's counters move before the record is stored.
  After one write that throws, and is handled as a page's or an input's failure,
  the report reads an index that has no record and the run ends in a `TypeError`
  and exit code 1 instead of the report, which holds the real cause.
* `InterruptedNoteRemoved`. The documentation says the note being written at
  Ctrl-C is abandoned and removed. Signals are delivered between pages only, so it
  is finished and kept. What holds instead is `OneNoteAfterInterrupt`. For the same
  reason a second Ctrl-C never finds a note open.

* `PeakWithinBudget`. A section that registers with the account and then fails to
  open (no section space, no section node) is never released. Its closed caches
  keep counting beside those of every later section, and the peak the run reports
  can pass the budget the run itself kept.
* `CopiesCounted`. `release` clears the copy counters of the run-long store with
  the section's, and nothing registers it again, so `recordCopyBytes` misses what
  the workspace hands out after the first section.
* `HeldAtOnce`. A refill has its new buffer allocated before the old one is let
  go. The plan leaves less than 4096 bytes unused (`PlanAddsUp`), so with full
  caches the run is over its budget by up to a window while it reads.
  `HeldWithinBudget` is what holds at every other moment.

## Proofs

`PagedStoreProofs` proves `Spec => []IInv` for every set of keys and values, every
hash, every record length, page size, cache size and file limit that satisfies
`SizesAssumption` and `NamesAssumption`. `TypeOK`, `CacheSound`,
`CommittedRecordsSurvive` and `ChainsSound` follow from it.

None of the four is inductive. `IInv` adds: what the file and a cached copy of a
page each hold, and that both count every committed record of the page among their
used bytes (so an append to either lands past them, which is what makes a failed
write harmless); that the walk's cursor and `head` are the bucket's head or a link
inside its chain; that between `WritePage` and `WriteHead` the record at `slot` is
whole and newer than every committed record; and that `replaces` says whether the
key is held. The proof has a lemma per action. Arithmetic on addresses (page and
offset recovered from an address) is a lemma of its own.

`StoreImplementsMap` proves `Spec => ImplementsKeyValueStore`: `Dict`, the value of
each key's newest committed record, changes only at `WriteHead`, and then as
`CommitSet` does; a `get` that stops at a record stops at the newest of its key,
because the chain visits committed records in order and the walk has passed no
other record of that key. `RecordsNeverChange` proves `CommittedForGood`, that no
step changes a committed record; no run has it, as the refinement and
`CommittedRecordsSurvive` together say as much.

`ResidentAccountProofs` first proves the arithmetic: `PlanAddsUp` (every budget of
at least the minimum is divided, with each part at its floor or above, and the
parts add up to it less at most 4095 bytes; so the second refusal in `planBudget`
is unreachable, as its comment supposes) and `CeilingsPaidFor`. The inductive
invariant is `TypeOK`, with `Ceilings` (nothing built or half built is over its
ceiling) and `Registered` (from the conversion store on, the account has the
section's entries and its window). `StaysWithinBudget`, `ValuesPaidFor` and
`PeakCovers` follow for every set of budgets, record lengths, strings and file
sizes that satisfies `BudgetsAssumption` and `SizesAssumption`, and any number of
sections. `PeakCovers` also needs that a failed opening leaves the reading as it
was: the entries it strands add what the open section's added.

`BoundedRunProofs` proves `Spec => []IInv` for every batch of inputs, every set of
files found in the folder, and any number of faults and of signals. It assumes
`BoundsAssumption`, `BatchesAssumption` (a batch and its pages are finite) and that the
modes are among the three of `ModesAssumption`. `IInv` joins `TypeOK` to what the code keeps
true without saying so:

* `CursorSound`: on a page, there is such a page, and an open descriptor belongs to an
  input of the batch.
* `StackSound`, `HeldSound`: each resource is registered once, the workspace's store
  first and the descriptor before what is read through it; and for each place in the
  nest of try blocks, what is open there. `NothingLeft` and `DescriptorOutlives` follow,
  also in the middle of `closeAll`. That taking an entry out of the middle of the stack
  keeps its order is `WithoutOrdered`.
* `NamesSound`: every file of the run has a claimed name, and the name in hand is
  reported nowhere and, until it is opened, is no file's. It rests on `AvailableIsFree`:
  claimed names are finitely many, so the least free number exists, and what `claim`
  returns is not taken.
* `WritersSound`: where a note or an attachment is open and from where it is whole, which
  makes `RecordedOnDisk` inductive. `NoPathTwice` follows from `NamesSound`, as a record
  is added only with the name in hand.
* `LateSound`: once a note was finished after a signal, a signal is pending or
  delivered and no note is in hand. The run cannot pass `StartPage` before the signal
  is delivered, and then it stops there.

The proof has a lemma per part of the invariant and, in it, a step per action. That
`FinishedFilesStay` holds is proved of each step from `IInv`.

`BoundedRunAccounts` proves that `AccountInv` holds beside `IInv`. Neither
`ReportAccounts` nor `ZeroMeansAll` says anything of a run in progress, so the invariant
is about the moment in hand:

* `PresentSound`: the notes and failures recorded since the input's marks were taken are
  that input's, and no page is in both; on the walk over its pages they are exactly the
  pages behind, so a page is counted once whatever is recorded after what. When the
  section is closed, each page to convert is among them, or a failure of the whole
  section is, or the run was stopped, or a failure is still on its way up (`rethrow`).
* `PastSound`: a group once written stands: its slices lie within the lists, the lists
  only grow, and a record that could not be stored (`Missing`) is counted for nothing.
* `BatchSound`: until the run closes down every input it is done with has its group.

`EveryPageAccounted` reads the first property off `PastSound`. `ZeroIsComplete` needs
all three: exit code 0 is settled where no failure is recorded, none was stopped and
every input has a group, and then each group's pages are notes.

`FileConversionProofs` proves `Spec => []IInv` for whatever folders, archives, sections
and options are given: `Inputs` is any set at all, and only `PageLimit` is assumed. The
names have an invariant of their own, `NamesSound`, below.

* `WalkSound`: a walk has met, in its generation, exactly the spaces among the first
  `at` listed, no more than the limit; what was announced is the number of pages to
  convert up to where the first walk ended (`Ended`), which the second never passes, and
  what was attempted the number of those it has left behind. `PagesAreAnnounced`
  follows: two walks that both end, end having met the same spaces, also where the limit
  and not the list ended them.
* `NestSound`: the folder of each level down to `depth` is named after a page filed one
  level up, with none filed higher since (`Heads`). `SubpagesAreFiled` follows with it:
  that page is the last above, and clamping the level to `depth` (`DepthBounds`) never
  reaches a folder that is not there. A level once left is never found again although
  `SubpageLevels` deletes nothing, since what is below `depth` is written before `depth`
  comes back to it.
* `NamesSound`: every file written has, with its folder, its folded name among the names
  claimed (`IsTaken`), and the path about to be created is one no file of its folder has,
  even with other case (`IsFresh`). Between the claim and the creation nothing else is
  written, so the name stays free. `NamesAreFree` follows. That `available` finds a name
  at all is `ChosenIsFree`: the candidates it numbers apart are all different once folded
  (`CandidatesDiffer`), and more of them than names claimed cannot all be taken. For this
  a name must be text and be so wherever it came from, so the rest of `NamesSound` follows
  it: through `sanitize` and `tidy`, from the entries of the folder in hand, the sections
  of an archive, the titles of pages and the paths of levels.

  It assumes that what is given can be read at all (`EntriesLegible`, `InputsListed`: names
  are text, and `compareNames` tells the entries of one folder apart), which TLC evaluates
  for the folders it is given. `NamesAreFree` has one hypothesis of its own,
  `NumeralsDiffer`: different numbers are written differently, and their digits have no
  case. The provers know nothing of `ToString`, which is where this is so.

Both kinds of section fill one index and ask it through one resolver, so what those keep
true is proved once, in `SpaceResolverProofs`, and cited by the proofs of both. Of the
index, that each of its operations keeps `IndexSound`: rows are numbered in order, a
revision lists its own objects and no others, and a table finds the last row with an
identifier (`AddRevisionSound`, `AddObjectSound`, `UpdateObjectSound` and their like). Of
the resolver, that each of its steps keeps `SpacesSound` (`ResolverStep`), whatever the
encoding:

* a space being resolved has a slot of its own, no remembered one; its chain is linked by
  dependencies and names no identifier twice (`Linked`); once it has `Ended`, what is
  applied so far is the newest of what the applied end of the chain says (`Replay`). At
  position zero that is `Whole`, which makes `SpacesAreWhole` inductive. A refused record
  leaves a slot that no cache entry names.
* two associations of two revisions never have one number (`OrdersDistinct`), from which
  `LatestIsOne` concludes `OneIsCurrent`.

`DesktopSectionProofs` proves `Spec => []IInv` of a desktop section for any set of files,
any limits and any number of questions and refused records. It assumes `FilesAssumption`,
that a file is bytes: counts and lengths are numbers, and a reference leads to a fragment,
to nothing or past the end of the file. Nothing is assumed of what lists, transactions,
nodes or property sets say, so every malformed file is in. The rest is that limits are
positive (`ReaderOptions`, `NestingAssumption`), or numbers (`FailuresAssumption`).

* `ListsSound`: the generators of the open lists. An open list has given no more nodes than
  its log committed, and while it gives them, those given and what its fragment may still
  give come to exactly that count (`FrameSound`); before its first fragment is read it has
  no list and has given none. This is what makes `NothingUncommitted` inductive: `#fileNodes`
  checks nothing when it gives a node, it only computes `remaining` when it opens a
  fragment (`onestore-index.ts:485`), and other lists are read in between.
* `TablesSound`: `IndexSound` after every node; and that every association has a number
  from 1 to the number given so far and no two revisions share one (`RolesOrdered`), which
  `OneLatest` rests on, also where an identifier is declared twice.
* `AskingSound`: until the index is finished nothing is asked, so the resolver and the
  property store have no record that a later node could make wrong; from then on the index
  does not change.
* `PropertiesSound`: while a set is walked, its records so far are the last of each
  identifier met and none of any other (`Recorded`), in a slot that no view has; a walk that
  is given up leaves its slot behind, and the next takes a new one. When the walk ends this
  is `ViewsAreWhole`. It needs that a record reads back as what was written, whichever of
  its five optional fields are there (`PropertiesReadBack`, `StreamsReadBack`): a reader one
  flag off would take a field for its neighbour.

`IdentifiersAreKept` is about steps: every node adds rows and entries, and only
`UpdateObject` and the entries of a table rewrite any, those of an object's second
partition, which a desktop section has none of, and those of an index already there, which
`ReadGlobalIdEntry` refuses. The theorems are about `DesktopSection`; the run checks it with
two history variables of `SameDesktop` beside it, which nothing reads back.

`PackagedSectionProofs` proves `Spec => []IInv` of a packaged section for any set of
packages at all, well formed or not, any limits and any number of refused records. It
assumes `DepthAssumption` (the nesting limit is positive) and `NoTypeAssumption`
(that something is absent is told from every element and section type). The
inputs `SamePackage` must leave out, such as an identifier given twice, are in.

* `IndexerSound`: the handlers set what they know of their place at start events and
  clear it at end events, so it is sound only against the number of open objects
  (`ReaderFits`): above the third there is no element and no section, below it a section
  is in an object group whose number is in the tables, and a revision manifest is filling
  the revision added last. That no event takes the walk past `MaxDepth + 1` is here too.
  Of the index, `IndexSound` holds after every event and every merged partition.
  `RevisionsListTheirOwn` states it. Objects of a revision are found through its list, so
  that an identity has one object in it is what makes a second partition go to the object
  of the first.
* `PhaseSound`: nothing is asked until every revision has its place. From then on the
  index does not change, and this is why what was answered stays right. Associations are
  numbered as cells place them (`CellsSound`), and `HeadsAreCurrent` follows.
* `PairingSound`: the streams before the one being paired are `Complete` in the table,
  and of this one the places before `position`; each place is `Settled` for good because
  an entry once written is never replaced by another identifier. Where arrays do not pair
  (`Misfit`) they never will, so a refused object is never marked. `MarksComeLast`
  follows, also where pairing is tried again over what a failure left.

The runs check each shared property in one of the two sections only (`TablesAgree` and
`SpacesAreWhole` in `section_index`, `OneIsCurrent` in `package_index`); the theorems state
them of both. The types of `BoundedRun` and of `DesktopSection` are proved
(`TypeCorrect`, `SectionTypes`) and no run repeats them.

Only model-checked:

* `RequestsEnd` and `Terminates`: liveness is out of the prover's reach.
* The comparisons with the eager path (`SameIndex`, `SameAnswers`, `SamePage`, `SameNotes`):
  they rest on recursive operators over whole files, which is what induction over data would
  be needed for. Of what an answer must be in itself, without the eager path, the theorems
  about both sections say what can be said: it is whole, current and about the right object.
* `SpillsReadBack` and `HeldWithin`: the filters and the spools' writer are folds over the
  pieces of a page's text, one within another, so what they hold or give back after any
  text is induction over that text.

## Not modelled

* Cabinet and LZX, the binary cursors, the file header and the encodings of text and
  numbers: sequential functions of one byte string. A character cut by a chunk's end
  belongs here too.
* The JSON report's wording and the texts of errors. What the report reads back is
  `ReportReadsBack` in `BoundedRun`.
* Reading a OneNote package's table of contents and probing a backup folder: an
  archive is given as its sections' paths.
* Argument parsing, `--list`, and inputs that do not exist.
* `MemorySink`, which keeps what it is given; the `ValueMeter`, which observes
  lengths and decides nothing; the store's statistics other than its high-water
  marks; its constructor's roll-back; an index's statistics and closing.
* The title's ceilings and the typed readers of times, sizes and colours.
* `skills/onenote-to-markdown/one2md.mjs` is the build's bundle of the same sources.

## Plan

1. `PagedStore` with its proofs: done.
2. `BoundedRun` with `OutputSink` and `Workspace`: done, with its nine safety
   properties proved.
3. Names, subpage folders and the conversion around a page, against the eager path:
   done, with the walks, the levels and the names proved.
4. Spools, spills, filters and the page renderer, against the eager path: done. Left:
   the title's ceilings. That the spills read back what was written, in bounded memory,
   stays with TLC.
5. The indexers, the resolver and the property store, against the eager readers: done,
   with the index, the spaces and the identifiers of both encodings and the property sets
   of a desktop section proved. The comparison itself stays with TLC.
6. The budget's arithmetic and `ResidentAccount` with their proofs: done. Left:
   what a `ByteWindow`'s peeks answer, and `StreamSection.open` without an
   `onOpen`.
