-------------------------- MODULE MCFileConversion --------------------------
(***************************************************************************)
(* Inputs for SameConversion: families of folders, each about one thing    *)
(* the two paths must agree on.  A character is a string; "md", "con" and  *)
(* "Untitled" are characters too.                                          *)
(***************************************************************************)
EXTENDS SameConversion

Plain ==
  [resolves |-> TRUE, manifest |-> TRUE, node |-> TRUE, cached |-> <<"A">>, titleOnPage |-> None,
   titleText |-> <<>>, level |-> None, created |-> 1, revised |-> None, modified |-> 2,
   conflict |-> None, conflictRoot |-> FALSE, deleted |-> FALSE, embeds |-> None, broken |-> "no"]
Titled(title) == [Plain EXCEPT !.cached = title]
Ids == <<"p1", "p2", "p3", "p4", "p5">>

Holding(name, series, spaces) == [opens |-> TRUE, name |-> name, series |-> series, spaces |-> spaces]
\* A section of these pages, in this order.
Of(name, pages) ==
  Holding(name, <<[isSeries |-> TRUE, pages |-> SubSeq(Ids, 1, Len(pages))]>>,
          [id \in {Ids[i] : i \in DOMAIN pages} |-> pages[CHOOSE i \in DOMAIN pages : Ids[i] = id]])
Single == Of(<<>>, <<Plain>>)

FileAt(locale, units, f) ==
  [locale |-> locale, units |-> units, isDirectory |-> FALSE, ours |-> TRUE, file |-> f]
DirectoryAt(locale, units, inside) ==
  [locale |-> locale, units |-> units, isDirectory |-> TRUE, entries |-> inside]
NotOurs == [FileAt(0, 0, <<>>) EXCEPT !.ours = FALSE]
SectionFile(name, section) == [kind |-> "section", name |-> name, section |-> section]
Archived(name, sections) == [kind |-> "archive", name |-> name, opens |-> TRUE, sections |-> sections]
In(path, section) == [path |-> path, section |-> section]

Default ==
  [nestSubpages |-> TRUE, includeDeleted |-> FALSE, frontmatter |-> TRUE, attachments |-> TRUE,
   attachmentsDir |-> <<"f">>, notebookName |-> None, wanted |-> {}, bounded |-> FALSE,
   chunked |-> TRUE, stops |-> FALSE]
Given(files, opts, folds) == [entries |-> files, options |-> opts, folds |-> folds]
OneSection(section, opts, folds) == Given({FileAt(1, 1, SectionFile(<<"S">>, section))}, opts, folds)

-----------------------------------------------------------------------------
\* Titles: of one folder but for case, numbered already, blank, with what a path may
\* not have, too long.
SomeTitles ==
  {<<"A">>, <<"a">>, <<"A", " ", "1">>, <<"A", ".", "B">>, <<"A", ".">>, <<"A", "/", "B">>,
   <<"con">>, <<>>, <<" ">>, <<"A", "B", " ", "b", "b", "b">>, <<" ", "b", "b", "b", "b", "b">>,
   <<"A", "B", "b", "b", "b", "b">>, <<".", "#", "A">>, <<"?", "[", "A", ":">>}
Titles ==
  {OneSection(Of(<<>>, <<Titled(a), Titled(b), Titled(c)>>), Default, folds) :
     a \in SomeTitles, b \in SomeTitles, c \in {<<"A">>, <<"a">>, <<"A", " ", "2">>}, folds \in {TRUE}}

\* Where a title is: cached on the series or the page, or in title nodes; a cached
\* title of spaces alone gives way to the nodes.
TitleSources ==
  {OneSection(Of(name, <<[Plain EXCEPT !.cached = t[1], !.titleOnPage = t[2], !.titleText = t[3],
                                       !.revised = r, !.conflict = c, !.conflictRoot = TRUE]>>),
              [Default EXCEPT !.frontmatter = fm], FALSE) :
     name \in {<<>>, <<"B">>}, r \in {None, 3}, c \in {None, FALSE}, fm \in BOOLEAN,
     t \in {None, <<>>, <<" ">>, <<"A">>} \X {None, <<>>, <<"B">>} \X {<<"b">>}}

\* Subpages: every order of three levels, one page perhaps deleted; and a note with
\* the path of a folder of subpages, the one or the other first.
Levels == {1, 2, 3}
Subpages ==
  {OneSection(Of(<<>>, [i \in 1..4 |-> [Plain EXCEPT !.level = levels[i], !.deleted = i = deleted]]),
              [Default EXCEPT !.includeDeleted = include, !.nestSubpages = nest], FALSE) :
     levels \in Levels \X Levels \X Levels \X Levels, deleted \in {0, 2, 3}, include \in BOOLEAN,
     nest \in {TRUE}}
    \cup {OneSection(Of(<<>>, <<Plain, [Plain EXCEPT !.level = 2]>>),
                     [Default EXCEPT !.nestSubpages = FALSE], FALSE)}
Clashes ==
  {OneSection(Of(<<>>, [i \in 1..3 |-> [Titled(titles[i]) EXCEPT !.level = levels[i]]]),
              [Default EXCEPT !.chunked = chunked], folds) :
     titles \in [1..3 -> {<<"A">>, <<"a", ".", "md">>, <<"A", ".", "md">>}],
     levels \in {<<1, 2, 1>>, <<1, 1, 2>>, <<1, 2, 2>>}, chunked \in BOOLEAN, folds \in BOOLEAN}

\* What the page series list: a space twice, in two of them, in an object that is none,
\* more than the limit, and spaces that are no page.
Lists12 == {<<"p1">>, <<"p1", "p2">>, <<"p2", "p1", "p2">>, <<"p1", "p2", "p3", "p4", "p5">>}
NoPages ==
  {Plain, [Plain EXCEPT !.resolves = FALSE], [Plain EXCEPT !.manifest = FALSE],
   [Plain EXCEPT !.node = FALSE], [Plain EXCEPT !.deleted = TRUE]}
Listings ==
  {OneSection(Holding(<<>>, <<[isSeries |-> series, pages |-> first], [isSeries |-> TRUE, pages |-> second]>>,
                      [id \in Range(Ids) |-> IF id = "p2" THEN space ELSE Plain]),
              [Default EXCEPT !.includeDeleted = include, !.stops = stops], FALSE) :
     series \in BOOLEAN, first \in Lists12, second \in Lists12, space \in NoPages,
     include \in BOOLEAN, stops \in BOOLEAN}

\* Attachments: bytes met before under another name, none, not wanted, of a kind their
\* name does not tell, and one named as the note of the page after it.
Asset(digest, name, sniffed) == [digest |-> digest, name |-> name, sniffed |-> sniffed]
Assets ==
  {None, Asset("d1", <<"A">>, <<"b">>), Asset("d1", <<"a", ".", "b">>, <<>>),
   Asset("d2", <<"a">>, <<"b">>), Asset("d2", <<"A", ".", "md">>, <<>>), Asset(None, <<"B">>, <<>>)}
WithAssets ==
  {OneSection(Of(<<>>, <<[Plain EXCEPT !.embeds = first, !.level = 1], [Plain EXCEPT !.embeds = second,
                                                                        !.level = level]>>),
              [Default EXCEPT !.attachmentsDir = dir, !.attachments = on, !.chunked = chunked,
                              !.stops = on], TRUE) :
     first \in Assets, second \in Assets \ {None}, level \in {1, 2}, dir \in {<<>>, <<"f">>, <<"A">>},
     on \in BOOLEAN, chunked \in BOOLEAN}

\* A note has the path of the folder the next page's attachment is to go to.
InTheWay ==
  {OneSection(Of(<<>>, <<Plain, [Titled(<<"B">>) EXCEPT !.embeds = Asset("d1", <<"A">>, <<>>)]>>),
              [Default EXCEPT !.attachmentsDir = <<"A", ".", "md">>, !.chunked = chunked], FALSE) :
     chunked \in BOOLEAN}

\* A page, or a section, that cannot be read.
Broken ==
  {OneSection([Of(<<>>, <<Plain, [Plain EXCEPT !.broken = broken, !.embeds = embeds,
                                              !.node = node], Plain>>)
                 EXCEPT !.opens = opens],
              [Default EXCEPT !.chunked = chunked, !.stops = TRUE], FALSE) :
     broken \in {"metadata", "title", "body"}, embeds \in {None, Asset("d1", <<"A">>, <<>>)},
     node \in BOOLEAN, opens \in BOOLEAN, chunked \in BOOLEAN}

-----------------------------------------------------------------------------
\* Files: what becomes a notebook's folder, its groups' and its sections', and an
\* attachment whose folder is a note.
Empty == Of(<<>>, <<>>)
Closed == [Single EXCEPT !.opens = FALSE]
Sections ==
  {<<>>, <<In(<<<<"S">>>>, Single)>>, <<In(<<<<"G">>, <<"S">>>>, Single)>>,
   <<In(<<<<"S">>>>, Single), In(<<<<"s">>>>, Single), In(<<<<"S", ".", "B">>>>, Closed)>>,
   <<In(<<<<"G">>, <<"S">>>>, Single), In(<<<<"g">>, <<"S">>>>, Single)>>,
   <<In(<<<<".">>, <<>>, <<"G">>, <<"S">>>>, Empty), In(<<<<"G">>, <<"S">>>>, Of(<<"s">>, <<Plain>>))>>}
Archives ==
  {Given({FileAt(1, 1, Archived(<<"B">>, sections))},
         [Default EXCEPT !.notebookName = name, !.wanted = wanted, !.stops = stops, !.bounded = bounded],
         folds) :
     sections \in Sections, name \in {None, <<"A", "?">>}, folds \in BOOLEAN, stops \in BOOLEAN,
     wanted \in {{}, {<<<<"G">>, <<"S">>>>}}, bounded \in BOOLEAN}
Refusals ==
  {Given({FileAt(1, 1, refused), FileAt(2, 2, SectionFile(<<"S">>, Single))},
         [Default EXCEPT !.bounded = bounded], FALSE) :
     refused \in {[Archived(<<"B">>, <<>>) EXCEPT !.opens = FALSE],
                  [kind |-> "compound", name |-> <<"B">>, streams |-> <<"a", "EncryptedPackage">>],
                  [kind |-> "compound", name |-> <<"B">>, streams |-> <<>>]},
     bounded \in BOOLEAN}

\* Folders: names a locale takes for one, one in another, what is no file of ours.
Loose(name) == SectionFile(name, Single)
Folders ==
  {Given({NotOurs, FileAt(1, order[1], Loose(<<"S">>)), FileAt(1, order[2], Loose(<<"s">>)),
          DirectoryAt(level, order[3],
            {FileAt(2, 1, Loose(<<"S">>)), FileAt(2, 2, Loose(<<"B">>)), DirectoryAt(1, 1, {})})},
         [Default EXCEPT !.stops = stops], folds) :
     order \in {<<1, 2, 3>>, <<2, 1, 3>>, <<2, 3, 1>>}, level \in {0, 1, 2}, stops \in BOOLEAN,
     folds \in BOOLEAN}

MCInputs ==
  UNION {Titles, TitleSources, Subpages, Clashes, Listings, WithAssets, InTheWay, Broken, Archives, Refusals,
         Folders}

\* No folder here is more than one below another.
AtTop == UNION {input.entries : input \in MCInputs}
MCEntries == AtTop \cup UNION {e.entries : e \in {d \in AtTop : d.isDirectory}}
=============================================================================
