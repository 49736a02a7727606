---------------------------- MODULE MCBoundedRun ----------------------------
(* Batches small enough for TLC that meet every kind of input and page. *)
EXTENDS BoundedRun

PageOf(embeds) == [title |-> "A", embeds |-> embeds, deleted |-> FALSE]
Deleted == [title |-> "B", embeds |-> "nothing", deleted |-> TRUE]
Bad(kind) == [kind |-> kind, title |-> "S", pages |-> <<>>]
Section(pages) == [kind |-> "section", title |-> "S", pages |-> pages]

\* One section with two pages of one title and one image, beside a section that
\* claims its name; and each way an input is refused, fails or holds nothing.
MCBatches ==
  {<<>>,
   <<Section(<<PageOf("x"), PageOf("x")>>), Bad("malformed")>>,
   <<Section(<<PageOf("nothing")>>), Section(<<PageOf("x")>>)>>,
   <<Bad("archive"), Section(<<Deleted, PageOf("noData")>>)>>,
   <<Bad("misnamedArchive"), Bad("missing")>>,
   <<Bad("noSection")>>}

\* The folder is empty, or holds a file by the name of the first page's note or
\* of its image.
FirstSection == [dir |-> Root, name |-> "S", copy |-> 0]
MCFound ==
  {{}, {[dir |-> FirstSection, name |-> "A", copy |-> 0]},
   {[dir |-> [dir |-> FirstSection, name |-> "attachments", copy |-> 0],
     name |-> "image", copy |-> 0]}}
=============================================================================
