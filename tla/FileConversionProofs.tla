------------------------ MODULE FileConversionProofs ------------------------
(***************************************************************************)
(* Theorems about FileConversion, for whatever folders are given: that the *)
(* two walks over a section find the same pages, that a subpage is filed   *)
(* below the page it belongs to, and that the name a note or an attachment *)
(* is given is one that no file of its folder has.                         *)
(***************************************************************************)
EXTENDS FileConversion, FiniteSetTheorems, NaturalsInduction, SequenceTheorems,
        WellFoundedInduction, TLAPS

-----------------------------------------------------------------------------
\* The inductive invariant

\* Where the conversion of a section stands: the walk that counts its pages, the one
\* that converts them, with a note in hand.
Counting == {"count", "countPage"}
OnNote == {"openNote", "body", "saveAsset", "finishNote", "level"}
Converting == OnNote \cup {"pages", "readPage", "page"}

\* The spaces among the first so many listed, those of them that are to be pages, and
\* how many of what is listed the walk has left behind.
Among(n) == {Listed[j] : j \in 1..n}
Wanted(spaces) == {s \in spaces : Counts(Section.spaces[s])}
Behind == IF pc \in {"count", "pages"} THEN at ELSE at - 1

\* A walk ends where nothing is listed any more, or at the limit.
Ended(n) ==
  /\ 1..n \subseteq DOMAIN Listed /\ Cardinality(Among(n)) <= MaxPageGraphNodes
  /\ n + 1 \notin DOMAIN Listed \/ Cardinality(Among(n)) >= MaxPageGraphNodes

\* A walk has met what is listed as far as it got, and nothing else; what was announced
\* is what the first walk met up to its end, which the second one never passes.
WalkSound ==
  /\ walks \in Nat /\ \A s \in seen : s.walk \in 0..walks
  /\ pc \in Counting \cup Converting =>
       /\ at \in Nat /\ 1..at \subseteq DOMAIN Listed
       /\ Met(walks) = Among(at) /\ Cardinality(Among(at)) <= MaxPageGraphNodes
       /\ pc \notin {"count", "pages"} => at >= 1 /\ Listed[at] \notin Among(at - 1)
  /\ pc \in Counting => total = Cardinality(Wanted(Among(Behind))) /\ done = 0
  /\ pc \in Converting =>
       /\ \E end \in Nat : Ended(end) /\ at <= end /\ total = Cardinality(Wanted(Among(end)))
       /\ done = Cardinality(Wanted(Among(Behind)))
  /\ pc = "page" => IsPage(Space) /\ page.deleted = Space.deleted
  /\ pc \in OnNote => Counts(Space)

\* The folder of a level is named after the last page filed one level up, and no page
\* was filed above it since.
Heads(j, level) ==
  /\ filed[j].depth = level - 1 /\ folders[level] = Append(filed[j].folder, filed[j].stem)
  /\ \A k \in j+1..Len(filed) : filed[k].depth >= level
NestSound ==
  /\ \E S : filed \in Seq(S)
  /\ \A i \in 1..Len(filed) : filed[i].depth \in Nat /\ filed[i].level \in Nat
  /\ pc = "page" => page.level \in Nat
  /\ pc \in Counting => filed = <<>>
  /\ pc \in Counting \cup Converting =>
       /\ depth \in Nat /\ 0..depth \subseteq DOMAIN folders
       /\ IF filed = <<>> THEN depth = 0 ELSE filed[1].folder = folders[0]
       /\ options.nestSubpages =>
            /\ \A level \in 1..depth : \E j \in 1..Len(filed) : Heads(j, level)
            /\ filed # <<>> /\ pc \notin OnNote => depth = filed[Len(filed)].depth + 1
  /\ pc \in OnNote =>
       /\ filed # <<>> /\ depth = filed[Len(filed)].depth
       /\ Folder = filed[Len(filed)].folder /\ Stem(Last(note)) = filed[Len(filed)].stem

IInv == WalkSound /\ NestSound /\ UnderItsParent

-----------------------------------------------------------------------------
\* What is listed

\* There are finitely many spaces among those listed so far, and one more is one more.
LEMMA AmongFinite ==
  ASSUME NEW n \in Nat
  PROVE  /\ IsFiniteSet(Among(n)) /\ Cardinality(Among(n)) \in Nat
         /\ IsFiniteSet(Wanted(Among(n))) /\ Cardinality(Wanted(Among(n))) \in Nat
<1> DEFINE f == [j \in 1..n |-> Listed[j]]
<1>1. IsFiniteSet(1..n)
  BY FS_Interval
<1>2. f \in Surjection(1..n, Among(n))
  BY DEF Among, Surjection
<1>3. IsFiniteSet(Among(n))
  BY <1>1, <1>2, FS_Surjection
<1>4. IsFiniteSet(Wanted(Among(n)))
  BY <1>3, FS_Subset DEF Wanted
<1>. QED  BY <1>3, <1>4, FS_CardinalityType

LEMMA AmongNext ==
  ASSUME NEW n \in Nat
  PROVE  /\ Among(n + 1) = Among(n) \cup {Listed[n + 1]}
         /\ \A m \in 0..n : Among(m) \subseteq Among(n)
<1>1. 1..n+1 = (1..n) \cup {n + 1}
  OBVIOUS
<1>2. \A m \in 0..n : 1..m \subseteq 1..n
  OBVIOUS
<1>. QED  BY <1>1, <1>2 DEF Among

\* A space met for the first time counts if it is to be a page.
LEMMA WantedNext ==
  ASSUME NEW n \in Nat, n >= 1, Listed[n] \notin Among(n - 1)
  PROVE  /\ Cardinality(Among(n)) = Cardinality(Among(n - 1)) + 1
         /\ Cardinality(Wanted(Among(n))) = IF Counts(Section.spaces[Listed[n]])
                                            THEN Cardinality(Wanted(Among(n - 1))) + 1
                                            ELSE Cardinality(Wanted(Among(n - 1)))
<1>1. n - 1 \in Nat /\ (n - 1) + 1 = n
  OBVIOUS
<1>2. Among(n) = Among(n - 1) \cup {Listed[n]}
  BY <1>1, AmongNext
<1>3. IsFiniteSet(Among(n - 1)) /\ IsFiniteSet(Wanted(Among(n - 1)))
  BY <1>1, AmongFinite
<1>4. Cardinality(Among(n)) = Cardinality(Among(n - 1)) + 1
  BY <1>2, <1>3, FS_AddElement
<1>5. CASE Counts(Section.spaces[Listed[n]])
  <2>1. Wanted(Among(n)) = Wanted(Among(n - 1)) \cup {Listed[n]}
    BY <1>2, <1>5 DEF Wanted
  <2>2. Listed[n] \notin Wanted(Among(n - 1))
    BY DEF Wanted
  <2>3. Cardinality(Wanted(Among(n))) = Cardinality(Wanted(Among(n - 1))) + 1
    BY <1>3, <2>1, <2>2, FS_AddElement
  <2>. QED  BY <1>4, <1>5, <2>3
<1>6. CASE ~Counts(Section.spaces[Listed[n]])
  <2>1. Wanted(Among(n)) = Wanted(Among(n - 1))
    BY <1>2, <1>6 DEF Wanted
  <2>. QED  BY <1>4, <1>6, <2>1
<1>. QED  BY <1>5, <1>6

\* As long as the section is the same, so is what it lists.
LEMMA SameSection ==
  ASSUME UNCHANGED <<given, sources, source>>
  PROVE  /\ Listed' = Listed /\ Section' = Section
         /\ \A n : Among(n)' = Among(n) /\ Wanted(Among(n))' = Wanted(Among(n))
         /\ \A n : Ended(n)' <=> Ended(n)
         /\ \A space : Counts(space)' <=> Counts(space)
<1>1. Section' = Section /\ options' = options
  BY DEF Section, Source, options
<1>2. Listed' = Listed
  BY <1>1 DEF Listed
<1>3. \A n : Among(n)' = Among(n)
  BY <1>2 DEF Among
<1>4. \A space : Counts(space)' <=> Counts(space)
  BY <1>1 DEF Counts
<1>5. \A n : Wanted(Among(n))' = Wanted(Among(n))
  BY <1>1, <1>3, <1>4 DEF Wanted
<1>6. \A n : Ended(n)' <=> Ended(n)
  BY <1>2, <1>3 DEF Ended
<1>. QED  BY <1>1, <1>2, <1>3, <1>4, <1>5, <1>6

-----------------------------------------------------------------------------
\* The walks

\* Nothing is said of a walk between sections.
LEMMA WalkAside ==
  ASSUME WalkSound, walks' = walks, seen' = seen \/ seen' = {},
         pc' \notin Counting \cup Converting
  PROVE  WalkSound'
<1>1. pc' # "page" /\ pc' \notin OnNote
  BY DEF Converting
<1>. QED  BY <1>1 DEF WalkSound

\* Nor does what happens to a page, once it is known for one, move its walk.
LEMMA WalkStays ==
  ASSUME WalkSound, UNCHANGED <<given, sources, source, walks, at, seen, total, done>>,
         \/ pc' = pc /\ page' = page
         \/ pc' \in OnNote /\ pc \in OnNote
         \/ pc' \in OnNote /\ pc = "page" /\ Counts(Space)
         \/ pc' = "page" /\ pc = "readPage" /\ IsPage(Space) /\ page'.deleted = Space.deleted
  PROVE  WalkSound'
<1> USE DEF Counting, Converting, OnNote
<1>1. /\ Listed' = Listed /\ Section' = Section
      /\ \A n : Among(n)' = Among(n) /\ Wanted(Among(n))' = Wanted(Among(n))
      /\ \A n : Ended(n)' <=> Ended(n)
      /\ \A space : Counts(space)' <=> Counts(space)
  BY SameSection
<1>2. Space' = Space /\ (Counts(Space)' <=> Counts(Space))
  BY <1>1 DEF Space, Counts, options
<1>3. CASE pc' \notin Counting \cup Converting
  BY <1>3, WalkAside
<1>4. CASE pc' \in Counting \cup Converting
  <2>1. pc \in Counting \cup Converting /\ (pc' \in Counting <=> pc \in Counting)
        /\ (pc' \in {"count", "pages"} <=> pc \in {"count", "pages"})
    BY <1>4
  <2>2. Behind' = Behind
    BY <2>1 DEF Behind
  <2>3. /\ Among(at)' = Among(at) /\ Among(at - 1)' = Among(at - 1)
        /\ Wanted(Among(Behind))' = Wanted(Among(Behind)) /\ Met(walks)' = Met(walks)
    BY <1>1, <2>2 DEF Among, Wanted, Met, Counts, options
  <2>4. /\ walks' \in Nat /\ \A s \in seen' : s.walk \in 0..walks'
        /\ at' \in Nat /\ 1..at' \subseteq DOMAIN Listed'
        /\ Met(walks)' = Among(at)' /\ Cardinality(Among(at)') <= MaxPageGraphNodes
        /\ pc' \notin {"count", "pages"} => at' >= 1 /\ Listed'[at'] \notin Among(at - 1)'
    BY <1>1, <2>1, <2>3 DEF WalkSound
  <2>5. /\ pc' \in Counting => total' = Cardinality(Wanted(Among(Behind))') /\ done' = 0
        /\ pc' \in Converting =>
             /\ \E end \in Nat : /\ Ended(end)' /\ at' <= end
                                 /\ total' = Cardinality(Wanted(Among(end))')
             /\ done' = Cardinality(Wanted(Among(Behind))')
    BY <1>1, <2>1, <2>3 DEF WalkSound
  <2>6. /\ pc' = "page" => IsPage(Space)' /\ page'.deleted = Space'.deleted
        /\ pc' \in OnNote => Counts(Space)'
    BY <1>2 DEF WalkSound, IsPage
  <2>. QED  BY <2>4, <2>5, <2>6 DEF WalkSound
<1>. QED  BY <1>3, <1>4

\* One more of what is listed: met before, or met now.  The second walk stays behind
\* where the first one ended.
LEMMA WalkOn ==
  ASSUME WalkSound, pc \in {"count", "pages"}, ~AtEnd, at' = at + 1,
         UNCHANGED <<given, sources, source, walks, total, done>>,
         \/ Listed[at + 1] \in Met(walks) /\ seen' = seen /\ pc' = pc
         \/ /\ Listed[at + 1] \notin Met(walks)
            /\ seen' = seen \cup {[walk |-> walks, space |-> Listed[at + 1]]}
            /\ pc' = IF pc = "count" THEN "countPage" ELSE "readPage"
  PROVE  WalkSound'
<1> USE DEF Counting, Converting, OnNote
<1>1. /\ Listed' = Listed
      /\ \A n : Among(n)' = Among(n) /\ Wanted(Among(n))' = Wanted(Among(n))
      /\ \A n : Ended(n)' <=> Ended(n)
  BY SameSection
<1>2. /\ walks \in Nat /\ \A s \in seen : s.walk \in 0..walks
      /\ at \in Nat /\ 1..at \subseteq DOMAIN Listed /\ Met(walks) = Among(at)
      /\ at + 1 \in DOMAIN Listed
  BY DEF WalkSound, AtEnd
<1>3. Cardinality(Among(at)) \in Nat /\ Cardinality(Among(at)) + 1 <= MaxPageGraphNodes
  BY <1>2, AmongFinite, PageLimit DEF AtEnd
<1>4. Among(at + 1) = Among(at) \cup {Listed[at + 1]}
  BY <1>2, AmongNext
<1>5. /\ Among(at)' = Among(at + 1) /\ Among(at - 1)' = Among(at)
      /\ Wanted(Among(at))' = Wanted(Among(at + 1))
  <2>1. at' - 1 = at
    BY <1>2
  <2>. QED  BY <1>1, <2>1, SameSection DEF Among, Wanted
<1>6. Met(walks)' = Among(at + 1)
  <2>1. [walk |-> walks, space |-> Listed[at + 1]].walk = walks
        /\ [walk |-> walks, space |-> Listed[at + 1]].space = Listed[at + 1]
    OBVIOUS
  <2>. QED  BY <1>2, <1>4, <2>1 DEF Met
<1>7. /\ walks' \in Nat /\ \A s \in seen' : s.walk \in 0..walks'
      /\ at' \in Nat /\ 1..at' \subseteq DOMAIN Listed'
  BY <1>1, <1>2
<1>8. pc = "pages" => \E end \in Nat : /\ Ended(end)' /\ at' <= end
                                        /\ total' = Cardinality(Wanted(Among(end))')
  <2> SUFFICES ASSUME pc = "pages"
               PROVE  \E end \in Nat : /\ Ended(end)' /\ at' <= end
                                        /\ total' = Cardinality(Wanted(Among(end))')
    OBVIOUS
  <2>1. PICK end \in Nat : /\ Ended(end) /\ at <= end
                           /\ total = Cardinality(Wanted(Among(end)))
    BY DEF WalkSound
  <2>2. at # end
    BY <1>2, <2>1 DEF Ended, AtEnd
  <2>3. at' <= end
    BY <1>2, <2>1, <2>2
  <2>. QED  BY <1>1, <2>1, <2>3
<1>9. CASE Listed[at + 1] \in Met(walks) /\ seen' = seen /\ pc' = pc
  <2>1. Among(at + 1) = Among(at)
    BY <1>2, <1>4, <1>9
  <2>2. Wanted(Among(Behind))' = Wanted(Among(Behind))
    BY <1>1, <1>5, <1>9, <2>1, SameSection DEF Behind, Wanted, Among
  <2>3. Met(walks)' = Among(at)' /\ Cardinality(Among(at)') <= MaxPageGraphNodes
    BY <1>3, <1>5, <1>6, <2>1, PageLimit
  <2>4. /\ pc' \in Counting => total' = Cardinality(Wanted(Among(Behind))') /\ done' = 0
        /\ pc' \in Converting => done' = Cardinality(Wanted(Among(Behind))')
    BY <1>9, <2>2 DEF WalkSound
  <2>. QED  BY <1>7, <1>8, <1>9, <2>3, <2>4 DEF WalkSound
<1>10. CASE /\ Listed[at + 1] \notin Met(walks)
            /\ pc' = IF pc = "count" THEN "countPage" ELSE "readPage"
  <2>1. Listed[at + 1] \notin Among(at)
    BY <1>2, <1>10
  <2>2. Cardinality(Among(at + 1)) <= MaxPageGraphNodes
    <3>1. at + 1 \in Nat /\ at + 1 >= 1 /\ (at + 1) - 1 = at
      BY <1>2
    <3>2. Cardinality(Among(at + 1)) = Cardinality(Among(at)) + 1
      BY <2>1, <3>1, WantedNext
    <3>. QED  BY <1>3, <3>2
  <2>3. Met(walks)' = Among(at)' /\ Cardinality(Among(at)') <= MaxPageGraphNodes
    BY <1>5, <1>6, <2>2
  <2>4. at' >= 1 /\ Listed'[at'] \notin Among(at - 1)'
    BY <1>1, <1>2, <1>5, <2>1
  <2>5. Wanted(Among(Behind))' = Wanted(Among(Behind))
    <3>1. Behind' = at /\ Behind = at
      BY <1>2, <1>10 DEF Behind
    <3>. QED  BY <1>1, <3>1, SameSection DEF Wanted, Among
  <2>6. /\ pc' \in Counting => total' = Cardinality(Wanted(Among(Behind))') /\ done' = 0
        /\ pc' \in Converting => done' = Cardinality(Wanted(Among(Behind))')
    BY <1>10, <2>5 DEF WalkSound
  <2>. QED  BY <1>7, <1>8, <1>10, <2>3, <2>4, <2>6 DEF WalkSound
<1>. QED  BY <1>9, <1>10

\* A walk begins, having met nothing: the first one, or the second one where the first
\* has ended, in a generation of its own.
LEMMA WalkBegins ==
  ASSUME WalkSound, walks' = walks + 1, at' = 0, done' = 0,
         \/ seen' = {} /\ pc' = "count" /\ total' = 0
         \/ /\ pc = "count" /\ AtEnd /\ pc' = "pages"
            /\ UNCHANGED <<given, sources, source, seen, total>>
  PROVE  WalkSound'
<1> USE DEF Counting, Converting, OnNote
<1>1. walks \in Nat /\ \A s \in seen : s.walk \in 0..walks
  BY DEF WalkSound
<1>2. /\ walks' \in Nat /\ \A s \in seen' : s.walk \in 0..walks'
      /\ at' \in Nat /\ 1..at' \subseteq DOMAIN Listed'
  BY <1>1
<1>3. Among(at)' = {} /\ Wanted(Among(Behind))' = {} /\ Met(walks)' = {}
  BY <1>1 DEF Among, Wanted, Behind, Met
<1>4. Cardinality({}) = 0 /\ 0 <= MaxPageGraphNodes
  BY FS_EmptySet, PageLimit
<1>5. CASE pc' = "count" /\ total' = 0
  BY <1>2, <1>3, <1>4, <1>5 DEF WalkSound
<1>6. CASE /\ pc = "count" /\ AtEnd /\ pc' = "pages"
           /\ UNCHANGED <<given, sources, source, seen, total>>
  <2>1. Ended(at) /\ total = Cardinality(Wanted(Among(at))) /\ at \in Nat
    BY <1>6 DEF WalkSound, Ended, AtEnd, Behind
  <2>2. \E end \in Nat : /\ Ended(end)' /\ at' <= end
                         /\ total' = Cardinality(Wanted(Among(end))')
    BY <1>6, <2>1, SameSection
  <2>. QED  BY <1>2, <1>3, <1>4, <1>6, <2>2 DEF WalkSound
<1>. QED  BY <1>5, <1>6

\* The page in hand is behind: announced, converted, or passed over for what it is.
LEMMA WalkPast ==
  ASSUME WalkSound, pc \in Counting \cup Converting, pc \notin {"count", "pages"},
         UNCHANGED <<given, sources, source, walks, at, seen>>,
         pc' = IF pc \in Counting THEN "count" ELSE "pages",
         pc \in Counting =>
           total' = (IF Counts(Space) THEN total + 1 ELSE total) /\ done' = done,
         pc \in Converting =>
           total' = total /\ done' = (IF Counts(Space) THEN done + 1 ELSE done)
  PROVE  WalkSound'
<1> USE DEF Counting, Converting, OnNote
<1>1. /\ Listed' = Listed
      /\ \A n : Among(n)' = Among(n) /\ Wanted(Among(n))' = Wanted(Among(n))
      /\ \A n : Ended(n)' <=> Ended(n)
  BY SameSection
<1>2. /\ at \in Nat /\ at >= 1 /\ Listed[at] \notin Among(at - 1) /\ Behind = at - 1
      /\ pc' \in {"count", "pages"}
  BY DEF WalkSound, Behind
<1>3. Cardinality(Wanted(Among(at))) = IF Counts(Space)
                                       THEN Cardinality(Wanted(Among(Behind))) + 1
                                       ELSE Cardinality(Wanted(Among(Behind)))
  BY <1>2, WantedNext DEF Space
<1>4. Behind' = at /\ Among(at)' = Among(at) /\ Met(walks)' = Met(walks)
  BY <1>1, <1>2 DEF Behind, Among, Met
<1>5. Wanted(Among(Behind))' = Wanted(Among(at))
  BY <1>1, <1>4, SameSection DEF Wanted, Among
<1>6. /\ pc' \in Counting => total' = Cardinality(Wanted(Among(Behind))') /\ done' = 0
      /\ pc' \in Converting => done' = Cardinality(Wanted(Among(Behind))')
  BY <1>3, <1>5 DEF WalkSound
<1>7. pc' \in Converting =>
        \E end \in Nat : /\ Ended(end)' /\ at' <= end
                         /\ total' = Cardinality(Wanted(Among(end))')
  BY <1>1 DEF WalkSound
<1>8. /\ walks' \in Nat /\ \A s \in seen' : s.walk \in 0..walks'
      /\ at' \in Nat /\ 1..at' \subseteq DOMAIN Listed'
      /\ Met(walks)' = Among(at)' /\ Cardinality(Among(at)') <= MaxPageGraphNodes
  BY <1>1, <1>4 DEF WalkSound
<1>. QED  BY <1>2, <1>6, <1>7, <1>8 DEF WalkSound

\* Every step keeps the walks sound.
LEMMA WalkStep == WalkSound /\ [Next]_vars => WalkSound'
<1> SUFFICES ASSUME WalkSound, [Next]_vars PROVE WalkSound'
  OBVIOUS
<1> USE DEF Goto, walking, listing, paging, counting, nesting, writing, Counting, Converting,
            OnNote
<1>1. ASSUME Discover PROVE WalkSound'
  BY <1>1, WalkAside DEF Discover
<1>2. ASSUME StopInputs PROVE WalkSound'
  BY <1>2, WalkAside DEF StopInputs
<1>3. ASSUME RefuseInput PROVE WalkSound'
  BY <1>3, WalkAside DEF RefuseInput
<1>4. ASSUME OpenInput PROVE WalkSound'
  BY <1>4, WalkAside DEF OpenInput
<1>5. ASSUME NoMoreSections PROVE WalkSound'
  BY <1>5, WalkAside DEF NoMoreSections
<1>6. ASSUME NextSection PROVE WalkSound'
  BY <1>6, WalkAside DEF NextSection
<1>7. ASSUME OpenFails PROVE WalkSound'
  BY <1>7, WalkAside DEF OpenFails
<1>8. ASSUME ClaimSection PROVE WalkSound'
  BY <1>8, WalkBegins DEF ClaimSection
<1>9. ASSUME CloseSection PROVE WalkSound'
  BY <1>9, WalkAside DEF CloseSection
<1>10. ASSUME CountRepeated PROVE WalkSound'
  BY <1>10, WalkOn DEF CountRepeated, Repeated
<1>11. ASSUME CountReached PROVE WalkSound'
  BY <1>11, WalkOn DEF CountReached, Reached
<1>12. ASSUME CountPage PROVE WalkSound'
  <2>1. CASE pc' = "closeSection"
    BY <1>12, <2>1, WalkAside DEF CountPage
  <2>2. CASE pc' # "closeSection"
    <3>1. /\ pc = "countPage" /\ pc' = "count" /\ done' = done
          /\ total' = IF Counts(Space) THEN total + 1 ELSE total
      BY <1>12, <2>2 DEF CountPage, StopSection, SectionFails
    <3>. QED  BY <1>12, <3>1, WalkPast DEF CountPage
  <2>. QED  BY <2>1, <2>2
<1>13. ASSUME StartPages PROVE WalkSound'
  <2>1. done' = 0
    BY <1>13 DEF StartPages, WalkSound
  <2>. QED  BY <1>13, <2>1, WalkBegins DEF StartPages
<1>14. ASSUME PageRepeated PROVE WalkSound'
  BY <1>14, WalkOn DEF PageRepeated, Repeated
<1>15. ASSUME PageReached PROVE WalkSound'
  BY <1>15, WalkOn DEF PageReached, Reached
<1>16. ASSUME NoMorePages PROVE WalkSound'
  BY <1>16, WalkAside DEF NoMorePages
<1>17. ASSUME ReadPage PROVE WalkSound'
  <2>1. CASE pc' = "closeSection"
    BY <1>17, <2>1, WalkAside DEF ReadPage
  <2>2. CASE ~IsPage(Space)
    <3>1. ~Counts(Space)
      BY <2>2 DEF Counts
    <3>. QED  BY <1>17, <2>2, <3>1, WalkPast DEF ReadPage
  <2>3. CASE IsPage(Space) /\ pc' # "closeSection"
    BY <1>17, <2>3, WalkStays DEF ReadPage, SectionFails
  <2>. QED  BY <2>1, <2>2, <2>3
<1>18. ASSUME PassOver PROVE WalkSound'
  <2>1. CASE asked
    BY <1>18, <2>1, WalkAside DEF PassOver, StopSection
  <2>2. CASE ~asked
    <3>1. ~Counts(Space)
      BY <1>18, <2>2 DEF PassOver, Counts, WalkSound
    <3>. QED  BY <1>18, <2>2, <3>1, WalkPast DEF PassOver
  <2>. QED  BY <2>1, <2>2
<1>19. ASSUME ClaimNote PROVE WalkSound'
  <2>1. Counts(Space)
    BY <1>19 DEF ClaimNote, Counts, WalkSound
  <2>. QED  BY <1>19, <2>1, WalkStays DEF ClaimNote
<1>20. ASSUME OpenNote PROVE WalkSound'
  BY <1>20, WalkStays DEF OpenNote, PageFails
<1>21. ASSUME Interrupted PROVE WalkSound'
  BY <1>21, WalkAside DEF Interrupted
<1>22. ASSUME FindAsset PROVE WalkSound'
  BY <1>22, WalkStays DEF FindAsset, PageFails
<1>23. ASSUME SaveAsset PROVE WalkSound'
  BY <1>23, WalkStays DEF SaveAsset, PageFails
<1>24. ASSUME FinishNote PROVE WalkSound'
  BY <1>24, WalkStays DEF FinishNote, PageFails
<1>25. ASSUME Level PROVE WalkSound'
  <2>1. Counts(Space)
    BY <1>25 DEF Level, WalkSound
  <2>. QED  BY <1>25, <2>1, WalkPast DEF Level
<1>26. ASSUME Finish PROVE WalkSound'
  BY <1>26, WalkAside DEF Finish
<1>27. ASSUME Ask PROVE WalkSound'
  BY <1>27, WalkStays DEF Ask
<1>28. ASSUME UNCHANGED vars PROVE WalkSound'
  BY <1>28, WalkStays DEF vars
<1>. QED
  BY <1>1, <1>2, <1>3, <1>4, <1>5, <1>6, <1>7, <1>8, <1>9, <1>10, <1>11, <1>12, <1>13, <1>14,
     <1>15, <1>16, <1>17, <1>18, <1>19, <1>20, <1>21, <1>22, <1>23, <1>24, <1>25, <1>26, <1>27, <1>28
  DEF Next, Convert

\* What is attempted was announced.
LEMMA WalksAgree == WalkSound => CountsAgree
<1> SUFFICES ASSUME WalkSound, pc \in Converting
             PROVE  done <= total /\ (pc = "pages" /\ AtEnd => done = total)
  BY DEF CountsAgree, Converting, OnNote
<1>1. PICK end \in Nat : Ended(end) /\ at <= end /\ total = Cardinality(Wanted(Among(end)))
  BY DEF WalkSound
<1>2. /\ at \in Nat /\ Met(walks) = Among(at) /\ 1..at \subseteq DOMAIN Listed
      /\ (pc # "pages" => at >= 1)
      /\ done = Cardinality(Wanted(Among(Behind)))
  BY DEF WalkSound, Converting, OnNote
<1>3. Behind \in 0..end
  BY <1>1, <1>2 DEF Behind, Converting, OnNote
<1>4. done <= total
  <2>1. Among(Behind) \subseteq Among(end)
    BY <1>3, AmongNext
  <2>2. Wanted(Among(Behind)) \subseteq Wanted(Among(end))
    BY <2>1 DEF Wanted
  <2>3. IsFiniteSet(Wanted(Among(end)))
    BY AmongFinite
  <2>. QED  BY <1>1, <1>2, <2>2, <2>3, FS_Subset
<1>5. ASSUME pc = "pages", AtEnd PROVE done = total
  <2>1. Among(at) = Among(end)
    <3>1. Among(at) \subseteq Among(end)
      BY <1>1, <1>2, AmongNext
    <3>2. CASE at + 1 \notin DOMAIN Listed
      <4>1. ~(at + 1 \in 1..end)
        BY <1>1, <3>2 DEF Ended
      <4>2. at = end
        BY <1>1, <1>2, <4>1
      <4>. QED  BY <4>2
    <3>3. CASE Cardinality(Among(at)) >= MaxPageGraphNodes
      <4>1. /\ IsFiniteSet(Among(end)) /\ Cardinality(Among(end)) \in Nat
            /\ Cardinality(Among(at)) \in Nat
        BY <1>2, AmongFinite
      <4>2. Cardinality(Among(end)) <= Cardinality(Among(at))
        BY <1>1, <3>3, <4>1, PageLimit DEF Ended
      <4>3. Cardinality(Among(at)) <= Cardinality(Among(end))
        BY <3>1, <4>1, FS_Subset
      <4>4. Cardinality(Among(at)) = Cardinality(Among(end))
        BY <4>1, <4>2, <4>3
      <4>. QED  BY <3>1, <4>1, <4>4, FS_Subset
    <3>. QED  BY <1>2, <1>5, <3>2, <3>3 DEF AtEnd
  <2>. QED  BY <1>1, <1>2, <1>5, <2>1 DEF Behind
<1>. QED  BY <1>4, <1>5

-----------------------------------------------------------------------------
\* The levels

\* Set a level, and it has the folder given; the others have what they had.
LEMMA SetLevelSets ==
  ASSUME NEW level, NEW folder, SetLevel(level, folder)
  PROVE  /\ depth' = level /\ DOMAIN folders' = DOMAIN folders \cup {level}
         /\ folders'[level] = folder
         /\ \A other \in DOMAIN folders : other # level => folders'[other] = folders[other]
BY DEF SetLevel

\* The lesser of two levels.
LEMMA DepthBounds ==
  ASSUME NEW level \in Nat, depth \in Nat
  PROVE  /\ Depth(level) \in 0..depth
         /\ options.nestSubpages /\ level <= depth => Depth(level) = level
<1>1. Min({level, depth}) = IF level <= depth THEN level ELSE depth
  BY DEF Min
<1>. QED  BY <1>1 DEF Depth

\* The greatest of the pages before.
LEMMA MaxIs ==
  ASSUME NEW S, S \subseteq Nat, NEW m \in S, \A n \in S : n <= m
  PROVE  Max(S) = m
<1>1. Max(S) \in S /\ \A n \in S : Max(S) >= n
  BY DEF Max
<1>2. Max(S) \in Nat /\ m \in Nat /\ m <= Max(S) /\ Max(S) <= m
  BY <1>1
<1>. QED  BY <1>2

\* Some of the pages before have a last one.
LEMMA LastOf ==
  ASSUME NEW i \in Nat, NEW S, S \subseteq 1..i, S # {}
  PROVE  Max(S) \in S
<1> DEFINE R == {d \in Nat \X Nat : d[1] < d[2]}
           T == {i - m : m \in S}
<1>1. IsWellFoundedOn(R, Nat)
  BY NatLessThanWellFounded DEF OpToRel
<1>2. T \subseteq Nat /\ T # {}
  <2>1. \A m \in S : m \in Int /\ i - m \in Nat
    OBVIOUS
  <2>. QED  BY <2>1
<1>3. \A m, n \in Nat : <<m, n>> \in R <=> m < n
  OBVIOUS
<1> HIDE DEF R
<1>4. \E n \in T : \A m \in T : <<m, n>> \notin R
  <2> HIDE DEF T
  <2>. QED  BY <1>1, <1>2, WFMin
<1>5. PICK m \in S : \A n \in S : ~(i - n < i - m)
  BY <1>2, <1>3, <1>4
<1>6. \A n \in S : m >= n
  BY <1>5
<1>. QED  BY <1>6 DEF Max

\* A step that files nothing and sets no level leaves every page where it belongs; and
\* out of a section nothing is asked of the levels.
LEMMA NestStays ==
  ASSUME NestSound, UnderItsParent, UNCHANGED <<given, filed>>,
         \/ pc' \notin Counting \cup Converting
         \/ UNCHANGED <<folders, depth, pc, page, note>>
         \/ /\ UNCHANGED <<folders, depth>>
            /\ \/ pc' \in OnNote /\ pc \in OnNote /\ note' = note
               \/ pc' \in Counting \cup {"pages"} /\ pc \in Counting
               \/ pc' \in {"pages", "readPage"} /\ pc \in {"pages", "readPage", "page"}
               \/ pc' = "page" /\ pc = "readPage" /\ page'.level \in Nat
  PROVE  NestSound' /\ UnderItsParent'
<1> USE DEF Counting, Converting, OnNote
<1>1. options' = options
  BY DEF options
<1>2. UnderItsParent'
  BY <1>1 DEF UnderItsParent, Stepwise
<1>3. /\ \E S : filed' \in Seq(S)
      /\ \A i \in 1..Len(filed') : filed'[i].depth \in Nat /\ filed'[i].level \in Nat
  BY DEF NestSound
<1>4. CASE pc' \notin Counting \cup Converting
  BY <1>2, <1>3, <1>4 DEF NestSound
<1>5. CASE pc' \in Counting \cup Converting /\ UNCHANGED <<folders, depth>>
  <2>1. Folder' = Folder /\ \A j, level : Heads(j, level)' <=> Heads(j, level)
    BY <1>5 DEF Folder, Heads
  <2>2. /\ pc' = "page" => page'.level \in Nat
        /\ pc' \in Counting => filed' = <<>>
        /\ pc' \in Counting \cup Converting => pc \in Counting \cup Converting
        /\ pc' \in OnNote <=> pc \in OnNote
        /\ pc' \in OnNote => note' = note
    BY <1>5 DEF NestSound
  <2>. QED  BY <1>1, <1>2, <1>3, <1>5, <2>1, <2>2 DEF NestSound
<1>. QED  BY <1>4, <1>5

\* A section begins with no page and its own folder.
LEMMA NestBegins ==
  ASSUME NEW folder, SetLevel(0, folder), filed' = <<>>, pc' = "count"
  PROVE  NestSound' /\ UnderItsParent'
<1> USE DEF Counting, Converting, OnNote
<1>1. depth' = 0 /\ 0 \in DOMAIN folders'
  BY SetLevelSets
<1>2. UnderItsParent'
  BY DEF UnderItsParent
<1>3. filed' \in Seq({}) /\ Len(filed') = 0
  OBVIOUS
<1>. QED  BY <1>1, <1>2, <1>3 DEF NestSound

\* The folder below the page just filed is there for the pages after it.
LEMMA NestDeepens ==
  ASSUME NestSound, UnderItsParent, UNCHANGED <<given, filed>>, pc = "level", pc' = "pages",
         SetLevel(depth + 1, Append(Folder, Stem(Last(note))))
  PROVE  NestSound' /\ UnderItsParent'
<1> USE DEF Counting, Converting, OnNote
<1>1. options' = options /\ Len(filed) \in Nat
  BY DEF options, NestSound
<1>2. UnderItsParent'
  BY <1>1 DEF UnderItsParent, Stepwise
<1>3. /\ depth \in Nat /\ 0..depth \subseteq DOMAIN folders /\ filed # <<>>
      /\ depth = filed[Len(filed)].depth /\ filed[1].folder = folders[0]
      /\ Folder = filed[Len(filed)].folder /\ Stem(Last(note)) = filed[Len(filed)].stem
  BY DEF NestSound
<1>4. /\ depth' = depth + 1 /\ DOMAIN folders' = DOMAIN folders \cup {depth + 1}
      /\ folders'[depth + 1] = Append(filed[Len(filed)].folder, filed[Len(filed)].stem)
      /\ \A other \in DOMAIN folders : other # depth + 1 => folders'[other] = folders[other]
  BY <1>3, SetLevelSets
<1>5. depth' \in Nat /\ 0..depth' \subseteq DOMAIN folders' /\ folders'[0] = folders[0]
  BY <1>3, <1>4
<1>6. ASSUME options.nestSubpages, NEW level \in 1..depth'
      PROVE  \E j \in 1..Len(filed') : Heads(j, level)'
  <2>1. CASE level = depth + 1
    <3>1. Len(filed) \in 1..Len(filed')
      <4>1. PICK S : filed \in Seq(S)
        BY DEF NestSound
      <4>. QED  BY <1>3, <4>1, EmptySeq
    <3>2. Heads(Len(filed), level)'
      BY <1>1, <1>3, <1>4, <2>1 DEF Heads
    <3>. QED  BY <3>1, <3>2
  <2>2. CASE level \in 1..depth
    <3>1. PICK j \in 1..Len(filed) : Heads(j, level)
      BY <1>6, <2>2 DEF NestSound
    <3>2. level \in DOMAIN folders /\ level # depth + 1
      BY <1>3, <2>2
    <3>3. Heads(j, level)'
      BY <1>4, <3>1, <3>2 DEF Heads
    <3>. QED  BY <3>1, <3>3
  <2>. QED  BY <1>3, <1>4, <1>6, <2>1, <2>2
<1>. QED  BY <1>1, <1>2, <1>3, <1>4, <1>5, <1>6 DEF NestSound

\* A page is filed as deep as its level and the levels there are allow: those deeper
\* are forgotten.
LEMMA NestFiles ==
  ASSUME NestSound, UnderItsParent, UNCHANGED <<given, folders>>, pc = "page", pc' \in OnNote,
         depth' = Depth(page.level),
         filed' = Append(filed, [level |-> page.level, depth |-> Depth(page.level),
                                 folder |-> folders[Depth(page.level)], stem |-> Stem(Last(note'))])
  PROVE  NestSound' /\ UnderItsParent'
<1> USE DEF Counting, Converting, OnNote
<1>1. PICK S : filed \in Seq(S)
  BY DEF NestSound
<1>2. PICK to : to = Depth(page.level)
  OBVIOUS
<1>3. PICK n : n = Len(filed)
  OBVIOUS
<1>4. PICK new : new = [level |-> page.level, depth |-> to, folder |-> folders[to],
                        stem |-> Stem(Last(note'))]
  OBVIOUS
<1>5. filed' = Append(filed, new) /\ depth' = to /\ options' = options
  BY <1>2, <1>4 DEF options
<1>6. filed \in Seq(S \cup {new}) /\ new \in S \cup {new} /\ n \in Nat
  BY <1>1, <1>3, SeqMonotonic
<1>7. /\ filed' \in Seq(S \cup {new}) /\ Len(filed') = n + 1
      /\ \A i \in 1..n : filed'[i] = filed[i]
      /\ filed'[n + 1] = new
  BY <1>3, <1>5, <1>6, AppendProperties
<1>8. /\ new.level = page.level /\ new.depth = to /\ new.folder = folders[to]
      /\ new.stem = Stem(Last(note'))
  BY <1>4
<1>9. /\ page.level \in Nat /\ depth \in Nat /\ 0..depth \subseteq DOMAIN folders
      /\ IF n = 0 THEN depth = 0 ELSE filed[1].folder = folders[0]
      /\ \A i \in 1..n : filed[i].depth \in Nat /\ filed[i].level \in Nat
      /\ options.nestSubpages =>
           /\ \A level \in 1..depth : \E j \in 1..n : Heads(j, level)
           /\ n # 0 => depth = filed[n].depth + 1
  <2>1. n = 0 <=> filed = <<>>
    BY <1>1, <1>3, EmptySeq
  <2>. QED  BY <1>3, <2>1 DEF NestSound
<1>10. to \in 0..depth /\ (options.nestSubpages /\ page.level <= depth => to = page.level)
  BY <1>2, <1>9, DepthBounds
<1>11. NestSound'
  <2>1. \A i \in 1..Len(filed') : filed'[i].depth \in Nat /\ filed'[i].level \in Nat
    BY <1>6, <1>7, <1>8, <1>9, <1>10
  <2>2. /\ depth' \in Nat /\ 0..depth' \subseteq DOMAIN folders'
        /\ filed' # <<>> /\ filed'[1].folder = folders'[0]
    <3>1. filed' # <<>>
      BY <1>6, <1>7, EmptySeq
    <3>2. depth' \in Nat /\ 0..depth' \subseteq DOMAIN folders'
      BY <1>5, <1>9, <1>10
    <3>3. filed'[1].folder = folders'[0]
      BY <1>6, <1>7, <1>8, <1>9, <1>10
    <3>. QED  BY <3>1, <3>2, <3>3
  <2>3. ASSUME options.nestSubpages, NEW level \in 1..depth'
        PROVE  \E j \in 1..Len(filed') : Heads(j, level)'
    <3>1. level \in 1..depth /\ level <= to
      BY <1>5, <1>9, <1>10
    <3>2. PICK j \in 1..n : Heads(j, level)
      BY <1>9, <2>3, <3>1
    <3>3. \A k \in j+1..Len(filed') : filed'[k].depth >= level
      <4>1. \A k \in j+1..n : filed[k].depth >= level
        BY <1>3, <3>2 DEF Heads
      <4>2. new.depth >= level
        BY <1>8, <3>1
      <4> SUFFICES ASSUME NEW k \in j+1..n+1  PROVE filed'[k].depth >= level
        BY <1>7
      <4>3. CASE k = n + 1
        BY <1>7, <4>2, <4>3
      <4>4. CASE k # n + 1
        <5>1. k \in j+1..n /\ k \in 1..n
          BY <1>6, <4>4
        <5>2. filed'[k] = filed[k]
          BY <1>7, <5>1
        <5>. QED  BY <4>1, <5>1, <5>2
      <4>. QED  BY <4>3, <4>4
    <3>4. Heads(j, level)'
      BY <1>7, <3>2, <3>3 DEF Heads
    <3>. QED  BY <1>6, <1>7, <3>2, <3>4
  <2>4. /\ depth' = filed'[Len(filed')].depth /\ Folder' = filed'[Len(filed')].folder
        /\ Stem(Last(note))' = filed'[Len(filed')].stem
    BY <1>5, <1>7, <1>8 DEF Folder
  <2>. QED  BY <1>5, <1>7, <2>1, <2>2, <2>3, <2>4 DEF NestSound
<1>12. UnderItsParent'
  <2> SUFFICES ASSUME options.nestSubpages, NEW i \in DOMAIN filed'
               PROVE  LET above  == {j \in 1..i-1 : filed'[j].depth < filed'[i].depth}
                          parent == filed'[Max(above)]
                      IN  /\ IF above = {}
                             THEN filed'[i].depth = 0 /\ filed'[i].folder = filed'[1].folder
                             ELSE /\ filed'[i].depth = parent.depth + 1
                                  /\ filed'[i].folder = Append(parent.folder, parent.stem)
                          /\ Stepwise(filed') => filed'[i].depth = filed'[i].level
    BY <1>5 DEF UnderItsParent
  <2>1. DOMAIN filed' = 1..n+1 /\ DOMAIN filed = 1..n
    BY <1>1, <1>3, <1>6, <1>7, LenProperties
  <2>2. Stepwise(filed') => Stepwise(filed) /\ page.level <= (IF n = 0 THEN 0 ELSE filed[n].level + 1)
    <3> SUFFICES ASSUME Stepwise(filed')
                 PROVE  Stepwise(filed) /\ page.level <= (IF n = 0 THEN 0 ELSE filed[n].level + 1)
      OBVIOUS
    <3>1. \A k \in 1..n+1 : filed'[k].level <= (IF k = 1 THEN 0 ELSE filed'[k - 1].level + 1)
      BY <2>1 DEF Stepwise
    <3>2. \A k \in 1..n : filed[k].level <= (IF k = 1 THEN 0 ELSE filed[k - 1].level + 1)
      <4> SUFFICES ASSUME NEW k \in 1..n
                   PROVE  filed[k].level <= (IF k = 1 THEN 0 ELSE filed[k - 1].level + 1)
        OBVIOUS
      <4>1. k \in 1..n+1 /\ filed'[k] = filed[k]
        BY <1>6, <1>7
      <4>2. CASE k = 1
        BY <3>1, <4>1, <4>2
      <4>3. CASE k # 1
        <5>1. filed'[k - 1] = filed[k - 1]
          BY <1>6, <1>7, <4>3
        <5>. QED  BY <3>1, <4>1, <4>3, <5>1
      <4>. QED  BY <4>2, <4>3
    <3>3. page.level <= (IF n = 0 THEN 0 ELSE filed[n].level + 1)
      BY <1>6, <1>7, <1>8, <3>1
    <3>. QED  BY <2>1, <3>2, <3>3 DEF Stepwise
  <2>3. CASE i \in 1..n
    <3>1. {j \in 1..i-1 : filed'[j].depth < filed'[i].depth}
            = {j \in 1..i-1 : filed[j].depth < filed[i].depth}
      BY <1>6, <1>7, <2>3
    <3>2. PICK above : above = {j \in 1..i-1 : filed[j].depth < filed[i].depth}
      OBVIOUS
    <3>3. /\ IF above = {} THEN filed[i].depth = 0 /\ filed[i].folder = filed[1].folder
             ELSE /\ filed[i].depth = filed[Max(above)].depth + 1
                  /\ filed[i].folder = Append(filed[Max(above)].folder, filed[Max(above)].stem)
          /\ Stepwise(filed) => filed[i].depth = filed[i].level
      BY <2>1, <2>3, <3>2 DEF UnderItsParent
    <3>4. above # {} => Max(above) \in 1..n
      <4> SUFFICES ASSUME above # {} PROVE Max(above) \in above
        BY <1>6, <2>3, <3>2
      <4>1. i \in Nat /\ above \subseteq 1..i
        BY <2>3, <3>2
      <4>. QED  BY <4>1, LastOf
    <3>5. filed'[i] = filed[i] /\ filed'[1] = filed[1]
          /\ (above # {} => filed'[Max(above)] = filed[Max(above)])
      BY <1>6, <1>7, <2>3, <3>4
    <3>. QED  BY <2>2, <3>1, <3>2, <3>3, <3>5
  <2>4. CASE i = n + 1
    <3>1. PICK above : above = {j \in 1..n : filed[j].depth < to}
      OBVIOUS
    <3>2. {j \in 1..i-1 : filed'[j].depth < filed'[i].depth} = above /\ filed'[i] = new
      BY <1>6, <1>7, <1>8, <2>4, <3>1
    <3>3. Stepwise(filed') => new.depth = new.level
      <4>1. n # 0 /\ Stepwise(filed) => filed[n].depth = filed[n].level
        <5>1. ASSUME n # 0, Stepwise(filed) PROVE filed[n].depth = filed[n].level
          <6>1. n \in DOMAIN filed
            BY <1>6, <2>1, <5>1
          <6>. QED  BY <5>1, <6>1 DEF UnderItsParent
        <5>. QED  BY <5>1
      <4>. QED  BY <1>6, <1>8, <1>9, <1>10, <2>2, <4>1
    <3>4. CASE to = 0
      <4>1. above = {}
        BY <1>9, <3>1, <3>4
      <4>2. new.depth = 0 /\ new.folder = filed'[1].folder
        BY <1>6, <1>7, <1>8, <1>9, <3>4
      <4>. QED  BY <3>2, <3>3, <4>1, <4>2
    <3>5. CASE to # 0
      <4>1. to \in 1..depth
        BY <1>9, <1>10, <3>5
      <4>2. PICK head \in 1..n : Heads(head, to)
        BY <1>9, <4>1
      <4>3. /\ filed[head].depth = to - 1
            /\ folders[to] = Append(filed[head].folder, filed[head].stem)
            /\ \A k \in head+1..n : filed[k].depth >= to
        BY <1>3, <4>2 DEF Heads
      <4>4. head \in above /\ above \subseteq Nat
        BY <1>6, <3>1, <4>1, <4>2, <4>3
      <4>5. \A k \in above : k <= head
        <5> SUFFICES ASSUME NEW k \in above, ~(k <= head)  PROVE FALSE
          OBVIOUS
        <5>1. k \in 1..n /\ filed[k].depth < to
          BY <3>1
        <5>2. k \in head+1..n /\ filed[k].depth \in Nat /\ to \in Nat
          BY <1>6, <1>9, <4>1, <4>2, <5>1
        <5>. QED  BY <4>3, <5>1, <5>2
      <4>6. Max(above) = head
        BY <4>4, <4>5, MaxIs
      <4>7. filed'[head] = filed[head]
        BY <1>7, <4>2
      <4>8. /\ new.depth = filed'[head].depth + 1
            /\ new.folder = Append(filed'[head].folder, filed'[head].stem)
        <5>1. filed[head].depth \in Nat /\ to \in Nat
          BY <1>9, <4>1, <4>2
        <5>2. new.depth = filed[head].depth + 1
          BY <1>8, <4>3, <5>1
        <5>. QED  BY <1>8, <4>3, <4>7, <5>2
      <4>9. above # {}
        BY <4>4
      <4>10. /\ filed'[i].depth = filed'[Max(above)].depth + 1
             /\ filed'[i].folder = Append(filed'[Max(above)].folder, filed'[Max(above)].stem)
             /\ Stepwise(filed') => filed'[i].depth = filed'[i].level
        BY <3>2, <3>3, <4>6, <4>8
      <4>. QED  BY <3>2, <4>9, <4>10
    <3>. QED  BY <3>4, <3>5
  <2>5. i \in 1..n \/ i = n + 1
    BY <1>6, <2>1
  <2>. QED  BY <2>3, <2>4, <2>5
<1>. QED  BY <1>11, <1>12
\* Every step files a page where it belongs, or none.
LEMMA NestStep == NestSound /\ UnderItsParent /\ [Next]_vars => NestSound' /\ UnderItsParent'
<1> SUFFICES ASSUME NestSound, UnderItsParent, [Next]_vars
             PROVE  NestSound' /\ UnderItsParent'
  OBVIOUS
<1> USE DEF Goto, walking, listing, paging, counting, nesting, writing, Counting, Converting,
            OnNote
<1>1. ASSUME Discover PROVE NestSound' /\ UnderItsParent'
  BY <1>1, NestStays DEF Discover
<1>2. ASSUME StopInputs PROVE NestSound' /\ UnderItsParent'
  BY <1>2, NestStays DEF StopInputs
<1>3. ASSUME RefuseInput PROVE NestSound' /\ UnderItsParent'
  BY <1>3, NestStays DEF RefuseInput
<1>4. ASSUME OpenInput PROVE NestSound' /\ UnderItsParent'
  BY <1>4, NestStays DEF OpenInput
<1>5. ASSUME NoMoreSections PROVE NestSound' /\ UnderItsParent'
  BY <1>5, NestStays DEF NoMoreSections
<1>6. ASSUME NextSection PROVE NestSound' /\ UnderItsParent'
  BY <1>6, NestStays DEF NextSection
<1>7. ASSUME OpenFails PROVE NestSound' /\ UnderItsParent'
  BY <1>7, NestStays DEF OpenFails
<1>8. ASSUME ClaimSection PROVE NestSound' /\ UnderItsParent'
  BY <1>8, NestBegins DEF ClaimSection
<1>9. ASSUME CloseSection PROVE NestSound' /\ UnderItsParent'
  BY <1>9, NestStays DEF CloseSection
<1>10. ASSUME CountRepeated PROVE NestSound' /\ UnderItsParent'
  BY <1>10, NestStays DEF CountRepeated, Repeated
<1>11. ASSUME CountReached PROVE NestSound' /\ UnderItsParent'
  BY <1>11, NestStays DEF CountReached, Reached
<1>12. ASSUME CountPage PROVE NestSound' /\ UnderItsParent'
  BY <1>12, NestStays DEF CountPage, StopSection, SectionFails
<1>13. ASSUME StartPages PROVE NestSound' /\ UnderItsParent'
  BY <1>13, NestStays DEF StartPages
<1>14. ASSUME PageRepeated PROVE NestSound' /\ UnderItsParent'
  BY <1>14, NestStays DEF PageRepeated, Repeated
<1>15. ASSUME PageReached PROVE NestSound' /\ UnderItsParent'
  BY <1>15, NestStays DEF PageReached, Reached
<1>16. ASSUME NoMorePages PROVE NestSound' /\ UnderItsParent'
  BY <1>16, NestStays DEF NoMorePages
<1>17. ASSUME ReadPage PROVE NestSound' /\ UnderItsParent'
  <2>1. LevelOf(Space) \in Nat
    BY DEF LevelOf
  <2>2. pc' = "page" => page'.level = LevelOf(Space)
    BY <1>17 DEF ReadPage, SectionFails
  <2>3. pc = "readPage" /\ pc' \in {"pages", "closeSection", "page"}
    BY <1>17 DEF ReadPage, SectionFails
  <2>. QED  BY <1>17, <2>1, <2>2, <2>3, NestStays DEF ReadPage
<1>18. ASSUME PassOver PROVE NestSound' /\ UnderItsParent'
  BY <1>18, NestStays DEF PassOver, StopSection
<1>19. ASSUME ClaimNote PROVE NestSound' /\ UnderItsParent'
  BY <1>19, NestFiles DEF ClaimNote
<1>20. ASSUME OpenNote PROVE NestSound' /\ UnderItsParent'
  BY <1>20, NestStays DEF OpenNote, PageFails
<1>21. ASSUME Interrupted PROVE NestSound' /\ UnderItsParent'
  BY <1>21, NestStays DEF Interrupted
<1>22. ASSUME FindAsset PROVE NestSound' /\ UnderItsParent'
  BY <1>22, NestStays DEF FindAsset
<1>23. ASSUME SaveAsset PROVE NestSound' /\ UnderItsParent'
  BY <1>23, NestStays DEF SaveAsset, PageFails
<1>24. ASSUME FinishNote PROVE NestSound' /\ UnderItsParent'
  BY <1>24, NestStays DEF FinishNote, PageFails
<1>25. ASSUME Level PROVE NestSound' /\ UnderItsParent'
  BY <1>25, NestDeepens DEF Level
<1>26. ASSUME Finish PROVE NestSound' /\ UnderItsParent'
  BY <1>26, NestStays DEF Finish
<1>27. ASSUME Ask PROVE NestSound' /\ UnderItsParent'
  BY <1>27, NestStays DEF Ask
<1>28. ASSUME UNCHANGED vars PROVE NestSound' /\ UnderItsParent'
  BY <1>28, NestStays DEF vars
<1>. QED
  BY <1>1, <1>2, <1>3, <1>4, <1>5, <1>6, <1>7, <1>8, <1>9, <1>10, <1>11, <1>12, <1>13, <1>14,
     <1>15, <1>16, <1>17, <1>18, <1>19, <1>20, <1>21, <1>22, <1>23, <1>24, <1>25, <1>26, <1>27, <1>28
  DEF Next, Convert

-----------------------------------------------------------------------------
\* Theorems

\* The walk over a section's pages is sound, and so are the levels and the pages filed,
\* whatever is converted and wherever it is stopped.
THEOREM ConversionInvariance == Spec => []IInv
<1>1. Init => IInv
  <2> SUFFICES ASSUME Init PROVE IInv
    OBVIOUS
  <2>1. WalkSound
    BY DEF Init, WalkSound, Counting, Converting, OnNote
  <2>2. NestSound
    <3>1. filed \in Seq({}) /\ Len(filed) = 0
      BY DEF Init
    <3>. QED  BY <3>1 DEF Init, NestSound, Counting, Converting, OnNote
  <2>3. UnderItsParent
    BY DEF Init, UnderItsParent
  <2>. QED  BY <2>1, <2>2, <2>3 DEF IInv
<1>2. IInv /\ [Next]_vars => IInv'
  BY WalkStep, NestStep DEF IInv
<1>. QED  BY <1>1, <1>2, PTL DEF Spec

\* No page is attempted that was not announced, and a section walked to its end has
\* attempted every one: the second walk over the section (src/stream/section.ts) finds
\* the pages the first one counted, in a generation of its own of the same store.
THEOREM PagesAreAnnounced == Spec => []CountsAgree
<1>1. IInv => CountsAgree
  BY WalksAgree DEF IInv
<1>. QED  BY <1>1, ConversionInvariance, PTL

\* A subpage is in the folder named after the page above it, and no folder of an earlier
\* page is taken up again (SubpageLevels, src/stream/workspace.ts), however deep the
\* levels go and whichever pages were passed over or failed.
THEOREM SubpagesAreFiled == Spec => []UnderItsParent
<1>1. IInv => UnderItsParent
  BY DEF IInv
<1>. QED  BY <1>1, ConversionInvariance, PTL

-----------------------------------------------------------------------------
\* Numbers and strings

\* A non-empty set of numbers has a least, and one within bounds a greatest.
LEMMA Least ==
  ASSUME NEW T, T \subseteq Nat, T # {}
  PROVE  \E n \in T : \A m \in T : n <= m
<1> DEFINE R == {d \in Nat \X Nat : d[1] < d[2]}
<1>1. IsWellFoundedOn(R, Nat)
  BY NatLessThanWellFounded DEF OpToRel
<1>2. \E n \in T : \A m \in T : <<m, n>> \notin R
  BY <1>1, WFMin
<1>3. \A m, n \in Nat : <<m, n>> \in R <=> m < n
  OBVIOUS
<1> HIDE DEF R
<1>4. PICK n \in T : \A m \in T : <<m, n>> \notin R
  BY <1>2
<1>5. \A m \in T : ~(m < n)
  BY <1>3, <1>4
<1>. QED  BY <1>5

LEMMA MinIsLeast ==
  ASSUME NEW S, S \subseteq Nat, S # {}
  PROVE  Min(S) \in S
<1>1. PICK n \in S : \A m \in S : n <= m
  BY Least
<1>. QED  BY <1>1 DEF Min

LEMMA MaxIsGreatest ==
  ASSUME NEW n \in Nat, NEW S, S \subseteq 0..n, S # {}
  PROVE  Max(S) \in S
<1> DEFINE T == {n - m : m \in S}
<1>1. T \subseteq Nat /\ T # {}
  <2>1. \A m \in S : m \in Int /\ n - m \in Nat
    OBVIOUS
  <2>. QED  BY <2>1
<1>2. PICK m \in S : \A k \in S : n - m <= n - k
  <2> HIDE DEF T
  <2>1. PICK k \in T : \A l \in T : k <= l
    BY <1>1, Least
  <2>. QED  BY <2>1 DEF T
<1>3. \A k \in S : m >= k
  BY <1>2
<1>. QED  BY <1>3 DEF Max

\* A string is a sequence of what it holds, and any sequence is one.
Held(s) == {s[i] : i \in 1..Len(s)}
LEMMA TextIsSeq ==
  ASSUME NEW s, IsText(s)
  PROVE  Len(s) \in Nat /\ DOMAIN s = 1..Len(s) /\ s \in Seq(Held(s))
<1>1. Len(s) \in Nat /\ s = [i \in 1..Len(s) |-> s[i]]
  BY DEF IsText
<1>2. \A i \in 1..Len(s) : s[i] \in Held(s)
  BY DEF Held
<1>3. s \in [1..Len(s) -> Held(s)]
  BY <1>1, <1>2
<1>. QED  BY <1>1, <1>3, SeqDef

LEMMA SeqIsText ==
  ASSUME NEW S, NEW s \in Seq(S)
  PROVE  IsText(s)
BY LenProperties DEF IsText

\* So is what is picked from it, and any part of it.
LEMMA PickedIsText ==
  ASSUME NEW s, NEW positions, IsFiniteSet(positions)
  PROVE  IsText(Selected(s, positions)) /\ Len(Selected(s, positions)) = Cardinality(positions)
<1> DEFINE n == Cardinality(positions)
           t == Selected(s, positions)
           S == {t[i] : i \in 1..n}
<1>1. n \in Nat
  BY FS_CardinalityType
<1>2. DOMAIN t = 1..n /\ t = [i \in 1..n |-> t[i]]
  BY DEF Selected
<1> HIDE DEF t
<1>3. t \in [1..n -> S]
  BY <1>2
<1>4. t \in Seq(S)
  BY <1>1, <1>3, SeqDef
<1>5. Len(t) = n
  BY <1>1, <1>2, <1>4, LenProperties
<1>6. IsText(t)
  BY <1>4, SeqIsText
<1>. QED  BY <1>5, <1>6 DEF t

LEMMA PartIsText ==
  ASSUME NEW s, IsText(s), NEW m \in 1..Len(s)+1, NEW n \in 0..Len(s)
  PROVE  IsText(SubSeq(s, m, n))
<1>1. \A i \in m..n : s[i] \in Held(s)
  BY DEF Held, IsText
<1>2. SubSeq(s, m, n) \in Seq(Held(s))
  BY <1>1, SubSeqProperties, TextIsSeq
<1>. QED  BY <1>2, SeqIsText

LEMMA EndIsText ==
  ASSUME NEW name, IsText(name), NEW characters
  PROVE  IsText(TrimmedEnd(name, characters)) /\ IsText(TrimmedStart(name, characters))
<1> DEFINE S == {i \in DOMAIN name : name[i] \notin characters}
<1>1. Len(name) \in Nat /\ S \subseteq 1..Len(name)
  BY TextIsSeq
<1> HIDE DEF S
<1>2. Max({0} \cup S) \in 0..Len(name)
  <2> DEFINE T == {0} \cup S
  <2>1. T \subseteq 0..Len(name) /\ T # {}
    <3>1. 0 \in 0..Len(name) /\ 1..Len(name) \subseteq 0..Len(name)
      BY <1>1
    <3>. QED  BY <1>1, <3>1
  <2> HIDE DEF T
  <2>2. Max(T) \in 0..Len(name)
    BY <1>1, <2>1, MaxIsGreatest
  <2>. QED  BY <2>2 DEF T
<1>3. Min({Len(name) + 1} \cup S) \in 1..Len(name)+1
  <2> DEFINE T == {Len(name) + 1} \cup S
  <2>1. T \subseteq 1..Len(name)+1 /\ T # {} /\ 1..Len(name)+1 \subseteq Nat
    <3>1. Len(name) + 1 \in 1..Len(name)+1 /\ 1..Len(name) \subseteq 1..Len(name)+1
      BY <1>1
    <3>2. \A i \in 1..Len(name)+1 : i \in Nat
      BY <1>1
    <3>. QED  BY <1>1, <3>1, <3>2
  <2> HIDE DEF T
  <2>2. Min(T) \in T
    BY <2>1, MinIsLeast
  <2>. QED  BY <2>1, <2>2 DEF T
<1>. QED  BY <1>1, <1>2, <1>3, PartIsText DEF TrimmedEnd, TrimmedStart, S

LEMMA WithoutIsText ==
  ASSUME NEW name, IsFiniteSet(DOMAIN name), NEW characters
  PROVE  IsText(Without(name, characters))
<1>1. IsFiniteSet({i \in DOMAIN name : name[i] \notin characters})
  BY FS_Subset
<1>. QED  BY <1>1, PickedIsText DEF Without

LEMMA TextIsFinite ==
  ASSUME NEW s, IsText(s)
  PROVE  IsFiniteSet(DOMAIN s)
BY TextIsSeq, FS_Interval

LEMMA EmptyIsText == IsText(<<>>) /\ IsText(Untitled)
<1>1. <<>> \in Seq({}) /\ Untitled \in Seq({"Untitled"})
  BY DEF Untitled
<1>. QED  BY <1>1, SeqIsText

LEMMA TidiedIsText ==
  ASSUME NEW name, IsText(name)
  PROVE  IsText(Tidied(name))
<1> DEFINE cut == NotReserved(TrimmedEnd(name, {".", " "}))
<1>1. IsText(cut)
  BY EndIsText, EmptyIsText DEF NotReserved
<1> HIDE DEF cut
<1>2. IsText(Without(cut, BadInLinks))
  BY <1>1, TextIsFinite, WithoutIsText
<1>. QED  BY <1>2, EndIsText DEF Tidied, cut

LEMMA LimitedIsText ==
  ASSUME NEW name, IsText(name)
  PROVE  IsText(Limited(name))
<1>1. Len(name) \in Nat /\ MaxNameChars \in Nat \ {0}
  BY TextIsSeq, NameLength
<1>2. CASE Len(name) > MaxNameChars
  <2> DEFINE cut == SubSeq(name, 1, MaxNameChars)
             space == Max({0} \cup {i \in 1..MaxNameChars : name[i] = " "})
  <2>1. IsText(cut)
    BY <1>1, <1>2, PartIsText
  <2>2. Len(cut) = MaxNameChars
    <3>1. \A i \in 1..MaxNameChars : name[i] \in Held(name)
      BY <1>1, <1>2 DEF Held
    <3>. QED  BY <1>1, <3>1, SubSeqProperties
  <2>3. space \in 0..MaxNameChars
    <3> DEFINE S == {0} \cup {i \in 1..MaxNameChars : name[i] = " "}
    <3>1. S \subseteq 0..MaxNameChars /\ S # {}
      <4>1. 0 \in 0..MaxNameChars /\ 1..MaxNameChars \subseteq 0..MaxNameChars
        BY <1>1
      <4>. QED  BY <4>1
    <3>2. Max(S) \in S
      <4> HIDE DEF S
      <4>. QED  BY <1>1, <3>1, MaxIsGreatest
    <3>. QED  BY <3>1, <3>2
  <2>4. Limited(name) = BackToSpace(cut, space)
    <3>1. ~(Len(name) <= MaxNameChars)
      BY <1>1, <1>2
    <3>. QED  BY <3>1, Zenon DEF Limited
  <2> HIDE DEF cut, space
  <2>5. CASE 2 * (space - 1) > Len(cut)
    <3>1. space - 1 \in 0..Len(cut)
      BY <1>1, <2>2, <2>3, <2>5
    <3>2. IsText(SubSeq(cut, 1, space - 1))
      BY <1>1, <2>1, <2>2, <3>1, PartIsText
    <3>. QED  BY <2>4, <2>5, <3>2 DEF BackToSpace
  <2>. QED  BY <2>1, <2>4, <2>5 DEF BackToSpace
<1>3. CASE Len(name) <= MaxNameChars
  BY <1>3 DEF Limited
<1>. QED  BY <1>1, <1>2, <1>3

\* sanitizeFileName makes a string of a string.
LEMMA SanitizedIsText ==
  ASSUME NEW name, IsText(name)
  PROVE  IsText(Sanitized(name))
<1> DEFINE dashed == [i \in DOMAIN name |-> IF name[i] \in {"/", "\\"} THEN "-" ELSE name[i]]
<1>1. IsFiniteSet(DOMAIN dashed)
  BY TextIsFinite
<1> HIDE DEF dashed
<1>2. IsText(Tidied(Without(dashed, Illegal \cup Control)))
  BY <1>1, WithoutIsText, TidiedIsText
<1> DEFINE kept == Shortened(Tidied(Without(dashed, Illegal \cup Control)))
<1>3. IsText(kept)
  BY <1>2, LimitedIsText, TidiedIsText DEF Shortened
<1> HIDE DEF kept
<1>4. IsText(TrimmedEnd(TrimmedStart(kept, {" "}), {" "}))
  BY <1>3, EndIsText
<1>5. Sanitized(name) = Named(TrimmedEnd(TrimmedStart(kept, {" "}), {" "}))
  BY DEF Sanitized, kept, dashed
<1>. QED  BY <1>4, <1>5, EmptyIsText DEF Named

\* What is picked was there.
LEMMA PickedIsThere ==
  ASSUME NEW s, IsText(s), NEW positions, positions \subseteq DOMAIN s
  PROVE  Selected(s, positions) \in Seq({s[p] : p \in positions})
<1> DEFINE n == Len(s)
<1>1. n \in Nat /\ positions \subseteq 1..n
  BY TextIsSeq
<1> HIDE DEF n
<1>2. ASSUME NEW m \in 1..Cardinality(positions)
      PROVE  \E p \in positions : Selected(s, positions)[m] = s[p]
  <2> DEFINE upTo(k) == {j \in positions : j <= k}
  <2>0. \A j \in positions : j \in 1..n
    BY <1>1
  <2>1. IsFiniteSet(positions) /\ \A k \in 0..n : IsFiniteSet(upTo(k))
    <3>1. IsFiniteSet(1..n)
      BY <1>1, FS_Interval
    <3>2. IsFiniteSet(positions)
      BY <1>1, <3>1, FS_Subset
    <3>. QED  BY <3>2, FS_Subset
  <2>2. \A k \in 0..n : Cardinality(upTo(k)) \in Nat
    BY <2>1, FS_CardinalityType
  <2>a. Cardinality(positions) \in Nat /\ m \in Nat /\ m >= 1 /\ m <= Cardinality(positions)
    BY <2>1, FS_CardinalityType
  <2>b. upTo(n) = positions /\ upTo(0) = {}
    <3>1. \A j \in positions : j <= n /\ ~(j <= 0)
      BY <2>0
    <3>. QED  BY <3>1
  <2> DEFINE T == {k \in 0..n : m <= Cardinality(upTo(k))}
  <2>3. n \in T
    BY <1>1, <2>a, <2>b
  <2>4. PICK k \in T : \A l \in T : k <= l
    <3>1. T \subseteq Nat
      OBVIOUS
    <3> HIDE DEF T
    <3>. QED  BY <2>3, <3>1, Least
  <2>5. k \in 0..n /\ m <= Cardinality(upTo(k))
    OBVIOUS
  <2>6. k # 0
    <3>1. Cardinality(upTo(0)) = 0
      BY <2>b, FS_EmptySet
    <3>. QED  BY <2>5, <2>a, <3>1
  <2>7. k \in 1..n /\ k - 1 \in 0..n
    <3>1. k \in Nat /\ k <= n
      BY <1>1, <2>5
    <3>. QED  BY <1>1, <2>6, <3>1
  <2>8. ~(m <= Cardinality(upTo(k - 1)))
    <3>1. ~(k <= k - 1)
      BY <2>7
    <3>. QED  BY <2>4, <2>7, <3>1
  <2> HIDE DEF T
  <2>c. /\ k \in positions => upTo(k) = upTo(k - 1) \cup {k}
        /\ k \notin positions => upTo(k) = upTo(k - 1)
        /\ k \notin upTo(k - 1) /\ IsFiniteSet(upTo(k - 1))
    <3>1. \A j \in positions : j <= k <=> j <= k - 1 \/ j = k
      BY <2>0, <2>7
    <3>2. ~(k <= k - 1)
      BY <2>7
    <3>. QED  BY <2>1, <2>7, <3>1, <3>2
  <2>9. k \in positions
    <3> SUFFICES ASSUME k \notin positions PROVE FALSE
      OBVIOUS
    <3>1. upTo(k) = upTo(k - 1)
      BY <2>c
    <3>2. Cardinality(upTo(k)) = Cardinality(upTo(k - 1))
      BY <3>1
    <3>. QED  BY <2>5, <2>8, <3>2
  <2>10. Cardinality(upTo(k)) = m
    <3>1. Cardinality(upTo(k)) = Cardinality(upTo(k - 1)) + 1
      <4> DEFINE before == upTo(k - 1)
      <4>1. upTo(k) = before \cup {k} /\ k \notin before /\ IsFiniteSet(before)
        BY <2>9, <2>c
      <4> HIDE DEF before
      <4>2. Cardinality(before \cup {k}) = Cardinality(before) + 1
        BY <4>1, FS_AddElement
      <4>3. Cardinality(upTo(k)) = Cardinality(before) + 1
        BY <4>1, <4>2
      <4>. QED  BY <4>3 DEF before
    <3> DEFINE c == Cardinality(upTo(k - 1))
    <3>2. c \in Nat /\ ~(m <= c) /\ m <= c + 1 /\ Cardinality(upTo(k)) = c + 1
      BY <2>2, <2>5, <2>7, <2>8, <3>1
    <3> HIDE DEF c
    <3>. QED  BY <2>a, <3>2
  <2> DEFINE p == CHOOSE i \in positions : Cardinality(upTo(i)) = m
  <2>11. p \in positions
    BY <2>9, <2>10
  <2>12. Selected(s, positions)[m] = s[p]
    BY DEF Selected, upTo
  <2>. QED  BY <2>11, <2>12
<1>3. IsFiniteSet(positions)
  <2>1. IsFiniteSet(1..n)
    BY <1>1, FS_Interval
  <2>. QED  BY <1>1, <2>1, FS_Subset
<1> DEFINE t == Selected(s, positions)
           S == {s[p] : p \in positions}
           c == Cardinality(positions)
<1>4. c \in Nat /\ t = [i \in 1..c |-> t[i]]
  BY <1>3, FS_CardinalityType DEF Selected
<1>5. \A i \in 1..c : t[i] \in S
  BY <1>2
<1> HIDE DEF t, S, c
<1>6. t \in [1..c -> S]
  BY <1>4, <1>5
<1>7. t \in Seq(S)
  BY <1>4, <1>6, SeqDef
<1>. QED  BY <1>7 DEF t, S

-----------------------------------------------------------------------------
\* Names numbered apart

\* Different numbers are written differently, and a number written out is nothing that
\* toLowerCase changes.
NumeralsDiffer ==
  \A m, n \in Nat : ToString(n) \notin DOMAIN LowerCase /\ (ToString(m) = ToString(n) => m = n)

\* A numbered name is two characters longer, and the second of them is the number.
LEMMA NumberedShape ==
  ASSUME NEW name, IsText(name), NEW dot \in 1..Len(name)+1, NEW n \in Nat \ {0}
  PROVE  LET numbered == Numbered(name, n, dot)
         IN  /\ IsText(numbered) /\ Len(numbered) = Len(name) + 2
             /\ numbered[dot + 1] = ToString(n)
<1> DEFINE S == Held(name) \cup {" ", ToString(n)}
           mark == <<" ", ToString(n)>>
           front == SubSeq(name, 1, dot - 1)
           back == SubSeq(name, dot, Len(name))
<1>1. Len(name) \in Nat /\ \A i \in 1..Len(name) : name[i] \in S
  BY TextIsSeq DEF Held
<1>2. mark \in Seq(S) /\ Len(mark) = 2 /\ mark[2] = ToString(n)
  OBVIOUS
<1> HIDE DEF S, mark
<1>3. front \in Seq(S) /\ Len(front) = dot - 1
  BY <1>1, SubSeqProperties
<1>4. back \in Seq(S) /\ Len(back) = Len(name) - dot + 1
  BY <1>1, SubSeqProperties
<1> HIDE DEF front, back
<1>5. /\ front \o mark \in Seq(S) /\ Len(front \o mark) = dot + 1
      /\ (front \o mark)[dot + 1] = ToString(n)
  <2>1. /\ dot + 1 \in 1..Len(front) + Len(mark) /\ ~(dot + 1 <= Len(front))
        /\ dot + 1 - Len(front) = 2 /\ Len(front) + Len(mark) = dot + 1
    BY <1>1, <1>2, <1>3
  <2>2. /\ front \o mark \in Seq(S) /\ Len(front \o mark) = Len(front) + Len(mark)
        /\ (front \o mark)[dot + 1] = IF dot + 1 <= Len(front) THEN front[dot + 1]
                                      ELSE mark[dot + 1 - Len(front)]
    <3>1. \A i \in 1..Len(front) + Len(mark) :
            (front \o mark)[i] = IF i <= Len(front) THEN front[i] ELSE mark[i - Len(front)]
      BY <1>2, <1>3, ConcatProperties
    <3>2. front \o mark \in Seq(S) /\ Len(front \o mark) = Len(front) + Len(mark)
      BY <1>2, <1>3, ConcatProperties
    <3>. QED  BY <2>1, <3>1, <3>2
  <2>. QED  BY <1>2, <2>1, <2>2
<1> DEFINE numbered == (front \o mark) \o back
<1>6. numbered \in Seq(S) /\ Len(numbered) = Len(name) + 2 /\ numbered[dot + 1] = ToString(n)
  BY <1>1, <1>4, <1>5, ConcatProperties
<1>7. Numbered(name, n, dot) = numbered
  BY DEF Numbered, front, mark, back
<1>. QED  BY <1>6, <1>7, SeqIsText

\* No two candidates for a name are one but for case.
LEMMA CandidatesDiffer ==
  ASSUME NumeralsDiffer, NEW name, IsText(name), NEW m \in Nat, NEW n \in Nat,
         Folded(Candidate(name, m)) = Folded(Candidate(name, n))
  PROVE  m = n
<1> DEFINE last == Max({1} \cup {i \in DOMAIN name : name[i] = "."})
           dot == IF last = 1 THEN Len(name) + 1 ELSE last
<1>1. Len(name) \in Nat /\ DOMAIN name = 1..Len(name)
  BY TextIsSeq
<1>2. dot \in 1..Len(name)+1
  <2> DEFINE T == {1} \cup {i \in DOMAIN name : name[i] = "."}
  <2>1. T \subseteq 0..Len(name)+1 /\ T # {} /\ T \subseteq 1..Len(name)+1
    <3>1. 1 \in 1..Len(name)+1 /\ 1..Len(name) \subseteq 1..Len(name)+1
          /\ 1..Len(name)+1 \subseteq 0..Len(name)+1
      BY <1>1
    <3>. QED  BY <1>1, <3>1
  <2>2. Max(T) \in T
    <3> HIDE DEF T
    <3>1. Len(name) + 1 \in Nat
      BY <1>1
    <3>. QED  BY <2>1, <3>1, MaxIsGreatest
  <2>. QED  BY <1>1, <2>1, <2>2
<1>3. \A k : Candidate(name, k) = Numbered(name, k, dot)
  BY DEF Candidate
<1> HIDE DEF dot
<1>4. \A k \in Nat \ {0} : /\ DOMAIN Numbered(name, k, dot) = 1..Len(name)+2
                            /\ Numbered(name, k, dot)[dot + 1] = ToString(k)
  BY <1>2, NumberedShape, TextIsSeq
<1>5. Numbered(name, 0, dot) = name
  BY DEF Numbered
<1>6. DOMAIN Candidate(name, m) = DOMAIN Candidate(name, n)
  BY DEF Folded
<1>7. Len(name) + 2 \in 1..Len(name)+2 /\ Len(name) + 2 \notin 1..Len(name)
      /\ dot + 1 \in 1..Len(name)+2
  BY <1>1, <1>2
<1>8. CASE m = 0 \/ n = 0
  BY <1>1, <1>3, <1>4, <1>5, <1>6, <1>7, <1>8
<1>9. CASE m # 0 /\ n # 0
  <2>1. \A k \in {m, n} : Folded(Candidate(name, k))[dot + 1] = ToString(k)
    BY <1>3, <1>4, <1>7, <1>9 DEF Folded, NumeralsDiffer
  <2>. QED  BY <2>1 DEF NumeralsDiffer
<1>. QED  BY <1>8, <1>9

\* One name more than there are taken ones, and they are not all taken.
LEMMA TooManyForAll ==
  ASSUME NEW C, IsFiniteSet(C), NEW f, f \in [0..Cardinality(C) -> C]
  PROVE  \E i, j \in 0..Cardinality(C) : i # j /\ f[i] = f[j]
<1> DEFINE I == 0..Cardinality(C)
<1>1. Cardinality(C) \in Nat
  BY FS_CardinalityType
<1>2. IsFiniteSet(I) /\ Cardinality(I) = Cardinality(C) + 1
  BY <1>1, FS_Interval
<1>3. Cardinality(C) < Cardinality(I)
  BY <1>1, <1>2
<1> HIDE DEF I
<1>4. f \in [I -> C]
  BY DEF I
<1>5. \E i, j \in I : i # j /\ f[i] = f[j]
  BY <1>2, <1>3, <1>4, FS_PigeonHole
<1>. QED  BY <1>5 DEF I

\* StreamWorkspace.claim finds a name that is free in its folder.
LEMMA ChosenIsFree ==
  ASSUME NumeralsDiffer, IsFiniteSet(made.names), NEW folder, NEW name, IsText(name)
  PROVE  ClaimKey(folder, Chosen(folder, name)) \notin made.names
<1> DEFINE N == Cardinality(made.names)
           key(n) == ClaimKey(folder, Candidate(name, n))
           T == {n \in 0..N : key(n) \notin made.names}
<1>1. N \in Nat
  BY FS_CardinalityType
<1>2. T # {}
  <2> SUFFICES ASSUME T = {} PROVE FALSE
    OBVIOUS
  <2> DEFINE f == [n \in 0..N |-> key(n)]
  <2>1. f \in [0..N -> made.names]
    OBVIOUS
  <2>2. PICK i, j \in 0..N : i # j /\ f[i] = f[j]
    <3> HIDE DEF f
    <3>. QED  BY <2>1, TooManyForAll
  <2>3. Folded(Candidate(name, i)) = Folded(Candidate(name, j))
    BY <2>2 DEF ClaimKey
  <2>. QED  BY <1>1, <2>2, <2>3, CandidatesDiffer
<1>3. T \subseteq Nat
  BY <1>1
<1>4. PICK n \in T : \A m \in T : n <= m
  <2> HIDE DEF T
  <2>. QED  BY <1>2, <1>3, Least
<1>5. n \in 0..N /\ key(n) \notin made.names /\ \A m \in 0..n-1 : key(m) \in made.names
  BY <1>1, <1>4
<1> DEFINE c == CHOOSE k \in 0..N : /\ key(k) \notin made.names
                                    /\ \A m \in 0..k-1 : key(m) \in made.names
<1>6. key(c) \notin made.names
  BY <1>5
<1>7. Chosen(folder, name) = Candidate(name, c)
  BY DEF Chosen, IsClaimed
<1>. QED  BY <1>6, <1>7

-----------------------------------------------------------------------------
\* The inductive invariant of the names

\* The folders the walk is in hold what folders may, and the file in hand is legible.
WellOrdered == {entries \in SUBSET Entries : Ordered(entries)}
WalkingSound ==
  /\ frames \in Seq([entries : WellOrdered, previous : Entries \cup {None}])
  /\ pc = "input" => LegibleFile(file)

\* So are its sections.
IsPath(path) == \E S : path \in Seq(S)
Legible(s) == IsText(s.title) /\ LegibleSection(s.section) /\ IsPath(s.groups)
SourcesSound ==
  /\ \E S : sources \in Seq(S)
  /\ \A i \in 1..Len(sources) : Legible(sources[i])
  /\ source \in 0..Len(sources)
  /\ pc \in Counting \cup Converting \cup {"openSection"} => source >= 1
  /\ pc \in Counting \cup Converting => Section.opens

\* A level's folder is a path, and a page's title a string.
TitlesSound ==
  /\ \A level \in DOMAIN folders : IsPath(folders[level])
  /\ pc = "page" => IsText(page.title)

\* Every file has a name that was claimed in its folder, and the note or attachment
\* about to be created has one that no file of that folder has, but for case.
IsTaken(path) ==
  \E folder, name : /\ IsPath(folder) /\ path = Append(folder, name)
                    /\ ClaimKey(folder, name) \in made.names
IsFresh(path) ==
  \A f \in made.disk.files : Front(f.path) = Front(path) => Folded(Last(f.path)) # Folded(Last(path))
HasFields(m) ==
  /\ {"names", "content", "disk", "notes", "attachments", "skipped", "errors", "progress"}
       \subseteq DOMAIN m
  /\ {"folds", "files", "folders"} \subseteq DOMAIN m.disk
MadeSound ==
  /\ HasFields(made) /\ IsFiniteSet(made.names)
  /\ \A f \in made.disk.files : IsTaken(f.path)
  /\ pc \in OnNote => IsTaken(note)
  /\ pc = "openNote" => IsFresh(note)
  /\ pc = "saveAsset" => IsTaken(asset) /\ IsFresh(asset)

NamesSound == WalkingSound /\ SourcesSound /\ TitlesSound /\ MadeSound

-----------------------------------------------------------------------------
\* Strings in hand

\* The entries of a folder beyond the last one taken have a first.
LEMMA NextIsThere ==
  ASSUME NEW frame, Ordered(frame.entries), Beyond(frame) # {}
  PROVE  NextEntry(frame) \in frame.entries
<1> DEFINE B == Beyond(frame)
           localesOf == {e.locale : e \in B}
<1>1. B \subseteq frame.entries /\ B # {} /\ \A e \in B : e.locale \in Nat /\ e.units \in Nat
  BY DEF Beyond, Ordered
<1>2. PICK a \in B : \A e \in B : a.locale <= e.locale
  <2> HIDE DEF B
  <2>1. localesOf \subseteq Nat /\ localesOf # {}
    BY <1>1
  <2>2. PICK l \in localesOf : \A m \in localesOf : l <= m
    <3> HIDE DEF localesOf
    <3>. QED  BY <2>1, Least
  <2>. QED  BY <2>2
<1> DEFINE C == {e \in B : e.locale = a.locale}
           unitsOf == {e.units : e \in C}
<1>3. PICK b \in C : \A e \in C : b.units <= e.units
  <2>1. C # {} /\ \A e \in C : e.units \in Nat
    BY <1>1
  <2> HIDE DEF C
  <2>2. unitsOf \subseteq Nat /\ unitsOf # {}
    BY <2>1
  <2>3. PICK l \in unitsOf : \A m \in unitsOf : l <= m
    <3> HIDE DEF unitsOf
    <3>. QED  BY <2>2, Least
  <2>. QED  BY <2>3
<1>4. \A e \in B \ {b} : Before(b, e)
  <2> SUFFICES ASSUME NEW e \in B \ {b} PROVE Before(b, e)
    OBVIOUS
  <2>1. b \in B /\ b.locale = a.locale /\ a.locale <= e.locale
    BY <1>2, <1>3
  <2>2. b.locale \in Nat /\ e.locale \in Nat /\ b.units \in Nat /\ e.units \in Nat
    BY <1>1, <2>1
  <2>3. b.locale = e.locale => b.units <= e.units
    BY <1>3, <2>1
  <2>4. b.locale = e.locale => b.units # e.units
    BY <1>1, <2>1 DEF Ordered
  <2>. QED  BY <2>1, <2>2, <2>3, <2>4 DEF Before
<1>5. NextEntry(frame) \in B
  <2>1. \E e \in B : \A other \in B \ {e} : Before(e, other)
    BY <1>4
  <2> HIDE DEF B
  <2>. QED  BY <2>1 DEF NextEntry, B
<1>. QED  BY <1>1, <1>5

LEMMA WalkingStays ==
  ASSUME WalkingSound, UNCHANGED walking, pc' = pc \/ pc' # "input"
  PROVE  WalkingSound'
BY DEF WalkingSound, walking

LEMMA WalkingStep == WalkingSound /\ [Next]_vars => WalkingSound'
<1> SUFFICES ASSUME WalkingSound, [Next]_vars PROVE WalkingSound'
  OBVIOUS
<1> USE DEF Goto
<1>1. ASSUME Discover PROVE WalkingSound'
  <2> DEFINE frame == Last(frames)
             entry == NextEntry(frame)
             FrameSet == [entries : WellOrdered, previous : Entries \cup {None}]
             past == [frames EXCEPT ![Len(frames)].previous = entry]
  <2>0. frames \in Seq(FrameSet) /\ frames # <<>> /\ pc = "discover"
    BY <1>1 DEF Discover, WalkingSound
  <2>1. Len(frames) \in Nat /\ Len(frames) >= 1 /\ frame = frames[Len(frames)] /\ frame \in FrameSet
    <3> HIDE DEF FrameSet
    <3>1. Len(frames) \in Nat /\ Len(frames) >= 1
      BY <2>0, EmptySeq
    <3>2. frames[Len(frames)] \in FrameSet
      BY <2>0, <3>1, ElementOfSeq
    <3>. QED  BY <3>1, <3>2 DEF Last
  <2>2. CASE Beyond(frame) = {}
    <3>1. frames' = Front(frames) /\ pc' = pc
      BY <1>1, <2>2 DEF Discover
    <3>2. Front(frames) \in Seq(FrameSet)
      <4> HIDE DEF FrameSet
      <4>1. \A i \in 1..Len(frames) - 1 : frames[i] \in FrameSet
        <5>1. \A i \in 1..Len(frames) - 1 : i \in 1..Len(frames)
          BY <2>1
        <5>. QED  BY <2>0, <5>1, ElementOfSeq
      <4>. QED  BY <2>1, <4>1, SubSeqProperties DEF Front
    <3>. QED  BY <2>0, <3>1, <3>2 DEF WalkingSound
  <2>3. CASE Beyond(frame) # {}
    <3>1. entry \in frame.entries /\ entry \in Entries
      <4>1. frame.entries \in WellOrdered
        BY <2>1
      <4>2. Ordered(frame.entries) /\ frame.entries \subseteq Entries
        BY <4>1 DEF WellOrdered
      <4>. QED  BY <2>3, <4>2, NextIsThere
    <3>2. past \in Seq(FrameSet)
      <4>1. [frame EXCEPT !.previous = entry] \in FrameSet
        BY <2>1, <3>1
      <4>2. past = [frames EXCEPT ![Len(frames)] = [frame EXCEPT !.previous = entry]]
        BY <2>1
      <4> HIDE DEF past, FrameSet, entry, frame
      <4>. QED  BY <2>0, <2>1, <4>1, <4>2, ExceptSeq
    <3>3. CASE entry.isDirectory
      <4> DEFINE inner == [entries |-> entry.entries, previous |-> None]
      <4>1. frames' = Append(past, inner) /\ pc' = pc
        BY <1>1, <2>3, <3>3 DEF Discover
      <4>2. inner \in FrameSet
        BY <3>1, <3>3, EntriesLegible DEF WellOrdered
      <4> HIDE DEF past, FrameSet, inner
      <4>3. Append(past, inner) \in Seq(FrameSet)
        BY <3>2, <4>2, AppendProperties
      <4>. QED  BY <2>0, <4>1, <4>3 DEF WalkingSound, FrameSet
    <3>4. CASE ~entry.isDirectory
      <4>1. frames' = past /\ \/ entry.ours /\ file' = entry.file
                              \/ pc' = pc
        BY <1>1, <2>3, <3>4 DEF Discover
      <4>2. entry.ours => LegibleFile(entry.file)
        BY <3>1, <3>4, EntriesLegible
      <4>3. frames' \in Seq(FrameSet)
        BY <3>2, <4>1
      <4>. QED  BY <2>0, <4>1, <4>2, <4>3 DEF WalkingSound
    <3>. QED  BY <3>3, <3>4
  <2>. QED  BY <2>2, <2>3
<1>2. ASSUME StopInputs PROVE WalkingSound'
  BY <1>2, WalkingStays DEF StopInputs
<1>3. ASSUME RefuseInput PROVE WalkingSound'
  BY <1>3, WalkingStays DEF RefuseInput
<1>4. ASSUME OpenInput PROVE WalkingSound'
  BY <1>4, WalkingStays DEF OpenInput
<1>5. ASSUME NoMoreSections PROVE WalkingSound'
  BY <1>5, WalkingStays DEF NoMoreSections
<1>6. ASSUME NextSection PROVE WalkingSound'
  BY <1>6, WalkingStays DEF NextSection
<1>7. ASSUME OpenFails PROVE WalkingSound'
  BY <1>7, WalkingStays DEF OpenFails
<1>8. ASSUME ClaimSection PROVE WalkingSound'
  BY <1>8, WalkingStays DEF ClaimSection
<1>9. ASSUME CloseSection PROVE WalkingSound'
  BY <1>9, WalkingStays DEF CloseSection
<1>10. ASSUME CountRepeated PROVE WalkingSound'
  BY <1>10, WalkingStays DEF CountRepeated, Repeated
<1>11. ASSUME CountReached PROVE WalkingSound'
  BY <1>11, WalkingStays DEF CountReached, Reached
<1>12. ASSUME CountPage PROVE WalkingSound'
  BY <1>12, WalkingStays DEF CountPage, StopSection, SectionFails
<1>13. ASSUME StartPages PROVE WalkingSound'
  BY <1>13, WalkingStays DEF StartPages
<1>14. ASSUME PageRepeated PROVE WalkingSound'
  BY <1>14, WalkingStays DEF PageRepeated, Repeated
<1>15. ASSUME PageReached PROVE WalkingSound'
  BY <1>15, WalkingStays DEF PageReached, Reached
<1>16. ASSUME NoMorePages PROVE WalkingSound'
  BY <1>16, WalkingStays DEF NoMorePages
<1>17. ASSUME ReadPage PROVE WalkingSound'
  BY <1>17, WalkingStays DEF ReadPage, SectionFails
<1>18. ASSUME PassOver PROVE WalkingSound'
  BY <1>18, WalkingStays DEF PassOver, StopSection
<1>19. ASSUME ClaimNote PROVE WalkingSound'
  BY <1>19, WalkingStays DEF ClaimNote
<1>20. ASSUME OpenNote PROVE WalkingSound'
  BY <1>20, WalkingStays DEF OpenNote, PageFails
<1>21. ASSUME Interrupted PROVE WalkingSound'
  BY <1>21, WalkingStays DEF Interrupted
<1>22. ASSUME FindAsset PROVE WalkingSound'
  BY <1>22, WalkingStays DEF FindAsset
<1>23. ASSUME SaveAsset PROVE WalkingSound'
  BY <1>23, WalkingStays DEF SaveAsset, PageFails
<1>24. ASSUME FinishNote PROVE WalkingSound'
  BY <1>24, WalkingStays DEF FinishNote, PageFails
<1>25. ASSUME Level PROVE WalkingSound'
  BY <1>25, WalkingStays DEF Level
<1>26. ASSUME Finish PROVE WalkingSound'
  BY <1>26, WalkingStays DEF Finish
<1>27. ASSUME Ask PROVE WalkingSound'
  BY <1>27, WalkingStays DEF Ask
<1>28. ASSUME UNCHANGED vars PROVE WalkingSound'
  BY <1>28, WalkingStays DEF vars
<1>. QED
  BY <1>1, <1>2, <1>3, <1>4, <1>5, <1>6, <1>7, <1>8, <1>9, <1>10, <1>11, <1>12, <1>13, <1>14, <1>15,
     <1>16, <1>17, <1>18, <1>19, <1>20, <1>21, <1>22, <1>23, <1>24, <1>25, <1>26, <1>27, <1>28
  DEF Next, Convert

\* What is read of a section's manifest, or of an archive's, is legible.
LEMMA SectionsLegible ==
  ASSUME LegibleFile(file), ~Unreadable(file)
  PROVE  /\ \E S : SectionsOf \in Seq(S)
         /\ \A i \in 1..Len(SectionsOf) : Legible(SectionsOf[i])
<1>1. CASE file.kind = "section"
  <2> DEFINE s == [title |-> file.name, groups |-> <<>>, section |-> file.section]
  <2>1. SectionsOf = <<s>>
    BY <1>1 DEF SectionsOf
  <2>2. <<>> \in Seq({})
    OBVIOUS
  <2>3. IsText(s.title) /\ LegibleSection(s.section) /\ s.groups = <<>>
    BY <1>1 DEF LegibleFile
  <2>4. Legible(s)
    BY <2>2, <2>3 DEF Legible, IsPath
  <2> HIDE DEF s
  <2>5. <<s>> \in Seq({s}) /\ Len(<<s>>) = 1 /\ <<s>>[1] = s
    OBVIOUS
  <2>6. \A i \in 1..1 : <<s>>[i] = s
    BY <2>5
  <2>. QED  BY <2>1, <2>4, <2>5, <2>6
<1>2. CASE file.kind # "section"
  <2> DEFINE Of(s) == [title |-> Last(s.path), groups |-> GroupsOf(s.path), section |-> s.section]
             all == [i \in DOMAIN file.sections |-> Of(file.sections[i])]
             wanted == {i \in DOMAIN file.sections :
                          options.wanted = {} \/ file.sections[i].path \in options.wanted}
             n == Len(file.sections)
  <2>1. file.kind = "archive" /\ file.opens
    BY <1>2 DEF LegibleFile, Unreadable
  <2>2. /\ IsText(file.sections)
        /\ \A i \in DOMAIN file.sections : /\ IsText(file.sections[i].path)
                                           /\ IsText(Last(file.sections[i].path))
                                           /\ LegibleSection(file.sections[i].section)
    BY <2>1 DEF LegibleFile
  <2>3. n \in Nat /\ DOMAIN file.sections = 1..n
    BY <2>2, TextIsSeq
  <2>4. \A i \in 1..n : Legible(all[i])
    <3> SUFFICES ASSUME NEW i \in 1..n PROVE Legible(all[i])
      OBVIOUS
    <3> DEFINE path == file.sections[i].path
    <3>1. all[i] = Of(file.sections[i])
      BY <2>3
    <3>2. IsText(path) /\ IsText(Last(path)) /\ LegibleSection(file.sections[i].section)
      BY <2>2, <2>3
    <3>3. IsPath(GroupsOf(path))
      <4>1. IsFiniteSet(1..Len(path) - 1)
        <5> DEFINE last == Len(path) - 1
        <5>1. last \in Int
          BY <3>2, TextIsSeq
        <5> HIDE DEF last
        <5>2. IsFiniteSet(1..last)
          BY <5>1, FS_Interval
        <5>. QED  BY <5>2 DEF last
      <4>2. IsFiniteSet({k \in 1..Len(path) - 1 : path[k] \notin {<<>>, <<".">>}})
        BY <4>1, FS_Subset
      <4>3. IsText(GroupsOf(path))
        BY <4>2, PickedIsText DEF GroupsOf
      <4>. QED  BY <4>3, TextIsSeq DEF IsPath
    <3>. QED  BY <3>1, <3>2, <3>3 DEF Legible
  <2>5. IsFiniteSet(wanted) /\ wanted \subseteq 1..n
    <3>1. IsFiniteSet(1..n)
      BY <2>3, FS_Interval
    <3>2. wanted \subseteq 1..n
      BY <2>3
    <3> HIDE DEF wanted
    <3>. QED  BY <3>1, <3>2, FS_Subset
  <2>6. SectionsOf = Selected(all, wanted)
    BY <1>2 DEF SectionsOf
  <2> HIDE DEF all, wanted, n
  <2>7. SectionsOf \in Seq({all[p] : p \in wanted})
    <3>1. IsText(all)
      <4>1. \A i \in 1..n : all[i] \in {all[k] : k \in 1..n}
        OBVIOUS
      <4>2. all \in [1..n -> {all[k] : k \in 1..n}]
        BY <2>3, <4>1 DEF all
      <4>3. all \in Seq({all[k] : k \in 1..n})
        BY <2>3, <4>2, SeqDef
      <4>. QED  BY <4>3, SeqIsText
    <3>2. wanted \subseteq DOMAIN all
      BY <2>3, <2>5 DEF all
    <3>. QED  BY <2>6, <3>1, <3>2, PickedIsThere
  <2>8. \A s \in {all[p] : p \in wanted} : Legible(s)
    BY <2>4, <2>5
  <2>. QED  BY <2>7, <2>8, ElementOfSeq
<1>. QED  BY <1>1, <1>2

LEMMA SourcesStay ==
  ASSUME SourcesSound, UNCHANGED listing,
         \/ pc' \notin Counting \cup Converting \cup {"openSection"}
         \/ pc' = pc
         \/ pc' \in Counting \cup Converting /\ pc \in Counting \cup Converting
         \/ pc' \in Counting \cup Converting /\ pc = "openSection" /\ Section.opens
  PROVE  SourcesSound'
<1>1. Section' = Section
  BY DEF listing, Section, Source
<1>2. "openSection" \notin Counting \cup Converting
  BY DEF Counting, Converting, OnNote
<1>. QED  BY <1>1, <1>2 DEF SourcesSound, listing

LEMMA SourcesStep == WalkingSound /\ SourcesSound /\ [Next]_vars => SourcesSound'
<1> SUFFICES ASSUME WalkingSound, SourcesSound, [Next]_vars PROVE SourcesSound'
  OBVIOUS
<1> USE DEF Goto, Counting, Converting, OnNote, listing
<1>1. ASSUME Discover PROVE SourcesSound'
  BY <1>1, SourcesStay DEF Discover
<1>2. ASSUME StopInputs PROVE SourcesSound'
  BY <1>2, SourcesStay DEF StopInputs
<1>3. ASSUME RefuseInput PROVE SourcesSound'
  BY <1>3, SourcesStay DEF RefuseInput
<1>4. ASSUME OpenInput PROVE SourcesSound'
  <2>1. LegibleFile(file) /\ ~Unreadable(file)
    BY <1>4 DEF OpenInput, WalkingSound
  <2>2. sources' = SectionsOf /\ source' = 0 /\ pc' = "section"
    BY <1>4 DEF OpenInput
  <2>3. (\E S : sources' \in Seq(S)) /\ \A i \in 1..Len(sources') : Legible(sources'[i])
    BY <2>1, <2>2, SectionsLegible
  <2>4. Len(sources') \in Nat
    BY <2>3, LenProperties
  <2>. QED  BY <2>2, <2>3, <2>4 DEF SourcesSound
<1>5. ASSUME NoMoreSections PROVE SourcesSound'
  BY <1>5, SourcesStay DEF NoMoreSections
<1>6. ASSUME NextSection PROVE SourcesSound'
  <2>1. sources' = sources /\ source' = source + 1 /\ source < Len(sources) /\ pc' = "openSection"
    BY <1>6 DEF NextSection
  <2>2. Len(sources) \in Nat
    BY LenProperties DEF SourcesSound
  <2>. QED  BY <2>1, <2>2 DEF SourcesSound
<1>7. ASSUME OpenFails PROVE SourcesSound'
  BY <1>7, SourcesStay DEF OpenFails
<1>8. ASSUME ClaimSection PROVE SourcesSound'
  BY <1>8, SourcesStay DEF ClaimSection
<1>9. ASSUME CloseSection PROVE SourcesSound'
  BY <1>9, SourcesStay DEF CloseSection
<1>10. ASSUME CountRepeated PROVE SourcesSound'
  BY <1>10, SourcesStay DEF CountRepeated, Repeated
<1>11. ASSUME CountReached PROVE SourcesSound'
  BY <1>11, SourcesStay DEF CountReached, Reached
<1>12. ASSUME CountPage PROVE SourcesSound'
  BY <1>12, SourcesStay DEF CountPage, StopSection, SectionFails
<1>13. ASSUME StartPages PROVE SourcesSound'
  BY <1>13, SourcesStay DEF StartPages
<1>14. ASSUME PageRepeated PROVE SourcesSound'
  BY <1>14, SourcesStay DEF PageRepeated, Repeated
<1>15. ASSUME PageReached PROVE SourcesSound'
  BY <1>15, SourcesStay DEF PageReached, Reached
<1>16. ASSUME NoMorePages PROVE SourcesSound'
  BY <1>16, SourcesStay DEF NoMorePages
<1>17. ASSUME ReadPage PROVE SourcesSound'
  BY <1>17, SourcesStay DEF ReadPage, SectionFails
<1>18. ASSUME PassOver PROVE SourcesSound'
  BY <1>18, SourcesStay DEF PassOver, StopSection
<1>19. ASSUME ClaimNote PROVE SourcesSound'
  BY <1>19, SourcesStay DEF ClaimNote
<1>20. ASSUME OpenNote PROVE SourcesSound'
  BY <1>20, SourcesStay DEF OpenNote, PageFails
<1>21. ASSUME Interrupted PROVE SourcesSound'
  BY <1>21, SourcesStay DEF Interrupted
<1>22. ASSUME FindAsset PROVE SourcesSound'
  BY <1>22, SourcesStay DEF FindAsset
<1>23. ASSUME SaveAsset PROVE SourcesSound'
  BY <1>23, SourcesStay DEF SaveAsset, PageFails
<1>24. ASSUME FinishNote PROVE SourcesSound'
  BY <1>24, SourcesStay DEF FinishNote, PageFails
<1>25. ASSUME Level PROVE SourcesSound'
  BY <1>25, SourcesStay DEF Level
<1>26. ASSUME Finish PROVE SourcesSound'
  BY <1>26, SourcesStay DEF Finish
<1>27. ASSUME Ask PROVE SourcesSound'
  BY <1>27, SourcesStay DEF Ask
<1>28. ASSUME UNCHANGED vars PROVE SourcesSound'
  BY <1>28, SourcesStay DEF vars
<1>. QED
  BY <1>1, <1>2, <1>3, <1>4, <1>5, <1>6, <1>7, <1>8, <1>9, <1>10, <1>11, <1>12, <1>13, <1>14, <1>15,
     <1>16, <1>17, <1>18, <1>19, <1>20, <1>21, <1>22, <1>23, <1>24, <1>25, <1>26, <1>27, <1>28
  DEF Next, Convert

\* The page in hand is one of a section in hand, and both are legible.
LEMMA SpaceLegible ==
  ASSUME WalkSound, SourcesSound, pc \in Converting, pc # "pages"
  PROVE  LegibleSpace(Space)
<1>1. at \in Nat /\ at >= 1 /\ 1..at \subseteq DOMAIN Listed
  BY DEF WalkSound, Converting, Counting, OnNote
<1>2. Section.opens /\ source \in 1..Len(sources)
  BY DEF SourcesSound
<1>3. LegibleSection(Section)
  BY <1>2 DEF SourcesSound, Legible, Section, Source
<1>4. at \in DOMAIN ListedIn(Section)
  BY <1>1 DEF Listed
<1>. QED  BY <1>2, <1>3, <1>4 DEF LegibleSection, Space, Listed

LEMMA TitleIsText ==
  ASSUME NEW space, LegibleSpace(space)
  PROVE  IsText(TitleOf(space))
<1>1. IsText(space.titleText)
  BY DEF LegibleSpace
<1>2. \A title \in {space.cached, space.titleOnPage} : title # None => IsText(title)
  BY DEF LegibleSpace
<1>. QED  BY <1>1, <1>2, EmptyIsText DEF TitleOf

\* A folder, a name within it, and the path of the two.
LEMMA PathParts ==
  ASSUME NEW folder, IsPath(folder), NEW name
  PROVE  LET path == Append(folder, name)
         IN  IsPath(path) /\ Front(path) = folder /\ Last(path) = name
<1>1. PICK S : folder \in Seq(S)
  BY DEF IsPath
<1> DEFINE T == S \cup {name}
           path == Append(folder, name)
<1>2. folder \in Seq(T) /\ name \in T
  BY <1>1, SeqMonotonic
<1> HIDE DEF T
<1>3. /\ path \in Seq(T) /\ Len(path) = Len(folder) + 1 /\ Len(folder) \in Nat
      /\ \A i \in 1..Len(folder) : path[i] = folder[i]
      /\ path[Len(folder) + 1] = name
  BY <1>2, AppendProperties, LenProperties
<1> HIDE DEF path
<1>4. Last(path) = name
  BY <1>3 DEF Last
<1>5. Front(path) = folder
  <2>1. Front(path) = SubSeq(path, 1, Len(folder))
    BY <1>3 DEF Front
  <2>2. /\ SubSeq(path, 1, Len(folder)) \in Seq(T) /\ Len(SubSeq(path, 1, Len(folder))) = Len(folder)
        /\ \A i \in 1..Len(folder) : SubSeq(path, 1, Len(folder))[i] = path[i]
    BY <1>3, SubSeqProperties
  <2>. QED  BY <1>2, <1>3, <2>1, <2>2, SeqEqual
<1>. QED  BY <1>3, <1>4, <1>5 DEF IsPath, path

LEMMA ParentIsPath ==
  ASSUME SourcesSound, source >= 1
  PROVE  IsPath(Parent)
<1>1. PICK S : Source.groups \in Seq(S)
  BY DEF SourcesSound, Legible, IsPath, Source
<1> DEFINE of == [i \in DOMAIN Source.groups |-> Sanitized(Source.groups[i])]
           book == IF Notebook = None THEN <<>> ELSE <<Sanitized(Notebook)>>
           T == {of[i] : i \in 1..Len(Source.groups)} \cup {Sanitized(Notebook)}
<1>2. DOMAIN Source.groups = 1..Len(Source.groups) /\ Len(Source.groups) \in Nat
  BY <1>1, LenProperties
<1>3. of \in Seq(T)
  <2>1. of \in [1..Len(Source.groups) -> T]
    BY <1>2
  <2> HIDE DEF of, T
  <2>. QED  BY <1>2, <2>1, SeqDef
<1>4. book \in Seq(T)
  <2>1. Sanitized(Notebook) \in T
    OBVIOUS
  <2> HIDE DEF T
  <2>. QED  BY <2>1
<1>5. Parent = book \o of
  BY DEF Parent
<1> HIDE DEF of, book, T
<1>. QED  BY <1>3, <1>4, <1>5, ConcatProperties DEF IsPath

\* The folder a page's note, and its subpages, go to.
LEMMA FolderIsPath ==
  ASSUME NestSound, TitlesSound, pc \in Converting, NEW level \in 0..depth
  PROVE  IsPath(folders[level])
BY DEF NestSound, TitlesSound

LEMMA TitlesStay ==
  ASSUME TitlesSound, UNCHANGED folders, pc' # "page" \/ (pc' = pc /\ page' = page)
  PROVE  TitlesSound'
BY DEF TitlesSound

LEMMA TitlesStep ==
  WalkSound /\ NestSound /\ SourcesSound /\ TitlesSound /\ [Next]_vars => TitlesSound'
<1> SUFFICES ASSUME WalkSound, NestSound, SourcesSound, TitlesSound, [Next]_vars PROVE TitlesSound'
  OBVIOUS
<1> USE DEF Goto, nesting, writing
<1>1. ASSUME Discover PROVE TitlesSound'
  BY <1>1, TitlesStay DEF Discover
<1>2. ASSUME StopInputs PROVE TitlesSound'
  BY <1>2, TitlesStay DEF StopInputs
<1>3. ASSUME RefuseInput PROVE TitlesSound'
  BY <1>3, TitlesStay DEF RefuseInput
<1>4. ASSUME OpenInput PROVE TitlesSound'
  BY <1>4, TitlesStay DEF OpenInput
<1>5. ASSUME NoMoreSections PROVE TitlesSound'
  BY <1>5, TitlesStay DEF NoMoreSections
<1>6. ASSUME NextSection PROVE TitlesSound'
  BY <1>6, TitlesStay DEF NextSection
<1>7. ASSUME OpenFails PROVE TitlesSound'
  BY <1>7, TitlesStay DEF OpenFails
<1>8. ASSUME ClaimSection PROVE TitlesSound'
  <2>1. PICK name : folders' = [l \in DOMAIN folders \cup {0} |->
                               IF l = 0 THEN Append(Parent, name) ELSE folders[l]]
    BY <1>8 DEF ClaimSection, SetLevel
  <2>2. pc' # "page" /\ source >= 1
    BY <1>8 DEF ClaimSection, SourcesSound
  <2>3. IsPath(Append(Parent, name))
    BY <2>2, ParentIsPath, PathParts
  <2>. QED  BY <2>1, <2>2, <2>3 DEF TitlesSound
<1>9. ASSUME CloseSection PROVE TitlesSound'
  <2>1. folders' = <<>> /\ pc' # "page"
    BY <1>9 DEF CloseSection
  <2>2. DOMAIN <<>> = {}
    OBVIOUS
  <2>. QED  BY <2>1, <2>2 DEF TitlesSound
<1>10. ASSUME CountRepeated PROVE TitlesSound'
  BY <1>10, TitlesStay DEF CountRepeated, Repeated
<1>11. ASSUME CountReached PROVE TitlesSound'
  BY <1>11, TitlesStay DEF CountReached, Reached
<1>12. ASSUME CountPage PROVE TitlesSound'
  BY <1>12, TitlesStay DEF CountPage, StopSection, SectionFails
<1>13. ASSUME StartPages PROVE TitlesSound'
  BY <1>13, TitlesStay DEF StartPages
<1>14. ASSUME PageRepeated PROVE TitlesSound'
  BY <1>14, TitlesStay DEF PageRepeated, Repeated
<1>15. ASSUME PageReached PROVE TitlesSound'
  BY <1>15, TitlesStay DEF PageReached, Reached
<1>16. ASSUME NoMorePages PROVE TitlesSound'
  BY <1>16, TitlesStay DEF NoMorePages
<1>17. ASSUME ReadPage PROVE TitlesSound'
  <2>1. CASE pc' # "page"
    BY <1>17, <2>1, TitlesStay DEF ReadPage
  <2>2. CASE pc' = "page"
    <3>1. pc = "readPage" /\ folders' = folders /\ page'.title = TitleOf(Space)
      BY <1>17, <2>2 DEF ReadPage, SectionFails
    <3>2. LegibleSpace(Space)
      BY <3>1, SpaceLegible DEF Converting
    <3>. QED  BY <3>1, <3>2, TitleIsText DEF TitlesSound
  <2>. QED  BY <2>1, <2>2
<1>18. ASSUME PassOver PROVE TitlesSound'
  BY <1>18, TitlesStay DEF PassOver, StopSection
<1>19. ASSUME ClaimNote PROVE TitlesSound'
  BY <1>19, TitlesStay DEF ClaimNote
<1>20. ASSUME OpenNote PROVE TitlesSound'
  BY <1>20, TitlesStay DEF OpenNote, PageFails
<1>21. ASSUME Interrupted PROVE TitlesSound'
  BY <1>21, TitlesStay DEF Interrupted
<1>22. ASSUME FindAsset PROVE TitlesSound'
  BY <1>22, TitlesStay DEF FindAsset
<1>23. ASSUME SaveAsset PROVE TitlesSound'
  BY <1>23, TitlesStay DEF SaveAsset, PageFails
<1>24. ASSUME FinishNote PROVE TitlesSound'
  BY <1>24, TitlesStay DEF FinishNote, PageFails
<1>25. ASSUME Level PROVE TitlesSound'
  <2>1. PICK name : folders' = [l \in DOMAIN folders \cup {depth + 1} |->
                               IF l = depth + 1 THEN Append(Folder, name) ELSE folders[l]]
    BY <1>25 DEF Level, SetLevel
  <2>2. pc' # "page" /\ pc \in Converting
    BY <1>25 DEF Level, Converting, OnNote
  <2>3. IsPath(Folder)
    <3>1. depth \in 0..depth
      BY <2>2 DEF NestSound
    <3>. QED  BY <2>2, <3>1, FolderIsPath DEF Folder
  <2>4. IsPath(Append(Folder, name))
    BY <2>3, PathParts
  <2>. QED  BY <2>1, <2>2, <2>4 DEF TitlesSound
<1>26. ASSUME Finish PROVE TitlesSound'
  BY <1>26, TitlesStay DEF Finish
<1>27. ASSUME Ask PROVE TitlesSound'
  BY <1>27, TitlesStay DEF Ask
<1>28. ASSUME UNCHANGED vars PROVE TitlesSound'
  BY <1>28, TitlesStay DEF vars
<1>. QED
  BY <1>1, <1>2, <1>3, <1>4, <1>5, <1>6, <1>7, <1>8, <1>9, <1>10, <1>11, <1>12, <1>13, <1>14, <1>15,
     <1>16, <1>17, <1>18, <1>19, <1>20, <1>21, <1>22, <1>23, <1>24, <1>25, <1>26, <1>27, <1>28
  DEF Next, Convert

-----------------------------------------------------------------------------
\* Names claimed

LEMMA JoinedIsText ==
  ASSUME NEW a, IsText(a), NEW b, IsText(b)
  PROVE  IsText(a \o b)
<1> DEFINE S == Held(a) \cup Held(b)
<1>1. a \in Seq(S) /\ b \in Seq(S)
  <2>1. a \in Seq(Held(a)) /\ b \in Seq(Held(b))
    BY TextIsSeq
  <2>2. Held(a) \subseteq S /\ Held(b) \subseteq S
    OBVIOUS
  <2> HIDE DEF S
  <2>. QED  BY <2>1, <2>2, SeqMonotonic
<1> HIDE DEF S
<1>. QED  BY <1>1, ConcatProperties, SeqIsText

\* What a note and an attachment would be called are strings.
LEMMA WantedIsText ==
  /\ \A title : IsText(title) => IsText(Sanitized(title) \o Markdown)
  /\ \A s : s.embeds # None /\ LegibleSpace(s) => IsText(Sanitized(Suggested(s.embeds)))
<1>1. IsText(Markdown) /\ IsText(<<".">>)
  <2>1. Markdown \in Seq({".", "md"}) /\ <<".">> \in Seq({"."})
    BY DEF Markdown
  <2>. QED  BY <2>1, SeqIsText
<1>2. ASSUME NEW title, IsText(title) PROVE IsText(Sanitized(title) \o Markdown)
  BY <1>1, <1>2, SanitizedIsText, JoinedIsText
<1>3. ASSUME NEW s, s.embeds # None, LegibleSpace(s) PROVE IsText(Sanitized(Suggested(s.embeds)))
  <2>1. IsText(s.embeds.name) /\ IsText(s.embeds.sniffed)
    BY <1>3 DEF LegibleSpace
  <2>2. IsText((s.embeds.name \o <<".">>) \o s.embeds.sniffed)
    BY <1>1, <2>1, JoinedIsText
  <2>3. IsText(Suggested(s.embeds))
    BY <2>1, <2>2 DEF Suggested
  <2>. QED  BY <2>3, SanitizedIsText
<1>. QED  BY <1>2, <1>3

\* A name that is claimed is one no file of the folder has, and stays claimed.
LEMMA ClaimFrees ==
  ASSUME NumeralsDiffer, MadeSound, NEW folder, IsPath(folder), NEW base, IsText(base),
         NEW name, name = Chosen(folder, base), Claim(folder, name)
  PROVE  /\ HasFields(made') /\ IsFiniteSet(made'.names) /\ made'.disk = made.disk
         /\ \A p : IsTaken(p) => IsTaken(p)'
         /\ IsTaken(Append(folder, name))' /\ IsFresh(Append(folder, name))'
<1> DEFINE path == Append(folder, name)
           key == ClaimKey(folder, name)
<1>1. made' = [made EXCEPT !.names = @ \cup {key}]
  BY DEF Claim
<1>2. key \notin made.names
  BY ChosenIsFree DEF MadeSound
<1>3. HasFields(made') /\ made'.disk = made.disk /\ made'.names = made.names \cup {key}
  BY <1>1 DEF MadeSound, HasFields
<1>4. IsFiniteSet(made'.names)
  BY <1>3, FS_AddElement DEF MadeSound
<1>5. \A p : IsTaken(p) => IsTaken(p)'
  BY <1>3 DEF IsTaken
<1>6. IsTaken(path)'
  BY <1>3 DEF IsTaken
<1>7. IsFresh(path)'
  <2> SUFFICES ASSUME NEW f \in made.disk.files, Front(f.path) = Front(path)
               PROVE  Folded(Last(f.path)) # Folded(Last(path))
    BY <1>3 DEF IsFresh
  <2>1. PICK within, called : /\ IsPath(within) /\ f.path = Append(within, called)
                              /\ ClaimKey(within, called) \in made.names
    BY DEF MadeSound, IsTaken
  <2>2. /\ Front(f.path) = within /\ Last(f.path) = called
        /\ Front(path) = folder /\ Last(path) = name
    BY <2>1, PathParts
  <2>3. ClaimKey(within, called) # key
    BY <1>2, <2>1
  <2>. QED  BY <2>2, <2>3 DEF ClaimKey
<1>. QED  BY <1>3, <1>4, <1>5, <1>6, <1>7

-----------------------------------------------------------------------------
\* Files written

\* What the operations of the disk leave on it.
LEMMA DiskFiles ==
  ASSUME NEW disk, {"folds", "files", "folders"} \subseteq DOMAIN disk, NEW path, NEW content
  PROVE  /\ {"folds", "files", "folders"} \subseteq DOMAIN Prepared(disk, path)
         /\ {"folds", "files", "folders"} \subseteq DOMAIN Removed(disk, path)
         /\ {"folds", "files", "folders"} \subseteq DOMAIN With(disk, path, content)
         /\ Prepared(disk, path).files = disk.files
         /\ \A f \in Removed(disk, path).files : f \in disk.files
         /\ \A f \in With(disk, path, content).files : f \in disk.files \/ f.path = path
<1>1. /\ {"folds", "files", "folders"} \subseteq DOMAIN Prepared(disk, path)
      /\ Prepared(disk, path).files = disk.files
  BY DEF Prepared
<1>2. /\ {"folds", "files", "folders"} \subseteq DOMAIN Removed(disk, path)
      /\ Removed(disk, path).files = {f \in disk.files : f.path # path}
  BY DEF Removed
<1>3. /\ {"folds", "files", "folders"} \subseteq DOMAIN With(disk, path, content)
      /\ \/ With(disk, path, content).files = disk.files
         \/ With(disk, path, content).files = disk.files \cup {[path |-> path, content |-> content]}
  <2> DEFINE prepared == Prepared(disk, path)
  <2>1. {"folds", "files", "folders"} \subseteq DOMAIN prepared /\ prepared.files = disk.files
    BY <1>1
  <2>2. With(disk, path, content) = prepared
        \/ With(disk, path, content) =
             [prepared EXCEPT !.files = @ \cup {[path |-> path, content |-> content]}]
    BY DEF With
  <2> HIDE DEF prepared
  <2>. QED  BY <2>1, <2>2
<1>. QED  BY <1>1, <1>2, <1>3

Reports == {"notes", "attachments", "skipped", "errors", "progress"}
LEMMA ToldKeeps ==
  ASSUME NEW m, HasFields(m), NEW list \in Reports, NEW item
  PROVE  LET told == Told(m, list, item)
         IN  HasFields(told) /\ told.names = m.names /\ told.disk = m.disk
BY DEF HasFields, Told, Reports

\* Nothing written, and nothing claimed: a report at most.
LEMMA MadeStays ==
  ASSUME MadeSound, made' = made \/ \E list \in Reports : \E item : made' = Told(made, list, item),
         pc' \in OnNote => pc \in OnNote /\ note' = note,
         pc' \notin {"openNote", "saveAsset"} \/ (pc' = pc /\ asset' = asset)
  PROVE  MadeSound'
<1>1. HasFields(made') /\ made'.names = made.names /\ made'.disk = made.disk
  BY ToldKeeps DEF MadeSound
<1>2. \A p : (IsTaken(p) <=> IsTaken(p)') /\ (IsFresh(p) <=> IsFresh(p)')
  BY <1>1 DEF IsTaken, IsFresh
<1>3. "openNote" \in OnNote /\ "saveAsset" \in OnNote
  BY DEF OnNote
<1>. QED  BY <1>1, <1>2, <1>3 DEF MadeSound

\* Something written, under a name that was claimed; the disk may have been altered
\* before a report is made of it.
LEMMA MadeWrites ==
  ASSUME MadeSound, NEW disk,
         \/ made' = [made EXCEPT !.disk = disk]
         \/ \E list \in Reports : \E item : made' = Told([made EXCEPT !.disk = disk], list, item)
         \/ \E item, content : made' = [made EXCEPT !.disk = disk, !.attachments = Append(@, item),
                                                    !.content = @ \cup {content}],
         {"folds", "files", "folders"} \subseteq DOMAIN disk,
         \A f \in disk.files : f \in made.disk.files \/ IsTaken(f.path),
         pc' \in OnNote => pc \in OnNote /\ note' = note, pc' \notin {"openNote", "saveAsset"}
  PROVE  MadeSound'
<1> DEFINE changed == [made EXCEPT !.disk = disk]
<1>1. HasFields(changed) /\ changed.names = made.names /\ changed.disk = disk
  BY DEF MadeSound, HasFields
<1>2. HasFields(made') /\ made'.names = made.names /\ made'.disk = disk
  <2>1. CASE made' = changed
    BY <1>1, <2>1
  <2>2. CASE \E list \in Reports : \E item : made' = Told(changed, list, item)
    <3>1. PICK list \in Reports : \E item : made' = Told(changed, list, item)
      BY <2>2
    <3>2. PICK item : made' = Told(changed, list, item)
      BY <3>1
    <3> HIDE DEF changed
    <3>3. HasFields(made') /\ made'.names = changed.names /\ made'.disk = changed.disk
      BY <1>1, <3>2, ToldKeeps
    <3>. QED  BY <1>1, <3>3
  <2>3. CASE \E item, content : made' = [made EXCEPT !.disk = disk, !.attachments = Append(@, item),
                                                    !.content = @ \cup {content}]
    BY <2>3 DEF MadeSound, HasFields
  <2>. QED  BY <2>1, <2>2, <2>3
<1>3. \A p : IsTaken(p) <=> IsTaken(p)'
  BY <1>2 DEF IsTaken
<1>. QED  BY <1>2, <1>3 DEF MadeSound

LEMMA MadeStep ==
  ASSUME NumeralsDiffer
  PROVE  /\ WalkSound /\ NestSound /\ SourcesSound /\ TitlesSound /\ MadeSound /\ [Next]_vars
           => MadeSound'
<1> SUFFICES ASSUME WalkSound, NestSound, SourcesSound, TitlesSound, MadeSound, [Next]_vars
             PROVE  MadeSound'
  OBVIOUS
<1> USE DEF Goto, writing, OnNote, Tell, Reports
<1>1. ASSUME Discover PROVE MadeSound'
  BY <1>1, MadeStays DEF Discover
<1>2. ASSUME StopInputs PROVE MadeSound'
  BY <1>2, MadeStays DEF StopInputs
<1>3. ASSUME RefuseInput PROVE MadeSound'
  BY <1>3, MadeStays DEF RefuseInput
<1>4. ASSUME OpenInput PROVE MadeSound'
  BY <1>4, MadeStays DEF OpenInput
<1>5. ASSUME NoMoreSections PROVE MadeSound'
  BY <1>5, MadeStays DEF NoMoreSections
<1>6. ASSUME NextSection PROVE MadeSound'
  BY <1>6, MadeStays DEF NextSection
<1>7. ASSUME OpenFails PROVE MadeSound'
  BY <1>7, MadeStays DEF OpenFails
<1>8. ASSUME ClaimSection PROVE MadeSound'
  <2>1. PICK folder, base, name :
          /\ folder = Parent /\ base = Sanitized(Label)
          /\ name = Chosen(folder, base) /\ Claim(folder, name)
    BY <1>8 DEF ClaimSection
  <2>2. pc' = "count" /\ pc = "openSection" /\ Section.opens
    BY <1>8 DEF ClaimSection
  <2>3. source \in 1..Len(sources)
    BY <2>2 DEF SourcesSound
  <2>4. IsPath(folder)
    BY <2>1, <2>3, ParentIsPath
  <2>5. IsText(base)
    <3>1. IsText(Section.name) /\ IsText(Source.title)
      BY <2>2, <2>3 DEF SourcesSound, Legible, LegibleSection, Section, Source
    <3>. QED  BY <2>1, <3>1, SanitizedIsText DEF Label
  <2>6. /\ HasFields(made') /\ IsFiniteSet(made'.names) /\ made'.disk = made.disk
        /\ \A p : IsTaken(p) => IsTaken(p)'
    BY <2>1, <2>4, <2>5, ClaimFrees
  <2>. QED  BY <2>2, <2>6 DEF MadeSound
<1>9. ASSUME CloseSection PROVE MadeSound'
  <2>1. made' = made /\ pc' = "section"
    BY <1>9 DEF CloseSection
  <2>2. pc' \notin OnNote /\ pc' \notin {"openNote", "saveAsset"}
    BY <2>1
  <2>. QED  BY <2>1, <2>2 DEF MadeSound, IsTaken
<1>10. ASSUME CountRepeated PROVE MadeSound'
  BY <1>10, MadeStays DEF CountRepeated, Repeated
<1>11. ASSUME CountReached PROVE MadeSound'
  BY <1>11, MadeStays DEF CountReached, Reached
<1>12. ASSUME CountPage PROVE MadeSound'
  BY <1>12, MadeStays DEF CountPage, StopSection, SectionFails
<1>13. ASSUME StartPages PROVE MadeSound'
  BY <1>13, MadeStays DEF StartPages
<1>14. ASSUME PageRepeated PROVE MadeSound'
  BY <1>14, MadeStays DEF PageRepeated, Repeated
<1>15. ASSUME PageReached PROVE MadeSound'
  BY <1>15, MadeStays DEF PageReached, Reached
<1>16. ASSUME NoMorePages PROVE MadeSound'
  BY <1>16, MadeStays DEF NoMorePages
<1>17. ASSUME ReadPage PROVE MadeSound'
  BY <1>17, MadeStays DEF ReadPage, SectionFails
<1>18. ASSUME PassOver PROVE MadeSound'
  BY <1>18, MadeStays DEF PassOver, StopSection
<1>19. ASSUME ClaimNote PROVE MadeSound'
  <2>1. PICK folder, base, name :
          /\ folder = folders[Depth(page.level)] /\ base = Sanitized(page.title) \o Markdown
          /\ name = Chosen(folder, base) /\ Claim(folder, name) /\ note' = Append(folder, name)
    BY <1>19 DEF ClaimNote
  <2>2. pc' = "openNote" /\ pc = "page"
    BY <1>19 DEF ClaimNote
  <2>3. IsPath(folder)
    <3>1. page.level \in Nat /\ depth \in Nat /\ pc \in Converting
      BY <2>2 DEF NestSound, Converting, Counting
    <3>2. Depth(page.level) \in 0..depth
      BY <3>1, DepthBounds
    <3>. QED  BY <2>1, <3>1, <3>2, FolderIsPath
  <2>4. IsText(base)
    BY <2>1, <2>2, WantedIsText DEF TitlesSound
  <2>5. /\ HasFields(made') /\ IsFiniteSet(made'.names) /\ made'.disk = made.disk
        /\ \A p : IsTaken(p) => IsTaken(p)'
        /\ IsTaken(Append(folder, name))' /\ IsFresh(Append(folder, name))'
    BY <2>1, <2>3, <2>4, ClaimFrees
  <2>6. IsTaken(note)' /\ IsFresh(note)'
    BY <2>1, <2>5 DEF IsTaken, IsFresh
  <2>. QED  BY <2>2, <2>5, <2>6 DEF MadeSound
<1>20. ASSUME OpenNote PROVE MadeSound'
  <2>0. IsTaken(note) /\ {"folds", "files", "folders"} \subseteq DOMAIN made.disk
    BY <1>20 DEF OpenNote, MadeSound, HasFields
  <2>1. CASE pc' = "level"
    <3>1. PICK disk : disk = Prepared(made.disk, note)
      OBVIOUS
    <3>2. {"folds", "files", "folders"} \subseteq DOMAIN disk /\ disk.files = made.disk.files
      BY <2>0, <3>1, DiskFiles
    <3>. QED  BY <1>20, <2>1, <3>1, <3>2, MadeWrites DEF OpenNote, PageFails
  <2>2. CASE pc' # "level" /\ ~options.chunked
    BY <1>20, <2>2, MadeStays DEF OpenNote, PageFails
  <2>3. CASE pc' # "level" /\ options.chunked
    <3>1. PICK disk : disk = With(made.disk, note, Partial)
      OBVIOUS
    <3>2. /\ {"folds", "files", "folders"} \subseteq DOMAIN disk
          /\ \A f \in disk.files : f \in made.disk.files \/ IsTaken(f.path)
      BY <2>0, <3>1, DiskFiles
    <3>. QED  BY <1>20, <2>3, <3>1, <3>2, MadeWrites DEF OpenNote, PageFails
  <2>. QED  BY <2>1, <2>2, <2>3
<1>21. ASSUME Interrupted PROVE MadeSound'
  <2>1. {"folds", "files", "folders"} \subseteq DOMAIN made.disk
    BY DEF MadeSound, HasFields
  <2>2. {"folds", "files", "folders"} \subseteq DOMAIN Abandon /\ \A f \in Abandon.files : f \in made.disk.files
    BY <2>1, DiskFiles DEF Abandon
  <2>. QED  BY <1>21, <2>2, MadeWrites DEF Interrupted
<1>22. ASSUME FindAsset PROVE MadeSound'
  <2>1. CASE pc' # "saveAsset"
    BY <1>22, <2>1, MadeStays DEF FindAsset
  <2>2. CASE pc' = "saveAsset"
    <3>1. PICK folder, base, name :
            /\ folder = Attachments /\ base = Sanitized(Suggested(Space.embeds))
            /\ name = Chosen(folder, base) /\ Claim(folder, name) /\ asset' = Append(folder, name)
      BY <1>22, <2>2 DEF FindAsset
    <3>2. pc = "body" /\ note' = note /\ Space.embeds # None
      BY <1>22 DEF FindAsset
    <3>3. IsPath(folder)
      <4>1. depth \in 0..depth /\ pc \in Converting
        BY <3>2 DEF NestSound, Converting, Counting
      <4>2. IsPath(Folder)
        BY <4>1, FolderIsPath DEF Folder
      <4>. QED  BY <3>1, <4>2, PathParts DEF Attachments, Join
    <3>4. IsText(base)
      <4>1. LegibleSpace(Space)
        BY <3>2, SpaceLegible DEF Converting
      <4>. QED  BY <3>1, <3>2, <4>1, WantedIsText
    <3>5. /\ HasFields(made') /\ IsFiniteSet(made'.names) /\ made'.disk = made.disk
          /\ \A p : IsTaken(p) => IsTaken(p)'
          /\ IsTaken(Append(folder, name))' /\ IsFresh(Append(folder, name))'
      BY <3>1, <3>3, <3>4, ClaimFrees
    <3>6. IsTaken(asset)' /\ IsFresh(asset)'
      BY <3>1, <3>5 DEF IsTaken, IsFresh
    <3>. QED  BY <2>2, <3>2, <3>5, <3>6 DEF MadeSound
  <2>. QED  BY <2>1, <2>2
<1>23. ASSUME SaveAsset PROVE MadeSound'
  <2>0. IsTaken(asset) /\ {"folds", "files", "folders"} \subseteq DOMAIN made.disk
    BY <1>23 DEF SaveAsset, MadeSound, HasFields
  <2>1. CASE pc' = "level"
    <3> DEFINE disk == IF options.chunked THEN Removed(Prepared(made.disk, asset), note)
                       ELSE Prepared(made.disk, asset)
    <3>1. made' = Told([made EXCEPT !.disk = disk], "errors", [of |-> "page", name |-> Stem(Last(note))])
      BY <1>23, <2>1 DEF SaveAsset, PageFails
    <3>2. {"folds", "files", "folders"} \subseteq DOMAIN disk /\ \A f \in disk.files : f \in made.disk.files
      <4> DEFINE prepared == Prepared(made.disk, asset)
      <4>1. {"folds", "files", "folders"} \subseteq DOMAIN prepared /\ prepared.files = made.disk.files
        BY <2>0, DiskFiles
      <4> HIDE DEF prepared
      <4>2. /\ {"folds", "files", "folders"} \subseteq DOMAIN Removed(prepared, note)
            /\ \A f \in Removed(prepared, note).files : f \in prepared.files
        BY <4>1, DiskFiles
      <4>. QED  BY <4>1, <4>2 DEF prepared
    <3> HIDE DEF disk
    <3>. QED  BY <1>23, <2>1, <3>1, <3>2, MadeWrites DEF SaveAsset, PageFails
  <2>2. CASE pc' # "level"
    <3> DEFINE disk == With(made.disk, asset, Bytes(Space.embeds.digest))
               content == [folder |-> Attachments, digest |-> Space.embeds.digest, name |-> Last(asset)]
    <3>1. made' = [made EXCEPT !.disk = disk, !.attachments = Append(@, asset),
                               !.content = @ \cup {content}]
      BY <1>23, <2>2 DEF SaveAsset, PageFails, MadeSound, HasFields
    <3>2. /\ {"folds", "files", "folders"} \subseteq DOMAIN disk
          /\ \A f \in disk.files : f \in made.disk.files \/ IsTaken(f.path)
      BY <2>0, DiskFiles
    <3> HIDE DEF disk, content
    <3>. QED  BY <1>23, <2>2, <3>1, <3>2, MadeWrites DEF SaveAsset, PageFails
  <2>. QED  BY <2>1, <2>2
<1>24. ASSUME FinishNote PROVE MadeSound'
  <2>0. IsTaken(note) /\ {"folds", "files", "folders"} \subseteq DOMAIN made.disk
    BY <1>24 DEF FinishNote, MadeSound, HasFields
  <2>1. {"folds", "files", "folders"} \subseteq DOMAIN Abandon /\ \A f \in Abandon.files : f \in made.disk.files
    BY <2>0, DiskFiles DEF Abandon
  <2>2. PICK content : \/ made' = Told([made EXCEPT !.disk = Abandon], "errors",
                                       [of |-> "page", name |-> Stem(Last(note))])
                       \/ made' = Told([made EXCEPT !.disk = Prepared(made.disk, note)], "errors",
                                       [of |-> "page", name |-> Stem(Last(note))])
                       \/ made' = Told([made EXCEPT !.disk = With(Abandon, note, content)], "notes", note)
    BY <1>24 DEF FinishNote, PageFails
  <2>3. \A f \in With(Abandon, note, content).files : f \in made.disk.files \/ IsTaken(f.path)
    BY <2>0, <2>1, DiskFiles
  <2>4. /\ {"folds", "files", "folders"} \subseteq DOMAIN With(Abandon, note, content)
        /\ {"folds", "files", "folders"} \subseteq DOMAIN Prepared(made.disk, note)
        /\ \A f \in Prepared(made.disk, note).files : f \in made.disk.files
    <3>1. {"folds", "files", "folders"} \subseteq DOMAIN With(Abandon, note, content)
      BY <2>1, DiskFiles
    <3>2. /\ {"folds", "files", "folders"} \subseteq DOMAIN Prepared(made.disk, note)
          /\ Prepared(made.disk, note).files = made.disk.files
      BY <2>0, DiskFiles
    <3>. QED  BY <3>1, <3>2
  <2>5. pc' = "level" /\ pc \in OnNote /\ note' = note
    BY <1>24 DEF FinishNote, PageFails
  <2>. QED  BY <2>1, <2>2, <2>3, <2>4, <2>5, MadeWrites
<1>25. ASSUME Level PROVE MadeSound'
  BY <1>25, MadeStays DEF Level
<1>26. ASSUME Finish PROVE MadeSound'
  BY <1>26, MadeStays DEF Finish
<1>27. ASSUME Ask PROVE MadeSound'
  BY <1>27, MadeStays DEF Ask
<1>28. ASSUME UNCHANGED vars PROVE MadeSound'
  BY <1>28, MadeStays DEF vars
<1>. QED
  BY <1>1, <1>2, <1>3, <1>4, <1>5, <1>6, <1>7, <1>8, <1>9, <1>10, <1>11, <1>12, <1>13, <1>14, <1>15,
     <1>16, <1>17, <1>18, <1>19, <1>20, <1>21, <1>22, <1>23, <1>24, <1>25, <1>26, <1>27, <1>28
  DEF Next, Convert

-----------------------------------------------------------------------------
\* The names' theorems

\* Everything given, every folder the walk is in and every section in hand is legible,
\* and every file has a name that was claimed for it.
THEOREM NamesInvariance ==
  ASSUME NumeralsDiffer
  PROVE  Spec => []NamesSound
<1>1. Init => NamesSound
  <2> SUFFICES ASSUME Init PROVE NamesSound
    OBVIOUS
  <2>1. WalkingSound
    <3> DEFINE first == [entries |-> given.entries, previous |-> None]
               FrameSet == [entries : WellOrdered, previous : Entries \cup {None}]
    <3>1. first \in FrameSet
      BY InputsListed DEF Init, WellOrdered
    <3> HIDE DEF first, FrameSet
    <3>2. <<first>> \in Seq(FrameSet)
      BY <3>1
    <3>. QED  BY <3>2 DEF Init, WalkingSound, first, FrameSet
  <2>2. SourcesSound
    <3>1. sources \in Seq({}) /\ Len(sources) = 0
      BY DEF Init
    <3>. QED  BY <3>1 DEF Init, SourcesSound, Counting, Converting, OnNote
  <2>3. TitlesSound
    <3>1. DOMAIN <<>> = {}
      OBVIOUS
    <3>. QED  BY <3>1 DEF Init, TitlesSound
  <2>4. MadeSound
    <3>1. made.names = {} /\ made.disk.files = {} /\ HasFields(made)
      BY DEF Init, Undone, EmptyDisk, HasFields
    <3>. QED  BY <3>1, FS_EmptySet DEF Init, MadeSound, OnNote
  <2>. QED  BY <2>1, <2>2, <2>3, <2>4 DEF NamesSound
<1>2. IInv /\ NamesSound /\ [Next]_vars => NamesSound'
  BY WalkingStep, SourcesStep, TitlesStep, MadeStep DEF IInv, NamesSound
<1>. QED  BY <1>1, <1>2, ConversionInvariance, PTL DEF Spec

\* No file is written over, in this conversion, by another of its folder: whatever is
\* converted, and however often a name is asked for, the name StreamWorkspace.claim gives
\* the note or the attachment in hand is one that no file of its folder has, not even
\* with other case (src/stream/workspace.ts, src/names.ts).
THEOREM NamesAreFree ==
  ASSUME NumeralsDiffer
  PROVE  Spec => []NameIsFree
<1>1. NamesSound => NameIsFree
  <2> DEFINE path == IF pc = "saveAsset" THEN asset ELSE note
  <2> SUFFICES ASSUME NamesSound, pc \in {"openNote", "saveAsset"}, NEW f \in made.disk.files,
                      Key(made.disk, f.path) = Key(made.disk, path), Front(f.path) = Front(path)
               PROVE  FALSE
    BY DEF NameIsFree
  <2>1. IsTaken(path) /\ IsFresh(path) /\ IsTaken(f.path)
    BY DEF NamesSound, MadeSound, OnNote
  <2>2. Folded(Last(f.path)) # Folded(Last(path))
    BY <2>1 DEF IsFresh
  <2> HIDE DEF path
  <2>3. ASSUME NEW p, IsTaken(p)
        PROVE  Len(p) \in Nat /\ Len(p) >= 1 /\ DOMAIN p = 1..Len(p) /\ Last(p) = p[Len(p)]
    <3>1. PICK folder, name : IsPath(folder) /\ p = Append(folder, name)
      BY <2>3 DEF IsTaken
    <3>2. PICK S : folder \in Seq(S)
      BY <3>1 DEF IsPath
    <3>3. folder \in Seq(S \cup {name}) /\ name \in S \cup {name}
      BY <3>2, SeqMonotonic
    <3>4. p \in Seq(S \cup {name}) /\ p # <<>>
      BY <3>1, <3>3, AppendProperties
    <3>. QED  BY <3>4, EmptySeq, LenProperties DEF Last
  <2>4. CASE ~made.disk.folds
    BY <2>2, <2>4 DEF Key
  <2>5. CASE made.disk.folds
    <3> DEFINE fold(p) == [i \in DOMAIN p |-> Folded(p[i])]
    <3>1. fold(f.path) = fold(path)
      BY <2>5 DEF Key
    <3>2. DOMAIN f.path = DOMAIN path
      BY <3>1
    <3>3. Len(f.path) = Len(path)
      BY <2>1, <2>3, <3>2
    <3>4. Folded(f.path[Len(path)]) = Folded(path[Len(path)])
      <4>1. Len(path) \in DOMAIN path
        BY <2>1, <2>3
      <4>. QED  BY <3>1, <3>2, <4>1
    <3>. QED  BY <2>1, <2>2, <2>3, <3>3, <3>4
  <2>. QED  BY <2>4, <2>5
<1>. QED  BY <1>1, NamesInvariance, PTL
=============================================================================
