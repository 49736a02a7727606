-------------------------- MODULE ResidentAccount ---------------------------
(***************************************************************************)
(* What a bounded run holds and what its account says it held: the          *)
(* workspace store that lives as long as the run, the index and the         *)
(* conversion store of the one section open, the section's read window,     *)
(* the values built under the ceilings, and the ResidentAccount that reads  *)
(* their counters (src/stream/account.ts, section.ts, budget.ts, limits.ts,  *)
(* src/storage/byte-window.ts).                                             *)
(*                                                                         *)
(* PagedStore models the page cache itself; here it is the number of pages  *)
(* it holds and the most it ever held.                                      *)
(***************************************************************************)
EXTENDS Integers

-----------------------------------------------------------------------------
(* How a memory budget is divided (budget.ts) and what the reserve for      *)
(* unstreamable values buys (limits.ts): arithmetic over bytes.  The code's *)
(* fractions are quarters, eighths and one quotient `scale`; a default is a *)
(* power of two and so is its unit, so the float product rounded down to    *)
(* the unit is the whole quotient below, and no product here leaves TLC's   *)
(* 32-bit integers for a budget under 2^31.                                 *)

PAGE_BYTES == 64 * 1024
MINIMUM_WINDOW_BYTES == 64 * 1024
SPILL_REGIONS == 4
SPOOL_BUFFERS == 10
LARGE_COMPONENTS == 4
RECORD_COPY_PAGES == 3
MINIMUM_VALUE_RESERVE_BYTES == 96 * 1024
MINIMUM_BUDGET_BYTES == 1024 * 1024

DEFAULT_SPILL_BUDGET == 64 * 1024
DEFAULT_CHUNK_BYTES == 4096
DEFAULT_NOTE_BUFFER_BYTES == 8192

VALUE_COPIES == 5
MATH_COPIES == 8

Larger(a, b) == IF a < b THEN b ELSE a
Smaller(a, b) == IF a < b THEN a ELSE b

floorTo(value, unit) == (value \div unit) * unit

reserveFor(valueChars, mathChars) ==
  2 * (VALUE_COPIES * valueChars + MATH_COPIES * mathChars)

\* Three quarters of the reserve for values, a quarter for a maths run.
limitsFor(reserveBytes) ==
  [maxValueChars |-> Larger(1, (3 * reserveBytes) \div (4 * 2 * VALUE_COPIES)),
   maxMathChars  |-> Larger(1, reserveBytes \div (4 * 2 * MATH_COPIES))]

\* A small buffer at its default size, scaled down with the others when a
\* quarter of the budget does not hold them all.
wanted ==
  SPILL_REGIONS * DEFAULT_SPILL_BUDGET * 2
    + SPOOL_BUFFERS * DEFAULT_CHUNK_BYTES + DEFAULT_NOTE_BUFFER_BYTES

Scaled(default, unit, totalBytes) ==
  (((default \div unit) * Smaller(wanted, totalBytes \div 4)) \div wanted) * unit

Buffers(totalBytes) ==
  [spillChars      |-> Larger(4096, Scaled(DEFAULT_SPILL_BUDGET, 1024, totalBytes)),
   chunkBytes      |-> Larger(512, Scaled(DEFAULT_CHUNK_BYTES, 256, totalBytes)),
   noteBufferBytes |-> Larger(1024, Scaled(DEFAULT_NOTE_BUFFER_BYTES, 512, totalBytes)),
   recordCopyBytes |-> RECORD_COPY_PAGES * PAGE_BYTES]

fixedBufferBytes(b) ==
  SPILL_REGIONS * b.spillChars * 2 + SPOOL_BUFFERS * b.chunkBytes
    + b.noteBufferBytes + b.recordCopyBytes

\* Mutant of fixedBytes: the record copies the plan once left out.
FixedWithoutCopies(b) ==
  SPILL_REGIONS * b.spillChars * 2 + SPOOL_BUFFERS * b.chunkBytes + b.noteBufferBytes

\* What planBudget takes off the top for the small buffers.
fixedBytes(b) ==
  SPILL_REGIONS * b.spillChars * 2 + SPOOL_BUFFERS * b.chunkBytes
    + b.noteBufferBytes + b.recordCopyBytes

valueReserve(totalBytes) == Larger(MINIMUM_VALUE_RESERVE_BYTES, totalBytes \div 8)

Large(totalBytes) ==
  totalBytes - fixedBytes(Buffers(totalBytes)) - valueReserve(totalBytes)

cacheBytes(totalBytes) == floorTo(Large(totalBytes) \div LARGE_COMPONENTS, PAGE_BYTES)
windowBytes(totalBytes) == floorTo(Large(totalBytes) - cacheBytes(totalBytes) * 3, 4096)

\* The budgets planBudget divides rather than refuses.
Plannable(totalBytes) ==
  /\ totalBytes >= MINIMUM_BUDGET_BYTES
  /\ cacheBytes(totalBytes) >= PAGE_BYTES
  /\ windowBytes(totalBytes) >= MINIMUM_WINDOW_BYTES

accountedBytes(totalBytes) ==
  cacheBytes(totalBytes) * 3 + windowBytes(totalBytes)
    + fixedBytes(Buffers(totalBytes)) + valueReserve(totalBytes)

-----------------------------------------------------------------------------
(* What the run is given, and what it holds. *)


CONSTANTS Totals,       \* budgets a run may be given
          Lengths,      \* lengths of records a store hands out
          Chars,        \* lengths of the strings met in a file
          MathChars,    \* lengths of its maths runs
          Lefts,        \* bytes left of a file where its window is refilled
          MaxSections   \* bound: sections opened in one run

ASSUME BudgetsAssumption ==
  /\ Totals \subseteq Nat
  /\ \A t \in Totals : Plannable(t)
ASSUME SizesAssumption ==
  /\ Lengths \subseteq 0..PAGE_BYTES
  /\ Chars \subseteq Nat /\ MathChars \subseteq Nat
  /\ Lefts \subseteq Nat \ {0}
  /\ MaxSections \in Nat

VARIABLES
  total,     \* the budget asked for
  phase,     \* of the section: "idle", "indexing", "registered" or "pages"
  sections,  \* sections opened so far
  pages,     \* pages each store's cache holds
  high,      \* and the most it ever held
  copies,    \* the largest record each store handed out
  buffer,    \* bytes in the section's read window
  arriving,  \* bytes of the buffer a refill is reading, beside that one
  joined,    \* length of the value being put together, 0 when there is none
  built,     \* lengths of the longest value and maths run ever built
  account    \* the ResidentAccount

stores == <<pages, high, copies>>
values == <<joined, built>>
vars == <<total, phase, sections, stores, buffer, arriving, values, account>>

Stores == {"workspace", "index", "conversion"}
Phases == {"idle", "indexing", "registered", "pages"}
CachePages == cacheBytes(total) \div PAGE_BYTES
limits == limitsFor(valueReserve(total))
Lengthy == [value : Nat, math : Nat]

Open(store) ==
  CASE store = "workspace"  -> TRUE
    [] store = "index"      -> phase # "idle"
    [] store = "conversion" -> phase \in {"registered", "pages"}

-----------------------------------------------------------------------------
(* ResidentAccount *)

\* Readings it takes.  #sectionCaches and #copies hold the entries of the open
\* section, when it is registered, and those of sections that failed after it:
\* `leftPages` is what the latter add up to and `leftCopy` their largest.
cacheHighWaterBytes ==
  PAGE_BYTES * (high["workspace"] + account.leftPages
    + IF account.section THEN high["index"] + high["conversion"] ELSE 0)

highWaterBytes ==
  cacheHighWaterBytes + account.windowBytes
    + fixedBufferBytes(Buffers(total)) + valueReserve(total)

recordCopyBytes ==
  LET ofSection == IF account.section
                   THEN Larger(copies["index"], copies["conversion"]) ELSE 0
      ofRun == IF account.workspaceCopies THEN copies["workspace"] ELSE 0
  IN  Larger(account.recordCopy, Larger(account.leftCopy, Larger(ofSection, ofRun)))

peakHighWaterBytes == Larger(account.peak, highWaterBytes)

\* The section's two stores and its window, at the end of the opening.
AddSection ==
  account' = [account EXCEPT !.section = TRUE, !.windowBytes = windowBytes(total)]

\* Mutant of Forget: the maps are cleared before the reading.
ForgetUnread ==
  account' = [account EXCEPT !.section = FALSE, !.leftPages = 0, !.leftCopy = 0,
                             !.workspaceCopies = FALSE]

\* `release`: a reading, then the section's caches and every copy counter go,
\* the workspace's with them.
Forget ==
  account' = [account EXCEPT !.peak = peakHighWaterBytes,
                             !.recordCopy = recordCopyBytes,
                             !.section = FALSE, !.leftPages = 0, !.leftCopy = 0,
                             !.workspaceCopies = FALSE]

\* Nobody releases a section that failed to open: its entries stay, reading the
\* counters its closed stores ended with.
Strand ==
  account' = [account EXCEPT !.section = FALSE,
                !.leftPages = @ + high["index"] + high["conversion"],
                !.leftCopy = Larger(@, Larger(copies["index"], copies["conversion"]))]

-----------------------------------------------------------------------------
(* The run *)

\* Every call is synchronous: nothing else happens while a window is refilled.
Still == arriving = 0

Init ==
  /\ total \in Totals
  /\ phase = "idle"
  /\ sections = 0
  /\ pages = [s \in Stores |-> 0] /\ high = [s \in Stores |-> 0]
  /\ copies = [s \in Stores |-> 0]
  /\ buffer = 0 /\ arriving = 0
  /\ joined = 0
  /\ built = [value |-> 0, math |-> 0]
  /\ account = [section |-> FALSE, workspaceCopies |-> TRUE, leftPages |-> 0,
                leftCopy |-> 0, windowBytes |-> 0, peak |-> 0, recordCopy |-> 0]

\* The index's store and its window are made and the indexing begins.
OpenIndex ==
  /\ Still
  /\ phase = "idle" /\ sections < MaxSections
  /\ phase' = "indexing"
  /\ sections' = sections + 1
  /\ UNCHANGED <<total, stores, buffer, arriving, values, account>>

\* The section's two stores close and its window goes.  What their counters
\* ended with is left to whoever still holds a getter: see Forget and Strand.
CloseStores ==
  /\ phase' = "idle"
  /\ pages' = [pages EXCEPT !["index"] = 0, !["conversion"] = 0]
  /\ high' = [high EXCEPT !["index"] = 0, !["conversion"] = 0]
  /\ copies' = [copies EXCEPT !["index"] = 0, !["conversion"] = 0]
  /\ buffer' = 0

\* Not a section, or a conversion store that cannot be made.
OpenFailsUnregistered ==
  /\ Still
  /\ phase = "indexing"
  /\ CloseStores
  /\ UNCHANGED <<total, sections, arriving, values, account>>

OpenConversion ==
  /\ Still
  /\ phase = "indexing"
  /\ phase' = "registered"
  /\ AddSection
  /\ UNCHANGED <<total, sections, stores, buffer, arriving, values>>

\* No section space, no section node at its root, a name over the ceiling.
OpenFails ==
  /\ Still
  /\ phase = "registered"
  /\ CloseStores
  /\ Strand
  /\ joined' = 0
  /\ UNCHANGED <<total, sections, arriving, built>>

SectionOpens ==
  /\ Still
  /\ phase = "registered"
  /\ phase' = "pages"
  /\ UNCHANGED <<total, sections, stores, buffer, arriving, values, account>>

\* Converted, failed or cancelled: the stores close, then the account lets go.
CloseSection ==
  /\ Still
  /\ phase = "pages"
  /\ CloseStores
  /\ Forget
  /\ joined' = 0
  /\ UNCHANGED <<total, sections, arriving, built>>

-----------------------------------------------------------------------------
(* What a section does while it is open *)

\* Mutant of MakeRoom: one page more than the budget before any goes.
MakeRoomLate(store) == Smaller(pages[store], CachePages)

\* The pages a cache keeps when it has to take in one more.
MakeRoom(store) == Smaller(pages[store], CachePages - 1)

\* A store takes in a page it did not hold, read or created.
LoadPage(store) ==
  /\ Still
  /\ Open(store)
  /\ pages' = [pages EXCEPT ![store] = MakeRoom(store) + 1]
  /\ high' = [high EXCEPT ![store] = Larger(@, MakeRoom(store) + 1)]
  /\ UNCHANGED <<total, phase, sections, copies, buffer, arriving, values, account>>

\* The read or the write of that page throws, after room was made for it.
LoadFails(store) ==
  /\ Still
  /\ Open(store)
  /\ pages' = [pages EXCEPT ![store] = MakeRoom(store)]
  /\ UNCHANGED <<total, phase, sections, high, copies, buffer, arriving, values, account>>

\* A store hands out a copy of a record.
Get(store, length) ==
  /\ Still
  /\ Open(store) /\ pages[store] > 0
  /\ copies' = [copies EXCEPT ![store] = Larger(@, length)]
  /\ UNCHANGED <<total, phase, sections, pages, high, buffer, arriving, values, account>>

\* What a refill asks for: a window, or what is left of the file.
Span(left) == Smaller(windowBytes(total), left)

\* #refill: the source allocates a new buffer and reads into it, while the
\* window still has the old one.
Refill(left) ==
  /\ Still
  /\ Open("index")
  /\ arriving' = Span(left)
  /\ UNCHANGED <<total, phase, sections, stores, buffer, values, account>>

\* The new buffer takes the place of the old one.
Refilled ==
  /\ arriving > 0
  /\ buffer' = arriving
  /\ arriving' = 0
  /\ UNCHANGED <<total, phase, sections, stores, values, account>>

\* The file ended early: the old buffer stays.
ShortRead ==
  /\ arriving > 0
  /\ arriving' = 0
  /\ UNCHANGED <<total, phase, sections, stores, buffer, values, account>>

-----------------------------------------------------------------------------
(* The values that cannot be streamed *)

\* Mutant of JoinedLength: the space between the two is not counted.
JoinedTight(part) == joined + part

\* The length joinBounded checks.
JoinedLength(part) == IF joined = 0 THEN part ELSE joined + 1 + part

\* joinBounded: one more part of a value, after a space when there is something
\* before it; past the ceiling it is refused and the value dropped.  A value read
\* in one piece is a first part.
JoinValue(part) ==
  /\ Still
  /\ phase \in {"registered", "pages"}
  /\ IF JoinedLength(part) > limits.maxValueChars
     THEN joined' = 0 /\ UNCHANGED built
     ELSE LET length == IF joined = 0 THEN part ELSE joined + 1 + part
          IN  /\ joined' = length
              /\ built' = [built EXCEPT !.value = Larger(@, length)]
  /\ UNCHANGED <<total, phase, sections, stores, buffer, arriving, account>>

\* The value is used and gone.
ValueDone ==
  /\ Still
  /\ joined > 0
  /\ joined' = 0
  /\ UNCHANGED <<total, phase, sections, stores, buffer, arriving, built, account>>

\* A maths run within its ceiling; one past it is refused before a character of
\* it is read.
MathRun(length) ==
  /\ Still
  /\ phase = "pages"
  /\ length <= limits.maxMathChars
  /\ built' = [built EXCEPT !.math = Larger(@, length)]
  /\ UNCHANGED <<total, phase, sections, stores, buffer, arriving, joined, account>>

Next ==
  \/ OpenIndex \/ OpenFailsUnregistered \/ OpenConversion \/ OpenFails
  \/ SectionOpens \/ CloseSection \/ ValueDone \/ Refilled \/ ShortRead
  \/ \E store \in Stores : LoadPage(store) \/ LoadFails(store)
  \/ \E store \in Stores, length \in Lengths : Get(store, length)
  \/ \E left \in Lefts : Refill(left)
  \/ \E length \in Chars : JoinValue(length)
  \/ \E length \in MathChars : MathRun(length)

Spec == Init /\ [][Next]_vars

-----------------------------------------------------------------------------
(* Properties *)

StoresOK ==
  /\ phase \in Phases
  /\ sections \in 0..MaxSections
  /\ pages \in [Stores -> 0..CachePages] /\ high \in [Stores -> 0..CachePages]
  /\ \A s \in Stores : pages[s] <= high[s]
  /\ copies \in [Stores -> 0..PAGE_BYTES]
  /\ buffer \in 0..windowBytes(total) /\ arriving \in 0..windowBytes(total)
  /\ \A s \in Stores : ~Open(s) => pages[s] = 0

ValuesOK == joined \in Nat /\ built \in Lengthy

AccountOK ==
  account \in [section : BOOLEAN, workspaceCopies : BOOLEAN, leftPages : Nat,
               leftCopy : 0..PAGE_BYTES, windowBytes : Nat, peak : Nat,
               recordCopy : 0..PAGE_BYTES]

\* A cache holds no more pages than the plan gave it, a closed store none, and
\* the window no more than its capacity.
TypeOK == total \in Totals /\ StoresOK /\ ValuesOK /\ AccountOK

\* What the run holds at this moment: its caches, the window, the buffers
\* allocated once, the copies and the values it reserved for.
Held ==
  PAGE_BYTES * (pages["workspace"] + pages["index"] + pages["conversion"])
    + buffer + arriving + fixedBufferBytes(Buffers(total)) + valueReserve(total)

\* Whatever is open, however full its caches are and whatever failed before,
\* the run holds no more than its budget, except during a refill (HeldAtOnce).
HeldWithinBudget == arriving = 0 => Held <= total

\* The values really built, the longest of each kind at once and in all their
\* copies, fit the reserve the budget set aside for them.
BuiltWithinReserve == reserveFor(built.value, built.math) <= valueReserve(total)

\* A section that registered leaves a peak behind that covers all it held,
\* though its stores are closed when the account reads them.
PeakCoversSection ==
  [][(phase \in {"registered", "pages"} /\ phase' = "idle")
       => peakHighWaterBytes' >= Held]_vars

\* "the run held ... against a ...-byte budget": the reported peak is a peak of
\* what was held at once, so it is within the budget too.
PeakWithinBudget == peakHighWaterBytes <= total

\* "The largest record any store handed to a caller", the workspace's included.
CopiesCounted == recordCopyBytes >= copies["workspace"]

\* "There is exactly one buffer": no moment, a refill's included, has the run
\* over its budget.
HeldAtOnce == Held <= total
=============================================================================
