---- MODULE TextStreams ----
(***************************************************************************)
(* Text too long to hold: spools and spills in the section's store, and    *)
(* the string operations of convert.ts done a piece at a time.  A filter   *)
(* takes its state and a piece and answers its next state with what it     *)
(* lets out.  A character is one unit and one byte: what a decoder does    *)
(* with a character cut by a chunk's end is left out.                      *)
(***************************************************************************)
EXTENDS PageRules

CONSTANTS ChunkUnits,    \* chunkBytes: what one record of a spool holds
          SpillBudget    \* spillChars: what a spill holds before its spool

ASSUME ChunkAssumption == ChunkUnits \in Nat \ {0}
ASSUME BudgetAssumption == SpillBudget \in Nat

-----------------------------------------------------------------------------
(* A byte spool is a region of the store: resetting it forgets how much    *)
(* was written and leaves the chunks where they are, to be overwritten.    *)

NewSpool == [stored |-> <<>>, count |-> 0, pending |-> <<>>]

PutAt(records, position, record) ==
  SubSeq(records, 1, position) \o <<record>> \o SubSeq(records, position + 2, Len(records))

WriteSpool(spool, text) ==
  FoldLeft(LAMBDA s, unit :
             LET pending == Append(s.pending, unit)
             IN IF Len(pending) < ChunkUnits THEN [s EXCEPT !.pending = pending]
                ELSE [stored |-> PutAt(s.stored, s.count, pending),
                      count |-> s.count + 1, pending |-> <<>>],
           spool, text)

Chunks(spool) ==
  SubSeq(spool.stored, 1, spool.count)
    \o (IF spool.pending = <<>> THEN <<>> ELSE <<spool.pending>>)

ResetSpool(spool) == [spool EXCEPT !.count = 0, !.pending = <<>>]

(* What a spool is left with when the store refuses its first chunk: the   *)
(* chunk is full and was not stored.                                       *)
CutShort(spool, text) == [ResetSpool(spool) EXCEPT !.pending = SubSeq(text, 1, ChunkUnits)]

NewRecords == [stored |-> <<>>, count |-> 0]
PushRecord(records, record) ==
  [stored |-> PutAt(records.stored, records.count, record), count |-> records.count + 1]
RecordsOf(records) == SubSeq(records.stored, 1, records.count)
ResetRecords(records) == [records EXCEPT !.count = 0]

(* A spill keeps its text in head until it outgrows the budget.  appended  *)
(* is what it was given since it was last cleared: no code keeps it.       *)
NewSpill ==
  [head |-> <<>>, spilled |-> FALSE, length |-> 0, spool |-> NewSpool, appended |-> <<>>]

(* Mutant: the budget is looked at before the text is there. *)
SpillOnceOver(spill, text) ==
  LET spills == spill.spilled \/ Len(spill.head) > SpillBudget
      begun == IF spill.spilled THEN spill.spool ELSE ResetSpool(spill.spool)
      unwritten == IF spill.spilled THEN text ELSE spill.head \o text
  IN [head |-> IF spills THEN <<>> ELSE unwritten, spilled |-> spills,
      length |-> spill.length + Len(text),
      spool |-> IF spills THEN WriteSpool(begun, unwritten) ELSE spill.spool,
      appended |-> spill.appended \o text]

(* Mutant: the spool is not reset before the head moves into it. *)
SpillWhereItWas(spill, text) ==
  LET spills == spill.spilled \/ Len(spill.head \o text) > SpillBudget
      unwritten == IF spill.spilled THEN text ELSE spill.head \o text
  IN [head |-> IF spills THEN <<>> ELSE unwritten, spilled |-> spills,
      length |-> spill.length + Len(text),
      spool |-> IF spills THEN WriteSpool(spill.spool, unwritten) ELSE spill.spool,
      appended |-> spill.appended \o text]

Spill(spill, text) ==
  LET spills == spill.spilled \/ Len(spill.head \o text) > SpillBudget
      begun == IF spill.spilled THEN spill.spool ELSE ResetSpool(spill.spool)
      unwritten == IF spill.spilled THEN text ELSE spill.head \o text
  IN IF text = <<>> THEN spill
     ELSE [head |-> IF spills THEN <<>> ELSE unwritten,
           spilled |-> spills,
           length |-> spill.length + Len(text),
           spool |-> IF spills THEN WriteSpool(begun, unwritten) ELSE spill.spool,
           appended |-> spill.appended \o text]

Pieces(spill) ==
  IF spill.spilled THEN Chunks(spill.spool)
  ELSE IF spill.head = <<>> THEN <<>> ELSE <<spill.head>>

Clear(spill) ==
  [spill EXCEPT !.head = <<>>, !.length = 0, !.spilled = FALSE, !.appended = <<>>,
                !.spool = IF spill.spilled THEN ResetSpool(@) ELSE @]

-----------------------------------------------------------------------------
(* Filters. *)

(* A return becomes a newline at once; a newline that follows it goes.     *)
CarriageReturns(returning, piece) ==
  FoldLeft(LAMBDA f, c :
             IF f.returning /\ c = "LF" THEN [f EXCEPT !.returning = FALSE]
             ELSE IF c = "CR" THEN [returning |-> TRUE, out |-> Append(f.out, "LF")]
             ELSE [returning |-> FALSE, out |-> Append(f.out, c)],
           [returning |-> returning, out |-> <<>>], piece)

(* Mutant: what was held is dropped when something follows it. *)
TrimWithin(seen, pending, piece, start, end) ==
  IF ~seen /\ start = Len(piece) THEN [seen |-> FALSE, pending |-> pending, out |-> <<>>]
  ELSE [seen |-> TRUE,
        pending |-> Spill(IF end > start THEN Clear(pending) ELSE pending,
                          SubSeq(piece, end + 1, Len(piece))),
        out |-> IF end > start THEN <<SubSeq(piece, start + 1, end)>> ELSE <<>>]

(* Trimming: whitespace is held in pending until something follows it.     *)
TrimBetween(seen, pending, piece, start, end) ==
  IF ~seen /\ start = Len(piece) THEN [seen |-> FALSE, pending |-> pending, out |-> <<>>]
  ELSE [seen |-> TRUE,
        pending |-> Spill(IF end > start THEN Clear(pending) ELSE pending,
                          SubSeq(piece, end + 1, Len(piece))),
        out |-> IF end > start
                THEN Append(Pieces(pending), SubSeq(piece, start + 1, end)) ELSE <<>>]

TrimPiece(seen, pending, piece) ==
  LET start == IF seen THEN 0 ELSE LeadingSpace(piece)
  IN TrimBetween(seen, pending, piece, start, Max({start, LastContent(piece)}))

Newlines(run) == [i \in 1..Min({run, 2}) |-> "LF"]

CollapseNewlines(run, piece) ==
  FoldLeft(LAMBDA f, c :
             IF c = "LF" THEN [f EXCEPT !.run = @ + 1]
             ELSE [run |-> 0, out |-> f.out \o Newlines(f.run) \o <<c>>],
           [run |-> run, out |-> <<>>], piece)

-----------------------------------------------------------------------------
(* What escapeLineStart would do to a line, decided without holding it.    *)

Digits == {"1", "2"}
StartOfLine == [whitespace |-> 0, leading |-> TRUE, head |-> Nil, headRun |-> 0,
                digits |-> 0, after |-> <<>>]

ScanLineStart(scan, c) ==
  IF scan.leading /\ c \in Whitespace THEN [scan EXCEPT !.whitespace = @ + 1]
  ELSE IF scan.leading
       THEN [scan EXCEPT !.leading = FALSE, !.head = c, !.headRun = 1,
                         !.digits = IF c \in Digits THEN 1 ELSE 0]
  ELSE IF scan.after = <<>> /\ c = scan.head /\ c \notin Digits
       THEN [scan EXCEPT !.headRun = @ + 1]
  ELSE IF scan.after = <<>> /\ scan.digits > 0 /\ c \in Digits
       THEN [scan EXCEPT !.digits = @ + 1]
  ELSE IF Len(scan.after) < 3 THEN [scan EXCEPT !.after = Append(@, c)] ELSE scan

LineStartMatches(scan) ==
  LET after == scan.after
      ends == after = <<>>
      breaks == IF ends THEN TRUE ELSE after[1] \in Whitespace
  IN CASE scan.head = "#" -> scan.headRun <= 6 /\ breaks
       [] scan.head \in {">", "|"} -> TRUE
       [] scan.head \in {"tick", "~"} -> scan.headRun >= 3
       [] scan.head \in {"-", "*", "+"} ->
            \/ scan.headRun = 1 /\ breaks /\ ~ends
            \/ scan.head = "-" /\ scan.headRun >= 3 /\ ends
       [] scan.head = "=" -> scan.headRun >= 3 /\ ends
       [] scan.digits > 0 ->
            Len(after) > 1 /\ after[1] \in {".", ")"} /\ after[2] \in Whitespace
       [] OTHER -> FALSE

DecideLineStart(pieces) ==
  LET scan == FoldLeft(ScanLineStart, StartOfLine, FlattenSeq(pieces))
  IN [matched |-> LineStartMatches(scan), whitespace |-> scan.whitespace]
====
