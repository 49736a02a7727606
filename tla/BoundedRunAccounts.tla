------------------------- MODULE BoundedRunAccounts -------------------------
(***************************************************************************)
(* Theorems about what BoundedRun reports: that the report accounts for    *)
(* every page of every input, and that exit code 0 means a complete        *)
(* conversion, for every batch and any number of faults and signals.       *)
(***************************************************************************)
EXTENDS BoundedRunProofs

-----------------------------------------------------------------------------
\* The inductive invariant

\* What was said of the input in hand, since its marks were taken.
SoFar(list) == {report[list][n] : n \in from[list]+1..Len(report[list])} \ {Missing}
Noted == {r.page : r \in SoFar("notes")}
Failed == {r.page : r \in SoFar("failures")}

\* An input is in hand; its pages are not yet walked; they are.
BeforePages == {"open", "reject", "index", "store", "claimSection", "count", "countWait"}
Walking == (OnPage \ {"countWait"}) \cup {"pages"}
InHand == BeforePages \cup Walking \cup {"sectionFailed", "inputFailed", "closeSection",
                                         "closeInput", "group"}

\* The pages the walk has left behind.
Passed(p) == p < page \/ (p = page /\ pc = "level")

\* The notes and failures since the marks are of this input, and no page is in both.
Own ==
  /\ input \in 1..Len(batch)
  /\ \A list \in {"notes", "failures"} : from[list] \in 0..Len(report[list])
  /\ \A r \in SoFar("notes") \cup SoFar("failures") : r.input = input
  /\ Noted \subseteq Nat \ {0} /\ Failed \subseteq Nat /\ Noted \cap Failed = {}

\* What lets an input be done with: all its pages are noted or failed, or something
\* else says why not, or the failure is still to be recorded.
Settled ==
  \/ rethrow /\ pc # "group"
  \/ 0 \in Failed \/ stopped \/ ToConvert(input) \subseteq Noted \cup Failed

\* The walk accounts for the pages it has left behind and for no other.
PresentSound ==
  pc \in InHand =>
    /\ Own
    /\ pc \in BeforePages => Noted = {} /\ Failed = {}
    /\ pc \in Walking => /\ \A p \in Noted \cup Failed : Passed(p)
                         /\ \A p \in ToConvert(input) : Passed(p) => p \in Noted \cup Failed
    /\ pc \in {"closeSection", "closeInput", "group"} => Settled

\* A group of the report stands for good: its slices lie within the lists, which
\* only grow, and what they say accounts for the group's input.
Accounted(group) ==
  LET noted  == {r.page : r \in Slice("notes", group)}
      failed == {r.page : r \in Slice("failures", group)}
  IN  /\ \A r \in Slice("notes", group) \cup Slice("failures", group) : r.input = group.input
      /\ noted \cap failed = {}
      /\ ToConvert(group.input) \subseteq noted \cup failed \/ 0 \in failed \/ group.cancelled
Within(group) ==
  \A list \in {"notes", "failures"} :
    group.from[list] \in Nat /\ group.to[list] \in 0..Len(report[list])
PastSound ==
  \A n \in 1..Len(report["groups"]) :
    LET group == report["groups"][n]
    IN  group # Missing => /\ Within(group) /\ Accounted(group)
                           /\ group.cancelled => stopped

\* Until the run closes down, every input the run is done with has its group.
AllGrouped(last) == \A i \in 1..last : \E group \in Records("groups") : group.input = i
BatchSound ==
  /\ pc \notin {"closing", "exited"} => AllGrouped(IF pc \in InHand THEN input - 1 ELSE input)
  /\ pc = "report" => stopped \/ input = Len(batch)
  /\ stopped \in BOOLEAN

AccountInv == PresentSound /\ PastSound /\ BatchSound /\ ZeroMeansAll

-----------------------------------------------------------------------------
\* The lists of the report

\* What an account is made of: most steps leave all of it alone.
Account == <<report["notes"], report["failures"], report["groups"], from, input, batch>>

\* No record looks like an index that was never stored.
LEMMA RecordsDiffer ==
  /\ \A i, p : [input |-> i, page |-> p] # Missing
  /\ \A i, p, path : [input |-> i, page |-> p, path |-> path] # Missing
  /\ \A i, f, t, c : [input |-> i, from |-> f, to |-> t, cancelled |-> c] # Missing
<1>1. DOMAIN Missing = {"stored"}
  BY DEF Missing
<1>2. \A i, p : DOMAIN [input |-> i, page |-> p] # {"stored"}
  OBVIOUS
<1>3. \A i, p, path : DOMAIN [input |-> i, page |-> p, path |-> path] # {"stored"}
  OBVIOUS
<1>4. \A i, f, t, c : DOMAIN [input |-> i, from |-> f, to |-> t, cancelled |-> c] # {"stored"}
  OBVIOUS
<1>. QED  BY <1>1, <1>2, <1>3, <1>4

\* What is said of the input in hand grows by a record that goes through.
LEMMA SaidAfter ==
  ASSUME ReportSound, NEW list \in Lists, NEW record, record # Missing, NEW ok,
         Record(list, record, ok), from' = from, from[list] \in 0..Len(report[list])
  PROVE  /\ from'[list] \in 0..Len(report'[list])
         /\ SoFar(list)' = IF ok THEN SoFar(list) \cup {record} ELSE SoFar(list)
<1> DEFINE len == Len(report[list])
           low == from[list]
<1>1. /\ len \in Nat /\ Len(report'[list]) = len + 1
      /\ \A n \in 1..len : report'[list][n] = report[list][n]
      /\ report'[list][len + 1] = IF ok THEN record ELSE Missing
  BY Recorded
<1>2. low \in 0..len
  OBVIOUS
<1> HIDE DEF len, low
<1>3. low+1..len+1 = (low+1..len) \cup {len + 1}
  BY <1>1, <1>2
<1>4. low+1..len \subseteq 1..len
  BY <1>1, <1>2
<1>5. low \in 0..len + 1
  BY <1>1, <1>2
<1>6. SoFar(list) = {report[list][n] : n \in low+1..len} \ {Missing}
  BY DEF SoFar, low, len
<1>7. SoFar(list)' = {report'[list][n] : n \in low+1..len+1} \ {Missing}
  BY <1>1 DEF SoFar, low
<1>8. {report'[list][n] : n \in low+1..len} = {report[list][n] : n \in low+1..len}
  BY <1>1, <1>4
<1>9. {report'[list][n] : n \in low+1..len+1} =
        {report'[list][n] : n \in low+1..len} \cup {report'[list][len + 1]}
  BY <1>3
<1>10. SoFar(list)' = IF ok THEN SoFar(list) \cup {record} ELSE SoFar(list)
  BY <1>1, <1>6, <1>7, <1>8, <1>9
<1>. QED  BY <1>1, <1>5, <1>10 DEF low

\* The other lists are left alone, and so is what they say.
LEMMA SaidElsewhere ==
  ASSUME NEW list, report'[list] = report[list], from' = from
  PROVE  SoFar(list)' = SoFar(list)
BY DEF SoFar

-----------------------------------------------------------------------------
\* Steps that say nothing of a page

\* What a group of a report says stands when the lists only grow.
LEMMA GroupKept ==
  ASSUME NEW group, Within(group), Accounted(group), batch' = batch,
         \A list \in {"notes", "failures"} :
           /\ Len(report'[list]) \in Nat /\ Len(report[list]) \in Nat
           /\ Len(report[list]) <= Len(report'[list])
           /\ \A n \in 1..Len(report[list]) : report'[list][n] = report[list][n]
  PROVE  Within(group)' /\ Accounted(group)'
<1>1. ASSUME NEW list \in {"notes", "failures"}
      PROVE  /\ group.from[list] \in Nat /\ group.to[list] \in 0..Len(report'[list])
             /\ Slice(list, group)' = Slice(list, group)
  <2>1. group.from[list] \in Nat /\ group.to[list] \in 0..Len(report[list])
    BY DEF Within
  <2>2. /\ group.from[list]+1..group.to[list] \subseteq 1..Len(report[list])
        /\ group.to[list] \in 0..Len(report'[list])
    BY <2>1
  <2>3. Slice(list, group)' = Slice(list, group)
    BY <2>2 DEF Slice
  <2>. QED  BY <2>1, <2>2, <2>3
<1>2. Accounted(group)'
  BY <1>1 DEF Accounted, ToConvert
<1>. QED  BY <1>1, <1>2 DEF Within

\* So do all the groups it has.
LEMMA PastKept ==
  ASSUME ReportSound, PastSound, batch' = batch, stopped => stopped',
         report'["groups"] = report["groups"],
         \A list \in {"notes", "failures"} :
           /\ Len(report'[list]) \in Nat /\ Len(report[list]) <= Len(report'[list])
           /\ \A n \in 1..Len(report[list]) : report'[list][n] = report[list][n]
  PROVE  PastSound'
<1>1. \A list \in Lists : \E S : report[list] \in Seq(S)
  BY DEF ReportSound
<1>2. \A list \in {"notes", "failures"} : Len(report[list]) \in Nat
  <2>1. \A list \in Lists : Len(report[list]) \in Nat
    BY <1>1
  <2>. QED  BY <2>1 DEF Lists
<1> SUFFICES ASSUME NEW n \in 1..Len(report["groups"]),
                    NEW group, group = report["groups"][n], group # Missing
             PROVE  Within(group)' /\ Accounted(group)' /\ (group.cancelled => stopped')
  BY DEF PastSound
<1>3. Within(group) /\ Accounted(group) /\ (group.cancelled => stopped)
  BY DEF PastSound
<1>4. Within(group)' /\ Accounted(group)'
  BY <1>2, <1>3, GroupKept
<1>. QED  BY <1>3, <1>4

\* A step that leaves the account alone keeps the invariant, if it goes where what
\* is accounted for so far suffices.
LEMMA QuietAccounts ==
  ASSUME IInv, AccountInv, UNCHANGED Account,
         stopped => stopped', stopped' \in BOOLEAN,
         pc' \notin {"closing", "exited"} =>
           pc \notin {"closing", "exited"} /\ (pc' \in InHand <=> pc \in InHand),
         pc' \in BeforePages => pc \in BeforePages,
         pc' \in Walking =>
           \/ /\ pc \in Walking
              /\ \A p \in Nat : Passed(p) => Passed(p)'
              /\ \A p \in ToConvert(input) : Passed(p)' => Passed(p)
           \/ pc \in BeforePages /\ \A p \in ToConvert(input) : ~Passed(p)',
         pc' \in {"closeSection", "closeInput", "group"} => pc \in InHand /\ Settled',
         pc' = "report" => stopped' \/ input = Len(batch),
         code' = 0 => ZeroMeansAll'
  PROVE  AccountInv'
<1>1. ReportSound /\ PresentSound /\ PastSound /\ BatchSound
  BY DEF AccountInv, IInv
<1>2. /\ report'["notes"] = report["notes"] /\ report'["failures"] = report["failures"]
      /\ report'["groups"] = report["groups"] /\ from' = from /\ input' = input /\ batch' = batch
  BY DEF Account
<1>3. PastSound'
  <2>1. \A list \in {"notes", "failures"} :
          Len(report[list]) \in Nat /\ report'[list] = report[list]
    <3>1. \A list \in {"notes", "failures"} : \E S : report[list] \in Seq(S)
      BY <1>1 DEF ReportSound, Lists
    <3>2. \A list \in {"notes", "failures"} : Len(report[list]) \in Nat
      BY <3>1
    <3>. QED  BY <1>2, <3>2
  <2>. QED  BY <1>1, <1>2, <2>1, PastKept
<1>4. SoFar("notes")' = SoFar("notes") /\ SoFar("failures")' = SoFar("failures")
  BY <1>2, SaidElsewhere
<1>5. Noted' = Noted /\ Failed' = Failed
  BY <1>4 DEF Noted, Failed
<1>6. Own => Own'
  BY <1>2, <1>4, <1>5 DEF Own
<1>7. ToConvert(input)' = ToConvert(input)
  BY <1>2 DEF ToConvert
<1>8. PresentSound'
  <2> SUFFICES ASSUME pc' \in InHand PROVE PresentSound'
    BY DEF PresentSound
  <2>1. pc \in InHand
    BY DEF InHand, BeforePages, Walking, OnPage, WithNote, Written, WithAsset
  <2>2. Own'
    BY <1>1, <1>6, <2>1 DEF PresentSound
  <2>3. pc' \in BeforePages => Noted' = {} /\ Failed' = {}
    BY <1>1, <1>5, <2>1 DEF PresentSound
  <2>4. ASSUME pc' \in Walking
        PROVE  /\ \A p \in Noted' \cup Failed' : Passed(p)'
               /\ \A p \in ToConvert(input)' : Passed(p)' => p \in Noted' \cup Failed'
    <3>1. Noted \cup Failed \subseteq Nat
      BY <1>1, <2>1 DEF PresentSound, Own
    <3>2. CASE /\ pc \in Walking
               /\ \A p \in Nat : Passed(p) => Passed(p)'
               /\ \A p \in ToConvert(input) : Passed(p)' => Passed(p)
      BY <1>1, <1>5, <1>7, <2>1, <3>1, <3>2 DEF PresentSound
    <3>3. CASE pc \in BeforePages /\ \A p \in ToConvert(input) : ~Passed(p)'
      BY <1>1, <1>5, <1>7, <2>1, <3>3 DEF PresentSound
    <3>. QED  BY <2>4, <3>2, <3>3
  <2>. QED  BY <2>2, <2>3, <2>4 DEF PresentSound
<1>9. BatchSound'
  <2>1. \A last : AllGrouped(last)' <=> AllGrouped(last)
    BY <1>2 DEF AllGrouped, Records
  <2>. QED  BY <1>1, <1>2, <2>1 DEF BatchSound
<1>10. ZeroMeansAll'
  BY DEF ZeroMeansAll
<1>. QED  BY <1>3, <1>8, <1>9, <1>10 DEF AccountInv

-----------------------------------------------------------------------------
\* Steps that record a failure or a note

\* A failure of the input in hand, or of one of its pages, is recorded or lost.
LEMMA FailureRecorded ==
  ASSUME IInv, AccountInv, pc \in InHand, pc' \in InHand \/ pc' = "closing",
         NEW p \in Nat, NEW ok \in BOOLEAN, ok => p \notin Noted,
         Record("failures", [input |-> input, page |-> p], ok),
         UNCHANGED <<from, input, batch>>, stopped' = stopped
  PROVE  /\ Own' /\ PastSound' /\ BatchSound'
         /\ Failed' = (IF ok THEN Failed \cup {p} ELSE Failed) /\ Noted' = Noted
<1> DEFINE record == [input |-> input, page |-> p]
<1>1. ReportSound /\ PastSound /\ BatchSound /\ Own
  BY DEF AccountInv, IInv, PresentSound
<1>2. record # Missing
  BY RecordsDiffer
<1>3. "failures" \in Lists /\ {"notes", "groups"} \subseteq Lists \ {"failures"}
  BY DEF Lists
<1>4. from["failures"] \in 0..Len(report["failures"])
  BY <1>1 DEF Own
<1>5. record.input = input /\ record.page = p
  OBVIOUS
<1> HIDE DEF record
<1>6. Record("failures", record, ok)
  BY DEF record
<1>7. /\ from'["failures"] \in 0..Len(report'["failures"])
      /\ SoFar("failures")' = IF ok THEN SoFar("failures") \cup {record} ELSE SoFar("failures")
  BY <1>1, <1>2, <1>3, <1>4, <1>6, SaidAfter
<1>8. /\ report'["notes"] = report["notes"] /\ report'["groups"] = report["groups"]
      /\ Len(report["failures"]) \in Nat /\ Len(report'["failures"]) = Len(report["failures"]) + 1
      /\ \A n \in 1..Len(report["failures"]) : report'["failures"][n] = report["failures"][n]
  BY <1>1, <1>3, <1>6, Recorded
<1>9. SoFar("notes")' = SoFar("notes")
  BY <1>8, SaidElsewhere
<1>10. Failed' = (IF ok THEN Failed \cup {p} ELSE Failed) /\ Noted' = Noted
  BY <1>5, <1>7, <1>9 DEF Noted, Failed
<1>11. \A r \in SoFar("notes")' \cup SoFar("failures")' : r.input = input
  BY <1>1, <1>5, <1>7, <1>9 DEF Own
<1>12. Own'
  BY <1>1, <1>7, <1>8, <1>10, <1>11 DEF Own
<1>13. PastSound'
  <2>1. \E S : report["notes"] \in Seq(S)
    BY <1>1, <1>3 DEF ReportSound
  <2>2. Len(report["notes"]) \in Nat
    BY <2>1
  <2>3. \A list \in {"notes", "failures"} :
          /\ Len(report'[list]) \in Nat /\ Len(report[list]) <= Len(report'[list])
          /\ \A n \in 1..Len(report[list]) : report'[list][n] = report[list][n]
    BY <1>8, <2>2
  <2>. QED  BY <1>1, <1>8, <2>3, PastKept
<1>14. BatchSound'
  <2>1. \A last : AllGrouped(last)' <=> AllGrouped(last)
    BY <1>8 DEF AllGrouped, Records
  <2>2. pc' # "report" /\ pc \notin {"closing", "exited"}
    BY DEF InHand, BeforePages, Walking, OnPage, WithNote, Written, WithAsset
  <2>. QED  BY <1>1, <2>1, <2>2 DEF BatchSound
<1>. QED  BY <1>10, <1>12, <1>13, <1>14

\* A note of the input in hand is recorded or lost.
LEMMA NoteRecorded ==
  ASSUME IInv, AccountInv, pc \in InHand, pc' \in InHand \/ pc' = "closing",
         NEW p \in Nat \ {0}, NEW ok \in BOOLEAN, ok => p \notin Failed,
         Record("notes", [input |-> input, page |-> p, path |-> note], ok),
         UNCHANGED <<from, input, batch>>, stopped' = stopped
  PROVE  /\ Own' /\ PastSound' /\ BatchSound'
         /\ Noted' = (IF ok THEN Noted \cup {p} ELSE Noted) /\ Failed' = Failed
<1> DEFINE record == [input |-> input, page |-> p, path |-> note]
<1>1. ReportSound /\ PastSound /\ BatchSound /\ Own
  BY DEF AccountInv, IInv, PresentSound
<1>2. record # Missing
  BY RecordsDiffer
<1>3. "notes" \in Lists /\ {"failures", "groups"} \subseteq Lists \ {"notes"}
  BY DEF Lists
<1>4. from["notes"] \in 0..Len(report["notes"])
  BY <1>1 DEF Own
<1>5. record.input = input /\ record.page = p
  OBVIOUS
<1> HIDE DEF record
<1>6. Record("notes", record, ok)
  BY DEF record
<1>7. /\ from'["notes"] \in 0..Len(report'["notes"])
      /\ SoFar("notes")' = IF ok THEN SoFar("notes") \cup {record} ELSE SoFar("notes")
  BY <1>1, <1>2, <1>3, <1>4, <1>6, SaidAfter
<1>8. /\ report'["failures"] = report["failures"] /\ report'["groups"] = report["groups"]
      /\ Len(report["notes"]) \in Nat /\ Len(report'["notes"]) = Len(report["notes"]) + 1
      /\ \A n \in 1..Len(report["notes"]) : report'["notes"][n] = report["notes"][n]
  BY <1>1, <1>3, <1>6, Recorded
<1>9. SoFar("failures")' = SoFar("failures")
  BY <1>8, SaidElsewhere
<1>10. Noted' = (IF ok THEN Noted \cup {p} ELSE Noted) /\ Failed' = Failed
  BY <1>5, <1>7, <1>9 DEF Noted, Failed
<1>11. \A r \in SoFar("notes")' \cup SoFar("failures")' : r.input = input
  BY <1>1, <1>5, <1>7, <1>9 DEF Own
<1>12. Own'
  BY <1>1, <1>7, <1>8, <1>10, <1>11 DEF Own
<1>13. PastSound'
  <2>1. \E S : report["failures"] \in Seq(S)
    BY <1>1, <1>3 DEF ReportSound
  <2>2. Len(report["failures"]) \in Nat
    BY <2>1
  <2>3. \A list \in {"notes", "failures"} :
          /\ Len(report'[list]) \in Nat /\ Len(report[list]) <= Len(report'[list])
          /\ \A n \in 1..Len(report[list]) : report'[list][n] = report[list][n]
    BY <1>8, <2>2
  <2>. QED  BY <1>1, <1>8, <2>3, PastKept
<1>14. BatchSound'
  <2>1. \A last : AllGrouped(last)' <=> AllGrouped(last)
    BY <1>8 DEF AllGrouped, Records
  <2>2. pc' # "report" /\ pc \notin {"closing", "exited"}
    BY DEF InHand, BeforePages, Walking, OnPage, WithNote, Written, WithAsset
  <2>. QED  BY <1>1, <2>1, <2>2 DEF BatchSound
<1>. QED  BY <1>10, <1>12, <1>13, <1>14

-----------------------------------------------------------------------------
\* Steps that move on

\* A step that moves on without touching the account, the page it is on or the
\* exit code.
LEMMA MovesOn ==
  ASSUME IInv, AccountInv, UNCHANGED Account, stopped' = stopped,
         page' = page \/ pc' \in BeforePages \/ pc' = "sectionFailed",
         code' = code \/ code' # 0,
         \/ pc' = "closing"
         \/ pc' = "exited" /\ pc \in {"closing", "exited"}
         \/ pc' = pc /\ rethrow' = rethrow
         \/ pc' = "next" /\ pc = "start"
         \/ pc' \in BeforePages /\ pc \in BeforePages
         \/ pc' \in {"sectionFailed", "inputFailed"} /\ pc \in InHand
         \/ pc' \in Walking \ {"level"} /\ pc \in Walking \ {"level"}
  PROVE  AccountInv'
<1>1. stopped \in BOOLEAN /\ BatchSound /\ PresentSound
  BY DEF AccountInv, BatchSound
<1>2. code' = 0 => ZeroMeansAll'
  BY DEF AccountInv, ZeroMeansAll, Account, ToConvert, Records
<1>3. \A p : page' = page /\ (pc' = "level" <=> pc = "level") => (Passed(p)' <=> Passed(p))
  BY DEF Passed
<1>4. pc' = pc /\ rethrow' = rethrow => (Settled <=> Settled')
  BY SaidElsewhere DEF Settled, ToConvert, Account, Noted, Failed
<1> USE DEF InHand, BeforePages, Walking, OnPage, WithNote, Written, WithAsset
<1>5. CASE pc' = pc /\ rethrow' = rethrow
  <2>1. pc' = "report" => stopped' \/ input = Len(batch)
    BY <1>1, <1>5 DEF BatchSound
  <2>2. pc' \in {"closeSection", "closeInput", "group"} => pc \in InHand /\ Settled'
    BY <1>1, <1>4, <1>5 DEF PresentSound
  <2>3. pc' \in Walking => page' = page
    OBVIOUS
  <2>. QED  BY <1>1, <1>2, <1>3, <1>5, <2>1, <2>2, <2>3, QuietAccounts
<1>6. CASE ~(pc' = pc /\ rethrow' = rethrow)
  <2>1. pc' \in Walking => page' = page /\ pc' # "level" /\ pc \in Walking \ {"level"}
    BY <1>6
  <2>. QED  BY <1>1, <1>2, <1>3, <1>6, <2>1, QuietAccounts
<1>. QED  BY <1>5, <1>6

\* Where the run stands, for the steps that need it.
LEMMA Standing ==
  ASSUME IInv, AccountInv
  PROVE  /\ ReportSound /\ PresentSound /\ PastSound /\ BatchSound /\ ZeroMeansAll
         /\ stopped \in BOOLEAN /\ rethrow \in BOOLEAN
         /\ input \in Nat /\ Len(batch) \in Nat /\ input <= Len(batch)
         /\ "store" \in held /\ pc # "claimSection" =>
              page \in Nat /\ Len(Pages) \in Nat /\ 1 <= page /\ page <= Len(Pages) + 1
         /\ pc \in Converting => "store" \in held
         /\ pc \notin {"closing", "exited"} => code # 0
BY DEF IInv, AccountInv, TypeOK, CursorSound, HeldSound, BatchSound

\* A step that only opens, claims, writes or waits keeps the account.
LEMMA WorkStep ==
  ASSUME IInv, AccountInv,
         \/ Launch \/ OpenInput \/ Closing \/ OpenStore \/ ClaimSection \/ CountNext
         \/ NextPage \/ ClaimNote \/ OpenNote \/ Render \/ ClaimAsset \/ OpenAsset \/ CopyAsset
         \/ RecordAsset \/ RememberAsset \/ RenderRest \/ FinishNote
         \/ Arrive \/ Deliver \/ HookFires \/ Exited
  PROVE  AccountInv'
<1>0. ReportSound
  BY DEF IInv
<1> USE DEF Goto, Crash, settings, files, workspace, closers, cursor, unwinding, outcome,
            events, names, Account, InHand, BeforePages, Walking, OnPage, WithNote, Written,
            WithAsset, Still
<1>1. ASSUME Launch PROVE AccountInv'
  BY <1>1, MovesOn DEF Launch
<1>2. ASSUME OpenInput PROVE AccountInv'
  BY <1>2, MovesOn DEF OpenInput
<1>3. ASSUME Closing PROVE AccountInv'
  BY <1>3, MovesOn DEF Closing
<1>4. ASSUME OpenStore PROVE AccountInv'
  BY <1>4, MovesOn DEF OpenStore
<1>5. ASSUME ClaimSection PROVE AccountInv'
  BY <1>5, MovesOn DEF ClaimSection
<1>6. ASSUME CountNext PROVE AccountInv'
  BY <1>6, MovesOn DEF CountNext, SectionStep
<1>7. ASSUME NextPage PROVE AccountInv'
  BY <1>7, MovesOn DEF NextPage, SectionStep
<1>8. ASSUME ClaimNote PROVE AccountInv'
  BY <1>8, MovesOn DEF ClaimNote
<1>9. ASSUME OpenNote PROVE AccountInv'
  BY <1>9, MovesOn DEF OpenNote
<1>10. ASSUME Render PROVE AccountInv'
  BY <1>0, <1>10, MovesOn DEF Render, WritingFrame, Writing, ThrowCancelled,
     Record, ReportSound, Lists
<1>11. ASSUME ClaimAsset PROVE AccountInv'
  BY <1>11, MovesOn DEF ClaimAsset, WritingFrame, Writing, ThrowCancelled
<1>12. ASSUME OpenAsset PROVE AccountInv'
  BY <1>12, MovesOn DEF OpenAsset, WritingFrame, Writing, ThrowCancelled
<1>13. ASSUME CopyAsset PROVE AccountInv'
  BY <1>13, MovesOn DEF CopyAsset, WritingFrame, Writing, ThrowCancelled
<1>14. ASSUME RecordAsset PROVE AccountInv'
  BY <1>0, <1>14, MovesOn DEF RecordAsset, WritingFrame, Writing, ThrowCancelled,
     Record, ReportSound, Lists
<1>15. ASSUME RememberAsset PROVE AccountInv'
  BY <1>15, MovesOn DEF RememberAsset, WritingFrame, Writing, ThrowCancelled
<1>16. ASSUME RenderRest PROVE AccountInv'
  BY <1>16, MovesOn DEF RenderRest, WritingFrame, Writing, ThrowCancelled
<1>17. ASSUME FinishNote PROVE AccountInv'
  BY <1>17, MovesOn DEF FinishNote, WritingFrame, Writing, ThrowCancelled
<1>18. ASSUME Arrive PROVE AccountInv'
  BY <1>18, MovesOn DEF Arrive, Still
<1>19. ASSUME Deliver PROVE AccountInv'
  BY <1>19, MovesOn DEF Deliver, Still
<1>20. ASSUME HookFires PROVE AccountInv'
  BY <1>20, MovesOn DEF HookFires, Still
<1>21. ASSUME Exited PROVE AccountInv'
  BY <1>21, MovesOn DEF Exited, vars
<1>. QED
  BY <1>1, <1>2, <1>3, <1>4, <1>5, <1>6, <1>7, <1>8, <1>9, <1>10, <1>11, <1>12, <1>13,
     <1>14, <1>15, <1>16, <1>17, <1>18, <1>19, <1>20, <1>21

-----------------------------------------------------------------------------
\* Steps of the walk

\* A step that gets to another page, or is done with a section or an input, keeps
\* the account: what it leaves behind is accounted for.
LEMMA WalkStep ==
  ASSUME IInv, AccountInv,
         \/ NoMoreInputs \/ CloseInput \/ OpenIndex \/ CountPage \/ StartPages \/ NoMorePages
         \/ CloseSection \/ StartPage \/ AbortNote \/ Level
  PROVE  AccountInv'
<1>0. /\ ReportSound /\ PresentSound /\ PastSound /\ BatchSound /\ ZeroMeansAll
      /\ stopped \in BOOLEAN /\ rethrow \in BOOLEAN
      /\ input \in Nat /\ Len(batch) \in Nat /\ input <= Len(batch)
      /\ "store" \in held /\ pc # "claimSection" =>
           page \in Nat /\ Len(Pages) \in Nat /\ 1 <= page /\ page <= Len(Pages) + 1
      /\ pc \in Converting => "store" \in held
  BY Standing
<1> USE DEF Goto, Crash, settings, files, workspace, closers, cursor, unwinding, outcome,
            events, names, Account
<1>a. UNCHANGED Account => (UNCHANGED code => (code' = 0 => ZeroMeansAll'))
  BY <1>0 DEF ZeroMeansAll, ToConvert, Records
<1>b. UNCHANGED Account => /\ (Settled /\ ~rethrow /\ stopped' = stopped => Settled')
                           /\ (stopped' => Settled')
  BY SaidElsewhere DEF Settled, ToConvert, Noted, Failed
<1>c. /\ {"index", "store", "count", "countWait", "pages", "pageWait", "closeSection",
          "closeInput", "abortNote", "level", "group", "sectionFailed", "inputFailed",
          "noteFailed", "claimNote"} \subseteq InHand
      /\ {"next", "report", "closing"} \cap InHand = {}
  BY DEF InHand, BeforePages, Walking, OnPage, WithNote, Written, WithAsset
<1>d. /\ {"index", "store", "count", "countWait"} \subseteq BeforePages
      /\ {"pages", "pageWait", "closeSection", "closeInput", "abortNote", "level", "group",
          "sectionFailed", "inputFailed", "noteFailed", "claimNote", "next", "report",
          "closing"} \cap BeforePages = {}
      /\ {"pages", "pageWait", "abortNote", "noteFailed", "claimNote", "level"} \subseteq Walking
      /\ {"index", "store", "count", "countWait", "closeSection", "closeInput", "group",
          "sectionFailed", "inputFailed", "next", "report", "closing"} \cap Walking = {}
  BY DEF BeforePages, Walking, OnPage, WithNote, Written, WithAsset
<1>1. ASSUME NoMoreInputs PROVE AccountInv'
  <2>1. (stopped => stopped') /\ stopped' \in BOOLEAN /\ (stopped' \/ ~(input < Len(batch)))
    BY <1>0, <1>1, Zenon DEF NoMoreInputs
  <2>2. stopped' \/ input = Len(batch)
    BY <1>0, <2>1
  <2>3. code' = 0 => ZeroMeansAll'
    BY <1>1, <1>a DEF NoMoreInputs
  <2>4. UNCHANGED Account /\ pc' = "report" /\ pc = "next"
    BY <1>1 DEF NoMoreInputs
  <2>. QED  BY <1>c, <1>d, <2>1, <2>2, <2>3, <2>4, QuietAccounts
<1>2. ASSUME CloseInput PROVE AccountInv'
  <2>1. ~rethrow => Settled'
    <3>1. Settled
      BY <1>0, <1>2, <1>c DEF CloseInput, PresentSound
    <3>. QED  BY <1>2, <3>1, <1>b DEF CloseInput
  <2>2. code' = 0 => ZeroMeansAll'
    BY <1>2, <1>a DEF CloseInput
  <2>. QED  BY <1>0, <1>c, <1>d, <1>2, <2>1, <2>2, QuietAccounts DEF CloseInput
<1>3. ASSUME OpenIndex PROVE AccountInv'
  BY <1>0, <1>a, <1>b, <1>c, <1>d, <1>3, QuietAccounts DEF OpenIndex
<1>4. ASSUME CountPage PROVE AccountInv'
  BY <1>0, <1>a, <1>b, <1>c, <1>d, <1>4, QuietAccounts DEF CountPage
<1>5. ASSUME StartPages PROVE AccountInv'
  <2>1. pc' \in Walking => \A p \in ToConvert(input) : ~Passed(p)'
    BY <1>0, <1>5 DEF StartPages, SectionStep, Passed, ToConvert
  <2>. QED  BY <1>0, <1>a, <1>c, <1>d, <1>5, <2>1, QuietAccounts DEF StartPages, SectionStep
<1>6. ASSUME NoMorePages PROVE AccountInv'
  <2>1. page \in Nat /\ Len(Pages) \in Nat /\ page > Len(Pages)
    BY <1>0, <1>6 DEF NoMorePages, Converting
  <2>2. \A p \in ToConvert(input) : Passed(p)
    BY <2>1 DEF Passed, ToConvert, Pages, Input
  <2>3. ToConvert(input) \subseteq Noted \cup Failed
    BY <1>0, <1>6, <1>c, <1>d, <2>2 DEF NoMorePages, PresentSound
  <2>4. Settled'
    BY <1>6, <2>3, SaidElsewhere DEF NoMorePages, Settled, ToConvert, Noted, Failed
  <2>. QED  BY <1>0, <1>a, <1>c, <1>d, <1>6, <2>4, QuietAccounts DEF NoMorePages
<1>7. ASSUME CloseSection PROVE AccountInv'
  <2>1. ~rethrow => Settled'
    <3>1. Settled
      BY <1>0, <1>7, <1>c DEF CloseSection, PresentSound
    <3>. QED  BY <1>7, <3>1, <1>b DEF CloseSection
  <2>2. code' = 0 => ZeroMeansAll'
    BY <1>7, <1>a DEF CloseSection
  <2>. QED  BY <1>0, <1>c, <1>d, <1>7, <2>1, <2>2, QuietAccounts DEF CloseSection
<1>8. ASSUME StartPage PROVE AccountInv'
  <2>1. page \in Nat
    BY <1>0, <1>8 DEF StartPage, Converting, OnPage
  <2>2. pc' \in Walking => /\ \A p \in Nat : Passed(p) => Passed(p)'
                           /\ \A p \in ToConvert(input) : Passed(p)' => Passed(p)
    BY <1>8, <1>d, <2>1 DEF StartPage, PageFrame, Passed, ToConvert, Page, Pages, Input
  <2>. QED  BY <1>0, <1>a, <1>b, <1>c, <1>d, <1>8, <2>2, QuietAccounts DEF StartPage, PageFrame
<1>9. ASSUME AbortNote PROVE AccountInv'
  <2>1. pc' \in Walking => \A p : Passed(p) <=> Passed(p)'
    BY <1>9 DEF AbortNote, WritingFrame, Passed
  <2>. QED  BY <1>0, <1>a, <1>b, <1>c, <1>d, <1>9, <2>1, QuietAccounts DEF AbortNote, WritingFrame
<1>10. ASSUME Level PROVE AccountInv'
  <2>1. page \in Nat
    BY <1>0, <1>10 DEF Level, SectionStep, Converting, OnPage
  <2>2. \A p \in Nat : Passed(p) <=> Passed(p)'
    BY <1>10, <2>1 DEF Level, SectionStep, Passed
  <2>3. ToConvert(input) \subseteq Nat
    BY <1>0 DEF ToConvert
  <2>. QED  BY <1>0, <1>a, <1>c, <1>d, <1>10, <2>2, <2>3, QuietAccounts DEF Level, SectionStep
<1>. QED  BY <1>1, <1>2, <1>3, <1>4, <1>5, <1>6, <1>7, <1>8, <1>9, <1>10

-----------------------------------------------------------------------------
\* Steps that say something of a page or an input

\* A recorded failure of the section or the input accounts for all of it, and one of
\* a page for that page; a noted page is not failed.
LEMMA RecordStep ==
  ASSUME IInv, AccountInv,
         \/ RefuseInput \/ RejectContainer \/ InputFailed \/ SectionFailed
         \/ RecordNote \/ NoteFailed
  PROVE  AccountInv'
<1>0. PresentSound /\ ZeroMeansAll /\ (pc \in Converting => "store" \in held)
      /\ ("store" \in held /\ pc # "claimSection" => page \in Nat /\ 1 <= page)
      /\ (pc \notin {"closing", "exited"} => code # 0)
  BY Standing
<1> USE DEF Goto, Crash, settings, cursor, unwinding, outcome
<1>c. /\ {"open", "reject", "inputFailed", "closeInput", "group", "sectionFailed",
          "closeSection", "recordNote", "noteFailed", "level"} \subseteq InHand
      /\ "closing" \notin InHand \cup BeforePages \cup Walking
      /\ {"open", "reject"} \subseteq BeforePages
      /\ {"inputFailed", "closeInput", "group", "sectionFailed", "closeSection",
          "recordNote", "noteFailed", "level"} \cap BeforePages = {}
      /\ {"recordNote", "noteFailed", "level"} \subseteq Walking
      /\ {"inputFailed", "closeInput", "group", "sectionFailed", "closeSection"}
           \cap Walking = {}
  BY DEF InHand, BeforePages, Walking, OnPage, WithNote, Written, WithAsset
<1>d. pc \in InHand => Own /\ Noted \subseteq Nat \ {0}
  BY <1>0 DEF PresentSound, Own
<1>1. ASSUME NEW ok \in BOOLEAN, pc \in InHand, pc' \in InHand \/ pc' = "closing",
             Record("failures", [input |-> input, page |-> 0], ok),
             UNCHANGED <<from, input, batch>>, stopped' = stopped,
             pc' \notin BeforePages \cup Walking,
             pc' \in {"closeSection", "closeInput", "group"} =>
               ok \/ (rethrow' /\ pc' # "group"),
             code' # 0
      PROVE  AccountInv'
  <2>1. /\ Own' /\ PastSound' /\ BatchSound'
        /\ Failed' = IF ok THEN Failed \cup {0} ELSE Failed
    <3>1. 0 \in Nat /\ 0 \notin Noted
      BY <1>1, <1>d
    <3>. QED  BY <1>1, <3>1, FailureRecorded
  <2>2. pc' \in {"closeSection", "closeInput", "group"} => Settled'
    BY <1>1, <2>1 DEF Settled
  <2>3. PresentSound'
    BY <1>1, <2>1, <2>2 DEF PresentSound
  <2>. QED  BY <1>1, <2>1, <2>3 DEF AccountInv, ZeroMeansAll
<1>2. ASSUME RefuseInput PROVE AccountInv'
  <2>1. PICK ok \in BOOLEAN :
          /\ Record("failures", [input |-> input, page |-> 0], ok)
          /\ \/ ok /\ pc' = "group" /\ code' = code
             \/ pc' = "closing" /\ code' = 1
    BY <1>2 DEF RefuseInput
  <2>2. pc = "open" /\ UNCHANGED <<from, input, batch>> /\ stopped' = stopped
    BY <1>2 DEF RefuseInput
  <2>3. code' # 0
    BY <1>0, <2>1, <2>2
  <2>. QED  BY <1>1, <1>c, <2>1, <2>2, <2>3
<1>3. ASSUME RejectContainer PROVE AccountInv'
  BY <1>0, <1>1, <1>3, <1>c DEF RejectContainer
<1>4. ASSUME InputFailed PROVE AccountInv'
  <2>1. PICK ok \in BOOLEAN : /\ Record("failures", [input |-> input, page |-> 0], ok)
                             /\ rethrow' = ~ok
    BY <1>4 DEF InputFailed
  <2>2. ok \/ rethrow'
    BY <2>1, Zenon
  <2>3. /\ pc = "inputFailed" /\ pc' = "closeInput" /\ stopped' = stopped
        /\ UNCHANGED <<from, input, batch, code>>
    BY <1>4 DEF InputFailed
  <2>. QED  BY <1>0, <1>1, <1>c, <2>1, <2>2, <2>3
<1>5. ASSUME SectionFailed PROVE AccountInv'
  <2>1. PICK ok \in BOOLEAN : /\ Record("failures", [input |-> input, page |-> 0], ok)
                             /\ rethrow' = ~ok
    BY <1>5 DEF SectionFailed
  <2>2. ok \/ rethrow'
    BY <2>1, Zenon
  <2>3. /\ pc = "sectionFailed" /\ pc' = "closeSection" /\ stopped' = stopped
        /\ UNCHANGED <<from, input, batch, code>>
    BY <1>5 DEF SectionFailed
  <2>. QED  BY <1>0, <1>1, <1>c, <2>1, <2>2, <2>3
<1>6. ASSUME pc \in {"recordNote", "noteFailed"}
      PROVE  /\ page \in Nat \ {0} /\ page \notin Noted \cup Failed
             /\ Noted \cup Failed \subseteq Nat
             /\ \A p \in Noted \cup Failed : p < page
             /\ \A p \in ToConvert(input) : p < page => p \in Noted \cup Failed
  <2>1. page \in Nat /\ 1 <= page
    BY <1>0, <1>6 DEF Converting, OnPage, WithNote
  <2>2. \A p : Passed(p) <=> p < page
    BY <1>6 DEF Passed
  <2>3. \A p \in Noted \cup Failed : p < page
    BY <1>0, <1>6, <1>c, <2>2 DEF PresentSound
  <2>4. \A p \in ToConvert(input) : p < page => p \in Noted \cup Failed
    BY <1>0, <1>6, <1>c, <2>2 DEF PresentSound
  <2>5. Noted \cup Failed \subseteq Nat
    BY <1>0, <1>6, <1>c DEF PresentSound, Own
  <2>. QED  BY <2>1, <2>3, <2>4, <2>5
<1>7. ASSUME pc \in {"recordNote", "noteFailed"}, Own', PastSound', BatchSound',
             code' = code, UNCHANGED <<input, page, batch>>,
             \/ pc' = "level" /\ Noted' \cup Failed' = Noted \cup Failed \cup {page}
             \/ pc' \in {"noteFailed", "sectionFailed"} /\ Noted' \cup Failed' = Noted \cup Failed
      PROVE  AccountInv'
  <2>1. ToConvert(input)' = ToConvert(input) /\ ToConvert(input) \subseteq Nat
    BY <1>7 DEF ToConvert
  <2>2. /\ \A p \in Noted' \cup Failed' : Passed(p)'
        /\ \A p \in ToConvert(input)' : Passed(p)' => p \in Noted' \cup Failed'
    <3>1. CASE pc' = "level" /\ Noted' \cup Failed' = Noted \cup Failed \cup {page}
      BY <1>6, <1>7, <2>1, <3>1 DEF Passed
    <3>2. CASE pc' \in {"noteFailed", "sectionFailed"} /\ Noted' \cup Failed' = Noted \cup Failed
      BY <1>6, <1>7, <2>1, <3>2 DEF Passed
    <3>. QED  BY <1>7, <3>1, <3>2
  <2>3. PresentSound'
    BY <1>7, <1>c, <2>2 DEF PresentSound
  <2>. QED  BY <1>0, <1>7, <2>3 DEF AccountInv, ZeroMeansAll
<1>8. ASSUME RecordNote PROVE AccountInv'
  <2>1. PICK ok \in BOOLEAN :
          /\ Record("notes", [input |-> input, page |-> page, path |-> note], ok)
          /\ pc' = IF ok THEN "level" ELSE "noteFailed"
    BY <1>8 DEF RecordNote
  <2>2. pc = "recordNote" /\ UNCHANGED <<from, input, page, batch, code>> /\ stopped' = stopped
    BY <1>8 DEF RecordNote
  <2>3. /\ Own' /\ PastSound' /\ BatchSound'
        /\ Noted' = (IF ok THEN Noted \cup {page} ELSE Noted) /\ Failed' = Failed
    BY <1>6, <1>c, <2>1, <2>2, NoteRecorded
  <2>. QED  BY <1>7, <2>1, <2>2, <2>3
<1>9. ASSUME NoteFailed PROVE AccountInv'
  <2>1. PICK ok \in BOOLEAN :
          /\ Record("failures", [input |-> input, page |-> page], ok)
          /\ pc' = IF ok THEN "level" ELSE "sectionFailed"
    BY <1>9 DEF NoteFailed
  <2>2. pc = "noteFailed" /\ UNCHANGED <<from, input, page, batch, code>> /\ stopped' = stopped
    BY <1>9 DEF NoteFailed
  <2>3. /\ Own' /\ PastSound' /\ BatchSound'
        /\ Failed' = (IF ok THEN Failed \cup {page} ELSE Failed) /\ Noted' = Noted
    BY <1>6, <1>c, <2>1, <2>2, FailureRecorded
  <2>. QED  BY <1>7, <2>1, <2>2, <2>3
<1>. QED  BY <1>2, <1>3, <1>4, <1>5, <1>8, <1>9

\* The group closed over an input says of it what the account does.
LEMMA GroupSound ==
  ASSUME AccountInv, ReportSound, NEW group,
         group = [input |-> input, from |-> from, to |-> Marks, cancelled |-> stopped],
         pc = "group", UNCHANGED <<report["notes"], report["failures"], batch>>
  PROVE  Within(group)' /\ Accounted(group)'
<1>1. Own /\ Settled
  BY DEF AccountInv, PresentSound, InHand
<1>2. /\ group.input = input /\ group.from = from /\ group.cancelled = stopped
      /\ group.to["notes"] = Len(report["notes"])
      /\ group.to["failures"] = Len(report["failures"])
  BY DEF Marks, Lists
<1>3. /\ Len(report["notes"]) \in Nat /\ Len(report["failures"]) \in Nat
  <2>1. \A list \in Lists : \E S : report[list] \in Seq(S)
    BY DEF ReportSound
  <2>2. "notes" \in Lists /\ "failures" \in Lists
    BY DEF Lists
  <2>. QED  BY <2>1, <2>2
<1>4. Slice("notes", group) = SoFar("notes") /\ Slice("failures", group) = SoFar("failures")
  BY <1>2 DEF Slice, SoFar
<1>5. Accounted(group)
  BY <1>1, <1>2, <1>4 DEF Accounted, Own, Settled, Noted, Failed
<1>6. Within(group)
  BY <1>1, <1>2, <1>3 DEF Within, Own
<1>. QED  BY <1>3, <1>5, <1>6, GroupKept

\* An input is taken in hand with nothing said of it yet, and left with its group.
LEMMA InputStep ==
  ASSUME IInv, AccountInv, NextInput \/ CloseGroup
  PROVE  AccountInv'
<1>0. /\ ReportSound /\ PresentSound /\ PastSound /\ BatchSound /\ ZeroMeansAll
      /\ stopped \in BOOLEAN /\ input \in Nat /\ Len(batch) \in Nat
      /\ (pc \notin {"closing", "exited"} => code # 0)
  BY Standing
<1>c. /\ "open" \in BeforePages /\ {"open", "group"} \subseteq InHand
      /\ {"open", "closing", "next"} \cap Walking = {}
      /\ {"closing", "next"} \cap InHand = {}
  BY DEF InHand, BeforePages, Walking, OnPage, WithNote, Written, WithAsset
<1>1. ASSUME NextInput PROVE AccountInv'
  <2> USE DEF Goto, Crash, settings, outcome
  <2>1. PICK ok \in BOOLEAN :
          /\ Record("inputs", input + 1, ok)
          /\ \/ /\ pc' = "open" /\ code' = code /\ input' = input + 1 /\ from' = Marks
             \/ pc' = "closing" /\ code' = 1
    BY <1>1 DEF NextInput
  <2>2. pc = "next" /\ input < Len(batch) /\ UNCHANGED batch /\ stopped' = stopped
    BY <1>1 DEF NextInput
  <2>3. \A list \in {"notes", "failures", "groups"} :
          report'[list] = report[list] /\ Len(report[list]) \in Nat
    <3>1. \A list \in Lists : \E S : report[list] \in Seq(S)
      BY <1>0 DEF ReportSound
    <3>2. {"notes", "failures", "groups"} \subseteq Lists \ {"inputs"} /\ "inputs" \in Lists
      BY DEF Lists
    <3>3. \A list \in Lists \ {"inputs"} : report'[list] = report[list]
      BY <1>0, <2>1, <3>2, Recorded
    <3>4. \A list \in Lists : Len(report[list]) \in Nat
      BY <3>1
    <3>. QED  BY <3>2, <3>3, <3>4
  <2>4. PastSound'
    BY <1>0, <2>2, <2>3, PastKept
  <2>5. ASSUME pc' = "open" PROVE Own' /\ Noted' = {} /\ Failed' = {}
    <3>1. /\ input' \in 1..Len(batch')
          /\ \A list \in {"notes", "failures"} : from'[list] = Len(report'[list])
      BY <1>0, <2>1, <2>2, <2>3, <2>5 DEF Marks, Lists
    <3>2. \A list \in {"notes", "failures"} : SoFar(list)' = {}
      BY <2>3, <3>1 DEF SoFar
    <3>3. Noted' = {} /\ Failed' = {}
      BY <3>2 DEF Noted, Failed
    <3>. QED  BY <2>3, <3>1, <3>2, <3>3 DEF Own
  <2>6. PresentSound'
    BY <1>c, <2>1, <2>5 DEF PresentSound
  <2>7. BatchSound'
    <3>1. \A last : AllGrouped(last)' <=> AllGrouped(last)
      BY <2>3 DEF AllGrouped, Records
    <3>2. pc' = "open" => input' - 1 = input
      BY <1>0, <2>1
    <3>. QED  BY <1>0, <1>c, <2>1, <2>2, <3>1, <3>2 DEF BatchSound
  <2>. QED  BY <1>0, <2>1, <2>2, <2>4, <2>6, <2>7 DEF AccountInv, ZeroMeansAll
<1>2. ASSUME CloseGroup PROVE AccountInv'
  <2> USE DEF Goto, Crash, settings, cursor, outcome
  <2> DEFINE len == Len(report["groups"])
  <2>r. PICK group : group = [input |-> input, from |-> from, to |-> Marks, cancelled |-> stopped]
    OBVIOUS
  <2>1. PICK ok \in BOOLEAN :
          /\ Record("groups", group, ok)
          /\ \/ ok /\ pc' = "next" /\ code' = code
             \/ pc' = "closing" /\ code' = 1
    BY <1>2, <2>r DEF CloseGroup
  <2>2. pc = "group" /\ UNCHANGED <<batch, input>> /\ stopped' = stopped
    BY <1>2 DEF CloseGroup
  <2>g. group # Missing /\ group.cancelled = stopped /\ group.input = input
    BY <2>r, RecordsDiffer
  <2>3. /\ \A list \in {"notes", "failures"} : report'[list] = report[list]
        /\ len \in Nat /\ Len(report'["groups"]) = len + 1
        /\ \A n \in 1..len : report'["groups"][n] = report["groups"][n]
        /\ report'["groups"][len + 1] = IF ok THEN group ELSE Missing
        /\ ReportSound'
    <3>1. {"notes", "failures"} \subseteq Lists \ {"groups"} /\ "groups" \in Lists
      BY DEF Lists
    <3>. QED  BY <1>0, <2>1, <3>1, Recorded
  <2>4. Within(group)' /\ Accounted(group)'
    BY <1>0, <2>2, <2>3, <2>r, GroupSound
  <2>5. \A list \in {"notes", "failures"} : Len(report[list]) \in Nat
    <3>1. \A list \in Lists : \E S : report[list] \in Seq(S)
      BY <1>0 DEF ReportSound
    <3>2. \A list \in Lists : Len(report[list]) \in Nat
      BY <3>1
    <3>. QED  BY <3>2 DEF Lists
  <2> HIDE DEF len
  <2>6. PastSound'
    <3> SUFFICES ASSUME NEW n \in 1..len + 1, NEW g, g = report'["groups"][n], g # Missing
                 PROVE  Within(g)' /\ Accounted(g)' /\ (g.cancelled => stopped')
      BY <2>3 DEF PastSound
    <3>1. CASE n = len + 1
      BY <2>2, <2>3, <2>4, <2>g, <3>1
    <3>2. CASE n # len + 1
      <4>1. n \in 1..len /\ g = report["groups"][n]
        BY <2>3, <3>2
      <4>2. Within(g) /\ Accounted(g) /\ (g.cancelled => stopped)
        BY <1>0, <4>1 DEF PastSound, len
      <4>3. Within(g)' /\ Accounted(g)'
        BY <2>2, <2>3, <2>5, <4>2, GroupKept
      <4>. QED  BY <2>2, <4>2, <4>3
    <3>. QED  BY <3>1, <3>2
  <2>7. pc' = "next" => AllGrouped(input)'
    <3>1. AllGrouped(input - 1)
      BY <1>0, <1>c, <2>2 DEF BatchSound
    <3>2. DOMAIN report["groups"] = 1..len /\ DOMAIN report'["groups"] = 1..len + 1
      <4>1. "groups" \in Lists
        BY DEF Lists
      <4>. QED  BY <1>0, <2>3, <4>1 DEF ReportSound, len
    <3>3. Records("groups") \subseteq Records("groups")'
      BY <2>3, <3>2 DEF Records, Range
    <3>4. ok => group \in Records("groups")'
      BY <2>3, <2>g, <3>2 DEF Records, Range
    <3>5. \A i \in 1..input : i = input \/ i \in 1..input-1
      BY <1>0
    <3>. QED  BY <1>0, <2>1, <2>2, <2>g, <3>1, <3>3, <3>4, <3>5 DEF AllGrouped
  <2>8. PresentSound'
    BY <1>c, <2>1 DEF PresentSound
  <2>9. BatchSound'
    BY <1>0, <1>c, <2>1, <2>2, <2>7 DEF BatchSound
  <2>. QED  BY <1>0, <2>1, <2>2, <2>6, <2>8, <2>9 DEF AccountInv, ZeroMeansAll
<1>. QED  BY <1>1, <1>2

-----------------------------------------------------------------------------
\* The report, and the theorems

\* A report with exit code 0 follows an input each of whose pages was noted.
LEMMA ReportStepSound ==
  ASSUME IInv, AccountInv, Report
  PROVE  AccountInv'
<1>0. /\ ReportSound /\ PresentSound /\ PastSound /\ BatchSound
      /\ stopped \in BOOLEAN /\ input \in Nat /\ Len(batch) \in Nat
  BY Standing
<1>1. /\ pc = "report" /\ pc' = "closing" /\ UNCHANGED Account /\ stopped' = stopped
      /\ (code' = 0 => ~stopped /\ report["failures"] = <<>>)
  <2>1. pc = "report" /\ pc' = "closing" /\ UNCHANGED Account /\ stopped' = stopped
    BY DEF Report, Goto, settings, workspace, cursor, Account
  <2>2. CASE report["groups"] = <<>>
    BY <2>1, <2>2 DEF Report
  <2>3. CASE report["groups"] # <<>>
    <3>1. PICK json \in BOOLEAN :
            IF Legible(json)
            THEN code' = IF stopped THEN 130 ELSE IF report["failures"] # <<>> THEN 1 ELSE 0
            ELSE code' = 1
      BY <2>3 DEF Report
    <3>. QED  BY <1>0, <2>1, <3>1
  <2>. QED  BY <2>1, <2>2, <2>3
<1>2. ASSUME code' = 0, NEW i \in 1..Len(batch), NEW p \in ToConvert(i)
      PROVE  \E r \in Records("notes") : r.input = i /\ r.page = p
  <2>1. ~stopped /\ report["failures"] = <<>> /\ input = Len(batch)
    BY <1>0, <1>1, <1>2 DEF BatchSound
  <2>2. AllGrouped(input)
    BY <1>0, <1>1 DEF BatchSound, InHand, BeforePages, Walking, OnPage, WithNote, Written,
                      WithAsset
  <2>3. PICK group \in Records("groups") : group.input = i
    BY <2>1, <2>2 DEF AllGrouped
  <2>4. Within(group) /\ Accounted(group) /\ ~group.cancelled
    <3>1. DOMAIN report["groups"] = 1..Len(report["groups"])
      BY <1>0 DEF ReportSound, Lists
    <3>2. PICK n \in 1..Len(report["groups"]) : group = report["groups"][n]
      BY <2>3, <3>1 DEF Records, Range
    <3>. QED  BY <1>0, <2>1, <2>3, <3>2 DEF PastSound, Records
  <2>5. Slice("failures", group) = {}
    <3>1. group.from["failures"] \in Nat /\ group.to["failures"] \in 0..0
      BY <2>1, <2>4 DEF Within
    <3>2. group.from["failures"]+1..group.to["failures"] = {}
      BY <3>1
    <3>. QED  BY <3>2 DEF Slice
  <2>6. PICK r \in Slice("notes", group) : r.page = p
    BY <1>2, <2>3, <2>4, <2>5 DEF Accounted
  <2>7. r.input = i
    BY <2>3, <2>4, <2>6 DEF Accounted
  <2>8. r \in Records("notes")
    <3>1. DOMAIN report["notes"] = 1..Len(report["notes"]) /\ Len(report["notes"]) \in Nat
      BY <1>0 DEF ReportSound, Lists
    <3>2. group.from["notes"] \in Nat /\ group.to["notes"] \in 0..Len(report["notes"])
      BY <2>4 DEF Within
    <3>3. group.from["notes"]+1..group.to["notes"] \subseteq DOMAIN report["notes"]
      BY <3>1, <3>2
    <3>. QED  BY <2>6, <3>3 DEF Slice, Records, Range
  <2>. QED  BY <2>6, <2>7, <2>8
<1>3. code' = 0 => input = Len(batch) /\ report["failures"] = <<>>
  BY <1>0, <1>1 DEF BatchSound
<1>4. ZeroMeansAll'
  BY <1>1, <1>2, <1>3 DEF ZeroMeansAll, Account, ToConvert, Records
<1>. QED  BY <1>0, <1>1, <1>4, QuietAccounts DEF InHand, BeforePages, Walking, OnPage,
                                                WithNote, Written, WithAsset

\* No input is in hand before the run starts.
LEMMA InitAccounts == Init => AccountInv
<1> SUFFICES ASSUME Init PROVE AccountInv
  OBVIOUS
<1> USE DEF Init, WorkspaceInit
<1>1. PresentSound
  BY DEF PresentSound, InHand, BeforePages, Walking, OnPage, WithNote, Written, WithAsset
<1>2. PastSound
  <2>1. Len(report["groups"]) = 0
    BY DEF Lists
  <2>. QED  BY <2>1 DEF PastSound
<1>3. BatchSound
  <2>1. pc = "start" /\ pc \notin InHand /\ stopped \in BOOLEAN
    BY DEF InHand, BeforePages, Walking, OnPage, WithNote, Written, WithAsset
  <2>2. AllGrouped(input)
    BY DEF AllGrouped
  <2>. QED  BY <2>1, <2>2 DEF BatchSound
<1>4. ZeroMeansAll
  BY DEF ZeroMeansAll
<1>. QED  BY <1>1, <1>2, <1>3, <1>4 DEF AccountInv

\* Whatever the run does next, it accounts for what it has done.
LEMMA StepAccounts == IInv /\ AccountInv /\ [Next]_vars => AccountInv'
<1> SUFFICES ASSUME IInv, AccountInv, [Next]_vars PROVE AccountInv'
  OBVIOUS
<1>1. CASE Next
  BY <1>1, WorkStep, WalkStep, RecordStep, InputStep, ReportStepSound
  DEF Next, Process, RunStep, SectionSteps, NoteSteps
<1>2. CASE UNCHANGED vars
  <2>1. Exited \/ UNCHANGED <<Account, page, stopped, code, pc, rethrow>>
    BY <1>2 DEF vars, Account, settings, workspace, cursor, unwinding, outcome
  <2>2. ASSUME UNCHANGED <<Account, page, stopped, code, pc, rethrow>> PROVE AccountInv'
    BY <2>2, MovesOn
  <2>. QED  BY <2>1, <2>2, WorkStep
<1>. QED  BY <1>1, <1>2

\* The account holds for the whole of every run.
THEOREM AccountsInvariance == Spec => []AccountInv
BY InitAccounts, StepAccounts, Invariance, PTL DEF Spec

\* A printed report gives each input its own notes and failures, and has every page to
\* convert as one of them and none as both, unless the section failed as a whole or the
\* group says it was cancelled.  (convertPages, convertOne and runBounded, which closes
\* the group over the marks.)
THEOREM EveryPageAccounted == Spec => []ReportAccounts
<1>1. IInv /\ AccountInv => ReportAccounts
  <2> SUFFICES ASSUME IInv, AccountInv, NEW group \in Records("groups") PROVE Accounted(group)
    BY DEF ReportAccounts, Accounted
  <2>1. DOMAIN report["groups"] = 1..Len(report["groups"])
    BY DEF IInv, ReportSound, Lists
  <2>2. PICK n \in 1..Len(report["groups"]) : group = report["groups"][n]
    BY <2>1 DEF Records, Range
  <2>. QED  BY <2>2 DEF AccountInv, PastSound, Records
<1>. QED  BY <1>1, Invariance, AccountsInvariance, PTL

\* The exit code says nothing went wrong only when nothing was left out.
\* (runBoundedCli's exit code, over what convertPages and runBounded recorded.)
THEOREM ZeroIsComplete == Spec => []ZeroMeansAll
<1>1. AccountInv => ZeroMeansAll
  BY DEF AccountInv
<1>. QED  BY <1>1, AccountsInvariance, PTL
=============================================================================
