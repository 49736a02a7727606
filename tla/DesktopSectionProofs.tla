------------------------ MODULE DesktopSectionProofs ------------------------
(***************************************************************************)
(* What DesktopSection keeps true for every file: a list gives only what   *)
(* its log committed, the tables of the index fit together and what they   *)
(* say of an object stays, a space that is remembered was replayed whole,  *)
(* and a view that is answered says the last of every identifier of its    *)
(* set.                                                                    *)
(***************************************************************************)
EXTENDS DesktopSection, SpaceResolverProofs

-----------------------------------------------------------------------------
(* The index.  An association is numbered when it is made, and so are two  *)
(* of them apart.                                                          *)

RolesOrdered(ix, last) ==
  \A r, q \in DOMAIN ix.revisions :
    \A a \in Range(ix.revisions[r].roles), b \in Range(ix.revisions[q].roles) :
      a.order \in 1..last /\ (a.order = b.order => r = q)

ObjectsSound(ix) ==
  /\ Len(ix.objects) <= MaxObjects
  /\ \A o \in DOMAIN ix.objects :
       ix.objects[o].properties = Nil \/ ix.objects[o].properties \in Seq(Nat)

TotalsSound ==
  /\ DOMAIN totals = {"nodes", "associations", "assets"}
  /\ totals.nodes \in Nat /\ totals.nodes <= MaxFileNodes
  /\ totals.associations \in Nat
  /\ totals.assets \in Nat /\ totals.assets <= MaxTotalAssetBytes

TablesHold(ix, last) ==
  /\ IndexSound(ix) /\ ix.encoding = "revision-store" /\ ObjectsSound(ix)
  /\ RolesOrdered(ix, last)

TablesSound == TablesHold(index, totals.associations)

(* The log, while it is read; the counts it gives are those of lists.      *)
LogSound ==
  /\ file \in Files
  /\ DOMAIN log = {"at", "pos", "completed", "seen", "count", "entries", "crc"}
  /\ log.pos \in Nat /\ Leads(log.at, file.log.fragments)
  /\ log.pos > 0 => log.at \in DOMAIN file.log.fragments
  /\ \A list \in DOMAIN counts : counts[list] \in Nat

(* A list that is open: what it has given and what its fragment may still  *)
(* give add up to what the log committed, and before its first fragment it *)
(* has given nothing.                                                      *)
FrameFields == {"at", "step", "pos", "quota", "list", "committed", "produced", "expected",
                "seen", "count", "scope", "revision", "space"}

FrameSound(frame) ==
  /\ DOMAIN frame = FrameFields
  /\ Leads(frame.at, file.fragments)
  /\ frame.pos \in Nat \ {0} /\ frame.quota \in Nat
  /\ frame.produced \in Nat /\ frame.committed \in Nat /\ frame.produced <= frame.committed
  /\ frame.list = Nil => frame.produced = 0 /\ frame.committed = 0
  /\ frame.list /= Nil => frame.committed = CommittedNodeCount(frame.list)
  /\ frame.step = "nodes" => /\ frame.at \in DOMAIN file.fragments
                             /\ frame.produced + frame.quota = frame.committed
  /\ frame.revision \in 0..Len(index.revisions)
  /\ phase = "walk" => frame.scope \in DOMAIN index.scopes

ListsSound ==
  /\ Sequential(frames) /\ Len(frames) <= MaxNesting
  /\ \A i \in DOMAIN frames : FrameSound(frames[i])

PhaseSound ==
  /\ phase \in {"log", "root", "walk", "done", "failed"}
  /\ phase = "failed" <=> fault /= Ok
  /\ phase = "log" => frames = <<>>

IndexerSound == PhaseSound /\ LogSound /\ ListsSound /\ TotalsSound /\ TablesSound

(* Until the index is finished, nothing has been asked. *)
Unasked ==
  /\ slots = <<>> /\ cache = <<>> /\ request = Idle /\ search = NotSearching
  /\ kept = <<>> /\ setSlots = 0 /\ walk = NotWalking /\ views = <<>>

AskingSound ==
  /\ phase /= "done" => Unasked
  /\ cells = <<>>
  /\ failures \in Nat /\ failures <= MaxFailures
  /\ requests \in Nat /\ requests <= MaxRequests

-----------------------------------------------------------------------------
(* The property sets.  What is recorded of a set up to its n-th property:  *)
(* under each identifier met so far the last with it, and no other.        *)

Recorded(records, units, slot, ids, n) ==
  /\ \A i \in 1..n :
       LET rawId == Unit(units, ids + i)
           key   == <<"property", slot, PropertyId(rawId)>>
       IN (\A j \in i + 1..n : PropertyId(Unit(units, ids + j)) /= PropertyId(rawId)) =>
            /\ key \in DOMAIN records
            /\ ReadPropertyRecord(records[key]).rawId = rawId
            /\ ReadPropertyRecord(records[key]).index = i
  /\ \A key \in DOMAIN records :
       key[1] = "property" /\ key[2] = slot =>
         \E i \in 1..n : key[3] = PropertyId(Unit(units, ids + i))

IsKey(key) ==
  \/ \E object \in DOMAIN index.objects : key = <<"parsed", object>>
  \/ \E slot \in 1..setSlots, id \in Nat : key = <<"property", slot, id>>

WalkSound ==
  InWalk =>
    /\ DOMAIN walk = {"object", "path", "slot", "streams", "depth", "ids", "count", "position",
                      "place"}
    /\ walk.object \in DOMAIN index.objects /\ Value(walk.object) \in Seq(Nat)
    /\ Sequential(walk.path)
    /\ walk.slot = setSlots /\ setSlots > 0
    /\ walk.count = CountOf(walk)
    /\ walk.position \in 1..walk.count + 1
    /\ DOMAIN walk.place = {"error", "at", "taken", "property"} /\ walk.place.error = Ok
    /\ Recorded(kept, Value(walk.object), walk.slot, walk.ids, walk.position - 1)
    /\ \A view \in Views : view.slot /= walk.slot
    /\ walk.path = <<>> =>
         /\ walk.streams = LocateStreams(Value(walk.object)) /\ ~Stopped(walk.streams)
         /\ walk.ids = walk.streams.root

RecordsSound ==
  /\ setSlots \in Nat /\ Sequential(views)
  /\ \A key \in DOMAIN kept : IsKey(key)
  /\ \A view \in Views :
       /\ view.object \in DOMAIN index.objects /\ Value(view.object) \in Seq(Nat)
       /\ Sequential(view.path)

PropertiesSound == RecordsSound /\ WalkSound /\ ViewsAreWhole

IInv == IndexerSound /\ AskingSound /\ SpacesSound /\ PropertiesSound

-----------------------------------------------------------------------------
(* The records of the store.  A sequence lies in a record from a place on. *)

Lies(s, record, at) ==
  \A i \in 1..Len(s) : at + i - 1 \in DOMAIN record /\ record[at + i - 1] = s[i]

LEMMA ConcatSequence ==
  ASSUME NEW s, NEW t, Sequential(s), Sequential(t)
  PROVE  /\ Sequential(s \o t) /\ Len(s \o t) = Len(s) + Len(t)
         /\ \A i \in 1..Len(s) : (s \o t)[i] = s[i]
         /\ \A i \in 1..Len(t) : (s \o t)[Len(s) + i] = t[i]
<1> DEFINE S == {s[i] : i \in 1..Len(s)} \cup {t[i] : i \in 1..Len(t)}
<1>1. s \in Seq(S) /\ t \in Seq(S)
  <2>1. s \in Seq({s[i] : i \in 1..Len(s)}) /\ {s[i] : i \in 1..Len(s)} \subseteq S
    BY SequentialIsSeq
  <2>2. t \in Seq({t[i] : i \in 1..Len(t)}) /\ {t[i] : i \in 1..Len(t)} \subseteq S
    BY SequentialIsSeq
  <2> HIDE DEF S
  <2>. QED  BY <2>1, <2>2, SeqMonotonic
<1> HIDE DEF S
<1>2. s \o t \in Seq(S) /\ Len(s \o t) = Len(s) + Len(t)
      /\ \A i \in 1..Len(s) + Len(t) :
           (s \o t)[i] = IF i <= Len(s) THEN s[i] ELSE t[i - Len(s)]
  BY <1>1, ConcatProperties
<1>3. Sequential(s \o t)
  BY <1>2, SeqIsSequential
<1>. QED  BY <1>2, <1>3 DEF Sequential

LEMMA ConcatLies ==
  ASSUME NEW r, NEW t, Sequential(r), Sequential(t)
  PROVE  /\ Sequential(r \o t) /\ Len(r \o t) = Len(r) + Len(t)
         /\ Lies(t, r \o t, Len(r) + 1)
         /\ \A s : \A at \in Nat : Lies(s, r, at) => Lies(s, r \o t, at)
<1> DEFINE u == r \o t
<1>1. /\ Sequential(u) /\ Len(u) = Len(r) + Len(t)
      /\ \A i \in 1..Len(r) : u[i] = r[i]
      /\ \A i \in 1..Len(t) : u[Len(r) + i] = t[i]
  BY ConcatSequence
<1> HIDE DEF u
<1>2. /\ DOMAIN r = 1..Len(r) /\ DOMAIN u = 1..Len(r) + Len(t)
      /\ Len(r) \in Nat /\ Len(t) \in Nat
  BY <1>1 DEF Sequential
<1>3. Lies(t, u, Len(r) + 1)
  BY <1>1, <1>2 DEF Lies
<1>4. ASSUME NEW s, NEW at \in Nat, Lies(s, r, at)
      PROVE  Lies(s, u, at)
  BY <1>1, <1>2, <1>4 DEF Lies
<1>. QED  BY <1>1, <1>3, <1>4 DEF u

OptionalField(field, width) == field = Nil \/ (Sequential(field) /\ Len(field) = width)

LEMMA FlaggedSequence ==
  ASSUME NEW width \in Nat, NEW field, OptionalField(field, width)
  PROVE  /\ Sequential(Flagged(field))
         /\ Len(Flagged(field)) = IF field = Nil THEN 1 ELSE width + 1
         /\ field = Nil => Flagged(field)[1] = 0
         /\ field /= Nil => /\ Flagged(field)[1] = 1
                            /\ \A i \in 1..width : Flagged(field)[i + 1] = field[i]
<1>1. /\ Sequential(<<0>>) /\ Len(<<0>>) = 1 /\ <<0>>[1] = 0
      /\ Sequential(<<1>>) /\ Len(<<1>>) = 1 /\ <<1>>[1] = 1
  BY DEF Sequential
<1>2. CASE field = Nil
  BY <1>1, <1>2 DEF Flagged
<1>3. CASE field # Nil
  <2>1. Flagged(field) = <<1>> \o field /\ Sequential(field) /\ Len(field) = width
    BY <1>3 DEF Flagged, OptionalField
  <2>2. /\ Sequential(<<1>> \o field) /\ Len(<<1>> \o field) = 1 + width
        /\ (<<1>> \o field)[1] = 1
        /\ \A i \in 1..width : (<<1>> \o field)[1 + i] = field[i]
    BY <1>1, <2>1, ConcatSequence
  <2>. QED  BY <1>3, <2>1, <2>2
<1>. QED  BY <1>2, <1>3

\* An optional field is read back where it lies, and where it ends is where the next begins.
LEMMA FieldReadBack ==
  ASSUME NEW record, Sequential(record), NEW at \in Nat \ {0}, NEW width \in Nat, NEW field,
         OptionalField(field, width), Lies(Flagged(field), record, at)
  PROVE  /\ FieldAt(record, at, width) = field
         /\ EndOf(record, at, width) = at + Len(Flagged(field))
<1>1. CASE field = Nil
  <2>1. record[at] = 0 /\ Len(Flagged(field)) = 1
    BY <1>1, FlaggedSequence DEF Lies
  <2>. QED  BY <1>1, <2>1 DEF FieldAt, EndOf
<1>2. CASE field # Nil
  <2>1. /\ Len(Flagged(field)) = width + 1 /\ Flagged(field)[1] = 1
        /\ \A i \in 1..width : Flagged(field)[i + 1] = field[i]
    BY <1>2, FlaggedSequence
  <2>2. record[at] = 1 /\ \A i \in 1..width : at + i \in DOMAIN record /\ record[at + i] = field[i]
    <3>1. 1 \in 1..width + 1 /\ at + 1 - 1 = at
      OBVIOUS
    <3>2. record[at] = 1
      BY <2>1, <3>1 DEF Lies
    <3>3. ASSUME NEW i \in 1..width
          PROVE  at + i \in DOMAIN record /\ record[at + i] = field[i]
      <4>1. i + 1 \in 1..width + 1 /\ at + (i + 1) - 1 = at + i
        OBVIOUS
      <4>. QED  BY <2>1, <4>1 DEF Lies
    <3>. QED  BY <3>2, <3>3
  <2>3. record \in Seq({record[i] : i \in 1..Len(record)}) /\ Len(record) \in Nat
        /\ DOMAIN record = 1..Len(record)
    BY SequentialIsSeq
  <2>4. at \in DOMAIN record
    BY <2>1 DEF Lies
  <2>5. at + 1 \in 1..Len(record) + 1 /\ at + width \in at..Len(record)
    <3>1. CASE width = 0
      BY <2>3, <2>4, <3>1
    <3>2. CASE width # 0
      BY <2>2, <2>3, <2>4, <3>2
    <3>. QED  BY <3>1, <3>2
  <2> DEFINE part == SubSeq(record, at + 1, at + width)
  <2>6. /\ part \in Seq({record[i] : i \in 1..Len(record)}) /\ Len(part) = width
        /\ \A i \in 1..width : part[i] = record[at + i]
    <3>1. at + width \in (at + 1) - 1..Len(record)
      BY <2>5
    <3>2. (at + width) - (at + 1) + 1 = width /\ \A i \in 1..width : at + 1 + i - 1 = at + i
      OBVIOUS
    <3>. QED  BY <2>3, <2>5, <3>1, <3>2, SubSeqProperties
  <2> HIDE DEF part
  <2>7. part = field
    <3>1. Sequential(part)
      BY <2>6, SeqIsSequential
    <3>2. Sequential(field) /\ Len(field) = width
      BY <1>2 DEF OptionalField
    <3>. QED  BY <2>2, <2>6, <3>1, <3>2 DEF Sequential
  <2>. QED  BY <2>1, <2>2, <2>7 DEF FieldAt, EndOf, part
<1>. QED  BY <1>1, <1>2

Descriptor(p) ==
  /\ OptionalField(p.boolean, 1) /\ OptionalField(p.scalar, 1) /\ OptionalField(p.data, 2)
  /\ OptionalField(p.references, 3) /\ OptionalField(p.children, 5)

\* What the store gives back of a property is what was put there, whichever of its fields
\* are absent.
THEOREM PropertiesReadBack ==
  ASSUME NEW p, Descriptor(p)
  PROVE  ReadPropertyRecord(PropertyRecord(p)) =
           [rawId |-> p.rawId, index |-> p.index, boolean |-> p.boolean, scalar |-> p.scalar,
            data |-> p.data, references |-> p.references, children |-> p.children]
<1> DEFINE r0 == <<p.rawId, p.index, PropertyType(p.rawId)>>
           f1 == Flagged(p.boolean)
           f2 == Flagged(p.scalar)
           f3 == Flagged(p.data)
           f4 == Flagged(p.references)
           f5 == Flagged(p.children)
           r1 == r0 \o f1
           r2 == r1 \o f2
           r3 == r2 \o f3
           r4 == r3 \o f4
           r5 == r4 \o f5
<1>1. PropertyRecord(p) = r5
  BY DEF PropertyRecord
<1>2. Sequential(r0) /\ Len(r0) = 3 /\ r0[1] = p.rawId /\ r0[2] = p.index
  BY DEF Sequential
<1>3. /\ Sequential(f1) /\ Sequential(f2) /\ Sequential(f3) /\ Sequential(f4) /\ Sequential(f5)
      /\ Len(f1) \in Nat /\ Len(f2) \in Nat /\ Len(f3) \in Nat /\ Len(f4) \in Nat
  BY FlaggedSequence DEF Descriptor, Sequential
<1>4. Lies(r0, r0, 1)
  BY <1>2 DEF Lies, Sequential
<1> HIDE DEF r0, f1, f2, f3, f4, f5
<1>5. /\ Sequential(r1) /\ Len(r1) = 3 + Len(f1) /\ Lies(r0, r1, 1) /\ Lies(f1, r1, 4)
  <2>1. /\ Sequential(r1) /\ Len(r1) = Len(r0) + Len(f1) /\ Lies(f1, r1, Len(r0) + 1)
        /\ \A s : \A at \in Nat : Lies(s, r0, at) => Lies(s, r1, at)
    BY <1>2, <1>3, ConcatLies
  <2> HIDE DEF r1
  <2>. QED  BY <1>2, <1>4, <2>1
<1> HIDE DEF r1
<1>6. /\ Sequential(r2) /\ Len(r2) = 3 + Len(f1) + Len(f2)
      /\ Lies(r0, r2, 1) /\ Lies(f1, r2, 4) /\ Lies(f2, r2, 4 + Len(f1))
  BY <1>3, <1>5, ConcatLies
<1> HIDE DEF r2
<1>7. /\ Sequential(r3) /\ Len(r3) = 3 + Len(f1) + Len(f2) + Len(f3)
      /\ Lies(r0, r3, 1) /\ Lies(f1, r3, 4) /\ Lies(f2, r3, 4 + Len(f1))
      /\ Lies(f3, r3, 4 + Len(f1) + Len(f2))
  BY <1>3, <1>6, ConcatLies
<1> HIDE DEF r3
<1>8. /\ Sequential(r4) /\ Len(r4) = 3 + Len(f1) + Len(f2) + Len(f3) + Len(f4)
      /\ Lies(r0, r4, 1) /\ Lies(f1, r4, 4) /\ Lies(f2, r4, 4 + Len(f1))
      /\ Lies(f3, r4, 4 + Len(f1) + Len(f2)) /\ Lies(f4, r4, 4 + Len(f1) + Len(f2) + Len(f3))
  BY <1>3, <1>7, ConcatLies
<1> HIDE DEF r4
<1>9. /\ Sequential(r5)
      /\ Lies(r0, r5, 1) /\ Lies(f1, r5, 4) /\ Lies(f2, r5, 4 + Len(f1))
      /\ Lies(f3, r5, 4 + Len(f1) + Len(f2)) /\ Lies(f4, r5, 4 + Len(f1) + Len(f2) + Len(f3))
      /\ Lies(f5, r5, 4 + Len(f1) + Len(f2) + Len(f3) + Len(f4))
  BY <1>3, <1>8, ConcatLies
<1> HIDE DEF r5
<1>10. r5[1] = p.rawId /\ r5[2] = p.index
  <2>1. 1 \in 1..3 /\ 2 \in 1..3 /\ 1 + 1 - 1 = 1 /\ 1 + 2 - 1 = 2
    OBVIOUS
  <2>. QED  BY <1>2, <1>9, <2>1 DEF Lies
<1>11. /\ FieldAt(r5, 4, 1) = p.boolean /\ EndOf(r5, 4, 1) = 4 + Len(f1)
  BY <1>9, FieldReadBack DEF Descriptor, f1
<1>12. LET at == 4 + Len(f1)
       IN FieldAt(r5, at, 1) = p.scalar /\ EndOf(r5, at, 1) = at + Len(f2)
  BY <1>3, <1>9, FieldReadBack DEF Descriptor, f2
<1>13. LET at == 4 + Len(f1) + Len(f2)
       IN FieldAt(r5, at, 2) = p.data /\ EndOf(r5, at, 2) = at + Len(f3)
  BY <1>3, <1>9, FieldReadBack DEF Descriptor, f3
<1>14. LET at == 4 + Len(f1) + Len(f2) + Len(f3)
       IN FieldAt(r5, at, 3) = p.references /\ EndOf(r5, at, 3) = at + Len(f4)
  BY <1>3, <1>9, FieldReadBack DEF Descriptor, f4
<1>15. FieldAt(r5, 4 + Len(f1) + Len(f2) + Len(f3) + Len(f4), 5) = p.children
  BY <1>3, <1>9, FieldReadBack DEF Descriptor, f5
<1>16. ReadPropertyRecord(r5) =
         [rawId |-> p.rawId, index |-> p.index, boolean |-> p.boolean, scalar |-> p.scalar,
          data |-> p.data, references |-> p.references, children |-> p.children]
  BY <1>10, <1>11, <1>12, <1>13, <1>14, <1>15 DEF ReadPropertyRecord
<1>. QED  BY <1>1, <1>16

Located(streams) ==
  /\ Sequential(streams.object) /\ Len(streams.object) = 2
  /\ OptionalField(streams.objectSpace, 2) /\ OptionalField(streams.context, 2)

\* And where the streams of an object lie, in the record that says its set was walked.
THEOREM StreamsReadBack ==
  ASSUME NEW slot, NEW streams, Located(streams)
  PROVE  ReadStreamsRecord(StreamsRecord(slot, streams)) =
           [slot |-> slot, object |-> streams.object, objectSpace |-> streams.objectSpace,
            context |-> streams.context, root |-> streams.root]
<1> DEFINE r0 == <<slot>>
           f0 == streams.object
           f1 == Flagged(streams.objectSpace)
           f2 == Flagged(streams.context)
           f3 == <<streams.root>>
           r1 == r0 \o f0
           r2 == r1 \o f1
           r3 == r2 \o f2
           r4 == r3 \o f3
<1>1. StreamsRecord(slot, streams) = r4
  BY DEF StreamsRecord
<1>2. /\ Sequential(r0) /\ Len(r0) = 1 /\ r0[1] = slot
      /\ Sequential(f3) /\ Len(f3) = 1 /\ f3[1] = streams.root
  BY DEF Sequential
<1>3. /\ Sequential(f0) /\ Len(f0) = 2 /\ Sequential(f1) /\ Sequential(f2)
      /\ Len(f1) \in Nat /\ Len(f2) \in Nat
  BY FlaggedSequence DEF Located, Sequential
<1>4. Lies(r0, r0, 1)
  BY <1>2 DEF Lies, Sequential
<1> HIDE DEF r0, f0, f1, f2, f3
<1>5. Sequential(r1) /\ Len(r1) = 3 /\ Lies(r0, r1, 1) /\ Lies(f0, r1, 2)
  <2>1. /\ Sequential(r1) /\ Len(r1) = Len(r0) + Len(f0) /\ Lies(f0, r1, Len(r0) + 1)
        /\ \A s : \A at \in Nat : Lies(s, r0, at) => Lies(s, r1, at)
    BY <1>2, <1>3, ConcatLies
  <2> HIDE DEF r1
  <2>. QED  BY <1>2, <1>3, <1>4, <2>1
<1> HIDE DEF r1
<1>6. /\ Sequential(r2) /\ Len(r2) = 3 + Len(f1)
      /\ Lies(r0, r2, 1) /\ Lies(f0, r2, 2) /\ Lies(f1, r2, 4)
  <2>1. /\ Sequential(r2) /\ Len(r2) = Len(r1) + Len(f1) /\ Lies(f1, r2, Len(r1) + 1)
        /\ \A s : \A at \in Nat : Lies(s, r1, at) => Lies(s, r2, at)
    BY <1>3, <1>5, ConcatLies
  <2> HIDE DEF r2
  <2>. QED  BY <1>3, <1>5, <2>1
<1> HIDE DEF r2
<1>7. /\ Sequential(r3) /\ Len(r3) = 3 + Len(f1) + Len(f2)
      /\ Lies(r0, r3, 1) /\ Lies(f0, r3, 2) /\ Lies(f1, r3, 4) /\ Lies(f2, r3, 4 + Len(f1))
  BY <1>3, <1>6, ConcatLies
<1> HIDE DEF r3
<1>8. /\ Sequential(r4)
      /\ Lies(r0, r4, 1) /\ Lies(f0, r4, 2) /\ Lies(f1, r4, 4) /\ Lies(f2, r4, 4 + Len(f1))
      /\ Lies(f3, r4, 4 + Len(f1) + Len(f2))
  BY <1>2, <1>3, <1>7, ConcatLies
<1> HIDE DEF r4
<1>9. /\ r4[1] = slot /\ r4[4 + Len(f1) + Len(f2)] = streams.root
      /\ 2 \in DOMAIN r4 /\ 3 \in DOMAIN r4 /\ r4[2] = f0[1] /\ r4[3] = f0[2]
  <2>1. 1 \in 1..1 /\ 1 + 1 - 1 = 1
    OBVIOUS
  <2>2. 1 \in 1..2 /\ 2 \in 1..2 /\ 2 + 1 - 1 = 2 /\ 2 + 2 - 1 = 3
    OBVIOUS
  <2>3. r4[1] = slot
    BY <1>2, <1>8, <2>1 DEF Lies
  <2>4. 2 \in DOMAIN r4 /\ 3 \in DOMAIN r4 /\ r4[2] = f0[1] /\ r4[3] = f0[2]
    BY <1>3, <1>8, <2>2 DEF Lies
  <2>5. r4[4 + Len(f1) + Len(f2)] = streams.root
    <3>1. (4 + Len(f1) + Len(f2)) + 1 - 1 = 4 + Len(f1) + Len(f2)
      BY <1>3
    <3>. QED  BY <1>2, <1>8, <2>1, <3>1 DEF Lies
  <2>. QED  BY <2>3, <2>4, <2>5
<1>10. SubSeq(r4, 2, 3) = f0
  <2> DEFINE part == SubSeq(r4, 2, 3)
  <2>1. r4 \in Seq({r4[i] : i \in 1..Len(r4)}) /\ Len(r4) \in Nat /\ DOMAIN r4 = 1..Len(r4)
    BY <1>8, SequentialIsSeq
  <2>2. /\ part \in Seq({r4[i] : i \in 1..Len(r4)}) /\ Len(part) = 2
        /\ part[1] = r4[2] /\ part[2] = r4[3]
    <3>1. 2 \in 1..Len(r4) + 1 /\ 3 \in 2 - 1..Len(r4) /\ 3 - 2 + 1 = 2
          /\ 2 + 1 - 1 = 2 /\ 2 + 2 - 1 = 3
      BY <1>9, <2>1
    <3>. QED  BY <2>1, <3>1, SubSeqProperties
  <2> HIDE DEF part
  <2>3. Sequential(part)
    BY <2>2, SeqIsSequential
  <2>4. \A i \in 1..2 : part[i] = f0[i]
    BY <1>9, <2>2
  <2>. QED  BY <1>3, <2>2, <2>3, <2>4 DEF Sequential, part
<1>11. FieldAt(r4, 4, 2) = streams.objectSpace /\ EndOf(r4, 4, 2) = 4 + Len(f1)
  BY <1>8, FieldReadBack DEF Located, f1
<1>12. LET at == 4 + Len(f1)
       IN FieldAt(r4, at, 2) = streams.context /\ EndOf(r4, at, 2) = at + Len(f2)
  BY <1>3, <1>8, FieldReadBack DEF Located, f2
<1>13. ReadStreamsRecord(r4) =
         [slot |-> slot, object |-> streams.object, objectSpace |-> streams.objectSpace,
          context |-> streams.context, root |-> streams.root]
  BY <1>9, <1>10, <1>11, <1>12 DEF ReadStreamsRecord, f0
<1>. QED  BY <1>1, <1>13

-----------------------------------------------------------------------------
(* A property described, and a set recorded property by property. *)

LEMMA LocatedStreams ==
  ASSUME NEW data, ~Stopped(LocateStreams(data))
  PROVE  Located(LocateStreams(data))
<1>1. \A at : LET stream == StreamAt(data, at) IN Sequential(stream) /\ Len(stream) = 2
  BY DEF StreamAt, Sequential
<1>2. \A code : code # Ok => Stopped([error |-> code])
  BY DEF Stopped
<1> DEFINE second == AfterStream(data, 1)
           third == AfterStream(data, second)
           found == [error |-> Ok, object |-> StreamAt(data, 1), objectSpace |-> Nil,
                     context |-> Nil, root |-> second]
<1>3. \/ LocateStreams(data) = found
      \/ LocateStreams(data) = [found EXCEPT !.objectSpace = StreamAt(data, second), !.root = third]
      \/ LocateStreams(data) = [found EXCEPT !.objectSpace = StreamAt(data, second),
                                  !.context = StreamAt(data, third), !.root = AfterStream(data, third)]
  <2>1. StreamFault(data, 1) # Ok => Stopped([error |-> StreamFault(data, 1)])
    BY <1>2
  <2>2. StreamFault(data, second) # Ok => Stopped([error |-> StreamFault(data, second)])
    BY <1>2
  <2>3. StreamFault(data, third) # Ok => Stopped([error |-> StreamFault(data, third)])
    BY <1>2
  <2>. QED  BY Zenon, <2>1, <2>2, <2>3 DEF LocateStreams
<1> HIDE DEF second, third
<1>4. CASE LocateStreams(data) = found
  BY <1>1, <1>4 DEF Located, OptionalField
<1>5. CASE LocateStreams(data) = [found EXCEPT !.objectSpace = StreamAt(data, second), !.root = third]
  BY <1>1, <1>5 DEF Located, OptionalField
<1>6. CASE LocateStreams(data) = [found EXCEPT !.objectSpace = StreamAt(data, second),
                                   !.context = StreamAt(data, third), !.root = AfterStream(data, third)]
  BY <1>1, <1>6 DEF Located, OptionalField
<1>. QED  BY <1>3, <1>4, <1>5, <1>6

\* The types of a value that has a width, and of one that takes references.
LEMMA TypesWithAWidth == DOMAIN Width = {3, 4, 5, 6} /\ DOMAIN KindOf = {8, 9, 10, 11, 12, 13}
BY DEF Width, KindOf

PlaceFields == {"error", "at", "taken", "property"}

(* The place past a property: what is to be recorded of it. *)
Described(after, rawId, i) ==
  /\ DOMAIN after = PlaceFields /\ Descriptor(after.property)
  /\ after.property.rawId = rawId /\ after.property.index = i

LEMMA DescribeSays ==
  ASSUME NEW data, NEW streams, NEW pass, NEW c, DOMAIN c = PlaceFields, NEW rawId, NEW i, NEW depth,
         NEW after, after = Describe(data, streams, pass, c, rawId, i, depth), ~Stopped(after)
  PROVE  Described(after, rawId, i)
<1> DEFINE p == Blank(rawId, i)
<1>1. /\ DOMAIN p = {"rawId", "index", "boolean", "scalar", "data", "references", "children"}
      /\ p.rawId = rawId /\ p.index = i /\ p.boolean = Nil /\ p.scalar = Nil /\ p.data = Nil
      /\ p.references = Nil /\ p.children = Nil
  BY DEF Blank
<1>2. \A field, width : field = Nil => OptionalField(field, width)
  BY DEF OptionalField
<1>3. /\ \A x : OptionalField(<<x>>, 1)
      /\ \A x, y : OptionalField(<<x, y>>, 2)
      /\ \A x, y, z : OptionalField(<<x, y, z>>, 3)
  BY DEF OptionalField, Sequential
<1>4. \A count, at : OptionalField(<<count, at>> \o Counters(c), 5)
  <2>. SUFFICES ASSUME NEW count, NEW at
                PROVE  OptionalField(<<count, at>> \o Counters(c), 5)
    OBVIOUS
  <2> DEFINE start == <<count, at>>
             taken == Counters(c)
  <2>1. Sequential(start) /\ Len(start) = 2
    BY DEF Sequential
  <2>2. Sequential(taken) /\ Len(taken) = 3
    BY DEF Sequential, Counters
  <2> HIDE DEF start, taken
  <2>3. Sequential(start \o taken) /\ Len(start \o taken) = Len(start) + Len(taken)
    BY <2>1, <2>2, ConcatSequence
  <2>4. Len(start \o taken) = 5
    BY <2>1, <2>2, <2>3
  <2>. QED  BY <2>3, <2>4 DEF OptionalField, start, taken
<1>5. \A d, code : DOMAIN d = PlaceFields /\ code # Ok => Stopped(Throw(d, code))
  BY DEF Stopped, Throw, PlaceFields
<1>6. \A d : DOMAIN d = PlaceFields /\ CountFault(data, d.at) # Ok
               => Stopped(Throw(d, CountFault(data, d.at)))
  BY <1>5
<1> HIDE DEF p
<1>7. ASSUME NEW d, DOMAIN d = PlaceFields, NEW count,
             ~Stopped(Take(streams, d, p, count))
      PROVE  Described(Take(streams, d, p, count), rawId, i)
  <2> DEFINE kind == KindOf[PropertyType(p.rawId)]
             first == d.taken[kind]
             q == [p EXCEPT !.references = <<KindNumber[kind], first, count>>]
  <2>1. Take(streams, d, p, count) = [d EXCEPT !.taken[kind] = first + count, !.property = q]
    BY <1>5, <1>7 DEF Take, Ok
  <2>2. /\ q.rawId = rawId /\ q.index = i /\ q.boolean = Nil /\ q.scalar = Nil /\ q.data = Nil
        /\ q.references = <<KindNumber[kind], first, count>> /\ q.children = Nil
    BY <1>1
  <2> HIDE DEF q, kind, first
  <2>3. Descriptor(q)
    BY <1>2, <1>3, <2>2 DEF Descriptor
  <2>. QED  BY <1>7, <2>1, <2>2, <2>3 DEF Described, PlaceFields
<1>8. ASSUME NEW d, NEW count, NEW from, Counters(d) = Counters(c)
      PROVE  Described(DescribeSets(pass, d, p, count, from), rawId, i)
  <2> DEFINE q == [p EXCEPT !.children = <<count, d.at>> \o Counters(d)]
  <2>1. /\ q.rawId = rawId /\ q.index = i /\ q.boolean = Nil /\ q.scalar = Nil /\ q.data = Nil
        /\ q.references = Nil /\ q.children = <<count, d.at>> \o Counters(d)
    BY <1>1
  <2> HIDE DEF q
  <2>2. Descriptor(q)
    BY <1>2, <1>4, <1>8, <2>1 DEF Descriptor
  <2>. QED  BY <2>1, <2>2 DEF Described, DescribeSets, PlaceFields, q
<1> DEFINE type == PropertyType(rawId)
<1> USE TypesWithAWidth
<1>9. CASE type = 1
  <2>1. after = [c EXCEPT !.property = p]
    BY <1>9 DEF Describe, p, SetArray, OneSet
  <2>2. Descriptor(p)
    BY <1>1, <1>2 DEF Descriptor
  <2>. QED  BY <1>1, <2>1, <2>2 DEF Described, PlaceFields
<1>10. CASE type = 2
  <2> DEFINE bit == <<IF TopBit(rawId) THEN 1 ELSE 0>>
             q == [p EXCEPT !.boolean = bit]
  <2>1. after = [c EXCEPT !.property = q]
    BY <1>10 DEF Describe, p, SetArray, OneSet
  <2>2. /\ q.rawId = rawId /\ q.index = i /\ q.boolean = bit /\ q.scalar = Nil /\ q.data = Nil
        /\ q.references = Nil /\ q.children = Nil
    BY <1>1
  <2>3. OptionalField(bit, 1)
    BY <1>3
  <2> HIDE DEF q, bit
  <2>4. Descriptor(q)
    BY <1>2, <2>2, <2>3 DEF Descriptor
  <2>. QED  BY <2>1, <2>2, <2>4 DEF Described, PlaceFields
<1>11. CASE type \in DOMAIN Width
  <2>1. after = DescribeScalar(data, c, p)
    BY <1>11 DEF Describe, p, SetArray, OneSet
  <2> DEFINE width == Width[PropertyType(p.rawId)]
             scalar == ScalarOf(SubSeq(data, c.at, c.at + width - 1))
             value == IF scalar = Nil THEN Nil ELSE <<scalar>>
             q == [p EXCEPT !.data = <<c.at, width>>, !.scalar = value]
  <2>2. after = [c EXCEPT !.at = @ + width, !.property = q]
    BY <1>5, <2>1 DEF DescribeScalar, Ok
  <2>3. OptionalField(value, 1)
    BY <1>2, <1>3
  <2>4. /\ q.rawId = rawId /\ q.index = i /\ q.boolean = Nil /\ q.scalar = value
        /\ q.data = <<c.at, width>> /\ q.references = Nil /\ q.children = Nil
    BY <1>1
  <2> HIDE DEF q, value, scalar, width
  <2>5. Descriptor(q)
    BY <1>2, <1>3, <2>3, <2>4 DEF Descriptor
  <2>. QED  BY <2>2, <2>4, <2>5 DEF Described, PlaceFields
<1>12. CASE type = 7
  <2>1. after = DescribeData(data, c, p)
    BY <1>12 DEF Describe, p, SetArray, OneSet
  <2> DEFINE length == data[c.at]
             q == [p EXCEPT !.data = <<c.at + 1, length>>]
  <2>2. after = [c EXCEPT !.at = @ + 1 + length, !.property = q]
    BY <1>5, <2>1 DEF DescribeData, Ok
  <2>3. /\ q.rawId = rawId /\ q.index = i /\ q.boolean = Nil /\ q.scalar = Nil
        /\ q.data = <<c.at + 1, length>> /\ q.references = Nil /\ q.children = Nil
    BY <1>1
  <2> HIDE DEF q, length
  <2>4. Descriptor(q)
    BY <1>2, <1>3, <2>3 DEF Descriptor
  <2>. QED  BY <2>2, <2>3, <2>4 DEF Described, PlaceFields
<1>13. CASE type \in DOMAIN KindOf
  <2>1. after = DescribeReferences(data, streams, c, p)
    BY <1>13 DEF Describe, p, SetArray, OneSet
  <2>2. DOMAIN [c EXCEPT !.at = @ + 1] = PlaceFields
    OBVIOUS
  <2>. QED  BY <1>6, <1>7, <2>1, <2>2 DEF DescribeReferences
<1>14. CASE type = SetArray
  <2>1. after = DescribeSetArray(data, pass, c, p, depth)
    BY <1>14 DEF Describe, p, SetArray, OneSet
  <2>2. \A at : Counters([c EXCEPT !.at = at]) = Counters(c)
    BY DEF Counters, PlaceFields
  <2>3. /\ Counters([c EXCEPT !.at = @ + 1]) = Counters(c)
        /\ Counters([c EXCEPT !.at = @ + 2]) = Counters(c)
    BY <2>2
  <2>. QED  BY <1>5, <1>6, <1>8, <2>1, <2>3 DEF DescribeSetArray, Ok
<1>15. CASE type = OneSet
  <2>1. after = DescribeSets(pass, c, p, 1, depth)
    BY <1>15 DEF Describe, p, SetArray, OneSet
  <2>. QED  BY <1>8, <2>1
<1>16. CASE type \notin {1, 2, 7, SetArray, OneSet} \union DOMAIN Width \union DOMAIN KindOf
  <2>1. after = Throw(c, "PROPERTY_TYPE")
    BY <1>16 DEF Describe, p, SetArray, OneSet
  <2>. QED  BY <1>5, <2>1 DEF Ok
<1>. QED  BY <1>9, <1>10, <1>11, <1>12, <1>13, <1>14, <1>15, <1>16

LEMMA RecordedOneMore ==
  ASSUME NEW records, NEW units, NEW slot, NEW ids, NEW n \in Nat,
         Recorded(records, units, slot, ids, n),
         NEW p, Descriptor(p), p.rawId = Unit(units, ids + (n + 1)), p.index = n + 1,
         NEW after,
         after = WithEntry(records, <<"property", slot, PropertyId(Unit(units, ids + (n + 1)))>>,
                           PropertyRecord(p))
  PROVE  Recorded(after, units, slot, ids, n + 1)
<1> DEFINE Id(i) == PropertyId(Unit(units, ids + i))
           Key(i) == <<"property", slot, Id(i)>>
<1>1. /\ DOMAIN after = DOMAIN records \cup {Key(n + 1)}
      /\ after[Key(n + 1)] = PropertyRecord(p)
      /\ \A key \in DOMAIN records : key # Key(n + 1) => after[key] = records[key]
  BY DEF WithEntry
<1>2. /\ ReadPropertyRecord(after[Key(n + 1)]).rawId = Unit(units, ids + (n + 1))
      /\ ReadPropertyRecord(after[Key(n + 1)]).index = n + 1
  BY <1>1, PropertiesReadBack
<1>3. ASSUME NEW i \in 1..n + 1, \A j \in i + 1..n + 1 : Id(j) # Id(i)
      PROVE  /\ Key(i) \in DOMAIN after
             /\ ReadPropertyRecord(after[Key(i)]).rawId = Unit(units, ids + i)
             /\ ReadPropertyRecord(after[Key(i)]).index = i
  <2>1. CASE i = n + 1
    BY <1>1, <1>2, <2>1
  <2>2. CASE i # n + 1
    <3>1. i \in 1..n /\ n + 1 \in i + 1..n + 1 /\ i + 1..n \subseteq i + 1..n + 1
      BY <2>2
    <3>2. Id(n + 1) # Id(i) /\ \A j \in i + 1..n : Id(j) # Id(i)
      BY <1>3, <3>1
    <3>3. /\ Key(i) \in DOMAIN records
          /\ ReadPropertyRecord(records[Key(i)]).rawId = Unit(units, ids + i)
          /\ ReadPropertyRecord(records[Key(i)]).index = i
      BY <3>1, <3>2 DEF Recorded
    <3>4. Key(i) # Key(n + 1)
      BY <3>2
    <3> HIDE DEF Key
    <3>. QED  BY <1>1, <3>3, <3>4
  <2>. QED  BY <2>1, <2>2
<1>4. ASSUME NEW key \in DOMAIN after, key[1] = "property", key[2] = slot
      PROVE  \E i \in 1..n + 1 : key[3] = Id(i)
  <2>1. CASE key \in DOMAIN records
    <3>1. PICK i \in 1..n : key[3] = Id(i)
      BY <1>4, <2>1 DEF Recorded
    <3>2. i \in 1..n + 1
      OBVIOUS
    <3>. QED  BY <3>1, <3>2
  <2>2. CASE key = Key(n + 1)
    <3>1. key[3] = Id(n + 1) /\ n + 1 \in 1..n + 1
      BY <2>2
    <3>. QED  BY <3>1
  <2>. QED  BY <1>1, <2>1, <2>2
<1>. QED  BY <1>3, <1>4 DEF Recorded

\* A record of another slot, or that a set was walked, says nothing of this one.
LEMMA RecordedStill ==
  ASSUME NEW records, NEW units, NEW slot, NEW ids, NEW n,
         Recorded(records, units, slot, ids, n),
         NEW key, key[1] # "property" \/ key[2] # slot, NEW value, NEW after,
         after = WithEntry(records, key, value)
  PROVE  Recorded(after, units, slot, ids, n)
<1>1. /\ DOMAIN after = DOMAIN records \cup {key}
      /\ \A k \in DOMAIN records : k # key => after[k] = records[k]
  BY DEF WithEntry
<1>2. \A id : <<"property", slot, id>> # key
  <2>. SUFFICES ASSUME NEW id, <<"property", slot, id>> = key PROVE FALSE
    OBVIOUS
  <2>1. <<"property", slot, id>>[1] = "property" /\ <<"property", slot, id>>[2] = slot
    OBVIOUS
  <2>. QED  BY <2>1
<1>3. \A i \in 1..n :
        LET rawId == Unit(units, ids + i)
            at    == <<"property", slot, PropertyId(rawId)>>
        IN (\A j \in i + 1..n : PropertyId(Unit(units, ids + j)) /= PropertyId(rawId)) =>
             /\ at \in DOMAIN after
             /\ ReadPropertyRecord(after[at]).rawId = rawId
             /\ ReadPropertyRecord(after[at]).index = i
  BY <1>1, <1>2 DEF Recorded
<1>4. \A k \in DOMAIN after :
        k[1] = "property" /\ k[2] = slot =>
          \E i \in 1..n : k[3] = PropertyId(Unit(units, ids + i))
  BY <1>1 DEF Recorded
<1>. QED  BY <1>3, <1>4 DEF Recorded

-----------------------------------------------------------------------------
(* The views.  They change when a walk ends and at no other time. *)

LEMMA WholeIsRecorded ==
  /\ \A view : ViewIsWhole(view) <=>
       Recorded(kept, Value(view.object), view.slot, view.ids, CountOf(view))
  /\ \A view : ViewIsWhole(view)' <=>
       Recorded(kept', Value(view.object)', view.slot, view.ids, CountOf(view)')
<1>1. \A view : ViewIsWhole(view) <=>
        Recorded(kept, Value(view.object), view.slot, view.ids, CountOf(view))
  BY DEF ViewIsWhole, SaysTheLast, Recorded, RawIdOf, Lookup, Has
<1>2. \A view : ViewIsWhole(view)' <=>
        Recorded(kept', Value(view.object)', view.slot, view.ids, CountOf(view)')
  BY DEF ViewIsWhole, SaysTheLast, Recorded, RawIdOf, Lookup, Has
<1>. QED  BY <1>1, <1>2

\* What an object says stays while the index does.
LEMMA SameValues ==
  ASSUME UNCHANGED index
  PROVE  /\ \A object : Value(object)' = Value(object)
         /\ \A view : CountOf(view)' = CountOf(view)
BY DEF Value, ObjectAt, CountOf

LEMMA SameViews ==
  ASSUME UNCHANGED <<index, views>>,
         \A object : LET key == <<"parsed", object>>
                    IN /\ key \in DOMAIN kept' <=> key \in DOMAIN kept
                       /\ key \in DOMAIN kept => kept'[key] = kept[key]
  PROVE  Views' = Views /\ Walked' = Walked /\ \A object \in Walked : View(object)' = View(object)
<1>1. \A object \in Walked : View(object)' = View(object)
  BY DEF View, Walked, Has
<1>2. Walked' = Walked
  BY DEF Walked, Has
<1>3. {View(object)' : object \in Walked'} = {View(object) : object \in Walked}
  BY <1>1, <1>2
<1>. QED  BY <1>1, <1>2, <1>3 DEF Views

\* Records of a slot that no view has are put down.
LEMMA ViewsStay ==
  ASSUME RecordsSound, ViewsAreWhole, UNCHANGED <<index, views>>,
         NEW slot, NEW id, NEW value, \A view \in Views : view.slot # slot,
         kept' = kept \/ kept' = WithEntry(kept, <<"property", slot, id>>, value),
         setSlots' \in {setSlots, setSlots + 1}
  PROVE  /\ ViewsAreWhole' /\ Views' = Views
         /\ \A view \in Views' : /\ view.object \in DOMAIN index'.objects
                                 /\ Value(view.object)' \in Seq(Nat)
                                 /\ Sequential(view.path)
<1>1. \A object : LET key == <<"parsed", object>>
                 IN /\ key \in DOMAIN kept' <=> key \in DOMAIN kept
                    /\ key \in DOMAIN kept => kept'[key] = kept[key]
  <2>1. CASE kept' = kept
    BY <2>1
  <2>2. CASE kept' = WithEntry(kept, <<"property", slot, id>>, value)
    <3> DEFINE key == <<"property", slot, id>>
    <3>1. key[1] = "property" /\ kept' = WithEntry(kept, key, value)
      BY <2>2
    <3>2. \A object : <<"parsed", object>> # key
      <4>. SUFFICES ASSUME NEW object, <<"parsed", object>> = key PROVE FALSE
        OBVIOUS
      <4>1. <<"parsed", object>>[1] = "parsed"
        OBVIOUS
      <4>. QED  BY <3>1, <4>1
    <3> HIDE DEF key
    <3>3. /\ DOMAIN kept' = DOMAIN kept \cup {key}
          /\ \A k \in DOMAIN kept : k # key => kept'[k] = kept[k]
      BY <3>1 DEF WithEntry
    <3>. QED  BY <3>2, <3>3
  <2>. QED  BY <2>1, <2>2
<1>2. Views' = Views /\ Walked' = Walked /\ \A object \in Walked : View(object)' = View(object)
  BY <1>1, SameViews
<1>3. ASSUME NEW view \in Views
      PROVE  ViewIsWhole(view)' /\ view.slot \in 1..setSlots'
  <2>1. Recorded(kept, Value(view.object), view.slot, view.ids, CountOf(view))
    BY WholeIsRecorded DEF ViewsAreWhole
  <2>2. Recorded(kept', Value(view.object), view.slot, view.ids, CountOf(view))
    <3>1. CASE kept' = kept
      BY <2>1, <3>1
    <3>2. CASE kept' = WithEntry(kept, <<"property", slot, id>>, value)
      <4>1. <<"property", slot, id>>[2] # view.slot
        OBVIOUS
      <4>. QED  BY <2>1, <3>2, <4>1, RecordedStill
    <3>. QED  BY <3>1, <3>2
  <2>3. ViewIsWhole(view)'
    BY <2>2, SameValues, WholeIsRecorded
  <2>4. view.slot \in 1..setSlots' 
    BY DEF ViewsAreWhole, RecordsSound
  <2>. QED  BY <2>3, <2>4
<1>4. \A object \in Walked' : View(object)'.ids = LocateStreams(Value(object)').root
  BY <1>2, SameValues DEF ViewsAreWhole
<1>5. \A view, other \in Views' : view.slot = other.slot => view = other
  BY <1>2 DEF ViewsAreWhole
<1>6. ViewsAreWhole'
  BY <1>2, <1>3, <1>4, <1>5 DEF ViewsAreWhole
<1>. QED  BY <1>2, <1>6, SameValues DEF RecordsSound

\* A view is added: its set is recorded to the last property, in a slot that no other has.
LEMMA ViewsGrow ==
  ASSUME RecordsSound, ViewsAreWhole, UNCHANGED <<index, setSlots>>,
         NEW new, new.object \in DOMAIN index.objects, Value(new.object) \in Seq(Nat),
         Sequential(new.path), new.slot \in 1..setSlots, \A view \in Views : view.slot # new.slot,
         Recorded(kept', Value(new.object), new.slot, new.ids, CountOf(new)),
         Views' \subseteq Views \cup {new},
         \A view \in Views : Recorded(kept', Value(view.object), view.slot, view.ids, CountOf(view)),
         \A object \in Walked' : View(object)'.ids = LocateStreams(Value(object)).root
  PROVE  /\ ViewsAreWhole'
         /\ \A view \in Views' : /\ view.object \in DOMAIN index'.objects
                                 /\ Value(view.object)' \in Seq(Nat)
                                 /\ Sequential(view.path)
<1>1. ASSUME NEW view \in Views'
      PROVE  ViewIsWhole(view)' /\ view.slot \in 1..setSlots'
  <2>1. CASE view = new
    <3>1. ViewIsWhole(new)'
      BY SameValues, WholeIsRecorded
    <3>. QED  BY <2>1, <3>1
  <2>2. CASE view \in Views
    <3>1. ViewIsWhole(view)'
      BY <2>2, SameValues, WholeIsRecorded
    <3>. QED  BY <2>2, <3>1 DEF ViewsAreWhole
  <2>. QED  BY <2>1, <2>2
<1>2. \A view, other \in Views' : view.slot = other.slot => view = other
  BY DEF ViewsAreWhole
<1>3. \A object \in Walked' : View(object)'.ids = LocateStreams(Value(object)').root
  BY SameValues
<1>4. ViewsAreWhole'
  BY <1>1, <1>2, <1>3 DEF ViewsAreWhole
<1>. QED  BY <1>4, SameValues DEF RecordsSound

-----------------------------------------------------------------------------
(* The steps of the property store. *)

LEMMA UnitIsNumber ==
  ASSUME NEW data \in Seq(Nat), NEW at
  PROVE  Unit(data, at) \in Nat
<1>1. CASE at \in DOMAIN data
  <2>1. data[at] \in Nat
    BY <1>1, ElementOfSeq, LenProperties
  <2>. QED  BY <1>1, <2>1 DEF Unit
<1>2. CASE at \notin DOMAIN data
  BY <1>2 DEF Unit
<1>. QED  BY <1>1, <1>2

\* A slot that is given out is one nothing was ever recorded in.
LEMMA NothingRecorded ==
  ASSUME RecordsSound, NEW units, NEW ids
  PROVE  Recorded(kept, units, setSlots + 1, ids, 0)
<1>1. \A key \in DOMAIN kept : ~(key[1] = "property" /\ key[2] = setSlots + 1)
  <2>. SUFFICES ASSUME NEW key \in DOMAIN kept, key[1] = "property", key[2] = setSlots + 1
                PROVE  FALSE
    OBVIOUS
  <2>1. CASE \E object \in DOMAIN index.objects : key = <<"parsed", object>>
    <3>1. key[1] = "parsed"
      BY <2>1
    <3>. QED  BY <3>1
  <2>2. CASE \E slot \in 1..setSlots, id \in Nat : key = <<"property", slot, id>>
    <3>1. key[2] \in 1..setSlots
      BY <2>2
    <3>. QED  BY <3>1 DEF RecordsSound
  <2>. QED  BY <2>1, <2>2 DEF RecordsSound, IsKey
<1>. QED  BY <1>1 DEF Recorded

LEMMA KeysStay ==
  ASSUME RecordsSound, UNCHANGED index, setSlots' \in {setSlots, setSlots + 1},
         NEW key \in DOMAIN kept
  PROVE  IsKey(key)'
<1>1. CASE \E object \in DOMAIN index.objects : key = <<"parsed", object>>
  BY <1>1 DEF IsKey
<1>2. CASE \E slot \in 1..setSlots, id \in Nat : key = <<"property", slot, id>>
  <2>1. 1..setSlots \subseteq 1..setSlots'
    BY DEF RecordsSound
  <2>. QED  BY <1>2, <2>1 DEF IsKey
<1>. QED  BY <1>1, <1>2 DEF RecordsSound, IsKey

\* Nothing is walked after a step that records nothing.
LEMMA WalkOver ==
  ASSUME RecordsSound, ViewsAreWhole, UNCHANGED <<index, kept, views>>,
         setSlots' \in {setSlots, setSlots + 1}, walk' = NotWalking
  PROVE  PropertiesSound'
<1>1. \A view \in Views : view.slot # setSlots + 1
  BY DEF RecordsSound, ViewsAreWhole
<1>2. /\ ViewsAreWhole' /\ Views' = Views
      /\ \A view \in Views' : /\ view.object \in DOMAIN index'.objects
                              /\ Value(view.object)' \in Seq(Nat)
                              /\ Sequential(view.path)
  BY <1>1, ViewsStay
<1>3. \A key \in DOMAIN kept' : IsKey(key)'
  BY KeysStay
<1>4. RecordsSound'
  BY <1>2, <1>3 DEF RecordsSound
<1>5. WalkSound'
  BY DEF WalkSound, InWalk
<1>. QED  BY <1>2, <1>4, <1>5 DEF PropertiesSound

LEMMA StartWalkStep ==
  ASSUME RecordsSound, ViewsAreWhole, NEW object \in DOMAIN index.objects,
         Value(object) \in Seq(Nat), NEW path, Sequential(path), NEW streams, NEW place, NEW depth,
         path = <<>> => /\ streams = LocateStreams(Value(object)) /\ ~Stopped(streams)
                        /\ place.at = streams.root,
         setSlots' = setSlots + 1, UNCHANGED <<index, kept, views>>,
         StartWalk(object, path, streams, place, depth)
  PROVE  PropertiesSound'
<1> DEFINE count == Unit(Value(object), place.at)
           after == [error |-> Ok, at |-> place.at + 1 + count, taken |-> place.taken,
                     property |-> Nil]
<1>1. \/ walk' = NotWalking
      \/ walk' = [object |-> object, path |-> path, slot |-> setSlots + 1,
                  streams |-> streams, depth |-> depth, ids |-> place.at,
                  count |-> count, position |-> 1, place |-> after]
  BY DEF StartWalk, Refused
<1>2. CASE walk' = NotWalking
  BY <1>2, WalkOver
<1>3. CASE walk' = [object |-> object, path |-> path, slot |-> setSlots + 1,
                    streams |-> streams, depth |-> depth, ids |-> place.at,
                    count |-> count, position |-> 1, place |-> after]
  <2>1. DOMAIN after = {"error", "at", "taken", "property"} /\ after.error = Ok
    OBVIOUS
  <2>2. count \in Nat
    BY UnitIsNumber
  <2>3. \A view \in Views : view.slot # setSlots + 1
    BY DEF RecordsSound, ViewsAreWhole
  <2>4. /\ ViewsAreWhole' /\ Views' = Views
        /\ \A view \in Views' : /\ view.object \in DOMAIN index'.objects
                                /\ Value(view.object)' \in Seq(Nat)
                                /\ Sequential(view.path)
    BY <2>3, ViewsStay
  <2>5. \A key \in DOMAIN kept' : IsKey(key)'
    BY KeysStay
  <2>6. RecordsSound'
    BY <2>4, <2>5 DEF RecordsSound
  <2> HIDE DEF after
  <2>7. /\ DOMAIN walk' = {"object", "path", "slot", "streams", "depth", "ids", "count", "position",
                           "place"}
        /\ walk'.object = object /\ walk'.path = path /\ walk'.slot = setSlots + 1
        /\ walk'.streams = streams /\ walk'.ids = place.at /\ walk'.count = count
        /\ walk'.position = 1 /\ walk'.place = after
    BY <1>3
  <2>8. Value(walk.object)' = Value(object)
    BY <2>7 DEF Value, ObjectAt
  <2>9. walk'.count = CountOf(walk)'
    BY <2>7, <2>8 DEF CountOf
  <2>10. Recorded(kept', Value(walk.object)', walk'.slot, walk'.ids, walk'.position - 1)
    <3>1. Recorded(kept, Value(object), setSlots + 1, place.at, 0)
      BY NothingRecorded
    <3>2. 1 - 1 = 0
      OBVIOUS
    <3>. QED  BY <2>7, <2>8, <3>1, <3>2
  <2>11. walk'.position \in 1..walk'.count + 1
    BY <2>2, <2>7
  <2>12. walk'.slot = setSlots' /\ setSlots' > 0
    BY <2>7 DEF RecordsSound
  <2>13. \A view \in Views' : view.slot # walk'.slot
    BY <2>3, <2>4, <2>7
  <2> HIDE DEF count
  <2>14. WalkSound'
    BY <2>1, <2>7, <2>8, <2>9, <2>10, <2>11, <2>12, <2>13 DEF WalkSound
  <2>. QED  BY <2>4, <2>6, <2>14 DEF PropertiesSound
<1>. QED  BY <1>1, <1>2, <1>3

LEMMA OpenSetStep ==
  ASSUME ObjectsSound(index), PropertiesSound, NEW object \in DOMAIN index.objects, OpenSet(object)
  PROVE  PropertiesSound' /\ UNCHANGED <<index, resolverVars>>
<1>1. /\ UNCHANGED <<index, resolverVars, kept, views>> /\ setSlots' = setSlots + 1
      /\ Value(object) \in Seq(Nat)
  BY DEF OpenSet, ObjectsSound, Value, ObjectAt
<1>2. PICK streams : streams = LocateStreams(Value(object))
  OBVIOUS
<1>3. PICK place : place = StartOfSet(streams.root, <<0, 0, 0>>)
  OBVIOUS
<1>4. place.at = streams.root
  BY <1>3 DEF StartOfSet
<1>5. CASE Stopped(streams)
  <2>1. walk' = NotWalking
    BY <1>2, <1>5 DEF OpenSet, Refused
  <2>. QED  BY <1>1, <2>1, WalkOver DEF PropertiesSound
<1>6. CASE ~Stopped(streams)
  <2>1. StartWalk(object, <<>>, streams, place, 0)
    BY <1>2, <1>3, <1>6 DEF OpenSet
  <2>. QED  BY <1>1, <1>2, <1>4, <1>6, <2>1, EmptySequence, StartWalkStep DEF PropertiesSound
<1>. QED  BY <1>5, <1>6

LEMMA OpenChildStep ==
  ASSUME PropertiesSound, NEW view \in Views, NEW id, NEW position, OpenChild(view, id, position)
  PROVE  PropertiesSound' /\ UNCHANGED <<index, resolverVars>>
<1> DEFINE path == view.path \o <<<<id, position>>>>
<1>1. /\ UNCHANGED <<index, resolverVars, kept, views>> /\ setSlots' = setSlots + 1
  BY DEF OpenChild
<1>2. PICK place : StartWalk(view.object, path, view.streams, place, 1)
  BY DEF OpenChild
<1>3. Sequential(path) /\ path # <<>>
  <2>1. Sequential(view.path)
    BY DEF PropertiesSound, RecordsSound
  <2>2. path = Append(view.path, <<id, position>>)
    BY <2>1, ConcatOne
  <2> HIDE DEF path
  <2>3. Sequential(path) /\ Len(path) = Len(view.path) + 1 /\ Len(view.path) \in Nat
    BY <2>1, <2>2, AppendSequence DEF Sequential
  <2>. QED  BY <2>3, EmptySequence
<1> HIDE DEF path
<1>4. view.object \in DOMAIN index.objects /\ Value(view.object) \in Seq(Nat)
  BY DEF PropertiesSound, RecordsSound
<1>. QED  BY <1>1, <1>2, <1>3, <1>4, StartWalkStep DEF PropertiesSound

LEMMA WalkPropertyStep ==
  ASSUME PropertiesSound, WalkProperty
  PROVE  PropertiesSound' /\ UNCHANGED <<index, resolverVars>>
<1> DEFINE data == Value(walk.object)
           rawId == Unit(data, walk.ids + walk.position)
           key == <<"property", walk.slot, PropertyId(rawId)>>
<1>1. /\ InWalk /\ walk.position <= walk.count
      /\ UNCHANGED <<index, resolverVars, setSlots, views>>
  BY DEF WalkProperty
<1>2. /\ DOMAIN walk = {"object", "path", "slot", "streams", "depth", "ids", "count", "position",
                        "place"}
      /\ walk.object \in DOMAIN index.objects /\ data \in Seq(Nat)
      /\ Sequential(walk.path)
      /\ walk.slot = setSlots /\ setSlots > 0 /\ setSlots \in Nat
      /\ walk.count = CountOf(walk)
      /\ walk.position \in 1..walk.count + 1
      /\ DOMAIN walk.place = PlaceFields
      /\ Recorded(kept, data, walk.slot, walk.ids, walk.position - 1)
      /\ \A view \in Views : view.slot /= walk.slot
      /\ walk.path = <<>> =>
           /\ walk.streams = LocateStreams(data) /\ ~Stopped(walk.streams)
           /\ walk.ids = walk.streams.root
  BY <1>1 DEF PropertiesSound, WalkSound, RecordsSound, PlaceFields
<1>3. walk.count \in Nat
  BY <1>2, UnitIsNumber DEF CountOf
<1>4. walk.position - 1 \in Nat /\ (walk.position - 1) + 1 = walk.position
  BY <1>2, <1>3
<1>5. PICK after : after = Describe(data, walk.streams, Passing(data, walk.streams), walk.place,
                                    rawId, walk.position, walk.depth)
  OBVIOUS
<1>6. CASE Stopped(after)
  <2>1. walk' = NotWalking /\ kept' = kept
    BY <1>5, <1>6 DEF WalkProperty, Refused
  <2>. QED  BY <1>1, <2>1, WalkOver DEF PropertiesSound
<1>7. CASE ~Stopped(after)
  <2>1. /\ kept' = WithEntry(kept, key, PropertyRecord(after.property))
        /\ walk' = [walk EXCEPT !.position = @ + 1, !.place = after]
    BY <1>5, <1>7 DEF WalkProperty
  <2>2. Described(after, rawId, walk.position)
    BY <1>2, <1>5, <1>7, DescribeSays
  <2>3. /\ ViewsAreWhole' /\ Views' = Views
        /\ \A view \in Views' : /\ view.object \in DOMAIN index'.objects
                                /\ Value(view.object)' \in Seq(Nat)
                                /\ Sequential(view.path)
    BY <1>1, <1>2, <2>1, ViewsStay DEF PropertiesSound
  <2>4. \A k \in DOMAIN kept' : IsKey(k)'
    <3>1. PropertyId(rawId) \in Nat
      BY <1>2, UnitIsNumber DEF PropertyId
    <3>2. PICK id : id = PropertyId(rawId)
      OBVIOUS
    <3>3. walk.slot \in 1..setSlots'
      BY <1>1, <1>2
    <3>4. \E slot \in 1..setSlots', n \in Nat : key = <<"property", slot, n>>
      <4>1. id \in Nat /\ key = <<"property", walk.slot, id>>
        BY <3>1, <3>2
      <4> HIDE DEF key
      <4>. QED  BY <3>3, <4>1
    <3>5. \A k \in DOMAIN kept' : k = key \/ k \in DOMAIN kept
      BY <2>1 DEF WithEntry
    <3> HIDE DEF key
    <3>. SUFFICES ASSUME NEW k \in DOMAIN kept' PROVE IsKey(k)'
      OBVIOUS
    <3>6. CASE k = key
      BY <3>4, <3>6 DEF IsKey
    <3>7. CASE k \in DOMAIN kept
      BY <1>1, <3>7, KeysStay DEF PropertiesSound
    <3>. QED  BY <3>5, <3>6, <3>7
  <2>5. RecordsSound'
    BY <1>1, <1>2, <2>3, <2>4 DEF PropertiesSound, RecordsSound
  <2>6. Recorded(kept', data, walk.slot, walk.ids, walk.position)
    <3>1. \A n \in Nat : n + 1 = walk.position =>
            /\ rawId = Unit(data, walk.ids + (n + 1))
            /\ key = <<"property", walk.slot, PropertyId(Unit(data, walk.ids + (n + 1)))>>
      OBVIOUS
    <3>2. PICK n \in Nat : n = walk.position - 1
      BY <1>4
    <3>3. Descriptor(after.property) /\ after.property.index = n + 1
          /\ after.property.rawId = Unit(data, walk.ids + (n + 1))
      BY <1>4, <2>2, <3>2 DEF Described
    <3>4. kept' = WithEntry(kept, <<"property", walk.slot, PropertyId(Unit(data, walk.ids + (n + 1)))>>,
                            PropertyRecord(after.property))
      BY <1>4, <2>1, <3>1, <3>2
    <3>5. Recorded(kept, data, walk.slot, walk.ids, n)
      BY <1>2, <3>2
    <3> HIDE DEF data, rawId, key
    <3>6. Recorded(kept', data, walk.slot, walk.ids, n + 1)
      BY <3>3, <3>4, <3>5, RecordedOneMore
    <3>. QED  BY <1>4, <3>2, <3>6
  <2>7. /\ DOMAIN walk' = DOMAIN walk
        /\ walk'.object = walk.object /\ walk'.path = walk.path /\ walk'.slot = walk.slot
        /\ walk'.streams = walk.streams /\ walk'.ids = walk.ids /\ walk'.count = walk.count
        /\ walk'.position = walk.position + 1 /\ walk'.place = after
    BY <1>2, <2>1
  <2>8. Value(walk.object)' = data
    BY <1>1, <2>7 DEF Value, ObjectAt
  <2> HIDE DEF data, rawId, key
  <2>9. walk'.count = CountOf(walk)'
    <3>1. CountOf(walk) = Unit(data, walk.ids)
      BY DEF CountOf, data
    <3>2. CountOf(walk)' = Unit(data, walk.ids)
      BY <2>7, <2>8 DEF CountOf
    <3>. QED  BY <1>2, <2>7, <3>1, <3>2
  <2>10. Recorded(kept', Value(walk.object)', walk'.slot, walk'.ids, walk'.position - 1)
    <3>1. walk'.position - 1 = walk.position
      BY <1>2, <1>3, <2>7
    <3>. QED  BY <2>6, <2>7, <2>8, <3>1
  <2>11. walk'.position \in 1..walk'.count + 1
    BY <1>1, <1>2, <1>3, <2>7
  <2>12. DOMAIN walk'.place = {"error", "at", "taken", "property"} /\ walk'.place.error = Ok
    BY <1>7, <2>2, <2>7 DEF Described, PlaceFields, Stopped
  <2>13. WalkSound'
    <3>1. walk'.object \in DOMAIN index'.objects /\ Value(walk.object)' \in Seq(Nat)
          /\ Sequential(walk'.path) /\ walk'.slot = setSlots' /\ setSlots' > 0
          /\ \A view \in Views' : view.slot /= walk'.slot
      BY <1>1, <1>2, <2>3, <2>7, <2>8
    <3>2. walk'.path = <<>> =>
            /\ walk'.streams = LocateStreams(Value(walk.object)') /\ ~Stopped(walk.streams)'
            /\ walk'.ids = walk'.streams.root
      BY <1>2, <2>7, <2>8 DEF Stopped
    <3>. QED  BY <1>2, <2>7, <2>9, <2>10, <2>11, <2>12, <3>1, <3>2 DEF WalkSound
  <2>. QED  BY <1>1, <2>3, <2>5, <2>13 DEF PropertiesSound
<1>. QED  BY <1>6, <1>7

LEMMA EndWalkStep ==
  ASSUME PropertiesSound, EndWalk
  PROVE  PropertiesSound' /\ UNCHANGED <<index, resolverVars>>
<1> DEFINE data == Value(walk.object)
<1>1. /\ InWalk /\ walk.position > walk.count /\ walk' = NotWalking
      /\ UNCHANGED <<index, resolverVars, setSlots>>
  BY DEF EndWalk
<1>2. /\ walk.object \in DOMAIN index.objects /\ data \in Seq(Nat)
      /\ Sequential(walk.path)
      /\ walk.slot = setSlots /\ setSlots > 0 /\ setSlots \in Nat
      /\ walk.count = CountOf(walk) /\ walk.position \in 1..walk.count + 1
      /\ Recorded(kept, data, walk.slot, walk.ids, walk.position - 1)
      /\ \A view \in Views : view.slot /= walk.slot
      /\ walk.path = <<>> =>
           /\ walk.streams = LocateStreams(data) /\ ~Stopped(walk.streams)
           /\ walk.ids = walk.streams.root
  BY <1>1 DEF PropertiesSound, WalkSound, RecordsSound
<1>3. walk.count = Unit(data, walk.ids) /\ walk.count \in Nat
  BY <1>2, UnitIsNumber DEF CountOf
<1>4. Recorded(kept, data, walk.slot, walk.ids, Unit(data, walk.ids))
  <2>1. walk.position - 1 = walk.count
    <3>1. walk.position > walk.count /\ walk.position \in 1..walk.count + 1
      BY <1>1, <1>2
    <3>2. walk.count \in Nat
      BY <1>3
    <3>. HIDE DEF data
    <3>. QED  BY ONLY <3>1, <3>2
  <2> HIDE DEF data
  <2>. QED  BY <1>2, <1>3, <2>1
<1>5. \A view \in Views : Recorded(kept, Value(view.object), view.slot, view.ids, CountOf(view))
  BY WholeIsRecorded DEF PropertiesSound, ViewsAreWhole
<1>6. walk.slot \in 1..setSlots
  BY <1>2
<1>7. WalkSound'
  BY <1>1 DEF WalkSound, InWalk
<1>8. CASE walk.path = <<>>
  <2> DEFINE key == <<"parsed", walk.object>>
             record == StreamsRecord(walk.slot, walk.streams)
  <2>1. kept' = WithEntry(kept, key, record) /\ UNCHANGED views
    BY <1>8 DEF EndWalk
  <2>2. /\ DOMAIN kept' = DOMAIN kept \cup {key} /\ kept'[key] = record
        /\ \A k \in DOMAIN kept : k # key => kept'[k] = kept[k]
    BY <2>1 DEF WithEntry
  <2>3. key[1] # "property"
    OBVIOUS
  <2>4. /\ ReadStreamsRecord(record).slot = walk.slot
        /\ ReadStreamsRecord(record).root = walk.streams.root
    BY <1>2, <1>8, LocatedStreams, StreamsReadBack
  <2>5. PICK new : new = [object |-> walk.object, path |-> <<>>, slot |-> walk.slot,
                          streams |-> ReadStreamsRecord(record), ids |-> walk.ids]
    OBVIOUS
  <2>6. /\ new.object = walk.object /\ new.path = <<>> /\ new.slot = walk.slot
        /\ new.ids = walk.ids
    BY <2>5
  <2>7. PICK o : o = walk.object
    OBVIOUS
  <2>8. View(o)' = new /\ new.ids = LocateStreams(data).root
    <3>1. kept'[<<"parsed", o>>] = record
      BY <2>2, <2>7
    <3>2. ReadStreamsRecord(kept'[<<"parsed", o>>]) = ReadStreamsRecord(record)
      BY <3>1
    <3>3. ReadStreamsRecord(record).slot = walk.slot /\ ReadStreamsRecord(record).root = walk.ids
      BY <1>2, <1>8, <2>4
    <3> HIDE DEF record
    <3>. QED  BY <1>2, <1>8, <2>5, <2>7, <3>2, <3>3 DEF View
  <2>9. /\ \A object : object # o => /\ object \in Walked' <=> object \in Walked
                                     /\ object \in Walked => View(object)' = View(object)
        /\ o \in Walked'
    <3>1. \A object : object # o => <<"parsed", object>> # key
      <4>. SUFFICES ASSUME NEW object, <<"parsed", object>> = key PROVE object = o
        OBVIOUS
      <4>1. <<"parsed", object>>[2] = object /\ key[2] = o
        BY <2>7
      <4>. QED  BY <4>1
    <3>2. key = <<"parsed", o>>
      BY <2>7
    <3>3. o \in DOMAIN index'.objects /\ index' = index
      BY <1>1, <1>2, <2>7
    <3> HIDE DEF key, record
    <3>4. \A object : object # o => /\ <<"parsed", object>> \in DOMAIN kept' <=> <<"parsed", object>> \in DOMAIN kept
                                    /\ <<"parsed", object>> \in DOMAIN kept =>
                                         kept'[<<"parsed", object>>] = kept[<<"parsed", object>>]
      BY <2>2, <3>1
    <3>. QED  BY <2>2, <3>2, <3>3, <3>4 DEF Walked, View, Has
  <2>10. Views' \subseteq Views \cup {new}
    <3>1. \A object \in Walked' : View(object)' \in Views \cup {new}
      <4>. SUFFICES ASSUME NEW object, object \in Walked' PROVE View(object)' \in Views \cup {new}
        OBVIOUS
      <4>1. CASE object = o
        BY <2>8, <4>1
      <4>2. CASE object # o
        <5>1. object \in Walked /\ View(object)' = View(object)
          BY <2>9, <4>2
        <5>2. View(object) \in Views
          BY <5>1 DEF Views
        <5>. QED  BY <5>1, <5>2
      <4>. QED  BY <4>1, <4>2
    <3>2. Range(views') \subseteq Views
      BY <2>1 DEF Views
    <3>3. Views' = {View(object)' : object \in Walked'} \cup Range(views')
      BY DEF Views
    <3>. QED  BY <3>1, <3>2, <3>3
  <2>11. \A object \in Walked' : View(object)'.ids = LocateStreams(Value(object)).root
    <3>. SUFFICES ASSUME NEW object, object \in Walked'
                  PROVE  View(object)'.ids = LocateStreams(Value(object)).root
      OBVIOUS
    <3>1. CASE object = o
      <4>1. new.ids = LocateStreams(Value(object)).root /\ View(object)' = new
        BY <2>7, <2>8, <3>1
      <4>. QED  BY <4>1
    <3>2. CASE object # o
      <4>1. object \in Walked /\ View(object)' = View(object)
        BY <2>9, <3>2
      <4>. QED  BY <4>1 DEF PropertiesSound, ViewsAreWhole
    <3>. QED  BY <3>1, <3>2
  <2>12. /\ \A view \in Views :
              Recorded(kept', Value(view.object), view.slot, view.ids, CountOf(view))
         /\ Recorded(kept', data, walk.slot, walk.ids, Unit(data, walk.ids))
    <3> HIDE DEF key, record, data
    <3>1. \A units, slot, ids, n : Recorded(kept, units, slot, ids, n) =>
            Recorded(kept', units, slot, ids, n)
      BY <2>1, <2>3, RecordedStill
    <3>. QED  BY <1>4, <1>5, <3>1
  <2>13. \A k \in DOMAIN kept' : IsKey(k)'
    <3>. SUFFICES ASSUME NEW k \in DOMAIN kept' PROVE IsKey(k)'
      OBVIOUS
    <3>1. CASE k \in DOMAIN kept
      BY <1>1, <3>1, KeysStay DEF PropertiesSound
    <3>2. CASE k = key
      <4>1. k = <<"parsed", o>> /\ o \in DOMAIN index'.objects
        BY <1>1, <1>2, <2>7, <3>2
      <4>. QED  BY <4>1 DEF IsKey
    <3>. QED  BY <2>2, <3>1, <3>2
  <2> HIDE DEF key, record
  <2>14. /\ new.object \in DOMAIN index.objects /\ Value(new.object) = data
         /\ data \in Seq(Nat) /\ CountOf(new) = Unit(data, walk.ids) /\ Sequential(new.path)
    BY <1>2, <2>6, EmptySequence DEF CountOf
  <2>15. /\ ViewsAreWhole'
         /\ \A view \in Views' : /\ view.object \in DOMAIN index'.objects
                                 /\ Value(view.object)' \in Seq(Nat)
                                 /\ Sequential(view.path)
    <3>1. Recorded(kept', Value(new.object), new.slot, new.ids, CountOf(new))
      BY <2>6, <2>12, <2>14
    <3>2. new.slot \in 1..setSlots /\ \A view \in Views : view.slot # new.slot
      BY <1>2, <1>6, <2>6
    <3> HIDE DEF data
    <3>. QED  BY <1>1, <2>10, <2>11, <2>12, <2>14, <3>1, <3>2, ViewsGrow DEF PropertiesSound
  <2>16. RecordsSound'
    BY <1>1, <1>2, <2>1, <2>13, <2>15 DEF PropertiesSound, RecordsSound
  <2>. QED  BY <1>1, <1>7, <2>15, <2>16 DEF PropertiesSound
<1>9. CASE walk.path # <<>>
  <2>1. PICK new : new = [object |-> walk.object, path |-> walk.path, slot |-> walk.slot,
                          streams |-> walk.streams, ids |-> walk.ids]
    OBVIOUS
  <2>2. views' = Append(views, new) /\ kept' = kept
    BY <1>9, <2>1 DEF EndWalk
  <2>3. /\ new.object = walk.object /\ new.path = walk.path /\ new.slot = walk.slot
        /\ new.ids = walk.ids
    BY <2>1
  <2>4. Sequential(views') /\ Range(views') = Range(views) \cup {new}
    BY <2>2, AppendSequence, RangeOfAppend DEF PropertiesSound, RecordsSound
  <2>5. Walked' = Walked /\ \A object : View(object)' = View(object)
    BY <1>1, <2>2 DEF Walked, View, Has
  <2>6. Views' \subseteq Views \cup {new}
    BY <2>4, <2>5 DEF Views
  <2>7. /\ new.object \in DOMAIN index.objects /\ Value(new.object) = data
        /\ data \in Seq(Nat) /\ CountOf(new) = Unit(data, walk.ids) /\ Sequential(new.path)
    BY <1>2, <2>3 DEF CountOf
  <2>8. Recorded(kept', Value(new.object), new.slot, new.ids, CountOf(new))
    BY <1>4, <2>2, <2>3, <2>7
  <2>9. \A object \in Walked' : View(object)'.ids = LocateStreams(Value(object)).root
    BY <2>5 DEF PropertiesSound, ViewsAreWhole
  <2> HIDE DEF data
  <2>10. /\ ViewsAreWhole'
         /\ \A view \in Views' : /\ view.object \in DOMAIN index'.objects
                                 /\ Value(view.object)' \in Seq(Nat)
                                 /\ Sequential(view.path)
    <3>1. new.slot \in 1..setSlots /\ \A view \in Views : view.slot # new.slot
      BY <1>2, <1>6, <2>3
    <3>. QED  BY <1>1, <1>5, <2>2, <2>6, <2>7, <2>8, <2>9, <3>1, ViewsGrow DEF PropertiesSound
  <2>11. \A k \in DOMAIN kept' : IsKey(k)'
    BY <1>1, <2>2, KeysStay DEF PropertiesSound
  <2>12. RecordsSound'
    BY <1>1, <1>2, <2>4, <2>10, <2>11 DEF PropertiesSound, RecordsSound
  <2>. QED  BY <1>1, <1>7, <2>10, <2>12 DEF PropertiesSound
<1>. QED  BY <1>1, <1>8, <1>9

LEMMA WalkFailsStep ==
  ASSUME PropertiesSound, WalkFails
  PROVE  PropertiesSound' /\ UNCHANGED <<index, cells, slots, cache, request, search>>
BY WalkOver DEF WalkFails, PropertiesSound

\* A step that reads nothing and records nothing.
LEMMA PropertiesStay ==
  ASSUME PropertiesSound, UNCHANGED <<index, kept, setSlots, walk, views>>
  PROVE  PropertiesSound'
<1>1. /\ Views' = Views /\ Walked' = Walked /\ \A object : View(object)' = View(object)
      /\ \A object : Value(object)' = Value(object)
      /\ \A view : CountOf(view)' = CountOf(view)
  BY SameValues DEF Views, Walked, View, Has
<1>2. \A view : ViewIsWhole(view)' <=> ViewIsWhole(view)
  BY <1>1, WholeIsRecorded
<1>3. ViewsAreWhole'
  BY <1>1, <1>2 DEF PropertiesSound, ViewsAreWhole
<1>4. RecordsSound'
  BY <1>1 DEF PropertiesSound, RecordsSound, IsKey
<1>5. WalkSound'
  BY <1>1 DEF PropertiesSound, WalkSound, InWalk, Value, CountOf, Stopped, ObjectAt
<1>. QED  BY <1>3, <1>4, <1>5 DEF PropertiesSound
-----------------------------------------------------------------------------
(* The tables grow.  What an object says, and what a CompactID of a scope  *)
(* stands for, is kept by every operation the walk uses.                   *)

Keeps(ix, after) ==
  /\ \A o \in DOMAIN ix.objects : o \in DOMAIN after.objects /\ after.objects[o] = ix.objects[o]
  /\ \A s \in DOMAIN ix.scopes : \A i \in DOMAIN ix.scopes[s] :
       /\ s \in DOMAIN after.scopes /\ i \in DOMAIN after.scopes[s]
       /\ after.scopes[s][i] = ix.scopes[s][i]

Grown(ix, after) ==
  /\ Keeps(ix, after)
  /\ DOMAIN ix.scopes \subseteq DOMAIN after.scopes
  /\ Len(ix.revisions) \in Nat /\ Len(after.revisions) \in Nat
  /\ Len(ix.revisions) <= Len(after.revisions)

LEMMA NothingGrows == \A ix : IndexSound(ix) => Grown(ix, ix)
BY SequentialIsSeq DEF Grown, Keeps, IndexSound, IndexShape

LEMMA OpenScopeHolds ==
  ASSUME NEW ix, NEW last, TablesHold(ix, last)
  PROVE  LET after == OpenScope(ix)
         IN /\ TablesHold(after, last) /\ Grown(ix, after)
            /\ Len(ix.scopes) + 1 \in DOMAIN after.scopes
<1> DEFINE after == OpenScope(ix)
<1>1. /\ after.scopes = Append(ix.scopes, <<>>) /\ DOMAIN after = IndexFields
      /\ \A field \in IndexFields \ {"scopes"} : after[field] = ix[field]
  BY DEF OpenScope, TablesHold, IndexSound, IndexShape, IndexFields
<1>2. /\ Sequential(ix.scopes) /\ Sequential(ix.revisions)
  BY DEF TablesHold, IndexSound, IndexShape
<1>3. /\ Sequential(after.scopes) /\ DOMAIN after.scopes = 1..Len(ix.scopes) + 1
      /\ DOMAIN ix.scopes = 1..Len(ix.scopes) /\ Len(ix.scopes) \in Nat
      /\ \A s \in DOMAIN ix.scopes : after.scopes[s] = ix.scopes[s]
  BY <1>1, <1>2, AppendSequence, SequentialIsSeq
<1>4. /\ after.revisions = ix.revisions /\ after.objects = ix.objects
      /\ after.encoding = ix.encoding
  BY <1>1 DEF IndexFields
<1>5. IndexSound(after)
  BY <1>1, <1>3, ScopesSound DEF TablesHold
<1> HIDE DEF after
<1>6. TablesHold(after, last)
  BY <1>4, <1>5 DEF TablesHold, ObjectsSound, RolesOrdered
<1>7. Len(ix.revisions) \in Nat
  BY <1>2, SequentialIsSeq
<1>8. Keeps(ix, after) /\ DOMAIN ix.scopes \subseteq DOMAIN after.scopes
  BY <1>3, <1>4 DEF Keeps
<1>9. Grown(ix, after)
  BY <1>4, <1>7, <1>8 DEF Grown
<1>10. Len(ix.scopes) + 1 \in DOMAIN after.scopes
  BY <1>3
<1>. QED  BY <1>6, <1>9, <1>10 DEF after

\* An entry is added under an index the scope does not know yet.
LEMMA AddGlobalIdHolds ==
  ASSUME NEW ix, NEW last, TablesHold(ix, last), NEW scope \in DOMAIN ix.scopes, NEW i,
         ~HasGlobalId(ix, scope, i), NEW identifier
  PROVE  LET after == AddGlobalId(ix, scope, i, identifier)
         IN TablesHold(after, last) /\ Grown(ix, after)
<1> DEFINE after == AddGlobalId(ix, scope, i, identifier)
           entries == WithEntry(ix.scopes[scope], i, identifier)
<1>1. /\ after.scopes = [ix.scopes EXCEPT ![scope] = entries] /\ DOMAIN after = IndexFields
      /\ \A field \in IndexFields \ {"scopes"} : after[field] = ix[field]
  BY DEF AddGlobalId, TablesHold, IndexSound, IndexShape, IndexFields
<1>2. /\ Sequential(ix.scopes) /\ Sequential(ix.revisions)
  BY DEF TablesHold, IndexSound, IndexShape
<1>3. /\ \A k \in DOMAIN ix.scopes[scope] :
           k \in DOMAIN entries /\ entries[k] = ix.scopes[scope][k]
  BY DEF WithEntry, HasGlobalId, Has
<1> HIDE DEF entries
<1>4. /\ Sequential(after.scopes) /\ DOMAIN after.scopes = DOMAIN ix.scopes
      /\ \A s \in DOMAIN ix.scopes : after.scopes[s] = IF s = scope THEN entries ELSE ix.scopes[s]
  BY <1>1, <1>2, ReplaceInSequence
<1>5. /\ after.revisions = ix.revisions /\ after.objects = ix.objects
      /\ after.encoding = ix.encoding
  BY <1>1 DEF IndexFields
<1>6. IndexSound(after)
  BY <1>1, <1>4, ScopesSound DEF TablesHold
<1> HIDE DEF after
<1>7. TablesHold(after, last)
  BY <1>5, <1>6 DEF TablesHold, ObjectsSound, RolesOrdered
<1>8. Len(ix.revisions) \in Nat
  BY <1>2, SequentialIsSeq
<1>9. Keeps(ix, after) /\ DOMAIN ix.scopes \subseteq DOMAIN after.scopes
  BY <1>3, <1>4, <1>5 DEF Keeps
<1>10. Grown(ix, after)
  BY <1>5, <1>8, <1>9 DEF Grown
<1>. QED  BY <1>7, <1>10 DEF after

\* An association is numbered past all there are.
LEMMA AddRoleHolds ==
  ASSUME NEW ix, NEW last \in Nat, TablesHold(ix, last), NEW revision \in DOMAIN ix.revisions,
         NEW context, NEW role
  PROVE  LET after == AddRoleAssociation(ix, revision, context, role, last + 1)
         IN /\ TablesHold(after, last + 1) /\ Grown(ix, after)
            /\ Len(after.revisions) = Len(ix.revisions)
<1> DEFINE after == AddRoleAssociation(ix, revision, context, role, last + 1)
           new == [context |-> context, role |-> role, order |-> last + 1]
<1>1. IndexSound(ix) /\ RolesOrdered(ix, last) /\ new.order = last + 1
  BY DEF TablesHold
<1>2. /\ IndexSound(after) /\ Len(after.revisions) = Len(ix.revisions)
      /\ DOMAIN after.revisions = DOMAIN ix.revisions
      /\ \A r \in DOMAIN ix.revisions :
           after.revisions[r].roles = IF r = revision THEN Append(ix.revisions[r].roles, new)
                                      ELSE ix.revisions[r].roles
      /\ after.objects = ix.objects /\ after.scopes = ix.scopes /\ after.encoding = ix.encoding
  BY <1>1, AddRoleSound
<1>3. Sequential(ix.revisions) /\ \A r \in DOMAIN ix.revisions : Sequential(ix.revisions[r].roles)
  BY <1>1 DEF IndexSound, IndexShape
<1> HIDE DEF after, new
<1>4. \A r \in DOMAIN ix.revisions :
        Range(after.revisions[r].roles) =
          IF r = revision THEN Range(ix.revisions[r].roles) \cup {new}
          ELSE Range(ix.revisions[r].roles)
  BY <1>2, <1>3, RangeOfAppend
<1>5. \A r \in DOMAIN ix.revisions : \A a \in Range(ix.revisions[r].roles) : a.order \in 1..last
  BY <1>1 DEF RolesOrdered
<1>6. \A m \in 1..last : m \in 1..last + 1 /\ m # last + 1
  OBVIOUS
<1>7. ASSUME NEW r \in DOMAIN ix.revisions, NEW q \in DOMAIN ix.revisions,
             NEW a \in Range(after.revisions[r].roles), NEW b \in Range(after.revisions[q].roles)
      PROVE  a.order \in 1..last + 1 /\ (a.order = b.order => r = q)
  <2>1. a \in Range(ix.revisions[r].roles) \/ (a = new /\ r = revision)
    BY <1>4
  <2>2. b \in Range(ix.revisions[q].roles) \/ (b = new /\ q = revision)
    BY <1>4
  <2>3. last + 1 \in 1..last + 1
    OBVIOUS
  <2>4. a.order \in 1..last + 1
    BY <1>1, <1>5, <1>6, <2>1, <2>3
  <2>5. CASE a \in Range(ix.revisions[r].roles) /\ b \in Range(ix.revisions[q].roles)
    BY <1>1, <2>4, <2>5 DEF RolesOrdered
  <2>6. CASE a = new /\ r = revision
    BY <1>1, <1>5, <1>6, <2>2, <2>4, <2>6
  <2>7. CASE b = new /\ q = revision
    BY <1>1, <1>5, <1>6, <2>1, <2>4, <2>7
  <2>. QED  BY <2>1, <2>2, <2>5, <2>6, <2>7
<1>8. RolesOrdered(after, last + 1)
  BY <1>2, <1>7 DEF RolesOrdered
<1>9. TablesHold(after, last + 1)
  BY <1>2, <1>8 DEF TablesHold, ObjectsSound
<1>10. Grown(ix, after)
  BY <1>2, <1>3, SequentialIsSeq DEF Grown, Keeps
<1>. QED  BY <1>2, <1>9, <1>10 DEF after

\* A revision enters with no association, and gets its first.
LEMMA AddRevisionHolds ==
  ASSUME NEW ix, NEW last \in Nat, TablesHold(ix, last), NEW id, NEW dependency, NEW role,
         NEW encrypted, NEW context, NEW space
  PROVE  LET n == Len(ix.revisions) + 1
             added == AddRevision(ix, id, dependency, role, encrypted, context, space)
             after == AddRoleAssociation(added, n, context, role, last + 1)
         IN TablesHold(after, last + 1) /\ Grown(ix, after) /\ Len(after.revisions) = n
<1> DEFINE n == Len(ix.revisions) + 1
           added == AddRevision(ix, id, dependency, role, encrypted, context, space)
           after == AddRoleAssociation(added, n, context, role, last + 1)
<1>1. IndexSound(ix) /\ RolesOrdered(ix, last) /\ Len(ix.revisions) \in Nat
      /\ DOMAIN ix.revisions = 1..Len(ix.revisions)
  BY SequentialIsSeq DEF TablesHold, IndexSound, IndexShape
<1>2. /\ IndexSound(added) /\ Len(added.revisions) = n /\ DOMAIN added.revisions = 1..n
      /\ \A r \in DOMAIN ix.revisions : added.revisions[r] = ix.revisions[r]
      /\ added.revisions[n].roles = <<>>
      /\ added.objects = ix.objects /\ added.scopes = ix.scopes /\ added.encoding = ix.encoding
  BY <1>1, AddRevisionSound
<1> HIDE DEF added
<1>3. 1..n = (1..Len(ix.revisions)) \cup {n} /\ n \in Nat /\ n \in 1..n
  BY <1>1
<1>4. Range(added.revisions[n].roles) = {}
  BY <1>2, EmptySequence DEF Range
<1> HIDE DEF n
<1>5. RolesOrdered(added, last)
  BY <1>1, <1>2, <1>3, <1>4 DEF RolesOrdered
<1>6. TablesHold(added, last)
  BY <1>2, <1>5 DEF TablesHold, ObjectsSound
<1>7. /\ TablesHold(after, last + 1) /\ Grown(added, after)
      /\ Len(after.revisions) = Len(added.revisions)
  BY <1>2, <1>3, <1>6, AddRoleHolds
<1>8. Len(after.revisions) = n
  BY <1>2, <1>7
<1> HIDE DEF after
<1>9. Len(ix.revisions) <= n
  BY <1>1 DEF n
<1>10. Grown(ix, after)
  BY <1>1, <1>2, <1>3, <1>7, <1>8, <1>9 DEF Grown, Keeps
<1>. QED  BY <1>7, <1>8, <1>10 DEF after, added, n

LEMMA AddRootHolds ==
  ASSUME NEW ix, NEW last, TablesHold(ix, last), NEW revision \in DOMAIN ix.revisions,
         NEW object, NEW role
  PROVE  LET after == AddRootObject(ix, revision, object, role)
         IN TablesHold(after, last) /\ Grown(ix, after)
<1> DEFINE after == AddRootObject(ix, revision, object, role)
<1>1. IndexSound(ix) /\ Sequential(ix.revisions)
  BY DEF TablesHold, IndexSound, IndexShape
<1>2. /\ IndexSound(after) /\ Len(after.revisions) = Len(ix.revisions)
      /\ DOMAIN after.revisions = DOMAIN ix.revisions
      /\ \A r \in DOMAIN ix.revisions : after.revisions[r].roles = ix.revisions[r].roles
      /\ after.objects = ix.objects /\ after.scopes = ix.scopes /\ after.encoding = ix.encoding
  BY <1>1, AddRootSound
<1> HIDE DEF after
<1>3. TablesHold(after, last)
  BY <1>2 DEF TablesHold, ObjectsSound, RolesOrdered
<1>4. Grown(ix, after)
  BY <1>1, <1>2, SequentialIsSeq DEF Grown, Keeps
<1>. QED  BY <1>3, <1>4 DEF after

LEMMA AddObjectHolds ==
  ASSUME NEW ix, NEW last, TablesHold(ix, last), NEW object,
         object.revision # NoRevision => object.revision \in DOMAIN ix.revisions,
         object.properties = Nil \/ object.properties \in Seq(Nat), Len(ix.objects) < MaxObjects
  PROVE  LET after == AddObject(ix, object)
         IN TablesHold(after, last) /\ Grown(ix, after)
<1> DEFINE after == AddObject(ix, object)
           n == Len(ix.objects)
<1>1. IndexSound(ix) /\ Sequential(ix.revisions) /\ Sequential(ix.objects) /\ ObjectsSound(ix)
      /\ RolesOrdered(ix, last)
  BY DEF TablesHold, IndexSound, IndexShape
<1>2. /\ IndexSound(after)
      /\ Len(after.revisions) = Len(ix.revisions) /\ DOMAIN after.revisions = DOMAIN ix.revisions
      /\ \A r \in DOMAIN ix.revisions : after.revisions[r].roles = ix.revisions[r].roles
      /\ Len(after.objects) = n + 1 /\ DOMAIN after.objects = 1..n + 1
      /\ \A o \in DOMAIN ix.objects : o \in 1..n /\ after.objects[o] = ix.objects[o]
      /\ after.objects[n + 1] = object
      /\ after.scopes = ix.scopes /\ after.encoding = ix.encoding
  BY <1>1, AddObjectSound
<1>3. n \in Nat /\ DOMAIN ix.objects = 1..n /\ Len(ix.revisions) \in Nat
  BY <1>1, SequentialIsSeq
<1> HIDE DEF after, n
<1>4. 1..n + 1 = (1..n) \cup {n + 1}
  BY <1>3
<1>5. n + 1 <= MaxObjects
  BY <1>3, ReaderOptions DEF n
<1>6. ObjectsSound(after)
  BY <1>1, <1>2, <1>3, <1>4, <1>5 DEF ObjectsSound
<1>7. RolesOrdered(after, last)
  BY <1>1, <1>2 DEF RolesOrdered
<1>8. TablesHold(after, last)
  BY <1>2, <1>6, <1>7 DEF TablesHold
<1>9. Grown(ix, after)
  BY <1>2, <1>3, <1>4 DEF Grown, Keeps
<1>. QED  BY <1>8, <1>9 DEF after

LEMMA AddFileDataHolds ==
  ASSUME NEW ix, NEW last, TablesHold(ix, last), NEW key, NEW payload
  PROVE  LET after == AddFileData(ix, key, payload)
         IN TablesHold(after, last) /\ Grown(ix, after)
<1> DEFINE after == AddFileData(ix, key, payload)
<1>1. IndexSound(ix) /\ Sequential(ix.revisions)
  BY DEF TablesHold, IndexSound, IndexShape
<1>2. /\ IndexSound(after) /\ after.revisions = ix.revisions /\ after.objects = ix.objects
      /\ after.scopes = ix.scopes /\ after.encoding = ix.encoding
  BY <1>1, AddFileDataSound
<1> HIDE DEF after
<1>3. TablesHold(after, last)
  BY <1>2 DEF TablesHold, ObjectsSound, RolesOrdered
<1>4. Grown(ix, after)
  BY <1>1, <1>2, SequentialIsSeq DEF Grown, Keeps
<1>. QED  BY <1>3, <1>4 DEF after

-----------------------------------------------------------------------------
(* The lists.  A list that is left alone stays sound while the tables grow; *)
(* the one being read is replaced.                                         *)

Moved == UNCHANGED <<file, log, counts>>

LEMMA FrameStays ==
  ASSUME NEW frame, FrameSound(frame), UNCHANGED <<file, counts>>, Grown(index, index'),
         phase' = "walk" => phase = "walk"
  PROVE  FrameSound(frame)'
<1>1. frame.revision \in 0..Len(index'.revisions)
  BY DEF FrameSound, Grown
<1>2. phase' = "walk" => frame.scope \in DOMAIN index'.scopes
  BY DEF FrameSound, Grown
<1>3. CommittedNodeCount(frame.list)' = CommittedNodeCount(frame.list)
  BY DEF CommittedNodeCount
<1>. QED  BY <1>1, <1>2, <1>3 DEF FrameSound

LEMMA ListsStay ==
  ASSUME ListsSound, UNCHANGED <<file, counts, frames>>, Grown(index, index'),
         phase' = "walk" => phase = "walk"
  PROVE  ListsSound'
<1>1. \A i \in DOMAIN frames : FrameSound(frames[i])'
  <2>. SUFFICES ASSUME NEW i \in DOMAIN frames PROVE FrameSound(frames[i])'
    OBVIOUS
  <2>1. PICK frame : frame = frames[i]
    OBVIOUS
  <2>2. FrameSound(frame)'
    BY <2>1, FrameStays DEF ListsSound
  <2>. QED  BY <2>1, <2>2
<1>. QED  BY <1>1 DEF ListsSound

\* The open list is the last of them.
LEMMA TopOfLists ==
  ASSUME ListsSound, frames # <<>>
  PROVE  /\ Sequential(Below) /\ Len(Below) = Len(frames) - 1 /\ Len(Below) \in Nat
         /\ DOMAIN Below = 1..Len(frames) - 1
         /\ \A i \in DOMAIN Below : i \in DOMAIN frames /\ Below[i] = frames[i]
         /\ Len(frames) \in DOMAIN frames /\ FrameSound(Top)
<1>1. Sequential(frames)
  BY DEF ListsSound
<1>2. Below = Front(frames)
  BY DEF Below, Front
<1>3. Sequential(Below) /\ Len(Below) = Len(frames) - 1 /\ Len(frames) - 1 \in Nat
  BY <1>1, <1>2, FrontOfSequence
<1>4. Len(frames) \in Nat /\ DOMAIN frames = 1..Len(frames)
      /\ frames \in Seq({frames[i] : i \in 1..Len(frames)})
  BY <1>1, SequentialIsSeq
<1>5. DOMAIN Below = 1..Len(frames) - 1
  BY <1>3, SequentialIsSeq
<1>6. \A i \in 1..Len(frames) - 1 : i \in DOMAIN frames /\ Below[i] = frames[i]
  <2> DEFINE n == Len(frames) - 1
             S == {frames[i] : i \in 1..Len(frames)}
  <2>1. n \in Nat /\ 1 \in Int /\ \A i \in 1..n : frames[i] \in S
    BY <1>3, <1>4
  <2>2. Below = SubSeq(frames, 1, n)
    BY DEF Below
  <2> HIDE DEF n, S
  <2>3. \A i \in 1..n : SubSeq(frames, 1, n)[i] = frames[1 + i - 1]
    BY <1>4, <2>1, SubSeqProperties
  <2>4. \A i \in 1..n : 1 + i - 1 = i
    BY <2>1
  <2>5. \A i \in 1..n : Below[i] = frames[i]
    BY <2>2, <2>3, <2>4
  <2>6. \A i \in 1..n : i \in DOMAIN frames
    BY <1>3, <1>4 DEF n
  <2>. QED  BY <2>5, <2>6 DEF n
<1>7. Len(frames) \in DOMAIN frames
  BY <1>3, <1>4
<1>8. FrameSound(Top)
  BY <1>7 DEF ListsSound, Top
<1>. QED  BY <1>3, <1>5, <1>6, <1>7, <1>8

LEMMA BelowStays ==
  ASSUME ListsSound, frames # <<>>, UNCHANGED <<file, counts>>, Grown(index, index'),
         phase' = "walk" => phase = "walk"
  PROVE  \A frame : (\E i \in DOMAIN Below : frame = Below[i]) => FrameSound(frame)'
<1>. SUFFICES ASSUME NEW frame, NEW i, i \in DOMAIN Below, frame = Below[i]
              PROVE  FrameSound(frame)'
  OBVIOUS
<1>1. frame = frames[i] /\ i \in DOMAIN frames
  BY TopOfLists
<1>2. FrameSound(frame)
  BY <1>1 DEF ListsSound
<1>. QED  BY <1>2, FrameStays

LEMMA TopChanges ==
  ASSUME ListsSound, frames # <<>>, UNCHANGED <<file, counts>>, Grown(index, index'),
         phase' = "walk" => phase = "walk",
         NEW top, FrameSound(top)', frames' = Append(Below, top)
  PROVE  ListsSound'
<1>1. /\ Sequential(Below) /\ Len(Below) = Len(frames) - 1 /\ Len(Below) \in Nat
      /\ \A frame : (\E i \in DOMAIN Below : frame = Below[i]) => FrameSound(frame)'
  BY TopOfLists, BelowStays
<1>2. /\ Sequential(frames') /\ Len(frames') = Len(Below) + 1
      /\ DOMAIN Below = 1..Len(Below) /\ DOMAIN frames' = 1..Len(Below) + 1
      /\ \A i \in 1..Len(Below) : frames'[i] = Below[i]
      /\ frames'[Len(Below) + 1] = top
  BY <1>1, AppendSequence
<1>3. PICK n \in Nat : n = Len(Below)
  BY <1>1
<1>4. 1..n + 1 = (1..n) \cup {n + 1}
  OBVIOUS
<1>5. \A i \in DOMAIN frames' : FrameSound(frames[i])'
  <2>. SUFFICES ASSUME NEW i, i \in DOMAIN frames' PROVE FrameSound(frames[i])'
    OBVIOUS
  <2>1. PICK frame : frame = frames'[i]
    OBVIOUS
  <2>2. CASE i = n + 1
    <3>1. frame = top
      BY <1>2, <1>3, <2>1, <2>2
    <3>2. FrameSound(frame)'
      BY <3>1
    <3>. QED  BY <2>1, <3>2
  <2>3. CASE i \in 1..n
    <3>1. frame = Below[i] /\ i \in DOMAIN Below
      BY <1>2, <1>3, <2>1, <2>3
    <3>2. FrameSound(frame)'
      BY <1>1, <3>1
    <3>. QED  BY <2>1, <3>2
  <2>. QED  BY <1>2, <1>3, <1>4, <2>2, <2>3
<1>6. Len(frames') = Len(frames)
  <2>1. Len(frames) \in Nat
    BY SequentialIsSeq DEF ListsSound
  <2>. QED  BY <1>1, <1>2, <2>1
<1>. QED  BY <1>2, <1>5, <1>6 DEF ListsSound

LEMMA ConcatTwo ==
  ASSUME NEW s, NEW a, NEW b, Sequential(s)
  PROVE  s \o <<a, b>> = Append(Append(s, a), b)
<1> DEFINE S == {s[i] : i \in 1..Len(s)} \cup {a, b}
<1>1. s \in Seq(S) /\ a \in S /\ b \in S
  <2>1. s \in [1..Len(s) -> S] /\ Len(s) \in Nat
    BY SequentialIsSeq DEF Sequential
  <2>. QED  BY <2>1, SeqDef
<1> HIDE DEF S
<1>. QED  BY <1>1

-----------------------------------------------------------------------------
(* What the steps of the walk have in common. *)

Safe == IndexerSound' /\ Keeps(index, index')

\* A reading that fails leaves everything where it was.
LEMMA FailStep ==
  ASSUME IndexerSound, NEW code, code # Ok, Fail(code),
         UNCHANGED <<index, file, log, counts, frames>>, TotalsSound',
         totals'.associations = totals.associations
  PROVE  Safe
<1>1. phase' = "failed" /\ fault' = code
  BY DEF Fail
<1>2. Grown(index, index')
  BY NothingGrows DEF IndexerSound, TablesSound, TablesHold
<1>3. ListsSound'
  BY <1>1, <1>2, ListsStay DEF IndexerSound
<1>4. PhaseSound'
  BY <1>1 DEF PhaseSound
<1>5. LogSound' /\ TablesSound'
  BY DEF IndexerSound, LogSound, TablesSound
<1>. QED  BY <1>2, <1>3, <1>4, <1>5 DEF Safe, IndexerSound, Grown

LEMMA FailUncounted ==
  ASSUME IndexerSound, NEW code, code # Ok, Fail(code),
         UNCHANGED <<index, file, log, counts, frames, totals>>
  PROVE  Safe
<1>1. TotalsSound'
  BY DEF IndexerSound, TotalsSound
<1>. QED  BY <1>1, FailStep

\* The node that is met, and what its file says of it.
LEMMA NodeSays ==
  ASSUME IndexerSound, AtNode, NodeFault = Ok
  PROVE  /\ frames # <<>> /\ FrameSound(Top) /\ Top.step = "nodes" /\ Top.quota > 0
         /\ Top.at \in DOMAIN file.fragments /\ Len(Fragment.nodes) \in Nat
         /\ Leads(Fragment.next, file.fragments)
         /\ phase = "walk" => totals.nodes < MaxFileNodes
         /\ References(Node) => /\ Leads(Node.child, file.fragments) /\ Node.child # Outside
         /\ Node.id \in Declarations => Node.properties \in Seq(Nat)
         /\ Node.id = "fileDataStoreObjectReference" => Node.length \in Nat
<1>1. frames # <<>> /\ Top.step = "nodes" /\ Top.quota > 0 /\ Top.pos <= Len(Fragment.nodes)
  BY DEF AtNode, Walking
<1>2. FrameSound(Top)
  BY <1>1, TopOfLists DEF IndexerSound
<1>3. Top.at \in DOMAIN file.fragments /\ Top.pos \in Nat \ {0}
  BY <1>1, <1>2 DEF FrameSound
<1>4. file \in Files
  BY DEF IndexerSound, LogSound
<1>5. PICK fragment : fragment = file.fragments[Top.at] /\ Fragment = fragment
  BY DEF Fragment
<1>6. /\ Leads(fragment.next, file.fragments) /\ Whole1(fragment.nodes)
      /\ \A i \in DOMAIN fragment.nodes :
           LET node == fragment.nodes[i]
           IN /\ References(node) => Leads(node.child, file.fragments)
              /\ node.id \in Declarations => node.properties \in Seq(Nat)
              /\ node.id = "fileDataStoreObjectReference" => node.length \in Nat
  BY <1>3, <1>4, <1>5, FilesAssumption
<1>7. Top.pos \in DOMAIN fragment.nodes
  BY <1>1, <1>3, <1>5, <1>6 DEF Whole1
<1>8. Node = fragment.nodes[Top.pos]
  BY <1>5 DEF Node
<1>9. PICK node : node = fragment.nodes[Top.pos] /\ Node = node
  BY <1>8
<1>10. /\ References(node) => node.child # Outside
       /\ phase = "walk" => ~(totals.nodes >= MaxFileNodes)
  BY <1>9 DEF NodeFault, Ok
<1>11. phase = "walk" => totals.nodes < MaxFileNodes
  BY <1>10, ReaderOptions DEF IndexerSound, TotalsSound
<1>12. /\ References(node) => Leads(node.child, file.fragments)
       /\ node.id \in Declarations => node.properties \in Seq(Nat)
       /\ node.id = "fileDataStoreObjectReference" => node.length \in Nat
  BY <1>6, <1>7, <1>9
<1>. QED  BY <1>1, <1>2, <1>3, <1>5, <1>6, <1>9, <1>10, <1>11, <1>12 DEF Whole1

\* The generator moves on: what it has given and may still give add up as before.
SameReading(frame) ==
  /\ DOMAIN frame = FrameFields
  /\ frame.at = Top.at /\ frame.step = Top.step /\ frame.pos = Top.pos
  /\ frame.quota = Top.quota /\ frame.list = Top.list
  /\ frame.committed = Top.committed /\ frame.produced = Top.produced

LEMMA TakenSound ==
  ASSUME IndexerSound, AtNode, NodeFault = Ok, NEW frame, SameReading(frame),
         UNCHANGED <<file, counts>>, frame.revision \in 0..Len(index'.revisions),
         phase' = "walk" => frame.scope \in DOMAIN index'.scopes,
         NEW taken, taken = Taken(frame)
  PROVE  FrameSound(taken)'
<1>1. /\ FrameSound(Top) /\ Top.step = "nodes" /\ Top.quota > 0
      /\ Top.at \in DOMAIN file.fragments /\ Len(Fragment.nodes) \in Nat
  BY NodeSays
<1>2. /\ frame.pos \in Nat \ {0} /\ frame.quota \in Nat \ {0} /\ frame.produced \in Nat
      /\ frame.committed \in Nat /\ frame.produced + frame.quota = frame.committed
      /\ frame.at \in DOMAIN file.fragments /\ frame.step = "nodes"
      /\ Leads(frame.at, file.fragments)
      /\ frame.list = Nil => frame.committed = 0
      /\ frame.list # Nil => frame.committed = CommittedNodeCount(frame.list)
  BY <1>1 DEF FrameSound, SameReading
<1>3. /\ DOMAIN taken = FrameFields
      /\ taken.produced = frame.produced + 1 /\ taken.quota = frame.quota - 1
      /\ taken.pos \in {Len(Fragment.nodes) + 1, frame.pos + 1}
      /\ taken.at = frame.at /\ taken.step = frame.step /\ taken.list = frame.list
      /\ taken.committed = frame.committed /\ taken.revision = frame.revision
      /\ taken.scope = frame.scope
  BY DEF Taken, SameReading, FrameFields
<1>4. /\ taken.pos \in Nat \ {0} /\ taken.quota \in Nat /\ taken.produced \in Nat
      /\ taken.produced + taken.quota = taken.committed /\ taken.produced <= taken.committed
      /\ taken.committed # 0
  <2>1. \A p \in Nat, q \in Nat \ {0} :
          p + 1 \in Nat /\ q - 1 \in Nat /\ (p + 1) + (q - 1) = p + q /\ p + 1 <= p + q /\ p + q # 0
    OBVIOUS
  <2>2. taken.pos \in Nat \ {0}
    BY <1>1, <1>2, <1>3
  <2>. QED  BY <1>2, <1>3, <2>1, <2>2
<1>5. taken.list # Nil => taken.committed = CommittedNodeCount(taken.list)'
  BY <1>2, <1>3 DEF CommittedNodeCount
<1>. QED  BY <1>2, <1>3, <1>4, <1>5 DEF FrameSound

LEMMA AdvanceStep ==
  ASSUME IndexerSound, phase = "walk", AtNode, NodeFault = Ok,
         NEW frame, SameReading(frame), Advance(frame),
         UNCHANGED <<file, log, counts, phase, fault>>, Grown(index, index'),
         frame.revision \in 0..Len(index'.revisions), frame.scope \in DOMAIN index'.scopes,
         TotalsSound', TablesSound'
  PROVE  Safe
<1>1. PICK taken : taken = Taken(frame)
  OBVIOUS
<1>2. FrameSound(taken)'
  BY <1>1, TakenSound
<1>3. frames # <<>> /\ frames' = Append(Below, taken)
  BY <1>1 DEF Advance, AtNode, Walking
<1>4. ListsSound'
  BY <1>2, <1>3, TopChanges DEF IndexerSound
<1>5. PhaseSound' /\ LogSound'
  BY DEF IndexerSound, PhaseSound, LogSound
<1>. QED  BY <1>4, <1>5 DEF Safe, IndexerSound, Grown

LEMMA NodeCounted ==
  ASSUME IndexerSound, phase = "walk", AtNode, NodeFault = Ok, CountNode
  PROVE  TotalsSound' /\ totals'.associations = totals.associations
<1>1. totals.nodes < MaxFileNodes
  BY NodeSays
<1>2. /\ DOMAIN totals' = DOMAIN totals /\ totals'.nodes = totals.nodes + 1
      /\ totals'.associations = totals.associations /\ totals'.assets = totals.assets
  BY DEF CountNode, IndexerSound, TotalsSound
<1>3. totals'.nodes \in Nat /\ totals'.nodes <= MaxFileNodes
  BY <1>1, <1>2, ReaderOptions DEF IndexerSound, TotalsSound
<1>. QED  BY <1>2, <1>3 DEF IndexerSound, TotalsSound

LEMMA HandleStep ==
  ASSUME IndexerSound, phase = "walk", AtNode, NodeFault = Ok, NEW code, NEW ix, NEW frame,
         SameReading(frame), frame.revision = Top.revision \/ frame.revision = 0,
         code = Ok => /\ TablesHold(ix, totals.associations) /\ Grown(index, ix)
                      /\ frame.scope \in DOMAIN ix.scopes,
         Handle(code, ix, frame)
  PROVE  Safe
<1>1. TotalsSound' /\ totals'.associations = totals.associations
  BY NodeCounted DEF Handle
<1>2. UNCHANGED <<file, log, counts>>
  BY DEF Handle
<1>3. CASE code = Ok
  <2>1. /\ index' = ix /\ Advance(frame) /\ UNCHANGED <<phase, fault>>
    BY <1>3 DEF Handle
  <2>2. TablesSound' /\ Grown(index, index')
    BY <1>1, <1>3, <2>1 DEF TablesSound
  <2>3. frame.revision \in 0..Len(index'.revisions)
    BY <2>2, NodeSays DEF FrameSound, Grown
  <2>4. frame.scope \in DOMAIN index'.scopes
    BY <1>3, <2>1
  <2>. QED  BY <1>1, <1>2, <2>1, <2>2, <2>3, <2>4, AdvanceStep
<1>4. CASE code # Ok
  BY <1>1, <1>2, <1>4, FailStep DEF Handle
<1>. QED  BY <1>3, <1>4

-----------------------------------------------------------------------------
(* The log. *)

LEMMA FragmentOfLog ==
  ASSUME IndexerSound, log.pos > 0
  PROVE  /\ log.at \in DOMAIN file.log.fragments /\ Leads(LogFragment.next, file.log.fragments)
         /\ Len(LogFragment.entries) \in Nat
         /\ \A i \in 1..Len(LogFragment.entries) : LogFragment.entries[i].value \in Nat
<1>1. file \in Files /\ log.at \in DOMAIN file.log.fragments
  BY DEF IndexerSound, LogSound
<1>2. PICK fragment : fragment = file.log.fragments[log.at] /\ LogFragment = fragment
  BY DEF LogFragment
<1>3. /\ Leads(fragment.next, file.log.fragments) /\ Whole1(fragment.entries)
      /\ \A i \in DOMAIN fragment.entries : fragment.entries[i].value \in Nat
  BY <1>1, <1>2, FilesAssumption
<1>. QED  BY <1>1, <1>2, <1>3 DEF Whole1

\* A step of the log's reader opens no list and adds to no table.
LEMMA LogStep ==
  ASSUME IndexerSound, phase = "log", UNCHANGED <<index, file, phase, fault, frames, totals>>,
         LogSound'
  PROVE  Safe
<1>1. Grown(index, index') /\ frames = <<>>
  BY NothingGrows DEF IndexerSound, PhaseSound, TablesSound, TablesHold
<1>2. ListsSound'
  BY <1>1, EmptySequence, NestingAssumption DEF ListsSound
<1>3. PhaseSound' /\ TotalsSound' /\ TablesSound'
  BY DEF IndexerSound, PhaseSound, TotalsSound, TablesSound
<1>. QED  BY <1>1, <1>2, <1>3 DEF Safe, IndexerSound, Grown

LEMMA OpenLogFragmentStep ==
  ASSUME IndexerSound, OpenLogFragment
  PROVE  Safe
<1>1. phase = "log" /\ UNCHANGED <<index, file, counts, frames, totals>>
  BY DEF OpenLogFragment, ReadingLog
<1>2. CASE LogFault = Ok
  <2>1. /\ log' = [log EXCEPT !.pos = 1, !.count = @ + 1, !.seen = @ \union {log.at}]
        /\ UNCHANGED <<phase, fault>>
    BY <1>2 DEF OpenLogFragment
  <2>2. log.at # Nil /\ log.at # Outside
    BY <1>2 DEF LogFault, Ok
  <2>3. LogSound'
    BY <1>1, <2>1, <2>2 DEF IndexerSound, LogSound, Leads
  <2>. QED  BY <1>1, <2>1, <2>3, LogStep
<1>3. CASE LogFault # Ok
  BY <1>1, <1>3, FailUncounted DEF OpenLogFragment
<1>. QED  BY <1>2, <1>3

LEMMA ReadLogEntryStep ==
  ASSUME IndexerSound, ReadLogEntry
  PROVE  Safe
<1>1. /\ phase = "log" /\ UNCHANGED <<index, file, frames, totals>>
      /\ log.pos > 0 /\ log.pos <= Len(LogFragment.entries)
  BY DEF ReadLogEntry, ReadingLog
<1>2. PICK e : e = LogFragment.entries[log.pos]
  OBVIOUS
<1>3. e.value \in Nat
  BY <1>1, <1>2, FragmentOfLog DEF IndexerSound, LogSound
<1>4. CASE EntryFault(e) = Ok
  <2>1. /\ DOMAIN log' = DOMAIN log /\ log'.pos = log.pos + 1 /\ log'.at = log.at
        /\ counts' = counts \/ counts' = WithEntry(counts, e.list, e.value)
        /\ UNCHANGED <<phase, fault>>
    BY <1>2, <1>4 DEF ReadLogEntry, IndexerSound, LogSound
  <2>2. \A list \in DOMAIN counts' : counts'[list] \in Nat
    BY <1>3, <2>1 DEF IndexerSound, LogSound, WithEntry
  <2>3. LogSound'
    BY <1>1, <2>1, <2>2 DEF IndexerSound, LogSound
  <2>. QED  BY <1>1, <2>1, <2>3, LogStep
<1>5. CASE EntryFault(e) # Ok
  BY <1>1, <1>2, <1>5, FailUncounted DEF ReadLogEntry
<1>. QED  BY <1>4, <1>5

LEMMA NextLogFragmentStep ==
  ASSUME IndexerSound, NextLogFragment
  PROVE  Safe
<1>1. /\ phase = "log" /\ UNCHANGED <<index, file, phase, fault, counts, frames, totals>>
      /\ log.pos > 0 /\ log' = [log EXCEPT !.at = LogFragment.next, !.pos = 0]
  BY DEF NextLogFragment, ReadingLog
<1>2. DOMAIN log' = DOMAIN log /\ log'.at = LogFragment.next /\ log'.pos = 0
  BY <1>1 DEF IndexerSound, LogSound
<1>3. LogSound'
  BY <1>1, <1>2, FragmentOfLog DEF IndexerSound, LogSound
<1>. QED  BY <1>1, <1>3, LogStep

\* A list that has just been opened has given nothing yet.
LEMMA NewFrame ==
  ASSUME NEW offset, Leads(offset, file'.fragments), NEW scope, NEW revision, NEW space,
         revision \in 0..Len(index'.revisions), phase' = "walk" => scope \in DOMAIN index'.scopes,
         NEW frame, frame = Frame(offset, scope, revision, space)
  PROVE  FrameSound(frame)'
<1>1. /\ DOMAIN frame = FrameFields
      /\ frame.at = offset /\ frame.step = "fragment" /\ frame.pos = 1 /\ frame.quota = 0
      /\ frame.list = Nil /\ frame.committed = 0 /\ frame.produced = 0
      /\ frame.scope = scope /\ frame.revision = revision
  BY DEF Frame, FrameFields
<1>. QED  BY <1>1 DEF FrameSound

LEMMA OneList ==
  ASSUME NEW frame, FrameSound(frame)', frames' = <<frame>>
  PROVE  ListsSound'
<1>1. PICK s : s = <<>>
  OBVIOUS
<1>2. Sequential(s) /\ Len(s) = 0
  BY <1>1, EmptySequence
<1>3. s \o <<frame>> = Append(s, frame)
  BY <1>2, ConcatOne
<1>4. s \o <<frame>> = <<frame>>
  BY <1>1
<1>5. frames' = Append(s, frame)
  BY <1>3, <1>4
<1>6. /\ Sequential(frames') /\ Len(frames') = Len(s) + 1 /\ DOMAIN frames' = 1..Len(s) + 1
      /\ frames'[Len(s) + 1] = frame
  BY ONLY <1>2, <1>5, AppendSequence
<1>7. Sequential(frames') /\ Len(frames') = 1 /\ DOMAIN frames' = 1..1 /\ frames'[1] = frame
  BY ONLY <1>2, <1>6
<1>8. \A i \in DOMAIN frames' : FrameSound(frames[i])'
  BY <1>7
<1>9. Len(frames') <= MaxNesting
  BY <1>7, NestingAssumption
<1>. QED  BY <1>7, <1>8, <1>9 DEF ListsSound

LEMMA LogEndsStep ==
  ASSUME IndexerSound, LogEnds
  PROVE  Safe
<1>1. /\ phase = "log" /\ UNCHANGED <<index, file, log, counts, totals>>
  BY DEF LogEnds
<1>2. CASE counts = <<>>
  <2>1. "TRANSACTION_LOG_EMPTY" # Ok
    BY DEF Ok
  <2>. QED  BY <1>1, <1>2, <2>1, FailUncounted DEF LogEnds
<1>3. CASE counts # <<>>
  <2>1. PICK frame : frame = Frame(file.root, 0, NoRevision, Nil)
    OBVIOUS
  <2>2. phase' = "root" /\ frames' = <<frame>> /\ fault' = fault
    BY <1>3, <2>1 DEF LogEnds
  <2>3. Leads(file.root, file.fragments) /\ Grown(index, index')
    BY <1>1, FilesAssumption, NothingGrows DEF IndexerSound, LogSound, TablesSound, TablesHold
  <2>4. FrameSound(frame)'
    <3>1. 0 \in 0..Len(index'.revisions)
      BY <2>3 DEF Grown
    <3>. QED  BY <1>1, <2>1, <2>2, <2>3, <3>1, NewFrame DEF NoRevision
  <2>5. ListsSound'
    BY <2>2, <2>4, OneList
  <2>6. PhaseSound' /\ LogSound' /\ TotalsSound' /\ TablesSound'
    BY <1>1, <2>2 DEF IndexerSound, PhaseSound, LogSound, TotalsSound, TablesSound
  <2>. QED  BY <2>3, <2>5, <2>6 DEF Safe, IndexerSound, Grown
<1>. QED  BY <1>2, <1>3

-----------------------------------------------------------------------------
(* The fragments of a list. *)

\* The top list is replaced, and the tables are left alone.
LEMMA ListStep ==
  ASSUME IndexerSound, frames # <<>>, UNCHANGED <<index, file, log, counts, phase, fault, totals>>,
         NEW top, FrameSound(top)', frames' = Append(Below, top), phase # "log"
  PROVE  Safe
<1>1. Grown(index, index')
  BY NothingGrows DEF IndexerSound, TablesSound, TablesHold
<1>2. ListsSound'
  BY <1>1, TopChanges DEF IndexerSound
<1>3. PhaseSound' /\ LogSound' /\ TotalsSound' /\ TablesSound'
  BY DEF IndexerSound, PhaseSound, LogSound, TotalsSound, TablesSound
<1>. QED  BY <1>1, <1>2, <1>3 DEF Safe, IndexerSound, Grown

LEMMA OpenFragmentStep ==
  ASSUME IndexerSound, OpenFragment
  PROVE  Safe
<1>1. /\ UNCHANGED <<index, file, log, counts, totals>> /\ frames # <<>> /\ phase # "log"
      /\ Top.step = "fragment"
  BY DEF OpenFragment, Walking
<1>2. FrameSound(Top)
  BY <1>1, TopOfLists DEF IndexerSound
<1>3. CASE Top.at = Nil
  <2>1. PICK top : top = [Top EXCEPT !.step = "ended"]
    OBVIOUS
  <2>2. frames' = Append(Below, top) /\ UNCHANGED <<phase, fault>>
    BY <1>3, <2>1 DEF OpenFragment
  <2>3. /\ DOMAIN top = FrameFields /\ top.step = "ended"
        /\ \A field \in FrameFields \ {"step"} : top[field] = Top[field]
    BY <1>2, <2>1 DEF FrameSound, FrameFields
  <2>4. FrameSound(top)'
    <3>1. CommittedNodeCount(top.list)' = CommittedNodeCount(top.list)
      BY <1>1 DEF CommittedNodeCount
    <3>. QED  BY <1>1, <1>2, <2>2, <2>3, <3>1 DEF FrameSound, FrameFields
  <2>. QED  BY <1>1, <2>2, <2>4, ListStep
<1>4. CASE Top.at # Nil /\ FragmentFault # Ok
  BY <1>1, <1>4, FailUncounted DEF OpenFragment
<1>5. CASE Top.at # Nil /\ FragmentFault = Ok
  <2>1. PICK list : list = Fragment.list
    OBVIOUS
  <2>2. PICK committed, remaining :
          committed = CommittedNodeCount(list) /\ remaining = Remaining(list)
    OBVIOUS
  <2>3. PICK top :
          top = [Top EXCEPT !.list = list, !.committed = committed,
                   !.seen = @ \union {Top.at}, !.count = @ + 1, !.pos = 1,
                   !.quota = IF remaining > 0 THEN remaining ELSE 0,
                   !.step = IF remaining <= 0 THEN "ended" ELSE "nodes"]
    OBVIOUS
  <2>4. frames' = Append(Below, top) /\ UNCHANGED <<phase, fault>>
    BY <1>5, <2>1, <2>2, <2>3 DEF OpenFragment
  <2>5. /\ Top.at # Outside /\ Top.list \in {Nil, list} /\ committed # Nil
    BY <1>5, <2>1, <2>2 DEF FragmentFault, Ok
  <2>6. Top.at \in DOMAIN file.fragments /\ list # Nil
    <3>1. Top.at \in DOMAIN file.fragments
      BY <1>2, <1>5, <2>5 DEF FrameSound, Leads
    <3>2. file \in Files
      BY DEF IndexerSound, LogSound
    <3>. QED  BY <2>1, <3>1, <3>2, FilesAssumption DEF Fragment
  <2>7. committed \in Nat
    BY <2>2, <2>5 DEF CommittedNodeCount, Get, Has, IndexerSound, LogSound
  <2>8. Top.produced \in Nat /\ Top.produced <= committed
    BY <1>2, <2>2, <2>5, <2>7 DEF FrameSound
  <2>9. remaining = committed - Top.produced
    BY <2>2 DEF Remaining
  <2>10. /\ DOMAIN top = FrameFields /\ top.list = list /\ top.committed = committed
         /\ top.pos = 1 /\ top.quota = (IF remaining > 0 THEN remaining ELSE 0)
         /\ top.step = (IF remaining <= 0 THEN "ended" ELSE "nodes")
         /\ top.at = Top.at /\ top.produced = Top.produced
         /\ top.revision = Top.revision /\ top.scope = Top.scope
    BY <1>2, <2>3 DEF FrameSound, FrameFields
  <2>11. /\ top.quota \in Nat
         /\ top.step = "nodes" => top.produced + top.quota = committed
    BY <2>7, <2>8, <2>9, <2>10
  <2>12. top.committed = CommittedNodeCount(top.list)'
    BY <1>1, <2>2, <2>10 DEF CommittedNodeCount
  <2>13. FrameSound(top)'
    BY <1>1, <1>2, <2>4, <2>6, <2>7, <2>8, <2>10, <2>11, <2>12 DEF FrameSound, Leads
  <2>. QED  BY <1>1, <2>4, <2>13, ListStep
<1>. QED  BY <1>3, <1>4, <1>5

LEMMA FragmentEndsStep ==
  ASSUME IndexerSound, FragmentEnds
  PROVE  Safe
<1>1. /\ UNCHANGED <<index, file, phase, log, counts, totals, fault>> /\ frames # <<>>
      /\ phase # "log" /\ Top.step = "nodes"
  BY DEF FragmentEnds, Walking
<1>2. FrameSound(Top) /\ Top.at \in DOMAIN file.fragments
  BY <1>1, TopOfLists DEF IndexerSound, FrameSound
<1>3. Leads(Fragment.next, file.fragments)
  BY <1>2, FilesAssumption DEF Fragment, IndexerSound, LogSound
<1>4. PICK top : top = [Top EXCEPT !.at = Fragment.next, !.expected = @ + 1,
                          !.step = IF Top.produced = Top.committed THEN "ended" ELSE "fragment"]
  OBVIOUS
<1>5. frames' = Append(Below, top)
  BY <1>4 DEF FragmentEnds
<1>6. /\ DOMAIN top = FrameFields /\ top.step # "nodes" /\ top.at = Fragment.next
      /\ top.list = Top.list /\ top.committed = Top.committed /\ top.produced = Top.produced
      /\ top.pos = Top.pos /\ top.quota = Top.quota
      /\ top.revision = Top.revision /\ top.scope = Top.scope
  BY <1>2, <1>4 DEF FrameSound, FrameFields
<1>7. FrameSound(top)'
  <2>1. CommittedNodeCount(top.list)' = CommittedNodeCount(Top.list)
    BY <1>1, <1>6 DEF CommittedNodeCount
  <2>. QED  BY <1>1, <1>2, <1>3, <1>6, <2>1 DEF FrameSound
<1>. QED  BY <1>1, <1>5, <1>7, ListStep

LEMMA NodeFailsStep ==
  ASSUME IndexerSound, NodeFails
  PROVE  Safe
BY FailUncounted DEF NodeFails

\* The root list is read once to be counted.
LEMMA CountRootNodeStep ==
  ASSUME IndexerSound, CountRootNode
  PROVE  Safe
<1>1. /\ phase = "root" /\ AtNode /\ NodeFault = Ok
      /\ UNCHANGED <<index, file, phase, log, counts, totals, fault>>
  BY DEF CountRootNode
<1>2. frames # <<>> /\ FrameSound(Top)
  BY <1>1, NodeSays
<1>3. PICK taken : taken = Taken(Top)
  OBVIOUS
<1>4. frames' = Append(Below, taken)
  BY <1>3 DEF CountRootNode
<1>5. SameReading(Top)
  BY <1>2 DEF SameReading, FrameSound
<1>6. FrameSound(taken)'
  BY <1>1, <1>2, <1>3, <1>5, TakenSound DEF FrameSound
<1>. QED  BY <1>1, <1>2, <1>4, <1>6, ListStep

LEMMA RootReadStep ==
  ASSUME IndexerSound, RootRead
  PROVE  Safe
<1>1. phase = "root" /\ UNCHANGED <<file, log, counts, totals>>
  BY DEF RootRead
<1>2. CASE RootFault # Ok
  BY <1>1, <1>2, FailUncounted DEF RootRead
<1>3. CASE RootFault = Ok
  <2>1. PICK frame : frame = Frame(file.root, Len(index.scopes) + 1, NoRevision, Nil)
    OBVIOUS
  <2>2. /\ phase' = "walk" /\ index' = OpenScope(index) /\ frames' = <<frame>> /\ fault' = fault
    BY <1>3, <2>1 DEF RootRead
  <2>3. /\ TablesHold(index', totals.associations) /\ Grown(index, index')
        /\ Len(index.scopes) + 1 \in DOMAIN index'.scopes
    BY <2>2, OpenScopeHolds DEF IndexerSound, TablesSound
  <2>4. Leads(file.root, file.fragments)
    BY FilesAssumption DEF IndexerSound, LogSound
  <2>5. FrameSound(frame)'
    <3>1. 0 \in 0..Len(index'.revisions)
      BY <2>3 DEF Grown
    <3>. QED  BY <1>1, <2>1, <2>3, <2>4, <3>1, NewFrame DEF NoRevision
  <2>6. ListsSound'
    BY <2>2, <2>5, OneList
  <2>7. PhaseSound' /\ LogSound' /\ TotalsSound' /\ TablesSound'
    BY <1>1, <2>2, <2>3 DEF IndexerSound, PhaseSound, LogSound, TotalsSound, TablesSound
  <2>. QED  BY <2>3, <2>6, <2>7 DEF Safe, IndexerSound, Grown
<1>. QED  BY <1>2, <1>3

LEMMA ListEndsStep ==
  ASSUME IndexerSound, ListEnds
  PROVE  Safe
<1>1. /\ phase = "walk" /\ frames # <<>> /\ UNCHANGED <<index, file, log, counts, totals>>
  BY DEF ListEnds
<1>2. CASE ListFault # Ok
  BY <1>1, <1>2, FailUncounted DEF ListEnds
<1>3. CASE ListFault = Ok
  <2>1. frames' = Below /\ UNCHANGED <<phase, fault>>
    BY <1>3 DEF ListEnds
  <2>2. Grown(index, index')
    BY <1>1, NothingGrows DEF IndexerSound, TablesSound, TablesHold
  <2>3. /\ Sequential(Below) /\ Len(Below) = Len(frames) - 1 /\ Len(Below) \in Nat
        /\ \A frame : (\E i \in DOMAIN Below : frame = Below[i]) => FrameSound(frame)'
    BY <1>1, <2>1, <2>2, TopOfLists, BelowStays DEF IndexerSound
  <2>4. \A i \in DOMAIN frames' : FrameSound(frames[i])'
    BY <2>1, <2>3
  <2>5. Len(frames') <= MaxNesting
    <3>1. Len(frames) <= MaxNesting /\ Len(frames) \in Nat
      BY SequentialIsSeq DEF IndexerSound, ListsSound
    <3>. QED  BY <2>1, <2>3, <3>1, NestingAssumption
  <2>6. ListsSound'
    BY <2>1, <2>3, <2>4, <2>5 DEF ListsSound
  <2>7. PhaseSound' /\ LogSound' /\ TotalsSound' /\ TablesSound'
    BY <1>1, <2>1 DEF IndexerSound, PhaseSound, LogSound, TotalsSound, TablesSound
  <2>. QED  BY <2>2, <2>6, <2>7 DEF Safe, IndexerSound, Grown
<1>. QED  BY <1>2, <1>3

LEMMA WalkEndsStep ==
  ASSUME IndexerSound, WalkEnds
  PROVE  Safe
<1>1. /\ phase = "walk" /\ phase' = "done"
      /\ UNCHANGED <<index, file, log, counts, frames, totals, fault>>
  BY DEF WalkEnds
<1>2. Grown(index, index')
  BY <1>1, NothingGrows DEF IndexerSound, TablesSound, TablesHold
<1>3. ListsSound'
  BY <1>1, <1>2, ListsStay DEF IndexerSound
<1>4. PhaseSound' /\ LogSound' /\ TotalsSound' /\ TablesSound'
  BY <1>1 DEF IndexerSound, PhaseSound, LogSound, TotalsSound, TablesSound
<1>. QED  BY <1>2, <1>3, <1>4 DEF Safe, IndexerSound, Grown

-----------------------------------------------------------------------------
(* The nodes of a list, one lemma for each kind. *)

\* Whatever a handler is given of the list that is read.
LEMMA ReadingSays ==
  ASSUME IndexerSound, NEW ids, Reading(ids)
  PROVE  /\ phase = "walk" /\ AtNode /\ NodeFault = Ok /\ Node.id \in ids
         /\ FrameSound(Top) /\ SameReading(Top) /\ Top.scope \in DOMAIN index.scopes
         /\ Top.revision = NoRevision \/ Top.revision \in DOMAIN index.revisions
         /\ TablesHold(index, totals.associations) /\ Grown(index, index)
         /\ totals.associations \in Nat
<1>1. phase = "walk" /\ AtNode /\ NodeFault = Ok /\ Node.id \in ids
  BY DEF Reading
<1>2. FrameSound(Top)
  BY <1>1, NodeSays
<1>3. SameReading(Top) /\ Top.scope \in DOMAIN index.scopes
  BY <1>1, <1>2 DEF SameReading, FrameSound
<1>4. TablesHold(index, totals.associations) /\ totals.associations \in Nat
  BY DEF IndexerSound, TablesSound, TotalsSound
<1>5. Sequential(index.revisions) /\ IndexSound(index)
  BY <1>4 DEF TablesHold, IndexSound, IndexShape
<1>6. Top.revision = NoRevision \/ Top.revision \in DOMAIN index.revisions
  BY <1>2, <1>5, SequentialIsSeq DEF FrameSound, NoRevision
<1>. QED  BY <1>1, <1>2, <1>3, <1>4, <1>5, <1>6, NothingGrows

LEMMA PassNodeStep ==
  ASSUME IndexerSound, PassNode
  PROVE  Safe
<1>1. Reading({Node.id})
  BY DEF PassNode, Unhandled, Reading
<1>2. Handle(Ok, index, Top)
  BY DEF PassNode
<1>. QED  BY <1>1, <1>2, ReadingSays, HandleStep

LEMMA ListStartStep ==
  ASSUME IndexerSound, ListStart
  PROVE  Safe
<1>1. PICK ids : Reading(ids)
  BY DEF ListStart
<1>2. PICK frame : frame = [Top EXCEPT !.space = Node.space]
  OBVIOUS
<1>3. Handle(Ok, index, frame)
  BY <1>2 DEF ListStart
<1>4. SameReading(frame) /\ frame.revision = Top.revision /\ frame.scope = Top.scope
  BY <1>1, <1>2, ReadingSays DEF SameReading, FrameFields
<1>. QED  BY <1>1, <1>3, <1>4, ReadingSays, HandleStep

LEMMA StartGlobalIdsStep ==
  ASSUME IndexerSound, StartGlobalIds
  PROVE  Safe
<1>1. PICK ids : Reading(ids)
  BY DEF StartGlobalIds
<1>2. PICK frame : frame = [Top EXCEPT !.scope = Len(index.scopes) + 1]
  OBVIOUS
<1>3. PICK ix : ix = OpenScope(index)
  OBVIOUS
<1>4. Handle(Ok, ix, frame)
  BY <1>2, <1>3 DEF StartGlobalIds
<1>5. /\ SameReading(frame) /\ frame.revision = Top.revision
      /\ frame.scope = Len(index.scopes) + 1
  BY <1>1, <1>2, ReadingSays DEF SameReading, FrameFields
<1>6. /\ TablesHold(ix, totals.associations) /\ Grown(index, ix) /\ frame.scope \in DOMAIN ix.scopes
  BY <1>1, <1>3, <1>5, ReadingSays, OpenScopeHolds
<1>. QED  BY <1>1, <1>4, <1>5, <1>6, ReadingSays, HandleStep

LEMMA ReadGlobalIdEntryStep ==
  ASSUME IndexerSound, ReadGlobalIdEntry
  PROVE  Safe
<1>1. PICK ids : Reading(ids)
  BY DEF ReadGlobalIdEntry
<1>2. PICK code : code = CASE BadIndex(Node.index) -> "GLOBAL_ID_INDEX"
                           [] HasGlobalId(index, Top.scope, Node.index) -> "GLOBAL_ID_INDEX"
                           [] Node.guid = NilGuid -> "GLOBAL_ID_GUID"
                           [] OTHER -> Ok
  OBVIOUS
<1>3. PICK ix : ix = AddGlobalId(index, Top.scope, Node.index, Node.guid)
  OBVIOUS
<1>4. Handle(code, ix, Top)
  BY <1>2, <1>3 DEF ReadGlobalIdEntry
<1>5. code = Ok => ~HasGlobalId(index, Top.scope, Node.index)
  BY <1>2 DEF Ok
<1>6. code = Ok => TablesHold(ix, totals.associations) /\ Grown(index, ix)
  BY <1>1, <1>3, <1>5, ReadingSays, AddGlobalIdHolds
<1>7. Grown(index, ix) => Top.scope \in DOMAIN ix.scopes
  BY <1>1, ReadingSays DEF Grown
<1>. QED  BY <1>1, <1>4, <1>6, <1>7, ReadingSays, HandleStep

LEMMA ReadRootReferenceStep ==
  ASSUME IndexerSound, ReadRootReference
  PROVE  Safe
<1>1. PICK ids : Reading(ids)
  BY DEF ReadRootReference
<1>2. CASE Top.revision = NoRevision
  <2>1. Handle(Ok, index, Top)
    BY <1>2 DEF ReadRootReference
  <2>. QED  BY <1>1, <2>1, ReadingSays, HandleStep
<1>3. CASE Top.revision # NoRevision
  <2>1. PICK object, code : Handle(code, AddRootObject(index, Top.revision, object, Node.role), Top)
    BY <1>3 DEF ReadRootReference
  <2>2. PICK ix : ix = AddRootObject(index, Top.revision, object, Node.role)
    OBVIOUS
  <2>3. TablesHold(ix, totals.associations) /\ Grown(index, ix)
    BY <1>1, <1>3, <2>2, ReadingSays, AddRootHolds
  <2>4. Top.scope \in DOMAIN ix.scopes
    BY <1>1, <2>3, ReadingSays DEF Grown
  <2>. QED  BY <1>1, <2>1, <2>2, <2>3, <2>4, ReadingSays, HandleStep
<1>. QED  BY <1>2, <1>3

\* An object is added under the limit, to the revision of its list.
LEMMA ObjectAdded ==
  ASSUME IndexerSound, NEW ids, Reading(ids), NEW id, NEW object, object.revision = Top.revision,
         object.properties = Nil \/ object.properties \in Seq(Nat),
         Handle(ObjectFault(id), AddObject(index, object), Top)
  PROVE  Safe
<1>1. PICK code, ix : code = ObjectFault(id) /\ ix = AddObject(index, object)
  OBVIOUS
<1>2. code = Ok => Len(index.objects) < MaxObjects
  <2>1. Len(index.objects) \in Nat
    BY ReadingSays, SequentialIsSeq DEF TablesHold, IndexSound, IndexShape
  <2>2. code = Ok => ~(Len(index.objects) >= MaxObjects)
    BY <1>1 DEF ObjectFault, Ok
  <2>. QED  BY <2>1, <2>2, ReaderOptions
<1>3. code = Ok => TablesHold(ix, totals.associations) /\ Grown(index, ix)
  BY <1>1, <1>2, ReadingSays, AddObjectHolds
<1>4. Grown(index, ix) => Top.scope \in DOMAIN ix.scopes
  BY ReadingSays DEF Grown
<1>. QED  BY <1>1, <1>3, <1>4, ReadingSays, HandleStep

LEMMA ReadObjectStep ==
  ASSUME IndexerSound, ReadObject
  PROVE  Safe
<1>1. Reading(Declarations)
  BY DEF ReadObject
<1>2. PICK id, jcid : Handle(ObjectFault(id),
                 AddObject(index, [id |-> id, jcid |-> jcid, revision |-> Top.revision,
                   revisionId |-> RevisionId, isRevision |-> Node.id = "objectRevision",
                   properties |-> IF Encrypted THEN Nil ELSE Node.properties,
                   scope |-> Top.scope, name |-> Nil]), Top)
  BY DEF ReadObject
<1>3. PICK object : object = [id |-> id, jcid |-> jcid, revision |-> Top.revision,
                   revisionId |-> RevisionId, isRevision |-> Node.id = "objectRevision",
                   properties |-> IF Encrypted THEN Nil ELSE Node.properties,
                   scope |-> Top.scope, name |-> Nil]
  OBVIOUS
<1>4. Node.properties \in Seq(Nat)
  BY <1>1, ReadingSays, NodeSays
<1>5. object.revision = Top.revision /\ object.properties \in {Nil, Node.properties}
  BY <1>3
<1>. QED  BY <1>1, <1>2, <1>3, <1>4, <1>5, ObjectAdded

LEMMA ReadFileDataDeclarationStep ==
  ASSUME IndexerSound, ReadFileDataDeclaration
  PROVE  Safe
<1>1. PICK ids : Reading(ids)
  BY DEF ReadFileDataDeclaration
<1>2. PICK id : Handle(ObjectFault(id),
                 AddObject(index, [id |-> id, jcid |-> Node.jcid, revision |-> Top.revision,
                   revisionId |-> RevisionId, isRevision |-> FALSE, properties |-> Nil,
                   scope |-> Top.scope, name |-> Node.name]), Top)
  BY DEF ReadFileDataDeclaration
<1>3. PICK object : object = [id |-> id, jcid |-> Node.jcid, revision |-> Top.revision,
                   revisionId |-> RevisionId, isRevision |-> FALSE, properties |-> Nil,
                   scope |-> Top.scope, name |-> Node.name]
  OBVIOUS
<1>4. object.revision = Top.revision /\ object.properties = Nil
  BY <1>3
<1>. QED  BY <1>1, <1>2, <1>3, <1>4, ObjectAdded

LEMMA DescendStep ==
  ASSUME IndexerSound, Descend
  PROVE  Safe
<1>1. /\ Reading({Node.id}) /\ References(Node) /\ CountNode
      /\ UNCHANGED <<file, log, counts>>
  BY DEF Descend, Unhandled, Reading
<1>2. /\ phase = "walk" /\ AtNode /\ NodeFault = Ok /\ SameReading(Top)
      /\ FrameSound(Top) /\ TablesHold(index, totals.associations) /\ Grown(index, index)
  BY <1>1, ReadingSays
<1>3. TotalsSound' /\ totals'.associations = totals.associations
  BY <1>1, <1>2, NodeCounted
<1>4. CASE Advance(Top) /\ UNCHANGED <<index, phase, fault>>
  <2>1. TablesSound' /\ Grown(index, index')
    BY <1>2, <1>3, <1>4 DEF TablesSound
  <2>2. Top.revision \in 0..Len(index'.revisions) /\ Top.scope \in DOMAIN index'.scopes
    BY <1>2, <1>4 DEF FrameSound
  <2>. QED  BY <1>1, <1>2, <1>3, <1>4, <2>1, <2>2, AdvanceStep
<1>5. CASE TooDeep /\ Fail("FILE_NODE_LIST_DEPTH") /\ UNCHANGED <<index, frames>>
  <2>1. "FILE_NODE_LIST_DEPTH" # Ok
    BY DEF Ok
  <2>. QED  BY <1>1, <1>3, <1>5, <2>1, FailStep
<1>6. CASE /\ ~TooDeep /\ Node.child # Nil /\ index' = OpenScope(index)
           /\ frames' = Below \o <<Taken(Top), ChildFrame>> /\ UNCHANGED <<phase, fault>>
  <2>1. /\ TablesHold(index', totals.associations) /\ Grown(index, index')
        /\ Len(index.scopes) + 1 \in DOMAIN index'.scopes
    BY <1>2, <1>6, OpenScopeHolds
  <2>2. Top.revision \in 0..Len(index'.revisions) /\ Top.scope \in DOMAIN index'.scopes
    BY <1>2, <2>1 DEF FrameSound, Grown
  <2>3. PICK taken, child : taken = Taken(Top) /\ child = ChildFrame
    OBVIOUS
  <2>4. FrameSound(taken)'
    BY <1>1, <1>2, <2>2, <2>3, TakenSound
  <2>5. FrameSound(child)'
    <3>1. Leads(Node.child, file'.fragments)
      BY <1>1, <1>2, NodeSays, ReadingSays
    <3>2. Inherited \in 0..Len(index'.revisions)
      BY <2>1, <2>2 DEF Inherited, NoRevision, Grown
    <3>. QED  BY <2>1, <2>3, <3>1, <3>2, NewFrame DEF ChildFrame
  <2>6. frames # <<>>
    BY <1>2 DEF AtNode, Walking
  <2>7. /\ Sequential(Below) /\ Len(Below) = Len(frames) - 1 /\ Len(Below) \in Nat
        /\ \A frame : (\E i \in DOMAIN Below : frame = Below[i]) => FrameSound(frame)'
    BY <1>1, <1>2, <1>6, <2>1, <2>6, TopOfLists, BelowStays DEF IndexerSound
  <2>8. frames' = Append(Append(Below, taken), child)
    BY <1>6, <2>3, <2>7, ConcatTwo
  <2>9. PICK upper : upper = Append(Below, taken)
    OBVIOUS
  <2>10. /\ Sequential(upper) /\ Len(upper) = Len(Below) + 1
         /\ DOMAIN Below = 1..Len(Below) /\ DOMAIN upper = 1..Len(Below) + 1
         /\ \A i \in 1..Len(Below) : upper[i] = Below[i]
         /\ upper[Len(Below) + 1] = taken
    BY <2>7, <2>9, AppendSequence
  <2>11. /\ Sequential(frames') /\ Len(frames') = Len(upper) + 1
         /\ DOMAIN upper = 1..Len(upper) /\ DOMAIN frames' = 1..Len(upper) + 1
         /\ \A i \in 1..Len(upper) : frames'[i] = upper[i]
         /\ frames'[Len(upper) + 1] = child
    BY <2>8, <2>9, <2>10, AppendSequence
  <2>12. PICK n \in Nat : n = Len(Below)
    BY <2>7
  <2>13. 1..n + 2 = (1..n) \cup {n + 1, n + 2} /\ (n + 1) + 1 = n + 2
    OBVIOUS
  <2>14. /\ DOMAIN frames' = 1..n + 2 /\ frames'[n + 2] = child /\ frames'[n + 1] = taken
         /\ \A i \in 1..n : frames'[i] = Below[i] /\ i \in DOMAIN Below
         /\ Len(frames') = n + 2
    <3>1. Len(upper) = n + 1 /\ n + 1 \in 1..n + 1 /\ \A i \in 1..n : i \in 1..n + 1
      BY <2>10, <2>12
    <3>. QED  BY <2>10, <2>11, <2>12, <2>13, <3>1
  <2>15. \A i \in DOMAIN frames' : FrameSound(frames[i])'
    <3>. SUFFICES ASSUME NEW i, i \in DOMAIN frames' PROVE FrameSound(frames[i])'
      OBVIOUS
    <3>1. PICK frame : frame = frames'[i]
      OBVIOUS
    <3>2. FrameSound(frame)'
      BY <2>4, <2>5, <2>7, <2>13, <2>14, <3>1
    <3>. QED  BY <3>1, <3>2
  <2>16. Len(frames') <= MaxNesting
    <3>1. Len(frames) \in Nat
      BY SequentialIsSeq DEF IndexerSound, ListsSound
    <3>2. Len(frames) + 1 = n + 2 /\ ~(Len(frames) >= MaxNesting)
      BY <1>6, <2>7, <2>12, <3>1 DEF TooDeep
    <3>. QED  BY <2>14, <3>1, <3>2, NestingAssumption
  <2>17. ListsSound'
    BY <2>11, <2>15, <2>16 DEF ListsSound
  <2>18. PhaseSound' /\ LogSound' /\ TablesSound'
    BY <1>1, <1>2, <1>3, <1>6, <2>1 DEF IndexerSound, PhaseSound, LogSound, TablesSound
  <2>. QED  BY <1>3, <2>1, <2>17, <2>18 DEF Safe, IndexerSound, Grown
<1>. QED  BY <1>4, <1>5, <1>6 DEF Descend

\* An association that is made is counted, and one that is not is not.
LEMMA Associated ==
  ASSUME IndexerSound, phase = "walk", AtNode, NodeFault = Ok, NEW code, Associates(code)
  PROVE  /\ TotalsSound'
         /\ totals'.associations = IF code = Ok THEN NextAssociation ELSE totals.associations
<1>1. totals.nodes < MaxFileNodes
  BY NodeSays
<1>2. /\ DOMAIN totals' = DOMAIN totals /\ totals'.nodes = totals.nodes + 1
      /\ totals'.associations = (IF code = Ok THEN totals.associations + 1 ELSE totals.associations)
      /\ totals'.assets = totals.assets
  BY DEF Associates, IndexerSound, TotalsSound
<1>3. totals'.nodes \in Nat /\ totals'.nodes <= MaxFileNodes
  BY <1>1, <1>2, ReaderOptions DEF IndexerSound, TotalsSound
<1>. QED  BY <1>2, <1>3 DEF IndexerSound, TotalsSound, NextAssociation

LEMMA ReadRevisionManifestStep ==
  ASSUME IndexerSound, ReadRevisionManifest
  PROVE  Safe
<1> DEFINE order == Len(index.revisions) + 1
           added == AddRevision(index, Node.revision, Optional(Node.dependency), Node.role,
                      Node.encrypted, Node.context, Top.space)
           after == AddRoleAssociation(added, order, Node.context, Node.role,
                      totals.associations + 1)
<1>1. PICK ids : Reading(ids)
  BY DEF ReadRevisionManifest
<1>2. PICK code : code = IF Has(index.revisionByGuid, Node.revision) THEN "REVISION_ID" ELSE Ok
  OBVIOUS
<1>3. /\ Associates(code) /\ UNCHANGED <<file, log, counts>>
      /\ IF code = Ok
         THEN /\ index' = after /\ Advance([Top EXCEPT !.revision = order])
              /\ UNCHANGED <<phase, fault>>
         ELSE Fail(code) /\ UNCHANGED <<index, frames>>
  BY <1>2 DEF ReadRevisionManifest, NextAssociation
<1>4. /\ phase = "walk" /\ AtNode /\ NodeFault = Ok /\ SameReading(Top)
      /\ FrameSound(Top) /\ TablesHold(index, totals.associations)
      /\ totals.associations \in Nat /\ Top.scope \in DOMAIN index.scopes
  BY <1>1, ReadingSays
<1>5. /\ TotalsSound'
      /\ totals'.associations = IF code = Ok THEN totals.associations + 1 ELSE totals.associations
  BY <1>3, <1>4, Associated DEF NextAssociation
<1>6. CASE code = Ok
  <2>1. /\ TablesHold(after, totals.associations + 1) /\ Grown(index, after)
        /\ Len(after.revisions) = order
    BY <1>4, AddRevisionHolds
  <2>2. PICK frame : frame = [Top EXCEPT !.revision = order]
    OBVIOUS
  <2>3. SameReading(frame) /\ frame.revision = order /\ frame.scope = Top.scope
    BY <1>4, <2>2 DEF SameReading, FrameFields
  <2>4. index' = after /\ Advance(frame) /\ UNCHANGED <<phase, fault>>
    BY <1>3, <1>6, <2>2
  <2> HIDE DEF after
  <2>5. TablesSound' /\ Grown(index, index')
    BY <1>5, <1>6, <2>1, <2>4 DEF TablesSound
  <2>6. frame.scope \in DOMAIN index'.scopes
    BY <1>4, <2>3, <2>5 DEF Grown
  <2>7. frame.revision \in 0..Len(index'.revisions)
    BY <2>1, <2>3, <2>4, <2>5 DEF Grown
  <2>. QED  BY <1>3, <1>4, <1>5, <2>3, <2>4, <2>5, <2>6, <2>7, AdvanceStep
<1>7. CASE code # Ok
  BY <1>3, <1>5, <1>7, FailStep
<1>. QED  BY <1>6, <1>7

LEMMA ReadRoleDeclarationStep ==
  ASSUME IndexerSound, ReadRoleDeclaration
  PROVE  Safe
<1>1. PICK ids : Reading(ids)
  BY DEF ReadRoleDeclaration
<1>2. PICK revision, context : revision = RevisionOf(index, Node.revision)
                               /\ context = Optional(Node.context)
  OBVIOUS
<1>3. PICK after :
        after = AddRoleAssociation(index, revision, context, Node.role, totals.associations + 1)
  OBVIOUS
<1>4. /\ Associates(RoleFault) /\ UNCHANGED <<file, log, counts>>
      /\ IF RoleFault = Ok
         THEN /\ index' = after /\ Advance(Top) /\ UNCHANGED <<phase, fault>>
         ELSE Fail(RoleFault) /\ UNCHANGED <<index, frames>>
  BY <1>2, <1>3 DEF ReadRoleDeclaration, NextAssociation
<1>5. /\ phase = "walk" /\ AtNode /\ NodeFault = Ok /\ SameReading(Top)
      /\ FrameSound(Top) /\ TablesHold(index, totals.associations)
      /\ totals.associations \in Nat /\ Top.scope \in DOMAIN index.scopes
  BY <1>1, ReadingSays
<1>6. /\ TotalsSound'
      /\ totals'.associations =
           IF RoleFault = Ok THEN totals.associations + 1 ELSE totals.associations
  BY <1>4, <1>5, Associated DEF NextAssociation
<1>7. CASE RoleFault = Ok
  <2>1. revision # Nil
    BY <1>2, <1>7 DEF RoleFault, Ok
  <2>2. revision \in DOMAIN index.revisions
    BY <1>2, <1>5, <2>1 DEF RevisionOf, Get, Has, TablesHold, IndexSound, FindsByIdentifier,
       FindsTheLast
  <2>3. TablesHold(after, totals.associations + 1) /\ Grown(index, after)
    BY <1>3, <1>5, <2>2, AddRoleHolds
  <2>4. index' = after /\ Advance(Top) /\ UNCHANGED <<phase, fault>>
    BY <1>4, <1>7
  <2>5. TablesSound' /\ Grown(index, index')
    BY <1>6, <1>7, <2>3, <2>4 DEF TablesSound
  <2>6. Top.scope \in DOMAIN index'.scopes /\ Top.revision \in 0..Len(index'.revisions)
    BY <1>5, <2>5 DEF Grown, FrameSound
  <2>. QED  BY <1>4, <1>5, <1>6, <2>4, <2>5, <2>6, AdvanceStep
<1>8. CASE RoleFault # Ok
  BY <1>4, <1>6, <1>8, FailStep
<1>. QED  BY <1>7, <1>8

LEMMA ReadFileDataStoreObjectStep ==
  ASSUME IndexerSound, ReadFileDataStoreObject
  PROVE  Safe
<1>1. Reading({"fileDataStoreObjectReference"})
  BY DEF ReadFileDataStoreObject
<1>2. PICK code : code = CASE Node.length > MaxAssetBytes -> "ASSET_LIMIT"
                           [] totals.assets + Node.length > MaxTotalAssetBytes -> "ASSET_LIMIT"
                           [] ~Node.framed -> "FILE_DATA_FRAMING"
                           [] OTHER -> Ok
  OBVIOUS
<1>3. PICK after : after = AddFileData(index, Node.key, Node.payload)
  OBVIOUS
<1>4. /\ totals' = [totals EXCEPT !.nodes = @ + 1,
                      !.assets = IF code = Ok THEN @ + Node.length ELSE @]
      /\ UNCHANGED <<file, log, counts>>
      /\ IF code = Ok
         THEN /\ index' = after /\ Advance(Top) /\ UNCHANGED <<phase, fault>>
         ELSE Fail(code) /\ UNCHANGED <<index, frames>>
  BY <1>2, <1>3 DEF ReadFileDataStoreObject
<1>5. /\ phase = "walk" /\ AtNode /\ NodeFault = Ok /\ SameReading(Top)
      /\ FrameSound(Top) /\ TablesHold(index, totals.associations)
      /\ Top.scope \in DOMAIN index.scopes /\ Node.id = "fileDataStoreObjectReference"
  BY <1>1, ReadingSays
<1>6. Node.length \in Nat /\ totals.nodes < MaxFileNodes
  BY <1>5, NodeSays
<1>7. code = Ok => ~(totals.assets + Node.length > MaxTotalAssetBytes)
  BY <1>2 DEF Ok
<1>8. /\ DOMAIN totals' = DOMAIN totals /\ totals'.nodes = totals.nodes + 1
      /\ totals'.associations = totals.associations
      /\ totals'.assets = IF code = Ok THEN totals.assets + Node.length ELSE totals.assets
  BY <1>4 DEF IndexerSound, TotalsSound
<1>9. totals'.nodes \in Nat /\ totals'.nodes <= MaxFileNodes
  BY <1>6, <1>8, ReaderOptions DEF IndexerSound, TotalsSound
<1>10. totals'.assets \in Nat /\ totals'.assets <= MaxTotalAssetBytes
  BY <1>6, <1>7, <1>8, ReaderOptions DEF IndexerSound, TotalsSound
<1>11. TotalsSound'
  BY <1>8, <1>9, <1>10 DEF IndexerSound, TotalsSound
<1>12. CASE code = Ok
  <2>1. TablesHold(after, totals.associations) /\ Grown(index, after)
    BY <1>3, <1>5, AddFileDataHolds
  <2>2. index' = after /\ Advance(Top) /\ UNCHANGED <<phase, fault>>
    BY <1>4, <1>12
  <2>3. TablesSound' /\ Grown(index, index')
    BY <1>8, <2>1, <2>2 DEF TablesSound
  <2>4. Top.scope \in DOMAIN index'.scopes /\ Top.revision \in 0..Len(index'.revisions)
    BY <1>5, <2>3 DEF Grown, FrameSound
  <2>. QED  BY <1>4, <1>5, <1>11, <2>2, <2>3, <2>4, AdvanceStep
<1>13. CASE code # Ok
  BY <1>4, <1>8, <1>11, <1>13, FailStep
<1>. QED  BY <1>12, <1>13

-----------------------------------------------------------------------------
(* The specification. *)

LEMMA IndexingStep ==
  ASSUME IndexerSound, IndexNext
  PROVE  Safe
<1>1. CASE OpenLogFragment
  BY <1>1, OpenLogFragmentStep
<1>2. CASE ReadLogEntry
  BY <1>2, ReadLogEntryStep
<1>3. CASE NextLogFragment
  BY <1>3, NextLogFragmentStep
<1>4. CASE LogEnds
  BY <1>4, LogEndsStep
<1>5. CASE OpenFragment
  BY <1>5, OpenFragmentStep
<1>6. CASE FragmentEnds
  BY <1>6, FragmentEndsStep
<1>7. CASE NodeFails
  BY <1>7, NodeFailsStep
<1>8. CASE CountRootNode
  BY <1>8, CountRootNodeStep
<1>9. CASE RootRead
  BY <1>9, RootReadStep
<1>10. CASE ListEnds
  BY <1>10, ListEndsStep
<1>11. CASE WalkEnds
  BY <1>11, WalkEndsStep
<1>12. CASE Descend
  BY <1>12, DescendStep
<1>13. CASE ListStart
  BY <1>13, ListStartStep
<1>14. CASE ReadRevisionManifest
  BY <1>14, ReadRevisionManifestStep
<1>15. CASE ReadRoleDeclaration
  BY <1>15, ReadRoleDeclarationStep
<1>16. CASE StartGlobalIds
  BY <1>16, StartGlobalIdsStep
<1>17. CASE ReadGlobalIdEntry
  BY <1>17, ReadGlobalIdEntryStep
<1>18. CASE ReadRootReference
  BY <1>18, ReadRootReferenceStep
<1>19. CASE ReadObject
  BY <1>19, ReadObjectStep
<1>20. CASE ReadFileDataDeclaration
  BY <1>20, ReadFileDataDeclarationStep
<1>21. CASE ReadFileDataStoreObject
  BY <1>21, ReadFileDataStoreObjectStep
<1>22. CASE PassNode
  BY <1>22, PassNodeStep
<1>. QED
  BY <1>1, <1>2, <1>3, <1>4, <1>5, <1>6, <1>7, <1>8, <1>9, <1>10, <1>11, <1>12, <1>13, <1>14,
     <1>15, <1>16, <1>17, <1>18, <1>19, <1>20, <1>21, <1>22 DEF IndexNext

\* Indexing goes on only while it has neither ended nor failed.
LEMMA StillIndexing ==
  ASSUME IndexNext
  PROVE  phase \in {"log", "root", "walk"}
<1>1. ReadingLog => phase = "log"
  BY DEF ReadingLog
<1>2. (Walking \/ AtNode) => phase \in {"root", "walk"}
  BY DEF Walking, AtNode
<1>3. /\ \A ids : Reading(ids) => phase = "walk"
      /\ Unhandled => phase = "walk"
  BY DEF Reading, Unhandled
<1>4. OpenLogFragment \/ ReadLogEntry \/ NextLogFragment \/ LogEnds => phase = "log"
  BY <1>1 DEF OpenLogFragment, ReadLogEntry, NextLogFragment, LogEnds
<1>5. OpenFragment \/ FragmentEnds \/ NodeFails \/ CountRootNode \/ RootRead \/ ListEnds \/ WalkEnds
        => phase \in {"root", "walk"}
  BY <1>2 DEF OpenFragment, FragmentEnds, NodeFails, CountRootNode, RootRead, ListEnds, WalkEnds
<1>6. Descend \/ ListStart \/ ReadRevisionManifest \/ ReadRoleDeclaration \/ StartGlobalIds
        \/ ReadGlobalIdEntry \/ ReadRootReference => phase = "walk"
  BY <1>3 DEF Descend, ListStart, ReadRevisionManifest, ReadRoleDeclaration, StartGlobalIds,
     ReadGlobalIdEntry, ReadRootReference
<1>7. ReadObject \/ ReadFileDataDeclaration \/ ReadFileDataStoreObject \/ PassNode => phase = "walk"
  BY <1>3 DEF ReadObject, ReadFileDataDeclaration, ReadFileDataStoreObject, PassNode
<1>. QED  BY <1>4, <1>5, <1>6, <1>7 DEF IndexNext

\* Where nothing has been asked, whatever is said of the answers holds.
LEMMA NothingAnswered ==
  /\ Unasked => SpacesSound /\ PropertiesSound
  /\ Unasked' => SpacesSound' /\ PropertiesSound'
<1>1. Unasked => SpacesSound
  BY EmptySequence DEF Unasked, SpacesSound, SlotsSound, SpacesAreWhole, RequestSound
<1>2. Unasked' => SpacesSound'
  BY EmptySequence DEF Unasked, SpacesSound, SlotsSound, SpacesAreWhole, RequestSound
<1>3. Unasked => PropertiesSound
  <2>. SUFFICES ASSUME Unasked PROVE PropertiesSound
    OBVIOUS
  <2>1. Views = {} /\ Walked = {} /\ DOMAIN kept = {}
    BY EmptySequence DEF Unasked, Views, Walked, Has, Range
  <2>2. ViewsAreWhole
    BY <2>1 DEF ViewsAreWhole
  <2>3. RecordsSound /\ WalkSound
    BY <2>1, EmptySequence DEF Unasked, RecordsSound, WalkSound, InWalk
  <2>. QED  BY <2>2, <2>3 DEF PropertiesSound
<1>4. Unasked' => PropertiesSound'
  <2>. SUFFICES ASSUME Unasked' PROVE PropertiesSound'
    OBVIOUS
  <2>1. Views' = {} /\ Walked' = {} /\ DOMAIN kept' = {}
    BY EmptySequence DEF Unasked, Views, Walked, Has, Range
  <2>2. ViewsAreWhole'
    BY <2>1 DEF ViewsAreWhole
  <2>3. RecordsSound' /\ WalkSound'
    BY <2>1, EmptySequence DEF Unasked, RecordsSound, WalkSound, InWalk
  <2>. QED  BY <2>2, <2>3 DEF PropertiesSound
<1>. QED  BY <1>1, <1>2, <1>3, <1>4

\* The index is not touched by what is asked.
LEMMA IndexerStays ==
  ASSUME IndexerSound, UNCHANGED index, Untouched
  PROVE  Safe
<1>1. Grown(index, index')
  BY NothingGrows DEF IndexerSound, TablesSound, TablesHold
<1>2. ListsSound'
  BY <1>1, ListsStay DEF IndexerSound, Untouched
<1>3. PhaseSound' /\ LogSound' /\ TotalsSound' /\ TablesSound'
  BY DEF Untouched, IndexerSound, PhaseSound, LogSound, TotalsSound, TablesSound
<1>. QED  BY <1>1, <1>2, <1>3 DEF Safe, IndexerSound, Grown

LEMMA SectionStep ==
  ASSUME IInv, [Next]_sectionVars
  PROVE  IInv' /\ Keeps(index, index')
<1>1. /\ IndexerSound /\ AskingSound /\ SpacesSound /\ PropertiesSound
      /\ IndexSound(index) /\ ObjectsSound(index)
  BY DEF IInv, IndexerSound, TablesSound, TablesHold
<1>2. CASE Indexing
  <2>1. IndexNext /\ UNCHANGED <<resolverVars, propertyVars, requests>>
    BY <1>2 DEF Indexing
  <2>2. Safe
    BY <1>1, <2>1, IndexingStep
  <2>3. Unasked
    BY <1>1, <2>1, StillIndexing DEF AskingSound
  <2>4. Unasked' /\ AskingSound'
    BY <1>1, <2>1, <2>3 DEF Unasked, AskingSound, resolverVars, propertyVars
  <2>. QED  BY <2>2, <2>4, NothingAnswered DEF Safe, IInv
<1>3. CASE AskForSpace
  <2>1. Asking /\ requests' = requests + 1 /\ UNCHANGED propertyVars /\ Untouched
    BY <1>3 DEF AskForSpace
  <2>2. /\ UNCHANGED <<index, cells, failures>> /\ SpacesSound'
    <3>1. CASE \E key \in SpaceKeys : AskSpace(key[1], key[2])
      <4>1. PICK space, context : AskSpace(space, context)
        BY <3>1
      <4>2. PICK key : key = <<space, context>>
        OBVIOUS
      <4>3. /\ request = Idle /\ ~Has(cache, key) /\ Resolve(key)
            /\ UNCHANGED <<index, cells, failures>>
        BY <4>1, <4>2 DEF AskSpace
      <4>. QED  BY <1>1, <4>3, ResolveStep
    <3>2. CASE \E jcid \in RootJcids : StartSearch(jcid)
      BY <1>1, <3>2, SpacesStay DEF StartSearch
    <3>. QED  BY <1>3, <3>1, <3>2 DEF AskForSpace
  <2>3. PropertiesSound'
    BY <1>1, <2>1, <2>2, PropertiesStay DEF propertyVars
  <2>4. AskingSound'
    BY <1>1, <2>1, <2>2, RequestsAssumption DEF Asking, AskingSound, Untouched
  <2>. QED  BY <1>1, <2>1, <2>2, <2>3, <2>4, IndexerStays DEF Safe, IInv
<1>4. CASE AskForSet
  <2>1. Asking /\ requests' = requests + 1 /\ Untouched
    BY <1>4 DEF AskForSet
  <2>2. PropertiesSound' /\ UNCHANGED <<index, resolverVars>>
    BY <1>1, <1>4, OpenSetStep, OpenChildStep DEF AskForSet
  <2>3. SpacesSound'
    BY <1>1, <2>2, SpacesStay DEF resolverVars
  <2>4. AskingSound'
    BY <1>1, <2>1, <2>2, RequestsAssumption DEF Asking, AskingSound, Untouched, resolverVars
  <2>. QED  BY <1>1, <2>1, <2>2, <2>3, <2>4, IndexerStays DEF Safe, IInv
<1>5. CASE Resolving
  <2>1. phase = "done" /\ Untouched /\ UNCHANGED requests
    BY <1>5 DEF Resolving
  <2>2. /\ SpacesSound' /\ PropertiesSound' /\ UNCHANGED <<index, cells>>
        /\ failures' \in Nat /\ failures' <= MaxFailures
    <3>1. CASE ResolverNext /\ UNCHANGED propertyVars
      <4>1. SpacesSound' /\ UNCHANGED <<index, cells>>
        BY <1>1, <3>1, ResolverStep
      <4>2. PropertiesSound'
        BY <1>1, <3>1, <4>1, PropertiesStay DEF propertyVars
      <4>3. failures' = failures \/ (failures' = failures + 1 /\ failures < MaxFailures)
        BY <3>1 DEF ResolverNext, WalkChain, EndChain, ApplyRevision, RememberSpace, ResolveFails,
           SearchAsks, SearchMoves
      <4>. QED  BY <1>1, <4>1, <4>2, <4>3, FailuresAssumption DEF AskingSound
    <3>2. CASE WalkProperty \/ EndWalk
      <4>1. PropertiesSound' /\ UNCHANGED <<index, resolverVars>>
        BY <1>1, <3>2, WalkPropertyStep, EndWalkStep
      <4>2. SpacesSound'
        BY <1>1, <4>1, SpacesStay DEF resolverVars
      <4>. QED  BY <1>1, <4>1, <4>2 DEF resolverVars, AskingSound
    <3>3. CASE WalkFails
      <4>1. PropertiesSound' /\ UNCHANGED <<index, cells, slots, cache, request, search>>
        BY <1>1, <3>3, WalkFailsStep
      <4>2. SpacesSound'
        BY <1>1, <4>1, SpacesStay
      <4>3. failures' = failures + 1 /\ failures < MaxFailures
        BY <3>3 DEF WalkFails
      <4>. QED  BY <1>1, <4>1, <4>2, <4>3, FailuresAssumption DEF AskingSound
    <3>. QED  BY <1>5, <3>1, <3>2, <3>3 DEF Resolving, PropertyNext
  <2>3. AskingSound'
    BY <1>1, <2>1, <2>2 DEF AskingSound, Untouched
  <2>. QED  BY <1>1, <2>1, <2>2, <2>3, IndexerStays DEF Safe, IInv
<1>6. CASE EndSearch
  <2>1. /\ UNCHANGED <<index, cells, slots, cache, request, failures, propertyVars, requests>>
        /\ Untouched /\ search' = NotSearching /\ SearchDone
    BY <1>6 DEF EndSearch
  <2>2. SpacesSound' /\ PropertiesSound'
    BY <1>1, <2>1, SpacesStay, PropertiesStay DEF propertyVars
  <2>3. AskingSound'
    BY <1>1, <2>1 DEF AskingSound, Untouched, Unasked, propertyVars
  <2>. QED  BY <1>1, <2>1, <2>2, <2>3, IndexerStays DEF Safe, IInv
<1>7. CASE UNCHANGED sectionVars
  <2>1. /\ UNCHANGED <<index, cells, slots, cache, request, search, failures, requests>>
        /\ UNCHANGED <<kept, setSlots, walk, views>> /\ Untouched
    BY <1>7 DEF sectionVars, vars, resolverVars, propertyVars, Untouched
  <2>2. SpacesSound' /\ PropertiesSound'
    BY <1>1, <2>1, SpacesStay, PropertiesStay
  <2>3. AskingSound'
    BY <1>1, <2>1 DEF AskingSound, Untouched, Unasked
  <2>. QED  BY <1>1, <2>1, <2>2, <2>3, IndexerStays DEF Safe, IInv
<1>. QED  BY <1>2, <1>3, <1>4, <1>5, <1>6, <1>7 DEF Next

LEMMA SectionStarts == Init => IInv
<1>. SUFFICES ASSUME Init PROVE IInv
  OBVIOUS
<1>1. /\ file \in Files /\ index = EmptyIndex("revision-store") /\ phase = "log"
      /\ log = [at |-> file.log.start, pos |-> 0, completed |-> 0, seen |-> {},
                count |-> 0, entries |-> 0, crc |-> 0]
      /\ counts = <<>> /\ frames = <<>> /\ fault = Ok
      /\ totals = [nodes |-> 0, associations |-> 0, assets |-> 0]
  BY DEF Init, IndexInit
<1>2. Unasked /\ cells = <<>> /\ failures = 0 /\ requests = 0
  BY DEF Init, ResolverInit, PropertyInit, Unasked
<1>3. AskingSound
  BY <1>2, FailuresAssumption, RequestsAssumption DEF AskingSound
<1>4. PhaseSound
  BY <1>1 DEF PhaseSound, Ok
<1>5. LogSound
  BY <1>1, EmptySequence, FilesAssumption DEF LogSound
<1>6. ListsSound
  BY <1>1, EmptySequence, NestingAssumption DEF ListsSound
<1>7. TotalsSound
  BY <1>1, ReaderOptions DEF TotalsSound
<1>8. TablesSound
  <2>1. /\ index.encoding = "revision-store" /\ index.objects = <<>> /\ index.revisions = <<>>
    BY <1>1 DEF EmptyIndex
  <2>2. ObjectsSound(index) /\ RolesOrdered(index, totals.associations)
    BY <2>1, EmptySequence, ReaderOptions DEF ObjectsSound, RolesOrdered
  <2>3. IndexSound(index)
    BY <1>1, EmptyIndexSound
  <2>. QED  BY <2>1, <2>2, <2>3 DEF TablesSound, TablesHold
<1>. QED  BY <1>2, <1>3, <1>4, <1>5, <1>6, <1>7, <1>8, NothingAnswered DEF IInv, IndexerSound

(* The inductive invariant: the tables fit together and what is associated *)
(* is numbered apart, an open list has given what it may, nothing has been *)
(* asked before the index is finished, and what is remembered of an answer *)
(* is whole.                                                               *)
THEOREM SectionInvariant == Spec => []IInv
<1>1. IInv /\ [Next]_sectionVars => IInv'
  BY SectionStep
<1>. QED  BY <1>1, SectionStarts, PTL DEF Spec

(* The list that is read is one of a chain that nests so far and no        *)
(* further, in a scope there is; no total passes its limit, and a reading  *)
(* has failed exactly when there is an error to report.                    *)
THEOREM SectionTypes == Spec => []TypeOK
<1>1. IInv => TypeOK
  <2>. SUFFICES ASSUME IInv PROVE TypeOK
    OBVIOUS
  <2>1. IndexerSound /\ AskingSound /\ PropertiesSound
    BY DEF IInv
  <2>2. \A i \in DOMAIN frames :
          /\ frames[i].revision \in 0..Len(index.revisions)
          /\ phase = "walk" => frames[i].scope \in DOMAIN index.scopes
    BY <2>1 DEF IndexerSound, ListsSound, FrameSound
  <2>3. /\ phase \in {"log", "root", "walk", "done", "failed"} /\ (phase = "failed" <=> fault # Ok)
        /\ Len(frames) <= MaxNesting /\ Len(index.objects) <= MaxObjects
        /\ totals.nodes <= MaxFileNodes /\ totals.assets <= MaxTotalAssetBytes
    BY <2>1 DEF IndexerSound, PhaseSound, ListsSound, TotalsSound, TablesSound, TablesHold,
       ObjectsSound
  <2>4. InWalk => walk.slot = setSlots /\ walk.position \in 1..walk.count + 1
    BY <2>1 DEF PropertiesSound, WalkSound
  <2>5. failures <= MaxFailures /\ requests <= MaxRequests
    BY <2>1 DEF AskingSound
  <2>. QED  BY <2>2, <2>3, <2>4, <2>5 DEF TypeOK
<1>. QED  BY <1>1, SectionInvariant, PTL

(* What an identifier finds is the last that was added with it, and a      *)
(* revision lists the objects that are its own.                            *)
THEOREM TablesFit == Spec => []TablesAgree
<1>1. IInv => TablesAgree
  BY DEF IInv, IndexerSound, TablesSound, TablesHold, IndexSound, TablesAgree
<1>. QED  BY <1>1, SectionInvariant, PTL

(* A list gives no node that the log has not committed, however its chain  *)
(* of fragments runs.                                                      *)
THEOREM OnlyTheCommitted == Spec => []NothingUncommitted
<1>1. IInv => NothingUncommitted
  BY DEF IInv, IndexerSound, ListsSound, FrameSound, NothingUncommitted
<1>. QED  BY <1>1, SectionInvariant, PTL

(* What is remembered of a space is the chain of its current revision,     *)
(* replayed whole, or that it has none: a failure half way is not taken    *)
(* for an answer.                                                          *)
THEOREM RememberedWhole == Spec => []SpacesAreWhole
<1>1. IInv => SpacesAreWhole
  BY DEF IInv, SpacesSound
<1>. QED  BY <1>1, SectionInvariant, PTL

(* No two revisions of a space are associated latest with one context.     *)
THEOREM OneLatest == Spec => []OneIsCurrent
<1>1. IInv => OneIsCurrent
  <2>. SUFFICES ASSUME IInv PROVE OneIsCurrent
    OBVIOUS
  <2>1. RolesOrdered(index, totals.associations) /\ index.encoding = "revision-store"
        /\ totals.associations \in Nat
    BY DEF IInv, IndexerSound, TablesSound, TablesHold, TotalsSound
  <2>2. ~Packaged
    BY <2>1 DEF Packaged
  <2>3. \A i : AssociationsOf(i) = index.revisions[i].roles
    BY <2>2 DEF AssociationsOf, RoleAssociationsOf, RevisionAt
  <2>4. OrdersDistinct
    BY <2>1, <2>3 DEF OrdersDistinct, RolesOrdered
  <2>. QED  BY <2>4, LatestIsOne
<1>. QED  BY <1>1, SectionInvariant, PTL

(* A view that is answered says the last of every identifier of its set,   *)
(* knows no other identifier, and has its slot for itself.                 *)
THEOREM ViewsSayTheLast == Spec => []ViewsAreWhole
<1>1. IInv => ViewsAreWhole
  BY DEF IInv, PropertiesSound
<1>. QED  BY <1>1, SectionInvariant, PTL

(* What an indexed object says, and what a CompactID of it stands for, is  *)
(* what it was when it was first met.                                      *)
THEOREM IdentifiersAreKept == Spec => IdentifiersStay
<1>1. IInv /\ [Next]_sectionVars =>
        [/\ \A o \in DOMAIN index.objects :
              o \in DOMAIN index'.objects /\ index'.objects[o] = index.objects[o]
         /\ \A s \in DOMAIN index.scopes : \A i \in DOMAIN index.scopes[s] :
              /\ s \in DOMAIN index'.scopes /\ i \in DOMAIN index'.scopes[s]
              /\ index'.scopes[s][i] = index.scopes[s][i]]_sectionVars
  BY SectionStep DEF Keeps
<1>. QED  BY <1>1, SectionInvariant, PTL DEF Spec, IdentifiersStay

=============================================================================
