------------------------- MODULE SpaceResolverProofs -------------------------
(***************************************************************************)
(* What the operations of the index keep true of its tables, and what the  *)
(* resolver keeps true of the spaces it remembers, whoever filled the      *)
(* index: the proofs of both encodings' sections rest on these.            *)
(***************************************************************************)
EXTENDS SpaceResolver, SequenceTheorems, WellFoundedInduction, TLAPS

IndexFields == {"encoding", "revisions", "objects", "fileData", "revisionByGuid",
                "objectByGuid", "fileDataByKey", "scopes"}
RevisionFields == {"id", "dependency", "role", "encrypted", "context", "space", "roots",
                   "roles", "objects"}

IndexShape(ix) ==
  /\ DOMAIN ix = IndexFields
  /\ Sequential(ix.revisions) /\ Sequential(ix.objects) /\ Sequential(ix.fileData)
  /\ Sequential(ix.scopes)
  /\ \A r \in DOMAIN ix.revisions :
       /\ DOMAIN ix.revisions[r] = RevisionFields
       /\ Sequential(ix.revisions[r].objects) /\ Sequential(ix.revisions[r].roles)
  /\ \A i \in DOMAIN ix.fileData : DOMAIN ix.fileData[i] = {"key", "payload"}

IndexSound(ix) == IndexShape(ix) /\ ListsItsOwn(ix) /\ FindsByIdentifier(ix)

(* Where a request stands: the chain so far is linked, and what has been   *)
(* applied of it is replayed.                                              *)
RequestSound ==
  request /= Idle =>
    /\ DOMAIN request = {"step", "key", "slot", "revision", "next", "position"}
    /\ request.step \in {"chain", "apply"}
    /\ request.revision = Current(request.key[1], request.key[2])
    /\ request.revision /= NoRevision
    /\ request.slot \in DOMAIN slots
    /\ \A key \in DOMAIN cache : cache[key].slot /= request.slot
    /\ Linked(Chain)
    /\ request.step = "chain" =>
         /\ slots[request.slot].objects = <<>> /\ slots[request.slot].roots = <<>>
         /\ request.next \in 0..Len(index.revisions)
         /\ request.next = IF Chain = <<>> THEN request.revision ELSE Next0(Chain[Len(Chain)])
    /\ Chain /= <<>> => Chain[1] = request.revision
    /\ request.step = "apply" =>
         /\ Chain /= <<>> /\ Ended(Chain)
         /\ request.position \in 0..Len(Chain)
         /\ Replayed(slots[request.slot], request.position)

SlotsSound ==
  /\ Sequential(slots)
  /\ \A s \in DOMAIN slots : DOMAIN slots[s] = {"chain", "objects", "roots"}
  /\ \A key \in DOMAIN cache : cache[key].slot \in 0..Len(slots)

-----------------------------------------------------------------------------
(* Sequences, and the tables the tables are made of. *)

LEMMA EmptySequence == Sequential(<<>>) /\ Len(<<>>) = 0 /\ DOMAIN <<>> = {}
BY DEF Sequential

LEMMA SequentialIsSeq ==
  ASSUME NEW s, Sequential(s)
  PROVE  /\ Len(s) \in Nat /\ DOMAIN s = 1..Len(s)
         /\ s \in Seq({s[i] : i \in 1..Len(s)})
<1>1. Len(s) \in Nat /\ DOMAIN s = 1..Len(s)
  BY DEF Sequential
<1>2. s \in [1..Len(s) -> {s[i] : i \in 1..Len(s)}]
  BY DEF Sequential
<1>. QED  BY <1>1, <1>2, SeqDef

LEMMA SeqIsSequential ==
  ASSUME NEW S, NEW s \in Seq(S)
  PROVE  Sequential(s)
BY LenProperties DEF Sequential

LEMMA AppendSequence ==
  ASSUME NEW s, NEW e, Sequential(s)
  PROVE  /\ Sequential(Append(s, e)) /\ Len(Append(s, e)) = Len(s) + 1
         /\ DOMAIN s = 1..Len(s) /\ DOMAIN Append(s, e) = 1..Len(s) + 1
         /\ \A i \in 1..Len(s) : Append(s, e)[i] = s[i]
         /\ Append(s, e)[Len(s) + 1] = e
<1> DEFINE S == {s[i] : i \in 1..Len(s)} \cup {e}
<1>1. s \in Seq(S) /\ e \in S
  <2>1. s \in Seq({s[i] : i \in 1..Len(s)}) /\ {s[i] : i \in 1..Len(s)} \subseteq S
    BY SequentialIsSeq
  <2> HIDE DEF S
  <2>2. s \in Seq(S)
    BY <2>1, SeqMonotonic
  <2>. QED  BY <2>2 DEF S
<1>2. Len(s) \in Nat /\ DOMAIN s = 1..Len(s)
  BY SequentialIsSeq
<1> HIDE DEF S
<1>3. /\ Append(s, e) \in Seq(S) /\ Len(Append(s, e)) = Len(s) + 1
      /\ \A i \in 1..Len(s) : Append(s, e)[i] = s[i]
      /\ Append(s, e)[Len(s) + 1] = e
  BY <1>1, AppendProperties
<1>4. Sequential(Append(s, e)) /\ DOMAIN Append(s, e) = 1..Len(Append(s, e))
  BY <1>3, SeqIsSequential, SequentialIsSeq
<1>. QED  BY <1>2, <1>3, <1>4

LEMMA ReplaceInSequence ==
  ASSUME NEW s, NEW n \in DOMAIN s, NEW e, Sequential(s)
  PROVE  LET t == [s EXCEPT ![n] = e]
         IN /\ Sequential(t) /\ Len(t) = Len(s) /\ DOMAIN t = DOMAIN s
            /\ \A i \in DOMAIN s : t[i] = IF i = n THEN e ELSE s[i]
<1> DEFINE S == {s[i] : i \in 1..Len(s)} \cup {e}
<1>1. s \in Seq(S) /\ e \in S /\ n \in 1..Len(s)
  <2>1. s \in Seq({s[i] : i \in 1..Len(s)}) /\ {s[i] : i \in 1..Len(s)} \subseteq S
    BY SequentialIsSeq
  <2> HIDE DEF S
  <2>2. s \in Seq(S)
    BY <2>1, SeqMonotonic
  <2>. QED  BY <2>2, SequentialIsSeq DEF S
<1> HIDE DEF S
<1>2. [s EXCEPT ![n] = e] \in Seq(S) /\ Len([s EXCEPT ![n] = e]) = Len(s)
  BY <1>1, ExceptSeq
<1>. QED  BY <1>2, SeqIsSequential

LEMMA FrontOfSequence ==
  ASSUME NEW s, Sequential(s), s # <<>>
  PROVE  Sequential(Front(s)) /\ Len(Front(s)) = Len(s) - 1 /\ Len(s) - 1 \in Nat
<1> DEFINE S == {s[i] : i \in 1..Len(s)}
<1>1. s \in Seq(S) /\ Len(s) \in Nat
  BY SequentialIsSeq
<1>2. Len(s) \in Nat \ {0}
  <2> HIDE DEF S
  <2>. QED  BY <1>1, EmptySeq
<1>3. \A i \in 1..Len(s) - 1 : s[i] \in S
  BY <1>1
<1>4. Front(s) \in Seq(S) /\ Len(Front(s)) = Len(s) - 1
  <2> HIDE DEF S
  <2> DEFINE n == Len(s) - 1
  <2>1. 1 \in Int /\ n \in Nat /\ \A i \in 1..n : s[i] \in S
    BY <1>2, <1>3
  <2>2. Front(s) = SubSeq(s, 1, n)
    BY DEF Front
  <2> HIDE DEF n
  <2>3. SubSeq(s, 1, n) \in Seq(S) /\ Len(SubSeq(s, 1, n)) = IF 1 <= n THEN n - 1 + 1 ELSE 0
    BY <2>1, SubSeqProperties
  <2>4. Front(s) \in Seq(S) /\ Len(Front(s)) = n
    BY <2>1, <2>2, <2>3
  <2>. QED  BY <2>4 DEF n
<1>. QED  BY <1>2, <1>4, SeqIsSequential

LEMMA WithEntryTable ==
  ASSUME NEW table, NEW key, NEW value
  PROVE  /\ DOMAIN WithEntry(table, key, value) = DOMAIN table \cup {key}
         /\ WithEntry(table, key, value)[key] = value
         /\ \A k \in DOMAIN table : k # key => WithEntry(table, key, value)[k] = table[k]
BY DEF WithEntry

\* A set of numbers up to n has a greatest.
LEMMA LastOf ==
  ASSUME NEW n \in Nat, NEW S, S \subseteq 1..n, S # {}
  PROVE  Max(S) \in S /\ \A m \in S : m <= Max(S)
<1> DEFINE R == {d \in Nat \X Nat : d[1] < d[2]}
           T == {n - m : m \in S}
<1>1. IsWellFoundedOn(R, Nat)
  BY NatLessThanWellFounded DEF OpToRel
<1>2. T \subseteq Nat /\ T # {}
  <2>1. \A m \in S : m \in Int /\ n - m \in Nat
    OBVIOUS
  <2>. QED  BY <2>1
<1>3. \A k, m \in Nat : <<k, m>> \in R <=> k < m
  OBVIOUS
<1> HIDE DEF R
<1>4. \E k \in T : \A m \in T : <<m, k>> \notin R
  <2> HIDE DEF T
  <2>. QED  BY <1>1, <1>2, WFMin
<1>5. PICK m \in S : \A k \in S : ~(n - k < n - m)
  BY <1>2, <1>3, <1>4
<1>6. \A k \in S : m >= k
  BY <1>5
<1>. QED  BY <1>6 DEF Max

LEMMA RangeOfAppend ==
  ASSUME NEW s, NEW e, Sequential(s)
  PROVE  Range(Append(s, e)) = Range(s) \cup {e}
<1> DEFINE longer == Append(s, e)
           n == Len(s)
<1>1. /\ DOMAIN s = 1..n /\ DOMAIN longer = 1..n + 1 /\ n \in Nat
      /\ \A i \in 1..n : longer[i] = s[i]
      /\ longer[n + 1] = e
  BY AppendSequence DEF Sequential
<1> HIDE DEF longer, n
<1>2. Range(longer) \subseteq Range(s) \cup {e}
  BY <1>1 DEF Range
<1>3. Range(s) \subseteq Range(longer)
  BY <1>1 DEF Range
<1>4. e \in Range(longer)
  <2>1. n + 1 \in DOMAIN longer
    BY <1>1
  <2>. QED  BY <1>1, <2>1 DEF Range
<1>. QED  BY <1>2, <1>3, <1>4 DEF longer

LEMMA ConcatOne ==
  ASSUME NEW s, NEW e, Sequential(s)
  PROVE  s \o <<e>> = Append(s, e) /\ s \o <<>> = s
<1> DEFINE S == {s[i] : i \in 1..Len(s)} \cup {e}
<1>1. s \in Seq(S) /\ e \in S
  <2>1. s \in Seq({s[i] : i \in 1..Len(s)}) /\ {s[i] : i \in 1..Len(s)} \subseteq S
    BY SequentialIsSeq
  <2> HIDE DEF S
  <2>2. s \in Seq(S)
    BY <2>1, SeqMonotonic
  <2>. QED  BY <2>2 DEF S
<1> HIDE DEF S
<1>2. s \o <<>> = s
  BY <1>1, ConcatEmptySeq
<1>3. s \o <<e>> = Append(s, e)
  BY <1>1, AppendIsConcat
<1>. QED  BY <1>2, <1>3

-----------------------------------------------------------------------------
(* What the operations of the index keep. *)

\* A row more, found by its identifier from now on.
LEMMA FindsOneMore ==
  ASSUME NEW n \in Nat, NEW rows, NEW table, DOMAIN rows = 1..n, FindsTheLast(rows, table),
         NEW longer, DOMAIN longer = 1..n + 1, \A i \in 1..n : longer[i] = rows[i],
         NEW after, after = WithEntry(table, longer[n + 1], n + 1)
  PROVE  FindsTheLast(longer, after)
<1> DEFINE new == longer[n + 1]
<1>1. /\ DOMAIN after = DOMAIN table \cup {new} /\ after[new] = n + 1
      /\ \A id \in DOMAIN table : id # new => after[id] = table[id]
  BY DEF WithEntry
<1>2. ASSUME NEW id \in DOMAIN after
      PROVE  after[id] \in DOMAIN longer /\ longer[after[id]] = id
  <2>1. CASE id = new
    BY <1>1, <2>1
  <2>2. CASE id # new
    <3>1. after[id] = table[id] /\ table[id] \in 1..n /\ rows[table[id]] = id
      BY <1>1, <2>2 DEF FindsTheLast
    <3>. QED  BY <3>1
  <2>. QED  BY <2>1, <2>2
<1>3. ASSUME NEW i \in DOMAIN longer
      PROVE  longer[i] \in DOMAIN after /\ i <= after[longer[i]]
  <2>1. CASE longer[i] = new
    BY <1>1, <2>1
  <2>2. CASE longer[i] # new
    <3>1. i \in 1..n /\ longer[i] = rows[i]
      BY <2>2
    <3>2. rows[i] \in DOMAIN table /\ i <= table[rows[i]]
      BY <3>1 DEF FindsTheLast
    <3>. QED  BY <1>1, <2>2, <3>1, <3>2
  <2>. QED  BY <2>1, <2>2
<1>. QED  BY <1>2, <1>3 DEF FindsTheLast

LEMMA EmptyIndexSound == \A encoding : IndexSound(EmptyIndex(encoding))
<1>. SUFFICES ASSUME NEW encoding PROVE IndexSound(EmptyIndex(encoding))
  OBVIOUS
<1> DEFINE ix == EmptyIndex(encoding)
<1>1. /\ DOMAIN ix = IndexFields
      /\ ix.revisions = <<>> /\ ix.objects = <<>> /\ ix.fileData = <<>> /\ ix.scopes = <<>>
      /\ ix.revisionByGuid = <<>> /\ ix.objectByGuid = <<>> /\ ix.fileDataByKey = <<>>
  BY DEF EmptyIndex, IndexFields
<1> HIDE DEF ix
<1>2. IndexShape(ix)
  BY <1>1, EmptySequence DEF IndexShape
<1>3. ListsItsOwn(ix)
  BY <1>1, EmptySequence DEF ListsItsOwn
<1>4. FindsByIdentifier(ix)
  BY <1>1, EmptySequence DEF FindsByIdentifier, FindsTheLast
<1>. QED  BY <1>2, <1>3, <1>4 DEF IndexSound, ix

LEMMA AddRevisionSound ==
  ASSUME NEW ix, IndexSound(ix), NEW id, NEW dependency, NEW role, NEW encrypted, NEW context,
         NEW space
  PROVE  LET after == AddRevision(ix, id, dependency, role, encrypted, context, space)
             n == Len(ix.revisions)
         IN /\ IndexSound(after)
            /\ Len(after.revisions) = n + 1 /\ DOMAIN after.revisions = 1..n + 1
            /\ \A r \in DOMAIN ix.revisions :
                 r \in DOMAIN after.revisions /\ after.revisions[r] = ix.revisions[r]
            /\ after.revisions[n + 1].id = id /\ after.revisions[n + 1].space = space
            /\ after.revisions[n + 1].roles = <<>>
            /\ after.objects = ix.objects /\ after.scopes = ix.scopes
            /\ after.encoding = ix.encoding
<1> DEFINE new == [id |-> id, dependency |-> dependency, role |-> role,
                   encrypted |-> encrypted, context |-> context, space |-> space,
                   roots |-> <<>>, roles |-> <<>>, objects |-> <<>>]
           after == AddRevision(ix, id, dependency, role, encrypted, context, space)
           n == Len(ix.revisions)
<1>1. DOMAIN ix = IndexFields /\ Sequential(ix.revisions) /\ n \in Nat
      /\ DOMAIN ix.revisions = 1..n
  BY SequentialIsSeq DEF IndexSound, IndexShape
<1>2. /\ new.id = id /\ new.space = space /\ new.roles = <<>> /\ new.objects = <<>>
      /\ DOMAIN new = RevisionFields
  BY DEF RevisionFields
<1>3. /\ after.revisions = Append(ix.revisions, new) /\ DOMAIN after = IndexFields
      /\ after.revisionByGuid = WithEntry(ix.revisionByGuid, id, n + 1)
      /\ after.objects = ix.objects /\ after.fileData = ix.fileData
      /\ after.scopes = ix.scopes /\ after.encoding = ix.encoding
      /\ after.objectByGuid = ix.objectByGuid /\ after.fileDataByKey = ix.fileDataByKey
  BY <1>1 DEF AddRevision, IndexFields
<1> HIDE DEF new, after
<1>4. /\ Sequential(after.revisions) /\ Len(after.revisions) = n + 1
      /\ DOMAIN after.revisions = 1..n + 1
      /\ \A r \in 1..n : after.revisions[r] = ix.revisions[r]
      /\ after.revisions[n + 1] = new
  BY <1>1, <1>3, AppendSequence
<1> HIDE DEF n
<1>5. IndexShape(after)
  <2>1. \A r \in DOMAIN after.revisions :
          /\ DOMAIN after.revisions[r] = RevisionFields
          /\ Sequential(after.revisions[r].objects) /\ Sequential(after.revisions[r].roles)
    BY <1>1, <1>2, <1>4, EmptySequence DEF IndexSound, IndexShape
  <2>. QED  BY <1>3, <1>4, <2>1 DEF IndexSound, IndexShape
<1>6. ListsItsOwn(after)
  <2>1. Range(ObjectsOf(after, n + 1)) = {}
    BY <1>2, <1>4, EmptySequence DEF ObjectsOf, RevisionAt, Range
  <2>2. \A r \in 1..n : ObjectsOf(after, r) = ObjectsOf(ix, r)
    BY <1>4 DEF ObjectsOf, RevisionAt
  <2>. QED  BY <1>1, <1>3, <1>4, <2>1, <2>2 DEF IndexSound, ListsItsOwn
<1>7. FindsByIdentifier(after)
  <2> DEFINE rows == [r \in DOMAIN ix.revisions |-> ix.revisions[r].id]
             longer == [r \in DOMAIN after.revisions |-> after.revisions[r].id]
  <2>1. /\ DOMAIN rows = 1..n /\ DOMAIN longer = 1..n + 1
        /\ \A r \in 1..n : longer[r] = rows[r]
        /\ longer[n + 1] = id
    BY <1>1, <1>2, <1>4
  <2>2. FindsTheLast(rows, ix.revisionByGuid)
    BY DEF IndexSound, FindsByIdentifier
  <2> HIDE DEF rows, longer
  <2>3. FindsTheLast(longer, after.revisionByGuid)
    BY <1>1, <1>3, <2>1, <2>2, FindsOneMore
  <2>. QED  BY <1>3, <2>3 DEF IndexSound, FindsByIdentifier, longer
<1>. QED  BY <1>1, <1>2, <1>3, <1>4, <1>5, <1>6, <1>7 DEF IndexSound, after, n

\* A revision is changed in its roots or its associations.
LEMMA ChangeRevisionSound ==
  ASSUME NEW ix, IndexSound(ix), NEW revision \in DOMAIN ix.revisions, NEW changed,
         DOMAIN changed = RevisionFields, changed.id = ix.revisions[revision].id,
         changed.objects = ix.revisions[revision].objects, Sequential(changed.roles),
         NEW after, DOMAIN after = IndexFields,
         after.revisions = [ix.revisions EXCEPT ![revision] = changed],
         after.revisionByGuid = ix.revisionByGuid, after.objects = ix.objects,
         after.objectByGuid = ix.objectByGuid, after.fileData = ix.fileData,
         after.fileDataByKey = ix.fileDataByKey, after.scopes = ix.scopes
  PROVE  /\ IndexSound(after)
         /\ Len(after.revisions) = Len(ix.revisions) /\ DOMAIN after.revisions = DOMAIN ix.revisions
         /\ \A r \in DOMAIN ix.revisions :
              after.revisions[r] = IF r = revision THEN changed ELSE ix.revisions[r]
<1>1. /\ Sequential(after.revisions) /\ Len(after.revisions) = Len(ix.revisions)
      /\ DOMAIN after.revisions = DOMAIN ix.revisions
      /\ \A r \in DOMAIN ix.revisions :
           after.revisions[r] = IF r = revision THEN changed ELSE ix.revisions[r]
  BY ReplaceInSequence DEF IndexSound, IndexShape
<1>2. \A r \in DOMAIN ix.revisions : /\ after.revisions[r].id = ix.revisions[r].id
                                     /\ ObjectsOf(after, r) = ObjectsOf(ix, r)
  BY <1>1 DEF ObjectsOf, RevisionAt
<1>3. IndexShape(after)
  BY <1>1 DEF IndexSound, IndexShape
<1>4. ListsItsOwn(after)
  BY <1>1, <1>2 DEF IndexSound, ListsItsOwn
<1>5. FindsByIdentifier(after)
  <2>1. [r \in DOMAIN after.revisions |-> after.revisions[r].id]
          = [r \in DOMAIN ix.revisions |-> ix.revisions[r].id]
    BY <1>1, <1>2
  <2>. QED  BY <2>1 DEF IndexSound, FindsByIdentifier
<1>. QED  BY <1>1, <1>3, <1>4, <1>5 DEF IndexSound

LEMMA AddRootSound ==
  ASSUME NEW ix, IndexSound(ix), NEW revision \in DOMAIN ix.revisions, NEW object, NEW role
  PROVE  LET after == AddRootObject(ix, revision, object, role)
         IN /\ IndexSound(after) /\ Len(after.revisions) = Len(ix.revisions)
            /\ DOMAIN after.revisions = DOMAIN ix.revisions
            /\ \A r \in DOMAIN ix.revisions : /\ after.revisions[r].roles = ix.revisions[r].roles
                                              /\ after.revisions[r].space = ix.revisions[r].space
            /\ after.objects = ix.objects /\ after.scopes = ix.scopes
            /\ after.encoding = ix.encoding
<1> DEFINE after == AddRootObject(ix, revision, object, role)
           roots == Append(ix.revisions[revision].roots, [object |-> object, role |-> role])
           changed == [ix.revisions[revision] EXCEPT !.roots = roots]
<1>1. /\ DOMAIN ix = IndexFields /\ Sequential(ix.revisions)
      /\ DOMAIN ix.revisions[revision] = RevisionFields
      /\ Sequential(ix.revisions[revision].roles)
  BY DEF IndexSound, IndexShape
<1>2. /\ changed.id = ix.revisions[revision].id
      /\ changed.objects = ix.revisions[revision].objects
      /\ changed.roles = ix.revisions[revision].roles
      /\ changed.space = ix.revisions[revision].space
      /\ DOMAIN changed = RevisionFields
  BY <1>1 DEF RevisionFields
<1>3. /\ after.revisions = [ix.revisions EXCEPT ![revision] = changed]
      /\ DOMAIN after = IndexFields /\ after.revisionByGuid = ix.revisionByGuid
      /\ after.objects = ix.objects /\ after.fileData = ix.fileData
      /\ after.scopes = ix.scopes /\ after.encoding = ix.encoding
      /\ after.objectByGuid = ix.objectByGuid /\ after.fileDataByKey = ix.fileDataByKey
  BY <1>1 DEF AddRootObject, IndexFields
<1> HIDE DEF after, changed
<1>4. /\ IndexSound(after)
      /\ Len(after.revisions) = Len(ix.revisions) /\ DOMAIN after.revisions = DOMAIN ix.revisions
      /\ \A r \in DOMAIN ix.revisions :
           after.revisions[r] = IF r = revision THEN changed ELSE ix.revisions[r]
  BY <1>1, <1>2, <1>3, ChangeRevisionSound
<1>. QED  BY <1>2, <1>3, <1>4 DEF after

LEMMA AddRoleSound ==
  ASSUME NEW ix, IndexSound(ix), NEW revision \in DOMAIN ix.revisions, NEW context, NEW role,
         NEW order
  PROVE  LET after == AddRoleAssociation(ix, revision, context, role, order)
         IN /\ IndexSound(after) /\ Len(after.revisions) = Len(ix.revisions)
            /\ DOMAIN after.revisions = DOMAIN ix.revisions
            /\ \A r \in DOMAIN ix.revisions :
                 /\ after.revisions[r].space = ix.revisions[r].space
                 /\ after.revisions[r].roles =
                      IF r = revision
                      THEN Append(ix.revisions[r].roles,
                                  [context |-> context, role |-> role, order |-> order])
                      ELSE ix.revisions[r].roles
            /\ after.objects = ix.objects /\ after.scopes = ix.scopes
            /\ after.encoding = ix.encoding
<1> DEFINE after == AddRoleAssociation(ix, revision, context, role, order)
           roles == Append(ix.revisions[revision].roles,
                           [context |-> context, role |-> role, order |-> order])
           changed == [ix.revisions[revision] EXCEPT !.roles = roles]
<1>1. /\ DOMAIN ix = IndexFields /\ Sequential(ix.revisions)
      /\ DOMAIN ix.revisions[revision] = RevisionFields
      /\ Sequential(ix.revisions[revision].roles)
  BY DEF IndexSound, IndexShape
<1>2. /\ changed.id = ix.revisions[revision].id
      /\ changed.objects = ix.revisions[revision].objects
      /\ changed.roles = roles
      /\ changed.space = ix.revisions[revision].space
      /\ DOMAIN changed = RevisionFields
  BY <1>1 DEF RevisionFields
<1>3. /\ after.revisions = [ix.revisions EXCEPT ![revision] = changed]
      /\ DOMAIN after = IndexFields /\ after.revisionByGuid = ix.revisionByGuid
      /\ after.objects = ix.objects /\ after.fileData = ix.fileData
      /\ after.scopes = ix.scopes /\ after.encoding = ix.encoding
      /\ after.objectByGuid = ix.objectByGuid /\ after.fileDataByKey = ix.fileDataByKey
  BY <1>1 DEF AddRoleAssociation, IndexFields
<1>4. Sequential(roles)
  BY <1>1, AppendSequence
<1> HIDE DEF after, changed, roles
<1>5. /\ IndexSound(after)
      /\ Len(after.revisions) = Len(ix.revisions) /\ DOMAIN after.revisions = DOMAIN ix.revisions
      /\ \A r \in DOMAIN ix.revisions :
           after.revisions[r] = IF r = revision THEN changed ELSE ix.revisions[r]
  BY <1>1, <1>2, <1>3, <1>4, ChangeRevisionSound
<1>. QED  BY <1>2, <1>3, <1>5 DEF after, roles

LEMMA AddFileDataSound ==
  ASSUME NEW ix, IndexSound(ix), NEW key, NEW payload
  PROVE  LET after == AddFileData(ix, key, payload)
         IN /\ IndexSound(after) /\ after.revisions = ix.revisions /\ after.objects = ix.objects
            /\ after.scopes = ix.scopes /\ after.encoding = ix.encoding
<1> DEFINE after == AddFileData(ix, key, payload)
           new == [key |-> key, payload |-> payload]
           n == Len(ix.fileData)
<1>1. DOMAIN ix = IndexFields /\ Sequential(ix.fileData) /\ n \in Nat
      /\ DOMAIN ix.fileData = 1..n
  BY SequentialIsSeq DEF IndexSound, IndexShape
<1>2. new.key = key /\ DOMAIN new = {"key", "payload"}
  OBVIOUS
<1>3. /\ after.fileData = Append(ix.fileData, new) /\ DOMAIN after = IndexFields
      /\ after.fileDataByKey = WithEntry(ix.fileDataByKey, key, n + 1)
      /\ after.objects = ix.objects /\ after.revisions = ix.revisions
      /\ after.scopes = ix.scopes /\ after.encoding = ix.encoding
      /\ after.objectByGuid = ix.objectByGuid /\ after.revisionByGuid = ix.revisionByGuid
  BY <1>1 DEF AddFileData, IndexFields
<1> HIDE DEF new, after
<1>4. /\ Sequential(after.fileData) /\ DOMAIN after.fileData = 1..n + 1
      /\ \A i \in 1..n : after.fileData[i] = ix.fileData[i]
      /\ after.fileData[n + 1] = new
  BY <1>1, <1>3, AppendSequence
<1> HIDE DEF n
<1>5. IndexShape(after)
  BY <1>1, <1>2, <1>3, <1>4 DEF IndexSound, IndexShape
<1>6. ListsItsOwn(after)
  BY <1>3 DEF IndexSound, ListsItsOwn, ObjectsOf, RevisionAt
<1>7. FindsByIdentifier(after)
  <2> DEFINE rows == [i \in DOMAIN ix.fileData |-> ix.fileData[i].key]
             longer == [i \in DOMAIN after.fileData |-> after.fileData[i].key]
  <2>1. /\ DOMAIN rows = 1..n /\ DOMAIN longer = 1..n + 1
        /\ \A i \in 1..n : longer[i] = rows[i]
        /\ longer[n + 1] = key
    BY <1>1, <1>2, <1>4
  <2>2. FindsTheLast(rows, ix.fileDataByKey)
    BY DEF IndexSound, FindsByIdentifier
  <2> HIDE DEF rows, longer
  <2>3. FindsTheLast(longer, after.fileDataByKey)
    BY <1>1, <1>3, <2>1, <2>2, FindsOneMore
  <2>. QED  BY <1>3, <2>3 DEF IndexSound, FindsByIdentifier, longer
<1>. QED  BY <1>3, <1>5, <1>6, <1>7 DEF IndexSound, after

LEMMA AddObjectSound ==
  ASSUME NEW ix, IndexSound(ix), NEW object,
         object.revision # NoRevision => object.revision \in DOMAIN ix.revisions
  PROVE  LET after == AddObject(ix, object)
             n == Len(ix.objects)
         IN /\ IndexSound(after)
            /\ Len(after.revisions) = Len(ix.revisions) /\ DOMAIN after.revisions = DOMAIN ix.revisions
            /\ \A r \in DOMAIN ix.revisions : /\ after.revisions[r].roles = ix.revisions[r].roles
                                              /\ after.revisions[r].space = ix.revisions[r].space
            /\ Len(after.objects) = n + 1 /\ DOMAIN after.objects = 1..n + 1
            /\ \A o \in DOMAIN ix.objects : o \in 1..n /\ after.objects[o] = ix.objects[o]
            /\ after.objects[n + 1] = object
            /\ after.scopes = ix.scopes /\ after.encoding = ix.encoding
<1> DEFINE after == AddObject(ix, object)
           n == Len(ix.objects)
<1>1. /\ DOMAIN ix = IndexFields /\ Sequential(ix.objects) /\ n \in Nat /\ DOMAIN ix.objects = 1..n
      /\ Sequential(ix.revisions) /\ NoRevision \notin DOMAIN ix.revisions
  BY SequentialIsSeq DEF IndexSound, IndexShape, NoRevision
<1>2. /\ after.objects = Append(ix.objects, object)
      /\ after.objectByGuid = WithEntry(ix.objectByGuid, object.id, n + 1)
      /\ DOMAIN after = IndexFields /\ after.revisionByGuid = ix.revisionByGuid
      /\ after.fileData = ix.fileData /\ after.fileDataByKey = ix.fileDataByKey
      /\ after.scopes = ix.scopes /\ after.encoding = ix.encoding
  BY <1>1 DEF AddObject, IndexFields
<1>3. /\ Sequential(after.objects) /\ Len(after.objects) = n + 1
      /\ DOMAIN after.objects = 1..n + 1
      /\ \A o \in 1..n : after.objects[o] = ix.objects[o]
      /\ after.objects[n + 1] = object
  BY <1>1, <1>2, AppendSequence
<1>4. /\ Sequential(after.revisions) /\ Len(after.revisions) = Len(ix.revisions)
      /\ DOMAIN after.revisions = DOMAIN ix.revisions
      /\ \A r \in DOMAIN ix.revisions :
           /\ after.revisions[r].id = ix.revisions[r].id
           /\ after.revisions[r].roles = ix.revisions[r].roles
           /\ after.revisions[r].space = ix.revisions[r].space
           /\ DOMAIN after.revisions[r] = RevisionFields
           /\ Sequential(after.revisions[r].objects)
           /\ Range(ObjectsOf(after, r)) =
                Range(ObjectsOf(ix, r)) \cup (IF r = object.revision THEN {n + 1} ELSE {})
  <2>1. CASE object.revision = NoRevision
    <3>1. after.revisions = ix.revisions
      BY <1>1, <2>1 DEF AddObject, IndexFields
    <3>. QED  BY <1>1, <2>1, <3>1 DEF IndexSound, IndexShape, ObjectsOf, RevisionAt
  <2>2. CASE object.revision # NoRevision
    <3> DEFINE r0 == object.revision
               listed == Append(ix.revisions[r0].objects, n + 1)
               changed == [ix.revisions[r0] EXCEPT !.objects = listed]
    <3>0. /\ r0 \in DOMAIN ix.revisions /\ DOMAIN ix.revisions[r0] = RevisionFields
          /\ Sequential(ix.revisions[r0].objects)
      BY <2>2 DEF IndexSound, IndexShape
    <3>1. /\ changed.id = ix.revisions[r0].id /\ changed.objects = listed
          /\ changed.roles = ix.revisions[r0].roles /\ changed.space = ix.revisions[r0].space
          /\ DOMAIN changed = RevisionFields
      BY <3>0 DEF RevisionFields
    <3>2. after.revisions = [ix.revisions EXCEPT ![r0] = changed]
      BY <1>1, <2>2 DEF AddObject, IndexFields
    <3>3. Sequential(listed)
      BY <3>0, AppendSequence
    <3> HIDE DEF after, changed, listed, n
    <3>4. Range(listed) = Range(ix.revisions[r0].objects) \cup {n + 1}
      BY <3>0, RangeOfAppend DEF listed
    <3>5. /\ Sequential(after.revisions) /\ Len(after.revisions) = Len(ix.revisions)
          /\ DOMAIN after.revisions = DOMAIN ix.revisions
          /\ \A r \in DOMAIN ix.revisions :
               after.revisions[r] = IF r = r0 THEN changed ELSE ix.revisions[r]
      BY <1>1, <3>0, <3>2, ReplaceInSequence
    <3>6. ASSUME NEW r \in DOMAIN ix.revisions
          PROVE  /\ after.revisions[r].id = ix.revisions[r].id
                 /\ after.revisions[r].roles = ix.revisions[r].roles
                 /\ after.revisions[r].space = ix.revisions[r].space
                 /\ DOMAIN after.revisions[r] = RevisionFields
                 /\ Sequential(after.revisions[r].objects)
                 /\ Range(ObjectsOf(after, r)) =
                      Range(ObjectsOf(ix, r)) \cup (IF r = r0 THEN {n + 1} ELSE {})
      <4>1. CASE r = r0
        BY <3>1, <3>3, <3>4, <3>5, <4>1 DEF ObjectsOf, RevisionAt
      <4>2. CASE r # r0
        BY <3>5, <4>2 DEF IndexSound, IndexShape, ObjectsOf, RevisionAt
      <4>. QED  BY <4>1, <4>2
    <3>. QED  BY <3>5, <3>6
  <2>. QED  BY <2>1, <2>2
<1> HIDE DEF after
<1>5. IndexShape(after)
  BY <1>2, <1>3, <1>4 DEF IndexSound, IndexShape
<1> HIDE DEF n
<1>6. ListsItsOwn(after)
  <2>1. ASSUME NEW r \in DOMAIN after.revisions, NEW o \in Range(ObjectsOf(after, r))
        PROVE  o \in DOMAIN after.objects /\ after.objects[o].revision = r
    <3>1. CASE o \in Range(ObjectsOf(ix, r))
      BY <1>1, <1>3, <1>4, <3>1 DEF IndexSound, ListsItsOwn
    <3>2. CASE o = n + 1 /\ r = object.revision
      BY <1>1, <1>3, <3>2
    <3>. QED  BY <1>4, <3>1, <3>2
  <2>2. ASSUME NEW o \in DOMAIN after.objects, after.objects[o].revision # NoRevision
        PROVE  /\ after.objects[o].revision \in DOMAIN after.revisions
               /\ o \in Range(ObjectsOf(after, after.objects[o].revision))
    <3>1. CASE o \in 1..n
      BY <1>1, <1>3, <1>4, <2>2, <3>1 DEF IndexSound, ListsItsOwn
    <3>2. CASE o = n + 1
      BY <1>1, <1>3, <1>4, <2>2, <3>2
    <3>. QED  BY <1>1, <1>3, <3>1, <3>2
  <2>. QED  BY <2>1, <2>2 DEF ListsItsOwn
<1>7. FindsByIdentifier(after)
  <2> DEFINE rows == [o \in DOMAIN ix.objects |-> ix.objects[o].id]
             longer == [o \in DOMAIN after.objects |-> after.objects[o].id]
  <2>1. /\ DOMAIN rows = 1..n /\ DOMAIN longer = 1..n + 1
        /\ \A o \in 1..n : longer[o] = rows[o]
        /\ longer[n + 1] = object.id
    BY <1>1, <1>3
  <2>2. FindsTheLast(rows, ix.objectByGuid)
    BY DEF IndexSound, FindsByIdentifier
  <2> HIDE DEF rows, longer
  <2>3. FindsTheLast(longer, after.objectByGuid)
    BY <1>1, <1>2, <2>1, <2>2, FindsOneMore
  <2>4. [r \in DOMAIN after.revisions |-> after.revisions[r].id]
          = [r \in DOMAIN ix.revisions |-> ix.revisions[r].id]
    BY <1>4
  <2>. QED  BY <1>2, <2>3, <2>4 DEF IndexSound, FindsByIdentifier, longer
<1>. QED  BY <1>1, <1>2, <1>3, <1>4, <1>5, <1>6, <1>7 DEF IndexSound, after, n

LEMMA UpdateObjectSound ==
  ASSUME NEW ix, IndexSound(ix), NEW order \in DOMAIN ix.objects, NEW object,
         object.id = ix.objects[order].id, object.revision = ix.objects[order].revision
  PROVE  LET after == UpdateObject(ix, order, object)
         IN /\ IndexSound(after) /\ after.revisions = ix.revisions
            /\ DOMAIN after.objects = DOMAIN ix.objects /\ after.encoding = ix.encoding
            /\ \A o \in DOMAIN ix.objects :
                 after.objects[o] = IF o = order THEN object ELSE ix.objects[o]
<1> DEFINE after == UpdateObject(ix, order, object)
<1>1. DOMAIN ix = IndexFields /\ Sequential(ix.objects)
  BY DEF IndexSound, IndexShape
<1>2. /\ after.objects = [ix.objects EXCEPT ![order] = object] /\ DOMAIN after = IndexFields
      /\ after.revisions = ix.revisions /\ after.fileData = ix.fileData
      /\ after.objectByGuid = ix.objectByGuid /\ after.revisionByGuid = ix.revisionByGuid
      /\ after.fileDataByKey = ix.fileDataByKey /\ after.scopes = ix.scopes
      /\ after.encoding = ix.encoding
  BY <1>1 DEF UpdateObject, IndexFields
<1> HIDE DEF after
<1>3. /\ Sequential(after.objects) /\ DOMAIN after.objects = DOMAIN ix.objects
      /\ \A o \in DOMAIN ix.objects :
           after.objects[o] = IF o = order THEN object ELSE ix.objects[o]
  BY <1>1, <1>2, ReplaceInSequence
<1>4. \A o \in DOMAIN ix.objects : /\ after.objects[o].id = ix.objects[o].id
                                   /\ after.objects[o].revision = ix.objects[o].revision
  BY <1>3
<1>5. IndexShape(after)
  BY <1>2, <1>3 DEF IndexSound, IndexShape
<1>6. ListsItsOwn(after)
  BY <1>2, <1>3, <1>4 DEF IndexSound, ListsItsOwn, ObjectsOf, RevisionAt
<1>7. FindsByIdentifier(after)
  <2>1. [o \in DOMAIN after.objects |-> after.objects[o].id]
          = [o \in DOMAIN ix.objects |-> ix.objects[o].id]
    BY <1>3, <1>4
  <2>. QED  BY <1>2, <2>1 DEF IndexSound, FindsByIdentifier
<1>. QED  BY <1>2, <1>3, <1>5, <1>6, <1>7 DEF IndexSound, after

\* A scope is opened, and an identifier goes into one.
LEMMA ScopesSound ==
  ASSUME NEW ix, IndexSound(ix), NEW after, DOMAIN after = IndexFields,
         Sequential(after.scopes),
         \A field \in IndexFields \ {"scopes"} : after[field] = ix[field]
  PROVE  IndexSound(after)
<1>1. /\ after.revisions = ix.revisions /\ after.objects = ix.objects
      /\ after.fileData = ix.fileData /\ after.revisionByGuid = ix.revisionByGuid
      /\ after.objectByGuid = ix.objectByGuid /\ after.fileDataByKey = ix.fileDataByKey
  BY DEF IndexFields
<1>2. IndexShape(after)
  BY <1>1 DEF IndexSound, IndexShape
<1>3. ListsItsOwn(after) /\ FindsByIdentifier(after)
  BY <1>1 DEF IndexSound, ListsItsOwn, FindsByIdentifier, ObjectsOf, RevisionAt
<1>. QED  BY <1>2, <1>3 DEF IndexSound

-----------------------------------------------------------------------------
(* The resolver. *)

\* An identifier's last revision is one of its revisions.
LEMMA LastRevision ==
  ASSUME IndexSound(index), NEW id
  PROVE  /\ LastRevisionFor(id) = NoRevision \/ LastRevisionFor(id) \in OrdersFor(id)
         /\ OrdersFor(id) \subseteq DOMAIN index.revisions
         /\ LastRevisionFor(id) \in 0..Len(index.revisions)
<1>1. Len(index.revisions) \in Nat /\ DOMAIN index.revisions = 1..Len(index.revisions)
  BY SequentialIsSeq DEF IndexSound, IndexShape
<1>2. OrdersFor(id) \subseteq 1..Len(index.revisions)
  BY <1>1 DEF OrdersFor
<1>3. OrdersFor(id) # {} => Max(OrdersFor(id)) \in OrdersFor(id)
  BY <1>1, <1>2, LastOf
<1>. QED  BY <1>1, <1>2, <1>3 DEF LastRevisionFor, NoRevision

\* What the index and the cells decide does not change while they do not.
LEMMA SameRevisions ==
  ASSUME UNCHANGED <<index, cells>>
  PROVE  /\ \A r : Next0(r)' = Next0(r) /\ IdOf(r)' = IdOf(r)
         /\ \A space, context : Current(space, context)' = Current(space, context)
<1>1. \A r : Next0(r)' = Next0(r) /\ IdOf(r)' = IdOf(r)
  BY DEF Next0, LastRevisionFor, OrdersFor, RevisionAt, IdOf
<1>2. \A space, context : Current(space, context)' = Current(space, context)
  BY DEF Current, Latest, Claimants, Claims, SpaceOf, CellOf, AssociationsOf, IsEncrypted,
     Packaged, RevisionAt, RoleAssociationsOf
<1>. QED  BY <1>1, <1>2

LEMMA SameChains ==
  ASSUME UNCHANGED <<index, cells>>
  PROVE  /\ \A chain : (Linked(chain)' <=> Linked(chain)) /\ (Ended(chain)' <=> Ended(chain))
         /\ \A space, position : Replayed(space, position)' <=> Replayed(space, position)
         /\ \A space, current : Whole(space, current)' <=> Whole(space, current)
<1>1. \A chain : (Linked(chain)' <=> Linked(chain)) /\ (Ended(chain)' <=> Ended(chain))
  BY SameRevisions DEF Linked, Ended
<1>2. \A r : ObjectsNamed(r)' = ObjectsNamed(r) /\ RootsOf(r)' = RootsOf(r)
  BY DEF ObjectsNamed, RootsOf, OrdersFor, Declares, Declared, RevisionAt, ObjectsOf, ObjectAt,
     RootObjectsOf
<1>3. \A space, position : Replayed(space, position)' <=> Replayed(space, position)
  <2>1. NamedObjects' = NamedObjects /\ NamedRoots' = NamedRoots
    BY <1>2 DEF NamedObjects, NamedRoots
  <2>. QED  BY <2>1 DEF Replayed
<1>4. \A space, current : Whole(space, current)' <=> Whole(space, current)
  BY <1>1, <1>3 DEF Whole
<1>. QED  BY <1>1, <1>3, <1>4

\* One revision more: of what was said before, the newer one's stands.
LEMMA ReplayOne ==
  ASSUME NEW table, NEW chain, Len(chain) \in Nat, NEW position \in 1..Len(chain), NEW said,
         Replay(table, chain, position, said)
  PROVE  Replay(Overlay(said[chain[position]], table), chain, position - 1, said)
<1> DEFINE after == Overlay(said[chain[position]], table)
<1>1. /\ DOMAIN after = DOMAIN said[chain[position]] \cup DOMAIN table
      /\ \A id \in DOMAIN said[chain[position]] : after[id] = said[chain[position]][id]
      /\ \A id \in DOMAIN table : id \notin DOMAIN said[chain[position]] => after[id] = table[id]
  BY DEF Overlay, Has
<1>2. (position - 1) + 1..Len(chain) = {position} \cup (position + 1..Len(chain))
  OBVIOUS
<1> HIDE DEF after
<1>3. DOMAIN after = UNION {DOMAIN said[chain[k]] : k \in (position - 1) + 1..Len(chain)}
  BY <1>1, <1>2 DEF Replay
<1>4. ASSUME NEW k \in (position - 1) + 1..Len(chain), NEW id \in DOMAIN said[chain[k]],
             \A j \in (position - 1) + 1..k - 1 : id \notin DOMAIN said[chain[j]]
      PROVE  after[id] = said[chain[k]][id]
  <2>1. CASE k = position
    BY <1>1, <2>1
  <2>2. CASE k \in position + 1..Len(chain)
    <3>1. /\ \A j \in position + 1..k - 1 : id \notin DOMAIN said[chain[j]]
          /\ id \notin DOMAIN said[chain[position]]
      BY <1>4, <2>2
    <3>2. id \in DOMAIN table /\ table[id] = said[chain[k]][id]
      BY <2>2, <3>1 DEF Replay
    <3>. QED  BY <1>1, <3>1, <3>2
  <2>. QED  BY <1>2, <2>1, <2>2
<1>. QED  BY <1>3, <1>4 DEF Replay, after

\* The current revision of a space is a revision.
LEMMA CurrentRevision ==
  ASSUME IndexSound(index), NEW space, NEW context
  PROVE  /\ Current(space, context) \in 0..Len(index.revisions)
         /\ Current(space, context) # NoRevision
              => Current(space, context) \in DOMAIN index.revisions
<1>1. Len(index.revisions) \in Nat /\ DOMAIN index.revisions = 1..Len(index.revisions)
  BY SequentialIsSeq DEF IndexSound, IndexShape
<1>2. Latest(space, context) \subseteq 1..Len(index.revisions)
  BY <1>1 DEF Latest, Claimants
<1>3. Latest(space, context) # {} => Max(Latest(space, context)) \in Latest(space, context)
  BY <1>1, <1>2, LastOf
<1>. QED  BY <1>1, <1>2, <1>3 DEF Current, NoRevision

SpacesSound == SlotsSound /\ SpacesAreWhole /\ RequestSound

\* A slot that no remembered space holds can be given anything.
LEMMA SlotChanges ==
  ASSUME SpacesSound, UNCHANGED <<index, cells, cache>>, NEW slot \in DOMAIN slots, NEW space,
         DOMAIN space = {"chain", "objects", "roots"},
         \A key \in DOMAIN cache : cache[key].slot # slot,
         slots' = [slots EXCEPT ![slot] = space]
  PROVE  /\ SlotsSound' /\ SpacesAreWhole' /\ DOMAIN slots' = DOMAIN slots
         /\ slots'[slot] = space
<1>1. /\ Sequential(slots') /\ Len(slots') = Len(slots) /\ DOMAIN slots' = DOMAIN slots
      /\ \A s \in DOMAIN slots : slots'[s] = IF s = slot THEN space ELSE slots[s]
  BY ReplaceInSequence DEF SpacesSound, SlotsSound
<1>2. SlotsSound'
  BY <1>1 DEF SpacesSound, SlotsSound
<1>3. SpacesAreWhole'
  BY <1>1, SameRevisions, SameChains DEF SpacesSound, SpacesAreWhole
<1>. QED  BY <1>1, <1>2, <1>3

LEMMA ResolveStep ==
  ASSUME IndexSound(index), SpacesSound, UNCHANGED <<index, cells>>, request = Idle, NEW key,
         ~Has(cache, key), Resolve(key)
  PROVE  SpacesSound'
<1> DEFINE current == Current(key[1], key[2])
<1>1. Len(slots) \in Nat /\ DOMAIN slots = 1..Len(slots) /\ Sequential(slots)
  BY SequentialIsSeq DEF SpacesSound, SlotsSound
<1>2. CASE current = NoRevision
  <2> DEFINE none == [slot |-> 0, revision |-> NoRevision]
  <2>1. cache' = WithEntry(cache, key, none) /\ UNCHANGED <<slots, request>>
    BY <1>2 DEF Resolve
  <2>2. none.slot = 0
    OBVIOUS
  <2> HIDE DEF none
  <2>3. /\ DOMAIN cache' = DOMAIN cache \cup {key} /\ cache'[key] = none
        /\ \A k \in DOMAIN cache : k # key => cache'[k] = cache[k]
    BY <2>1 DEF WithEntry
  <2>4. SlotsSound'
    <3>1. \A k \in DOMAIN cache' : cache'[k].slot \in 0..Len(slots)
      <4>. SUFFICES ASSUME NEW k \in DOMAIN cache' PROVE cache'[k].slot \in 0..Len(slots)
        OBVIOUS
      <4>1. CASE k = key
        BY <1>1, <2>2, <2>3, <4>1
      <4>2. CASE k # key
        BY <2>3, <4>2 DEF SpacesSound, SlotsSound
      <4>. QED  BY <4>1, <4>2
    <3>. QED  BY <1>1, <2>1, <3>1 DEF SpacesSound, SlotsSound
  <2>5. SpacesAreWhole'
    <3>. SUFFICES ASSUME NEW k \in DOMAIN cache'
                  PROVE  IF Current(k[1], k[2]) = NoRevision THEN cache'[k].slot = 0
                         ELSE /\ cache'[k].revision = Current(k[1], k[2])
                              /\ cache'[k].slot \in DOMAIN slots
                              /\ Whole(slots[cache'[k].slot], cache'[k].revision)
      BY <2>1, SameRevisions, SameChains DEF SpacesAreWhole
    <3>1. CASE k = key
      BY <1>2, <2>2, <2>3, <3>1
    <3>2. CASE k # key
      BY <2>3, <3>2 DEF SpacesSound, SpacesAreWhole
    <3>. QED  BY <3>1, <3>2
  <2>6. RequestSound'
    BY <2>1 DEF RequestSound, Idle
  <2>. QED  BY <2>4, <2>5, <2>6 DEF SpacesSound
<1>3. CASE current # NoRevision
  <2> DEFINE slot == [chain |-> <<>>, objects |-> <<>>, roots |-> <<>>]
  <2>1. /\ slots' = Append(slots, slot) /\ UNCHANGED cache
        /\ request' = [step |-> "chain", key |-> key, slot |-> Len(slots) + 1,
                       revision |-> current, next |-> current, position |-> 0]
    BY <1>3 DEF Resolve
  <2>2. /\ DOMAIN slot = {"chain", "objects", "roots"} /\ slot.chain = <<>>
        /\ slot.objects = <<>> /\ slot.roots = <<>>
    OBVIOUS
  <2> HIDE DEF slot
  <2>3. /\ Sequential(slots') /\ Len(slots') = Len(slots) + 1
        /\ DOMAIN slots' = 1..Len(slots) + 1 /\ slots'[Len(slots) + 1] = slot
        /\ \A s \in 1..Len(slots) : slots'[s] = slots[s]
    BY <1>1, <2>1, AppendSequence
  <2>4. SlotsSound'
    <3>1. \A s \in DOMAIN slots' : DOMAIN slots'[s] = {"chain", "objects", "roots"}
      BY <1>1, <2>2, <2>3 DEF SpacesSound, SlotsSound
    <3>. QED  BY <1>1, <2>1, <2>3, <3>1 DEF SpacesSound, SlotsSound
  <2>5. SpacesAreWhole'
    BY <1>1, <2>1, <2>3, SameRevisions, SameChains DEF SpacesSound, SpacesAreWhole
  <2>6. /\ DOMAIN request' = {"step", "key", "slot", "revision", "next", "position"}
        /\ request'.step = "chain" /\ request'.key = key /\ request'.slot = Len(slots) + 1
        /\ request'.revision = current /\ request'.next = current
    BY <2>1
  <2>7. Linked(<<>>)
    BY EmptySequence DEF Linked
  <2>8. current \in 0..Len(index.revisions)
    BY CurrentRevision
  <2> HIDE DEF current
  <2>9. RequestSound'
    <3>1. Chain' = <<>>
      BY <2>2, <2>3, <2>6 DEF Chain
    <3>2. (request.revision = Current(request.key[1], request.key[2]))'
      BY <2>6, SameRevisions DEF current
    <3>3. Linked(Chain)'
      BY <2>7, <3>1, SameChains
    <3>4. \A k \in DOMAIN cache' : cache'[k].slot # request'.slot
      BY <1>1, <2>1, <2>6 DEF SpacesSound, SlotsSound
    <3>. QED  BY <1>1, <1>3, <2>2, <2>3, <2>6, <2>8, <3>1, <3>2, <3>3, <3>4 DEF RequestSound
  <2>. QED  BY <2>4, <2>5, <2>9 DEF SpacesSound
<1>. QED  BY <1>2, <1>3

\* What a request that is not idle says.
LEMMA RequestSays ==
  ASSUME SpacesSound, request # Idle
  PROVE  /\ request.slot \in DOMAIN slots /\ slots[request.slot].chain = Chain
         /\ DOMAIN slots[request.slot] = {"chain", "objects", "roots"}
         /\ DOMAIN request = {"step", "key", "slot", "revision", "next", "position"}
         /\ Linked(Chain) /\ Len(Chain) \in Nat /\ DOMAIN Chain = 1..Len(Chain)
         /\ Chain = <<>> <=> Len(Chain) = 0
<1>1. Linked(Chain)
  BY DEF SpacesSound, RequestSound
<1>2. /\ Len(Chain) \in Nat /\ DOMAIN Chain = 1..Len(Chain)
      /\ Chain \in Seq({Chain[i] : i \in 1..Len(Chain)})
  BY <1>1, SequentialIsSeq DEF Linked
<1>3. Chain = <<>> <=> Len(Chain) = 0
  BY <1>2, EmptySeq
<1>. QED  BY <1>1, <1>2, <1>3 DEF SpacesSound, RequestSound, SlotsSound, Chain

LEMMA WalkChainStep ==
  ASSUME IndexSound(index), SpacesSound, WalkChain
  PROVE  SpacesSound'
<1>1. request # Idle
  BY DEF WalkChain, Idle
<1>2. /\ request.slot \in DOMAIN slots /\ slots[request.slot].chain = Chain
      /\ DOMAIN slots[request.slot] = {"chain", "objects", "roots"}
      /\ DOMAIN request = {"step", "key", "slot", "revision", "next", "position"}
      /\ Linked(Chain) /\ Len(Chain) \in Nat /\ DOMAIN Chain = 1..Len(Chain)
      /\ Chain = <<>> <=> Len(Chain) = 0
  BY <1>1, RequestSays
<1>3. Len(index.revisions) \in Nat /\ DOMAIN index.revisions = 1..Len(index.revisions)
  BY SequentialIsSeq DEF IndexSound, IndexShape
<1> DEFINE next == request.next
           longer == Append(Chain, next)
           space == [slots[request.slot] EXCEPT !.chain = longer]
<1>4. /\ UNCHANGED <<index, cells, cache>> /\ request.step = "chain" /\ ~AtChainEnd
      /\ slots' = [slots EXCEPT ![request.slot] = space]
      /\ request' = [request EXCEPT !.next = Next0(next)]
  BY <1>2 DEF WalkChain, Next0
<1>5. next \in DOMAIN index.revisions /\ \A i \in 1..Len(Chain) : IdOf(Chain[i]) # IdOf(next)
  <2>1. next \in 0..Len(index.revisions)
    BY <1>1, <1>4 DEF SpacesSound, RequestSound
  <2>. QED  BY <1>2, <1>3, <1>4, <2>1 DEF AtChainEnd, ChainIds, IdOf, NoRevision
<1>6. /\ Sequential(longer) /\ Len(longer) = Len(Chain) + 1 /\ longer[Len(Chain) + 1] = next
      /\ \A i \in 1..Len(Chain) : longer[i] = Chain[i]
  BY <1>2, AppendSequence DEF Linked
<1>7. Chain # <<>> => next = Next0(Chain[Len(Chain)])
  BY <1>1, <1>4 DEF SpacesSound, RequestSound
<1> HIDE DEF longer
<1>8. Linked(longer)
  <2>1. \A i \in 1..Len(longer) : longer[i] \in DOMAIN index.revisions
    BY <1>2, <1>5, <1>6 DEF Linked
  <2>2. ASSUME NEW i \in 1..Len(longer) - 1 PROVE longer[i + 1] = Next0(longer[i])
    <3>1. CASE i = Len(Chain)
      <4>1. i \in 1..Len(Chain) /\ Chain # <<>>
        BY <1>2, <1>6, <3>1
      <4>. QED  BY <1>6, <1>7, <3>1, <4>1
    <3>2. CASE i \in 1..Len(Chain) - 1
      <4>1. i \in 1..Len(Chain) /\ i + 1 \in 1..Len(Chain)
        BY <1>2, <3>2
      <4>2. Chain[i + 1] = Next0(Chain[i])
        BY <1>2, <3>2 DEF Linked
      <4>. QED  BY <1>6, <4>1, <4>2
    <3>3. Len(longer) - 1 = Len(Chain) /\ Len(Chain) \in Nat
      BY <1>2, <1>6
    <3>4. i = Len(Chain) \/ i \in 1..Len(Chain) - 1
      BY <3>3
    <3>. QED  BY <3>1, <3>2, <3>4
  <2>3. ASSUME NEW i \in 1..Len(longer), NEW j \in 1..Len(longer),
               IdOf(longer[i]) = IdOf(longer[j])
        PROVE  i = j
    <3>1. CASE i \in 1..Len(Chain) /\ j \in 1..Len(Chain)
      BY <1>2, <1>6, <2>3, <3>1 DEF Linked
    <3>2. CASE i \in 1..Len(Chain) /\ j = Len(Chain) + 1
      BY <1>5, <1>6, <2>3, <3>2
    <3>3. CASE i = Len(Chain) + 1 /\ j \in 1..Len(Chain)
      BY <1>5, <1>6, <2>3, <3>3
    <3>4. CASE i = Len(Chain) + 1 /\ j = Len(Chain) + 1
      BY <3>4
    <3>. QED  BY <1>2, <1>6, <3>1, <3>2, <3>3, <3>4
  <2>. QED  BY <1>6, <2>1, <2>2, <2>3 DEF Linked
<1>9. /\ DOMAIN space = {"chain", "objects", "roots"} /\ space.chain = longer
      /\ space.objects = slots[request.slot].objects /\ space.roots = slots[request.slot].roots
  BY <1>2
<1> HIDE DEF space
<1>10. \A key \in DOMAIN cache : cache[key].slot # request.slot
  BY <1>1 DEF SpacesSound, RequestSound
<1>11. /\ SlotsSound' /\ SpacesAreWhole' /\ DOMAIN slots' = DOMAIN slots
       /\ slots'[request.slot] = space
  BY <1>2, <1>4, <1>9, <1>10, SlotChanges
<1>12. /\ DOMAIN request' = DOMAIN request /\ request'.next = Next0(next)
       /\ request'.step = "chain" /\ request'.slot = request.slot
       /\ request'.revision = request.revision /\ request'.key = request.key
  BY <1>2, <1>4
<1> HIDE DEF next
<1>13. Chain' = longer
  BY <1>9, <1>11, <1>12 DEF Chain
<1>14. RequestSound'
  <2>1. Linked(Chain)'
    BY <1>4, <1>8, <1>13, SameChains
  <2>2. (request.revision = Current(request.key[1], request.key[2]))'
    BY <1>1, <1>4, <1>12, SameRevisions DEF SpacesSound, RequestSound
  <2>3. request'.next \in 0..Len(index'.revisions)
    BY <1>4, <1>12, LastRevision DEF Next0
  <2>4. (request.next = Next0(Chain[Len(Chain)]))' /\ Chain' # <<>>
    BY <1>2, <1>4, <1>6, <1>12, <1>13, SameRevisions, EmptySequence
  <2>5. Chain'[1] = request'.revision
    <3>1. CASE Chain = <<>>
      BY <1>1, <1>2, <1>4, <1>6, <1>12, <1>13, <3>1 DEF SpacesSound, RequestSound, next
    <3>2. CASE Chain # <<>>
      BY <1>1, <1>2, <1>6, <1>12, <1>13, <3>2 DEF SpacesSound, RequestSound
    <3>. QED  BY <3>1, <3>2
  <2>6. slots'[request.slot].objects = <<>> /\ slots'[request.slot].roots = <<>>
    BY <1>1, <1>4, <1>9, <1>11 DEF SpacesSound, RequestSound
  <2>7. request.revision # NoRevision
    BY <1>1 DEF SpacesSound, RequestSound
  <2>. QED  BY <1>2, <1>4, <1>10, <1>11, <1>12, <2>1, <2>2, <2>3, <2>4, <2>5, <2>6, <2>7
            DEF RequestSound
<1>. QED  BY <1>11, <1>14 DEF SpacesSound

LEMMA EndChainStep ==
  ASSUME IndexSound(index), SpacesSound, EndChain
  PROVE  SpacesSound'
<1>1. request # Idle
  BY DEF EndChain, Idle
<1>2. /\ request.slot \in DOMAIN slots /\ slots[request.slot].chain = Chain
      /\ DOMAIN request = {"step", "key", "slot", "revision", "next", "position"}
      /\ Linked(Chain) /\ Len(Chain) \in Nat /\ DOMAIN Chain = 1..Len(Chain)
      /\ Chain = <<>> <=> Len(Chain) = 0
  BY <1>1, RequestSays
<1>3. /\ UNCHANGED <<index, cells, cache, slots>> /\ request.step = "chain" /\ AtChainEnd
      /\ request' = [request EXCEPT !.step = "apply", !.position = Len(Chain)]
  BY DEF EndChain
<1>4. /\ DOMAIN request' = DOMAIN request /\ request'.position = Len(Chain)
      /\ request'.step = "apply" /\ request'.slot = request.slot
      /\ request'.revision = request.revision /\ request'.key = request.key
  BY <1>2, <1>3
<1>5. Chain' = Chain
  BY <1>3, <1>4 DEF Chain
<1>6. /\ request.revision # NoRevision /\ slots[request.slot].objects = <<>>
      /\ slots[request.slot].roots = <<>>
      /\ request.next = IF Chain = <<>> THEN request.revision ELSE Next0(Chain[Len(Chain)])
  BY <1>1, <1>3 DEF SpacesSound, RequestSound
<1>7. request.next = NoRevision \/ \E i \in 1..Len(Chain) : IdOf(Chain[i]) = IdOf(request.next)
  BY <1>2, <1>3 DEF AtChainEnd, ChainIds, IdOf
<1>8. Chain # <<>>
  <2>. SUFFICES ASSUME Chain = <<>> PROVE FALSE
    OBVIOUS
  <2>1. 1..Len(Chain) = {}
    BY <1>2
  <2>. QED  BY <1>6, <1>7, <2>1
<1>9. Ended(Chain)
  BY <1>6, <1>7, <1>8 DEF Ended
<1>10. Replayed(slots[request.slot], Len(Chain))
  <2>1. \A said : Replay(<<>>, Chain, Len(Chain), said)
    BY <1>2, EmptySequence DEF Replay
  <2>. QED  BY <1>2, <1>6, <2>1 DEF Replayed
<1>11. SlotsSound'
  BY <1>3 DEF SpacesSound, SlotsSound
<1>12. SpacesAreWhole'
  BY <1>3, SameRevisions, SameChains DEF SpacesSound, SpacesAreWhole
<1>13. RequestSound'
  <2>1. Linked(Chain)' /\ Ended(Chain)'
    BY <1>2, <1>3, <1>5, <1>9, SameChains
  <2>2. (request.revision = Current(request.key[1], request.key[2]))'
    BY <1>1, <1>3, <1>4, SameRevisions DEF SpacesSound, RequestSound
  <2>3. Replayed(slots[request.slot], request.position)'
    BY <1>3, <1>4, <1>10, SameChains
  <2>4. Chain'[1] = request'.revision
    BY <1>1, <1>4, <1>5, <1>8 DEF SpacesSound, RequestSound
  <2>5. \A key \in DOMAIN cache : cache[key].slot # request.slot
    BY <1>1 DEF SpacesSound, RequestSound
  <2>. QED  BY <1>2, <1>3, <1>4, <1>5, <1>6, <1>8, <2>1, <2>2, <2>3, <2>4, <2>5 DEF RequestSound
<1>. QED  BY <1>11, <1>12, <1>13 DEF SpacesSound

LEMMA ApplyRevisionStep ==
  ASSUME IndexSound(index), SpacesSound, ApplyRevision
  PROVE  SpacesSound'
<1>1. request # Idle
  BY DEF ApplyRevision, Idle
<1>2. /\ request.slot \in DOMAIN slots /\ slots[request.slot].chain = Chain
      /\ DOMAIN slots[request.slot] = {"chain", "objects", "roots"}
      /\ DOMAIN request = {"step", "key", "slot", "revision", "next", "position"}
      /\ Linked(Chain) /\ Len(Chain) \in Nat /\ DOMAIN Chain = 1..Len(Chain)
  BY <1>1, RequestSays
<1> DEFINE order == Chain[request.position]
           old == slots[request.slot]
           space == [old EXCEPT !.objects = Overlay(ObjectsNamed(order), @),
                                !.roots = Overlay(RootsOf(order), @)]
<1>3. /\ UNCHANGED <<index, cells, cache>> /\ request.step = "apply" /\ request.position > 0
      /\ slots' = [slots EXCEPT ![request.slot] = space]
      /\ request' = [request EXCEPT !.position = @ - 1]
  BY <1>2 DEF ApplyRevision
<1>4. /\ Chain # <<>> /\ Ended(Chain) /\ request.position \in 0..Len(Chain)
      /\ Replayed(old, request.position) /\ Chain[1] = request.revision
      /\ request.revision # NoRevision
      /\ request.revision = Current(request.key[1], request.key[2])
      /\ \A key \in DOMAIN cache : cache[key].slot # request.slot
  BY <1>1, <1>3 DEF SpacesSound, RequestSound
<1>5. request.position \in 1..Len(Chain) /\ order \in DOMAIN index.revisions
  BY <1>2, <1>3, <1>4 DEF Linked
<1>6. /\ DOMAIN space = {"chain", "objects", "roots"} /\ space.chain = Chain
      /\ space.objects = Overlay(ObjectsNamed(order), old.objects)
      /\ space.roots = Overlay(RootsOf(order), old.roots)
  BY <1>2
<1>7. Replayed(space, request.position - 1)
  <2>1. NamedObjects[order] = ObjectsNamed(order) /\ NamedRoots[order] = RootsOf(order)
    BY <1>5 DEF NamedObjects, NamedRoots
  <2>2. /\ Replay(old.objects, Chain, request.position, NamedObjects)
        /\ Replay(old.roots, Chain, request.position, NamedRoots)
    BY <1>2, <1>4 DEF Replayed
  <2>3. /\ Replay(Overlay(NamedObjects[order], old.objects), Chain, request.position - 1,
                  NamedObjects)
        /\ Replay(Overlay(NamedRoots[order], old.roots), Chain, request.position - 1, NamedRoots)
    BY <1>2, <1>5, <2>2, ReplayOne
  <2> HIDE DEF space, order, old
  <2>. QED  BY <1>6, <2>1, <2>3 DEF Replayed
<1> HIDE DEF space
<1>8. /\ SlotsSound' /\ SpacesAreWhole' /\ DOMAIN slots' = DOMAIN slots
      /\ slots'[request.slot] = space
  BY <1>2, <1>3, <1>4, <1>6, SlotChanges
<1>9. /\ DOMAIN request' = DOMAIN request /\ request'.position = request.position - 1
      /\ request'.step = "apply" /\ request'.slot = request.slot
      /\ request'.revision = request.revision /\ request'.key = request.key
  BY <1>2, <1>3
<1>10. Chain' = Chain
  BY <1>6, <1>8, <1>9 DEF Chain
<1>11. RequestSound'
  <2>1. Linked(Chain)' /\ Ended(Chain)'
    BY <1>2, <1>3, <1>4, <1>10, SameChains
  <2>2. (request.revision = Current(request.key[1], request.key[2]))'
    BY <1>3, <1>4, <1>9, SameRevisions
  <2>3. Replayed(slots[request.slot], request.position)'
    BY <1>3, <1>7, <1>8, <1>9, SameChains
  <2>4. request'.position \in 0..Len(Chain')
    BY <1>2, <1>5, <1>9, <1>10
  <2>. QED  BY <1>2, <1>3, <1>4, <1>8, <1>9, <1>10, <2>1, <2>2, <2>3, <2>4 DEF RequestSound
<1>. QED  BY <1>8, <1>11 DEF SpacesSound

LEMMA RememberSpaceStep ==
  ASSUME IndexSound(index), SpacesSound, RememberSpace
  PROVE  SpacesSound'
<1>1. request # Idle
  BY DEF RememberSpace, Idle
<1> DEFINE key == request.key
           entry == [slot |-> request.slot, revision |-> request.revision]
<1>2. /\ UNCHANGED <<index, cells, slots>> /\ request' = Idle /\ request.step = "apply"
      /\ request.position = 0 /\ cache' = WithEntry(cache, key, entry)
  BY DEF RememberSpace
<1>3. /\ DOMAIN cache' = DOMAIN cache \cup {key} /\ cache'[key] = entry
      /\ \A k \in DOMAIN cache : k # key => cache'[k] = cache[k]
  BY <1>2 DEF WithEntry
<1>4. entry.slot = request.slot /\ entry.revision = request.revision
  OBVIOUS
<1> HIDE DEF entry
<1>5. /\ request.slot \in DOMAIN slots /\ slots[request.slot].chain = Chain
      /\ Linked(Chain)
  BY <1>1, RequestSays
<1>6. /\ Whole(slots[request.slot], request.revision)
      /\ request.revision = Current(key[1], key[2]) /\ request.revision # NoRevision
  BY <1>1, <1>2, <1>5 DEF SpacesSound, RequestSound, Whole
<1>7. DOMAIN slots = 1..Len(slots) /\ Len(slots) \in Nat
  BY SequentialIsSeq DEF SpacesSound, SlotsSound
<1> HIDE DEF key
<1>8. SlotsSound'
  <2>1. \A k \in DOMAIN cache' : cache'[k].slot \in 0..Len(slots)
    <3>. SUFFICES ASSUME NEW k \in DOMAIN cache' PROVE cache'[k].slot \in 0..Len(slots)
      OBVIOUS
    <3>1. CASE k = key
      BY <1>3, <1>4, <1>5, <1>7, <3>1
    <3>2. CASE k # key
      BY <1>3, <3>2 DEF SpacesSound, SlotsSound
    <3>. QED  BY <3>1, <3>2
  <2>. QED  BY <1>2, <2>1 DEF SpacesSound, SlotsSound
<1>9. SpacesAreWhole'
  <2>. SUFFICES ASSUME NEW k \in DOMAIN cache'
                PROVE  IF Current(k[1], k[2]) = NoRevision THEN cache'[k].slot = 0
                       ELSE /\ cache'[k].revision = Current(k[1], k[2])
                            /\ cache'[k].slot \in DOMAIN slots
                            /\ Whole(slots[cache'[k].slot], cache'[k].revision)
    BY <1>2, SameRevisions, SameChains DEF SpacesAreWhole
  <2>1. CASE k = key
    BY <1>3, <1>4, <1>5, <1>6, <2>1
  <2>2. CASE k # key
    BY <1>3, <2>2 DEF SpacesSound, SpacesAreWhole
  <2>. QED  BY <2>1, <2>2
<1>10. RequestSound'
  BY <1>2 DEF RequestSound, Idle
<1>. QED  BY <1>8, <1>9, <1>10 DEF SpacesSound

\* A step that touches no slot and remembers nothing, and begins no request.
LEMMA SpacesStay ==
  ASSUME SpacesSound, UNCHANGED <<index, cells, slots, cache>>, request' \in {request, Idle}
  PROVE  SpacesSound'
<1>1. SlotsSound'
  BY DEF SpacesSound, SlotsSound
<1>2. SpacesAreWhole'
  BY SameRevisions, SameChains DEF SpacesSound, SpacesAreWhole
<1>3. CASE request' = Idle
  <2>1. RequestSound'
    BY <1>3 DEF RequestSound, Idle
  <2>. QED  BY <1>1, <1>2, <2>1 DEF SpacesSound
<1>4. CASE request' = request
  <2>1. Chain' = Chain
    BY <1>4 DEF Chain
  <2>2. RequestSound'
    BY <1>4, <2>1, SameRevisions, SameChains DEF SpacesSound, RequestSound
  <2>. QED  BY <1>1, <1>2, <2>2 DEF SpacesSound
<1>. QED  BY <1>3, <1>4

LEMMA ResolverStep ==
  ASSUME IndexSound(index), SpacesSound, ResolverNext
  PROVE  SpacesSound' /\ UNCHANGED <<index, cells>>
<1>1. CASE WalkChain
  BY <1>1, WalkChainStep DEF WalkChain
<1>2. CASE EndChain
  BY <1>2, EndChainStep DEF EndChain
<1>3. CASE ApplyRevision
  BY <1>3, ApplyRevisionStep DEF ApplyRevision
<1>4. CASE RememberSpace
  BY <1>4, RememberSpaceStep DEF RememberSpace
<1>5. CASE ResolveFails
  BY <1>5, SpacesStay DEF ResolveFails
<1>6. CASE SearchAsks
  BY <1>6, ResolveStep DEF SearchAsks, Searching
<1>7. CASE SearchMoves
  BY <1>7, SpacesStay DEF SearchMoves
<1>. QED  BY <1>1, <1>2, <1>3, <1>4, <1>5, <1>6, <1>7 DEF ResolverNext

(* No two revisions are associated at once. *)
OrdersDistinct ==
  \A i, j \in DOMAIN index.revisions :
    \A a \in Range(AssociationsOf(i)), b \in Range(AssociationsOf(j)) :
      a.order \in Nat /\ (a.order = b.order => i = j)

LEMMA LatestIsOne ==
  ASSUME OrdersDistinct
  PROVE  OneIsCurrent
<1>. SUFFICES ASSUME NEW space, NEW context, NEW j \in Latest(space, context),
                     NEW k \in Latest(space, context)
              PROVE  j = k
  BY DEF OneIsCurrent
<1>1. j \in DOMAIN index.revisions /\ k \in DOMAIN index.revisions
      /\ j \in Claimants(space) /\ k \in Claimants(space)
  BY DEF Latest, Claimants
<1>2. PICK m \in Claims(j, context) :
        \A i \in Claimants(space) : \A other \in Claims(i, context) : other <= m
  BY DEF Latest
<1>3. PICK n \in Claims(k, context) :
        \A i \in Claimants(space) : \A other \in Claims(i, context) : other <= n
  BY DEF Latest
<1>4. PICK a \in Range(AssociationsOf(j)) : a.order = m
  BY DEF Claims
<1>5. PICK b \in Range(AssociationsOf(k)) : b.order = n
  BY DEF Claims
<1>6. m \in Nat /\ n \in Nat
  BY <1>1, <1>4, <1>5 DEF OrdersDistinct
<1>7. n <= m /\ m <= n
  BY <1>1, <1>2, <1>3
<1>8. m = n
  BY <1>6, <1>7
<1>. QED  BY <1>1, <1>4, <1>5, <1>8 DEF OrdersDistinct
=============================================================================
