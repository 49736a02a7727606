---- MODULE CompactIds ----
(***************************************************************************)
(* PackagedCompactIds: the table an object's CompactIDs are resolved       *)
(* through, paired from its own reference arrays the first time one of     *)
(* them is asked for.  Each pair is a record of the store, and a mark says *)
(* that all of them are there; the store can fail in between, and whoever  *)
(* asks next starts over on top of what was written.                       *)
(***************************************************************************)
EXTENDS SpaceResolver

VARIABLES paired,   \* object order -> the entries its table has so far
          built,    \* the objects whose tables are marked complete
          refused,  \* the objects whose arrays were found not to pair
          pairing   \* the table being built

compactVars == <<paired, built, refused, pairing>>

NotPairing == [object |-> 0, stream |-> 1, position |-> 1]

CompactInit ==
  /\ paired = <<>> /\ built = {} /\ refused = {} /\ pairing = NotPairing

(* The identifiers that belong to each stream.  A cell reference in the    *)
(* object's own cell names an object space, any other a context.           *)
OwnCell(cell, reference) == IF cell = Nil THEN FALSE ELSE reference.first.guid = cell.first
OwnReferences(o, cell) == SelectSeq(o.cellReferences, LAMBDA c: OwnCell(cell, c))
OtherReferences(o, cell) == SelectSeq(o.cellReferences, LAMBDA c: ~OwnCell(cell, c))
StreamsOf(o, cell) ==
  LET streams == o.properties.streams
      own == OwnReferences(o, cell)
      other == OtherReferences(o, cell)
      objects == [compact |-> streams.object, extended |-> o.objectReferences]
      spaces == [compact |-> streams.space, extended |-> [i \in DOMAIN own |-> own[i].second]]
      contexts == [compact |-> streams.context, extended |-> [i \in DOMAIN other |-> other[i].first]]
  IN IF streams.space = Nil THEN <<objects>>
     ELSE IF streams.context = Nil THEN <<objects, spaces>>
     ELSE <<objects, spaces, contexts>>
Streams(object) ==
  LET o == ObjectAt(index, object) IN StreamsOf(o, CellOf(o.revision))

(* identifier() for an object that has properties.  A table that is marked *)
(* is not built again.                                                     *)
AskIdentifier(object) ==
  /\ pairing = NotPairing /\ object \notin built
  /\ ObjectAt(index, object).properties /= Nil
  /\ pairing' = [NotPairing EXCEPT !.object = object]
  /\ UNCHANGED <<index, resolverVars, paired, built, refused>>

Pairing == pairing /= NotPairing
Stream == Streams(pairing.object)[pairing.stream]
AtPair == Pairing /\ pairing.stream <= Len(Streams(pairing.object))

Entries == IF Has(paired, pairing.object) THEN paired[pairing.object] ELSE <<>>
NullPair(compact, extended) ==
  compact = [index |-> 0, ordinal |-> 0] /\ extended = [guid |-> NilGuid, ordinal |-> 0]

PairFault(compact, extended) ==
  IF \/ BadIndex(compact.index)
     \/ extended.guid = NilGuid \/ extended.ordinal /= compact.ordinal
     \/ Has(Entries, compact.index) /\ Entries[compact.index] /= extended.guid
  THEN "MAPPING" ELSE Ok

Refuse == /\ refused' = refused \union {pairing.object}
          /\ pairing' = NotPairing

(* One identifier of the array and the CompactID at its place. *)
PairOne ==
  /\ AtPair /\ pairing.position \in DOMAIN Stream.extended
  /\ IF pairing.position \notin DOMAIN Stream.compact THEN Refuse /\ UNCHANGED paired
     ELSE LET compact == Stream.compact[pairing.position]
              extended == Stream.extended[pairing.position]
          IN IF NullPair(compact, extended)
             THEN /\ pairing' = [pairing EXCEPT !.position = @ + 1]
                  /\ UNCHANGED <<paired, refused>>
             ELSE IF PairFault(compact, extended) /= Ok THEN Refuse /\ UNCHANGED paired
             ELSE /\ paired' = WithEntry(paired, pairing.object,
                                         WithEntry(Entries, compact.index, extended.guid))
                  /\ pairing' = [pairing EXCEPT !.position = @ + 1]
                  /\ UNCHANGED refused
  /\ UNCHANGED <<index, resolverVars, built>>

StreamPaired ==
  /\ AtPair /\ pairing.position \notin DOMAIN Stream.extended
  /\ IF pairing.position - 1 /= Len(Stream.compact) THEN Refuse
     ELSE /\ pairing' = [pairing EXCEPT !.stream = @ + 1, !.position = 1]
          /\ UNCHANGED refused
  /\ UNCHANGED <<index, resolverVars, paired, built>>

MarkFirst ==
  /\ Pairing
  /\ built' = built \union {pairing.object}
  /\ pairing' = NotPairing
  /\ UNCHANGED <<index, resolverVars, paired, refused>>

(* The mark is the last record written. *)
MarkBuilt ==
  /\ Pairing /\ ~AtPair
  /\ built' = built \union {pairing.object}
  /\ pairing' = NotPairing
  /\ UNCHANGED <<index, resolverVars, paired, refused>>

PairingFails ==
  /\ Pairing /\ failures < MaxFailures
  /\ failures' = failures + 1
  /\ pairing' = NotPairing
  /\ UNCHANGED <<index, cells, slots, cache, request, search, paired, built, refused>>

CompactNext == PairOne \/ StreamPaired \/ MarkBuilt \/ PairingFails

-----------------------------------------------------------------------------
TableOf(object) == IF Has(paired, object) THEN paired[object] ELSE <<>>

(* What an object's table has of a place in one of its streams. *)
NullAt(stream, position) == NullPair(stream.compact[position], stream.extended[position])
Settled(object, stream, position) ==
  /\ position \in DOMAIN stream.extended /\ position \in DOMAIN stream.compact
  /\ \/ NullAt(stream, position)
     \/ LET compact == stream.compact[position]
            extended == stream.extended[position]
        IN /\ ~BadIndex(compact.index)
           /\ extended.guid /= NilGuid /\ extended.ordinal = compact.ordinal
           /\ Has(TableOf(object), compact.index)
           /\ TableOf(object)[compact.index] = extended.guid

Complete(object, stream) ==
  /\ Len(stream.compact) \in Nat
  /\ \A position \in 1..Len(stream.compact) : Settled(object, stream, position)
  /\ Len(stream.compact) + 1 \notin DOMAIN stream.extended

(* A place at which the arrays do not pair, whatever is tried again. *)
Misfit(object, stream, position) ==
  /\ \A earlier \in 1..position - 1 : earlier \in DOMAIN stream.extended
  /\ IF position \notin DOMAIN stream.extended THEN position - 1 /= Len(stream.compact)
     ELSE \/ position \notin DOMAIN stream.compact
          \/ LET compact == stream.compact[position]
                 extended == stream.extended[position]
             IN /\ ~NullAt(stream, position)
                /\ \/ BadIndex(compact.index)
                   \/ extended.guid = NilGuid
                   \/ extended.ordinal /= compact.ordinal
                   \/ /\ Has(TableOf(object), compact.index)
                      /\ TableOf(object)[compact.index] /= extended.guid

Paired(object, i) ==
  \E n \in DOMAIN Streams(object) :
    LET stream == Streams(object)[n]
    IN \E position \in DOMAIN stream.compact \intersect DOMAIN stream.extended :
         /\ stream.compact[position].index = i
         /\ TableOf(object)[i] = stream.extended[position].guid

(* A table that is marked complete has an entry for every CompactID of the *)
(* object's streams, the identifier at its place; no table has any other   *)
(* entry; and an object whose arrays did not pair is never marked.         *)
MarksAreTrue ==
  /\ \A object \in built : \A n \in DOMAIN Streams(object) : Complete(object, Streams(object)[n])
  /\ \A object \in DOMAIN paired : \A i \in DOMAIN paired[object] : Paired(object, i)
  /\ built \intersect refused = {}
====
