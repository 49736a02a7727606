--------------------------- MODULE KeyValueStore ---------------------------
(***************************************************************************)
(* What a PagedKeyValueStore promises its callers: a map from keys to the   *)
(* value last set, however the pages behind it are cached, written or       *)
(* failed.  A request is asked and later answered; a `set` that throws      *)
(* leaves the map exactly as it was.                                        *)
(***************************************************************************)
EXTENDS Naturals

CONSTANTS Keys,     \* the keys a caller uses
          Values,   \* the values a caller stores
          NoValue,  \* the `undefined` that `get` returns for an absent key
          Idle      \* no request is being served

VARIABLES dict,     \* key |-> the value last set, or NoValue
          size,     \* the `size` getter
          open,     \* FALSE once `close` has been called
          request,  \* the request being served, or Idle
          reply     \* the answer to the last request

vars == <<dict, size, open, request, reply>>

Gets == [op : {"get"}, key : Keys]
Sets == [op : {"set"}, key : Keys, value : Values]

Init ==
  /\ dict = [k \in Keys |-> NoValue]
  /\ size = 0
  /\ open = TRUE
  /\ request = Idle
  /\ reply = "none"

Ask(r) ==
  /\ open
  /\ request = Idle
  /\ request' = r
  /\ reply' = "none"
  /\ UNCHANGED <<dict, size, open>>

\* A call that is refused before it starts: closed, or a record no page holds.
Refuse ==
  /\ request = Idle
  /\ reply' = IF open THEN "too large" ELSE "closed"
  /\ UNCHANGED <<dict, size, open, request>>

AnswerGet ==
  /\ request \in Gets
  /\ reply' = dict[request.key]
  /\ request' = Idle
  /\ UNCHANGED <<dict, size, open>>

CommitSet ==
  /\ request \in Sets
  /\ dict' = [dict EXCEPT ![request.key] = request.value]
  /\ size' = IF dict[request.key] = NoValue THEN size + 1 ELSE size
  /\ reply' = "ok"
  /\ request' = Idle
  /\ UNCHANGED open

AbandonSet ==
  /\ request \in Sets
  /\ reply' \in {"out of space", "too many pages"}
  /\ request' = Idle
  /\ UNCHANGED <<dict, size, open>>

Close ==
  /\ request = Idle
  /\ open' = FALSE
  /\ UNCHANGED <<dict, size, request, reply>>

Next ==
  \/ \E r \in Gets \cup Sets : Ask(r)
  \/ Refuse
  \/ AnswerGet
  \/ CommitSet
  \/ AbandonSet
  \/ Close

Spec == Init /\ [][Next]_vars

=============================================================================
