---- MODULE ReaderLimits ----
(***************************************************************************)
(* What the readers of both encodings share: the limits of ReaderOptions,  *)
(* the mark of an absent identifier, and tables.                           *)
(***************************************************************************)
EXTENDS Naturals, Sequences, FiniteSets, TLC

CONSTANTS Nil,       \* undefined
          NilGuid,   \* the identifier of all zeros
          HeaderSpace, \* the object space of the header cell
          MaxFileNodes, MaxObjects, MaxAssetBytes, MaxTotalAssetBytes,
          IndexLimit \* 0xffffff, which no index of an identifier table reaches

ASSUME ReaderOptions ==
  {MaxFileNodes, MaxObjects, MaxAssetBytes, MaxTotalAssetBytes, IndexLimit} \subseteq Nat \ {0}

Ok == "ok"

(* An identifier of all zeros stands for none. *)
Optional(id) == IF id = NilGuid THEN Nil ELSE id

BadIndex(i) == i >= IndexLimit

Has(table, key) == key \in DOMAIN table
Get(table, key) == IF Has(table, key) THEN table[key] ELSE Nil
WithEntry(table, key, value) ==
  [k \in DOMAIN table \union {key} |-> IF k = key THEN value ELSE table[k]]
Overlay(over, table) ==
  [k \in DOMAIN over \union DOMAIN table |-> IF Has(over, k) THEN over[k] ELSE table[k]]
====
