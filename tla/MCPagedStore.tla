---------------------------- MODULE MCPagedStore ----------------------------
(* A small store: two keys in one bucket, so that every walk can meet the    *)
(* other key first; records of two and three bytes on pages with room for    *)
(* five, so that a page holds two records and the second may not fit; two    *)
(* pages, so that the store fills up; a cache of one, so that every change   *)
(* of page evicts.                                                           *)
EXTENDS PagedStore

CONSTANTS k1, k2, v1, v2, b1

MCKeys == {k1, k2}
MCValues == {v1, v2}
MCBuckets == {b1}
MCBucketOf == [k \in MCKeys |-> b1]
MCKeyLength == [k \in MCKeys |-> 1]
MCValueLength == [v \in MCValues |-> IF v = v1 THEN 0 ELSE 1]
=============================================================================
