------------------------- MODULE MCDeleteCollection -------------------------
(***************************************************************************)
(* Two concurrent calls on the same selection of up to two objects, empty  *)
(* ones included.  MaxRevision = 3 allows two changes by others: an object *)
(* may be replaced, or one leave and another enter.  The calls' own        *)
(* deletions are not bounded by it.                                        *)
(***************************************************************************)
EXTENDS DeleteCollection
=============================================================================
