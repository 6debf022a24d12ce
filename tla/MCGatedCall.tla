---------------------------- MODULE MCGatedCall ----------------------------
(***************************************************************************)
(* Two concurrent calls on one object, each of any tool, so that every     *)
(* pair of tools meets on the same target.  MaxRevision = 3 lets others    *)
(* change the object twice: once before and once after a check, or delete  *)
(* and recreate it under a new uid.  The calls' own writes are not bounded *)
(* by it.                                                                  *)
(***************************************************************************)
EXTENDS GatedCall
=============================================================================
