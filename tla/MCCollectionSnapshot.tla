------------------------ MODULE MCCollectionSnapshot ------------------------
(***************************************************************************)
(* A listing and a plain read that share the mapper.  One kind, installed  *)
(* and removed up to twice, is enough: what another kind's call could do   *)
(* to this one, rebuild the mapper without it, the other call does too.    *)
(* Three names against pages of at most two, two pages and two targets     *)
(* reach every limit and pass it; one change falls between any two pages.  *)
(***************************************************************************)
EXTENDS CollectionSnapshot
=============================================================================
