---------------------------- MODULE MCCreateBatch ----------------------------
(***************************************************************************)
(* Three documents over two names: a first, a middle and a last one, and   *)
(* at least two of them of the same name.  As many request ids as          *)
(* documents, so that both distinct and repeated ids are drawn.            *)
(***************************************************************************)
EXTENDS CreateBatch
=============================================================================
