------------------------------ MODULE MCStreams ------------------------------
(***************************************************************************)
(* One call of every tool with every first fault of its arguments and      *)
(* every obstacle.  With a cap of one and three bytes written a channel    *)
(* stays below the cap, meets it exactly, overflows in one chunk or in     *)
(* several and goes on after that.  A watch goes through its loop twice.   *)
(***************************************************************************)
EXTENDS Streams
=============================================================================
