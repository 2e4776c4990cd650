--------------------------- MODULE MCServePlugin ---------------------------
(***************************************************************************)
(* ServePlugin on small instances.                                         *)
(***************************************************************************)
EXTENDS ServePlugin
=============================================================================
