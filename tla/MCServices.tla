---------------------------- MODULE MCServices ----------------------------
(***************************************************************************)
(* Services on small instances.                                            *)
(***************************************************************************)
EXTENDS Services
=============================================================================
