----------------------------- MODULE MCRpcHost -----------------------------
(***************************************************************************)
(* RpcHost on small instances.                                             *)
(***************************************************************************)
EXTENDS RpcHost

CONSTANTS a, b

OneOfEach == [i \in Ids |-> IF i = a THEN "event" ELSE "tick"]
=============================================================================
