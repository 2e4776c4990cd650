-------------------------- MODULE MCServePluginV1 --------------------------
(***************************************************************************)
(* ServePluginV1 on every plugin and host with the three hooks.            *)
(***************************************************************************)
EXTENDS ServePluginV1
=============================================================================
