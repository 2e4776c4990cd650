--------------------------- MODULE MCNatsPublish ---------------------------
(***************************************************************************)
(* NatsPublish with a host that may report no, a narrower or a wider       *)
(* ceiling than the transport's.                                           *)
(***************************************************************************)
EXTENDS NatsPublish

HostCeilings == {-1, 1, 3}
=============================================================================
