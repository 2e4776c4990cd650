----------------------------- MODULE MCRequests -----------------------------
(***************************************************************************)
(* Requests with a lease that is absent, canonical, garbled, doubled under *)
(* one spelling, present under two, or under one that has no value.        *)
(***************************************************************************)
EXTENDS Requests

CONSTANTS lease1, lease2, garbled, canonical, lower

LeaseHeaders ==
  {<<>>, canonical :> <<>>, canonical :> <<lease1>>, lower :> <<lease2>>, canonical :> <<garbled>>,
   canonical :> <<lease1, lease1>>,
   canonical :> <<lease1>> @@ lower :> <<garbled>>}
=============================================================================
