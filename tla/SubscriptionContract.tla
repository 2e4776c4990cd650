------------------------ MODULE SubscriptionContract ------------------------
(***************************************************************************)
(* What a bus.Subscription promises its holder, whatever transport is      *)
(* behind it: it comes into being live, it ends at most once, the reason   *)
(* it ended for is there when Done closes and never changes afterwards,    *)
(* and a Cancel or a Drain that has returned has left it ended.            *)
(*                                                                         *)
(* NatsConn implements this specification (see Contract there).            *)
(***************************************************************************)
CONSTANTS
  Subs,     \* the subscriptions
  Reasons,  \* why one may end with a fault: the bus.Fault codes
  NoReason  \* Err() == nil: a clean end, or not ended

VARIABLES
  status,   \* status[s]: "absent", "live" or "ended"
  reason,   \* reason[s]: what Err() returns once Done is closed
  released  \* the subscriptions a Cancel or a Drain has returned on

vars == <<status, reason, released>>

TypeOK ==
  /\ status \in [Subs -> {"absent", "live", "ended"}]
  /\ reason \in [Subs -> Reasons \cup {NoReason}]
  /\ released \subseteq Subs

Init ==
  /\ status = [s \in Subs |-> "absent"]
  /\ reason = [s \in Subs |-> NoReason]
  /\ released = {}

Open(s) ==
  /\ status[s] = "absent"
  /\ status' = [status EXCEPT ![s] = "live"]
  /\ UNCHANGED <<reason, released>>

End(s, r) ==
  /\ status[s] = "live"
  /\ status' = [status EXCEPT ![s] = "ended"]
  /\ reason' = [reason EXCEPT ![s] = r]
  /\ UNCHANGED released

Release(s) ==
  /\ status[s] = "ended"
  /\ released' = released \cup {s}
  /\ UNCHANGED <<status, reason>>

Next ==
  \E s \in Subs :
    \/ Open(s)
    \/ \E r \in Reasons \cup {NoReason} : End(s, r)
    \/ Release(s)

Spec == Init /\ [][Next]_vars
-----------------------------------------------------------------------------
\* A Cancel or a Drain that has returned left its subscription ended, and only an
\* end has a reason.
ReleasedMeansEnded ==
  /\ \A s \in released : status[s] = "ended"
  /\ \A s \in Subs : status[s] # "ended" => reason[s] = NoReason

\* A subscription ends once: nothing makes it live again, or changes its reason.
EndIsFinal ==
  [][\A s \in Subs : status[s] = "ended" =>
       status'[s] = "ended" /\ reason'[s] = reason[s]]_vars
=============================================================================
