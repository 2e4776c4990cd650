------------------------------ MODULE Services ------------------------------
(***************************************************************************)
(* bus.Services over natsconn: one service from Serve to Stop, and one     *)
(* scatter-gather (Discover and Stats differ only in what they collect).   *)
(*                                                                         *)
(* Every endpoint, every discovery probe and the gather's inbox is a       *)
(* subscription.  What a subscription does is SubscriptionContract, which  *)
(* NatsConn implements; here its actions are taken on behalf of the        *)
(* service.  Calls are run by the delivery goroutine of their              *)
(* subscription, one at a time, which takes a call off the queue while the *)
(* subscription is live and runs it whatever happens then.                 *)
(*                                                                         *)
(* Goroutines: the caller of Serve, the callers of Stop, the caller of     *)
(* Discover, one delivery goroutine for each subscription, and the         *)
(* connection's callback, which may end any subscription with a fault.     *)
(* A definition whose name starts with Bug is a mistake the definition     *)
(* after it could have been; it is not part of the model.                  *)
(***************************************************************************)
EXTENDS Naturals

CONSTANTS
  Endpoints,  \* spec.Endpoints
  Probes,     \* the patterns mountDiscovery subscribes
  Inbox,      \* the subscription of one gather
  Stoppers,   \* the callers of Stop
  Reasons, NoReason

ASSUME SubsDistinct ==
  /\ Endpoints \cap Probes = {}
  /\ Inbox \notin Endpoints \cup Probes

VARIABLES
  status, reason, released,  \* the subscriptions (SubscriptionContract)
  serve,    \* Serve: "mounting", "failing", "ok" or "failed"
  subs,     \* svc.subs
  once,     \* svc.once: "new", "running" or "done"
  left,     \* what Stop has still to cancel
  done,     \* svc.done is closed
  stop,     \* stop[g]: "idle", "in" or "returned"
  call,     \* call[s]: "idle", "taken" or "running": s's delivery goroutine
  late,     \* late[s]: handler runs begun since Stop has returned, up to 2
  gather,   \* "idle", "probe", "refused", "window", "locked", "unlocked" or "returned"
  lateOut   \* replies appended to out since gather returned, up to 2

subVars    == <<status, reason, released>>
stopVars   == <<subs, once, left, done, stop>>
callVars   == <<call, late, lateOut>>
vars == <<subVars, serve, stopVars, callVars, gather>>

Mounts == Endpoints \cup Probes
Subs == Mounts \cup {Inbox}

Sub == INSTANCE SubscriptionContract

TypeOK ==
  /\ Sub!TypeOK
  /\ serve \in {"mounting", "failing", "ok", "failed"}
  /\ subs \subseteq Mounts
  /\ once \in {"new", "running", "done"}
  /\ left \subseteq Mounts \ subs
  /\ done \in BOOLEAN
  /\ stop \in [Stoppers -> {"idle", "in", "returned"}]
  /\ call \in [Subs -> {"idle", "taken", "running"}]
  /\ late \in [Subs -> 0 .. 2]
  /\ gather \in {"idle", "probe", "refused", "window", "locked", "unlocked", "returned"}
  /\ lateOut \in 0 .. 2

Init ==
  /\ Sub!Init
  /\ serve = "mounting"
  /\ subs = {}
  /\ once = "new"
  /\ left = {}
  /\ done = FALSE
  /\ stop = [g \in Stoppers |-> "idle"]
  /\ call = [s \in Subs |-> "idle"]
  /\ late = [s \in Subs |-> 0]
  /\ gather = "idle"
  /\ lateOut = 0

-----------------------------------------------------------------------------
(* Serve: mount for each endpoint, then mountDiscovery.                    *)

Ready(s) == s \in Endpoints \ subs \/ (s \in Probes \ subs /\ Endpoints \subseteq subs)

Mount(s) ==
  /\ serve = "mounting"
  /\ Ready(s)
  /\ Sub!Open(s)
  /\ subs' = subs \cup {s}
  /\ UNCHANGED <<serve, once, left, done, stop, callVars, gather>>

\* Subscribe refuses, or an endpoint has no handler: what was mounted is stopped.
MountRefused ==
  /\ serve = "mounting"
  /\ subs # Mounts
  /\ serve' = "failing"
  /\ once' = "running"
  /\ left' = subs
  /\ subs' = {}
  /\ UNCHANGED <<subVars, done, stop, callVars, gather>>

ServeReturns ==
  /\ \/ serve = "mounting" /\ subs = Mounts /\ serve' = "ok"
     \/ serve = "failing" /\ once = "done" /\ serve' = "failed"
  /\ UNCHANGED <<subVars, stopVars, callVars, gather>>

-----------------------------------------------------------------------------
(* Stop.  sync.Once: the second caller waits for the first.                *)

BugStopDoesNotWait(g) ==
  /\ serve = "ok"
  /\ stop[g] = "idle"
  /\ IF once = "new"
     THEN /\ once' = "running"
          /\ left' = subs
          /\ subs' = {}
          /\ stop' = [stop EXCEPT ![g] = "in"]
     ELSE /\ stop' = [stop EXCEPT ![g] = "returned"]
          /\ UNCHANGED <<once, left, subs>>
  /\ UNCHANGED <<subVars, serve, done, callVars, gather>>

BugStopKeepsSubs(g) ==
  /\ serve = "ok"
  /\ stop[g] = "idle"
  /\ stop' = [stop EXCEPT ![g] = "in"]
  /\ IF once = "new"
     THEN once' = "running" /\ left' = subs /\ UNCHANGED subs
     ELSE UNCHANGED <<once, left, subs>>
  /\ UNCHANGED <<subVars, serve, done, callVars, gather>>

StopCalled(g) ==
  /\ serve = "ok"
  /\ stop[g] = "idle"
  /\ stop' = [stop EXCEPT ![g] = "in"]
  /\ IF once = "new"
     THEN once' = "running" /\ left' = subs /\ subs' = {}
     ELSE UNCHANGED <<once, left, subs>>
  /\ UNCHANGED <<subVars, serve, done, callVars, gather>>

\* sub.Cancel: it ends the subscription, or finds it ended by something else.
CancelEnds(s) ==
  /\ s \in left
  /\ Sub!End(s, NoReason)
  /\ UNCHANGED <<serve, stopVars, callVars, gather>>

CancelReturns(s) ==
  /\ s \in left
  /\ Sub!Release(s)
  /\ left' = left \ {s}
  /\ UNCHANGED <<serve, subs, once, done, stop, callVars, gather>>

StopDone ==
  /\ once = "running"
  /\ left = {}
  /\ done' = TRUE
  /\ once' = "done"
  /\ UNCHANGED <<subVars, serve, subs, left, stop, callVars, gather>>

BugOnlyFirstReturns(g) ==
  /\ stop[g] = "in"
  /\ once = "done"
  /\ \A f \in Stoppers : stop[f] # "returned"
  /\ stop' = [stop EXCEPT ![g] = "returned"]
  /\ UNCHANGED <<subVars, serve, subs, once, left, done, callVars, gather>>

StopReturns(g) ==
  /\ stop[g] = "in"
  /\ once = "done"
  /\ stop' = [stop EXCEPT ![g] = "returned"]
  /\ UNCHANGED <<subVars, serve, subs, once, left, done, callVars, gather>>

-----------------------------------------------------------------------------
(* gather: subscribe, publish the probe, wait for the window, lock, and    *)
(* then the deferred Unlock and Cancel.                                    *)

GatherSubscribes ==
  /\ gather = "idle"
  /\ \/ Sub!Open(Inbox) /\ gather' = "probe"
     \/ gather' = "returned" /\ UNCHANGED subVars
  /\ UNCHANGED <<serve, stopVars, callVars>>

GatherPublishes ==
  /\ gather = "probe"
  /\ gather' \in {"window", "refused"}
  /\ UNCHANGED <<subVars, serve, stopVars, callVars>>

\* The window or the context ends; then mu, which a running collect holds.
GatherLocks ==
  /\ gather = "window"
  /\ call[Inbox] # "running"
  /\ gather' = "locked"
  /\ UNCHANGED <<subVars, serve, stopVars, callVars>>

GatherUnlocks ==
  /\ gather = "locked"
  /\ gather' = "unlocked"
  /\ UNCHANGED <<subVars, serve, stopVars, callVars>>

GatherCancels ==
  /\ gather \in {"unlocked", "refused"}
  /\ Sub!End(Inbox, NoReason)
  /\ UNCHANGED <<serve, stopVars, callVars, gather>>

GatherReturns ==
  /\ gather \in {"unlocked", "refused"}
  /\ Sub!Release(Inbox)
  /\ gather' = "returned"
  /\ UNCHANGED <<serve, stopVars, callVars>>

-----------------------------------------------------------------------------
(* Delivery, and the connection's callback.                                *)

TakeCall(s) ==  \* on the inbox a reply, which only a published probe brings
  /\ status[s] = "live"
  /\ s = Inbox => gather \in {"window", "locked", "unlocked"}
  /\ call[s] = "idle"
  /\ call' = [call EXCEPT ![s] = "taken"]
  /\ UNCHANGED <<subVars, serve, stopVars, late, lateOut, gather>>

Stopped == \E g \in Stoppers : stop[g] = "returned"
Bump(n) == IF n < 2 THEN n + 1 ELSE n

\* An endpoint's handler; for the inbox, collect under mu.
RunCall(s) ==
  /\ call[s] = "taken"
  /\ s = Inbox => gather # "locked"
  /\ call' = [call EXCEPT ![s] = "running"]
  /\ late' = IF s # Inbox /\ Stopped THEN [late EXCEPT ![s] = Bump(@)] ELSE late
  /\ UNCHANGED <<subVars, serve, stopVars, lateOut, gather>>

CallReturns(s) ==
  /\ call[s] = "running"
  /\ call' = [call EXCEPT ![s] = "idle"]
  /\ lateOut' = IF s = Inbox /\ gather = "returned" THEN Bump(lateOut) ELSE lateOut
  /\ UNCHANGED <<subVars, serve, stopVars, late, gather>>

\* A refusal of the broker, a slow consumer, or the connection's Close.
FaultEnds(s, r) ==
  /\ Sub!End(s, r)
  /\ UNCHANGED <<serve, stopVars, callVars, gather>>

-----------------------------------------------------------------------------
Next ==
  \/ \E s \in Mounts : Mount(s) \/ CancelEnds(s) \/ CancelReturns(s)
  \/ MountRefused \/ ServeReturns \/ StopDone
  \/ \E g \in Stoppers : StopCalled(g) \/ StopReturns(g)
  \/ GatherSubscribes \/ GatherPublishes \/ GatherLocks \/ GatherUnlocks
  \/ GatherCancels \/ GatherReturns
  \/ \E s \in Subs :
       \/ TakeCall(s) \/ RunCall(s) \/ CallReturns(s)
       \/ \E r \in Reasons : FaultEnds(s, r)

(* Goroutines run, and Cancel returns (NatsConn: CancelReturns).           *)
Fairness ==
  /\ WF_vars(\E s \in Mounts : Mount(s) \/ CancelEnds(s) \/ CancelReturns(s))
  /\ WF_vars(MountRefused \/ ServeReturns \/ StopDone)
  /\ \A g \in Stoppers : WF_vars(StopReturns(g))
  /\ WF_vars(GatherPublishes \/ GatherUnlocks \/ GatherCancels \/ GatherReturns)
  /\ SF_vars(GatherLocks)
  /\ \A s \in Subs : WF_vars(CallReturns(s))

Spec == Init /\ [][Next]_vars
FairSpec == Spec /\ Fairness

-----------------------------------------------------------------------------
\* Every caller of Stop that has returned, the second one too, leaves a service
\* whose subscriptions have all ended and whose Done is closed, of each of which
\* a handler begins at most once more, with the call its goroutine had taken; and
\* a Serve that fails leaves nothing of the service subscribed.
StoppedMeansEnded ==
  /\ Stopped => done /\ \A s \in Mounts : status[s] = "ended"
  /\ \A s \in Mounts : late[s] <= 1
  /\ serve = "failed" => \A s \in Mounts : status[s] # "live"

\* Stop returns to everyone who called it, and Discover and Stats return, whoever
\* answers them.
StopAndGatherEnd ==
  /\ \A g \in Stoppers : stop[g] = "in" ~> stop[g] = "returned"
  /\ gather = "probe" ~> gather = "returned"

\* "collect until the window closes" (gather): nothing is collected into what
\* Discover and Stats have returned.
NothingCollectedLate == lateOut = 0
=============================================================================
