---------------------------- MODULE ServePlugin ----------------------------
(***************************************************************************)
(* The v2 ServePlugin: from the credential file to the plugin's HTTP       *)
(* server and back.  One goroutine runs the steps; beside it the host      *)
(* writes the credential, the caller cancels, and once the lifecycle       *)
(* endpoints are mounted the host's calls run the plugin's hooks on the    *)
(* delivery goroutines of the bus, one per endpoint.                       *)
(*                                                                         *)
(* pc names the step that runs next.  What was deferred runs as the steps  *)
(* "stop_service" to "close_bus"; a step that was not reached deferred     *)
(* nothing.  The host's reply is a record of what the checks look at; the  *)
(* plugin, the host and the bus are modelled from their use here.          *)
(* A definition whose name starts with Bug is a mistake the definition     *)
(* after it could have been; it is not part of the model.                  *)
(***************************************************************************)
EXTENDS Naturals

CONSTANTS
  Hooks,          \* the lifecycle hooks the plugin implements
  Caps, Needs,    \* bus capabilities; those the manifest needs
  TransportCaps,  \* those natsconn implements
  Features,       \* protocol features
  Required,       \* those the manifest requires
  WorkloadAuth,   \* FeatureHostWorkloadAuth
  Majors, Major,  \* protocol majors a host may have; the plugin's
  Ids, Id, NoId,  \* plugin ids a host may answer with; this plugin's; ""
  Generations, NoGeneration,
  Tokens, Malformed, NoToken,  \* host call tokens
  NoReply, NoBinding

ASSUME NeedTypes ==
  /\ Needs \subseteq Caps
  /\ TransportCaps \subseteq Caps
  /\ Required \subseteq Features
  /\ Id \in Ids /\ NoId \notin Ids
  /\ NoGeneration \notin Generations
  /\ NoToken \notin Tokens \cup {Malformed}
  /\ Malformed \notin Tokens

VARIABLES
  pc,       \* the step of ServePlugin that runs next
  caller,   \* the caller's context: "live" or "done"
  own,      \* ServePlugin's: "none", "live" or "done"
  given,    \* cfg.Bus was set
  creds,    \* the credential file: "absent", "empty" or "written"
  expired,  \* the credential's deadline has passed
  bus,      \* "none", "open" or "closed"
  reply,    \* the host's answer to negotiate
  binding,  \* what Bind installed in the plugin
  plugin,   \* "new", "starting", "running", "failed", "stopping" or "stopped"
  mounted,  \* the hooks with a live endpoint
  denied,   \* those the broker has refused out of band
  hook,     \* hook[k]: "idle", "taken" off its queue, or "running"
  late,     \* late[k]: runs of k begun since Stop was called, up to 2
  faults,   \* the steps that have failed
  result    \* those in the error ServePlugin returns

hostVars   == <<given, creds, expired, bus, reply, binding>>
hookVars   == <<mounted, denied, hook, late>>
errVars    == <<faults, result>>
vars == <<pc, caller, own, hostVars, plugin, hookVars, errVars>>

Steps ==
  {"preflight", "creds", "creds_missing", "creds_wait", "dial", "negotiate", "check", "bind",
   "validate", "start", "starting", "mount", "http",
   "stop_service", "stop_plugin", "stopping", "cancel", "close_bus", "returned"}

Replies ==
  [error : BOOLEAN, major : Majors, features : SUBSET Features, caps : SUBSET Caps,
   plugin : Ids, generation : Generations \cup {NoGeneration},
   boundPlugin : Ids \cup {NoId}, boundGeneration : Generations \cup {NoGeneration},
   token : Tokens \cup {Malformed, NoToken}]

Bindings == [plugin : Ids, generation : Generations, caps : SUBSET Caps,
             token : Tokens \cup {NoToken}]

ASSUME NoneIsNone == NoReply \notin Replies /\ NoBinding \notin Bindings

TypeOK ==
  /\ pc \in Steps
  /\ caller \in {"live", "done"}
  /\ own \in {"none", "live", "done"}
  /\ given \in BOOLEAN
  /\ creds \in {"absent", "empty", "written"}
  /\ expired \in BOOLEAN
  /\ bus \in {"none", "open", "closed"}
  /\ reply \in Replies \cup {NoReply}
  /\ binding \in Bindings \cup {NoBinding}
  /\ plugin \in {"new", "starting", "running", "failed", "stopping", "stopped"}
  /\ mounted \subseteq Hooks
  /\ denied \subseteq Hooks
  /\ hook \in [Hooks -> {"idle", "taken", "running"}]
  /\ late \in [Hooks -> 0 .. 2]
  /\ faults \subseteq Steps
  /\ result \subseteq Steps

Init ==
  /\ pc = "preflight"
  /\ caller = "live"
  /\ own = "none"
  /\ given \in BOOLEAN
  /\ creds \in {"absent", "empty", "written"}
  /\ expired = FALSE
  /\ bus = "none"
  /\ reply = NoReply
  /\ binding = NoBinding
  /\ plugin = "new"
  /\ mounted = {}
  /\ denied = {}
  /\ hook = [k \in Hooks |-> "idle"]
  /\ late = [k \in Hooks |-> 0]
  /\ faults = {}
  /\ result = {}

BugDone == own = "done"
Done == caller = "done" \/ own = "done"

\* return err: the step failed, and what was deferred so far runs.
Refuse(deferred) ==
  /\ faults' = faults \cup {pc}
  /\ result' = {pc}
  /\ pc' = deferred

Goto(step) == pc' = step /\ UNCHANGED errVars

-----------------------------------------------------------------------------
(* The credential and the connection.                                      *)

\* Everything ServePlugin and dialBus look at before anything is waited for.
Preflight ==
  /\ pc = "preflight"
  /\ \/ Refuse("cancel") /\ UNCHANGED bus
     \/ caller = "live" /\ given /\ Goto("negotiate") /\ bus' = "open"
     \/ caller = "live" /\ ~given /\ Goto("creds") /\ UNCHANGED bus
  /\ UNCHANGED <<caller, own, given, creds, expired, reply, binding, plugin, hookVars>>

WaitForCreds ==
  /\ pc = "creds"
  /\ Goto(IF creds = "written" THEN "dial" ELSE "creds_missing")
  /\ UNCHANGED <<caller, own, hostVars, plugin, hookVars>>

CredsDeadline ==
  /\ pc = "creds_missing"
  /\ IF expired THEN Refuse("cancel") ELSE Goto("creds_wait")
  /\ UNCHANGED <<caller, own, hostVars, plugin, hookVars>>

CredsPoll ==
  /\ pc = "creds_wait"
  /\ Goto("creds") \/ (caller = "done" /\ Refuse("cancel"))
  /\ UNCHANGED <<caller, own, hostVars, plugin, hookVars>>

\* Dial does not look at its context before it has connected; a connection made
\* for a caller that has gone is closed again.
Dial ==
  /\ pc = "dial"
  /\ \/ Refuse("cancel") /\ UNCHANGED bus
     \/ caller = "done" /\ Refuse("cancel") /\ bus' = "closed"
     \/ caller = "live" /\ Goto("negotiate") /\ bus' = "open"
  /\ UNCHANGED <<caller, own, given, creds, expired, reply, binding, plugin, hookVars>>

-----------------------------------------------------------------------------
(* The handshake.                                                          *)

Negotiate ==
  /\ pc = "negotiate"
  /\ \/ Refuse("cancel") /\ UNCHANGED reply
     \/ Goto("check") /\ reply' \in Replies
  /\ UNCHANGED <<caller, own, given, creds, expired, bus, binding, plugin, hookVars>>

Effective(r) == IF given THEN r.caps ELSE r.caps \cap TransportCaps

CheckProtocol(r, effective) ==
  /\ ~r.error
  /\ r.major = Major
  /\ Required \subseteq r.features
  /\ Needs \subseteq effective
  /\ r.generation # NoGeneration
  /\ IF WorkloadAuth \in r.features THEN r.token \in Tokens ELSE r.token = NoToken

BugCheckIdentity(r) ==
  /\ r.plugin = Id
  /\ r.boundPlugin \in {NoId, Id}
CheckIdentity(r) ==
  /\ r.plugin = Id
  /\ r.boundPlugin \in {NoId, Id}
  /\ r.boundGeneration \in {NoGeneration, r.generation}

\* A bus that was passed in may not know how to bind a token.
Check ==
  /\ pc = "check"
  /\ \/ /\ CheckProtocol(reply, Effective(reply))
        /\ CheckIdentity(reply)
        /\ Goto("bind")
        /\ own' = "live"
     \/ /\ \/ ~CheckProtocol(reply, Effective(reply))
           \/ ~CheckIdentity(reply)
           \/ given /\ reply.token # NoToken
        /\ Refuse("cancel")
        /\ UNCHANGED own
  /\ UNCHANGED <<caller, hostVars, plugin, hookVars>>

BugBindingOf(r) ==
  [plugin     |-> r.boundPlugin,
   generation |-> IF r.boundGeneration = NoGeneration THEN r.generation ELSE r.boundGeneration,
   caps       |-> Effective(r),
   token      |-> r.token]

BindingOf(r) ==
  [plugin     |-> IF r.boundPlugin = NoId THEN Id ELSE r.boundPlugin,
   generation |-> IF r.boundGeneration = NoGeneration THEN r.generation ELSE r.boundGeneration,
   caps       |-> Effective(r),
   token      |-> r.token]

Bind ==
  /\ pc = "bind"
  /\ \/ Goto("validate") /\ binding' = BindingOf(reply)
     \/ Refuse("cancel") /\ UNCHANGED binding
  /\ UNCHANGED <<caller, own, given, creds, expired, bus, reply, plugin, hookVars>>

-----------------------------------------------------------------------------
(* The plugin.                                                             *)

Validate ==
  /\ pc = "validate"
  /\ Goto("start") \/ Refuse("cancel")
  /\ UNCHANGED <<caller, own, hostVars, plugin, hookVars>>

Start ==
  /\ pc = "start"
  /\ Goto("starting")
  /\ plugin' = "starting"
  /\ UNCHANGED <<caller, own, hostVars, hookVars>>

BugFailedStartNotStopped ==
  /\ pc = "starting"
  /\ \/ Goto("mount") /\ plugin' = "running"
     \/ Refuse("cancel") /\ plugin' = "failed"
  /\ UNCHANGED <<caller, own, hostVars, hookVars>>

StartReturns ==
  /\ pc = "starting"
  /\ \/ Goto("mount") /\ plugin' = "running"
     \/ Refuse("stop_plugin") /\ plugin' = "failed"
  /\ UNCHANGED <<caller, own, hostVars, hookVars>>

\* mountLifecycle subscribes the endpoints one after the other; each is live at
\* once, and a refusal cancels those before it.
MountHook(k) ==
  /\ pc = "mount"
  /\ k \notin mounted
  /\ \/ mounted' = mounted \cup {k} /\ UNCHANGED <<pc, errVars>>
     \/ Refuse("stop_service") /\ UNCHANGED mounted
  /\ UNCHANGED <<caller, own, hostVars, plugin, denied, hook, late>>

\* The service's discovery endpoints; a plugin without hooks mounts nothing.
MountDiscovery ==
  /\ pc = "mount"
  /\ mounted = Hooks
  /\ Goto("http") \/ (Hooks # {} /\ Refuse("stop_service"))
  /\ UNCHANGED <<caller, own, hostVars, plugin, hookVars>>

\* serve.Serve: it ends with its context, on a signal, or with an error.
HTTPEnds ==
  /\ pc = "http"
  /\ Goto("stop_service") \/ Refuse("stop_service")
  /\ UNCHANGED <<caller, own, hostVars, plugin, hookVars>>

-----------------------------------------------------------------------------
(* What was deferred.                                                      *)

CancelHook(k) ==
  /\ pc = "stop_service"
  /\ k \in mounted
  /\ mounted' = mounted \ {k}
  /\ UNCHANGED <<pc, caller, own, hostVars, plugin, denied, hook, late, errVars>>

ServiceStopped ==
  /\ pc = "stop_service"
  /\ mounted = {}
  /\ Goto("stop_plugin")
  /\ UNCHANGED <<caller, own, hostVars, plugin, hookVars>>

BugStopBeforeCancel ==
  /\ pc = "stop_plugin"
  /\ Goto("stopping")
  /\ plugin' = "stopping"
  /\ UNCHANGED <<caller, own, hostVars, hookVars>>

StopPlugin ==
  /\ pc = "stop_plugin"
  /\ Goto("stopping")
  /\ own' = "done"
  /\ plugin' = "stopping"
  /\ UNCHANGED <<caller, hostVars, hookVars>>

BugStopOverwrites ==
  /\ pc = "stopping"
  /\ plugin' = "stopped"
  /\ pc' = "cancel"
  /\ \/ result' = {} /\ UNCHANGED faults
     \/ faults' = faults \cup {"stopping"} /\ result' = {"stopping"}
  /\ UNCHANGED <<caller, own, hostVars, hookVars>>

StopReturns ==
  /\ pc = "stopping"
  /\ plugin' = "stopped"
  /\ pc' = "cancel"
  /\ \/ UNCHANGED errVars
     \/ faults' = faults \cup {"stopping"} /\ result' = result \cup {"stopping"}
  /\ UNCHANGED <<caller, own, hostVars, hookVars>>

Cancel ==
  /\ pc = "cancel"
  /\ own' = IF own = "live" THEN "done" ELSE own
  /\ Goto("close_bus")
  /\ UNCHANGED <<caller, hostVars, plugin, hookVars>>

CloseBus ==
  /\ pc = "close_bus"
  /\ bus' = IF bus = "open" /\ ~given THEN "closed" ELSE bus
  /\ Goto("returned")
  /\ UNCHANGED <<caller, own, given, creds, expired, reply, binding, plugin, hookVars>>
-----------------------------------------------------------------------------
(* The hooks.  An endpoint's delivery goroutine takes a call off its queue  *)
(* while the endpoint is subscribed, and runs it whatever happens then.     *)

TakeCall(k) ==
  /\ k \in mounted \ denied
  /\ hook[k] = "idle"
  /\ hook' = [hook EXCEPT ![k] = "taken"]
  /\ UNCHANGED <<pc, caller, own, hostVars, plugin, mounted, denied, late, errVars>>

RunHook(k) ==
  /\ hook[k] = "taken"
  /\ hook' = [hook EXCEPT ![k] = "running"]
  /\ late' = IF plugin \in {"stopping", "stopped"} /\ late[k] < 2
             THEN [late EXCEPT ![k] = @ + 1] ELSE late
  /\ UNCHANGED <<pc, caller, own, hostVars, plugin, mounted, denied, errVars>>

HookReturns(k) ==
  /\ hook[k] = "running"
  /\ hook' = [hook EXCEPT ![k] = "idle"]
  /\ UNCHANGED <<pc, caller, own, hostVars, plugin, mounted, denied, late, errVars>>

-----------------------------------------------------------------------------
(* The host, the broker, time and the caller.                              *)

HostCreatesCreds ==
  /\ creds = "absent"
  /\ creds' = "empty"
  /\ UNCHANGED <<pc, caller, own, given, expired, bus, reply, binding, plugin, hookVars, errVars>>

HostWritesCreds ==
  /\ creds = "empty"
  /\ creds' = "written"
  /\ UNCHANGED <<pc, caller, own, given, expired, bus, reply, binding, plugin, hookVars, errVars>>

CredsWaitExpires ==
  /\ pc \in {"creds", "creds_missing", "creds_wait"}
  /\ ~expired
  /\ expired' = TRUE
  /\ UNCHANGED <<pc, caller, own, given, creds, bus, reply, binding, plugin, hookVars, errVars>>

\* A broker refuses a subscription after nc.Subscribe has returned nil.
BrokerDenies(k) ==
  /\ bus = "open" /\ ~given
  /\ k \in mounted \ denied
  /\ denied' = denied \cup {k}
  /\ UNCHANGED <<pc, caller, own, hostVars, plugin, mounted, hook, late, errVars>>

CallerCancels ==
  /\ caller = "live"
  /\ caller' = "done"
  /\ UNCHANGED <<pc, own, hostVars, plugin, hookVars, errVars>>

-----------------------------------------------------------------------------
Main ==
  \/ Preflight \/ WaitForCreds \/ CredsDeadline \/ CredsPoll \/ Dial
  \/ Negotiate \/ Check \/ Bind \/ Validate \/ Start \/ StartReturns
  \/ MountDiscovery \/ ServiceStopped \/ StopPlugin \/ StopReturns \/ Cancel \/ CloseBus
  \/ \E k \in Hooks : MountHook(k) \/ CancelHook(k)

Returned == pc = "returned" /\ UNCHANGED vars

Next ==
  \/ Main \/ HTTPEnds \/ Returned
  \/ \E k \in Hooks : TakeCall(k) \/ RunHook(k) \/ HookReturns(k) \/ BrokerDenies(k)
  \/ HostCreatesCreds \/ HostWritesCreds \/ CredsWaitExpires \/ CallerCancels

(* ServePlugin's goroutine runs, the plugin's Validate, Start and Stop     *)
(* return, the request that negotiates has a deadline (Conn.Request), time *)
(* passes, and serve.Serve returns when its context is done.               *)
Fairness ==
  /\ WF_vars(Main)
  /\ WF_vars(CredsWaitExpires)
  /\ WF_vars(Done /\ HTTPEnds)

Spec == Init /\ [][Next]_vars
FairSpec == Spec /\ Fairness

-----------------------------------------------------------------------------
\* The plugin's own code runs bound to one generation of this plugin, the one the
\* host named in its reply, with every capability it needs and, on the bus
\* ServePlugin dialled, none that the transport lacks.
BindingIsOneGeneration ==
  /\ plugin # "new" => binding # NoBinding
  /\ binding # NoBinding =>
      /\ binding.plugin = Id
      /\ binding.generation = reply.generation /\ binding.generation # NoGeneration
      /\ Needs \subseteq binding.caps
      /\ ~given => binding.caps \subseteq TransportCaps
      /\ (binding.token # NoToken) <=> (WorkloadAuth \in reply.features)

\* The host cannot reach a hook before the plugin's own Start has succeeded, a
\* hook that runs while the plugin stops has a context that is done, and once Stop
\* is called a hook begins at most once more: with the call its endpoint's
\* goroutine had taken before.
HooksRunInsideTheStart ==
  \A k \in Hooks :
    /\ late[k] <= 1
    /\ hook[k] = "running" =>
         /\ plugin \in {"running", "stopping", "stopped"}
         /\ plugin \in {"stopping", "stopped"} => own = "done"

\* ServePlugin returns with nothing held and nothing lost: no endpoint, no live
\* context, no connection of its own (a bus that was passed in is left open), and
\* every step that failed is in its error, whatever Stop returned.
ReturnReleases ==
  pc = "returned" =>
    /\ mounted = {}
    /\ own # "live"
    /\ bus # "none" => bus = IF given THEN "open" ELSE "closed"
    /\ result = faults

Lifecycle == INSTANCE PluginLifecycle WITH
  host     <- IF pc \notin {"preflight", "returned"} /\ bus = "open" THEN "open" ELSE "closed",
  plugin   <- CASE plugin = "new" -> "new"
                [] plugin \in {"starting", "running", "failed"} -> "started"
                [] OTHER -> "stopped",
  serving  <- mounted # {} \/ pc = "http",
  returned <- pc = "returned"

\* Whichever step fails, the plugin is stopped when and only when it was started,
\* with the host reachable from its Start to its Stop, and the host's calls are
\* let in only in between.
ImplementsLifecycle == Lifecycle!Spec

\* A credential that never arrives is a refusal, not a hang, and a caller that
\* cancels gets ServePlugin back.
ServeComesBack ==
  /\ pc = "creds" ~> pc \notin {"creds", "creds_missing", "creds_wait"}
  /\ caller = "done" ~> pc = "returned"

\* "A failure at any step, including that one" - mounting the lifecycle
\* endpoints - "stops the steps that ran before it" (ServePlugin).
DeniedMountStops == \A k \in Hooks : k \in denied ~> plugin \in {"stopping", "stopped"}
=============================================================================
