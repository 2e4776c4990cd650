--------------------------- MODULE ServePluginV1 ---------------------------
(***************************************************************************)
(* The v1 ServePlugin: the host over its socket, one or two negotiations,  *)
(* the plugin's Start, its lifecycle hooks, and its HTTP server.           *)
(*                                                                         *)
(* A hook the host acknowledged is called by the host through the plugin's *)
(* socket; of the others the activation check and the readiness hook are   *)
(* run here, once, before the socket is served, and any third hook is not. *)
(* An older host refuses the whole negotiation because of the hooks, so a  *)
(* second one is made without them.  The plugin, the host and serve.Serve  *)
(* are modelled from their use here.                                       *)
(* A definition whose name starts with Bug is a mistake the definition     *)
(* after it could have been; it is not part of the model.                  *)
(***************************************************************************)
EXTENDS Naturals

CONSTANTS
  Hooks,       \* the hook names
  Activation,  \* HookActivationCheck, whose failure prevents serving
  Ready        \* HookReady, whose failure is logged

ASSUME HookNames == Activation \in Hooks /\ Ready \in Hooks /\ Activation # Ready

VARIABLES
  pc,        \* the step of ServePlugin that runs next
  caller,    \* the caller's context: "live" or "done"
  own,       \* ServePlugin's: "none", "live" or "done"
  given,     \* cfg.Host was set
  can,       \* the optional interfaces of the host
  declared,  \* manifest.Protocol: "nil", "empty", or with a "major"
  impl,      \* DeclaredHooks(p)
  host,      \* the host socket: "none", "open" or "closed"
  offered,   \* the hooks named in the last negotiation
  acked,     \* hostHooks
  broken,    \* host.LastFault() # nil: a registration of the plugin has failed
  plugin,    \* "new", "starting", "running", "failed", "stopping" or "stopped"
  local,     \* the hooks ServePlugin has called
  remote,    \* the hooks the host has called
  faults,    \* the steps that have failed
  result     \* those in the error ServePlugin returns

setting  == <<given, can, declared, impl>>
hostVars == <<host, offered, acked, broken>>
hookVars == <<local, remote>>
errVars  == <<faults, result>>
vars == <<pc, caller, own, setting, hostVars, plugin, hookVars, errVars>>

Interfaces == {"negotiates", "starts", "faults"}

Steps ==
  {"preflight", "negotiate", "retry", "host", "validate", "start", "starting", "faults",
   "activation", "ready", "http", "stop", "stopping", "close", "returned"}

\* What a host answers to a negotiation: whether it answers and speaks a version
\* with the features required, and what negotiateOnce looks at.
Replies == [agrees : BOOLEAN, plugin : {"own", "other"}, generation : BOOLEAN,
            versioned : BOOLEAN, hooks : SUBSET Hooks]

TypeOK ==
  /\ pc \in Steps
  /\ caller \in {"live", "done"}
  /\ own \in {"none", "live", "done"}
  /\ given \in BOOLEAN
  /\ can \subseteq Interfaces
  /\ declared \in {"nil", "empty", "major"}
  /\ impl \subseteq Hooks
  /\ host \in {"none", "open", "closed"}
  /\ offered \subseteq impl
  /\ acked \subseteq offered
  /\ broken \in BOOLEAN
  /\ plugin \in {"new", "starting", "running", "failed", "stopping", "stopped"}
  /\ local \subseteq impl
  /\ remote \subseteq impl
  /\ faults \subseteq Steps
  /\ result \subseteq Steps

Init ==
  /\ pc = "preflight"
  /\ caller = "live"
  /\ own = "none"
  /\ given \in BOOLEAN
  /\ IF given THEN can \in SUBSET Interfaces ELSE can = Interfaces
  /\ declared \in {"nil", "empty", "major"}
  /\ impl \in SUBSET Hooks
  /\ host = "none"
  /\ offered = {}
  /\ acked = {}
  /\ broken = FALSE
  /\ plugin = "new"
  /\ local = {}
  /\ remote = {}
  /\ faults = {}
  /\ result = {}

Goto(step) == pc' = step /\ UNCHANGED errVars

\* return err: the step failed, and what was deferred so far runs.
Refuse(deferred) ==
  /\ faults' = faults \cup {pc}
  /\ result' = {pc}
  /\ pc' = deferred

\* Identity, environment, manifest and context; then the host's socket, whose
\* Close is deferred unless the host was passed in.
Preflight ==
  /\ pc = "preflight"
  /\ \/ Refuse("returned") /\ UNCHANGED host
     \/ caller = "live" /\ Goto("negotiate") /\ host' = "open"
  /\ UNCHANGED <<caller, own, setting, offered, acked, broken, plugin, hookVars>>

-----------------------------------------------------------------------------
(* negotiate and negotiateOnce.                                            *)

\* plugin.CheckProtocol accepts no hook that was not offered.
Admits(r, hooks) ==
  /\ r.agrees
  /\ r.hooks \subseteq hooks
  /\ r.plugin = "own"
  /\ r.versioned => r.generation

\* Nothing to negotiate, or nobody to negotiate with.
NegotiateNothing ==
  /\ pc = "negotiate"
  /\ \/ declared = "nil" /\ impl = {} /\ Goto("host")
     \/ /\ declared # "nil" \/ impl # {}
        /\ "negotiates" \notin can
        /\ IF declared = "major" THEN Refuse("close") ELSE Goto("host")
  /\ UNCHANGED <<caller, own, setting, hostVars, plugin, hookVars>>

Negotiate ==
  /\ pc = "negotiate"
  /\ declared # "nil" \/ impl # {}
  /\ "negotiates" \in can
  /\ offered' = impl
  /\ \E r \in Replies :
       \/ Admits(r, impl) /\ acked' = r.hooks /\ Goto("host")
       \/ /\ ~Admits(r, impl)
          /\ UNCHANGED acked
          /\ CASE impl = {}         -> Refuse("close")
               [] declared = "nil"  -> Goto("host")
               [] OTHER             -> Goto("retry")
  /\ UNCHANGED <<caller, own, setting, host, broken, plugin, hookVars>>

BugRetryKeepsHooks ==
  /\ pc = "retry"
  /\ \E r \in Replies :
       \/ Admits(r, offered) /\ acked' = r.hooks /\ Goto("host")
       \/ ~Admits(r, offered) /\ Refuse("close") /\ UNCHANGED acked
  /\ offered' = {}
  /\ UNCHANGED <<caller, own, setting, host, broken, plugin, hookVars>>

Retry ==
  /\ pc = "retry"
  /\ offered' = {}
  /\ \E r \in Replies : IF Admits(r, {}) THEN Goto("host") ELSE Refuse("close")
  /\ UNCHANGED <<caller, own, setting, host, acked, broken, plugin, hookVars>>

-----------------------------------------------------------------------------
(* The callback stream, Validate and Start.                                *)

HostStart ==
  /\ pc = "host"
  /\ own' = "live"
  /\ Goto("validate") \/ ("starts" \in can /\ Refuse("close"))
  /\ UNCHANGED <<caller, setting, hostVars, plugin, hookVars>>

Validate ==
  /\ pc = "validate"
  /\ Goto("start") \/ Refuse("close")
  /\ UNCHANGED <<caller, own, setting, hostVars, plugin, hookVars>>

Start ==
  /\ pc = "start"
  /\ Goto("starting")
  /\ plugin' = "starting"
  /\ UNCHANGED <<caller, own, setting, hostVars, hookVars>>

BugFailedStartNotStopped ==
  /\ pc = "starting"
  /\ \/ Goto("faults") /\ plugin' = "running"
     \/ Refuse("close") /\ plugin' = "failed"
  /\ UNCHANGED <<caller, own, setting, hostVars, hookVars>>

StartReturns ==
  /\ pc = "starting"
  /\ \/ Goto("faults") /\ plugin' = "running"
     \/ Refuse("stop") /\ plugin' = "failed"
  /\ UNCHANGED <<caller, own, setting, hostVars, hookVars>>

LastFault ==
  /\ pc = "faults"
  /\ IF "faults" \in can /\ broken THEN Refuse("stop") ELSE Goto("activation")
  /\ UNCHANGED <<caller, own, setting, hostVars, plugin, hookVars>>

-----------------------------------------------------------------------------
(* The hooks that stay here, then the socket.                              *)

BugCheckActivation ==
  /\ pc = "activation"
  /\ IF Activation \in impl \ offered
     THEN local' = local \cup {Activation} /\ (Goto("ready") \/ Refuse("stop"))
     ELSE UNCHANGED local /\ Goto("ready")
  /\ UNCHANGED <<caller, own, setting, hostVars, plugin, remote>>

CheckActivation ==
  /\ pc = "activation"
  /\ IF Activation \in impl \ acked
     THEN local' = local \cup {Activation} /\ (Goto("ready") \/ Refuse("stop"))
     ELSE UNCHANGED local /\ Goto("ready")
  /\ UNCHANGED <<caller, own, setting, hostVars, plugin, remote>>

RunReady ==
  /\ pc = "ready"
  /\ Goto("http")
  /\ local' = IF Ready \in impl \ acked THEN local \cup {Ready} ELSE local
  /\ UNCHANGED <<caller, own, setting, hostVars, plugin, remote>>

\* lifecycleHookHandler: a hook that was not acknowledged is not found.
HostCalls(k) ==
  /\ pc = "http"
  /\ k \in acked
  /\ remote' = remote \cup {k}
  /\ UNCHANGED <<pc, caller, own, setting, hostVars, plugin, local, errVars>>

\* ServeContext: it ends with its context, on a signal, or with an error.
HTTPEnds ==
  /\ pc = "http"
  /\ Goto("stop") \/ Refuse("stop")
  /\ UNCHANGED <<caller, own, setting, hostVars, plugin, hookVars>>

-----------------------------------------------------------------------------
(* What was deferred.                                                      *)

Stop ==
  /\ pc = "stop"
  /\ Goto("stopping")
  /\ own' = "done"
  /\ plugin' = "stopping"
  /\ UNCHANGED <<caller, setting, hostVars, hookVars>>

StopReturns ==  \* errors.Join
  /\ pc = "stopping"
  /\ plugin' = "stopped"
  /\ pc' = "close"
  /\ \/ UNCHANGED errVars
     \/ faults' = faults \cup {"stopping"} /\ result' = result \cup {"stopping"}
  /\ UNCHANGED <<caller, own, setting, hostVars, hookVars>>

BugCloseGiven ==
  /\ pc = "close"
  /\ Goto("returned")
  /\ own' = IF own = "live" THEN "done" ELSE own
  /\ host' = "closed"
  /\ UNCHANGED <<caller, setting, offered, acked, broken, plugin, hookVars>>

Close ==  \* cancel, and Close of the host that was made here
  /\ pc = "close"
  /\ Goto("returned")
  /\ own' = IF own = "live" THEN "done" ELSE own
  /\ host' = IF given THEN host ELSE "closed"
  /\ UNCHANGED <<caller, setting, offered, acked, broken, plugin, hookVars>>

-----------------------------------------------------------------------------
\* A Subscribe or an Every fails (RegisterFails of RpcHost): from then on LastFault
\* is not nil.  What ends the stream of callbacks is not in it.
HostFails ==
  /\ own = "live"
  /\ broken' = TRUE
  /\ UNCHANGED <<pc, caller, own, setting, host, offered, acked, plugin, hookVars, errVars>>

CallerCancels ==
  /\ caller = "live"
  /\ caller' = "done"
  /\ UNCHANGED <<pc, own, setting, hostVars, plugin, hookVars, errVars>>

Returned == pc = "returned" /\ UNCHANGED vars

Main ==
  \/ Preflight \/ NegotiateNothing \/ Negotiate \/ Retry \/ HostStart \/ Validate
  \/ Start \/ StartReturns \/ LastFault \/ CheckActivation \/ RunReady
  \/ Stop \/ StopReturns \/ Close

Next ==
  \/ Main \/ HTTPEnds \/ HostFails \/ CallerCancels \/ Returned
  \/ \E k \in Hooks : HostCalls(k)

Spec == Init /\ [][Next]_vars
-----------------------------------------------------------------------------
\* Whatever became of the two negotiations, no hook is both run here and callable
\* by the host; when the plugin is served its activation check and its readiness
\* hook are on one side each, never on neither; and no hook is run before Start
\* has returned nil.  Of the health hook the second is not said: what the host does
\* not acknowledge nobody runs, although "an older host that rejects the
\* advertisement leaves every hook running locally, as before" (plugin_serve.go:29).
HooksOnOneSide ==
  /\ local \cap (acked \cup remote) = {}
  /\ pc = "http" => impl \cap {Activation, Ready} \subseteq local \cup acked
  /\ local \cup remote # {} => plugin \in {"running", "stopping", "stopped"}

\* ServePlugin returns with nothing held and nothing lost: no live context, its
\* own host closed and one that was passed in left open, and every failure but
\* Ready's in the error.
ReturnReleases ==
  pc = "returned" =>
    /\ own # "live"
    /\ host # "none" => host = IF given THEN "open" ELSE "closed"
    /\ result = faults

Lifecycle == INSTANCE PluginLifecycle WITH
  host     <- IF host = "open" /\ pc # "returned" THEN "open" ELSE "closed",
  plugin   <- CASE plugin = "new" -> "new"
                [] plugin \in {"starting", "running", "failed"} -> "started"
                [] OTHER -> "stopped",
  serving  <- pc = "http",
  returned <- pc = "returned"

\* The v1 lifecycle makes the promises of the v2 one: whichever step fails, the
\* plugin is stopped when and only when it was started, with the host reachable
\* from its Start to its Stop, and its socket is served only in between.
ImplementsLifecycle == Lifecycle!Spec
=============================================================================
