------------------------ MODULE ServePluginV1Proofs ------------------------
(***************************************************************************)
(* Proofs about ServePluginV1, for any set of hooks.  Where ServePlugin    *)
(* is decides almost everything: each part of the invariant says what the  *)
(* steps that have run, and no others, have left behind.                   *)
(***************************************************************************)
EXTENDS ServePluginV1, TLAPS

\* The steps before Start is called, and those before a hook can run.
BeforeStart == {"preflight", "negotiate", "retry", "host", "validate", "start"}
BeforeHooks == BeforeStart \cup {"starting", "faults"}

\* Start is called once, Stop after it and only after it; between them the step
\* and the state of the plugin go together.
PluginInStep ==
  /\ pc \in BeforeStart => plugin = "new"
  /\ pc = "starting" => plugin = "starting"
  /\ pc \in {"faults", "activation", "ready", "http"} => plugin = "running"
  /\ pc = "stop" => plugin \in {"running", "failed"}
  /\ pc = "stopping" => plugin = "stopping"
  /\ pc \in {"close", "returned"} => plugin \in {"new", "stopped"}

\* The host is open from the end of the preflight to the deferred Close.
HostInStep ==
  /\ pc = "preflight" => host = "none"
  /\ pc \notin {"preflight", "returned"} => host = "open"
  /\ pc = "returned" /\ host # "none" => host = IF given THEN "open" ELSE "closed"

\* ServePlugin's own context is made after the negotiation and done at the end.
ContextInStep ==
  /\ pc \in {"preflight", "negotiate", "retry", "host"} => own = "none"
  /\ pc = "returned" => own # "live"

\* A step that fails is the last one before what was deferred, and is in result.
FaultsInStep ==
  /\ result = faults
  /\ pc \in BeforeHooks \cup {"activation", "ready", "http"} => faults = {}

\* Until the negotiation has succeeded no hook is the host's, and until Start has
\* returned none has run on either side.
HooksInStep ==
  /\ pc \in {"preflight", "negotiate", "retry"} => acked = {}
  /\ pc \in BeforeHooks => local = {} /\ remote = {}
  /\ plugin = "failed" => local = {} /\ remote = {}
  /\ remote \subseteq acked
  /\ pc = "ready" => impl \cap {Activation} \subseteq local \cup acked

IInv ==
  /\ TypeOK
  /\ PluginInStep
  /\ HostInStep
  /\ ContextInStep
  /\ FaultsInStep
  /\ HooksInStep
  /\ HooksOnOneSide

-----------------------------------------------------------------------------
\* At the start nothing has run and nothing is held.
LEMMA InitIInv == Init => IInv
  BY DEF Init, IInv, TypeOK, Steps, Interfaces, PluginInStep, HostInStep, ContextInStep,
         FaultsInStep, HooksInStep, HooksOnOneSide, BeforeStart, BeforeHooks

\* Every step keeps the inductive invariant.
LEMMA NextIInv == IInv /\ [Next]_vars => IInv'
<1> SUFFICES ASSUME IInv, [Next]_vars PROVE IInv'
  OBVIOUS
<1> USE HookNames DEF IInv, TypeOK, Steps, PluginInStep, HostInStep, ContextInStep, FaultsInStep,
     HooksInStep, HooksOnOneSide, BeforeStart, BeforeHooks, Goto, Refuse, setting, hostVars,
     hookVars, errVars
<1>1. CASE Preflight
  BY <1>1 DEF Preflight
<1>2. CASE NegotiateNothing
  BY <1>2 DEF NegotiateNothing
<1>3. CASE Negotiate
  BY <1>3 DEF Negotiate, Replies, Admits
<1>4. CASE Retry
  BY <1>4 DEF Retry
<1>5. CASE HostStart
  BY <1>5 DEF HostStart
<1>6. CASE Validate
  BY <1>6, ZenonT(60) DEF Validate
<1>7. CASE Start
  BY <1>7 DEF Start
<1>8. CASE StartReturns
  BY <1>8, ZenonT(60) DEF StartReturns
<1>9. CASE LastFault
  BY <1>9, ZenonT(60) DEF LastFault
<1>10. CASE CheckActivation
  BY <1>10, ZenonT(60) DEF CheckActivation
<1>11. CASE RunReady
  BY <1>11 DEF RunReady
<1>12. CASE Stop
  BY <1>12 DEF Stop
<1>13. CASE StopReturns
  BY <1>13, ZenonT(60) DEF StopReturns
<1>14. CASE Close
  BY <1>14 DEF Close
<1>15. CASE HTTPEnds
  BY <1>15, ZenonT(60) DEF HTTPEnds
<1>16. CASE HostFails
  BY <1>16 DEF HostFails
<1>17. CASE CallerCancels
  BY <1>17 DEF CallerCancels
<1>18. ASSUME NEW k \in Hooks, HostCalls(k) PROVE IInv'
  BY <1>18 DEF HostCalls
<1>19. CASE UNCHANGED vars
  BY <1>19 DEF vars
<1>20. QED
  BY <1>1, <1>2, <1>3, <1>4, <1>5, <1>6, <1>7, <1>8, <1>9, <1>10, <1>11, <1>12, <1>13, <1>14,
     <1>15, <1>16, <1>17, <1>18, <1>19
  DEF Next, Main, Returned

\* The inductive invariant holds in every reachable state.
THEOREM Invariance == Spec => []IInv
<1>1. QED
  BY InitIInv, NextIInv, PTL DEF Spec

-----------------------------------------------------------------------------
(* What follows from it.                                                   *)

\* Every variable keeps its type.
THEOREM TypeCorrect == Spec => []TypeOK
<1>1. IInv => TypeOK
  BY DEF IInv
<1>2. QED
  BY <1>1, Invariance, PTL

\* A hook is run here or by the host, never by both, and a served plugin's
\* activation and readiness hooks by one of them.
THEOREM OneSide == Spec => []HooksOnOneSide
<1>1. IInv => HooksOnOneSide
  BY DEF IInv
<1>2. QED
  BY <1>1, Invariance, PTL

\* When ServePlugin has returned it holds nothing, and no failure is lost.
THEOREM Releases == Spec => []ReturnReleases
<1>1. IInv => ReturnReleases
  BY DEF IInv, HostInStep, ContextInStep, FaultsInStep, ReturnReleases
<1>2. QED
  BY <1>1, Invariance, PTL

-----------------------------------------------------------------------------
(* The refinement.                                                         *)

\* Before the preflight has passed nothing is open and nothing has started.
LEMMA LifecycleInit == Init => Lifecycle!Init
  BY DEF Init, Lifecycle!Init

\* A step that leaves host and plugin alone, and neither enters nor leaves the
\* HTTP server or the end, is invisible to the lifecycle.
LEMMA LifecycleStutters ==
  ASSUME UNCHANGED <<host, plugin>>,
         pc' = "http" <=> pc = "http",
         pc' = "returned" <=> pc = "returned"
  PROVE  UNCHANGED Lifecycle!vars
  BY DEF Lifecycle!vars

\* Every step of ServePlugin is a step of the lifecycle or invisible to it.
LEMMA LifecycleNext == IInv /\ [Next]_vars => [Lifecycle!Next]_(Lifecycle!vars)
<1> SUFFICES ASSUME IInv, [Next]_vars PROVE [Lifecycle!Next]_(Lifecycle!vars)
  OBVIOUS
<1> USE DEF Goto, Refuse, hostVars
<1>0. TypeOK /\ PluginInStep /\ HostInStep
  BY DEF IInv
<1>1. ASSUME Preflight, pc' = "returned" PROVE Lifecycle!Return
  BY <1>0, <1>1 DEF Preflight, PluginInStep, HostInStep, BeforeStart, Lifecycle!Return
<1>2. ASSUME Preflight, pc' = "negotiate" PROVE Lifecycle!Open
  BY <1>0, <1>2 DEF Preflight, PluginInStep, HostInStep, BeforeStart, Lifecycle!Open
<1>3. ASSUME Start PROVE Lifecycle!Start
  BY <1>0, <1>3 DEF Start, PluginInStep, HostInStep, BeforeStart, Lifecycle!Start
<1>4. ASSUME RunReady PROVE Lifecycle!Serve
  BY <1>0, <1>4 DEF RunReady, PluginInStep, HostInStep, Lifecycle!Serve
<1>5. ASSUME HTTPEnds PROVE Lifecycle!Withdraw
  BY <1>0, <1>5 DEF HTTPEnds, HostInStep, Lifecycle!Withdraw
<1>6. ASSUME Stop PROVE Lifecycle!Stop
  BY <1>0, <1>6 DEF Stop, PluginInStep, HostInStep, Lifecycle!Stop
<1>7. ASSUME Close PROVE Lifecycle!Return
  BY <1>0, <1>7 DEF Close, PluginInStep, Lifecycle!Return
<1>8. ASSUME NegotiateNothing \/ Negotiate \/ Retry PROVE UNCHANGED Lifecycle!vars
  BY <1>8, LifecycleStutters DEF NegotiateNothing, Negotiate, Retry
<1>9. ASSUME HostStart \/ Validate \/ LastFault \/ CheckActivation
      PROVE  UNCHANGED Lifecycle!vars
  BY <1>9, LifecycleStutters DEF HostStart, Validate, LastFault, CheckActivation
<1>10. ASSUME StartReturns \/ StopReturns PROVE UNCHANGED Lifecycle!vars
  BY <1>0, <1>10 DEF StartReturns, StopReturns, PluginInStep, Lifecycle!vars
<1>11. ASSUME HostFails \/ CallerCancels \/ UNCHANGED vars \/ \E k \in Hooks : HostCalls(k)
       PROVE  UNCHANGED Lifecycle!vars
  BY <1>11, LifecycleStutters DEF HostFails, CallerCancels, HostCalls, vars
<1>12. QED
  BY <1>1, <1>2, <1>3, <1>4, <1>5, <1>6, <1>7, <1>8, <1>9, <1>10, <1>11
  DEF Next, Main, Returned, Preflight, Lifecycle!Next

\* The v1 lifecycle implements PluginLifecycle.
THEOREM Refinement == Spec => ImplementsLifecycle
<1>1. QED
  BY LifecycleInit, LifecycleNext, Invariance, PTL DEF Spec, ImplementsLifecycle, Lifecycle!Spec

-----------------------------------------------------------------------------
(* What PluginLifecycle promises of every implementation of it.            *)

\* The types are needed too: a plugin is in one of three states.
LifecycleInv == Lifecycle!TypeOK /\ Lifecycle!HostOutlivesPlugin

\* The contract's own steps keep the host reachable while the plugin is started, and
\* take the plugin onward only.
LEMMA LifecycleStep ==
  ASSUME LifecycleInv, [Lifecycle!Next]_(Lifecycle!vars)
  PROVE  LifecycleInv' /\ [Lifecycle!Onward]_(Lifecycle!vars)
<1> USE DEF LifecycleInv, Lifecycle!TypeOK, Lifecycle!HostOutlivesPlugin, Lifecycle!Onward,
     Lifecycle!vars
<1>1. CASE Lifecycle!Open
  BY <1>1 DEF Lifecycle!Open
<1>2. CASE Lifecycle!Start
  BY <1>2 DEF Lifecycle!Start
<1>3. CASE Lifecycle!Serve
  BY <1>3 DEF Lifecycle!Serve
<1>4. CASE Lifecycle!Withdraw
  BY <1>4 DEF Lifecycle!Withdraw
<1>5. CASE Lifecycle!Stop
  BY <1>5 DEF Lifecycle!Stop
<1>6. CASE Lifecycle!Return
  BY <1>6 DEF Lifecycle!Return
<1>7. CASE UNCHANGED Lifecycle!vars
  BY <1>7
<1>8. QED
  BY <1>1, <1>2, <1>3, <1>4, <1>5, <1>6, <1>7 DEF Lifecycle!Next

\* Whatever implements PluginLifecycle keeps the host reachable from Start to Stop,
\* starts and stops the plugin once, and does nothing after it has returned.
THEOREM LifecyclePromises ==
  Lifecycle!Spec => []Lifecycle!HostOutlivesPlugin /\ Lifecycle!StartsAndStopsOnce
<1>1. Lifecycle!Init => LifecycleInv
  BY DEF Lifecycle!Init, LifecycleInv, Lifecycle!TypeOK, Lifecycle!HostOutlivesPlugin
<1>2. LifecycleInv /\ [Lifecycle!Next]_(Lifecycle!vars)
        => LifecycleInv' /\ [Lifecycle!Onward]_(Lifecycle!vars)
  BY LifecycleStep
<1>3. LifecycleInv => Lifecycle!HostOutlivesPlugin
  BY DEF LifecycleInv
<1>4. Lifecycle!Spec => []LifecycleInv /\ [][Lifecycle!Onward]_(Lifecycle!vars)
  BY <1>1, <1>2, PTL DEF Lifecycle!Spec
<1>5. QED
  BY <1>3, <1>4, PTL DEF Lifecycle!StartsAndStopsOnce

\* The v1 ServePlugin keeps the same promises towards its host: one Start, one Stop
\* after it, the host open and the socket served in no other time than between.
THEOREM HostOutlives == Spec => []Lifecycle!HostOutlivesPlugin /\ Lifecycle!StartsAndStopsOnce
<1>1. QED
  BY Refinement, LifecyclePromises DEF ImplementsLifecycle
=============================================================================
