------------------------- MODULE ServePluginProofs -------------------------
(***************************************************************************)
(* Proofs about ServePlugin, for any hooks, capabilities, features, ids,   *)
(* generations and tokens.  The parts of the invariant say what the steps  *)
(* that have run have left behind, and what the hooks' goroutines may      *)
(* still hold of it.                                                       *)
(***************************************************************************)
EXTENDS ServePlugin, TLAPS

\* The steps before there is a connection, a context, a binding; before Start.
Connecting  == {"preflight", "creds", "creds_missing", "creds_wait", "dial"}
Negotiating == {"negotiate", "check"}
BeforeStart == Connecting \cup Negotiating \cup {"bind", "validate", "start"}
Serving     == {"mount", "http", "stop_service"}
Ending      == {"cancel", "close_bus", "returned"}

\* Start is called once, Stop after it and only after it.
PluginInStep ==
  /\ pc \in BeforeStart => plugin = "new"
  /\ pc = "starting" => plugin = "starting"
  /\ pc \in Serving => plugin = "running"
  /\ pc = "stop_plugin" => plugin \in {"running", "failed"}
  /\ pc = "stopping" => plugin = "stopping"
  /\ pc \in Ending => plugin \in {"new", "stopped"}

\* The bus is open from the dial to the deferred Close, and one that was passed
\* in is never closed.
BusInStep ==
  /\ pc \in Connecting => bus = "none"
  /\ pc \in Connecting \ {"preflight"} => ~given
  /\ pc \notin Connecting \cup Ending => bus = "open"
  /\ given => bus # "closed"
  /\ pc = "returned" /\ ~given => bus # "open"

\* ServePlugin's own context is made by the check and done when Stop is called.
ContextInStep ==
  /\ pc \in Connecting \cup Negotiating => own = "none"
  /\ plugin \in {"stopping", "stopped"} => own = "done"
  /\ pc \in {"close_bus", "returned"} => own # "live"

\* A step that fails is the last one before what was deferred, and is in result.
FaultsInStep ==
  /\ result = faults
  /\ pc \in BeforeStart \cup {"starting", "mount", "http"} => faults = {}

\* The host's answer is looked at before anything is bound to it.
BindingInStep ==
  /\ pc \notin Connecting \cup {"negotiate"} \cup Ending => reply \in Replies
  /\ pc \in Connecting \cup Negotiating \cup {"bind"} => binding = NoBinding
  /\ pc = "bind" => CheckProtocol(reply, Effective(reply)) /\ CheckIdentity(reply)
  /\ pc \in {"validate", "start"} => binding # NoBinding

\* Endpoints are mounted while the plugin runs, and a call taken off the queue of
\* one outlives it by one run.
HooksInStep ==
  /\ mounted # {} => pc \in Serving
  /\ \A k \in Hooks :
       /\ hook[k] # "idle" => plugin \in {"running", "stopping", "stopped"}
       /\ plugin \notin {"stopping", "stopped"} => late[k] = 0
       /\ hook[k] = "taken" => late[k] = 0
       /\ late[k] <= 1

InStep == PluginInStep /\ BusInStep /\ ContextInStep /\ FaultsInStep

Bound == BindingInStep /\ BindingIsOneGeneration

IInv ==
  /\ TypeOK
  /\ InStep
  /\ Bound
  /\ HooksInStep

-----------------------------------------------------------------------------
\* The steps the code names.
LEMMA StepNames ==
  /\ "preflight" \in Steps /\ "creds" \in Steps /\ "creds_missing" \in Steps
  /\ "creds_wait" \in Steps /\ "dial" \in Steps /\ "negotiate" \in Steps
  /\ "check" \in Steps /\ "bind" \in Steps /\ "validate" \in Steps
  /\ "start" \in Steps /\ "starting" \in Steps /\ "mount" \in Steps
  /\ "http" \in Steps /\ "stop_service" \in Steps /\ "stop_plugin" \in Steps
  /\ "stopping" \in Steps /\ "cancel" \in Steps /\ "close_bus" \in Steps
  /\ "returned" \in Steps
  BY DEF Steps

\* At the start nothing has run and nothing is held.
LEMMA InitIInv == Init => IInv
<1> SUFFICES ASSUME Init PROVE IInv
  OBVIOUS
<1> USE DEF Init
<1>1. TypeOK
  <2>1. hook \in [Hooks -> {"idle", "taken", "running"}] /\ late \in [Hooks -> 0 .. 2]
    OBVIOUS
  <2>2. given \in BOOLEAN /\ expired \in BOOLEAN
    OBVIOUS
  <2>3. QED
    BY <2>1, <2>2, StepNames DEF TypeOK
<1>2. PluginInStep /\ BusInStep /\ ContextInStep /\ FaultsInStep
  BY DEF PluginInStep, BusInStep, ContextInStep, FaultsInStep, Connecting, Negotiating,
         BeforeStart, Serving, Ending
<1>3. BindingInStep /\ BindingIsOneGeneration
  BY DEF BindingInStep, BindingIsOneGeneration, Connecting
<1>4. HooksInStep
  BY DEF HooksInStep
<1>5. QED
  BY <1>1, <1>2, <1>3, <1>4 DEF IInv, InStep, Bound

\* A reply that passed the checks makes a binding, to one generation of this plugin.
LEMMA CheckedReplyBinds ==
  ASSUME NEW r \in Replies, TypeOK, CheckProtocol(r, Effective(r)), CheckIdentity(r)
  PROVE  LET b == BindingOf(r) IN
         /\ b \in Bindings
         /\ b.plugin = Id
         /\ b.generation = r.generation /\ b.generation # NoGeneration
         /\ Needs \subseteq b.caps
         /\ ~given => b.caps \subseteq TransportCaps
         /\ (b.token # NoToken) <=> (WorkloadAuth \in r.features)
  BY NeedTypes
  DEF Replies, Bindings, CheckProtocol, CheckIdentity, BindingOf, Effective, TypeOK

\* A step that fails or goes on leaves control at a step and the errors sets of steps.
LEMMA ControlTyped ==
  ASSUME TypeOK, NEW step \in Steps, Refuse(step) \/ Goto(step)
  PROVE  pc' \in Steps /\ faults' \subseteq Steps /\ result' \subseteq Steps
  BY DEF TypeOK, Refuse, Goto, errVars

\* Every step keeps every variable within its type.
LEMMA NextTypeOK == IInv /\ [Next]_vars => TypeOK'
<1> SUFFICES ASSUME IInv, [Next]_vars PROVE TypeOK'
  OBVIOUS
<1>0. TypeOK
  BY DEF IInv, InStep, Bound
<1> USE <1>0, StepNames DEF TypeOK, hostVars, hookVars, errVars
<1>1. CASE Preflight
  BY <1>1, ControlTyped DEF Preflight
<1>2. CASE WaitForCreds
  BY <1>2, ControlTyped DEF WaitForCreds
<1>3. CASE CredsDeadline
  BY <1>3, ControlTyped DEF CredsDeadline
<1>4. CASE CredsPoll
  BY <1>4, ControlTyped DEF CredsPoll
<1>5. CASE Dial
  BY <1>5, ControlTyped DEF Dial
<1>6. CASE Negotiate
  BY <1>6, ControlTyped DEF Negotiate
<1>7. CASE Check
  BY <1>7, ControlTyped DEF Check
<1>8. CASE Bind
  BY <1>8, ControlTyped, CheckedReplyBinds DEF Bind, BindingInStep, IInv, InStep, Bound,
     Connecting, Ending
<1>9. CASE Validate
  BY <1>9, ControlTyped DEF Validate
<1>10. CASE Start
  BY <1>10, ControlTyped DEF Start
<1>11. CASE StartReturns
  BY <1>11, ControlTyped DEF StartReturns
<1>12. CASE MountDiscovery
  BY <1>12, ControlTyped DEF MountDiscovery
<1>13. CASE ServiceStopped
  BY <1>13, ControlTyped DEF ServiceStopped
<1>14. CASE StopPlugin
  BY <1>14, ControlTyped DEF StopPlugin
<1>15. CASE StopReturns
  BY <1>15, ZenonT(60) DEF StopReturns
<1>16. CASE Cancel
  BY <1>16, ControlTyped DEF Cancel
<1>17. CASE CloseBus
  BY <1>17, ControlTyped DEF CloseBus
<1>18. CASE HTTPEnds
  BY <1>18, ControlTyped DEF HTTPEnds
<1>19. CASE HostCreatesCreds
  BY <1>19 DEF HostCreatesCreds
<1>20. CASE HostWritesCreds
  BY <1>20 DEF HostWritesCreds
<1>21. CASE CredsWaitExpires
  BY <1>21 DEF CredsWaitExpires
<1>22. CASE CallerCancels
  BY <1>22 DEF CallerCancels
<1>23. ASSUME NEW k \in Hooks, MountHook(k) PROVE TypeOK'
  <2>1. pc' \in Steps /\ faults' \subseteq Steps /\ result' \subseteq Steps
    BY <1>23, ControlTyped DEF MountHook
  <2>2. mounted' \subseteq Hooks
    BY <1>23 DEF MountHook
  <2>3. QED
    BY <1>23, <2>1, <2>2 DEF MountHook
<1>24. ASSUME NEW k \in Hooks, CancelHook(k) PROVE TypeOK'
  BY <1>24 DEF CancelHook
<1>25. ASSUME NEW k \in Hooks, TakeCall(k) PROVE TypeOK'
  BY <1>25 DEF TakeCall
<1>26. ASSUME NEW k \in Hooks, RunHook(k) PROVE TypeOK'
  BY <1>26 DEF RunHook
<1>27. ASSUME NEW k \in Hooks, HookReturns(k) PROVE TypeOK'
  BY <1>27 DEF HookReturns
<1>28. ASSUME NEW k \in Hooks, BrokerDenies(k) PROVE TypeOK'
  BY <1>28 DEF BrokerDenies
<1>29. CASE UNCHANGED vars
  BY <1>29 DEF vars
<1>30. QED
  BY <1>1, <1>2, <1>3, <1>4, <1>5, <1>6, <1>7, <1>8, <1>9, <1>10, <1>11, <1>12,
     <1>13, <1>14, <1>15, <1>16, <1>17, <1>18, <1>19, <1>20, <1>21, <1>22, <1>23,
     <1>24, <1>25, <1>26, <1>27, <1>28, <1>29
  DEF Next, Main, Returned

\* What a step leaves of the plugin, the bus and the contexts fits the step after it.
LEMMA NextInStep == IInv /\ [Next]_vars => InStep'
<1> SUFFICES ASSUME IInv, [Next]_vars PROVE InStep'
  OBVIOUS
<1>0. TypeOK /\ InStep
  BY DEF IInv, InStep, Bound
<1> USE <1>0 DEF InStep, PluginInStep, BusInStep, ContextInStep, FaultsInStep, Connecting,
   Negotiating,
     BeforeStart, Serving, Ending, Goto, Refuse, hostVars, hookVars, errVars
<1>1. CASE Preflight
  BY <1>1 DEF Preflight
<1>2. CASE WaitForCreds
  BY <1>2 DEF WaitForCreds
<1>3. CASE CredsDeadline
  BY <1>3 DEF CredsDeadline
<1>4. CASE CredsPoll
  BY <1>4 DEF CredsPoll
<1>5. CASE Dial
  BY <1>5 DEF Dial
<1>6. CASE Negotiate
  BY <1>6 DEF Negotiate
<1>7. CASE Check
  BY <1>7 DEF Check
<1>8. CASE Bind
  BY <1>8 DEF Bind
<1>9. CASE Validate
  BY <1>9 DEF Validate
<1>10. CASE Start
  BY <1>10 DEF Start
<1>11. CASE StartReturns
  BY <1>11 DEF StartReturns
<1>12. CASE MountDiscovery
  BY <1>12 DEF MountDiscovery
<1>13. CASE ServiceStopped
  BY <1>13 DEF ServiceStopped
<1>14. CASE StopPlugin
  BY <1>14 DEF StopPlugin
<1>15. CASE StopReturns
  BY <1>15 DEF StopReturns
<1>16. CASE Cancel
  BY <1>16 DEF Cancel
<1>17. CASE CloseBus
  BY <1>17 DEF CloseBus
<1>18. CASE HTTPEnds
  BY <1>18 DEF HTTPEnds
<1>19. CASE HostCreatesCreds
  BY <1>19 DEF HostCreatesCreds
<1>20. CASE HostWritesCreds
  BY <1>20 DEF HostWritesCreds
<1>21. CASE CredsWaitExpires
  BY <1>21 DEF CredsWaitExpires
<1>22. CASE CallerCancels
  BY <1>22 DEF CallerCancels
<1>23. ASSUME NEW k \in Hooks, MountHook(k) PROVE InStep'
  BY <1>23 DEF MountHook
<1>24. ASSUME NEW k \in Hooks, CancelHook(k) PROVE InStep'
  BY <1>24 DEF CancelHook
<1>25. ASSUME NEW k \in Hooks, TakeCall(k) PROVE InStep'
  BY <1>25 DEF TakeCall
<1>26. ASSUME NEW k \in Hooks, RunHook(k) PROVE InStep'
  BY <1>26 DEF RunHook
<1>27. ASSUME NEW k \in Hooks, HookReturns(k) PROVE InStep'
  BY <1>27 DEF HookReturns
<1>28. ASSUME NEW k \in Hooks, BrokerDenies(k) PROVE InStep'
  BY <1>28 DEF BrokerDenies
<1>29. CASE UNCHANGED vars
  BY <1>29 DEF vars
<1>30. QED
  BY <1>1, <1>2, <1>3, <1>4, <1>5, <1>6, <1>7, <1>8, <1>9, <1>10, <1>11, <1>12, <1>13,
     <1>14, <1>15, <1>16, <1>17, <1>18, <1>19, <1>20, <1>21, <1>22, <1>23, <1>24, <1>25,
     <1>26, <1>27, <1>28, <1>29
  DEF Next, Main, Returned

\* The binding stands as long as nothing it was made from is touched, and whatever
\* else the step does it may not lead to the steps that make it.
LEMMA BindingStands ==
  ASSUME IInv, UNCHANGED <<given, reply, binding>>,
         pc' = pc \/ pc' \notin {"check", "bind"},
         pc' \in Connecting => pc \in Connecting,
         pc' = "negotiate" => pc \in Connecting \cup {"negotiate"},
         pc' \notin Connecting \cup {"negotiate"} \cup Ending
           => pc \notin Connecting \cup {"negotiate"} \cup Ending,
         pc' \in {"validate", "start"} => pc \in {"validate", "start"},
         plugin' # "new" => plugin # "new" \/ pc = "start"
  PROVE  Bound'
<1> USE DEF IInv, InStep, Bound, BindingInStep, BindingIsOneGeneration
<1>1. BindingIsOneGeneration'
  OBVIOUS
<1>2. pc' = "bind" => (CheckProtocol(reply, Effective(reply)) /\ CheckIdentity(reply))'
  BY DEF CheckProtocol, CheckIdentity, Effective
<1>3. QED
  BY <1>1, <1>2 DEF Negotiating, Connecting, Ending

\* Every step keeps the binding one generation's.
LEMMA NextBinding == IInv /\ [Next]_vars => Bound'
<1> SUFFICES ASSUME IInv, [Next]_vars PROVE Bound'
  OBVIOUS
<1> USE DEF Bound, Goto, Refuse, hostVars, hookVars, errVars
<1>1. CASE Preflight
  BY <1>1, BindingStands DEF Preflight, Connecting, Ending
<1>2. CASE WaitForCreds
  BY <1>2, BindingStands DEF WaitForCreds, Connecting, Ending
<1>3. CASE CredsDeadline
  BY <1>3, BindingStands DEF CredsDeadline, Connecting, Ending
<1>4. CASE CredsPoll
  BY <1>4, BindingStands DEF CredsPoll, Connecting, Ending
<1>5. CASE Dial
  BY <1>5, BindingStands DEF Dial, Connecting, Ending
<1>6. CASE Negotiate
  <2>1. binding = NoBinding /\ binding' = NoBinding /\ plugin' = "new"
    BY <1>6 DEF Negotiate, IInv, InStep, Bound, BindingInStep, PluginInStep, Negotiating,
       Connecting, BeforeStart
  <2>2. (pc' = "check" /\ reply' \in Replies) \/ pc' = "cancel"
    BY <1>6 DEF Negotiate
  <2>3. QED
    BY <2>1, <2>2 DEF BindingInStep, BindingIsOneGeneration, Negotiating, Connecting, Ending
<1>7. CASE Check
  <2>1. binding = NoBinding /\ binding' = NoBinding /\ plugin' = "new" /\ reply \in Replies
    BY <1>7 DEF Check, IInv, InStep, Bound, BindingInStep, PluginInStep, Negotiating,
       Connecting, BeforeStart, Ending
  <2>2. /\ reply' = reply /\ given' = given
        /\ \/ pc' = "bind" /\ CheckProtocol(reply, Effective(reply)) /\ CheckIdentity(reply)
           \/ pc' = "cancel"
    BY <1>7 DEF Check
  <2>3. pc' = "bind" => (CheckProtocol(reply, Effective(reply)) /\ CheckIdentity(reply))'
    BY <2>2 DEF CheckProtocol, CheckIdentity, Effective
  <2>4. QED
    BY <2>1, <2>2, <2>3
    DEF BindingInStep, BindingIsOneGeneration, Negotiating, Connecting, Ending
<1>8. CASE Bind
  <2>1. /\ binding = NoBinding /\ reply \in Replies /\ reply' = reply /\ given' = given
        /\ plugin' = "new" /\ CheckProtocol(reply, Effective(reply)) /\ CheckIdentity(reply)
    BY <1>8 DEF Bind, IInv, InStep, Bound, BindingInStep, PluginInStep, Negotiating,
       Connecting, BeforeStart, Ending
  <2>2. CASE pc' = "cancel" /\ binding' = binding
    BY <2>1, <2>2 DEF BindingInStep, BindingIsOneGeneration, Negotiating, Connecting, Ending
  <2>3. CASE pc' = "validate" /\ binding' = BindingOf(reply)
    <3>1. binding' \in Bindings /\ BindingIsOneGeneration'
      BY <2>1, <2>3, CheckedReplyBinds DEF BindingIsOneGeneration, IInv, InStep, Bound
    <3>2. QED
      BY <2>1, <2>3, <3>1, NoneIsNone
      DEF BindingInStep, Negotiating, Connecting, Ending
  <2>4. QED
    BY <1>8, <2>2, <2>3 DEF Bind
<1>9. CASE Validate
  BY <1>9, BindingStands DEF Validate, Connecting, Ending
<1>10. CASE Start
  BY <1>10, BindingStands DEF Start, Connecting, Ending
<1>11. CASE StartReturns
  BY <1>11, BindingStands DEF StartReturns, Connecting, Ending, IInv, InStep, Bound,
     PluginInStep
<1>12. CASE MountDiscovery
  BY <1>12, BindingStands DEF MountDiscovery, Connecting, Ending
<1>13. CASE ServiceStopped
  BY <1>13, BindingStands DEF ServiceStopped, Connecting, Ending
<1>14. CASE StopPlugin
  BY <1>14, BindingStands DEF StopPlugin, Connecting, Ending, IInv, InStep, Bound,
     PluginInStep
<1>15. CASE StopReturns
  BY <1>15, BindingStands DEF StopReturns, Connecting, Ending, IInv, InStep, Bound,
     PluginInStep
<1>16. CASE Cancel
  BY <1>16, BindingStands DEF Cancel, Connecting, Ending
<1>17. CASE CloseBus
  BY <1>17, BindingStands DEF CloseBus, Connecting, Ending
<1>18. CASE HTTPEnds
  BY <1>18, BindingStands DEF HTTPEnds, Connecting, Ending
<1>19. CASE HostCreatesCreds
  BY <1>19, BindingStands DEF HostCreatesCreds
<1>20. CASE HostWritesCreds
  BY <1>20, BindingStands DEF HostWritesCreds
<1>21. CASE CredsWaitExpires
  BY <1>21, BindingStands DEF CredsWaitExpires
<1>22. CASE CallerCancels
  BY <1>22, BindingStands DEF CallerCancels
<1>23. ASSUME NEW k \in Hooks, MountHook(k) PROVE Bound'
  BY <1>23, BindingStands DEF MountHook, Connecting, Ending
<1>24. ASSUME NEW k \in Hooks, CancelHook(k) PROVE Bound'
  BY <1>24, BindingStands DEF CancelHook
<1>25. ASSUME NEW k \in Hooks, TakeCall(k) PROVE Bound'
  BY <1>25, BindingStands DEF TakeCall
<1>26. ASSUME NEW k \in Hooks, RunHook(k) PROVE Bound'
  BY <1>26, BindingStands DEF RunHook
<1>27. ASSUME NEW k \in Hooks, HookReturns(k) PROVE Bound'
  BY <1>27, BindingStands DEF HookReturns
<1>28. ASSUME NEW k \in Hooks, BrokerDenies(k) PROVE Bound'
  BY <1>28, BindingStands DEF BrokerDenies
<1>29. CASE UNCHANGED vars
  BY <1>29, BindingStands DEF vars
<1>30. QED
  BY <1>1, <1>2, <1>3, <1>4, <1>5, <1>6, <1>7, <1>8, <1>9, <1>10, <1>11, <1>12, <1>13,
     <1>14, <1>15, <1>16, <1>17, <1>18, <1>19, <1>20, <1>21, <1>22, <1>23, <1>24, <1>25,
     <1>26, <1>27, <1>28, <1>29
  DEF Next, Main, Returned

\* Every step keeps the hooks inside the start.
LEMMA NextHooks == IInv /\ [Next]_vars => HooksInStep'
<1> SUFFICES ASSUME IInv, [Next]_vars PROVE HooksInStep'
  OBVIOUS
<1>0. TypeOK /\ PluginInStep /\ HooksInStep
  BY DEF IInv, InStep, Bound
<1> USE <1>0 DEF PluginInStep, HooksInStep, Connecting, Negotiating, BeforeStart, Serving,
     Ending, Goto, Refuse, hostVars, hookVars
<1>1. CASE Preflight
  BY <1>1 DEF Preflight
<1>2. CASE WaitForCreds
  BY <1>2 DEF WaitForCreds
<1>3. CASE CredsDeadline
  BY <1>3 DEF CredsDeadline
<1>4. CASE CredsPoll
  BY <1>4 DEF CredsPoll
<1>5. CASE Dial
  BY <1>5 DEF Dial
<1>6. CASE Negotiate
  BY <1>6 DEF Negotiate
<1>7. CASE Check
  BY <1>7 DEF Check
<1>8. CASE Bind
  BY <1>8 DEF Bind
<1>9. CASE Validate
  BY <1>9 DEF Validate
<1>10. CASE Start
  BY <1>10 DEF Start
<1>11. CASE StartReturns
  BY <1>11 DEF StartReturns
<1>12. CASE MountDiscovery
  BY <1>12 DEF MountDiscovery
<1>13. CASE ServiceStopped
  BY <1>13 DEF ServiceStopped
<1>14. CASE StopPlugin
  BY <1>14 DEF StopPlugin
<1>15. CASE StopReturns
  BY <1>15 DEF StopReturns
<1>16. CASE Cancel
  BY <1>16 DEF Cancel
<1>17. CASE CloseBus
  BY <1>17 DEF CloseBus
<1>18. CASE HTTPEnds
  BY <1>18 DEF HTTPEnds
<1>19. CASE HostCreatesCreds
  BY <1>19 DEF HostCreatesCreds
<1>20. CASE HostWritesCreds
  BY <1>20 DEF HostWritesCreds
<1>21. CASE CredsWaitExpires
  BY <1>21 DEF CredsWaitExpires
<1>22. CASE CallerCancels
  BY <1>22 DEF CallerCancels
<1>23. ASSUME NEW k \in Hooks, MountHook(k) PROVE HooksInStep'
  BY <1>23 DEF MountHook, TypeOK
<1>24. ASSUME NEW k \in Hooks, CancelHook(k) PROVE HooksInStep'
  BY <1>24 DEF CancelHook, TypeOK
<1>25. ASSUME NEW k \in Hooks, TakeCall(k) PROVE HooksInStep'
  BY <1>25 DEF TakeCall, TypeOK
<1>26. ASSUME NEW k \in Hooks, RunHook(k) PROVE HooksInStep'
  BY <1>26 DEF RunHook, TypeOK
<1>27. ASSUME NEW k \in Hooks, HookReturns(k) PROVE HooksInStep'
  BY <1>27 DEF HookReturns, TypeOK
<1>28. ASSUME NEW k \in Hooks, BrokerDenies(k) PROVE HooksInStep'
  BY <1>28 DEF BrokerDenies, TypeOK
<1>29. CASE UNCHANGED vars
  BY <1>29 DEF vars
<1>30. QED
  BY <1>1, <1>2, <1>3, <1>4, <1>5, <1>6, <1>7, <1>8, <1>9, <1>10, <1>11, <1>12, <1>13,
     <1>14, <1>15, <1>16, <1>17, <1>18, <1>19, <1>20, <1>21, <1>22, <1>23, <1>24, <1>25,
     <1>26, <1>27, <1>28, <1>29
  DEF Next, Main, Returned

\* Every step keeps the inductive invariant.
LEMMA NextIInv == IInv /\ [Next]_vars => IInv'
<1>1. QED
  BY NextTypeOK, NextInStep, NextBinding, NextHooks DEF IInv

\* The inductive invariant holds in every reachable state.
THEOREM Invariance == Spec => []IInv
<1>1. QED
  BY InitIInv, NextIInv, PTL DEF Spec

-----------------------------------------------------------------------------
(* What follows from it.                                                   *)

\* Every variable keeps its type.
THEOREM TypeCorrect == Spec => []TypeOK
<1>1. IInv => TypeOK
  BY DEF IInv, InStep, Bound
<1>2. QED
  BY <1>1, Invariance, PTL

\* The plugin's own code runs bound to the one generation that passed the checks.
THEOREM OneGeneration == Spec => []BindingIsOneGeneration
<1>1. IInv => BindingIsOneGeneration
  BY DEF IInv, InStep, Bound
<1>2. QED
  BY <1>1, Invariance, PTL

\* No hook runs before Start has succeeded or with a live context after Stop was
\* called, and at most one begins per endpoint once it was.
THEOREM HooksInside == Spec => []HooksRunInsideTheStart
<1>1. IInv => HooksRunInsideTheStart
  BY DEF IInv, InStep, Bound, ContextInStep, HooksInStep, HooksRunInsideTheStart
<1>2. QED
  BY <1>1, Invariance, PTL

\* When ServePlugin has returned it holds nothing, and no failure is lost.
THEOREM Releases == Spec => []ReturnReleases
<1>1. IInv => ReturnReleases
  BY DEF IInv, InStep, Bound, TypeOK, BusInStep, ContextInStep, FaultsInStep, HooksInStep,
     ReturnReleases,
         Serving
<1>2. QED
  BY <1>1, Invariance, PTL

-----------------------------------------------------------------------------
(* The refinement.                                                         *)

\* Before the preflight nothing is open and nothing has started.
LEMMA LifecycleInit == Init => Lifecycle!Init
  BY DEF Init, Lifecycle!Init

\* A step that leaves the bus, the plugin and the mounts alone is invisible to the
\* lifecycle, unless it comes to the end, or to the HTTP server or leaves it.
LEMMA LifecycleStutters ==
  ASSUME UNCHANGED <<bus, plugin, mounted>>,
         pc' = "http" <=> pc = "http",
         pc' = "returned" <=> pc = "returned",
         (pc = "preflight" \/ pc' = "preflight") => bus # "open"
  PROVE  UNCHANGED Lifecycle!vars
  BY DEF Lifecycle!vars

\* Every step of ServePlugin is a step of the lifecycle or invisible to it.
LEMMA LifecycleNext == IInv /\ [Next]_vars => [Lifecycle!Next]_(Lifecycle!vars)
<1> SUFFICES ASSUME IInv, [Next]_vars PROVE [Lifecycle!Next]_(Lifecycle!vars)
  OBVIOUS
<1> USE DEF Goto, Refuse, hostVars, hookVars
<1>0. PluginInStep /\ BusInStep /\ (mounted # {} => pc \in Serving)
  BY DEF IInv, InStep, Bound, HooksInStep
<1>1. ASSUME Preflight \/ Dial, pc' = "negotiate" PROVE Lifecycle!Open
  BY <1>0, <1>1
  DEF Preflight, Dial, PluginInStep, BusInStep, Connecting, BeforeStart, Serving,
     Lifecycle!Open
<1>2. ASSUME Preflight \/ Dial, pc' # "negotiate" PROVE UNCHANGED Lifecycle!vars
  BY <1>0, <1>2 DEF Preflight, Dial, BusInStep, Connecting, Lifecycle!vars
<1>3. ASSUME Start PROVE Lifecycle!Start
  BY <1>0, <1>3
  DEF Start, PluginInStep, BusInStep, Connecting, BeforeStart, Ending, Lifecycle!Start
<1>4. ASSUME NEW k \in Hooks, MountHook(k), mounted' # mounted PROVE Lifecycle!Serve
  BY <1>0, <1>4
  DEF MountHook, PluginInStep, BusInStep, Connecting, Serving, Ending, Lifecycle!Serve
<1>5. ASSUME MountDiscovery, pc' = "http" PROVE Lifecycle!Serve
  BY <1>0, <1>5
  DEF MountDiscovery, PluginInStep, BusInStep, Connecting, Serving, Ending, Lifecycle!Serve
<1>6. ASSUME HTTPEnds PROVE Lifecycle!Withdraw \/ UNCHANGED Lifecycle!vars
  BY <1>6 DEF HTTPEnds, Lifecycle!Withdraw, Lifecycle!vars
<1>7. ASSUME NEW k \in Hooks, CancelHook(k)
      PROVE  Lifecycle!Withdraw \/ UNCHANGED Lifecycle!vars
  BY <1>7 DEF CancelHook, Lifecycle!Withdraw, Lifecycle!vars
<1>8. ASSUME StopPlugin PROVE Lifecycle!Stop
  BY <1>0, <1>8
  DEF StopPlugin, PluginInStep, BusInStep, Connecting, Serving, Ending, Lifecycle!Stop
<1>9. ASSUME CloseBus PROVE Lifecycle!Return
  BY <1>0, <1>9 DEF CloseBus, PluginInStep, Serving, Ending, Lifecycle!Return
<1>10. ASSUME WaitForCreds \/ CredsDeadline \/ CredsPoll PROVE UNCHANGED Lifecycle!vars
  BY <1>10, LifecycleStutters DEF WaitForCreds, CredsDeadline, CredsPoll
<1>11. ASSUME Negotiate \/ Check \/ Bind \/ Validate PROVE UNCHANGED Lifecycle!vars
  BY <1>11, LifecycleStutters DEF Negotiate, Check, Bind, Validate
<1>12. ASSUME StartReturns \/ StopReturns PROVE UNCHANGED Lifecycle!vars
  BY <1>0, <1>12 DEF StartReturns, StopReturns, PluginInStep, Lifecycle!vars
<1>13. ASSUME ServiceStopped \/ Cancel PROVE UNCHANGED Lifecycle!vars
  BY <1>13, LifecycleStutters DEF ServiceStopped, Cancel
<1>14. ASSUME MountDiscovery, pc' # "http" PROVE UNCHANGED Lifecycle!vars
  BY <1>14, LifecycleStutters DEF MountDiscovery
<1>15. ASSUME NEW k \in Hooks, MountHook(k), mounted' = mounted
       PROVE  UNCHANGED Lifecycle!vars
  BY <1>15, LifecycleStutters DEF MountHook
<1>16. ASSUME UNCHANGED <<pc, bus, plugin, mounted>> PROVE UNCHANGED Lifecycle!vars
  BY <1>16 DEF Lifecycle!vars
<1>17. ASSUME \/ HostCreatesCreds \/ HostWritesCreds \/ CredsWaitExpires \/ CallerCancels
              \/ \E k \in Hooks : TakeCall(k) \/ RunHook(k) \/ HookReturns(k) \/
                 BrokerDenies(k)
              \/ UNCHANGED vars
       PROVE  UNCHANGED <<pc, bus, plugin, mounted>>
  BY <1>17
  DEF HostCreatesCreds, HostWritesCreds, CredsWaitExpires, CallerCancels, TakeCall, RunHook,
      HookReturns, BrokerDenies, vars
<1>18. QED
  BY <1>1, <1>2, <1>3, <1>4, <1>5, <1>6, <1>7, <1>8, <1>9, <1>10, <1>11, <1>12, <1>13,
     <1>14, <1>15, <1>16, <1>17
  DEF Next, Main, Returned, Lifecycle!Next

\* The v2 lifecycle implements PluginLifecycle.
THEOREM Refinement == Spec => ImplementsLifecycle
<1>1. QED
  BY LifecycleInit, LifecycleNext, Invariance, PTL DEF Spec, ImplementsLifecycle,
     Lifecycle!Spec

-----------------------------------------------------------------------------
(* What PluginLifecycle promises of every implementation of it.            *)

\* The types are needed too: a plugin is in one of three states.
LifecycleInv == Lifecycle!TypeOK /\ Lifecycle!HostOutlivesPlugin

\* The contract's own steps keep the host reachable while the plugin is started, and
\* take the plugin onward only.
LEMMA LifecycleStep ==
  ASSUME LifecycleInv, [Lifecycle!Next]_(Lifecycle!vars)
  PROVE  LifecycleInv' /\ [Lifecycle!Onward]_(Lifecycle!vars)
<1> USE DEF LifecycleInv, Lifecycle!TypeOK, Lifecycle!HostOutlivesPlugin, Lifecycle!Onward,
     Lifecycle!vars
<1>1. CASE Lifecycle!Open
  BY <1>1 DEF Lifecycle!Open
<1>2. CASE Lifecycle!Start
  BY <1>2 DEF Lifecycle!Start
<1>3. CASE Lifecycle!Serve
  BY <1>3 DEF Lifecycle!Serve
<1>4. CASE Lifecycle!Withdraw
  BY <1>4 DEF Lifecycle!Withdraw
<1>5. CASE Lifecycle!Stop
  BY <1>5 DEF Lifecycle!Stop
<1>6. CASE Lifecycle!Return
  BY <1>6 DEF Lifecycle!Return
<1>7. CASE UNCHANGED Lifecycle!vars
  BY <1>7
<1>8. QED
  BY <1>1, <1>2, <1>3, <1>4, <1>5, <1>6, <1>7 DEF Lifecycle!Next

\* Whatever implements PluginLifecycle keeps the host reachable from Start to Stop,
\* starts and stops the plugin once, and does nothing after it has returned.
THEOREM LifecyclePromises ==
  Lifecycle!Spec => []Lifecycle!HostOutlivesPlugin /\ Lifecycle!StartsAndStopsOnce
<1>1. Lifecycle!Init => LifecycleInv
  BY DEF Lifecycle!Init, LifecycleInv, Lifecycle!TypeOK, Lifecycle!HostOutlivesPlugin
<1>2. LifecycleInv /\ [Lifecycle!Next]_(Lifecycle!vars)
        => LifecycleInv' /\ [Lifecycle!Onward]_(Lifecycle!vars)
  BY LifecycleStep
<1>3. LifecycleInv => Lifecycle!HostOutlivesPlugin
  BY DEF LifecycleInv
<1>4. Lifecycle!Spec => []LifecycleInv /\ [][Lifecycle!Onward]_(Lifecycle!vars)
  BY <1>1, <1>2, PTL DEF Lifecycle!Spec
<1>5. QED
  BY <1>3, <1>4, PTL DEF Lifecycle!StartsAndStopsOnce

\* The v2 ServePlugin starts the plugin once, stops it once if it was started, and has
\* the bus for it, and the hooks mounted, in no other time than between the two.
THEOREM HostOutlives == Spec => []Lifecycle!HostOutlivesPlugin /\ Lifecycle!StartsAndStopsOnce
<1>1. QED
  BY Refinement, LifecyclePromises DEF ImplementsLifecycle
=============================================================================
