--------------------------- MODULE ServicesProofs ---------------------------
(***************************************************************************)
(* Proofs about Services, for any endpoints, discovery probes and callers  *)
(* of Stop.  The invariant follows a mount from svc.subs to what Stop has  *)
(* still to cancel, and the calls its goroutine had taken.                 *)
(***************************************************************************)
EXTENDS Services, TLAPS

\* A live mount is in svc.subs, or in what Stop has still to cancel.
MountsInStep ==
  /\ \A s \in subs \cup left : status[s] # "absent"
  /\ \A s \in Mounts : status[s] = "live" => s \in subs \cup left
  /\ serve = "ok" => \A s \in Mounts : status[s] # "absent"

\* Once the Once has begun svc.subs is empty, and it is over when nothing is left.
OnceInStep ==
  /\ serve = "mounting" => once = "new"
  /\ serve \in {"failing", "failed"} => once # "new"
  /\ once = "new" => left = {}
  /\ once # "new" => subs = {}
  /\ once = "done" => left = {} /\ done
  /\ serve = "failed" => once = "done"
  /\ \A g \in Stoppers :
       /\ stop[g] # "idle" => serve = "ok" /\ once # "new"
       /\ stop[g] = "returned" => once = "done"

\* What a goroutine had taken when Stop returned has not been counted yet.
LateInStep ==
  /\ ~Stopped => \A s \in Mounts : late[s] = 0
  /\ \A s \in Mounts : late[s] <= 1 /\ (call[s] = "taken" => late[s] = 0)

IInv == TypeOK /\ MountsInStep /\ OnceInStep /\ LateInStep

-----------------------------------------------------------------------------
\* At the start nothing is mounted and nobody has called Stop.
LEMMA InitIInv == Init => IInv
<1> SUFFICES ASSUME Init PROVE IInv
  OBVIOUS
<1> USE DEF Init, Sub!Init
<1>1. TypeOK
  <2>1. Sub!TypeOK
    BY DEF Sub!TypeOK
  <2>2. /\ stop \in [Stoppers -> {"idle", "in", "returned"}]
        /\ call \in [Subs -> {"idle", "taken", "running"}]
        /\ late \in [Subs -> 0 .. 2]
    OBVIOUS
  <2>3. subs \subseteq Mounts /\ left \subseteq Mounts \ subs /\ done \in BOOLEAN
    OBVIOUS
  <2>4. lateOut \in 0 .. 2
    OBVIOUS
  <2>5. QED
    BY <2>1, <2>2, <2>3, <2>4 DEF TypeOK
<1>2. MountsInStep
  BY DEF MountsInStep, Subs
<1>3. OnceInStep
  BY DEF OnceInStep
<1>4. LateInStep
  BY DEF LateInStep, Subs
<1>5. QED
  BY <1>1, <1>2, <1>3, <1>4 DEF IInv

\* When Stop has returned every mount has ended.
LEMMA StoppedEnds ==
  ASSUME IInv
  PROVE  /\ Stopped => once = "done" /\ done /\ \A s \in Mounts : status[s] = "ended"
         /\ once = "done" => \A s \in Mounts : status[s] # "live"
<1> USE DEF IInv
<1>1. once = "done" => \A s \in Mounts : status[s] # "live"
  BY DEF MountsInStep, OnceInStep
<1>2. Stopped => once = "done" /\ done /\ \A s \in Mounts : status[s] # "absent"
  BY DEF Stopped, MountsInStep, OnceInStep
<1>3. \A s \in Mounts : status[s] \in {"absent", "live", "ended"}
  BY DEF TypeOK, Sub!TypeOK, Subs
<1>4. QED
  BY <1>1, <1>2, <1>3

\* Every step keeps every variable within its type.
LEMMA NextTypeOK == IInv /\ [Next]_vars => TypeOK'
<1> SUFFICES ASSUME IInv, [Next]_vars PROVE TypeOK'
  OBVIOUS
<1>0. TypeOK
  BY DEF IInv
<1> USE <1>0 DEF TypeOK, Sub!TypeOK, Sub!Open, Sub!End, Sub!Release, Subs, Ready, Bump,
     subVars, stopVars, callVars
<1>1. CASE MountRefused
  BY <1>1 DEF MountRefused
<1>2. CASE ServeReturns
  BY <1>2 DEF ServeReturns
<1>3. CASE StopDone
  BY <1>3 DEF StopDone
<1>4. CASE GatherSubscribes
  BY <1>4 DEF GatherSubscribes
<1>5. CASE GatherPublishes
  BY <1>5 DEF GatherPublishes
<1>6. CASE GatherLocks
  BY <1>6 DEF GatherLocks
<1>7. CASE GatherUnlocks
  BY <1>7 DEF GatherUnlocks
<1>8. CASE GatherCancels
  BY <1>8 DEF GatherCancels
<1>9. CASE GatherReturns
  BY <1>9 DEF GatherReturns
<1>10. ASSUME NEW s \in Mounts, Mount(s) PROVE TypeOK'
  <2>1. left = {}
    BY <1>10 DEF Mount, IInv, OnceInStep
  <2>2. QED
    BY <1>10, <2>1 DEF Mount
<1>11. ASSUME NEW s \in Mounts, CancelEnds(s) PROVE TypeOK'
  BY <1>11 DEF CancelEnds
<1>12. ASSUME NEW s \in Mounts, CancelReturns(s) PROVE TypeOK'
  BY <1>12 DEF CancelReturns
<1>13. ASSUME NEW g \in Stoppers, StopCalled(g) PROVE TypeOK'
  BY <1>13 DEF StopCalled
<1>14. ASSUME NEW g \in Stoppers, StopReturns(g) PROVE TypeOK'
  BY <1>14 DEF StopReturns
<1>15. ASSUME NEW s \in Subs, TakeCall(s) PROVE TypeOK'
  BY <1>15 DEF TakeCall
<1>16. ASSUME NEW s \in Subs, RunCall(s) PROVE TypeOK'
  BY <1>16 DEF RunCall
<1>17. ASSUME NEW s \in Subs, CallReturns(s) PROVE TypeOK'
  BY <1>17 DEF CallReturns
<1>18. ASSUME NEW s \in Subs, NEW r \in Reasons, FaultEnds(s, r) PROVE TypeOK'
  BY <1>18 DEF FaultEnds
<1>19. CASE UNCHANGED vars
  BY <1>19 DEF vars
<1>20. QED
  BY <1>1, <1>2, <1>3, <1>4, <1>5, <1>6, <1>7, <1>8, <1>9, <1>10, <1>11, <1>12, <1>13,
     <1>14, <1>15, <1>16, <1>17, <1>18, <1>19
  DEF Next

\* Every step keeps the mounts where Stop finds them.
LEMMA NextMounts == IInv /\ [Next]_vars => MountsInStep'
<1> SUFFICES ASSUME IInv, [Next]_vars PROVE MountsInStep'
  OBVIOUS
<1>0. TypeOK /\ MountsInStep /\ OnceInStep
  BY DEF IInv
<1> USE <1>0, SubsDistinct DEF TypeOK, Sub!TypeOK, MountsInStep, OnceInStep, Sub!Open,
     Sub!End, Sub!Release, Subs, Mounts, Ready, subVars, stopVars
<1>1. CASE MountRefused
  BY <1>1 DEF MountRefused
<1>2. CASE ServeReturns
  BY <1>2 DEF ServeReturns
<1>3. CASE StopDone
  BY <1>3 DEF StopDone
<1>4. CASE GatherSubscribes
  BY <1>4 DEF GatherSubscribes
<1>5. CASE GatherPublishes
  BY <1>5 DEF GatherPublishes
<1>6. CASE GatherLocks
  BY <1>6 DEF GatherLocks
<1>7. CASE GatherUnlocks
  BY <1>7 DEF GatherUnlocks
<1>8. CASE GatherCancels
  BY <1>8 DEF GatherCancels
<1>9. CASE GatherReturns
  BY <1>9 DEF GatherReturns
<1>10. ASSUME NEW s \in Mounts, Mount(s) PROVE MountsInStep'
  BY <1>10 DEF Mount
<1>11. ASSUME NEW s \in Mounts, CancelEnds(s) PROVE MountsInStep'
  BY <1>11 DEF CancelEnds
<1>12. ASSUME NEW s \in Mounts, CancelReturns(s) PROVE MountsInStep'
  BY <1>12 DEF CancelReturns
<1>13. ASSUME NEW g \in Stoppers, StopCalled(g) PROVE MountsInStep'
  BY <1>13 DEF StopCalled
<1>14. ASSUME NEW g \in Stoppers, StopReturns(g) PROVE MountsInStep'
  BY <1>14 DEF StopReturns
<1>15. ASSUME NEW s \in Subs, TakeCall(s) PROVE MountsInStep'
  BY <1>15 DEF TakeCall
<1>16. ASSUME NEW s \in Subs, RunCall(s) PROVE MountsInStep'
  BY <1>16 DEF RunCall
<1>17. ASSUME NEW s \in Subs, CallReturns(s) PROVE MountsInStep'
  BY <1>17 DEF CallReturns
<1>18. ASSUME NEW s \in Subs, NEW r \in Reasons, FaultEnds(s, r) PROVE MountsInStep'
  BY <1>18 DEF FaultEnds
<1>19. CASE UNCHANGED vars
  BY <1>19 DEF vars
<1>20. QED
  BY <1>1, <1>2, <1>3, <1>4, <1>5, <1>6, <1>7, <1>8, <1>9, <1>10, <1>11, <1>12, <1>13,
     <1>14, <1>15, <1>16, <1>17, <1>18, <1>19
  DEF Next

\* Every step keeps to the order of the Once.
LEMMA NextOnce == IInv /\ [Next]_vars => OnceInStep'
<1> SUFFICES ASSUME IInv, [Next]_vars PROVE OnceInStep'
  OBVIOUS
<1>0. TypeOK /\ OnceInStep
  BY DEF IInv
<1> USE <1>0 DEF TypeOK, OnceInStep, stopVars
<1>1. CASE MountRefused
  BY <1>1 DEF MountRefused
<1>2. CASE ServeReturns
  BY <1>2 DEF ServeReturns
<1>3. CASE StopDone
  BY <1>3 DEF StopDone
<1>4. CASE GatherSubscribes
  BY <1>4 DEF GatherSubscribes
<1>5. CASE GatherPublishes
  BY <1>5 DEF GatherPublishes
<1>6. CASE GatherLocks
  BY <1>6 DEF GatherLocks
<1>7. CASE GatherUnlocks
  BY <1>7 DEF GatherUnlocks
<1>8. CASE GatherCancels
  BY <1>8 DEF GatherCancels
<1>9. CASE GatherReturns
  BY <1>9 DEF GatherReturns
<1>10. ASSUME NEW s \in Mounts, Mount(s) PROVE OnceInStep'
  BY <1>10 DEF Mount
<1>11. ASSUME NEW s \in Mounts, CancelEnds(s) PROVE OnceInStep'
  BY <1>11 DEF CancelEnds
<1>12. ASSUME NEW s \in Mounts, CancelReturns(s) PROVE OnceInStep'
  BY <1>12 DEF CancelReturns
<1>13. ASSUME NEW g \in Stoppers, StopCalled(g) PROVE OnceInStep'
  BY <1>13 DEF StopCalled
<1>14. ASSUME NEW g \in Stoppers, StopReturns(g) PROVE OnceInStep'
  BY <1>14 DEF StopReturns
<1>15. ASSUME NEW s \in Subs, TakeCall(s) PROVE OnceInStep'
  BY <1>15 DEF TakeCall
<1>16. ASSUME NEW s \in Subs, RunCall(s) PROVE OnceInStep'
  BY <1>16 DEF RunCall
<1>17. ASSUME NEW s \in Subs, CallReturns(s) PROVE OnceInStep'
  BY <1>17 DEF CallReturns
<1>18. ASSUME NEW s \in Subs, NEW r \in Reasons, FaultEnds(s, r) PROVE OnceInStep'
  BY <1>18 DEF FaultEnds
<1>19. CASE UNCHANGED vars
  BY <1>19 DEF vars
<1>20. QED
  BY <1>1, <1>2, <1>3, <1>4, <1>5, <1>6, <1>7, <1>8, <1>9, <1>10, <1>11, <1>12, <1>13,
     <1>14, <1>15, <1>16, <1>17, <1>18, <1>19
  DEF Next

\* Every step keeps the runs after Stop to one for each mount.
LEMMA NextLate == IInv /\ [Next]_vars => LateInStep'
<1> SUFFICES ASSUME IInv, [Next]_vars PROVE LateInStep'
  OBVIOUS
<1>0. TypeOK /\ LateInStep
  BY DEF IInv
<1> USE <1>0 DEF TypeOK, LateInStep, Stopped, stopVars, callVars, Subs
<1>1. CASE MountRefused
  BY <1>1 DEF MountRefused
<1>2. CASE ServeReturns
  BY <1>2 DEF ServeReturns
<1>3. CASE StopDone
  BY <1>3 DEF StopDone
<1>4. CASE GatherSubscribes
  BY <1>4 DEF GatherSubscribes
<1>5. CASE GatherPublishes
  BY <1>5 DEF GatherPublishes
<1>6. CASE GatherLocks
  BY <1>6 DEF GatherLocks
<1>7. CASE GatherUnlocks
  BY <1>7 DEF GatherUnlocks
<1>8. CASE GatherCancels
  BY <1>8 DEF GatherCancels
<1>9. CASE GatherReturns
  BY <1>9 DEF GatherReturns
<1>10. ASSUME NEW s \in Mounts, Mount(s) PROVE LateInStep'
  BY <1>10 DEF Mount
<1>11. ASSUME NEW s \in Mounts, CancelEnds(s) PROVE LateInStep'
  BY <1>11 DEF CancelEnds
<1>12. ASSUME NEW s \in Mounts, CancelReturns(s) PROVE LateInStep'
  BY <1>12 DEF CancelReturns
<1>13. ASSUME NEW g \in Stoppers, StopCalled(g) PROVE LateInStep'
  BY <1>13 DEF StopCalled
<1>14. ASSUME NEW g \in Stoppers, StopReturns(g) PROVE LateInStep'
  BY <1>14 DEF StopReturns
<1>15. ASSUME NEW s \in Subs, TakeCall(s) PROVE LateInStep'
  <2>1. s \in Mounts => ~Stopped
    BY <1>15, StoppedEnds DEF TakeCall
  <2>2. QED
    BY <1>15, <2>1 DEF TakeCall
<1>16. ASSUME NEW s \in Subs, RunCall(s) PROVE LateInStep'
  <2>1. late' = IF s # Inbox /\ Stopped THEN [late EXCEPT ![s] = Bump(@)] ELSE late
    BY <1>16 DEF RunCall
  <2>2. call' = [call EXCEPT ![s] = "running"] /\ stop' = stop
    BY <1>16 DEF RunCall
  <2>3. s \in Mounts => late[s] = 0
    BY <1>16 DEF RunCall
  <2>4. \A m \in Mounts : late'[m] = IF m = s /\ Stopped THEN 1 ELSE late[m]
    BY <2>1, <2>3, SubsDistinct DEF Bump, Mounts
  <2>5. QED
    BY <2>2, <2>4
<1>17. ASSUME NEW s \in Subs, CallReturns(s) PROVE LateInStep'
  BY <1>17 DEF CallReturns
<1>18. ASSUME NEW s \in Subs, NEW r \in Reasons, FaultEnds(s, r) PROVE LateInStep'
  BY <1>18 DEF FaultEnds
<1>19. CASE UNCHANGED vars
  BY <1>19 DEF vars
<1>20. QED
  BY <1>1, <1>2, <1>3, <1>4, <1>5, <1>6, <1>7, <1>8, <1>9, <1>10, <1>11, <1>12, <1>13,
     <1>14, <1>15, <1>16, <1>17, <1>18, <1>19
  DEF Next

\* Every step keeps the inductive invariant.
LEMMA NextIInv == IInv /\ [Next]_vars => IInv'
<1>1. QED
  BY NextTypeOK, NextMounts, NextOnce, NextLate DEF IInv

\* The inductive invariant holds in every reachable state.
THEOREM Invariance == Spec => []IInv
<1>1. QED
  BY InitIInv, NextIInv, PTL DEF Spec

-----------------------------------------------------------------------------
(* What follows from it.                                                   *)

\* Every variable keeps its type.
THEOREM TypeCorrect == Spec => []TypeOK
<1>1. IInv => TypeOK
  BY DEF IInv
<1>2. QED
  BY <1>1, Invariance, PTL

\* A Stop that has returned, whoever called it, has ended every subscription of the
\* service, and a Serve that failed leaves none of them live.
THEOREM StopEnds == Spec => []StoppedMeansEnded
<1>1. IInv => StoppedMeansEnded
  BY StoppedEnds DEF IInv, OnceInStep, LateInStep, StoppedMeansEnded
<1>2. QED
  BY <1>1, Invariance, PTL

-----------------------------------------------------------------------------
(* The subscriptions.                                                      *)

\* At the start no endpoint, probe or inbox is subscribed.
LEMMA SubInit == Init => Sub!Init
  BY DEF Init

\* Every step opens, ends or releases one subscription, as the contract lets it, or
\* leaves them all alone.
LEMMA SubNext == IInv /\ [Next]_vars => [Sub!Next]_(Sub!vars)
<1> SUFFICES ASSUME IInv, [Next]_vars PROVE Sub!Next \/ UNCHANGED subVars
  BY DEF Sub!vars, subVars
<1> USE DEF Subs
<1>1. ASSUME NEW s \in Mounts, Mount(s) PROVE Sub!Next
  BY <1>1 DEF Mount, Sub!Next
<1>2. ASSUME NEW s \in Mounts, CancelEnds(s) PROVE Sub!Next
  BY <1>2 DEF CancelEnds, Sub!Next
<1>3. ASSUME NEW s \in Mounts, CancelReturns(s) PROVE Sub!Next
  BY <1>3 DEF CancelReturns, Sub!Next
<1>4. ASSUME NEW s \in Subs, NEW r \in Reasons, FaultEnds(s, r) PROVE Sub!Next
  BY <1>4 DEF FaultEnds, Sub!Next
<1>5. CASE GatherSubscribes
  BY <1>5 DEF GatherSubscribes, Sub!Next
<1>6. CASE GatherCancels
  BY <1>6 DEF GatherCancels, Sub!Next
<1>7. CASE GatherReturns
  BY <1>7 DEF GatherReturns, Sub!Next
<1>8. CASE MountRefused \/ ServeReturns \/ StopDone
  BY <1>8 DEF MountRefused, ServeReturns, StopDone
<1>9. CASE GatherPublishes \/ GatherLocks \/ GatherUnlocks
  BY <1>9 DEF GatherPublishes, GatherLocks, GatherUnlocks
<1>10. ASSUME NEW g \in Stoppers, StopCalled(g) \/ StopReturns(g) PROVE UNCHANGED subVars
  BY <1>10 DEF StopCalled, StopReturns
<1>11. ASSUME NEW s \in Subs, TakeCall(s) \/ RunCall(s) \/ CallReturns(s)
       PROVE  UNCHANGED subVars
  BY <1>11 DEF TakeCall, RunCall, CallReturns
<1>12. CASE UNCHANGED vars
  BY <1>12 DEF vars
<1>13. QED
  BY <1>1, <1>2, <1>3, <1>4, <1>5, <1>6, <1>7, <1>8, <1>9, <1>10, <1>11, <1>12 DEF Next

\* What a service, its stoppers and a gather do to their subscriptions is within
\* the contract that natsconn implements.
THEOREM WithinContract == Spec => Sub!Spec
<1>1. QED
  BY SubInit, SubNext, Invariance, PTL DEF Spec, Sub!Spec

\* What a step of the contract may do to a subscription that has ended.
EndKept ==
  \A s \in Subs : status[s] = "ended" => status'[s] = "ended" /\ reason'[s] = reason[s]

SubInv == Sub!TypeOK /\ Sub!ReleasedMeansEnded

\* A step of the contract releases only what has ended, and ends nothing twice.
LEMMA SubStep ==
  ASSUME SubInv, [Sub!Next]_(Sub!vars)
  PROVE  SubInv' /\ EndKept
<1> USE DEF SubInv, Sub!TypeOK, Sub!ReleasedMeansEnded, EndKept
<1>1. ASSUME NEW s \in Subs, Sub!Open(s) PROVE SubInv' /\ EndKept
  BY <1>1 DEF Sub!Open
<1>2. ASSUME NEW s \in Subs, NEW r \in Reasons \cup {NoReason}, Sub!End(s, r)
      PROVE  SubInv' /\ EndKept
  BY <1>2 DEF Sub!End
<1>3. ASSUME NEW s \in Subs, Sub!Release(s) PROVE SubInv' /\ EndKept
  BY <1>3 DEF Sub!Release
<1>4. CASE UNCHANGED Sub!vars
  BY <1>4 DEF Sub!vars
<1>5. QED
  BY <1>1, <1>2, <1>3, <1>4 DEF Sub!Next

\* What SubscriptionContract promises of every implementation of it: what was
\* released has ended, and an end and its reason are final.
THEOREM ContractPromises == Sub!Spec => []Sub!ReleasedMeansEnded /\ Sub!EndIsFinal
<1>1. Sub!Init => SubInv
  BY DEF Sub!Init, SubInv, Sub!TypeOK, Sub!ReleasedMeansEnded
<1>2. SubInv /\ [Sub!Next]_(Sub!vars) => SubInv' /\ [EndKept]_(Sub!vars)
  BY SubStep
<1>3. SubInv => Sub!ReleasedMeansEnded
  BY DEF SubInv
<1>4. Sub!Spec => []SubInv /\ [][EndKept]_(Sub!vars)
  BY <1>1, <1>2, PTL DEF Sub!Spec
<1>5. [][EndKept]_(Sub!vars) => Sub!EndIsFinal
  BY DEF EndKept, Sub!EndIsFinal
<1>6. QED
  BY <1>3, <1>4, <1>5, PTL

\* The subscriptions of a service, and the inbox of a gather, end once: with
\* StopEnds, what a Stop has ended stays ended, whatever else goes on.
THEOREM EndsForGood == Spec => []Sub!ReleasedMeansEnded /\ Sub!EndIsFinal
<1>1. QED
  BY WithinContract, ContractPromises

\* Nobody takes back that Stop has returned to a caller.
LEMMA StoppedStays ==
  ASSUME TypeOK, [Next]_vars, Stopped
  PROVE  Stopped'
<1> PICK h \in Stoppers : stop[h] = "returned"
  BY DEF Stopped
<1>1. ASSUME NEW g \in Stoppers, StopCalled(g) \/ StopReturns(g)
      PROVE  stop'[h] = "returned"
  BY <1>1 DEF StopCalled, StopReturns, TypeOK
<1>2. ASSUME NEW s \in Subs,
             TakeCall(s) \/ RunCall(s) \/ CallReturns(s) \/ \E r \in Reasons : FaultEnds(s, r)
      PROVE  UNCHANGED stop
  BY <1>2 DEF TakeCall, RunCall, CallReturns, FaultEnds, stopVars
<1>3. ASSUME NEW s \in Mounts, Mount(s) \/ CancelEnds(s) \/ CancelReturns(s)
      PROVE  UNCHANGED stop
  BY <1>3 DEF Mount, CancelEnds, CancelReturns, stopVars
<1>4. ASSUME MountRefused \/ ServeReturns \/ StopDone PROVE UNCHANGED stop
  BY <1>4 DEF MountRefused, ServeReturns, StopDone, stopVars
<1>5. ASSUME \/ GatherSubscribes \/ GatherPublishes \/ GatherLocks \/ GatherUnlocks
             \/ GatherCancels \/ GatherReturns
      PROVE  UNCHANGED stop
  BY <1>5 DEF GatherSubscribes, GatherPublishes, GatherLocks, GatherUnlocks,
              GatherCancels, GatherReturns, stopVars
<1>6. ASSUME UNCHANGED vars PROVE UNCHANGED stop
  BY <1>6 DEF vars, stopVars
<1>7. stop'[h] = "returned"
  BY <1>1, <1>2, <1>3, <1>4, <1>5, <1>6 DEF Next
<1>8. QED
  BY <1>7 DEF Stopped

\* A Stop that has returned, to whichever of its callers, is for good: from then on
\* every endpoint and probe of the service is ended, for the reason it had then.
THEOREM StoppedForGood ==
  Spec => [][Stopped => Stopped' /\ \A s \in Mounts :
                          status'[s] = "ended" /\ reason'[s] = reason[s]]_vars
<1>1. IInv /\ SubInv /\ [Next]_vars =>
        [Stopped => Stopped' /\ \A s \in Mounts :
                      status'[s] = "ended" /\ reason'[s] = reason[s]]_vars
  <2> SUFFICES ASSUME IInv, SubInv, [Next]_vars, Stopped
               PROVE  Stopped' /\ \A s \in Mounts : status'[s] = "ended" /\ reason'[s] = reason[s]
    OBVIOUS
  <2>1. \A s \in Mounts : status[s] = "ended"
    BY StoppedEnds DEF IInv
  <2>2. EndKept
    BY SubNext, SubStep
  <2>3. \A s \in Mounts : status'[s] = "ended" /\ reason'[s] = reason[s]
    BY <2>1, <2>2 DEF EndKept, Subs
  <2>4. Stopped'
    BY StoppedStays DEF IInv
  <2>5. QED
    BY <2>3, <2>4
<1>2. Sub!Init => SubInv
  BY DEF Sub!Init, SubInv, Sub!TypeOK, Sub!ReleasedMeansEnded
<1>3. IInv /\ SubInv /\ [Next]_vars => SubInv'
  BY SubNext, SubStep
<1>4. Init => SubInv
  BY <1>2, SubInit
<1>5. QED
  BY <1>1, <1>3, <1>4, Invariance, PTL DEF Spec
=============================================================================
