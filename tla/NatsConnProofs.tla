--------------------------- MODULE NatsConnProofs ---------------------------
(***************************************************************************)
(* Proofs about NatsConn, for any number of subscriptions and any bounds.  *)
(***************************************************************************)
EXTENDS NatsConn, TLAPS

Claimed(s) == once[s] # "fresh"

\* The parts of the inductive invariant.

\* finish is only called on a subscription the plugin was given.
ClaimedIsLive == \A s \in Subs : Claimed(s) => Live(s)

\* nats.go delivers to no subscription that finish has unsubscribed.
PastUnsubscribe ==
  \A s \in Subs :
    once[s] \in {"forget", "close", "done"} => ns[s] = "closed" /\ queue[s] = 0

\* A goroutine of nats.go takes nothing from a subscription that has ended, so it
\* has at most the one message it took before to run the handler for.
DeliveryInStep ==
  \A s \in Subs :
    /\ late[s] <= 1
    /\ ~Ended(s) \/ s \in taken => late[s] = 0

\* Only what the plugin was given is drained, and a call in finish has taken the
\* Once or found it taken.
CallsClaim ==
  \A s \in Subs :
    /\ drain[s] # "idle" => Live(s)
    /\ cancel[s] = "finishing" \/ drain[s] = "finishing" => Claimed(s)
    /\ cancel[s] = "returned" \/ drain[s] = "returned" => Ended(s)

\* What Close's loop has passed is ended, save the one it is in finish for.
CloseLoop ==
  /\ closing \subseteq snapshot
  /\ \A s \in snapshot : Live(s)
  /\ closeOn # NoSub => Claimed(closeOn)
  /\ \A s \in snapshot : s \in closing \/ s = closeOn \/ Ended(s)
  /\ close = "idle" => snapshot = {} /\ closeOn = NoSub
  /\ close = "returned" => closing = {} /\ closeOn = NoSub
  /\ nc = "closed" => close = "returned"

\* onAsyncError ends only subscriptions it found in c.subs.
AsyncLoop ==
  /\ \A s \in ending : Live(s)
  /\ endingOn # NoSub => Claimed(endingOn)

IInv ==
  /\ TypeOK
  /\ RegistryIsExact
  /\ ClaimedIsLive
  /\ PastUnsubscribe
  /\ DeliveryInStep
  /\ CallsClaim
  /\ CloseLoop
  /\ AsyncLoop

-----------------------------------------------------------------------------
\* The initial state satisfies the inductive invariant: no subscription exists.
LEMMA InitIInv == Init => IInv
  BY NoSubIsNoSub
  DEF Init, IInv, TypeOK, RegistryIsExact, ClaimedIsLive, PastUnsubscribe, DeliveryInStep,
      CallsClaim, CloseLoop, AsyncLoop, Claimed, Live, Ended, Faults, Nil


\* Appending an element of a set to a sequence over it gives such a sequence.
LEMMA AppendType ==
  ASSUME NEW S, NEW q \in Seq(S), NEW e \in S
  PROVE  Append(q, e) \in Seq(S)
  OBVIOUS

\* Every step keeps every variable within its type.
LEMMA NextTypeOK == TypeOK /\ [Next]_vars => TypeOK'
<1> SUFFICES ASSUME TypeOK, [Next]_vars PROVE TypeOK'
  OBVIOUS
<1> USE DEF TypeOK, Faults, Nil, natsVars, deliveryVars, subVars, callVars, closeVars, asyncVars
<1>1. ASSUME NEW s \in Subs, SubscribeRejected(s) PROVE TypeOK'
  BY <1>1 DEF SubscribeRejected
<1>2. ASSUME NEW s \in Subs, SubscribeNats(s) PROVE TypeOK'
  BY <1>2 DEF SubscribeNats
<1>3. ASSUME NEW s \in Subs, SetPendingLimits(s) PROVE TypeOK'
  BY <1>3 DEF SetPendingLimits
<1>4. ASSUME NEW s \in Subs, Register(s) PROVE TypeOK'
  BY <1>4 DEF Register
<1>5. ASSUME NEW s \in Subs, FinishUnsubscribe(s) PROVE TypeOK'
  BY <1>5 DEF FinishUnsubscribe
<1>6. ASSUME NEW s \in Subs, FinishForget(s) PROVE TypeOK'
  BY <1>6 DEF FinishForget
<1>7. ASSUME NEW s \in Subs, FinishClose(s) PROVE TypeOK'
  BY <1>7 DEF FinishClose
<1>8. ASSUME NEW s \in Subs, Cancel(s) PROVE TypeOK'
  BY <1>8, ZenonT(60) DEF Cancel, Finish
<1>9. ASSUME NEW s \in Subs, CancelReturn(s) PROVE TypeOK'
  BY <1>9 DEF CancelReturn
<1>10. ASSUME NEW s \in Subs, Drain(s) PROVE TypeOK'
  BY <1>10 DEF Drain
<1>11. ASSUME NEW s \in Subs, DrainFails(s) PROVE TypeOK'
  BY <1>11, ZenonT(60) DEF DrainFails, Finish
<1>12. ASSUME NEW s \in Subs, DrainDeadline(s) PROVE TypeOK'
  BY <1>12, ZenonT(60) DEF DrainDeadline, Finish
<1>13. ASSUME NEW s \in Subs, DrainReturn(s) PROVE TypeOK'
  BY <1>13 DEF DrainReturn
<1>14. ASSUME NEW s \in Subs, CloseFinish(s) PROVE TypeOK'
  BY <1>14, ZenonT(60) DEF CloseFinish, Finish
<1>15. ASSUME NEW s \in Subs, AsyncFinish(s) PROVE TypeOK'
  <2>1. endingWhy \in Faults \cup {Nil}
    OBVIOUS
  <2>2. endingOn' \in Subs /\ ending' \subseteq Subs
    BY <1>15 DEF AsyncFinish
  <2>3. once' \in [Subs -> {"fresh", "unsubscribe", "forget", "close", "done"}]
    <3>1. once' = once \/ once' = [once EXCEPT ![s] = "unsubscribe"]
      BY <1>15 DEF AsyncFinish, Finish
    <3>2. QED
      BY <3>1
  <2>4. err' \in [Subs -> Faults \cup {Nil}]
    <3>1. err' = err \/ err' = [err EXCEPT ![s] = endingWhy]
      BY <1>15 DEF AsyncFinish, Finish
    <3>2. QED
      BY <2>1, <3>1
  <2>5. QED
    BY <1>15, <2>2, <2>3, <2>4 DEF AsyncFinish
<1>16. ASSUME NEW s \in Subs, Arrive(s) PROVE TypeOK'
  BY <1>16 DEF Arrive
<1>17. ASSUME NEW s \in Subs, Overflow(s) PROVE TypeOK'
  <2>1. SlowConsumer(s) \in AsyncError /\ errors \in Seq(AsyncError)
    BY DEF AsyncError, SlowConsumer
  <2>2. errors' \in Seq(AsyncError)
    <3>1. errors' = errors \/ errors' = Append(errors, SlowConsumer(s))
      BY <1>17, Zenon DEF Overflow
    <3>2. QED
      BY ONLY <2>1, <3>1, AppendType
  <2>3. slow' \in [Subs -> BOOLEAN] /\ overflowed' \subseteq Subs
    BY <1>17 DEF Overflow
  <2>4. QED
    BY <1>17, <2>2, <2>3 DEF Overflow
<1>18. ASSUME NEW s \in Subs, TakeMessage(s) \/ RunHandler(s)
       PROVE  TypeOK'
  <2>1. CASE TakeMessage(s)
    BY <2>1 DEF TakeMessage
  <2>2. CASE RunHandler(s)
    <3>1. late' = late \/ late' = [late EXCEPT ![s] = @ + 1]
      BY <2>2 DEF RunHandler
    <3>2. late \in [Subs -> Nat] /\ late[s] + 1 \in Nat
      OBVIOUS
    <3>3. late' \in [Subs -> Nat]
      BY ONLY <3>1, <3>2
    <3>4. taken' \subseteq Subs
      BY <2>2 DEF RunHandler
    <3>5. QED
      BY <2>2, <3>3, <3>4 DEF RunHandler
  <2>3. QED
    BY <1>18, <2>1, <2>2
<1>19. ASSUME NEW s \in Subs, NatsDrained(s) PROVE TypeOK'
  BY <1>19 DEF NatsDrained
<1>20. ASSUME NEW s \in Subs, Refuse(s) PROVE TypeOK'
  BY SubjectOfType, <1>20 DEF Refuse, AsyncError, Violation
<1>21. CASE CloseSnapshot
  BY <1>21 DEF CloseSnapshot
<1>22. CASE CloseNext
  BY <1>22 DEF CloseNext
<1>23. CASE CloseNats
  BY <1>23 DEF CloseNats
<1>24. CASE OnAsyncError
  BY <1>24 DEF OnAsyncError, Found
<1>25. CASE AsyncNext
  BY <1>25 DEF AsyncNext
<1>26. CASE UNCHANGED vars
  BY <1>26 DEF vars
<1> HIDE DEF TypeOK, Faults, Nil, natsVars, deliveryVars, subVars, callVars, closeVars, asyncVars
<1>27. QED
  BY <1>1, <1>2, <1>3, <1>4, <1>5, <1>6, <1>7, <1>8, <1>9, <1>10, <1>11, <1>12, <1>13,
     <1>14, <1>15, <1>16, <1>17, <1>18, <1>19, <1>20, <1>21, <1>22, <1>23, <1>24, <1>25,
     <1>26
  DEF Next, SubscribeStep, FinishStep

\* Every step keeps the inductive invariant.
LEMMA NextIInv == IInv /\ [Next]_vars => IInv'
<1> SUFFICES ASSUME IInv, [Next]_vars PROVE IInv'
  OBVIOUS
<1> DEFINE Rest == /\ RegistryIsExact /\ ClaimedIsLive /\ PastUnsubscribe /\ DeliveryInStep
                   /\ CallsClaim /\ CloseLoop /\ AsyncLoop
<1>0. TypeOK /\ Rest /\ TypeOK'
  BY NextTypeOK DEF IInv
<1> USE NoSubIsNoSub, <1>0 DEF TypeOK, RegistryIsExact, ClaimedIsLive, PastUnsubscribe,
     DeliveryInStep, CallsClaim, CloseLoop, AsyncLoop, Claimed, Live, Ended, natsVars,
     deliveryVars, subVars, callVars, closeVars, asyncVars
<1>1. ASSUME NEW s \in Subs, SubscribeRejected(s) PROVE Rest'
  BY <1>1 DEF SubscribeRejected
<1>2. ASSUME NEW s \in Subs, SubscribeNats(s) PROVE Rest'
  BY <1>2 DEF SubscribeNats
<1>3. ASSUME NEW s \in Subs, SetPendingLimits(s) PROVE Rest'
  BY <1>3 DEF SetPendingLimits
<1>4. ASSUME NEW s \in Subs, Register(s) PROVE Rest'
  BY <1>4 DEF Register
<1>5. ASSUME NEW s \in Subs, FinishUnsubscribe(s) PROVE Rest'
  BY <1>5 DEF FinishUnsubscribe
<1>6. ASSUME NEW s \in Subs, FinishForget(s) PROVE Rest'
  BY <1>6 DEF FinishForget
<1>7. ASSUME NEW s \in Subs, FinishClose(s) PROVE Rest'
  BY <1>7 DEF FinishClose
<1>8. ASSUME NEW s \in Subs, Cancel(s) PROVE Rest'
  <2>1. RegistryIsExact'
    BY <1>8 DEF Cancel, Finish
  <2>2. ClaimedIsLive'
    BY <1>8 DEF Cancel, Finish
  <2>3. PastUnsubscribe' /\ DeliveryInStep'
    BY <1>8 DEF Cancel, Finish
  <2>4. CallsClaim'
    BY <1>8 DEF Cancel, Finish
  <2>5. CloseLoop'
    BY <1>8 DEF Cancel, Finish
  <2>6. AsyncLoop'
    BY <1>8 DEF Cancel, Finish
  <2>7. QED
    BY <2>1, <2>2, <2>3, <2>4, <2>5, <2>6
<1>9. ASSUME NEW s \in Subs, CancelReturn(s) PROVE Rest'
  BY <1>9 DEF CancelReturn
<1>10. ASSUME NEW s \in Subs, Drain(s) PROVE Rest'
  BY <1>10 DEF Drain
<1>11. ASSUME NEW s \in Subs, DrainFails(s) PROVE Rest'
  <2>1. RegistryIsExact'
    BY <1>11 DEF DrainFails, Finish
  <2>2. ClaimedIsLive'
    BY <1>11 DEF DrainFails, Finish
  <2>3. PastUnsubscribe' /\ DeliveryInStep'
    BY <1>11 DEF DrainFails, Finish
  <2>4. CallsClaim'
    BY <1>11 DEF DrainFails, Finish
  <2>5. CloseLoop'
    BY <1>11 DEF DrainFails, Finish
  <2>6. AsyncLoop'
    BY <1>11 DEF DrainFails, Finish
  <2>7. QED
    BY <2>1, <2>2, <2>3, <2>4, <2>5, <2>6
<1>12. ASSUME NEW s \in Subs, DrainDeadline(s) PROVE Rest'
  <2>1. RegistryIsExact'
    BY <1>12 DEF DrainDeadline, Finish
  <2>2. ClaimedIsLive'
    BY <1>12 DEF DrainDeadline, Finish
  <2>3. PastUnsubscribe' /\ DeliveryInStep'
    BY <1>12 DEF DrainDeadline, Finish
  <2>4. CallsClaim'
    BY <1>12 DEF DrainDeadline, Finish
  <2>5. CloseLoop'
    BY <1>12 DEF DrainDeadline, Finish
  <2>6. AsyncLoop'
    BY <1>12 DEF DrainDeadline, Finish
  <2>7. QED
    BY <2>1, <2>2, <2>3, <2>4, <2>5, <2>6
<1>13. ASSUME NEW s \in Subs, DrainReturn(s) PROVE Rest'
  BY <1>13 DEF DrainReturn
<1>14. ASSUME NEW s \in Subs, CloseFinish(s) PROVE Rest'
  <2>1. RegistryIsExact'
    BY <1>14 DEF CloseFinish, Finish
  <2>2. ClaimedIsLive'
    BY <1>14 DEF CloseFinish, Finish
  <2>3. PastUnsubscribe' /\ DeliveryInStep'
    BY <1>14 DEF CloseFinish, Finish
  <2>4. CallsClaim'
    BY <1>14 DEF CloseFinish, Finish
  <2>5. CloseLoop'
    BY <1>14 DEF CloseFinish, Finish
  <2>6. AsyncLoop'
    BY <1>14 DEF CloseFinish, Finish
  <2>7. QED
    BY <2>1, <2>2, <2>3, <2>4, <2>5, <2>6
<1>15. ASSUME NEW s \in Subs, AsyncFinish(s) PROVE Rest'
  <2>1. RegistryIsExact'
    BY <1>15 DEF AsyncFinish, Finish
  <2>2. ClaimedIsLive'
    BY <1>15 DEF AsyncFinish, Finish
  <2>3. PastUnsubscribe' /\ DeliveryInStep'
    BY <1>15 DEF AsyncFinish, Finish
  <2>4. CallsClaim'
    BY <1>15 DEF AsyncFinish, Finish
  <2>5. CloseLoop'
    BY <1>15 DEF AsyncFinish, Finish
  <2>6. AsyncLoop'
    BY <1>15 DEF AsyncFinish, Finish
  <2>7. QED
    BY <2>1, <2>2, <2>3, <2>4, <2>5, <2>6
<1>16. ASSUME NEW s \in Subs, Arrive(s) PROVE Rest'
  BY <1>16 DEF Arrive, Receives
<1>17. ASSUME NEW s \in Subs, Overflow(s) PROVE Rest'
  BY <1>17 DEF Overflow
<1>18. ASSUME NEW s \in Subs, TakeMessage(s) \/ RunHandler(s)
       PROVE  Rest'
  <2>1. CASE TakeMessage(s)
    BY <2>1 DEF TakeMessage
  <2>2. CASE RunHandler(s)
    BY <2>2 DEF RunHandler
  <2>3. QED
    BY <1>18, <2>1, <2>2
<1>19. ASSUME NEW s \in Subs, NatsDrained(s) PROVE Rest'
  BY <1>19 DEF NatsDrained
<1>20. ASSUME NEW s \in Subs, Refuse(s) PROVE Rest'
  BY <1>20 DEF Refuse
<1>21. ASSUME CloseSnapshot PROVE Rest'
  BY <1>21 DEF CloseSnapshot
<1>22. ASSUME CloseNext PROVE Rest'
  BY <1>22 DEF CloseNext
<1>23. ASSUME CloseNats PROVE Rest'
  BY <1>23 DEF CloseNats
<1>24. ASSUME OnAsyncError PROVE Rest'
  BY <1>24 DEF OnAsyncError, Found
<1>25. ASSUME AsyncNext PROVE Rest'
  BY <1>25 DEF AsyncNext
<1>26. ASSUME UNCHANGED vars PROVE Rest'
  BY <1>26 DEF vars
<1> HIDE DEF TypeOK, RegistryIsExact, ClaimedIsLive, PastUnsubscribe, DeliveryInStep, CallsClaim,
     CloseLoop, AsyncLoop, Rest
<1>27. Rest'
  BY <1>1, <1>2, <1>3, <1>4, <1>5, <1>6, <1>7, <1>8, <1>9, <1>10, <1>11, <1>12, <1>13,
     <1>14, <1>15, <1>16, <1>17, <1>18, <1>19, <1>20, <1>21, <1>22, <1>23, <1>24, <1>25,
     <1>26
  DEF Next, SubscribeStep, FinishStep
<1>28. QED
  BY <1>27 DEF IInv, Rest

\* The inductive invariant holds in every reachable state.
THEOREM Invariance == Spec => []IInv
<1>1. Init => IInv
  BY InitIInv
<1>2. IInv /\ [Next]_vars => IInv'
  BY NextIInv
<1>3. QED
  BY <1>1, <1>2, PTL DEF Spec

-----------------------------------------------------------------------------
(* What follows from it.                                                   *)

\* Every variable keeps its type.
THEOREM TypeCorrect == Spec => []TypeOK
<1>1. IInv => TypeOK
  BY DEF IInv
<1>2. QED
  BY <1>1, Invariance, PTL

\* c.subs is exact: a subscription is there from the return of Subscribe to the
\* forget of finish, and at no other time.
THEOREM RegistryExact == Spec => []RegistryIsExact
<1>1. IInv => RegistryIsExact
  BY DEF IInv
<1>2. QED
  BY <1>1, Invariance, PTL

\* A subscription whose Done is closed is out of c.subs, nats.go hands it nothing
\* more, and its handler begins at most once more, with a message taken before.
THEOREM EndedGone == Spec => []EndedIsGone
<1>1. IInv => EndedIsGone
  BY DEF IInv, EndedIsGone, RegistryIsExact, PastUnsubscribe, DeliveryInStep, Ended
<1>2. QED
  BY <1>1, Invariance, PTL

\* No Cancel and no Drain returns before Done is closed, no Close before its
\* whole snapshot is ended.
THEOREM ReturnEnded == Spec => []ReturnMeansEnded
<1>1. IInv => ReturnMeansEnded
  BY NoSubIsNoSub DEF IInv, ReturnMeansEnded, CallsClaim, CloseLoop, TypeOK
<1>2. QED
  BY <1>1, Invariance, PTL

-----------------------------------------------------------------------------
(* What a step may never do.                                               *)

\* A step that is not part of finish leaves the Once and the reason alone.
LEMMA OthersKeep ==
  ASSUME UNCHANGED <<once, err>>
  PROVE  ReasonKept
  BY DEF ReasonKept, Ended

\* finish's entry does not touch a subscription that was entered before.
LEMMA FinishKeeps ==
  ASSUME TypeOK, NEW s \in Subs, NEW r, Finish(s, r)
  PROVE  ReasonKept
  BY DEF TypeOK, Finish, ReasonKept, Ended

\* The reason a subscription ends for is recorded once and never replaced.
THEOREM ReasonFinal == Spec => ReasonIsFinal
<1>1. ASSUME IInv, [Next]_vars PROVE [ReasonKept]_vars
  <2>0. TypeOK
    BY <1>1 DEF IInv
  <2>1. ASSUME NEW s \in Subs,
               SubscribeRejected(s) \/ SubscribeNats(s) \/ SubscribeStep(s)
                 \/ CancelReturn(s) \/ Drain(s) \/ DrainReturn(s)
                 \/ Arrive(s) \/ Overflow(s) \/ TakeMessage(s) \/ RunHandler(s)
                 \/ NatsDrained(s) \/ Refuse(s)
        PROVE  ReasonKept
    BY <2>1, OthersKeep
    DEF SubscribeRejected, SubscribeNats, SubscribeStep, SetPendingLimits, Register,
        CancelReturn, Drain, DrainReturn, Arrive, Overflow, TakeMessage, RunHandler,
        NatsDrained, Refuse, subVars
  <2>2. ASSUME CloseSnapshot \/ CloseNext \/ CloseNats \/ OnAsyncError \/ AsyncNext
        PROVE  ReasonKept
    BY <2>2, OthersKeep
    DEF CloseSnapshot, CloseNext, CloseNats, OnAsyncError, AsyncNext, subVars
  <2>3. ASSUME NEW s \in Subs,
               Cancel(s) \/ DrainFails(s) \/ DrainDeadline(s) \/ CloseFinish(s)
                 \/ AsyncFinish(s)
        PROVE  ReasonKept
    BY <2>0, <2>3, FinishKeeps
    DEF Cancel, DrainFails, DrainDeadline, CloseFinish, AsyncFinish
  <2>4. ASSUME NEW s \in Subs, FinishStep(s) PROVE ReasonKept
    BY <2>0, <2>4
    DEF FinishStep, FinishUnsubscribe, FinishForget, FinishClose, ReasonKept, Ended, TypeOK
  <2>5. QED
    BY <1>1, <2>1, <2>2, <2>3, <2>4 DEF Next
<1>2. QED
  BY <1>1, Invariance, PTL DEF Spec, ReasonIsFinal

-----------------------------------------------------------------------------
(* Why a subscription ended.                                               *)

ErrorIsTrue(e) ==
  /\ e.kind = "subscription" => \E r \in refused : SubjectOf[r] = e.subject
  /\ e.kind = "slow" => e.sub \in overflowed

\* The causes, from the broker's error to the reason recorded for it.
Causes ==
  /\ ReasonHasCause
  /\ \A i \in 1 .. Len(errors) : ErrorIsTrue(errors[i])
  /\ \A s \in ending : HasCause(s, endingWhy)

\* What is the cause of an end is never undone.
LEMMA CausesStay ==
  ASSUME IInv, [Next]_vars
  PROVE  /\ refused \subseteq refused'
         /\ overflowed \subseteq overflowed'
         /\ snapshot \subseteq snapshot'
         /\ \A s \in Subs :
              drain[s] \in {"finishing", "returned"} => drain'[s] \in {"finishing", "returned"}
<1>1. refused \subseteq refused' /\ overflowed \subseteq overflowed'
  BY DEF Next, SubscribeStep, FinishStep, SubscribeRejected, SubscribeNats, SetPendingLimits,
     Register, FinishUnsubscribe, FinishForget, FinishClose, Cancel, CancelReturn, Drain,
     DrainFails, DrainDeadline, DrainReturn, CloseFinish, AsyncFinish, Arrive, Overflow,
     TakeMessage, RunHandler, NatsDrained, Refuse, CloseSnapshot, CloseNext,
     CloseNats, OnAsyncError, AsyncNext, natsVars, deliveryVars, vars
<1>2. snapshot \subseteq snapshot'
  BY DEF Next, SubscribeStep, FinishStep, SubscribeRejected, SubscribeNats, SetPendingLimits,
     Register, FinishUnsubscribe, FinishForget, FinishClose, Cancel, CancelReturn, Drain,
     DrainFails, DrainDeadline, DrainReturn, CloseFinish, AsyncFinish, Arrive, Overflow,
     TakeMessage, RunHandler, NatsDrained, Refuse, CloseSnapshot, CloseNext,
     CloseNats, OnAsyncError, AsyncNext, closeVars, vars, IInv, CloseLoop
<1>3. ASSUME NEW s \in Subs, drain[s] \in {"finishing", "returned"}
      PROVE  drain'[s] \in {"finishing", "returned"}
  BY <1>3 DEF Next, SubscribeStep, FinishStep, SubscribeRejected, SubscribeNats, SetPendingLimits,
     Register, FinishUnsubscribe, FinishForget, FinishClose, Cancel, CancelReturn, Drain,
     DrainFails, DrainDeadline, DrainReturn, CloseFinish, AsyncFinish, Arrive, Overflow,
     TakeMessage, RunHandler, NatsDrained, Refuse, CloseSnapshot, CloseNext,
     CloseNats, OnAsyncError, AsyncNext, callVars, vars, IInv, TypeOK
<1>4. QED
  BY <1>1, <1>2, <1>3

\* A step that leaves the reasons alone leaves them true.
LEMMA SameReasons ==
  ASSUME IInv, [Next]_vars, ReasonHasCause, UNCHANGED err
  PROVE  ReasonHasCause'
  BY CausesStay DEF ReasonHasCause, HasCause

\* A call of finish leaves them true when the cause of its reason is there after it.
LEMMA FinishReasons ==
  ASSUME IInv, [Next]_vars, ReasonHasCause, NEW s \in Subs, NEW r, Finish(s, r), HasCause(s, r)'
  PROVE  ReasonHasCause'
<1>1. ASSUME NEW t \in Subs PROVE err'[t] = err[t] \/ (t = s /\ err'[t] = r)
  BY DEF Finish, IInv, TypeOK
<1>2. QED
  BY <1>1, CausesStay DEF ReasonHasCause, HasCause

\* An error that was true when nats.go queued it stays true.
LEMMA ErrorStays ==
  ASSUME IInv, [Next]_vars, NEW e, ErrorIsTrue(e)
  PROVE  ErrorIsTrue(e)'
  BY CausesStay DEF ErrorIsTrue

\* Every step keeps the causes.
LEMMA NextCauses == IInv /\ Causes /\ [Next]_vars => Causes'
<1> SUFFICES ASSUME IInv, Causes, [Next]_vars PROVE Causes'
  OBVIOUS
<1>0. TypeOK /\ ReasonHasCause
  BY DEF IInv, Causes
<1>1. ReasonHasCause'
  <2>1. ASSUME NEW s \in Subs, Cancel(s) PROVE ReasonHasCause'
    BY <1>0, <2>1, FinishReasons DEF Cancel, HasCause, Nil
  <2>2. ASSUME NEW s \in Subs, DrainFails(s) PROVE ReasonHasCause'
    <3>1. HasCause(s, "unavailable")'
      BY <1>0, <2>2 DEF DrainFails, HasCause, TypeOK
    <3>2. QED
      BY <1>0, <2>2, <3>1, FinishReasons DEF DrainFails
  <2>3. ASSUME NEW s \in Subs, DrainDeadline(s) PROVE ReasonHasCause'
    <3>1. HasCause(s, "timeout")'
      BY <1>0, <2>3 DEF DrainDeadline, HasCause, TypeOK
    <3>2. QED
      BY <1>0, <2>3, <3>1, FinishReasons DEF DrainDeadline
  <2>4. ASSUME NEW s \in Subs, CloseFinish(s) PROVE ReasonHasCause'
    <3>1. HasCause(s, "withdrawn")'
      BY <2>4 DEF CloseFinish, HasCause, IInv, CloseLoop
    <3>2. QED
      BY <1>0, <2>4, <3>1, FinishReasons DEF CloseFinish
  <2>5. ASSUME NEW s \in Subs, AsyncFinish(s) PROVE ReasonHasCause'
    <3>1. HasCause(s, endingWhy)
      BY <2>5 DEF AsyncFinish, Causes
    <3>2. CASE endingWhy = "denied"
      <4>1. HasCause(s, "denied")'
        BY <3>1, <3>2, CausesStay DEF HasCause
      <4>2. QED
        BY <1>0, <2>5, <3>2, <4>1, FinishReasons DEF AsyncFinish
    <3>3. CASE endingWhy = "slow_consumer"
      <4>1. HasCause(s, "slow_consumer")'
        BY <3>1, <3>3, CausesStay DEF HasCause
      <4>2. QED
        BY <1>0, <2>5, <3>3, <4>1, FinishReasons DEF AsyncFinish
    <3>4. QED
      BY <1>0, <3>2, <3>3 DEF TypeOK
  <2>6. ASSUME UNCHANGED err PROVE ReasonHasCause'
    BY <1>0, <2>6, SameReasons
  <2>7. QED
    BY <2>1, <2>2, <2>3, <2>4, <2>5, <2>6
    DEF Next, SubscribeStep, FinishStep, SubscribeRejected, SubscribeNats, SetPendingLimits,
        Register, FinishUnsubscribe, FinishForget, FinishClose, CancelReturn, Drain,
        DrainReturn, Arrive, Overflow, TakeMessage, RunHandler, NatsDrained,
        Refuse, CloseSnapshot, CloseNext, CloseNats, OnAsyncError, AsyncNext, subVars, vars
<1>2. (\A i \in 1 .. Len(errors) : ErrorIsTrue(errors[i]))'
  <2>1. ASSUME NEW s \in Subs, Overflow(s)
        PROVE  (\A i \in 1 .. Len(errors) : ErrorIsTrue(errors[i]))'
    <3>1. errors' = errors \/ errors' = Append(errors, SlowConsumer(s))
      BY <2>1, Zenon DEF Overflow
    <3>2. ErrorIsTrue(SlowConsumer(s))'
      BY <2>1 DEF Overflow, ErrorIsTrue, SlowConsumer
    <3>3. CASE errors' = errors
      BY <3>3, ErrorStays DEF Causes
    <3>4. CASE errors' = Append(errors, SlowConsumer(s))
      BY <1>0, <3>2, <3>4, ErrorStays DEF Causes, TypeOK
    <3>5. QED
      BY <3>1, <3>3, <3>4
  <2>2. ASSUME NEW s \in Subs, Refuse(s)
        PROVE  (\A i \in 1 .. Len(errors) : ErrorIsTrue(errors[i]))'
    <3>1. errors' = Append(errors, Violation(SubjectOf[s]))
      BY <2>2 DEF Refuse
    <3>2. ErrorIsTrue(Violation(SubjectOf[s]))'
      BY <2>2 DEF Refuse, ErrorIsTrue, Violation
    <3>3. QED
      BY <1>0, <3>1, <3>2, ErrorStays DEF Causes, TypeOK
  <2>3. CASE OnAsyncError
    <3>1. errors' = Tail(errors) /\ errors # <<>>
      BY <2>3 DEF OnAsyncError
    <3>2. QED
      BY <1>0, <3>1, ErrorStays DEF Causes, TypeOK
  <2>4. CASE UNCHANGED errors
    BY <2>4, ErrorStays DEF Causes
  <2>5. QED
    BY <2>1, <2>2, <2>3, <2>4
    DEF Next, SubscribeStep, FinishStep, SubscribeRejected, SubscribeNats, SetPendingLimits,
        Register, FinishUnsubscribe, FinishForget, FinishClose, Cancel, CancelReturn, Drain,
        DrainFails, DrainDeadline, DrainReturn, CloseFinish, AsyncFinish, Arrive, TakeMessage,
        RunHandler, NatsDrained, CloseSnapshot, CloseNext, CloseNats, AsyncNext, vars
<1>3. (\A s \in ending : HasCause(s, endingWhy))'
  <2>1. CASE OnAsyncError
    <3>1. Len(errors) \in Nat /\ Len(errors) > 0 /\ Head(errors) = errors[1]
      BY <1>0, <2>1 DEF OnAsyncError, TypeOK
    <3>2. ErrorIsTrue(Head(errors))
      BY <3>1 DEF Causes
    <3>3. Head(errors).kind \in {"slow", "subscription"}
      BY <1>0, <3>1 DEF TypeOK, AsyncError
    <3>4. \A s \in Found(Head(errors)) :
            HasCause(s, IF Head(errors).kind = "slow" THEN "slow_consumer" ELSE "denied")
      BY <3>2, <3>3 DEF Found, HasCause, ErrorIsTrue
    <3>5. QED
      BY <2>1, <3>4, CausesStay DEF OnAsyncError, HasCause
  <2>2. CASE ending' \subseteq ending /\ UNCHANGED endingWhy
    BY <1>0, <2>2, CausesStay DEF Causes, HasCause, TypeOK
  <2>3. QED
    BY <2>1, <2>2
    DEF Next, SubscribeStep, FinishStep, SubscribeRejected, SubscribeNats, SetPendingLimits,
        Register, FinishUnsubscribe, FinishForget, FinishClose, Cancel, CancelReturn, Drain,
        DrainFails, DrainDeadline, DrainReturn, CloseFinish, AsyncFinish, Arrive, Overflow,
        TakeMessage, RunHandler, NatsDrained, Refuse, CloseSnapshot, CloseNext,
        CloseNats, AsyncNext,
        asyncVars, vars
<1>4. QED
  BY <1>1, <1>2, <1>3 DEF Causes

\* No subscription ends for what did not happen: to itself, or, when it is denied, to
\* one of its subject.
THEOREM ReasonCaused == Spec => []ReasonHasCause
<1>1. Init => Causes
  BY DEF Init, Causes, ReasonHasCause, HasCause, ErrorIsTrue, Nil
<1>2. Causes => ReasonHasCause
  BY DEF Causes
<1>3. QED
  BY <1>1, <1>2, NextCauses, Invariance, PTL DEF Spec

\* Where no two subscriptions share a subject, an error that names the subject names
\* the subscription: then one that ended as denied was refused itself.
THEOREM DenialIsOwn ==
  ASSUME \A r, s \in Subs : SubjectOf[r] = SubjectOf[s] => r = s
  PROVE  Spec => []DeniedWasRefused
<1>1. IInv /\ ReasonHasCause => DeniedWasRefused
  BY DEF IInv, TypeOK, ReasonHasCause, HasCause, DeniedWasRefused
<1>2. QED
  BY <1>1, Invariance, ReasonCaused, PTL

-----------------------------------------------------------------------------
(* The refinement.                                                         *)

\* The initial state is the contract's: every subscription is absent.
LEMMA ContractInit == Init => Contract!Init
  BY DEF Init, Contract!Init, Status, Reason, Released, Ended, Live, Nil

\* A step that gives out no subscription, closes no Done and returns from no call
\* is invisible to the contract.
LEMMA ContractStutters ==
  ASSUME \A s \in Subs :
           /\ Live(s)' <=> Live(s)
           /\ Ended(s)' <=> Ended(s)
           /\ Ended(s) => err'[s] = err[s]
           /\ cancel'[s] = "returned" <=> cancel[s] = "returned"
           /\ drain'[s] = "returned" <=> drain[s] = "returned"
  PROVE  UNCHANGED Contract!vars
<1>1. UNCHANGED Status
  BY DEF Status
<1>2. UNCHANGED Reason
  BY DEF Reason
<1>3. UNCHANGED Released
  BY DEF Released
<1>4. QED
  BY <1>1, <1>2, <1>3 DEF Contract!vars

\* Every step of the connection is a step of the contract or invisible to it.
LEMMA ContractNext == IInv /\ [Next]_vars => [Contract!Next]_(Contract!vars)
<1> SUFFICES ASSUME IInv, [Next]_vars PROVE [Contract!Next]_(Contract!vars)
  OBVIOUS
<1>0. TypeOK /\ ClaimedIsLive /\ CallsClaim
  BY DEF IInv
<1>1. ASSUME NEW s \in Subs, Register(s) PROVE Contract!Open(s)
  <2>1. Status[s] = "absent" /\ ~Ended(s)
    BY <1>0, <1>1 DEF Register, Status, ClaimedIsLive, Claimed, Live, Ended
  <2>2. Status' = [Status EXCEPT ![s] = "live"]
    BY <1>0, <1>1, <2>1 DEF Register, Status, TypeOK, Live, Ended
  <2>3. UNCHANGED <<Reason, Released>>
    BY <1>1 DEF Register, Reason, Released, Ended, callVars
  <2>4. QED
    BY <2>1, <2>2, <2>3 DEF Contract!Open
<1>2. ASSUME NEW s \in Subs, FinishClose(s) PROVE Contract!End(s, err[s])
  <2>1. Status[s] = "live"
    BY <1>0, <1>2 DEF FinishClose, Status, ClaimedIsLive, Claimed, Ended
  <2>2. Status' = [Status EXCEPT ![s] = "ended"]
    BY <1>0, <1>2 DEF FinishClose, Status, TypeOK, Live, Ended
  <2>3. Reason' = [Reason EXCEPT ![s] = err[s]]
    BY <1>0, <1>2 DEF FinishClose, Reason, TypeOK, Ended
  <2>4. UNCHANGED Released
    BY <1>2 DEF FinishClose, Released, callVars
  <2>5. QED
    BY <2>1, <2>2, <2>3, <2>4 DEF Contract!End
<1>3. ASSUME NEW s \in Subs, CancelReturn(s) \/ DrainReturn(s) PROVE Contract!Release(s)
  <2>1. Status[s] = "ended"
    BY <1>3 DEF CancelReturn, DrainReturn, Status
  <2>2. UNCHANGED <<Status, Reason>>
    BY <1>3 DEF CancelReturn, DrainReturn, Status, Reason, Live, Ended, subVars
  <2>3. Released' = Released \cup {s}
    BY <1>0, <1>3 DEF CancelReturn, DrainReturn, Released, TypeOK
  <2>4. QED
    BY <2>1, <2>2, <2>3 DEF Contract!Release
<1>4. ASSUME NEW s \in Subs, SubscribeRejected(s) \/ SubscribeNats(s) \/ SetPendingLimits(s)
      PROVE  UNCHANGED Contract!vars
  BY <1>0, <1>4, ContractStutters
  DEF SubscribeRejected, SubscribeNats, SetPendingLimits, TypeOK, Live, Ended, callVars
<1>5. ASSUME NEW s \in Subs, FinishUnsubscribe(s) \/ FinishForget(s)
      PROVE  UNCHANGED Contract!vars
  BY <1>0, <1>5, ContractStutters
  DEF FinishUnsubscribe, FinishForget, TypeOK, Live, Ended, callVars
<1>6. ASSUME NEW s \in Subs,
             Arrive(s) \/ Overflow(s) \/ TakeMessage(s) \/ RunHandler(s)
                 \/ NatsDrained(s) \/ Refuse(s)
      PROVE  UNCHANGED Contract!vars
  BY <1>6, ContractStutters
  DEF Arrive, Overflow, TakeMessage, RunHandler, NatsDrained, Refuse, Live,
      Ended, callVars, subVars
<1>7. ASSUME NEW s \in Subs, Cancel(s) \/ DrainFails(s) \/ DrainDeadline(s)
      PROVE  UNCHANGED Contract!vars
  BY <1>0, <1>7, ContractStutters
  DEF Cancel, DrainFails, DrainDeadline, Finish, TypeOK, Live, Ended
<1>8. ASSUME NEW s \in Subs, Drain(s) PROVE UNCHANGED Contract!vars
  BY <1>0, <1>8, ContractStutters DEF Drain, TypeOK, Live, Ended, subVars
<1>9. ASSUME NEW s \in Subs, CloseFinish(s) \/ AsyncFinish(s)
      PROVE  UNCHANGED Contract!vars
  BY <1>0, <1>9, ContractStutters
  DEF CloseFinish, AsyncFinish, Finish, TypeOK, Live, Ended, callVars
<1>10. ASSUME \/ CloseSnapshot \/ CloseNext \/ CloseNats \/ OnAsyncError \/ AsyncNext
              \/ UNCHANGED vars
       PROVE  UNCHANGED Contract!vars
  BY <1>10, ContractStutters
  DEF CloseSnapshot, CloseNext, CloseNats, OnAsyncError, AsyncNext, Live, Ended,
      callVars, subVars, vars
<1>11. \A s \in Subs : err[s] \in Faults \cup {Nil}
  BY <1>0 DEF TypeOK
<1>12. QED
  BY <1>1, <1>2, <1>3, <1>4, <1>5, <1>6, <1>7, <1>8, <1>9, <1>10, <1>11
  DEF Next, SubscribeStep, FinishStep, Contract!Next

\* The connection implements the subscription contract.
THEOREM Refinement == Spec => ImplementsContract
<1>1. QED
  BY ContractInit, ContractNext, Invariance, PTL DEF Spec, ImplementsContract, Contract!Spec
=============================================================================
