------------------------------ MODULE NatsConn ------------------------------
(***************************************************************************)
(* The subscriptions of one natsconn.Conn, from Subscribe to Done.         *)
(*                                                                         *)
(* Five kinds of goroutine meet on a subscription: the plugin's Subscribe  *)
(* call, its Cancel and Drain calls, Conn.Close, the callback goroutine of *)
(* nats.go that runs onAsyncError, and nats.go's own delivery.  All of     *)
(* them end a subscription through subscription.finish, whose sync.Once    *)
(* lets the first one record its reason and makes the others wait.  Each   *)
(* statement of finish that another goroutine can observe is a step here.  *)
(*                                                                         *)
(* A definition whose name starts with Bug is not part of the model: it is *)
(* a mistake the code could have made, and the definition after it is      *)
(* replaced by it to see that a property notices.                          *)
(*                                                                         *)
(* A critical section of c.mu is one step.  Messages are counted, not      *)
(* represented.  nats.go and the broker are not under src/: they are       *)
(* modelled from how natsconn uses them.                                   *)
(***************************************************************************)
EXTENDS Naturals, Sequences

CONSTANTS
  Subs,          \* the subscriptions the plugin asks for, one Subscribe each
  NoSub,         \* no subscription
  Subjects,      \* the patterns subscribed to
  SubjectOf,     \* the pattern of each: subscription.subject
  Cancelled,     \* those the plugin may call Cancel on
  Drained,       \* those it may call Drain on
  Timed,         \* those whose Drain is given a context with a deadline
  Busy,          \* those messages are published to
  Ungranted,     \* those the broker may refuse
  PendingLimit,  \* what SetPendingLimits is called with
  QueueBound,    \* bound: messages pending before the limit is set
  ErrBound       \* bound: errors waiting for the callback goroutine

ASSUME NoSubIsNoSub == NoSub \notin Subs
ASSUME SubjectOfType == SubjectOf \in [Subs -> Subjects]
ASSUME BoundsType == {PendingLimit, QueueBound, ErrBound} \subseteq Nat

VARIABLES
  nc,         \* the nats connection: "open" or "closed"
  ns,         \* ns[s]: the nats subscription: "none", "active", "draining", "closed"
  queue,      \* queue[s]: messages in nats.go's queue for s's handler
  taken,      \* those nats.go's goroutine has a message of, handled now or next
  late,       \* late[s]: history: messages of s handled after Done had closed
  slow,       \* slow[s]: nats.go has reported s and accepted nothing since
  refused,    \* the subscriptions the broker has refused
  overflowed, \* the subscriptions a message was dropped for
  errors,     \* what nats.go has queued for onAsyncError, oldest first
  subscribe,  \* subscribe[s]: where the Subscribe call for s is
  subs,       \* c.subs
  once,       \* once[s]: the next statement of finish, "fresh" and "done" around them
  err,        \* err[s]: subscription.err
  cancel,     \* cancel[s]: the Cancel call on s
  drain,      \* drain[s]: the Drain call on s
  close,      \* the Close call
  snapshot,   \* Close's local subs
  closing,    \* those of snapshot Close's loop has not come to
  closeOn,    \* the one Close is in finish for
  ending,     \* those found that onAsyncError's loop has not come to
  endingWhy,  \* the reason onAsyncError ends them for
  endingOn    \* the one onAsyncError is in finish for

deliveryVars == <<taken, late>>
natsVars  == <<nc, ns, queue, deliveryVars, slow, refused, overflowed>>
subVars   == <<subscribe, subs, once, err>>
callVars  == <<cancel, drain>>
closeVars == <<close, snapshot, closing, closeOn>>
asyncVars == <<ending, endingWhy, endingOn>>
vars == <<natsVars, errors, subVars, callVars, closeVars, asyncVars>>

Faults == {"denied", "slow_consumer", "withdrawn", "timeout", "unavailable"}
Nil == "nil"

SlowConsumer(s) == [kind |-> "slow", sub |-> s]
Violation(x)    == [kind |-> "subscription", subject |-> x]

AsyncError ==
  [kind : {"slow"}, sub : Subs] \cup [kind : {"subscription"}, subject : Subjects]

TypeOK ==
  /\ nc \in {"open", "closed"}
  /\ ns \in [Subs -> {"none", "active", "draining", "closed"}]
  /\ queue \in [Subs -> Nat]
  /\ taken \subseteq Subs
  /\ late \in [Subs -> Nat]
  /\ slow \in [Subs -> BOOLEAN]
  /\ refused \subseteq Subs
  /\ overflowed \subseteq Subs
  /\ errors \in Seq(AsyncError)
  /\ subscribe \in [Subs -> {"idle", "subscribed", "limited", "returned", "failed"}]
  /\ subs \subseteq Subs
  /\ once \in [Subs -> {"fresh", "unsubscribe", "forget", "close", "done"}]
  /\ err \in [Subs -> Faults \cup {Nil}]
  /\ cancel \in [Subs -> {"idle", "finishing", "returned"}]
  /\ drain \in [Subs -> {"idle", "waiting", "finishing", "returned"}]
  /\ close \in {"idle", "ending", "returned"}
  /\ snapshot \subseteq Subs
  /\ closing \subseteq Subs
  /\ closeOn \in Subs \cup {NoSub}
  /\ ending \subseteq Subs
  /\ endingWhy \in {"denied", "slow_consumer"}
  /\ endingOn \in Subs \cup {NoSub}

Init ==
  /\ nc = "open"
  /\ ns = [s \in Subs |-> "none"]
  /\ queue = [s \in Subs |-> 0]
  /\ taken = {}
  /\ late = [s \in Subs |-> 0]
  /\ slow = [s \in Subs |-> FALSE]
  /\ refused = {}
  /\ overflowed = {}
  /\ errors = <<>>
  /\ subscribe = [s \in Subs |-> "idle"]
  /\ subs = {}
  /\ once = [s \in Subs |-> "fresh"]
  /\ err = [s \in Subs |-> Nil]
  /\ cancel = [s \in Subs |-> "idle"]
  /\ drain = [s \in Subs |-> "idle"]
  /\ close = "idle"
  /\ snapshot = {}
  /\ closing = {}
  /\ closeOn = NoSub
  /\ ending = {}
  /\ endingWhy = "denied"
  /\ endingOn = NoSub

Live(s)  == subscribe[s] = "returned"    \* the plugin holds s
Ended(s) == once[s] = "done"             \* s.done is closed

-----------------------------------------------------------------------------
(* subscription.finish.  Finish is its entry: the first caller records its *)
(* reason, a later one finds the Once taken.  Every caller then waits for  *)
(* Ended, as sync.Once makes it.                                           *)

Finish(s, reason) ==
  IF once[s] = "fresh"
  THEN /\ once' = [once EXCEPT ![s] = "unsubscribe"]
       /\ err' = [err EXCEPT ![s] = reason]
  ELSE UNCHANGED <<once, err>>

BugFinishKeepsNats(s) ==
  /\ once[s] = "unsubscribe"
  /\ once' = [once EXCEPT ![s] = "forget"]
  /\ UNCHANGED <<natsVars, errors, subscribe, subs, err, callVars, closeVars, asyncVars>>

FinishUnsubscribe(s) ==
  /\ once[s] = "unsubscribe"
  /\ once' = [once EXCEPT ![s] = "forget"]
  /\ ns' = [ns EXCEPT ![s] = "closed"]
  /\ queue' = [queue EXCEPT ![s] = 0]
  /\ UNCHANGED <<nc, deliveryVars, slow, refused, overflowed, errors, subscribe, subs,
                 err, callVars, closeVars, asyncVars>>

BugForgetWaitsForClose(s) ==  \* Close keeps c.mu while it ends its snapshot
  /\ once[s] = "forget"
  /\ close # "ending"
  /\ once' = [once EXCEPT ![s] = "close"]
  /\ subs' = subs \ {s}
  /\ UNCHANGED <<natsVars, errors, subscribe, err, callVars, closeVars, asyncVars>>

FinishForget(s) ==
  /\ once[s] = "forget"
  /\ once' = [once EXCEPT ![s] = "close"]
  /\ subs' = subs \ {s}
  /\ UNCHANGED <<natsVars, errors, subscribe, err, callVars, closeVars, asyncVars>>

FinishClose(s) ==
  /\ once[s] = "close"
  /\ once' = [once EXCEPT ![s] = "done"]
  /\ UNCHANGED <<natsVars, errors, subscribe, subs, err, callVars, closeVars, asyncVars>>

-----------------------------------------------------------------------------
(* Conn.Subscribe: nc.Subscribe, then SetPendingLimits, then the entry in  *)
(* c.subs, three steps other goroutines may come between.                  *)

SubscribeRejected(s) ==  \* a malformed pattern, no handler, or a closed nats connection
  /\ subscribe[s] = "idle"
  /\ subscribe' = [subscribe EXCEPT ![s] = "failed"]
  /\ UNCHANGED <<natsVars, errors, subs, once, err, callVars, closeVars, asyncVars>>

SubscribeNats(s) ==
  /\ subscribe[s] = "idle"
  /\ nc = "open"
  /\ ns' = [ns EXCEPT ![s] = "active"]
  /\ subscribe' = [subscribe EXCEPT ![s] = "subscribed"]
  /\ UNCHANGED <<nc, queue, deliveryVars, slow, refused, overflowed, errors, subs, once,
                 err, callVars, closeVars, asyncVars>>

SetPendingLimits(s) ==  \* fails, and with it Subscribe, on a closed nats subscription
  /\ subscribe[s] = "subscribed"
  /\ subscribe' = [subscribe EXCEPT ![s] = IF ns[s] = "closed" THEN "failed" ELSE "limited"]
  /\ UNCHANGED <<natsVars, errors, subs, once, err, callVars, closeVars, asyncVars>>

Register(s) ==  \* and return s to the plugin
  /\ subscribe[s] = "limited"
  /\ subs' = subs \cup {s}
  /\ subscribe' = [subscribe EXCEPT ![s] = "returned"]
  /\ UNCHANGED <<natsVars, errors, once, err, callVars, closeVars, asyncVars>>

-----------------------------------------------------------------------------
(* nats.go and the broker.                                                 *)

Receives(s) == nc = "open" /\ ns[s] \in {"active", "draining"} /\ s \notin refused
Limited(s)  == subscribe[s] \notin {"idle", "subscribed"}
Pending(s)  == queue[s] + (IF s \in taken THEN 1 ELSE 0)  \* and not handled to the end

Arrive(s) ==
  /\ s \in Busy
  /\ Receives(s)
  /\ Pending(s) < (IF Limited(s) THEN PendingLimit ELSE QueueBound)
  /\ queue' = [queue EXCEPT ![s] = @ + 1]
  /\ slow' = [slow EXCEPT ![s] = FALSE]
  /\ UNCHANGED <<nc, ns, deliveryVars, refused, overflowed, errors, subVars, callVars,
                 closeVars, asyncVars>>

Overflow(s) ==  \* the message is dropped, and reported unless the last one was too
  /\ s \in Busy
  /\ Receives(s)
  /\ Limited(s)
  /\ Pending(s) >= PendingLimit
  /\ slow' = [slow EXCEPT ![s] = TRUE]
  /\ overflowed' = overflowed \cup {s}
  /\ \/ slow[s] /\ UNCHANGED errors
     \/ ~slow[s] /\ Len(errors) < ErrBound /\ errors' = Append(errors, SlowConsumer(s))
  /\ UNCHANGED <<nc, ns, queue, deliveryVars, refused, subVars, callVars, closeVars, asyncVars>>

TakeMessage(s) ==  \* the goroutine of s takes a message, none from a closed subscription
  /\ ns[s] \in {"active", "draining"}
  /\ queue[s] > 0
  /\ s \notin taken
  /\ queue' = [queue EXCEPT ![s] = @ - 1]
  /\ taken' = taken \cup {s}
  /\ UNCHANGED <<nc, ns, late, slow, refused, overflowed, errors, subVars, callVars,
                 closeVars, asyncVars>>

\* cb, which does not look at the subscription again, up to the return of the handler.
RunHandler(s) ==
  /\ s \in taken
  /\ taken' = taken \ {s}
  /\ late' = [late EXCEPT ![s] = IF Ended(s) THEN @ + 1 ELSE @]
  /\ UNCHANGED <<nc, ns, queue, slow, refused, overflowed, errors, subVars, callVars,
                 closeVars, asyncVars>>

NatsDrained(s) ==  \* a draining nats subscription whose last handler is back is removed
  /\ ns[s] = "draining"
  /\ Pending(s) = 0
  /\ ns' = [ns EXCEPT ![s] = "closed"]
  /\ UNCHANGED <<nc, queue, deliveryVars, slow, refused, overflowed, errors, subVars,
                 callVars, closeVars, asyncVars>>

Refuse(s) ==  \* the broker's -ERR for a SUB the grant does not cover
  /\ s \in Ungranted
  /\ Receives(s)
  /\ Len(errors) < ErrBound
  /\ refused' = refused \cup {s}
  /\ errors' = Append(errors, Violation(SubjectOf[s]))
  /\ UNCHANGED <<nc, ns, queue, deliveryVars, slow, overflowed, subVars, callVars, closeVars,
                 asyncVars>>

-----------------------------------------------------------------------------
(* subscription.Cancel and subscription.Drain.                             *)

Cancel(s) ==
  /\ s \in Cancelled
  /\ Live(s)
  /\ cancel[s] = "idle"
  /\ cancel' = [cancel EXCEPT ![s] = "finishing"]
  /\ Finish(s, Nil)
  /\ UNCHANGED <<natsVars, errors, subscribe, subs, drain, closeVars, asyncVars>>

CancelReturn(s) ==
  /\ cancel[s] = "finishing"
  /\ Ended(s)
  /\ cancel' = [cancel EXCEPT ![s] = "returned"]
  /\ UNCHANGED <<natsVars, errors, subVars, drain, closeVars, asyncVars>>

Drain(s) ==  \* ns.Drain succeeded
  /\ s \in Drained
  /\ Live(s)
  /\ drain[s] = "idle"
  /\ nc = "open"
  /\ ns' = [ns EXCEPT ![s] = IF @ = "active" THEN "draining" ELSE @]
  /\ drain' = [drain EXCEPT ![s] = "waiting"]
  /\ UNCHANGED <<nc, queue, deliveryVars, slow, refused, overflowed, errors, subVars,
                 cancel, closeVars, asyncVars>>

DrainFails(s) ==  \* ns.Drain refused a subscription or a connection that is closed
  /\ s \in Drained
  /\ Live(s)
  /\ drain[s] = "idle"
  /\ ns[s] = "closed"
  /\ drain' = [drain EXCEPT ![s] = "finishing"]
  /\ Finish(s, "unavailable")
  /\ UNCHANGED <<natsVars, errors, subscribe, subs, cancel, closeVars, asyncVars>>

DrainDeadline(s) ==
  /\ s \in Timed
  /\ drain[s] = "waiting"
  /\ drain' = [drain EXCEPT ![s] = "finishing"]
  /\ Finish(s, "timeout")
  /\ UNCHANGED <<natsVars, errors, subscribe, subs, cancel, closeVars, asyncVars>>

BugDrainReturnsEarly(s) ==
  /\ drain[s] \in {"waiting", "finishing"}
  /\ drain[s] = "waiting" => Ended(s)
  /\ drain' = [drain EXCEPT ![s] = "returned"]
  /\ UNCHANGED <<natsVars, errors, subVars, cancel, closeVars, asyncVars>>

DrainReturn(s) ==  \* <-s.done, or finish has returned; the result is s.Err()
  /\ drain[s] \in {"waiting", "finishing"}
  /\ Ended(s)
  /\ drain' = [drain EXCEPT ![s] = "returned"]
  /\ UNCHANGED <<natsVars, errors, subVars, cancel, closeVars, asyncVars>>

-----------------------------------------------------------------------------
(* Conn.Close, once: a snapshot of c.subs, finish for each, nc.Close.      *)

CloseSnapshot ==
  /\ close = "idle"
  /\ close' = "ending"
  /\ snapshot' = subs
  /\ closing' = subs
  /\ UNCHANGED <<natsVars, errors, subVars, callVars, closeOn, asyncVars>>

CloseFinish(s) ==
  /\ closeOn = NoSub
  /\ s \in closing
  /\ closeOn' = s
  /\ closing' = closing \ {s}
  /\ Finish(s, "withdrawn")
  /\ UNCHANGED <<natsVars, errors, subscribe, subs, callVars, close, snapshot, asyncVars>>

BugCloseSkipsEnded ==
  /\ closeOn # NoSub
  /\ closeOn' = NoSub
  /\ UNCHANGED <<natsVars, errors, subVars, callVars, close, snapshot, closing, asyncVars>>

CloseNext ==
  /\ closeOn # NoSub
  /\ Ended(closeOn)
  /\ closeOn' = NoSub
  /\ UNCHANGED <<natsVars, errors, subVars, callVars, close, snapshot, closing, asyncVars>>

CloseNats ==
  /\ close = "ending"
  /\ closing = {}
  /\ closeOn = NoSub
  /\ close' = "returned"
  /\ nc' = "closed"
  /\ ns' = [s \in Subs |-> IF ns[s] = "none" THEN "none" ELSE "closed"]
  /\ queue' = [s \in Subs |-> 0]
  /\ UNCHANGED <<deliveryVars, slow, refused, overflowed, errors, subVars, callVars, snapshot,
                 closing, closeOn, asyncVars>>

-----------------------------------------------------------------------------
(* Conn.onAsyncError, one error at a time on nats.go's callback goroutine: *)
(* the subscriptions the error is about are looked up in c.subs, then      *)
(* ended one after the other.                                              *)

BugFoundFirst(e) ==
  IF e.kind = "slow"
  THEN subs \cap {e.sub}
  ELSE IF \E s \in subs : SubjectOf[s] = e.subject
       THEN {CHOOSE s \in subs : SubjectOf[s] = e.subject}
       ELSE {}

BugFoundBySubject(e) ==
  {s \in subs : SubjectOf[s] = IF e.kind = "slow" THEN SubjectOf[e.sub] ELSE e.subject}

Found(e) ==  \* findByNATS or findBySubject
  IF e.kind = "slow"
  THEN subs \cap {e.sub}
  ELSE {s \in subs : SubjectOf[s] = e.subject}

BugReasonUnclassified ==  \* nats.go's own error instead of a fault of the bus
  /\ errors # <<>>
  /\ ending = {}
  /\ endingOn = NoSub
  /\ ending' = Found(Head(errors))
  /\ endingWhy' = Head(errors).kind
  /\ errors' = Tail(errors)
  /\ UNCHANGED <<natsVars, subVars, callVars, closeVars, endingOn>>

OnAsyncError ==
  /\ errors # <<>>
  /\ ending = {}
  /\ endingOn = NoSub
  /\ ending' = Found(Head(errors))
  /\ endingWhy' = IF Head(errors).kind = "slow" THEN "slow_consumer" ELSE "denied"
  /\ errors' = Tail(errors)
  /\ UNCHANGED <<natsVars, subVars, callVars, closeVars, endingOn>>

AsyncFinish(s) ==
  /\ endingOn = NoSub
  /\ s \in ending
  /\ endingOn' = s
  /\ ending' = ending \ {s}
  /\ Finish(s, endingWhy)
  /\ UNCHANGED <<natsVars, errors, subscribe, subs, callVars, closeVars, endingWhy>>

AsyncNext ==
  /\ endingOn # NoSub
  /\ Ended(endingOn)
  /\ endingOn' = NoSub
  /\ UNCHANGED <<natsVars, errors, subVars, callVars, closeVars, ending, endingWhy>>

-----------------------------------------------------------------------------
SubscribeStep(s) == SetPendingLimits(s) \/ Register(s)
FinishStep(s)    == FinishUnsubscribe(s) \/ FinishForget(s) \/ FinishClose(s)

Next ==
  \/ \E s \in Subs :
       \/ SubscribeRejected(s) \/ SubscribeNats(s) \/ SubscribeStep(s)
       \/ FinishStep(s)
       \/ Cancel(s) \/ CancelReturn(s)
       \/ Drain(s) \/ DrainFails(s) \/ DrainDeadline(s) \/ DrainReturn(s)
       \/ CloseFinish(s)
       \/ AsyncFinish(s)
       \/ Arrive(s) \/ Overflow(s) \/ NatsDrained(s) \/ Refuse(s)
       \/ TakeMessage(s) \/ RunHandler(s)
  \/ CloseSnapshot \/ CloseNext \/ CloseNats
  \/ OnAsyncError \/ AsyncNext

(* A goroutine that can take its next step does so: Go's scheduler is fair *)
(* and none of these steps waits for the plugin or for the broker.  What   *)
(* the plugin, its handlers and the broker do is never assumed, save that  *)
(* a deadline passes.                                                      *)
Fairness ==
  /\ \A s \in Subs :
       /\ WF_vars(FinishStep(s))
       /\ WF_vars(CancelReturn(s))
       /\ WF_vars(DrainDeadline(s) \/ DrainReturn(s))
  /\ WF_vars(CloseNext \/ CloseNats \/ \E s \in Subs : CloseFinish(s))
  /\ WF_vars(OnAsyncError \/ AsyncNext \/ \E s \in Subs : AsyncFinish(s))

Spec == Init /\ [][Next]_vars
FairSpec == Spec /\ Fairness

-----------------------------------------------------------------------------
(* Safety.                                                                 *)

\* c.subs holds exactly the subscriptions the plugin was given and finish has
\* not forgotten: none leaks there after it ended, none drops out before.
RegistryIsExact ==
  subs = {s \in Subs : Live(s) /\ once[s] \in {"fresh", "unsubscribe", "forget"}}

\* Once Done has closed, onAsyncError and Close no longer find the subscription and
\* nats.go hands it no message.  Its handler need not be at rest: a message nats.go's
\* goroutine had taken before is still handled, in a run that may even begin only
\* then, but it is the last one.
EndedIsGone ==
  \A s \in Subs :
    Ended(s) => s \notin subs /\ ns[s] = "closed" /\ queue[s] = 0 /\ late[s] <= 1

\* A Cancel, a Drain or a Close that returns leaves its subscriptions ended, Close
\* every one of its snapshot, even when another goroutine got to finish first and
\* was still in it; the nats connection is closed after them all.
ReturnMeansEnded ==
  /\ \A s \in Subs : cancel[s] = "returned" \/ drain[s] = "returned" => Ended(s)
  /\ close = "returned" => \A s \in snapshot : Ended(s)
  /\ nc = "closed" => close = "returned"

HasCause(s, reason) ==
  /\ reason = "denied" => \E r \in refused : SubjectOf[r] = SubjectOf[s]
  /\ reason = "slow_consumer" => s \in overflowed
  /\ reason = "withdrawn" => s \in snapshot
  /\ reason = "timeout" => s \in Timed /\ drain[s] \in {"finishing", "returned"}
  /\ reason = "unavailable" => drain[s] \in {"finishing", "returned"}

\* A subscription is ended for something that happened: Err is slow_consumer,
\* withdrawn, timeout or unavailable only when that befell this subscription, and
\* denied only when the broker refused one of its subject (which one: DeniedWasRefused),
\* whichever goroutine recorded it and however long after the broker's error.
ReasonHasCause == \A s \in Subs : HasCause(s, err[s])

ReasonKept ==
  \A s \in Subs :
    /\ once[s] # "fresh" => once'[s] # "fresh" /\ err'[s] = err[s]
    /\ Ended(s) => Ended(s)'

\* finish runs once: whichever of the five goroutines got there first, the
\* reason it recorded stays, and a subscription that ended stays ended.
ReasonIsFinal == [][ReasonKept]_vars

-----------------------------------------------------------------------------
(* Liveness, under Fairness.                                               *)

\* Cancel, a Drain with a deadline and Close return, whoever else is ending the
\* subscription and whatever the handler and the broker do: none waits for a
\* goroutine that waits for it.
Ending ==
  \/ \E s \in Cancelled : cancel[s] = "finishing"
  \/ \E s \in Timed : drain[s] \in {"waiting", "finishing"}
  \/ close = "ending"
EndsReturn == Ending ~> ~Ending

\* An error that nats.go has queued about a subscription in c.subs ends it,
\* and every other one of its subject.
IsAbout(e, s) == IF e.kind = "slow" THEN e.sub = s ELSE e.subject = SubjectOf[s]
AsyncErrorEnds ==
  \A s \in Subs :
    (s \in subs /\ \E i \in 1 .. Len(errors) : IsAbout(errors[i], s)) ~> Ended(s)

-----------------------------------------------------------------------------
(* The subscription contract, implemented.                                 *)

Status ==
  [s \in Subs |-> IF Ended(s) THEN "ended" ELSE IF Live(s) THEN "live" ELSE "absent"]
Reason   == [s \in Subs |-> IF Ended(s) THEN err[s] ELSE Nil]
Released == {s \in Subs : cancel[s] = "returned" \/ drain[s] = "returned"}

Contract == INSTANCE SubscriptionContract WITH
  Reasons <- Faults, NoReason <- Nil,
  status <- Status, reason <- Reason, released <- Released

\* Seen from outside, with finish's four statements taken for one, this is a
\* bus.Subscription: live, then ended once for one reason.
ImplementsContract == Contract!Spec

-----------------------------------------------------------------------------
(* What comments of the code say and the code does not do.                 *)

\* "A nil reason is a clean Cancel or Drain" (sub.go): a Drain whose queue is
\* delivered before its deadline, so that nats.go has removed the subscription,
\* returns.
CleanDrainReturns ==
  \A s \in Subs :
    (drain[s] = "waiting" /\ ns[s] = "closed" /\ close = "idle")
      ~> (drain[s] = "returned" \/ close # "idle")

\* "a subscription violation ends that subscription" (natsconn.go), and no other: a
\* subscription ended as denied, "grant does not cover this subscription", is one
\* the broker refused.  It is so only while no two subscriptions share a subject,
\* which is all that onAsyncError looks at.
DeniedWasRefused == \A s \in Subs : err[s] = "denied" => s \in refused

\* "a subscription violation ends that subscription" (natsconn.go): once the
\* broker has refused it, a subscription of an open connection ends.
ViolationEndsSubscription ==
  \A s \in Subs :
    (s \in refused /\ Live(s) /\ close = "idle") ~> (Ended(s) \/ close # "idle")
=============================================================================
