---------------------------- MODULE NatsPublish ----------------------------
(***************************************************************************)
(* What one natsconn.Conn sends: Publish, Request and the Respond of a     *)
(* delivered message, with what decides about them: the negotiated payload *)
(* ceiling, the host workload token, and the subjects the broker refused.  *)
(*                                                                         *)
(* A core publish returns before the broker has seen it.  Its refusal      *)
(* comes back as an error on nats.go's callback goroutine, which records   *)
(* the subject; later calls on that subject are refused at once.  Several  *)
(* goroutines of the plugin call at the same time.                         *)
(*                                                                         *)
(* A call is three steps: the look into deniedPublish, the look at the     *)
(* ceiling (Publish only), and the rest up to nc.PublishMsg.  Payloads are *)
(* their sizes.  The broker and nats.go are modelled from their use here.  *)
(* A definition whose name starts with Bug is a mistake the definition     *)
(* after it could have been; it is not part of the model.                  *)
(***************************************************************************)
EXTENDS Integers, Sequences

CONSTANTS
  Callers,       \* the plugin's goroutines
  Subjects,
  Gateway,       \* the subjects under "cmd.gateway."
  Tokens,        \* the canonical host workload tokens
  Malformed,     \* a value that is not one
  NoToken,       \* ""
  Sizes,         \* payload sizes
  TransportMax,  \* TransportCapabilities().MaxPayload
  HostMaxes,     \* the MaxPayload values a host may report
  WireBound,     \* bound: publishes to one subject the broker has not seen yet
  ErrBound       \* bound: refusals waiting for the callback goroutine

ASSUME GatewayType == Gateway \subseteq Subjects
ASSUME TokenTypes == NoToken \notin Tokens /\ Malformed \notin Tokens \cup {NoToken}
ASSUME NumberTypes ==
  /\ Sizes \subseteq Nat
  /\ HostMaxes \subseteq Int
  /\ TransportMax \in Nat \ {0}
  /\ {WireBound, ErrBound} \subseteq Nat

VARIABLES
  nc,            \* the nats connection: "open" or "closed"
  granted,       \* the subjects the broker lets the plugin publish on now
  wire,          \* wire[x]: publishes to x on their way to the broker
  errors,        \* the subjects of the violations queued for onAsyncError
  refused,       \* every subject the broker has refused so far
  deniedPublish, \* c.deniedPublish
  maxPayload,    \* c.caps.MaxPayload
  bound,         \* c.bound
  token,         \* c.hostCallToken
  pc,            \* pc[g]: where g's call is; "idle" between calls
  call,          \* call[g]: its arguments
  result,        \* result[g]: what g's last call returned
  sent,          \* the last message given to nats.go, until the next call begins
  late           \* late[g][x]: sends of g on x since x is in deniedPublish, up to 2

brokerVars == <<granted, wire, refused>>
boundVars  == <<maxPayload, bound, token>>
callVars   == <<pc, call, result, sent, late>>
vars == <<nc, brokerVars, errors, deniedPublish, boundVars, callVars>>

Kinds == {"publish", "request", "respond"}
Results ==
  {"none", "ok", "denied", "budget", "unavailable", "timeout", "no_responders", "withdrawn"}
Call == [kind : Kinds, subject : Subjects, size : Sizes \cup {0},
         header : Tokens \cup {NoToken}, negotiated : BOOLEAN]
Message == [kind : Kinds, subject : Subjects, size : Sizes \cup {0}, token : Tokens \cup {NoToken},
            negotiated : BOOLEAN]
NoMessage == [kind |-> "none"]
NoCall == [kind |-> "none"]

TypeOK ==
  /\ nc \in {"open", "closed"}
  /\ granted \subseteq Subjects
  /\ wire \in [Subjects -> Nat]
  /\ errors \in Seq(Subjects)
  /\ refused \subseteq Subjects
  /\ deniedPublish \subseteq Subjects
  /\ maxPayload \in 1 .. TransportMax
  /\ bound \in BOOLEAN
  /\ token \in Tokens \cup {NoToken}
  /\ pc \in [Callers -> {"idle", "checked", "sized", "flying", "accepted", "lost"}]
  /\ call \in [Callers -> Call \cup {NoCall}]
  /\ result \in [Callers -> Results]
  /\ sent \in Message \cup {NoMessage}
  /\ late \in [Callers -> [Subjects -> 0 .. 2]]

Init ==
  /\ nc = "open"
  /\ granted \in SUBSET Subjects
  /\ wire = [x \in Subjects |-> 0]
  /\ errors = <<>>
  /\ refused = {}
  /\ deniedPublish = {}
  /\ maxPayload = TransportMax
  /\ bound = FALSE
  /\ token = NoToken
  /\ pc = [g \in Callers |-> "idle"]
  /\ call = [g \in Callers |-> NoCall]
  /\ result = [g \in Callers |-> "none"]
  /\ sent = NoMessage
  /\ late = [g \in Callers |-> [x \in Subjects |-> 0]]

-----------------------------------------------------------------------------
(* The handshake's two writes to the connection.                           *)

\* intersect on MaxPayload: the narrower; a host that reports none sets none.
BugIntersectUnlimited(host) == IF host < TransportMax THEN host ELSE TransportMax
BugIntersectTrusting(host) == IF host <= 0 THEN TransportMax ELSE host
Intersect(host) == IF host <= 0 \/ TransportMax < host THEN TransportMax ELSE host

Negotiated(host) ==
  /\ ~bound
  /\ bound' = TRUE
  /\ maxPayload' = Intersect(host)
  /\ UNCHANGED <<nc, brokerVars, errors, deniedPublish, token, callVars>>

\* A malformed token, or another one than the token bound, is refused.
BindHostCallToken(t) ==
  /\ t # Malformed
  /\ token \in {NoToken, t}
  /\ token' = t
  /\ UNCHANGED <<nc, brokerVars, errors, deniedPublish, maxPayload, bound, callVars>>

-----------------------------------------------------------------------------
(* Sending.                                                                *)

\* bindHostCallHeader: whatever the caller wrote under the header's name goes,
\* and only a request to the gateway gets the token.
BugKeepCallerHeader(c) ==
  IF c.kind = "request" /\ c.subject \in Gateway /\ token # NoToken THEN token ELSE c.header

HostCallHeader(c) ==
  IF c.kind = "request" /\ c.subject \in Gateway THEN token ELSE NoToken

PutOnWire(g, c) ==
  /\ sent' = [kind |-> c.kind, subject |-> c.subject, size |-> c.size,
              token |-> HostCallHeader(c), negotiated |-> c.negotiated]
  /\ late' = IF c.subject \in deniedPublish /\ c.kind # "respond" /\ late[g][c.subject] < 2
             THEN [late EXCEPT ![g][c.subject] = @ + 1]
             ELSE late

Return(g, r) ==
  /\ pc' = [pc EXCEPT ![g] = "idle"]
  /\ call' = [call EXCEPT ![g] = NoCall]
  /\ result' = [result EXCEPT ![g] = r]

Arguments(k, x, n, h) ==
  [kind |-> k, subject |-> x, size |-> n, header |-> h, negotiated |-> bound]

Begin(g, c) ==  \* what the call before returned and sent is forgotten
  /\ pc' = [pc EXCEPT ![g] = "checked"]
  /\ call' = [call EXCEPT ![g] = c]
  /\ result' = [result EXCEPT ![g] = "none"]
  /\ sent' = NoMessage

\* requestFault, for an error that is neither a deadline nor a cancellation.
RequestFault(x) == IF x \in deniedPublish THEN "denied" ELSE "unavailable"

\* Publish and Request begin alike: a malformed subject or a subject the broker
\* has refused is denied at once.
CallDenied(g, x) ==
  /\ pc[g] = "idle"
  /\ x \in deniedPublish
  /\ Return(g, "denied")
  /\ UNCHANGED <<nc, brokerVars, errors, deniedPublish, boundVars, sent, late>>

BugCallUnchecked(g, k, x, n, h) ==
  /\ pc[g] = "idle"
  /\ k # "respond"
  /\ Begin(g, Arguments(k, x, n, h))
  /\ UNCHANGED <<nc, brokerVars, errors, deniedPublish, boundVars, late>>

CallChecked(g, k, x, n, h) ==
  /\ pc[g] = "idle"
  /\ k # "respond"
  /\ x \notin deniedPublish
  /\ Begin(g, Arguments(k, x, n, h))
  /\ UNCHANGED <<nc, brokerVars, errors, deniedPublish, boundVars, late>>

PublishSize(g) ==
  /\ pc[g] = "checked"
  /\ call[g].kind = "publish"
  /\ IF maxPayload > 0 /\ call[g].size > maxPayload
     THEN Return(g, "budget")
     ELSE pc' = [pc EXCEPT ![g] = "sized"] /\ UNCHANGED <<call, result>>
  /\ UNCHANGED <<nc, brokerVars, errors, deniedPublish, boundVars, sent, late>>

PublishSend(g) ==
  /\ pc[g] = "sized"
  /\ \/ /\ nc = "open"
        /\ wire[call[g].subject] < WireBound
        /\ wire' = [wire EXCEPT ![call[g].subject] = @ + 1]
        /\ PutOnWire(g, call[g])
        /\ Return(g, "ok")
     \/ /\ nc = "closed"
        /\ Return(g, "unavailable")
        /\ UNCHANGED <<wire, sent, late>>
  /\ UNCHANGED <<nc, granted, refused, errors, deniedPublish, boundVars>>

RequestSend(g) ==
  /\ pc[g] = "checked"
  /\ call[g].kind = "request"
  /\ \/ /\ nc = "open"
        /\ PutOnWire(g, call[g])
        /\ pc' = [pc EXCEPT ![g] = "flying"]
        /\ UNCHANGED <<call, result>>
     \/ /\ nc = "closed"
        /\ Return(g, RequestFault(call[g].subject))
        /\ UNCHANGED <<sent, late>>
  /\ UNCHANGED <<nc, brokerVars, errors, deniedPublish, boundVars>>

\* A handler answering a message: no look into deniedPublish, no ceiling.
Respond(g, x, h) ==
  /\ pc[g] = "idle"
  /\ \/ /\ nc = "open"
        /\ wire[x] < WireBound
        /\ wire' = [wire EXCEPT ![x] = @ + 1]
        /\ PutOnWire(g, Arguments("respond", x, 0, h))
        /\ Return(g, "ok")
     \/ /\ nc = "closed"
        /\ Return(g, "unavailable")
        /\ UNCHANGED <<wire, sent, late>>
  /\ UNCHANGED <<nc, granted, refused, errors, deniedPublish, boundVars>>

-----------------------------------------------------------------------------
(* A request that is waiting: RequestMsgWithContext returns a reply, "no   *)
(* responders", the end of the caller's context, or the connection's.      *)

Waiting(g) == pc[g] \in {"flying", "accepted", "lost"}

RequestReply(g) ==
  /\ pc[g] = "accepted"
  /\ nc = "open"
  /\ Return(g, "ok")
  /\ UNCHANGED <<nc, brokerVars, errors, deniedPublish, boundVars, sent, late>>

RequestNoResponders(g) ==
  /\ pc[g] = "accepted"
  /\ nc = "open"
  /\ Return(g, "no_responders")
  /\ UNCHANGED <<nc, brokerVars, errors, deniedPublish, boundVars, sent, late>>

RequestTimeout(g) ==  \* the caller's deadline, or the default one
  /\ Waiting(g)
  /\ Return(g, "timeout")
  /\ UNCHANGED <<nc, brokerVars, errors, deniedPublish, boundVars, sent, late>>

RequestCancelled(g) ==
  /\ Waiting(g)
  /\ Return(g, "withdrawn")
  /\ UNCHANGED <<nc, brokerVars, errors, deniedPublish, boundVars, sent, late>>

RequestClosed(g) ==
  /\ Waiting(g)
  /\ nc = "closed"
  /\ Return(g, RequestFault(call[g].subject))
  /\ UNCHANGED <<nc, brokerVars, errors, deniedPublish, boundVars, sent, late>>

-----------------------------------------------------------------------------
(* The broker, and onAsyncError on a violation of the publish kind.        *)

Grant(x) ==
  /\ granted' = granted \cup {x}
  /\ UNCHANGED <<nc, wire, errors, refused, deniedPublish, boundVars, callVars>>

Revoke(x) ==
  /\ granted' = granted \ {x}
  /\ UNCHANGED <<nc, wire, errors, refused, deniedPublish, boundVars, callVars>>

Refuse(x) ==
  /\ x \notin granted
  /\ refused' = refused \cup {x}
  /\ \/ nc = "open" /\ Len(errors) < ErrBound /\ errors' = Append(errors, x)
     \/ nc = "closed" /\ UNCHANGED errors

TakePublish(x) ==
  /\ wire[x] > 0
  /\ wire' = [wire EXCEPT ![x] = @ - 1]
  /\ \/ x \in granted /\ UNCHANGED <<refused, errors>>
     \/ Refuse(x)
  /\ UNCHANGED <<nc, granted, deniedPublish, boundVars, callVars>>

TakeRequest(g) ==
  /\ pc[g] = "flying"
  /\ \/ /\ call[g].subject \in granted
        /\ pc' = [pc EXCEPT ![g] = "accepted"]
        /\ UNCHANGED <<refused, errors>>
     \/ /\ Refuse(call[g].subject)
        /\ pc' = [pc EXCEPT ![g] = "lost"]
  /\ UNCHANGED <<nc, granted, wire, deniedPublish, boundVars, call, result, sent, late>>

BugRecordWhileOpen ==
  /\ errors # <<>>
  /\ errors' = Tail(errors)
  /\ deniedPublish' = IF nc = "open" THEN deniedPublish \cup {Head(errors)} ELSE deniedPublish
  /\ UNCHANGED <<nc, brokerVars, boundVars, callVars>>

OnPublishViolation ==
  /\ errors # <<>>
  /\ errors' = Tail(errors)
  /\ deniedPublish' = deniedPublish \cup {Head(errors)}
  /\ UNCHANGED <<nc, brokerVars, boundVars, callVars>>

CloseNats ==
  /\ nc = "open"
  /\ nc' = "closed"
  /\ UNCHANGED <<brokerVars, errors, deniedPublish, boundVars, callVars>>

-----------------------------------------------------------------------------
Next ==
  \/ \E host \in HostMaxes : Negotiated(host)
  \/ \E t \in Tokens \cup {Malformed} : BindHostCallToken(t)
  \/ \E g \in Callers :
       \/ \E x \in Subjects, h \in Tokens \cup {NoToken} :
            \/ CallDenied(g, x)
            \/ \E n \in Sizes : CallChecked(g, "publish", x, n, h)
            \/ CallChecked(g, "request", x, 0, h)
            \/ Respond(g, x, h)
       \/ PublishSize(g) \/ PublishSend(g) \/ RequestSend(g)
       \/ RequestReply(g) \/ RequestNoResponders(g) \/ RequestTimeout(g)
       \/ RequestCancelled(g) \/ RequestClosed(g) \/ TakeRequest(g)
  \/ \E x \in Subjects : Grant(x) \/ Revoke(x) \/ TakePublish(x)
  \/ OnPublishViolation \/ CloseNats

(* The callback goroutine runs, and every request has a deadline: Request  *)
(* gives it one when its caller did not.                                   *)
Fairness ==
  /\ WF_vars(OnPublishViolation)
  /\ \A g \in Callers : WF_vars(RequestSend(g)) /\ WF_vars(RequestTimeout(g))

Spec == Init /\ [][Next]_vars
FairSpec == Spec /\ Fairness

-----------------------------------------------------------------------------
\* A subject is only ever treated as refused when the broker did refuse it: no
\* call is denied for a refusal of another subject or of another plugin's.
DenialIsTrue == deniedPublish \subseteq refused

\* Once a refusal is recorded, a goroutine sends at most the one message whose
\* look into deniedPublish came before the record; everything after is denied.
AtMostOneLateSend ==
  \A g \in Callers, x \in Subjects : late[g][x] <= 1

\* Whatever the host reports, and however its report races with a Publish, no
\* payload over the transport's ceiling is published, and none over the
\* negotiated one by a Publish called after the negotiation.
PublishWithinCeiling ==
  sent.kind = "publish" =>
    /\ sent.size <= TransportMax
    /\ sent.negotiated => sent.size <= maxPayload

\* The host workload token leaves the process only on a request to the gateway,
\* and no token but the one bound ever does, whatever header the caller wrote.
TokenStaysWithGateway ==
  sent # NoMessage /\ sent.token # NoToken =>
    /\ sent.kind = "request"
    /\ sent.subject \in Gateway
    /\ sent.token = token

\* A generation is negotiated once: neither the ceiling nor the token changes
\* after it is set, and a recorded refusal is never forgotten.
BoundKept ==
  /\ bound => maxPayload' = maxPayload
  /\ token # NoToken => token' = token
  /\ deniedPublish \subseteq deniedPublish'
BoundOnce == [][BoundKept]_vars

\* A refusal nats.go has queued is recorded, also while the connection closes,
\* and every request returns, also the one whose message the broker refused.
RefusedOrReturned ==
  /\ \A x \in Subjects : (errors # <<>> /\ Head(errors) = x) ~> x \in deniedPublish
  /\ \A g \in Callers : Waiting(g) ~> ~Waiting(g)
=============================================================================
