------------------------- MODULE NatsPublishProofs -------------------------
(***************************************************************************)
(* Proofs about NatsPublish, for any callers, subjects, tokens, payload    *)
(* sizes and ceilings.                                                     *)
(***************************************************************************)
EXTENDS NatsPublish, TLAPS

\* The negotiated ceiling is never wider than the transport's, and never nothing.
LEMMA IntersectNarrows ==
  ASSUME NEW host \in Int
  PROVE  /\ Intersect(host) \in 1 .. TransportMax
         /\ host > 0 => Intersect(host) <= host
  BY NumberTypes DEF Intersect

\* A call under way: what it has looked at still holds, or held for all that
\* matters to it.
CallsInv ==
  \A g \in Callers :
    /\ pc[g] # "idle" => call[g] \in Call
    /\ pc[g] # "idle" => (call[g].negotiated => bound)
    /\ pc[g] \in {"checked", "sized"} => late[g][call[g].subject] = 0
    /\ pc[g] = "sized" => /\ call[g].kind = "publish"
                          /\ call[g].size <= TransportMax
                          /\ call[g].negotiated => call[g].size <= maxPayload

\* Nothing is late before its refusal is recorded.
LateInv ==
  \A g \in Callers, x \in Subjects :
    /\ late[g][x] <= 1
    /\ x \notin deniedPublish => late[g][x] = 0

\* What was given to nats.go last.
SentInv ==
  sent # NoMessage =>
    /\ sent \in Message
    /\ sent.negotiated => bound

\* Every refusal on its way to the record is one the broker made.
RefusalInv ==
  /\ DenialIsTrue
  /\ \A i \in 1 .. Len(errors) : errors[i] \in refused

IInv ==
  /\ TypeOK
  /\ CallsInv
  /\ LateInv
  /\ SentInv
  /\ PublishWithinCeiling
  /\ TokenStaysWithGateway
  /\ RefusalInv

LEMMA InitIInv == Init => IInv
<1> SUFFICES ASSUME Init PROVE IInv
  OBVIOUS
<1>1. TypeOK
  <2>1. TransportMax \in 1 .. TransportMax
    BY NumberTypes
  <2>2. [g \in Callers |-> [x \in Subjects |-> 0]] \in [Callers -> [Subjects -> 0 .. 2]]
    OBVIOUS
  <2>3. wire \in [Subjects -> Nat] /\ errors \in Seq(Subjects)
    BY DEF Init
  <2>4. /\ pc \in [Callers -> {"idle", "checked", "sized", "flying", "accepted", "lost"}]
        /\ call \in [Callers -> Call \cup {NoCall}]
        /\ result \in [Callers -> Results]
    BY DEF Init, Results
  <2>5. late \in [Callers -> [Subjects -> 0 .. 2]]
    BY <2>2, Zenon DEF Init
  <2>6. bound \in BOOLEAN /\ nc \in {"open", "closed"} /\ sent \in Message \cup {NoMessage}
    BY DEF Init
  <2>7. QED
    BY <2>1, <2>3, <2>4, <2>5, <2>6, Zenon DEF Init, TypeOK
<1>2. CallsInv /\ LateInv /\ RefusalInv
  BY DEF Init, CallsInv, LateInv, RefusalInv, DenialIsTrue
<1>3. SentInv /\ PublishWithinCeiling /\ TokenStaysWithGateway
  BY DEF Init, SentInv, PublishWithinCeiling, TokenStaysWithGateway, NoMessage
<1>4. QED
  BY <1>1, <1>2, <1>3 DEF IInv

-----------------------------------------------------------------------------
(* Types of what the helpers assign.                                       *)

ReturnTypes ==
  /\ pc \in [Callers -> {"idle", "checked", "sized", "flying", "accepted", "lost"}]
  /\ call \in [Callers -> Call \cup {NoCall}]
  /\ result \in [Callers -> Results]

SendTypes ==
  /\ sent \in Message \cup {NoMessage}
  /\ late \in [Callers -> [Subjects -> 0 .. 2]]

LEMMA ReturnTyped ==
  ASSUME TypeOK, NEW g \in Callers, NEW r \in Results, Return(g, r)
  PROVE  ReturnTypes'
  BY DEF TypeOK, Return, ReturnTypes

LEMMA FaultIsResult == ASSUME NEW x PROVE RequestFault(x) \in Results
  BY DEF RequestFault, Results

LEMMA PutOnWireTyped ==
  ASSUME TypeOK, NEW g \in Callers, NEW c \in Call, PutOnWire(g, c)
  PROVE  SendTypes'
<1>1. HostCallHeader(c) \in Tokens \cup {NoToken}
  BY DEF TypeOK, HostCallHeader
<1>2. sent' \in Message
  BY <1>1 DEF PutOnWire, Call, Message
<1>3. late' \in [Callers -> [Subjects -> 0 .. 2]]
  <2>1. late[g] \in [Subjects -> 0 .. 2] /\ c.subject \in Subjects
    BY DEF TypeOK, Call
  <2>2. CASE late' = late
    BY <2>2 DEF TypeOK
  <2>3. CASE late[g][c.subject] < 2 /\ late' = [late EXCEPT ![g][c.subject] = @ + 1]
    <3>1. late[g][c.subject] + 1 \in 0 .. 2
      BY <2>1, <2>3
    <3>2. [late[g] EXCEPT ![c.subject] = @ + 1] \in [Subjects -> 0 .. 2]
      BY <2>1, <3>1
    <3>3. QED
      BY <2>3, <3>2 DEF TypeOK
  <2>4. QED
    BY <2>2, <2>3 DEF PutOnWire
<1>4. QED
  BY <1>2, <1>3 DEF SendTypes

LEMMA RefuseTyped ==
  ASSUME TypeOK, NEW x \in Subjects, Refuse(x)
  PROVE  refused' \subseteq Subjects /\ errors' \in Seq(Subjects)
<1>1. refused \subseteq Subjects /\ errors \in Seq(Subjects)
  BY DEF TypeOK
<1>2. Append(errors, x) \in Seq(Subjects)
  BY <1>1
<1>3. QED
  BY <1>1, <1>2, Zenon DEF Refuse

LEMMA ArgumentsTyped ==
  ASSUME TypeOK, NEW k \in Kinds, NEW x \in Subjects, NEW n \in Sizes \cup {0},
         NEW h \in Tokens \cup {NoToken}
  PROVE  Arguments(k, x, n, h) \in Call
  BY DEF TypeOK, Arguments, Call

-----------------------------------------------------------------------------
\* Every step keeps every variable within its type.
LEMMA NextTypeOK == IInv /\ [Next]_vars => TypeOK'
<1> SUFFICES ASSUME IInv, [Next]_vars PROVE TypeOK'
  OBVIOUS
<1>0. TypeOK /\ \A g \in Callers : pc[g] # "idle" => call[g] \in Call
  BY DEF IInv, CallsInv
<1>1. ASSUME NEW host \in HostMaxes, Negotiated(host) PROVE TypeOK'
  BY <1>0, <1>1, IntersectNarrows, NumberTypes DEF Negotiated, TypeOK, brokerVars, callVars
<1>2. ASSUME NEW t \in Tokens \cup {Malformed}, BindHostCallToken(t) PROVE TypeOK'
  BY <1>0, <1>2 DEF BindHostCallToken, TypeOK, brokerVars, callVars
<1>3. ASSUME NEW g \in Callers, NEW x \in Subjects, CallDenied(g, x) PROVE TypeOK'
  <2>1. ReturnTypes'
    BY <1>0, <1>3, ReturnTyped DEF CallDenied, Results
  <2>2. QED
    BY <1>0, <1>3, <2>1 DEF CallDenied, ReturnTypes, TypeOK, brokerVars, boundVars
<1>4. ASSUME NEW g \in Callers, NEW x \in Subjects, NEW h \in Tokens \cup {NoToken},
             NEW k \in Kinds, NEW n \in Sizes \cup {0}, CallChecked(g, k, x, n, h)
      PROVE  TypeOK'
  BY <1>0, <1>4, ArgumentsTyped DEF CallChecked, Begin, Results, TypeOK, brokerVars, boundVars
<1>5. ASSUME NEW g \in Callers, NEW x \in Subjects, NEW h \in Tokens \cup {NoToken},
             Respond(g, x, h)
      PROVE  TypeOK'
  <2>1. Arguments("respond", x, 0, h) \in Call
    BY <1>0, ArgumentsTyped DEF Kinds
  <2>2. ReturnTypes'
    BY <1>0, <1>5, ReturnTyped DEF Respond, Results
  <2>3. SendTypes'
    BY <1>0, <1>5, <2>1, PutOnWireTyped DEF Respond, SendTypes, TypeOK
  <2>4. wire' \in [Subjects -> Nat]
    BY <1>0, <1>5, SMTT(30) DEF Respond, TypeOK
  <2>5. QED
    BY <1>0, <1>5, <2>2, <2>3, <2>4 DEF Respond, ReturnTypes, SendTypes, TypeOK, boundVars
<1>6. ASSUME NEW g \in Callers, PublishSize(g) PROVE TypeOK'
  <2>1. ReturnTypes'
    <3>1. CASE Return(g, "budget")
      BY <1>0, <3>1, ReturnTyped DEF Results
    <3>2. CASE pc' = [pc EXCEPT ![g] = "sized"] /\ UNCHANGED <<call, result>>
      BY <1>0, <3>2 DEF ReturnTypes, TypeOK
    <3>3. QED
      BY <1>6, <3>1, <3>2 DEF PublishSize
  <2>2. QED
    BY <1>0, <1>6, <2>1 DEF PublishSize, ReturnTypes, TypeOK, brokerVars, boundVars
<1>7. ASSUME NEW g \in Callers, PublishSend(g) PROVE TypeOK'
  <2>1. ReturnTypes'
    BY <1>0, <1>7, ReturnTyped DEF PublishSend, Results
  <2>2. call[g] \in Call
    BY <1>0, <1>7 DEF PublishSend
  <2>3. SendTypes'
    <3>1. CASE PutOnWire(g, call[g])
      BY <1>0, <2>2, <3>1, PutOnWireTyped
    <3>2. CASE UNCHANGED <<sent, late>>
      BY <1>0, <3>2 DEF SendTypes, TypeOK
    <3>3. QED
      BY <1>7, <3>1, <3>2 DEF PublishSend
  <2>4. wire' \in [Subjects -> Nat]
    <3>1. call[g].subject \in Subjects /\ wire \in [Subjects -> Nat]
      BY <1>0, <2>2 DEF TypeOK, Call
    <3>2. \/ wire' = wire
          \/ wire' = [wire EXCEPT ![call[g].subject] = @ + 1]
      BY <1>7, Zenon DEF PublishSend
    <3>3. QED
      BY <3>1, <3>2
  <2>5. QED
    BY <1>0, <1>7, <2>1, <2>3, <2>4 DEF PublishSend, ReturnTypes, SendTypes, TypeOK, boundVars
<1>8. ASSUME NEW g \in Callers, RequestSend(g) PROVE TypeOK'
  <2>1. ReturnTypes'
    <3>1. CASE nc = "open"
      BY <1>0, <1>8, <3>1 DEF RequestSend, ReturnTypes, TypeOK
    <3>2. CASE nc = "closed"
      BY <1>0, <1>8, <3>2, ReturnTyped, FaultIsResult DEF RequestSend
    <3>3. QED
      BY <1>0, <3>1, <3>2 DEF TypeOK
  <2>2. SendTypes'
    BY <1>0, <1>8, PutOnWireTyped DEF RequestSend, SendTypes, TypeOK
  <2>3. QED
    BY <1>0, <1>8, <2>1, <2>2
    DEF RequestSend, ReturnTypes, SendTypes, TypeOK, brokerVars, boundVars
<1>9. ASSUME NEW g \in Callers,
             RequestReply(g) \/ RequestNoResponders(g) \/ RequestTimeout(g)
               \/ RequestCancelled(g) \/ RequestClosed(g)
      PROVE  TypeOK'
  <2>1. ReturnTypes'
    BY <1>0, <1>9, ReturnTyped, FaultIsResult
    DEF RequestReply, RequestNoResponders, RequestTimeout, RequestCancelled, RequestClosed,
        Results
  <2>2. QED
    BY <1>0, <1>9, <2>1
    DEF RequestReply, RequestNoResponders, RequestTimeout, RequestCancelled, RequestClosed,
        ReturnTypes, TypeOK, brokerVars, boundVars
<1>10. ASSUME NEW g \in Callers, TakeRequest(g) PROVE TypeOK'
  <2>1. call[g].subject \in Subjects
    BY <1>0, <1>10 DEF TakeRequest, Call
  <2>2. refused' \subseteq Subjects /\ errors' \in Seq(Subjects)
    BY <1>0, <1>10, <2>1, RefuseTyped DEF TakeRequest, TypeOK
  <2>3. pc' \in [Callers -> {"idle", "checked", "sized", "flying", "accepted", "lost"}]
    BY <1>0, <1>10 DEF TakeRequest, TypeOK
  <2>4. QED
    BY <1>0, <1>10, <2>2, <2>3 DEF TakeRequest, TypeOK, boundVars
<1>11. ASSUME NEW x \in Subjects, Grant(x) \/ Revoke(x) PROVE TypeOK'
  BY <1>0, <1>11 DEF Grant, Revoke, TypeOK, boundVars, callVars
<1>12. ASSUME NEW x \in Subjects, TakePublish(x) PROVE TypeOK'
  <2>1. refused' \subseteq Subjects /\ errors' \in Seq(Subjects)
    BY <1>0, <1>12, RefuseTyped DEF TakePublish, TypeOK
  <2>2. wire' \in [Subjects -> Nat]
    BY <1>0, <1>12 DEF TakePublish, TypeOK
  <2>3. QED
    BY <1>0, <1>12, <2>1, <2>2 DEF TakePublish, TypeOK, boundVars, callVars
<1>13. CASE OnPublishViolation
  BY <1>0, <1>13 DEF OnPublishViolation, TypeOK, brokerVars, boundVars, callVars
<1>14. CASE CloseNats
  BY <1>0, <1>14 DEF CloseNats, TypeOK, brokerVars, boundVars, callVars
<1>15. CASE UNCHANGED vars
  BY <1>0, <1>15 DEF vars, TypeOK, brokerVars, boundVars, callVars
<1>16. QED
  BY <1>1, <1>2, <1>3, <1>4, <1>5, <1>6, <1>7, <1>8, <1>9, <1>10, <1>11, <1>12, <1>13,
     <1>14, <1>15
  DEF Next, Kinds

-----------------------------------------------------------------------------
(* What sending and returning do to the rest of the invariant.             *)

Rest ==
  CallsInv /\ LateInv /\ SentInv /\ PublishWithinCeiling /\ TokenStaysWithGateway /\ RefusalInv

\* A message may go out when its call looked at everything it had to.
Checked(g, c) ==
  /\ c.negotiated => bound
  /\ c.kind = "publish" => c.size <= TransportMax /\ (c.negotiated => c.size <= maxPayload)
  /\ c.kind = "respond" \/ late[g][c.subject] = 0

LEMMA PutOnWireKeeps ==
  ASSUME IInv, NEW g \in Callers, NEW c \in Call, Checked(g, c), PutOnWire(g, c),
         UNCHANGED <<deniedPublish, boundVars>>
  PROVE  /\ LateInv' /\ SentInv' /\ PublishWithinCeiling' /\ TokenStaysWithGateway'
         /\ \A q \in Callers \ {g} : late'[q] = late[q]
<1>1. TypeOK /\ LateInv
  BY DEF IInv
<1>2. /\ sent' = [kind |-> c.kind, subject |-> c.subject, size |-> c.size,
                  token |-> HostCallHeader(c), negotiated |-> c.negotiated]
      /\ sent' \in Message
  <2>1. HostCallHeader(c) \in Tokens \cup {NoToken}
    BY <1>1 DEF TypeOK, HostCallHeader
  <2>2. QED
    BY <2>1 DEF PutOnWire, Message, Call
<1>3. SentInv' /\ PublishWithinCeiling'
  BY <1>2 DEF Checked, SentInv, PublishWithinCeiling, boundVars
<1>4. TokenStaysWithGateway'
  BY <1>2 DEF TokenStaysWithGateway, HostCallHeader, boundVars
<1>5. \A q \in Callers \ {g} : late'[q] = late[q]
  BY <1>1 DEF PutOnWire, TypeOK
<1>6. LateInv'
  <2>1. CASE late' = late
    BY <1>1, <2>1 DEF LateInv
  <2>2. CASE /\ c.subject \in deniedPublish /\ c.kind # "respond"
             /\ late' = [late EXCEPT ![g][c.subject] = @ + 1]
    <3>1. late[g][c.subject] = 0
      BY <2>2 DEF Checked
    <3>2. late \in [Callers -> [Subjects -> 0 .. 2]] /\ c.subject \in Subjects
      BY <1>1 DEF TypeOK, Call
    <3>3. \A q \in Callers, x \in Subjects :
            late'[q][x] = IF q = g /\ x = c.subject THEN 1 ELSE late[q][x]
      BY <2>2, <3>1, <3>2
    <3>4. QED
      BY <1>1, <2>2, <3>3 DEF LateInv
  <2>3. QED
    BY <2>1, <2>2 DEF PutOnWire
<1>7. QED
  BY <1>3, <1>4, <1>5, <1>6

LEMMA ReturnKeepsCalls ==
  ASSUME TypeOK, CallsInv, NEW g \in Callers, NEW r, Return(g, r),
         UNCHANGED <<bound, maxPayload>>, \A q \in Callers \ {g} : late'[q] = late[q]
  PROVE  CallsInv'
<1>1. pc'[g] = "idle" /\ \A q \in Callers \ {g} : pc'[q] = pc[q] /\ call'[q] = call[q]
  BY DEF Return, TypeOK
<1>2. QED
  BY <1>1 DEF CallsInv

LEMMA UnsentKeeps ==
  ASSUME IInv, UNCHANGED <<deniedPublish, boundVars, sent, late>>
  PROVE  LateInv' /\ SentInv' /\ PublishWithinCeiling' /\ TokenStaysWithGateway'
  BY DEF IInv, LateInv, SentInv, PublishWithinCeiling, TokenStaysWithGateway, boundVars

LEMMA NoRefusalKeeps ==
  ASSUME IInv, UNCHANGED <<deniedPublish, refused, errors>>
  PROVE  RefusalInv'
  BY DEF IInv, RefusalInv, DenialIsTrue

LEMMA RefuseKeeps ==
  ASSUME IInv, NEW x \in Subjects, Refuse(x), UNCHANGED deniedPublish
  PROVE  RefusalInv'
<1>1. errors \in Seq(Subjects) /\ RefusalInv
  BY DEF IInv, TypeOK
<1>2. refused' = refused \cup {x} /\ (errors' = errors \/ errors' = Append(errors, x))
  BY DEF Refuse
<1>3. CASE errors' = errors
  BY <1>1, <1>2, <1>3 DEF RefusalInv, DenialIsTrue
<1>4. CASE errors' = Append(errors, x)
  <2>1. Len(errors') = Len(errors) + 1
    BY <1>1, <1>4
  <2>2. \A i \in 1 .. Len(errors') :
          errors'[i] = IF i = Len(errors) + 1 THEN x ELSE errors[i]
    BY <1>1, <1>4
  <2>3. \A i \in 1 .. Len(errors') : errors'[i] \in refused'
    BY <1>1, <1>2, <2>1, <2>2 DEF RefusalInv
  <2>4. QED
    BY <1>1, <1>2, <2>3 DEF RefusalInv, DenialIsTrue
<1>5. QED
  BY <1>2, <1>3, <1>4

-----------------------------------------------------------------------------
\* Every step keeps the rest of the invariant.
LEMMA NextRest == IInv /\ [Next]_vars => Rest'
<1> SUFFICES ASSUME IInv, [Next]_vars PROVE Rest'
  OBVIOUS
<1>0. TypeOK /\ CallsInv /\ LateInv /\ SentInv /\ PublishWithinCeiling
        /\ TokenStaysWithGateway /\ RefusalInv
  BY DEF IInv
<1>1. ASSUME NEW host \in HostMaxes, Negotiated(host) PROVE Rest'
  <2>1. CallsInv'
    BY <1>0, <1>1 DEF Negotiated, CallsInv, callVars
  <2>2. LateInv' /\ SentInv' /\ PublishWithinCeiling' /\ TokenStaysWithGateway'
    BY <1>0, <1>1
    DEF Negotiated, LateInv, SentInv, PublishWithinCeiling, TokenStaysWithGateway, callVars,
        NoMessage
  <2>3. RefusalInv'
    BY <1>1, NoRefusalKeeps DEF Negotiated, brokerVars
  <2>4. QED
    BY <2>1, <2>2, <2>3 DEF Rest
<1>2. ASSUME NEW t \in Tokens \cup {Malformed}, BindHostCallToken(t) PROVE Rest'
  <2>1. CallsInv' /\ LateInv' /\ SentInv' /\ PublishWithinCeiling'
    BY <1>0, <1>2 DEF BindHostCallToken, CallsInv, LateInv, SentInv, PublishWithinCeiling, callVars
  <2>2. TokenStaysWithGateway'
    BY <1>0, <1>2 DEF BindHostCallToken, TokenStaysWithGateway, callVars
  <2>3. RefusalInv'
    BY <1>2, NoRefusalKeeps DEF BindHostCallToken, brokerVars
  <2>4. QED
    BY <2>1, <2>2, <2>3 DEF Rest
<1>3. ASSUME NEW g \in Callers, NEW r, Return(g, r),
             UNCHANGED <<nc, brokerVars, errors, deniedPublish, boundVars, sent, late>>
      PROVE  Rest'
  <2>1. CallsInv'
    BY <1>0, <1>3, ReturnKeepsCalls DEF boundVars
  <2>2. LateInv' /\ SentInv' /\ PublishWithinCeiling' /\ TokenStaysWithGateway'
    BY <1>3, UnsentKeeps
  <2>3. RefusalInv'
    BY <1>3, NoRefusalKeeps DEF brokerVars
  <2>4. QED
    BY <2>1, <2>2, <2>3 DEF Rest
<1>4. ASSUME NEW g \in Callers, NEW x \in Subjects, NEW h \in Tokens \cup {NoToken},
             NEW k \in Kinds, NEW n \in Sizes \cup {0}, CallChecked(g, k, x, n, h)
      PROVE  Rest'
  <2>1. CallsInv'
    <3>1. Arguments(k, x, n, h) \in Call
      BY <1>0, ArgumentsTyped
    <3>2. late[g][x] = 0
      BY <1>0, <1>4 DEF CallChecked, LateInv
    <3>3. /\ pc'[g] = "checked" /\ call'[g] = Arguments(k, x, n, h)
          /\ \A q \in Callers \ {g} : pc'[q] = pc[q] /\ call'[q] = call[q]
      BY <1>0, <1>4 DEF CallChecked, Begin, TypeOK
    <3>4. Arguments(k, x, n, h).subject = x /\ Arguments(k, x, n, h).negotiated = bound
      BY DEF Arguments
    <3>5. UNCHANGED <<bound, maxPayload, late>>
      BY <1>4 DEF CallChecked, boundVars
    <3>6. QED
      BY <1>0, <3>1, <3>2, <3>3, <3>4, <3>5 DEF CallsInv
  <2>2. LateInv' /\ SentInv' /\ PublishWithinCeiling' /\ TokenStaysWithGateway'
    BY <1>0, <1>4
    DEF CallChecked, Begin, NoMessage, boundVars, IInv, LateInv, SentInv,
        PublishWithinCeiling, TokenStaysWithGateway
  <2>3. RefusalInv'
    BY <1>4, NoRefusalKeeps DEF CallChecked, brokerVars
  <2>4. QED
    BY <2>1, <2>2, <2>3 DEF Rest
<1>5. ASSUME NEW g \in Callers, NEW x \in Subjects, NEW h \in Tokens \cup {NoToken},
             Respond(g, x, h), nc = "open"
      PROVE  Rest'
  <2> DEFINE c == Arguments("respond", x, 0, h)
  <2>1. c \in Call /\ Checked(g, c)
    BY <1>0, ArgumentsTyped DEF Kinds, Checked, Arguments
  <2>2. PutOnWire(g, c) /\ Return(g, "ok")
        /\ UNCHANGED <<refused, errors, deniedPublish, boundVars>>
    BY <1>5 DEF Respond
  <2> HIDE DEF c
  <2>3. /\ LateInv' /\ SentInv' /\ PublishWithinCeiling' /\ TokenStaysWithGateway'
        /\ \A q \in Callers \ {g} : late'[q] = late[q]
    BY <2>1, <2>2, PutOnWireKeeps
  <2>4. CallsInv' /\ RefusalInv'
    BY <1>0, <2>2, <2>3, ReturnKeepsCalls, NoRefusalKeeps DEF boundVars
  <2>5. QED
    BY <2>3, <2>4 DEF Rest
<1>6. ASSUME NEW g \in Callers, PublishSize(g), ~(maxPayload > 0 /\ call[g].size > maxPayload)
      PROVE  Rest'
  <2>1. /\ pc[g] = "checked" /\ call[g].kind = "publish" /\ pc' = [pc EXCEPT ![g] = "sized"]
        /\ UNCHANGED <<call, refused, errors, deniedPublish, boundVars, sent, late>>
    BY <1>6 DEF PublishSize, brokerVars
  <2>2. call[g] \in Call /\ maxPayload \in 1 .. TransportMax
    BY <1>0, <2>1 DEF CallsInv, TypeOK
  <2>3. call[g].size \in Nat
    <3>1. call[g].size \in Sizes \cup {0}
      BY <2>2 DEF Call
    <3>2. Sizes \cup {0} \subseteq Nat
      BY NumberTypes
    <3>3. QED
      BY <3>1, <3>2, Zenon
  <2>4. call[g].size <= TransportMax /\ call[g].size <= maxPayload
    <3>1. TransportMax \in Nat
      BY NumberTypes
    <3>2. maxPayload \in Nat /\ maxPayload > 0 /\ maxPayload <= TransportMax
      BY <2>2, <3>1
    <3>3. ~(call[g].size > maxPayload)
      BY <1>6, <3>2
    <3>4. QED
      BY <2>3, <3>1, <3>2, <3>3
  <2>5. pc'[g] = "sized" /\ \A q \in Callers \ {g} : pc'[q] = pc[q]
    BY <1>0, <2>1 DEF TypeOK
  <2>6. CallsInv'
    BY <1>0, <2>1, <2>2, <2>4, <2>5 DEF CallsInv, boundVars
  <2>7. QED
    BY <1>0, <2>1, <2>6, UnsentKeeps, NoRefusalKeeps DEF Rest
<1>7. ASSUME NEW g \in Callers, PublishSend(g), nc = "open" PROVE Rest'
  <2>1. /\ PutOnWire(g, call[g]) /\ Return(g, "ok") /\ pc[g] = "sized"
        /\ UNCHANGED <<refused, errors, deniedPublish, boundVars>>
    BY <1>7 DEF PublishSend
  <2>2. call[g] \in Call /\ Checked(g, call[g])
    BY <1>0, <2>1 DEF CallsInv, Checked
  <2>3. /\ LateInv' /\ SentInv' /\ PublishWithinCeiling' /\ TokenStaysWithGateway'
        /\ \A q \in Callers \ {g} : late'[q] = late[q]
    BY <2>1, <2>2, PutOnWireKeeps
  <2>4. CallsInv' /\ RefusalInv'
    BY <1>0, <2>1, <2>3, ReturnKeepsCalls, NoRefusalKeeps DEF boundVars
  <2>5. QED
    BY <2>3, <2>4 DEF Rest
<1>8. ASSUME NEW g \in Callers, RequestSend(g), nc = "open" PROVE Rest'
  <2>1. /\ PutOnWire(g, call[g]) /\ pc[g] = "checked" /\ call[g].kind = "request"
        /\ pc' = [pc EXCEPT ![g] = "flying"]
        /\ UNCHANGED <<call, refused, errors, deniedPublish, boundVars>>
    BY <1>8 DEF RequestSend, brokerVars
  <2>2. call[g] \in Call /\ Checked(g, call[g])
    BY <1>0, <2>1 DEF CallsInv, Checked
  <2>3. /\ LateInv' /\ SentInv' /\ PublishWithinCeiling' /\ TokenStaysWithGateway'
        /\ \A q \in Callers \ {g} : late'[q] = late[q]
    BY <2>1, <2>2, PutOnWireKeeps
  <2>4. pc'[g] = "flying" /\ \A q \in Callers \ {g} : pc'[q] = pc[q]
    BY <1>0, <2>1 DEF TypeOK
  <2>5. CallsInv'
    BY <1>0, <2>1, <2>2, <2>3, <2>4 DEF CallsInv, boundVars
  <2>6. QED
    BY <2>1, <2>3, <2>5, NoRefusalKeeps DEF Rest
<1>9. ASSUME NEW g \in Callers, TakeRequest(g) PROVE Rest'
  <2>1. /\ pc[g] = "flying" /\ UNCHANGED <<deniedPublish, boundVars, call, sent, late>>
        /\ pc' = [pc EXCEPT ![g] = "accepted"] \/ pc' = [pc EXCEPT ![g] = "lost"]
        /\ UNCHANGED <<refused, errors>> \/ Refuse(call[g].subject)
    BY <1>9 DEF TakeRequest
  <2>2. call[g] \in Call /\ call[g].subject \in Subjects
    BY <1>0, <2>1 DEF CallsInv, Call
  <2>3. pc'[g] \in {"accepted", "lost"} /\ \A q \in Callers \ {g} : pc'[q] = pc[q]
    BY <1>0, <2>1 DEF TypeOK
  <2>4. CallsInv'
    BY <1>0, <2>1, <2>2, <2>3 DEF CallsInv, boundVars
  <2>5. RefusalInv'
    BY <2>1, <2>2, NoRefusalKeeps, RefuseKeeps
  <2>6. QED
    BY <2>1, <2>4, <2>5, UnsentKeeps DEF Rest
<1>10. ASSUME NEW x \in Subjects, Grant(x) \/ Revoke(x) \/ TakePublish(x) PROVE Rest'
  <2>1. UNCHANGED <<deniedPublish, boundVars, callVars>>
    BY <1>10 DEF Grant, Revoke, TakePublish
  <2>2. CallsInv'
    BY <1>0, <2>1 DEF CallsInv, boundVars, callVars
  <2>3. UNCHANGED <<refused, errors>> \/ Refuse(x)
    BY <1>10 DEF Grant, Revoke, TakePublish
  <2>4. RefusalInv'
    BY <2>1, <2>3, NoRefusalKeeps, RefuseKeeps
  <2>5. QED
    BY <2>1, <2>2, <2>4, UnsentKeeps DEF Rest, callVars
<1>11. ASSUME OnPublishViolation PROVE Rest'
  <2>1. /\ errors # <<>> /\ errors' = Tail(errors)
        /\ deniedPublish' = deniedPublish \cup {Head(errors)}
        /\ UNCHANGED <<refused, boundVars, callVars>>
    BY <1>11 DEF OnPublishViolation, brokerVars
  <2>2. errors \in Seq(Subjects)
    BY <1>0 DEF TypeOK
  <2>3. RefusalInv'
    <3>1. 1 \in 1 .. Len(errors) /\ Head(errors) = errors[1]
      BY <2>1, <2>2
    <3>2. \A i \in 1 .. Len(errors') : i + 1 \in 1 .. Len(errors) /\ errors'[i] = errors[i + 1]
      BY <2>1, <2>2
    <3>3. QED
      BY <1>0, <2>1, <3>1, <3>2 DEF RefusalInv, DenialIsTrue
  <2>4. CallsInv' /\ LateInv' /\ SentInv' /\ PublishWithinCeiling' /\ TokenStaysWithGateway'
    BY <1>0, <2>1
    DEF CallsInv, LateInv, SentInv, PublishWithinCeiling, TokenStaysWithGateway, boundVars, callVars
  <2>5. QED
    BY <2>3, <2>4 DEF Rest
<1>12. ASSUME CloseNats \/ UNCHANGED vars PROVE Rest'
  <2>1. UNCHANGED <<refused, errors, deniedPublish, boundVars, callVars>>
    BY <1>12 DEF CloseNats, vars, brokerVars
  <2>2. CallsInv'
    BY <1>0, <2>1 DEF CallsInv, boundVars, callVars
  <2>3. QED
    BY <2>1, <2>2, UnsentKeeps, NoRefusalKeeps DEF Rest, callVars
<1>13. ASSUME NEW g \in Callers,
              \/ RequestReply(g) \/ RequestNoResponders(g) \/ RequestTimeout(g)
              \/ RequestCancelled(g) \/ RequestClosed(g)
              \/ \E x \in Subjects : CallDenied(g, x)
              \/ PublishSize(g) /\ maxPayload > 0 /\ call[g].size > maxPayload
       PROVE  Rest'
  BY <1>3, <1>13
  DEF RequestReply, RequestNoResponders, RequestTimeout, RequestCancelled, RequestClosed,
      CallDenied, PublishSize
<1>14. ASSUME NEW g \in Callers, nc = "closed",
              \/ PublishSend(g) \/ RequestSend(g)
              \/ \E x \in Subjects, h \in Tokens \cup {NoToken} : Respond(g, x, h)
       PROVE  Rest'
  BY <1>3, <1>14 DEF PublishSend, RequestSend, Respond, brokerVars
<1>15. nc \in {"open", "closed"}
  BY <1>0 DEF TypeOK
<1>16. QED
  BY <1>1, <1>2, <1>4, <1>5, <1>6, <1>7, <1>8, <1>9, <1>10, <1>11, <1>12, <1>13, <1>14, <1>15
  DEF Next, Kinds

-----------------------------------------------------------------------------
THEOREM Invariance == Spec => []IInv
<1>1. Init => IInv
  BY InitIInv
<1>2. IInv /\ [Next]_vars => IInv'
  BY NextTypeOK, NextRest DEF IInv, Rest
<1>3. QED
  BY <1>1, <1>2, PTL DEF Spec

\* Every variable stays within its type.
THEOREM TypeCorrect == Spec => []TypeOK
  BY Invariance, PTL DEF IInv

\* natsconn.Publish keeps to the ceiling, and natsconn.Negotiated only narrows it.
THEOREM CeilingKept == Spec => []PublishWithinCeiling
  BY Invariance, PTL DEF IInv

\* bindHostCallHeader gives the token to the gateway and to nothing else.
THEOREM TokenKept == Spec => []TokenStaysWithGateway
  BY Invariance, PTL DEF IInv

\* Conn.denied lets at most the one send through that had looked before.
THEOREM LateSendBounded == Spec => []AtMostOneLateSend
<1>1. IInv => AtMostOneLateSend
  BY DEF IInv, LateInv, AtMostOneLateSend
<1>2. QED
  BY <1>1, Invariance, PTL

\* Conn.onAsyncError records only refusals the broker made.
THEOREM DenialTrue == Spec => []DenialIsTrue
<1>1. IInv => DenialIsTrue
  BY DEF IInv, RefusalInv
<1>2. QED
  BY <1>1, Invariance, PTL

\* Negotiated and BindHostCallToken set their value once; onAsyncError only adds.
THEOREM BindingsFinal == Spec => BoundOnce
<1>1. ASSUME [Next]_vars PROVE [BoundKept]_vars
  <2>1. ASSUME NEW g \in Callers, NEW x \in Subjects,
               \/ CallDenied(g, x)
               \/ \E h \in Tokens \cup {NoToken} :
                    \/ \E n \in Sizes : CallChecked(g, "publish", x, n, h)
                    \/ CallChecked(g, "request", x, 0, h)
                    \/ Respond(g, x, h)
        PROVE  BoundKept
    BY <2>1 DEF CallDenied, CallChecked, Begin, Respond, boundVars, BoundKept
  <2>2. ASSUME NEW g \in Callers,
               \/ PublishSize(g) \/ PublishSend(g) \/ RequestSend(g) \/ TakeRequest(g)
               \/ RequestReply(g) \/ RequestNoResponders(g) \/ RequestTimeout(g)
               \/ RequestCancelled(g) \/ RequestClosed(g)
        PROVE  BoundKept
    BY <2>2
    DEF PublishSize, PublishSend, RequestSend, TakeRequest, RequestReply, RequestNoResponders,
        RequestTimeout, RequestCancelled, RequestClosed, boundVars, BoundKept
  <2>3. ASSUME \/ OnPublishViolation \/ CloseNats
               \/ \E x \in Subjects : Grant(x) \/ Revoke(x) \/ TakePublish(x)
        PROVE  BoundKept
    BY <2>3 DEF OnPublishViolation, CloseNats, Grant, Revoke, TakePublish, boundVars, BoundKept
  <2>4. ASSUME \/ \E host \in HostMaxes : Negotiated(host)
               \/ \E t \in Tokens \cup {Malformed} : BindHostCallToken(t)
        PROVE  BoundKept
    BY <2>4 DEF Negotiated, BindHostCallToken, BoundKept
  <2>5. QED
    BY <1>1, <2>1, <2>2, <2>3, <2>4 DEF Next
<1>2. QED
  BY <1>1, PTL DEF Spec, BoundOnce
=============================================================================
