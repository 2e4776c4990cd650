--------------------------- MODULE BrowserProofs ---------------------------
(***************************************************************************)
(* Proofs about the browser package: ComponentClient, for any contents,    *)
(* calls and number of revisions, and UiIndex's patterns of document paths *)
(* and revisions of any length.                                            *)
(***************************************************************************)
EXTENDS MCComponentClient, SequenceTheorems, WellFoundedInduction, TLAPS

\* A revision that is on its way, queued, answered or heard of is one the host has.
RevsInStep ==
  /\ Len(history) >= 1
  /\ \A e \in wire \cup queued : e.rev <= Len(history)
  /\ reply.kind \in {"changed", "garbled"} => reply.rev >= 1
  /\ reply.rev <= Len(history)
  /\ latest <= Len(history)

\* While the reply is awaited the highest revision heard of is in the queue.
LatestInStep ==
  /\ pc = "idle" => wire = {} /\ latest = 0
  /\ pc = "waiting" /\ ~closed =>
       /\ \A e \in queued : e.rev <= latest
       /\ latest = 0 \/ \E e \in queued : e.rev = latest

\* What was disposed of was connected or connecting, and is subscribed no more.
ClosedInStep == closed => ~subscribed /\ pc # "idle"

\* TypeOK with the history as a sequence, and a live replica at a revision.
Typed ==
  /\ history \in Seq(Contents) /\ Len(history) <= MaxRevision
  /\ wire \subseteq Events /\ queued \subseteq Events
  /\ reply \in [kind : {"none", "asked", "changed", "garbled"}, rev : Revisions \cup {0}]
  /\ withdrawn \in BOOLEAN /\ aborted \in BOOLEAN
  /\ subscribed \in BOOLEAN /\ closed \in BOOLEAN
  /\ pc \in {"idle", "waiting", "connected", "threw"}
  /\ revision \in Revisions \cup {Unread} /\ latest \in Revisions \cup {0}
  /\ current \in Contents \cup {"none"} /\ heard \in Contents \cup {"none"}
  /\ call \in [Calls -> {"none", "asked", "given", "refused"}]
  /\ queued # {} => pc = "waiting"
  /\ pc \in {"idle", "threw"} => ~subscribed
  /\ Live => revision \in Revisions

\* A live replica is at the newest revision heard of, and has shown it.
LiveInStep == Live => current = history[revision] /\ revision = latest /\ heard = current

IInv == Typed /\ RevsInStep /\ LatestInStep /\ ClosedInStep /\ LiveInStep

-----------------------------------------------------------------------------
(* What the data amounts to.                                               *)

\* A bounded sequence is a short sequence.
LEMMA BoundedSeqs ==
  ASSUME NEW S, NEW n \in Nat
  PROVE  BoundedSeq(S, n) = {s \in Seq(S) : Len(s) <= n}
  BY DEF BoundedSeq, SeqOf

\* A member no other exceeds is the maximum.
LEMMA MaxIs ==
  ASSUME NEW S \in SUBSET Int, NEW m \in S, \A x \in S : x <= m
  PROVE  Max(S) = m
<1> DEFINE P(x) == x \in S /\ \A y \in S : x >= y
<1>1. P(m)
  OBVIOUS
<1>2. ASSUME NEW x \in S, P(x) PROVE x = m
  <2>1. x >= m /\ x <= m /\ x \in Int /\ m \in Int
    BY <1>2
  <2>2. QED
    BY <2>1
<1>3. P(CHOOSE x \in S : \A y \in S : x >= y)
  BY <1>1
<1>4. QED
  BY <1>2, <1>3 DEF Max

\* What Typed says is what TypeOK says.
LEMMA TypedIsTypeOK == Typed => TypeOK
<1>1. BoundedSeq(Contents, MaxRevision) = {s \in Seq(Contents) : Len(s) <= MaxRevision}
  BY BoundedSeqs, HostHasRevisions
<1>2. QED
  BY <1>1 DEF Typed, TypeOK

\* An event is applied, passed over as old, or ends the replica.
LEMMA Applied ==
  ASSUME NEW e \in Events, revision \in Int, Apply(e)
  PROVE  \/ ~Bad(e) /\ e.rev <= revision
            /\ UNCHANGED <<revision, current, heard, subscribed, closed>>
         \/ e.kind = "changed" /\ e.rev > revision
            /\ Update(e.rev) /\ (Dispose \/ UNCHANGED <<subscribed, closed>>)
         \/ (Bad(e) \/ (e.kind # "changed" /\ ~(e.rev <= revision)))
            /\ Dispose /\ UNCHANGED <<revision, current, heard>>
<1>1. e.rev \in Int /\ (e.rev > revision <=> ~(e.rev <= revision))
  BY DEF Events, Revisions
<1>2. CASE ~Bad(e) /\ e.rev <= revision
  <2>1. ~(e.kind = "changed" /\ e.rev > revision)
    BY <1>1, <1>2
  <2>2. UNCHANGED <<revision, current, heard, subscribed, closed>>
    BY <1>2, <2>1 DEF Apply
  <2>3. QED
    BY <1>2, <2>2
<1>3. CASE e.kind = "changed" /\ e.rev > revision
  <2>1. ~(~Bad(e) /\ e.rev <= revision)
    BY <1>1, <1>3
  <2>2. Update(e.rev) /\ (Dispose \/ UNCHANGED <<subscribed, closed>>)
    BY <1>3, <2>1 DEF Apply
  <2>3. QED
    BY <1>3, <2>2
<1>4. CASE ~(~Bad(e) /\ e.rev <= revision) /\ ~(e.kind = "changed" /\ e.rev > revision)
  <2>1. Dispose /\ UNCHANGED <<revision, current, heard>>
    BY <1>4 DEF Apply
  <2>2. Bad(e) \/ (e.kind # "changed" /\ ~(e.rev <= revision))
    BY <1>1, <1>4
  <2>3. QED
    BY <2>1, <2>2
<1>5. QED
  BY <1>2, <1>3, <1>4

-----------------------------------------------------------------------------
\* At the start there is one revision and nothing on its way.
LEMMA InitIInv == Init => IInv
<1> SUFFICES ASSUME Init PROVE IInv
  OBVIOUS
<1>1. history \in Seq(Contents) /\ Len(history) = 1
  <2>1. PICK f \in [{1} -> Contents] : history = f
    BY DEF Init
  <2>2. history \in [1 .. 1 -> Contents]
    BY <2>1
  <2>3. \A s \in [1 .. 1 -> Contents] : s \in Seq(Contents) /\ Len(s) = 1
    <3> TAKE s \in [1 .. 1 -> Contents]
    <3>1. s \in Seq(Contents)
      <4>1. s \in UNION {[1 .. n -> Contents] : n \in Nat}
        OBVIOUS
      <4>2. QED
        BY <4>1, SeqDef, Zenon
    <3>2. DOMAIN s = 1 .. 1 /\ DOMAIN s = 1 .. Len(s) /\ Len(s) \in Nat
      BY <3>1, LenProperties
    <3>3. QED
      BY <3>1, <3>2
  <2>4. QED
    BY <2>2, <2>3
<1>2. Typed
  <2>1. reply \in [kind : {"none", "asked", "changed", "garbled"}, rev : Revisions \cup {0}]
    BY DEF Init, NoReply
  <2>2. call \in [Calls -> {"none", "asked", "given", "refused"}]
    BY DEF Init
  <2>3. Len(history) <= MaxRevision
    BY <1>1, HostHasRevisions
  <2>4. /\ withdrawn \in BOOLEAN /\ aborted \in BOOLEAN
        /\ subscribed \in BOOLEAN /\ closed \in BOOLEAN
    BY DEF Init
  <2>5. /\ wire \subseteq Events /\ queued \subseteq Events
        /\ pc \in {"idle", "waiting", "connected", "threw"}
        /\ revision \in Revisions \cup {Unread} /\ latest \in Revisions \cup {0}
        /\ current \in Contents \cup {"none"} /\ heard \in Contents \cup {"none"}
        /\ queued = {} /\ ~subscribed /\ ~Live
    BY DEF Init, Live
  <2>6. QED
    BY <1>1, <2>1, <2>2, <2>3, <2>4, <2>5 DEF Typed
<1>3. QED
  BY <1>1, <1>2
  DEF Init, IInv, RevsInStep, LatestInStep, ClosedInStep, LiveInStep, Live, NoReply

\* Every step keeps the inductive invariant.
LEMMA NextIInv == IInv /\ [Next]_vars => IInv'
<1> SUFFICES ASSUME IInv, [Next]_vars PROVE IInv'
  OBVIOUS
<1> USE HostHasRevisions DEF IInv, Typed, RevsInStep, LatestInStep, ClosedInStep, LiveInStep,
     Live, Revisions, Unread, Events, NoReply, hostVars, clientVars, Dispose, Throw, Update,
     Answered, Send
<1>1. CASE Change
  BY <1>1 DEF Change
<1>2. CASE Misnumber
  BY <1>2 DEF Misnumber
<1>3. CASE Withdraw
  BY <1>3 DEF Withdraw
<1>4. CASE Reply
  BY <1>4 DEF Reply
<1>5. CASE Connect
  BY <1>5, ZenonT(60) DEF Connect
<1>6. CASE Continue
  <2>1. CASE Refuses
    BY <1>6, <2>1 DEF Continue
  <2>2. CASE ~Refuses
    <3> DEFINE newest == IF latest > reply.rev THEN latest ELSE reply.rev
               revs == {reply.rev} \cup {e.rev : e \in queued}
    <3>1. ~closed /\ pc = "waiting" /\ reply.kind = "changed"
      BY <1>6, <2>2 DEF Continue, Refuses
    <3>2. /\ reply.rev \in Revisions /\ latest \in Int /\ newest \in Revisions
          /\ newest <= Len(history)
      <4>1. /\ reply.rev \in Revisions \cup {0} /\ reply.rev >= 1 /\ reply.rev <= Len(history)
            /\ latest \in Revisions \cup {0} /\ latest <= Len(history)
        BY <3>1
      <4>2. QED
        BY <4>1
    <3>3. Max({reply.rev, latest}) = newest
      <4> DEFINE pair == {reply.rev, latest}
      <4>1. pair \in SUBSET Int /\ newest \in pair /\ \A r \in pair : r <= newest
        BY <3>2
      <4>2. QED
        BY <4>1, MaxIs, ZenonT(60)
    <3>4. revs \in SUBSET Int /\ newest \in revs /\ \A r \in revs : r <= newest
      <4>1. \A e \in queued : e.rev \in Int /\ e.rev <= latest
        BY <3>1
      <4>2. latest = 0 \/ \E e \in queued : e.rev = latest
        BY <3>1
      <4>3. QED
        BY <3>2, <4>1, <4>2
    <3>5. Max(revs) = newest
      BY <3>4, MaxIs
    <3>6. /\ pc' = "connected" /\ queued' = {} /\ UNCHANGED <<subscribed, closed>>
          /\ revision' = newest /\ latest' = newest
          /\ current' = history[newest] /\ heard' = history[newest]
          /\ UNCHANGED <<history, reply, withdrawn, aborted, wire, call>>
      <4>1. Update(Max(revs)) /\ latest' = Max({reply.rev, latest})
        BY <1>6, <2>2 DEF Continue
      <4>2. QED
        BY <1>6, <2>2, <3>3, <3>5, <4>1 DEF Continue
    <3>7. history[newest] \in Contents
      BY <3>2
    <3> HIDE DEF newest
    <3>8. QED
      BY <3>1, <3>2, <3>6, <3>7
  <2>3. QED
    BY <2>1, <2>2
<1>7. CASE Abort
  <2>1. CASE subscribed
    BY <1>7, <2>1, ZenonT(60) DEF Abort
  <2>2. CASE ~subscribed
    BY <1>7, <2>2 DEF Abort
  <2>3. QED
    BY <2>1, <2>2
<1>8. CASE HandleDispose
  BY <1>8, ZenonT(60) DEF HandleDispose
<1>9. ASSUME NEW e \in Events, OnEvent(e) PROVE IInv'
  <2>0. /\ e \in wire /\ wire' = wire \ {e} /\ e.rev \in Revisions \cup {0} /\ e.rev <= Len(history)
        /\ UNCHANGED <<history, reply, withdrawn, aborted, pc, call>>
        /\ latest' = IF closed \/ e.rev <= latest THEN latest ELSE e.rev
    BY <1>9 DEF OnEvent
  <2>1. CASE closed
    <3>1. UNCHANGED <<revision, current, heard, subscribed, closed, queued, latest>>
      BY <1>9, <2>1 DEF OnEvent
    <3>2. QED
      BY <2>0, <2>1, <3>1
  <2>2. CASE ~closed /\ pc = "waiting"
    <3>1. /\ queued' = queued \cup {e}
          /\ UNCHANGED <<revision, current, heard, subscribed, closed>>
      BY <1>9, <2>2 DEF OnEvent
    <3>2. QED
      BY <2>0, <2>2, <3>1
  <2>3. CASE ~closed /\ pc # "waiting"
    <3>1. Apply(e) /\ UNCHANGED queued
      BY <1>9, <2>3 DEF OnEvent
    <3>2. revision \in Int
      OBVIOUS
    <3>3. CASE ~Bad(e) /\ e.rev <= revision
                 /\ UNCHANGED <<revision, current, heard, subscribed, closed>>
      <4>1. latest' \in Revisions \cup {0} /\ latest' <= Len(history)
        BY <2>0
      <4>2. Live => latest' = latest
        BY <2>0, <2>3, <3>3
      <4>3. pc # "idle"
        BY <2>0
      <4>4. Typed' /\ RevsInStep'
        BY <2>0, <2>3, <3>1, <3>3, <4>1
      <4>5. LatestInStep' /\ ClosedInStep'
        BY <2>0, <2>3, <3>1, <3>3, <4>3
      <4>6. LiveInStep'
        BY <2>0, <2>3, <3>1, <3>3, <4>2
      <4>7. QED
        BY <4>4, <4>5, <4>6
    <3>4. CASE /\ e.kind = "changed" /\ e.rev > revision
               /\ Update(e.rev) /\ (Dispose \/ UNCHANGED <<subscribed, closed>>)
      <4>1. /\ e.rev \in Revisions /\ e.rev <= Len(history) /\ pc # "idle"
            /\ history[e.rev] \in Contents
            /\ revision' = e.rev /\ current' = history'[e.rev] /\ heard' = current'
        BY <2>0, <3>4
      <4>2. pc = "connected" => latest' = e.rev
        BY <2>0, <2>3, <3>4
      <4>3. latest' \in Revisions \cup {0} /\ latest' <= Len(history)
        BY <2>0
      <4>4. Typed' /\ RevsInStep'
        <5>1. /\ subscribed' \in BOOLEAN /\ closed' \in BOOLEAN
              /\ subscribed' => subscribed
          <6>1. CASE Dispose
            BY <6>1
          <6>2. CASE UNCHANGED <<subscribed, closed>>
            BY <6>2
          <6>3. QED
            BY <3>4, <6>1, <6>2
        <5>2. /\ wire' \subseteq Events /\ queued' = queued /\ queued = {}
              /\ current' \in Contents /\ heard' \in Contents /\ revision' \in Revisions
          BY <2>0, <2>3, <3>1, <4>1
        <5>3. Typed'
          BY <2>0, <4>3, <5>1, <5>2
        <5>4. RevsInStep'
          BY <2>0, <4>3, <5>2
        <5>5. QED
          BY <5>3, <5>4
      <4>5. LatestInStep' /\ ClosedInStep'
        BY <2>0, <2>3, <3>1, <3>4, <4>1
      <4>6. LiveInStep'
        BY <2>0, <4>1, <4>2
      <4>7. QED
        BY <4>4, <4>5, <4>6
    <3>5. CASE Dispose /\ UNCHANGED <<revision, current, heard>>
      BY <2>0, <2>3, <3>1, <3>5, ZenonT(60)
    <3>6. QED
      BY <3>1, <3>2, <3>3, <3>4, <3>5, Applied
  <2>4. QED
    BY <2>1, <2>2, <2>3
<1>10. ASSUME NEW c \in Calls, Invoke(c) PROVE IInv'
  BY <1>10 DEF Invoke
<1>11. ASSUME NEW c \in Calls, MethodReturns(c) PROVE IInv'
  BY <1>11 DEF MethodReturns
<1>12. CASE UNCHANGED vars
  BY <1>12 DEF vars
<1>13. QED
  BY <1>1, <1>2, <1>3, <1>4, <1>5, <1>6, <1>7, <1>8, <1>9, <1>10, <1>11, <1>12 DEF Next

-----------------------------------------------------------------------------
\* The inductive invariant holds in every reachable state.
THEOREM Invariance == Spec => []IInv
<1>1. QED
  BY InitIInv, NextIInv, PTL DEF Spec

\* The state of connectComponent and its controller keeps its types: events wait
\* only for the reply, and a connect that failed leaves no subscription behind.
THEOREM TypeCorrect == Spec => []TypeOK
<1>1. IInv => TypeOK
  BY TypedIsTypeOK DEF IInv
<1>2. QED
  BY <1>1, Invariance, PTL

\* The host's newest revision has reached a subscribed client, or an event of it is
\* on its way, or the reply that is awaited will tell of it.
NoneMissed ==
  /\ pc \in {"waiting", "connected"} /\ ~closed => subscribed
  /\ pc = "waiting" /\ ~closed =>
       \/ reply.kind = "asked" \/ reply.rev = Len(history)
       \/ \E e \in wire \cup queued : e.rev = Len(history)
  /\ Live => latest = Len(history) \/ \E e \in wire : e.rev = Len(history)

\* At the start nobody is subscribed.
LEMMA InitMissed == Init => NoneMissed
  BY DEF Init, NoneMissed, Live

\* A change is sent to whoever is subscribed, an event that leaves the wire is
\* queued or applied, and the reply and the queue together tell the newest.
LEMMA NextMissed == IInv /\ NoneMissed /\ [Next]_vars => NoneMissed'
<1> SUFFICES ASSUME IInv, NoneMissed, [Next]_vars PROVE NoneMissed'
  OBVIOUS
<1>0. /\ history \in Seq(Contents) /\ Len(history) \in Nat
      /\ pc \in {"idle", "waiting", "connected", "threw"}
      /\ latest \in Int /\ latest <= Len(history)
      /\ reply.rev \in Int /\ reply.rev <= Len(history)
      /\ pc = "waiting" /\ ~closed => \A e \in queued : e.rev <= latest
      /\ \A e \in wire \cup queued : e.rev \in Int /\ e.rev <= Len(history)
  BY DEF IInv, Typed, RevsInStep, LatestInStep, Events, Revisions
<1> USE DEF NoneMissed, Live
<1>1. CASE Change
  <2>1. /\ Len(history') = Len(history) + 1
        /\ \E e : e.rev = Len(history') /\ wire' = IF subscribed THEN wire \cup {e} ELSE wire
    <3>1. PICK content \in Contents : history' = Append(history, content)
      BY <1>1 DEF Change
    <3>2. Len(history') = Len(history) + 1
      BY <1>0, <3>1
    <3>3. PICK kind \in {"changed", "garbled"} : Send([kind |-> kind, rev |-> Len(history')])
      BY <1>1 DEF Change
    <3>4. [kind |-> kind, rev |-> Len(history')].rev = Len(history')
      OBVIOUS
    <3>5. QED
      BY <3>2, <3>3, <3>4 DEF Send
  <2>2. UNCHANGED <<pc, closed, subscribed, queued, reply, latest>>
    BY <1>1 DEF Change, clientVars
  <2>3. QED
    BY <2>1, <2>2
<1>2. CASE Misnumber \/ Withdraw
  <2>1. wire \subseteq wire' /\ UNCHANGED <<history, pc, closed, subscribed, queued, reply, latest>>
    BY <1>2 DEF Misnumber, Withdraw, Send, hostVars, clientVars
  <2>2. QED
    BY <2>1
<1>3. CASE Reply
  <2>1. reply'.rev = Len(history) /\ UNCHANGED <<history, wire, pc, closed, subscribed, queued, latest>>
    BY <1>3 DEF Reply, clientVars
  <2>2. QED
    BY <2>1
<1>4. CASE Connect
  <2>1. pc' = "threw" \/ (pc' = "waiting" /\ subscribed' /\ reply'.kind = "asked")
    BY <1>4 DEF Connect, IInv, Typed, NoReply
  <2>2. QED
    BY <2>1
<1>5. CASE Continue
  <2>1. CASE Refuses
    BY <1>5, <2>1 DEF Continue, Throw, Dispose
  <2>2. CASE ~Refuses
    <3>1. /\ pc = "waiting" /\ ~closed /\ reply.kind # "asked" /\ pc' = "connected"
          /\ latest' = Max({reply.rev, latest})
          /\ UNCHANGED <<history, wire, closed, subscribed>>
      BY <1>5, <2>2 DEF Continue, Refuses, hostVars
    <3>2. reply.rev = Len(history) \/ latest = Len(history) => latest' = Len(history)
      <4> DEFINE pair == {reply.rev, latest}
      <4>1. pair \in SUBSET Int /\ \A r \in pair : r <= Len(history)
        BY <1>0
      <4>2. Len(history) \in pair => Max(pair) = Len(history)
        BY <4>1, MaxIs
      <4>3. QED
        BY <3>1, <4>2
    <3>3. (\E e \in queued : e.rev = Len(history)) => latest = Len(history)
      BY <1>0, <3>1
    <3>4. QED
      BY <3>1, <3>2, <3>3
  <2>3. QED
    BY <2>1, <2>2
<1>6. CASE Abort \/ HandleDispose
  <2>1. \/ closed' = TRUE
        \/ ~subscribed /\ UNCHANGED <<history, wire, pc, closed, subscribed, queued, reply, latest>>
    BY <1>6 DEF Abort, HandleDispose, Dispose
  <2>2. QED
    BY <2>1
<1>7. ASSUME NEW e \in Events, OnEvent(e) PROVE NoneMissed'
  <2>0. /\ e \in wire /\ wire' = wire \ {e} /\ UNCHANGED <<history, reply, pc>>
        /\ latest' = IF closed \/ e.rev <= latest THEN latest ELSE e.rev
        /\ e.rev \in Int /\ e.rev <= Len(history)
    BY <1>0, <1>7 DEF OnEvent, hostVars
  <2>1. CASE closed
    BY <1>7, <2>0, <2>1 DEF OnEvent
  <2>2. CASE ~closed /\ pc = "waiting"
    <3>1. queued' = queued \cup {e} /\ UNCHANGED <<subscribed, closed>>
      BY <1>7, <2>2 DEF OnEvent
    <3>2. QED
      BY <2>0, <2>2, <3>1
  <2>3. CASE ~closed /\ pc # "waiting"
    <3>1. closed' = TRUE \/ UNCHANGED <<subscribed, closed>>
      <4>1. Apply(e) /\ revision \in Int
        BY <1>7, <2>3 DEF OnEvent, IInv, Typed, Revisions, Unread
      <4>2. QED
        BY <4>1, Applied DEF Dispose
    <3>2. latest = Len(history) => latest' = Len(history)
      BY <1>0, <2>0, <2>3
    <3>3. e.rev = Len(history) => latest' = Len(history)
      BY <1>0, <2>0, <2>3
    <3>4. \A d \in wire : d \in wire' \/ d = e
      BY <2>0
    <3>5. QED
      BY <2>0, <2>3, <3>1, <3>2, <3>3, <3>4
  <2>4. QED
    BY <2>1, <2>2, <2>3
<1>8. ASSUME NEW c \in Calls, Invoke(c) \/ MethodReturns(c) PROVE NoneMissed'
  BY <1>8 DEF Invoke, MethodReturns, hostVars, clientVars
<1>9. CASE UNCHANGED vars
  BY <1>9 DEF vars, hostVars, clientVars
<1>10. QED
  BY <1>1, <1>2, <1>3, <1>4, <1>5, <1>6, <1>7, <1>8, <1>9 DEF Next

\* A live replica is the host's component at one revision, the newest that has
\* reached the client by either channel, and the listener has seen it; with no
\* event on its way it is the host's newest.
THEOREM ReplicaTrue == Spec => []ReplicaIsTrue
<1>1. IInv /\ NoneMissed => ReplicaIsTrue
  BY DEF IInv, LiveInStep, NoneMissed, ReplicaIsTrue
<1>2. Spec => []NoneMissed
  BY InitMissed, NextMissed, Invariance, PTL DEF Spec
<1>3. QED
  BY <1>1, <1>2, Invariance, PTL

\* What a step may do to a handle that was disposed of.
StandsStill ==
  closed => /\ UNCHANGED <<current, heard, subscribed>>
            /\ closed' /\ \A c \in Calls : call'[c] = "given" => call[c] = "given"

\* No step stirs a handle that was disposed of: a queue that is still to be
\* sorted is refused, and an answer to a method's call is refused too.
LEMMA NextStandsStill == IInv /\ [Next]_vars => StandsStill
<1> SUFFICES ASSUME IInv, [Next]_vars, closed
             PROVE  /\ UNCHANGED <<current, heard, subscribed>>
                    /\ closed' /\ \A c \in Calls : call'[c] = "given" => call[c] = "given"
  BY DEF StandsStill
<1>0. /\ subscribed = FALSE /\ closed = TRUE /\ pc # "idle"
      /\ call \in [Calls -> {"none", "asked", "given", "refused"}]
  BY DEF IInv, Typed, ClosedInStep
<1> USE <1>0 DEF hostVars, clientVars, Dispose, Throw, Answered
<1>1. CASE Change \/ Misnumber \/ Withdraw \/ Reply
  BY <1>1 DEF Change, Misnumber, Withdraw, Reply
<1>2. CASE Connect \/ HandleDispose
  BY <1>2 DEF Connect, HandleDispose, Live
<1>3. CASE Continue
  BY <1>3 DEF Continue, Refuses
<1>4. CASE Abort
  BY <1>4 DEF Abort
<1>5. ASSUME NEW e \in Events, OnEvent(e)
      PROVE  UNCHANGED <<current, heard, subscribed, closed, call>>
  BY <1>5 DEF OnEvent
<1>6. ASSUME NEW c \in Calls, Invoke(c) \/ MethodReturns(c)
      PROVE  /\ UNCHANGED <<current, heard, subscribed, closed>>
             /\ \A d \in Calls : call'[d] = "given" => call[d] = "given"
  BY <1>6 DEF Invoke, MethodReturns
<1>7. CASE UNCHANGED vars
  BY <1>7 DEF vars
<1>8. QED
  BY <1>1, <1>2, <1>3, <1>4, <1>5, <1>6, <1>7 DEF Next

\* Once a handle is disposed of its snapshot stands still, no listener hears
\* anything and no method of it gives a result.
THEOREM AfterDispose == Spec => NothingAfterDispose
<1>1. IInv /\ [Next]_vars => [StandsStill]_vars
  BY NextStandsStill
<1>2. Spec => [][StandsStill]_vars
  BY <1>1, Invariance, PTL DEF Spec
<1>3. QED
  BY <1>2 DEF NothingAfterDispose, StandsStill

-----------------------------------------------------------------------------
(* The replica that only moves forward, implemented.                       *)

\* Before it is connected a replica is at no revision and has no calls, and one
\* that found the host gone was never subscribed, so no event can reach it.
HandleInStep ==
  /\ pc \in {"idle", "waiting"} => revision = Unread
  /\ \A c \in Calls : call[c] # "none" => pc = "connected"
  /\ pc = "threw" /\ ~closed => wire = {}

\* At the start there is no handle.
LEMMA InitHandle == Init => HandleInStep
  BY DEF Init, HandleInStep

\* An event is queued before the reply and applied after it, and only a
\* subscribed replica is sent one.
LEMMA NextHandle == IInv /\ HandleInStep /\ [Next]_vars => HandleInStep'
<1> SUFFICES ASSUME IInv, HandleInStep, [Next]_vars PROVE HandleInStep'
  OBVIOUS
<1>0. /\ pc \in {"idle", "waiting", "connected", "threw"}
      /\ call \in [Calls -> {"none", "asked", "given", "refused"}]
      /\ pc \in {"idle", "threw"} => ~subscribed
      /\ pc = "idle" => wire = {}
      /\ closed => pc # "idle"
  BY DEF IInv, Typed, LatestInStep, ClosedInStep
<1> USE <1>0 DEF HandleInStep, hostVars, clientVars
<1>1. CASE Change \/ Misnumber \/ Withdraw
  BY <1>1 DEF Change, Misnumber, Withdraw, Send
<1>2. CASE Reply
  BY <1>2 DEF Reply
<1>3. CASE Connect
  BY <1>3 DEF Connect
<1>4. CASE Continue
  BY <1>4 DEF Continue, Throw, Dispose, Update
<1>5. CASE Abort \/ HandleDispose
  BY <1>5 DEF Abort, HandleDispose, Dispose, Live
<1>6. ASSUME NEW e \in Events, OnEvent(e) PROVE HandleInStep'
  <2>1. e \in wire /\ wire' = wire \ {e} /\ UNCHANGED <<pc, call>>
    BY <1>6 DEF OnEvent
  <2>2. pc = "waiting" => revision' = revision
    BY <1>6 DEF OnEvent
  <2>3. pc = "threw" => closed /\ closed' = closed
    BY <1>6, <2>1 DEF OnEvent
  <2>4. QED
    BY <2>1, <2>2, <2>3
<1>7. ASSUME NEW c \in Calls, Invoke(c) \/ MethodReturns(c) PROVE HandleInStep'
  BY <1>7 DEF Invoke, MethodReturns, Answered
<1>8. CASE UNCHANGED vars
  BY <1>8 DEF vars
<1>9. QED
  BY <1>1, <1>2, <1>3, <1>4, <1>5, <1>6, <1>7, <1>8 DEF Next

\* The invariants the refinement is shown under.
LEMMA HandleInvariance == Spec => [](IInv /\ HandleInStep)
<1>1. QED
  BY InitIInv, NextIInv, InitHandle, NextHandle, PTL DEF Spec

\* At the start the handle is absent and has given nothing.
LEMMA ReplicaInit == Init => Replica!Init
  BY DEF Init, Replica!Init, Status, Rev, Given

\* Every step moves the replica on, ends it, or cannot be seen by the application.
LEMMA ReplicaNext ==
  IInv /\ HandleInStep /\ IInv' /\ [Next]_vars => [Replica!Next]_Replica!vars
<1> SUFFICES ASSUME IInv, HandleInStep, IInv', [Next]_vars
             PROVE  Replica!Next \/ UNCHANGED Replica!vars
  OBVIOUS
<1>0. /\ call \in [Calls -> {"none", "asked", "given", "refused"}]
      /\ pc \in {"idle", "waiting", "connected", "threw"}
      /\ closed \in BOOLEAN
      /\ closed => pc # "idle" /\ ~subscribed
  BY DEF IInv, Typed, ClosedInStep
<1> DEFINE Ends == Status' = "gone" /\ UNCHANGED <<history, revision, current, heard, call>>
           Unseen == UNCHANGED <<history, Status, revision, current, heard, call>>
<1>a. Ends => Replica!Next
  BY DEF Replica!Next, Replica!End, Rev, Given
<1>b. Unseen => UNCHANGED Replica!vars
  BY DEF Replica!vars, Rev, Given
<1>1. CASE Change
  <2>1. UNCHANGED <<Status, Rev, current, heard, Given>>
    BY <1>1 DEF Change, Status, Rev, Given, clientVars
  <2>2. \E content \in Contents : history' = Append(history, content)
    BY <1>1 DEF Change
  <2>3. QED
    BY <2>1, <2>2 DEF Replica!Next, Replica!Publish
<1>2. CASE Misnumber \/ Withdraw \/ Reply
  <2>1. Unseen
    BY <1>2 DEF Misnumber, Withdraw, Reply, Status, hostVars, clientVars
  <2>2. QED
    BY <1>b, <2>1
<1>3. CASE Connect
  <2>1. Ends \/ Unseen
    BY <1>0, <1>3 DEF Connect, Status
  <2>2. QED
    BY <1>a, <1>b, <2>1
<1>4. CASE Continue
  <2>1. CASE Refuses
    <3>1. Ends
      BY <1>4, <2>1 DEF Continue, Throw, Dispose, Status, hostVars
    <3>2. QED
      BY <1>a, <3>1
  <2>2. CASE ~Refuses
    <3>1. /\ pc = "waiting" /\ ~closed /\ pc' = "connected" /\ closed' = closed
          /\ UNCHANGED <<history, call>>
      BY <1>4, <2>2 DEF Continue, Refuses, hostVars
    <3>2. Status = "absent" /\ Status' = "live" /\ Live'
      BY <3>1 DEF Status, Live
    <3>3. /\ revision' \in Revisions /\ revision' <= Len(history)
          /\ current' = history[revision'] /\ heard' = history[revision']
      BY <3>1, <3>2 DEF IInv, Typed, RevsInStep, LiveInStep
    <3>4. Rev = 0 /\ Rev' = revision'
      BY <3>1, <3>3 DEF HandleInStep, Rev, Unread, Revisions
    <3>5. Rev' \in Rev + 1 .. Len(history)
      <4>1. Len(history) \in Nat
        BY DEF IInv, Typed
      <4>2. QED
        BY <3>3, <3>4, <4>1 DEF Revisions
    <3>6. UNCHANGED Given
      BY <3>1 DEF Given
    <3>7. Replica!MoveOn
      BY <3>1, <3>3, <3>4, <3>5, <3>6 DEF Replica!MoveOn
    <3>8. QED
      BY <3>2, <3>7 DEF Replica!Next, Replica!Open
  <2>3. QED
    BY <2>1, <2>2
<1>5. CASE Abort
  <2>1. Ends \/ Unseen
    BY <1>5 DEF Abort, Dispose, Status
  <2>2. QED
    BY <1>a, <1>b, <2>1
<1>6. CASE HandleDispose
  <2>1. Ends
    BY <1>6 DEF HandleDispose, Dispose, Status, hostVars
  <2>2. QED
    BY <1>a, <2>1
<1>7. ASSUME NEW e \in Events, OnEvent(e)
      PROVE  Replica!Next \/ UNCHANGED Replica!vars
  <2>0. e \in wire /\ UNCHANGED <<history, pc, call>>
    BY <1>7 DEF OnEvent, hostVars
  <2>1. CASE closed \/ pc = "waiting"
    <3>1. Unseen
      BY <1>7, <2>0, <2>1 DEF OnEvent, Status
    <3>2. QED
      BY <1>b, <3>1
  <2>2. CASE ~closed /\ pc # "waiting"
    <3>1. Apply(e)
      BY <1>7, <2>2 DEF OnEvent
    <3>2. pc = "connected"
      BY <1>0, <2>0, <2>2 DEF IInv, LatestInStep, HandleInStep
    <3>3. Status = "live" /\ revision \in Revisions /\ Rev = revision
      BY <2>2, <3>2 DEF IInv, Typed, Live, Status, Rev, Revisions, Unread
    <3>4. revision \in Int
      BY <3>3 DEF Revisions
    <3>5. CASE UNCHANGED <<revision, current, heard, subscribed, closed>>
      <4>1. Unseen
        BY <2>0, <3>5 DEF Status
      <4>2. QED
        BY <1>b, <4>1
    <3>6. CASE Dispose /\ UNCHANGED <<revision, current, heard>>
      <4>1. Ends
        BY <2>0, <3>6 DEF Dispose, Status
      <4>2. QED
        BY <1>a, <4>1
    <3>7. CASE /\ e.kind = "changed" /\ e.rev > revision
               /\ Update(e.rev) /\ (Dispose \/ UNCHANGED <<subscribed, closed>>)
      <4>1. Status' \in {"live", "gone"}
        BY <2>0, <2>2, <3>2, <3>7 DEF Dispose, Status
      <4>2. /\ revision' = e.rev /\ current' = history[e.rev] /\ heard' = history[e.rev]
        BY <3>7 DEF Update
      <4>3. e.rev \in Revisions \cup {0} /\ e.rev <= Len(history) /\ Len(history) \in Nat
        BY <2>0 DEF Events, IInv, Typed, RevsInStep
      <4>4. e.rev \in revision + 1 .. Len(history) /\ e.rev # Unread
        BY <3>3, <3>7, <4>3 DEF Revisions, Unread
      <4>5. Rev' = e.rev /\ UNCHANGED Given
        BY <2>0, <4>2, <4>4 DEF Rev, Given
      <4>6. Replica!MoveOn
        BY <2>0, <3>3, <4>2, <4>4, <4>5 DEF Replica!MoveOn
      <4>7. QED
        BY <3>3, <4>1, <4>6 DEF Replica!Next, Replica!Advance
    <3>8. QED
      BY <3>1, <3>4, <3>5, <3>6, <3>7, Applied
  <2>3. QED
    BY <2>1, <2>2
<1>8. ASSUME NEW c \in Calls, Invoke(c) PROVE UNCHANGED Replica!vars
  <2>1. UNCHANGED <<history, Status, Rev, current, heard>>
    BY <1>8 DEF Invoke, Status, Rev, hostVars, clientVars
  <2>2. \A d \in Calls : call'[d] = "given" <=> call[d] = "given"
    BY <1>0, <1>8 DEF Invoke, Answered
  <2>3. UNCHANGED Given
    BY <2>2 DEF Given
  <2>4. QED
    BY <2>1, <2>3 DEF Replica!vars
<1>9. ASSUME NEW c \in Calls, MethodReturns(c)
      PROVE  Replica!Next \/ UNCHANGED Replica!vars
  <2>1. UNCHANGED <<history, Status, Rev, current, heard>>
    BY <1>9 DEF MethodReturns, Status, Rev, hostVars, clientVars
  <2>2. CASE ~closed /\ Answered(c, "given")
    <3>1. pc = "connected"
      BY <1>9 DEF MethodReturns, HandleInStep
    <3>2. Status = "live"
      BY <2>2, <3>1 DEF Status
    <3>3. \A d \in Calls : call'[d] = "given" <=> d = c \/ call[d] = "given"
      BY <1>0, <2>2 DEF Answered
    <3>4. Given' = Given \cup {c}
      BY <3>3 DEF Given
    <3>5. QED
      BY <2>1, <3>2, <3>4 DEF Replica!Next, Replica!Give
  <2>3. CASE Answered(c, "refused")
    <3>1. \A d \in Calls : call'[d] = "given" <=> call[d] = "given"
      BY <1>0, <1>9, <2>3 DEF MethodReturns, Answered
    <3>2. UNCHANGED Given
      BY <3>1 DEF Given
    <3>3. QED
      BY <2>1, <3>2 DEF Replica!vars
  <2>4. QED
    BY <1>9, <2>2, <2>3 DEF MethodReturns
<1>10. CASE UNCHANGED vars
  <2>1. Unseen
    BY <1>10 DEF vars, hostVars, clientVars, Status
  <2>2. QED
    BY <1>b, <2>1
<1>11. QED
  BY <1>1, <1>2, <1>3, <1>4, <1>5, <1>6, <1>7, <1>8, <1>9, <1>10 DEF Next

\* A browser's replica, whatever the order of events, replies and disposals, is a
\* handle that only moves forward and stands still once it is gone.
THEOREM Refinement == Spec => ImplementsReplica
<1>1. QED
  BY ReplicaInit, ReplicaNext, HandleInvariance, PTL DEF Spec, ImplementsReplica, Replica!Spec

\* What the contract's own steps keep: a handle is at a revision there is, and a
\* live one at the revision it shows.
ReplicaInv ==
  /\ history \in Seq(Contents) /\ Rev \in 0 .. Len(history)
  /\ Replica!ShowsTheComponent

\* What a step of the contract may do to a handle.
Forward ==
  /\ Rev' >= Rev
  /\ Status = "gone" => UNCHANGED <<Status, Rev, current, heard, Given>>

\* A step of the contract keeps its invariant, and never takes a handle back.
LEMMA ReplicaStep ==
  ASSUME ReplicaInv, [Replica!Next]_Replica!vars
  PROVE  ReplicaInv' /\ Forward
<1>0. history \in Seq(Contents) /\ Len(history) \in Nat /\ Rev \in 0 .. Len(history)
  BY DEF ReplicaInv
<1> USE DEF ReplicaInv, Replica!ShowsTheComponent, Forward
<1>1. CASE Replica!Publish
  <2>1. PICK content \in Contents : history' = Append(history, content)
    BY <1>1 DEF Replica!Publish
  <2>2. /\ history' \in Seq(Contents) /\ Len(history') = Len(history) + 1
        /\ \A r \in 1 .. Len(history) : history'[r] = history[r]
    BY <1>0, <2>1
  <2>3. QED
    BY <1>0, <1>1, <2>2 DEF Replica!Publish
<1>2. CASE Replica!Open \/ Replica!Advance
  <2>1. Replica!MoveOn /\ Status # "gone"
    BY <1>2 DEF Replica!Open, Replica!Advance
  <2>2. QED
    BY <1>0, <2>1 DEF Replica!MoveOn
<1>3. ASSUME NEW c \in Calls, Replica!Give(c) PROVE ReplicaInv' /\ Forward
  BY <1>0, <1>3 DEF Replica!Give
<1>4. CASE Replica!End
  BY <1>0, <1>4 DEF Replica!End
<1>5. CASE UNCHANGED Replica!vars
  BY <1>0, <1>5 DEF Replica!vars
<1>6. QED
  BY <1>1, <1>2, <1>3, <1>4, <1>5 DEF Replica!Next

\* What ReplicaContract promises of every implementation of it: a live handle shows
\* the component at its revision, it goes forward only, and a gone one stands still.
THEOREM ReplicaPromises == Replica!Spec => []Replica!ShowsTheComponent /\ Replica!OnlyForward
<1>1. Replica!Init => ReplicaInv
  <2> SUFFICES ASSUME Replica!Init PROVE ReplicaInv
    OBVIOUS
  <2>1. history \in UNION {[1 .. n -> Contents] : n \in Nat}
    <3>1. history \in [1 .. 1 -> Contents]
      BY DEF Replica!Init
    <3>2. QED
      BY <3>1
  <2>2. history \in Seq(Contents)
    BY <2>1, SeqDef, Zenon
  <2>3. QED
    BY <2>2 DEF ReplicaInv, Replica!Init, Replica!ShowsTheComponent
<1>2. ReplicaInv /\ [Replica!Next]_Replica!vars => ReplicaInv' /\ Forward
  BY ReplicaStep
<1>3. ReplicaInv => Replica!ShowsTheComponent
  BY DEF ReplicaInv
<1>4. Replica!Spec => []ReplicaInv
  BY <1>1, <1>2, PTL DEF Replica!Spec
<1>5. ReplicaInv /\ [Replica!Next]_Replica!vars => [Forward]_Replica!vars
  BY <1>2
<1>6. Replica!Spec => [][Forward]_Replica!vars
  BY <1>4, <1>5, PTL DEF Replica!Spec
<1>7. Replica!Spec => Replica!OnlyForward
  BY <1>6 DEF Forward, Replica!OnlyForward
<1>8. QED
  BY <1>3, <1>4, <1>7, PTL

\* A browser's handle is never taken back to an earlier revision of its component.
THEOREM NeverBack == Spec => Replica!OnlyForward
  BY Refinement, ReplicaPromises DEF ImplementsReplica

-----------------------------------------------------------------------------
(* Patterns of document paths, of any length and over any segments.        *)

\* The smaller of two lengths.
LEMMA MinOfTwo ==
  ASSUME NEW m \in Nat, NEW n \in Nat
  PROVE  Min({m, n}) = IF m <= n THEN m ELSE n
<1> DEFINE least == IF m <= n THEN m ELSE n
           P(x) == x \in {m, n} /\ \A y \in {m, n} : x <= y
<1>1. P(least)
  OBVIOUS
<1>2. \A x \in {m, n} : P(x) => x = least
  OBVIOUS
<1>3. P(CHOOSE x \in {m, n} : \A y \in {m, n} : x <= y)
  BY <1>1
<1>4. QED
  BY <1>2, <1>3 DEF Min

\* A pattern is a sequence of segments, and its literals are told by their values.
LEMMA PatternSegments ==
  ASSUME NEW p \in Patterns
  PROVE  /\ p \in Seq(Literals \cup {Param, Star}) /\ Len(p) \in 1 .. MaxParts
         /\ DOMAIN p = 1 .. Len(p)
         /\ \A i \in DOMAIN p : p[i].kind = "literal" =>
              p[i].value \in Names /\ p[i] = [kind |-> "literal", value |-> p[i].value]
<1>1. p \in Seq(Literals \cup {Param, Star}) /\ Len(p) <= MaxParts /\ p # <<>>
  BY BoundedSeqs, SegmentsExist DEF Patterns
<1>2. Len(p) \in 1 .. MaxParts /\ DOMAIN p = 1 .. Len(p)
  BY <1>1, SegmentsExist
<1>3. ASSUME NEW i \in DOMAIN p, p[i].kind = "literal"
      PROVE  p[i].value \in Names /\ p[i] = [kind |-> "literal", value |-> p[i].value]
  <2>1. p[i] \in Literals \cup {Param, Star}
    BY <1>1, <1>2
  <2>2. p[i] \in Literals
    <3>1. Param.kind # "literal" /\ Star.kind # "literal"
      BY DEF Param, Star
    <3>2. p[i] # Param /\ p[i] # Star
      BY <1>3, <3>1
    <3>3. QED
      BY <2>1, <3>2
  <2>3. QED
    BY <2>2 DEF Literals
<1>4. QED
  BY <1>1, <1>2, <1>3

\* A path of given segments is a path, if it is no longer than it may be.
LEMMA PathOf ==
  ASSUME NEW n \in Nat, n <= MaxParts, NEW path \in [1 .. n -> Names]
  PROVE  path \in BoundedSeq(Names, MaxParts + 1) /\ Len(path) = n
<1>1. path \in Seq(Names)
  <2>1. path \in UNION {[1 .. k -> Names] : k \in Nat}
    OBVIOUS
  <2>2. QED
    BY <2>1, SeqDef, Zenon
<1>2. DOMAIN path = 1 .. n /\ DOMAIN path = 1 .. Len(path) /\ Len(path) \in Nat
  BY <1>1, LenProperties
<1>3. Len(path) = n
  BY <1>2
<1>4. MaxParts + 1 \in Nat /\ Len(path) <= MaxParts + 1
  BY <1>3, SegmentsExist
<1>5. QED
  BY <1>1, <1>3, <1>4, BoundedSeqs

\* documentPathsOverlap(a, b) holds exactly if some path matches both patterns:
\* from two patterns that overlap a path is made that takes the literals of both
\* and any segment where neither has one.
THEOREM PatternsOverlap == OverlapIsExact
<1> SUFFICES ASSUME NEW a \in Patterns, NEW b \in Patterns
             PROVE  Overlap(a, b) <=> \E path \in BoundedSeq(Names, MaxParts + 1) :
                                        Matches(a, path) /\ Matches(b, path)
  BY DEF OverlapIsExact
<1>1. /\ Len(a) \in 1 .. MaxParts /\ DOMAIN a = 1 .. Len(a)
      /\ Len(b) \in 1 .. MaxParts /\ DOMAIN b = 1 .. Len(b)
      /\ Len(a) \in Nat /\ Len(b) \in Nat
  BY PatternSegments, SegmentsExist
<1>2. Min({Len(a), Len(b)}) = IF Len(a) <= Len(b) THEN Len(a) ELSE Len(b)
  BY <1>1, MinOfTwo
<1>3. \A i \in 1 .. Min({Len(a), Len(b)}) : i \in DOMAIN a /\ i \in DOMAIN b
  BY <1>1, <1>2
<1>4. ASSUME Overlap(a, b)
      PROVE  \E path \in BoundedSeq(Names, MaxParts + 1) : Matches(a, path) /\ Matches(b, path)
  <2> DEFINE n == IF Len(a) <= Len(b) THEN Len(b) ELSE Len(a)
             literal(p, i) == i \in DOMAIN p /\ p[i].kind = "literal"
             path == [i \in 1 .. n |-> IF literal(a, i) THEN a[i].value
                                       ELSE IF literal(b, i) THEN b[i].value
                                       ELSE CHOOSE x \in Names : TRUE]
  <2>1. n \in Nat /\ n <= MaxParts /\ Len(a) <= n /\ Len(b) <= n
    BY <1>1, SegmentsExist
  <2>2. path \in [1 .. n -> Names]
    <3>1. \A i \in 1 .. n : literal(a, i) => a[i].value \in Names
      BY PatternSegments
    <3>2. \A i \in 1 .. n : literal(b, i) => b[i].value \in Names
      BY PatternSegments
    <3>3. (CHOOSE x \in Names : TRUE) \in Names
      BY SegmentsExist
    <3>4. QED
      BY <3>1, <3>2, <3>3
  <2>3. path \in BoundedSeq(Names, MaxParts + 1) /\ Len(path) = n
    BY <2>1, <2>2, PathOf
  <2>4. \A i \in DOMAIN a : a[i].kind = "literal" => a[i].value = path[i]
    BY <1>1, <2>1
  <2>5. \A i \in DOMAIN b : b[i].kind = "literal" => b[i].value = path[i]
    <3> SUFFICES ASSUME NEW i \in DOMAIN b, b[i].kind = "literal"
                 PROVE  b[i].value = path[i]
      OBVIOUS
    <3>1. i \in 1 .. n
      BY <1>1, <2>1
    <3>2. CASE literal(a, i)
      <4>1. i \in 1 .. Min({Len(a), Len(b)})
        BY <1>1, <1>2, <3>2
      <4>2. a[i] = b[i]
        BY <1>4, <3>2, <4>1 DEF Overlap
      <4>3. QED
        BY <3>1, <3>2, <4>2
    <3>3. CASE ~literal(a, i)
      BY <3>1, <3>3
    <3>4. QED
      BY <3>2, <3>3
  <2>6. Last(a) = Star \/ n = Len(a)
    <3>1. Last(a) = Star \/ Len(a) >= Len(b)
      BY <1>4 DEF Overlap
    <3>2. Len(a) >= Len(b) => n = Len(a)
      <4>1. \A k, m \in Nat : k >= m => (IF k <= m THEN m ELSE k) = k
        OBVIOUS
      <4>2. QED
        BY <1>1, <4>1
    <3>3. QED
      BY <3>1, <3>2
  <2>7. Last(b) = Star \/ n = Len(b)
    BY <1>1, <1>4 DEF Overlap
  <2> HIDE DEF n, path
  <2>8. Matches(a, path) /\ Matches(b, path)
    BY <2>1, <2>3, <2>4, <2>5, <2>6, <2>7 DEF Matches
  <2>9. QED
    BY <2>3, <2>8
<1>5. ASSUME NEW path \in BoundedSeq(Names, MaxParts + 1), Matches(a, path), Matches(b, path)
      PROVE  Overlap(a, b)
  <2>1. Len(path) \in Nat
    BY BoundedSeqs, SegmentsExist
  <2>2. Last(a) = Star \/ Len(a) >= Len(b)
    BY <1>1, <1>5, <2>1 DEF Matches
  <2>3. Last(b) = Star \/ Len(b) >= Len(a)
    BY <1>1, <1>5, <2>1 DEF Matches
  <2>4. ASSUME NEW i \in 1 .. Min({Len(a), Len(b)}),
               a[i].kind = "literal", b[i].kind = "literal"
        PROVE  a[i] = b[i]
    <3>1. i \in DOMAIN a /\ i \in DOMAIN b
      BY <1>3
    <3>2. a[i].value = path[i] /\ b[i].value = path[i]
      BY <1>5, <2>4, <3>1 DEF Matches
    <3>3. QED
      BY <2>4, <3>1, <3>2, PatternSegments
  <2>5. QED
    BY <2>2, <2>3, <2>4 DEF Overlap
<1>6. QED
  BY <1>4, <1>5

-----------------------------------------------------------------------------
(* Revisions, of any length.  What a sequence of digits spells is a        *)
(* recursive function; induction on it is on the set of the lengths for    *)
(* which it does what is claimed (SetInduction).                           *)

\* A set of natural numbers that is not empty has a least member.
LEMMA Least ==
  ASSUME NEW T \in SUBSET Nat, T # {}
  PROVE  \E m \in T : \A k \in T : m <= k
<1>1. PICK m \in T : \A k \in T : ~(<<k, m>> \in OpToRel(<, Nat))
  BY WFMin, NatLessThanWellFounded, Zenon
<1>2. \A k \in T : ~(k < m)
  BY <1>1, Zenon DEF OpToRel
<1>3. QED
  BY <1>2

\* Induction on a set: 0, and with every number the next one, are all of them.
LEMMA SetInduction ==
  ASSUME NEW S \in SUBSET Nat, 0 \in S, \A n \in S : n + 1 \in S
  PROVE  \A n \in Nat : n \in S
<1>1. ASSUME NEW n \in Nat, n \notin S PROVE FALSE
  <2>1. PICK m \in Nat \ S : \A k \in Nat \ S : m <= k
    BY <1>1, Least
  <2>2. m # 0 /\ m - 1 \in Nat
    BY <2>1
  <2>3. m - 1 \in S
    BY <2>1, <2>2
  <2>4. QED
    BY <2>1, <2>3
<1>2. QED
  BY <1>1

\* A digit more keeps the order of what was spelt before it.
LEMMA DigitMore ==
  \A x, y \in Nat, p, q \in 0 .. 9 : x > y => 10 * x + p > 10 * y + q
  OBVIOUS

\* The values of a sequence of digits are numbers, from 0 on each ten times the
\* one before and its digit: a function that obeys its own definition exists.
LEMMA ValuesAre ==
  ASSUME NEW d \in Seq(Nat)
  PROVE  /\ Values(d) \in [0 .. Len(d) -> Nat]
         /\ Values(d)[0] = 0
         /\ \A i \in 1 .. Len(d) : Values(d)[i] = 10 * Values(d)[i - 1] + d[i]
<1> DEFINE Spells(v, n) == v[0] = 0 /\ \A i \in 1 .. n : v[i] = 10 * v[i - 1] + d[i]
           P(n) == \E v \in [0 .. n -> Nat] : Spells(v, n)
           S == {n \in Nat : n <= Len(d) => P(n)}
<1>0. Len(d) \in Nat /\ \A i \in 1 .. Len(d) : d[i] \in Nat
  OBVIOUS
<1>1. P(0)
  <2>1. [i \in 0 .. 0 |-> 0] \in [0 .. 0 -> Nat] /\ Spells([i \in 0 .. 0 |-> 0], 0)
    OBVIOUS
  <2>2. QED
    BY <2>1
<1>2. ASSUME NEW n \in Nat, n + 1 <= Len(d), P(n) PROVE P(n + 1)
  <2>1. PICK v \in [0 .. n -> Nat] : Spells(v, n)
    BY <1>2
  <2> DEFINE w == [i \in 0 .. n + 1 |-> IF i <= n THEN v[i] ELSE 10 * v[n] + d[n + 1]]
  <2>2. d[n + 1] \in Nat /\ v[n] \in Nat
    BY <1>0, <1>2
  <2>3. w \in [0 .. n + 1 -> Nat]
    BY <2>2
  <2>4. w[0] = 0
    BY <2>1
  <2>5. ASSUME NEW i \in 1 .. n + 1 PROVE w[i] = 10 * w[i - 1] + d[i]
    <3>1. CASE i <= n
      <4>1. i \in 1 .. n /\ i \in 0 .. n + 1 /\ i - 1 \in 0 .. n + 1 /\ i - 1 <= n
        BY <3>1
      <4>2. w[i] = v[i] /\ w[i - 1] = v[i - 1]
        BY <3>1, <4>1
      <4>3. QED
        BY <2>1, <4>1, <4>2
    <3>2. CASE ~(i <= n)
      <4>1. i = n + 1 /\ i - 1 = n /\ n \in 0 .. n + 1 /\ n + 1 \in 0 .. n + 1
        BY <3>2
      <4>2. w[n + 1] = 10 * v[n] + d[n + 1]
        BY <4>1
      <4>3. w[n] = v[n]
        BY <4>1
      <4> HIDE DEF w
      <4>4. QED
        BY <4>1, <4>2, <4>3
    <3>3. QED
      BY <3>1, <3>2
  <2> HIDE DEF w
  <2>6. QED
    BY <2>3, <2>4, <2>5
<1>3. P(Len(d))
  <2> HIDE DEF P
  <2>1. S \in SUBSET Nat /\ 0 \in S /\ \A n \in S : n + 1 \in S
    BY <1>0, <1>1, <1>2
  <2> HIDE DEF S
  <2>2. Len(d) \in S
    BY <1>0, <2>1, SetInduction
  <2>3. QED
    BY <1>0, <2>2 DEF S
<1> DEFINE Obeys(v) == v = [n \in 0 .. Len(d) |-> IF n = 0 THEN 0 ELSE 10 * v[n - 1] + d[n]]
<1>4. \E v : Obeys(v)
  <2>1. PICK v \in [0 .. Len(d) -> Nat] : Spells(v, Len(d))
    BY <1>3
  <2>2. \A n \in 0 .. Len(d) : v[n] = IF n = 0 THEN 0 ELSE 10 * v[n - 1] + d[n]
    BY <2>1, <1>0
  <2>3. QED
    BY <2>2
<1>5. Values(d) = CHOOSE v : Obeys(v)
  BY DEF Values
<1>6. Obeys(Values(d))
  BY <1>4, <1>5
<1> DEFINE f == Values(d)
           T == {n \in Nat : n <= Len(d) => f[n] \in Nat}
<1> HIDE DEF f
<1>7. /\ f = [n \in 0 .. Len(d) |-> IF n = 0 THEN 0 ELSE 10 * f[n - 1] + d[n]]
      /\ f[0] = 0 /\ \A i \in 1 .. Len(d) : f[i] = 10 * f[i - 1] + d[i]
  <2>1. f = [n \in 0 .. Len(d) |-> IF n = 0 THEN 0 ELSE 10 * f[n - 1] + d[n]]
    BY <1>6 DEF f
  <2>2. \A n \in 0 .. Len(d) : f[n] = IF n = 0 THEN 0 ELSE 10 * f[n - 1] + d[n]
    BY <2>1
  <2>3. QED
    <3>1. 0 \in 0 .. Len(d)
      BY <1>0
    <3>2. ASSUME NEW i \in 1 .. Len(d) PROVE f[i] = 10 * f[i - 1] + d[i]
      <4>1. i \in 0 .. Len(d) /\ i # 0
        BY <1>0
      <4>2. QED
        BY <2>2, <4>1
    <3>3. f[0] = 0
      BY <2>2, <3>1
    <3>4. QED
      BY <2>1, <3>2, <3>3
<1>8. \A n \in 0 .. Len(d) : f[n] \in Nat
  <2>1. T \in SUBSET Nat /\ 0 \in T
    BY <1>7
  <2>2. ASSUME NEW n \in T PROVE n + 1 \in T
    <3>1. CASE n + 1 <= Len(d)
      <4>1. n + 1 \in 1 .. Len(d) /\ f[n] \in Nat /\ (n + 1) - 1 = n
        BY <1>0, <3>1
      <4>2. f[n + 1] = 10 * f[n] + d[n + 1] /\ d[n + 1] \in Nat
        BY <1>0, <1>7, <4>1
      <4>3. QED
        BY <4>1, <4>2
    <3>2. QED
      BY <3>1
  <2> HIDE DEF T
  <2>3. \A n \in Nat : n \in T
    BY <2>1, <2>2, SetInduction
  <2>4. QED
    BY <1>0, <2>3 DEF T
<1>9. f \in [0 .. Len(d) -> Nat]
  BY <1>7, <1>8
<1>10. QED
  BY <1>7, <1>9 DEF f

\* A revision is a sequence of decimal digits whose values are as ValuesAre says.
LEMMA RevisionDigits ==
  ASSUME NEW d \in Revisions10
  PROVE  /\ d \in Seq(0 .. 9) /\ Len(d) \in Nat /\ Len(d) >= 1 /\ DOMAIN d = 1 .. Len(d)
         /\ \A i \in 1 .. Len(d) : d[i] \in 0 .. 9
         /\ Len(d) > 1 => d[1] # 0
         /\ Values(d) \in [0 .. Len(d) -> Nat]
         /\ Values(d)[0] = 0
         /\ \A i \in 1 .. Len(d) : Values(d)[i] = 10 * Values(d)[i - 1] + d[i]
<1>1. d \in Seq(Digits) /\ d # <<>> /\ (Len(d) > 1 => d[1] # 0)
  BY BoundedSeqs, DigitsAreDecimal DEF Revisions10
<1>2. Len(d) \in Nat /\ Len(d) >= 1 /\ DOMAIN d = 1 .. Len(d)
  BY <1>1
<1>3. \A i \in 1 .. Len(d) : d[i] \in Digits
  BY <1>1, <1>2
<1>4. \A i \in 1 .. Len(d) : d[i] \in 0 .. 9
  BY <1>3, DigitsAreDecimal
<1>5. d \in Seq(0 .. 9) /\ d \in Seq(Nat)
  <2>1. d \in [1 .. Len(d) -> Digits]
    BY <1>1
  <2>2. d \in [1 .. Len(d) -> 0 .. 9] /\ d \in [1 .. Len(d) -> Nat]
    BY <1>4, <2>1
  <2>3. \A S : d \in [1 .. Len(d) -> S] => d \in Seq(S)
    <3> SUFFICES ASSUME NEW S, d \in [1 .. Len(d) -> S] PROVE d \in Seq(S)
      OBVIOUS
    <3>1. d \in UNION {[1 .. n -> S] : n \in Nat}
      BY <1>2
    <3>2. QED
      BY <3>1, SeqDef, Zenon
  <2>4. QED
    BY <2>2, <2>3
<1>6. QED
  BY <1>1, <1>2, <1>4, <1>5, ValuesAre

\* Of two revisions the longer spells the greater number.
LEMMA LongerIsMore ==
  ASSUME NEW a \in Revisions10, NEW b \in Revisions10, Len(a) > Len(b)
  PROVE  Number(a) > Number(b)
<1> DEFINE va == Values(a)
           vb == Values(b)
           k == Len(a) - Len(b)
           S == {n \in Nat : n + 1 <= Len(a) => va[n + 1] >= 1}
           T == {n \in Nat : n <= Len(b) => va[k + n] > vb[n]}
<1> HIDE DEF va, vb
<1>1. /\ Len(a) \in Nat /\ Len(b) \in Nat /\ Len(b) >= 1
      /\ k \in Nat /\ k >= 1 /\ Len(a) = k + Len(b) /\ Len(a) > 1
  BY RevisionDigits
<1>2. /\ va \in [0 .. Len(a) -> Nat] /\ va[0] = 0
      /\ \A i \in 1 .. Len(a) : va[i] = 10 * va[i - 1] + a[i] /\ a[i] \in 0 .. 9
      /\ a[1] # 0
  BY <1>1, RevisionDigits DEF va
<1>3. /\ vb \in [0 .. Len(b) -> Nat] /\ vb[0] = 0
      /\ \A i \in 1 .. Len(b) : vb[i] = 10 * vb[i - 1] + b[i] /\ b[i] \in 0 .. 9
  BY RevisionDigits DEF vb
<1>4. \A n \in Nat : n \in S
  <2>1. 0 \in S
    <3>1. 1 \in 1 .. Len(a) /\ 1 - 1 = 0
      BY <1>1
    <3>2. va[1] = 10 * va[0] + a[1] /\ a[1] \in 0 .. 9
      BY <1>2, <3>1
    <3>3. QED
      BY <1>2, <3>2
  <2>2. ASSUME NEW n \in S PROVE n + 1 \in S
    <3> SUFFICES ASSUME (n + 1) + 1 <= Len(a) PROVE va[(n + 1) + 1] >= 1
      OBVIOUS
    <3>1. (n + 1) + 1 \in 1 .. Len(a) /\ ((n + 1) + 1) - 1 = n + 1 /\ n + 1 <= Len(a)
      BY <1>1
    <3>2. va[n + 1] >= 1 /\ va[n + 1] \in Nat
      BY <1>2, <3>1
    <3>3. va[(n + 1) + 1] = 10 * va[n + 1] + a[(n + 1) + 1] /\ a[(n + 1) + 1] \in 0 .. 9
      BY <1>2, <3>1
    <3>4. \A x \in Nat, p \in 0 .. 9 : x >= 1 => 10 * x + p >= 1
      OBVIOUS
    <3>5. QED
      BY <3>2, <3>3, <3>4
  <2>3. S \in SUBSET Nat
    OBVIOUS
  <2> HIDE DEF S
  <2>4. QED
    BY <2>1, <2>2, <2>3, SetInduction
<1>5. \A n \in Nat : n \in T
  <2>1. 0 \in T
    <3>1. k - 1 \in Nat /\ (k - 1) + 1 = k /\ k <= Len(a) /\ k + 0 = k
      BY <1>1
    <3>2. va[k] >= 1
      BY <1>4, <3>1
    <3>3. va[k] \in Nat
      <4>1. k \in 0 .. Len(a)
        BY <1>1
      <4>2. QED
        BY <1>2, <4>1
    <3>4. va[k + 0] > vb[0]
      BY <1>3, <3>1, <3>2, <3>3
    <3> HIDE DEF k
    <3>5. QED
      BY <3>4
  <2>2. ASSUME NEW n \in T PROVE n + 1 \in T
    <3> SUFFICES ASSUME n + 1 <= Len(b) PROVE va[k + (n + 1)] > vb[n + 1]
      OBVIOUS
    <3> HIDE DEF k
    <3>1. /\ k + (n + 1) \in 1 .. Len(a) /\ (k + (n + 1)) - 1 = k + n
          /\ n + 1 \in 1 .. Len(b) /\ (n + 1) - 1 = n
          /\ n <= Len(b) /\ k + n \in 0 .. Len(a) /\ n \in 0 .. Len(b)
      BY <1>1
    <3>2. va[k + n] > vb[n] /\ va[k + n] \in Nat /\ vb[n] \in Nat
      BY <1>2, <1>3, <3>1
    <3>3. va[k + (n + 1)] = 10 * va[k + n] + a[k + (n + 1)] /\ a[k + (n + 1)] \in 0 .. 9
      BY <1>2, <3>1
    <3>4. vb[n + 1] = 10 * vb[n] + b[n + 1] /\ b[n + 1] \in 0 .. 9
      BY <1>3, <3>1
    <3>5. QED
      BY <3>2, <3>3, <3>4, DigitMore
  <2>3. T \in SUBSET Nat
    OBVIOUS
  <2> HIDE DEF T
  <2>4. QED
    BY <2>1, <2>2, <2>3, SetInduction
<1>6. va[Len(a)] > vb[Len(b)]
  BY <1>1, <1>5
<1>7. QED
  BY <1>6 DEF va, vb, Number

\* Of two revisions of one length the later in the dictionary spells the greater.
LEMMA DictionaryIsMore ==
  ASSUME NEW a \in Revisions10, NEW b \in Revisions10, Len(a) = Len(b),
         NEW i \in 1 .. Len(a), a[i] > b[i], \A j \in 1 .. i - 1 : a[j] = b[j]
  PROVE  Number(a) > Number(b)
<1> DEFINE va == Values(a)
           vb == Values(b)
           S == {n \in Nat : n < i => va[n] = vb[n]}
           T == {n \in Nat : i + n <= Len(a) => va[i + n] > vb[i + n]}
<1> HIDE DEF va, vb
<1>1. Len(a) \in Nat /\ Len(b) \in Nat /\ i \in Nat /\ i >= 1 /\ i <= Len(a)
  BY RevisionDigits
<1>2. /\ va \in [0 .. Len(a) -> Nat] /\ va[0] = 0
      /\ \A j \in 1 .. Len(a) : va[j] = 10 * va[j - 1] + a[j] /\ a[j] \in 0 .. 9
  BY RevisionDigits DEF va
<1>3. /\ vb \in [0 .. Len(a) -> Nat] /\ vb[0] = 0
      /\ \A j \in 1 .. Len(a) : vb[j] = 10 * vb[j - 1] + b[j] /\ b[j] \in 0 .. 9
  BY RevisionDigits DEF vb
<1>4. \A n \in Nat : n \in S
  <2>1. 0 \in S
    BY <1>2, <1>3
  <2>2. ASSUME NEW n \in S PROVE n + 1 \in S
    <3> SUFFICES ASSUME n + 1 < i PROVE va[n + 1] = vb[n + 1]
      OBVIOUS
    <3>1. n + 1 \in 1 .. Len(a) /\ (n + 1) - 1 = n /\ n + 1 \in 1 .. i - 1 /\ n < i
      BY <1>1
    <3>2. va[n + 1] = 10 * va[n] + a[n + 1]
      BY <1>2, <3>1
    <3>3. vb[n + 1] = 10 * vb[n] + b[n + 1]
      BY <1>3, <3>1
    <3>4. va[n] = vb[n] /\ a[n + 1] = b[n + 1]
      BY <3>1
    <3>5. QED
      BY <3>2, <3>3, <3>4
  <2>3. S \in SUBSET Nat
    OBVIOUS
  <2> HIDE DEF S
  <2>4. QED
    BY <2>1, <2>2, <2>3, SetInduction
<1>5. \A n \in Nat : n \in T
  <2>1. 0 \in T
    <3>1. i - 1 \in Nat /\ i - 1 < i /\ i - 1 \in 0 .. Len(a) /\ i + 0 = i
      BY <1>1
    <3>2. va[i - 1] = vb[i - 1] /\ va[i - 1] \in Nat
      BY <1>2, <1>4, <3>1
    <3>3. /\ va[i] = 10 * va[i - 1] + a[i] /\ a[i] \in 0 .. 9
          /\ vb[i] = 10 * vb[i - 1] + b[i] /\ b[i] \in 0 .. 9
      BY <1>2, <1>3
    <3>4. va[i] > vb[i]
      <4>1. \A x \in Nat, p, q \in 0 .. 9 : p > q => 10 * x + p > 10 * x + q
        OBVIOUS
      <4>2. QED
        BY <3>2, <3>3, <4>1
    <3>5. QED
      BY <3>1, <3>4
  <2>2. ASSUME NEW n \in T PROVE n + 1 \in T
    <3> SUFFICES ASSUME i + (n + 1) <= Len(a) PROVE va[i + (n + 1)] > vb[i + (n + 1)]
      OBVIOUS
    <3>1. /\ i + (n + 1) \in 1 .. Len(a) /\ (i + (n + 1)) - 1 = i + n
          /\ i + n <= Len(a) /\ i + n \in 0 .. Len(a)
      BY <1>1
    <3>2. va[i + n] > vb[i + n] /\ va[i + n] \in Nat /\ vb[i + n] \in Nat
      BY <1>2, <1>3, <3>1
    <3>3. va[i + (n + 1)] = 10 * va[i + n] + a[i + (n + 1)] /\ a[i + (n + 1)] \in 0 .. 9
      BY <1>2, <3>1
    <3>4. vb[i + (n + 1)] = 10 * vb[i + n] + b[i + (n + 1)] /\ b[i + (n + 1)] \in 0 .. 9
      BY <1>3, <3>1
    <3>5. QED
      BY <3>2, <3>3, <3>4, DigitMore
  <2>3. T \in SUBSET Nat
    OBVIOUS
  <2> HIDE DEF T
  <2>4. QED
    BY <2>1, <2>2, <2>3, SetInduction
<1>6. va[Len(a)] > vb[Len(a)]
  <2>1. Len(a) - i \in Nat /\ i + (Len(a) - i) = Len(a)
    BY <1>1
  <2>2. QED
    BY <1>5, <2>1
<1>7. QED
  BY <1>6 DEF va, vb, Number

\* The later of two revisions spells the greater number.
LEMMA LaterIsMore ==
  ASSUME NEW a \in Revisions10, NEW b \in Revisions10, Later(a, b)
  PROVE  Number(a) > Number(b)
<1>1. DOMAIN a = 1 .. Len(a)
  BY RevisionDigits
<1>2. QED
  BY <1>1, LongerIsMore, DictionaryIsMore DEF Later

\* Of two revisions that are not the same one is later.
LEMMA SomeIsLater ==
  ASSUME NEW a \in Revisions10, NEW b \in Revisions10, a # b
  PROVE  Later(a, b) \/ Later(b, a)
<1>1. /\ a \in Seq(0 .. 9) /\ Len(a) \in Nat /\ DOMAIN a = 1 .. Len(a)
      /\ b \in Seq(0 .. 9) /\ Len(b) \in Nat /\ DOMAIN b = 1 .. Len(b)
      /\ \A i \in 1 .. Len(a) : a[i] \in 0 .. 9
      /\ \A i \in 1 .. Len(b) : b[i] \in 0 .. 9
  BY RevisionDigits
<1>2. CASE Len(a) # Len(b)
  <2>1. \A m, n \in Nat : m # n => m > n \/ n > m
    OBVIOUS
  <2>2. Len(a) > Len(b) \/ Len(b) > Len(a)
    BY <1>1, <1>2, <2>1
  <2>3. QED
    BY <2>2 DEF Later
<1>3. CASE Len(a) = Len(b)
  <2> DEFINE T == {i \in 1 .. Len(a) : a[i] # b[i]}
  <2>1. T # {}
    <3>1. (\A i \in 1 .. Len(a) : a[i] = b[i]) => a = b
      BY <1>1, <1>3
    <3>2. QED
      BY <3>1
  <2>2. T \in SUBSET Nat
    OBVIOUS
  <2>3. PICK i \in T : \A k \in T : i <= k
    BY <2>1, <2>2, Least
  <2>4. i \in 1 .. Len(a) /\ a[i] # b[i] /\ a[i] \in 0 .. 9 /\ b[i] \in 0 .. 9
    BY <1>1, <1>3
  <2>5. \A j \in 1 .. i - 1 : a[j] = b[j]
    BY <1>1, <2>3, <2>4
  <2>6. a[i] > b[i] \/ b[i] > a[i]
    BY <2>4
  <2>7. QED
    BY <1>1, <1>3, <2>4, <2>5, <2>6 DEF Later
<1>4. QED
  BY <1>2, <1>3

\* compareRuntimeRevision orders revisions, of any length, as the numbers they spell:
\* the longer is the greater because it does not begin with 0, and of two of one
\* length the first digit that differs decides.
THEOREM RevisionsOrdered == RevisionsAreNumbers
<1> SUFFICES ASSUME NEW a \in Revisions10, NEW b \in Revisions10
             PROVE  Later(a, b) <=> Number(a) > Number(b)
  BY DEF RevisionsAreNumbers
<1>1. Later(a, b) => Number(a) > Number(b)
  BY LaterIsMore
<1>2. Later(b, a) => Number(b) > Number(a)
  BY LaterIsMore
<1>3. Number(a) \in Nat /\ Number(b) \in Nat
  <2>1. \A d \in Revisions10 : Number(d) \in Nat
    <3> TAKE d \in Revisions10
    <3>1. Values(d) \in [0 .. Len(d) -> Nat] /\ Len(d) \in 0 .. Len(d)
      BY RevisionDigits
    <3>2. QED
      BY <3>1 DEF Number
  <2>2. QED
    BY <2>1
<1>4. ASSUME Number(a) > Number(b) PROVE Later(a, b)
  <2>1. a # b /\ ~(Number(b) > Number(a))
    BY <1>3, <1>4
  <2>2. QED
    BY <1>2, <2>1, SomeIsLater
<1>5. QED
  BY <1>1, <1>4

\* The pure functions of the browser package agree with their definitions, on
\* every pattern and every revision.
THEOREM FunctionsExact == Spec => []PatternsAndRevisionsAgree
<1>1. PatternsAndRevisionsAgree
  BY PatternsOverlap, RevisionsOrdered DEF PatternsAndRevisionsAgree
<1>2. QED
  BY <1>1, PTL
=============================================================================
