--------------------------- MODULE ComponentClient ---------------------------
(***************************************************************************)
(* connectComponent and the controller it makes: a browser's replica of a  *)
(* component the host owns.  Change events and the reply to the snapshot   *)
(* request come over different channels, in any order; the host may        *)
(* withdraw the component or go away, and the application may dispose of   *)
(* its handle or wait for a method, at any moment.  Between two awaits     *)
(* JavaScript runs to completion: such a stretch is one action.            *)
(*                                                                         *)
(* The host is modelled from its use here: revision n of the component is  *)
(* history[n], an event is delivered once and only to a subscriber.        *)
(* An event is garbled when its snapshot has the wrong shape, and          *)
(* misnumbered when its revision is no safe natural number.                *)
(* A definition whose name starts with Bug is a mistake the definition     *)
(* after it could have been; it is not part of the model.                  *)
(***************************************************************************)
EXTENDS Integers, SequencesExt

CONSTANTS
  Contents,     \* what a snapshot may hold
  Calls,        \* the calls of the handle's methods
  MaxRevision   \* bound: the host's last revision

ASSUME HostHasRevisions == MaxRevision \in Nat \ {0}

VARIABLES
  history,      \* the host's: the content of each revision
  wire,         \* events on their way
  reply,        \* the answer to the snapshot request
  withdrawn,    \* the host has withdrawn the component
  aborted,      \* host.signal
  pc,           \* where connectComponent is
  subscribed, closed, queued, revision, current,
  heard,        \* the snapshot the application's listener saw last
  latest,       \* the highest revision that has reached the client
  call          \* call[c]: how the method call stands

hostVars == <<history, reply, withdrawn, aborted>>
clientVars == <<pc, subscribed, closed, queued, revision, current, heard, latest>>
vars == <<hostVars, wire, clientVars, call>>

Revisions == 1 .. MaxRevision
Unread == -1   \* the revision before the reply
Events == [kind : {"changed", "garbled"}, rev : Revisions] \cup
          [kind : {"withdrawn", "misnumbered"}, rev : {0}]
NoReply == [kind |-> "none", rev |-> 0]

TypeOK ==
  /\ history \in BoundedSeq(Contents, MaxRevision)
  /\ wire \subseteq Events /\ queued \subseteq Events
  /\ reply \in [kind : {"none", "asked", "changed", "garbled"}, rev : Revisions \cup {0}]
  /\ {withdrawn, aborted, subscribed, closed} \subseteq BOOLEAN
  /\ pc \in {"idle", "waiting", "connected", "threw"}
  /\ revision \in Revisions \cup {Unread} /\ latest \in Revisions \cup {0}
  /\ {current, heard} \subseteq Contents \cup {"none"}
  /\ call \in [Calls -> {"none", "asked", "given", "refused"}]
  /\ queued # {} => pc = "waiting"
  /\ pc \in {"idle", "threw"} => ~subscribed

Init ==
  /\ history \in [{1} -> Contents]
  /\ wire = {} /\ reply = NoReply
  /\ withdrawn = FALSE /\ aborted = FALSE
  /\ pc = "idle"
  /\ subscribed = FALSE /\ closed = FALSE
  /\ queued = {} /\ revision = Unread /\ current = "none"
  /\ heard = "none" /\ latest = 0
  /\ call = [c \in Calls |-> "none"]

Live == pc = "connected" /\ ~closed

-----------------------------------------------------------------------------
(* The host.                                                               *)

Send(e) == wire' = IF subscribed THEN wire \cup {e} ELSE wire

Change ==  \* a garbled event is one the host got wrong
  /\ Len(history) < MaxRevision /\ ~withdrawn
  /\ \E content \in Contents : history' = Append(history, content)
  /\ \E kind \in {"changed", "garbled"} : Send([kind |-> kind, rev |-> Len(history')])
  /\ UNCHANGED <<reply, withdrawn, aborted, clientVars, call>>

Misnumber ==
  /\ subscribed
  /\ Send([kind |-> "misnumbered", rev |-> 0])
  /\ UNCHANGED <<hostVars, clientVars, call>>

Withdraw ==
  /\ ~withdrawn
  /\ withdrawn' = TRUE
  /\ Send([kind |-> "withdrawn", rev |-> 0])
  /\ UNCHANGED <<history, reply, aborted, clientVars, call>>

\* garbled: a refusal, which a withdrawn component gets, another identity, no
\* capabilities, or a malformed snapshot.
Reply ==
  /\ reply.kind = "asked"
  /\ \E kind \in IF withdrawn THEN {"garbled"} ELSE {"changed", "garbled"} :
       reply' = [kind |-> kind, rev |-> Len(history)]
  /\ UNCHANGED <<history, withdrawn, aborted, wire, clientVars, call>>

-----------------------------------------------------------------------------
(* connectComponent.                                                       *)

\* dispose: of the connection and, with it, of its controller.
Dispose == closed' = TRUE /\ subscribed' = FALSE

BugThrow ==  \* a connect that fails leaves its subscription behind
  pc' = "threw" /\ queued' = {} /\ UNCHANGED <<closed, subscribed>>

Throw == pc' = "threw" /\ Dispose /\ queued' = {}

Connect ==
  /\ pc = "idle"
  /\ IF aborted
     THEN pc' = "threw" /\ UNCHANGED <<subscribed, reply>>
     ELSE pc' = "waiting" /\ subscribed' = TRUE /\ reply' = [NoReply EXCEPT !.kind = "asked"]
  /\ UNCHANGED <<history, withdrawn, aborted, wire, closed, queued, revision, current,
                 heard, latest, call>>

\* The snapshot becomes the current one, and a listener hears of it if it differs.
Update(rev) ==
  /\ revision' = rev
  /\ current' = history[rev]
  /\ heard' = history[rev]

BugApply(e) ==  \* in the order of arrival
  CASE e.kind = "changed" -> Update(e.rev) /\ UNCHANGED <<subscribed, closed>>
    [] OTHER -> Dispose /\ UNCHANGED <<revision, current, heard>>

Bad(e) == e.kind \in {"withdrawn", "misnumbered"}

Apply(e) ==
  CASE ~Bad(e) /\ e.rev <= revision -> UNCHANGED <<revision, current, heard, subscribed, closed>>
    [] e.kind = "changed" /\ e.rev > revision ->
         \* the application's listener may dispose of the handle, or throw
         Update(e.rev) /\ (Dispose \/ UNCHANGED <<subscribed, closed>>)
    [] OTHER -> Dispose /\ UNCHANGED <<revision, current, heard>>

OnEvent(e) ==
  /\ e \in wire
  /\ wire' = wire \ {e}
  /\ latest' = IF closed \/ e.rev <= latest THEN latest ELSE e.rev
  /\ CASE closed -> UNCHANGED <<revision, current, heard, subscribed, closed, queued>>
       [] ~closed /\ pc = "waiting" ->
            queued' = queued \cup {e} /\ UNCHANGED <<revision, current, heard, subscribed, closed>>
       [] OTHER -> Apply(e) /\ UNCHANGED queued
  /\ UNCHANGED <<hostVars, pc, call>>

BugRefuses ==  \* a withdrawal that came before the reply is sorted away
  \/ reply.kind = "garbled"
  \/ closed
  \/ aborted
  \/ \E e \in queued : e.kind = "garbled" /\ e.rev > reply.rev

\* What the queue and the reply come to, once sorted by revision.
Refuses ==
  \/ reply.kind = "garbled"
  \/ closed
  \/ aborted
  \/ \E e \in queued : Bad(e) \/ (e.kind = "garbled" /\ e.rev > reply.rev)

Continue ==
  /\ pc = "waiting"
  /\ reply.kind \in {"changed", "garbled"}
  /\ IF Refuses
     THEN Throw /\ UNCHANGED <<revision, current, heard, latest>>
     ELSE /\ pc' = "connected" /\ queued' = {}
          /\ Update(Max({reply.rev} \cup {e.rev : e \in queued}))
          /\ latest' = Max({reply.rev, latest})
          /\ UNCHANGED <<subscribed, closed>>
  /\ UNCHANGED <<hostVars, wire, call>>

Abort ==  \* both abort listeners run inside host.signal's abort
  /\ ~aborted
  /\ aborted' = TRUE
  /\ IF subscribed THEN Dispose ELSE UNCHANGED <<subscribed, closed>>
  /\ UNCHANGED <<history, reply, withdrawn, wire, pc, queued, revision, current, heard,
                 latest, call>>

HandleDispose ==
  /\ Live
  /\ Dispose
  /\ UNCHANGED <<hostVars, wire, pc, queued, revision, current, heard, latest, call>>

-----------------------------------------------------------------------------
(* A method of the handle: components.invoke.v1, awaited.                  *)

Answered(c, how) == call' = [call EXCEPT ![c] = how]

Invoke(c) ==
  /\ pc = "connected" /\ call[c] = "none"
  /\ Answered(c, IF closed THEN "refused" ELSE "asked")
  /\ UNCHANGED <<hostVars, wire, clientVars>>

BugMethodReturns(c) ==
  /\ call[c] = "asked"
  /\ Answered(c, "given") \/ Answered(c, "refused")
  /\ UNCHANGED <<hostVars, wire, clientVars>>

MethodReturns(c) ==
  /\ call[c] = "asked"
  /\ \/ ~closed /\ Answered(c, "given")
     \/ Answered(c, "refused")
  /\ UNCHANGED <<hostVars, wire, clientVars>>

Next ==
  \/ Change \/ Misnumber \/ Withdraw \/ Reply \/ Connect \/ Continue \/ Abort \/ HandleDispose
  \/ \E e \in Events : OnEvent(e)
  \/ \E c \in Calls : Invoke(c) \/ MethodReturns(c)

\* The host answers and delivers, and the browser's event loop goes on.
Fairness == WF_vars(Reply) /\ WF_vars(Continue) /\ \A e \in Events : WF_vars(OnEvent(e))

Spec == Init /\ [][Next]_vars /\ Fairness
-----------------------------------------------------------------------------
\* A live replica is the host's component at one revision, the newest that has
\* reached the client by either channel, and its listener has seen it; and no
\* revision is missed, for subscribing comes before reading: with no event on its
\* way it is the host's newest.
ReplicaIsTrue ==
  Live => /\ current = history[revision] /\ revision = latest /\ heard = current
          /\ wire = {} => revision = Len(history)

\* Once a handle is disposed of, by the application, the host's withdrawal, its
\* abort or a bad event, its snapshot stands still, no listener hears anything and
\* no method of it gives a result, also one the host has carried out.
NothingAfterDispose ==
  [][closed => /\ UNCHANGED <<current, heard, subscribed>>
               /\ closed' /\ \A c \in Calls : call'[c] = "given" => call[c] = "given"]_vars

\* A connect that found the host gone has no controller to dispose of.
Status == IF closed \/ pc = "threw" THEN "gone" ELSE IF pc = "connected" THEN "live" ELSE "absent"
Rev    == IF revision = Unread THEN 0 ELSE revision
Given  == {c \in Calls : call[c] = "given"}

Replica == INSTANCE ReplicaContract WITH
  status <- Status, rev <- Rev, shown <- current, given <- Given

\* Seen by the application, with early events and the queue left out, this is a
\* replica that only moves forward, and once it is disposed of, by the application,
\* the host's withdrawal, its abort or a bad event, stands still, tells no listener
\* and gives no result of a method, also of one the host has carried out.
ImplementsReplica == Replica!Spec

\* connectComponent returns or throws, and a replica that is left alone comes to
\* the host's last revision; one that was withdrawn is disposed of.
ComesToRest ==
  <>[](\/ pc \in {"idle", "threw"}
       \/ closed
       \/ Live /\ ~withdrawn /\ current = Last(history))
==============================================================================
