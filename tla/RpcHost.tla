------------------------------ MODULE RpcHost ------------------------------
(***************************************************************************)
(* The v1 rpcHost: the callback stream (Start, readCallbacks, Close) and   *)
(* the registrations whose callbacks come down it (Subscribe and Every,    *)
(* which differ only in their map, and the function each returns).  A line *)
(* of the stream names a kind and an id; the reader looks the id up in     *)
(* both maps and then takes the one of its kind, which the host may have   *)
(* got wrong, or not have said in a way the reader knows.                  *)
(*                                                                         *)
(* Goroutines: the callers of Start, one reader for each stream opened,    *)
(* the callers of Subscribe and Every, a Close at any time.  h.mu makes    *)
(* each look into the maps one step; a handler runs outside it.  The host  *)
(* and the wire are modelled from their use here: a post may be handled    *)
(* late, and its answer may be lost.                                       *)
(* A definition whose name starts with Bug is a mistake the definition     *)
(* after it could have been; it is not part of the model.                  *)
(***************************************************************************)
EXTENDS Naturals, Sequences, FiniteSets

CONSTANTS
  Starts,              \* the calls of Start; the stream a call opens has its name
  NoStart,
  Ids,                 \* the ids newID mints
  KindOf,              \* the map an id goes into: "event" for h.subs, "tick" for h.ticks
  Writes,              \* bound: callbacks the host writes
  QueueBound           \* bound: those on one stream not yet read

ASSUME BoundTypes == {Writes, QueueBound} \subseteq Nat
ASSUME NoStartIsNone == NoStart \notin Starts
ASSUME KindOfType == KindOf \in [Ids -> {"event", "tick"}]

VARIABLES
  startMu,    \* the call of Start that holds h.startMu
  start,      \* start[g]: "idle", "waiting", "opened", "ok" or "failed"
  started,    \* h.started
  stop,       \* the stream that h.stop cancels
  ctxDone,    \* the calls whose context is done: the caller's, or the stream's made from it
  dropped,    \* those whose connection is closed, by the host or by its reader
  ready,      \* ready[n]: what is in the channel: "none", "ok" or "err"
  reader,     \* reader[n]: "none", "connecting", "reading", "looked", "running" or "ended"
  hand,       \* hand[n]: the callback the reader has, and whether its id is in a map
  queue,      \* queue[n]: the ids of the lines written to the stream, not yet read
  handlers,   \* the ids in h.subs and h.ticks
  reg,        \* reg[i]: "idle", "stored", "live", "failed", "removing" or "removed"
  host,       \* host[i]: "none", "asked", "on" or "off"
  lastFault,  \* h.lastFault # nil
  written,    \* history: lines the host has written
  received, unmatched,  \* the counters of those names
  ran, ignored,  \* history: callbacks run, and those of a kind the reader does not know
  missed,     \* history: ids whose callback found no handler though they were registered
  late        \* history: late[n][i]: runs reader n begun since i was deleted, up to 2

startVars  == <<startMu, start, started, stop, ctxDone>>
streamVars == <<dropped, ready, reader, hand, queue>>
regVars    == <<handlers, reg, host, lastFault>>
countVars  == <<written, received, ran, unmatched, ignored, missed, late>>
vars == <<startVars, streamVars, regVars, countVars>>

Kinds    == {"event", "tick", "other"}  \* the two the reader knows, and any other
Callback == [kind : Kinds, id : Ids, known : BOOLEAN]
NoCallback == [kind |-> "none", id |-> "none", known |-> FALSE]

TypeOK ==
  /\ startMu \in Starts \cup {NoStart}
  /\ start \in [Starts -> {"idle", "waiting", "opened", "ok", "failed"}]
  /\ started \in BOOLEAN
  /\ stop \in Starts \cup {NoStart}
  /\ ctxDone \subseteq Starts
  /\ dropped \subseteq Starts
  /\ ready \in [Starts -> {"none", "ok", "err"}]
  /\ reader \in [Starts -> {"none", "connecting", "reading", "looked", "running", "ended"}]
  /\ hand \in [Starts -> Callback \cup {NoCallback}]
  /\ queue \in [Starts -> Seq(Ids)]
  /\ handlers \subseteq Ids
  /\ reg \in [Ids -> {"idle", "stored", "live", "failed", "removing", "removed"}]
  /\ host \in [Ids -> {"none", "asked", "on", "off"}]
  /\ lastFault \in BOOLEAN
  /\ {written, received, ran, unmatched, ignored} \subseteq 0 .. Writes
  /\ missed \subseteq Ids
  /\ late \in [Starts -> [Ids -> 0 .. 2]]

Init ==
  /\ startMu = NoStart
  /\ start = [g \in Starts |-> "idle"]
  /\ started = FALSE
  /\ stop = NoStart
  /\ ctxDone = {}
  /\ dropped = {}
  /\ ready = [n \in Starts |-> "none"]
  /\ reader = [n \in Starts |-> "none"]
  /\ hand = [n \in Starts |-> NoCallback]
  /\ queue = [n \in Starts |-> <<>>]
  /\ handlers = {}
  /\ reg = [i \in Ids |-> "idle"]
  /\ host = [i \in Ids |-> "none"]
  /\ lastFault = FALSE
  /\ written = 0 /\ received = 0 /\ ran = 0 /\ unmatched = 0 /\ ignored = 0
  /\ missed = {}
  /\ late = [n \in Starts |-> [i \in Ids |-> 0]]

-----------------------------------------------------------------------------
(* Start and Close.                                                        *)

\* Start returns at once: its context is done, or the host is started.
StartReturnsEarly(g) ==
  /\ start[g] = "idle"
  /\ startMu = NoStart
  /\ g \in ctxDone \/ started
  /\ start' = [start EXCEPT ![g] = IF g \in ctxDone THEN "failed" ELSE "ok"]
  /\ UNCHANGED <<startMu, started, stop, ctxDone, streamVars, regVars, countVars>>

StartOpens(g) ==
  /\ start[g] = "idle"
  /\ startMu = NoStart
  /\ g \notin ctxDone /\ ~started
  /\ start' = [start EXCEPT ![g] = "waiting"]
  /\ startMu' = g
  /\ stop' = g
  /\ reader' = [reader EXCEPT ![g] = "connecting"]
  /\ UNCHANGED <<started, ctxDone, dropped, ready, hand, queue, regVars, countVars>>

StartSees(g) ==
  /\ start[g] = "waiting"
  /\ ready[g] = "ok"
  /\ start' = [start EXCEPT ![g] = "opened"]
  /\ UNCHANGED <<startMu, started, stop, ctxDone, streamVars, regVars, countVars>>

\* The stream did not open, the context ended, or the timer fired: at any time.
StartFails(g) ==
  /\ start[g] = "waiting"
  /\ start' = [start EXCEPT ![g] = "failed"]
  /\ startMu' = NoStart
  /\ ctxDone' = ctxDone \cup {g}
  /\ UNCHANGED <<started, stop, streamVars, regVars, countVars>>

BugCommitUnchecked(g) ==
  /\ start[g] = "opened"
  /\ start' = [start EXCEPT ![g] = "ok"]
  /\ started' = TRUE
  /\ startMu' = NoStart
  /\ UNCHANGED <<stop, ctxDone, streamVars, regVars, countVars>>

StartCommits(g) ==
  /\ start[g] = "opened"
  /\ IF g \in ctxDone
     THEN start' = [start EXCEPT ![g] = "failed"] /\ UNCHANGED started
     ELSE start' = [start EXCEPT ![g] = "ok"] /\ started' = TRUE
  /\ startMu' = NoStart
  /\ UNCHANGED <<stop, ctxDone, streamVars, regVars, countVars>>

Close ==
  /\ stop' = NoStart
  /\ started' = FALSE
  /\ ctxDone' = ctxDone \cup ({stop} \cap Starts)
  /\ UNCHANGED <<startMu, start, streamVars, regVars, countVars>>

CtxEnds(g) ==
  /\ ctxDone' = ctxDone \cup {g}
  /\ UNCHANGED <<startMu, start, started, stop, streamVars, regVars, countVars>>

-----------------------------------------------------------------------------
(* readCallbacks.                                                          *)

BugReadyUnbuffered(n, r) ==
  /\ reader[n] = "connecting"
  /\ start[n] = "waiting"
  /\ ready' = [ready EXCEPT ![n] = r]
  /\ reader' = [reader EXCEPT ![n] = IF r = "ok" THEN "reading" ELSE "ended"]
  /\ UNCHANGED <<startVars, dropped, hand, queue, regVars, countVars>>

ReaderConnects(n, r) ==
  /\ reader[n] = "connecting"
  /\ ready' = [ready EXCEPT ![n] = r]
  /\ reader' = [reader EXCEPT ![n] = IF r = "ok" THEN "reading" ELSE "ended"]
  /\ UNCHANGED <<startVars, dropped, hand, queue, regVars, countVars>>

\* A callback is read, of whatever kind the host wrote, counted, and its id looked up
\* in both maps.
ReaderLooks(n, k) ==
  /\ reader[n] = "reading"
  /\ queue[n] # <<>>
  /\ LET i == Head(queue[n]) IN
       /\ hand' = [hand EXCEPT ![n] = [kind |-> k, id |-> i, known |-> i \in handlers]]
       /\ missed' = IF i \notin handlers /\ k = KindOf[i] /\ reg[i] \in {"stored", "live"}
                    THEN missed \cup {i} ELSE missed
  /\ queue' = [queue EXCEPT ![n] = Tail(@)]
  /\ reader' = [reader EXCEPT ![n] = "looked"]
  /\ received' = received + 1
  /\ UNCHANGED <<startVars, dropped, ready, regVars, written, ran, unmatched, ignored, late>>

\* The line is no callback: it is skipped, and not counted.
ReaderSkips(n) ==
  /\ reader[n] = "reading"
  /\ queue[n] # <<>>
  /\ queue' = [queue EXCEPT ![n] = Tail(@)]
  /\ UNCHANGED <<startVars, dropped, ready, reader, hand, regVars, countVars>>

\* The handler is the one its id has in the map of the kind the host said.
HasHandler(c) == c.known /\ c.kind = KindOf[c.id]

ReaderRuns(n) ==
  /\ reader[n] = "looked"
  /\ HasHandler(hand[n])
  /\ reader' = [reader EXCEPT ![n] = "running"]
  /\ ran' = ran + 1
  /\ LET i == hand[n].id IN
       late' = IF reg[i] \in {"failed", "removing", "removed"} /\ late[n][i] < 2
               THEN [late EXCEPT ![n][i] = @ + 1] ELSE late
  /\ UNCHANGED <<startVars, dropped, ready, hand, queue, regVars, written, received, unmatched,
                 ignored, missed>>

ReaderDiscards(n) ==
  /\ reader[n] = "looked"
  /\ hand[n].kind # "other" /\ ~HasHandler(hand[n])
  /\ reader' = [reader EXCEPT ![n] = "reading"]
  /\ hand' = [hand EXCEPT ![n] = NoCallback]
  /\ unmatched' = unmatched + 1
  /\ UNCHANGED <<startVars, dropped, ready, queue, regVars, written, received, ran, ignored,
                 missed, late>>

ReaderIgnores(n) ==  \* the switch has no default
  /\ reader[n] = "looked"
  /\ hand[n].kind = "other"
  /\ reader' = [reader EXCEPT ![n] = "reading"]
  /\ hand' = [hand EXCEPT ![n] = NoCallback]
  /\ ignored' = ignored + 1
  /\ UNCHANGED <<startVars, dropped, ready, queue, regVars, written, received, ran, unmatched,
                 missed, late>>

BugCountAgainOnReturn(n) ==
  /\ reader[n] = "running"
  /\ reader' = [reader EXCEPT ![n] = "reading"]
  /\ hand' = [hand EXCEPT ![n] = NoCallback]
  /\ ran' = ran + 1
  /\ UNCHANGED <<startVars, dropped, ready, queue, regVars, written, received, unmatched,
                 ignored, missed, late>>

HandlerReturns(n) ==
  /\ reader[n] = "running"
  /\ reader' = [reader EXCEPT ![n] = "reading"]
  /\ hand' = [hand EXCEPT ![n] = NoCallback]
  /\ UNCHANGED <<startVars, dropped, ready, queue, regVars, countVars>>

\* A cancelled read may leave lines unread; a closed connection ends after them, and
\* any line may be the one that does not fit the Scanner's buffer.
ReaderEnds(n) ==
  /\ reader[n] = "reading"
  /\ \/ n \in ctxDone
     \/ n \in dropped /\ queue[n] = <<>>
     \/ queue[n] # <<>>
  /\ reader' = [reader EXCEPT ![n] = "ended"]
  /\ dropped' = dropped \cup {n}
  /\ queue' = [queue EXCEPT ![n] = <<>>]
  /\ UNCHANGED <<startVars, ready, hand, regVars, countVars>>

ReaderReads(n) ==
  \/ \E k \in Kinds : ReaderLooks(n, k)
  \/ ReaderSkips(n) \/ ReaderRuns(n) \/ ReaderDiscards(n) \/ ReaderIgnores(n)
  \/ HandlerReturns(n) \/ ReaderEnds(n)

-----------------------------------------------------------------------------
(* Subscribe, Every and what they return.                                  *)

BugPostFirst(i) ==
  /\ reg[i] = "idle"
  /\ reg' = [reg EXCEPT ![i] = "stored"]
  /\ host' = [host EXCEPT ![i] = "asked"]
  /\ UNCHANGED <<startVars, streamVars, handlers, lastFault, countVars>>

Register(i) ==
  /\ reg[i] = "idle"
  /\ handlers' = handlers \cup {i}
  /\ reg' = [reg EXCEPT ![i] = "stored"]
  /\ host' = [host EXCEPT ![i] = "asked"]
  /\ UNCHANGED <<startVars, streamVars, lastFault, countVars>>

Registered(i) ==
  /\ reg[i] = "stored"
  /\ host[i] = "on"
  /\ reg' = [reg EXCEPT ![i] = "live"]
  /\ UNCHANGED <<startVars, streamVars, handlers, host, lastFault, countVars>>

\* The host refused, or five seconds passed without its answer.
RegisterFails(i) ==
  /\ reg[i] = "stored"
  /\ handlers' = handlers \ {i}
  /\ reg' = [reg EXCEPT ![i] = "failed"]
  /\ lastFault' = TRUE
  /\ UNCHANGED <<startVars, streamVars, host, countVars>>

BugUnsubscribeOnlyPosts(i) ==
  /\ reg[i] = "live"
  /\ reg' = [reg EXCEPT ![i] = "removing"]
  /\ UNCHANGED <<startVars, streamVars, handlers, host, lastFault, countVars>>

Unsubscribe(i) ==
  /\ reg[i] = "live"
  /\ handlers' = handlers \ {i}
  /\ reg' = [reg EXCEPT ![i] = "removing"]
  /\ UNCHANGED <<startVars, streamVars, host, lastFault, countVars>>

\* The post to /cancel; its failure is ignored.
Unsubscribed(i) ==
  /\ reg[i] = "removing"
  /\ reg' = [reg EXCEPT ![i] = "removed"]
  /\ host' \in {host, [host EXCEPT ![i] = "off"]}
  /\ UNCHANGED <<startVars, streamVars, handlers, lastFault, countVars>>

-----------------------------------------------------------------------------
(* The host.                                                               *)

HostAnswers(i) ==
  /\ host[i] = "asked"
  /\ \E to \in {"on", "off"} : host' = [host EXCEPT ![i] = to]
  /\ UNCHANGED <<startVars, streamVars, handlers, reg, lastFault, countVars>>

HostWrites(n, i) ==
  /\ reader[n] \in {"reading", "looked", "running"}
  /\ n \notin dropped
  /\ host[i] = "on"
  /\ written < Writes
  /\ Len(queue[n]) < QueueBound
  /\ queue' = [queue EXCEPT ![n] = Append(@, i)]
  /\ written' = written + 1
  /\ UNCHANGED <<startVars, dropped, ready, reader, hand, regVars, received, ran, unmatched,
                 ignored, missed, late>>

\* Whether the host still writes for the registrations it had is left open.
HostDrops(n) ==
  /\ reader[n] \in {"reading", "looked", "running"} /\ n \notin dropped
  /\ dropped' = dropped \cup {n}
  /\ UNCHANGED <<startVars, ready, reader, hand, queue, regVars, countVars>>

-----------------------------------------------------------------------------
Next ==
  \/ \E g \in Starts :
       \/ StartReturnsEarly(g) \/ StartOpens(g) \/ StartSees(g)
       \/ StartFails(g) \/ StartCommits(g) \/ CtxEnds(g)
  \/ Close
  \/ \E n \in Starts :
       \/ \E r \in {"ok", "err"} : ReaderConnects(n, r)
       \/ ReaderReads(n) \/ HostDrops(n)
       \/ \E i \in Ids : HostWrites(n, i)
  \/ \E i \in Ids :
       \/ Register(i) \/ Registered(i) \/ RegisterFails(i)
       \/ Unsubscribe(i) \/ Unsubscribed(i) \/ HostAnswers(i)

(* A Start that waits has a timer and goes on when it is over, a cancelled *)
(* request to /callbacks returns, and the reader's goroutine runs, with    *)
(* handlers that return.                                                   *)
Fairness ==
  /\ \A g \in Starts : WF_vars(StartFails(g) \/ StartCommits(g))
  /\ \A n \in Starts :
       WF_vars((n \in ctxDone /\ ReaderConnects(n, "err")) \/ ReaderReads(n))

Spec == Init /\ [][Next]_vars
FairSpec == Spec /\ Fairness

-----------------------------------------------------------------------------
\* "Registering first closes it": no callback of the kind its id was registered for
\* finds it unknown before Subscribe or Every has given up on it or its holder has
\* ended it.  And received is what was run, what was counted as unmatched, what a
\* reader has in hand, and what was of a kind the reader does not know: received
\* less unmatched is no count of the handlers run, but an upper bound of it.
CallbacksAccounted ==
  /\ missed = {}
  /\ received = ran + unmatched + ignored + Cardinality({n \in Starts : reader[n] = "looked"})

\* However Start and Close race, at most one stream is open for callbacks, it is
\* the one Close would end, and a started host has not lost it to a Close.
OneLiveStream ==
  /\ \A n \in Starts :
       reader[n] # "none" /\ n \notin ctxDone => n = stop
  /\ started => stop # NoStart

\* After its registration has failed or was deleted, a handler is run at most once
\* by the reader of each stream: with the callback it had looked up before.
LateHandlerBounded == \A n \in Starts, i \in Ids : late[n][i] <= 1

\* Start returns, whatever the host does with the request for the stream and
\* whoever else is in Start, and the reader of a stream whose context is done ends,
\* also when Start stopped waiting for it: of the finitely many calls none stays.
Waiting ==
  \/ \E g \in Starts : start[g] \in {"waiting", "opened"}
  \/ \E n \in Starts : reader[n] \notin {"none", "ended"} /\ n \in ctxDone
StartAndReaderEnd == Waiting ~> ~Waiting
=============================================================================
