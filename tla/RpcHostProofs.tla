--------------------------- MODULE RpcHostProofs ---------------------------
(***************************************************************************)
(* Proofs about RpcHost, for any calls of Start, ids and bounds: whose the *)
(* live stream is, what becomes of a callback between the wire and a       *)
(* handler, and what a deleted registration can still see.                 *)
(***************************************************************************)
EXTENDS RpcHost, FiniteSetTheorems, TLAPS

\* The registrations that have failed or were deleted.
Gone == {"failed", "removing", "removed"}

\* The readers with a callback in hand, and what was written and not yet read: the
\* place in its queue of every callback.
Looked  == {n \in Starts : reader[n] = "looked"}
Pending == {p \in Starts \X Nat : 1 <= p[2] /\ p[2] <= Len(queue[p[1]])}

\* The call that holds startMu is the one that opened a stream and waits for it,
\* and a stream that is neither started nor being started has a context that is done.
StartInStep ==
  /\ \A g \in Starts : start[g] \in {"waiting", "opened"} => startMu = g /\ reader[g] # "none"
  /\ \A g \in Starts : start[g] = "idle" => reader[g] = "none"
  /\ startMu # NoStart => stop \in {startMu, NoStart}
  /\ startMu = NoStart /\ stop # NoStart /\ stop \notin ctxDone => started

\* An id is in the maps exactly while its registration stands.
RegInStep ==
  /\ \A i \in Ids : reg[i] \in {"stored", "live"} => i \in handlers
  /\ \A i \in Ids : reg[i] \in Gone => i \notin handlers
  /\ missed = {}

\* A reader that found the id in a map has not yet run its handler since the
\* registration went.
LateInStep ==
  \A n \in Starts, i \in Ids :
    /\ reg[i] \notin Gone => late[n][i] = 0
    /\ reader[n] = "looked" /\ hand[n].known /\ hand[n].id = i => late[n][i] = 0
    /\ late[n][i] <= 1

\* What is pending or received was written, and every callback received was run, was
\* unmatched, was of a kind that is not known, or is in hand.
CountsInStep ==
  /\ IsFiniteSet(Looked) /\ received = ran + unmatched + ignored + Cardinality(Looked)
  /\ IsFiniteSet(Pending) /\ written >= received + Cardinality(Pending)

\* The conjuncts of TypeOK, by what they are about.
StartTyped ==
  /\ startMu \in Starts \cup {NoStart}
  /\ start \in [Starts -> {"idle", "waiting", "opened", "ok", "failed"}]
  /\ started \in BOOLEAN
  /\ stop \in Starts \cup {NoStart}
  /\ ctxDone \subseteq Starts

StreamTyped ==
  /\ dropped \subseteq Starts
  /\ ready \in [Starts -> {"none", "ok", "err"}]
  /\ reader \in [Starts -> {"none", "connecting", "reading", "looked", "running", "ended"}]
  /\ hand \in [Starts -> Callback \cup {NoCallback}]
  /\ queue \in [Starts -> Seq(Ids)]

RegTyped ==
  /\ handlers \subseteq Ids
  /\ reg \in [Ids -> {"idle", "stored", "live", "failed", "removing", "removed"}]
  /\ host \in [Ids -> {"none", "asked", "on", "off"}]
  /\ lastFault \in BOOLEAN

CountTyped ==
  /\ written \in Nat /\ received \in Nat /\ ran \in Nat /\ unmatched \in Nat /\ ignored \in Nat
  /\ written <= Writes

LateTyped == late \in [Starts -> [Ids -> 0 .. 2]]

StartInv  == StartTyped /\ StartInStep /\ OneLiveStream
RegInv    == RegTyped /\ RegInStep
LateInv   == LateTyped /\ LateInStep
CountsInv == CountTyped /\ CountsInStep

IInv == StartInv /\ StreamTyped /\ RegInv /\ LateInv /\ CountsInv

-----------------------------------------------------------------------------
\* A queue has a length.
LEMMA LenTyped == ASSUME NEW q \in Seq(Ids) PROVE Len(q) \in Nat
  OBVIOUS

\* At the start there is no stream and nothing is registered.
LEMMA InitIInv == Init => IInv
<1> SUFFICES ASSUME Init PROVE IInv
  OBVIOUS
<1> USE DEF Init
<1>1. StartInv
  BY NoStartIsNone DEF StartInv, StartTyped, StartInStep, OneLiveStream
<1>2. StreamTyped
  BY DEF StreamTyped
<1>3. RegInv
  BY DEF RegInv, RegTyped, RegInStep, Gone
<1>4. LateInv
  <2>1. LateTyped
    BY DEF LateTyped
  <2>2. LateInStep
    BY DEF LateInStep, Gone
  <2>3. QED
    BY <2>1, <2>2 DEF LateInv
<1>5. CountsInv
  <2>1. Looked = {} /\ Pending = {}
    BY DEF Looked, Pending
  <2>2. QED
    BY <2>1, FS_EmptySet, BoundTypes DEF CountsInv, CountTyped, CountsInStep
<1>6. QED
  BY <1>1, <1>2, <1>3, <1>4, <1>5 DEF IInv

\* The parts make the type invariant, the counters' bound with the counts.
LEMMA Typed == IInv => TypeOK
<1> SUFFICES ASSUME IInv PROVE TypeOK
  OBVIOUS
<1>1. StartTyped /\ StreamTyped /\ RegTyped /\ LateTyped /\ missed \subseteq Ids
  BY DEF IInv, StartInv, RegInv, LateInv, RegInStep
<1>2. {written, received, ran, unmatched, ignored} \subseteq 0 .. Writes
  <2>1. Cardinality(Looked) \in Nat /\ Cardinality(Pending) \in Nat
    BY FS_CardinalityType DEF IInv, CountsInv, CountsInStep
  <2>2. QED
    BY <2>1, BoundTypes DEF IInv, CountsInv, CountsInStep, CountTyped
<1>3. QED
  BY <1>1, <1>2 DEF TypeOK, StartTyped, StreamTyped, RegTyped, LateTyped

\* However Start and Close interleave, the one live stream is the one stop cancels.
LEMMA NextStart == IInv /\ [Next]_vars => StartInv'
<1> SUFFICES ASSUME IInv, [Next]_vars PROVE StartInv'
  OBVIOUS
<1>0. StartInv /\ StreamTyped
  BY DEF IInv
<1> USE <1>0, NoStartIsNone
    DEF StartInv, StartTyped, StartInStep, OneLiveStream, StreamTyped, startVars,
        streamVars
<1>1. ASSUME NEW g \in Starts, StartReturnsEarly(g) PROVE StartInv'
  BY <1>1 DEF StartReturnsEarly
<1>2. ASSUME NEW g \in Starts, StartOpens(g) PROVE StartInv'
  BY <1>2 DEF StartOpens
<1>3. ASSUME NEW g \in Starts, StartSees(g) PROVE StartInv'
  BY <1>3 DEF StartSees
<1>4. ASSUME NEW g \in Starts, StartFails(g) PROVE StartInv'
  BY <1>4 DEF StartFails
<1>5. ASSUME NEW g \in Starts, StartCommits(g) PROVE StartInv'
  <2>1. /\ startMu' = NoStart
        /\ start' \in {[start EXCEPT ![g] = "ok"], [start EXCEPT ![g] = "failed"]}
    BY <1>5 DEF StartCommits
  <2>2. UNCHANGED <<stop, ctxDone, reader>>
    BY <1>5 DEF StartCommits
  <2>3. startMu = g /\ stop \in {g, NoStart} /\ reader[g] # "none"
    BY <1>5 DEF StartCommits
  <2>3a. /\ start'[g] \in {"ok", "failed"}
         /\ \A f \in Starts \ {g} : start'[f] = start[f] /\ start[f] \notin {"waiting", "opened"}
    BY <2>1, <2>3
  <2>4. CASE g \in ctxDone /\ started' = started
    <3>1. StartTyped'
      BY <2>1, <2>2, <2>4
    <3>2. StartInStep'
      BY <2>1, <2>2, <2>3, <2>3a, <2>4
    <3>3. OneLiveStream'
      BY <2>1, <2>2, <2>3, <2>4
    <3>4. QED
      BY <3>1, <3>2, <3>3
  <2>5. CASE g \notin ctxDone /\ started' = TRUE
    <3>1. StartTyped'
      BY <2>1, <2>2, <2>5
    <3>2. StartInStep'
      BY <2>1, <2>2, <2>3, <2>3a, <2>5
    <3>3. OneLiveStream'
      BY <2>1, <2>2, <2>3, <2>5
    <3>4. QED
      BY <3>1, <3>2, <3>3
  <2>6. QED
    BY <1>5, <2>4, <2>5 DEF StartCommits
<1>6. ASSUME Close PROVE StartInv'
  BY <1>6 DEF Close
<1>7. ASSUME NEW g \in Starts, CtxEnds(g) PROVE StartInv'
  BY <1>7 DEF CtxEnds
<1>8. ASSUME UNCHANGED startVars, \A n \in Starts : reader'[n] = "none" <=> reader[n] = "none"
      PROVE  StartInv'
  BY <1>8
<1>9. ASSUME NEW n \in Starts,
             \/ \E r \in {"ok", "err"} : ReaderConnects(n, r)
             \/ ReaderReads(n)
      PROVE  /\ UNCHANGED startVars
             /\ \A m \in Starts : reader'[m] = "none" <=> reader[m] = "none"
  BY <1>9
  DEF ReaderConnects, ReaderReads, ReaderLooks, ReaderSkips, ReaderRuns, ReaderDiscards,
      ReaderIgnores, HandlerReturns, ReaderEnds
<1>10. ASSUME \/ \E n \in Starts : HostDrops(n) \/ \E i \in Ids : HostWrites(n, i)
              \/ \E i \in Ids : \/ Register(i) \/ Registered(i) \/ RegisterFails(i)
                                \/ Unsubscribe(i) \/ Unsubscribed(i) \/ HostAnswers(i)
              \/ UNCHANGED vars
       PROVE  UNCHANGED <<startVars, reader>>
  BY <1>10
  DEF HostDrops, HostWrites, Register, Registered, RegisterFails, Unsubscribe, Unsubscribed,
      HostAnswers, vars
<1>11. QED
  BY <1>1, <1>2, <1>3, <1>4, <1>5, <1>6, <1>7, <1>8, <1>9, <1>10 DEF Next

\* Every step keeps the streams' variables within their types.
LEMMA NextStream == IInv /\ [Next]_vars => StreamTyped'
<1> SUFFICES ASSUME IInv, [Next]_vars PROVE StreamTyped'
  OBVIOUS
<1>0. StreamTyped /\ handlers \subseteq Ids
  BY DEF IInv, RegInv, RegTyped
<1> USE <1>0 DEF StreamTyped, streamVars
<1>1. ASSUME NEW g \in Starts, StartOpens(g) PROVE StreamTyped'
  BY <1>1 DEF StartOpens
<1>2. ASSUME NEW n \in Starts, NEW r \in {"ok", "err"}, ReaderConnects(n, r) PROVE StreamTyped'
  BY <1>2 DEF ReaderConnects
<1>3. ASSUME NEW n \in Starts, NEW k \in Kinds, ReaderLooks(n, k) PROVE StreamTyped'
  <2>1. Head(queue[n]) \in Ids /\ Tail(queue[n]) \in Seq(Ids)
    BY <1>3 DEF ReaderLooks
  <2>2. hand' = [hand EXCEPT ![n] = [kind |-> k, id |-> Head(queue[n]),
                                     known |-> Head(queue[n]) \in handlers]]
    BY <1>3 DEF ReaderLooks
  <2>3. [kind |-> k, id |-> Head(queue[n]), known |-> Head(queue[n]) \in handlers] \in Callback
    BY <2>1 DEF Callback
  <2>4. hand' \in [Starts -> Callback \cup {NoCallback}]
    BY <2>2, <2>3
  <2>5. queue' \in [Starts -> Seq(Ids)]
    BY <1>3, <2>1 DEF ReaderLooks
  <2>6. QED
    BY <1>3, <2>4, <2>5 DEF ReaderLooks
<1>3a. ASSUME NEW n \in Starts, ReaderSkips(n) PROVE StreamTyped'
  BY <1>3a DEF ReaderSkips
<1>4. ASSUME NEW n \in Starts, ReaderRuns(n) PROVE StreamTyped'
  BY <1>4 DEF ReaderRuns
<1>5. ASSUME NEW n \in Starts, ReaderDiscards(n) \/ ReaderIgnores(n) \/ HandlerReturns(n)
      PROVE  StreamTyped'
  BY <1>5 DEF ReaderDiscards, ReaderIgnores, HandlerReturns
<1>5a. ASSUME NEW n \in Starts, ReaderEnds(n) PROVE StreamTyped'
  <2>1. queue' \in [Starts -> Seq(Ids)] /\ dropped' \subseteq Starts
    BY <1>5a DEF ReaderEnds
  <2>2. reader' = [reader EXCEPT ![n] = "ended"] /\ UNCHANGED <<ready, hand>>
    BY <1>5a DEF ReaderEnds
  <2>3. QED
    BY <2>1, <2>2
<1>6. ASSUME NEW n \in Starts, HostDrops(n) PROVE StreamTyped'
  BY <1>6 DEF HostDrops
<1>7. ASSUME NEW n \in Starts, NEW i \in Ids, HostWrites(n, i) PROVE StreamTyped'
  BY <1>7 DEF HostWrites
<1>8. ASSUME \/ \E g \in Starts : \/ StartReturnsEarly(g) \/ StartSees(g)
                                  \/ StartFails(g) \/ StartCommits(g) \/ CtxEnds(g)
             \/ Close
             \/ \E i \in Ids : \/ Register(i) \/ Registered(i) \/ RegisterFails(i)
                               \/ Unsubscribe(i) \/ Unsubscribed(i) \/ HostAnswers(i)
             \/ UNCHANGED vars
      PROVE  UNCHANGED streamVars
  BY <1>8
  DEF StartReturnsEarly, StartSees, StartFails, StartCommits, Close, CtxEnds, Register,
      Registered, RegisterFails, Unsubscribe, Unsubscribed, HostAnswers, vars
<1>9. QED
  BY <1>1, <1>2, <1>3, <1>3a, <1>4, <1>5, <1>5a, <1>6, <1>7, <1>8 DEF Next, ReaderReads

\* An id is registered before the host is told and taken out before it is told again.
LEMMA NextReg == IInv /\ [Next]_vars => RegInv'
<1> SUFFICES ASSUME IInv, [Next]_vars PROVE RegInv'
  OBVIOUS
<1>0. RegInv /\ StreamTyped
  BY DEF IInv
<1> USE <1>0 DEF RegInv, RegTyped, RegInStep, Gone, regVars, countVars
<1>1. ASSUME NEW i \in Ids, Register(i) PROVE RegInv'
  BY <1>1 DEF Register
<1>2. ASSUME NEW i \in Ids, Registered(i) PROVE RegInv'
  BY <1>2 DEF Registered
<1>3. ASSUME NEW i \in Ids, RegisterFails(i) PROVE RegInv'
  BY <1>3 DEF RegisterFails
<1>4. ASSUME NEW i \in Ids, Unsubscribe(i) PROVE RegInv'
  BY <1>4 DEF Unsubscribe
<1>5. ASSUME NEW i \in Ids, Unsubscribed(i) PROVE RegInv'
  BY <1>5 DEF Unsubscribed
<1>6. ASSUME NEW i \in Ids, HostAnswers(i) PROVE RegInv'
  BY <1>6 DEF HostAnswers
<1>7. ASSUME NEW n \in Starts, NEW k \in Kinds, ReaderLooks(n, k)
      PROVE  UNCHANGED <<regVars, missed>>
  <2>1. Head(queue[n]) \in Ids
    BY <1>7 DEF ReaderLooks, StreamTyped
  <2>2. QED
    BY <1>7, <2>1 DEF ReaderLooks
<1>8. ASSUME \/ \E g \in Starts : \/ StartReturnsEarly(g) \/ StartOpens(g) \/ StartSees(g)
                                  \/ StartFails(g) \/ StartCommits(g) \/ CtxEnds(g)
             \/ Close
             \/ \E n \in Starts : \/ \E r \in {"ok", "err"} : ReaderConnects(n, r)
                                  \/ ReaderSkips(n) \/ ReaderRuns(n) \/ ReaderDiscards(n)
                                  \/ ReaderIgnores(n) \/ HandlerReturns(n)
                                  \/ ReaderEnds(n) \/ HostDrops(n)
                                  \/ \E i \in Ids : HostWrites(n, i)
             \/ UNCHANGED vars
      PROVE  UNCHANGED <<regVars, missed>>
  BY <1>8
  DEF StartReturnsEarly, StartOpens, StartSees, StartFails, StartCommits, Close, CtxEnds,
      ReaderConnects, ReaderSkips, ReaderRuns, ReaderDiscards, ReaderIgnores, HandlerReturns,
      ReaderEnds, HostDrops, HostWrites, vars
<1>9. ASSUME UNCHANGED <<regVars, missed>> PROVE RegInv'
  BY <1>9
<1>10. QED
  BY <1>1, <1>2, <1>3, <1>4, <1>5, <1>6, <1>7, <1>8, <1>9 DEF Next, ReaderReads

\* A lookup finds only what stands, so what is deleted runs at most once more.
LEMMA NextLate == IInv /\ [Next]_vars => LateInv'
<1> SUFFICES ASSUME IInv, [Next]_vars PROVE LateInv'
  OBVIOUS
<1>0. LateInv /\ RegInv /\ StreamTyped
  BY DEF IInv
<1> USE <1>0 DEF LateInv, LateTyped, LateInStep, RegInv, RegTyped, StreamTyped, Gone
<1>1. ASSUME NEW n \in Starts, NEW k \in Kinds, ReaderLooks(n, k) PROVE LateInv'
  <2>1. \A i \in Ids : i \in handlers => reg[i] \notin Gone
    BY DEF RegInStep
  <2>2. /\ UNCHANGED <<late, reg>>
        /\ hand' = [hand EXCEPT ![n] = [kind |-> k, id |-> Head(queue[n]),
                                        known |-> Head(queue[n]) \in handlers]]
        /\ reader' = [reader EXCEPT ![n] = "looked"]
    BY <1>1 DEF ReaderLooks, regVars
  <2>3. ASSUME NEW i \in Ids, hand'[n].known, hand'[n].id = i PROVE late[n][i] = 0
    BY <2>1, <2>2, <2>3
  <2>4. QED
    BY <2>2, <2>3
<1>2. ASSUME NEW n \in Starts, ReaderRuns(n) PROVE LateInv'
  <2>1. PICK i \in Ids : hand[n].id = i /\ hand[n].known
    BY <1>2 DEF ReaderRuns, HasHandler, NoCallback, Callback
  <2>2. late[n][i] = 0
    BY <1>2, <2>1 DEF ReaderRuns
  <2>3. UNCHANGED <<hand, reg>> /\ reader' = [reader EXCEPT ![n] = "running"]
    BY <1>2 DEF ReaderRuns, regVars
  <2>4. late' = IF reg[i] \in Gone THEN [late EXCEPT ![n][i] = late[n][i] + 1] ELSE late
    <3>1. late' = IF reg[hand[n].id] \in Gone /\ late[n][hand[n].id] < 2
                  THEN [late EXCEPT ![n][hand[n].id] = @ + 1] ELSE late
      BY <1>2 DEF ReaderRuns
    <3>2. hand[n].id = i
      BY <2>1
    <3>3. late' = IF reg[i] \in Gone /\ late[n][i] < 2
                  THEN [late EXCEPT ![n][i] = late[n][i] + 1] ELSE late
      BY <3>1, <3>2
    <3>4. QED
      BY <2>2, <3>3
  <2>5. QED
    BY <2>2, <2>3, <2>4
<1>3. ASSUME NEW n \in Starts, ReaderDiscards(n) \/ ReaderIgnores(n) \/ HandlerReturns(n)
      PROVE  LateInv'
  <2>1. UNCHANGED <<late, reg>> /\ reader' = [reader EXCEPT ![n] = "reading"]
    BY <1>3 DEF ReaderDiscards, ReaderIgnores, HandlerReturns, regVars, countVars
  <2>2. hand' = [hand EXCEPT ![n] = NoCallback]
    BY <1>3 DEF ReaderDiscards, ReaderIgnores, HandlerReturns
  <2>3. QED
    BY <2>1, <2>2
<1>4. ASSUME NEW n \in Starts,
             ReaderEnds(n) \/ \E r \in {"ok", "err"} : ReaderConnects(n, r)
      PROVE  LateInv'
  BY <1>4 DEF ReaderEnds, ReaderConnects, regVars, countVars
<1>5. ASSUME NEW g \in Starts, StartOpens(g) PROVE LateInv'
  BY <1>5 DEF StartOpens, regVars, countVars
<1>6. ASSUME NEW i \in Ids,
             \/ Register(i) \/ Registered(i) \/ RegisterFails(i)
             \/ Unsubscribe(i) \/ Unsubscribed(i)
      PROVE  LateInv'
  <2>1. UNCHANGED <<late, hand, reader>> /\ \E to : reg' = [reg EXCEPT ![i] = to]
    BY <1>6
    DEF Register, Registered, RegisterFails, Unsubscribe, Unsubscribed, streamVars, countVars
  <2>2. reg[i] \in Gone => reg'[i] \in Gone
    BY <1>6 DEF Register, Registered, RegisterFails, Unsubscribe, Unsubscribed
  <2>3. QED
    BY <2>1, <2>2
<1>7. ASSUME \/ \E g \in Starts : \/ StartReturnsEarly(g) \/ StartSees(g)
                                  \/ StartFails(g) \/ StartCommits(g) \/ CtxEnds(g)
             \/ Close
             \/ \E n \in Starts : \/ ReaderSkips(n) \/ HostDrops(n)
                                  \/ \E i \in Ids : HostWrites(n, i)
             \/ \E i \in Ids : HostAnswers(i)
             \/ UNCHANGED vars
      PROVE  UNCHANGED <<late, hand, reader, reg>>
  BY <1>7
  DEF StartReturnsEarly, StartSees, StartFails, StartCommits, Close, CtxEnds, ReaderSkips,
      HostDrops, HostWrites, HostAnswers, vars, regVars, streamVars, countVars
<1>8. ASSUME UNCHANGED <<late, hand, reader, reg>> PROVE LateInv'
  BY <1>8
<1>9. QED
  BY <1>1, <1>2, <1>3, <1>4, <1>5, <1>6, <1>7, <1>8 DEF Next, ReaderReads

\* What is in hand or pending is counted on the way in and on the way out.
LEMMA NextCounts == IInv /\ [Next]_vars => CountsInv'
<1> SUFFICES ASSUME IInv, [Next]_vars PROVE CountsInv'
  OBVIOUS
<1>0. CountsInv /\ StreamTyped
  BY DEF IInv
<1>c. Cardinality(Looked) \in Nat /\ Cardinality(Pending) \in Nat
  BY <1>0, FS_CardinalityType DEF CountsInv, CountsInStep
<1>1. ASSUME NEW n \in Starts, NEW k \in Kinds, ReaderLooks(n, k) PROVE CountsInv'
  <2>1. /\ queue[n] \in Seq(Ids) /\ queue[n] # <<>>
        /\ queue' = [queue EXCEPT ![n] = Tail(queue[n])]
        /\ reader' = [reader EXCEPT ![n] = "looked"] /\ reader[n] = "reading"
        /\ received' = received + 1 /\ UNCHANGED <<written, ran, unmatched, ignored>>
    BY <1>0, <1>1 DEF ReaderLooks, StreamTyped
  <2>2. Looked' = Looked \cup {n} /\ n \notin Looked
    BY <1>0, <2>1 DEF Looked, StreamTyped
  <2>3. /\ Len(queue[n]) \in Nat \ {0}
        /\ \A m \in Starts : Len(queue'[m]) = IF m = n THEN Len(queue[n]) - 1 ELSE Len(queue[m])
    BY <1>0, <2>1 DEF StreamTyped
  <2>4. Pending' = Pending \ {<<n, Len(queue[n])>>} /\ <<n, Len(queue[n])>> \in Pending
    BY <1>0, <2>3, LenTyped DEF Pending, StreamTyped
  <2>5. IsFiniteSet(Looked') /\ Cardinality(Looked') = Cardinality(Looked) + 1
    BY <1>0, <2>2, FS_AddElement DEF CountsInv, CountsInStep
  <2>6. IsFiniteSet(Pending') /\ Cardinality(Pending') = Cardinality(Pending) - 1
    BY <1>0, <2>4, FS_RemoveElement DEF CountsInv, CountsInStep
  <2>7. QED
    BY <1>0, <1>c, <2>1, <2>5, <2>6, SMTT(30) DEF CountsInv, CountTyped, CountsInStep
<1>1a. ASSUME NEW n \in Starts, ReaderSkips(n) \/ ReaderEnds(n) PROVE CountsInv'
  <2>1. /\ reader[n] = "reading"
        /\ \E to \in {"reading", "ended"} : reader' = [reader EXCEPT ![n] = to]
        /\ UNCHANGED <<written, received, ran, unmatched, ignored>>
    BY <1>0, <1>1a DEF ReaderSkips, ReaderEnds, StreamTyped, countVars
  <2>2. Looked' = Looked
    BY <1>0, <2>1 DEF Looked, StreamTyped
  <2>3. /\ \E q \in Seq(Ids) : queue' = [queue EXCEPT ![n] = q] /\ Len(q) <= Len(queue[n])
    <3>1. queue[n] \in Seq(Ids)
      BY <1>0 DEF StreamTyped
    <3>2. CASE ReaderSkips(n)
      <4>1. Tail(queue[n]) \in Seq(Ids) /\ Len(Tail(queue[n])) <= Len(queue[n])
        BY <3>1, <3>2 DEF ReaderSkips
      <4>2. QED
        BY <3>2, <4>1 DEF ReaderSkips
    <3>3. CASE ReaderEnds(n)
      <4>1. <<>> \in Seq(Ids) /\ Len(<<>>) <= Len(queue[n])
        BY <3>1
      <4>2. QED
        BY <3>3, <4>1 DEF ReaderEnds
    <3>4. QED
      BY <1>1a, <3>2, <3>3
  <2>4. Pending' \subseteq Pending
    <3>1. \A m \in Starts : Len(queue'[m]) \in Nat /\ Len(queue[m]) \in Nat
                            /\ Len(queue'[m]) <= Len(queue[m])
      BY <1>0, <2>3, LenTyped DEF StreamTyped
    <3>2. QED
      BY <3>1 DEF Pending
  <2>5. IsFiniteSet(Pending') /\ Cardinality(Pending') <= Cardinality(Pending)
    BY <1>0, <2>4, FS_Subset DEF CountsInv, CountsInStep
  <2>6. written' >= received' + Cardinality(Pending')
    <3>1. written >= received + Cardinality(Pending) /\ written \in Nat /\ received \in Nat
      BY <1>0 DEF CountsInv, CountTyped, CountsInStep
    <3>2. Cardinality(Pending') \in Nat
      BY <2>5, FS_CardinalityType
    <3>3. QED
      BY <1>c, <2>1, <2>5, <3>1, <3>2
  <2>7. QED
    BY <1>0, <2>1, <2>2, <2>5, <2>6 DEF CountsInv, CountTyped, CountsInStep
<1>2. ASSUME NEW n \in Starts, ReaderRuns(n) \/ ReaderDiscards(n) \/ ReaderIgnores(n)
      PROVE  CountsInv'
  <2>1. /\ UNCHANGED <<queue, written, received>>
        /\ \E to \in {"running", "reading"} : reader' = [reader EXCEPT ![n] = to]
        /\ reader[n] = "looked"
        /\ \/ ran' = ran + 1 /\ UNCHANGED <<unmatched, ignored>>
           \/ unmatched' = unmatched + 1 /\ UNCHANGED <<ran, ignored>>
           \/ ignored' = ignored + 1 /\ UNCHANGED <<ran, unmatched>>
    BY <1>2 DEF ReaderRuns, ReaderDiscards, ReaderIgnores
  <2>2. Looked' = Looked \ {n} /\ n \in Looked /\ Pending' = Pending
    BY <1>0, <2>1 DEF Looked, Pending, StreamTyped
  <2>3. IsFiniteSet(Looked') /\ Cardinality(Looked') = Cardinality(Looked) - 1
    BY <1>0, <2>2, FS_RemoveElement DEF CountsInv, CountsInStep
  <2>4. QED
    BY <1>0, <1>c, <2>1, <2>2, <2>3 DEF CountsInv, CountTyped, CountsInStep
<1>3. ASSUME NEW n \in Starts, NEW i \in Ids, HostWrites(n, i) PROVE CountsInv'
  <2>1. /\ queue' = [queue EXCEPT ![n] = Append(queue[n], i)]
        /\ queue[n] \in Seq(Ids)
        /\ written < Writes /\ written' = written + 1
        /\ UNCHANGED <<reader, received, ran, unmatched, ignored>>
    BY <1>0, <1>3 DEF HostWrites, StreamTyped
  <2>2. \A m \in Starts : Len(queue'[m]) = IF m = n THEN Len(queue[n]) + 1 ELSE Len(queue[m])
    BY <1>0, <2>1 DEF StreamTyped
  <2>3. /\ Pending' = Pending \cup {<<n, Len(queue[n]) + 1>>}
        /\ <<n, Len(queue[n]) + 1>> \notin Pending
    BY <1>0, <2>2, LenTyped DEF Pending, StreamTyped
  <2>4. IsFiniteSet(Pending') /\ Cardinality(Pending') = Cardinality(Pending) + 1
    BY <1>0, <2>3, FS_AddElement DEF CountsInv, CountsInStep
  <2>5. Looked' = Looked
    BY <2>1 DEF Looked
  <2>6. CountTyped'
    <3>1. written \in Nat /\ written < Writes /\ written' = written + 1 /\ Writes \in Nat
      BY <1>0, <2>1, BoundTypes DEF CountsInv, CountTyped
    <3>2. written' \in Nat /\ written' <= Writes
      BY <3>1
    <3>3. received' \in Nat /\ ran' \in Nat /\ unmatched' \in Nat /\ ignored' \in Nat
      BY <1>0, <2>1 DEF CountsInv, CountTyped
    <3>4. QED
      BY <3>2, <3>3 DEF CountTyped
  <2>7. CountsInStep'
    <3>1. Cardinality(Looked') = Cardinality(Looked) /\ IsFiniteSet(Looked')
      BY <1>0, <2>5 DEF CountsInv, CountsInStep
    <3>2. received' = ran' + unmatched' + ignored' + Cardinality(Looked')
      BY <1>0, <2>1, <3>1 DEF CountsInv, CountsInStep
    <3>3. written' >= received' + Cardinality(Pending')
      <4>1. /\ written >= received + Cardinality(Pending) /\ written' = written + 1
            /\ received' = received /\ received \in Nat /\ written \in Nat
        BY <1>0, <2>1 DEF CountsInv, CountTyped, CountsInStep
      <4>2. QED
        BY <1>c, <2>4, <4>1
    <3>4. QED
      BY <2>4, <3>1, <3>2, <3>3 DEF CountsInStep
  <2>8. QED
    BY <2>6, <2>7 DEF CountsInv
<1>4. ASSUME NEW n \in Starts,
             \/ StartOpens(n) \/ HandlerReturns(n)
             \/ \E r \in {"ok", "err"} : ReaderConnects(n, r)
      PROVE  Looked' = Looked /\ UNCHANGED <<queue, written, received, ran, unmatched, ignored>>
  <2>1. /\ UNCHANGED <<queue, written, received, ran, unmatched, ignored>>
        /\ reader[n] # "looked"
        /\ \E to \in {"connecting", "reading", "ended"} : reader' = [reader EXCEPT ![n] = to]
    BY <1>4 DEF StartOpens, HandlerReturns, ReaderConnects, countVars, IInv,
                StartInv, StartInStep
  <2>2. QED
    BY <1>0, <2>1 DEF Looked, StreamTyped
<1>5. ASSUME \/ \E g \in Starts : \/ StartReturnsEarly(g) \/ StartSees(g)
                                  \/ StartFails(g) \/ StartCommits(g) \/ CtxEnds(g)
             \/ Close
             \/ \E n \in Starts : HostDrops(n)
             \/ \E i \in Ids : \/ Register(i) \/ Registered(i) \/ RegisterFails(i)
                               \/ Unsubscribe(i) \/ Unsubscribed(i) \/ HostAnswers(i)
             \/ UNCHANGED vars
      PROVE  UNCHANGED <<reader, queue, written, received, ran, unmatched, ignored>>
  BY <1>5
  DEF StartReturnsEarly, StartSees, StartFails, StartCommits, Close, CtxEnds, HostDrops,
      Register, Registered, RegisterFails, Unsubscribe, Unsubscribed, HostAnswers, vars,
      streamVars, countVars
<1>6. ASSUME Looked' = Looked, UNCHANGED <<queue, written, received, ran, unmatched, ignored>>
      PROVE  CountsInv'
  <2>1. Pending' = Pending
    BY <1>6 DEF Pending
  <2>2. QED
    BY <1>0, <1>6, <2>1 DEF CountsInv, CountTyped, CountsInStep
<1>7. ASSUME UNCHANGED reader PROVE Looked' = Looked
  BY <1>7 DEF Looked
<1>8. QED
  BY <1>1, <1>1a, <1>2, <1>3, <1>4, <1>5, <1>6, <1>7 DEF Next, ReaderReads

\* Every step keeps the inductive invariant.
LEMMA NextIInv == IInv /\ [Next]_vars => IInv'
<1>1. QED
  BY NextStart, NextStream, NextReg, NextLate, NextCounts DEF IInv

\* The inductive invariant holds in every reachable state.
THEOREM Invariance == Spec => []IInv
<1>1. QED
  BY InitIInv, NextIInv, PTL DEF Spec

-----------------------------------------------------------------------------
(* What follows from it.                                                   *)

\* Every variable keeps its type, the callbacks received, run and unmatched within
\* those the host has written.
THEOREM TypeCorrect == Spec => []TypeOK
<1>1. QED
  BY Typed, Invariance, PTL

\* At most one stream is open for callbacks, and Close would end it.
THEOREM OneStream == Spec => []OneLiveStream
<1>1. IInv => OneLiveStream
  BY DEF IInv, StartInv
<1>2. QED
  BY <1>1, Invariance, PTL

\* No callback of its registration's kind misses it while it stands, and what received
\* counts is run, unmatched, of no kind that is known, or in hand.
THEOREM Accounted == Spec => []CallbacksAccounted
<1>1. IInv => CallbacksAccounted
  BY DEF IInv, RegInv, RegInStep, CountsInv, CountsInStep, Looked, CallbacksAccounted
<1>2. QED
  BY <1>1, Invariance, PTL

\* A deleted registration's handler is run at most once more by each reader.
THEOREM LateHandler == Spec => []LateHandlerBounded
<1>1. IInv => LateHandlerBounded
  BY DEF IInv, LateInv, LateInStep, LateHandlerBounded
<1>2. QED
  BY <1>1, Invariance, PTL
=============================================================================
