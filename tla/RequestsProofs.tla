--------------------------- MODULE RequestsProofs ---------------------------
(***************************************************************************)
(* Proofs about Requests, for any number of requests at a time, any        *)
(* headers and any terminals: the profiler is where it should be, a        *)
(* presentation shows what may be seen, and a lease goes on as it came.    *)
(***************************************************************************)
EXTENDS Requests, FiniteSetTheorems, SequenceTheorems, TLAPS

\* The handler has not answered before it returns.
AnswersLast == \A r \in R : at[r] # "idle" => answer[r] = "none"

\* A capture that is over and whose client is there ran to its end.
ProfileInStep == \A r \in R : at[r] = "captured" /\ r \notin gone => r \in whole

\* While the provider runs no terminal is both authorized and lost, and what the
\* resolver finds then is what the result is held against.
PresentInStep ==
  \A r \in R :
    /\ at[r] \in {"projecting", "projected", "admitting"} => Presents(r)
    /\ at[r] = "begin" => lost[r] = {}
    /\ at[r] \in {"projecting", "projected"} => authority \cap lost[r] = {}
    /\ at[r] = "admitting" /\ req[r].kind = "present" => current[r] \cap lost[r] = {}

\* The conjuncts of TypeOK, by what they are about.
CoreTyped ==
  /\ req \in [R -> Requests \cup {[kind |-> "none"]}]
  /\ at \in [R -> {"idle", "begin", "calling", "asking", "capturing", "captured",
                   "projecting", "projected", "admitting"}]
  /\ gone \subseteq R
  /\ answer \in [R -> {"none", "error", "conflict", "profile", "reply", "result"}]

HeaderTyped ==
  /\ ctx = [r \in R |-> ctx[r]] /\ sent = [r \in R |-> sent[r]]
  /\ \A r \in R : ctx[r].lease \in Canonical \cup {NoValue} /\ ctx[r].present \in BOOLEAN
  /\ \A r \in R : sent[r] # <<>> => req[r].kind = "call"
  /\ read \in [R -> Canonical \cup {NoValue}]

ProfileTyped == profiler \in R \cup {NoOne} /\ whole \subseteq R

PresentTyped ==
  /\ authority \subseteq Terminals
  /\ shown \in [R -> SUBSET Terminals]
  /\ current \in [R -> SUBSET Terminals]
  /\ lost \in [R -> SUBSET Terminals]

\* What a call carries to the host and what a handler reads was made from the
\* request's own header; no other kind of request waits for the host in its place.
HeaderInStep ==
  \A r \in R :
    /\ req[r].kind = "call" =>
         /\ req[r].header \in Headers
         /\ ctx[r] \in ContextsFor(req[r].header)
         /\ at[r] # "begin" => sent[r] = Forwarded(ctx[r])
    /\ req[r].kind \in {"log", "origin"} =>
         /\ req[r].header \in Headers
         /\ at[r] \in {"idle", "begin"}
         /\ at[r] = "idle" => read[r] \in OneCanonical(req[r].header)

HeaderInv  == HeaderTyped /\ HeaderInStep
CoreInv    == CoreTyped /\ AnswersLast
ProfileInv == ProfileTyped /\ ProfileInStep /\ ProfilerIsReleased
PresentInv == PresentTyped /\ PresentInStep /\ PresentationIsCurrent

IInv == CoreInv /\ HeaderInv /\ ProfileInv /\ PresentInv

-----------------------------------------------------------------------------
(* The steps, by the shape they share.                                     *)

\* A handler that has nothing to give back answers and returns.
Ends(r) ==
  /\ at[r] \in {"begin", "calling", "asking"}
  /\ \E a \in {"error", "conflict", "reply"} : Answer(r, a)
  /\ UNCHANGED <<req, gone, ctx, sent, profileVars, presentVars>>

\* A handler goes on to wait for the host.
Asks(r) ==
  /\ at[r] = "begin"
  /\ \E to \in {"calling", "asking"} : Goes(r, to)
  /\ UNCHANGED <<req, gone, ctx, read, profileVars, presentVars, answer>>

LEMMA StepsThatEnd ==
  ASSUME NEW r \in R,
         \/ LoggerForRequest(r) \/ ExternalOrigin(r) \/ CallTimesOut(r) \/ ProfileRefused(r)
         \/ SettingsRefused(r) \/ PresentRefused(r) \/ HTTPRefused(r) \/ HostAnswers(r)
         \/ SectionReturns(r)
  PROVE  Ends(r)
  BY DEF LoggerForRequest, ExternalOrigin, CallTimesOut, ProfileRefused, SettingsRefused,
         PresentRefused, HTTPRefused, HostAnswers, SectionReturns, Ends, headerVars

LEMMA StepsThatAsk ==
  ASSUME NEW r \in R, CallHost(r) \/ PostToHost(r) \/ AskHost(r)
  PROVE  Asks(r)
  BY DEF CallHost, PostToHost, AskHost, Asks, headerVars

\* Every step is one of these.
LEMMA Steps ==
  ASSUME [Next]_vars
  PROVE  \/ \E r \in R : \/ \E q \in Requests : Arrive(r, q)
                         \/ Ends(r) \/ Asks(r)
                         \/ StartCPUProfile(r) \/ StopCPUProfile(r) \/ ProfileAnswers(r)
                         \/ Project(r) \/ ProjectReturns(r) \/ Resolve(r) \/ Admit(r)
                         \/ ClientLeaves(r)
         \/ \E t \in Terminals : Revoke(t) \/ Authorize(t)
         \/ UNCHANGED vars
  BY StepsThatEnd, StepsThatAsk DEF Next, Handler

-----------------------------------------------------------------------------
\* At the start no request is handled.
LEMMA InitIInv == Init => IInv
<1> SUFFICES ASSUME Init PROVE IInv
  OBVIOUS
<1> USE DEF Init
<1>1. CoreInv
  BY DEF CoreInv, CoreTyped, AnswersLast
<1>2. HeaderInv
  BY DEF HeaderInv, HeaderTyped, HeaderInStep, Absent
<1>3. ProfileInv
  BY HeaderTypes DEF ProfileInv, ProfileTyped, ProfileInStep, ProfilerIsReleased
<1>4. PresentInv
  <2>1. PresentTyped
    BY DEF PresentTyped
  <2>2. PresentInStep /\ PresentationIsCurrent
    BY DEF PresentInStep, PresentationIsCurrent
  <2>3. QED
    BY <2>1, <2>2 DEF PresentInv
<1>5. QED
  BY <1>1, <1>2, <1>3, <1>4 DEF IInv

\* The parts make the type invariant.
LEMMA Typed == IInv => TypeOK
  BY DEF IInv, CoreInv, CoreTyped, HeaderInv, HeaderTyped, ProfileInv, ProfileTyped, PresentInv,
         PresentTyped, TypeOK

\* Every step keeps requests, handlers and answers typed, and answers last.
LEMMA NextCore == IInv /\ [Next]_vars => CoreInv'
<1> SUFFICES ASSUME IInv, [Next]_vars PROVE CoreInv'
  OBVIOUS
<1>0. CoreInv
  BY DEF IInv
<1> USE <1>0 DEF CoreInv, CoreTyped, AnswersLast, Goes, Answer
<1>1. ASSUME NEW r \in R, NEW q \in Requests, Arrive(r, q) PROVE CoreInv'
  BY <1>1 DEF Arrive
<1>2. ASSUME NEW r \in R, Ends(r) PROVE CoreInv'
  BY <1>2 DEF Ends
<1>3. ASSUME NEW r \in R, Asks(r) PROVE CoreInv'
  BY <1>3 DEF Asks
<1>4. ASSUME NEW r \in R, StartCPUProfile(r) \/ StopCPUProfile(r) PROVE CoreInv'
  BY <1>4 DEF StartCPUProfile, StopCPUProfile
<1>5. ASSUME NEW r \in R, ProfileAnswers(r) PROVE CoreInv'
  BY <1>5 DEF ProfileAnswers
<1>6. ASSUME NEW r \in R, Project(r) \/ ProjectReturns(r) PROVE CoreInv'
  BY <1>6 DEF Project, ProjectReturns
<1>7. ASSUME NEW r \in R, Resolve(r) \/ Admit(r) PROVE CoreInv'
  BY <1>7 DEF Resolve, Admit
<1>8. ASSUME NEW r \in R, ClientLeaves(r) PROVE CoreInv'
  BY <1>8 DEF ClientLeaves
<1>9. ASSUME \/ \E t \in Terminals : Revoke(t) \/ Authorize(t)
             \/ UNCHANGED vars
      PROVE  CoreInv'
  BY <1>9 DEF Revoke, Authorize, vars
<1>10. QED
  BY <1>1, <1>2, <1>3, <1>4, <1>5, <1>6, <1>7, <1>8, <1>9, Steps

\* One request holds the profiler while it captures, and no other.
LEMMA NextProfile == IInv /\ [Next]_vars => ProfileInv'
<1> SUFFICES ASSUME IInv, [Next]_vars PROVE ProfileInv'
  OBVIOUS
<1>0. CoreInv /\ ProfileInv
  BY DEF IInv
<1> USE <1>0, HeaderTypes DEF CoreInv, CoreTyped, AnswersLast, ProfileInv, ProfileTyped,
     ProfileInStep, ProfilerIsReleased, Goes, Answer, profileVars
<1>1. ASSUME NEW r \in R, NEW q \in Requests, Arrive(r, q) PROVE ProfileInv'
  BY <1>1 DEF Arrive
<1>2. ASSUME NEW r \in R, Ends(r) PROVE ProfileInv'
  BY <1>2 DEF Ends
<1>3. ASSUME NEW r \in R, Asks(r) PROVE ProfileInv'
  BY <1>3 DEF Asks
<1>4. ASSUME NEW r \in R, StartCPUProfile(r) PROVE ProfileInv'
  BY <1>4 DEF StartCPUProfile
<1>5. ASSUME NEW r \in R, StopCPUProfile(r) PROVE ProfileInv'
  BY <1>5 DEF StopCPUProfile
<1>6. ASSUME NEW r \in R, ProfileAnswers(r) PROVE ProfileInv'
  BY <1>6 DEF ProfileAnswers
<1>7. ASSUME NEW r \in R, Project(r) \/ ProjectReturns(r) PROVE ProfileInv'
  BY <1>7 DEF Project, ProjectReturns
<1>8. ASSUME NEW r \in R, Resolve(r) \/ Admit(r) PROVE ProfileInv'
  BY <1>8 DEF Resolve, Admit
<1>9. ASSUME NEW r \in R, ClientLeaves(r) PROVE ProfileInv'
  BY <1>9 DEF ClientLeaves
<1>10. ASSUME \/ \E t \in Terminals : Revoke(t) \/ Authorize(t)
              \/ UNCHANGED vars
       PROVE  ProfileInv'
  BY <1>10 DEF Revoke, Authorize, vars
<1>11. QED
  BY <1>1, <1>2, <1>3, <1>4, <1>5, <1>6, <1>7, <1>8, <1>9, <1>10, Steps

\* What may be seen is asked for after the provider has run, and held against.
LEMMA NextPresent == IInv /\ [Next]_vars => PresentInv'
<1> SUFFICES ASSUME IInv, [Next]_vars PROVE PresentInv'
  OBVIOUS
<1>0. CoreInv /\ PresentInv
  BY DEF IInv
<1> USE <1>0 DEF CoreInv, CoreTyped, AnswersLast, PresentInv, PresentTyped, PresentInStep,
     PresentationIsCurrent, Presents, Goes, Answer, presentVars
<1>1. ASSUME NEW r \in R, NEW q \in Requests, Arrive(r, q) PROVE PresentInv'
  BY <1>1 DEF Arrive
<1>2. ASSUME NEW r \in R, Ends(r) PROVE PresentInv'
  BY <1>2 DEF Ends
<1>3. ASSUME NEW r \in R, Asks(r) PROVE PresentInv'
  BY <1>3 DEF Asks
<1>4. ASSUME NEW r \in R, StartCPUProfile(r) \/ StopCPUProfile(r) PROVE PresentInv'
  BY <1>4 DEF StartCPUProfile, StopCPUProfile
<1>5. ASSUME NEW r \in R, ProfileAnswers(r) PROVE PresentInv'
  BY <1>5 DEF ProfileAnswers
<1>6. ASSUME NEW r \in R, Project(r) PROVE PresentInv'
  BY <1>6 DEF Project
<1>7. ASSUME NEW r \in R, ProjectReturns(r) PROVE PresentInv'
  BY <1>7 DEF ProjectReturns
<1>8. ASSUME NEW r \in R, Resolve(r) PROVE PresentInv'
  BY <1>8 DEF Resolve, Requests
<1>9. ASSUME NEW r \in R, Admit(r) PROVE PresentInv'
  BY <1>9 DEF Admit
<1>10. ASSUME NEW r \in R, ClientLeaves(r) PROVE PresentInv'
  BY <1>10 DEF ClientLeaves
<1>11. ASSUME NEW t \in Terminals, Revoke(t) PROVE PresentInv'
  BY <1>11 DEF Revoke
<1>12. ASSUME NEW t \in Terminals, Authorize(t) PROVE PresentInv'
  BY <1>12 DEF Authorize
<1>13. CASE UNCHANGED vars
  BY <1>13 DEF vars
<1>14. QED
  BY <1>1, <1>2, <1>3, <1>4, <1>5, <1>6, <1>7, <1>8, <1>9, <1>10, <1>11, <1>12, <1>13, Steps

\* A context or an id made from a header is canonical or nothing.
LEMMA MadeTyped ==
  ASSUME NEW h
  PROVE  /\ \A c \in ContextsFor(h) \cup {Absent} :
              c.lease \in Canonical \cup {NoValue} /\ c.present \in BOOLEAN
         /\ OneCanonical(h) \subseteq Canonical \cup {NoValue}
<1>1. Absent.lease = NoValue /\ Absent.present = FALSE
  BY DEF Absent
<1>2. \A v : Transport(v).lease \in Canonical \cup {NoValue} /\ Transport(v).present = TRUE
  BY DEF Transport
<1>3. OneCanonical(h) \subseteq Canonical \cup {NoValue}
  BY DEF OneCanonical
<1>4. QED
  BY <1>1, <1>2, <1>3 DEF ContextsFor

\* A request's header is what its handler sends on or reads.
LEMMA NextHeader == IInv /\ [Next]_vars => HeaderInv'
<1> SUFFICES ASSUME IInv, [Next]_vars PROVE HeaderInv'
  OBVIOUS
<1>0. CoreTyped /\ HeaderInv
  BY DEF IInv, CoreInv
<1> USE <1>0 DEF CoreTyped, HeaderInv, HeaderTyped, HeaderInStep, Goes, Answer
<1>1. ASSUME NEW r \in R, NEW q \in Requests, Arrive(r, q) PROVE HeaderInv'
  <2>1. q.kind \in {"call", "log", "origin"} => q.header \in Headers
    BY DEF Requests
  <2>2. PICK c \in (IF q.kind = "call" THEN ContextsFor(q.header) ELSE {Absent}) :
          ctx' = [ctx EXCEPT ![r] = c]
    BY <1>1 DEF Arrive
  <2>3. c.lease \in Canonical \cup {NoValue} /\ c.present \in BOOLEAN
    BY <2>2, MadeTyped
  <2>4. /\ req' = [req EXCEPT ![r] = q] /\ at' = [at EXCEPT ![r] = "begin"]
        /\ sent' = [sent EXCEPT ![r] = <<>>] /\ read' = [read EXCEPT ![r] = NoValue]
    BY <1>1 DEF Arrive
  <2>5. HeaderTyped'
    BY <2>2, <2>3, <2>4
  <2>6. HeaderInStep'
    BY <2>1, <2>2, <2>4
  <2>7. QED
    BY <2>5, <2>6
<1>2. ASSUME NEW r \in R, LoggerForRequest(r) \/ ExternalOrigin(r) PROVE HeaderInv'
  <2>1. PICK v \in OneCanonical(req[r].header) : read' = [read EXCEPT ![r] = v]
    BY <1>2 DEF LoggerForRequest, ExternalOrigin
  <2>2. v \in Canonical \cup {NoValue}
    BY MadeTyped
  <2>3. at' = [at EXCEPT ![r] = "idle"] /\ req[r].kind \in {"log", "origin"}
    BY <1>2 DEF LoggerForRequest, ExternalOrigin
  <2>4. UNCHANGED <<req, ctx, sent>>
    BY <1>2 DEF LoggerForRequest, ExternalOrigin
  <2>5. QED
    BY <2>1, <2>2, <2>3, <2>4
<1>3. ASSUME NEW r \in R, CallHost(r) PROVE HeaderInv'
  BY <1>3 DEF CallHost
<1>4. ASSUME NEW r \in R, PostToHost(r) \/ AskHost(r) PROVE HeaderInv'
  BY <1>4 DEF PostToHost, AskHost, headerVars
<1>5. ASSUME NEW r \in R, UNCHANGED <<req, headerVars>>, at[r] \notin {"idle", "begin"},
             \E to : to # "begin" /\ at' = [at EXCEPT ![r] = to]
      PROVE  HeaderInv'
  BY <1>5 DEF headerVars
<1>6. ASSUME NEW r \in R, UNCHANGED <<req, headerVars>>,
             req[r].kind \notin {"call", "log", "origin"},
             \E to : at' = [at EXCEPT ![r] = to]
      PROVE  HeaderInv'
  BY <1>6 DEF headerVars
<1>7. ASSUME UNCHANGED <<req, headerVars, at>> PROVE HeaderInv'
  BY <1>7 DEF headerVars
<1>8. ASSUME NEW r \in R,
             \/ CallTimesOut(r) \/ HostAnswers(r) \/ StopCPUProfile(r) \/ ProfileAnswers(r)
             \/ ProjectReturns(r) \/ Resolve(r) \/ Admit(r)
      PROVE  /\ UNCHANGED <<req, headerVars>> /\ at[r] \notin {"idle", "begin"}
             /\ \E to : to # "begin" /\ at' = [at EXCEPT ![r] = to]
  BY <1>8
  DEF CallTimesOut, HostAnswers, StopCPUProfile, ProfileAnswers, ProjectReturns, Resolve, Admit
<1>9. ASSUME NEW r \in R,
             \/ ProfileRefused(r) \/ StartCPUProfile(r) \/ SettingsRefused(r)
             \/ SectionReturns(r) \/ PresentRefused(r) \/ HTTPRefused(r) \/ Project(r)
      PROVE  /\ UNCHANGED <<req, headerVars>> /\ req[r].kind \notin {"call", "log", "origin"}
             /\ \E to : at' = [at EXCEPT ![r] = to]
  BY <1>9
  DEF ProfileRefused, StartCPUProfile, SettingsRefused, SectionReturns, PresentRefused,
      HTTPRefused, Project, Presents
<1>10. ASSUME \/ \E r \in R : ClientLeaves(r)
              \/ \E t \in Terminals : Revoke(t) \/ Authorize(t)
              \/ UNCHANGED vars
       PROVE  UNCHANGED <<req, headerVars, at>>
  BY <1>10 DEF ClientLeaves, Revoke, Authorize, vars
<1>11. QED
  BY <1>1, <1>2, <1>3, <1>4, <1>5, <1>6, <1>7, <1>8, <1>9, <1>10 DEF Next, Handler

\* Every step keeps the inductive invariant.
LEMMA NextIInv == IInv /\ [Next]_vars => IInv'
<1>1. QED
  BY NextCore, NextHeader, NextProfile, NextPresent DEF IInv

\* The inductive invariant holds in every reachable state.
THEOREM Invariance == Spec => []IInv
<1>1. QED
  BY InitIInv, NextIInv, PTL DEF Spec

-----------------------------------------------------------------------------
(* What follows from it.                                                   *)

\* Every variable keeps its type.
THEOREM TypeCorrect == Spec => []TypeOK
<1>1. QED
  BY Typed, Invariance, PTL

\* The CPU profiler is held by the request that captures and by nobody else, and no
\* cut-short capture is answered.
THEOREM ProfilerFree == Spec => []ProfilerIsReleased
<1>1. IInv => ProfilerIsReleased
  BY DEF IInv, ProfileInv
<1>2. QED
  BY <1>1, Invariance, PTL

\* A presentation shows only what was asked for and, dispatched by the host, what
\* may be seen when it is resolved.
THEOREM Presented == Spec => []PresentationIsCurrent
<1>1. IInv => PresentationIsCurrent
  BY DEF IInv, PresentInv
<1>2. QED
  BY <1>1, Invariance, PTL

-----------------------------------------------------------------------------
(* What is gathered from a header.                                         *)

\* A walk comes to every place of a header exactly once.
LEMMA WalkIsBijection ==
  ASSUME NEW h \in Headers, NEW w \in Walks(h)
  PROVE  w \in Bijection(DOMAIN w, Places(h)) /\ DOMAIN w = 1 .. Cardinality(Places(h))
<1> DEFINE D == 1 .. Cardinality(Places(h))
<1>1. IsFiniteSet(Places(h)) /\ Cardinality(Places(h)) \in Nat
  BY HeaderTypes, FS_CardinalityType
<1>2. w \in [D -> Places(h)] /\ \A i, j \in D : i # j => w[i] # w[j]
  BY DEF Walks, SetToSeqs
<1>3. w \in Injection(D, Places(h))
  BY <1>2 DEF Injection, IsInjective
<1>4. Cardinality(D) = Cardinality(Places(h))
  BY <1>1, FS_Interval
<1>5. w \in Surjection(D, Places(h))
  BY <1>1, <1>3, <1>4, FS_Injection
<1>6. QED
  BY <1>2, <1>3, <1>5 DEF Bijection

\* The places a value is at are as many before a walk as after it.
LEMMA WalkKeepsCounts ==
  ASSUME NEW h \in Headers, NEW w \in Walks(h), NEW v
  PROVE  Cardinality({i \in DOMAIN w : At(h, w[i]) = v})
           = Cardinality({p \in Places(h) : At(h, p) = v})
<1> DEFINE I == {i \in DOMAIN w : At(h, w[i]) = v}
           P == {p \in Places(h) : At(h, p) = v}
           f == [i \in I |-> w[i]]
<1>1. /\ w \in [DOMAIN w -> Places(h)]
      /\ \A i, j \in DOMAIN w : w[i] = w[j] => i = j
      /\ \A p \in Places(h) : \E i \in DOMAIN w : w[i] = p
  BY WalkIsBijection DEF Bijection, Injection, IsInjective, Surjection
<1>2. f \in [I -> P]
  BY <1>1
<1>3. \A i, j \in I : f[i] = f[j] => i = j
  BY <1>1
<1>4. \A p \in P : \E i \in I : f[i] = p
  BY <1>1
<1>5. f \in Bijection(I, P)
  BY <1>2, <1>3, <1>4 DEF Bijection, Injection, IsInjective, Surjection
<1>6. IsFiniteSet(I)
  <2>1. IsFiniteSet(DOMAIN w)
    BY WalkIsBijection, HeaderTypes, FS_CardinalityType, FS_Interval
  <2>2. QED
    BY <2>1, FS_Subset
<1>7. QED
  BY <1>5, <1>6, FS_Bijection DEF ExistsBijection

\* Walking the spellings in any order gathers every value of the header, as often as
\* it is there.
LEMMA GatheringIsExact ==
  ASSUME NEW h \in Headers, NEW g \in Gathered(h)
  PROVE  /\ g \in Seq(Range(g))
         /\ g = <<>> <=> Places(h) = {}
         /\ Counted(g) = Values(h)
<1>1. PICK w \in Walks(h) : g = [i \in DOMAIN w |-> At(h, w[i])]
  BY DEF Gathered
<1>2. /\ w \in Bijection(DOMAIN w, Places(h)) /\ DOMAIN w = 1 .. Cardinality(Places(h))
      /\ Cardinality(Places(h)) \in Nat
  BY WalkIsBijection, HeaderTypes, FS_CardinalityType
<1>3. /\ w \in [DOMAIN w -> Places(h)]
      /\ \A p \in Places(h) : \E i \in DOMAIN w : w[i] = p
  BY <1>2 DEF Bijection, Surjection
<1>4. g \in Seq(Range(g))
  <2>1. g \in UNION {[1 .. n -> Range(g)] : n \in Nat}
    BY <1>1, <1>2 DEF Range
  <2>2. QED
    BY <2>1, SeqDef, Zenon
<1>5. g = <<>> <=> Places(h) = {}
  <2>1. g = <<>> <=> DOMAIN g = {}
    BY <1>4
  <2>2. DOMAIN g = {} <=> Places(h) = {}
    BY <1>1, <1>3
  <2>3. QED
    BY <2>1, <2>2
<1>6. Counted(g) = Values(h)
  <2>1. Range(g) = {At(h, p) : p \in Places(h)}
    BY <1>1, <1>3 DEF Range
  <2>2. \A v : Cardinality({i \in DOMAIN g : g[i] = v}) = Cardinality({p \in Places(h) : At(h, p) = v})
    <3> TAKE v
    <3>1. {i \in DOMAIN g : g[i] = v} = {i \in DOMAIN w : At(h, w[i]) = v}
      BY <1>1
    <3>2. QED
      BY <3>1, WalkKeepsCounts
  <2>3. QED
    BY <2>1, <2>2 DEF Counted, Values
<1>7. QED
  BY <1>4, <1>5, <1>6

\* A sequence holds just v once when it is <<v>>.
LEMMA CountsOne ==
  ASSUME NEW s, NEW v, s \in Seq(Range(s))
  PROVE  Counted(s) = [x \in {v} |-> 1] <=> s = <<v>>
<1>1. ASSUME s = <<v>> PROVE Counted(s) = [x \in {v} |-> 1]
  <2>1. Range(s) = {v}
    BY <1>1 DEF Range
  <2>2. {i \in DOMAIN s : s[i] = v} = {1}
    BY <1>1
  <2>3. Cardinality({i \in DOMAIN s : s[i] = v}) = 1
    BY <2>2, FS_Singleton
  <2>4. QED
    BY <2>1, <2>3 DEF Counted
<1>2. ASSUME Counted(s) = [x \in {v} |-> 1] PROVE s = <<v>>
  <2>1. Range(s) = {v}
    <3>1. DOMAIN Counted(s) = Range(s)
      BY DEF Counted
    <3>2. DOMAIN [x \in {v} |-> 1] = {v}
      OBVIOUS
    <3>3. QED
      BY <1>2, <3>1, <3>2
  <2>2. Counted(s)[v] = Cardinality({i \in DOMAIN s : s[i] = v}) /\ [x \in {v} |-> 1][v] = 1
    BY <2>1 DEF Counted
  <2>3. Len(s) \in Nat /\ DOMAIN s = 1 .. Len(s)
    OBVIOUS
  <2>4. {i \in DOMAIN s : s[i] = v} = 1 .. Len(s)
    BY <2>1, <2>3 DEF Range
  <2>5. Cardinality(1 .. Len(s)) = IF 1 > Len(s) THEN 0 ELSE Len(s) - 1 + 1
    BY <2>3, FS_Interval
  <2>6. Len(s) = 1
    <3>1. Cardinality(1 .. Len(s)) = 1
      BY <1>2, <2>2, <2>4
    <3>2. QED
      BY <2>3, <2>5, <3>1
  <2>7. s[1] = v
    BY <2>1, <2>3, <2>6 DEF Range
  <2>8. QED
    BY <2>6, <2>7
<1>3. QED
  BY <1>1, <1>2

\* A lease is forwarded whole, and is read only from a request that holds exactly
\* that one.
LEMMA EchoesGathered == IInv => LeaseIsEchoed
<1> SUFFICES ASSUME IInv PROVE LeaseIsEchoed
  OBVIOUS
<1>1. ASSUME NEW h \in Headers, NEW g \in Gathered(h), NEW v
      PROVE  HoldsJust(h, v) <=> g = <<v>>
  <2>1. g \in Seq(Range(g)) /\ Counted(g) = Values(h)
    BY GatheringIsExact
  <2>2. Counted(g) = [x \in {v} |-> 1] <=> g = <<v>>
    BY <2>1, CountsOne
  <2>3. QED
    BY <2>1, <2>2 DEF HoldsJust
<1>2. ASSUME NEW r \in R, req[r].kind = "call"
      PROVE  /\ at[r] # "begin" =>
                  /\ sent[r] = <<>> <=> DOMAIN req[r].header = {}
                  /\ Places(req[r].header) # {} => Counted(sent[r]) = Values(req[r].header)
             /\ \A v \in Canonical : ctx[r].lease = v <=> HoldsJust(req[r].header, v)
             /\ ctx[r].err <=> DOMAIN req[r].header # {} /\ ctx[r].lease = NoValue
  <2> DEFINE h == req[r].header
  <2>1. /\ h \in Headers /\ ctx[r] \in ContextsFor(h)
        /\ at[r] # "begin" => sent[r] = Forwarded(ctx[r])
    BY <1>2 DEF IInv, HeaderInv, HeaderInStep
  <2>2. PICK g \in Gathered(h) : ctx[r] = IF DOMAIN h = {} THEN Absent ELSE Transport(g)
    BY <2>1 DEF ContextsFor
  <2>3. g \in Seq(Range(g)) /\ Counted(g) = Values(h) /\ (g = <<>> <=> Places(h) = {})
    BY <2>1, <2>2, GatheringIsExact
  <2>4. \A v : HoldsJust(h, v) <=> g = <<v>>
    BY <1>1, <2>1, <2>2
  <2>4a. DOMAIN h = {} => Places(h) = {}
    BY DEF Places
  <2>5. ctx[r].present <=> DOMAIN h # {}
    BY <2>2 DEF Absent, Transport
  <2>6. DOMAIN h # {} => ctx[r].values = g
    BY <2>2 DEF Transport
  <2>7. ASSUME at[r] # "begin"
        PROVE  (sent[r] = <<>> <=> DOMAIN h = {}) /\ (Places(h) # {} => Counted(sent[r]) = Values(h))
    <3>1. CASE DOMAIN h = {}
      BY <2>1, <2>4a, <2>5, <2>7, <3>1 DEF Forwarded
    <3>2. CASE DOMAIN h # {} /\ g = <<>>
      <4>1. sent[r] = <<NoValue>>
        BY <2>1, <2>5, <2>6, <2>7, <3>2 DEF Forwarded
      <4>2. QED
        BY <2>3, <3>2, <4>1
    <3>3. CASE DOMAIN h # {} /\ g # <<>>
      <4>1. sent[r] = g
        BY <2>1, <2>5, <2>6, <2>7, <3>3 DEF Forwarded
      <4>2. QED
        BY <2>3, <3>3, <4>1
    <3>4. QED
      BY <3>1, <3>2, <3>3
  <2>8. /\ \A v \in Canonical : ctx[r].lease = v <=> HoldsJust(h, v)
        /\ ctx[r].err <=> DOMAIN h # {} /\ ctx[r].lease = NoValue
    <3>1. CASE DOMAIN h = {}
      <4>1. ctx[r].lease = NoValue /\ ctx[r].err = FALSE /\ g = <<>>
        BY <2>2, <2>3, <2>4a, <3>1 DEF Absent
      <4>2. \A v : ~HoldsJust(h, v)
        BY <2>4, <4>1
      <4>3. QED
        BY <3>1, <4>1, <4>2, HeaderTypes
    <3>2. CASE DOMAIN h # {} /\ Len(g) = 1 /\ g[1] \in Canonical
      <4>1. ctx[r].lease = g[1] /\ ctx[r].err = FALSE
        BY <2>2, <3>2 DEF Transport
      <4>2. \A v : g = <<v>> <=> v = g[1]
        BY <2>3, <3>2
      <4>3. QED
        BY <2>4, <3>2, <4>1, <4>2, HeaderTypes
    <3>3. CASE DOMAIN h # {} /\ ~(Len(g) = 1 /\ g[1] \in Canonical)
      <4>1. ctx[r].lease = NoValue /\ ctx[r].err = TRUE
        BY <2>2, <3>3 DEF Transport
      <4>2. \A v \in Canonical : g # <<v>>
        BY <3>3
      <4>3. QED
        BY <2>4, <3>3, <4>1, <4>2, HeaderTypes
    <3>4. QED
      BY <3>1, <3>2, <3>3
  <2>9. QED
    BY <2>7, <2>8
<1>3. ASSUME NEW r \in R, req[r].kind \in {"log", "origin"}, at[r] = "idle", NEW v \in Canonical
      PROVE  read[r] = v <=> HoldsJust(req[r].header, v)
  <2>1. req[r].header \in Headers /\ read[r] \in OneCanonical(req[r].header)
    BY <1>3 DEF IInv, HeaderInv, HeaderInStep
  <2>2. PICK g \in Gathered(req[r].header) :
          read[r] = IF Len(g) = 1 /\ g[1] \in Canonical THEN g[1] ELSE NoValue
    BY <2>1 DEF OneCanonical
  <2>3. g \in Seq(Range(g)) /\ (HoldsJust(req[r].header, v) <=> g = <<v>>)
    BY <1>1, <2>1, <2>2, GatheringIsExact
  <2>4. g = <<v>> <=> Len(g) = 1 /\ g[1] = v
    BY <2>3
  <2>5. QED
    BY <2>2, <2>3, <2>4, HeaderTypes
<1>4. QED
  BY <1>2, <1>3 DEF LeaseIsEchoed

\* Every call made for a request carries the lease values of the request, and a
\* lease, an id or an origin is read only where there is just one.
THEOREM LeaseForwarded == Spec => []LeaseIsEchoed
<1>1. IInv => LeaseIsEchoed
  BY EchoesGathered
<1>2. QED
  BY <1>1, Invariance, PTL
=============================================================================
