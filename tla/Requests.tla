------------------------------ MODULE Requests ------------------------------
(***************************************************************************)
(* The requests the SDK's own handlers serve in a plugin process, several  *)
(* at a time: a CPU profile of the process, a command of a settings        *)
(* section, a terminal presentation, and a handler of the plugin that uses *)
(* its host: calls it under the request's subject lease, posts to it, asks *)
(* for its settings, or reads the request's correlation id or origin.      *)
(* Requests meet at Go's one CPU profiler and at the set of terminals the  *)
(* principal may see now, a client may leave at any time, and the host may *)
(* never answer.                                                           *)
(*                                                                         *)
(* A private header is what its reader sees of it: the spellings of its    *)
(* name that are present and their values.  The host, net/http, the        *)
(* providers, the sections and the resolver of the authority are modelled  *)
(* from their use here.                                                    *)
(* A definition whose name starts with Bug is a mistake the definition     *)
(* after it could have been; it is not part of the model.                  *)
(***************************************************************************)
EXTENDS Naturals, SequencesExt

CONSTANTS
  R,          \* the requests handled at a time
  NoOne,      \* no request
  Canonical,  \* the values of a private header of the right length and digits
  NoValue,    \* ""
  Spellings,  \* the spellings of the header's name a request may hold
  Headers,    \* the private headers that may arrive: by spelling, the values
  Terminals

\* Where a header's values are, by spelling and position, and the value there.
Places(h) == UNION {{k} \X DOMAIN h[k] : k \in DOMAIN h}
At(h, p) == h[p[1]][p[2]]

ASSUME HeaderTypes ==
  /\ NoOne \notin R
  /\ NoValue \notin Canonical
  /\ \A h \in Headers :
       /\ DOMAIN h \subseteq Spellings
       /\ \A k \in DOMAIN h : h[k] \in Seq(Range(h[k]))
       /\ IsFiniteSet(Places(h))

VARIABLES
  req,        \* req[r]: the request
  at,         \* at[r]: what its handler does next; "idle" once it has returned
  gone,       \* the requests whose client has left: their context is done
  ctx,        \* ctx[r]: the subjectLeaseTransport of its context
  sent,       \* sent[r]: the lease values of the call it made to the host
  read,       \* read[r]: the id or the origin its handler has read
  profiler,   \* the request that has started the CPU profiler
  whole,      \* those whose capture ran to the end of its time
  authority,  \* the terminals the principal may see now
  shown,      \* shown[r]: the terminals of the provider's result
  current,    \* current[r]: those resolved for its admission
  lost,       \* lost[r]: those not to be seen any more since its provider ran
  answer      \* answer[r]: what the handler wrote

headerVars == <<ctx, sent, read>>
profileVars == <<profiler, whole>>
presentVars == <<authority, shown, current, lost>>
vars == <<req, at, gone, headerVars, profileVars, presentVars, answer>>

Requests ==
  [kind : {"profile"}, valid : BOOLEAN] \cup
  [kind : {"call", "log", "origin"}, header : Headers] \cup
  [kind : {"post", "ask"}] \cup
  [kind : {"settings"}, valid : BOOLEAN] \cup
  [kind : {"present", "http_present"}, valid : BOOLEAN, terminals : SUBSET Terminals]

Absent == [present |-> FALSE, values |-> <<>>, lease |-> NoValue, err |-> FALSE]

TypeOK ==
  /\ req \in [R -> Requests \cup {[kind |-> "none"]}]
  /\ at \in [R -> {"idle", "begin", "calling", "asking", "capturing", "captured", "projecting", "projected", "admitting"}]
  /\ gone \subseteq R
  /\ \A r \in R : ctx[r].lease \in Canonical \cup {NoValue} /\ ctx[r].present \in BOOLEAN
  /\ \A r \in R : sent[r] # <<>> => req[r].kind = "call"
  /\ read \in [R -> Canonical \cup {NoValue}]
  /\ profiler \in R \cup {NoOne}
  /\ whole \subseteq R
  /\ authority \subseteq Terminals
  /\ {shown, current, lost} \subseteq [R -> SUBSET Terminals]
  /\ answer \in [R -> {"none", "error", "conflict", "profile", "reply", "result"}]

Init ==
  /\ req = [r \in R |-> [kind |-> "none"]]
  /\ at = [r \in R |-> "idle"]
  /\ gone = {}
  /\ ctx = [r \in R |-> Absent]
  /\ sent = [r \in R |-> <<>>]
  /\ read = [r \in R |-> NoValue]
  /\ profiler = NoOne
  /\ whole = {}
  /\ authority \in SUBSET Terminals
  /\ shown = [r \in R |-> {}]
  /\ current = [r \in R |-> {}]
  /\ lost = [r \in R |-> {}]
  /\ answer = [r \in R |-> "none"]

Goes(r, to) == at' = [at EXCEPT ![r] = to]
Answer(r, a) == Goes(r, "idle") /\ answer' = [answer EXCEPT ![r] = a]

-----------------------------------------------------------------------------
(* ContextForRequest and SubjectLeaseFromContext.                          *)

\* The spellings in any order, as a Go map is walked, the values of each in theirs.
Walks(h) ==
  {w \in SetToSeqs(Places(h)) :
     \A i, j \in DOMAIN w : i < j /\ w[i][1] = w[j][1] =>
       \A m \in i .. j : w[m] = <<w[i][1], w[i][2] + m - i>>}

Gathered(h) == {[i \in DOMAIN w |-> At(h, w[i])] : w \in Walks(h)}

BugTransport(values) ==
  LET first == IF values = <<>> THEN NoValue ELSE values[1]
  IN  [present |-> TRUE, values |-> values, lease |-> first, err |-> first \notin Canonical]

Transport(values) ==
  IF Len(values) = 1 /\ values[1] \in Canonical
  THEN [present |-> TRUE, values |-> values, lease |-> values[1], err |-> FALSE]
  ELSE [present |-> TRUE, values |-> values, lease |-> NoValue, err |-> TRUE]

BugContextsFor(h) ==
  {IF v = <<>> \/ Transport(v).err THEN Absent ELSE Transport(v) : v \in Gathered(h)}

ContextsFor(h) == {IF DOMAIN h = {} THEN Absent ELSE Transport(v) : v \in Gathered(h)}

Arrive(r, q) ==
  /\ at[r] = "idle"
  /\ Goes(r, "begin")
  /\ req' = [req EXCEPT ![r] = q]
  /\ gone' = gone \ {r}
  /\ \E c \in (IF q.kind = "call" THEN ContextsFor(q.header) ELSE {Absent}) :
       ctx' = [ctx EXCEPT ![r] = c]
  /\ sent' = [sent EXCEPT ![r] = <<>>]
  /\ read' = [read EXCEPT ![r] = NoValue]
  /\ whole' = whole \ {r}
  /\ shown' = [shown EXCEPT ![r] = {}]
  /\ current' = [current EXCEPT ![r] = {}]
  /\ lost' = [lost EXCEPT ![r] = {}]
  /\ answer' = [answer EXCEPT ![r] = "none"]
  /\ UNCHANGED <<profiler, authority>>

\* CorrelationID and ExternalOrigin: absent, doubled or garbled, there is none.
OneCanonical(h) ==
  {IF Len(v) = 1 /\ v[1] \in Canonical THEN v[1] ELSE NoValue : v \in Gathered(h)}

LoggerForRequest(r) ==  \* without an id, the ordinary logger
  /\ at[r] = "begin"
  /\ req[r].kind = "log"
  /\ \E id \in OneCanonical(req[r].header) : read' = [read EXCEPT ![r] = id]
  /\ Answer(r, "reply")
  /\ UNCHANGED <<req, gone, ctx, sent, profileVars, presentVars>>

ExternalOrigin(r) ==
  /\ at[r] = "begin"
  /\ req[r].kind = "origin"
  /\ \E o \in OneCanonical(req[r].header) :
       /\ read' = [read EXCEPT ![r] = o]
       /\ Answer(r, IF o = NoValue THEN "error" ELSE "reply")
  /\ UNCHANGED <<req, gone, ctx, sent, profileVars, presentVars>>

-----------------------------------------------------------------------------
(* The host, called by a handler.                                          *)

\* A header that came without a value goes on as one empty value.
Forwarded(c) ==
  IF ~c.present THEN <<>> ELSE IF c.values = <<>> THEN <<NoValue>> ELSE c.values

\* rpcHost.Request: the lease is forwarded as it came.  Conn.Request of v2 does the
\* same, but has nothing to send for a header without a value.
CallHost(r) ==
  /\ at[r] = "begin"
  /\ req[r].kind = "call"
  /\ sent' = [sent EXCEPT ![r] = Forwarded(ctx[r])]
  /\ Goes(r, "calling")
  /\ UNCHANGED <<req, gone, ctx, read, profileVars, presentVars, answer>>

\* Publish, RegisterExtension, BumpContributions, a log line, Profiler.Set.
PostToHost(r) ==
  /\ at[r] = "begin"
  /\ req[r].kind = "post"
  /\ Goes(r, "calling")
  /\ UNCHANGED <<req, gone, headerVars, profileVars, presentVars, answer>>

AskHost(r) ==  \* StateDir and Profiler.Enabled, which have no deadline
  /\ at[r] = "begin"
  /\ req[r].kind = "ask"
  /\ Goes(r, "asking")
  /\ UNCHANGED <<req, gone, headerVars, profileVars, presentVars, answer>>

HostAnswers(r) ==
  /\ at[r] \in {"calling", "asking"}
  /\ Answer(r, "reply") \/ Answer(r, "error")
  /\ UNCHANGED <<req, gone, headerVars, profileVars, presentVars>>

BugOnlyClientEndsCall(r) ==
  /\ at[r] = "calling"
  /\ r \in gone
  /\ Answer(r, "error")
  /\ UNCHANGED <<req, gone, headerVars, profileVars, presentVars>>

CallTimesOut(r) ==  \* five seconds, or a Request whose client has left
  /\ at[r] = "calling"
  /\ Answer(r, "error")
  /\ UNCHANGED <<req, gone, headerVars, profileVars, presentVars>>

-----------------------------------------------------------------------------
(* serveCPUProfile.                                                        *)

ProfileRefused(r) ==  \* the method, the seconds, or a capture that is running
  /\ at[r] = "begin"
  /\ req[r].kind = "profile"
  /\ \/ ~req[r].valid /\ Answer(r, "error")
     \/ req[r].valid /\ profiler # NoOne /\ Answer(r, "conflict")
  /\ UNCHANGED <<req, gone, headerVars, profileVars, presentVars>>

StartCPUProfile(r) ==
  /\ at[r] = "begin"
  /\ req[r].kind = "profile"
  /\ req[r].valid
  /\ profiler = NoOne
  /\ profiler' = r
  /\ Goes(r, "capturing")
  /\ UNCHANGED <<req, gone, headerVars, whole, presentVars, answer>>

BugCancelledKeepsProfiler(r) ==
  /\ at[r] = "capturing"
  /\ \/ profiler' = NoOne /\ whole' = whole \cup {r} /\ Goes(r, "captured")
     \/ r \in gone /\ Goes(r, "idle") /\ UNCHANGED <<profiler, whole>>
  /\ UNCHANGED <<req, gone, headerVars, presentVars, answer>>

StopCPUProfile(r) ==  \* the timer, or the client has left
  /\ at[r] = "capturing"
  /\ Goes(r, "captured")
  /\ profiler' = NoOne
  /\ \/ whole' = whole \cup {r}
     \/ r \in gone /\ UNCHANGED whole
  /\ UNCHANGED <<req, gone, headerVars, presentVars, answer>>

ProfileAnswers(r) ==
  /\ at[r] = "captured"
  /\ Answer(r, IF r \in gone THEN "none" ELSE "profile")
  /\ UNCHANGED <<req, gone, headerVars, profileVars, presentVars>>

-----------------------------------------------------------------------------
(* SettingsSectionHTTPHandler.                                             *)

SettingsRefused(r) ==  \* no section, the method, the path or the body of a patch
  /\ at[r] = "begin"
  /\ req[r].kind = "settings"
  /\ ~req[r].valid
  /\ Answer(r, "error")
  /\ UNCHANGED <<req, gone, headerVars, profileVars, presentVars>>

SectionReturns(r) ==  \* of SectionSnapshot or SectionPatch; read-only is an error
  /\ at[r] = "begin"
  /\ req[r].kind = "settings"
  /\ req[r].valid
  /\ Answer(r, "reply") \/ Answer(r, "error")
  /\ UNCHANGED <<req, gone, headerVars, profileVars, presentVars>>

-----------------------------------------------------------------------------
(* DispatchTerminalPresentation, called by the host with its resolver, and *)
(* TerminalPresentationHTTPHandler, whose resolver is the request itself.  *)

Presents(r) == req[r].kind \in {"present", "http_present"}

PresentRefused(r) ==  \* no provider, a malformed request, or another owner's lease
  /\ at[r] = "begin"
  /\ req[r].kind = "present"
  /\ ~req[r].valid
  /\ Answer(r, "error")
  /\ UNCHANGED <<req, gone, headerVars, profileVars, presentVars>>

HTTPRefused(r) ==  \* the path, the method, the body, or by the dispatch as above
  /\ at[r] = "begin"
  /\ req[r].kind = "http_present"
  /\ ~req[r].valid
  /\ Answer(r, "error")
  /\ UNCHANGED <<req, gone, headerVars, profileVars, presentVars>>

Project(r) ==
  /\ at[r] = "begin"
  /\ Presents(r)
  /\ req[r].valid
  /\ Goes(r, "projecting")
  /\ UNCHANGED <<req, gone, headerVars, profileVars, presentVars, answer>>

ProjectReturns(r) ==  \* whatever the provider likes, or its error
  /\ at[r] = "projecting"
  /\ \/ \E ts \in SUBSET Terminals : shown' = [shown EXCEPT ![r] = ts]
        /\ Goes(r, "projected") /\ UNCHANGED answer
     \/ Answer(r, "error") /\ UNCHANGED shown
  /\ UNCHANGED <<req, gone, headerVars, profileVars, authority, current, lost>>

BugResolve(r) ==  \* the in-process dispatch trusts the request too
  /\ at[r] = "projected"
  /\ \/ current' = [current EXCEPT ![r] = req[r].terminals]
        /\ Goes(r, "admitting") /\ UNCHANGED answer
     \/ Answer(r, "error") /\ UNCHANGED current
  /\ UNCHANGED <<req, gone, headerVars, profileVars, authority, shown, lost>>

Resolve(r) ==
  /\ at[r] = "projected"
  /\ \/ current' = [current EXCEPT ![r] =
            IF req[r].kind = "present" THEN authority ELSE req[r].terminals]
        /\ Goes(r, "admitting") /\ UNCHANGED answer
     \/ Answer(r, "error") /\ UNCHANGED current
  /\ UNCHANGED <<req, gone, headerVars, profileVars, authority, shown, lost>>

Admit(r) ==  \* ValidatePresentationResult
  /\ at[r] = "admitting"
  /\ IF shown[r] \subseteq req[r].terminals \cap current[r]
     THEN Answer(r, "result") ELSE Answer(r, "error")
  /\ UNCHANGED <<req, gone, headerVars, profileVars, presentVars>>

-----------------------------------------------------------------------------
ClientLeaves(r) ==
  /\ at[r] # "idle"
  /\ gone' = gone \cup {r}
  /\ UNCHANGED <<req, at, headerVars, profileVars, presentVars, answer>>

Revoke(t) ==
  /\ authority' = authority \ {t}
  /\ lost' = [r \in R |-> IF at[r] \in {"projecting", "projected"} THEN lost[r] \cup {t} ELSE lost[r]]
  /\ UNCHANGED <<req, at, gone, headerVars, profileVars, shown, current, answer>>

Authorize(t) ==
  /\ authority' = authority \cup {t}
  /\ lost' = [r \in R |-> IF at[r] \in {"projecting", "projected"} THEN lost[r] \ {t} ELSE lost[r]]
  /\ UNCHANGED <<req, at, gone, headerVars, profileVars, shown, current, answer>>

\* What the goroutine of a request does by itself.
Handler(r) ==
  \/ LoggerForRequest(r) \/ ExternalOrigin(r)
  \/ CallHost(r) \/ PostToHost(r) \/ AskHost(r) \/ CallTimesOut(r)
  \/ ProfileRefused(r) \/ StartCPUProfile(r) \/ StopCPUProfile(r) \/ ProfileAnswers(r)
  \/ SettingsRefused(r) \/ PresentRefused(r) \/ HTTPRefused(r) \/ Project(r) \/ Admit(r)

Next ==
  \/ \E r \in R :
       \/ \E q \in Requests : Arrive(r, q)
       \/ Handler(r)
       \/ HostAnswers(r) \/ SectionReturns(r) \/ ProjectReturns(r) \/ Resolve(r)
       \/ ClientLeaves(r)
  \/ \E t \in Terminals : Revoke(t) \/ Authorize(t)

\* A goroutine goes on and a timer fires; host, provider and section owe nothing.
Spec == Init /\ [][Next]_vars /\ \A r \in R : WF_vars(Handler(r))
-----------------------------------------------------------------------------
Counted(s) == [v \in Range(s) |-> Cardinality({i \in DOMAIN s : s[i] = v})]
Values(h) ==
  [v \in {At(h, p) : p \in Places(h)} |-> Cardinality({p \in Places(h) : At(h, p) = v})]
HoldsJust(h, v) == Values(h) = [x \in {v} |-> 1]

\* A call made to the host while a request is handled carries every lease value
\* the request held, under whatever spelling and garbled or doubled as they are:
\* none is dropped, nor is a header that came without any, so that the host refuses
\* the call instead of taking it for the plugin's own.  A lease, a correlation id or an origin is read from a
\* request that held exactly that one.
LeaseIsEchoed ==
  \A r \in R :
    /\ req[r].kind = "call" =>
         /\ at[r] # "begin" =>
              /\ sent[r] = <<>> <=> DOMAIN req[r].header = {}
              /\ Places(req[r].header) # {} => Counted(sent[r]) = Values(req[r].header)
         /\ \A v \in Canonical : ctx[r].lease = v <=> HoldsJust(req[r].header, v)
         /\ ctx[r].err <=> DOMAIN req[r].header # {} /\ ctx[r].lease = NoValue
    /\ req[r].kind \in {"log", "origin"} /\ at[r] = "idle" =>
         \A v \in Canonical : read[r] = v <=> HoldsJust(req[r].header, v)

\* The CPU profiler is held by the request that is capturing and by nobody else,
\* also when its client left, and a capture that was cut short is never answered.
ProfilerIsReleased ==
  /\ \A r \in R : profiler = r <=> at[r] = "capturing"
  /\ \A r \in R : answer[r] = "profile" => r \in whole

\* A presentation shows only terminals that were asked for and, when the host
\* dispatches it, none it stopped authorizing while the provider ran.
PresentationIsCurrent ==
  \A r \in R : Presents(r) /\ answer[r] = "result" =>
    /\ shown[r] \subseteq req[r].terminals
    /\ req[r].kind = "present" => shown[r] \cap lost[r] = {}

\* A handler that calls the host or posts to it, or captures a profile, returns,
\* whatever the host does and whether its client stays or leaves.
HandlersReturn ==
  \A r \in R : (at[r] # "idle" /\ req[r].kind \in {"call", "post", "profile"}) ~> at[r] = "idle"
=============================================================================
