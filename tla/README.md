# Verification of the ByteDesk remote gateway plugin SDK

A plugin of the ByteDesk gateway is a process of its own. The SDK is the library
it is built on: it opens the way to the host (a NATS connection in v2, an RPC
socket in v1), agrees with the host on what this generation of the plugin is, runs
the plugin's hooks in order, and takes everything down again. This directory
holds TLA+ models of that library, of its concurrent and failure-prone parts
first, the TLC configurations that check them, and TLAPS proofs that
each of the models keeps its invariants for every value of its constants.

All source paths below are relative to `src/`.

## 1. Inventory

### v2 bus connection: subscriptions (`v2/transport/natsconn/natsconn.go`, `sub.go`)

*State.* `Conn.subs`, the registry of live subscriptions under `c.mu`; for each
subscription its `once`, `err`, the channel `done` and the nats subscription with
its queue; the queue of errors nats.go has for the error handler.
*Operations.* `Subscribe`, `Cancel`, `Drain`, `Close`, `onAsyncError` (slow
consumer, permission violation), `finish`, `forget`.
*Interactions.* Five kinds of goroutine meet in `subscription.finish`: the
plugin's callers, `Close`, nats.go's callback goroutine and its delivery
goroutines. The broker refuses out of band.
*Hard.* Who ends a subscription first; an error that arrives before the
registry knows the subscription, or after it has ended; a `Drain` that waits for
nats.go; a `Close` concurrent with all of these.
*Correct means.* The registry is exact; `Done` closed means that no further message
is handed over, and at most the one taken before is still handled; `Cancel`, `Drain`
and `Close` return only then; the reason has a cause and is recorded once; `Cancel`,
`Close` and a `Drain` with a deadline do return.

### v2 bus connection: publish, request, respond (`natsconn.go`, `workload.go`, `headers.go`)

*State.* `deniedPublish`, the negotiated capabilities (`caps`, `bound`), the host
call token. *Operations.* `Publish`, `Request`, `Respond`, `Negotiated`,
`BindHostCallToken`, `bindHostCallHeader`, `denied`, `requestFault`, and the
recording half of `onAsyncError`.
*Hard.* A publish returns before the broker has refused it; the callback that
records the refusal races with other calls; the handshake narrows the ceiling and
binds the token while calls are under way.
*Correct means.* A refusal is recorded, only a true one, and holds for all calls
that look after it; nothing over the ceiling goes out; the token goes to the
gateway only; what the handshake set stays; a request that was refused, or that
nobody answers, returns by its deadline.

### v2 services (`services.go`)

*State.* A service's subscriptions, `once`, `done`, its counters; a gather's
result slice and its mutex. *Operations.* `Serve`, `Stop`, `Discover`, `Stats`
(both are `gather`), `Call`, and the handlers of the nine discovery patterns.
*Interactions.* Every endpoint and every inbox is a subscription of the
connection. *Hard.* `Serve` failing in the middle; two callers of `Stop`;
handlers still running when `Stop` or `Discover` returns.
*Correct means.* What is stopped is gone; a failed `Serve` leaves nothing; a call
taken before is the last one; `Stop` and a gather end. (That a service is
discovered only when all its endpoints are mounted is the order of `Serve`'s
loop, `Ready` in the model, and no property of its own.)

### v2 plugin lifecycle and handshake (`v2/plugin_serve.go`, `protocol.go`, `lifecycle.go`)

*State.* The step `ServePlugin` is at, its context, the connection, the host's
reply, the binding, the lifecycle endpoints and their calls.
*Operations.* Preflight, `waitForCreds`, `Dial`, `negotiate`, `CheckProtocol`,
`checkIdentity`, `Bind`, `Validate`, `Start`, `mountLifecycle`, the HTTP server and
the deferred functions. *Interactions.* The host writes the credential, answers
the negotiation and calls the hooks; the caller cancels.
*Hard.* Fifteen steps that can fail, each with its own set to undo; hooks running
in other goroutines while the plugin starts and stops.
*Correct means.* What is started is stopped, with its bus still there; hooks run
only inside; no error is lost; nothing is held at the end; the binding is one
generation of this plugin.

### v1 RPC host (`rpchost.go`)

*State.* `subs`, `ticks`, `started`, `stop`, `lastFault`, the counters, and the
callback stream. *Operations.* `Start`, `readCallbacks`, `Close`, `Subscribe`,
`Every`, what these two return, `recordFault`, `Counters`, `LastFault`; one post
each: `Publish`, `Request`, `Negotiate`, `RegisterExtension`, the logger, the
profiler, `BumpContributions`; one get: `StateDir` (these in the modules of the
next two sections).
*Hard.* A callback that comes before the answer that registers it; `Start`
against `Start`, `Close`, its own timer and a stream that opens late; a handler
ended while the reader has it in hand.
*Correct means.* No callback of the kind a standing registration was made for finds
it unknown; one live stream; every callback received is run, counted as unmatched,
of a kind the reader ignores, or in hand; a handler given up runs at most once more;
`Start` returns and the readers of cancelled streams end.

### v1 plugin lifecycle (`plugin_serve.go`, `serve.go`)

*State.* The step `ServePlugin` is at, the host made here or passed in, the hooks
the host acknowledged, those run here. *Operations.* The two negotiations,
`Start`, `LastFault`, activation check and readiness, the HTTP server, `Stop`.
*Interactions.* The host answers with anything and calls acknowledged hooks; a
registration fails behind the plugin's back (`RpcHost`).
*Hard.* A host that refuses the hooks is asked again without them; from then on
they are this side's to run.
*Correct means.* The promises of the v2 lifecycle; whichever negotiation succeeded,
no hook is run by both sides, and of a served plugin the activation check and the
readiness hook by one of them (of the health hook, see section 6).

### Requests of the handlers (`profile.go`, `settings_section.go`, `terminal_presentation.go`, `http_subject.go`, `http_correlation.go`, `http_origin.go`, `subject_lease.go`, and the posts of `rpchost.go`)

*State.* The process's CPU profiler; the context a request carries; the
principal's terminals. *Operations.* One handler each, run concurrently.
*Interactions.* The client leaves, the host may never answer, terminals are
revoked while a provider works.
*Hard.* Headers that arrive doubled, garbled or under two spellings; a capture cut
short; a result judged against what was true before it was made.
*Correct means.* A lease is echoed as it came and never taken for missing; the
profiler is released; a presentation shows only what may still be seen; handlers
with a deadline return.

### Browser component client and document paths (`ui/components.js`, `ui/index.js`)

*State.* A replica's snapshot, revision, queue of early events, `closed`.
*Operations.* `connectComponent`, `onEvent`, `dispose`, the handle's methods;
`matchDocumentPath`, `documentPathsOverlap`, `compareRuntimeRevision`.
*Interactions.* Change events and the snapshot reply over different channels; the
host withdraws or goes away.
*Hard.* Any order of these; a disposal during an await.
*Correct means.* The replica is the host's component at its newest revision that
arrived; after disposal nothing is heard or returned; overlap is reported exactly
when a path matches both patterns.

### Not modelled

* Contract re-exports (`types.go`, `components.go`, `projects.go`, `validate.go`,
  `pack.go`, `messaging/`, `v2/alias.go`, the typed packages under `v2/`): aliases
  of types and functions of the dependencies module, nothing of their own.
* Checks of shapes with no state: `isRuntimeSnapshot`, `validateArguments`,
  the generated validators and schemas (`ui/contracts.js`, `ui/v2/`), `trace.go`.
* `availableComponents`, `assign` and `contribute` of the browser: one request each.
* The unsupported surfaces (`unsupported.go`): each method returns one fault.
* The commands under `cmd/` and `v2/cmd/`: sequential input and output.
* The fake broker, a test double. nats.go, the broker, the gateway, `serve.Serve`
  and `plugin.Bind` are not in this repository; the models describe them from how
  the code uses them, and their definitions are marked external in `PROJECT.json`.
* Inside modelled parts: queue groups, the counters of requests and errors of a
  service, the logger's text, several listeners of one handle (the copy `update`
  takes of them).

## 2. Modules

| module | models | state | actions |
|---|---|---|---|
| `SubscriptionContract` | what a `bus.Subscription` promises | status, reason, released | `Open`, `End`, `Release` |
| `NatsConn` | subscriptions of `natsconn.Conn` | `subs`, `once`, `err`, the program counters of each call, nats.go's queues | one per observable statement of `Subscribe`, `finish`, `Cancel`, `Drain`, `Close`, `onAsyncError`, and nats.go's own |
| `NatsPublish` | what a `Conn` sends | `deniedPublish`, `maxPayload`, `bound`, `token`, each caller's call | the look, the size check and the send of each call, the ends of a request, the handshake's two writes, the broker |
| `Services` | `bus.Services` | `subs`, `once`, `done`, the gather | `Mount`, `MountRefused`, `StopCalled`, `CancelEnds`, `CancelReturns`, `Gather...`, `TakeCall`, `RunCall` |
| `PluginLifecycle` | what serving a plugin promises | host, plugin, serving, returned | `Open`, `Start`, `Serve`, `Withdraw`, `Stop`, `Return` |
| `ServePlugin` | v2 `ServePlugin` | `pc`, contexts, bus, reply, binding, hooks, errors | one per step, one per deferred function, the hooks, the host |
| `ServePluginV1` | v1 `ServePlugin` | `pc`, the host and what it can do, `acked`, `local`, `remote`, `faults` | one per step, the two negotiations, the host's calls of hooks |
| `RpcHost` | v1 `rpcHost` | `started`, `stop`, the maps, streams, counters | `Start...`, `Reader...`, `Register...`, `Unsubscribe...`, `Close`, the host |
| `Requests` | the SDK's handlers and the calls a plugin's handler makes | `at`, `ctx`, `profiler`, `authority`, what was sent and answered | `Arrive`, one per statement that waits or answers, `ClientLeaves`, `Revoke`, `Authorize` |
| `ComponentClient` | `connectComponent` and its controller | `queued`, `revision`, `current`, `closed`, the host's `history` | `Connect`, `Continue`, `OnEvent`, `Abort`, `HandleDispose`, `Invoke`, the host |
| `ReplicaContract` | what a browser's handle of a component promises | history, status, rev, shown, heard, given | `Publish`, `Open`, `Advance`, `Give`, `End` |
| `UiIndex` | pure functions of `ui/index.js` | none | operators, compared with reference definitions |
| `NatsConnProofs`, `NatsPublishProofs`, `ServePluginProofs`, `ServePluginV1Proofs`, `ServicesProofs`, `RpcHostProofs`, `RequestsProofs` | TLAPS proofs about the module so named | | |
| `BrowserProofs` | TLAPS proofs about `ComponentClient`, `ReplicaContract` and `UiIndex` | | |
| `MC...` | instances for TLC | | |

*Composition.* `Services` is built over `SubscriptionContract` (`Sub == INSTANCE
SubscriptionContract`): it takes the contract's actions for its endpoints, probes
and inbox, `NatsConn` is checked and proved to implement that contract, and a
service is proved to use it within its terms (`WithinContract`).
`ServePlugin` implements `PluginLifecycle` through the mapping written beside
`Lifecycle`; its hooks' endpoints follow `Services` (cancel ends a subscription, a
call already taken still runs). `ServePluginV1` is a second implementation of
`PluginLifecycle`, and takes from `RpcHost` that a registration may have failed by
the time `LastFault` is read (the stream's own end goes to `streamErr` instead). `ComponentClient` implements
`ReplicaContract`, which knows neither events nor replies: its `Status` is `absent`
until `connectComponent` returns, `live` from then to a disposal, and `gone` after
that or after a throw; its `Rev` is `revision`, or 0 before the reply.

*Atomicity.* A critical section of a mutex is one step. What runs outside one is
divided wherever another goroutine can see the difference: `finish` is four
steps; a publish is the look into `deniedPublish`, the size check and the send;
the RPC reader looks a handler up and runs it in two; nats.go's goroutine takes a
message and has it handled in two, so that a handler may begin after the end of its
subscription; a presentation is the
provider, the resolver and the admission. JavaScript runs to completion between
two awaits, so such a stretch is one action of `ComponentClient`. Counters that only one
goroutine reads and writes share a step with what they count.

*Data.* Messages are counted or are the sizes and headers the code looks at.
Subjects, ids, tokens and generations are model values; a token is well formed or
`Malformed`. A private header of a request is a function from the spellings of its
name to their values, and a walk of it an order of the places they are at; a
pattern of a document path is a sequence of records, a revision the sequence of its
digits. Error texts are left out: `findBySubject` compares subjects.

A definition whose name starts with `Bug` is not part of a model. It is a mistake
the definition after it could have been, and `PROJECT.json` names for each
property the one that breaks it.

## 3. Runs

Every passing run explores its whole state space. Distinct states are in brackets.

| run | shows |
|---|---|
| `conn` [534 728] | Two subscriptions of one subject, one of them cancelled and drained with a deadline, under every interleaving of `Subscribe`, `Cancel`, `Drain`, `Close`, errors and delivery: type, `EndedIsGone` (also that a handler run begun after the end is the last one), `ReturnMeansEnded`, `ReasonHasCause`, `ImplementsContract`; `Cancel`, a `Drain` with a deadline and `Close` return (`EndsReturn`), and an error ends every registered subscription of its subject (`AsyncErrorEnds`). |
| `conn_drain`, `conn_refusal` | Violations; see section 6. |
| `publish` [417 104] | A goroutine on a gateway subject and another one, while grants come and go, refusals arrive late, the connection closes and the handshake runs with a host that reports no, a narrower or a wider ceiling: type, `AtMostOneLateSend`, `PublishWithinCeiling`, `TokenStaysWithGateway`, `RefusedOrReturned`. |
| `services` [47 328] | An endpoint and a probe, two stoppers, a gather, faults that end any subscription: type, `StoppedMeansEnded` (a stopped service and a failed `Serve` leave nothing, and one call taken before at most runs after), `StopAndGatherEnd`. |
| `services_gather` | Violation; see section 6. |
| `serve` [900 310] | Two hooks, two majors, ids and generations, every set of features and capabilities, tokens well formed, malformed and missing, the bus dialled or passed in: type, `BindingIsOneGeneration`, `HooksRunInsideTheStart`, `ReturnReleases` (no error is lost, too), `ImplementsLifecycle`, `ServeComesBack`. |
| `serve_denied` | Violation; see section 6. |
| `serve_v1` [101 342] | Every set of three hooks a plugin may have, every protocol it may declare, a host passed in with any of its interfaces or made here, every reply to one and two negotiations: type, `HooksOnOneSide` (never on both; activation and readiness of a served plugin never on neither), `ReturnReleases`, `ImplementsLifecycle`. |
| `rpchost` [406 813] | Two calls of `Start`, each with its context and its stream, `Close` at any time, one registration, and a host that writes two lines of any sort: events and ticks for the id, a kind the reader does not know, no callback at all, a line too long. Type, `CallbacksAccounted` (no callback of the registration's kind finds it unknown while it stands; received is run, unmatched, ignored or in hand), `OneLiveStream`, `LateHandlerBounded`, `StartAndReaderEnd`. |
| `requests` [208 922] | Two requests of any kind at once; leases absent, canonical, garbled, doubled, under two spellings, and a header without a value; one terminal that is authorized and revoked at any time: type, `LeaseIsEchoed`, `ProfilerIsReleased`, `PresentationIsCurrent`, `HandlersReturn`. |
| `browser` [71 052] | A component of up to three revisions and one method call, with every order of events, reply, withdrawal, abort and disposal: type, `ReplicaIsTrue` (a live replica is the host's component at its revision, the newest heard of, and with no event on its way the host's newest), `ImplementsReplica` (a handle shows the component at one revision, moves forward only, and once disposed of stands still, tells nobody and gives no result), `ComesToRest`. Its initial states also compare the pure functions of `UiIndex` with their definitions (`PatternsAndRevisionsAgree`): all patterns of up to three segments, all revisions of up to three digits. |

*Bounds.* All bounds are constants. `QueueBound`, `ErrBound`, `WireBound`,
`Writes` and `MaxRevision` cap queues and counters in the guards of what fills
them; they are set so that a queue can hold one element while another is handled,
or overflows (`PendingLimit = 1`, with one more on its way). In `conn` messages go to the
subscription that is cancelled and drained, and the broker may refuse the other one
(`Ungranted`): of one subject, the refusal reaches both. Two subscriptions,
stoppers, starters or requests are enough because every property relates at most
two of them; a failing `Serve` needs one mount before the one that is refused, and
the endpoint and the probe are those two. One goroutine does for `NatsPublish`,
whose properties speak of one call against the callback goroutine and the
handshake, and the proofs of section 5 lift the bounds of the safety properties altogether. Three revisions are the fewest that arrive as an older,
the current and a newer one. A path one segment longer than any pattern suffices
for `OverlapIsExact`: a wildcard does not look at what it swallows; the digits 0,
1 and 9 are the least, the greatest and one between. Counters of late runs stop at
2, one more than the properties allow. No run uses symmetry.

*Deadlock.* `NatsConn`, `Services` and `ComponentClient` may stop (everything
closed, no one calls, the handle disposed of), so their configurations switch the
check off. In both `ServePlugin`s the only terminal state is `Returned`, a
stuttering step, so a step that no one can take would be reported. `RpcHost`,
`NatsPublish` and `Requests` always have an enabled call.

## 4. Fairness

* `NatsConn`: a goroutine inside `finish`, `Close`'s loop, `onAsyncError` or a
  returning `Cancel` or `Drain` runs on, because Go's scheduler is fair and none
  of these steps waits for the plugin or the broker; a deadline passes. Nothing
  is assumed of handlers, of nats.go's delivery and draining, of the broker or of
  callers, and nothing of `Subscribe`, which may stop half way.
* `NatsPublish`: nats.go's callback goroutine runs; `Request` gives a context
  without a deadline one of its own, so the timeout comes.
* `Services`: goroutines run and handlers return; taking `mu` against handlers
  that keep coming is strongly fair, which is what `sync.Mutex` gives (a waiter
  that has starved is handed the lock).
* `ServePlugin`: the main goroutine runs; `Validate`, `Start` and `Stop` of the
  plugin return (the SDK gives them a context and cannot interrupt them); time
  passes for the credential's deadline; the HTTP server returns when its context
  is done. It is not assumed that the host writes the credential.
* `RpcHost`: `Start` goes on when its timer fires, a request for the stream whose
  context is done returns, the reader's goroutine runs, handlers return. It is not
  assumed that the host answers or writes anything, nor that the posts of
  registrations come back.
* `ServePluginV1`: none; its properties are about what a step may do.
* `Requests`: the goroutine of a handler goes on, which includes its timer: five
  seconds for a call or a post, the seconds asked for of a capture. The host, the
  provider, the section and the resolver owe nothing, so handlers that wait for
  those are not in `HandlersReturn`; nor are `StateDir` and `Profiler.Enabled`,
  which the code gives no deadline.
* `ComponentClient`: the host answers the snapshot request and delivers each event
  once to a subscriber, and the browser's event loop goes on. The client has no
  timeout, so without an answer it waits; the assumption is the host's promise,
  not the code's. A withdrawn component's snapshot is refused.

## 5. Proofs

Every safety invariant of a passing run, and all four refinements (`NatsConn`, both
`ServePlugin`s, `ComponentClient`), are proved for every value of the constants. The assumptions are named in the modules that declare the constants
and TLC evaluates them: values that stand for "none" (`NoSub`, `NoToken`, `NoOne`,
`NoReply`, ...) are not members of what they stand beside, the sets of endpoints,
probes and hooks are told apart, bounds are naturals, the transport's ceiling is
positive, the host's component has a revision (`HostHasRevisions`), a path may
have a segment (`SegmentsExist`), and digits are decimal (`DigitsAreDecimal`). `HeaderTypes` says that a spelling of a header
is there with a sequence of values, and that they are finitely many, as `net/http` has it.

All proofs have one shape. `IInv` is the inductive invariant, TLC has found it
true on the run of its module (in `RpcHostProofs` with the positions of `Pending`,
which range over `Nat`, up to the longest queue), `InitIInv` and `NextIInv` show that it is inductive
with one step per action, `Invariance` is the temporal theorem, and what the runs
check follows from it. Where the parts of an invariant depend on few of the
others, `NextIInv` is put together from one lemma per part (`NextHooks`,
`NextCounts`, ...). What makes each of them inductive:

* `NatsConnProofs`. `TypeOK`, `RegistryIsExact` and five parts: only a
  subscription the plugin was given is ever claimed by `finish`
  (`ClaimedIsLive`); past its first statement nats.go takes nothing more
  for it (`PastUnsubscribe`), and whoever has a message in hand has run no handler since the
  end (`DeliveryInStep`); a call that is in `finish` has taken the Once or found it
  taken, and one that returned left the subscription ended (`CallsClaim`); what
  `Close`'s loop has passed has ended (`CloseLoop`); what `onAsyncError` goes
  through came from the registry (`AsyncLoop`). They are needed because `Done` is
  closed by whichever goroutine got to the Once first: each of the others has to
  be known to be waiting for the same one. `ReturnMeansEnded` for `Close` needs
  `CloseLoop`: what is in the snapshot is still to come, being ended, or ended.
  `ReasonCaused` takes a second invariant on the queue of errors and on what the
  loops carry; `DenialIsOwn` adds to it that no two subscriptions share a subject,
  and then a denial is of the subscription the broker refused. `Refinement`: every step maps to a step of `SubscriptionContract`
  or to a stutter; `FinishClose` is `End`, everything else of `finish` is invisible.
* `NatsPublishProofs`. What a call under way still knows (`CallsInv`: its arguments,
  and that past the look it has sent nothing late and past the size check it fits
  the ceiling in force); nothing is late before its refusal is recorded
  (`LateInv`); every queued refusal is one the broker made (`RefusalInv`).
  `IntersectNarrows` is the arithmetic of the ceiling.
* `ServePluginV1Proofs` and `ServePluginProofs`. `pc` decides almost everything:
  the state of the plugin (`PluginInStep`), of the host or the bus (`HostInStep`,
  `BusInStep`), of the context (`ContextInStep`), and that a failed step is the
  last before the deferred ones and is in the result (`FaultsInStep`). In v1, no
  hook is the host's before a negotiation has succeeded and none runs before
  `Start` has returned (`HooksInStep`), so that falling back to a host without
  hooks cannot leave one on both sides. In v2, the reply is looked at before
  anything is bound to it (`BindingInStep`), and a call already taken when `Stop`
  begins runs with a context that is done (`HooksInStep`). `Refinement`, twice:
  `Start`, `Serve`, `Withdraw`, `Stop` and `Return` of `PluginLifecycle` are each
  taken by the steps the mapping shows, every other step of either program leaves
  the mapped state alone, and the two SDK generations keep the same promises.
* `ServicesProofs`. A live mount is in `svc.subs` or in what `Stop` has still to
  cancel (`MountsInStep`), once the Once has begun there is no way back into
  `svc.subs` (`OnceInStep`), and what a goroutine had taken when `Stop` returned
  is not counted yet (`LateInStep`).
* `RpcHostProofs`. The call that holds `startMu` is the one whose stream is
  waited for, and a stream neither started nor being started has a context that is
  done (`StartInStep`), which is what keeps a late stream from living beside a new one;
  an id is in the maps exactly while its registration stands (`RegInStep`); a
  reader that found a handler has not run it since (`LateInStep`). The counters
  are balanced by two finite sets, the readers with a callback in hand and the
  places of the queues that hold a line (`CountsInStep`), so that the sum over the
  queues needs no recursive definition; lines that are skipped, or left unread when
  the reader ends, leave the second set uncounted.
* `RequestsProofs`. A handler answers once, at its end (`AnswersLast`); a capture
  that is over with its client still there ran to its end (`ProfileInStep`); while
  a provider runs no terminal is both authorized and lost, and the resolver's
  answer misses what was lost (`PresentInStep`); what a call carries was gathered
  from its own request's header (`HeaderInStep`). That gathering keeps each value as
  often as it is there (`GatheringIsExact`) needs no induction over the header: a
  walk is a bijection from positions to the places of the header's values, so the
  places of each value are as many before it as after.
* `BrowserProofs`. A revision that is on its way, queued or answered is one the host
  has (`RevsInStep`); while the reply is awaited the newest revision heard of is
  in the queue (`LatestInStep`), which is why the sorted queue and the reply
  together come to the newest (`MaxIs`); a disposed handle is unsubscribed and
  past `idle` (`ClosedInStep`). `AfterDispose` then goes through the steps: a
  queue still to be sorted is refused, and so is an answer to a method's call.
  That no revision is missed between the subscription and the read is `NoneMissed`:
  the host's newest is the newest heard of, or an event of it is queued or on its
  way, or the reply that is awaited will tell of it.
  `Refinement` needs a second invariant (`HandleInStep`): before it is connected a
  replica is at no revision and has no calls, and a `connectComponent` that found
  the host gone, which throws without disposing of anything, was never subscribed,
  so that no event can reach what it left. An event is then `Advance`, `End`, or
  invisible; the reply with the queue is `Open`; only a live handle's method `Give`s.
* `UiIndex`, in `BrowserProofs`. `PatternsOverlap` proves `OverlapIsExact` for
  patterns of any length: from two that overlap it makes the path that takes the
  literals of both. `RevisionsOrdered` proves `RevisionsAreNumbers` for revisions of
  any length. The number a revision spells is a recursive function, so a function
  that obeys its equation is shown to exist first (`ValuesAre`). A longer revision
  spells the greater number because it does not begin with 0: it is at least 1
  when the shorter begins, and a digit more keeps the order (`DigitMore`). Of two of
  one length, the first digit that differs decides, and keeps deciding; that there
  is a first is `Least`. The library's induction theorems have an operator for a
  parameter and cannot be used; these inductions are about sets instead
  (`SetInduction`: a set of naturals that has 0, and with each number the next,
  has all), which follows from `Least`, and that from the well-foundedness of `<`.

What the contracts promise is proved of the contracts alone and then of what
implements them. `ContractPromises` (`ServicesProofs`): what was released has ended,
an end and its reason are final; with `WithinContract` and `StopEnds`,
what a `Stop` that returned has ended stays so, for the reason it had then
(`StoppedForGood`). `LifecyclePromises` (in each `ServePlugin`'s module, through its
own mapping): the plugin is started and stopped once, with the host reachable from
one to the other; `HostOutlives` is that for the program. `ReplicaPromises`
(`BrowserProofs`): a live handle shows the component at its revision and never goes
back; `NeverBack` is that for `connectComponent`.

`RegistryExact`, `ReasonFinal`, `DenialIsOwn`, `DenialTrue`, `BindingsFinal`, `AfterDispose` and the
promises of the contracts are proved without being properties of a run themselves:
the runs check what they follow from, or what follows from them.

*Only model-checked.* Liveness (`EndsReturn`, `AsyncErrorEnds`,
`RefusedOrReturned`, `ServeComesBack`, `StartAndReaderEnd`, `StopAndGatherEnd`,
`HandlersReturn`, `ComesToRest`): fairness and `ENABLED` are beyond the prover. The
four violations of section 6 are counterexamples, and stay with TLC as well.

## 6. Where the code and what it says differ

* `conn_drain`: `Drain` never sees a clean drain complete. It waits for `done`,
  which only `finish` closes, and nothing calls `finish` when nats.go has
  delivered the queue. With a deadline it reports a timeout, without one it waits
  for ever (`sub.go:41`).
* `conn_refusal`: a violation handled between `nc.Subscribe` and the entry in
  `c.subs` finds nothing to end (`natsconn.go:333`).
* `services_gather`: a reply taken before the window closed is appended to the
  slice `Discover` has returned (`services.go:130`).
* `serve_denied`: the broker's denial of a lifecycle endpoint arrives after the
  mount has succeeded, and nothing stops the plugin (`plugin_serve.go:186`).

Four more are without a run. Each is a state the models reach, and the property
of its module says no more than what is true of it:

* `Close`: a `Subscribe` that enters `c.subs` after `Close` has
  copied it is left live on a closed connection (`natsconn.go:350`). This is why
  `ReturnMeansEnded` speaks of the subscriptions `Close` found.
* `onAsyncError`: `natsconn.go:390` says that a violation ends "that subscription",
  and the fault it records (`:413`) that the grant does not cover "this
  subscription". The violation is looked up by subject alone (`:444`): another
  subscription of the subject, made after the refused one was cancelled or under a
  wider grant, is ended as denied as well. `HasCause` asks of a denial no more than a
  refusal of that subject; `DeniedWasRefused` is the comment's claim, and
  `DenialIsOwn` proves when it holds.
* `readCallbacks`: `Counters` is to tell a callback that never reached its handler
  from one never sent (`rpchost.go:48`), and `unmatched` counts those "whose id
  matched no handler" (`:429`). A callback of a kind other than `event` and `tick` is
  counted as received and nothing else, whether its id is known or not (`:203`);
  `CallbacksAccounted` has it as `ignored`.
* `ServePlugin` of v1: "an older host that rejects the advertisement leaves every
  hook running locally, as before" (`plugin_serve.go:29`). Only the activation check
  and the readiness hook are run here (`:90`); the health hook of such a plugin is
  run by nobody. `HooksOnOneSide` is stated of the other two.

Three statements need no run to be seen as inexact, since one line decides each:
`v2/README.md:73` says nothing can refuse after `Start`, while mounting the
lifecycle endpoints comes after it and can; and `protocol.go:81` says the
effective capabilities are intersected with the transport's, while with
`PluginConfig.Bus` set they are the host's own (`plugin_serve.go:114`); and the limit of a settings patch admits one byte more than
it names (`settings_section.go:70`). The models follow the code in the first two;
sizes of bodies are not in the third.

Seen and not stated as a property, because nothing in the repository promises
otherwise: `Cancel` and `Done` do not wait for a handler that runs or is about to;
a lease header without any value, which v1 forwards as an empty one, is nothing that
`Conn.Request` could send (`natsconn.go:290`), though `net/http` makes no such entry;
`Service.Done` stays open when an endpoint ended by a fault; `Stats.Errors` is never
incremented; `rpcHost.started` stays true after the host has dropped the stream,
after a line over 4 MiB has ended it, and after the context of the `Start` that
opened it is done; a lost answer to `/subscribe` leaves a registration at
the host that nobody can cancel.

## 7. Plan

1. Done: all modules of section 2, their runs, the proofs of their safety
   invariants and refinements, and of what the three contracts promise.
2. `Services` over `NatsConn` itself, for the cases the contract hides: a `Serve`
   whose connection is closed while it mounts.
3. Several listeners of one handle, each with its own selector.
4. Fairness of the contracts (a subscription that was cancelled is released), so
   that the liveness of `Services` can be checked against an implementation's.
