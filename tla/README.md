# Formal models of ait-kit

ait-kit is a TypeScript monorepo around the Apps in Toss platform: a client SDK
(`packages/sdk`, with React Native and WebView connectors) that wraps the
platform's callback APIs into promises, and server packages (`api-core`,
`api-client`, `api-orpc`, `api-cloudflare-service`) that call the partner API
over mTLS. This directory holds TLA+ models of the parts whose correctness
depends on the order of events, the TLC configurations that check them on small
instances, and proofs that TLAPS checks for every instance.

## 1. Inventory

### What runs concurrently

There is one JavaScript thread, so a stretch of code between two `await`s is one
step. What interleaves is what follows it: promise continuations (microtasks),
timers, callbacks of the platform SDK, and the answers of loaders and servers.
The platform may call back synchronously from inside the function that registers
the callback, late, twice, for another order, or never. No state of the client
is persisted: a restart begins from `Init`, and the server owns the truth. The
server packages keep no state between requests at all; there the state that
matters is the provider's, and what can go wrong is an answer that is lost.

### Components

| component | state | operations | hard behaviour | what makes it correct |
|---|---|---|---|---|
| IAP grant coordinator (`sdk/src/iap/grant-coordinator.ts`) | Maps `inFlight`, `granted` | `run` | concurrent and repeated runs for one order; an entry that outlives its settled promise | one callback per order at a time, one success per order, no answer for another target |
| IAP purchase flow (`sdk/src/iap/purchase-flow.ts`) | order ids observed, confirmed, stashed; grant failure | success and error events, grant slot, timeout | any order of payment event, grant and error; several slot calls | "completed" needs payment and grant of one order; no definite failure once an order is known |
| IAP adapter (`sdk/src/iap/adapter.ts`) | the coordinator; per call a deadline | purchases, recovery, four queries | loader resolving at the deadline, a result settling after it | no payment after the call returned; notify only after the grant |
| IAP queries (`order-history.ts`, `subscription-info.ts`) | none | validation of an answer | – | malformed answers are refused |
| Event flow (`sdk/src/event-flow.ts`) | `settled`, `cleanedUp`, timer, cleanup function | emit, register, timer, cleanup | events before `register` returns; cleanup that throws or emits | first terminal event decides; nothing outlives the flow |
| Full-screen ads (`sdk/src/ads`) | `slots` Map, `showing` Set | load, show | joined loads, consumption of a slot, one budget over two phases | a loaded ad is shown once; slot and mark follow their operation |
| Direct promotion (`sdk/src/promotion`) | `inFlight` lock | `grantReward` | no idempotency key, ambiguous answers, timeout while paying | one payment at a time; definite answers are true |
| Review (`sdk/src/review`) | one shared promise | `requestReview` | joiners around the `finally` | one dialog at a time; an attempt that is over is not joined |
| Storage and platform loaders (`platform-loader.ts`, `storage`, `rn/storage.ts`, `webview/identity.ts`) | cached success, shared resolution | load, get, set | failure while others wait, before the `catch` withdraws it | one store per instance, failures are not cached |
| Agreement (`notification`, `rn/` and `webview/notify-share.ts`) | an event flow under a loader deadline | request agreement | the race of loader and timer; events inside `register` | no registration after the deadline; a request with a deadline ends |
| Banner ads (`webview/banner.ts`) | module and shared initialization per adapter, claimed targets of all adapters | initialize, attach, destroy, abort | synchronous or late initialization callbacks; refusal, throw or abort during the attachment | a target belongs to one attachment and is given back; a handle is destroyed once |
| Diagnostics (`diagnostics.ts`) | bounded event ring, sequence | run, clear | starts whose finishes come much later, after a clear or past the capacity | the ring is the recent past; a finish tells what its caller got |
| Share, identity, framework loaders, connectors | none | pass-through | – | – |
| Server promotion (`api-core/src/promotion.ts`) | the provider's ledger | prepare, execute, status, legacy grant | lost answers, retries | one grant per key; nothing reported that did not happen |
| Order status (`api-core/src/iap.ts`) | none between calls; one call's attempt and last verdict | bounded retry of a status read, normalizer | the order moves on between attempts; transient and contradictory answers | a verdict is current; the grant gate opens for a paid order of the expected sku only; the loop ends |
| Smart messages (`api-core/src/smart-message.ts`) | none | one send, normalizer | lost answers, HTTP status, envelope and counts that contradict each other | SENT and FAILED are true, so that sending again after FAILED delivers once |
| Login, unlinking, anonymous keys (`api-core/src/login.ts`, `anon-key.ts`, `anonymous-auth-code.ts`) | none | one or two provider calls, normalizers | a code is consumed and the second call fails; abort; answers that contradict themselves | what the caller acts on is true of the provider |
| Envelope and mTLS helpers (`toss-envelope.ts`, `mtls-client.ts`, `raw.ts`) | none | classify, send | – | used by all of the above |
| mTLS transport (`api-client/src/node`) | one request | request | timer, abort, error, close, end and body limit race | settles once, listeners are removed |
| HTTP client (`api-client/src/index.ts`) | one request | request, health | the client gives up and the service goes on; lost requests and answers | what the caller is told is true of the service |
| Cloudflare service (`api-cloudflare-service`) and oRPC router (`api-orpc`) | environment | fetch fallback, routing | a deployment that lacks a binding, a token or the relay | refusals happen before anything is sent |
| Publish workflow (`sync-internal-dependencies.mjs`, `build-packages.mjs`, `publish-oidc.sh`, `publish.yml`) | manifests, the registry | check, build, publish in order | failing half way, running again, two jobs at once, cyclic manifests | dependencies are on npm first; success means everything is |
| Release verification (`verify-published-node.mjs`, `lib/start-mtls-server.mjs`) | project directory, keys, server, report | resolve, install, check, boot, run, clean up, report | failures of phases combined with failures of the cleanup | an exit with 0 proves the release and leaves nothing |
| Tarball tests, self test (`test-package-tarballs.mjs`, `*.selftest.mjs`) | – | – | – | they are tests |

### How they interact

    purchaseOneTime / purchaseSubscription          recoverPendingOrder
            | deadline over loader and flow                 |
            v                                               |
      purchase flow --(grant slot)--> grant coordinator <---+
            |                               |
            v                               v
        event flow                 the consumer's server
            ^
            | register, emit, cleanup
      ads load / show, agreement

    consumer --> HTTP client --> Cloudflare service --> api-core --> provider
                                                           ^
    consumer (Node) ---------------------------------------+-- mTLS transport

    check --> build --> publish --> verification of what was published

All purchases and recoveries of an adapter share one coordinator. Purchases, ads
and agreements run on the event flow. The ads adapter adds a slot and a mark per
ad group, the direct promotion adapter a lock, around a loader and a timer of
the same kind. Banner attachments share their adapter's initialization and, with
all other adapters, the table of claimed elements; review and storage share one
attempt among all who ask. The client's grant callback is the consumer's; it is where a
consumer would call its own server, and with it `api-core`.

`PROJECT.json` has the hazards, each with its line and the properties that would
catch it; none is left without one.

## 2. The modules

| module | models | composed of |
|---|---|---|
| `GrantCoordinator` | class `IapGrantCoordinator` | – |
| `IapPurchase` | purchase flow, IAP adapter's deadline and recovery | extends `GrantCoordinator` |
| `PurchaseContract` | abstract: what purchase and recovery results mean | implemented by `IapPurchase` |
| `EventFlow` | `runEventFlow` | – |
| `OneShot` | abstract: a value that comes out once, after its resource is back | implemented by `EventFlow` |
| `AdsAdapter` | full-screen ads adapter | – |
| `AdContract` | abstract: what ads are there to show, what the provider is asked, what calls are told | implemented by `AdsAdapter` |
| `DirectPromotion` | direct promotion adapter | – |
| `BannerAds` | WebView banner adapters | – |
| `Agreement` | agreement requests of both connectors | – |
| `SharedFlight` | review and storage adapters | – |
| `Diagnostics` | `createDiagnostics` | – |
| `PromotionServer` | server promotion API, with the provider and the consumer around it | – |
| `RewardLedger` | abstract: a reward is paid once and for good, and credited after that | implemented by `PromotionServer` |
| `MtlsTransport` | Node mTLS transport | – |
| `OrderStatus` | `getIapOrderStatus`, with the provider's orders around it | – |
| `SmartMessage` | single and bulk sends in forward mode, with the provider and the consumer around them | – |
| `Login` | completing a login, unlinking, verifying and exchanging anonymous keys, with the provider's record | – |
| `RemoteCall` | HTTP client, Cloudflare fetch fallback, one operation behind it | – |
| `PublishPlan` | the publish workflow and its registry | – |
| `VerifyPublished` | the verification of a release and its server | – |
| `GrantCoordinatorProofs`, `EventFlowProofs`, `AdsAdapterProofs`, `DirectPromotionProofs` | theorems | extend their component |
| `IapPurchaseProofs` | theorems about `IapPurchase` and `PurchaseContract` | extends `IapPurchase`, `GrantCoordinatorProofs` |
| `ServerProofs` | theorems about `PromotionServer`, `MtlsTransport`, `OrderStatus`, `SmartMessage` | extends these |
| `CallProofs` | theorems about `BannerAds`, `Agreement`, `RemoteCall`, `Login`, `SharedFlight`, `Diagnostics` and the run over the client adapters | extends `MCClientCalls`, `DirectPromotionProofs`, `Login`, `RemoteCall` |
| `ReleaseProofs` | theorems about `PublishPlan`, `VerifyPublished` and the run over both | extends `MCRelease` |
| `MCSdkCore` | a run over the SDK's building blocks | extends `GrantCoordinator`, `EventFlow` |
| `MCIapPurchase` | finite instances, symmetry | extends `IapPurchase` |
| `MCClientCalls` | a run over the smaller client adapters | extends `DirectPromotion`, `BannerAds`, `Agreement`, `SharedFlight`, `Diagnostics` |
| `MCServerCalls` | a run over the server side | extends `OrderStatus`, `SmartMessage`, `PromotionServer`, `MtlsTransport`, `Login`, `RemoteCall` |
| `MCRelease` | a run over the release scripts | extends `PublishPlan`, `VerifyPublished` |

### GrantCoordinator

`inFlight` and `granted` are the two Maps. An entry's `state` is that of the
promise stored in it, `waiters` are the callers that await it. `Run` is one call
of `run()`, with the four ways it can end: `Join`, `RefuseConflict`, `Reuse`,
`Attempt`. `GrantResolves` and `GrantRejects` settle the consumer's callback and
resume the waiters; `Continue` is a caller's own continuation; `Release` is the
`finally` that deletes the entry. A promise runs its reactions in the order they
were attached and `finally` hangs behind a `catch`, so the callers that already
waited go first (`waiters = {}` in `Release`) and a call that comes in between
still finds the settled entry (`Join` of an entry that is not pending). Order,
sku and subscription ids are model values; `None` is `undefined`. `outstanding`
and `successes` are history: how many callbacks run and how many have resolved.

### IapPurchase

`flow[f]` is the closure of `runPurchaseFlow` and `runEventFlow` for one
purchase call: `observed`, `confirmed` (each with its subscription), `stashed`
(the success event's order), `failure` (the order whose grant failed), `outcome`
(what the event flow settled with) and the deadline's clock. `Evaluate` and
`ReduceError` are `evaluate` and the reducer. `SlotCall` and `SlotResumes` are
the two sides of the await in `processProductGrant`; the flow state may change
arbitrarily in between. "overdue" is the clock, which may be past the deadline
long before the timer's callback gets its turn: `Return` looks at the clock, as
the adapter does. While `startOrder` runs ("registering") only callbacks of its
own platform and the passage of time happen. Error codes, the success payload
and the texts of reasons are left out: only "canceled or not" and the order and
subscription ids reach the properties.

The event flow is inlined in `IapPurchase` and `AdsAdapter` in its reduced form
(a flow that settles has its listener given back, later events are ignored),
which is what `EventFlow` shows of `runEventFlow`.

### EventFlow

One record of closure variables per `runEventFlow` call, on one thread. Two
calls leave the flow's code and may come back into it: `register` and the
cleanup function. Each is split into entering and leaving, so that events,
of this flow and of others, happen inside them. `decided` is the value of
the first call of `settle` or `fail`; `promise` is what the caller sees, after
the cleanup function.

### AdsAdapter

Load tasks and shows go through one set of phases (loader, registration, open
flow, continuation); `op` has one record for each, named after the call that
began it. `slots[a]` carries the identity of its task, as the `loading` slot of
the code carries its promise; a load that finds a loading slot joins it
(`awaits`). `completed` and `claimed` count, per group, the loads that filled
the slot and the shows that consumed it; they are bounded by the number of
calls. The reward's payload and the event's data are left out.

What all that comes to for a consumer and the provider is `AdContract`: the
groups with an ad to show (`ready`), who waits for a load (`waiting`), what the
provider is asked, in time or not (`request`, `screen`), and what each call is
told. It has no slots, tasks, marks or flows. `Ready`, `Waiting`, `Request`,
`Screen` and `Told` are the refinement mapping. A joined call is told what its
task came to; "asked" is the time from the provider's function on, so a loader
that resolves when the time is up must not get there.

### DirectPromotion

An answer of the SDK is a record of what `normalize` looks at: was it thrown,
the key (absent, blank, valid), is there an error field, and the class of the
code two fields agree on. `Normalize` is the code's order of tests.
`PaidIsPossible` is external: it says what an unambiguous answer means on the
provider's side, as the platform documents it; for every other answer `paid` is
free. The lock `inFlight` belongs to the work, the answer to whoever comes
first, work or timer.

### PromotionServer

The four functions keep nothing between calls, so a model of them alone would
say nothing. What matters is what their callers do with the answers. The module
has three parts. `ExecuteVerdict`, `StatusVerdict`, `PrepareGivesKey`,
`DefiniteRejection` and `LegacyStatus` are what the code makes of a provider
answer; an answer is a record of what the strict readers and
`isUpstreamFailure` look at (HTTP class, failing envelope, resultType, error
code, key, status), and every combination occurs, because `resultType` is read
from nested places that `isUpstreamFailure` does not see. The actions
`Prepare...`, `Execute...`, `Status...` and `Legacy...` are the functions between
their awaits: the request leaves in one step, and the answer, a rejection of the
transport or a crash ends it in another. The provider and the consumer are
external: the provider takes an execute request whenever it arrives (`wire`),
also after the caller was told UNKNOWN, and its explicit answers are true
(`ExecuteAnswerIsPossible`, `StatusAnswerIsPossible`), while any other answer
may stand for anything; the consumer does what `packages/api-core/README.md`
prescribes. The steps a consumer takes are the recovery protocol: key stored
before execute, no second execute of a key, status when in doubt, a new key only
after a definite failure other than 4113, credit only on GRANTED. Stub mode,
which sends nothing, and input validation, which throws first, are left out.
4111 is not taken as evidence of anything: the README allows that "the record is
gone".

What all that comes to is `RewardLedger`: two variables, the keys a reward has
been paid with and the rewards that are credited. `PromotionServer` implements it
(`ImplementsLedger`) with the granted keys issued for a reward as its payments; a
second grant, one that is taken back, a credit before the payment or one that
does not last has no step there.

### MtlsTransport

`req[r]` is the closure of one `request()` call; every event handler is a
function of that record (`Settle`, `Fail`, `Take`, `Finish`). `kept` is the size
of `chunks`, `delivered` what the server has sent, both because the first is what
the caller gets and the second what it should get. Requests share one abort
signal; a request may be started without it. Events that were queued before the
request was destroyed may still be delivered, as the guards in the handlers
expect. `MaxDelivered` bounds the body a server sends.

### OrderStatus

`query[q]` is one call of `getIapOrderStatus`: `Ask` is the head of a round,
`Answer` what follows the await, including the decision to sleep or to return,
`Wake` the end of the sleep. `Normalize` is the normalizer over what it reads of
an answer: its failure, the resultType over all aliases, whether fields have
their types, id, status and sku. Statuses are grouped by what they lead to
(payable, incomplete, not found, failed, refunded, other). `order` is external:
what has become of an order and its sku. Orders move on at any time, and `seen`
is history, the states an order has had since the call's last request: an answer
about the requested order that is coherent tells one of them
(`OrderAnswerIsPossible`), any other answer may say anything. `Grantable` is the
gate of `packages/api-core/README.md`: verified, no stub, sku matched.

### SmartMessage

`message` is the consumer's call and, when it has returned, its verdict; `posted`
is external, what the provider has made of each request, which it may take long
after the caller was told UNKNOWN. `MessageVerdict` is the decision of
`normalizeMessageResponse` over every combination of what it reads. What
answers mean is assumption: a failure that is stated, by HTTP status, `ok`,
envelope or status, is true, also beside counts that say otherwise; so is a
status in the module's own vocabulary, and a send result nothing contradicts;
other answers may stand for anything. Two
cases rest on this assumption rather than on the code's caution: an answer with
a `result` but no envelope does not have its status consulted, and one with the
module's own "SENT" and no envelope does not have its counts and failure entries
consulted. The consumer sends again after FAILED, or after an exception that
came before the request, and never after UNKNOWN or a transport error.

### BannerAds

`initialized` and `pendingInit` are an adapter's module and the operation it
shares; `claimedTargets` is the table of all adapters; `attachment[t]` is one
`attachBanner` call and the handle it returns. `init[i].promise` is the shared
promise, `outcome` the first callback of the provider, which counts only when it
is looked at: inside `init.call` it is kept until the call returns
(`InitCallback`, `InitReturns`, `SettleOutcome`). `InProvider` is the synchronous
stretch from the support check to that return, in which nothing but the provider
runs. Time is checked three times, when the loader answers, after the support
check and when the outcome is settled, and each check is in its step. The
reaction that forgets a settled operation (`ClearPending`) comes before those
who await it, because it was attached first. An attachment claims its element in
the step of the call and gives it back in every way it can end; `given` and
`disposals` count the provider's handle, `queued` and `heard` the microtask that
forwards a callback to a consumer whose attachment has not been rejected.

### Agreement

`requestAgreement` of both connectors, which have one text. `LoadTimerFires` is
the timer of the race, whose loser goes on and is dropped ("late"); `BeginFlow`
is the continuation of the race, which looks at the clock again before it
registers. Inside `register` only the platform calls back. The flow is
`EventFlow`'s, again in its reduced form.

### SharedFlight

Review and storage share one attempt among those who ask; storage also keeps the
store of an attempt that succeeded. `Forget` is review's `finally` and storage's
`catch`, a microtask after the attempt settled: who asks in between joins an
attempt that is over (`Ask`), and who awaits is answered behind it, because
review hands out the promise behind its `finally` and storage attaches its
`catch` first (`AnswerAsker`).

### Diagnostics

`events` is the ring, `emitted` and `cleared` are history. The sink is called
last, so what it does in its turn is a step of its own.

### Login

Four functions of `api-core` that send one or two requests. `performed` is
external: what the provider carried out, which happens when a request arrives,
whether or not its answer comes back. An answer is its HTTP class, the type of
its envelope, an error and the payload. The verdicts are the functions' own order
of tests. Only forward mode is modelled: in stub mode three of the functions
answer locally, without a request, and the exchange of a code is refused, which
is one of the refusals of `LoginCalled`. What answers mean is assumption (`LoginAnswerIsPossible`): a payload, or
a success without an error, is given for what was done, a 4xx or a plain FAIL for
what was not, and an incomplete call carries an error, as an HTTP_TIMEOUT of the
partner API does. The removal of a login, which has no payload to show for
itself, rests on that last part.

### RemoteCall

The client's end and the service's end of a call are apart (`client`, `server`),
so a client can give up while the service goes on, and requests and answers can
be lost. `service` is the deployment: mode, binding, token, raw relay. `Handle`
and `HandleRefuses` are the fetch fallback, `Operate` and `OperationEnds` one
operation of `api-core` behind it, with the refusals in the code's order. 413 is
one of the refusals counted as "400"; a mode that is none of the two is not
modelled; the service binding's methods and the oRPC router lead to the same
operations without keeping anything.

### PublishPlan

A job is a run of the workflow; several run beside or after each other on one
registry. Manifests depend on each other in any way, cyclically too, but not on
themselves, and list their dependencies in any order; only dependencies among
publishable packages matter. `Traverse` is the depth-first traversal both scripts
write out. It carries what has been visited and what is being visited from call
to call (`Visits`) and marks its plan `circular` where the build throws; the
publish script meets no cycle the build let pass.
`View` may miss a version that is there, `Publish` may be accepted and look
refused, or find another job's work. `StepFails` ends a job anywhere.

### VerifyPublished

One run of the script. `run` is where it is, the report (`overall`, `failure`),
whether the error on its way carries the report, and what main makes of it;
`left` is what exists on disk and as a process. Every phase can fail, and so can
each step of the cleanup, in any combination. `release` is what the release is
like, which the consumer's output reflects unless the package ends it early.

## 3. What the runs check

All runs finish within a few minutes. Order ids are symmetric in
`purchase_safety`, where only invariants and action properties are checked and
nothing in the module orders them, and so are jobs in `release`; runs with
liveness use no symmetry. The runs
take their instance from the configuration; `MCIapPurchase` adds the constants of
`IapPurchase` that are functions. Four runs are over modules that put several
parts on one instance: `MCSdkCore`, `MCClientCalls`, `MCServerCalls` and
`MCRelease`. Those parts share no variable and no code, so their interleavings
say nothing that one part at a time does not, and a behaviour of the run is one
of a single part, whichever moves first; the surroundings of the others (an
order's state, a deployment, a release) are pinned meanwhile. Where a
theorem gives the type invariant of a module, its runs do not repeat it, except
in `purchase_safety`, whose state is the largest.

| run | instance | shows |
|---|---|---|
| `sdk_core` | 3 callers, 2 orders, 2 skus, 2 subscriptions; or 2 flows, one with a deadline, 2 results | `GrantedOnce`, `OkMeansGranted`; nothing outlives a flow, `OneShot` is implemented; `CoreCallsEnd` |
| `purchase_safety` | 1 purchase with 2 slot calls, 1 recovery, 2 orders, deadline | meaning of every result; `PurchaseContract` is implemented |
| `purchase_pair` | 2 purchases of different skus, 2 orders, deadline | flows whose callbacks name each other's orders do not complete on them; a purchase returns although everybody else is silent |
| `ads` | 1 group, 2 loads, 2 shows, deadlines | slot and mark follow their owners, single use, no orphaned listener, `AdContract` is implemented, every load and show ends although everybody is silent |
| `client_calls` | 3 promotion calls; or 2 attachments to 1 element of 1 banner adapter, 2 initializations; or 2 agreements, one with a deadline; or 3 callers of a review and a storage, 3 attempts; or 2 diagnosed runs, a ring of 2, 1 clear | `LockFollowsWork`, `AnswersAreTrue`, `BannersAreOwned`, `SharingIsExact`, `RingIsRecent`, `NothingStartsLate`, `TimedCallsEnd` |
| `server_calls` | 1 order call with 3 attempts, an order and a foreign id, 2 skus; or a message sent up to 3 times; or 1 reward, 1 legacy call, 3 keys; or 2 requests under one signal, limit 2, bodies up to 3; or 1 identity call; or 2 remote calls, one with a timeout; every class of answer | verdicts are current and true, the grant gate is sound, messages and rewards happen once, `RewardLedger` is implemented, bodies are whole, requests are released, `RemoteOutcomesAreTrue`, `ServerCallsEnd` |
| `release` | 3 jobs, 3 packages with any dependencies listed in any order, any part published; or one verification with 2 lookups | `ExitsTellTheTruth`, `DependenciesComeFirst` |
| `recovery_retry`, `purchase_mismatch`, `purchase_identity`, `verify_report`, `verify_mask` | see findings | expected counterexamples |

Why the bounds are enough: the coordinator's interesting cases need one running
attempt, one caller that joins or conflicts with it, and one that arrives while
the settled entry is still there, with a second order to tell "per order" from
"global": three callers and two orders. A flow needs two slot calls to overwrite
what it has observed, and two orders to mismatch; a second sku matters only
between flows, hence the separate `purchase_pair`. Two loads allow a joined
task, or a reload after the slot was consumed or cleared; two shows allow one to
be refused or to follow. Three reward calls allow a timed-out call that still
works, one refused meanwhile, and a retry. Three keys let a reward be renewed
after a refusal and after a failure, or share the provider with a legacy grant. A
body one byte over a limit of two can cross it with a first, a second or a third
chunk. Two attachments to one element contend for it, wait for one
initialization or fail apart, and two initializations allow a second after a
failed one; a second adapter would only share the table of elements with the
first, which two attachments of one adapter do already (`BannersOwnTheirTargets`
is proved for any number of adapters), and takes the run beyond minutes. Two agreements let one
come while the platform runs the other's `register`. Three callers and three
attempts have one start, one join late and one start anew. Two runs emit four
events into a ring of two, across a clear. Three packages can form a chain, a fork
and a cycle; three jobs can publish beside a failing one and after it. One
identity call suffices since calls share nothing; two remote calls, since health
speaks about the other. Three order status attempts have a first, a middle and a last round, so a verdict can go
stale twice; three sends allow one after a refused call and one after a FAILED.
Every action fires in these runs.
Each call, flow and slot call is used once, so the state spaces are finite
without further bounds; the only counters (`outstanding`, `successes`,
`completed`, `claimed`, `disposals`, `sequence`) are bounded by the number of
calls.

Deadlock is not checked in these runs: every system here really stops once all
calls of the instance are done, and a call whose environment stays silent may
stop earlier. That nobody is stuck is what the liveness runs say instead.

### Properties that deserve a word

- `OkMeansGranted`: a caller told "ok" got a stored grant of the order, sku and,
  if it named one, subscription it asked for, whether it attempted, joined a
  pending or an already settled attempt, or reused a grant.
- `CompletedIsPaidAndGranted`: "completed" names an order this very flow saw a
  success event for, and whose grant callback resolved once, for this flow's
  sku.
- `IdentifiedOrderIsReported`: once the platform named an order, an SDK error is
  never reported as a failure or cancellation, and the unknown result that takes
  its place names an order the flow knew.
- `ImplementsAdContract`: over joins, reloads beside a running show, synchronous
  events and deadlines, everybody who waits for a load is told the same, success
  only after the provider was asked in time; one show takes an ad, all others
  are refused for a reason that holds; and "rewarded" or "dismissed" is told by
  whether the reward was earned in this show, not in an earlier one.
- `NoPaymentAfterReturn`, `NoOverduePayment`: a loader that resolves at or after
  the deadline starts nothing, even when the timer has not run yet.
- `NothingStartsLate` says the same of promotions, banner initializations and
  agreements at once: nothing starts at the provider for a caller who has been,
  or is about to be, told that it timed out.
- `SlotsTrackWork`, `LockFollowsWork`, `BannersAreOwned`: what is held (a slot and
  its mark, a lock, an element) and the operation that owns it begin and end
  together, and what the provider handed out is given back once, through every
  way an operation can fail.
- `CoreCallsEnd`, `TimedCallsEnd`, `ServerCallsEnd`: nobody is kept waiting by a
  silent peer, part by part (`CallsReturn` and `FlowSettles`; `CallsAreAnswered`,
  `AttachmentsEnd` and `AgreementsEnd`; `QueryReturns`, `RequestSettles` and
  `RemotesEnd`).
- `SharingIsExact`: attempts are shared while they run and a failure is forgotten
  by the time anybody knows it, although the attempt and the variable that names
  it end microtasks apart.
- `RingIsRecent`: the ring against the history of everything emitted, with each
  finish after its start and telling what the caller got.
- `RewardPaidOnce`: of all keys ever issued for a reward at most one can be paid,
  counting execute requests that are still on their way when the consumer has
  given up on their answer. One wrong "definite" verdict breaks it.
- `ResolvedIsWhole`, `SettledIsReleased`: the caller of the transport gets the
  whole body or a failure, and neither timer nor abort listener outlives the
  request, although the signal does.
- `OrderVerdictsAreCurrent`: an answer of an earlier round never survives a later
  one, and a transient status is returned only when no attempt is left.
- `GrantGateIsSound`: an answer that contradicts itself, is about another order,
  omits the sku or is made up by stub mode does not open the gate.
- `MessageVerdictsAreTrue`, `MessageDeliveredOnce`: a "definite" verdict on an
  answer that leaves the outcome open would make a consumer send twice, or never.
- `LoginVerdictsAreTrue`: what a consumer acts on (log in, forget a user, ask for
  a new code, try the same again) is right although a request may be carried out
  without its answer ever being seen.
- `RemoteOutcomesAreTrue`: a call refused as the client's or the deployment's
  fault never reached the provider, and a service that calls itself ready has
  what an operation needs. It claims nothing of a call that timed out or lost its
  connection, whose request may be anywhere; of these `ServerCallsEnd` says that
  they end.
- `DependenciesComeFirst`: over failures, reruns, concurrent jobs and manifests
  that depend on each other in any way.
- `ExitsTellTheTruth`: an exit with 0 of a publish job means that all is on npm,
  of a verification that the release is good and nothing of the run is left.
- `AnswersAreTrue`: a definite negative answer of the promotion adapter means
  that the provider did not pay, so a retry does not pay twice.

### Fairness

Fairness is given only to what the JavaScript host guarantees: time passes, an
armed timer fires, a queued microtask runs, a synchronous function that was
entered comes back. All of it is weak fairness (`FairSpec` of a module, `MCSpec` of a sum). Loaders, platform events and
server answers get none: the deadlines exist because these may never come. The
exceptions are two properties of code without a deadline of its own.
`CallsReturn` of the coordinator assumes that the consumer's grant callback
settles, and `QueryReturns` of the order status loop that each request is
answered or rejected, as a client with a request timeout sees to; what it adds
is that the loop stops asking.

## 4. What is proved

TLAPS checks, for any sets of orders, skus, subscriptions, callers, flows and
calls:

**Grant coordinator** (`GrantCoordinatorProofs`): `CoordTypeCorrect`,
`CoordSingleFlight`, `CoordGrantedOnce`, `CoordOkMeansGranted`,
`CoordNoOrphanedCaller` and `CoordGrantsAreKept`. The only assumption is
`NoneAssumption`: `undefined` is not an id. The invariants are not inductive
together. What is missing is what an entry stands for. `Entries`: a pending
entry excludes a stored grant of its order (else settling it would count a
second success), and a resolved entry equals the grant it stored (else a caller
that joins it late could be told "ok" for another target). `Waiters`: whoever
waits on an entry asked for what the entry stands for, and waits exactly while
it is pending. `CoordIInv` is the conjunction; there is one lemma per way a step
can happen, and each has one step per conjunct.

**Event flow** (`EventFlowProofs`): `FlowTypeCorrect`, `FlowLeavesNothing`,
`FlowFirstEventDecides` and `FlowImplementsOneShot`, from `FlowAssumption` (the
pending promise is not a result). `FlowIInv` adds to the invariants what ties the
cleanup to the settlement: nothing is held before registration begins
(`NothingBeforeRegister`), a settled flow's cleanup function is gone or is just
running (`SettledIsCleanedUp`, `ListenerIsAccountedFor`), and the promise shows
what was decided, only after that (`PromiseFollowsDecision`). The refinement is
a step simulation under this invariant: a registration that returns a cleanup
function is `Acquire`; settling with nothing held, and the end of the cleanup of
a settled flow, are `Conclude`; the end of any other cleanup is `Release`; all
other steps stutter.

**Full-screen ads** (`AdsAdapterProofs`): `AdsAreTyped`, `AdsTrackTheirWork`,
`AdsAreShownOnce`, `AdsListenForSomebody` and the refinement
`AdsKeepTheirContract`, for any ad groups, loads and shows, from `AdsAssumption`
(a load is no show, `None` is neither a group nor a load). The properties are inductive together once slots
have their shape (`SlotShapes`), whoever runs has a group (`WhoRunsHasAGroup`) and
only open flows listen (`OnlyOpenFlowsListen`): a continuation then finds its own
slot, so the check of the code that the slot is still this task's never fails.
The refinement needs two more parts (`AdsIInv`): what an operation decided is true
of its loader and its flow (`DecisionsAreTrue`: a success only after the
registration, a timeout only when overdue, a reward only if earned), and whoever
waits, waits for a task that has begun (`TasksAreAwaited`), so that no answer
changes when another call begins. Every step within a loader or flow is one
change of one record, of which the contract sees at most one field
(`StepsAreWithinFlow`, `WithinFlowIsContracted`); the calls and the continuations
are the contract's actions of the same name.

**Direct promotion** (`DirectPromotionProofs`): `PromotionTypeCorrect`,
`PromotionLockFollowsWork`, `PromotionAnswersAreTrue` and
`PromotionNoOverduePayment`, for any set of calls. A lemma shows of `Normalize`
that no answer the provider may give leads to a wrong definite outcome.
`PromotionIInv` carries that through the race: a call is unpaid until the SDK has
answered it (`UnpaidUntilAnswered`), before the work settles only the timer has
answered (`OnlyTheTimerAnswers`), and the outcome that waits for its `finally` is
true already (`OutcomesAreTrue`).

**IAP purchases** (`IapPurchaseProofs`): `IapTypeCorrect`,
`IapCompletedIsPaidAndGranted`, `IapNotifyOnlyAfterGrant`,
`IapNoSuccessOverFailedGrant`, `IapIdentifiedOrderIsReported`,
`IapNoPaymentAfterReturn` and the refinement `IapImplementsContract`, for any
orders, skus, subscriptions, flows, slot calls and recoveries, from
`NoneAssumption` and `CallerAssumption` (slot calls, recoveries and callers are
what their names say). Every step of the adapter is a step of the
coordinator or leaves it alone, so `CoordIInv` holds here too and its lemmas are
used, not repeated. `IapIInv` adds what ties the closures to it: a flow that has
not begun its startOrder has seen nothing and whatever it has confirmed or
settled with is a stored grant of its sku (`FlowsAreSound`); a slot call belongs
to a flow that has observed its order, and if it failed, the flow knows
(`SlotCallsAreSeen`); a purchase has answered exactly when its flow is over
(`AnswersAreSound`); a recovery that notified the platform did so of a stored
grant (`RecoveriesAreSound`). Grants are never taken back, so a step of somebody
else cannot undo any of it. The action properties follow from two facts about a
step, when a startOrder may begin (`BeginsInTime`) and what a flow may settle with
(`SettlesSoundly`), shown once per action. The refinement is a step simulation: a
step that stores a grant grants in the contract, one that answers a purchase or a
recovery answers there, all others stutter.

**Server promotion** (`ServerProofs`): `ServerTypeCorrect`,
`ServerRewardPaidOnce`, `ServerVerdictsAreTrue`, `ServerLegacyIsRecoverable` and
`ServerImplementsLedger`, from `ServerAssumption` (rewards and legacy calls are
different things, `NoKey` is none of them and no key). The argument: of a reward's keys only the one its consumer holds
can be live (`OnlyTheHeldKeyIsLive`), because a consumer lets go of a key only
when it is dead, and a dead key stays dead; that needs that an unsent key is
merely issued and a record never has a request on the wire (`KeysAreOwned`).
`ExecuteVerdictIsTrue` and `StatusVerdictIsTrue` are where the code's
classification meets what the provider may answer. The refinement has one lemma
per party: `ProviderPays` (a granted key was live, so no other key of its reward
had been granted), `StatusCredits` (GRANTED is true of the key) and two for the
stutters.

**mTLS transport** (`ServerProofs`): `TransportTypeCorrect`,
`TransportResolvedIsWhole` and `TransportSettledIsReleased`, for any set of
requests, any limit and any chunk sizes, from `TransportAssumption`. Every handler
is a function of one record, so `RequestIInv` is a predicate of one record and
each handler has a lemma. It adds that `settled` is what the promise shows, that
`completed` never runs ahead of it, and that until then everything delivered is
kept and fits.

**Order status** (`ServerProofs`): `OrderTypeCorrect`, `OrderVerdictsCurrent`
and `OrderGateIsSound`, for any orders, calls and attempt limit, from
`OrderAssumption` (`undefined` is not an id, requested and foreign ids differ,
at least one attempt). Two lemmas relate `Normalize` to what a possible answer
may claim; the invariant adds that only a call with an order asks, that one which
sleeps has an attempt left, and that only a call with an order verifies
(`RunsWithinLimit`).

**Smart messages** (`ServerProofs`): `MessageTypeCorrect`,
`MessageVerdictsTrue` and `MessageIsDeliveredOnce`, for any number of sends. Here
too a lemma shows of `MessageVerdict` that no possible answer leads to a wrong
definite verdict; the invariant adds that requests before the last are rejected.

**Smaller components** (`CallProofs`), one inductive invariant each, each action
with its own lemma or step:

- banner ads, from `BannerAssumption` (`NoInit` is not an initialization):
  `BannersAreTyped`, `BannersOwnTheirTargets`, `InitializationsAreInTime`.
  `BannerInv` adds that an initialization under way has an adapter (`InitOwned`)
  and that no handle exists before the provider was asked to attach (`HandleGiven`).
- agreements, from `AgreementAssumption`: `AgreementsAreTyped` and
  `AgreementsAreInTime`; what has been loaded in time is unanswered (`Unanswered`).
- the HTTP client and its service, from `RemoteAssumption`: `RemotesAreTyped`,
  `RemoteOutcomesHold`. `Sound` relates, for one call, status to what was sent and
  to the deployment.
- identity calls: `LoginsAreTyped`, `LoginVerdictsHold`. `Arrivals` says that only
  calls whose request has arrived are carried out, and that a lookup has a
  consumed code behind it.
- review and storage, from `FlightAssumption`: `FlightsAreTyped`, `SharingHolds`.
  `FlightInv` ties the variable that names an attempt to the attempt's life: it
  names the attempt from its start until it is withdrawn, and a storage keeps the attempt that gave it its store. `FlightInvIsExact` derives
  `SharingIsExact`.
- diagnostics, from `DiagnosticsAssumption` (0 to 200 events are kept):
  `RingHolds`. `DiagnosticsInv` states the ring by positions: its i-th event is
  the history's, counted from the end (`RingIsEnd`), and no event carries a number
  that has not been given (`NumbersAreOwn`), so a new event is about its own run
  alone (`EmittedIsObserved`). `RingIsCutFromHistory` turns positions into the two
  cuts of `RingIsRecent`.
- the run over the client adapters: a behaviour of `MCClientCalls` is one of
  each adapter, so `NothingIsLate` follows from the theorems of the three.

**Publishing** (`ReleaseProofs`): `PublishingIsTyped`, `PublishOrderIsKept`
(`DependenciesComeFirst`) and `ExitIsPublished`, for any number of packages and
jobs, from `PublishAssumption` (there is a package). Half of it is about the
traversal. A recursive function denotes something only if its recursion ends:
`Rank` falls with every recursive call, since a package that is entered joins the
path and a listed one leaves the list, so a solution exists below every rank
(`SolutionsExist`) and `Traverse` is what its equation says (`VisitEquation`).
`VisitsGrow` then says what a visit adds to a plan (`Grows`): packages that are not
under way, each once and, unless a circle was met, after its dependencies; and
that it leaves nothing out. There is no induction in it: the set of ranks where a
claim fails would have a least element (`LeastNat`, from the library's theorem
about well-founded relations), and a visit of that rank is made of lower ones.
`TraverseIsSound` is the result: all packages, once each, dependencies first. The
invariant `PublishInv` puts each job at a position of that order (`Remains`) and
says that what lies behind it is on npm or counted as failed (`HandledTo`); no
other job disturbs this because packages stay on npm. So a package is sent only
when none of its dependencies is among the failed, hence all are on npm.

**Verification of a release** (`ReleaseProofs`), from `VerifyAssumption` (at least
one lookup): `VerificationIsTyped`, `VerificationIsTrue`. `Progress` says what each
step has established about the release and the report, `Leftovers` what may exist
at it. `ExitsAreTrue` and `ReleaseOrderIsKept` carry both parts over to the run's
`MCSpec`.

The proofs are about the specifications without fairness. Every safety invariant,
action property and refinement the passing runs check is stated by a theorem.
Not proved, and left to TLC, is what holds under fairness only, which this prover
cannot treat: `CoreCallsEnd`, `PurchaseReturns`, `OperationsEnd`, `TimedCallsEnd`
and `ServerCallsEnd`.

## 5. Findings

1. `recovery_retry` (doc and code differ). The coordinator's comment says that a
   failed grant is never cached, "so the next call retries for real". The entry
   is deleted in a `finally` behind a `catch`, two microtasks after the attempt
   rejected; a call in between joins the rejected promise and fails without
   calling the grant callback.
2. `purchase_mismatch` (doc and code differ). A result that settles past the
   deadline is rewritten to `unknown` with the order id it carries. A mismatch
   carries none, so the two orders the flow knew are lost to the consumer,
   against the stated intent to preserve order identities.
3. `purchase_identity` (code). An unknown result takes order and subscription
   from different sources, so a confirmed one-time order can be reported with
   the subscription of another order that the slot saw later. It needs a flow
   whose slot is invoked for two orders.
4. `verify_report` (code). The verification sets its report to "pass" before the
   cleanup. When the server's keys cannot be removed it fails, with exit 1, but
   the report it writes keeps the "pass", against the comment that a leftover
   "must not ride a pass".
5. `verify_mask` (code). The removal of the project directory is not guarded, so
   its error replaces the verification error in flight, against the comment that
   a cleanup failure "must never mask an existing verification error".

## 6. Not modelled, and why

- Stateless components: IAP queries, share, identity, connectors, type
  declarations. Each is one awaited call or none, and no answer relates to another.
- The default loaders' cache in `platform-loader.ts` keeps a module that every
  import yields alike, so joining or missing it makes no difference.
- The oRPC router and the service binding's methods hand a call on.
- `test-package-tarballs.mjs` and the self test are tests: assertions about packed
  files, in order.
- Within the modelled parts: texts and reasons, payloads that no property looks
  at, input validation except where it is an answer of its own, stub mode where it
  sends nothing, dry runs and manifest rewriting of the release scripts, and the
  module loading of the framework packages, which is one loader that resolves,
  reports the SDK as unavailable, or never answers.

## 7. Plan

Every stateful component has its module, and every safety property its theorem.
What a next version of the code may need first is a look at the findings: where
one is fixed, its run turns into a property that holds, and the invariant of its
component (`IapIInv`, `CoordIInv`, `VerifyInv`) is the place to extend.
