# A model of DualRoute Gateway in TLA+

This directory holds TLA+ modules that model the two programs of this
repository, the configurations with which TLC checks them on small instances,
and proofs that TLAPS checks for every value of the constants. Paths below are
relative to `src/`; `gateway.go` is `internal/gateway/gateway.go`; `server.go`,
`docker.go`, `mihomo.go`, `rotation.go` and `auth.go` are in
`internal/controlplane/`.

To check a configuration: `tlc -config X.cfg M`, with the module and the
configuration named in [the table of runs](#3-runs). To check the proofs:
`tlapm X_proofs.tla` for the modules named in [section 5](#5-what-is-proved).
The modules use the community modules `SequencesExt` and `FiniteSetsExt`.

## 1. The system

A *control plane* runs one container per *gateway instance* and routes the API
requests of clients to them. An instance forwards a request to its upstream
through one of its *exits*: proxies, or the direct connection. A client
request therefore crosses, in this order, the router of the control plane, the
admission of an instance, the retry loop over the exits of that instance, and
the relay of the response body.

```
 client -> control plane                      gateway instance             upstream
           proxyAPI ------------ HTTP ------> serve -> forward --- exit ---> API
             ^  readiness, circuits            queue,   slots,  <- copyStream
             |                                 sem      cooldowns
           s.instances <- lifecycle, reconciliation -> Docker
           s.keys ----- PUT /admin/keys -----> keys.json
             ^  sessions (auth.go)             g.slots <- proxy list file
             |                                 g.audits -> overview
           rotation.go --- probe, /rotate ---> slots
             `---- selectors ---> Mihomo <---- exits that are Mihomo's ports
           mihomo.go ------ config.yaml ----->
```

### Components

For each: the state it keeps, its operations, what is hard, what makes it right.

**Exit slots** (`proxySlot`, gateway.go). State: per exit a switch, the public
address seen by its last probe, a failure counter and the end of its cooldown,
and a bounded table of cooldowns per model; which exit is the active one.
Operations: cooling with exponential backoff and jitter, forgiving after a
success, the probes (at start-up, by the administrator), deduplication of exits
that turn out to share an address, `/rotate`. Shared by all requests of the
instance under one mutex per slot; nothing covers two of them. Hard: an exit
changes identity, address and state between the moments a request looks at it.
Right if exits are told apart by address, the table keeps what was recorded last,
duplicates are switched off.

**Forwarding** (`Gateway.forward`). State: the locals of each request goroutine,
above all the set `tried` of identities. Operations: select, wait for a cooldown,
send, judge the answer, buffer or relay the body, cool, retry. Hard: failures
at every point, a context that ends at any time, the boundary after which a
retry would splice two answers. Right if each client gets one reply, retries go
through different exits and are bounded, and every request returns.

**Admission** (`Gateway.serve`). State: two buffered channels. Operations: a
non-blocking send on `queue`, a send on `sem` against the context, deferred
receives. Right if permits balance on every path, nobody idles or starves.

**Stream relay** (`copyStreamResponse`, `copyResponsesStreamResponse`). State: what
was held back, whether the response is committed, what has been seen of the
stream's end. A goroutine reads while a timer bounds the first output. Right if
nothing is lost, success means complete, and only an uncommitted body is offered
for a retry.

**Responses lifecycle** (`responsesStreamState`). State: one flag per kind of
event, the current item, the items. Adds the lifecycle events that an upstream
leaves out. Right if a strict client sees every item opened and closed once and
finds all output in the final snapshot.

**Router** (`proxyAPI`, `acquireAPIInstance`, `apiInstanceReady`). State: load,
circuits and cached health verdicts per instance. Health probes run without a
lock, concurrently with requests that report failures. Right if load is exact
and failed instances are left alone.

**Instance lifecycle** (`instanceCreate`, `instanceUpdate`, `instanceDelete`,
`instanceAction`, `docker.replace`, `refreshInstances`, `ReconcileInstances`). State:
Docker's containers, the routing table, the saved upstream keys. One operation at
a time under `lifecycleMu`, a sequence of Docker calls each of which may fail, with
compensation; `GET /instances` writes the table without that lock. Right if an
update never costs the instance its healthy container and what fails leaves nothing
behind.

**Client keys** (`createKey`, `deleteKey`, `syncKeysLocked`, `/admin/keys`, `loadKeys`).
State: one set in the control plane, in memory and on disk; a copy in every gateway, in
memory, on its volume and in the environment of its container, where it is one string with
commas. Hard: the copies are made at different moments, and failing pushes and writes are
not repeated. Right if every difference between the copies is known to the administrator.

**Dynamic proxy list** (`refreshProxyList`, `probeAndDeduplicateStaticSlots`). State:
`g.slots`, replaced as a whole by up to three activities, each from a list it read
seconds before; the slots themselves are objects that requests hold on to. Hard: a
replacement may undo another, and a proxy may be configured and in the file. Right if
base slots are never lost, a URL has one object, slots that stay keep their cooldowns,
and the list converges.

**Audit** (`recordAuditWithUsage`, `collapseAuditRecords`). State: a bounded list to
which concurrent requests append one record per attempt; the control plane makes one
row per request of whatever the list holds when it asks. Right if a row tells how its
request was answered although records are missing or out of order.

**Egress rotation** (rotation.go). State: what every gateway last reported, the
selectors of Mihomo, `lastUpstream429`. Operations under `rotationMu`: the
periodic reconciliation in two passes (shared addresses, new 429s), the
refresh after a new subscription, the administrator's rotation; each selects node after
node, has the gateway probe, and restores the former node if none would do. Hard: the
operation acts on addresses read one by one, while gateways change slots and nodes
move; a slot may have no node, or no known address. Right if what an operation
reports is so, and the instances that can be separated end up apart.

**Mihomo** (`mihomoUpdate`, mihomo.go). State: two files of ours, one of Mihomo's, and
what the process runs. An update is a dozen steps with a rollback; Mihomo fetches and
restarts by itself meanwhile. Right if files, settings and process agree afterwards,
and nodes are never those of another subscription.

**Administrator sessions** (auth.go). State: the credential in memory and in
`admin.json`, the session table. Login and password change take the mutex twice.
Right if no interleaving loses or revives a session, or a password.

**Request normalisation**, **SOCKS5 dialling**, **configuration**, **web console**,
**EdgeTunnel generator**: not modelled. The first rewrites JSON without state; the
second is a byte protocol whose failure is the transport error of `Forward`; the
others parse, print or are static.

### Interactions

* `serve` calls `forward` while it holds both permits: `Admission` assumes that
  `forward` returns, which `Forward` shows (`RequestReturns`).
* `forward` hands a body to the relay: `Forward` has the relay's outcomes as steps
  (`CommitStream`, `BodyFails`, `NoFirstOutput`, `RelayEnds`, `RelayFails`,
  `RelayStops`); `BodyRelay` states what it relies on and `StreamRelay`
  implements it.
* The router sees an instance as something that answers, fails or breaks off;
  `Switchable` stands for the lifecycle operations.
* `KeySync` repeats the lifecycle of one instance in fewer steps, with the keys
  each step carries; `InstanceLifecycle` has the Docker calls in full.
* `ProxyList` replaces the list whose slots `Forward` uses: a request holds on to
  slot objects, so `Forward` has a fixed set of them, and `ProxyList` says which
  objects stay in the list.
* `EgressRotation` sees a gateway as its summary and the answers to `/probe` and
  `/rotate`; `MihomoUpdate` hands it a new subscription (`Resubscribe`). Both hold
  `rotationMu`, so neither sees the other half done.
* `AuditLog` has the attempts of `Forward` as records, with the ways out of `forward`
  that write none (`Unrecorded`).

## 2. Modules

| module | models | state and actions |
|---|---|---|
| `SlotPool` | `proxySlot` and its methods | no variables: an operator per critical section of the slot's mutex, from a slot to the slot, or the set of slots, it leaves |
| `RequestService` | the promise to a client | abstract: attempts, replies |
| `Forward` | `forward`, probes, deduplication, admin | a record per request, the slots, the active slot; one action per stretch of `forward` between two points where other goroutines can interfere |
| `ForwardHistory` | `Forward` with history variables | the address each attempt left through and the exits found guilty |
| `Admission` | `serve` | the goroutines, `len(queue)`, `len(sem)`, the order of blocked senders |
| `BodyRelay` | the promise of a relay to `forward` | abstract: open, committed, done, retryable, broken |
| `StreamRelay` | both copy functions | one attempt; pieces of the body named for what the code tells apart |
| `ResponsesLifecycle` | `responsesStreamState` | how far the upstream is in its script, the flags, what the client was sent |
| `ApiRouter` | `proxyAPI` and its caches | requests, load, circuits, readiness |
| `InstanceLifecycle` | lifecycle over Docker | containers, routing table, saved keys, the running operation step by step |
| `KeySync` | client keys | the four places a key is kept, pending pushes |
| `ProxyList` | `refreshProxyList`, start-up deduplication | the list, the slot objects, one record per refresh under way |
| `AuditLog` | `recordAuditWithUsage`, `collapseAuditRecords` | the list, one record per request; the rows as a function of the list |
| `EgressRotation` | rotation.go | nodes, selectors, gateways, and the operation that holds `rotationMu` |
| `MihomoUpdate` | `mihomoUpdate` and its rollback | three files, the process, the step of the handler |
| `AdminSession` | auth.go | credential, file, sessions, one request per client |
| `MCGatewayParts` | | `StreamRelay`, `ResponsesLifecycle`, `ProxyList`, `AuditLog` in one state space |
| `MCControlParts` | | `MihomoUpdate` and `AdminSession` in one state space |
| `MC...` | | constants and symmetry for TLC |
| `..._proofs` | | theorems |

`MCGatewayParts` and `MCControlParts` put parts that share no state side by side. A
behaviour chooses its part once and for all, the others rest in an initial state: the
state space is the sum of the parts', not their product, and every property of a
part is checked in it exactly as it would be alone. The fairness of a part is
that of its module, restricted to the behaviours that chose it. The names of the parts'
definitions differ for this reason (`RelayInit`, `EventsNext`, `listVars`, ...).

Conventions. Times are kept as the time that is *left*, so one action (`Tick`,
`Elapse`) is the clock, and an instant that has passed is 0. A call that can fail in
several ways is a disjunction. A definition marked "Faulty variant" is never part
of a specification: it is what a plausible mistake in the code would make of the
definition that follows it, kept to see that the properties notice.

### How the state corresponds to the code

*SlotPool.* `fails`, `until`, `cool` are `fails`, `until` and `modelCooldowns`; the random
jitter is the set of its values; the eviction order of entries that end together is left
open. An expired entry and an absent one are one value, because every reader of the table
treats them alike. Failure counters stop at `MaxFails`, where the backoff has reached
`COOLDOWN_MAX` (`FailuresSaturate`).

*Forward.* `pc` names the points of `forward` (see the module). A request body is a
kind (`buffered`, `stream`, `models`) and a model. `cause` is what the error paths
of the loop have in common. `Pick` and `Send` are apart because the selection reads
the slots one after another, each under its own mutex, and the identity is read
again afterwards; `SwitchExit` is apart from the steps in which a body fails because
`handleUpstreamBodyFailure` cools first and selects later. `ended` is the context.
A request of the kind `malformed` has a target of which no upstream request can be made;
`forward` then returns without a reply. The time left of a wait is computed by a second
look at the clock and may be negative, which is also how the selection says that there is
nothing to wait for (`Overtaken`).
The set of slots is fixed; which of them the list has is the subject of `ProxyList`.

*Admission.* `ahead[r]` is Go's queue of blocked senders; handing over in `Finish` is
what a receive on a full buffered channel does.

*StreamRelay.* `source`, `pending` and `client` are what was read, held back and
written. `select` is the state in which the reader goroutine and the timer race;
both may win if both are ready. An event may be typed by its name only; the code looks
for output by the type in the payload (`HasOutput`), and for the end mark by either
(`completedByName`, `failedByName`).

*ApiRouter.* The readiness probes of a request run concurrently over its candidate
instances (`asked`, `probing`), and each writes its verdict without looking at what
others wrote. `CutBody` is a body of which the router has read only the first 8 MiB to
look for the model: the proxied exchange ends with an error. `rest` is history: the time
the shortest circuit has left since the last failure.

*InstanceLifecycle.* A container's `role` stands for its name: the instance's own, or
one of the two temporary ones of `docker.replace`. Requests reach the instance by its own
name only (`Reached`); one that waits under the name `previous` is healthy, but out of
reach (`Alive`). A call that fails may have taken effect
(`lost`); an error the code ignores is `Attempted`. `poll` is the snapshot between the
read and the store of `GET /instances`. `reported` and `messy` are history.

*KeySync.* `todo` is the loop of `syncKeysLocked`, which holds `s.mu`: `Unlocked` is
the guard of whoever takes it. The environment of a container is the set that was
joined with commas; a gateway that starts has the `Parts` of it, which for a key
without a comma is the key (`Plain`). A file that cannot be written keeps what it had or is
empty, and the answer is the same (`Kept`, `Persist`). `told`, `alone`, `loaded`, `late`
and `worn` are history: they name the containers, or volumes, for which a difference is
known.

*ProxyList.* A slot is `<<url, n>>`, the n-th object made for a URL of the file, so that
"the same slot" means the same cooldowns; the k-th base slot has n = -k. Base slots and
file may have a URL in common, and two base slots may have the same. An activity reads,
probes (seconds, without a lock) and publishes; `alone` is whether no other replaced the
list meanwhile. The world says which address a URL leads to.

*AuditLog.* A record is stamped (`Stamp`) before `auditMu` is taken (`AppendRecord`), so
that records may be out of order. The clock may stand still whenever it is read, so that
records may have the same time; it is read at the start and the end of an attempt and
moves only there. `Unrecorded` stands for the ways out of `forward` that
leave no record. `told` is history.

*EgressRotation.* `op.pc` names the calls of an operation (see the module); `op.seen` is
what it has read, on which it decides. A slot leads through a port of Mihomo, another
proxy or directly, and has no known address until a probe has found one (`Unknown`); the
passes compare what they may (`Considered`). Between any two calls a gateway may change
its active slot or meet a 429, and a node may move; an administrator who switches slots of
a gateway on or off is not modelled here. A call that fails, the selection of a node
included, may have been carried out. Histories name what the code cannot know:
`op.stirred`, a gateway changed after it was read; `op.hits`, the rotations for a 429 in
this pass; `excused`, slots whose address changed without a probe.

*MihomoUpdate.* A configuration is a URL and whose nodes it has listeners for; nodes
stand for the subscription they came from. `legible` is whether the previous
configuration could be read: without it the rollback neither restores nor restarts.
`Fetch`, `MihomoRestarts` and
`ControlPlaneCrashes` may come between any two steps of the handler. `spoiled` is set
by a crash inside an update or a failing rollback; `doubt` also by the fetch named below.

*AdminSession.* `verified` and `changed` are the points between the two critical
sections of `login` and `changePassword`; `writing` holds the mutex while `admin.json`
is written. `unsaved` says that the last password has not reached the file.

## 3. Runs

| run | module, configuration | states | what is checked |
|---|---|---|---|
| `forward_retry` | `MCForward`, `Forward_retry` | 280 000 | distinct exits, termination, `RequestService` |
| `forward_direct` | `MCForward`, `Forward_direct` | 850 000 | one reply, what the cooldown table keeps |
| `forward_client_leaves` | `MCForwardHistory`, `Forward_client_leaves` | | violated: `OnlyFaultsCool` |
| `admission` | `MCAdmission`, `Admission` | 30 000 | permits, no idle permit, no starvation |
| `gateway_parts` | `MCGatewayParts`, `Gateway_parts` | 420 000 | relay: transcript, finish reason, verdict, timer, `BodyRelay`; lifecycle events; proxy list; audit |
| `responses_two_calls` | `MCResponsesLifecycle`, `Responses_two_calls` | | violated: `AnnouncedOnce` |
| `apirouter_two` | `MCApiRouter`, `ApiRouter_two` | 560 000 | exact load, circuits |
| `apirouter_client_leaves` | `MCApiRouter`, `ApiRouter_client_leaves` | | violated: `OutageIsReal` |
| `lifecycle` | `InstanceLifecycle`, `Lifecycle` | 1.6 million | service during updates, clean-up, saved keys, routing table |
| `keysync` | `MCKeySync`, `KeySync` | 2.1 million | both directions of the difference between key sets |
| `rotation` | `MCEgressRotation`, `Rotation` | 850 000 | what a pass and a rotation achieve, the records, convergence |
| `control_parts` | `MCControlParts`, `Control_parts` | 250 000 | Mihomo: agreement, cache, nodes, termination; sessions and passwords |

### Bounds, and why they are enough

* `forward_retry`: one request, three exits of which two share an address: the least in
  which a retry may land on a duplicate and on a different exit; one retry reaches both
  ends of the loop; backoff of one level and a longer stream cooldown, so that a wait has
  something to wait for. `forward_direct`: the only exit is the direct one, so that its
  identity changes (`"direct"`, then an address) and it disappears under a request; three
  models over a table of two force an eviction; two levels of backoff and a `Retry-After`
  longer than both, so that the entry that ends first is not always the oldest; one kind
  of request has a malformed target. Both have one request, which meets probes, rotations
  and switches of the administrator between any two of its steps. Several requests side by
  side are covered by the theorems, which hold for any number.
* `admission`: five requests are one more than the four that may be inside, so
  that requests are refused, block, overtake in time and queue again.
* `gateway_parts`. *Relay*: four pieces cover every order of "output, finish reason,
  end mark, noise" and one piece after the end; the clock passes the timeout. *Events*:
  one item with every subset of lifecycle events missing, and four complete items, so
  that the flags are reused across items. *List*: base slots that share an address with
  the direct one or come to, one of them configured twice; a file of three proxies with a
  shared address, and one of two, of which one is configured as well; three objects of a
  URL at a time, which is as many as there are activities;
  one change of file or world while any of the three activities is under way. *Audit*:
  two requests of two attempts over a list of two, so that records are dropped and
  interleave, by a clock that may stand still and shows four times (`MaxClock`): as many as the
  attempts have ends.
* `apirouter_two`: two instances, one behind a proxy and one that is switched on and
  off; two requests, so that a verdict or a success of one arrives after the failure
  of the other.
* `lifecycle`: three operations suffice for create, update, and any third; two
  instances, because an operation on one refreshes the table of both.
* `keysync`: one instance with its replacement; a key, and one that a comma splits in two;
  six operations, key changes and restarts, so that, for one, an instance is created and
  then replaced while a key changes, the control plane stops meanwhile, the gateway
  restarts, and one more thing happens. The theorems have no such bound.
* `rotation`: five gateways cover the two ways of rotating (a port of its own, two
  slots), a direct slot beside a port, a port that two share, which may not be moved, and a
  proxy that is not Mihomo's; four nodes over three or two addresses, of which a rotation
  may try two, so that a search succeeds, meets a duplicate, ends with its attempts
  although another node would do, or finds nothing; two events and one failing call, at any
  point, the start-up probe of a slot included. The reconciliations are not bounded.
* `control_parts`: three updates over two subscriptions (set, replace, clear or refresh)
  with two failures, so that a rollback fails too; two clients, two passwords and a
  default, three sessions, a clock that passes the end of the first, one restart or failing
  write.

Symmetry is used over requests (`apirouter_two`), in a run that checks no liveness.
`MCKeySync` lets a behaviour rest when its operations are used up. Deadlock is not checked
in `gateway_parts`, `responses_two_calls` and `control_parts`: there a stream, a script or
the bounded operations end.

### Fairness

* `Forward`: a goroutine that can run does (`WF(Serve)`); `REQUEST_TIMEOUT` ends every
  context (`WF(ContextEnds)`); both arms of the select of a wait are served; the clock
  moves. Nothing is assumed of the upstream: that its exchange ends is a consequence
  of the context, on which every blocking call of `forward` depends.
* `Admission`: goroutines run on and `forward` returns. That a context ever ends is
  not needed: `Served` holds because Go wakes blocked senders in their order.
* `StreamRelay`: the relay and its timer run on; the upstream may stay silent for
  ever, and `OutputOrReturn` still holds because the timer is armed.
* `ProxyList`: an activity that has begun goes on, probes have deadlines, and the
  ticker of `proxyRefreshLoop` starts a refresh whenever none of its own runs.
* `InstanceLifecycle`: every Docker call has a timeout, so an operation proceeds; the
  ticker of `ReconcileInstances` and a handler that is storing its answer go on.
  `RoutesConverge` needs Docker to answer the ticker again at some time.
* `EgressRotation`: the holder of `rotationMu` goes on, as all its calls have timeouts.
  Strong fairness for the ticker and for the refresh after an update: others may take
  the mutex in between, but Go hands a mutex to a goroutine that has waited long enough.
* `MihomoUpdate`: the handler is one goroutine whose calls and waits are bounded. Of
  Mihomo nothing is assumed.

## 4. What the runs show

All properties of the passing runs hold. Worth knowing:

* Retrying is safe: no interleaving of failures, timeouts, departures and
  administrative changes gives a client two replies, a spliced one, or none, unless its
  context has ended or its target is malformed (`DeliveryInv`), and `forward` always
  returns.
* `QUEUE_SIZE` really bounds the line, although the channel that enforces it counts
  running requests too; this depends on `sem` being given back before `queue`.
* The healthy container of an instance survives every failure of its update, including a
  restart of the control plane between any two steps. It is out of reach from the first of
  the two renames of `docker.replace` to the second (docker.go:339-347), and if the
  control plane stops there, for good; not because of anything that fails before. Whether
  an update leaves a stray container depends only on unconfirmed calls, failed clean-ups
  and restarts.
* The routing table converges in spite of the unlocked write by `GET /instances`,
  and the proxy list in spite of three writers, thanks to the periodic repetition.
* Whatever fails in an update of the subscription, its rollback leaves settings, file
  and process in agreement, unless the rollback itself fails or is cut
  short, or the former file could not be read.
* However login, logout and change of password interleave, no session outlives its
  end, and the two halves of a password change do not lose an update.
* A reconciliation that reports no failure, and during which no gateway changed, has
  separated the instances that it compares: those that show a proxy whose address is
  known. One that shows its direct slot, or a slot that no probe has answered for, is
  passed over without a failure (rotation.go:290-297) and may share an address. From any
  state, the ticker separates those it compares for good once nothing else happens, save
  where it finds nothing to move them to (`Cornered`).

Three runs show where the code and a statement of the repository disagree.

* `forward_client_leaves`: a body whose read fails because the *client* left, or the
  request's own deadline passed, cools the exit and moves the active slot, although
  a comment (gateway.go:1648-1650) and README.md:17 speak of faults of the exit.
* `responses_two_calls`: `outputAdded` is one flag for the whole response, so the
  second function call of an upstream that sends only deltas is not announced.
* `apirouter_client_leaves`: the router counts a client's departure as a failure of
  the instance, up to refusing requests for want of a healthy instance. A body of more
  than 8 MiB has the same effect: the router goes on with the part that it has read
  under the `Content-Length` of the whole (server.go:332-337), the exchange fails, and the
  instance is charged with it (server.go:300-303).

Further observations made while modelling. The models contain the steps; where a
property has an exception for one, it is named.

* A success erases the minimum cooldown that a broken stream has just imposed on the
  same exit, and a later failure may overwrite it by a shorter one (gateway.go:77-135;
  README.md:108).
* A 429 that arrives after a probe has found another address behind the slot cools
  that other address (gateway.go:1218).
* The administrator's probe (gateway.go:672) puts a slot that was switched off as a
  duplicate back into service.
* A direct exit whose address becomes known while a request is under way counts as
  untried and may be used a second time by that request (gateway.go:1177). For this
  reason `DistinctExits` is stated for exits whose address is fixed (`FixedExits`).
* The first-output timer is armed when the header is there: an upstream that withholds
  it is bounded by `REQUEST_TIMEOUT` only (gateway.go:1203, 2308).
* With an upstream that sends only deltas, a text followed by a function call is
  missing from the completed snapshot (gateway.go:1940-1964).
* A target with a malformed escape (`/v1/%25zz`) makes `http.NewRequestWithContext` fail;
  `forward` returns the error and writes nothing (gateway.go:1178-1181), and the client
  reads the empty 200 that net/http sends for a handler that has written nothing.
* The wait for a cooldown is computed by a second look at the clock. If the cooldown has
  ended in between, the wait is negative and is taken for "no untried exit"
  (gateway.go:1778, 1804): the request is refused although an exit has just become ready.
* A final answer whose write to the client fails leaves no audit record
  (gateway.go:1259): `RowTellsAnswer` speaks of requests that were answered.
* The start-up deduplication publishes the list it read before its probes, and so drops
  the slots a refresh has added; the next refresh brings them back. A refresh does not
  re-enable a slot of the list that was switched off. If a refresh has listed a proxy that
  shares its address with the direct slot before the start-up deduplication reads the
  list, the direct slot is switched off in its favour, and nothing switches it on again
  when that proxy leaves the file (gateway.go:319-353): the second case of
  `OneInServicePerAddress`. A URL that is configured and
  also in the list file is listed twice, as the same object (gateway.go:538-548, 609-610).
  If that has happened when the start-up deduplication reads the list, the proxy is a
  duplicate of itself and goes out of service: the same case.
* An update whose refresh fails has replaced the container but not the saved upstream
  key (server.go:768-774): `SavedKeyIsUsed` excuses instances whose last operation
  was reported as failed.
* A restart between the two renames of `docker.replace` leaves containers that the
  console lists and cannot operate on: `NoStrayContainers` excuses interrupted
  operations.
* A key created while an instance is being created or replaced may never reach it
  (server.go:660, 762): the history variable `late` of `KeySync` names these containers.
* A key with a comma, which `createKey` accepts, is put into the environment of a new
  container as it is and split there (docker.go:216, 370; config.go:246-254): the gateway
  refuses the key and accepts its parts, until the next change of keys or start by the
  administrator pushes the set (`loaded`). Nobody is told.
* Neither program looks at the error of writing its `keys.json` (gateway.go:980-990,
  server.go:1474-1478). A gateway whose file could not be written comes back from a
  restart with the keys of its environment and of the older file (`worn`); a control plane,
  with the older set, which it does not push (`late`).
* Two rotations for 429s in one pass may end on one address, as `occupied` is not brought
  up to date (rotation.go:360 and following); the next pass separates them.
  `ReconciledDistinct` excepts it (`op.hits`).
* A rotation tries the nodes that follow the selected one, at most
  `maxMihomoRotationAttempts` of them, and restores the former node if none would do. The
  next pass tries the same nodes again (rotation.go:98-133): with more nodes than that, an
  instance may share its address for ever although a further node would separate it. This is
  the last case of `Cornered`.
* When the probe after an unsuccessful rotation fails too, the slot stays switched off,
  and on an instance with a single slot nothing switches it on again. A node whose address
  moves is noticed by the next probe only. `RecordsAreReal` excepts both (`excused`). The
  first user of a port that two instances share is never moved.
* The old Mihomo process may fetch, and so refill the cache that an update has just
  removed, before it is restarted; `mihomoProbe` can cause that too, as it takes no
  lock. `CacheOfSubscription` and `NodesOfSubscription` except it (`doubt`). A crash
  within an update is not repaired at the next start (`spoiled`).
* `admin.json` is written in place and its error is dropped: a write that is cut short
  brings the default password back at the next start. `ChangeLasts` excepts it
  (`unsaved`). A login that was verified before a change of the password may create its
  session after it; the change does not end that one.

## 5. What is proved

TLAPS checks, for every value of the constants that satisfies the named assumptions:

| theorem | statement | module |
|---|---|---|
| `TypeCorrect` | `Spec => []TypeOK` | `Forward_proofs` |
| `Delivery` | `Spec => []DeliveryInv` | `Forward_proofs` |
| `Refinement` | `Spec => ServesRequests` | `Forward_proofs` |
| `ExitsDistinct` | `FixedExits => (Spec => []DistinctExits)` | `Forward_proofs` |
| `CooldownsStay` | `Spec => CooldownsRemembered` | `Forward_proofs` |
| `HistoryWatches` | `HSpec => Spec` | `Forward_proofs` |
| `CooledOnlyForCause` | `HSpec => CooledForCause` | `Forward_proofs` |
| `FaultsAloneCool` | `HSpec /\ []ContextsLast /\ [][MovesAtRest]_hvars => []OnlyFaultsCool` | `Forward_proofs` |
| `AdmissionTypes` | `Spec => []TypeOK` | `Admission_proofs` |
| `Permits` | `Spec => []PermitsBalanced` | `Admission_proofs` |
| `NoIdlePermit` | `Spec => []WorkConserving` | `Admission_proofs` |
| `LineBounded` | `Spec => []WaitersBounded` | `Admission_proofs` |
| `RelayTypes` | `RelaySpec => []RelayTypeOK` | `GatewayParts_proofs` |
| `TimerSparesBody` | `RelaySpec => []NeverCut` | `GatewayParts_proofs` |
| `ImplementsBody` | `RelaySpec => RelaysBody` | `GatewayParts_proofs` |
| `FinishComesFirst` | `RelaySpec => []FinishBeforeDone` | `GatewayParts_proofs` |
| `OkIsComplete` | `RelaySpec => []OkMeansComplete` | `GatewayParts_proofs` |
| `PassesAllOn` | `RelaySpec => []NothingLost` | `GatewayParts_proofs` |
| `ListInvariant` | `ListSpec => []ListInv` | `GatewayParts_proofs` |
| `BaseSlotsStay` | `ListSpec => []BaseStays` | `GatewayParts_proofs` |
| `OneServesPerAddress` | `ListSpec => OneInServicePerAddress` | `GatewayParts_proofs` |
| `RefreshKeeps` | `ListSpec => RefreshKeepsSlots` | `GatewayParts_proofs` |
| `AuditInvariant` | `AuditSpec => []AuditInv` | `GatewayParts_proofs` |
| `RowsTellAnswer` | `AuditSpec => []RowTellsAnswer` | `GatewayParts_proofs` |
| `OneRowPerRequest` | `AuditSpec => []RowPerRequest` | `GatewayParts_proofs` |
| `EventTypes` | `EventsSpec => []EventsTypeOK` | `GatewayParts_proofs` |
| `AnnouncesOnce` | upstreams that `Supports`: `EventsSpec => []AnnouncedOnce` | `GatewayParts_proofs` |
| `ClosesBeforeCompleted` | upstreams that `Supports`: `EventsSpec => []ClosedBeforeCompleted` | `GatewayParts_proofs` |
| `LoadCounted` | `Spec => []LoadIsCounted` | `ApiRouter_proofs` |
| `FailedLeftAlone` | `Spec => LeavesFailedAlone` | `ApiRouter_proofs` |
| `OutageTakesBlame` | `Instances # {} => (Spec /\ [][ExchangesLast]_vars => []OutageIsReal)` | `ApiRouter_proofs` |
| `LifecycleInvariant` | `Spec => []LifecycleInv` | `InstanceLifecycle_proofs` |
| `NoStrays` | `Spec => []NoStrayContainers` | `InstanceLifecycle_proofs` |
| `SavedKeyStaysTrue` | `Spec => []SavedKeyIsUsed` | `InstanceLifecycle_proofs` |
| `UpdateServesOn` | `Spec => UpdateKeepsServing` | `InstanceLifecycle_proofs` |
| `KeyTypes` | `Spec => []Types` | `KeySync_proofs` |
| `KeysOpenAll` | `Spec => []OneSetOpensAll` | `KeySync_proofs` |
| `KeysRefuseDeleted` | `Spec => []DeletedKeysRefused` | `KeySync_proofs` |
| `RotationInvariant` | `Spec => []RotationInv` | `EgressRotation_proofs` |
| `RecordsReal` | `Spec => []RecordsAreReal` | `EgressRotation_proofs` |
| `RotatesApart` | `Spec => []RotatedApart` | `EgressRotation_proofs` |
| `ReconcilesDistinct` | `Spec => []ReconciledDistinct` | `EgressRotation_proofs` |
| `UpdateTypes` | `UpdateSpec => []UpdateTypeOK` | `ControlParts_proofs` |
| `FilesAgree` | `UpdateSpec => []Agreement` | `ControlParts_proofs` |
| `CacheBelongs` | `UpdateSpec => []CacheOfSubscription` | `ControlParts_proofs` |
| `NodesBelong` | `UpdateSpec => NodesOfSubscription` | `ControlParts_proofs` |
| `SessionTypes` | `SessionSpec => []SessionTypeOK` | `ControlParts_proofs` |
| `SessionsEnd` | `SessionSpec => []AcceptedUntilEnded` | `ControlParts_proofs` |
| `PasswordLasts` | `SessionSpec => []ChangeLasts` | `ControlParts_proofs` |

The type invariants, `LifecycleInv`, `RotationInv`, `ListInv`, `AuditInv`,
`WaitersBounded`, `NeverCut` and `CooledForCause` are in no run: their proofs say more
than a run would. Every safety property of the passing runs, invariant or action
property, and both refinements are in the table; what is left to TLC is liveness.

Three of the theorems are about the properties that the runs find violated. The run shows
that the property fails; the theorem names a condition under which it holds for every
value of the constants, so that what the condition excludes is the only cause:
`FaultsAloneCool`, `OutageTakesBlame` and `AnnouncesOnce`.

*Forward.* From `PoolAssumption` and `ForwardAssumption`: any number of slots, requests,
models, addresses and retries, any backoff. Its first lemmas show that each
operator of `SlotPool` returns slots; `TypeOK` is then inductive, action by action.
For the other two, `Good(q, x)` says that the step of a request from `q` to `x` keeps
`Delivered` and is a step, or a stutter, of `RequestService`; a lemma per form a step
takes (return, answer, relay, silent) gives `Good`, `ServeGood` goes through the
actions of a request, and `TypeOK /\ DeliveryInv` is the invariant under which they all
apply. It is needed because a reply is counted by the length of a list, which is known
to be empty only where `DeliveryInv` says so.

*Exits.* A request remembers identities, not slots, and an identity changes when an
address is found. `ExitInv` therefore adds that only slots with a known address are in
service (`SlotsKnown`, from `FixedExits`: no direct slot, one address per exit, no
switching by the administrator), that the identities remembered are the addresses of the
slots used, one per attempt (`Counted`), and that a slot that was picked stands for an
identity not yet tried (`Chosen`). `CooldownsStay` takes one step of one request: an
entry is added after a full table has given up the one that ends first, and the table has
room for it because it never exceeds its bound (`TableBounded`).

*What cools an exit.* The histories of `ForwardHistory` say which address an attempt left
through (`via`) and which exits have failed at their present address (`guilty`); they only
watch (`HistoryWatches`). `CooledOnlyForCause` assumes nothing: a cooldown of an exit as a
whole starts or grows only in a step in which an attempt at it fails (`AttemptFails`), and
either this makes the exit guilty or the attempt is no evidence (`Excused`): its own
context has ended, or the exit has got another address since. A 429 cools one model
(`CoolModelSpares`), and no probe, success, switch or rotation makes a cooldown longer.
For `FaultsAloneCool` the two excuses are excluded: no context ends under an attempt
(`ContextsLast`), and an address changes only while no attempt is with the exit and leaves
it uncooled (`MovesAtRest`). The second half of that is needed, because the start-up probe
of the proxies forgets the charge with the old address but not the cooldown. Behaviours
like this exist: probes at start-up and between requests, with clients that stay.
`OnlyFaultsCool` is not inductive, as it does not say that a charge made when an attempt
fails is one against the present address: `FaultInv` adds that the exit of an attempt has
the address the attempt left through (`AtExit`), up to the moment at which its failure is
charged.

*Admission.* `IInv == TypeOK /\ PermitsBalanced /\ WorkConserving` is inductive. None
of its parts is by itself: that `queue` and `sem` stay in range when they are
decremented follows from counting the requests that hold a permit, and the hand-over in
`Finish` balances only together with the types. `WaitersBounded` follows from `IInv` by
counting: if somebody waits, all permits of `sem` are held by requests that hold a
place of `queue` as well. The cardinality lemmas come from `FiniteSetTheorems`.

*Relay.* From `RelayAssumption`: bodies of any length, any timeout. `CommitInv` says what
`committed` separates and which results are possible on each side; the refinement
follows from it. `MarksInv` says that each mark of the loop is borne out by a piece
among those written or held back, and that every `[DONE]` there has a finish reason before
it. `NothingLost` compares with a function of the whole body; `TranscriptGrows` shows
how that function grows by one piece, and `HistoryInv` that the loop adds just that.

*Router.* `LoadInv` counts the requests that were given an instance and have not
released it; every way out of an exchange passes `Release` once. `CircuitInv` says that
no circuit closes before `rest`, the shortest circuit time since the last failure, is
over: a failure opens it for at least that long (`OpenLongEnough`). A selection
then takes a candidate whose circuit is shut if there is one. `RouterAssumption` states the
power of two to be a positive number, which is arithmetic the provers do not know.
`OutageTakesBlame` needs two things that depend on each other (`UpInv`): whatever is
believed of an instance is good, and a request in its preflight has an instance left
to ask or one that is ready. The only steps that break the first in a system whose
instances do not fail are `ClientLeaves` and `CutBody`, which withdraw the belief in an
instance that did nothing wrong; `ExchangesLast` excludes them.
With no instance at all a request is refused rightly, hence `Instances # {}`.

*Instances.* Any number of instances, operations and keys, every combination of faults.
`LifecycleInv` says for each step of an operation which containers its instance has and
under which names (`CreateInv`, `NextInv`, `OldInv`, `PairInv`), and of instances at rest
that their containers bear their name (`Tidy`) and use the recorded key (`Recorded`). The
three properties need all of it: that the old container may be retired, for one, rests on
the new one having been probed three steps before. For `UpdateServesOn` each step of an
update keeps a healthy container under the own or the previous name, and only `SetAside`
takes the own name from one. The lemmas are by kind of change: a
container gets another state (`Restated`) or another name (`Reassigned`), and one of
`CreateProceeds`, `UpdateProceeds` and `RestProceeds` then carries the invariant over.

*Keys.* Any number of instances and keys, and of changes and operations one after another.
A container that is `Settled` (running, none of the histories names it, and neither a key
change nor a lifecycle operation has yet to push to it) has all keys and would load
them again, or those without a comma before its first push (`HasKeys`), and has no others
but the parts of keys (`HasNoOthers`). That a key is either whole or none of its own parts
is what `KeySyncAssumption` says of the split. The hard case is the replacement that runs beside
its predecessor: a push to it fails once it has taken the other's name, and that
failure is what the administrator is told (`Pending`). `NoneBeside` keeps a key change
from listing a container that does not exist yet.

*Rotation.* Any number of gateways, slots, ports, nodes, events and failing calls. A
reconciliation decides by what it read before, so `RotationInv` has three parts that feed
one another. `RecordsInv`: what a gateway has on record for a slot is so, except for the
slot whose port is being tried, or that it is not known. `Reading` and `ManualInv`: while
nothing stirs, what was read is still shown, save at the instance that is rotated.
`ReconcileInv`: in the first pass the instances before `op.at` are noted as the owner of
the address they show and those behind it are as read (`FirstPassInv`); the second pass
starts with all of them noted, and what its first rotation finds is nobody's
(`SecondPassInv`). Instances that are passed over are noted nowhere, and no part speaks of
them. An address has one owner, so instances that are noted are apart. With a second
rotation in the pass the last part fails, which is the exception `ReconciledDistinct`
makes.

*Proxy list.* Any files, worlds, targets and number of changes. `Listing` says of
everything published or about to be published that it is the base slots followed
by slots of the file, of which no URL is there twice and one that is configured is the
base slot itself. That a refresh keeps the objects needs `AloneInv`:
while no other activity overlaps, a URL has one object in list and candidates together.
For the base slots in service the argument is
about the list that the start-up probe has read: the position kept for an address is that
of a base slot if one can have it, and a base slot at a kept position goes out of
service only if it is listed again. The lemmas
about `Rank` and `FirstPicked` show that every rank up to the number of picked candidates
is reached once, so that the dynamic part of a list has no slot twice.

*Audit.* Any number of requests and attempts and any length of the list. `AuditInv` says
that record n of a request is that of its n-th attempt, that all but the last have failed,
and that what is listed was made by a request (`Made`). The record with the highest number
is therefore the one that was answered, in whatever order the list has them.
A row is placed by the number of rows up to it. For that number to be its place, the order
of the rows must be strict and total although times may coincide: `Earlier` takes the place
of the first record then, which no two requests share (`RankedOnce`). It follows
that every place is taken once.

*Lifecycle events.* Responses of any number of items, upstreams that leave out any events.
`Supports(u)` is the hypothesis: one item, or nothing left out of any item. The run
`responses_two_calls` shows that it cannot simply be dropped: two calls of which only the
deltas arrive are not announced. `EventsInv` says that an item is announced and closed at
most once (`ItemsInv`), that nothing is completed before the end (`FinalInv`), and, which
the flags alone do not, what they stand for: with one item, what was sent of it
(`OneItem`); with more, the place of the upstream in its script tells what was sent
(`Complete`), and the flags are set from the first item on, so that nothing is
injected. `RelayItems` gives the effect of an event on what was sent, from the lemmas on
concatenation.

*Mihomo.* `UpdateInv` says for each step of the handler what it has made of the files
and the process so far, and what `rollback()` will put back; with it every exit of the
handler, successful or not, leaves agreement.

*Sessions.* `SessionInv` relates the table to the sessions that were granted and ended,
in particular that one that is neither expired nor ended is still in the table;
`CredentialInv` says that a change being written is unsaved, and that one is written at
a time.

*Only model-checked.* Liveness (`RequestReturns`, `Served`, `OutputOrReturn`,
`RoutesConverge`, `ListServedThere`, `EventuallySettled`, `UpdateEnds`), which the
provers do not reach.
That the backoff is a natural number within its bounds is proved from the form of
`Backoff`, with nothing assumed of the power in it.

## 6. Not modelled, and plan

Not modelled: the rewriting of requests and the filtering of model lists (JSON to
JSON, no state; `Forward` begins when that is done); the bytes of SOCKS5; parsing of the
environment, whose results are the constants; the console's pages; the EdgeTunnel
generator, a one-shot printer. Of `partly` modelled
components: reasoning items and items interleaved by index in `ResponsesLifecycle`; the
sums, costs and log pages of the overview in `AuditLog`. Of the hazards listed in
`PROJECT.json`, three have no property: the code does both of two things and no text of
the repository says which of them is meant.

Next:

1. Two instances in `KeySync`; `Admission` and `Forward` composed, so that the fairness
   `Admission` assumes is the one `Forward` provides.
2. Items interleaved by index in `ResponsesLifecycle`.
