# Formal model of nural.js

nural.js is a TypeScript monorepo for HTTP services and microservices:
`packages/core` (routing, adapters, application lifecycle),
`packages/microservices` (event and RPC transports), `packages/auth` (tokens,
sessions, keys, policies, identity providers), `packages/cli` and
`packages/testing`. This directory holds TLA+ models of it, with the weight on what
depends on the order of things: connections that drop, messages that are
redelivered, replies that arrive late, sessions and keys that expire, signals,
commands that are killed. TLC checks them on small instances; TLAPS proves the
invariants for every instance.

Contents: 1 inventory, 2 how to run, 3 the modules, 4 the runs and their bounds,
5 fairness, 6 the proofs, 7 where the code and its documentation disagree, 8 what
else the models show, 9 what is not covered, 10 plan.

## 1. Inventory

### 1.1 Microservices (`packages/microservices/src`)

| component | state | operations | what is hard | module |
|---|---|---|---|---|
| `transports/base.transport.ts` | `state`, `reconnecting`, the in-flight set | `connect`, `openWithRetry`, `handleDisconnect`, `trackInflight`, `close` | no lock, only `state`, with an await between reading and writing it | BaseTransport |
| `transports/rmq.transport.ts` | connection, channel, consumer, reply queue | `openConnection`, `ensureConsuming`, `routeFailedMessage`, `emit`, `send`, `reply`, `teardown` | a channel captured before a drop and used after it; publish, then ack, with a cut between | RmqDelivery |
| `transports/redis.transport.ts` | two clients, `inboxSetup` | `send`, `ensureInbox`, `onServerMessage`, `reply`, `teardown` | pub/sub is at most once and goes to every worker | RedisRpc |
| `transports/rpc-correlation.ts` | pending calls with timers | `waitFor`, `deliver`, `fail`, `rejectAll` | reply, timer, failed publish and close race for one promise | RedisRpc |
| `server/microservice.builder.ts`, `idempotency.ts` | handler table, a bounded `Map` | lookup, run, record, reply | awaits between lookup, run and record; eviction | RedisRpc |
| `transports/memory.transport.ts` | subscriptions, inbox, microtasks of the bus | `listen`, `emit`, `send`, `reply`, `close` | a mixed fleet; what close leaves behind | MemoryTransport |
| `transports/kafka.transport.ts` | producer, consumer, offsets | `eachMessage`, `deadLetter`, `close` | a crash or a rebalance between outcome and commit | KafkaTransport |
| `transports/wire-envelope.ts`, `signing.ts` | none | wrap, sign, verify, read | which check comes first, what a legacy reading takes for a request | WireEnvelope |
| `errors.ts`, `contracts/`, `telemetry.ts` | none | builders, spans | no protocol state | none |

The builder registers its wrapper with a transport; the transport calls it per
delivery and turns its promise into an ack, a retry or a dead letter; for a
request the wrapper calls back `transport.reply`. Transports share
`BaseTransport`: every `emit`, `send` and `reply` first awaits `connect`.

What makes them correct: one connect loop at most and no caller parked on a loop
that is gone; no accepted message lost, and duplicates only because of a lost
connection; a caller's promise settled once, in time, with an answer to its own
operation; an answered retry not executed again; a message handled as what its
sender sent; offsets committed behind outcomes only.

### 1.2 Auth (`packages/auth/src`)

| component | state | operations | what is hard | module |
|---|---|---|---|---|
| `session/redis-store.ts` | refresh, family and user-set keys, each with an expiry | five Lua scripts | three expiries that must stay in step, a cap counted on one of them | SessionStore |
| `session/session-manager.ts` | none | issue, rotate, revoke | the rotation is committed before the token is signed | SessionClient |
| `kms/*` | key cache, refresh in flight, poll timer, retired keys | poll, `refreshNow`, `dispose`, `getKey` | joined refreshes, dispose during a fetch, overlap windows | CloudKeys |
| `token/*`, `auth.ts`, `errors.ts` | none | sign, verify, inspect, guard | the order of the checks, clocks that differ | TokenEngine |
| `providers/jwks.ts` | cached key set and its age | `verifyIdToken`, `clearCache` | concurrent fetches finish in any order | JwksCache |
| `providers/{oidc,google,github,http,pkce,observe,types}.ts` | cached endpoints | `getAuthUrl`, `exchangeCode` | several logins in one browser, retries, lost answers | OAuthFlow |
| `policy/engine.ts`, `policy/guard.ts` | none | combinators, accessors, middleware | claims of any shape | PolicyEngine |

The engine asks a key provider for the primary key (sign) or a key by its id
(verify); the session manager calls the store, then the engine; an OIDC provider
calls `httpJson` and then the JWKS verifier; the guard calls the engine and leaves
the user for the policies.

### 1.3 Core, CLI and testing

| component | state | operations | what is hard | module |
|---|---|---|---|---|
| `core/{nural,provider,module}.ts` | providers, routes, shutdown hooks | `registerProvider`, `register`, `registerModule`, `start`, signal handlers | a signal during setup, a second signal during a sweep, half a batch | AppLifecycle |
| `adapters/find-port.ts` | none | probe, close, bind | the port is free only while probed | AppLifecycle |
| `adapters/{express,fastify,base}.ts`, `core/{route,exceptions,exception-filter,middleware}.ts` | one response per request | the request pipeline | two engines with their own order of steps and one contract | HttpPipeline |
| `core/schema-compiler.ts`, `middleware/{cors,helmet}.ts`, `types/{error,middleware}.ts` | none | decisions taken at boot or per request | refinements that a conversion drops silently | HttpDecisions |
| `cli/src/commands/{generate,add}.ts` | the project's files | edit, install, register | read, edit, truncate, fill, with awaits between | Codegen |
| `cli/src/core/{scaffold,render}.ts`, `commands/new.ts` | a new directory | build a project | no way back when cut | Scaffold |
| `cli/src/commands/{routes,docs,console,clean}.ts` | scratch files | look into an application | fixed file names | CliTools |
| `packages/testing` | none | test clients | one call per request | none |

PROJECT.json lists these components with their status, and the hazards of the
code, each at its line, with the properties that guard it or the reason why none
does.

## 2. How to run

    tlc -config BaseTransport.cfg MCBaseTransport.tla
    tlc -config HttpApp.cfg MCHttpApp.tla
    tlapm BaseTransportProofs.tla

and so on: section 4 names module and configuration of every run, section 6 the
proof modules. The longest run takes about three minutes with two workers; each
proof module takes well under two minutes from nothing.

## 3. The modules

A package is an `MC*` module that joins its modules and gives the instance TLC
checks. Where an MC module joins parts that share no state, a variable `part`
says which one a behaviour is about, and the other parts rest: the parts are
checked side by side, not multiplied.

| module | models | joined by |
|---|---|---|
| `BaseTransport` | the connection lifecycle | `MCBaseTransport` |
| `RmqDelivery` | a RabbitMQ message from the queue to its ack | `MCRmqDelivery` |
| `RpcCall` (abstract), `RedisRpc` | request/reply with idempotency, end to end | `MCRedisRpc` |
| `WireEnvelope`, `MemoryTransport`, `KafkaTransport` | what crosses the wire, and two transports that use it | `MCTransports` |
| `TokenEngine`, `CloudKeys`, `PolicyEngine` | tokens over keys that rotate, and what a token's claims allow | `MCAuthKeys` |
| `JwksCache`, `OAuthFlow`, `SessionClient`, `SessionStore` | login and session of a user, refresh tokens in Redis | `MCAuthFlows` |
| `HttpDecisions`, `HttpPipeline`, `AppLifecycle` | a request, and the process that serves it | `MCHttpApp` |
| `Codegen`, `Scaffold`, `CliTools` | commands over project files | `MCCli` |
| `BaseTransportProofs`, `RmqDeliveryProofs`, `SessionStoreProofs`, `RedisRpcProofs` | proofs about the module of that name | |
| `TransportsProofs`, `AuthProofs`, `HttpAppProofs`, `CliProofs` | proofs about the modules of a run, together | |

A module that is checked together with others has a specification of its own for the
proofs (`MemorySpec`, `KafkaSpec`, `KeySpec`, `JwksSpec`, `OAuthSpec`, `SessionSpec`,
`PolicySpec`, `AppSpec`, `HttpSpec`, `CodegenSpec`, `ScaffoldSpec`, `ToolsSpec`); the run
takes the same steps, from these initial states or from later ones, narrowed where
section 4 says so.

The "map" of PROJECT.json gives the lines each definition stands for. External
entries are what the code relies on and does not contain: the broker, Redis, the
vault, an identity provider, Express and Fastify, Node.js, the operating system.
Operators marked as mutants change one definition the way a bug would; each shows
that a property notices it.

### 3.1 BaseTransport

The program is one event loop, so a step of the model is the code between two
awaits. Continuations that are already queued run before the next outside event:
the guard `Quiet` says that no resumed caller is waiting to go on. A task is an
`emit()` or an inbound delivery that ends in `reply()`; both call `connect()` and
then use `this.channel`.

| code | model |
|---|---|
| `this.state`, `this.reconnecting` | `state`, `reconnecting` |
| `this.connection`, `this.channel` | `handle`, `channel` (a channel is named by its connection) |
| a run of `openWithRetry` | `loop[l]` (dial, channel, topology, sleep), `attempt[l]`, `opening[l]` |
| the four exits of `connect()` | `ConnectAtOnce`, `ConnectAwaits`, `ConnectThrows`, `ConnectOpens` |
| the close listener | `Drop(c)` with `HandleDisconnect`, for any open connection, a stale one too |
| `drainInflight` and its timer | `awaited[k]`, `Drained`, `DrainTimesOut` |
| `teardown()` | `TeardownCloses` (the close event runs `handleDisconnect`), `TeardownEnds` |

Abstracted: the length of a backoff (some time), URLs, the topology's contents. A
reconnect promise is an identity from `Reconnects`, reused once its loop ended.

### 3.2 RmqDelivery

One worker consumes one queue. Its connection is a sequence of frames (`wire`)
that the broker takes in order and that a loss cuts anywhere. A queued message is
a `Copy`: its identity, routing key and x-retry-count, which is all the consumer
looks at. Each delivery is a `run` with an identity from `Slots`:

- `handling`: the handler works, the channel it captured is the current one;
- `stale`: the handler works and the captured channel is gone, so each of its
  calls on that channel throws;
- `acking`: the frames are written, the broker has not taken the ack;
- `ended`: over, after the rejected promise that ends the process.

`Deliver` is the consume callback up to its first await: a message without a
handler is acked, an unreadable one dead-lettered, the rest handled.
`RouteFailed` is the order of the two frames of `routeFailedMessage`, on which
at-least-once delivery rests. The routing key matters: a retry goes to the queue
by name, so the copy arrives with the queue's name as its key (`Retried`).
`Close` and `CloseEnds` are the worker's `close()`: the consumer is not
cancelled, so deliveries continue until the channel closes. `Drop`, `Kill`,
`ProcessEnds`, `Restart` and `BrokerRestart` are the faults.

Abstracted: payloads and headers other than the counter, the client side of
`send()` (a direct reply queue; RedisRpc has the correlator it shares), the reply
of a stale run goes out on the new channel, as it does in the code.

### 3.3 RpcCall and RedisRpc

`RpcCall` promises: a call is settled at most once, with a failure or with the
result of a run of the same operation (its own request, or one with the same
topic and idempotency key), and a call that waits is settled in the end.

`RedisRpc` has one client and several workers. Redis hands a request to any
subset of the workers and may lose any reply. A `job` is a worker handling a
call; its states are the awaits of the builder's wrapper: the lookup (`Get`), the
handler (`HandlerReturns`), recording the outcome (`Record`), replying (`Reply`).
The store is the insertion-ordered map with its eviction (`Set`), shared by the
workers that `StoreOf` gives the same store. On the client, `Send` has the three
ways a call can go: wait for the inbox subscription, publish, or fail. The
correlator is `pending`, and `Settle` its deletion. `Close`, `RejectAll` and
`QuitEnds` are the three stretches of `close()` between its awaits.

The refinement maps a call that was sent and has no outcome to `Waiting`, and an
operation to its topic and key, or to the call itself when it has no key.
`answered`, `runs` and `evicted` are history: which stores had answered a call's
key when it was sent, which jobs ran the handler, which keys were evicted.
`MCRedisRpc` adds `setting`, chosen at the start: the calls that are made and the
workers that are up.

Abstracted: `emit()`, payloads, signatures; a request that fails its envelope
checks is one that no worker hears. Reconnection of the Redis clients is
ioredis's own and shows as losses.

### 3.4 SessionStore

Redis runs a script atomically, so an action is a whole script; what interleaves
is the scripts of any number of clients and the expiry of keys. Every key has a
deadline, and exists while `now` is before it. `Issue` prunes the user's set,
adds the family and evicts the lowest scores over the cap; members of equal score
are ordered by random identifiers in Redis, so the model takes any of them, the
new session included. `ROTATE` has its four outcomes in the script's order:
`RotateInvalid`, `RotateRevoked`, `RotateReuse`, `RotateOk`. `Slide` is what a
rotation does to the deadlines. `ended` and `previous` are history.

Abstracted: hashes are identities, JSON fields other than the ones read are left
out. Scores are in milliseconds and expiries in seconds in the code; the clock of
the model counts seconds, so scores tie more often than in the code: every
choice of victims the code can make is among those the model makes.

### 3.5 WireEnvelope, MemoryTransport, KafkaTransport

`WireEnvelope` has no state: `WrapEvent`, `WrapRpc`, `Sign`, `VerifyWire`,
`ParseWire`, `ClassifyLegacy` are the functions of `wire-envelope.ts`,
`signing.ts` and `readWire` of the base transport. A JSON value is a record of its
type, text or fields, and size, so a payload can look like an envelope.

`MemoryTransport` runs on one event loop; a step is the code between two awaits.

| code | model |
|---|---|
| `state`, `handlers`, `subscriptions`, `inbox` | `transport[n]` |
| `queueMicrotask` per listener in the bus | `ticks`, in order; `OnServerMessage`, `OnReply` take the first |
| `listen`, before and after `await connect()` | `Listen`, `Listening` |
| `emit`, `send` | `Begin`, then `Emit`, or `EnsureInbox` and `Send` |
| the builder's wrapper around a handler | `Reply`, `HandlerReturns`, `HandlerThrows` |
| `close`, `teardown` | `Close`, `Teardown` |

`KafkaTransport` is a consumer group. `eachMessage` is `Fetch` (the checks before
the handler), `HandlerEnds` and `DeadLetter`; `KafkaClose`, `KafkaTeardown`,
`ProducerGone`, `ConsumerGone` are the stretches of `close()`. `Moves` is the
group giving a partition away, `Commit` the auto-commit of kafkajs, `Crash` the
end of a process. A record is what was sent, or has no value (`NoValue`, a tombstone):
the worker passes over that one, without a handler or a dead letter (outcome
"skipped", `kafka.transport.ts:122`). kafkajs and the broker are external. Abstracted: topics (a
partition belongs to one), producer batches, headers.

### 3.6 TokenEngine, CloudKeys

`TokenEngine` is the order of the checks in `sign`, `verify` and the inspector, and
the guard's status for each error; a packet is a record of what those checks read,
and a sealed packet opens with its own key only. `CloudKeys` puts a fleet of
servers over it.

| code | model |
|---|---|
| `cachedKeys` with `retiredAt` (`cloud-provider.ts`) | `provider[s].keys`: not cached, in the vault, or the age since it was retired |
| `inflight`, `timer`, `consecutiveFailures`, `disposed` | `fetch` and `snapshot`, `due`, `failures`, `disposed` |
| `refresh`, `doRefresh`, `scheduleNext`, `backoffDelay` | `Refresh`, `Refreshed`, `ScheduleNext`, `BackoffDelays` |
| `getPrimaryKey`, `getKey`, `live` | `Begin` (a cold cache waits), `Live` |
| `sign`, `verify` with its hooks | `Sign`; `VerifyOpens`, `RevocationAnswers`, `RevocationRejects` |

The vault may change at any moment and answers with what it held at some moment of
the fetch. Time is kept as ages, which stop at `MaxAge`, past every expiry and the
overlap window (`KeysAssumption`). Servers read clocks that differ by `Skew`.

### 3.7 JwksCache, OAuthFlow, SessionClient, PolicyEngine

- `JwksCache`: one issuer. `Verify` uses the entry or asks, `IssuerReads` and
  `FetchArrives` are the two ends of a fetch, `Selected` is the key match with the
  forced refetch. Signature and claims are taken as checked after the key.
- `OAuthFlow`: `Authorize`, `Callback`, then per request of `exchangeCode` the
  attempts of `httpJson` (`AttemptFails`, `HeadersArrive`, `BodyArrives`,
  `AnswerUnusable`) and what each provider makes of the answer (`AfterToken`,
  `AfterIdToken`, `AfterProfile`, `AfterEmails`). `AfterGithubProfile` takes whatever
  email the profile has and asks for the list of emails only when it has none, as
  `github.ts:141` does. The state, verifier and nonce of a login are named by the login.
- `SessionClient`: `session-manager.ts` between the tabs of a browser and the store.
  `StoreRotates` and `Signed` are apart, as they are in `rotate()`; each answer may be
  lost. `excuse` is history: what may make an honest client look like a replay.
- `PolicyEngine`: combinators and accessors as operators over claims of any shape,
  and the middleware that runs one policy per step.

### 3.8 HttpDecisions, HttpPipeline, AppLifecycle

`HttpDecisions` holds the functions without state: which slots the schema compiler
gives to ajv and which to Zod, the CORS and Helmet headers, the status of a thrown
error. A schema is the set of the kinds of
its nodes, a value is right, wrong in its shape, or wrong only for a refinement.

`HttpPipeline` takes one request through both adapters. The initial state chooses
route, request and configuration (`case`); `run[e]` is the request in engine `e`:
its place, the middleware reached, who set each context key, the error, the reply.
One action per stage: parse, middleware, validation, handler, reply, error. What the
middleware of a route contributed is kept by both engines; only Fastify shows it to
the middleware that follow, as `req.nuralCtx` (`NuralCtx`). A middleware that "reads"
answers 403 when it finds no user there, as `requirePolicy` does.

`AppLifecycle` is the process around it.

| code | model |
|---|---|
| `registerProvider`, before and after `await init()` | `RegisterProvider`; `SetupResolves`, `SetupRejects` |
| the once-handlers, the sweep over the reversed copy | `handlers`, `Signal`, `DestroyNext`, `TeardownSettles`, `SweepEnds` |
| `register`, `registerModule` | `RegisterModule`: listed, served and, with the docs on (`docs`), documented, up to the first refusal |
| `start`, `findAvailablePort`, `listen` | `Start`, `Probe` (an error other than a taken port falls back to the requested one), `Bind`; `OthersMove` takes and frees ports |

### 3.9 Codegen, Scaffold, CliTools

Commands share nothing but files, and every write is two steps: the file is truncated,
then filled from its start. A command killed between the two leaves it empty; when
another command filled it in between, the longer text leaves its tail behind.

`Codegen` is `generate` and `add`.

| code | model |
|---|---|
| `app.ts`, `main.ts` as the edits look at them | `sources`: the user's text (`text`: with `app.start(`, without it, cut off, no file), the registrations in order (`calls`), the names that only a comment holds (`notes`) |
| `content.includes(name)` | `Includes`: an identifier may end with another (`Mentions`) |
| the read with the edit; the two halves of the write | `ReadSource`; `Truncate` and `Fill`, with `Overlays` for the tail of a longer text |
| the files that are generated | `files`, `granular`; `OpenModuleFile` and `FillModuleFile`, `OpenGranular` and `FillGranular`; `hollow` while between the two |
| `package.json` and the package manager | `InstallDeps`, `InstallDevDeps`, `AddScripts` |

`reported`, `removed`, `overlooked` (reported, though another's identifier was found and
nothing was wired), `overlaid` and `undisturbed` are history. Imports, and where in a
line a registration lands, are part of the plain text.

`Scaffold` is `new`: a part of the project is opened and filled (`OpenPart`,
`FillPart`), and holds what it was rendered for, nothing, or a mixture. `CliTools` is `routes`, `docs`, `console` and `clean` over their fixed scratch names; the look
at a file and its deletion are two steps. `Stops`, `Breaks` and `Killed` are Ctrl-C
or an error at any await.

## 4. The runs

| run | module, configuration | checks | distinct states |
|---|---|---|---|
| base_lifecycle | MCBaseTransport, BaseTransport.cfg | TypeOK, SingleFlight, WaitersAwaitLiveLoop, ConnectedUsable, CallsReturn | 150,795 |
| rmq_delivery | MCRmqDelivery, RmqDelivery.cfg | NotLost, EventuallySettled | 739,061 |
| rmq_duplicates | MCRmqDelivery, RmqDeliveryDuplicates.cfg | DuplicatesNeedCuts | 226,264 |
| rmq_worker_dies | MCRmqDelivery, RmqDeliveryStale.cfg | SurvivesDrops is violated | |
| rpc_calls | MCRedisRpc, RedisRpc.cfg | PendingIffWaiting, RetryDoesNotRerun, ImplementsRpcCall | 593,129 |
| rpc_poisoned_inbox | MCRedisRpc, RedisRpcInbox.cfg | SendReachesRedis is violated | |
| transports | MCTransports, Transports.cfg | HandledAsSent, NothingVanishes, OffsetsAccounted, PartitionInOrder, PoisonDoesNotStall | 1,135,811 |
| auth_keys | MCAuthKeys, AuthKeys.cfg | TokenOutlivesRotation, NoPollAfterDispose, InspectorExplains, MalformedClaimsRefused, CacheFollowsVault | 513,356 |
| auth_flows | MCAuthFlows, AuthFlows.cfg | JwksStaleness, LoginProven, HonestClientStaysIn, EndedStaysEnded, CapHolds, ReplayDetectable, CallbackAnswered | 947,723 |
| http_app | MCHttpApp, HttpApp.cfg | GracefulExitDisposes, RoutesAgree, HandlerSeesValid, EnginesAgree, LifoTeardown, SignalEndsProcess | 548,049 |
| guard_in_express | MCHttpApp, UpstreamGuard.cfg | UpstreamIsSeen is violated | |
| cli | MCCli, Cli.cfg | WiredIsWritten, NeverTwice, SuccessIsComplete, ReadyIsComplete, ScratchFilesDoNotMislead | 3,020,453 |

Deadlock is checked where the system can always go on or `Finished` names the states
in which it may rest (the base transport, RabbitMQ and Redis runs). In http_app,
guard_in_express, auth_keys, auth_flows, transports and cli a finished request, a closed
transport, a session that expired or a project nobody types a command in may rest, so deadlock is not an error.

Bounds, and why they are enough:

- **base_lifecycle**: one `emit`, one delivery, one `close()`, two reconnect
  promises, two connections, `maxRetries` 1. Two tasks are what a race between
  two `connect()` calls needs; a second connection is what a stale listener and a
  channel of an earlier attempt need; one retry gives both sides of the budget. A
  connection identity is reused when nothing refers to it, so the number of drops
  is unbounded.
- **rmq_delivery**: an event, a request and a malformed message, two deliveries
  at once, `maxRetries` 1, two cuts (a loss, a kill or a `close()` each). One
  message of each kind takes every branch of the callback; two cuts let a
  redelivered message be cut again. `cuts` bounds the faults only.
  **rmq_duplicates** has three run identities, a broker restart and a queue whose
  own name has no handler, so that every branch of `Deliver` fires. The bound of
  the property grows with the losses that really happened.
- **rpc_calls**: a setting is chosen at the start: a call, its retry and a call with
  the same key on another topic at one worker; a call and its retry at two workers
  that share a store, so that two replies, or a reply and a rerun, race; a call
  without a key beside the first two. The store holds one entry, so each further
  key evicts. Each call is published once.
- **transports**: one server and one client on the bus, each also a sender's
  inbox; an emit, a send and a message of an old peer; six pairs of options
  (alike, another secret, no secret, no legacy window) and three sets of payloads,
  which include one too large once signed and one that looks like an envelope. Only
  the server listens (`Listeners`). Kafka: two workers, one partition of two
  records, with a value or without one, one crash or move: two records tell order and
  skipping apart.
- **auth_keys**: two servers with clocks one apart, two vault versions, an overlap
  window and a token life of 1, a poll every 2, so that a key is retired and dropped
  within a token's life on one server and not on the other. Failures are counted to
  2, where the backoff reaches its ceiling. Ages are counted to where they stop
  mattering (`MaxAge` 3), so time is unbounded. Two cloud servers are taken without polls (a
  refresh may happen at any moment, which covers any schedule); the polling server
  stands beside a static one. Policies of one or two groups of one or two leaves, over
  claims of every shape.
- **auth_flows**: two verifications, two keys, ages bounded the same way; two logins
  in one browser, one retry; two tabs and three tokens, so two rotations. The store:
  four tokens, three families, a cap of two, a TTL of 2 on a clock to 4, so that three
  families exceed the cap, four tokens allow two rotations, and sessions expire before
  the end of the clock.
- **http_app**: three providers, one without a teardown, both signals; two good
  routes and one that is refused, in batches of two; three ports. Requests: every
  combination of nine middleware chains (empty, adding to the context, reading it,
  answering, throwing), seven answers, and for each slot the schemas and values that tell
  validators apart; and separately CORS, Helmet and error handler settings, which no validation depends on. **guard_in_express** has the same bounds.
- **cli**: two shells and three commands, two faults; two `new` of one project name,
  one break; five tool runs to choose three from, two edits, one kill. Two commands
  are what a lost update needs, the third is a rerun after a failure. One name in lower
  case ends another's (item, orderItem).

What the passing runs show:

- `SingleFlight` and `WaitersAwaitLiveLoop`: the state machine that `connect()` and
  `handleDisconnect()` share without a lock starts one loop at a time and forgets
  no caller; `CallsReturn`: callers of `connect()` and `close()` get an answer, even
  if a handler never returns. `ConnectedUsable`: what earlier attempts leave behind
  never mixes into a connected transport (until `close()` is called, see section 8).
- `NotLost` and `DuplicatesNeedCuts`: at-least-once, and what "at least" costs.
  `EventuallySettled`: a poison message does not circulate for ever.
- `PendingIffWaiting`, `RetryDoesNotRerun`, `ImplementsRpcCall`: the correlator
  leaks nothing, and the end-to-end protocol is the abstract call.
- `HandledAsSent`, `NothingVanishes`: a payload cannot turn an event into a request,
  nor is a failure swallowed. `OffsetsAccounted`, `PartitionInOrder`,
  `PoisonDoesNotStall`: Kafka's at-least-once in order, through crashes and moves,
  without one bad record holding up the others. Passed over without an outcome of a
  handler are the records without a value, and no others.
- `EndedStaysEnded`, `CapHolds`, `ReplayDetectable`: logout, session limit and
  replay detection through expiry. `HonestClientStaysIn`: the only ways in which a
  correct client loses its session to replay detection.
- `TokenOutlivesRotation`, `CacheFollowsVault`, `NoPollAfterDispose`: rotation does
  not refuse live tokens where their key was known, and every cache follows the vault
  in the end. `InspectorExplains`: two readings of one packet agree.
- `JwksStaleness`: the bound on a stale answer, overlapping fetches included.
  `LoginProven`, `CallbackAnswered`: a login ends well only for its own browser and an
  email the provider verified, but for the public email of a GitHub profile, and always
  ends. `MalformedClaimsRefused`: the wrong shape of a claim
  grants nothing.
- `HandlerSeesValid`, `EnginesAgree`, `RoutesAgree`: the contract of a route is the same
  in both engines, with the five exceptions listed in `EnginesDiffer`: a malformed body,
  middleware that answers by itself, two bad slots, a declared schema for an error's
  status, and middleware that reads what an earlier one contributed.
  `GracefulExitDisposes`, `LifoTeardown`, `SignalEndsProcess`: shutdown.
- `WiredIsWritten`, `NeverTwice`, `SuccessIsComplete`, `ReadyIsComplete`,
  `ScratchFilesDoNotMislead`: what a command reported is so, whatever was cut before
  it or ran after it. `SuccessIsComplete` counts calls, not mentions, while no commands
  overlap and no write is cut, with two exceptions, in which the report is not
  true: a provider for a main.ts without `app.start(` is only named in a comment, and a
  name that ends the identifier of another is not wired at all. Of overlapping edits
  one may be lost; for these `WiredIsWritten` and `NeverTwice` are what holds.

## 5. Fairness

- **BaseTransport**: weak fairness of each loop's steps, of each resumed task and
  of each `close()`. Promises of the AMQP library settle, timers fire and queued
  continuations run: that is what the runtime gives. Handlers, applications and
  brokers are under no obligation, so `CallsReturn` holds with a handler that
  never returns and a broker that never answers.
- **RmqDelivery**: the broker takes frames and delivers, handlers return (a
  handler has no timeout in the code, so this is a premise of `EventuallySettled`),
  the reconnect loop goes on, `close()` ends, and a supervisor restarts a worker
  that ended. Faults are not fair; they stop when their bound is spent, which is
  what "eventually" needs.
- **RedisRpc**: timers fire, and a subscription is answered one way or the other.
  No message need ever arrive: the liveness in `RpcCall` rests on the timer.
- **KafkaTransport**: `eachMessage` goes on and ends, a worker that stops is gone in
  the end, and a partition without an owner is given to a worker that consumes.
  Crashes and moves are not fair.
- **CloudKeys**: time passes and timers fire; strong fairness of the vault's answer,
  because a fetch that fails is repeated: a vault asked again and again answers in
  the end. Without it nothing could follow the vault.
- **OAuthFlow**: each attempt ends by an answer or by its timer; a response whose
  headers arrived is assumed to end its body, as the timer is cleared before it.
- **AppLifecycle**: the sweep runs, and each teardown settles one way or the other.
  The code has no timeout on a teardown, so this is a premise.
- **SessionStore**, and the CLI modules: only safety is claimed.

## 6. The proofs

A theorem is of the form "Spec implies always Inv" (or an action property), for every
value of the constants that satisfies the named assumptions of the module. Hardly any
of the properties is inductive as it stands; each section says what has to be known
besides. The runs check the properties themselves on the bounded instances.

The assumptions say what the code guarantees and a set of model values would not: names
are not the text "undefined" (`NamesAssumption`), a correlation id is fresh
(`FreshIdsAssumption`), the markers of a promise that has not settled are no runs
(`OutcomesAssumption`), a request has three slots and three lists of middleware
(`CasesAssumption`), secrets are not empty and ages are counted far enough
(`KeysAssumption`), lifetimes and retries are numbers (`JwksAssumption`, `RetriesAssumption`), accounts, policies, prompts'
answers and tools have their shape (`AccountsAssumption`, `PoliciesAssumption`,
`AnswersAssumption`, `ToolsAssumption`), a template list is not empty
(`ModuleFilesAssumption`), a main.ts starts unwired (`MainsAssumption`), a typed name has
a file name (`ArgsAssumption`). The runs evaluate all of them.

### 6.1 BaseTransportProofs

`IInv` joins the checked invariants, which need each other, with four more facts:
`TransitionalHasLoop` (a transport that connects or reconnects has a running loop),
`LoopOwner` (a task is looping exactly while its loop runs, and a running reconnect
loop is the one `this.reconnecting` names), `AttemptOwnsHandle` (until `close()`, an
attempt past its dial owns `this.connection`, past its channel also `this.channel`)
and `BudgetLeft` (a running loop has retries left). The proof goes action by action.
Proved: `TypeCorrect`, `SingleFlightHolds`, `TransitionalHasLoopHolds`,
`NoLostWakeup`, `ConnectedUsableHolds`, for any number of calls, closers, connections
and any finite retry budget.

### 6.2 RmqDeliveryProofs

`NotLost` counts a delivery as pending until its ack is taken, and then its last
trace may vanish. `IInv` therefore asks for more: an unacked delivery that counts
must still owe its outcome, by its handler or by a frame that is not the ack
(`AllAccounted`). That is preserved because an ack is the last frame of its run
(`AckLast`): when the broker takes it, everything the run wrote before was taken,
and a retry, dead letter or reply that was taken is a queued copy, a dead letter
or an answer. `FrameSlots` says that only runs that are over have frames,
`RetryFits` that a copy on the wire has a retry left. A lost connection requeues
every unacked delivery. `NoMessageLost` holds under two provisos: the broker does
not restart (`BrokerStays`, messages are not persistent) and the queue's name has
a handler (`RetryHandled`); section 8 says why the second is needed.
`TypeCorrect` and the order of the frames hold without them. Slots are assumed
finite.

`DuplicatesBounded` states `DuplicatesNeedCuts` without either proviso. A lost connection
requeues what was unacked, and a delivery whose outcome the broker already took then comes
back beside its retry, its dead letter or the outcome of its handler. So `Lineages(i)`
is not what one loss at most doubles: `DInv` bounds the larger `Weight(i)`, in which a
delivery that acks a message nobody handles counts too, below 2^(k+1) (`Room`).
Deliveries whose handler has won and whose ack is on the way (`Spent`) are not in the
weight, and would be added by a loss; but all except the one whose ack is the next
frame are matched by a win, so there are no more of them than outcomes (`Fits`), and
a loss at most doubles. A kill is counted when it happens and its connection ends
later, which is why `Room` lags by one step. Queued copies are a set of numbered pairs,
so that cardinalities do what a sum over the queues would need induction for.
`OneOutcomeUncutHolds` is the case of no loss: at most one outcome per message, and
none while a copy of it is queued.

### 6.3 SessionStoreProofs

`ReplaysDetectable` and `TypeCorrect` hold for any mix of TTLs, by `IInv`: keys
are well formed and a consumed token outlives its successor (`ReplayKnown`).
`EndedForGood` and `CapCorrect` both rest on the user's set: it lists every family
that lives, with the right score, and does not expire before it (`Listed`). That
is preserved because no deadline is later than a TTL from now (`WithinTtl`), so a
script that resets the set's expiry never shortens it below a family's, which is
true when all sessions have one TTL (`OneTtl`) and false otherwise (section 8). The
cap then follows from counting the set, which `Issue` trims to `Cap` and no other
script grows. `CapCorrect` assumes finitely many families, for cardinalities.

### 6.4 RedisRpcProofs

`IInv` follows an answer: a run of a job (`Unstarted`: not before its lookup), its entry
in the store (`EntriesAreRuns`), what a job answers with (`JobsAnswer`), which is recorded
before it is published (`RecordedFirst`), the reply (`RepliesAnswer`) and the outcome
(`OutcomesAnswer`). At each station the key of the operation is in the store of the worker
that ran it or was evicted (`Kept`), because nothing but an eviction makes a store forget.
`RetryDoesNotRerun` needs all of it. `PendingIffWaiting` needs that a call whose
subscription is awaited has not settled (`ParkedWaits`). The map operations of `Set` are
covered by lemmas on sequences with an element removed.

`RefinesRpcCall` is the safety half of the refinement: initial states map to initial states
and each step to a step of the abstract call or to none. `OutcomesAnswer` is what makes
the outcome of a call one the abstract call allows.

### 6.5 TransportsProofs

What a reader makes of an event, a request or a reply is settled once, by lemmas about the
functions of `WireEnvelope` (`EventAsRead`, `RequestAsRead`). The rest of `HandledAsSent`
and `NothingVanishes` is that a handler runs once, on what it read: a microtask still to
run has not run (`TopicTick`), no two are for one listener and message (`CalledOnce`), an
inbox is called with the reply of a handler that answered (`ReplyTick`), and a job has one
run (`RunsOnce`); `TopicsOnce` and `ListenerConnected` show that topics are subscribed
once between `listen()` and `connect()`.

For Kafka, `OffsetsAccounted` and `PartitionInOrder` are two sides of one fact: a commit
makes a committed offset from a worker's position, a move of the partition makes a position
from the committed offset. `PositionsAccounted` (what lies before a worker's position has
an outcome) is inductive together with the first, and gives the second. That the records
passed over are those without a value (`SkippedIsEmpty`) needs that a message under way
has one.

### 6.6 AuthProofs

- `TokenOutlivesRotationHolds`: a server that had the token's key when it was signed has it
  live, or retired for no longer than the token is old (`KeyKept`), unless the token is
  older than the overlap window. Its hypothesis is that no engine signs for more than the
  overlap window and one unit; the defaults (300 s each, `binary-token-engine.ts:85`,
  `cloud-provider.ts:128`) satisfy it, a longer `expiresInSeconds` with the default window,
  as in the example at `auth.ts:133`, does not. TLC checks the property for the engines of the run.
- `InspectorExplainsHolds`: the order of checks in `verify()` and in the inspector, by
  lemmas on the first failure in a list of checks. `NoPollAfterDisposeHolds`: each way a
  fetch can end looks at `disposed` before it arms the timer.
- `JwksStalenessHolds`: whatever was read off the issuer is wrong only about keys that
  changed since it was read (`CacheHonest`, `AnswersHonest`), so ages add up.
- `LoginProvenHolds`: each step past the token request has the flow's own state behind it
  and its code spent, and an email is set only when it is proved, or is the public one of
  a GitHub profile (`Proven`, `EmailProven`).
- `HonestClientStaysInHolds`: while nothing excuses a replay, the browser's token is the
  family's current one or the answer that replaces it is under way, and one tab at most
  is busy (`InStep`).
- `PollingGoesOnHolds`, `CallsFindKeysHolds`: by `PollIInv`. An undisposed cloud provider polls
  or has its timer armed, no later than the longer of the poll interval and the longest
  backoff from now (`PollsOn`); a poll that joins a fetch somebody else began still arms it.
  What a fetch installs has a live primary, the newest key the vault listed (`WarmSigns`), and a
  call that waits, waits for a fetch under way (`CallWaits`). They assume that a vault holds
  finitely many versions (`VersionsBounded`), without which it has no newest one.
- `AttemptsBoundedHolds`, `OnlyAdvancesHolds`: the stage of a callback and the number of its attempt
  grow together in lexicographic order and the second stays within the retries. This is why
  `CallbackAnswered` needs no fairness but that each attempt ends.
- `MalformedClaimsRefusedHolds`: every group of accessors over unreadable claims is false,
  hence so is their combination.

### 6.7 HttpAppProofs

- `GracefulExitHolds`: what was promised at the first signal is disposed of, or failed to
  be, or is still ahead in every sweep under way (`AheadOrDisposed`); the list of providers
  holds each once (`ListedOnce`). `LifoHolds`, an action property, adds that a sweep has its
  providers in the opposite order of the list (`SweepsBackwards`).
- `RoutesAgreeHolds`: `registerModule` stops at the first route that is refused, so the listed
  ones are a prefix of a batch whose refused element is at most the last.
- `HandlerSeesValidHolds`, `EnginesAgreeHolds`: what each place in the pipeline has behind
  it (`RunValid`) and, for the requests both engines treat alike, the response and the
  error it can only end with (`RunAgrees`), computed from the case alone (`Outcome`). The
  five exceptions are hypotheses of `RunAgrees`: for a middleware that reads, that no
  earlier one contributed is what makes `NuralCtx` empty of a user in both engines.

### 6.8 CliProofs

- `ReadyIsCompleteHolds`: what is not on a creator's list any more is written, and is its
  own while nobody mixed in (`CreatorKept`); of creators that began alone only one is at
  work or announced (`Alone`).
- `ScratchFilesDoNotMisleadHold`: while no tool was killed, each scratch file that is there
  is still to be deleted by some tool at work (`Owed`); while two `routes` never met, the data file
  is the one the only `routes` at work wrote (`Fresh`). That `clean` and the tools delete one
  another's files is why the tool that owes a file need not be the one that wrote it.
- `WiredIsWrittenHolds`, `NeverTwiceHolds`: from `CodegenInv`. Not only the sources but each text
  that a command is about to write (`shell[s].next`) registers what is written, each name
  once unless texts were overlaid (`GoodSource`), because a stale text may be written over a
  newer one. A generated file counts as written when it holds its text or was truncated
  again by a second command (`Whole`).
- `SuccessIsCompleteHolds`: on top of it `Calm`: while no commands overlap and no write is
  cut, one command at most is at work, and the complete text of a file is with that command
  between its truncate and its fill, and in the file otherwise (`Completed`); and what a
  command has installed so far is in package.json. `Tidy` says that an empty generated file
  is one a command is about to fill. What stays of a report is `Stands`, which counts calls
  and has the two named exceptions.

### 6.9 Only model-checked

- Liveness (`CallsReturn`, `EventuallySettled`, `PoisonDoesNotStall`,
  `CacheFollowsVault`, `CallbackAnswered`, `SignalEndsProcess`, and the liveness half of
  `ImplementsRpcCall`): fairness is out of the prover's reach. Its safety half is proved where
  it is more than the guards: for `CacheFollowsVault` (`PollingGoesOnHolds`), for
  `CallbackAnswered` (`AttemptsBoundedHolds`, `OnlyAdvancesHolds`), for `CallsReturn`
  (`TransitionalHasLoopHolds`, `NoLostWakeup`).

Every invariant the passing runs check is stated by a theorem, and so is every property
of theirs that is an action property.

## 7. Where the code and its documentation disagree

Each is a run that TLC refutes; PROJECT.json quotes the lines.

- **rmq_worker_dies**: a handler that outlives its connection acks on a closed
  channel, fails again while routing the failure, and leaves an unhandled
  rejection, which ends the process.
- **rpc_poisoned_inbox**: an inbox subscription that failed once makes every later
  `send()` of the client fail.
- **guard_in_express**: a downstream middleware is to read from `req.nuralCtx` what an
  upstream guard contributed (`core/middleware.ts:14`), and `requirePolicy` does
  (`policy/guard.ts:80`). Fastify sets the field (`fastify.ts:266`), Express never does
  (`express.ts:250`): the same route and user pass in Fastify and get 403 in Express.

## 8. What else the models show

Behaviour that is in the models, and that a reader of the code may not expect. No
run reports it as a violation; most of it is why a property has the proviso it has.

Microservices:

- A connect loop inside `openConnection()` while `close()` runs leaves the state over
  closed, with a connection nobody closes (`base.transport.ts:314`, `:290`), and
  `close()` waits for handlers whose replies `connect()` then refuses (`:300`).
- A close listener of an earlier connection reconnects a healthy transport.
- A RabbitMQ retry carries the queue's name as routing key, so a message bound under
  another key is acked unhandled at its first retry (`rmq.transport.ts:259`). A broker
  restart loses the messages, which are not persistent.
- Overlapping duplicates of one idempotency key both run the handler: the store is
  read before and written after.
- Memory: `listen()` on a transport that has an inbox subscribes nothing
  (`memory.transport.ts:201`); a listener that unsubscribed after the publish is still
  called; a `send()` that goes on after the teardown subscribes an inbox again; signing
  may take a message over the size cap of its reader, and the sender has no check.
- A worker without a secret handles a signed envelope as event data unless
  `acceptLegacyWire` is off.
- Kafka: a record without a value is passed over, without a handler or a dead letter
  (`kafka.transport.ts:122`); a worker takes records during the drain; a dead letter whose produce fails is
  only logged and its offset committed; a partition that moves during a long handler
  has its record run twice.

Auth:

- A server learns of a key at its next poll; there is no refetch for an unknown key id.
  The default overlap equals the default life of a token, so a server that signs with a
  key after others retired it has tokens refused there before they expire.
- `refreshNow()` joins a fetch that began before the rotation; `fetchSecrets` has no
  timeout; a vault or revocation outage is a 401 at the guard; a token may expire while
  the revocation hook is awaited.
- `rotate()` commits before it signs: a signing failure, or a lost answer, makes the
  client's retry a reuse, which revokes the family. Access tokens outlive `revokeAll`.
- `httpJson` clears its timer before the body. A token request repeated after a lost
  answer finds its code spent.
- The public email of a GitHub profile is taken without a look at whether it is verified
  (`github.ts:141`); the check is only on the list of emails, which is asked for when the
  profile has none.
- JWKS fetches are stored in the order they end, and two forced refetches may be under
  way at once.
- A session with a shorter TTL shortens the expiry of the user's set, so a logout
  everywhere may miss a longer session. A family revoked by replay detection still
  counts toward the cap. `issue()` may evict its own session when scores are equal.
- `requireNone(hasRole("banned"))` lets a user with unreadable claims pass, and a policy
  that throws is not reported to `onDeny`.

Core:

- A provider registered during a sweep, or whose setup is under way, is not disposed of; a
  second delivery of one signal ends the process in the middle of the sweep; a listen
  failure ends it without a teardown; the port found free may be taken before it is bound.
- The engines differ for a malformed body (Express's own 400 page, the Fastify error
  handler's 500), for middleware that answers by itself (Express still runs the handler),
  for two bad slots at once, for an error whose status has a declared schema
  (Fastify serializes by it), and for middleware that reads what an earlier one
  contributed (section 7). A response that fails Zod is reported as 400.
- `helmet: false` for a policy field is ignored; no `Vary` is sent when the origin is not
  allowed; a route's own `inject` is not checked for reserved names.

CLI:

- A failure after `mkdir` makes a rerun say the module exists, and it is never registered;
  a missing template is logged and the module still registered.
- Two commands at once lose a registration; a kill between truncate and fill leaves the
  file empty; of two commands that both truncated a file before either filled it, the
  longer text leaves its tail, perhaps with a registration twice.
- The check for a registration that is there is a search for the identifier as text
  (`generate.ts:154`, `:215`): after `nural g orderItem`, `nural g item` is reported and
  not wired, though the CLI's README (`:78`) says a resource is registered by itself.
- A provider for a main.ts without `app.start(` is left in a TODO comment and reported
  (`generate.ts:187`); the comment keeps a later run from wiring it.
- `add` overwrites an existing provider; a failed installation still ends in "Ready to go";
  a failed `new` leaves a directory that blocks the rerun; two `new` mix their files.

## 9. What is not covered

- The conversions of Zod schemas to JSON Schema: which nodes one of them refuses or drops is
  taken as given, and those of the documentation, which use other options than those of the
  validators (`docs/generator.ts:138`, `schema-compiler.ts:179`), are not modelled.
- Where in its line or among its imports an edit of the CLI lands (a last import over
  several lines, `const server = app.start(`): the user's text is one piece.
- Cryptography: signatures, token encryption, hashing are taken at their word.
- Redis, RabbitMQ, Kafka with kafkajs, Express, Fastify, ajv, Zod: only what the code
  relies on, as external definitions.
- Several RabbitMQ workers on one queue (the model has one, which takes a requeued copy
  back), the client side of RabbitMQ's `send()`, `emit()` over Redis and over RabbitMQ.
- Error classes, contract builders, telemetry, logger, testing helpers, benchmarks,
  documentation pages: straight-line code without shared state.
- `src/examples`, templates' contents, build files.

## 10. Plan

1. Theorems about the port search in `AppLifecycle` (the port found lies in the window that was
   searched) and about the fields of `OAuthFlow` that no property reads.
2. More code: the client side of RabbitMQ's `send()`, `emit()` over Redis, several
   RabbitMQ workers on one queue.
