# Verification of talos-nodejs-proxy

This directory holds TLA+ models of the proxy in `src/` (a reverse proxy for
Node.js with virtual hosts, API gateways, an admin API and worker processes),
the TLC configurations that check them on small instances, and TLAPS proofs of
what matters most about them. Paths below are relative to the repository's
TypeScript sources, `src/src/`. `PROJECT.json` lists the components, the runs,
the mutants that show each property can fail, the source lines of every
definition, the findings, the hazards and the theorems.

## The system

| component | state it keeps | operations | interacts with |
|---|---|---|---|
| Load balancers (`load_balancer/`) | `_currentIdx` of round robin | `nextHost(upstreams)` | called by the gateways with their lists |
| Virtual host, API gateway (`model/`) | upstream lists, one load balancer, middlewares | `resolveUpstream`, `clone`, `clean`, JSON codec, `addGatewayViaAdminAPI` | gateway host service, repository, admin API |
| Upstream host (`model/upstream-host.ts`) | `isOnline`, the HTTP/2 session | `request`, `getOrCreateConnection`, `clean` | written by the health check, read by load balancers |
| Request pipeline (`service/proxy-service.ts`, `model/gateway.ts`, `middleware/middleware-processor.ts`, `model/request.ts`, `model/response.ts`) | per request: the reply, the upstream leg, the middleware chain | `baseHandler`, `pre`, `preProxy`, `postProxy`, `post`, `endWithStatus`, `finally` | client and upstream connections, timers |
| Middlewares (`middleware/`) | the proxy's list, a list per gateway; an encoder per request | the four hooks, `build`, `serialize` | called by the processor of each request |
| Gateway host service | gateways by domain, wildcard gateways in order | `addGatewayHost`, `resolveGateway`, `removeVirtualHostByKey`, `requestServed` | emits `resolved`, `stats`; follows admin messages |
| File repository (`repository/in-memory-repository.ts`) | two maps, the statistics, a file | `connect`, `saveGateway`, `removeGateway`, `loadGateways`, `saveResponseStatus` | admin API, starter |
| Redis repository | two hashes, a statistics hash, a local buffer | the same, two round trips per admin request | Redis, shared by all processes |
| Admin API (`service/admin-api-service.ts`) | none of its own | add, update, delete, list | repository; emits `gateway`, `removed` |
| Proxy starter (`service/proxy-starter-service.ts`) | the worker processes | `start`, `startWithWorkers` | IPC messages to workers, posts from workers |
| Health check | none | probes every upstream | sets `isOnline` to false; no code starts it |

Node runs a handler to its end before the next one, and drains promise
continuations in between, so the unit of interleaving is a macrotask: an HTTP
event, a timer, the end of a file operation, an IPC message. What is hard here:

* one pointer shared by lists of different lengths, hosts changing under it;
* four parties in a request (client, upstream, idle timer, the proxy's own
  promises) whose events come in any order, and exceptions caught in the wrong
  place;
* a file written by overlapping, non-atomic writes, and read by workers that
  start in the middle of one;
* a table copied into every worker by one load and a stream of messages, and
  changed locally by clones that are posted back;
* round trips to Redis between looking and changing, shared by several requests
  and processes, over a connection that breaks;
* a chain of middlewares made for each request of two lists, which stops where one
  answers, and encoders that keep state between its stages;
* gateways that can be saved and not be written, or be written and not be read;
* one HTTP/2 session shared by all requests to a host, whose events may come
  after another session has taken its place, and a shutdown that waits for it.

What makes each component correct: a load balancer finds a host when there is
one, and is fair; a gateway gives precedence to earlier routes; a request gets
one answer, never a late second one, and releases its upstream; what a middleware
answers is not forwarded, and a body is what its header says; the file holds
what was reported saved; the workers agree with each other and with the
repository; statistics add up; whoever waits for a session is told. `PROJECT.json` lists the hazards line by line.

## Modules

| module | models | runs |
|---|---|---|
| `RoundRobin` | what a load balancer keeps, and the scan of `RoundRobinLoadBalancer.nextHost` as pure operators | (part of the next two) |
| `LoadBalancer` | both policies over the list of one virtual host | `load_balancer` |
| `ApiGateway` (`MCApiGateway`) | `ApiGateway.resolveUpstream` over its single load balancer | `api_gateway`, `api_gateway_overrun` |
| `Exchange` | abstract: what the proxy promises one request | (refined by the next) |
| `ProxyRequest` (`MCProxyRequest`) | one request, from `baseHandler` to the last event of its upstream leg | `request`, `request_swallowed` |
| `Middlewares` (`MCMiddlewares`) | `MiddlewareProcessor` and the middlewares, over the requests of one gateway | `middlewares` |
| `FileRepository` | `InMemoryRepository` with a file behind it | (part of the next) |
| `Cluster` | workers mode: admin API, repository, messages, workers, clones | `cluster` |
| `SingleProcess` | the starter without workers: the same repository, clones saved by `resolved`, crashes | `single_process` |
| `RedisGateways` | the admin requests, clones and restarts of one process over the Redis repository | `redis_gateways` |
| `Statistics` | `saveResponseStatus` of both repositories | `statistics` |
| `Http2Session` | the session of an `UpstreamHost`, its requests, and `ProxyService.stop` | `http2_session` |
| `GatewayTable` | abstract: one gateway per domain, wildcards in the order they were last added | (refined by the next) |
| `GatewayHosts` (`MCGatewayHosts`) | the Map and the array of `GatewayHostService` | `gateway_hosts` |
| `BalancingProofs`, `GatewaysProofs`, `ProxyRequestProofs`, `MiddlewaresProofs`, `ClusterProofs`, `SingleProcessProofs`, `StatisticsProofs`, `Http2SessionProofs` | the theorems | |

`ApiGateway` and `LoadBalancer` extend `RoundRobin`; `Cluster` and
`SingleProcess` extend `FileRepository`; `ProxyRequest` and `GatewayHosts`
instantiate `Exchange` and `GatewayTable` with refinement mappings. A proof module
extends the module it is about. `BalancingProofs` is about `LoadBalancer` and
`ApiGateway`, which share the lemmas on the scan, and `GatewaysProofs` about
`RedisGateways` and `GatewayHosts`; so that both can be extended at once, the
specifications of `ApiGateway` and `GatewayHosts` are named `GatewaySpec` and
`HostsSpec`, their type invariants `GatewayTypeOK` and `HostsTypeOK`.

An operator whose comment starts with "Mutant of" is not part of a
specification: it is the definition with a plausible bug in it, and
`PROJECT.json` names the property that the bug breaks.

### RoundRobin, LoadBalancer

Position `p` stands for `upstreams[p - 1]`, so that `currentIdx` is at once the
field `_currentIdx` and the position of the host yielded last; it only wraps
when the next call finds it at the length. `ScanFinds` and `ScanFails` are the
two ways out of the `do ... while (upstream != previous)` loop. A call is one
step. `SetOnline`, and `SetHostOnline` in the next module, stands for the health check and whoever holds the host;
`Rebuild` for the replacement of the gateway. `passed[h]` is history: the hosts
picked since `h` last had a turn or was offline.

* `FindsAvailableHost`: undefined exactly when no host is online.
* `NoOvertaking`: no host is picked twice while an online one waits.
* `TurnsInOrder`: why: whoever has passed `h` lies between `h` and the pointer.

Bound: four upstreams, which gives every pattern of an offline host before, at,
behind the pointer and at the wrap. The theorems hold for any number.

### ApiGateway

Each turn of the loop of `resolveUpstream` is an action, though nothing else
runs in between, because it tries several lists in one call and each try moves
the pointer. `TryOverrun` is the case the code does not foresee: the pointer is
beyond the list, `iterator.next().value` is undefined.

* `EarlierRouteWins`, for any lengths.
* `ResolvesIffAvailable` and `EqualListsNeverThrow`: gateways whose scanned lists
  have one length (`SameLengths`; lists of at most one host are not scanned)
  answer whenever a host is online. `api_gateway_overrun` checks the bare
  `NextHostReturns` over the same gateways, and finds that others throw.

Bounds: one exact route and two patterns, lists of up to three hosts; a path
that meets two lists in a row and one that meets all of them.

### Exchange, ProxyRequest

`conf` is what decides the course of a request before anything is awaited. The
middlewares are abstracted to what they do to control: end the response, or
call `next`; a chain of calls to `next` is synchronous and part of the handler
that starts it. `leg` is the upstream request. `reply` and `body` are what the
client is sent. Headers, encodings, and how a body is transformed are left out.

That a response has one status is Node's doing: `writeHead` and `respond` throw
when the headers are sent (`Throws`, external), and the handlers of
`Gateway.request` call `endWithStatus` whatever was sent. So nothing is claimed of
that. What the code decides is when a handler runs, what it destroys before, and
that `endWithStatus` throws *before* it reaches `end()`; this is what `Exchange`
promises about: the proxy refuses only what it has not forwarded (`Refuse`); it
reports a failure in the step that loses an upstream which has not answered
(`Fail`), and such a loss is told, but for an HTTP/2 stream that is cancelled
(`LoseQuietly`); and a relayed body is complete only when it was read to its end
(`Finish`), else it is cut or waits (`Break`).

* `StatMatchesReply`, `FailureIsFinal`: a 408, 500 or 503 is given to a present
  client only when no upstream answer can follow, and no status is counted that
  the client did not get.
* `KeepsPromise`: the safety part of `Exchange`, checked for all requests.
* `BoundedRequestsAnswered`, `UpstreamReleased`: with fairness, for requests
  whose upload is over and whose upstream leg has a timeout; the first also asks
  that no middleware swallows an exception (`Bounded`), and the second does not
  ask a body that is read to end. `request_swallowed` shows what
  happens to a request whose exception is swallowed.

All 2570 states of all kinds of request are explored; nothing is bounded. One
request comes to an end, so these runs do not check for deadlock.

Fairness: `Handle`, the outcome of a connection attempt, the event of a destroyed
request, and the idle timer while no byte of an upload or of a body that is read
can reset it. Each is due work of Node's event loop. Nothing is asked of the
client or the upstream: an upload may trickle, and a body flow, for ever.

### Middlewares

`chain[r]` is the list of the processor of request `r`, `at[r]` its
`middlewareIdx`, and `stage[r]` the chain under way. All calls of `next` are
synchronous: `running` is the request whose handler runs, and others come in, or
the gateway is replaced (`Updates`), only while it waits for its upstream. `Status`
is what a middleware ends the response with, or "none". An encoder's fields are
kept by `Instance`, the request and the position, for which `append` builds one.
Values of headers, and what a body is, are left out. `ran` is history. `MaxLength`
bounds the lists of a configuration and of a gateway, which the code does not; it
gives the fields of the encoders a domain, and any number will do.

* `HooksInTurn`: each middleware is called once at each of its hooks, in the order
  of both lists, though the gateway's part of the chain begins in the middle.
* `InterceptedNeverForwarded`: the first middleware that answers decides, nothing
  of its request goes upstream, and every other request goes there with the headers
  its chain adds.
* `EncodedAsAnnounced`: the body is encoded as its header says, in an encoding of
  this client, however requests interleave; for at most one encoder in a chain.

Bounds: two requests (one in the middle of the other is what interleaving is
about), one replacement of the gateway, two lists of the proxy and five of a
gateway, which between them hold every type, an unknown one, and two encoders in
one chain (`MaxLength` is 3, the longest of them); three clients, who differ in what the filters and encoders look at.
An unknown type stays in a gateway that is never written down (repository type
"memory"). Requests that find no gateway or upstream are those of
`ProxyRequest`. Deadlock is not checked: the requests come to an end.

### FileRepository, Cluster

A version stands for the content of one saved gateway. `Store` changes the maps
and starts a `writeFile` in one step, as the code does; the write then opens
(truncating), writes and closes in three steps of the thread pool, so writes
interleave. A text over a longer one leaves its tail (`Torn`); `Within` says
when one text cannot be longer than another. An admin handler reads the maps
and starts its write in one macrotask (the repository's promises are already
settled), its message and its 200 follow the write. A worker reads the file,
installs what it read some time later, and handles messages from its start.

Two kinds of content fail on their way. `Unreadable` has JSON no gateway is built
from: `fromJSONObject` catches the error, so the file's other gateways load, and
workers ignore the message. `Unwritable` has none, and `store()` throws as long as
the maps hold it. The histories say which changes went undisturbed: a domain is
`contested` when its last store met another one of it, failed, or is hidden by a
gateway of the other kind; `overlapped` is the same of the file as a whole.

* `DurableWhenIdle`: with nothing under way, and if the last write had the file to
  itself, the file holds what the repository holds, whatever overlapping, torn or
  failed writes left there before.
* `WorkersAgree`: however writes overlap or fail, workers that had loaded when
  the last message about a domain was sent come to hold the same gateway of it
  (the history variable `fresh` tells those domains apart; a clone made by one
  worker, or a worker still loading, takes a domain out of it).
* `WorkersFollowRepository`: for a domain that is not contested, it is what the
  repository holds, also while writes of other domains overlap.
* `WorkersSettle`: and, when the administrator rests, the workers come to it.

Bounds: two workers (the second is what agreement is about), two domains, three
calls of `store()`, two writes under way, one failed write; the second content
cannot be read back. Three stores give an addition, a change and a removal, or a
wildcard, its clone and a change, or a write that repairs what two left. The
administrator saves gateways of one kind in this run. Deadlock is
not checked: when the stores are used up, and everything has been delivered,
the model stops. The run has a temporal property, so it uses no symmetry.

Fairness (`Spec`): some step of a write, a load or a message is taken when one is
due. That is weaker than what the event loops and the thread pool grant to
each, and enough; the administrator and the clients owe nothing.

### SingleProcess

The repository of `FileRepository` with the events of the starter's single mode.
`Restarts` is a stop or a crash at any moment: the writes under way are cut where
they are, and the new process loads the file, or ends when it does not parse.

* `TableFollowsRepository`: whatever interleaves, a domain without a write under
  way that is not contested is routed as the repository says.
* `RestartKeepsTable`: after a write that had the file to itself, a restart while
  nothing is under way changes no route, but for gateways that cannot be read back.

Bounds: a wildcard and another domain, both kinds of gateway, five stores, two
writes under way, one failed write; the second content cannot be read back and
the third not be written. A clone, its origin's change, an addition of
the same domain, and a change of the other kind fit in them.

### RedisGateways

A request is a record with the command it awaits. `pipe` is the client's queue:
Redis executes and replies in that order, and a handler runs from one reply to
its next command. `Breaks` rejects everything that was sent, executed or not.
`Reconnects` flushes the buffer, which drops it: `flushBuffer` calls `key()`,
which no gateway has. `Restarts` is a stop or a crash at any moment: what Redis has
not executed is gone, and the new process loads both hashes. Commands that Redis
executes after the crash are those it executes (`ExecutesChange`) before `Restarts`:
this assumes that Redis has read what the old process sent before it answers the
loads of the new one. `Found` tells the
looks that parse the gateway from those that only ask whether it exists.
`ExecutesLook` and `ExecutesChange` are what Redis does with the next command, the
one `IsNext` says, and `ReplyToLook` and `ReplyToChange` what the process does with
its reply.

* `TableFollowsRedis`: when all changes of a domain were replied to, the table is
  what `getGatewayById` answers. The history `doubtful` leaves out a domain whose
  change was rejected, buffered or had no JSON, or whose clone met a change under
  way, until a restart; one whose change left a gateway of the other kind in Redis;
  and one that a process loads from both hashes, or that no gateway is built of.

The statuses the administrator gets are not modelled.

Bounds: three requests over two domains, both kinds, one broken connection, any
content unreadable or unwritable; two requests race for one domain and the third is
a removal, an update or a clone. One order needs four requests, and a run that
has them takes too long with all the rest: a gateway is saved, a DELETE finds it,
and before the DELETE removes anything another one removes it and a gateway of the
other kind is saved. Then the first DELETE looks for the gateway in the wrong hash,
and Redis keeps what the table loses. It came out of the proof, as the step at
which the invariant could not be kept; such a domain is `doubtful`, which is why
`ExecutesChange` asks what Redis holds after it of the other kind, and the theorem
is about all orders. (A run of four requests with readable contents only agrees.)

### Statistics

The records of one gateway; a date is the order of the requests. In memory a
record is saved at once. With Redis the two transactions of a record are two
steps, and the commands of one process stay in order. `saved` and `spent` are
history: the records that were saved, and the sum of their timings.

* `CountsAddUp`, `LatencyWithinTimings`: hold for workers in any interleaving,
  though the average is computed from stale values.
* `LatencyDrifts`: in memory, how far truncation takes the average below the
  mean, up to half a millisecond for each request before the last.
* `LastRequestOfProcess`: the date shown is that of the last request saved of some
  process; between workers the code promises no order.

Bounds: two workers and three requests, so that both workers' pairs of
transactions nest in every way; both repositories are initial states of one run.

### Http2Session

`session[s]` is the state of the session number `s`; what a session does by
itself (`GoAway`, `SessionBreaks`, `HostCloses`, ...) is Node's and the host's,
and external. `connection` is `_connection`. The `error` handler of an old
session may run when another one is in place, and clears it (`Forget`);
`forgotten` is history. `Holders` is the number of gateways that hold the host: a
wildcard and its clones share their hosts, and `stop` cleans each of them. From
its first `clean()` to the next `await`, `stop` is one handler, hence `Awaiting`.

* `CallbacksAreOwed`, `OneSession`: no late handler settles or forgets what
  belongs to another session, but for those `forgotten`.
* `WaitersSettle`, `CleanSettles`: whoever waits for a connection is told, and a
  `clean()` that finds a live session, or none, settles when the streams end. That `stop`
  comes to its end is not claimed (see the known limits).

Bounds: three requests and three sessions: two sessions race and the third is
the one they leave behind; two gateways hold the host, so that a second `clean()`
may meet a session the first has closed.

Fairness: an attempt to connect ends, a destroyed socket emits its events, a
closing session without streams ends, `stop` goes on when it can. That upstreams
end their streams is a hypothesis of `CleanSettles`, not of the
specification.

### GatewayTable, GatewayHosts

`GatewayTable` is what routing may rely on. `GatewayHosts` implements it with a
Map and an array from which an update takes the old gateway out
(`KeepsTable`, refinement). A Host header is a name with or without `www.` and a
port, which `LookedUp` takes off. `FirstMatch` is the candidate whose clone is
added and emitted.

Bounds: three wildcards over two names, so that two of three matching gateways
may change order, and four additions.

## What is proved

For every value of the constants, from the assumptions named in the modules:

* `BalancingProofs`, of `LoadBalancer`: the scan looks at every position (`ScanIsComplete`) and
  returns the nearest online one (`NearestIsReturned`); `Invariance`, `Fairness`,
  `Availability`. `NoOvertaking` is not inductive; `IInv` adds where on the ring the hosts lie that have
  passed `h`, and the proof follows the pointer: a pick moves it to the nearest
  online host, so it cannot go beyond `h` while `h` is online.
* `BalancingProofs`, of `ApiGateway`: `Precedence` from the loop invariant `Searched` (the
  routes behind the loop had no host online or did not match); `Resolution`
  from `FitInv`, by which the pointer fits every list of a gateway whose
  scanned lists have one length.
* `ProxyRequestProofs`: `Invariance` from `Coherence`, which relates reply,
  body, leg and client; `Refinement`: every step of a request maps to a step of
  `Exchange` or to a stutter. The case that needs the invariant is the 'error' of a
  lost upstream (`UpstreamErrs`): an open response fails, one that flows is not
  ended, and one that is over stays as it is.
* `Http2SessionProofs`: `Callbacks` and `Sharing` from `IInv`, which adds that
  what is in use was created, and that a `clean()` that waits is not counted yet.
* `MiddlewaresProofs`: `Invariance`, for any lists of any length, any clients and
  any number of requests under way. Its `IInv` says three things of each request,
  wherever it is. `InTurn`: what was called is a prefix of `Schedule`, and its
  length is told by the stage and the position; `HooksInTurn` itself says nothing
  of how far the chain has come, so that it would not survive a step. `Spared`:
  those before the position have let the request through, and nothing is sent
  upstream before the chain of `preProxy` has ended. `Announced`: what the fields
  of every encoder hold, called or not, at each stage.
* `ClusterProofs`: `Invariance`, for any domains, workers and bounds. The
  repository's part, `RepositoryInv`, adds to `DurableWhenIdle` that a write that
  had the file to itself is the only one (`Lone`), and that a pending change of a
  domain that is not contested is what the repository holds (`PendingIsStored`).
  The workers' part adds that a domain is fresh only while every worker serves
  (`FreshIsServed`), for a worker that loads would overwrite what messages brought.
  `SentDecides` and `HandledAlready` are the two facts about queues: a message that
  is sent decides what becomes of its domain, and handling one changes no outcome.
* `SingleProcessProofs`: `Invariance`, for any domains and bounds, and the action
  property `Restart`. While the process runs, `IInv` has the repository's parts of
  `ClusterProofs`, and `ClonesInTable`: the end of a clone's write does not touch the
  table, so the table must hold the clone before. When the process ends, the file
  may be cut anywhere and nothing is claimed of it but its type; a new process
  makes all of it anew. `Restart` follows from `DurableWhenIdle` (the file is what
  the maps hold), `TableFollowsRepository`, and `ReadsBack`.
* `StatisticsProofs`: `Invariance`, for any processes, statuses and timings. `IInv`
  adds that the dates tell the records apart and are saved in order by each
  process (`DatesInOrder`), and that an average that was read remains one of
  saved records, however old (`ReadIsOld`). `AverageIs` is what integer division
  does to an average; `LatencyDrifts` adds its remainders up.
* `GatewaysProofs`, of `RedisGateways`: `TableIsRedis`, for any number of requests,
  breaks, restarts and domains. `TableFollowsRedis` speaks of domains without a
  change under way, and so survives no step by itself. What `IInv` adds follows
  changes through the queue. `InOrder`: a request is in the queue once, and what
  Redis has executed is in front of what it has not. `OneKind`: Redis has one
  gateway of a domain at most, unless it is doubtful. `LastExecuted`: Redis holds
  of a domain what the change of it that was executed last will leave in the table
  when its reply comes. `ClonesFirst`: only a clone is in the table before it
  is in Redis, and then no other change of its domain is in front of it. `Agree`:
  when neither kind of change is under way, table and Redis have the same.
  A reply to the only executed change of a domain makes `Agree` of `LastExecuted`.
* `GatewaysProofs`, of `GatewayHosts`: `HostsKeepTable`, the refinement of
  `GatewayTable`, step by step. Its inductive invariant says that the array has one
  gateway of a domain at most (`OneEach`); the mapping chooses *the* gateway of a
  domain, and without it a splice would uncover an older one. `Splices`
  gives what remains after a splice as an embedding that keeps the order,
  `SplicedTable` and `AppendedTable` say what becomes of the table an array stands
  for, and `FirstMatches` that the loop of `resolveGateway` finds the first.

The lemmas on the repository are in both modules that use them: each module of proofs
stands on its own.

Types are part of each invariant; `BalancingProofs` and `Http2SessionProofs` state
them as `Types`, `GatewaysProofs` as `TypeCorrect` and `HostsTypeCorrect`. In `ClusterProofs` and `Http2SessionProofs` the fairness of `Spec` is
not used: what is proved there is about every step, fair or not.

The assumptions: the bounds, the lengths of lists and the timings are natural numbers;
the routes of a gateway are distinct (`RoutesAssumption`); `NoRequest` is no request; no
list of middlewares is longer than `MaxLength`, and the proxy's own lists are of known
types, as the schema of the configuration asks (`app/scema/app-config.schema.json:20`);
what clients ask for, and the status of a gateway in maintenance, are of their types;
the wildcard is one of the domains; the domain of a wildcard is no exact one; unreadable and unwritable contents are among the
contents.

Every safety property of the runs, invariant or of steps, is proved. Only
model-checked is liveness (`BoundedRequestsAnswered`, `UpstreamReleased`,
`WorkersSettle`, `WaitersSettle`, `CleanSettles`), which takes fairness and `ENABLED`
and is beyond the prover; and the two runs that find a violation.

## Findings

1. `api_gateway_overrun`: routes of different lengths under round robin make
   `nextHost` throw a TypeError (`round-robin-load-balancer.ts:61`): with all hosts
   offline, one request that matches two routes looks at the three hosts of the
   first, and throws at the list of two.
2. `request_swallowed`: an exception in the last stage of the chain is swallowed
   by the try around the gateway's last middleware (`middleware-processor.ts:43`)
   and the client is never answered.

## Known limits of the code

Met while modelling, and outside what the properties claim; no run is about
them:

* no timeout is set for native HTTP/2 clients of HTTP/1 upstreams, nor on an
  HTTP/2 upstream stream (`request.ts:342`): `Timed` is false for these requests;
* when the upstream request fails or times out while its body flows, the handler
  throws in `endWithStatus` (`gateway.ts:108`, `gateway.ts:110`), and Node may then not emit the
  'close' that would end the pipeline: the client may be left with half a body on
  an open connection (`body` flows on while `leg` is closed). In the same way the
  upstream of a native HTTP/2 client that leaves with an error may stay open;
* when an HTTP/2 upstream cancels a stream it has not answered, no handler runs and
  the client gets no answer (`LoseQuietly`): `gateway.ts` listens to 'error' alone;
* overlapping `writeFile` calls may lose a gateway that was reported saved, or
  leave a file that does not parse (`in-memory-repository.ts:258`): hence the last
  write that met no other in `DurableWhenIdle` and `RestartKeepsTable`;
* a gateway with a spam filter is lost by a restart and unknown to the workers:
  `serialize` writes no `args` (`spam-filter.ts:65`), and `build` fails without them;
* a middleware of unknown type makes every `store()` throw, with the map changed,
  until its gateway goes (`in-memory-repository.ts:251`, `middleware-registry.ts:49`);
* `ContainsStringInPathSpamFilter` with a single value looks at the end of the path
  only (`spam-filter.ts:138`), as `Valid` says;
* an encoder in the proxy's list and one in the gateway's encode a body twice, and
  announce one (`encoding-middleware.ts:28`);
* `endWithStatus` of a native HTTP/2 response sends the status alone, so that a
  redirection has no `location` there (`response.ts:246`);
* a worker that loads while a message arrives may keep the older gateway of the file
  (`proxy-starter-service.ts:82`), and a worker's clone whose post is refused stays
  until the domain changes: both domains are not `fresh`;
* a clone that is posted or saved may overwrite, or be hidden by, a change still
  being written (`proxy-starter-service.ts:40`): such a domain is `contested`;
* a clone shares the middlewares of its wildcard, so its statistics are counted for
  the wildcard's domain until it is loaded anew (`gateway-stats-collector-middleware-factory.ts:17`);
* over Redis, a gateway that cannot be read back is there for POST (409) and not
  for DELETE (404), so that it cannot be removed (`admin-api-service.ts:317`); one
  that cannot be written is announced as saved (`redis-repository.ts:193`);
* a slow save of one worker may set the date of the last request back
  (`redis-repository.ts:145`): hence `LastRequestOfProcess`;
* `clean()` of a session that is over already is never called back, and two
  gateways that share a host clean it twice, so `stop()` may never close the
  proxies (`upstream-host.ts:147`), on which each test of
  `tests/proxy.test.ts` ends;
* a session that `stop()` closes while it is still connecting may, depending on the
  version of Node, emit neither 'connect' nor 'error', and who waits for it is told
  nothing; `WaitersSettle` takes it that the end of such a session rejects them (`SessionEnds`);
* two POSTs of one domain over Redis may both pass the look, where the second
  should get the 409 of `admin-api-service.ts:208`;
* a DELETE over Redis whose gateway is meanwhile removed and replaced by one of the
  other kind removes nothing (`redis-repository.ts:192` does not ask), and yet takes
  the new gateway out of the table until a restart (`admin-api-service.ts:323`);
* a gateway whose `hSet` was rejected is announced as saved
  (`redis-repository.ts:102`), and what is buffered while Redis is away is dropped
  (`redis-repository.ts:120`): both are in `doubtful`;
* a gateway saved for a domain with `www.` is found by no Host header
  (`gateway-host-service.ts:84`).

## Not modelled

The route prefixes of the JSON codec, and workers over Redis, are planned. Not
planned: configuration, logging, the command line,
the page of the admin UI, JSON schemas, the conversion of headers between
protocols and the values of headers
(data, not control), authentication, and the loop of the health check, which
nothing starts.

## Plan

Done: the modules above. Next, in this order:

1. Redis in workers mode: several processes that load from Redis and follow
   messages, as `Cluster` does for the file.
2. `Codec`: what survives `toJSON` and `fromJSONObject`, with route prefixes.
