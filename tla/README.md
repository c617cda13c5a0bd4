# A verification of labman in TLA+

This directory models **labman**, the node agent in this repository: a daemon
(`labmand`) that keeps a registry of OpenAI-compatible endpoints, probes them,
discovers their models, proxies chat completions to them, and accepts Portman
agents and observers over WebSockets. TLC checks every module on small
instances. TLAPS proves every safety property and every refinement those runs
check for all values of the constants: any number of endpoints, models, clients,
agents, observers and callers, any configuration files, any glob and any base. The
exception is that the Portman server implements its bulletin board: it is proved
for one observer, because several may share an id and then the code does not
implement it. What only TLC checks is liveness.

## 1. The system

| Part | State | Operations |
|---|---|---|
| `labman-endpoints`, `EndpointRegistry` | per endpoint `healthy`, `discovered_models`; `model_index`, `hash_index` | `from_config`, `health_check_all`, `health_check_all_http`, `discover_models_all_http`, `lookup_hashed_model`, `select_endpoint_for_model`, `to_node_capabilities` |
| `spawn_periodic_health_check`, initial pass | the registry behind one `tokio::sync::Mutex`; where the task is | tick, lock, health pass, discovery pass, unlock, shutdown |
| `glob_match` | none | the test behind `models_include` and `models_exclude` |
| `labman-core::slug` | none | `encode_model_slug`, `base62_encode_u64` |
| `labman-proxy` | per request: slug, resolution, response, metric | `get_models`, `post_chat_completions` |
| `labman-ws-portman` | `PortmanSubscribers` (id counter, connections), `Observers` (subscriptions, senders), a channel per observer | connect, register, broadcast, ack, subscribe, close |
| `labman-daemon` | flags, configuration files, configuration, three server tasks, exit code | `main`, `resolve_bind_addr`, `run_server_blocking` |
| `labman-server` | the Prometheus registry | bind, serve, `/metrics` |
| `labman-config` | none; reads the files | `load_from_path`, `load_default`, `validate` |
| `labman-telemetry` | counters, a gauge, a histogram | `record_request_end`, `record_error`, exposition, log filter |
| `labman-wireguard` | none; the links of the kernel and the values callers hold | `create_interface`, `bring_up`, `bring_down`, `status`, Rosenpass stub |
| `labman-core` types | `EndpointHealth`, `NodeStatus` | setters |

How the parts interact. The daemon builds the registry, runs one health check
and one discovery with the lock held, spawns the periodic checker and the three
servers (metrics, proxy, Portman), and waits in `select!` for the first of them
to end. The checker and every proxy request share the registry through the
mutex. Agent and observer connections share two registries behind synchronous
`RwLock`s; a broadcast reaches an observer through an unbounded channel. Every
handler reports to a shared `MetricsRecorder`.

What is hard about it:

* a discovery pass clears both indices and refills them across one HTTP request
  per endpoint; what keeps a lookup from a half-built index is only that the
  lock is held for the whole pass (health check and discovery together);
* a request uses its resolution after the lock is gone, and a client may vanish
  at any await, also in the queue of the lock;
* endpoints may share a slug (`http://` and `https://` of one host, one tenant);
* an endpoint that fails keeps its old `discovered_models` but must lose its
  routes;
* a broadcast reads two maps under two locks, a subscription writes two fields
  under two locks, and observer ids are derived from the number of agents;
* three servers may fail or end in any order, at startup or later;
* a configuration is checked in two crates at two times, and an endpoint's
  `base_url` is turned into request URLs in two crates by two rules;
* a network interface is created by two commands, either of which may fail, in a
  process that may crash, beside others that want the same name; the kernel
  keeps what the process forgets;
* tasks update metrics while a scrape reads them one after the other.

The properties that make each part correct are those of section 4;
`PROJECT.json` lists the hazards with the line where each of them bites.

## 2. The modules

```
EndpointRegistry      AsyncMutex (external)      RoutingTable (abstract)
        \                /                            |
         HealthChecker                                |
               |                                      |
             Proxy ------- implements ----------------+

PortmanWs ---- implements ---- Bulletin (abstract)

Configuration ---- Daemon          WireGuard     Telemetry

GlobMatch, Base62 ---- MCAlgorithms
```

The proofs are in `HealthCheckerProofs` (the registry, the mutex and the checker),
`ProxyProofs`, `PortmanWsProofs`, `DaemonProofs`, `WireGuardProofs`,
`TelemetryProofs`, `GlobMatchProofs` and `Base62Proofs`.

**EndpointRegistry** (`crates/labman-endpoints/src/lib.rs`). One action per
visit of an endpoint, because each visit awaits an HTTP answer: `ProbeAnswered`,
`SkipUnhealthy`, `ListingFailed`, `ModelsListed`; `Begin...`/`End...` are the
entry and the return of the two methods. `pass` and `pos` are the method's
position in its loop. The code iterates over a `HashMap` whose key set never
changes, so the order is arbitrary but the same in every pass: endpoint *i* is
the *i*-th in that order. A listing says which models the upstream returns and
how often each (identifiers may repeat, and every occurrence is pushed). A filter
is the set of models it lets through; that sets are the right abstraction of a
list of globs is what module `GlobMatch` is for.

**AsyncMutex** is `tokio::sync::Mutex` from how the code uses it: a fair queue,
hand-over on drop, and a dropped `lock()` future leaves the queue or passes on a
lock it was handed.

**HealthChecker** composes the two: the initial pass of `run_server_blocking`
and then the periodic task, as one task whose first pass starts with the lock.
`ImmediateShutdown = TRUE` is the daemon's future (an empty `async` block),
`FALSE` the one the documentation describes (ready when the servers end).

**Proxy** adds the requests. A handler's states are its awaits. `Disconnect`
drops the handler's future at any of them. `target` is what the slug resolved
to, `recorded` the metric events of the request. `published` is a history
variable: the hash index at the end of the last pass.

**RoutingTable** is what the composition promises: a table of permitted routes
that is replaced as a whole, and questions that are answered once, from one such
table. No locks, passes or probes. `Proxy!ImplementsRoutingTable` is the
refinement, under `table <- published`, `asked <- the slug of the request`,
`answer <- target`.

**PortmanWs** (`crates/labman-ws-portman/src/lib.rs`). One action per lock
acquisition, send or frame. An observer's channel is its `inbox`; `forwards` says
whether the task that empties it is alive. Two history variables follow an
envelope from its arrival to the agent's "ok": `owed`, the observers it must
reach, and `welcome`, those it may reach.

**Bulletin** is what that server promises: agents announce notices, observers
have interests, and a notice reaches, once and in order, everybody who was and
stayed settled on an interest in it, and nobody who neither had nor asked for one
since it was announced. It has no connections, ids, maps or locks.
`PortmanWs!ImplementsBulletin` is the refinement, with an observer's interest
read off its entry in the map (empty without one), its wish and what it named off
the command it is applying, and `must <- owed`, `may <- welcome`. A subscription
that is half written shows as an interest that is a mixture: of the old, the new,
and the kinds in the filter of the command before. The last are needed because the
server accepts a filter without `by_kind` (`kinds` empty, say): it is stored, used by
nobody, and in force for the moment in which a later command has written `by_kind`
and not yet its own filter. An observer can then be sent a kind that it never
subscribed to, and the board says so; it promises that nothing else gets through.

**Configuration** (`crates/labman-config/src/lib.rs`) holds the tests of
`validate`, those of `EndpointRegistry::from_config` and `build_core_endpoint`,
and the two ways of making a request path from a `base_url`. A text that is only
tested for being blank is `"blank"` or `"set"`; a URL is its scheme and what the
slashes behind the scheme part, the host first. `validate` tests the whole text, so
`http://v1` is accepted, for its host.

**Daemon** (`bin/labman-daemon/src/main.rs`). A stage per step of `main` and
`run_server_blocking`, a small state machine per server. `files` says what the
three places for a configuration file hold: nothing, something that does not
parse, or a configuration. `Missing` means that `exists()` is false, which it also is
of a path whose metadata cannot be read. `Source` is the choice of the place,
`Validate` and `BuildRegistry` are the two sets of tests of `Configuration`.
`BuildRuntime` may fail, as the builder of the Tokio runtime may. `error` is a history
variable: over what the daemon gave up.

**WireGuard** (`crates/labman-wireguard/src/lib.rs`). One action per `ip` command,
each of which may fail. `link` is the kernel's state, with the history of who
made it; `handle` is the `WireGuardInterface` value a caller got. `Status` tells an
`ip` that cannot be run (`Err`) from one that runs and fails (`Unknown`). `Crash` takes the
value and leaves the link; `OperatorDeletes` is the only way a link nobody
works with goes away, because the crate has none. No binary of the repository
calls the backend yet: the callers are modelled from its trait.

**Telemetry** (`crates/labman-telemetry/src/lib.rs`, `/metrics` of
`crates/labman-server/src/lib.rs`). `RecordRequestEnd` and `Observe` are the two
updates of `record_request_end`; a scrape is begun, reads series by series, and
responds.

**GlobMatch**, **Base62**: the two algorithms, one step per iteration, against
recursive definitions: of the prefixes of the text that a prefix of the glob
matches (`Reach`), and of the number that digits denote (`Decode`). A star in a
text is an ordinary character. They share nothing; `MCAlgorithms` checks both in
one run.

The `MC*` modules give the constants their values. Operators whose comment
begins with "Mutant of" are deliberately wrong versions of the definition they
name. They are used by no specification: with the mutant in place of the
definition, the property `PROJECT.json` pairs it with must fail, which shows that
the property depends on the code.

## 3. Abstractions

* The hash in `encode_model_slug` is injective: the slug is the triple it is made
  from, so two endpoints collide exactly when tenant and scheme-less URL agree.
* The metrics of passes, headers, URLs, bodies, log lines and latencies are left
  out. A streamed response is a status now and a body later.
* A request whose body is not valid JSON is rejected before the handler runs and
  is left out (it leaves no metric either).
* The handler's second 400, `hashed_model_endpoint_missing`, is absent: by
  `RegistryTypeOK` (proved) every mapping names a configured endpoint.
* `Proxy` covers the daemon while the servers run: the end of the process drops
  every task at once. The end itself is in `Daemon`.
* In `PortmanWs` each connection is made once, so the `u64` id does not wrap, and
  frames that change no state are left out. `MaxEnvelopes` bounds what an agent
  sends. `MaxCopies` bounds how often a listing repeats a model.
* Sends to a departed observer's channel are left out: nobody reads them.
* In `Daemon` an address given with `--bind-addr` is taken to be free, no port is 0
  (the operating system would choose a free one), and which of several errors
  `validate` reports is left out.
* In `WireGuard` each `ip` command is atomic and takes effect or fails, and no
  command is under way when its process crashes. A caller keeps its value until
  `bring_down` succeeds, and an operator deletes only links that nobody works with.
* In `Telemetry` a series stands for all label values that are recorded alike.
  The order in which the Prometheus library gathers series is left open.

## 4. What TLC checks

| Run | Instance | What it shows |
|---|---|---|
| `registry` | 3 endpoints, the first two with one slug, 2 models, different filters, listings with repeats | types; every route belongs to its slug, is advertised and permitted, and while a pass runs was put there by that pass (`RoutesSound`); the two indices agree, the last advertiser wins (`LastAdvertiserWins`); the model index is ordered and never stale (`ModelIndexSound`) |
| `checker` | 3 endpoints, the first two with one slug, shutdown with the servers | outside the health phase every route leads to a healthy endpoint; both lookups agree between passes (`SelectionAgreesWithLookup`); the refresh goes on for ever; shutdown stops it |
| `proxy` | 2 clients, 2 endpoints with one slug, 2 models | a pass runs with the lock held by the checker, whatever clients do (`PassExclusive`); one metric per response, and the right one; queue and lock hold exactly the tasks that wait; every resolution is right at its moment; the composition implements the routing table; no task starves for the lock (`LockServed`) |
| `portman` | 2 agents that send 3 envelopes together, 1 observer with three commands: everything, one kind, and a filter of another kind without a stream | the subscriber registry is the set of live connections; entries of observers do not leak (`NoOrphanEntries`); order per agent; the server implements the bulletin board |
| `daemon` | all flags; good, broken and missing files in all places; every value of each section; ports that are distinct or collide | exit code 0 only for a check of a valid file; no server outlives main; the servers run the file the operator configured (`ServesTheConfiguredFile`); a valid configuration fails over its address, the runtime or a server's end, and is never refused as a list of endpoints (`ApprovedConfigStarts`); one for all; a collision is fatal |
| `algorithms` | patterns and texts up to length 4 over 2 letters and the star; base 62, values below 4100 | greedy search is exact; encoding round-trips, no leading zero, by the invariant of the loop |
| `wireguard` | 3 callers, 2 addresses | who holds an interface value owns the link (`HandleMeansOwnLink`); a failed create leaves a bare link (`ResidueIsBare`); `status` does not contradict `bring_up` |
| `telemetry` | 3 recording tasks, 4 calls, 1 scraper | a scrape shows all that came before it and nothing that did not happen (`ScrapeWithinBounds`); no latency is lost (`LatencyAccounted`) |

Why the bounds suffice. The registry treats an endpoint only in relation to those
before it in the pass and to one that shares its slug: three endpoints, two of
them colliding and one with a slug of its own, give every such relation; two
models let a filter drop one and keep the other. Two clients and the checker give
a queue of two behind a holder, so hand-over, abandonment at the head and at the
tail, and overtaking all occur. Two agents with three envelopes between them give
interleaved broadcasts, and one broadcast after another (`FewEnvelopes`, a constraint
of the run, also makes the second envelope of an agent a heartbeat). The three
commands let a half-written subscription meet the filter of another command, used,
unused or absent. Four characters are enough for
a segment between two stars with overlap. Three digits show carry, order and
inner zeros. The run `portman` has one observer, because two connected observers
may share an id (`portman_ids`) and then lose envelopes to each other. What holds
in spite of that, types, `NoOrphanEntries` and `AgentOrderKept`, is proved for any
number of observers. The files of `daemon` vary one section at a time,
because `validate` tests the sections one by one, and the endpoint list up to two
entries, which is what a repeated name takes. Three callers let two compete for a
link that a third has lost in a crash. Four calls let three tasks be between
their two steps while a fourth call is counted. One scraper is enough because
scrapes only read and do not influence each other.

Fairness. `PassStep` is weakly fair: endpoints answer sooner or later. The code
does not enforce that, no request of a pass has a timeout, so `RefreshedForever`
and `LockServed` are conditional on it. `Tick` is weakly fair because the
interval elapses. `StopChecker` is strongly fair because `select!` chooses its
branch at random. `HandlerStep` is weakly fair because a ready task is scheduled
by tokio. In `Daemon`, `main` and the binds are fair; the initial pass and the
failures are not. Runs that say `CHECK_DEADLOCK FALSE` are of systems that may
stop: the stopped checker, connections that are all gone, an exited process,
a finished algorithm.

### Where code and documentation part

Each of these is a run that ends in a violation; the quotes are in `PROJECT.json`.

| Run | The code | The text |
|---|---|---|
| `checker_daemon` | the checker may stop at any iteration | shutdown "tied to server lifetime" |
| `portman_ids` | observers share ids | "Per-observer" state |
| `daemon_print` | `--print-config` starts the daemon | "exit without starting the daemon" |
| `daemon_roots` | `validate` accepts `http://host/v1/more`, for which discovery and the proxy use different roots | "the caller has validated the `/v1` suffix" |

Other places where a reader of the documentation may be surprised, met while
modelling and visible in the modules, but not runs of their own: with
`disable_metrics = true` and no `--bind-addr` a configuration passes `--check-config`
and the daemon then cannot start (`NoBindAddr`), where the example configuration
offers the setting to operators who want no metrics; `/v1/models`
goes on listing the models of an endpoint that turned unhealthy or whose listing
failed, although no slug resolves to them (`ListingFailed` keeps `discovered`);
`max_concurrent` is stored and never consulted; a streamed request is recorded as
completed when its head arrives (`HeadArrives`); a broadcast between the two locks
of a Subscribe command sees the new stream kinds with the old filter, also with one
that was never in use (`SubscribeKinds`, `SubscribeFilter`); `--bind-addr` brings up the metrics server
even with `disable_metrics` (`AddressUsable`); an observer that asks for `all` and
`by_kind` gets only what the filter lets through (`Wants`), where the
documentation of `all` says it receives every envelope; a scrape can show more
latencies than requests, because it may read the histogram after and the counter
before a request (`ReadSeries`); `set_active_requests` is called by nobody, so the
gauge stays 0; a second `telemetry::init` fails, where its documentation calls it a
no-op; `telemetry.log_level` of the configuration and the `command_timeout` of the
WireGuard backend are read by nobody; after a `create_interface` that failed at its
second command every retry fails at its first, until somebody deletes the link
(`AddAddress`, `AddLink`).

## 5. What is proved

All proofs are checked by tlapm, from the named assumptions of the modules: the
number of endpoints is a natural number, filters are sets of models, the bounds
are natural numbers, agents and recording tasks are finitely many, the subscribe
commands are subscriptions, bases are at least 2, and the model values that stand
for "none" are none of the things they stand beside (in `PortmanWs`, `None` is no
envelope kind, agent id, observer or subscription). Nothing is assumed of tenants,
URLs, the number of clients, observers, callers or scrapers, the contents of
configuration files, or what endpoints answer.

*The registry* (`HealthCheckerProofs`, first section). `RegistryTypeCorrect` is
inductive by itself. `RoutesAlwaysSound` needs the types (an endpoint of a route is
a position before `pos`, so the entry a listing overwrites is not that of a route
already in the index): a listing changes the index only at slugs of the visited
endpoint (`ListingKeepsRoutes`), every other step keeps it or empties it
(`StepKeepsRoutes`). `RouteSound` carries its own strengthening: during discovery
a route's endpoint lies before `pos` and is healthy. Without it `discovered`
could change under a route. `ModelIndexAlwaysSound` is the same for the other
index; `IndicesAlwaysAgree` uses it, because "the last advertiser wins" holds only
if the visited endpoint comes after all that are in the index.

*The checker* (`HealthCheckerProofs`). Its steps are registry steps or leave the
registry alone (`CheckerRefinesRegistry`), so the theorems above transfer. Facts
about the mutex, each operation moves at most one task in or out of the queue, come
next. `SelectionAlwaysAgrees`, that both ways of finding an endpoint for a model
agree between passes, needs an invariant about the model index that the property
does not mention: except from the start of a health check to the start of the
discovery after it, every endpoint in the index is healthy (`AdvertisersHealthy`).
Then nothing is left for the health filter of `select_endpoint_for_model` to drop, and
it takes the first advertiser (`SelectedIsFirst`), whose slug's route leads to the last
advertiser with that slug.

*The composition* (`ProxyProofs`). Its steps, too, are registry steps or leave the
registry alone, so that the registry's theorems hold in it. `PassAlwaysExclusive` rests on the facts about the mutex and on the one that
a client that unlocks, or whose queued future is dropped, is not the checker.
`RoutesAlwaysHealthy` follows from it: health changes only where no client has the
lock. An auxiliary invariant, `HandlersConsistent`, says what a handler knows where it
is; its last conjunct, `published = hashIndex` outside discovery, is the link to the
abstract table.
`ResolutionAlwaysSound` combines them with `IndicesAlwaysAgree`.
`ProxyRefinesTable` maps every step to a step of `RoutingTable` or a stutter: the
end of a pass is `Replace`, a lookup is `Give`, and a lookup can use `published`
because `PassExclusive` says that no pass is running when a client has the lock.

`QueueAlwaysMatches` says that the queue holds exactly the tasks that wait, once
each. `QueueInv` adds who may hold the lock: nobody, the task of a pass, or one that
has been handed it and has not run since; and that nobody waits for a free lock.
A handler that runs with the lock gives it back in the same step, because between
`lock().await` and the end of its block there is no other await. `MetricsAlwaysMatch`
adds that a handler reading a body already holds the upstream's status.

*The Portman server* (`PortmanWsProofs`). `WsInv` adds two facts to the types:
ids are given out in order, so that the next one is in nobody's way (`IdsFresh`),
and only an agent that has sent an envelope has recipients (`BroadcastsOwn`).
`ConnectionsAlwaysTracked` proves `Tracked`, the same fact unfolded, with the
identity of agents that have yet to connect. `NoEntryOrphaned` holds although
observers may share an id: an observer's step keeps its id and what it is
entitled to (`EntriesKept`), and when it leaves, both entries of the id go, whoever
wrote them. `AgentOrderAlwaysKept` strengthens
the order with `NothingAhead`: nothing in a channel is newer than what its agent
has sent, and what it still has to send is not yet there.

*The bulletin board* (`PortmanWsProofs`, second part). `BoardForOneObserver`: with one
observer the server implements the board, whatever the commands. With ids that
collide it does not, so the theorem follows from a lemma, `BoardWhileIdsApart`, for any
number of observers under the premise that ids stay apart (`IdsApart`): no two present
observers have the same id, and an observer that gets an id finds no snapshot of a
broadcast under way that holds an entry for it. Both halves are needed: an id that is
given out again between the two locks of a broadcast lets the newcomer receive what its
predecessor wanted. A single observer meets the premise, because nothing of it is
anywhere before it connects (`NothingBefore`). What a half-written subscription lets
through is bounded by `Mixture`.
The invariant has two parts. `EntriesInv`: the entries under an id are those of the
one observer that has it. `Accounts`: for every envelope under way, whoever wants it
is welcome to it, whoever is still to be sent it is welcome, and whoever is owed it
is in the snapshot with a subscription that wants it, or still to be sent it, or has
it. Every step then maps to one of the board or to a stutter: an arriving envelope is
`Announce`, a send to an observer that listens `Deliver`, the "ok" `Done`, the two
writes of a subscribe command `Ask` and `Settle`, and a closing observer `Withdraw`.

*The daemon* (`DaemonProofs`). `DaemonInv` says what `main` knows in each stage: the
configuration is the one of the place `Source` chooses and, past validation, valid
(`ConfigKnown`); servers run only under it (`ServersKnown`); how each exit code comes
about (`ExitKnown`); and what each cause of a failure goes with (`CauseKnown`).
`ApprovedConfigAlwaysStarts` rests on `ValidIsBuildable`: what `labman-config` accepts,
`labman-endpoints` can build, although the two check in different ways.

*The WireGuard backend* (`WireGuardProofs`). `HandleMeansOwnLink` is not inductive:
between its two commands a caller owns a link without a value for it. The
invariant adds that such a link is bare, not lost and its caller's own
(`AddingOwnsBareLink`), that a configured link that was not lost has a holder
(`ConfiguredIsHeld`), and that a command runs only with an address.

*The recorder* (`TelemetryProofs`). A scrape under way has, of the series it has
read, at least the floor and at most the total, and of those it has not read, no
more than the total (`ReadsBounded`); the order of the reads plays no part.
`LatencyAccounted` needs that a latency belongs to a request counted before it.

*The algorithms.* `GreedyAlwaysExact` (`GlobMatchProofs`): the greedy search decides
what a glob means, for every pattern and text. Up to a star the glob reaches a
set of offsets, and behind the star every offset from the least of them on; so the
first occurrence of the next segment loses nothing (`MiddleExact`). The invariant is
that what is left of the text begins at that least offset (`SearchInv`). The cuts at
the stars are defined by counting, and that they are in order with no star between
them is proved by counting (`CutIsEnd`, `NoStarInPart`). `AlwaysRoundTrips` and
`LoopAlwaysInvariant` (`Base62Proofs`): encoding round-trips in every base; splitting
the leading number in two digits leaves what they denote (`DecodeSplit`).
Both argue by induction over data. The library's induction theorems take an operator
as parameter, which the installed provers cannot instantiate; `SetInduction`, derived
from well-foundedness, takes a set instead.

*Only model-checked* are the liveness properties, which are beyond the prover:
`RefreshedForever`, `StopsOnShutdown`, `LockServed`, `OneForAll` and `CollisionIsFatal`.
The four violations of section 4 are counterexamples of TLC.

## 6. What is not modelled, and the plan

Not modelled:

* the value types of `labman-core` (`Endpoint`, `EndpointHealth`, `NodeStatus`, the
  error enumeration): nothing in the program calls their state changes;
* of `labman-core::slug`, the hash;
* of `labman-config`, `to_node_info` and the token's fingerprint, pure functions the
  daemon does not call;
* of `labman-wireguard`, the Rosenpass engine: its `init` starts nothing and its
  `ensure_keys` always returns an error;
* of `labman-telemetry`, the gauge, which nothing sets, and the layout of log lines;
* frames and commands of the Portman server that change no state;
* `labman-client` and `labman-cli`, placeholders.

Done: the registry, the lock and the checker; the proxy over them and its
abstract table; the Portman server and its abstract board; the configuration and
the daemon; the WireGuard backend; the recorder and its scrapes; the two
algorithms; the proofs of section 5. Next:

1. What of the bulletin board survives colliding ids, as a weaker abstract
   specification and a refinement without a premise.
2. In the same module, several connections per agent and observer, so that an id that
   is given out again belongs to the same client.
