# A TLA+ model of metrics-server

metrics-server scrapes CPU and memory counters from the kubelets of a cluster,
keeps the last two points of every node and container, and answers the metrics
API with the usage computed from them. These modules model it in TLA+, from the
validation of its options to the tables it answers with. TLC checks them on
small instances. For every value of the constants TLAPS proves the safety of
every part: of the storage and its linearizability, of the decoder, the scraper,
the kubelet client, the server's loop, and the last three put together, which
implement the server; of the answers and tables of the API; and of the start of
the process, all but its schema.

## The system

| Component | State | Operations | Modules |
|---|---|---|---|
| points and usage (`pkg/storage/types.go`) | none | `resourceUsage`, `uint64Quantity` | `Points` |
| storage (`pkg/storage/{storage,node,pod}.go`) | maps `last` and `prev` of nodes and pods, an RWMutex, the gauge of stored points | `Store`, `GetNodeMetrics`, `GetPodMetrics`, `Ready` | `StorageData`, `AtomicStorage`, `Storage`, `KubeletStorage` |
| scraper (`pkg/scraper/scraper.go`) | per call: a goroutine per node, a channel, the merged batch | `Scrape`, `collectNode` | `Scraper` |
| decoder (`pkg/scraper/client/resource/decode.go`) | per answer: the points built so far | `decodeBatch`, the `parse...` functions | `Decode` |
| kubelet client (`pkg/scraper/client/resource/client.go`) | a pool of buffers | `GetMetrics` | `KubeletClient` |
| address resolver (`pkg/utils/address_resolver.go`) | none | `NodeAddress` | `KubeletClient` |
| server and probes (`pkg/server/server.go`) | `tickLastStart`, the ticker, the informers | `RunUntil`, `runScrape`, `tick`, the probes | `Server` |
| informer health check (`pkg/server/{health,informer}.go`) | none; reads the informers | `Check` | `Server` |
| the three together | all of the above | a tick from its beat to the store | `MetricsServer` |
| metrics API (`pkg/api/{node,pod,table}.go`) | none; reads listers and storage | `List`, `Get`, `ConvertToTable` | `MetricsAPI` |
| options and configuration (`cmd/metrics-server/app`, `pkg/server/config.go`) | flags, client configurations, the parts built | `Validate`, `ServerConfig`, `Config`, `Complete` | `Options`, `Startup` |
| API installation (`pkg/api/install.go`), metrics registration | the parts built | `Install`, `RegisterMetrics` | `Startup` |
| duration buckets (`pkg/utils/monitoring.go`) | none | `BucketsForScrapeDuration` | `Options` |
| OpenAPI definitions (`pkg/api/generated/openapi`) | none | `GetOpenAPIDefinitions` | `OpenAPI` |

How they interact. `runCommand` validates the options and constructs the parts
one after the other; the first that fails ends the process. `RunUntil` waits for
the informers' caches and then starts `runScrape` and the API server. `runScrape` calls `tick` at once and on every
beat of a ticker; `tick` calls `Scrape` under a deadline of one period and
`Store` with its batch. `Scrape` starts a goroutine per listed node, which
sleeps, asks its kubelet, decodes the answer and sends it on a channel. API
requests and the readiness probe read the storage concurrently with `Store`;
the liveness probe reads `tickLastStart`.

What is hard here:

- queries interleave with a `Store` that replaces two pairs of maps one after
  the other, under a lock that must starve neither side;
- the points of a scrape are repeated, late, missing or of another life of the
  container, and yet every usage is a quotient by the distance of two of them;
- kubelets hang, fail and answer in any order, and a channel is closed when
  `Scrape` returns;
- a tick may outlast the period, so that the beats of the ticker wait or are
  dropped, and the start times lag;
- goroutines share the buffers their answers are read into;
- a request reads two caches one after the other, and both change;
- shutdown races the ticker and the wait for the caches;
- options meet a kubeconfig that their validation does not see, and durations
  are multiplied in 64 bits.

What makes each part correct: the storage serves usages of two points of one
life, in order, taken from one state of its maps; the scraper loses no answer,
leaks no goroutine and is always back in time; the decoder returns whole pods
or none; the client asks the preferred address, decodes its own answer and no
other's; a request is answered with objects that exist and metrics of one
scrape, in a table too; the server keeps ticking, its probes tell the truth
about it, and it ends when told to; a process that starts has times that fit
together and reaches the kubelets as it was told to.

`PROJECT.json` lists every component, hazard, run and theorem, and maps each
definition to its lines of source.

## The modules

`Points` has the metric point, `Time.Sub` with its saturation, and
`resourceUsage`. A time is a natural number and 0 is Go's zero time. The CPU
counter is counted in cores times the unit of time. The conversion of an
infinite or negative quotient to `uint64`, which Go leaves open, is the value
`Undefined`. `uint64Quantity` keeps the width of the integers: a value above
`MaxInt64` is served as a tenth of it times ten.

`StorageData` has the data operations of `node.go` and `pod.go` as operators: a
Go map is a total function into points or `NoPoint`; `nodeStore` and `podStore`
are the two `Store` functions, `PrevNode` and `PrevContainer` their choice of a
previous point; `NodeAnswer` and `PodAnswers` are the two `GetMetrics`. Go walks
a map in an unspecified order, so that a pod whose containers tie for the
earliest time has several possible answers: `PodAnswers` is a set. A read of an
absent key is `MapRead`, the zero point. The decoder returns no pod without
containers, so a pod is in a map exactly when one of its containers is.

`AtomicStorage` is the abstract specification: `Store` and each query is one
step. Batches and readers are constants, so nothing is assumed of what the
scraper delivers.

`Storage` adds the RWMutex and splits the calls. `Store` is called, waits for
the lock, replaces the nodes (`StoreNodes`), then the pods and unlocks
(`StorePods`); a query is called, reads one map entry per step and returns
(`RUnlock`). The lock follows package sync: a waiting `Lock` keeps new readers
out and `Unlock` admits all that wait. `Linearizable` states that `Storage`
implements `AtomicStorage`: a `Store` takes effect when it replaces the nodes,
with the pods it is about to replace taken for replaced already, and a query
when it returns.

`KubeletStorage` feeds the data operations with kubelets that measure
containers and nodes with true counters. Containers start, stop and restart at
any time, samples are repeated or missed, scrapes fail. Here the properties can
speak of what the points mean: lives and cores. Kubelets, restarts and clock
are external to the repository and modelled from what the code expects of them.

`Scraper` is `Scrape` with one state per goroutine, in time counted from the
call. The clock advances only when nothing in the process is due, so waiting is
for timers and kubelets alone. A point is represented by the kubelet that
reported it, which is all that merging can tell apart.

`Decode` is `decodeBatch`. Series arrive in any order, with repetitions and
gaps; two history variables keep the latest series of each kind, for the node
(`nodeReported`) and for each container (`reported`). The local variables `node`
and `pods` of the source are `nodePoint` and `points` here.

`KubeletClient` is `GetMetrics` by concurrent goroutines. A call chooses the
address and the port from the status of its node, by the preferred types first
and by the order of the addresses second (`NodeAddress`, the position of the
address, or 0). The rest is followed down to the arrays behind the slices: a slice comes from the pool with the bytes of an older
answer, a `bytes.Buffer` that outgrows it moves to another array, and the
deferred function puts back the old slice or the new one. A body is a number of
pieces that know whose answer they are. The pool may be emptied at any time.

`MetricsAPI` is `List` and `Get` of nodes and pods. A call takes two steps, one
on the lister and one on the storage; between them, informers change the lister
and stores replace what is served. The storage appears as `GetNodeMetrics` and
`GetPodMetrics` present it, in one step, which `StorageIsLinearizable`
justifies. History variables record what the call might have met. `Get` of a
node does not apply the server's node selector, as `List` does, so that a node
that has just lost its label is still served by name until the next scrape;
`Wanted` says so. `ConvertToTable` then makes rows of the answer, with the
columns of the first pod that shows a container and sums in one map that is
emptied for each pod (`PodTables`, the loop as a function of the number of pods
written). Of a usage it keeps the number, whose unit is left out. Names are
positive numbers, so that they have an order; a node has namespace 0. A field
selector is a set of terms, each of which asks that the name or the namespace is,
or is not, a value (`Matches`). `Sorted` is what `sort.Slice` promises: the same
objects, in order.

`Server` is the life of the process, with times kept as ages so that it may run
for ever in a finite state space. A tick is represented by its length, of at
most `TickLimit`, and by its effect on the storage. Nothing ties `TickLimit` to
the period: `Scrape` has the whole period, counted from when the tick really
starts, and merging and storing come on top. The history variable `behind` says
by how much the ticks up to now have outlasted their periods. The probes are the conjunctions of checks that the generic
server evaluates: `Readyz` and `Livez`.

`MetricsServer` puts `Server`, `Scraper` and the node storage of `StorageData`
together: a tick is a `Scrape` under a context that ends with the period and is
cancelled when `RunUntil` returns, and its batch is stored. Timestamps are kept
relative to the present, the constant `Now`, and fall as time passes, so that
the process may run for ever in a finite state space; `MaxAge` bounds how old a
stored point gets, and `TypeOK` shows that it suffices. Kubelets report points
up to `Lag` old. `stopCh` stays open, as `Run` may return with an error in its
stead. `ImplementsServer` states that the composition implements the safety
part of `Server` (`SafeSpec`): what `Server` says of the length of a tick and of
the storage is what `Scraper` and `StorageData` do. Computing takes no time in
`Scraper`, so that no tick of the composition outlasts its period (`TickLimit` is
the period, and `behind` stays 0); ticks that do are in `Server` alone.

`Options` has the options, their validation with the wrapping arithmetic of
`time.Duration`, the client configuration for the kubelets, and the buckets. A
certificate, a key or an authority is a pair of a data and a file form, each of
which says where it comes from, because the transport prefers the data. A
kubeconfig may supply either form or both of each, with or without a token, and
the service account a token with or without an authority. `Validate`
is the list of rules, each with the condition that makes it an error; `Failing`
are those that do, of which `runCommand` reports the first. The code computes
buckets in floating point seconds, the model in whole units of time, and
`HasHalves` says that the unit is fine enough for the halves that are taken.

`Startup` is `runCommand` and `Config.Complete`, one step per constructor. What
is library code (the generic server, clients of the API server, the logging
configuration) fails or does not. `OpenAPI` has the 56 generated definitions
with their fields, references and required fields; `Reached` is what the schema
builder visits from the types of the routes. The generated map refers to types
it does not define, but not from there.

Operators with a comment that begins with `Mutant:` are variants of the
definition that follows with a plausible bug in it. They are not part of any
specification; each is used in place of that definition to see that a property
detects the bug.

## The runs

| Run | Instance | Shows |
|---|---|---|
| `atomic_storage` | 1 node, 1 pod of 2 containers, 112 batches, 1 reader | `TypeOK`, `PrevBeforeLast`, `AnswersDefined`, `QuantitiesFit` |
| `storage_lock` | 2 nodes, 1 pod of 2 containers, 3 batches, 2 readers | `ExclusiveStore`, `ReadersSeeOneStore`, `Linearizable`, `StoreReturns`, `QueryReturns` |
| `kubelet_containers` | a cluster of 1 node, or of 1 pod of 2 containers, 5 moments | `NoRestartInWindow`, `ServedPodIsComplete`, `UsageWithinCapacity`, `TimestampsAdvance` |
| `scraper` | 3 nodes, 1 pod | `SendIsSafe`, `BatchIsComplete`, `ScrapeInTime`, `ScrapeReturns` |
| `decode` | 1 pod of 2 containers, values 0 and 1, 2 times | `EverySeriesCounts`, `PodIsWholeOrAbsent` |
| `kubelet_client` | 2 goroutines, 4 arrays, bodies of at most 2 pieces, 3 nodes | `TypeOK`, `ExclusiveArrays`, `DecodesOwnBody`, `AsksPreferred` |
| `metrics_api` | 1 node, 2 pods in 2 namespaces, 2 stores, a node selector, 3 field selectors | `TypeOK`, `ServesOnlyCurrent`, `ServesAllSteady`, `TableShowsAnswer` |
| `server` | period of 4, ticks of at most 7 | `CollectionTimely`, `NothingStaleServed`, `EventuallyReady`, `LoopEnds`, `StopReturns` |
| `metrics_server` | 2 nodes, period of 3, scrape timeout of 2, delays below 3 | `TypeOK` (with those of `Server` and `Scraper`), `ServedIsFresh`, `EndsWhenCancelled`, `ImplementsServer` |
| `startup` | 7 resolutions, 6 timeouts, 4 node selectors, every set of the other options | `TimesAreSound`, `ConnectionAsConfigured`, `SchemaBuilds`, `BucketsPinpointResolution` |
| `restart_comment`, `timestamp_comment` | see below | what two comments say, violated |

Why the bounds are enough. Names do not interact in the storage except for the
containers of a pod, so one node and one pod of two containers reach every
branch; `MCAtomicStorage` offers points on both sides of each comparison
(younger than the fresh limit, fresh, older, restarted, no start time, a start
time after the measurement, repeated and older timestamps). `MCStorage` needs
two readers for a reader that waits behind a `Store` while another is inside,
and batches that differ in every point so that a mixture shows. A restart
between two scrapes with a repeated sample takes 5 moments at a fresh limit of
2 and a period of 3. Three goroutines are enough for an answer, a failure and a
timeout in one scrape and for two kubelets that report the same pod. The
times of `Scraper` are chosen so that the context's deadline cuts into the
scraper's own timeout (`MaxDelay + ScrapeTimeout > BaseTimeout`), and those of
`Server` so that a tick may end before its period, with it, before or after the
one and a half periods that the probe allows, with a beat waiting and with beats
dropped. `MaxDuration` is smaller
than every measured time, as 292 years are less than the time since year 1.
In `KubeletClient` new arrays have room for one piece and a body has up to two,
so that buffers grow, and each goroutine may hold one array of each size. Calls
of `MetricsAPI` only read, so that one at a time is enough; two stores are the
one it begins with and one that replaces it. Once an answer is computed, changes
of lister and storage cannot touch it and are left out until it has been sent.
The three nodes of `MCKubeletClient` report addresses in another order than the
preferred one, two of one type, none of a known type, and no port. `MaxInt64` is
12 for the storage, with memories of 12, 13 and 25 on both sides of it and at
the end of the unsigned range; in `MCStartup` it has 20 bits and times are in
milliseconds, so that resolutions multiplied by 9 wrap to negative, to small
and to large values. `BucketTimes` has durations on and next to the boundaries
of the buckets. `MaxClock` and `MaxStores` are the only bounds on counters.

`KubeletStorage` checks containers under their symmetry, and `MetricsServer`
nodes. Both are sound, as the properties are invariants, action properties and a
refinement without liveness.

The deadlock check is off for `Decode`, `Server`, `MetricsServer` and `Startup`:
decoding ends, the server stops, a start ends in a running or an ended process.
`Server` counts no state as final by accident, as `LoopEnds` and `StopReturns`
say that it ends when told to.

Fairness. In `Storage` and `Scraper` a goroutine that can go on eventually does
(Go's scheduler); in `Scraper` and `Server` time passes. Nothing else is fair:
callers need not call, kubelets need not answer, informers need not sync,
`stopCh` need not be closed. `Server` also assumes that the API server's `Run`
returns once `stopCh` is closed. `select` chooses at random among the cases that
are ready. When each tick outlasts its period, a beat waits whenever the loop
comes to the `select`, and nothing but that choice ends the loop: `SelectDone` is
strongly fair, because a random choice does not pass over `ctx.Done()` for ever.

## Where comments and code disagree

Two runs end in a violation of what a comment says:

- `restart_comment`: `podStorage.Store` (`pod.go:134`) reads the previous pod's
  container without asking whether it is there. When a sample is repeated while
  the pod has a previous point of another container only, the zero point is
  kept, with another start time and a window of 292 years. The usage shown is
  then close to 0, and `UsageWithinCapacity` still holds.
- `timestamp_comment`: a memory series overwrites the time of the CPU
  measurement.

Others have no run:

- `tickLastStart` is "equal to start time of last unfinished tick"
  (`server.go:84`), but it is the time of the beat, which may have waited in the
  channel. The liveness probe tolerates a tick of a period and a quarter, and yet,
  when every tick takes so long, the lag adds up until the probe fails while a tick
  has just begun. `CollectionTimely` is what does hold: the probe passes until the
  ticks are half a period behind altogether.
- `Ready` says that there are enough points "to serve NodeMetrics"
  (`storage.go:40-41`), but one scrape with a fresh container makes it true, when
  no node has two points; nor need a pod be served, when another of its containers
  has one point only.
- "cells will be as wide as the column definitions array"
  (`zz_generated.openapi.go:2174`), but a pod none of whose containers is shown,
  ahead of all that have one, gets a row with fewer cells than there are columns:
  it is written before the columns have names (`table.go:39-68`).
- The gauge of stored points (`pod.go:155`) also counts containers of pods that
  are left out because another of their containers has no previous point.
- The check `metadata-informer-sync` asks the factory for the informers it
  started. `RunUntil` starts the informers itself, so that the check has nothing
  to wait for and passes at once (`StartedByFactory`). `metric-informer-sync`
  does wait for both.
- An authority option together with a kubeconfig that turns the verification off
  passes the validation and fails only when the kubelet client is built.
- The validation of the resolution wraps above about 32 years. `TimesAreSound`
  holds nevertheless: a wrapped product can only be too small.

## The proofs

All for any number of names, nodes, readers, callers and batches and for any
times, from the assumptions named in the modules. What they ask of the constants:

- of the kind of values: `MaxDurationAssumption`, `MaxInt64Assumption`,
  `NoPointAssumption`, `UndefinedAssumption`, `NamesAssumption`,
  `ResolutionAssumption`, `PodNamesAssumption` (`"none"` names no pod),
  `NoSourceAssumption`, `NodesAssumption` (a lister returns finitely many),
  `NoneAssumption`, `ClientAssumption`, `APIAssumption` (finitely many objects, with
  names other than 0), `DecodeAssumption` (values are of `uint64`, times are not
  the zero time); batches have the type of batches;
- of a cluster (`EpochAssumption`, `RatesAssumption`): kubelets measure between
  two dates that are less than 292 years apart and more than that after year 1,
  and nothing uses more cores than there are, so that no counter leaves its
  `uint64`;
- of the options (`TimesAssumption` of `Scraper` and of `Server`,
  `CompositionAssumption`): times are positive, and in `Scraper` and in the
  composition the longest sleep is no longer than the period, which validation
  keeps at 10s or above; of the length of a tick `Server` asks only that it has a
  bound, which may exceed the period any number of times; `MaxAge` is four periods
  and two lags, and the type invariant shows that to suffice;
- of the default buckets (`OptionsAssumption`, `StartupAssumption`): they are
  positive and increase, as those of the Prometheus library do, and durations
  above them have halves in the unit of time.

Two proof modules have the theorems of two components each, and extend both. The
specifications of the second ones are therefore called `DecodeSpec` and
`StartSpec`.

`StorageProofs` begins with the lemmas about the data operations: the types of
what they compute, that a quantity shows its value exactly or without its last
decimal digit (`QuantityShows`), that `nodeStore` and `podStore` order their
points whatever they are given, and that over ordered points every answer has a
positive window. `LinearizationProofs` and `KubeletStorageProofs` use them
through an instance. It proves of `AtomicStorage`:

- `StorageTypeCorrect`, `StoragePrevBeforeLast` and `StorageAnswersDefined`, by
  one inductive invariant `IndInv`, the conjunction of the three. The order of
  the points alone is not enough: answers are kept while the maps change, so
  that they are only known to be sound because they were when they were given.
  The subtle case is the zero point: it is older than any point that a
  previous pod lets through.
- `StorageQuantitiesFit`: any `uint64` of memory is served as an `int64`. It
  follows from the types of the maps and `QuantityShows`.

`LinearizationProofs` proves of `Storage`:

- `StoreIsExclusive` and `QueriesSeeOneStore`, by the invariant `Inv`, the
  conjunction of `TypeOK`, `ExclusiveStore` and `ReadersSeeOneStore`. The last
  says how far each query has come and that its partial answer is that of the
  maps as they are; it is inductive because the maps change only while nobody
  reads. The step of the loop over containers needs that the partial time is
  the earliest of the containers visited so far.
- `StorageIsLinearizable`: `Spec => Linearizable`. `StoreNodes` maps to the
  atomic `Store`, `RUnlock` to the atomic query, `Done` to `Done`, and all
  other steps to stuttering steps.

`KubeletStorageProofs` proves of `KubeletStorage` the three invariants
(`NoRestartsInWindows`, `ServedPodsAreComplete`, `UsagesWithinCapacity`) and the
action property (`TimestampsAlwaysAdvance`), by one invariant. None is inductive
alone, because `Store` decides by two points what is true of a life that only
the kubelet knows. `ContainerOK` therefore relates what is stored to the
kubelet's sample and to the start of the life: the sample follows the last point
(`Precedes`: of one life, with a counter that only grew, or of a life that began
after it), and a last point that is younger than the start is of that life.
`PodOK` relates the containers of a pod, which the earliest timestamp needs when
a container joins. That no usage exceeds the capacity is a bound on a quotient of
two differences; `Idle`, the CPU time left unused up to a point, turns it into
the statement that `Idle` does not decrease from one point to the next.

The same module has the theorems about `Decode`. `DecodedSeriesCount` and `DecodedPodsAreWhole` hold by
`DecodeInv`: a point tells which series have named it. The properties speak of
the batch that is returned, so that the invariant has to say of the points what
the batch will be: that a counter is zero when its series is missing or zero,
that the time of a point is zero until a CPU or a memory series has come, and
that a point exists as soon as any series has named its container, a start time
too. The last is why a container that only reported its start drops its pod.
`BatchesAreDecoded` ties the two models together: `DecodedNode` and
`DecodedPod`, with which `KubeletStorage` makes its batches, are
`CompleteNode` and `checkContainerMetrics` of `Decode` on every sample there is.

`ScraperProofs` proves of `Scraper` that `SendsAreSafe`, `BatchesAreComplete` and
`ScrapesAreInTime`. `ChannelInv` counts: every listed goroutine has yet to send,
or its answer is in the channel, once, or has been received, so that the three
add up to the listed ones. `BatchInv` says that the batch is what was received,
and `TimeInv` that sleeps and requests end in time for the scrape to be back.

`KubeletClientProofs` proves of `KubeletClient` that `ClientTypeCorrect`,
`ArraysAreExclusive` and `DecodesOwnBodies`. `CallInv` says that the buffer of a
call begins with as much of its own body as has been copied, which holds because
no other call can write to the array: the proofs of the last two need each other.
`AsksPreferredAddresses` rests on `PreferredAddress`: the address chosen is the
first of the first type that any address has; the port is the node's own when the
option says so and there is one, and the default otherwise. `Min` of a set of positions exists
by `LeastNumber`.

The same module has the theorems about `Startup`. `StartInv` says that whoever got past
`runCommand` has options for which no rule fails, and that each part is made from
them. From it:

- `StartsWithSoundTimes`, for integers of any width: a product that wraps is
  smaller than the product (`WrapBelow`), so that the wrapped check refuses too
  much and never too little;
- `ConnectsAsConfigured`, for every set of options and every client
  configuration a kubeconfig or the service account supplies (`Connection`);
- `BucketsPinpoint`, for any increasing list of positive default buckets and any
  duration (`Buckets`): beyond the last bucket the four new ones are increasing,
  and below it the duration goes in front of the first bucket above it, unless a
  bucket is nearer than the smallest one, which also covers equality.

`MetricsAPIProofs` proves of `MetricsAPI` that `Typing`, `OnlyCurrent`,
`AllSteady` and `TablesShowAnswers`. `CallInv` follows a call from
its read of the lister to its read of the storage: what it has listed was seen
during the call and contains what was steady. An order exists for every finite
set of objects; without finiteness `getMetrics` could have no answer. A table is a function of the number of pods written; that this function
exists and that its rows keep showing their own pods is an induction over the
answer (`TablesOfLoop`). The provers cannot instantiate the library's induction
theorems, so the induction is a minimal counterexample: `LeastNumber`, that a
nonempty set of naturals has a least element, follows from the well-foundedness
of the naturals without an operator parameter. A proof attempt also showed that
names must differ from 0, the namespace of nodes: `APIAssumption` says so now, as
no Kubernetes name is empty.

`ServerProofs` proves of `Server` that `CollectionIsTimely` and
`NothingStaleIsServed`, for ticks of any length. `BeatInv` relates the last start,
the beat that waits and the ticker. The properties speak of how far the ticks are
behind, the probe of when the ticker beat: the last start is at most `behind` older
than the tick itself, and, in between two ticks, than a period before the next beat.
Its last two conjuncts are for a beat that waits: it came during the tick, a period
or more after the last start, and later beats are dropped. `StoreInv` measures the age of the storage: between
two ticks it is at most a period, since a beat either waits or is due.

`MetricsServerProofs` proves of `MetricsServer`:

- `CompositionImplementsServer`: `Spec => ImplementsServer`. A step of the
  composition is a step of `Scraper` or leaves the scraper alone (`ScraperStep`),
  so that the invariant of `ScraperProofs` holds of the composition. By it a step
  is one of `Server` or leaves the server alone (`ServerStep`). Two cases are not
  obvious. Time passes only while a tick is not overdue (`NotOverdue`): somebody
  has yet to send, and sleeps or waits for a kubelet up to a deadline; once the
  context is cancelled, it sleeps, for less than the longest sleep. And the end
  of a tick is a `Store` of `Server` (`EndTickStores`): a previous point is kept
  only when there was a last one.
- `ScrapesEndWhenCancelled`: when the context is cancelled no request is left, so
  that time passes in a scrape only while some goroutine sleeps.
- `CompositionTypeCorrect` and `ServedIsAlwaysFresh`. Answers are dated after
  their tick began, up to the lag (`AnswerInv`); a last point is as old as the
  tick that stored it allows (`OldestLast`), and a previous point precedes it by
  at most two periods and a lag, since it was a last point itself or comes no
  closer (`Aged`).
- `CompositionScrapesSafely`: what is proved of scrapes alone holds within the
  server.

The inductive invariants were checked with TLC on the instances of the runs
before they were proved.

Only model-checked:

- all liveness properties (`StoreReturns`, `QueryReturns`, `ScrapeReturns`,
  `EventuallyReady`, `LoopEnds`, `StopReturns`), which are out of the prover's
  reach;
- `SchemaBuilds`. Whether the definitions that the routes reach are there is a
  closed computation over the generated map without any parameter, so that the
  run already decides it.

## Not modelled

- The Prometheus observations of scraper and server: nothing reads them. The
  gauge of stored points is modelled, as a comment says what it counts.
- The text of a kubelet's answer: the byte positions at which names and labels are
  cut out, and the parser.
- client-go and apiserver code: informers have only `HasSynced`, the API server
  only the return of `Run`, and constructors success or failure.
- Flag declarations, help and usage texts, and the options of the generic API
  server (serving, authentication, authorization, audit), which are library
  code.
- Descriptions, formats and defaults of the generated OpenAPI definitions.
- Logging, and the wording and layout of answers and errors.

## Plan

Every safety property of a run is proved for every value of the constants but
`SchemaBuilds`, and the liveness properties are checked on the instances of the
runs. What would extend the project:

1. the parsing of names and labels in a kubelet's answer, if it is ever changed:
   its positions in the text are left out of `Decode`;
2. pods in `MetricsServer`, which composes the node storage only; what holds of
   pods is proved in `KubeletStorageProofs` for any scrapes;
3. a proof of the liveness of the lock and of the scraper, with a prover that has
   rules for fairness.
