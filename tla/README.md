# A verification project for fast-service-toolkit

TLA+ models of the toolkit: its concurrent core, the way a configuration takes
from its source to a call, and its DynamoDB library. They are checked with TLC
and, for every value of the constants, proved with TLAPS. Paths are relative to
`src/`.

## 1. The system

The toolkit runs a web service from a YAML file: *middlewares* fetch data
(enrichment) and tokens (auth), *steps* validate and transform with CEL
expressions, a *responder* builds the answer, which may be forwarded to a
target. A service may offer GraphQL too, and its configuration can be replaced
while it runs. Beside it are libraries (`tools/`) for programs that do the same
by hand.

| Component | State | Operations | What is hard | What makes it correct |
|---|---|---|---|---|
| API pipeline, `tools/api/pipeline.go` | results and errors per API, one channel, one goroutine per API | `Execute` | results in any order, cancellation racing results, hanging servers, cyclic dependencies, overlapping executions | no API before its dependencies, each once; a success means every required API answered; Execute and its goroutines end |
| Auth manager, `pkg/auth/manager.go` | token, timer, stop channel | `Start`, `Get`, `Stop`, refresh loop | late and failing providers, Stop racing the timer | no expired token while the provider works; a stopped loop ends |
| Service engine, `pkg/engine/service.go` | configuration, rules, responder, GraphQL engine, managers, metrics, behind a read-write lock | `NewServiceEngine`, `Reload`, `Execute`, `RunMiddlewares`, `GetGraphQLEngine` | requests that read without the lock during a Reload, overlapping and failing Reloads | one generation published at a time, no manager leaked or stopped twice |
| Execute, same file | one `execCtx` per request; a map shared by the sources' goroutines | middlewares, rules, build, forward, metrics | fan-out with partial failure, unsynchronised reads of the map, a deadline in the middle | the first failure ends the request, the target sees validated requests only, every request ends |
| SQS loop, `pkg/transport/sqs_reloader.go` | position in the loop, message in hand | `Start` | redelivery, reordering, failed Loads, deletions that fail, cancellation | an announced change is served, no older configuration returns |
| Loader, validator, injector, `pkg/engine/loader.go`, `pkg/config` | none | `Load` | swallowed lookup errors | what is accepted can be run |
| Transports, `pkg/transport/{http_server,lambda_handler}.go` | none | handlers | merging body, query and path; routes fixed at the start while the configuration changes | both give the engine the same payload |
| Rules, responder, metrics, forwarder, `pkg/{rules,responder,metrics,proxy}` | compiled expressions | `EvaluateBool`, `ExecuteTransformation`, `Build`, `ProcessRules`, `ForwardRequest` | an error in one of several expressions | an error never gives half an answer |
| Enrichment, `pkg/enrichment` | process-wide client caches | `Process*` | caches filled by the first request | a request's region and credentials are its own |
| GraphQL, `pkg/graphql` | schema, a goroutine and a channel per field | `Execute`, resolvers | thunks that nobody calls | no goroutine is left behind |
| DynamoDB store, easyrepo, `tools/dyndb`, `tools/easyrepo` | none of its own | get, put, batch, query, page | groups of 25 and 100, unprocessed items, page tokens | what is reported written is written |
| Environment loader, `tools/envloader` | none | `Load` | a field that fails leaves the earlier ones filled | the names a store uses are those it was configured with |
| Token service, JSON path, emulator, logger, commands | none | | | |

Interactions: the transports call the engine from one goroutine per request; the
engine owns its token managers, which run a goroutine each; the SQS loop calls
`Reload`; `Execute` calls enrichment, rules, responder, forwarder and metrics in
its own goroutine, the sources excepted. The pipeline is independent of these.

## 2. Modules

| Module | Models | Builds on |
|---|---|---|
| `PipelineContract` | what one `Execute` of a pipeline promises: a verdict, and when it may be given | |
| `APIPipeline` | the code that keeps it: `Call` executions of one pipeline over `API` | INSTANCE `PipelineContract` (refinement) |
| `AuthManager` | one token manager and its provider | |
| `ServiceEngine` | the published fields, `Reload`, the reads of REST and GraphQL requests | |
| `SQSReloader` | the reload loop and the queue around the engine | `ServiceEngine` |
| `ExecuteFlow` | one request through the whole of `Execute` | |
| `AWSClients` | the process-wide AWS configuration and DynamoDB client | |
| `ServiceData` | the texts of a configuration, from the source to the calls of its requests | `AWSClients` |
| `EnvLoader` | `Load` of the environment loader, as operators | |
| `DynStore` | clients of one DynamoDB table: the store's operations, its batches, easyrepo | `EnvLoader` |
| `DynQuery` | the query builder and its pages, over that table | `DynStore` |
| `APIPipelineProofs`, `PipelineContractProofs` | theorems about the pipeline: types and order; delivery, progress and the refinement | `APIPipeline` |
| `AuthManagerProofs`, `ServiceEngineProofs`, `ExecuteFlowProofs`, `ServiceDataProofs`, `DynStoreProofs` | theorems about the module named (`DynStoreProofs`: `DynQuery`'s specification) | that module |
| `SQSReloaderProofs` | theorems about the reload loop, and about the engine under it | `SQSReloader`, `ServiceEngineProofs` |
| `MCPipeline`, `MCAuthManager`, `MCServiceEngine`, `MCSQSReloader`, `MCExecuteFlow`, `MCServiceData`, `MCDynStore` | the instances for TLC | the module they instantiate |

Every action is a handler or the stretch of one between two points where another
goroutine can intervene: an access to shared state, a channel operation, a
call. Names that end in `_Something` are deliberately broken variants of the
definition that follows them; nothing uses them, and each breaks a property
(`mutants` of `PROJECT.json`).

**APIPipeline.** `gor[c][a]` is the goroutine of API `a` in execution `c`
(spawned, calling, with an answer to send, or ended: sent or dropped), `chan`
the channel of results, `completed` and `count` the local variables of the loop,
`results` and `errors` the maps of the struct. An execution makes *new* maps and
publishes them in the struct (`owner` says whose maps the struct holds now), so
the executions that overlap are modelled as the code has them: what they read
and write is whatever the struct points to at that moment. A result is named by
the execution that obtained it. HTTP is an answer or a failure; that the calls
do not carry the context is why cancellation never ends one.

**AuthManager.** Time is a tick of five seconds: the wait is 80 % of the
lifetime (`calculateWait`), 60 ticks without one, 2 after an error. The theorems
hold of any tick; with one of a fifth of a second every `expires_in`, a number of
seconds, is the multiple of five ticks that `ManagerAssumption` asks for. `left` is the
life left of the token, from the moment the provider issued it; a fetch that
takes `delay` ticks hands over a token that is older by as much. `Tick` is
disabled when the select of the loop is ready or the HTTP client's timeout has
come: Go reacts within a tick. The context of a manager is
`context.Background()` everywhere in the engine, so only `Stop` ends it.

**ServiceEngine.** What Reload builds is named by its *generation*, and
`engine` holds, for every published field, the generation it is of. `Reload` is
one action per manager started, then the GraphQL engine, the critical section,
one action per manager stopped. A REST request is one action per stage of
`Execute`, each reading the fields anew; one stage that reads a
field several times reads it once here, so the runs show torn requests between
stages, not all those within one. A GraphQL request takes the read lock twice,
and a waiting writer keeps new readers out, as `sync.RWMutex` does.

**SQSReloader.** A message carries nothing the code reads and is named by the
version of the source it announces. The queue redelivers a bounded number of
times, in any order. The bound on loads is large enough for every message.

**ExecuteFlow.** A *key* is a datum that an expression can read. An expression
that needs an absent key is an error, else its value is arbitrary; so the model
covers every verdict of every rule. A *fragile* one may be an error with every key
present: it does not compile, meets a value of the wrong type, gives no boolean to
a rule, or builds what cannot be marshalled. An *undecodable* middleware is one
that `decodeConfig` refuses before any source starts. The 500 for a token that
`Get` does not have is not in the model: a manager is published only after its
`Start` succeeded, and then `Get` has a token (`AuthManager`). The four lists of rules run as one sequence
in the order of the code. Two goroutines of a fan-out share `detection`: the
writers take the mutex, the readers (`resolveParams`) do not; Go may then end
the process (`Crash`) and need not.

**AWSClients, ServiceData.** A text of the configuration is plain, or holds a
placeholder for a variable that is set or not, for SSM or a secret, or for an
expression over the request. `text[p]` is what the injector made of the text at
position `p` so far: one position for each way the program treats a text. The
injector ends the load over an error, drops it, or never looks at the text; a
request resolves a parameter that is a text and passes on what is nested in one
that is none (`resolveParams`); the responder evaluates a text of the output that
`${...}` wraps as a whole and quotes any other (`normalizeExpression`). The output
may be a map of texts, have a number in it, or be nested: maps in a map have keys
that are no strings to `yaml.v2`, so the injector passes over them and the
analyzer panics. The
loader's goroutine reads, injects, validates, analyses or starts the service;
each lookup of it, and each source of a request, goes through `AWSClients`: the
`sync.Once` around the shared configuration, and the unguarded test, creation
and return of the DynamoDB client, one action each. A request is what its
transport made of body, query and path, then the calls it makes. `sent` records
which text left in which call and from which place of the configuration, `used`
which region each caller asked for and which it was given.

**EnvLoader, DynStore, DynQuery.** A store has the configuration that `New` left
it: the caller's, or the environment's when no table was named; a repository of
easyrepo keeps the caller's. A single operation is one action, since it is one
call of DynamoDB; the answer may be lost after DynamoDB acted. A batch is one
action per group, between which the other clients act: `call[c]` is the loop of
`c` (next index, what was taken, what came back unprocessed, what was found) and
notes which keys others wrote meanwhile (`touched`). DynamoDB takes part of a
group, refuses it whole (a key twice, or a key that is not whole), or fails. A
query is one action per page; the page token goes through the conversion that
the code has: the JSON of the last key, read back into interfaces that stay nil.

## 3. Runs

| Run | Question | Instance |
|---|---|---|
| `pipeline_one` | order, results, verdict and end of one execution; does it keep the contract | 3 APIs, all acyclic graphs up to renaming and four broken ones, every set of required APIs |
| `pipeline_422` (violation) | is a failed required API reported as the documented 422? | 2 APIs |
| `auth_manager` | which tokens can `Get` return; how the loop ends; does it go on refreshing | lifetimes of 25 s, 125 s, 150 s and unknown |
| `engine_reload` | what is published, which managers live, what a request can meet | 2 Reloads, 1 REST and 1 GraphQL request, 2 middlewares, 4 configurations, one of them refused after its managers started |
| `engine_thread_safe` (violation) | can a Reload make a REST request panic? | 1 Reload, 1 request |
| `sqs_hot_reload` | is an announced change served, in order, and does a cancelled loop end? | 2 changes, 1 redelivery, 3 loads, a GraphQL request |
| `execute_flow` | what ends a request, what reaches the target, when is the map safe | the configurations of `MCExecuteFlow`, up to 3 sources, with and without a flaw |
| `flow_timeout` (violation) | is a request that ran out of time reported as such? | the same |
| `service_data` | where placeholders go, why requests fail | each position with each kind of placeholder, nested outputs, fragile expressions, 4 whole services, 2 requests of all transports, 2 regions |
| `service_region` (violation) | does a source use the region it was given? | the same |
| `dyn_store` | what batches, pages and easyrepo have done when they return | groups of 2, 4 batches, 3 lookups, 5 builders, 4 configurations of a table, 2 keys, 2 clients |
| `dyn_paging` (violation) | does the next page start where the last one stopped? | the same |

What they show:

* The loop of the pipeline is right about order for every graph, and about
  delivery: an API is started once and its result is consumed at most once. A
  cyclic pipeline never succeeds and returns only when cancelled. The verdict
  keeps `PipelineContract`, which has to allow the cancellation error where the
  documentation promises a 422 (`pipeline_422`).
* While no refresh has failed of late, what is left of a token is at least a fifth
  of its life less two timeouts of the client: a life of more than ten timeouts
  (100 s) never expires in the manager's hands, a shorter one may, by less than
  two timeouts. A stopped manager fetches at most once more.
* However Reloads overlap and fail, one complete generation is published and no
  manager is stopped twice; the managers of a Reload that failed half-way run
  forever (`OnlyFailuresLeak` says that these are the only ones).
* A REST request that meets a single generation behaves; one that a Reload
  crosses may panic (`engine_thread_safe`).
* With the SQS loop, a change is served unless the load that read it failed:
  its message is deleted all the same, and nothing tries again. That no older
  version comes back relies on the load reading the current one; `loader.go:137`
  reads DynamoDB without `ConsistentRead`, which may give an older item, and of
  such a load the property says nothing.
* An internal error of `Execute` has a cause outside the code (a field, a source),
  a transformation that did not apply, an order of the configuration in which
  something is read before it is there, or a flaw of the very rule, source,
  middleware or output at which the request ended. The fan-out is safe but for one
  pattern of configuration: a source that interpolates `detection` beside a
  sibling that writes it (`service.go:368` against 428). `Crash` happens there, in
  the instance too, and `CrashNeedsDetectionReference` says nowhere else. A request
  that ran into its deadline may be answered as if its data were merely missing (`flow_timeout`).
* A placeholder that was not replaced leaves the process in three ways
  (`PlaceholdersAreDelimited`): as a client secret, to the token provider; nested in
  a parameter that is no text (a body, variables, a key), to a source; among other
  words of the output, to the client or the target. A parameter, an address or a
  value of the output that is a text of its own never does.
* `FailureHasACause` lists the causes of each 400, 500, rejection, panic and crash
  of the analyzer, and what a success excludes. It covers what the model has:
  expressions that fail at run time, undecodable enrichments and nested outputs
  included; the wording of the answers and the codes that rules choose are not in it.
* Calls of SSM, Secrets Manager and S3 all go to the region of whoever asked first,
  those of DynamoDB to the region of whoever created the client last, whatever
  region the source was given (`service_region`).
* A `BatchWrite` that returned without an error took each request or had it
  left as unprocessed; with an error, the groups before the failing one are
  in the table. Only the model keeps that account: `store.go:225` drops the
  unprocessed items, and the caller is not told. A `BatchGet` leaves out silently
  what DynamoDB did not process, and nothing else: the comment at `store.go:291` speaks of a simple retry, the
  code only sleeps. An empty page token means that nothing is left, however many
  pages the filter emptied, but a token that is not empty starts the query from
  a key of nils (`dyn_paging`). easyrepo's `Update` never gets past its read, against
  `tools/easyrepo/service.go:124` ("updates the data in DynamoDB") and
  `tools/easyrepo/doc.go:7`: no run asks about it, the theorem `UpdateNeverUpdates` settles it.

**Bounds.** Three APIs give every shape that matters to the loop (chain,
fork, join, cycle with a bystander). Two Reloads are what it takes to overlap;
`MaxVersion`, `MaxLoad` and `MaxRedelivery` bound the environment only.
`FailCap`, `LateCap` and `LeftFloor` saturate counters of `AuthManager` beyond the values that
its properties tell apart. Two requests and the loader are enough for every race
of the client caches, whose states are those of one or two callers. Groups of two
instead of 25 and 100 give batches of none, part of one, exactly one and more
than one group, with a key twice in a group, in two groups, and put and deleted;
`MaxPages` is two, since a page depends on the one before only. `MCDynStore` also
compares `LoadStruct`, which has no loop, with the walk over the fields
(`EnvWalk`). Deadlock checking is off where the system may come to rest: a request
is answered, the environment has used up its bound.

**Fairness.** Only what the scheduler owes the code. Pipeline: goroutines and
the loop take their steps; servers need not answer, and the properties that need
them to say so in a premise (`ServersAnswer`). Auth: the HTTP client's timeout
bounds a fetch, and time passes. Engine: a Reload takes its steps and its fetches
end; a request that holds the read lock releases it. SQS: the loop's steps,
and strong fairness of a receive, since errors may come in between but not
always. `ExecuteFlow`: goroutines step, the mutex is fair (Go's is, under
starvation), the deadline comes and a call whose context is done ends; neither
sources nor target ever have to answer. `ServiceData` and `DynQuery` state no
fairness and no liveness: their requests and batches are finite sequences of
calls that may take forever.

## 4. Proofs

Every theorem is `Spec => []P` (or `Spec => P` for an action property) for all
values of the constants that satisfy the module's assumptions. The property is one
a run checks, or, where the table says so, one that only the proof states. All but
the simplest need an inductive invariant; TLC checks the property on its instance,
the proof has the strengthening.

| Module | Theorem | States |
|---|---|---|
| `APIPipelineProofs` | `TypeCorrect` | `TypeOK` |
| | `DependencyOrder` | `DependenciesFirst` |
| `PipelineContractProofs` | `EachResultOnce` | `DeliveredOnce` |
| | `IncompleteIsNotReported` | `CyclicNeverCompletes` |
| | `AcyclicNeverStuck` | `WaitsForSomething`, the safety half of `AcyclicReturns` (no run) |
| | `NothingMadeUp` | `RealAnswers`: what overlapping executions find in the shared maps (no run) |
| | `InputsAreAnswers` | `InputsAreDependencyResults` |
| | `OneExecutionKeepsContract` | `ImplementsContract` |
| `AuthManagerProofs` | `TypeCorrect`, `ExpiryNeedsFailure`, `StopLosesOnce` | `TypeOK`, `ExpiredOnlyAfterFailure`, `AtMostOneLateFetch` |
| `ServiceEngineProofs` | `TypeCorrect`, `CompletePublished`, `StoppedOnce`, `LeaksNeedFailure`, `OneGenerationUnderLock`, `QuietServed` | `TypeOK`, `PublishedIsComplete`, `NoDoubleStop`, `OnlyFailuresLeak`, `LockedReadersSeeOneGeneration`, `QuietRequestIsServed` |
| `SQSReloaderProofs` | `NeverOlder` | `VersionNeverRegresses` |
| | `LoopKeepsEngine` | the engine's `PublishedIsComplete`, `NoDoubleStop`, `OnlyFailuresLeak`, of `LoopSpec` |
| | `NoChangeDropped` | `NeverDropped`, the safety half of `AnnouncedIsServed` (no run) |
| | `NoManagerLeftBehind` | `QuietLoopOwnsManagers` (no run) |
| `ExecuteFlowProofs` | `TypeCorrect`, `ParamErrorStops`, `OnlyValidatedIsForwarded`, `CrashIsDelimited`, `ErrorsAreCaused` | `TypeOK`, `ParamErrorStopsRequest`, `ForwardOnlyValidated`, `CrashNeedsDetectionReference`, `ErrorsHaveACause` |
| `ServiceDataProofs` | `TypeCorrect`, `PlaceholdersStayDelimited`, `FailuresAreCaused` | `TypeOK`, `PlaceholdersAreDelimited`, `FailureHasACause` |
| `DynStoreProofs` | `BatchWritesAccounted`, `BatchGetsAccounted`, `WholeKeysAreAccepted` | `BatchWriteAccounted`, `BatchGetAccounted`, `WholeKeyIsAccepted` |
| | `UpdateNeverUpdates` | `UpdateIsLost`: each answer of `Update` is an error, and it leaves the table alone (no run) |
| | `EmptyTokenIsComplete`, `StoreTypes` | `EmptyTokenMeansComplete`, `TypeOK` of `DynQuery` |

The arguments:

* *Pipeline, types and order.* A goroutine writes the maps that the struct points
  to, and only an execution that began has made some: `TypeInv` adds to `TypeOK`
  that an execution under way finds maps. Given the types, `DependenciesFirst`
  is inductive: an API is started as a root or with every dependency in
  `completed`, which only grows.
* *Pipeline, delivery.* `LoopInv` relates the goroutines that have sent, the
  channel and `completed`: each result is in exactly one of the last two. From
  it `count` is the size of `completed`, and the channel, as long as the pipeline has
  APIs, has room for every goroutine that still has an answer. An execution that
  is complete has every API in `completed`, hence, by order, no set of APIs
  that wait for each other.
* *Pipeline, progress.* `Launched`: whatever has its dependencies completed was
  started, an answer that was sent and not taken is in the channel, and a
  goroutine gives up its answer only in a context that is done. A loop that waits
  with an empty channel and nobody in flight has then only completed and idle APIs,
  and among the idle ones of an acyclic graph one has all its dependencies
  completed. It holds however many executions overlap; with `ServersAnswer` and
  fairness it is what makes `AcyclicReturns` true. TLC checked `Launched` on the
  instance of `pipeline_one`, and with two executions of two APIs, before it was
  proved.
* *Pipeline, overlap.* Executions that overlap lose results to each other, so that
  neither the contract nor `InputsAreDependencyResults` holds of them. What is left
  is `RealAnswers`, inductive given `LoopInv` since a sent answer stays
  sent: nothing in a map or in what an API is called with is made up, and a success
  means that every required API answered *some* execution. TLC checked it with
  two executions of two APIs.
* *Pipeline, refinement.* With one execution (`OneExecution`, an assumption of
  these two theorems: overlapping executions do exchange their maps) `OwnInv`
  says that the struct's maps are this execution's and record what it counted,
  and that its context is done only by its caller or over a required failure. Every
  step is then a step of `PipelineContract` or leaves its variables alone.
* *Manager.* `Margin`: unless a refresh has failed so recently that the retry is
  not yet over, what is left of a token exceeds what is left of the timer by a fifth
  of its life (`Fifth`), less the delay with which its answer came; while the next
  fetch runs, the age of that fetch takes the place of the timer.
* *Engine.* The generations of the Reloads in progress are distinct and none is
  published (`Generations`); which managers run, were stopped, will be stopped,
  and by whom (`Kept`); what a reader holds while it has the lock (`Reading`);
  what a request has seen (`Quiet`).
* *SQS loop.* A step of the loop is a step of the engine or leaves the engine's
  variables alone, so the engine's invariant (`IInv`) holds under the loop. Over it,
  `LoopInv`: one Reload at a time and only while the loop is in its call
  (`OneReload`); a generation in progress is newer than the published one and its
  version no older (`Versions`), hence `NeverOlder`; an announcement is somewhere
  until it is served or a failed Reload has used it up (`NeverDropped`).
* *Execute.* `FlowInv` says what a request has passed at each place of the code
  and which goroutines of its fan-out are done. For `ErrorsHaveACause` it is
  joined by `Provision`: for a configuration that is well ordered, every key that
  the rules behind the current place need was obtained, unless a source failed.
* *Texts.* The texts before the injector's position are what it makes of the
  configuration's, the others are the configuration's (`Injections`), and the loader
  is past a stage only if the configuration passes it (`Progress`); what a request
  holds follows from them and its input (`Passing`, `Causes`). The two properties
  are then read from the step that sends a text or ends a request.
* *Batches.* `BatchInv`: between two groups `next` is one more than a multiple
  of `Group`, the requests before it are those that were answered, and for each
  key nobody else wrote the table holds what the last taken request on it left;
  a `BatchGet` has found what was there of what was taken (`Progress`). A group comes
  after all that was taken and has no key twice, so its requests are the last
  on their keys. That requests of an earlier group are before `next` is a
  lemma on division (`EarlierGroup`).
* *Pages.* A page reads the items with fewer than `limit` others before them.
  `FirstOnes`: these are all there are, or exactly `limit` of them, and one of them
  is the last. It goes over ranks (`RankGrows`) and a least item left out (`Least`,
  by the library's theorem that the naturals are well-founded), which takes the
  place of an induction over the table. Hence `PageOrAll`: a page without a token
  read everything ahead of its start key. The invariant `Paged` adds that a start
  key is never the key of an item (a token comes back as a key of nils), so
  everything ahead is everything the builder asks for; the proof rests on that
  flaw as the code does, and `dyn_paging` shows its price.
* *easyrepo.* `UpdateNeverUpdates` and `WholeKeysAreAccepted` need no invariant: what a key needs is read from the
  step that uses it.

Assumptions, all on constants and evaluated by TLC: pipelines are dependency
functions with a set of required APIs; a token's lifetime is unknown, or
positive and a multiple of five ticks; a key is of one kind, as its prefix says in
an expression (`KeyAssumption`), and two middlewares provide different keys
(`PlanAssumption`: a restriction, since `Validate` compares the IDs of the
middlewares but not those of their sources); a table is finite and a builder
begins without a page token (`QueryAssumption`); what a store is configured with,
by its caller or in its environment, are texts (`TablesAssumption`); the other
configurations have the shapes listed in `EngineAssumption`, `DataAssumption` and
`DynAssumption`.

Only model-checked: the liveness properties (`CancellationReturns`,
`AcyclicReturns`, `GoroutinesEnd`, `StopEndsLoop`, `KeepsRefreshing`,
`ReloadEnds`, `RequestEnds`, `AnnouncedIsServed`, `CancelEndsLoop`), since
liveness under fairness is out of the prover's reach; of `AcyclicReturns` and
`AnnouncedIsServed` the safety half is proved (above). Every invariant and every
action property of the passing runs is the statement of a theorem.
`PipelineContract` states no fairness, so that the theorem is the whole of the
refinement.

## 5. Not modelled

* The HTTP, AWS, CEL and GraphQL libraries are answers, failures or values;
  DynamoDB is modelled from how the store uses it. The wording of errors, logging
  and formats of metrics are left out.
* `tools/jsonpath` is a pure function over a parsed document that no other part of
  the program calls; nothing of it interleaves or is remembered.
* `pkg/graphql/schema.go` and `resolver.go`, an earlier GraphQL engine, are called
  by nothing; `ProcessRedis` and `ProcessSQL` are reached by no source type.
* The token service is one HTTP request without state or retry; the emulator is a
  table of canned answers; the logger and the commands are set-up.
* Of the rules, the responder and the analyzer, the control and the outcomes are
  modelled, the CEL values are not, and the shape of the template as far as the
  injector and the analyzer tell it apart. Texts that no request uses (descriptions
  of GraphQL types, messages of rules, tags of metrics) have no position. The metrics
  rules are one step that leaves the answer alone; the forwarder is one call with an
  outcome.
* An `expires_in` that is negative (the loop would fetch without pause) or overflows `time.Duration` is outside the
  assumption of `AuthManager`. The pattern of a route that a Reload changed is a
  request without path parameter. Overlapping executions of one pipeline are in the
  model and in the theorems that do not assume `OneExecution`; no document says
  what they promise each other.

## 6. Running

    tlasany M.tla
    tlc -config MCPipelineOne.cfg MCPipeline.tla
    tlapm DynStoreProofs.tla

Each configuration names its module in `PROJECT.json` (`runs`). `dyn_store` takes
about two minutes with two workers, the other runs less. The proofs take about
a minute each, at most.
