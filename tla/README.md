# Specifications of liuzz-cloud

liuzz-cloud is a set of Spring Cloud modules (Java): a gateway, a self-hosted
Nacos, and libraries (`common-*`) that services put on their class path.  It has
no tests.  This directory holds TLA+ specifications of the parts whose behaviour
depends on threads, failures and the order of calls, the TLC configurations that
check them, and TLAPS proofs about every one of the modules.

## 1. The system

Paths are under `src/`; `mybatis`, `feign`, `log`, `core`, `mongo`, `redis` stand for
`common/common-<name>/src/main/java/com/liuzz/cloud/common/<name>`, `nacos` for
`nacos/src/main/java/com/alibaba/nacos`, `gateway` for
`gateway/src/main/java/com/liuzz/cloud/gateway`.

| component | state | operations | what is hard | what makes it correct |
|---|---|---|---|---|
| **Data source registry** `mybatis/utils/DsUtil`, `mybatis/provider` | the library's map from names to pools; the monitor of `dsName.intern()` | `dynamicCheckDataSource`, `addDataSource`, `removeDs`, `queryDataSource`; start-up loads the primary data source only | every request thread may load; add and remove are not locked; creation may throw in the critical section | a name is loaded once, no pool is lost or left registered closed, the primary is always there, no monitor stays locked |
| **Data source routing** `DsUtil.switchDs/exitDs/clearDs/execute`, `mybatis/processor/*` | a stack of keys per thread (library) | `execute`, `@DS` with a literal, `#header`, `#session`, SpEL or `#last`, `clearDs` | scopes nest, throw at every point, `#last` clears the keys of others, threads are pooled, a key may name a group, an unknown one silently means the primary | SQL reaches the data source of its scope, a member of its group or the primary, nothing is left for the next request |
| **Feign retry** `feign/aspect/FeignRetryAspect`, `feign/annotation` | `RETRY_MAP`, one template per annotation value | `retry`; the loop of spring-retry 1.3.4 | get, configure, put without a lock; lost answers; wrapped exceptions; caps of the back-off | own policy, bounded executions, gives up last, a call runs as if it were alone, ends |
| **Answers** `feign/handler/GlobalBizExceptionHandler`, `core/domain/RetOps`, `Result` | none | every exception becomes HTTP 200 with a code | the code is all the caller has | an exception of the service is an answer and is not retried |
| **Operation log** `log/aspect/LogAspect`, `log/event`, `core/utils/SpringContextHolder` | one thread-local start time, the static application context | `doBefore`, `doAfterReturning`, `doAfterThrowing`, `handleLog`, `saveSysLog`, `destroy` | `@Log` methods nest, an `Error` skips the advice, threads are pooled | a log has the time of its own method, no log crosses requests |
| **Thread pool of @Async** `core/utils/thread/ThreadPoolUtil`, `core/config/ThreadPoolConfig` | queue, threads | `execute`; expiry; shutdown | full queue, caller runs, shutdown | no event lost or stored twice, every event saved unless the JVM ends |
| **Nacos namespaces** `nacos/console/service/NamespaceOperationService`, both controllers | table `tenant_info` | create, edit, remove, check, get | check-then-insert without a transaction, several servers, errors after a commit | one creator per row, answers tell what happened |
| **Data access** `mybatis/core/MyServiceImpl`, `MyBaseMapper`, `mybatis/handler` | rows; the statements a batch session has collected | save, update, saveOrUpdate, remove, their batches, the filling of fields | batches that fail in the middle without a transaction, select-then-write, logical delete | answers are explained by the table, what is saved is there, updater and creator are those who wrote and inserted |
| **Paging, SQL filter** `mybatis/core/PageContext`, `SqlFilterArgumentResolver`, `mybatis/interceptor` | none (request parameters become a new `Page`) | `getPage`, `resolveArgument` | | |
| **MongoUtils** `mongo/utils/MongoUtils` | none; objects in hand and documents | `toBson`, `toObject`, four builders of updates, `toPage`, `like` | names and keys of a field, case, nulls, objects that are stale when saved | reading and writing agree where a field is, what is excluded is not written |
| **Gateway** `gateway/filter`, `gateway/handler` | the exchanges of a request and the URL attribute of each | `RequestGlobalFilter`, `SwaggerGatewayFilter`, `GlobalExceptionHandler` | three filters share the lowest precedence and their order is up to the start; in some orders the gateway calls itself; a response may be committed when something is thrown | the calls of the gateway to itself end, one gateway calls services or itself, the same for all requests, no failure looks like a success |
| Redis, job, swagger, security, JSON, AES, Nacos health/history | see "not modelled" | | | |

Interactions.  A request thread of a service enters `@Log` methods (LogPipeline),
`@DS` scopes (DsRouting), which load data sources (DsRegistry), and calls other
services through Feign proxies (FeignRetry); the gateway stands before all services (Gateway).
The only state these share is
the thread itself: the key stack and the start time are thread-locals of pooled
threads, which is why "nothing is left behind" is a property of both.  Administration
code calls `addDataSource` and `removeDs` on other threads.  LogAspect hands its
event to the Spring context, which hands it to the pool of `@Async`.  Nacos is a
process of its own; its servers share the database.

## 2. Modules

| module | models | checked by | proved in |
|---|---|---|---|
| `DsRegistry` | registry, statement by statement | `DsRegistry.cfg` | `DsRegistryProofs` |
| `DsOnDemand` | abstract: a name is loaded once, on demand | refined by `DsRegistry` | `DsRegistryProofs` |
| `DsRouting` | key stack and scopes of a thread | `DsRouting.cfg`, `DsRoutingExit.cfg` | `DsRoutingProofs` |
| `FeignRetry` | aspect, templates, retry loop, the answers | `FeignRetry.cfg`, `FeignDelay.cfg` | `FeignRetryProofs` |
| `RetriedCalls` | abstract: a call with a template of its own | refined by `FeignRetry` | `FeignRetryProofs` |
| `LogPipeline` | aspect, event, pool, shutdown | `LogPipeline.cfg`, `LogTime.cfg` | `LogPipelineProofs` |
| `Namespaces` | both namespace APIs on one table | `Namespaces.cfg` | `NamespacesProofs` |
| `NamespaceStore` | abstract: creation at one moment | refined by `Namespaces` | `NamespacesProofs` |
| `Records` | MyServiceImpl, its batches and the fills, on the rows of a database | `Records.cfg` | `RecordsProofs` |
| `Documents` | objects, documents and updates of MongoUtils | `Documents.cfg`, `DocumentsInclude.cfg` | `DocumentsProofs` |
| `Gateway` | a request on its way through the filters of lowest precedence | `Gateway.cfg` | `GatewayProofs` |

`MC*` modules give the sets of model values.  A definition whose comment begins with
"Mutant" changes one definition the way a bug would; it is used by nothing else, and
each property of a passing run is violated when that mutant replaces its original.

### DsRegistry

`registry` is `DynamicRoutingDataSource.dataSourceMap`, `open` the pools built and not
closed, `monitor` the owner of the interned name, `pc`/`op`/`target`/`fresh` the thread's
place, operation, argument and local variable `dataSource`.  Each statement
another thread can come between is an action: the first `containsKey`
(`BeginCheck`), the monitor (`EnterMonitor`), the second one (`Recheck`), the query
(`Query`: a row, no row, or an exception it swallows), `createDataSource` (`Create`,
`CreateThrows`), the lookup and the removal of `removeDs` (`Lookup`, `Remove`), the
registration (`Put`).  `add` and `remove` run the same steps without the monitor.  A
pool is named by (name, thread, call): two pools for one name are different
pools.  The library's `addDataSource`/`removeDataSource` are synchronized and close the
pool they displace; removing the primary throws, which `removeDs` logs.

### DsRouting

`stack` is the key stack, `scopes` the scopes a thread is inside of, each at its
check or in its body; `cleared` counts the scopes whose keys a clear took, and
`robbed` says that a scope the thread is inside of has lost its key to a failed
`execute` further in (finding 1; both auxiliary).  Loading may throw in every kind of
scope; `StackMirrorsScopes` and `OwnOrPrimary` are claimed of threads that are not robbed,
the other properties of all.  Order matters and is the code's: for a literal key the interceptor pushes
before `DsCheckAspect` checks, for a resolved one the processor checks first and a throw
leaves nothing pushed, `execute` calls `switchDs` inside its `try`.  Loading is one
step here because DsRegistry implements `DsOnDemand`; what other threads do to the
registry is `Elsewhere`: one name at a time comes or goes, the primary one stays, which is proved of
DsRegistry (`RegistryFitsRouting`).

`Lookup` is `getDataSource` of dynamic-datasource 3.6.0.  The library takes what a name has before
its first underscore for a group: `hip_base`, the name in the doc of `DsUtil` (line 216), is a member of
`hip`.  A group comes before a data source of the same name, and it outlives its members
(`groups`): SQL for an empty one throws (`Routes` is empty then).  The strict mode is
off (its default), so a key that is neither means the primary.  `Meant` is everything a key
may stand for, and the properties of routing are about it: which of these it is may change while a
scope is open, because others register and remove, but it is never what some other scope means.
Services that give names with underscores to data sources of their own should know this.

### FeignRetry

The steps of `retry` around `RETRY_MAP`, then the loop of spring-retry (external: its
behaviour for the policies the aspect sets).  A remote call is answered, not
served, or served with the answer lost; `executed` counts what the server did.
`CodesOf` is GlobalBizExceptionHandler.  A fixed period is an exponential one with factor
1, so the two classes of policies are one record.  Factors are doubles in the code and fractions here; a
product is cut down to whole milliseconds (`Times`), and the library takes no factor below 1
(`AtLeastOne`).

`RetriedCalls` is the same call with a template of its own: an attempt runs, fails or returns; a failure that
is retried is followed by a sleep, another one or the last ends the call.  It has no map of templates, no
building, no other thread and no back-off context: a sleep follows from the one before.
FeignRetry implements it (`RunsAsIfAlone`) with `Stage` as the mapping: filling `RETRY_MAP` is part of the
first attempt.  It reads the values of the annotation as spring-retry does, which is not in all points how
their javadoc puts it: that is finding 2, not something the refinement says.

### LogPipeline

`frames` are the `@Log` methods a thread is inside of; `stamp` the thread-local slot,
holding the call whose start time it is; `fate` what became of each call's log.  Calls are numbered as they
begin, so the order of two numbers is that of two start times.
`Execute` is ThreadPoolExecutor as `ThreadPoolUtil` configures it.  `Close` is
`SpringContextHolder.destroy()`, `Halt` the end of the JVM.  `ThreadPoolConfig` is an
`@AutoConfiguration`, whose `@Bean` methods are not proxied; the executor `@Async` takes
from `getAsyncExecutor()` is therefore not the bean that is shut down with the
context, and the wait that ThreadPoolUtil asks for (lines 48-51) does not apply to
it.  So `Halt` may come while events are queued.  `saveSysLog` has an empty body for
now (a TODO): "saved" means the listener returned.

### Namespaces

`table` is `tenant_info` by `tenant_id`, `call` the creation a client waits for or its
last call and answer.  `Count` and `Insert` are the two statements of
`createNamespace`; an error may come before or after the row is committed
(`Breaks`, `InsertUnconfirmed`).  A NacosException is `false` for v1 and an error code
for v2.  Ids are in the table as they arrive there: `Create` trims, nothing else does.

### Records

`table` holds the rows as the database has them, `undo` the rows a transaction found before
it changed them (which are what others see, and locked), `request` the call of a
client, `rest` the ids the loop of `executeBatch` has still to accept, `pending` the
statements of the BATCH session not yet executed.  `Accept` is one turn of the
loop: the statement for an entity (`StatementFor`, with the select of `saveOrUpdate`), its
fills, and the decision to flush.  `Execute` is one statement in the database;
`Duplicate` and `DatabaseFails` its failures, after which the JDBC driver may or may not go on with
the slice.  A statement finds the rows it names and that are not deleted (`Hits`); only
those it changes and locks.  `inserted`, `by` and `wrote` of a row say who inserted it and whose
statement was the last (auxiliary).  The overrides in MyServiceImpl carry no `@Transactional`, so a call has a
transaction only if its caller has one.  `Audited` ids belong to tables with
logical delete and filled fields, the others to tables with neither: the two
answers to `isWithLogicDelete() && isWithUpdateFill()`.  Isolation is read committed.  A
crash of the service ends a call as `DatabaseFails` does, without an answer.

### Documents

A class is the sequence of its fields, each with its Java name and its key; an
object is the sequence of its values.  The conversions and builders are operators
that say what a loop of the code leaves: of several `put` or `set` calls for one key the last one
wins (`Put`, `Last`).  Where the order of the loop is that of a map or of the caller's set, any of
them may be the last, and the operator is the set of the outcomes (`ToObject`,
`UpdateForObjectInclude`).
A service reads the document (`Read`), sets fields (`Edit`) and saves in any of the four ways with
any names (`Save`).  No code in the repository calls MongoUtils; these three
actions are the use its methods are made for.

A document may hold a field twice, under its key and under its Java name, since `toObject` reads both and
`updateForBsonInclude` writes whatever names it is given.  `Held` is what it has of a field in the two
places, and the properties make no assumption on the document.

### Gateway

`order` is the order of the three filters of lowest precedence: `RequestGlobalFilter`,
which asks for it, `SwaggerGatewayFilter`, which has no order of its own, and the library's
NettyRoutingFilter.  `exchanges` are the exchanges a request has open in the gateway, the
innermost last: a path, the URL attribute, the next filter, the answer.  `Route` is the
library's work before these filters (the service of the first segment).  `RequestGlobalFilter`
writes the address the request came to, without the first segment, over the one of the service.
If NettyRoutingFilter comes first nothing happens, because the answer is there already; otherwise
the request goes to the gateway itself (`SendToItself`), a new exchange, until no segment is left
and no route matches.  `Handle` is GlobalExceptionHandler: a ResponseStatusException gives its
status, anything else the default one, 200, with a `Result.error` in the body; a committed response is
left alone (`WriteFails`).  `calls` and `failed` are auxiliary.  Left out is the branch of a
body that cannot be written as JSON (`GlobalExceptionHandler.java:47-50`), since a `Result` of strings always
can.  Routes come from Nacos at run time and are not in the repository; the model takes them to have
no filters of their own that change the path.

## 3. Runs

| run | bounds | distinct states | shows |
|---|---|---|---|
| DsRegistry | 2 request threads, 1 administrator; 3 names (primary, loaded on demand, managed by hand); 2 calls each | 173,842 | no pool lost, primary registered, no needless query, refinement of DsOnDemand, every call ends |
| DsRouting | 1 thread, 3 names of which one makes another one a group, depth 3, loading may throw everywhere | 126,150 | stack = scopes and own, group or primary unless robbed; nothing left behind, routed by own scopes always |
| DsRoutingExit | the same | violation | finding 1 |
| FeignRetry | 2 threads, 3 annotations (factor 3/2 with 4 attempts, 1/2 with 3, a fixed period with 2 and an included exception) | 121,184 | own policy, bounded executions, gives up last, refinement of RetriedCalls, every call ends |
| FeignDelay | the same | violation | finding 2 |
| LogPipeline | 2 request threads, 2 pool threads, core 1, queue 1, 4 calls, depth 2 | 87,837 | events conserved, start of own request and no earlier than the method, alone is logged, caller runs last, events saved |
| LogTime | the same | violation | finding 3 |
| Namespaces | 2 clients, 1 id with and without a blank, 1 UUID, 2 titles | 20,289 | only trimmed ids, refinement of NamespaceStore |
| Records | a user and a job without authentication, 1 call each of 24 kinds; 2 ids of an audited table, 1 of a plain one; batches of 2 with slices of 1 and 2; any table before | 593,962 | saved rows exist, answers explained, updater and creator are true, failed batches stop at their slice |
| Documents | 1 client; 4 classes of 2 fields, 4 names, 2 values | 2,016 | saving back changes nothing, builders agree, excluded fields stay |
| DocumentsInclude | the same | violation | finding 4 |
| Gateway | 1 request, all paths of up to 3 segments of which 2 have routes and 1 is the documentation, with and without credentials, 6 orders of the filters | 6,694 | one hop per segment, the order of the filters decides who is called, failures are told, every request ends |

Some properties are not run because others imply them, or because they are proved and no plausible
change of the code breaks only them: `MonitorMatchesBlock` and `LoadedNamesStay` of DsRegistry
(a lost monitor breaks `EveryCallEnds`, a replaced pool `LoadsOnDemand`),
`RowsHaveOneCreator` and `CreateTellsTheTruth` of Namespaces (consequences of
`CreatesAtOnce`).  They stay in the modules, each with its
theorem.

Why the bounds are enough.  DsRegistry: a race needs two threads at one name, the
third disturbs them; the second call of a thread meets what the first one left.
Three names are one of each kind the code distinguishes.  DsRouting: keys are
thread-local, so one thread and `Elsewhere` cover any number; depth 3 gives an
outer, a middle and an inner scope with equal or different names; of the three names one is the
primary, one is in a group and one is the name of that group.  FeignRetry: the
race for the map needs two threads; four attempts give three sleeps, of which the second is a product that
is cut down and the third is cut off by the maximum; the other two annotations begin with a sleep above their
maximum, which ends it for the one that might grow and not for the fixed one.
LogPipeline: one core thread, one more, a queue of one, and a fourth event fills
the pool to the point where a caller runs.  Namespaces: two creations of one id are
the race; a third finds what two leave.  Records: every hazard is between two calls on
a table that may have any rows, so one call of each of two clients after any
table is every pair; two ids give batches that overlap in both orders.
Gateway: requests share nothing but the order of the filters, so one is enough; three segments
make up to three exchanges one inside the other and a fourth that finds no route.  Documents: edits reach every object, so one client has in hand whatever several would
have; two fields give every way in which names and keys can meet: in two of the classes
they are apart (`Unambiguous`), in one the key is the name of the other field, and in one the names differ only in case.

Deadlock is checked except where calls or requests are counted (DsRegistry, LogPipeline, Records,
Gateway): there the system stops when they are used up.

Fairness.  DsRegistry, FeignRetry: weak fairness of each thread inside the code, because a
thread that can run is scheduled; nobody is obliged to call.  The monitor needs no
strong fairness, since the number of calls is finite in the instance and a monitor is
held for finitely many steps.  LogPipeline: weak fairness of pool threads
and of a request thread that runs a listener; nothing forces methods to end.  Gateway: weak fairness of a
request's next regular step, because Reactor runs what is ready.  That a service which has the request answers in the end, or breaks the
connection, is an assumption on the environment: nothing in `src/` configures a response timeout.  Nothing is
obliged to fail.  The other runs use no fairness.

## 4. Findings

1. **`execute` takes off a key it has not pushed** (`DsUtil.java:229`, `:254`).  `switchDs` is
   inside the `try`; if loading throws, `finally` calls `exitDs(name)`, which polls the
   key of an enclosing scope of the same name.  `ExitsOwnSwitchOnly`.
2. **A fixed back-off ignores `maxDelay`** (`FeignRetryAspect.java:75`), which `Backoff.java:22`
   documents as the maximum sleep.  `SleepsWithinMax`.  Where the sleeps grow, they do not exceed it
   (`SleepsGrowToMax`).  `maxAttempt` is documented as the number of retries (`FeignRetry.java:22`) and counts
   the first attempt too, so there is one retry less; `BoundedExecutions` is about what it is.
3. **Nested `@Log` methods** (`LogAspect.java:45`, `:71`).  If the inner one throws an `Error`, the
   outer log counts from the inner start; if it ends normally, the outer
   log is lost to a NullPointerException.  `OperatorTimeIsOwn`.  The time in a log may be too short, but never
   too long: `StartOfOwnRequest`.
4. **`updateForBsonInclude` does not know `@Field`** (`MongoUtils.java:103`).  Its javadoc asks for field
   names (line 94); given the Java name of an annotated field it saves nothing for it, or with mode true a null
   under that name, which the next reader may take for the value.  `FieldNamesAreEnough`.  With keys instead of
   names, as the other properties have it, nothing is lost.

Seen while reading, without a run: `RetOps.isSuccess()` is true exactly when the code is `FAIL`
(`RetOps.java:30`); `editNamespace` returns true whether or not a row was updated
(`NamespaceOperationService.java:130`), and `NamespaceController.java:124` documents the answer as "whether
edit ok"; `@FeignRetry` may be put on a type, where the pointcut
`@annotation` does not see it (`FeignRetry.java:9`); a header, session attribute or
expression that is absent makes `dynamicCheckDataSource(null)` throw; an exception
that is no ResponseStatusException is answered by the gateway with HTTP 200 and a `Result` of code 500
(`GlobalExceptionHandler.java:35`).

The comment of `RequestGlobalFilter` says that it rewrites StripPrefix (`RequestGlobalFilter.java:47`), which takes
the first segment off before a service gets the request.  With the order it has, the lowest precedence
(`return 10` is commented out, line 67), it does so for no service: after
NettyRoutingFilter it comes too late, before it the address it writes is the one the request came to, so
that the gateway calls itself (`OrderDecides`).  What a service gets then depends on the
routes, which are outside of the repository, so no property claims or denies the comment.

## 5. Proofs

`DsRegistryProofs`, for any threads, names and number of calls, from
`RegistryAssumption` (the primary and the managed names are names, the extra values are
not threads or pools).  `PoolsAccountedFor` is not inductive: a replacement closes the
pool it displaces, and one has to know that nobody else holds that very pool.
`IInv` adds that a pool in a thread's hands belongs to its current call (`FreshIsOwn`),
that a registered pool is from an earlier call or one that is over
(`RegisteredIsOlder`), and which operation can stand where (`OpFitsLocation`).
`Invariance` is `Spec => []IInv`; the invariants of the run follow, `LoadedStay` and
`Refinement` are action properties from it.  `NoDeadlock`: who waits for a monitor waits for a thread inside the block,
which waits for nobody.  `RegistryFitsRouting` is a second refinement, of DsRouting by DsRegistry for a thread that is in no
scope, and for names without groups (the registry does not model them): every step of the registry is `Elsewhere` of one name, or changes no name.

`DsRoutingProofs`, for any threads, names, groups and depth, from `RoutingAssumption`.  As long as a
thread is not robbed, `MirrorInv` (the keys are the names of the scopes entered since the last clear)
is inductive, and `KeysAreScopes` and `RoutedToOwnOrPrimary` follow.  When finding 1 robs it, keys
disappear from the middle of the correspondence.  What remains inductive is that the keys embed
into the scopes in order (`EmbedInv`), each key at or above its position;
`ThreadsComeBackClean` and `RoutedWithinThread` follow from it.  That a key is looked up within what it
means, whatever is registered and whatever groups are left, is a lemma of its own.  The lemmas about
embeddings (extend, pop, shorten) are stated once.

`FeignRetryProofs`, for any threads and annotations, from `AnnotationAssumption`.  A template in the
cache is `Prepared` for its annotation, so two threads that build one each put equal
ones (`CallInv`, `PoliciesAreOwn`).  A call has executed the method at most once per failure and fails at most
`maxAttempt` times (`ExecutionsAreBounded`).  `SleepInv` ties the interval of the
library, which goes on growing beyond the maximum, to the sleeps so far, for any factor; `SleepsGrowToMax` says of
them that they never shrink and keep within maxDelay unless the period is fixed.  With these three,
each step maps to a step of RetriedCalls or to a stutter (`Refinement`): `CallInv` says that the template used is the
annotation's, so the library retries what the annotation retries and stops when it says; `SleepInv` that each sleep
follows from the one before.

`LogPipelineProofs`, for any threads, nesting, pool and queue, from `LogAssumption` and
`EventAssumption`.  Request side: the methods a thread is inside of are of one request and have no fate
yet (`FramesAreOpen`); the slot holds a start of that request, and the innermost method's own as
long as nothing began inside of it (`StampsFit`).  `StartOfOwnRequest` and
`AloneIsLogged` are then true of each event when it is published (`PublishedIsTrue`), and stay so because no
call is logged twice.  A start in the slot is never older than the innermost method (`LateInv`), which is the other half of
`StartOfOwnRequest`.  A method has one log or none, as its fate says (`MethodsHaveOneLog`).  Pool side: an event is published if and only if it is saved or in a place of the pool
(`EventsArePlaced`), and in one place only (`PlacesAreDisjoint`), so the numbers of both sides agree
(`CountsAgree`); this is `EventsConserved`.  `CallersRunLast` needs that the queue is never longer
than it may be.  `NobodyIsStranded`: while anything is queued, as many threads as the core has are alive: events are queued
only when the core is complete, and a thread expires only with the queue empty.

`NamespacesProofs`, for any requests, ids and UUIDs, from `TrimAssumption` and `NothingAssumption`.  A
creation carries a trimmed id and its answer is what happened (`CallInv`).  Each step of the console is a
step of NamespaceStore or leaves its variables alone: a creation happens where the row
is inserted (`Refinement`); `CreatorsStay` follows from the unique key.

`RecordsProofs`, for any clients, ids, requests and numbers of calls, from `RequestAssumption` and
`NothingAssumption`.  `AuditHolds`: the statements in a session name the user of the call, and rows kept for a
rollback were true when they were kept.  `SavesLast`: one transaction at a time has changed a row, a row of
a table with logical delete vanishes only by the rollback of its insertion, and nobody relies on a row
another transaction may still roll back.  `AnswersHold`: statements only make a row a later one (deleted
rows stay deleted), and what a rollback brings back was never anybody else's to see.
`FailedBatchesResume`: the property speaks of prefixes of the list, and its invariant (`BatchInv`) does so by lengths, without an
induction over the slices: there is a multiple of the slice size up to which the ids of the list are all written, and what
is written or in the session beyond it is of the entities accepted since, a slice at most.  `FailuresAreUndone` is the counterpart with a
transaction: what others see of a row changes by a statement outside of transactions or by a commit, so a call that throws in
a transaction has changed nothing for anybody.  `FlowInv` relates the loop to its session:
`SessionsAreSmall` (never more than a slice, and none when `saveOrUpdateBatch` selects), `NoCallIsStuck`.

`DocumentsProofs`, for any clients, classes, names and values, from `DocumentAssumption`.  The typing is
inductive, and so is that nothing but null is ever stored under a Java name that is no key, if names and keys are
apart (`StraysStayNull`): every builder that writes a value writes it under a key.  The other properties follow
from these in every state, from what the builders do field by field.  That
a set of indices has a last one is proved from the well-foundedness of inclusion on finite
sets.  `SavingBackIsSafe` is about any document, whatever it holds of a field in its two places;
`SavesAreRead` joins the two directions: after a save by any builder a reader gets the saved value of each
chosen field, null only if nulls are saved, and of every other field the value it had, or null where a null
lies under its Java name.

`GatewayProofs`, for any requests, services and lengths of paths, from `GatewayAssumption`.  The invariant
says of each exchange what its path, URL and answer are, given the filters that have run
(`Fits`), and that an exchange that waits for another stands at NettyRoutingFilter with RequestGlobalFilter behind it
(`Waits`); so each inner exchange has one segment less.  `Told` follows what was thrown from the
innermost exchange to the client.  `FilterOrderDecides`: where RequestGlobalFilter is sorted first no service ever gets a
request, where it is not the gateway never calls itself (`OrderDecides`, for all requests and any exchange).  `BoundStopsNobody`: `MaxHops` is in a guard of the
model, and an exchange that is about to call the gateway always has room left, so the bound hides nothing.

Progress.  What fairness adds to a system, that something which can always run does run in the end, stays with TLC.  What the
liveness properties need of the code is proved: a measure that every step of a call reduces and that no other thread
raises (`CallsTakeFewSteps` of DsRegistry: 8 steps; of FeignRetry: 2 maxAttempt + 2; of Records: 2 n + 2
for n entities; `RequestsTakeFewSteps` of Gateway: 10 per segment and 10; `BacklogIsWorkedOff` of LogPipeline: each take and each save
shortens the backlog, and only a new event lengthens it), and that nobody waits for ever (`NoDeadlock`,
`NoCallIsStuck`, `NobodyIsStranded`).

Every invariant, action property and refinement that a passing run checks has its theorem.  Only
model-checked: liveness (`EveryCallEnds` of DsRegistry and FeignRetry, `EventsAreSaved`, `EveryRequestEnds`), whose fairness conditions
are ENABLED formulas and beyond the prover, and the four violations.

## 6. Not modelled

The life of a connection inside a pool (Druid), hence what a user of a replaced pool
sees.  Reads through MyServiceImpl, the times of the fills, entities without an
id (inserted under an id nobody else knows); `toPage` and `like`; paging and the SQL
filter (no state).  In the gateway, the headers RequestGlobalFilter removes and sets, and its log.
How headers, session attributes and expressions become names.  `getNamespaceList`
(reads only) and authorisation.  Redis utilities (one server command per
method), job, swagger, security and JSON configuration (start-up wiring), AES, MIME and validation
helpers (pure library conversions, `RetOps` among them), `auth` (a pom).

The JavaScript of the repository, which is most of its lines, is the console of Nacos as its project
publishes it: the Monaco editor, CodeMirror with its modes and lint add-ons, and a minified bundle.
None of it is written or changed here, and how an editor colours text has no bearing on what these services do;
`PROJECT.json` maps definitions to the Java code only.

Two things the models have and no property forbids, because nothing in the code or its documents promises
otherwise: a load that read the table before an administrator replaced the pool registers
the older configuration over the newer one (`DsUtil.java:165`), and an exclude update of MongoUtils
writes every other field as it was read, over what others have written since (`MongoUtils.java:166`).

## 7. Plan

Done: all modules of the table above with their runs and proofs.

What could follow: several calls of MyServiceImpl in one transaction, and callers that catch the exception of a
batch and commit what came before it;
the versions of a data source's row in `master`, should the code ever order loads and replacements.
