# Verification of mcma-libraries

TLA+ models, model-checking runs and machine-checked proofs for the libraries
of the EBU MCMA project (`src/`). The libraries are what media services are built
from: a service has an HTTP API that stores resources in a document database, a
worker that processes jobs asynchronously, and clients that find services at a
service registry. The same code runs on AWS, Azure and Google Cloud, with a few
provider packages each.

Contents: [inventory](#inventory), [modules](#modules), [runs](#runs-and-bounds),
[fairness](#fairness), [proofs](#proofs), [findings](#findings),
[limits](#what-is-not-modelled), [plan](#plan).

## Inventory

### Components and their state

| Component | State | Operations |
|---|---|---|
| Document database mutex, `base/data` with `aws/dynamodb`, `azure/cosmos-db`, `google-cloud/firestore` | one record per mutex name in a shared table; per object `hasLock` and `versionId` | `lock`, `tryLock`, `unlock`; per backend get, conditional put, conditional delete, sanity check |
| API service, `base/api` | the security configuration once it is loaded, one execution per request, the table behind the default routes | API key middleware, routing, query, create, get, update, delete; for job assignments create, delete, cancel |
| Document database tables and query building, `aws/dynamodb`, `azure/cosmos-db`, `google-cloud/firestore` | the table, and overwritten values that eventually consistent reads still return | `get`, `put`, `delete`, `query` with pages; one builder of filters per query language |
| API adapters, `aws/api-gateway`, `azure/api`, `google-cloud/http-functions` | none | event of a cloud function to request |
| Worker, `base/worker` | the job assignment in the table, one execution per delivered message | `doWork`, `ProcessJobAssignmentOperation.execute`, updates by `ProcessJobAssignmentHelper` |
| Worker invokers | none; an asynchronous message per invocation | `invoke` |
| Resource manager, `base/client` | the list of service clients, shared by overlapping calls | `init`, `query`, `create`, `get`, `update`, `delete`, `sendNotification` |
| HTTP client and authentication, `base/client`, `aws/client`, `azure/client` | cached access tokens and keys; the headers of a request, over all its attempts | requests with retries; `sign` for AWS4, access tokens, API keys, function keys |
| CloudWatch logger, `aws/logger` | queue of events, `processing`, flags for group and stream | `addLogEvent`, `processBatch`, `flush` |
| Event rules, `aws/cloudwatch-events` | an external rule, guarded by the mutex | `enableEventRule`, `disableEventRule` |
| Release tooling, `scripts`, `.github/workflows` | artifact of a run, what is staged and published on npm, tag and release on GitHub | prepare, stage, verify, finalize |
| Storage locators, proxies, secrets, encryption, loggers of Azure and Google Cloud | none, or one request per call | conversions and single requests |

### How they interact

* A client calls an API service over HTTP; the resource manager chooses the
  endpoint and the HTTP client authenticates and retries.
* `POST /job-assignments` stores a job assignment and then invokes the worker by a
  message (Lambda event, storage queue, Pub/Sub) that is delivered at least once.
* The worker reads and writes the job assignment in the same table as the API, and
  notifies the client through the resource manager after each write.
* Event rules and services serialise critical work by the mutex, whose record is in
  the database table.
* Every component logs to a logger provider, which must be flushed before the
  function that hosts it is suspended.

### Hard behaviours, and what correct means

* Mutex: processes with clocks that differ, crashes, lost answers, records read
  before they are judged stale. *Correct*: no two callers within their lease, nobody
  but the holder removes a record that is not stale, and while callers wait the lock is
  acquired again and again.
* Jobs: reads and writes without conditions by the API and several executions, and
  messages delivered twice. *Correct*: the worker finds what it is invoked for,
  notifications are true, an acknowledged job ends.
* HTTP client and API: an attempt that is answered by an error may have taken effect,
  or still will; reads are eventually consistent; tokens expire while others are being
  fetched; the middleware loads its configuration under the first requests. *Correct*:
  the resources are a store, in which a write belongs to a request that its caller may
  make and a success is a write; what was created is found; attempts are signed anew;
  access is what the rules grant; a listing that succeeds is complete; calls end. The
  three platforms hand on the same request, but for what is named below.
* Resource manager: a list that is emptied and filled while others iterate over it.
  *Correct*: queries are complete and do not ask an endpoint twice, `init` leaves all
  services known, a registered service is found.
* Logger: timers that fire while another run awaits a request, failing requests.
  *Correct*: nothing lost inside, sent in order and once, `flush` waits for it.
* Release: half-finished runs that are repeated, a human who approves stages in any
  order, a limit on the jobs of a run that is finalized. *Correct*: a release is one
  tested artifact; recovery is possible unless runs were repeated needlessly.

The hazards, each at its source line with the properties that watch it, are listed
in `PROJECT.json`.

## Modules

| Module | Models |
|---|---|
| `LeaseLock` | abstract: a lock that at most one client owns, and that is given up before another gets it |
| `DocumentDatabaseMutex` | the mutex over its three backends |
| `DocumentDatabaseMutex_proofs` | its theorems |
| `JobProcessing` | one job assignment between API, table, messages, worker and client |
| `JobProcessing_proofs` | its theorems |
| `ResourceManager` | overlapping calls on one resource manager |
| `ResourceManager_proofs` | its theorems |
| `ResourceStore` | abstract: what a collection of resources promises to its callers |
| `Service` | clients and a service over a network: `HttpClient` and `ApiController` composed |
| `HttpClient` | requests with retries, and the credentials that concurrent callers share |
| `ApiController` | middleware, routing and the default routes |
| `DocumentTable` | a table over DynamoDB, Cosmos DB or Firestore |
| `Deployment` | what a service and its callers are configured with |
| `AwsV4` | signatures of requests for AWS |
| `QueryFilters` | filter expressions in the three query languages |
| `ApiAdapters` | from the event of a cloud function to the request |
| `Service_proofs` | the theorems of `Service` about writes, access and signatures |
| `ServiceReads_proofs` | the theorems of `Service` about what callers read: pages of queries and created resources |
| `LeastElement` | what other proofs have of induction and recursion |
| `CloudWatchLogger` | the logger provider |
| `CloudWatchLogger_proofs` | its theorems |
| `Release` | staging, approval and finalization of one version |
| `Release_proofs` | its theorems |
| `MC...` | instances for TLC |

General conventions: JavaScript runs on one event loop, so what happens between two
awaits is one action, and each await separates two. An awaited request and its effect
at the server are one action where nothing can tell the difference; where an answer
can be lost, there is a second alternative in which the effect happened and the caller
sees an error. Names of the variables are those of the fields where they exist.

### DocumentDatabaseMutex

`store` is the record; `version` and `hasLock` are the fields of each object; `pc` is
the await of each caller. `Call`, `Put`, `GetLockData`, `Compare`, `Judge`,
`DeleteStale`, `Wake`, `Unlock`, `Release` follow `lock`, `tryLock` and `unlock` of
`document-database-mutex.ts` from await to await. The backends differ in the version:
Cosmos DB and Firestore make a new one at every write (`FreshVersions = TRUE`),
DynamoDB uses one random number per object (`FALSE`). An upsert of Cosmos DB with a
null `IfMatch` is modelled as creation if absent.

There is one true time and a constant `Skew` for the clock of each object; records
carry their age instead of a timestamp, capped at `AgeCap`, beyond which ages cannot
be told apart, so that time is unbounded. `Tick` lets time pass. A caller is in its
lease (`InLease`) when it holds the lock and its put is younger than `LockTimeout`
less the largest difference of clocks. The refinement mapping `Owner` is that caller.

Crashes leave what the database has committed. `Tamper` (only in `TamperedSpec`)
stands for another writer of the table that makes the record malformed.

### JobProcessing

`record` is the status in the table, `create`, `cancel` and `delete` the progress of
requests, `queue` the messages, `at` and `doing` the await and the update of each
execution. One update is `Get`, `Put`, `Notify`, as in
`ProcessJobAssignmentHelper`. `NotifyFails` takes the error path of
`ProcessJobAssignmentOperation.execute`. Profile handlers and `ProcessCancel` belong
to the services that use the library and are external: a handler reports, completes,
rejects or throws. A failing table in the error path itself is left out, and so is
that an update which was read before a deletion writes the record again; the code
documents no promise about it.

### ResourceManager

`serviceClients` is the shared list. A call is `Call`, then, if it initialises,
`ServicesAnswer` or `ServicesFail` and `Ready`, then for a query one `EndpointAnswer` or
`EndpointFail` per endpoint, or `PostAnswer` for a create. The iterator of JavaScript
over a live array is the operator `Advance`: it continues after its position in the list
as it is by then. `init` skips a service of which no client can be made (`Malformed`)
with a warning, so that "every service" below means every other one. `get`, `update`,
`delete`, `sendNotification` and `getHttpClient` choose an endpoint by URL in the same
way and are one operation. `whole` is a history variable: the call used the list when it
held every registered service, and nobody began to initialise it since.

### Service and its parts

`Service` composes a process with several callers and an API:

    caller --Send--> execution --Execute--> table
      ^                  |
      +---Answered-------+   Respond, GatewayFails, ConnectionBreaks

*HttpClient*: `call` holds, per caller, the await it is at, the attempt, the headers
of the request and the pause; `credential` what the authenticators hold; `outcome` the
answers to finished requests and `listing` the pages of the current query. `Call`
(a request begins, headers are copied), `Fetch`, `SendHeld`, `SendFetched`, `Answered`,
`Wake`, `Disconnect` follow `HttpClient.request` and `sign` from await to await. A unit
of time is the retry interval; `ClientAge` lets it pass. The Location of a created
resource is the target of later requests (identifier 0 of a program). Signing is inside
the `try` of an attempt: when the provider of a credential fails with a status that is
retried (404, 5xx), the attempt is (`ProviderFails`); any other failure of it, and a
function key that is not set (`SignFails`), reject the request.

*ApiController*: an execution in `executions` is one request in the service, `at` the
await it is at. `HandleRequest` is the pipeline up to the first await, `Handle` what
follows each of them, `Throws` its failure. The middleware looks a key up as a property
of the parsed configuration, so that it also knows the names that every JavaScript
object inherits (`Inherited`, like `constructor`): such a key has no rules of its own
and gets what `valid-auth` permits. `ConfigAllowsAccess` is the loop over the rules;
`Grants` and `Entries` of `Service` are the reference, without a loop, of what the first
rule that matches grants, and `AccessExact` compares executions with it. `effects` is a
history variable: the writes, each with its request. A gateway may answer for an
execution that goes on (it becomes an orphan) or was cut off, which the client cannot
tell apart.

*DocumentTable*: `lagging` has, per document, the overwritten values that reads still
return and for how long; a query reads each document like that. Pages are modelled per
database: DynamoDB cuts a page before it filters and goes on after the last document of
it; Cosmos DB has a single page. Firestore answers with the first page and, if there is a
document after it, with a token; but it refuses the request with that token, as
`build-firestore-query.ts` gives `startAfter` a text and the query no order
(`FirestoreThrows`). The service answers 500, the client repeats the request in vain, and
a listing over Firestore that needs a second page does not succeed. No text of the
repository says that it does, so it is no finding; `PagesOnce` and `PagesComplete` say
nothing of such a listing, except of its first page.

*Deployment* is the configuration of a behaviour: database, authentication, programs
of the callers. It is a variable that never changes, so that one run checks many.

*QueryFilters* and *ApiAdapters* are functions without state. Their inputs are the
`sample` of a deployment (a filter with documents, a query string with documents, an event
with an API and a route prefix), so that `FiltersAgree` and `RequestsAgree` are
invariants of `Service`. `Satisfies` is the reference definition of filters.

`RequestsAgree` compares what the three adapters make of a call, after the controller has
parsed the body. The conversions differ, and each is modelled as it is:

| | API Gateway, REST | API Gateway, HTTP | Azure Functions | Google Cloud |
|---|---|---|---|---|
| repeated parameter | last value | values joined by commas | last value | values joined by commas |
| no body, or an empty one | null | null | the empty text for POST, PUT, PATCH | what the body parser of express leaves: nothing, or `{}` |
| dates in a JSON body | dates | dates | dates | texts, as express has parsed it already |
| path | with or without stage | the stage is cut off | the route prefix is cut off | as it is |

The first two columns are what AWS puts into its events, which the adapter hands on.
`SameCall` therefore is: same method and path; same parameters, and the same values of
those that are given once; same body, unless it is empty or has dates. Azure Functions
fail, with an error that nobody handles, exactly for a route prefix that is not a
`ProperPrefix`: one that ends with a slash (`subtr` is no function of a text) or begins
with two (the host mounts the functions without them). A failure is never agreement.

`Expressions[n]` are the filter expressions that nest at most `n` deep, built like the
types of `filter.ts`; `Depth`, at least one, bounds the nesting. What a database makes
of an expression is written as a recursion over the depth, like the builders that call
themselves for the children of a group. DynamoDB refuses the operator `!=` and, like
Cosmos DB, a text with nothing in the place of a nested group without children;
Firestore refuses `!=` and `||`. An operator compares integers, a document has a
property or not. Not modelled are properties that are named like a placeholder of
`build-filter-expression.ts` (`#r`, `#a1`). `Trim` is what the host of Azure Functions
does to a route prefix before it mounts the functions; the adapter reads the same prefix
from `host.json` as it is.

### CloudWatchLogger

`logEvents`, `processing`, `logGroupVerified`, `logStreamCreated` are the fields.
`Timer` starts a run; `Describe`, `CreateLogGroup`, `CreateLogStream` and
`PutLogEvents` are its requests, `Loop` what follows each of them, `SetupFails` the
failure of a request before the first batch. A message is a sequence of UTF-16 code
units, told apart by their bytes in UTF-8 only; `Parts` cuts it as the loop around
`byteSubString` does, which counts seven bytes for a character of four, as it visits
both halves, and may cut between them. Cut halves arrive as replacement characters: no
text of the repository says that they do not, so no property is about it. `group` and
`stream` are what exists at CloudWatch: a creation whose answer is lost took effect, and
the next run finds the group, but creates the stream again and is refused (`Refused`).
`setupFailed` and
`mark` are history variables.

### Release

`commit`, `build`, `dryRun`, `conclusion` describe the runs of the workflow *Stage
release*; `job` is the job that runs, with its local variables; `pending` and
`published` are npm, `tag` and `release` GitHub. The concurrency group allows one job
at a time, but `Approve`, `Reject` (the maintainer), `Propagate` (npm metadata) and
`PushTag` (anybody who may push tags) interleave with its requests. An artifact is its
source commit and the build that made it; two builds of a commit differ in bytes.

`staging-run.cjs` refuses to finalize a run with more than 100 job attempts, counted over
all its attempts. `jobs` counts them: `AllJobs` for the first attempt and for "Re-run all
jobs", `FailedJobs` for "Re-run failed jobs"; beyond `MaxJobs` the count stops, and
`Validated` fails for good. `hasty` are the runs that were repeated in full, or
attempted while a stage waited for the maintainer or a publication for its propagation.
Assumed of npm and GitHub: a published version is never replaced, a version that is
pending or published is not staged again, tags are not moved, and nobody creates a
GitHub release by hand.

## Runs and bounds

| Run | Checks | Instance, and why it is enough |
|---|---|---|
| `mutex_fresh` | types, `LeaseExclusion`, `LeaseOwnsRecord`, `MutexInv`, `OnlyStaleRemoved`, refinement of `LeaseLock` | two objects in two processes, clocks one apart, timeout 2, two faults: a stale record can be judged, replaced and judged again by a late caller. Symmetric versions. The theorems cover all other sizes |
| `mutex_progress` | `Progress` | DynamoDB, a fault, a tampered record, answers within one tick; a holder may stay in its critical section for ever |
| `mutex_dynamodb` | `OnlyStaleRemoved`, violated | two objects without faults or skew |
| `job_progress` | types, `WorkerFindsJob`, `NotificationsTruthful`, `HandlerAfterRunning`, `EndsFinal` | two executions, a cancel, a delete, and any two of a duplicate, crash, report and lost call: every two of them can overlap. The theorems cover all other sizes of the safety properties |
| `job_final` | `FinalIsFinal`, violated | one worker, one duplicate |
| `logger` | types, order, completeness, size of requests, `FlushComplete`, `AllSentOrSetupFailed`, `FlushEnds` | three events, one of which is cut within a character and one between two as well, requests that take two or three of the chunks, two overlapping runs, two failures, of which one that creates the group or stream may have taken effect |
| `logger_stuck` | `AllSent`, violated | two events, one failure |
| `client` | types, `EndpointsOnce`, `QueryComplete`, `InitComplete` | three overlapping calls of any operation, repeated without limit; a registry with two services that share an endpoint and one of which no client can be made, one failure: three are needed for two `init()` under one query |
| `client_init` | `RegisteredServiceFound`, violated | two calls, no failure |
| `service` | types, `StoreSpec`, `CreatedFound`, `SignedAnew`, `AccessExact`, `PagesComplete`, `PagesOnce`, `CallsEnd`; `FiltersAgree`, `RequestsAgree` | two callers of up to two requests each, three attempts, lag 2, one failure anywhere; deployments with API keys, one of them an inherited name, tokens, AWS signatures, a hook, pages over each database while documents come and go (over Firestore the first one, and the refusal of the second), two deletions of one document, and every kind of refusal. Three attempts are the least that outlast a lag of two, in which one attempt may be lost and another one read an old value. Samples: all criteria over two properties, groups of up to two of them and of these, which is `Depth = 2`, the least in which groups are nested, and query strings; events with bodies that are empty, a text, JSON, and JSON with dates, without parameters and with one given once and one given twice, over paths, stages and prefixes of one segment and of two. The theorems cover the other samples |
| `http_resign` | `SignedAnew`, violated | AWS signatures, one document, a tracker |
| `release` | types, `ReleaseSound`, `ReleaseFromStagedRun`, `ReleaseInv`, `StageTruthful`, `Recovers` | two packages, two runs, two builds, one failure, one rejection, one foreign tag: two builds and two packages are what a mixed release takes. `MaxJobs = 3` with two jobs per attempt (`prepare` and `stage`) stands for the limit of 100: an attempt and the repetition of its failed job stay within it, one more of either kind does not. With `BeyondMax = FALSE` a run that is beyond the limit, which is never finalized again, is not repeated. The theorems cover the rest, unlimited repetition included |

Every property of a passing run has a mutant in `PROJECT.json`: a definition changed
as a plausible bug would change it, under which the run fails. The changed forms are
the operators with a suffix (`Stale_OrEqual`, `Loop_OneBatch`) next to the originals.

Deadlock is checked where the system cannot stop. `logger` and `release` may stop:
after the last event, and when every run ended and conflicts remain.

## Fairness

* Mutex: each caller continues after its awaits, and time passes. `Tick` waits for
  requests that are older than `ResponseTime`, a bound of TCP and SDK timeouts that
  `Progress` needs; safety does not (it is 9, out of reach, in the other runs).
  Callers may crash, never unlock or stay in the critical section. Only *somebody*
  is promised the lock: `lock()` retries after a sleep, and a single caller may starve.
* Jobs: the API carries on with what it began, messages are delivered, executions go on
  unless they are cut off, and a profile handler ends. New requests are not fair.
* Service: as long as a caller, an execution or time can go on, something does (weak
  fairness of `Ongoing`): event loops run what is ready, requests are answered or their
  connection breaks, and pauses end. This is weaker than fairness of each caller; it is
  enough for `CallsEnd` because attempts, pages and programs are finite. Failures are not
  fair.
* Logger: timers fire, requests are answered, `flush` polls every 10 ms. Logging an
  event and calling `flush` are not fair, and neither is any failure.
* Release: jobs go on; the maintainer follows "Recovering an interrupted release" in
  `src/README.md`: approves what is staged, re-runs failed jobs, finalizes. These are
  enabled only between jobs, hence strong fairness for the last two. `Recovers` promises a
  release, a `Conflict`, or that the run is `Exhausted`: beyond the limit of jobs, but only
  for a run that is `hasty`. A maintainer who settles what is staged before repeating, and
  repeats failed jobs only, is not stopped by the limit here.

## Proofs

`tlapm` checks every theorem to the last leaf.

**DocumentDatabaseMutex_proofs**: `TypeCorrect` for all backends; for backends with
fresh versions (assumed as `FreshVersions`) and one caller per object (`SingleCaller`;
two overlapping `lock()` calls of one object would both return): `StaleRemoval`,
`MutexInvariant`, `LeaseOwnership`, `MutualExclusion`, and `ImplementsLeaseLock`, the
refinement of `LeaseLock`. For any number of objects and callers, any timeout, skew
and number of faults.

Exclusion is not inductive: nothing in it says why an unlock or a stale delete of
another caller cannot remove the record. `MutexInv` adds the two reasons.
`VersionInv` bounds where a version may occur (a version that another object wrote is
never this object's, and a record that was read before is either still there or its
version is gone for good), so that a conditional delete hits only what was judged;
`LeaseInv` says that a caller within its lease finds its own record, with its own age,
in the database, so that nobody judges it stale. Two callers in their lease then own
the same record, hence are the same.

**Release_proofs**: `ReleaseInvariant`, and from it `ReleaseTypeCorrect`,
`ReleasesAreSound`, `ReleasesWereStaged`, and the action property
`StagingIsTruthful`; for any packages, runs, commits, builds and bounds.
`ReleaseSound` is not inductive, as it says nothing of a job between its checks and
the request that creates the release. `ReleaseInv` says how far each job has come:
`StagingInv` (what the preflight found is published, what lies behind the loop is
staged, published or rejected) and `FinalizingInv` (packages behind the loop are
published from the artifact, later all of them, and the tag is the commit's).
`Monotone` is the lemma that makes this stable against every other actor.

**JobProcessing_proofs**: `JobInvariant`, and from it `JobTypeCorrect`, `WorkerFinds`,
`NotificationsAreTruthful`, `HandlersRunAfterRunning`; for any number of executions,
requests and failures. `JobInv` says what each await stands for: an execution that
writes or notifies has read the job assignment (`ReadInv`), which exists from its
creation until a deletion (`StoredInv`); what is about to be notified was written
(`WrittenInv`); an execution past its start has written and notified Running
(`StartedInv`). None of it depends on the status that is read, which is why duplicates
and late cancels do no harm to these properties, though they do to `FinalIsFinal`.

**ResourceManager_proofs**: `ManagerInvariant`, and from it `ManagerTypeCorrect`,
`EndpointsAreAskedOnce`, `QueriesAreComplete`, `InitsAreComplete`; for any services that
share endpoints, any number of calls and failures. `EndpointsOnce` needs that the results
are those of `usedEndpoints`, without the awaited one (`QueryOk`); the completeness of a
query needs that everything in the list before the position of the iterator was asked,
as long as the list is whole (`WholeOk`); and that the list stays bounded needs a count
of the calls that still may fill it (`ListInv`). The recursive functions over lists
(`Discovered`, `Advance`) are unfolded with the least number at which a claim fails,
which exists by `LeastElement`.

**Service_proofs**: `ServiceInvariant`, and from it

* `ServiceIsStore`: `Service` implements `ResourceStore`, with the table for the resources
  and the answers for the answers; every step is a write, the end of a request, or a
  stutter;
* `AccessIsExact`: a secured service answers and writes exactly for the requests that the
  configuration grants, where what it grants is said by `Grants` and `Entries`, which name
  the first rule that matches. `LoopDecides` and `LoopGrants` show that the loop over the
  rules decides by that rule, for any rules, and `RulesMean` that the lookup of the key and
  the three entries together are `Entries`;
* `AttemptsAreSignedAnew`, where no caller that signs by AWS4 has a tracker
  (`Untracked`; `http_resign` shows that this is needed);

for any callers, programs, documents, databases, rules and keys, any number of attempts
and failures and any lag, under the two assumptions of the module: `ServiceAssumption`
(reads lag for fewer units than there are attempts; only `CreatedFound` needs it) and
`DeploymentsAssumption` (programs are sequences of requests, which write to documents of
the table or to what they created, and a secured service is called with API keys under
whose permissions, listed in `Permitted`, are what `Grants` says). The identifiers of a
table are a finite set (`TableAssumption`), as a page is counted.

That a success is a write does not follow from what the store promises: an answer
travels, its caller repeats requests, and executions that it no longer waits for go on
writing. `ServiceInv` therefore relates three things. `ClientInv`: what a caller was
answered, and that its creates succeeded while it goes on, so that later requests have a
target. `ExecutionsInv`: each execution belongs to a request of its caller, with its
target; its answer is truthful about the writes; it passed the middleware if it is
past it; and a caller awaits at most one. `AttemptsInv`: the writes of a create and the
executions that still may write are together no more than the attempts made. There is a
lemma per step of `Next`, on which the theorems rest.

One theorem is about the adapters in the same module, under `SamplesAssumption`: what a
sample is of (only POST, PUT and PATCH have a body; a REST API has a stage that is not
`$default`; express leaves nothing or `{}` for an empty body).

* `PlatformsAgree`: the three adapters make the same request of the same call, in the sense
  of `SameCall`, and Azure Functions fail exactly for improper prefixes. API Gateway drops
  the stage from the path, which is `SubstringDrops`. For Azure Functions, `PrefixIsMounted`
  says that a proper prefix is what the host put in front of the path, so that the adapter
  drops just this (`PrefixOfConcat`), and `DoubledIsRefused` that one with two slashes in
  front is not a prefix of what the host mounts.

Paths are sequences over `Characters`, the strings and the slash, as the provers
know of no string that it is one.

**ServiceReads_proofs**: `ReadsInvariant`, and from it

* `ServiceTypes`, the types of clients, executions and tables;
* `CreatedIsFound`: a caller never gets 404 for a resource that it created and nobody
  deleted, whatever the database, as the retries on 404 outlast the lag of the reads;
* `PagesDoNotRepeat` and `PagesAreComplete`, an action property: paging through a query,
  with repeated attempts, lists no document twice and leaves out none that matched it
  throughout: over any number of pages of DynamoDB, and over the one page of Cosmos DB
  and Firestore, of which a second one is never answered;

under the same assumptions. `FiltersAreExact`, about the filters of the queries, is at
the end of the section. None of the other four is inductive. A listing that has what was due
when it ends (`PagesComplete`) says nothing of it half-way, and the tokens and pages are
on their way in executions and answers when a caller has moved on. `ReadsInv` adds to
`ServiceInv`:

* `CallerPages`: the pages that a caller has are up to its token, what is due is among
  them or beyond the token, and whatever a read may see of a document that is due
  matches the filter (`DueOk`: the table as well as its older versions).
* `ExecutionPages`: an execution that its caller awaits has the token of that caller, and
  the page that it answers with begins beyond this token, ends at the new one, and leaves
  out nothing that is due and comes before that. Firestore asks twice for its first page, as
  the second query tells whether that was the last; `TakenOk` is what is known between the
  two. It never has a token there, as a request with one is refused before.
  `PageIs` is the lemma about the query itself: what a page leaves out comes after all of
  it, and only when it is full. It counts predecessors by `FS_Subset` and
  `FS_RemoveElement`, and takes first and last elements by `LeastElement`.
* `CallerLag` and `ExecutionLag`: an older version without the document, which reads may
  still see, has at most `Lag` units left less those that have passed since the request
  began, one per attempt. When the last attempt is handled there is none left, because
  `Lag < MaxAttempts`. `AnswersOk` keeps what this says of the answers.

There is a lemma per step again; those of the clients go through `CallerMoves` (one
caller moves, and its executions are accounted for), those of the service through
`ServesReads` (`listing` is pruned by what is written).

The last section is about filters. `FiltersAreAnswered` says of every expression and any
documents that each of the three databases answers with the documents that satisfy the
expression or refuses it, and `FiltersAreExact` that this is so in every deployment and
that the filter of a query string is refused by none. It is an induction over data,
along the depth, in three steps. `ExpressionsAre`, `SatisfiesIs`, `ValueIs` and
`NodesAre`: each recursive definition has a solution, so that a level can be unfolded
into the one below it (`HoldsLevel`, `ValueLevel`, `NodesLevel`). `TextIsExact`: a text
that parses has the value of the expression, since a group without children, which `or`
and the reference tell differently, does not parse. `WheresAreExact`: without `||` and
`!=`, all criteria of an expression together are the expression, however its groups
nest. The induction itself is `Induction` of `LeastElement`, over the set of the depths
for which the claim holds.

**CloudWatchLogger_proofs**: `LoggerInvariant`, and from it `LoggerTypes`,
`LoggerKeepsText`, `LoggerKeepsOrder`, `LoggerRequestsFit` and `LoggerFlushes`; for
messages of any length and number, any limits, any number of overlapping runs, timers
and calls of `flush()`, and any number of failures. `ConstantsAssumption` says what
this takes: half of a character comes with its other half, the limit of a message
admits a character of four bytes, and that of a request admits one message and its
overhead. The real limits (262118 bytes and 1048576) do.

No property of the runs is inductive here: that no text is lost says nothing of how the
chunks of a run were cut. `LoggerInv` says that one run goes on at a time, that it has a
request in hand, which fits, only while it awaits that request (`RunsInv`), and that
for this run, or for any when none goes on, what was handed to CloudWatch, followed by
what the run holds and by the chunks that the queue will be cut into, is the chunks of
everything logged; and that what was stored, followed by the same, is in order
(`Conserved`). So a step only moves the border between the parts, and a failed request
removes a stretch from the second sequence only.

The rest is about data, for which there are lemmas. `PartsAre`: the recursive
definition of `Parts` has a solution, whose chunks are not empty, are within the limit,
and are adjacent from the first code unit to the last. `TextKept`: what was cut gives the
text back. `BatchSplits`: the loop that fills a request takes a prefix that is not empty,
within the limit. `Utf8Fits`: a chunk is never longer in UTF-8 than the bytes that
`byteSubString` counted for it, as a cut half is counted with at least three. Induction
over numbers and over sequences is from `LeastElement`: the least number outside the set
of those for which a claim holds.

**Only model-checked**: all liveness (`Progress`, `EndsFinal`, `AllSentOrSetupFailed`,
`FlushEnds`, `Recovers`, `CallsEnd`), as fairness and ENABLED are beyond the prover. Every
invariant, action property and refinement that a passing run checks has a theorem.

## Findings

Runs that TLC refutes, each against a sentence of the repository:

* `mutex_dynamodb`: with one version per object, a late delete of an object's old,
  stale record removes its new one.
* `job_final`: a message delivered twice reopens a job assignment in a final state; a
  failing notification or a late cancel changes one as well.
* `logger_stuck`: a failure before the first batch leaves events in the queue with no
  timer to try again.
* `client_init`: a call during the first `init()`, or after a failed one, takes the
  list with the registry alone for complete.
* `http_resign`: the headers of a request are copied once before its attempts, and
  the AWS signer writes into the copy, so that a repeated attempt signs the
  Authorization header of the first one and is refused. The comment above the copy
  (`src/base/client/lib/http/http-client.ts:136`) says that it lets the signer run
  several times.

## What is not modelled

* Data: payloads, texts, formatting, dates, encryption, URLs below path segments. The
  content of a document is one of two values in `Service`.
* Storage locators and proxies, secrets providers, other loggers: one request per call,
  no state that outlives it. Event rules: a single call of EventBridge without conditions
  under the mutex, so that two callers are kept apart by its lease alone, which is
  `LeaseExclusion`.
* Tables: `customQuery`, sorting by an index, conversion of dates, the cached
  descriptions of DynamoDB tables. `withRetry` of Cosmos DB is modelled as it runs: it
  does not await what it returns, hence never retries, and a throttled request is an
  error that only the HTTP client of the caller repeats. The sort order of Firestore, which
  is not handed on, is ascending. Queries of Cosmos DB have a path.
* API: `onStarted` hooks, custom queries, several collections in one controller, and the
  fields that the routes set (identifiers, dates). `onCompleted` is one call that may
  fail, of the create route.
* Client: `ResourceManager.query` asks for one page, the paging of `Service` is a caller
  that follows the tokens. Registration of authenticators is constant; the token
  providers of Azure and Google Cloud call their SDKs. A token may expire between the
  signature and its check at the gateway; such an attempt is refused, and `SignedAnew` is
  not about it. The canonical form of header names, which `buildCanonicalHeaders` sorts
  before it lowers their case, is not modelled, nor is `AwsV4PresignedUrlGenerator`: one
  conversion without state, of whose result only AWS can say whether it is accepted.
* The sanity check of the mutex deletes without a condition, so exclusion is not
  claimed on a table that others write to; only progress is checked there.
* A table that answers "not found" for more than 30 seconds after an insertion
  (the helper retries for that long).
* Adapters: headers and responses.
* Packing and testing of tarballs by `prepare`, `publish-local`, artifact expiry.

## Plan

Done: the five components with state (mutex, jobs, resource manager, logger, release),
the composition of client and API, the functions over data, and the proofs
above. Left:

1. Event rules as a client of the mutex, to say how long the switching of a rule may take
   under a given lease.
