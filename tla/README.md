# A TLA+ model of scheduler-service

scheduler-service keeps cron jobs in a SQL table and runs each of them by a
dynamic gRPC call.  Several replicas run side by side (two in
`src/deployments/kubernetes.yaml`); they share the database and Redis and know
nothing of each other.  These modules model what the replicas do to the shared
state, step by step, check it with TLC on small instances and prove its
safety properties with TLAPS for all instances.

Contents: [the system](#the-system) - [the modules](#the-modules) - [the
runs](#the-runs) - [bounds and fairness](#bounds-and-fairness) - [the
proofs](#the-proofs) - [disagreements](#where-code-and-documentation-disagree)
- [not modelled](#what-is-not-modelled) - [plan](#plan).

## The system

| Component | State | Operations | Interaction |
|---|---|---|---|
| Job management, `internal/job/service.go` Create, Update, Delete | rows of `scheduled_jobs`, each with an optimistic-lock `version` | read, authorize, validate, one transaction, signal, operation log | signals the runtime of its own replica over a channel of capacity one |
| Job execution, `service.go` Trigger, ExecuteScheduled | rows of `job_executions`; one Redis key `scheduler:job:<id>` per job | read and check, lock, insert a running row, invoke, record the outcome, unlock, operation log | reads what job management writes; called by the HTTP/gRPC transports and by the cron runner |
| Scheduler runtime, `runtime.go` | the entries of the replica's cron runner | watch loop, reload, start, stop | lists the table; its entries call ExecuteScheduled with the row they captured |
| Execution cleaner, `cleanup.go` | none of its own | batches of select and soft delete | competes with the cleaners of other replicas and with FinishExecution |
| Idempotent requests, `transport/http/middleware.go` | one Redis record per key | begin, complete, fail | wraps the handlers |
| Outbound clients, `grpcclient`, `outbound` | a circuit breaker per upstream | retry, break, time out | carry the invocation of an execution |
| Transports, authentication, authorization, rate limiting | none | the middleware and interceptor chains | in front of job.Service |
| Configuration, `config` | one struct, from defaults, two files and the environment | layer, validate | read by every constructor |
| Application, `cmd/api`, `app` | connections and hooks of the process | construct, start, stop | constructs, starts and stops everything above |
| Health, migrations, observability | none that outlives a call | probe, migrate, record | called by the servers and at start |

What is hard: nothing is locked while a call runs except the job's Redis key,
so every row a call has read may have changed when it writes; the key has a
TTL and may outlive or, if the budget were wrong, be outlived by its holder;
commits may take effect and report an error; processes die between any two
steps; and the cron runner's entries are copies of the table that are replaced
wholesale while they are due.  `PROJECT.json` lists these hazards one by one
with the properties that cover them.

What makes each component correct:

* *execution*: one run of a job at a time; a manual run runs the version the
  caller named, a scheduled one the definition it was fired with; the answer
  and the execution row agree; no job is locked out for good;
* *lease*: the key outlives the run, without being renewed;
* *outbound call*: retries end with the run, have one effect, report what the
  upstream did, and one run does not open the breaker;
* *process*: it comes to listen only with what its features need; in production
  a caller without a key comes no farther than the probes, the metrics and the
  version; a configuration that is accepted starts; nothing is closed under its
  users, and every stop ends;
* *runtime*: every replica ends up with exactly the enabled jobs loaded;
  reloading does not disturb the schedule;
* *cleaner*: a row is deleted once, not before its time, and in the end;
* *requests*: one handler at a time and one effect per key, the stored response
  for its own caller only, and no key taken for ever;
* *management*: no lost update, a delete is final, only callers with a grant
  for the job's application write it, an acknowledged write is logged, and the
  scheduler of its replica overlooks it only if a listing of the table fails.

## The modules

| Module | Models | Composed of |
|---|---|---|
| `JobStore` | the `scheduled_jobs` table and the SQL on one row | - |
| `JobService` | Create, Update, Delete | `JobStore` |
| `ExecutionLedger` | abstract: what `job_executions` promises its readers | - |
| `JobExecution` | Trigger and ExecuteScheduled on several replicas | `JobStore`, refines `ExecutionLedger` |
| `ExecutionLease` | the time budget of one execution | - |
| `OutboundCall` | the invocation inside a run: breaker, retries, backoff | `ExecutionLease`, refines it |
| `SchedulerRuntime` | watch loop, reload, cron entries | `JobStore` |
| `ExecutionCleaner` | the cleaners | - |
| `RequestPipeline` | HTTP and gRPC chains, idempotent requests | - |
| `Configuration` | the layers of the settings and `Validate` | - |
| `Startup` | main and the constructors | `Configuration` |
| `Lifecycle` | start and stop hooks of one process | - |
| `Process` | a process from main to its exit | `Startup`, `Lifecycle` |
| `JobExecutionProofs`, `JobServiceProofs`, `SchedulerRuntimeProofs`, `ExecutionCleanerProofs`, `RequestPipelineProofs`, `LifecycleProofs` | theorems about the module they are named after | |
| `OutboundCallProofs` | theorems about `ExecutionLease` and `OutboundCall` | |
| `ProcessProofs` | theorems about `Startup` and `Process` | `LifecycleProofs` |
| `MC...` | symmetry sets for TLC | |

**JobStore.**  A row is version, status, deletion mark and an opaque
definition (everything that says what to call and when).  `CreateJob`,
`UpdateJob` and `DeleteJob` are the statements of `repository.go` when they
match a row.  Both the SQL of the service and the triggers of the PostgreSQL
migration add one to the version.

**JobService.**  One `Call` is one call of Create, Update or Delete.  It moves
through `read` (GetJob, authorizeScope, normalizeAndValidate), `write`
(Transactor.Within: committed, committed with an error, stale, or failed),
`signal`, `log` (finishOperation).  Which input is valid, and which lookups
fail, is left open.  Of the replica's runtime it has the part that the signal is
for: the watch loop takes the signal (`Receive`), then the table is listed
(`List`, also at the start and for a tick) or the listing fails (`ListFails`), which is only
logged, and the signal is gone.  `past` and `wrote` are history variables.

**JobExecution.**  One `Attempt` is one call of Trigger or ExecuteScheduled and
also names the execution row it may insert.  Its program counter follows the
code:

| pc | code | action |
|---|---|---|
| new | cron entry due, request arrives | `Fire`, `Trigger` |
| load | GetJob, access check, version check | `Load` |
| lock | distlock.TryWithLock | `TryLock` |
| insert | the first transaction (`CreateManualExecution` checks the row again, `CreateExecution` does not) | `Insert` |
| send, wait | Invoker.Invoke | `Invoke`, `Answer` |
| finish | the second transaction, under its own five seconds | `FinishExecution` |
| unlock | the key is deleted if it holds the call's token | `Unlock` |
| log | finishOperation (Trigger only) | `FinishOperation` |

`WriteJob`, `Reload`, `Clean`, `Expire`, `Tick` and `Crash` are what the other
components and the world do meanwhile.  `Expire` is the one place where this
module relies on time: a key does not expire while its holder is between
insert and finish.  `ExecutionLease` discharges that assumption.  `request`,
`fired`, `clock` and the field `base` exist for the properties only.  The
retries of the gRPC client repeat one request with one idempotency key (see
`OutboundCall`); `request` is what they were all built from.

**ExecutionLedger** says what a reader of the execution table may count on: a
row appears as running, gets one final status and disappears only after that,
and only the holder of the job's lock writes the first two.  The refinement
maps the lock to `holder` and each row to what GetExecution shows.

**ExecutionLease** has an explicit clock.  A call's context ends `Timeout` after
it starts, the key's TTL is `Timeout + Slack` from when it is acquired,
FinishExecution has `FinishTimeout`, and the process notices the end of a
context at most `Lag` late.  The property needs `FinishTimeout + 2 * Lag <
Slack`; with the 5 s and 30 s of the code that allows a Lag of 12.4 s.

**OutboundCall** puts the interceptors of `grpcclient.Dial` into the run of
ExecutionLease, in the order in which Dial chains them: deadline, key, breaker,
retries.  `step` says where an invocation is (`sent`, `backoff`), `Send` is the
first attempt, `Retry` a further one, `Finish` and `CutShort` the two ways in
which Invoke returns.  An attempt may fail before or after the upstream has
acted.  ExecutionLease lets a run end no later than `Lag` after its deadline;
here that is not assumed of the invocation but of what each step waits for: an
attempt for the end of its context, a backoff for its timer or its context
(`Overdue`).  `ImplementsLease` says that nothing else happens to the variables of
ExecutionLease.  The breaker is simplified: the code has one per upstream and
replica, which all calls of that replica share; here each `Attempt` has its own, which
its successive runs share, as if each were on a replica of its own.  What gobreaker
makes of an excluded result (one that is neither a success nor a failure) is left
open; `strikes` and `failed` count the failures, the second one by runs, as a history
variable.  OneEffect speaks of an
upstream that does not act twice under one idempotency key: what is checked is
that all attempts carry the same one, and that no lost answer turns into
success.

**SchedulerRuntime** counts time in ticks.  An entry is a countdown: a cron
definition is due when the clock is a multiple of `Period`, an `@every`
definition `Delay` ticks after it was added.  The signal channel, the ticker's
channel, the two halves of a reload (list, swap) and the four phases of a
replica's life are explicit.  A definition that AddFunc rejects though the
service accepts it (an expression with a `CRON_TZ=` of its own) is a
`PoisonDef`.

**ExecutionCleaner** has one process per replica that selects and updates in
one transaction under READ COMMITTED: other transactions may commit between
its two statements, and the UPDATE evaluates its WHERE clause again.  There is one
clock: `now` stands for the clocks of the replica that wrote `finished_at` and of the
cleaner, so skew between them is outside RetentionRespected.

**RequestPipeline.**  A request carries a transport, a key and a payload
(method, route, body) and walks the chain of its transport, one action per
middleware or interceptor, which share a definition where the two transports do
the same; `HTTPChain` and `GRPCChain` are the orders in which `NewServer`
installs them.  Which credentials verify, which permissions are granted and
what the limiter counts is left open.  `Begin` and `Persist` are the two halves
of IdempotencyExecution, before and after `c.Next()`; `Commit`, `Return`
(`ReturnStatus` over gRPC) and `Recovery` (`recoveryInterceptor`) are what a
handler may do in between, in particular commit and still answer with an error.
The record in Redis is the platform library's: free, processing, completed or
failed, with a fingerprint, an owner and a TTL.  An HTTP request ends at its
timeout plus what Trigger still does under a context of its own; a gRPC call
has no limit, so its record may expire under it.  Of the caller the
fingerprint has the ID only; `subject` stands for it.  `forgotten` is a history
variable.

**Lifecycle.**  `Hooks` is the order in which the modules of `app.New` run their
constructors and so append their hooks; `started` is fx's count of hooks that
are started and not stopped.  Connections are opened by the constructors, before
any hook, and closed by stop hooks; the runtime, the cleaner and the servers
admit work when they start (`admits`, `loop`) and, when they stop, admit no more
and wait (`waiting`).  What fx does is external: hooks stop in the opposite
order, the context is looked at before each of them, a failed start is rolled
back under the context of the start, and `Run` returns when the context ends
even if a hook hangs.

**Configuration** reduces the struct to the set of switches that are on: what is
enabled, and which addresses, keys and files are given.  `Layered` is what the
defaults, `config.yaml` and the file of the profile say, with a few switches
turned by the deployment (`turned`: environment variables, or edited files).
`AppEnv` is the value the production rules look at.  `Validate` has every rule
that relates two switches, or a switch and the profile.

**Startup** is main and fx's calls of the constructors.  `Refuse` is a
constructor that objects to the configuration or to what it is handed; `Fail` is
one that cannot read a file or reach a service.  Either ends the process.  The
bodies of constructors that only allocate are not told apart.  `NoRows` is the
first reload of a runtime without a database.  `HTTPRoutes`, `GRPCServices`, `Open`,
`Tokens` and `Opens` are what the two `NewServer` and `Verify` make of the settings:
which routes there are and which key each of them wants, with the shipped patterns
of `auth.skip_*` and any patterns of `auth.psk`; `Reach` is what a caller with
certain keys gets to.  `ProductionIsGuarded` says what this guards in production, and
its comment what it does not: the HTTP listener is plain in every profile, the probes,
`/metrics` and `/version` are open, a PSK replaces a token where its patterns match,
and an upstream that gets no credentials may be called without TLS.

**Process** is Startup followed by Lifecycle.  Which components are switched
off no longer matters once the hooks run, because each hook of Lifecycle may also
find its component disabled; so `HandOver` forgets the settings.

## The runs

| Run | Checks | Shows |
|---|---|---|
| `execution_lock` | TypeOK, MutualExclusion, RefusedMeansNotRun, ReportMatchesRow, ImplementsLedger | two replicas, two calls, one job, two ticks: locking, answers and rows, through crashes, leaked keys and ambiguous commits |
| `execution_version` | ManualRunsPinnedVersion, ScheduledRunsFiredDefinition, EveryCallReturns, LockIsReleased | a call while its job is written up to four times; under fairness it returns and its lock becomes free |
| `lease` | LeaseCoversRun, OneEffect, ImplementsLease, TripTakesRuns | the time budget with the tightest margin, through retries and backoffs that may run into the deadline, lost answers and a breaker that opens |
| `runtime` | LocalChangeNoticed, CronStaysAligned, EventuallyLoaded, CronFires | signal, reload and schedule on a replica that starts, stops and crashes; it converges to the table and cron jobs keep firing |
| `cleaner` | DeletedOnce, RetentionRespected, EventuallyPurged, PassEnds | overlapping cleaners: nothing is deleted twice or early, nothing expired stays, no pass goes on for ever |
| `service` | TypeOK, ReplyIsStoredRow, DeleteIsFinal, RefusedMeansUnwritten, OnlyOwnersWrite, LogMatchesWrites, AcknowledgedIsNoticed | racing writes on one row, with different grants, crashes, ambiguous commits, and listings that race with them or fail |
| `pipeline` | TypeOK, OneHandlerPerKey, AtMostOnce, ReplayIsOwn, RefusedLeavesNoTrace, KeyIsFreed | two requests with one key or none: one handler per key, no second effect while the record lives, replays to the same caller only, refusals leave the key free, and no key is taken for ever |
| `lifecycle` | ResourcesOutliveUsers, OrderlyExit, ProductionIsGuarded, ServesEquipped, AcceptedStarts, StopEnds | one process from its configuration to its exit: what may listen, what production opens to whom, what accepted configurations lead to, nothing is closed under a user, an exit in time abandons nothing, every stop ends |
| `execution_stale`, `execution_tick`, `runtime_every`, `runtime_poison` | one property each, violated | see [below](#where-code-and-documentation-disagree) |

Every property of a passing run has a mutant: an operator commented `Mutation:`
next to the definition it would replace, a plausible bug under which TLC finds
the property violated in the same run.  Type invariants are checked where the
proofs use them or where a write could leave the type of a column; the other
modules define theirs for the reader.

## Bounds and fairness

*Bounds.*  `MaxVersion` (writes per job), `MaxWrites` (writes to the table),
`MaxTick` (cron ticks) and `MaxTime` are the only caps on counters.  Two calls
suffice to contend for a lock, and symmetric calls and replicas make a third
one only repeat the roles of the first two; a crashed holder and a successor
are both there.  `execution_version` has one call, because TryWithLock does not
wait and so another call cannot delay it; four versions let a job be created,
changed, disabled and enabled or deleted around it.  `service` starts from a
table that may already hold the job, so two calls are two racing writers, or a
create and a writer.  `runtime` has one replica: replicas meet only in the
table, and a write whose commit reports an error is, for the replica that did
not hear of it, what a write of another replica is.  Its cron period exceeds
the reload interval, so that entries are replaced before they are due.  In
`cleaner` three rows and a batch of two give full batches, partial ones and
batches of which another cleaner took a part; rows that finish at time 0
expire, later ones must stay.  `lease` runs to time 6, when
the key (2 + 4) that a first holder has leaked expires and a successor takes it;
three attempts with backoffs of one and two ticks, against a timeout of two, let
a backoff end before, with and after the deadline, and a threshold of two is one
that neither a single failed attempt nor a single run with all its retries may
reach.  `lifecycle` has
three units of work: one of each kind of server and a job, or several of one.
Its profiles are the four that have a file and one that has none, named by the
flag, the variable, both or neither.  A deployment gives nothing, the secrets
that the production file leaves open (also with credentials for the authorization
service), or an HTTP or gRPC upstream with credentials, and turns any two switches
more against that.  Two are enough to turn a feature and one of its demands apart, or
to trade TLS for allow_insecure, and both configurations of `Overlooked` are reached.
`pipeline` has two requests, a first one and a retry or a stranger with the
same key; its times are the smallest that satisfy `BudgetAssumption` (of
`RequestTimeout` and `Grace` only the sum matters), and results expire within
the run, so that keys are used again.  That assumption (the processing TTL
exceeds the time an HTTP request can take) holds for the defaults, 30 s against
10 s + 5 s + 2 s, but the configuration is not checked for it: with a longer
`request_timeout` two handlers may run under one key, which is what the mutant
of OneHandlerPerKey shows.

*Deadlock* is not checked: calls and replicas may all be finished or down, and
the counters stop at their bounds.

*Fairness.*  `JobExecution`: each step of a call is taken eventually, because
every query, Redis command and RPC runs under a context with a deadline (a
job's timeout, five seconds for the last transaction), and a key with a TTL
expires. Starting calls, crashing, cleaning and reloading are not fair.
`SchedulerRuntime`: goroutines run, time passes and replicas are started again
(weak fairness); the listing is strongly fair, since it is tried again every 30
seconds and a database that always fails cannot be converged to; so is firing,
because a reload may take an entry away for a moment again and again, and the
runner's `select` picks at random between its timer and a removal.
`ExecutionCleaner`: weak fairness for starting a pass, strong for its
statements, which may fail now and then but not always.  `RequestPipeline`:
some request moves on as long as one can, and time passes (weak fairness);
arrivals and crashes are not fair.  `Process`: fx runs the hooks, contexts
end and `Run` returns; work and loops need not end, and nothing is said of how
long a constructor takes.  `lease` checks safety only: that a run ends in time is
there a bound on the clock, not a promise of progress.

## The proofs

Every safety invariant and every action property that a passing run checks, and
both refinements, are theorems: they hold for all values of the constants that
satisfy the assumptions the modules name, and nothing else is assumed.  For each
module one *inductive invariant* is proved, `Init => Inv` and `Inv /\ [Next]_vars
=> Inv'`, and the properties follow from it.  Each action has a lemma, or a step
with a step per conjunct it can disturb; frame lemmas handle the others.

**`JobExecutionProofs`** (`StoreAssumption`, `ExecutionAssumption`): `Spec =>
[]IndInv` (`Invariance`), the five safety properties of `JobExecution` and `Spec =>
ImplementsLedger` (`LedgerRefined`).  None of the properties is inductive:

* mutual exclusion rests on `OwnerHoldsLock` (whoever is in the critical section
  holds the key), and that on `Expire` sparing critical holders;
* the agreement of answers and rows rests on `RowFollowsPC` and
  `ResultFollowsRow`: which of row, request and result exist at each point of
  the program;
* the properties on versions rest on `Known`: a copy of a job's row, wherever it
  is kept, is out of date or still equal to the row.  That is what makes a
  comparison of versions as good as a comparison of rows.

**`OutboundCallProofs`** (`LeaseAssumption`, `MarginAssumption`,
`PolicyAssumption`): `LeaseCoversRun` follows from `LeaseInv`, which says what a
phase implies about the clock, deadline and expiry: a call is at most
`FinishTimeout + 2 * Lag` past its deadline, its key lives `Slack` past it.
`ImplementsLease` is proved step by step: the clock ticks in a backoff only where
it would tick in a run, and of all steps of an invocation only its return
is visible.  So the lease also covers the real invocation, for every policy
(`CallLeaseCoversRun`).  `CallInv` carries the rest: all effects of a run are under
one key, and a breaker's strikes are those of different runs (`failed = strikes`),
from which `TripTakesRuns` follows for every threshold.

**`ExecutionCleanerProofs`** (`CleanerAssumption`): `DeletedOnce` is inductive
only together with what a row's version says about its past (`RunningIsKept` and
the property itself: an UPDATE that evaluates its WHERE clause again takes a row
from version 2 to 3 and nowhere else).  `RetentionRespected` needs `CutoffIsPast`:
a transaction's idea of now may be late and is never early.

**`JobServiceProofs`** (`StoreAssumption` and those of `JobService`): `ServiceInv`
follows a call from its request to its log entry.  `Effective` says what a write
that took effect has left in the table for ever: its row under the version after
the expected one, and a deleted row as the last one.  From it follow
`ReplyIsStoredRow` (no lost update) and `DeleteIsFinal`.  `Authorized` says that
what authorizeScope found still holds when the row is written; it does because a
row keeps its application.  `Progress` and `LoggedAtTheEnd` tie the program counter
to what is written, answered and logged; the other properties need both.
`AcknowledgedIsNoticed` is a property of steps (`NoticedStep`): versions only grow,
so what has been listed stays listed, and of all steps that move the signal or the
watch loop only a failed listing leaves a change unseen.

**`SchedulerRuntimeProofs`** (`RuntimeAssumption`): `LocalChangeNoticed` and
`CronStaysAligned` are each inductive with `TypeOK`.  The second one rests on
arithmetic: a clock that wraps at `Period` and a countdown that starts at the
next multiple keep their sum, through any number of reloads (`AlignedTick`).  The
assumption says that a definition is not both a cron expression and an `@every`
interval.

**`RequestPipelineProofs`** (`PipelineAssumption`, `BudgetAssumption`): the
actions in front of the record have one form (`EarlyMove`), so that the chains
matter only for which stage follows which (`FollowingStage`).  `PipelineInv` says
of the record:

* `Owned`: it belongs to a request that has been let through, holds the
  fingerprint of that request and, once it is completed or failed, its response;
* `Covered`: while an HTTP request is in its handler or stores its result, the
  record is its own and outlives what the request has yet to do.  This is where
  `BudgetAssumption` is used, and `OneHandlerPerKey` follows;
* `Remembered`: a request that may have taken effect has its record, unless it has
  expired; `AtMostOnce` follows, with no assumption on times and so for gRPC too;
* `Untouched` and `Answering`: in front of the record nothing has been done, and
  nothing is answered before the handler is through, without which a replay could
  not be known to repeat a response.

**`LifecycleProofs`**: `ResourcesOutliveUsers` for any amount of work.  That nothing
is used when a connection is closed is known only from the order of the hooks.
`LifeInv` says so: what is admitted or in progress has its own hook started
(`AdmittedByHook`, `AliveIsCovered`), what it uses has earlier hooks (`UsesFirst`),
and work outlives its hook only when the context has ended, after which no further
hook runs (`Halted`).  For `OrderlyExit` the converse is needed as well: after the
start, what is open belongs to a hook that has yet to stop (`OpenIsStarted`).

**`ProcessProofs`**: a process implements Lifecycle (`ProcessLives`), so both
properties hold of it.  `StartupInv` says that what is constructed is enabled by an
accepted configuration, and that all that is enabled has been built up to the
current position.  Each refusal of a constructor is then refuted by the rule of
`Validate` that asks for the same, except for the partner's credentials and cron
without a database (`RefusalOverlooked`); a launched process has built
what is enabled (`EnabledIsBuilt`).  `ProductionIsGuarded` joins the two: the rules
of `Validate` say which switches are on, and the wiring of the servers, the verifier
and the clients what that opens to whom (`LocalTokenReach`).  The contents of the configuration
files are never used: the results hold for any set of settings and any profile names.

Two definitions of the models are written with the proofs in mind: `Writes` of
`SchedulerRuntime` is a filter over pairs, and `RequestPipeline` and
`SchedulerRuntime` assume of their model values what the code's types give (no
request is the absence of a request, no definition has two kinds).

*Only model-checked*: the liveness properties, that is EveryCallReturns,
LockIsReleased, EventuallyLoaded, CronFires, EventuallyPurged, PassEnds, KeyIsFreed
and StopEnds, since fairness and ENABLED are out of the prover's reach; and the
four violations, which are counterexamples.

## Where code and documentation disagree

* `execution_stale` (ScheduledNeverStale): a job changed between the check of
  ExecuteScheduled and the insert is run with its old definition, though the
  check says such a run is rejected.  The manual path checks again under
  `FOR UPDATE`.
* `execution_tick` (OncePerTick): the README says the lock keeps replicas from
  executing a job repeatedly.  It does for runs that overlap; after a short run
  the second replica's timer finds the lock free and runs the same tick again.
* `runtime_every` (EveryFires): an `@every` job longer than 30 seconds never
  fires, because each reload starts its delay anew.
* `runtime_poison` (SoundJobsLoaded): one accepted job whose expression carries
  a time zone of its own stops every reload half-way: sound jobs with later ids
  are not loaded, and a restarted replica does not come up.

AcceptedStarts names two configurations (`Overlooked`) that Validate accepts and
no process can start with:

* credentials for an HTTP upstream with `tls.allow_insecure`: allowed by
  `config.go:634` outside production, refused by `outbound/http.go:37`, while a
  gRPC upstream may have them (`grpcclient/client.go:58`);
* `cron.enabled` without a database.  It is the default, and what the
  development profile ships, which calls itself self-contained
  (`config-development.yaml:1`): the first reload (`runtime.go:34`) asks a nil
  `*sqlx.DB` and panics.  The cleaner looks first (`cleanup.go:49`).

## What is not modelled

* Reads (Get, List, GetExecution, ListExecutions): each is one or two statements
  without a state change.  Paging over them (OFFSET, with COUNT and SELECT apart,
  while runs finish and the cleaner deletes) is a protocol of the caller for
  which the code promises nothing; a paging reader beside two cleaners also has
  too many states.
* `HTTPClient.Do` and its retries: nothing in the repository calls it, only its
  constructor.  Streams: the scheduler's own service has no streaming method, so the
  server's stream interceptors serve only reflection (its authentication is in
  `Opens`); the one outbound stream, by which the dynamic invoker asks a service for
  its descriptors, passes none of the unary interceptors of `OutboundCall` and is
  part of how an invocation may fail.
* Request decoding, message conversion, generated documentation, metrics,
  tracing, logging and health probes: no state that affects behaviour.
* Numbers, durations and patterns in the configuration, and the URL options of
  migrations: text processing.
* The algorithms of external libraries (token verification, rate limiting, cron
  expression parsing, dynamic gRPC, gobreaker's timer), of which only the
  outcomes appear.  The lock library is external: TryLock, Unlock and Expire
  model SET NX with a TTL and a compare-and-delete; a renewal, if there is one,
  only helps.

`PROJECT.json` lists every component with its status.

## Plan

1. (done) `JobStore`, `JobExecution` with `ExecutionLedger`, `ExecutionLease`;
   their safety proved.
2. (done) `SchedulerRuntime`, `ExecutionCleaner`, `JobService`,
   `RequestPipeline`, checked; `Lifecycle`, checked and proved.
3. (done) `OutboundCall` within the budget of `ExecutionLease`;
   `Configuration`, `Startup` and their composition with `Lifecycle`.
4. (done) Every safety property of the runs proved for all values of the
   constants.
5. Next: an abstract specification of the idempotency record that
   `RequestPipeline` implements, and of the job table as its readers see it that
   `JobService` implements; the parts of the liveness arguments that are safety (a
   bound on the steps a call may still take, as a variant that every step lowers).
