# docmesh-py-core in TLA+

Specifications of `docmesh_py_core`, the SDK that loads a service's configuration, builds its
clients, fetches and validates Keycloak tokens, provisions Keycloak, checks the services' health
and closes them. The modules model the parts that keep state, run concurrently or handle failures;
TLC checks them on small instances and TLAPS proves the most important results for every value of
their constants. Line numbers are those of `src/docmesh_py_core/`.

## 1. The system

| Part | State | Operations | Interacts with |
|---|---|---|---|
| Token validation and JWKS cache, `keycloak.py` 152-382 | `_jwks_cache`, `_jwks_cache_loaded_at`; no lock | `extract_user_info`, `_get_jwks`, forced reload | Keycloak over HTTP, the clock, threads that share the service object |
| Token fetch, `keycloak.py` 90-119, 168-199, 384-411 | the closure's `attempt_index` | `fetch_access_token`, `_request_token`, `_emit_token_event` | `retry_call`, Keycloak over HTTP, the caller's event logger |
| Retry, `retry.py` | the loop's `attempt` | `retry_call` | the operation and `sleep` it is given |
| Health checks, `health.py` | list of statuses, futures | `check_all_services`, `_run_service_check` | check functions of the clients, a thread pool |
| NATS builder, `factories.py` 76-127, 273-285 | none of its own; a temporary connection per ping | `connect`, `ping`, `check`, `_close_async_client` | nats-py, the asyncio task it runs in |
| Provisioner, `keycloak.py` 121-150 | a `ProvisioningResult` per run | `provision` | the caller's admin client, Keycloak |
| Wrapper and shutdown, `factories.py` 39-73, 217-224 | the list of clients | `ping`, `check`, `close`, `close_service_clients` | the clients' own close functions |
| Configuration, `config.py` | settings objects | `load_service_configs`, validators, `validate_runtime_security` | the environment variables |
| Client factories, `factories.py` 130-264 | none | `create_*_client` | third-party constructors |
| Function-boundary logging, `function_logging.py` | the root logger | `log_function_boundary`, `configure_logging` | every function above |
| Structured events, `observability.py` | none | `build_service_log_event` | token fetch |
| Masking, `security.py` | none | `mask_sensitive_value` | every error message |

An application loads its configuration, builds clients with the factories, checks them with
`check_all_services` (each check on the caller's thread or on a pool thread), validates tokens on
its request threads with one `KeycloakAuthService`, and closes the clients at the end.

What is hard in this code, and what makes each part correct:

* **Validation.** Threads share the cache without a lock; a load is two writes (316, 317), and the
  age check (308) and the use of the body (309) are separate reads. Correct: an accepted key is not
  older than the TTL allows, a stale cache never refuses a good signature, a call reloads at most
  once by force.
* **Token fetch and retry.** Answers may be lost after Keycloak acted, the event logger may raise
  inside the attempt. Correct: attempts and sleeps within the budget, events that tell what
  happened, and a token whose answer is lost ends the call: it is not asked for again.
* **Health checks.** Pool threads finish in any order, `submit` may fail half-way, a check may
  raise what `except Exception` lets through. Correct: the answer depends on the outcomes only, and
  no check outlives the call.
* **NATS ping.** The connection may drop at any time and the task be cancelled at any `await`.
  Correct: the cleanup is tried, and nothing is left open behind a ping that looks good.
* **Provisioning.** Operations fail before or after their effect, runs overlap and are repeated.
  Correct: every declared item is reported once per declaration, what is not reported as failed is
  as declared, a repeated run is idle.
* **Shutdown.** One close function that raises. Correct: order, and what is closed afterwards.
* **Configuration.** Nine classes with some eighty variables, validators that compare several of
  them, each class reading the environment by itself and Langfuse's reading the common part again.
  Correct: what a call returns or complains of depends on the selected sections and no other, and
  what it returns is consistent wherever the environment changes meanwhile.
* **Factories.** They have fallbacks of their own (`localhost`, empty strings). Correct: no client
  is made with a fallback that the validators should have made impossible.
* **Logging.** Records without a task or a level of nesting, and exceptions they do not see.
  Correct: the records of a call tell how it ended.

## 2. Modules

| Module | Kind | Models |
|---|---|---|
| `JwksCache` | component, environment included | token validation and the shared cache |
| `JwksCacheProofs` | proofs | |
| `Retry`, `RetryProofs` | component and abstract specification, proofs | `retry_call` |
| `KeycloakToken`, `KeycloakTokenProofs` | component, refines `Retry`; proofs | `fetch_access_token` over the urllib client |
| `HealthReport` | abstract specification | what `check_all_services` promises |
| `HealthCheck`, `HealthCheckProofs` | component, refines `HealthReport`; proofs | both schedules of `check_all_services` |
| `NatsConnection` | component | `NatsConnectionBuilder.ping` and its cleanup |
| `LoggedPing`, `NatsConnectionProofs` | composition of `NatsConnection` with the log; proofs about both | `NatsConnectionBuilder.check` and the records `log_function_boundary` writes of it |
| `Provisioner`, `ProvisionerProofs` | component, proofs | `KeycloakProvisioner.provision` |
| `ClientLifecycle`, `ClientLifecycleProofs` | component, proofs | `close_service_clients` and `ServiceClientWrapper.close` |
| `ConfigLoad` | component, environment included | the settings classes and `load_service_configs` |
| `Startup`, `ConfigLoadProofs` | composition of `ConfigLoad` with the factories; proofs about both | an application that loads its settings and creates its clients |
| `MC*` | instances for TLC | sets and sequences the `.cfg` files name |

In every component module the definitions under a comment that begins with *Slip* are not part of
the specification. Each is a variant of the definition below it, as a plausible mistake in the code
would make it; with the variant in its place TLC finds one of the properties violated.

**`JwksCache`.** `pc` is the place of each thread in `extract_user_info`. A step ends where the
next would read or write one of the two attributes, read the clock or wait for Keycloak.
`ConsultCache` is `_get_jwks` up to its clock reading (305-308): the body, once stored, is never
absent again and neither is the time stamp, so the reads before the clock's can be taken together
with it. `CompareAge` is the second reading of the time stamp (308), `TakeCached` the second of the
body (309), `StoreCache` and `StampLoadedAt` the two writes (316, 317). `Serve` is an answer that is
a JSON object, with a list of keys or without (`Malformed`); `FailLoad` is every other end of the
GET. After a forced reload the same lookup and verdict steps are taken again with `forced` set.
A token is an algorithm, a kid and the key that signed it; all that its claims can do is let the
call end in `claims` instead of `accepted`. `published` and `withdrawnAt` are Keycloak's history,
`servedAt` in a body and `steady` are known to the properties only.

**`Retry`, `KeycloakToken`.** `Retry` is the loop of `retry_call`. `KeycloakToken` inlines it around
`_request_token`: `Answer` (any status and body, `Parse` is `_parse_token_response`), `Unreachable`
(`URLError`, which the client maps), `AnswerLost` (what `urlopen` and `read` raise later, which it
does not), then `Emit` or `EmitFails`, then `Finish` or `Sleep`. `issued` are the attempts Keycloak
issued a token for and `answered` those that got an answer, from whomever: an error may follow an
issued token (`MayHaveIssued`), since a gateway may answer 502 or 504 in place of a Keycloak that
did its part. Such an attempt is made again, so a call may cost Keycloak a token per attempt; what
`LostTokenEndsTheCall` excludes is that one is asked for again after its answer was lost. The
refinement maps an attempt together with its event to one operation of `Retry`; a refused password
grant never enters the loop.

**`HealthReport`, `HealthCheck`.** `truth` fixes what every check does -- return, fail, raise past
`except Exception`, hand back a coroutine nobody awaits, hang -- and `check` what has become of it.
The sequential loop is `CallCheck`/`CheckReturned`; in parallel `Submit`, the pool's `StartTask`,
`Join` (the end of the `with`), `Collect` (62) and `ReportParallel` (66-69). `SubmitFails`/`Leave`
is a `submit` that cannot start a thread.

**`NatsConnection`.** One ping: pings share nothing. `client` says which of `flush`, `drain` and
`close` the object has and whether they are coroutine functions, since the code asks for all of
that. The connection drops, comes back and is given up independently of the ping. `Cancel` raises
`CancelledError` at any `await`. `limited` says that `max_reconnect_attempts` is not 0: with 0, which
`config.py` 307 allows, nats-py tries an unreachable server for ever.

**`Provisioner`.** The admin client is an interface the caller implements, so an `ensure_*` call is
modelled as external: it looks the item up and acts on what it saw, and Keycloak creates only what
is absent and has a parent. It may raise, or be interrupted, before or after its effect (`MayApply`).

**`LoggedPing`.** `open` is the stack of decorated calls, `log` the records. Every action is one of
`NatsConnection` together with the records it writes; `CancelledError` is no `Exception`, so the
calls it ends leave no record (`Record`). One check is logged by itself. `Story` and `ShortStory` list
whom the records of a whole check are about, with and without a client to clean up after.

**`ClientLifecycle`.** A list of wrappers, plain objects and `None`s, with every combination of
close functions, and a shutdown that is tried again after it raised.

**`ConfigLoad`, `Startup`.** A raw value is a member of `Raws`, one for each spelling the code tells
apart, and a field has a kind, which says what pydantic and the field validators accept
(`Accepted`) and make of it (`Value`). `Rules` are the model validators in their order; the first
that is broken speaks. What pydantic contributes is external and taken from how the code uses it:
the errors of all fields of a class come together, a model validator runs only when there are none.
`ReadCommon`, `Normalize`, one `ReadSection` for each selected section in `Order`, `Inherit` (the
second `CommonConfig()` inside `LangfuseConfig`) and `Check` follow `load_service_configs`;
`Change` is another thread that sets a variable, and `moments` all the environments there have been.
A class reads its variables in one step. `Bad` and `Safe` say of the first environment, without the
steps above, which sections are at fault and whether production allows the selection, and `Blames`
that a complaint is about one of them. `Startup` then calls one factory after the other, in the
same order; `Arguments` is what each passes on, keyword arguments included (`Merged`).

## 3. Runs

| Run | Instance | States | Shows |
|---|---|---|---|
| `JwksCache` | 2 threads, 1 kid, 2 keys, tokens of one of them, TTL 1, latency 1, clock to 3 | 1.9 million | `TypeOK`, `AcceptedKeyIsRecent`, `NoFalseSignatureReject`, `StampMatchesBody`, `UnstampedIsFresh`, `RollbackIsBounded` |
| `JwksCacheReturns` | 2 threads, HS256 and RS256, tokens of every kind, answers that are no JWKS, keys no RSA key can be made of | 223 thousand | `JudgedByRecentBody`, `CallsReturn` |
| `JwksNewKid` | 1 thread, 2 kids | violated | `PublishedKidIsFound` |
| `Retry` | every limit 0..9 | 191 | `TypeOK`, `AttemptsAreUsed`, `BackoffIsExponential`, `CallEnds` |
| `KeycloakToken` | 0..3 retries, status codes on both sides of every boundary | 2,564 | `TypeOK`, `EventsTellTheCall`, `LostTokenEndsTheCall`, `ImplementsRetry`, `CallEnds` |
| `HealthCheck` | 0..3 checks, every truth and required set, both schedules | 77 thousand | `TypeOK`, `AnswerIsFunctional`, `NoCheckOutlivesTheCall`, `SequentialStopsAtFailure`, `KeepsThePromise`, `CallEnds` |
| `NatsConnection` (module `LoggedPing`) | every client object, `max_reconnect_attempts` 0 or not | 1,250 | `TypeOK`, `LeakIsReported`, `CleanupIsTried`, `FailureIsNotMasked`, `LogTellsTheFate`, `PingEnds` |
| `NatsPing` | nats-py's client | violated | `PingCleansUp` |
| `Provisioner` | 2 provisioners, 1 dry run, realm, client, a client role declared twice, 1 drift, every state to start from | 3.5 million | `TypeOK`, `EveryItemIsReported`, `ReportedIsCurrent`, `RerunIsIdle` |
| `ClientLifecycle` | lists of 0..3 clients of every kind, 3 shutdowns | 92 thousand | `TypeOK`, `ShutdownIsOrdered`, `FailureBlocksTheRest` |
| `ConfigLoad` (module `Startup`) | see below | 66 thousand | `TypeOK`, `OutcomeIsDocumented`, `EnvironmentsAgree`, `ClientsAreWhole` |
| `ConfigBlank` (module `Startup`) | see below | violated | `BlankIsUnset` |

Why the bounds are enough:

* `JwksCache`. The races are between the two writes of one load and the reads or writes of one other
  thread, so two threads are enough for them, and one kid with two keys for a rotation. The clock
  runs to 3 because the worst case needs a body served at 0, stamped at 1 or 2 and used after the
  TTL. The bound of `AcceptedKeyIsRecent` is tight: with `MaxAge - 1` TLC finds a call that accepts
  an older key, and `StampMatchesBody` with one latency instead of two is violated by two loads that
  interleave their writes. Threads meet only in the cache, so tokens of one key suffice: Keycloak
  publishes that key, the other or none. Answers whose `keys` are no list (`Garbled`) are left to
  `JwksCacheReturns`, `JwksNewKid` and the proofs; with them this run has 4.2 million states.
* `Retry` and `KeycloakToken` have no concurrency; every limit the runs leave out is covered by the
  proofs.
* `NatsConnection`. Pings share nothing, so one is the whole system.
* `HealthCheck`. Three checks are enough for one before and one after the first failure.
* `Provisioner`. Two provisioners are enough for a stale look-up and for a repeated run (the second
  one starts when the first has ended or was interrupted); `MaxRuns` 1 and `MaxDrift` 1 bound the
  model. The role has the client for a parent and that the realm, the longest chain there is.
* `ClientLifecycle`. Three clients: one before and one after the one that fails.
* `ConfigLoad`. The scenarios (`MCConfigLoad`) start from an environment in which just what is
  required is set. One variable at a time takes every raw value, or none, with all sections and with
  a selection that is spelt in another case; that shows every field's kind. Two variables at a time
  are wrong in PostgreSQL, MinIO and NATS, which shows that errors are collected and that rules wait
  for them. The variables a class's rules compare take every combination, since a rule can only be
  wrong on a combination. Production is tried with every setting of the three flags and selections
  with and without them. Environments that change have a budget of two, which is one change on each
  side of one reading, and the variables the properties compare are those that change. An unknown
  service is asked for with good and with bad common settings.

`CHECK_DEADLOCK FALSE` is set where a behaviour is one call that ends.

Fairness. `JwksCache`: a call that has started is scheduled and its request ends
(`request_timeout_seconds` is always passed); nobody has to start a call and time and Keycloak owe
nothing. `Retry`, `KeycloakToken`: an operation ends (same timeout) and so does a sleep.
`HealthCheck`: the caller's thread and each pool thread are scheduled, and a check whose truth is
not to hang ends. `check_all_services` has no timeout, so `CallEnds` says that the call ends unless
a check it has called hangs. `NatsConnection`, `LoggedPing`: flush and drain end by nats-py's timeouts,
and connecting ends only when `max_reconnect_attempts` is not 0 (`Ends`), since each try is limited
but their number is not otherwise. `PingEnds` therefore has two parts: a ping that has its client
ends, cleanup included, whatever the setting; a ping ends from its start unless the setting is 0.
Nothing is owed by the network, and no cancellation has to come.

## 4. Where the code and its documents disagree

* **New kid** (`JwksNewKid`, `keycloak.py` 345). `.wiki/concepts/keycloak-auth-flow.md:109` promises
  one forced reload when the key or the `kid` changed; only a failing signature leads to one. A
  token with a kid the cache does not know is refused until the TTL is over.
* **Temporary NATS connection** (`NatsPing`, `factories.py` 279). `docs/api.md:221` says it is
  cleaned up; `drain` that raises is not followed by `close`. `LeakIsReported` shows what holds
  instead.
* **Blank values** (`ConfigBlank`, `config.py` 30). `docs/config.md:14`, `:341` and `docs/prd.md:65`
  say that a blank string is treated as unset. It becomes `None`, which only optional fields take: a
  number or a text with a default refuses it, and a switch raises on it before it gets there.

Two remarks no run is needed for: `.wiki/concepts/keycloak-auth-flow.md:59` calls network failures
retryable, and what fails after the request was sent is not (`keycloak.py` 104) --
`LostTokenEndsTheCall` shows the good side of it; `.wiki/concepts/keycloak-provisioning.md:37` says
a dry run shows what would be created or updated, and it lists everything declared (`keycloak.py`
136).

## 5. Proofs

`JwksCacheProofs` assumes what `JwksCache` assumes of its constants (`ConfigAssumption`,
`OfferedAssumption`, `NullAssumption`): any set of threads, kids, keys and tokens, any TTL and
latency. Two further assumptions are part of the specification's actions: the clock only moves
forward, and it does not move while a load is more than `MaxLatency` old (`Tick`). The results are

* `TypeCorrect`, by a case per action;
* `Invariance`, the inductive invariant `IInv`. `AcceptedKeyIsRecent` is not inductive: that the key
  is recent must be known of the body a call will use, before that of the cache it takes it from,
  before that of the time stamp it compares. `HistoryInv` says that bodies are true pictures of the
  time they were served; `LoadInv` that a load is at most a latency old and that, between its two
  writes, the cache holds nothing much older than what it wrote, whoever wrote last; `StampInv` then
  bounds the distance of stamp and body by two latencies; `CallInv` carries that to `compare`,
  `take` and `judge`; `TokenInv` and `SteadyInv` follow the token and the forced reload. Each part
  has its lemma, and each lemma a case per action;
* `AcceptanceIsRecent`, `JudgementIsRecent`, `SignatureVerdictIsRight`, `RollbackBound`,
  `StampIsHonest`, `UnstampedIsNew` from it.

`RetryProofs` proves the attempt budget and the backoff for every set of limits.
`KeycloakTokenProofs` proves, for every number of retries and every set of status codes, the types,
the events, the end of a call that lost a token, and the refinement of `Retry`, the last by mapping
each action to a step or a stutter of it. `IssueInv` says that only an attempt that is not made
again can leave a token unanswered. `NatsConnectionProofs` proves the three safety properties for
every client object, the first two where it can be closed (`Closable`); its invariant adds what has
been tried, and what left the `try` block, at each place of the cleanup. `LoggedPings` shows that a
check with its log makes no other steps, which hands these results on to `LoggedPing`.
`LogTellsTheFate` counts records and compares their places, which no step preserves by itself, so
`LogInv` names the whole log at every place of the check and for every end: which messages, about
whom (`Story`, `ShortStory`). `LogStep` is its preservation, where `WriteReads` says what appending
records does and `EndedMeans` what unwinding the stack does. `Reader` then turns a log whose calls
are each opened and closed at one known place into the unclosed calls and their nesting, and
`LogTells` applies it to each log `LogInv` names.

`HealthCheckProofs` proves, for any number of services, any truth and any required set, that no
check outlives the call, that the sequential schedule stops where it should, and that the answer is
a function of the outcomes: `Decisive` are the checks it can be about, the first of them decides,
and in a parallel call one that aborts comes before any required failure. What a call answers is
decided at its end from the recorded statuses, so the invariant has to say all along what the record
is worth: the statuses are those of the checks the loop has passed (`Recorded`), the checks behind
it are pending (`SequentialInv`), a parallel call joins only what it has submitted and collects only
when the pool is idle (`ParallelInv`), and a check that has ended did what its truth says
(`EndInv`). `Refinement` maps the step that sets the answer to the one step of `HealthReport`, and
every other step to a stutter.

`ProvisionerProofs` proves its three properties for any number of provisioners, roles, runs and
changes. `ReportInv` counts: the items the loop has passed are as many, item by item, as those in
the lists. `CurrentInv` says that what a run has passed is reported as failed or is current, and so
is what its look-up saw to be, as long as nobody else changed something (`clean`); it is
kept under interference because an operation can only make its item current. `IdleInv` says that a
run that began in a current Keycloak only ever sees current items.

`ClientLifecycleProofs` proves both properties for lists of any length and any number of shutdowns.
`LoopInv` adds what a shutdown under way has done: what is behind the loop variable is closed, and
was asked more often than what is before it.

`ConfigLoadProofs` proves the types, `EnvironmentsAgree`, `OutcomeIsDocumented` and, for `Startup`,
`ClientsAreWhole`, for any scenarios and any changes by others (`ConfigAssumption`: environments
hold known variables and raw values). `RulesSayConsistent` is the lemma the last two rest on: no
model validator of a class complains of the values made from an environment just when the raw
environment is consistent, which is said of raw spellings and knows neither values nor an order of
rules. It holds of an environment without invalid fields, since only then do the validators run.
`OrderInv` says that every section is read once and after the common settings, without which a
second reading could spoil what the first one found; `ReadInv` that settings are true pictures of
the moment they were read in, and what Langfuse inherits of one since; `SoundInv` that a section
that is done with had nothing at fault in the environment it was read from, whichever that was.
`OutcomeIsDocumented` compares these moments with the first, which is allowed because nothing the
call depends on changed (`Settled`); that the section blamed is the *first* at fault follows from
all earlier ones being loaded, hence sound. `StartupLoads` carries it all to `Startup`, and
`StartupInv` adds that clients are made of returned settings and nothing else, so that
`ClientsAreWhole` follows from `SoundInv` and the lemmas about what `Arguments` passes on. It does not
need `Settled`: each section is whole by the one environment it was read from.

Every component's type invariant is proved with the rest.

Every safety invariant of the passing runs is proved, and so are both refinements. Model-checked
only: all liveness (`CallsReturn`, `CallEnds`, `PingEnds`), which TLAPS does not reach here. No
module with a theorem uses a recursive operator: `Broken` is a set with the first broken rule, and
the order of sections a comparison of places (`Earliest`), so nothing is selected by recursion over
a sequence.

## 6. Not modelled

* Exceptions outside `Exception` in the token fetch and in validation; `HealthCheck`, `Provisioner`,
  `NatsConnection` and `LoggedPing` do model them.
* HTTP redirects that `urlopen` follows: a request and its redirects are one exchange.
* A clock that steps back, and `TTL = 0` as a bound on age: with 0 a body is kept for ever, as
  `.wiki/concepts/keycloak-auth-flow.md:111-112` says.
* String handling: masking, error texts, URLs, role normalisation, DSNs.
* pydantic, whose part in the settings is external, and an environment that changes within one
  class's reading of it.
* What the third-party constructors do with their arguments. Among them are combinations no
  validator looks at: SQLite with `readonly` and `enable_wal`, an in-memory SQLite database that
  `readonly` does not reach, and Milvus's `secure`, which the production check reads and no factory
  passes on. Constants among the arguments (Langfuse's `tracing_enabled`) are left out.
* `configure_logging`, which calls `logging.basicConfig`, and records of several tasks in one log.
* `ServiceClientWrapper.ping`, which turns one exception into another.
* The fields of a structured event other than its outcome and retry count.
* Package exports.

## 7. Plan

Done: `JwksCache`, `Retry`, `KeycloakToken`, `HealthReport` and `HealthCheck`, `NatsConnection`,
`Provisioner`, `ClientLifecycle`, `LoggedPing`, `ConfigLoad` and `Startup`, each with its proofs.

Left:

1. A composition of `HealthCheck` with the NATS and Keycloak checks, where a check is a whole ping or
   token fetch and not one step with a known end.
2. `configure_logging`, if it ever does more than call `basicConfig`.
