# TLA+ models of TEEHR cloud core

These modules model the parts of this repository that keep state of their own and
share it between processes, threads or coroutines: the TEEHR API (`api/`), the
gridded-data server (`xpublish-api/`), the notebook client that reads Icechunk repos
(`jupyterhub-docker/icechunk_access/`) and the jobs that keep Polaris in line with
Keycloak (`polaris-bootstrap/`). TLC checks them on small instances and TLAPS proves
their safety properties for all instances.

Run a check with `tlc -config MCGate.cfg MCRequestGate`, and a proof with
`tlapm RequestGateProofs.tla`. `PROJECT.json` lists every run, the source lines each
definition models, the known hazards and the theorems.

## 1. Inventory

| component | state | operations | what is hard |
|---|---|---|---|
| API key store, `api/src/api_key_store.py` | table `api_keys`, the same table in Keycloak's database from before | startup with a copy of the legacy keys, create, revoke, validate | four workers and several pods start at once; old pods still write the legacy table; a worker dies between read and write |
| Delegated broker sessions, `broker.py`, `delegated_session_store.py` | table `delegated_sessions`: owner, expiry, encrypted refresh token | create a session, exchange a session token for an access token | Spark drivers and executors exchange at the same time; five awaits between decoding and answering |
| Dataset provider, `xpublish-api/src/provider.py` | list of repos with a stamp, repository handles, snapshot cache, three kinds of locks | discover, evict, open, load | double-checked locking over four dictionaries; flows commit, remove and recreate repos |
| Access rules and gate, `authz.py`, `main.py` | rules read at startup | decide on a path; resolve the id later | the check and the use are apart, ids are ambiguous, tokens age |
| Notebook credentials, `credentials.py`, `icechunk_access.py` | STS credentials in each process | open a repo, renew, read | credentials outlive roles and rules; list and policy are two forms of the same rules |
| Collection items, `api/src/routes` | none; flows insert and remove rows between pages | query with retries, next links | limits of client and role, page boundaries, what a link keeps |
| Token validation, `auth.py` | cached key set, its stamp, a lock | validate a token | key rotation during a fetch, failed fetches under the lock |
| Request pipeline, `api/src/main.py`, `rate_limit.py` | counters per worker | identity, limit, timeout | cleanup in the middle of a minute; requests that outlive their answer |
| OGC metadata and queryables, `queryables.py`, `ogc_foundation.py`, `filtering.py`, `metrics.py` | schema cache per process, combinations table filled by a workflow | schema, distinct values, items, list of collections | a request is several queries, between which the table is rewritten; two caches that lag behind it |
| Polaris bootstrap and principal sync, `polaris-bootstrap/manifests` | catalog, grants, principals, roles and bindings in Polaris | a job at each deployment, a CronJob every five minutes | they stop at the first failure and start over, overlap each other, and page by offset over users that change |
| deployment manifests, JupyterHub profiles, scripts | none | build and deploy | nothing that a model would show |

The components interact through stores and one service. The API workers share PostgreSQL
(keys, sessions) and the tables behind Trino, which flows outside this repository write;
caches and counters are per process. The Polaris jobs read Keycloak and write Polaris,
which other operators write too. xpublish-api shares S3 with the ingest flows, which are
outside this repository. Notebooks call both servers over HTTP. Keycloak issues the tokens
of all of them and is modelled by what the code relies on: tokens carry the roles of their
issue, refresh tokens have an idle life, signing keys are published and retired.

What makes the components correct:

- a revocation is never undone and reaches every worker, a copy never loses a key;
- a deleted session stays deleted and a live one can be used without a new login;
- a dataset is served from one load at a time and is at most one TTL old;
- what is read is what the rules permit, at the gate and in S3, and what is taken away
  is gone within a known time;
- following the next links returns every row once while the table stays as it is, loses no
  more than was removed, and never shows more than a role may see;
- a token with a published key is accepted, one with a retired key is refused in time;
- the limiter limits, and only those over the limit;
- values offered for a filter are those of one state of the table, and a filter is judged
  by a schema of the last minute;
- a user's roles reach Polaris in the end, and no run of the sync grants what was taken
  away before it began.

## 2. Plan

In the order of importance. All modules are written and checked, and every safety property
that a run checks is proved as well.

1. `KeyRegistry` (abstract), `ApiKeyStore`; the refinement is proved.
2. `BrokerSessions`.
3. `DatasetProvider`. Left: an abstract cache of one dataset that it implements while no
   repo is removed.
4. `AccessRules`, `RequestGate`, `NotebookCredentials`.
5. `CollectionPages`.
6. `JwksCache`. Left: an abstract key set that it implements.
7. `RequestPipeline`.
8. `PolarisJobs`.
9. `Queryables`.

`RequestGate` and `NotebookCredentials` extend `AccessRules`; `ApiKeyStore`
instantiates `KeyRegistry`. The other modules stand alone, since the components share
no memory. Each `MC*` module only declares model values, symmetry and the values of
structured constants.

## 3. The modules

**ApiKeyStore.** `app` and `legacy` are the two tables; a key stands for its id,
plaintext and hash. A worker's startup is `CreateSchema`, then `SkipLegacy`, or
`FetchLegacy` and `UpsertLegacy`; between any two of them anything may happen,
including `Crash`. `Upsert` is the `ON CONFLICT ... COALESCE` of the copy. `RevokeKey`
changes the row and may or may not deliver its 204 (`acked`). `startedFrom` is a history
variable: the legacy table when the startup began. Old pods are external and run the
same operations on the legacy table. `KeyRegistry` is what the store promises: a key's
life is absent, active, revoked, and a verdict is the key's status at one instant of
the request.

**BrokerSessions.** One action per await of the exchange: `DecodeToken`, `GetSession`
with the checks that follow it, `DeleteSession`, the call to Keycloak
(`KeycloakRefresh`, `KeycloakKeepsToken`, `KeycloakRefuse`), `UpdateRefreshToken`.
A refresh token is known by its issue time. `Abort` ends a handler between any two
steps: the worker dies, or Keycloak or PostgreSQL fails. Two history variables tell the
ways in which the row can fall behind its login: `overtaken`, the exchanges whose token is
not the newest any more, and `lost`, the sessions whose newest token was dropped with a
handler or overwritten by an older one.

**DatasetProvider.** A thread goes through `_refresh_repo_configs`,
`_cfg_for_dataset_id` and `get_datatree_for_dataset`; a step is the code between two
points where another thread can interfere, so the stamp and the assignment of the list
are two steps, and so are the two halves of `_evict`. Lock objects are numbered
(`lockGen`), because eviction drops them while they may be held. Time is freshness: an
entry is stamped and may expire at any later step. `floor` remembers the tip at the
last expiry, for `StaleAtMostOneTtl`. A repo is `Doomed` while it is missing or about to be
evicted; `gone` remembers the threads whose repo was doomed at some time of their request,
and `strays` the datasets whose entry such a thread stored. `CreateMissing` is
`_ensure_repo_initialized`: a failure may leave the repo created without a handle kept
(`InitRepoFails`). `_on_repos_changed`, called under the discovery lock, only computes and
logs, and is a part of `AssignConfigs`. `mode` says whether storage may fail, how many
repos may be removed and which threads take part; the properties say which of these they
assume.

**AccessRules, RequestGate, NotebookCredentials.** Names are a stem and a number of
`_data` suffixes, which is all the rules, the routes and the policy patterns look at.
`AccessRules` has no state: `IsPermitted`, `PolicyFor`, `BuildSessionPolicy`,
`RepoCandidates` and `CfgForDatasetId` are translated operator by operator. In
`RequestGate` the middleware decides (`Authorize`), and the handler resolves the id
later (`Handle`). In `NotebookCredentials` a call is sent with the roles of that
moment, `ListRepos` and `VendCredentials` are two steps of the route, and the client
takes the answer, refuses it or fails. A renewal that ends in an error shows in `outcome`
(`EndCall`): a policy that is too large (`RefuseTooLarge`) apart from the errors of STS,
Keycloak and the network (`Fail`). STS, IAM and Icechunk's calls of the callback are
external.

**CollectionPages.** A route is the record of what distinguishes it: its order, its rule
for a next link, whether parameters can be repeated, what a link keeps, and what becomes of
a 400. One client follows the links; `ExecuteQuery` picks any order that the ORDER BY
allows, `Insert` and `Remove` change the table at any time, `QueryFails` retries. `stayed`,
`inserted` and `removals` are the table's history: the rows that were there all the time,
whether any came and how many went. `Used` is the part of a repeated parameter that the
handler looks at: on the metrics routes the last value, although their link keeps the
first. `MetricsJson(grouped)` and `MetricsGeojson(grouped)` are these routes with and
without a `group_by`; without one there is no ORDER BY, and rows come in any order. A link
may reduce a filter to its first value, so that `Filters` is assumed to contain the first
value of each filter on its own.

**JwksCache.** `Validate` takes a fresh cache without the lock; otherwise `EnterLock`,
`KeycloakAnswers`, `StoreKeys` or `FetchFails`. `Lookup` is what `validate` does with a
key set, including the drop of the cache and the second look.

**RequestPipeline.** `Arrive`, then one of the gates, the handler, and `TimeOut` at any
point: it answers 504 and leaves the rest running. `Enforce` counts, cleans up and
decides, in this order. The 429 becomes a 500 because it is raised outside the
handlers of `HTTPException`.

**Queryables.** One collection, whose table is the sequence `versions` of its snapshots;
`Commit` is a flow that rewrites it. A request is a thread (`thread`), a step is one query
with the code up to the next one, and each query sees the table of its own instant.
`ValuesSchema`, `QueryCachedValues` or `CombinationsFail`, and `GetQueryableValues` are
the values endpoint; a column that has gone meanwhile is a 500 (`Runs`).
`GetCollectionSchemaCached`, `...Query` and `...Store` are `_get_collection_schema`, whose
dictionary has no lock; `GetCollectionItems` is the query behind it. `SpatialExtent`,
`TemporalExtent` and `ExtentFails` are the two queries of the list of collections, whose
exception handler takes both extents away. `past` is a history record: the snapshot at
the arrival, and what the workflow had read by then. The workflow that fills
the combinations table is not in the repository. It is assumed to read a snapshot, to
remove its old rows and to write the new ones, and it may die in between; `combos` rows
carry the snapshot they came from. `QueryLimit` bounds the time of a schema query, an
assumption that the code does not enforce: without it no entry has a greatest age.

**PolarisJobs.** One realm of Polaris and the users of Keycloak, numbered in the order of
their listing. A step is one HTTP call with the code up to the next one. The sync is the
same for both jobs: `IterKeycloakUsers` reads a page, and for each user of it
`EnsurePrincipal`, `GetKeycloakRealmRoles` (or `UserGone`, a 404) and, role by role,
`EnsurePrincipalRole` and `EnsurePrincipalRoleBinding`. The bootstrap reads and writes the
catalog (`GetCatalog`, `WriteCatalog`), makes its calls for roles, namespaces and grants
(`CreateRoleBindings`, the `Acl` calls in order), runs the sync, and then creates and binds
its service principals. `mode.creates` says which principal roles each of the `Acl` calls
creates, and `mode.absent` which are grants on a table that does not exist: a 404 that ends
the script (`TableMissing`), like a service principal whose role nobody created
(`ServiceRoleMissing`). `Fail` is a call that fails or a pod that dies; the job starts
over, the bootstrap as often as `BackoffLimit` allows (`restarts`). The records `job[j]`
also remember, for the properties, what was held and what was due while the run lasted.

## 4. Runs

| run | instance | result |
|---|---|---|
| `keys` | 1 key, 2 owners, 2 workers, 1 request, 2 crashes, 2 time stamps | invariants, action properties, refinement and convergence hold |
| `broker` | 1 session, 2 callers, 2 exchanges, 1 abort, clock to 6 | rows live and die once, the row holds the newest refresh token but for an overlap or an abort |
| `broker_concurrent` | the same without aborts | `StoredTokenUsable` **violated** |
| `provider` | 3 threads without removals; 2 threads with 1 removal, on storage that answers and on storage that may fail; 1 dataset, 2 snapshots, 2 expiries | holds |
| `gate` | names `a`, `a_data`, 2 roles, 3 rule sets, clock to 3 | holds |
| `notebooks` | 2 processes, 3 rule sets, policies of 1 repo at most, 1 change of roles or rules, clock to 5 | holds |
| `pages` | all ten routes, the metrics ones with and without `group_by`, 3 rows, 2 with the same time, 2 removals, limits none, 1, 3, caps none, 2, 1 retry | holds |
| `jwks` | 2 requests, 1 key, TTL 2, clock to 4 | holds |
| `pipeline` | 2 requests, 1 admin, limit 1, threshold 1, 2 minutes | holds |
| `queryables` | 2 threads for items, 1 for values and metadata; 3 contents of the table, 2 commits, TTL 2, clock to 3; declared or not, with and without the workflow and `CACHE_REQUIRES_CURRENT_SNAPSHOT` | holds |
| `polaris` | 3 users on pages of 2, 2 roles of which 1 is mapped, 2 service principals; the CronJob alone with 2 changes, or beside a bootstrap with 1, 1 failure; beside a bootstrap that names a role nobody creates, or a table that is not there; 6 restarts | holds |
| `sync_diverges` | the same | `BindingsMatchRoles` **violated** |

Why the bounds suffice. Every race in this code is between two holders of the same
row, cache or lock, and each instance has two, the provider three so that two can wait
for one. Clocks run past every expiry that is compared: a session, a token, credentials
and a cached key set can each expire and be followed by another step. Rows of the key
table and signing keys never affect one another, so that one is enough for TLC; the
theorems hold for any number. Three rows with limits 1, 2 and 3 give pages that end
before, at and after the last row; two removals make a page skip a row, and then another.
The third rule set lists two names where a policy holds one, so that a granted role makes a
policy too large. One retry exercises both branches of the retry loop.
The limiter's threshold is 1, so that the cleanup happens with the second counter.
Threads of the API share only the schema cache, so that two of them are needed for items
alone; three contents of the table give a row that leaves, a column that becomes a
dimension, and a NULL in it, and two commits let one of them come and go. Three users on
pages of two give a full page, a short one and, when one leaves, a page that is cut
elsewhere; when one is disabled, the last page is exactly full and an empty one follows.
Symmetry is used for the requests of `pipeline`, a run without liveness.

The two violations are disagreements between the code and its own words; each is a
finding in `PROJECT.json` with the line it contradicts. Concurrent exchanges may store
the older refresh token, which then expires during the login. And the sync only adds
bindings, so that a role taken away in Keycloak stays bound in Polaris.

The models also contain the following behaviour, seen in the code while it was modelled.
No property is stated against it.

- `_evict` drops the lock object of a dataset that is being loaded. When the repo is
  listed again, a second thread may load the dataset at the same time, and the slower of
  the two may store the older snapshot last. `LoadsOnce` and `SnapshotsMoveForward` name
  this as the only way. A load that ends after the eviction stores its handle and its entry
  again.
- `_open_repo` reads the handle again outside the lock; after an eviction this is a
  KeyError. `ErrorOnlyIfGone` says that on storage that answers it happens only to requests
  whose repo went away.
- A read of a repo that is removed after it was listed creates the repo, empty
  (`InitRepo`), and a failure after the creation leaves it there (`InitRepoFails`).
- `_refresh_repo_configs` stamps the list before it assigns it. During the first discovery
  another thread may take the empty list for fresh, and answer 404 for a repo that exists;
  `ListedStaysKnown` is about repos that have been listed.
- A custom route appends `_data` to the id after the check, and may open a repo of that
  name that was not checked; `OpenedIsPermitted` names the exception.
- `delegated_sessions` has no sweeper: a row goes only when an exchange finds it expired.
- The policy of a user with many repos may exceed the limit of STS, and the user then gets
  no credentials (`MaxPolicyRepos`).
- 409 is one of `SUCCESS_CODES`, so that the branch of `ensure_catalog` that retries "once
  on optimistic-concurrency conflict" (`bootstrap-job.yaml:153`) is never reached, and an
  update that loses the race is dropped without a word. `AppliedUnlessConflict` excuses the
  `conflict`, and shows that nothing else keeps the configuration from being applied.
- The bootstrap does not create the principal roles of its service principals, nor the
  tables of its grants. If `acl-config.json` names one that is not there, every run ends at
  that call; the shipped one has neither. The CronJob still binds all users
  (`EventuallyBound`).
- A role that is revoked after the sync has read it is bound all the same:
  `NothingRegranted` allows what was held at some time of the run, and `sync_diverges` shows
  that the binding stays.
- The comment before the bootstrap's call of the sync says "Role assignment is omitted"
  (`bootstrap-job.yaml:363`); the script assigns roles, and so does the model.
- The sync fetches its Keycloak token once. A run that lasts longer than the token fails
  at about the same user each time; `EventuallyBound` holds because failures are bounded.
- A sync may skip a user when another leaves the listing between two pages; the next run
  makes up for it (`shifted` in `SyncCovers`).
- A limited role that gives no offset gets a cut-off GeoJSON page without a next link,
  and the next link of `location_attributes` keeps the first value of a repeated
  parameter. The metrics routes look at the last value of a repeated parameter and keep the
  first in their link, and have no ORDER BY when `group_by` is empty. `LinksCoverAll` is the
  condition under which links reach everything.
- Offsets move when rows are removed between two pages: the client misses rows, never more
  than were removed (`EveryRowOnce`), and when rows are inserted it may get some twice.
- The timeseries routes answer 500 for their own 400 (`Reject`).
- A worker counts for itself: four of them let four times the limit through.
- The 429 of the limiter is raised in a middleware, outside the handlers of
  `HTTPException`, and is answered as 500 (`Enforce`).

**Fairness.** `ApiKeyStore`: gunicorn restarts workers, so a starting worker proceeds (weak
fairness of its startup; crashes are bounded). `DatasetProvider`: a thread that does not
wait for a lock proceeds; `EveryRequestAnswered` assumes that arrivals stop, because
`threading.Lock` does not promise an order among waiters. `CollectionPages`: the handler
runs and the client follows the links. `JwksCache`: strong fairness of taking the lock,
because `asyncio.Lock` wakes waiters in order, and a fetch ends with an answer or with the
10 s timeout. `PolarisJobs`: the schedule starts the CronJob again whenever it is not
running (`concurrencyPolicy: Forbid`), Kubernetes restarts a failed bootstrap up to its
back-off limit, which an assumption says that changes and failures do not use up (a call
that can never succeed does), and a running script goes on. For `BrokerSessions` only
safety is stated. The liveness of `RequestPipeline` is not stated: a request that has timed
out may run for as long as its handler does.

## 5. Proofs

All theorems hold for every value of the constants that satisfies the `ASSUME`s of the
module (bounds are natural numbers, `FetchLimit < CacheTtl`, and the like). Each follows
from an inductive invariant: it holds initially, every action preserves it, and it implies
the property. The invariants were first checked by TLC on the instances of section 4.

- `ApiKeyStoreProofs`. The inductive invariant `IInv` adds to `TypeOK` and
  `PickedUpByRestart`: a key has one owner in both tables (`OneOwner`); what a worker
  holds was read from the legacy table (`ReadFromLegacy`) and includes what was there
  when its startup began (`CarriedRows`), so that the upsert at the end establishes
  `PickedUpByRestart`; without a legacy table there are no legacy rows
  (`NoTableNoRows`); an acknowledged key is revoked (`AckedRevoked`). From it follow
  `RevocationNeverUndone`, `RefusedAfterAck` and `StoreImplementsRegistry`, the
  latter step by step: an upsert of many rows is one `Advance` of the registry.
- `AccessRulesProofs`. `PolicyMatchesRules`: the policy allows exactly the names that
  `IsPermitted` permits, in both modes. `RolesOnlyAdd`: permission is monotone in roles.
- `RequestGateProofs`. `GateInv` records that a request that passed was permitted by the
  rules and the identity it carries (`PassedIsPermitted`), that the roles of a token are
  the user's roles or were lost after it was issued (`TokenRolesRecent`), and that a
  token's expiry is bounded (`TokenEnds`). With `RolesOnlyAdd` it gives `GateSound` and
  `RevocationTakesEffect`.
- `JwksCacheProofs`. `JwksInv`: while a fetch is under way the cache is not fresh
  (`LockedMeansStale`); a request in its second look whose key was published when it
  arrived gets a key set fetched since (`KnownKeys`, `SecondLook`); every key in a
  set was published or retired no earlier than the set's stamp (`KeySetsRecent`).
  It gives `RotationPickedUp` and `RetirementTakesEffect`.
- `DatasetProviderProofs`. Two arguments. `GoneInv` is about every behaviour, evictions
  included: a request that is not in `gone` has had its repo all along (`RepoThere`), finds
  the handle it put there (`HandleThere`), and its lock object is the one in the dictionary
  (`LockThere`), which one thread at most has taken (`OneTaker`); what it is about to store
  is no older than the entry unless that is a stray (`LoadNewer`). This gives
  `ErrorOnlyIfGone`, `LoadsOnce` and `SnapshotsMoveForward`. `ProviderInv` is the type
  invariant and, as long as no repo has been removed, `CalmInv`. A listing then finds every
  repo (`ListingComplete`, from `StorageComplete`), so nothing is ever evicted, and a
  handle is still there when it is read again (`HandleKept`). A dataset therefore has one
  lock object, ever (`OneLockObject`), and one thread at most that holds it (`OneHolder`).
  While a thread holds it, the entry is not fresh: it can neither be served nor expire, and
  the snapshot that the thread loads is no older than the entry and than the tip at the
  last expiry (`HolderAlone`, `NothingAhead`). This is what `StaleAtMostOneTtl` needs: the
  snapshot was looked up earlier than it is stored. `ListedStaysKnown` completes the list.
- `NotebookCredentialsProofs`. What a policy allows must be traced to roles and rules of
  some moment, across two steps of the route, the delivery of the answer and the life of
  the credentials. `CallsOK` says that what is under way rests on roles and rules that were
  in force when the request was sent or later, `HeldOK` that credentials rest on those of
  `Window` before their expiry or later; `ChangesOK` says that changes lie in the past, and
  `ReadableOK` follows the open repo through the calls while nothing has been taken away;
  `FitsOK` says that, as long as nothing changed, the policy of every renewal is the one
  that was small enough when the repo was opened. With `PolicyMatchesRules` and
  `RolesOnlyAdd` of `AccessRulesProofs` they give `RevocationReachesNotebooks`,
  `StaysReadable` and `NeverAboutToExpire`.
- `QueryablesProofs`. `TableOK`: the combinations table is empty or complete for one
  snapshot. `ThreadsOK`: for each request under way, the workflow has nothing older in the
  table or in its hands than what it had when the request arrived (`PastOK`), a schema
  that was read was the newest when it was read and is no older than `QueryLimit`
  (`FetchedOK`), and answers are as the properties say. `SchemasOK` bounds how long after
  its replacement a schema can be stored. They give `ValuesFromOneSnapshot`,
  `CatalogueSurvives` and `VerdictRecent`; `CachedValues` is the lemma that the
  combinations table, filtered and projected, gives the distinct values of its snapshot.
- `ServiceProofs` extends the four components that are left, which share no state: each
  names its specification after itself (`BrokerSpec`, `PipelineSpec`, `PagesSpec`, and
  `Spec` for the Polaris jobs). The two listings that are cut by offset, Keycloak's users
  and the pages of a collection, need the same lemmas about ranks, which is why they are
  together: the rank of an element in a finite set of numbers grows when elements come, a
  page of an ordered list is the elements of certain ranks, and a page that is not full is
  the last one.
  - Broker: `BrokerInv` adds that only sessions that exist have rows, and that an exchange
    that found its row expired is right about that until it deletes it, since expiries
    never move. It gives `RowLifecycle`. For `NewestTokenKept`, `NewestHeld` says
    that an exchange that was not overtaken holds the newest token.
  - Pipeline: the counter of a source is what the source has sent in this minute, and what
    has passed is the lesser of that and the limit. The cleanup keeps both because it
    drops only keys of earlier minutes. It gives `LimitIsExact`; `NoPileUp` is a part.
  - Polaris: `RealmOK` describes Keycloak and Polaris, `JobsOK` each run: it has seen
    whatever is held now and only binds what it has seen (`SeenOK`, for
    `NothingRegranted`); unless the listing shifted, what is due and not bound is
    still ahead of it, on its page or at a higher rank (`DueOK`, for `SyncCovers`); the
    version it is about to update is current, or another writer came (`EntityOK`, for
    `AppliedUnlessConflict`).
  - Pages: `LinksKept` says which parameters of the first request a link preserves;
    `ReceivedOnce` and `ReceivedAll` relate what the client has got to the rank that the
    links have reached: the rows it will not get any more (`Missed`) are at most the
    removed ones, since a removal lowers every rank by at most one. They give
    `EveryRowOnce`. `RoleLimitHolds` needs the bound on the size of a page only.

Proved only, and not repeated in a run: the type invariants of `ApiKeyStore` and
`JwksCache`, and that of `RequestGate` as a part of `GateInv`.

The proofs led to two corrections of the modules. The type invariant of `DatasetProvider`
was indented so that it parsed as a weaker formula, which TLC had no reason to report. And
`CollectionPages` did not say that `Filters` contains the filters that its links produce,
without which it has no type invariant for all constants.

Only model-checked: the liveness properties `RolloutConverges`,
`EveryRequestAnswered`, `EveryPageAnswered`, `EveryTokenAnswered` and `EventuallyBound`,
since fairness is out of the prover's reach, and the two violations. `EveryRowOnce` for the
timeseries routes is neither: see below.

## 6. Not modelled

- SQL text, sanitising, serialisation, GeoJSON, grid specs, the contents of datasets.
- The direct token exchange, which is one call to Keycloak without state.
- Encryption of refresh tokens; signatures, issuers and audiences of tokens, which are
  checks on a single value.
- Stable order of the timeseries routes, which order by `value_time` alone, and of the
  metrics routes without `group_by`: `EveryRowOnce` is claimed for routes that order by a
  key only.
- The sum of requests over workers: each worker has a limiter of its own.
- What each grant of `acl-config.json` permits, and more than one realm: the bootstrap
  repeats the same steps for each realm, on separate objects.
- The landing page and the conformance document, which are constants.
- Vector tile archives: range requests over S3 objects, without state of their own.
- Keycloak's bootstrap and the database copy, JupyterHub profiles, manifests and scripts:
  deployment configuration, text transformation at build time and one-off operator tools.
