----------------------------- MODULE Queryables -----------------------------
(***************************************************************************)
(* The catalogue, the queryables and the schema cache of the TEEHR API     *)
(* (api/src/routes/queryables.py, ogc_foundation.py, filtering.py and      *)
(* metrics.py) for one collection.                                         *)
(*                                                                         *)
(* The table behind the collection is rewritten by flows while requests    *)
(* run.  A request is several queries to Trino, each of which sees the     *)
(* table as it is then: it reads the schema, decides on the property and   *)
(* on the filters, and asks for the data.  Two caches stand between: the   *)
(* combinations table, which another workflow fills from a snapshot it     *)
(* read earlier, and the schemas that each API process keeps for a minute. *)
(* Handlers are plain functions, so the server runs them in threads.       *)
(***************************************************************************)
EXTENDS Naturals, Sequences, FiniteSets

CONSTANTS Tables,       \* contents the table may have: [groupBy, metrics, rows]
          First,        \* the contents at the start
          DeclaredColumns, \* static_properties of a collection in COLLECTION_CONFIGS
          Setups,       \* deployments and loads under test, see setup
          Threads,      \* threads of one API process
          Null,         \* SQL NULL
          Ttl,          \* _SCHEMA_CACHE_TTL_SECONDS
          QueryLimit,   \* the longest time between the schema query and its result (assumed)
          MaxTime, MaxCommits \* bounds on the clock and on the number of commits

Columns(table) == table.groupBy \cup table.metrics

ASSUME QueryablesAssumption ==
  /\ First \in Tables
  /\ \A s \in Setups : s.declared => Columns(First) = DeclaredColumns
  /\ \A table \in Tables : \A row \in table.rows : DOMAIN row = Columns(table)
  /\ Ttl \in Nat \ {0} /\ QueryLimit \in Nat /\ MaxTime \in Nat /\ MaxCommits \in Nat

VARIABLES setup,          \* declared: the collection is one of COLLECTION_CONFIGS;
                          \* requireCurrent: CACHE_REQUIRES_CURRENT_SNAPSHOT;
                          \* workflow: the deployment fills the combinations table;
                          \* requests[t]: what a thread is asked for
          now,            \* time.time()
          versions,       \* versions[snapshot]: [table, at], the contents and when they came
          combos,         \* rows of the combinations table: [source, dimensions]
          flow,           \* the snapshot the workflow has read, 0 when it is not running
          completed,      \* the snapshot of the last run that finished
          schemas,        \* _SCHEMA_CACHE: [at, snapshot], snapshot 0 when there is no entry
          thread          \* thread[t]: the request that the thread serves

vars == <<setup, now, versions, combos, flow, completed, schemas, thread>>
tableState == <<versions, combos, flow, completed>>

Snapshot == Len(versions)
Current == versions[Snapshot].table

----------------------------------------------------------------------------
(* Schemas and filters.                                                    *)

CollectionConfigs == [declared |-> TRUE, properties |-> DeclaredColumns, groupBy |-> {}]

GetMetricsTableQueryables(table) ==
  [declared |-> FALSE, properties |-> Columns(table), groupBy |-> table.groupBy]

BuildCollectionSchema(table) ==
  IF setup.declared THEN CollectionConfigs ELSE GetMetricsTableQueryables(table)

GetFilterableColumns(schema, defaultToProperties) ==
  CASE ~schema.declared -> schema.groupBy
    [] schema.declared /\ defaultToProperties -> schema.properties
    [] OTHER -> {}

FiltersVerified(schema, filters, defaultToProperties) ==
  DOMAIN filters \subseteq GetFilterableColumns(schema, defaultToProperties)

\* The text "null" asks for SQL NULL, so that a filter is an equality either way.
Matches(row, filters) == \A column \in DOMAIN filters : row[column] = filters[column]

\* SELECT DISTINCT property FROM table WHERE filters
Distinct(table, property, filters) ==
  {row[property] : row \in {r \in table.rows : Matches(r, filters)}}

----------------------------------------------------------------------------
(* Threads.                                                                *)

Idle == [stage |-> "idle"]

\* What the properties need of the past: the snapshot when the request came, and the one
\* that the last run of the workflow had read by then.
Past(op) ==
  IF op = "values" THEN [from |-> Snapshot, floor |-> IF flow # 0 THEN flow ELSE completed]
                   ELSE [from |-> 0, floor |-> 0]
Serving(request, stage) ==
  [stage |-> stage, request |-> request, past |-> Past(request.op), snapshot |-> 0, readAt |-> 0]

Answer(serving, status, body) ==
  [stage |-> "done", request |-> serving.request, past |-> serving.past,
   status |-> status, body |-> body]

Reply(t, status, body) == thread' = [thread EXCEPT ![t] = Answer(@, status, body)]
Goto(t, stage) == thread' = [thread EXCEPT ![t].stage = stage]

At(t, op, stage) == /\ thread[t].stage = stage
                    /\ thread[t].request.op = op

\* One of the data queries fails when a column it names is gone.
Runs(columns) == columns \subseteq Columns(Current)

Init ==
  /\ setup \in Setups
  /\ now = 0
  /\ versions = <<[table |-> First, at |-> 0]>>
  /\ combos = {} /\ flow = 0 /\ completed = 0
  /\ schemas = [at |-> 0, snapshot |-> 0]
  /\ thread = [t \in Threads |-> Idle]

FirstStage(op) == IF op \in {"collections", "collection"} THEN "spatial" ELSE "schema"

\* Collections that COLLECTION_CONFIGS declares have item routes of their own.
Start(t, request) ==
  /\ thread[t].stage \in {"idle", "done"}
  /\ request.op = "items" => ~setup.declared
  /\ thread' = [thread EXCEPT ![t] = Serving(request, FirstStage(request.op))]
  /\ UNCHANGED <<setup, now, tableState, schemas>>

----------------------------------------------------------------------------
(* queryables.py: both endpoints read the schema afresh.                   *)

GetCollectionQueryables(t) ==
  /\ At(t, "queryables", "schema")
  /\ Reply(t, 200, {})
  /\ UNCHANGED <<setup, now, tableState, schemas>>

\* get_queryable_values up to its first data query
ValuesSchema(t) ==
  LET schema == BuildCollectionSchema(Current)
      request == thread[t].request
  IN /\ At(t, "values", "schema")
     /\ IF /\ request.property \in schema.properties
           /\ FiltersVerified(schema, request.filters, TRUE)
        THEN Goto(t, IF request.property \in schema.groupBy THEN "combinations" ELSE "data")
        ELSE Reply(t, 400, {})
     /\ UNCHANGED <<setup, now, tableState, schemas>>

\* element_at(dimensions, key): NULL when the map has no such key
ElementAt(dimensions, key) == IF key \in DOMAIN dimensions THEN dimensions[key] ELSE Null

\* The WHERE clause of _query_cached_values
CachedMatches(row, filters) ==
  /\ \A key \in DOMAIN filters : ElementAt(row.dimensions, key) = filters[key]
  /\ setup.requireCurrent => row.source = Snapshot

CachedRowsAnyKeys(request) == {row \in combos : CachedMatches(row, request.filters)}

CachedRows(request) ==
  {row \in combos :
     /\ {request.property} \cup DOMAIN request.filters \subseteq DOMAIN row.dimensions
     /\ CachedMatches(row, request.filters)}

QueryCachedValues(t) ==
  LET request == thread[t].request
      rows == CachedRows(request)
  IN /\ At(t, "values", "combinations")
     /\ IF rows = {}
        THEN Goto(t, "data")
        ELSE Reply(t, 200, {ElementAt(row.dimensions, request.property) : row \in rows})
     /\ UNCHANGED <<setup, now, tableState, schemas>>

\* The lookup fails, or the deployment has no such table: the source is asked instead.
CombinationsFail(t) ==
  /\ At(t, "values", "combinations")
  /\ Goto(t, "data")
  /\ UNCHANGED <<setup, now, tableState, schemas>>

GetQueryableValues(t) ==
  LET request == thread[t].request
  IN /\ At(t, "values", "data")
     /\ IF Runs({request.property} \cup DOMAIN request.filters)
        THEN Reply(t, 200, Distinct(Current, request.property, request.filters))
        ELSE Reply(t, 500, {})
     /\ UNCHANGED <<setup, now, tableState, schemas>>

----------------------------------------------------------------------------
(* metrics.py: the items endpoint takes the schema from _SCHEMA_CACHE.     *)

SchemaAt(snapshot) == GetMetricsTableQueryables(versions[snapshot].table)

\* verify_filtered_columns with the schema of a snapshot, and on to the query
Verified(t, snapshot) ==
  IF FiltersVerified(SchemaAt(snapshot), thread[t].request.filters, FALSE)
  THEN thread' = [thread EXCEPT ![t].stage = "data", ![t].snapshot = snapshot]
  ELSE Reply(t, 400, {})

Fresh == schemas.snapshot # 0 /\ now - schemas.at < Ttl

GetCollectionSchemaSliding(t) ==
  /\ At(t, "items", "schema")
  /\ Fresh
  /\ Verified(t, schemas.snapshot)
  /\ schemas' = [schemas EXCEPT !.at = now]
  /\ UNCHANGED <<setup, now, tableState>>

GetCollectionSchemaCached(t) ==
  /\ At(t, "items", "schema")
  /\ Fresh
  /\ Verified(t, schemas.snapshot)
  /\ UNCHANGED <<setup, now, tableState, schemas>>

GetCollectionSchemaQuery(t) ==
  /\ At(t, "items", "schema")
  /\ ~Fresh
  /\ thread' = [thread EXCEPT ![t].stage = "fetched", ![t].snapshot = Snapshot,
                              ![t].readAt = now]
  /\ UNCHANGED <<setup, now, tableState, schemas>>

GetCollectionSchemaStoreExpiry(t) ==
  /\ At(t, "items", "fetched")
  /\ schemas' = [at |-> now + Ttl, snapshot |-> thread[t].snapshot]
  /\ Verified(t, thread[t].snapshot)
  /\ UNCHANGED <<setup, now, tableState>>

\* The entry is stamped when the result is there, which may be after a newer one.
GetCollectionSchemaStore(t) ==
  /\ At(t, "items", "fetched")
  /\ schemas' = [at |-> now, snapshot |-> thread[t].snapshot]
  /\ Verified(t, thread[t].snapshot)
  /\ UNCHANGED <<setup, now, tableState>>

\* SELECT * ... WHERE filters ORDER BY the group_by columns of the schema
GetCollectionItems(t) ==
  /\ At(t, "items", "data")
  /\ Reply(t, IF Runs(SchemaAt(thread[t].snapshot).groupBy
                        \cup DOMAIN thread[t].request.filters)
              THEN 200 ELSE 500, {})
  /\ UNCHANGED <<setup, now, tableState, schemas>>

\* Trino fails: get_metrics_table_queryables does not retry, and a data query that still
\* fails after its retries is answered the same way.
TrinoFails(t) ==
  /\ \/ thread[t].stage = "schema" /\ ~setup.declared /\ (At(t, "items", "schema") => ~Fresh)
     \/ thread[t].stage = "data"
  /\ Reply(t, 500, {})
  /\ UNCHANGED <<setup, now, tableState, schemas>>

----------------------------------------------------------------------------
(* ogc_foundation.py: the list of collections and one entry of it.         *)

NoExtents == [spatial |-> FALSE, temporal |-> FALSE]

\* get_collections builds the same list whichever extents are there, and its entries show
\* those they use; get_collection looks for one id in it.
ReplyCatalogue(t, extents) ==
  IF thread[t].request.op = "collections" \/ thread[t].request.listed
  THEN Reply(t, 200, extents)
  ELSE Reply(t, 404, {})

SpatialExtent(t) ==
  /\ thread[t].stage = "spatial"
  /\ Goto(t, "temporal")
  /\ UNCHANGED <<setup, now, tableState, schemas>>

TemporalExtent(t) ==
  /\ thread[t].stage = "temporal"
  /\ ReplyCatalogue(t, [spatial |-> TRUE, temporal |-> TRUE])
  /\ UNCHANGED <<setup, now, tableState, schemas>>

ExtentFailsHalf(t) ==
  /\ thread[t].stage \in {"spatial", "temporal"}
  /\ ReplyCatalogue(t, [NoExtents EXCEPT !.spatial = thread[t].stage = "temporal"])
  /\ UNCHANGED <<setup, now, tableState, schemas>>

\* Either query fails, or its table is empty and the extent cannot be built, the temporal
\* one when the spatial one is there already: both are reset.
ExtentFails(t) ==
  /\ thread[t].stage \in {"spatial", "temporal"}
  /\ ReplyCatalogue(t, NoExtents)
  /\ UNCHANGED <<setup, now, tableState, schemas>>

----------------------------------------------------------------------------
(* The environment: the flows that write the table, the workflow that      *)
(* fills the combinations table, and time.                                 *)

\* A flow commits other contents.  The columns of a declared collection do not change.
Commit(table) ==
  /\ Len(versions) <= MaxCommits
  /\ table # Current
  /\ setup.declared => Columns(table) = DeclaredColumns
  /\ versions' = Append(versions, [table |-> table, at |-> now])
  /\ UNCHANGED <<setup, now, combos, flow, completed, schemas, thread>>

\* A run reads a snapshot and removes its old rows.
FlowReads ==
  /\ setup.workflow /\ flow = 0 /\ completed < Snapshot
  /\ flow' = Snapshot
  /\ combos' = {}
  /\ UNCHANGED <<setup, now, versions, completed, schemas, thread>>

\* The distinct group_by combinations of a snapshot
Combinations(snapshot) ==
  LET table == versions[snapshot].table
  IN {[source |-> snapshot, dimensions |-> [column \in table.groupBy |-> row[column]]] :
        row \in table.rows}

FlowWrites ==
  /\ flow # 0
  /\ combos' = Combinations(flow)
  /\ completed' = flow
  /\ flow' = 0
  /\ UNCHANGED <<setup, now, versions, schemas, thread>>

FlowDies ==
  /\ flow # 0
  /\ flow' = 0
  /\ UNCHANGED <<setup, now, versions, combos, completed, schemas, thread>>

\* A schema query takes at most QueryLimit.
Tick ==
  /\ now < MaxTime
  /\ \A t \in Threads : thread[t].stage = "fetched" => now < thread[t].readAt + QueryLimit
  /\ now' = now + 1
  /\ UNCHANGED <<setup, tableState, schemas, thread>>

Step(t) ==
  \/ GetCollectionQueryables(t) \/ ValuesSchema(t)
  \/ QueryCachedValues(t) \/ CombinationsFail(t) \/ GetQueryableValues(t)
  \/ GetCollectionSchemaCached(t) \/ GetCollectionSchemaQuery(t)
  \/ GetCollectionSchemaStore(t) \/ GetCollectionItems(t) \/ TrinoFails(t)
  \/ SpatialExtent(t) \/ TemporalExtent(t) \/ ExtentFails(t)

Next ==
  \/ \E t \in Threads : Step(t) \/ \E request \in setup.requests[t] : Start(t, request)
  \/ \E table \in Tables : Commit(table)
  \/ FlowReads \/ FlowWrites \/ FlowDies
  \/ Tick

Spec == Init /\ [][Next]_vars

----------------------------------------------------------------------------
(* Properties.                                                             *)

Stages == {"idle", "spatial", "temporal", "schema", "fetched", "combinations", "data", "done"}

\* Type correctness of the tables, of the caches and of the threads of queryables.py,
\* metrics.py and ogc_foundation.py.
TypeOK ==
  /\ setup \in Setups
  /\ now \in 0..MaxTime
  /\ versions \in Seq([table : Tables, at : 0..MaxTime])
  /\ flow \in 0..Snapshot /\ completed \in 0..Snapshot
  /\ \A row \in combos : row.source \in 1..Snapshot
  /\ schemas.at \in 0..now /\ schemas.snapshot \in 0..Snapshot
  /\ \A t \in Threads : thread[t].stage \in Stages

Answered(t, ops) == thread[t].stage = "done" /\ thread[t].request.op \in ops

\* The values of get_queryable_values are those of one snapshot of the table, with or
\* without the combinations table: the one in force at some time during the request where
\* CACHE_REQUIRES_CURRENT_SNAPSHOT is set, and otherwise none older than what the last run
\* of the workflow had read when the request came.  In particular a row that was made
\* before a column became a dimension never counts as one where it is NULL.
ValuesFromOneSnapshot ==
  \A t \in Threads :
    (Answered(t, {"values"}) /\ thread[t].status = 200) =>
      LET request == thread[t].request
          past == thread[t].past
          oldest == IF setup.requireCurrent \/ past.floor = 0 THEN past.from ELSE past.floor
      IN \E snapshot \in oldest..Snapshot :
           LET table == versions[snapshot].table
           IN /\ {request.property} \cup DOMAIN request.filters \subseteq Columns(table)
              /\ thread[t].body = Distinct(table, request.property, request.filters)

\* A listed collection is found, and an unlisted one is not, whichever of the two extent
\* queries of get_collections fails, and a list is built with both extents or with neither.
CatalogueSurvives ==
  \A t \in Threads :
    Answered(t, {"collections", "collection"}) =>
      \/ thread[t].status = 200 /\ thread[t].body.spatial = thread[t].body.temporal
      \/ thread[t].status = 404 /\ ~thread[t].request.listed

\* Snapshots in force at some time during the last Ttl + QueryLimit
Recent == {snapshot \in 1..Snapshot :
             snapshot < Snapshot => now < versions[snapshot + 1].at + Ttl + QueryLimit}

\* The items endpoint takes or refuses a filter as the table did at most Ttl plus the time
\* of one schema query ago, also when a slow query stores an older schema over a newer one.
VerdictRecent ==
  [][\A t \in Threads :
       LET taken == thread'[t].stage = "data"
           refused == thread'[t].stage = "done" /\ thread'[t].status = 400
       IN ((At(t, "items", "schema") \/ At(t, "items", "fetched")) /\ (taken \/ refused)) =>
            \E snapshot \in Recent :
              FiltersVerified(SchemaAt(snapshot), thread[t].request.filters, FALSE) = taken]_vars

=============================================================================
