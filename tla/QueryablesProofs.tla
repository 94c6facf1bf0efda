-------------------------- MODULE QueryablesProofs --------------------------
(***************************************************************************)
(* Theorems about Queryables, for any contents of the table, any requests  *)
(* and any times that satisfy QueryablesAssumption.                        *)
(***************************************************************************)
EXTENDS Queryables, TLAPS

(* The inductive invariant.  Its parts look at the world w around the      *)
(* threads: the table and its history, the combinations table and time.    *)

World == [setup |-> setup, now |-> now, versions |-> versions, combos |-> combos, flow |-> flow,
          completed |-> completed]

Catalogue == {"collections", "collection"}
AllRequests == UNION {s.requests[t] : s \in Setups, t \in Threads}
Working == Stages \ {"idle", "done"}
ServingRequest == [stage : Working, request : AllRequests, past : [from : Nat, floor : Nat],
                   snapshot : Nat, readAt : Nat]

\* The oldest snapshot whose values may answer a request.
Oldest(past) == IF past.floor = 0 THEN past.from ELSE past.floor

\* What the combinations table holds, and what the workflow is about to write, is no older.
PastOK(w, past) ==
  /\ past.from \in 1..Len(w.versions) /\ past.floor \in 0..Len(w.versions)
  /\ w.combos # {} => w.completed >= Oldest(past)
  /\ w.flow # 0 => w.flow >= Oldest(past)

\* A schema that a thread has read was replaced after that, if at all, and the thread has
\* waited for it no longer than QueryLimit.
FetchedOK(w, x) ==
  /\ x.snapshot \in 1..Len(w.versions)
  /\ x.readAt <= w.now /\ w.now <= x.readAt + QueryLimit
  /\ x.snapshot < Len(w.versions) => w.versions[x.snapshot + 1].at >= x.readAt

\* The values of a snapshot from which a request may be answered.
ValuesAt(w, x, snapshot) ==
  LET table == w.versions[snapshot].table
  IN /\ {x.request.property} \cup DOMAIN x.request.filters \subseteq Columns(table)
     /\ x.body = Distinct(table, x.request.property, x.request.filters)

ValuesOK(w, x) ==
  \E snapshot \in (IF w.setup.requireCurrent THEN x.past.from ELSE Oldest(x.past))..Len(w.versions) :
    ValuesAt(w, x, snapshot)

CatalogueOK(x) ==
  \/ x.status = 200 /\ x.body.spatial = x.body.temporal
  \/ x.status = 404 /\ ~x.request.listed

ThreadOK(w, x) ==
  /\ x.stage \in Stages
  /\ x.stage \in Working => x \in ServingRequest
  /\ x.stage \in {"spatial", "temporal"} => x.request.op \in Catalogue
  /\ x.stage \in Working \ {"spatial", "temporal"} => x.request.op \notin Catalogue
  /\ x.stage = "fetched" => FetchedOK(w, x)
  /\ x.stage # "idle" /\ x.request.op = "values" => PastOK(w, x.past)
  /\ x.stage = "done" /\ x.request.op = "values" /\ x.status = 200 => ValuesOK(w, x)
  /\ x.stage = "done" /\ x.request.op \in Catalogue => CatalogueOK(x)

ThreadsOK == /\ thread = [t \in Threads |-> thread[t]]
             /\ \A t \in Threads : ThreadOK(World, thread[t])

\* The cached schema was stored QueryLimit after it was replaced at the latest.
SchemasOK ==
  /\ schemas.at \in 0..now /\ schemas.snapshot \in 0..Snapshot
  /\ schemas.snapshot # 0 /\ schemas.snapshot < Snapshot
       => versions[schemas.snapshot + 1].at + QueryLimit >= schemas.at

\* The combinations table holds all combinations of one snapshot, or nothing while the
\* workflow runs.
TableOK ==
  /\ setup \in Setups /\ now \in 0..MaxTime
  /\ versions \in Seq([table : Tables, at : 0..MaxTime]) /\ Snapshot >= 1
  /\ flow \in 0..Snapshot /\ completed \in 0..Snapshot
  /\ combos # {} => flow = 0 /\ completed # 0 /\ combos = Combinations(completed)

QueryablesInv == TableOK /\ SchemasOK /\ ThreadsOK

----------------------------------------------------------------------------
(* The combinations table.                                                 *)

\* What _query_cached_values returns, when it finds rows at all, are the distinct values of
\* the snapshot that the workflow had read, although it sees group_by columns only.
LEMMA CachedValues ==
  ASSUME TableOK, combos # {}, NEW request, CachedRows(request) # {}
  PROVE  LET table == versions[completed].table
         IN /\ {request.property} \cup DOMAIN request.filters \subseteq Columns(table)
            /\ {ElementAt(row.dimensions, request.property) : row \in CachedRows(request)}
                 = Distinct(table, request.property, request.filters)
            /\ setup.requireCurrent => completed = Snapshot
<1> DEFINE table == versions[completed].table
           dims(r) == [column \in table.groupBy |-> r[column]]
           combo(r) == [source |-> completed, dimensions |-> dims(r)]
           keys == {request.property} \cup DOMAIN request.filters
           rows == CachedRows(request)
<1>1. combos = {combo(r) : r \in table.rows}
  BY DEF TableOK, Combinations
<1>2. PICK found \in rows : TRUE
  OBVIOUS
<1>3. PICK r0 \in table.rows : found = combo(r0)
  BY <1>1, <1>2 DEF CachedRows
<1>4. keys \subseteq DOMAIN found.dimensions /\ CachedMatches(found, request.filters)
  BY <1>2 DEF CachedRows
<1>5. keys \subseteq table.groupBy
  BY <1>3, <1>4
<1>6. setup.requireCurrent => completed = Snapshot
  BY <1>3, <1>4 DEF CachedMatches
<1>7. ASSUME NEW r \in table.rows, NEW key \in keys
      PROVE  ElementAt(combo(r).dimensions, key) = r[key]
  BY <1>5 DEF ElementAt
<1>8. ASSUME NEW r \in table.rows
      PROVE  combo(r) \in rows <=> Matches(r, request.filters)
  <2>1. combo(r) \in combos
    BY <1>1
  <2>2. keys \subseteq DOMAIN combo(r).dimensions
    BY <1>5
  <2>3. combo(r) \in rows <=> CachedMatches(combo(r), request.filters)
    BY <2>1, <2>2 DEF CachedRows
  <2>4. CachedMatches(combo(r), request.filters)
          <=> \A key \in DOMAIN request.filters :
                ElementAt(combo(r).dimensions, key) = request.filters[key]
    BY <1>6 DEF CachedMatches
  <2> HIDE DEF combo
  <2> QED
    BY <2>3, <2>4, <1>7 DEF Matches
<1>9. ASSUME NEW row \in rows
      PROVE  \E r \in table.rows : row = combo(r)
  BY <1>1 DEF CachedRows
<1>10. {ElementAt(row.dimensions, request.property) : row \in rows}
         = Distinct(table, request.property, request.filters)
  <2> HIDE DEF combo, rows, table
  <2>1. ASSUME NEW row \in rows
        PROVE  ElementAt(row.dimensions, request.property)
                 \in Distinct(table, request.property, request.filters)
    <3>1. PICK r \in table.rows : row = combo(r)
      BY <1>9
    <3>2. Matches(r, request.filters)
      BY <3>1, <1>8
    <3>3. ElementAt(row.dimensions, request.property) = r[request.property]
      BY <3>1, <1>7
    <3> QED
      BY <3>2, <3>3 DEF Distinct
  <2>2. ASSUME NEW value \in Distinct(table, request.property, request.filters)
        PROVE  \E row \in rows : value = ElementAt(row.dimensions, request.property)
    <3>1. PICK r \in table.rows : Matches(r, request.filters) /\ value = r[request.property]
      BY DEF Distinct
    <3>2. combo(r) \in rows
      BY <3>1, <1>8
    <3>3. ElementAt(combo(r).dimensions, request.property) = value
      BY <3>1, <1>7
    <3> QED
      BY <3>2, <3>3
  <2> QED
    BY <2>1, <2>2
<1> QED
  BY <1>5, <1>6, <1>10 DEF Columns

----------------------------------------------------------------------------
(* Steps of threads.                                                       *)

\* A step that changes one thread only keeps the invariant if the new thread is as it should be.
LEMMA ThreadStep ==
  ASSUME QueryablesInv, NEW t \in Threads, NEW x, thread' = [thread EXCEPT ![t] = x],
         ThreadOK(World, x), UNCHANGED <<setup, now, tableState>>, SchemasOK'
  PROVE  QueryablesInv'
<1>1. World' = World
  BY DEF World, tableState
<1>2. TableOK'
  BY DEF QueryablesInv, TableOK, tableState, Snapshot, Combinations
<1>3. thread' = [u \in Threads |-> thread'[u]] /\ \A u \in Threads : ThreadOK(World, thread'[u])
  BY DEF QueryablesInv, ThreadsOK
<1> QED
  BY <1>1, <1>2, <1>3 DEF QueryablesInv, ThreadsOK

\* The schema cache stays as it is.
LEMMA SchemasKept ==
  ASSUME QueryablesInv, UNCHANGED <<setup, now, tableState, schemas>>
  PROVE  SchemasOK'
BY DEF QueryablesInv, SchemasOK, tableState, Snapshot

\* Sending a reply keeps the invariant if its body is what the properties ask of it.
LEMMA ReplyStep ==
  ASSUME QueryablesInv, NEW t \in Threads, NEW status, NEW body,
         thread[t].stage \in Working, Reply(t, status, body),
         UNCHANGED <<setup, now, tableState>>, SchemasOK',
         thread[t].request.op = "values" /\ status = 200
           => ValuesOK(World, Answer(thread[t], status, body)),
         thread[t].request.op \in Catalogue => CatalogueOK(Answer(thread[t], status, body))
  PROVE  QueryablesInv'
<1> DEFINE x == Answer(thread[t], status, body)
<1>1. ThreadOK(World, thread[t])
  BY DEF QueryablesInv, ThreadsOK
<1>2. x.stage = "done" /\ x.request = thread[t].request /\ x.past = thread[t].past
        /\ x.status = status
  BY DEF Answer
<1>3. thread[t].stage # "idle"
  BY DEF Working
<1>4. x.request.op = "values" => PastOK(World, x.past)
  BY <1>1, <1>2, <1>3 DEF ThreadOK
<1>5. ThreadOK(World, x)
  <2> HIDE DEF x
  <2> QED
    BY <1>2, <1>4 DEF ThreadOK, Stages, Working, x
<1>6. thread' = [thread EXCEPT ![t] = x]
  BY DEF Reply
<1> HIDE DEF x
<1> QED
  BY <1>5, <1>6, ThreadStep

\* A thread goes on to another stage.
LEMMA MoveStep ==
  ASSUME QueryablesInv, NEW t \in Threads, NEW x \in ServingRequest,
         thread[t].stage \in Working, thread' = [thread EXCEPT ![t] = x],
         x.request = thread[t].request, x.past = thread[t].past,
         x.stage \in {"spatial", "temporal"} <=> thread[t].stage \in {"spatial", "temporal"},
         x.stage = "fetched" => FetchedOK(World, x),
         UNCHANGED <<setup, now, tableState>>, SchemasOK'
  PROVE  QueryablesInv'
<1>1. ThreadOK(World, thread[t])
  BY DEF QueryablesInv, ThreadsOK
<1>2. x.stage \in Working
  BY DEF ServingRequest
<1>3. thread[t].stage # "idle" /\ x.stage # "done" /\ x.stage \in Stages
  BY <1>2 DEF Working
<1>4. ThreadOK(World, x)
  BY <1>1, <1>2, <1>3 DEF ThreadOK
<1> QED
  BY <1>4, ThreadStep

\* So does going on to the next query of the same request.
LEMMA GotoStep ==
  ASSUME QueryablesInv, NEW t \in Threads, NEW stage \in Working \ {"fetched"},
         thread[t].stage \in Working, Goto(t, stage),
         stage \in {"spatial", "temporal"} <=> thread[t].stage \in {"spatial", "temporal"},
         UNCHANGED <<setup, now, tableState, schemas>>
  PROVE  QueryablesInv'
<1> DEFINE x == [thread[t] EXCEPT !.stage = stage]
<1>1. thread[t] \in ServingRequest
  BY DEF QueryablesInv, ThreadsOK, ThreadOK
<1>2. x \in ServingRequest /\ x.stage = stage /\ x.request = thread[t].request
        /\ x.past = thread[t].past
  BY <1>1 DEF ServingRequest
<1>3. thread' = [thread EXCEPT ![t] = x]
  BY DEF Goto
<1>4. SchemasOK'
  BY SchemasKept
<1> HIDE DEF x
<1> QED
  BY <1>2, <1>3, <1>4, MoveStep

----------------------------------------------------------------------------
(* The actions of a thread.                                                *)

\* The request comes: the past that it must not fall behind is that of the world now.
LEMMA StartStep ==
  ASSUME QueryablesInv, NEW t \in Threads, NEW request \in setup.requests[t], Start(t, request)
  PROVE  QueryablesInv'
<1> DEFINE x == Serving(request, FirstStage(request.op))
<1>1. request \in AllRequests
  BY DEF QueryablesInv, TableOK, AllRequests
<1>2. x.stage = FirstStage(request.op) /\ x.request = request /\ x.past = Past(request.op)
  BY DEF Serving
<1>3. Snapshot \in Nat \ {0} /\ flow \in 0..Snapshot /\ completed \in 0..Snapshot
  BY DEF QueryablesInv, TableOK, Snapshot
<1>4. Past(request.op) \in [from : Nat, floor : Nat]
  BY <1>3 DEF Past
<1>5. FirstStage(request.op) \in Working
  BY DEF FirstStage, Working, Stages
<1>6. x \in ServingRequest
  BY <1>1, <1>4, <1>5 DEF ServingRequest, Serving
<1>7. request.op = "values" => PastOK(World, Past(request.op))
  <2> SUFFICES ASSUME request.op = "values"
               PROVE  PastOK(World, Past(request.op))
    OBVIOUS
  <2> DEFINE floor == IF flow # 0 THEN flow ELSE completed
  <2>1. Past(request.op) = [from |-> Snapshot, floor |-> floor]
    BY DEF Past
  <2>2. combos # {} => flow = 0 /\ completed # 0
    BY DEF QueryablesInv, TableOK
  <2> QED
    BY <1>3, <2>1, <2>2 DEF PastOK, Oldest, World, Snapshot
<1>8. ThreadOK(World, x)
  <2> HIDE DEF x
  <2> QED
    BY <1>2, <1>5, <1>6, <1>7 DEF ThreadOK, FirstStage, Working, Catalogue
<1>9. SchemasOK'
  BY SchemasKept DEF Start
<1> HIDE DEF x
<1> QED
  BY <1>8, <1>9, ThreadStep DEF Start, x

\* Snapshots are committed at natural times.
LEMMA VersionTimes ==
  ASSUME TableOK, NEW k \in 1..Snapshot
  PROVE  versions[k].at \in Nat
<1> DEFINE Version == [table : Tables, at : 0..MaxTime]
<1>1. versions \in Seq(Version)
  BY DEF TableOK
<1>2. versions[k] \in Version
  <2> HIDE DEF Version
  <2> QED
    BY <1>1 DEF Snapshot
<1> QED
  BY <1>2, QueryablesAssumption

\* What the invariant says of the stages that are not those of the catalogue.
LEMMA StageOps ==
  ASSUME QueryablesInv, NEW t \in Threads
  PROVE  /\ thread[t].stage \in {"spatial", "temporal"} => thread[t].request.op \in Catalogue
         /\ thread[t].stage \in {"schema", "fetched", "combinations", "data"}
              => thread[t].request.op \notin Catalogue
BY DEF QueryablesInv, ThreadsOK, ThreadOK, Working, Stages

\* The values come from a snapshot in force when the answer is made, or from the one of
\* the combinations table, which is no older than the request allows.
LEMMA ValuesStep ==
  ASSUME QueryablesInv, NEW t \in Threads,
         \/ ValuesSchema(t) \/ QueryCachedValues(t) \/ CombinationsFail(t)
         \/ GetQueryableValues(t)
  PROVE  QueryablesInv'
<1> DEFINE request == thread[t].request
<1>1. UNCHANGED <<setup, now, tableState, schemas>>
  BY DEF ValuesSchema, QueryCachedValues, CombinationsFail, GetQueryableValues
<1>2. thread[t].stage \in {"schema", "combinations", "data"} /\ request.op = "values"
  BY DEF ValuesSchema, QueryCachedValues, CombinationsFail, GetQueryableValues, At
<1>3. thread[t].stage \in Working /\ thread[t].stage \notin {"spatial", "temporal"}
  BY <1>2 DEF Working, Stages
<1>4. SchemasOK'
  BY <1>1, SchemasKept
<1>5. ASSUME NEW stage \in {"combinations", "data"}, Goto(t, stage)
      PROVE  QueryablesInv'
  BY <1>1, <1>3, <1>5, GotoStep DEF Working, Stages
<1>6. ASSUME NEW status, status # 200, Reply(t, status, {})
      PROVE  QueryablesInv'
  BY <1>1, <1>2, <1>3, <1>4, <1>6, ReplyStep DEF Catalogue
<1>7. PastOK(World, thread[t].past) /\ TableOK
  BY <1>2 DEF QueryablesInv, ThreadsOK, ThreadOK
<1>8. ASSUME NEW body, Reply(t, 200, body),
             NEW snapshot \in 1..Snapshot,
             snapshot >= IF setup.requireCurrent THEN thread[t].past.from
                         ELSE Oldest(thread[t].past),
             {request.property} \cup DOMAIN request.filters
               \subseteq Columns(versions[snapshot].table),
             body = Distinct(versions[snapshot].table, request.property, request.filters)
      PROVE  QueryablesInv'
  <2> DEFINE x == Answer(thread[t], 200, body)
  <2>1. x.request = request /\ x.past = thread[t].past /\ x.body = body
    BY DEF Answer
  <2>2. World.versions = versions /\ World.setup = setup
    BY DEF World
  <2>3. ValuesAt(World, x, snapshot)
    <3> HIDE DEF x, request
    <3> QED
      BY <1>8, <2>1, <2>2 DEF ValuesAt
  <2>4. thread[t].past.from \in Nat /\ Oldest(thread[t].past) \in Nat /\ Snapshot \in Nat
    BY <1>7 DEF PastOK, World, Oldest, TableOK, Snapshot
  <2>5. ValuesOK(World, x)
    <3> HIDE DEF x, request
    <3> QED
      BY <1>8, <2>1, <2>2, <2>3, <2>4 DEF ValuesOK, Snapshot
  <2> HIDE DEF x
  <2> QED
    BY <1>1, <1>2, <1>3, <1>4, <1>8, <2>5, ReplyStep DEF Catalogue, x
<1>9. CASE ValuesSchema(t)
  <2>1. (\E stage \in {"combinations", "data"} : Goto(t, stage)) \/ Reply(t, 400, {})
    BY <1>9 DEF ValuesSchema
  <2> QED
    BY <1>5, <1>6, <2>1
<1>10. CASE QueryCachedValues(t)
  <2>1. CASE CachedRows(request) = {}
    BY <1>5, <1>10, <2>1 DEF QueryCachedValues
  <2>2. CASE CachedRows(request) # {}
    <3> DEFINE body == {ElementAt(row.dimensions, request.property) : row \in CachedRows(request)}
    <3>1. combos # {}
      BY <2>2 DEF CachedRows
    <3>2. Reply(t, 200, body)
      BY <1>10, <2>2 DEF QueryCachedValues
    <3>3. completed \in 1..Snapshot
      BY <1>7, <3>1 DEF TableOK, Snapshot
    <3>4. /\ {request.property} \cup DOMAIN request.filters
               \subseteq Columns(versions[completed].table)
          /\ body = Distinct(versions[completed].table, request.property, request.filters)
          /\ setup.requireCurrent => completed = Snapshot
      BY <1>7, <2>2, <3>1, CachedValues
    <3>5. completed >= IF setup.requireCurrent THEN thread[t].past.from
                       ELSE Oldest(thread[t].past)
      BY <1>7, <3>1, <3>3, <3>4 DEF PastOK, World, Snapshot
    <3> HIDE DEF body, request
    <3> QED
      BY <1>8, <3>2, <3>3, <3>4, <3>5
  <2> QED
    BY <2>1, <2>2
<1>11. CASE CombinationsFail(t)
  BY <1>5, <1>11 DEF CombinationsFail
<1>12. CASE GetQueryableValues(t)
  <2>1. CASE Runs({request.property} \cup DOMAIN request.filters)
    <3> DEFINE body == Distinct(versions[Snapshot].table, request.property, request.filters)
    <3>1. Reply(t, 200, body)
      BY <1>12, <2>1 DEF GetQueryableValues, Current
    <3>2. {request.property} \cup DOMAIN request.filters
            \subseteq Columns(versions[Snapshot].table)
      BY <2>1 DEF Runs, Current
    <3>3. Snapshot \in 1..Snapshot
      BY <1>7 DEF TableOK, Snapshot
    <3>4. Snapshot >= IF setup.requireCurrent THEN thread[t].past.from
                      ELSE Oldest(thread[t].past)
      BY <1>7, <3>3 DEF PastOK, World, Snapshot, Oldest
    <3> HIDE DEF request
    <3> QED
      BY <1>8, <3>1, <3>2, <3>3, <3>4
  <2>2. CASE ~Runs({request.property} \cup DOMAIN request.filters)
    BY <1>6, <1>12, <2>2 DEF GetQueryableValues
  <2> QED
    BY <2>1, <2>2
<1> QED
  BY <1>9, <1>10, <1>11, <1>12

\* The other answers and moves that leave the schema cache alone.
LEMMA AnswerStep ==
  ASSUME QueryablesInv, NEW t \in Threads,
         GetCollectionQueryables(t) \/ GetCollectionItems(t) \/ TrinoFails(t)
  PROVE  QueryablesInv'
<1>1. UNCHANGED <<setup, now, tableState, schemas>>
  BY DEF GetCollectionQueryables, GetCollectionItems, TrinoFails
<1>2. thread[t].stage \in {"schema", "data"}
  BY DEF GetCollectionQueryables, GetCollectionItems, TrinoFails, At
<1>3. thread[t].stage \in Working /\ thread[t].request.op \notin Catalogue
  BY <1>2, StageOps DEF Working, Stages
<1>4. SchemasOK'
  BY <1>1, SchemasKept
<1>5. CASE GetCollectionQueryables(t)
  BY <1>1, <1>3, <1>4, <1>5, ReplyStep DEF GetCollectionQueryables, At
<1>6. CASE GetCollectionItems(t)
  <2>1. PICK status : Reply(t, status, {})
    BY <1>6 DEF GetCollectionItems
  <2> QED
    BY <1>1, <1>3, <1>4, <1>6, <2>1, ReplyStep DEF GetCollectionItems, At
<1>7. CASE TrinoFails(t)
  BY <1>1, <1>3, <1>4, <1>7, ReplyStep DEF TrinoFails
<1> QED
  BY <1>5, <1>6, <1>7

\* The two queries behind the list of collections, and their failure, keep the invariant.
LEMMA CatalogueStep ==
  ASSUME QueryablesInv, NEW t \in Threads,
         SpatialExtent(t) \/ TemporalExtent(t) \/ ExtentFails(t)
  PROVE  QueryablesInv'
<1>1. UNCHANGED <<setup, now, tableState, schemas>>
  BY DEF SpatialExtent, TemporalExtent, ExtentFails
<1>2. thread[t].stage \in {"spatial", "temporal"}
  BY DEF SpatialExtent, TemporalExtent, ExtentFails
<1>3. thread[t].stage \in Working /\ thread[t].request.op \in Catalogue
  BY <1>2, StageOps DEF Working, Stages
<1>4. SchemasOK'
  BY <1>1, SchemasKept
<1>5. CASE SpatialExtent(t)
  BY <1>1, <1>2, <1>3, <1>5, GotoStep DEF SpatialExtent, Working, Stages
<1>6. ASSUME NEW extents, ReplyCatalogue(t, extents), extents.spatial = extents.temporal
      PROVE  QueryablesInv'
  <2>1. CASE thread[t].request.op = "collections" \/ thread[t].request.listed
    <3>1. Reply(t, 200, extents)
      BY <1>6, <2>1 DEF ReplyCatalogue
    <3>2. CatalogueOK(Answer(thread[t], 200, extents))
      BY <1>6 DEF CatalogueOK, Answer
    <3> QED
      BY <1>1, <1>3, <1>4, <3>1, <3>2, ReplyStep DEF Catalogue
  <2>2. CASE ~(thread[t].request.op = "collections" \/ thread[t].request.listed)
    <3>1. Reply(t, 404, {})
      BY <1>6, <2>2 DEF ReplyCatalogue
    <3>2. CatalogueOK(Answer(thread[t], 404, {}))
      BY <2>2 DEF CatalogueOK, Answer
    <3> QED
      BY <1>1, <1>3, <1>4, <3>1, <3>2, ReplyStep DEF Catalogue
  <2> QED
    BY <2>1, <2>2
<1>7. CASE TemporalExtent(t)
  BY <1>6, <1>7 DEF TemporalExtent
<1>8. CASE ExtentFails(t)
  BY <1>6, <1>8 DEF ExtentFails, NoExtents
<1> QED
  BY <1>5, <1>7, <1>8

\* The items endpoint takes a schema from the cache, asks for one, or stores it.
LEMMA SchemaStep ==
  ASSUME QueryablesInv, NEW t \in Threads,
         \/ GetCollectionSchemaCached(t) \/ GetCollectionSchemaQuery(t)
         \/ GetCollectionSchemaStore(t)
  PROVE  QueryablesInv'
<1>1. UNCHANGED <<setup, now, tableState>>
  BY DEF GetCollectionSchemaCached, GetCollectionSchemaQuery, GetCollectionSchemaStore
<1>2. thread[t].stage \in {"schema", "fetched"} /\ thread[t].request.op = "items"
  BY DEF GetCollectionSchemaCached, GetCollectionSchemaQuery, GetCollectionSchemaStore, At
<1>3. thread[t].stage \in Working /\ thread[t].request.op \notin Catalogue
        /\ thread[t].stage \notin {"spatial", "temporal"}
  BY <1>2, StageOps DEF Working, Stages
<1>4. thread[t] \in ServingRequest
  BY <1>3 DEF QueryablesInv, ThreadsOK, ThreadOK
<1>5. /\ Snapshot \in Nat \ {0} /\ now \in Nat
      /\ schemas.at \in 0..now /\ schemas.snapshot \in 0..Snapshot
  BY DEF QueryablesInv, TableOK, SchemasOK, Snapshot
<1>6. ASSUME NEW snapshot \in Nat, Verified(t, snapshot), SchemasOK'
      PROVE  QueryablesInv'
  <2>1. CASE FiltersVerified(SchemaAt(snapshot), thread[t].request.filters, FALSE)
    <3> DEFINE x == [thread[t] EXCEPT !.stage = "data", !.snapshot = snapshot]
    <3>1. thread' = [thread EXCEPT ![t] = x]
      BY <1>6, <2>1 DEF Verified
    <3>2. x \in ServingRequest /\ x.stage = "data" /\ x.request = thread[t].request
            /\ x.past = thread[t].past
      BY <1>4 DEF ServingRequest, Working, Stages
    <3> HIDE DEF x
    <3> QED
      BY <1>1, <1>3, <1>6, <3>1, <3>2, MoveStep
  <2>2. CASE ~FiltersVerified(SchemaAt(snapshot), thread[t].request.filters, FALSE)
    <3>1. Reply(t, 400, {})
      BY <1>6, <2>2 DEF Verified
    <3> QED
      BY <1>1, <1>2, <1>3, <1>6, <3>1, ReplyStep
  <2> QED
    BY <2>1, <2>2
<1>7. CASE GetCollectionSchemaCached(t)
  <2>1. SchemasOK'
    BY <1>7, SchemasKept DEF GetCollectionSchemaCached
  <2> QED
    BY <1>5, <1>6, <1>7, <2>1 DEF GetCollectionSchemaCached
<1>8. CASE GetCollectionSchemaQuery(t)
  <2>1. SchemasOK'
    BY <1>8, SchemasKept DEF GetCollectionSchemaQuery
  <2> DEFINE x == [thread[t] EXCEPT !.stage = "fetched", !.snapshot = Snapshot, !.readAt = now]
  <2>2. thread' = [thread EXCEPT ![t] = x]
    BY <1>8 DEF GetCollectionSchemaQuery
  <2>3. x \in ServingRequest /\ x.stage = "fetched" /\ x.request = thread[t].request
          /\ x.past = thread[t].past /\ x.snapshot = Snapshot /\ x.readAt = now
    BY <1>4, <1>5 DEF ServingRequest, Working, Stages
  <2> HIDE DEF x
  <2>4. FetchedOK(World, x)
    BY <1>5, <2>3, QueryablesAssumption DEF FetchedOK, World, Snapshot
  <2> QED
    BY <1>1, <1>3, <2>1, <2>2, <2>3, <2>4, MoveStep
<1>9. CASE GetCollectionSchemaStore(t)
  <2>1. thread[t].stage = "fetched" /\ schemas' = [at |-> now, snapshot |-> thread[t].snapshot]
    BY <1>9 DEF GetCollectionSchemaStore, At
  <2>2. FetchedOK(World, thread[t])
    BY <2>1 DEF QueryablesInv, ThreadsOK, ThreadOK
  <2>3. thread[t].readAt \in Nat /\ thread[t].snapshot \in Nat
    BY <1>4 DEF ServingRequest
  <2>4. versions' = versions /\ now' = now
    BY <1>1 DEF tableState
  <2>5. \A k \in 1..Snapshot : versions[k].at \in Nat
    BY VersionTimes DEF QueryablesInv
  <2> DEFINE k == thread[t].snapshot
  <2>6. /\ k \in 1..Snapshot /\ now <= thread[t].readAt + QueryLimit
        /\ k < Snapshot => versions[k + 1].at >= thread[t].readAt
    BY <2>2 DEF FetchedOK, World, Snapshot
  <2>7. k < Snapshot => versions[k + 1].at + QueryLimit >= now
    <3> SUFFICES ASSUME k < Snapshot
                 PROVE  versions[k + 1].at + QueryLimit >= now
      OBVIOUS
    <3>1. versions[k + 1].at \in Nat
      BY <1>5, <2>5, <2>6
    <3> QED
      BY <1>5, <2>3, <2>6, <3>1, QueryablesAssumption
  <2>8. schemas'.at = now /\ schemas'.snapshot = k
    BY <2>1
  <2> HIDE DEF k
  <2>9. SchemasOK'
    BY <1>5, <2>4, <2>6, <2>7, <2>8 DEF SchemasOK, Snapshot
  <2> QED
    BY <1>6, <1>9, <2>3, <2>9 DEF GetCollectionSchemaStore
<1> QED
  BY <1>7, <1>8, <1>9

----------------------------------------------------------------------------
(* The environment: no thread moves, and the history only grows.           *)

\* A step that changes no thread keeps the invariant if snapshots are only added and what the
\* threads remember of the past stays true.
LEMMA WorldStep ==
  ASSUME QueryablesInv, UNCHANGED <<setup, thread>>, TableOK', SchemasOK',
         Snapshot' >= Snapshot, \A k \in 1..Snapshot : versions'[k] = versions[k],
         \A t \in Threads : thread[t].stage = "fetched" /\ FetchedOK(World, thread[t])
                              => FetchedOK(World', thread[t]),
         \A t \in Threads : PastOK(World, thread[t].past) => PastOK(World', thread[t].past)
  PROVE  QueryablesInv'
<1>1. ASSUME NEW t \in Threads, PastOK(World, thread[t].past), ValuesOK(World, thread[t])
      PROVE  ValuesOK(World', thread[t])
  <2> DEFINE x == thread[t]
             oldest == IF setup.requireCurrent THEN x.past.from ELSE Oldest(x.past)
  <2>1. /\ World.versions = versions /\ World'.versions = versions'
        /\ World.setup = setup /\ World'.setup = setup
    BY DEF World
  <2>2. PICK k \in oldest..Snapshot : ValuesAt(World, x, k)
    BY <1>1, <2>1 DEF ValuesOK, Snapshot
  <2>3. x.past.from \in Nat /\ Oldest(x.past) \in Nat /\ Snapshot \in Nat /\ Snapshot' \in Nat
    <3>1. versions \in Seq([table : Tables, at : 0..MaxTime])
            /\ versions' \in Seq([table : Tables, at : 0..MaxTime])
      BY DEF QueryablesInv, TableOK
    <3>2. Len(versions) \in Nat /\ Len(versions') \in Nat
      BY <3>1
    <3>3. x.past.from \in Nat /\ x.past.floor \in Nat
      BY <1>1, <2>1, <3>2 DEF PastOK
    <3> QED
      BY <3>2, <3>3 DEF Oldest, Snapshot
  <2>4. PastOK(World, x.past) => x.past.from >= 1 /\ (Oldest(x.past) >= 1)
    BY <2>1, <2>3 DEF PastOK, Oldest
  <2>5. k \in 1..Snapshot /\ k \in oldest..Snapshot'
    BY <1>1, <2>2, <2>3, <2>4
  <2>6. World'.versions[k] = World.versions[k]
    BY <2>1, <2>5
  <2>7. ValuesAt(World', x, k)
    BY <2>2, <2>6 DEF ValuesAt
  <2> QED
    BY <2>1, <2>5, <2>7 DEF ValuesOK, Snapshot
<1>2. ASSUME NEW t \in Threads
      PROVE  ThreadOK(World', thread[t])
  BY <1>1 DEF QueryablesInv, ThreadsOK, ThreadOK
<1>3. thread' = thread /\ thread = [t \in Threads |-> thread[t]]
  BY DEF QueryablesInv, ThreadsOK
<1>4. ThreadsOK'
  BY <1>2, <1>3 DEF ThreadsOK
<1> QED
  BY <1>4 DEF QueryablesInv

\* A commit is no earlier than any query that has read the table.
LEMMA CommitStep ==
  ASSUME QueryablesInv, NEW table \in Tables, Commit(table)
  PROVE  QueryablesInv'
<1> DEFINE Version == [table : Tables, at : 0..MaxTime]
           version == [table |-> table, at |-> now]
<1>1. /\ versions \in Seq(Version) /\ Snapshot \in Nat \ {0} /\ now \in 0..MaxTime
      /\ flow \in 0..Snapshot /\ completed \in 0..Snapshot
      /\ combos # {} => flow = 0 /\ completed # 0 /\ combos = Combinations(completed)
  BY DEF QueryablesInv, TableOK, Snapshot
<1>2. /\ UNCHANGED <<setup, now, combos, flow, completed, schemas, thread>>
      /\ versions' = Append(versions, version) /\ version \in Version
  BY <1>1 DEF Commit
<1>3. /\ versions' \in Seq(Version) /\ Snapshot' = Snapshot + 1
      /\ versions'[Snapshot + 1] = version
      /\ \A k \in 1..Snapshot : versions'[k] = versions[k]
  <2> HIDE DEF Version, version
  <2> QED
    BY <1>1, <1>2 DEF Snapshot
<1>4. versions'[Snapshot + 1].at = now
  <2>1. versions'[Snapshot + 1] = [table |-> table, at |-> now]
    BY <1>3
  <2> QED
    BY <2>1
<1>5. completed # 0 => Combinations(completed)' = Combinations(completed)
  <2>1. completed' = completed
    BY <1>2
  <2>2. completed # 0 => completed \in 1..Snapshot
    BY <1>1
  <2>3. completed # 0 => versions'[completed] = versions[completed]
    BY <1>3, <2>2
  <2> QED
    BY <2>1, <2>3 DEF Combinations
<1>6. TableOK'
  BY <1>1, <1>2, <1>3, <1>5 DEF TableOK, QueryablesInv, Version
<1> HIDE DEF version, Version
<1>7. SchemasOK'
  <2>1. SchemasOK
    BY DEF QueryablesInv
  <2>2. CASE schemas.snapshot = Snapshot
    <3>1. schemas.at \in 0..now
      BY <2>1 DEF SchemasOK
    <3>2. versions'[schemas.snapshot + 1].at + QueryLimit >= schemas.at
      BY <1>1, <1>4, <2>2, <3>1, QueryablesAssumption
    <3>3. schemas.snapshot \in 0..Snapshot'
      BY <1>1, <1>3, <2>2
    <3> QED
      BY <1>2, <3>1, <3>2, <3>3 DEF SchemasOK
  <2>3. CASE schemas.snapshot # Snapshot
    <3>1. schemas.snapshot \in 0..Snapshot /\ schemas.snapshot < Snapshot
            /\ schemas.snapshot + 1 \in 1..Snapshot
      BY <1>1, <2>1, <2>3 DEF SchemasOK
    <3>2. versions'[schemas.snapshot + 1] = versions[schemas.snapshot + 1]
      BY <1>3, <3>1
    <3>3. schemas.snapshot \in 0..Snapshot'
      BY <1>1, <1>3, <3>1
    <3> QED
      BY <1>2, <2>1, <3>1, <3>2, <3>3 DEF SchemasOK
  <2> QED
    BY <2>2, <2>3
<1>8. /\ World.versions = versions /\ World.now = now /\ World.combos = combos
      /\ World.flow = flow /\ World.completed = completed
      /\ World'.versions = versions' /\ World'.now = now /\ World'.combos = combos
      /\ World'.flow = flow /\ World'.completed = completed
  BY <1>2 DEF World
<1>9. ASSUME NEW t \in Threads, FetchedOK(World, thread[t])
      PROVE  FetchedOK(World', thread[t])
  <2> DEFINE x == thread[t]
  <2>1. /\ x.snapshot \in 1..Snapshot /\ x.readAt <= now /\ now <= x.readAt + QueryLimit
        /\ x.snapshot < Snapshot => versions[x.snapshot + 1].at >= x.readAt
    BY <1>8, <1>9 DEF FetchedOK, Snapshot
  <2>2. x.snapshot < Snapshot => versions'[x.snapshot + 1] = versions[x.snapshot + 1]
    BY <1>1, <1>3, <2>1
  <2>3. x.snapshot < Snapshot' => versions'[x.snapshot + 1].at >= x.readAt
    <3>1. CASE x.snapshot = Snapshot
      BY <1>1, <1>4, <2>1, <3>1
    <3>2. CASE x.snapshot < Snapshot
      BY <2>1, <2>2, <3>2
    <3> QED
      BY <1>1, <1>3, <2>1, <3>1, <3>2
  <2> HIDE DEF x
  <2>4. x.snapshot \in 1..Snapshot'
    BY <1>1, <1>3, <2>1
  <2> QED
    BY <1>8, <2>1, <2>3, <2>4 DEF FetchedOK, Snapshot, x
<1>10. ASSUME NEW past, PastOK(World, past)
       PROVE  PastOK(World', past)
  BY <1>1, <1>3, <1>8, <1>10 DEF PastOK, Snapshot
<1>11. Snapshot' >= Snapshot
  BY <1>1, <1>3
<1> QED
  BY <1>2, <1>3, <1>6, <1>7, <1>9, <1>10, <1>11, WorldStep

\* The workflow writes what it read, and never has rows in the table while it runs.
LEMMA FlowStep ==
  ASSUME QueryablesInv, FlowReads \/ FlowWrites \/ FlowDies
  PROVE  QueryablesInv'
<1>1. /\ Snapshot \in Nat \ {0} /\ flow \in 0..Snapshot /\ completed \in 0..Snapshot
      /\ combos # {} => flow = 0 /\ completed # 0 /\ combos = Combinations(completed)
  BY DEF QueryablesInv, TableOK, Snapshot
<1>2. UNCHANGED <<setup, now, versions, schemas, thread>>
  BY DEF FlowReads, FlowWrites, FlowDies
<1>3. \/ flow' = Snapshot /\ combos' = {} /\ completed' = completed
      \/ flow # 0 /\ combos' = Combinations(flow) /\ completed' = flow /\ flow' = 0
      \/ flow # 0 /\ flow' = 0 /\ combos' = combos /\ completed' = completed
  BY DEF FlowReads, FlowWrites, FlowDies
<1>4. Snapshot' = Snapshot
  BY <1>2 DEF Snapshot
<1>5. (combos # {} => flow = 0 /\ completed # 0 /\ combos = Combinations(completed))'
  BY <1>1, <1>2, <1>3 DEF Combinations
<1>6. TableOK'
  BY <1>1, <1>2, <1>3, <1>4, <1>5 DEF TableOK, QueryablesInv
<1>7. SchemasOK'
  BY <1>2, <1>4 DEF QueryablesInv, SchemasOK
<1>8. /\ World.versions = versions /\ World.now = now /\ World.combos = combos
      /\ World.flow = flow /\ World.completed = completed
      /\ World'.versions = versions /\ World'.now = now /\ World'.combos = combos'
      /\ World'.flow = flow' /\ World'.completed = completed'
  BY <1>2 DEF World
<1>9. ASSUME NEW x, FetchedOK(World, x)
      PROVE  FetchedOK(World', x)
  BY <1>8, <1>9 DEF FetchedOK
<1>10. ASSUME NEW past, PastOK(World, past)
       PROVE  PastOK(World', past)
  <2>1. /\ past.from \in 1..Snapshot /\ past.floor \in 0..Snapshot
        /\ combos # {} => completed >= Oldest(past)
        /\ flow # 0 => flow >= Oldest(past)
    BY <1>8, <1>10 DEF PastOK, Snapshot
  <2>2. Oldest(past) <= Snapshot
    BY <1>1, <2>1 DEF Oldest
  <2>3. /\ combos' # {} => completed' >= Oldest(past)
        /\ flow' # 0 => flow' >= Oldest(past)
    BY <1>1, <1>3, <2>1, <2>2
  <2> QED
    BY <1>8, <2>1, <2>3 DEF PastOK, Snapshot
<1> QED
  BY <1>1, <1>2, <1>4, <1>6, <1>7, <1>9, <1>10, WorldStep

\* Time goes on: entries of the schema cache and fetched schemas age within their bounds.
LEMMA TickStep ==
  ASSUME QueryablesInv, Tick
  PROVE  QueryablesInv'
<1>1. /\ UNCHANGED <<setup, versions, combos, flow, completed, schemas, thread>>
      /\ now \in Nat /\ now' = now + 1 /\ now < MaxTime
      /\ Snapshot \in Nat
  BY DEF Tick, tableState, QueryablesInv, TableOK, Snapshot
<1>2. TableOK'
  <2>1. now' \in 0..MaxTime
    BY <1>1, QueryablesAssumption
  <2> QED
    BY <1>1, <2>1 DEF QueryablesInv, TableOK, Snapshot, Combinations
<1>3. SchemasOK'
  BY <1>1 DEF QueryablesInv, SchemasOK, Snapshot
<1>4. /\ World.versions = versions /\ World.now = now /\ World.combos = combos
      /\ World.flow = flow /\ World.completed = completed
      /\ World'.versions = versions /\ World'.now = now + 1 /\ World'.combos = combos
      /\ World'.flow = flow /\ World'.completed = completed
  BY <1>1 DEF World
<1>5. ASSUME NEW t \in Threads, thread[t].stage = "fetched", FetchedOK(World, thread[t])
      PROVE  FetchedOK(World', thread[t])
  <2>1. thread[t].readAt \in Nat
    BY <1>5 DEF QueryablesInv, ThreadsOK, ThreadOK, ServingRequest, Working, Stages
  <2>2. now < thread[t].readAt + QueryLimit
    BY <1>5 DEF Tick
  <2> QED
    BY <1>1, <1>4, <1>5, <2>1, <2>2, QueryablesAssumption DEF FetchedOK
<1>6. ASSUME NEW past, PastOK(World, past)
      PROVE  PastOK(World', past)
  BY <1>4, <1>6 DEF PastOK
<1> QED
  BY <1>1, <1>2, <1>3, <1>5, <1>6, WorldStep DEF Snapshot

----------------------------------------------------------------------------
\* The invariant holds initially, with an empty cache.
LEMMA QueryablesInit == Init => QueryablesInv
<1> SUFFICES ASSUME Init
             PROVE  QueryablesInv
  OBVIOUS
<1> DEFINE version == [table |-> First, at |-> 0]
           Version == [table : Tables, at : 0..MaxTime]
<1>1. version \in Version
  BY QueryablesAssumption
<1>2. versions \in Seq(Version) /\ Len(versions) = 1
  <2>1. versions = <<version>>
    BY DEF Init
  <2> HIDE DEF version, Version
  <2> QED
    BY <1>1, <2>1
<1>3. now \in 0..MaxTime
  BY QueryablesAssumption DEF Init
<1>4. TableOK
  BY <1>2, <1>3 DEF Init, TableOK, Snapshot
<1>5. SchemasOK
  BY <1>2 DEF Init, SchemasOK, Snapshot
<1>6. ThreadOK(World, Idle)
  <2>1. Idle.stage = "idle"
    BY DEF Idle
  <2> QED
    BY <2>1 DEF ThreadOK, Working, Stages
<1>7. ThreadsOK
  BY <1>6 DEF Init, ThreadsOK
<1> QED
  BY <1>4, <1>5, <1>7 DEF QueryablesInv

\* Every step keeps the invariant.
LEMMA QueryablesNext == QueryablesInv /\ [Next]_vars => QueryablesInv'
<1> SUFFICES ASSUME QueryablesInv, [Next]_vars
             PROVE  QueryablesInv'
  OBVIOUS
<1>1. ASSUME NEW t \in Threads, Step(t)
      PROVE  QueryablesInv'
  BY <1>1, ValuesStep, AnswerStep, CatalogueStep, SchemaStep DEF Step
<1>2. ASSUME NEW t \in Threads, NEW request \in setup.requests[t], Start(t, request)
      PROVE  QueryablesInv'
  BY <1>2, StartStep
<1>3. ASSUME NEW table \in Tables, Commit(table)
      PROVE  QueryablesInv'
  BY <1>3, CommitStep
<1>4. CASE FlowReads \/ FlowWrites \/ FlowDies
  BY <1>4, FlowStep
<1>5. CASE Tick
  BY <1>5, TickStep
<1>6. CASE UNCHANGED vars
  <2>1. World' = World
    BY <1>6 DEF vars, World
  <2>2. TableOK' /\ SchemasOK'
    BY <1>6 DEF vars, QueryablesInv, TableOK, SchemasOK, Snapshot, Combinations
  <2> QED
    BY <1>6, <2>1, <2>2 DEF vars, QueryablesInv, ThreadsOK
<1> QED
  BY <1>1, <1>2, <1>3, <1>4, <1>5, <1>6 DEF Next

\* The inductive invariant of the queryables.
LEMMA QueryablesInductive == Spec => []QueryablesInv
BY QueryablesInit, QueryablesNext, PTL DEF Spec

----------------------------------------------------------------------------
(* The theorems.                                                           *)

\* Tables, caches and threads keep their types, whatever flows commit and in whatever order
\* the threads of queryables.py, metrics.py and ogc_foundation.py run.
THEOREM QueryablesTypes == Spec => []TypeOK
<1>1. QueryablesInv => TypeOK
  <2> SUFFICES ASSUME QueryablesInv
               PROVE  TypeOK
    OBVIOUS
  <2>1. TableOK /\ SchemasOK
    BY DEF QueryablesInv
  <2>2. \A row \in combos : row.source \in 1..Snapshot
    <3> SUFFICES ASSUME NEW row \in combos
                 PROVE  row.source \in 1..Snapshot
      OBVIOUS
    <3>1. row.source = completed
      BY <2>1 DEF TableOK, Combinations
    <3>2. completed \in 1..Snapshot
      BY <2>1 DEF TableOK, Snapshot
    <3> QED
      BY <3>1, <3>2
  <2>3. \A t \in Threads : thread[t].stage \in Stages
    BY DEF QueryablesInv, ThreadsOK, ThreadOK
  <2> QED
    BY <2>1, <2>2, <2>3 DEF TypeOK, TableOK, SchemasOK
<1> QED
  BY <1>1, QueryablesInductive, PTL

\* An answer of get_queryable_values holds the values of one snapshot, no older than the
\* request allows, whether or not it came from the combinations table.
THEOREM OneSnapshot == Spec => []ValuesFromOneSnapshot
<1>1. QueryablesInv => ValuesFromOneSnapshot
  <2> SUFFICES ASSUME QueryablesInv, NEW t \in Threads,
                      Answered(t, {"values"}), thread[t].status = 200
               PROVE  \E snapshot \in (IF setup.requireCurrent \/ thread[t].past.floor = 0
                                       THEN thread[t].past.from
                                       ELSE thread[t].past.floor)..Snapshot :
                        ValuesAt(World, thread[t], snapshot)
    BY DEF ValuesFromOneSnapshot, ValuesAt, World
  <2>1. ValuesOK(World, thread[t])
    BY DEF QueryablesInv, ThreadsOK, ThreadOK, Answered
  <2> QED
    BY <2>1 DEF ValuesOK, Oldest, World, Snapshot
<1> QED
  BY <1>1, QueryablesInductive, PTL

\* The catalogue keeps its entries, whichever of the extent queries of get_collections fails.
THEOREM CatalogueKept == Spec => []CatalogueSurvives
<1>1. QueryablesInv => CatalogueSurvives
  BY DEF QueryablesInv, ThreadsOK, ThreadOK, CatalogueSurvives, CatalogueOK, Catalogue, Answered
<1> QED
  BY <1>1, QueryablesInductive, PTL

\* A filter of the items endpoint is judged by a schema that was in force at most Ttl and
\* the time of one query ago, although a slow query may store an old schema over a new one.
THEOREM VerdictsRecent == Spec => VerdictRecent
<1> DEFINE Judged(t) ==
             LET taken == thread'[t].stage = "data"
                 refused == thread'[t].stage = "done" /\ thread'[t].status = 400
             IN ((At(t, "items", "schema") \/ At(t, "items", "fetched")) /\ (taken \/ refused)) =>
                  \E snapshot \in Recent :
                    FiltersVerified(SchemaAt(snapshot), thread[t].request.filters, FALSE) = taken
           Expected(t, snapshot) ==
             FiltersVerified(SchemaAt(snapshot), thread[t].request.filters, FALSE)
<1>1. ASSUME QueryablesInv, Next, NEW t \in Threads
      PROVE  Judged(t)
  <2>0. /\ Snapshot \in Nat \ {0} /\ now \in Nat /\ schemas.at \in 0..now
        /\ schemas.snapshot \in 0..Snapshot
    BY <1>1 DEF QueryablesInv, TableOK, SchemasOK, Snapshot
  <2>1. CASE thread'[t] = thread[t]
    BY <2>1 DEF At
  <2>2. ASSUME NEW snapshot \in Recent, Verified(t, snapshot),
               thread[t].stage \in {"schema", "fetched"}
        PROVE  Judged(t)
    <3>0. thread[t] \in ServingRequest
      BY <1>1, <2>2 DEF QueryablesInv, ThreadsOK, ThreadOK, Working, Stages
    <3>1. CASE Expected(t, snapshot)
      <4>1. thread'[t].stage = "data"
        BY <1>1, <2>2, <3>0, <3>1 DEF Verified, QueryablesInv, ThreadsOK, ServingRequest
      <4> QED
        BY <2>2, <3>1, <4>1
    <3>2. CASE ~Expected(t, snapshot)
      <4>1. thread'[t].stage = "done"
        BY <1>1, <2>2, <3>2 DEF Verified, Reply, Answer, QueryablesInv, ThreadsOK
      <4>2. FiltersVerified(SchemaAt(snapshot), thread[t].request.filters, FALSE)
              = (thread'[t].stage = "data")
        BY <3>2, <4>1 DEF FiltersVerified
      <4> QED
        BY <2>2, <4>2
    <3> QED
      BY <3>1, <3>2
  <2>3. CASE GetCollectionSchemaCached(t)
    <3> DEFINE k == schemas.snapshot
    <3>1. k \in 1..Snapshot /\ now - schemas.at < Ttl
      BY <2>0, <2>3 DEF GetCollectionSchemaCached, Fresh
    <3>2. k < Snapshot => now < versions[k + 1].at + Ttl + QueryLimit
      <4> SUFFICES ASSUME k < Snapshot
                   PROVE  now < versions[k + 1].at + Ttl + QueryLimit
        OBVIOUS
      <4>1. versions[k + 1].at \in Nat
        BY <1>1, <2>0, <3>1, VersionTimes DEF QueryablesInv
      <4>2. versions[k + 1].at + QueryLimit >= schemas.at
        BY <1>1, <3>1 DEF QueryablesInv, SchemasOK
      <4> QED
        BY <2>0, <3>1, <4>1, <4>2, QueryablesAssumption
    <3>3. k \in Recent
      BY <3>1, <3>2 DEF Recent
    <3> QED
      BY <2>2, <2>3, <3>3 DEF GetCollectionSchemaCached, At
  <2>4. CASE GetCollectionSchemaStore(t)
    <3> DEFINE k == thread[t].snapshot
    <3>1. thread[t].stage = "fetched"
      BY <2>4 DEF GetCollectionSchemaStore, At
    <3>2. FetchedOK(World, thread[t]) /\ thread[t].readAt \in Nat
      BY <1>1, <3>1
         DEF QueryablesInv, ThreadsOK, ThreadOK, ServingRequest, Working, Stages
    <3>3. /\ k \in 1..Snapshot /\ now <= thread[t].readAt + QueryLimit
          /\ k < Snapshot => versions[k + 1].at >= thread[t].readAt
      BY <3>2 DEF FetchedOK, World, Snapshot
    <3>4. k < Snapshot => now < versions[k + 1].at + Ttl + QueryLimit
      <4> SUFFICES ASSUME k < Snapshot
                   PROVE  now < versions[k + 1].at + Ttl + QueryLimit
        OBVIOUS
      <4>1. versions[k + 1].at \in Nat
        BY <1>1, <2>0, <3>3, VersionTimes DEF QueryablesInv
      <4> QED
        BY <2>0, <3>2, <3>3, <4>1, QueryablesAssumption
    <3>5. k \in Recent
      <4> HIDE DEF k
      <4> QED
        BY <3>3, <3>4 DEF Recent
    <3> QED
      BY <2>2, <2>4, <3>1, <3>5 DEF GetCollectionSchemaStore
  <2>5. CASE GetCollectionSchemaQuery(t)
    <3>1. thread'[t].stage = "fetched"
      BY <1>1, <2>5 DEF GetCollectionSchemaQuery, QueryablesInv, ThreadsOK
    <3> QED
      BY <3>1
  <2>6. CASE TrinoFails(t)
    <3>1. thread'[t].stage = "done" /\ thread'[t].status = 500
      BY <1>1, <2>6 DEF TrinoFails, Reply, Answer, QueryablesInv, ThreadsOK
    <3> QED
      BY <3>1
  <2>7. CASE \/ GetCollectionQueryables(t) \/ ValuesSchema(t)
             \/ QueryCachedValues(t) \/ CombinationsFail(t) \/ GetQueryableValues(t)
             \/ GetCollectionItems(t) \/ SpatialExtent(t) \/ TemporalExtent(t) \/ ExtentFails(t)
    <3>1. ~(At(t, "items", "schema") \/ At(t, "items", "fetched"))
      BY <2>7 DEF At, GetCollectionQueryables, ValuesSchema, QueryCachedValues, CombinationsFail,
                  GetQueryableValues, GetCollectionItems, SpatialExtent, TemporalExtent, ExtentFails
    <3> QED
      BY <3>1
  <2>8. CASE \E request \in setup.requests[t] : Start(t, request)
    <3>1. ~(At(t, "items", "schema") \/ At(t, "items", "fetched"))
      BY <2>8 DEF At, Start
    <3> QED
      BY <3>1
  <2>9. ASSUME NEW u \in Threads \ {t},
               Step(u) \/ \E request \in setup.requests[u] : Start(u, request)
        PROVE  thread'[t] = thread[t]
    BY <1>1, <2>9
       DEF QueryablesInv, ThreadsOK, Step, Start, GetCollectionQueryables, ValuesSchema,
           QueryCachedValues, CombinationsFail, GetQueryableValues, GetCollectionSchemaCached,
           GetCollectionSchemaQuery, GetCollectionSchemaStore, GetCollectionItems, TrinoFails,
           SpatialExtent, TemporalExtent, ExtentFails, ReplyCatalogue, Verified, Reply, Goto
  <2>10. CASE (\E table \in Tables : Commit(table)) \/ FlowReads \/ FlowWrites \/ FlowDies \/ Tick
    <3>1. thread'[t] = thread[t]
      BY <2>10 DEF Commit, FlowReads, FlowWrites, FlowDies, Tick
    <3> QED
      BY <2>1, <3>1
  <2> HIDE DEF Judged
  <2>11. CASE Step(t)
    BY <2>3, <2>4, <2>5, <2>6, <2>7, <2>11 DEF Step
  <2> QED
    BY <1>1, <2>1, <2>8, <2>9, <2>10, <2>11 DEF Next
<1>2. ASSUME UNCHANGED vars, NEW t \in Threads
      PROVE  Judged(t)
  BY <1>2 DEF vars, At
<1>3. QueryablesInv /\ [Next]_vars => [\A t \in Threads : Judged(t)]_vars
  <2> HIDE DEF Judged
  <2> QED
    BY <1>1
<1> QED
  BY <1>3, QueryablesInductive, PTL DEF Spec, VerdictRecent
=============================================================================
