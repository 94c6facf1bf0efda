-------------------------- MODULE CollectionPages --------------------------
(***************************************************************************)
(* Paging through a collection of the TEEHR API (api/src/routes): a client *)
(* asks for items and follows the "next" links.  Each page is a query of   *)
(* its own to Trino, with retries (api/src/database.py); between two pages *)
(* the flows may insert and remove rows (a rewrite of the table is some of *)
(* both), and rows that the ORDER BY does not tell apart may come back in  *)
(* another order.                                                          *)
(*                                                                         *)
(* The routes differ in their ORDER BY, in when they add a next link, in   *)
(* what the link keeps of the request, in which values of a repeated       *)
(* parameter the handler looks at and in how they report a bad one.  A     *)
(* route is the record of these.                                           *)
(***************************************************************************)
EXTENDS Naturals, Sequences, FiniteSets

CONSTANTS Rows,       \* rows the table may hold, numbered in the order of their key
          TimeOf,     \* TimeOf[row]: value_time, which rows may share
          LocationOf, \* LocationOf[row]: the value that the filter looks at
          Routes,     \* routes under test
          Caps,       \* row limits of the roles, 0 for no limit
          Limits,     \* limits that clients ask for, 0 when it is omitted
          Filters,    \* sequences of locations that clients ask for
          MaxRetries, \* MAX_RETRIES
          MaxRemovals \* bound: rows removed while the client pages

----------------------------------------------------------------------------
(* The routes.                                                             *)

Route == [order : {"key", "value_time", "none"},
          next : {"full page", "full page with offset", "never"},
          lists : BOOLEAN,
          repeated : {"kept", "first"},
          errors : {"kept", "500", "none"}]

\* Of several locations, a client may also ask for the first alone.
ASSUME PagesAssumption ==
  /\ Rows \subseteq Nat /\ IsFiniteSet(Rows)
  /\ TimeOf \in [Rows -> Nat] /\ LocationOf \in [Rows -> Nat]
  /\ Routes \subseteq Route
  /\ Caps \subseteq Nat /\ Limits \subseteq Nat /\ MaxRetries \in Nat /\ MaxRemovals \in Nat
  /\ Filters \subseteq Seq(Nat)
  /\ \A filter \in Filters \ {<<>>} : <<Head(filter)>> \in Filters

route(order, next, lists, repeated, errors) ==
  [order |-> order, next |-> next, lists |-> lists, repeated |-> repeated, errors |-> errors]

\* The page helpers: when there is a next link, and what it keeps of a parameter that
\* is repeated (urlencode of v[0], or with doseq).
RecordsLinks(order, lists, errors) == route(order, "full page", lists, "first", errors)
GeojsonLinks(order, lists, errors) == route(order, "full page with offset", lists, "first", errors)

PrimaryTimeseriesJson == route("value_time", "full page", TRUE, "kept", "500")
SecondaryTimeseriesJson == route("value_time", "full page", TRUE, "kept", "500")
TimeseriesGeojson == route("value_time", "never", TRUE, "first", "500")
LocationsGeojson == GeojsonLinks("key", TRUE, "500")
LocationsTabular == route("key", "never", TRUE, "first", "500")
Crosswalks == route("key", "full page", TRUE, "kept", "none")
LocationAttributes == route("key", "full page", TRUE, "first", "none")
ReferenceTables == route("key", "never", FALSE, "first", "none")

\* A metrics table that names no group_by columns has no ORDER BY.
MetricsOrder(grouped) == IF grouped THEN "key" ELSE "none"
MetricsJson(grouped) == RecordsLinks(MetricsOrder(grouped), FALSE, "kept")
MetricsGeojson(grouped) == GeojsonLinks(MetricsOrder(grouped), FALSE, "kept")

----------------------------------------------------------------------------
VARIABLES at,        \* the route
          cap,       \* the role's row limit
          asked,     \* what the client asked for first
          table,     \* rows in the table
          stayed,    \* rows that have been in the table since the client started
          inserted,  \* whether a row was inserted since,
          removals,  \* and how many were removed
          asking,    \* parameters of the page that is asked for now
          phase,     \* where the request is
          attempts,  \* retries of its query
          got        \* got[row]: how often the client received the row

client == <<at, cap, asked>>
content == <<table, stayed, inserted, removals>>
pagesVars == <<client, content, asking, phase, attempts, got>>

\* A bad parameter is a duration, bounding box, filter or combination of filters that
\* the handler turns down with HTTPException(400); some routes have none of these.
PageRequest == [limit : Nat, hasOffset : BOOLEAN, offset : Nat, filter : Filters, bad : BOOLEAN]

PagesInit ==
  /\ at \in Routes /\ cap \in Caps
  /\ asked \in [limit : Limits, hasOffset : BOOLEAN, offset : {0}, filter : Filters, bad : BOOLEAN]
  /\ asked.bad => at.errors # "none"
  /\ stayed \in SUBSET Rows /\ table = stayed
  /\ inserted = FALSE /\ removals = 0
  /\ asking = asked
  /\ phase = "handling" /\ attempts = 0
  /\ got = [row \in Rows |-> 0]

Insert(row) ==
  /\ table' = table \cup {row} /\ inserted' = (inserted \/ row \notin table)
  /\ UNCHANGED <<client, stayed, removals, asking, phase, attempts, got>>

Remove(row) ==
  /\ row \in table /\ removals < MaxRemovals
  /\ table' = table \ {row} /\ stayed' = stayed \ {row} /\ removals' = removals + 1
  /\ UNCHANGED <<client, inserted, asking, phase, attempts, got>>

----------------------------------------------------------------------------
(* One request.                                                            *)

\* The role's limit is forgotten when the client omits its own.
RoleLimitIfGiven(limit) ==
  IF limit = 0 \/ cap = 0 \/ limit < cap THEN limit ELSE cap

\* apply_role_record_limit
EffectiveLimit(limit) ==
  CASE cap = 0 -> limit
    [] limit = 0 -> cap
    [] OTHER -> IF limit < cap THEN limit ELSE cap

Elements(s) == {s[i] : i \in 1..Len(s)}
Matching(rows, filter) ==
  {row \in rows : filter = <<>> \/ LocationOf[row] \in Elements(filter)}

\* A parameter that is not a list has its last value.
Used(filter) == IF at.lists \/ filter = <<>> THEN filter ELSE <<filter[Len(filter)]>>

\* Rows in the order of the key are unique; by value_time, ties come in any order, and
\* without an ORDER BY they all do.
Sorted(s, order) ==
  \A i, j \in 1..Len(s) : i < j =>
    /\ s[i] # s[j]
    /\ order = "key" => s[i] < s[j]
    /\ order = "value_time" => TimeOf[s[i]] <= TimeOf[s[j]]

Orders(rows, order) == {s \in [1..Cardinality(rows) -> rows] : Sorted(s, order)}

PageOf(s, offset, limit) ==
  {s[i] : i \in {k \in 1..Len(s) : k > offset /\ (limit = 0 \/ k <= offset + limit)}}

\* A full page has a next link.
HasNext(rows, limit) ==
  /\ limit # 0 /\ Cardinality(rows) = limit
  /\ at.next # "never"
  /\ at.next = "full page with offset" => asking.hasOffset

Reject ==
  /\ phase = "handling" /\ asking.bad
  /\ phase' = IF at.errors = "kept" THEN "400" ELSE "500"
  /\ UNCHANGED <<client, content, asking, attempts, got>>

ExecuteQuery ==
  /\ phase = "handling" /\ ~asking.bad
  /\ \E s \in Orders(Matching(table, Used(asking.filter)), at.order) :
       LET limit == EffectiveLimit(asking.limit)
           rows == PageOf(s, asking.offset, limit) IN
       /\ got' = [row \in Rows |-> got[row] + IF row \in rows THEN 1 ELSE 0]
       /\ phase' = IF HasNext(rows, limit) THEN "next" ELSE "end"
  /\ attempts' = 0
  /\ UNCHANGED <<client, content, asking>>

\* The retries begin anew when they are used up.
QueryFailsWraps ==
  /\ phase = "handling" /\ ~asking.bad
  /\ attempts' = IF attempts < MaxRetries THEN attempts + 1 ELSE 0
  /\ UNCHANGED <<client, content, asking, phase, got>>

\* The retry that never gives up.
QueryFailsForever ==
  /\ phase = "handling" /\ ~asking.bad
  /\ attempts' = attempts + 1
  /\ UNCHANGED <<client, content, asking, phase, got>>

\* A transient error: the query is tried again, MAX_RETRIES times.
QueryFails ==
  /\ phase = "handling" /\ ~asking.bad
  /\ IF attempts < MaxRetries
     THEN attempts' = attempts + 1 /\ UNCHANGED phase
     ELSE attempts' = 0 /\ phase' = "500"
  /\ UNCHANGED <<client, content, asking, got>>

QueryBroken ==
  /\ phase = "handling" /\ ~asking.bad
  /\ phase' = "500" /\ attempts' = 0
  /\ UNCHANGED <<client, content, asking, got>>

\* The next page begins with the last row of this one.
FollowNextOverlap ==
  LET limit == EffectiveLimit(asking.limit) IN
  /\ phase = "next"
  /\ asking' = [asking EXCEPT !.limit = limit, !.hasOffset = TRUE, !.offset = @ + limit - 1]
  /\ phase' = "handling"
  /\ UNCHANGED <<client, content, attempts, got>>

\* What the next link asks for.
FollowNext ==
  LET limit == EffectiveLimit(asking.limit) IN
  /\ phase = "next"
  /\ asking' = [limit |-> limit, hasOffset |-> TRUE, offset |-> asking.offset + limit,
                filter |-> IF at.repeated = "kept" \/ asking.filter = <<>> THEN asking.filter
                           ELSE <<Head(asking.filter)>>,
                bad |-> FALSE]
  /\ phase' = "handling"
  /\ UNCHANGED <<client, content, attempts, got>>

\* A client asks for a page again that it did not get.
AskAgain ==
  /\ phase = "500" /\ ~asking.bad
  /\ phase' = "handling"
  /\ UNCHANGED <<client, content, asking, attempts, got>>

----------------------------------------------------------------------------
PagesNext ==
  \/ \E row \in Rows : Insert(row) \/ Remove(row)
  \/ Reject
  \/ ExecuteQuery
  \/ QueryFails
  \/ QueryBroken
  \/ FollowNext
  \/ AskAgain

PagesSpec == PagesInit /\ [][PagesNext]_pagesVars

\* The handler runs, and the client follows the links it gets.
FairPagesSpec == /\ PagesSpec
                 /\ WF_pagesVars(Reject \/ ExecuteQuery \/ QueryFails \/ QueryBroken)
                 /\ WF_pagesVars(FollowNext)

----------------------------------------------------------------------------
(* Properties.                                                             *)

\* Type correctness of the request, of the table and of what the client has; a query is
\* tried again at most MaxRetries times.
PagesTypeOK ==
  /\ at \in Route /\ cap \in Caps
  /\ asked \in PageRequest /\ asking \in PageRequest
  /\ table \subseteq Rows /\ stayed \subseteq table
  /\ inserted \in BOOLEAN /\ removals \in 0..MaxRemovals
  /\ phase \in {"handling", "next", "end", "400", "500"}
  /\ attempts \in 0..MaxRetries
  /\ got \in [Rows -> Nat]

\* The next links of the route lead from what the client asked for to everything that
\* matches it: rows have one order, a page that the limit cuts off has a link, and the
\* link keeps every value of the filter.  The other routes and requests get an excerpt.
LinksCoverAll ==
  /\ at.order = "key"
  /\ EffectiveLimit(asked.limit) # 0 =>
       \/ at.next = "full page"
       \/ at.next = "full page with offset" /\ asked.hasOffset
  /\ Len(asked.filter) > 1 => at.repeated = "kept" \/ EffectiveLimit(asked.limit) = 0

\* A client that follows the links to the end has received every row that matched its
\* request all the time: no page boundary loses a row, however the limits of the client
\* and the role combine, whatever is inserted meanwhile and however often a query had to
\* be repeated.  Where rows are removed before the offset, the others move up and the next
\* page misses some of them: never more than were removed.  And the client has no row
\* twice, as long as nothing is inserted: on every route that orders its rows by a key,
\* also where a link drops values of the filter and keeps the offset.
EveryRowOnce ==
  /\ phase = "end" /\ LinksCoverAll =>
       Cardinality({row \in Matching(stayed, Used(asked.filter)) : got[row] = 0}) <= removals
  /\ ~inserted /\ at.order = "key" => \A row \in Rows : got[row] <= 1

\* No client receives more rows in one response than its role allows.
RoleLimitHolds ==
  [][cap # 0 => Cardinality({row \in Rows : got'[row] # got[row]}) <= cap]_pagesVars

\* Every request is answered, or its page is: retries of the query come to an end.
EveryPageAnswered == (phase = "handling") ~> (phase # "handling")
=============================================================================
