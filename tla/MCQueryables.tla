----------------------------- MODULE MCQueryables -----------------------------
EXTENDS Queryables, TLC
CONSTANTS t1, t2

Loc(l, k) == [location |-> l, kge |-> k]
Conf(l, c, k) == [location |-> l, configuration |-> c, kge |-> k]

MCFirst == [groupBy |-> {"location"}, metrics |-> {"kge"}, rows |-> {Loc("a", "1"), Loc("b", "2")}]
MCMoved == [MCFirst EXCEPT !.rows = {Loc("b", "2"), Loc("c", "1")}]
MCWider == [groupBy |-> {"location", "configuration"}, metrics |-> {"kge"},
            rows |-> {Conf("a", "x", "1"), Conf("b", Null, "1"), Conf("c", "x", "2")}]
MCTables == {MCFirst, MCMoved, MCWider}

NoFilter == [column \in {} |-> Null]
Where(column, value) == [c \in {column} |-> value]
Values(property, filters) == [op |-> "values", property |-> property, filters |-> filters]

ItemsRequests == {[op |-> "items", filters |-> Where("configuration", "x")]}
ValuesRequests ==
  {Values("location", NoFilter), Values("configuration", NoFilter),
   Values("location", Where("configuration", Null)), Values("kge", Where("location", "a"))}
MetadataRequests ==
  {[op |-> "queryables"], [op |-> "collections"],
   [op |-> "collection", listed |-> TRUE], [op |-> "collection", listed |-> FALSE]}

Setup(declared, requireCurrent, workflow, first, second) ==
  [declared |-> declared, requireCurrent |-> requireCurrent, workflow |-> workflow,
   requests |-> (t1 :> first @@ t2 :> second)]

\* Threads share the schema cache alone, which only items requests use.
MCSetups ==
  {Setup(FALSE, FALSE, FALSE, ItemsRequests, ItemsRequests)}
    \cup {Setup(FALSE, current, TRUE, ValuesRequests, {}) : current \in BOOLEAN}
    \cup {Setup(declared, FALSE, FALSE, ValuesRequests \cup MetadataRequests, {}) :
             declared \in BOOLEAN}
=============================================================================
