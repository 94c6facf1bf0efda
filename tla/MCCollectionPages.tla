------------------------- MODULE MCCollectionPages -------------------------
(* CollectionPages for TLC.                                                *)
EXTENDS CollectionPages

\* Three rows of two locations; the second and the third share a value_time.
MCRows == 1..3
MCTimeOf == [row \in MCRows |-> IF row = 3 THEN 2 ELSE row]
MCLocationOf == [row \in MCRows |-> IF row = 2 THEN 2 ELSE 1]

MCFilters == {<<>>, <<1>>, <<1, 2>>}

MCRoutes == {PrimaryTimeseriesJson, SecondaryTimeseriesJson, TimeseriesGeojson, LocationsGeojson,
             LocationsTabular, Crosswalks, LocationAttributes, ReferenceTables}
              \cup {MetricsJson(grouped) : grouped \in BOOLEAN}
              \cup {MetricsGeojson(grouped) : grouped \in BOOLEAN}
=============================================================================
