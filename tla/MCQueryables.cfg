SPECIFICATION Spec
CONSTANTS
  Tables <- MCTables
  First <- MCFirst
  DeclaredColumns = {"location", "kge"}
  Setups <- MCSetups
  Threads = {t1, t2}
  t1 = t1
  t2 = t2
  Null = Null
  Ttl = 2
  QueryLimit = 1
  MaxTime = 3
  MaxCommits = 2
INVARIANTS TypeOK ValuesFromOneSnapshot CatalogueSurvives
PROPERTY VerdictRecent
