SPECIFICATION BrokerSpec
CONSTANTS
  Sids = {s1}
  Callers = {c1, c2}
  Exchanges = {r1, r2}
  SessionTtl = 4
  IdleTtl = 2
  MaxTime = 6
  MaxAborts = 1
INVARIANT BrokerTypeOK
PROPERTY RowLifecycle
INVARIANT NewestTokenKept
