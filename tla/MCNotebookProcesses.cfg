SPECIFICATION Spec
CONSTANTS
  p1 = p1
  p2 = p2
  Stems = {"a"}
  MaxSuffix = 1
  Roles = {"staff", "team"}
  MaxPolicyRepos = 1
  Existing <- Names
  RuleSets <- MCRuleSets
  Procs = {p1, p2}
  Notebook = p1
  CredTtl = 3
  Margin = 1
  ReqTimeout = 1
  MaxTime = 5
  MaxChanges = 1
INVARIANTS TypeOK StaysReadable RevocationReachesNotebooks
PROPERTY NeverAboutToExpire
