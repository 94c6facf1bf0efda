SPECIFICATION Spec
CONSTANTS
  Stems = {"a"}
  MaxSuffix = 1
  Roles = {"staff", "team"}
  MaxPolicyRepos = 2
  RuleSets <- MCRuleSets
  TokenTtl = 2
  MaxTime = 3
INVARIANT OpenedIsPermitted
PROPERTY RevokedWithinTokenLife
