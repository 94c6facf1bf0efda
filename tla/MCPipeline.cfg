SPECIFICATION PipelineSpec
CONSTANTS
  r1 = r1
  r2 = r2
  Requests = {r1, r2}
  Workers = {"w1"}
  Subjects = {"ann", "root"}
  Admins = {"root"}
  Paths = {"items"}
  RpmLimit = 1
  MaxKeys = 1
  MaxMinutes = 1
  MaxMade = 2
SYMMETRY Symmetry
INVARIANTS PipelineTypeOK NoPileUp
PROPERTY LimitIsExact
