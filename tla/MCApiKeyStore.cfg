SPECIFICATION FairSpec
CONSTANTS
  Keys = {k1}
  Owners = {o1, o2}
  Workers = {w1, w2}
  Requests = {r1}
  MaxTime = 2
  MaxCrashes = 2
INVARIANT PickedUpByRestart
PROPERTY RevocationIsFinal
PROPERTY AcknowledgedMeansRefused
PROPERTY ImplementsRegistry
PROPERTY RolloutConverges
