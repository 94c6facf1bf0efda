SPECIFICATION FairSpec
CONSTANTS
  t1 = t1
  t2 = t2
  t3 = t3
  NoThread = NoThread
  Threads = {t1, t2, t3}
  Repos = {n1}
  Kinds = {"tiles"}
  Modes <- MCModes
  MaxSnapshots = 2
  MaxExpiries = 2
INVARIANTS TypeOK LoadsOnce ErrorOnlyIfGone StaleAtMostOneTtl
PROPERTIES SnapshotsMoveForward ListedStaysKnown EveryRequestAnswered
