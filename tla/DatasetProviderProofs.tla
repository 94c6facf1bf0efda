------------------------ MODULE DatasetProviderProofs ------------------------
(***************************************************************************)
(* Theorems about DatasetProvider, for any number of threads, repos and    *)
(* snapshots.                                                              *)
(***************************************************************************)
EXTENDS DatasetProvider, TLAPS

(* As long as no repo has been removed:                                    *)

\* storage has every repo;
StorageComplete == \A n \in Repos : tip[n] # 0

\* a listing finds them all, so that there is nothing to evict;
ListingComplete ==
  \A t \in Threads : /\ th[t].stage \in {"stamp", "assign"} => th[t].names = Repos
                     /\ th[t].stage \notin {"evictRepos", "evictCache"}

\* a handle that was put into _repos is still there when it is read again;
HandleKept == \A t \in Threads : th[t].stage = "getRepo" => RepoOf(th[t].ds) \in repos

\* a dataset has one lock object, ever, and whoever waits for it or holds it has that one;
OneLockObject ==
  /\ \A d \in Datasets : lockGen[d] = IF lockKept[d] THEN 1 ELSE 0
  /\ \A t \in Threads : th[t].stage \in Locked \cup {"waitDataset"} => th[t].gen = 1

\* hence one thread at most holds it;
OneHolder ==
  \A t, u \in Threads :
    t # u /\ th[t].stage \in Locked /\ th[u].stage \in Locked => th[t].ds # th[u].ds

\* nothing is ahead of the branch tip;
NothingAhead ==
  \A d \in Datasets : cache[d].snap <= tip[RepoOf(d)] /\ floor[d] <= tip[RepoOf(d)]

\* while a thread holds the lock of a dataset its entry is not fresh, so that it can
\* neither be served nor expire; and a thread that loads has looked up a snapshot that
\* is no older than the entry and than the tip at its last expiry.
HolderAlone ==
  \A t \in Threads :
    /\ th[t].stage \in Locked => ~cache[th[t].ds].checked
    /\ th[t].stage = "load" => /\ cache[th[t].ds].snap <= th[t].snap
                               /\ floor[th[t].ds] <= th[t].snap
                               /\ th[t].snap <= tip[RepoOf(th[t].ds)]

CalmInv == /\ StorageComplete /\ ListingComplete /\ HandleKept
           /\ OneLockObject /\ OneHolder /\ NothingAhead /\ HolderAlone

ProviderInv == /\ TypeOK
               /\ removals = 0 => CalmInv
               /\ StaleAtMostOneTtl

----------------------------------------------------------------------------
(* How a step moves a thread.                                              *)

HistoryTyped == gone \subseteq Threads /\ strays \subseteq Datasets

Thread == [stage : Stages, ds : Datasets, names : SUBSET Repos, gen : Nat, snap : Nat]

\* Thread t goes to stage s with the local variables N, g and k; the others stay.
Moved(t, s, N, g, k) ==
  /\ th' \in [Threads -> Thread]
  /\ th'[t].stage = s /\ th'[t].ds = th[t].ds
  /\ th'[t].names = N /\ th'[t].gen = g /\ th'[t].snap = k
  /\ \A u \in Threads : u # t => th'[u] = th[u]

\* A dataset belongs to a repo.
LEMMA DatasetRepo == \A d \in Datasets : RepoOf(d) \in Repos
  BY DEF Datasets, RepoOf

\* Threads are typed, and so are their fields.
LEMMA ThreadTypes ==
  ASSUME TypeOK
  PROVE  /\ th \in [Threads -> Thread]
         /\ \A t \in Threads : /\ th[t] \in Thread /\ th[t].stage \in Stages
                               /\ th[t].ds \in Datasets /\ RepoOf(th[t].ds) \in Repos
                               /\ th[t].names \subseteq Repos /\ th[t].gen \in Nat
                               /\ th[t].snap \in Nat
<1>1. th \in [Threads -> Thread]
  BY DEF TypeOK, Thread
<1> QED  BY <1>1, DatasetRepo DEF Thread

\* Goto changes the stage of a thread alone.
LEMMA GotoMoves ==
  ASSUME TypeOK, NEW t \in Threads, NEW s \in Stages, Goto(t, s)
  PROVE  Moved(t, s, th[t].names, th[t].gen, th[t].snap)
<1>1. th \in [Threads -> Thread]
  BY ThreadTypes
<1> QED  BY <1>1 DEF Goto, Thread, Moved

\* Serve also hands over a snapshot.
LEMMA ServeMoves ==
  ASSUME TypeOK, NEW t \in Threads, NEW k \in Nat, Serve(t, k)
  PROVE  Moved(t, "served", th[t].names, th[t].gen, k)
<1>1. th \in [Threads -> Thread]
  BY ThreadTypes
<1> QED  BY <1>1 DEF Serve, Thread, Moved, Stages

----------------------------------------------------------------------------
(* Type correctness.                                                       *)

\* The initial state is well typed: no thread works and no lock is held.
LEMMA TypeInit == Init => TypeOK
<1> SUFFICES ASSUME Init PROVE TypeOK
  OBVIOUS
<1> USE ProviderBounds
<1>1. PICK d \in Datasets : th = [t \in Threads |-> NoWork(d)]
  BY DEF Init
<1>2. th \in [Threads -> Thread] /\ \A t \in Threads : th[t].stage = "idle"
  BY <1>1 DEF NoWork, Thread, Stages
<1>3. mode \in Modes /\ removals \in 0..mode.removals /\ expiries \in 0..MaxExpiries
  BY DEF Init
<1>4. /\ tip \in [Repos -> Nat] /\ commits \in [Repos -> Nat] /\ \A n \in Repos : tip[n] <= commits[n]
      /\ configs \subseteq Repos /\ repos \subseteq Repos
  BY DEF Init
<1>8. fresh \in BOOLEAN
  BY Zenon DEF Init
<1>5. /\ cache \in [Datasets -> [snap : Nat, checked : BOOLEAN]]
      /\ lockGen \in [Datasets -> Nat] /\ lockKept \in [Datasets -> BOOLEAN] /\ floor \in [Datasets -> Nat]
  BY DEF Init, NoEntry
<1>6. discoveryLock = NoThread /\ repoLock = NoThread
  BY DEF Init
<1>7. \A t \in Threads : /\ discoveryLock = t <=> th[t].stage \in Discovering
                         /\ repoLock = t <=> th[t].stage = "init"
  BY <1>2, <1>6 DEF Discovering
<1>9. gone \subseteq Threads /\ strays \subseteq Datasets
  BY DEF Init
<1> QED  BY <1>2, <1>3, <1>4, <1>5, <1>6, <1>7, <1>8, <1>9 DEF TypeOK, Thread

\* A global lock is held exactly by the thread whose code is inside it.
LEMMA LocksHeld ==
  TypeOK => \A t \in Threads : /\ discoveryLock = t <=> th[t].stage \in Discovering
                               /\ repoLock = t <=> th[t].stage = "init"
  BY DEF TypeOK

\* A thread that goes to stage s takes and leaves the two global locks accordingly, and
\* those of the others stay theirs.
LocksFollow(t, s) ==
  /\ discoveryLock' \in Threads \cup {NoThread} /\ repoLock' \in Threads \cup {NoThread}
  /\ discoveryLock' = t <=> s \in Discovering
  /\ repoLock' = t <=> s = "init"
  /\ \A u \in Threads : u # t => /\ discoveryLock' = u <=> discoveryLock = u
                                 /\ repoLock' = u <=> repoLock = u

\* A step that moves a thread keeps the types when it keeps the locks in line with the
\* thread's stage.
LEMMA TypeMoved ==
  ASSUME TypeOK, NEW t \in Threads, NEW s, NEW N, NEW g, NEW k,
         Moved(t, s, N, g, k), LocksFollow(t, s),
         UNCHANGED <<mode, removals, expiries, floor>>,
         tip' \in [Repos -> Nat], commits' \in [Repos -> Nat],
         \A n \in Repos : tip'[n] <= commits'[n],
         configs' \subseteq Repos, fresh' \in BOOLEAN, repos' \subseteq Repos,
         cache' \in [Datasets -> [snap : Nat, checked : BOOLEAN]],
         lockGen' \in [Datasets -> Nat], lockKept' \in [Datasets -> BOOLEAN], HistoryTyped'
  PROVE  TypeOK'
<1>1. th' \in [Threads -> Thread]
  BY DEF Moved
<1>2. ASSUME NEW u \in Threads
      PROVE  (discoveryLock' = u <=> th'[u].stage \in Discovering) /\ (repoLock' = u <=> th'[u].stage = "init")
  <2>1. (discoveryLock = u <=> th[u].stage \in Discovering) /\ (repoLock = u <=> th[u].stage = "init")
    BY LocksHeld
  <2>2. CASE u = t
    BY <2>2 DEF Moved, LocksFollow
  <2>3. CASE u # t
    BY <2>1, <2>3 DEF Moved, LocksFollow
  <2> QED  BY <2>2, <2>3
<1>3. /\ floor' \in [Datasets -> Nat] /\ mode' \in Modes
      /\ removals' \in 0..mode'.removals /\ expiries' \in 0..MaxExpiries
  BY DEF TypeOK
<1>4. discoveryLock' \in Threads \cup {NoThread} /\ repoLock' \in Threads \cup {NoThread}
  BY DEF LocksFollow
<1> QED  BY <1>1, <1>2, <1>3, <1>4 DEF TypeOK, Thread, HistoryTyped

\* The case of a step that changes neither storage nor the caches.
LEMMA TypeQuiet ==
  ASSUME TypeOK, NEW t \in Threads, NEW s, NEW N, NEW g, NEW k,
         Moved(t, s, N, g, k), LocksFollow(t, s), UNCHANGED <<world, repos, cache, lockGen, lockKept, ttl>>,
         configs' \subseteq Repos, fresh' \in BOOLEAN, HistoryTyped'
  PROVE  TypeOK'
<1>1. /\ UNCHANGED <<mode, removals, expiries, floor>>
      /\ tip' \in [Repos -> Nat] /\ commits' \in [Repos -> Nat] /\ \A n \in Repos : tip'[n] <= commits'[n]
      /\ repos' \subseteq Repos /\ cache' \in [Datasets -> [snap : Nat, checked : BOOLEAN]]
      /\ lockGen' \in [Datasets -> Nat] /\ lockKept' \in [Datasets -> BOOLEAN]
  BY DEF TypeOK, world, ttl
<1> QED  BY <1>1, TypeMoved

----------------------------------------------------------------------------
(* Steps while no repo has been removed.                                   *)

\* What the calm part of the invariant asks of the stage a thread goes to.
Allowed(t, s, N, g, k) ==
  /\ s \in {"stamp", "assign"} => N = Repos
  /\ s \notin {"evictRepos", "evictCache"}
  /\ s = "getRepo" => RepoOf(th[t].ds) \in repos'
  /\ s \in Locked \cup {"waitDataset"} => g = 1
  /\ s \in Locked => th[t].stage \in Locked
  /\ s = "load" => cache[th[t].ds].snap <= k /\ floor[th[t].ds] <= k /\ k <= tip[RepoOf(th[t].ds)]

\* A step that only moves a thread, to a stage that is allowed, keeps the calm part.
LEMMA CalmMoved ==
  ASSUME ProviderInv, removals = 0, NEW t \in Threads, NEW s, NEW N, NEW g, NEW k,
         Moved(t, s, N, g, k), Allowed(t, s, N, g, k), repos \subseteq repos',
         UNCHANGED <<mode, tip, removals, cache, lockGen, lockKept, floor>>
  PROVE  CalmInv' /\ StaleAtMostOneTtl'
<1>0. TypeOK /\ CalmInv /\ StaleAtMostOneTtl
  BY DEF ProviderInv
<1>t. /\ th'[t].stage = s /\ th'[t].ds = th[t].ds /\ th'[t].names = N /\ th'[t].gen = g /\ th'[t].snap = k
      /\ \A u \in Threads : u # t => th'[u] = th[u]
  BY DEF Moved
<1>1. StorageComplete' /\ NothingAhead' /\ StaleAtMostOneTtl'
  BY <1>0 DEF CalmInv, StorageComplete, NothingAhead, StaleAtMostOneTtl
<1>2. ListingComplete'
  BY <1>0, <1>t DEF CalmInv, ListingComplete, Allowed
<1>3. HandleKept'
  BY <1>0, <1>t DEF CalmInv, HandleKept, Allowed
<1>4. OneLockObject'
  BY <1>0, <1>t DEF CalmInv, OneLockObject, Allowed
<1>5. OneHolder'
  BY <1>0, <1>t DEF CalmInv, OneHolder, Allowed
<1>6. HolderAlone'
  BY <1>0, <1>t DEF CalmInv, HolderAlone, Allowed
<1> QED  BY <1>1, <1>2, <1>3, <1>4, <1>5, <1>6 DEF CalmInv

\* A holder of a dataset's lock that leaves with an answer may change the entry, as long
\* as its snapshot stays between the old one and the tip; a fresh one is no older than the
\* tip at the last expiry, unless storage fails.
LEMMA CalmStored ==
  ASSUME ProviderInv, removals = 0, NEW t \in Threads, NEW N, NEW g, NEW k,
         Moved(t, "served", N, g, k), th[t].stage \in Locked,
         UNCHANGED <<mode, tip, removals, repos, lockGen, lockKept, floor>>,
         cache' \in [Datasets -> [snap : Nat, checked : BOOLEAN]],
         \A d \in Datasets : d # th[t].ds => cache'[d] = cache[d],
         cache'[th[t].ds].snap <= tip[RepoOf(th[t].ds)],
         ~mode.fails /\ cache'[th[t].ds].checked => cache'[th[t].ds].snap >= floor[th[t].ds]
  PROVE  CalmInv' /\ StaleAtMostOneTtl'
<1>0. TypeOK /\ CalmInv /\ StaleAtMostOneTtl
  BY DEF ProviderInv
<1>t. /\ th'[t].stage = "served" /\ th'[t].ds = th[t].ds
      /\ \A u \in Threads : u # t => th'[u] = th[u]
  BY DEF Moved
<1>d. \A u \in Threads : th[u].ds \in Datasets
  BY <1>0, ThreadTypes
<1>1. StorageComplete' /\ NothingAhead' /\ StaleAtMostOneTtl'
  BY <1>0, <1>d DEF CalmInv, StorageComplete, NothingAhead, StaleAtMostOneTtl
<1>2. ListingComplete' /\ HandleKept'
  BY <1>0, <1>t DEF CalmInv, ListingComplete, HandleKept
<1>4. OneLockObject' /\ OneHolder'
  BY <1>0, <1>t DEF CalmInv, OneLockObject, OneHolder, Locked
<1>6. HolderAlone'
  <2>1. \A u \in Threads : th'[u].stage \in Locked => u # t /\ th[u].ds # th[t].ds
    BY <1>0, <1>t DEF CalmInv, OneHolder, Locked
  <2>2. \A u \in Threads : th'[u].stage = "load" => u # t /\ th[u].ds # th[t].ds
    BY <2>1 DEF Locked
  <2> QED  BY <1>0, <1>t, <1>d, <2>1, <2>2 DEF CalmInv, HolderAlone
<1> QED  BY <1>1, <1>2, <1>4, <1>6 DEF CalmInv

\* Both together: a step of a thread that changes neither storage nor the caches.
LEMMA QuietStep ==
  ASSUME ProviderInv, NEW t \in Threads, NEW s, NEW N, NEW g, NEW k,
         Moved(t, s, N, g, k), LocksFollow(t, s),
         UNCHANGED <<world, repos, cache, lockGen, lockKept, ttl>>,
         configs' \subseteq Repos, fresh' \in BOOLEAN, HistoryTyped',
         removals = 0 => Allowed(t, s, N, g, k)
  PROVE  ProviderInv'
<1>1. TypeOK'
  BY TypeQuiet DEF ProviderInv
<1>2. UNCHANGED <<mode, tip, removals, cache, lockGen, lockKept, floor>> /\ repos' = repos
  BY DEF world, ttl
<1>3. CASE removals = 0
  BY <1>1, <1>2, <1>3, CalmMoved DEF ProviderInv
<1>4. CASE removals # 0
  BY <1>1, <1>2, <1>4 DEF ProviderInv, StaleAtMostOneTtl
<1> QED  BY <1>3, <1>4

\* Stages of which the calm part asks nothing.
Plain == {"idle", "configs", "waitDiscovery", "listing", "resolve", "lookaside", "served", "unknown"}

\* A thread may always go to one of them.
LEMMA PlainAllowed == \A t, N, g, k : \A s \in Plain : Allowed(t, s, N, g, k)
  BY DEF Plain, Allowed, Locked

\* The steps of _refresh_repo_configs.
LEMMA DiscoveryStep ==
  ASSUME ProviderInv, HistoryTyped', NEW t \in Threads,
         \/ CheckConfigs(t) \/ EnterDiscovery(t) \/ ListRepos(t) \/ ListingFails(t)
         \/ StampDiscovery(t) \/ AssignConfigs(t) \/ Resolve(t)
  PROVE  ProviderInv'
<1> USE ProviderBounds
<1>0. TypeOK /\ (removals = 0 => CalmInv)
  BY DEF ProviderInv
<1>l. /\ discoveryLock \in Threads \cup {NoThread} /\ repoLock \in Threads \cup {NoThread}
      /\ \A u \in Threads : (discoveryLock = u <=> th[u].stage \in Discovering) /\ (repoLock = u <=> th[u].stage = "init")
  BY <1>0, LocksHeld DEF TypeOK
<1>c. configs \subseteq Repos /\ fresh \in BOOLEAN
  BY <1>0 DEF TypeOK
<1>m. \A s \in Stages : Goto(t, s) => Moved(t, s, th[t].names, th[t].gen, th[t].snap)
  BY <1>0, GotoMoves
<1>n. th \in [Threads -> Thread] /\ th[t].stage \in Stages /\ th[t].names \subseteq Repos
  BY <1>0, ThreadTypes
<1>1. CASE CheckConfigs(t)
  <2>1. PICK s \in {"resolve", "waitDiscovery"} : Goto(t, s)
    BY <1>1 DEF CheckConfigs
  <2>2. Moved(t, s, th[t].names, th[t].gen, th[t].snap) /\ s \in Plain
    BY <1>m, <2>1 DEF Stages, Plain
  <2>3. LocksFollow(t, s)
    BY <1>1, <1>l, <2>1 DEF CheckConfigs, LocksFollow, Discovering, discovery, caches
  <2>4. UNCHANGED <<world, repos, cache, lockGen, lockKept, ttl>> /\ configs' \subseteq Repos /\ fresh' \in BOOLEAN
    BY <1>1, <1>c DEF CheckConfigs, caches, discovery
  <2> QED  BY <2>2, <2>3, <2>4, PlainAllowed, QuietStep
<1>2. CASE EnterDiscovery(t)
  <2>1. PICK s \in {"resolve", "listing"} : Goto(t, s) /\ (discoveryLock' = IF s = "listing" THEN t ELSE discoveryLock)
    BY <1>2 DEF EnterDiscovery
  <2>2. Moved(t, s, th[t].names, th[t].gen, th[t].snap) /\ s \in Plain
    BY <1>m, <2>1 DEF Stages, Plain
  <2>3. LocksFollow(t, s)
    BY <1>2, <1>l, <2>1 DEF EnterDiscovery, LocksFollow, Discovering, caches
  <2>4. UNCHANGED <<world, repos, cache, lockGen, lockKept, ttl>> /\ configs' \subseteq Repos /\ fresh' \in BOOLEAN
    BY <1>2, <1>c DEF EnterDiscovery, caches
  <2> QED  BY <2>2, <2>3, <2>4, PlainAllowed, QuietStep
<1>3. CASE ListRepos(t)
  <2> DEFINE listed == {n \in Repos : Present(n)}
  <2>1. Moved(t, "stamp", listed, th[t].gen, th[t].snap)
    BY <1>3, <1>n DEF ListRepos, Moved, Thread, Stages
  <2>2. LocksFollow(t, "stamp")
    BY <1>3, <1>l DEF ListRepos, LocksFollow, Discovering, discovery, caches
  <2>3. UNCHANGED <<world, repos, cache, lockGen, lockKept, ttl>> /\ configs' \subseteq Repos /\ fresh' \in BOOLEAN
    BY <1>3, <1>c DEF ListRepos, caches, discovery
  <2>4. removals = 0 => listed = Repos
    BY <1>0 DEF CalmInv, StorageComplete, Present
  <2>5. removals = 0 => Allowed(t, "stamp", listed, th[t].gen, th[t].snap)
    BY <2>4 DEF Allowed, Locked
  <2> QED  BY <2>1, <2>2, <2>3, <2>5, QuietStep
<1>4. CASE ListingFails(t)
  <2>1. Moved(t, "resolve", th[t].names, th[t].gen, th[t].snap) /\ "resolve" \in Plain
    BY <1>m, <1>4 DEF ListingFails, Stages, Plain
  <2>2. LocksFollow(t, "resolve")
    BY <1>4, <1>l DEF ListingFails, LocksFollow, Discovering, caches
  <2>3. UNCHANGED <<world, repos, cache, lockGen, lockKept, ttl>> /\ configs' \subseteq Repos
    BY <1>4, <1>c DEF ListingFails, caches
  <2>4. fresh' \in BOOLEAN
    BY <1>4, Zenon DEF ListingFails
  <2> QED  BY <2>1, <2>2, <2>3, <2>4, PlainAllowed, QuietStep
<1>5. CASE StampDiscovery(t)
  <2>1. Moved(t, "assign", th[t].names, th[t].gen, th[t].snap)
    BY <1>m, <1>5 DEF StampDiscovery, Stages
  <2>2. LocksFollow(t, "assign")
    BY <1>5, <1>l DEF StampDiscovery, LocksFollow, Discovering, caches
  <2>3. UNCHANGED <<world, repos, cache, lockGen, lockKept, ttl>> /\ configs' \subseteq Repos
    BY <1>5, <1>c DEF StampDiscovery, caches
  <2>4. fresh' \in BOOLEAN
    BY <1>5, Zenon DEF StampDiscovery
  <2>5. removals = 0 => th[t].names = Repos
    BY <1>0, <1>5 DEF CalmInv, ListingComplete, StampDiscovery
  <2>6. removals = 0 => Allowed(t, "assign", th[t].names, th[t].gen, th[t].snap)
    BY <2>5 DEF Allowed, Locked
  <2> QED  BY <2>1, <2>2, <2>3, <2>4, <2>6, QuietStep
<1>6. CASE AssignConfigs(t)
  <2> DEFINE removed == configs \ th[t].names
  <2>1. UNCHANGED <<world, repos, cache, lockGen, lockKept, ttl>> /\ configs' \subseteq Repos /\ fresh' \in BOOLEAN
    BY <1>6, <1>c, <1>n DEF AssignConfigs, caches
  <2>2. CASE removed = {}
    <3>1. Moved(t, "resolve", th[t].names, th[t].gen, th[t].snap) /\ "resolve" \in Plain
      BY <1>m, <1>6, <2>2 DEF AssignConfigs, Stages, Plain
    <3>2. LocksFollow(t, "resolve")
      BY <1>6, <1>l, <2>2 DEF AssignConfigs, LocksFollow, Discovering, caches
    <3> QED  BY <2>1, <3>1, <3>2, PlainAllowed, QuietStep
  <2>3. CASE removed # {}
    <3>1. Moved(t, "evictRepos", removed, th[t].gen, th[t].snap)
      BY <1>6, <1>c, <1>n, <2>3 DEF AssignConfigs, Moved, Thread, Stages
    <3>2. LocksFollow(t, "evictRepos")
      BY <1>6, <1>l, <2>3 DEF AssignConfigs, LocksFollow, Discovering, caches
    <3>3. removals # 0
      BY <1>0, <1>6, <1>c, <2>3 DEF CalmInv, ListingComplete, AssignConfigs
    <3> QED  BY <2>1, <3>1, <3>2, <3>3, QuietStep
  <2> QED  BY <2>2, <2>3
<1>7. CASE Resolve(t)
  <2>1. PICK s \in {"lookaside", "unknown"} : Goto(t, s)
    BY <1>7 DEF Resolve
  <2>2. Moved(t, s, th[t].names, th[t].gen, th[t].snap) /\ s \in Plain
    BY <1>m, <2>1 DEF Stages, Plain
  <2>3. LocksFollow(t, s)
    BY <1>7, <1>l, <2>1 DEF Resolve, LocksFollow, Discovering, discovery, caches
  <2>4. UNCHANGED <<world, repos, cache, lockGen, lockKept, ttl>> /\ configs' \subseteq Repos /\ fresh' \in BOOLEAN
    BY <1>7, <1>c DEF Resolve, caches, discovery
  <2> QED  BY <2>2, <2>3, <2>4, PlainAllowed, QuietStep
<1> QED  BY <1>1, <1>2, <1>3, <1>4, <1>5, <1>6, <1>7

\* The steps of _evict, which are taken only after a removal.
LEMMA EvictStep ==
  ASSUME ProviderInv, HistoryTyped', NEW t \in Threads, EvictRepos(t) \/ EvictCache(t)
  PROVE  ProviderInv'
<1> USE ProviderBounds
<1>0. TypeOK /\ (removals = 0 => CalmInv)
  BY DEF ProviderInv
<1>l. /\ discoveryLock \in Threads \cup {NoThread} /\ repoLock \in Threads \cup {NoThread}
      /\ \A u \in Threads : (discoveryLock = u <=> th[u].stage \in Discovering) /\ (repoLock = u <=> th[u].stage = "init")
  BY <1>0, LocksHeld DEF TypeOK
<1>m. \A s \in Stages : Goto(t, s) => Moved(t, s, th[t].names, th[t].gen, th[t].snap)
  BY <1>0, GotoMoves
<1>1. removals # 0 /\ removals' = removals
  BY <1>0 DEF EvictRepos, EvictCache, CalmInv, ListingComplete, world
<1>2. ASSUME EvictRepos(t) PROVE TypeOK'
  <2>1. Moved(t, "evictCache", th[t].names, th[t].gen, th[t].snap)
    BY <1>m, <1>2 DEF EvictRepos, Stages
  <2>2. LocksFollow(t, "evictCache")
    BY <1>2, <1>l DEF EvictRepos, LocksFollow, Discovering, discovery
  <2>3. /\ UNCHANGED <<mode, removals, expiries, floor>>
        /\ tip' \in [Repos -> Nat] /\ commits' \in [Repos -> Nat] /\ \A n \in Repos : tip'[n] <= commits'[n]
        /\ configs' \subseteq Repos /\ fresh' \in BOOLEAN /\ repos' \subseteq Repos
    BY <1>0, <1>2 DEF TypeOK, EvictRepos, world, discovery, ttl
  <2>4. /\ cache' \in [Datasets -> [snap : Nat, checked : BOOLEAN]]
        /\ lockGen' \in [Datasets -> Nat] /\ lockKept' \in [Datasets -> BOOLEAN]
    BY <1>0, <1>2 DEF TypeOK, EvictRepos
  <2> QED  BY <1>0, <2>1, <2>2, <2>3, <2>4, TypeMoved
<1>3. ASSUME EvictCache(t) PROVE TypeOK'
  <2>1. Moved(t, "resolve", th[t].names, th[t].gen, th[t].snap)
    BY <1>m, <1>3 DEF EvictCache, Stages
  <2>2. LocksFollow(t, "resolve")
    BY <1>3, <1>l DEF EvictCache, LocksFollow, Discovering
  <2>3. /\ UNCHANGED <<mode, removals, expiries, floor>>
        /\ tip' \in [Repos -> Nat] /\ commits' \in [Repos -> Nat] /\ \A n \in Repos : tip'[n] <= commits'[n]
        /\ configs' \subseteq Repos /\ fresh' \in BOOLEAN /\ repos' \subseteq Repos
    BY <1>0, <1>3 DEF TypeOK, EvictCache, world, ttl
  <2>4. cache' \in [Datasets -> [snap : Nat, checked : BOOLEAN]] /\ lockGen' \in [Datasets -> Nat]
    BY <1>0, <1>3 DEF TypeOK, EvictCache, NoEntry
  <2>5. lockKept' \in [Datasets -> BOOLEAN]
    BY <1>0, <1>3 DEF TypeOK, EvictCache
  <2> QED  BY <1>0, <2>1, <2>2, <2>3, <2>4, <2>5, TypeMoved
<1>4. TypeOK'
  BY <1>2, <1>3
<1> QED  BY <1>1, <1>4 DEF ProviderInv, StaleAtMostOneTtl

\* The steps of get_datatree_for_dataset that change neither storage nor the caches.
LEMMA LookStep ==
  ASSUME ProviderInv, HistoryTyped', NEW t \in Threads,
         \/ CacheHit(t) \/ CheckRepos(t) \/ EnterRepoLock(t) \/ GetRepo(t)
         \/ TipMoved(t) \/ LoadFails(t) \/ Answer(t)
  PROVE  ProviderInv'
<1> USE ProviderBounds
<1>0. TypeOK /\ (removals = 0 => CalmInv)
  BY DEF ProviderInv
<1>l. /\ discoveryLock \in Threads \cup {NoThread} /\ repoLock \in Threads \cup {NoThread}
      /\ \A u \in Threads : (discoveryLock = u <=> th[u].stage \in Discovering) /\ (repoLock = u <=> th[u].stage = "init")
  BY <1>0, LocksHeld DEF TypeOK
<1>m. \A s \in Stages : Goto(t, s) => Moved(t, s, th[t].names, th[t].gen, th[t].snap)
  BY <1>0, GotoMoves
<1>n. /\ th \in [Threads -> Thread] /\ th[t].stage \in Stages /\ th[t].names \subseteq Repos
      /\ th[t].ds \in Datasets /\ RepoOf(th[t].ds) \in Repos /\ th[t].gen \in Nat /\ th[t].snap \in Nat
  BY <1>0, ThreadTypes
<1>q. /\ UNCHANGED <<world, repos, cache, lockGen, lockKept, ttl>>
      /\ UNCHANGED discovery
  BY DEF CacheHit, CheckRepos, EnterRepoLock, GetRepo, TipMoved, LoadFails, Answer, caches
<1>f. configs' \subseteq Repos /\ fresh' \in BOOLEAN
  BY <1>0, <1>q DEF TypeOK, discovery
<1>g. removals = 0 /\ th[t].stage \in Locked => th[t].gen = 1
  BY <1>0 DEF CalmInv, OneLockObject
<1>1. CASE CacheHit(t)
  <2>1. cache[th[t].ds].snap \in Nat
    BY <1>0, <1>n DEF TypeOK
  <2>2. Moved(t, "served", th[t].names, th[t].gen, cache[th[t].ds].snap) /\ "served" \in Plain
    BY <1>0, <1>1, <2>1, ServeMoves DEF CacheHit, Plain
  <2>3. LocksFollow(t, "served")
    BY <1>1, <1>l DEF CacheHit, LocksFollow, Discovering, discovery, caches
  <2> QED  BY <1>q, <1>f, <2>2, <2>3, PlainAllowed, QuietStep
<1>2. CASE CheckRepos(t)
  <2>1. PICK s \in {"getRepo", "waitRepo"} : Goto(t, s) /\ (s = "getRepo" => RepoOf(th[t].ds) \in repos)
    BY <1>2 DEF CheckRepos
  <2>2. Moved(t, s, th[t].names, th[t].gen, th[t].snap)
    BY <1>m, <2>1 DEF Stages
  <2>3. LocksFollow(t, s)
    BY <1>2, <1>l, <2>1 DEF CheckRepos, LocksFollow, Discovering, discovery, caches
  <2>4. removals = 0 => Allowed(t, s, th[t].names, th[t].gen, th[t].snap)
    BY <1>2, <1>g, <1>q, <2>1 DEF Allowed, CheckRepos, Locked
  <2> QED  BY <1>q, <1>f, <2>2, <2>3, <2>4, QuietStep
<1>3. CASE EnterRepoLock(t)
  <2>1. Moved(t, "init", th[t].names, th[t].gen, th[t].snap)
    BY <1>m, <1>3 DEF EnterRepoLock, Stages
  <2>2. LocksFollow(t, "init")
    BY <1>3, <1>l DEF EnterRepoLock, LocksFollow, Discovering, discovery
  <2>3. removals = 0 => Allowed(t, "init", th[t].names, th[t].gen, th[t].snap)
    BY <1>3, <1>g DEF Allowed, EnterRepoLock, Locked
  <2> QED  BY <1>q, <1>f, <2>1, <2>2, <2>3, QuietStep
<1>5. CASE GetRepo(t)
  <2>1. PICK s \in {"lookup", "error"} : Goto(t, s) /\ (s = "error" => RepoOf(th[t].ds) \notin repos)
    BY <1>5 DEF GetRepo
  <2>2. Moved(t, s, th[t].names, th[t].gen, th[t].snap)
    BY <1>m, <2>1 DEF Stages
  <2>3. LocksFollow(t, s)
    BY <1>5, <1>l, <2>1 DEF GetRepo, LocksFollow, Discovering, discovery, caches
  <2>4. removals = 0 => s = "lookup"
    BY <1>0, <1>5, <2>1 DEF CalmInv, HandleKept, GetRepo
  <2>5. removals = 0 => Allowed(t, s, th[t].names, th[t].gen, th[t].snap)
    BY <1>5, <1>g, <2>4 DEF Allowed, GetRepo, Locked
  <2> QED  BY <1>q, <1>f, <2>2, <2>3, <2>5, QuietStep
<1>6. CASE TipMoved(t)
  <2> DEFINE k == tip[RepoOf(th[t].ds)]
  <2>1. k \in Nat
    BY <1>0, <1>n DEF TypeOK
  <2>2. Moved(t, "load", th[t].names, th[t].gen, k)
    BY <1>6, <1>n, <2>1 DEF TipMoved, Moved, Thread, Stages
  <2>3. LocksFollow(t, "load")
    BY <1>6, <1>l DEF TipMoved, LocksFollow, Discovering, discovery, caches
  <2>4. removals = 0 => cache[th[t].ds].snap <= k /\ floor[th[t].ds] <= k /\ k <= k
    BY <1>0, <1>n, <2>1 DEF CalmInv, NothingAhead
  <2>5. removals = 0 => Allowed(t, "load", th[t].names, th[t].gen, k)
    BY <1>6, <1>g, <2>4 DEF Allowed, TipMoved, Locked
  <2> QED  BY <1>q, <1>f, <2>2, <2>3, <2>5, QuietStep
<1>7. CASE LoadFails(t)
  <2>1. Moved(t, "error", th[t].names, th[t].gen, th[t].snap)
    BY <1>m, <1>7 DEF LoadFails, Stages
  <2>2. LocksFollow(t, "error")
    BY <1>7, <1>l DEF LoadFails, LocksFollow, Discovering, discovery, caches
  <2>3. removals = 0 => mode.fails
    BY <1>0, <1>7, <1>n DEF LoadFails, CalmInv, StorageComplete, Present
  <2>4. removals = 0 => Allowed(t, "error", th[t].names, th[t].gen, th[t].snap)
    BY <2>3 DEF Allowed, Locked
  <2> QED  BY <1>q, <1>f, <2>1, <2>2, <2>4, QuietStep
<1>8. CASE Answer(t)
  <2>1. Moved(t, "idle", {}, 0, 0) /\ "idle" \in Plain
    BY <1>8, <1>n DEF Answer, Moved, Thread, NoWork, Stages, Plain
  <2>2. LocksFollow(t, "idle")
    BY <1>8, <1>l DEF Answer, Answers, LocksFollow, Discovering, discovery, caches
  <2> QED  BY <1>q, <1>f, <2>1, <2>2, PlainAllowed, QuietStep
<1> QED  BY <1>1, <1>2, <1>3, <1>5, <1>6, <1>7, <1>8

\* A waiting thread takes the lock object of its dataset only while nobody has it; a thread
\* at the cache finds that lock object or makes it.
LEMMA LockStep ==
  ASSUME ProviderInv, HistoryTyped', NEW t \in Threads, CacheMiss(t) \/ AcquireDataset(t)
  PROVE  ProviderInv'
<1> USE ProviderBounds
<1>0. TypeOK /\ (removals = 0 => CalmInv) /\ StaleAtMostOneTtl
  BY DEF ProviderInv
<1>l. /\ discoveryLock \in Threads \cup {NoThread} /\ repoLock \in Threads \cup {NoThread}
      /\ \A u \in Threads : (discoveryLock = u <=> th[u].stage \in Discovering) /\ (repoLock = u <=> th[u].stage = "init")
  BY <1>0, LocksHeld DEF TypeOK
<1>n. /\ th \in [Threads -> Thread] /\ th[t].stage \in Stages /\ th[t].names \subseteq Repos
      /\ th[t].ds \in Datasets /\ RepoOf(th[t].ds) \in Repos /\ th[t].gen \in Nat /\ th[t].snap \in Nat
  BY <1>0, ThreadTypes
<1>s. cache[th[t].ds].snap \in Nat
  BY <1>0, <1>n DEF TypeOK
<1>f. /\ UNCHANGED <<world, repos, cache, ttl>>
      /\ configs' \subseteq Repos /\ fresh' \in BOOLEAN
  BY <1>0 DEF CacheMiss, AcquireDataset, TypeOK, discovery, caches
<1>1. CASE CacheMiss(t)
  <2> DEFINE d == th[t].ds
             gen == IF lockKept[d] THEN lockGen[d] ELSE lockGen[d] + 1
  <2>1. gen \in Nat
    BY <1>0, <1>n DEF TypeOK
  <2>2. /\ lockGen' = [lockGen EXCEPT ![d] = gen]
        /\ lockKept' = [lockKept EXCEPT ![d] = TRUE]
        /\ th' = [th EXCEPT ![t].stage = "waitDataset", ![t].gen = gen]
        /\ th[t].stage = "lookaside"
    BY <1>1 DEF CacheMiss
  <2>3. removals = 0 => gen = 1
    BY <1>0, <1>n DEF CalmInv, OneLockObject
  <2> HIDE DEF gen
  <2>4. Moved(t, "waitDataset", th[t].names, gen, th[t].snap)
    BY <1>n, <2>1, <2>2 DEF Moved, Thread, Stages
  <2>5. LocksFollow(t, "waitDataset")
    BY <1>1, <1>l, <2>2 DEF CacheMiss, LocksFollow, Discovering, discovery
  <2>6. TypeOK'
    <3>1. /\ UNCHANGED <<mode, removals, expiries, floor>>
          /\ tip' \in [Repos -> Nat] /\ commits' \in [Repos -> Nat] /\ \A n \in Repos : tip'[n] <= commits'[n]
          /\ repos' \subseteq Repos /\ cache' \in [Datasets -> [snap : Nat, checked : BOOLEAN]]
      BY <1>0, <1>f DEF TypeOK, world, ttl
    <3>2. lockGen' \in [Datasets -> Nat]
      BY <1>0, <2>1, <2>2 DEF TypeOK
    <3>3. lockKept' \in [Datasets -> BOOLEAN]
      BY <1>0, <2>2 DEF TypeOK
    <3> QED  BY <1>0, <1>f, <2>4, <2>5, <3>1, <3>2, <3>3, TypeMoved
  <2>7. ASSUME removals = 0 PROVE CalmInv' /\ StaleAtMostOneTtl'
    <3>t. /\ th'[t].stage = "waitDataset" /\ th'[t].gen = gen /\ th'[t].ds = th[t].ds
          /\ \A u \in Threads : u # t => th'[u] = th[u]
      BY <2>4 DEF Moved
    <3>u. UNCHANGED <<mode, tip, removals, repos, cache, floor>>
      BY <1>f DEF world, ttl
    <3>1. StorageComplete' /\ NothingAhead' /\ StaleAtMostOneTtl'
      BY <1>0, <2>7, <3>t, <3>u DEF CalmInv, StorageComplete, NothingAhead, StaleAtMostOneTtl
    <3>2. ListingComplete' /\ HandleKept' /\ OneHolder' /\ HolderAlone'
      BY <1>0, <2>7, <3>t, <3>u DEF CalmInv, ListingComplete, HandleKept, OneHolder, HolderAlone, Locked
    <3>3. \A e \in Datasets : lockGen'[e] = IF lockKept'[e] THEN 1 ELSE 0
      <4> SUFFICES ASSUME NEW e \in Datasets PROVE lockGen'[e] = IF lockKept'[e] THEN 1 ELSE 0
        OBVIOUS
      <4>1. CASE e = d
        BY <1>0, <2>2, <2>3, <2>7, <4>1 DEF TypeOK
      <4>2. CASE e # d
        BY <1>0, <2>2, <2>7, <4>2 DEF TypeOK, CalmInv, OneLockObject
      <4> QED  BY <4>1, <4>2
    <3>4. OneLockObject'
      BY <1>0, <2>3, <2>7, <3>3, <3>t DEF CalmInv, OneLockObject
    <3> QED  BY <3>1, <3>2, <3>4 DEF CalmInv
  <2> QED  BY <1>f, <2>6, <2>7 DEF ProviderInv, StaleAtMostOneTtl, world
<1>2. CASE AcquireDataset(t)
  <2>q. UNCHANGED <<world, repos, cache, lockGen, lockKept, ttl, discoveryLock, repoLock>> /\ th[t].stage = "waitDataset"
    BY <1>2 DEF AcquireDataset, caches, discovery
  <2>1. CASE cache[th[t].ds].checked
    <3>1. Moved(t, "served", th[t].names, th[t].gen, cache[th[t].ds].snap) /\ "served" \in Plain
      BY <1>0, <1>2, <1>s, <2>1, ServeMoves DEF AcquireDataset, Plain
    <3>2. LocksFollow(t, "served")
      BY <1>l, <2>q DEF LocksFollow, Discovering
    <3> QED  BY <1>f, <2>q, <3>1, <3>2, PlainAllowed, QuietStep
  <2>2. CASE ~cache[th[t].ds].checked
    <3> DEFINE k == cache[th[t].ds].snap
    <3>1. Moved(t, "open", th[t].names, th[t].gen, k)
      BY <1>2, <1>n, <1>s, <2>2 DEF AcquireDataset, Moved, Thread, Stages
    <3>2. LocksFollow(t, "open")
      BY <1>l, <2>q DEF LocksFollow, Discovering
    <3>3. TypeOK'
      BY <1>0, <1>f, <2>q, <3>1, <3>2, TypeQuiet
    <3>4. ASSUME removals = 0 PROVE CalmInv' /\ StaleAtMostOneTtl'
      <4>t. /\ th'[t].stage = "open" /\ th'[t].gen = th[t].gen /\ th'[t].ds = th[t].ds
            /\ \A u \in Threads : u # t => th'[u] = th[u]
        BY <3>1 DEF Moved
      <4>u. UNCHANGED <<mode, tip, removals, repos, cache, floor, lockGen, lockKept>>
        BY <2>q DEF world, ttl
      <4>1. StorageComplete' /\ NothingAhead' /\ StaleAtMostOneTtl'
        BY <1>0, <3>4, <4>t, <4>u DEF CalmInv, StorageComplete, NothingAhead, StaleAtMostOneTtl
      <4>2. ListingComplete' /\ HandleKept'
        BY <1>0, <3>4, <4>t, <4>u DEF CalmInv, ListingComplete, HandleKept
      <4>3. OneLockObject'
        BY <1>0, <2>q, <3>4, <4>t, <4>u DEF CalmInv, OneLockObject
      <4>4. HolderAlone'
        BY <1>0, <2>2, <3>4, <4>t, <4>u DEF CalmInv, HolderAlone
      <4>5. \A u \in Threads : u # t /\ th[u].stage \in Locked => th[u].ds # th[t].ds
        <5>1. \A u \in Threads : ~HoldsLock(u, th[t].ds, th[t].gen)
          BY <1>2 DEF AcquireDataset
        <5>2. th[t].gen = 1 /\ \A u \in Threads : th[u].stage \in Locked => th[u].gen = 1
          BY <1>0, <2>q, <3>4 DEF CalmInv, OneLockObject
        <5> QED  BY <5>1, <5>2 DEF HoldsLock
      <4>6. OneHolder'
        BY <1>0, <3>4, <4>5, <4>t DEF CalmInv, OneHolder
      <4> QED  BY <4>1, <4>2, <4>3, <4>4, <4>6 DEF CalmInv
    <3> QED  BY <2>q, <3>3, <3>4 DEF ProviderInv, StaleAtMostOneTtl, world
  <2> QED  BY <2>1, <2>2
<1> QED  BY <1>1, <1>2

\* The steps of get_datatree_for_dataset that keep a handle, stamp an entry or store one.
LEMMA StoreStep ==
  ASSUME ProviderInv, HistoryTyped', NEW t \in Threads,
         InitRepo(t) \/ InitRepoFails(t) \/ TipUnchanged(t) \/ LookupFails(t) \/ StoreEntry(t)
  PROVE  ProviderInv'
<1> USE ProviderBounds
<1>0. TypeOK /\ (removals = 0 => CalmInv) /\ StaleAtMostOneTtl
  BY DEF ProviderInv
<1>l. /\ discoveryLock \in Threads \cup {NoThread} /\ repoLock \in Threads \cup {NoThread}
      /\ \A u \in Threads : (discoveryLock = u <=> th[u].stage \in Discovering) /\ (repoLock = u <=> th[u].stage = "init")
  BY <1>0, LocksHeld DEF TypeOK
<1>m. \A s \in Stages : Goto(t, s) => Moved(t, s, th[t].names, th[t].gen, th[t].snap)
  BY <1>0, GotoMoves
<1>n. /\ th[t].ds \in Datasets /\ RepoOf(th[t].ds) \in Repos /\ th[t].gen \in Nat /\ th[t].snap \in Nat
  BY <1>0, ThreadTypes
<1>c. /\ cache \in [Datasets -> [snap : Nat, checked : BOOLEAN]]
      /\ cache[th[t].ds] \in [snap : Nat, checked : BOOLEAN] /\ cache[th[t].ds].snap \in Nat
      /\ floor[th[t].ds] \in Nat /\ tip[RepoOf(th[t].ds)] \in Nat
  BY <1>0, <1>n DEF TypeOK
<1>f. configs' \subseteq Repos /\ fresh' \in BOOLEAN
  BY <1>0 DEF TypeOK, InitRepo, InitRepoFails, TipUnchanged, LookupFails, StoreEntry, discovery
<1>1. CASE InitRepo(t) \/ InitRepoFails(t)
  <2> DEFINE n == RepoOf(th[t].ds)
  <2>1. PICK s \in {"getRepo", "error"} : Goto(t, s) /\ (s = "getRepo" => n \in repos')
    BY <1>1 DEF InitRepo, InitRepoFails
  <2>m. Moved(t, s, th[t].names, th[t].gen, th[t].snap)
    BY <1>m, <2>1 DEF Stages
  <2>2. LocksFollow(t, s)
    BY <1>1, <1>l, <2>1 DEF InitRepo, InitRepoFails, LocksFollow, Discovering, discovery
  <2>3. /\ UNCHANGED <<expiries, floor, cache, lockGen, lockKept>> /\ th[t].stage = "init"
        /\ repos \subseteq repos' /\ repos' \subseteq repos \cup {n}
        /\ UNCHANGED world \/ CreateMissing(n)
    BY <1>1 DEF InitRepo, InitRepoFails, ttl
  <2>4. /\ UNCHANGED <<mode, removals>> /\ (Present(n) => tip' = tip)
        /\ tip' \in [Repos -> Nat] /\ commits' \in [Repos -> Nat] /\ \A m \in Repos : tip'[m] <= commits'[m]
    <3>1. CASE UNCHANGED world
      BY <1>0, <3>1 DEF world, TypeOK
    <3>2. CASE ~Present(n) /\ CreateMissing(n)
      <4>1. /\ tip' = [tip EXCEPT ![n] = commits[n] + 1]
            /\ commits' = [commits EXCEPT ![n] = commits[n] + 1] /\ UNCHANGED <<mode, removals>>
        BY <3>2 DEF CreateMissing
      <4> QED  BY <1>0, <1>n, <3>2, <4>1 DEF TypeOK
    <3> QED  BY <2>3, <3>1, <3>2 DEF CreateMissing
  <2>5. TypeOK'
    <3>1. /\ cache' \in [Datasets -> [snap : Nat, checked : BOOLEAN]] /\ repos' \subseteq Repos
          /\ lockGen' \in [Datasets -> Nat] /\ lockKept' \in [Datasets -> BOOLEAN]
      BY <1>0, <1>n, <2>3 DEF TypeOK
    <3> QED  BY <1>0, <1>f, <2>m, <2>2, <2>3, <2>4, <3>1, TypeMoved
  <2>6. ASSUME removals = 0 PROVE CalmInv' /\ StaleAtMostOneTtl'
    <3>1. Present(n)
      BY <1>0, <1>n, <2>6 DEF CalmInv, StorageComplete, Present
    <3>3. th[t].gen = 1
      BY <1>0, <2>3, <2>6 DEF CalmInv, OneLockObject, Locked
    <3>4. Allowed(t, s, th[t].names, th[t].gen, th[t].snap)
      BY <2>1, <2>3, <3>3 DEF Allowed, Locked
    <3> QED  BY <2>m, <2>3, <2>4, <2>6, <3>1, <3>4, CalmMoved
  <2> QED  BY <2>4, <2>5, <2>6 DEF ProviderInv, StaleAtMostOneTtl
<1>2. ASSUME NEW k \in Nat, NEW e \in [snap : Nat, checked : BOOLEAN],
             Moved(t, "served", th[t].names, th[t].gen, k), th[t].stage \in {"lookup", "load"},
             cache' = [cache EXCEPT ![th[t].ds] = e],
             UNCHANGED <<world, discovery, repos, lockGen, lockKept, repoLock, ttl>>,
             removals = 0 => /\ e.snap <= tip[RepoOf(th[t].ds)]
                             /\ ~mode.fails /\ e.checked => e.snap >= floor[th[t].ds]
      PROVE  ProviderInv'
  <2>1. LocksFollow(t, "served")
    BY <1>2, <1>l DEF LocksFollow, Discovering, discovery
  <2>2. /\ UNCHANGED <<mode, removals, expiries, floor, tip, commits>>
        /\ cache' \in [Datasets -> [snap : Nat, checked : BOOLEAN]]
    BY <1>2, <1>c DEF world, ttl
  <2>3. /\ tip' \in [Repos -> Nat] /\ commits' \in [Repos -> Nat] /\ \A m \in Repos : tip'[m] <= commits'[m]
        /\ repos' \subseteq Repos /\ lockGen' \in [Datasets -> Nat] /\ lockKept' \in [Datasets -> BOOLEAN]
    BY <1>0, <1>2, <2>2 DEF TypeOK
  <2>4. TypeOK'
    BY <1>0, <1>2, <1>f, <2>1, <2>2, <2>3, TypeMoved
  <2>5. cache'[th[t].ds] = e /\ \A d \in Datasets : d # th[t].ds => cache'[d] = cache[d]
    BY <1>2, <1>c, <1>n
  <2>6. ASSUME removals = 0 PROVE CalmInv' /\ StaleAtMostOneTtl'
    <3>1. th[t].stage \in Locked
      BY <1>2 DEF Locked
    <3> QED  BY <1>2, <2>2, <2>5, <2>6, <3>1, CalmStored
  <2> QED  BY <2>2, <2>4, <2>6 DEF ProviderInv, StaleAtMostOneTtl
<1>r. ASSUME Restamp(t), th[t].stage = "lookup"
      PROVE  \E e \in [snap : Nat, checked : BOOLEAN] :
               /\ cache' = [cache EXCEPT ![th[t].ds] = e] /\ e.snap = cache[th[t].ds].snap
               /\ removals = 0 /\ e.checked => e.snap = th[t].snap
  <2> DEFINE e == [cache[th[t].ds] EXCEPT !.checked = @ \/ cache[th[t].ds].snap = th[t].snap]
  <2>1. cache' = [cache EXCEPT ![th[t].ds] = e]
    BY <1>r DEF Restamp
  <2>2. /\ e \in [snap : Nat, checked : BOOLEAN] /\ e.snap = cache[th[t].ds].snap
        /\ e.checked = (cache[th[t].ds].checked \/ cache[th[t].ds].snap = th[t].snap)
    BY <1>c
  <2>3. removals = 0 => ~cache[th[t].ds].checked
    BY <1>0, <1>r DEF CalmInv, HolderAlone, Locked
  <2> HIDE DEF e
  <2> QED  BY <2>1, <2>2, <2>3
<1>3. CASE TipUnchanged(t)
  <2>1. PICK e \in [snap : Nat, checked : BOOLEAN] :
               /\ cache' = [cache EXCEPT ![th[t].ds] = e] /\ e.snap = cache[th[t].ds].snap
               /\ removals = 0 /\ e.checked => e.snap = th[t].snap
    BY <1>3, <1>r DEF TipUnchanged
  <2>2. Moved(t, "served", th[t].names, th[t].gen, th[t].snap)
    BY <1>0, <1>3, <1>n, ServeMoves DEF TipUnchanged
  <2>3. removals = 0 => /\ e.snap <= tip[RepoOf(th[t].ds)]
                        /\ ~mode.fails /\ e.checked => e.snap >= floor[th[t].ds]
    BY <1>0, <1>3, <1>c, <1>n, <2>1 DEF TipUnchanged, CalmInv, NothingAhead
  <2> QED  BY <1>2, <1>3, <1>n, <2>1, <2>2, <2>3 DEF TipUnchanged
<1>4. CASE LookupFails(t)
  <2>0. removals = 0 => mode.fails
    BY <1>0, <1>4, <1>n DEF LookupFails, CalmInv, StorageComplete, Present
  <2>1. CASE th[t].snap = 0
    <3>1. Moved(t, "error", th[t].names, th[t].gen, th[t].snap)
      BY <1>4, <1>m, <2>1 DEF LookupFails, Stages
    <3>2. LocksFollow(t, "error")
      BY <1>4, <1>l DEF LookupFails, LocksFollow, Discovering, discovery
    <3>3. UNCHANGED <<world, repos, cache, lockGen, lockKept, ttl>>
      BY <1>4, <2>1 DEF LookupFails
    <3>4. removals = 0 => Allowed(t, "error", th[t].names, th[t].gen, th[t].snap)
      BY <2>0 DEF Allowed, Locked
    <3> QED  BY <1>f, <3>1, <3>2, <3>3, <3>4, QuietStep
  <2>2. CASE th[t].snap # 0
    <3>1. PICK e \in [snap : Nat, checked : BOOLEAN] :
                 /\ cache' = [cache EXCEPT ![th[t].ds] = e] /\ e.snap = cache[th[t].ds].snap
                 /\ removals = 0 /\ e.checked => e.snap = th[t].snap
      BY <1>4, <1>r, <2>2 DEF LookupFails
    <3>2. Moved(t, "served", th[t].names, th[t].gen, th[t].snap)
      BY <1>0, <1>4, <1>n, <2>2, ServeMoves DEF LookupFails
    <3>3. removals = 0 => /\ e.snap <= tip[RepoOf(th[t].ds)]
                          /\ ~mode.fails /\ e.checked => e.snap >= floor[th[t].ds]
      BY <1>0, <1>n, <2>0, <3>1 DEF CalmInv, NothingAhead
    <3> QED  BY <1>2, <1>4, <1>n, <3>1, <3>2, <3>3 DEF LookupFails
  <2> QED  BY <2>1, <2>2
<1>5. CASE StoreEntry(t)
  <2> DEFINE e == [snap |-> th[t].snap, checked |-> TRUE]
  <2>1. e \in [snap : Nat, checked : BOOLEAN] /\ e.snap = th[t].snap
    BY <1>n
  <2>2. cache' = [cache EXCEPT ![th[t].ds] = e] /\ th[t].stage = "load"
    BY <1>5 DEF StoreEntry
  <2>3. Moved(t, "served", th[t].names, th[t].gen, th[t].snap)
    BY <1>5, <1>m DEF StoreEntry, Stages
  <2> HIDE DEF e
  <2>4. removals = 0 => /\ e.snap <= tip[RepoOf(th[t].ds)]
                        /\ ~mode.fails /\ e.checked => e.snap >= floor[th[t].ds]
    BY <1>0, <1>c, <1>n, <2>1, <2>2 DEF CalmInv, HolderAlone
  <2> QED  BY <1>2, <1>5, <1>n, <2>1, <2>2, <2>3, <2>4 DEF StoreEntry
<1> QED  BY <1>1, <1>3, <1>4, <1>5

\* A thread takes a request.
LEMMA RequestStep ==
  ASSUME ProviderInv, HistoryTyped', NEW t \in Threads, NEW d \in Datasets, GetDatatree(t, d)
  PROVE  ProviderInv'
<1>0. TypeOK /\ (removals = 0 => CalmInv) /\ StaleAtMostOneTtl
  BY DEF ProviderInv
<1>1. th \in [Threads -> Thread]
  BY <1>0, ThreadTypes
<1>2. /\ th' \in [Threads -> Thread] /\ th'[t].stage = "configs" /\ th[t].stage = "idle"
      /\ \A u \in Threads : u # t => th'[u] = th[u]
  BY <1>1 DEF GetDatatree, NoWork, Thread, Stages
<1>3. UNCHANGED <<mode, tip, commits, removals, configs, fresh, discoveryLock, repos, cache, lockGen,
                  lockKept, repoLock, expiries, floor>>
  BY DEF GetDatatree, world, discovery, caches, ttl
<1>4. \A u \in Threads : /\ discoveryLock' = u <=> th'[u].stage \in Discovering
                         /\ repoLock' = u <=> th'[u].stage = "init"
  BY <1>0, <1>2, <1>3, LocksHeld DEF Discovering
<1>5. TypeOK'
  BY <1>0, <1>2, <1>3, <1>4 DEF TypeOK, Thread, HistoryTyped
<1>6. StaleAtMostOneTtl'
  BY <1>0, <1>2, <1>3 DEF StaleAtMostOneTtl
<1>7. removals = 0 => CalmInv'
  BY <1>0, <1>2, <1>3 DEF CalmInv, StorageComplete, ListingComplete, HandleKept, OneLockObject,
     OneHolder, NothingAhead, HolderAlone, Locked
<1> QED  BY <1>3, <1>5, <1>6, <1>7 DEF ProviderInv

\* What the flows and the clock do.
LEMMA WorldStep ==
  ASSUME ProviderInv, HistoryTyped',
         \/ \E n \in Repos : Commit(n) \/ RemoveRepo(n)
         \/ ExpireDiscovery
         \/ \E d \in Datasets : ExpireEntry(d)
  PROVE  ProviderInv'
<1> USE ProviderBounds
<1>0. TypeOK /\ (removals = 0 => CalmInv) /\ StaleAtMostOneTtl
  BY DEF ProviderInv
<1>n. \A u \in Threads : th[u].ds \in Datasets /\ RepoOf(th[u].ds) \in Repos /\ th[u].snap \in Nat
  BY <1>0, ThreadTypes
<1>1. ASSUME NEW n \in Repos, Commit(n) PROVE ProviderInv'
  <2>1. /\ commits' = [commits EXCEPT ![n] = commits[n] + 1] /\ tip' = [tip EXCEPT ![n] = commits[n] + 1]
        /\ UNCHANGED <<mode, removals, configs, fresh, discoveryLock, repos, cache, lockGen, lockKept,
                       repoLock, th, expiries, floor>>
    BY <1>1 DEF Commit, discovery, caches, ttl
  <2>2. tip' \in [Repos -> Nat] /\ commits' \in [Repos -> Nat] /\ \A m \in Repos : tip'[m] <= commits'[m]
    BY <1>0, <2>1 DEF TypeOK
  <2>3. TypeOK'
    BY <1>0, <2>1, <2>2 DEF TypeOK, HistoryTyped
  <2>4. \A m \in Repos : tip[m] \in Nat /\ tip'[m] \in Nat /\ tip[m] <= tip'[m]
    BY <1>0, <2>1, <2>2 DEF TypeOK
  <2>5. ASSUME removals = 0 PROVE CalmInv'
    <3>1. StorageComplete'
      BY <1>0, <2>4, <2>5 DEF CalmInv, StorageComplete
    <3>2. NothingAhead'
      <4>1. \A d \in Datasets : cache[d].snap \in Nat /\ floor[d] \in Nat
        BY <1>0 DEF TypeOK
      <4> QED  BY <1>0, <2>1, <2>4, <2>5, <4>1, DatasetRepo DEF CalmInv, NothingAhead
    <3>3. HolderAlone'
      BY <1>0, <1>n, <2>1, <2>4, <2>5 DEF CalmInv, HolderAlone
    <3>4. ListingComplete' /\ HandleKept' /\ OneLockObject' /\ OneHolder'
      BY <1>0, <2>1, <2>5 DEF CalmInv, ListingComplete, HandleKept, OneLockObject, OneHolder
    <3> QED  BY <3>1, <3>2, <3>3, <3>4 DEF CalmInv
  <2> QED  BY <1>0, <2>1, <2>3, <2>5 DEF ProviderInv, StaleAtMostOneTtl
<1>2. ASSUME NEW n \in Repos, RemoveRepo(n) PROVE ProviderInv'
  <2>1. /\ removals < mode.removals /\ removals' = removals + 1 /\ tip' = [tip EXCEPT ![n] = 0]
        /\ UNCHANGED <<mode, commits, configs, fresh, discoveryLock, repos, cache, lockGen, lockKept,
                       repoLock, th, expiries, floor>>
    BY <1>2 DEF RemoveRepo, discovery, caches, ttl
  <2>2. tip' \in [Repos -> Nat] /\ \A m \in Repos : tip'[m] <= commits[m]
    BY <1>0, <2>1 DEF TypeOK
  <2>3. mode.removals \in Nat /\ removals \in Nat
    BY <1>0 DEF TypeOK
  <2>4. removals' \in 0..mode'.removals /\ removals' # 0
    BY <2>1, <2>3
  <2>5. TypeOK'
    BY <1>0, <2>1, <2>2, <2>4 DEF TypeOK, HistoryTyped
  <2> QED  BY <2>4, <2>5 DEF ProviderInv, StaleAtMostOneTtl
<1>3. CASE ExpireDiscovery
  <2>1. /\ expiries < MaxExpiries /\ expiries' = expiries + 1
        /\ UNCHANGED <<mode, tip, commits, removals, configs, discoveryLock, repos, cache, lockGen, lockKept,
                       repoLock, th, floor>>
    BY <1>3 DEF ExpireDiscovery, world, caches
  <2>2. fresh' \in BOOLEAN
    BY <1>3, Zenon DEF ExpireDiscovery
  <2>3. expiries' \in 0..MaxExpiries
    BY <1>0, <2>1 DEF TypeOK
  <2>4. TypeOK'
    BY <1>0, <2>1, <2>2, <2>3 DEF TypeOK, HistoryTyped
  <2>5. removals = 0 => CalmInv'
    BY <1>0, <2>1 DEF CalmInv, StorageComplete, ListingComplete, HandleKept, OneLockObject, OneHolder,
       NothingAhead, HolderAlone
  <2> QED  BY <1>0, <2>1, <2>4, <2>5 DEF ProviderInv, StaleAtMostOneTtl
<1>4. ASSUME NEW d \in Datasets, ExpireEntry(d) PROVE ProviderInv'
  <2>1. /\ cache[d].checked /\ expiries < MaxExpiries /\ expiries' = expiries + 1
        /\ cache' = [cache EXCEPT ![d].checked = FALSE] /\ floor' = [floor EXCEPT ![d] = tip[RepoOf(d)]]
        /\ UNCHANGED <<mode, tip, commits, removals, configs, fresh, discoveryLock, repos, lockGen, lockKept,
                       repoLock, th>>
    BY <1>4 DEF ExpireEntry, world, discovery
  <2>2. /\ cache \in [Datasets -> [snap : Nat, checked : BOOLEAN]] /\ floor \in [Datasets -> Nat]
        /\ tip[RepoOf(d)] \in Nat
    BY <1>0, DatasetRepo DEF TypeOK
  <2>3. /\ cache' \in [Datasets -> [snap : Nat, checked : BOOLEAN]] /\ floor' \in [Datasets -> Nat]
        /\ expiries' \in 0..MaxExpiries
    <3>1. floor' \in [Datasets -> Nat]
      BY <2>1, <2>2
    <3>2. expiries' \in 0..MaxExpiries
      BY <1>0, <2>1 DEF TypeOK
    <3>3. cache' \in [Datasets -> [snap : Nat, checked : BOOLEAN]]
      BY <2>1, <2>2
    <3> QED  BY <3>1, <3>2, <3>3
  <2>4. TypeOK'
    BY <1>0, <2>1, <2>3 DEF TypeOK, HistoryTyped
  <2>5. /\ ~cache'[d].checked /\ cache'[d].snap = cache[d].snap /\ floor'[d] = tip[RepoOf(d)]
        /\ \A e \in Datasets : e # d => cache'[e] = cache[e] /\ floor'[e] = floor[e]
    BY <2>1, <2>2
  <2>6. StaleAtMostOneTtl'
    BY <1>0, <2>1, <2>5 DEF StaleAtMostOneTtl
  <2>7. ASSUME removals = 0 PROVE CalmInv'
    <3>1. NothingAhead'
      BY <1>0, <2>1, <2>2, <2>5, <2>7 DEF CalmInv, NothingAhead
    <3>2. HolderAlone'
      <4>1. \A u \in Threads : th[u].stage \in Locked => th[u].ds # d
        BY <1>0, <2>1, <2>7 DEF CalmInv, HolderAlone
      <4>2. \A u \in Threads : th[u].stage = "load" => th[u].ds # d
        BY <4>1 DEF Locked
      <4> QED  BY <1>0, <1>n, <2>1, <2>5, <2>7, <4>1, <4>2 DEF CalmInv, HolderAlone
    <3>3. StorageComplete' /\ ListingComplete' /\ HandleKept' /\ OneLockObject' /\ OneHolder'
      BY <1>0, <2>1, <2>7 DEF CalmInv, StorageComplete, ListingComplete, HandleKept, OneLockObject, OneHolder
    <3> QED  BY <3>1, <3>2, <3>3 DEF CalmInv
  <2> QED  BY <2>1, <2>4, <2>6, <2>7 DEF ProviderInv
<1> QED  BY <1>1, <1>2, <1>3, <1>4

----------------------------------------------------------------------------
(* The invariant and what follows from it.                                 *)

\* The initial state satisfies the invariant.
LEMMA ProviderInit == Init => ProviderInv
<1> SUFFICES ASSUME Init PROVE ProviderInv
  OBVIOUS
<1>1. TypeOK
  BY TypeInit
<1>2. PICK d \in Datasets : th = [t \in Threads |-> NoWork(d)]
  BY DEF Init
<1>3. \A t \in Threads : th[t].stage = "idle"
  BY <1>2 DEF NoWork
<1>4. StorageComplete
  BY DEF Init, StorageComplete
<1>5. ListingComplete /\ HandleKept /\ OneHolder /\ HolderAlone
  BY <1>3 DEF ListingComplete, HandleKept, OneHolder, HolderAlone, Locked
<1>6. OneLockObject
  BY <1>3 DEF Init, OneLockObject, Locked
<1>7. NothingAhead /\ StaleAtMostOneTtl
  BY DatasetRepo DEF Init, NothingAhead, StaleAtMostOneTtl, NoEntry
<1> QED  BY <1>1, <1>4, <1>5, <1>6, <1>7 DEF ProviderInv, CalmInv

\* Every step keeps the types of the history variables.
LEMMA HistoryStep ==
  ASSUME TypeOK, [Next]_vars
  PROVE  HistoryTyped'
<1>1. gone \subseteq Threads /\ strays \subseteq Datasets /\ \A t \in Threads : th[t].ds \in Datasets
  BY ThreadTypes DEF TypeOK
<1>2. ASSUME NEW t \in Threads, Step(t) PROVE HistoryTyped'
  <2>1. CASE UNCHANGED history
    BY <1>1, <2>1 DEF history, HistoryTyped
  <2>2. CASE EvictCache(t) \/ StoreEntry(t) \/ Answer(t)
    BY <1>1, <2>2 DEF EvictCache, StoreEntry, Answer, HistoryTyped
  <2> QED  BY <1>2, <2>1, <2>2 DEF Step, CheckConfigs, EnterDiscovery, ListRepos, ListingFails, StampDiscovery,
       AssignConfigs, EvictRepos, Resolve, CacheHit, CacheMiss, AcquireDataset, CheckRepos, EnterRepoLock,
       InitRepo, InitRepoFails, GetRepo, TipUnchanged, TipMoved, LookupFails, LoadFails
<1>3. ASSUME NEW t \in Threads, NEW d \in Datasets, GetDatatree(t, d) PROVE HistoryTyped'
  BY <1>1, <1>3 DEF GetDatatree, HistoryTyped
<1>4. ASSUME NEW n \in Repos, RemoveRepo(n) PROVE HistoryTyped'
  BY <1>1, <1>4 DEF RemoveRepo, HistoryTyped
<1>5. CASE UNCHANGED history
  BY <1>1, <1>5 DEF history, HistoryTyped
<1> QED  BY <1>2, <1>3, <1>4, <1>5 DEF Next, Commit, ExpireDiscovery, ExpireEntry, vars

\* Every step keeps it.
LEMMA ProviderStep == ProviderInv /\ [Next]_vars => ProviderInv'
<1> SUFFICES ASSUME ProviderInv, [Next]_vars PROVE ProviderInv'
  OBVIOUS
<1>0. HistoryTyped'
  BY HistoryStep DEF ProviderInv
<1>1. ASSUME NEW t \in Threads, Step(t) PROVE ProviderInv'
  BY <1>0, <1>1, DiscoveryStep, EvictStep, LookStep, LockStep, StoreStep DEF Step
<1>2. ASSUME NEW t \in Threads, NEW d \in Datasets, GetDatatree(t, d) PROVE ProviderInv'
  BY <1>0, <1>2, RequestStep
<1>3. ASSUME \/ \E n \in Repos : Commit(n) \/ RemoveRepo(n)
             \/ ExpireDiscovery
             \/ \E d \in Datasets : ExpireEntry(d)
      PROVE  ProviderInv'
  BY <1>0, <1>3, WorldStep
<1>4. CASE UNCHANGED vars
  <2>1. UNCHANGED <<mode, tip, commits, removals, configs, fresh, discoveryLock, repos, cache, lockGen,
                    lockKept, repoLock, th, expiries, floor, gone, strays>>
    BY <1>4 DEF vars, world, discovery, caches, ttl, history
  <2>2. TypeOK'
    BY <2>1 DEF ProviderInv, TypeOK
  <2>3. StaleAtMostOneTtl'
    BY <2>1 DEF ProviderInv, StaleAtMostOneTtl
  <2>4. ASSUME removals = 0 PROVE CalmInv'
    BY <2>1, <2>4 DEF ProviderInv, CalmInv, StorageComplete, ListingComplete, HandleKept, OneLockObject, OneHolder,
       NothingAhead, HolderAlone
  <2> QED  BY <2>1, <2>2, <2>3, <2>4 DEF ProviderInv
<1> QED  BY <1>1, <1>2, <1>3, <1>4 DEF Next

\* The invariant holds in every reachable state.
LEMMA ProviderInvariance == Spec => []ProviderInv
  BY ProviderInit, ProviderStep, PTL DEF Spec

\* The provider's state is well typed, and each of the two global locks is held by exactly
\* the thread whose code is inside its with block, also after exceptions and evictions.
THEOREM ProviderTypes == Spec => []TypeOK
<1>1. ProviderInv => TypeOK
  BY DEF ProviderInv
<1> QED  BY <1>1, ProviderInvariance, PTL

\* A fresh entry is never older than the tip was when the entry last expired.
THEOREM NewSnapshotsAppear == Spec => []StaleAtMostOneTtl
<1>1. ProviderInv => StaleAtMostOneTtl
  BY DEF ProviderInv
<1> QED  BY <1>1, ProviderInvariance, PTL

\* No step takes a repo that has been listed out of _repo_configs.
THEOREM ListedReposStay == Spec => ListedStaysKnown
<1>1. ProviderInv /\ [Next]_vars => (removals = 0 => configs \subseteq configs')
  <2> SUFFICES ASSUME ProviderInv, [Next]_vars, removals = 0 PROVE configs \subseteq configs'
    OBVIOUS
  <2>0. TypeOK /\ CalmInv
    BY DEF ProviderInv
  <2>1. ASSUME NEW t \in Threads, AssignConfigs(t) PROVE configs \subseteq configs'
    BY <2>0, <2>1 DEF AssignConfigs, CalmInv, ListingComplete, TypeOK
  <2>2. ASSUME NEW t \in Threads, Step(t) PROVE configs' = configs \/ AssignConfigs(t)
    BY <2>2 DEF Step, CheckConfigs, EnterDiscovery, ListRepos, ListingFails, StampDiscovery,
       EvictRepos, EvictCache, Resolve, CacheHit, CacheMiss, AcquireDataset, CheckRepos, EnterRepoLock,
       InitRepo, InitRepoFails, GetRepo, TipUnchanged, TipMoved, LookupFails, StoreEntry, LoadFails, Answer,
       discovery
  <2>3. (\E t \in Threads : Step(t)) \/ configs' = configs
    BY DEF Next, GetDatatree, Commit, RemoveRepo, ExpireDiscovery, ExpireEntry, discovery, vars
  <2> QED  BY <2>1, <2>2, <2>3
<1> QED  BY <1>1, ProviderInvariance, PTL DEF Spec, ListedStaysKnown

----------------------------------------------------------------------------
(* Repos that go away.  None of this needs the calm part: it holds through *)
(* any number of removals.                                                 *)

\* The request of a thread that is not in gone has had its repo all along;
RepoThere ==
  \A t \in Threads : th[t].stage # "idle" /\ Doomed(RepoOf(th[t].ds)) => t \in gone

\* it finds the handle it put into _repos or saw there;
HandleThere ==
  \A t \in Threads : th[t].stage = "getRepo" /\ RepoOf(th[t].ds) \notin repos => t \in gone

\* and its lock object is the one in _dataset_locks, which one thread at most has taken;
LockThere ==
  \A t \in Threads : th[t].stage \in Locked \cup {"waitDataset"} /\ t \notin gone =>
    lockKept[th[t].ds] /\ th[t].gen = lockGen[th[t].ds]

OneTaker ==
  \A t, u \in Threads :
    t # u /\ th[t].stage \in Locked /\ th[u].stage \in Locked /\ th[t].ds = th[u].ds => th[t].gen # th[u].gen

\* snapshots are numbered in the order they were made, and the tip is the last one;
Numbered ==
  /\ \A n \in Repos : tip[n] = 0 \/ tip[n] = commits[n]
  /\ \A d \in Datasets : cache[d].snap <= commits[RepoOf(d)]
  /\ \A t \in Threads : th[t].stage \in Locked => th[t].snap <= commits[RepoOf(th[t].ds)]

\* what is cached is no newer than what a thread is about to store, unless the lock of one
\* of the two loads was thrown away.
LoadNewer ==
  \A t \in Threads : th[t].stage = "load" /\ t \notin gone /\ th[t].ds \notin strays =>
    cache[th[t].ds].snap <= th[t].snap

GoneInv == /\ RepoThere /\ HandleThere /\ ErrorOnlyIfGone
           /\ LockThere /\ OneTaker /\ Numbered /\ LoadNewer

----------------------------------------------------------------------------
(* What a step of a thread changes, as far as GoneInv looks at it.         *)

OthersStay(t) ==
  /\ th'[t].ds = th[t].ds /\ \A u \in Threads : u # t => th'[u] = th[u]
  /\ th[t].stage # "idle" /\ mode' = mode
  /\ gone' = gone \/ (gone' = gone \ {t} /\ th'[t].stage = "idle")

\* A repo enters a listing that will evict it only when storage does not have it.
ListsMissing(t) ==
  /\ \A m \in Repos : tip[m] # 0 => tip'[m] # 0
  /\ th'[t].stage \in {"stamp", "assign"} =>
       \A m \in Repos : m \notin th'[t].names => ~Present(m) \/ (th[t].stage = "stamp" /\ m \notin th[t].names)
  /\ th'[t].stage \in {"evictRepos", "evictCache"} =>
       \A m \in Repos : m \in th'[t].names => \/ th[t].stage = "assign" /\ m \notin th[t].names
                                              \/ th[t].stage = "evictRepos" /\ m \in th[t].names

\* A handle leaves _repos only by an eviction.
DropsHandles(t) ==
  /\ \A m \in Repos : m \in repos /\ m \notin repos' => th[t].stage = "evictRepos" /\ m \in th[t].names
  /\ th'[t].stage = "getRepo" => RepoOf(th[t].ds) \in repos'
  /\ th'[t].stage = "error" => \/ mode.fails \/ ~Present(RepoOf(th[t].ds))
                               \/ th[t].stage = "getRepo" /\ RepoOf(th[t].ds) \notin repos

\* A lock object leaves _dataset_locks only by an eviction, and is taken only when free.
TakesLock(t) ==
  /\ \A d \in Datasets : lockKept[d] => \/ lockKept'[d] /\ lockGen'[d] = lockGen[d]
                                        \/ th[t].stage = "evictCache" /\ RepoOf(d) \in th[t].names
  /\ th'[t].stage \in Locked \cup {"waitDataset"} =>
       \/ th[t].stage \in Locked \cup {"waitDataset"} /\ th'[t].gen = th[t].gen
       \/ th'[t].stage = "waitDataset" /\ lockKept'[th[t].ds] /\ th'[t].gen = lockGen'[th[t].ds]
  /\ th'[t].stage \in Locked => /\ th'[t].gen = th[t].gen
                                /\ \/ th[t].stage \in Locked
                                   \/ \A u \in Threads : ~HoldsLock(u, th[t].ds, th[t].gen)

\* An entry changes only when it is evicted or a load stores its snapshot.
StoresSnapshot(t) ==
  /\ \A n \in Repos : /\ commits[n] <= commits'[n]
                       /\ \/ tip'[n] = tip[n] /\ commits'[n] = commits[n]
                          \/ tip'[n] = commits'[n]
  /\ \A d \in Datasets :
       \/ cache'[d].snap = cache[d].snap /\ (d \in strays' <=> d \in strays)
       \/ cache'[d] = NoEntry
       \/ /\ d = th[t].ds /\ th[t].stage = "load" /\ th'[t].stage = "served"
          /\ cache'[d].snap = th[t].snap /\ (d \in strays' <=> t \in gone)
  /\ th'[t].stage \in Locked =>
       \/ th[t].stage \in Locked /\ th'[t].snap = th[t].snap /\ th'[t].stage # "load"
       \/ th'[t].snap = cache[th[t].ds].snap /\ th'[t].stage # "load"
       \/ /\ th'[t].snap = tip[RepoOf(th[t].ds)] /\ Present(RepoOf(th[t].ds))
          /\ cache' = cache /\ strays' = strays

Effect(t) == /\ OthersStay(t) /\ ListsMissing(t) /\ DropsHandles(t)
             /\ TakesLock(t) /\ StoresSnapshot(t)

\* A step that only moves a thread has such an effect when the stage it goes to allows it.
LEMMA QuietEffect ==
  ASSUME TypeOK, NEW t \in Threads, NEW s, NEW N, NEW g, NEW k, Moved(t, s, N, g, k),
         th[t].stage # "idle", s # "idle",
         UNCHANGED <<mode, tip, commits, repos, cache, lockGen, lockKept, gone, strays>>,
         s \in {"stamp", "assign"} =>
           \A m \in Repos : m \notin N => ~Present(m) \/ (th[t].stage = "stamp" /\ m \notin th[t].names),
         s \in {"evictRepos", "evictCache"} =>
           \A m \in Repos : m \in N => \/ th[t].stage = "assign" /\ m \notin th[t].names
                                       \/ th[t].stage = "evictRepos" /\ m \in th[t].names,
         s = "getRepo" => RepoOf(th[t].ds) \in repos,
         s = "error" => \/ mode.fails \/ ~Present(RepoOf(th[t].ds))
                        \/ th[t].stage = "getRepo" /\ RepoOf(th[t].ds) \notin repos,
         s # "waitDataset",
         s \in Locked => /\ g = th[t].gen
                         /\ \/ th[t].stage \in Locked
                            \/ /\ th[t].stage = "waitDataset"
                               /\ \A u \in Threads : ~HoldsLock(u, th[t].ds, th[t].gen)
                         /\ \/ th[t].stage \in Locked /\ k = th[t].snap /\ s # "load"
                            \/ k = cache[th[t].ds].snap /\ s # "load"
                            \/ k = tip[RepoOf(th[t].ds)] /\ Present(RepoOf(th[t].ds))
  PROVE  Effect(t)
<1>t. /\ th'[t].stage = s /\ th'[t].ds = th[t].ds /\ th'[t].names = N /\ th'[t].gen = g /\ th'[t].snap = k
      /\ \A u \in Threads : u # t => th'[u] = th[u]
  BY DEF Moved
<1>1. OthersStay(t)
  BY <1>t DEF OthersStay
<1>2. ListsMissing(t)
  <2>1. \A m \in Repos : tip[m] # 0 => tip'[m] # 0
    OBVIOUS
  <2>2. s \in {"stamp", "assign"} =>
          \A m \in Repos : m \notin th'[t].names => ~Present(m) \/ (th[t].stage = "stamp" /\ m \notin th[t].names)
    BY <1>t, Zenon
  <2>3. s \in {"evictRepos", "evictCache"} =>
          \A m \in Repos : m \in th'[t].names => \/ th[t].stage = "assign" /\ m \notin th[t].names
                                                 \/ th[t].stage = "evictRepos" /\ m \in th[t].names
    BY <1>t, Zenon
  <2> QED  BY <1>t, <2>1, <2>2, <2>3 DEF ListsMissing
<1>3. DropsHandles(t)
  BY <1>t DEF DropsHandles
<1>4. TakesLock(t)
  BY <1>t DEF TakesLock
<1>5. StoresSnapshot(t)
  <2>1. \A n \in Repos : tip[n] \in Nat /\ commits[n] \in Nat
    BY DEF TypeOK
  <2> QED  BY <1>t, <2>1 DEF StoresSnapshot
<1> QED  BY <1>1, <1>2, <1>3, <1>4, <1>5 DEF Effect

\* Every step of a thread has such an effect.
LEMMA StepEffect ==
  ASSUME TypeOK, NEW t \in Threads, Step(t)
  PROVE  Effect(t)
<1>m. \A s \in Stages : Goto(t, s) => Moved(t, s, th[t].names, th[t].gen, th[t].snap)
  BY GotoMoves
<1>s. \A k \in Nat : Serve(t, k) => Moved(t, "served", th[t].names, th[t].gen, k)
  BY ServeMoves
<1>n. /\ th \in [Threads -> Thread] /\ th[t].stage \in Stages /\ th[t].names \subseteq Repos
      /\ th[t].ds \in Datasets /\ RepoOf(th[t].ds) \in Repos /\ th[t].gen \in Nat /\ th[t].snap \in Nat
  BY ThreadTypes
<1>c. /\ cache \in [Datasets -> [snap : Nat, checked : BOOLEAN]] /\ cache[th[t].ds].snap \in Nat
      /\ \A n \in Repos : tip[n] \in Nat /\ commits[n] \in Nat
  BY <1>n DEF TypeOK
<1>1. CASE \/ CheckConfigs(t) \/ EnterDiscovery(t) \/ ListingFails(t) \/ StampDiscovery(t) \/ Resolve(t)
  <2>1. UNCHANGED <<mode, tip, commits, repos, cache, lockGen, lockKept, gone, strays>> /\ th[t].stage # "idle"
    BY <1>1 DEF CheckConfigs, EnterDiscovery, ListingFails, StampDiscovery, Resolve, world, caches, history
  <2>2. \/ \E s \in {"resolve", "waitDiscovery", "listing", "lookaside", "unknown"} : Goto(t, s)
        \/ th[t].stage = "stamp" /\ Goto(t, "assign")
    BY <1>1 DEF CheckConfigs, EnterDiscovery, ListingFails, StampDiscovery, Resolve
  <2>3. CASE th[t].stage = "stamp" /\ Goto(t, "assign")
    BY <1>m, <2>1, <2>3, QuietEffect DEF Stages, Locked
  <2>4. ASSUME NEW s \in {"resolve", "waitDiscovery", "listing", "lookaside", "unknown"}, Goto(t, s)
        PROVE  Effect(t)
    <3>1. Moved(t, s, th[t].names, th[t].gen, th[t].snap)
      BY <1>m, <2>4 DEF Stages
    <3> QED  BY <2>1, <3>1, QuietEffect DEF Locked
  <2> QED  BY <2>2, <2>3, <2>4
<1>2. CASE ListRepos(t)
  <2> DEFINE listed == {n \in Repos : Present(n)}
  <2>1. Moved(t, "stamp", listed, th[t].gen, th[t].snap)
    BY <1>2, <1>n DEF ListRepos, Moved, Thread, Stages
  <2>2. UNCHANGED <<mode, tip, commits, repos, cache, lockGen, lockKept, gone, strays>> /\ th[t].stage # "idle"
    BY <1>2 DEF ListRepos, world, caches, history
  <2>3. \A m \in Repos : m \notin listed => ~Present(m)
    OBVIOUS
  <2> HIDE DEF listed
  <2> QED  BY <2>1, <2>2, <2>3, QuietEffect DEF Locked
<1>3. CASE AssignConfigs(t)
  <2> DEFINE removed == configs \ th[t].names
  <2>1. UNCHANGED <<mode, tip, commits, repos, cache, lockGen, lockKept, gone, strays>> /\ th[t].stage = "assign"
    BY <1>3 DEF AssignConfigs, world, caches, history
  <2>2. CASE removed = {}
    BY <1>3, <1>m, <2>1, <2>2, QuietEffect DEF AssignConfigs, Stages, Locked
  <2>3. CASE removed # {}
    <3>1. Moved(t, "evictRepos", removed, th[t].gen, th[t].snap)
      BY <1>3, <1>n, <2>3 DEF AssignConfigs, Moved, Thread, Stages, TypeOK
    <3>2. \A m \in Repos : m \in removed => m \notin th[t].names
      OBVIOUS
    <3> HIDE DEF removed
    <3> QED  BY <2>1, <3>1, <3>2, QuietEffect DEF Locked
  <2> QED  BY <2>2, <2>3
<1>4. CASE EvictRepos(t)
  <2>1. /\ UNCHANGED <<mode, tip, commits, cache, lockGen, lockKept, gone, strays>>
        /\ th[t].stage = "evictRepos" /\ repos' = repos \ th[t].names
    BY <1>4 DEF EvictRepos, world, history
  <2>2. /\ th'[t].stage = "evictCache" /\ th'[t].ds = th[t].ds /\ th'[t].names = th[t].names
        /\ \A u \in Threads : u # t => th'[u] = th[u]
    BY <1>4, <1>m DEF EvictRepos, Stages, Moved
  <2> QED  BY <1>c, <2>1, <2>2 DEF Effect, OthersStay, ListsMissing, DropsHandles, TakesLock, StoresSnapshot, Locked
<1>5. CASE EvictCache(t)
  <2>1. /\ UNCHANGED <<mode, tip, commits, repos, lockGen, gone>> /\ th[t].stage = "evictCache"
        /\ \A d \in Datasets : /\ RepoOf(d) \notin th[t].names =>
                                   cache'[d] = cache[d] /\ lockKept'[d] = lockKept[d] /\ (d \in strays' <=> d \in strays)
                               /\ RepoOf(d) \in th[t].names => cache'[d] = NoEntry
    BY <1>5, <1>c DEF EvictCache, world, TypeOK
  <2>2. /\ th'[t].stage = "resolve" /\ th'[t].ds = th[t].ds
        /\ \A u \in Threads : u # t => th'[u] = th[u]
    BY <1>5, <1>m DEF EvictCache, Stages, Moved
  <2>3. OthersStay(t) /\ ListsMissing(t) /\ DropsHandles(t)
    BY <2>1, <2>2 DEF OthersStay, ListsMissing, DropsHandles
  <2>4. TakesLock(t)
    BY <2>1, <2>2 DEF TakesLock, Locked
  <2>5. StoresSnapshot(t)
    BY <1>c, <2>1, <2>2 DEF StoresSnapshot, Locked
  <2> QED  BY <2>3, <2>4, <2>5 DEF Effect
<1>6. CASE CacheHit(t) \/ (AcquireDataset(t) /\ cache[th[t].ds].checked)
  <2>1. UNCHANGED <<mode, tip, commits, repos, cache, lockGen, lockKept, gone, strays>> /\ th[t].stage # "idle"
    BY <1>6 DEF CacheHit, AcquireDataset, world, caches, history
  <2>2. Moved(t, "served", th[t].names, th[t].gen, cache[th[t].ds].snap)
    BY <1>6, <1>c, <1>s DEF CacheHit, AcquireDataset
  <2> QED  BY <2>1, <2>2, QuietEffect DEF Locked
<1>7. CASE CacheMiss(t)
  <2> DEFINE d == th[t].ds
             gen == IF lockKept[d] THEN lockGen[d] ELSE lockGen[d] + 1
  <2>1. /\ UNCHANGED <<mode, tip, commits, repos, cache, gone, strays>> /\ th[t].stage = "lookaside"
        /\ lockGen' = [lockGen EXCEPT ![d] = gen] /\ lockKept' = [lockKept EXCEPT ![d] = TRUE]
        /\ th' = [th EXCEPT ![t].stage = "waitDataset", ![t].gen = gen]
    BY <1>7 DEF CacheMiss, world, history
  <2>2. lockGen \in [Datasets -> Nat] /\ lockKept \in [Datasets -> BOOLEAN] /\ gen \in Nat
    BY <1>n DEF TypeOK
  <2>3. /\ \A e \in Datasets : lockKept[e] => lockKept'[e] /\ lockGen'[e] = lockGen[e]
        /\ lockKept'[d] /\ lockGen'[d] = gen
    BY <1>n, <2>1, <2>2
  <2> HIDE DEF gen
  <2>4. /\ th'[t].stage = "waitDataset" /\ th'[t].ds = th[t].ds /\ th'[t].gen = gen
        /\ \A u \in Threads : u # t => th'[u] = th[u]
    BY <1>n, <2>1 DEF Thread
  <2>5. OthersStay(t) /\ ListsMissing(t) /\ DropsHandles(t)
    BY <2>1, <2>4 DEF OthersStay, ListsMissing, DropsHandles
  <2>6. TakesLock(t) /\ StoresSnapshot(t)
    BY <1>c, <2>1, <2>3, <2>4 DEF TakesLock, StoresSnapshot, Locked
  <2> QED  BY <2>5, <2>6 DEF Effect
<1>8. CASE AcquireDataset(t) /\ ~cache[th[t].ds].checked
  <2>1. UNCHANGED <<mode, tip, commits, repos, cache, lockGen, lockKept, gone, strays>> /\ th[t].stage = "waitDataset"
    BY <1>8 DEF AcquireDataset, world, caches, history
  <2>2. /\ Moved(t, "open", th[t].names, th[t].gen, cache[th[t].ds].snap)
        /\ \A u \in Threads : ~HoldsLock(u, th[t].ds, th[t].gen)
    BY <1>8, <1>n, <1>c DEF AcquireDataset, Moved, Thread, Stages
  <2> QED  BY <2>1, <2>2, QuietEffect
<1>9. CASE CheckRepos(t) \/ EnterRepoLock(t) \/ GetRepo(t) \/ LoadFails(t)
  <2>1. UNCHANGED <<mode, tip, commits, repos, cache, lockGen, lockKept, gone, strays>> /\ th[t].stage \in Locked
    BY <1>9 DEF CheckRepos, EnterRepoLock, GetRepo, LoadFails, world, caches, history, Locked
  <2>2. PICK s \in {"getRepo", "waitRepo", "init", "lookup", "error"} :
          /\ Goto(t, s)
          /\ s = "getRepo" => RepoOf(th[t].ds) \in repos
          /\ s = "error" => \/ mode.fails \/ ~Present(RepoOf(th[t].ds))
                            \/ th[t].stage = "getRepo" /\ RepoOf(th[t].ds) \notin repos
    BY <1>9 DEF CheckRepos, EnterRepoLock, GetRepo, LoadFails
  <2>3. Moved(t, s, th[t].names, th[t].gen, th[t].snap)
    BY <1>m, <2>2 DEF Stages
  <2>4. th[t].stage # "idle"
    BY <2>1 DEF Locked
  <2> QED  BY <2>1, <2>2, <2>3, <2>4, QuietEffect
<1>10. CASE InitRepo(t) \/ InitRepoFails(t)
  <2> DEFINE n == RepoOf(th[t].ds)
  <2>1. PICK s \in {"getRepo", "error"} : Goto(t, s) /\ (s = "getRepo" => n \in repos') /\ (s = "error" => mode.fails)
    BY <1>10 DEF InitRepo, InitRepoFails
  <2>2. /\ UNCHANGED <<cache, lockGen, lockKept, gone, strays>> /\ th[t].stage = "init" /\ repos \subseteq repos'
        /\ UNCHANGED world \/ CreateMissing(n)
    BY <1>10 DEF InitRepo, InitRepoFails, history
  <2>3. /\ th'[t].stage = s /\ th'[t].ds = th[t].ds /\ th'[t].gen = th[t].gen /\ th'[t].snap = th[t].snap
        /\ \A u \in Threads : u # t => th'[u] = th[u]
    BY <1>m, <2>1 DEF Stages, Moved
  <2>4. /\ mode' = mode /\ \A m \in Repos : /\ tip[m] # 0 => tip'[m] # 0
                                            /\ commits[m] <= commits'[m]
                                            /\ \/ tip'[m] = tip[m] /\ commits'[m] = commits[m]
                                               \/ tip'[m] = commits'[m]
    <3>1. CASE UNCHANGED world
      BY <1>c, <3>1 DEF world
    <3>2. CASE ~Present(n) /\ CreateMissing(n)
      <4>1. /\ tip' = [tip EXCEPT ![n] = commits[n] + 1] /\ tip \in [Repos -> Nat]
            /\ commits' = [commits EXCEPT ![n] = commits[n] + 1] /\ commits \in [Repos -> Nat] /\ mode' = mode
        BY <3>2 DEF CreateMissing, TypeOK
      <4> QED  BY <1>c, <1>n, <3>2, <4>1
    <3> QED  BY <2>2, <3>1, <3>2 DEF CreateMissing
  <2>5. OthersStay(t) /\ ListsMissing(t) /\ DropsHandles(t)
    BY <2>1, <2>2, <2>3, <2>4 DEF OthersStay, ListsMissing, DropsHandles
  <2>6. TakesLock(t) /\ StoresSnapshot(t)
    BY <2>1, <2>2, <2>3, <2>4 DEF TakesLock, StoresSnapshot, Locked
  <2> QED  BY <2>5, <2>6 DEF Effect
<1>11. CASE TipMoved(t)
  <2>1. UNCHANGED <<mode, tip, commits, repos, cache, lockGen, lockKept, gone, strays>> /\ th[t].stage = "lookup"
    BY <1>11 DEF TipMoved, world, caches, history
  <2>2. Moved(t, "load", th[t].names, th[t].gen, tip[RepoOf(th[t].ds)]) /\ Present(RepoOf(th[t].ds))
    BY <1>11, <1>n, <1>c DEF TipMoved, Moved, Thread, Stages
  <2> QED  BY <2>1, <2>2, QuietEffect DEF Locked
<1>12. CASE TipUnchanged(t) \/ LookupFails(t)
  <2>1. UNCHANGED <<mode, tip, commits, repos, lockGen, lockKept, gone, strays>> /\ th[t].stage = "lookup"
    BY <1>12 DEF TipUnchanged, LookupFails, world, history
  <2>2. \A d \in Datasets : cache'[d].snap = cache[d].snap
    BY <1>12, <1>c DEF TipUnchanged, LookupFails, Restamp
  <2>3. PICK s \in {"served", "error"} :
          /\ th'[t].stage = s /\ th'[t].ds = th[t].ds /\ \A u \in Threads : u # t => th'[u] = th[u]
          /\ s = "error" => mode.fails \/ ~Present(RepoOf(th[t].ds))
    <3>1. Serve(t, th[t].snap) \/ (Goto(t, "error") /\ (mode.fails \/ ~Present(RepoOf(th[t].ds))))
      BY <1>12 DEF TipUnchanged, LookupFails
    <3>2. CASE Serve(t, th[t].snap)
      BY <1>n, <1>s, <3>2 DEF Moved
    <3>3. CASE Goto(t, "error") /\ (mode.fails \/ ~Present(RepoOf(th[t].ds)))
      BY <1>m, <3>3 DEF Moved, Stages
    <3> QED  BY <3>1, <3>2, <3>3
  <2>4. OthersStay(t) /\ ListsMissing(t) /\ DropsHandles(t)
    BY <2>1, <2>3 DEF OthersStay, ListsMissing, DropsHandles
  <2>5. TakesLock(t) /\ StoresSnapshot(t)
    BY <1>c, <2>1, <2>2, <2>3 DEF TakesLock, StoresSnapshot, Locked
  <2> QED  BY <2>4, <2>5 DEF Effect
<1>13. CASE StoreEntry(t)
  <2>1. /\ UNCHANGED <<mode, tip, commits, repos, lockGen, lockKept, gone>> /\ th[t].stage = "load"
        /\ cache' = [cache EXCEPT ![th[t].ds] = [snap |-> th[t].snap, checked |-> TRUE]]
        /\ strays' = IF t \in gone THEN strays \cup {th[t].ds} ELSE strays \ {th[t].ds}
    BY <1>13 DEF StoreEntry, world
  <2>2. /\ th'[t].stage = "served" /\ th'[t].ds = th[t].ds /\ \A u \in Threads : u # t => th'[u] = th[u]
    BY <1>13, <1>m DEF StoreEntry, Stages, Moved
  <2>3. \A d \in Datasets : IF d = th[t].ds THEN cache'[d].snap = th[t].snap /\ (d \in strays' <=> t \in gone)
                                            ELSE cache'[d].snap = cache[d].snap /\ (d \in strays' <=> d \in strays)
    BY <1>c, <2>1
  <2>4. OthersStay(t) /\ ListsMissing(t) /\ DropsHandles(t)
    BY <2>1, <2>2 DEF OthersStay, ListsMissing, DropsHandles
  <2>5. TakesLock(t) /\ StoresSnapshot(t)
    BY <1>c, <2>1, <2>2, <2>3 DEF TakesLock, StoresSnapshot, Locked
  <2> QED  BY <2>4, <2>5 DEF Effect
<1>14. CASE Answer(t)
  <2>1. /\ UNCHANGED <<mode, tip, commits, repos, cache, lockGen, lockKept, strays>> /\ th[t].stage # "idle"
        /\ gone' = gone \ {t}
    BY <1>14 DEF Answer, Answers, world, caches
  <2>2. /\ th'[t].stage = "idle" /\ th'[t].ds = th[t].ds /\ \A u \in Threads : u # t => th'[u] = th[u]
    BY <1>14, <1>n DEF Answer, NoWork, Thread
  <2> QED  BY <1>c, <2>1, <2>2 DEF Effect, OthersStay, ListsMissing, DropsHandles, TakesLock, StoresSnapshot, Locked
<1> QED  BY <1>1, <1>2, <1>3, <1>4, <1>5, <1>6, <1>7, <1>8, <1>9, <1>10, <1>11, <1>12, <1>13, <1>14 DEF Step

\* A repo becomes doomed only by its removal.
LEMMA DoomedBefore ==
  ASSUME NEW t \in Threads, OthersStay(t), ListsMissing(t), NEW m \in Repos, Doomed(m)'
  PROVE  Doomed(m)
<1>1. CASE tip'[m] = 0
  BY <1>1 DEF ListsMissing, Doomed, Present
<1>2. ASSUME NEW u \in Threads,
             \/ th'[u].stage \in {"stamp", "assign"} /\ m \notin th'[u].names
             \/ th'[u].stage \in {"evictRepos", "evictCache"} /\ m \in th'[u].names
      PROVE  Doomed(m)
  <2>1. CASE u # t
    BY <1>2, <2>1 DEF OthersStay, Doomed
  <2>2. CASE u = t
    BY <1>2, <2>2 DEF ListsMissing, Doomed
  <2> QED  BY <2>1, <2>2
<1> QED  BY <1>1, <1>2 DEF Doomed, Present

\* A step of a thread keeps the invariant.
LEMMA EffectKeeps ==
  ASSUME TypeOK, TypeOK', GoneInv, NEW t \in Threads, Effect(t)
  PROVE  GoneInv'
<1>t. \A u \in Threads : th[u].ds \in Datasets /\ RepoOf(th[u].ds) \in Repos /\ th[u].snap \in Nat
  BY ThreadTypes
<1>e. OthersStay(t) /\ ListsMissing(t) /\ DropsHandles(t) /\ TakesLock(t) /\ StoresSnapshot(t)
  BY DEF Effect
<1>d. \A u \in Threads : th'[u].ds = th[u].ds
  BY <1>e DEF OthersStay
<1>g. \A u \in Threads : /\ th'[u].stage # "idle" => th[u].stage # "idle" /\ (u \in gone' <=> u \in gone)
                         /\ u # t => th'[u] = th[u]
  BY <1>e DEF OthersStay
<1>n. /\ \A n \in Repos : tip[n] \in Nat /\ commits[n] \in Nat /\ tip'[n] \in Nat /\ commits'[n] \in Nat
      /\ \A d \in Datasets : cache[d].snap \in Nat /\ cache'[d].snap \in Nat /\ RepoOf(d) \in Repos
  BY DatasetRepo DEF TypeOK
<1>1. RepoThere'
  <2> SUFFICES ASSUME NEW u \in Threads, th'[u].stage # "idle", u \notin gone', NEW m \in Repos,
                      m = RepoOf(th[u].ds), Doomed(m)'
               PROVE  FALSE
    BY <1>d, <1>t DEF RepoThere, Doomed, Present
  <2>1. Doomed(RepoOf(th[u].ds))
    BY <1>e, DoomedBefore
  <2> QED  BY <1>g, <2>1 DEF GoneInv, RepoThere
<1>2. HandleThere'
  <2> SUFFICES ASSUME NEW u \in Threads, th'[u].stage = "getRepo", RepoOf(th[u].ds) \notin repos' PROVE u \in gone'
    BY <1>d DEF HandleThere
  <2>1. u # t /\ th[u].stage = "getRepo" /\ (u \in gone' <=> u \in gone)
    BY <1>e, <1>g DEF DropsHandles
  <2>2. CASE RepoOf(th[u].ds) \notin repos
    BY <2>1, <2>2 DEF GoneInv, HandleThere
  <2>3. CASE RepoOf(th[u].ds) \in repos
    <3>1. th[t].stage = "evictRepos" /\ RepoOf(th[u].ds) \in th[t].names
      BY <1>e, <1>t, <2>3 DEF DropsHandles
    <3> QED  BY <2>1, <3>1 DEF GoneInv, RepoThere, Doomed
  <2> QED  BY <2>2, <2>3
<1>3. ErrorOnlyIfGone'
  <2> SUFFICES ASSUME ~mode'.fails, NEW u \in Threads, th'[u].stage = "error" PROVE u \in gone'
    BY DEF ErrorOnlyIfGone
  <2>1. ~mode.fails
    BY <1>e DEF OthersStay
  <2>2. CASE u # t
    BY <1>g, <2>1, <2>2 DEF GoneInv, ErrorOnlyIfGone
  <2>3. CASE u = t
    <3>1. \/ ~Present(RepoOf(th[t].ds))
          \/ th[t].stage = "getRepo" /\ RepoOf(th[t].ds) \notin repos
      BY <1>e, <2>1, <2>3 DEF DropsHandles
    <3> QED  BY <1>g, <2>3, <3>1 DEF GoneInv, RepoThere, HandleThere, Doomed
  <2> QED  BY <2>2, <2>3
<1>4. LockThere'
  <2> SUFFICES ASSUME NEW u \in Threads, th'[u].stage \in Locked \cup {"waitDataset"}, u \notin gone'
               PROVE  lockKept'[th[u].ds] /\ th'[u].gen = lockGen'[th[u].ds]
    BY <1>d DEF LockThere
  <2>1. u \notin gone /\ th[u].stage # "idle"
    BY <1>g DEF Locked
  <2>2. ASSUME th[u].stage \in Locked \cup {"waitDataset"}, th'[u].gen = th[u].gen
        PROVE  lockKept'[th[u].ds] /\ th'[u].gen = lockGen'[th[u].ds]
    <3>1. lockKept[th[u].ds] /\ th[u].gen = lockGen[th[u].ds]
      BY <2>1, <2>2 DEF GoneInv, LockThere
    <3>2. ~(th[t].stage = "evictCache" /\ RepoOf(th[u].ds) \in th[t].names)
      BY <2>1 DEF GoneInv, RepoThere, Doomed
    <3> QED  BY <1>e, <1>t, <2>2, <3>1, <3>2 DEF TakesLock
  <2> QED  BY <1>e, <1>g, <2>2 DEF TakesLock
<1>5. OneTaker'
  <2>1. ASSUME NEW u \in Threads, u # t, th'[t].stage \in Locked, th[u].stage \in Locked, th[u].ds = th[t].ds
        PROVE  th[u].gen # th'[t].gen
    BY <1>e, <2>1 DEF TakesLock, HoldsLock, GoneInv, OneTaker
  <2> QED  BY <1>d, <1>g, <2>1 DEF GoneInv, OneTaker
<1>6. Numbered'
  <2>1. \A n \in Repos : /\ commits[n] <= commits'[n] /\ (tip'[n] = 0 \/ tip'[n] = commits'[n])
                         /\ tip[n] <= commits[n]
    BY <1>e, <1>n DEF StoresSnapshot, GoneInv, Numbered
  <2>2. ASSUME NEW d \in Datasets PROVE cache'[d].snap <= commits'[RepoOf(d)]
    <3>1. cache'[d].snap <= commits[RepoOf(d)]
      BY <1>e, <1>n DEF StoresSnapshot, GoneInv, Numbered, Locked, NoEntry
    <3> QED  BY <1>n, <2>1, <3>1
  <2>3. ASSUME NEW u \in Threads, th'[u].stage \in Locked PROVE th'[u].snap <= commits'[RepoOf(th[u].ds)]
    <3>1. th'[u].snap <= commits[RepoOf(th[u].ds)] /\ th'[u].snap \in Nat
      <4>1. CASE u # t
        BY <1>g, <1>t, <2>3, <4>1 DEF GoneInv, Numbered
      <4>2. CASE u = t
        BY <1>e, <1>n, <1>t, <2>1, <2>3, <4>2 DEF StoresSnapshot, GoneInv, Numbered
      <4> QED  BY <4>1, <4>2
    <3> QED  BY <1>n, <1>t, <2>1, <3>1
  <2> QED  BY <1>d, <2>1, <2>2, <2>3 DEF Numbered
<1>7. LoadNewer'
  <2> SUFFICES ASSUME NEW u \in Threads, th'[u].stage = "load", u \notin gone', th[u].ds \notin strays'
               PROVE  cache'[th[u].ds].snap <= th'[u].snap
    BY <1>d DEF LoadNewer
  <2>1. u \notin gone /\ th[u].stage # "idle" /\ th'[u].stage \in Locked
    BY <1>g DEF Locked
  <2>2. CASE u = t
    <3>1. th'[t].snap = tip[RepoOf(th[t].ds)] /\ Present(RepoOf(th[t].ds)) /\ cache' = cache
      BY <1>e, <2>1, <2>2 DEF StoresSnapshot
    <3> QED  BY <1>t, <2>2, <3>1 DEF GoneInv, Numbered, Present
  <2>3. CASE u # t
    <3>1. th[u].stage = "load" /\ th'[u].snap = th[u].snap /\ th[u].snap \in Nat
      BY <1>g, <1>t, <2>3
    <3>2. CASE th[t].ds = th[u].ds /\ th[t].stage = "load" /\ t \notin gone
      <4>1. th[t].gen = th[u].gen
        BY <2>1, <3>1, <3>2 DEF GoneInv, LockThere, Locked
      <4> QED  BY <2>3, <3>1, <3>2, <4>1 DEF GoneInv, OneTaker, Locked
    <3>3. CASE ~(th[t].ds = th[u].ds /\ th[t].stage = "load" /\ t \notin gone)
      <4>1. \/ cache'[th[u].ds].snap = cache[th[u].ds].snap /\ th[u].ds \notin strays
            \/ cache'[th[u].ds].snap = 0
        BY <1>e, <1>t, <3>3 DEF StoresSnapshot, NoEntry
      <4> QED  BY <2>1, <3>1, <4>1 DEF GoneInv, LoadNewer
    <3> QED  BY <3>2, <3>3
  <2> QED  BY <2>2, <2>3
<1> QED  BY <1>1, <1>2, <1>3, <1>4, <1>5, <1>6, <1>7 DEF GoneInv

\* A new request starts with its repo there, or in gone.
LEMMA RequestKeeps ==
  ASSUME TypeOK, GoneInv, NEW t \in Threads, NEW d \in Datasets, GetDatatree(t, d)
  PROVE  GoneInv'
<1>1. /\ th[t].stage = "idle" /\ th'[t].stage = "configs" /\ th'[t].ds = d
      /\ \A u \in Threads : u # t => th'[u] = th[u]
      /\ UNCHANGED <<mode, tip, commits, repos, cache, lockGen, lockKept, strays>>
      /\ gone' = IF Doomed(RepoOf(d)) THEN gone \cup {t} ELSE gone
  BY DEF GetDatatree, NoWork, TypeOK, world, caches
<1>d. \A u \in Threads : RepoOf(th'[u].ds) \in Repos
  BY <1>1, DatasetRepo, ThreadTypes
<1>2. RepoThere'
  <2>1. ASSUME NEW m \in Repos, Doomed(m)' PROVE Doomed(m)
    BY <1>1, <2>1 DEF Doomed, Present
  <2> SUFFICES ASSUME NEW u \in Threads, th'[u].stage # "idle", NEW m \in Repos, m = RepoOf(th'[u].ds), Doomed(m)'
               PROVE  u \in gone'
    BY <1>d DEF RepoThere, Doomed, Present
  <2>2. CASE u = t
    BY <1>1, <2>1, <2>2
  <2>3. CASE u # t
    BY <1>1, <2>1, <2>3 DEF GoneInv, RepoThere
  <2> QED  BY <2>2, <2>3
<1>3. HandleThere' /\ ErrorOnlyIfGone'
  BY <1>1 DEF GoneInv, HandleThere, ErrorOnlyIfGone
<1>4. LockThere' /\ OneTaker'
  BY <1>1 DEF GoneInv, LockThere, OneTaker, Locked
<1>5. Numbered' /\ LoadNewer'
  BY <1>1 DEF GoneInv, Numbered, LoadNewer, Locked
<1> QED  BY <1>2, <1>3, <1>4, <1>5 DEF GoneInv

WorldMoves == \/ \E n \in Repos : Commit(n) \/ RemoveRepo(n)
              \/ ExpireDiscovery \/ \E d \in Datasets : ExpireEntry(d)
              \/ UNCHANGED vars

\* What happens outside the server keeps the invariant: a removal puts the threads at work
\* on the repo in gone.
LEMMA WorldKeeps ==
  ASSUME TypeOK, GoneInv, WorldMoves
  PROVE  GoneInv'
<1>t. \A u \in Threads : RepoOf(th[u].ds) \in Repos /\ th[u].snap \in Nat
  BY ThreadTypes
<1>1. /\ UNCHANGED <<mode, th, repos, lockGen, lockKept, strays>> /\ gone \subseteq gone'
      /\ \A d \in Datasets : cache'[d].snap = cache[d].snap
  BY DEF WorldMoves, Commit, RemoveRepo, ExpireDiscovery, ExpireEntry, vars, world, caches, discovery, history, TypeOK
<1>2. \A n \in Repos : /\ commits[n] \in Nat /\ commits'[n] \in Nat /\ commits[n] <= commits'[n]
                       /\ \/ tip'[n] = tip[n] /\ commits'[n] = commits[n]
                          \/ tip'[n] = 0
                          \/ tip'[n] = commits'[n]
  BY DEF WorldMoves, Commit, RemoveRepo, ExpireDiscovery, ExpireEntry, vars, world, TypeOK
<1>3. ASSUME NEW u \in Threads, th[u].stage # "idle", tip[RepoOf(th[u].ds)] # 0, tip'[RepoOf(th[u].ds)] = 0
      PROVE  u \in gone'
  <2>1. PICK n \in Repos : RemoveRepo(n) \/ Commit(n)
    BY <1>3, <1>t DEF WorldMoves, ExpireDiscovery, ExpireEntry, vars, world
  <2> QED  BY <1>3, <1>t, <2>1 DEF Commit, RemoveRepo, TypeOK
<1>4. RepoThere'
  <2> SUFFICES ASSUME NEW u \in Threads, th[u].stage # "idle", NEW m \in Repos, m = RepoOf(th[u].ds), Doomed(m)'
               PROVE  u \in gone'
    BY <1>1, <1>t DEF RepoThere, Doomed, Present
  <2>1. CASE tip[m] # 0 /\ tip'[m] = 0
    BY <1>3, <2>1
  <2>2. CASE ~(tip[m] # 0 /\ tip'[m] = 0)
    <3>1. Doomed(m)
      BY <1>1, <2>2 DEF Doomed, Present
    <3> QED  BY <1>1, <3>1 DEF GoneInv, RepoThere
  <2> QED  BY <2>1, <2>2
<1>5. HandleThere' /\ ErrorOnlyIfGone' /\ LockThere' /\ OneTaker'
  BY <1>1 DEF GoneInv, HandleThere, ErrorOnlyIfGone, LockThere, OneTaker
<1>6. Numbered'
  <2>1. \A n \in Repos : tip'[n] = 0 \/ tip'[n] = commits'[n]
    BY <1>2 DEF GoneInv, Numbered
  <2>2. \A d \in Datasets : cache'[d].snap <= commits'[RepoOf(d)]
    BY <1>1, <1>2, DatasetRepo DEF GoneInv, Numbered, TypeOK
  <2>3. \A u \in Threads : th'[u].stage \in Locked => th'[u].snap <= commits'[RepoOf(th'[u].ds)]
    BY <1>1, <1>2, <1>t DEF GoneInv, Numbered
  <2> QED  BY <2>1, <2>2, <2>3 DEF Numbered
<1>7. LoadNewer'
  <2>1. \A u \in Threads : th[u].ds \in Datasets
    BY ThreadTypes
  <2> QED  BY <1>1, <2>1 DEF GoneInv, LoadNewer
<1> QED  BY <1>4, <1>5, <1>6, <1>7 DEF GoneInv

LEMMA GoneInit == Init => GoneInv
<1> SUFFICES ASSUME Init PROVE GoneInv
  OBVIOUS
<1>1. \A t \in Threads : th[t].stage = "idle"
  <2>1. PICK d \in Datasets : th = [t \in Threads |-> NoWork(d)]
    BY DEF Init
  <2> QED  BY <2>1 DEF NoWork
<1>2. RepoThere /\ HandleThere /\ ErrorOnlyIfGone /\ LockThere /\ OneTaker /\ LoadNewer
  BY <1>1 DEF RepoThere, HandleThere, ErrorOnlyIfGone, LockThere, OneTaker, LoadNewer, Locked
<1>3. Numbered
  BY <1>1, DatasetRepo DEF Init, Numbered, NoEntry, Locked
<1> QED  BY <1>2, <1>3 DEF GoneInv

LEMMA GoneStep == ProviderInv /\ GoneInv /\ [Next]_vars => ProviderInv' /\ GoneInv'
<1> SUFFICES ASSUME ProviderInv, GoneInv, [Next]_vars PROVE ProviderInv' /\ GoneInv'
  OBVIOUS
<1>1. ProviderInv'
  BY ProviderStep
<1>2. TypeOK /\ TypeOK'
  BY <1>1 DEF ProviderInv
<1>3. ASSUME NEW t \in Threads, Step(t) PROVE GoneInv'
  BY <1>2, <1>3, StepEffect, EffectKeeps
<1>4. ASSUME NEW t \in Threads, NEW d \in Datasets, GetDatatree(t, d) PROVE GoneInv'
  BY <1>2, <1>4, RequestKeeps
<1>5. CASE WorldMoves
  BY <1>1, <1>2, <1>5, WorldKeeps
<1> QED  BY <1>1, <1>3, <1>4, <1>5 DEF Next, WorldMoves

LEMMA GoneInvariance == Spec => [](ProviderInv /\ GoneInv)
<1>1. Init => ProviderInv /\ GoneInv
  BY ProviderInit, GoneInit
<1> QED  BY <1>1, GoneStep, PTL DEF Spec

\* LoadsOnce for any number of threads, repos, expiries and removals: two threads that load
\* the same dataset at once have different lock objects, and the code throws a lock object
\* away only in the eviction of a repo that went during the request.
THEOREM DatasetLoadsOnce == Spec => []LoadsOnce
<1>1. GoneInv => LoadsOnce
  BY DEF GoneInv, LockThere, OneTaker, LoadsOnce, Locked
<1> QED  BY <1>1, GoneInvariance, PTL

\* ErrorOnlyIfGone for any number of threads, repos, expiries and removals: while storage
\* answers, the unlocked second read of the handle in _open_repo, and the lookup and the load
\* that follow, fail only in a request whose repo went away during it or just before.
THEOREM ErrorsOnlyIfGone == Spec => []ErrorOnlyIfGone
<1>1. GoneInv => ErrorOnlyIfGone
  BY DEF GoneInv
<1> QED  BY <1>1, GoneInvariance, PTL

\* SnapshotsMoveForward for any number of threads, repos, expiries and removals: no step
\* replaces a cached snapshot by an older one, unless one of the two was stored by a load
\* whose lock object an eviction had thrown away.
THEOREM CacheMovesForward == Spec => SnapshotsMoveForward
<1> DEFINE Forward == \A d \in Datasets : cache'[d] # NoEntry /\ cache'[d].snap < cache[d].snap
                                            => d \in strays \/ d \in strays'
<1>1. ASSUME ProviderInv, GoneInv, [Next]_vars PROVE [Forward]_vars
  <2>1. TypeOK /\ TypeOK' /\ \A d \in Datasets : cache[d].snap \in Nat
    BY <1>1, ProviderStep DEF ProviderInv, TypeOK
  <2>2. ASSUME NEW t \in Threads, Step(t) PROVE Forward
    <3>1. StoresSnapshot(t)
      BY <2>1, <2>2, StepEffect DEF Effect
    <3> SUFFICES ASSUME NEW d \in Datasets, cache'[d] # NoEntry, cache'[d].snap < cache[d].snap,
                        d \notin strays, d \notin strays'
                 PROVE  FALSE
      OBVIOUS
    <3>2. CASE /\ d = th[t].ds /\ th[t].stage = "load" /\ cache'[d].snap = th[t].snap /\ t \notin gone
      <4>1. cache[d].snap <= th[t].snap /\ th[t].snap \in Nat
        BY <1>1, <2>1, <3>2, ThreadTypes DEF GoneInv, LoadNewer
      <4> QED  BY <2>1, <3>2, <4>1
    <3> QED  BY <2>1, <3>1, <3>2 DEF StoresSnapshot
  <2>3. ASSUME \A d \in Datasets : cache'[d].snap = cache[d].snap PROVE Forward
    BY <2>1, <2>3
  <2>4. CASE \E t \in Threads, d \in Datasets : GetDatatree(t, d)
    BY <2>3, <2>4 DEF GetDatatree, caches
  <2>5. CASE WorldMoves
    <3>1. \A d \in Datasets : cache'[d].snap = cache[d].snap
      BY <2>1, <2>5 DEF WorldMoves, Commit, RemoveRepo, ExpireDiscovery, ExpireEntry, vars, caches, TypeOK
    <3> QED  BY <2>3, <3>1
  <2> QED  BY <1>1, <2>2, <2>4, <2>5 DEF Next, WorldMoves
<1> QED  BY <1>1, GoneInvariance, PTL DEF Spec, SnapshotsMoveForward
=============================================================================
