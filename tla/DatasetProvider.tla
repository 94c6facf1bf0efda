-------------------------- MODULE DatasetProvider --------------------------
(***************************************************************************)
(* The Icechunk dataset provider of xpublish-api                           *)
(* (xpublish-api/src/provider.py): repositories discovered from storage,   *)
(* repository handles and loaded snapshots cached, and the locks that the  *)
(* threads of the server's pool take to share them.  A step is the code    *)
(* between two points where another thread can interfere.                  *)
(*                                                                         *)
(* Time is abstracted to freshness: a stamp makes the repo list or a cache *)
(* entry fresh, and the TTL may run out at any later step.  Storage is     *)
(* external: flows commit snapshots, remove repos and add them again, and  *)
(* its calls may raise.                                                    *)
(***************************************************************************)
EXTENDS Naturals

CONSTANTS Threads,      \* threads of the server's pool
          Repos,        \* repository names
          Kinds,        \* "tiles" and "data": the two dataset ids of a repo
          NoThread,     \* holder of a free lock
          Modes,        \* kinds of behaviour under test, see mode
          MaxSnapshots, \* bound: commits by the flows, per repo
          MaxExpiries   \* bound: how often a TTL runs out, in all

ASSUME ProviderBounds ==
  /\ MaxSnapshots \in Nat /\ MaxExpiries \in Nat
  /\ Modes \subseteq [fails : BOOLEAN, removals : Nat, pool : SUBSET Threads]
  /\ NoThread \notin Threads

Datasets == Repos \X Kinds
RepoOf(d) == d[1]

VARIABLES mode,      \* whether calls to storage may raise, how often the flows remove a
                     \* repo, and the threads that get requests
          tip,       \* tip[n]: snapshot at the branch tip, 0 when the repo is absent
          commits,   \* commits[n]: snapshots ever made in n; numbers are never reused
          configs,   \* _repo_configs: the names discovered last
          fresh,     \* whether _discovered_at is within its TTL
          repos,     \* keys of _repos
          cache,     \* _cache[d]: snapshot 0 when there is no entry
          lockGen,   \* lockGen[d]: how many lock objects d has had
          lockKept,  \* whether the latest of them is still in _dataset_locks
          discoveryLock, repoLock,   \* holders of _discovery_lock and _lock
          th,        \* th[t]: where thread t is and its local variables
          floor,     \* floor[d]: the tip when d's entry last outlived its TTL
          removals, expiries,
                     \* Two history variables, which no guard reads:
          gone,      \* threads whose repo was doomed at some time since their request began
          strays     \* datasets whose cached entry was stored by a thread in gone

world == <<mode, tip, commits, removals>>
discovery == <<configs, fresh, discoveryLock>>
caches == <<repos, cache, lockGen, lockKept, repoLock>>
ttl == <<expiries, floor>>
history == <<gone, strays>>
vars == <<world, discovery, caches, th, ttl, history>>

NoEntry == [snap |-> 0, checked |-> FALSE]

Stages == {"idle", "configs", "waitDiscovery", "listing", "stamp", "assign", "evictRepos",
           "evictCache", "resolve", "lookaside", "waitDataset", "open", "waitRepo", "init",
           "getRepo", "lookup", "load", "served", "unknown", "error"}
Answers == {"served", "unknown", "error"}

\* Stages in which the thread holds the lock object of its dataset.
Locked == {"open", "waitRepo", "init", "getRepo", "lookup", "load"}

\* Stages in which it holds _discovery_lock.
Discovering == {"listing", "stamp", "assign", "evictRepos", "evictCache"}

NoWork(d) == [stage |-> "idle", ds |-> d, names |-> {}, gen |-> 0, snap |-> 0]

Init ==
  /\ mode \in Modes
  /\ tip = [n \in Repos |-> 1]
  /\ commits = [n \in Repos |-> 1]
  /\ configs = {} /\ fresh = FALSE /\ discoveryLock = NoThread
  /\ repos = {} /\ cache = [d \in Datasets |-> NoEntry]
  /\ lockGen = [d \in Datasets |-> 0] /\ lockKept = [d \in Datasets |-> FALSE]
  /\ repoLock = NoThread
  /\ \E d \in Datasets : th = [t \in Threads |-> NoWork(d)]
  /\ floor = [d \in Datasets |-> 0]
  /\ removals = 0 /\ expiries = 0
  /\ gone = {} /\ strays = {}

Goto(t, stage) == th' = [th EXCEPT ![t].stage = stage]
Present(n) == tip[n] # 0

\* Storage does not have the repo, or a discovery that found it missing is not over and will
\* evict it yet.
Doomed(n) ==
  \/ ~Present(n)
  \/ \E t \in Threads : \/ th[t].stage \in {"stamp", "assign"} /\ n \notin th[t].names
                        \/ th[t].stage \in {"evictRepos", "evictCache"} /\ n \in th[t].names

----------------------------------------------------------------------------
(* Storage and time.                                                       *)

Commit(n) ==
  /\ commits[n] < MaxSnapshots
  /\ commits' = [commits EXCEPT ![n] = @ + 1]
  /\ tip' = [tip EXCEPT ![n] = commits[n] + 1]
  /\ UNCHANGED <<mode, removals, discovery, caches, th, ttl, history>>

RemoveRepo(n) ==
  /\ Present(n) /\ removals < mode.removals
  /\ removals' = removals + 1
  /\ tip' = [tip EXCEPT ![n] = 0]
  /\ gone' = gone \cup {t \in Threads : th[t].stage # "idle" /\ RepoOf(th[t].ds) = n}
  /\ UNCHANGED <<mode, commits, discovery, caches, th, ttl, strays>>

ExpireDiscovery ==
  /\ fresh /\ expiries < MaxExpiries
  /\ fresh' = FALSE /\ expiries' = expiries + 1
  /\ UNCHANGED <<world, configs, discoveryLock, caches, th, floor, history>>

ExpireEntry(d) ==
  /\ cache[d].checked /\ expiries < MaxExpiries
  /\ cache' = [cache EXCEPT ![d].checked = FALSE]
  /\ floor' = [floor EXCEPT ![d] = tip[RepoOf(d)]]
  /\ expiries' = expiries + 1
  /\ UNCHANGED <<world, discovery, repos, lockGen, lockKept, repoLock, th, history>>

----------------------------------------------------------------------------
(* _refresh_repo_configs                                                   *)

GetDatatree(t, d) ==
  /\ th[t].stage = "idle" /\ t \in mode.pool
  /\ th' = [th EXCEPT ![t] = [NoWork(d) EXCEPT !.stage = "configs"]]
  /\ gone' = IF Doomed(RepoOf(d)) THEN gone \cup {t} ELSE gone
  /\ UNCHANGED <<world, discovery, caches, ttl, strays>>

CheckConfigs(t) ==
  /\ th[t].stage = "configs"
  /\ Goto(t, IF fresh THEN "resolve" ELSE "waitDiscovery")
  /\ UNCHANGED <<world, discovery, caches, ttl, history>>

\* The lock is still held after the second look found a fresh list.
EnterDiscoveryKeepsLock(t) ==
  /\ th[t].stage = "waitDiscovery"
  /\ discoveryLock = NoThread
  /\ Goto(t, IF fresh THEN "resolve" ELSE "listing")
  /\ discoveryLock' = t
  /\ UNCHANGED <<world, configs, fresh, caches, ttl, history>>

\* Double-checked locking on the repo list.
EnterDiscovery(t) ==
  /\ th[t].stage = "waitDiscovery"
  /\ discoveryLock = NoThread
  /\ IF fresh THEN Goto(t, "resolve") /\ UNCHANGED discoveryLock
              ELSE Goto(t, "listing") /\ discoveryLock' = t
  /\ UNCHANGED <<world, configs, fresh, caches, ttl, history>>

ListRepos(t) ==
  /\ th[t].stage = "listing"
  /\ th' = [th EXCEPT ![t].stage = "stamp", ![t].names = {n \in Repos : Present(n)}]
  /\ UNCHANGED <<world, discovery, caches, ttl, history>>

\* The exception leaves the lock taken.
ListingFailsKeepsLock(t) ==
  /\ th[t].stage = "listing" /\ mode.fails
  /\ fresh' = TRUE
  /\ Goto(t, "resolve")
  /\ UNCHANGED <<world, configs, discoveryLock, caches, ttl, history>>

\* A listing that raises counts as an empty one.
ListingFailsEmpty(t) ==
  /\ th[t].stage = "listing" /\ mode.fails
  /\ fresh' = TRUE
  /\ configs' = {}
  /\ discoveryLock' = NoThread
  /\ Goto(t, "resolve")
  /\ UNCHANGED <<world, caches, ttl, history>>

\* A listing that raises keeps the old names and stamps all the same.
ListingFails(t) ==
  /\ th[t].stage = "listing" /\ mode.fails
  /\ fresh' = TRUE
  /\ discoveryLock' = NoThread
  /\ Goto(t, "resolve")
  /\ UNCHANGED <<world, configs, caches, ttl, history>>

\* The stamp is written before the names it stands for.
StampDiscovery(t) ==
  /\ th[t].stage = "stamp"
  /\ fresh' = TRUE
  /\ Goto(t, "assign")
  /\ UNCHANGED <<world, configs, discoveryLock, caches, ttl, history>>

\* Every repo of the former list is evicted, not only those that are no longer there.
AssignConfigsEvictsAll(t) ==
  LET removed == configs IN
  /\ th[t].stage = "assign"
  /\ configs' = th[t].names
  /\ IF removed = {}
     THEN Goto(t, "resolve") /\ discoveryLock' = NoThread
     ELSE /\ th' = [th EXCEPT ![t].stage = "evictRepos", ![t].names = removed]
          /\ UNCHANGED discoveryLock
  /\ UNCHANGED <<world, fresh, caches, ttl, history>>

\* The new names, then the eviction of those that are no longer there.  What follows it,
\* _on_repos_changed, only compares the names with the access rules and logs.
AssignConfigs(t) ==
  LET removed == configs \ th[t].names IN
  /\ th[t].stage = "assign"
  /\ configs' = th[t].names
  /\ IF removed = {}
     THEN Goto(t, "resolve") /\ discoveryLock' = NoThread
     ELSE /\ th' = [th EXCEPT ![t].stage = "evictRepos", ![t].names = removed]
          /\ UNCHANGED discoveryLock
  /\ UNCHANGED <<world, fresh, caches, ttl, history>>

EvictRepos(t) ==
  /\ th[t].stage = "evictRepos"
  /\ repoLock = NoThread
  /\ repos' = repos \ th[t].names
  /\ Goto(t, "evictCache")
  /\ UNCHANGED <<world, discovery, cache, lockGen, lockKept, repoLock, ttl, history>>

\* The dataset's lock object goes with its entry; a thread may still hold it.
EvictCache(t) ==
  LET evicted == {d \in Datasets : RepoOf(d) \in th[t].names} IN
  /\ th[t].stage = "evictCache"
  /\ cache' = [d \in Datasets |-> IF d \in evicted THEN NoEntry ELSE cache[d]]
  /\ strays' = strays \ evicted
  /\ lockKept' = [d \in Datasets |-> lockKept[d] /\ d \notin evicted]
  /\ discoveryLock' = NoThread
  /\ Goto(t, "resolve")
  /\ UNCHANGED <<world, configs, fresh, repos, lockGen, repoLock, ttl, gone>>

\* _cfg_for_dataset_id on the list as it is now.
Resolve(t) ==
  /\ th[t].stage = "resolve"
  /\ Goto(t, IF RepoOf(th[t].ds) \in configs THEN "lookaside" ELSE "unknown")
  /\ UNCHANGED <<world, discovery, caches, ttl, history>>

----------------------------------------------------------------------------
(* get_datatree_for_dataset                                                *)

Serve(t, snap) == th' = [th EXCEPT ![t].stage = "served", ![t].snap = snap]

CacheHit(t) ==
  /\ th[t].stage = "lookaside"
  /\ cache[th[t].ds].checked
  /\ Serve(t, cache[th[t].ds].snap)
  /\ UNCHANGED <<world, discovery, caches, ttl, history>>

\* _dataset_lock: setdefault of a new lock object.
CacheMiss(t) ==
  LET d == th[t].ds
      gen == IF lockKept[d] THEN lockGen[d] ELSE lockGen[d] + 1 IN
  /\ th[t].stage = "lookaside"
  /\ ~cache[d].checked
  /\ lockGen' = [lockGen EXCEPT ![d] = gen]
  /\ lockKept' = [lockKept EXCEPT ![d] = TRUE]
  /\ th' = [th EXCEPT ![t].stage = "waitDataset", ![t].gen = gen]
  /\ UNCHANGED <<world, discovery, repos, cache, repoLock, ttl, history>>

HoldsLock(t, d, gen) == th[t].stage \in Locked /\ th[t].ds = d /\ th[t].gen = gen

\* No lock: only the second look at the cache.
AcquireDatasetUnlocked(t) ==
  LET d == th[t].ds IN
  /\ th[t].stage = "waitDataset"
  /\ IF cache[d].checked
     THEN Serve(t, cache[d].snap)
     ELSE th' = [th EXCEPT ![t].stage = "open", ![t].snap = cache[d].snap]
  /\ UNCHANGED <<world, discovery, caches, ttl, history>>

\* The lock, and the second look at the cache under it.  From here th[t].snap is the
\* snapshot of the local entry, 0 when there is none.
AcquireDataset(t) ==
  LET d == th[t].ds IN
  /\ th[t].stage = "waitDataset"
  /\ \A u \in Threads : ~HoldsLock(u, d, th[t].gen)
  /\ IF cache[d].checked
     THEN Serve(t, cache[d].snap)
     ELSE th' = [th EXCEPT ![t].stage = "open", ![t].snap = cache[d].snap]
  /\ UNCHANGED <<world, discovery, caches, ttl, history>>

\* _open_repo
CheckRepos(t) ==
  /\ th[t].stage = "open"
  /\ Goto(t, IF RepoOf(th[t].ds) \in repos THEN "getRepo" ELSE "waitRepo")
  /\ UNCHANGED <<world, discovery, caches, ttl, history>>

EnterRepoLock(t) ==
  /\ th[t].stage = "waitRepo"
  /\ repoLock = NoThread
  /\ repoLock' = t
  /\ Goto(t, "init")
  /\ UNCHANGED <<world, discovery, repos, cache, lockGen, lockKept, ttl, history>>

\* _ensure_repo_initialized: a repo that is not there is created, with empty groups.
CreateMissing(n) ==
  IF Present(n) THEN UNCHANGED world
  ELSE /\ tip' = [tip EXCEPT ![n] = commits[n] + 1]
       /\ commits' = [commits EXCEPT ![n] = @ + 1]
       /\ UNCHANGED <<mode, removals>>

\* Under the lock, after a second look: the repo is there or created, and the handle kept.
InitRepo(t) ==
  LET n == RepoOf(th[t].ds) IN
  /\ th[t].stage = "init"
  /\ IF n \in repos THEN UNCHANGED world ELSE CreateMissing(n)
  /\ repos' = repos \cup {n}
  /\ repoLock' = NoThread
  /\ Goto(t, "getRepo")
  /\ UNCHANGED <<discovery, cache, lockGen, lockKept, ttl, history>>

\* A call raises before the repo was created or after it: no handle is kept either way.
InitRepoFails(t) ==
  LET n == RepoOf(th[t].ds) IN
  /\ th[t].stage = "init" /\ mode.fails
  /\ n \notin repos
  /\ UNCHANGED world \/ CreateMissing(n)
  /\ repoLock' = NoThread
  /\ Goto(t, "error")
  /\ UNCHANGED <<discovery, repos, cache, lockGen, lockKept, ttl, history>>

\* The handle is read again outside the lock: a KeyError if it was evicted meanwhile.
GetRepo(t) ==
  /\ th[t].stage = "getRepo"
  /\ Goto(t, IF RepoOf(th[t].ds) \in repos THEN "lookup" ELSE "error")
  /\ UNCHANGED <<world, discovery, caches, ttl, history>>

\* Stamping the local entry is seen by others only while it is the cached one.
Restamp(t) ==
  cache' = [cache EXCEPT ![th[t].ds].checked = @ \/ cache[th[t].ds].snap = th[t].snap]

\* A cached entry is stamped without comparing its snapshot with the tip.
TipMovedIgnored(t) ==
  /\ th[t].stage = "lookup"
  /\ Present(RepoOf(th[t].ds))
  /\ th[t].snap # 0
  /\ Restamp(t)
  /\ Serve(t, th[t].snap)
  /\ UNCHANGED <<world, discovery, repos, lockGen, lockKept, repoLock, ttl, history>>

TipUnchanged(t) ==
  /\ th[t].stage = "lookup"
  /\ th[t].snap # 0 /\ th[t].snap = tip[RepoOf(th[t].ds)]
  /\ Restamp(t)
  /\ Serve(t, th[t].snap)
  /\ UNCHANGED <<world, discovery, repos, lockGen, lockKept, repoLock, ttl, history>>

TipMoved(t) ==
  LET n == RepoOf(th[t].ds) IN
  /\ th[t].stage = "lookup"
  /\ Present(n) /\ th[t].snap # tip[n]
  /\ th' = [th EXCEPT ![t].stage = "load", ![t].snap = tip[n]]
  /\ UNCHANGED <<world, discovery, caches, ttl, history>>

\* lookup_branch raises: the cached snapshot is served and stamped, if there is one.
LookupFails(t) ==
  /\ th[t].stage = "lookup"
  /\ mode.fails \/ ~Present(RepoOf(th[t].ds))
  /\ IF th[t].snap = 0
     THEN Goto(t, "error") /\ UNCHANGED cache
     ELSE Serve(t, th[t].snap) /\ Restamp(t)
  /\ UNCHANGED <<world, discovery, repos, lockGen, lockKept, repoLock, ttl, history>>

\* _load_datatree of the snapshot that was looked up, and the new entry, fresh.
StoreEntry(t) ==
  /\ th[t].stage = "load"
  /\ cache' = [cache EXCEPT ![th[t].ds] = [snap |-> th[t].snap, checked |-> TRUE]]
  /\ strays' = IF t \in gone THEN strays \cup {th[t].ds} ELSE strays \ {th[t].ds}
  /\ Goto(t, "served")
  /\ UNCHANGED <<world, discovery, repos, lockGen, lockKept, repoLock, ttl, gone>>

LoadFails(t) ==
  /\ th[t].stage = "load"
  /\ mode.fails \/ ~Present(RepoOf(th[t].ds))
  /\ Goto(t, "error")
  /\ UNCHANGED <<world, discovery, caches, ttl, history>>

Answer(t) ==
  /\ th[t].stage \in Answers
  /\ th' = [th EXCEPT ![t] = NoWork(th[t].ds)]
  /\ gone' = gone \ {t}
  /\ UNCHANGED <<world, discovery, caches, ttl, strays>>

----------------------------------------------------------------------------
Step(t) ==
  \/ CheckConfigs(t) \/ EnterDiscovery(t) \/ ListRepos(t) \/ ListingFails(t)
  \/ StampDiscovery(t) \/ AssignConfigs(t) \/ EvictRepos(t) \/ EvictCache(t)
  \/ Resolve(t) \/ CacheHit(t) \/ CacheMiss(t) \/ AcquireDataset(t)
  \/ CheckRepos(t) \/ EnterRepoLock(t) \/ InitRepo(t) \/ InitRepoFails(t) \/ GetRepo(t)
  \/ TipUnchanged(t) \/ TipMoved(t) \/ LookupFails(t) \/ StoreEntry(t) \/ LoadFails(t)
  \/ Answer(t)

Next ==
  \/ \E t \in Threads : Step(t) \/ \E d \in Datasets : GetDatatree(t, d)
  \/ \E n \in Repos : Commit(n) \/ RemoveRepo(n)
  \/ ExpireDiscovery
  \/ \E d \in Datasets : ExpireEntry(d)

Spec == Init /\ [][Next]_vars

\* A thread that is not waiting for a lock keeps running.
Fairness == \A t \in Threads : WF_vars(Step(t))

FairSpec == Spec /\ Fairness

----------------------------------------------------------------------------
(* Properties.                                                             *)

\* Type correctness of the storage, of the caches and of the threads; a lock is held exactly
\* by the thread whose code is inside it.
TypeOK ==
  /\ tip \in [Repos -> Nat] /\ commits \in [Repos -> Nat]
  /\ \A n \in Repos : tip[n] <= commits[n]
  /\ configs \subseteq Repos /\ fresh \in BOOLEAN
  /\ repos \subseteq Repos
  /\ cache \in [Datasets -> [snap : Nat, checked : BOOLEAN]]
  /\ lockGen \in [Datasets -> Nat] /\ lockKept \in [Datasets -> BOOLEAN]
  /\ discoveryLock \in Threads \cup {NoThread} /\ repoLock \in Threads \cup {NoThread}
  /\ th \in [Threads -> [stage : Stages, ds : Datasets, names : SUBSET Repos, gen : Nat, snap : Nat]]
  /\ floor \in [Datasets -> Nat]
  /\ mode \in Modes
  /\ removals \in 0..mode.removals /\ expiries \in 0..MaxExpiries
  /\ gone \subseteq Threads /\ strays \subseteq Datasets
  /\ \A t \in Threads : /\ discoveryLock = t <=> th[t].stage \in Discovering
                        /\ repoLock = t <=> th[t].stage = "init"

\* Two threads never load the same dataset at once ("different datasets load in
\* parallel, the same one loads once").  _evict throws the lock object away while a thread
\* holds it, so that a later request loads beside it: that the repo went away during one
\* of the two requests is the only way.
LoadsOnce ==
  \A t, u \in Threads :
    t # u /\ th[t].stage = "load" /\ th[u].stage = "load" /\ th[t].ds = th[u].ds
      => t \in gone \/ u \in gone

\* A cached snapshot is never replaced by an older one: a slow load that looked its tip up
\* early may not overwrite what a later load stored.  Where this happens, one of the two
\* snapshots was stored by a load whose lock an eviction had thrown away.
SnapshotsMoveForward ==
  [][\A d \in Datasets : cache'[d] # NoEntry /\ cache'[d].snap < cache[d].snap
                           => d \in strays \/ d \in strays']_vars

\* While storage answers and has every repo, what counts as fresh is at most one TTL
\* behind: it is no older than the tip was when the entry last expired, so new snapshots
\* appear without a restart.
StaleAtMostOneTtl ==
  ~mode.fails /\ removals = 0 =>
    \A d \in Datasets : cache[d].checked => cache[d].snap >= floor[d]

\* While storage answers, a request fails only if its repo was removed during it, or had
\* been before and is still to be evicted.  _open_repo reads the handle again outside its
\* lock, so that an eviction makes it raise a KeyError; no eviction of another repo, no
\* refresh of the list and no other thread at the same dataset does.
ErrorOnlyIfGone ==
  ~mode.fails => \A t \in Threads : th[t].stage = "error" => t \in gone

\* A repo that has been listed and not removed stays known: neither a listing that raises
\* nor one that overlaps another takes it from _repo_configs, which would turn each of its
\* datasets into a 404 for a TTL.
ListedStaysKnown ==
  [][removals = 0 => configs \subseteq configs']_vars

\* The locks never block everyone: once no new request arrives, each thread answers
\* the one it has, in spite of failures, evictions and other threads at the same
\* dataset (_evict: "can't deadlock with a load").
EveryRequestAnswered ==
  <>[][\A t \in Threads : th[t].stage = "idle" => th'[t].stage = "idle"]_vars
    => \A t \in Threads : []<>(th[t].stage = "idle")
=============================================================================
