-------------------------- MODULE JwksCacheProofs --------------------------
(***************************************************************************)
(* Proofs about JwksCache, for any number of coroutines and keys and any   *)
(* time limits that its assumption allows.                                 *)
(***************************************************************************)
EXTENDS JwksCache, TLAPS

\* Whoever holds the lock is about to replace a cache that nobody can use: only the
\* holder of the lock fills the cache.
LockedMeansStale == lock # NoRequest => ~Fresh

\* An id that is no longer published is not published again.
KnownKeys ==
  \A r \in Requests : req[r] # Idle /\ req[r].known
    => req[r].kid \in published \/ retired[req[r].kid] # 0

\* A coroutine in its second call finds its key wherever the keys come from: a usable
\* cache was filled, and a fetch under way was answered, after it dropped the cache.
SecondLook ==
  \A r \in Requests :
    /\ req[r] # Idle
    /\ req[r].second /\ req[r].known /\ req[r].kid \in published
    => /\ Fresh => req[r].kid \in keys
       /\ \A q \in Requests : req[q].stage = "fetched" => req[r].kid \in req[q].keys

\* A key set is at most as old as its stamp.
Recent(set, since) ==
  \A k \in set : k \in published \/ (retired[k] # 0 /\ since <= retired[k])

KeySetsRecent ==
  /\ stamp <= now /\ (cached => Recent(keys, stamp))
  /\ \A r \in Requests : req[r].stage = "fetched" => Recent(req[r].keys, req[r].started)
  /\ \A r \in Requests : req[r].stage \in {"fetching", "fetched"} => req[r].started <= now

JwksInv ==
  /\ TypeOK
  /\ LockedMeansStale
  /\ KnownKeys
  /\ SecondLook
  /\ PublishedKeyFound
  /\ KeySetsRecent

\* The invariant holds initially.
LEMMA InitJwks == Init => JwksInv
<1> SUFFICES ASSUME Init PROVE JwksInv
  OBVIOUS
<1> USE JwksAssumption
<1>1. \A r \in Requests : req[r] = Idle /\ req[r].stage = "idle"
  BY DEF Init, Idle
<1>a. 0 \in Times /\ now \in 1..MaxTime
  BY DEF Init, Times
<1>b. \A r \in Requests : lock = r <=> req[r].stage \in {"fetching", "fetched"}
  BY <1>1 DEF Init
<1>2. TypeOK
  BY <1>a, <1>b DEF Init, TypeOK
<1>3. ~Fresh /\ lock = NoRequest /\ ~cached
  BY DEF Init, Fresh
<1>4. LockedMeansStale /\ KnownKeys /\ SecondLook
  BY <1>1, <1>3 DEF LockedMeansStale, KnownKeys, SecondLook
<1>5. PublishedKeyFound
  BY <1>1 DEF PublishedKeyFound
<1>6. KeySetsRecent
  BY <1>1, <1>3 DEF KeySetsRecent, Init
<1> QED  BY <1>2, <1>4, <1>5, <1>6 DEF JwksInv

\* What is known of a coroutine that is at work.
LEMMA AtWork ==
  ASSUME TypeOK, NEW r \in Requests, req[r].stage # "idle"
  PROVE  req[r] \in Local /\ req[r] # Idle
  BY DEF TypeOK, Idle

\* The three ways Lookup ends: the key is found; it is not, in the second call; or the
\* cache is dropped and the second call begins.
LEMMA LookupEnds ==
  ASSUME NEW r \in Requests, NEW local \in Local, NEW found \in SUBSET Kids,
         TypeOK, Lookup(r, local, found)
  PROVE  /\ req' = [req EXCEPT ![r] = req'[r]]
         /\ req'[r] \in Local
         /\ req'[r].kid = local.kid /\ req'[r].known = local.known
         /\ \/ /\ req'[r].stage = "accepted" /\ ~req'[r].second
               /\ local.kid \in found /\ cached' /\ keys' = found
            \/ /\ req'[r].stage = "unknownKey" /\ ~req'[r].second
               /\ local.second /\ local.kid \notin found /\ cached' /\ keys' = found
            \/ /\ req'[r].stage = "waiting" /\ req'[r].second
               /\ ~cached' /\ keys' = {}
         /\ cached' \in BOOLEAN /\ keys' \in SUBSET Kids
<1> DEFINE after(stage) == [local EXCEPT !.stage = stage, !.second = stage = "waiting",
                                         !.started = 0, !.keys = {}]
<1>1. ASSUME NEW stage \in {"accepted", "unknownKey", "waiting"}
      PROVE  /\ after(stage) \in Local
             /\ after(stage).stage = stage
             /\ after(stage).kid = local.kid /\ after(stage).known = local.known
             /\ after(stage).second <=> stage = "waiting"
  <2> DEFINE second == stage = "waiting"
  <2>1. second \in BOOLEAN /\ 0 \in Times /\ stage \in Stages \ {"idle"}
    BY JwksAssumption DEF Stages, Answers, Times
  <2>2. after(stage) = [local EXCEPT !.stage = stage, !.second = second, !.started = 0, !.keys = {}]
    OBVIOUS
  <2>3. second <=> stage = "waiting"
    OBVIOUS
  <2> HIDE DEF second, after
  <2> QED  BY <2>1, <2>2, <2>3 DEF Local
<1>2. \A stage : Advance(r, local, stage) => req' = [req EXCEPT ![r] = after(stage)]
  BY DEF Advance
<1> HIDE DEF after
<1>3. CASE local.kid \in found
  <2>1. req' = [req EXCEPT ![r] = after("accepted")] /\ cached' = TRUE /\ keys' = found
    BY <1>2, <1>3 DEF Lookup
  <2>2. req'[r] = after("accepted")
    BY <2>1 DEF TypeOK
  <2> QED  BY <1>1, <1>3, <2>1, <2>2
<1>4. CASE local.kid \notin found /\ local.second
  <2>1. req' = [req EXCEPT ![r] = after("unknownKey")] /\ cached' = TRUE /\ keys' = found
    BY <1>2, <1>4 DEF Lookup
  <2>2. req'[r] = after("unknownKey")
    BY <2>1 DEF TypeOK
  <2> QED  BY <1>1, <1>4, <2>1, <2>2
<1>5. CASE local.kid \notin found /\ ~local.second
  <2>1. req' = [req EXCEPT ![r] = after("waiting")] /\ cached' = FALSE /\ keys' = {}
    BY <1>2, <1>5 DEF Lookup
  <2>2. req'[r] = after("waiting")
    BY <2>1 DEF TypeOK
  <2> QED  BY <1>1, <1>5, <2>1, <2>2
<1> QED  BY <1>3, <1>4, <1>5

\* Lookup keeps the invariant, whether the keys come from the cache or from a fetch:
\* they are as recent as their stamp, and no coroutine in its second call misses them.
LEMMA LookupKeeps ==
  ASSUME JwksInv, NEW r \in Requests, NEW local \in Local, NEW found \in SUBSET Kids,
         Lookup(r, local, found),
         UNCHANGED <<now, keycloak>>, lock' = NoRequest, stamp' \in Times, stamp' <= now,
         \A q \in Requests \ {r} : req[q].stage \notin {"fetching", "fetched"},
         Recent(found, stamp'),
         local.known => local.kid \in published \/ retired[local.kid] # 0,
         local.second /\ local.known /\ local.kid \in published => local.kid \in found,
         \A q \in Requests \ {r} :
           req[q] # Idle /\ req[q].second /\ req[q].known /\ req[q].kid \in published
             => req[q].kid \in found
  PROVE  JwksInv'
<1> USE DEF keycloak
<1>0. TypeOK /\ KnownKeys /\ SecondLook /\ PublishedKeyFound /\ KeySetsRecent
  BY DEF JwksInv
<1>1. /\ req' = [req EXCEPT ![r] = req'[r]]
      /\ req'[r] \in Local
      /\ req'[r].kid = local.kid /\ req'[r].known = local.known
      /\ \/ /\ req'[r].stage = "accepted" /\ ~req'[r].second
            /\ local.kid \in found /\ cached' /\ keys' = found
         \/ /\ req'[r].stage = "unknownKey" /\ ~req'[r].second
            /\ local.second /\ local.kid \notin found /\ cached' /\ keys' = found
         \/ /\ req'[r].stage = "waiting" /\ req'[r].second
            /\ ~cached' /\ keys' = {}
      /\ cached' \in BOOLEAN /\ keys' \in SUBSET Kids
  BY <1>0, LookupEnds
<1>2. \A q \in Requests \ {r} : req'[q] = req[q]
  BY <1>0, <1>1 DEF TypeOK
<1>3. \A q \in Requests : req'[q].stage \notin {"fetching", "fetched"}
  BY <1>1, <1>2
<1>4. TypeOK'
  <2>1. req' \in [Requests -> Local \cup {Idle}]
    BY <1>0, <1>1 DEF TypeOK
  <2>2. \A q \in Requests : lock' = q <=> req'[q].stage \in {"fetching", "fetched"}
    BY <1>3, JwksAssumption
  <2> QED  BY <1>0, <1>1, <2>1, <2>2 DEF TypeOK
<1>5. LockedMeansStale'
  BY DEF LockedMeansStale
<1>6. KnownKeys'
  BY <1>0, <1>1, <1>2 DEF KnownKeys
<1>7. PublishedKeyFound'
  BY <1>0, <1>1, <1>2 DEF PublishedKeyFound
<1>8. SecondLook'
  <2> SUFFICES ASSUME NEW q \in Requests, req'[q] # Idle, req'[q].second, req'[q].known,
                      req'[q].kid \in published, Fresh'
               PROVE  req'[q].kid \in keys'
    BY <1>3 DEF SecondLook
  <2>1. cached' /\ keys' = found
    BY <1>1 DEF Fresh
  <2>2. q # r
    BY <1>1, <2>1
  <2> QED  BY <1>2, <2>1, <2>2
<1>9. KeySetsRecent'
  <2>1. cached' => Recent(keys, stamp)'
    BY <1>1 DEF Recent
  <2> QED  BY <1>3, <2>1 DEF KeySetsRecent, Recent
<1> QED  BY <1>4, <1>5, <1>6, <1>7, <1>8, <1>9 DEF JwksInv

\* Every step keeps the invariant.
LEMMA JwksStep == JwksInv /\ [Next]_vars => JwksInv'
<1> SUFFICES ASSUME JwksInv, [Next]_vars PROVE JwksInv'
  OBVIOUS
<1> USE JwksAssumption DEF keycloak, cache
<1>0. TypeOK /\ LockedMeansStale /\ KnownKeys /\ SecondLook /\ PublishedKeyFound /\ KeySetsRecent
  BY DEF JwksInv
<1>n. /\ now \in Nat /\ now # 0 /\ stamp \in Nat
      /\ \A k \in Kids : retired[k] \in Nat
      /\ \A r \in Requests : req[r].stage # "idle" => req[r] \in Local
      /\ \A r \in Requests : req[r] \in Local => req[r].stage # "idle" /\ req[r] # Idle
  BY <1>0 DEF TypeOK, Times, Local, Idle
<1>1. ASSUME NEW k \in Kids, Publish(k) PROVE JwksInv'
  <2>1. TypeOK'
    BY <1>0, <1>1 DEF TypeOK, Publish
  <2>2. LockedMeansStale' /\ KnownKeys' /\ PublishedKeyFound'
    BY <1>0, <1>1, <1>n DEF LockedMeansStale, KnownKeys, PublishedKeyFound, Publish, Fresh, TypeOK, Local
  <2>3. SecondLook'
    BY <1>0, <1>1, <1>n DEF SecondLook, KnownKeys, Publish, Fresh, TypeOK, Local
  <2>4. KeySetsRecent'
    BY <1>0, <1>1 DEF KeySetsRecent, Recent, Publish
  <2> QED  BY <2>1, <2>2, <2>3, <2>4 DEF JwksInv
<1>2. ASSUME NEW k \in Kids, Retire(k) PROVE JwksInv'
  <2>1. TypeOK'
    BY <1>0, <1>2 DEF TypeOK, Retire, Times
  <2>2. LockedMeansStale' /\ KnownKeys' /\ PublishedKeyFound' /\ SecondLook'
    BY <1>0, <1>2, <1>n DEF LockedMeansStale, KnownKeys, PublishedKeyFound, SecondLook, Retire, Fresh, TypeOK, Local
  <2>3. KeySetsRecent'
    BY <1>0, <1>2, <1>n DEF KeySetsRecent, Recent, Retire, TypeOK
  <2> QED  BY <2>1, <2>2, <2>3 DEF JwksInv
<1>3. CASE Tick
  <2>1. TypeOK'
    BY <1>0, <1>3 DEF TypeOK, Tick, Times
  <2>2. Fresh' => Fresh
    BY <1>3, <1>n DEF Fresh, Tick
  <2>3. LockedMeansStale' /\ KnownKeys' /\ PublishedKeyFound' /\ SecondLook'
    BY <1>0, <1>3, <2>2 DEF LockedMeansStale, KnownKeys, PublishedKeyFound, SecondLook, Tick
  <2>4. KeySetsRecent'
    BY <1>0, <1>3, <1>n DEF KeySetsRecent, Recent, Tick, Local, Times
  <2> QED  BY <2>1, <2>3, <2>4 DEF JwksInv
<1>f. Fresh => lock = NoRequest /\ \A q \in Requests : req[q].stage \notin {"fetching", "fetched"}
  BY <1>0 DEF LockedMeansStale, TypeOK
<1>g. Fresh => /\ Recent(keys, stamp) /\ stamp <= now
               /\ \A q \in Requests :
                    req[q] # Idle /\ req[q].second /\ req[q].known /\ req[q].kid \in published
                      => req[q].kid \in keys
  BY <1>0 DEF Fresh, KeySetsRecent, SecondLook
<1>4. ASSUME NEW r \in Requests, NEW k \in Kids, Validate(r, k) PROVE JwksInv'
  <2> DEFINE local == [stage |-> "waiting", kid |-> k, known |-> k \in published,
                       second |-> FALSE, started |-> 0, keys |-> {}]
  <2>a. local \in Local
    BY DEF Local, Stages, Answers, Times
  <2>b. ~local.second /\ local.stage = "waiting" /\ local.kid = k /\ (local.known => k \in published)
    OBVIOUS
  <2>1. /\ local \in Local /\ ~local.second /\ local.stage = "waiting" /\ local.kid = k
        /\ local.known => k \in published
    BY <2>a, <2>b
  <2>2. IF Fresh THEN Lookup(r, local, keys)
                 ELSE req' = [req EXCEPT ![r] = local] /\ UNCHANGED <<cached, keys>>
    BY <1>4 DEF Validate
  <2>3. req[r] = Idle /\ UNCHANGED <<now, keycloak, stamp, lock>>
    BY <1>4 DEF Validate
  <2> HIDE DEF local
  <2>4. CASE Fresh
    <3>1. keys \in SUBSET Kids /\ stamp' \in Times /\ lock' = NoRequest
      BY <1>0, <1>f, <2>3, <2>4 DEF TypeOK
    <3>2. Recent(keys, stamp')
      BY <1>g, <2>3, <2>4
    <3> QED  BY <1>f, <1>g, <2>1, <2>2, <2>3, <2>4, <3>1, <3>2, LookupKeeps
  <2>5. CASE ~Fresh
    <3>1. /\ req' = [req EXCEPT ![r] = local] /\ req'[r] = local
          /\ \A q \in Requests \ {r} : req'[q] = req[q]
          /\ UNCHANGED <<now, published, retired, cached, keys, stamp, lock>>
      BY <1>0, <2>2, <2>3, <2>5 DEF TypeOK
    <3>2. lock # r
      BY <1>0, <2>3 DEF TypeOK, Idle
    <3>3. TypeOK'
      BY <1>0, <2>1, <3>1, <3>2 DEF TypeOK
    <3>4. LockedMeansStale' /\ KnownKeys' /\ SecondLook' /\ PublishedKeyFound'
      BY <1>0, <2>1, <3>1 DEF LockedMeansStale, KnownKeys, SecondLook, PublishedKeyFound, Fresh
    <3>5. KeySetsRecent'
      BY <1>0, <2>1, <3>1 DEF KeySetsRecent, Recent
    <3> QED  BY <3>3, <3>4, <3>5 DEF JwksInv
  <2> QED  BY <2>4, <2>5
<1>5. ASSUME NEW r \in Requests, EnterLock(r) PROVE JwksInv'
  <2>1. /\ req[r].stage = "waiting" /\ lock = NoRequest /\ req[r] \in Local /\ req[r] # Idle
        /\ UNCHANGED <<now, keycloak, stamp>>
    BY <1>5, <1>n DEF EnterLock
  <2>2. CASE Fresh
    <3>1. Lookup(r, req[r], keys) /\ lock' = NoRequest /\ keys \in SUBSET Kids /\ stamp' \in Times
      BY <1>0, <1>5, <2>1, <2>2 DEF EnterLock, TypeOK
    <3>2. Recent(keys, stamp') /\ (req[r].known => req[r].kid \in published \/ retired[req[r].kid] # 0)
      BY <1>0, <1>g, <2>1, <2>2 DEF KnownKeys
    <3> QED  BY <1>f, <1>g, <2>1, <2>2, <3>1, <3>2, LookupKeeps
  <2>3. CASE ~Fresh
    <3> DEFINE local == [req[r] EXCEPT !.stage = "fetching", !.started = now]
    <3>1. /\ req' = [req EXCEPT ![r] = local] /\ lock' = r
          /\ UNCHANGED <<now, published, retired, cached, keys, stamp>>
      BY <1>5, <2>1, <2>3 DEF EnterLock
    <3>2. /\ local \in Local /\ local.stage = "fetching" /\ local.started = now
          /\ local.kid = req[r].kid /\ local.known = req[r].known /\ local.second = req[r].second
      <4>1. now \in Times /\ "fetching" \in Stages \ {"idle"}
        BY <1>0 DEF Stages, TypeOK, Times
      <4> QED  BY <2>1, <4>1 DEF Local
    <3> HIDE DEF local
    <3>3. req'[r] = local /\ \A q \in Requests \ {r} : req'[q] = req[q]
      BY <1>0, <3>1 DEF TypeOK
    <3>4. TypeOK'
      BY <1>0, <2>1, <3>1, <3>2, <3>3 DEF TypeOK
    <3>5. local # Idle
      BY <3>2 DEF Idle
    <3>6. LockedMeansStale' /\ KnownKeys' /\ SecondLook' /\ PublishedKeyFound'
      BY <1>0, <2>1, <2>3, <3>1, <3>2, <3>3, <3>5
      DEF LockedMeansStale, KnownKeys, SecondLook, PublishedKeyFound, Fresh
    <3>a. \A q \in Requests : req'[q].stage = "fetched" => q # r /\ req'[q] = req[q]
      BY <3>2, <3>3
    <3>b. \A q \in Requests : req'[q].stage \in {"fetching", "fetched"} => req'[q].started <= now
      BY <1>0, <1>n, <3>2, <3>3 DEF KeySetsRecent
    <3>7. KeySetsRecent'
      BY <1>0, <3>1, <3>a, <3>b DEF KeySetsRecent, Recent
    <3> QED  BY <3>4, <3>6, <3>7 DEF JwksInv
  <2> QED  BY <2>2, <2>3
<1>6. ASSUME NEW r \in Requests, KeycloakAnswers(r) PROVE JwksInv'
  <2> DEFINE local == [req[r] EXCEPT !.stage = "fetched", !.keys = published]
  <2>1. /\ req[r].stage = "fetching" /\ req[r] \in Local /\ lock = r
        /\ req' = [req EXCEPT ![r] = local]
        /\ UNCHANGED <<now, published, retired, cached, keys, stamp, lock>>
    BY <1>0, <1>6, <1>n DEF KeycloakAnswers, TypeOK
  <2>2. /\ local \in Local /\ local.stage = "fetched" /\ local.started = req[r].started
        /\ local.keys = published
        /\ local.kid = req[r].kid /\ local.known = req[r].known /\ local.second = req[r].second
    <3>1. published \in SUBSET Kids /\ "fetched" \in Stages \ {"idle"}
      BY <1>0 DEF Stages, TypeOK
    <3> QED  BY <2>1, <3>1 DEF Local
  <2> HIDE DEF local
  <2>3. req'[r] = local /\ \A q \in Requests \ {r} : req'[q] = req[q]
    BY <1>0, <2>1 DEF TypeOK
  <2>4. TypeOK'
    BY <1>0, <2>1, <2>2, <2>3 DEF TypeOK
  <2>5. local # Idle /\ req[r] # Idle
    BY <2>1, <2>2 DEF Idle
  <2>6. LockedMeansStale' /\ KnownKeys' /\ PublishedKeyFound'
    BY <1>0, <2>1, <2>2, <2>3, <2>5 DEF LockedMeansStale, KnownKeys, PublishedKeyFound, Fresh
  <2>7. SecondLook'
    BY <1>0, <2>1, <2>2, <2>3, <2>5 DEF SecondLook, Fresh
  <2>8. KeySetsRecent'
    <3>1. Recent(local.keys, local.started)
      BY <2>2 DEF Recent
    <3>2. local.started <= now
      BY <1>0, <2>1, <2>2 DEF KeySetsRecent
    <3> QED  BY <1>0, <2>1, <2>3, <3>1, <3>2 DEF KeySetsRecent, Recent
  <2> QED  BY <2>4, <2>6, <2>7, <2>8 DEF JwksInv
<1>7. ASSUME NEW r \in Requests, StoreKeys(r) PROVE JwksInv'
  <2>1. /\ req[r].stage = "fetched" /\ req[r] \in Local /\ req[r] # Idle
        /\ stamp' = req[r].started /\ Lookup(r, req[r], req[r].keys)
        /\ lock' = NoRequest /\ UNCHANGED <<now, keycloak>>
    BY <1>7, <1>n DEF StoreKeys
  <2>2. req[r].keys \in SUBSET Kids /\ stamp' \in Times
    BY <2>1 DEF Local
  <2>3. stamp' <= now /\ Recent(req[r].keys, stamp')
    BY <1>0, <2>1 DEF KeySetsRecent
  <2>4. \A q \in Requests \ {r} : req[q].stage \notin {"fetching", "fetched"}
    BY <1>0, <2>1 DEF TypeOK
  <2>5. req[r].known => req[r].kid \in published \/ retired[req[r].kid] # 0
    BY <1>0, <2>1 DEF KnownKeys
  <2>6. \A q \in Requests :
          req[q] # Idle /\ req[q].second /\ req[q].known /\ req[q].kid \in published
            => req[q].kid \in req[r].keys
    BY <1>0, <2>1 DEF SecondLook
  <2> QED  BY <2>1, <2>2, <2>3, <2>4, <2>5, <2>6, LookupKeeps
<1>8. ASSUME NEW r \in Requests, FetchFails(r) PROVE JwksInv'
  <2> DEFINE local == [req[r] EXCEPT !.stage = "unavailable"]
  <2>1. /\ req[r].stage \in {"fetching", "fetched"} /\ req[r] \in Local /\ lock = r
        /\ req' = [req EXCEPT ![r] = local] /\ lock' = NoRequest
        /\ UNCHANGED <<now, published, retired, cached, keys, stamp>>
    BY <1>0, <1>8, <1>n DEF FetchFails, TypeOK
  <2>2. /\ local \in Local /\ local.stage = "unavailable"
        /\ local.kid = req[r].kid /\ local.known = req[r].known /\ local.second = req[r].second
    <3>1. "unavailable" \in Stages \ {"idle"}
      BY DEF Stages, Answers
    <3> QED  BY <2>1, <3>1 DEF Local
  <2> HIDE DEF local
  <2>3. req'[r] = local /\ \A q \in Requests \ {r} : req'[q] = req[q]
    BY <1>0, <2>1 DEF TypeOK
  <2>4. TypeOK'
    BY <1>0, <2>1, <2>2, <2>3 DEF TypeOK
  <2>5. local # Idle /\ req[r] # Idle
    BY <2>1, <2>2 DEF Idle
  <2>6. LockedMeansStale' /\ KnownKeys' /\ PublishedKeyFound' /\ SecondLook'
    BY <1>0, <2>1, <2>2, <2>3, <2>5
    DEF LockedMeansStale, KnownKeys, PublishedKeyFound, SecondLook, Fresh
  <2>7. KeySetsRecent'
    BY <1>0, <2>1, <2>2, <2>3 DEF KeySetsRecent, Recent
  <2> QED  BY <2>4, <2>6, <2>7 DEF JwksInv
<1>9. ASSUME NEW r \in Requests, Answer(r) PROVE JwksInv'
  <2>1. /\ req[r].stage # "idle" /\ req' = [req EXCEPT ![r] = Idle]
        /\ UNCHANGED <<now, published, retired, cached, keys, stamp>>
    BY <1>9 DEF Answer, Answers
  <2>2. lock' = IF lock = r THEN NoRequest ELSE lock
    BY <1>0, <1>9 DEF Answer, Answers, TypeOK
  <2>3. req'[r] = Idle /\ Idle.stage = "idle" /\ \A q \in Requests \ {r} : req'[q] = req[q]
    BY <1>0, <2>1 DEF TypeOK, Idle
  <2>4. TypeOK'
    BY <1>0, <2>1, <2>2, <2>3 DEF TypeOK
  <2>5. LockedMeansStale' /\ KnownKeys' /\ PublishedKeyFound' /\ SecondLook'
    BY <1>0, <2>1, <2>2, <2>3 DEF LockedMeansStale, KnownKeys, PublishedKeyFound, SecondLook, Fresh
  <2>6. KeySetsRecent'
    BY <1>0, <2>1, <2>3 DEF KeySetsRecent, Recent
  <2> QED  BY <2>4, <2>5, <2>6 DEF JwksInv
<1>10. CASE UNCHANGED vars
  <2>1. UNCHANGED <<now, published, retired, cached, keys, stamp, lock, req>>
    BY <1>10 DEF vars
  <2>2. TypeOK' /\ LockedMeansStale' /\ KnownKeys' /\ PublishedKeyFound' /\ SecondLook'
    BY <1>0, <2>1
    DEF TypeOK, LockedMeansStale, KnownKeys, PublishedKeyFound, SecondLook, Fresh
  <2>3. KeySetsRecent'
    BY <1>0, <2>1 DEF KeySetsRecent, Recent
  <2> QED  BY <2>2, <2>3 DEF JwksInv
<1> QED  BY <1>1, <1>2, <1>3, <1>4, <1>5, <1>6, <1>7, <1>8, <1>9, <1>10 DEF Next

\* The invariant holds in every reachable state.
LEMMA JwksInvariance == Spec => []JwksInv
  BY InitJwks, JwksStep, PTL DEF Spec

\* The types, and that exactly the coroutine that fetches holds the lock.
THEOREM JwksTypeCorrect == Spec => []TypeOK
<1>1. JwksInv => TypeOK
  BY DEF JwksInv
<1> QED  BY <1>1, JwksInvariance, PTL

\* A key rotation is picked up at once, however the coroutines' fetches interleave.
THEOREM RotationPickedUp == Spec => []PublishedKeyFound
<1>1. JwksInv => PublishedKeyFound
  BY DEF JwksInv
<1> QED  BY <1>1, JwksInvariance, PTL

\* A retired key opens nothing once a cache filled before its retirement is over, even
\* when the fetch that filled it took long.
THEOREM RetirementTakesEffect == Spec => RetiredKeyRefused
<1>1. JwksInv /\ [Next]_vars =>
        \A r \in Requests :
          req'[r].stage = "accepted" /\ req[r].stage # "accepted"
            => LET k == req'[r].kid IN
               k \in published \/ (retired[k] # 0 /\ now < retired[k] + CacheTtl)
  <2> SUFFICES ASSUME JwksInv, [Next]_vars, NEW r \in Requests,
                      req'[r].stage = "accepted", req[r].stage # "accepted",
                      req'[r].kid \notin published
               PROVE  retired[req'[r].kid] # 0 /\ now < retired[req'[r].kid] + CacheTtl
    OBVIOUS
  <2> USE JwksAssumption DEF keycloak, cache
  <2>0. TypeOK /\ KeySetsRecent
    BY DEF JwksInv
  <2>1. req' # req
    OBVIOUS
  <2>2. PICK q \in Requests : \/ \E k \in Kids : Validate(q, k)
                              \/ EnterLock(q) \/ KeycloakAnswers(q) \/ StoreKeys(q)
                              \/ FetchFails(q) \/ Answer(q)
    BY <2>1 DEF Next, vars, Publish, Retire, Tick
  <2>3. q = r
    <3>1. CASE \E k \in Kids : Validate(q, k)
      BY <2>0, <3>1 DEF Validate, Lookup, Advance, TypeOK
    <3>2. CASE EnterLock(q) \/ StoreKeys(q)
      BY <2>0, <3>2 DEF EnterLock, StoreKeys, Lookup, Advance, TypeOK
    <3>3. CASE KeycloakAnswers(q) \/ FetchFails(q) \/ Answer(q)
      BY <2>0, <3>3 DEF KeycloakAnswers, FetchFails, Answer, TypeOK
    <3> QED  BY <2>2, <3>1, <3>2, <3>3
  \* The key set that was looked at, and its stamp.
  <2>4. \E found \in SUBSET Kids, since \in Times :
          /\ req'[r].kid \in found /\ Recent(found, since) /\ now < since + CacheTtl
    <3>1. ASSUME NEW k \in Kids, Validate(r, k)
          PROVE  Fresh /\ req'[r].kid \in keys
      <4> DEFINE local == [stage |-> "waiting", kid |-> k, known |-> k \in published,
                           second |-> FALSE, started |-> 0, keys |-> {}]
      <4>1. local \in Local /\ local.stage = "waiting"
        BY DEF Local, Stages, Answers, Times
      <4>2. IF Fresh THEN Lookup(r, local, keys)
                     ELSE req' = [req EXCEPT ![r] = local] /\ UNCHANGED <<cached, keys>>
        BY <3>1 DEF Validate
      <4> HIDE DEF local
      <4>3. Fresh
        BY <2>0, <4>1, <4>2 DEF TypeOK
      <4>4. keys \in SUBSET Kids /\ Lookup(r, local, keys)
        BY <2>0, <4>2, <4>3 DEF TypeOK
      <4>5. req'[r].stage \in {"unknownKey", "waiting"} \/ (local.kid \in keys /\ req'[r].kid = local.kid)
        BY <2>0, <4>1, <4>4, LookupEnds
      <4> QED  BY <4>3, <4>5
    <3>2. ASSUME EnterLock(r) PROVE Fresh /\ req'[r].kid \in keys
      <4>1. req[r] \in Local /\ keys \in SUBSET Kids
        BY <2>0, <3>2 DEF EnterLock, TypeOK, Idle
      <4>2. Fresh
        BY <2>0, <3>2, <4>1 DEF EnterLock, TypeOK, Local
      <4>3. Lookup(r, req[r], keys)
        BY <3>2, <4>2 DEF EnterLock
      <4>4. req'[r].stage \in {"unknownKey", "waiting"} \/ (req[r].kid \in keys /\ req'[r].kid = req[r].kid)
        BY <2>0, <4>1, <4>3, LookupEnds
      <4> QED  BY <4>2, <4>4
    <3>3. ASSUME Fresh, req'[r].kid \in keys
          PROVE  \E found \in SUBSET Kids, since \in Times :
                   req'[r].kid \in found /\ Recent(found, since) /\ now < since + CacheTtl
      <4>1. keys \in SUBSET Kids /\ stamp \in Times /\ Recent(keys, stamp) /\ now < stamp + CacheTtl
        BY <2>0, <3>3 DEF Fresh, KeySetsRecent, TypeOK
      <4> QED  BY <3>3, <4>1
    <3>4. ASSUME StoreKeys(r)
          PROVE  \E found \in SUBSET Kids, since \in Times :
                   req'[r].kid \in found /\ Recent(found, since) /\ now < since + CacheTtl
      <4>1. /\ req[r] \in Local /\ req[r].stage = "fetched" /\ InTime(r)
            /\ Lookup(r, req[r], req[r].keys)
        BY <2>0, <3>4 DEF StoreKeys, TypeOK, Idle
      <4>2. req[r].keys \in SUBSET Kids /\ req[r].started \in Times
        BY <4>1 DEF Local
      <4>3. Recent(req[r].keys, req[r].started)
        BY <2>0, <4>1 DEF KeySetsRecent
      <4>4. now < req[r].started + CacheTtl
        BY <2>0, <4>1, <4>2 DEF InTime, TypeOK, Times
      <4>5. req'[r].kid \in req[r].keys
        BY <2>0, <4>1, <4>2, LookupEnds
      <4> QED  BY <4>2, <4>3, <4>4, <4>5
    <3>5. ~(KeycloakAnswers(r) \/ FetchFails(r) \/ Answer(r))
      <4>1. KeycloakAnswers(r) => req'[r].stage = "fetched"
        BY <2>0 DEF KeycloakAnswers, TypeOK, Local, Idle
      <4>2. FetchFails(r) => req'[r].stage = "unavailable"
        BY <2>0 DEF FetchFails, TypeOK, Local, Idle
      <4>3. Answer(r) => req'[r].stage = "idle"
        BY <2>0 DEF Answer, TypeOK, Idle
      <4> QED  BY <4>1, <4>2, <4>3
    <3> QED  BY <2>2, <2>3, <3>1, <3>2, <3>3, <3>4, <3>5
  <2>5. PICK found \in SUBSET Kids, since \in Times :
          req'[r].kid \in found /\ Recent(found, since) /\ now < since + CacheTtl
    BY <2>4
  <2>6. retired[req'[r].kid] # 0 /\ since <= retired[req'[r].kid]
    BY <2>5 DEF Recent
  <2>7. now \in Nat /\ since \in Nat /\ retired[req'[r].kid] \in Nat
    BY <2>0, <2>5 DEF TypeOK, Times
  <2> QED  BY <2>5, <2>6, <2>7
<1> QED  BY <1>1, JwksInvariance, PTL DEF Spec, RetiredKeyRefused
=============================================================================
