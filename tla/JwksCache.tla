----------------------------- MODULE JwksCache -----------------------------
(***************************************************************************)
(* The signing keys of Keycloak as a worker caches them to validate tokens *)
(* (KeycloakJWTValidator in api/src/auth.py; xpublish-api/src/auth.py has  *)
(* the same class).  The coroutines of one worker share the cache; each    *)
(* await is a point where another one may run.  Keycloak is external: it   *)
(* publishes new keys, retires old ones, and may not answer.               *)
(*                                                                         *)
(* A token is known by the id of its signing key; what the claims say is   *)
(* left out.  The URL of the key set is configured or discovered first,    *)
(* under the same lock: finding it is part of the fetch.                   *)
(***************************************************************************)
EXTENDS Naturals

CONSTANTS Requests,    \* coroutines that validate a token
          Kids,        \* ids of signing keys; an id is used once
          NoRequest,   \* holder of the free lock
          CacheTtl,    \* _jwks_cache_ttl, in ticks
          FetchLimit,  \* the longest a fetch can take, in ticks
          MaxTime      \* bound: the clock stops here

ASSUME JwksAssumption ==
  /\ NoRequest \notin Requests
  /\ CacheTtl \in Nat /\ FetchLimit \in Nat /\ FetchLimit < CacheTtl
  /\ MaxTime \in Nat \ {0}

VARIABLES now,        \* the clock
          published,  \* keys that Keycloak publishes
          retired,    \* retired[k]: when it stopped to publish k, 0 for not yet
          cached,     \* whether _jwks_cache holds a key set (it is not None)
          keys,       \* the keys in it
          stamp,      \* _jwks_cache_time
          lock,       \* holder of _refresh_lock
          req         \* req[r]: where the coroutine is and its local variables

keycloak == <<published, retired>>
cache == <<cached, keys, stamp>>
vars == <<now, keycloak, cache, lock, req>>

Times == 0..MaxTime
Answers == {"accepted", "unknownKey", "unavailable"}
Stages == {"idle", "waiting", "fetching", "fetched"} \cup Answers

\* second: the coroutine is in its second call of _get_jwks.  known: its key was
\* published when the request arrived.
Idle == [stage |-> "idle"]
Local == [stage : Stages \ {"idle"}, kid : Kids, known : BOOLEAN, second : BOOLEAN,
          started : Times, keys : SUBSET Kids]

Init ==
  /\ now = 1
  /\ published \in SUBSET Kids
  /\ retired = [k \in Kids |-> 0]
  /\ cached = FALSE /\ keys = {} /\ stamp = 0
  /\ lock = NoRequest
  /\ req = [r \in Requests |-> Idle]

----------------------------------------------------------------------------
(* Keycloak and time.                                                      *)

Publish(k) ==
  /\ k \notin published /\ retired[k] = 0
  /\ published' = published \cup {k}
  /\ UNCHANGED <<now, retired, cache, lock, req>>

Retire(k) ==
  /\ k \in published
  /\ published' = published \ {k}
  /\ retired' = [retired EXCEPT ![k] = now]
  /\ UNCHANGED <<now, cache, lock, req>>

Tick ==
  /\ now < MaxTime
  /\ now' = now + 1
  /\ UNCHANGED <<keycloak, cache, lock, req>>

----------------------------------------------------------------------------
(* validate and _get_jwks                                                  *)

Fresh == cached /\ now < stamp + CacheTtl

\* validate goes on with local variables it no longer needs cleared.
Advance(r, local, stage) ==
  req' = [req EXCEPT ![r] = [local EXCEPT !.stage = stage, !.second = stage = "waiting",
                                          !.started = 0, !.keys = {}]]

\* An unknown key is refused without another look at Keycloak.
LookupOnce(r, local, found) ==
  /\ Advance(r, local, IF local.kid \in found THEN "accepted" ELSE "unknownKey")
  /\ cached' = TRUE /\ keys' = found

\* What validate does with the keys that _get_jwks returned: a token whose key is not
\* among them drops the cache and asks once more.
Lookup(r, local, found) ==
  IF local.kid \in found \/ local.second
  THEN /\ Advance(r, local, IF local.kid \in found THEN "accepted" ELSE "unknownKey")
       /\ cached' = TRUE /\ keys' = found
  ELSE /\ Advance(r, local, "waiting")
       /\ cached' = FALSE /\ keys' = {}

\* A request arrives.  A fresh cache is used without the lock.
Validate(r, k) ==
  LET local == [stage |-> "waiting", kid |-> k, known |-> k \in published, second |-> FALSE,
                started |-> 0, keys |-> {}] IN
  /\ req[r] = Idle
  /\ IF Fresh THEN Lookup(r, local, keys)
              ELSE req' = [req EXCEPT ![r] = local] /\ UNCHANGED <<cached, keys>>
  /\ UNCHANGED <<now, keycloak, stamp, lock>>

\* The lock is taken, and the cache is looked at again.
EnterLock(r) ==
  /\ req[r].stage = "waiting"
  /\ lock = NoRequest
  /\ IF Fresh
     THEN Lookup(r, req[r], keys) /\ UNCHANGED lock
     ELSE /\ req' = [req EXCEPT ![r].stage = "fetching", ![r].started = now]
          /\ lock' = r
          /\ UNCHANGED <<cached, keys>>
  /\ UNCHANGED <<now, keycloak, stamp>>

KeycloakAnswers(r) ==
  /\ req[r].stage = "fetching"
  /\ req' = [req EXCEPT ![r].stage = "fetched", ![r].keys = published]
  /\ UNCHANGED <<now, keycloak, cache, lock>>

InTime(r) == now <= req[r].started + FetchLimit

\* The key set is stamped with the time of its arrival.
StoreKeysStampedLate(r) ==
  /\ req[r].stage = "fetched" /\ InTime(r)
  /\ stamp' = now
  /\ Lookup(r, req[r], req[r].keys)
  /\ lock' = NoRequest
  /\ UNCHANGED <<now, keycloak>>

\* The key set is stamped with the time when the fetch began.
StoreKeys(r) ==
  /\ req[r].stage = "fetched" /\ InTime(r)
  /\ stamp' = req[r].started
  /\ Lookup(r, req[r], req[r].keys)
  /\ lock' = NoRequest
  /\ UNCHANGED <<now, keycloak>>

\* The exception leaves the lock taken.
FetchFailsKeepsLock(r) ==
  /\ req[r].stage \in {"fetching", "fetched"}
  /\ req' = [req EXCEPT ![r].stage = "unavailable"]
  /\ UNCHANGED <<now, keycloak, cache, lock>>

\* Keycloak does not answer, or not in time: 503, and the cache stays as it is.
FetchFails(r) ==
  /\ req[r].stage \in {"fetching", "fetched"}
  /\ req' = [req EXCEPT ![r].stage = "unavailable"]
  /\ lock' = NoRequest
  /\ UNCHANGED <<now, keycloak, cache>>

Answer(r) ==
  /\ req[r].stage \in Answers
  /\ req' = [req EXCEPT ![r] = Idle]
  /\ UNCHANGED <<now, keycloak, cache, lock>>

----------------------------------------------------------------------------
Fetch(r) == KeycloakAnswers(r) \/ StoreKeys(r) \/ FetchFails(r)

Next ==
  \/ \E k \in Kids : Publish(k) \/ Retire(k)
  \/ Tick
  \/ \E r \in Requests : \/ \E k \in Kids : Validate(r, k)
                         \/ EnterLock(r)
                         \/ KeycloakAnswers(r)
                         \/ StoreKeys(r)
                         \/ FetchFails(r)
                         \/ Answer(r)

Spec == Init /\ [][Next]_vars

\* The event loop runs every coroutine that can go on, asyncio.Lock wakes its waiters
\* in the order they came, and a fetch ends, with an answer or with a timeout.
Fairness ==
  \A r \in Requests : /\ SF_vars(EnterLock(r))
                      /\ WF_vars(Fetch(r))
                      /\ WF_vars(Answer(r))

FairSpec == Spec /\ Fairness

----------------------------------------------------------------------------
(* Properties.                                                             *)

\* Type correctness of the cache and of the requests; the lock is held exactly by the
\* request that fetches.
TypeOK ==
  /\ now \in 1..MaxTime
  /\ published \in SUBSET Kids /\ retired \in [Kids -> Times]
  /\ cached \in BOOLEAN /\ keys \in SUBSET Kids /\ stamp \in Times
  /\ lock \in Requests \cup {NoRequest}
  /\ req \in [Requests -> Local \cup {Idle}]
  /\ \A r \in Requests : lock = r <=> req[r].stage \in {"fetching", "fetched"}

\* A token whose key was published when its request arrived, and is still, is never
\* refused for want of its key: a rotation is picked up at once, although the cache is
\* fresh, a fetch from before the rotation is under way or other requests drop and
\* refill the cache.
PublishedKeyFound ==
  \A r \in Requests :
    req[r].stage = "unknownKey" => ~(req[r].known /\ req[r].kid \in published)

\* A token is accepted on a key that Keycloak no longer publishes only for less than
\* CacheTtl after it was retired.
RetiredKeyRefused ==
  [][\A r \in Requests :
        req'[r].stage = "accepted" /\ req[r].stage # "accepted"
          => LET k == req'[r].kid IN
             k \in published \/ (retired[k] # 0 /\ now < retired[k] + CacheTtl)]_vars

\* Every request is answered: no failed fetch leaves the lock taken.
EveryTokenAnswered ==
  \A r \in Requests : (req[r] # Idle) ~> (req[r] = Idle)
=============================================================================
