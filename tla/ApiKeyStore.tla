---------------------------- MODULE ApiKeyStore ----------------------------
(***************************************************************************)
(* The API key store of the TEEHR API (api/src/api_key_store.py) as the    *)
(* gunicorn workers of a rollout use it.  Keys live in the `api_keys`      *)
(* table of the application database.  They used to live in Keycloak's     *)
(* database, so every worker copies the legacy rows over when it starts,   *)
(* while old pods may still create and revoke keys in the legacy table and *)
(* other workers already serve requests.                                   *)
(*                                                                         *)
(* One step of a worker is one statement or transaction it sends to        *)
(* PostgreSQL; between two of them anything else may happen, a crash of    *)
(* the worker included.  The upsert of the legacy rows is one step: it is  *)
(* one transaction, and PostgreSQL re-reads a row it waited for, so it     *)
(* behaves as if it ran at its commit.                                     *)
(***************************************************************************)
EXTENDS Naturals

CONSTANTS Keys,       \* API keys; a key stands for its id, plaintext and hash
          Owners,     \* subjects of the admin identities that create keys
          Workers,    \* gunicorn workers of the new release
          Requests,   \* requests that present an API key
          MaxTime,    \* bound: the clock stops here
          MaxCrashes  \* bound: how many worker crashes or failed startups

ASSUME BoundsAssumption == MaxTime \in Nat \ {0} /\ MaxCrashes \in Nat

\* "none" is the owner of no row.
ASSUME OwnersAssumption == "none" \notin Owners

VARIABLES app,         \* app[k]: row of k in the application database
          legacy,      \* legacy[k]: row of k in Keycloak's database
          legacyTable, \* whether the legacy database has an api_keys table
          oldPods,     \* whether pods of the old release still run
          pc,          \* pc[w]: where worker w is in startup()
          rows,        \* rows[w]: the legacy rows w has fetched and not written
          startedFrom, \* startedFrom[w]: the legacy table when w's startup began
          now,         \* the clock that stamps revoked_at
          req,         \* req[r]: the key request r presents and its verdict
          acked,       \* keys whose DELETE was answered 204
          crashes      \* how many workers crashed or failed to start

vars == <<app, legacy, legacyTable, oldPods, pc, rows, startedFrom, now, req,
          acked, crashes>>

----------------------------------------------------------------------------
(* Rows.  revoked_at = Null is SQL's NULL: the key is not revoked.         *)

Null == 0
Timestamps == 1..MaxTime
NoRow == [owner |-> "none", revoked_at |-> Null]
Row == [owner : Owners, revoked_at : {Null} \cup Timestamps]
Table == [Keys -> Row \cup {NoRow}]
EmptyTable == [k \in Keys |-> NoRow]

IsActive(row) == row # NoRow /\ row.revoked_at = Null
IsRevoked(row) == row.revoked_at # Null

Coalesce(a, b) == IF a # Null THEN a ELSE b
CoalesceLegacyFirst(a, b) == IF b # Null THEN b ELSE a

\* What a legacy row does to the application's row of the same id.
UpsertOverwrites(old, new) ==
  IF new = NoRow THEN old ELSE new

UpsertDoNothing(old, new) ==
  IF old = NoRow THEN new ELSE old

UpsertLegacyFirst(old, new) ==
  CASE new = NoRow -> old
    [] new # NoRow /\ old = NoRow -> new
    [] OTHER -> [old EXCEPT !.revoked_at = CoalesceLegacyFirst(old.revoked_at, new.revoked_at)]

Upsert(old, new) ==
  CASE new = NoRow -> old
    [] new # NoRow /\ old = NoRow -> new
    [] OTHER -> [old EXCEPT !.revoked_at = Coalesce(old.revoked_at, new.revoked_at)]

----------------------------------------------------------------------------
Idle == [state |-> "idle"]
Request == {Idle} \cup [state : {"asked", "accepted", "rejected"}, key : Keys]

Phases == {"down", "connecting", "copying", "serving"}

Init ==
  /\ app = EmptyTable
  /\ legacyTable \in BOOLEAN
  /\ \E ks \in SUBSET Keys, o \in Owners :
       /\ ~legacyTable => ks = {}
       /\ legacy = [k \in Keys |-> IF k \in ks THEN [owner |-> o, revoked_at |-> Null] ELSE NoRow]
  /\ oldPods = legacyTable
  /\ pc = [w \in Workers |-> "down"]
  /\ rows = [w \in Workers |-> EmptyTable]
  /\ startedFrom = [w \in Workers |-> EmptyTable]
  /\ now = 1
  /\ req = [r \in Requests |-> Idle]
  /\ acked = {}
  /\ crashes = 0

----------------------------------------------------------------------------
(* Startup of a worker.                                                    *)

\* Pool and table, under the advisory lock.
CreateSchema(w) ==
  /\ pc[w] = "down"
  /\ pc' = [pc EXCEPT ![w] = "connecting"]
  /\ startedFrom' = [startedFrom EXCEPT ![w] = legacy]
  /\ UNCHANGED <<app, legacy, legacyTable, oldPods, rows, now, req, acked, crashes>>

\* The legacy connection sees no api_keys table: nothing to copy.
SkipLegacy(w) ==
  /\ pc[w] = "connecting"
  /\ ~legacyTable
  /\ pc' = [pc EXCEPT ![w] = "serving"]
  /\ UNCHANGED <<app, legacy, legacyTable, oldPods, rows, startedFrom, now, req, acked, crashes>>

\* Fetch the legacy rows.  The legacy connection is closed before they are used.
FetchLegacy(w) ==
  /\ pc[w] = "connecting"
  /\ legacyTable
  /\ pc' = [pc EXCEPT ![w] = "copying"]
  /\ rows' = [rows EXCEPT ![w] = legacy]
  /\ UNCHANGED <<app, legacy, legacyTable, oldPods, startedFrom, now, req, acked, crashes>>

\* Write them, in one transaction, and start serving.
UpsertLegacy(w) ==
  /\ pc[w] = "copying"
  /\ app' = [k \in Keys |-> Upsert(app[k], rows[w][k])]
  /\ pc' = [pc EXCEPT ![w] = "serving"]
  /\ rows' = [rows EXCEPT ![w] = EmptyTable]
  /\ UNCHANGED <<legacy, legacyTable, oldPods, startedFrom, now, req, acked, crashes>>

\* A worker dies, or an exception ends its startup; gunicorn starts it again.
Crash(w) ==
  /\ pc[w] # "down"
  /\ crashes < MaxCrashes
  /\ crashes' = crashes + 1
  /\ pc' = [pc EXCEPT ![w] = "down"]
  /\ rows' = [rows EXCEPT ![w] = EmptyTable]
  /\ UNCHANGED <<app, legacy, legacyTable, oldPods, startedFrom, now, req, acked>>

----------------------------------------------------------------------------
(* Requests to a serving worker.                                           *)

\* A uuid is fresh in both databases.
Fresh(k) == app[k] = NoRow /\ legacy[k] = NoRow

CreateKey(w, o, k) ==
  /\ pc[w] = "serving"
  /\ Fresh(k)
  /\ app' = [app EXCEPT ![k] = [owner |-> o, revoked_at |-> Null]]
  /\ UNCHANGED <<legacy, legacyTable, oldPods, pc, rows, startedFrom, now, req, acked, crashes>>

\* UPDATE ... WHERE id = k AND owner_sub = o AND revoked_at IS NULL.  When no row
\* matches the answer is 404 and nothing changes.
Revocable(o, k) == IsActive(app[k]) /\ app[k].owner = o

\* The 204 reaches the client, or is lost to a crash or to the request timeout.
RevokeKey(w, o, k) ==
  /\ pc[w] = "serving"
  /\ Revocable(o, k)
  /\ app' = [app EXCEPT ![k].revoked_at = now]
  /\ acked' \in {acked, acked \cup {k}}
  /\ UNCHANGED <<legacy, legacyTable, oldPods, pc, rows, startedFrom, now, req, crashes>>

PresentKey(r, k) ==
  /\ req[r] = Idle
  /\ req' = [req EXCEPT ![r] = [state |-> "asked", key |-> k]]
  /\ UNCHANGED <<app, legacy, legacyTable, oldPods, pc, rows, startedFrom, now, acked, crashes>>

\* The lookup that forgets revoked_at.
ValidatesAnyRow(row) == row # NoRow

\* validate_key returns an identity: a row exists and it is not revoked.
Validates(row) == IsActive(row)

ValidateKey(w, r) ==
  /\ pc[w] = "serving"
  /\ req[r].state = "asked"
  /\ req' = [req EXCEPT ![r].state =
               IF Validates(app[req[r].key]) THEN "accepted" ELSE "rejected"]
  /\ UNCHANGED <<app, legacy, legacyTable, oldPods, pc, rows, startedFrom, now, acked, crashes>>

\* The answer is sent, or the connection is gone before there is one.
EndRequest(r) ==
  /\ req[r] # Idle
  /\ req' = [req EXCEPT ![r] = Idle]
  /\ UNCHANGED <<app, legacy, legacyTable, oldPods, pc, rows, startedFrom, now, acked, crashes>>

----------------------------------------------------------------------------
(* Pods of the old release: the same operations on the legacy table.       *)

OldCreateKey(o, k) ==
  /\ oldPods
  /\ Fresh(k)
  /\ legacy' = [legacy EXCEPT ![k] = [owner |-> o, revoked_at |-> Null]]
  /\ UNCHANGED <<app, legacyTable, oldPods, pc, rows, startedFrom, now, req, acked, crashes>>

OldRevokeKey(o, k) ==
  /\ oldPods
  /\ IsActive(legacy[k]) /\ legacy[k].owner = o
  /\ legacy' = [legacy EXCEPT ![k].revoked_at = now]
  /\ UNCHANGED <<app, legacyTable, oldPods, pc, rows, startedFrom, now, req, acked, crashes>>

RetireOldPods ==
  /\ oldPods
  /\ oldPods' = FALSE
  /\ UNCHANGED <<app, legacy, legacyTable, pc, rows, startedFrom, now, req, acked, crashes>>

Tick ==
  /\ now < MaxTime
  /\ now' = now + 1
  /\ UNCHANGED <<app, legacy, legacyTable, oldPods, pc, rows, startedFrom, req, acked, crashes>>

----------------------------------------------------------------------------
Startup(w) == CreateSchema(w) \/ SkipLegacy(w) \/ FetchLegacy(w) \/ UpsertLegacy(w)

Next ==
  \/ \E w \in Workers : \/ CreateSchema(w)
                        \/ SkipLegacy(w)
                        \/ FetchLegacy(w)
                        \/ UpsertLegacy(w)
                        \/ Crash(w)
                        \/ \E o \in Owners, k \in Keys : \/ CreateKey(w, o, k)
                                                         \/ RevokeKey(w, o, k)
                        \/ \E r \in Requests : ValidateKey(w, r)
  \/ \E r \in Requests : \/ \E k \in Keys : PresentKey(r, k)
                         \/ EndRequest(r)
  \/ \E o \in Owners, k \in Keys : \/ OldCreateKey(o, k)
                                   \/ OldRevokeKey(o, k)
  \/ RetireOldPods
  \/ Tick

Spec == Init /\ [][Next]_vars

\* gunicorn restarts a worker that died and lets a starting worker run.
Fairness == \A w \in Workers : WF_vars(Startup(w))

FairSpec == Spec /\ Fairness

----------------------------------------------------------------------------
(* Properties.                                                             *)

\* Type correctness of the two tables, of the workers and of the requests.
TypeOK ==
  /\ app \in Table
  /\ legacy \in Table
  /\ legacyTable \in BOOLEAN
  /\ oldPods \in BOOLEAN
  /\ pc \in [Workers -> Phases]
  /\ rows \in [Workers -> Table]
  /\ startedFrom \in [Workers -> Table]
  /\ now \in Timestamps
  /\ req \in [Requests -> Request]
  /\ acked \in SUBSET Keys
  /\ crashes \in 0..MaxCrashes

\* Row a is in table row b: b has the row, and is revoked if a is.
Included(a, b) ==
  a # NoRow => /\ b # NoRow
               /\ b.owner = a.owner
               /\ IsRevoked(a) => IsRevoked(b)

\* A worker that serves has brought over everything the legacy table held when its
\* startup began, keys and revocations alike, whatever the old pods, the other
\* workers and their revocations did while it copied (_copy_legacy_keys: "a key
\* created or revoked by an old pod during a rollout is picked up by the next
\* restart").
PickedUpByRestart ==
  \A w \in Workers, k \in Keys :
    pc[w] = "serving" => Included(startedFrom[w][k], app[k])

\* No step of any worker, a late copy of stale legacy rows included, removes a key,
\* gives it another owner, or clears or changes a revocation time once it is set.
RevocationIsFinal ==
  [][\A k \in Keys : app[k] # NoRow =>
        /\ app'[k] # NoRow
        /\ app'[k].owner = app[k].owner
        /\ IsRevoked(app[k]) => app'[k].revoked_at = app[k].revoked_at]_vars

\* Once a DELETE was answered 204 no request is accepted on that key again, by any
\* worker, restarted or not.
AcknowledgedMeansRefused ==
  [][\A r \in Requests :
        req'[r].state = "accepted" /\ req[r].state = "asked" => req[r].key \notin acked]_vars

\* Once the old pods are gone, a worker that begins to start ends the split: from
\* some point on the application's table holds every legacy key and revocation.
RolloutConverges ==
  \A w \in Workers :
    ~oldPods /\ pc[w] = "connecting" ~> [](\A k \in Keys : Included(legacy[k], app[k]))

\* Where a row is in the life cycle of KeyRegistry.
Lifecycle(row) ==
  CASE row = NoRow -> "absent"
    [] IsActive(row) -> "active"
    [] OTHER -> "revoked"

Registry == INSTANCE KeyRegistry
              WITH status <- [k \in Keys |-> Lifecycle(app[k])], verdict <- req

\* Every behaviour of the store, seen through Lifecycle, is one of the registry: the
\* life of a key is one-way, and a verdict is the key's status at one instant of the
\* request, whichever worker answers.
ImplementsRegistry == Registry!Spec
=============================================================================
