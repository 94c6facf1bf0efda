---------------------------- MODULE RequestGate ----------------------------
(***************************************************************************)
(* A dataset request to xpublish-api: the middleware decides from the path *)
(* and the roles of the token, and the route handler then lets the         *)
(* provider resolve the dataset id against the repos that exist by then.   *)
(* Between the two, flows add and remove repos, an administrator changes   *)
(* groups and rules, and the user's token ages.                            *)
(*                                                                         *)
(* Requests share no state with each other, so one of them stands for all. *)
(* What the provider caches is the subject of DatasetProvider.             *)
(***************************************************************************)
EXTENDS AccessRules

CONSTANTS RuleSets,   \* rules that are deployed
          TokenTtl,   \* life of an access token, in ticks
          MaxTime     \* bound: the clock stops here

ASSUME GateAssumption ==
  RuleSets \subseteq AllRules /\ TokenTtl \in Nat \ {0} /\ MaxTime \in Nat \ {0}

VARIABLES rules,     \* access_rules of the pods that take new requests
          existing,  \* the repos the provider lists
          roles,     \* the user's realm roles in Keycloak
          lost,      \* lost[r]: when the user last lost role r, 0 for never
          now,       \* the clock
          token,     \* the access token: the roles it carries and its expiry
          req        \* the request

vars == <<rules, existing, roles, lost, now, token, req>>

NoToken == [roles |-> {}, exp |-> 0]
NoRequest == [stage |-> "idle"]
Request == [stage : {"passed", "opened", "notFound", "unauthorized", "forbidden"},
            route : Routes, id : Names, rules : RuleSets, identity : Identity, repo : SUBSET Names]

Init ==
  /\ rules \in RuleSets
  /\ existing = {}
  /\ roles \in SUBSET Roles
  /\ lost = [r \in Roles |-> 0]
  /\ now = 1
  /\ token = NoToken
  /\ req = NoRequest

----------------------------------------------------------------------------
(* What happens around the server.                                         *)

AddRepo(name) ==
  /\ existing' = existing \cup {name}
  /\ UNCHANGED <<rules, roles, lost, now, token, req>>

RemoveRepo(name) ==
  /\ existing' = existing \ {name}
  /\ UNCHANGED <<rules, roles, lost, now, token, req>>

\* The rules are read when a pod starts; a request in flight keeps those of its pod.
Redeploy(ru) ==
  /\ rules' = ru
  /\ UNCHANGED <<existing, roles, lost, now, token, req>>

GrantRole(r) ==
  /\ roles' = roles \cup {r}
  /\ UNCHANGED <<rules, existing, lost, now, token, req>>

RevokeRole(r) ==
  /\ r \in roles
  /\ roles' = roles \ {r}
  /\ lost' = [lost EXCEPT ![r] = now]
  /\ UNCHANGED <<rules, existing, now, token, req>>

\* Keycloak issues a token with the roles of this moment.
IssueToken ==
  /\ token' = [roles |-> roles, exp |-> now + TokenTtl]
  /\ UNCHANGED <<rules, existing, roles, lost, now, req>>

Tick ==
  /\ now < MaxTime
  /\ now' = now + 1
  /\ UNCHANGED <<rules, existing, roles, lost, token, req>>

----------------------------------------------------------------------------
(* The request.                                                            *)

\* A token is taken without a look at its expiry.
TokenUnchecked == token # NoToken

\* auth_middleware: no token, or one that has expired, is a 401.
TokenLives == now < token.exp

Authorize(route, id) ==
  LET identity == [is_authenticated |-> TRUE, roles |-> token.roles] IN
  /\ req = NoRequest
  /\ req' = [stage |-> CASE ~TokenLives -> "unauthorized"
                         [] TokenLives /\ IsRequestPermitted(rules, identity, route, id) -> "passed"
                         [] OTHER -> "forbidden",
             route |-> route, id |-> id, rules |-> rules, identity |-> identity, repo |-> {}]
  /\ UNCHANGED <<rules, existing, roles, lost, now, token>>

\* The handler: the provider resolves the id against the repos of now.
Handle ==
  LET cfg == CfgForDatasetId(existing, DatasetAskedFor(req.route, req.id)) IN
  /\ req.stage = "passed"
  /\ req' = [req EXCEPT !.stage = IF cfg = {} THEN "notFound" ELSE "opened", !.repo = cfg]
  /\ UNCHANGED <<rules, existing, roles, lost, now, token>>

Answer ==
  /\ req.stage \notin {"idle", "passed"}
  /\ req' = NoRequest
  /\ UNCHANGED <<rules, existing, roles, lost, now, token>>

----------------------------------------------------------------------------
Next ==
  \/ \E name \in Names : AddRepo(name) \/ RemoveRepo(name)
  \/ \E ru \in RuleSets : Redeploy(ru)
  \/ \E r \in Roles : GrantRole(r) \/ RevokeRole(r)
  \/ IssueToken
  \/ Tick
  \/ \E route \in Routes, id \in Names : Authorize(route, id)
  \/ Handle
  \/ Answer

Spec == Init /\ [][Next]_vars

----------------------------------------------------------------------------
(* Properties.                                                             *)

\* Type correctness of the rules, of the repos, of the token and of the request.
TypeOK ==
  /\ rules \in RuleSets
  /\ existing \subseteq Names
  /\ roles \subseteq Roles
  /\ lost \in [Roles -> 0..MaxTime]
  /\ now \in 1..MaxTime
  /\ token \in [roles : SUBSET Roles, exp : 0..(MaxTime + TokenTtl)]
  /\ req \in {NoRequest} \cup Request

Opened == req.stage = "opened"

\* The repo a request ends up reading is one its user may read, although it is chosen
\* after the check and against a list that may have changed since.  One case is left
\* out: a custom route appends "_data" after the check, and a repo so named is opened
\* although it was not checked, against request_target's own comment ("is checked
\* against both repos it could mean").
OpenedIsPermitted ==
  Opened => \A name \in req.repo :
              \/ IsPermitted(req.rules, req.identity, name)
              \/ req.route = "custom" /\ name = Appended(req.id)

\* The roles the user holds or lost no longer than a token's life ago.
RecentRoles == {r \in Roles : r \in roles \/ now < lost[r] + TokenTtl}

\* Losing a role takes effect within the life of a token: a request that passes is one
\* that the recent roles permit.
RevokedWithinTokenLife ==
  [][req = NoRequest /\ req'.stage = "passed"
       => IsRequestPermitted(rules, [is_authenticated |-> TRUE, roles |-> RecentRoles],
                             req'.route, req'.id)]_vars
=============================================================================
