------------------------ MODULE NotebookCredentials ------------------------
(***************************************************************************)
(* Reading an Icechunk repo from a notebook on the remote platform: the    *)
(* credentials route of xpublish-api (icechunk_credentials in              *)
(* xpublish-api/src/main.py, xpublish-api/src/credentials.py) and the      *)
(* client that opens repos and renews credentials while it reads           *)
(* (jupyterhub-docker/icechunk_access/icechunk_access.py).                 *)
(*                                                                         *)
(* The notebook opens a repo, and the callback is pickled into other       *)
(* processes (Dask workers): each has the response the repo was opened     *)
(* with, and credentials of its own.                                       *)
(* Icechunk is external: it asks the callback for credentials when it has  *)
(* none or their expires_after has passed.  So are STS and Keycloak, whose *)
(* token is refreshed for every call and carries the roles of that moment. *)
(***************************************************************************)
EXTENDS AccessRules

CONSTANTS Procs,       \* processes that hold the callback
          Notebook,    \* the one of them that opens the repo
          Existing,    \* the repos the provider lists
          RuleSets,    \* rules that are deployed
          CredTtl,     \* CREDENTIALS_TTL_SECONDS, in ticks
          Margin,      \* EXPIRY_MARGIN, in ticks
          ReqTimeout,  \* timeout of the client's HTTP request, in ticks
          MaxTime,     \* bound: the clock stops here
          MaxChanges   \* bound: changes of the user's roles and of the rules

ASSUME CredentialsAssumption ==
  /\ Notebook \in Procs /\ Existing \subseteq Names
  /\ RuleSets \subseteq AllRules
  /\ CredTtl \in Nat /\ Margin \in Nat /\ ReqTimeout \in Nat
  /\ CredTtl > Margin + ReqTimeout
  /\ MaxTime \in Nat \ {0} /\ MaxChanges \in Nat

VARIABLES now,       \* the clock
          rules,     \* the rules the pods serve with
          replaced,  \* replaced[ru]: when rules ru were last replaced, 0 for never
          roles,     \* the user's realm roles in Keycloak
          lost,      \* lost[r]: when the user last lost role r, 0 for never
          changes,   \* changes of roles and rules so far
          call,      \* call[p]: the credentials request p has under way
          opened,    \* the repo that is open: a set of at most one name
          initial,   \* the response it was opened with
          creds,     \* creds[p]: the credentials Icechunk holds in p
          outcome    \* outcome[p]: how p's last read or renewal ended

admin == <<rules, replaced, roles, lost, changes>>
client == <<opened, initial, creds, outcome>>
vars == <<now, admin, call, client>>

\* A response without credentials has exp 0 and no statements.
NoBody == [exp |-> 0, policy |-> {}]
NoCall == [stage |-> "idle"]

User(held) == [is_authenticated |-> TRUE, roles |-> held]

Init ==
  /\ now = 1
  /\ rules \in RuleSets /\ replaced = [ru \in RuleSets |-> 0]
  /\ roles \in SUBSET Roles /\ lost = [r \in Roles |-> 0]
  /\ changes = 0
  /\ call = [p \in Procs |-> NoCall]
  /\ opened = {} /\ initial = NoBody
  /\ creds = [p \in Procs |-> NoBody]
  /\ outcome = [p \in Procs |-> "none"]

----------------------------------------------------------------------------
(* Administration and time.                                                *)

Redeploy(ru) ==
  /\ changes < MaxChanges /\ ru # rules
  /\ changes' = changes + 1
  /\ rules' = ru /\ replaced' = [replaced EXCEPT ![rules] = now]
  /\ UNCHANGED <<now, roles, lost, call, client>>

GrantRole(r) ==
  /\ changes < MaxChanges /\ r \notin roles
  /\ changes' = changes + 1
  /\ roles' = roles \cup {r}
  /\ UNCHANGED <<now, rules, replaced, lost, call, client>>

RevokeRole(r) ==
  /\ changes < MaxChanges /\ r \in roles
  /\ changes' = changes + 1
  /\ roles' = roles \ {r} /\ lost' = [lost EXCEPT ![r] = now]
  /\ UNCHANGED <<now, rules, replaced, call, client>>

Tick ==
  /\ now < MaxTime
  /\ now' = now + 1
  /\ UNCHANGED <<admin, call, client>>

----------------------------------------------------------------------------
(* The client sends a request: _bearer_token, then the POST.               *)

Send(p, name) ==
  call' = [call EXCEPT ![p] = [stage |-> "sent", name |-> name, sent |-> now, identity |-> User(roles)]]

OpenIcechunkRepo(name) ==
  /\ opened = {} /\ call[Notebook] = NoCall
  /\ Send(Notebook, {name})
  /\ UNCHANGED <<now, admin, client>>

ExpiresAfter(body) == body.exp - Margin

\* Icechunk calls IcechunkCredentials in p.
NeedsCredentials(p) ==
  /\ opened # {} /\ call[p] = NoCall
  /\ creds[p] = NoBody \/ ExpiresAfter(creds[p]) <= now

\* Credentials are handed over until they expire.
InitialUsableToTheEnd == now < initial.exp

\* The response of the open is good while it outlives the margin.
InitialUsable == initial.exp > now + Margin

UseInitial(p) ==
  /\ NeedsCredentials(p) /\ InitialUsable
  /\ creds' = [creds EXCEPT ![p] = initial]
  /\ UNCHANGED <<now, admin, call, opened, initial, outcome>>

Renew(p) ==
  /\ NeedsCredentials(p) /\ ~InitialUsable
  /\ Send(p, {})
  /\ UNCHANGED <<now, admin, client>>

----------------------------------------------------------------------------
(* The server: icechunk_credentials.                                       *)

\* The rules of the pod decide which repos are listed in the response.
ListRepos(p) ==
  /\ call[p].stage = "sent"
  /\ call' = [call EXCEPT ![p] =
       [stage |-> "listed", name |-> @.name, sent |-> @.sent, identity |-> @.identity,
        rules |-> rules, repos |-> {n \in Existing : IsPermitted(rules, @.identity, n)}]]
  /\ UNCHANGED <<now, admin, client>>

Respond(p, body) ==
  call' = [call EXCEPT ![p] =
    [stage |-> "answered", name |-> @.name, sent |-> @.sent, repos |-> @.repos, body |-> body]]

\* No statement would allow anything: a response without credentials.
NoCredentials(p) ==
  /\ call[p].stage = "listed"
  /\ LET policy == PolicyFor(call[p].rules, call[p].identity) IN
       ~policy.deny_mode /\ policy.repos = {}
  /\ Respond(p, NoBody)
  /\ UNCHANGED <<now, admin, client>>

\* The margin is added to the life of the credentials.
VendWithMargin(p) ==
  LET policy == PolicyFor(call[p].rules, call[p].identity) IN
  /\ call[p].stage = "listed"
  /\ policy.deny_mode \/ policy.repos # {}
  /\ ~TooLarge(policy)
  /\ Respond(p, [exp |-> now + CredTtl + Margin, policy |-> BuildSessionPolicy(policy)])
  /\ UNCHANGED <<now, admin, client>>

\* STS assumes the role with the session policy.
VendCredentials(p) ==
  LET policy == PolicyFor(call[p].rules, call[p].identity) IN
  /\ call[p].stage = "listed"
  /\ policy.deny_mode \/ policy.repos # {}
  /\ ~TooLarge(policy)
  /\ Respond(p, [exp |-> now + CredTtl, policy |-> BuildSessionPolicy(policy)])
  /\ UNCHANGED <<now, admin, client>>

\* The request ends with an error.  A renewal that does leaves Icechunk without credentials,
\* and the read that needed them raises.
EndCall(p, error) ==
  /\ call' = [call EXCEPT ![p] = NoCall]
  /\ outcome' = IF call[p].name = {} THEN [outcome EXCEPT ![p] = error] ELSE outcome
  /\ UNCHANGED <<now, admin, opened, initial, creds>>

\* PolicyTooLargeError.
RefuseTooLarge(p) ==
  /\ call[p].stage = "listed"
  /\ TooLarge(PolicyFor(call[p].rules, call[p].identity))
  /\ EndCall(p, "too large")

----------------------------------------------------------------------------
(* The client gets the response, or an error.                              *)

InTime(p) == now <= call[p].sent + ReqTimeout

OpenGranted(p) ==
  /\ call[p].stage = "answered" /\ InTime(p)
  /\ call[p].name # {} /\ call[p].name \subseteq call[p].repos
  /\ opened' = call[p].name /\ initial' = call[p].body
  /\ call' = [call EXCEPT ![p] = NoCall]
  /\ UNCHANGED <<now, admin, creds, outcome>>

OpenRefused(p) ==
  /\ call[p].stage = "answered" /\ InTime(p)
  /\ call[p].name # {} /\ ~(call[p].name \subseteq call[p].repos)
  /\ call' = [call EXCEPT ![p] = NoCall]
  /\ UNCHANGED <<now, admin, client>>

Renewed(p) ==
  /\ call[p].stage = "answered" /\ InTime(p)
  /\ call[p].name = {} /\ call[p].body # NoBody
  /\ creds' = [creds EXCEPT ![p] = call[p].body]
  /\ call' = [call EXCEPT ![p] = NoCall]
  /\ UNCHANGED <<now, admin, opened, initial, outcome>>

RenewalRefused(p) ==
  /\ call[p].stage = "answered" /\ InTime(p)
  /\ call[p].name = {} /\ call[p].body = NoBody
  /\ outcome' = [outcome EXCEPT ![p] = "refused"]
  /\ call' = [call EXCEPT ![p] = NoCall]
  /\ UNCHANGED <<now, admin, opened, initial, creds>>

\* STS refuses, the Keycloak session has ended, the request times out or its answer is lost.
Fail(p) == call[p] # NoCall /\ EndCall(p, "failed")

\* Icechunk reads with credentials whose expires_after has not passed.
Read(p) ==
  /\ opened # {} /\ call[p] = NoCall
  /\ creds[p] # NoBody /\ now < ExpiresAfter(creds[p])
  /\ outcome' = [outcome EXCEPT ![p] =
       IF \A n \in opened : Allows(creds[p].policy, n) THEN "ok" ELSE "denied"]
  /\ UNCHANGED <<now, admin, call, opened, initial, creds>>

----------------------------------------------------------------------------
Next ==
  \/ \E ru \in RuleSets : Redeploy(ru)
  \/ \E r \in Roles : GrantRole(r) \/ RevokeRole(r)
  \/ Tick
  \/ \E name \in Names : OpenIcechunkRepo(name)
  \/ \E p \in Procs :
       \/ UseInitial(p) \/ Renew(p) \/ Read(p)
       \/ ListRepos(p) \/ NoCredentials(p) \/ VendCredentials(p) \/ RefuseTooLarge(p)
       \/ OpenGranted(p) \/ OpenRefused(p) \/ Renewed(p) \/ RenewalRefused(p) \/ Fail(p)

Spec == Init /\ [][Next]_vars

----------------------------------------------------------------------------
(* Properties.                                                             *)

Statements == [effect : {"Allow", "Deny"}, resource : SUBSET Names]
Body == [exp : 0..(MaxTime + CredTtl), policy : SUBSET Statements]
Call ==
  [stage : {"sent"}, name : SUBSET Names, sent : 1..MaxTime, identity : Identity] \cup
  [stage : {"listed"}, name : SUBSET Names, sent : 1..MaxTime, identity : Identity,
   rules : RuleSets, repos : SUBSET Names] \cup
  [stage : {"answered"}, name : SUBSET Names, sent : 1..MaxTime, repos : SUBSET Names, body : Body]

\* Type correctness of the rules and roles, of the calls and of the credentials in use.
TypeOK ==
  /\ now \in 1..MaxTime
  /\ rules \in RuleSets /\ replaced \in [RuleSets -> 0..MaxTime]
  /\ roles \subseteq Roles /\ lost \in [Roles -> 0..MaxTime]
  /\ changes \in 0..MaxChanges
  /\ call \in [Procs -> {NoCall} \cup Call]
  /\ opened \subseteq Existing /\ Cardinality(opened) <= 1
  /\ initial \in Body /\ creds \in [Procs -> Body]
  /\ outcome \in [Procs -> {"none", "ok", "denied", "refused", "too large", "failed"}]

\* The longest that credentials can outlive the roles and rules they come from.
Window == ReqTimeout + CredTtl
RecentRoles == {r \in Roles : r \in roles \/ now < lost[r] + Window}
RecentRules == {ru \in RuleSets : ru = rules \/ now < replaced[ru] + Window}

\* Credentials that still work in some process, renewed or taken over from the open,
\* read only repos that the roles and the rules of the last Window permit: what an
\* administrator takes away is gone from every notebook when the credentials issued
\* before have expired.
RevocationReachesNotebooks ==
  \A p \in Procs, n \in Names :
    now < creds[p].exp /\ Allows(creds[p].policy, n)
      => \E ru \in RecentRules : IsPermitted(ru, User(RecentRoles), n)

\* As long as nobody takes away a role or changes the rules, a repo that was opened stays
\* readable: no renewal ends without credentials or with credentials that do not read it,
\* although the list of repos and the policy are computed apart, and a granted role may
\* turn an allow policy into a deny policy.  What is left are the errors of STS, Keycloak
\* and the network, and a policy that grows too large, which takes a granted role.
StaysReadable ==
  (\A r \in Roles : lost[r] = 0) /\ (\A ru \in RuleSets : replaced[ru] = 0)
    => \A p \in Procs : /\ outcome[p] \notin {"denied", "refused"}
                        /\ outcome[p] = "too large" => changes > 0

\* The callback never hands over credentials that are about to expire, however long
\* the response took ("so a read never starts with credentials about to expire").
NeverAboutToExpire ==
  [][\A p \in Procs : creds'[p] # creds[p] /\ creds'[p] # NoBody
        => creds'[p].exp > now + Margin]_vars
=============================================================================
