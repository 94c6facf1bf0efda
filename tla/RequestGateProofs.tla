------------------------- MODULE RequestGateProofs -------------------------
(***************************************************************************)
(* Theorems about RequestGate, for every set of names, roles and rules.    *)
(***************************************************************************)
EXTENDS RequestGate, AccessRulesProofs

\* A request that passed was permitted by the rules and the identity it keeps.
PassedIsPermitted ==
  req.stage = "passed" => IsRequestPermitted(req.rules, req.identity, req.route, req.id)

\* A role in the token that the user no longer holds was lost after the token was
\* issued.
TokenRolesRecent ==
  \A r \in token.roles : r \in roles \/ token.exp <= lost[r] + TokenTtl

\* A token ends at most TokenTtl from now.
TokenEnds == token.exp <= now + TokenTtl

GateInv == TypeOK /\ PassedIsPermitted /\ OpenedIsPermitted /\ TokenRolesRecent /\ TokenEnds

----------------------------------------------------------------------------
\* The first state satisfies the invariant.
LEMMA GateInit == Init => GateInv
<1> SUFFICES ASSUME Init PROVE GateInv
  OBVIOUS
<1>1. TypeOK
  BY GateAssumption DEF Init, TypeOK, NoToken
<1>2. req.stage = "idle"
  BY DEF Init, NoRequest
<1>3. TokenRolesRecent /\ TokenEnds
  BY GateAssumption DEF Init, NoToken, TokenRolesRecent, TokenEnds
<1> QED  BY <1>1, <1>2, <1>3 DEF GateInv, PassedIsPermitted, OpenedIsPermitted, Opened

\* The request of the next state, when the middleware has decided.
LEMMA AuthorizedRequest ==
  ASSUME TypeOK, NEW route \in Routes, NEW id \in Names, Authorize(route, id)
  PROVE  /\ req' \in Request
         /\ req'.stage # "opened"
         /\ req'.stage = "passed" =>
              /\ TokenLives
              /\ IsRequestPermitted(rules, [is_authenticated |-> TRUE, roles |-> token.roles], route, id)
         /\ req'.rules = rules /\ req'.route = route /\ req'.id = id
         /\ req'.identity = [is_authenticated |-> TRUE, roles |-> token.roles]
<1> DEFINE identity == [is_authenticated |-> TRUE, roles |-> token.roles]
           permitted == IsRequestPermitted(rules, identity, route, id)
           stage == CASE ~TokenLives -> "unauthorized"
                      [] TokenLives /\ permitted -> "passed"
                      [] OTHER -> "forbidden"
<1>1. identity \in Identity
  BY DEF TypeOK, Identity
<1>2. req' = [stage |-> stage, route |-> route, id |-> id, rules |-> rules,
              identity |-> identity, repo |-> {}]
  BY DEF Authorize
<1> HIDE DEF permitted
<1>3. /\ stage \in {"unauthorized", "passed", "forbidden"}
      /\ stage = "passed" => TokenLives /\ permitted
  OBVIOUS
<1> HIDE DEF stage, identity
<1>4. req' \in Request
  BY <1>1, <1>2, <1>3 DEF Request, TypeOK
<1>5. req'.stage = stage /\ req'.rules = rules /\ req'.route = route /\ req'.id = id
      /\ req'.identity = identity
  BY <1>2
<1> QED  BY <1>3, <1>4, <1>5 DEF permitted, identity

\* Every step keeps the invariant.
LEMMA GateStep == GateInv /\ [Next]_vars => GateInv'
<1> SUFFICES ASSUME GateInv, [Next]_vars PROVE GateInv'
  OBVIOUS
<1> USE GateAssumption
<1>0. TypeOK /\ PassedIsPermitted /\ OpenedIsPermitted /\ TokenRolesRecent /\ TokenEnds
  BY DEF GateInv
<1>r. ASSUME req' = req PROVE PassedIsPermitted' /\ OpenedIsPermitted'
  BY <1>0, <1>r DEF PassedIsPermitted, OpenedIsPermitted, Opened
<1>t. ASSUME token' = token, roles' = roles, lost' = lost PROVE TokenRolesRecent'
  BY <1>0, <1>t DEF TokenRolesRecent
<1>e. ASSUME token' = token, now' = now PROVE TokenEnds'
  BY <1>0, <1>e DEF TokenEnds
<1>1. ASSUME NEW name \in Names, AddRepo(name) \/ RemoveRepo(name) PROVE GateInv'
  <2>1. TypeOK'
    BY <1>0, <1>1 DEF TypeOK, AddRepo, RemoveRepo
  <2> QED  BY <1>1, <1>r, <1>e, <1>t, <2>1 DEF GateInv, AddRepo, RemoveRepo
<1>2. ASSUME NEW ru \in RuleSets, Redeploy(ru) PROVE GateInv'
  <2>1. TypeOK'
    BY <1>0, <1>2 DEF TypeOK, Redeploy
  <2> QED  BY <1>2, <1>r, <1>e, <1>t, <2>1 DEF GateInv, Redeploy
<1>3. ASSUME NEW r \in Roles, GrantRole(r) PROVE GateInv'
  <2>1. TypeOK'
    BY <1>0, <1>3 DEF TypeOK, GrantRole
  <2>2. TokenRolesRecent'
    BY <1>0, <1>3 DEF TokenRolesRecent, GrantRole
  <2> QED  BY <1>3, <1>r, <1>e, <2>1, <2>2 DEF GateInv, GrantRole
<1>4. ASSUME NEW r \in Roles, RevokeRole(r) PROVE GateInv'
  <2>1. TypeOK'
    BY <1>0, <1>4 DEF TypeOK, RevokeRole
  <2>2. TokenRolesRecent'
    BY <1>0, <1>4 DEF TokenRolesRecent, TokenEnds, RevokeRole, TypeOK
  <2> QED  BY <1>4, <1>r, <1>e, <2>1, <2>2 DEF GateInv, RevokeRole
<1>5. CASE IssueToken
  <2>1. TypeOK'
    BY <1>0, <1>5 DEF TypeOK, IssueToken
  <2>2. TokenRolesRecent' /\ TokenEnds'
    BY <1>0, <1>5 DEF TokenRolesRecent, TokenEnds, IssueToken, TypeOK
  <2> QED  BY <1>5, <1>r, <2>1, <2>2 DEF GateInv, IssueToken
<1>6. CASE Tick
  <2>1. TypeOK'
    BY <1>0, <1>6 DEF TypeOK, Tick
  <2>2. TokenEnds'
    BY <1>0, <1>6 DEF TokenEnds, TypeOK, Tick
  <2> QED  BY <1>6, <1>r, <1>t, <2>1, <2>2 DEF GateInv, Tick
<1>7. ASSUME NEW route \in Routes, NEW id \in Names, Authorize(route, id) PROVE GateInv'
  <2>1. /\ req' \in Request /\ req'.stage # "opened"
        /\ req'.stage = "passed" =>
             IsRequestPermitted(req'.rules, req'.identity, req'.route, req'.id)
    BY <1>0, <1>7, AuthorizedRequest
  <2>2. TypeOK'
    BY <1>0, <1>7, <2>1 DEF TypeOK, Authorize
  <2>3. PassedIsPermitted' /\ OpenedIsPermitted'
    BY <2>1 DEF PassedIsPermitted, OpenedIsPermitted, Opened
  <2> QED  BY <1>7, <1>e, <1>t, <2>2, <2>3 DEF GateInv, Authorize
<1>8. CASE Handle
  <2> DEFINE cfg == CfgForDatasetId(existing, DatasetAskedFor(req.route, req.id))
  <2>1. req.stage = "passed" /\ req \in Request
    BY <1>0, <1>8 DEF Handle, TypeOK, NoRequest
  <2>2. /\ req.route \in Routes /\ req.id \in Names
        /\ IsRequestPermitted(req.rules, req.identity, req.route, req.id)
    BY <1>0, <2>1 DEF Request, PassedIsPermitted
  <2>3. req.route # "other" /\ \A n \in RepoCandidates(req.id) : IsPermitted(req.rules, req.identity, n)
    BY <2>2 DEF IsRequestPermitted
  <2>4. \A n \in cfg : \/ IsPermitted(req.rules, req.identity, n)
                       \/ req.route = "custom" /\ n = Appended(req.id)
    BY <1>0, <2>2, <2>3, OpenedWasChecked DEF TypeOK
  <2>5. cfg \subseteq existing
    BY DEF CfgForDatasetId
  <2>6. req' = [req EXCEPT !.stage = IF cfg = {} THEN "notFound" ELSE "opened", !.repo = cfg]
    BY <1>8 DEF Handle
  <2> HIDE DEF cfg
  <2>7. /\ req' \in Request /\ req'.stage # "passed"
        /\ req'.repo = cfg /\ req'.route = req.route /\ req'.id = req.id
        /\ req'.rules = req.rules /\ req'.identity = req.identity
    BY <1>0, <2>1, <2>5, <2>6 DEF Request, TypeOK
  <2>8. TypeOK'
    BY <1>0, <1>8, <2>7 DEF TypeOK, Handle
  <2>9. PassedIsPermitted' /\ OpenedIsPermitted'
    BY <2>4, <2>7 DEF PassedIsPermitted, OpenedIsPermitted, Opened
  <2> QED  BY <1>8, <1>e, <1>t, <2>8, <2>9 DEF GateInv, Handle
<1>9. CASE Answer
  <2>1. TypeOK' /\ req'.stage = "idle"
    BY <1>0, <1>9 DEF TypeOK, Answer, NoRequest
  <2> QED  BY <1>9, <1>e, <1>t, <2>1 DEF GateInv, Answer, PassedIsPermitted, OpenedIsPermitted, Opened
<1>10. CASE UNCHANGED vars
  <2>1. TypeOK'
    BY <1>0, <1>10 DEF TypeOK, vars
  <2> QED  BY <1>10, <1>r, <1>e, <1>t, <2>1 DEF GateInv, vars
<1> QED  BY <1>1, <1>2, <1>3, <1>4, <1>5, <1>6, <1>7, <1>8, <1>9, <1>10 DEF Next

\* The invariant holds in every reachable state.
LEMMA GateInvariance == Spec => []GateInv
  BY GateInit, GateStep, PTL DEF Spec

\* What a request reads is permitted: the provider resolves the dataset id after the
\* gate, against repos that may have come and gone since, under rules that may have
\* been redeployed, and still opens only a repo that the gate has checked.
THEOREM GateSound == Spec => []OpenedIsPermitted
<1>1. GateInv => OpenedIsPermitted
  BY DEF GateInv
<1> QED  BY <1>1, GateInvariance, PTL

\* A role that was taken away opens nothing once the tokens issued before are over.
THEOREM RevocationTakesEffect == Spec => RevokedWithinTokenLife
<1>1. GateInv /\ [Next]_vars =>
        (req = NoRequest /\ req'.stage = "passed"
           => IsRequestPermitted(rules, [is_authenticated |-> TRUE, roles |-> RecentRoles],
                                 req'.route, req'.id))
  <2> SUFFICES ASSUME GateInv, [Next]_vars, req = NoRequest, req'.stage = "passed"
               PROVE  IsRequestPermitted(rules, [is_authenticated |-> TRUE, roles |-> RecentRoles],
                                         req'.route, req'.id)
    OBVIOUS
  <2>0. TypeOK /\ TokenRolesRecent /\ TokenEnds
    BY DEF GateInv
  <2>1. req.stage = "idle"
    BY DEF NoRequest
  <2>2. req' # req
    BY <2>1
  <2>3. PICK route \in Routes, id \in Names : Authorize(route, id)
    BY <2>1, <2>2 DEF Next, vars, AddRepo, RemoveRepo, Redeploy, GrantRole, RevokeRole, IssueToken,
       Tick, Handle, Answer
  <2> DEFINE carried == [is_authenticated |-> TRUE, roles |-> token.roles]
             recent == [is_authenticated |-> TRUE, roles |-> RecentRoles]
  <2>4. /\ TokenLives /\ req'.route = route /\ req'.id = id
        /\ IsRequestPermitted(rules, carried, route, id)
    BY <2>0, <2>3, AuthorizedRequest
  <2>5. token.roles \subseteq RecentRoles
    <3> SUFFICES ASSUME NEW r \in token.roles PROVE r \in RecentRoles
      OBVIOUS
    <3>1. r \in Roles /\ lost[r] \in Nat /\ now \in Nat /\ token.exp \in Nat
      BY <2>0, GateAssumption DEF TypeOK
    <3>2. r \in roles \/ token.exp <= lost[r] + TokenTtl
      BY <2>0 DEF TokenRolesRecent
    <3> QED  BY <2>4, <3>1, <3>2, GateAssumption DEF RecentRoles, TokenLives
  <2>6. rules \in AllRules /\ carried \in Identity /\ recent \in Identity
    BY <2>0, GateAssumption DEF TypeOK, Identity, RecentRoles
  <2>7. RepoCandidates(id) \subseteq Names
    BY NamesAssumption DEF RepoCandidates, Names, Stripped
  <2>8. ASSUME NEW n \in RepoCandidates(id) PROVE IsPermitted(rules, recent, n)
    <3>1. IsPermitted(rules, carried, n)
      BY <2>4 DEF IsRequestPermitted
    <3>2. carried.roles \subseteq recent.roles /\ carried.is_authenticated /\ recent.is_authenticated
      BY <2>5
    <3> HIDE DEF carried, recent
    <3> QED  BY <2>6, <2>7, <3>1, <3>2, RolesOnlyAdd
  <2> QED  BY <2>4, <2>8 DEF IsRequestPermitted
<1> QED  BY <1>1, GateInvariance, PTL DEF Spec, RevokedWithinTokenLife
=============================================================================
