--------------------- MODULE NotebookCredentialsProofs ---------------------
(***************************************************************************)
(* Theorems about NotebookCredentials, for any processes, rules, roles and *)
(* times that satisfy CredentialsAssumption.                               *)
(***************************************************************************)
EXTENDS NotebookCredentials, AccessRulesProofs, FiniteSetTheorems

(* The inductive invariant.  Its parts look at a moment h: the clock, what *)
(* the administrators have done and which repo is open.                    *)

Moment == [now |-> now, rules |-> rules, replaced |-> replaced, roles |-> roles, lost |-> lost,
           opened |-> opened]

\* Roles that are still held at h or were lost at t - w at the earliest; rules likewise.
RolesSince(h, held, t, w) == \A r \in held : r \in h.roles \/ t <= h.lost[r] + w
RulesSince(h, ru, t, w) == ru = h.rules \/ t <= h.replaced[ru] + w

\* What a policy allows is permitted by rules and roles of which that is true.
Justified(h, policy, t, w) ==
  \E ru \in RuleSets, held \in SUBSET Roles :
    /\ RolesSince(h, held, t, w) /\ RulesSince(h, ru, t, w)
    /\ \A n \in Names : Allows(policy, n) => IsPermitted(ru, User(held), n)

\* A call that opens a repo names one, and is the notebook's, before anything is open; one
\* without a name renews credentials for what is open.  Only existing repos are listed.
CallShape(h, p, c) ==
  c # NoCall =>
    /\ c.sent <= h.now
    /\ c.name = {} \/ \E n \in Names : c.name = {n}
    /\ c.name = {} <=> h.opened # {}
    /\ c.name # {} => p = Notebook
    /\ c.stage \in {"listed", "answered"} => c.repos \subseteq Existing

\* The response rests on roles and rules that were in force when the request was sent or
\* later, and its credentials live CredTtl from some time in between.
CallJustified(h, c) ==
  /\ c.stage \in {"sent", "listed"} =>
       c.identity.is_authenticated /\ RolesSince(h, c.identity.roles, c.sent, 0)
  /\ c.stage = "listed" => RulesSince(h, c.rules, c.sent, 0)
  /\ c.stage = "answered" =>
       /\ Justified(h, c.body.policy, c.sent, 0)
       /\ c.body.exp <= h.now + CredTtl
       /\ c.body = NoBody \/ c.body.exp >= c.sent + CredTtl

\* Credentials in use rest on roles and rules that were in force Window before they expire
\* or later.
BodyOK(h, body) == body.exp <= h.now + CredTtl /\ Justified(h, body.policy, body.exp, Window)

\* No role has been lost and no rules have been replaced.
Undisturbed(h) == (\A r \in Roles : h.lost[r] = 0) /\ (\A ru \in RuleSets : h.replaced[ru] = 0)

Readable(policy, ns) == \A n \in ns : Allows(policy, n)
Permitted(h, identity, ns) == \A n \in ns : IsPermitted(h.rules, identity, n)

\* Then the identity of a call and its response can still read what is open and what the
\* response lists.
CallReadable(h, c) ==
  /\ c.stage \in {"sent", "listed"} =>
       c.identity.roles \subseteq h.roles /\ Permitted(h, c.identity, h.opened)
  /\ c.stage = "listed" => c.rules = h.rules /\ Permitted(h, c.identity, c.repos)
  /\ c.stage = "answered" => /\ Readable(c.body.policy, h.opened) /\ Readable(c.body.policy, c.repos)
                             /\ Permitted(h, User(h.roles), c.repos)

CallsOK == \A p \in Procs : /\ CallShape(Moment, p, call[p])
                            /\ CallJustified(Moment, call[p])

\* Nobody has credentials before the repo is open.
HeldOK == /\ BodyOK(Moment, initial) /\ \A p \in Procs : BodyOK(Moment, creds[p])
          /\ opened = {} => \A p \in Procs : creds[p] = NoBody

\* Changes lie in the past.
ChangesOK == (\A r \in Roles : lost[r] <= now) /\ (\A ru \in RuleSets : replaced[ru] <= now)

ReadableOK ==
  Undisturbed(Moment) =>
    /\ Permitted(Moment, User(roles), opened)
    /\ Readable(initial.policy, opened)
    /\ \A p \in Procs : /\ CallReadable(Moment, call[p])
                        /\ creds[p] # NoBody => Readable(creds[p].policy, opened)
                        /\ outcome[p] \notin {"denied", "refused"}

CredentialsInv == TypeOK /\ CallsOK /\ HeldOK /\ ChangesOK /\ ReadableOK

\* While nothing has changed, every call is decided by the same roles and rules: once one
\* of them has got credentials, the policy is known to fit.
Fits == ~TooLarge(PolicyFor(rules, User(roles)))

CallFits(c) ==
  /\ c.stage \in {"sent", "listed"} => c.identity = User(roles)
  /\ c.stage = "listed" => c.rules = rules
  /\ c.stage = "answered" => c.body = NoBody \/ Fits

FitsOK ==
  changes = 0 =>
    /\ Undisturbed(Moment)
    /\ opened # {} => Fits
    /\ \A p \in Procs : CallFits(call[p]) /\ outcome[p] # "too large"

Outcomes == {"none", "ok", "denied", "refused", "too large", "failed"}

----------------------------------------------------------------------------
(* Identities, policies and calls.                                         *)

SentCall == [stage : {"sent"}, name : SUBSET Names, sent : 1..MaxTime, identity : Identity]
ListedCall == [stage : {"listed"}, name : SUBSET Names, sent : 1..MaxTime, identity : Identity,
               rules : RuleSets, repos : SUBSET Names]
AnsweredCall == [stage : {"answered"}, name : SUBSET Names, sent : 1..MaxTime, repos : SUBSET Names,
                 body : Body]

\* A user that has logged in is an identity with the roles of that moment.
LEMMA UserIdentity ==
  ASSUME NEW held \in SUBSET Roles
  PROVE  User(held) \in Identity /\ User(held).is_authenticated /\ User(held).roles = held
  BY DEF User, Identity

\* A response without credentials reads nothing.
LEMMA NoBodyReadsNothing == NoBody.policy = {} /\ NoBody.exp = 0 /\ \A n : ~Allows({}, n)
  BY DEF NoBody, Allows

\* build_session_policy makes statements over names.
LEMMA PolicyStatements ==
  ASSUME NEW ru \in AllRules, NEW identity \in Identity
  PROVE  BuildSessionPolicy(PolicyFor(ru, identity)) \in SUBSET Statements
<1> DEFINE policy == PolicyFor(ru, identity)
           named == UNION {RepoPaths(repo) : repo \in policy.repos}
<1>1. named \in SUBSET Names
  BY DEF RepoPaths
<1>2. \/ BuildSessionPolicy(policy) =
           {[effect |-> "Allow", resource |-> Names], [effect |-> "Deny", resource |-> named]}
      \/ BuildSessionPolicy(policy) = {[effect |-> "Allow", resource |-> named]}
  BY DEF BuildSessionPolicy
<1> HIDE DEF named, policy
<1>3. /\ [effect |-> "Allow", resource |-> Names] \in Statements
      /\ [effect |-> "Deny", resource |-> named] \in Statements
      /\ [effect |-> "Allow", resource |-> named] \in Statements
  BY <1>1 DEF Statements
<1>4. BuildSessionPolicy(policy) \in SUBSET Statements
  BY <1>2, <1>3
<1> QED  BY <1>4 DEF policy

\* The server vends no credentials only to a user who may read nothing.
LEMMA NothingToVend ==
  ASSUME NEW ru \in AllRules, NEW identity \in Identity, NEW n \in Names,
         ~PolicyFor(ru, identity).deny_mode, PolicyFor(ru, identity).repos = {}
  PROVE  ~IsPermitted(ru, identity, n)
<1>1. ~HasDefault(ru, identity) /\ ReadableListed(ru, identity) = {}
  BY DEF PolicyFor
<1> QED  BY <1>1 DEF IsPermitted, ReadableListed

\* A call is idle, sent, listed or answered.
LEMMA CallTypes ==
  ASSUME TypeOK, NEW p \in Procs
  PROVE  /\ call \in [Procs -> {NoCall} \cup Call] /\ call[p] \in {NoCall} \cup Call
         /\ call[p].stage = "sent" => call[p] \in SentCall
         /\ call[p].stage = "listed" => call[p] \in ListedCall
         /\ call[p].stage = "answered" => call[p] \in AnsweredCall
         /\ call[p] = NoCall <=> call[p].stage = "idle"
<1>1. call \in [Procs -> {NoCall} \cup Call] /\ call[p] \in {NoCall} \cup Call
  BY DEF TypeOK
<1>2. call[p] = NoCall \/ call[p] \in SentCall \/ call[p] \in ListedCall \/ call[p] \in AnsweredCall
  BY <1>1 DEF Call, SentCall, ListedCall, AnsweredCall
<1>3. CASE call[p] = NoCall
  BY <1>1, <1>3 DEF NoCall
<1>4. CASE call[p] \in SentCall
  <2>1. call[p].stage = "sent"
    BY <1>4 DEF SentCall
  <2> QED  BY <1>1, <1>4, <2>1 DEF NoCall
<1>5. CASE call[p] \in ListedCall
  <2>1. call[p].stage = "listed"
    BY <1>5 DEF ListedCall
  <2> QED  BY <1>1, <1>5, <2>1 DEF NoCall
<1>6. CASE call[p] \in AnsweredCall
  <2>1. call[p].stage = "answered"
    BY <1>6 DEF AnsweredCall
  <2> QED  BY <1>1, <1>6, <2>1 DEF NoCall
<1> QED  BY <1>2, <1>3, <1>4, <1>5, <1>6

\* What the type invariant says of the clock and of the administration.
LEMMA AdminTypes ==
  ASSUME TypeOK
  PROVE  /\ now \in Nat /\ now >= 1 /\ now <= MaxTime
         /\ rules \in RuleSets /\ rules \in AllRules /\ roles \in SUBSET Roles
         /\ \A r \in Roles : lost[r] \in Nat
         /\ \A ru \in RuleSets : replaced[ru] \in Nat
<1>1. /\ now \in 1..MaxTime /\ rules \in RuleSets /\ replaced \in [RuleSets -> 0..MaxTime]
      /\ roles \subseteq Roles /\ lost \in [Roles -> 0..MaxTime]
  BY DEF TypeOK
<1> QED  BY <1>1, CredentialsAssumption

\* A call that ends leaves nothing to ask.
LEMMA IdleCall ==
  \A h, p : /\ CallShape(h, p, NoCall) /\ CallJustified(h, NoCall) /\ CallReadable(h, NoCall)
  BY DEF CallShape, CallJustified, CallReadable, NoCall

\* A step that changes one call keeps the invariant when the new call satisfies its part.
LEMMA CallStep ==
  ASSUME CredentialsInv, NEW p \in Procs, NEW c \in {NoCall} \cup Call,
         call' = [call EXCEPT ![p] = c], UNCHANGED <<now, admin, client>>,
         CallShape(Moment, p, c), CallJustified(Moment, c),
         Undisturbed(Moment) => CallReadable(Moment, c)
  PROVE  CredentialsInv'
<1>0. TypeOK /\ CallsOK /\ HeldOK /\ ChangesOK /\ ReadableOK
  BY DEF CredentialsInv
<1>1. UNCHANGED <<now, rules, replaced, roles, lost, changes, opened, initial, creds, outcome>>
  BY DEF admin, client
<1>2. Moment' = Moment
  BY <1>1 DEF Moment
<1>3. /\ call' \in [Procs -> {NoCall} \cup Call] /\ call'[p] = c
      /\ \A u \in Procs : u # p => call'[u] = call[u]
  BY <1>0 DEF TypeOK
<1>4. TypeOK'
  BY <1>0, <1>1, <1>3 DEF TypeOK
<1>5. CallsOK'
  BY <1>0, <1>2, <1>3 DEF CallsOK
<1>6. HeldOK' /\ ChangesOK'
  BY <1>0, <1>1, <1>2 DEF HeldOK, ChangesOK
<1>7. ReadableOK'
  BY <1>0, <1>1, <1>2, <1>3 DEF ReadableOK
<1> QED  BY <1>4, <1>5, <1>6, <1>7 DEF CredentialsInv

----------------------------------------------------------------------------
(* The client sends a request, and the server answers it.                  *)

\* A request carries the roles of the moment it is sent.
LEMMA SendStep ==
  ASSUME CredentialsInv, NEW p \in Procs, NEW name \in SUBSET Names,
         Send(p, name), UNCHANGED <<now, admin, client>>,
         name = {} \/ \E n \in Names : name = {n}, name = {} <=> opened # {}, name # {} => p = Notebook
  PROVE  CredentialsInv'
<1> DEFINE c == [stage |-> "sent", name |-> name, sent |-> now, identity |-> User(roles)]
<1>0. TypeOK /\ ReadableOK
  BY DEF CredentialsInv
<1>1. call' = [call EXCEPT ![p] = c]
  BY DEF Send
<1>2. now \in 1..MaxTime /\ now \in Nat /\ roles \in SUBSET Roles
  BY <1>0, AdminTypes DEF TypeOK
<1>3. User(roles) \in Identity /\ User(roles).is_authenticated /\ User(roles).roles = roles
  BY <1>2, UserIdentity
<1>4. c \in {NoCall} \cup Call
  BY <1>2, <1>3 DEF Call
<1>5. c.stage = "sent" /\ c.name = name /\ c.sent = now /\ c.identity = User(roles)
  OBVIOUS
<1> HIDE DEF c
<1>6. CallShape(Moment, p, c)
  BY <1>2, <1>5 DEF CallShape, Moment
<1>7. CallJustified(Moment, c)
  BY <1>3, <1>5 DEF CallJustified, RolesSince, Moment
<1>8. Undisturbed(Moment) => CallReadable(Moment, c)
  BY <1>0, <1>3, <1>5 DEF CallReadable, ReadableOK, Moment
<1> QED  BY <1>1, <1>4, <1>6, <1>7, <1>8, CallStep

\* The rules of the pod decide on the list of repos.
LEMMA ListStep ==
  ASSUME CredentialsInv, NEW p \in Procs, ListRepos(p)
  PROVE  CredentialsInv'
<1> DEFINE o == call[p]
           c == [stage |-> "listed", name |-> o.name, sent |-> o.sent, identity |-> o.identity,
                 rules |-> rules, repos |-> {n \in Existing : IsPermitted(rules, o.identity, n)}]
<1>0. TypeOK /\ CallsOK /\ ReadableOK
  BY DEF CredentialsInv
<1>1. call' = [call EXCEPT ![p] = c] /\ UNCHANGED <<now, admin, client>> /\ o.stage = "sent"
  BY DEF ListRepos
<1>2. o \in SentCall /\ rules \in RuleSets /\ o # NoCall
  BY <1>0, <1>1, CallTypes, AdminTypes DEF NoCall
<1>3. o.name \in SUBSET Names /\ o.sent \in 1..MaxTime /\ o.identity \in Identity
  BY <1>2 DEF SentCall
<1>4. c \in {NoCall} \cup Call
  BY <1>2, <1>3, CredentialsAssumption DEF Call
<1>5. /\ c.stage = "listed" /\ c.name = o.name /\ c.sent = o.sent /\ c.identity = o.identity
      /\ c.rules = rules /\ c.repos = {n \in Existing : IsPermitted(rules, o.identity, n)}
  OBVIOUS
<1> HIDE DEF c
<1>6. CallShape(Moment, p, o) /\ CallJustified(Moment, o) /\ (Undisturbed(Moment) => CallReadable(Moment, o))
  BY <1>0 DEF CallsOK, ReadableOK
<1>7. CallShape(Moment, p, c)
  BY <1>2, <1>5, <1>6 DEF CallShape
<1>8. CallJustified(Moment, c)
  BY <1>1, <1>5, <1>6 DEF CallJustified, RulesSince, Moment
<1>9. Undisturbed(Moment) => CallReadable(Moment, c)
  <2> SUFFICES ASSUME Undisturbed(Moment) PROVE CallReadable(Moment, c)
    OBVIOUS
  <2>1. o.identity.roles \subseteq roles /\ Permitted(Moment, o.identity, opened)
    BY <1>1, <1>6 DEF CallReadable, Moment
  <2>2. Permitted(Moment, o.identity, c.repos)
    BY <1>5 DEF Permitted, Moment
  <2> QED  BY <1>5, <2>1, <2>2 DEF CallReadable, Moment
<1> QED  BY <1>1, <1>4, <1>7, <1>8, <1>9, CallStep

\* A response rests on what the call was decided by.
LEMMA RespondStep ==
  ASSUME CredentialsInv, NEW p \in Procs, NEW body \in Body, call[p].stage = "listed",
         Respond(p, body), UNCHANGED <<now, admin, client>>,
         body = NoBody \/ body.exp = now + CredTtl,
         \A n \in Names : Allows(body.policy, n) <=> IsPermitted(call[p].rules, call[p].identity, n)
  PROVE  CredentialsInv'
<1> DEFINE o == call[p]
           c == [stage |-> "answered", name |-> o.name, sent |-> o.sent, repos |-> o.repos, body |-> body]
<1> USE CredentialsAssumption
<1>0. TypeOK /\ CallsOK /\ ReadableOK
  BY DEF CredentialsInv
<1>1. call' = [call EXCEPT ![p] = c]
  BY DEF Respond
<1>2. o \in ListedCall /\ o # NoCall
  BY <1>0, CallTypes DEF NoCall
<1>3. /\ o.name \in SUBSET Names /\ o.sent \in 1..MaxTime /\ o.identity \in Identity
      /\ o.rules \in RuleSets /\ o.rules \in AllRules /\ o.repos \in SUBSET Names /\ o.sent \in Nat
  BY <1>2 DEF ListedCall
<1>4. c \in {NoCall} \cup Call
  BY <1>3 DEF Call
<1>5. /\ c.stage = "answered" /\ c.name = o.name /\ c.sent = o.sent /\ c.repos = o.repos /\ c.body = body
  OBVIOUS
<1> HIDE DEF c
<1>6. CallShape(Moment, p, o) /\ CallJustified(Moment, o) /\ (Undisturbed(Moment) => CallReadable(Moment, o))
  BY <1>0 DEF CallsOK, ReadableOK
<1>7. CallShape(Moment, p, c)
  BY <1>2, <1>5, <1>6 DEF CallShape
<1>u. /\ o.identity.roles \in SUBSET Roles /\ o.identity.is_authenticated
      /\ o.identity = User(o.identity.roles)
  BY <1>3, <1>6 DEF CallJustified, Identity, User
<1>n. now \in Nat /\ roles \in SUBSET Roles /\ rules \in AllRules
  BY <1>0, AdminTypes
<1>8. CallJustified(Moment, c)
  <2>1. RolesSince(Moment, o.identity.roles, o.sent, 0) /\ RulesSince(Moment, o.rules, o.sent, 0)
    BY <1>6 DEF CallJustified
  <2>2. Justified(Moment, body.policy, o.sent, 0)
    BY <1>3, <1>u, <2>1 DEF Justified
  <2>3. o.sent <= now
    BY <1>2, <1>6 DEF CallShape, Moment
  <2>4. body.exp <= now + CredTtl /\ (body = NoBody \/ body.exp >= o.sent + CredTtl)
    BY <1>3, <1>n, <2>3, NoBodyReadsNothing
  <2> QED  BY <1>5, <2>2, <2>4 DEF CallJustified, Moment
<1>9. Undisturbed(Moment) => CallReadable(Moment, c)
  <2> SUFFICES ASSUME Undisturbed(Moment) PROVE CallReadable(Moment, c)
    OBVIOUS
  <2>1. /\ o.identity.roles \subseteq roles /\ o.rules = rules
        /\ \A n \in opened : IsPermitted(rules, o.identity, n)
        /\ \A n \in o.repos : IsPermitted(rules, o.identity, n)
    BY <1>6 DEF CallReadable, Permitted, Moment
  <2>2. opened \subseteq Names
    BY <1>0 DEF TypeOK
  <2>3. Readable(body.policy, opened) /\ Readable(body.policy, o.repos)
    BY <1>3, <2>1, <2>2 DEF Readable
  <2>4. \A n \in o.repos : IsPermitted(rules, User(roles), n)
    BY <1>3, <1>n, <1>u, <2>1, UserIdentity, RolesOnlyAdd
  <2> QED  BY <1>5, <2>3, <2>4 DEF CallReadable, Permitted, Moment
<1> QED  BY <1>1, <1>4, <1>7, <1>8, <1>9, CallStep

\* icechunk_credentials answers with credentials that fit the rules, or with none.
LEMMA ServerStep ==
  ASSUME CredentialsInv, NEW p \in Procs, ListRepos(p) \/ NoCredentials(p) \/ VendCredentials(p)
  PROVE  CredentialsInv'
<1> USE CredentialsAssumption
<1>0. TypeOK
  BY DEF CredentialsInv
<1> DEFINE ru == call[p].rules
           identity == call[p].identity
<1>1. ASSUME call[p].stage = "listed"
      PROVE  ru \in AllRules /\ identity \in Identity /\ identity.is_authenticated
  <2>1. call[p] \in ListedCall
    BY <1>0, <1>1, CallTypes
  <2>2. CallJustified(Moment, call[p])
    BY DEF CredentialsInv, CallsOK
  <2> QED  BY <1>1, <2>1, <2>2 DEF ListedCall, CallJustified
<1>2. CASE NoCredentials(p)
  <2>1. /\ call[p].stage = "listed" /\ Respond(p, NoBody) /\ UNCHANGED <<now, admin, client>>
        /\ ~PolicyFor(ru, identity).deny_mode /\ PolicyFor(ru, identity).repos = {}
    BY <1>2 DEF NoCredentials
  <2>2. NoBody \in Body
    BY NamesAssumption DEF NoBody, Body
  <2>3. \A n \in Names : ~IsPermitted(ru, identity, n)
    BY <1>1, <2>1, NothingToVend
  <2> HIDE DEF ru, identity
  <2>4. \A n \in Names : Allows(NoBody.policy, n) <=> IsPermitted(ru, identity, n)
    BY <2>3, NoBodyReadsNothing
  <2> QED  BY <2>1, <2>2, <2>4, RespondStep DEF ru, identity
<1>3. CASE VendCredentials(p)
  <2> DEFINE policy == BuildSessionPolicy(PolicyFor(ru, identity))
             body == [exp |-> now + CredTtl, policy |-> policy]
  <2>1. call[p].stage = "listed" /\ Respond(p, body) /\ UNCHANGED <<now, admin, client>>
    BY <1>3 DEF VendCredentials
  <2>2. now \in Nat /\ now <= MaxTime
    BY <1>0, AdminTypes
  <2>3. policy \in SUBSET Statements
    BY <1>1, <2>1, PolicyStatements
  <2>4. \A n \in Names : Allows(policy, n) <=> IsPermitted(ru, identity, n)
    BY <1>1, <2>1, PolicyMatchesRules
  <2> HIDE DEF policy
  <2>5. body \in Body /\ body.exp = now + CredTtl /\ body.policy = policy
    BY <2>2, <2>3 DEF Body
  <2> HIDE DEF body
  <2> QED  BY <2>1, <2>4, <2>5, RespondStep
<1> QED  BY <1>2, <1>3, ListStep

----------------------------------------------------------------------------
(* The client gets the response and uses it.                               *)

\* Credentials of a response that came in time rest on the last Window before their expiry.
LEMMA ResponseInTime ==
  ASSUME CredentialsInv, NEW p \in Procs, call[p].stage = "answered", InTime(p)
  PROVE  /\ BodyOK(Moment, call[p].body) /\ call[p].body \in Body
         /\ call[p].body = NoBody \/ call[p].body.exp > now + Margin
<1> USE CredentialsAssumption
<1> DEFINE c == call[p]
           body == call[p].body
<1>0. TypeOK /\ CallJustified(Moment, c)
  BY DEF CredentialsInv, CallsOK
<1>1. c \in AnsweredCall /\ now \in Nat
  BY <1>0, CallTypes, AdminTypes
<1>2. c.sent \in Nat /\ body \in Body /\ body.exp \in Nat
  BY <1>1 DEF AnsweredCall, Body
<1>3. /\ Justified(Moment, body.policy, c.sent, 0) /\ body.exp <= now + CredTtl
      /\ body = NoBody \/ body.exp >= c.sent + CredTtl
  BY <1>0 DEF CallJustified, Moment
<1>4. now <= c.sent + ReqTimeout
  BY DEF InTime
<1>5. Justified(Moment, body.policy, body.exp, Window)
  <2>1. PICK ru \in RuleSets, held \in SUBSET Roles :
             /\ RolesSince(Moment, held, c.sent, 0) /\ RulesSince(Moment, ru, c.sent, 0)
             /\ \A n \in Names : Allows(body.policy, n) => IsPermitted(ru, User(held), n)
    BY <1>3 DEF Justified
  <2>2. /\ \A r \in Roles : lost[r] \in Nat
        /\ \A x \in RuleSets : replaced[x] \in Nat
    BY <1>0, AdminTypes
  <2>3. body.exp <= c.sent + Window
    BY <1>1, <1>2, <1>3, <1>4 DEF Window
  <2>4. RolesSince(Moment, held, body.exp, Window)
    BY <1>2, <2>1, <2>2, <2>3 DEF RolesSince, Moment, Window
  <2>5. RulesSince(Moment, ru, body.exp, Window)
    BY <1>2, <2>1, <2>2, <2>3 DEF RulesSince, Moment, Window
  <2> QED  BY <2>1, <2>4, <2>5 DEF Justified
<1>6. body = NoBody \/ body.exp > now + Margin
  BY <1>1, <1>2, <1>3, <1>4
<1> QED  BY <1>2, <1>3, <1>5, <1>6 DEF BodyOK, Moment

\* A process puts credentials into use that it has got from a call or from the open.
LEMMA HoldStep ==
  ASSUME CredentialsInv, NEW p \in Procs, NEW body \in Body, NEW c \in {NoCall, call[p]},
         creds' = [creds EXCEPT ![p] = body], call' = [call EXCEPT ![p] = c],
         UNCHANGED <<now, admin, opened, initial, outcome>>,
         opened # {}, BodyOK(Moment, body), Undisturbed(Moment) => Readable(body.policy, opened)
  PROVE  CredentialsInv'
<1>0. TypeOK /\ CallsOK /\ HeldOK /\ ChangesOK /\ ReadableOK
  BY DEF CredentialsInv
<1>1. UNCHANGED <<now, rules, replaced, roles, lost, changes, opened, initial, outcome>>
  BY DEF admin
<1>2. Moment' = Moment
  BY <1>1 DEF Moment
<1>3. /\ creds' \in [Procs -> Body] /\ creds'[p] = body
      /\ \A u \in Procs : u # p => creds'[u] = creds[u]
  BY <1>0 DEF TypeOK
<1>4. call[p] \in {NoCall} \cup Call
  BY <1>0 DEF TypeOK
<1>5. /\ call' \in [Procs -> {NoCall} \cup Call] /\ call'[p] \in {NoCall, call[p]}
      /\ \A u \in Procs : u # p => call'[u] = call[u]
  BY <1>0, <1>4 DEF TypeOK
<1>6. \A u \in Procs : call'[u] \in {NoCall, call[u]}
  BY <1>5
<1>7. TypeOK'
  BY <1>0, <1>1, <1>3, <1>5 DEF TypeOK
<1>8. CallsOK'
  BY <1>0, <1>2, <1>6, IdleCall DEF CallsOK
<1>9. HeldOK' /\ ChangesOK'
  BY <1>0, <1>1, <1>2, <1>3 DEF HeldOK, ChangesOK
<1>10. ReadableOK'
  BY <1>0, <1>1, <1>2, <1>3, <1>6, IdleCall DEF ReadableOK
<1> QED  BY <1>7, <1>8, <1>9, <1>10 DEF CredentialsInv

\* The first response opens the repo: nobody else has a call under way.
LEMMA OpenStep ==
  ASSUME CredentialsInv, NEW p \in Procs, OpenGranted(p)
  PROVE  CredentialsInv'
<1> DEFINE c == call[p]
<1>0. TypeOK /\ CallsOK /\ HeldOK /\ ChangesOK /\ ReadableOK
  BY DEF CredentialsInv
<1>1. /\ c.stage = "answered" /\ InTime(p) /\ c.name # {} /\ c.name \subseteq c.repos
      /\ opened' = c.name /\ initial' = c.body /\ call' = [call EXCEPT ![p] = NoCall]
      /\ UNCHANGED <<now, rules, replaced, roles, lost, changes, creds, outcome>>
  BY DEF OpenGranted, admin
<1>2. c # NoCall /\ CallShape(Moment, p, c)
  BY <1>0, <1>1 DEF CallsOK, NoCall
<1>3. /\ opened = {} /\ p = Notebook /\ c.repos \subseteq Existing
      /\ \E n \in Names : c.name = {n}
  BY <1>1, <1>2 DEF CallShape, Moment
<1>4. \A u \in Procs : u # p => call[u] = NoCall
  <2>1. \A u \in Procs : CallShape(Moment, u, call[u])
    BY <1>0 DEF CallsOK
  <2> QED  BY <1>3, <2>1 DEF CallShape, Moment
<1>5. call' \in [Procs -> {NoCall} \cup Call] /\ \A u \in Procs : call'[u] = NoCall
  BY <1>0, <1>1, <1>4 DEF TypeOK
<1>6. BodyOK(Moment, c.body) /\ c.body \in Body
  BY <1>1, ResponseInTime
<1>7. Cardinality(opened') <= 1
  <2>1. PICK n \in Names : opened' = {n}
    BY <1>1, <1>3
  <2>2. Cardinality({n}) = 1
    BY FS_Singleton, Zenon
  <2>3. Cardinality(opened') = 1
    BY <2>1, <2>2
  <2> QED  BY <2>3
<1>8. TypeOK'
  BY <1>0, <1>1, <1>3, <1>5, <1>6, <1>7 DEF TypeOK
<1>9. CallsOK'
  BY <1>5, IdleCall DEF CallsOK
<1>10. \A b : BodyOK(Moment, b) => BodyOK(Moment', b)
  BY <1>1 DEF BodyOK, Justified, RolesSince, RulesSince, Moment
<1>11. HeldOK' /\ ChangesOK'
  <2>1. BodyOK(Moment', initial') /\ \A u \in Procs : BodyOK(Moment', creds'[u])
    BY <1>0, <1>1, <1>6, <1>10 DEF HeldOK
  <2>2. opened' # {}
    BY <1>1
  <2> QED  BY <1>0, <1>1, <2>1, <2>2 DEF HeldOK, ChangesOK
<1>12. ReadableOK'
  <2> SUFFICES ASSUME Undisturbed(Moment)'
               PROVE  /\ Permitted(Moment, User(roles), opened)'
                      /\ Readable(initial.policy, opened)'
                      /\ \A u \in Procs : /\ CallReadable(Moment, call[u])'
                                          /\ (creds[u] # NoBody => Readable(creds[u].policy, opened))'
                                          /\ outcome'[u] \notin {"denied", "refused"}
    BY DEF ReadableOK
  <2>1. Undisturbed(Moment)
    BY <1>1 DEF Undisturbed, Moment
  <2>2. CallReadable(Moment, c) /\ \A u \in Procs : outcome[u] \notin {"denied", "refused"}
    BY <1>0, <2>1 DEF ReadableOK
  <2>3. Readable(c.body.policy, c.repos) /\ \A n \in c.repos : IsPermitted(rules, User(roles), n)
    BY <1>1, <2>2 DEF CallReadable, Permitted, Moment
  <2>4. Permitted(Moment', User(roles'), opened')
    BY <1>1, <2>3 DEF Permitted, Moment
  <2>5. Readable(initial'.policy, opened')
    BY <1>1, <2>3 DEF Readable
  <2>6. \A u \in Procs : creds'[u] = NoBody
    BY <1>0, <1>1, <1>3 DEF HeldOK
  <2> QED  BY <1>1, <1>5, <2>2, <2>4, <2>5, <2>6, IdleCall
<1> QED  BY <1>8, <1>9, <1>11, <1>12 DEF CredentialsInv

\* A process notes how a read or a renewal ended.
LEMMA OutcomeStep ==
  ASSUME CredentialsInv, NEW p \in Procs, NEW o \in Outcomes,
         NEW c \in {NoCall, call[p]},
         outcome' = [outcome EXCEPT ![p] = o], call' = [call EXCEPT ![p] = c],
         UNCHANGED <<now, admin, opened, initial, creds>>,
         Undisturbed(Moment) => o \notin {"denied", "refused"}
  PROVE  CredentialsInv'
<1>0. TypeOK /\ CallsOK /\ HeldOK /\ ChangesOK /\ ReadableOK
  BY DEF CredentialsInv
<1>1. UNCHANGED <<now, rules, replaced, roles, lost, changes, opened, initial, creds>>
  BY DEF admin
<1>2. Moment' = Moment
  BY <1>1 DEF Moment
<1>3. /\ outcome' \in [Procs -> Outcomes] /\ outcome'[p] = o
      /\ \A u \in Procs : u # p => outcome'[u] = outcome[u]
  BY <1>0 DEF TypeOK, Outcomes
<1>4. call[p] \in {NoCall} \cup Call
  BY <1>0 DEF TypeOK
<1>5. call' \in [Procs -> {NoCall} \cup Call] /\ \A u \in Procs : call'[u] \in {NoCall, call[u]}
  BY <1>0, <1>4 DEF TypeOK
<1>7. TypeOK'
  BY <1>0, <1>1, <1>3, <1>5 DEF TypeOK, Outcomes
<1>8. CallsOK'
  BY <1>0, <1>2, <1>5, IdleCall DEF CallsOK
<1>9. HeldOK' /\ ChangesOK'
  BY <1>0, <1>1, <1>2 DEF HeldOK, ChangesOK
<1>10. ReadableOK'
  BY <1>0, <1>1, <1>2, <1>3, <1>5, IdleCall DEF ReadableOK
<1> QED  BY <1>7, <1>8, <1>9, <1>10 DEF CredentialsInv

\* The steps of the client.
LEMMA ClientStep ==
  ASSUME CredentialsInv,
         \/ \E name \in Names : OpenIcechunkRepo(name)
         \/ \E p \in Procs : \/ UseInitial(p) \/ Renew(p) \/ Read(p) \/ OpenGranted(p) \/ OpenRefused(p)
                             \/ Renewed(p) \/ RenewalRefused(p) \/ RefuseTooLarge(p) \/ Fail(p)
  PROVE  CredentialsInv'
<1> USE CredentialsAssumption
<1>0. TypeOK /\ CallsOK /\ HeldOK /\ ReadableOK
  BY DEF CredentialsInv
<1>1. ASSUME NEW name \in Names, OpenIcechunkRepo(name) PROVE CredentialsInv'
  <2>1. opened = {} /\ Send(Notebook, {name}) /\ UNCHANGED <<now, admin, client>>
    BY <1>1 DEF OpenIcechunkRepo
  <2> QED  BY <2>1, SendStep
<1>2. ASSUME NEW p \in Procs, Renew(p) PROVE CredentialsInv'
  <2>1. opened # {} /\ Send(p, {}) /\ UNCHANGED <<now, admin, client>>
    BY <1>2 DEF Renew, NeedsCredentials
  <2> QED  BY <2>1, SendStep
<1>3. ASSUME NEW p \in Procs, UseInitial(p) PROVE CredentialsInv'
  <2>1. /\ opened # {} /\ creds' = [creds EXCEPT ![p] = initial]
        /\ UNCHANGED <<now, admin, call, opened, initial, outcome>>
    BY <1>3 DEF UseInitial, NeedsCredentials
  <2>2. call' = [call EXCEPT ![p] = call[p]]
    BY <1>0, <2>1 DEF TypeOK
  <2>3. initial \in Body /\ BodyOK(Moment, initial) /\ (Undisturbed(Moment) => Readable(initial.policy, opened))
    BY <1>0 DEF TypeOK, HeldOK, ReadableOK
  <2> QED  BY <2>1, <2>2, <2>3, HoldStep
<1>4. ASSUME NEW p \in Procs, Renewed(p) PROVE CredentialsInv'
  <2>1. /\ call[p].stage = "answered" /\ InTime(p) /\ call[p].name = {}
        /\ creds' = [creds EXCEPT ![p] = call[p].body] /\ call' = [call EXCEPT ![p] = NoCall]
        /\ UNCHANGED <<now, admin, opened, initial, outcome>>
    BY <1>4 DEF Renewed
  <2>2. CallShape(Moment, p, call[p]) /\ (Undisturbed(Moment) => CallReadable(Moment, call[p]))
    BY <1>0 DEF CallsOK, ReadableOK
  <2>3. opened # {} /\ (Undisturbed(Moment) => Readable(call[p].body.policy, opened))
    BY <2>1, <2>2 DEF CallShape, CallReadable, NoCall, Moment
  <2>4. BodyOK(Moment, call[p].body) /\ call[p].body \in Body
    BY <2>1, ResponseInTime
  <2> QED  BY <2>1, <2>3, <2>4, HoldStep
<1>5. ASSUME NEW p \in Procs, RenewalRefused(p) PROVE CredentialsInv'
  <2>1. /\ call[p].stage = "answered" /\ call[p].name = {} /\ call[p].body = NoBody
        /\ outcome' = [outcome EXCEPT ![p] = "refused"] /\ call' = [call EXCEPT ![p] = NoCall]
        /\ UNCHANGED <<now, admin, opened, initial, creds>>
    BY <1>5 DEF RenewalRefused
  <2>2. CallShape(Moment, p, call[p]) /\ (Undisturbed(Moment) => CallReadable(Moment, call[p]))
    BY <1>0 DEF CallsOK, ReadableOK
  <2>3. opened # {} /\ (Undisturbed(Moment) => Readable(NoBody.policy, opened))
    BY <2>1, <2>2 DEF CallShape, CallReadable, NoCall, Moment
  <2>4. ~Undisturbed(Moment)
    BY <2>3, NoBodyReadsNothing DEF Readable
  <2>5. "refused" \in Outcomes
    BY DEF Outcomes
  <2> QED  BY <2>1, <2>4, <2>5, OutcomeStep
<1>6. ASSUME NEW p \in Procs, Read(p) PROVE CredentialsInv'
  <2> DEFINE o == IF \A n \in opened : Allows(creds[p].policy, n) THEN "ok" ELSE "denied"
  <2>1. /\ creds[p] # NoBody /\ outcome' = [outcome EXCEPT ![p] = o]
        /\ UNCHANGED <<now, admin, call, opened, initial, creds>>
    BY <1>6 DEF Read
  <2>2. call' = [call EXCEPT ![p] = call[p]]
    BY <1>0, <2>1 DEF TypeOK
  <2>3. o \in Outcomes
    BY DEF Outcomes
  <2>4. Undisturbed(Moment) => o = "ok"
    BY <1>0, <2>1 DEF ReadableOK, Readable
  <2> HIDE DEF o
  <2> QED  BY <2>1, <2>2, <2>3, <2>4, OutcomeStep
<1>7. ASSUME NEW p \in Procs, OpenRefused(p) PROVE CredentialsInv'
  <2>1. call' = [call EXCEPT ![p] = NoCall] /\ UNCHANGED <<now, admin, client>>
    BY <1>7 DEF OpenRefused
  <2> QED  BY <2>1, IdleCall, CallStep
<1>8. ASSUME NEW p \in Procs, RefuseTooLarge(p) \/ Fail(p) PROVE CredentialsInv'
  <2>1. PICK error \in {"too large", "failed"} : EndCall(p, error)
    BY <1>8 DEF RefuseTooLarge, Fail
  <2>2. call' = [call EXCEPT ![p] = NoCall] /\ UNCHANGED <<now, admin, opened, initial, creds>>
    BY <2>1 DEF EndCall
  <2>3. CASE call[p].name = {}
    <3>1. outcome' = [outcome EXCEPT ![p] = error] /\ error \in Outcomes /\ error \notin {"denied", "refused"}
      BY <2>1, <2>3 DEF EndCall, Outcomes
    <3> QED  BY <2>2, <3>1, OutcomeStep
  <2>4. CASE call[p].name # {}
    <3>1. UNCHANGED <<now, admin, client>>
      BY <2>1, <2>2, <2>4 DEF EndCall, client
    <3> QED  BY <2>2, <3>1, IdleCall, CallStep
  <2> QED  BY <2>3, <2>4
<1> QED  BY <1>1, <1>2, <1>3, <1>4, <1>5, <1>6, <1>7, <1>8, OpenStep

----------------------------------------------------------------------------
(* Administration and time.                                                *)

\* What time and administrators do: what was in force stays so, or is noted as lost now.
Later(h, k) ==
  /\ h.now <= k.now /\ k.opened = h.opened
  /\ \A r \in Roles : /\ r \in h.roles => r \in k.roles \/ h.now <= k.lost[r]
                      /\ h.lost[r] <= k.lost[r]
  /\ h.rules = k.rules \/ h.now <= k.replaced[h.rules]
  /\ \A ru \in RuleSets : h.replaced[ru] <= k.replaced[ru]

\* So what was justified stays justified.
LEMMA StaysJustified ==
  ASSUME TypeOK, TypeOK', Later(Moment, Moment')
  PROVE  \A t, w \in Nat : t <= now + w =>
           /\ \A held \in SUBSET Roles : RolesSince(Moment, held, t, w) => RolesSince(Moment', held, t, w)
           /\ \A ru \in RuleSets : RulesSince(Moment, ru, t, w) => RulesSince(Moment', ru, t, w)
           /\ \A policy : Justified(Moment, policy, t, w) => Justified(Moment', policy, t, w)
<1> SUFFICES ASSUME NEW t \in Nat, NEW w \in Nat, t <= now + w
             PROVE  /\ \A held \in SUBSET Roles : RolesSince(Moment, held, t, w) => RolesSince(Moment', held, t, w)
                    /\ \A ru \in RuleSets : RulesSince(Moment, ru, t, w) => RulesSince(Moment', ru, t, w)
                    /\ \A policy : Justified(Moment, policy, t, w) => Justified(Moment', policy, t, w)
  OBVIOUS
<1>1. /\ now \in Nat /\ now' \in Nat
      /\ \A r \in Roles : lost[r] \in Nat /\ lost'[r] \in Nat
      /\ \A ru \in RuleSets : replaced[ru] \in Nat /\ replaced'[ru] \in Nat
  <2>1. now' \in 1..MaxTime /\ replaced' \in [RuleSets -> 0..MaxTime] /\ lost' \in [Roles -> 0..MaxTime]
    BY DEF TypeOK
  <2> QED  BY <2>1, AdminTypes, CredentialsAssumption
<1>2. /\ \A r \in Roles : (r \in roles => r \in roles' \/ now <= lost'[r]) /\ lost[r] <= lost'[r]
      /\ rules = rules' \/ now <= replaced'[rules]
      /\ \A ru \in RuleSets : replaced[ru] <= replaced'[ru]
  BY DEF Later, Moment
<1>3. ASSUME NEW held \in SUBSET Roles, RolesSince(Moment, held, t, w)
      PROVE  RolesSince(Moment', held, t, w)
  <2> SUFFICES ASSUME NEW r \in held PROVE r \in roles' \/ t <= lost'[r] + w
    BY DEF RolesSince, Moment
  <2>1. r \in roles \/ t <= lost[r] + w
    BY <1>3 DEF RolesSince, Moment
  <2> QED  BY <1>1, <1>2, <2>1
<1>4. ASSUME NEW ru \in RuleSets, RulesSince(Moment, ru, t, w)
      PROVE  RulesSince(Moment', ru, t, w)
  <2> SUFFICES ru = rules' \/ t <= replaced'[ru] + w
    BY DEF RulesSince, Moment
  <2>1. ru = rules \/ t <= replaced[ru] + w
    BY <1>4 DEF RulesSince, Moment
  <2> QED  BY <1>1, <1>2, <2>1
<1>5. ASSUME NEW policy, Justified(Moment, policy, t, w) PROVE Justified(Moment', policy, t, w)
  BY <1>3, <1>4, <1>5 DEF Justified
<1> QED  BY <1>3, <1>4, <1>5

\* Nothing that the client has is disturbed by it.
LEMMA LaterStep ==
  ASSUME CredentialsInv, TypeOK', Later(Moment, Moment'), UNCHANGED <<call, client>>
  PROVE  CallsOK' /\ HeldOK'
<1> USE CredentialsAssumption
<1>0. TypeOK /\ CallsOK /\ HeldOK
  BY DEF CredentialsInv
<1>1. UNCHANGED <<call, opened, initial, creds>>
  BY DEF client
<1>2. now \in Nat /\ now' \in Nat /\ now <= now'
  <2>1. now' \in 1..MaxTime
    BY DEF TypeOK
  <2> QED  BY <1>0, <2>1, AdminTypes DEF Later, Moment
<1>3. ASSUME NEW b \in Body, BodyOK(Moment, b) PROVE BodyOK(Moment', b)
  <2>1. b.exp \in Nat /\ Window \in Nat
    BY DEF Body, Window
  <2>2. b.exp <= now + CredTtl /\ Justified(Moment, b.policy, b.exp, Window)
    BY <1>3 DEF BodyOK, Moment
  <2>3. b.exp <= now + Window /\ b.exp <= now' + CredTtl
    BY <1>2, <2>1, <2>2 DEF Window
  <2>4. Justified(Moment', b.policy, b.exp, Window)
    BY <1>0, <2>1, <2>2, <2>3, StaysJustified
  <2> QED  BY <2>3, <2>4 DEF BodyOK, Moment
<1>4. HeldOK'
  BY <1>0, <1>1, <1>3 DEF HeldOK, TypeOK
<1>5. ASSUME NEW p \in Procs PROVE CallShape(Moment', p, call[p]) /\ CallJustified(Moment', call[p])
  <2> DEFINE c == call[p]
  <2>1. CallShape(Moment, p, c) /\ CallJustified(Moment, c)
    BY <1>0 DEF CallsOK
  <2>2. CASE c = NoCall
    BY <2>2, IdleCall
  <2>3. CASE c # NoCall
    <3>1. c \in SentCall \/ c \in ListedCall \/ c \in AnsweredCall
      BY <1>0, <2>3, CallTypes DEF Call, SentCall, ListedCall, AnsweredCall
    <3>2. c.sent \in Nat
      BY <3>1 DEF SentCall, ListedCall, AnsweredCall
    <3>3. c.sent <= now /\ c.sent <= now'
      BY <1>2, <2>1, <2>3, <3>2 DEF CallShape, Moment
    <3>4. CallShape(Moment', p, c)
      BY <1>1, <2>1, <3>3 DEF CallShape, Moment
    <3>s. /\ \A held \in SUBSET Roles : RolesSince(Moment, held, c.sent, 0) => RolesSince(Moment', held, c.sent, 0)
          /\ \A ru \in RuleSets : RulesSince(Moment, ru, c.sent, 0) => RulesSince(Moment', ru, c.sent, 0)
          /\ \A policy : Justified(Moment, policy, c.sent, 0) => Justified(Moment', policy, c.sent, 0)
      <4>1. c.sent <= now + 0 /\ 0 \in Nat
        BY <1>2, <3>2, <3>3
      <4> HIDE DEF c
      <4> QED  BY <1>0, <3>2, <4>1, StaysJustified
    <3>5. c.stage \in {"sent", "listed"} => c.identity.roles \in SUBSET Roles
      BY <1>0, CallTypes DEF SentCall, ListedCall, Identity
    <3>6. c.stage \in {"sent", "listed"} =>
            c.identity.is_authenticated /\ RolesSince(Moment', c.identity.roles, c.sent, 0)
      BY <2>1, <3>5, <3>s DEF CallJustified
    <3>7. c.stage = "listed" => RulesSince(Moment', c.rules, c.sent, 0)
      BY <1>0, <2>1, <3>s, CallTypes DEF CallJustified, ListedCall
    <3>8. c.stage = "answered" => c.body.exp \in Nat
      BY <1>0, CallTypes DEF AnsweredCall, Body
    <3>9. c.stage = "answered" => /\ Justified(Moment', c.body.policy, c.sent, 0)
                                  /\ c.body.exp <= now' + CredTtl
                                  /\ c.body = NoBody \/ c.body.exp >= c.sent + CredTtl
      <4> SUFFICES ASSUME c.stage = "answered"
                   PROVE  /\ Justified(Moment', c.body.policy, c.sent, 0)
                          /\ c.body.exp <= now' + CredTtl
                          /\ c.body = NoBody \/ c.body.exp >= c.sent + CredTtl
        OBVIOUS
      <4>1. /\ Justified(Moment, c.body.policy, c.sent, 0) /\ c.body.exp <= now + CredTtl
            /\ c.body = NoBody \/ c.body.exp >= c.sent + CredTtl
        BY <2>1 DEF CallJustified, Moment
      <4>2. Justified(Moment', c.body.policy, c.sent, 0)
        BY <3>s, <4>1
      <4> QED  BY <1>2, <3>8, <4>1, <4>2
    <3> QED  BY <3>4, <3>6, <3>7, <3>9 DEF CallJustified, Moment
  <2> QED  BY <2>2, <2>3
<1>6. CallsOK'
  BY <1>1, <1>5 DEF CallsOK
<1> QED  BY <1>4, <1>6

\* The steps of the administrators and of the clock.
LEMMA AdminStep ==
  ASSUME CredentialsInv,
         (\E ru \in RuleSets : Redeploy(ru)) \/ (\E r \in Roles : GrantRole(r) \/ RevokeRole(r)) \/ Tick
  PROVE  CredentialsInv'
<1> USE CredentialsAssumption
<1>0. TypeOK /\ CallsOK /\ HeldOK /\ ChangesOK /\ ReadableOK
  BY DEF CredentialsInv
<1>t. /\ now \in Nat /\ now >= 1 /\ now <= MaxTime /\ rules \in RuleSets /\ roles \in SUBSET Roles
      /\ \A r \in Roles : lost[r] \in Nat
      /\ \A ru \in RuleSets : replaced[ru] \in Nat
      /\ replaced \in [RuleSets -> 0..MaxTime] /\ lost \in [Roles -> 0..MaxTime] /\ changes \in 0..MaxChanges
  BY <1>0, AdminTypes DEF TypeOK
<1>1. ASSUME NEW ru \in RuleSets, Redeploy(ru) PROVE CredentialsInv'
  <2>1. /\ changes < MaxChanges /\ changes' = changes + 1 /\ rules' = ru
        /\ replaced' = [replaced EXCEPT ![rules] = now]
        /\ UNCHANGED <<now, roles, lost, call, opened, initial, creds, outcome>>
        /\ UNCHANGED <<call, client>>
    BY <1>1 DEF Redeploy, client
  <2>2. replaced' \in [RuleSets -> 0..MaxTime] /\ changes' \in 0..MaxChanges
    BY <1>t, <2>1
  <2>3. TypeOK'
    BY <1>0, <2>1, <2>2 DEF TypeOK
  <2>4. replaced'[rules] = now /\ \A x \in RuleSets : x # rules => replaced'[x] = replaced[x]
    BY <1>t, <2>1
  <2>5. ChangesOK'
    BY <1>0, <1>t, <2>1, <2>4 DEF ChangesOK
  <2>6. Later(Moment, Moment')
    BY <1>0, <1>t, <2>1, <2>4 DEF Later, Moment, ChangesOK
  <2>7. ~Undisturbed(Moment')
    BY <1>t, <2>4 DEF Undisturbed, Moment
  <2>8. ReadableOK'
    BY <2>7 DEF ReadableOK
  <2> QED  BY <2>1, <2>3, <2>5, <2>6, <2>8, LaterStep DEF CredentialsInv
<1>2. ASSUME NEW r \in Roles, GrantRole(r) PROVE CredentialsInv'
  <2>1. /\ changes < MaxChanges /\ changes' = changes + 1 /\ roles' = roles \cup {r}
        /\ UNCHANGED <<now, rules, replaced, lost, call, opened, initial, creds, outcome>>
        /\ UNCHANGED <<call, client>>
    BY <1>2 DEF GrantRole, client
  <2>2. changes' \in 0..MaxChanges
    BY <1>t, <2>1
  <2>3. TypeOK'
    BY <1>0, <2>1, <2>2 DEF TypeOK
  <2>4. ChangesOK'
    BY <1>0, <2>1 DEF ChangesOK
  <2>5. Later(Moment, Moment')
    BY <1>t, <2>1 DEF Later, Moment
  <2>6. ASSUME NEW ns \in SUBSET Names, \A n \in ns : IsPermitted(rules, User(roles), n)
        PROVE  \A n \in ns : IsPermitted(rules', User(roles'), n)
    <3>1. rules \in AllRules /\ roles' \in SUBSET Roles /\ rules' = rules
      BY <1>t, <2>1
    <3>2. /\ User(roles) \in Identity /\ User(roles).is_authenticated /\ User(roles).roles = roles
          /\ User(roles') \in Identity /\ User(roles').is_authenticated /\ User(roles').roles = roles'
      BY <1>t, <3>1, UserIdentity
    <3>3. User(roles).roles \subseteq User(roles').roles
      BY <2>1, <3>2
    <3> QED  BY <2>6, <3>1, <3>2, <3>3, RolesOnlyAdd
  <2>7. ReadableOK'
    <3> SUFFICES ASSUME Undisturbed(Moment')
                 PROVE  /\ Permitted(Moment', User(roles'), opened')
                        /\ Readable(initial'.policy, opened')
                        /\ \A p \in Procs : /\ CallReadable(Moment', call'[p])
                                            /\ creds'[p] # NoBody => Readable(creds'[p].policy, opened')
                                            /\ outcome'[p] \notin {"denied", "refused"}
      BY DEF ReadableOK
    <3>1. Undisturbed(Moment)
      BY <2>1 DEF Undisturbed, Moment
    <3>2. /\ Permitted(Moment, User(roles), opened) /\ Readable(initial.policy, opened)
          /\ \A p \in Procs : /\ CallReadable(Moment, call[p])
                              /\ creds[p] # NoBody => Readable(creds[p].policy, opened)
                              /\ outcome[p] \notin {"denied", "refused"}
      BY <1>0, <3>1 DEF ReadableOK
    <3>3. opened \subseteq Names
      BY <1>0 DEF TypeOK
    <3>4. Permitted(Moment', User(roles'), opened')
      BY <2>1, <2>6, <3>2, <3>3 DEF Permitted, Moment
    <3>5. ASSUME NEW p \in Procs PROVE CallReadable(Moment', call[p])
      <4> DEFINE c == call[p]
      <4>1. CallReadable(Moment, c)
        BY <3>2
      <4>2. c.stage \in {"sent", "listed"} =>
              c.identity.roles \subseteq roles' /\ Permitted(Moment', c.identity, opened')
        BY <2>1, <4>1 DEF CallReadable, Permitted, Moment
      <4>3. c.stage = "listed" => c.rules = rules' /\ Permitted(Moment', c.identity, c.repos)
        BY <2>1, <4>1 DEF CallReadable, Permitted, Moment
      <4>4. c.stage = "answered" => /\ Readable(c.body.policy, opened') /\ Readable(c.body.policy, c.repos)
                                    /\ c.repos \in SUBSET Names
                                    /\ \A n \in c.repos : IsPermitted(rules, User(roles), n)
        BY <1>0, <2>1, <4>1, CallTypes DEF CallReadable, Permitted, Moment, AnsweredCall
      <4>5. c.stage = "answered" => Permitted(Moment', User(roles'), c.repos)
        BY <2>6, <4>4 DEF Permitted, Moment
      <4> QED  BY <4>2, <4>3, <4>4, <4>5 DEF CallReadable, Moment
    <3> QED  BY <2>1, <3>2, <3>4, <3>5
  <2> QED  BY <2>1, <2>3, <2>4, <2>5, <2>7, LaterStep DEF CredentialsInv
<1>3. ASSUME NEW r \in Roles, RevokeRole(r) PROVE CredentialsInv'
  <2>1. /\ changes < MaxChanges /\ changes' = changes + 1 /\ roles' = roles \ {r}
        /\ lost' = [lost EXCEPT ![r] = now]
        /\ UNCHANGED <<now, rules, replaced, call, opened, initial, creds, outcome>>
        /\ UNCHANGED <<call, client>>
    BY <1>3 DEF RevokeRole, client
  <2>2. lost' \in [Roles -> 0..MaxTime] /\ changes' \in 0..MaxChanges
    BY <1>t, <2>1
  <2>3. TypeOK'
    BY <1>0, <2>1, <2>2 DEF TypeOK
  <2>4. lost'[r] = now /\ \A x \in Roles : x # r => lost'[x] = lost[x]
    BY <1>t, <2>1
  <2>5. ChangesOK'
    BY <1>0, <1>t, <2>1, <2>4 DEF ChangesOK
  <2>6. Later(Moment, Moment')
    BY <1>0, <1>t, <2>1, <2>4 DEF Later, Moment, ChangesOK
  <2>7. ~Undisturbed(Moment')
    BY <1>t, <2>4 DEF Undisturbed, Moment
  <2>8. ReadableOK'
    BY <2>7 DEF ReadableOK
  <2> QED  BY <2>1, <2>3, <2>5, <2>6, <2>8, LaterStep DEF CredentialsInv
<1>4. CASE Tick
  <2>1. /\ now < MaxTime /\ now' = now + 1
        /\ UNCHANGED <<rules, replaced, roles, lost, changes, call, opened, initial, creds, outcome>>
        /\ UNCHANGED <<call, client>>
    BY <1>4 DEF Tick, admin, client
  <2>2. now' \in 1..MaxTime
    BY <1>t, <2>1
  <2>3. TypeOK'
    BY <1>0, <2>1, <2>2 DEF TypeOK
  <2>4. ChangesOK'
    BY <1>0, <1>t, <2>1 DEF ChangesOK
  <2>5. Later(Moment, Moment')
    BY <1>t, <2>1 DEF Later, Moment
  <2>6. ReadableOK'
    BY <1>0, <2>1 DEF ReadableOK, Undisturbed, Permitted, CallReadable, Moment
  <2> QED  BY <2>1, <2>3, <2>4, <2>5, <2>6, LaterStep DEF CredentialsInv
<1> QED  BY <1>1, <1>2, <1>3, <1>4

----------------------------------------------------------------------------
(* The invariant and what follows from it.                                 *)

\* The initial state satisfies the invariant.
LEMMA CredentialsInit == Init => CredentialsInv
<1> SUFFICES ASSUME Init PROVE CredentialsInv
  OBVIOUS
<1> USE CredentialsAssumption
<1>1. NoBody \in Body /\ NoBody.exp = 0 /\ NoBody.policy = {}
  BY NamesAssumption DEF NoBody, Body
<1>2. \A p \in Procs : call[p] = NoCall /\ creds[p] = NoBody /\ outcome[p] = "none"
  BY DEF Init
<1>3. Cardinality(opened) = 0
  BY FS_EmptySet DEF Init
<1>4. TypeOK
  <2>1. /\ now \in 1..MaxTime /\ rules \in RuleSets /\ replaced \in [RuleSets -> 0..MaxTime]
        /\ roles \subseteq Roles /\ lost \in [Roles -> 0..MaxTime] /\ changes \in 0..MaxChanges
    BY DEF Init
  <2>2. call \in [Procs -> {NoCall} \cup Call] /\ outcome \in [Procs -> Outcomes]
    BY DEF Init, Outcomes
  <2>3. initial \in Body /\ creds \in [Procs -> Body]
    BY <1>1 DEF Init
  <2>4. opened \subseteq Existing /\ Cardinality(opened) <= 1
    BY <1>3 DEF Init
  <2> QED  BY <2>1, <2>2, <2>3, <2>4 DEF TypeOK, Outcomes
<1>5. CallsOK
  BY <1>2, IdleCall DEF CallsOK
<1>6. BodyOK(Moment, NoBody)
  <2>1. Justified(Moment, {}, 0, Window)
    <3>1. rules \in RuleSets /\ {} \in SUBSET Roles
      BY DEF Init
    <3>2. RolesSince(Moment, {}, 0, Window) /\ RulesSince(Moment, rules, 0, Window)
      BY DEF RolesSince, RulesSince, Moment
    <3> QED  BY <3>1, <3>2, NoBodyReadsNothing DEF Justified
  <2> QED  BY <1>1, <2>1 DEF BodyOK, Moment, Init
<1>7. HeldOK /\ ChangesOK
  BY <1>2, <1>6 DEF HeldOK, ChangesOK, Init
<1>8. ReadableOK
  BY <1>2, IdleCall DEF ReadableOK, Permitted, Readable, Init
<1> QED  BY <1>4, <1>5, <1>7, <1>8 DEF CredentialsInv

\* Every step keeps it.
LEMMA CredentialsStep == CredentialsInv /\ [Next]_vars => CredentialsInv'
<1> SUFFICES ASSUME CredentialsInv, [Next]_vars PROVE CredentialsInv'
  OBVIOUS
<1>1. CASE Next
  BY <1>1, AdminStep, ClientStep, ServerStep DEF Next
<1>2. CASE UNCHANGED vars
  <2>1. UNCHANGED <<now, rules, replaced, roles, lost, changes, call, opened, initial, creds, outcome>>
    BY <1>2 DEF vars, admin, client
  <2>2. Moment' = Moment
    BY <2>1 DEF Moment
  <2>3. TypeOK'
    BY <2>1 DEF CredentialsInv, TypeOK
  <2>4. CallsOK' /\ HeldOK' /\ ChangesOK' /\ ReadableOK'
    BY <2>1, <2>2 DEF CredentialsInv, CallsOK, HeldOK, ChangesOK, ReadableOK
  <2> QED  BY <2>3, <2>4 DEF CredentialsInv
<1> QED  BY <1>1, <1>2

\* The invariant holds in every reachable state.
LEMMA CredentialsInvariance == Spec => []CredentialsInv
  BY CredentialsInit, CredentialsStep, PTL DEF Spec

\* The rules, the calls and the credentials in use are well typed, and at most one existing
\* repo is open.
THEOREM CredentialsTypes == Spec => []TypeOK
<1>1. CredentialsInv => TypeOK
  BY DEF CredentialsInv
<1> QED  BY <1>1, CredentialsInvariance, PTL

\* Whatever roles and rules an administrator takes away, and however late a response arrives
\* or a process takes over the first one: credentials that work read only what the roles and
\* rules of the last ReqTimeout + CredTtl permit.
THEOREM RevocationReaches == Spec => []RevocationReachesNotebooks
<1>1. CredentialsInv => RevocationReachesNotebooks
  <2> SUFFICES ASSUME CredentialsInv, NEW p \in Procs, NEW n \in Names,
                      now < creds[p].exp, Allows(creds[p].policy, n)
               PROVE  \E ru \in RecentRules : IsPermitted(ru, User(RecentRoles), n)
    BY DEF RevocationReachesNotebooks
  <2> USE CredentialsAssumption
  <2>0. TypeOK /\ BodyOK(Moment, creds[p])
    BY DEF CredentialsInv, HeldOK
  <2>1. PICK ru \in RuleSets, held \in SUBSET Roles :
             /\ RolesSince(Moment, held, creds[p].exp, Window) /\ RulesSince(Moment, ru, creds[p].exp, Window)
             /\ \A m \in Names : Allows(creds[p].policy, m) => IsPermitted(ru, User(held), m)
    BY <2>0 DEF BodyOK, Justified
  <2>2. creds[p].exp \in Nat /\ Window \in Nat /\ now \in Nat
    <3>1. creds[p] \in Body
      BY <2>0 DEF TypeOK
    <3> QED  BY <2>0, <3>1, AdminTypes DEF Body, Window
  <2>3. (\A r \in Roles : lost[r] \in Nat) /\ (\A x \in RuleSets : replaced[x] \in Nat)
    BY <2>0, AdminTypes
  <2>4. held \subseteq RecentRoles
    <3> SUFFICES ASSUME NEW r \in held PROVE r \in RecentRoles
      OBVIOUS
    <3>1. r \in roles \/ creds[p].exp <= lost[r] + Window
      BY <2>1 DEF RolesSince, Moment
    <3> QED  BY <2>2, <2>3, <3>1 DEF RecentRoles
  <2>5. ru \in RecentRules
    <3>1. ru = rules \/ creds[p].exp <= replaced[ru] + Window
      BY <2>1 DEF RulesSince, Moment
    <3> QED  BY <2>2, <2>3, <3>1 DEF RecentRules
  <2>6. RecentRoles \in SUBSET Roles
    BY DEF RecentRoles
  <2>7. /\ User(held) \in Identity /\ User(held).is_authenticated /\ User(held).roles = held
        /\ User(RecentRoles) \in Identity /\ User(RecentRoles).is_authenticated
        /\ User(RecentRoles).roles = RecentRoles
    BY <2>6, UserIdentity
  <2>8. IsPermitted(ru, User(held), n) /\ ru \in AllRules
    BY <2>1
  <2>9. User(held).roles \subseteq User(RecentRoles).roles
    BY <2>4, <2>7
  <2>10. IsPermitted(ru, User(RecentRoles), n)
    BY <2>7, <2>8, <2>9, RolesOnlyAdd
  <2> QED  BY <2>5, <2>10
<1> QED  BY <1>1, CredentialsInvariance, PTL

\* While nothing changes, every step keeps what is known about the size of the policy.
LEMMA FitsStep == CredentialsInv /\ FitsOK /\ [Next]_vars => FitsOK'
<1> SUFFICES ASSUME CredentialsInv, FitsOK, [Next]_vars, changes' = 0
             PROVE  /\ Undisturbed(Moment)'
                    /\ opened' # {} => Fits'
                    /\ \A p \in Procs : CallFits(call[p])' /\ outcome'[p] # "too large"
  BY DEF FitsOK
<1> USE CredentialsAssumption
<1>0. TypeOK /\ CallsOK /\ ReadableOK
  BY DEF CredentialsInv
<1>1. UNCHANGED <<rules, replaced, roles, lost, changes>>
  <2>1. CASE \/ \E ru \in RuleSets : Redeploy(ru)
             \/ \E r \in Roles : GrantRole(r) \/ RevokeRole(r)
    <3>1. changes' = changes + 1
      BY <2>1 DEF Redeploy, GrantRole, RevokeRole
    <3>2. changes \in 0..MaxChanges
      BY <1>0 DEF TypeOK
    <3> QED  BY <3>1, <3>2
  <2>2. CASE UNCHANGED admin
    BY <2>2 DEF admin
  <2> QED  BY <2>1, <2>2 DEF Next, vars, Tick, OpenIcechunkRepo, UseInitial, Renew, Read, ListRepos,
              NoCredentials, VendCredentials, RefuseTooLarge, EndCall, OpenGranted, OpenRefused, Renewed,
              RenewalRefused, Fail
<1>2. /\ Undisturbed(Moment) /\ (opened # {} => Fits)
      /\ \A p \in Procs : CallFits(call[p]) /\ outcome[p] # "too large"
  BY <1>1 DEF FitsOK
<1>3. Undisturbed(Moment)' /\ Fits' = Fits /\ (\A c : CallFits(c) => CallFits(c)')
  BY <1>1, <1>2 DEF Undisturbed, Moment, Fits, CallFits
<1>4. CallFits(NoCall)
  BY DEF CallFits, NoCall
<1>5. ASSUME NEW p \in Procs, NEW c, call' = [call EXCEPT ![p] = c], CallFits(c)
      PROVE  \A u \in Procs : CallFits(call[u])'
  BY <1>0, <1>2, <1>3, <1>5 DEF TypeOK
<1>6. CASE UNCHANGED <<call, opened, outcome>>
  BY <1>2, <1>3, <1>6
<1>7. ASSUME NEW p \in Procs, NEW name, Send(p, name), UNCHANGED <<opened, outcome>>
      PROVE  \A u \in Procs : CallFits(call[u])'
  <2> DEFINE c == [stage |-> "sent", name |-> name, sent |-> now, identity |-> User(roles)]
  <2>1. call' = [call EXCEPT ![p] = c]
    BY <1>7 DEF Send
  <2>2. CallFits(c)
    BY DEF CallFits
  <2> HIDE DEF c
  <2> QED  BY <1>5, <2>1, <2>2
<1>8. ASSUME NEW p \in Procs, ListRepos(p) PROVE \A u \in Procs : CallFits(call[u])'
  <2> DEFINE o == call[p]
             c == [stage |-> "listed", name |-> o.name, sent |-> o.sent, identity |-> o.identity,
                   rules |-> rules, repos |-> {n \in Existing : IsPermitted(rules, o.identity, n)}]
  <2>1. call' = [call EXCEPT ![p] = c] /\ o.stage = "sent"
    BY <1>8 DEF ListRepos
  <2>2. c.stage = "listed" /\ c.identity = o.identity /\ c.rules = rules
    OBVIOUS
  <2>3. o.identity = User(roles)
    BY <1>2, <2>1 DEF CallFits
  <2> HIDE DEF c, o
  <2>4. CallFits(c)
    BY <2>2, <2>3 DEF CallFits
  <2> QED  BY <1>5, <2>1, <2>4
<1>9. ASSUME NEW p \in Procs, NEW body, Respond(p, body), body = NoBody \/ Fits
      PROVE  \A u \in Procs : CallFits(call[u])'
  <2> DEFINE o == call[p]
             c == [stage |-> "answered", name |-> o.name, sent |-> o.sent, repos |-> o.repos, body |-> body]
  <2>1. call' = [call EXCEPT ![p] = c]
    BY <1>9 DEF Respond
  <2>2. CallFits(c)
    BY <1>9 DEF CallFits
  <2> QED  BY <1>5, <2>1, <2>2
<1>10. ASSUME NEW p \in Procs, VendCredentials(p) PROVE \A u \in Procs : CallFits(call[u])'
  <2>1. PICK body : Respond(p, body)
    BY <1>10 DEF VendCredentials
  <2>2. call[p].stage = "listed" /\ ~TooLarge(PolicyFor(call[p].rules, call[p].identity))
    BY <1>10 DEF VendCredentials
  <2>3. Fits
    BY <1>2, <2>2 DEF Fits, CallFits
  <2> QED  BY <1>9, <2>1, <2>3
<1>11. ASSUME NEW p \in Procs, NEW error, EndCall(p, error), error = "too large" => call[p].name # {}
       PROVE  \A u \in Procs : CallFits(call[u])' /\ outcome'[u] # "too large"
  <2>1. /\ call' = [call EXCEPT ![p] = NoCall]
        /\ outcome' = IF call[p].name = {} THEN [outcome EXCEPT ![p] = error] ELSE outcome
    BY <1>11 DEF EndCall
  <2>2. \A u \in Procs : outcome'[u] # "too large"
    BY <1>0, <1>2, <1>11, <2>1 DEF TypeOK
  <2> QED  BY <1>4, <1>5, <2>1, <2>2
<1>12. ASSUME NEW p \in Procs, RefuseTooLarge(p) PROVE call[p].name # {}
  <2>1. call[p].stage = "listed" /\ TooLarge(PolicyFor(call[p].rules, call[p].identity))
    BY <1>12 DEF RefuseTooLarge
  <2>2. ~Fits
    BY <1>2, <2>1 DEF Fits, CallFits
  <2>3. CallShape(Moment, p, call[p]) /\ call[p] # NoCall
    BY <1>0, <2>1 DEF CallsOK, NoCall
  <2> QED  BY <1>2, <2>2, <2>3 DEF CallShape, Moment
<1>13. ASSUME NEW p \in Procs, OpenGranted(p)
       PROVE  Fits /\ \A u \in Procs : CallFits(call[u])'
  <2>1. /\ call[p].stage = "answered" /\ call[p].name # {} /\ call[p].name \subseteq call[p].repos
        /\ call' = [call EXCEPT ![p] = NoCall]
    BY <1>13 DEF OpenGranted
  <2>2. CallReadable(Moment, call[p])
    BY <1>0, <1>2 DEF ReadableOK
  <2>3. Readable(call[p].body.policy, call[p].repos)
    BY <2>1, <2>2 DEF CallReadable
  <2>4. call[p].body # NoBody
    BY <2>1, <2>3, NoBodyReadsNothing DEF Readable
  <2>5. Fits
    BY <1>2, <2>1, <2>4 DEF CallFits
  <2> QED  BY <1>4, <1>5, <2>1, <2>5
<1>14. CASE Next
  <2>1. CASE \E name \in Names : OpenIcechunkRepo(name)
    BY <1>2, <1>3, <1>7, <2>1 DEF OpenIcechunkRepo, client
  <2>2. CASE (\E ru \in RuleSets : Redeploy(ru)) \/ (\E r \in Roles : GrantRole(r) \/ RevokeRole(r)) \/ Tick
    BY <1>6, <2>2 DEF Redeploy, GrantRole, RevokeRole, Tick, client
  <2>3. ASSUME NEW p \in Procs, UseInitial(p) PROVE UNCHANGED <<call, opened, outcome>>
    BY <2>3 DEF UseInitial
  <2>4. ASSUME NEW p \in Procs, Renew(p) \/ ListRepos(p) \/ NoCredentials(p) \/ VendCredentials(p)
        PROVE  UNCHANGED <<opened, outcome>> /\ \A u \in Procs : CallFits(call[u])'
    <3>1. UNCHANGED <<opened, outcome>>
      BY <2>4 DEF Renew, ListRepos, NoCredentials, VendCredentials, client
    <3>2. Renew(p) => Send(p, {})
      BY DEF Renew
    <3>3. NoCredentials(p) => Respond(p, NoBody)
      BY DEF NoCredentials
    <3> QED  BY <1>7, <1>8, <1>9, <1>10, <2>4, <3>1, <3>2, <3>3
  <2>5. ASSUME NEW p \in Procs, RefuseTooLarge(p) \/ Fail(p)
        PROVE  UNCHANGED opened /\ \A u \in Procs : CallFits(call[u])' /\ outcome'[u] # "too large"
    <3>1. PICK error \in {"too large", "failed"} : EndCall(p, error) /\ (error = "too large" => RefuseTooLarge(p))
      BY <2>5 DEF RefuseTooLarge, Fail
    <3>2. UNCHANGED opened
      BY <3>1 DEF EndCall
    <3> QED  BY <1>11, <1>12, <3>1, <3>2
  <2>6. ASSUME NEW p \in Procs, OpenGranted(p)
        PROVE  UNCHANGED outcome /\ Fits /\ \A u \in Procs : CallFits(call[u])'
    BY <1>13, <2>6 DEF OpenGranted
  <2>7. ASSUME NEW p \in Procs, OpenRefused(p) \/ Renewed(p) \/ RenewalRefused(p) \/ Read(p)
        PROVE  UNCHANGED opened /\ \A u \in Procs : CallFits(call[u])' /\ outcome'[u] # "too large"
    <3>1. UNCHANGED opened /\ (call' = call \/ call' = [call EXCEPT ![p] = NoCall])
      BY <2>7 DEF OpenRefused, Renewed, RenewalRefused, Read, client
    <3>2. outcome' = outcome \/ \E o \in {"ok", "denied", "refused"} : outcome' = [outcome EXCEPT ![p] = o]
      BY <2>7 DEF OpenRefused, Renewed, RenewalRefused, Read, client
    <3>3. \A u \in Procs : outcome'[u] # "too large"
      BY <1>0, <1>2, <3>2 DEF TypeOK
    <3> QED  BY <1>2, <1>3, <1>4, <1>5, <3>1, <3>3
  <2> QED  BY <1>2, <1>3, <1>6, <1>14, <2>1, <2>2, <2>3, <2>4, <2>5, <2>6, <2>7 DEF Next
<1> QED  BY <1>6, <1>14 DEF vars, client

\* A repo that was opened stays readable through every renewal, in every process, as long as
\* no role is taken away and no rules are replaced: granted roles never hurt, except that
\* they may make the policy too large.
THEOREM OpenedStaysReadable == Spec => []StaysReadable
<1>1. Init => FitsOK
  BY DEF Init, FitsOK, Undisturbed, Moment, CallFits, NoCall
<1>2. Spec => []FitsOK
  BY <1>1, FitsStep, CredentialsInvariance, PTL DEF Spec
<1>3. CredentialsInv /\ FitsOK => StaysReadable
  <2> SUFFICES ASSUME CredentialsInv, FitsOK, Undisturbed(Moment)
               PROVE  \A p \in Procs : /\ outcome[p] \notin {"denied", "refused"}
                                       /\ outcome[p] = "too large" => changes > 0
    BY DEF StaysReadable, Undisturbed, Moment
  <2>1. changes \in 0..MaxChanges /\ MaxChanges \in Nat
    BY CredentialsAssumption DEF CredentialsInv, TypeOK
  <2>2. changes = 0 \/ changes > 0
    BY <2>1
  <2>3. \A p \in Procs : outcome[p] \notin {"denied", "refused"}
    BY DEF CredentialsInv, ReadableOK
  <2>4. changes = 0 => \A p \in Procs : outcome[p] # "too large"
    BY DEF FitsOK
  <2> QED  BY <2>2, <2>3, <2>4
<1> QED  BY <1>2, <1>3, CredentialsInvariance, PTL

\* The callback hands over only credentials that outlive the margin.
THEOREM NothingAboutToExpire == Spec => NeverAboutToExpire
<1>1. CredentialsInv /\ [Next]_vars =>
        \A p \in Procs : creds'[p] # creds[p] /\ creds'[p] # NoBody => creds'[p].exp > now + Margin
  <2> SUFFICES ASSUME CredentialsInv, [Next]_vars, NEW p \in Procs, creds'[p] # creds[p], creds'[p] # NoBody
               PROVE  creds'[p].exp > now + Margin
    OBVIOUS
  <2>0. TypeOK
    BY DEF CredentialsInv
  <2>1. PICK u \in Procs : UseInitial(u) \/ Renewed(u)
    BY DEF Next, vars, client, Redeploy, GrantRole, RevokeRole, Tick, OpenIcechunkRepo, Renew, Read, ListRepos,
       NoCredentials, VendCredentials, OpenGranted, OpenRefused, RenewalRefused, RefuseTooLarge, Fail, EndCall
  <2>2. CASE UseInitial(u)
    <3>1. creds' = [creds EXCEPT ![u] = initial] /\ InitialUsable
      BY <2>2 DEF UseInitial
    <3>2. creds'[p] = initial
      BY <2>0, <3>1 DEF TypeOK
    <3> QED  BY <3>1, <3>2 DEF InitialUsable
  <2>3. CASE Renewed(u)
    <3>1. creds' = [creds EXCEPT ![u] = call[u].body] /\ call[u].stage = "answered" /\ InTime(u)
      BY <2>3 DEF Renewed
    <3>2. creds'[p] = call[u].body
      BY <2>0, <3>1 DEF TypeOK
    <3>3. call[u].body = NoBody \/ call[u].body.exp > now + Margin
      BY <3>1, ResponseInTime
    <3> QED  BY <3>2, <3>3
  <2> QED  BY <2>1, <2>2, <2>3
<1> QED  BY <1>1, CredentialsInvariance, PTL DEF Spec, NeverAboutToExpire
=============================================================================
