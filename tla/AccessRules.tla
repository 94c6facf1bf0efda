---------------------------- MODULE AccessRules ----------------------------
(***************************************************************************)
(* Who may read which Icechunk repo: the rules of xpublish-api/src/authz.py *)
(* and the S3 session policy that xpublish-api/src/credentials.py builds   *)
(* from the same rules.  The module has no state; RequestGate and          *)
(* NotebookCredentials use it.                                             *)
(*                                                                         *)
(* A repo name is a stem followed by some number of "_data" suffixes, so   *)
(* <<"a", 1>> is "a_data", and <<s, i>> is a proper prefix of <<s, j>>     *)
(* when i < j.  Layers follow the same rules with a table of their own.    *)
(***************************************************************************)
EXTENDS Naturals, FiniteSets

CONSTANTS Stems,          \* names without a "_data" suffix
          MaxSuffix,      \* bound: "_data" suffixes of a name
          Roles,          \* realm roles of Keycloak
          MaxPolicyRepos  \* repos a session policy of MAX_SESSION_POLICY_CHARS can name

ASSUME NamesAssumption == MaxSuffix \in Nat /\ MaxPolicyRepos \in Nat

Names == Stems \X (0..MaxSuffix)

\* open: the rules set no default, so that unlisted repos are open to every user.
AllRules == [open : BOOLEAN, default : SUBSET Roles,
             items : UNION {[listed -> SUBSET Roles] : listed \in SUBSET Names}]

Identity == [is_authenticated : BOOLEAN, roles : SUBSET Roles]

----------------------------------------------------------------------------
HoldsAny(identity, roles) == identity.roles \cap roles # {}

HasDefault(rules, identity) ==
  identity.is_authenticated /\ (rules.open \/ HoldsAny(identity, rules.default))

IsPermitted(rules, identity, name) ==
  /\ identity.is_authenticated
  /\ IF name \in DOMAIN rules.items THEN HoldsAny(identity, rules.items[name])
                                    ELSE HasDefault(rules, identity)

UnreadableListed(rules, identity) ==
  {name \in DOMAIN rules.items : ~HoldsAny(identity, rules.items[name])}

ReadableListed(rules, identity) ==
  {name \in DOMAIN rules.items : HoldsAny(identity, rules.items[name])}

----------------------------------------------------------------------------
(* The session policy: statements over the names their patterns cover.     *)

PolicyFor(rules, identity) ==
  [deny_mode |-> HasDefault(rules, identity),
   repos |-> IF HasDefault(rules, identity) THEN UnreadableListed(rules, identity)
                                            ELSE ReadableListed(rules, identity)]

\* Without the final "/" a pattern also covers every name that it begins.
RepoPathsNoSlash(repo) == {name \in Names : name[1] = repo[1] /\ name[2] >= repo[2]}

\* "prefix/repo/*" covers the objects of one repo.
RepoPaths(repo) == {name \in Names : name = repo}

BuildSessionPolicy(policy) ==
  LET named == UNION {RepoPaths(repo) : repo \in policy.repos} IN
  IF policy.deny_mode
  THEN {[effect |-> "Allow", resource |-> Names], [effect |-> "Deny", resource |-> named]}
  ELSE {[effect |-> "Allow", resource |-> named]}

\* IAM: some statement allows the object and none denies it.
Allows(statements, name) ==
  /\ \E s \in statements : s.effect = "Allow" /\ name \in s.resource
  /\ \A s \in statements : s.effect = "Deny" => name \notin s.resource

TooLarge(policy) == Cardinality(policy.repos) > MaxPolicyRepos

----------------------------------------------------------------------------
(* Request paths.                                                          *)

\* "plugin": the tiles and EDR plugins ask the provider for the id of the path.
\* "custom": coords, variable-attrs, metadata and dataset-variables ask it for the id
\* with "_data" appended.  "other": any other path under /api/datasets.
Routes == {"plugin", "custom", "other"}

Stripped(id) == <<id[1], id[2] - 1>>
Appended(id) == <<id[1], id[2] + 1>>

\* Only the exact name is checked.
RepoCandidatesExact(id) == {id}

RepoCandidates(id) == {id} \cup IF id[2] > 0 THEN {Stripped(id)} ELSE {}

IsRequestPermitted(rules, identity, route, id) ==
  /\ route # "other"
  /\ \A name \in RepoCandidates(id) : IsPermitted(rules, identity, name)

DatasetAskedFor(route, id) == IF route = "plugin" THEN id ELSE Appended(id)

\* _cfg_for_dataset_id takes the first repo of the S3 listing that the id names; "a/"
\* is listed before "a_data/".
CfgForDatasetId(existing, id) ==
  IF id[2] > 0 /\ Stripped(id) \in existing THEN {Stripped(id)} ELSE {id} \cap existing
=============================================================================
