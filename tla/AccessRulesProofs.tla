------------------------- MODULE AccessRulesProofs -------------------------
(***************************************************************************)
(* Theorems about the access rules, for every set of names and roles.      *)
(***************************************************************************)
EXTENDS AccessRules, TLAPS

\* The patterns of a policy cover exactly the repos it names: "a/" never covers
\* "a_data/".
LEMMA NamedRepos ==
  ASSUME NEW repos \in SUBSET Names, NEW n \in Names
  PROVE  n \in UNION {RepoPaths(repo) : repo \in repos} <=> n \in repos
  BY DEF RepoPaths

\* In deny mode everything but the named repos is allowed, in allow mode only they.
LEMMA PolicyMeaning ==
  ASSUME NEW policy \in [deny_mode : BOOLEAN, repos : SUBSET Names], NEW n \in Names
  PROVE  Allows(BuildSessionPolicy(policy), n) <=>
           IF policy.deny_mode THEN n \notin policy.repos ELSE n \in policy.repos
<1> DEFINE named == UNION {RepoPaths(repo) : repo \in policy.repos}
<1>1. n \in named <=> n \in policy.repos
  BY NamedRepos
<1>2. CASE policy.deny_mode
  <2>1. BuildSessionPolicy(policy) =
          {[effect |-> "Allow", resource |-> Names], [effect |-> "Deny", resource |-> named]}
    BY <1>2 DEF BuildSessionPolicy
  <2> HIDE DEF named
  <2>2. Allows(BuildSessionPolicy(policy), n) <=> n \notin named
    BY <2>1 DEF Allows
  <2> QED  BY <1>1, <1>2, <2>2
<1>3. CASE ~policy.deny_mode
  <2>1. BuildSessionPolicy(policy) = {[effect |-> "Allow", resource |-> named]}
    BY <1>3 DEF BuildSessionPolicy
  <2> HIDE DEF named
  <2>2. Allows(BuildSessionPolicy(policy), n) <=> n \in named
    BY <2>1 DEF Allows
  <2> QED  BY <1>1, <1>3, <2>2
<1> QED  BY <1>2, <1>3

\* The credentials a user gets read exactly the repos that the rules let the user read
\* over HTTP: policy_for and build_session_policy agree with is_permitted, listed or
\* not, with a default or without, for an empty list of roles too.
THEOREM PolicyMatchesRules ==
  ASSUME NEW rules \in AllRules, NEW identity \in Identity, identity.is_authenticated,
         NEW n \in Names
  PROVE  Allows(BuildSessionPolicy(PolicyFor(rules, identity)), n)
           <=> IsPermitted(rules, identity, n)
<1>1. PICK listed \in SUBSET Names : rules.items \in [listed -> SUBSET Roles]
  BY DEF AllRules
<1>2. DOMAIN rules.items = listed
  BY <1>1
<1>3. UnreadableListed(rules, identity) \in SUBSET Names /\ ReadableListed(rules, identity) \in SUBSET Names
  BY <1>2 DEF UnreadableListed, ReadableListed
<1>4. HasDefault(rules, identity) \in BOOLEAN
  BY DEF HasDefault, HoldsAny, AllRules, Identity
<1>5. PolicyFor(rules, identity) \in [deny_mode : BOOLEAN, repos : SUBSET Names]
  BY <1>3, <1>4 DEF PolicyFor
<1>6. Allows(BuildSessionPolicy(PolicyFor(rules, identity)), n) <=>
        IF PolicyFor(rules, identity).deny_mode THEN n \notin PolicyFor(rules, identity).repos
                                                ELSE n \in PolicyFor(rules, identity).repos
  BY <1>5, PolicyMeaning
<1>7. CASE HasDefault(rules, identity)
  BY <1>6, <1>7 DEF PolicyFor, UnreadableListed, IsPermitted
<1>8. CASE ~HasDefault(rules, identity)
  BY <1>6, <1>8 DEF PolicyFor, ReadableListed, IsPermitted
<1> QED  BY <1>7, <1>8

\* More roles never take a permission away, although they may turn the policy from
\* allow mode into deny mode.
THEOREM RolesOnlyAdd ==
  ASSUME NEW rules \in AllRules, NEW less \in Identity, NEW more \in Identity,
         less.is_authenticated, more.is_authenticated, less.roles \subseteq more.roles,
         NEW n \in Names, IsPermitted(rules, less, n)
  PROVE  IsPermitted(rules, more, n)
  BY DEF IsPermitted, HasDefault, HoldsAny

\* Whatever repos exist, the provider opens one that the gate has checked, unless a
\* custom route finds the id with "_data" appended.
LEMMA OpenedWasChecked ==
  ASSUME NEW existing \in SUBSET Names, NEW route \in Routes, NEW id \in Names,
         NEW name \in CfgForDatasetId(existing, DatasetAskedFor(route, id))
  PROVE  name \in RepoCandidates(id) \/ (route = "custom" /\ name = Appended(id)) \/ route = "other"
<1>1. id = <<id[1], id[2]>> /\ id[2] \in Nat
  BY NamesAssumption DEF Names
<1>2. CASE route = "plugin"
  BY <1>2 DEF CfgForDatasetId, DatasetAskedFor, RepoCandidates
<1>3. CASE route = "custom"
  <2>1. Stripped(Appended(id)) = id
    BY <1>1 DEF Stripped, Appended
  <2>2. DatasetAskedFor(route, id) = Appended(id)
    BY <1>3 DEF DatasetAskedFor
  <2> QED  BY <1>3, <2>1, <2>2 DEF CfgForDatasetId, RepoCandidates
<1> QED  BY <1>2, <1>3 DEF Routes
=============================================================================
