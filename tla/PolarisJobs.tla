---------------------------- MODULE PolarisJobs ----------------------------
(***************************************************************************)
(* The jobs that bring a realm of Polaris in line with Keycloak and with   *)
(* the configured access rules (polaris-bootstrap/manifests): the          *)
(* bootstrap job, which runs at a deployment, and the principal sync, a    *)
(* script that the bootstrap calls and that a CronJob runs every five      *)
(* minutes.  A CronJob never overlaps itself (concurrencyPolicy Forbid),   *)
(* but it may overlap the bootstrap.                                       *)
(*                                                                         *)
(* A step is one HTTP call with the code up to the next one.  Meanwhile    *)
(* Keycloak's users and their roles change, other writers change the       *)
(* catalog, and any call may fail.  A script stops at the first failure    *)
(* and starts from the beginning when its pod is tried again, so that      *)
(* every call must tolerate finding its work done.                         *)
(***************************************************************************)
EXTENDS Naturals, FiniteSets

CONSTANTS Users,        \* Keycloak users, numbered in the order of their listing
          Services,     \* the static service principals, numbered in order too
          Roles,        \* realm roles
          ServiceRole,  \* ServiceRole[s]: the principal role that each gets
          Mapped,       \* the roles named teehr-* and iceberg-catalog-admin
          FirstUsers,   \* users enabled at the start
          FirstRoles,   \* FirstRoles[u]: their effective realm roles then
          Acl,          \* roles, namespaces and grants of acl-config.json, numbered in order
          PageSize,     \* max_per_page
          Modes,        \* kinds of behaviour under test, see mode
          BackoffLimit  \* restarts that Kubernetes gives a Job

ASSUME PolarisAssumption ==
  /\ Users \cup Services \subseteq Nat /\ IsFiniteSet(Users \cup Services)
  /\ Services \cap Users = {}
  /\ Mapped \subseteq Roles /\ ServiceRole \in [Services -> Roles] /\ FirstUsers \subseteq Users
  /\ FirstRoles \in [Users -> SUBSET Roles]
  /\ Acl \in Nat \ {0} /\ PageSize \in Nat \ {0}
  /\ Modes \subseteq [jobs : SUBSET {"cron", "bootstrap"}, changes : Nat, faults : Nat,
                     creates : [1..Acl -> SUBSET Roles], absent : SUBSET (1..Acl)]
  /\ BackoffLimit \in Nat
  /\ \A m \in Modes : m.changes + m.faults <= BackoffLimit \* restarts do not run out

VARIABLES mode,       \* the jobs that run, bounds on outside changes and failing calls, and of
                      \* the calls for Acl the principal roles that each creates and those on
                      \* a table that is not there
          status,     \* status[u]: a Keycloak user is "enabled", "disabled" or "absent"
          roles,      \* roles[u]: effective (composite) realm roles
          catalog,    \* the catalog's entityVersion and whose configuration it has
          granted,    \* how many of the calls for Acl have taken effect
          principals, \* Polaris principals
          principalRoles, \* Polaris principal roles
          bindings,   \* pairs of a principal and a principal role
          job,        \* job["cron"] and job["bootstrap"]
          changes, faults, \* so far
          restarts    \* restarts of the bootstrap's pod

keycloak == <<mode, status, roles>>
polaris == <<catalog, granted, principals, principalRoles, bindings>>
vars == <<keycloak, polaris, job, changes, faults, restarts>>

Jobs == {"cron", "bootstrap"}

Enabled == {u \in Users : status[u] = "enabled"}
Held == {p \in Users \X Roles : p[2] \in roles[p[1]]}

\* What the JWT mapper would grant to the users that can log in
Due == {p \in Enabled \X Mapped : p[2] \in roles[p[1]]}

\* first, page, short, left, role: locals of the sync; entity: the version read; call: the
\* next one for Acl.  For the properties: applied, whether this run has written the
\* catalog; conflict, whether another writer came between its two calls; seen, what was
\* held at some time during the run, and due, what was due all along; shifted, whether a
\* user left the listing.
NewRun(stage) ==
  [stage |-> stage, first |-> 0, page |-> {}, short |-> FALSE, left |-> {}, role |-> {},
   entity |-> 0, call |-> 1, applied |-> FALSE, conflict |-> FALSE,
   seen |-> Held, due |-> Due, shifted |-> FALSE]
Ended(stage) ==
  [NewRun(stage) EXCEPT !.seen = {}, !.due = {}]

Init ==
  /\ mode \in Modes
  /\ status = [u \in Users |-> IF u \in FirstUsers THEN "enabled" ELSE "absent"]
  /\ roles = FirstRoles
  /\ catalog \in [version : {0}, config : {"absent"}] \cup [version : {1}, config : {"other"}]
  /\ granted = 0
  /\ principals = {} /\ principalRoles = {} /\ bindings = {}
  /\ job = [j \in Jobs |-> Ended("idle")]
  /\ changes = 0 /\ faults = 0 /\ restarts = 0

----------------------------------------------------------------------------
(* sync_principals.py, for either job.                                     *)

\* The bootstrap goes on to the service principals, which take the place of a page.
EndSync(j, run) ==
  IF j = "cron" THEN Ended("done")
  ELSE [Ended(IF Services = {} THEN "done" ELSE "service") EXCEPT
          !.page = Services, !.applied = run.applied, !.conflict = run.conflict]

StartCron ==
  /\ "cron" \in mode.jobs
  /\ job["cron"].stage \in {"idle", "done", "failed"}
  /\ job' = [job EXCEPT !["cron"] = NewRun("page")]
  /\ UNCHANGED <<keycloak, polaris, changes, faults, restarts>>

Rank(u) == Cardinality({v \in Enabled : v <= u})
Page(first) == {u \in Enabled : Rank(u) \in (first + 1)..(first + PageSize)}

IterKeycloakUsersFirstPage(j) ==
  LET page == Page(job[j].first)
  IN /\ job[j].stage = "page"
     /\ job' = [job EXCEPT ![j] =
          IF page = {} THEN EndSync(j, @)
          ELSE [@ EXCEPT !.stage = "principal", !.page = page,
                         !.short = Cardinality(page) <= PageSize]]
     /\ UNCHANGED <<keycloak, polaris, changes, faults, restarts>>

\* iter_keycloak_users: a page is asked for when the previous one is used up.
IterKeycloakUsers(j) ==
  LET page == Page(job[j].first)
  IN /\ job[j].stage = "page"
     /\ job' = [job EXCEPT ![j] =
          IF page = {} THEN EndSync(j, @)
          ELSE [@ EXCEPT !.stage = "principal", !.page = page,
                         !.short = Cardinality(page) < PageSize]]
     /\ UNCHANGED <<keycloak, polaris, changes, faults, restarts>>

User(j) == CHOOSE u \in job[j].page : \A v \in job[j].page : u <= v

NextUser(j, run) ==
  LET rest == run.page \ {User(j)}
  IN CASE rest # {} -> [run EXCEPT !.stage = "principal", !.page = rest]
       [] rest = {} /\ run.short -> EndSync(j, run)
       [] OTHER -> [run EXCEPT !.stage = "page", !.page = {}, !.first = @ + PageSize]

EnsurePrincipalOnce(j) ==
  /\ job[j].stage = "principal"
  /\ principals' = principals \cup {User(j)}
  /\ job' = [job EXCEPT ![j] = IF User(j) \in principals THEN Ended("failed")
                               ELSE [@ EXCEPT !.stage = "composite"]]
  /\ UNCHANGED <<keycloak, catalog, granted, principalRoles, bindings, changes, faults, restarts>>

\* A principal that exists already is a 409, which counts as success.
EnsurePrincipal(j) ==
  /\ job[j].stage = "principal"
  /\ principals' = principals \cup {User(j)}
  /\ job' = [job EXCEPT ![j].stage = "composite"]
  /\ UNCHANGED <<keycloak, catalog, granted, principalRoles, bindings, changes, faults, restarts>>

GetEveryRealmRole(j) ==
  LET left == roles[User(j)]
  IN /\ job[j].stage = "composite"
     /\ status[User(j)] # "absent"
     /\ job' = [job EXCEPT ![j] = IF left = {} THEN NextUser(j, @)
                                  ELSE [@ EXCEPT !.stage = "role", !.left = left]]
     /\ UNCHANGED <<keycloak, polaris, changes, faults, restarts>>

GetKeycloakRealmRoles(j) ==
  LET left == roles[User(j)] \cap Mapped
  IN /\ job[j].stage = "composite"
     /\ status[User(j)] # "absent"
     /\ job' = [job EXCEPT ![j] = IF left = {} THEN NextUser(j, @)
                                  ELSE [@ EXCEPT !.stage = "role", !.left = left]]
     /\ UNCHANGED <<keycloak, polaris, changes, faults, restarts>>

\* The user is gone since the page was read: a 404, which ends the script.
UserGone(j) ==
  /\ job[j].stage = "composite"
  /\ status[User(j)] = "absent"
  /\ job' = [job EXCEPT ![j] = Ended("failed")]
  /\ UNCHANGED <<keycloak, polaris, changes, faults, restarts>>

EnsurePrincipalRole(j) ==
  /\ job[j].stage = "role"
  /\ \E role \in job[j].left :
       /\ principalRoles' = principalRoles \cup {role}
       /\ job' = [job EXCEPT ![j].stage = "bind", ![j].role = {role}]
  /\ UNCHANGED <<keycloak, catalog, granted, principals, bindings, changes, faults, restarts>>

\* A binding that exists already is a 409, or a 500 that _is_duplicate_grant_error knows.
EnsurePrincipalRoleBinding(j) ==
  LET left == job[j].left \ job[j].role
  IN /\ job[j].stage = "bind"
     /\ bindings' = bindings \cup ({User(j)} \X job[j].role)
     /\ job' = [job EXCEPT ![j] =
          IF left = {} THEN NextUser(j, [@ EXCEPT !.left = {}, !.role = {}])
          ELSE [@ EXCEPT !.stage = "role", !.left = left, !.role = {}]]
     /\ UNCHANGED <<keycloak, catalog, granted, principals, principalRoles, changes, faults, restarts>>

----------------------------------------------------------------------------
(* The bootstrap job.                                                      *)

StartBootstrap ==
  /\ "bootstrap" \in mode.jobs
  /\ \/ job["bootstrap"].stage = "idle" /\ restarts' = restarts
     \/ job["bootstrap"].stage = "failed" /\ restarts < BackoffLimit /\ restarts' = restarts + 1
  /\ job' = [job EXCEPT !["bootstrap"] = NewRun("catalog")]
  /\ UNCHANGED <<keycloak, polaris, changes, faults>>

GetCatalogNoVersion ==
  /\ job["bootstrap"].stage = "catalog"
  /\ job' = [job EXCEPT !["bootstrap"].stage =
                IF catalog.config = "absent" THEN "create" ELSE "update"]
  /\ UNCHANGED <<keycloak, polaris, changes, faults, restarts>>

\* ensure_catalog: its GET, and the POST or the PUT that follows.
GetCatalog ==
  /\ job["bootstrap"].stage = "catalog"
  /\ job' = [job EXCEPT !["bootstrap"] =
       [@ EXCEPT !.stage = IF catalog.config = "absent" THEN "create" ELSE "update",
                 !.entity = catalog.version]]
  /\ UNCHANGED <<keycloak, polaris, changes, faults, restarts>>

\* The write takes effect on the version that was read, and is a 409 otherwise.  409 is
\* one of SUCCESS_CODES, so that the branch that would try again is never reached.
WriteCatalog ==
  LET current == catalog.version = job["bootstrap"].entity
  IN /\ job["bootstrap"].stage \in {"create", "update"}
     /\ catalog' = IF current THEN [version |-> catalog.version + 1, config |-> "ours"]
                   ELSE catalog
     /\ job' = [job EXCEPT !["bootstrap"].stage = "acl", !["bootstrap"].applied = current]
     /\ UNCHANGED <<keycloak, granted, principals, principalRoles, bindings, changes, faults, restarts>>

\* One call of create_role_bindings: what exists already stays.
Grant(done, call) == IF call > done THEN call ELSE done

\* The loops over admin, namespaces and tables: one call after the other, then the sync.
CreateRoleBindings ==
  LET call == job["bootstrap"].call
  IN /\ job["bootstrap"].stage = "acl" /\ call \notin mode.absent
     /\ granted' = Grant(granted, call)
     /\ principalRoles' = principalRoles \cup mode.creates[call]
     /\ job' = [job EXCEPT !["bootstrap"] =
          [@ EXCEPT !.stage = IF call = Acl THEN "page" ELSE "acl", !.call = call + 1]]
     /\ UNCHANGED <<keycloak, catalog, principals, bindings, changes, faults, restarts>>

\* A grant on a table that is not there: a 404, which ends the script.
TableMissing ==
  /\ job["bootstrap"].stage = "acl" /\ job["bootstrap"].call \in mode.absent
  /\ job' = [job EXCEPT !["bootstrap"] = Ended("failed")]
  /\ UNCHANGED <<keycloak, polaris, changes, faults, restarts>>

EnsureServicePrincipalUnlessLast ==
  /\ job["bootstrap"].stage = "service"
  /\ principals' = IF job["bootstrap"].page = {User("bootstrap")} THEN principals
                   ELSE principals \cup {User("bootstrap")}
  /\ job' = [job EXCEPT !["bootstrap"].stage = "serviceRole"]
  /\ UNCHANGED <<keycloak, catalog, granted, principalRoles, bindings, changes, faults, restarts>>

\* The static principals of acl-config.json, one after the other.
EnsureServicePrincipal ==
  /\ job["bootstrap"].stage = "service"
  /\ principals' = principals \cup {User("bootstrap")}
  /\ job' = [job EXCEPT !["bootstrap"].stage = "serviceRole"]
  /\ UNCHANGED <<keycloak, catalog, granted, principalRoles, bindings, changes, faults, restarts>>

BindServicePrincipal ==
  LET service == User("bootstrap")
      rest == job["bootstrap"].page \ {service}
  IN /\ job["bootstrap"].stage = "serviceRole" /\ ServiceRole[service] \in principalRoles
     /\ bindings' = bindings \cup {<<service, ServiceRole[service]>>}
     /\ job' = [job EXCEPT !["bootstrap"].stage = IF rest = {} THEN "done" ELSE "service",
                           !["bootstrap"].page = rest]
     /\ UNCHANGED <<keycloak, catalog, granted, principals, principalRoles, changes, faults, restarts>>

\* Nothing creates the principal role of a service: it is there if Acl or a synced user has it.
ServiceRoleMissing ==
  /\ job["bootstrap"].stage = "serviceRole" /\ ServiceRole[User("bootstrap")] \notin principalRoles
  /\ job' = [job EXCEPT !["bootstrap"] = Ended("failed")]
  /\ UNCHANGED <<keycloak, polaris, changes, faults, restarts>>

----------------------------------------------------------------------------
(* The environment.                                                        *)

Running(j) == job[j].stage \notin {"idle", "done", "failed"}

\* A call fails, or the pod dies.
Fail(j) ==
  /\ Running(j)
  /\ faults < mode.faults
  /\ faults' = faults + 1
  /\ job' = [job EXCEPT ![j] = Ended("failed")]
  /\ UNCHANGED <<keycloak, polaris, changes, restarts>>

\* What a run remembers of a change, for the properties
Observed(run, gone) ==
  IF run.stage \in {"idle", "service", "serviceRole", "done", "failed"} THEN run
  ELSE [run EXCEPT !.seen = @ \cup Held', !.due = @ \cap Due', !.shifted = @ \/ gone]

Change(gone) ==
  /\ changes < mode.changes
  /\ changes' = changes + 1
  /\ job' = [j \in Jobs |-> Observed(job[j], gone)]

SetStatus(u, new) ==
  /\ status[u] # new
  /\ status' = [status EXCEPT ![u] = new]
  /\ UNCHANGED <<mode, roles>>
  /\ Change(status[u] = "enabled")
  /\ UNCHANGED <<polaris, faults, restarts>>

SetRole(u, role) ==
  /\ roles' = [roles EXCEPT ![u] = IF role \in @ THEN @ \ {role} ELSE @ \cup {role}]
  /\ UNCHANGED <<mode, status>>
  /\ Change(FALSE)
  /\ UNCHANGED <<polaris, faults, restarts>>

\* Another writer creates or updates the catalog.
UpdateCatalog ==
  /\ catalog' = [version |-> catalog.version + 1, config |-> "other"]
  /\ changes < mode.changes
  /\ changes' = changes + 1
  /\ job' = [job EXCEPT !["bootstrap"].conflict =
                @ \/ job["bootstrap"].stage \in {"create", "update"}]
  /\ UNCHANGED <<keycloak, granted, principals, principalRoles, bindings, faults, restarts>>

\* An operator removes a binding that the user's roles no longer justify.
Unbind(u, role) ==
  /\ <<u, role>> \in bindings /\ role \notin roles[u]
  /\ bindings' = bindings \ {<<u, role>>}
  /\ changes < mode.changes
  /\ changes' = changes + 1
  /\ UNCHANGED <<keycloak, catalog, granted, principals, principalRoles, job, faults, restarts>>

Sync(j) == \/ IterKeycloakUsers(j) \/ EnsurePrincipal(j) \/ GetKeycloakRealmRoles(j)
           \/ UserGone(j) \/ EnsurePrincipalRole(j) \/ EnsurePrincipalRoleBinding(j)

Bootstrap == \/ StartBootstrap \/ GetCatalog \/ WriteCatalog \/ CreateRoleBindings \/ TableMissing
             \/ EnsureServicePrincipal \/ BindServicePrincipal \/ ServiceRoleMissing

Next ==
  \/ StartCron \/ Bootstrap
  \/ \E j \in Jobs : Sync(j) \/ Fail(j)
  \/ \E u \in Users : \/ \E new \in {"enabled", "disabled", "absent"} : SetStatus(u, new)
                      \/ \E role \in Roles : SetRole(u, role) \/ Unbind(u, role)
  \/ UpdateCatalog

Spec == Init /\ [][Next]_vars

\* The schedule starts the CronJob again and again, Kubernetes restarts a failed
\* bootstrap, and a script that is running goes on.
FairSpec ==
  /\ Spec
  /\ WF_vars(StartCron) /\ WF_vars(Bootstrap)
  /\ \A j \in Jobs : WF_vars(Sync(j))

----------------------------------------------------------------------------
(* Properties.                                                             *)

SyncStages == {"page", "principal", "composite", "role", "bind"}
ServiceStages == {"service", "serviceRole"}
Stages == SyncStages \cup {"idle", "catalog", "create", "update", "acl", "service",
                           "serviceRole", "done", "failed"}

\* Type correctness of Keycloak, of Polaris and of the two scripts: a loop of the sync is
\* never in its body without a user or without a role.
TypeOK ==
  /\ mode \in Modes
  /\ status \in [Users -> {"enabled", "disabled", "absent"}]
  /\ roles \in [Users -> SUBSET Roles]
  /\ catalog \in [version : Nat, config : {"absent", "ours", "other"}]
  /\ granted \in 0..Acl
  /\ principals \subseteq Users \cup Services
  /\ principalRoles \subseteq Roles
  /\ bindings \subseteq principals \X Roles
  /\ \A j \in Jobs :
       /\ job[j].stage \in Stages
       /\ job[j].page \subseteq IF job[j].stage \in ServiceStages THEN Services ELSE Users
       /\ job[j].page # {} <=> job[j].stage \in (SyncStages \ {"page"}) \cup ServiceStages
       /\ job[j].stage \in {"role", "bind"} <=> job[j].left # {}
  /\ job["cron"].stage \in SyncStages \cup {"idle", "done", "failed"}
  /\ changes \in 0..mode.changes /\ faults \in 0..mode.faults /\ restarts \in 0..BackoffLimit

\* A sync that ends well has bound every role that an enabled user held from its start to
\* its end, however the listing grew meanwhile.  Only a user who leaves the listing can
\* make it skip another, since the pages are cut by offset.
SyncCovers ==
  [][\A j \in Jobs :
       (job[j].stage \in SyncStages /\ job'[j].stage \in {"done", "service"})
         => job[j].shifted \/ job[j].due \subseteq bindings']_vars

\* A binding that a sync adds is for a mapped role that the user held at some time during
\* that run: a run that started after a revocation cannot grant the role again.
NothingRegranted ==
  [][\A j \in Jobs :
       (job[j].stage = "bind" /\ job'[j].stage # "bind") =>
         (bindings' \ bindings) \subseteq (job[j].seen \cap (Users \X Mapped))]_vars

\* When the bootstrap is done, its run has written the catalog's configuration, unless
\* another writer came between its GET and its POST or PUT.
AppliedUnlessConflict ==
  job["bootstrap"].stage = "done" => job["bootstrap"].applied \/ job["bootstrap"].conflict

\* The tables of acl-config.json are there, and it creates the roles of its services.
Complete ==
  /\ mode.absent = {}
  /\ \A s \in Services : \E call \in 1..Acl : ServiceRole[s] \in mode.creates[call]

\* Once users and roles stay as they are, every enabled user ends up with every mapped role
\* that they hold, although runs fail, skip users and overlap, and whatever acl-config.json
\* leaves out; and the bootstrap of a complete one is done, with its services bound.
EventuallyBound ==
  /\ <>[](Due \subseteq bindings)
  /\ "bootstrap" \in mode.jobs /\ Complete =>
       <>(/\ job["bootstrap"].stage = "done" /\ granted = Acl
          /\ \A s \in Services : <<s, ServiceRole[s]>> \in bindings)

\* The named principals' bindings come to match what the JWT mapper would grant.
BindingsMatchRoles ==
  <>[](\A u \in Enabled \cap principals :
         {role \in Roles : <<u, role>> \in bindings} = roles[u] \cap Mapped)

=============================================================================
