-------------------------- MODULE RequestPipeline --------------------------
(***************************************************************************)
(* What every request to the TEEHR API goes through before and around its  *)
(* handler: timeout_middleware and auth_context_middleware of              *)
(* api/src/main.py and the rate limiter of api/src/rate_limit.py.  Each    *)
(* worker process has a limiter of its own.                                *)
(*                                                                         *)
(* The timeout answers the client and leaves the rest of the request       *)
(* running: the middleware below it, and the handler, go on as a task that *)
(* nobody cancels.  Who a caller is, is decided in JwksCache and           *)
(* ApiKeyStore; here an identity is resolved or it is not.                 *)
(***************************************************************************)
EXTENDS Naturals, FiniteSets

CONSTANTS Requests,     \* requests under way
          Workers,      \* gunicorn workers
          Subjects,     \* subjects of tokens and API keys
          Admins,       \* those of them with the admin role
          Paths,        \* paths that need an identity
          RpmLimit,     \* AUTH_RATE_LIMIT_RPM
          MaxKeys,      \* counters the limiter keeps before it cleans up (50000)
          MaxMinutes,   \* bound: the clock stops here
          MaxMade       \* bound: requests of one caller for one path and minute

ASSUME PipelineAssumption ==
  /\ Admins \subseteq Subjects /\ "anonymous" \notin Subjects
  /\ {"session", "health"} \cap Paths = {}
  /\ RpmLimit \in Nat /\ MaxKeys \in Nat /\ MaxMinutes \in Nat /\ MaxMade \in Nat

Identities == Subjects \cup {"anonymous"}

\* "session" is /auth/polaris-token/session, which carries no identity and is limited by
\* host; "health" stands for the paths that are exempt, and for OPTIONS.
AllPaths == Paths \cup {"session", "health"}

VARIABLES minute,  \* int(time.time() // 60)
          counts,  \* counts[w]: _counts, a function of the keys in use
          req,     \* req[r]: how far the request is, and the answer its client got
          made,    \* made[w, c, p]: requests of this minute that were counted
          passed   \* passed[w, c, p]: those of them that reached the handler

pipelineVars == <<minute, counts, req, made, passed>>

Idle == [stage |-> "idle"]
Sources == Workers \X Identities \X AllPaths
SourceOf(r) == <<req[r].worker, req[r].caller, req[r].path>>

PipelineInit ==
  /\ minute = 0
  /\ counts = [w \in Workers |-> [key \in {} |-> 0]]
  /\ req = [r \in Requests |-> Idle]
  /\ made = [s \in Sources |-> 0] /\ passed = [s \in Sources |-> 0]

----------------------------------------------------------------------------
(* The limiter.                                                            *)

Key(caller, path) == <<minute, path, caller>>

\* The cleanup starts from an empty dictionary.
CleanupDropsAll(count) ==
  IF Cardinality(DOMAIN count) > MaxKeys THEN [key \in {} |-> 0] ELSE count

CleanupNever(count) == count

Cleanup(count) ==
  IF Cardinality(DOMAIN count) > MaxKeys
  THEN [key \in {k \in DOMAIN count : k[1] = minute} |-> count[key]]
  ELSE count

CountOf(count, key) == IF key \in DOMAIN count THEN count[key] ELSE 0

\* The counter is read, which creates it, and not incremented.
BumpReads(count, key) ==
  [k \in DOMAIN count \cup {key} |-> CountOf(count, k)]

Bump(count, key) ==
  [k \in DOMAIN count \cup {key} |-> CountOf(count, k) + IF k = key THEN 1 ELSE 0]

\* _enforce: the request is counted, then it passes or a 429 is raised.  It is raised
\* inside a middleware, outside the handlers of HTTPException: the client sees a 500.
Answered(r, code) == IF req[r].answer = "none" THEN code ELSE req[r].answer

Enforce(r) ==
  LET s == SourceOf(r)
      w == req[r].worker
      key == Key(req[r].caller, req[r].path)
      after == Cleanup(Bump(counts[w], key))
      ok == CountOf(after, key) <= RpmLimit IN
  /\ counts' = [counts EXCEPT ![w] = after]
  /\ made' = [made EXCEPT ![s] = @ + 1]
  /\ passed' = IF ok THEN [passed EXCEPT ![s] = @ + 1] ELSE passed
  /\ req' = IF ok THEN [req EXCEPT ![r].stage = "handling"]
            ELSE [req EXCEPT ![r].stage = "limited", ![r].answer = Answered(r, "500")]
  /\ UNCHANGED minute

----------------------------------------------------------------------------
(* A request.                                                              *)

Arrive(r, w, c, p) ==
  /\ req[r] = Idle
  /\ made[<<w, c, p>>] < MaxMade
  /\ req' = [req EXCEPT ![r] = [stage |-> "arrived", worker |-> w, caller |-> c, path |-> p,
                                answer |-> "none"]]
  /\ UNCHANGED <<minute, counts, made, passed>>

Respond(r, code) ==
  /\ req' = [req EXCEPT ![r].stage = "done", ![r].answer = Answered(r, code)]
  /\ UNCHANGED <<minute, counts, made, passed>>

\* The session exchange is limited before anything else.
SessionGate(r) ==
  /\ req[r].stage = "arrived" /\ req[r].path = "session"
  /\ Enforce(r)

\* resolve_identity raises: a bad token or key, or no answer from Keycloak.
IdentityRefused(r) ==
  /\ req[r].stage = "arrived" /\ req[r].path # "session" /\ req[r].caller \in Subjects
  /\ \E code \in {"401", "503"} : Respond(r, code)

AnonymousRefused(r) ==
  /\ req[r].stage = "arrived" /\ req[r].path \in Paths /\ req[r].caller = "anonymous"
  /\ Respond(r, "401")

\* No limit for administrators and for the exempt paths.
Unlimited(r) ==
  /\ req[r].stage = "arrived"
  /\ req[r].path = "health" \/ (req[r].path \in Paths /\ req[r].caller \in Admins)
  /\ req' = [req EXCEPT ![r].stage = "handling"]
  /\ UNCHANGED <<minute, counts, made, passed>>

UserGate(r) ==
  /\ req[r].stage = "arrived" /\ req[r].path \in Paths /\ req[r].caller \in Subjects \ Admins
  /\ Enforce(r)

HandlerEnds(r) ==
  /\ req[r].stage = "handling"
  /\ \E code \in {"200", "500"} : Respond(r, code)

\* wait_for gives up: 504, and the request goes on.
TimeOut(r) ==
  /\ req[r].stage \in {"arrived", "handling"} /\ req[r].answer = "none"
  /\ req' = [req EXCEPT ![r].answer = "504"]
  /\ UNCHANGED <<minute, counts, made, passed>>

End(r) ==
  /\ req[r].stage \in {"done", "limited"}
  /\ req' = [req EXCEPT ![r] = Idle]
  /\ UNCHANGED <<minute, counts, made, passed>>

NextMinute ==
  /\ minute < MaxMinutes
  /\ minute' = minute + 1
  /\ made' = [s \in Sources |-> 0] /\ passed' = [s \in Sources |-> 0]
  /\ UNCHANGED <<counts, req>>

----------------------------------------------------------------------------
PipelineNext ==
  \/ NextMinute
  \/ \E r \in Requests :
       \/ \E w \in Workers, c \in Identities, p \in AllPaths : Arrive(r, w, c, p)
       \/ SessionGate(r) \/ IdentityRefused(r) \/ AnonymousRefused(r) \/ Unlimited(r)
       \/ UserGate(r) \/ HandlerEnds(r) \/ TimeOut(r) \/ End(r)

PipelineSpec == PipelineInit /\ [][PipelineNext]_pipelineVars

----------------------------------------------------------------------------
(* Properties.                                                             *)

\* Type correctness of the limiter's counters and of the requests; a counter that exists
\* has counted something.
PipelineTypeOK ==
  /\ minute \in 0..MaxMinutes
  /\ \A w \in Workers : /\ DOMAIN counts[w] \subseteq (0..minute) \X AllPaths \X Identities
                        /\ \A key \in DOMAIN counts[w] : counts[w][key] \in Nat \ {0}
  /\ req \in [Requests -> {Idle} \cup
       [stage : {"arrived", "handling", "done", "limited"}, worker : Workers, caller : Identities,
        path : AllPaths, answer : {"none", "200", "401", "500", "503", "504"}]]
  /\ made \in [Sources -> Nat] /\ passed \in [Sources -> Nat]

\* The limit is exact.  In a minute no caller gets more than RpmLimit requests for a path
\* past the limiter of a worker, however many other callers make the limiter clean up its
\* counters; and nobody is limited who has not used that up in this very minute: counters
\* of earlier minutes, kept or cleaned up, count for nothing.
LimitIsExact ==
  [][/\ \A s \in Sources : passed'[s] <= RpmLimit
     /\ \A r \in Requests :
          req'[r].stage = "limited" /\ req[r].stage # "limited"
            => passed[SourceOf(r)] >= RpmLimit]_pipelineVars

\* Counters do not pile up from minute to minute: the limiter holds more than MaxKeys of
\* them only while they all belong to one minute ("Cheap periodic cleanup to avoid
\* unbounded growth").
NoPileUp ==
  \A w \in Workers :
    Cardinality(DOMAIN counts[w]) > MaxKeys
      => \A j, k \in DOMAIN counts[w] : j[1] = k[1]
=============================================================================
