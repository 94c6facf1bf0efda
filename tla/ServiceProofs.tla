--------------------------- MODULE ServiceProofs ---------------------------
(***************************************************************************)
(* Theorems about four components that share no state: the jobs that       *)
(* bring Polaris in line with Keycloak, the delegated broker sessions, the *)
(* rate limiter of the request pipeline and the pages of a collection.     *)
(* Each theorem is about the specification of one of them, for any values  *)
(* of its constants.  The listing of Keycloak's users and the pages of a   *)
(* collection are cut by offset, and their proofs share the lemmas about   *)
(* ranks.                                                                  *)
(***************************************************************************)
EXTENDS PolarisJobs, BrokerSessions, RequestPipeline, CollectionPages, FiniteSetTheorems,
        WellFoundedInduction, TLAPS

----------------------------------------------------------------------------
(* Broker sessions.                                                        *)

\* A session has a row only once it exists, an exchange is for a session that exists, and
\* an exchange that found its row expired still does when it comes to delete it.
BrokerInv ==
  /\ BrokerTypeOK
  /\ \A s \in Sids : expiry[s] = 0 => db[s] = NoSession
  /\ \A r \in Exchanges :
       /\ exchange[r] # NoExchange => expiry[exchange[r].sid] # 0
       /\ exchange[r].stage = "expired" => \/ db[exchange[r].sid] = NoSession
                                           \/ db[exchange[r].sid].expires_at <= now

\* An exchange that was not overtaken holds the newest token of its session, and where the
\* row's is another one there is such an exchange, unless the session's was lost.
NewestHeld ==
  /\ \A r \in Exchanges : exchange[r].stage = "refreshed" /\ r \notin overtaken =>
                           exchange[r].refresh_token = sso[exchange[r].sid]
  /\ \A s \in Sids : db[s] # NoSession /\ s \notin lost =>
       \/ db[s].refresh_token = sso[s]
       \/ \E r \in Exchanges : /\ exchange[r].stage = "refreshed" /\ exchange[r].sid = s
                               /\ r \notin overtaken

\* What an action of an exchange may do to the rows.
RowStep(s) ==
  /\ expiry[s] # 0 /\ db[s] = NoSession => db'[s] = NoSession
  /\ db[s] # NoSession =>
       \/ db'[s] = NoSession /\ db[s].expires_at <= now
       \/ db'[s].caller = db[s].caller /\ db'[s].expires_at = db[s].expires_at

\* An exchange that has begun is a record of Request.
LEMMA ExchangeTypes ==
  ASSUME BrokerInv, NEW r \in Exchanges, exchange[r].stage # "idle"
  PROVE  /\ exchange[r] \in [stage : ExchangeStages \ {"idle"}, sid : Sids, caller : Callers,
                        refresh_token : Times]
         /\ exchange[r] # NoExchange /\ exchange[r].sid \in Sids /\ expiry[exchange[r].sid] # 0
<1>1. exchange[r] # NoExchange
  BY DEF NoExchange
<1>2. exchange[r] \in Exchange
  BY DEF BrokerInv, BrokerTypeOK
<1>3. exchange[r] \in [stage : ExchangeStages \ {"idle"}, sid : Sids, caller : Callers,
                  refresh_token : Times]
  BY <1>1, <1>2 DEF Exchange
<1> QED
  BY <1>1, <1>3 DEF BrokerInv

\* An exchange takes a step and leaves the table alone, or changes one row of it as far as
\* it may; x is what its handler holds then.
LEMMA ExchangeStep ==
  ASSUME BrokerInv, NEW r \in Exchanges, NEW x \in Exchange,
         exchange' = [exchange EXCEPT ![r] = x],
         x # NoExchange => expiry[x.sid] # 0,
         x.stage = "expired" => x.sid \in Sids /\ db[x.sid].expires_at <= now,
         db' \in [Sids -> Session \cup {NoSession}],
         \A s \in Sids : RowStep(s),
         \A s \in Sids : expiry[s] = 0 => db'[s] = db[s],
         sso' \in [Sids -> Times], aborts' \in 0..MaxAborts,
         overtaken' \subseteq Exchanges, lost' \subseteq Sids,
         UNCHANGED <<now, expiry>>
  PROVE  BrokerInv'
<1>1. BrokerTypeOK'
  BY DEF BrokerInv, BrokerTypeOK, Times
<1>2. \A s \in Sids : expiry'[s] = 0 => db'[s] = NoSession
  BY DEF BrokerInv
<1>3. ASSUME NEW s \in Sids, db[s] = NoSession \/ db[s].expires_at <= now
      PROVE  expiry[s] # 0 => db'[s] = NoSession \/ db'[s].expires_at <= now
  BY <1>3 DEF RowStep
<1>4. ASSUME NEW q \in Exchanges
      PROVE  /\ exchange'[q] # NoExchange => expiry'[exchange'[q].sid] # 0
             /\ exchange'[q].stage = "expired" => \/ db'[exchange'[q].sid] = NoSession
                                                  \/ db'[exchange'[q].sid].expires_at <= now'
  <2>1. CASE q = r
    <3>1. exchange'[q] = x
      BY <2>1 DEF BrokerInv, BrokerTypeOK
    <3>2. x.stage = "expired" => x # NoExchange
      BY DEF NoExchange
    <3> QED
      BY <1>3, <3>1, <3>2
  <2>2. CASE q # r
    <3>1. exchange'[q] = exchange[q]
      BY <2>2 DEF BrokerInv, BrokerTypeOK
    <3>2. exchange[q].stage = "expired" => exchange[q].sid \in Sids /\ expiry[exchange[q].sid] # 0
      BY ExchangeTypes
    <3> QED
      BY <1>3, <3>1, <3>2 DEF BrokerInv
  <2> QED
    BY <2>1, <2>2
<1> QED
  BY <1>1, <1>2, <1>4 DEF BrokerInv

\* The actions of an exchange that leave the table alone.
LEMMA QuietExchange ==
  ASSUME BrokerInv, NEW r \in Exchanges,
         \/ GetSession(r) \/ KeycloakRefresh(r) \/ KeycloakKeepsToken(r)
         \/ KeycloakRefuse(r) \/ Answer(r) \/ Abort(r)
  PROVE  BrokerInv'
<1>1. /\ UNCHANGED <<now, db, expiry>>
      /\ sso' \in [Sids -> Times] /\ aborts' \in 0..MaxAborts
      /\ overtaken' \subseteq Exchanges /\ lost' \subseteq Sids
  <2>1. UNCHANGED <<now, db, expiry>>
    BY DEF GetSession, KeycloakRefresh, KeycloakKeepsToken,
           KeycloakRefuse, Answer, Abort
  <2>2. sso' \in [Sids -> Times]
    BY DEF GetSession, KeycloakRefresh, KeycloakKeepsToken,
           KeycloakRefuse, Answer, Abort, BrokerInv, BrokerTypeOK
  <2>3. aborts' \in 0..MaxAborts
    BY BrokerBounds DEF GetSession, KeycloakRefresh, KeycloakKeepsToken,
                        KeycloakRefuse, Answer, Abort, BrokerInv, BrokerTypeOK
  <2>4. overtaken' \subseteq Exchanges
    BY DEF GetSession, KeycloakRefresh, KeycloakKeepsToken, KeycloakRefuse, Answer, Abort,
           Storing, history, BrokerInv, BrokerTypeOK
  <2>5. lost' \subseteq Sids
    <3>1. exchange[r].stage = "refreshed" => exchange[r].sid \in Sids
      BY ExchangeTypes
    <3> QED
      BY <3>1 DEF GetSession, KeycloakRefresh, KeycloakKeepsToken, KeycloakRefuse, Answer, Abort,
                  history, BrokerInv, BrokerTypeOK
  <2> QED
    BY <2>1, <2>2, <2>3, <2>4, <2>5
<1>2. db' \in [Sids -> Session \cup {NoSession}]
        /\ (\A s \in Sids : RowStep(s)) /\ (\A s \in Sids : db'[s] = db[s])
  BY <1>1 DEF BrokerInv, BrokerTypeOK, RowStep
<1>3. exchange[r].stage # "idle"
  BY DEF GetSession, KeycloakRefresh, KeycloakKeepsToken,
         KeycloakRefuse, Answer, Abort, Answers
<1>4. /\ exchange[r] \in [stage : ExchangeStages \ {"idle"}, sid : Sids, caller : Callers,
                     refresh_token : Times]
      /\ exchange[r].sid \in Sids /\ expiry[exchange[r].sid] # 0
  BY <1>3, ExchangeTypes
<1>5. ASSUME NEW stage \in ExchangeStages \ {"idle", "expired"}, Advance(r, stage)
      PROVE  BrokerInv'
  <2> DEFINE x == [exchange[r] EXCEPT !.stage = stage]
  <2>1. x \in Exchange /\ x.sid = exchange[r].sid /\ x.stage = stage
    BY <1>4 DEF Exchange
  <2>2. exchange' = [exchange EXCEPT ![r] = x]
    BY <1>5 DEF Advance
  <2> HIDE DEF x
  <2> QED
    BY <1>1, <1>2, <1>4, <2>1, <2>2, ExchangeStep
<1>6. ASSUME NEW stage \in ExchangeStages \ {"idle", "expired"}, NEW token \in Times,
             exchange' = [exchange EXCEPT ![r].stage = stage, ![r].refresh_token = token]
      PROVE  BrokerInv'
  <2> DEFINE x == [exchange[r] EXCEPT !.stage = stage, !.refresh_token = token]
  <2>1. x \in Exchange /\ x.sid = exchange[r].sid /\ x.stage = stage
    BY <1>4 DEF Exchange
  <2>2. exchange' = [exchange EXCEPT ![r] = x]
    BY <1>6
  <2> HIDE DEF x
  <2> QED
    BY <1>1, <1>2, <1>4, <2>1, <2>2, ExchangeStep
<1>7. CASE GetSession(r)
  <2> DEFINE row == db[exchange[r].sid]
  <2>1. CASE row # NoSession /\ Expired(row) /\ Advance(r, "expired")
    <3> DEFINE x == [exchange[r] EXCEPT !.stage = "expired"]
    <3>1. x \in Exchange /\ x.sid = exchange[r].sid /\ x.stage = "expired"
      BY <1>4 DEF Exchange, ExchangeStages
    <3>2. exchange' = [exchange EXCEPT ![r] = x]
      BY <2>1 DEF Advance
    <3>3. db[x.sid].expires_at <= now
      BY <2>1, <3>1 DEF Expired
    <3> HIDE DEF x
    <3> QED
      BY <1>1, <1>2, <1>4, <3>1, <3>2, <3>3, ExchangeStep
  <2>2. CASE row # NoSession
             /\ exchange' = [exchange EXCEPT ![r].stage = "refreshing",
                                             ![r].refresh_token = row.refresh_token]
    <3>1. row \in Session
      BY <1>4, <2>2 DEF BrokerInv, BrokerTypeOK
    <3>2. row.refresh_token \in Times
      BY <3>1 DEF Session
    <3> QED
      BY <1>6, <2>2, <3>2 DEF ExchangeStages
  <2>3. CASE Advance(r, "unauthorized") \/ Advance(r, "forbidden")
    BY <1>5, <2>3 DEF ExchangeStages
  <2> QED
    BY <1>7, <2>1, <2>2, <2>3 DEF GetSession
<1>8. CASE KeycloakRefresh(r)
  BY <1>6, <1>8 DEF KeycloakRefresh, ExchangeStages, BrokerInv, BrokerTypeOK
<1>9. CASE KeycloakKeepsToken(r)
  BY <1>5, <1>9 DEF KeycloakKeepsToken, ExchangeStages
<1>10. CASE KeycloakRefuse(r)
  BY <1>5, <1>10 DEF KeycloakRefuse, ExchangeStages
<1>11. CASE Answer(r) \/ Abort(r)
  <2>1. exchange' = [exchange EXCEPT ![r] = NoExchange]
    BY <1>11 DEF Answer, Abort
  <2>2. NoExchange \in Exchange /\ NoExchange.stage # "expired"
    BY DEF NoExchange, Exchange
  <2> QED
    BY <1>1, <1>2, <2>1, <2>2, ExchangeStep
<1> QED
  BY <1>7, <1>8, <1>9, <1>10, <1>11

\* The two writes of an exchange: a row that is gone stays gone.
LEMMA WritingExchange ==
  ASSUME BrokerInv, NEW r \in Exchanges,
         DeleteSession(r) \/ UpdateRefreshToken(r)
  PROVE  BrokerInv' /\ \A s \in Sids : RowStep(s)
<1>1. UNCHANGED <<now, expiry, sso, aborts>>
  BY DEF DeleteSession, UpdateRefreshToken, history
<1>2. exchange[r].stage # "idle"
  BY DEF DeleteSession, UpdateRefreshToken
<1>3. /\ exchange[r] \in [stage : ExchangeStages \ {"idle"}, sid : Sids, caller : Callers,
                     refresh_token : Times]
      /\ exchange[r].sid \in Sids /\ expiry[exchange[r].sid] # 0
  BY <1>2, ExchangeTypes
<1>4. db \in [Sids -> Session \cup {NoSession}]
        /\ sso' \in [Sids -> Times] /\ aborts' \in 0..MaxAborts
        /\ overtaken' \subseteq Exchanges /\ lost' \subseteq Sids
  BY <1>1, <1>3 DEF BrokerInv, BrokerTypeOK, DeleteSession, UpdateRefreshToken, RecordStored, history
<1>5. /\ db' \in [Sids -> Session \cup {NoSession}]
      /\ \A s \in Sids : RowStep(s)
      /\ \A s \in Sids : expiry[s] = 0 => db'[s] = db[s]
  <2> DEFINE sid == exchange[r].sid
  <2>1. CASE DeleteSession(r)
    <3>1. db' = [db EXCEPT ![sid] = NoSession] /\ exchange[r].stage = "expired"
      BY <2>1 DEF DeleteSession
    <3>2. db[sid] = NoSession \/ db[sid].expires_at <= now
      BY <3>1 DEF BrokerInv
    <3> QED
      BY <1>3, <1>4, <3>1, <3>2 DEF RowStep
  <2>2. CASE UpdateRefreshToken(r) /\ db[sid] = NoSession
    BY <1>4, <2>2 DEF UpdateRefreshToken, RowStep
  <2>3. CASE UpdateRefreshToken(r) /\ db[sid] # NoSession
    <3> DEFINE row == [db[sid] EXCEPT !.refresh_token = exchange[r].refresh_token]
    <3>1. db' = [db EXCEPT ![sid] = row]
      BY <2>3 DEF UpdateRefreshToken
    <3>2. db[sid] \in Session
      BY <1>3, <1>4, <2>3
    <3>3. row \in Session /\ row.caller = db[sid].caller
            /\ row.expires_at = db[sid].expires_at
      BY <1>3, <3>2 DEF Session
    <3> HIDE DEF row
    <3> QED
      BY <1>3, <1>4, <2>3, <3>1, <3>3 DEF RowStep
  <2> QED
    BY <2>1, <2>2, <2>3
<1>6. PICK stage \in {"unauthorized", "ok"} : Advance(r, stage)
  BY DEF DeleteSession, UpdateRefreshToken
<1> DEFINE x == [exchange[r] EXCEPT !.stage = stage]
<1>7. x \in Exchange /\ x.sid = exchange[r].sid /\ x.stage = stage
  BY <1>3 DEF Exchange, ExchangeStages
<1>8. exchange' = [exchange EXCEPT ![r] = x]
  BY <1>6 DEF Advance
<1> HIDE DEF x
<1> QED
  BY <1>1, <1>3, <1>4, <1>5, <1>7, <1>8, ExchangeStep

\* A session gets its row once; nothing else of the table changes.
LEMMA CreateStep ==
  ASSUME BrokerInv, NEW s \in Sids, NEW c \in Callers,
         CreateSession(s, c)
  PROVE  BrokerInv' /\ \A z \in Sids : RowStep(z)
<1> DEFINE row == [caller |-> c, expires_at |-> now + SessionTtl, refresh_token |-> now]
<1>1. /\ now \in 0..MaxTime /\ db \in [Sids -> Session \cup {NoSession}]
      /\ expiry \in [Sids -> 0..(MaxTime + SessionTtl)] /\ db[s] = NoSession
  BY DEF BrokerInv, BrokerTypeOK, Times, CreateSession
<1>2. /\ expiry' = [expiry EXCEPT ![s] = now + SessionTtl] /\ db' = [db EXCEPT ![s] = row]
      /\ sso' = [sso EXCEPT ![s] = now] /\ UNCHANGED <<now, exchange, aborts, overtaken, lost>> /\ expiry[s] = 0
  BY DEF CreateSession, PutSession, history
<1>3. now + SessionTtl \in 1..(MaxTime + SessionTtl)
  BY <1>1, BrokerBounds
<1>4. row \in Session
  BY <1>1, <1>3 DEF Session, Times
<1> HIDE DEF row
<1>5. BrokerTypeOK'
  BY <1>1, <1>2, <1>3, <1>4 DEF BrokerInv, BrokerTypeOK, Times
<1>6. \A z \in Sids : expiry'[z] = 0 => db'[z] = NoSession
  BY <1>1, <1>2, <1>3 DEF BrokerInv
<1>7. ASSUME NEW r \in Exchanges, exchange[r] # NoExchange
      PROVE  /\ exchange[r].sid \in Sids /\ exchange[r].sid # s /\ expiry[exchange[r].sid] # 0
             /\ exchange[r].stage = "expired" => \/ db[exchange[r].sid] = NoSession
                                                 \/ db[exchange[r].sid].expires_at <= now
  <2>1. exchange[r] \in Exchange
    BY DEF BrokerInv, BrokerTypeOK
  <2>2. exchange[r].sid \in Sids
    BY <1>7, <2>1 DEF Exchange
  <2> QED
    BY <1>2, <1>7, <2>2 DEF BrokerInv
<1>8. ASSUME NEW r \in Exchanges
      PROVE  /\ exchange'[r] # NoExchange => expiry'[exchange'[r].sid] # 0
             /\ exchange'[r].stage = "expired" => \/ db'[exchange'[r].sid] = NoSession
                                                  \/ db'[exchange'[r].sid].expires_at <= now'
  <2>1. exchange'[r] = exchange[r] /\ now' = now
    BY <1>2
  <2>2. exchange[r].stage = "expired" => exchange[r] # NoExchange
    BY DEF NoExchange
  <2>3. exchange[r] # NoExchange => /\ expiry'[exchange[r].sid] = expiry[exchange[r].sid]
                                    /\ db'[exchange[r].sid] = db[exchange[r].sid]
    BY <1>1, <1>2, <1>7
  <2> QED
    BY <1>7, <2>1, <2>2, <2>3
<1> QED
  BY <1>1, <1>2, <1>5, <1>6, <1>8 DEF BrokerInv, RowStep

\* Decoding a session token changes no row.
LEMMA DecodeStep ==
  ASSUME BrokerInv, NEW r \in Exchanges, NEW s \in Sids,
         NEW c \in Callers, DecodeToken(r, s, c)
  PROVE  BrokerInv' /\ UNCHANGED db
<1> DEFINE stage == IF now < expiry[s] THEN "decoded" ELSE "unauthorized"
           x == [stage |-> stage, sid |-> s, caller |-> c, refresh_token |-> 0]
<1>1. 0 \in Times
  BY BrokerBounds DEF Times
<1>2. x \in Exchange /\ x.sid = s /\ x.stage # "expired"
  BY <1>1 DEF Exchange, ExchangeStages
<1>3. /\ exchange' = [exchange EXCEPT ![r] = x] /\ expiry[s] # 0
      /\ UNCHANGED <<now, db, expiry, sso, aborts, overtaken, lost>>
  BY DEF DecodeToken, history
<1>4. /\ db' \in [Sids -> Session \cup {NoSession}] /\ \A z \in Sids : RowStep(z)
      /\ sso' \in [Sids -> Times] /\ aborts' \in 0..MaxAborts
      /\ overtaken' \subseteq Exchanges /\ lost' \subseteq Sids
  BY <1>3 DEF BrokerInv, BrokerTypeOK, RowStep
<1> HIDE DEF x
<1> QED
  BY <1>2, <1>3, <1>4, ExchangeStep

\* Time goes on: what was expired stays expired.
LEMMA BrokerTick ==
  ASSUME BrokerInv, Tick
  PROVE  BrokerInv' /\ UNCHANGED db
<1>1. UNCHANGED <<db, expiry, sso, exchange, aborts, overtaken, lost>> /\ now' = now + 1 /\ now \in Nat
        /\ now' \in Times
  BY BrokerBounds DEF BrokerInv, BrokerTypeOK, Tick, Times, history
<1>2. ASSUME NEW s \in Sids, db[s] # NoSession
      PROVE  db[s].expires_at \in Nat
  BY <1>2 DEF BrokerInv, BrokerTypeOK, Session
<1>3. ASSUME NEW r \in Exchanges, exchange[r].stage = "expired"
      PROVE  db[exchange[r].sid] = NoSession \/ db[exchange[r].sid].expires_at <= now'
  <2>1. exchange[r].sid \in Sids
    BY <1>3, ExchangeTypes
  <2> QED
    BY <1>1, <1>2, <1>3, <2>1 DEF BrokerInv
<1> QED
  BY <1>1, <1>3 DEF BrokerInv, BrokerTypeOK

\* The invariant holds before any session exists.
LEMMA BrokerStart ==
  ASSUME BrokerInit
  PROVE  BrokerInv
<1>1. NoExchange \in Exchange /\ NoExchange.stage # "expired"
  BY DEF NoExchange, Exchange
<1> QED
  BY <1>1, BrokerBounds DEF BrokerInv, BrokerInit, BrokerTypeOK, Times

\* Every step keeps the invariant, and a row lives and ends as RowLifecycle says.
LEMMA BrokerStep ==
  ASSUME BrokerInv, [BrokerNext]_brokerVars
  PROVE  BrokerInv' /\ \A s \in Sids : RowStep(s)
<1>1. UNCHANGED db => \A s \in Sids : RowStep(s)
  BY DEF RowStep
<1>2. ASSUME NEW s \in Sids, NEW c \in Callers, CreateSession(s, c)
      PROVE  BrokerInv' /\ \A z \in Sids : RowStep(z)
  BY <1>2, CreateStep
<1>3. ASSUME NEW s \in Sids, NEW c \in Callers, NEW r \in Exchanges, DecodeToken(r, s, c)
      PROVE  BrokerInv' /\ UNCHANGED db
  BY <1>3, DecodeStep
<1>4. ASSUME NEW r \in Exchanges, Handler(r) \/ Abort(r)
      PROVE  BrokerInv' /\ \A s \in Sids : RowStep(s)
  <2>1. CASE DeleteSession(r) \/ UpdateRefreshToken(r)
    BY <2>1, WritingExchange
  <2>2. CASE \/ GetSession(r) \/ KeycloakRefresh(r) \/ KeycloakKeepsToken(r)
             \/ KeycloakRefuse(r) \/ Answer(r) \/ Abort(r)
    <3>1. UNCHANGED db
      BY <2>2 DEF GetSession, KeycloakRefresh, KeycloakKeepsToken,
                  KeycloakRefuse, Answer, Abort
    <3> QED
      BY <1>1, <2>2, <3>1, QuietExchange
  <2> QED
    BY <1>4, <2>1, <2>2 DEF Handler
<1>5. CASE Tick
  BY <1>1, <1>5, BrokerTick
<1>6. CASE UNCHANGED brokerVars
  <2>1. UNCHANGED <<now, db, expiry, sso, exchange, aborts, overtaken, lost>>
    BY <1>6 DEF brokerVars, history
  <2> QED
    BY <1>1, <2>1 DEF BrokerInv, BrokerTypeOK
<1> QED
  BY <1>1, <1>2, <1>3, <1>4, <1>5, <1>6 DEF BrokerNext

\* The sessions table, Keycloak's logins and the exchanges of broker.py keep their types,
\* however the exchanges of one session overlap, crash and outlive it.
THEOREM BrokerTypes == BrokerSpec => []BrokerTypeOK
<1>1. BrokerInit => BrokerInv
  BY BrokerStart
<1>2. BrokerInv /\ [BrokerNext]_brokerVars => BrokerInv'
  BY BrokerStep
<1>3. BrokerInv => BrokerTypeOK
  BY DEF BrokerInv
<1> QED
  BY <1>1, <1>2, <1>3, PTL DEF BrokerSpec

\* delete_session removes only rows that have expired, and neither it nor a late
\* update_refresh_token brings a row back or changes whose it is.
THEOREM RowsEndOnce == BrokerSpec => RowLifecycle
<1>1. BrokerInit => BrokerInv
  BY BrokerStart
<1>2. BrokerInv /\ [BrokerNext]_brokerVars => BrokerInv'
  BY BrokerStep
<1>3. BrokerInv /\ [BrokerNext]_brokerVars => [\A s \in Sids : RowStep(s)]_brokerVars
  BY BrokerStep
<1>4. [\A s \in Sids : RowStep(s)]_brokerVars
        => [\A s \in Sids :
              /\ expiry[s] # 0 /\ db[s] = NoSession => db'[s] = NoSession
              /\ db[s] # NoSession =>
                   \/ db'[s] = NoSession /\ db[s].expires_at <= now
                   \/ /\ db'[s].caller = db[s].caller
                      /\ db'[s].expires_at = db[s].expires_at]_brokerVars
  BY DEF RowStep
<1> QED
  BY <1>1, <1>2, <1>3, <1>4, PTL DEF BrokerSpec, RowLifecycle

\* A step in which no exchange stores, gets or drops a new token keeps what is known of them.
LEMMA NoTokenMoves ==
  ASSUME BrokerInv, NewestHeld, UNCHANGED <<sso, overtaken, lost>>,
         \A r \in Exchanges : \/ exchange'[r] = exchange[r]
                              \/ exchange[r].stage # "refreshed" /\ exchange'[r].stage # "refreshed",
         \A s \in Sids : db'[s] = db[s] \/ db'[s] = NoSession
  PROVE  NewestHeld'
  BY DEF NewestHeld

\* Every step keeps what is known of the newest tokens.
LEMMA NewestStep ==
  ASSUME BrokerInv, NewestHeld, [BrokerNext]_brokerVars
  PROVE  NewestHeld'
<1>0. /\ exchange \in [Exchanges -> Exchange] /\ db \in [Sids -> Session \cup {NoSession}]
      /\ sso \in [Sids -> Times]
  BY DEF BrokerInv, BrokerTypeOK
<1>t. \A r \in Exchanges : exchange[r].stage # "idle" =>
        /\ exchange[r] \in [stage : ExchangeStages \ {"idle"}, sid : Sids, caller : Callers,
                            refresh_token : Times]
        /\ exchange[r].sid \in Sids /\ expiry[exchange[r].sid] # 0
  BY ExchangeTypes
<1>1. ASSUME NEW s \in Sids, NEW c \in Callers, CreateSession(s, c) PROVE NewestHeld'
  <2>1. /\ db' = [db EXCEPT ![s] = [caller |-> c, expires_at |-> now + SessionTtl, refresh_token |-> now]]
        /\ sso' = [sso EXCEPT ![s] = now] /\ UNCHANGED <<exchange, overtaken, lost>> /\ expiry[s] = 0
    BY <1>1 DEF CreateSession, PutSession, history
  <2>2. \A r \in Exchanges : exchange[r].stage = "refreshed" => exchange[r].sid # s
    BY <1>t, <2>1
  <2>3. db'[s].refresh_token = sso'[s] /\ \A z \in Sids : z # s => db'[z] = db[z] /\ sso'[z] = sso[z]
    BY <1>0, <2>1
  <2> QED
    BY <1>t, <2>1, <2>2, <2>3 DEF NewestHeld
<1>2. ASSUME NEW s \in Sids, NEW c \in Callers, NEW r \in Exchanges, DecodeToken(r, s, c)
      PROVE  NewestHeld'
  <2>1. UNCHANGED <<db, sso, overtaken, lost>> /\ exchange[r].stage # "refreshed" /\ exchange'[r].stage # "refreshed"
    BY <1>0, <1>2 DEF DecodeToken, history, NoExchange
  <2>2. \A q \in Exchanges : q # r => exchange'[q] = exchange[q]
    BY <1>0, <1>2 DEF DecodeToken
  <2> QED
    BY <2>1, <2>2, NoTokenMoves
<1>3. ASSUME NEW r \in Exchanges,
             \/ GetSession(r) \/ DeleteSession(r) \/ KeycloakKeepsToken(r)
             \/ KeycloakRefuse(r) \/ Answer(r)
      PROVE  NewestHeld'
  <2>1. UNCHANGED <<sso, overtaken, lost>> /\ exchange[r].stage # "refreshed"
    BY <1>3 DEF GetSession, DeleteSession, KeycloakKeepsToken, KeycloakRefuse, Answer, Answers, history
  <2>2. \A s \in Sids : db'[s] = db[s] \/ db'[s] = NoSession
    BY <1>0, <1>3 DEF GetSession, DeleteSession, KeycloakKeepsToken, KeycloakRefuse, Answer
  <2>3. exchange[r] \in [stage : ExchangeStages \ {"idle"}, sid : Sids, caller : Callers, refresh_token : Times]
    BY <1>3, <1>t DEF GetSession, DeleteSession, KeycloakKeepsToken, KeycloakRefuse, Answer, Answers
  <2>4. /\ exchange'[r].stage # "refreshed"
        /\ \A q \in Exchanges : q # r => exchange'[q] = exchange[q]
    BY <1>0, <1>3, <2>3 DEF GetSession, DeleteSession, KeycloakKeepsToken, KeycloakRefuse, Answer, Advance,
                            NoExchange
  <2> QED
    BY <2>1, <2>2, <2>4, NoTokenMoves
<1>4. ASSUME NEW r \in Exchanges, KeycloakRefresh(r) PROVE NewestHeld'
  <2> DEFINE s == exchange[r].sid
  <2>1. /\ exchange[r] \in [stage : ExchangeStages \ {"idle"}, sid : Sids, caller : Callers, refresh_token : Times]
        /\ s \in Sids /\ exchange[r].stage = "refreshing"
    BY <1>4, <1>t DEF KeycloakRefresh
  <2>2. /\ exchange'[r].stage = "refreshed" /\ exchange'[r].sid = s /\ exchange'[r].refresh_token = now
        /\ \A q \in Exchanges : q # r => exchange'[q] = exchange[q]
    BY <1>0, <1>4, <2>1 DEF KeycloakRefresh
  <2>3. sso'[s] = now /\ (\A z \in Sids : z # s => sso'[z] = sso[z]) /\ UNCHANGED <<db, lost>>
    BY <1>0, <1>4, <2>1 DEF KeycloakRefresh
  <2>4. /\ r \notin overtaken' /\ \A q \in Exchanges : q \in overtaken /\ q # r => q \in overtaken'
        /\ \A q \in Exchanges : q # r /\ exchange[q].stage = "refreshed" /\ exchange[q].sid = s
                              => q \in overtaken'
        /\ \A q \in Exchanges : q # r /\ q \in overtaken' /\ q \notin overtaken => exchange[q].sid = s
    BY <1>4 DEF KeycloakRefresh, Storing
  <2>5. \A q \in Exchanges : exchange'[q].stage = "refreshed" /\ q \notin overtaken' =>
                             exchange'[q].refresh_token = sso'[exchange'[q].sid]
    BY <1>t, <2>2, <2>3, <2>4 DEF NewestHeld
  <2>6. ASSUME NEW z \in Sids, z # s, db'[z] # NoSession, z \notin lost', db'[z].refresh_token # sso'[z]
        PROVE  \E q \in Exchanges : exchange'[q].stage = "refreshed" /\ exchange'[q].sid = z /\ q \notin overtaken'
    <3>1. PICK q \in Exchanges : exchange[q].stage = "refreshed" /\ exchange[q].sid = z /\ q \notin overtaken
      BY <2>3, <2>6 DEF NewestHeld
    <3> QED
      BY <2>1, <2>2, <2>4, <2>6, <3>1
  <2> HIDE DEF s
  <2> QED
    BY <2>1, <2>2, <2>4, <2>5, <2>6 DEF NewestHeld
<1>5. ASSUME NEW r \in Exchanges, UpdateRefreshToken(r) \/ Abort(r) PROVE NewestHeld'
  <2> DEFINE s == exchange[r].sid
  <2>1. /\ exchange[r].stage # "idle"
        /\ exchange[r] \in [stage : ExchangeStages \ {"idle"}, sid : Sids, caller : Callers, refresh_token : Times]
        /\ s \in Sids
    BY <1>5, <1>t DEF UpdateRefreshToken, Abort
  <2>2. /\ exchange'[r].stage # "refreshed"
        /\ \A q \in Exchanges : q # r => exchange'[q] = exchange[q]
    BY <1>0, <1>5, <2>1 DEF UpdateRefreshToken, Abort, Advance, NoExchange
  <2>3. /\ sso' = sso /\ overtaken' = overtaken \ {r}
        /\ \A z \in Sids : z # s => db'[z] = db[z] /\ (z \in lost' <=> z \in lost)
    BY <1>0, <1>5, <2>1 DEF UpdateRefreshToken, Abort, RecordStored
  <2>4. \/ s \in lost' \/ db'[s] = NoSession \/ db'[s].refresh_token = sso'[s]
        \/ /\ db'[s] = db[s] /\ (s \in lost' <=> s \in lost)
           /\ exchange[r].stage # "refreshed" \/ r \in overtaken
    <3>1. CASE Abort(r)
      BY <3>1, <2>1 DEF Abort
    <3>2. CASE UpdateRefreshToken(r) /\ r \in overtaken
      BY <3>2, <2>1 DEF UpdateRefreshToken, RecordStored
    <3>3. CASE UpdateRefreshToken(r) /\ r \notin overtaken /\ db[s] = NoSession
      BY <3>3, <2>1 DEF UpdateRefreshToken
    <3>4. CASE UpdateRefreshToken(r) /\ r \notin overtaken /\ db[s] # NoSession
      <4>1. exchange[r].refresh_token = sso[s]
        BY <3>4 DEF NewestHeld, UpdateRefreshToken
      <4>2. db[s] \in Session /\ db'[s] = [db[s] EXCEPT !.refresh_token = exchange[r].refresh_token]
        BY <1>0, <2>1, <3>4 DEF UpdateRefreshToken
      <4> QED
        BY <2>3, <4>1, <4>2 DEF Session
    <3> QED
      BY <1>5, <3>1, <3>2, <3>3, <3>4
  <2>5. \A q \in Exchanges : exchange'[q].stage = "refreshed" /\ q \notin overtaken' =>
                             exchange'[q].refresh_token = sso'[exchange'[q].sid]
    BY <2>2, <2>3 DEF NewestHeld
  <2>6. ASSUME NEW z \in Sids, db'[z] # NoSession, z \notin lost', db'[z].refresh_token # sso'[z]
        PROVE  \E q \in Exchanges : exchange'[q].stage = "refreshed" /\ exchange'[q].sid = z /\ q \notin overtaken'
    <3>1. db'[z] = db[z] /\ z \notin lost /\ (z = s => exchange[r].stage # "refreshed" \/ r \in overtaken)
      BY <2>3, <2>4, <2>6
    <3>2. PICK q \in Exchanges : exchange[q].stage = "refreshed" /\ exchange[q].sid = z /\ q \notin overtaken
      BY <2>3, <2>6, <3>1 DEF NewestHeld
    <3>3. q # r
      BY <3>1, <3>2
    <3> QED
      BY <2>2, <2>3, <3>2, <3>3
  <2> HIDE DEF s
  <2> QED
    BY <2>5, <2>6 DEF NewestHeld
<1>6. CASE Tick \/ UNCHANGED brokerVars
  <2>1. UNCHANGED <<db, sso, exchange, overtaken, lost>>
    BY <1>6 DEF Tick, brokerVars, history
  <2> QED
    BY <2>1, NoTokenMoves
<1> QED
  BY <1>1, <1>2, <1>3, <1>4, <1>5, <1>6 DEF BrokerNext, Handler

\* The row has the newest refresh token of its login, or an exchange is about to store it,
\* unless an exchange that held it ended before update_refresh_token or an earlier answer
\* of Keycloak was stored after it, and only until the next exchange that is not overtaken.
THEOREM NewestTokenStored == BrokerSpec => []NewestTokenKept
<1>1. BrokerInit => BrokerInv /\ NewestHeld
  <2>1. BrokerInit => NewestHeld
    BY DEF BrokerInit, NewestHeld, NoExchange
  <2> QED
    BY <2>1, BrokerStart
<1>2. BrokerInv /\ NewestHeld /\ [BrokerNext]_brokerVars => BrokerInv' /\ NewestHeld'
  BY BrokerStep, NewestStep
<1>3. NewestHeld => NewestTokenKept
  <2> SUFFICES ASSUME NewestHeld, NEW s \in Sids, db[s] # NoSession, s \notin lost, db[s].refresh_token # sso[s]
               PROVE  \E r \in Exchanges : /\ exchange[r].stage = "refreshed" /\ exchange[r].sid = s
                                           /\ exchange[r].refresh_token = sso[s]
    BY DEF NewestTokenKept
  <2>1. PICK r \in Exchanges : exchange[r].stage = "refreshed" /\ exchange[r].sid = s /\ r \notin overtaken
    BY DEF NewestHeld
  <2> QED
    BY <2>1 DEF NewestHeld
<1> QED
  BY <1>1, <1>2, <1>3, PTL DEF BrokerSpec

----------------------------------------------------------------------------
(* The rate limiter.                                                       *)

\* The counters of this minute are the requests made, whatever was cleaned up, and what
\* passed of them is what the limit allows.
PipelineInv ==
  /\ PipelineTypeOK
  /\ counts = [w \in Workers |-> counts[w]]
  /\ NoPileUp
  /\ \A w \in Workers, c \in Identities, p \in AllPaths :
       CountOf(counts[w], Key(c, p)) = made[<<w, c, p>>]
  /\ \A s \in Sources :
       passed[s] = IF made[s] <= RpmLimit THEN made[s] ELSE RpmLimit

\* What a step may do to the callers of a worker, as LimitIsExact says.
ExactStep ==
  /\ \A s \in Sources : passed'[s] <= RpmLimit
  /\ \A r \in Requests :
       req'[r].stage = "limited" /\ req[r].stage # "limited"
         => passed[SourceOf(r)] >= RpmLimit

Underway == [stage : {"arrived", "handling", "done", "limited"}, worker : Workers,
             caller : Identities, path : AllPaths,
             answer : {"none", "200", "401", "500", "503", "504"}]

\* The counters after a request was counted and the old ones were cleaned up: those of this
\* minute are all there, and only the request's own has grown.
LEMMA CleanedUp ==
  ASSUME NEW count, NEW key, key[1] = minute,
         \A k \in DOMAIN count : count[k] \in Nat \ {0}
  PROVE  LET after == Cleanup(Bump(count, key))
         IN /\ DOMAIN after \subseteq DOMAIN count \cup {key}
            /\ \A k \in DOMAIN after : after[k] \in Nat \ {0}
            /\ \A k : k[1] = minute =>
                 CountOf(after, k)
                   = CountOf(count, k) + IF k = key THEN 1 ELSE 0
            /\ Cardinality(DOMAIN after) > MaxKeys => \A k \in DOMAIN after : k[1] = minute
<1> DEFINE bumped == Bump(count, key)
           after == Cleanup(bumped)
<1>1. /\ DOMAIN bumped = DOMAIN count \cup {key}
      /\ \A k \in DOMAIN bumped :
           bumped[k] = CountOf(count, k) + IF k = key THEN 1 ELSE 0
  BY DEF Bump
<1>2. \A k : CountOf(count, k) \in Nat
               /\ (k \in DOMAIN count => CountOf(count, k) # 0)
               /\ (k \notin DOMAIN count => CountOf(count, k) = 0)
  BY DEF CountOf
<1>3. \A k \in DOMAIN bumped : bumped[k] \in Nat \ {0}
  BY <1>1, <1>2
<1>4. /\ DOMAIN after \subseteq DOMAIN bumped
      /\ \A k \in DOMAIN after : after[k] = bumped[k]
      /\ \A k \in DOMAIN bumped : k[1] = minute => k \in DOMAIN after
      /\ Cardinality(DOMAIN after) > MaxKeys => \A k \in DOMAIN after : k[1] = minute
  <2> HIDE DEF bumped
  <2>1. CASE Cardinality(DOMAIN bumped) > MaxKeys
    <3>1. after = [k \in {k \in DOMAIN bumped : k[1] = minute} |-> bumped[k]]
      BY <2>1 DEF Cleanup
    <3> QED
      BY <3>1
  <2>2. CASE ~(Cardinality(DOMAIN bumped) > MaxKeys)
    <3>1. after = bumped
      BY <2>2 DEF Cleanup
    <3> QED
      BY <2>2, <3>1
  <2> QED
    BY <2>1, <2>2
<1> HIDE DEF bumped, after
<1>5. ASSUME NEW k, k[1] = minute
      PROVE  CountOf(after, k) = CountOf(count, k) + IF k = key THEN 1 ELSE 0
  <2>1. CASE k \in DOMAIN bumped
    <3>1. CountOf(after, k) = bumped[k]
      BY <1>4, <1>5, <2>1 DEF CountOf
    <3> QED
      BY <1>1, <2>1, <3>1
  <2>2. CASE k \notin DOMAIN bumped
    <3>1. k \notin DOMAIN after /\ k \notin DOMAIN count /\ k # key
      BY <1>1, <1>4, <2>2
    <3>2. CountOf(after, k) = 0 /\ CountOf(count, k) = 0
      BY <3>1 DEF CountOf
    <3> QED
      BY <3>1, <3>2
  <2> QED
    BY <2>1, <2>2
<1> QED
  BY <1>1, <1>3, <1>4, <1>5 DEF after, bumped

\* A request goes on, with the counters as they are.
LEMMA RequestStep ==
  ASSUME PipelineInv, NEW r \in Requests, NEW x \in {Idle} \cup Underway,
         req' = [req EXCEPT ![r] = x], x.stage # "limited",
         UNCHANGED <<minute, counts, made, passed>>
  PROVE  PipelineInv' /\ ExactStep
<1>1. PipelineTypeOK'
  BY DEF PipelineInv, PipelineTypeOK, Underway
<1>2. \A q \in Requests : req'[q].stage = "limited" => req[q].stage = "limited"
  BY DEF PipelineInv, PipelineTypeOK
<1>3. PipelineInv'
  BY <1>1 DEF PipelineInv, NoPileUp, Key
<1>4. ASSUME NEW s \in Sources
      PROVE  passed'[s] <= RpmLimit
  <2>1. made[s] \in Nat /\ passed[s] = IF made[s] <= RpmLimit THEN made[s] ELSE RpmLimit
    BY DEF PipelineInv, PipelineTypeOK
  <2> QED
    BY <2>1, PipelineAssumption
<1> QED
  BY <1>2, <1>3, <1>4 DEF ExactStep

\* A request is counted, and it passes exactly when the limit is not used up.
LEMMA EnforceStep ==
  ASSUME PipelineInv, NEW r \in Requests,
         req[r].stage = "arrived", Enforce(r)
  PROVE  PipelineInv' /\ ExactStep
<1> DEFINE w == req[r].worker
           c == req[r].caller
           p == req[r].path
           s == <<w, c, p>>
           key == <<minute, p, c>>
           after == Cleanup(Bump(counts[w], key))
           ok == CountOf(after, key) <= RpmLimit
<1>1. req[r] \in Underway
  BY DEF PipelineInv, PipelineTypeOK, Idle, Underway
<1>2. w \in Workers /\ c \in Identities /\ p \in AllPaths /\ s \in Sources
  BY <1>1 DEF Underway, Sources
<1>3. /\ counts' = [counts EXCEPT ![w] = after]
      /\ made' = [made EXCEPT ![s] = @ + 1]
      /\ passed' = IF ok THEN [passed EXCEPT ![s] = @ + 1] ELSE passed
      /\ req' = IF ok THEN [req EXCEPT ![r].stage = "handling"]
                ELSE [req EXCEPT ![r].stage = "limited",
                                 ![r].answer = Answered(r, "500")]
      /\ minute' = minute
  BY DEF Enforce, SourceOf, Key
<1>4. /\ minute \in 0..MaxMinutes /\ made \in [Sources -> Nat]
      /\ passed \in [Sources -> Nat] /\ RpmLimit \in Nat
      /\ req \in [Requests -> {Idle} \cup Underway]
  BY PipelineAssumption DEF PipelineInv, PipelineTypeOK, Underway
<1>5. \A v \in Workers : /\ DOMAIN counts[v] \subseteq (0..minute) \X AllPaths \X Identities
                         /\ \A k \in DOMAIN counts[v] : counts[v][k] \in Nat \ {0}
  BY DEF PipelineInv, PipelineTypeOK
<1>6. /\ DOMAIN after \subseteq DOMAIN counts[w] \cup {key}
      /\ \A k \in DOMAIN after : after[k] \in Nat \ {0}
      /\ \A k : k[1] = minute =>
           CountOf(after, k)
             = CountOf(counts[w], k) + IF k = key THEN 1 ELSE 0
      /\ Cardinality(DOMAIN after) > MaxKeys => \A k \in DOMAIN after : k[1] = minute
  <2>1. key[1] = minute
    OBVIOUS
  <2>2. \A k \in DOMAIN counts[w] : counts[w][k] \in Nat \ {0}
    BY <1>2, <1>5
  <2> HIDE DEF key
  <2> QED
    BY <2>1, <2>2, CleanedUp
<1>7. key[1] = minute /\ key \in (0..minute) \X AllPaths \X Identities
  BY <1>2, <1>4
<1>8. ASSUME NEW v \in Workers, NEW d \in Identities, NEW q \in AllPaths
      PROVE  CountOf(counts[v], <<minute, q, d>>) = made[<<v, d, q>>]
  BY DEF PipelineInv, Key
<1>9. CountOf(after, key) = made[s] + 1
  BY <1>2, <1>6, <1>7, <1>8
<1> DEFINE used == made[s]
<1>10. used \in Nat /\ (ok <=> used + 1 <= RpmLimit)
  BY <1>2, <1>4, <1>9
<1>11. passed[s] = IF used <= RpmLimit THEN used ELSE RpmLimit
  BY <1>2 DEF PipelineInv
<1> HIDE DEF after, ok
<1>12. counts' = [v \in Workers |-> counts'[v]]
         /\ \A v \in Workers : counts'[v] = IF v = w THEN after ELSE counts[v]
  BY <1>2, <1>3 DEF PipelineInv
<1>13. /\ made' \in [Sources -> Nat] /\ passed' \in [Sources -> Nat]
       /\ made'[s] = used + 1 /\ passed'[s] = IF ok THEN passed[s] + 1 ELSE passed[s]
       /\ \A z \in Sources : z # s => made'[z] = made[z] /\ passed'[z] = passed[z]
  <2> HIDE DEF s
  <2> QED
    BY <1>2, <1>3, <1>4 DEF used
<1>14. /\ req' \in [Requests -> {Idle} \cup Underway]
       /\ \A q \in Requests : q # r => req'[q] = req[q]
       /\ ok => req'[r].stage = "handling"
  <2>1. CASE ok
    <3> DEFINE x == [req[r] EXCEPT !.stage = "handling"]
    <3>1. x \in Underway /\ x.stage = "handling"
      BY <1>1 DEF Underway
    <3>2. req' = [req EXCEPT ![r] = x]
      BY <1>3, <2>1
    <3> HIDE DEF x
    <3> QED
      BY <1>4, <3>1, <3>2
  <2>2. CASE ~ok
    <3> DEFINE x == [req[r] EXCEPT !.stage = "limited", !.answer = Answered(r, "500")]
    <3>1. Answered(r, "500") \in {"none", "200", "401", "500", "503", "504"}
      BY <1>1 DEF Underway, Answered
    <3>2. x \in Underway
      BY <1>1, <3>1 DEF Underway
    <3>3. req' = [req EXCEPT ![r] = x]
      BY <1>3, <2>2
    <3> HIDE DEF x
    <3> QED
      BY <1>4, <2>2, <3>2, <3>3
  <2> QED
    BY <2>1, <2>2
<1>15. PipelineTypeOK'
  <2>1. ASSUME NEW v \in Workers
        PROVE  /\ DOMAIN counts'[v] \subseteq (0..minute) \X AllPaths \X Identities
               /\ \A k \in DOMAIN counts'[v] : counts'[v][k] \in Nat \ {0}
    <3> HIDE DEF key, w
    <3> QED
      BY <1>2, <1>5, <1>6, <1>7, <1>12
  <2> QED
    BY <1>3, <1>4, <1>13, <1>14, <2>1 DEF PipelineTypeOK, Underway
<1>16. NoPileUp'
  <2> SUFFICES ASSUME NEW v \in Workers, Cardinality(DOMAIN counts'[v]) > MaxKeys,
                      NEW j \in DOMAIN counts'[v], NEW k \in DOMAIN counts'[v]
               PROVE  j[1] = k[1]
    BY DEF NoPileUp
  <2>1. CASE v = w
    BY <1>6, <1>12, <2>1
  <2>2. CASE v # w
    <3>1. counts'[v] = counts[v]
      BY <1>12, <2>2
    <3> QED
      BY <3>1 DEF PipelineInv, NoPileUp
  <2> QED
    BY <2>1, <2>2
<1>17. ASSUME NEW v \in Workers, NEW d \in Identities, NEW q \in AllPaths
       PROVE  CountOf(counts'[v], <<minute, q, d>>) = made'[<<v, d, q>>]
  <2> DEFINE k == <<minute, q, d>>
             z == <<v, d, q>>
  <2>1. z \in Sources /\ k[1] = minute
    BY DEF Sources
  <2>2. CountOf(counts[v], k) = made[z]
    BY <1>8
  <2>3. CASE v # w
    <3>1. counts'[v] = counts[v] /\ z # s
      BY <1>12, <2>3
    <3> QED
      BY <1>13, <2>1, <2>2, <3>1
  <2>4. CASE v = w
    <3>1. k = key <=> z = s
      BY <2>4
    <3>2. counts'[v] = after
      BY <1>12, <2>4
    <3>3. CountOf(after, k) = made[z] + IF k = key THEN 1 ELSE 0
      BY <1>6, <2>1, <2>2, <2>4
    <3>4. made[z] \in Nat
      BY <1>4, <2>1
    <3>5. CountOf(counts'[v], k) = made'[z]
      <4> HIDE DEF k, key, z, s
      <4> QED
        BY <1>13, <2>1, <3>1, <3>2, <3>3, <3>4 DEF used
    <3> QED
      BY <3>5
  <2> QED
    BY <2>3, <2>4
<1>18. ASSUME NEW z \in Sources
       PROVE  passed'[z] = IF made'[z] <= RpmLimit THEN made'[z] ELSE RpmLimit
  <2>1. passed[z] = IF made[z] <= RpmLimit THEN made[z] ELSE RpmLimit
    BY DEF PipelineInv
  <2>2. CASE z = s
    BY <1>4, <1>10, <1>11, <1>13, <2>2
  <2>3. CASE z # s
    BY <1>13, <2>1, <2>3
  <2> QED
    BY <2>2, <2>3
<1>19. PipelineInv'
  <2>1. ASSUME NEW v \in Workers, NEW d \in Identities, NEW q \in AllPaths
        PROVE  (CountOf(counts[v], Key(d, q)) = made[<<v, d, q>>])'
    BY <1>3, <1>17 DEF Key
  <2> QED
    BY <1>12, <1>15, <1>16, <1>18, <2>1 DEF PipelineInv
<1>20. \A z \in Sources : passed'[z] <= RpmLimit
  BY <1>4, <1>13, <1>18
<1>21. ASSUME NEW q \in Requests, req'[q].stage = "limited", req[q].stage # "limited"
       PROVE  passed[SourceOf(q)] >= RpmLimit
  <2>1. q = r
    BY <1>14, <1>21
  <2>2. ASSUME ok
        PROVE  FALSE
    BY <1>14, <1>21, <2>1, <2>2
  <2>3. ~(used + 1 <= RpmLimit)
    BY <1>10, <2>2
  <2>4. SourceOf(q) = s
    BY <2>1 DEF SourceOf
  <2> QED
    BY <1>4, <1>10, <1>11, <2>3, <2>4
<1> QED
  BY <1>19, <1>20, <1>21 DEF ExactStep

\* The actions of a request that the limiter takes no part in.
LEMMA PassiveStep ==
  ASSUME PipelineInv, NEW r \in Requests,
         \/ \E w \in Workers, c \in Identities, p \in AllPaths :
              Arrive(r, w, c, p)
         \/ IdentityRefused(r) \/ AnonymousRefused(r) \/ Unlimited(r)
         \/ HandlerEnds(r) \/ TimeOut(r) \/ End(r)
  PROVE  PipelineInv' /\ ExactStep
<1>1. UNCHANGED <<minute, counts, made, passed>>
  BY DEF Arrive, IdentityRefused, AnonymousRefused, Unlimited,
         HandlerEnds, TimeOut, End, Respond
<1>2. req[r].stage \in {"arrived", "handling"} => req[r] \in Underway
  BY DEF PipelineInv, PipelineTypeOK, Idle, Underway
<1>3. ASSUME NEW code \in {"200", "401", "500", "503"}, Respond(r, code),
             req[r].stage \in {"arrived", "handling"}
      PROVE  PipelineInv' /\ ExactStep
  <2> DEFINE x == [req[r] EXCEPT !.stage = "done", !.answer = Answered(r, code)]
  <2>1. Answered(r, code) \in {"none", "200", "401", "500", "503", "504"}
    BY <1>2, <1>3 DEF Underway, Answered
  <2>2. x \in Underway /\ x.stage = "done"
    BY <1>2, <1>3, <2>1 DEF Underway
  <2>3. req' = [req EXCEPT ![r] = x]
    BY <1>3 DEF Respond
  <2> HIDE DEF x
  <2> QED
    BY <1>1, <2>2, <2>3, RequestStep
<1>4. ASSUME NEW w \in Workers, NEW c \in Identities, NEW p \in AllPaths,
             Arrive(r, w, c, p)
      PROVE  PipelineInv' /\ ExactStep
  <2> DEFINE x == [stage |-> "arrived", worker |-> w, caller |-> c, path |-> p, answer |-> "none"]
  <2>1. x \in Underway /\ x.stage = "arrived"
    BY DEF Underway
  <2>2. req' = [req EXCEPT ![r] = x]
    BY <1>4 DEF Arrive
  <2> HIDE DEF x
  <2> QED
    BY <1>1, <2>1, <2>2, RequestStep
<1>5. CASE IdentityRefused(r) \/ AnonymousRefused(r) \/ HandlerEnds(r)
  BY <1>3, <1>5 DEF IdentityRefused, AnonymousRefused, HandlerEnds
<1>6. CASE Unlimited(r)
  <2> DEFINE x == [req[r] EXCEPT !.stage = "handling"]
  <2>1. x \in Underway /\ x.stage = "handling"
    BY <1>2, <1>6 DEF Underway, Unlimited
  <2>2. req' = [req EXCEPT ![r] = x]
    BY <1>6 DEF Unlimited
  <2> HIDE DEF x
  <2> QED
    BY <1>1, <2>1, <2>2, RequestStep
<1>7. CASE TimeOut(r)
  <2> DEFINE x == [req[r] EXCEPT !.answer = "504"]
  <2>1. x \in Underway /\ x.stage # "limited"
    BY <1>2, <1>7 DEF Underway, TimeOut
  <2>2. req' = [req EXCEPT ![r] = x]
    BY <1>7 DEF TimeOut
  <2> HIDE DEF x
  <2> QED
    BY <1>1, <2>1, <2>2, RequestStep
<1>8. CASE End(r)
  <2>1. req' = [req EXCEPT ![r] = Idle]
    BY <1>8 DEF End
  <2>2. Idle.stage # "limited"
    BY DEF Idle
  <2> QED
    BY <1>1, <2>1, <2>2, RequestStep
<1> QED
  BY <1>4, <1>5, <1>6, <1>7, <1>8

\* No counter is of a minute that has not begun.
LEMMA MinuteStep ==
  ASSUME PipelineInv, NextMinute
  PROVE  PipelineInv' /\ ExactStep
<1>1. /\ minute \in Nat /\ minute' = minute + 1 /\ minute' \in 0..MaxMinutes
      /\ made' = [s \in Sources |-> 0] /\ passed' = [s \in Sources |-> 0]
      /\ counts' = counts /\ req' = req /\ RpmLimit \in Nat
  BY PipelineAssumption DEF PipelineInv, PipelineTypeOK, NextMinute
<1>2. \A w \in Workers : DOMAIN counts[w] \subseteq (0..minute) \X AllPaths \X Identities
  BY DEF PipelineInv, PipelineTypeOK
<1>3. PipelineTypeOK'
  <2>1. 0..minute \subseteq 0..minute'
    BY <1>1
  <2>2. \A w \in Workers :
          /\ DOMAIN counts'[w] \subseteq (0..minute') \X AllPaths \X Identities
          /\ \A key \in DOMAIN counts'[w] : counts'[w][key] \in Nat \ {0}
    BY <1>1, <1>2, <2>1 DEF PipelineInv, PipelineTypeOK
  <2> QED
    BY <1>1, <2>2 DEF PipelineInv, PipelineTypeOK
<1>4. ASSUME NEW w \in Workers, NEW c \in Identities, NEW p \in AllPaths
      PROVE  (CountOf(counts[w], Key(c, p)) = made[<<w, c, p>>])'
  <2>1. <<w, c, p>> \in Sources
    BY DEF Sources
  <2>2. <<minute', p, c>> \notin DOMAIN counts[w]
    BY <1>1, <1>2
  <2> QED
    BY <1>1, <2>1, <2>2 DEF CountOf, Key
<1>5. NoPileUp'
  BY <1>1 DEF PipelineInv, NoPileUp
<1> QED
  BY <1>1, <1>3, <1>4, <1>5 DEF PipelineInv, ExactStep

\* The invariant holds with empty counters.
LEMMA PipelineStart ==
  ASSUME PipelineInit
  PROVE  PipelineInv
<1> DEFINE Empty == [key \in {} |-> 0]
<1>1. /\ minute = 0 /\ counts = [w \in Workers |-> Empty]
      /\ req = [r \in Requests |-> Idle]
      /\ made = [s \in Sources |-> 0] /\ passed = [s \in Sources |-> 0]
      /\ MaxMinutes \in Nat /\ RpmLimit \in Nat
  BY PipelineAssumption DEF PipelineInit
<1>2. DOMAIN Empty = {}
  OBVIOUS
<1> HIDE DEF Empty
<1>3. \A w \in Workers : counts[w] = Empty
  BY <1>1
<1>4. PipelineTypeOK
  BY <1>1, <1>2, <1>3 DEF PipelineTypeOK
<1>5. NoPileUp
  BY <1>2, <1>3 DEF NoPileUp
<1>6. ASSUME NEW w \in Workers, NEW c \in Identities, NEW p \in AllPaths
      PROVE  CountOf(counts[w], Key(c, p)) = made[<<w, c, p>>]
  BY <1>1, <1>2, <1>3 DEF CountOf, Sources
<1> QED
  BY <1>1, <1>4, <1>5, <1>6 DEF PipelineInv

\* Every step keeps the invariant, and the limiter decides exactly.
LEMMA PipelineStep ==
  ASSUME PipelineInv, [PipelineNext]_pipelineVars
  PROVE  PipelineInv' /\ (PipelineNext => ExactStep)
<1>1. CASE NextMinute
  BY <1>1, MinuteStep
<1>2. ASSUME NEW r \in Requests, SessionGate(r) \/ UserGate(r)
      PROVE  PipelineInv' /\ ExactStep
  BY <1>2, EnforceStep DEF SessionGate, UserGate
<1>3. CASE UNCHANGED pipelineVars
  <2>1. UNCHANGED <<minute, counts, req, made, passed>>
    BY <1>3 DEF pipelineVars
  <2>2. PipelineInv'
    BY <2>1 DEF PipelineInv, PipelineTypeOK, NoPileUp, Key
  <2>3. ExactStep
    <3>1. \A s \in Sources : passed[s] <= RpmLimit
      BY PipelineAssumption DEF PipelineInv, PipelineTypeOK
    <3> QED
      BY <2>1, <3>1 DEF ExactStep
  <2> QED
    BY <2>2, <2>3
<1> QED
  BY <1>1, <1>2, <1>3, PassiveStep DEF PipelineNext

\* The counters of rate_limit.py and the requests keep their types.
THEOREM PipelineTypes == PipelineSpec => []PipelineTypeOK
<1>1. PipelineInit => PipelineInv
  BY PipelineStart
<1>2. PipelineInv /\ [PipelineNext]_pipelineVars => PipelineInv'
  BY PipelineStep
<1>3. PipelineInv => PipelineTypeOK
  BY DEF PipelineInv
<1> QED
  BY <1>1, <1>2, <1>3, PTL DEF PipelineSpec

\* The cleanup of _enforce bounds the counters: more than MaxKeys are of one minute.
THEOREM CountersBounded == PipelineSpec => []NoPileUp
<1>1. PipelineInit => PipelineInv
  BY PipelineStart
<1>2. PipelineInv /\ [PipelineNext]_pipelineVars => PipelineInv'
  BY PipelineStep
<1>3. PipelineInv => NoPileUp
  BY DEF PipelineInv
<1> QED
  BY <1>1, <1>2, <1>3, PTL DEF PipelineSpec

\* Each caller gets exactly RpmLimit requests of a path in a minute past a worker's limiter,
\* for any number of callers, paths and workers and any size at which it cleans up.
THEOREM LimiterExact == PipelineSpec => LimitIsExact
<1>1. PipelineInit => PipelineInv
  BY PipelineStart
<1>2. PipelineInv /\ [PipelineNext]_pipelineVars => PipelineInv'
  BY PipelineStep
<1>3. PipelineInv /\ [PipelineNext]_pipelineVars => [ExactStep]_pipelineVars
  BY PipelineStep
<1>4. [ExactStep]_pipelineVars
        => [/\ \A s \in Sources : passed'[s] <= RpmLimit
            /\ \A r \in Requests :
                 req'[r].stage = "limited" /\ req[r].stage # "limited"
                   => passed[SourceOf(r)] >= RpmLimit]_pipelineVars
  BY DEF ExactStep
<1> QED
  BY <1>1, <1>2, <1>3, <1>4, PTL DEF PipelineSpec, LimitIsExact

----------------------------------------------------------------------------
(* The Polaris jobs.                                                       *)

(* The inductive invariant.  Its parts look at one run x of a job and at   *)
(* the world w around it.                                                  *)

Realm == [enabled |-> Enabled, held |-> Held, due |-> Due, bindings |-> bindings,
          principals |-> principals, version |-> catalog.version]

RankIn(enabled, u) == Cardinality({v \in enabled : v <= u})
Least(page) == CHOOSE u \in page : \A v \in page : u <= v

Before == {"catalog", "create", "update", "acl"}
Body == SyncStages \ {"page"}
Watching == Before \cup SyncStages

RunRecord ==
  [stage : Stages, first : Nat, page : SUBSET (Users \cup Services), short : BOOLEAN,
   left : SUBSET Roles, role : SUBSET Roles, entity : Nat, call : Nat, applied : BOOLEAN,
   conflict : BOOLEAN, seen : SUBSET (Users \X Roles), due : SUBSET (Users \X Roles),
   shifted : BOOLEAN]

RunShape(x) ==
  /\ x \in RunRecord
  /\ x.page \subseteq IF x.stage \in ServiceStages THEN Services ELSE Users
  /\ x.page # {} <=> x.stage \in Body \cup ServiceStages
  /\ x.left # {} <=> x.stage \in {"role", "bind"}
  /\ x.stage = "bind" => x.role # {} /\ x.role \subseteq x.left
  /\ x.stage \in Before => x.first = 0 /\ x.call \in 1..Acl

\* The principal is there before its roles are asked for.
PrincipalOK(w, x) ==
  x.stage \in {"composite", "role", "bind", "serviceRole"} => Least(x.page) \in w.principals

\* A run has seen all that is held now, and the roles that it is about to bind.
SeenOK(w, x) ==
  /\ x.stage \in Watching => w.held \subseteq x.seen
  /\ x.stage \in {"role", "bind"} =>
       {Least(x.page)} \X x.left \subseteq x.seen \cap (Users \X Mapped)

\* What is due and not yet bound is ahead of the run: on its page and not yet done with, or
\* on a later page.  After a short page there is none.
Ahead(w, x, p) ==
  \/ x.stage \in Before
  \/ x.stage = "page" /\ RankIn(w.enabled, p[1]) > x.first
  \/ /\ x.stage \in Body
     /\ \/ /\ p[1] \in x.page
           /\ p[1] = Least(x.page) /\ x.stage \in {"role", "bind"} => p[2] \in x.left
        \/ ~x.short /\ RankIn(w.enabled, p[1]) > x.first + PageSize

DueOK(w, x) ==
  x.stage \in Watching =>
    /\ x.due \subseteq w.due
    /\ x.shifted \/ \A p \in x.due : p \in w.bindings \/ Ahead(w, x, p)

\* The version that ensure_catalog read is still there, unless another writer came.
EntityOK(w, x) == x.stage \in {"create", "update"} => x.conflict \/ x.entity = w.version

RunOK(w, x) ==
  RunShape(x) /\ PrincipalOK(w, x) /\ SeenOK(w, x) /\ DueOK(w, x) /\ EntityOK(w, x)

Written == {"acl", "done"} \cup SyncStages \cup ServiceStages

RealmOK ==
  /\ mode \in Modes
  /\ status \in [Users -> {"enabled", "disabled", "absent"}]
  /\ roles \in [Users -> SUBSET Roles]
  /\ catalog \in [version : Nat, config : {"absent", "ours", "other"}]
  /\ granted \in 0..Acl
  /\ principals \subseteq Users \cup Services
  /\ principalRoles \subseteq Roles
  /\ bindings \subseteq principals \X Roles
  /\ changes \in 0..mode.changes /\ faults \in 0..mode.faults /\ restarts \in 0..BackoffLimit

JobsOK ==
  /\ job = [j \in Jobs |-> job[j]]
  /\ \A j \in Jobs : RunOK(Realm, job[j])
  /\ job["cron"].stage \in SyncStages \cup {"idle", "done", "failed"}
  /\ job["bootstrap"].stage \in Written => job["bootstrap"].applied \/ job["bootstrap"].conflict

PolarisInv == RealmOK /\ JobsOK

----------------------------------------------------------------------------
(* The order of the listing.                                               *)

\* The loops take the users of a page in the order of the listing.
LEMMA LeastOfPage ==
  ASSUME NEW page, page \subseteq Nat, page # {}
  PROVE  Least(page) \in page /\ \A v \in page : Least(page) <= v
<1>1. PICK u \in page : \A v \in page : ~(<<v, u>> \in OpToRel(<, Nat))
  BY NatLessThanWellFounded, WFMin
<1>2. ASSUME NEW v \in page
      PROVE  u <= v
  <2>1. u \in Nat /\ v \in Nat
    OBVIOUS
  <2>2. <<v, u>> \in Nat \X Nat
    BY <2>1
  <2>3. ~(v < u)
    BY <1>1, <2>2 DEF OpToRel
  <2> QED
    BY <2>1, <2>3
<1>3. \E least \in page : \A v \in page : least <= v
  BY <1>2
<1> QED
  BY <1>3 DEF Least

\* A rank is a number, and that of an element is at least 1.
LEMMA RankTypes ==
  ASSUME NEW E, E \subseteq Nat, IsFiniteSet(E), NEW u
  PROVE  /\ IsFiniteSet({v \in E : v <= u}) /\ RankIn(E, u) \in Nat
         /\ u \in E => RankIn(E, u) >= 1
<1> DEFINE low == {v \in E : v <= u}
<1>1. IsFiniteSet(low)
  BY FS_Subset
<1>2. Cardinality(low) \in Nat
  BY <1>1, FS_CardinalityType
<1>3. u \in E => u \in low
  OBVIOUS
<1>4. u \in E => Cardinality(low) # 0
  BY <1>1, <1>3, FS_EmptySet
<1> QED
  BY <1>1, <1>2, <1>4 DEF RankIn

\* A user who joins the listing moves others back, never forward.
LEMMA RankGrows ==
  ASSUME NEW E, NEW F, E \subseteq F, F \subseteq Nat, IsFiniteSet(F), NEW u
  PROVE  RankIn(E, u) <= RankIn(F, u)
<1>1. IsFiniteSet({v \in F : v <= u})
  BY RankTypes
<1>2. {v \in E : v <= u} \subseteq {v \in F : v <= u}
  OBVIOUS
<1> QED
  BY <1>1, <1>2, FS_Subset DEF RankIn

\* Ranks order the elements of a set as the numbers do.
LEMMA RankFollows ==
  ASSUME NEW E, E \subseteq Nat, IsFiniteSet(E), NEW u \in E, NEW v \in E
  PROVE  u <= v <=> RankIn(E, u) <= RankIn(E, v)
<1> DEFINE low(x) == {z \in E : z <= x}
<1>1. IsFiniteSet(low(u)) /\ IsFiniteSet(low(v)) /\ RankIn(E, u) \in Nat /\ RankIn(E, v) \in Nat
  BY RankTypes
<1>2. CASE u <= v
  <2>1. low(u) \subseteq low(v)
    <3> SUFFICES ASSUME NEW z \in E, z <= u
                 PROVE  z <= v
      OBVIOUS
    <3>1. z \in Nat /\ u \in Nat /\ v \in Nat
      OBVIOUS
    <3> QED
      BY <1>2, <3>1
  <2> QED
    BY <1>1, <1>2, <2>1, FS_Subset DEF RankIn
<1>3. CASE ~(u <= v)
  <2>1. low(v) \subseteq low(u) /\ u \in low(u) /\ u \notin low(v)
    <3>1. u \in Nat /\ v \in Nat
      OBVIOUS
    <3>2. ASSUME NEW z \in E, z <= v
          PROVE  z <= u
      <4>1. z \in Nat
        OBVIOUS
      <4> QED
        BY <1>3, <3>1, <3>2, <4>1
    <3>3. u <= u
      BY <3>1
    <3> QED
      BY <1>3, <3>2, <3>3
  <2>2. low(v) # low(u)
    BY <2>1
  <2>3. Cardinality(low(v)) <= Cardinality(low(u)) /\ Cardinality(low(v)) # Cardinality(low(u))
    <3> HIDE DEF low
    <3> QED
      BY <1>1, <2>1, <2>2, FS_Subset
  <2> QED
    BY <1>1, <1>3, <2>3 DEF RankIn
<1> QED
  BY <1>2, <1>3

\* The listing has no gaps: each rank up to that of a user is someone's.
LEMMA RankTaken ==
  ASSUME NEW E, E \subseteq Nat, IsFiniteSet(E), NEW v \in E,
         NEW n \in Nat \ {0}, RankIn(E, v) >= n
  PROVE  \E u \in E : RankIn(E, u) = n
<1> DEFINE far == {x \in E : RankIn(E, x) >= n}
           u == Least(far)
           below == {x \in E : x < u}
           low(x) == {z \in E : z <= x}
<1>1. far \subseteq Nat /\ far # {}
  OBVIOUS
<1>2. u \in far /\ \A x \in far : u <= x
  BY <1>1, LeastOfPage
<1> HIDE DEF u
<1>3. u \in E /\ u \in Nat /\ RankIn(E, u) \in Nat /\ RankIn(E, u) >= n /\ IsFiniteSet(low(u))
  BY <1>2, RankTypes
<1>4. below = low(u) \ {u} /\ u \in low(u)
  <2>1. ASSUME NEW x \in E
        PROVE  x < u <=> x <= u /\ x # u
    <3>1. x \in Nat
      OBVIOUS
    <3> QED
      BY <1>3, <3>1
  <2>2. u <= u
    BY <1>3
  <2> QED
    BY <1>3, <2>1, <2>2
<1>5. IsFiniteSet(below) /\ Cardinality(below) = RankIn(E, u) - 1
  <2> HIDE DEF below
  <2> QED
    BY <1>3, <1>4, FS_RemoveElement DEF RankIn
<1>6. Cardinality(below) < n
  <2>1. CASE below = {}
    BY <2>1, FS_EmptySet
  <2>2. CASE below # {}
    <3> DEFINE bounds == {k \in Nat : \A x \in below : x <= k}
               m == Least(bounds)
    <3>1. u \in bounds
      BY <1>3
    <3>2. m \in bounds /\ \A k \in bounds : m <= k
      BY <3>1, LeastOfPage
    <3> HIDE DEF m
    <3>3. m \in below
      <4> SUFFICES ASSUME m \notin below
                   PROVE  FALSE
        OBVIOUS
      <4>1. \A x \in below : x \in Nat /\ x < m
        BY <3>2
      <4>2. PICK x \in below : TRUE
        BY <2>2
      <4>3. m \in Nat /\ m - 1 \in Nat
        BY <3>2, <4>1, <4>2
      <4>4. m - 1 \in bounds
        <5>1. \A z \in below : z <= m - 1
          BY <4>1, <4>3
        <5> QED
          BY <4>3, <5>1
      <4> QED
        BY <3>2, <4>3, <4>4
    <3>4. below = low(m)
      <4>1. m \in Nat /\ m \in E /\ m < u
        BY <1>3, <3>3
      <4>2. ASSUME NEW x \in E
            PROVE  x < u <=> x <= m
        <5>1. x \in Nat /\ (x < u => x <= m)
          BY <3>2
        <5> QED
          BY <1>3, <4>1, <5>1
      <4> QED
        BY <4>2
    <3>5. Cardinality(below) = RankIn(E, m)
      BY <3>4 DEF RankIn
    <3>6. m \in E /\ m \in Nat /\ m < u /\ RankIn(E, m) \in Nat
      BY <3>3, RankTypes
    <3>7. m \notin far
      BY <1>2, <1>3, <3>6
    <3> QED
      BY <3>5, <3>6, <3>7
  <2> QED
    BY <2>1, <2>2
<1>7. RankIn(E, u) = n
  BY <1>3, <1>5, <1>6
<1> QED
  BY <1>3, <1>7

\* A listing may stop at a page that is not full: when anything comes after a page, it is
\* full, and when anything comes after the ones before it, it is not empty.
LEMMA FullPage ==
  ASSUME NEW E, E \subseteq Nat, IsFiniteSet(E), NEW first \in Nat, NEW v \in E,
         NEW size \in Nat \ {0}
  PROVE  LET page == {u \in E : RankIn(E, u) \in (first + 1)..(first + size)}
         IN /\ RankIn(E, v) > first => page # {}
            /\ RankIn(E, v) > first + size => Cardinality(page) = size
<1> DEFINE page == {u \in E : RankIn(E, u) \in (first + 1)..(first + size)}
           upTo(n) == {u \in E : RankIn(E, u) <= n}
<1>0. \A u \in E : RankIn(E, u) \in Nat /\ RankIn(E, u) >= 1
  BY RankTypes
<1>1. ASSUME RankIn(E, v) > first
      PROVE  page # {}
  <2>1. first + 1 \in Nat \ {0} /\ RankIn(E, v) >= first + 1
    BY <1>0, <1>1
  <2>2. PICK u \in E : RankIn(E, u) = first + 1
    BY <2>1, RankTaken
  <2> QED
    BY <2>2
<1>2. ASSUME NEW n \in Nat, RankIn(E, v) >= n
      PROVE  IsFiniteSet(upTo(n)) /\ Cardinality(upTo(n)) = n
  <2>1. CASE n = 0
    <3>1. \A u \in E : ~(RankIn(E, u) <= n)
      BY <1>0, <2>1
    <3>2. upTo(n) = {}
      BY <3>1
    <3> QED
      BY <2>1, <3>2, FS_EmptySet
  <2>2. CASE n # 0
    <3>1. PICK y \in E : RankIn(E, y) = n
      BY <1>2, <2>2, RankTaken
    <3>2. upTo(n) = {u \in E : u <= y}
      BY <3>1, RankFollows
    <3> QED
      BY <3>1, <3>2, RankTypes DEF RankIn
  <2> QED
    BY <2>1, <2>2
<1>3. ASSUME RankIn(E, v) > first + size
      PROVE  Cardinality(page) = size
  <2> DEFINE n == first + size
  <2>1. n \in Nat /\ RankIn(E, v) >= n /\ RankIn(E, v) >= first
    BY <1>0, <1>3
  <2>2. /\ IsFiniteSet(upTo(n)) /\ Cardinality(upTo(n)) = n
        /\ IsFiniteSet(upTo(first)) /\ Cardinality(upTo(first)) = first
    BY <1>2, <2>1
  <2>3. page = upTo(n) \ upTo(first) /\ upTo(first) = upTo(n) \cap upTo(first)
    <3>1. ASSUME NEW u \in E
          PROVE  /\ RankIn(E, u) \in (first + 1)..n <=> RankIn(E, u) <= n /\ ~(RankIn(E, u) <= first)
                 /\ RankIn(E, u) <= first => RankIn(E, u) <= n
      BY <1>0
    <3> QED
      BY <3>1
  <2>4. Cardinality(page) = n - first
    <3> HIDE DEF page, upTo, n
    <3>1. Cardinality(upTo(n) \ upTo(first))
            = Cardinality(upTo(n)) - Cardinality(upTo(n) \cap upTo(first))
      BY <2>2, FS_Difference
    <3> QED
      BY <2>2, <2>3, <3>1
  <2> QED
    BY <2>1, <2>4
<1> QED
  BY <1>1, <1>3

----------------------------------------------------------------------------
(* Runs.                                                                   *)

\* A run that has ended, or not begun, watches nothing.
LEMMA EndedRun ==
  ASSUME NEW stage \in {"idle", "done", "failed"}, NEW w
  PROVE  RunOK(w, Ended(stage)) /\ Ended(stage).stage = stage
<1> DEFINE x == Ended(stage)
<1>1. /\ x \in RunRecord /\ x.stage = stage /\ x.page = {} /\ x.left = {}
  BY DEF Ended, NewRun, RunRecord, Stages, SyncStages
<1> HIDE DEF x
<1>2. RunShape(x)
  BY <1>1 DEF RunShape, Body, SyncStages, ServiceStages, Before
<1> QED
  BY <1>1, <1>2
     DEF RunOK, PrincipalOK, SeenOK, DueOK, EntityOK, Watching, Before, SyncStages, x

\* What is held and due is held and due by users, and only enabled users are due a role.
LEMMA RealmTypes ==
  ASSUME RealmOK
  PROVE  /\ Held \subseteq Users \X Roles /\ Due \subseteq Held
         /\ Enabled \subseteq Nat /\ IsFiniteSet(Enabled) /\ Users \subseteq Nat
         /\ \A p \in Due : p[1] \in Enabled
<1>1. Enabled \subseteq Users /\ Users \subseteq Nat /\ Users \subseteq Users \cup Services
  BY PolarisAssumption DEF Enabled
<1>2. IsFiniteSet(Enabled)
  BY <1>1, PolarisAssumption, FS_Subset
<1>3. Held \subseteq Users \X Roles
  BY DEF Held
<1>4. \A p \in Due : p \in Enabled \X Mapped /\ p[2] \in roles[p[1]]
  BY DEF Due
<1>5. Due \subseteq Held
  BY <1>1, <1>4, PolarisAssumption DEF Held
<1> QED
  BY <1>1, <1>2, <1>3, <1>4, <1>5

\* A job that starts satisfies what the invariant says of runs.
LEMMA FreshRun ==
  ASSUME RealmOK, NEW stage \in {"page", "catalog"}
  PROVE  RunOK(Realm, NewRun(stage)) /\ NewRun(stage).stage = stage
<1> DEFINE x == NewRun(stage)
<1>1. Held \subseteq Users \X Roles /\ Due \subseteq Held /\ Due \subseteq Users \X Roles
  BY RealmTypes
<1>2. /\ x \in RunRecord /\ x.stage = stage /\ x.page = {} /\ x.left = {} /\ x.first = 0
      /\ x.seen = Held /\ x.due = Due /\ x.call = 1
  BY <1>1 DEF NewRun, RunRecord, Stages, SyncStages
<1> HIDE DEF x
<1>3. RunShape(x)
  BY <1>2, PolarisAssumption DEF RunShape, Body, SyncStages, ServiceStages, Before
<1>4. SeenOK(Realm, x) /\ PrincipalOK(Realm, x) /\ EntityOK(Realm, x)
  BY <1>2 DEF SeenOK, PrincipalOK, EntityOK, Realm
<1>5. ASSUME NEW p \in Due
      PROVE  Ahead(Realm, x, p)
  <2>1. p[1] \in Enabled /\ Enabled \subseteq Nat /\ IsFiniteSet(Enabled)
    BY RealmTypes
  <2>2. RankIn(Enabled, p[1]) >= 1 /\ RankIn(Enabled, p[1]) \in Nat
    BY <2>1, RankTypes
  <2> QED
    BY <1>2, <2>2 DEF Ahead, Before, Realm
<1>6. DueOK(Realm, x)
  BY <1>2, <1>5 DEF DueOK, Realm
<1> QED
  BY <1>2, <1>3, <1>4, <1>6 DEF RunOK, x

\* The end of the sync: the bootstrap goes on to the service principals.
LEMMA SyncEnds ==
  ASSUME NEW j \in Jobs, NEW run \in RunRecord, NEW w
  PROVE  /\ RunOK(w, EndSync(j, run))
         /\ EndSync(j, run).stage \in {"done", "service"}
         /\ j = "cron" => EndSync(j, run).stage = "done"
         /\ j = "bootstrap" => /\ EndSync(j, run).applied = run.applied
                               /\ EndSync(j, run).conflict = run.conflict
<1>1. CASE j = "cron"
  <2>1. EndSync(j, run) = Ended("done")
    BY <1>1 DEF EndSync
  <2>2. RunOK(w, Ended("done")) /\ Ended("done").stage = "done"
    BY EndedRun
  <2> QED
    BY <1>1, <2>1, <2>2
<1>2. CASE j = "bootstrap"
  <2> DEFINE x == EndSync(j, run)
             y == Ended(IF Services = {} THEN "done" ELSE "service")
  <2>1. /\ y \in RunRecord /\ y.stage = IF Services = {} THEN "done" ELSE "service"
        /\ y.left = {}
    BY DEF Ended, NewRun, RunRecord, Stages, SyncStages
  <2>2. x = [y EXCEPT !.page = Services, !.applied = run.applied, !.conflict = run.conflict]
    BY <1>2 DEF EndSync
  <2> HIDE DEF y
  <2>3. /\ run.applied \in BOOLEAN /\ run.conflict \in BOOLEAN
        /\ Services \in SUBSET (Users \cup Services)
    BY DEF RunRecord
  <2>4. /\ x \in RunRecord /\ x.stage = y.stage /\ x.left = {} /\ x.page = Services
        /\ x.applied = run.applied /\ x.conflict = run.conflict
    <3> HIDE DEF x
    <3> QED
      BY <2>1, <2>2, <2>3 DEF RunRecord
  <2> HIDE DEF x
  <2>5. RunShape(x)
    BY <2>1, <2>4 DEF RunShape, Body, SyncStages, ServiceStages, Before
  <2>6. RunOK(w, x)
    BY <2>1, <2>4, <2>5
       DEF RunOK, PrincipalOK, SeenOK, DueOK, EntityOK, Watching, Before, SyncStages
  <2> QED
    BY <1>2, <2>1, <2>4, <2>6 DEF x
<1> QED
  BY <1>1, <1>2 DEF Jobs

\* A user is done with: what is due and not bound must be for the others of the page, or
\* for a later page.
LEMMA UserDone ==
  ASSUME NEW j \in Jobs, NEW run \in RunRecord, NEW w,
         run.page = job[j].page, run.page # {}, run.page \subseteq Users, run.left = {},
         w.held \subseteq run.seen, run.due \subseteq w.due,
         \/ run.shifted
         \/ \A p \in run.due :
              \/ p \in w.bindings
              \/ p[1] \in run.page \ {User(j)}
              \/ ~run.short /\ RankIn(w.enabled, p[1]) > run.first + PageSize
  PROVE  /\ RunOK(w, NextUser(j, run))
         /\ NextUser(j, run).stage \in {"principal", "page", "done", "service"}
         /\ j = "cron" => NextUser(j, run).stage # "service"
         /\ j = "bootstrap" => /\ NextUser(j, run).applied = run.applied
                               /\ NextUser(j, run).conflict = run.conflict
         /\ NextUser(j, run).stage \in {"done", "service"}
              => run.shifted \/ run.due \subseteq w.bindings
<1> DEFINE rest == run.page \ {User(j)}
           x == NextUser(j, run)
<1>1. CASE rest # {}
  <2>1. x = [run EXCEPT !.stage = "principal", !.page = rest]
    BY <1>1 DEF NextUser
  <2>2. /\ x \in RunRecord /\ x.stage = "principal" /\ x.page = rest /\ x.left = {}
        /\ x.first = run.first /\ x.short = run.short /\ x.seen = run.seen /\ x.due = run.due
        /\ x.shifted = run.shifted /\ x.applied = run.applied /\ x.conflict = run.conflict
    <3> HIDE DEF x
    <3> QED
      BY <2>1 DEF RunRecord, Stages, SyncStages
  <2> HIDE DEF x
  <2>3. RunShape(x)
    BY <1>1, <2>2 DEF RunShape, Body, SyncStages, ServiceStages, Before
  <2>4. ASSUME NEW p \in x.due
        PROVE  x.shifted \/ p \in w.bindings \/ Ahead(w, x, p)
    <3> HIDE DEF rest
    <3> QED
      BY <2>2 DEF Ahead, Body, SyncStages, rest
  <2>5. DueOK(w, x)
    BY <2>2, <2>4 DEF DueOK
  <2> QED
    BY <2>2, <2>3, <2>5 DEF RunOK, PrincipalOK, SeenOK, EntityOK, x
<1>2. CASE rest = {} /\ run.short
  <2>1. x = EndSync(j, run)
    BY <1>2 DEF NextUser
  <2>2. run.shifted \/ run.due \subseteq w.bindings
    BY <1>2
  <2>3. /\ RunOK(w, x) /\ x.stage \in {"done", "service"}
        /\ j = "cron" => x.stage = "done"
        /\ j = "bootstrap" => x.applied = run.applied /\ x.conflict = run.conflict
    <3> HIDE DEF x
    <3> QED
      BY <2>1, SyncEnds
  <2> QED
    BY <2>2, <2>3
<1>3. CASE rest = {} /\ ~run.short
  <2>1. x = [run EXCEPT !.stage = "page", !.page = {}, !.first = run.first + PageSize]
    BY <1>3 DEF NextUser
  <2>2. run.first + PageSize \in Nat
    BY PolarisAssumption DEF RunRecord
  <2>3. /\ x \in RunRecord /\ x.stage = "page" /\ x.page = {} /\ x.left = {}
        /\ x.first = run.first + PageSize /\ x.seen = run.seen /\ x.due = run.due
        /\ x.shifted = run.shifted /\ x.applied = run.applied /\ x.conflict = run.conflict
    <3> HIDE DEF x
    <3> QED
      BY <2>1, <2>2 DEF RunRecord, Stages, SyncStages
  <2> HIDE DEF x
  <2>4. RunShape(x)
    BY <2>3 DEF RunShape, Body, SyncStages, ServiceStages, Before
  <2>5. ASSUME NEW p \in x.due
        PROVE  x.shifted \/ p \in w.bindings \/ Ahead(w, x, p)
    BY <1>3, <2>3 DEF Ahead
  <2>6. DueOK(w, x)
    BY <2>3, <2>5 DEF DueOK
  <2> QED
    BY <2>3, <2>4, <2>6 DEF RunOK, PrincipalOK, SeenOK, EntityOK, x
<1> QED
  BY <1>1, <1>2, <1>3

----------------------------------------------------------------------------
(* Steps.                                                                  *)

\* What one job does to Polaris leaves the run of the other as good as it was.
LEMMA OtherRun ==
  ASSUME NEW w, NEW v, NEW x, RunOK(w, x),
         v.enabled = w.enabled, v.held = w.held, v.due = w.due,
         w.bindings \cap w.due \subseteq v.bindings, w.principals \subseteq v.principals,
         v.version = w.version \/ x.stage \notin {"create", "update"}
  PROVE  RunOK(v, x)
<1>1. RunShape(x) /\ PrincipalOK(v, x) /\ SeenOK(v, x) /\ EntityOK(v, x)
  BY DEF RunOK, PrincipalOK, SeenOK, EntityOK
<1>2. DueOK(v, x)
  <2> SUFFICES ASSUME x.stage \in Watching
               PROVE  /\ x.due \subseteq v.due
                      /\ x.shifted \/ \A p \in x.due : p \in v.bindings \/ Ahead(v, x, p)
    BY DEF DueOK
  <2>1. /\ x.due \subseteq w.due
        /\ x.shifted \/ \A p \in x.due : p \in w.bindings \/ Ahead(w, x, p)
    BY DEF RunOK, DueOK
  <2>2. ASSUME NEW p, Ahead(w, x, p)
        PROVE  Ahead(v, x, p)
    BY <2>2 DEF Ahead
  <2> QED
    BY <2>1, <2>2
<1> QED
  BY <1>1, <1>2 DEF RunOK

\* The fields of the realm as the jobs see it.
LEMMA RealmFields ==
  /\ Realm.enabled = Enabled /\ Realm.held = Held /\ Realm.due = Due
  /\ Realm.bindings = bindings /\ Realm.principals = principals
  /\ Realm.version = catalog.version
BY DEF Realm

\* A step of job j, which turns its run into x and adds to Polaris.
LEMMA JobStep ==
  ASSUME PolarisInv, RealmOK', NEW j \in Jobs, NEW x,
         job' = [job EXCEPT ![j] = x], RunOK(Realm', x),
         UNCHANGED <<status, roles>>, bindings \subseteq bindings',
         principals \subseteq principals',
         catalog' = catalog \/ j = "bootstrap",
         j = "cron" => x.stage \in SyncStages \cup {"idle", "done", "failed"},
         j = "bootstrap" /\ x.stage \in Written => x.applied \/ x.conflict
  PROVE  PolarisInv'
<1>1. Enabled' = Enabled /\ Held' = Held /\ Due' = Due
  BY DEF Enabled, Held, Due
<1>2. /\ job = [k \in Jobs |-> job[k]]
      /\ \A k \in Jobs : RunOK(Realm, job[k])
      /\ job["cron"].stage \in SyncStages \cup {"idle", "done", "failed"}
      /\ job["bootstrap"].stage \in Written
           => job["bootstrap"].applied \/ job["bootstrap"].conflict
  BY DEF PolarisInv, JobsOK
<1>3. job'[j] = x /\ \A k \in Jobs \ {j} : job'[k] = job[k]
  BY <1>2
<1>4. job' = [k \in Jobs |-> job'[k]]
  BY <1>2
<1>5. ASSUME NEW k \in Jobs
      PROVE  RunOK(Realm', job'[k])
  <2>1. CASE k = j
    BY <1>3, <2>1
  <2>2. CASE k # j
    <3>1. catalog' = catalog \/ job[k].stage \notin {"create", "update"}
      BY <1>2, <2>2 DEF Jobs, SyncStages
    <3>2. /\ Realm'.enabled = Realm.enabled /\ Realm'.held = Realm.held
          /\ Realm'.due = Realm.due /\ Realm.bindings \subseteq Realm'.bindings
          /\ Realm.principals \subseteq Realm'.principals
          /\ Realm'.version = Realm.version \/ job[k].stage \notin {"create", "update"}
      BY <1>1, <3>1 DEF Realm
    <3>3. RunOK(Realm, job[k])
      BY <1>2
    <3>4. RunOK(Realm', job[k])
      BY <3>2, <3>3, OtherRun
    <3> QED
      BY <1>3, <2>2, <3>4
  <2> QED
    BY <2>1, <2>2
<1>6. /\ job'["cron"].stage \in SyncStages \cup {"idle", "done", "failed"}
      /\ job'["bootstrap"].stage \in Written
           => job'["bootstrap"].applied \/ job'["bootstrap"].conflict
  <2>1. CASE j = "cron"
    BY <1>2, <1>3, <2>1 DEF Jobs
  <2>2. CASE j = "bootstrap"
    BY <1>2, <1>3, <2>2 DEF Jobs
  <2> QED
    BY <2>1, <2>2 DEF Jobs
<1> QED
  BY <1>4, <1>5, <1>6 DEF PolarisInv, JobsOK

\* A call of a job that writes to Polaris leaves the realm well formed.
LEMMA RealmKept ==
  ASSUME RealmOK, UNCHANGED <<keycloak, catalog, changes, restarts>>,
         granted' \in 0..Acl, principals' \subseteq Users \cup Services,
         principalRoles' \subseteq Roles, bindings' \subseteq principals' \X Roles,
         faults' \in 0..mode.faults
  PROVE  RealmOK'
BY DEF RealmOK, keycloak

\* A step that writes nothing leaves the realm as it is.
LEMMA RealmAsIs ==
  ASSUME RealmOK, UNCHANGED <<keycloak, polaris, changes, faults, restarts>>
  PROVE  RealmOK' /\ Realm' = Realm
<1>1. RealmOK'
  BY DEF RealmOK, keycloak, polaris
<1>2. Enabled' = Enabled /\ Held' = Held /\ Due' = Due
  BY DEF Enabled, Held, Due, keycloak
<1> QED
  BY <1>1, <1>2 DEF Realm, polaris

\* What the invariant says of a run in one of the sync's stages.
LEMMA SyncRun ==
  ASSUME PolarisInv, NEW j \in Jobs
  PROVE  /\ job[j] \in RunRecord /\ RunShape(job[j])
         /\ job[j].stage \in SyncStages =>
              /\ Held \subseteq job[j].seen /\ job[j].due \subseteq Due
              /\ \/ job[j].shifted
                 \/ \A p \in job[j].due : p \in bindings \/ Ahead(Realm, job[j], p)
              /\ j = "bootstrap" => job[j].applied \/ job[j].conflict
         /\ job[j].page # {} => /\ User(j) = Least(job[j].page) /\ User(j) \in job[j].page
                                /\ \A v \in job[j].page : User(j) <= v
<1>1. RunOK(Realm, job[j])
  BY DEF PolarisInv, JobsOK
<1>2. job[j] \in RunRecord /\ RunShape(job[j])
  BY <1>1 DEF RunOK, RunShape
<1>3. SeenOK(Realm, job[j]) /\ DueOK(Realm, job[j])
  BY <1>1 DEF RunOK
<1>4. ASSUME job[j].stage \in SyncStages
      PROVE  /\ Held \subseteq job[j].seen /\ job[j].due \subseteq Due
             /\ \/ job[j].shifted
                \/ \A p \in job[j].due : p \in bindings \/ Ahead(Realm, job[j], p)
  <2>1. job[j].stage \in Watching
    BY <1>4 DEF Watching
  <2> QED
    BY <1>3, <2>1, RealmFields DEF SeenOK, DueOK
<1>5. job[j].stage \in SyncStages /\ j = "bootstrap" => job[j].applied \/ job[j].conflict
  BY DEF PolarisInv, JobsOK, Written
<1>6. job[j].page \subseteq Nat
  BY <1>2, PolarisAssumption DEF RunRecord
<1>7. User(j) = Least(job[j].page)
  BY DEF User, Least
<1> QED
  BY <1>2, <1>4, <1>5, <1>6, <1>7, LeastOfPage

\* A sync that ends has covered what was due all along, see SyncCovers.
Covered(j) ==
  job'[j].stage \in {"done", "service"} => job[j].shifted \/ job[j].due \subseteq bindings'

\* There is one run for each job.
LEMMA RunFields ==
  ASSUME PolarisInv
  PROVE  job = [j \in Jobs |-> job[j]]
BY DEF PolarisInv, JobsOK

\* iter_keycloak_users asks for a page: those who are due and were ahead of it are on it,
\* or it is full and they come after it.
LEMMA PageStep ==
  ASSUME PolarisInv, NEW j \in Jobs, IterKeycloakUsers(j)
  PROVE  PolarisInv' /\ Covered(j)
<1> DEFINE r == job[j]
           page == Page(r.first)
           x == IF page = {} THEN EndSync(j, r)
                ELSE [r EXCEPT !.stage = "principal", !.page = page,
                               !.short = Cardinality(page) < PageSize]
<1>1. RealmOK /\ RealmOK' /\ Realm' = Realm /\ UNCHANGED <<status, roles, catalog, bindings, principals>>
  BY RealmAsIs DEF PolarisInv, IterKeycloakUsers, keycloak, polaris
<1>2. r.stage = "page" /\ job' = [job EXCEPT ![j] = x]
  BY DEF IterKeycloakUsers
<1>3. /\ r \in RunRecord /\ RunShape(r) /\ Held \subseteq r.seen /\ r.due \subseteq Due
      /\ \/ r.shifted
         \/ \A p \in r.due : p \in bindings \/ Ahead(Realm, r, p)
      /\ j = "bootstrap" => r.applied \/ r.conflict
  BY <1>2, SyncRun DEF SyncStages
<1>4. Enabled \subseteq Nat /\ IsFiniteSet(Enabled) /\ \A p \in Due : p[1] \in Enabled
  BY <1>1, RealmTypes
<1>5. /\ page = {u \in Enabled : RankIn(Enabled, u) \in (r.first + 1)..(r.first + PageSize)}
      /\ page \subseteq Users
  BY DEF Page, Rank, RankIn, Enabled
<1>6. r.first \in Nat /\ r.left = {} /\ PageSize \in Nat \ {0}
  BY <1>2, <1>3, PolarisAssumption DEF RunRecord, RunShape
<1>7. ASSUME NEW p \in r.due
      PROVE  \/ r.shifted
             \/ p \in bindings
             \/ p[1] \in page
             \/ /\ page # {} /\ ~(Cardinality(page) < PageSize)
                /\ RankIn(Enabled, p[1]) > r.first + PageSize
  <2> SUFFICES ASSUME ~r.shifted, p \notin bindings, p[1] \notin page
               PROVE  /\ page # {} /\ ~(Cardinality(page) < PageSize)
                      /\ RankIn(Enabled, p[1]) > r.first + PageSize
    OBVIOUS
  <2>1. p[1] \in Enabled /\ RankIn(Enabled, p[1]) \in Nat
    BY <1>3, <1>4, RankTypes
  <2>2. RankIn(Enabled, p[1]) > r.first
    BY <1>2, <1>3, RealmFields DEF Ahead, Before, Body, SyncStages
  <2>3. RankIn(Enabled, p[1]) > r.first + PageSize
    <3> HIDE DEF r, page
    <3> QED
      BY <1>5, <1>6, <2>1, <2>2
  <2>4. page # {} /\ Cardinality(page) = PageSize
    <3> HIDE DEF r
    <3> QED
      BY <1>4, <1>5, <1>6, <2>1, <2>2, <2>3, FullPage
  <2> QED
    BY <1>6, <2>3, <2>4
<1>8. CASE page = {}
  <2>1. x = EndSync(j, r)
    BY <1>8
  <2>2. r.shifted \/ r.due \subseteq bindings
    BY <1>7, <1>8
  <2> HIDE DEF x, r
  <2>3. /\ RunOK(Realm', x) /\ x.stage \in {"done", "service"}
        /\ j = "cron" => x.stage = "done"
        /\ j = "bootstrap" => x.applied = r.applied /\ x.conflict = r.conflict
    BY <1>3, <2>1, SyncEnds
  <2>4. PolarisInv'
    BY <1>1, <1>2, <1>3, <2>3, JobStep
  <2> QED
    BY <1>1, <2>2, <2>4 DEF Covered, r
<1>9. CASE page # {}
  <2>1. x = [r EXCEPT !.stage = "principal", !.page = page, !.short = Cardinality(page) < PageSize]
    BY <1>9
  <2>2. (Cardinality(page) < PageSize) \in BOOLEAN
    OBVIOUS
  <2> HIDE DEF x, page, r
  <2>3. /\ x \in RunRecord /\ x.stage = "principal" /\ x.page = page /\ x.left = {}
        /\ x.short = (Cardinality(page) < PageSize) /\ x.first = r.first
        /\ x.seen = r.seen /\ x.due = r.due /\ x.shifted = r.shifted
        /\ x.applied = r.applied /\ x.conflict = r.conflict
    BY <1>3, <1>5, <1>6, <2>1, <2>2 DEF RunRecord, Stages, SyncStages
  <2>4. RunShape(x)
    BY <1>5, <1>9, <2>3 DEF RunShape, Body, SyncStages, ServiceStages, Before
  <2>5. ASSUME NEW p \in x.due
        PROVE  x.shifted \/ p \in bindings \/ Ahead(Realm, x, p)
    BY <1>7, <2>3, RealmFields DEF Ahead, Body, SyncStages
  <2>6. DueOK(Realm, x)
    BY <1>3, <2>3, <2>5, RealmFields DEF DueOK
  <2>7. RunOK(Realm', x)
    BY <1>1, <1>3, <2>3, <2>4, <2>6, RealmFields DEF RunOK, PrincipalOK, SeenOK, EntityOK
  <2>8. PolarisInv'
    BY <1>1, <1>2, <1>3, <2>3, <2>7, JobStep DEF SyncStages
  <2>9. job'[j].stage = "principal"
    BY <1>2, <2>3, RunFields
  <2> QED
    BY <2>8, <2>9 DEF Covered
<1> QED
  BY <1>8, <1>9

\* ensure_principal, for the next user of the page.
LEMMA PrincipalStep ==
  ASSUME PolarisInv, NEW j \in Jobs, EnsurePrincipal(j)
  PROVE  PolarisInv' /\ job'[j].stage = "composite"
<1> DEFINE r == job[j]
           x == [r EXCEPT !.stage = "composite"]
<1>1. RealmOK /\ r.stage = "principal" /\ job' = [job EXCEPT ![j] = x]
  BY DEF PolarisInv, EnsurePrincipal
<1>2. /\ r \in RunRecord /\ RunShape(r) /\ Held \subseteq r.seen /\ r.due \subseteq Due
      /\ \/ r.shifted
         \/ \A p \in r.due : p \in bindings \/ Ahead(Realm, r, p)
      /\ j = "bootstrap" => r.applied \/ r.conflict
      /\ r.page # {} => User(j) = Least(r.page) /\ User(j) \in r.page
  BY <1>1, SyncRun DEF SyncStages
<1>3. r.page # {} /\ r.page \subseteq Users /\ r.left = {}
  BY <1>1, <1>2 DEF RunShape, Body, SyncStages, ServiceStages
<1>4. /\ principals' = principals \cup {Least(r.page)} /\ Least(r.page) \in Users
      /\ UNCHANGED <<status, roles, catalog, bindings>>
  BY <1>2, <1>3 DEF EnsurePrincipal, keycloak
<1>5. RealmOK'
  BY <1>1, <1>4, RealmKept DEF EnsurePrincipal, RealmOK
<1>6. /\ Realm'.enabled = Enabled /\ Realm'.held = Held /\ Realm'.due = Due
      /\ Realm'.bindings = bindings /\ Realm'.principals = principals \cup {Least(r.page)}
  BY <1>4 DEF Realm, Enabled, Held, Due
<1> HIDE DEF r
<1>7. /\ x \in RunRecord /\ x.stage = "composite" /\ x.page = r.page /\ x.left = {}
      /\ x.short = r.short /\ x.first = r.first
      /\ x.seen = r.seen /\ x.due = r.due /\ x.shifted = r.shifted
      /\ x.applied = r.applied /\ x.conflict = r.conflict
  BY <1>2, <1>3 DEF RunRecord, Stages, SyncStages
<1> HIDE DEF x
<1>8. RunShape(x)
  BY <1>3, <1>7 DEF RunShape, Body, SyncStages, ServiceStages, Before
<1>9. ASSUME NEW p \in x.due
      PROVE  x.shifted \/ p \in bindings \/ Ahead(Realm', x, p)
  BY <1>1, <1>2, <1>6, <1>7, RealmFields DEF Ahead, Body, SyncStages, Before
<1>10. DueOK(Realm', x)
  BY <1>2, <1>6, <1>7, <1>9 DEF DueOK
<1>11. RunOK(Realm', x)
  BY <1>2, <1>6, <1>7, <1>8, <1>10 DEF RunOK, PrincipalOK, SeenOK, EntityOK
<1>12. PolarisInv'
  BY <1>1, <1>2, <1>4, <1>5, <1>7, <1>11, JobStep DEF SyncStages
<1> QED
  BY <1>1, <1>7, <1>12, RunFields

\* _get_keycloak_realm_roles: a user without a mapped role is done with.
LEMMA RolesStep ==
  ASSUME PolarisInv, NEW j \in Jobs, GetKeycloakRealmRoles(j)
  PROVE  PolarisInv' /\ Covered(j)
<1> DEFINE r == job[j]
           u == User(j)
           left == roles[u] \cap Mapped
           x == IF left = {} THEN NextUser(j, r)
                ELSE [r EXCEPT !.stage = "role", !.left = left]
<1>1. RealmOK /\ RealmOK' /\ Realm' = Realm /\ UNCHANGED <<status, roles, catalog, bindings, principals>>
  BY RealmAsIs DEF PolarisInv, GetKeycloakRealmRoles, keycloak, polaris
<1>2. r.stage = "composite" /\ job' = [job EXCEPT ![j] = x]
  BY DEF GetKeycloakRealmRoles
<1>3. /\ r \in RunRecord /\ RunShape(r) /\ Held \subseteq r.seen /\ r.due \subseteq Due
      /\ \/ r.shifted
         \/ \A p \in r.due : p \in bindings \/ Ahead(Realm, r, p)
      /\ j = "bootstrap" => r.applied \/ r.conflict
      /\ r.page # {} => u = Least(r.page) /\ u \in r.page
  BY <1>2, SyncRun DEF SyncStages
<1>4. r.page # {} /\ r.page \subseteq Users /\ r.left = {} /\ u \in Users /\ u = Least(r.page)
  BY <1>2, <1>3 DEF RunShape, Body, SyncStages, ServiceStages
<1>5. u \in principals
  <2>1. PrincipalOK(Realm, r)
    BY DEF PolarisInv, JobsOK, RunOK
  <2> QED
    BY <1>2, <1>4, <2>1, RealmFields DEF PrincipalOK
<1>6. left \subseteq Roles /\ left \subseteq Mapped /\ \A y \in left : <<u, y>> \in Held
  BY <1>1, <1>4, PolarisAssumption DEF RealmOK, Held
<1>7. \A p \in r.due : p[1] = u => p[2] \in left
  BY <1>3 DEF Due
<1>8. ASSUME NEW p \in r.due
      PROVE  \/ r.shifted
             \/ p \in bindings
             \/ p[1] \in r.page
             \/ ~r.short /\ RankIn(Enabled, p[1]) > r.first + PageSize
  BY <1>2, <1>3, RealmFields DEF Ahead, Before, Body, SyncStages
<1>9. CASE left = {}
  <2>1. x = NextUser(j, r)
    BY <1>9
  <2>2. \/ r.shifted
        \/ \A p \in r.due :
             \/ p \in Realm.bindings
             \/ p[1] \in r.page \ {User(j)}
             \/ ~r.short /\ RankIn(Realm.enabled, p[1]) > r.first + PageSize
    BY <1>7, <1>8, <1>9, RealmFields
  <2>3. /\ RunOK(Realm, x) /\ x.stage \in {"principal", "page", "done", "service"}
        /\ j = "cron" => x.stage # "service"
        /\ j = "bootstrap" => x.applied = r.applied /\ x.conflict = r.conflict
        /\ x.stage \in {"done", "service"} => r.shifted \/ r.due \subseteq Realm.bindings
    <3> HIDE DEF x
    <3> QED
      BY <1>3, <1>4, <2>1, <2>2, UserDone, RealmFields
  <2> HIDE DEF x
  <2>4. PolarisInv'
    BY <1>1, <1>2, <1>3, <2>3, JobStep DEF SyncStages
  <2>5. job'[j] = x
    BY <1>2, RunFields
  <2> QED
    BY <1>1, <2>3, <2>4, <2>5, RealmFields DEF Covered
<1>10. CASE left # {}
  <2>1. x = [r EXCEPT !.stage = "role", !.left = left]
    BY <1>10
  <2> HIDE DEF x, left, r, u
  <2>2. /\ x \in RunRecord /\ x.stage = "role" /\ x.page = r.page /\ x.left = left
        /\ x.short = r.short /\ x.first = r.first
        /\ x.seen = r.seen /\ x.due = r.due /\ x.shifted = r.shifted
        /\ x.applied = r.applied /\ x.conflict = r.conflict
    BY <1>3, <1>6, <2>1 DEF RunRecord, Stages, SyncStages
  <2>3. RunShape(x)
    BY <1>4, <1>10, <2>2 DEF RunShape, Body, SyncStages, ServiceStages, Before
  <2>4. ASSUME NEW p \in x.due
        PROVE  x.shifted \/ p \in bindings \/ Ahead(Realm, x, p)
    BY <1>4, <1>7, <1>8, <2>2, RealmFields DEF Ahead, Body, SyncStages
  <2>5. DueOK(Realm, x)
    BY <1>3, <2>2, <2>4, RealmFields DEF DueOK
  <2>6. {u} \X left \subseteq x.seen \cap (Users \X Mapped)
    BY <1>3, <1>4, <1>6, <2>2
  <2>7. SeenOK(Realm, x) /\ PrincipalOK(Realm, x) /\ EntityOK(Realm, x)
    BY <1>3, <1>4, <1>5, <2>2, <2>6, RealmFields DEF SeenOK, PrincipalOK, EntityOK
  <2>8. RunOK(Realm', x)
    BY <1>1, <2>3, <2>5, <2>7 DEF RunOK
  <2>9. PolarisInv'
    BY <1>1, <1>2, <1>3, <2>2, <2>8, JobStep DEF SyncStages
  <2>10. job'[j].stage = "role"
    BY <1>2, <2>2, RunFields
  <2> QED
    BY <2>9, <2>10 DEF Covered
<1> QED
  BY <1>9, <1>10

\* ensure_principal_role, for one of the user's roles.
LEMMA PrincipalRoleStep ==
  ASSUME PolarisInv, NEW j \in Jobs, EnsurePrincipalRole(j)
  PROVE  PolarisInv' /\ job'[j].stage = "bind"
<1> DEFINE r == job[j]
<1>1. PICK role \in r.left :
        /\ principalRoles' = principalRoles \cup {role}
        /\ job' = [job EXCEPT ![j].stage = "bind", ![j].role = {role}]
  BY DEF EnsurePrincipalRole
<1> DEFINE y == [r EXCEPT !.stage = "bind"]
           x == [y EXCEPT !.role = {role}]
<1>2. job' = [job EXCEPT ![j] = x]
  BY <1>1, RunFields
<1>3. RealmOK /\ r.stage = "role" /\ UNCHANGED <<status, roles, catalog, bindings, principals>>
  BY DEF PolarisInv, EnsurePrincipalRole, keycloak
<1>4. /\ r \in RunRecord /\ RunShape(r) /\ Held \subseteq r.seen /\ r.due \subseteq Due
      /\ \/ r.shifted
         \/ \A p \in r.due : p \in bindings \/ Ahead(Realm, r, p)
      /\ j = "bootstrap" => r.applied \/ r.conflict
  BY <1>3, SyncRun DEF SyncStages
<1>5. r.page # {} /\ r.page \subseteq Users /\ r.left # {} /\ r.left \subseteq Roles
  BY <1>3, <1>4 DEF RunShape, RunRecord, Body, SyncStages, ServiceStages
<1>6. PrincipalOK(Realm, r) /\ SeenOK(Realm, r)
  BY DEF PolarisInv, JobsOK, RunOK
<1>7. RealmOK'
  BY <1>1, <1>3, <1>5, RealmKept DEF EnsurePrincipalRole, RealmOK
<1>8. /\ Realm'.enabled = Enabled /\ Realm'.held = Held /\ Realm'.due = Due
      /\ Realm'.bindings = bindings /\ Realm'.principals = principals
  BY <1>3 DEF Realm, Enabled, Held, Due
<1> HIDE DEF r
<1>9. /\ y \in RunRecord /\ y.stage = "bind" /\ y.page = r.page /\ y.left = r.left
      /\ y.short = r.short /\ y.first = r.first
      /\ y.seen = r.seen /\ y.due = r.due /\ y.shifted = r.shifted
      /\ y.applied = r.applied /\ y.conflict = r.conflict
  BY <1>4 DEF RunRecord, Stages, SyncStages
<1> HIDE DEF y
<1>10. /\ x \in RunRecord /\ x.stage = "bind" /\ x.page = r.page /\ x.left = r.left
       /\ x.role = {role} /\ x.short = r.short /\ x.first = r.first
       /\ x.seen = r.seen /\ x.due = r.due /\ x.shifted = r.shifted
       /\ x.applied = r.applied /\ x.conflict = r.conflict
  <2>1. {role} \in SUBSET Roles
    BY <1>5
  <2> QED
    BY <1>9, <2>1 DEF RunRecord
<1> HIDE DEF x
<1>11. RunShape(x)
  BY <1>5, <1>10 DEF RunShape, Body, SyncStages, ServiceStages, Before
<1>12. ASSUME NEW p \in x.due
       PROVE  x.shifted \/ p \in bindings \/ Ahead(Realm', x, p)
  BY <1>3, <1>4, <1>8, <1>10, RealmFields DEF Ahead, Body, SyncStages, Before
<1>13. DueOK(Realm', x)
  BY <1>4, <1>8, <1>10, <1>12 DEF DueOK
<1>14. SeenOK(Realm', x) /\ PrincipalOK(Realm', x) /\ EntityOK(Realm', x)
  BY <1>3, <1>4, <1>6, <1>8, <1>10, RealmFields DEF SeenOK, PrincipalOK, EntityOK
<1>15. RunOK(Realm', x)
  BY <1>11, <1>13, <1>14 DEF RunOK
<1>16. PolarisInv'
  BY <1>2, <1>3, <1>4, <1>7, <1>10, <1>15, JobStep DEF SyncStages
<1> QED
  BY <1>2, <1>10, <1>16, RunFields

\* ensure_principal_role_binding: after the last role of a user, the next user.
LEMMA BindingStep ==
  ASSUME PolarisInv, NEW j \in Jobs, EnsurePrincipalRoleBinding(j)
  PROVE  /\ PolarisInv' /\ Covered(j)
         /\ bindings' \ bindings \subseteq job[j].seen \cap (Users \X Mapped)
         /\ job'[j].stage # "bind"
<1> DEFINE r == job[j]
           u == User(j)
           left == r.left \ r.role
           run == [r EXCEPT !.left = {}, !.role = {}]
           x == IF left = {} THEN NextUser(j, run)
                ELSE [r EXCEPT !.stage = "role", !.left = left, !.role = {}]
<1>1. /\ RealmOK /\ r.stage = "bind" /\ job' = [job EXCEPT ![j] = x]
      /\ UNCHANGED <<status, roles, catalog, principals>>
      /\ bindings' = bindings \cup ({u} \X r.role)
  BY DEF PolarisInv, EnsurePrincipalRoleBinding, keycloak
<1>2. /\ r \in RunRecord /\ RunShape(r) /\ Held \subseteq r.seen /\ r.due \subseteq Due
      /\ \/ r.shifted
         \/ \A p \in r.due : p \in bindings \/ Ahead(Realm, r, p)
      /\ j = "bootstrap" => r.applied \/ r.conflict
      /\ r.page # {} => u = Least(r.page) /\ u \in r.page
  BY <1>1, SyncRun DEF SyncStages
<1>3. /\ r.page # {} /\ r.page \subseteq Users /\ r.role \subseteq r.left /\ r.left \subseteq Roles
      /\ u \in Users /\ u = Least(r.page)
  BY <1>1, <1>2 DEF RunShape, RunRecord, Body, SyncStages, ServiceStages
<1>4. u \in principals /\ {u} \X r.left \subseteq r.seen \cap (Users \X Mapped)
  <2>1. PrincipalOK(Realm, r) /\ SeenOK(Realm, r)
    BY DEF PolarisInv, JobsOK, RunOK
  <2> QED
    BY <1>1, <1>3, <2>1, RealmFields DEF PrincipalOK, SeenOK
<1>5. RealmOK'
  <2>1. bindings' \subseteq principals \X Roles
    BY <1>1, <1>3, <1>4 DEF RealmOK
  <2> QED
    BY <1>1, <2>1, RealmKept DEF EnsurePrincipalRoleBinding, RealmOK
<1>6. bindings' \ bindings \subseteq r.seen \cap (Users \X Mapped)
  BY <1>1, <1>3, <1>4
<1>7. /\ Realm'.enabled = Enabled /\ Realm'.held = Held /\ Realm'.due = Due
      /\ Realm'.bindings = bindings' /\ Realm'.principals = principals
  BY <1>1 DEF Realm, Enabled, Held, Due
<1>8. ASSUME NEW p \in r.due
      PROVE  \/ r.shifted
             \/ p \in bindings'
             \/ p[1] \in r.page /\ (p[1] = u => p[2] \in left)
             \/ ~r.short /\ RankIn(Enabled, p[1]) > r.first + PageSize
  <2>1. \/ r.shifted
        \/ p \in bindings
        \/ p[1] \in r.page /\ (p[1] = u => p[2] \in r.left)
        \/ ~r.short /\ RankIn(Enabled, p[1]) > r.first + PageSize
    BY <1>1, <1>2, <1>3, RealmFields DEF Ahead, Before, Body, SyncStages
  <2>2. p \in Users \X Roles
    BY <1>2 DEF RunRecord
  <2>3. p[1] = u /\ p[2] \in r.role => p \in bindings'
    BY <1>1, <2>2
  <2> QED
    BY <1>1, <2>1, <2>3
<1> HIDE DEF r, u
<1>9. CASE left = {}
  <2>1. x = NextUser(j, run)
    BY <1>9
  <2>2. /\ run \in RunRecord /\ run.page = r.page /\ run.left = {}
        /\ run.short = r.short /\ run.first = r.first
        /\ run.seen = r.seen /\ run.due = r.due /\ run.shifted = r.shifted
        /\ run.applied = r.applied /\ run.conflict = r.conflict
    BY <1>2 DEF RunRecord
  <2> HIDE DEF x, run
  <2>3. \/ run.shifted
        \/ \A p \in run.due :
             \/ p \in Realm'.bindings
             \/ p[1] \in run.page \ {User(j)}
             \/ ~run.short /\ RankIn(Realm'.enabled, p[1]) > run.first + PageSize
    BY <1>7, <1>8, <1>9, <2>2 DEF u
  <2>4. run.page = job[j].page
    BY <2>2 DEF r
  <2>5. /\ RunOK(Realm', x) /\ x.stage \in {"principal", "page", "done", "service"}
        /\ j = "cron" => x.stage # "service"
        /\ j = "bootstrap" => x.applied = r.applied /\ x.conflict = r.conflict
        /\ x.stage \in {"done", "service"} => r.shifted \/ r.due \subseteq Realm'.bindings
    BY <1>2, <1>3, <1>7, <2>1, <2>2, <2>3, <2>4, UserDone
  <2>6. PolarisInv'
    BY <1>1, <1>2, <1>5, <2>5, JobStep DEF SyncStages
  <2>7. job'[j] = x
    BY <1>1, RunFields
  <2> QED
    BY <1>6, <1>7, <2>5, <2>6, <2>7 DEF Covered, r
<1>10. CASE left # {}
  <2>1. x = [r EXCEPT !.stage = "role", !.left = left, !.role = {}]
    BY <1>10
  <2> HIDE DEF x
  <2>2. /\ x \in RunRecord /\ x.stage = "role" /\ x.page = r.page /\ x.left = left
        /\ x.short = r.short /\ x.first = r.first
        /\ x.seen = r.seen /\ x.due = r.due /\ x.shifted = r.shifted
        /\ x.applied = r.applied /\ x.conflict = r.conflict
    <3>1. left \in SUBSET Roles /\ {} \in SUBSET Roles
      BY <1>3
    <3> HIDE DEF left
    <3> QED
      BY <1>2, <2>1, <3>1 DEF RunRecord, Stages, SyncStages
  <2>3. {u} \X left \subseteq x.seen \cap (Users \X Mapped)
    BY <1>4, <2>2
  <2> HIDE DEF left
  <2>4. RunShape(x)
    BY <1>3, <1>10, <2>2 DEF RunShape, Body, SyncStages, ServiceStages, Before
  <2>5. ASSUME NEW p \in x.due
        PROVE  x.shifted \/ p \in bindings' \/ Ahead(Realm', x, p)
    BY <1>3, <1>7, <1>8, <2>2 DEF Ahead, Body, SyncStages
  <2>6. DueOK(Realm', x)
    BY <1>2, <1>7, <2>2, <2>5 DEF DueOK
  <2>7. SeenOK(Realm', x) /\ PrincipalOK(Realm', x) /\ EntityOK(Realm', x)
    BY <1>2, <1>3, <1>4, <1>7, <2>2, <2>3 DEF SeenOK, PrincipalOK, EntityOK
  <2>8. RunOK(Realm', x)
    BY <2>4, <2>6, <2>7 DEF RunOK
  <2>9. PolarisInv'
    BY <1>1, <1>2, <1>5, <2>2, <2>8, JobStep DEF SyncStages
  <2>10. job'[j].stage = "role"
    BY <1>1, <2>2, RunFields
  <2> QED
    BY <1>6, <2>9, <2>10 DEF Covered, r
<1> QED
  BY <1>9, <1>10

\* The scripts start, fail, or find the user gone: nothing but the run changes.
LEMMA OutsideSteps ==
  ASSUME PolarisInv
  PROVE  /\ StartCron \/ StartBootstrap => PolarisInv'
         /\ TableMissing \/ ServiceRoleMissing => PolarisInv'
         /\ \A j \in Jobs : Fail(j) \/ UserGone(j) =>
              PolarisInv' /\ job'[j].stage = "failed" /\ bindings' = bindings
<1>1. RealmOK
  BY DEF PolarisInv
<1>2. ASSUME StartCron
      PROVE  PolarisInv'
  <2>1. /\ RealmOK' /\ Realm' = Realm /\ UNCHANGED <<status, roles, catalog, bindings, principals>>
        /\ job' = [job EXCEPT !["cron"] = NewRun("page")]
    BY <1>1, <1>2, RealmAsIs DEF StartCron, keycloak, polaris
  <2>2. RunOK(Realm', NewRun("page")) /\ NewRun("page").stage = "page"
    BY <1>1, <2>1, FreshRun
  <2> HIDE DEF NewRun
  <2> QED
    BY <2>1, <2>2, JobStep DEF Jobs, SyncStages
<1>3. ASSUME StartBootstrap
      PROVE  PolarisInv'
  <2>r. restarts' \in 0..BackoffLimit
    BY <1>1, <1>3, PolarisAssumption DEF StartBootstrap, RealmOK
  <2>1. /\ RealmOK' /\ Realm' = Realm /\ UNCHANGED <<status, roles, catalog, bindings, principals>>
        /\ job' = [job EXCEPT !["bootstrap"] = NewRun("catalog")]
    <3>1. /\ UNCHANGED <<mode, status, roles, catalog, granted, bindings, principals, principalRoles,
                         changes, faults>>
          /\ job' = [job EXCEPT !["bootstrap"] = NewRun("catalog")]
      BY <1>3 DEF StartBootstrap, keycloak, polaris
    <3>2. RealmOK'
      BY <1>1, <2>r, <3>1 DEF RealmOK
    <3>3. Realm' = Realm
      BY <3>1 DEF Realm, Enabled, Held, Due
    <3> QED
      BY <3>1, <3>2, <3>3
  <2>2. RunOK(Realm', NewRun("catalog")) /\ NewRun("catalog").stage = "catalog"
    BY <1>1, <2>1, FreshRun
  <2> QED
    BY <2>1, <2>2, JobStep DEF Jobs, Written, SyncStages, ServiceStages
<1>4. ASSUME NEW j \in Jobs,
             Fail(j) \/ UserGone(j) \/ (j = "bootstrap" /\ (TableMissing \/ ServiceRoleMissing))
      PROVE  PolarisInv' /\ job'[j].stage = "failed" /\ bindings' = bindings
  <2>1. /\ job' = [job EXCEPT ![j] = Ended("failed")] /\ UNCHANGED <<keycloak, polaris, changes, restarts>>
        /\ faults' = faults \/ (faults' = faults + 1 /\ faults < mode.faults)
    BY <1>4 DEF Fail, UserGone, TableMissing, ServiceRoleMissing
  <2>2. UNCHANGED <<status, roles, mode, granted, catalog, bindings, principals, principalRoles>>
    BY <2>1 DEF keycloak, polaris
  <2>3. faults' \in 0..mode.faults
    <3>1. faults \in 0..mode.faults /\ mode.faults \in Nat
      BY <1>1, PolarisAssumption DEF RealmOK
    <3> QED
      BY <2>1, <3>1
  <2>4. RealmOK'
    BY <1>1, <2>1, <2>2, <2>3, RealmKept DEF RealmOK
  <2>5. RunOK(Realm', Ended("failed")) /\ Ended("failed").stage = "failed"
    BY EndedRun
  <2>6. PolarisInv'
    BY <2>1, <2>2, <2>4, <2>5, JobStep DEF Written, SyncStages, ServiceStages
  <2> QED
    BY <2>1, <2>2, <2>5, <2>6, RunFields
<1> QED
  BY <1>2, <1>3, <1>4 DEF Jobs

\* The GET of ensure_catalog.
LEMMA GetCatalogStep ==
  ASSUME PolarisInv, GetCatalog
  PROVE  PolarisInv'
<1> DEFINE r == job["bootstrap"]
           new == IF catalog.config = "absent" THEN "create" ELSE "update"
           x == [r EXCEPT !.stage = new, !.entity = catalog.version]
<1>1. /\ RealmOK /\ RealmOK' /\ Realm' = Realm
      /\ UNCHANGED <<status, roles, catalog, bindings, principals>>
      /\ r.stage = "catalog" /\ job' = [job EXCEPT !["bootstrap"] = x]
  BY RealmAsIs DEF PolarisInv, GetCatalog, keycloak, polaris
<1>2. r \in RunRecord /\ RunShape(r) /\ SeenOK(Realm, r) /\ DueOK(Realm, r)
  BY DEF PolarisInv, JobsOK, RunOK, RunShape, Jobs
<1>3. new \in {"create", "update"} /\ catalog.version \in Nat
  BY <1>1 DEF RealmOK
<1> HIDE DEF r, new
<1>4. /\ x \in RunRecord /\ x.stage = new /\ x.entity = catalog.version
      /\ x.page = r.page /\ x.left = r.left /\ x.first = r.first /\ x.call = r.call
      /\ x.seen = r.seen /\ x.due = r.due /\ x.shifted = r.shifted
  BY <1>2, <1>3 DEF RunRecord, Stages
<1> HIDE DEF x
<1>5. RunShape(x)
  BY <1>1, <1>2, <1>3, <1>4 DEF RunShape, Body, SyncStages, ServiceStages, Before
<1>6. SeenOK(Realm, x) /\ PrincipalOK(Realm, x) /\ EntityOK(Realm, x)
  BY <1>1, <1>2, <1>3, <1>4, RealmFields DEF SeenOK, PrincipalOK, EntityOK, Watching, Before
<1>7. DueOK(Realm, x)
  BY <1>1, <1>2, <1>3, <1>4 DEF DueOK, Ahead, Watching, Before
<1>8. RunOK(Realm', x)
  BY <1>1, <1>5, <1>6, <1>7 DEF RunOK
<1> QED
  BY <1>1, <1>3, <1>4, <1>8, JobStep DEF Jobs, Written, SyncStages, ServiceStages

\* Its POST or PUT: without another writer the version is the one that was read.
LEMMA WriteCatalogStep ==
  ASSUME PolarisInv, WriteCatalog
  PROVE  PolarisInv'
<1> DEFINE r == job["bootstrap"]
           current == catalog.version = r.entity
           y == [r EXCEPT !.stage = "acl"]
           x == [y EXCEPT !.applied = current]
<1>1. /\ RealmOK /\ UNCHANGED <<mode, status, roles, bindings, principals, principalRoles, granted,
                                changes, faults, restarts>>
      /\ r.stage \in {"create", "update"}
      /\ catalog' = IF current THEN [version |-> catalog.version + 1, config |-> "ours"] ELSE catalog
      /\ job' = [job EXCEPT !["bootstrap"].stage = "acl", !["bootstrap"].applied = current]
  BY DEF PolarisInv, WriteCatalog, keycloak
<1>2. job' = [job EXCEPT !["bootstrap"] = x]
  BY <1>1, RunFields DEF Jobs
<1>3. /\ r \in RunRecord /\ RunShape(r) /\ SeenOK(Realm, r) /\ DueOK(Realm, r)
      /\ r.conflict \/ current
  BY <1>1, RealmFields DEF PolarisInv, JobsOK, RunOK, RunShape, Jobs, EntityOK
<1>4. RealmOK'
  <2>1. catalog' \in [version : Nat, config : {"absent", "ours", "other"}]
    BY <1>1 DEF RealmOK
  <2> QED
    BY <1>1, <2>1 DEF RealmOK
<1>5. /\ Realm'.enabled = Enabled /\ Realm'.held = Held /\ Realm'.due = Due
      /\ Realm'.bindings = bindings /\ Realm'.principals = principals
  BY <1>1 DEF Realm, Enabled, Held, Due
<1>6. current \in BOOLEAN
  OBVIOUS
<1> HIDE DEF r, current
<1>7. /\ y \in RunRecord /\ y.stage = "acl" /\ y.conflict = r.conflict
      /\ y.page = r.page /\ y.left = r.left /\ y.first = r.first /\ y.call = r.call
      /\ y.seen = r.seen /\ y.due = r.due /\ y.shifted = r.shifted
  BY <1>3 DEF RunRecord, Stages
<1> HIDE DEF y
<1>8. /\ x \in RunRecord /\ x.stage = "acl" /\ x.conflict = r.conflict /\ x.applied = current
      /\ x.page = r.page /\ x.left = r.left /\ x.first = r.first /\ x.call = r.call
      /\ x.seen = r.seen /\ x.due = r.due /\ x.shifted = r.shifted
  BY <1>6, <1>7 DEF RunRecord
<1> HIDE DEF x
<1>9. RunShape(x)
  BY <1>1, <1>3, <1>8 DEF RunShape, Body, SyncStages, ServiceStages, Before
<1>10. SeenOK(Realm', x) /\ PrincipalOK(Realm', x) /\ EntityOK(Realm', x)
  BY <1>1, <1>3, <1>5, <1>8, RealmFields DEF SeenOK, PrincipalOK, EntityOK, Watching, Before
<1>11. DueOK(Realm', x)
  BY <1>1, <1>3, <1>5, <1>8, RealmFields DEF DueOK, Ahead, Watching, Before
<1>12. RunOK(Realm', x)
  BY <1>9, <1>10, <1>11 DEF RunOK
<1> QED
  BY <1>1, <1>2, <1>3, <1>4, <1>8, <1>12, JobStep DEF Jobs

\* One call of create_role_bindings: after the last, the sync starts at its first page.
LEMMA AclStep ==
  ASSUME PolarisInv, CreateRoleBindings
  PROVE  PolarisInv'
<1> DEFINE r == job["bootstrap"]
           new == IF r.call = Acl THEN "page" ELSE "acl"
           x == [r EXCEPT !.stage = new, !.call = r.call + 1]
<1>1. /\ RealmOK /\ UNCHANGED <<mode, status, roles, bindings, principals, catalog, changes, faults,
                                restarts>>
      /\ r.stage = "acl" /\ granted' = Grant(granted, r.call)
      /\ principalRoles' = principalRoles \cup mode.creates[r.call]
      /\ job' = [job EXCEPT !["bootstrap"] = x]
  BY DEF PolarisInv, CreateRoleBindings, keycloak
<1>2. /\ r \in RunRecord /\ RunShape(r) /\ SeenOK(Realm, r) /\ DueOK(Realm, r)
      /\ r.applied \/ r.conflict
  BY <1>1 DEF PolarisInv, JobsOK, RunOK, RunShape, Jobs, Written
<1>3. r.call \in 1..Acl /\ r.first = 0 /\ Acl \in Nat /\ new \in {"page", "acl"}
  BY <1>1, <1>2, PolarisAssumption DEF RunShape, Before
<1>4. RealmOK'
  <2>1. granted \in 0..Acl
    BY <1>1 DEF RealmOK
  <2>2. granted' \in 0..Acl
    BY <1>1, <1>3, <2>1 DEF Grant
  <2>3. principalRoles' \subseteq Roles
    <3>1. mode.creates \in [1..Acl -> SUBSET Roles]
      BY <1>1, PolarisAssumption DEF RealmOK
    <3> QED
      BY <1>1, <1>3, <3>1 DEF RealmOK
  <2> QED
    BY <1>1, <2>2, <2>3 DEF RealmOK
<1>5. /\ Realm'.enabled = Enabled /\ Realm'.held = Held /\ Realm'.due = Due
      /\ Realm'.bindings = bindings /\ Realm'.principals = principals
  BY <1>1 DEF Realm, Enabled, Held, Due
<1>6. new = "acl" => r.call + 1 \in 1..Acl
  BY <1>3
<1>7. r.call + 1 \in Nat
  BY <1>3
<1> HIDE DEF r, new
<1>8. /\ x \in RunRecord /\ x.stage = new /\ x.conflict = r.conflict /\ x.applied = r.applied
      /\ x.page = r.page /\ x.left = r.left /\ x.first = r.first /\ x.call = r.call + 1
      /\ x.seen = r.seen /\ x.due = r.due /\ x.shifted = r.shifted
  BY <1>2, <1>3, <1>7 DEF RunRecord, Stages, SyncStages
<1> HIDE DEF x
<1>9. RunShape(x)
  BY <1>1, <1>2, <1>3, <1>6, <1>8 DEF RunShape, Body, SyncStages, ServiceStages, Before
<1>10. SeenOK(Realm', x) /\ PrincipalOK(Realm', x) /\ EntityOK(Realm', x)
  BY <1>1, <1>2, <1>3, <1>5, <1>8, RealmFields
     DEF SeenOK, PrincipalOK, EntityOK, Watching, Before, SyncStages
<1>11. Held \subseteq x.seen /\ x.due \subseteq Due
  BY <1>1, <1>2, <1>8, RealmFields DEF SeenOK, DueOK, Watching, Before
<1>12. ASSUME NEW p \in x.due
       PROVE  Ahead(Realm', x, p)
  <2>1. p[1] \in Enabled /\ Enabled \subseteq Nat /\ IsFiniteSet(Enabled)
    BY <1>1, <1>11, RealmTypes
  <2>2. RankIn(Enabled, p[1]) >= 1 /\ RankIn(Enabled, p[1]) \in Nat
    BY <2>1, RankTypes
  <2> QED
    BY <1>3, <1>5, <1>8, <2>2 DEF Ahead, Before
<1>13. DueOK(Realm', x)
  BY <1>5, <1>11, <1>12 DEF DueOK
<1>14. RunOK(Realm', x)
  BY <1>9, <1>10, <1>13 DEF RunOK
<1> QED
  BY <1>1, <1>2, <1>4, <1>8, <1>14, JobStep DEF Jobs

\* The static service principals and their bindings.
LEMMA ServiceSteps ==
  ASSUME PolarisInv, EnsureServicePrincipal \/ BindServicePrincipal
  PROVE  PolarisInv'
<1> DEFINE r == job["bootstrap"]
           u == Least(r.page)
<1>1. RealmOK /\ r.stage \in ServiceStages /\ User("bootstrap") = u
  BY DEF PolarisInv, EnsureServicePrincipal, BindServicePrincipal, ServiceStages, User, Least
<1>2. /\ r \in RunRecord /\ RunShape(r) /\ PrincipalOK(Realm, r)
      /\ r.applied \/ r.conflict
  BY <1>1 DEF PolarisInv, JobsOK, RunOK, RunShape, Jobs, Written
<1>3. r.page # {} /\ r.page \subseteq Services /\ r.left = {}
  BY <1>1, <1>2 DEF RunShape, ServiceStages
<1>4. u \in r.page /\ u \in Services
  <2>1. r.page \subseteq Nat
    BY <1>3, PolarisAssumption
  <2> QED
    BY <1>3, <2>1, LeastOfPage
<1>5. CASE EnsureServicePrincipal
  <2> DEFINE x == [r EXCEPT !.stage = "serviceRole"]
  <2>1. /\ principals' = principals \cup {u} /\ job' = [job EXCEPT !["bootstrap"] = x]
        /\ UNCHANGED <<status, roles, catalog, bindings>>
    BY <1>1, <1>5 DEF EnsureServicePrincipal, keycloak
  <2>2. RealmOK'
    BY <1>1, <1>4, <1>5, <2>1, RealmKept DEF EnsureServicePrincipal, RealmOK
  <2>3. Realm'.principals = principals \cup {u}
    BY <2>1 DEF Realm
  <2> HIDE DEF r
  <2>4. /\ x \in RunRecord /\ x.stage = "serviceRole" /\ x.page = r.page /\ x.left = {}
        /\ x.applied = r.applied /\ x.conflict = r.conflict
    BY <1>2, <1>3 DEF RunRecord, Stages
  <2> HIDE DEF x
  <2>5. RunShape(x)
    BY <1>3, <2>4 DEF RunShape, Body, SyncStages, ServiceStages, Before
  <2>6. RunOK(Realm', x)
    BY <2>3, <2>4, <2>5
       DEF RunOK, PrincipalOK, SeenOK, DueOK, EntityOK, Watching, Before, SyncStages
  <2> QED
    BY <1>2, <2>1, <2>2, <2>4, <2>6, JobStep DEF Jobs
<1>6. CASE BindServicePrincipal
  <2> DEFINE rest == r.page \ {u}
             new == IF rest = {} THEN "done" ELSE "service"
             y == [r EXCEPT !.stage = new]
             x == [y EXCEPT !.page = rest]
  <2>1. /\ bindings' = bindings \cup {<<u, ServiceRole[u]>>} /\ r.stage = "serviceRole"
        /\ UNCHANGED <<status, roles, catalog, principals>>
        /\ job' = [job EXCEPT !["bootstrap"].stage = new, !["bootstrap"].page = rest]
    BY <1>1, <1>6 DEF BindServicePrincipal, keycloak
  <2>2. job' = [job EXCEPT !["bootstrap"] = x]
    BY <2>1, RunFields DEF Jobs
  <2>3. RealmOK'
    <3>1. u \in principals /\ ServiceRole[u] \in Roles
      BY <1>2, <1>4, <2>1, RealmFields, PolarisAssumption DEF PrincipalOK
    <3>2. bindings' \subseteq principals \X Roles
      BY <1>1, <2>1, <3>1 DEF RealmOK
    <3> QED
      BY <1>1, <1>6, <2>1, <3>2, RealmKept DEF BindServicePrincipal, RealmOK
  <2>4. /\ new \in {"done", "service"} /\ (new = "service" <=> rest # {})
        /\ rest \in SUBSET (Users \cup Services) /\ rest \subseteq Services
    BY <1>3
  <2> HIDE DEF r, new, rest
  <2>5. /\ y \in RunRecord /\ y.stage = new /\ y.left = {}
        /\ y.applied = r.applied /\ y.conflict = r.conflict
    BY <1>2, <1>3, <2>4 DEF RunRecord, Stages
  <2> HIDE DEF y
  <2>6. /\ x \in RunRecord /\ x.stage = new /\ x.page = rest /\ x.left = {}
        /\ x.applied = r.applied /\ x.conflict = r.conflict
    BY <2>4, <2>5 DEF RunRecord
  <2> HIDE DEF x
  <2>7. RunShape(x)
    BY <2>4, <2>6 DEF RunShape, Body, SyncStages, ServiceStages, Before
  <2>8. RunOK(Realm', x)
    BY <2>4, <2>6, <2>7
       DEF RunOK, PrincipalOK, SeenOK, DueOK, EntityOK, Watching, Before, SyncStages
  <2> QED
    BY <1>2, <2>1, <2>2, <2>3, <2>6, <2>8, JobStep DEF Jobs
<1> QED
  BY <1>5, <1>6

\* Another writer of the catalog is a conflict for a bootstrap between its two calls.
LEMMA OtherWriterStep ==
  ASSUME PolarisInv, UpdateCatalog
  PROVE  PolarisInv' /\ bindings' = bindings /\ \A j \in Jobs : job'[j].stage = job[j].stage
<1> DEFINE r == job["bootstrap"]
           late == r.conflict \/ r.stage \in {"create", "update"}
           x == [r EXCEPT !.conflict = late]
<1>1. /\ RealmOK /\ UNCHANGED <<mode, status, roles, bindings, principals, principalRoles, granted,
                                faults, restarts>>
      /\ catalog' = [version |-> catalog.version + 1, config |-> "other"]
      /\ changes < mode.changes /\ changes' = changes + 1
      /\ job' = [job EXCEPT !["bootstrap"] = x]
  BY DEF PolarisInv, UpdateCatalog, keycloak
<1>2. RealmOK'
  <2>1. catalog' \in [version : Nat, config : {"absent", "ours", "other"}]
    BY <1>1 DEF RealmOK
  <2>2. changes \in 0..mode.changes /\ mode.changes \in Nat
    BY <1>1, PolarisAssumption DEF RealmOK
  <2>3. changes' \in 0..mode.changes
    BY <1>1, <2>2
  <2> QED
    BY <1>1, <2>1, <2>3 DEF RealmOK
<1>3. /\ r \in RunRecord /\ RunOK(Realm, r) /\ RunShape(r)
      /\ r.stage \in Written => r.applied \/ r.conflict
  BY DEF PolarisInv, JobsOK, RunOK, RunShape, Jobs
<1>4. /\ Realm'.enabled = Enabled /\ Realm'.held = Held /\ Realm'.due = Due
      /\ Realm'.bindings = bindings /\ Realm'.principals = principals
  BY <1>1 DEF Realm, Enabled, Held, Due
<1>5. late \in BOOLEAN /\ (r.conflict => late) /\ (r.stage \in {"create", "update"} => late)
  OBVIOUS
<1> HIDE DEF r, late
<1>6. /\ x \in RunRecord /\ x.stage = r.stage /\ x.conflict = late /\ x.applied = r.applied
      /\ x.page = r.page /\ x.left = r.left /\ x.role = r.role /\ x.first = r.first
      /\ x.short = r.short /\ x.call = r.call
      /\ x.seen = r.seen /\ x.due = r.due /\ x.shifted = r.shifted
  BY <1>3, <1>5 DEF RunRecord
<1> HIDE DEF x
<1>7. RunShape(x)
  BY <1>3, <1>6 DEF RunShape
<1>8. SeenOK(Realm', x) /\ PrincipalOK(Realm', x) /\ EntityOK(Realm', x)
  BY <1>3, <1>4, <1>5, <1>6, RealmFields DEF RunOK, SeenOK, PrincipalOK, EntityOK
<1>9. ASSUME NEW p, Ahead(Realm, r, p)
      PROVE  Ahead(Realm', x, p)
  BY <1>4, <1>6, <1>9, RealmFields DEF Ahead
<1>10. DueOK(Realm', x)
  BY <1>3, <1>4, <1>6, <1>9, RealmFields DEF RunOK, DueOK
<1>11. RunOK(Realm', x)
  BY <1>7, <1>8, <1>10 DEF RunOK
<1>12. PolarisInv'
  BY <1>1, <1>2, <1>3, <1>5, <1>6, <1>11, JobStep DEF Jobs
<1>13. \A j \in Jobs : job'[j].stage = job[j].stage
  BY <1>1, <1>6, RunFields DEF r, Jobs
<1> QED
  BY <1>1, <1>12, <1>13

\* A binding that an operator removes is not due.
LEMMA UnbindStep ==
  ASSUME PolarisInv, NEW u \in Users, NEW role \in Roles, Unbind(u, role)
  PROVE  PolarisInv'
<1>1. /\ RealmOK /\ UNCHANGED <<mode, status, roles, catalog, principals, principalRoles, granted,
                                job, faults, restarts>>
      /\ bindings' = bindings \ {<<u, role>>} /\ role \notin roles[u]
      /\ changes < mode.changes /\ changes' = changes + 1
  BY DEF PolarisInv, Unbind, keycloak
<1>2. RealmOK'
  <2>1. changes \in 0..mode.changes /\ mode.changes \in Nat
    BY <1>1, PolarisAssumption DEF RealmOK
  <2>2. changes' \in 0..mode.changes
    BY <1>1, <2>1
  <2> QED
    BY <1>1, <2>2 DEF RealmOK
<1>3. /\ Realm'.enabled = Enabled /\ Realm'.held = Held /\ Realm'.due = Due
      /\ Realm'.bindings = bindings' /\ Realm'.principals = principals
      /\ Realm'.version = catalog.version
  BY <1>1 DEF Realm, Enabled, Held, Due
<1>4. bindings \cap Due \subseteq bindings'
  BY <1>1 DEF Due
<1>5. ASSUME NEW j \in Jobs
      PROVE  RunOK(Realm', job'[j])
  <2>1. RunOK(Realm, job[j]) /\ job'[j] = job[j]
    BY <1>1 DEF PolarisInv, JobsOK
  <2> QED
    BY <1>3, <1>4, <2>1, OtherRun, RealmFields
<1> QED
  BY <1>1, <1>2, <1>5 DEF PolarisInv, JobsOK

\* A run under a change of users or roles: unless a user leaves the listing, those who are
\* due stay ahead, since their ranks only grow.
LEMMA ObservedRun ==
  ASSUME PolarisInv, RealmOK', UNCHANGED polaris, NEW j \in Jobs, NEW gone \in BOOLEAN,
         gone \/ Enabled \subseteq Enabled'
  PROVE  /\ RunOK(Realm', Observed(job[j], gone))
         /\ Observed(job[j], gone).stage = job[j].stage
         /\ Observed(job[j], gone).applied = job[j].applied
         /\ Observed(job[j], gone).conflict = job[j].conflict
<1> DEFINE r == job[j]
           quiet == {"idle", "service", "serviceRole", "done", "failed"}
           x == Observed(r, gone)
<1>1. /\ Realm'.enabled = Enabled' /\ Realm'.held = Held' /\ Realm'.due = Due'
      /\ Realm'.bindings = bindings /\ Realm'.principals = principals
      /\ Realm'.version = catalog.version
  BY DEF Realm, polaris
<1>2. RunOK(Realm, r) /\ r \in RunRecord /\ RunShape(r)
  BY DEF PolarisInv, JobsOK, RunOK, RunShape
<1>3. CASE r.stage \in quiet
  <2>1. x = r
    BY <1>3 DEF Observed
  <2>2. r.stage \notin Watching /\ r.stage \notin {"role", "bind", "create", "update"}
    BY <1>3 DEF Watching, Before, SyncStages
  <2>3. PrincipalOK(Realm', r)
    BY <1>1, <1>2, RealmFields DEF RunOK, PrincipalOK
  <2>4. RunOK(Realm', r)
    BY <1>2, <2>2, <2>3 DEF RunOK, SeenOK, DueOK, EntityOK
  <2> QED
    BY <2>1, <2>4
<1>4. CASE r.stage \notin quiet
  <2> DEFINE seen == r.seen \cup Held'
             due == r.due \cap Due'
             shifted == r.shifted \/ gone
  <2>1. x = [r EXCEPT !.seen = seen, !.due = due, !.shifted = shifted]
    BY <1>4 DEF Observed
  <2>2. r.stage \in Watching
    BY <1>2, <1>4 DEF RunRecord, Stages, Watching, Before
  <2>3. Held' \subseteq Users \X Roles
    BY DEF Held
  <2>4. /\ seen \in SUBSET (Users \X Roles) /\ due \in SUBSET (Users \X Roles)
        /\ shifted \in BOOLEAN
    <3>1. r.seen \in SUBSET (Users \X Roles) /\ r.due \in SUBSET (Users \X Roles)
      BY <1>2 DEF RunRecord
    <3> QED
      BY <2>3, <3>1
  <2>5. Held' \subseteq seen /\ due \subseteq Due' /\ r.seen \subseteq seen /\ due \subseteq r.due
    OBVIOUS
  <2>6. ~shifted => ~r.shifted /\ ~gone
    OBVIOUS
  <2> HIDE DEF x, r, seen, due, shifted
  <2>7. /\ x \in RunRecord /\ x.stage = r.stage /\ x.conflict = r.conflict
        /\ x.applied = r.applied /\ x.entity = r.entity
        /\ x.page = r.page /\ x.left = r.left /\ x.role = r.role /\ x.first = r.first
        /\ x.short = r.short /\ x.call = r.call
        /\ x.seen = seen /\ x.due = due /\ x.shifted = shifted
    BY <1>2, <2>1, <2>4 DEF RunRecord
  <2>8. RunShape(x)
    BY <1>2, <2>7 DEF RunShape
  <2>9. PrincipalOK(Realm', x) /\ EntityOK(Realm', x)
    BY <1>1, <1>2, <2>7, RealmFields DEF RunOK, PrincipalOK, EntityOK
  <2>10. SeenOK(Realm', x)
    <3>1. SeenOK(Realm, r)
      BY <1>2 DEF RunOK
    <3> QED
      BY <1>1, <2>5, <2>7, <3>1, RealmFields DEF SeenOK
  <2>11. ASSUME ~gone, NEW p, Ahead(Realm, r, p)
         PROVE  Ahead(Realm', x, p)
    <3>0. RealmOK
      BY DEF PolarisInv
    <3>1. Enabled \subseteq Nat /\ IsFiniteSet(Enabled)
      BY <3>0, RealmTypes
    <3>2. Enabled' \subseteq Nat /\ IsFiniteSet(Enabled')
      <4>1. Enabled' \subseteq Users /\ Users \subseteq Nat /\ Users \subseteq Users \cup Services
        BY PolarisAssumption DEF Enabled
      <4> QED
        BY <4>1, PolarisAssumption, FS_Subset
    <3>3. /\ RankIn(Enabled, p[1]) \in Nat /\ RankIn(Enabled', p[1]) \in Nat
          /\ RankIn(Enabled, p[1]) <= RankIn(Enabled', p[1])
      BY <2>11, <3>1, <3>2, RankTypes, RankGrows
    <3>4. r.first \in Nat /\ r.first + PageSize \in Nat
      BY <1>2, PolarisAssumption DEF RunRecord
    <3>5. /\ RankIn(Enabled, p[1]) > r.first => RankIn(Enabled', p[1]) > r.first
          /\ RankIn(Enabled, p[1]) > r.first + PageSize
               => RankIn(Enabled', p[1]) > r.first + PageSize
      BY <3>3, <3>4
    <3> QED
      BY <1>1, <2>7, <2>11, <3>5, RealmFields DEF Ahead
  <2>12. DueOK(Realm', x)
    <3>1. DueOK(Realm, r)
      BY <1>2 DEF RunOK
    <3>2. r.shifted \/ \A p \in r.due : p \in bindings \/ Ahead(Realm, r, p)
      BY <2>2, <3>1, RealmFields DEF DueOK
    <3>3. shifted \/ \A p \in due : p \in bindings \/ Ahead(Realm', x, p)
      BY <2>5, <2>6, <2>11, <3>2
    <3> QED
      BY <1>1, <2>5, <2>7, <3>3 DEF DueOK
  <2>13. RunOK(Realm', x)
    BY <2>8, <2>9, <2>10, <2>12 DEF RunOK
  <2> QED
    BY <2>7, <2>13 DEF x, r
<1> QED
  BY <1>3, <1>4

\* Keycloak changes a user or a role.
LEMMA ChangeStep ==
  ASSUME PolarisInv, NEW gone \in BOOLEAN, Change(gone), UNCHANGED <<mode, polaris, faults, restarts>>,
         status' \in [Users -> {"enabled", "disabled", "absent"}],
         roles' \in [Users -> SUBSET Roles], gone \/ Enabled \subseteq Enabled'
  PROVE  /\ PolarisInv' /\ bindings' = bindings
         /\ \A j \in Jobs : job'[j].stage = job[j].stage
<1>1. RealmOK
  BY DEF PolarisInv
<1>2. RealmOK'
  <2>1. changes \in 0..mode.changes /\ mode.changes \in Nat
    BY <1>1, PolarisAssumption DEF RealmOK
  <2>2. changes' \in 0..mode.changes
    BY <2>1 DEF Change
  <2> QED
    BY <1>1, <2>2 DEF RealmOK, polaris
<1>3. job' = [j \in Jobs |-> Observed(job[j], gone)]
  BY DEF Change
<1>4. ASSUME NEW j \in Jobs
      PROVE  /\ RunOK(Realm', job'[j]) /\ job'[j].stage = job[j].stage
             /\ job'[j].applied = job[j].applied /\ job'[j].conflict = job[j].conflict
  BY <1>2, <1>3, ObservedRun
<1>5. JobsOK'
  <2>1. /\ job["cron"].stage \in SyncStages \cup {"idle", "done", "failed"}
        /\ job["bootstrap"].stage \in Written
             => job["bootstrap"].applied \/ job["bootstrap"].conflict
    BY DEF PolarisInv, JobsOK
  <2>2. "cron" \in Jobs /\ "bootstrap" \in Jobs
    BY DEF Jobs
  <2> QED
    BY <1>3, <1>4, <2>1, <2>2 DEF JobsOK
<1> QED
  BY <1>2, <1>4, <1>5 DEF PolarisInv, polaris

\* A step of a job changes the run of that job only, and not before it has ended the script
\* or the stage; the environment changes no stage at all.
LEMMA PolarisStep ==
  ASSUME PolarisInv, [Next]_vars
  PROVE  /\ PolarisInv'
         /\ \A j \in Jobs : job[j].stage \in SyncStages => Covered(j)
         /\ \A j \in Jobs : job[j].stage = "bind" /\ job'[j].stage # "bind" =>
              bindings' \ bindings \subseteq job[j].seen \cap (Users \X Mapped)
<1> DEFINE Good == /\ PolarisInv'
                   /\ \A j \in Jobs : job[j].stage \in SyncStages => Covered(j)
                   /\ \A j \in Jobs : job[j].stage = "bind" /\ job'[j].stage # "bind" =>
                        bindings' \ bindings \subseteq job[j].seen \cap (Users \X Mapped)
<1>0. job = [j \in Jobs |-> job[j]]
  BY RunFields
<1>1. ASSUME NEW k \in Jobs, PolarisInv',
             \A j \in Jobs \ {k} : job'[j] = job[j],
             job[k].stage \in SyncStages => Covered(k),
             job[k].stage = "bind" /\ job'[k].stage # "bind" =>
               bindings' \ bindings \subseteq job[k].seen \cap (Users \X Mapped)
      PROVE  Good
  BY <1>1 DEF Covered, SyncStages
<1>2. CASE StartCron
  <2>1. PolarisInv'
    BY <1>2, OutsideSteps
  <2>2. /\ "cron" \in Jobs /\ \A j \in Jobs \ {"cron"} : job'[j] = job[j]
        /\ job["cron"].stage \notin SyncStages /\ job["cron"].stage # "bind"
    BY <1>0, <1>2 DEF StartCron, Jobs, SyncStages
  <2> QED
    BY <1>1, <2>1, <2>2
<1>3. CASE Bootstrap
  <2>1. PolarisInv'
    BY <1>3, OutsideSteps, GetCatalogStep, WriteCatalogStep, AclStep, ServiceSteps DEF Bootstrap
  <2>2. /\ "bootstrap" \in Jobs /\ \A j \in Jobs \ {"bootstrap"} : job'[j] = job[j]
        /\ job["bootstrap"].stage \notin SyncStages /\ job["bootstrap"].stage # "bind"
    BY <1>0, <1>3 DEF Bootstrap, StartBootstrap, GetCatalog, WriteCatalog, CreateRoleBindings,
       TableMissing, EnsureServicePrincipal, BindServicePrincipal, ServiceRoleMissing, Jobs, SyncStages
  <2> QED
    BY <1>1, <2>1, <2>2
<1>4. ASSUME NEW k \in Jobs, Sync(k) \/ Fail(k)
      PROVE  Good
  <2>1. \A j \in Jobs \ {k} : job'[j] = job[j]
    BY <1>0, <1>4 DEF Sync, Fail, IterKeycloakUsers, EnsurePrincipal, GetKeycloakRealmRoles,
       UserGone, EnsurePrincipalRole, EnsurePrincipalRoleBinding
  <2>2. CASE IterKeycloakUsers(k) \/ GetKeycloakRealmRoles(k)
    <3>1. PolarisInv' /\ Covered(k)
      BY <2>2, PageStep, RolesStep
    <3>2. job[k].stage # "bind"
      BY <2>2 DEF IterKeycloakUsers, GetKeycloakRealmRoles
    <3> QED
      BY <1>1, <2>1, <3>1, <3>2
  <2>3. CASE EnsurePrincipal(k) \/ EnsurePrincipalRole(k)
    <3>1. PolarisInv' /\ job'[k].stage \in {"composite", "bind"}
      BY <2>3, PrincipalStep, PrincipalRoleStep
    <3>2. job[k].stage # "bind"
      BY <2>3 DEF EnsurePrincipal, EnsurePrincipalRole
    <3> QED
      BY <1>1, <2>1, <3>1, <3>2 DEF Covered
  <2>4. CASE EnsurePrincipalRoleBinding(k)
    BY <1>1, <2>1, <2>4, BindingStep
  <2>5. CASE UserGone(k) \/ Fail(k)
    <3>1. PolarisInv' /\ job'[k].stage = "failed" /\ bindings' = bindings
      BY <2>5, OutsideSteps
    <3> QED
      BY <1>1, <2>1, <3>1 DEF Covered
  <2> QED
    BY <1>4, <2>2, <2>3, <2>4, <2>5 DEF Sync
<1>5. ASSUME PolarisInv', \A j \in Jobs : job'[j].stage = job[j].stage
      PROVE  Good
  BY <1>5 DEF Covered, SyncStages
<1>6. ASSUME NEW u \in Users, NEW new \in {"enabled", "disabled", "absent"}, SetStatus(u, new)
      PROVE  Good
  <2>1. /\ status \in [Users -> {"enabled", "disabled", "absent"}]
        /\ roles \in [Users -> SUBSET Roles]
    BY DEF PolarisInv, RealmOK
  <2>2. /\ status' = [status EXCEPT ![u] = new] /\ roles' = roles
        /\ Change(status[u] = "enabled") /\ UNCHANGED <<mode, polaris, faults, restarts>>
    BY <1>6 DEF SetStatus
  <2>3. status' \in [Users -> {"enabled", "disabled", "absent"}]
    BY <2>1, <2>2
  <2>4. (status[u] = "enabled") \/ Enabled \subseteq Enabled'
    BY <2>1, <2>2 DEF Enabled
  <2>5. (status[u] = "enabled") \in BOOLEAN
    OBVIOUS
  <2>6. PolarisInv' /\ \A j \in Jobs : job'[j].stage = job[j].stage
    BY <2>1, <2>2, <2>3, <2>4, <2>5, ChangeStep
  <2> QED
    BY <1>5, <2>6
<1>7. ASSUME NEW u \in Users, NEW role \in Roles, SetRole(u, role)
      PROVE  Good
  <2>1. /\ status \in [Users -> {"enabled", "disabled", "absent"}]
        /\ roles \in [Users -> SUBSET Roles]
    BY DEF PolarisInv, RealmOK
  <2>2. /\ roles' = [roles EXCEPT ![u] = IF role \in @ THEN @ \ {role} ELSE @ \cup {role}]
        /\ status' = status /\ Change(FALSE) /\ UNCHANGED <<mode, polaris, faults, restarts>>
    BY <1>7 DEF SetRole
  <2>3. roles' \in [Users -> SUBSET Roles] /\ Enabled \subseteq Enabled'
    BY <2>1, <2>2 DEF Enabled
  <2>4. PolarisInv' /\ \A j \in Jobs : job'[j].stage = job[j].stage
    BY <2>1, <2>2, <2>3, ChangeStep
  <2> QED
    BY <1>5, <2>4
<1>8. ASSUME NEW u \in Users, NEW role \in Roles, Unbind(u, role)
      PROVE  Good
  <2>1. PolarisInv' /\ job' = job
    BY <1>8, UnbindStep DEF Unbind
  <2> QED
    BY <1>5, <2>1
<1>9. CASE UpdateCatalog
  BY <1>5, <1>9, OtherWriterStep
<1>10. CASE UNCHANGED vars
  <2>1. RealmOK /\ JobsOK /\ job' = job /\ UNCHANGED <<keycloak, polaris, changes, faults, restarts>>
    BY <1>10 DEF PolarisInv, vars
  <2>2. RealmOK' /\ Realm' = Realm
    BY <2>1, RealmAsIs
  <2>3. PolarisInv'
    BY <2>1, <2>2 DEF PolarisInv, JobsOK
  <2> QED
    BY <1>5, <2>1, <2>3
<1> QED
  BY <1>2, <1>3, <1>4, <1>6, <1>7, <1>8, <1>9, <1>10 DEF Next

\* The invariant holds before any job starts.
LEMMA PolarisStart == Init => PolarisInv
<1> SUFFICES ASSUME Init
             PROVE  PolarisInv
  OBVIOUS
<1>1. /\ mode \in Modes /\ roles = FirstRoles /\ granted = 0 /\ principals = {}
      /\ principalRoles = {} /\ bindings = {} /\ changes = 0 /\ faults = 0 /\ restarts = 0
      /\ status = [u \in Users |-> IF u \in FirstUsers THEN "enabled" ELSE "absent"]
      /\ catalog \in [version : {0}, config : {"absent"}] \cup [version : {1}, config : {"other"}]
      /\ job = [j \in Jobs |-> Ended("idle")]
  BY DEF Init
<1>2. RealmOK
  <2>1. mode.changes \in Nat /\ mode.faults \in Nat /\ Acl \in Nat /\ BackoffLimit \in Nat
    BY <1>1, PolarisAssumption
  <2>2. /\ 0 \in 0..Acl /\ changes \in 0..mode.changes /\ faults \in 0..mode.faults
        /\ restarts \in 0..BackoffLimit
    BY <1>1, <2>1
  <2>3. catalog \in [version : Nat, config : {"absent", "ours", "other"}]
    BY <1>1
  <2>4. status \in [Users -> {"enabled", "disabled", "absent"}] /\ roles \in [Users -> SUBSET Roles]
    BY <1>1, PolarisAssumption
  <2> QED
    BY <1>1, <2>2, <2>3, <2>4 DEF RealmOK
<1>3. JobsOK
  <2>1. RunOK(Realm, Ended("idle")) /\ Ended("idle").stage = "idle"
    BY EndedRun
  <2> HIDE DEF Ended
  <2>2. \A j \in Jobs : job[j] = Ended("idle")
    BY <1>1
  <2>3. "cron" \in Jobs /\ "bootstrap" \in Jobs
    BY DEF Jobs
  <2> QED
    BY <1>1, <2>1, <2>2, <2>3 DEF JobsOK, Written, SyncStages, ServiceStages
<1> QED
  BY <1>2, <1>3 DEF PolarisInv

\* The inductive invariant of the jobs.
LEMMA PolarisInductive == Spec => []PolarisInv
<1>1. PolarisInv /\ [Next]_vars => PolarisInv'
  BY PolarisStep
<1> QED
  BY <1>1, PolarisStart, PTL DEF Spec

\* The realm and the two scripts keep their types, and a loop of the sync is never in its
\* body without a user or a role, whatever fails or overlaps.
THEOREM PolarisTypes == Spec => []TypeOK
<1>1. PolarisInv => TypeOK
  <2> SUFFICES ASSUME PolarisInv
               PROVE  TypeOK
    OBVIOUS
  <2>1. ASSUME NEW j \in Jobs
        PROVE  /\ job[j].stage \in Stages
               /\ job[j].page \subseteq IF job[j].stage \in ServiceStages THEN Services ELSE Users
               /\ job[j].page # {} <=> job[j].stage \in (SyncStages \ {"page"}) \cup ServiceStages
               /\ job[j].stage \in {"role", "bind"} <=> job[j].left # {}
    <3>1. RunShape(job[j])
      BY DEF PolarisInv, JobsOK, RunOK
    <3> QED
      BY <3>1 DEF RunShape, RunRecord, Body
  <2> QED
    BY <2>1 DEF PolarisInv, RealmOK, JobsOK, TypeOK
<1> QED
  BY <1>1, PolarisInductive, PTL

\* A bootstrap that is done has written the catalog's configuration, unless another writer
\* came between the GET and the POST or PUT of ensure_catalog.
THEOREM CatalogApplied == Spec => []AppliedUnlessConflict
<1>1. PolarisInv => AppliedUnlessConflict
  BY DEF PolarisInv, JobsOK, AppliedUnlessConflict, Written
<1> QED
  BY <1>1, PolarisInductive, PTL

\* A sync that started after a revocation does not grant the role again: every binding that
\* it adds is for a mapped role that the user held at some time during its run.
THEOREM NothingGrantedAgain == Spec => NothingRegranted
<1>1. PolarisInv /\ [Next]_vars =>
        [\A j \in Jobs :
           (job[j].stage = "bind" /\ job'[j].stage # "bind") =>
             (bindings' \ bindings) \subseteq (job[j].seen \cap (Users \X Mapped))]_vars
  BY PolarisStep
<1> QED
  BY <1>1, PolarisInductive, PTL DEF Spec, NothingRegranted

\* A sync that ends well has bound every role that was due from its start to its end, for
\* any number of users and any page size, unless a user left the listing meanwhile.
THEOREM SyncReachesAll == Spec => SyncCovers
<1>1. PolarisInv /\ [Next]_vars =>
        [\A j \in Jobs :
           (job[j].stage \in SyncStages /\ job'[j].stage \in {"done", "service"})
             => job[j].shifted \/ job[j].due \subseteq bindings']_vars
  BY PolarisStep DEF Covered
<1> QED
  BY <1>1, PolarisInductive, PTL DEF Spec, SyncCovers


----------------------------------------------------------------------------
(* Paging through a collection.                                            *)

(* The inductive invariant.  The rows that match the page asked for have   *)
(* places, and what the client has is told by them: the rows up to the     *)
(* place that the pages have reached, but for as many as were removed, and *)
(* while nothing is inserted no others.                                    *)

Wanted == Matching(table, Used(asking.filter))
Place(row) == RankIn(Wanted, row)

Reached ==
  asking.offset + IF phase = "next" THEN EffectiveLimit(asking.limit) ELSE 0

\* The links keep what decides which rows a page has.
LinksKept ==
  /\ EffectiveLimit(asking.limit) = EffectiveLimit(asked.limit)
  /\ asked.hasOffset => asking.hasOffset
  /\ LinksCoverAll => asking.filter = asked.filter
  /\ phase = "next" => EffectiveLimit(asking.limit) # 0

Receiving == phase \in {"handling", "500", "next"}

\* A row that the client has is not in the pages to come.  Before a link has dropped values
\* of the filter, it matches the filter.
ReceivedOnce ==
  ~inserted /\ at.order = "key" =>
    \A row \in Rows : /\ got[row] <= 1
                      /\ Receiving /\ got[row] > 0 /\ row \in Wanted => Place(row) <= Reached
                      /\ Receiving /\ got[row] > 0 /\ Len(asking.filter) > 1 =>
                           row \in Matching(Rows, Used(asking.filter))

\* The rows that the client will not get any more.
Missed ==
  {row \in Matching(stayed, Used(asked.filter)) :
     got[row] = 0 /\ (Receiving => Place(row) <= Reached)}

ReceivedAll ==
  LinksCoverAll /\ (Receiving \/ phase = "end") => Cardinality(Missed) <= removals

PagesInv == PagesTypeOK /\ LinksKept /\ ReceivedOnce /\ ReceivedAll

----------------------------------------------------------------------------
(* Pages of rows.                                                          *)

\* The image of a finite set is no larger, and as large if nothing is mapped to the same.
LEMMA ImageOfInterval ==
  ASSUME NEW K, IsFiniteSet(K), NEW f
  PROVE  LET image == {f[k] : k \in K}
         IN /\ IsFiniteSet(image) /\ Cardinality(image) <= Cardinality(K)
            /\ (\A i, k \in K : f[i] = f[k] => i = k) => Cardinality(image) = Cardinality(K)
<1> DEFINE image == {f[k] : k \in K}
           g == [k \in K |-> f[k]]
<1>1. g \in Surjection(K, image)
  BY DEF Surjection
<1>2. (\A i, k \in K : f[i] = f[k] => i = k) => g \in Injection(K, image)
  BY DEF Injection, IsInjective
<1> HIDE DEF g, image
<1>3. /\ IsFiniteSet(image) /\ Cardinality(image) <= Cardinality(K)
      /\ Cardinality(image) = Cardinality(K) <=> g \in Injection(K, image)
  BY <1>1, FS_Surjection
<1> QED
  BY <1>2, <1>3 DEF image

\* No page has more rows than its limit, in whichever order they come.
LEMMA PageBounded ==
  ASSUME NEW n \in Nat, NEW M, NEW s \in [1..n -> M], NEW offset \in Nat,
         NEW limit \in Nat \ {0}
  PROVE  /\ IsFiniteSet(PageOf(s, offset, limit))
         /\ Cardinality(PageOf(s, offset, limit)) <= limit
<1> DEFINE K == {k \in 1..n : k > offset /\ (limit = 0 \/ k <= offset + limit)}
           all == (offset + 1)..(offset + limit)
<1>1. s \in Seq(M) /\ Len(s) = n
  OBVIOUS
<1>2. PageOf(s, offset, limit) = {s[k] : k \in K}
  BY <1>1 DEF PageOf
<1>3. IsFiniteSet(all) /\ Cardinality(all) = limit
  <2>1. offset + 1 \in Int /\ offset + limit \in Int /\ ~(offset + 1 > offset + limit)
    OBVIOUS
  <2> HIDE DEF all
  <2>2. IsFiniteSet(all) /\ Cardinality(all) = (offset + limit) - (offset + 1) + 1
    BY <2>1, FS_Interval DEF all
  <2> QED
    BY <2>2
<1>4. K \subseteq all
  OBVIOUS
<1> HIDE DEF K, all
<1>5. IsFiniteSet(K) /\ Cardinality(K) <= limit /\ Cardinality(K) \in Nat
  BY <1>3, <1>4, FS_Subset, FS_CardinalityType
<1>6. /\ IsFiniteSet({s[k] : k \in K}) /\ Cardinality({s[k] : k \in K}) <= Cardinality(K)
  BY <1>5, ImageOfInterval
<1>7. Cardinality({s[k] : k \in K}) \in Nat
  BY <1>6, FS_CardinalityType
<1> QED
  BY <1>2, <1>5, <1>6, <1>7

\* In the order of a key a row's position is its rank among the rows that match.
ByRank(M, s, n) ==
  /\ s \in [1..n -> M]
  /\ \A i \in 1..n : RankIn(M, s[i]) = i
  /\ \A v \in M : \E i \in 1..n : v = s[i]

\* In a list ordered by key, a row stands at its rank among the rows.
LEMMA PositionIsRank ==
  ASSUME NEW M, M \subseteq Nat, IsFiniteSet(M), NEW s, s \in Orders(M, "key")
  PROVE  \E n \in Nat : ByRank(M, s, n)
<1> DEFINE n == Cardinality(M)
<1>1. n \in Nat
  BY FS_CardinalityType
<1>2. s \in [1..n -> M] /\ Sorted(s, "key")
  BY DEF Orders
<1> HIDE DEF n
<1>3. s \in Seq(M) /\ Len(s) = n
  BY <1>1, <1>2
<1>4. \A i, k \in 1..n : i < k => s[i] < s[k]
  BY <1>2, <1>3 DEF Sorted
<1>5. \A i \in 1..n : s[i] \in M /\ s[i] \in Nat /\ i \in Nat
  <2>1. \A i \in 1..n : s[i] \in M
    BY <1>2
  <2>2. \A i \in 1..n : s[i] \in Nat
    BY <2>1
  <2> QED
    BY <1>1, <2>1, <2>2
<1>6. ASSUME NEW i \in 1..n, NEW k \in 1..n
      PROVE  /\ s[i] = s[k] => i = k
             /\ s[k] <= s[i] <=> k <= i
  <2>1. /\ s[i] \in Nat /\ s[k] \in Nat /\ i \in Nat /\ k \in Nat
        /\ i < k => s[i] < s[k]
        /\ k < i => s[k] < s[i]
    BY <1>4, <1>5
  <2> QED
    BY <2>1
<1>7. ASSUME NEW m \in 0..n
      PROVE  IsFiniteSet({s[k] : k \in 1..m}) /\ Cardinality({s[k] : k \in 1..m}) = m
  <2>1. IsFiniteSet(1..m) /\ Cardinality(1..m) = m
    <3>1. m \in Nat /\ m \in Int /\ 1 \in Int
      BY <1>1
    <3>2. IsFiniteSet(1..m) /\ Cardinality(1..m) = IF 1 > m THEN 0 ELSE m - 1 + 1
      BY <3>1, FS_Interval
    <3> QED
      BY <3>1, <3>2
  <2>2. \A i, k \in 1..m : i \in 1..n /\ k \in 1..n
    BY <1>1
  <2>3. \A i, k \in 1..m : s[i] = s[k] => i = k
    BY <1>6, <2>2
  <2> DEFINE K == 1..m
  <2>4. IsFiniteSet(K) /\ Cardinality(K) = m /\ \A i, k \in K : s[i] = s[k] => i = k
    BY <2>1, <2>3
  <2> HIDE DEF K
  <2>5. IsFiniteSet({s[k] : k \in K}) /\ Cardinality({s[k] : k \in K}) = Cardinality(K)
    BY <2>4, ImageOfInterval
  <2> QED
    BY <2>4, <2>5 DEF K
<1>8. {s[k] : k \in 1..n} = M
  <2>1. n \in 0..n
    BY <1>1
  <2>2. IsFiniteSet({s[k] : k \in 1..n}) /\ Cardinality({s[k] : k \in 1..n}) = Cardinality(M)
    BY <1>7, <2>1 DEF n
  <2>3. {s[k] : k \in 1..n} \in SUBSET M
    BY <1>5
  <2> QED
    BY <2>2, <2>3, FS_Subset
<1>9. ASSUME NEW i \in 1..n
      PROVE  RankIn(M, s[i]) = i
  <2>1. {v \in M : v <= s[i]} = {s[k] : k \in 1..i}
    <3>1. \A k \in 1..i : k \in 1..n /\ k <= i
      BY <1>1
    <3>2. \A k \in 1..n : k <= i => k \in 1..i
      BY <1>1
    <3>3. \A v \in M : \E k \in 1..n : v = s[k]
      BY <1>8
    <3>4. \A k \in 1..n : s[k] \in M /\ (s[k] <= s[i] <=> k <= i)
      BY <1>5, <1>6
    <3> QED
      BY <3>1, <3>2, <3>3, <3>4
  <2>2. i \in 0..n
    BY <1>1
  <2> QED
    BY <1>7, <2>1, <2>2 DEF RankIn
<1>10. \A v \in M : \E i \in 1..n : v = s[i]
  BY <1>8
<1> QED
  BY <1>1, <1>2, <1>9, <1>10 DEF ByRank

\* So a page has the rows whose ranks are within it.
RanksWithin(M, offset, limit) ==
  {v \in M : RankIn(M, v) > offset /\ (limit = 0 \/ RankIn(M, v) <= offset + limit)}

\* So a page of such a list is the rows of certain ranks, whatever the query returned.
LEMMA PageByRank ==
  ASSUME NEW M, M \subseteq Nat, IsFiniteSet(M), NEW s, s \in Orders(M, "key"),
         NEW offset \in Nat, NEW limit \in Nat
  PROVE  PageOf(s, offset, limit) = RanksWithin(M, offset, limit)
<1>0. PICK n \in Nat : ByRank(M, s, n)
  BY PositionIsRank
<1>1. /\ s \in [1..n -> M]
      /\ \A i \in 1..n : RankIn(M, s[i]) = i
      /\ \A v \in M : \E i \in 1..n : v = s[i]
  BY <1>0 DEF ByRank
<1> DEFINE K == {k \in 1..n : k > offset /\ (limit = 0 \/ k <= offset + limit)}
<1>2. s \in Seq(M) /\ Len(s) = n
  BY <1>1
<1>3. PageOf(s, offset, limit) = {s[k] : k \in K}
  BY <1>2 DEF PageOf
<1>4. \A k \in 1..n : s[k] \in M
  BY <1>1
<1> DEFINE within(r) == r > offset /\ (limit = 0 \/ r <= offset + limit)
<1>5. K = {k \in 1..n : within(k)}
  OBVIOUS
<1> HIDE DEF K, within
<1>6. {s[k] : k \in K} = {v \in M : within(RankIn(M, v))}
  <2>1. \A k \in K : k \in 1..n /\ within(k) /\ s[k] \in M /\ RankIn(M, s[k]) = k
    BY <1>1, <1>4, <1>5
  <2>2. \A v \in M : within(RankIn(M, v)) => \E k \in K : v = s[k]
    BY <1>1, <1>5
  <2> QED
    BY <2>1, <2>2
<1> QED
  BY <1>3, <1>6 DEF within, RanksWithin

\* apply_role_record_limit
LEMMA LimitOfRole ==
  ASSUME NEW limit \in Nat, cap \in Nat
  PROVE  /\ EffectiveLimit(limit) \in Nat
         /\ cap # 0 => EffectiveLimit(limit) # 0 /\ EffectiveLimit(limit) <= cap
         /\ EffectiveLimit(EffectiveLimit(limit)) = EffectiveLimit(limit)
BY DEF EffectiveLimit

----------------------------------------------------------------------------
(* Steps of the client and of the handlers.                                *)

\* The rows that match a filter are finitely many rows of the table.
LEMMA MatchingRows ==
  ASSUME NEW rows, rows \subseteq Rows, NEW filter
  PROVE  /\ Matching(rows, filter) \subseteq rows
         /\ Matching(rows, filter) \subseteq Nat
         /\ IsFiniteSet(Matching(rows, filter))
<1>1. Rows \subseteq Nat /\ IsFiniteSet(Rows)
  BY PagesAssumption
<1>2. Matching(rows, filter) \subseteq rows
  BY DEF Matching
<1> QED
  BY <1>1, <1>2, FS_Subset

\* Limits, offsets, counts and places are natural numbers, and the rows finitely many.
LEMMA PageTypes ==
  ASSUME PagesTypeOK
  PROVE  /\ cap \in Nat /\ asked.limit \in Nat /\ asking.limit \in Nat /\ asking.offset \in Nat
         /\ EffectiveLimit(asked.limit) \in Nat
         /\ EffectiveLimit(asking.limit) \in Nat
         /\ Reached \in Nat /\ removals \in Nat
         /\ \A row \in Rows : got[row] \in Nat
         /\ Wanted \subseteq table /\ Wanted \subseteq Rows /\ Wanted \subseteq Nat /\ IsFiniteSet(Wanted)
         /\ \A row : Place(row) \in Nat
         /\ IsFiniteSet(Missed) /\ Missed \subseteq Rows /\ Cardinality(Missed) \in Nat
<1>1. /\ cap \in Nat /\ asked.limit \in Nat /\ asking.limit \in Nat /\ asking.offset \in Nat
      /\ table \subseteq Rows /\ stayed \subseteq Rows
  BY PagesAssumption DEF PagesTypeOK, PageRequest
<1>2. /\ EffectiveLimit(asked.limit) \in Nat
      /\ EffectiveLimit(asking.limit) \in Nat
  BY <1>1, LimitOfRole
<1>3. Reached \in Nat /\ removals \in Nat
  BY <1>1, <1>2 DEF Reached, PagesTypeOK
<1>4. \A row \in Rows : got[row] \in Nat
  BY DEF PagesTypeOK
<1>5. Wanted \subseteq table /\ Wanted \subseteq Nat /\ IsFiniteSet(Wanted)
  BY <1>1, MatchingRows DEF Wanted
<1>6. ASSUME NEW row
      PROVE  Place(row) \in Nat
  BY <1>5, RankTypes DEF Place
<1>7. IsFiniteSet(Missed) /\ Missed \subseteq Rows /\ Cardinality(Missed) \in Nat
  <2>1. Missed \subseteq Rows
    BY <1>1 DEF Missed, Matching
  <2>2. IsFiniteSet(Missed)
    BY <2>1, FS_Subset, PagesAssumption
  <2> QED
    BY <2>1, <2>2, FS_CardinalityType
<1> QED
  BY <1>1, <1>2, <1>3, <1>4, <1>5, <1>6, <1>7

\* The rows that a step brings to the client, see RoleLimitHolds.
WithinRole ==
  cap # 0 => Cardinality({row \in Rows : got'[row] # got[row]}) <= cap

\* A step that gives the client no row is within the limit of the role.
LEMMA NothingReceived ==
  ASSUME PagesTypeOK, got' = got
  PROVE  WithinRole
<1>1. cap \in Nat
  BY PageTypes
<1> DEFINE new == {row \in Rows : got'[row] # got[row]}
<1>2. new = {}
  OBVIOUS
<1> HIDE DEF new
<1>3. Cardinality(new) <= cap
  BY <1>1, <1>2, FS_EmptySet
<1> QED
  BY <1>3 DEF WithinRole, new

\* No more rows are missed than before: the way a step keeps ReceivedAll that removes none.
LEMMA NoneMissed ==
  ASSUME PagesTypeOK, PagesTypeOK', ReceivedAll, removals' = removals,
         LinksCoverAll' => LinksCoverAll,
         LinksCoverAll /\ (Receiving' \/ phase' = "end") => (Receiving \/ phase = "end") /\ Missed' \subseteq Missed
  PROVE  ReceivedAll'
<1> SUFFICES ASSUME LinksCoverAll, Receiving' \/ phase' = "end"
             PROVE  Cardinality(Missed') <= removals
  BY DEF ReceivedAll
<1>1. Missed' \subseteq Missed /\ Cardinality(Missed) <= removals
  BY DEF ReceivedAll
<1>2. IsFiniteSet(Missed) /\ Cardinality(Missed) \in Nat /\ removals \in Nat
  BY PageTypes
<1>3. \A some : some \subseteq Missed => Cardinality(some) <= Cardinality(Missed) /\ Cardinality(some) \in Nat
  BY <1>2, FS_Subset, FS_CardinalityType
<1>4. Cardinality(Missed') <= Cardinality(Missed) /\ Cardinality(Missed') \in Nat
  BY <1>1, <1>3
<1> QED
  BY <1>1, <1>2, <1>4

\* A request fails, is turned down or is made again.
LEMMA QuietStep ==
  ASSUME PagesInv, PagesTypeOK',
         UNCHANGED <<at, cap, asked, table, stayed, inserted, removals, asking, got>>,
         \/ phase' = phase
         \/ phase \in {"handling", "500"} /\ phase' \in {"handling", "400", "500"}
  PROVE  PagesInv'
<1>1. /\ EffectiveLimit(asking.limit)' = EffectiveLimit(asking.limit)
      /\ EffectiveLimit(asked.limit)' = EffectiveLimit(asked.limit)
      /\ LinksCoverAll' <=> LinksCoverAll
  BY DEF EffectiveLimit, LinksCoverAll
<1>2. /\ Wanted' = Wanted /\ \A row : Place(row)' = Place(row)
      /\ Used(asking.filter)' = Used(asking.filter) /\ Used(asked.filter)' = Used(asked.filter)
  BY DEF Place, Wanted, Used
<1>3. Reached' = Reached
  BY <1>1 DEF Reached
<1>4. (Receiving' => Receiving) /\ (phase' = "end" => phase = "end" /\ ~Receiving /\ ~Receiving')
  BY DEF Receiving
<1>5. LinksKept'
  BY <1>1 DEF PagesInv, LinksKept
<1>6. ReceivedOnce'
  BY <1>2, <1>3, <1>4 DEF PagesInv, ReceivedOnce
<1>7. ReceivedAll'
  <2>1. Receiving' \/ phase' = "end" => (Receiving \/ phase = "end") /\ Missed' \subseteq Missed
    BY <1>2, <1>3, <1>4 DEF Missed
  <2> QED
    BY <1>1, <2>1, NoneMissed DEF PagesInv
<1> QED
  BY <1>5, <1>6, <1>7 DEF PagesInv

\* A row that is inserted moves others to later places, never to earlier ones.
LEMMA InsertStep ==
  ASSUME PagesInv, NEW new \in Rows, Insert(new)
  PROVE  PagesInv' /\ got' = got
<1>1. /\ PagesTypeOK /\ LinksKept /\ ReceivedOnce /\ ReceivedAll
      /\ table' = table \cup {new} /\ inserted' = (inserted \/ new \notin table)
      /\ UNCHANGED <<at, cap, asked, stayed, removals, asking, phase, attempts, got>>
  BY DEF PagesInv, Insert, client
<1>2. PagesTypeOK'
  BY <1>1 DEF PagesTypeOK
<1>3. /\ EffectiveLimit(asking.limit)' = EffectiveLimit(asking.limit)
      /\ EffectiveLimit(asked.limit)' = EffectiveLimit(asked.limit)
      /\ LinksCoverAll' <=> LinksCoverAll
      /\ Used(asking.filter)' = Used(asking.filter) /\ Used(asked.filter)' = Used(asked.filter)
  BY <1>1 DEF EffectiveLimit, LinksCoverAll, Used
<1>4. Reached' = Reached /\ (Receiving' <=> Receiving) /\ Reached \in Nat
  BY <1>1, <1>3, PageTypes DEF Reached, Receiving
<1>5. LinksKept'
  BY <1>1, <1>3 DEF LinksKept
<1>6. ReceivedOnce'
  <2> SUFFICES ASSUME ~inserted'
               PROVE  ReceivedOnce'
    BY DEF ReceivedOnce
  <2>1. table' = table /\ ~inserted
    BY <1>1
  <2>2. Wanted' = Wanted /\ \A row : Place(row)' = Place(row)
    BY <1>3, <2>1 DEF Place, Wanted
  <2> QED
    BY <1>1, <1>3, <1>4, <2>1, <2>2 DEF ReceivedOnce
<1>7. ASSUME NEW row
      PROVE  Place(row) <= Place(row)' /\ Place(row) \in Nat /\ Place(row)' \in Nat
  <2> DEFINE filter == Used(asking.filter)
             M == Matching(table, filter)
             N == Matching(table', filter)
  <2>1. table \subseteq Rows /\ table' \subseteq Rows
    BY <1>1, <1>2 DEF PagesTypeOK
  <2>2. M \subseteq N
    BY <1>1 DEF Matching
  <2>3. N \subseteq Nat /\ IsFiniteSet(N) /\ M \subseteq Nat /\ IsFiniteSet(M)
    BY <2>1, MatchingRows
  <2>4. Wanted = M /\ Wanted' = N
    BY <1>3 DEF Wanted
  <2> HIDE DEF M, N
  <2>5. RankIn(M, row) <= RankIn(N, row) /\ RankIn(M, row) \in Nat /\ RankIn(N, row) \in Nat
    BY <2>2, <2>3, RankGrows, RankTypes
  <2>6. Place(row) = RankIn(M, row) /\ Place(row)' = RankIn(N, row)
    BY <2>4 DEF Place
  <2> QED
    BY <2>5, <2>6
<1>8. ReceivedAll'
  <2>1. \A row : Place(row)' <= Reached => Place(row) <= Reached
    BY <1>4, <1>7
  <2>2. Missed' \subseteq Missed
    BY <1>1, <1>3, <1>4, <2>1 DEF Missed
  <2> QED
    BY <1>1, <1>2, <1>3, <1>4, <2>2, NoneMissed
<1> QED
  BY <1>1, <1>2, <1>5, <1>6, <1>8 DEF PagesInv

\* Without one element, every rank is as it was or one less.
LEMMA RankWithout ==
  ASSUME NEW E, E \subseteq Nat, IsFiniteSet(E), NEW x, NEW u
  PROVE  /\ RankIn(E \ {x}, u) \in Nat /\ RankIn(E, u) \in Nat
         /\ RankIn(E \ {x}, u) <= RankIn(E, u) /\ RankIn(E, u) <= RankIn(E \ {x}, u) + 1
<1> DEFINE low == {v \in E : v <= u}
           less == {v \in E \ {x} : v <= u}
<1>1. IsFiniteSet(low) /\ RankIn(E, u) \in Nat
  BY RankTypes
<1>2. IsFiniteSet(E \ {x}) /\ E \ {x} \subseteq Nat /\ E \ {x} \subseteq E
  BY FS_Subset
<1>3. IsFiniteSet(less) /\ RankIn(E \ {x}, u) \in Nat /\ RankIn(E \ {x}, u) <= RankIn(E, u)
  BY <1>2, RankTypes, RankGrows
<1>4. low = less \/ low = less \cup {x}
  OBVIOUS
<1>5. Cardinality(less \cup {x}) = Cardinality(less) \/ Cardinality(less \cup {x}) = Cardinality(less) + 1
  <2> HIDE DEF less
  <2> QED
    BY <1>3, FS_AddElement
<1>6. RankIn(E, u) = Cardinality(low) /\ RankIn(E \ {x}, u) = Cardinality(less)
  BY DEF RankIn
<1> HIDE DEF low, less
<1> QED
  BY <1>1, <1>3, <1>4, <1>5, <1>6

\* A row that is removed moves others one place forward: the pages to come miss at most the
\* one that was the first of them.
LEMMA RemoveStep ==
  ASSUME PagesInv, NEW old \in Rows, Remove(old)
  PROVE  PagesInv' /\ got' = got
<1>1. /\ PagesTypeOK /\ LinksKept /\ ReceivedOnce /\ ReceivedAll
      /\ table' = table \ {old} /\ stayed' = stayed \ {old}
      /\ removals < MaxRemovals /\ removals' = removals + 1
      /\ UNCHANGED <<at, cap, asked, inserted, asking, phase, attempts, got>>
  BY DEF PagesInv, Remove, client
<1>2. PagesTypeOK'
  BY <1>1, PagesAssumption DEF PagesTypeOK
<1>3. /\ EffectiveLimit(asking.limit)' = EffectiveLimit(asking.limit)
      /\ EffectiveLimit(asked.limit)' = EffectiveLimit(asked.limit)
      /\ LinksCoverAll' <=> LinksCoverAll
      /\ Used(asking.filter)' = Used(asking.filter) /\ Used(asked.filter)' = Used(asked.filter)
  BY <1>1 DEF EffectiveLimit, LinksCoverAll, Used
<1>4. Reached' = Reached /\ (Receiving' <=> Receiving) /\ Reached \in Nat
  BY <1>1, <1>3, PageTypes DEF Reached, Receiving
<1>5. LinksKept'
  BY <1>1, <1>3 DEF LinksKept
<1>6. Wanted' = Wanted \ {old}
  BY <1>1, <1>3 DEF Wanted, Matching
<1>7. ASSUME NEW row
      PROVE  /\ Place(row)' \in Nat /\ Place(row) \in Nat
             /\ Place(row)' <= Place(row) /\ Place(row) <= Place(row)' + 1
  <2>1. Wanted \subseteq Nat /\ IsFiniteSet(Wanted)
    BY <1>1, PageTypes
  <2>2. Place(row)' = RankIn(Wanted \ {old}, row) /\ Place(row) = RankIn(Wanted, row)
    BY <1>6 DEF Place
  <2> QED
    BY <2>1, <2>2, RankWithout
<1>8. ReceivedOnce'
  <2>1. \A row : Place(row) <= Reached => Place(row)' <= Reached
    BY <1>4, <1>7
  <2> QED
    BY <1>1, <1>3, <1>4, <1>6, <2>1 DEF ReceivedOnce
<1>9. ReceivedAll'
  <2> SUFFICES ASSUME LinksCoverAll, Receiving \/ phase = "end"
               PROVE  Cardinality(Missed') <= removals + 1
    BY <1>1, <1>3, <1>4 DEF ReceivedAll
  <2>1. Cardinality(Missed) <= removals
    BY <1>1 DEF ReceivedAll
  <2>2. IsFiniteSet(Missed) /\ Cardinality(Missed) \in Nat /\ removals \in Nat /\ IsFiniteSet(Wanted) /\ Wanted \subseteq Nat
    BY <1>1, PageTypes
  <2>3. PICK next : Missed' \subseteq Missed \cup {next}
    <3> DEFINE first == {row \in Wanted : Place(row) = Reached + 1}
    <3>1. ASSUME NEW row \in Missed', row \notin Missed
          PROVE  row \in first
      <4>1. /\ row \in Matching(stayed, Used(asked.filter)) /\ got[row] = 0
            /\ Receiving /\ Place(row)' <= Reached /\ ~(Place(row) <= Reached)
        BY <1>1, <1>3, <1>4, <3>1 DEF Missed, Matching
      <4>2. row \in Wanted
        BY <1>1, <4>1 DEF Wanted, Matching, LinksKept, PagesTypeOK
      <4> QED
        BY <1>4, <1>7, <4>1, <4>2
    <3>2. \A v, w \in first : v = w
      <4> SUFFICES ASSUME NEW v \in first, NEW w \in first
                   PROVE  v = w
        OBVIOUS
      <4>1. /\ v \in Wanted /\ w \in Wanted
            /\ RankIn(Wanted, v) = Reached + 1 /\ RankIn(Wanted, w) = Reached + 1
        BY DEF Place
      <4>2. RankIn(Wanted, v) <= RankIn(Wanted, w) /\ RankIn(Wanted, w) <= RankIn(Wanted, v)
        BY <1>4, <4>1
      <4>3. v <= w /\ w <= v
        BY <2>2, <4>1, <4>2, RankFollows
      <4> QED
        BY <2>2, <4>1, <4>3
    <3> HIDE DEF first
    <3> QED
      BY <3>1, <3>2
  <2>4. /\ IsFiniteSet(Missed \cup {next}) /\ Cardinality(Missed \cup {next}) \in Nat
        /\ Cardinality(Missed \cup {next}) <= Cardinality(Missed) + 1
    <3>1. /\ IsFiniteSet(Missed \cup {next})
          /\ \/ Cardinality(Missed \cup {next}) = Cardinality(Missed)
             \/ Cardinality(Missed \cup {next}) = Cardinality(Missed) + 1
      BY <2>2, FS_AddElement
    <3> QED
      BY <2>2, <3>1
  <2>5. \A some : some \subseteq Missed \cup {next} =>
          Cardinality(some) <= Cardinality(Missed \cup {next}) /\ Cardinality(some) \in Nat
    BY <2>4, FS_Subset, FS_CardinalityType
  <2>6. Cardinality(Missed') <= Cardinality(Missed \cup {next}) /\ Cardinality(Missed') \in Nat
    BY <2>3, <2>5
  <2> QED
    BY <2>1, <2>2, <2>4, <2>6
<1> QED
  BY <1>1, <1>2, <1>5, <1>8, <1>9 DEF PagesInv

\* A page arrives.
LEMMA PageArrives ==
  ASSUME PagesInv, ExecuteQuery
  PROVE  PagesInv' /\ WithinRole
<1> DEFINE M == Matching(table, Used(asking.filter))
           limit == EffectiveLimit(asking.limit)
           offset == asking.offset
           rows(s) == PageOf(s, offset, limit)
<1>1. /\ PagesTypeOK /\ LinksKept /\ ReceivedOnce /\ ReceivedAll
      /\ phase = "handling" /\ attempts' = 0
      /\ UNCHANGED <<at, cap, asked, table, stayed, inserted, removals, asking>>
  BY DEF PagesInv, ExecuteQuery, client, content
<1>2. PICK s : /\ s \in Orders(M, at.order)
               /\ got' = [row \in Rows |-> got[row] + IF row \in rows(s) THEN 1 ELSE 0]
               /\ phase' = IF HasNext(rows(s), limit) THEN "next" ELSE "end"
  BY DEF ExecuteQuery
<1>3. /\ M \subseteq table /\ table \subseteq Rows /\ M \subseteq Nat /\ IsFiniteSet(M)
  BY <1>1, MatchingRows DEF PagesTypeOK
<1>4. /\ cap \in Nat /\ limit \in Nat /\ offset \in Nat /\ Reached = offset /\ Reached \in Nat
      /\ asking.limit \in Nat
      /\ \A row \in Rows : got[row] \in Nat
      /\ \A row : Place(row) \in Nat
  <2>1. Reached = offset
    BY <1>1, PageTypes DEF Reached
  <2> QED
    BY <1>1, <2>1, PageTypes
<1>5. /\ limit' = limit
      /\ EffectiveLimit(asked.limit)' = EffectiveLimit(asked.limit)
      /\ LinksCoverAll' <=> LinksCoverAll
      /\ Used(asking.filter)' = Used(asking.filter) /\ Used(asked.filter)' = Used(asked.filter)
  BY <1>1 DEF EffectiveLimit, LinksCoverAll, Used
<1>6. /\ Wanted = M /\ Wanted' = M
      /\ \A row : Place(row)' = Place(row) /\ Place(row) = RankIn(M, row)
  BY <1>1, <1>5 DEF Place, Wanted
<1> DEFINE page == rows(s)
           full == HasNext(page, limit)
<1>7. /\ phase' = "next" => full
      /\ phase' \in {"next", "end"} /\ (~full => phase' = "end") /\ (full => phase' = "next")
      /\ full => limit # 0
  BY <1>2 DEF HasNext
<1>8. phase' = "next" => Reached' = offset + limit
  BY <1>1, <1>5 DEF Reached
<1>9. PagesTypeOK'
  <2>1. got' \in [Rows -> Nat]
    <3>1. \A row \in Rows : got[row] + (IF row \in page THEN 1 ELSE 0) \in Nat
      BY <1>4
    <3> HIDE DEF page
    <3> QED
      BY <1>2, <3>1 DEF page
  <2>2. attempts' \in 0..MaxRetries
    BY <1>1, PagesAssumption
  <2> QED
    BY <1>1, <1>7, <2>1, <2>2 DEF PagesTypeOK
<1>10. LinksKept'
  BY <1>1, <1>5, <1>7 DEF LinksKept
<1> HIDE DEF M, limit, offset
<1>11. WithinRole
  <2> SUFFICES ASSUME cap # 0
               PROVE  Cardinality({row \in Rows : got'[row] # got[row]}) <= cap
    BY DEF WithinRole
  <2>1. limit # 0 /\ limit <= cap
    BY <1>4, LimitOfRole DEF limit
  <2>2. PICK n \in Nat : s \in [1..n -> M]
    <3>1. Cardinality(M) \in Nat
      BY <1>3, FS_CardinalityType
    <3> QED
      BY <1>2, <3>1 DEF Orders
  <2>3. IsFiniteSet(page) /\ Cardinality(page) <= limit
    BY <1>4, <2>1, <2>2, PageBounded
  <2> DEFINE new == {row \in Rows : got'[row] # got[row]}
  <2>4. new \subseteq page
    <3>1. \A row \in Rows : row \notin page => got'[row] = got[row] + 0
      BY <1>2
    <3>2. \A row \in Rows : got[row] + 0 = got[row]
      BY <1>4
    <3> QED
      BY <3>1, <3>2
  <2> HIDE DEF page, new
  <2>5. Cardinality(new) <= Cardinality(page) /\ Cardinality(new) \in Nat /\ Cardinality(page) \in Nat
    BY <2>3, <2>4, FS_Subset, FS_CardinalityType
  <2>6. Cardinality(new) <= cap
    BY <1>4, <2>1, <2>3, <2>5
  <2> QED
    BY <2>6 DEF new
<1>12. ASSUME at.order = "key"
       PROVE  page = {v \in M : /\ RankIn(M, v) > offset
                                /\ limit = 0 \/ RankIn(M, v) <= offset + limit}
  <2>1. s \in Orders(M, "key")
    BY <1>2, <1>12
  <2>2. page = RanksWithin(M, offset, limit)
    BY <1>3, <1>4, <2>1, PageByRank
  <2> QED
    BY <2>2 DEF RanksWithin
<1> HIDE DEF page, full
<1>13. \A row \in Rows : got'[row] = got[row] + IF row \in page THEN 1 ELSE 0
  BY <1>2 DEF page
<1>14. ReceivedOnce'
  <2> SUFFICES ASSUME ~inserted, at.order = "key", NEW row \in Rows
               PROVE  /\ got'[row] <= 1
                      /\ Receiving' /\ got'[row] > 0 /\ row \in Wanted' => Place(row)' <= Reached'
                      /\ Receiving' /\ got'[row] > 0 /\ Len(asking.filter) > 1 =>
                           row \in Matching(Rows, Used(asking.filter))
    BY <1>1, <1>5 DEF ReceivedOnce
  <2>1. /\ got[row] <= 1 /\ (got[row] > 0 /\ row \in M => Place(row) <= offset) /\ got[row] \in Nat
        /\ got[row] > 0 /\ Len(asking.filter) > 1 => row \in Matching(Rows, Used(asking.filter))
    BY <1>1, <1>4, <1>6 DEF ReceivedOnce, Receiving
  <2>2. row \in page => row \in M /\ Place(row) > offset /\ (limit = 0 \/ Place(row) <= offset + limit)
    BY <1>6, <1>12
  <2>3. got'[row] <= 1
    BY <1>4, <1>13, <2>1, <2>2
  <2>4. got'[row] > 0 => got[row] > 0 \/ row \in page
    BY <1>4, <1>13, <2>1
  <2>5. ASSUME Receiving', got'[row] > 0, row \in Wanted'
        PROVE  Place(row)' <= Reached'
    <3>1. phase' = "next" /\ limit # 0 /\ Reached' = offset + limit
      BY <1>7, <1>8, <2>5 DEF Receiving
    <3>2. Place(row) \in Nat /\ Place(row)' = Place(row) /\ row \in M
      BY <1>4, <1>6, <2>5
    <3>3. Place(row) <= offset + limit
      BY <1>4, <2>1, <2>2, <2>4, <2>5, <3>1, <3>2
    <3> QED
      BY <3>1, <3>2, <3>3
  <2>6. row \in M => row \in Matching(Rows, Used(asking.filter))
    BY DEF M, Matching
  <2> QED
    BY <2>1, <2>2, <2>3, <2>4, <2>5, <2>6
<1>15. ReceivedAll'
  <2> SUFFICES ASSUME LinksCoverAll, NEW row \in Missed'
               PROVE  row \in Missed
    BY <1>1, <1>5, <1>9, NoneMissed DEF Receiving
  <2>1. /\ at.order = "key" /\ asking.filter = asked.filter
        /\ limit # 0 => \/ at.next = "full page"
                        \/ at.next = "full page with offset" /\ asking.hasOffset
    BY <1>1 DEF LinksKept, LinksCoverAll, limit
  <2>2. /\ row \in Matching(stayed, Used(asked.filter)) /\ got'[row] = 0
        /\ phase' = "next" => Place(row) <= offset + limit
    BY <1>1, <1>5, <1>6, <1>8 DEF Missed, Receiving
  <2>3. row \in M /\ row \in Rows
    <3>1. row \in M
      BY <1>1, <2>1, <2>2 DEF Matching, M, PagesTypeOK
    <3> QED
      BY <1>3, <3>1
  <2>4. /\ Place(row) = RankIn(M, row) /\ Place(row) \in Nat /\ got[row] \in Nat
        /\ row \notin page /\ got[row] = 0
    BY <1>4, <1>6, <1>13, <2>2, <2>3
  <2>5. row \in page <=> Place(row) > offset /\ (limit = 0 \/ Place(row) <= offset + limit)
    BY <1>12, <2>1, <2>3, <2>4
  <2>6. limit = 0 \/ Place(row) <= offset + limit
    <3>1. CASE full
      BY <1>7, <2>2, <3>1
    <3>2. CASE ~full
      <4> SUFFICES ASSUME limit # 0, ~(Place(row) <= offset + limit)
                   PROVE  full
        BY <3>2
      <4>1. page = {v \in M : RankIn(M, v) \in (offset + 1)..(offset + limit)}
        <5>1. \A v \in M : RankIn(M, v) \in Nat
          BY <1>3, RankTypes
        <5>2. ASSUME NEW v \in M
              PROVE  RankIn(M, v) \in (offset + 1)..(offset + limit)
                       <=> RankIn(M, v) > offset /\ (limit = 0 \/ RankIn(M, v) <= offset + limit)
          BY <1>4, <5>1
        <5> QED
          BY <1>12, <2>1, <5>2
      <4>2. RankIn(M, row) > offset + limit
        BY <1>4, <2>4
      <4>3. Cardinality(page) = limit
        BY <1>3, <1>4, <2>3, <4>1, <4>2, FullPage
      <4> QED
        BY <2>1, <4>3 DEF full, HasNext
    <3> QED
      BY <3>1, <3>2
  <2>7. Place(row) <= Reached
    BY <1>4, <2>4, <2>5, <2>6
  <2> QED
    BY <2>2, <2>4, <2>7 DEF Missed
<1> QED
  BY <1>9, <1>10, <1>11, <1>14, <1>15 DEF PagesInv

\* A filter of one value is its first value alone: the link loses nothing of it.
LEMMA HeadAlone ==
  ASSUME NEW q \in Seq(Nat), q # <<>>, ~(Len(q) > 1)
  PROVE  <<Head(q)>> = q
<1>1. Len(q) \in Nat /\ Len(q) # 0 /\ q \in [1..Len(q) -> Nat]
  OBVIOUS
<1>2. Len(q) = 1 /\ Head(q) = q[1]
  BY <1>1
<1>3. q \in [1..1 -> Nat] /\ <<q[1]>> \in [1..1 -> Nat] /\ <<q[1]>>[1] = q[1]
  BY <1>1, <1>2
<1>4. \A i \in 1..1 : i = 1
  OBVIOUS
<1> QED
  BY <1>2, <1>3, <1>4

\* The client follows the next link.  Where the link drops values of the filter, fewer rows
\* match and no place moves back, or the handler had looked at another value and none of the
\* rows of the first page match any more.
LEMMA LinkStep ==
  ASSUME PagesInv, FollowNext
  PROVE  PagesInv' /\ got' = got
<1> DEFINE limit == EffectiveLimit(asking.limit)
           old == asking.filter
           new == IF at.repeated = "kept" \/ old = <<>> THEN old ELSE <<Head(old)>>
<1>1. /\ PagesTypeOK /\ LinksKept /\ ReceivedOnce /\ ReceivedAll
      /\ phase = "next" /\ phase' = "handling"
      /\ UNCHANGED <<at, cap, asked, table, stayed, inserted, removals, attempts, got>>
  BY DEF PagesInv, FollowNext, client, content
<1>2. /\ asking' = [limit |-> limit, hasOffset |-> TRUE, offset |-> asking.offset + limit,
                    filter |-> new, bad |-> FALSE]
  BY DEF FollowNext
<1>3. /\ limit \in Nat /\ asking.offset \in Nat /\ asking.limit \in Nat /\ cap \in Nat
      /\ \A row : Place(row) \in Nat
      /\ \A row \in Rows : got[row] \in Nat
      /\ Wanted \subseteq Nat /\ IsFiniteSet(Wanted)
  BY <1>1, PageTypes
<1>4. /\ old \in Filters /\ old \in Seq(Nat) /\ new \in Filters
      /\ new # old => old # <<>> /\ new = <<Head(old)>> /\ at.repeated # "kept"
  BY <1>1, PagesAssumption DEF PagesTypeOK, PageRequest
<1> HIDE DEF limit, old, new
<1>5. /\ asking'.limit = limit /\ asking'.hasOffset /\ asking'.offset = asking.offset + limit
      /\ asking'.filter = new
  BY <1>2
<1>6. PagesTypeOK'
  <2>1. asking' \in PageRequest
    BY <1>2, <1>3, <1>4 DEF PageRequest
  <2> QED
    BY <1>1, <2>1 DEF PagesTypeOK
<1>7. EffectiveLimit(limit) = limit
  BY <1>3, LimitOfRole DEF limit
<1>8. /\ EffectiveLimit(asking.limit)' = limit
      /\ EffectiveLimit(asked.limit)' = EffectiveLimit(asked.limit)
      /\ LinksCoverAll' <=> LinksCoverAll
  <2>1. EffectiveLimit(asking.limit)' = EffectiveLimit(limit)
    BY <1>1, <1>5 DEF EffectiveLimit
  <2>2. /\ EffectiveLimit(asked.limit)' = EffectiveLimit(asked.limit)
        /\ LinksCoverAll' <=> LinksCoverAll
    BY <1>1 DEF EffectiveLimit, LinksCoverAll
  <2> QED
    BY <1>7, <2>1, <2>2
<1>9. Reached = asking.offset + limit /\ Reached' = asking.offset + limit /\ Receiving
  BY <1>1, <1>3, <1>5 DEF Reached, Receiving, limit
<1>10. LinksCoverAll => new = old /\ old = asked.filter
  <2> SUFFICES ASSUME LinksCoverAll
               PROVE  new = old /\ old = asked.filter
    OBVIOUS
  <2>1. old = asked.filter /\ limit # 0 /\ limit = EffectiveLimit(asked.limit)
    BY <1>1 DEF LinksKept, old, limit
  <2>2. Len(asked.filter) > 1 => at.repeated = "kept"
    BY <2>1 DEF LinksCoverAll
  <2>3. old # <<>> /\ ~(Len(old) > 1) => <<Head(old)>> = old
    BY <1>4, HeadAlone
  <2> QED
    BY <1>4, <2>1, <2>2, <2>3
<1>11. LinksKept'
  <2>1. limit = EffectiveLimit(asked.limit)
    BY <1>1 DEF LinksKept, limit
  <2>2. LinksCoverAll' => asking'.filter = asked'.filter
    BY <1>1, <1>5, <1>8, <1>10
  <2> QED
    BY <1>1, <1>5, <1>8, <2>1, <2>2 DEF LinksKept
<1>12. new = old => Wanted' = Wanted /\ (\A row : Place(row)' = Place(row)) /\ Used(asking.filter)' = Used(asking.filter)
  BY <1>1, <1>5 DEF Wanted, Place, Used, old
<1>13. ReceivedOnce'
  <2> SUFFICES ASSUME ~inserted, at.order = "key", NEW row \in Rows
               PROVE  /\ got[row] <= 1
                      /\ got[row] > 0 /\ row \in Wanted' => Place(row)' <= Reached'
                      /\ got[row] > 0 /\ Len(new) > 1 => row \in Matching(Rows, Used(asking.filter)')
    BY <1>1, <1>5 DEF ReceivedOnce
  <2>1. /\ got[row] <= 1 /\ (got[row] > 0 /\ row \in Wanted => Place(row) <= Reached)
        /\ got[row] > 0 /\ Len(old) > 1 => row \in Matching(Rows, Used(old))
    BY <1>1, <1>9 DEF ReceivedOnce, old
  <2>2. CASE new = old
    BY <1>9, <1>12, <2>1, <2>2 DEF old
  <2>3. CASE new # old
    <3>1. /\ old # <<>> /\ new = <<Head(old)>> /\ Len(old) \in Nat /\ Len(old) > 1
          /\ Head(old) = old[1] /\ 1 \in 1..Len(old)
      BY <1>4, <2>3, HeadAlone
    <3>2. Len(new) = 1 /\ new[1] = Head(old) /\ new # <<>> /\ Elements(new) = {Head(old)}
      BY <3>1 DEF Elements
    <3>3. Used(asking.filter)' = new
      <4>1. Used(asking.filter)' = IF at.lists \/ new = <<>> THEN new ELSE <<new[Len(new)]>>
        BY <1>1, <1>5 DEF Used
      <4> QED
        BY <3>1, <3>2, <4>1
    <3>4. Wanted' = Matching(table, new)
      BY <1>1, <3>3 DEF Wanted
    <3>5. ASSUME got[row] > 0, row \in Wanted'
          PROVE  Place(row)' <= Reached'
      <4>1. LocationOf[row] = Head(old) /\ row \in Matching(Rows, Used(old)) /\ row \in table
        BY <2>1, <3>1, <3>2, <3>4, <3>5 DEF Matching
      <4>2. Matching(table, new) \subseteq Matching(table, Used(old))
        <5>1. Head(old) \in Elements(Used(old)) /\ Used(old) # <<>>
          <6>1. CASE at.lists
            BY <3>1, <6>1 DEF Used, Elements
          <6>2. CASE ~at.lists
            <7>1. Used(old) = <<old[Len(old)]>>
              BY <3>1, <6>2 DEF Used
            <7>2. Used(old) # <<>>
              BY <7>1
            <7> QED
              BY <4>1, <7>2 DEF Matching
          <6> QED
            BY <6>1, <6>2
        <5> QED
          BY <3>2, <5>1 DEF Matching
      <4>3. Wanted' \subseteq Wanted /\ row \in Wanted
        BY <3>4, <3>5, <4>2 DEF Wanted, old
      <4>4. RankIn(Wanted', row) <= RankIn(Wanted, row) /\ RankIn(Wanted', row) \in Nat
        <5> DEFINE N == Wanted'
        <5>1. N \subseteq Wanted
          BY <4>3
        <5> HIDE DEF N
        <5>2. RankIn(N, row) <= RankIn(Wanted, row) /\ RankIn(N, row) \in Nat
          BY <1>3, <5>1, FS_Subset, RankGrows, RankTypes
        <5> QED
          BY <5>2 DEF N
      <4>5. Place(row)' <= Place(row) /\ Place(row) <= Reached
        BY <2>1, <3>5, <4>3, <4>4 DEF Place
      <4>6. Place(row) \in Nat /\ Place(row)' \in Nat /\ Reached \in Nat /\ Reached' = Reached
        BY <1>1, <1>9, <4>4, PageTypes DEF Place
      <4> QED
        BY <4>5, <4>6
    <3> QED
      BY <2>1, <3>2, <3>5
  <2> QED
    BY <2>2, <2>3
<1>14. ReceivedAll'
  <2>1. LinksCoverAll => Missed' \subseteq Missed
    <3>1. Used(asked.filter)' = Used(asked.filter)
      BY <1>1 DEF Used
    <3> QED
      BY <1>1, <1>9, <1>10, <1>12, <3>1 DEF Missed, Receiving
  <2> QED
    BY <1>1, <1>6, <1>8, <1>9, <2>1, NoneMissed
<1> QED
  BY <1>1, <1>6, <1>11, <1>13, <1>14 DEF PagesInv

\* Every step keeps the invariant, and no response exceeds the limit of the role.
LEMMA PagesStep ==
  ASSUME PagesInv, [PagesNext]_pagesVars
  PROVE  PagesInv' /\ WithinRole
<1>1. PagesTypeOK
  BY DEF PagesInv
<1>2. ASSUME NEW row \in Rows, Insert(row)
      PROVE  PagesInv' /\ WithinRole
  BY <1>1, <1>2, InsertStep, NothingReceived
<1>3. CASE ExecuteQuery
  BY <1>3, PageArrives
<1>4. CASE FollowNext
  BY <1>1, <1>4, LinkStep, NothingReceived
<1>5. CASE Reject \/ QueryBroken \/ AskAgain \/ QueryFails
  <2>1. /\ UNCHANGED <<at, cap, asked, table, stayed, inserted, removals, asking, got>>
        /\ phase \in {"handling", "500"} /\ phase' \in {"handling", "400", "500"}
    BY <1>5 DEF Reject, QueryBroken, AskAgain, QueryFails, client, content
  <2>2. attempts' \in 0..MaxRetries
    <3>1. attempts \in 0..MaxRetries /\ MaxRetries \in Nat
      BY <1>1, PagesAssumption DEF PagesTypeOK
    <3> QED
      BY <1>5, <3>1 DEF Reject, QueryBroken, AskAgain, QueryFails
  <2>3. PagesTypeOK'
    BY <1>1, <2>1, <2>2 DEF PagesTypeOK
  <2> QED
    BY <1>1, <2>1, <2>3, QuietStep, NothingReceived
<1>6. CASE UNCHANGED pagesVars
  <2>1. /\ UNCHANGED <<at, cap, asked, table, stayed, inserted, removals, asking, got>>
        /\ phase' = phase /\ attempts' = attempts
    BY <1>6 DEF pagesVars, client, content
  <2>2. PagesTypeOK'
    BY <1>1, <2>1 DEF PagesTypeOK
  <2> QED
    BY <1>1, <2>1, <2>2, QuietStep, NothingReceived
<1>7. ASSUME NEW row \in Rows, Remove(row)
      PROVE  PagesInv' /\ WithinRole
  BY <1>1, <1>7, RemoveStep, NothingReceived
<1> QED
  BY <1>2, <1>3, <1>4, <1>5, <1>6, <1>7 DEF PagesNext

\* The invariant holds when the client sends its first request.
LEMMA PagesStart ==
  ASSUME PagesInit
  PROVE  PagesInv
<1>1. /\ at \in Routes /\ cap \in Caps /\ stayed \subseteq Rows /\ table = stayed
      /\ inserted = FALSE /\ removals = 0
      /\ asked \in [limit : Limits, hasOffset : BOOLEAN, offset : {0}, filter : Filters, bad : BOOLEAN]
      /\ asking = asked /\ phase = "handling" /\ attempts = 0 /\ got = [row \in Rows |-> 0]
  BY DEF PagesInit
<1>2. PagesTypeOK
  <2>1. asked \in PageRequest
    <3>1. Limits \subseteq Nat /\ {0} \subseteq Nat
      BY PagesAssumption
    <3> QED
      BY <1>1, <3>1 DEF PageRequest
  <2>2. got \in [Rows -> Nat]
    BY <1>1
  <2>3. 0 \in 0..MaxRetries /\ 0 \in 0..MaxRemovals
    BY PagesAssumption
  <2> QED
    BY <1>1, <2>1, <2>2, <2>3, PagesAssumption DEF PagesTypeOK
<1>3. LinksKept
  BY <1>1 DEF LinksKept
<1>4. Reached = 0
  BY <1>1 DEF Reached
<1>5. ReceivedOnce
  BY <1>1 DEF ReceivedOnce
<1>6. ReceivedAll
  <2>1. ASSUME NEW row \in Matching(stayed, Used(asked.filter))
        PROVE  ~(Place(row) <= 0)
    <3>1. Wanted \subseteq Nat /\ IsFiniteSet(Wanted) /\ row \in Wanted
      BY <1>1, <1>2, PageTypes DEF Wanted
    <3>2. RankIn(Wanted, row) \in Nat /\ RankIn(Wanted, row) >= 1
      BY <3>1, RankTypes
    <3> QED
      BY <3>2 DEF Place
  <2>2. Receiving
    BY <1>1 DEF Receiving
  <2>3. Missed = {}
    BY <1>4, <2>1, <2>2 DEF Missed
  <2> QED
    BY <1>1, <2>3, FS_EmptySet DEF ReceivedAll
<1> QED
  BY <1>2, <1>3, <1>5, <1>6 DEF PagesInv

\* The inductive invariant of the pages.
LEMMA PagesInductive == PagesSpec => []PagesInv
<1>1. PagesInit => PagesInv
  BY PagesStart
<1>2. PagesInv /\ [PagesNext]_pagesVars => PagesInv'
  BY PagesStep
<1> QED
  BY <1>1, <1>2, PTL DEF PagesSpec

\* Requests, links and retries keep their types: a query is tried again at most MAX_RETRIES
\* times, and a link never asks for what a client could not.
THEOREM PagesTypes == PagesSpec => []PagesTypeOK
<1>1. PagesInv => PagesTypeOK
  BY DEF PagesInv
<1> QED
  BY <1>1, PagesInductive, PTL

\* A client that follows the next links to the end has every row that matched all the time,
\* but for as many as were removed, and while nothing is inserted no row twice: for any
\* table, any limits and any number of pages, insertions and removals.
THEOREM PagesComplete == PagesSpec => []EveryRowOnce
<1>1. PagesInv => EveryRowOnce
  <2> SUFFICES ASSUME PagesInv
               PROVE  EveryRowOnce
    OBVIOUS
  <2>1. ~inserted /\ at.order = "key" => \A row \in Rows : got[row] <= 1
    BY DEF PagesInv, ReceivedOnce
  <2>2. phase = "end" => Missed = {row \in Matching(stayed, Used(asked.filter)) : got[row] = 0}
    BY DEF Missed, Receiving
  <2> QED
    BY <2>1, <2>2 DEF PagesInv, ReceivedAll, EveryRowOnce
<1> QED
  BY <1>1, PagesInductive, PTL

\* No response has more rows than the role of the client allows, on any route and whether
\* or not the client names a limit.
THEOREM ResponsesLimited == PagesSpec => RoleLimitHolds
<1>1. PagesInv /\ [PagesNext]_pagesVars =>
        [cap # 0 => Cardinality({row \in Rows : got'[row] # got[row]}) <= cap]_pagesVars
  BY PagesStep DEF WithinRole
<1> QED
  BY <1>1, PagesInductive, PTL DEF PagesSpec, RoleLimitHolds

=============================================================================
