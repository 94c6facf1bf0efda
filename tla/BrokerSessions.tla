--------------------------- MODULE BrokerSessions ---------------------------
(***************************************************************************)
(* Delegated broker sessions of the TEEHR API: the table of                *)
(* api/src/delegated_session_store.py and the exchange of a broker session *)
(* token for an access token in api/src/broker.py.  Spark drivers and      *)
(* executors of one notebook share a session, so exchanges for it overlap; *)
(* each await of the handler is a point where another request, another     *)
(* worker or the clock may move.                                           *)
(*                                                                         *)
(* Keycloak is external: a refresh token is known by the time it was       *)
(* issued, it lives IdleTtl, and every refresh issues a new one while the  *)
(* old ones stay valid (the realm does not revoke them).                   *)
(***************************************************************************)
EXTENDS Naturals

CONSTANTS Sids,       \* delegated session ids
          Callers,    \* (user_id, session_id, realm) triples
          Exchanges,  \* concurrent exchanges
          SessionTtl, \* BROKER_DELEGATED_SESSION_TTL_SECONDS, in ticks
          IdleTtl,    \* life of a Keycloak refresh token, in ticks
          MaxTime,    \* bound: the clock stops here
          MaxAborts   \* bound: exchanges cut short by a crash or an error

ASSUME BrokerBounds == /\ SessionTtl \in Nat \ {0} /\ IdleTtl \in Nat \ {0}
                       /\ MaxTime \in Nat /\ MaxAborts \in Nat

VARIABLES now,      \* the wall clock
          db,       \* db[s]: the row of delegated_sessions, or NoSession
          expiry,   \* expiry[s]: exp claim of the broker session token, 0 before it exists
          sso,      \* sso[s]: issue time of the newest refresh token Keycloak gave out
          exchange, \* exchange[r]: an exchange and what its handler holds
          aborts,   \* exchanges cut short so far
                    \* Two history variables, which no guard reads:
          overtaken, \* exchanges that hold a new refresh token while Keycloak has since
                    \* given out a newer one for their session
          lost      \* sessions whose newest refresh token did not get, or stay, in the row

history == <<overtaken, lost>>
brokerVars == <<now, db, expiry, sso, exchange, aborts, history>>

Times == 0..MaxTime
NoSession == [caller |-> "none", expires_at |-> 0, refresh_token |-> 0]
Session == [caller : Callers, expires_at : 1..(MaxTime + SessionTtl), refresh_token : Times]

\* Where the handler of an exchange is.  The last four stages are answers.
ExchangeStages == {"idle", "decoded", "expired", "refreshing", "refreshed",
                   "ok", "unauthorized", "forbidden", "refused"}
Answers == {"ok", "unauthorized", "forbidden", "refused"}

NoExchange == [stage |-> "idle"]
Exchange == {NoExchange} \cup
            [stage : ExchangeStages \ {"idle"}, sid : Sids, caller : Callers, refresh_token : Times]

BrokerInit ==
  /\ now = 0
  /\ db = [s \in Sids |-> NoSession]
  /\ expiry = [s \in Sids |-> 0]
  /\ sso = [s \in Sids |-> 0]
  /\ exchange = [r \in Exchanges |-> NoExchange]
  /\ aborts = 0
  /\ overtaken = {} /\ lost = {}

----------------------------------------------------------------------------
(* Creating a session.                                                     *)

\* put_session: a new sid, so that the upsert is an insert.
PutSession(s, c) ==
  db' = [db EXCEPT ![s] = [caller |-> c, expires_at |-> now + SessionTtl, refresh_token |-> now]]

\* POST /auth/polaris-session: the caller's refresh token goes into a new row, and the
\* broker session token carries the same expiry as the row.
CreateSession(s, c) ==
  /\ expiry[s] = 0
  /\ expiry' = [expiry EXCEPT ![s] = now + SessionTtl]
  /\ PutSession(s, c)
  /\ sso' = [sso EXCEPT ![s] = now]
  /\ UNCHANGED <<now, exchange, aborts, history>>

----------------------------------------------------------------------------
(* The exchange, POST /auth/polaris-token/session.                         *)

Advance(r, stage) == exchange' = [exchange EXCEPT ![r].stage = stage]

\* jwt.decode accepts a token whose exp lies in the future, and answers 401 otherwise.
DecodeToken(r, s, c) ==
  /\ exchange[r] = NoExchange
  /\ expiry[s] # 0
  /\ exchange' = [exchange EXCEPT ![r] =
                     [stage |-> IF now < expiry[s] THEN "decoded" ELSE "unauthorized",
                      sid |-> s, caller |-> c, refresh_token |-> 0]]
  /\ UNCHANGED <<now, db, expiry, sso, aborts, history>>

Expired(row) == row.expires_at <= now

\* get_session and the checks that follow it without an await.
GetSession(r) ==
  LET row == db[exchange[r].sid] IN
  /\ exchange[r].stage = "decoded"
  /\ \/ /\ row = NoSession
        /\ Advance(r, "unauthorized")
     \/ /\ row # NoSession /\ Expired(row)
        /\ Advance(r, "expired")
     \/ /\ row # NoSession /\ ~Expired(row)
        /\ row.caller # exchange[r].caller
        /\ Advance(r, "forbidden")
     \/ /\ row # NoSession /\ ~Expired(row)
        /\ row.caller = exchange[r].caller
        /\ exchange' = [exchange EXCEPT ![r].stage = "refreshing",
                                         ![r].refresh_token = row.refresh_token]
  /\ UNCHANGED <<now, db, expiry, sso, aborts, history>>

DeleteSession(r) ==
  /\ exchange[r].stage = "expired"
  /\ db' = [db EXCEPT ![exchange[r].sid] = NoSession]
  /\ Advance(r, "unauthorized")
  /\ UNCHANGED <<now, expiry, sso, aborts, history>>

\* The other exchanges of r's session that hold a new refresh token and have not stored it.
Storing(r) == {q \in Exchanges \ {r} : exchange[q].stage = "refreshed" /\ exchange[q].sid = exchange[r].sid}

RefreshTokenLives(t) == now < t + IdleTtl

\* Keycloak refreshes: a new refresh token, and the old one stays valid.
KeycloakRefresh(r) ==
  /\ exchange[r].stage = "refreshing"
  /\ RefreshTokenLives(exchange[r].refresh_token)
  /\ exchange' = [exchange EXCEPT ![r].stage = "refreshed", ![r].refresh_token = now]
  /\ sso' = [sso EXCEPT ![exchange[r].sid] = now]
  /\ overtaken' = (overtaken \ {r}) \cup Storing(r)
  /\ UNCHANGED <<now, db, expiry, aborts, lost>>

\* Keycloak refreshes without a new refresh token: nothing is stored.
KeycloakKeepsToken(r) ==
  /\ exchange[r].stage = "refreshing"
  /\ RefreshTokenLives(exchange[r].refresh_token)
  /\ Advance(r, "ok")
  /\ UNCHANGED <<now, db, expiry, sso, aborts, history>>

\* Keycloak answers 4xx, which the broker turns into 401 subject_refresh_failed.
KeycloakRefuse(r) ==
  /\ exchange[r].stage = "refreshing"
  /\ ~RefreshTokenLives(exchange[r].refresh_token)
  /\ Advance(r, "refused")
  /\ UNCHANGED <<now, db, expiry, sso, aborts, history>>

\* The token of an exchange that was not overtaken is the newest, and makes the row good
\* again; one that was overtaken puts an older token into the row.
RecordStored(r) ==
  /\ lost' = IF r \in overtaken THEN lost \cup {exchange[r].sid} ELSE lost \ {exchange[r].sid}
  /\ overtaken' = overtaken \ {r}

\* An upsert in the place of the update.
UpsertRefreshToken(r) ==
  LET s == exchange[r].sid IN
  /\ exchange[r].stage = "refreshed"
  /\ db' = [db EXCEPT ![s] = [caller |-> exchange[r].caller, expires_at |-> expiry[s],
                              refresh_token |-> exchange[r].refresh_token]]
  /\ Advance(r, "ok")
  /\ RecordStored(r)
  /\ UNCHANGED <<now, expiry, sso, aborts>>

\* The update that does not look whether the row is still there.
UpdateMissingRow(r) ==
  /\ exchange[r].stage = "refreshed"
  /\ db' = [db EXCEPT ![exchange[r].sid].refresh_token = exchange[r].refresh_token]
  /\ Advance(r, "ok")
  /\ RecordStored(r)
  /\ UNCHANGED <<now, expiry, sso, aborts>>

\* An update that spares the write when the row's token is at most a tick older.
UpdateUnlessRecent(r) ==
  LET s == exchange[r].sid IN
  /\ exchange[r].stage = "refreshed"
  /\ db' = IF db[s] = NoSession \/ exchange[r].refresh_token <= db[s].refresh_token + 1 THEN db
           ELSE [db EXCEPT ![s].refresh_token = exchange[r].refresh_token]
  /\ Advance(r, "ok")
  /\ RecordStored(r)
  /\ UNCHANGED <<now, expiry, sso, aborts>>

\* UPDATE ... WHERE sid: without a row it changes nothing.  Then the answer is built.
UpdateRefreshToken(r) ==
  LET s == exchange[r].sid IN
  /\ exchange[r].stage = "refreshed"
  /\ db' = IF db[s] = NoSession THEN db
           ELSE [db EXCEPT ![s].refresh_token = exchange[r].refresh_token]
  /\ Advance(r, "ok")
  /\ RecordStored(r)
  /\ UNCHANGED <<now, expiry, sso, aborts>>

\* The answer leaves, and the client may ask again.
Answer(r) ==
  /\ exchange[r].stage \in Answers
  /\ exchange' = [exchange EXCEPT ![r] = NoExchange]
  /\ UNCHANGED <<now, db, expiry, sso, aborts, history>>

\* A worker dies, or the token endpoint or the database cannot be reached: whatever the
\* handler had not yet written is lost.
Abort(r) ==
  /\ exchange[r].stage \in ExchangeStages \ (Answers \cup {"idle"})
  /\ aborts < MaxAborts
  /\ aborts' = aborts + 1
  /\ exchange' = [exchange EXCEPT ![r] = NoExchange]
  /\ lost' = IF exchange[r].stage = "refreshed" /\ r \notin overtaken
             THEN lost \cup {exchange[r].sid} ELSE lost
  /\ overtaken' = overtaken \ {r}
  /\ UNCHANGED <<now, db, expiry, sso>>

Tick ==
  /\ now < MaxTime
  /\ now' = now + 1
  /\ UNCHANGED <<db, expiry, sso, exchange, aborts, history>>

----------------------------------------------------------------------------
Handler(r) == \/ GetSession(r)
              \/ DeleteSession(r)
              \/ KeycloakRefresh(r)
              \/ KeycloakKeepsToken(r)
              \/ KeycloakRefuse(r)
              \/ UpdateRefreshToken(r)
              \/ Answer(r)

BrokerNext ==
  \/ \E s \in Sids, c \in Callers : \/ CreateSession(s, c)
                                    \/ \E r \in Exchanges : DecodeToken(r, s, c)
  \/ \E r \in Exchanges : Handler(r) \/ Abort(r)
  \/ Tick

BrokerSpec == BrokerInit /\ [][BrokerNext]_brokerVars

----------------------------------------------------------------------------
(* Properties.                                                             *)

\* Type correctness of the sessions table, of Keycloak's logins and of the exchanges.
BrokerTypeOK ==
  /\ now \in Times
  /\ db \in [Sids -> Session \cup {NoSession}]
  /\ expiry \in [Sids -> 0..(MaxTime + SessionTtl)]
  /\ sso \in [Sids -> Times]
  /\ exchange \in [Exchanges -> Exchange]
  /\ aborts \in 0..MaxAborts
  /\ overtaken \subseteq Exchanges /\ lost \subseteq Sids

\* The life of a session's row is one-way.  It is deleted only when the session has
\* expired, and stays gone: an exchange that read the row before the delete and writes
\* its new refresh token after it must not bring it back.  No exchange changes whose
\* session it is or when it ends.
RowLifecycle ==
  [][\A s \in Sids :
       /\ expiry[s] # 0 /\ db[s] = NoSession => db'[s] = NoSession
       /\ db[s] # NoSession =>
            \/ db'[s] = NoSession /\ db[s].expires_at <= now
            \/ /\ db'[s].caller = db[s].caller
               /\ db'[s].expires_at = db[s].expires_at]_brokerVars

\* As long as the login is in use at Keycloak, the refresh token in the row can be
\* used, except while an exchange is about to store a newer one: the session serves
\* exchanges for its life, without a new login.
StoredTokenUsable ==
  \A s \in Sids :
    /\ db[s] # NoSession
    /\ RefreshTokenLives(sso[s])
    /\ \A r \in Exchanges : exchange[r].stage = "refreshed" => exchange[r].sid # s
    => RefreshTokenLives(db[s].refresh_token)

\* The row holds the newest refresh token that Keycloak gave out, or an exchange is about
\* to store it.  Only two things break this: the exchange that holds it ends before the
\* update, or an exchange that Keycloak answered earlier updates the row later.  The next
\* exchange that stores its token without being overtaken makes it good, so that neither
\* a crash nor an overlap leaves the session behind its login for good.
NewestTokenKept ==
  \A s \in Sids :
    db[s] # NoSession /\ s \notin lost =>
      \/ db[s].refresh_token = sso[s]
      \/ \E r \in Exchanges : /\ exchange[r].stage = "refreshed" /\ exchange[r].sid = s
                              /\ exchange[r].refresh_token = sso[s]
=============================================================================
