------------------------- MODULE ApiKeyStoreProofs -------------------------
(***************************************************************************)
(* Proofs about ApiKeyStore for any number of keys, owners, workers and    *)
(* requests.                                                               *)
(***************************************************************************)
EXTENDS ApiKeyStore, TLAPS

----------------------------------------------------------------------------
(* Facts about rows.                                                       *)

\* Every row has a revocation time, and a row of the table is not the missing row.
LEMMA RowFacts ==
  /\ NoRow \notin Row
  /\ \A row \in Row \cup {NoRow} : row.revoked_at \in {Null} \cup Timestamps
  /\ \A row \in Row : row.owner \in Owners
  BY OwnersAssumption DEF Row, NoRow

\* The upsert yields a row, keeps what the application already recorded, and takes
\* in the legacy row when the two agree on the owner.
LEMMA UpsertFacts ==
  ASSUME NEW old \in Row \cup {NoRow}, NEW new \in Row \cup {NoRow}
  PROVE  /\ Upsert(old, new) \in Row \cup {NoRow}
         /\ old # NoRow => /\ Upsert(old, new) # NoRow
                           /\ Upsert(old, new).owner = old.owner
                           /\ IsRevoked(old) => Upsert(old, new).revoked_at = old.revoked_at
         /\ new # NoRow /\ (old # NoRow => old.owner = new.owner) => Included(new, Upsert(old, new))
  <1>1. CASE new = NoRow
    BY <1>1 DEF Upsert
  <1>2. CASE new # NoRow /\ old = NoRow
    BY <1>2 DEF Upsert, Included
  <1>3. CASE new # NoRow /\ old # NoRow
    <2>1. old \in Row /\ new \in Row
      BY <1>3
    <2>2. Upsert(old, new) = [old EXCEPT !.revoked_at = Coalesce(old.revoked_at, new.revoked_at)]
      BY <1>3 DEF Upsert
    <2>3. Upsert(old, new) \in Row
      BY <2>1, <2>2 DEF Row, Coalesce
    <2>4. /\ Upsert(old, new).owner = old.owner
          /\ Upsert(old, new).revoked_at = Coalesce(old.revoked_at, new.revoked_at)
      BY <2>1, <2>2 DEF Row
    <2>5. Upsert(old, new) # NoRow
      BY <2>3, RowFacts
    <2> QED
      BY <1>3, <2>3, <2>4, <2>5 DEF Included, IsRevoked, Coalesce
  <1> QED
    BY <1>1, <1>2, <1>3

\* Inclusion of rows is transitive.
LEMMA IncludedTransitive ==
  ASSUME NEW a, NEW b, NEW c, Included(a, b), Included(b, c)
  PROVE  Included(a, c)
  BY DEF Included

----------------------------------------------------------------------------
\* The initial states are well typed.
LEMMA TypeInit == Init => TypeOK
  <1> SUFFICES ASSUME Init PROVE TypeOK
    OBVIOUS
  <1>1. EmptyTable \in Table
    BY DEF EmptyTable, Table
  <1>2. legacy \in Table
    BY DEF Init, Table, Row
  <1> QED
    BY <1>1, <1>2, BoundsAssumption
       DEF Init, TypeOK, Phases, Request, Timestamps

\* Every step keeps the state well typed.
LEMMA TypeStep == TypeOK /\ [Next]_vars => TypeOK'
  <1> SUFFICES ASSUME TypeOK, [Next]_vars PROVE TypeOK'
    OBVIOUS
  <1> USE BoundsAssumption DEF TypeOK
  <1>0. EmptyTable \in Table
    BY DEF EmptyTable, Table
  <1>1. ASSUME NEW w \in Workers, CreateSchema(w) PROVE TypeOK'
    BY <1>1 DEF CreateSchema, Phases
  <1>2. ASSUME NEW w \in Workers, SkipLegacy(w) PROVE TypeOK'
    BY <1>2 DEF SkipLegacy, Phases
  <1>3. ASSUME NEW w \in Workers, FetchLegacy(w) PROVE TypeOK'
    BY <1>3 DEF FetchLegacy, Phases
  <1>4. ASSUME NEW w \in Workers, UpsertLegacy(w) PROVE TypeOK'
    <2>1. ASSUME NEW k \in Keys PROVE Upsert(app[k], rows[w][k]) \in Row \cup {NoRow}
      <3>1. app[k] \in Row \cup {NoRow} /\ rows[w][k] \in Row \cup {NoRow}
        BY DEF Table
      <3> QED
        BY <3>1, UpsertFacts
    <2>2. app' \in Table
      BY <1>4, <2>1 DEF UpsertLegacy, Table
    <2> QED
      BY <1>0, <1>4, <2>2 DEF UpsertLegacy, Phases
  <1>5. ASSUME NEW w \in Workers, Crash(w) PROVE TypeOK'
    BY <1>0, <1>5 DEF Crash, Phases
  <1>6. ASSUME NEW w \in Workers, NEW o \in Owners, NEW k \in Keys, CreateKey(w, o, k)
        PROVE TypeOK'
    <2>1. app' \in Table
      BY <1>6 DEF CreateKey, Table, Row
    <2> QED
      BY <1>6, <2>1 DEF CreateKey
  <1>7. ASSUME NEW w \in Workers, NEW o \in Owners, NEW k \in Keys, RevokeKey(w, o, k)
        PROVE TypeOK'
    <2>1. app[k] \in Row
      BY <1>7 DEF RevokeKey, Revocable, IsActive, Table
    <2>2. [app[k] EXCEPT !.revoked_at = now] \in Row
      BY <2>1 DEF Row
    <2>3. app' \in Table
      BY <1>7, <2>2 DEF RevokeKey, Table
    <2> QED
      BY <1>7, <2>3 DEF RevokeKey
  <1>8. ASSUME NEW w \in Workers, NEW r \in Requests, ValidateKey(w, r) PROVE TypeOK'
    <2>1. req[r] \in [state : {"asked", "accepted", "rejected"}, key : Keys]
      BY <1>8 DEF ValidateKey, Request, Idle
    <2>2. [req[r] EXCEPT !.state = IF Validates(app[req[r].key]) THEN "accepted" ELSE "rejected"]
            \in Request
      BY <2>1 DEF Request
    <2> QED
      BY <1>8, <2>2 DEF ValidateKey
  <1>9. ASSUME NEW r \in Requests, NEW k \in Keys, PresentKey(r, k) PROVE TypeOK'
    BY <1>9 DEF PresentKey, Request
  <1>10. ASSUME NEW r \in Requests, EndRequest(r) PROVE TypeOK'
    BY <1>10 DEF EndRequest, Request
  <1>11. ASSUME NEW o \in Owners, NEW k \in Keys, OldCreateKey(o, k) PROVE TypeOK'
    <2>1. legacy' \in Table
      BY <1>11 DEF OldCreateKey, Table, Row
    <2> QED
      BY <1>11, <2>1 DEF OldCreateKey
  <1>12. ASSUME NEW o \in Owners, NEW k \in Keys, OldRevokeKey(o, k) PROVE TypeOK'
    <2>1. legacy[k] \in Row
      BY <1>12 DEF OldRevokeKey, IsActive, Table
    <2>2. [legacy[k] EXCEPT !.revoked_at = now] \in Row
      BY <2>1 DEF Row
    <2>3. legacy' \in Table
      BY <1>12, <2>2 DEF OldRevokeKey, Table
    <2> QED
      BY <1>12, <2>3 DEF OldRevokeKey
  <1>13. CASE RetireOldPods
    BY <1>13 DEF RetireOldPods
  <1>14. CASE Tick
    BY <1>14 DEF Tick, Timestamps
  <1>15. CASE UNCHANGED vars
    BY <1>15 DEF vars
  <1> QED
    BY <1>1, <1>2, <1>3, <1>4, <1>5, <1>6, <1>7, <1>8, <1>9, <1>10, <1>11, <1>12,
       <1>13, <1>14, <1>15 DEF Next

\* The state of the store is well typed in every reachable state.
THEOREM TypeCorrect == Spec => []TypeOK
  BY TypeInit, TypeStep, PTL DEF Spec

----------------------------------------------------------------------------
(* The inductive invariant.  PickedUpByRestart alone is not inductive: what a *)
(* worker will have picked up when it serves depends on the rows it carries,  *)
(* and the two tables must agree on the owner of a key they share.            *)

\* The tables and every copy of the legacy one agree on owners.
OneOwner ==
  \A k \in Keys : app[k] # NoRow /\ legacy[k] # NoRow => app[k].owner = legacy[k].owner

\* The legacy table only grows, so whatever was read from it is still in it.
ReadFromLegacy ==
  \A w \in Workers, k \in Keys : /\ Included(rows[w][k], legacy[k])
                                 /\ Included(startedFrom[w][k], legacy[k])

\* The rows a worker is about to write hold all its startup found.
CarriedRows ==
  \A w \in Workers, k \in Keys :
    pc[w] = "copying" => Included(startedFrom[w][k], rows[w][k])

\* Without a legacy table there are no old pods and no legacy rows.
NoTableNoRows ==
  ~legacyTable => ~oldPods /\ legacy = EmptyTable

\* An acknowledged revocation is in the application's table.
AckedRevoked ==
  \A k \in acked : IsRevoked(app[k])

IInv ==
  /\ TypeOK
  /\ OneOwner
  /\ ReadFromLegacy
  /\ CarriedRows
  /\ NoTableNoRows
  /\ PickedUpByRestart
  /\ AckedRevoked

----------------------------------------------------------------------------
(* Rows only move forward.                                                 *)

Grows(a, b) ==
  a # NoRow => /\ b # NoRow
               /\ b.owner = a.owner
               /\ IsRevoked(a) => b.revoked_at = a.revoked_at

\* A row that moved forward includes what it was.
LEMMA GrowsIncluded ==
  ASSUME NEW a, NEW b, Grows(a, b)
  PROVE  Included(a, b)
  BY DEF Grows, Included, IsRevoked

\* Stamping a row that is not revoked moves it forward.
LEMMA StampGrows ==
  ASSUME NEW row \in Row \cup {NoRow}, IsActive(row), now \in Timestamps
  PROVE  /\ [row EXCEPT !.revoked_at = now] \in Row
         /\ IsRevoked([row EXCEPT !.revoked_at = now])
         /\ Grows(row, [row EXCEPT !.revoked_at = now])
  <1>1. row \in Row
    BY DEF IsActive
  <1>2. [row EXCEPT !.revoked_at = now] \in Row
    BY <1>1 DEF Row
  <1>3. /\ [row EXCEPT !.revoked_at = now].owner = row.owner
        /\ [row EXCEPT !.revoked_at = now].revoked_at = now
    BY <1>1 DEF Row
  <1>4. now # Null
    BY BoundsAssumption DEF Timestamps, Null
  <1> QED
    BY <1>2, <1>3, <1>4, RowFacts DEF Grows, IsRevoked, IsActive

\* No step moves a row of the application's table backwards.
LEMMA AppGrows ==
  ASSUME TypeOK, [Next]_vars
  PROVE  \A k \in Keys : Grows(app[k], app'[k])
  <1>0. \A k \in Keys : app[k] \in Row \cup {NoRow} /\ Grows(app[k], app[k])
    BY DEF TypeOK, Table, Grows
  <1>1. ASSUME NEW w \in Workers, UpsertLegacy(w), NEW k \in Keys
        PROVE  Grows(app[k], app'[k])
    <2>1. app[k] \in Row \cup {NoRow} /\ rows[w][k] \in Row \cup {NoRow}
      BY DEF TypeOK, Table
    <2>2. app'[k] = Upsert(app[k], rows[w][k])
      BY <1>1 DEF UpsertLegacy
    <2> QED
      BY <2>1, <2>2, UpsertFacts DEF Grows
  <1>2. ASSUME NEW w \in Workers, NEW o \in Owners, NEW j \in Keys, CreateKey(w, o, j),
               NEW k \in Keys
        PROVE  Grows(app[k], app'[k])
    BY <1>0, <1>2 DEF CreateKey, Fresh, Grows, TypeOK, Table
  <1>3. ASSUME NEW w \in Workers, NEW o \in Owners, NEW j \in Keys, RevokeKey(w, o, j),
               NEW k \in Keys
        PROVE  Grows(app[k], app'[k])
    <2>1. Grows(app[j], [app[j] EXCEPT !.revoked_at = now])
      BY <1>0, <1>3, StampGrows DEF RevokeKey, Revocable, TypeOK
    <2>2. app'[k] = IF k = j THEN [app[j] EXCEPT !.revoked_at = now] ELSE app[k]
      BY <1>3 DEF RevokeKey, TypeOK, Table
    <2> QED
      BY <1>0, <2>1, <2>2
  <1>4. CASE UNCHANGED app
    BY <1>0, <1>4
  <1> QED
    BY <1>1, <1>2, <1>3, <1>4
       DEF Next, vars, CreateSchema, SkipLegacy, FetchLegacy, Crash, ValidateKey, PresentKey,
           EndRequest, OldCreateKey, OldRevokeKey, RetireOldPods, Tick

\* No step moves a row of the legacy table backwards: old pods create and revoke.
LEMMA LegacyGrows ==
  ASSUME TypeOK, [Next]_vars
  PROVE  \A k \in Keys : Grows(legacy[k], legacy'[k])
  <1>0. \A k \in Keys : legacy[k] \in Row \cup {NoRow} /\ Grows(legacy[k], legacy[k])
    BY DEF TypeOK, Table, Grows
  <1>1. ASSUME NEW o \in Owners, NEW j \in Keys, OldCreateKey(o, j), NEW k \in Keys
        PROVE  Grows(legacy[k], legacy'[k])
    BY <1>0, <1>1 DEF OldCreateKey, Fresh, Grows, TypeOK, Table
  <1>2. ASSUME NEW o \in Owners, NEW j \in Keys, OldRevokeKey(o, j), NEW k \in Keys
        PROVE  Grows(legacy[k], legacy'[k])
    <2>1. Grows(legacy[j], [legacy[j] EXCEPT !.revoked_at = now])
      BY <1>0, <1>2, StampGrows DEF OldRevokeKey, TypeOK
    <2>2. legacy'[k] = IF k = j THEN [legacy[j] EXCEPT !.revoked_at = now] ELSE legacy[k]
      BY <1>2 DEF OldRevokeKey, TypeOK, Table
    <2> QED
      BY <1>0, <2>1, <2>2
  <1>3. CASE UNCHANGED legacy
    BY <1>0, <1>3
  <1> QED
    BY <1>1, <1>2, <1>3
       DEF Next, vars, CreateSchema, SkipLegacy, FetchLegacy, UpsertLegacy, Crash, CreateKey,
           RevokeKey, ValidateKey, PresentKey, EndRequest, RetireOldPods, Tick

\* A revocation time, once written, stays, and no copy of stale legacy rows undoes it.
THEOREM RevocationNeverUndone == Spec => RevocationIsFinal
  <1>1. TypeOK /\ [Next]_vars
          => [\A k \in Keys : app[k] # NoRow =>
                /\ app'[k] # NoRow
                /\ app'[k].owner = app[k].owner
                /\ IsRevoked(app[k]) => app'[k].revoked_at = app[k].revoked_at]_vars
    BY AppGrows DEF Grows
  <1> QED
    BY <1>1, TypeCorrect, PTL DEF Spec, RevocationIsFinal

----------------------------------------------------------------------------
(* The invariant holds.                                                    *)

\* Only the old pods write the legacy table, and only UpsertLegacy and the two
\* request handlers write the application's.
LEMMA IInvInductive == IInv /\ [Next]_vars => IInv'
  <1> SUFFICES ASSUME IInv, [Next]_vars PROVE IInv'
    OBVIOUS
  <1>a. TypeOK /\ TypeOK'
    BY TypeStep DEF IInv
  <1>b. \A k \in Keys : Grows(app[k], app'[k]) /\ Included(app[k], app'[k])
    BY <1>a, AppGrows, GrowsIncluded
  <1>c. \A k \in Keys : Grows(legacy[k], legacy'[k]) /\ Included(legacy[k], legacy'[k])
    BY <1>a, LegacyGrows, GrowsIncluded
  <1>d. Included(NoRow, NoRow) /\ \A row : Included(NoRow, row)
    BY DEF Included
  <1>1. OneOwner'
    <2> SUFFICES ASSUME NEW k \in Keys, app'[k] # NoRow, legacy'[k] # NoRow
                 PROVE  app'[k].owner = legacy'[k].owner
      BY DEF OneOwner
    <2>1. ASSUME NEW w \in Workers, UpsertLegacy(w) PROVE app'[k].owner = legacy'[k].owner
      <3>1. legacy' = legacy /\ app'[k] = Upsert(app[k], rows[w][k])
        BY <2>1 DEF UpsertLegacy
      <3>2. Included(rows[w][k], legacy[k])
        BY DEF IInv, ReadFromLegacy
      <3>3. CASE app[k] = NoRow
        BY <3>1, <3>2, <3>3 DEF Upsert, Included
      <3>4. CASE app[k] # NoRow
        BY <1>b, <3>1, <3>4 DEF IInv, OneOwner, Grows
      <3> QED
        BY <3>3, <3>4
    <2>2. ASSUME NEW w \in Workers, NEW o \in Owners, NEW j \in Keys, CreateKey(w, o, j)
          PROVE  app'[k].owner = legacy'[k].owner
      BY <1>a, <2>2 DEF CreateKey, Fresh, IInv, OneOwner, TypeOK, Table
    <2>3. ASSUME NEW w \in Workers, NEW o \in Owners, NEW j \in Keys, RevokeKey(w, o, j)
          PROVE  app'[k].owner = legacy'[k].owner
      <3>1. app[k] # NoRow /\ legacy' = legacy
        BY <1>a, <2>3 DEF RevokeKey, Revocable, IsActive, TypeOK, Table
      <3> QED
        BY <1>b, <3>1 DEF IInv, OneOwner, Grows
    <2>4. ASSUME NEW o \in Owners, NEW j \in Keys, OldCreateKey(o, j)
          PROVE  app'[k].owner = legacy'[k].owner
      BY <1>a, <2>4 DEF OldCreateKey, Fresh, IInv, OneOwner, TypeOK, Table
    <2>5. ASSUME NEW o \in Owners, NEW j \in Keys, OldRevokeKey(o, j)
          PROVE  app'[k].owner = legacy'[k].owner
      <3>1. legacy[k] # NoRow /\ app' = app
        BY <1>a, <2>5 DEF OldRevokeKey, IsActive, TypeOK, Table
      <3> QED
        BY <1>c, <3>1 DEF IInv, OneOwner, Grows
    <2>6. CASE UNCHANGED <<app, legacy>>
      BY <2>6 DEF IInv, OneOwner
    <2> QED
      BY <2>1, <2>2, <2>3, <2>4, <2>5, <2>6
         DEF Next, vars, CreateSchema, SkipLegacy, FetchLegacy, Crash, ValidateKey, PresentKey,
             EndRequest, RetireOldPods, Tick
  <1>2. ReadFromLegacy'
    <2> SUFFICES ASSUME NEW w \in Workers, NEW k \in Keys
                 PROVE  Included(rows'[w][k], legacy'[k]) /\ Included(startedFrom'[w][k], legacy'[k])
      BY DEF ReadFromLegacy
    <2>1. Included(rows[w][k], legacy'[k]) /\ Included(startedFrom[w][k], legacy'[k])
      BY <1>c, IncludedTransitive DEF IInv, ReadFromLegacy
    <2>2. rows'[w][k] \in {rows[w][k], NoRow, legacy'[k]}
      BY <1>a DEF Next, vars, CreateSchema, SkipLegacy, FetchLegacy, UpsertLegacy, Crash, CreateKey,
           RevokeKey, ValidateKey, PresentKey, EndRequest, OldCreateKey, OldRevokeKey,
           RetireOldPods, Tick, TypeOK, EmptyTable
    <2>3. startedFrom'[w][k] \in {startedFrom[w][k], legacy'[k]}
      BY <1>a DEF Next, vars, CreateSchema, SkipLegacy, FetchLegacy, UpsertLegacy, Crash, CreateKey,
           RevokeKey, ValidateKey, PresentKey, EndRequest, OldCreateKey, OldRevokeKey,
           RetireOldPods, Tick, TypeOK
    <2>4. Included(legacy'[k], legacy'[k])
      BY DEF Included
    <2> QED
      BY <1>d, <2>1, <2>2, <2>3, <2>4
  <1>3. CarriedRows'
    <2> SUFFICES ASSUME NEW w \in Workers, NEW k \in Keys, pc'[w] = "copying"
                 PROVE  Included(startedFrom'[w][k], rows'[w][k])
      BY DEF CarriedRows
    <2>1. CASE FetchLegacy(w)
      BY <1>a, <2>1 DEF FetchLegacy, IInv, ReadFromLegacy, TypeOK
    <2>2. CASE ~FetchLegacy(w)
      <3>1. pc[w] = "copying" /\ rows'[w] = rows[w] /\ startedFrom'[w] = startedFrom[w]
        BY <1>a, <2>2 DEF Next, vars, CreateSchema, SkipLegacy, FetchLegacy, UpsertLegacy, Crash,
             CreateKey, RevokeKey, ValidateKey, PresentKey, EndRequest, OldCreateKey, OldRevokeKey,
             RetireOldPods, Tick, TypeOK
      <3> QED
        BY <3>1 DEF IInv, CarriedRows
    <2> QED
      BY <2>1, <2>2
  <1>4. NoTableNoRows'
    BY DEF IInv, NoTableNoRows, Next, vars, CreateSchema, SkipLegacy, FetchLegacy, UpsertLegacy,
           Crash, CreateKey, RevokeKey, ValidateKey, PresentKey, EndRequest, OldCreateKey,
           OldRevokeKey, RetireOldPods, Tick
  <1>5. PickedUpByRestart'
    <2> SUFFICES ASSUME NEW w \in Workers, NEW k \in Keys, pc'[w] = "serving"
                 PROVE  Included(startedFrom'[w][k], app'[k])
      BY DEF PickedUpByRestart
    <2>1. CASE SkipLegacy(w)
      <3>1. legacy[k] = NoRow /\ startedFrom' = startedFrom
        BY <2>1 DEF SkipLegacy, IInv, NoTableNoRows, EmptyTable
      <3>2. startedFrom'[w][k] = NoRow
        BY <3>1 DEF IInv, ReadFromLegacy, Included
      <3> QED
        BY <1>d, <3>2
    <2>2. CASE UpsertLegacy(w)
      <3>1. app'[k] = Upsert(app[k], rows[w][k]) /\ startedFrom' = startedFrom
        BY <2>2 DEF UpsertLegacy
      <3>2. Included(startedFrom[w][k], rows[w][k]) /\ Included(rows[w][k], legacy[k])
        BY <2>2 DEF UpsertLegacy, IInv, CarriedRows, ReadFromLegacy
      <3>3. app[k] \in Row \cup {NoRow} /\ rows[w][k] \in Row \cup {NoRow}
        BY <1>a DEF TypeOK, Table
      <3>4. CASE rows[w][k] = NoRow
        BY <3>1, <3>2, <3>4, <1>d DEF Included
      <3>5. CASE rows[w][k] # NoRow
        <4>1. app[k] # NoRow => app[k].owner = rows[w][k].owner
          BY <3>2, <3>5 DEF IInv, OneOwner, Included
        <4>2. Included(rows[w][k], app'[k])
          BY <3>1, <3>3, <3>5, <4>1, UpsertFacts
        <4> QED
          BY <3>1, <3>2, <4>2, IncludedTransitive
      <3> QED
        BY <3>4, <3>5
    <2>3. CASE ~SkipLegacy(w) /\ ~UpsertLegacy(w)
      <3>1. pc[w] = "serving" /\ startedFrom'[w] = startedFrom[w]
        BY <1>a, <2>3 DEF Next, vars, CreateSchema, SkipLegacy, FetchLegacy, UpsertLegacy, Crash,
             CreateKey, RevokeKey, ValidateKey, PresentKey, EndRequest, OldCreateKey, OldRevokeKey,
             RetireOldPods, Tick, TypeOK
      <3>2. Included(startedFrom[w][k], app[k])
        BY <3>1 DEF IInv, PickedUpByRestart
      <3> QED
        BY <1>b, <3>1, <3>2, IncludedTransitive
    <2> QED
      BY <2>1, <2>2, <2>3
  <1>6. AckedRevoked'
    <2> SUFFICES ASSUME NEW k \in acked' PROVE IsRevoked(app'[k])
      BY DEF AckedRevoked
    <2>1. CASE k \in acked
      <3>1. IsRevoked(app[k]) /\ k \in Keys /\ app[k] # NoRow
        BY <1>a, <2>1 DEF IInv, AckedRevoked, TypeOK, IsRevoked, NoRow
      <3> QED
        BY <1>b, <3>1 DEF Grows, IsRevoked
    <2>2. CASE k \notin acked
      <3>1. PICK w \in Workers, o \in Owners : k \in Keys /\ RevokeKey(w, o, k)
        BY <2>2 DEF Next, vars, CreateSchema, SkipLegacy, FetchLegacy, UpsertLegacy, Crash,
             CreateKey, RevokeKey, ValidateKey, PresentKey, EndRequest, OldCreateKey, OldRevokeKey,
             RetireOldPods, Tick
      <3>2. app[k] \in Row \cup {NoRow} /\ IsActive(app[k]) /\ now \in Timestamps
        BY <1>a, <3>1 DEF RevokeKey, Revocable, TypeOK, Table
      <3>3. app'[k] = [app[k] EXCEPT !.revoked_at = now]
        BY <1>a, <3>1 DEF RevokeKey, TypeOK, Table
      <3> QED
        BY <3>2, <3>3, StampGrows
    <2> QED
      BY <2>1, <2>2
  <1> QED
    BY <1>a, <1>1, <1>2, <1>3, <1>4, <1>5, <1>6 DEF IInv

\* The invariant holds at the start.
LEMMA IInvInit == Init => IInv
  <1> SUFFICES ASSUME Init PROVE IInv
    OBVIOUS
  <1>1. TypeOK
    BY TypeInit
  <1>2. NoTableNoRows
    BY DEF Init, NoTableNoRows, EmptyTable
  <1>3. OneOwner /\ ReadFromLegacy /\ CarriedRows /\ PickedUpByRestart /\ AckedRevoked
    BY DEF Init, OneOwner, ReadFromLegacy, CarriedRows, PickedUpByRestart, AckedRevoked, Included,
           EmptyTable
  <1> QED
    BY <1>1, <1>2, <1>3 DEF IInv

\* The inductive invariant is an invariant of the specification.
LEMMA Invariance == Spec => []IInv
  BY IInvInit, IInvInductive, PTL DEF Spec

\* Every serving worker has brought over all its startup found in the legacy table.
THEOREM RestartPicksUp == Spec => []PickedUpByRestart
  <1>1. IInv => PickedUpByRestart
    BY DEF IInv
  <1> QED
    BY <1>1, Invariance, PTL

\* After a DELETE was answered 204 no worker accepts the key.
THEOREM RefusedAfterAck == Spec => AcknowledgedMeansRefused
  <1>1. IInv /\ [Next]_vars
          => [\A r \in Requests :
                req'[r].state = "accepted" /\ req[r].state = "asked" => req[r].key \notin acked]_vars
    <2> SUFFICES ASSUME IInv, [Next]_vars, NEW r \in Requests,
                        req'[r].state = "accepted", req[r].state = "asked"
                 PROVE  req[r].key \notin acked
      OBVIOUS
    <2>1. TypeOK
      BY DEF IInv
    <2>2. PICK w \in Workers : ValidateKey(w, r)
      BY <2>1 DEF Next, vars, CreateSchema, SkipLegacy, FetchLegacy, UpsertLegacy, Crash,
           CreateKey, RevokeKey, ValidateKey, PresentKey, EndRequest, OldCreateKey, OldRevokeKey,
           RetireOldPods, Tick, TypeOK, Idle
    <2>3. req[r] \in [state : {"asked", "accepted", "rejected"}, key : Keys]
      BY <2>1 DEF TypeOK, Request, Idle
    <2>4. req'[r] = [req[r] EXCEPT !.state =
                       IF Validates(app[req[r].key]) THEN "accepted" ELSE "rejected"]
      BY <2>1, <2>2 DEF ValidateKey, TypeOK
    <2>5. req'[r].state = IF Validates(app[req[r].key]) THEN "accepted" ELSE "rejected"
      BY <2>3, <2>4
    <2>6. IsActive(app[req[r].key])
      BY <2>5 DEF Validates
    <2> QED
      BY <2>6 DEF IInv, AckedRevoked, IsActive, IsRevoked
  <1> QED
    BY <1>1, Invariance, PTL DEF Spec, AcknowledgedMeansRefused

----------------------------------------------------------------------------
(* The store implements the registry.                                      *)

\* A row that moved forward is later in the life cycle.
LEMMA LifecycleForward ==
  ASSUME NEW a \in Row \cup {NoRow}, NEW b \in Row \cup {NoRow}, Grows(a, b)
  PROVE  /\ Lifecycle(b) \in Registry!Status
         /\ Lifecycle(b) \in Registry!Later(Lifecycle(a))
  BY DEF Grows, Lifecycle, IsActive, IsRevoked, Registry!Status, Registry!Later

\* The two notions of a verdict are the same.
LEMMA SameVerdicts ==
  /\ Registry!NoQuestion = Idle
  /\ \A row \in Row \cup {NoRow} : Validates(row) <=> Lifecycle(row) = "active"
  BY DEF Registry!NoQuestion, Idle, Validates, Lifecycle, IsActive

\* The store, seen through the life cycle of its rows, behaves as the registry does:
\* every statement a worker sends is a step of the registry or none at all.
THEOREM StoreImplementsRegistry == Spec => ImplementsRegistry
  <1>1. Init => Registry!Init
    <2> SUFFICES ASSUME Init PROVE Registry!Init
      OBVIOUS
    <2>1. \A k \in Keys : Lifecycle(app[k]) = "absent"
      BY DEF Init, EmptyTable, Lifecycle, IsActive
    <2>2. [k \in Keys |-> Lifecycle(app[k])] = [k \in Keys |-> "absent"]
      BY <2>1
    <2> QED
      BY <2>2, SameVerdicts DEF Init, Registry!Init
  <1>2. TypeOK /\ TypeOK' /\ [Next]_vars => [Registry!Next]_(Registry!vars)
    <2> SUFFICES ASSUME TypeOK, TypeOK', [Next]_vars
                 PROVE  [Registry!Next]_(Registry!vars)
      OBVIOUS
    <2> DEFINE status == [k \in Keys |-> Lifecycle(app[k])]
    <2>1. \A k \in Keys : /\ Lifecycle(app'[k]) \in Registry!Status
                          /\ Lifecycle(app'[k]) \in Registry!Later(Lifecycle(app[k]))
      <3> SUFFICES ASSUME NEW k \in Keys
                   PROVE  /\ Lifecycle(app'[k]) \in Registry!Status
                          /\ Lifecycle(app'[k]) \in Registry!Later(Lifecycle(app[k]))
        OBVIOUS
      <3>1. app[k] \in Row \cup {NoRow} /\ app'[k] \in Row \cup {NoRow}
        BY DEF TypeOK, Table
      <3>2. Grows(app[k], app'[k])
        BY AppGrows
      <3> QED
        BY <3>1, <3>2, LifecycleForward
    <2>2. CASE UNCHANGED req
      BY <2>1, <2>2 DEF Registry!Next, Registry!Advance, Registry!vars
    <2>3. ASSUME NEW w \in Workers, NEW r \in Requests, ValidateKey(w, r)
          PROVE  Registry!Decide(r)
      <3>1. req[r] \in [state : {"asked", "accepted", "rejected"}, key : Keys]
        BY <2>3 DEF ValidateKey, TypeOK, Request, Idle
      <3>2. app[req[r].key] \in Row \cup {NoRow}
        BY <3>1 DEF TypeOK, Table
      <3>3. Validates(app[req[r].key]) <=> status[req[r].key] = "active"
        BY <3>1, <3>2, SameVerdicts
      <3> QED
        BY <2>3, <3>3 DEF ValidateKey, Registry!Decide
    <2>4. ASSUME NEW r \in Requests, NEW k \in Keys, PresentKey(r, k)
          PROVE  Registry!Ask(r, k)
      BY <2>4, SameVerdicts DEF PresentKey, Registry!Ask
    <2>5. ASSUME NEW r \in Requests, EndRequest(r)
          PROVE  Registry!Forget(r)
      BY <2>5, SameVerdicts DEF EndRequest, Registry!Forget
    <2> QED
      BY <2>2, <2>3, <2>4, <2>5
         DEF Next, vars, CreateSchema, SkipLegacy, FetchLegacy, UpsertLegacy, Crash, CreateKey,
             RevokeKey, OldCreateKey, OldRevokeKey, RetireOldPods, Tick, Registry!Next
  <1> QED
    BY <1>1, <1>2, TypeCorrect, PTL DEF Spec, ImplementsRegistry, Registry!Spec
=============================================================================
