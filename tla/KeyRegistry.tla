---------------------------- MODULE KeyRegistry ----------------------------
(***************************************************************************)
(* What the TEEHR API promises about API keys, without databases, workers  *)
(* or rollouts: a key is absent, then active, then revoked, in that order  *)
(* only, and a request that presents a key gets its verdict from the       *)
(* status the key has at one instant between the request and the answer.   *)
(***************************************************************************)
CONSTANTS Keys,      \* API keys (a key's id and its plaintext together)
          Requests   \* requests that present an API key

VARIABLES status,    \* status[k]: where key k is in its life
          verdict    \* verdict[r]: what the API decided about request r

vars == <<status, verdict>>

Status == {"absent", "active", "revoked"}

NoQuestion == [state |-> "idle"]

Verdicts == {NoQuestion} \cup [state : {"asked", "accepted", "rejected"}, key : Keys]

Init ==
  /\ status = [k \in Keys |-> "absent"]
  /\ verdict = [r \in Requests |-> NoQuestion]

\* A key never moves back: in particular nothing leaves "revoked".
Later(s) ==
  CASE s = "absent"  -> Status
    [] s = "active"  -> {"active", "revoked"}
    [] s = "revoked" -> {"revoked"}

\* Keys are created, imported or revoked, possibly several in one transaction.
Advance ==
  /\ status' \in [Keys -> Status]
  /\ \A k \in Keys : status'[k] \in Later(status[k])
  /\ UNCHANGED verdict

Ask(r, k) ==
  /\ verdict[r] = NoQuestion
  /\ verdict' = [verdict EXCEPT ![r] = [state |-> "asked", key |-> k]]
  /\ UNCHANGED status

\* The verdict is the status of the key at this very step.
Decide(r) ==
  /\ verdict[r].state = "asked"
  /\ verdict' = [verdict EXCEPT ![r].state =
                   IF status[verdict[r].key] = "active" THEN "accepted" ELSE "rejected"]
  /\ UNCHANGED status

\* The answer is delivered, or the request is dropped before one exists.
Forget(r) ==
  /\ verdict[r] # NoQuestion
  /\ verdict' = [verdict EXCEPT ![r] = NoQuestion]
  /\ UNCHANGED status

Next ==
  \/ Advance
  \/ \E r \in Requests : \/ \E k \in Keys : Ask(r, k)
                         \/ Decide(r)
                         \/ Forget(r)

Spec == Init /\ [][Next]_vars
=============================================================================
