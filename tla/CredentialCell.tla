---------------------------- MODULE CredentialCell ----------------------------
(***************************************************************************)
(* What creds/anthropic.go promises its callers, without its mutex, its    *)
(* HTTP exchanges and its file operations: one credential that is replaced *)
(* as a whole and only by a newer grant, a copy of it on disk that a       *)
(* restart recovers, and requests that reach upstream at most twice, the   *)
(* second time with another bearer, and are then answered.                 *)
(* TokenSource implements this specification (TokenSource!CellSpec).       *)
(***************************************************************************)
CONSTANTS
  Requests,  \* the requests in the proxy
  Pairs,     \* the values of the credential: records [access, refresh]
  Initial    \* the pair the process starts from, one of Pairs

VARIABLES
  cell,    \* the credential in use
  disk,    \* the pair a restart recovers
  past,    \* the pairs that have been in use
  client   \* per request: how far it is and the bearer of its last attempt

cellVars == <<cell, disk, past, client>>

NoBearer == Initial.access
Idle == [phase |-> "idle", bearer |-> NoBearer]

Init ==
  /\ cell = Initial
  /\ disk = Initial
  /\ past = {Initial}
  /\ client = [r \in Requests |-> Idle]

\* A request is sent upstream with the bearer in use.
Ask(r) ==
  /\ client[r].phase = "idle"
  /\ client' = [client EXCEPT ![r] = [phase |-> "first", bearer |-> cell.access]]
  /\ UNCHANGED <<cell, disk, past>>

\* On behalf of a request whose first attempt was refused a grant replaces the
\* credential: its access token was never in use, and the refresh token is
\* rotated with it or kept.
Refresh(r) ==
  /\ client[r].phase = "first"
  /\ \E pair \in Pairs :
       /\ \A old \in past : pair.access # old.access
       /\ pair.refresh \in {pair.access, cell.refresh}
       /\ cell' = pair
       /\ past' = past \cup {pair}
  /\ UNCHANGED <<disk, client>>

\* The second and last attempt, with a bearer other than the refused one.
Again(r) ==
  /\ client[r].phase = "first"
  /\ cell.access # client[r].bearer
  /\ client' = [client EXCEPT ![r] = [phase |-> "second", bearer |-> cell.access]]
  /\ UNCHANGED <<cell, disk, past>>

\* The client gets a response or an error.
Answer(r) ==
  /\ client[r].phase # "idle"
  /\ client' = [client EXCEPT ![r] = Idle]
  /\ UNCHANGED <<cell, disk, past>>

\* A pair that was in use reaches the disk; nothing says it is the newest one.
Save ==
  /\ disk' \in past
  /\ UNCHANGED <<cell, past, client>>

\* The process ends and the next one starts from the disk.
Recover ==
  /\ cell' = disk
  /\ client' = [r \in Requests |-> Idle]
  /\ UNCHANGED <<disk, past>>

Next ==
  \/ \E r \in Requests : Ask(r) \/ Refresh(r) \/ Again(r) \/ Answer(r)
  \/ Save
  \/ Recover

SafeSpec == Init /\ [][Next]_cellVars

\* Every request is answered, unless the process ends first.
Spec == SafeSpec /\ \A r \in Requests : WF_cellVars(Answer(r))
=============================================================================
