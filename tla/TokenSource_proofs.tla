-------------------------- MODULE TokenSource_proofs --------------------------
(***************************************************************************)
(* Proofs about TokenSource for every set of requests, every bound and     *)
(* both kinds of OAuth endpoint.  The safety properties are proved from    *)
(* one inductive invariant, IInv; its central part says that the tokens of *)
(* a granted answer occur nowhere else until the answer is committed.      *)
(***************************************************************************)
EXTENDS TokenSource, TLAPS

Granted(r) == req[r].pc = "granted"

\* No token the process uses or ever held is newer than the last grant.
Issued ==
  /\ accessToken \in 0 .. issued
  /\ refreshToken \in 0 .. issued
  /\ held \subseteq [access: 0 .. issued, refresh: 0 .. issued]
  /\ \A r \in Requests :
       /\ req[r].sent \in {None} \cup 0 .. issued
       /\ req[r].stale \in {None} \cup 0 .. issued
       /\ req[r].rt \in {None} \cup 0 .. issued

\* The tokens of a grant that waits for commit occur nowhere else, and the
\* endpoint accepts its refresh token.
GrantUnseen ==
  \A r \in Requests : Granted(r) =>
    LET g == req[r].grant.access IN
    /\ g \in 1 .. issued
    /\ req[r].grant.refresh \in {None, g}
    /\ req[r].grant.refresh # None => g \in liveRefresh
    /\ g # accessToken /\ g # refreshToken
    /\ \A s \in Requests :
         /\ g # req[s].sent /\ g # req[s].stale /\ g # req[s].rt
         /\ s # r /\ Granted(s) => g # req[s].grant.access

\* Once stale is read, a bearer it differs from is not the current one.
StaleIsNewest ==
  \A r \in Requests :
    /\ req[r].pc \in {"sending", "refused", "posting", "granted"}
    /\ req[r].sent # req[r].stale
    => accessToken # req[r].sent

\* Between commit (or the skipped refresh) and the replay the current bearer is
\* one the request never carried.
BearerReplaced ==
  \A r \in Requests :
    req[r].pc \in {"committed", "writing", "retry"} =>
      accessToken \notin {req[r].sent, req[r].stale}

\* What is to be written to the file was in memory as one pair.
SavedWasHeld ==
  \A r \in Requests :
    req[r].pc \in {"committed", "writing"} => req[r].saved \in held

IInv ==
  /\ TypeOK /\ Issued /\ GrantUnseen /\ StaleIsNewest /\ BearerReplaced
  /\ SavedWasHeld /\ ReplayIsFresh /\ FilePairWasHeld /\ CredentialRefreshable

-----------------------------------------------------------------------------
(* Type correctness of a step *)

\* Every step keeps the types; Commit and RenameFile need the rest of IInv to
\* know that they store tokens and not None.
LEMMA StepTyped ==
  ASSUME IInv, NEW r \in Requests, Inject(r) \/ Step(r)
  PROVE  TypeOK'
<1>1. /\ TypeOK /\ req[r] \in Request
      /\ accessToken \in MaybeToken /\ refreshToken \in MaybeToken
  BY DEF IInv, TypeOK, MaybeToken
<1>2. CASE Inject(r)
  <2>1. Fresh \in Request
    BY BoundsAssumption
    DEF Fresh, Request, NoPair, MaybePair, MaybeToken, Phases, Replies
  <2>2. [Fresh EXCEPT !.pc = "injected", !.sent = accessToken] \in Request
    BY <1>1, <2>1 DEF Request, Phases
  <2>3. req' \in [Requests -> Request]
    BY <1>1, <1>2, <2>2 DEF Inject, TypeOK
  <2>4. QED BY <1>1, <1>2, <2>3 DEF Inject, TypeOK, memory, server, history
<1>3. CASE BodyFails(r)
  <2>1. [req[r] EXCEPT !.pc = "done", !.reply = "error"] \in Request
    BY <1>1 DEF Request, Phases, Replies
  <2>2. req' \in [Requests -> Request]
    BY <1>1, <1>3, <2>1 DEF BodyFails, Finish, TypeOK
  <2>3. QED BY <1>1, <1>3, <2>2 DEF BodyFails, TypeOK, memory, server, history
<1>4. CASE ReadStale(r)
  <2>1. [req[r] EXCEPT !.pc = "sending", !.stale = accessToken] \in Request
    BY <1>1 DEF Request, MaybeToken, Phases
  <2>2. req' \in [Requests -> Request]
    BY <1>1, <1>4, <2>1 DEF ReadStale, TypeOK
  <2>3. QED BY <1>1, <1>4, <2>2 DEF ReadStale, TypeOK, memory, server, history
<1>5. CASE FirstAttempt(r)
  <2>1. PICK reply \in {"answer", "error"} :
          req' = [req EXCEPT ![r].pc = "done", ![r].reply = reply]
    BY <1>5 DEF FirstAttempt, Finish
  <2>2. [req[r] EXCEPT !.pc = "done", !.reply = reply] \in Request
    BY <1>1 DEF Request, Phases, Replies
  <2>3. req' \in [Requests -> Request]
    BY <1>1, <2>1, <2>2 DEF FirstAttempt, TypeOK
  <2>4. QED BY <1>1, <1>5, <2>3 DEF FirstAttempt, TypeOK, memory, server, history
<1>6. CASE Refused(r)
  <2>1. [req[r] EXCEPT !.pc = "refused"] \in Request
    BY <1>1 DEF Request, Phases
  <2>2. req' \in [Requests -> Request]
    BY <1>1, <1>6, <2>1 DEF Refused, Go, TypeOK
  <2>3. QED BY <1>1, <1>6, <2>2 DEF Refused, TypeOK, memory, server, history
<1>7. CASE SnapshotSkips(r)
  <2>1. [req[r] EXCEPT !.pc = "retry"] \in Request
    BY <1>1 DEF Request, Phases
  <2>2. req' \in [Requests -> Request]
    BY <1>1, <1>7, <2>1 DEF SnapshotSkips, Go, TypeOK
  <2>3. QED BY <1>1, <1>7, <2>2 DEF SnapshotSkips, TypeOK, memory, server, history
<1>8. CASE SnapshotProceeds(r)
  <2>1. [req[r] EXCEPT !.pc = "posting", !.rt = refreshToken] \in Request
    BY <1>1 DEF Request, MaybeToken, Phases
  <2>2. req' \in [Requests -> Request]
    BY <1>1, <1>8, <2>1 DEF SnapshotProceeds, TypeOK
  <2>3. QED BY <1>1, <1>8, <2>2 DEF SnapshotProceeds, TypeOK, memory, server, history
<1>9. CASE Grant(r)
  <2>1. /\ issued' \in Tokens /\ issued' = issued + 1
        /\ liveRefresh' \subseteq 0 .. issued'
    BY <1>1, <1>9, BoundsAssumption DEF Grant, TypeOK, Tokens
  <2>2. PICK rotates \in BOOLEAN :
          req' = [req EXCEPT ![r].pc = "granted",
                             ![r].grant = [access |-> issued',
                               refresh |-> IF rotates THEN issued' ELSE None]]
    BY <1>9 DEF Grant
  <2>3. [req[r] EXCEPT !.pc = "granted",
                       !.grant = [access |-> issued',
                         refresh |-> IF rotates THEN issued' ELSE None]] \in Request
    BY <1>1, <2>1 DEF Request, Phases, MaybePair, MaybeToken
  <2>4. req' \in [Requests -> Request]
    BY <1>1, <2>2, <2>3 DEF TypeOK
  <2>5. QED BY <1>1, <1>9, <2>1, <2>4 DEF Grant, TypeOK, memory, history
<1>10. CASE PostFails(r)
  <2>1. [req[r] EXCEPT !.pc = "done", !.reply = "refreshFailed"] \in Request
    BY <1>1 DEF Request, Phases, Replies
  <2>2. req' \in [Requests -> Request]
    BY <1>1, <1>10, <2>1 DEF PostFails, Finish, TypeOK
  <2>3. QED BY <1>1, <1>10, <2>2 DEF PostFails, TypeOK, memory, server, history
<1>11. CASE LoseGrant(r)
  <2>1. [req[r] EXCEPT !.pc = "done", !.reply = "refreshFailed"] \in Request
    BY <1>1 DEF Request, Phases, Replies
  <2>2. req' \in [Requests -> Request]
    BY <1>1, <1>11, <2>1 DEF LoseGrant, Finish, TypeOK
  <2>3. QED BY <1>1, <1>11, <2>2 DEF LoseGrant, TypeOK, memory, server
<1>12. CASE Commit(r)
  <2> DEFINE grant == req[r].grant
             pair == [access |-> grant.access,
                      refresh |-> IF grant.refresh # None THEN grant.refresh
                                                          ELSE refreshToken]
  <2>1. pair \in Pair
    <3>1. grant.access \in 1 .. issued /\ grant.refresh \in {None, grant.access}
      BY <1>12 DEF Commit, IInv, GrantUnseen, Granted
    <3>2. issued \in Tokens /\ refreshToken \in Tokens
      BY <1>1 DEF TypeOK
    <3>3. grant.access \in Tokens
      BY <3>1, <3>2, BoundsAssumption DEF Tokens
    <3>4. QED BY <3>1, <3>2, <3>3 DEF Pair
  <2>2. [req[r] EXCEPT !.pc = IF path THEN "committed" ELSE "retry",
                       !.saved = pair] \in Request
    BY <1>1, <2>1 DEF Request, Phases, Pair, MaybePair, MaybeToken
  <2>3. req' \in [Requests -> Request]
    BY <1>1, <1>12, <2>2 DEF Commit, TypeOK
  <2>4. /\ accessToken' \in Tokens /\ refreshToken' \in Tokens
        /\ held' \subseteq Pair
    BY <1>1, <1>12, <2>1 DEF Commit, Pair, TypeOK
  <2>5. QED BY <1>1, <1>12, <2>3, <2>4 DEF Commit, TypeOK, server
<1>13. CASE ReadFile(r)
  <2>1. PICK edits \in {file.edits, 0} :
          req' = [req EXCEPT ![r].pc = "writing", ![r].edits = edits]
    BY <1>13 DEF ReadFile
  <2>2. edits \in 0 .. MaxEdits
    BY <1>1, BoundsAssumption DEF TypeOK
  <2>3. [req[r] EXCEPT !.pc = "writing", !.edits = edits] \in Request
    BY <1>1, <2>2 DEF Request, Phases
  <2>4. req' \in [Requests -> Request]
    BY <1>1, <2>1, <2>3 DEF TypeOK
  <2>5. QED BY <1>1, <1>13, <2>4 DEF ReadFile, TypeOK, memory, server, history
<1>14. CASE RenameFile(r)
  <2>1. file' \in [access: Tokens, refresh: Tokens, edits: 0 .. MaxEdits]
    BY <1>1, <1>14 DEF RenameFile, Go, IInv, SavedWasHeld, TypeOK, Pair, Request
  <2>2. [req[r] EXCEPT !.pc = "retry"] \in Request
    BY <1>1 DEF Request, Phases
  <2>3. req' \in [Requests -> Request]
    BY <1>1, <1>14, <2>2 DEF RenameFile, Go, TypeOK
  <2>4. QED
    BY <1>1, <1>14, <2>1, <2>3 DEF RenameFile, TypeOK, memory, server, history
<1>15. CASE WriteFails(r)
  <2>1. [req[r] EXCEPT !.pc = "done", !.reply = "refreshFailed"] \in Request
    BY <1>1 DEF Request, Phases, Replies
  <2>2. req' \in [Requests -> Request]
    BY <1>1, <1>15, <2>1 DEF WriteFails, Finish, TypeOK
  <2>3. QED BY <1>1, <1>15, <2>2 DEF WriteFails, TypeOK, memory, server, history
<1>16. CASE Reinject(r)
  <2>1. [req[r] EXCEPT !.pc = "resending", !.resent = accessToken] \in Request
    BY <1>1 DEF Request, MaybeToken, Phases
  <2>2. req' \in [Requests -> Request]
    BY <1>1, <1>16, <2>1 DEF Reinject, TypeOK
  <2>3. QED BY <1>1, <1>16, <2>2 DEF Reinject, TypeOK, memory, server, history
<1>17. CASE SecondAttempt(r)
  <2>1. PICK reply \in {"answer", "error"} :
          req' = [req EXCEPT ![r].pc = "done", ![r].reply = reply]
    BY <1>17 DEF SecondAttempt, Finish
  <2>2. [req[r] EXCEPT !.pc = "done", !.reply = reply] \in Request
    BY <1>1 DEF Request, Phases, Replies
  <2>3. req' \in [Requests -> Request]
    BY <1>1, <2>1, <2>2 DEF SecondAttempt, TypeOK
  <2>4. QED BY <1>1, <1>17, <2>3 DEF SecondAttempt, TypeOK, memory, server, history
<1>18. QED
  BY <1>2, <1>3, <1>4, <1>5, <1>6, <1>7, <1>8, <1>9, <1>10, <1>11, <1>12,
     <1>13, <1>14, <1>15, <1>16, <1>17 DEF Step

-----------------------------------------------------------------------------
(* A step on behalf of one request *)

\* Every step of RoundTrip and Refresh on behalf of a request keeps IInv.
LEMMA StepInv ==
  ASSUME IInv, NEW r \in Requests, Inject(r) \/ Step(r)
  PROVE  IInv'
<1> USE DEF IInv, TypeOK, Granted, None
<1>1. TypeOK'
  BY StepTyped
<1>2. CASE Inject(r)
  <2> USE <1>2 DEF Inject, Fresh, NoPair, memory, server, history
  <2>1. Issued'
    BY DEF Issued
  <2>2. GrantUnseen'
    BY DEF GrantUnseen, Issued
  <2>3. /\ (StaleIsNewest /\ BearerReplaced /\ SavedWasHeld /\ ReplayIsFresh)'
       /\ (FilePairWasHeld /\ CredentialRefreshable)'
    BY DEF StaleIsNewest, BearerReplaced, SavedWasHeld, ReplayIsFresh,
           FilePairWasHeld, CredentialRefreshable
  <2> QED BY <1>1, <2>1, <2>2, <2>3
<1>3. CASE BodyFails(r)
  <2> USE <1>3 DEF BodyFails, Finish, memory, server, history
  <2>1. (Issued /\ GrantUnseen /\ CredentialRefreshable)'
    BY DEF Issued, GrantUnseen, CredentialRefreshable
  <2>2. (StaleIsNewest /\ BearerReplaced /\ SavedWasHeld)'
    BY DEF StaleIsNewest, BearerReplaced, SavedWasHeld
  <2>3. (ReplayIsFresh /\ FilePairWasHeld)'
    BY DEF ReplayIsFresh, FilePairWasHeld
  <2> QED BY <1>1, <2>1, <2>2, <2>3
<1>4. CASE ReadStale(r)
  <2> USE <1>4 DEF ReadStale, memory, server, history
  <2>1. Issued'
    BY DEF Issued
  <2>2. GrantUnseen'
    BY DEF GrantUnseen
  <2>3. StaleIsNewest'
    BY DEF StaleIsNewest
  <2>4. /\ (BearerReplaced /\ SavedWasHeld /\ ReplayIsFresh)'
       /\ (FilePairWasHeld /\ CredentialRefreshable)'
    BY DEF BearerReplaced, SavedWasHeld, ReplayIsFresh, FilePairWasHeld,
           CredentialRefreshable
  <2> QED BY <1>1, <2>1, <2>2, <2>3, <2>4
<1>5. CASE FirstAttempt(r)
  <2> USE <1>5 DEF FirstAttempt, Finish, memory, server, history
  <2>1. (Issued /\ GrantUnseen /\ CredentialRefreshable)'
    BY DEF Issued, GrantUnseen, CredentialRefreshable
  <2>2. (StaleIsNewest /\ BearerReplaced /\ SavedWasHeld)'
    BY DEF StaleIsNewest, BearerReplaced, SavedWasHeld
  <2>3. (ReplayIsFresh /\ FilePairWasHeld)'
    BY DEF ReplayIsFresh, FilePairWasHeld
  <2> QED BY <1>1, <2>1, <2>2, <2>3
<1>6. CASE Refused(r)
  <2> USE <1>6 DEF Refused, Go, memory, server, history
  <2>1. (Issued /\ GrantUnseen /\ CredentialRefreshable)'
    BY DEF Issued, GrantUnseen, CredentialRefreshable
  <2>2. (StaleIsNewest /\ BearerReplaced /\ SavedWasHeld)'
    BY DEF StaleIsNewest, BearerReplaced, SavedWasHeld
  <2>3. (ReplayIsFresh /\ FilePairWasHeld)'
    BY DEF ReplayIsFresh, FilePairWasHeld
  <2> QED BY <1>1, <2>1, <2>2, <2>3
<1>7. CASE SnapshotSkips(r)
  <2> USE <1>7 DEF SnapshotSkips, Go, memory, server, history
  <2>1. BearerReplaced'
    BY DEF BearerReplaced, StaleIsNewest
  <2>2. /\ (Issued /\ GrantUnseen /\ StaleIsNewest /\ SavedWasHeld)'
       /\ (ReplayIsFresh /\ FilePairWasHeld /\ CredentialRefreshable)'
    BY DEF Issued, GrantUnseen, StaleIsNewest, SavedWasHeld, ReplayIsFresh,
           FilePairWasHeld, CredentialRefreshable
  <2> QED BY <1>1, <2>1, <2>2
<1>8. CASE SnapshotProceeds(r)
  <2> USE <1>8 DEF SnapshotProceeds, memory, server, history
  <2>1. Issued'
    BY DEF Issued
  <2>2. GrantUnseen'
    BY DEF GrantUnseen
  <2>3. /\ (StaleIsNewest /\ BearerReplaced /\ SavedWasHeld /\ ReplayIsFresh)'
       /\ (FilePairWasHeld /\ CredentialRefreshable)'
    BY DEF StaleIsNewest, BearerReplaced, SavedWasHeld, ReplayIsFresh,
           FilePairWasHeld, CredentialRefreshable
  <2> QED BY <1>1, <2>1, <2>2, <2>3
<1>9. CASE Grant(r)
  <2> USE <1>9 DEF Grant, Tokens, memory, history
  <2>1. Issued'
    BY DEF Issued
  <2>2. GrantUnseen'
    BY DEF GrantUnseen, Issued
  <2>3. CredentialRefreshable'
    BY DEF CredentialRefreshable, Issued, GrantUnseen
  <2>4. /\ (StaleIsNewest /\ BearerReplaced /\ SavedWasHeld)'
       /\ (ReplayIsFresh /\ FilePairWasHeld)'
    BY DEF StaleIsNewest, BearerReplaced, SavedWasHeld, ReplayIsFresh,
           FilePairWasHeld
  <2> QED BY <1>1, <2>1, <2>2, <2>3, <2>4
<1>10. CASE PostFails(r)
  <2> USE <1>10 DEF PostFails, Finish, memory, server, history
  <2>1. (Issued /\ GrantUnseen /\ CredentialRefreshable)'
    BY DEF Issued, GrantUnseen, CredentialRefreshable
  <2>2. (StaleIsNewest /\ BearerReplaced /\ SavedWasHeld)'
    BY DEF StaleIsNewest, BearerReplaced, SavedWasHeld
  <2>3. (ReplayIsFresh /\ FilePairWasHeld)'
    BY DEF ReplayIsFresh, FilePairWasHeld
  <2> QED BY <1>1, <2>1, <2>2, <2>3
<1>11. CASE LoseGrant(r)
  <2> USE <1>11 DEF LoseGrant, Finish, memory, server
  <2>1. CredentialRefreshable'
    BY DEF CredentialRefreshable
  <2>2. /\ (Issued /\ GrantUnseen /\ StaleIsNewest /\ BearerReplaced)'
       /\ (SavedWasHeld /\ ReplayIsFresh /\ FilePairWasHeld)'
    BY DEF Issued, GrantUnseen, StaleIsNewest, BearerReplaced, SavedWasHeld,
           ReplayIsFresh, FilePairWasHeld
  <2> QED BY <1>1, <2>1, <2>2
<1>12. CASE Commit(r)
  <2> USE <1>12 DEF Commit, Tokens, server
  <2>1. Issued'
    BY DEF Issued, GrantUnseen
  <2>2. GrantUnseen'
    BY DEF GrantUnseen
  <2>3. StaleIsNewest'
    BY DEF StaleIsNewest, GrantUnseen
  <2>4. BearerReplaced'
    BY DEF BearerReplaced, GrantUnseen
  <2>5. SavedWasHeld'
    BY DEF SavedWasHeld
  <2>6. FilePairWasHeld'
    BY DEF FilePairWasHeld
  <2>7. CredentialRefreshable'
    BY DEF CredentialRefreshable, GrantUnseen
  <2>8. (ReplayIsFresh)'
    BY DEF ReplayIsFresh
  <2> QED BY <1>1, <2>1, <2>2, <2>3, <2>4, <2>5, <2>6, <2>7, <2>8
<1>13. CASE ReadFile(r)
  <2> USE <1>13 DEF ReadFile, memory, server, history
  <2>1. (Issued /\ GrantUnseen /\ CredentialRefreshable)'
    BY DEF Issued, GrantUnseen, CredentialRefreshable
  <2>2. (StaleIsNewest /\ BearerReplaced /\ SavedWasHeld)'
    BY DEF StaleIsNewest, BearerReplaced, SavedWasHeld
  <2>3. (ReplayIsFresh /\ FilePairWasHeld)'
    BY DEF ReplayIsFresh, FilePairWasHeld
  <2> QED BY <1>1, <2>1, <2>2, <2>3
<1>14. CASE RenameFile(r)
  <2> USE <1>14 DEF RenameFile, Go, memory, server, history
  <2>1. FilePairWasHeld'
    BY DEF FilePairWasHeld, SavedWasHeld, Pair
  <2>2. /\ (Issued /\ GrantUnseen /\ StaleIsNewest /\ BearerReplaced)'
       /\ (SavedWasHeld /\ ReplayIsFresh /\ CredentialRefreshable)'
    BY DEF Issued, GrantUnseen, StaleIsNewest, BearerReplaced, SavedWasHeld,
           ReplayIsFresh, CredentialRefreshable
  <2> QED BY <1>1, <2>1, <2>2
<1>15. CASE WriteFails(r)
  <2> USE <1>15 DEF WriteFails, Finish, memory, server, history
  <2>1. (Issued /\ GrantUnseen /\ CredentialRefreshable)'
    BY DEF Issued, GrantUnseen, CredentialRefreshable
  <2>2. (StaleIsNewest /\ BearerReplaced /\ SavedWasHeld)'
    BY DEF StaleIsNewest, BearerReplaced, SavedWasHeld
  <2>3. (ReplayIsFresh /\ FilePairWasHeld)'
    BY DEF ReplayIsFresh, FilePairWasHeld
  <2> QED BY <1>1, <2>1, <2>2, <2>3
<1>16. CASE Reinject(r)
  <2> USE <1>16 DEF Reinject, memory, server, history
  <2>1. ReplayIsFresh'
    BY DEF ReplayIsFresh, BearerReplaced
  <2>2. /\ (Issued /\ GrantUnseen /\ StaleIsNewest /\ BearerReplaced)'
       /\ (SavedWasHeld /\ FilePairWasHeld /\ CredentialRefreshable)'
    BY DEF Issued, GrantUnseen, StaleIsNewest, BearerReplaced, SavedWasHeld,
           FilePairWasHeld, CredentialRefreshable
  <2> QED BY <1>1, <2>1, <2>2
<1>17. CASE SecondAttempt(r)
  <2> USE <1>17 DEF SecondAttempt, Finish, memory, server, history
  <2>1. (Issued /\ GrantUnseen /\ CredentialRefreshable)'
    BY DEF Issued, GrantUnseen, CredentialRefreshable
  <2>2. (StaleIsNewest /\ BearerReplaced /\ SavedWasHeld)'
    BY DEF StaleIsNewest, BearerReplaced, SavedWasHeld
  <2>3. (ReplayIsFresh /\ FilePairWasHeld)'
    BY DEF ReplayIsFresh, FilePairWasHeld
  <2> QED BY <1>1, <2>1, <2>2, <2>3
<1>18. QED
  BY <1>2, <1>3, <1>4, <1>5, <1>6, <1>7, <1>8, <1>9, <1>10, <1>11, <1>12,
     <1>13, <1>14, <1>15, <1>16, <1>17 DEF Step

\* A restart from the file keeps IInv: the file holds a pair that was held.
LEMMA RestartInv == ASSUME IInv, Restart PROVE IInv'
<1> USE DEF IInv, TypeOK, Granted, None, Restart, Fresh, NoPair, server
<1>1. Fresh \in Request
  BY BoundsAssumption DEF Request, MaybePair, MaybeToken, Phases, Replies
<1>2. TypeOK'
  BY <1>1
<1>3. Issued'
  BY DEF Issued, FilePairWasHeld
<1>4. CredentialRefreshable'
  BY DEF CredentialRefreshable
<1>5. /\ (GrantUnseen /\ StaleIsNewest /\ BearerReplaced)'
     /\ (SavedWasHeld /\ ReplayIsFresh /\ FilePairWasHeld)'
  BY DEF GrantUnseen, StaleIsNewest, BearerReplaced, SavedWasHeld,
         ReplayIsFresh, FilePairWasHeld
<1> QED BY <1>1, <1>2, <1>3, <1>4, <1>5

\* An edit of the file's other fields by the CLI keeps IInv.
LEMMA CliEditsInv == ASSUME IInv, CliEdits PROVE IInv'
<1> USE DEF IInv, TypeOK, Granted, None, CliEdits, memory, server, history
<1>1. TypeOK'
  BY BoundsAssumption
<1>2. /\ (Issued /\ GrantUnseen /\ StaleIsNewest /\ BearerReplaced)'
     /\ (SavedWasHeld /\ ReplayIsFresh /\ FilePairWasHeld /\ CredentialRefreshable)'
  BY DEF Issued, GrantUnseen, StaleIsNewest, BearerReplaced, SavedWasHeld,
         ReplayIsFresh, FilePairWasHeld, CredentialRefreshable
<1> QED BY <1>1, <1>2

-----------------------------------------------------------------------------
(* The invariant and what follows from it *)

\* NewTokenSource establishes IInv.
LEMMA InitInv == Init => IInv
<1> SUFFICES ASSUME Init PROVE IInv
  OBVIOUS
<1> USE DEF Init, InitialPair, Fresh, NoPair, None, Tokens
<1>1. Fresh \in Request
  BY BoundsAssumption DEF Request, MaybePair, MaybeToken, Phases, Replies
<1>2. TypeOK
  <2>1. 0 \in Tokens /\ 0 \in 0 .. MaxEdits
    BY BoundsAssumption
  <2>2. req \in [Requests -> Request] /\ held \subseteq Pair
    <3> HIDE DEF Fresh, Tokens
    <3> QED BY <1>1, <2>1 DEF Pair
  <2>3. file \in [access: Tokens, refresh: Tokens, edits: 0 .. MaxEdits]
    <3> HIDE DEF Tokens
    <3> QED BY <2>1
  <2>4. liveRefresh \subseteq 0 .. issued
    OBVIOUS
  <2>5. /\ accessToken \in Tokens /\ refreshToken \in Tokens
        /\ issued \in Tokens /\ path \in BOOLEAN
        /\ lost \in BOOLEAN
    BY <2>1
  <2>6. QED
    <3> HIDE DEF Init, Tokens
    <3> QED BY <2>2, <2>3, <2>4, <2>5 DEF TypeOK
<1>3. Issued /\ GrantUnseen /\ CredentialRefreshable
  BY DEF Issued, GrantUnseen, CredentialRefreshable, Granted
<1>4. StaleIsNewest /\ BearerReplaced /\ SavedWasHeld
  BY DEF StaleIsNewest, BearerReplaced, SavedWasHeld
<1>5. ReplayIsFresh /\ FilePairWasHeld
  BY DEF ReplayIsFresh, FilePairWasHeld
<1> QED BY <1>2, <1>3, <1>4, <1>5 DEF IInv

\* Every conjunct of IInv holds in every reachable state: the steps of the
\* requests, a restart and an edit by the CLI all keep it.
THEOREM Invariance == Spec => []IInv
<1>1. IInv /\ [Next]_vars => IInv'
  <2> SUFFICES ASSUME IInv, [Next]_vars PROVE IInv'
    OBVIOUS
  <2>1. CASE \E r \in Requests : Inject(r) \/ Step(r)
    BY <2>1, StepInv
  <2>2. CASE CliEdits
    BY <2>2, CliEditsInv
  <2>3. CASE Restart
    BY <2>3, RestartInv
  <2>4. CASE UNCHANGED vars
    BY <2>4 DEF vars, memory, server, history, IInv, TypeOK, Issued,
      GrantUnseen, StaleIsNewest, BearerReplaced, SavedWasHeld, ReplayIsFresh,
      FilePairWasHeld, CredentialRefreshable, Granted
  <2>5. QED BY <2>1, <2>2, <2>3, <2>4 DEF Next
<1>2. QED BY InitInv, <1>1, PTL DEF Spec

\* The variables keep their types; for req this includes that commit installs,
\* and writeCredentialsFile saves, tokens and never an empty string.
THEOREM TypeCorrect == Spec => []TypeOK
BY Invariance, PTL DEF IInv

\* RoundTrip's replay carries neither the bearer of the first attempt nor the
\* one read as stale.
THEOREM ReplayFresh == Spec => []ReplayIsFresh
BY Invariance, PTL DEF IInv

\* The file always holds a pair that the TokenSource held as a whole.
THEOREM FileConsistent == Spec => []FilePairWasHeld
BY Invariance, PTL DEF IInv

\* The credential stays refreshable unless a granted answer is lost.
THEOREM Refreshable == Spec => []CredentialRefreshable
BY Invariance, PTL DEF IInv

-----------------------------------------------------------------------------
(* The refinement of CredentialCell *)

\* A grant that waits for commit brings an access token that was never in use.
GrantIsNew ==
  \A r \in Requests : Granted(r) =>
    \A old \in held : old.access # req[r].grant.access

\* What all clients see, as Cell's mapping has it.
Views == [r \in Requests |-> ClientView(r)]

\* GrantIsNew holds always: grants are numbered, and each is committed once.
LEMMA GrantIsNewInvariant == Spec => []GrantIsNew
<1>1. Init => GrantIsNew
  BY DEF Init, GrantIsNew, Granted, Fresh
<1>2. IInv /\ GrantIsNew /\ [Next]_vars => GrantIsNew'
  <2> SUFFICES ASSUME IInv, GrantIsNew, [Next]_vars PROVE GrantIsNew'
    OBVIOUS
  <2> USE DEF GrantIsNew, Granted, IInv, TypeOK
  <2>1. ASSUME NEW r \in Requests, Grant(r) PROVE GrantIsNew'
    BY <2>1 DEF Grant, Issued, history, Tokens
  <2>2. ASSUME NEW r \in Requests, Commit(r) PROVE GrantIsNew'
    BY <2>2 DEF Commit, GrantUnseen
  <2>3. ASSUME NEW r \in Requests, UNCHANGED held,
               \A q \in Requests :
                 req'[q].pc = "granted" => req'[q].grant = req[q].grant
                                        /\ req[q].pc = "granted"
        PROVE  GrantIsNew'
    BY <2>3
  <2>4. ASSUME NEW r \in Requests,
               Inject(r) \/ (Step(r) /\ ~Grant(r) /\ ~Commit(r))
        PROVE  GrantIsNew'
    <3>1. UNCHANGED held
      BY <2>4 DEF Inject, Step, BodyFails, ReadStale, FirstAttempt, Refused,
        SnapshotSkips, SnapshotProceeds, PostFails, LoseGrant, ReadFile,
        RenameFile, WriteFails, Reinject, SecondAttempt, history
    <3>2. ASSUME NEW q \in Requests
          PROVE  req'[q] = req[q] \/ req'[q].pc # "granted"
      <4> HIDE DEF GrantIsNew, IInv
      <4>0. req \in [Requests -> Request]
        BY DEF IInv
      <4> HIDE DEF TypeOK
      <4>1. CASE Inject(r)
        BY <4>1 DEF Inject
      <4>2. CASE BodyFails(r) \/ FirstAttempt(r) \/ PostFails(r) \/ LoseGrant(r)
        BY <4>0, <4>2 DEF BodyFails, FirstAttempt, PostFails, LoseGrant, Finish,
          Request
      <4>3. CASE WriteFails(r) \/ SecondAttempt(r)
        BY <4>0, <4>3 DEF WriteFails, SecondAttempt, Finish, Request
      <4>4. CASE Refused(r) \/ SnapshotSkips(r) \/ RenameFile(r)
        BY <4>0, <4>4 DEF Refused, SnapshotSkips, RenameFile, Go, Request
      <4>5. CASE ReadStale(r) \/ SnapshotProceeds(r)
        BY <4>0, <4>5 DEF ReadStale, SnapshotProceeds, Request
      <4>6. CASE ReadFile(r) \/ Reinject(r)
        BY <4>0, <4>6 DEF ReadFile, Reinject, Request
      <4>7. QED BY <2>4, <4>1, <4>2, <4>3, <4>4, <4>5, <4>6 DEF Step
    <3>3. QED BY <2>3, <3>1, <3>2
  <2>5. CASE CliEdits \/ Restart \/ UNCHANGED vars
    BY <2>5 DEF CliEdits, Restart, Fresh, vars, history
  <2>6. QED
    <3> HIDE DEF GrantIsNew, IInv
    <3> QED BY <2>1, <2>2, <2>4, <2>5 DEF Next
<1>3. QED BY <1>1, <1>2, Invariance, PTL DEF Spec

\* A step of one request leaves the others as they are, and as their clients
\* see them.
LEMMA OneView ==
  ASSUME TypeOK, NEW r \in Requests, Inject(r) \/ Step(r)
  PROVE  /\ \A s \in Requests \ {r} : req'[s] = req[s]
         /\ Views' = [Views EXCEPT ![r] = ClientView(r)']
<1>0. req \in [Requests -> Request]
  BY DEF TypeOK
<1>1. ASSUME NEW s \in Requests \ {r} PROVE req'[s] = req[s]
  <2>1. CASE Inject(r) \/ ReadStale(r) \/ SnapshotProceeds(r) \/ Grant(r)
    BY <1>0, <2>1 DEF Inject, ReadStale, SnapshotProceeds, Grant
  <2>2. CASE BodyFails(r) \/ FirstAttempt(r) \/ PostFails(r) \/ LoseGrant(r)
    BY <1>0, <2>2 DEF BodyFails, FirstAttempt, PostFails, LoseGrant, Finish
  <2>3. CASE WriteFails(r) \/ SecondAttempt(r)
    BY <1>0, <2>3 DEF WriteFails, SecondAttempt, Finish
  <2>4. CASE Refused(r) \/ SnapshotSkips(r) \/ RenameFile(r)
    BY <1>0, <2>4 DEF Refused, SnapshotSkips, RenameFile, Go
  <2>5. CASE Commit(r) \/ ReadFile(r) \/ Reinject(r)
    BY <1>0, <2>5 DEF Commit, ReadFile, Reinject
  <2>6. QED BY <2>1, <2>2, <2>3, <2>4, <2>5 DEF Step
<1>2. \A s \in Requests \ {r} : ClientView(s)' = ClientView(s)
  BY <1>1 DEF ClientView
<1>3. QED
  <2> HIDE DEF ClientView
  <2> QED BY <1>1, <1>2 DEF Views

\* A step that leaves the credential, its history, the pair in the file and how
\* far the clients see their requests alone is a stuttering step of Cell.
LEMMA Invisible ==
  ASSUME IInv, NEW r \in Requests,
         \/ ReadStale(r) \/ Refused(r) \/ SnapshotSkips(r) \/ SnapshotProceeds(r)
         \/ Grant(r) \/ ReadFile(r)
  PROVE  UNCHANGED Cell!cellVars
<1> USE DEF IInv, memory, server, history
<1>1. UNCHANGED <<accessToken, refreshToken, held, file>>
  BY DEF ReadStale, Refused, SnapshotSkips, SnapshotProceeds, Grant, ReadFile
<1>2. /\ req'[r].sent = req[r].sent
      /\ req'[r].pc \notin {"idle", "done", "resending"}
      /\ req[r].pc \notin {"idle", "done", "resending"}
  <2>1. req \in [Requests -> Request]
    BY DEF TypeOK
  <2>2. CASE Refused(r) \/ SnapshotSkips(r)
    BY <2>1, <2>2 DEF Refused, SnapshotSkips, Go, Request
  <2>3. CASE ReadStale(r) \/ SnapshotProceeds(r)
    BY <2>1, <2>3 DEF ReadStale, SnapshotProceeds, Request
  <2>4. CASE Grant(r)
    <3>1. PICK grant : req' = [req EXCEPT ![r].pc = "granted", ![r].grant = grant]
      BY <2>4 DEF Grant
    <3>2. req[r].pc = "posting"
      BY <2>4 DEF Grant
    <3>3. QED BY <2>1, <3>1, <3>2 DEF Request
  <2>5. CASE ReadFile(r)
    BY <2>1, <2>5 DEF ReadFile, Request
  <2>6. QED BY <2>2, <2>3, <2>4, <2>5
<1>3. ClientView(r)' = ClientView(r)
  BY <1>2 DEF ClientView
<1>4. Views' = Views
  <2> HIDE DEF ClientView
  <2> QED BY <1>3, OneView DEF Views, Step
<1>5. QED
  BY <1>1, <1>4 DEF Cell!cellVars, Views

\* Every step of TokenSource is a step of CredentialCell or invisible there.
LEMMA StepRefines ==
  ASSUME IInv, GrantIsNew, [Next]_vars
  PROVE  [Cell!Next]_(Cell!cellVars)
<1> USE DEF IInv, memory, server, history
<1>0. req \in [Requests -> Request]
  BY DEF TypeOK
<1>1. ASSUME NEW r \in Requests, Inject(r) PROVE Cell!Ask(r)
  <2>1. req'[r].pc = "injected" /\ req'[r].sent = accessToken
    BY <1>0, <1>1 DEF Inject, Fresh
  <2>2. ClientView(r)' = [phase |-> "first", bearer |-> accessToken]
    BY <2>1 DEF ClientView
  <2>3. Views[r].phase = "idle"
    BY <1>1 DEF Inject, ClientView, Views
  <2>4. QED
    <3> HIDE DEF ClientView, IInv
    <3>1. Views' = [Views EXCEPT ![r] = ClientView(r)']
      BY <1>1, OneView DEF IInv
    <3>2. UNCHANGED <<accessToken, refreshToken, file, held>>
      BY <1>1 DEF Inject
    <3>3. QED BY <2>2, <2>3, <3>1, <3>2 DEF Cell!Ask, Views
<1>2. ASSUME NEW r \in Requests, Commit(r) PROVE Cell!Refresh(r)
  <2> DEFINE pair == [access |-> accessToken', refresh |-> refreshToken']
  <2>1. /\ req'[r].sent = req[r].sent /\ req'[r].pc \in {"committed", "retry"}
        /\ req[r].pc = "granted"
    BY <1>0, <1>2 DEF Commit, Request
  <2>2. ClientView(r)' = ClientView(r) /\ ClientView(r).phase = "first"
    BY <2>1 DEF ClientView
  <2>3. Views' = Views /\ Views[r].phase = "first"
    <3> HIDE DEF ClientView
    <3> QED BY <1>2, <2>2, OneView DEF Views, Step
  <2>4. /\ pair \in Pair /\ held' = held \cup {pair}
        /\ pair.refresh \in {pair.access, refreshToken}
    <3>1. accessToken' \in Tokens /\ refreshToken' \in Tokens
      BY <1>2, StepTyped DEF Step, TypeOK
    <3>2. pair \in Pair
      BY <3>1 DEF Pair
    <3>3. req[r].grant.refresh \in {None, req[r].grant.access}
      BY <1>2 DEF Commit, GrantUnseen, Granted
    <3>4. QED BY <1>2, <3>2, <3>3 DEF Commit
  <2>5. \A old \in held : pair.access # old.access
    BY <1>2 DEF GrantIsNew, Granted, Commit
  <2>6. UNCHANGED file
    BY <1>2 DEF Commit
  <2>7. QED BY <2>2, <2>3, <2>4, <2>5, <2>6 DEF Cell!Refresh, Views
<1>3. ASSUME NEW r \in Requests, Reinject(r) PROVE Cell!Again(r)
  <2>1. /\ req'[r].pc = "resending" /\ req'[r].resent = accessToken
        /\ req[r].pc = "retry"
    BY <1>0, <1>3 DEF Reinject, Request
  <2>2. /\ ClientView(r)' = [phase |-> "second", bearer |-> accessToken]
        /\ ClientView(r) = [phase |-> "first", bearer |-> req[r].sent]
    BY <2>1 DEF ClientView
  <2>3. accessToken # req[r].sent
    BY <1>3 DEF BearerReplaced, Reinject
  <2>4. QED
    <3> HIDE DEF ClientView, IInv
    <3>1. Views' = [Views EXCEPT ![r] = ClientView(r)']
      BY <1>3, OneView DEF Step, IInv
    <3>2. UNCHANGED <<accessToken, refreshToken, file, held>>
      BY <1>3 DEF Reinject
    <3>3. QED BY <2>2, <2>3, <3>1, <3>2 DEF Cell!Again, Views
<1>4. ASSUME NEW r \in Requests,
             \/ BodyFails(r) \/ FirstAttempt(r) \/ PostFails(r)
             \/ LoseGrant(r) \/ WriteFails(r) \/ SecondAttempt(r)
      PROVE  Cell!Answer(r)
  <2>1. req'[r].pc = "done"
    BY <1>0, <1>4 DEF BodyFails, FirstAttempt, PostFails, LoseGrant, WriteFails,
      SecondAttempt, Finish, Request
  <2>2. ClientView(r)' = Cell!Idle
    BY <2>1 DEF ClientView, Cell!Idle, Cell!NoBearer, InitialPair
  <2>3. Views[r].phase # "idle"
    BY <1>4 DEF BodyFails, FirstAttempt, PostFails, LoseGrant, WriteFails,
      SecondAttempt, Views, ClientView
  <2>4. UNCHANGED <<accessToken, refreshToken, file, held>>
    BY <1>4 DEF BodyFails, FirstAttempt, PostFails, LoseGrant, WriteFails,
      SecondAttempt
  <2>5. QED
    <3> HIDE DEF ClientView, IInv
    <3>1. Views' = [Views EXCEPT ![r] = ClientView(r)']
      BY <1>4, OneView DEF Step, IInv
    <3>2. QED BY <2>2, <2>3, <2>4, <3>1 DEF Cell!Answer, Views
<1>5. ASSUME NEW r \in Requests, RenameFile(r) PROVE Cell!Save
  <2>1. /\ req'[r].sent = req[r].sent /\ req'[r].pc = "retry"
        /\ req[r].pc = "writing"
    BY <1>0, <1>5 DEF RenameFile, Go, Request
  <2>2. Views' = Views
    <3>1. ClientView(r)' = ClientView(r)
      BY <2>1 DEF ClientView
    <3> HIDE DEF ClientView
    <3>2. QED BY <1>5, <3>1, OneView DEF Step, Views
  <2>3. [access |-> file'.access, refresh |-> file'.refresh] \in held
    BY <1>5 DEF RenameFile, Go, SavedWasHeld, TypeOK, Pair
  <2>4. UNCHANGED <<accessToken, refreshToken, held>>
    BY <1>5 DEF RenameFile
  <2>5. QED BY <2>2, <2>3, <2>4 DEF Cell!Save, Views
<1>6. CASE Restart
  <2>1. Views' = [s \in Requests |-> Cell!Idle]
    BY <1>6 DEF Restart, Fresh, Views, ClientView, Cell!Idle, Cell!NoBearer,
      InitialPair
  <2>2. QED
    BY <1>6, <2>1 DEF Restart, Cell!Next, Cell!Recover, Views
<1>7. CASE CliEdits \/ UNCHANGED vars
  <2>1. UNCHANGED <<accessToken, refreshToken, held, req>>
    BY <1>7 DEF CliEdits, vars
  <2>2. Views' = Views
    BY <2>1 DEF Views, ClientView
  <2>3. file'.access = file.access /\ file'.refresh = file.refresh
    BY <1>7 DEF CliEdits, vars, TypeOK
  <2>4. QED BY <2>1, <2>2, <2>3 DEF Cell!cellVars, Views
<1>8. QED
  BY <1>1, <1>2, <1>3, <1>4, <1>5, <1>6, <1>7, Invisible
  DEF Next, Step, Cell!Next

\* Whatever requests, grants, file operations and restarts interleave, the
\* credential behaves like one atomic cell (creds/anthropic.go): the safety part
\* of CellSpec.
THEOREM CellImplemented == Spec => Cell!SafeSpec
<1>1. Init => Cell!Init
  BY DEF Init, Cell!Init, Cell!Idle, Cell!NoBearer, ClientView, Fresh, InitialPair
<1>2. QED
  BY <1>1, StepRefines, Invariance, GrantIsNewInvariant, PTL
  DEF Spec, Cell!SafeSpec
=============================================================================
