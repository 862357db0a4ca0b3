----------------------------- MODULE TokenSource -----------------------------
(***************************************************************************)
(* The live Anthropic OAuth credential of one proxy process                *)
(* (creds/anthropic.go): TokenSource holds an access and a refresh token   *)
(* under a mutex, RefreshTransport sends a request, refreshes the          *)
(* credential when upstream answers 401 and replays the request once, and  *)
(* writeCredentialsFile persists a refreshed pair in                       *)
(* ~/.claude/.credentials.json.                                            *)
(*                                                                         *)
(* Every request is a goroutine.  Its phase pc names the point it has      *)
(* reached; a step is one critical section of TokenSource.mu, one call to  *)
(* the network or one visible change of the file.  The OAuth endpoint, the *)
(* API and the host's claude CLI (which owns the file's other fields) are  *)
(* external.                                                               *)
(*                                                                         *)
(* A token is the number of the grant that issued it: grant 0 is the pair  *)
(* the process starts from, and grant g is the endpoint's g-th answer.     *)
(* TokenSource.lastRefresh is written and never read by the code, so it is *)
(* not part of the state.                                                  *)
(***************************************************************************)
EXTENDS Integers

CONSTANTS
  Requests,   \* the requests (goroutines) in the proxy
  SingleUse,  \* whether a rotated refresh token stops being accepted
  MaxGrants,  \* bound: grants the OAuth endpoint issues
  MaxEdits    \* bound: edits the claude CLI makes to the file's other fields

ASSUME SingleUseAssumption == SingleUse \in BOOLEAN
ASSUME BoundsAssumption == MaxGrants \in Nat /\ MaxEdits \in Nat

None == -1
Tokens == 0 .. MaxGrants
MaybeToken == Tokens \cup {None}
Pair == [access: Tokens, refresh: Tokens]
MaybePair == [access: MaybeToken, refresh: MaybeToken]
NoPair == [access |-> None, refresh |-> None]
InitialPair == [access |-> 0, refresh |-> 0]

VARIABLES
  accessToken,   \* TokenSource.accessToken
  refreshToken,  \* TokenSource.refreshToken
  path,          \* TokenSource.path # ""
  file,          \* .credentials.json: its token pair and a version of the rest
  req,           \* per request: its phase and the locals of RoundTrip, Refresh
  issued,        \* OAuth endpoint: number of grants so far
  liveRefresh,   \* OAuth endpoint: refresh tokens it accepts
  held,          \* history: the pairs TokenSource has held
  lost           \* history: a granted refresh token was dropped on the way

memory == <<accessToken, refreshToken>>
server == <<issued, liveRefresh>>
history == <<held, lost>>
vars == <<memory, path, file, req, server, history>>

Phases == {"idle", "injected", "sending", "refused", "posting", "granted",
           "committed", "writing", "retry", "resending", "done"}

Replies == {"none", "answer", "error", "refreshFailed"}

\* sent and resent are the bearers of the first and the second attempt, stale
\* and rt are RoundTrip's and Refresh's locals, grant is the endpoint's answer,
\* saved is what commit returned, edits what writeCredentialsFile read.
Request ==
  [pc: Phases, sent: MaybeToken, stale: MaybeToken, rt: MaybeToken,
   grant: MaybePair, saved: MaybePair, edits: 0 .. MaxEdits,
   resent: MaybeToken, reply: Replies]

Fresh ==
  [pc |-> "idle", sent |-> None, stale |-> None, rt |-> None,
   grant |-> NoPair, saved |-> NoPair, edits |-> 0, resent |-> None,
   reply |-> "none"]

TypeOK ==
  /\ accessToken \in Tokens
  /\ refreshToken \in Tokens
  /\ path \in BOOLEAN
  /\ file \in [access: Tokens, refresh: Tokens, edits: 0 .. MaxEdits]
  /\ req \in [Requests -> Request]
  /\ issued \in Tokens
  /\ liveRefresh \subseteq 0 .. issued
  /\ held \subseteq Pair
  /\ lost \in BOOLEAN

\* NewTokenSource, seeded with the pair LoadAnthropicCredentials found in the
\* file (path set) or with the pair of the command line (path empty; the file
\* record then stands for the command line and nothing writes it).  Both tokens
\* are non-empty: the callers build a TokenSource only then, so snapshot's
\* "no refresh token available" cannot happen.
Init ==
  /\ accessToken = InitialPair.access
  /\ refreshToken = InitialPair.refresh
  /\ path \in BOOLEAN
  /\ file = [access |-> 0, refresh |-> 0, edits |-> 0]
  /\ req = [r \in Requests |-> Fresh]
  /\ issued = 0
  /\ liveRefresh = {0}
  /\ held = {InitialPair}
  /\ lost = FALSE

-----------------------------------------------------------------------------
(* RefreshTransport.RoundTrip and the reverse proxy around it *)

Go(r, from, to) ==
  /\ req[r].pc = from
  /\ req' = [req EXCEPT ![r].pc = to]

Finish(r, reply) ==
  req' = [req EXCEPT ![r].pc = "done", ![r].reply = reply]

(* Faulty variants of the actions below, for the mutants of PROJECT.json. *)

\* A refresh that fails falls back to the pair in the file.
PostFailsReloads(r) ==
  /\ req[r].pc = "posting"
  /\ Finish(r, "refreshFailed")
  /\ accessToken' = file.access
  /\ refreshToken' = file.refresh
  /\ UNCHANGED <<path, file, server, history>>

\* commit without its test for an empty refresh token.
CommitForgetsRefresh(r) ==
  LET pair == req[r].grant
  IN /\ req[r].pc = "granted"
     /\ accessToken' = pair.access
     /\ refreshToken' = pair.refresh
     /\ held' = held \cup {pair}
     /\ req' = [req EXCEPT ![r].pc = IF path THEN "committed" ELSE "retry",
                           ![r].saved = pair]
     /\ UNCHANGED <<path, file, server, lost>>

\* commit that leaves the rotated refresh token out of the memory.
CommitKeepsRefresh(r) ==
  LET pair == [access |-> req[r].grant.access, refresh |-> refreshToken]
  IN /\ req[r].pc = "granted"
     /\ accessToken' = pair.access
     /\ held' = held \cup {pair}
     /\ req' = [req EXCEPT ![r].pc = IF path THEN "committed" ELSE "retry",
                           ![r].saved = pair]
     /\ UNCHANGED <<refreshToken, path, file, server, lost>>

\* writeCredentialsFile called with Refresh's own rt where commit's result is
\* meant: the refresh token of before the lock was released.
RenameStaleRefresh(r) ==
  /\ Go(r, "writing", "retry")
  /\ file' = [access |-> req[r].saved.access, refresh |-> req[r].rt,
              edits |-> req[r].edits]
  /\ UNCHANGED <<memory, path, server, history>>

\* The clone keeps the header of the first attempt.
ReinjectKeepsBearer(r) ==
  /\ req[r].pc = "retry"
  /\ req' = [req EXCEPT ![r].pc = "resending", ![r].resent = req[r].sent]
  /\ UNCHANGED <<memory, path, file, server, history>>

\* The Director's inject: the outgoing request carries the bearer of now.
Inject(r) ==
  /\ req[r].pc \in {"idle", "done"}
  /\ req' = [req EXCEPT ![r] = [Fresh EXCEPT !.pc = "injected",
                                             !.sent = accessToken]]
  /\ UNCHANGED <<memory, path, file, server, history>>

\* RoundTrip cannot buffer the request's body.
BodyFails(r) ==
  /\ req[r].pc = "injected"
  /\ Finish(r, "error")
  /\ UNCHANGED <<memory, path, file, server, history>>

\* stale := t.Tokens.Bearer(), a second read of the credential.
ReadStale(r) ==
  /\ req[r].pc = "injected"
  /\ req' = [req EXCEPT ![r].pc = "sending", ![r].stale = accessToken]
  /\ UNCHANGED <<memory, path, file, server, history>>

\* The first attempt ends without a 401: a response or a transport error.
FirstAttempt(r) ==
  /\ req[r].pc = "sending"
  /\ \E reply \in {"answer", "error"} : Finish(r, reply)
  /\ UNCHANGED <<memory, path, file, server, history>>

\* Upstream answers the first attempt with 401.
Refused(r) ==
  /\ Go(r, "sending", "refused")
  /\ UNCHANGED <<memory, path, file, server, history>>

-----------------------------------------------------------------------------
(* TokenSource.Refresh *)

\* snapshot, when the bearer was replaced since stale was read.
SnapshotSkips(r) ==
  /\ req[r].stale # accessToken
  /\ Go(r, "refused", "retry")
  /\ UNCHANGED <<memory, path, file, server, history>>

\* snapshot, when this goroutine is to call the endpoint.
SnapshotProceeds(r) ==
  /\ req[r].pc = "refused"
  /\ req[r].stale = accessToken
  /\ req' = [req EXCEPT ![r].pc = "posting", ![r].rt = refreshToken]
  /\ UNCHANGED <<memory, path, file, server, history>>

\* The endpoint honours the refresh token.  Its answer carries a new refresh
\* token or none; with SingleUse a replaced refresh token is dead.
Grant(r) ==
  /\ req[r].pc = "posting"
  /\ req[r].rt \in liveRefresh
  /\ issued < MaxGrants
  /\ issued' = issued + 1
  /\ \E rotates \in BOOLEAN :
       /\ req' = [req EXCEPT ![r].pc = "granted",
                             ![r].grant = [access |-> issued',
                               refresh |-> IF rotates THEN issued' ELSE None]]
       /\ liveRefresh' =
            IF ~rotates THEN liveRefresh
            ELSE {issued'} \cup
                   (liveRefresh \ (IF SingleUse THEN {req[r].rt} ELSE {}))
  /\ UNCHANGED <<memory, path, file, history>>

\* The call fails before the endpoint granted anything: no connection, the 30s
\* timeout, a cancelled client, a status other than 200.  RoundTrip answers
\* with a 401 of its own.
PostFails(r) ==
  /\ req[r].pc = "posting"
  /\ Finish(r, "refreshFailed")
  /\ UNCHANGED <<memory, path, file, server, history>>

\* The endpoint granted, but its answer does not arrive whole: timeout,
\* cancelled client, truncated body, no access_token.
LoseGrant(r) ==
  /\ req[r].pc = "granted"
  /\ Finish(r, "refreshFailed")
  /\ lost' = TRUE
  /\ UNCHANGED <<memory, path, file, server, held>>

\* commit: install the pair and return what is to be persisted.
Commit(r) ==
  LET grant == req[r].grant
      pair  == [access |-> grant.access,
                refresh |-> IF grant.refresh # None THEN grant.refresh
                                                    ELSE refreshToken]
  IN /\ req[r].pc = "granted"
     /\ accessToken' = pair.access
     /\ refreshToken' = pair.refresh
     /\ held' = held \cup {pair}
     /\ req' = [req EXCEPT ![r].pc = IF path THEN "committed" ELSE "retry",
                           ![r].saved = pair]
     /\ UNCHANGED <<path, file, server, lost>>

\* writeCredentialsFile reads the file to keep its other fields; what cannot be
\* read or parsed it takes for empty.
ReadFile(r) ==
  /\ req[r].pc = "committed"
  /\ \E edits \in {file.edits, 0} :
       req' = [req EXCEPT ![r].pc = "writing", ![r].edits = edits]
  /\ UNCHANGED <<memory, path, file, server, history>>

\* The rename of the complete temporary file over the old one.
RenameFile(r) ==
  /\ Go(r, "writing", "retry")
  /\ file' = [access |-> req[r].saved.access, refresh |-> req[r].saved.refresh,
              edits |-> req[r].edits]
  /\ UNCHANGED <<memory, path, server, history>>

\* The temporary file cannot be created, written, closed or renamed: Refresh
\* returns an error, and RoundTrip answers with a 401 of its own.
WriteFails(r) ==
  /\ req[r].pc = "writing"
  /\ Finish(r, "refreshFailed")
  /\ UNCHANGED <<memory, path, file, server, history>>

-----------------------------------------------------------------------------
(* The replay *)

\* Reinject puts the bearer of now on the clone.
Reinject(r) ==
  /\ req[r].pc = "retry"
  /\ req' = [req EXCEPT ![r].pc = "resending", ![r].resent = accessToken]
  /\ UNCHANGED <<memory, path, file, server, history>>

\* Whatever the second attempt yields, a 401 included, is the answer.
SecondAttempt(r) ==
  /\ req[r].pc = "resending"
  /\ \E reply \in {"answer", "error"} : Finish(r, reply)
  /\ UNCHANGED <<memory, path, file, server, history>>

-----------------------------------------------------------------------------
(* The environment *)

\* The host's claude CLI rewrites another field of the file.
CliEdits ==
  /\ path
  /\ file.edits < MaxEdits
  /\ file' = [file EXCEPT !.edits = @ + 1]
  /\ UNCHANGED <<memory, path, req, server, history>>

\* The process dies (or exits) and the next one starts from the file.  What is
\* in flight is gone; a rotated refresh token that only the memory knew is lost.
Restart ==
  /\ accessToken' = file.access
  /\ refreshToken' = file.refresh
  /\ req' = [r \in Requests |-> Fresh]
  /\ lost' = (lost \/ file.refresh # refreshToken
                   \/ \E r \in Requests : req[r].pc = "granted")
  /\ UNCHANGED <<path, file, server, held>>

\* A step of the proxy on behalf of r once the request is on its way.
Step(r) ==
  \/ BodyFails(r) \/ ReadStale(r) \/ FirstAttempt(r) \/ Refused(r)
  \/ SnapshotSkips(r) \/ SnapshotProceeds(r)
  \/ Grant(r) \/ PostFails(r) \/ LoseGrant(r)
  \/ Commit(r) \/ ReadFile(r) \/ RenameFile(r) \/ WriteFails(r)
  \/ Reinject(r) \/ SecondAttempt(r)

Next ==
  \/ \E r \in Requests : Inject(r) \/ Step(r)
  \/ CliEdits
  \/ Restart

Spec == Init /\ [][Next]_vars

\* The OAuth call is bounded by http.Client's 30s timeout, the file operations
\* and the critical sections by the operating system; that upstream answers or
\* breaks the connection is an assumption on the API.
FairSpec == Spec /\ \A r \in Requests : WF_vars(Step(r))

-----------------------------------------------------------------------------
(* Properties *)

\* The replay never presents a bearer the request had before: not the one that
\* upstream refused, and not the one read as stale, however many other
\* requests refresh at the same time and in whatever order their grants are
\* committed (RoundTrip, snapshot, commit).
ReplayIsFresh ==
  \A r \in Requests :
    req[r].pc = "resending" => req[r].resent \notin {req[r].sent, req[r].stale}

\* A crash never recovers a mixed credential: the pair in the file is one the
\* TokenSource held as a whole at some instant, also when several refreshes
\* commit and write at the same time (commit returns the pair it installed).
FilePairWasHeld ==
  [access |-> file.access, refresh |-> file.refresh] \in held

\* Refreshing keeps the credential refreshable: as long as no granted answer is
\* lost, the endpoint accepts the refresh token in memory, or the token that
\* replaces it is in an answer waiting for commit.  It holds although
\* concurrent requests may present the same refresh token and a single-use
\* token is then refused to all but one of them.
CredentialRefreshable ==
  ~lost => \/ refreshToken \in liveRefresh
           \/ \E r \in Requests : /\ req[r].pc = "granted"
                                  /\ req[r].grant.refresh \in liveRefresh

(* The abstract specification *)

\* How far the client of RoundTrip sees its request.
ClientView(r) ==
  CASE req[r].pc \in {"idle", "done"} -> [phase |-> "idle", bearer |-> 0]
    [] req[r].pc = "resending"  -> [phase |-> "second", bearer |-> req[r].resent]
    [] OTHER                    -> [phase |-> "first", bearer |-> req[r].sent]

Cell == INSTANCE CredentialCell WITH
  Pairs   <- Pair,
  Initial <- InitialPair,
  cell    <- [access |-> accessToken, refresh |-> refreshToken],
  disk    <- [access |-> file.access, refresh |-> file.refresh],
  past    <- held,
  client  <- [r \in Requests |-> ClientView(r)]

\* The mutex, the exchanges and the file operations implement an atomic
\* credential: every critical section of TokenSource, file operation or crash is
\* one step of CredentialCell or invisible, whatever the requests interleave,
\* and every request is answered.
CellSpec == Cell!Spec

(* What the comments of creds/anthropic.go say and the code does not do *)

\* lastRefresh's comment: of two requests that race and both see 401, only one
\* calls the OAuth endpoint.
OneRefreshPerBearer ==
  \A r, s \in Requests :
    /\ r # s
    /\ req[r].pc = "posting"
    /\ req[s].pc = "posting"
    => req[r].stale # req[s].stale
=============================================================================
