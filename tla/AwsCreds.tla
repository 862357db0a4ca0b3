------------------------------- MODULE AwsCreds -------------------------------
(***************************************************************************)
(* Signing Bedrock requests with the host's AWS credentials                *)
(* (creds/aws.go, InjectBedrock in proxy/bedrock.go): every request        *)
(* retrieves credentials from one RefreshingCredentialProvider, which runs *)
(* the login command of the settings (awsAuthRefresh, `aws sso login`)     *)
(* when that fails, one login at a time, and reloads the AWS config.       *)
(*                                                                         *)
(* A request is a goroutine; a step is the taking of the mutex, a read or  *)
(* write of p.cfg, the answer of a call into the AWS SDK or the end of the *)
(* login command.  A config is the number of the login it was loaded       *)
(* after.  The SDK and the login command are external: a config's          *)
(* CredentialsCache answers at once while its credentials last, otherwise  *)
(* it asks AWS, which needs an unexpired login and may fail.               *)
(*                                                                         *)
(* The first read of p.cfg takes no lock and races with its assignment:    *)
(* it may return any config p.cfg has held.  (The dynamic type of          *)
(* Credentials is always *aws.CredentialsCache, so a torn read of the      *)
(* interface is one of these too.)                                         *)
(***************************************************************************)
EXTENDS Integers

CONSTANTS
  Requests,    \* slots for requests to Bedrock
  HasRefresh,  \* refresh # "": the settings name a login command
  MaxLogins    \* bound: successful runs of the login command

ASSUME RefreshAssumption == HasRefresh \in BOOLEAN
ASSUME LoginsAssumption == MaxLogins \in Nat

Logins == 0 .. MaxLogins
Free == "free"
ASSUME FreeAssumption == Free \notin Requests

VARIABLES
  cfg,       \* p.cfg
  mu,        \* p.mu: the request that holds it, or Free
  req,       \* per request: its phase and the locals of Retrieve
  held,      \* the configs p.cfg has held
  cached,    \* the configs whose cached credentials are still good
  login,     \* number of the host's last login
  expired,   \* whether that login has expired
  rereads    \* whether a config sees a login made after it was loaded

provider == <<cfg, mu, held>>
aws == <<cached, login, expired, rereads>>
vars == <<provider, req, aws>>

Phases == {"idle", "body", "first", "lock", "second", "login", "load",
           "install", "third", "unlock", "sign"}

\* config is the config a call is made on or the one loaded, since the login at
\* that call; cancelled is whether the client has gone (r.Context()).  Whether
\* Retrieve returns credentials or an error, and so whether the request is
\* signed, nothing here depends on.
Request == [pc: Phases, config: Logins, since: Logins, cancelled: BOOLEAN]

NoRequest == [pc |-> "idle", config |-> 0, since |-> 0, cancelled |-> FALSE]

TypeOK ==
  /\ cfg \in held
  /\ mu \in Requests \cup {Free}
  /\ req \in [Requests -> Request]
  /\ held \subseteq 0 .. login
  /\ cached \subseteq Logins
  /\ login \in Logins
  /\ expired \in BOOLEAN
  /\ rereads \in BOOLEAN

\* mainErr has validated the credentials with a Retrieve of its own.
Init ==
  /\ cfg = 0
  /\ mu = Free
  /\ req = [r \in Requests |-> NoRequest]
  /\ held = {0}
  /\ cached = {0}
  /\ login = 0
  /\ expired = FALSE
  /\ rereads \in BOOLEAN

At(r, pc) == req[r].pc = pc
Go(r, to) == req' = [req EXCEPT ![r].pc = to]

\* A call of Retrieve on config c begins.
Call(r, to, c) ==
  req' = [req EXCEPT ![r].pc = to, ![r].config = c, ![r].since = login]

(* The SDK's cache of r's config: how the call ends. *)

Usable(c) == ~expired /\ (rereads \/ c = login)

Succeeds(r) ==
  LET c == req[r].config
  IN /\ c \in cached \/ (Usable(c) /\ ~req[r].cancelled)
     /\ cached' = cached \cup {c}
     /\ UNCHANGED <<login, expired, rereads>>

Fails(r) == req[r].config \notin cached /\ UNCHANGED aws

(* Faulty variants of definitions below, for the mutants of PROJECT.json. *)

\* The waiter does not try again once it has the mutex.
LockUnchecked(r) ==
  /\ At(r, "lock") /\ mu = Free
  /\ mu' = r
  /\ Go(r, "login")
  /\ UNCHANGED <<cfg, held, aws>>

\* The mutex is not held while the login command runs.
SecondReleases(r) ==
  /\ At(r, "second")
  /\ \/ Succeeds(r) /\ Go(r, "unlock") /\ UNCHANGED mu
     \/ Fails(r) /\ Go(r, "login") /\ mu' = Free
  /\ UNCHANGED <<cfg, held>>

\* The failed login returns without the unlock.
LoginFailsLocked(r) ==
  /\ At(r, "login")
  /\ Go(r, "sign")
  /\ UNCHANGED <<provider, aws>>

\* p.cfg is assigned what LoadDefaultConfig returned before the error is tested:
\* a config without credentials.
LoadAssigns(r) ==
  /\ At(r, "load")
  /\ \/ Go(r, "unlock") /\ cfg' = -1
     \/ req' = [req EXCEPT ![r].pc = "install", ![r].config = login] /\ UNCHANGED cfg
  /\ UNCHANGED <<mu, held, aws>>

-----------------------------------------------------------------------------
(* InjectBedrock, before and after Retrieve.  The client's signature is gone  *)
(* from the first step on: a request whose signing fails goes out without one. *)

Arrive(r) ==
  /\ At(r, "idle")
  /\ req' = [req EXCEPT ![r] = [NoRequest EXCEPT !.pc = "body"]]
  /\ UNCHANGED <<provider, aws>>

\* The client's body cannot be read: the request is forwarded unsigned.
BodyFails(r) ==
  /\ At(r, "body")
  /\ Go(r, "sign")
  /\ UNCHANGED <<provider, aws>>

\* SignHTTP, or the return on an error, and the request is forwarded.
Forward(r) ==
  /\ At(r, "sign")
  /\ req' = [req EXCEPT ![r] = NoRequest]
  /\ UNCHANGED <<provider, aws>>

-----------------------------------------------------------------------------
(* RefreshingCredentialProvider.Retrieve *)

\* p.cfg is read without the mutex.
ReadConfig(r) ==
  /\ At(r, "body")
  /\ \E c \in held : Call(r, "first", c)
  /\ UNCHANGED <<provider, aws>>

First(r) ==
  /\ At(r, "first")
  /\ \/ Succeeds(r) /\ Go(r, "sign")
     \/ Fails(r) /\ Go(r, IF HasRefresh THEN "lock" ELSE "sign")
  /\ UNCHANGED provider

Lock(r) ==
  /\ At(r, "lock") /\ mu = Free
  /\ mu' = r
  /\ Call(r, "second", cfg)
  /\ UNCHANGED <<cfg, held, aws>>

Second(r) ==
  /\ At(r, "second")
  /\ \/ Succeeds(r) /\ Go(r, "unlock")
     \/ Fails(r) /\ Go(r, "login")
  /\ UNCHANGED provider

\* The login command ends well.
LoginDone(r) ==
  /\ At(r, "login")
  /\ login < MaxLogins
  /\ login' = login + 1
  /\ expired' = FALSE
  /\ Go(r, "load")
  /\ UNCHANGED <<provider, cached, rereads>>

LoginFails(r) ==
  /\ At(r, "login")
  /\ Go(r, "unlock")
  /\ UNCHANGED <<provider, aws>>

\* LoadDefaultConfig.
Load(r) ==
  /\ At(r, "load")
  /\ \/ Go(r, "unlock")
     \/ req' = [req EXCEPT ![r].pc = "install", ![r].config = login]
  /\ UNCHANGED <<provider, aws>>

\* p.cfg is assigned, and the last call made on it.
Install(r) ==
  /\ At(r, "install")
  /\ cfg' = req[r].config
  /\ held' = held \cup {cfg'}
  /\ Call(r, "third", cfg')
  /\ UNCHANGED <<mu, aws>>

Third(r) ==
  /\ At(r, "third")
  /\ Succeeds(r) \/ Fails(r)
  /\ Go(r, "unlock")
  /\ UNCHANGED provider

\* The deferred Unlock.
Unlock(r) ==
  /\ At(r, "unlock")
  /\ mu' = Free
  /\ Go(r, "sign")
  /\ UNCHANGED <<cfg, held, aws>>

-----------------------------------------------------------------------------
(* The environment *)

\* The client hangs up, which cancels r.Context().
Cancel(r) ==
  /\ ~At(r, "idle") /\ ~req[r].cancelled
  /\ req' = [req EXCEPT ![r].cancelled = TRUE]
  /\ UNCHANGED <<provider, aws>>

\* The login expires; what is cached lasts on its own.
LoginExpires ==
  /\ ~expired
  /\ expired' = TRUE
  /\ UNCHANGED <<provider, req, cached, login, rereads>>

CacheExpires ==
  /\ \E c \in cached : cached' = cached \ {c}
  /\ UNCHANGED <<provider, req, login, expired, rereads>>

Step(r) ==
  \/ ReadConfig(r) \/ BodyFails(r) \/ First(r) \/ Second(r)
  \/ LoginDone(r) \/ LoginFails(r) \/ Load(r) \/ Install(r) \/ Third(r)
  \/ Unlock(r) \/ Forward(r)

Next ==
  \/ \E r \in Requests : Arrive(r) \/ Lock(r) \/ Step(r) \/ Cancel(r)
  \/ LoginExpires \/ CacheExpires

Spec == Init /\ [][Next]_vars

\* Goroutines are scheduled and calls into the SDK return; that the login
\* command ends is an assumption on the user, who sits before it.  sync.Mutex
\* hands itself to a waiter that has starved, hence SF for Lock.
FairSpec ==
  Spec /\ \A r \in Requests : WF_vars(Step(r)) /\ SF_vars(Lock(r))

-----------------------------------------------------------------------------
(* Properties *)

\* "Only one refresh runs at a time; other goroutines block until it finishes":
\* and when it has finished, a goroutine that waited does not log in again
\* unless the credentials failed once more, after that login.
NoRepeatedLogin ==
  \A r \in Requests :
    At(r, "login") => /\ req[r].since = login
                      /\ \A s \in Requests \ {r} : ~At(s, "login")

\* p.cfg never goes back to a config loaded before an earlier login, however
\* the logins and reloads of several requests interleave.
ConfigNeverOlder == [][cfg' >= cfg]_vars

\* A request that came in is forwarded, signed or not: no path through the
\* refresh keeps the mutex or waits for ever.
RequestsForwarded == \A r \in Requests : ~At(r, "idle") ~> At(r, "idle")
=============================================================================
