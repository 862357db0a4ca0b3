# A TLA+ model of runclaude

runclaude runs a coding agent in a container whose only way out is a proxy on
the host. The proxy decides which hosts the sandbox may reach, intercepts TLS
for the API hosts, and puts the real credentials into the requests, so that
the sandbox never holds them. This directory models the parts of the program
where several goroutines, several processes or a crash meet shared state, and
the plans it computes from flags, settings and headers where they are easy to
get wrong.

Run a model with `tlc -config X.cfg M` and the proofs with `tlapm M.tla`;
`PROJECT.json` lists the runs, maps every definition to the lines it stands
for, and gives for each property a faulty variant of a definition (a "mutant")
that the property catches. The faulty variants stand in the module, before the
definition they replace, under a comment that says so; no specification uses
them.

## 1. The system

| Component | State | Operations | Shared with |
|---|---|---|---|
| OAuth token source, `creds/anthropic.go` | access and refresh token under a mutex; `.credentials.json` | `RoundTrip`, `Refresh`, `snapshot`, `commit`, `writeCredentialsFile` | every request goroutine; the OAuth endpoint; the host's CLI, through the file |
| Credential loading and the proxy's lists, `creds/load.go`, `main.go` 535-607 | none | `LoadAnthropicCredentials`, choice of the mode | the file above |
| MITM CA, `proxy/ca.go` | `ca.crt`, `ca.key`, the trust bundle; leaf cache under a mutex | `LoadOrCreateCA`, `WriteBundle`, `LeafCache.Get` | every runclaude process of the user |
| Session registry, `session.go`, `main.go` 490-533 | one file per session in `<cacheDir>/sessions` | `registerSession`, `liveSessions`, `runApprove`, the `--exclusive` check | every process of one working directory; the pid space |
| Egress decision and approval UI, `proxy/approval.go`, `match.go`, `server.go`, `dns.go` | `Allowlist` and `Approver`, a mutex each | `Match`, `Add`, `AllowAllFor`, `Record`, `Approve`, `renderIndex`, `HandleDNSQuery` | request goroutines, DNS goroutines, UI handlers |
| Proxy data path, `proxy/server.go` | per connection | `proxyConnect`, `proxyHTTP`, `proxyMitm` | the components above |
| AWS credentials and Bedrock signer, `creds/aws.go`, `proxy/bedrock.go` | the AWS config, a mutex | `Retrieve`, `InjectBedrock` | request goroutines; an interactive login command |
| Usage tracker, `proxy/usage.go` | tokens per model under a mutex, a WaitGroup | `Observe`, the tee, the parser, `Report` | response goroutines, the end of the session |
| Start-up, `main.go`, `network.go` | three processes, a socketpair, an environment variable each | `mainErr`, `childMain`, `initMain`, `sendFds`/`recvFds` | kernel: namespaces, wait status, signals |
| Mount plan and containment, `main.go`, `containment.go`, `mountinfo.go` | the list of binds, the mount table | deduplication, mounting, `checkContainment` | |
| Settings, merge, trust, VCS, `claude*.go`, `trust.go`, `options.go`, `gitconfig.go`, `vcs.go` | `~/.claude`, `~/.claude.json` | merge, sanitize, trust | the host's CLI |
| Standalone proxy, `cmd/runclaude-proxy` | | wires the proxy without a sandbox | |
| Fake API, `fakeapi`, `cmd/fake-anthropic` | test doubles | | |

How they interact: `mainErr` loads the credentials and the CA, registers the
session, and starts the sandbox; the sandbox's network namespace hands three
listening sockets back over a socketpair; `proxy.Serve` and the two DNS servers
then run on them in the host process, sharing one `Allowlist`. A request to an
allowed host is tunnelled, forwarded, or (for the API hosts) intercepted with a
leaf certificate of the CA; the intercepted request gets the bearer from the
token source, or an AWS signature, and the usage tracker reads the answer.

What is hard, and what makes each component correct:

- *Token source.* The refresh token may be single-use, so two refreshes, a
  lost answer or a crash can lose the login. The credential must stay
  refreshable, the file must never mix two pairs, a replay must be fresh, and a
  request must be answered.
- *CA.* Creation is four system calls that other processes can see half done.
  A process must never serve with a certificate and key of two generations, and
  processes that were not disturbed must agree.
- *Session registry.* There is no lock: scans race with registrations, exits,
  crashes and reuse of pids. A scan must find what is registered throughout
  and drop what is dead; `--exclusive` and `--approve` rest on that.
- *Egress.* Match and Record, Add and clear, and the two halves of the page
  are separate critical sections. No refusal may get lost before the user saw
  it, and DNS and proxy must agree.
- *AWS credentials.* A double-checked refresh whose first check is not under
  the mutex, and which holds the mutex during a login.
- *Usage.* The report must wait for the streams and must not block a client.
- *Start-up.* The sandbox must not run without its proxy; the exit status must
  pass through three processes.
- *Data path.* Two copies and a handler, or a server with one connection and a
  handler, must end together, and not before what was sent has been carried;
  a signature must cover the headers that go out.
- *Proxy set-up.* What is intercepted must also be allowed, whatever the flags.
- *Mount plan and settings.* A later bind must win over an earlier one of the
  same destination, parents before children; what the sandbox is not to see
  must stay hidden while the host edits it and another session of the same
  directory rewrites the shared copies; what claude keeps must be the host's.
- *Trust file.* A read-modify-write beside the host's CLI.

## 2. The plan

Written in this order, each with its run, and with its proofs where named:

1. `TokenSource`, `MCTokenSource`, `TokenSource_proofs`; then `CredentialCell`,
   the abstract specification it implements
2. `CAStore`, `CAStore_proofs`
3. `SessionRegistry`, `MCSessionRegistry`, `SessionRegistry_proofs`
4. `DomainMatch` (operators) and `Egress`, `MCEgress`; then `ProxySetup`
   (operators), whose lists the run of `Egress` uses; `Egress_proofs`, on all of
   them
5. `AwsCreds`, `AwsCreds_proofs`
6. `UsageTracker`, `MCUsageTracker`, `UsageTracker_proofs`
7. `Startup`
8. `HeaderRewrite` (operators) and `DataPath`, `MCDataPath`, `DataPath_proofs`
9. `SettingsFiles` and `Mounts` (operators) and `MountPlan`, `MCMountPlan`;
   `Sandbox_proofs`, on these and on `Startup`

Which composes which: `Egress` and `ProxySetup` extend `DomainMatch`, and
`MCEgress` runs the first under the lists of the second; `DataPath` extends
`HeaderRewrite`; `MountPlan` extends `SettingsFiles` and `Mounts`;
`TokenSource` instantiates `CredentialCell` under a refinement mapping.

Left: the trust file beside a model of the host's CLI.

## 3. The modules

### TokenSource

A request is a goroutine in a phase `pc`; a step is one critical section of
`TokenSource.mu`, one exchange with upstream or the OAuth endpoint, or one
visible change of the file. A token is the number of the grant that issued it.

| Action | Code |
|---|---|
| `Inject` | the bearer is put into the request (`setup.Inject`, main.go 719) |
| `BodyFails`, `ReadStale`, `FirstAttempt`, `Refused` | `RoundTrip` to the 401, and the handling of a failed refresh |
| `SnapshotSkips`, `SnapshotProceeds` | `snapshot`: somebody else has refreshed already, or this request does |
| `Grant`, `PostFails`, `LoseGrant` | the POST: answered, refused or broken, answered and then lost |
| `Commit` | `commit` |
| `ReadFile`, `RenameFile`, `WriteFails` | `writeCredentialsFile` |
| `Reinject`, `SecondAttempt` | the replay |
| `CliEdits`, `Restart` | the host's CLI edits the file; the process ends and another starts from the file |

`held` and `lost` are history variables that only properties read.
`SingleUse` says whether a rotated refresh token stops working.

Properties: `ReplayIsFresh`, `FilePairWasHeld`, `CredentialRefreshable`
(safety), and `CellSpec`, that all this implements `CredentialCell`.

### CredentialCell

What callers may rely on, without mutex, exchanges or files: one credential that
is replaced as a whole and only by a newer grant (`Refresh`), a copy on disk that
a restart recovers (`Save`, `Recover`), and requests that reach upstream at most
twice, the second time with another bearer (`Ask`, `Again`), and are then
answered (`Answer`, weakly fair). `TokenSource!Cell` maps the pair in memory to
`cell`, the pair in the file to `disk`, the pairs ever held to `past`, and the
phase of a request to how far its client sees it. `Save` says only that what
reaches the disk was in use once, since the file is written outside the lock:
two refreshes may commit in one order and rename in the other, and the file then
holds the older pair though nothing failed.

### CAStore

A file is absent, truncated or holds one generation's half. Processes start,
load or create the CA, write the bundle, serve and mint leaves, and may stop
or crash between any two system calls; any call may fail. Properties:
`ServingPairMatches` (a serving process has the key of its certificate, and
its leaves are signed by that CA), `UndisturbedAgree` (if no creation was
interrupted or seen half-way, all serving processes and the bundle have the
same CA), `StoredCAKept` (a complete stored CA is never replaced). What the
model shows besides: a process that starts while another is between the two
files, or after it died there, fails instead of loading or creating
(`LoadFails`), although `LoadOrCreateCA`'s comment knows only those two cases.

### SessionRegistry

`Pids` are the pids the system hands out; a pid can be given to a new session
or to another program (`Foreign`) after its holder ended. A scan
(`liveSessions`) is a `ListDir` followed by one read, one liveness test and
perhaps one removal per entry, in any order of the directory; between two of
these steps other processes act. Properties: `ScanFindsSteady` (a session
whose entry is complete from before the scan to its end is found),
`ScanPrunesGone` (the file of what was dead throughout is removed),
`ExclusiveSeesSteady` (`--exclusive` does not go on beside such a session),
`ApproveReachesSteady` (`--approve` reports success only if every such session
got every host).

### DomainMatch, ProxySetup and Egress

`DomainMatch` is `matchPattern` on sequences of labels. `ProxySetup` computes
from a record of flags which hosts `main.go` and `cmd/runclaude-proxy` intercept
(`MitmDomains`, `StandaloneMitm`), allow (`AllowedDomains`, `StandaloneAllowed`)
and whether anything is enforced (`Enforced`). In `Egress` requests,
approvals and page views are goroutines, a step is one critical section of the
`Allowlist`'s or the `Approver`'s mutex, and the clock moves freely.
Properties: `RefusedIsListed` (a refused host stays on the denied list until an
approval makes it reachable), `PageAccountsForRefused` (a page shows every host
refused before it was asked for, as denied or as allowed), `ClearedStaysCleared`
(an approved host comes back to the denied list only through a request that was
already being refused), `ResolvedIsReachable` (the proxy does not refuse a host
that DNS resolved outside an allow-all window). Names are label sequences: that
`dns.go` trims a trailing dot and `Serve` does not is not modelled.

### AwsCreds

A config is the number of the login it was loaded after. A request runs
`injectBedrockAt` and in it `Retrieve`: `ReadConfig` and `First` without the
mutex, then `Lock`, `Second`, the login (`LoginDone`, `LoginFails`), `Load`,
`Install`, `Third` and `Unlock`. The first read of `p.cfg` races with
`Install`, so it may return any config `p.cfg` has held. The AWS SDK is the
environment: a config's cache answers while its credentials last, otherwise
AWS answers if the login has not expired and the client has not hung up.
Properties: `NoRepeatedLogin` (one login at a time, and none for a failure
seen before the last login), `ConfigNeverOlder` (action property),
`RequestsForwarded` (liveness).

### UsageTracker

Each answer has a copier (the reverse proxy reading the wrapped body) and, if
it is a stream, a parser goroutine behind an `io.Pipe`, which is a rendezvous:
the copier's `Read` waits (`full`) until the parser takes the frame
(`TakeFrame`, `TakeBadFrame`, `Drain`). A body ends by EOF, by a broken
connection, or by `Close` at any point. `main` is the end of `mainErr`: the
session ends, `Wait` goes on or sleeps, the last `Done` lets it go
(`LeaveGroup`), it wakes (`WaitReturns`), `Report`. As in `sync.WaitGroup`, a
caller that wakes and finds the counter above 0 again panics. Properties:
`UsageExact` (the totals are what the part of each answer that was delivered has
used, stated without the parser), `ReportHasStreams` (no stream observed before
`Wait` returned is missing), `ClientServed` and `ReportPrinted` (liveness: once
the session has ended the report is printed, unless a stream joined the
WaitGroup after the last `Done` had let `Wait` go).

What the model shows besides: an answer that arrives after `Wait` has returned,
and a JSON answer still being copied, are not in the report; and a stream that
joins between the last `Done` and the waking of `Wait` makes `Wait` panic
("WaitGroup is reused before previous Wait has returned"), so that runclaude
ends without a report. The proxy serves until the process ends, so an answer that
was still on its way when the session ended can cause this.

### HeaderRewrite and DataPath

`HeaderRewrite` is what the proxy does to headers: `StripHopByHopHeaders`, the
injection of a bearer or API key, `injectBedrockAt`, and the Director of
`NewMitmReverseProxy` around them, with what `httputil.ReverseProxy` does after
it (`ReverseProxy`) and what the AWS signer covers (`Covered`). A header is who
set each of eleven names, which stand for the kinds that these functions tell
apart; with it goes the set of names that the client's `Connection` lists, any of
the eleven. `MCDataPath` gives the headers that clients send in the run.

`DataPath` is one request that `Serve` has let through. In the tunnel
(`proxyConnect`) each direction has a copy goroutine (`CopyReads`, `CopyWrites`,
`CopyReports`) and the handler closes both connections after the first report
(`CloseUpstream`, `CloseClient`). In the interception (`proxyMitm`) the handler
hijacks, gets a leaf and shakes hands, a goroutine accepts the one connection
(`Accept`, `AcceptEnds`) and serves requests on it (`Receive`, `Respond`,
`Upgrade`, `ClientEnds`), and `ConnState` wakes the handler (`CloseMitm`). Client
and upstream send, end their direction and leave at any point. Properties:
`NotCutShort` (between peers that stay, a tunnel whose client waits for the 200
closes only after one of them has ended its direction and had everything
delivered, an interception that is not upgraded only between or after requests),
`SignatureCoversRequest` (what a Bedrock signature covers is sent as it was
signed, and beside it go only the signature, what the signer ignores and a
restored `Te`), `PathEnds` (liveness: once the client has gone the handler and
every goroutine end).

What the model shows besides: the direction that has not ended loses what it had
still to say, also when only the other one was half-closed; bytes a client sends
before it has seen the 200 may be lost with the reader that `Hijack` returns
(`NotCutShort` says nothing of such a tunnel); a client that sends its own
`X-Forwarded-For` to Bedrock gets it signed and then dropped; `Te: trailers`,
which `injectBedrockAt` strips, is put back by `ReverseProxy` after the
signature, so that the signature covers less than is sent, though the comment of
`hopByHopHeaders` says "exactly the header set the upstream will see"; a client
that lists `Authorization` or `X-Api-Key` in `Connection` makes `ReverseProxy`
drop the credential that was injected for Anthropic, and one that lists
`X-Forwarded-For` there gets it added again; a request to a Bedrock host that is
malformed goes on with the client's own headers; an upgrade through the
interception is closed as soon as it is granted;
an override of an upstream that does not parse leaves the connection open; and a
client that never shakes hands holds its handler until it leaves.

### SettingsFiles, Mounts and MountPlan

`SettingsFiles` is what is read from and made of `settings.json`: a file is the
set of its keys, or missing, or malformed. `Mounts` is a list of binds: `Dedup`
is the loop of `childMain`, `Shown` what path of the host a path of the
container leads to, `ContainmentLeak` is `containmentLeak`.

`MountPlan` starts sessions with `--claude` in one working directory, so that
they share `settings-0.json`, `settings-1.json` and the cache. A step is one
read or write of a settings file, of a copy or of the merged tree
(`LoadSettings`, `ListClaude`, `DecideMerge`, `RemoveTree`, `MergeTree`,
`WriteStub`, `Sanitize`, `WriteCopy`), or the mounting (`Mount`, with the
containment check). `Edit` is the host. Properties: `HiddenStaysHidden` (in a
running session no AWS setting, real credential or unlisted source shows at any
path, aliases through the host's volumes included; that its environment has no
key follows from `ContainerEnv` alone), `ClaudeHomeKept` (live state
is the host's, scratch the session's own, and the merged tree lasts as long as
its session). Both except what the user asks for himself with `--expose` or
`--only` (`Exposes`). `Binds` is a session's list in the order of `mainErr`: the
working directory, what is asked for, what is in and beside `~/.claude`
(`ClaudeExtra`: with a merged tree that tree and the live state), the cache's
scratch, and the sanitized settings. `Ordinary` says of which setups
`HiddenStaysHidden` is claimed (sections 4 and 6).

What the model shows besides: if the host removes a settings file between
`Sanitize` and `Mount`, the mount point is created as an empty file in the
host's own directory (`Placed`); and a merged session hides the project's
settings by `--setting-sources user`, which `--claude-config` does not pass.

### Startup

The state is one progress variable per process of the chain, the socketpair, the
statuses and init's channel of signals. What a process does alone between two
steps that others can see succeeds or fails as one (`ChildFails`, `InitFails`).
Between `StartCommand` and `HandleSignals` the command runs and init has no
handler yet: a signal then ends init, and with it the command. `disturbed`
records that a process of the chain was killed from outside. Properties:
`CommandConfined` (a restricted command runs only with its policy installed and
its listeners delivered or on their way), `HostStatusTrue` (undisturbed, the
host ends with 0 exactly if the command ran and ended with 0),
`CommandNotCutShort` (action property: init does not end under a running
command), `SessionEnds` (liveness). The host turns every other status into 1;
`HostStatusTrue` says no more than that. After ^C the host and `childMain` die
at once, while init and the command may live on.

## 4. The runs

| Run | Bounds | Result |
|---|---|---|
| `token_source` | 2 requests, 2 grants, 1 CLI edit, single-use tokens | holds, 115,066 states |
| `token_source_one_refresh` | the same | `OneRefreshPerBearer` violated |
| `ca_store` | 2 processes, 3 generations, 1 host | holds, 29,416 states |
| `session_registry` | 3 pids, 3 starts, symmetric pids | holds, 279,853 states |
| `session_registry_exclusive` | 2 pids, 2 starts | `ExclusiveAlone` violated |
| `egress` | 2 requests, 2 approvals, 1 page, window 1, clock 0..1 | holds, 708,040 states |
| `aws_creds` | 2 requests, 2 logins, a login command is set | holds, 101,634 states |
| `usage_tracker` | 2 answers, 2 models, 2 streams of 3 and 4 frames, 1 JSON body | holds, 259,060 states |
| `startup` | exit codes 0 and 3, 2 signals in the channel | holds, 2,986 states |
| `data_path` | 1 request on each of 3 routes, 2 chunks per peer, the requests of `MCRequests` | holds, 48,300 states |
| `mount_plan` | 2 sessions, 5 contents of a file, 14 setups, 1 edit | holds, 303,714 states |
| `mount_overlays` | the same, no edit | `OverlaysTakeEffect` violated |

Why the bounds are enough to be worth something: every hazard of section 1 is
a race of two actors. Two requests and two grants let each request refresh,
so refreshes can commit and rename in both orders, and a third request adds no
new pair; the proofs cover any number. Two CA processes with three generations
allow a creation, a crash, and a further creation by both. Three pids give a
scanner and two sessions that come and go in its directory; the bound on starts
makes that run stop (`CHECK_DEADLOCK FALSE`), as a user stops starting sessions.
Two approvals, one of a wildcard and one of a name under it, give every overlap
of `Add`, and a clock of two values opens and closes the window. Two Bedrock
requests give a holder of the mutex and a waiter, and two logins a waiter whose
failure is older than the last one; the proofs cover any number. Two answers
give the sum of two parsers for one model or two, one to finish and one to join
while `Wait` sleeps, and the two streams each kind of frame, a bad one between
good ones included. The chain of `Startup` is
as long as in the code; two exit codes tell success from failure, and two
places in the channel (8 in the code) fill up. In `DataPath` requests share no
state but what the other modules have, so one is enough; two chunks let a copy
stand before, between and after chunks, and the proof covers any number. Its
requests have no header, all or all but one, and list each name in `Connection`;
the proof covers any set of requests. In
`MountPlan` two sessions are one that runs and one that starts beside it; one
edit puts a file in two states for them, and more edits by the same user add
states of the same kind; the setups are each `--expose` that meets a bind of
the plan, `--only` of a file and of a directory with settings, and host volumes
that alias the root, the home or neither. `usage_tracker`, `startup`,
`data_path` and the mount plans stop when what they model ends
(`CHECK_DEADLOCK FALSE`). The bounds are the constants `MaxGrants`, `MaxEdits`,
`MaxGen`, `MaxStarts`, `MaxTime`, `MaxLogins` and `MaxChunks`.

The runs that end in a violation show where the code departs from what its
comments or help say:

- *OneRefreshPerBearer.* `lastRefresh` is documented as the guard against two
  refreshes for one 401 race, but nothing reads it. Two requests with the same
  refused bearer both post.
- *ExclusiveAlone.* The exclusive check and the registration are far apart; two
  `--exclusive=yes` sessions can both pass.
- *OverlaysTakeEffect.* Deduplication keeps the last bind of a destination in
  the place of the first. With `--expose ~/.claude/projects` and project settings
  that need a merged `~/.claude`, the bind of `projects` comes before the merged
  tree, which hides it; the session's history goes with the tree. In the same
  way `--expose ~/.claude/settings.json --expose ~` mounts the sanitized copy of
  the settings before the home, so that claude sees the AWS keys that it was to
  replace: `HiddenStaysHidden` does not hold of such a setup, and `Ordinary`
  excludes it.

Four smaller remarks that have no run: the file may keep the older of two pairs
(see `CredentialCell`), an edit of the CLI between `writeCredentialsFile`'s read
and its rename is undone, and `--allow-domain=`, whose help says that it disables
enforcement, does so only without a credential to inject (theorem
`EmptyAllowStillEnforced`), in which case `--restrict-net` still gives the
sandbox a network of its own with no proxy in it. And `Add` tests a new pattern
as if it were a host: on a list with `*.*` it takes `*.com` for matched already
and does not append it, so that `a.b.com` stays out. `AddLosesNothing` states the
condition under which this cannot happen; the built-in lists meet it.

## 5. Fairness

In `TokenSource`, `FairSpec` assumes weak fairness of each request's own steps:
goroutines are scheduled, critical sections contain no blocking call, file
operations return, and the OAuth call has a 30 s timeout. That upstream answers
or breaks the connection is an assumption on the API. No fairness is assumed of
`Inject`, of the CLI or of `Restart`, and none of a particular outcome: a
request may always fail.

`CellSpec` includes the liveness of `CredentialCell` and rests on this.

In `AwsCreds` the same holds of each request's steps. Taking the mutex is
strongly fair, as `sync.Mutex` hands itself to a waiter that has starved. That
the login command ends is an assumption on the user in front of it: the code
sets no timeout, and without it every request would wait.

In `UsageTracker` copier, parser and the end of `mainErr` (`Wait`, `WaitReturns`,
`Report`) are weakly fair:
reads of an answer return because upstream sends, ends or breaks, and a client
that leaves cancels its request. Nothing is assumed of when the session ends or
which answers arrive.

In `Startup` each process of the chain is weakly fair on its own, init's reaping
of the command and of orphans and its signal goroutine separately. The command,
its orphan, the user and the killer have no fairness.

In `DataPath` the dial has a timeout, each goroutine is weakly fair on its own,
and responses end as in `UsageTracker`. That a peer that stays reads what is
sent to it is an assumption on the peers: the code sets no deadline for a write.
Nothing makes a client speak, read or shake hands; only the handshake of a
client that has gone is sure to fail. `SessionRegistry`, `CAStore`, `Egress` and
`MountPlan` assume no fairness.

## 6. What is proved

`TokenSource_proofs` proves, for any set of requests, any bounds, and both kinds
of refresh token, that `TypeOK`, `ReplayIsFresh`, `FilePairWasHeld` and
`CredentialRefreshable` hold in every reachable state (`TypeCorrect`,
`ReplayFresh`, `FileConsistent`, `Refreshable`). The assumptions are the two of
the module: the bounds are naturals and `SingleUse` is a Boolean.

None of these is inductive. The invariant `IInv` adds what each phase knows:

- `Issued`: no token in use is newer than the last grant;
- `GrantUnseen`: the tokens of an answer that waits for `commit` occur nowhere
  else, which is why committing it makes every older bearer differ from the
  current one;
- `StaleIsNewest`: if the bearer a request sent is not the one it read as stale,
  the current one is not the one it sent either;
- `BearerReplaced`: between `commit` (or the skipped refresh) and the replay the
  current bearer is one the request never carried;
- `SavedWasHeld`: what is about to be written was in memory as one pair.

`CellImplemented` maps each step to one of `CredentialCell` or to a stutter: it
needs `IInv` (a committed access token was never in use, the replay has another
bearer). The liveness of `CredentialCell` is left to TLC.

`StepTyped` proves the types, `StepInv` the rest with one step per action,
`RestartInv` and `CliEditsInv` the environment's steps, `InitInv` the initial
states; `Invariance` puts them together.

`AwsCreds_proofs` proves, for any set of requests and any number of logins, with
or without a login command, that `TypeOK`, `NoRepeatedLogin` and
`ConfigNeverOlder` hold (`TypeCorrect`, `LoginsNotRepeated`, `ConfigAdvances`).
It assumes the module's assumptions: `MaxLogins` is a natural, `HasRefresh` a
Boolean, and `Free` is not a request. The invariant adds `Exclusion` (a request
between `Lock` and `Unlock` holds the mutex) and `Current` (what a request that
is to log in saw fail, failed after the last login, and the config it is to
install was loaded after it). `StepInv` has one step per action; `MoveInv` and
`CallEnds` are what most of them share. `ConfigAdvances` follows since only
`Install` assigns `cfg`, by the holder, of a config loaded after the last login.

`CAStore_proofs` proves `TypeOK`, `ServingPairMatches`, `UndisturbedAgree` and
`StoredCAKept` for any set of processes and hosts and any bound on generations.
`Local` is what a process knows by itself: it holds a certificate and its key
from the moment it generated or checked them. `Calm` is about states that no
failure or onlooker has disturbed: a creator is alone beyond `os.Stat` (`Alone`),
its progress shows in the files (`Written`), without one the pair is complete
(`Stored`), and whoever read it has what is stored (`Agreed`, `Bundled`).
`StoredForGood` adds that a settled pair stays settled: only creators write, and
nobody becomes one while `ca.crt` exists.

`Egress_proofs` proves `TypeOK` and all four safety properties for any requests,
approvals, pages, hosts, patterns and configuration. The lemmas `MatchGrows`,
`AddGrows` and `AddMatches` say that the list only grows and that `Add` leaves
its name matched also when it adds nothing. The invariant adds `Reach`: what is
being approved or was cleared, what DNS resolved, and what a half-read page does
not show as denied, the list matches.

It also says what a pattern means. `MatchByLabel` splits `matchPattern` into
equal, under a leading star (`Under`), and alike label by label (`Alike`);
`ApprovalIsExact` (approving a host lets through that host and no other) and
`WildcardIsSuffix` (`*.name` is name and what ends with it) follow. Since `Add`
skips a pattern that the list matches as a host, its effect rests on
`MatchTransitive`: what the skipped pattern matches is matched already, unless
the wider one has a star first and another behind. Under that condition on the
list, `AddLosesNothing` and `ApprovalsTakeEffect` say that whatever an approval
means, the list matches once `Add` has returned. Of `ProxySetup` it proves, for
every record of flags, that intercepted hosts are allowed (`MitmAllowed`, which
`Egress` assumes of its constants as `MitmAssumption`) and that a credential
keeps the list enforced.

`SessionRegistry_proofs` proves `TypeOK` and all four safety properties for any
set of pids, hosts and bound on starts. A pid's file is written only by the
process that holds the pid (`Staged`, `Fresh`, `FreeIsEmpty`), and once
complete it stays so until that process or a scan removes it
(`SteadyRegistered`). Of a scan under way, `ScanKeepsSteady` says that each
session steady since its start is found or still to be looked at, and
`ScanKeepsGone` that the file of each pid gone since then is removed, still to
be read, or in the scan's hands; `PostsApprove` that each session a `--approve`
has posted to got every host or cost it its success.
`SteadySpared` goes further than the runs: no scan removes the file of a session
that was registered when the scan read the directory and has been since. A
running session loses its file only to scans under way before it had written it.

`Sandbox_proofs` proves of `Startup` `TypeOK`, `CommandConfined`,
`HostStatusTrue` and `CommandNotCutShort` for any exit codes up to 255 and any
channel capacity above 0. The invariant has the order of the chain (`Chain`: no
process runs before its parent ran it, and undisturbed none outlives its
parent), the order of `setupNetwork` (`Settled`), and the truth of each status
passed on (`Statuses`). `InitStatus` and `ChildStatus` are the two conversions
of a status.

Of `MountPlan` it proves `PlanTypeOK`, `ClaudeHomeKept` and `HiddenStaysHidden`
for any sessions, contents of files, host environment, number of edits and
setups, the last one if every setup is `Ordinary`. That hypothesis, which TLC
evaluates for all setups of the run (`SetupsOrdinary` in `MCMountPlan`), says
that nothing asked for lies above a settings file or the `~/.claude` that is
asked for too (see `OverlaysTakeEffect` above), that no two volumes are mounted
at one place and none at or above the cache (the model's one filesystem is the
one the home is on), and that a volume that shows a hidden file a second time
shows the whole home, beside the home, `/tmp` and what is asked for: of volumes
that show less than the home the containment check does not know. The argument
has three parts.

- *What a session has done.* `PlanInv` adds to the types that nothing runclaude
  wrote holds an AWS key (`Scrubbed`), and to each place in a session's course
  what it has settled by then (`Course`): which settings have their overlay,
  whether its merged tree stands and has its stub, and that a running session
  passed the containment check. Neither property is inductive without: a session
  that is about to mount must know that the copies were written, by whichever
  session wrote them last.
- *What it sees.* `DedupDedupes` says of every list of binds which ones
  deduplication keeps and in which order; it is an induction over the list, by
  the least number at which it fails (`LeastExists`, from the library's `WFMin`,
  which needs no operator as a parameter). With it `Uppermost` finds the bind
  that is on top at a path, and `ProjectsSeen`, `CacheSeen`, `OverlaySeen` and
  `MergedSeen` what claude sees there, however many paths are asked for.
- *What it can reach.* `NoneAboveHidden` says that no bind leads to a directory
  above a hidden file that is not asked for, `LeakyVolume` that a mount that
  brings along a volume showing the file makes the containment check refuse, and
  `HiddenKept` puts these together over all aliases.

`DataPath_proofs` proves `TypeOK`, `NotCutShort` and `SignatureCoversRequest`
for any number of chunks and any set of requests. `Ends` says that a copy that
reports has either delivered all its source sent or lost a peer, `Bytes` that
the handler closes nothing before a report, `Server` that the interception is
over when its hook has run. `SignatureExact` is about the order of the three
removals of headers and of what `ReverseProxy` puts back, for any headers and
any list in `Connection`, with the exceptions that `SignatureCoversRequest`
names. `CredentialsReplaced` is about what goes on to an intercepted host: with
a credential to inject, none of the client's own; and the injected one, unless
the client lists its name.

`UsageTracker_proofs` proves `TypeOK`, `ReportHasStreams` and `UsageExact` for any
finite set of answers and any models, streams and bodies (`PayloadAssumption`:
cached tokens are among the prompt's, and only a frame of a stream can be bad).
`Counted` says that the WaitGroup counts the parsers that have not yet added
their stream, by the cardinality of that set; `Reported` that none of those
observed before `Wait` returned is among them, and that `Wait` panics only for a
stream observed later (`PanicsOnlyForLate`). `Parsing` says of each parser that
its locals are what `UsedIn` makes of the frames that have left the pipe, so that
what it adds is what the answer has used by the definition without a parser.
`EnteredOnce` follows: each answer is entered once, under its model, and nothing
else touches the totals. `TotalsExact` (`UsageExact`) adds `Ledger`: the totals of
a model are the sums over the answers entered. It rests on the lemmas on sums
over a finite set (`SumExists`, `SumUnique`, `SumAdds`), since neither the library
nor the provers know that a sum grows by the element added.

## 7. Only model-checked

All liveness (`CellSpec`'s, `RequestsForwarded`, `ClientServed`,
`ReportPrinted`, `SessionEnds`, `PathEnds`), which is out of the prover's reach:
it needs fairness and `ENABLED`. Every safety invariant and safety action
property that a passing run checks is stated by a theorem; of `CellSpec`,
`CellImplemented` proves the safety part. The refutations are TLC traces. The
induction theorems of the library take an operator, which the provers cannot
instantiate; where an induction over data was needed (`Dedup`, sums) it is
done on a set of numbers or of sets instead (`NatSetInduction`,
`SubsetInduction`), and the operators are recursive functions or folds.

## 8. Not modelled

- Contents and formats: JSON, PEM, HTML, TLS, the DNS wire format and the
  upstream lookup, logging, prices and cache writes (counted like cache reads).
- `trust.go`. `ensureProjectTrusted` rewrites `~/.claude.json`, whose other
  writer and only reader is the host's CLI; how that reads and writes it is
  unknown, and a model with runclaude alone would say little. By reading: with
  two sessions starting at once, the second truncates the temporary file that the
  first renames into place, so that the file is empty for a moment, and for good
  if the second ends there.
- `options.go`, `gitconfig.go`, and the discovery of VCS directories, workspaces
  and `PATH` entries (`vcs.go`, `main.go` 245-345): each turns files of the host
  into a list or a file once, alone; the binds they add to the plan are not in
  `MountPlan`. The exclude copies of `vcs.go` are shared by the sessions of a
  directory in the way of the sanitized settings.
- In `MountPlan`: edits of the host by rename (a bind of a file then shows the
  old one), symbolic links, read-only remounts, `/dev` and `resolv.conf`, and
  the contents of the merged tree beyond its settings and stub.
- In `Startup`: what a process sets up alone, which succeeds or fails as one
  step, and ^C before the command runs. In `SessionRegistry`: failing reads of
  the directory. In `AwsCreds`: the signature itself.
- Two token sources at once. Sessions and the host's CLI that hold copies of one
  single-use refresh token invalidate each other's; the model has one live
  `TokenSource` beside edits of the file by the CLI (`CliEdits`).
- The standalone proxy's flag parsing and its exported files; its lists are in
  `ProxySetup`, and what it serves is the same code.
- The fake API, the shell tests and the documents are not part of the program.
