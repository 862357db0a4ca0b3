------------------------------- MODULE Egress -------------------------------
(***************************************************************************)
(* The egress decision of one proxy process and its approval at runtime    *)
(* (proxy/approval.go, Serve in proxy/server.go, HandleDNSQuery in         *)
(* proxy/dns.go, wired up in main.go): requests and DNS queries of the     *)
(* sandbox are matched against one shared Allowlist, refusals are recorded *)
(* by the Approver, and its web UI lists them, approves hosts and opens    *)
(* the allow-all window.                                                   *)
(*                                                                         *)
(* Requests, approvals and page views are goroutines; a step is one        *)
(* critical section of Allowlist.mu or Approver.mu.  Of a DeniedEntry only *)
(* the host is kept: its count and times are for display.                  *)
(***************************************************************************)
EXTENDS DomainMatch

CONSTANTS
  Requests,      \* slots for requests in the proxy
  Approvals,     \* slots for POST /approve
  Pages,         \* slots for GET /
  Hosts,         \* the hosts the sandbox asks for
  Patterns,      \* what the user approves
  Allowed,       \* allowedDomains of the configuration
  Mitm,          \* mitmDomains of the configuration
  Window,        \* allowAllWindow
  MaxTime        \* bound: the clock's last value

ASSUME TimeAssumption == Window \in Nat /\ MaxTime \in Nat
ASSUME NamesAssumption ==
  Hosts \cup Patterns \cup Allowed \cup Mitm \subseteq Seq(STRING) \ {<<>>}

\* main puts a host on both lists, unless allowedDomains matches it already.
ASSUME MitmAssumption == \A m \in Mitm : MatchDomain(m, Allowed)

VARIABLES
  items,      \* Allowlist.items
  allowAll,   \* Allowlist.allowAll
  now,        \* the clock
  denied,     \* the hosts of Approver.denied
  req,        \* per request: its phase and host
  approval,   \* per approval: its phase and host
  page,       \* per page view: its phase and what it read
  refused,    \* history: hosts whose refusal was recorded
  resolved,   \* history: hosts DNS answered outside an allow-all window
  cleared     \* history: hosts an Approve cleared with no refusal under way

list == <<items, allowAll>>
history == <<refused, resolved, cleared>>
vars == <<list, now, denied, req, approval, page, history>>

NoHost == <<>>
MaybeHost == Hosts \cup {NoHost}

TypeOK ==
  /\ items \subseteq Allowed \cup Patterns
  /\ allowAll \in 0 .. MaxTime + Window
  /\ now \in 0 .. MaxTime
  /\ denied \subseteq Hosts
  /\ req \in [Requests -> [pc: {"idle", "arrived", "denying"}, host: MaybeHost,
                           known: BOOLEAN]]
  /\ approval \in [Approvals -> [pc: {"idle", "added"},
                                 host: Patterns \cup {NoHost}]]
  /\ page \in [Pages -> [pc: {"idle", "listing", "rendered"}, missing: SUBSET Hosts,
                         allowed: SUBSET (Allowed \cup Patterns)]]
  /\ refused \subseteq Hosts
  /\ resolved \subseteq Hosts
  /\ cleared \subseteq Hosts

NoRequest == [pc |-> "idle", host |-> NoHost, known |-> FALSE]
NoApproval == [pc |-> "idle", host |-> NoHost]
NoPage == [pc |-> "idle", missing |-> {}, allowed |-> {}]

\* Allowlist.Add, on a set of patterns: it tests the new pattern as if it were a
\* host.
Add(pattern, patterns) ==
  IF MatchDomain(pattern, patterns) THEN patterns ELSE patterns \cup {pattern}

\* NewAllowlist(allowedDomains); by MitmAssumption the Adds that follow change
\* nothing.
Init ==
  /\ items = Allowed
  /\ allowAll = 0
  /\ now = 0
  /\ denied = {}
  /\ req = [r \in Requests |-> NoRequest]
  /\ approval = [a \in Approvals |-> NoApproval]
  /\ page = [v \in Pages |-> NoPage]
  /\ refused = {}
  /\ resolved = {}
  /\ cleared = {}

WindowOpen == now < allowAll

\* Allowlist.Match, in one critical section.
Match(host) == WindowOpen \/ MatchDomain(host, items)

(* Faulty variants of definitions below, for the mutants of PROJECT.json. *)

\* Serve decides on the list the proxy was started with.
MatchAtStartup(r) ==
  LET h == req[r].host
  IN /\ req[r].pc = "arrived"
     /\ ~MatchDomain(h, Mitm)
     /\ ~(WindowOpen \/ MatchDomain(h, Allowed))
     /\ req' = [req EXCEPT ![r].pc = "denying"]
     /\ UNCHANGED <<list, now, denied, approval, page, history>>

\* A new button press counts from the end of the open window.
AllowAllLonger ==
  /\ allowAll' = (IF WindowOpen THEN allowAll ELSE now) + Window
  /\ UNCHANGED <<items, now, denied, req, approval, page, history>>

\* Approve empties the denied list.
ClearAll(a) ==
  /\ approval[a].pc = "added"
  /\ denied' = {}
  /\ approval' = [approval EXCEPT ![a] = NoApproval]
  /\ UNCHANGED <<list, now, req, page, history>>

\* Approve leaves the entry alone if Add had nothing to add.
ClearIfAdded(a) ==
  LET h == approval[a].host
  IN /\ approval[a].pc = "added"
     /\ denied' = IF h \in items THEN denied \ {h} ELSE denied
     /\ cleared' = cleared \cup
          {g \in {h} \cap Hosts :
             \A r \in Requests : ~(req[r].pc = "denying" /\ req[r].host = g)}
     /\ approval' = [approval EXCEPT ![a] = NoApproval]
     /\ UNCHANGED <<list, now, req, page, refused, resolved>>

\* renderIndex shows the list the proxy was started with.
PageAllowedAtStartup(v) ==
  /\ page[v].pc = "listing"
  /\ page' = [page EXCEPT ![v].pc = "rendered", ![v].allowed = Allowed]
  /\ UNCHANGED <<list, now, denied, req, approval, history>>

-----------------------------------------------------------------------------
(* Serve: one request, CONNECT or plain *)

Arrive(r) ==
  /\ req[r].pc = "idle"
  /\ \E h \in Hosts :
       req' = [req EXCEPT ![r] = [pc |-> "arrived", host |-> h,
                                  known |-> h \in resolved]]
  /\ UNCHANGED <<list, now, denied, approval, page, history>>

\* The host is intercepted, or the Allowlist matches: the request goes on.
Forward(r) ==
  /\ req[r].pc = "arrived"
  /\ MatchDomain(req[r].host, Mitm) \/ Match(req[r].host)
  /\ req' = [req EXCEPT ![r] = NoRequest]
  /\ UNCHANGED <<list, now, denied, approval, page, history>>

Deny(r) ==
  /\ req[r].pc = "arrived"
  /\ ~MatchDomain(req[r].host, Mitm)
  /\ ~Match(req[r].host)
  /\ req' = [req EXCEPT ![r].pc = "denying"]
  /\ UNCHANGED <<list, now, denied, approval, page, history>>

\* OnDeny is Approver.Record; then the request is answered with 403.
Record(r) ==
  /\ req[r].pc = "denying"
  /\ denied' = denied \cup {req[r].host}
  /\ refused' = refused \cup {req[r].host}
  /\ req' = [req EXCEPT ![r] = NoRequest]
  /\ UNCHANGED <<list, now, approval, page, resolved, cleared>>

-----------------------------------------------------------------------------
(* HandleDNSQuery, of a well-formed query of type A or AAAA *)

\* A name that does not match gets NXDOMAIN and changes nothing.
Resolve ==
  /\ \E h \in Hosts :
       /\ Match(h)
       /\ ~WindowOpen
       /\ resolved' = resolved \cup {h}
  /\ UNCHANGED <<list, now, denied, req, approval, page, refused, cleared>>

-----------------------------------------------------------------------------
(* The approval UI *)

\* Approve: the host joins the Allowlist.
ApproveAdd(a) ==
  /\ approval[a].pc = "idle"
  /\ \E p \in Patterns :
       /\ items' = Add(p, items)
       /\ approval' = [approval EXCEPT ![a] = [pc |-> "added", host |-> p]]
  /\ UNCHANGED <<allowAll, now, denied, req, page, history>>

\* Approve: the entry is deleted from the denied list.
ApproveClear(a) ==
  LET h == approval[a].host
  IN /\ approval[a].pc = "added"
     /\ denied' = denied \ {h}
     /\ cleared' = cleared \cup
          {g \in {h} \cap Hosts :
             \A r \in Requests : ~(req[r].pc = "denying" /\ req[r].host = g)}
     /\ approval' = [approval EXCEPT ![a] = NoApproval]
     /\ UNCHANGED <<list, now, req, page, refused, resolved>>

\* POST /allow-all: AllowAllFor(allowAllWindow).
AllowAllFor ==
  /\ now + Window > allowAll
  /\ allowAll' = now + Window
  /\ UNCHANGED <<items, now, denied, req, approval, page, history>>

\* renderIndex reads the denied list (missing: the hosts refused before that it
\* does not show as denied) ...
PageDenied(v) ==
  /\ page[v].pc = "idle"
  /\ page' = [page EXCEPT ![v] = [NoPage EXCEPT !.pc = "listing",
                                  !.missing = refused \ denied]]
  /\ UNCHANGED <<list, now, denied, req, approval, history>>

\* ... and then takes a snapshot of the allowlist.
PageAllowed(v) ==
  /\ page[v].pc = "listing"
  /\ page' = [page EXCEPT ![v].pc = "rendered", ![v].allowed = items]
  /\ UNCHANGED <<list, now, denied, req, approval, history>>

PageSent(v) ==
  /\ page[v].pc = "rendered"
  /\ page' = [page EXCEPT ![v] = NoPage]
  /\ UNCHANGED <<list, now, denied, req, approval, history>>

Tick ==
  /\ now < MaxTime
  /\ now' = now + 1
  /\ UNCHANGED <<list, denied, req, approval, page, history>>

Next ==
  \/ \E r \in Requests : Arrive(r) \/ Forward(r) \/ Deny(r) \/ Record(r)
  \/ Resolve
  \/ \E a \in Approvals : ApproveAdd(a) \/ ApproveClear(a)
  \/ AllowAllFor
  \/ \E v \in Pages : PageDenied(v) \/ PageAllowed(v) \/ PageSent(v)
  \/ Tick

Spec == Init /\ [][Next]_vars

-----------------------------------------------------------------------------
(* Properties *)

\* No refusal gets lost: a host that was refused, and is still not allowed, is on
\* the denied list, however refusals, approvals and the allow-all window
\* interleave (Approve adds before it deletes).
RefusedIsListed ==
  \A h \in refused : MatchDomain(h, items) \/ h \in denied

\* Nor does a page lose it: a host whose refusal was recorded before the page was
\* asked for is on the page, as denied or among the allowed, although the page
\* reads the two lists one after the other (renderIndex reads the denied first).
PageAccountsForRefused ==
  \A v \in Pages : page[v].pc = "rendered" =>
    \A h \in page[v].missing : MatchDomain(h, page[v].allowed)

\* An approved host comes back to the denied list only through a request that was
\* refused before the approval and not yet recorded.
ClearedStaysCleared == cleared \cap denied = {}

\* The proxy and the DNS server agree: once a name resolved outside an allow-all
\* window, no later request to it is refused.
ResolvedIsReachable ==
  \A r \in Requests : req[r].pc = "denying" => ~req[r].known
=============================================================================
