----------------------------- MODULE ProxySetup -----------------------------
(***************************************************************************)
(* What a proxy process makes of its flags before it serves: which hosts   *)
(* it intercepts, which it lets through, and whether it enforces anything  *)
(* (mainErr in main.go, network.go, and run in cmd/runclaude-proxy).       *)
(*                                                                         *)
(* Flags are a record f.  Those of main:                                   *)
(*   claudeLike   --claude or --claude-config                              *)
(*   override     --anthropic-key or --anthropic-bearer is not empty       *)
(*   stored       LoadAnthropicCredentials finds a token or a key          *)
(*   bedrock      CLAUDE_CODE_USE_BEDROCK is 1, in the settings too        *)
(*   fileAllow    allowDomains of the options file                         *)
(*   allow        the values of --allow-domain, <<>> being the empty one   *)
(*   upstreams    the hosts of --mitm-upstream, names without a star       *)
(*   restrictNet  --restrict-net                                           *)
(* and of the standalone proxy: anthropic, bedrock, defaults, allow and    *)
(* upstreams.  Lists are sets: nothing depends on their order.             *)
(***************************************************************************)
EXTENDS DomainMatch

CONSTANT DefaultAllowedDomains

Anthropic == <<"api", "anthropic", "com">>
BedrockPattern == <<"bedrock-runtime", Star, "amazonaws", "com">>
BedrockUsEast == <<"bedrock-runtime", "us-east-1", "amazonaws", "com">>

\* The loops that append a host unless the list matches it.
AddUnmatched(hosts, list) == list \cup {h \in hosts : ~MatchDomain(h, list)}

When(cond, S) == IF cond THEN S ELSE {}

\* domainList: the options file, then one Set per flag; an empty value sets the
\* list and adds nothing to it.
AllowDomain(f) ==
  [items |-> f.fileAllow \cup (f.allow \ {<<>>}),
   set |-> f.fileAllow # {} \/ f.allow # {}]

Requested(f) ==
  IF AllowDomain(f).set THEN AllowDomain(f).items ELSE DefaultAllowedDomains

-----------------------------------------------------------------------------
(* runclaude *)

UseBedrock(f) == f.claudeLike /\ ~f.override /\ f.bedrock

\* apiKey or bearer is set.  Loading that fails is only a warning.
HasCredential(f) == f.override \/ (f.claudeLike /\ ~f.bedrock /\ f.stored)

MitmDomains(f) ==
  AddUnmatched(f.upstreams, When(HasCredential(f), {Anthropic}))
    \cup When(UseBedrock(f), {BedrockPattern})

AllowedDomains(f) ==
  AddUnmatched(f.upstreams, AddUnmatched(When(HasCredential(f), {Anthropic}), Requested(f)))
    \cup When(UseBedrock(f), {BedrockPattern})

\* enforceAllowlist.  Without it, no proxy is started; with restrictNet the sandbox
\* then still has a network namespace of its own, and no way out of it.
Enforced(f) == f.restrictNet /\ (AllowedDomains(f) # {} \/ MitmDomains(f) # {})

-----------------------------------------------------------------------------
(* runclaude-proxy *)

StandaloneMitm(f) ==
  AddUnmatched(f.upstreams,
    When(f.anthropic, {Anthropic}) \cup When(f.bedrock, {BedrockPattern}))

\* The Bedrock pattern is left out if the list matches one region's host; Serve
\* asks the list only about hosts that it does not intercept.
StandaloneAllowed(f) ==
  LET base == When(f.defaults, DefaultAllowedDomains) \cup f.allow
      api == AddUnmatched(When(f.anthropic, {Anthropic}), base)
      bedrock == When(f.bedrock /\ ~MatchDomain(BedrockUsEast, api), {BedrockPattern})
  IN AddUnmatched(f.upstreams, api \cup bedrock)
=============================================================================
