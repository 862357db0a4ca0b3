------------------------------ MODULE MCEgress ------------------------------
(* TLC instances of Egress, under the lists that ProxySetup makes of flags. *)
EXTENDS Egress, ProxySetup, TLC

\* A host, a host below it, and one that is allowed and intercepted.
MCHosts == {<<"a", "x">>, <<"b", "a", "x">>, <<"m", "x">>}

\* The user approves a host that was refused, or a.x and everything below it.
MCPatterns == {<<"b", "a", "x">>, <<"*", "a", "x">>}

\* --allow-domain= --mitm-upstream m.x=...: the default list is dropped.
MCFlags ==
  [claudeLike |-> TRUE, override |-> FALSE, stored |-> TRUE, bedrock |-> FALSE,
   fileAllow |-> {}, allow |-> {<<>>}, upstreams |-> {<<"m", "x">>}, restrictNet |-> TRUE]

MCAllowed == AllowedDomains(MCFlags)
MCMitm == MitmDomains(MCFlags)
MCDefaults == {<<"a", "x">>, Anthropic}

\* A proxy serves this run only if the flags ask for one.
ASSUME FlagsAssumption == Enforced(MCFlags)

SlotSymmetry == Permutations(Requests) \cup Permutations(Approvals)
=============================================================================
