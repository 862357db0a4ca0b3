----------------------------- MODULE DomainMatch -----------------------------
(***************************************************************************)
(* proxy/match.go: does a host match a pattern of the allowlist?           *)
(*                                                                         *)
(* A name is the sequence of its labels.  Names stand for their lower-case *)
(* form: MatchDomain lower-cases both sides.  A label that merely contains *)
(* a star ("foo*") is a label like any other; only the label Star is wild. *)
(***************************************************************************)
EXTENDS Integers, Sequences

Star == "*"

\* strings.HasSuffix(host, "." + base).
HasSuffix(host, base) ==
  /\ Len(host) > Len(base)
  /\ SubSeq(host, Len(host) - Len(base) + 1, Len(host)) = base

\* A leading "*." stands for any number of labels, none included; and in every
\* pattern each star stands for one label.
matchPattern(host, pattern) ==
  \/ pattern = host
  \/ /\ Len(pattern) > 1
     /\ pattern[1] = Star
     /\ host = Tail(pattern) \/ HasSuffix(host, Tail(pattern))
  \/ /\ Len(pattern) = Len(host)
     /\ \A i \in 1 .. Len(pattern) : pattern[i] \in {Star, host[i]}

MatchDomain(host, patterns) == \E p \in patterns : matchPattern(host, p)
=============================================================================
