---------------------------- MODULE Egress_proofs ----------------------------
(***************************************************************************)
(* Proofs about Egress for any number of requests, approvals and pages, any *)
(* configuration and any hosts.  The argument: the allowlist only grows, so *)
(* what it matched it matches for ever; Approve clears an entry after the  *)
(* list matches it; and a page reads the list after the entries.           *)
(*                                                                         *)
(* Then what the operators of DomainMatch and ProxySetup return, for any   *)
(* names and any setting of the flags.                                     *)
(***************************************************************************)
EXTENDS Egress, ProxySetup, TLAPS

\* Who is under way has a name to work on.
Named ==
  /\ \A r \in Requests : req[r].pc # "idle" => req[r].host \in Hosts
  /\ \A a \in Approvals : approval[a].pc = "added" => approval[a].host \in Patterns

\* What an Approve is about to clear is reachable by then.
ApprovalsReach ==
  \A a \in Approvals : approval[a].pc = "added" => MatchDomain(approval[a].host, items)

\* Hosts that a page does not show as denied are reachable.
ListingReach ==
  \A v \in Pages : page[v].pc = "listing" =>
    \A h \in page[v].missing : MatchDomain(h, items)

\* A cleared host is reachable, and no request to it is being refused.
ClearedSettled ==
  \A h \in cleared :
    /\ MatchDomain(h, items)
    /\ \A r \in Requests : req[r].pc = "denying" => req[r].host # h

\* What DNS resolved is reachable, and so is what a request knew when it came.
ResolvedReach ==
  /\ \A h \in resolved : MatchDomain(h, items)
  /\ \A r \in Requests : req[r].pc = "arrived" /\ req[r].known => MatchDomain(req[r].host, items)

Reach == ApprovalsReach /\ ListingReach /\ ClearedSettled /\ ResolvedReach

Safe ==
  /\ RefusedIsListed /\ PageAccountsForRefused
  /\ ClearedStaysCleared /\ ResolvedIsReachable

IInv == TypeOK /\ Named /\ Reach /\ Safe

-----------------------------------------------------------------------------
(* The allowlist *)

\* A longer list matches what a shorter one does.
LEMMA MatchGrows ==
  ASSUME NEW host, NEW P, NEW Q, P \subseteq Q, MatchDomain(host, P)
  PROVE  MatchDomain(host, Q)
  BY DEF MatchDomain

\* Add only ever adds its pattern ...
LEMMA AddGrows ==
  ASSUME NEW p, NEW P
  PROVE  P \subseteq Add(p, P) /\ Add(p, P) \subseteq P \cup {p}
  BY DEF Add

\* ... and afterwards the name it was given is matched, added or not.
LEMMA AddMatches ==
  ASSUME NEW p, NEW P
  PROVE  MatchDomain(p, Add(p, P))
<1>1. CASE MatchDomain(p, P)
  BY <1>1 DEF Add
<1>2. CASE ~MatchDomain(p, P)
  <2>1. matchPattern(p, p)
    BY DEF matchPattern
  <2>2. p \in Add(p, P)
    BY <1>2 DEF Add
  <2>3. QED
    BY <2>1, <2>2 DEF MatchDomain
<1>3. QED
  BY <1>1, <1>2

-----------------------------------------------------------------------------
(* The invariant *)

\* The initial state satisfies it.
LEMMA InitInv == Init => IInv
<1>1. SUFFICES ASSUME Init PROVE IInv
  OBVIOUS
<1>2. TypeOK
  BY <1>1, TimeAssumption DEF Init, TypeOK, NoRequest, NoApproval, NoPage, MaybeHost
<1>3. Named /\ Reach
  BY <1>1 DEF Init, Named, Reach, ApprovalsReach, ListingReach, ClearedSettled,
              ResolvedReach, NoRequest, NoApproval, NoPage
<1>4. Safe
  BY <1>1 DEF Init, Safe, RefusedIsListed, PageAccountsForRefused, ClearedStaysCleared,
              ResolvedIsReachable, NoRequest, NoPage
<1>5. QED
  BY <1>2, <1>3, <1>4 DEF IInv

\* Every step keeps the types and the names.
LEMMA TypedStep == ASSUME IInv, Next PROVE TypeOK' /\ Named'
<1>1. TypeOK /\ Named
  BY DEF IInv
<1>2. ASSUME NEW r \in Requests, Arrive(r) PROVE TypeOK' /\ Named'
  BY <1>1, <1>2 DEF Arrive, TypeOK, Named, MaybeHost, list, history
<1>3. ASSUME NEW r \in Requests, Forward(r) PROVE TypeOK' /\ Named'
  BY <1>1, <1>3 DEF Forward, TypeOK, Named, MaybeHost, NoRequest, list, history
<1>4. ASSUME NEW r \in Requests, Deny(r) PROVE TypeOK' /\ Named'
  BY <1>1, <1>4 DEF Deny, TypeOK, Named, MaybeHost, list, history
<1>5. ASSUME NEW r \in Requests, Record(r) PROVE TypeOK' /\ Named'
  BY <1>1, <1>5 DEF Record, TypeOK, Named, MaybeHost, NoRequest, list
<1>6. ASSUME Resolve PROVE TypeOK' /\ Named'
  BY <1>1, <1>6 DEF Resolve, TypeOK, Named, list
<1>7. ASSUME NEW a \in Approvals, ApproveAdd(a) PROVE TypeOK' /\ Named'
  <2>1. PICK p \in Patterns : /\ items' = Add(p, items)
                              /\ approval' = [approval EXCEPT ![a] = [pc |-> "added", host |-> p]]
    BY <1>7 DEF ApproveAdd
  <2>2. items' \subseteq Allowed \cup Patterns
    BY <1>1, <2>1, AddGrows DEF TypeOK
  <2>3. QED
    BY <1>1, <1>7, <2>1, <2>2 DEF ApproveAdd, TypeOK, Named, history
<1>8. ASSUME NEW a \in Approvals, ApproveClear(a) PROVE TypeOK' /\ Named'
  BY <1>1, <1>8 DEF ApproveClear, TypeOK, Named, NoApproval, list
<1>9. ASSUME AllowAllFor PROVE TypeOK' /\ Named'
  <2>1. allowAll' \in 0 .. MaxTime + Window
    BY <1>1, <1>9, TimeAssumption DEF AllowAllFor, TypeOK
  <2>2. QED
    BY <1>1, <1>9, <2>1 DEF AllowAllFor, TypeOK, Named, history
<1>10. ASSUME NEW v \in Pages, PageDenied(v) PROVE TypeOK' /\ Named'
  BY <1>1, <1>10 DEF PageDenied, TypeOK, Named, NoPage, list, history
<1>11. ASSUME NEW v \in Pages, PageAllowed(v) PROVE TypeOK' /\ Named'
  <2>1. items \in SUBSET (Allowed \cup Patterns)
    BY <1>1 DEF TypeOK
  <2>2. page' \in [Pages -> [pc: {"idle", "listing", "rendered"}, missing: SUBSET Hosts,
                            allowed: SUBSET (Allowed \cup Patterns)]]
    <3> DEFINE Page == [pc: {"idle", "listing", "rendered"}, missing: SUBSET Hosts,
                        allowed: SUBSET (Allowed \cup Patterns)]
    <3>1. page \in [Pages -> Page]
      BY <1>1 DEF TypeOK
    <3>2. page[v] \in Page
      BY <3>1
    <3>3. [page[v] EXCEPT !.pc = "rendered", !.allowed = items] \in Page
      BY <2>1, <3>2
    <3>4. page' = [page EXCEPT ![v] = [page[v] EXCEPT !.pc = "rendered", !.allowed = items]]
      BY <1>11 DEF PageAllowed
    <3> HIDE DEF Page
    <3>5. page' \in [Pages -> Page]
      BY <3>1, <3>3, <3>4
    <3> QED BY <3>5 DEF Page
  <2>3. QED
    BY <1>1, <1>11, <2>2 DEF PageAllowed, TypeOK, Named, list, history
<1>12. ASSUME NEW v \in Pages, PageSent(v) PROVE TypeOK' /\ Named'
  BY <1>1, <1>12 DEF PageSent, TypeOK, Named, NoPage, list, history
<1>13. ASSUME Tick PROVE TypeOK' /\ Named'
  <2>1. now' \in 0 .. MaxTime
    BY <1>1, <1>13, TimeAssumption DEF Tick, TypeOK
  <2>2. QED
    BY <1>1, <1>13, <2>1 DEF Tick, TypeOK, Named, list, history
<1>14. QED
  BY <1>2, <1>3, <1>4, <1>5, <1>6, <1>7, <1>8, <1>9, <1>10, <1>11, <1>12, <1>13 DEF Next

\* Every step keeps what is known of who is reachable.
LEMMA ReachStep == ASSUME IInv, Next PROVE Reach'
<1>1. TypeOK /\ Named /\ Reach /\ Safe
  BY DEF IInv
<1> USE DEF Reach, ApprovalsReach, ListingReach, ClearedSettled, ResolvedReach
<1>2. ASSUME NEW r \in Requests, Arrive(r) PROVE Reach'
  <2>1. PICK h \in Hosts :
          req' = [req EXCEPT ![r] = [pc |-> "arrived", host |-> h, known |-> h \in resolved]]
    BY <1>2 DEF Arrive
  <2>2. UNCHANGED <<items, approval, page, resolved, cleared>>
    BY <1>2 DEF Arrive, list, history
  <2>3. \A s \in Requests : s # r => req'[s] = req[s]
    BY <1>1, <2>1 DEF TypeOK
  <2>4. /\ req'[r].pc = "arrived" /\ req'[r].host = h
        /\ req'[r].known => h \in resolved
    BY <1>1, <2>1 DEF TypeOK
  <2>5. ApprovalsReach' /\ ListingReach'
    BY <1>1, <2>2
  <2>6. ClearedSettled'
    BY <1>1, <2>2, <2>3, <2>4
  <2>7. ResolvedReach'
    BY <1>1, <2>2, <2>3, <2>4
  <2>8. QED
    BY <2>5, <2>6, <2>7
<1>3. ASSUME NEW r \in Requests, Forward(r) PROVE Reach'
  BY <1>1, <1>3 DEF Forward, TypeOK, NoRequest, list, history
<1>4. ASSUME NEW r \in Requests, Deny(r) PROVE Reach'
  BY <1>1, <1>4 DEF Deny, Match, TypeOK, list, history
<1>5. ASSUME NEW r \in Requests, Record(r) PROVE Reach'
  BY <1>1, <1>5 DEF Record, TypeOK, NoRequest, list
<1>6. ASSUME Resolve PROVE Reach'
  BY <1>1, <1>6 DEF Resolve, Match, list
<1>7. ASSUME NEW a \in Approvals, ApproveAdd(a) PROVE Reach'
  <2>1. PICK p \in Patterns : /\ items' = Add(p, items)
                              /\ approval' = [approval EXCEPT ![a] = [pc |-> "added", host |-> p]]
    BY <1>7 DEF ApproveAdd
  <2>2. MatchDomain(p, items')
    BY <2>1, AddMatches
  <2>3. \A h : MatchDomain(h, items) => MatchDomain(h, items')
    BY <2>1, AddGrows, MatchGrows
  <2>4. UNCHANGED <<req, page, history>>
    BY <1>7 DEF ApproveAdd
  <2>5. ApprovalsReach'
    BY <1>1, <2>1, <2>2, <2>3 DEF TypeOK
  <2>6. ListingReach' /\ ClearedSettled' /\ ResolvedReach'
    BY <1>1, <2>3, <2>4 DEF history
  <2>7. QED
    BY <2>5, <2>6
<1>8. ASSUME NEW a \in Approvals, ApproveClear(a) PROVE Reach'
  <2>1. ApprovalsReach' /\ ListingReach' /\ ResolvedReach'
    BY <1>1, <1>8 DEF ApproveClear, TypeOK, NoApproval, list
  <2>2. MatchDomain(approval[a].host, items)
    BY <1>1, <1>8 DEF ApproveClear
  <2>3. ClearedSettled'
    BY <1>1, <1>8, <2>2 DEF ApproveClear, list
  <2>4. QED
    BY <2>1, <2>3
<1>9. ASSUME AllowAllFor PROVE Reach'
  BY <1>1, <1>9 DEF AllowAllFor, history
<1>10. ASSUME NEW v \in Pages, PageDenied(v) PROVE Reach'
  <2>1. \A h \in refused \ denied : MatchDomain(h, items)
    BY <1>1 DEF Safe, RefusedIsListed
  <2>2. ListingReach'
    BY <1>1, <1>10, <2>1 DEF PageDenied, TypeOK, NoPage, list, history
  <2>3. ApprovalsReach' /\ ClearedSettled' /\ ResolvedReach'
    BY <1>1, <1>10 DEF PageDenied, list, history
  <2>4. QED
    BY <2>2, <2>3
<1>11. ASSUME NEW v \in Pages, PageAllowed(v) PROVE Reach'
  BY <1>1, <1>11 DEF PageAllowed, TypeOK, list, history
<1>12. ASSUME NEW v \in Pages, PageSent(v) PROVE Reach'
  BY <1>1, <1>12 DEF PageSent, TypeOK, NoPage, list, history
<1>13. ASSUME Tick PROVE Reach'
  BY <1>1, <1>13 DEF Tick, list, history
<1>14. QED
  BY <1>2, <1>3, <1>4, <1>5, <1>6, <1>7, <1>8, <1>9, <1>10, <1>11, <1>12, <1>13 DEF Next

\* Every step keeps the four properties.
LEMMA SafeStep == ASSUME IInv, Next PROVE Safe'
<1>1. TypeOK /\ Named /\ Reach /\ Safe
  BY DEF IInv
<1> USE DEF Safe, RefusedIsListed, PageAccountsForRefused, ClearedStaysCleared,
            ResolvedIsReachable
<1>2. ASSUME NEW r \in Requests, Arrive(r) PROVE Safe'
  BY <1>1, <1>2 DEF Arrive, TypeOK, list, history
<1>3. ASSUME NEW r \in Requests, Forward(r) PROVE Safe'
  BY <1>1, <1>3 DEF Forward, TypeOK, NoRequest, list, history
<1>4. ASSUME NEW r \in Requests, Deny(r) PROVE Safe'
  BY <1>1, <1>4 DEF Deny, Match, TypeOK, Reach, ResolvedReach, list, history
<1>5. ASSUME NEW r \in Requests, Record(r) PROVE Safe'
  BY <1>1, <1>5 DEF Record, TypeOK, NoRequest, Reach, ClearedSettled, list
<1>6. ASSUME Resolve PROVE Safe'
  BY <1>1, <1>6 DEF Resolve, list
<1>7. ASSUME NEW a \in Approvals, ApproveAdd(a) PROVE Safe'
  <2>1. PICK p \in Patterns : items' = Add(p, items)
    BY <1>7 DEF ApproveAdd
  <2>2. \A h : MatchDomain(h, items) => MatchDomain(h, items')
    BY <2>1, AddGrows, MatchGrows
  <2>3. QED
    BY <1>1, <1>7, <2>2 DEF ApproveAdd, history
<1>8. ASSUME NEW a \in Approvals, ApproveClear(a) PROVE Safe'
  <2>1. MatchDomain(approval[a].host, items)
    BY <1>1, <1>8 DEF ApproveClear, Reach, ApprovalsReach
  <2>2. QED
    BY <1>1, <1>8, <2>1 DEF ApproveClear, list
<1>9. ASSUME AllowAllFor PROVE Safe'
  BY <1>1, <1>9 DEF AllowAllFor, history
<1>10. ASSUME NEW v \in Pages, PageDenied(v) PROVE Safe'
  BY <1>1, <1>10 DEF PageDenied, TypeOK, NoPage, list, history
<1>11. ASSUME NEW v \in Pages, PageAllowed(v) PROVE Safe'
  BY <1>1, <1>11 DEF PageAllowed, TypeOK, Reach, ListingReach, list, history
<1>12. ASSUME NEW v \in Pages, PageSent(v) PROVE Safe'
  BY <1>1, <1>12 DEF PageSent, TypeOK, NoPage, list, history
<1>13. ASSUME Tick PROVE Safe'
  BY <1>1, <1>13 DEF Tick, list, history
<1>14. QED
  BY <1>2, <1>3, <1>4, <1>5, <1>6, <1>7, <1>8, <1>9, <1>10, <1>11, <1>12, <1>13 DEF Next

\* IInv is inductive.
THEOREM Invariance == Spec => []IInv
<1>1. IInv /\ [Next]_vars => IInv'
  <2>1. SUFFICES ASSUME IInv, [Next]_vars PROVE IInv'
    OBVIOUS
  <2>2. CASE Next
    BY <2>1, <2>2, TypedStep, ReachStep, SafeStep DEF IInv
  <2>3. CASE UNCHANGED vars
    BY <2>1, <2>3 DEF vars, list, history, IInv, TypeOK, Named, Reach, ApprovalsReach,
         ListingReach, ClearedSettled, ResolvedReach, Safe, RefusedIsListed,
         PageAccountsForRefused, ClearedStaysCleared, ResolvedIsReachable
  <2>4. QED
    BY <2>1, <2>2, <2>3
<1>2. QED
  BY InitInv, <1>1, PTL DEF Spec

\* Every reachable state is type-correct.
THEOREM TypeCorrect == Spec => []TypeOK
<1>1. IInv => TypeOK
  BY DEF IInv
<1>2. QED
  BY <1>1, Invariance, PTL

\* No refusal gets lost from the denied list (Record, Approve).
THEOREM RefusalsListed == Spec => []RefusedIsListed
<1>1. IInv => RefusedIsListed
  BY DEF IInv, Safe
<1>2. QED
  BY <1>1, Invariance, PTL

\* No page loses a refusal, although it reads the two lists apart (renderIndex).
THEOREM PagesComplete == Spec => []PageAccountsForRefused
<1>1. IInv => PageAccountsForRefused
  BY DEF IInv, Safe
<1>2. QED
  BY <1>1, Invariance, PTL

\* A host that Approve cleared is not listed as denied again.
THEOREM ClearedForGood == Spec => []ClearedStaysCleared
<1>1. IInv => ClearedStaysCleared
  BY DEF IInv, Safe
<1>2. QED
  BY <1>1, Invariance, PTL

\* Serve does not refuse what HandleDNSQuery resolved.
THEOREM ResolvedServed == Spec => []ResolvedIsReachable
<1>1. IInv => ResolvedIsReachable
  BY DEF IInv, Safe
<1>2. QED
  BY <1>1, Invariance, PTL

-----------------------------------------------------------------------------
(* What a pattern matches, and what Add leaves out *)

\* The pattern leads with a star and the host ends with what follows it.
Under(host, pattern) ==
  /\ Len(pattern) > 1 /\ pattern[1] = Star
  /\ Len(host) + 1 >= Len(pattern)
  /\ \A i \in 2 .. Len(pattern) : host[Len(host) - Len(pattern) + i] = pattern[i]

\* The pattern and the host agree label by label, but for the pattern's stars.
Alike(host, pattern) ==
  /\ Len(pattern) = Len(host)
  /\ \A i \in 1 .. Len(pattern) : pattern[i] = Star \/ pattern[i] = host[i]

\* A host ends with a base if it is the base or has it as its suffix.
LEMMA EndsWith ==
  ASSUME NEW host \in Seq(STRING), NEW base \in Seq(STRING)
  PROVE  host = base \/ HasSuffix(host, base) <=>
           /\ Len(host) >= Len(base)
           /\ \A i \in 1 .. Len(base) : host[Len(host) - Len(base) + i] = base[i]
<1>1. CASE Len(host) < Len(base)
  BY <1>1 DEF HasSuffix
<1>2. CASE Len(host) = Len(base)
  <2>1. ~HasSuffix(host, base)
    BY <1>2 DEF HasSuffix
  <2>2. host = base <=> \A i \in 1 .. Len(base) : host[i] = base[i]
    BY <1>2
  <2> QED BY <1>2, <2>1, <2>2
<1>3. CASE Len(host) > Len(base)
  <2> DEFINE d == Len(host) - Len(base)
  <2> DEFINE end == SubSeq(host, d + 1, Len(host))
  <2>1. /\ end \in Seq(STRING) /\ Len(end) = Len(base)
        /\ \A i \in 1 .. Len(base) : end[i] = host[d + i]
    BY <1>3
  <2>2. host # base /\ (HasSuffix(host, base) <=> end = base)
    BY <1>3 DEF HasSuffix
  <2> HIDE DEF end
  <2>3. end = base <=> \A i \in 1 .. Len(base) : end[i] = base[i]
    BY <2>1
  <2> QED BY <1>3, <2>1, <2>2, <2>3
<1> QED BY <1>1, <1>2, <1>3

LEMMA UnderIsEnd ==
  ASSUME NEW host \in Seq(STRING), NEW pattern \in Seq(STRING),
         Len(pattern) > 1, pattern[1] = Star
  PROVE  host = Tail(pattern) \/ HasSuffix(host, Tail(pattern)) <=> Under(host, pattern)
<1> DEFINE base == Tail(pattern)
<1>1. /\ base \in Seq(STRING) /\ Len(base) = Len(pattern) - 1
      /\ \A i \in 1 .. Len(base) : base[i] = pattern[i + 1]
  OBVIOUS
<1> HIDE DEF base
<1>2. host = base \/ HasSuffix(host, base) <=>
        /\ Len(host) >= Len(base)
        /\ \A i \in 1 .. Len(base) : host[Len(host) - Len(base) + i] = base[i]
  BY <1>1, EndsWith
<1>3. ASSUME \A i \in 1 .. Len(base) : host[Len(host) - Len(base) + i] = base[i],
             NEW i \in 2 .. Len(pattern)
      PROVE  host[Len(host) - Len(pattern) + i] = pattern[i]
  <2>1. i - 1 \in 1 .. Len(base)  BY <1>1
  <2>2. host[Len(host) - Len(base) + (i - 1)] = base[i - 1]  BY <1>3, <2>1
  <2>3. Len(host) - Len(base) + (i - 1) = Len(host) - Len(pattern) + i  BY <1>1
  <2>4. base[i - 1] = pattern[(i - 1) + 1] /\ (i - 1) + 1 = i  BY <1>1, <2>1
  <2> QED BY <2>2, <2>3, <2>4
<1>4. ASSUME \A i \in 2 .. Len(pattern) : host[Len(host) - Len(pattern) + i] = pattern[i],
             NEW i \in 1 .. Len(base)
      PROVE  host[Len(host) - Len(base) + i] = base[i]
  <2>1. i + 1 \in 2 .. Len(pattern)  BY <1>1
  <2>2. Len(host) - Len(pattern) + (i + 1) = Len(host) - Len(base) + i  BY <1>1
  <2> QED BY <1>1, <1>4, <2>1, <2>2
<1>5. Len(host) >= Len(base) <=> Len(host) + 1 >= Len(pattern)
  BY <1>1
<1>6. host = base \/ HasSuffix(host, base) <=> Under(host, pattern)
  BY <1>2, <1>3, <1>4, <1>5 DEF Under
<1> QED BY <1>6 DEF base

\* matchPattern, by positions.
LEMMA MatchByLabel ==
  ASSUME NEW host \in Seq(STRING), NEW pattern \in Seq(STRING)
  PROVE  matchPattern(host, pattern) <=>
           pattern = host \/ Under(host, pattern) \/ Alike(host, pattern)
<1>1. Alike(host, pattern) <=> /\ Len(pattern) = Len(host)
                               /\ \A i \in 1 .. Len(pattern) : pattern[i] \in {Star, host[i]}
  BY DEF Alike
<1>2. Under(host, pattern) => Len(pattern) > 1 /\ pattern[1] = Star
  BY DEF Under
<1> QED BY <1>1, <1>2, UnderIsEnd DEF matchPattern

Plain(pattern, first) == \A i \in first .. Len(pattern) : pattern[i] # Star

\* Approving a host lets that host through and no other (Approve, Add).
THEOREM ApprovalIsExact ==
  ASSUME NEW host \in Seq(STRING), Plain(host, 1), NEW P, NEW other \in Seq(STRING)
  PROVE  MatchDomain(other, Add(host, P)) <=> MatchDomain(other, P) \/ other = host
<1>1. matchPattern(other, host) => other = host
  <2>1. ~Under(other, host)
    BY DEF Under, Plain
  <2>2. Alike(other, host) => other = host
    BY DEF Alike, Plain
  <2> QED BY <2>1, <2>2, MatchByLabel
<1>2. MatchDomain(other, Add(host, P)) => MatchDomain(other, P) \/ other = host
  BY <1>1 DEF MatchDomain, Add
<1> QED BY <1>2, AddMatches, AddGrows, MatchGrows

\* A leading "*." lets through the name behind it and whatever ends with it, at any
\* depth, as the comment of MatchDomain says, and nothing else: that the star also
\* stands for one label adds no host.
THEOREM WildcardIsSuffix ==
  ASSUME NEW host \in Seq(STRING), NEW pattern \in Seq(STRING),
         Len(pattern) > 1, pattern[1] = Star, Plain(pattern, 2)
  PROVE  matchPattern(host, pattern) <=>
           host = Tail(pattern) \/ HasSuffix(host, Tail(pattern))
<1>1. Alike(host, pattern) => Under(host, pattern)
  BY DEF Alike, Under, Plain
<1>2. pattern = host => Under(host, pattern)
  BY DEF Under
<1> QED BY <1>1, <1>2, MatchByLabel, UnderIsEnd

\* A pattern that a pattern matches, as if it were a host, matches nothing else,
\* unless the wider one leads with a star and has another one behind.
LEMMA MatchTransitive ==
  ASSUME NEW wide \in Seq(STRING), NEW p \in Seq(STRING), NEW host \in Seq(STRING),
         wide[1] = Star => Plain(wide, 2),
         matchPattern(p, wide), matchPattern(host, p)
  PROVE  matchPattern(host, wide)
<1> SUFFICES ASSUME wide # p, p # host
             PROVE  Under(host, wide) \/ Alike(host, wide)
  BY MatchByLabel
<1>1. /\ Under(p, wide) \/ Alike(p, wide)
      /\ Under(host, p) \/ Alike(host, p)
  BY MatchByLabel
<1>2. CASE Under(p, wide) /\ Under(host, p)
  <2>1. Len(p) # Len(wide) - 1
    <3>1. SUFFICES ASSUME Len(p) = Len(wide) - 1 PROVE FALSE
      OBVIOUS
    <3>2. p[Len(p) - Len(wide) + 2] = wide[2] /\ 2 \in 2 .. Len(wide)
      BY <1>2 DEF Under
    <3>3. p[1] = wide[2]  BY <3>1, <3>2
    <3> QED BY <1>2, <3>2, <3>3 DEF Under, Plain
  <2>2. ASSUME NEW i \in 2 .. Len(wide)
        PROVE  host[Len(host) - Len(wide) + i] = wide[i]
    <3> DEFINE k == Len(p) - Len(wide) + i
    <3>1. k \in 2 .. Len(p) /\ p[k] = wide[i]
      BY <1>2, <2>1 DEF Under
    <3>2. host[Len(host) - Len(p) + k] = p[k]
      BY <1>2, <3>1 DEF Under
    <3>3. Len(host) - Len(p) + k = Len(host) - Len(wide) + i
      OBVIOUS
    <3> QED BY <3>1, <3>2, <3>3
  <2> QED BY <1>2, <2>1, <2>2 DEF Under
<1>3. CASE Under(p, wide) /\ Alike(host, p)
  <2>1. ASSUME NEW i \in 2 .. Len(wide)
        PROVE  host[Len(host) - Len(wide) + i] = wide[i]
    <3> DEFINE k == Len(p) - Len(wide) + i
    <3>1. k \in 1 .. Len(p) /\ p[k] = wide[i] /\ wide[i] # Star
      BY <1>3 DEF Under, Plain
    <3>2. host[k] = p[k]
      BY <1>3, <3>1 DEF Alike
    <3>3. Len(host) - Len(wide) + i = k
      BY <1>3 DEF Alike
    <3> QED BY <3>1, <3>2, <3>3
  <2> QED BY <1>3, <2>1 DEF Under, Alike
<1>4. CASE Alike(p, wide) /\ Under(host, p)
  <2>1. wide[1] = Star
    BY <1>4 DEF Alike, Under
  <2>2. \A i \in 1 .. Len(wide) : wide[i] = p[i]
    BY <1>4, <2>1 DEF Alike, Under, Plain
  <2>3. wide = p
    BY <1>4, <2>2 DEF Alike
  <2> QED BY <2>3
<1>5. CASE Alike(p, wide) /\ Alike(host, p)
  BY <1>5 DEF Alike
<1> QED BY <1>1, <1>2, <1>3, <1>4, <1>5

\* Add tests the new pattern as if it were a host, and that loses nothing: whether
\* it was appended or not, the list matches what it did and what the pattern does,
\* as long as no pattern of the list leads with a star and has another one behind.
\* (To a list with "*.*" Add does not append "*.com", and "a.b.com" stays out.)
THEOREM AddLosesNothing ==
  ASSUME NEW P \in SUBSET Seq(STRING), NEW p \in Seq(STRING), NEW host \in Seq(STRING),
         \A q \in P : q[1] = Star => Plain(q, 2)
  PROVE  MatchDomain(host, Add(p, P)) <=> MatchDomain(host, P) \/ matchPattern(host, p)
<1>1. MatchDomain(p, P) /\ matchPattern(host, p) => MatchDomain(host, P)
  BY MatchTransitive DEF MatchDomain
<1> QED BY <1>1 DEF MatchDomain, Add

\* What Approve has added lets through every host its pattern means, not only the
\* name of the pattern itself.
ApprovedPass ==
  \A a \in Approvals : approval[a].pc = "added" =>
    \A host \in Seq(STRING) :
      matchPattern(host, approval[a].host) => MatchDomain(host, items)

\* It does so whatever the list held before, added in earnest or taken for matched
\* (Approve, Add); on the patterns as in AddLosesNothing.
THEOREM ApprovalsTakeEffect ==
  ASSUME \A q \in Allowed \cup Patterns : q[1] = Star => Plain(q, 2)
  PROVE  Spec => []ApprovedPass
<1>1. IInv => ApprovedPass
  <2>1. SUFFICES ASSUME IInv, NEW a \in Approvals, approval[a].pc = "added",
                        NEW host \in Seq(STRING), matchPattern(host, approval[a].host)
                 PROVE  MatchDomain(host, items)
    BY DEF ApprovedPass
  <2> DEFINE p == approval[a].host
  <2>2. p \in Patterns /\ MatchDomain(p, items)
    BY <2>1 DEF IInv, Named, Reach, ApprovalsReach
  <2>3. PICK q \in items : matchPattern(p, q)
    BY <2>2 DEF MatchDomain
  <2>4. q \in Allowed \cup Patterns
    BY <2>1, <2>3 DEF IInv, TypeOK
  <2>5. p \in Seq(STRING) /\ q \in Seq(STRING)
    BY <2>2, <2>4, NamesAssumption
  <2>6. matchPattern(host, q)
    BY <2>1, <2>3, <2>4, <2>5, MatchTransitive
  <2> QED BY <2>3, <2>6 DEF MatchDomain
<1> QED BY <1>1, Invariance, PTL

-----------------------------------------------------------------------------
(* The lists the proxy starts with, for every setting of the flags *)

\* A name matches itself.
LEMMA MatchSelf == ASSUME NEW h, NEW P, h \in P PROVE MatchDomain(h, P)
  BY DEF MatchDomain, matchPattern

\* The loops that append unmatched hosts only add, only those hosts, and leave
\* every one of them matched.
LEMMA AddUnmatchedMatches ==
  ASSUME NEW hosts, NEW P
  PROVE  /\ P \subseteq AddUnmatched(hosts, P)
         /\ AddUnmatched(hosts, P) \subseteq P \cup hosts
         /\ \A h \in hosts : MatchDomain(h, AddUnmatched(hosts, P))
<1>1. P \subseteq AddUnmatched(hosts, P) /\ AddUnmatched(hosts, P) \subseteq P \cup hosts
  BY DEF AddUnmatched
<1>2. ASSUME NEW h \in hosts PROVE MatchDomain(h, AddUnmatched(hosts, P))
  <2>1. CASE MatchDomain(h, P)
    BY <1>1, <2>1, MatchGrows
  <2>2. CASE ~MatchDomain(h, P)
    <3>1. h \in AddUnmatched(hosts, P)  BY <2>2 DEF AddUnmatched
    <3> QED BY <3>1, MatchSelf
  <2> QED BY <2>1, <2>2
<1> QED BY <1>1, <1>2

\* Every host that runclaude intercepts is matched by its allow list, whatever the
\* flags (main.go 535-607): DNS resolves it, the Adds of main.go 664-666 change
\* nothing, and Egress may assume it (MitmAssumption).
THEOREM MitmAllowed ==
  ASSUME NEW f
  PROVE  \A m \in MitmDomains(f) : MatchDomain(m, AllowedDomains(f))
<1> DEFINE api == When(HasCredential(f), {Anthropic})
<1> DEFINE bedrock == When(UseBedrock(f), {BedrockPattern})
<1> DEFINE first == AddUnmatched(api, Requested(f))
<1> DEFINE second == AddUnmatched(f.upstreams, first)
<1> SUFFICES ASSUME NEW m \in MitmDomains(f) PROVE MatchDomain(m, AllowedDomains(f))
  OBVIOUS
<1>1. AllowedDomains(f) = second \cup bedrock
  BY DEF AllowedDomains
<1>2. m \in api \/ m \in f.upstreams \/ m \in bedrock
  <2>1. MitmDomains(f) = AddUnmatched(f.upstreams, api) \cup bedrock
    BY DEF MitmDomains
  <2> HIDE DEF api, bedrock
  <2> QED BY <2>1, AddUnmatchedMatches
<1> HIDE DEF api, bedrock, second
<1>3. CASE m \in api
  <2>1. MatchDomain(m, first)  BY <1>3, AddUnmatchedMatches
  <2> HIDE DEF first
  <2>2. first \subseteq AllowedDomains(f)  BY <1>1, AddUnmatchedMatches DEF second
  <2> QED BY <2>1, <2>2, MatchGrows
<1>4. CASE m \in f.upstreams
  <2> HIDE DEF first
  <2>1. MatchDomain(m, second)  BY <1>4, AddUnmatchedMatches DEF second
  <2> QED BY <1>1, <2>1, MatchGrows
<1>5. CASE m \in bedrock
  BY <1>1, <1>5, MatchSelf
<1> QED BY <1>2, <1>3, <1>4, <1>5

\* An empty --allow-domain does not turn enforcement off while there is a credential
\* to inject (the flag's help, main.go 467, says it does): the API host is put on
\* the lists, and enforceAllowlist looks at those (network.go 34-36).
THEOREM EmptyAllowStillEnforced ==
  ASSUME NEW f, f.restrictNet, HasCredential(f)
  PROVE  Enforced(f)
<1>1. Anthropic \in When(HasCredential(f), {Anthropic})
  BY DEF When
<1>2. Anthropic \in AddUnmatched(f.upstreams, When(HasCredential(f), {Anthropic}))
  BY <1>1, AddUnmatchedMatches
<1>3. Anthropic \in MitmDomains(f)
  BY <1>2 DEF MitmDomains
<1> QED BY <1>3 DEF Enforced
=============================================================================
