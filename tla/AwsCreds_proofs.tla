--------------------------- MODULE AwsCreds_proofs ---------------------------
(***************************************************************************)
(* Proofs about AwsCreds for any number of requests and logins, with and   *)
(* without a login command.  The argument is the mutex: whoever is beyond  *)
(* Lock holds it, so no login happens between its own steps, and what it   *)
(* learnt of the last login is still true when it logs in or installs.     *)
(***************************************************************************)
EXTENDS AwsCreds, TLAPS

Locked == {"second", "login", "load", "install", "third", "unlock"}

\* A request between Lock and Unlock is the holder of the mutex.
Exclusion == \A r \in Requests : req[r].pc \in Locked => mu = r

\* The holder's last call was made after the last login, and the config it is
\* to install was loaded after it.
Current ==
  \A r \in Requests :
    /\ req[r].pc \in {"second", "login"} => req[r].since = login
    /\ req[r].pc = "install" => req[r].config = login

IInv == TypeOK /\ Exclusion /\ Current

\* The values req is set to are requests.
LEMMA RequestTyped ==
  ASSUME TypeOK, NEW r \in Requests, NEW pc \in Phases, NEW c \in Logins
  PROVE  /\ [req[r] EXCEPT !.pc = pc] \in Request
         /\ [req[r] EXCEPT !.pc = pc, !.config = c] \in Request
         /\ [req[r] EXCEPT !.pc = pc, !.config = c, !.since = login] \in Request
         /\ [req[r] EXCEPT !.cancelled = TRUE] \in Request
BY DEF TypeOK, Request

\* A request without a past is one.
LEMMA NoRequestTyped ==
  NoRequest \in Request /\ [NoRequest EXCEPT !.pc = "body"] \in Request
<1>1. 0 \in Logins
  BY LoginsAssumption DEF Logins
<1>2. NoRequest \in Request
  BY <1>1 DEF NoRequest, Request, Phases
<1> QED BY <1>2 DEF Request, Phases

\* The initial state satisfies the invariant.
LEMMA InitInv == Init => IInv
<1> SUFFICES ASSUME Init PROVE IInv
  OBVIOUS
<1>1. req \in [Requests -> Request]
  BY NoRequestTyped DEF Init
<1>2. \A r \in Requests : req[r].pc = "idle"
  BY DEF Init, NoRequest
<1>3. {0} \subseteq 0 .. 0 /\ 0 \in Logins
  BY LoginsAssumption DEF Logins
<1>4. TypeOK
  BY <1>1, <1>3 DEF Init, TypeOK
<1>5. Exclusion /\ Current
  BY <1>2 DEF Exclusion, Current, Locked
<1> QED BY <1>4, <1>5 DEF IInv

\* The steps that change neither login nor the provider and leave r outside the
\* critical section, or move it within it without a new claim about the login.
LEMMA MoveInv ==
  ASSUME IInv, NEW r \in Requests, NEW q \in Request,
         req' = [req EXCEPT ![r] = q],
         UNCHANGED <<provider, login, expired, rereads>>, cached' \subseteq Logins,
         q.pc \in Locked => req[r].pc \in Locked,
         q.pc \in {"second", "login"} => q.since = login,
         q.pc = "install" => q.config = login
  PROVE  IInv'
<1>1. TypeOK'
  BY DEF IInv, TypeOK, provider
<1>2. \A s \in Requests : req'[s] = IF s = r THEN q ELSE req[s]
  BY DEF IInv, TypeOK
<1>3. Exclusion'
  BY <1>2 DEF IInv, Exclusion, provider
<1>4. Current'
  BY <1>2 DEF IInv, Current
<1> QED BY <1>1, <1>3, <1>4 DEF IInv

\* A call into the SDK changes at most its cache.
LEMMA CallEnds ==
  ASSUME IInv, NEW r \in Requests, req[r].config \in Logins,
         Succeeds(r) \/ Fails(r)
  PROVE  cached' \subseteq Logins /\ UNCHANGED <<login, expired, rereads>>
BY DEF IInv, TypeOK, Succeeds, Fails, aws

\* Every step of a request keeps the invariant.
LEMMA StepInv ==
  ASSUME IInv, NEW r \in Requests, Arrive(r) \/ Lock(r) \/ Step(r) \/ Cancel(r)
  PROVE  IInv'
<1> DEFINE To(pc) == [req[r] EXCEPT !.pc = pc]
           Calls(pc, c) == [req[r] EXCEPT !.pc = pc, !.config = c, !.since = login]
<1>1. /\ TypeOK /\ req[r] \in Request /\ login \in Logins /\ login \in Nat
      /\ req[r].config \in Logins
      /\ held \subseteq Logins /\ cfg \in held /\ cached \subseteq Logins
  BY LoginsAssumption DEF IInv, TypeOK, Request, Logins
<1>2. ASSUME NEW pc \in Phases
      PROVE  /\ To(pc) \in Request /\ To(pc).pc = pc
             /\ To(pc).since = req[r].since /\ To(pc).config = req[r].config
  BY <1>1, RequestTyped DEF Request
<1>3. ASSUME NEW pc \in Phases, NEW c \in Logins
      PROVE  /\ Calls(pc, c) \in Request /\ Calls(pc, c).pc = pc
             /\ Calls(pc, c).since = login
  BY <1>1, RequestTyped DEF Request
<1> HIDE DEF To, Calls
<1>4. CASE Arrive(r)
  <2> DEFINE q == [NoRequest EXCEPT !.pc = "body"]
  <2>1. q \in Request /\ q.pc = "body"
    BY NoRequestTyped DEF NoRequest
  <2> HIDE DEF q
  <2> QED BY <2>1, <1>4, <1>1, MoveInv DEF Arrive, aws, Locked, q
<1>5. CASE BodyFails(r)
  <2>1. req' = [req EXCEPT ![r] = To("sign")] BY <1>5 DEF BodyFails, Go, To
  <2> QED BY <2>1, <1>5, <1>1, <1>2, MoveInv DEF BodyFails, At, aws, Locked, Phases
<1>6. CASE ReadConfig(r)
  <2>1. PICK c \in held : req' = [req EXCEPT ![r] = Calls("first", c)]
    BY <1>6 DEF ReadConfig, Call, Calls
  <2> QED BY <2>1, <1>6, <1>1, <1>3, MoveInv DEF ReadConfig, aws, Locked, Phases
<1>7. CASE First(r)
  <2>1. PICK pc \in {"sign", "lock"} : req' = [req EXCEPT ![r] = To(pc)]
    BY <1>7 DEF First, Go, To
  <2>2. cached' \subseteq Logins /\ UNCHANGED <<provider, login, expired, rereads>>
    BY <1>7, <1>1, CallEnds DEF First
  <2> QED BY <2>1, <2>2, <1>1, <1>2, MoveInv DEF Locked, Phases
<1>8. CASE Second(r)
  <2>1. PICK pc \in {"unlock", "login"} : req' = [req EXCEPT ![r] = To(pc)]
    BY <1>8 DEF Second, Go, To
  <2>2. cached' \subseteq Logins /\ UNCHANGED <<provider, login, expired, rereads>>
    BY <1>8, <1>1, CallEnds DEF Second
  <2>3. req[r].pc = "second" /\ req[r].since = login
    BY <1>8 DEF Second, At, IInv, Current
  <2> QED BY <2>1, <2>2, <2>3, <1>1, <1>2, MoveInv DEF Locked, Phases
<1>9. CASE Third(r)
  <2>1. req' = [req EXCEPT ![r] = To("unlock")]
    BY <1>9 DEF Third, Go, To
  <2>2. cached' \subseteq Logins /\ UNCHANGED <<provider, login, expired, rereads>>
    BY <1>9, <1>1, CallEnds DEF Third
  <2> QED BY <2>1, <2>2, <1>9, <1>1, <1>2, MoveInv DEF Third, At, Locked, Phases
<1>10. CASE LoginFails(r)
  <2>1. req' = [req EXCEPT ![r] = To("unlock")] BY <1>10 DEF LoginFails, Go, To
  <2> QED BY <2>1, <1>10, <1>1, <1>2, MoveInv DEF LoginFails, At, aws, Locked, Phases
<1>11. CASE Load(r)
  <2>1. CASE Go(r, "unlock")
    <3>1. req' = [req EXCEPT ![r] = To("unlock")] BY <2>1 DEF Go, To
    <3> QED BY <3>1, <1>11, <1>1, <1>2, MoveInv DEF Load, At, aws, Locked, Phases
  <2>2. CASE req' = [req EXCEPT ![r].pc = "install", ![r].config = login]
    <3> DEFINE q == [req[r] EXCEPT !.pc = "install", !.config = login]
    <3>1. q \in Request
      BY <1>1, RequestTyped DEF Phases
    <3>2. q.pc = "install" /\ q.config = login
      BY <1>1 DEF Request
    <3>3. req' = [req EXCEPT ![r] = q] BY <2>2
    <3> HIDE DEF q
    <3> QED BY <3>1, <3>2, <3>3, <1>11, <1>1, MoveInv DEF Load, At, aws, Locked
  <2> QED BY <2>1, <2>2, <1>11 DEF Load
<1>12. CASE Forward(r)
  BY <1>12, NoRequestTyped, <1>1, MoveInv DEF Forward, aws, Locked, NoRequest
<1>13. CASE Cancel(r)
  <2> DEFINE q == [req[r] EXCEPT !.cancelled = TRUE]
  <2>1. q \in Request /\ q.pc = req[r].pc /\ q.since = req[r].since
        /\ q.config = req[r].config
    BY <1>1, RequestTyped DEF Request
  <2>2. req' = [req EXCEPT ![r] = q] BY <1>13 DEF Cancel
  <2>3. /\ req[r].pc \in {"second", "login"} => req[r].since = login
        /\ req[r].pc = "install" => req[r].config = login
    BY DEF IInv, Current
  <2> HIDE DEF q
  <2> QED BY <2>1, <2>2, <2>3, <1>13, <1>1, MoveInv DEF Cancel, aws
<1>14. CASE Lock(r)
  <2>1. req' = [req EXCEPT ![r] = Calls("second", cfg)] BY <1>14 DEF Lock, Call, Calls
  <2>2. cfg \in Logins /\ "second" \in Phases BY <1>1 DEF Phases
  <2>3. /\ Calls("second", cfg) \in Request /\ Calls("second", cfg).pc = "second"
        /\ Calls("second", cfg).since = login
    BY <1>3, <2>2
  <2>4. \A s \in Requests : req'[s] = IF s = r THEN Calls("second", cfg) ELSE req[s]
    BY <2>1, <1>1 DEF TypeOK
  <2>5. TypeOK' BY <2>1, <2>3, <1>14, <1>1 DEF Lock, TypeOK, aws
  <2>6. \A s \in Requests : req[s].pc \notin Locked
    BY <1>14, FreeAssumption DEF Lock, IInv, Exclusion
  <2>7. Exclusion' BY <2>4, <2>6, <1>14 DEF Lock, Exclusion
  <2>8. Current' BY <2>4, <2>3, <1>14 DEF Lock, IInv, Current, aws
  <2> QED BY <2>5, <2>7, <2>8 DEF IInv
<1>15. CASE Unlock(r)
  <2>1. req' = [req EXCEPT ![r] = To("sign")] BY <1>15 DEF Unlock, Go, To
  <2>2. To("sign") \in Request /\ To("sign").pc = "sign" BY <1>2 DEF Phases
  <2>3. \A s \in Requests : req'[s] = IF s = r THEN To("sign") ELSE req[s]
    BY <2>1, <1>1 DEF TypeOK
  <2>4. TypeOK' BY <2>1, <2>2, <1>15, <1>1 DEF Unlock, TypeOK, aws
  <2>5. req[r].pc \in Locked BY <1>15 DEF Unlock, At, Locked
  <2>6. \A s \in Requests \ {r} : req[s].pc \notin Locked
    BY <2>5 DEF IInv, Exclusion
  <2>7. Exclusion' BY <2>2, <2>3, <2>6 DEF Exclusion, Locked
  <2>8. Current' BY <2>2, <2>3, <1>15 DEF Unlock, IInv, Current, aws
  <2> QED BY <2>4, <2>7, <2>8 DEF IInv
<1>16. CASE Install(r)
  <2>1. req[r].pc = "install" /\ req[r].config = login /\ cfg' = login
    BY <1>16 DEF Install, At, IInv, Current
  <2>2. req' = [req EXCEPT ![r] = Calls("third", login)]
    BY <1>16, <2>1 DEF Install, Call, Calls
  <2>3. Calls("third", login) \in Request /\ Calls("third", login).pc = "third"
    BY <1>3, <1>1 DEF Phases
  <2>4. \A s \in Requests : req'[s] = IF s = r THEN Calls("third", login) ELSE req[s]
    BY <2>2, <1>1 DEF TypeOK
  <2>5. TypeOK' BY <2>1, <2>2, <2>3, <1>16, <1>1 DEF Install, TypeOK, aws
  <2>6. Exclusion' BY <2>1, <2>3, <2>4, <1>16 DEF Install, IInv, Exclusion, Locked
  <2>7. Current' BY <2>3, <2>4, <1>16 DEF Install, IInv, Current, aws
  <2> QED BY <2>5, <2>6, <2>7 DEF IInv
<1>17. CASE LoginDone(r)
  <2>1. req' = [req EXCEPT ![r] = To("load")] BY <1>17 DEF LoginDone, Go, To
  <2>2. To("load") \in Request /\ To("load").pc = "load" BY <1>2 DEF Phases
  <2>3. \A s \in Requests : req'[s] = IF s = r THEN To("load") ELSE req[s]
    BY <2>1, <1>1 DEF TypeOK
  <2>4. login' \in Logins /\ 0 .. login \subseteq 0 .. login'
    BY <1>17, <1>1, LoginsAssumption DEF LoginDone, Logins
  <2>5. TypeOK' BY <2>1, <2>2, <2>4, <1>17, <1>1 DEF LoginDone, TypeOK, provider
  <2>6. req[r].pc \in Locked BY <1>17 DEF LoginDone, At, Locked
  <2>7. \A s \in Requests \ {r} : req[s].pc \notin Locked
    BY <2>6 DEF IInv, Exclusion
  <2>8. Exclusion' BY <2>3, <2>6, <2>7, <1>17 DEF LoginDone, IInv, Exclusion, provider
  <2>9. Current' BY <2>2, <2>3, <2>7 DEF Current, Locked
  <2> QED BY <2>5, <2>8, <2>9 DEF IInv
<1> QED
  BY <1>4, <1>5, <1>6, <1>7, <1>8, <1>9, <1>10, <1>11, <1>12, <1>13, <1>14, <1>15,
     <1>16, <1>17 DEF Step

\* The steps of the host's login and of the caches keep the invariant.
LEMMA ExpiryInv == ASSUME IInv, LoginExpires \/ CacheExpires PROVE IInv'
<1>1. TypeOK'
  BY DEF IInv, TypeOK, LoginExpires, CacheExpires, provider
<1>2. Exclusion' /\ Current'
  BY DEF IInv, Exclusion, Current, LoginExpires, CacheExpires, provider
<1> QED BY <1>1, <1>2 DEF IInv

\* IInv is inductive.
THEOREM Invariance == Spec => []IInv
<1>1. IInv /\ [Next]_vars => IInv'
  <2> SUFFICES ASSUME IInv, [Next]_vars PROVE IInv'
    OBVIOUS
  <2>1. CASE UNCHANGED vars
    BY <2>1 DEF IInv, TypeOK, Exclusion, Current, vars, provider, aws
  <2>2. CASE Next
    BY <2>2, StepInv, ExpiryInv DEF Next
  <2> QED BY <2>1, <2>2
<1> QED BY <1>1, InitInv, PTL DEF Spec

\* Every reachable state is type-correct.
THEOREM TypeCorrect == Spec => []TypeOK
BY Invariance, PTL DEF IInv

\* One login at a time, and none that repeats a login that has helped (Lock and
\* the second call of Retrieve).
THEOREM LoginsNotRepeated == Spec => []NoRepeatedLogin
<1>1. IInv => NoRepeatedLogin
  BY DEF IInv, Exclusion, Current, NoRepeatedLogin, At, Locked
<1> QED BY <1>1, Invariance, PTL

\* The provider never returns to the config of an earlier login.
THEOREM ConfigAdvances == Spec => ConfigNeverOlder
<1>1. IInv /\ [Next]_vars => [cfg' >= cfg]_vars
  <2> SUFFICES ASSUME IInv, [Next]_vars PROVE cfg' >= cfg \/ UNCHANGED vars
    OBVIOUS
  <2>1. cfg \in 0 .. login /\ login \in Nat
    BY LoginsAssumption DEF IInv, TypeOK, Logins
  <2>2. CASE UNCHANGED cfg
    BY <2>1, <2>2
  <2>3. ASSUME NEW r \in Requests, Install(r) PROVE cfg' >= cfg
    <3>1. cfg' = login
      BY <2>3 DEF Install, At, IInv, Current
    <3> QED BY <3>1, <2>1
  <2> QED
    BY <2>2, <2>3 DEF Next, Arrive, Lock, Step, Cancel, ReadConfig, BodyFails, First,
       Second, LoginDone, LoginFails, Load, Third, Unlock, Forward, LoginExpires,
       CacheExpires, provider, vars
<1> QED BY <1>1, Invariance, PTL DEF Spec, ConfigNeverOlder
=============================================================================
