--------------------------- MODULE DataPath_proofs ---------------------------
(***************************************************************************)
(* Proofs about DataPath for any number of chunks.  The argument: a copy   *)
(* that reports has either delivered all its source sent or lost a peer    *)
(* (Ends), and the handler closes nothing before a copy has reported       *)
(* (Bytes); the one-connection server is closed only after its connection  *)
(* left the states in which it serves (Server); and what signs a request   *)
(* strips first what the proxy would strip later, Connection and with it   *)
(* what it lists included.                                                 *)
(***************************************************************************)
EXTENDS DataPath, TLAPS

\* The chunks of a direction that never came to its copy.
Skipped(d) == IF d = "up" THEN discarded ELSE 0

\* Where each handler can be, and what it has opened by then.
Phases ==
  /\ pc = "start" => /\ conn = [p \in Peers |-> IF p = "client" THEN "http" ELSE "none"]
                     /\ listener = "off"
  /\ pc \in {"dialed", "copying", "closing"} => route = "connect"
  /\ pc \in {"leaf", "handshake", "target", "serving"} => route = "mitm"
  /\ pc \in {"leaf", "handshake", "target"} =>
       conn["client"] = "open" /\ listener = "off"
  /\ pc = "dialed" => conn["client"] = "http" /\ conn["upstream"] = "open"
  /\ pc = "copying" => conn["client"] = "open" /\ conn["upstream"] = "open"
  /\ pc = "closing" => conn["client"] = "open"
  /\ pc \in {"start", "dialed"} =>
       /\ done = 0
       /\ \A d \in Dirs : copy[d].at = "off" /\ copy[d].delivered = 0
  /\ listener # "off" => route = "mitm"
  /\ route = "mitm" => \A d \in Dirs : copy[d].at = "off"

\* What a copy has taken it has delivered, up to the chunk it is writing.
Bytes ==
  /\ \A d \in Dirs :
       /\ copy[d].at = "read" => copy[d].taken = copy[d].delivered + Skipped(d)
       /\ copy[d].at = "write" => copy[d].taken = copy[d].delivered + Skipped(d) + 1
  /\ done > 0 => \E d \in Dirs : copy[d].at = "ended"

\* A direction that is over because its source ended it.
Whole(d) ==
  /\ peer[Src(d)].fin
  /\ peer[Src(d)].sent = copy[d].delivered + Skipped(d)

SomebodyLeft == peer["client"].gone \/ peer["upstream"].gone

Ends ==
  /\ pc = "copying" =>
       \A d \in Dirs : copy[d].at \in {"report", "ended"} => Whole(d) \/ SomebodyLeft
  /\ pc = "closing" \/ (route = "connect" /\ conn["client"] = "closed") =>
       \/ SomebodyLeft
       \/ \E d \in Dirs : copy[d].at \in {"report", "ended"} /\ Whole(d)

\* The one-connection server and the connection it serves.
Server ==
  /\ listener = "off" => served = "none"
  /\ listener = "accept" => served = "none" /\ conn["client"] = "open"
  /\ served \in {"new", "active", "idle"} =>
       conn["client"] = "open" /\ listener = "blocked"
  /\ hooked => served \in {"closed", "hijacked"}

Path == Phases /\ Bytes /\ Ends /\ Server

IInv == TypeOK /\ Path /\ SignatureCoversRequest

-----------------------------------------------------------------------------
(* The headers *)

\* The rewriting of headers yields headers, and so does what it covers.
LEMMA Parts ==
  ASSUME NEW h \in Header, NEW S
  PROVE  /\ Without(h, S) \in Header /\ With(h, S) \in Header
         /\ StripHopByHopHeaders(h, S) \in Header
         /\ Covered(h) \in Header
<1>1. \A g \in Header : \A T : Without(g, T) \in Header /\ With(g, T) \in Header
  BY DEF Without, With, Header, Setters
<1> QED BY <1>1 DEF StripHopByHopHeaders, Covered

Output == [header: Header, signed: Header]

LEMMA ResultTyped ==
  ASSUME NEW h \in Header, NEW s \in Header
  PROVE  Result(h, s) \in Output /\ Result(h, s).header = h /\ Result(h, s).signed = s
  BY DEF Result, Output

LEMMA UnsignedTyped == Unsigned \in Header
  BY DEF Unsigned, Header, Setters

LEMMA InjectTypes ==
  ASSUME NEW h \in Header, NEW credential, NEW lists, NEW outcome
  PROVE  /\ InjectAnthropic(h, credential) \in Output
         /\ InjectAnthropic(h, credential).signed = Unsigned
         /\ InjectBedrock(h, lists, outcome) \in Output
<1>1. \A g \in Header : \A S : Without(g, S) \in Header /\ With(g, S) \in Header
  BY Parts
<1>2. \A g \in Header : StripHopByHopHeaders(g, lists) \in Header /\ Covered(g) \in Header
  BY Parts
<1>3. \A g \in Header : \A s \in Header : Result(g, s) \in Output /\ Result(g, s).signed = s
  BY ResultTyped
<1>4. \/ InjectAnthropic(h, credential) = Result(h, Unsigned)
      \/ \E g \in Header : InjectAnthropic(h, credential) = Result(g, Unsigned)
  BY <1>1 DEF InjectAnthropic
<1>5. InjectBedrock(h, lists, outcome) \in Output
  <2> DEFINE clean == Without(StripHopByHopHeaders(h, lists), {"Authorization", "X-Amz-Date"})
  <2> DEFINE dated == With(clean, {"X-Amz-Date"})
  <2>1. clean \in Header /\ dated \in Header /\ With(dated, {"Authorization"}) \in Header
        /\ Covered(dated) \in Header
    BY <1>1, <1>2
  <2>2. \/ InjectBedrock(h, lists, outcome) = Result(h, Unsigned)
        \/ InjectBedrock(h, lists, outcome) = Result(With(dated, {"Authorization"}), Covered(dated))
        \/ InjectBedrock(h, lists, outcome) = Result(clean, Unsigned)
    BY DEF InjectBedrock
  <2> HIDE DEF clean, dated
  <2> QED BY <1>3, <2>1, <2>2, UnsignedTyped
<1> QED BY <1>3, <1>4, <1>5, UnsignedTyped

\* injectBedrockAt signs all it sends, but the signature itself and what SignHTTP
\* ignores, and sends nothing that a proxy drops on the way.
LEMMA SignsWhatItSends ==
  ASSUME NEW h \in Header, NEW lists, NEW outcome,
         InjectBedrock(h, lists, outcome).signed # Unsigned
  PROVE  LET r == InjectBedrock(h, lists, outcome)
         IN /\ \A n \in Names : \/ r.header[n] = r.signed[n]
                                \/ r.signed[n] = "absent" /\ n \in {"Authorization", "User-Agent"}
            /\ \A n \in HopByHop : r.header[n] = "absent"
            /\ r.header["X-Forwarded-For"] # "absent" => h["X-Forwarded-For"] # "absent"
<1> DEFINE clean == Without(StripHopByHopHeaders(h, lists), {"Authorization", "X-Amz-Date"})
<1> DEFINE dated == With(clean, {"X-Amz-Date"})
<1> DEFINE sent == With(dated, {"Authorization"})
<1>1. InjectBedrock(h, lists, outcome) = Result(sent, Covered(dated))
  BY DEF InjectBedrock, Result
<1>2. \A n \in Names : /\ n \in HopByHop => clean[n] = "absent"
                       /\ clean[n] # "absent" => clean[n] = h[n]
  BY DEF Without, StripHopByHopHeaders
<1>3. \A n \in Names : dated[n] = IF n = "X-Amz-Date" THEN "proxy" ELSE clean[n]
  BY DEF With
<1> HIDE DEF clean
<1>4. \A n \in Names : sent[n] = IF n = "Authorization" THEN "proxy" ELSE dated[n]
  BY DEF With
<1>5. \A n \in Names : Covered(dated)[n] =
        IF n \in {"Authorization", "User-Agent"} THEN "absent" ELSE dated[n]
  BY DEF Covered, Without
<1> HIDE DEF dated, sent
<1>6. \A n \in HopByHop : sent[n] = "absent"
  BY <1>2, <1>3, <1>4 DEF HopByHop, Names
<1>7. sent["X-Forwarded-For"] # "absent" => h["X-Forwarded-For"] # "absent"
  BY <1>2, <1>3, <1>4 DEF Names
<1> QED BY <1>1, <1>4, <1>5, <1>6, <1>7 DEF Result

\* The reverse proxy around an Inject keeps the types, and signs nothing itself.
LEMMA RewriteTypes ==
  ASSUME NEW h \in Header, NEW lists, NEW credential, NEW outcome
  PROVE  LET A == InjectAnthropic(ToInject(h), credential)
             B == InjectBedrock(ToInject(h), lists, outcome)
         IN /\ MitmRequest(h, lists, A) \in Output
            /\ MitmRequest(h, lists, B) \in Output
            /\ MitmRequest(h, lists, A).signed = Unsigned
<1>1. ToInject(h) \in Header
  BY Parts DEF ToInject
<1>2. ASSUME NEW d \in Header PROVE ReverseProxy(h, d, lists) \in Header
  <2>1. StripHopByHopHeaders(d, lists) \in Header  BY Parts
  <2> QED BY <2>1, Parts DEF ReverseProxy
<1>3. ASSUME NEW r \in Output
      PROVE  LET o == Result(ReverseProxy(h, Without(r.header, {"X-Forwarded-For"}), lists), r.signed)
             IN o \in Output /\ o.signed = r.signed
  <2>1. r.header \in Header /\ r.signed \in Header  BY DEF Output
  <2>2. ReverseProxy(h, Without(r.header, {"X-Forwarded-For"}), lists) \in Header
    BY <1>2, <2>1, Parts
  <2> QED BY <2>1, <2>2, ResultTyped
<1>4. InjectAnthropic(ToInject(h), credential) \in Output
      /\ InjectAnthropic(ToInject(h), credential).signed = Unsigned
  BY <1>1, InjectTypes
<1>5. InjectBedrock(ToInject(h), lists, outcome) \in Output
  BY <1>1, InjectTypes
<1> QED BY <1>3, <1>4, <1>5 DEF MitmRequest

\* What the reverse proxy around a signing Inject sends is what was signed.
LEMMA SignedIsSent ==
  ASSUME NEW h \in Header, NEW lists, NEW outcome
  PROVE  LET o == MitmRequest(h, lists, InjectBedrock(ToInject(h), lists, outcome))
         IN o.signed # Unsigned =>
              \A n \in Names :
                \/ o.header[n] = o.signed[n]
                \/ o.signed[n] = "absent" /\ n \in {"Authorization", "User-Agent", "Te"}
                \/ n = "X-Forwarded-For" /\ h[n] # "absent"
<1> DEFINE g == ToInject(h)
<1> DEFINE r == InjectBedrock(g, lists, outcome)
<1> DEFINE d == Without(r.header, {"X-Forwarded-For"})
<1> DEFINE o == Result(ReverseProxy(h, d, lists), r.signed)
<1>1. SUFFICES ASSUME o.signed # Unsigned
               PROVE  \A n \in Names :
                        \/ o.header[n] = o.signed[n]
                        \/ o.signed[n] = "absent" /\ n \in {"Authorization", "User-Agent", "Te"}
                        \/ n = "X-Forwarded-For" /\ h[n] # "absent"
  BY DEF MitmRequest
<1>2. g \in Header /\ g["X-Forwarded-For"] = h["X-Forwarded-For"]
  BY DEF ToInject, Without, Header, Setters, Names
<1>3. r.signed # Unsigned /\ o.signed = r.signed /\ o.header = ReverseProxy(h, d, lists)
  BY <1>1 DEF Result
<1> HIDE DEF g
<1>4. /\ \A n \in Names : \/ r.header[n] = r.signed[n]
                          \/ r.signed[n] = "absent" /\ n \in {"Authorization", "User-Agent"}
      /\ \A n \in HopByHop : r.header[n] = "absent"
      /\ r.header["X-Forwarded-For"] # "absent" => h["X-Forwarded-For"] # "absent"
  BY <1>2, <1>3, SignsWhatItSends
<1> HIDE DEF r
<1>5. \A n \in Names : d[n] = IF n = "X-Forwarded-For" THEN "absent" ELSE r.header[n]
  BY DEF Without
<1> HIDE DEF d, o
<1>6. d["Connection"] = "absent" /\ \A n \in HopByHop : d[n] = "absent"
  BY <1>4, <1>5 DEF HopByHop, Names
<1>7. \A n \in Names : ReverseProxy(h, d, lists)[n] = d[n]
                       \/ n = "Te"
  <2>1. Listed(d, lists) = {}  BY <1>6 DEF Listed
  <2>2. \A n \in Names : StripHopByHopHeaders(d, lists)[n] = d[n]
    BY <1>6, <2>1 DEF StripHopByHopHeaders, Without
  <2> QED BY <2>1, <2>2 DEF ReverseProxy, With
<1>8. r.signed["Te"] = "absent"
  BY <1>4 DEF HopByHop, Names
<1>9. SUFFICES ASSUME NEW n \in Names
               PROVE  \/ o.header[n] = r.signed[n]
                      \/ r.signed[n] = "absent" /\ n \in {"Authorization", "User-Agent", "Te"}
                      \/ n = "X-Forwarded-For" /\ h[n] # "absent"
  BY <1>3
<1>10. CASE n = "Te"
  BY <1>8, <1>10
<1>11. CASE n # "Te" /\ n # "X-Forwarded-For"
  BY <1>3, <1>4, <1>5, <1>7, <1>11
<1>12. CASE n = "X-Forwarded-For"
  <2>1. o.header[n] = "absent"  BY <1>3, <1>5, <1>7, <1>12
  <2>2. r.header[n] = r.signed[n]  BY <1>4, <1>12
  <2> QED BY <1>4, <1>12, <2>1, <2>2
<1> QED BY <1>10, <1>11, <1>12

-----------------------------------------------------------------------------
(* The inductive invariant without the headers *)

\* What a step does with the headers is apart from the rest.
PathTyped ==
  /\ route \in {"connect", "mitm", "plain"}
  /\ pc \in Handler
  /\ conn \in [Peers -> {"http", "none", "open", "closed"}]
  /\ peer \in [Peers -> [sent: 0 .. MaxChunks, fin: BOOLEAN, gone: BOOLEAN]]
  /\ copy \in [Dirs -> [at: CopyAt, taken: 0 .. MaxChunks,
                        delivered: 0 .. MaxChunks, eof: BOOLEAN]]
  /\ done \in 0 .. 2
  /\ discarded \in 0 .. MaxChunks
  /\ listener \in {"off", "accept", "blocked", "returned"}
  /\ served \in ServedAs
  /\ hooked \in BOOLEAN

HeadersTyped ==
  /\ request \in Request
  /\ out \in Output

LEMMA TypeSplits == TypeOK <=> PathTyped /\ HeadersTyped
  BY DEF TypeOK, PathTyped, HeadersTyped, Output

LEMMA InitPath == Init => PathTyped /\ Path
<1> SUFFICES ASSUME Init PROVE PathTyped /\ Path
  OBVIOUS
<1> USE MaxChunksAssumption DEF Init, Peers, Dirs
<1>1. PathTyped
  <2>1. conn \in [Peers -> {"http", "none", "open", "closed"}]
    OBVIOUS
  <2>2. peer \in [Peers -> [sent: 0 .. MaxChunks, fin: BOOLEAN, gone: BOOLEAN]]
    OBVIOUS
  <2>3. copy \in [Dirs -> [at: CopyAt, taken: 0 .. MaxChunks,
                         delivered: 0 .. MaxChunks, eof: BOOLEAN]]
    BY DEF CopyAt
  <2>4. /\ route \in {"connect", "mitm", "plain"} /\ pc \in Handler
        /\ listener \in {"off", "accept", "blocked", "returned"}
        /\ served \in ServedAs /\ hooked \in BOOLEAN
    BY DEF Handler, ServedAs
  <2>5. done \in 0 .. 2 /\ discarded \in 0 .. MaxChunks
    OBVIOUS
  <2> QED BY ONLY <2>1, <2>2, <2>3, <2>4, <2>5 DEF PathTyped
<1>2. Phases /\ Bytes /\ Ends /\ Server  BY DEF Phases, Bytes, Ends, Server
<1> QED BY <1>1, <1>2 DEF Path

LEMMA StepPath ==
  ASSUME PathTyped, Path, [Next]_vars
  PROVE  PathTyped' /\ Path'
<1> USE MaxChunksAssumption
<1> USE DEF Peers, Dirs, Src, Dst, Go, tunnel, mitm, headers
<1>1. CASE Dial
  <2>1. PathTyped'  BY <1>1 DEF Dial, PathTyped, Handler, CopyAt, ServedAs
  <2>2. Phases'  BY <1>1 DEF Dial, PathTyped, Path, Phases, Server
  <2>3. Bytes'  BY <1>1 DEF Dial, PathTyped, Path, Phases, Bytes, Skipped
  <2>4. Ends'  BY <1>1 DEF Dial, PathTyped, Path, Phases, Bytes, Ends, Whole, Skipped, SomebodyLeft
  <2>5. Server'  BY <1>1 DEF Dial, PathTyped, Path, Phases, Server
  <2> QED BY <2>1, <2>2, <2>3, <2>4, <2>5 DEF Path
<1>2. CASE HijackConnect
  <2>1. CASE pc' = "returned"
    <3>1. /\ pc = "dialed" /\ conn' = [conn EXCEPT !.upstream = "closed"]
          /\ UNCHANGED <<route, peer, copy, done, discarded, listener, served, hooked>>
      BY <1>2, <2>1 DEF HijackConnect
    <3>2. PathTyped'  BY <2>1, <3>1 DEF PathTyped, Handler
    <3>3. Phases' /\ Bytes' /\ Ends' /\ Server'
      BY <2>1, <3>1 DEF PathTyped, Path, Phases, Bytes, Ends, Server, Skipped, Whole, SomebodyLeft
    <3> QED BY <3>2, <3>3 DEF Path
  <2>2. CASE pc' # "returned"
    <3>1. PICK n \in 0 .. peer["client"].sent :
            /\ discarded' = n
            /\ copy' = [d \in Dirs |-> [copy[d] EXCEPT !.at = "read",
                           !.taken = IF d = "up" THEN n ELSE 0]]
      BY <1>2, <2>2 DEF HijackConnect
    <3>2. /\ pc = "dialed" /\ pc' = "copying" /\ conn' = [conn EXCEPT !.client = "open"]
          /\ UNCHANGED <<route, peer, done, listener, served, hooked>>
      BY <1>2, <2>2 DEF HijackConnect
    <3>3. ASSUME NEW d \in Dirs
          PROVE  /\ copy'[d] \in [at: CopyAt, taken: 0 .. MaxChunks,
                                  delivered: 0 .. MaxChunks, eof: BOOLEAN]
                 /\ copy'[d].at = "read"
                 /\ copy'[d].taken = IF d = "up" THEN n ELSE 0
                 /\ copy'[d].delivered = copy[d].delivered
      <4>1. copy'[d] = [copy[d] EXCEPT !.at = "read",
                          !.taken = IF d = "up" THEN n ELSE 0]
        BY <3>1
      <4>2. n \in 0 .. MaxChunks
        BY <3>1 DEF PathTyped
      <4>3. copy[d] \in [at: CopyAt, taken: 0 .. MaxChunks,
                         delivered: 0 .. MaxChunks, eof: BOOLEAN]
        BY DEF PathTyped
      <4>4. (IF d = "up" THEN n ELSE 0) \in 0 .. MaxChunks
        BY <4>2
      <4> HIDE DEF Dirs
      <4>5. copy'[d] \in [at: CopyAt, taken: 0 .. MaxChunks,
                          delivered: 0 .. MaxChunks, eof: BOOLEAN]
        BY <4>1, <4>3, <4>4 DEF CopyAt
      <4> QED BY <4>1, <4>3, <4>5
    <3>4. copy' \in [Dirs -> [at: CopyAt, taken: 0 .. MaxChunks,
                              delivered: 0 .. MaxChunks, eof: BOOLEAN]]
      BY <3>1, <3>3
    <3>5. PathTyped'  BY <3>1, <3>2, <3>4 DEF PathTyped, Handler
    <3>6. Phases'  BY <3>2, <3>3 DEF PathTyped, Path, Phases, Server
    <3>7. Bytes'  BY <3>1, <3>2, <3>3 DEF PathTyped, Path, Phases, Bytes, Skipped
    <3>8. Ends'  BY <3>2, <3>3 DEF PathTyped, Path, Phases, Ends
    <3>9. Server'  BY <3>2 DEF PathTyped, Path, Phases, Server
    <3> QED BY <3>5, <3>6, <3>7, <3>8, <3>9 DEF Path
  <2> QED BY <2>1, <2>2
<1>3. ASSUME NEW d \in Dirs, CopyReads(d) PROVE PathTyped' /\ Path'
  <2>1. PathTyped'  BY <1>3 DEF CopyReads, PathTyped, Handler, CopyAt, ServedAs
  <2>2. Phases'  BY <1>3 DEF CopyReads, PathTyped, Path, Phases, Server
  <2>3. Bytes'  BY <1>3 DEF CopyReads, PathTyped, Path, Phases, Bytes, Skipped
  <2>4. Ends'  BY <1>3 DEF CopyReads, PathTyped, Path, Phases, Bytes, Ends, Whole, Skipped, SomebodyLeft
  <2>5. Server'  BY <1>3 DEF CopyReads, PathTyped, Path, Phases, Server
  <2> QED BY <2>1, <2>2, <2>3, <2>4, <2>5 DEF Path
<1>4. ASSUME NEW d \in Dirs, CopyWrites(d) PROVE PathTyped' /\ Path'
  <2>1. PathTyped'  BY <1>4 DEF CopyWrites, PathTyped, Handler, CopyAt, ServedAs, Path, Phases, Bytes, Skipped
  <2>2. Phases'  BY <1>4 DEF CopyWrites, PathTyped, Path, Phases, Server
  <2>3. Bytes'  BY <1>4 DEF CopyWrites, PathTyped, Path, Phases, Bytes, Skipped
  <2>4. Ends'  BY <1>4 DEF CopyWrites, PathTyped, Path, Phases, Bytes, Ends, Whole, Skipped, SomebodyLeft
  <2>5. Server'  BY <1>4 DEF CopyWrites, PathTyped, Path, Phases, Server
  <2> QED BY <2>1, <2>2, <2>3, <2>4, <2>5 DEF Path
<1>5. ASSUME NEW d \in Dirs, CopyReports(d) PROVE PathTyped' /\ Path'
  <2>1. PathTyped'  BY <1>5 DEF CopyReports, PathTyped, Handler, CopyAt, ServedAs
  <2>2. Phases'  BY <1>5 DEF CopyReports, PathTyped, Path, Phases, Server
  <2>3. Bytes'  BY <1>5 DEF CopyReports, PathTyped, Path, Phases, Bytes, Skipped
  <2>4. Ends'  BY <1>5 DEF CopyReports, PathTyped, Path, Phases, Bytes, Ends, Whole, Skipped, SomebodyLeft
  <2>5. Server'  BY <1>5 DEF CopyReports, PathTyped, Path, Phases, Server
  <2> QED BY <2>1, <2>2, <2>3, <2>4, <2>5 DEF Path
<1>6. CASE CloseUpstream
  <2>1. PathTyped'  BY <1>6 DEF CloseUpstream, PathTyped, Handler, CopyAt, ServedAs
  <2>2. Phases'  BY <1>6 DEF CloseUpstream, PathTyped, Path, Phases, Server
  <2>3. Bytes'  BY <1>6 DEF CloseUpstream, PathTyped, Path, Phases, Bytes, Skipped
  <2>4. Ends'  BY <1>6 DEF CloseUpstream, PathTyped, Path, Phases, Bytes, Ends, Whole, Skipped, SomebodyLeft
  <2>5. Server'  BY <1>6 DEF CloseUpstream, PathTyped, Path, Phases, Server
  <2> QED BY <2>1, <2>2, <2>3, <2>4, <2>5 DEF Path
<1>7. CASE CloseClient
  <2>1. PathTyped'  BY <1>7 DEF CloseClient, PathTyped, Handler, CopyAt, ServedAs
  <2>2. Phases'  BY <1>7 DEF CloseClient, PathTyped, Path, Phases, Server
  <2>3. Bytes'  BY <1>7 DEF CloseClient, PathTyped, Path, Phases, Bytes, Skipped
  <2>4. Ends'  BY <1>7 DEF CloseClient, PathTyped, Path, Phases, Bytes, Ends, Whole, Skipped, SomebodyLeft
  <2>5. Server'  BY <1>7 DEF CloseClient, PathTyped, Path, Phases, Server
  <2> QED BY <2>1, <2>2, <2>3, <2>4, <2>5 DEF Path
<1>8. CASE HijackMitm
  <2>1. PathTyped'  BY <1>8 DEF HijackMitm, PathTyped, Handler, CopyAt, ServedAs
  <2>2. Phases'  BY <1>8 DEF HijackMitm, PathTyped, Path, Phases, Server
  <2>3. Bytes'  BY <1>8 DEF HijackMitm, PathTyped, Path, Phases, Bytes, Skipped
  <2>4. Ends'  BY <1>8 DEF HijackMitm, PathTyped, Path, Phases, Bytes, Ends, Whole, Skipped, SomebodyLeft
  <2>5. Server'  BY <1>8 DEF HijackMitm, PathTyped, Path, Phases, Server
  <2> QED BY <2>1, <2>2, <2>3, <2>4, <2>5 DEF Path
<1>9. CASE GetLeaf
  <2>1. PathTyped'  BY <1>9 DEF GetLeaf, PathTyped, Handler, CopyAt, ServedAs
  <2>2. Phases'  BY <1>9 DEF GetLeaf, PathTyped, Path, Phases, Server
  <2>3. Bytes'  BY <1>9 DEF GetLeaf, PathTyped, Path, Phases, Bytes, Skipped
  <2>4. Ends'  BY <1>9 DEF GetLeaf, PathTyped, Path, Phases, Bytes, Ends, Whole, Skipped, SomebodyLeft
  <2>5. Server'  BY <1>9 DEF GetLeaf, PathTyped, Path, Phases, Server
  <2> QED BY <2>1, <2>2, <2>3, <2>4, <2>5 DEF Path
<1>10. CASE Handshake
  <2>1. PathTyped'  BY <1>10 DEF Handshake, PathTyped, Handler, CopyAt, ServedAs
  <2>2. Phases'  BY <1>10 DEF Handshake, PathTyped, Path, Phases, Server
  <2>3. Bytes'  BY <1>10 DEF Handshake, PathTyped, Path, Phases, Bytes, Skipped
  <2>4. Ends'  BY <1>10 DEF Handshake, PathTyped, Path, Phases, Bytes, Ends, Whole, Skipped, SomebodyLeft
  <2>5. Server'  BY <1>10 DEF Handshake, PathTyped, Path, Phases, Server
  <2> QED BY <2>1, <2>2, <2>3, <2>4, <2>5 DEF Path
<1>11. CASE HandshakeFails
  <2>1. PathTyped'  BY <1>11 DEF HandshakeFails, PathTyped, Handler, CopyAt, ServedAs
  <2>2. Phases'  BY <1>11 DEF HandshakeFails, PathTyped, Path, Phases, Server
  <2>3. Bytes'  BY <1>11 DEF HandshakeFails, PathTyped, Path, Phases, Bytes, Skipped
  <2>4. Ends'  BY <1>11 DEF HandshakeFails, PathTyped, Path, Phases, Bytes, Ends, Whole, Skipped, SomebodyLeft
  <2>5. Server'  BY <1>11 DEF HandshakeFails, PathTyped, Path, Phases, Server
  <2> QED BY <2>1, <2>2, <2>3, <2>4, <2>5 DEF Path
<1>12. CASE ServeListener
  <2>1. PathTyped'  BY <1>12 DEF ServeListener, PathTyped, Handler, CopyAt, ServedAs
  <2>2. Phases'  BY <1>12 DEF ServeListener, PathTyped, Path, Phases, Server
  <2>3. Bytes'  BY <1>12 DEF ServeListener, PathTyped, Path, Phases, Bytes, Skipped
  <2>4. Ends'  BY <1>12 DEF ServeListener, PathTyped, Path, Phases, Bytes, Ends, Whole, Skipped, SomebodyLeft
  <2>5. Server'  BY <1>12 DEF ServeListener, PathTyped, Path, Phases, Server
  <2> QED BY <2>1, <2>2, <2>3, <2>4, <2>5 DEF Path
<1>13. CASE Accept
  <2>1. PathTyped'  BY <1>13 DEF Accept, PathTyped, Handler, CopyAt, ServedAs
  <2>2. Phases'  BY <1>13 DEF Accept, PathTyped, Path, Phases, Server
  <2>3. Bytes'  BY <1>13 DEF Accept, PathTyped, Path, Phases, Bytes, Skipped
  <2>4. Ends'  BY <1>13 DEF Accept, PathTyped, Path, Phases, Bytes, Ends, Whole, Skipped, SomebodyLeft
  <2>5. Server'  BY <1>13 DEF Accept, PathTyped, Path, Phases, Server
  <2> QED BY <2>1, <2>2, <2>3, <2>4, <2>5 DEF Path
<1>14. CASE AcceptEnds
  <2>1. PathTyped'  BY <1>14 DEF AcceptEnds, PathTyped, Handler, CopyAt, ServedAs
  <2>2. Phases'  BY <1>14 DEF AcceptEnds, PathTyped, Path, Phases, Server
  <2>3. Bytes'  BY <1>14 DEF AcceptEnds, PathTyped, Path, Phases, Bytes, Skipped
  <2>4. Ends'  BY <1>14 DEF AcceptEnds, PathTyped, Path, Phases, Bytes, Ends, Whole, Skipped, SomebodyLeft
  <2>5. Server'  BY <1>14 DEF AcceptEnds, PathTyped, Path, Phases, Server
  <2> QED BY <2>1, <2>2, <2>3, <2>4, <2>5 DEF Path
<1>15. CASE Receive
  <2>1. PathTyped'  BY <1>15 DEF Receive, PathTyped, Handler, CopyAt, ServedAs
  <2>2. Phases'  BY <1>15 DEF Receive, PathTyped, Path, Phases, Server
  <2>3. Bytes'  BY <1>15 DEF Receive, PathTyped, Path, Phases, Bytes, Skipped
  <2>4. Ends'  BY <1>15 DEF Receive, PathTyped, Path, Phases, Bytes, Ends, Whole, Skipped, SomebodyLeft
  <2>5. Server'  BY <1>15 DEF Receive, PathTyped, Path, Phases, Server
  <2> QED BY <2>1, <2>2, <2>3, <2>4, <2>5 DEF Path
<1>16. CASE Respond
  <2>1. PathTyped'  BY <1>16 DEF Respond, PathTyped, Handler, CopyAt, ServedAs
  <2>2. Phases'  BY <1>16 DEF Respond, PathTyped, Path, Phases, Server
  <2>3. Bytes'  BY <1>16 DEF Respond, PathTyped, Path, Phases, Bytes, Skipped
  <2>4. Ends'  BY <1>16 DEF Respond, PathTyped, Path, Phases, Ends, Server, Whole, Skipped, SomebodyLeft
  <2>5. Server'  BY <1>16 DEF Respond, PathTyped, Path, Phases, Server
  <2> QED BY <2>1, <2>2, <2>3, <2>4, <2>5 DEF Path
<1>17. CASE Upgrade
  <2>1. PathTyped'  BY <1>17 DEF Upgrade, PathTyped, Handler, CopyAt, ServedAs
  <2>2. Phases'  BY <1>17 DEF Upgrade, PathTyped, Path, Phases, Server
  <2>3. Bytes'  BY <1>17 DEF Upgrade, PathTyped, Path, Phases, Bytes, Skipped
  <2>4. Ends'  BY <1>17 DEF Upgrade, PathTyped, Path, Phases, Bytes, Ends, Whole, Skipped, SomebodyLeft
  <2>5. Server'  BY <1>17 DEF Upgrade, PathTyped, Path, Phases, Server
  <2> QED BY <2>1, <2>2, <2>3, <2>4, <2>5 DEF Path
<1>18. CASE ClientEnds
  <2>1. PathTyped'  BY <1>18 DEF ClientEnds, PathTyped, Handler, CopyAt, ServedAs
  <2>2. Phases'  BY <1>18 DEF ClientEnds, PathTyped, Path, Phases, Server
  <2>3. Bytes'  BY <1>18 DEF ClientEnds, PathTyped, Path, Phases, Bytes, Skipped
  <2>4. Ends'  BY <1>18 DEF ClientEnds, PathTyped, Path, Phases, Ends, Server, Whole, Skipped, SomebodyLeft
  <2>5. Server'  BY <1>18 DEF ClientEnds, PathTyped, Path, Phases, Server
  <2> QED BY <2>1, <2>2, <2>3, <2>4, <2>5 DEF Path
<1>19. CASE ConnState
  <2>1. PathTyped'  BY <1>19 DEF ConnState, PathTyped, Handler, CopyAt, ServedAs
  <2>2. Phases'  BY <1>19 DEF ConnState, PathTyped, Path, Phases, Server
  <2>3. Bytes'  BY <1>19 DEF ConnState, PathTyped, Path, Phases, Bytes, Skipped
  <2>4. Ends'  BY <1>19 DEF ConnState, PathTyped, Path, Phases, Bytes, Ends, Whole, Skipped, SomebodyLeft
  <2>5. Server'  BY <1>19 DEF ConnState, PathTyped, Path, Phases, Server
  <2> QED BY <2>1, <2>2, <2>3, <2>4, <2>5 DEF Path
<1>20. CASE CloseMitm
  <2>1. PathTyped'  BY <1>20 DEF CloseMitm, PathTyped, Handler, CopyAt, ServedAs
  <2>2. Phases'  BY <1>20 DEF CloseMitm, PathTyped, Path, Phases, Server
  <2>3. Bytes'  BY <1>20 DEF CloseMitm, PathTyped, Path, Phases, Bytes, Skipped
  <2>4. Ends'  BY <1>20 DEF CloseMitm, PathTyped, Path, Phases, Bytes, Ends, Whole, Skipped, SomebodyLeft
  <2>5. Server'  BY <1>20 DEF CloseMitm, PathTyped, Path, Phases, Server
  <2> QED BY <2>1, <2>2, <2>3, <2>4, <2>5 DEF Path
<1>21. CASE proxyHTTP
  <2>1. PathTyped'  BY <1>21 DEF proxyHTTP, PathTyped, Handler, CopyAt, ServedAs
  <2>2. Phases'  BY <1>21 DEF proxyHTTP, PathTyped, Path, Phases, Server
  <2>3. Bytes'  BY <1>21 DEF proxyHTTP, PathTyped, Path, Phases, Bytes, Skipped
  <2>4. Ends'  BY <1>21 DEF proxyHTTP, PathTyped, Path, Phases, Bytes, Ends, Whole, Skipped, SomebodyLeft
  <2>5. Server'  BY <1>21 DEF proxyHTTP, PathTyped, Path, Phases, Server
  <2> QED BY <2>1, <2>2, <2>3, <2>4, <2>5 DEF Path
<1>22. ASSUME NEW p \in Peers, Send(p) PROVE PathTyped' /\ Path'
  <2>1. PathTyped'  BY <1>22 DEF Send, PathTyped
  <2>2. Phases'  BY <1>22 DEF Send, PathTyped, Path, Phases, Server
  <2>3. Bytes'  BY <1>22 DEF Send, PathTyped, Path, Phases, Bytes, Skipped
  <2>4. Ends'  BY <1>22 DEF Send, PathTyped, Path, Phases, Bytes, Ends, Whole, Skipped, SomebodyLeft
  <2>5. Server'  BY <1>22 DEF Send, PathTyped, Path, Phases, Server
  <2> QED BY <2>1, <2>2, <2>3, <2>4, <2>5 DEF Path
<1>23. ASSUME NEW p \in Peers, EndSending(p) PROVE PathTyped' /\ Path'
  <2>1. PathTyped'  BY <1>23 DEF EndSending, PathTyped
  <2>2. Phases'  BY <1>23 DEF EndSending, PathTyped, Path, Phases, Server
  <2>3. Bytes'  BY <1>23 DEF EndSending, PathTyped, Path, Phases, Bytes, Skipped
  <2>4. Ends'  BY <1>23 DEF EndSending, PathTyped, Path, Phases, Bytes, Ends, Whole, Skipped, SomebodyLeft
  <2>5. Server'  BY <1>23 DEF EndSending, PathTyped, Path, Phases, Server
  <2> QED BY <2>1, <2>2, <2>3, <2>4, <2>5 DEF Path
<1>24. ASSUME NEW p \in Peers, Leave(p) PROVE PathTyped' /\ Path'
  <2>1. PathTyped'  BY <1>24 DEF Leave, PathTyped
  <2>2. Phases'  BY <1>24 DEF Leave, PathTyped, Path, Phases, Server
  <2>3. Bytes'  BY <1>24 DEF Leave, PathTyped, Path, Phases, Bytes, Skipped
  <2>4. Ends'  BY <1>24 DEF Leave, PathTyped, Path, Phases, Bytes, Ends, Whole, Skipped, SomebodyLeft
  <2>5. Server'  BY <1>24 DEF Leave, PathTyped, Path, Phases, Server
  <2> QED BY <2>1, <2>2, <2>3, <2>4, <2>5 DEF Path
<1>25. CASE UNCHANGED vars
  BY <1>25 DEF vars, PathTyped, Path, Phases, Bytes, Ends, Server, Whole, Skipped, SomebodyLeft, Peers, Dirs, Src, Dst, Handler, CopyAt, ServedAs
<1> QED BY <1>1, <1>2, <1>3, <1>4, <1>5, <1>6, <1>7, <1>8, <1>9, <1>10, <1>11, <1>12, <1>13, <1>14, <1>15, <1>16, <1>17, <1>18, <1>19, <1>20, <1>21, <1>22, <1>23, <1>24, <1>25
       DEF Next, ProxyConnect, Copy, ProxyMitm, Client, Peer

-----------------------------------------------------------------------------
(* The headers of the request being served *)

\* Only Receive and proxyHTTP produce headers, and both send what they sign.
LEMMA StepHeaders ==
  ASSUME HeadersTyped, SignatureCoversRequest, [Next]_vars
  PROVE  HeadersTyped' /\ SignatureCoversRequest'
<1> USE DEF Output
<1>1. CASE UNCHANGED headers
  BY <1>1 DEF headers, HeadersTyped, SignatureCoversRequest
<1>2. CASE request' = NoRequest /\ out' = NoOutput
  <2>1. NoRequest \in Request /\ NoRequest.header \in Header
    BY DEF NoRequest, Request, Header, Setters
  <2>2. NoOutput \in Output /\ NoOutput.signed = Unsigned
    BY <2>1, ResultTyped, UnsignedTyped DEF NoOutput
  <2> QED BY <1>2, <2>1, <2>2 DEF HeadersTyped, SignatureCoversRequest
<1>3. CASE Receive
  <2>1. request' \in Request /\ request'.header \in Header
    BY <1>3, RequestsAssumption DEF Receive, Request, Header, Setters
  <2>2. CASE \E credential \in Credentials :
               out' = MitmRequest(request'.header, request'.lists,
                                  InjectAnthropic(ToInject(request'.header), credential))
    <3>1. out' \in Output /\ out'.signed = Unsigned
      BY <2>1, <2>2, RewriteTypes
    <3> QED BY <2>1, <3>1 DEF HeadersTyped, SignatureCoversRequest
  <2>3. CASE \E outcome \in Outcomes :
               out' = MitmRequest(request'.header, request'.lists,
                                  InjectBedrock(ToInject(request'.header), request'.lists, outcome))
    <3>1. out' \in Output
      BY <2>1, <2>3, RewriteTypes
    <3>2. SignatureCoversRequest'
      BY <2>1, <2>3, SignedIsSent DEF SignatureCoversRequest
    <3> QED BY <2>1, <3>1, <3>2 DEF HeadersTyped
  <2> QED BY <1>3, <2>2, <2>3 DEF Receive
<1>4. CASE proxyHTTP
  <2>1. request' \in Request /\ request'.header \in Header
    BY <1>4, RequestsAssumption DEF proxyHTTP, Request, Header, Setters
  <2>2. CASE out' = Result(request'.header, Unsigned)
    <3>1. out' \in Output /\ out'.signed = Unsigned
      BY <2>1, <2>2, ResultTyped, UnsignedTyped
    <3> QED BY <2>1, <3>1 DEF HeadersTyped, SignatureCoversRequest
  <2>3. CASE \E credential \in Credentials :
               out' = InjectAnthropic(request'.header, credential)
    <3>1. out' \in Output /\ out'.signed = Unsigned  BY <2>1, <2>3, InjectTypes
    <3> QED BY <2>1, <3>1 DEF HeadersTyped, SignatureCoversRequest
  <2>4. CASE \E outcome \in Outcomes :
               out' = InjectBedrock(request'.header, request'.lists, outcome)
    <3>1. out' \in Output  BY <2>1, <2>4, InjectTypes
    <3>2. SignatureCoversRequest'
      BY <2>1, <2>4, SignsWhatItSends DEF SignatureCoversRequest
    <3> QED BY <2>1, <3>1, <3>2 DEF HeadersTyped
  <2> QED BY <1>4, <2>2, <2>3, <2>4 DEF proxyHTTP
<1>5. Next \/ UNCHANGED vars =>
        \/ UNCHANGED headers
        \/ request' = NoRequest /\ out' = NoOutput
        \/ Receive
        \/ proxyHTTP
  <2>1. ProxyConnect => UNCHANGED headers
    BY DEF ProxyConnect, Copy, Dial, HijackConnect, CopyReads, CopyWrites, CopyReports,
           CloseUpstream, CloseClient
  <2>2. ProxyMitm => UNCHANGED headers \/ (request' = NoRequest /\ out' = NoOutput)
    BY DEF ProxyMitm, HijackMitm, GetLeaf, ServeListener, Accept, AcceptEnds, Respond,
           Upgrade, ClientEnds, ConnState, CloseMitm
  <2>3. Client => UNCHANGED headers \/ Receive
    BY DEF Client, Handshake, HandshakeFails
  <2>4. (\E p \in Peers : Peer(p)) => UNCHANGED headers
    BY DEF Peer, Send, EndSending, Leave
  <2>5. UNCHANGED vars => UNCHANGED headers
    BY DEF vars
  <2> QED BY <2>1, <2>2, <2>3, <2>4, <2>5 DEF Next
<1> QED BY <1>1, <1>2, <1>3, <1>4, <1>5

-----------------------------------------------------------------------------
(* The theorems *)

\* IInv holds in every reachable state, for any number of chunks.
THEOREM Invariance == Spec => []IInv
<1>1. Init => IInv
  <2> SUFFICES ASSUME Init PROVE IInv
    OBVIOUS
  <2>1. NoRequest \in Request /\ NoRequest.header \in Header
    BY DEF NoRequest, Request, Header, Setters
  <2>2. NoOutput \in Output /\ NoOutput.signed = Unsigned
    BY <2>1, ResultTyped, UnsignedTyped DEF NoOutput
  <2>3. HeadersTyped /\ SignatureCoversRequest
    BY <2>1, <2>2 DEF Init, HeadersTyped, SignatureCoversRequest
  <2> QED BY <2>3, InitPath, TypeSplits DEF IInv
<1>2. IInv /\ [Next]_vars => IInv'
  <2> SUFFICES ASSUME IInv, [Next]_vars PROVE IInv'
    OBVIOUS
  <2>1. PathTyped' /\ Path'  BY StepPath, TypeSplits DEF IInv
  <2>2. HeadersTyped' /\ SignatureCoversRequest'  BY StepHeaders, TypeSplits DEF IInv
  <2>3. TypeOK'  BY <2>1, <2>2 DEF TypeOK, PathTyped, HeadersTyped, Output
  <2> QED BY <2>1, <2>2, <2>3 DEF IInv
<1> QED BY <1>1, <1>2, PTL DEF Spec

\* Every reachable state is type-correct: done never overflows, no copy delivers
\* more than was sent.
THEOREM TypeCorrect == Spec => []TypeOK
<1>1. IInv => TypeOK  BY DEF IInv
<1> QED BY <1>1, Invariance, PTL

\* Between peers that stay, a tunnel whose client waited for the 200 closes only
\* after one of them has ended its direction and had all of it delivered, and an
\* intercepted connection that was not upgraded closes only when it serves no
\* request (the order of proxyConnect and of ConnState in proxyMitm).
THEOREM CarriesToTheEnd == Spec => []NotCutShort
<1>1. IInv => NotCutShort
  <2> SUFFICES ASSUME IInv, conn["client"] = "closed", Stays("client"), Stays("upstream")
               PROVE  /\ route = "connect" /\ discarded = 0 =>
                           \E d \in Dirs : peer[Src(d)].fin /\ peer[Src(d)].sent = copy[d].delivered
                      /\ route = "mitm" => served \notin {"new", "active", "idle"}
    BY DEF NotCutShort
  <2>1. ~SomebodyLeft  BY DEF SomebodyLeft, Stays
  <2>2. Ends /\ Server /\ TypeOK  BY DEF IInv, Path
  <2>3. ASSUME route = "connect", discarded = 0
        PROVE  \E d \in Dirs : peer[Src(d)].fin /\ peer[Src(d)].sent = copy[d].delivered
    <3>1. PICK d \in Dirs : Whole(d)  BY <2>1, <2>2, <2>3 DEF Ends
    <3>2. copy[d].delivered \in Nat  BY <2>2, MaxChunksAssumption DEF TypeOK
    <3> QED BY <2>3, <3>1, <3>2 DEF Whole, Skipped
  <2> QED BY <2>1, <2>2, <2>3 DEF Server
<1> QED BY <1>1, Invariance, PTL

\* Each header an AWS signature covers goes out as it was signed, and what goes out
\* beside is the signature, what SignHTTP ignores and a restored Te, for every client
\* that sends no X-Forwarded-For (injectBedrockAt strips before it signs what the
\* reverse proxy would strip after).
THEOREM SignatureExact == Spec => []SignatureCoversRequest
<1>1. IInv => SignatureCoversRequest  BY DEF IInv
<1> QED BY <1>1, Invariance, PTL

\* What is left of the credentials of a client of an intercepted host, whatever
\* headers it sends: none of its own goes on once there is one to inject.  An
\* Anthropic request goes on with the proxy's, unless the client lists that name in
\* Connection, which makes ReverseProxy drop it; a Bedrock request goes on with the
\* proxy's signature and date, or with none when signing fails.  Proxy-Connection
\* never goes on, and X-Forwarded-For only as ReverseProxy's own, when the client
\* lists it (setup.Inject, injectBedrockAt, NewMitmReverseProxy).
THEOREM CredentialsReplaced ==
  ASSUME NEW h \in Header, NEW lists \in SUBSET Names,
         NEW credential \in {"bearer", "apiKey"}, NEW outcome \in {"failed", "signed"}
  PROVE  LET A == InjectAnthropic(ToInject(h), credential)
             B == InjectBedrock(ToInject(h), lists, outcome)
             listed == Listed(h, lists)
             anthropic == MitmRequest(h, lists, A).header
             bedrock == MitmRequest(h, lists, B).header
         IN /\ anthropic["Authorization"] =
                 IF credential = "bearer" /\ "Authorization" \notin listed THEN "proxy" ELSE "absent"
            /\ anthropic["X-Api-Key"] =
                 IF credential = "apiKey" /\ "X-Api-Key" \notin listed THEN "proxy" ELSE "absent"
            /\ \A n \in {"Authorization", "X-Amz-Date"} :
                 bedrock[n] = IF outcome = "signed" THEN "proxy" ELSE "absent"
            /\ anthropic["Proxy-Connection"] = "absent" /\ bedrock["Proxy-Connection"] = "absent"
            /\ anthropic["X-Forwarded-For"] =
                 IF "X-Forwarded-For" \in listed THEN "proxy" ELSE "absent"
            /\ bedrock["X-Forwarded-For"] = "absent"
<1> DEFINE g == ToInject(h)
<1> DEFINE Sent(x) == ReverseProxy(h, Without(x, {"X-Forwarded-For"}), lists)
<1>1. ASSUME NEW x \in Header
      PROVE  /\ \A n \in {"Authorization", "X-Api-Key", "X-Amz-Date"} :
                  Sent(x)[n] = IF n \in Listed(x, lists) THEN "absent" ELSE x[n]
             /\ Sent(x)["Proxy-Connection"] = "absent"
             /\ Sent(x)["X-Forwarded-For"] =
                  IF "X-Forwarded-For" \in Listed(x, lists) THEN "proxy" ELSE "absent"
  <2> DEFINE d == Without(x, {"X-Forwarded-For"})
  <2> DEFINE s == StripHopByHopHeaders(d, lists)
  <2>1. /\ \A n \in Names : d[n] = IF n = "X-Forwarded-For" THEN "absent" ELSE x[n]
        /\ Listed(d, lists) = Listed(x, lists)
    BY DEF Without, Listed, Names
  <2> HIDE DEF d
  <2>2. \A n \in Names : s[n] = IF n \in Listed(x, lists) \cup HopByHop THEN "absent" ELSE d[n]
    BY <2>1 DEF StripHopByHopHeaders, Without
  <2> HIDE DEF s
  <2>3. PICK added \in SUBSET Names :
          /\ Sent(x) = With(s, added)
          /\ added \subseteq {"Te", "Connection", "Upgrade"} \cup (Listed(x, lists) \cap {"X-Forwarded-For"})
          /\ "X-Forwarded-For" \in Listed(x, lists) => "X-Forwarded-For" \in added
    <3> DEFINE trailers == {n \in {"Te"} : h[n] # "absent"}
    <3> DEFINE upgrade == IF "Upgrade" \in Listed(d, lists) /\ d["Upgrade"] # "absent"
                          THEN {"Connection", "Upgrade"} ELSE {}
    <3> DEFINE forwarded == Listed(d, lists) \cap {"X-Forwarded-For"}
    <3>1. Sent(x) = With(s, trailers \cup upgrade \cup forwarded)
      BY DEF ReverseProxy, d, s
    <3> QED BY <2>1, <3>1 DEF Names
  <2>4. \A n \in Names : Sent(x)[n] = IF n \in added THEN "proxy" ELSE s[n]
    BY <2>3 DEF With
  <2> HIDE DEF Sent
  <2> QED BY <2>1, <2>2, <2>3, <2>4 DEF Names, HopByHop
<1>2. g \in Header /\ Listed(g, lists) = Listed(h, lists)
  BY DEF ToInject, Without, Header, Setters, Listed, Names
<1> HIDE DEF g
<1> DEFINE a == InjectAnthropic(g, credential)
<1> DEFINE b == InjectBedrock(g, lists, outcome)
<1>3. a \in Output /\ b \in Output
  BY <1>2, InjectTypes
<1>4. a.header \in Header /\ b.header \in Header
  BY <1>3 DEF Output
<1>5. /\ a.header["Authorization"] = IF credential = "bearer" THEN "proxy" ELSE "absent"
      /\ a.header["X-Api-Key"] = IF credential = "apiKey" THEN "proxy" ELSE "absent"
      /\ a.header["Connection"] = g["Connection"]
  BY DEF InjectAnthropic, Result, With, Without, Names
<1>6. /\ \A n \in {"Authorization", "X-Amz-Date"} :
           b.header[n] = IF outcome = "signed" THEN "proxy" ELSE "absent"
      /\ b.header["Connection"] = "absent"
  BY DEF InjectBedrock, Result, With, Without, Names, StripHopByHopHeaders, HopByHop
<1> HIDE DEF a, b
<1>7. Listed(a.header, lists) = Listed(h, lists) /\ Listed(b.header, lists) = {}
  BY <1>2, <1>5, <1>6 DEF Listed
<1>8. MitmRequest(h, lists, a).header = Sent(a.header) /\ MitmRequest(h, lists, b).header = Sent(b.header)
  BY DEF MitmRequest, Result, a, b, g
<1> HIDE DEF Sent
<1>9. /\ Sent(a.header)["Authorization"] =
           IF "Authorization" \in Listed(h, lists) THEN "absent" ELSE a.header["Authorization"]
      /\ Sent(a.header)["X-Api-Key"] =
           IF "X-Api-Key" \in Listed(h, lists) THEN "absent" ELSE a.header["X-Api-Key"]
      /\ Sent(a.header)["Proxy-Connection"] = "absent"
      /\ Sent(a.header)["X-Forwarded-For"] =
           IF "X-Forwarded-For" \in Listed(h, lists) THEN "proxy" ELSE "absent"
  BY <1>1, <1>4, <1>7
<1>10. /\ \A n \in {"Authorization", "X-Amz-Date"} : Sent(b.header)[n] = b.header[n]
       /\ Sent(b.header)["Proxy-Connection"] = "absent"
       /\ Sent(b.header)["X-Forwarded-For"] = "absent"
  BY <1>1, <1>4, <1>7
<1> QED BY <1>5, <1>6, <1>8, <1>9, <1>10 DEF a, b, g
=============================================================================
