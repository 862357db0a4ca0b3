------------------------------- MODULE DataPath -------------------------------
(***************************************************************************)
(* What happens to one request that Serve lets through (proxy/server.go):  *)
(* proxyConnect copies bytes between the client and the upstream in two    *)
(* goroutines, proxyMitm ends the client's TLS and serves its connection   *)
(* with an http.Server of its own over a listener of one connection,       *)
(* proxyHTTP forwards a plain request.  (Who is let through: Egress; the   *)
(* credential and its refresh: TokenSource, AwsCreds; the leaf: CAStore.)  *)
(*                                                                         *)
(* A peer sends chunks, may end its direction (fin), and may go away       *)
(* altogether.  conn is the proxy's end of its connection to a peer.       *)
(***************************************************************************)
EXTENDS Integers, HeaderRewrite

CONSTANTS
  MaxChunks,  \* bound: chunks a peer sends
  Requests    \* the headers a client may send

ASSUME MaxChunksAssumption == MaxChunks \in Nat
ASSUME RequestsAssumption == Requests \subseteq Request

Peers == {"client", "upstream"}
Dirs == {"up", "down"}
Src(d) == IF d = "up" THEN "client" ELSE "upstream"
Dst(d) == IF d = "up" THEN "upstream" ELSE "client"

VARIABLES
  route,     \* which of the three functions Serve called
  pc,        \* where the handler is
  conn,      \* per peer: the proxy's end of the connection
  peer,      \* per peer: what it has sent, whether it ended or left
  copy,      \* per direction: the goroutine that copies it
  done,      \* connect: messages in the channel done
  discarded, \* chunks that stayed in the buffered reader Hijack returned
  listener,  \* mitm: singleConnListener and the goroutine in srv.Serve
  served,    \* mitm: the http.Server's state of the connection
  hooked,    \* mitm: ConnState has closed ln and done
  request,   \* the headers of the request being served
  out        \* and what is forwarded for them

tunnel == <<copy, done, discarded>>
mitm == <<listener, served, hooked>>
headers == <<request, out>>
vars == <<route, pc, conn, peer, tunnel, mitm, headers>>

Credentials == {"bearer", "apiKey", "none"}
Outcomes == {"malformed", "failed", "signed"}
Handler == {"start", "dialed", "copying", "closing", "leaf", "handshake",
            "target", "serving", "returned"}
CopyAt == {"off", "read", "write", "report", "ended"}
ServedAs == {"none", "new", "active", "idle", "closed", "hijacked"}
NoRequest == [header |-> [n \in Names |-> "absent"], lists |-> {}]
NoOutput == Result(NoRequest.header, Unsigned)

TypeOK ==
  /\ route \in {"connect", "mitm", "plain"}
  /\ pc \in Handler
  /\ conn \in [Peers -> {"http", "none", "open", "closed"}]
  /\ peer \in [Peers -> [sent: 0 .. MaxChunks, fin: BOOLEAN, gone: BOOLEAN]]
  /\ copy \in [Dirs -> [at: CopyAt, taken: 0 .. MaxChunks,
                        delivered: 0 .. MaxChunks, eof: BOOLEAN]]
  /\ done \in 0 .. 2
  /\ discarded \in 0 .. MaxChunks
  /\ listener \in {"off", "accept", "blocked", "returned"}
  /\ served \in ServedAs
  /\ hooked \in BOOLEAN
  /\ request \in Request
  /\ out \in [header: Header, signed: Header]

Init ==
  /\ route \in {"connect", "mitm", "plain"}
  /\ pc = "start"
  /\ conn = [p \in Peers |-> IF p = "client" THEN "http" ELSE "none"]
  /\ peer = [p \in Peers |-> [sent |-> 0, fin |-> FALSE, gone |-> FALSE]]
  /\ copy = [d \in Dirs |-> [at |-> "off", taken |-> 0, delivered |-> 0,
                             eof |-> FALSE]]
  /\ done = 0
  /\ discarded = 0
  /\ listener = "off"
  /\ served = "none"
  /\ hooked = FALSE
  /\ request = NoRequest
  /\ out = NoOutput

Go(from, to) == pc = from /\ pc' = to

-----------------------------------------------------------------------------
(* Faulty variants of the actions below, for the mutants of PROJECT.json. *)

\* A copy that stops as soon as its source has ended its direction.
CopyStopsAtFin(d) ==
  LET from == Src(d) IN
  /\ copy[d].at = "read"
  /\ \/ /\ conn[from] = "open" /\ copy[d].taken < peer[from].sent
        /\ copy' = [copy EXCEPT ![d].at = "write", ![d].taken = @ + 1]
     \/ /\ conn[from] = "closed" \/ peer[from].fin \/ peer[from].gone
        /\ copy' = [copy EXCEPT ![d].at = "report"]
  /\ UNCHANGED <<route, pc, conn, peer, done, discarded, mitm, headers>>

\* The handler leaves the upstream's connection to the copy that reads it.
LeaveUpstream ==
  /\ Go("copying", "closing")
  /\ done > 0
  /\ done' = done - 1
  /\ UNCHANGED <<route, conn, peer, copy, discarded, mitm, headers>>

\* A copy that reports twice, to a channel with room for both directions.
CopyReportsTwice(d) ==
  /\ copy[d].at = "report"
  /\ done' = done + 2
  /\ copy' = [copy EXCEPT ![d].at = "ended"]
  /\ UNCHANGED <<route, pc, conn, peer, discarded, mitm, headers>>

-----------------------------------------------------------------------------
(* proxyConnect *)

\* net.DialTimeout: an upstream, or an error and a 502.
Dial ==
  /\ route = "connect"
  /\ \/ Go("start", "dialed") /\ conn' = [conn EXCEPT !.upstream = "open"]
     \/ Go("start", "returned") /\ UNCHANGED conn
  /\ UNCHANGED <<route, peer, tunnel, mitm, headers>>

\* Hijack and the two goroutines.  What the client sent without waiting for the
\* 200 may be in the reader that Hijack returns and proxyConnect ignores.
HijackConnect ==
  /\ \/ /\ Go("dialed", "copying")
        /\ conn' = [conn EXCEPT !.client = "open"]
        /\ \E n \in 0 .. peer["client"].sent :
             /\ discarded' = n
             /\ copy' = [d \in Dirs |-> [copy[d] EXCEPT !.at = "read",
                           !.taken = IF d = "up" THEN n ELSE 0]]
     \/ /\ Go("dialed", "returned")
        /\ conn' = [conn EXCEPT !.upstream = "closed"]
        /\ UNCHANGED <<discarded, copy>>
  /\ UNCHANGED <<route, peer, done, mitm, headers>>

\* io.Copy reads: a chunk, the end, or an error once the connection is closed
\* on either side.
CopyReads(d) ==
  LET from == Src(d) IN
  /\ copy[d].at = "read"
  /\ \/ /\ conn[from] = "open" /\ copy[d].taken < peer[from].sent
        /\ copy' = [copy EXCEPT ![d].at = "write", ![d].taken = @ + 1]
     \/ /\ conn[from] = "open" /\ copy[d].taken = peer[from].sent
        /\ peer[from].fin
        /\ copy' = [copy EXCEPT ![d].at = "report", ![d].eof = TRUE]
     \/ /\ conn[from] = "closed" \/ peer[from].gone
        /\ copy' = [copy EXCEPT ![d].at = "report"]
  /\ UNCHANGED <<route, pc, conn, peer, done, discarded, mitm, headers>>

\* io.Copy writes the chunk; a peer that left may take it or refuse it.
CopyWrites(d) ==
  LET to == Dst(d) IN
  /\ copy[d].at = "write"
  /\ \/ /\ conn[to] = "open"
        /\ copy' = [copy EXCEPT ![d].at = "read", ![d].delivered = @ + 1]
     \/ /\ conn[to] = "closed" \/ peer[to].gone
        /\ copy' = [copy EXCEPT ![d].at = "report"]
  /\ UNCHANGED <<route, pc, conn, peer, done, discarded, mitm, headers>>

\* done <- struct{}{}, which never waits: the channel has room for both.
CopyReports(d) ==
  /\ copy[d].at = "report"
  /\ done < 2
  /\ done' = done + 1
  /\ copy' = [copy EXCEPT ![d].at = "ended"]
  /\ UNCHANGED <<route, pc, conn, peer, discarded, mitm, headers>>

\* One direction has ended: <-done and upstream.Close().
CloseUpstream ==
  /\ Go("copying", "closing")
  /\ done > 0
  /\ done' = done - 1
  /\ conn' = [conn EXCEPT !.upstream = "closed"]
  /\ UNCHANGED <<route, peer, copy, discarded, mitm, headers>>

CloseClient ==
  /\ Go("closing", "returned")
  /\ conn' = [conn EXCEPT !.client = "closed"]
  /\ UNCHANGED <<route, peer, tunnel, mitm, headers>>

-----------------------------------------------------------------------------
(* proxyMitm *)

HijackMitm ==
  /\ route = "mitm"
  /\ \/ /\ Go("start", "leaf")
        /\ conn' = [conn EXCEPT !.client = "open"]
        /\ discarded' \in 0 .. peer["client"].sent
     \/ Go("start", "returned") /\ UNCHANGED <<conn, discarded>>
  /\ UNCHANGED <<route, peer, copy, done, mitm, headers>>

\* leaves.Get, or an error and client.Close().
GetLeaf ==
  /\ \/ Go("leaf", "handshake") /\ UNCHANGED conn
     \/ Go("leaf", "returned") /\ conn' = [conn EXCEPT !.client = "closed"]
  /\ UNCHANGED <<route, peer, tunnel, mitm, headers>>

\* The client's part of the handshake; there is no deadline for it.
Handshake ==
  /\ Go("handshake", "target")
  /\ ~peer["client"].gone /\ discarded = 0
  /\ UNCHANGED <<route, conn, peer, tunnel, mitm, headers>>

\* The client refuses the certificate, speaks no TLS or is gone.
HandshakeFails ==
  /\ Go("handshake", "returned")
  /\ conn' = [conn EXCEPT !.client = "closed"]
  /\ UNCHANGED <<route, peer, tunnel, mitm, headers>>

\* url.Parse, and go srv.Serve(ln).  An upstream that does not parse ends the
\* handler with the connection left open.
ServeListener ==
  /\ \/ Go("target", "serving") /\ listener' = "accept"
     \/ Go("target", "returned") /\ UNCHANGED listener
  /\ UNCHANGED <<route, conn, peer, tunnel, served, hooked, headers>>

\* The first Accept hands the connection out, the second waits for Close.
Accept ==
  /\ listener = "accept"
  /\ listener' = "blocked"
  /\ served' = "new"
  /\ UNCHANGED <<route, pc, conn, peer, tunnel, hooked, headers>>

AcceptEnds ==
  /\ listener = "blocked"
  /\ hooked
  /\ listener' = "returned"
  /\ UNCHANGED <<route, pc, conn, peer, tunnel, served, hooked, headers>>

\* The client's request reaches the reverse proxy, which rewrites and forwards
\* it: to Anthropic with one of the credentials, to Bedrock with a signature.
Receive ==
  /\ served \in {"new", "idle"}
  /\ ~peer["client"].gone
  /\ served' = "active"
  /\ request' \in Requests
  /\ LET h == request'.header
         GoesOn(injected) == out' = MitmRequest(h, request'.lists, injected)
     IN \/ \E credential \in Credentials :
             GoesOn(InjectAnthropic(ToInject(h), credential))
        \/ \E outcome \in Outcomes :
             GoesOn(InjectBedrock(ToInject(h), request'.lists, outcome))
  /\ UNCHANGED <<route, pc, conn, peer, tunnel, listener, hooked>>

\* The response, or ErrorHandler's 502, has been written; the connection is kept
\* for another request, or closed (the client's wish, a failed write, a response
\* that broke off).
Respond ==
  /\ served = "active"
  /\ \/ served' = "idle" /\ UNCHANGED conn
     \/ served' = "closed" /\ conn' = [conn EXCEPT !.client = "closed"]
  /\ request' = NoRequest /\ out' = NoOutput
  /\ UNCHANGED <<route, pc, peer, tunnel, listener, hooked>>

\* The upstream answers 101 to an upgrade: the reverse proxy hijacks.
Upgrade ==
  /\ served = "active"
  /\ out.header["Upgrade"] # "absent"
  /\ served' = "hijacked"
  /\ request' = NoRequest /\ out' = NoOutput
  /\ UNCHANGED <<route, pc, conn, peer, tunnel, listener, hooked>>

\* Between requests the client's end of the connection ends it.
ClientEnds ==
  /\ served \in {"new", "idle"}
  /\ peer["client"].fin \/ peer["client"].gone
  /\ served' = "closed"
  /\ conn' = [conn EXCEPT !.client = "closed"]
  /\ UNCHANGED <<route, pc, peer, tunnel, listener, hooked, headers>>

\* ConnState: ln.Close() and close(done), once.
ConnState ==
  /\ served \in {"closed", "hijacked"}
  /\ ~hooked
  /\ hooked' = TRUE
  /\ UNCHANGED <<route, pc, conn, peer, tunnel, listener, served, headers>>

\* <-done and tlsConn.Close(), under an upgraded connection too.
CloseMitm ==
  /\ Go("serving", "returned")
  /\ hooked
  /\ conn' = [conn EXCEPT !.client = "closed"]
  /\ UNCHANGED <<route, peer, tunnel, mitm, headers>>

-----------------------------------------------------------------------------
(* proxyHTTP, on the connection of Serve's own server *)

\* A plain request, injected into when its host is a MITM host, is sent as it
\* is; the response or a 502 comes back.
proxyHTTP ==
  /\ route = "plain"
  /\ Go("start", "returned")
  /\ request' \in Requests
  /\ \/ out' = Result(request'.header, Unsigned)
     \/ \E credential \in Credentials :
          out' = InjectAnthropic(request'.header, credential)
     \/ \E outcome \in Outcomes :
          out' = InjectBedrock(request'.header, request'.lists, outcome)
  /\ UNCHANGED <<route, conn, peer, tunnel, mitm>>

-----------------------------------------------------------------------------
(* The peers *)

Reaches(p) == conn[p] \in {"http", "open"} /\ ~peer[p].gone

Send(p) ==
  /\ Reaches(p) /\ ~peer[p].fin /\ peer[p].sent < MaxChunks
  /\ peer' = [peer EXCEPT ![p].sent = @ + 1]
  /\ UNCHANGED <<route, pc, conn, tunnel, mitm, headers>>

\* The peer ends its direction and goes on reading.
EndSending(p) ==
  /\ Reaches(p) /\ ~peer[p].fin
  /\ peer' = [peer EXCEPT ![p].fin = TRUE]
  /\ UNCHANGED <<route, pc, conn, tunnel, mitm, headers>>

\* The peer closes or loses the connection.
Leave(p) ==
  /\ Reaches(p)
  /\ peer' = [peer EXCEPT ![p].gone = TRUE]
  /\ UNCHANGED <<route, pc, conn, tunnel, mitm, headers>>

-----------------------------------------------------------------------------

Copy == \E d \in Dirs : CopyReads(d) \/ CopyWrites(d) \/ CopyReports(d)

ProxyConnect == Dial \/ HijackConnect \/ Copy \/ CloseUpstream \/ CloseClient

ProxyMitm ==
  \/ HijackMitm \/ GetLeaf \/ ServeListener \/ Accept \/ AcceptEnds
  \/ Respond \/ Upgrade \/ ClientEnds \/ ConnState \/ CloseMitm

Client == Handshake \/ HandshakeFails \/ Receive

Peer(p) == Send(p) \/ EndSending(p) \/ Leave(p)

Next ==
  \/ ProxyConnect \/ ProxyMitm \/ proxyHTTP
  \/ Client
  \/ \E p \in Peers : Peer(p)

Spec == Init /\ [][Next]_vars

\* The dial has a timeout, goroutines are scheduled, and a peer reads what is
\* sent to it.  Nothing makes a client speak: only the handshake of one that has
\* gone is sure to fail.
FairSpec ==
  /\ Spec
  /\ \A d \in Dirs : WF_vars(CopyReads(d)) /\ WF_vars(CopyWrites(d))
                                          /\ WF_vars(CopyReports(d))
  /\ WF_vars(Dial \/ HijackConnect \/ CloseUpstream \/ CloseClient)
  /\ WF_vars(HijackMitm \/ GetLeaf \/ ServeListener \/ CloseMitm \/ proxyHTTP)
  /\ WF_vars(Respond \/ ClientEnds \/ ConnState)
  /\ WF_vars(Accept) /\ WF_vars(AcceptEnds)
  /\ WF_vars(peer["client"].gone /\ HandshakeFails)

-----------------------------------------------------------------------------
(* Properties *)

Stays(p) == ~peer[p].gone

\* A tunnel between peers that both stay closes only when one of them has ended
\* its direction and all it sent has been delivered (what the other one still had
\* to say is lost); this is for a client that waits for the 200, as what it sends
\* earlier may stay in Hijack's reader.  An intercepted connection is closed only
\* between or after requests, or else because it was upgraded: that one is closed
\* as soon as the upgrade is granted.
NotCutShort ==
  conn["client"] = "closed" /\ Stays("client") /\ Stays("upstream") =>
    /\ route = "connect" /\ discarded = 0 =>
         \E d \in Dirs : peer[Src(d)].fin /\ peer[Src(d)].sent = copy[d].delivered
    /\ route = "mitm" => served \notin {"new", "active", "idle"}

\* AWS rejects a signature that names headers it does not see as they were
\* signed.  Each header the signature covers goes out as it was, except for an
\* X-Forwarded-For of the client's (signed, then dropped by the Director); and
\* what goes out beside it is the signature, what SignHTTP ignores and the Te that
\* ReverseProxy restores.  (The transport's own headers are left out.)
SignatureCoversRequest ==
  out.signed # Unsigned =>
    \A n \in Names :
      \/ out.header[n] = out.signed[n]
      \/ out.signed[n] = "absent" /\ n \in {"Authorization", "User-Agent", "Te"}
      \/ n = "X-Forwarded-For" /\ request.header[n] # "absent"

\* No handler and no goroutine outlives its client: whatever the path had
\* reached when the client left, it returns, both copies and the one-connection
\* server end.
PathEnds ==
  peer["client"].gone ~>
    /\ pc = "returned"
    /\ \A d \in Dirs : copy[d].at \in {"off", "ended"}
    /\ listener \in {"off", "returned"}
    /\ served \in {"none", "closed", "hijacked"}
=============================================================================
