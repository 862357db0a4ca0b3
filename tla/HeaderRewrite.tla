---------------------------- MODULE HeaderRewrite ----------------------------
(***************************************************************************)
(* What the proxy does to a request's headers between the client and the   *)
(* upstream (proxy/server.go, proxy/bedrock.go, setup.Inject in main.go).  *)
(* A header is a function from names to who set the value, and lists the   *)
(* names its Connection line names.  "Te" stands for one that accepts      *)
(* trailers, "Proxy-Connection" for the other hop-by-hop names,            *)
(* "X-Amz-Date" for what a signer adds, "User-Agent" for what it ignores,  *)
(* "Accept" for any other header.                                          *)
(***************************************************************************)

Names == {"Authorization", "X-Api-Key", "Anthropic-Version", "X-Amz-Date",
          "Connection", "Upgrade", "Te", "Proxy-Connection", "User-Agent",
          "Accept", "X-Forwarded-For"}
Setters == {"absent", "client", "proxy"}
Header == [Names -> Setters]

\* What a client can send.
Request == [header: [Names -> {"absent", "client"}], lists: SUBSET Names]

Without(h, names) == [n \in Names |-> IF n \in names THEN "absent" ELSE h[n]]
With(h, names) == [n \in Names |-> IF n \in names THEN "proxy" ELSE h[n]]

\* The names that Connection lists, if it is there.
Listed(h, lists) == IF h["Connection"] # "absent" THEN lists ELSE {}

HopByHop == {"Connection", "Upgrade", "Te", "Proxy-Connection"}
StripHopByHopHeaders(h, lists) == Without(h, Listed(h, lists) \cup HopByHop)

\* signed holds the fields a signature covers, as they were when it was made.
Unsigned == [n \in Names |-> "absent"]
Result(h, signed) == [header |-> h, signed |-> signed]

\* What SignHTTP covers of a header.
Covered(h) == Without(h, {"Authorization", "User-Agent"})

\* setup.Inject for api.anthropic.com, with a bearer, an API key or neither; with
\* neither it does what it does for a host it does not know.
InjectAnthropic(h, credential) ==
  LET clean == Without(h, {"Authorization", "X-Api-Key"})
      given == With(clean, {IF credential = "bearer" THEN "Authorization" ELSE "X-Api-Key"})
  IN CASE credential = "none" -> Result(h, Unsigned)
       [] h["Anthropic-Version"] = "absent" -> Result(With(given, {"Anthropic-Version"}), Unsigned)
       [] OTHER -> Result(given, Unsigned)

\* Faulty variant, for a mutant of PROJECT.json: signing the headers the client
\* sent, hop-by-hop ones included.
SignUnstripped(h, lists, outcome) ==
  LET clean == Without(h, {"Authorization", "X-Amz-Date"})
      dated == With(clean, {"X-Amz-Date"})
  IN CASE outcome = "malformed" -> Result(h, Unsigned)
       [] outcome = "signed" -> Result(With(dated, {"Authorization"}), Covered(dated))
       [] OTHER -> Result(clean, Unsigned)

\* injectBedrockAt: a host without a region is left alone, and the body may not
\* be readable, Retrieve fail or SignHTTP fail.
InjectBedrock(h, lists, outcome) ==
  LET clean == Without(StripHopByHopHeaders(h, lists), {"Authorization", "X-Amz-Date"})
      dated == With(clean, {"X-Amz-Date"})
  IN CASE outcome = "malformed" -> Result(h, Unsigned)
       [] outcome = "signed" -> Result(With(dated, {"Authorization"}), Covered(dated))
       [] OTHER -> Result(clean, Unsigned)

\* httputil.ReverseProxy after the Director: it strips, then puts back a Te of the
\* inbound request and an upgrade, and adds X-Forwarded-For unless the Director's
\* nil is still there, which a client removes that lists the name in Connection.
ReverseProxy(inbound, directed, lists) ==
  LET listed == Listed(directed, lists)
      trailers == {n \in {"Te"} : inbound[n] # "absent"}
      upgrade == IF "Upgrade" \in listed /\ directed["Upgrade"] # "absent"
                 THEN {"Connection", "Upgrade"} ELSE {}
      forwarded == listed \cap {"X-Forwarded-For"}
  IN With(StripHopByHopHeaders(directed, lists), trailers \cup upgrade \cup forwarded)

\* The Director of NewMitmReverseProxy: what it hands to inject, and what goes on
\* once inject has made injected of that.  The assignment of nil to
\* X-Forwarded-For drops a value of the client's too.
ToInject(h) == Without(h, {"Proxy-Connection"})
MitmRequest(h, lists, injected) ==
  LET directed == Without(injected.header, {"X-Forwarded-For"})
  IN Result(ReverseProxy(h, directed, lists), injected.signed)
=============================================================================
