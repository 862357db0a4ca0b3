----------------------------- MODULE MCDataPath -----------------------------
(* TLC instance of DataPath: the headers that clients send. *)
EXTENDS DataPath

Sends(names) == [n \in Names |-> IF n \in names THEN "client" ELSE "absent"]

\* No header, all of them or all but one; Connection lists nothing, one of them or
\* an upgrade with trailers.
MCRequests ==
  {[header |-> Sends(sent), lists |-> lists] :
     sent \in {{}, Names} \cup {Names \ {n} : n \in Names},
     lists \in {{}, {"Upgrade", "Te"}} \cup {{n} : n \in Names}}
=============================================================================
