------------------------- MODULE UsageTracker_proofs -------------------------
(***************************************************************************)
(* Proofs about UsageTracker for any finite set of responses, any models   *)
(* and any payloads.  The argument: the WaitGroup counts the parsers that  *)
(* have not ended (Counted), so when Wait is let go or returns each stream *)
(* observed by then has been added, and only one that joined later can make *)
(* it panic; nothing runs between the sum and the end.  The                *)
(* parser's locals describe the frames it was sent (Parsing), so what it   *)
(* adds is what the response used, and nothing read later changes that:    *)
(* the totals are at every moment the sums of what was used (Ledger).      *)
(***************************************************************************)
EXTENDS UsageTracker, FiniteSetTheorems, WellFoundedInduction, TLAPS

\* Sets of sequences, opaque to the steps that only pass sequences on.
Content == Seq(Payload)
Snapshots == Seq(Usage)

Response ==
  [pc: {"idle", "copying", "writing", "closed"}, kind: {"none", "stream", "json"},
   model: Models \cup {"none"}, body: Content, read: Nat,
   full: BOOLEAN, ended: BOOLEAN, flushed: BOOLEAN]

Parser ==
  [pc: {"none", "reading", "adding", "draining", "done"},
   u: Usage, last: Nat, snapshot: Snapshots]

Typed ==
  /\ resp \in [Responses -> Response]
  /\ parser \in [Responses -> Parser]
  /\ wg \in Nat
  /\ byModel \in [Models -> Usage]
  /\ main \in {"running", "waiting", "blocked", "released", "summing",
              "reported", "panicked"}
  /\ report \in [Models -> Usage]
  /\ waited \subseteq Responses

\* A response in use has a model, a stream has a parser, and a full pipe has a
\* frame in it.
Fits(r, p) ==
  /\ r.pc = "idle" => r.kind = "none"
  /\ r.kind = "stream" <=> p.pc # "none"
  /\ r.kind # "none" => r.model \in Models
  /\ r.kind = "json" => Len(r.body) = 1
  /\ r.read <= Len(r.body)
  /\ r.full => r.pc = "writing" /\ r.kind = "stream" /\ r.read > 0
  /\ Len(p.snapshot) <= 1

Kinds == \A s \in Responses : Fits(resp[s], parser[s])

Busy == {"reading", "adding", "draining"}
Running == {s \in Responses : parser[s].pc \in Busy}

Counted == wg = Cardinality(Running)

Reported ==
  /\ main \in {"released", "summing", "reported"} =>
       \A s \in waited : parser[s].pc = "done"
  /\ main = "reported" => report = byModel
  /\ main = "panicked" => ObservedStreams \ waited # {}

IInv == Typed /\ Kinds /\ Counted /\ Reported

-----------------------------------------------------------------------------
(* The operators *)

\* The sum of two usages is one.
LEMMA PlusTyped == ASSUME NEW u \in Usage, NEW v \in Usage PROVE Plus(u, v) \in Usage
  BY DEF Plus, Usage

\* OpenAI's form splits into tokens that are not negative.
LEMMA TokensTyped == ASSUME NEW f \in Payload PROVE tokens(f) \in Usage
  BY DEF tokens, Payload, Usage

\* A frame keeps the parser's locals typed, keeps its pc, and leaves at most one
\* snapshot.
LEMMA ParseTyped ==
  ASSUME NEW p \in Parser, NEW f \in Payload, Len(p.snapshot) <= 1
  PROVE  /\ Parse(p, f) \in Parser
         /\ Parse(p, f).pc = p.pc
         /\ Len(Parse(p, f).snapshot) <= 1
<1>1. CASE f.type = "message_start"
  <2> DEFINE w == Plus(p.u, [input |-> f.input, cacheRead |-> f.cacheRead, output |-> 0])
  <2>1. Parse(p, f) = [p EXCEPT !.u = w]
    BY <1>1 DEF Parse
  <2>2. w \in Usage
    <3>1. p.u \in Usage /\ [input |-> f.input, cacheRead |-> f.cacheRead, output |-> 0] \in Usage
      BY DEF Parser, Payload, Usage
    <3> QED BY <3>1, PlusTyped
  <2> HIDE DEF w
  <2> QED BY <2>1, <2>2 DEF Parser
<1>2. CASE f.type = "message_delta"
  <2>1. Parse(p, f) = [p EXCEPT !.last = f.output]
    BY <1>2 DEF Parse
  <2> QED BY <2>1 DEF Parser, Payload
<1>3. CASE f.type = "openai"
  <2>1. Parse(p, f) = [p EXCEPT !.snapshot = <<tokens(f)>>]
    BY <1>3 DEF Parse
  <2> DEFINE one == <<tokens(f)>>
  <2>2. one \in Snapshots /\ Len(one) = 1
    BY TokensTyped DEF Snapshots
  <2>3. Parse(p, f) = [p EXCEPT !.snapshot = one]
    BY <2>1
  <2> HIDE DEF one
  <2>4. Parse(p, f) \in Parser
    BY <2>2, <2>3 DEF Parser
  <2>5. Parse(p, f).pc = p.pc /\ Parse(p, f).snapshot = one
    BY <2>3 DEF Parser
  <2>6. Len(Parse(p, f).snapshot) = 1
    BY <2>2, <2>5
  <2> QED BY <2>4, <2>5, <2>6
<1>4. CASE f.type \notin {"message_start", "message_delta", "openai"}
  BY <1>4 DEF Parse
<1> QED BY <1>1, <1>2, <1>3, <1>4

\* add keeps the totals typed.
LEMMA AddTyped ==
  ASSUME byModel \in [Models -> Usage], NEW m \in Models, NEW u \in Usage, add(m, u)
  PROVE  byModel' \in [Models -> Usage]
  BY PlusTyped DEF add

\* So does a flush.
LEMMA FlushTyped ==
  ASSUME Typed, Kinds, NEW s \in Responses, flush(s)
  PROVE  byModel' \in [Models -> Usage]
<1>1. CASE resp[s].kind = "json" /\ ~resp[s].flushed /\ resp[s].read = Len(resp[s].body)
  <2>1. resp[s].body[1] \in Payload /\ resp[s].model \in Models
    BY <1>1 DEF Typed, Kinds, Fits, Response, Content
  <2>2. add(resp[s].model, tokens(resp[s].body[1]))
    BY <1>1 DEF flush
  <2> QED BY <2>1, <2>2, TokensTyped, AddTyped DEF Typed
<1>2. CASE ~(resp[s].kind = "json" /\ ~resp[s].flushed /\ resp[s].read = Len(resp[s].body))
  BY <1>2 DEF flush, Typed
<1> QED BY <1>1, <1>2

-----------------------------------------------------------------------------
(* The WaitGroup *)

\* A goroutine that starts or ends moves the set of running parsers by one.
LEMMA RunningFinite == ASSUME NEW S \in SUBSET Responses PROVE IsFiniteSet(S)
  BY ResponsesAssumption, FS_Subset

LEMMA Counting ==
  ASSUME NEW S \in SUBSET Responses, NEW s \in Responses
  PROVE  /\ s \notin S => Cardinality(S \cup {s}) = Cardinality(S) + 1
         /\ s \in S => Cardinality(S \ {s}) = Cardinality(S) - 1
         /\ Cardinality(S) \in Nat
  BY RunningFinite, FS_AddElement, FS_RemoveElement, FS_CardinalityType

\* What the steps of a response and its parser have in common.
Moves(s, r, p) ==
  /\ resp' = [resp EXCEPT ![s] = r]
  /\ parser' = [parser EXCEPT ![s] = p]

Counts(s, p) ==
  \/ (parser[s].pc \in Busy <=> p.pc \in Busy) /\ wg' = wg
  \/ parser[s].pc \notin Busy /\ p.pc \in Busy /\ wg' = wg + 1
  \/ parser[s].pc \in Busy /\ p.pc \notin Busy /\ wg' = wg - 1

\* When the counter is 0 every stream's parser has ended.
LEMMA NoneLeft ==
  ASSUME Typed, Kinds, Counted, wg = 0
  PROVE  \A s \in ObservedStreams : parser[s].pc = "done"
<1>1. Running = {}
  <2>1. IsFiniteSet(Running)  BY RunningFinite DEF Running
  <2> QED BY <2>1, FS_EmptySet DEF Counted
<1> QED BY <1>1 DEF ObservedStreams, Running, Busy, Typed, Kinds, Fits, Parser

LEMMA MoveInv ==
  ASSUME IInv, NEW s \in Responses, NEW r \in Response, NEW p \in Parser,
         Moves(s, r, p), Fits(r, p), Counts(s, p),
         parser[s].pc = "done" => p.pc = "done",
         byModel' \in [Models -> Usage], Alive, UNCHANGED report,
         \/ UNCHANGED <<main, waited>>
         \/ wg = 1 /\ wg' = 0 /\ main' = "released" /\ waited' = ObservedStreams /\ r = resp[s]
  PROVE  IInv'
<1>1. /\ resp' \in [Responses -> Response] /\ parser' \in [Responses -> Parser]
      /\ resp'[s] = r /\ parser'[s] = p
      /\ \A t \in Responses : t # s => resp'[t] = resp[t] /\ parser'[t] = parser[t]
  BY DEF Moves, IInv, Typed
<1>2. Kinds'
  BY <1>1 DEF IInv, Kinds
<1>3. wg' = Cardinality(Running') /\ wg' \in Nat
  <2>1. CASE (parser[s].pc \in Busy <=> p.pc \in Busy) /\ wg' = wg
    <3>1. Running' = Running  BY <1>1, <2>1 DEF Running
    <3> QED BY <2>1, <3>1 DEF IInv, Counted, Typed
  <2>2. CASE parser[s].pc \notin Busy /\ p.pc \in Busy /\ wg' = wg + 1
    <3>1. s \notin Running /\ Running' = Running \cup {s}  BY <1>1, <2>2 DEF Running
    <3>2. Running \in SUBSET Responses  BY DEF Running
    <3> QED BY <2>2, <3>1, <3>2, Counting DEF IInv, Counted, Typed
  <2>3. CASE parser[s].pc \in Busy /\ p.pc \notin Busy /\ wg' = wg - 1
    <3>1. s \in Running /\ Running' = Running \ {s}  BY <1>1, <2>3 DEF Running
    <3>2. Running \in SUBSET Responses /\ Running \ {s} \in SUBSET Responses  BY DEF Running
    <3>3. Cardinality(Running \ {s}) = Cardinality(Running) - 1
      BY <3>1, <3>2, Counting
    <3>4. Cardinality(Running \ {s}) \in Nat
      BY <3>2, Counting
    <3> QED BY <2>3, <3>1, <3>3, <3>4 DEF IInv, Counted
  <2> QED BY <2>1, <2>2, <2>3 DEF Counts
<1>4. Typed'
  <2>1. ObservedStreams \subseteq Responses  BY DEF ObservedStreams
  <2> QED BY <1>1, <1>3, <2>1 DEF IInv, Typed
<1>5. Reported'
  <2>1. CASE UNCHANGED <<main, waited>>
    BY <1>1, <2>1 DEF IInv, Typed, Reported, Alive
  <2>2. CASE wg' = 0 /\ main' = "released" /\ waited' = ObservedStreams /\ r = resp[s]
    <3>1. \A t \in ObservedStreams' : parser'[t].pc = "done"
      <4>1. Running' = {}
        <5>1. IsFiniteSet(Running')
          <6>1. Running' \subseteq Responses  BY DEF Running
          <6> QED BY <6>1, RunningFinite
        <5> QED BY <1>3, <2>2, <5>1, FS_EmptySet
      <4> QED BY <1>2, <1>4, <4>1 DEF ObservedStreams, Running, Busy, Typed, Kinds, Fits, Parser
    <3>2. ObservedStreams' = ObservedStreams
      BY <1>1, <2>2 DEF ObservedStreams
    <3> QED BY <2>2, <3>1, <3>2 DEF Reported
  <2> QED BY <2>1, <2>2
<1> QED BY <1>2, <1>3, <1>4, <1>5 DEF IInv, Counted

-----------------------------------------------------------------------------
(* Updates of the records *)

\* What an update leaves alone, and that it stays a response.
LEMMA Updates ==
  ASSUME NEW r \in Response, NEW n \in Nat
  PROVE  /\ [r EXCEPT !.read = n] \in Response
         /\ [r EXCEPT !.read = n, !.full = TRUE, !.pc = "writing"] \in Response
         /\ [r EXCEPT !.ended = TRUE] \in Response
         /\ [r EXCEPT !.ended = TRUE, !.flushed = TRUE] \in Response
         /\ [r EXCEPT !.pc = "closed", !.ended = TRUE, !.flushed = TRUE] \in Response
         /\ [r EXCEPT !.full = FALSE, !.pc = "copying"] \in Response
<1>1. [r EXCEPT !.read = n] \in Response  BY DEF Response
<1>2. [r EXCEPT !.read = n, !.full = TRUE, !.pc = "writing"] \in Response  BY Zenon DEF Response
<1>3. [r EXCEPT !.ended = TRUE] \in Response  BY DEF Response
<1>4. [r EXCEPT !.ended = TRUE, !.flushed = TRUE] \in Response  BY DEF Response
<1>5. [r EXCEPT !.pc = "closed", !.ended = TRUE, !.flushed = TRUE] \in Response  BY Zenon DEF Response
<1>6. [r EXCEPT !.full = FALSE, !.pc = "copying"] \in Response  BY DEF Response
<1> QED BY <1>1, <1>2, <1>3, <1>4, <1>5, <1>6

\* A parser that changes its pc only.
LEMMA ParserGoes ==
  ASSUME NEW p \in Parser, NEW c \in {"none", "reading", "adding", "draining", "done"}
  PROVE  /\ [p EXCEPT !.pc = c] \in Parser
         /\ [p EXCEPT !.pc = c].pc = c
         /\ [p EXCEPT !.pc = c].snapshot = p.snapshot
  BY DEF Parser

\* A step may leave either record as it is.
LEMMA Stays ==
  ASSUME Typed, NEW s \in Responses
  PROVE  resp = [resp EXCEPT ![s] = resp[s]] /\ parser = [parser EXCEPT ![s] = parser[s]]
  BY DEF Typed

-----------------------------------------------------------------------------
(* The inductive invariant *)

LEMMA InitInv == Init => IInv
<1> SUFFICES ASSUME Init PROVE IInv
  OBVIOUS
<1>1. NoUsage \in Usage  BY DEF NoUsage, Usage
<1>2. NoResponse \in Response /\ NoParser \in Parser
  <2>1. <<>> \in Content /\ <<>> \in Snapshots  BY DEF Content, Snapshots
  <2> QED BY <1>1, <2>1 DEF NoResponse, Response, NoParser, Parser
<1>3. Typed  BY <1>1, <1>2 DEF Init, Typed
<1>4. Kinds
  <2>1. Fits(NoResponse, NoParser)  BY DEF Fits, NoResponse, NoParser
  <2> QED BY <2>1 DEF Init, Kinds
<1>5. Running = {}
  <2>1. NoParser.pc \notin Busy  BY DEF NoParser, Busy
  <2> QED BY <2>1 DEF Init, Running
<1>6. Counted  BY <1>5, FS_EmptySet DEF Init, Counted
<1> QED BY <1>3, <1>4, <1>6 DEF Init, Reported, IInv

LEMMA StepInv == ASSUME IInv, [Next]_vars PROVE IInv'
<1>0. \A s \in Responses :
        /\ resp[s] \in Response /\ parser[s] \in Parser /\ Fits(resp[s], parser[s])
        /\ resp[s].read \in Nat
        /\ byModel \in [Models -> Usage]
  BY DEF IInv, Typed, Kinds, Response
<1>1. ASSUME NEW s \in Responses, ReadBreaks(s) PROVE IInv'
  <2> DEFINE r == [resp[s] EXCEPT !.ended = TRUE]
  <2> DEFINE p == parser[s]
  <2>1. Moves(s, r, p)
    BY <1>1, Stays DEF ReadBreaks, Moves, IInv
  <2>2. r \in Response /\ p \in Parser
    BY <1>0, Updates, ParserGoes
  <2>3. Fits(r, p)
    BY <1>0, <1>1, ParserGoes DEF ReadBreaks, Fits, Response
  <2>4. Counts(s, p) /\ (parser[s].pc = "done" => p.pc = "done")
    BY <1>0, <1>1, ParserGoes DEF ReadBreaks, Fits, Counts, Busy
  <2>5. byModel' \in [Models -> Usage] /\ Alive /\ UNCHANGED <<main, report, waited>>
    BY <1>0, <1>1 DEF ReadBreaks
  <2> HIDE DEF r, p
  <2> QED BY <2>1, <2>2, <2>3, <2>4, <2>5, MoveInv
<1>2. ASSUME NEW s \in Responses, ReadEOF(s) PROVE IInv'
  <2> DEFINE r == [resp[s] EXCEPT !.ended = TRUE, !.flushed = TRUE]
  <2> DEFINE p == parser[s]
  <2>1. Moves(s, r, p)
    BY <1>2, Stays DEF ReadEOF, Moves, IInv
  <2>2. r \in Response /\ p \in Parser
    BY <1>0, Updates, ParserGoes
  <2>3. Fits(r, p)
    BY <1>0, <1>2, ParserGoes DEF ReadEOF, Fits, Response
  <2>4. Counts(s, p) /\ (parser[s].pc = "done" => p.pc = "done")
    BY <1>0, <1>2, ParserGoes DEF ReadEOF, Fits, Counts, Busy
  <2>5. byModel' \in [Models -> Usage] /\ Alive /\ UNCHANGED <<main, report, waited>>
    BY <1>0, <1>2, FlushTyped DEF ReadEOF, IInv
  <2> HIDE DEF r, p
  <2> QED BY <2>1, <2>2, <2>3, <2>4, <2>5, MoveInv
<1>3. ASSUME NEW s \in Responses, Close(s) PROVE IInv'
  <2> DEFINE r == [resp[s] EXCEPT !.pc = "closed", !.ended = TRUE, !.flushed = TRUE]
  <2> DEFINE p == parser[s]
  <2>1. Moves(s, r, p)
    BY <1>3, Stays DEF Close, Moves, IInv
  <2>2. r \in Response /\ p \in Parser
    BY <1>0, Updates, ParserGoes
  <2>3. Fits(r, p)
    BY <1>0, <1>3, ParserGoes DEF Close, Fits, Response
  <2>4. Counts(s, p) /\ (parser[s].pc = "done" => p.pc = "done")
    BY <1>0, <1>3, ParserGoes DEF Close, Fits, Counts, Busy
  <2>5. byModel' \in [Models -> Usage] /\ Alive /\ UNCHANGED <<main, report, waited>>
    BY <1>0, <1>3, FlushTyped DEF Close, IInv
  <2> HIDE DEF r, p
  <2> QED BY <2>1, <2>2, <2>3, <2>4, <2>5, MoveInv
<1>4. ASSUME NEW s \in Responses, Stop(s) PROVE IInv'
  <2> DEFINE r == resp[s]
  <2> DEFINE p == [parser[s] EXCEPT !.pc = "adding"]
  <2>1. Moves(s, r, p)
    BY <1>4, Stays DEF Stop, Moves, IInv
  <2>2. r \in Response /\ p \in Parser
    BY <1>0, Updates, ParserGoes
  <2>3. Fits(r, p)
    BY <1>0, <1>4, ParserGoes DEF Stop, Fits, Response
  <2>4. Counts(s, p) /\ (parser[s].pc = "done" => p.pc = "done")
    BY <1>0, <1>4, ParserGoes DEF Stop, Fits, Counts, Busy
  <2>5. byModel' \in [Models -> Usage] /\ Alive /\ UNCHANGED <<main, report, waited>>
    BY <1>0, <1>4 DEF Stop
  <2> HIDE DEF r, p
  <2> QED BY <2>1, <2>2, <2>3, <2>4, <2>5, MoveInv
<1>5. ASSUME NEW s \in Responses, Done(s) PROVE IInv'
  <2> DEFINE r == resp[s]
  <2> DEFINE p == [parser[s] EXCEPT !.pc = "done"]
  <2>1. Moves(s, r, p)
    BY <1>5, Stays DEF Done, Moves, IInv
  <2>2. r \in Response /\ p \in Parser
    BY <1>0, Updates, ParserGoes
  <2>3. Fits(r, p)
    BY <1>0, <1>5, ParserGoes DEF Done, Fits, Response
  <2>4. Counts(s, p) /\ (parser[s].pc = "done" => p.pc = "done")
    BY <1>0, <1>5, ParserGoes DEF Done, LeaveGroup, Fits, Counts, Busy
  <2>5. byModel' \in [Models -> Usage] /\ Alive /\ UNCHANGED report
    BY <1>0, <1>5 DEF Done
  <2>6. \/ UNCHANGED <<main, waited>>
        \/ wg = 1 /\ wg' = 0 /\ main' = "released" /\ waited' = ObservedStreams /\ r = resp[s]
    BY <1>5 DEF Done, LeaveGroup
  <2> HIDE DEF r, p
  <2> QED BY <2>1, <2>2, <2>3, <2>4, <2>5, <2>6, MoveInv
<1>6. ASSUME NEW s \in Responses, Drain(s) PROVE IInv'
  <2> DEFINE r == [resp[s] EXCEPT !.full = FALSE, !.pc = "copying"]
  <2> DEFINE p == parser[s]
  <2>1. Moves(s, r, p)
    BY <1>6, Stays DEF Drain, Moves, IInv, Written
  <2>2. r \in Response /\ p \in Parser
    BY <1>0, Updates, ParserGoes
  <2>3. Fits(r, p)
    BY <1>0, <1>6, ParserGoes DEF Drain, Fits, Response
  <2>4. Counts(s, p) /\ (parser[s].pc = "done" => p.pc = "done")
    BY <1>0, <1>6, ParserGoes DEF Drain, Fits, Counts, Busy
  <2>5. byModel' \in [Models -> Usage] /\ Alive /\ UNCHANGED <<main, report, waited>>
    BY <1>0, <1>6 DEF Drain
  <2> HIDE DEF r, p
  <2> QED BY <2>1, <2>2, <2>3, <2>4, <2>5, MoveInv
<1>7. ASSUME NEW s \in Responses, Add(s) PROVE IInv'
  <2> DEFINE r == resp[s]
  <2> DEFINE p == [parser[s] EXCEPT !.pc = "draining"]
  <2>1. Moves(s, r, p)
    BY <1>7, Stays DEF Add, Moves, IInv
  <2>2. r \in Response /\ p \in Parser
    BY <1>0, Updates, ParserGoes
  <2>3. Fits(r, p)
    BY <1>0, <1>7, ParserGoes DEF Add, Fits, Response
  <2>4. Counts(s, p) /\ (parser[s].pc = "done" => p.pc = "done")
    BY <1>0, <1>7, ParserGoes DEF Add, Fits, Counts, Busy
  <2>5. byModel' \in [Models -> Usage] /\ Alive /\ UNCHANGED <<main, report, waited>>
    <3>1. parser[s].pc = "adding"  BY <1>7 DEF Add
    <3>2. resp[s].model \in Models  BY <1>0, <3>1 DEF Fits
    <3> DEFINE u == IF parser[s].snapshot # <<>> THEN parser[s].snapshot[1]
                    ELSE [parser[s].u EXCEPT !.output = parser[s].last]
    <3>3. u \in Usage
      <4>1. parser[s].snapshot \in Seq(Usage) /\ parser[s].u \in Usage /\ parser[s].last \in Nat
        BY <1>0 DEF Parser, Snapshots
      <4>2. parser[s].snapshot # <<>> => parser[s].snapshot[1] \in Usage
        BY <4>1
      <4>3. [parser[s].u EXCEPT !.output = parser[s].last] \in Usage
        BY <4>1 DEF Usage
      <4> QED BY <4>2, <4>3
    <3>5. u \in Usage /\ add(resp[s].model, u)
      BY <1>7, <3>3 DEF Add
    <3> HIDE DEF u
    <3>6. byModel' \in [Models -> Usage]
      BY <1>0, <3>2, <3>5, AddTyped
    <3> QED BY <1>7, <3>6 DEF Add
  <2> HIDE DEF r, p
  <2> QED BY <2>1, <2>2, <2>3, <2>4, <2>5, MoveInv
<1>8. ASSUME NEW s \in Responses, TakeFrame(s) PROVE IInv'
  <2> DEFINE r == [resp[s] EXCEPT !.full = FALSE, !.pc = "copying"]
  <2> DEFINE p == Parse(parser[s], Frame(s))
  <2>1. Moves(s, r, p)
    BY <1>8, Stays DEF TakeFrame, Moves, IInv, Written
  <2>0. Frame(s) \in Payload /\ Len(parser[s].snapshot) <= 1
    <3>1. resp[s].full /\ resp[s].read > 0 /\ resp[s].read <= Len(resp[s].body)
      BY <1>0, <1>8 DEF TakeFrame, Fits
    <3>2. resp[s].body \in Seq(Payload)  BY <1>0 DEF Response, Content
    <3> QED BY <1>0, <3>1, <3>2 DEF Frame, Fits
  <2>2. r \in Response /\ p \in Parser
    <3>1. r \in Response  BY <1>0, Updates
    <3> QED BY <1>0, <2>0, <3>1, ParseTyped
  <2>6. p.pc = "reading" /\ parser[s].pc = "reading" /\ Len(p.snapshot) <= 1
    BY <1>0, <1>8, <2>0, ParseTyped DEF TakeFrame
  <2> HIDE DEF p
  <2>3. Fits(r, p)
    BY <1>0, <1>8, <2>6 DEF TakeFrame, Fits, Response
  <2>4. Counts(s, p) /\ (parser[s].pc = "done" => p.pc = "done")
    BY <1>8, <2>6 DEF TakeFrame, Counts, Busy
  <2>5. byModel' \in [Models -> Usage] /\ Alive /\ UNCHANGED <<main, report, waited>>
    BY <1>0, <1>8 DEF TakeFrame
  <2> HIDE DEF r, p
  <2> QED BY <2>1, <2>2, <2>3, <2>4, <2>5, MoveInv
<1>9. ASSUME NEW s \in Responses, TakeBadFrame(s) PROVE IInv'
  <2> DEFINE r == [resp[s] EXCEPT !.full = FALSE, !.pc = "copying"]
  <2> DEFINE p == [parser[s] EXCEPT !.pc = "adding"]
  <2>1. Moves(s, r, p) \/ Moves(s, resp[s], p)
    BY <1>9, Stays DEF TakeBadFrame, Written, Moves, IInv
  <2>2. r \in Response /\ p \in Parser
    BY <1>0, Updates, ParserGoes
  <2>3. Fits(r, p) /\ Fits(resp[s], p)
    BY <1>0, <1>9, ParserGoes DEF TakeBadFrame, Fits, Response
  <2>4. Counts(s, p) /\ (parser[s].pc = "done" => p.pc = "done")
    BY <1>0, <1>9, ParserGoes DEF TakeBadFrame, Fits, Counts, Busy
  <2>5. byModel' \in [Models -> Usage] /\ Alive /\ UNCHANGED <<main, report, waited>>
    BY <1>0, <1>9 DEF TakeBadFrame
  <2> HIDE DEF r, p
  <2> QED BY <1>0, <2>1, <2>2, <2>3, <2>4, <2>5, MoveInv
<1>10. ASSUME NEW s \in Responses, Read(s) PROVE IInv'
  <2> DEFINE n == resp[s].read + 1
  <2> DEFINE w == [resp[s] EXCEPT !.read = n, !.full = TRUE, !.pc = "writing"]
  <2> DEFINE j == [resp[s] EXCEPT !.read = n]
  <2>1. \/ Moves(s, w, parser[s]) /\ resp[s].kind = "stream"
        \/ Moves(s, j, parser[s]) /\ resp[s].kind = "json"
    <3>1. parser' = [parser EXCEPT ![s] = parser[s]]
      BY <1>10, Stays DEF Read, IInv
    <3>2. \/ resp' = [resp EXCEPT ![s] = w] /\ resp[s].kind = "stream"
          \/ resp' = [resp EXCEPT ![s] = j] /\ resp[s].kind = "json"
      BY <1>10 DEF Read
    <3> HIDE DEF w, j
    <3> QED BY <3>1, <3>2 DEF Moves
  <2>2. n \in Nat /\ n > 0 /\ n <= Len(resp[s].body)
    <3>1. Len(resp[s].body) \in Nat  BY <1>0 DEF Response, Content
    <3> QED BY <1>0, <1>10, <3>1 DEF Read
  <2> HIDE DEF n
  <2>3. w \in Response /\ j \in Response
    BY <1>0, <2>2, Updates
  <2>4. /\ resp[s].kind = "stream" => Fits(w, parser[s])
        /\ resp[s].kind = "json" => Fits(j, parser[s])
    BY <1>0, <1>10, <2>2 DEF Read, Fits, Response
  <2>5. Counts(s, parser[s])
    BY <1>10 DEF Read, Counts
  <2>6. byModel' \in [Models -> Usage] /\ Alive /\ UNCHANGED <<main, report, waited>>
    BY <1>0, <1>10 DEF Read
  <2> HIDE DEF w, j
  <2> QED BY <1>0, <2>1, <2>3, <2>4, <2>5, <2>6, MoveInv
<1>11. ASSUME NEW s \in Responses, ObserveStream(s) PROVE IInv'
  <2> DEFINE p == [parser[s] EXCEPT !.pc = "reading"]
  <2>1. PICK m \in Models, b \in Streams :
          resp' = [resp EXCEPT ![s] = [NoResponse EXCEPT !.pc = "copying",
                     !.kind = "stream", !.model = m, !.body = b]]
    BY <1>11 DEF ObserveStream
  <2> DEFINE r == [NoResponse EXCEPT !.pc = "copying", !.kind = "stream", !.model = m, !.body = b]
  <2>2. b \in Content  BY PayloadAssumption DEF Content
  <2>3. r \in Response /\ r.pc = "copying" /\ r.kind = "stream" /\ r.model = m /\ r.body = b
        /\ r.read = 0 /\ ~r.full
    BY <2>2 DEF NoResponse, Response
  <2>4. p \in Parser /\ p.pc = "reading" /\ p.snapshot = parser[s].snapshot
    BY <1>0, ParserGoes
  <2>5. Moves(s, r, p)
    BY <1>11, <2>1 DEF ObserveStream, Moves
  <2> HIDE DEF r, p
  <2>6. Len(b) \in Nat  BY <2>2 DEF Content
  <2>7. Fits(r, p)
    BY <1>0, <2>3, <2>4, <2>6 DEF Fits
  <2>8. parser[s].pc = "none"
    BY <1>0, <1>11 DEF ObserveStream, Fits, Parser
  <2>9. Counts(s, p)
    BY <1>11, <2>4, <2>8 DEF ObserveStream, Counts, Busy
  <2>10. byModel' \in [Models -> Usage] /\ Alive /\ UNCHANGED <<main, report, waited>>
    BY <1>0, <1>11 DEF ObserveStream
  <2> QED BY <2>3, <2>4, <2>5, <2>7, <2>8, <2>9, <2>10, MoveInv
<1>12. ASSUME NEW s \in Responses, ObserveJSON(s) PROVE IInv'
  <2>1. PICK m \in Models, f \in Bodies :
          resp' = [resp EXCEPT ![s] = [NoResponse EXCEPT !.pc = "copying",
                     !.kind = "json", !.model = m, !.body = <<f>>]]
    BY <1>12 DEF ObserveJSON
  <2> DEFINE b == <<f>>
  <2> DEFINE r == [NoResponse EXCEPT !.pc = "copying", !.kind = "json", !.model = m, !.body = b]
  <2>2. b \in Content /\ Len(b) = 1  BY PayloadAssumption DEF Content
  <2>5. Moves(s, r, parser[s])
    BY <1>12, <2>1, Stays DEF ObserveJSON, Moves, IInv
  <2> HIDE DEF b
  <2>3. r \in Response /\ r.pc = "copying" /\ r.kind = "json" /\ r.model = m /\ r.body = b
        /\ r.read = 0 /\ ~r.full
    BY <2>2 DEF NoResponse, Response
  <2> HIDE DEF r
  <2>7. Fits(r, parser[s])
    BY <1>0, <1>12, <2>2, <2>3 DEF ObserveJSON, Fits
  <2>9. Counts(s, parser[s])
    BY <1>12 DEF ObserveJSON, Counts
  <2>10. byModel' \in [Models -> Usage] /\ Alive /\ UNCHANGED <<main, report, waited>>
    BY <1>0, <1>12 DEF ObserveJSON
  <2> QED BY <1>0, <2>3, <2>5, <2>7, <2>9, <2>10, MoveInv
<1>13. CASE SessionEnds
  BY <1>13 DEF SessionEnds, Typed, Kinds, Counted, Running, Reported, IInv
<1>14. CASE Wait \/ WaitReturns
  <2>1. /\ UNCHANGED <<resp, parser, wg, byModel, report>>
        /\ \/ wg = 0 /\ main' = "summing" /\ waited' = ObservedStreams
           \/ main' = "blocked" /\ UNCHANGED waited
           \/ wg > 0 /\ main = "released" /\ main' = "panicked" /\ UNCHANGED waited
    BY <1>14 DEF Wait, WaitReturns
  <2>2. Typed' /\ Kinds' /\ Counted'
    BY <2>1 DEF Typed, Kinds, Counted, Running, IInv, ObservedStreams
  <2>3. CASE wg = 0 /\ main' = "summing" /\ waited' = ObservedStreams
    BY <2>1, <2>2, <2>3, NoneLeft DEF Reported, IInv
  <2>4. CASE main' = "blocked"
    BY <2>2, <2>4 DEF Reported, IInv
  <2>5. CASE wg > 0 /\ main = "released" /\ main' = "panicked" /\ UNCHANGED waited
    <3>1. PICK s \in Running : TRUE
      <4>1. Running # {}
        BY <2>5, FS_EmptySet DEF IInv, Counted
      <4> QED BY <4>1
    <3>2. s \in ObservedStreams
      BY <1>0, <3>1 DEF Running, Busy, ObservedStreams, Fits
    <3>3. s \notin waited
      BY <2>5, <3>1 DEF IInv, Reported, Running, Busy
    <3> QED BY <2>1, <2>2, <2>5, <3>2, <3>3 DEF Reported, IInv, ObservedStreams
  <2> QED BY <2>1, <2>3, <2>4, <2>5
<1>15. CASE Report
  BY <1>15 DEF Report, Typed, Kinds, Counted, Running, Reported, IInv
<1>16. CASE UNCHANGED vars
  BY <1>16 DEF vars, Typed, Kinds, Counted, Running, Reported, ObservedStreams, IInv
<1> QED BY <1>1, <1>2, <1>3, <1>4, <1>5, <1>6, <1>7, <1>8, <1>9, <1>10, <1>11, <1>12, <1>13, <1>14, <1>15, <1>16
       DEF Next, Copy, ParserStep

-----------------------------------------------------------------------------
(* Induction, and the sum over a set *)

\* The library states induction for an operator; this states it for a set.
LEMMA LeastExists ==
  ASSUME NEW T \in SUBSET Nat, T # {}
  PROVE  \E n \in T : \A m \in T : n <= m
<1> DEFINE R == {ss \in Nat \X Nat : ss[1] < ss[2]}
<1>1. IsWellFoundedOn(R, Nat)
  BY NatLessThanWellFounded DEF OpToRel
<1>2. PICK n \in T : \A m \in T : <<m, n>> \notin R
  <2> HIDE DEF R
  <2> QED BY <1>1, WFMin
<1>3. \A m \in T : ~(m < n)
  BY <1>2
<1> QED BY <1>3

\* Induction over the naturals.
LEMMA NatSetInduction ==
  ASSUME NEW T \in SUBSET Nat, 0 \in T, \A n \in T : n + 1 \in T
  PROVE  T = Nat
<1> SUFFICES ASSUME Nat \ T # {} PROVE FALSE
  OBVIOUS
<1>1. PICK n \in Nat \ T : \A m \in Nat \ T : n <= m
  BY LeastExists
<1>2. n # 0 /\ n - 1 \in T
  BY <1>1
<1> QED BY <1>1, <1>2

\* What holds of a subset of S if it holds of the smaller ones, holds of all.
LEMMA SubsetInduction ==
  ASSUME NEW S, IsFiniteSet(S), NEW T \in SUBSET SUBSET S,
         \A s \in SUBSET S : (\A x \in s : s \ {x} \in T) => s \in T
  PROVE  T = SUBSET S
<1> DEFINE K == {k \in Nat : \A s \in SUBSET S : Cardinality(s) = k => s \in T}
<1>1. 0 \in K
  BY FS_Subset, FS_EmptySet
<1>2. ASSUME NEW k \in K PROVE k + 1 \in K
  <2>1. ASSUME NEW s \in SUBSET S, Cardinality(s) = k + 1, NEW x \in s PROVE s \ {x} \in T
    <3>1. IsFiniteSet(s) /\ Cardinality(s \ {x}) = Cardinality(s) - 1
      BY FS_Subset, FS_RemoveElement
    <3>2. Cardinality(s \ {x}) = k
      BY <2>1, <3>1
    <3> QED BY <3>2
  <2> QED BY <2>1
<1> HIDE DEF K
<1>3. K = Nat
  BY <1>1, <1>2, NatSetInduction DEF K
<1>4. ASSUME NEW s \in SUBSET S PROVE s \in T
  <2>1. Cardinality(s) \in K
    BY <1>3, FS_Subset, FS_CardinalityType
  <2> QED BY <2>1 DEF K
<1> QED BY <1>4

\* The element that the fold takes next.
Pick(s) == CHOOSE x \in s : TRUE

\* One round of the fold behind SumFunctionOnSet.
Round(g, f, s) == IF s = {} THEN 0 ELSE f[Pick(s)] + g[s \ {Pick(s)}]
IsSum(g, f, S) == g = [s \in SUBSET S |-> Round(g, f, s)]

\* It is one of them.
LEMMA PickIn == ASSUME NEW s, s # {} PROVE Pick(s) \in s
BY DEF Pick

\* There is a fold of every finite set.
LEMMA SumExists ==
  ASSUME NEW S, IsFiniteSet(S), NEW f
  PROVE  \E g : IsSum(g, f, S)
<1> DEFINE Small(k) == {s \in SUBSET S : Cardinality(s) <= k}
<1> DEFINE Has(k) == \E g : g = [s \in Small(k) |-> Round(g, f, s)]
<1> DEFINE K == {k \in Nat : Has(k)}
<1>1. 0 \in K
  <2> DEFINE g == [s \in Small(0) |-> 0]
  <2>1. \A s \in Small(0) : s = {}
    BY FS_Subset, FS_EmptySet, FS_CardinalityType
  <2>2. g = [s \in Small(0) |-> Round(g, f, s)]
    BY <2>1 DEF Round
  <2> QED BY <2>2
<1>2. ASSUME NEW k \in K PROVE k + 1 \in K
  <2>1. PICK g : g = [s \in Small(k) |-> Round(g, f, s)]
    OBVIOUS
  <2> DEFINE h == [s \in Small(k + 1) |-> Round(g, f, s)]
  <2>2. ASSUME NEW s \in Small(k + 1), s # {} PROVE h[s \ {Pick(s)}] = g[s \ {Pick(s)}]
    <3>1. s \ {Pick(s)} \in Small(k)
      BY <2>2, PickIn, FS_Subset, FS_RemoveElement, FS_CardinalityType
    <3>2. s \ {Pick(s)} \in Small(k + 1)
      BY <3>1, FS_Subset, FS_CardinalityType
    <3> QED BY <2>1, <3>1, <3>2
  <2>3. ASSUME NEW s \in Small(k + 1) PROVE Round(h, f, s) = Round(g, f, s)
    <3> HIDE DEF h
    <3> QED BY <2>2 DEF Round
  <2>4. h = [s \in Small(k + 1) |-> Round(h, f, s)]
    <3>1. \A s \in Small(k + 1) : Round(h, f, s) = Round(g, f, s)
      BY <2>3
    <3> DEFINE r == [s \in Small(k + 1) |-> Round(h, f, s)]
    <3>2. r = [s \in Small(k + 1) |-> Round(g, f, s)]
      <4> HIDE DEF h
      <4> QED BY <3>1
    <3> QED BY <3>2
  <2>5. Has(k + 1)
    <3> HIDE DEF h
    <3> QED BY <2>4
  <2> HIDE DEF Has
  <2> QED BY <2>5
<1> HIDE DEF K
<1>3. K = Nat
  BY <1>1, <1>2, NatSetInduction DEF K
<1>4. Small(Cardinality(S)) = SUBSET S /\ Cardinality(S) \in K
  BY <1>3, FS_Subset, FS_CardinalityType
<1> QED BY <1>4 DEF K, IsSum

\* SumFunctionOnSet is such a fold.
LEMMA SumIs ==
  ASSUME NEW S, IsFiniteSet(S), NEW f
  PROVE  \E g : IsSum(g, f, S) /\ SumFunctionOnSet(f, S) = g[S]
<1> DEFINE g == CHOOSE g : IsSum(g, f, S)
<1>1. SumFunctionOnSet(f, S) = g[S]
  BY DEF SumFunctionOnSet, FoldFunctionOnSet, MapThenFoldSet, IsSum, Round, Pick
<1>2. IsSum(g, f, S)
  BY SumExists
<1> QED BY <1>1, <1>2

\* It depends on what f is at the elements of the set only.
LEMMA SumUnique ==
  ASSUME NEW S, IsFiniteSet(S), NEW f, NEW g, IsSum(g, f, S),
         NEW T, NEW e, NEW h, IsSum(h, e, T), S \subseteq T,
         \A x \in S : f[x] = e[x]
  PROVE  g[S] = h[S]
<1> DEFINE K == {s \in SUBSET S : g[s] = h[s]}
<1>1. ASSUME NEW s \in SUBSET S, \A x \in s : s \ {x} \in K PROVE s \in K
  <2>1. g[s] = Round(g, f, s) /\ h[s] = Round(h, e, s)
    BY DEF IsSum
  <2>2. CASE s = {}
    BY <2>1, <2>2 DEF Round
  <2>3. CASE s # {}
    <3>1. Pick(s) \in s
      BY <2>3, PickIn
    <3>2. g[s \ {Pick(s)}] = h[s \ {Pick(s)}] /\ f[Pick(s)] = e[Pick(s)]
      BY <1>1, <3>1
    <3> QED BY <2>1, <2>3, <3>2 DEF Round
  <2> QED BY <2>2, <2>3
<1> HIDE DEF K
<1>2. K = SUBSET S
  <2>1. K \in SUBSET SUBSET S
    BY DEF K
  <2> QED BY <1>1, <2>1, SubsetInduction
<1> QED BY <1>2 DEF K

\* Any element may be taken first.
LEMMA SumAny ==
  ASSUME NEW S, IsFiniteSet(S), NEW f, NEW g, IsSum(g, f, S), \A x \in S : f[x] \in Nat
  PROVE  \A s \in SUBSET S : g[s] \in Nat /\ \A x \in s : g[s] = f[x] + g[s \ {x}]
<1> DEFINE K == {s \in SUBSET S :
                   /\ g[s] \in Nat
                   /\ \A x \in s : g[s \ {x}] \in Nat /\ g[s] = f[x] + g[s \ {x}]}
<1>1. ASSUME NEW s \in SUBSET S, \A x \in s : s \ {x} \in K PROVE s \in K
  <2>1. g[s] = Round(g, f, s)
    BY DEF IsSum
  <2>2. CASE s = {}
    BY <2>1, <2>2 DEF Round
  <2>3. CASE s # {}
    <3> DEFINE p == Pick(s)
    <3>1. p \in s
      BY <2>3, PickIn
    <3>2. g[s] = f[p] + g[s \ {p}] /\ g[s \ {p}] \in Nat /\ f[p] \in Nat
      BY <1>1, <2>1, <2>3, <3>1 DEF Round
    <3> HIDE DEF p
    <3>3. ASSUME NEW x \in s, x # p PROVE g[s] = f[x] + g[s \ {x}]
      <4> DEFINE r == (s \ {p}) \ {x}
      <4>1. r = (s \ {x}) \ {p}
        OBVIOUS
      <4>2. g[s \ {p}] = f[x] + g[r]
        BY <1>1, <3>1, <3>3
      <4>3. g[s \ {x}] = f[p] + g[r]
        BY <1>1, <3>1, <3>3, <4>1
      <4>4. g[r] \in Nat /\ f[x] \in Nat
        BY <1>1, <3>1, <3>3
      <4> QED BY <3>2, <4>2, <4>3, <4>4
    <3>4. \A x \in s : g[s \ {x}] \in Nat
      BY <1>1
    <3>5. g[s] \in Nat
      BY <3>2
    <3> QED BY <3>2, <3>3, <3>4, <3>5
  <2> QED BY <2>2, <2>3
<1> HIDE DEF K
<1>2. K = SUBSET S
  <2>1. K \in SUBSET SUBSET S
    BY DEF K
  <2> QED BY <1>1, <2>1, SubsetInduction
<1> QED BY <1>2 DEF K

\* The sum over nothing.
LEMMA SumEmpty == ASSUME NEW f PROVE SumFunctionOnSet(f, {}) = 0
<1>1. PICK g : IsSum(g, f, {}) /\ SumFunctionOnSet(f, {}) = g[{}]
  BY SumIs, FS_EmptySet
<1> QED BY <1>1 DEF IsSum, Round

\* Equal terms have equal sums.
LEMMA SumSame ==
  ASSUME NEW S, IsFiniteSet(S), NEW f, NEW e, \A x \in S : f[x] = e[x]
  PROVE  SumFunctionOnSet(f, S) = SumFunctionOnSet(e, S)
<1>1. PICK g : IsSum(g, f, S) /\ SumFunctionOnSet(f, S) = g[S]
  BY SumIs
<1>2. PICK h : IsSum(h, e, S) /\ SumFunctionOnSet(e, S) = h[S]
  BY SumIs
<1> QED BY <1>1, <1>2, SumUnique

\* One more term.
LEMMA SumAdds ==
  ASSUME NEW S, IsFiniteSet(S), NEW f, NEW x, x \notin S, \A y \in S \cup {x} : f[y] \in Nat
  PROVE  /\ SumFunctionOnSet(f, S) \in Nat
         /\ SumFunctionOnSet(f, S \cup {x}) = f[x] + SumFunctionOnSet(f, S)
<1> DEFINE T == S \cup {x}
<1>1. IsFiniteSet(T)
  BY FS_AddElement
<1>2. PICK g : IsSum(g, f, T) /\ SumFunctionOnSet(f, T) = g[T]
  BY <1>1, SumIs
<1>3. PICK h : IsSum(h, f, S) /\ SumFunctionOnSet(f, S) = h[S]
  BY SumIs
<1>4. h[S] = g[S]
  BY <1>2, <1>3, SumUnique
<1>5. S = T \ {x} /\ x \in T
  OBVIOUS
<1>6. g[T] = f[x] + g[T \ {x}]
  <2>1. \A y \in T : f[y] \in Nat
    OBVIOUS
  <2> HIDE DEF T
  <2>2. \A s \in SUBSET T : g[s] \in Nat /\ \A y \in s : g[s] = f[y] + g[s \ {y}]
    BY <1>1, <1>2, <2>1, SumAny
  <2> QED BY <1>5, <2>2
<1>7. h[S] \in Nat
  <2>1. \A s \in SUBSET S : h[s] \in Nat
    BY <1>3, SumAny
  <2> QED BY <2>1
<1> QED BY <1>2, <1>3, <1>4, <1>5, <1>6, <1>7

\* The same of functions on sets that differ by one element.
LEMMA SumGrows ==
  ASSUME NEW S, IsFiniteSet(S), NEW x, x \notin S, NEW f \in [S -> Nat],
         NEW e \in [S \cup {x} -> Nat], \A y \in S : e[y] = f[y]
  PROVE  SumFunction(f) \in Nat /\ SumFunction(e) = e[x] + SumFunction(f)
<1>1. SumFunctionOnSet(e, S) = SumFunctionOnSet(f, S)
  BY SumSame
<1>2. /\ SumFunctionOnSet(e, S) \in Nat
      /\ SumFunctionOnSet(e, S \cup {x}) = e[x] + SumFunctionOnSet(e, S)
  BY SumAdds
<1> QED BY <1>1, <1>2 DEF SumFunction

-----------------------------------------------------------------------------
(* What is in the books *)

Frames(body, S, type) == {i \in S : body[i].type = type}

\* The parser's locals say of the frames S what UsedIn says of them.
Knows(p, body, S) ==
  /\ p.u.input = Total(body, Frames(body, S, "message_start"), "input")
  /\ p.u.cacheRead = Total(body, Frames(body, S, "message_start"), "cacheRead")
  /\ p.snapshot # <<>> <=> Frames(body, S, "openai") # {}
  /\ p.snapshot # <<>> => p.snapshot[1] = tokens(body[Max(Frames(body, S, "openai"))])
  /\ p.last = IF Frames(body, S, "message_delta") = {} THEN 0
              ELSE body[Max(Frames(body, S, "message_delta"))].output

\* Nothing that is read from now on counts.
Final(r) == r.ended \/ \E i \in 1 .. r.read : r.body[i].type = "bad"

\* The frames that have left the pipe.
Taken(r) == IF r.full THEN r.read - 1 ELSE r.read

Sound(r, p) ==
  /\ r.ended => ~r.full
  /\ r.kind = "json" => r.body[1].type # "bad" /\ (r.flushed => r.ended)
  /\ p.pc = "none" => p.u = NoUsage /\ p.snapshot = <<>> /\ p.last = 0
  /\ p.pc = "reading" => /\ Good(r.body, Taken(r)) = 1 .. Taken(r)
                         /\ Knows(p, r.body, 1 .. Taken(r))
  /\ p.pc \in {"adding", "draining", "done"} => Final(r)
  /\ p.pc = "adding" => Knows(p, r.body, Good(r.body, r.read))

Parsing == \A s \in Responses : Sound(resp[s], parser[s])

\* What flush or Add puts into the books for a response.
Amount(s) ==
  IF resp[s].kind = "json"
  THEN IF resp[s].read = Len(resp[s].body) THEN tokens(resp[s].body[1]) ELSE NoUsage
  ELSE IF parser[s].snapshot # <<>> THEN parser[s].snapshot[1]
       ELSE [parser[s].u EXCEPT !.output = parser[s].last]

\* It is what the response has used.
Exact(s) == Amount(s) \in Usage /\ Amount(s) = Used(s)

\* A response that is in the books stays there and what it has used does not
\* change; no other step touches the totals than one that enters one more
\* response, with what it has used, under its model.
Books ==
  /\ \A s \in Accounted :
       s \in Accounted' /\ Used(s)' = Used(s) /\ resp'[s].model = resp[s].model
  /\ Accounted' = Accounted => byModel' = byModel
  /\ \A s \in Accounted' \ Accounted :
       /\ Accounted' = Accounted \cup {s}
       /\ byModel' = [byModel EXCEPT ![resp[s].model] = Plus(@, Amount(s))]
       /\ Exact(s)
       /\ Used(s)' = Used(s) /\ resp'[s].model = resp[s].model

\* One more frame is good unless it is bad.
LEMMA GoodNext ==
  ASSUME NEW body, NEW n \in Nat, Good(body, n) = 1 .. n
  PROVE  /\ body[n + 1].type # "bad" => Good(body, n + 1) = 1 .. n + 1
         /\ body[n + 1].type = "bad" => Good(body, n + 1) = 1 .. n
<1>1. \A j \in 1 .. n : body[j].type # "bad"
  BY DEF Good
<1>2. 1 .. n + 1 = (1 .. n) \cup {n + 1}
  OBVIOUS
<1>3. CASE body[n + 1].type # "bad"
  <2>1. \A j \in 1 .. n + 1 : body[j].type # "bad"  BY <1>1, <1>2, <1>3
  <2> QED BY <1>3, <2>1 DEF Good
<1>4. CASE body[n + 1].type = "bad"
  <2>1. ASSUME NEW i \in 1 .. n + 1
        PROVE  (\A j \in 1 .. i : body[j].type # "bad") <=> i \in 1 .. n
    BY <1>1, <1>4
  <2> QED BY <1>2, <1>4, <2>1 DEF Good
<1> QED BY <1>3, <1>4

\* After a bad frame none is good.
LEMMA GoodFinal ==
  ASSUME NEW body, NEW n \in Nat, NEW m \in Nat, n <= m,
         NEW b \in 1 .. n, body[b].type = "bad"
  PROVE  Good(body, m) = Good(body, n)
  BY DEF Good

\* The last frame of a type.
LEMMA MaxNext ==
  ASSUME NEW body, NEW n \in Nat, NEW type
  PROVE  /\ body[n + 1].type = type =>
              /\ Frames(body, 1 .. n + 1, type) # {}
              /\ Max(Frames(body, 1 .. n + 1, type)) = n + 1
         /\ body[n + 1].type # type =>
              Frames(body, 1 .. n + 1, type) = Frames(body, 1 .. n, type)
<1>1. CASE body[n + 1].type = type
  <2>1. n + 1 \in Frames(body, 1 .. n + 1, type)
    BY <1>1 DEF Frames
  <2>2. \A x \in Frames(body, 1 .. n + 1, type) : x \in Nat /\ n + 1 >= x
    BY DEF Frames
  <2>3. \A x \in Frames(body, 1 .. n + 1, type) :
          (\A y \in Frames(body, 1 .. n + 1, type) : x >= y) => x = n + 1
    BY <2>1, <2>2
  <2> QED BY <1>1, <2>1, <2>2, <2>3 DEF Max
<1>2. CASE body[n + 1].type # type
  BY <1>2 DEF Frames
<1> QED BY <1>1, <1>2

\* The total of one more frame.
LEMMA TotalAdds ==
  ASSUME NEW body, NEW field, NEW S, IsFiniteSet(S), NEW x, x \notin S,
         \A i \in S \cup {x} : body[i][field] \in Nat
  PROVE  /\ Total(body, S, field) \in Nat
         /\ Total(body, S \cup {x}, field) = Total(body, S, field) + body[x][field]
<1>1. PICK f : f = [i \in S |-> body[i][field]]
  OBVIOUS
<1>2. PICK e : e = [i \in S \cup {x} |-> body[i][field]]
  OBVIOUS
<1>3. f \in [S -> Nat] /\ e \in [S \cup {x} -> Nat] /\ \A i \in S : e[i] = f[i]
  BY <1>1, <1>2
<1>4. SumFunction(f) \in Nat /\ SumFunction(e) = e[x] + SumFunction(f)
  BY ONLY IsFiniteSet(S), x \notin S, <1>3, SumGrows
<1>5. e[x] = body[x][field] /\ body[x][field] \in Nat
  BY <1>2
<1> QED BY <1>1, <1>2, <1>4, <1>5 DEF Total

LEMMA TotalNext ==
  ASSUME NEW body \in Seq(Payload), NEW n \in Nat, n + 1 <= Len(body), NEW type,
         body[n + 1].type = type, NEW field \in {"input", "cacheRead"}
  PROVE  Total(body, Frames(body, 1 .. n + 1, type), field)
           = Total(body, Frames(body, 1 .. n, type), field) + body[n + 1][field]
<1> DEFINE S == Frames(body, 1 .. n, type)
<1>1. IsFiniteSet(1 .. n)
  BY FS_Interval
<1>2. S \subseteq 1 .. n /\ n + 1 \notin S
  BY DEF Frames
<1>3. IsFiniteSet(S)
  BY <1>1, <1>2, FS_Subset
<1>4. Frames(body, 1 .. n + 1, type) = S \cup {n + 1}
  BY DEF Frames
<1>5. \A i \in 1 .. n + 1 : body[i][field] \in Nat
  BY DEF Payload
<1>6. \A i \in S \cup {n + 1} : body[i][field] \in Nat
  BY <1>2, <1>5
<1>7. Total(body, S \cup {n + 1}, field) = Total(body, S, field) + body[n + 1][field]
  <2>1. PICK x : x = n + 1
    OBVIOUS
  <2>2. x \notin S /\ \A i \in S \cup {x} : body[i][field] \in Nat
    BY <1>2, <1>6, <2>1
  <2> HIDE DEF S
  <2>3. Total(body, S \cup {x}, field) = Total(body, S, field) + body[x][field]
    BY ONLY <1>3, <2>2, TotalAdds
  <2> QED BY <2>1, <2>3
<1> QED BY <1>4, <1>7

\* parseEventStreamUsage knows of one more frame after each.
LEMMA ParseKnows ==
  ASSUME NEW p \in Parser, NEW body \in Seq(Payload), NEW n \in Nat, n + 1 <= Len(body),
         Knows(p, body, 1 .. n)
  PROVE  Knows(Parse(p, body[n + 1]), body, 1 .. n + 1)
<1> DEFINE f == body[n + 1]
<1> DEFINE q == Parse(p, f)
<1> DEFINE F(k, type) == Frames(body, 1 .. k, type)
<1>0. f \in Payload
  OBVIOUS
<1>1. CASE f.type = "message_start"
  <2>1. /\ q.last = p.last /\ q.snapshot = p.snapshot
        /\ q.u.input = p.u.input + f.input /\ q.u.cacheRead = p.u.cacheRead + f.cacheRead
    BY <1>1 DEF Parse, Plus, Parser, Usage
  <2>2. /\ F(n + 1, "openai") = F(n, "openai")
        /\ F(n + 1, "message_delta") = F(n, "message_delta")
    BY <1>1, MaxNext
  <2>3. /\ Total(body, F(n + 1, "message_start"), "input")
             = Total(body, F(n, "message_start"), "input") + f["input"]
        /\ Total(body, F(n + 1, "message_start"), "cacheRead")
             = Total(body, F(n, "message_start"), "cacheRead") + f["cacheRead"]
    BY <1>1, TotalNext
  <2> QED BY <2>1, <2>2, <2>3 DEF Knows
<1>2. CASE f.type # "message_start"
  <2>1. q.u = p.u
    BY <1>2 DEF Parse, Parser
  <2>2. F(n + 1, "message_start") = F(n, "message_start")
    BY <1>2, MaxNext
  <2>3. CASE f.type = "message_delta"
    <3>1. q.snapshot = p.snapshot /\ q.last = f.output
      BY <2>3 DEF Parse, Parser
    <3>2. /\ F(n + 1, "openai") = F(n, "openai")
          /\ F(n + 1, "message_delta") # {} /\ Max(F(n + 1, "message_delta")) = n + 1
      BY <2>3, MaxNext
    <3> QED BY <2>1, <2>2, <3>1, <3>2 DEF Knows
  <2>4. CASE f.type = "openai"
    <3>1. q.last = p.last /\ q.snapshot = <<tokens(f)>>
      BY <2>4 DEF Parse, Parser
    <3>2. q.snapshot # <<>> /\ q.snapshot[1] = tokens(f)
      BY <3>1
    <3>3. f.type # "message_delta"
      BY <2>4
    <3>4. /\ F(n + 1, "message_delta") = F(n, "message_delta")
          /\ F(n + 1, "openai") # {} /\ Max(F(n + 1, "openai")) = n + 1
      BY <2>4, <3>3, MaxNext
    <3> QED BY <2>1, <2>2, <3>1, <3>2, <3>4 DEF Knows
  <2>5. CASE f.type \notin {"message_delta", "openai"}
    <3>1. q.last = p.last /\ q.snapshot = p.snapshot
      BY <1>2, <2>5 DEF Parse, Parser
    <3>2. /\ F(n + 1, "openai") = F(n, "openai")
          /\ F(n + 1, "message_delta") = F(n, "message_delta")
      BY <2>5, MaxNext
    <3> QED BY <2>1, <2>2, <3>1, <3>2 DEF Knows
  <2> QED BY <2>3, <2>4, <2>5
<1> QED BY <1>1, <1>2

\* A parser that knows what it was sent adds what was used.
LEMMA KnowsExact ==
  ASSUME IInv, Parsing, NEW s \in Responses, parser[s].pc = "adding"
  PROVE  Exact(s)
<1> DEFINE body == resp[s].body
<1> DEFINE good == Good(body, resp[s].read)
<1>1. Knows(parser[s], body, good) /\ resp[s].kind = "stream" /\ parser[s] \in Parser
      /\ Len(parser[s].snapshot) <= 1
  BY DEF Parsing, Sound, IInv, Kinds, Fits, Typed
<1>2. Used(s) = UsedIn("stream", body, good)
  BY <1>1 DEF Used
<1> HIDE DEF body, good
<1>3. CASE parser[s].snapshot # <<>>
  <2>1. Used(s) = tokens(body[Max(Frames(body, good, "openai"))])
    BY <1>1, <1>2, <1>3 DEF UsedIn, Knows, Frames
  <2>2. Amount(s) = parser[s].snapshot[1]
    BY <1>1, <1>3 DEF Amount
  <2>3. Amount(s) \in Usage
    BY <1>1, <1>3, <2>2 DEF Parser, Snapshots
  <2> QED BY <1>1, <1>3, <2>1, <2>2, <2>3 DEF Knows, Exact
<1>4. CASE parser[s].snapshot = <<>>
  <2>1. Used(s) = [input |-> Total(body, Frames(body, good, "message_start"), "input"),
                   cacheRead |-> Total(body, Frames(body, good, "message_start"), "cacheRead"),
                   output |-> IF Frames(body, good, "message_delta") = {} THEN 0
                              ELSE body[Max(Frames(body, good, "message_delta"))].output]
    BY <1>1, <1>2, <1>4 DEF UsedIn, Knows, Frames
  <2>2. Amount(s) = [parser[s].u EXCEPT !.output = parser[s].last]
    BY <1>1, <1>4 DEF Amount
  <2>3. parser[s].u \in Usage /\ parser[s].last \in Nat
    BY <1>1 DEF Parser
  <2>4. /\ Amount(s) \in Usage
        /\ Amount(s) = [input |-> parser[s].u.input, cacheRead |-> parser[s].u.cacheRead,
                        output |-> parser[s].last]
    BY <2>2, <2>3 DEF Usage
  <2>5. Used(s) = [input |-> parser[s].u.input, cacheRead |-> parser[s].u.cacheRead,
                   output |-> parser[s].last]
    BY <1>1, <2>1 DEF Knows
  <2> QED BY <2>4, <2>5 DEF Exact
<1> QED BY <1>3, <1>4

\* A step that moves one response and its parser keeps the others' part.
LEMMA SoundMove ==
  ASSUME IInv, Parsing, NEW s \in Responses, NEW r, NEW p, Moves(s, r, p), Sound(r, p)
  PROVE  Parsing'
  BY DEF Moves, IInv, Typed, Parsing

\* Whether a response with its parser is in the books.
Booked(r, p) == p.pc \in {"draining", "done"} \/ (r.kind = "json" /\ r.flushed)

LEMMA AccountedIs == Accounted = {s \in Responses : Booked(resp[s], parser[s])}
  BY DEF Accounted, Booked

\* What Used and the totals see of a response does not change.
Same(r, t) ==
  /\ r.kind = t.kind /\ r.body = t.body /\ r.model = t.model
  /\ Good(r.body, r.read) = Good(t.body, t.read)

\* A step that enters nothing into the books.
LEMMA QuietMove ==
  ASSUME IInv, NEW s \in Responses, NEW r, NEW p, Moves(s, r, p), byModel' = byModel,
         Booked(r, p) <=> Booked(resp[s], parser[s]),
         Booked(r, p) => Same(r, resp[s])
  PROVE  Books
<1>1. /\ resp'[s] = r /\ parser'[s] = p
      /\ \A t \in Responses : t # s => resp'[t] = resp[t] /\ parser'[t] = parser[t]
  BY DEF Moves, IInv, Typed
<1>2. Accounted' = Accounted
  BY <1>1 DEF Accounted, Booked
<1>3. ASSUME NEW t \in Accounted PROVE Used(t)' = Used(t) /\ resp'[t].model = resp[t].model
  <2>1. CASE t = s
    <3>1. Same(r, resp[s])  BY <2>1, AccountedIs
    <3> QED BY <1>1, <2>1, <3>1 DEF Used, Same
  <2>2. CASE t # s
    <3>1. resp'[t] = resp[t]  BY <1>1, <2>2 DEF Accounted
    <3> QED BY <3>1 DEF Used
  <2> QED BY <2>1, <2>2
<1> QED BY <1>2, <1>3 DEF Books

\* A step that enters one response.
LEMMA BookingMove ==
  ASSUME IInv, NEW s \in Responses, NEW r, NEW p, Moves(s, r, p),
         ~Booked(resp[s], parser[s]), Booked(r, p), Same(r, resp[s]), Exact(s),
         byModel' = [byModel EXCEPT ![resp[s].model] = Plus(@, Amount(s))]
  PROVE  Books
<1>1. /\ resp'[s] = r /\ parser'[s] = p
      /\ \A t \in Responses : t # s => resp'[t] = resp[t] /\ parser'[t] = parser[t]
  BY DEF Moves, IInv, Typed
<1>2. s \notin Accounted /\ Accounted' = Accounted \cup {s}
  BY <1>1 DEF Accounted, Booked
<1>3. Used(s)' = Used(s) /\ resp'[s].model = resp[s].model
  BY <1>1 DEF Used, Same
<1>4. ASSUME NEW t \in Accounted PROVE Used(t)' = Used(t) /\ resp'[t].model = resp[t].model
  <2>1. resp'[t] = resp[t]  BY <1>1, <1>2 DEF Accounted
  <2> QED BY <2>1 DEF Used
<1> QED BY <1>2, <1>3, <1>4 DEF Books

\* The end of a body: of a JSON answer the first one enters it, of a stream none.
LEMMA FlushBooks ==
  ASSUME IInv, Parsing, NEW s \in Responses, NEW r \in Response,
         Moves(s, r, parser[s]), flush(s),
         r.kind = resp[s].kind, r.body = resp[s].body, r.model = resp[s].model,
         r.read = resp[s].read, r.flushed
  PROVE  Books
<1>0. resp[s] \in Response /\ parser[s] \in Parser /\ Fits(resp[s], parser[s])
      /\ byModel \in [Models -> Usage]
  BY DEF IInv, Typed, Kinds
<1>1. Same(r, resp[s])
  BY DEF Same
<1>2. CASE resp[s].kind = "json" /\ ~resp[s].flushed
  <2>1. resp[s].body \in Seq(Payload) /\ Len(resp[s].body) = 1 /\ resp[s].read \in 0 .. 1
    <3>1. Len(resp[s].body) = 1 /\ resp[s].read <= Len(resp[s].body)
      BY <1>0, <1>2 DEF Fits
    <3>2. resp[s].read \in Nat /\ resp[s].body \in Seq(Payload)
      BY <1>0 DEF Response, Content
    <3> QED BY <3>1, <3>2
  <2>2. resp[s].body[1].type # "bad"
    BY <1>2 DEF Parsing, Sound
  <2>3. Used(s) = Amount(s)
    <3>1. CASE resp[s].read = 1
      <4>1. 1 \in Good(resp[s].body, resp[s].read)  BY <2>2, <3>1 DEF Good
      <4> QED BY <1>2, <2>1, <3>1, <4>1 DEF Used, UsedIn, Amount
    <3>2. CASE resp[s].read = 0
      <4>1. Good(resp[s].body, resp[s].read) = {}  BY <3>2 DEF Good
      <4> QED BY <1>2, <2>1, <3>2, <4>1 DEF Used, UsedIn, Amount
    <3> QED BY <2>1, <3>1, <3>2
  <2>4. byModel' = [byModel EXCEPT ![resp[s].model] = Plus(@, Amount(s))]
    <3>1. CASE resp[s].read = 1
      BY <1>2, <2>1, <3>1 DEF flush, add, Amount
    <3>2. CASE resp[s].read = 0
      <4>1. byModel' = byModel /\ Amount(s) = NoUsage
        BY <1>2, <2>1, <3>2 DEF flush, Amount
      <4>2. byModel[resp[s].model] \in Usage
        BY <1>0, <1>2 DEF Fits
      <4>3. Plus(byModel[resp[s].model], NoUsage) = byModel[resp[s].model]
        BY <4>2 DEF Plus, NoUsage, Usage
      <4> QED BY <1>0, <4>1, <4>3
    <3> QED BY <2>1, <3>1, <3>2
  <2>5. ~Booked(resp[s], parser[s]) /\ Booked(r, parser[s])
    BY <1>0, <1>2 DEF Booked, Fits
  <2>6. Exact(s)
    <3>1. Amount(s) \in Usage
      BY <1>2, <2>1, TokensTyped DEF Amount, NoUsage, Usage
    <3> QED BY <2>3, <3>1 DEF Exact
  <2> QED BY <1>1, <2>4, <2>5, <2>6, BookingMove
<1>3. CASE ~(resp[s].kind = "json" /\ ~resp[s].flushed)
  <2>1. byModel' = byModel
    BY <1>3 DEF flush
  <2>2. Booked(r, parser[s]) <=> Booked(resp[s], parser[s])
    BY <1>3 DEF Booked
  <2> QED BY <1>1, <2>1, <2>2, QuietMove
<1> QED BY <1>2, <1>3

\* Every step keeps Parsing, and keeps the books.
LEMMA StepBooks == ASSUME IInv, Parsing, [Next]_vars PROVE Parsing' /\ Books
<1>0. \A s \in Responses :
        /\ resp[s] \in Response /\ parser[s] \in Parser /\ Fits(resp[s], parser[s])
        /\ resp[s].read \in Nat /\ resp[s].body \in Seq(Payload)
        /\ Sound(resp[s], parser[s])
        /\ byModel \in [Models -> Usage]
  BY DEF IInv, Typed, Kinds, Response, Content, Parsing
<1>1. ASSUME NEW s \in Responses, ReadBreaks(s) PROVE Parsing' /\ Books
  <2> DEFINE r == [resp[s] EXCEPT !.ended = TRUE]
  <2>1. Moves(s, r, parser[s]) /\ byModel' = byModel
    BY <1>1, Stays DEF ReadBreaks, Moves, IInv
  <2>2. /\ r.ended /\ r.kind = resp[s].kind /\ r.body = resp[s].body /\ r.model = resp[s].model
        /\ r.read = resp[s].read /\ r.full = resp[s].full /\ r.flushed = resp[s].flushed
    BY <1>0 DEF Response
  <2>3. ~resp[s].full  BY <1>0, <1>1 DEF ReadBreaks, Fits
  <2> HIDE DEF r
  <2>4. Sound(r, parser[s])  BY <1>0, <2>2, <2>3 DEF Sound, Final, Taken
  <2>5. Books  BY <2>1, <2>2, QuietMove DEF Booked, Same
  <2> QED BY <2>1, <2>4, <2>5, SoundMove
<1>2. ASSUME NEW s \in Responses, ReadEOF(s) \/ Close(s) PROVE Parsing' /\ Books
  <2>1. PICK r \in {[resp[s] EXCEPT !.ended = TRUE, !.flushed = TRUE],
                    [resp[s] EXCEPT !.pc = "closed", !.ended = TRUE, !.flushed = TRUE]} :
          Moves(s, r, parser[s])
    BY <1>2, Stays DEF ReadEOF, Close, Moves, IInv
  <2>2. /\ r.ended /\ r.kind = resp[s].kind /\ r.body = resp[s].body /\ r.model = resp[s].model
        /\ r.read = resp[s].read /\ r.full = resp[s].full /\ r.flushed
    BY <1>0 DEF Response
  <2>3. r \in Response  BY <1>0, Updates
  <2>4. ~resp[s].full /\ flush(s)
    <3>1. resp[s].pc = "copying" /\ flush(s)  BY <1>2 DEF ReadEOF, Close
    <3> QED BY <1>0, <3>1 DEF Fits
  <2>5. Sound(r, parser[s])  BY <1>0, <2>2, <2>4 DEF Sound, Final, Taken
  <2>6. Books  BY <2>1, <2>2, <2>3, <2>4, FlushBooks
  <2> QED BY <2>1, <2>5, <2>6, SoundMove
<1>3. ASSUME NEW s \in Responses, Stop(s) PROVE Parsing' /\ Books
  <2> DEFINE p == [parser[s] EXCEPT !.pc = "adding"]
  <2>1. Moves(s, resp[s], p) /\ byModel' = byModel
    BY <1>3, Stays DEF Stop, Moves, IInv
  <2>2. p.pc = "adding" /\ p.u = parser[s].u /\ p.snapshot = parser[s].snapshot /\ p.last = parser[s].last
    BY <1>0 DEF Parser
  <2>3. parser[s].pc = "reading" /\ resp[s].ended /\ ~resp[s].full
    BY <1>0, <1>3 DEF Stop, Sound
  <2> HIDE DEF p
  <2>4. Sound(resp[s], p)
    BY <1>0, <2>2, <2>3 DEF Sound, Final, Taken, Knows
  <2>5. Books  BY <2>1, <2>2, <2>3, QuietMove DEF Booked, Same
  <2> QED BY <2>1, <2>4, <2>5, SoundMove
<1>4. ASSUME NEW s \in Responses, Done(s) PROVE Parsing' /\ Books
  <2> DEFINE p == [parser[s] EXCEPT !.pc = "done"]
  <2>1. Moves(s, resp[s], p) /\ byModel' = byModel
    BY <1>4, Stays DEF Done, Moves, IInv
  <2>2. p.pc = "done" /\ parser[s].pc = "draining"
    BY <1>0, <1>4 DEF Done, Parser
  <2> HIDE DEF p
  <2>4. Sound(resp[s], p)  BY <1>0, <2>2 DEF Sound
  <2>5. Books  BY <2>1, <2>2, QuietMove DEF Booked, Same
  <2> QED BY <2>1, <2>4, <2>5, SoundMove
<1>5. ASSUME NEW s \in Responses, Drain(s) PROVE Parsing' /\ Books
  <2> DEFINE r == [resp[s] EXCEPT !.full = FALSE, !.pc = "copying"]
  <2>1. Moves(s, r, parser[s]) /\ byModel' = byModel
    BY <1>5, Stays DEF Drain, Written, Moves, IInv
  <2>2. /\ ~r.full /\ r.kind = resp[s].kind /\ r.body = resp[s].body /\ r.model = resp[s].model
        /\ r.read = resp[s].read /\ r.ended = resp[s].ended /\ r.flushed = resp[s].flushed
    BY <1>0 DEF Response
  <2>3. parser[s].pc = "draining"  BY <1>5 DEF Drain
  <2> HIDE DEF r
  <2>4. Sound(r, parser[s])  BY <1>0, <2>2, <2>3 DEF Sound, Final
  <2>5. Books  BY <2>1, <2>2, QuietMove DEF Booked, Same
  <2> QED BY <2>1, <2>4, <2>5, SoundMove
<1>6. ASSUME NEW s \in Responses, Add(s) PROVE Parsing' /\ Books
  <2> DEFINE p == [parser[s] EXCEPT !.pc = "draining"]
  <2>1. Moves(s, resp[s], p) /\ parser[s].pc = "adding" /\ resp[s].kind = "stream"
    BY <1>0, <1>6, Stays DEF Add, Moves, IInv, Fits
  <2>2. p.pc = "draining"
    BY <1>0 DEF Parser
  <2>3. byModel' = [byModel EXCEPT ![resp[s].model] = Plus(@, Amount(s))]
    BY <1>6, <2>1 DEF Add, add, Amount
  <2> HIDE DEF p
  <2>4. Sound(resp[s], p)  BY <1>0, <2>1, <2>2 DEF Sound
  <2>5. Exact(s)  BY <2>1, KnowsExact
  <2>6. Books  BY <2>1, <2>2, <2>3, <2>5, BookingMove DEF Booked, Same
  <2> QED BY <2>1, <2>4, <2>6, SoundMove
<1>7. ASSUME NEW s \in Responses, TakeFrame(s) PROVE Parsing' /\ Books
  <2> DEFINE r == [resp[s] EXCEPT !.full = FALSE, !.pc = "copying"]
  <2> DEFINE p == Parse(parser[s], Frame(s))
  <2> DEFINE n == resp[s].read - 1
  <2>1. Moves(s, r, p) /\ byModel' = byModel
    BY <1>7, Stays DEF TakeFrame, Written, Moves, IInv
  <2>2. /\ ~r.full /\ r.kind = resp[s].kind /\ r.body = resp[s].body /\ r.model = resp[s].model
        /\ r.read = resp[s].read /\ r.ended = resp[s].ended /\ r.flushed = resp[s].flushed
    BY <1>0 DEF Response
  <2>3. /\ parser[s].pc = "reading" /\ resp[s].full /\ resp[s].kind = "stream"
        /\ resp[s].read > 0 /\ resp[s].read <= Len(resp[s].body)
        /\ Len(parser[s].snapshot) <= 1
    BY <1>0, <1>7 DEF TakeFrame, Fits
  <2>4. n \in Nat /\ n + 1 = resp[s].read /\ Taken(resp[s]) = n /\ Taken(r) = n + 1
    BY <1>0, <2>2, <2>3 DEF Taken
  <2>5. Frame(s) = resp[s].body[n + 1] /\ Frame(s) \in Payload /\ Frame(s).type # "bad"
    BY <1>0, <1>7, <2>3, <2>4 DEF Frame, TakeFrame
  <2>6. p.pc = "reading"
    BY <1>0, <2>3, <2>5, ParseTyped
  <2>7. Knows(p, resp[s].body, 1 .. n + 1)
    BY <1>0, <2>3, <2>4, <2>5, ParseKnows DEF Sound
  <2>8. Good(resp[s].body, n + 1) = 1 .. n + 1
    BY <1>0, <2>3, <2>4, <2>5, GoodNext DEF Sound
  <2> HIDE DEF r, p, n
  <2>9. Sound(r, p)
    BY <1>0, <2>2, <2>3, <2>4, <2>6, <2>7, <2>8 DEF Sound
  <2>10. Books  BY <2>1, <2>2, <2>3, <2>6, QuietMove DEF Booked, Same
  <2> QED BY <2>1, <2>9, <2>10, SoundMove
<1>8. ASSUME NEW s \in Responses, TakeBadFrame(s) PROVE Parsing' /\ Books
  <2> DEFINE w == [resp[s] EXCEPT !.full = FALSE, !.pc = "copying"]
  <2> DEFINE p == [parser[s] EXCEPT !.pc = "adding"]
  <2> DEFINE n == resp[s].read - 1
  <2>1. PICK r \in {w, resp[s]} : Moves(s, r, p)
    BY <1>8, Stays DEF TakeBadFrame, Written, Moves, IInv
  <2>2. /\ r.kind = resp[s].kind /\ r.body = resp[s].body /\ r.model = resp[s].model
        /\ r.read = resp[s].read /\ r.ended = resp[s].ended /\ r.flushed = resp[s].flushed
    BY <1>0 DEF Response
  <2>3. /\ parser[s].pc = "reading" /\ resp[s].full /\ resp[s].kind = "stream"
        /\ resp[s].read > 0 /\ byModel' = byModel
    BY <1>0, <1>8 DEF TakeBadFrame, Fits
  <2>4. p.pc = "adding" /\ p.u = parser[s].u /\ p.snapshot = parser[s].snapshot /\ p.last = parser[s].last
    BY <1>0 DEF Parser
  <2>5. n \in Nat /\ n + 1 = resp[s].read /\ Taken(resp[s]) = n
    BY <1>0, <2>3 DEF Taken
  <2>6. resp[s].body[n + 1].type = "bad"
    BY <1>8, <2>5 DEF TakeBadFrame, Frame
  <2>7. Good(resp[s].body, n + 1) = 1 .. n
    BY <1>0, <2>3, <2>5, <2>6, GoodNext DEF Sound
  <2>8. ~r.ended  BY <1>0, <2>2, <2>3 DEF Sound
  <2>9. Final(r)  BY <2>2, <2>5, <2>6 DEF Final
  <2> HIDE DEF p, n, w
  <2>10. Knows(p, r.body, Good(r.body, r.read))
    <3>1. Knows(parser[s], resp[s].body, 1 .. n)
      BY <1>0, <2>3, <2>5 DEF Sound
    <3>2. Knows(p, resp[s].body, 1 .. n)  BY <2>4, <3>1 DEF Knows
    <3> QED BY <2>2, <2>5, <2>7, <3>2
  <2>11. Sound(r, p)
    BY <2>2, <2>3, <2>4, <2>8, <2>9, <2>10 DEF Sound
  <2>12. Books  BY <2>1, <2>2, <2>3, <2>4, QuietMove DEF Booked, Same
  <2> QED BY <2>1, <2>11, <2>12, SoundMove
<1>9. ASSUME NEW s \in Responses, Read(s) PROVE Parsing' /\ Books
  <2> DEFINE n == resp[s].read + 1
  <2> DEFINE w == [resp[s] EXCEPT !.read = n, !.full = TRUE, !.pc = "writing"]
  <2> DEFINE j == [resp[s] EXCEPT !.read = n]
  <2>1. PICK r \in {w, j} :
          /\ Moves(s, r, parser[s]) /\ byModel' = byModel
          /\ \/ r = w /\ resp[s].kind = "stream"
             \/ r = j /\ resp[s].kind = "json"
    <3>1. parser' = [parser EXCEPT ![s] = parser[s]] /\ byModel' = byModel
      BY <1>9, Stays DEF Read, IInv
    <3>2. \/ Moves(s, w, parser[s]) /\ resp[s].kind = "stream"
          \/ Moves(s, j, parser[s]) /\ resp[s].kind = "json"
      BY <1>9, <3>1 DEF Read, Moves
    <3> HIDE DEF w, j
    <3> QED BY <3>1, <3>2
  <2>2. /\ r.kind = resp[s].kind /\ r.body = resp[s].body /\ r.model = resp[s].model
        /\ r.read = n /\ r.ended = resp[s].ended /\ r.flushed = resp[s].flushed
        /\ resp[s].kind = "stream" => r.full
    BY <1>0, <2>1 DEF Response
  <2>3. /\ ~resp[s].ended /\ ~resp[s].full
        /\ parser[s].pc # "none" => resp[s].kind = "stream"
        /\ resp[s].kind = "json" => ~r.full
    BY <1>0, <1>9, <2>1 DEF Read, Fits, Response
  <2>4. n \in Nat /\ resp[s].read <= n /\ Taken(resp[s]) = resp[s].read
    BY <1>0, <2>3 DEF Taken
  <2>5. resp[s].kind = "stream" => Taken(r) = resp[s].read
    BY <1>0, <2>2 DEF Taken
  <2> HIDE DEF n, w, j
  <2>6. Final(resp[s]) => Final(r) /\ Good(r.body, r.read) = Good(resp[s].body, resp[s].read)
    <3>1. SUFFICES ASSUME NEW i \in 1 .. resp[s].read, resp[s].body[i].type = "bad"
                   PROVE  Final(r) /\ Good(r.body, r.read) = Good(resp[s].body, resp[s].read)
      BY <2>3 DEF Final
    <3>2. i \in 1 .. r.read  BY <1>0, <2>2, <2>4
    <3>3. Good(resp[s].body, n) = Good(resp[s].body, resp[s].read)
      BY <1>0, <2>4, <3>1, GoodFinal
    <3> QED BY <2>2, <3>1, <3>2, <3>3 DEF Final
  <2>7. Sound(r, parser[s])
    BY <1>0, <2>2, <2>3, <2>4, <2>5, <2>6 DEF Sound
  <2>8. Booked(r, parser[s]) <=> Booked(resp[s], parser[s])
    BY <2>2 DEF Booked
  <2>9. Booked(r, parser[s]) => Same(r, resp[s])
    <3>1. Booked(r, parser[s]) => Final(resp[s])
      BY <1>0, <2>2 DEF Booked, Sound, Final
    <3> QED BY <2>2, <2>6, <3>1 DEF Same
  <2>10. Books  BY <2>1, <2>8, <2>9, QuietMove
  <2> QED BY <2>1, <2>7, <2>10, SoundMove
<1>10. ASSUME NEW s \in Responses, ObserveStream(s) PROVE Parsing' /\ Books
  <2> DEFINE p == [parser[s] EXCEPT !.pc = "reading"]
  <2>1. PICK m \in Models, b \in Streams :
          resp' = [resp EXCEPT ![s] = [NoResponse EXCEPT !.pc = "copying",
                     !.kind = "stream", !.model = m, !.body = b]]
    BY <1>10 DEF ObserveStream
  <2> DEFINE r == [NoResponse EXCEPT !.pc = "copying", !.kind = "stream", !.model = m, !.body = b]
  <2>2. r.kind = "stream" /\ r.read = 0 /\ ~r.full /\ ~r.ended /\ r.body = b
    BY DEF NoResponse
  <2>3. p.pc = "reading" /\ p.u = parser[s].u /\ p.snapshot = parser[s].snapshot /\ p.last = parser[s].last
    BY <1>0 DEF Parser
  <2>4. Moves(s, r, p) /\ byModel' = byModel
    BY <1>10, <2>1 DEF ObserveStream, Moves
  <2>5. parser[s].pc = "none" /\ resp[s].kind = "none"
    BY <1>0, <1>10 DEF ObserveStream, Fits, Parser
  <2> HIDE DEF r, p
  <2>6. Good(b, 0) = 1 .. 0 /\ Knows(p, b, 1 .. 0)
    <3>1. 1 .. 0 = {}  OBVIOUS
    <3>2. Good(b, 0) = {}  BY <3>1 DEF Good
    <3>3. \A type : Frames(b, {}, type) = {}  BY DEF Frames
    <3>4. Total(b, {}, "input") = 0 /\ Total(b, {}, "cacheRead") = 0
      BY SumEmpty DEF Total, SumFunction
    <3>5. p.u = NoUsage /\ p.snapshot = <<>> /\ p.last = 0
      BY <1>0, <2>3, <2>5 DEF Sound
    <3>6. Knows(p, b, {})
      <4>1. p.u.input = 0 /\ p.u.cacheRead = 0
        BY <3>5 DEF NoUsage
      <4> QED BY <3>3, <3>4, <3>5, <4>1 DEF Knows
    <3> QED BY <3>1, <3>2, <3>6
  <2>7. Sound(r, p)  BY <2>2, <2>3, <2>6 DEF Sound, Taken
  <2>8. Books  BY <2>2, <2>3, <2>4, <2>5, QuietMove DEF Booked
  <2> QED BY <2>4, <2>7, <2>8, SoundMove
<1>11. ASSUME NEW s \in Responses, ObserveJSON(s) PROVE Parsing' /\ Books
  <2>1. PICK m \in Models, f \in Bodies :
          resp' = [resp EXCEPT ![s] = [NoResponse EXCEPT !.pc = "copying",
                     !.kind = "json", !.model = m, !.body = <<f>>]]
    BY <1>11 DEF ObserveJSON
  <2> DEFINE r == [NoResponse EXCEPT !.pc = "copying", !.kind = "json", !.model = m, !.body = <<f>>]
  <2>2. r.kind = "json" /\ ~r.flushed /\ ~r.full /\ ~r.ended /\ r.body[1].type # "bad"
    BY PayloadAssumption DEF NoResponse
  <2>3. Moves(s, r, parser[s]) /\ byModel' = byModel
    BY <1>11, <2>1, Stays DEF ObserveJSON, Moves, IInv
  <2>4. parser[s].pc = "none" /\ resp[s].kind = "none"
    BY <1>0, <1>11 DEF ObserveJSON, Fits, Parser
  <2> HIDE DEF r
  <2>5. Sound(r, parser[s])  BY <1>0, <2>2, <2>4 DEF Sound
  <2>6. Books  BY <2>2, <2>3, <2>4, QuietMove DEF Booked
  <2> QED BY <2>3, <2>5, <2>6, SoundMove
<1>12. CASE UNCHANGED <<resp, parser, byModel>>
  <2>1. Accounted' = Accounted /\ \A s \in Accounted : Used(s)' = Used(s)
    BY <1>12 DEF Accounted, Used
  <2> QED BY <1>12, <2>1 DEF Parsing, Books
<1>13. SessionEnds \/ Wait \/ WaitReturns \/ Report \/ UNCHANGED vars => UNCHANGED <<resp, parser, byModel>>
  BY DEF SessionEnds, Wait, WaitReturns, Report, vars
<1>14. ASSUME NEW s \in Responses, Copy(s) PROVE Parsing' /\ Books
  BY <1>1, <1>2, <1>9, <1>14 DEF Copy
<1>15. ASSUME NEW s \in Responses, ParserStep(s) PROVE Parsing' /\ Books
  BY <1>3, <1>4, <1>5, <1>6, <1>7, <1>8, <1>15 DEF ParserStep
<1> QED BY <1>10, <1>11, <1>12, <1>13, <1>14, <1>15 DEF Next

\* The totals are those of the books, whose entries are usages.
Ledger == UsageExact /\ \A s \in Accounted : Used(s) \in Usage

\* A step of the books keeps the ledger.
LEMMA LedgerStep == ASSUME IInv, IInv', Ledger, Books PROVE Ledger'
<1> DEFINE A(m) == {t \in Accounted : resp[t].model = m}
<1>0. IsFiniteSet(Accounted) /\ Accounted \subseteq Responses
  BY ResponsesAssumption, FS_Subset DEF Accounted
<1>1. CASE Accounted' = Accounted
  <2>1. \A s \in Accounted : Used(s)' = Used(s) /\ resp'[s].model = resp[s].model
    BY <1>1 DEF Books
  <2>2. byModel' = byModel
    BY <1>1 DEF Books
  <2>3. \A m : A(m)' = A(m)
    BY <1>1, <2>1
  <2>4. ASSUME NEW m \in Models, NEW field \in DOMAIN NoUsage
        PROVE  byModel'[m][field] = SumFunction([s \in A(m)' |-> Used(s)'[field]])
    <3>1. [s \in A(m)' |-> Used(s)'[field]] = [s \in A(m) |-> Used(s)[field]]
      BY <2>1, <2>3
    <3>2. byModel[m][field] = SumFunction([s \in A(m) |-> Used(s)[field]])
      BY DEF Ledger, UsageExact
    <3> QED BY <2>2, <3>1, <3>2
  <2> QED BY <1>1, <2>1, <2>4 DEF Ledger, UsageExact, NoUsage
<1>2. CASE Accounted' # Accounted
  <2>0. PICK s : s \in Accounted' /\ s \notin Accounted
    BY <1>2 DEF Books
  <2>1. s \in Accounted' \ Accounted /\ Accounted' = Accounted \cup {s}
    BY <2>0 DEF Books
  <2>2. /\ byModel' = [byModel EXCEPT ![resp[s].model] = Plus(@, Amount(s))]
        /\ Amount(s) \in Usage /\ Used(s)' = Amount(s) /\ resp'[s].model = resp[s].model
    BY <2>1 DEF Books, Exact
  <2>3. \A t \in Accounted : Used(t)' = Used(t) /\ resp'[t].model = resp[t].model
    BY DEF Books
  <2>4. \A t \in Accounted' : Used(t)' \in Usage
    BY <2>1, <2>2, <2>3 DEF Ledger
  <2>5. ASSUME NEW m \in Models, NEW field \in DOMAIN NoUsage
        PROVE  byModel'[m][field] = SumFunction([t \in A(m)' |-> Used(t)'[field]])
    <3>0. field \in {"input", "cacheRead", "output"}
      BY DEF NoUsage
    <3>1. byModel[m][field] = SumFunction([t \in A(m) |-> Used(t)[field]])
      BY DEF Ledger, UsageExact
    <3>2. IsFiniteSet(A(m)) /\ s \notin A(m)
      BY <1>0, <2>1, FS_Subset
    <3>3. byModel \in [Models -> Usage]
      BY DEF IInv, Typed
    <3>4. CASE resp[s].model = m
      <4>1. A(m)' = A(m) \cup {s}
        BY <2>1, <2>2, <2>3, <3>4
      <4>2. \A t \in A(m) \cup {s} : Used(t)'[field] \in Nat
        BY <2>1, <2>4, <3>0 DEF Usage
      <4>3. \A t \in A(m) : Used(t)'[field] = Used(t)[field]
        BY <2>3
      <4>4. PICK F : F = [t \in A(m) |-> Used(t)[field]]
        OBVIOUS
      <4>5. PICK G : G = [t \in A(m) \cup {s} |-> Used(t)'[field]]
        OBVIOUS
      <4>6. SumFunction(F) \in Nat /\ SumFunction(G) = G[s] + SumFunction(F)
        <5>1. PICK B : B = A(m)
          OBVIOUS
        <5>2. /\ IsFiniteSet(B) /\ s \notin B
              /\ F \in [B -> Nat] /\ G \in [B \cup {s} -> Nat]
              /\ \A t \in B : G[t] = F[t]
          BY <3>2, <4>2, <4>3, <4>4, <4>5, <5>1
        <5> QED BY ONLY <5>2, SumGrows
      <4>7. byModel'[m][field] = byModel[m][field] + Amount(s)[field]
        BY <2>2, <3>0, <3>3, <3>4 DEF Plus, Usage
      <4>8. G[s] = Amount(s)[field] /\ G[s] \in Nat
        BY <2>2, <3>0, <4>5 DEF Usage
      <4> QED BY <3>1, <4>1, <4>4, <4>5, <4>6, <4>7, <4>8
    <3>5. CASE resp[s].model # m
      <4>1. A(m)' = A(m)
        BY <2>1, <2>2, <2>3, <3>5
      <4>2. [t \in A(m)' |-> Used(t)'[field]] = [t \in A(m) |-> Used(t)[field]]
        BY <2>3, <4>1
      <4>3. byModel'[m] = byModel[m]
        BY <2>2, <3>3, <3>5
      <4> QED BY <3>1, <4>2, <4>3
    <3> QED BY <3>4, <3>5
  <2> QED BY <2>4, <2>5 DEF Ledger, UsageExact, NoUsage
<1> QED BY <1>1, <1>2

-----------------------------------------------------------------------------
(* The theorems *)

\* IInv holds in every reachable state.
THEOREM Invariance == Spec => []IInv
<1>1. Init => IInv  BY InitInv
<1>2. IInv /\ [Next]_vars => IInv'  BY StepInv
<1> QED BY <1>1, <1>2, PTL DEF Spec

\* Every reachable state is type-correct: the WaitGroup never goes below 0, and no
\* count does.
THEOREM TypeCorrect == Spec => []TypeOK
<1>1. IInv => TypeOK
  <2> SUFFICES ASSUME IInv PROVE TypeOK
    OBVIOUS
  <2>1. Running \subseteq Responses  BY DEF Running
  <2>2. wg \in 0 .. Cardinality(Responses)
    <3>1. Cardinality(Running) <= Cardinality(Responses)
      BY <2>1, ResponsesAssumption, FS_Subset
    <3>2. Cardinality(Responses) \in Nat
      BY ResponsesAssumption, FS_CardinalityType
    <3> QED BY <3>1, <3>2 DEF IInv, Typed, Counted
  <2>3. ASSUME NEW s \in Responses
        PROVE  /\ resp[s] \in Response /\ parser[s] \in Parser
               /\ Fits(resp[s], parser[s])
    BY DEF IInv, Typed, Kinds
  <2>4. ASSUME NEW s \in Responses
        PROVE  /\ resp[s].pc \in {"idle", "copying", "writing", "closed"}
               /\ resp[s].kind \in {"none", "stream", "json"}
               /\ resp[s].model \in Models \cup {"none"}
               /\ resp[s].read \in 0 .. Len(resp[s].body)
               /\ resp[s].full => resp[s].pc = "writing" /\ resp[s].kind = "stream"
    <3>1. Len(resp[s].body) \in Nat  BY <2>3 DEF Response, Content
    <3> QED BY <2>3, <3>1 DEF Response, Fits
  <2>5. ASSUME NEW s \in Responses
        PROVE  /\ parser[s].pc \in {"none", "reading", "adding", "draining", "done"}
               /\ parser[s].u \in Usage /\ parser[s].last \in Nat
               /\ Len(parser[s].snapshot) <= 1
    BY <2>3 DEF Parser, Fits
  <2> QED BY <2>2, <2>4, <2>5 DEF IInv, Typed, TypeOK
<1> QED BY <1>1, Invariance, PTL

\* The report misses no stream that was observed before Wait returned, whatever
\* its parser met (the comment of UsageTracker.wg).
THEOREM StreamsReported == Spec => []ReportHasStreams
<1>1. IInv => ReportHasStreams
  BY DEF IInv, Typed, Reported, ReportHasStreams, Accounted
<1> QED BY <1>1, Invariance, PTL

\* Report panics only for a stream that joined the WaitGroup after the last Done
\* had let Wait go: no stream observed before that costs the report.
THEOREM PanicsOnlyForLate ==
  Spec => [](main = "panicked" => ObservedStreams \ waited # {})
<1>1. IInv => (main = "panicked" => ObservedStreams \ waited # {})
  BY DEF IInv, Reported
<1> QED BY <1>1, Invariance, PTL

\* The totals grow by what a response used when it enters the books and at no
\* other time, no response enters twice, and what has been entered stays what the
\* response used (flush, parseEventStreamUsage, add).
THEOREM EnteredOnce == Spec => [][Books]_vars
<1>1. Init => Parsing
  BY DEF Init, Parsing, Sound, NoResponse, NoParser, Good
<1>2. IInv /\ Parsing /\ [Next]_vars => Parsing' /\ Books
  BY StepBooks
<1> QED BY <1>1, <1>2, Invariance, PTL DEF Spec

\* The totals are exact at every moment: per model they are the sum of what the
\* answers that have ended, broken off or turned out bad used up to there (flush,
\* parseEventStreamUsage, add).
THEOREM TotalsExact == Spec => []UsageExact
<1>1. Init => Ledger
  <2>1. SUFFICES ASSUME Init PROVE Ledger
    OBVIOUS
  <2>2. Accounted = {}
    BY <2>1 DEF Init, Accounted, NoResponse, NoParser
  <2>3. ASSUME NEW m \in Models, NEW field \in DOMAIN NoUsage
        PROVE  byModel[m][field] = 0
    BY <2>1 DEF Init, NoUsage
  <2>4. ASSUME NEW m, NEW field
        PROVE  SumFunction([s \in {t \in Accounted : resp[t].model = m} |-> Used(s)[field]]) = 0
    <3>1. {t \in Accounted : resp[t].model = m} = {}
      BY <2>2
    <3> QED BY <3>1, SumEmpty DEF SumFunction
  <2> QED BY <2>2, <2>3, <2>4 DEF Ledger, UsageExact
<1>2. IInv /\ IInv' /\ Ledger /\ [Books]_vars => Ledger'
  <2>1. ASSUME UNCHANGED vars, Ledger PROVE Ledger'
    BY <2>1 DEF vars, Ledger, UsageExact, Accounted, Used
  <2> QED BY <2>1, LedgerStep
<1>3. Ledger => UsageExact
  BY DEF Ledger
<1> QED BY <1>1, <1>2, <1>3, EnteredOnce, Invariance, PTL DEF Spec
=============================================================================
