---------------------------- MODULE UsageTracker ----------------------------
(***************************************************************************)
(* Token accounting of Bedrock answers (proxy/usage.go) and the report at  *)
(* the end of the session (main.go): Observe tees an answer on its way to  *)
(* the client.  A stream is copied into an io.Pipe, on which a goroutine   *)
(* parses AWS event-stream frames; a JSON answer is buffered and parsed at *)
(* its end.  Report waits for the parsers of streams and sums per model.   *)
(*                                                                         *)
(* Each response has a copier (the reverse proxy's goroutine) and, for a   *)
(* stream, a parser; a step is one Read of the body, one hand-over through *)
(* the pipe, one critical section of the tracker's mutex or one operation  *)
(* of the WaitGroup.  The body is a sequence of frames; a JSON body is one *)
(* frame.  A frame of type "bad" has impossible lengths, one of type       *)
(* "other" carries no usage or does not decode.  Cache writes are counted  *)
(* like cache reads and are left out, and so are prices.                   *)
(***************************************************************************)
EXTENDS Integers, Sequences, FiniteSets, FiniteSetsExt

CONSTANTS
  Responses,  \* slots for answers of Bedrock with status 200
  Models,     \* the model ids in request paths
  Streams,    \* the event streams a response may carry
  Bodies      \* the usage blocks a JSON answer may carry

\* What a frame or a JSON body carries; cached tokens are among the prompt's.
Payload ==
  {f \in [type: {"message_start", "message_delta", "openai", "other", "bad"},
          input: Nat, cacheRead: Nat, output: Nat] :
     f.type = "openai" => f.cacheRead <= f.input}

ASSUME ResponsesAssumption == IsFiniteSet(Responses)
\* Only frames can be bad: a JSON answer that does not decode carries no usage.
ASSUME PayloadAssumption ==
  /\ Streams \subseteq Seq(Payload)
  /\ Bodies \subseteq {f \in Payload : f.type # "bad"}

VARIABLES
  resp,       \* per response: its kind, model, copier and pipe
  parser,     \* per response: the parser goroutine and its locals
  wg,         \* UsageTracker.wg
  byModel,    \* UsageTracker.byModel
  main,       \* mainErr: the session runs, or Report's progress
  report,     \* what Report printed
  waited      \* history: the streams observed when Wait was let go or returned

vars == <<resp, parser, wg, byModel, main, report, waited>>

Usage == [input: Nat, cacheRead: Nat, output: Nat]
NoUsage == [input |-> 0, cacheRead |-> 0, output |-> 0]

Plus(u, v) == [input |-> u.input + v.input, cacheRead |-> u.cacheRead + v.cacheRead,
               output |-> u.output + v.output]

NoParser == [pc |-> "none", u |-> NoUsage, last |-> 0, snapshot |-> <<>>]

\* body is what upstream sends, read how many frames of it have been read,
\* full whether a Write to the pipe waits for the parser, ended whether the
\* pipe's write end is closed, flushed is jsonUsageReader.done.
NoResponse == [pc |-> "idle", kind |-> "none", model |-> "none", body |-> <<>>,
               read |-> 0, full |-> FALSE, ended |-> FALSE, flushed |-> FALSE]

TypeOK ==
  /\ \A s \in Responses :
       /\ resp[s].pc \in {"idle", "copying", "writing", "closed"}
       /\ resp[s].kind \in {"none", "stream", "json"}
       /\ resp[s].model \in Models \cup {"none"}
       /\ resp[s].read \in 0 .. Len(resp[s].body)
       /\ resp[s].full => resp[s].pc = "writing" /\ resp[s].kind = "stream"
       /\ parser[s].pc \in {"none", "reading", "adding", "draining", "done"}
       /\ parser[s].u \in Usage /\ parser[s].last \in Nat
       /\ Len(parser[s].snapshot) <= 1
  /\ wg \in 0 .. Cardinality(Responses)
  /\ byModel \in [Models -> Usage]
  /\ main \in {"running", "waiting", "blocked", "released", "summing",
              "reported", "panicked"}
  /\ report \in [Models -> Usage]
  /\ waited \subseteq Responses

Init ==
  /\ resp = [s \in Responses |-> NoResponse]
  /\ parser = [s \in Responses |-> NoParser]
  /\ wg = 0
  /\ byModel = [m \in Models |-> NoUsage]
  /\ main = "running"
  /\ report = byModel
  /\ waited = {}

\* mainErr returns once the report is printed, and with it the process; so does
\* a panic in mainErr end it.
Alive == main \notin {"reported", "panicked"}

\* UsageTracker.add, in one critical section.
add(m, u) == byModel' = [byModel EXCEPT ![m] = Plus(@, u)]

\* usageObject.tokens: OpenAI's prompt_tokens include the cached ones.
tokens(f) ==
  IF f.type = "openai"
  THEN [input |-> f.input - f.cacheRead, cacheRead |-> f.cacheRead, output |-> f.output]
  ELSE [input |-> f.input, cacheRead |-> f.cacheRead, output |-> f.output]

\* jsonUsageReader.flush, whose callers set flushed: an incomplete body does
\* not parse.
flush(s) ==
  IF resp[s].kind = "json" /\ ~resp[s].flushed /\ resp[s].read = Len(resp[s].body)
  THEN add(resp[s].model, tokens(resp[s].body[1]))
  ELSE UNCHANGED byModel

ObservedStreams == {s \in Responses : resp[s].kind = "stream"}

\* WaitGroup.Done: the last one lets a blocked Wait go.  (An Add that runs within
\* its few instructions is refused by a panic too.)
LeaveGroup ==
  /\ wg' = wg - 1
  /\ \/ wg = 1 /\ main = "blocked" /\ main' = "released" /\ waited' = ObservedStreams
     \/ ~(wg = 1 /\ main = "blocked") /\ UNCHANGED <<main, waited>>

(* Faulty variants of definitions below, for the mutants of PROJECT.json. *)

\* The output counts of message_delta are added up; they are cumulative.
ParseAddsDeltas(p, f) ==
  CASE f.type = "message_start" ->
         [p EXCEPT !.u = Plus(@, [input |-> f.input, cacheRead |-> f.cacheRead, output |-> 0])]
    [] f.type = "message_delta" -> [p EXCEPT !.last = @ + f.output]
    [] f.type = "openai" -> [p EXCEPT !.snapshot = <<tokens(f)>>]
    [] OTHER -> p

\* The stream does not join the WaitGroup.
ObserveUncounted(s) ==
  /\ Alive /\ resp[s].pc = "idle"
  /\ \E m \in Models, b \in Streams :
       resp' = [resp EXCEPT ![s] = [NoResponse EXCEPT !.pc = "copying",
                  !.kind = "stream", !.model = m, !.body = b]]
  /\ parser' = [parser EXCEPT ![s] = [@ EXCEPT !.pc = "reading"]]
  /\ UNCHANGED <<wg, byModel, main, report, waited>>

\* The parser leaves the WaitGroup before it adds what it parsed.
StopDone(s) ==
  /\ Alive /\ parser[s].pc = "reading" /\ resp[s].ended
  /\ parser' = [parser EXCEPT ![s] = [@ EXCEPT !.pc = "adding"]]
  /\ LeaveGroup
  /\ UNCHANGED <<resp, byModel, report>>

\* The parser does not drain the pipe, it only waits for its end.
DrainNothing(s) ==
  /\ parser[s].pc = "draining" /\ resp[s].full
  /\ UNCHANGED vars

\* Close closes the body and not the pipe.
CloseKeepsPipe(s) ==
  /\ Alive /\ resp[s].pc = "copying"
  /\ flush(s)
  /\ resp' = [resp EXCEPT ![s] = [@ EXCEPT !.pc = "closed", !.flushed = TRUE]]
  /\ UNCHANGED <<parser, wg, main, report, waited>>

-----------------------------------------------------------------------------
(* Observe, and the copier that reads the wrapped body *)

ObserveStream(s) ==
  /\ Alive /\ resp[s].pc = "idle"
  /\ \E m \in Models, b \in Streams :
       resp' = [resp EXCEPT ![s] = [NoResponse EXCEPT !.pc = "copying",
                  !.kind = "stream", !.model = m, !.body = b]]
  /\ parser' = [parser EXCEPT ![s] = [@ EXCEPT !.pc = "reading"]]
  /\ wg' = wg + 1
  /\ UNCHANGED <<byModel, main, report, waited>>

ObserveJSON(s) ==
  /\ Alive /\ resp[s].pc = "idle"
  /\ \E m \in Models, f \in Bodies :
       resp' = [resp EXCEPT ![s] = [NoResponse EXCEPT !.pc = "copying",
                  !.kind = "json", !.model = m, !.body = <<f>>]]
  /\ UNCHANGED <<parser, wg, byModel, main, report, waited>>

\* Read returns data: teeReadCloser hands it to the pipe before it returns,
\* jsonUsageReader keeps a copy.
Read(s) ==
  /\ Alive /\ resp[s].pc = "copying" /\ ~resp[s].ended
  /\ resp[s].read < Len(resp[s].body)
  /\ \/ /\ resp[s].kind = "stream"
        /\ resp' = [resp EXCEPT ![s] = [@ EXCEPT !.read = resp[s].read + 1, !.full = TRUE, !.pc = "writing"]]
     \/ /\ resp[s].kind = "json"
        /\ resp' = [resp EXCEPT ![s] = [@ EXCEPT !.read = resp[s].read + 1]]
  /\ UNCHANGED <<parser, wg, byModel, main, report, waited>>

\* Read returns io.EOF: the tee closes the pipe, jsonUsageReader flushes.
ReadEOF(s) ==
  /\ Alive /\ resp[s].pc = "copying" /\ ~resp[s].ended
  /\ resp[s].read = Len(resp[s].body)
  /\ flush(s)
  /\ resp' = [resp EXCEPT ![s] = [@ EXCEPT !.ended = TRUE, !.flushed = TRUE]]
  /\ UNCHANGED <<parser, wg, main, report, waited>>

\* The connection to upstream breaks: Read returns another error.
ReadBreaks(s) ==
  /\ Alive /\ resp[s].pc = "copying" /\ ~resp[s].ended
  /\ resp' = [resp EXCEPT ![s] = [@ EXCEPT !.ended = TRUE]]
  /\ UNCHANGED <<parser, wg, byModel, main, report, waited>>

\* Close, after the last Read or because the client has gone.
Close(s) ==
  /\ Alive /\ resp[s].pc = "copying"
  /\ flush(s)
  /\ resp' = [resp EXCEPT ![s] = [@ EXCEPT !.pc = "closed", !.ended = TRUE, !.flushed = TRUE]]
  /\ UNCHANGED <<parser, wg, main, report, waited>>

-----------------------------------------------------------------------------
(* The parser goroutine: parseEventStreamUsage, add, io.Copy(io.Discard) *)

Frame(s) == resp[s].body[resp[s].read]

\* The Write of s's copier returns.
Written(s) == resp' = [resp EXCEPT ![s] = [@ EXCEPT !.full = FALSE, !.pc = "copying"]]

\* One frame's effect on the locals of parseEventStreamUsage.
Parse(p, f) ==
  CASE f.type = "message_start" ->
         [p EXCEPT !.u = Plus(@, [input |-> f.input, cacheRead |-> f.cacheRead, output |-> 0])]
    [] f.type = "message_delta" -> [p EXCEPT !.last = f.output]
    [] f.type = "openai" -> [p EXCEPT !.snapshot = <<tokens(f)>>]
    [] OTHER -> p

TakeFrame(s) ==
  /\ Alive /\ parser[s].pc = "reading" /\ resp[s].full
  /\ Frame(s).type # "bad"
  /\ Written(s)
  /\ parser' = [parser EXCEPT ![s] = Parse(@, Frame(s))]
  /\ UNCHANGED <<wg, byModel, main, report, waited>>

\* readEventStreamFrame gives up; what follows the prelude may be unread.
TakeBadFrame(s) ==
  /\ Alive /\ parser[s].pc = "reading" /\ resp[s].full
  /\ Frame(s).type = "bad"
  /\ Written(s) \/ UNCHANGED resp
  /\ parser' = [parser EXCEPT ![s] = [@ EXCEPT !.pc = "adding"]]
  /\ UNCHANGED <<wg, byModel, main, report, waited>>

\* The pipe ends, between frames or within one.
Stop(s) ==
  /\ Alive /\ parser[s].pc = "reading" /\ resp[s].ended
  /\ parser' = [parser EXCEPT ![s] = [@ EXCEPT !.pc = "adding"]]
  /\ UNCHANGED <<resp, wg, byModel, main, report, waited>>

Add(s) ==
  LET p == parser[s]
  IN /\ Alive /\ p.pc = "adding"
     /\ add(resp[s].model,
            IF p.snapshot # <<>> THEN p.snapshot[1]
                                 ELSE [p.u EXCEPT !.output = p.last])
     /\ parser' = [parser EXCEPT ![s] = [@ EXCEPT !.pc = "draining"]]
     /\ UNCHANGED <<resp, wg, main, report, waited>>

Drain(s) ==
  /\ Alive /\ parser[s].pc = "draining" /\ resp[s].full
  /\ Written(s)
  /\ UNCHANGED <<parser, wg, byModel, main, report, waited>>

Done(s) ==
  /\ Alive /\ parser[s].pc = "draining" /\ resp[s].ended
  /\ parser' = [parser EXCEPT ![s] = [@ EXCEPT !.pc = "done"]]
  /\ LeaveGroup
  /\ UNCHANGED <<resp, byModel, report>>

-----------------------------------------------------------------------------
(* mainErr, after the sandbox's command has ended *)

SessionEnds ==
  /\ main = "running"
  /\ main' = "waiting"
  /\ UNCHANGED <<resp, parser, wg, byModel, report, waited>>

\* wg.Wait: at once if no stream is draining, or the caller sleeps.
Wait ==
  /\ main = "waiting"
  /\ \/ wg = 0 /\ main' = "summing" /\ waited' = ObservedStreams
     \/ wg > 0 /\ main' = "blocked" /\ UNCHANGED waited
  /\ UNCHANGED <<resp, parser, wg, byModel, report>>

\* The caller wakes.  Wait looks at the counter once more and panics if a stream
\* has joined since the last Done.
WaitReturns ==
  /\ main = "released"
  /\ \/ wg = 0 /\ main' = "summing" /\ waited' = ObservedStreams
     \/ wg > 0 /\ main' = "panicked" /\ UNCHANGED waited
  /\ UNCHANGED <<resp, parser, wg, byModel, report>>

Report ==
  /\ main = "summing"
  /\ main' = "reported"
  /\ report' = byModel
  /\ UNCHANGED <<resp, parser, wg, byModel, waited>>

Copy(s) == Read(s) \/ ReadEOF(s) \/ ReadBreaks(s) \/ Close(s)
ParserStep(s) ==
  TakeFrame(s) \/ TakeBadFrame(s) \/ Stop(s) \/ Add(s) \/ Drain(s) \/ Done(s)

Next ==
  \/ \E s \in Responses :
       ObserveStream(s) \/ ObserveJSON(s) \/ Copy(s) \/ ParserStep(s)
  \/ SessionEnds \/ Wait \/ WaitReturns \/ Report

Spec == Init /\ [][Next]_vars

\* Goroutines are scheduled; a Read of the body returns, since upstream sends,
\* ends or breaks (a client that leaves cancels the request), and so does a
\* write to the client.  Nothing is assumed of when the session ends.
FairSpec ==
  /\ Spec
  /\ \A s \in Responses : WF_vars(Copy(s)) /\ WF_vars(ParserStep(s))
  /\ WF_vars(Wait) /\ WF_vars(WaitReturns) /\ WF_vars(Report)

-----------------------------------------------------------------------------
(* Properties *)

\* The responses whose usage is in byModel.
Accounted ==
  {s \in Responses : \/ parser[s].pc \in {"draining", "done"}
                     \/ resp[s].kind = "json" /\ resp[s].flushed}

\* The frames of a body before the first bad one, of those that were read.
Good(body, read) == {i \in 1 .. read : \A j \in 1 .. i : body[j].type # "bad"}

\* What the part of a response that reached the client has used, stated without
\* a parser: up to the first bad frame, the last complete snapshot, or else all
\* message_start inputs and the last message_delta output.
Total(body, frames, field) == SumFunction([i \in frames |-> body[i][field]])
UsedIn(kind, body, good) ==
  LET Of(type) == {i \in good : body[i].type = type}
  IN IF kind = "json" THEN IF good = {} THEN NoUsage ELSE tokens(body[1])
     ELSE IF Of("openai") # {} THEN tokens(body[Max(Of("openai"))])
     ELSE [input |-> Total(body, Of("message_start"), "input"),
           cacheRead |-> Total(body, Of("message_start"), "cacheRead"),
           output |-> IF Of("message_delta") = {} THEN 0
                      ELSE body[Max(Of("message_delta"))].output]
Used(s) == UsedIn(resp[s].kind, resp[s].body, Good(resp[s].body, resp[s].read))

\* The totals are exact at every moment: each response that ended, was cut off
\* or could not be parsed is counted once, with what its part used, whichever
\* of EOF and Close came first (flush, parseEventStreamUsage, add).
UsageExact ==
  \A m \in Models, field \in DOMAIN NoUsage :
    byModel[m][field] =
      SumFunction([s \in {t \in Accounted : resp[t].model = m} |-> Used(s)[field]])

\* The comment of wg: Report waits for the streams still draining.  None that
\* was observed before Wait returned is missing from what is printed.
ReportHasStreams ==
  main = "reported" => waited \subseteq Accounted /\ report = byModel

\* The comment of Observe: it never blocks the client.  Every response is copied
\* to its end or its failure, whatever its frames do to the parser.
ClientServed ==
  \A s \in Responses :
    resp[s].pc # "idle" ~> (resp[s].pc = "closed" \/ ~Alive)

\* When the session has ended the report is printed and runclaude ends, whatever
\* the streams still do (Report).  Only a stream that joins the WaitGroup between
\* the last Done and the waking of Wait costs the report: there Wait panics.
ReportPrinted ==
  main = "waiting" ~>
    \/ main = "reported"
    \/ main = "panicked" /\ ObservedStreams \ waited # {}
=============================================================================
