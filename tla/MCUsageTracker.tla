--------------------------- MODULE MCUsageTracker ---------------------------
(* TLC instances of UsageTracker. *)
EXTENDS UsageTracker

Start == [type |-> "message_start", input |-> 1, cacheRead |-> 2, output |-> 0]
Delta(n) == [type |-> "message_delta", input |-> 0, cacheRead |-> 0, output |-> n]
OpenAI(n) == [type |-> "openai", input |-> 3, cacheRead |-> 1, output |-> n]
Other == [type |-> "other", input |-> 0, cacheRead |-> 0, output |-> 0]
Bad == [type |-> "bad", input |-> 0, cacheRead |-> 0, output |-> 0]

\* An Anthropic stream, and one of OpenAI's with a bad frame in its middle.
MCStreams == {<<Start, Delta(1), Delta(3)>>, <<Other, OpenAI(2), Bad, OpenAI(4)>>}

MCBodies == {OpenAI(2)}
=============================================================================
