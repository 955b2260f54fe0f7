----------------------------- MODULE McpServer ------------------------------
(***************************************************************************)
(* Godwit as an MCP server (godwit-mcp/src/server.rs): JSON-RPC frames, a  *)
(* line each, come in on a stream; the server handles them one at a time   *)
(* and writes one line for every request.  A tool call becomes a chat      *)
(* completion of the gateway, which may fail in any way.                   *)
(*                                                                         *)
(* A line is a record: `json` says what it parses to, `id` the type of its *)
(* id member, `method` and `body` what else it carries, `good` whether the *)
(* parameters are those that the method requires.  Blank lines are left    *)
(* out: the loop skips them.                                               *)
(***************************************************************************)
EXTENDS Integers, Sequences, SequencesExt

CONSTANTS
    Lines,        \* what the peer can write
    MaxLines      \* bound: lines on the stream

VARIABLES
    input,       \* lines written by the peer and not read yet
    hung_up,     \* the peer has closed its end
    handling,    \* the request in progress: a sequence of one or none
    output,      \* responses written
    serving,     \* "open", "eof", "error"
    \* The rest is history.
    lines,       \* lines read
    lost         \* responses that could not be written

svars == <<input, hung_up, handling, output, serving, lines, lost>>

LineOK(l) ==
    /\ l.json \in {"object", "other", "none"}
    /\ l.id \in {"integer", "string", "absent"}
    /\ l.method \in {"initialize", "tools/list", "tools/call", "other", "absent"}
    /\ l.body \in {"result", "error", "absent"}
    /\ l.good \in BOOLEAN

ASSUME ServerAssumption == MaxLines \in Nat /\ \A l \in Lines : LineOK(l)

SInit ==
    /\ input = <<>> /\ hung_up = FALSE /\ handling = <<>> /\ output = <<>>
    /\ serving = "open" /\ lines = <<>> /\ lost = 0

----------------------------------------------------------------------------
(* The peer.  The number of a line on the stream stands for its id.        *)

Arrive(l) ==
    /\ ~hung_up
    /\ Len(input) + Len(lines) < MaxLines
    /\ input' = Append(input, l)
    /\ UNCHANGED <<hung_up, handling, output, serving, lines, lost>>

PeerCloses ==
    /\ ~hung_up
    /\ hung_up' = TRUE
    /\ UNCHANGED <<input, handling, output, serving, lines, lost>>

----------------------------------------------------------------------------
(* The handlers: "ok", or the code of the error.                           *)

\* Mutant: a notification comes before a request among the untagged variants.
from_frame_notification_first(l) ==
    CASE l.json # "object" -> "malformed"
      [] l.json = "object" /\ l.method # "absent" -> "notification"
      [] l.json = "object" /\ l.method = "absent" /\ l.id = "integer" /\ l.body # "absent" -> "response"
      [] OTHER -> "malformed"

\* The first untagged variant that fits.  A request needs an integer for an id, so a
\* line with a method and any other id is a notification.
from_frame(l) ==
    CASE l.json # "object" -> "malformed"
      [] l.json = "object" /\ l.method # "absent" /\ l.id = "integer" -> "request"
      [] l.json = "object" /\ l.method = "absent" /\ l.id = "integer" /\ l.body # "absent" -> "response"
      [] l.json = "object" /\ l.method # "absent" /\ l.id # "integer" -> "notification"
      [] OTHER -> "malformed"

\* A protocolVersion that is a string and not empty; which one does not matter.
grant_initialize(l) == l.good
handle_initialize(l) == IF grant_initialize(l) THEN "ok" ELSE "-32602"
handle_tools_list(l) == "ok"
\* The one tool, with arguments and messages in them; then what the gateway made of it:
\* a completion, or else no answer, a status or no JSON.
handle_tools_call(l, gateway) ==
    CASE ~l.good -> "-32602"
      [] l.good /\ gateway = "fails" -> "-32603"
      [] OTHER -> "ok"

handle_request(l, n, gateway) ==
    [id |-> n,
     says |-> CASE l.method = "initialize" -> handle_initialize(l)
                [] l.method = "tools/list" -> handle_tools_list(l)
                [] l.method = "tools/call" -> handle_tools_call(l, gateway)
                [] OTHER -> "-32601"]

----------------------------------------------------------------------------
(* serve.                                                                  *)

Listening == serving = "open" /\ handling = <<>>

\* The next line: a request is handled, one that does not parse ends the loop.
ReadLine ==
    /\ Listening
    /\ input # <<>>
    /\ input' = Tail(input)
    /\ lines' = Append(lines, Head(input))
    /\ from_frame(Head(input)) \in {"request", "malformed", "response"}
    /\ serving' = IF from_frame(Head(input)) = "malformed" THEN "error" ELSE "open"
    /\ handling' = IF from_frame(Head(input)) = "request" THEN <<Len(lines) + 1>> ELSE <<>>
    /\ UNCHANGED <<hung_up, output, lost>>

\* A notification is logged.
handle_notification ==
    /\ Listening
    /\ input # <<>>
    /\ from_frame(Head(input)) = "notification"
    /\ input' = Tail(input)
    /\ lines' = Append(lines, Head(input))
    /\ UNCHANGED <<hung_up, handling, output, serving, lost>>

Eof ==
    /\ Listening
    /\ input = <<>> /\ hung_up
    /\ serving' = "eof"
    /\ UNCHANGED <<input, hung_up, handling, output, lines, lost>>

\* The response is written and flushed before the next line is read.
Respond(gateway) ==
    /\ serving = "open" /\ handling # <<>>
    /\ output' = Append(output, handle_request(lines[handling[1]], handling[1], gateway))
    /\ handling' = <<>>
    /\ UNCHANGED <<input, hung_up, serving, lines, lost>>

\* The peer no longer reads.
WriteFails ==
    /\ serving = "open" /\ handling # <<>>
    /\ hung_up
    /\ serving' = "error"
    /\ handling' = <<>>
    /\ lost' = lost + 1
    /\ UNCHANGED <<input, hung_up, output, lines>>

SNext ==
    \/ ReadLine \/ handle_notification \/ Eof \/ WriteFails \/ PeerCloses
    \/ \E l \in Lines : Arrive(l)
    \/ \E gateway \in {"answers", "fails"} : Respond(gateway)

SSpec == SInit /\ [][SNext]_svars

----------------------------------------------------------------------------
(* Properties.                                                             *)

\* What the reply to a line may say, given the method and whether its parameters are good.
Expected(l) ==
    CASE l.method = "other" -> {"-32601"}
      [] l.method = "tools/list" -> {"ok"}
      [] l.method # "tools/list" /\ ~l.good -> {"-32602"}
      [] l.method = "tools/call" /\ l.good -> {"ok", "-32603"}
      [] OTHER -> {"ok"}

\* The requests that the server owes an answer: integer id and a method.
Owed == SelectSeq([n \in 1..Len(lines) |-> n],
                  LAMBDA n : lines[n].json = "object" /\ lines[n].id = "integer"
                             /\ lines[n].method # "absent")

\* Every request with an integer id that was read is answered once, under its own id, in
\* the order of arrival and with the code that fits it, whatever comes between; only the
\* one being handled, or one whose answer could not be written, is still owed (serve).
ServedInOrder ==
    /\ [i \in 1..Len(output) |-> output[i].id] = SubSeq(Owed, 1, Len(output))
    /\ \A i \in 1..Len(output) : output[i].says \in Expected(lines[output[i].id])
    /\ Len(Owed) = Len(output) + Len(handling) + lost
============================================================================
