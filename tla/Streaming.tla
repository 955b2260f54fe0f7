----------------------------- MODULE Streaming -----------------------------
(***************************************************************************)
(* A streamed chat completion, from the bytes of the provider to the       *)
(* frames of the client.  The adapter cuts each network chunk into lines   *)
(* and normalises them to events; when the request has tools of the        *)
(* gateway a spawned task looks for tool calls in the events, resolves     *)
(* them at the finish and passes everything on through a bounded channel;  *)
(* the body of the response renders the events for the client.             *)
(*                                                                         *)
(* The provider answers one choice: text, then the fragments of its tool   *)
(* calls, call by call, then the finish.  A line whose bytes arrive in two *)
(* chunks is cut, in its prefix "data: " or in its payload.  An event      *)
(* names the place in `said` it stems from.                                *)
(***************************************************************************)
EXTENDS Integers, Sequences

CONSTANTS
    Setups,      \* the ways a stream can be set up, see below
    Capacity,    \* of the mpsc channel
    Indices      \* the tool calls of one completion

CutPlaces == {"none", "prefix", "payload"}

\* A setup says which adapter reads the provider ("openai", also azure, vllm,
\* sglang, llama.cpp and ollama; or "gemini", also anthropic, which passes on
\* text and finish only), whether process_streaming_tool_calls is in between
\* and which wire format the client reads.  It also bounds the completion: the
\* places where chunk boundaries cut lines, and the number of items.
ASSUME StreamingAssumption ==
    /\ \A u \in Setups :
         /\ u.adapter \in {"openai", "gemini"} /\ u.wire \in {"canonical", "openai", "anthropic"}
         /\ u.tools \in BOOLEAN /\ u.cuts \subseteq CutPlaces /\ u.items \in Nat
         /\ u.wire = "anthropic" => ~u.tools
    /\ Indices \subseteq Nat /\ Capacity \in Nat \ {0}

VARIABLES
    setup,
    said,          \* what the provider has sent
    ended,         \* its response is over
    current_tool, accumulated_tools,   \* the ToolCallBuffer
    tool_call_detected,
    todo,          \* what the task does before it polls again
    channel,
    listening,     \* the client is there
    started, finished,                 \* of the egress translator
    frames,        \* what the client has received
    resolved       \* history: the tool calls that were executed

buffer == <<current_tool, accumulated_tools, tool_call_detected>>
egress == <<started, finished, frames>>
stream_vars == <<setup, said, ended, buffer, todo, channel, listening, egress, resolved>>

Adapter == setup.adapter
Tools == setup.tools
Wire == setup.wire

Items ==
    [kind : {"text"}, body : {"plain", "brace"}, cut : CutPlaces]
    \union [kind : {"tool"}, index : Indices, part : {"name", "arguments", "both"}, cut : CutPlaces]
    \union [kind : {"finish"}, cut : CutPlaces]

\* The text of "brace" begins with "{" and is no JSON.
IsTool(n) == said[n].kind = "tool"
\* What a fragment of a tool call carries; its id comes with the name.
Names(i) == i.part \in {"name", "both"}
Argues(i) == i.part \in {"arguments", "both"}
Event(type, n) == [type |-> type, at |-> n]
NoTool == [index |-> -1, name |-> 0, arguments |-> <<>>]

StreamInit ==
    /\ setup \in Setups
    /\ said = <<>> /\ ended = FALSE
    /\ current_tool = NoTool /\ accumulated_tools = <<>> /\ tool_call_detected = FALSE
    /\ todo = <<>> /\ channel = <<>> /\ listening = TRUE
    /\ started = FALSE /\ finished = FALSE /\ frames = <<>>
    /\ resolved = <<>>

----------------------------------------------------------------------------
(* The provider (external): which item may come next.                      *)

Latest == said[Len(said)]

MayFollow(i) ==
    /\ Adapter = "gemini" => i.kind # "tool"
    /\ i.cut \in setup.cuts
    /\ \/ said = <<>> /\ (i.kind = "tool" => Names(i))
       \/ /\ said # <<>> /\ Latest.kind # "finish"
          /\ i.kind = "text" => Latest.kind = "text"
          /\ i.kind = "tool" =>
               IF Latest.kind = "tool"
               THEN i.index >= Latest.index /\ IF i.index = Latest.index THEN Argues(i) ELSE Names(i)
               ELSE Names(i)

----------------------------------------------------------------------------
(* The adapter.  Lines are split chunk by chunk, so neither half of a cut  *)
(* line is a line: a half without the prefix is passed over, and of a half *)
(* payload the OpenAI normaliser makes nothing, the Gemini translator an   *)
(* error.                                                                  *)

Normalize(i, n) ==
    IF i.cut = "prefix" \/ (i.cut = "payload" /\ Adapter = "openai") THEN <<>>
    ELSE IF i.cut = "payload" THEN <<Event("error", n)>>
    ELSE IF i.kind = "finish" THEN <<Event("finish", n)>>
    ELSE <<Event("delta", n)>>

\* parse_canonical_event: a delta that begins with "{" is taken for a packed
\* tool call, whatever it is.
Canonical(s, e) ==
    IF e.type = "delta" /\ (s[e.at].kind = "tool" \/ s[e.at].body = "brace") THEN "ToolCall"
    ELSE IF e.type = "delta" THEN "Delta"
    ELSE IF e.type = "finish" THEN "Finish"
    ELSE IF e.type = "error" THEN "Error" ELSE "Unknown"

----------------------------------------------------------------------------
(* The ToolCallBuffer: fragment n of the provider.                         *)

Complete(t) == [name |-> t.name, arguments |-> t.arguments]

Fresh(i, n) ==
    [index |-> i.index, name |-> IF Names(i) THEN n ELSE 0,
     arguments |-> IF Argues(i) THEN <<n>> ELSE <<>>]

\* Mutant: a new index replaces the tool call in progress.
push_replaces(i, n) ==
    \/ /\ i.kind # "tool"
       /\ UNCHANGED <<current_tool, accumulated_tools>>
    \/ /\ i.kind = "tool" /\ current_tool.index = i.index
       /\ current_tool' = [current_tool EXCEPT
                            !.name = IF Names(i) THEN n ELSE @,
                            !.arguments = IF Argues(i) THEN Append(@, n) ELSE @]
       /\ UNCHANGED accumulated_tools
    \/ /\ i.kind = "tool" /\ current_tool.index # i.index
       /\ current_tool' = Fresh(i, n)
       /\ UNCHANGED accumulated_tools

push_delta(i, n) ==
    \/ /\ i.kind # "tool"
       /\ UNCHANGED <<current_tool, accumulated_tools>>
    \/ /\ i.kind = "tool" /\ current_tool.index = i.index
       /\ current_tool' = [current_tool EXCEPT
                            !.name = IF Names(i) THEN n ELSE @,
                            !.arguments = IF Argues(i) THEN Append(@, n) ELSE @]
       /\ UNCHANGED accumulated_tools
    \/ /\ i.kind = "tool" /\ current_tool.index # i.index
       /\ current_tool' = Fresh(i, n)
       /\ accumulated_tools' = IF current_tool = NoTool THEN accumulated_tools
                               ELSE Append(accumulated_tools, Complete(current_tool))

finish_all ==
    IF current_tool = NoTool THEN accumulated_tools
    ELSE Append(accumulated_tools, Complete(current_tool))

----------------------------------------------------------------------------
(* The body: the frames an event is rendered to.  The OpenAI translator    *)
(* drops a tool call that does not parse, both go quiet after a finish or  *)
(* an error, and neither knows a tool result.                              *)

Opening == IF started THEN <<>>
           ELSE IF Wire = "openai" THEN <<Event("role", 0)>>
           ELSE <<Event("message_start", 0), Event("content_block_start", 0)>>

Fragment(i, n) ==
    IF i.kind # "tool" THEN <<>>
    ELSE (IF Wire = "openai" /\ Names(i) THEN <<Event("tool_name", n)>> ELSE <<>>)
         \o (IF Argues(i) THEN <<Event("tool_arguments", n)>> ELSE <<>>)

Body(s, e) ==
    LET c == Canonical(s, e)
    IN  IF c = "Delta" THEN <<Event("content", e.at)>>
        ELSE IF c = "ToolCall" THEN Fragment(s[e.at], e.at)
        ELSE IF c = "Unknown" THEN <<>>
        ELSE <<Event(e.type, e.at)>>

Closing(s, e) ==
    IF Wire = "anthropic" /\ Canonical(s, e) \in {"Finish", "Error"}
    THEN <<Event("message_stop", e.at)>> ELSE <<>>

push(s, e) ==
    \/ /\ Wire = "canonical"
       /\ frames' = Append(frames, e)
       /\ UNCHANGED <<started, finished>>
    \/ /\ Wire # "canonical" /\ finished
       /\ UNCHANGED egress
    \/ /\ Wire # "canonical" /\ ~finished
       /\ started' = TRUE
       /\ finished' = (Canonical(s, e) \in {"Finish", "Error"})
       /\ frames' = frames \o Opening \o Body(s, e) \o Closing(s, e)

----------------------------------------------------------------------------
(* Steps.                                                                  *)

Send(e) == [do |-> "send", event |-> e]
Resolve(t) == [do |-> "resolve", tool |-> t]

\* What follows the finish: the named tool calls, one after the other.
Resolutions(tools) ==
    LET named == SelectSeq(tools, LAMBDA t : t.name # 0)
    IN  [k \in 1..Len(named) |-> Resolve(named[k])]

\* The task takes the next event of the adapter.
Process(s, e) ==
    \/ /\ Canonical(s, e) = "ToolCall"
       /\ tool_call_detected' = TRUE
       /\ push_delta(s[e.at], e.at)
       /\ todo' = <<Send(e)>>
    \/ /\ Canonical(s, e) = "Finish"
       /\ todo' = <<Send(e)>> \o (IF tool_call_detected THEN Resolutions(finish_all) ELSE <<>>)
       /\ IF tool_call_detected
          THEN current_tool' = NoTool /\ accumulated_tools' = <<>>
          ELSE UNCHANGED <<current_tool, accumulated_tools>>
       /\ UNCHANGED tool_call_detected
    \/ /\ Canonical(s, e) \notin {"ToolCall", "Finish"}
       /\ todo' = <<Send(e)>>
       /\ UNCHANGED buffer

\* A line of the provider arrives, whole or cut, and is polled by the task,
\* which goes on when the client has left, or by the body, which does not.
Poll(i) ==
    LET s == Append(said, i)
        events == Normalize(i, Len(s))
    IN  /\ ~ended /\ Len(said) < setup.items /\ MayFollow(i) /\ todo = <<>>
        /\ Tools \/ listening
        /\ said' = s
        /\ \/ events = <<>> /\ UNCHANGED <<buffer, todo, egress>>
           \/ events # <<>> /\ Tools /\ Process(s, events[1]) /\ UNCHANGED egress
           \/ events # <<>> /\ ~Tools /\ push(s, events[1]) /\ UNCHANGED <<buffer, todo>>
        /\ UNCHANGED <<setup, ended, channel, listening, resolved>>

\* The response is over, after its finish or because the connection broke,
\* which the adapters do not tell from the end.
EndOfStream ==
    /\ ~ended /\ todo = <<>>
    /\ ended' = TRUE
    /\ UNCHANGED <<setup, said, buffer, todo, channel, listening, egress, resolved>>

\* Mutant: try_send, which gives up when the channel is full.
TrySend ==
    /\ todo # <<>> /\ Head(todo).do = "send"
    /\ channel' = IF listening /\ Len(channel) < Capacity
                  THEN Append(channel, Head(todo).event) ELSE channel
    /\ todo' = Tail(todo)
    /\ UNCHANGED <<setup, said, ended, buffer, listening, egress, resolved>>

\* Mutant: a receiver that is gone is waited for.
SendWaits ==
    /\ todo # <<>> /\ Head(todo).do = "send"
    /\ listening /\ Len(channel) < Capacity
    /\ channel' = Append(channel, Head(todo).event)
    /\ todo' = Tail(todo)
    /\ UNCHANGED <<setup, said, ended, buffer, listening, egress, resolved>>

\* tx.send: waits for room, and is ignored when the receiver is gone.
TaskSends ==
    /\ todo # <<>> /\ Head(todo).do = "send"
    /\ \/ /\ listening /\ Len(channel) < Capacity
          /\ channel' = Append(channel, Head(todo).event)
       \/ /\ ~listening
          /\ UNCHANGED channel
    /\ todo' = Tail(todo)
    /\ UNCHANGED <<setup, said, ended, buffer, listening, egress, resolved>>

\* resolve_tool_calls returns one message, be it the text of a failure.
TaskResolves ==
    /\ todo # <<>> /\ Head(todo).do = "resolve"
    /\ resolved' = Append(resolved, Head(todo).tool)
    /\ todo' = <<Send(Event("tool_result", Head(todo).tool.name))>> \o Tail(todo)
    /\ UNCHANGED <<setup, said, ended, buffer, channel, listening, egress>>

\* The body takes an event from the channel.
Receive ==
    /\ listening /\ channel # <<>>
    /\ push(said, Head(channel))
    /\ channel' = Tail(channel)
    /\ UNCHANGED <<setup, said, ended, buffer, todo, listening, resolved>>

\* The client hangs up: the body and the receiver are dropped.
HangUp ==
    /\ listening
    /\ listening' = FALSE
    /\ channel' = <<>>
    /\ UNCHANGED <<setup, said, ended, buffer, todo, egress, resolved>>

StreamNext ==
    \/ \E i \in Items : Poll(i)
    \/ EndOfStream \/ TaskSends \/ TaskResolves \/ Receive \/ HangUp

StreamSpec == StreamInit /\ [][StreamNext]_stream_vars

\* tokio runs the task that process_streaming_tool_calls spawns whenever it can go on, and
\* the timeout of the provider client ends the response that the task reads.  Nothing is
\* assumed of who reads the body nor of the tool calls, which have no timeout.
FairSpec == StreamSpec /\ WF_stream_vars(TaskSends) /\ WF_stream_vars(Tools /\ EndOfStream)

----------------------------------------------------------------------------
(* Properties.                                                             *)

Places == [n \in 1..Len(said) |-> n]
Whole(n) == said[n].cut = "none"

\* What arrived of tool call i: its fragments in whole lines.
CallOf(i) ==
    LET own == SelectSeq(Places, LAMBDA n : Whole(n) /\ IsTool(n) /\ said[n].index = i)
        heads == SelectSeq(own, LAMBDA n : Names(said[n]))
    IN  [name |-> IF heads = <<>> THEN 0 ELSE heads[Len(heads)],
         arguments |-> SelectSeq(own, LAMBDA n : Argues(said[n]))]

Planned ==
    LET jobs == SelectSeq(todo, LAMBDA w : w.do = "resolve")
    IN  resolved \o [k \in 1..Len(jobs) |-> jobs[k].tool]

\* The tool calls that are executed are the provider's, once each and in their order, none
\* before the finish, and each has the fragments of its own index and of no other
\* (ToolCallBuffer, process_streaming_tool_calls).  That is all fragments unless a chunk
\* boundary cut a line: what the line had is lost, so the call is executed with arguments
\* that are missing a piece, or not at all when the line had its name.
CallsAsSent ==
    LET arrived == said # <<>> /\ Latest.kind = "finish" /\ Whole(Len(said))
        wanted == {c \in {CallOf(i) : i \in Indices} : c.name # 0}
    IN  Tools => /\ {Planned[k] : k \in DOMAIN Planned} = IF arrived THEN wanted ELSE {}
                 /\ \A j, k \in DOMAIN Planned : j < k => Planned[j].name < Planned[k].name

\* The places of the events on their way to the client, results aside.
OnTheWay ==
    LET sends == SelectSeq(todo, LAMBDA w : w.do = "send")
        events == frames \o channel \o [k \in 1..Len(sends) |-> sends[k].event]
    IN  SelectSeq(events, LAMBDA e : e.type # "tool_result")

\* With the canonical wire format the client receives the events of the whole
\* lines, each once and in order: the channel neither drops nor reorders.
DeliversInOrder ==
    Wire = "canonical" /\ listening =>
        LET due == SelectSeq(Places, LAMBDA n : Normalize(said[n], n) # <<>>)
        IN  /\ Len(OnTheWay) = Len(due)
            /\ \A k \in DOMAIN due : OnTheWay[k].at = due[k]

Resolving == todo # <<>> /\ Head(todo).do = "resolve"

\* After the finish the task of process_streaming_tool_calls comes to its end, if the
\* client, as long as it stays, reads what is in the channel, and the tool calls return.
\* Neither has a timeout: a client that stays and does not read, or a tool call that
\* hangs, keeps the task and the provider's response.
Drains ==
    []<>(listening => channel = <<>>) /\ []<>(~Resolving) =>
        (Tools /\ said # <<>> /\ Latest.kind = "finish" ~> ended /\ todo = <<>>)

----------------------------------------------------------------------------
(* What the documentation says.                                            *)

Over == ended /\ todo = <<>> /\ channel = <<>> /\ listening

\* Each text fragment of the provider becomes a delta event.
EveryFragment ==
    Over => \A n \in DOMAIN said : said[n].kind = "text" =>
        \E k \in DOMAIN frames : frames[k].type \in {"content", "delta"} /\ frames[k].at = n
============================================================================
