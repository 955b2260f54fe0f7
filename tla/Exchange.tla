------------------------------ MODULE Exchange ------------------------------
(***************************************************************************)
(* One exchange of a client with a provider: a chat through either of the  *)
(* two front doors (the OpenAI API and the Anthropic Messages API), with   *)
(* the rounds of the agentic loop when it carries tools, or one of the     *)
(* other operations.  Retries, fallbacks and limits are in Proxy, streams  *)
(* in Streaming and Translators; here is what is said to the provider,     *)
(* what comes back, and what is charged.                                   *)
(***************************************************************************)
EXTENDS Adapters

CONSTANTS
    Deals,        \* the exchanges to explore: adapter, door, request, searxng, mcp
    Pricing,
    max_iterations

ASSUME ExchangeAssumption ==
    /\ \A d \in Deals : d.adapter \in AdapterNames /\ d.door \in {"chat", "messages"} \cup Operations
    /\ max_iterations \in Nat \ {0}

VARIABLES
    deal,
    request,     \* the request of the core (its messages grow by the rounds), or None
    round,
    wire,        \* the last body sent, or None
    body,        \* the last answer of the provider, or None
    report,      \* UsageReport, summed over the rounds
    answer,      \* what the client gets
    cost,
    stage,
    heard,       \* history: the answers of the provider to this chat
    strays       \* history: calls of choices other than the first

xvars == <<deal, request, round, wire, body, report, answer, cost, stage, heard, strays>>

IsChat == deal.door \in {"chat", "messages"}

XInit ==
    /\ deal \in Deals
    /\ request = None /\ round = 0 /\ wire = None /\ body = None
    /\ report = [prompt |-> None, completion |-> None]
    /\ answer = None /\ cost = None /\ stage = "start"
    /\ heard = <<>> /\ strays = {}

----------------------------------------------------------------------------
(* The Anthropic front door.                                               *)

Message(role, text) ==
    [role |-> role, content |-> <<[kind |-> "text", text |-> text]>>, calls |-> <<>>, call_id |-> None]

anthropic_message_to_core(m) == Message(m.role, m.content)

anthropic_request_to_core(q) ==
    [messages |-> (IF q.system = None THEN <<>> ELSE <<Message("system", q.system)>>)
                  \o Map(anthropic_message_to_core, q.messages),
     options |-> q.options \cup {"max_tokens"}, tools |-> q.tools, format |-> "none",
     stream |-> q.stream]

core_finish_reason_to_anthropic(f) ==
    CASE f \in {"stop", "content_filter"} -> "end_turn"
      [] f = "length" -> "max_tokens"
      [] f = "tool_calls" -> "tool_use"
      [] OTHER -> f

core_usage_to_anthropic(u) == IF u = None THEN [prompt |-> 0, completion |-> 0] ELSE u

\* The tool calls of the first choice, then its text.
core_response_to_anthropic(r) ==
    [calls |-> r.choices[1].calls, usage |-> core_usage_to_anthropic(r.usage),
     text |-> Or(r.choices[1].text, <<>>),
     finish |-> core_finish_reason_to_anthropic(r.choices[1].finish)]

----------------------------------------------------------------------------
(* Tools.                                                                  *)

\* The MCP tools that are no native search and not there yet, then SearXNG's.
merge_agentic_tools(q) ==
    LET there == Range(q.tools)
        mcp == SelectSeq(deal.mcp, LAMBDA t : t \notin NATIVE_WEB_SEARCH_TOOLS \cup there)
        search == IF deal.searxng /\ "web_search" \notin there \cup Range(mcp)
                  THEN <<"web_search">> ELSE <<>>
    IN  [q EXCEPT !.tools = @ \o mcp \o search]

\* web_search_result, a call of the registry, or a short explanation.
ToolResult(name) ==
    CASE name \in Range(deal.mcp) -> "mcp"
      [] name \notin Range(deal.mcp) /\ name \in NATIVE_WEB_SEARCH_TOOLS ->
            IF deal.searxng THEN "found" ELSE "no backend"
      [] OTHER -> "not provisioned"

resolve_tool_calls(calls) ==
    Map(LAMBDA c : [Message("tool", ToolResult(c.name)) EXCEPT !.call_id = c.id], calls)

----------------------------------------------------------------------------
Agentic == deal.door = "chat" /\ Or(request.tools, <<>>) # <<>> /\ ~request.stream

Leave(a) == /\ answer' = a /\ stage' = "done"

Begin ==
    /\ stage = "start" /\ IsChat
    /\ LET q == IF deal.door = "messages" THEN anthropic_request_to_core(deal.ask) ELSE deal.ask
       IN  request' = IF deal.door = "chat" /\ Or(q.tools, <<>>) # <<>> /\ ~q.stream
                      THEN merge_agentic_tools(q) ELSE q
    /\ stage' = "send"
    /\ UNCHANGED <<deal, round, wire, body, report, answer, cost, heard, strays>>

\* adapter.chat or chat_stream, up to its await.
SendRequest ==
    /\ stage = "send"
    /\ wire' = chat_body(deal.adapter, request)
    /\ stage' = "wait"
    /\ UNCHANGED <<deal, request, round, body, report, answer, cost, heard, strays>>

\* What a provider may answer to a body: it calls only tools it was offered.
Usages == {None, [prompt |-> 1, completion |-> 2]}
Call(i, t) == [id |-> <<round, i, t>>, name |-> t]
ChoicesOf(i) ==
    {[text |-> <<t>>, calls |-> <<>>, finish |-> "stop"] : t \in {"json", "prose"}}
    \cup {[text |-> x, calls |-> <<Call(i, t)>>, finish |-> "tool_calls"] :
              t \in Range(Or(wire.tools, <<>>)), x \in {None, <<"prose">>}}

Bodies ==
    CASE deal.adapter = "anthropic" ->
            {[blocks |-> b, finish |-> "end_turn", usage |-> [prompt |-> 1, completion |-> 2]] :
                b \in IF wire.forced # None THEN {<<[type |-> "tool_use", text |-> "json"]>>}
                      ELSE {<<[type |-> "text", text |-> "prose"]>>,
                            <<[type |-> "text", text |-> "prose"], [type |-> "text", text |-> "json"]>>}}
      [] deal.adapter = "gemini" ->
            {[candidates |-> c, usage |-> u] : u \in Usages,
                c \in {<<>>, <<[parts |-> <<"prose">>, finish |-> "STOP"]>>,
                       <<[parts |-> <<None, "json">>, finish |-> "STOP"]>>}}
      [] OTHER ->
            {[choices |-> c, usage |-> u] : u \in Usages,
                c \in IF "n" \in wire.options THEN ChoicesOf(1) \X ChoicesOf(2)
                      ELSE {<<x>> : x \in ChoicesOf(1)}}

Answers(b) ==
    /\ stage = "wait"
    /\ body' = b
    /\ stage' = "read"
    /\ heard' = Append(heard, b)
    /\ UNCHANGED <<deal, request, round, wire, report, answer, cost, strays>>

Fails ==
    /\ stage = "wait"
    /\ Leave([error |-> "http"])
    /\ UNCHANGED <<deal, request, round, wire, body, report, cost, heard, strays>>

\* accumulate_usage.
Add(a, b) == IF a = None THEN b ELSE IF b = None THEN a ELSE a + b

\* Mutant: the usage of the last round replaces the sum.
accumulate_usage_last(acc, r) == r

accumulate_usage(acc, r) ==
    [prompt |-> Add(acc.prompt, r.prompt), completion |-> Add(acc.completion, r.completion)]

\* validate_response fails without a schema, and on what is no instance of it.
validate_response(text, format) == format = "schema" /\ text = <<"json">>
\* Only the first choice is looked at, and only when it has a text.
Invalid(r) ==
    /\ request.format \in {"schema", "bare_schema"}
    /\ Or(r.choices[1].text, <<>>) # <<>>
    /\ ~validate_response(r.choices[1].text, request.format)

\* A chat without the loop: the answer is passed on, unless it breaks the schema.
Read ==
    LET r == Completion(deal.adapter, body)
        u == ChatReport(deal.adapter, body)
    IN  /\ stage = "read" /\ ~Agentic
        /\ \/ request.stream /\ Leave([stream |-> TRUE]) /\ UNCHANGED <<report, cost>>
           \/ ~request.stream /\ r = None /\ Leave([error |-> "provider"]) /\ UNCHANGED <<report, cost>>
           \/ /\ ~request.stream /\ r # None /\ Invalid(r)
              /\ Leave([error |-> "validation"]) /\ UNCHANGED <<report, cost>>
           \/ /\ ~request.stream /\ r # None /\ ~Invalid(r)
              /\ report' = u /\ cost' = compute_cost(Pricing, "chat", u)
              /\ Leave(IF deal.door = "messages" THEN core_response_to_anthropic(r)
                       ELSE [text |-> r.choices[1].text, calls |-> r.choices[1].calls])
        /\ UNCHANGED <<deal, request, round, wire, body, heard, strays>>

CallsOf(r) == FlattenSeq(Map(LAMBDA c : c.calls, r.choices))
Assistant(c) ==
    [role |-> "assistant", calls |-> c.calls, call_id |-> None,
     content |-> IF c.text = None THEN None ELSE Map(LAMBDA t : [kind |-> "text", text |-> t], c.text)]

\* Mutant: the results are appended without the message that called for them.
Extended_results_only(messages, r) == messages \o resolve_tool_calls(CallsOf(r))

\* The first choice's message, then the results of every choice's calls.
Extended(messages, r) == Append(messages, Assistant(r.choices[1])) \o resolve_tool_calls(CallsOf(r))

\* A round of AgenticLoop::execute after the adapter's return.
Round ==
    LET r == Completion(deal.adapter, body)
        u == accumulate_usage(report, ChatReport(deal.adapter, body))
    IN  /\ stage = "read" /\ Agentic
        /\ \/ /\ r = None
              /\ Leave([error |-> "provider"])
              /\ UNCHANGED <<request, round, report, cost, strays>>
           \/ /\ r # None /\ Invalid(r)
              /\ Leave([error |-> "validation"]) /\ report' = u
              /\ UNCHANGED <<request, round, cost, strays>>
           \/ /\ r # None /\ ~Invalid(r) /\ CallsOf(r) = <<>>
              /\ report' = u /\ cost' = compute_cost(Pricing, "chat", u)
              /\ Leave([text |-> r.choices[1].text, calls |-> <<>>])
              /\ UNCHANGED <<request, round, strays>>
           \/ /\ r # None /\ ~Invalid(r) /\ CallsOf(r) # <<>>
              /\ report' = u
              /\ request' = [request EXCEPT !.messages = Extended(@, r)]
              /\ strays' = strays \cup {c.id : c \in Range(CallsOf(r)) \ Range(r.choices[1].calls)}
              /\ round' = round + 1
              /\ IF round + 1 < max_iterations THEN stage' = "send" /\ UNCHANGED answer
                 ELSE Leave([error |-> "iterations"])
              /\ UNCHANGED cost
        /\ UNCHANGED <<deal, wire, body, heard>>

\* One of the other operations.
Results == [status : {0, 200, 500}, parses : BOOLEAN, items : 0..2, tokens : {3}, floats : {8}]
Operate(res) ==
    /\ stage = "start" /\ ~IsChat
    /\ body' = res
    /\ \/ /\ deal.door \in Unsupported(deal.adapter)
          /\ Leave([ok |-> FALSE, error |-> "unsupported", status |-> 400]) /\ UNCHANGED cost
       \/ /\ deal.door \notin Unsupported(deal.adapter)
          /\ LET got == Performed(deal.adapter, deal.door, deal.ask, res)
             IN  /\ Leave(got)
                 /\ cost' = IF got.ok THEN compute_cost(Pricing, deal.door, got) ELSE None
    /\ UNCHANGED <<deal, request, round, wire, report, heard, strays>>

XNext ==
    \/ Begin \/ SendRequest \/ Fails \/ Read \/ Round
    \/ stage = "wait" /\ \E b \in Bodies : Answers(b)
    \/ \E res \in Results : Operate(res)

XSpec == XInit /\ [][XNext]_xvars

----------------------------------------------------------------------------
(* Properties.                                                             *)

Atoms(parts) == Map(LAMBDA p : IF p.kind = "text" THEN p.text ELSE p.src, Or(parts, <<>>))
Utterance(role, text, calls, id) == [role |-> role, said |-> text, calls |-> calls, call_id |-> id]
\* A message of the core or of a body, for the comparison.
Spoken(m) == Utterance(IF m.role = "model" THEN "assistant" ELSE m.role,
                   Atoms(IF "parts" \in DOMAIN m THEN m.parts ELSE m.content), m.calls, m.call_id)
IsSystem(m) == m.role = "system"
SystemText(ms) == FlattenSeq(Map(LAMBDA m : Spoken(m).said, SelectSeq(ms, IsSystem)))
Dialogue(ms) == Map(Spoken, SelectSeq(ms, LAMBDA m : ~IsSystem(m)))

\* What the client wrote, at either door.
Asked == IF deal.door = "chat" THEN Dialogue(deal.ask.messages)
         ELSE Map(LAMBDA m : Utterance(m.role, <<m.content>>, <<>>, None), deal.ask.messages)
AskedSystem == IF deal.door = "chat" THEN SystemText(deal.ask.messages)
               ELSE IF deal.ask.system = None THEN <<>> ELSE <<deal.ask.system>>
\* What a round of tools adds to it: what the model said, and each call's result.
Added(b) ==
    <<Utterance("assistant", Or(b.choices[1].text, <<>>), b.choices[1].calls, None)>>
    \o Map(LAMBDA c : Utterance("tool", <<ToolResult(c.name)>>, <<>>, c.id),
           FlattenSeq(Map(LAMBDA c : c.calls, b.choices)))
Unlinked(t) == [t EXCEPT !.calls = <<>>, !.call_id = None]

\* In every round the provider is told the whole conversation: what the client
\* wrote, with each text and image where it was and under its role, and then,
\* round by round, what the provider answered in its first choice and the
\* results of the calls of all choices; the system texts in their order, in
\* place or hoisted.  Calls and the ids that link results to them are told as
\* well, but not to Anthropic and Gemini, whose adapters drop them: of a tool
\* call in the client's history only the text of the result is left there
\* (from_chat_request and from_chat_message of every adapter, both front doors,
\* AgenticLoop::execute).
HistoryKept ==
    stage \in {"wait", "read"} =>
        LET due == Asked \o FlattenSeq(Map(Added, SubSeq(heard, 1, round)))
        IN  /\ Dialogue(wire.messages) =
                   IF deal.adapter \in OpenAiLike THEN due ELSE Map(Unlinked, due)
            /\ AskedSystem = IF wire.system = None THEN SystemText(wire.messages)
                             ELSE FlattenSeq(wire.system)

\* A result that reaches a provider answers a call that stands before it in the
\* same body; only results for choices after the first have lost their call
\* (AgenticLoop::execute keeps the first choice's message alone).
ResultsAnswerCalls ==
    wire # None =>
        \A j \in 1..Len(wire.messages) :
            LET id == wire.messages[j].call_id
            IN  id \notin {None} \cup strays =>
                    \E i \in 1..(j - 1) : \E c \in Range(wire.messages[i].calls) : c.id = id

Counted == SelectSeq(heard, LAMBDA b : b.usage # None)
Charge(b) == b.usage.prompt * Pricing.input + b.usage.completion * Pricing.output

\* A chat that is answered with a completion is charged what the provider
\* counted in all its rounds together, rounds without a count left out, and
\* nothing if none was counted.  A stream is not charged, and neither is a chat
\* that ends in an error, though rounds before may have been counted.  Images
\* and embeddings are charged by what was delivered, speech by what was asked,
\* a failed call not at all.  Transcription is free of charge and Gemini's
\* embeddings are charged by the length of their vectors, so neither is claimed
\* here (accumulate_usage, the adapters' UsageReport, call_chat, compute_cost).
ChargedAsCounted ==
    stage = "done" =>
        /\ IsChat => cost = IF "text" \notin DOMAIN answer \/ Counted = <<>> THEN None
                            ELSE FoldLeft(LAMBDA sum, b : sum + Charge(b), 0, Counted)
        /\ ~IsChat /\ ~answer.ok => cost = None
        /\ ~IsChat /\ answer.ok =>
              /\ deal.door \in {"image_generation", "image_edit"} => cost = body.items * Pricing.image
              /\ deal.door = "audio_tts" => cost = deal.ask.units * Pricing.character
              /\ deal.door = "embedding" /\ deal.adapter # "gemini" => cost = body.tokens * Pricing.input
=============================================================================
