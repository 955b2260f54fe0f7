------------------------------ MODULE Adapters ------------------------------
(***************************************************************************)
(* The provider adapters: the body each sends for a request, what each     *)
(* makes of the provider's answer, and what it reports as used.            *)
(*                                                                         *)
(* A text is a sequence of atoms, so that joining texts is concatenation.  *)
(* A request of the core has the options the client set (`options`, by     *)
(* name), its tools by name, and its response format; a message has a      *)
(* role, parts (texts and images) or None, tool calls and the id of the    *)
(* call it answers.                                                        *)
(***************************************************************************)
EXTENDS Integers, Sequences, SequencesExt

CONSTANT None

OpenAiLike == {"openai", "azure", "vllm", "sglang", "ollama", "llama_cpp"}
AdapterNames == OpenAiLike \cup {"anthropic", "gemini"}

NATIVE_WEB_SEARCH_TOOLS ==
    {"web_search", "web_search_20250305", "google_search", "google_search_grounding"}

Map(f(_), s) == [i \in 1..Len(s) |-> f(s[i])]
Or(x, default) == IF x = None THEN default ELSE x

\* ChatMessage::content_as_text and ChatContent::as_text: the texts joined,
\* None when there is none.
content_as_text(m) ==
    LET texts == SelectSeq(Or(m.content, <<>>), LAMBDA p : p.kind = "text")
    IN  IF texts = <<>> THEN None ELSE Map(LAMBDA p : p.text, texts)

----------------------------------------------------------------------------
(* Native web search.                                                      *)

has_native_web_search_tool(tools) == \E i \in 1..Len(tools) : tools[i] \in NATIVE_WEB_SEARCH_TOOLS

strip_native_web_search_tools(tools) == SelectSeq(tools, LAMBDA t : t \notin NATIVE_WEB_SEARCH_TOOLS)

\* A request whose tools were all native keeps an empty list.
strip_native_web_search_from_request(q) ==
    IF q.tools # None /\ has_native_web_search_tool(q.tools)
    THEN [q EXCEPT !.tools = strip_native_web_search_tools(@)] ELSE q

----------------------------------------------------------------------------
(* OpenAI and Azure.                                                       *)

\* Mutant: the id of the call that a message answers is left out.
openai_message_unlinked(m) == [role |-> m.role, parts |-> m.content, calls |-> m.calls, call_id |-> None]

\* OpenAiMessage::from_chat_message: all but the cache hint.
openai_message(m) == [role |-> m.role, parts |-> m.content, calls |-> m.calls, call_id |-> m.call_id]
azure_message(m)  == [role |-> m.role, parts |-> m.content, calls |-> m.calls, call_id |-> m.call_id]

\* The body OpenAiProvider::chat sends; a schema is strict unless it says no.
openai_body(q) ==
    [system |-> None, messages |-> Map(openai_message, q.messages), options |-> q.options,
     tools |-> q.tools, forced |-> None, format |-> q.format, stream |-> q.stream]
openai_stream_body(q) == openai_body([q EXCEPT !.stream = TRUE])

\* AzureOpenAiProvider sends two of the options and drops the others.
azure_body(q) ==
    [system |-> None, messages |-> Map(azure_message, q.messages),
     options |-> q.options \cap {"temperature", "max_tokens"},
     tools |-> q.tools, forced |-> None, format |-> q.format, stream |-> q.stream]
azure_stream_body(q) == azure_body([q EXCEPT !.stream = TRUE])

----------------------------------------------------------------------------
(* vLLM, SGLang, Ollama and llama.cpp: the request as it is, but for native *)
(* web search and the name the backend has for a schema.                   *)

\* response_format is removed; a schema without a body leaves nothing.
Constrained(format, field) ==
    CASE format = "schema" -> field
      [] format = "bare_schema" -> "none"
      [] OTHER -> format

SelfHosted(q, format) ==
    LET s == strip_native_web_search_from_request(q)
    IN  [system |-> None, messages |-> Map(openai_message, s.messages), options |-> s.options,
         tools |-> s.tools, forced |-> None, format |-> format, stream |-> s.stream]

vllm_body(q)      == SelfHosted(q, Constrained(q.format, "guided_json"))
sglang_body(q)    == SelfHosted(q, Constrained(q.format, "json_schema"))
\* json_schema_to_gbnf.
llama_cpp_body(q) == SelfHosted(q, Constrained(q.format, "grammar"))
\* Ollama is only told to answer in JSON.
ollama_body(q) == SelfHosted(q, IF q.format \in {"schema", "bare_schema"} THEN "json" ELSE q.format)

vllm_stream_body(q)      == vllm_body([q EXCEPT !.stream = TRUE])
sglang_stream_body(q)    == sglang_body([q EXCEPT !.stream = TRUE])
llama_cpp_stream_body(q) == llama_cpp_body([q EXCEPT !.stream = TRUE])
ollama_stream_body(q)    == ollama_body([q EXCEPT !.stream = TRUE])

----------------------------------------------------------------------------
(* Anthropic.                                                              *)

\* parse_image_url: always a base64 block, also when the URL is no data URL.
parse_image_url(p) == [kind |-> "base64", src |-> p.src]

\* Tool calls and the ids of their results are dropped.
anthropic_message(m) ==
    [role |-> m.role, calls |-> <<>>, call_id |-> None,
     parts |-> Map(LAMBDA p : IF p.kind = "text" THEN p ELSE parse_image_url(p), Or(m.content, <<>>))]

\* System messages are hoisted out of the conversation and joined.
SystemParts(q) ==
    SelectSeq(Map(content_as_text, SelectSeq(q.messages, LAMBDA m : m.role = "system")),
              LAMBDA t : t # None)
Others(q) == SelectSeq(q.messages, LAMBDA m : m.role # "system")
Joined(texts) == IF texts = <<>> THEN None ELSE texts

\* AnthropicChatRequest::from_chat_request: max_tokens is always sent; a schema
\* becomes the only tool, and the model is forced to call it; the client's own
\* tools are not sent.
anthropic_body(q) ==
    LET schema == q.format \in {"schema", "bare_schema"}
    IN  [system |-> Joined(SystemParts(q)), messages |-> Map(anthropic_message, Others(q)),
         options |-> (q.options \cap {"temperature", "top_p", "top_k", "stop", "repetition_penalty"})
                        \cup {"max_tokens"},
         tools |-> IF schema THEN <<"schema">> ELSE None,
         forced |-> IF schema THEN "schema" ELSE None,
         format |-> "none", stream |-> q.stream]
anthropic_stream_body(q) == anthropic_body([q EXCEPT !.stream = TRUE])

\* The text blocks joined; any other block is dropped.
anthropic_response_to_chat_completion(b) ==
    [choices |-> <<[text |-> Map(LAMBDA k : k.text, SelectSeq(b.blocks, LAMBDA k : k.type = "text")),
                    calls |-> <<>>, finish |-> b.finish]>>,
     usage |-> b.usage]

----------------------------------------------------------------------------
(* Gemini.                                                                 *)

\* parse_data_url is for data URLs; another URL is sent as a file.
parse_data_url(p) == [kind |-> IF p.kind = "data" THEN "inline" ELSE "file", src |-> p.src]

\* GeminiContent::from_chat_message.
gemini_message(m) ==
    [role |-> IF m.role = "assistant" THEN "model" ELSE m.role, calls |-> <<>>, call_id |-> None,
     parts |-> Map(LAMBDA p : IF p.kind = "text" THEN p ELSE parse_data_url(p), Or(m.content, <<>>))]

\* GeminiChatRequest::from_chat_request: native web search becomes grounding,
\* every other tool and the response format are dropped; there is no stream
\* flag, the URL says it.
gemini_body(q) ==
    [system |-> Joined(SystemParts(q)), messages |-> Map(gemini_message, Others(q)),
     options |-> (q.options \cap {"temperature", "top_p", "top_k", "stop", "seed",
                                  "repetition_penalty"}) \cup {"max_tokens"},
     tools |-> IF has_native_web_search_tool(Or(q.tools, <<>>))
               THEN <<"google_search_grounding">> ELSE None,
     forced |-> None, format |-> "none", stream |-> FALSE]
gemini_stream_body(q) == [gemini_body(q) EXCEPT !.stream = TRUE]

\* The first candidate only; an answer without one is an error.
gemini_response_to_chat_completion(b) ==
    IF b.candidates = <<>> THEN None
    ELSE [choices |-> <<[text |-> SelectSeq(b.candidates[1].parts, LAMBDA t : t # None),
                         calls |-> <<>>, finish |-> b.candidates[1].finish]>>,
          usage |-> b.usage]

----------------------------------------------------------------------------
(* What an operation reports as used, and what it costs.                   *)

\* usage::chat_usage_report: nothing when the provider did not count.
chat_usage_report(u) ==
    IF u = None THEN [prompt |-> None, completion |-> None]
    ELSE [prompt |-> u.prompt, completion |-> u.completion]

\* AnthropicUsage is no option of the answer; GeminiUsageMetadata is.
anthropic_usage(u) == [prompt |-> u.prompt, completion |-> u.completion]
gemini_usage(u) ==
    IF u = None THEN [prompt |-> None, completion |-> None]
    ELSE [prompt |-> u.prompt, completion |-> u.completion]

chat_body(a, q) ==
    CASE a = "openai" -> IF q.stream THEN openai_stream_body(q) ELSE openai_body(q)
      [] a = "azure" -> IF q.stream THEN azure_stream_body(q) ELSE azure_body(q)
      [] a = "vllm" -> IF q.stream THEN vllm_stream_body(q) ELSE vllm_body(q)
      [] a = "sglang" -> IF q.stream THEN sglang_stream_body(q) ELSE sglang_body(q)
      [] a = "ollama" -> IF q.stream THEN ollama_stream_body(q) ELSE ollama_body(q)
      [] a = "llama_cpp" -> IF q.stream THEN llama_cpp_stream_body(q) ELSE llama_cpp_body(q)
      [] a = "anthropic" -> IF q.stream THEN anthropic_stream_body(q) ELSE anthropic_body(q)
      [] a = "gemini" -> IF q.stream THEN gemini_stream_body(q) ELSE gemini_body(q)

\* An OpenAI-shaped answer is read into the core's own type.
Completion(a, b) ==
    CASE a = "anthropic" -> anthropic_response_to_chat_completion(b)
      [] a = "gemini" -> gemini_response_to_chat_completion(b)
      [] OTHER -> [choices |-> b.choices, usage |-> b.usage]

ChatReport(a, b) ==
    CASE a = "anthropic" -> anthropic_usage(b.usage)
      [] a = "gemini" -> gemini_usage(b.usage)
      [] OTHER -> chat_usage_report(b.usage)
----------------------------------------------------------------------------
(* The other operations.  What comes back is a transport error (status 0), *)
(* a status, or a body, which may not parse.                               *)

HttpError(res) == res.status # 200
Returned(res, unit, n) ==
    CASE HttpError(res) -> [ok |-> FALSE, error |-> "http", status |-> res.status]
      [] ~HttpError(res) /\ ~res.parses -> [ok |-> FALSE, error |-> "serialization", status |-> 0]
      [] OTHER -> [ok |-> TRUE, unit |-> unit, n |-> n]

openai_image_generation(q, res) == Returned(res, "image", res.items)
openai_image_edit(q, res)       == Returned(res, "image", res.items)
\* Speech is bytes: a body that breaks off is a transport error.
openai_audio_tts(q, res) ==
    IF ~HttpError(res) /\ ~res.parses THEN [ok |-> FALSE, error |-> "http", status |-> 0]
    ELSE Returned(res, "character", q.units)
\* The content type is checked before anything is sent; the length is not known.
openai_audio_stt(q, res) ==
    IF ~q.mime THEN [ok |-> FALSE, error |-> "provider", status |-> 0]
    ELSE Returned(res, "second", 0)
openai_embedding(q, res)      == Returned(res, "token", res.tokens)
openai_create_batch(q, res)   == Returned(res, "none", 0)
openai_retrieve_batch(q, res) == Returned(res, "none", 0)
openai_cancel_batch(q, res)   == Returned(res, "none", 0)

azure_image_generation(q, res) == Returned(res, "image", res.items)
azure_image_edit(q, res)       == Returned(res, "image", res.items)
azure_audio_tts(q, res) ==
    IF ~HttpError(res) /\ ~res.parses THEN [ok |-> FALSE, error |-> "http", status |-> 0]
    ELSE Returned(res, "character", q.units)
azure_audio_stt(q, res) ==
    IF ~q.mime THEN [ok |-> FALSE, error |-> "provider", status |-> 0]
    ELSE Returned(res, "second", 0)
azure_embedding(q, res)      == Returned(res, "token", res.tokens)
azure_create_batch(q, res)   == Returned(res, "none", 0)
azure_retrieve_batch(q, res) == Returned(res, "none", 0)
azure_cancel_batch(q, res)   == Returned(res, "none", 0)

vllm_embedding(q, res)      == Returned(res, "token", res.tokens)
sglang_embedding(q, res)    == Returned(res, "token", res.tokens)
ollama_embedding(q, res)    == Returned(res, "token", res.tokens)
llama_cpp_embedding(q, res) == Returned(res, "token", res.tokens)
\* Gemini does not count: the numbers of all vectors are reported as tokens.
gemini_embedding(q, res)    == Returned(res, "token", res.floats)

Operations == {"image_generation", "image_edit", "audio_tts", "audio_stt", "embedding",
               "video_generation", "create_batch", "retrieve_batch", "cancel_batch"}
Batching == {"create_batch", "retrieve_batch", "cancel_batch"}

\* CapabilityNotSupported, without a call.
openai_unsupported    == {"video_generation"}
azure_unsupported     == {"video_generation"}
anthropic_unsupported == Operations
gemini_unsupported    == Operations \ ({"embedding"} \cup Batching)
vllm_unsupported      == Operations \ ({"embedding"} \cup Batching)
sglang_unsupported    == Operations \ ({"embedding"} \cup Batching)
ollama_unsupported    == Operations \ ({"embedding"} \cup Batching)
llama_cpp_unsupported == Operations \ ({"embedding"} \cup Batching)
gemini_no_batch       == Batching
vllm_no_batch         == Batching
sglang_no_batch       == Batching
ollama_no_batch       == Batching
llama_cpp_no_batch    == Batching

Unsupported(a) ==
    CASE a = "openai" -> openai_unsupported
      [] a = "azure" -> azure_unsupported
      [] a = "anthropic" -> anthropic_unsupported
      [] a = "gemini" -> gemini_unsupported \cup gemini_no_batch
      [] a = "vllm" -> vllm_unsupported \cup vllm_no_batch
      [] a = "sglang" -> sglang_unsupported \cup sglang_no_batch
      [] a = "ollama" -> ollama_unsupported \cup ollama_no_batch
      [] a = "llama_cpp" -> llama_cpp_unsupported \cup llama_cpp_no_batch

Embedding(a, q, res) ==
    CASE a = "openai" -> openai_embedding(q, res)
      [] a = "azure" -> azure_embedding(q, res)
      [] a = "gemini" -> gemini_embedding(q, res)
      [] a = "vllm" -> vllm_embedding(q, res)
      [] a = "sglang" -> sglang_embedding(q, res)
      [] a = "ollama" -> ollama_embedding(q, res)
      [] a = "llama_cpp" -> llama_cpp_embedding(q, res)

Performed(a, op, q, res) ==
    CASE op = "embedding" -> Embedding(a, q, res)
      [] op = "image_generation" ->
            IF a = "azure" THEN azure_image_generation(q, res) ELSE openai_image_generation(q, res)
      [] op = "image_edit" ->
            IF a = "azure" THEN azure_image_edit(q, res) ELSE openai_image_edit(q, res)
      [] op = "audio_tts" ->
            IF a = "azure" THEN azure_audio_tts(q, res) ELSE openai_audio_tts(q, res)
      [] op = "audio_stt" ->
            IF a = "azure" THEN azure_audio_stt(q, res) ELSE openai_audio_stt(q, res)
      [] op = "create_batch" ->
            IF a = "azure" THEN azure_create_batch(q, res) ELSE openai_create_batch(q, res)
      [] op = "retrieve_batch" ->
            IF a = "azure" THEN azure_retrieve_batch(q, res) ELSE openai_retrieve_batch(q, res)
      [] op = "cancel_batch" ->
            IF a = "azure" THEN azure_cancel_batch(q, res) ELSE openai_cancel_batch(q, res)

----------------------------------------------------------------------------
(* usage.rs: prices per million tokens, per image, per character and per   *)
(* second; None when the model has no such price.                          *)

Millions(n, price) == n * price   \* in millionths
compute_chat_cost(pricing, report) ==
    IF None \in {pricing.input, pricing.output, report.prompt, report.completion} THEN None
    ELSE Millions(report.prompt, pricing.input) + Millions(report.completion, pricing.output)
compute_embedding_cost(pricing, r) == IF pricing.input = None THEN None ELSE Millions(r.n, pricing.input)
compute_image_cost(pricing, r)     == IF pricing.image = None THEN None ELSE r.n * pricing.image
compute_audio_tts_cost(pricing, r) == IF pricing.character = None THEN None ELSE r.n * pricing.character
compute_audio_stt_cost(pricing, r) == IF pricing.second = None THEN None ELSE r.n * pricing.second

compute_cost(pricing, op, r) ==
    CASE op = "chat" -> compute_chat_cost(pricing, r)
      [] op = "embedding" -> compute_embedding_cost(pricing, r)
      [] op \in {"image_generation", "image_edit"} -> compute_image_cost(pricing, r)
      [] op = "audio_tts" -> compute_audio_tts_cost(pricing, r)
      [] op = "audio_stt" -> compute_audio_stt_cost(pricing, r)
      [] OTHER -> None
=============================================================================
