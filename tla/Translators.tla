---------------------------- MODULE Translators ----------------------------
(***************************************************************************)
(* The payloads of a provider's stream and the events the gateway makes of *)
(* them: by the function the adapter calls on each payload                 *)
(* (normalize_openai_sse_event, normalize_anthropic_sse_event, Gemini's    *)
(* translator), and by the stream translator the library has for the same  *)
(* provider, which keeps a flag from payload to payload and which nothing  *)
(* but its tests calls: translate_chunk on a payload, and into_stream on   *)
(* the chunks of the network.  The translators of Ollama and llama.cpp     *)
(* read the providers' own streams, which the adapters never ask for.      *)
(*                                                                         *)
(* A payload is blank, does not parse, or has a text, tool-call fragments, *)
(* a finish reason and a usage count for each choice.  A chunk has some    *)
(* whole lines with a payload each, behind "data: " unless the stream is   *)
(* Ollama's; cut lines are Streaming's.                                    *)
(***************************************************************************)
EXTENDS Integers, Sequences, SequencesExt

CONSTANTS
    Dialects,      \* subset of OpenAiDialects \cup Native \cup {"gemini", "anthropic"}
    Choices_,      \* what a choice of a payload can carry
    Counts,        \* usage counts
    NoCount, NoText,
    MaxPayloads

OpenAiDialects == {"openai", "azure", "vllm", "sglang"}
Native == {"ollama", "llama_cpp"}

ASSUME TranslatorsAssumption ==
    /\ Dialects \subseteq OpenAiDialects \cup Native \cup {"gemini", "anthropic"}
    /\ \A c \in Choices_ : c.finish \in {"none", "", "stop"}
    /\ MaxPayloads \in Nat

VARIABLES
    dialect,
    chunks,           \* what the provider has sent: the payloads of each chunk
    normalized,       \* events of the adapter
    translated,       \* a translator that is given the payloads: its events and its flag
    streamed          \* one whose into_stream is given the chunks

tvars == <<dialect, chunks, normalized, translated, streamed>>

new == [events |-> <<>>, finish_emitted |-> FALSE]
Framed == dialect # "ollama"

TInit ==
    /\ dialect \in Dialects
    /\ chunks = <<>> /\ normalized = <<>>
    /\ translated = new /\ streamed = new

build_sse_delta(x) == [type |-> "delta", of |-> x]
build_sse_finish(reason, n) == [type |-> "finish", reason |-> reason, n |-> n]
build_sse_error == [type |-> "error"]

Usage(p) == IF p.usage = NoCount THEN 0 ELSE p.usage
Deltas(c) == (IF c.text = NoText THEN <<>> ELSE <<build_sse_delta(c.text)>>)
             \o [i \in 1..Len(c.calls) |-> build_sse_delta(c.calls[i])]

\* A payload that does not parse is passed over; every finish reason of every
\* choice, also an empty one, is an event of its own.
normalize_openai_sse_event(p) ==
    IF p.kind # "ok" THEN <<>>
    ELSE FlattenSeq([i \in 1..Len(p.choices) |->
            Deltas(p.choices[i])
            \o IF p.choices[i].finish = "none" THEN <<>>
               ELSE <<build_sse_finish(p.choices[i].finish, Usage(p))>>])

\* An event of Anthropic: a text delta, or a message_delta whose usage is the
\* finish; other events are passed over.  One without a type is an error.
normalize_anthropic_sse_event(p) ==
    IF p.kind = "bad" THEN <<build_sse_error>>
    ELSE IF p.kind = "blank" \/ p.choices = <<>> THEN <<>>
    ELSE LET c == p.choices[1]
         IN  IF c.text # NoText THEN <<build_sse_delta(c.text)>>
             ELSE IF c.finish # "none" /\ p.usage # NoCount THEN <<build_sse_finish("none", p.usage)>>
             ELSE <<>>

----------------------------------------------------------------------------
(* The stream translators: translate_chunk takes a translator t to what it *)
(* is after the payload.                                                   *)

Emit(t, events) == [t EXCEPT !.events = @ \o events]

\* Mutant: the flag is looked at once for a payload.
PerChoice_each(t, p) ==
    [events |-> t.events \o FlattenSeq([i \in 1..Len(p.choices) |->
         Deltas(p.choices[i])
         \o IF ~t.finish_emitted /\ p.choices[i].finish = "stop"
            THEN <<build_sse_finish("stop", Usage(p))>> ELSE <<>>]),
     finish_emitted |-> t.finish_emitted \/ \E i \in 1..Len(p.choices) : p.choices[i].finish = "stop"]

\* The choices (candidates) one by one; the first finish reason that is not empty, of
\* this payload or an earlier one, is the end.
Translate(t, c, usage) ==
    LET ends == c.finish = "stop" /\ ~t.finish_emitted
    IN  [events |-> t.events \o Deltas(c)
                    \o IF ends THEN <<build_sse_finish("stop", usage)>> ELSE <<>>,
         finish_emitted |-> t.finish_emitted \/ ends]
PerChoice(t, p) ==
    FoldLeft(LAMBDA u, c : Translate(u, c, Usage(p)), t, p.choices)

\* next is what a payload that can be read makes of t.
Given(t, p, next) ==
    CASE p.kind = "blank" -> t
      [] p.kind = "bad" -> Emit(t, <<build_sse_error>>)
      [] OTHER -> next

\* One message and a flag, with the counts beside it.
OneMessage(t, p) == IF p.choices = <<>> THEN t ELSE Translate(t, p.choices[1], Usage(p))

openai_translate_chunk(t, p)    == Given(t, p, PerChoice(t, p))
azure_translate_chunk(t, p)     == Given(t, p, PerChoice(t, p))
vllm_translate_chunk(t, p)      == Given(t, p, PerChoice(t, p))
sglang_translate_chunk(t, p)    == Given(t, p, PerChoice(t, p))
gemini_translate_chunk(t, p)    == Given(t, p, PerChoice(t, p))
ollama_translate_chunk(t, p)    == Given(t, p, OneMessage(t, p))
llama_cpp_translate_chunk(t, p) == Given(t, p, OneMessage(t, p))

translate_chunk(t, p) ==
    CASE dialect = "openai" -> openai_translate_chunk(t, p)
      [] dialect = "azure" -> azure_translate_chunk(t, p)
      [] dialect = "vllm" -> vllm_translate_chunk(t, p)
      [] dialect = "sglang" -> sglang_translate_chunk(t, p)
      [] dialect = "gemini" -> gemini_translate_chunk(t, p)
      [] dialect = "ollama" -> ollama_translate_chunk(t, p)
      [] dialect = "llama_cpp" -> llama_cpp_translate_chunk(t, p)
      [] dialect = "anthropic" -> t

\* The text of a chunk as it came: no JSON behind "data: ", nor with a second payload.
Bad == [kind |-> "bad", choices |-> <<>>, usage |-> NoCount]
Blank == [Bad EXCEPT !.kind = "blank"]
Text(ps) ==
    LET full == SelectSeq(ps, LAMBDA p : p.kind # "blank")
    IN  IF Framed \/ Len(full) > 1 THEN Bad ELSE IF full = <<>> THEN Blank ELSE full[1]
into_stream(t, ps) == translate_chunk(t, Text(ps))

----------------------------------------------------------------------------
\* Ollama's and llama.cpp's own streams have one choice and no tool calls, no
\* dialect but OpenAI's has tool calls, and llama.cpp's and Ollama's flags are
\* there or not.
Speaks(p) ==
    /\ dialect \in Native \cup {"anthropic"} => Len(p.choices) <= 1
    /\ \A i \in 1..Len(p.choices) :
         /\ dialect \notin OpenAiDialects => p.choices[i].calls = <<>>
         /\ dialect \in Native => p.choices[i].finish # ""
         /\ dialect = "anthropic" => (p.choices[i].text = NoText \/ p.choices[i].finish = "none")

Payloads ==
    {Bad, Blank}
    \cup [kind : {"ok"}, choices : UNION {[1..n -> Choices_] : n \in 0..2}, usage : Counts \cup {NoCount}]

\* What the adapter makes of the lines of a chunk; u is its translator, for Gemini.
Adapted(u, ps) ==
    CASE dialect \in Native -> <<>>
      [] dialect = "gemini" ->
            FoldLeft(gemini_translate_chunk, [u EXCEPT !.events = <<>>], ps).events
      [] dialect = "anthropic" -> FlattenSeq([k \in 1..Len(ps) |-> normalize_anthropic_sse_event(ps[k])])
      [] OTHER -> FlattenSeq([k \in 1..Len(ps) |-> normalize_openai_sse_event(ps[k])])

Received == FlattenSeq(chunks)

ReceiveChunk(ps) ==
    /\ \A k \in 1..Len(ps) : Speaks(ps[k])
    /\ chunks' = Append(chunks, ps)
    /\ normalized' = normalized \o Adapted(translated, ps)
    /\ translated' = FoldLeft(translate_chunk, translated, ps)
    /\ streamed' = into_stream(streamed, ps)
    /\ UNCHANGED dialect

\* A read of the network fails: the adapters go on as if nothing had come,
\* into_stream reports it.
ReadFails ==
    /\ Len(Received) < MaxPayloads
    /\ \A k \in 1..Len(chunks) : chunks[k] # <<>>
    /\ chunks' = Append(chunks, <<>>)
    /\ streamed' = Emit(streamed, <<build_sse_error>>)
    /\ UNCHANGED <<dialect, normalized, translated>>

TNext ==
    \/ \E n \in 1..(MaxPayloads - Len(Received)) : \E ps \in [1..n -> Payloads] : ReceiveChunk(ps)
    \/ ReadFails

TSpec == TInit /\ [][TNext]_tvars

----------------------------------------------------------------------------
(* Properties.                                                             *)

Errorless(es) == SelectSeq(es, LAMBDA e : e.type # "error")

\* The events without the ends that come after the first one, or have no reason.
OneEnd(es) ==
    FoldLeft(LAMBDA kept, e :
                IF e.type = "finish" /\ (e.reason = "" \/ \E k \in 1..Len(kept) : kept[k].type = "finish")
                THEN kept ELSE Append(kept, e), <<>>, es)

\* On the payloads of an OpenAI-shaped provider the translator makes, errors aside, the
\* events that the adapter makes, in the same order and with the same counts, bar the
\* ends after the first, however the ends and the fragments of the choices are spread over
\* payloads (normalize_openai_sse_event, translate_chunk).  into_stream is no substitute
\* for the adapter: of a stream of "data: " lines it makes errors only.  It translates
\* Ollama's stream, if each line comes in a chunk of its own.
TranslatorAgrees ==
    /\ dialect \in OpenAiDialects => Errorless(translated.events) = OneEnd(normalized)
    /\ Framed => Errorless(streamed.events) = <<>>
    /\ ~Framed /\ (\A k \in 1..Len(chunks) : Len(chunks[k]) <= 1) =>
          Errorless(streamed.events) = Errorless(translated.events)
=============================================================================
