----------------------------- MODULE MCExchange -----------------------------
(* A completion on its way: what is sent to the provider and what its answer *)
(* costs (Exchange), the masking around it (Guardrails), the translation of  *)
(* the provider's events (Translators) and the stream to the client          *)
(* (Streaming).  Each takes the others' data as given, so a behaviour runs   *)
(* one of them and leaves the others at rest.                                *)
EXTENDS MCStreaming, Translators, Exchange, Guardrails, TLC

CONSTANTS r1, r2

VARIABLE part

-----------------------------------------------------------------------------
(* Exchange: two histories, the shorter answered with two choices, the       *)
(* longer with all kinds of content and a tool call of its own, through      *)
(* every adapter and both doors, and every other operation.                  *)

Txt(x) == [kind |-> "text", text |-> x]
Msg(role, parts) == [role |-> role, content |-> parts, calls |-> <<>>, call_id |-> None]
Short == <<Msg("user", <<Txt("a")>>)>>
Long == <<Msg("system", <<Txt("s")>>), Msg("user", <<Txt("a"), [kind |-> "data", src |-> "i"]>>),
          Msg("assistant", <<Txt("b")>>), Msg("system", <<Txt("t")>>),
          Msg("user", <<[kind |-> "url", src |-> "j"]>>),
          [Msg("assistant", None) EXCEPT !.calls = <<[id |-> <<0, 0, "lookup">>, name |-> "lookup"]>>],
          [Msg("tool", <<Txt("r")>>) EXCEPT !.call_id = <<0, 0, "lookup">>]>>
ChatAsks ==
    UNION {[messages : {h.messages}, options : {h.options},
            tools : {None, <<"lookup">>, <<"web_search", "fs__read">>},
            format : h.formats, stream : BOOLEAN]
              : h \in {[messages |-> Short, options |-> {"n"}, formats |-> {"none", "schema"}],
                       [messages |-> Long, options |-> {"seed"}, formats |-> {"none", "bare_schema"}]}}
MessagesAsks ==
    [system : {None, "s"}, messages : {<<[role |-> "user", content |-> "a"], [role |-> "assistant", content |-> "b"]>>},
     options : {{}}, tools : {None, <<"lookup">>}, stream : BOOLEAN]
Deal(adapter, door, ask, searxng) ==
    [adapter |-> adapter, door |-> door, ask |-> ask, searxng |-> searxng, mcp |-> <<"fs__read">>]
MCDeals ==
    {Deal(a, "chat", q, x) : a \in AdapterNames, q \in ChatAsks, x \in BOOLEAN}
    \union {Deal(a, "messages", q, FALSE) : a \in AdapterNames, q \in MessagesAsks}
    \union {Deal(a, op, [units |-> 2, mime |-> m], FALSE) : a \in AdapterNames, op \in Operations, m \in BOOLEAN}
MCPricing == [input |-> 1, output |-> 2, image |-> 5, character |-> 1, second |-> 1]

-----------------------------------------------------------------------------
(* Translators: the choices of a payload.                                    *)

Choice(text, calls_, finish) == [text |-> text, calls |-> calls_, finish |-> finish]
MCChoices == {Choice("a", <<>>, "none"), Choice(NoText, <<"c">>, "none"), Choice(NoText, <<>>, "stop"),
              Choice("b", <<>>, "stop"), Choice(NoText, <<>>, "")}

-----------------------------------------------------------------------------
(* Guardrails: texts in which personal data repeats, touches and alternates. *)

Turn(ps) == [text |-> Flat(ps), other |-> FALSE]
Plain(n) == Piece("plain", n, 2)
Ssn(n) == Piece("ssn", n, 11)
Card(n) == Piece("card", n, 16)
Email(n) == Piece("email", n, 6)
MCConversations ==
    { <<Turn(<<Plain(1), Ssn(1), Plain(2), Ssn(2), Email(1), Plain(3), Email(2)>>)>>,
      <<Turn(<<Ssn(1), Plain(1)>>), [text |-> NoMask, other |-> TRUE],
        Turn(<<Plain(2), Card(1), Plain(3), Email(1)>>)>>,
      <<[Turn(<<Plain(1), Ssn(1)>>) EXCEPT !.other = TRUE], Turn(<<>>)>> }
Config(pii, pre, post, block) ==
    [pii_enabled |-> pii, moderation_pre |-> pre, moderation_post |-> post, block_on_moderation_failure |-> block]
MCConfigs == {Config(TRUE, TRUE, TRUE, TRUE), Config(TRUE, FALSE, TRUE, FALSE), Config(TRUE, TRUE, FALSE, FALSE),
              Config(FALSE, FALSE, FALSE, FALSE)}
MCPatterns == <<"ssn", "card", "email", "phone">>
MCPlaceholder == [ssn |-> 5, card |-> 6, email |-> 7, phone |-> 7]

-----------------------------------------------------------------------------
ExchangeInit ==
    /\ part \in {"stream", "translate", "exchange", "guard"}
    /\ IF part = "stream" THEN setup \in Setups ELSE setup = CHOOSE s \in Setups : TRUE
    /\ IF part = "translate" THEN dialect \in Dialects ELSE dialect = "openai"
    /\ IF part = "exchange" THEN deal \in Deals ELSE deal = CHOOSE d \in Deals : TRUE
    /\ IF part = "guard" THEN TRUE
       ELSE /\ config = CHOOSE c \in Configs : TRUE
            /\ screening = [r \in Screened |->
                   LET c == CHOOSE c \in Conversations : TRUE
                   IN [pc |-> "idle", tools |-> FALSE, sent |-> c, was |-> c, reply |-> NoMask]]
    /\ StreamInit /\ TInit /\ XInit /\ GInit
ExchangeNext ==
    \/ part = "stream" /\ StreamNext /\ UNCHANGED <<tvars, xvars, gvars, part>>
    \/ part = "translate" /\ TNext /\ UNCHANGED <<stream_vars, xvars, gvars, part>>
    \/ part = "exchange" /\ XNext /\ UNCHANGED <<stream_vars, tvars, gvars, part>>
    \/ part = "guard" /\ GNext /\ UNCHANGED <<stream_vars, tvars, xvars, part>>
ExchangeSpec == ExchangeInit /\ [][ExchangeNext]_<<stream_vars, tvars, xvars, gvars, part>>
=============================================================================
