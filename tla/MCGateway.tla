------------------------------ MODULE MCGateway -----------------------------
(* What a request is routed through: the proxy's routing and fallbacks       *)
(* (Proxy), the endpoints that only forward (Fallbacks) and the cache of     *)
(* answers (PromptCache).  They share no state: a behaviour runs one of them *)
(* and leaves the others at rest.                                            *)
EXTENDS MCProxy, Fallbacks, PromptCache

VARIABLE part

-----------------------------------------------------------------------------
(* Fallbacks: lists of providers with incomplete entries, and without any.   *)

Provider(name, base_url, model) == [name |-> name, base_url |-> base_url, model |-> model]
MCListed ==
    [none |-> <<>>,
     some |-> <<Provider(TRUE, TRUE, ""), Provider(TRUE, TRUE, "a"), Provider(FALSE, TRUE, "b"),
                Provider(TRUE, FALSE, "c"), Provider(TRUE, TRUE, "d")>>]
MCUpstreams == [ok : BOOLEAN, object : BOOLEAN, id : BOOLEAN, model : BOOLEAN, results : BOOLEAN]
MCBackends == [known |-> "provider-id"]

-----------------------------------------------------------------------------
(* PromptCache: one entry, two shards, a name that resolves to two models.   *)

MCServing(ref) == IF ref = "gpt" THEN {"gpt"} ELSE {"gpt", "big"}
MCShard(k) == IF k.model = "big" THEN 2 ELSE 1
ChatAsk(model, max_tokens, stream, rest) ==
    [model |-> model, messages |-> "x", temperature |-> Unset, max_tokens |-> max_tokens,
     response_format |-> Unset, stream |-> stream, rest |-> rest]
MCAsks == {ChatAsk("gpt", Unset, FALSE, 0), ChatAsk("gpt", 5, FALSE, 0), ChatAsk("fast", Unset, FALSE, 1),
           ChatAsk("gpt", Unset, TRUE, 0)}

-----------------------------------------------------------------------------
GatewayInit ==
    /\ part \in {"proxy", "forward", "cache"}
    /\ Init /\ FInit /\ PInit
GatewayNext ==
    \/ part = "proxy" /\ Next /\ UNCHANGED <<fvars, pvars, part>>
    \/ part = "forward" /\ FNext /\ UNCHANGED <<vars, pvars, part>>
    \/ part = "cache" /\ PNext /\ UNCHANGED <<vars, fvars, part>>
GatewaySpec == GatewayInit /\ [][GatewayNext]_<<vars, fvars, pvars, part>>
=============================================================================
