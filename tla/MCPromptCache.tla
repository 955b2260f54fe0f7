--------------------------- MODULE MCPromptCache ----------------------------
(* The prompt cache alone: two chats, one entry, two shards.               *)
EXTENDS PromptCache

MCServing(ref) == {"gpt", "big"}
MCShard(k) == IF k.model = "big" THEN 2 ELSE 1
MCAsks == {[model |-> m, messages |-> "x", temperature |-> Unset, max_tokens |-> Unset,
            response_format |-> Unset, stream |-> FALSE, rest |-> 0] : m \in {"gpt", "big"}}
=============================================================================
