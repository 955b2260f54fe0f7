----------------------------- MODULE Fallbacks ------------------------------
(***************************************************************************)
(* The endpoints without an adapter method of their own.  /v1/moderations  *)
(* and /v1/rerank walk a chain of providers, each under a timeout, and     *)
(* return the first answer that is a success; /v1/batches resolves a model *)
(* and forwards to its backend.  A behaviour is one request.               *)
(*                                                                         *)
(* An answer of an upstream is [ok, object, id, model, results]: its status*)
(* is a success, its body is a JSON object, and the members it has.        *)
(***************************************************************************)
EXTENDS Integers, Sequences, SequencesExt

CONSTANTS
    Listed,       \* the lists of providers that a configuration can hold, by name
    Upstreams,    \* what upstreams answer
    Backends,     \* model references and the provider_model_id they resolve to
    Named,        \* model references that clients write
    Default       \* the name under which a member that is absent is filled in

VARIABLES
    endpoint,     \* the handler
    asked,        \* the model reference of the request
    providers,    \* the chain, or the one backend
    called,       \* history: the models asked for, in order
    heard,        \* history: how each call ended
    reply         \* <<>>, or what the client gets

fvars == <<endpoint, asked, providers, called, heard, reply>>

----------------------------------------------------------------------------
(* Configuration.                                                          *)

moderation_default == <<"text-moderation-latest", "text-moderation-latest", "moderation-model">>
rerank_default == <<"rerank-english-v3.0", "rerank-model", "rerank-model">>

\* An entry without a name, a base_url or a model is dropped, not refused; the default
\* chain stands in only where the list is absent.
Whole(e) == e.name /\ e.base_url /\ e.model # ""
Models(s) == LET kept == SelectSeq(s, Whole) IN [i \in 1..Len(kept) |-> kept[i].model]
moderation_from_config_value(c) == IF c = "absent" THEN moderation_default ELSE Models(Listed[c])
rerank_from_config_value(c) == IF c = "absent" THEN rerank_default ELSE Models(Listed[c])

----------------------------------------------------------------------------
(* Conversions.                                                            *)

moderation_normalize_response(a) ==
    IF a.object THEN [id |-> IF a.id THEN "own" ELSE Default, model |-> IF a.model THEN "own" ELSE Default,
                      results |-> IF a.results THEN "own" ELSE "empty"]
    ELSE [verbatim |-> a]
rerank_normalize_response(a) ==
    IF a.object THEN [id |-> IF a.id THEN "own" ELSE Default, model |-> IF a.model THEN "own" ELSE Default,
                      results |-> IF a.results THEN "own" ELSE "empty"]
    ELSE [verbatim |-> a]

Normalized(e, a) ==
    CASE e = "moderations" -> moderation_normalize_response(a)
      [] e = "rerank" -> rerank_normalize_response(a)
      [] OTHER -> [verbatim |-> a]

----------------------------------------------------------------------------
(* The handlers.                                                           *)

Chained == {"moderations", "rerank"}

FInit ==
    /\ endpoint = "none" /\ asked = "" /\ providers = <<>>
    /\ called = <<>> /\ heard = <<>> /\ reply = <<>>

AwaitsUpstream == endpoint # "none" /\ reply = <<>> /\ Len(called) > Len(heard)
Refuse(status) == reply' = <<[status |-> status]>>
\* The next provider is asked for its own model, whatever the client named.
call_provider(chain, n) == called' = Append(called, chain[n])

\* execute.  A chain that is empty fails without a call.
Walk(e, ref, chain) ==
    /\ endpoint = "none"
    /\ endpoint' = e /\ asked' = ref /\ providers' = chain
    /\ IF chain = <<>> THEN Refuse("provider") /\ UNCHANGED called
       ELSE call_provider(chain, 1) /\ UNCHANGED reply
    /\ UNCHANGED heard

\* extract_model: the reference must be there, though nothing is done with it.
Unnamed(e) ==
    /\ endpoint = "none"
    /\ endpoint' = e /\ Refuse("bad request")
    /\ UNCHANGED <<asked, providers, called, heard>>

\* The endpoints use the default chain; a chain of the configuration is there for
\* callers of the library.
moderations(ref) == IF ref = "" THEN Unnamed("moderations") ELSE Walk("moderations", ref, moderation_default)
rerank(ref) == IF ref = "" THEN Unnamed("rerank") ELSE Walk("rerank", ref, rerank_default)
execute(c) ==
    \/ Walk("moderations", "", moderation_from_config_value(c))
    \/ Walk("rerank", "", rerank_from_config_value(c))

\* forward_openai_passthrough resolves the reference; the body, where there is one, is
\* sent with the id that the provider knows.
Forward(e, ref) ==
    /\ endpoint = "none"
    /\ endpoint' = e /\ asked' = ref
    /\ IF ref \in DOMAIN Backends
       THEN providers' = <<Backends[ref]>> /\ call_provider(providers', 1) /\ UNCHANGED reply
       ELSE Refuse("not found") /\ UNCHANGED <<providers, called>>
    /\ UNCHANGED heard
create_batch(ref) == IF ref = "" THEN Unnamed("create_batch") ELSE Forward("create_batch", ref)
list_batches(ref) == Forward("list_batches", ref)
get_batch(ref) == Forward("get_batch", ref)
\* Routed without an id in the path, which its extractor asks for: refused at once.
delete_batch(ref) ==
    /\ endpoint = "none"
    /\ endpoint' = "delete_batch" /\ asked' = ref /\ Refuse("missing path parameter")
    /\ UNCHANGED <<providers, called, heard>>
cancel_batch(ref) == Forward("cancel_batch", ref)
get_batch_results(ref) == Forward("get_batch_results", ref)

\* The status is a success and the body is JSON, of any shape.
Acceptable(a) == a.ok

\* Mutant: a timeout ends the walk.
NextProvider_timeout(why) ==
    IF Len(heard') < Len(providers) /\ why # "timeout"
    THEN call_provider(providers, Len(heard') + 1) /\ UNCHANGED reply
    ELSE Refuse(why) /\ UNCHANGED called
\* The next provider, or the last error.
NextProvider(why) ==
    IF Len(heard') < Len(providers) THEN call_provider(providers, Len(heard') + 1) /\ UNCHANGED reply
    ELSE Refuse(why) /\ UNCHANGED called

UpstreamAnswers(a) ==
    /\ AwaitsUpstream
    /\ IF Acceptable(a)
       THEN /\ heard' = Append(heard, "success")
            /\ reply' = <<[status |-> "ok", body |-> Normalized(endpoint, a)]>>
            /\ UNCHANGED called
       ELSE /\ heard' = Append(heard, "failure") /\ NextProvider("failure")
    /\ UNCHANGED <<endpoint, asked, providers>>

\* Only the chains set a time limit.  What a provider answers later reaches nobody.
TimesOut ==
    /\ AwaitsUpstream /\ endpoint \in Chained
    /\ heard' = Append(heard, "timeout") /\ NextProvider("timeout")
    /\ UNCHANGED <<endpoint, asked, providers>>

FNext ==
    \/ \E c \in DOMAIN Listed \union {"absent"} : execute(c)
    \/ \E ref \in Named :
          moderations(ref) \/ rerank(ref)
          \/ create_batch(ref) \/ list_batches(ref) \/ get_batch(ref) \/ delete_batch(ref)
          \/ cancel_batch(ref) \/ get_batch_results(ref)
    \/ \E a \in Upstreams : UpstreamAnswers(a)
    \/ TimesOut

FSpec == FInit /\ [][FNext]_fvars

----------------------------------------------------------------------------
(* Properties.                                                             *)

\* The answer is that of the first provider that gave one: every earlier one failed or
\* ran out of time and no later one was asked; an error is returned only after every
\* provider of the chain had its turn (execute).  Which error is not claimed: the code
\* returns the last provider's as a 500, where moderation-rerank-batch.md has a 503
\* "All moderation providers failed".
FirstAnswerWins ==
    /\ called = SubSeq(providers, 1, Len(called))
    /\ \A i \in 1..Len(heard) : heard[i] = "success" => i = Len(heard) /\ reply[1].status = "ok"
    /\ reply # <<>> /\ called # <<>> /\ reply[1].status # "ok" =>
          called = providers /\ Len(heard) = Len(providers)
============================================================================
