------------------------------- MODULE Proxy -------------------------------
(***************************************************************************)
(* The request pipeline of godwit-api: how a handler resolves a model       *)
(* reference to a deployment (a row of `models`), counts itself in the load *)
(* balancer's in-flight counter, passes the admission checks, calls the     *)
(* provider with retries, falls back along the model's chain and logs the   *)
(* answer.  Steps are the stretches between two awaits, so requests         *)
(* interleave wherever the handlers suspend, and a client that hangs up     *)
(* drops the handler at any of these points.                                *)
(*                                                                          *)
(* Kinds of request:                                                        *)
(*   "media"     embeddings, images, speech, transcriptions, image edits;   *)
(*   "messages"  the Anthropic endpoint /v1/messages;                       *)
(*   "chat"      /v1/chat/completions without tools, or streamed;           *)
(*   "tools"     /v1/chat/completions with tools, not streamed.             *)
(*                                                                          *)
(* The verdicts of the rate limiter, of the budget checks and of the        *)
(* guardrails are nondeterministic here; modules of their own model them.   *)
(***************************************************************************)
EXTENDS Integers, Sequences, FiniteSets

CONSTANTS
    Requests,        \* handler tasks
    Kinds,           \* the kinds of request that arrive
    Refs,            \* model references a request or a fallback list can name
    Asked,           \* the references that clients ask for
    Prefixed,        \* the references of the form "profile/model"
    Deployments,     \* rows of `models`, and the wildcard models made on the fly
    Wildcards,       \* deployments with the nil id: never counted
    Candidates,      \* Candidates[ref]: the rows with that public id, in order
    Strategy,        \* Strategy[ref]: load_balance of the first candidate
    Fallbacks,       \* Fallbacks[ref]: the "fallbacks" of the model's config
    Incapable,       \* deployments without the requested capability
    Broken,          \* deployments whose credentials or protocol do not resolve
    Togglable,       \* deployments whose profile an admin enables and disables
    Outcomes,        \* what a provider call can end in
    Denials,         \* the checks that can refuse
    MaxRetries,      \* RetryPolicy::max_retries
    MaxIterations,   \* AgenticLoop::max_iterations
    MaxCancels,      \* bound: clients that hang up
    Stalls,          \* whether the services awaited without a timeout may stall
    None

\* Provider errors by what the code tells apart: with_retry repeats "transient"
\* (429, 502, 503, 504) and "transport" (status 0: refused, reset or timed out);
\* "server" is any other 5xx, "timed_out" an error without a status whose text says
\* so (a query that got no connection in time), and "client" any other failure.
Errors == {"transient", "transport", "server", "timed_out", "client"}

Counted == Deployments \ Wildcards

ASSUME ProxyAssumption ==
    /\ Kinds \subseteq {"media", "messages", "chat", "tools"}
    /\ Prefixed \subseteq Refs /\ Asked \subseteq Refs
    /\ Wildcards \subseteq Deployments /\ None \notin Deployments
    /\ Wildcards \cap Incapable = {}
    /\ \A ref \in Refs : \A i \in DOMAIN Candidates[ref] :
          Candidates[ref][i] \in Wildcards => ref \in Prefixed /\ Fallbacks[ref] = <<>>
    /\ Candidates \in [Refs -> Seq(Deployments)]
    /\ \A ref \in Prefixed : Len(Candidates[ref]) = 1
    /\ Strategy \in [Refs -> {"round_robin", "least_busy", "latency"}]
    /\ Fallbacks \in [Refs -> Seq(Refs)]
    /\ Outcomes \subseteq Errors \cup {"ok"}
    /\ Denials \subseteq {"limit", "budget", "guardrails"}
    /\ MaxRetries \in Nat /\ MaxIterations \in Nat \ {0}
    /\ MaxCancels \in Nat /\ Stalls \in BOOLEAN

VARIABLES
    enabled,     \* deployments whose provider profile is enabled
    rr_index,    \* round-robin position per reference, modulo its candidates
    in_flight,   \* the load balancer's counter per deployment
    active,      \* the ACTIVE_REQUESTS gauge
    task,        \* the locals of every handler
    stalled,     \* a service that is awaited without a timeout does not answer
    cancels,     \* clients that hung up so far
    leaks        \* hang-ups that happened between increment and decrement_active

vars == <<enabled, rr_index, in_flight, active, task, stalled, cancels, leaks>>

\* The locals of a handler.  `first` is the model resolved as the primary and
\* `chosen` the model of the latest resolve; `primary` and `attempt` are the
\* InFlightGuards that the two ResolvedModels hold; `pos` is 0 while the primary
\* is used and the index into the chain afterwards; `last` is last_err.
Idle == [pc |-> "idle", kind |-> "none", ref |-> None, streamed |-> FALSE,
         pos |-> 0, first |-> None, chosen |-> None, primary |-> None,
         attempt |-> None, tries |-> 0, round |-> 0, last |-> "none",
         limited |-> FALSE, passed |-> {}, outcome |-> "none", log |-> None]

Init ==
    /\ enabled = Deployments
    /\ rr_index = [ref \in Refs |-> 0]
    /\ in_flight = [d \in Deployments |-> 0]
    /\ active = 0
    /\ task = [r \in Requests |-> Idle]
    /\ stalled = FALSE
    /\ cancels = 0
    /\ leaks = 0

----------------------------------------------------------------------------
(* Names, chains and guards *)

\* The references tried after the primary resolve.  The chat path resolves its
\* own reference a second time, and looks its fallbacks up by public id, which
\* finds nothing for a prefixed reference; a chat with tools has no chain.
Chain(t) ==
    IF t.kind \in {"media", "messages"} THEN Fallbacks[t.ref]
    ELSE IF t.kind = "chat"
    THEN <<t.ref>> \o (IF t.ref \in Prefixed THEN <<>> ELSE Fallbacks[t.ref])
    ELSE <<>>

Target(t) == IF t.pos = 0 THEN t.ref ELSE Chain(t)[t.pos]

\* increment_in_flight, and the drop of the guard it returns: `counter` with the
\* count of d moved by n.  A wildcard model holds no guard.
Count(counter, d, n) ==
    IF d \in Counted THEN [counter EXCEPT ![d] = @ + n] ELSE counter

\* The indices select_provider may return for a reference.
Selectable(ref) ==
    LET cs == Candidates[ref] IN
    IF Len(cs) = 1 THEN {1}
    ELSE IF Strategy[ref] = "round_robin" THEN {rr_index[ref] + 1}
    ELSE IF Strategy[ref] = "latency" THEN DOMAIN cs
    ELSE {i \in DOMAIN cs :
            \A j \in DOMAIN cs :
                /\ in_flight[cs[i]] <= in_flight[cs[j]]
                /\ j < i => in_flight[cs[i]] < in_flight[cs[j]]}

\* with_retry repeats the call.
Retried(e, tries) == e \in {"transient", "transport"} /\ tries < MaxRetries

\* Mutant: the second attempt starts the count again.
NextTryResets(tries) == IF tries = 0 THEN 1 ELSE 0

\* The loop variable of with_retry.
NextTry(tries) == tries + 1

\* is_retryable_error of fallback.rs: status >= 500 or 429, or a text that says so.
is_retryable_error(e) == e \in {"transient", "server", "timed_out"}

\* check_rate_limit is asked before a call for these kinds at every position.
LimitsEveryAttempt(kind) == kind \in {"media", "messages"}

\* What follows a successful resolve.
AfterAcquire(t) ==
    IF t.pos = 0 \/ LimitsEveryAttempt(t.kind) THEN "limit" ELSE "call"


\* Is there a reference of the chain left to try?
HasNext(t) == t.pos < Len(Chain(t))

----------------------------------------------------------------------------
(* Ends of a handler *)

\* Mutant: only the primary's guard is dropped.
LeaveForgets(r, t, dec) ==
    /\ in_flight' = Count(in_flight, task[r].primary, -1)
    /\ active' = active - dec
    /\ task' = [task EXCEPT ![r] = [t EXCEPT !.primary = None, !.attempt = None]]

\* The handler returns or is dropped: the locals go, and with them the guards;
\* `dec` is how often the path calls decrement_active.
Leave(r, t, dec) ==
    /\ in_flight' = Count(Count(in_flight, task[r].primary, -1), task[r].attempt, -1)
    /\ active' = active - dec
    /\ task' = [task EXCEPT ![r] = [t EXCEPT !.primary = None, !.attempt = None]]

Fail(r, outcome, dec) ==
    Leave(r, [task[r] EXCEPT !.pc = "done", !.outcome = outcome], dec)

\* What the log entry says: the deployment in its provider_model_id, and
\* fallback_triggered.
LogEntry(t) ==
    [deployment |-> IF t.kind = "chat" \/ (t.kind = "messages" /\ t.streamed)
                    THEN t.first ELSE t.chosen,
     fallback   |-> t.kind = "chat" /\ t.pos > 1]

\* The answer is returned: the entry is handed to spawn_request_log, and a
\* stream goes on after the handler and its guards are gone.
Answer(r, dec) ==
    LET t == task[r] IN
    Leave(r, [t EXCEPT !.pc = IF t.streamed THEN "streaming" ELSE "done",
                       !.outcome = "ok", !.log = LogEntry(t)], dec)

\* Mutant: the fallbacks are tried with the primary's guard held.
ReleasedNever(t) == None

\* The primary's guard, where the handler drops it before its fallbacks.
Released(t) == IF t.kind = "chat" THEN None ELSE t.primary

\* The loop over the chain: the guard of the failed attempt is dropped (that of
\* the primary too, unless the handler is a chat, which keeps it), and the next
\* reference is resolved; past the end the handler fails, with the rate-limit
\* error if a fallback was refused.
NextFallback(r, t, dec) ==
    IF HasNext(t)
    THEN /\ in_flight' = Count(Count(in_flight, Released(t), -1), t.attempt, -1)
         /\ task' = [task EXCEPT ![r] =
                        [t EXCEPT !.pc = "select", !.pos = @ + 1, !.tries = 0,
                                  !.primary = IF Released(t) = @ THEN None ELSE @,
                                  !.attempt = None,
                                  !.passed = IF LimitsEveryAttempt(t.kind)
                                             THEN @ \ {"limit"} ELSE @]]
         /\ active' = active
    ELSE Leave(r, [t EXCEPT !.pc = "done",
                            !.outcome = IF t.limited THEN "limited" ELSE "failed"],
               dec)

\* resolve returns an error: the primary's is returned, a fallback's makes the loops of
\* the media and Anthropic handlers go on, and a chat's is judged like a provider's.
ResolveFails(r, e) ==
    LET t == task[r] IN
    IF t.pos = 0 THEN Fail(r, "refused", 0)
    ELSE IF t.kind # "chat" THEN NextFallback(r, t, 0)
    ELSE IF is_retryable_error(e) THEN NextFallback(r, [t EXCEPT !.last = e], 1)
    ELSE Leave(r, [t EXCEPT !.pc = "done", !.last = e, !.outcome = "failed"], 1)

\* A query of resolve gets no connection in time.
QueryTimesOut(r) == "timed_out" \in Outcomes /\ ResolveFails(r, "timed_out")

----------------------------------------------------------------------------
(* Steps of a handler *)

\* A request for a reference reaches its handler.
Arrive(r, kind, streamed) ==
    /\ task[r].pc \in {"idle", "done"}
    /\ kind \in Kinds
    /\ \E ref \in Asked :
        task' = [task EXCEPT ![r] =
                   [Idle EXCEPT !.pc = "select", !.kind = kind, !.ref = ref,
                                !.streamed = streamed]]
    /\ UNCHANGED <<enabled, rr_index, in_flight, active, stalled, cancels, leaks>>

\* The five media handlers are the same control around another capability and
\* another method of the adapter; after Arrive they take the steps below.
embeddings(r) == Arrive(r, "media", FALSE)
image_generations(r) == Arrive(r, "media", FALSE)
audio_speech(r) == Arrive(r, "media", FALSE)
audio_transcriptions(r) == Arrive(r, "media", FALSE)
image_edits(r) == Arrive(r, "media", FALSE)

\* /v1/chat/completions: with tools and not streamed the agentic loop runs,
\* otherwise the fallback chain.
chat_completions(r) ==
    \/ Arrive(r, "tools", FALSE)
    \/ \E streamed \in BOOLEAN : Arrive(r, "chat", streamed)

\* /v1/messages.
messages(r) == \E streamed \in BOOLEAN : Arrive(r, "messages", streamed)

Handler(r) ==
    \/ embeddings(r) \/ image_generations(r) \/ audio_speech(r)
    \/ audio_transcriptions(r) \/ image_edits(r)
    \/ chat_completions(r) \/ messages(r)

\* resolve, up to its second query: a prefixed reference names its profile, whose
\* `enabled` is read here; a bare one lists the rows and selects one of them.
Select(r) ==
    LET t  == task[r]
        cs == Candidates[Target(t)]
    IN
    /\ t.pc = "select" /\ ~stalled
    /\ \/ /\ \/ cs = <<>>
             \/ Target(t) \in Prefixed /\ cs[1] \notin enabled
          /\ ResolveFails(r, "client")
          /\ UNCHANGED rr_index
       \/ QueryTimesOut(r) /\ UNCHANGED rr_index
       \/ /\ cs # <<>>
          /\ Target(t) \in Prefixed => cs[1] \in enabled
          /\ \E i \in Selectable(Target(t)) :
                task' = [task EXCEPT ![r].pc = "acquire", ![r].chosen = cs[i]]
          /\ rr_index' =
               IF Len(cs) > 1 /\ Strategy[Target(t)] = "round_robin"
               THEN [rr_index EXCEPT ![Target(t)] = (@ + 1) % Len(cs)]
               ELSE rr_index
          /\ UNCHANGED <<in_flight, active>>
    /\ UNCHANGED <<enabled, stalled, cancels, leaks>>

\* resolve, from the answer of its second query: the profile is enabled, the model
\* capable, and the guard is taken.
Acquire(r) ==
    LET t == task[r]
        d == t.chosen
        refused == \/ Target(t) \notin Prefixed /\ d \notin enabled
                   \/ d \in Incapable
        guard == IF d \in Counted THEN d ELSE None
        held == IF t.pos = 0
                THEN [t EXCEPT !.first = d, !.primary = guard]
                ELSE [t EXCEPT !.attempt = guard]
    IN
    /\ t.pc = "acquire" /\ ~stalled
    /\ \/ refused /\ ResolveFails(r, "client")
       \/ QueryTimesOut(r)
       \/ /\ ~refused
          /\ in_flight' = Count(in_flight, d, 1)
          /\ task' = [task EXCEPT ![r] = [held EXCEPT !.pc = "credentials"]]
          /\ UNCHANGED active
    /\ UNCHANGED <<enabled, rr_index, stalled, cancels, leaks>>

\* The rest of resolve, with the guard held and without an await: the credentials are
\* decrypted and the adapter looked up; an early return drops the guard.
resolve_credentials(r) ==
    LET t == task[r] IN
    /\ t.pc = "credentials"
    /\ \/ t.chosen \in Broken /\ ResolveFails(r, "client")
       \/ /\ t.chosen \notin Broken
          /\ task' = [task EXCEPT ![r].pc = AfterAcquire(t)]
          /\ UNCHANGED <<in_flight, active>>
    /\ UNCHANGED <<enabled, rr_index, stalled, cancels, leaks>>

\* check_rate_limit: the primary is refused, a refused fallback is skipped.  The
\* Anthropic handler goes on to its call, the others to the budgets.
RateLimit(r) ==
    LET t == task[r]
        admitted == [t EXCEPT !.passed = @ \cup {"limit"}]
    IN
    /\ t.pc = "limit" /\ ~stalled
    /\ \/ /\ "limit" \in Denials
          /\ IF t.pos = 0 THEN Fail(r, "limited", 0)
             ELSE NextFallback(r, [t EXCEPT !.limited = TRUE], 0)
       \/ /\ task' = [task EXCEPT ![r] =
                        [admitted EXCEPT !.pc = IF t.pos > 0 \/ t.kind = "messages"
                                                THEN "call" ELSE "budget"]]
          /\ UNCHANGED <<in_flight, active>>
    /\ UNCHANGED <<enabled, rr_index, stalled, cancels, leaks>>

\* check_user_budget and check_team_budget.
Budget(r) ==
    LET t == task[r] IN
    /\ t.pc = "budget" /\ ~stalled
    /\ \/ "budget" \in Denials /\ Fail(r, "refused", 0)
       \/ /\ task' = [task EXCEPT
                        ![r].pc = IF t.kind = "media" THEN "call" ELSE "guardrails",
                        ![r].passed = @ \cup {"budget"}]
          /\ UNCHANGED <<in_flight, active>>
    /\ UNCHANGED <<enabled, rr_index, stalled, cancels, leaks>>

\* guardrails.pre_call; what it refuses is counted in the gauge and out again.
\* A chat then reads its chain and starts over with resolve, a chat with tools
\* calls the primary.
PreCall(r) ==
    LET t == task[r]
        allowed == [t EXCEPT !.passed = @ \cup {"guardrails"}]
    IN
    /\ t.pc = "guardrails" /\ ~stalled
    /\ \/ "guardrails" \in Denials /\ Fail(r, "refused", 0)
       \/ /\ active' = active + 1
          /\ task' = [task EXCEPT ![r] =
                        IF t.kind = "chat"
                        THEN [allowed EXCEPT !.pc = "select", !.pos = 1]
                        ELSE [allowed EXCEPT !.pc = "call"]]
          /\ UNCHANGED in_flight
    /\ UNCHANGED <<enabled, rr_index, stalled, cancels, leaks>>

\* Mutant: the error path of the agentic loop forgets the gauge.
DecrementsChatOnly(kind) == IF kind = "chat" THEN 1 ELSE 0

\* decrement_active is called on the way out of the two chat paths only.
Decrements(kind) == IF kind \in {"chat", "tools"} THEN 1 ELSE 0

\* The provider answers with a result.
CallSucceeds(r) ==
    LET t == task[r] IN
    /\ t.kind # "tools"
    /\ Answer(r, Decrements(t.kind))

\* A round of AgenticLoop::execute ends: with an answer, which post_call may
\* block; with tool calls, whose results open another round; or past the limit.
RoundEnds(r) ==
    LET t == task[r] IN
    /\ t.kind = "tools" /\ ~stalled
    /\ \/ Answer(r, 1)
       \/ "guardrails" \in Denials /\ Fail(r, "refused", 1)
       \/ IF t.round + 1 < MaxIterations
          THEN /\ task' = [task EXCEPT ![r].round = @ + 1, ![r].tries = 0]
               /\ UNCHANGED <<in_flight, active>>
          ELSE Fail(r, "failed", 1)

\* The provider call fails for good: the media and Anthropic handlers go to the
\* next fallback whatever the error, a chat only on is_retryable_error.
CallFails(r, e) ==
    LET t == [task[r] EXCEPT !.last = e] IN
    IF LimitsEveryAttempt(t.kind) \/ (t.kind = "chat" /\ is_retryable_error(e))
    THEN NextFallback(r, t, Decrements(t.kind))
    ELSE Leave(r, [t EXCEPT !.pc = "done", !.outcome = "failed"], Decrements(t.kind))

\* One try of with_retry around the adapter's call.  The agentic loop's timeout
\* around a round is a transport error that is not tried again.
Call(r) ==
    LET t == task[r] IN
    /\ t.pc = "call"
    /\ \/ "ok" \in Outcomes /\ (CallSucceeds(r) \/ RoundEnds(r))
       \/ \E e \in Outcomes \ {"ok"} :
            \/ /\ Retried(e, t.tries)
               /\ task' = [task EXCEPT ![r].tries = NextTry(@)]
               /\ UNCHANGED <<in_flight, active>>
            \/ /\ \/ ~Retried(e, t.tries)
                  \/ t.kind = "tools" /\ e = "transport"
               /\ CallFails(r, e)
    /\ UNCHANGED <<enabled, rr_index, stalled, cancels, leaks>>

\* The body of a streamed answer ends; it is read at the pace of the client.
StreamEnds(r) ==
    /\ task[r].pc = "streaming"
    /\ task' = [task EXCEPT ![r].pc = "done"]
    /\ UNCHANGED <<enabled, rr_index, in_flight, active, stalled, cancels, leaks>>

\* Does the handler stand between increment_active and decrement_active?
Gauged(t) == t.pc \in {"select", "acquire", "credentials", "call"} /\ "guardrails" \in t.passed

\* The client hangs up while the handler waits: the future is dropped, and its
\* guards with it, but nothing calls decrement_active.
Cancel(r) ==
    /\ task[r].pc \notin {"idle", "credentials", "done"}
    /\ cancels < MaxCancels
    /\ cancels' = cancels + 1
    /\ Leave(r, [task[r] EXCEPT !.pc = "done", !.outcome = "cancelled"], 0)
    /\ leaks' = leaks + (IF Gauged(task[r]) THEN 1 ELSE 0)
    /\ UNCHANGED <<enabled, rr_index, stalled>>

\* An administrator enables or disables a provider profile.
SetEnabled(d) ==
    /\ d \in Togglable
    /\ enabled' = IF d \in enabled THEN enabled \ {d} ELSE enabled \cup {d}
    /\ UNCHANGED <<rr_index, in_flight, active, task, stalled, cancels, leaks>>

\* The database, the moderation service of the guardrails (awaited under their mutex) and
\* the MCP servers (awaited in all_tools and in the tool calls of a round) are awaited
\* without a timeout; one of them stops or starts again to answer.
Stall ==
    /\ Stalls
    /\ stalled' = ~stalled
    /\ UNCHANGED <<enabled, rr_index, in_flight, active, task, cancels, leaks>>

Step(r) ==
    \/ Select(r) \/ Acquire(r) \/ resolve_credentials(r)
    \/ RateLimit(r) \/ Budget(r) \/ PreCall(r) \/ Call(r)

Next ==
    \/ \E r \in Requests : Handler(r) \/ Step(r) \/ StreamEnds(r) \/ Cancel(r)
    \/ \E d \in Deployments : SetEnabled(d)
    \/ Stall

\* tokio polls a handler that can go on, and the clients of the providers have a timeout.
\* Nothing is assumed of the services that can stall, nor of who reads a stream.
Fairness == \A r \in Requests : WF_vars(Step(r))

Spec == Init /\ [][Next]_vars /\ Fairness

----------------------------------------------------------------------------
(* Properties *)

\* InFlightGuard: at every await the in-flight counter of a deployment is the
\* number of guards that living handlers hold on it, through every error path,
\* fallback and hang-up; a handler that is gone holds none.
InFlightExact ==
    /\ \A d \in Counted :
        in_flight[d] = Cardinality({r \in Requests : task[r].primary = d})
                       + Cardinality({r \in Requests : task[r].attempt = d})
    /\ \A r \in Requests :
        task[r].pc \in {"idle", "streaming", "done"} =>
            task[r].primary = None /\ task[r].attempt = None

\* The ACTIVE_REQUESTS gauge counts the chats between increment_active and
\* decrement_active, each once, plus those whose client hung up in between:
\* every return path of chat_completions takes back what it added.
ActiveAccounted ==
    active = Cardinality({r \in Requests : Gauged(task[r])}) + leaks

\* While a handler waits for a provider it is counted in flight on the deployment it
\* calls, and on no other: the guard of the primary is released before the fallbacks are
\* tried, that of a failed or refused fallback before the next.  Only a chat keeps the
\* guard of its first resolve as well, which is not the one its calls are made with.
CountedWhereCalled ==
    \A r \in Requests :
        LET t == task[r]
            guard == IF t.chosen \in Counted THEN t.chosen ELSE None
        IN  t.pc = "call" =>
                IF t.pos = 0 THEN t.primary = guard /\ t.attempt = None
                ELSE t.attempt = guard /\ (t.kind # "chat" => t.primary = None)


\* Every request that arrives is answered, refused or dropped, whatever the providers do:
\* retries, rounds and chains are bounded.  It takes that the services without a timeout
\* (the database, the moderation service, the MCP servers) answer from some point on.  The
\* end of a stream, which its reader may put off, is not claimed.
Responds ==
    <>[](~stalled) =>
        \A r \in Requests : task[r].pc # "idle" ~> task[r].pc \in {"streaming", "done"}
=============================================================================
