------------------------------- MODULE Batch -------------------------------
(***************************************************************************)
(* Batches that the gateway works off by itself: a JSONL file is parsed and*)
(* priced (batch_parser.rs), then every line runs as a task of its own, up *)
(* to max_concurrent of them with a permit of the semaphore at a time, with*)
(* up to MAX_RETRIES repetitions (batch_processor.rs).  The results are    *)
(* collected in the order of the file and a webhook reports the totals.    *)
(*                                                                         *)
(* A line of the file is a record: `custom_id`, `method`, `url` and        *)
(* `model`, the `messages`, each with a role or not and with a text or the *)
(* texts of its parts (as their lengths), and `max_tokens` (0: none).      *)
(***************************************************************************)
EXTENDS Integers, Sequences, SequencesExt, FiniteSetsExt

CONSTANTS
    Files,           \* the files that are submitted
    Catalog,         \* prices per token, by model
    max_concurrent,
    Tokens,          \* what a completion is reported to have used
    MaxPanics        \* bound: tasks that panic

MAX_RETRIES == 2

ASSUME BatchAssumption ==
    /\ max_concurrent \in Nat /\ MaxPanics \in Nat /\ Tokens \subseteq Nat
    /\ \A m \in DOMAIN Catalog : Catalog[m] \in [input : Nat, output : Nat]

VARIABLES
    file, stage,      \* "new", "refused", "running", "collected", "failed", "told"
    requests,         \* the parsed lines, priced
    worker,           \* where the task of each line is
    attempt,          \* repetitions so far
    item,             \* the result of each task
    results, report,  \* the collected results and the totals that are sent
    \* The rest is history.
    asked_of,         \* per line, the calls of its provider
    panics

bvars == <<file, stage, requests, worker, attempt, item, results, report, asked_of, panics>>

BInit ==
    /\ file \in Files /\ stage = "new"
    /\ requests = <<>> /\ worker = <<>> /\ attempt = <<>> /\ item = <<>>
    /\ results = <<>> /\ report = <<>> /\ asked_of = <<>> /\ panics = 0

----------------------------------------------------------------------------
(* Parsing and estimating.                                                 *)

validate_request(l) == l.custom_id # "" /\ l.method = "POST" /\ l.url = "/" /\ l.model # ""
NotBlank(l) == ~l.blank
\* Blank lines are skipped; one bad line refuses the file.
parse_jsonl(f) == SelectSeq(f, NotBlank)
Parses(f) == \A i \in 1..Len(parse_jsonl(f)) :
                parse_jsonl(f)[i].json /\ validate_request(parse_jsonl(f)[i])

estimate_tokens_from_text(n) == n \div 4
SumOf(s) == FoldLeft(LAMBDA a, b : a + b, 0, s)
\* Texts and the texts of parts count alike, part by part.
estimate_usage_from_request(l) ==
    LET prompt == SumOf([i \in 1..Len(l.messages) |->
                            SumOf([j \in 1..Len(l.messages[i].texts) |->
                                      estimate_tokens_from_text(l.messages[i].texts[j])])])
    IN [input |-> prompt, output |-> IF l.max_tokens > 0 THEN l.max_tokens ELSE prompt \div 2]
compute_cost(m, usage) == usage.input * Catalog[m].input + usage.output * Catalog[m].output
estimate_cost(s) ==
    [i \in 1..Len(s) |-> [custom_id |-> s[i].custom_id, model |-> s[i].model, messages |-> s[i].messages,
                          estimated_cost |-> compute_cost(s[i].model, estimate_usage_from_request(s[i]))]]

\* A message without a role is dropped; content that is not a text is sent as none.
HasRole(m) == m.role
convert_to_chat_request(l) ==
    LET kept == SelectSeq(l.messages, HasRole)
    IN [i \in 1..Len(kept) |-> IF kept[i].kind = "text" THEN kept[i].texts[1] ELSE 0]

Submit ==
    /\ stage = "new"
    /\ IF Parses(file) /\ \A i \in 1..Len(parse_jsonl(file)) : parse_jsonl(file)[i].model \in DOMAIN Catalog
       THEN LET lines == estimate_cost(parse_jsonl(file)) IN
            /\ requests' = lines /\ stage' = "running"
            /\ worker' = [i \in 1..Len(lines) |-> "queued"]
            /\ attempt' = [i \in 1..Len(lines) |-> 0]
            /\ item' = [i \in 1..Len(lines) |-> <<>>]
            /\ asked_of' = [i \in 1..Len(lines) |-> <<>>]
       ELSE stage' = "refused" /\ UNCHANGED <<requests, worker, attempt, item, asked_of>>
    /\ UNCHANGED <<file, results, report, panics>>

----------------------------------------------------------------------------
(* The tasks.                                                              *)

HasPermit(i) == worker[i] \in {"ready", "calling", "sleeping"}
Permits == Cardinality({i \in DOMAIN worker : HasPermit(i)})

\* The permit is kept until the task ends, through its delays.
acquire(i) ==
    /\ worker[i] = "queued"
    /\ Permits < max_concurrent
    /\ worker' = [worker EXCEPT ![i] = "ready"]
    /\ UNCHANGED <<file, stage, requests, attempt, item, results, report, asked_of, panics>>

\* The cost of what was used is computed with prices of zero; none counts as zero.
build_result(i, success, used) ==
    [custom_id |-> requests[i].custom_id, success |-> success,
     estimated_cost |-> requests[i].estimated_cost,
     actual_cost |-> 0, tokens |-> IF success THEN used ELSE 0]
Finished(i, success, used) ==
    /\ worker' = [worker EXCEPT ![i] = "done"]
    /\ item' = [item EXCEPT ![i] = <<build_result(i, success, used)>>]
    /\ UNCHANGED attempt

\* After the last repetition the line has failed.
process_single_request(i) ==
    IF attempt[i] < MAX_RETRIES
    THEN /\ worker' = [worker EXCEPT ![i] = "sleeping"]
         /\ attempt' = [attempt EXCEPT ![i] = @ + 1]
         /\ UNCHANGED item
    ELSE Finished(i, FALSE, 0)

\* attempt_request: the model resolves and the provider is called, or it does not.
attempt_request(i, resolves) ==
    /\ worker[i] = "ready"
    /\ IF resolves
       THEN /\ worker' = [worker EXCEPT ![i] = "calling"]
            /\ asked_of' = [asked_of EXCEPT ![i] = Append(@, convert_to_chat_request(requests[i]))]
            /\ UNCHANGED <<attempt, item>>
       ELSE process_single_request(i) /\ UNCHANGED asked_of
    /\ UNCHANGED <<file, stage, requests, results, report, panics>>
Completed(i, used) ==
    /\ worker[i] = "calling" /\ Finished(i, TRUE, used)
    /\ UNCHANGED <<file, stage, requests, results, report, asked_of, panics>>
AttemptFails(i) ==
    /\ worker[i] = "calling" /\ process_single_request(i)
    /\ UNCHANGED <<file, stage, requests, results, report, asked_of, panics>>
\* Mutant: each repetition waits for a permit besides the one its task has.
SleptEnough_acquires(i) ==
    /\ worker[i] = "sleeping" /\ Permits < max_concurrent
    /\ worker' = [worker EXCEPT ![i] = "ready"]
    /\ UNCHANGED <<file, stage, requests, attempt, item, results, report, asked_of, panics>>
\* exponential_backoff_delay: one second, then two.
SleptEnough(i) ==
    /\ worker[i] = "sleeping"
    /\ worker' = [worker EXCEPT ![i] = "ready"]
    /\ UNCHANGED <<file, stage, requests, attempt, item, results, report, asked_of, panics>>
\* The permit is dropped with the task.
Panic(i) ==
    /\ worker[i] = "calling" /\ panics < MaxPanics
    /\ worker' = [worker EXCEPT ![i] = "panicked"] /\ panics' = panics + 1
    /\ UNCHANGED <<file, stage, requests, attempt, item, results, report, asked_of>>

----------------------------------------------------------------------------
(* Collecting.                                                             *)

\* Mutant: whichever task is done is collected next.
JoinNext_any(i) ==
    /\ stage = "running" /\ Len(results) < Len(requests)
    /\ worker[i] = "done" /\ \A k \in 1..Len(results) : results[k] # item[i][1]
    /\ results' = Append(results, item[i][1])
    /\ UNCHANGED <<file, stage, requests, worker, attempt, item, report, asked_of, panics>>
\* The handles are awaited in the order of the file.
JoinNext(i) ==
    /\ stage = "running" /\ i = Len(results) + 1
    /\ worker[i] = "done"
    /\ results' = Append(results, item[i][1])
    /\ UNCHANGED <<file, stage, requests, worker, attempt, item, report, asked_of, panics>>
\* A task that panicked fails the batch; those that still run go on.
JoinFails(i) ==
    /\ stage = "running" /\ i = Len(results) + 1
    /\ worker[i] = "panicked"
    /\ stage' = "failed"
    /\ UNCHANGED <<file, requests, worker, attempt, item, results, report, asked_of, panics>>

Succeeded(r) == r.success
aggregate_results(s) ==
    [total |-> Len(s), completed |-> Len(SelectSeq(s, Succeeded)),
     failed |-> Len(s) - Len(SelectSeq(s, Succeeded)),
     estimated |-> SumOf([i \in 1..Len(s) |-> s[i].estimated_cost]),
     cost |-> SumOf([i \in 1..Len(s) |-> s[i].actual_cost]),
     tokens |-> SumOf([i \in 1..Len(s) |-> s[i].tokens])]
process_batch ==
    /\ stage = "running" /\ Len(results) = Len(requests)
    /\ stage' = "collected" /\ report' = <<aggregate_results(results)>>
    /\ UNCHANGED <<file, requests, worker, attempt, item, results, asked_of, panics>>
\* One attempt; the caller gets its error.
send_completion_webhook(ok) ==
    /\ stage = "collected"
    /\ stage' = IF ok THEN "told" ELSE "untold"
    /\ UNCHANGED <<file, requests, worker, attempt, item, results, report, asked_of, panics>>

Work(i) ==
    \/ acquire(i) \/ AttemptFails(i) \/ SleptEnough(i) \/ JoinNext(i) \/ JoinFails(i)
    \/ \E b \in BOOLEAN : attempt_request(i, b)
    \/ \E n \in Tokens : Completed(i, n)
BNext ==
    \/ Submit \/ process_batch
    \/ \E b \in BOOLEAN : send_completion_webhook(b)
    \/ \E i \in DOMAIN worker : Work(i) \/ Panic(i)

\* Every task is polled, a provider answers or its connection fails, and timers fire.
BSpec == BInit /\ [][BNext]_bvars
               /\ WF_bvars(Submit) /\ WF_bvars(process_batch)
               /\ \A i \in 1..Max({Len(f) : f \in Files}) : WF_bvars(i \in DOMAIN worker /\ Work(i))

----------------------------------------------------------------------------
(* Properties.                                                             *)

\* Although the tasks end in any order, the results come in the order of the file, one
\* for each line, with the outcome of that line's own last attempt; a line is asked again
\* only after a failure, three times at most, and never more than max_concurrent lines
\* have a call or a delay under way (process_batch, process_single_request).
ItemsAsSubmitted ==
    /\ \A i \in 1..Len(results) :
          /\ item[i] = <<results[i]>> /\ results[i].custom_id = requests[i].custom_id
          /\ ~results[i].success => attempt[i] = MAX_RETRIES
    /\ Permits <= max_concurrent
    /\ \A i \in DOMAIN asked_of : Len(asked_of[i]) <= attempt[i] + 1 /\ attempt[i] <= MAX_RETRIES
    /\ report # <<>> =>
          /\ report[1].total = Len(requests)
          /\ report[1].completed = Cardinality({i \in DOMAIN item : item[i] # <<>> /\ item[i][1].success})

\* A batch that was accepted ends: its results are collected or a panic is reported
\* (process_batch), as long as there is a permit to be had.
BatchEnds == stage = "running" ~> stage # "running"
============================================================================
