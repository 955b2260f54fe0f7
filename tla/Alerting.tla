------------------------------ MODULE Alerting ------------------------------
(***************************************************************************)
(* Budget alerts: the scheduler task that calls check_budgets every five   *)
(* minutes, and the delivery of webhooks with its retries, recorded in the *)
(* table alerting_webhooks.                                                *)
(*                                                                         *)
(* One task does everything in sequence: a check is a run over the enabled *)
(* configurations, and a delivery that has to be retried is slept out      *)
(* inside it.  Any query may fail, which ends the check; the process may   *)
(* stop at any moment and come back with the table as it was.              *)
(*                                                                         *)
(* The queries name request_logs.org_id and organizations.budget_usd.      *)
(* `schema` says whether the database has these columns: "migrated" is     *)
(* what the migrations make, which does not, "expected" what the queries   *)
(* were written for.                                                       *)
(***************************************************************************)
EXTENDS Integers, Sequences

CONSTANTS
    Alerts,          \* alerting_config WHERE enabled: a sequence of [target, percent]
    BudgetOf,        \* target -> its budget, 0 for none
    MaxSpend,        \* bound: what a target can have spent
    MaxHooks,        \* bound: rows of alerting_webhooks
    Schemas,         \* the schemas to explore
    Faults           \* whether queries and POSTs can fail and the process can stop

max_retries == 5

VARIABLES
    schema,
    spending,       \* target -> sum of cost_usd of its request logs
    todo,        \* configurations left in this check
    step,        \* where the scheduler task is
    webhooks,    \* the table: status and retry_count of each row
    posts        \* history: the outcomes of the POSTs of each row

lvars == <<schema, spending, todo, step, webhooks, posts>>

Waiting == [pc |-> "interval"]
Targets == DOMAIN BudgetOf
Row_ == Len(webhooks)       \* the row being delivered is the last one

LInit ==
    /\ schema \in Schemas
    /\ spending = [t \in Targets |-> 0]
    /\ todo = <<>>
    /\ step = Waiting
    /\ webhooks = <<>>
    /\ posts = <<>>

NextConfig == /\ todo' = Tail(todo)
              /\ step' = IF Tail(todo) = <<>> THEN Waiting ELSE [pc |-> "spend"]

\* An error leaves check_budgets; the scheduler logs it and waits for the next tick.
Abort == todo' = <<>> /\ step' = Waiting

----------------------------------------------------------------------------
\* Scheduler::run and get_alerting_configs.
run ==
    /\ step.pc = "interval"
    /\ Alerts # <<>>
    /\ todo' = Alerts
    /\ step' = [pc |-> "spend"]
    /\ UNCHANGED <<schema, spending, webhooks, posts>>

get_current_spend ==
    /\ step.pc = "spend"
    /\ schema = "expected"
    /\ step' = [pc |-> "budget", spend |-> spending[todo[1].target]]
    /\ UNCHANGED <<schema, spending, todo, webhooks, posts>>

\* column "org_id" does not exist.
UndefinedColumn ==
    /\ step.pc = "spend"
    /\ schema = "migrated"
    /\ Abort
    /\ UNCHANGED <<schema, spending, webhooks, posts>>

\* What the configuration of a budget and a spend amounts to.
get_budget == BudgetOf[todo[1].target]
Reached == 100 * step.spend >= get_budget * todo[1].percent
event_type == IF step.spend >= get_budget THEN "budget_100" ELSE "budget_80"

check_budgets ==
    /\ step.pc = "budget"
    /\ IF get_budget <= 0 \/ ~Reached THEN NextConfig
       ELSE step' = [pc |-> "record", event |-> event_type] /\ UNCHANGED todo
    /\ UNCHANGED <<schema, spending, webhooks, posts>>

record_webhook_attempt ==
    /\ step.pc = "record"
    /\ Row_ < MaxHooks
    /\ webhooks' = Append(webhooks, [event |-> step.event, alert |-> todo[1], status |-> "pending",
                                     retry_count |-> 0])
    /\ posts' = Append(posts, <<>>)
    /\ step' = [pc |-> "post", attempt |-> 0]
    /\ UNCHANGED <<schema, spending, todo>>

\* Mutant: the last attempt is recorded as a success whatever came of it.
Outcome_hopeful(ok) ==
    CASE ok \/ step.attempt = max_retries -> "success" [] OTHER -> "sleep"

\* What follows a POST.
Outcome(ok) ==
    CASE ok -> "success"
      [] ~ok /\ step.attempt < max_retries -> "sleep"
      [] OTHER -> "failed"

send_webhook(ok) ==
    /\ step.pc = "post"
    /\ ok \/ Faults
    /\ posts' = [posts EXCEPT ![Row_] = Append(@, ok)]
    /\ step' = [step EXCEPT !.pc = Outcome(ok)]
    /\ UNCHANGED <<schema, spending, todo, webhooks>>

\* A delivery that failed for good is an error, which ends the check.
update_webhook_status ==
    /\ step.pc \in {"success", "failed"}
    /\ webhooks' = [webhooks EXCEPT ![Row_].status = step.pc, ![Row_].retry_count = step.attempt]
    /\ IF step.pc = "success" THEN NextConfig ELSE Abort
    /\ UNCHANGED <<schema, spending, posts>>

\* After 30 s, 2 min, 10 min, and then an hour each time.
update_webhook_retry ==
    /\ step.pc = "sleep"
    /\ webhooks' = [webhooks EXCEPT ![Row_].retry_count = step.attempt + 1]
    /\ step' = [pc |-> "post", attempt |-> step.attempt + 1]
    /\ UNCHANGED <<schema, spending, todo, posts>>

QueryError ==
    /\ Faults
    /\ step.pc \in {"spend", "budget", "record", "success", "failed", "sleep"}
    /\ Abort
    /\ UNCHANGED <<schema, spending, webhooks, posts>>

----------------------------------------------------------------------------
Restart ==
    /\ Faults
    /\ step.pc # "interval"
    /\ Abort
    /\ UNCHANGED <<schema, spending, webhooks, posts>>

Spend(t) ==
    /\ spending[t] < MaxSpend
    /\ spending' = [spending EXCEPT ![t] = @ + 1]
    /\ UNCHANGED <<schema, todo, step, webhooks, posts>>

Delivering ==
    \/ run \/ get_current_spend \/ UndefinedColumn \/ check_budgets \/ record_webhook_attempt
    \/ \E ok \in BOOLEAN : send_webhook(ok)
    \/ update_webhook_status \/ update_webhook_retry

LNext == Delivering \/ QueryError \/ Restart \/ \E t \in Targets : Spend(t)

LSpec == LInit /\ [][LNext]_lvars

----------------------------------------------------------------------------
(* Properties.                                                             *)

\* The table tells what happened, whatever query failed and wherever the process was stopped.
\* A webhook is accepted at most once, by its last POST.  A row is "success" only if that
\* one was accepted, and has counted the retries; it is "failed" only if none was, after at
\* least the five attempts of docs/guardrails.md (the code makes six).  A row that stays
\* "pending" is at most one POST behind: the count is raised before the retry is posted.
RowsMatchDeliveries ==
    \A i \in 1..Len(webhooks) :
        LET row == webhooks[i]
            made == Len(posts[i])
        IN  /\ \A n \in 1 .. made - 1 : ~posts[i][n]
            /\ row.status = "success" => posts[i][made] /\ row.retry_count = made - 1
            /\ row.status = "failed" => ~posts[i][made] /\ made >= 5
            /\ row.status = "pending" => row.retry_count \in {made - 1, made}

============================================================================
