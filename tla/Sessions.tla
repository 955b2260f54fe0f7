------------------------------ MODULE Sessions ------------------------------
(***************************************************************************)
(* The refresh tokens and the password of ONE user account: the handlers   *)
(* of admin/auth.rs and admin/password.rs, at the granularity of the       *)
(* database query.  No handler opens a transaction, so between any two     *)
(* queries the queries of other requests may run, and a request may stop   *)
(* there for good (the client disconnects and axum drops the handler, or   *)
(* the query returns an error).                                            *)
(*                                                                         *)
(* A refresh token is a number, in the order of issue; the clients hold    *)
(* every token ever issued.  A password stands for itself and for its      *)
(* hash: verify_password is equality.  Bcrypt, JWTs and cookies are left   *)
(* out, and so is the login limiter, which is the RateLimiter's bucket.    *)
(***************************************************************************)
EXTENDS Integers, Sequences

CONSTANTS
    Callers,        \* requests that can be in progress at the same time
    Passwords,      \* what a password can be
    Weak,           \* the passwords the policy's own rules refuse
    InitPassword,   \* what the account was created with
    MaxReuse,       \* policy.max_reuse
    Workloads,      \* what the clients of a behaviour do: the handlers they call
                    \* and the new passwords they choose
    MaxTokens,      \* bound: refresh tokens issued in a behaviour
    MaxResets,      \* bound: reset mails requested in a behaviour
    MaxStops        \* bound: requests that stop between two queries

Handlers == {"login", "refresh", "logout", "revoke_all_sessions",
             "change_password", "change_required", "admin_reset", "reset"}

ASSUME SessionsAssumption ==
    /\ Weak \subseteq Passwords
    /\ InitPassword \in Passwords
    /\ Workloads \subseteq [handlers : SUBSET Handlers, passwords : SUBSET Passwords]
    /\ {MaxReuse, MaxTokens, MaxResets, MaxStops} \subseteq Nat

VARIABLES
    workload,                         \* fixed in a behaviour
    password, must_change, expired,   \* the row of users
    history,                          \* password_history, newest first
    refresh_tokens,                   \* the rows of refresh_tokens
    lapsed,                           \* the tokens past their expires_at
    resets,                           \* password_reset_tokens: the state of each
    task,                             \* what each request is about to do
    \* The rest is history, which no handler reads.
    issued,      \* refresh tokens issued so far
    entry,       \* the password each token's session was opened with
    heirs,       \* how many pairs each token was exchanged for
    raced,       \* tokens of sessions a request carried across a revocation
    set_by,      \* the handler that wrote the password
    stops        \* the queries in front of which a request stopped

account == <<password, must_change, expired>>
vars == <<workload, password, must_change, expired, history, refresh_tokens, lapsed,
          resets, task, issued, entry, heirs, raced, set_by, stops>>

Tokens == 1 .. MaxTokens
Resets == 1 .. MaxResets
Changes == {"change_password", "change_required", "admin_reset", "reset"}
Queries == {"drop", "rotate", "issue",
            "validate", "update", "push", "purge", "revoke", "finish"}

\* The locals of a request: its handler, the query it runs next, the token it
\* was given, the password it carries, and whether sessions were revoked while
\* it was on its way to issue a pair.
Task(op, next, token, pw, late) ==
    [op |-> op, next |-> next, token |-> token, pw |-> pw, late |-> late]
Idle == Task("none", "none", 0, InitPassword, FALSE)

Init ==
    /\ workload \in Workloads
    /\ password = InitPassword /\ must_change = FALSE /\ expired = FALSE
    /\ history = <<>>
    /\ refresh_tokens = {} /\ lapsed = {}
    /\ resets = [r \in Resets |-> "none"]
    /\ task = [c \in Callers |-> Idle]
    /\ issued = 0
    /\ entry = [t \in Tokens |-> InitPassword]
    /\ heirs = [t \in Tokens |-> 0]
    /\ raced = {}
    /\ set_by = "create"
    /\ stops = <<>>

-----------------------------------------------------------------------------
\* A request begins: what it reads first decides the query it runs next.
Begin(c, t) ==
    /\ task[c] = Idle /\ t.op \in workload.handlers
    /\ task' = [task EXCEPT ![c] = t]
Return(c) == task' = [task EXCEPT ![c] = Idle]
Goto(c, next) == task' = [task EXCEPT ![c].next = next]

ghosts == <<issued, entry, heirs, raced, set_by, stops>>
ReadsOnly == UNCHANGED <<account, history, refresh_tokens, lapsed, resets, ghosts>>

\* login: get_by_email and verify_password; a wrong password changes nothing.
login(c) ==
    /\ issued < MaxTokens
    /\ Begin(c, Task("login", "issue", 0, password, FALSE))
    /\ ReadsOnly

\* refresh: get_by_hash.  A row past its expiry is deleted and refused.
refresh(c, t) ==
    /\ t \in refresh_tokens
    /\ issued < MaxTokens
    /\ Begin(c, Task("refresh", IF t \in lapsed THEN "drop" ELSE "rotate",
                     t, entry[t], FALSE))
    /\ ReadsOnly

\* Mutant: the row stays.
KeepRow(t) == refresh_tokens

\* DELETE succeeds whether or not the row is there.
delete(t) == refresh_tokens \ {t}

\* The used row is deleted by its id, and the request goes on to issue a pair.
Rotate(c) ==
    /\ task[c].next \in {"drop", "rotate"}
    /\ refresh_tokens' = delete(task[c].token)
    /\ IF task[c].next = "drop" THEN Return(c) ELSE Goto(c, "issue")
    /\ UNCHANGED <<account, history, lapsed, resets, ghosts>>

\* The row that create inserts.
create == issued + 1

\* issue_token_pair: the insert into refresh_tokens, then the response.
issue_token_pair(c) ==
    LET t == task[c].token
        new == create
    IN  /\ task[c].next = "issue"
        /\ issued < MaxTokens
        /\ issued' = issued + 1
        /\ refresh_tokens' = refresh_tokens \union {new}
        /\ entry' = [entry EXCEPT ![issued + 1] = task[c].pw]
        /\ heirs' = IF t = 0 THEN heirs ELSE [heirs EXCEPT ![t] = @ + 1]
        /\ raced' = IF task[c].late \/ t \in raced THEN raced \union {new} ELSE raced
        /\ Return(c)
        /\ UNCHANGED <<account, history, lapsed, resets, set_by, stops>>

\* logout: delete_by_hash, with any token a client still holds.
logout(c, t) ==
    /\ task[c] = Idle
    /\ "logout" \in workload.handlers /\ t \in 1 .. issued
    /\ refresh_tokens' = delete(t)
    /\ UNCHANGED <<account, history, lapsed, resets, task, ghosts>>

Marked(t) ==
    Task(t.op, t.next, t.token, t.pw, t.late \/ t.next \in {"rotate", "issue"})

\* Mutant: only the oldest row goes.
DeleteOne(tasks) ==
    /\ refresh_tokens' = refresh_tokens \ {1}
    /\ task' = [c \in Callers |-> Marked(tasks[c])]

\* delete_all_for_user; marks the requests that are past their checks.
delete_all_for_user(tasks) ==
    /\ refresh_tokens' = {}
    /\ task' = [c \in Callers |-> Marked(tasks[c])]

revoke_all_sessions(c) ==
    /\ task[c] = Idle /\ "revoke_all_sessions" \in workload.handlers
    /\ delete_all_for_user(task)
    /\ UNCHANGED <<account, history, lapsed, resets, ghosts>>

-----------------------------------------------------------------------------
\* The four ways to a password change.  Each has its own checks and then runs
\* do_password_change.
change_password(c, new) ==
    /\ Begin(c, Task("change_password", "validate", 0, new, FALSE))
    /\ ReadsOnly

change_required(c, new) ==
    /\ must_change \/ expired
    /\ Begin(c, Task("change_required", "validate", 0, new, FALSE))
    /\ ReadsOnly

admin_reset_password(c, new) ==
    /\ Begin(c, Task("admin_reset", "validate", 0, new, FALSE))
    /\ ReadsOnly

forgot_password(c, r) ==
    /\ task[c] = Idle /\ "reset" \in workload.handlers
    /\ resets[r] = "none" /\ \A q \in 1 .. r - 1 : resets[q] # "none"
    /\ resets' = [resets EXCEPT ![r] = "unused"]
    /\ UNCHANGED <<account, history, refresh_tokens, lapsed, task, ghosts>>

reset_password(c, r, new) ==
    /\ resets[r] = "unused"
    /\ Begin(c, Task("reset", "validate", r, new, FALSE))
    /\ ReadsOnly

\* get_last_n and validate_password, in one query of the table.
get_last_n(n) == SubSeq(history, 1, IF n < Len(history) THEN n ELSE Len(history))
validate_password(new, hist) == new \notin Weak /\ \A i \in DOMAIN hist : hist[i] # new

Validate(c) ==
    /\ task[c].next = "validate"
    /\ IF validate_password(task[c].pw, get_last_n(MaxReuse))
       THEN Goto(c, "update") ELSE Return(c)
    /\ ReadsOnly

\* update_password clears must_change_password and renews the expiry.
update_password(c) ==
    LET t == task[c] IN
    /\ t.next = "update"
    /\ password' = t.pw /\ must_change' = FALSE /\ expired' = FALSE
    /\ set_by' = t.op
    /\ Goto(c, "push")
    /\ UNCHANGED <<history, refresh_tokens, lapsed, resets, issued, entry, heirs, raced, stops>>

\* INSERT with created_at = NOW().
push(hash) == <<hash>> \o history

\* The rows that are not among the newest max_reuse are deleted.
purge_older_than == get_last_n(MaxReuse)

Push(c) ==
    /\ task[c].next = "push"
    /\ history' = push(task[c].pw)
    /\ Goto(c, "purge")
    /\ UNCHANGED <<account, refresh_tokens, lapsed, resets, ghosts>>

Purge(c) ==
    /\ task[c].next = "purge"
    /\ history' = purge_older_than
    /\ Goto(c, "revoke")
    /\ UNCHANGED <<account, refresh_tokens, lapsed, resets, ghosts>>

\* The last query of do_password_change.  The self-service handlers then
\* answer; the other two have one more query to run.
Revoke(c) ==
    LET t == task[c] IN
    /\ t.next = "revoke"
    /\ delete_all_for_user([task EXCEPT ![c] =
           IF t.op \in {"admin_reset", "reset"}
           THEN Task(t.op, "finish", t.token, t.pw, t.late) ELSE Idle])
    /\ UNCHANGED <<account, history, lapsed, resets, ghosts>>

\* Mutant: the flag is left as update_password wrote it.
FlagKept(op) == must_change

\* set_must_change(true), which only the administrator's reset runs.
set_must_change(op) == must_change \/ op = "admin_reset"

\* admin_reset_password: set_must_change(true).  reset_password: mark_used.
Finish(c) ==
    LET t == task[c] IN
    /\ t.next = "finish"
    /\ must_change' = set_must_change(t.op)
    /\ resets' = IF t.op = "reset" THEN [resets EXCEPT ![t.token] = "used"] ELSE resets
    /\ Return(c)
    /\ UNCHANGED <<password, expired, history, refresh_tokens, lapsed, ghosts>>

-----------------------------------------------------------------------------
\* The request stops in front of its next query.
Stop(c) ==
    /\ task[c] # Idle
    /\ Len(stops) < MaxStops
    /\ stops' = Append(stops, task[c].next)
    /\ Return(c)
    /\ UNCHANGED <<account, history, refresh_tokens, lapsed, resets,
                   issued, entry, heirs, raced, set_by>>

\* Time: a refresh token, a reset token or the password reaches its expires_at.
TokenLapses(t) ==
    /\ t \in refresh_tokens \ lapsed
    /\ lapsed' = lapsed \union {t}
    /\ UNCHANGED <<account, history, refresh_tokens, resets, task, ghosts>>
ResetLapses(r) ==
    /\ resets[r] = "unused"
    /\ resets' = [resets EXCEPT ![r] = "lapsed"]
    /\ UNCHANGED <<account, history, refresh_tokens, lapsed, task, ghosts>>
PasswordExpires ==
    /\ "change_required" \in workload.handlers /\ ~expired
    /\ expired' = TRUE
    /\ UNCHANGED <<password, must_change, history, refresh_tokens, lapsed, resets, task, ghosts>>

Query(c) ==
    \/ Rotate(c) \/ issue_token_pair(c)
    \/ Validate(c) \/ update_password(c) \/ Push(c) \/ Purge(c)
    \/ Revoke(c) \/ Finish(c)

Request(c) ==
    \/ login(c) \/ revoke_all_sessions(c)
    \/ \E t \in Tokens : refresh(c, t) \/ logout(c, t)
    \/ \E r \in Resets : forgot_password(c, r)
    \/ \E new \in workload.passwords :
          \/ change_password(c, new) \/ change_required(c, new)
          \/ admin_reset_password(c, new)
          \/ \E r \in Resets : reset_password(c, r, new)

Next ==
    /\ \/ \E c \in Callers : Request(c) \/ Query(c) \/ Stop(c)
       \/ \E t \in Tokens : TokenLapses(t)
       \/ \E r \in Resets : ResetLapses(r)
       \/ PasswordExpires
    /\ UNCHANGED workload

Spec == Init /\ [][Next]_vars

-----------------------------------------------------------------------------

Running(ops, queries) == {c \in Callers : task[c].op \in ops /\ task[c].next \in queries}
Stopped(queries) == \E i \in DOMAIN stops : stops[i] \in queries

\* What rotation does give: a refresh token that was exchanged is no longer in
\* the table, so only requests that overlap the first exchange can be served.
ExchangedIsGone == \A t \in Tokens : heirs[t] > 0 => t \notin refresh_tokens

\* do_password_change revokes the sessions last.  Once no change is between its
\* update_password and its revocation (and none stopped there), a stored token
\* of a session opened with another password comes from a request that was
\* already past its checks when sessions were revoked.
OnlyRacersSurvive ==
    Running(Changes, {"push", "purge", "revoke"}) = {}
        /\ ~Stopped({"push", "purge", "revoke"})
    => \A t \in refresh_tokens : entry[t] = password \/ t \in raced

\* An administrator's password has to be replaced: it is in force without
\* must_change only while the reset that wrote it is still to set the flag, or
\* after a request stopped on the way there.
ResetForcesChange ==
    /\ set_by = "admin_reset"
    /\ Running({"admin_reset"}, {"push", "purge", "revoke", "finish"}) = {}
    /\ ~Stopped({"push", "purge", "revoke", "finish"})
    => must_change

-----------------------------------------------------------------------------
(* What the documents say, which the code does not keep.                    *)

\* README.md, of the refresh token: "single-use, rotating on each use".
SingleUse == \A t \in Tokens : heirs[t] <= 1
=============================================================================
