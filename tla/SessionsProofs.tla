--------------------------- MODULE SessionsProofs ---------------------------
(***************************************************************************)
(* Proofs about Sessions for any number of requests, tokens, passwords and *)
(* stops.                                                                  *)
(*                                                                         *)
(* ResetForcesChange is inductive with the types.  ExchangedIsGone needs   *)
(* that a request on its way to issue a pair has deleted the token it was  *)
(* given.  OnlyRacersSurvive needs the same claim of the sessions that are *)
(* not in the table yet: a request that carries one past its checks opened *)
(* it with the password in force, or was marked by a revocation.           *)
(***************************************************************************)
EXTENDS Sessions, SequenceTheorems, TLAPS

Tasked == [op : Handlers \cup {"none"}, next : Queries \cup {"none"}, token : Nat,
           pw : Passwords, late : BOOLEAN]
Revoking == {"push", "purge", "revoke"}

SessionsTypeOK ==
    /\ workload \in Workloads
    /\ password \in Passwords /\ must_change \in BOOLEAN
    /\ refresh_tokens \subseteq 1 .. issued
    /\ task \in [Callers -> Tasked]
    /\ issued \in 0 .. MaxTokens
    /\ entry \in [Tokens -> Passwords]
    /\ heirs \in [Tokens -> Nat]
    /\ stops \in Seq(Queries \cup {"none"})

\* The handlers that run a query, and the token it is about.
PlaceOK(t) ==
    /\ t.next \in {"validate", "update"} \cup Revoking => t.op \in Changes
    /\ t.next = "finish" => t.op \in {"admin_reset", "reset"}
    /\ t.next \in {"drop", "rotate"} => t.token \in 1 .. issued
    /\ t.next = "issue" => t.token \in 0 .. issued

\* A request that is to issue a pair has deleted the token it was given.
Deleted(t) == t.next = "issue" => t.token \notin refresh_tokens

HeirsIssued == \A t \in Tokens : heirs[t] > 0 => t <= issued

\* No change is between its update_password and its revocation, and none stopped there.
Settled == Running(Changes, Revoking) = {} /\ ~Stopped(Revoking)

\* The session a request carries past its checks.
Carried(t) == t.next \in {"rotate", "issue"} =>
    t.pw = password \/ t.late \/ t.token \in raced

Resetting == {"push", "purge", "revoke", "finish"}

SessionsInv ==
    /\ SessionsTypeOK /\ HeirsIssued
    /\ \A c \in Callers : PlaceOK(task[c]) /\ Deleted(task[c])
    /\ Settled => \A c \in Callers : Carried(task[c])
    /\ ExchangedIsGone /\ OnlyRacersSurvive /\ ResetForcesChange

-----------------------------------------------------------------------------
OthersStay(c) == \A d \in Callers : d # c => task'[d] = task[d]

\* What stopped, stays stopped.
LEMMA StopsGrow ==
  ASSUME SessionsTypeOK, NEW q \in Queries \cup {"none"}, stops' = Append(stops, q), NEW Q
  PROVE  /\ stops' \in Seq(Queries \cup {"none"})
         /\ Stopped(Q)' <=> Stopped(Q) \/ q \in Q
<1>1. /\ stops' \in Seq(Queries \cup {"none"}) /\ Len(stops') = Len(stops) + 1 /\ Len(stops) \in Nat
      /\ \A i \in 1..Len(stops) : stops'[i] = stops[i]
      /\ stops'[Len(stops) + 1] = q
      /\ DOMAIN stops = 1..Len(stops) /\ DOMAIN stops' = 1..(Len(stops) + 1)
  BY DEF SessionsTypeOK
<1>2. Stopped(Q) \/ q \in Q => Stopped(Q)'
  BY <1>1 DEF Stopped
<1>3. Stopped(Q)' => Stopped(Q) \/ q \in Q
  <2> SUFFICES ASSUME NEW i \in 1..(Len(stops) + 1), stops'[i] \in Q
               PROVE  Stopped(Q) \/ q \in Q
    BY <1>1 DEF Stopped
  <2>1. CASE i = Len(stops) + 1
    BY <1>1, <2>1
  <2>2. CASE i # Len(stops) + 1
    <3>1. i \in 1..Len(stops)
      BY <1>1, <2>2
    <3> QED BY <1>1, <3>1 DEF Stopped
  <2> QED BY <2>1, <2>2
<1> QED BY <1>1, <1>2, <1>3

\* A step of one request that writes neither the account nor a new token: what is to be
\* shown of the place it goes to.
LEMMA TaskKeeps ==
  ASSUME SessionsInv, NEW c \in Callers, OthersStay(c), task' \in [Callers -> Tasked],
         UNCHANGED <<workload, password, must_change, issued, entry, heirs, raced, set_by>>,
         stops' \in Seq(Queries \cup {"none"}),
         \A Q \in SUBSET Queries : Stopped(Q) => Stopped(Q)',
         refresh_tokens' \subseteq refresh_tokens,
         PlaceOK(task'[c]), task'[c].next = "issue" => task'[c].token \notin refresh_tokens',
         Settled => Carried(task'[c]),
         task[c].next \in Revoking /\ ~Stopped(Revoking)' =>
             task'[c].op \in Changes /\ task'[c].next \in Revoking,
         task[c].op = "admin_reset" /\ task[c].next \in Resetting /\ ~Stopped(Resetting)' =>
             task'[c].op = "admin_reset" /\ task'[c].next \in Resetting
  PROVE  SessionsInv'
<1> USE DEF Running
<1>1. SessionsTypeOK' /\ HeirsIssued'
  BY DEF SessionsInv, SessionsTypeOK, HeirsIssued
<1>2. \A d \in Callers : (PlaceOK(task[d]) /\ Deleted(task[d]))'
  BY DEF SessionsInv, OthersStay, PlaceOK, Deleted
<1>3. Revoking \in SUBSET Queries /\ Resetting \in SUBSET Queries
  BY DEF Revoking, Resetting, Queries
<1>4. Settled' => Settled
  <2> SUFFICES ASSUME Settled', NEW d \in Callers, task[d].op \in Changes, task[d].next \in Revoking
               PROVE  FALSE
    BY <1>3 DEF Settled
  <2>1. task'[d].op \notin Changes \/ task'[d].next \notin Revoking
    BY DEF Settled
  <2> QED BY <2>1 DEF Settled, OthersStay
<1>5. Settled' => \A d \in Callers : Carried(task[d])'
  BY <1>4 DEF SessionsInv, OthersStay, Carried
<1>6. ExchangedIsGone'
  BY DEF SessionsInv, ExchangedIsGone
<1>7. OnlyRacersSurvive'
  BY <1>4 DEF SessionsInv, OnlyRacersSurvive, Settled, Revoking
<1>8. ResetForcesChange'
  <2> SUFFICES ASSUME (set_by = "admin_reset")', (Running({"admin_reset"}, Resetting) = {})',
                      ~Stopped(Resetting)'
               PROVE  must_change
    BY DEF ResetForcesChange, Resetting
  <2>1. Running({"admin_reset"}, Resetting) = {}
    BY DEF OthersStay
  <2> QED BY <1>3, <2>1 DEF SessionsInv, ResetForcesChange, Resetting
<1> QED BY <1>1, <1>2, <1>5, <1>6, <1>7, <1>8 DEF SessionsInv

-----------------------------------------------------------------------------
(* The steps.                                                              *)

\* A request begins.
LEMMA BeginKeeps ==
  ASSUME SessionsInv, NEW c \in Callers, NEW t \in Tasked, Begin(c, t), ReadsOnly,
         UNCHANGED workload, PlaceOK(t), Deleted(t), Settled => Carried(t)
  PROVE  SessionsInv'
<1>1. task[c].next = "none" /\ task' = [task EXCEPT ![c] = t]
  BY DEF Begin, Idle, Task
<1>2. OthersStay(c) /\ task' \in [Callers -> Tasked] /\ task'[c] = t
  BY <1>1 DEF SessionsInv, SessionsTypeOK, OthersStay
<1>3. UNCHANGED <<password, must_change, issued, entry, heirs, raced, set_by, stops, refresh_tokens>>
  BY DEF ReadsOnly, account, ghosts
<1>4. \A Q : Stopped(Q) => Stopped(Q)'
  BY <1>3 DEF Stopped
<1>5. stops' \in Seq(Queries \cup {"none"})
  BY <1>3 DEF SessionsInv, SessionsTypeOK
<1> QED BY <1>1, <1>2, <1>3, <1>4, <1>5, TaskKeeps DEF Deleted, Revoking, Resetting

\* A request that is not running has no query to run.
LEMMA IdleTyped == Idle \in Tasked /\ Idle.op = "none" /\ Idle.next = "none"
BY SessionsAssumption DEF Idle, Task, Tasked

\* login opens a session with the password it checked.
LEMMA LoginKeeps ==
  ASSUME SessionsInv, NEW c \in Callers, login(c), UNCHANGED workload
  PROVE  SessionsInv'
<1> DEFINE t == Task("login", "issue", 0, password, FALSE)
<1>1. /\ t \in Tasked /\ t.next = "issue" /\ t.token = 0 /\ t.pw = password
  BY DEF SessionsInv, SessionsTypeOK, Handlers, Queries, Task, Tasked
<1>2. issued \in Nat /\ refresh_tokens \subseteq 1 .. issued
  BY DEF SessionsInv, SessionsTypeOK
<1>3. Begin(c, t) /\ ReadsOnly
  BY DEF login
<1> HIDE DEF t
<1>4. PlaceOK(t) /\ Deleted(t) /\ Carried(t)
  BY <1>1, <1>2 DEF PlaceOK, Deleted, Carried, Revoking
<1> QED BY <1>1, <1>3, <1>4, BeginKeeps

\* refresh carries on the session of a stored token.
LEMMA RefreshKeeps ==
  ASSUME SessionsInv, NEW c \in Callers, NEW k \in Tokens, refresh(c, k), UNCHANGED workload
  PROVE  SessionsInv'
<1> DEFINE next == IF k \in lapsed THEN "drop" ELSE "rotate"
           t == Task("refresh", next, k, entry[k], FALSE)
<1>1. /\ k \in refresh_tokens /\ k \in 1 .. issued /\ k \in Nat /\ entry[k] \in Passwords
  BY DEF refresh, SessionsInv, SessionsTypeOK, Tokens
<1>6. Begin(c, t) /\ ReadsOnly
  BY DEF refresh
<1>2. next \in {"drop", "rotate"} /\ next \in Queries
  BY DEF Queries
<1> HIDE DEF next
<1>3. /\ t \in Tasked /\ t.next = next /\ t.token = k /\ t.pw = entry[k]
  BY <1>1, <1>2 DEF Handlers, Task, Tasked
<1> HIDE DEF t
<1>4. PlaceOK(t) /\ Deleted(t)
  BY <1>1, <1>2, <1>3 DEF PlaceOK, Deleted, Revoking
<1>5. Settled => Carried(t)
  BY <1>1, <1>3 DEF SessionsInv, OnlyRacersSurvive, Settled, Revoking, Carried
<1> QED BY <1>3, <1>4, <1>5, <1>6, BeginKeeps

\* The four ways to a password change begin alike.
LEMMA ChangeBegins ==
  ASSUME SessionsInv, NEW c \in Callers, NEW op \in Changes, NEW token \in Nat,
         NEW new \in workload.passwords,
         Begin(c, Task(op, "validate", token, new, FALSE)), ReadsOnly, UNCHANGED workload
  PROVE  SessionsInv'
<1> DEFINE t == Task(op, "validate", token, new, FALSE)
<1>1. new \in Passwords
  BY SessionsAssumption DEF SessionsInv, SessionsTypeOK
<1>2. /\ t \in Tasked /\ t.next = "validate" /\ t.op = op
  BY <1>1 DEF Handlers, Queries, Changes, Task, Tasked
<1> HIDE DEF t
<1>3. PlaceOK(t) /\ Deleted(t) /\ Carried(t)
  BY <1>2 DEF PlaceOK, Deleted, Carried, Revoking
<1> QED BY <1>2, <1>3, BeginKeeps DEF t

\* A request goes on to another query, or returns.
LEMMA GoingOn ==
  ASSUME SessionsInv, NEW c \in Callers, NEW next \in Queries, Goto(c, next)
  PROVE  /\ OthersStay(c) /\ task' \in [Callers -> Tasked]
         /\ task'[c].next = next /\ task'[c].op = task[c].op /\ task'[c].token = task[c].token
         /\ task'[c].pw = task[c].pw /\ task'[c].late = task[c].late
<1>1. task[c] \in Tasked
  BY DEF SessionsInv, SessionsTypeOK
<1>2. /\ task'[c] \in Tasked
      /\ task'[c].next = next /\ task'[c].op = task[c].op /\ task'[c].token = task[c].token
      /\ task'[c].pw = task[c].pw /\ task'[c].late = task[c].late
  BY <1>1 DEF Goto, SessionsInv, SessionsTypeOK, Tasked
<1>3. OthersStay(c) /\ task' \in [Callers -> Tasked]
  BY <1>2 DEF Goto, SessionsInv, SessionsTypeOK, OthersStay
<1> QED BY <1>2, <1>3

\* A request that returns carries nothing.
LEMMA Returning ==
  ASSUME SessionsInv, NEW c \in Callers, Return(c)
  PROVE  /\ OthersStay(c) /\ task' \in [Callers -> Tasked] /\ task'[c] = Idle
         /\ PlaceOK(Idle) /\ Deleted(Idle) /\ Carried(Idle)
<1>1. OthersStay(c) /\ task' \in [Callers -> Tasked] /\ task'[c] = Idle
  BY IdleTyped DEF Return, SessionsInv, SessionsTypeOK, OthersStay
<1> QED BY <1>1, IdleTyped DEF PlaceOK, Deleted, Carried, Revoking

\* A request that returns, from a place where nothing is owed or stopping on the way.
LEMMA ReturnKeeps ==
  ASSUME SessionsInv, NEW c \in Callers, Return(c),
         UNCHANGED <<workload, password, must_change, issued, entry, heirs, raced, set_by>>,
         refresh_tokens' \subseteq refresh_tokens,
         \/ UNCHANGED stops /\ task[c].next \notin Resetting
         \/ stops' = Append(stops, task[c].next)
  PROVE  SessionsInv'
<1>1. /\ OthersStay(c) /\ task' \in [Callers -> Tasked] /\ task'[c] = Idle
      /\ PlaceOK(Idle) /\ Deleted(Idle) /\ Carried(Idle)
  BY Returning
<1>2. task[c].next \in Queries \cup {"none"} /\ stops \in Seq(Queries \cup {"none"})
  BY DEF SessionsInv, SessionsTypeOK, Tasked
<1>3. /\ stops' \in Seq(Queries \cup {"none"})
      /\ \A Q \in SUBSET Queries : Stopped(Q) => Stopped(Q)'
      /\ task[c].next \in Revoking => Stopped(Revoking)'
      /\ task[c].next \in Resetting => Stopped(Resetting)'
  <2>1. CASE UNCHANGED stops /\ task[c].next \notin Resetting
    BY <1>2, <2>1 DEF Stopped, Revoking, Resetting
  <2>2. CASE stops' = Append(stops, task[c].next)
    BY <1>2, <2>2, StopsGrow DEF SessionsInv
  <2> QED BY <2>1, <2>2
<1>4. task'[c].next = "none" /\ task'[c].next # "issue"
  BY <1>1, IdleTyped
<1>5. Carried(task'[c]) /\ PlaceOK(task'[c])
  BY <1>1
<1> QED BY <1>1, <1>3, <1>4, <1>5, TaskKeeps

\* A request that goes on, with the account and the tokens as they are.
LEMMA GotoKeeps ==
  ASSUME SessionsInv, NEW c \in Callers, NEW next \in Queries, Goto(c, next),
         UNCHANGED <<workload, password, must_change, issued, entry, heirs, raced, set_by, stops>>,
         refresh_tokens' \subseteq refresh_tokens,
         \/ task[c].next = "validate" /\ next = "update"
         \/ task[c].next \in {"push", "purge"} /\ next \in {"purge", "revoke"}
         \/ task[c].next = "rotate" /\ next = "issue" /\ task[c].token \notin refresh_tokens'
  PROVE  SessionsInv'
<1>1. /\ OthersStay(c) /\ task' \in [Callers -> Tasked]
      /\ task'[c].next = next /\ task'[c].op = task[c].op /\ task'[c].token = task[c].token
      /\ task'[c].pw = task[c].pw /\ task'[c].late = task[c].late
  BY GoingOn
<1>2. stops' \in Seq(Queries \cup {"none"}) /\ \A Q \in SUBSET Queries : Stopped(Q) => Stopped(Q)'
  BY DEF SessionsInv, SessionsTypeOK, Stopped
<1>3. PlaceOK(task[c]) /\ issued \in Nat
  BY DEF SessionsInv, SessionsTypeOK
<1>4. PlaceOK(task'[c])
  BY <1>1, <1>3 DEF PlaceOK, Revoking
<1>5. Settled => Carried(task'[c])
  BY <1>1 DEF SessionsInv, Carried
<1>6. task'[c].next = "issue" => task'[c].token \notin refresh_tokens'
  BY <1>1
<1>7. task[c].next \in Revoking => task'[c].op \in Changes /\ task'[c].next \in Revoking
  BY <1>1, <1>3 DEF PlaceOK, Revoking
<1>8. task[c].op = "admin_reset" /\ task[c].next \in Resetting =>
         task'[c].op = "admin_reset" /\ task'[c].next \in Resetting
  BY <1>1 DEF Resetting
<1> QED BY <1>1, <1>2, <1>4, <1>5, <1>6, <1>7, <1>8, TaskKeeps

\* The used token is deleted before a pair is issued for it.
LEMMA RotateKeeps ==
  ASSUME SessionsInv, NEW c \in Callers, Rotate(c), UNCHANGED workload
  PROVE  SessionsInv'
<1>1. /\ UNCHANGED <<password, must_change, issued, entry, heirs, raced, set_by, stops>>
      /\ refresh_tokens' = refresh_tokens \ {task[c].token} /\ task[c].next \in {"drop", "rotate"}
  BY DEF Rotate, delete, account, ghosts
<1>2. CASE task[c].next = "drop"
  <2>1. Return(c)
    BY <1>2 DEF Rotate
  <2> QED BY <1>1, <1>2, <2>1, ReturnKeeps DEF Resetting
<1>3. CASE task[c].next = "rotate"
  <2>1. Goto(c, "issue")
    BY <1>3 DEF Rotate
  <2> QED BY <1>1, <1>3, <2>1, GotoKeeps DEF Queries
<1> QED BY <1>1, <1>2, <1>3

\* The queries of do_password_change that write neither the account nor the tokens.
LEMMA ChangeGoesOnKeeps ==
  ASSUME SessionsInv, NEW c \in Callers, Validate(c) \/ Push(c) \/ Purge(c), UNCHANGED workload
  PROVE  SessionsInv'
<1>1. UNCHANGED <<password, must_change, issued, entry, heirs, raced, set_by, stops, refresh_tokens>>
  BY DEF Validate, Push, Purge, ReadsOnly, account, ghosts
<1>2. CASE Validate(c)
  <2>1. task[c].next = "validate" /\ (Goto(c, "update") \/ Return(c))
    BY <1>2 DEF Validate
  <2>2. CASE Goto(c, "update")
    BY <1>1, <2>1, <2>2, GotoKeeps DEF Queries
  <2>3. CASE Return(c)
    BY <1>1, <2>1, <2>3, ReturnKeeps DEF Resetting
  <2> QED BY <2>1, <2>2, <2>3
<1>3. CASE Push(c) \/ Purge(c)
  <2>1. PICK next \in {"purge", "revoke"} : Goto(c, next) /\ task[c].next \in {"push", "purge"}
    BY <1>3 DEF Push, Purge
  <2> QED BY <1>1, <2>1, GotoKeeps DEF Queries
<1> QED BY <1>2, <1>3

\* A request that stops leaves a mark in front of the query it did not run.
LEMMA StopKeeps ==
  ASSUME SessionsInv, NEW c \in Callers, Stop(c), UNCHANGED workload
  PROVE  SessionsInv'
BY ReturnKeeps DEF Stop, account

\* Steps that write nothing these properties speak of, or delete a token.
LEMMA DeletionKeeps ==
  ASSUME SessionsInv, refresh_tokens' \subseteq refresh_tokens,
         UNCHANGED <<workload, password, must_change, issued, entry, heirs, raced, set_by, stops, task>>
  PROVE  SessionsInv'
<1>1. SessionsTypeOK' /\ HeirsIssued' /\ \A c \in Callers : (PlaceOK(task[c]) /\ Deleted(task[c]))'
  BY DEF SessionsInv, SessionsTypeOK, HeirsIssued, PlaceOK, Deleted
<1>2. (Settled => \A c \in Callers : Carried(task[c]))' /\ ExchangedIsGone' /\ OnlyRacersSurvive'
  BY DEF SessionsInv, Settled, Running, Stopped, Carried, ExchangedIsGone, OnlyRacersSurvive
<1>3. ResetForcesChange'
  BY DEF SessionsInv, ResetForcesChange, Running, Stopped
<1> QED BY <1>1, <1>2, <1>3 DEF SessionsInv

\* All sessions are revoked: the tokens go, and a request past its checks is marked.
LEMMA RevocationKeeps ==
  ASSUME SessionsInv, NEW tasks \in [Callers -> Tasked], delete_all_for_user(tasks),
         UNCHANGED <<workload, password, must_change, issued, entry, heirs, raced, set_by, stops>>,
         \A c \in Callers : PlaceOK(tasks[c]),
         \A c \in Callers : task[c].op = "admin_reset" /\ task[c].next \in Resetting
             => tasks[c].op = "admin_reset" /\ tasks[c].next \in Resetting
  PROVE  SessionsInv'
<1>1. \A c \in Callers :
         /\ task'[c] \in Tasked /\ task'[c].op = tasks[c].op /\ task'[c].next = tasks[c].next
         /\ task'[c].token = tasks[c].token
         /\ tasks[c].next \in {"rotate", "issue"} => task'[c].late
  BY DEF delete_all_for_user, Marked, Task, Tasked
<1>2. refresh_tokens' = {} /\ task' \in [Callers -> Tasked]
  BY <1>1 DEF delete_all_for_user
<1>3. SessionsTypeOK' /\ HeirsIssued' /\ ExchangedIsGone' /\ OnlyRacersSurvive'
  BY <1>2 DEF SessionsInv, SessionsTypeOK, HeirsIssued, ExchangedIsGone, OnlyRacersSurvive
<1>4. \A c \in Callers : (PlaceOK(task[c]) /\ Deleted(task[c]) /\ Carried(task[c]))'
  BY <1>1, <1>2 DEF PlaceOK, Deleted, Carried
<1>5. ResetForcesChange'
  BY <1>1 DEF SessionsInv, ResetForcesChange, Running, Stopped, Resetting
<1> QED BY <1>3, <1>4, <1>5 DEF SessionsInv

\* The last query of do_password_change revokes the sessions.
LEMMA RevokeKeeps ==
  ASSUME SessionsInv, NEW c \in Callers, Revoke(c), UNCHANGED workload
  PROVE  SessionsInv'
<1> DEFINE t == task[c]
           u == IF t.op \in {"admin_reset", "reset"}
                THEN Task(t.op, "finish", t.token, t.pw, t.late) ELSE Idle
           tasks == [task EXCEPT ![c] = u]
<1>1. t \in Tasked /\ t.next = "revoke" /\ delete_all_for_user(tasks)
      /\ UNCHANGED <<password, must_change, issued, entry, heirs, raced, set_by, stops>>
  BY DEF Revoke, SessionsInv, SessionsTypeOK, account, ghosts
<1>2. /\ u \in Tasked /\ u.next \in {"finish", "none"}
      /\ u.next = "finish" => u.op = t.op /\ t.op \in {"admin_reset", "reset"}
      /\ t.op = "admin_reset" => u.next = "finish"
  <2>1. CASE t.op \in {"admin_reset", "reset"}
    BY <1>1, <2>1 DEF Task, Tasked, Queries
  <2>2. CASE t.op \notin {"admin_reset", "reset"}
    BY <2>2, IdleTyped
  <2> QED BY <2>1, <2>2
<1> HIDE DEF u
<1>3. /\ tasks \in [Callers -> Tasked] /\ tasks[c] = u
      /\ \A d \in Callers : d # c => tasks[d] = task[d]
  BY <1>2 DEF SessionsInv, SessionsTypeOK
<1> HIDE DEF tasks
<1>4. PlaceOK(u)
  BY <1>2 DEF PlaceOK, Revoking
<1>5. \A d \in Callers : PlaceOK(tasks[d])
  BY <1>3, <1>4 DEF SessionsInv
<1>6. \A d \in Callers : task[d].op = "admin_reset" /\ task[d].next \in Resetting
         => tasks[d].op = "admin_reset" /\ tasks[d].next \in Resetting
  BY <1>2, <1>3 DEF Resetting
<1> QED BY <1>1, <1>3, <1>5, <1>6, RevocationKeeps

\* A pair is issued: the new token is not one a request holds, its session is the one the
\* request carried, and the token it is exchanged for was deleted before.
LEMMA IssueKeeps ==
  ASSUME SessionsInv, NEW c \in Callers, issue_token_pair(c), UNCHANGED workload
  PROVE  SessionsInv'
<1> DEFINE t == task[c].token
           new == issued + 1
<1>1. /\ task[c].next = "issue" /\ issued < MaxTokens /\ issued' = new
      /\ refresh_tokens' = refresh_tokens \cup {new}
      /\ entry' = [entry EXCEPT ![new] = task[c].pw]
      /\ heirs' = IF t = 0 THEN heirs ELSE [heirs EXCEPT ![t] = @ + 1]
      /\ raced' = IF task[c].late \/ t \in raced THEN raced \cup {new} ELSE raced
      /\ Return(c) /\ UNCHANGED <<password, must_change, set_by, stops>>
  BY DEF issue_token_pair, create, account
<1>2. /\ OthersStay(c) /\ task' \in [Callers -> Tasked] /\ task'[c] = Idle
      /\ task'[c].next = "none" /\ task'[c].op = "none"
  BY <1>1, Returning, IdleTyped
<1>3. /\ SessionsTypeOK /\ HeirsIssued /\ ExchangedIsGone /\ OnlyRacersSurvive /\ ResetForcesChange
      /\ issued \in Nat /\ MaxTokens \in Nat /\ new \in Tokens /\ task[c].pw \in Passwords
      /\ t \in 0 .. issued /\ t \notin refresh_tokens /\ refresh_tokens \subseteq 1 .. issued
  BY <1>1, SessionsAssumption DEF SessionsInv, SessionsTypeOK, PlaceOK, Deleted, Tasked, Tokens
<1>4. /\ entry' \in [Tokens -> Passwords] /\ entry'[new] = task[c].pw
      /\ \A k \in Tokens : k # new => entry'[k] = entry[k]
  BY <1>1, <1>3 DEF SessionsTypeOK
<1>5. /\ heirs' \in [Tokens -> Nat]
      /\ \A k \in Tokens : heirs'[k] > 0 => heirs[k] > 0 \/ k = t
  <2>1. heirs \in [Tokens -> Nat]
    BY <1>3 DEF SessionsTypeOK
  <2>2. CASE t = 0
    BY <1>1, <2>1, <2>2
  <2>3. CASE t # 0
    <3>1. t \in Tokens /\ heirs' = [heirs EXCEPT ![t] = heirs[t] + 1]
      BY <1>1, <1>3, <2>3 DEF Tokens
    <3> QED BY <2>1, <3>1
  <2> QED BY <2>2, <2>3
<1>6. SessionsTypeOK'
  BY <1>1, <1>2, <1>3, <1>4, <1>5 DEF SessionsTypeOK, Tokens
<1>7. HeirsIssued' /\ ExchangedIsGone'
  BY <1>1, <1>3, <1>5 DEF HeirsIssued, ExchangedIsGone, Tokens
<1>8. \A d \in Callers : (PlaceOK(task[d]) /\ Deleted(task[d]))'
  <2> TAKE d \in Callers
  <2>1. CASE d = c
    BY <1>2, <2>1 DEF PlaceOK, Deleted, Revoking
  <2>2. CASE d # c
    <3>1. task'[d] = task[d] /\ PlaceOK(task[d]) /\ Deleted(task[d])
      BY <1>2, <2>2 DEF SessionsInv, OthersStay
    <3>2. task[d].next = "issue" => task[d].token # new
      BY <1>3, <3>1 DEF PlaceOK
    <3>3. 1 .. issued \subseteq 1 .. issued' /\ 0 .. issued \subseteq 0 .. issued'
      BY <1>1, <1>3
    <3>4. PlaceOK(task[d])'
      BY <3>1, <3>3 DEF PlaceOK
    <3>5. Deleted(task[d])'
      BY <1>1, <3>1, <3>2 DEF Deleted
    <3> QED BY <3>4, <3>5
  <2> QED BY <2>1, <2>2
<1>9. Settled' => Settled
  BY <1>1, <1>2 DEF Settled, Running, Stopped, Revoking, OthersStay
<1>10. ASSUME Settled' PROVE \A d \in Callers : Carried(task[d])'
  BY <1>1, <1>2, <1>9, <1>10 DEF SessionsInv, Carried, OthersStay
<1>11. OnlyRacersSurvive'
  <2> SUFFICES ASSUME Settled', NEW k \in refresh_tokens'
               PROVE  entry'[k] = password \/ k \in raced'
    BY <1>1 DEF OnlyRacersSurvive, Settled, Revoking
  <2>1. Carried(task[c])
    BY <1>9 DEF SessionsInv
  <2>2. CASE k = new
    BY <1>1, <1>4, <2>1, <2>2 DEF Carried
  <2>3. CASE k # new
    <3>1. k \in refresh_tokens
      BY <1>1, <2>3
    <3>2. k \in Tokens
      BY <1>3, <3>1 DEF Tokens
    <3>3. entry[k] = password \/ k \in raced
      BY <1>3, <1>9, <3>1 DEF OnlyRacersSurvive, Settled, Revoking
    <3>4. entry'[k] = entry[k] /\ raced \subseteq raced'
      BY <1>1, <1>4, <2>3, <3>2
    <3> QED BY <3>3, <3>4
  <2> QED BY <2>2, <2>3
<1>12. ResetForcesChange'
  BY <1>1, <1>2, <1>3 DEF ResetForcesChange, Running, Stopped, OthersStay
<1> QED BY <1>6, <1>7, <1>8, <1>10, <1>11, <1>12 DEF SessionsInv

\* The new password is written: its change is on the way to the revocation.
LEMMA UpdateKeeps ==
  ASSUME SessionsInv, NEW c \in Callers, update_password(c), UNCHANGED workload
  PROVE  SessionsInv'
<1>1. /\ task[c].next = "update" /\ password' = task[c].pw /\ must_change' = FALSE
      /\ set_by' = task[c].op /\ Goto(c, "push")
      /\ UNCHANGED <<refresh_tokens, issued, entry, heirs, raced, stops>>
  BY DEF update_password
<1>2. /\ OthersStay(c) /\ task' \in [Callers -> Tasked]
      /\ task'[c].next = "push" /\ task'[c].op = task[c].op
  BY <1>1, GoingOn DEF Queries
<1>3. task[c].op \in Changes /\ task[c].pw \in Passwords
  BY <1>1 DEF SessionsInv, SessionsTypeOK, PlaceOK, Tasked
<1>4. SessionsTypeOK' /\ HeirsIssued' /\ ExchangedIsGone'
  BY <1>1, <1>2, <1>3 DEF SessionsInv, SessionsTypeOK, HeirsIssued, ExchangedIsGone
<1>5. \A d \in Callers : (PlaceOK(task[d]) /\ Deleted(task[d]))'
  BY <1>1, <1>2, <1>3 DEF SessionsInv, OthersStay, PlaceOK, Deleted, Revoking
<1>6. c \in Running(Changes, Revoking)'
  BY <1>2, <1>3 DEF Running, Revoking
<1>7. ~Settled' /\ OnlyRacersSurvive'
  BY <1>6 DEF Settled, OnlyRacersSurvive, Revoking
<1>8. ResetForcesChange'
  BY <1>1, <1>2 DEF ResetForcesChange, Running
<1> QED BY <1>4, <1>5, <1>7, <1>8 DEF SessionsInv

\* The last query of a reset: the administrator's sets the flag.
LEMMA FinishKeeps ==
  ASSUME SessionsInv, NEW c \in Callers, Finish(c), UNCHANGED workload
  PROVE  SessionsInv'
<1>1. /\ task[c].next = "finish" /\ must_change' = (must_change \/ task[c].op = "admin_reset")
      /\ Return(c)
      /\ UNCHANGED <<password, refresh_tokens, issued, entry, heirs, raced, set_by, stops>>
  BY DEF Finish, set_must_change, ghosts
<1>2. /\ OthersStay(c) /\ task' \in [Callers -> Tasked] /\ task'[c] = Idle
      /\ task'[c].next = "none" /\ task'[c].op = "none"
  BY <1>1, Returning, IdleTyped
<1>3. SessionsTypeOK' /\ HeirsIssued' /\ ExchangedIsGone'
  BY <1>1, <1>2 DEF SessionsInv, SessionsTypeOK, HeirsIssued, ExchangedIsGone
<1>4. \A d \in Callers : (PlaceOK(task[d]) /\ Deleted(task[d]))'
  BY <1>1, <1>2 DEF SessionsInv, OthersStay, PlaceOK, Deleted, Revoking
<1>5. Settled' => Settled
  BY <1>1, <1>2 DEF Settled, Running, Stopped, Revoking, OthersStay
<1>6. Settled' => \A d \in Callers : Carried(task[d])'
  BY <1>1, <1>2, <1>5 DEF SessionsInv, Carried, OthersStay
<1>7. OnlyRacersSurvive'
  BY <1>1, <1>5 DEF SessionsInv, OnlyRacersSurvive, Settled, Revoking
<1>8. ResetForcesChange'
  BY <1>1, <1>2 DEF SessionsInv, ResetForcesChange, Running, Stopped, OthersStay
<1> QED BY <1>3, <1>4, <1>6, <1>7, <1>8 DEF SessionsInv

-----------------------------------------------------------------------------
\* No token is stored and no request runs.
LEMMA SessionsInit ==
  ASSUME Init
  PROVE  SessionsInv
<1>1. \A c \in Callers : task[c] = Idle
  BY DEF Init
<1>2. SessionsTypeOK
  <2>1. task \in [Callers -> Tasked]
    BY IdleTyped DEF Init
  <2>2. <<>> \in Seq(Queries \cup {"none"})
    OBVIOUS
  <2>3. entry \in [Tokens -> Passwords] /\ heirs \in [Tokens -> Nat]
    BY SessionsAssumption DEF Init
  <2>4. /\ workload \in Workloads /\ password \in Passwords /\ must_change \in BOOLEAN
        /\ refresh_tokens \subseteq 1 .. issued /\ stops = <<>>
    BY SessionsAssumption DEF Init
  <2>5. issued \in 0 .. MaxTokens
    BY SessionsAssumption DEF Init
  <2> QED BY <2>1, <2>2, <2>3, <2>4, <2>5 DEF SessionsTypeOK
<1>3. HeirsIssued /\ ExchangedIsGone /\ OnlyRacersSurvive /\ ResetForcesChange
  BY DEF Init, HeirsIssued, ExchangedIsGone, OnlyRacersSurvive, ResetForcesChange
<1>4. \A c \in Callers : PlaceOK(task[c]) /\ Deleted(task[c]) /\ Carried(task[c])
  BY <1>1, IdleTyped DEF PlaceOK, Deleted, Carried, Revoking
<1> QED BY <1>2, <1>3, <1>4 DEF SessionsInv

\* Every request keeps the invariant when it begins.
LEMMA RequestKeeps ==
  ASSUME SessionsInv, NEW c \in Callers, Request(c), UNCHANGED workload
  PROVE  SessionsInv'
<1>1. CASE login(c)
  BY <1>1, LoginKeeps
<1>2. CASE revoke_all_sessions(c)
  <2>1. /\ delete_all_for_user(task) /\ task \in [Callers -> Tasked]
        /\ UNCHANGED <<password, must_change, issued, entry, heirs, raced, set_by, stops>>
        /\ \A d \in Callers : PlaceOK(task[d])
    BY <1>2 DEF revoke_all_sessions, account, ghosts, SessionsInv, SessionsTypeOK
  <2> QED BY <2>1, RevocationKeeps
<1>3. ASSUME NEW k \in Tokens, refresh(c, k) PROVE SessionsInv'
  BY <1>3, RefreshKeeps
<1>4. ASSUME NEW k \in Tokens, logout(c, k) PROVE SessionsInv'
  BY <1>4, DeletionKeeps DEF logout, delete, account, ghosts
<1>5. ASSUME NEW r \in Resets, forgot_password(c, r) PROVE SessionsInv'
  BY <1>5, DeletionKeeps DEF forgot_password, account, ghosts
<1>6. ASSUME NEW new \in workload.passwords,
             change_password(c, new) \/ change_required(c, new) \/ admin_reset_password(c, new)
      PROVE  SessionsInv'
  <2>1. PICK op \in Changes : Begin(c, Task(op, "validate", 0, new, FALSE)) /\ ReadsOnly
    BY <1>6 DEF change_password, change_required, admin_reset_password, Changes
  <2> QED BY <2>1, ChangeBegins
<1>7. ASSUME NEW new \in workload.passwords, NEW r \in Resets, reset_password(c, r, new)
      PROVE  SessionsInv'
  <2>1. "reset" \in Changes /\ r \in Nat
    BY SessionsAssumption DEF Changes, Resets
  <2>2. Begin(c, Task("reset", "validate", r, new, FALSE)) /\ ReadsOnly
    BY <1>7 DEF reset_password
  <2> QED BY <2>1, <2>2, ChangeBegins
<1> QED BY <1>1, <1>2, <1>3, <1>4, <1>5, <1>6, <1>7 DEF Request

\* Every step of a request, every stop and every expiry keeps the invariant.
LEMMA SessionsNext ==
  ASSUME SessionsInv, [Next]_vars
  PROVE  SessionsInv'
<1>1. CASE UNCHANGED vars
  BY <1>1, DeletionKeeps DEF vars
<1>2. ASSUME NEW c \in Callers, Request(c), UNCHANGED workload PROVE SessionsInv'
  BY <1>2, RequestKeeps
<1>3. ASSUME NEW c \in Callers, Query(c), UNCHANGED workload PROVE SessionsInv'
  BY <1>3, RotateKeeps, IssueKeeps, ChangeGoesOnKeeps, UpdateKeeps, RevokeKeeps, FinishKeeps
     DEF Query
<1>4. ASSUME NEW c \in Callers, Stop(c), UNCHANGED workload PROVE SessionsInv'
  BY <1>4, StopKeeps
<1>5. ASSUME NEW k \in Tokens, TokenLapses(k), UNCHANGED workload PROVE SessionsInv'
  BY <1>5, DeletionKeeps DEF TokenLapses, account, ghosts
<1>6. ASSUME NEW r \in Resets, ResetLapses(r), UNCHANGED workload PROVE SessionsInv'
  BY <1>6, DeletionKeeps DEF ResetLapses, account, ghosts
<1>7. ASSUME PasswordExpires, UNCHANGED workload PROVE SessionsInv'
  BY <1>7, DeletionKeeps DEF PasswordExpires, ghosts
<1> QED BY <1>1, <1>2, <1>3, <1>4, <1>5, <1>6, <1>7 DEF Next

\* The invariant holds of every behaviour.
LEMMA SessionsInvHolds == Spec => []SessionsInv
BY SessionsInit, SessionsNext, PTL DEF Spec

\* A refresh token that was exchanged for a pair is no longer stored, however refreshes,
\* logouts, revocations, password changes and stopped requests interleave.
THEOREM ExchangedTokensAreGone == Spec => []ExchangedIsGone
<1>1. SessionsInv => ExchangedIsGone
  BY DEF SessionsInv
<1> QED BY <1>1, SessionsInvHolds, PTL

\* After a password change has revoked the sessions, a stored token was opened with the
\* password in force or carried across the revocation by a request already past its checks.
THEOREM OldSessionsEnd == Spec => []OnlyRacersSurvive
<1>1. SessionsInv => OnlyRacersSurvive
  BY DEF SessionsInv
<1> QED BY <1>1, SessionsInvHolds, PTL

\* A password set by an administrator has to be changed once its reset has run to its end,
\* whatever other changes and resets of the account run beside it.
THEOREM AdminResetsForceChange == Spec => []ResetForcesChange
<1>1. SessionsInv => ResetForcesChange
  BY DEF SessionsInv
<1> QED BY <1>1, SessionsInvHolds, PTL
=============================================================================
