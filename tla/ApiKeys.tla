------------------------------ MODULE ApiKeys -------------------------------
(***************************************************************************)
(* API keys: the rows of api_keys, the handlers of admin/api_keys.rs that  *)
(* change them, and the two layers every proxy request passes, api_key_auth*)
(* and model_scope of middleware.rs, with the in-memory key cache.         *)
(*                                                                         *)
(* A secret is a number; it stands for itself and                          *)
(* for its argon2 hash, which verify_key compares.  The prefix a row is    *)
(* looked up by is a function of the secret, and two secrets may share it. *)
(* The handlers and the layers run one database query at a time, so a row  *)
(* may change between a query and the use of its answer.                   *)
(***************************************************************************)
EXTENDS Integers

CONSTANTS
    Requests,       \* the proxy requests of a behaviour
    Managers,        \* administration requests that can be in progress at a time
    KeyIds,            \* primary keys of api_keys
    Orgs, Users,    \* tenants and their users
    Claims,         \* the claims of the administrators' tokens
    Models,         \* model names a request can ask for
    Scopes,         \* what allowed_models of a new key can be
    NoModel,        \* a body without a "model" string
    NoRow,          \* no row, no cache entry, or no key attached yet
    MaxSecret,      \* bound: secrets issued in a behaviour
    MaxWrites,      \* bound: administration writes in a behaviour
    MaxTime,        \* bound: the clock
    PrefixOf(_),    \* extract_prefix
    InitialRows     \* the tables a behaviour can start from

Secrets == 1 .. MaxSecret
Texts == 0 .. MaxSecret       \* what a bearer token can be; 0 is no secret at all
Never == MaxTime + 1          \* expires_at = NULL

\* The columns of api_keys that the layers read.  No allowed_models means any model.
ApiKey == [id : KeyIds, secret : Secrets, user : Users, organization : Orgs,
           allowed_models : SUBSET Models, expires_at : 0 .. Never, disabled : BOOLEAN]

ASSUME ApiKeysAssumption ==
    /\ {MaxSecret, MaxWrites, MaxTime} \subseteq Nat
    /\ Claims \subseteq [user : Users, organization : Orgs, role : STRING]
    /\ Scopes \subseteq SUBSET Models
    /\ NoRow \notin ApiKey \cup KeyIds
    /\ NoModel \notin Models
    /\ \A rows \in InitialRows :
          /\ rows \in [KeyIds -> ApiKey \cup {NoRow}]
          /\ \A k \in KeyIds : rows[k] # NoRow => rows[k].id = k
          /\ \A j, k \in KeyIds : rows[j] # NoRow /\ rows[k] # NoRow /\ j # k
                => rows[j].secret # rows[k].secret

VARIABLES
    keys,       \* the table api_keys
    cache,      \* AppState.api_key_cache: raw key -> row
    now,        \* the wall clock
    request,    \* where each proxy request is
    call,       \* where each administration request is
    \* The rest is history, which no code reads.
    holder,     \* the id each issued secret was issued for, or NoRow
    looked,     \* the secrets a lookup found live
    fresh,      \* requests whose secret was live at some moment since they came
    writes      \* administration writes so far

kvars == <<keys, cache, now, request, call, holder, looked, fresh, writes>>

At(pc, s, row, hit) == [pc |-> pc, secret |-> s, found |-> {}, key |-> row, hit |-> hit]
AtRest == At("idle", 0, NoRow, FALSE)
Refused == At("refused", 0, NoRow, FALSE)

Rows == {k \in KeyIds : keys[k] # NoRow}
LiveRow(s) == \E k \in Rows : keys[k].secret = s /\ ~keys[k].disabled
LookedForLive ==
    {r \in Requests : request[r].pc \in {"query", "verify"} /\ LiveRow(request[r].secret)}

KInit ==
    /\ keys \in InitialRows
    /\ cache = [s \in Texts |-> NoRow]
    /\ now = 0
    /\ request = [r \in Requests |-> AtRest]
    /\ call = [c \in Managers |-> [pc |-> "idle"]]
    /\ holder = [s \in Secrets |->
                    IF \E k \in Rows : keys[k].secret = s
                    THEN CHOOSE k \in Rows : keys[k].secret = s ELSE NoRow]
    /\ looked = {}
    /\ fresh = {}
    /\ writes = 0

-----------------------------------------------------------------------------
(* The layers a proxy request passes.                                      *)

\* The header is read and the cache consulted without a query in between.
Cached(s) == cache[s] # NoRow /\ ~cache[s].disabled /\ cache[s].expires_at > now

Unauthorized(r) ==                             \* no bearer token
    /\ request[r].pc = "idle"
    /\ request' = [request EXCEPT ![r] = Refused]
    /\ UNCHANGED <<keys, cache, now, call, holder, looked, writes>>

api_key_auth(r, s) ==
    /\ request[r].pc = "idle"
    /\ s \in Secrets => holder[s] # NoRow            \* a secret is known once issued
    /\ request' = [request EXCEPT ![r] =
            IF Cached(s)
            THEN At("scope", s, cache[s], TRUE)
            ELSE At("query", s, NoRow, FALSE)]
    /\ UNCHANGED <<keys, cache, now, call, holder, looked, writes>>

\* Mutant: rows of blocked keys are found as well.
get_by_prefix_any(p) == {keys[k] : k \in {j \in Rows : PrefixOf(keys[j].secret) = p}}

\* WHERE key_prefix = $1 AND disabled = FALSE
get_by_prefix(p) ==
    {keys[k] : k \in {j \in Rows : PrefixOf(keys[j].secret) = p /\ ~keys[j].disabled}}

Verified(found, s) == {row \in found : row.secret = s}

QueryPrefix(r) ==
    LET found == get_by_prefix(PrefixOf(request[r].secret)) IN
    /\ request[r].pc = "query"
    /\ request' = [request EXCEPT ![r].pc = "verify", ![r].found = found]
    /\ looked' = IF Verified(found, request[r].secret) = {} THEN looked
                 ELSE looked \cup {request[r].secret}
    /\ UNCHANGED <<keys, cache, now, call, holder, writes>>

\* Mutant: when the database fails, what was cached is served.
QueryFails_stale(r) ==
    /\ request[r].pc = "query"
    /\ cache[request[r].secret] # NoRow
    /\ request' = [request EXCEPT ![r].pc = "scope", ![r].key = cache[request[r].secret]]
    /\ UNCHANGED <<keys, cache, now, call, holder, looked, writes>>

QueryFails(r) ==                               \* 500
    /\ request[r].pc = "query"
    /\ request' = [request EXCEPT ![r] = Refused]
    /\ UNCHANGED <<keys, cache, now, call, holder, looked, writes>>

Accept(r, row) ==
    /\ row \in Verified(request[r].found, request[r].secret)
    /\ ~row.disabled
    /\ row.expires_at >= now
    /\ cache' = [cache EXCEPT ![request[r].secret] = row]
    /\ request' = [request EXCEPT ![r].pc = "scope", ![r].key = row, ![r].found = {}]

Refuse(r) ==
    /\ \A row \in Verified(request[r].found, request[r].secret) :
          row.disabled \/ row.expires_at < now
    /\ request' = [request EXCEPT ![r] = Refused]
    /\ UNCHANGED cache

Verify(r) ==
    /\ request[r].pc = "verify"
    /\ Refuse(r) \/ \E row \in request[r].found : Accept(r, row)
    /\ UNCHANGED <<keys, now, call, holder, looked, writes>>

is_model_allowed(row, m) == row.allowed_models = {} \/ m \in row.allowed_models

\* The model is read from the body here; m is what the body says.
model_scope(r, m) ==
    /\ request[r].pc = "scope"
    /\ request' = [request EXCEPT ![r] =
            IF m = NoModel \/ is_model_allowed(@.key, m)
            THEN [@ EXCEPT !.pc = "served"] ELSE [@ EXCEPT !.pc = "forbidden"]]
    /\ UNCHANGED <<keys, cache, now, call, holder, looked, writes>>

-----------------------------------------------------------------------------
(* The administration.  Each handler reads the row, checks it, then writes.*)

can_manage_api_keys(role) == role \in {"super_admin", "org_admin", "team_admin"}

\* What generate_api_key can return: a random text, never one issued before.
generate_api_key == {s \in Secrets : holder[s] = NoRow}

create_api_key(claims, k, s, allowed) ==
    /\ writes < MaxWrites
    /\ s \in generate_api_key
    /\ can_manage_api_keys(claims.role)
    /\ k \notin Rows
    /\ \A t \in Secrets : holder[t] # k             \* gen_random_uuid
    /\ keys' = [keys EXCEPT ![k] =
            [id |-> k, secret |-> s, user |-> claims.user,
             organization |-> claims.organization, allowed_models |-> allowed,
             expires_at |-> Never, disabled |-> FALSE]]
    /\ holder' = [holder EXCEPT ![s] = k]
    /\ writes' = writes + 1
    /\ UNCHANGED <<cache, now, request, call, looked>>

\* get_by_id and the check of the organization; a request that is refused here
\* changes nothing.
Check(c, op, k, claims) ==
    /\ call[c].pc = "idle"
    /\ writes < MaxWrites
    /\ k \in Rows
    /\ claims.role = "super_admin" \/ keys[k].organization = claims.organization
    /\ call' = [call EXCEPT ![c] = [pc |-> "write", op |-> op, id |-> k]]
    /\ writes' = writes + 1
    /\ UNCHANGED <<keys, cache, now, request, holder, looked>>

\* Only delete_api_key asks for can_manage_api_keys.
delete_api_key(c, k, claims) == can_manage_api_keys(claims.role) /\ Check(c, "delete_api_key", k, claims)
block_key(c, k, claims)      == Check(c, "block_key", k, claims)
unblock_key(c, k, claims)    == Check(c, "unblock_key", k, claims)
regenerate(c, k, claims)     == Check(c, "regenerate_key", k, claims)

delete_row(k) == keys' = [keys EXCEPT ![k] = NoRow] /\ UNCHANGED holder

set_active(k, active) ==
    /\ keys' = [keys EXCEPT ![k].disabled = ~active]
    /\ UNCHANGED holder

regenerate_key(k) ==
    \E s \in generate_api_key :
        /\ keys' = [keys EXCEPT ![k].secret = s]
        /\ holder' = [holder EXCEPT ![s] = k]

\* A row that is gone by now: deleting it is not an error, the others answer 404.
Write(c) ==
    /\ call[c].pc = "write"
    /\ IF call[c].id \in Rows
       THEN CASE call[c].op = "delete_api_key" -> delete_row(call[c].id)
              [] call[c].op = "block_key" -> set_active(call[c].id, FALSE)
              [] call[c].op = "unblock_key" -> set_active(call[c].id, TRUE)
              [] call[c].op = "regenerate_key" -> regenerate_key(call[c].id)
       ELSE UNCHANGED <<keys, holder>>
    /\ call' = [call EXCEPT ![c] = [pc |-> "idle"]]
    /\ UNCHANGED <<cache, now, request, looked, writes>>

\* Deleting a user deletes the keys it made (ON DELETE CASCADE).
delete_user(u) ==
    /\ writes < MaxWrites
    /\ \E k \in Rows : keys[k].user = u
    /\ keys' = [k \in KeyIds |-> IF k \in Rows /\ keys[k].user = u THEN NoRow ELSE keys[k]]
    /\ writes' = writes + 1
    /\ UNCHANGED <<cache, now, request, call, holder, looked>>

Tick ==
    /\ now < MaxTime
    /\ now' = now + 1
    /\ UNCHANGED <<keys, cache, request, call, holder, looked, writes>>

-----------------------------------------------------------------------------
KStep ==
    \/ \E r \in Requests :
          \/ Unauthorized(r) \/ QueryPrefix(r) \/ QueryFails(r) \/ Verify(r)
          \/ \E s \in Texts : api_key_auth(r, s)
          \/ \E m \in Models \cup {NoModel} : model_scope(r, m)
    \/ \E claims \in Claims, k \in KeyIds :
          \/ \E s \in Secrets, allowed \in Scopes : create_api_key(claims, k, s, allowed)
          \/ \E c \in Managers :
                \/ delete_api_key(c, k, claims) \/ block_key(c, k, claims)
                \/ unblock_key(c, k, claims) \/ regenerate(c, k, claims)
    \/ \E c \in Managers : Write(c)
    \/ \E u \in Users : delete_user(u)
    \/ Tick

\* A request stays fresh once its secret was live while it was being looked up.
Observe == fresh' = fresh \cup LookedForLive'

KNext == KStep /\ Observe

KSpec == KInit /\ [][KNext]_kvars

-----------------------------------------------------------------------------
(* Properties.                                                             *)

\* A request that api_key_auth did not answer from the cache passes only if its secret
\* was live at some moment since it came: a key blocked, regenerated or deleted before
\* that is refused, whatever the administration does while the query is running.
FreshUnlessCached ==
    \A r \in Requests : request[r].key # NoRow /\ ~request[r].hit => r \in fresh

\* What KeyGate sees of the rows and of the requests.
statusOf == [s \in Secrets |->
    CASE holder[s] = NoRow -> "unissued"
      [] LiveRow(s) -> "live"
      [] \E k \in Rows : keys[k].secret = s /\ keys[k].disabled -> "blocked"
      [] OTHER -> "retired"]
admittedBy == {request[r].secret : r \in {q \in Requests : request[q].key # NoRow}}

Gate == INSTANCE KeyGate WITH status <- statusOf, known <- looked, admitted <- admittedBy

\* api_key_auth and the handlers of admin/api_keys.rs implement KeyGate: a secret lives once,
\* is retired for good, and passes only after a lookup found it live.
GateSpec == Gate!Spec
=============================================================================
