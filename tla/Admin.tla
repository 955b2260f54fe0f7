------------------------------- MODULE Admin --------------------------------
(***************************************************************************)
(* The administration of tenants and of the model catalogue: the handlers  *)
(* of admin/{users,teams,organizations,end_users,models,model_aliases,     *)
(* provider_profiles}.rs over the tables their repositories query.         *)
(*                                                                         *)
(* A handler is authorised by the claims of an access token, which are a   *)
(* copy of the user's row made at sign-in; it then reads, checks and       *)
(* writes in separate queries without a transaction.  A PATCH is a read of *)
(* the row and an UPDATE of all its columns.  A handler may be dropped     *)
(* between two queries (the client hangs up).                              *)
(*                                                                         *)
(* A request that is refused, finds no row or breaks a constraint changes  *)
(* nothing; only the ones that go on are steps.                            *)
(***************************************************************************)
EXTENDS Integers, FiniteSets

CONSTANTS
    Administrators,        \* handlers that can run at the same time
    Ids,            \* table -> the primary keys its rows can have
    InitDb,         \* table -> id -> row: where a behaviour starts
    InitMembers,    \* the rows of team_memberships it starts with
    Duties,      \* what the administrators of a behaviour send: sets of requests
    Absent, Gone,   \* an id not used yet, and one whose row was deleted
    MaxCalls        \* bound: requests in a behaviour

Tables == {"users", "teams", "organizations", "models", "profiles"}

ASSUME AdminAssumption ==
    /\ Ids \in [Tables -> SUBSET UNION {Ids[t] : t \in Tables}]
    /\ DOMAIN InitDb = Tables
    /\ MaxCalls \in Nat

VARIABLES
    duty,   \* fixed in a behaviour
    db,         \* the rows of each table
    members,    \* team_memberships
    aliases,    \* model_aliases
    endusers,   \* end_users
    tokens,     \* the claims of the access tokens signed so far
    job,       \* what each handler is about to do
    \* The rest is history, which no code reads.
    supers,     \* users that have ever been super_admin
    given,      \* <<user, role or organization>> given by a caller entitled to
    crossed,    \* columns that others changed since a PATCH read the row it merges into
    behind,     \* memberships that their user has had since before its last move
    torn,       \* users moved while two PATCHes of them overlapped, or without the purge
    calls       \* requests so far

avars == <<duty, db, members, aliases, endusers, tokens, job, supers, given, crossed, behind, torn,
           calls>>

Free == [pc |-> "idle"]
Exists(t, id) == db[t][id] \notin {Absent, Gone}
Row(t, id) == db[t][id]
SuperAdmins == {u \in Ids["users"] : Exists("users", u) /\ Row("users", u).role = "super_admin"}
ClaimsOf(u) == [user |-> u, organization |-> Row("users", u).organization,
                role |-> Row("users", u).role]

AInit ==
    /\ duty \in Duties
    /\ db = InitDb
    /\ members = InitMembers
    /\ aliases = {}
    /\ endusers = {}
    /\ tokens = {ClaimsOf(u) : u \in {v \in Ids["users"] : Exists("users", v)}}
    /\ job = [c \in Administrators |-> Free]
    /\ supers = SuperAdmins
    /\ given = {<<u, Row("users", u).organization>> : u \in {v \in Ids["users"] : Exists("users", v)}}
                \cup {<<u, "super_admin">> : u \in SuperAdmins}
    /\ crossed = [c \in Administrators |-> {}]
    /\ behind = {} /\ torn = {}
    /\ calls = 0

-----------------------------------------------------------------------------
(* Who may do what.                                                        *)

is_super(claims) == claims.role = "super_admin"
can_manage_users(claims) == claims.role \in {"super_admin", "org_admin"}
check_same_org(claims, row) == is_super(claims) \/ row.organization = claims.organization
check_not_acting_on_super_admin(claims, row) == is_super(claims) \/ row.role # "super_admin"

\* Mutant: one's own account can be deleted.
MayDelete_self(claims, q) ==
    /\ can_manage_users(claims)
    /\ check_same_org(claims, Row("users", q.id))
    /\ check_not_acting_on_super_admin(claims, Row("users", q.id))

\* Mutant: whoever may manage users may make one super_admin.
MayUpdate_any_role(claims, q) ==
    /\ can_manage_users(claims)
    /\ "role" \in DOMAIN q.set => claims.user # q.id
    /\ check_same_org(claims, Row("users", q.id))
    /\ check_not_acting_on_super_admin(claims, Row("users", q.id))
    /\ "organization" \in DOMAIN q.set => is_super(claims)

\* update_user and delete_user: never one's own role or account, and then the checks
\* above on the row that was read.
MayUpdate(claims, q) ==
    /\ can_manage_users(claims)
    /\ "role" \in DOMAIN q.set => claims.user # q.id
    /\ check_same_org(claims, Row("users", q.id))
    /\ check_not_acting_on_super_admin(claims, Row("users", q.id))
    /\ "organization" \in DOMAIN q.set => is_super(claims)
    /\ "role" \in DOMAIN q.set /\ q.set.role = "super_admin" => is_super(claims)

MayDelete(claims, q) ==
    /\ can_manage_users(claims)
    /\ claims.user # q.id
    /\ check_same_org(claims, Row("users", q.id))
    /\ check_not_acting_on_super_admin(claims, Row("users", q.id))

MayManageTeam(claims, q) ==
    can_manage_users(claims) /\ check_same_org(claims, Row("teams", q.id))

-----------------------------------------------------------------------------
(* The columns of a row after a PATCH that was built on the row seen.      *)

Merge(seen, set) == [f \in DOMAIN seen |-> IF f \in DOMAIN set THEN set[f] ELSE seen[f]]

\* No capability at all means chat.
parse_capabilities(caps) == IF caps = {} THEN {"chat"} ELSE caps
Parsed(t, set) ==
    [f \in DOMAIN set |-> IF t = "models" /\ f = "capabilities"
                          THEN parse_capabilities(set[f]) ELSE set[f]]

\* Foreign keys: an INSERT or UPDATE that names a row that is not there is an error.
References(t, row) ==
    CASE t \in {"users", "teams"} -> Exists("organizations", row.organization)
      [] t = "models" -> Exists("profiles", row.profile)
      [] OTHER -> TRUE
\* The UNIQUE constraints; that of aliases is in InsertAlias.
UniqueKey(t, row) ==
    CASE t = "users" -> <<row.email>> [] t = "profiles" -> <<row.name>>
      [] t = "models" -> <<row.profile, row.public_id>>
Unique(t, id, row) ==
    t \in {"users", "profiles", "models"} => \A other \in Ids[t] \ {id} :
        Exists(t, other) => UniqueKey(t, Row(t, other)) # UniqueKey(t, row)

Put(t, id, row) == db' = [db EXCEPT ![t][id] = row]
Enter(c, t) == job' = [job EXCEPT ![c] = t]
Leave(c) == job' = [job EXCEPT ![c] = Free]

\* A new request of caller c, answered under the given claims.
Arrives(c, claims, q, op) ==
    /\ calls < MaxCalls
    /\ job[c].pc = "idle"
    /\ claims \in tokens
    /\ q \in duty
    /\ q.op = op
    /\ calls' = calls + 1
    /\ UNCHANGED <<duty, tokens>>

-----------------------------------------------------------------------------
(* PATCH.                                                                  *)

Patching(q, t, claims, pc, moves) ==
    [pc |-> pc, op |-> q.op, table |-> t, id |-> q.id, set |-> Parsed(t, q.set),
     by |-> claims, moves |-> moves, seen |-> Row(t, q.id)]

\* users.rs reads the target for the checks, then UserRepository::update reads it again.
update_user(c, claims, q) ==
    /\ Arrives(c, claims, q, "update_user")
    /\ Exists("users", q.id)
    /\ MayUpdate(claims, q)
    /\ Enter(c, Patching(q, "users", claims, "current",
                "organization" \in DOMAIN q.set
                    /\ q.set.organization # Row("users", q.id).organization))
    /\ UNCHANGED <<db, members, aliases, given, endusers>>

\* teams.rs merges into the team it read for the check.
update_team(c, claims, q) ==
    /\ Arrives(c, claims, q, "update_team")
    /\ Exists("teams", q.id)
    /\ MayManageTeam(claims, q)
    /\ Enter(c, Patching(q, "teams", claims, "write", FALSE))
    /\ UNCHANGED <<db, members, aliases, given, endusers>>

\* The others read in the repository only.
update_global(c, claims, q, op, t) ==
    /\ Arrives(c, claims, q, op)
    /\ is_super(claims)
    /\ Exists(t, q.id)
    /\ Enter(c, Patching(q, t, claims, "write", FALSE))
    /\ UNCHANGED <<db, members, aliases, given, endusers>>

update_organization(c, claims, q) == update_global(c, claims, q, "update_organization", "organizations")
update_model(c, claims, q)        == update_global(c, claims, q, "update_model", "models")
update_profile(c, claims, q)      == update_global(c, claims, q, "update_profile", "profiles")

\* Mutant: the row that was read for the checks is the one merged into.
Current_first(c) ==
    /\ job[c].pc = "current"
    /\ IF Exists(job[c].table, job[c].id) THEN job' = [job EXCEPT ![c].pc = "write"] ELSE Leave(c)
    /\ UNCHANGED <<duty, db, members, aliases, tokens, given, calls, endusers>>

Current(c) ==
    /\ job[c].pc = "current"
    /\ IF Exists(job[c].table, job[c].id)
       THEN job' = [job EXCEPT ![c].pc = "write",
                                 ![c].seen = Row(job[c].table, job[c].id)]
       ELSE Leave(c)
    /\ UNCHANGED <<duty, db, members, aliases, tokens, given, calls, endusers>>

\* The columns each UPDATE sets, from the row seen where the request is silent.  The
\* credentials of a profile are not among them.
user_columns         == {"name", "role", "organization"}
team_columns         == {"name", "budget"}
organization_columns == {"name", "limit"}
model_columns        == {"public_id", "capabilities"}
profile_columns      == {"base_url", "allow_wildcard", "enabled"}

Columns(t) ==
    CASE t = "users" -> user_columns [] t = "teams" -> team_columns
      [] t = "organizations" -> organization_columns [] t = "models" -> model_columns
      [] t = "profiles" -> profile_columns

Written(k) == [f \in DOMAIN k.seen |-> IF f \in Columns(k.table) THEN Merge(k.seen, k.set)[f]
                                       ELSE Row(k.table, k.id)[f]]

\* Mutant: whether the user moves is found out after the UPDATE.
AfterUpdate_late(c) ==
    LET k == job[c] IN
    CASE k.moves /\ k.set.organization # db'[k.table][k.id].organization ->
            Enter(c, [k EXCEPT !.pc = "purge"])
      [] k.table = "profiles" /\ "auth" \in DOMAIN k.set -> Enter(c, [k EXCEPT !.pc = "auth"])
      [] OTHER -> Leave(c)

AfterUpdate(c) ==
    LET k == job[c] IN
    CASE k.moves -> Enter(c, [k EXCEPT !.pc = "purge"])
      [] k.table = "profiles" /\ "auth" \in DOMAIN k.set -> Enter(c, [k EXCEPT !.pc = "auth"])
      [] OTHER -> Leave(c)

Update(c) ==
    LET k == job[c] IN
    /\ k.pc = "write"
    /\ IF Exists(k.table, k.id) /\ References(k.table, Written(k))
            /\ Unique(k.table, k.id, Written(k))
       THEN /\ Put(k.table, k.id, Written(k))
            /\ given' = IF k.table = "users" /\ is_super(k.by)
                        THEN given \cup {<<k.id, k.set[f]>> : f \in DOMAIN k.set \cap {"role", "organization"}}
                        ELSE given
            /\ AfterUpdate(c)
       ELSE Leave(c) /\ UNCHANGED <<db, given>>
    /\ UNCHANGED <<duty, members, aliases, tokens, calls, endusers>>

\* remove_all_for_user, once the user has moved to another organization.
PurgeMemberships(c) ==
    /\ job[c].pc = "purge"
    /\ members' = {m \in members : m.user # job[c].id}
    /\ Leave(c)
    /\ UNCHANGED <<duty, db, aliases, tokens, given, calls, endusers>>

set_auth(c) ==
    /\ job[c].pc = "auth"
    /\ Put("profiles", job[c].id, [Row("profiles", job[c].id) EXCEPT !.auth = job[c].set.auth])
    /\ Leave(c)
    /\ UNCHANGED <<duty, members, aliases, tokens, given, calls, endusers>>

-----------------------------------------------------------------------------
(* POST.                                                                   *)

Insert(t, id, row) ==
    /\ Row(t, id) = Absent
    /\ References(t, row)
    /\ Unique(t, id, row)
    /\ Put(t, id, row)

\* A new user joins the organization of its creator.
create_user(c, claims, q) ==
    LET row == [q.row EXCEPT !.organization = claims.organization] IN
    /\ Arrives(c, claims, q, "create_user")
    /\ can_manage_users(claims)
    /\ row.role = "super_admin" => is_super(claims)
    /\ Insert("users", q.id, row)
    /\ given' = given \cup {<<q.id, row.organization>>}
                \cup (IF is_super(claims) THEN {<<q.id, row.role>>} ELSE {})
    /\ UNCHANGED <<members, aliases, job, endusers>>

\* super_admin names the organization, the others get their own.
create_team(c, claims, q) ==
    LET row == IF is_super(claims) THEN q.row
               ELSE [q.row EXCEPT !.organization = claims.organization] IN
    /\ Arrives(c, claims, q, "create_team")
    /\ can_manage_users(claims)
    /\ Insert("teams", q.id, row)
    /\ UNCHANGED <<members, aliases, job, given, endusers>>

create_organization(c, claims, q) ==
    /\ Arrives(c, claims, q, "create_organization")
    /\ is_super(claims)
    /\ Insert("organizations", q.id, q.row)
    /\ UNCHANGED <<members, aliases, job, given, endusers>>

validate_pricing(pricing) == {"input_price_per_million", "output_price_per_million"} \subseteq pricing

create_model(c, claims, q) ==
    /\ Arrives(c, claims, q, "create_model")
    /\ is_super(claims)
    /\ validate_pricing(q.row.pricing)
    /\ Insert("models", q.id,
              [q.row EXCEPT !.capabilities = parse_capabilities(q.row.capabilities)])
    /\ UNCHANGED <<members, aliases, job, given, endusers>>

\* The profile is inserted without credentials; set_auth is a query of its own.
create_profile(c, claims, q) ==
    /\ Arrives(c, claims, q, "create_profile")
    /\ is_super(claims)
    /\ Insert("profiles", q.id, [q.row EXCEPT !.auth = "none"])
    /\ IF q.row.auth = "none" THEN UNCHANGED job
       ELSE Enter(c, [pc |-> "auth", op |-> q.op, table |-> "profiles", id |-> q.id,
                      set |-> [auth |-> q.row.auth], by |-> claims])
    /\ UNCHANGED <<members, aliases, given, endusers>>

\* The target is looked up before the alias is inserted; alias is UNIQUE.
create_alias(c, claims, q) ==
    /\ Arrives(c, claims, q, "create_alias")
    /\ is_super(claims)
    /\ Exists("models", q.id)
    /\ Enter(c, [pc |-> "alias", op |-> q.op, table |-> "models", id |-> q.id,
                 alias |-> q.alias, by |-> claims])
    /\ UNCHANGED <<db, members, aliases, given, endusers>>

InsertAlias(c) ==
    LET k == job[c] IN
    /\ k.pc = "alias"
    /\ aliases' = IF Exists("models", k.id) /\ \A a \in aliases : a.alias # k.alias
                  THEN aliases \cup {[alias |-> k.alias, model |-> k.id]} ELSE aliases
    /\ Leave(c)
    /\ UNCHANGED <<duty, db, members, tokens, given, calls, endusers>>

-----------------------------------------------------------------------------
(* DELETE, with what the foreign keys take along or forbid.                *)

Drop(t, id) == Put(t, id, Gone)

delete_user_account(c, claims, q) ==
    /\ Arrives(c, claims, q, "delete_user")
    /\ Exists("users", q.id)
    /\ MayDelete(claims, q)
    /\ Enter(c, [pc |-> "delete", op |-> q.op, id |-> q.id, by |-> claims, table |-> "users"])
    /\ UNCHANGED <<db, members, aliases, given, endusers>>

delete_team(c, claims, q) ==
    /\ Arrives(c, claims, q, "delete_team")
    /\ Exists("teams", q.id)
    /\ MayManageTeam(claims, q)
    /\ Enter(c, [pc |-> "delete", op |-> q.op, id |-> q.id, by |-> claims, table |-> "teams"])
    /\ UNCHANGED <<db, members, aliases, given, endusers>>

Delete(c) ==
    LET k == job[c] IN
    /\ k.pc = "delete"
    /\ IF Exists(k.table, k.id) THEN Drop(k.table, k.id) ELSE UNCHANGED db
    /\ members' = {m \in members : k.id \notin {m.user, m.team}}
    /\ endusers' = {e \in endusers : e.user # k.id}
    /\ Leave(c)
    /\ UNCHANGED <<duty, aliases, tokens, given, calls>>

\* No ON DELETE: an organization with users or teams stays.
delete_organization(c, claims, q) ==
    /\ Arrives(c, claims, q, "delete_organization")
    /\ is_super(claims)
    /\ Exists("organizations", q.id)
    /\ \A t \in {"users", "teams"} : \A id \in Ids[t] :
          Exists(t, id) => Row(t, id).organization # q.id
    /\ Drop("organizations", q.id)
    /\ endusers' = {e \in endusers : e.organization # q.id}
    /\ UNCHANGED <<members, aliases, job, given>>

delete_model(c, claims, q) ==
    /\ Arrives(c, claims, q, "delete_model")
    /\ is_super(claims)
    /\ Exists("models", q.id)
    /\ Drop("models", q.id)
    /\ aliases' = {a \in aliases : a.model # q.id}
    /\ UNCHANGED <<members, job, given, endusers>>

delete_alias(c, claims, q) ==
    /\ Arrives(c, claims, q, "delete_alias")
    /\ is_super(claims)
    /\ aliases' = {a \in aliases : a.alias # q.alias}
    /\ UNCHANGED <<db, members, job, given, endusers>>

-----------------------------------------------------------------------------
(* Team members.  super_admin is let through without a look at the team;   *)
(* otherwise the team is read, and then, unless the caller administers its *)
(* organization, the caller's own membership.                              *)

Membership(q, claims, pc) ==
    [pc |-> pc, op |-> q.op, table |-> "teams", id |-> q.id, user |-> q.user,
     role |-> q.role, by |-> claims]

require_team_manage(c, claims, q) ==
    /\ \E op \in {"add_member", "remove_member"} : Arrives(c, claims, q, op)
    /\ \/ /\ is_super(claims)
          /\ Enter(c, Membership(q, claims, "member"))
       \/ /\ ~is_super(claims)
          /\ Exists("teams", q.id)
          /\ Enter(c, Membership(q, claims,
                IF claims.role = "org_admin"
                    /\ Row("teams", q.id).organization = claims.organization
                THEN "member" ELSE "membership"))
    /\ UNCHANGED <<db, members, aliases, given, endusers>>

get_membership(c) ==
    LET k == job[c] IN
    /\ k.pc = "membership"
    /\ IF [team |-> k.id, user |-> k.by.user, role |-> "team_admin"] \in members
       THEN Enter(c, [k EXCEPT !.pc = "member"]) ELSE Leave(c)
    /\ UNCHANGED <<duty, db, members, aliases, tokens, given, calls, endusers>>

add_member(c) ==
    LET k == job[c] IN
    /\ k.pc = "member" /\ k.op = "add_member"
    /\ members' = IF Exists("teams", k.id) /\ Exists("users", k.user)
                  THEN {m \in members : <<m.team, m.user>> # <<k.id, k.user>>}
                        \cup {[team |-> k.id, user |-> k.user, role |-> k.role]}
                  ELSE members
    /\ Leave(c)
    /\ UNCHANGED <<duty, db, aliases, tokens, given, calls, endusers>>

remove_member(c) ==
    LET k == job[c] IN
    /\ k.pc = "member" /\ k.op = "remove_member"
    /\ members' = {m \in members : <<m.team, m.user>> # <<k.id, k.user>>}
    /\ Leave(c)
    /\ UNCHANGED <<duty, db, aliases, tokens, given, calls, endusers>>

-----------------------------------------------------------------------------
(* Budgets of end users.  super_admin names the organization of a new one; *)
(* later everybody works in the organization of their token.  An amount    *)
(* the PATCH does not mention is cleared.                                  *)

EndUser(o, u) == {e \in endusers : e.organization = o /\ e.user = u}

create_end_user(c, claims, q) ==
    LET o == IF is_super(claims) THEN q.organization ELSE claims.organization IN
    /\ Arrives(c, claims, q, "create_end_user")
    /\ can_manage_users(claims)
    /\ Exists("organizations", o) /\ Exists("users", q.id) /\ EndUser(o, q.id) = {}
    /\ endusers' = endusers \cup {[organization |-> o, user |-> q.id, set |-> q.set]}
    /\ UNCHANGED <<db, members, aliases, job, given>>

get_end_user(c, claims, q, op) ==
    /\ Arrives(c, claims, q, op)
    /\ can_manage_users(claims)
    /\ EndUser(claims.organization, q.id) # {}
    /\ Enter(c, [pc |-> "end_user", op |-> op, id |-> q.id, set |-> q.set, by |-> claims])
    /\ UNCHANGED <<db, members, aliases, given, endusers>>

update_end_user(c, claims, q) == get_end_user(c, claims, q, "update_end_user")
delete_end_user(c, claims, q) == get_end_user(c, claims, q, "delete_end_user")

update_budgets(k) ==
    {[e EXCEPT !.set = IF e.organization = k.by.organization /\ e.user = k.id THEN k.set ELSE @]
        : e \in endusers}

WriteEndUser(c) ==
    LET k == job[c] IN
    /\ k.pc = "end_user"
    /\ endusers' = IF k.op = "update_end_user" THEN update_budgets(k)
                   ELSE endusers \ EndUser(k.by.organization, k.id)
    /\ Leave(c)
    /\ UNCHANGED <<duty, db, members, aliases, tokens, given, calls>>

-----------------------------------------------------------------------------
\* A login or a refresh signs the row as it is; the token outlives later changes.
SignIn(u) ==
    /\ Exists("users", u)
    /\ ClaimsOf(u) \notin tokens
    /\ tokens' = tokens \cup {ClaimsOf(u)}
    /\ UNCHANGED <<duty, db, members, aliases, job, given, calls, endusers>>

\* The client hangs up, or a query fails, in front of the next query.
Hangup(c) ==
    /\ job[c].pc # "idle"
    /\ Leave(c)
    /\ UNCHANGED <<duty, db, members, aliases, tokens, given, calls, endusers>>

Handle(c, claims, q) ==
    \/ update_user(c, claims, q) \/ update_team(c, claims, q)
    \/ update_organization(c, claims, q) \/ update_model(c, claims, q) \/ update_profile(c, claims, q)
    \/ create_user(c, claims, q) \/ create_team(c, claims, q) \/ create_organization(c, claims, q)
    \/ create_model(c, claims, q) \/ create_profile(c, claims, q) \/ create_alias(c, claims, q)
    \/ delete_user_account(c, claims, q) \/ delete_team(c, claims, q) \/ delete_organization(c, claims, q)
    \/ delete_model(c, claims, q) \/ delete_alias(c, claims, q)
    \/ require_team_manage(c, claims, q)
    \/ create_end_user(c, claims, q) \/ update_end_user(c, claims, q) \/ delete_end_user(c, claims, q)

Continue(c) ==
    \/ Current(c) \/ Update(c) \/ PurgeMemberships(c) \/ set_auth(c) \/ InsertAlias(c) \/ Delete(c)
    \/ get_membership(c) \/ add_member(c) \/ remove_member(c)
    \/ WriteEndUser(c) \/ Hangup(c)

\* The columns of a row that a step changes.
Changed(t, id) ==
    IF Exists(t, id) /\ db'[t][id] # Gone
    THEN {f \in DOMAIN Row(t, id) : db'[t][id][f] # Row(t, id)[f]} ELSE {}

Moved == {u \in Ids["users"] : "organization" \in Changed("users", u)}
Patches(u) == {c \in Administrators : job[c].pc # "idle" /\ job[c].op = "update_user" /\ job[c].id = u}
Unpurged(c) ==
    job[c].pc = "purge" /\ job'[c].pc = "idle" /\ \E m \in members' : m.user = job[c].id

ANext ==
    /\ \/ \E c \in Administrators : Continue(c) \/ \E claims \in tokens, q \in duty : Handle(c, claims, q)
       \/ \E u \in Ids["users"] : SignIn(u)
    /\ supers' = supers \cup SuperAdmins'
    /\ crossed' = [c \in Administrators |->
                     IF job'[c].pc # "write" THEN {}
                     ELSE crossed[c] \cup Changed(job'[c].table, job'[c].id)]
    /\ behind' = (behind \cup {m \in members : m.user \in Moved}) \cap members'
    /\ torn' = torn \cup {u \in Moved : Cardinality(Patches(u)) > 1}
                    \cup {job[c].id : c \in {d \in Administrators : Unpurged(d)}}

ASpec == AInit /\ [][ANext]_avars

-----------------------------------------------------------------------------
(* Properties.                                                             *)

\* The instance does not lock itself out: as long as one user only has ever been
\* super_admin, it still is, whatever it and the organizations' administrators do at the
\* same time (users.rs: no change to one's own role or account, none to a super_admin by
\* others).
SoleSuperAdminStays == Cardinality(supers) = 1 => SuperAdmins = supers

\* A user is super_admin, or in an organization, only if a caller entitled to it has said
\* so at some time: a PATCH that writes back columns it read earlier may bring back an old
\* value but never one that nobody gave.
GrantsHaveGrantor ==
    \A u \in Ids["users"] : Exists("users", u) =>
        /\ <<u, Row("users", u).organization>> \in given
        /\ Row("users", u).role = "super_admin" => <<u, "super_admin">> \in given

\* A user that has been moved to another organization keeps no membership from before, once
\* the handler that moved it is through, whoever adds members meanwhile; unless the client
\* hung up in front of the purge, or two PATCHes of the user overlapped, the second of which
\* can move it on the strength of an organization it no longer has (update_user,
\* remove_all_for_user).
MovedLeavesTeams ==
    \A m \in behind :
        m.user \in torn \/ \E c \in Administrators : job[c].pc = "purge" /\ job[c].id = m.user

\* A PATCH writes all columns back, and so undoes what others did to columns its request
\* does not mention; but only what they did between its last read of the row and its
\* UPDATE.  What was there before that read stays, and so do, always, the credentials of a
\* profile and the other columns that no PATCH sets (the update methods of the repositories;
\* UserRepository::update reads again after the checks).
UndoesOverlapsOnly ==
    [][\A c \in Administrators :
          LET k == job[c] IN
          k.pc = "write" /\ job'[c] # k /\ Exists(k.table, k.id)
            => Changed(k.table, k.id) \ DOMAIN k.set \subseteq crossed[c] \cap Columns(k.table)]_avars
=============================================================================
