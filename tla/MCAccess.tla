------------------------------ MODULE MCAccess ------------------------------
(* The administration and the API keys.  They meet in one step, the deletion *)
(* of a user, which ApiKeys has as its own action; so a behaviour runs one   *)
(* of the two and leaves the other at rest.                                  *)
EXTENDS Admin, ApiKeys, TLC

CONSTANTS r1, r2, c1, c2, d1, k1, k2, k3, o1, o2, u1, u2, m1, m2

VARIABLE part       \* which of the two this behaviour runs

-----------------------------------------------------------------------------
(* API keys: two organizations with a key each, whose prefixes agree; the    *)
(* second key expires and is good for one model.                             *)

MCPrefixOf(s) == IF s \in {0, 1, 2} THEN "p" ELSE "q"

Key(k, s, u, o, models, expires) ==
    [id |-> k, secret |-> s, user |-> u, organization |-> o, allowed_models |-> models,
     expires_at |-> expires, disabled |-> FALSE]

MCInitialRows ==
    {k1 :> Key(k1, 1, u1, o1, {}, Never) @@ k2 :> Key(k2, 2, u2, o2, {m1}, 1) @@ k3 :> NoRow}

MCClaims == {[user |-> u1, organization |-> o1, role |-> "super_admin"],
             [user |-> u2, organization |-> o2, role |-> "team_admin"],
             [user |-> u2, organization |-> o2, role |-> "user"]}
MCScopes == {{m1}}

-----------------------------------------------------------------------------
(* Administration: a super_admin, an org_admin and a team_admin in one       *)
(* organization, and a second organization to move to.                       *)

User(email, role, o) == [email |-> email, name |-> "n0", role |-> role, organization |-> o]
Team(o) == [organization |-> o, name |-> "n0", budget |-> 0]
Org == [name |-> "n0", limit |-> 0]
Profile(name, auth) == [name |-> name, base_url |-> "url0", allow_wildcard |-> FALSE, enabled |-> TRUE, auth |-> auth]
Model(p, id, caps) == [profile |-> p, public_id |-> id, capabilities |-> caps,
                       pricing |-> {"input_price_per_million", "output_price_per_million"}]

MCIds == [users |-> {"root", "boss", "lead", "new"}, teams |-> {"t1", "t2"},
          organizations |-> {"o1", "o2", "o3"}, models |-> {"m1", "m2"}, profiles |-> {"p1", "p2"}]

MCInitDb ==
    [users |-> [u \in MCIds.users |->
                    CASE u = "root" -> User(u, "super_admin", "o1") [] u = "boss" -> User(u, "org_admin", "o1")
                      [] u = "lead" -> User(u, "team_admin", "o1") [] OTHER -> Absent],
     teams |-> [t \in MCIds.teams |-> IF t = "t1" THEN Team("o1") ELSE Absent],
     organizations |-> [o \in MCIds.organizations |-> IF o = "o3" THEN Absent ELSE Org],
     models |-> [m \in MCIds.models |-> IF m = "m1" THEN Model("p1", "id0", {"chat"}) ELSE Absent],
     profiles |-> [p \in MCIds.profiles |-> IF p = "p1" THEN Profile(p, "key0") ELSE Absent]]

MCInitMembers == {[team |-> "t1", user |-> "lead", role |-> "team_admin"]}

Patch(op, id, set) == [op |-> op, id |-> id, set |-> set]
Post(op, id, row) == [op |-> op, id |-> id, row |-> row]
Del(op, id) == [op |-> op, id |-> id]

MCDuties ==
    { \* the privileges and places of users
      {Patch("update_user", "lead", [role |-> r]) : r \in {"super_admin", "user"}}
        \cup {Patch("update_user", u, [name |-> "n1"]) : u \in {"root", "lead"}}
        \cup {Patch("update_user", "root", [role |-> "user"]),
              Patch("update_user", "lead", [organization |-> "o2"]), Del("delete_user", "root"),
              Del("delete_user", "lead"), Post("create_user", "new", User("lead", "super_admin", "o1"))}
        \cup {Post("create_user", "new", User("new", "super_admin", "o1"))},
      \* teams, their members and organizations
      {Patch("update_team", "t1", [name |-> "n1"]), Patch("update_team", "t1", [budget |-> 1]),
       Post("create_team", "t2", Team("o2")), Del("delete_team", "t1"),
       Patch("update_organization", "o1", [limit |-> 1]), Del("delete_organization", "o2"),
       Post("create_organization", "o3", Org), Patch("update_user", "lead", [organization |-> "o1"]),
       Patch("update_user", "lead", [organization |-> "o2"]),
       [op |-> "create_end_user", id |-> "lead", organization |-> "o1", set |-> {"budget"}],
       [op |-> "update_end_user", id |-> "lead", set |-> {"max_budget"}],
       [op |-> "delete_end_user", id |-> "lead", set |-> {}]}
        \cup {[op |-> op, id |-> "t1", user |-> u, role |-> "member"] :
                 op \in {"add_member", "remove_member"}, u \in {"boss", "lead"}},
      \* the catalogue
      {Patch("update_profile", "p1", [base_url |-> "url1", auth |-> "key1"]),
       Patch("update_profile", "p1", [enabled |-> FALSE]),
       Post("create_profile", "p2", Profile("p2", "key2")), Post("create_profile", "p2", Profile("p2", "none")),
       Post("create_profile", "p2", Profile("p1", "key2")),
       Patch("update_model", "m1", [capabilities |-> {}]), Patch("update_model", "m1", [public_id |-> "id1"]),
       Post("create_model", "m2", Model("p1", "id1", {})), Del("delete_model", "m1")}
        \cup {[op |-> "create_alias", id |-> m, alias |-> "a"] : m \in {"m1", "m2"}}
        \cup {[op |-> "delete_alias", id |-> "a", alias |-> "a"]} }

-----------------------------------------------------------------------------
AccessInit ==
    /\ KInit
    /\ AInit
    /\ part \in {"keys", "admin"}
    /\ part = "keys" => duty = CHOOSE d \in Duties : TRUE

AccessNext ==
    \/ part = "keys" /\ KNext /\ UNCHANGED <<avars, part>>
    \/ part = "admin" /\ ANext /\ UNCHANGED <<kvars, part>>

AccessSpec == AccessInit /\ [][AccessNext]_<<kvars, avars, part>>

Symmetry == Permutations({c1, c2}) \cup Permutations({r1, r2})
=============================================================================
