----------------------------- MODULE MCSessions -----------------------------
(* Two requests at a time on one account.  The clients either open, renew  *)
(* and close sessions while the password expires, or change the password.  *)
EXTENDS Sessions, TLC

CONSTANTS c1, c2

CallerSymmetry == Permutations({c1, c2})

MCWorkloads ==
    { [handlers |-> {"login", "refresh", "logout", "revoke_all_sessions", "change_required"},
       passwords |-> {"q", "weak"}],
      [handlers |-> {"change_password", "admin_reset", "reset"},
       passwords |-> {"p", "q", "r"}] }

MCRefresh == { [handlers |-> {"login", "refresh"}, passwords |-> {}] }
=============================================================================
