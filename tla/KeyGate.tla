------------------------------ MODULE KeyGate -------------------------------
(***************************************************************************)
(* What the proxy routes promise about API keys, without rows, caches or   *)
(* requests in progress: the life of a secret, and which secrets pass.     *)
(*                                                                         *)
(* A secret is issued once, may be blocked and unblocked, and is retired   *)
(* for good (its key deleted or regenerated).  It passes only if some      *)
(* lookup found it live.  It need not be live WHEN it passes: the gateway  *)
(* remembers what a lookup found and never forgets it.                     *)
(***************************************************************************)
CONSTANT Secrets

VARIABLES
    status,     \* the life of each secret
    known,      \* the secrets a lookup has found live
    admitted    \* the secrets a request has passed with

gate == <<status, known, admitted>>

Statuses == {"unissued", "live", "blocked", "retired"}

\* What the administration may make of a secret in one step.
Becomes(s) ==
    CASE s = "unissued" -> {"unissued", "live", "blocked"}
      [] s \in {"live", "blocked"} -> {"live", "blocked", "retired"}
      [] s = "retired" -> {"retired"}

Init ==
    /\ status \in [Secrets -> Statuses]
    /\ known = {}
    /\ admitted = {}

Administer ==
    /\ status' \in [Secrets -> Statuses]
    /\ \A s \in Secrets : status'[s] \in Becomes(status[s])
    /\ UNCHANGED <<known, admitted>>

Look(s) ==
    /\ status[s] = "live"
    /\ known' = known \cup {s}
    /\ UNCHANGED <<status, admitted>>

Admit(s) ==
    /\ s \in known
    /\ admitted' = admitted \cup {s}
    /\ UNCHANGED <<status, known>>

Next == Administer \/ \E s \in Secrets : Look(s) \/ Admit(s)

Spec == Init /\ [][Next]_gate
=============================================================================
