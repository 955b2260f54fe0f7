----------------------------- MODULE MCServices -----------------------------
(* MCP on both sides: the servers that a completion calls (Mcp) and Godwit   *)
(* as one (McpServer).  They share no state: a behaviour runs one of the two *)
(* and leaves the other at rest.                                             *)
EXTENDS MCMcp, McpServer

VARIABLE part

-----------------------------------------------------------------------------
(* McpServer: every kind of line.                                            *)

Line(json, id, method, body, good) ==
    [json |-> json, id |-> id, method |-> method, body |-> body, good |-> good]
MCLines ==
    {Line("object", "integer", m, "absent", g) : m \in {"initialize", "tools/call"}, g \in BOOLEAN}
    \union {Line("object", "integer", m, "absent", TRUE) : m \in {"tools/list", "other"}}
    \union {Line("object", "string", "tools/list", "absent", TRUE), Line("object", "absent", "other", "absent", TRUE),
            Line("object", "integer", "absent", "result", TRUE), Line("object", "integer", "absent", "absent", TRUE),
            Line("none", "absent", "absent", "absent", TRUE)}

-----------------------------------------------------------------------------
ServicesInit == part \in {"mcp", "server"} /\ Init /\ SInit
ServicesNext ==
    \/ part = "mcp" /\ Next /\ UNCHANGED <<svars, part>>
    \/ part = "server" /\ SNext /\ UNCHANGED <<vars, part>>
\* The fairness of Mcp.
ServicesSpec ==
    /\ ServicesInit /\ [][ServicesNext]_<<vars, svars, part>>
    /\ \A t \in Tasks : WF_vars(Step(t))
    /\ \A s \in Servers : WF_vars(Answer(s))
=============================================================================
