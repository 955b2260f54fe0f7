------------------------------- MODULE MCMcp -------------------------------
(* An instance of Mcp: two tasks and two servers, one of which writes more *)
(* than answers.                                                           *)
EXTENDS Mcp

CONSTANTS t1, t2, s1, s2

OneOrder == {<<s1, s2>>}
Calls == {<<s1>>, <<Local, Unknown, s2>>}
============================================================================
