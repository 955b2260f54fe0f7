------------------------------ MODULE MCProxy ------------------------------
(* Instances of Proxy for TLC: a model with two rows to balance between and a  *)
(* chain of two fallbacks, a wildcard and one row of its own.                  *)
EXTENDS Proxy, TLC

MCRefs == {"model", "spare", "any/x"}
MCPrefixed == {"any/x"}
MCDeployments == {"a", "b", "d", "w"}
MCWildcards == {"w"}
MCCandidates == [ref \in MCRefs |->
    IF ref = "model" THEN <<"a", "b">> ELSE IF ref = "spare" THEN <<"d">> ELSE <<"w">>]
MCRoundRobin == [ref \in MCRefs |-> "round_robin"]
MCLeastBusy == [ref \in MCRefs |-> "least_busy"]
MCFallbacks == [ref \in MCRefs |->
    IF ref = "model" THEN <<"any/x", "spare">> ELSE <<>>]

RequestSymmetry == Permutations(Requests)
=============================================================================
