---------------------------- MODULE MCRateLimiter ----------------------------
EXTENDS RateLimiter, TLC

CONSTANTS c1, c2, k1, org

\* Limits per bucket: key rpm, key tpm, organisation rpm, organisation tpm.
Limit(krpm, ktpm, orpm, otpm) ==
    [id \in Buckets |-> CASE id = <<"rpm", k1>> -> krpm
                          [] id = <<"tpm", k1>> -> ktpm
                          [] id = <<"rpm", org>> -> orpm
                          [] id = <<"tpm", org>> -> otpm]

MCConfigs == {Limit(1, 0, 0, 2), Limit(0, 2, 1, 0)}
MCSymmetry == Permutations(Callers)
=============================================================================
