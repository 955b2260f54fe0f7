----------------------------- MODULE MCCounters -----------------------------
(* What the gateway keeps in memory between requests: the token buckets, the *)
(* circuit of a provider and the counters of the balancer.  They share no    *)
(* state, so a behaviour is one of the three; the others rest initially.     *)
EXTENDS MCRateLimiter, CircuitBreaker, LoadBalancer

CONSTANTS t1, t2, t3, d1, d2

VARIABLE part

CountersInit ==
    /\ Init /\ BreakerInit /\ BalancerInit
    /\ part \in {"buckets", "breaker", "balancer"}
    /\ part # "buckets" => limits = Limit(1, 0, 0, 2)
CountersNext ==
    \/ part = "buckets" /\ Next /\ UNCHANGED <<breaker_vars, balancer_vars, part>>
    \/ part = "breaker" /\ BreakerNext /\ UNCHANGED <<vars, balancer_vars, part>>
    \/ part = "balancer" /\ BalancerNext /\ UNCHANGED <<vars, breaker_vars, part>>
CountersSpec == CountersInit /\ [][CountersNext]_<<vars, breaker_vars, balancer_vars, part>>
=============================================================================
