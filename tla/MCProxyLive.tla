---------------------------- MODULE MCProxyLive -----------------------------
(* What is accepted comes to an end: a request of the proxy, one at a time,  *)
(* a streamed completion, and a batch.  They share no state: a behaviour     *)
(* runs one of them and leaves the others at rest.                           *)
EXTENDS MCProxy, MCStreaming, Batch

VARIABLE part

-----------------------------------------------------------------------------
(* Batch: a file of three lines, two under one custom_id, and files that are *)
(* refused.                                                                  *)

Part(role, kind_, texts) == [role |-> role, kind |-> kind_, texts |-> texts]
Entry(id, model, parts, max) ==
    [blank |-> FALSE, json |-> TRUE, custom_id |-> id, method |-> "POST", url |-> "/",
     model |-> model, messages |-> parts, max_tokens |-> max]
FirstEntry == Entry("a", "m", <<Part(TRUE, "text", <<9>>), Part(FALSE, "text", <<4>>), Part(TRUE, "parts", <<4, 3>>)>>, 0)
MCFiles ==
    { <<FirstEntry, [blank |-> TRUE], Entry("b", "m", <<Part(TRUE, "text", <<4>>)>>, 5), Entry("a", "m", <<>>, 0)>>,
      <<FirstEntry, [blank |-> FALSE, json |-> FALSE]>>, <<Entry("a", "stranger", <<>>, 0)>>,
      <<[FirstEntry EXCEPT !.method = "GET"]>>, <<>> }
MCCatalog == [m |-> [input |-> 1, output |-> 2]]

-----------------------------------------------------------------------------
LiveInit ==
    /\ part \in {"proxy", "stream", "batch"}
    /\ IF part = "stream" THEN setup \in Setups ELSE setup = CHOOSE s \in Setups : TRUE
    /\ IF part = "batch" THEN file \in Files ELSE file = <<>>
    /\ Init /\ StreamInit /\ BInit
LiveNext ==
    \/ part = "proxy" /\ Next /\ UNCHANGED <<stream_vars, bvars, part>>
    \/ part = "stream" /\ StreamNext /\ UNCHANGED <<vars, bvars, part>>
    \/ part = "batch" /\ BNext /\ UNCHANGED <<vars, stream_vars, part>>
LiveSpec ==
    /\ LiveInit /\ [][LiveNext]_<<vars, stream_vars, bvars, part>>
    /\ Fairness
    /\ WF_stream_vars(part = "stream" /\ TaskSends)
    /\ WF_stream_vars(part = "stream" /\ Tools /\ EndOfStream)
    /\ WF_bvars(part = "batch" /\ (Submit \/ process_batch))
    /\ \A i \in 1..3 : WF_bvars(i \in DOMAIN worker /\ Work(i))
=============================================================================
