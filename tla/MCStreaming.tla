---------------------------- MODULE MCStreaming ----------------------------
(* Instances of Streaming: the pipeline with the tool task, for clients of *)
(* two wire formats, and without it.                                       *)
EXTENDS Streaming

Setup(adapter, tools, wire, cuts, items) ==
    [adapter |-> adapter, tools |-> tools, wire |-> wire, cuts |-> cuts, items |-> items]

MCSetups ==
    { Setup("openai", TRUE, "canonical", {"none", "payload"}, 4),
      Setup("openai", TRUE, "openai", {"none"}, 5),
      Setup("openai", FALSE, "openai", {"none", "payload"}, 4),
      Setup("gemini", TRUE, "canonical", {"none", "payload"}, 4),
      Setup("openai", FALSE, "anthropic", {"none"}, 5),
      Setup("gemini", FALSE, "anthropic", CutPlaces, 4) }

\* The tool task alone, for what it comes to.
MCToolTask ==
    { Setup("openai", TRUE, "canonical", {"none", "payload"}, 3),
      Setup("openai", TRUE, "openai", {"none"}, 4),
      Setup("gemini", TRUE, "canonical", {"none", "payload"}, 3) }

\* Text read without the tool task.
MCText == { Setup("openai", FALSE, "canonical", {"none", "payload"}, 3) }
============================================================================
