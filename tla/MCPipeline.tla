----------------------------- MODULE MCPipeline -----------------------------
(* Instances of Pipeline that have at least one worker, and chunks that do *)
(* not come in the order of their values.                                  *)
EXTENDS Pipeline
ASSUME SomeWorker
MCValue == [c \in 1..N |-> (4 * c) % 7]
=============================================================================
