----------------------------- MODULE MCPipeline -----------------------------
(* The worker threads on a small instance.                                 *)
EXTENDS Pipeline
=============================================================================
