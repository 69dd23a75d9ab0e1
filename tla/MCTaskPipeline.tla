--------------------------- MODULE MCTaskPipeline ---------------------------
(* TaskPipeline with few workers and tasks. *)
EXTENDS TaskPipeline

=============================================================================
