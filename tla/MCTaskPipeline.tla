--------------------------- MODULE MCTaskPipeline ---------------------------
(* TaskPipeline with two conversations, of which one waiting task fits the *)
(* board, and two hook processes that may overtake each other.             *)
EXTENDS TaskPipeline
=============================================================================
