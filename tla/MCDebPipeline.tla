--------------------------- MODULE MCDebPipeline ---------------------------
(* Calls of extracthalf by two threads, for members that do not fit into a
   pipe.                                                                     *)
EXTENDS DebPipeline, TLC

Threads == Permutations(Job)
=============================================================================
