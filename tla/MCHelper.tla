------------------------------ MODULE MCHelper ------------------------------
(* Two threads that run a helper each; the name needs two writes, and pipes
   and buffers are smaller than what goes through them.                      *)
EXTENDS Helper
=============================================================================
