---------------------------- MODULE MCDebConvert ----------------------------
(* Two conversions of any two archives, one of which has no Description.   *)
EXTENDS DebConvert, TLC

Threads == Permutations(Conversion)
=============================================================================
