----------------------------- MODULE MCDebScan -----------------------------
(* Every archive of up to four members.                                     *)
EXTENDS DebScan
=============================================================================
