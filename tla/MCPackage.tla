----------------------------- MODULE MCPackage -----------------------------
(* Packages of the files of MCDisks. *)
EXTENDS AppPkgWrite, MCDisks
MCInit == disk \in MCDisk /\ Init
MCSpec == MCInit /\ [][Next]_vars
=============================================================================
