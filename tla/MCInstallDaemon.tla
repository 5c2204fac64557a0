-------------------------- MODULE MCInstallDaemon --------------------------
(* Any caller, any order of calls: a small instance of InstallDaemon.       *)
EXTENDS InstallDaemon
CONSTANTS r1, r2, s1, d1, d2, x1
=============================================================================
