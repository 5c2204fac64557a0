------------------------------ MODULE MCSerial ------------------------------
(* A small instance of SerialDaemon, checked against InstallService.        *)
EXTENDS SerialDaemon
CONSTANTS r1, r2, s1, d1, d2, x1
=============================================================================
