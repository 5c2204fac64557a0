-------------------------- MODULE MCDaemonProcess --------------------------
EXTENDS DaemonProcess
CONSTANTS p1, p2
MCProc == {p1, p2}
\* One was started by the bus or by systemd, the other by hand to replace it.
MCoptions == (p1 :> {"debug"}) @@ (p2 :> {"replace"})
=============================================================================
