---------------------------- MODULE SerialDaemon ----------------------------
(***************************************************************************)
(* InstallDaemon when nobody uses the package list while somebody else     *)
(* does: no AddInstall, Install or finished conversion comes between the   *)
(* start of an install and its Finished signal.  The daemon does not       *)
(* enforce this; it is what a caller that waits for Finished gives it.     *)
(* Under it the daemon implements InstallService.                          *)
(***************************************************************************)
EXTENDS InstallDaemon

Busy(t) == ListUser(t) \/ (thread[t].kind = "rpm" /\ thread[t].pc = "finish")

Serial == \A t, u \in DOMAIN thread : Busy(t) /\ Busy(u) => t = u

SerialNext == Next /\ Serial'
SerialSpec == Init /\ [][SerialNext]_vars

-----------------------------------------------------------------------------
(* The refinement mapping.                                                  *)

InstallingPC == {"transaction", "progress"}
FinishingPC  == {"free_items", "free_list", "reset", "finish"}

\* the routine in one of these phases, when there is one
RoutineIn(pcs) == {t \in DOMAIN thread : thread[t].pc \in pcs}
Routine(pcs)   == thread[CHOOSE t \in RoutineIn(pcs) : TRUE]

Phase ==
  IF RoutineIn(InstallingPC) # {} THEN "installing"
  ELSE IF RoutineIn(FinishingPC) # {} THEN "finishing" ELSE "idle"

Queue ==
  IF Phase # "idle" \/ rpm_list = 0 THEN <<>> ELSE heap[rpm_list].items

Batch    == IF Phase = "installing" THEN Routine(InstallingPC).args ELSE <<>>
Reported == IF Phase = "installing" THEN Routine(InstallingPC).n ELSE 0

\* conversion reports and errors are not the service's
Reply ==
  IF signal.name = "Finished" THEN [kind |-> "Finished"]
  ELSE IF signal.name = "PercentChanged" /\ signal.status = 1
       THEN [kind |-> "Installed", package |-> signal.file]
       ELSE [kind |-> "none"]

Service ==
  INSTANCE InstallService WITH
    Package <- Package, queue <- Queue, phase <- Phase, batch <- Batch,
    reported <- Reported, report <- Reply

-----------------------------------------------------------------------------
\* The daemon implements InstallService: no package is lost, installed twice
\* or out of order, and Finished follows the last report.
ImplementsService == Service!Spec
=============================================================================
