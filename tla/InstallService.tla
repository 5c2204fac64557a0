--------------------------- MODULE InstallService ---------------------------
(***************************************************************************)
(* What the daemon promises a caller: packages are queued one by one; an   *)
(* install takes the whole queue, in the order it was filled, reports each *)
(* package once and in that order, or reports none when the transaction is *)
(* refused, and ends with one Finished.  Nothing is queued in between.     *)
(***************************************************************************)
EXTENDS Naturals, Sequences

CONSTANT Package

VARIABLES
  queue,    (* the packages waiting for an install                           *)
  phase,    (* "idle", "installing" a batch, or "finishing"                  *)
  batch,    (* the packages being installed                                  *)
  reported, (* how many packages of the batch were reported                  *)
  report    (* what the last step told the caller, if anything                *)

service == <<queue, phase, batch, reported, report>>

Silent       == [kind |-> "none"]
Installed(p) == [kind |-> "Installed", package |-> p]

Init ==
  /\ queue = <<>>
  /\ phase = "idle"
  /\ batch = <<>>
  /\ reported = 0
  /\ report = Silent

Submit ==
  /\ phase = "idle"
  /\ \E p \in Package : queue' = Append(queue, p)
  /\ report' = Silent
  /\ UNCHANGED <<phase, batch, reported>>

Begin ==
  /\ phase = "idle"
  /\ queue # <<>>
  /\ phase' = "installing"
  /\ batch' = queue
  /\ queue' = <<>>
  /\ report' = Silent
  /\ UNCHANGED reported

Report ==
  /\ phase = "installing"
  /\ reported < Len(batch)
  /\ reported' = reported + 1
  /\ report' = Installed(batch[reported + 1])
  /\ UNCHANGED <<queue, phase, batch>>

\* every package was reported, or the transaction was refused
End ==
  /\ phase = "installing"
  /\ reported \in {0, Len(batch)}
  /\ phase' = "finishing"
  /\ batch' = <<>>
  /\ reported' = 0
  /\ report' = Silent
  /\ UNCHANGED queue

\* the install fails before it has taken the queue
Drop ==
  /\ phase = "idle"
  /\ queue # <<>>
  /\ queue' = <<>>
  /\ phase' = "finishing"
  /\ report' = Silent
  /\ UNCHANGED <<batch, reported>>

Finish ==
  /\ phase = "finishing"
  /\ phase' = "idle"
  /\ report' = [kind |-> "Finished"]
  /\ UNCHANGED <<queue, batch, reported>>

\* a step the caller does not see
Settle ==
  /\ report' = Silent
  /\ UNCHANGED <<queue, phase, batch, reported>>

Next == Submit \/ Begin \/ Report \/ End \/ Drop \/ Finish \/ Settle

Spec == Init /\ [][Next]_service
=============================================================================
