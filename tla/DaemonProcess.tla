--------------------------- MODULE DaemonProcess ---------------------------
(***************************************************************************)
(* Daemon processes from main to exit (daemon/main.c), the bus name they   *)
(* own, and the routines that are running when they leave.                 *)
(*                                                                         *)
(* A process leaves its main loop when it has lost the name, or on SIGINT  *)
(* or SIGTERM, and returns from main without waiting for its routines.     *)
(***************************************************************************)
EXTENDS LogFile, Sequences, SequencesExt

CONSTANTS
  options,    \* the options of each process
  MaxCalls    \* bound: the calls a process has, or works on, at once

ASSUME CallsAssumption == MaxCalls \in Nat

VARIABLES
  pc,        \* where main is
  bus,       \* "no", "none" if there is none, "open" when on_bus_acquired has been
             \* called, "asked" when the name has been asked for
  queue,     \* who owns the name, and who waits for it
  told,      \* the bus has told the process that it does not own the name
  quit,      \* g_main_loop_quit has been called
  calls,     \* calls delivered to the process, in its main context
  routines   \* threads installing or converting

procVars == <<pc, bus, queue, told, quit, calls, routines>>
vars == <<logVars, procVars>>

Init ==
  /\ LogInit
  /\ pc = [p \in Proc |-> "new"]
  /\ bus = [p \in Proc |-> "no"] /\ queue = <<>>
  /\ told = [p \in Proc |-> FALSE] /\ quit = [p \in Proc |-> FALSE]
  /\ calls = [p \in Proc |-> 0]
  /\ routines = [p \in Proc |-> 0]

\* main goes on to a place, once it has logged a line.
Logged(p, from, to) ==
  /\ pc[p] = from /\ write_log(p) /\ pc' = [pc EXCEPT ![p] = to]

Start(p) ==
  Logged(p, "new", "options") /\ UNCHANGED <<bus, queue, told, quit, calls, routines>>

\* The options are wrong, or ask for the version only.
Options(p) ==
  /\ pc[p] = "options" /\ lp[p] = "idle"
  /\ \E to \in {"entering", "warn", "out"} : pc' = [pc EXCEPT ![p] = to]
  /\ UNCHANGED <<logVars, bus, queue, told, quit, calls, routines>>

Warn(p) == Logged(p, "warn", "out") /\ UNCHANGED <<bus, queue, told, quit, calls, routines>>

EnterLoop(p) == Logged(p, "entering", "loop") /\ UNCHANGED <<bus, queue, told, quit, calls, routines>>

Running(p) == pc[p] = "loop" /\ lp[p] = "idle"

\* on_bus_acquired: daemon_new exports the interface, or logs why not.
on_bus_acquired(p) ==
  /\ Running(p) /\ bus[p] = "no"
  /\ bus' = [bus EXCEPT ![p] = "open"]
  /\ \/ UNCHANGED <<logVars, quit>>
     \/ write_log(p) /\ quit' = [quit EXCEPT ![p] = TRUE]
  /\ UNCHANGED <<pc, queue, told, calls, routines>>

\* Without a system bus the name counts as lost.
NoBus(p) ==
  /\ Running(p) /\ bus[p] = "no"
  /\ bus' = [bus EXCEPT ![p] = "none"] /\ told' = [told EXCEPT ![p] = TRUE]
  /\ UNCHANGED <<logVars, pc, queue, quit, calls, routines>>

\* The bus: who replaces the owner comes first, others wait; whoever does not
\* own the name is told.
RequestName(p) ==
  /\ pc[p] # "gone" /\ bus[p] = "open"
  /\ bus' = [bus EXCEPT ![p] = "asked"]
  /\ IF queue = <<>> \/ "replace" \in options[p]
     THEN /\ queue' = <<p>> \o queue
          /\ told' = IF queue = <<>> THEN told ELSE [told EXCEPT ![Head(queue)] = TRUE]
     ELSE queue' = Append(queue, p) /\ told' = [told EXCEPT ![p] = TRUE]
  /\ UNCHANGED <<logVars, pc, quit, calls, routines>>

Mutanton_name_lost(p) ==   \* only tells about it
  /\ Running(p) /\ told[p]
  /\ told' = [told EXCEPT ![p] = FALSE] /\ UNCHANGED quit
  /\ IF "debug" \in options[p] THEN write_log(p) ELSE UNCHANGED logVars
  /\ UNCHANGED <<pc, bus, queue, calls, routines>>

\* With --debug, the message to GLib's log goes into the file as well.
on_name_lost(p) ==
  /\ Running(p) /\ told[p]
  /\ told' = [told EXCEPT ![p] = FALSE] /\ quit' = [quit EXCEPT ![p] = TRUE]
  /\ IF "debug" \in options[p] THEN write_log(p) ELSE UNCHANGED logVars
  /\ UNCHANGED <<pc, bus, queue, calls, routines>>

on_signal_quit(p) ==
  /\ Running(p) /\ ~quit[p]
  /\ quit' = [quit EXCEPT ![p] = TRUE]
  /\ UNCHANGED <<logVars, pc, bus, queue, told, calls, routines>>

\* A caller's message goes to the owner, and is handled in the main loop; the
\* last iteration may still do so.
Call(p) ==
  /\ queue # <<>> /\ Head(queue) = p /\ calls[p] + routines[p] < MaxCalls
  /\ calls' = [calls EXCEPT ![p] = @ + 1]
  /\ UNCHANGED <<logVars, pc, bus, queue, told, quit, routines>>

Handle(p) ==
  /\ Running(p) /\ calls[p] > 0
  /\ calls' = [calls EXCEPT ![p] = @ - 1] /\ routines' = [routines EXCEPT ![p] = @ + 1]
  /\ UNCHANGED <<logVars, pc, bus, queue, told, quit>>

RoutineEnds(p) ==
  /\ pc[p] # "gone" /\ routines[p] > 0
  /\ routines' = [routines EXCEPT ![p] = @ - 1]
  /\ UNCHANGED <<logVars, pc, bus, queue, told, quit, calls>>

MutantLeaveLoop(p) ==   \* waits for the routines, which new calls may start
  /\ Running(p) /\ quit[p] /\ routines[p] = 0 /\ pc' = [pc EXCEPT ![p] = "exiting"]
  /\ UNCHANGED <<logVars, bus, queue, told, quit, calls, routines>>

LeaveLoop(p) ==
  /\ Running(p) /\ quit[p] /\ pc' = [pc EXCEPT ![p] = "exiting"]
  /\ UNCHANGED <<logVars, bus, queue, told, quit, calls, routines>>

Exiting(p) == Logged(p, "exiting", "out") /\ UNCHANGED <<bus, queue, told, quit, calls, routines>>

Out(p) == Logged(p, "out", "return") /\ UNCHANGED <<bus, queue, told, quit, calls, routines>>

\* main returns: the threads end where they are, and the bus passes the name on.
Exit(p) ==
  /\ pc[p] = "return" /\ lp[p] = "idle" /\ pc' = [pc EXCEPT ![p] = "gone"]
  /\ routines' = [routines EXCEPT ![p] = 0] /\ calls' = [calls EXCEPT ![p] = 0]
  /\ bus' = [bus EXCEPT ![p] = "no"] /\ queue' = RemoveFirst(queue, p)
  /\ told' = [told EXCEPT ![p] = FALSE] /\ quit' = [quit EXCEPT ![p] = FALSE]
  /\ UNCHANGED logVars

Main(p) ==
  \/ Start(p) \/ Options(p) \/ Warn(p) \/ EnterLoop(p) \/ on_bus_acquired(p) \/ NoBus(p)
  \/ on_name_lost(p) \/ Handle(p) \/ LeaveLoop(p) \/ Exiting(p) \/ Out(p) \/ Exit(p)

LogOf(p) == (LogStep(p) \/ OpenFails(p)) /\ UNCHANGED procVars

Next ==
  \E p \in Proc :
    Main(p) \/ LogOf(p) \/ RequestName(p) \/ on_signal_quit(p) \/ Call(p) \/ RoutineEnds(p)

\* The main thread runs on: it finishes a line, enters the loop, hears that the
\* name is lost, leaves, and returns.  A routine may hang, and nobody need call,
\* signal or start a process.
MainRuns(p) ==
  \/ LogStep(p) /\ UNCHANGED procVars
  \/ EnterLoop(p) \/ on_name_lost(p) \/ LeaveLoop(p) \/ Exiting(p) \/ Out(p) \/ Exit(p)

Fairness == \A p \in Proc : WF_vars(MainRuns(p))

Spec == Init /\ [][Next]_vars /\ Fairness

-----------------------------------------------------------------------------
Asked(p) == told[p] \/ quit[p]

TypeOK ==
  /\ LogTypeOK
  /\ pc \in [Proc -> {"new", "options", "warn", "entering", "loop", "exiting", "out", "return", "gone"}]
  /\ told \in [Proc -> BOOLEAN] /\ quit \in [Proc -> BOOLEAN] /\ IsInjective(queue)
  /\ \A p \in Proc : calls[p] + routines[p] <= MaxCalls

\* A process that has calls or routines owns the name or is leaving: two
\* processes work at the same time only while one replaces the other.
ServesAsOwner ==
  \A p \in Proc : calls[p] + routines[p] > 0 => Asked(p) \/ Head(queue) = p

\* A process that has lost the name, never got it, or got a signal exits, even
\* if one of its routines hangs.
LeavesWhenAsked == \A p \in Proc : Asked(p) ~> pc[p] = "gone"
=============================================================================
