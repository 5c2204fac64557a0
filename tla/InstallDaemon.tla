---------------------------- MODULE InstallDaemon ----------------------------
(***************************************************************************)
(* The D-Bus service org.isoftlinux.Install (daemon/daemon.c) with the two *)
(* worker routines it starts: install_deb_routine, which runs install_deb  *)
(* (daemon/deb-helper.c), and install_rpm_routine, which runs install_rpm  *)
(* (daemon/rpm-helper.c).                                                  *)
(*                                                                         *)
(* The GLib main loop dispatches one method call at a time; every routine  *)
(* is a GThread of its own.  They share DaemonPrivate (rpm_list, deb,      *)
(* task_locked) with no mutex, so each read and each write of a shared     *)
(* field by a thread is a step.  A GList is a chain of heap nodes reached  *)
(* from a head pointer: heap holds every list ever allocated and a pointer *)
(* is its index there, with 0 for NULL.                                    *)
(*                                                                         *)
(* What the C program does after it touches freed memory, writes past an   *)
(* array or races on a node's next pointer is undefined; the model records *)
(* the first such access in fault and stops.                               *)
(***************************************************************************)
EXTENDS Naturals, Sequences, FiniteSets

CONSTANTS
  Rpms,      (* files guessed as application/x-rpm                             *)
  SrcRpms,   (* files guessed as application/x-source-rpm                      *)
  Debs,      (* files guessed as application/vnd.debian.binary-package         *)
  Others,    (* files of any other content type                                *)
  NoFile,    (* the NULL file name                                             *)
  MaxCalls,  (* bound: method calls dispatched in a behaviour                  *)
  MaxDebs    (* bound: conversions started in a behaviour                      *)

\* Operators named Mutant... are the code with one plausible bug; they stand
\* beside the definition they vary and no action uses them.

ASSUME BoundsAssumption == MaxCalls \in Nat /\ MaxDebs \in Nat

File    == Rpms \cup SrcRpms \cup Debs \cup Others
RpmOf(d) == <<d, ".rpm">>
Package == Rpms \cup SrcRpms \cup {RpmOf(d) : d \in Debs}

Main == 1   \* the main loop is the first entry of thread

VARIABLES
  rpm_list,     (* priv->rpm_list: an index of heap, 0 when NULL               *)
  deb,          (* priv->deb                                                   *)
  task_locked,  (* priv->task_locked                                           *)
  heap,         (* the GLists: their items and whether they are still there    *)
  thread,       (* the main loop and every GThread started so far              *)
  signal,       (* the signal the last step emitted, Silence when none         *)
  calls,        (* method calls dispatched so far                              *)
  fault,        (* the first undefined access, "none" while there is none      *)
  overlapped    (* history: two threads have used the list at the same time    *)

vars == <<rpm_list, deb, task_locked, heap, thread, signal, calls, fault, overlapped>>

-----------------------------------------------------------------------------
(* Types. *)

Faults == {"none", "use after free", "double free", "overrun", "lost append"}

ListState == {"live", "emptied", "freed"}  \* emptied: the strings are freed

MainPC == {"idle", "length"}
DebPC  == {"enter", "extract", "control", "describe", "write", "report"}
AddPC  == {"read", "find", "link", "store"}
RpmPC  == {"enter", "count", "fill", "transaction", "progress", "free_items",
           "free_list", "reset", "finish"}
EndPC  == {"unlock", "done"}

Thread ==
  [kind : {"main", "deb", "rpm"},
   pc   : MainPC \cup DebPC \cup AddPC \cup RpmPC \cup EndPC,
   file : File \cup {NoFile},   \* the file being added or converted
   list : Nat,                  \* a GList pointer held in a local or argument
   n    : Nat,                  \* a length or position found by walking list
   args : Seq(Package)]         \* argv of install_rpm

NewThread(kind, pc) ==
  [kind |-> kind, pc |-> pc, file |-> NoFile, list |-> 0, n |-> 0, args |-> <<>>]

Status == {0, 1}   \* STATUS_DEB2RPM, STATUS_INSTALL_INSTALL

Signal ==
  [name : {"Error"}, details : {"task locked", "src.rpm note", "problem"}]
    \cup [name : {"Finished"}, status : Status]
    \cup [name : {"PercentChanged"}, status : Status,
          file : File \cup Package \cup {NoFile}, full : BOOLEAN]

Silence        == [name |-> "none"]
Error(details) == [name |-> "Error", details |-> details]
Finished       == [name |-> "Finished", status |-> 1]
PercentChanged(status, file, full) ==
  [name |-> "PercentChanged", status |-> status, file |-> file, full |-> full]

TypeOK ==
  /\ rpm_list \in 0..Len(heap)
  /\ deb \in File \cup {NoFile}
  /\ task_locked \in BOOLEAN
  /\ heap \in Seq([items : Seq(Package), state : ListState])
  /\ thread \in Seq(Thread)
  /\ \A t \in DOMAIN thread : thread[t].list \in 0..Len(heap)
  /\ signal \in Signal \cup {Silence}
  /\ calls \in 0..MaxCalls
  /\ fault \in Faults
  /\ overlapped \in BOOLEAN

-----------------------------------------------------------------------------
(* Helpers. *)

Emit(s) == signal' = s
Quiet   == signal' = Silence

Fails(kind) == fault' = kind

\* thread t goes on at pc
At(t, pc) == thread[t].pc = pc /\ fault = "none"
Becomes(t, r) == thread' = [thread EXCEPT ![t] = r]
Go(t, pc)     == Becomes(t, [thread[t] EXCEPT !.pc = pc])

\* g_thread_new: t goes on at pc beside a new thread
Spawn(t, pc, new) ==
  thread' = Append([thread EXCEPT ![t] = [thread[t] EXCEPT !.pc = pc]], new)

\* A list pointer that may be followed: g_list_free has not run on it.
Intact(l) == l # 0 /\ heap[l].state # "freed"
Freed(l)  == l # 0 /\ heap[l].state = "freed"

MutantAppended(t) == thread[t].file   \* the .deb itself is queued

\* The file name a thread appends to rpm_list: the argument of AddInstall in
\* the main loop, the rpm install_deb wrote in a conversion.
Appended(t) ==
  IF thread[t].kind = "deb" THEN RpmOf(thread[t].file) ELSE thread[t].file

\* The threads that use the list rpm_list points to, or are about to store it.
UsesList(r) ==
  \/ r.pc \in AddPC \cup {"length"}
  \/ r.kind = "rpm" /\ r.pc \in RpmPC \ {"finish"}

ListUser(t) == UsesList(thread[t])

Overlap ==
  \E t, u \in DOMAIN thread : t # u /\ ListUser(t) /\ ListUser(u)

daemonState == <<rpm_list, deb, task_locked>>

Init ==
  /\ rpm_list = 0
  /\ deb = NoFile
  /\ task_locked = FALSE
  /\ heap = <<>>
  /\ thread = <<NewThread("main", "idle")>>
  /\ signal = Silence
  /\ calls = 0
  /\ fault = "none"
  /\ overlapped = FALSE

-----------------------------------------------------------------------------
(* daemon_add_install and daemon_install, dispatched by the main loop. *)

Dispatch ==
  /\ At(Main, "idle")
  /\ calls < MaxCalls
  /\ calls' = calls + 1

StartAdd(f) ==
  Becomes(Main, [thread[Main] EXCEPT !.pc = "read", !.file = f])

AddRpm(f) ==
  /\ f \in Rpms
  /\ Dispatch
  /\ StartAdd(f)
  /\ Quiet
  /\ UNCHANGED <<daemonState, heap, fault>>

AddSrcRpm(f) ==
  /\ f \in SrcRpms
  /\ Dispatch
  /\ Emit(Error("src.rpm note"))
  /\ StartAdd(f)
  /\ UNCHANGED <<daemonState, heap, fault>>

AddDeb(f) ==
  /\ f \in Debs
  /\ ~task_locked
  /\ Cardinality({t \in DOMAIN thread : thread[t].kind = "deb"}) < MaxDebs
  /\ Dispatch
  /\ deb' = f
  /\ Spawn(Main, "idle", NewThread("deb", "enter"))
  /\ Quiet
  /\ UNCHANGED <<rpm_list, task_locked, heap, fault>>

RefuseDeb(f) ==
  /\ f \in Debs
  /\ task_locked
  /\ Dispatch
  /\ Emit(Error("task locked"))
  /\ UNCHANGED <<daemonState, heap, thread, fault>>

IgnoreFile(f) ==
  /\ f \in Others
  /\ Dispatch
  /\ Quiet
  /\ UNCHANGED <<daemonState, heap, thread, fault>>

AddInstall(f) ==
  AddRpm(f) \/ AddSrcRpm(f) \/ AddDeb(f) \/ RefuseDeb(f) \/ IgnoreFile(f)

RefuseInstall ==
  /\ task_locked
  /\ Dispatch
  /\ Emit(Error("task locked"))
  /\ UNCHANGED <<daemonState, heap, thread, fault>>

MutantAcceptInstall ==   \* task_locked is not looked at
  /\ Dispatch
  /\ task_locked' = TRUE
  /\ Go(Main, "length")
  /\ Quiet
  /\ UNCHANGED <<rpm_list, deb, heap, fault>>

AcceptInstall ==
  /\ ~task_locked
  /\ Dispatch
  /\ task_locked' = TRUE
  /\ Go(Main, "length")
  /\ Quiet
  /\ UNCHANGED <<rpm_list, deb, heap, fault>>

Install == RefuseInstall \/ AcceptInstall

\* if (g_list_length(rpm_list)) g_thread_new(install_rpm_routine)
StartInstall ==
  /\ At(Main, "length")
  /\ \/ /\ rpm_list = 0
        /\ Go(Main, "idle")
        /\ UNCHANGED fault
     \/ /\ Intact(rpm_list)
        /\ Spawn(Main, "idle", NewThread("rpm", "enter"))
        /\ UNCHANGED fault
     \/ /\ Freed(rpm_list)
        /\ Fails("use after free")
        /\ UNCHANGED thread
  /\ Quiet
  /\ UNCHANGED <<daemonState, heap, calls>>

-----------------------------------------------------------------------------
(* priv->rpm_list = g_list_append(priv->rpm_list, g_strdup(file)), run by   *)
(* the main loop and by deb_converted_handler.                             *)

AppendRead(t) ==
  /\ At(t, "read")
  /\ Becomes(t, [thread[t] EXCEPT !.pc = "find", !.list = rpm_list])
  /\ Quiet
  /\ UNCHANGED <<daemonState, heap, calls, fault>>

\* g_list_append: a new node is the list when there was none; otherwise walk
\* to the last node.
AppendFind(t) ==
  LET l == thread[t].list IN
  /\ At(t, "find")
  /\ \/ /\ l = 0
        /\ heap' = Append(heap, [items |-> <<Appended(t)>>, state |-> "live"])
        /\ Becomes(t, [thread[t] EXCEPT !.pc = "store", !.list = Len(heap) + 1])
        /\ UNCHANGED fault
     \/ /\ Intact(l)
        /\ Becomes(t, [thread[t] EXCEPT !.pc = "link", !.n = Len(heap[l].items)])
        /\ UNCHANGED <<heap, fault>>
     \/ /\ Freed(l)
        /\ Fails("use after free")
        /\ UNCHANGED <<heap, thread>>
  /\ Quiet
  /\ UNCHANGED <<daemonState, calls>>

\* last->next = new_list.  A node another thread has linked behind last
\* meanwhile is cut off: the race loses a package.
AppendLink(t) ==
  LET l == thread[t].list IN
  /\ At(t, "link")
  /\ \/ /\ Intact(l)
        /\ Len(heap[l].items) = thread[t].n
        /\ heap' = [heap EXCEPT ![l].items = Append(@, Appended(t))]
        /\ Becomes(t, [thread[t] EXCEPT !.pc = "store", !.n = 0])
        /\ UNCHANGED fault
     \/ /\ Intact(l)
        /\ Len(heap[l].items) # thread[t].n
        /\ Fails("lost append")
        /\ UNCHANGED <<heap, thread>>
     \/ /\ Freed(l)
        /\ Fails("use after free")
        /\ UNCHANGED <<heap, thread>>
  /\ Quiet
  /\ UNCHANGED <<daemonState, calls>>

\* The head is stored back.  The main loop returns TRUE; a conversion goes on
\* to start an install, without looking at task_locked.
AppendStore(t) ==
  /\ At(t, "store")
  /\ rpm_list' = thread[t].list
  /\ IF thread[t].kind = "deb"
     THEN Spawn(t, "unlock", NewThread("rpm", "enter"))
     ELSE Becomes(t, NewThread("main", "idle"))
  /\ Quiet
  /\ UNCHANGED <<deb, task_locked, heap, calls, fault>>

-----------------------------------------------------------------------------
(* install_deb_routine.  install_deb is kept to what the daemon sees of it: *)
(* the reports it makes and the exits it takes.                            *)

DebEnter(t) ==
  /\ At(t, "enter") /\ thread[t].kind = "deb"
  /\ Becomes(t, [thread[t] EXCEPT !.pc = "extract", !.file = deb])
  /\ Quiet
  /\ UNCHANGED <<daemonState, heap, calls, fault>>

\* goto exit, with a report to problem or without one
DebGivesUp(t) ==
  /\ \/ At(t, "extract") /\ Emit(Error("problem"))    \* tmpnam failed
     \/ At(t, "describe") /\ Emit(Error("problem"))   \* malloc failed
     \/ At(t, "describe") /\ Quiet                    \* deb_info, app_pkg_new
  /\ Go(t, "unlock")
  /\ UNCHANGED <<daemonState, heap, calls, fault>>

\* converted(&percent, ...): the report names priv->deb, not the argument
DebReports(t, pc, next, full) ==
  /\ At(t, pc)
  /\ Emit(PercentChanged(0, deb, full))
  /\ Go(t, next)
  /\ UNCHANGED <<daemonState, heap, calls, fault>>

DebConvert(t) ==
  \/ DebEnter(t)
  \/ DebGivesUp(t)
  \/ DebReports(t, "extract", "control", FALSE)    \* 0.2
  \/ DebReports(t, "control", "describe", FALSE)   \* 0.4
  \/ DebReports(t, "describe", "write", FALSE)     \* 0.6
  \/ DebReports(t, "write", "report", FALSE)       \* 0.8
  \/ DebReports(t, "report", "read", TRUE)         \* 1.0, then the append

-----------------------------------------------------------------------------
(* install_rpm_routine and install_rpm. *)

\* install_rpm returns at once, without a report, when it is given no list
RpmEnter(t) ==
  /\ At(t, "enter") /\ thread[t].kind = "rpm"
  /\ Becomes(t, [thread[t] EXCEPT
                   !.list = rpm_list,
                   !.pc = IF rpm_list = 0 THEN "free_items" ELSE "count"])
  /\ Quiet
  /\ UNCHANGED <<daemonState, heap, calls, fault>>

\* argc = g_list_length(rpm_list) + 1, and the allocation of argv
RpmCount(t) ==
  LET l == thread[t].list IN
  /\ At(t, "count")
  /\ \/ /\ Intact(l)
        /\ Becomes(t, [thread[t] EXCEPT !.pc = "fill", !.n = Len(heap[l].items)])
        /\ Quiet
        /\ UNCHANGED fault
     \/ /\ Intact(l)
        /\ Go(t, "free_items")
        /\ Emit(Error("problem"))
        /\ UNCHANGED fault
     \/ /\ Freed(l)
        /\ Fails("use after free")
        /\ Quiet
        /\ UNCHANGED thread
  /\ UNCHANGED <<daemonState, heap, calls>>

\* The second walk copies every node it meets into argv, which has room for
\* the nodes the first walk counted.
RpmFill(t) ==
  LET l == heap[thread[t].list] IN
  /\ At(t, "fill")
  /\ \/ /\ l.state = "live"
        /\ Len(l.items) <= thread[t].n
        /\ Becomes(t, [thread[t] EXCEPT !.pc = "transaction", !.args = l.items, !.n = 0])
        /\ UNCHANGED fault
     \/ /\ l.state = "live"
        /\ Len(l.items) > thread[t].n
        /\ Fails("overrun")
        /\ UNCHANGED thread
     \/ /\ l.state # "live"
        /\ Fails("use after free")
        /\ UNCHANGED thread
  /\ Quiet
  /\ UNCHANGED <<daemonState, heap, calls>>

\* rpmtsCreate or malloc fails, or rpmInstallISoftApp (external) refuses the
\* arguments with a problem, or it installs them all.
RpmTransaction(t) ==
  /\ At(t, "transaction")
  /\ \/ /\ Becomes(t, [thread[t] EXCEPT !.pc = "free_items", !.args = <<>>])
        /\ Emit(Error("problem"))
     \/ /\ Go(t, "progress")
        /\ Quiet
  /\ UNCHANGED <<daemonState, heap, calls, fault>>

MutantRpmProgress(t) ==   \* the last package is not reported
  LET i == thread[t].n + 1 IN
  /\ At(t, "progress")
  /\ \/ /\ i < Len(thread[t].args)
        /\ Becomes(t, [thread[t] EXCEPT !.n = i])
        /\ Emit(PercentChanged(1, thread[t].args[i], TRUE))
     \/ /\ i >= Len(thread[t].args)
        /\ Go(t, "free_items")
        /\ Quiet
  /\ UNCHANGED <<daemonState, heap, calls, fault>>

\* RPMCALLBACK_INST_PROGRESS for the next package, through rpm_progress_handle
RpmProgress(t) ==
  LET i == thread[t].n + 1 IN
  /\ At(t, "progress")
  /\ \/ /\ i <= Len(thread[t].args)
        /\ Becomes(t, [thread[t] EXCEPT !.n = i])
        /\ Emit(PercentChanged(1, thread[t].args[i], TRUE))
     \/ /\ i > Len(thread[t].args)
        /\ Go(t, "free_items")
        /\ Quiet
  /\ UNCHANGED <<daemonState, heap, calls, fault>>

MutantRpmFreeItems(t) ==   \* the strings are freed, the list is left
  /\ At(t, "free_items")
  /\ heap' = IF rpm_list = 0 THEN heap
             ELSE [heap EXCEPT ![rpm_list].state = "emptied"]
  /\ Go(t, "finish")
  /\ Quiet
  /\ UNCHANGED <<daemonState, calls, fault>>

\* g_list_foreach(rpm_list, g_free): rpm_list is read again, not the argument
RpmFreeItems(t) ==
  /\ At(t, "free_items")
  /\ \/ /\ rpm_list = 0
        /\ Go(t, "free_list")
        /\ UNCHANGED <<heap, fault>>
     \/ /\ rpm_list # 0
        /\ heap[rpm_list].state = "live"
        /\ heap' = [heap EXCEPT ![rpm_list].state = "emptied"]
        /\ Go(t, "free_list")
        /\ UNCHANGED fault
     \/ /\ rpm_list # 0
        /\ heap[rpm_list].state # "live"
        /\ Fails("double free")
        /\ UNCHANGED <<heap, thread>>
  /\ Quiet
  /\ UNCHANGED <<daemonState, calls>>

MutantRpmFreeList(t) ==   \* Finished is emitted before rpm_list is reset
  /\ At(t, "free_list")
  /\ heap' = IF rpm_list = 0 THEN heap ELSE [heap EXCEPT ![rpm_list].state = "freed"]
  /\ Go(t, "reset")
  /\ Emit(Finished)
  /\ UNCHANGED <<daemonState, calls, fault>>

\* g_list_free(rpm_list)
RpmFreeList(t) ==
  /\ At(t, "free_list")
  /\ \/ /\ rpm_list = 0
        /\ Go(t, "reset")
        /\ UNCHANGED <<heap, fault>>
     \/ /\ Intact(rpm_list)
        /\ heap' = [heap EXCEPT ![rpm_list].state = "freed"]
        /\ Go(t, "reset")
        /\ UNCHANGED fault
     \/ /\ Freed(rpm_list)
        /\ Fails("double free")
        /\ UNCHANGED <<heap, thread>>
  /\ Quiet
  /\ UNCHANGED <<daemonState, calls>>

MutantRpmReset(t) ==   \* rpm_list is not set to NULL
  /\ At(t, "reset")
  /\ Go(t, "finish")
  /\ Quiet
  /\ UNCHANGED <<daemonState, heap, calls, fault>>

RpmReset(t) ==
  /\ At(t, "reset")
  /\ rpm_list' = 0
  /\ Go(t, "finish")
  /\ Quiet
  /\ UNCHANGED <<deb, task_locked, heap, calls, fault>>

MutantRpmFinish(t) ==   \* Finished is not emitted
  /\ At(t, "finish")
  /\ Go(t, "unlock")
  /\ Quiet
  /\ UNCHANGED <<daemonState, heap, calls, fault>>

RpmFinish(t) ==
  /\ At(t, "finish")
  /\ Go(t, "unlock")
  /\ Emit(Finished)
  /\ UNCHANGED <<daemonState, heap, calls, fault>>

RpmInstall(t) ==
  \/ RpmEnter(t)       \/ RpmCount(t)     \/ RpmFill(t)
  \/ RpmTransaction(t) \/ RpmProgress(t)  \/ RpmFreeItems(t)
  \/ RpmFreeList(t)    \/ RpmReset(t)     \/ RpmFinish(t)

\* task_locked = FALSE, the last statement of both routines
Unlock(t) ==
  /\ At(t, "unlock")
  /\ task_locked' = FALSE
  /\ Becomes(t, [thread[t] EXCEPT !.pc = "done", !.list = 0, !.n = 0])
  /\ Quiet
  /\ UNCHANGED <<rpm_list, deb, heap, calls, fault>>

-----------------------------------------------------------------------------
(* The next-state relation. *)

\* one step of the main loop inside a handler
MainStep ==
  \/ StartInstall
  \/ AppendRead(Main) \/ AppendFind(Main) \/ AppendLink(Main) \/ AppendStore(Main)

\* one step of a worker thread
Worker(t) ==
  \/ DebConvert(t)
  \/ AppendRead(t) \/ AppendFind(t) \/ AppendLink(t) \/ AppendStore(t)
  \/ RpmInstall(t)
  \/ Unlock(t)

Workers == DOMAIN thread \ {Main}

Observe == overlapped' = (overlapped \/ Overlap')

Call     == (\E f \in File : AddInstall(f)) \/ Install
Progress == MainStep \/ \E t \in Workers : Worker(t)

\* Nothing is left to do: the main loop waits for calls the bound leaves out
\* and every routine has returned, or the program has met a fault.
Quiescent ==
  \/ fault # "none"
  \/ /\ thread[Main].pc = "idle"
     /\ calls = MaxCalls
     /\ \A t \in Workers : thread[t].pc = "done"

Rest == Quiescent /\ UNCHANGED vars

Next == (Call /\ Observe) \/ (Progress /\ Observe) \/ Rest

Spec == Init /\ [][Next]_vars

-----------------------------------------------------------------------------
(* Properties. *)

\* A chain of rpm_list is only damaged when two threads use it at the same
\* time.  Every conversion, install and AddInstall that runs alone leaves the
\* list either NULL or whole (daemon.c reads rpm_list three times in
\* install_rpm_routine and frees it there).
FaultNeedsOverlap == fault # "none" => overlapped

RpmRoutines == {t \in Workers : /\ thread[t].kind = "rpm"
                                /\ thread[t].pc # "done"}

\* Between calls and with no routine running rpm_list is NULL or a whole list:
\* nobody is left with a freed or half-freed list, unless threads overlapped.
ListWholeAtRest ==
  (/\ ~overlapped
   /\ \A t \in DOMAIN thread : ~ListUser(t)
   /\ rpm_list # 0)
  => heap[rpm_list].state = "live"

\* task_locked keeps a second install out for as long as no conversion has
\* handed over its rpm: conversions may run beside an install, but it takes
\* one that ends (it starts an install of its own and clears the lock, whoever
\* set it) to have two install routines side by side.
LockExcludesInstalls ==
  (\A t \in Workers : thread[t].kind = "deb" => thread[t].pc \notin EndPC)
    => Cardinality(RpmRoutines) <= 1

\* Nothing touches freed memory, writes past argv or loses a node.
NoFault == fault = "none"

-----------------------------------------------------------------------------
(* The inductive invariant behind FaultNeedsOverlap. *)

\* what a thread of each kind may be doing while priv->deb is d
ThreadOK(r, d) ==
  /\ r.pc \in {"link", "count", "fill"} => r.list # 0
  /\ \/ /\ r.kind = "main"
        /\ r.pc \in MainPC \cup AddPC
        /\ r.pc \in AddPC => r.file \in Rpms \cup SrcRpms
     \/ /\ r.kind = "deb"
        /\ r.pc \in DebPC \cup AddPC \cup EndPC
        /\ r.pc # "enter" => r.file \in Debs
        /\ d \in Debs
     \/ /\ r.kind = "rpm"
        /\ r.pc \in RpmPC \cup EndPC

WellFormed ==
  /\ TypeOK
  /\ thread # <<>>
  /\ \A t \in DOMAIN thread :
       ThreadOK(thread[t], deb) /\ (thread[t].kind = "main" <=> t = Main)

Live(l, h)  == l # 0 /\ h[l].state = "live"
Whole(l, h) == l # 0 => h[l].state = "live"

\* What the only user r of the list knows of it, by its program counter, when
\* priv->rpm_list is l and h are the lists.
Knows(r, l, h) ==
  /\ r.pc \in {"length", "read", "enter", "transaction", "progress", "free_items"}
       => Whole(l, h)
  /\ r.pc = "find" => r.list = l /\ Whole(l, h)
  /\ r.pc \in {"link", "count", "fill"} => r.list = l /\ Live(l, h)
  /\ r.pc \in {"link", "fill"} => r.n = Len(h[l].items)
  /\ r.pc = "store" => Live(r.list, h) /\ l \in {0, r.list}
  /\ r.pc = "free_list" => Whole(l, h) \/ h[l].state = "emptied"

\* Until two threads have used the list at the same time there is no fault,
\* the list is whole when nobody uses it, and its only user knows its state.
MemoryInv ==
  ~overlapped =>
    /\ fault = "none"
    /\ ~Overlap
    /\ (\A t \in DOMAIN thread : ~ListUser(t)) => Whole(rpm_list, heap)
    /\ \A t \in DOMAIN thread :
         ListUser(t) => Knows(thread[t], rpm_list, heap)
=============================================================================
