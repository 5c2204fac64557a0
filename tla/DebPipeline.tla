---------------------------- MODULE DebPipeline ----------------------------
(***************************************************************************)
(* The second half of extracthalf (daemon/debresolve.c): three children    *)
(* joined by two pipes.  "paste" copies the member out of the archive,     *)
(* "<decompress>" expands it and tar reads it; the caller waits for tar,   *)
(* for decompress and for paste, in this order, and looks at none of their *)
(* results.                                                                *)
(*                                                                         *)
(* A job is one call of extracthalf by one thread of the daemon.  The      *)
(* threads have one table of file descriptors, none is close-on-exec, and  *)
(* fork copies the table as it stands: a child also gets the pipe ends     *)
(* another job has open at that time, and keeps them until it exits.       *)
(*                                                                         *)
(* A child that fails may leave with exit, or with the "return -1" that    *)
(* was written for the parent: then a copy of the daemon's thread goes on  *)
(* with the conversion, with the descriptors of the child, and exits when  *)
(* the thread's routine returns.                                           *)
(***************************************************************************)
EXTENDS Naturals, FiniteSets

CONSTANTS
  Job,
  Length,        \* what the member holds, in units
  PipeSize,      \* what a pipe holds, in the same units
  MaxFailures    \* bound: calls that fail of their own accord

ASSUME PipelineAssumption ==
  /\ Length \in Nat
  /\ PipeSize \in Nat \ {0}
  /\ MaxFailures \in Nat

Paste == 1
Decompress == 2
Tar == 3

Child == Job \X (1..3)
Pipe == Job \X (1..2)            \* p1 and p2 of each call
End == Pipe \X {"r", "w"}

VARIABLES
  pc,        \* where each call is
  open,      \* the pipe ends the daemon has open
  child,     \* the children of each call
  pipe,      \* how much is in each pipe
  reaped,    \* the children that were waited for
  failed,    \* history: the calls with a child that was not forked or failed
  failures   \* how many calls have failed of their own accord

vars == <<pc, open, child, pipe, reaped, failed, failures>>

PC == {"idle", "fork1", "close1w", "pipe2", "fork2", "close1r", "close2w", "fork3",
       "close2r", "reap3", "reap2", "reap1", "returned"}

Process == [state : {"unborn", "running", "copy", "exited"},
            fds : SUBSET End,     \* what it has open
            done : 0..Length]     \* paste and tar: what it has copied

Init ==
  /\ pc = [j \in Job |-> "idle"]
  /\ open = {}
  /\ child = [c \in Child |-> [state |-> "unborn", fds |-> {}, done |-> 0]]
  /\ pipe = [p \in Pipe |-> 0]
  /\ reaped = {} /\ failed = {} /\ failures = 0

-----------------------------------------------------------------------------
(* The caller.                                                             *)

From(j, here, there) == pc[j] = here /\ pc' = [pc EXCEPT ![j] = there]

children == <<child, pipe, failed, failures>>

OpenPipe(j, k, here, there) ==
  /\ From(j, here, there)
  /\ open' = open \cup {<<<<j, k>>, "r">>, <<<<j, k>>, "w">>}
  /\ UNCHANGED <<children, reaped>>

MutantClose(j, end, here, there) ==   \* the write ends stay open
  /\ From(j, here, there)
  /\ open' = IF end[2] = "w" THEN open ELSE open \ {end}
  /\ UNCHANGED <<children, reaped>>

Close(j, end, here, there) ==
  /\ From(j, here, there)
  /\ open' = open \ {end}
  /\ UNCHANGED <<children, reaped>>

\* The first thing paste and decompress do is to close the end of their own
\* output that is not theirs; nobody but they themselves would notice it.
Unused(j, i) == IF i = Tar THEN {} ELSE {<<<<j, i>>, "r">>}

\* deb_subproc_fork.  That it returned -1 is seen for paste only, and only
\* when it is waited for.
Fork(j, i, here, there) ==
  /\ From(j, here, there)
  /\ \/ /\ child' = [child EXCEPT ![<<j, i>>].state = "running",
                                  ![<<j, i>>].fds = open \ Unused(j, i)]
        /\ UNCHANGED <<failed, failures>>
     \/ /\ failures < MaxFailures
        /\ failures' = failures + 1
        /\ failed' = failed \cup {j}
        /\ UNCHANGED child
  /\ UNCHANGED <<open, pipe, reaped>>

Forked(c) == child[c].state # "unborn"
Waiting(c) == child[c].state = "exited" /\ c \notin reaped

MutantReap(j, i, here, there) ==   \* does not wait for a child that is still there
  /\ From(j, here, there)
  /\ reaped' = reaped \cup {c \in {<<j, i>>} : Waiting(c)}
  /\ UNCHANGED <<open, children>>

\* deb_subproc_reap.  The pid of a child that was not forked is -1, which
\* waits for any child of the daemon.
Reap(j, i, here, there) ==
  /\ From(j, here, there)
  /\ \/ Waiting(<<j, i>>) /\ reaped' = reaped \cup {<<j, i>>}
     \/ <<j, i>> \in reaped /\ UNCHANGED reaped
     \/ /\ ~Forked(<<j, i>>) /\ i # Paste
        /\ \E c \in Child : Waiting(c) /\ reaped' = reaped \cup {c}
     \/ /\ ~Forked(<<j, i>>)
        /\ i = Paste \/ \A c \in Child : Forked(c) => c \in reaped
        /\ UNCHANGED reaped
  /\ UNCHANGED <<open, children>>

Parent(j) ==
  \/ OpenPipe(j, 1, "idle", "fork1")
  \/ Fork(j, Paste, "fork1", "close1w")
  \/ Close(j, <<<<j, 1>>, "w">>, "close1w", "pipe2")
  \/ OpenPipe(j, 2, "pipe2", "fork2")
  \/ Fork(j, Decompress, "fork2", "close1r")
  \/ Close(j, <<<<j, 1>>, "r">>, "close1r", "close2w")
  \/ Close(j, <<<<j, 2>>, "w">>, "close2w", "fork3")
  \/ Fork(j, Tar, "fork3", "close2r")
  \/ Close(j, <<<<j, 2>>, "r">>, "close2r", "reap3")
  \/ Reap(j, Tar, "reap3", "reap2")
  \/ Reap(j, Decompress, "reap2", "reap1")
  \/ Reap(j, Paste, "reap1", "returned")

-----------------------------------------------------------------------------
(* The children.                                                           *)

caller == <<pc, open, reaped>>

Holds(end) == end \in open \/ \E c \in Child : end \in child[c].fds
Readers(p) == Holds(<<p, "r">>)
Writers(p) == Holds(<<p, "w">>)

Is(c, state) == child[c].state = state

\* exit(): the kernel closes what the child has open.
Gone(c) == [child[c] EXCEPT !.state = "exited", !.fds = {}]

Exit(c) ==
  /\ child' = [child EXCEPT ![c] = Gone(c)]
  /\ UNCHANGED <<pipe, failed, failures, caller>>

\* A failure the child meets in a pipe.
Break(c, t) ==
  /\ child' = [child EXCEPT ![c] = t]
  /\ failed' = failed \cup {c[1]}
  /\ UNCHANGED <<pipe, failures, caller>>

\* One it meets elsewhere: the archive ends early, the data are corrupt, the
\* disk is full.
Fail(c, t) ==
  /\ failures < MaxFailures
  /\ failures' = failures + 1
  /\ child' = [child EXCEPT ![c] = t]
  /\ failed' = failed \cup {c[1]}
  /\ UNCHANGED <<pipe, caller>>

\* return -1 in a child.
Copy(c) == [child[c] EXCEPT !.state = "copy"]

\* One unit copied.
Further(c) == [child[c] EXCEPT !.done = @ + 1]

MutantPasteStep(j) ==   \* one unit too many
  LET c == <<j, Paste>>
      out == <<j, 1>> IN
  /\ Is(c, "running")
  /\ \/ /\ child[c].done <= Length
        /\ Readers(out) /\ pipe[out] < PipeSize
        /\ pipe' = [pipe EXCEPT ![out] = @ + 1]
        /\ child' = [child EXCEPT ![c] = Further(c)]
        /\ UNCHANGED <<failed, failures, caller>>
     \/ child[c].done > Length /\ Exit(c)

\* fd_fd_copy(arfd, p1[1], memberlen), close(p1[1]), exit(0).
PasteStep(j) ==
  LET c == <<j, Paste>>
      out == <<j, 1>> IN
  /\ Is(c, "running")
  /\ \/ /\ child[c].done < Length
        /\ \/ /\ Readers(out) /\ pipe[out] < PipeSize
              /\ pipe' = [pipe EXCEPT ![out] = @ + 1]
              /\ child' = [child EXCEPT ![c] = Further(c)]
              /\ UNCHANGED <<failed, failures, caller>>
           \/ ~Readers(out) /\ Break(c, Copy(c))
           \/ Fail(c, Copy(c))
     \/ child[c].done = Length /\ Exit(c)

\* decompress_filter(decompressor, p1[0], p2[1]).  At the end of its input, be
\* it early, it exits, as it does after an error.  What it is about to write
\* counts as still in the pipe it comes from.
DecompressStep(j) ==
  LET c == <<j, Decompress>>
      in == <<j, 1>>
      out == <<j, 2>> IN
  /\ Is(c, "running")
  /\ \/ /\ pipe[in] > 0 /\ Readers(out) /\ pipe[out] < PipeSize
        /\ pipe' = [pipe EXCEPT ![in] = @ - 1, ![out] = @ + 1]
        /\ UNCHANGED <<child, failed, failures, caller>>
     \/ pipe[in] > 0 /\ ~Readers(out) /\ Break(c, Gone(c))
     \/ pipe[in] = 0 /\ ~Writers(in) /\ Exit(c)
     \/ Fail(c, Gone(c))

\* dup2(p2[0], 0), close(p2[0]) and chdir(dir), which may fail; then exec of
\* tar, which reads to the end or fails earlier.
TarStep(j) ==
  LET c == <<j, Tar>>
      in == <<j, 2>> IN
  /\ Is(c, "running")
  /\ \/ /\ pipe[in] > 0
        /\ pipe' = [pipe EXCEPT ![in] = @ - 1]
        /\ child' = [child EXCEPT ![c] = Further(c)]
        /\ UNCHANGED <<failed, failures, caller>>
     \/ pipe[in] = 0 /\ ~Writers(in) /\ Exit(c)
     \/ child[c].done = 0 /\ Fail(c, Copy(c))
     \/ Fail(c, Gone(c))

\* The copy of the thread comes to the end of its routine.
CopyEnds(c) == Is(c, "copy") /\ Exit(c)

ChildStep(j) ==
  PasteStep(j) \/ DecompressStep(j) \/ TarStep(j) \/ \E i \in 1..3 : CopyEnds(<<j, i>>)

Next == \E j \in Job : Parent(j) \/ ChildStep(j)

Spec == Init /\ [][Next]_vars

\* Calls that have begun and their children go on, but need not fail to do so.
Fairness ==
  \A j \in Job :
    /\ WF_vars(ChildStep(j) /\ UNCHANGED failures)
    /\ WF_vars(pc[j] # "idle" /\ Parent(j))

FairSpec == Spec /\ Fairness

-----------------------------------------------------------------------------
\* The types: counters and pipes keep within their bounds.
TypeOK ==
  /\ pc \in [Job -> PC]
  /\ open \subseteq End
  /\ child \in [Child -> Process]
  /\ pipe \in [Pipe -> 0..PipeSize]
  /\ reaped \subseteq Child
  /\ failed \subseteq Job
  /\ failures \in 0..MaxFailures

\* When extracthalf returns to its caller, none of its children is left that
\* could write to the directory or go on as a copy of the caller, even when a
\* fork failed and the wait for it took another child's end instead.
ReturnMeansQuiet ==
  \A j \in Job : pc[j] = "returned" =>
    \A i \in 1..3 : child[<<j, i>>].state \in {"unborn", "exited"}

\* What tar has by then is the whole member, unless a child of this very call
\* failed: nothing is lost between the stages, whoever else holds the pipes.
CompleteUnlessFailed ==
  \A j \in Job : pc[j] = "returned" =>
    child[<<j, Tar>>].done = Length \/ j \in failed

\* A child that reads from a pipe waits for the end of its input until every
\* holder of the write end is gone, and those may be children of other calls
\* that wait themselves.  They never wait in a circle: the caller closes its
\* write end before it forks the reader, so a reader is never among those an
\* older reader waits for.
Reader(p) == <<p[1], p[2] + 1>>

WaitsInACircle(S) ==
  \A p \in S : \E q \in S : <<p, "w">> \in child[Reader(q)].fds

NoCircle ==
  \A S \in SUBSET {p \in Pipe : Forked(Reader(p))} : WaitsInACircle(S) => S = {}

\* Nothing can move: each call that is under way waits for a child that is
\* there, each child for a pipe.
ParentBlocked(j) ==
  \E i \in 1..3 :
    /\ pc[j] = <<"reap1", "reap2", "reap3">>[i]
    /\ IF Forked(<<j, i>>)
       THEN child[<<j, i>>].state # "exited"
       ELSE /\ i # Paste
            /\ \E c \in Child : Forked(c) /\ c \notin reaped
            /\ ~\E c \in Child : Waiting(c)

StageBlocked(c) ==
  LET j == c[1] IN
  /\ Is(c, "running")
  /\ CASE c[2] = Paste -> child[c].done < Length /\ Readers(<<j, 1>>) /\ pipe[<<j, 1>>] = PipeSize
       [] c[2] = Decompress ->
            IF pipe[<<j, 1>>] = 0 THEN Writers(<<j, 1>>)
                                  ELSE Readers(<<j, 2>>) /\ pipe[<<j, 2>>] = PipeSize
       [] c[2] = Tar -> Writers(<<j, 2>>) /\ pipe[<<j, 2>>] = 0

UnderWay == {j \in Job : pc[j] \notin {"idle", "returned"}}

Hung ==
  /\ UnderWay # {}
  /\ \A j \in UnderWay : ParentBlocked(j)
  /\ \A c \in Child : StageBlocked(c) \/ child[c].state \in {"unborn", "exited"}

\* The calls hang only if two were under way at once and a child has failed
\* before it had read all of its input: then the writer of its pipe is not told
\* if a child of the other call holds the read end too.
HangNeedsFailureAndCompany ==
  Hung => Cardinality(UnderWay) > 1 /\ failed # {}

\* A call that has the daemon to itself comes back, whatever fails in it.
CallsReturn == \A j \in Job : pc[j] = "fork1" ~> pc[j] = "returned"
=============================================================================
