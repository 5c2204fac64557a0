------------------------------- MODULE Helper -------------------------------
(***************************************************************************)
(* getOutputFrom (daemon/rpmfc.c): a dependency helper is fed the name of  *)
(* a file on its standard input and what it prints is collected, through   *)
(* two pipes; runCmd and rpmfcExec around it.  Each conversion calls it    *)
(* from its own thread.                                                    *)
(*                                                                         *)
(* The threads share one table of descriptors, none is close-on-exec, and  *)
(* fork copies the table as it stands: a helper also holds the pipe ends   *)
(* other calls have open at that time, until it exits.                     *)
(*                                                                         *)
(* A helper reads and prints in any order, a unit at a time, and waits     *)
(* when the pipe is not ready; it may exit at any time.  Writing to a pipe *)
(* without a reader kills it; the daemon, in which GIO ignores SIGPIPE,    *)
(* gets an error instead.                                                  *)
(***************************************************************************)
EXTENDS StringBuf, FiniteSets

CONSTANTS
  Thread,
  NameLength,    \* of the file's name, in units of what is written at once
  PipeSize,      \* what a pipe holds
  MaxOutput,     \* bound: what a helper prints
  MaxFailures    \* bound: calls of pipe and fork that fail

ASSUME HelperAssumption ==
  /\ NameLength \in Nat
  /\ PipeSize \in Nat \ {0}
  /\ MaxOutput \in Nat /\ MaxFailures \in Nat

\* toProg and fromProg of each call.
Pipe == Thread \X {"to", "from"}
End == Pipe \X {"r", "w"}
To(t, e) == <<<<t, "to">>, e>>
From(t, e) == <<<<t, "from">>, e>>

VARIABLES
  pc,        \* where each call is
  left,      \* writeBytesLeft
  ready,     \* the ends select found ready
  error,     \* myerrno is set
  readBuff,
  result,    \* what runCmd gets
  open,      \* the ends the daemon has open
  helper,    \* the state of each child
  fds,       \* the ends each child has open
  eof,       \* the child has met the end of its input
  printed,   \* how much it has written
  pipe,      \* how much is in each pipe
  failed     \* the calls whose pipe() or fork() failed

vars == <<pc, left, ready, error, readBuff, result, open, helper, fds, eof, printed, pipe, failed>>

PC == {"idle", "to", "from", "fork", "closeToR", "closeFromW", "loop", "io",
       "cleanup", "wait", "done"}

\* What runCmd puts into the buffer for standard input.
Name == appendLineStringBuf(newStringBuf, NameLength)

Init ==
  /\ pc = [t \in Thread |-> "idle"]
  /\ left = [t \in Thread |-> strlen(Name)]
  /\ ready = [t \in Thread |-> {}]
  /\ error = [t \in Thread |-> FALSE]
  /\ readBuff = [t \in Thread |-> newStringBuf]
  /\ result = [t \in Thread |-> "none"]
  /\ open = {}
  /\ helper = [t \in Thread |-> "unborn"]
  /\ fds = [t \in Thread |-> {}]
  /\ eof = [t \in Thread |-> FALSE]
  /\ printed = [t \in Thread |-> 0]
  /\ pipe = [p \in Pipe |-> 0]
  /\ failed = {}

-----------------------------------------------------------------------------
(* The caller.                                                             *)

Go(t, here, there) == pc[t] = here /\ pc' = [pc EXCEPT ![t] = there]

Holds(end) == end \in open \/ \E t \in Thread : end \in fds[t]

exchange == <<left, ready, error, readBuff>>
child == <<helper, fds, eof, printed>>

Return(t, r) == pc' = [pc EXCEPT ![t] = "done"] /\ result' = [result EXCEPT ![t] = r]

\* No macro is defined for this kind of dependency, or it expands to nothing.
NoHelper(t) ==
  /\ pc[t] = "idle" /\ Return(t, "null")
  /\ UNCHANGED <<exchange, open, child, pipe, failed>>

runCmd(t) ==
  /\ Go(t, "idle", "to")
  /\ UNCHANGED <<exchange, result, open, child, pipe, failed>>

\* A call that fails here returns at once, with what it has opened still open.
Fails(t) ==
  /\ Cardinality(failed) < MaxFailures
  /\ failed' = failed \cup {t} /\ Return(t, "null")

OpenPipe(t, here, ends, there) ==
  /\ pc[t] = here
  /\ \/ Go(t, here, there) /\ open' = open \cup ends /\ UNCHANGED <<result, failed>>
     \/ Fails(t) /\ UNCHANGED open
  /\ UNCHANGED <<exchange, child, pipe>>

Fork(t) ==
  /\ pc[t] = "fork"
  /\ \/ /\ Go(t, "fork", "closeToR")
        /\ helper' = [helper EXCEPT ![t] = "born"]
        /\ fds' = [fds EXCEPT ![t] = open]
        /\ UNCHANGED <<result, failed>>
     \/ Fails(t) /\ UNCHANGED <<helper, fds>>
  /\ UNCHANGED <<exchange, open, eof, printed, pipe>>

MutantClose(t, here, ends, there) ==   \* the second of two is forgotten
  /\ Go(t, here, there)
  /\ open' = open \ {e \in ends : e[1][2] = "to"}
  /\ UNCHANGED <<exchange, result, child, pipe, failed>>

Close(t, here, ends, there) ==
  /\ Go(t, here, there)
  /\ open' = open \ ends
  /\ UNCHANGED <<exchange, result, child, pipe, failed>>

\* Conditions of select: a pipe can be written to when a whole portion fits or
\* nobody is left to read it, and read when something is in it or nobody is
\* left to write.
MutantWritable(t) == TRUE   \* full pipes are not noticed

Writable(t) == pipe[<<t, "to">>] < PipeSize \/ ~Holds(To(t, "r"))
Readable(t) == pipe[<<t, "from">>] > 0 \/ ~Holds(From(t, "w"))

\* The head of the loop and select.  The write side is closed as soon as
\* nothing is left to be written.
CloseInput(t) ==
  /\ pc[t] = "loop" /\ left[t] = 0 /\ To(t, "w") \in open
  /\ open' = open \ {To(t, "w")}
  /\ UNCHANGED <<pc, exchange, result, child, pipe, failed>>

MutantSelect(t) ==   \* nothing is read before everything is written
  /\ left[t] = 0 => To(t, "w") \notin open
  /\ Go(t, "loop", "io")
  /\ ready' = [ready EXCEPT ![t] =
       IF left[t] > 0 THEN (IF Writable(t) THEN {"to"} ELSE {})
                      ELSE (IF Readable(t) THEN {"from"} ELSE {})]
  /\ ready'[t] # {}
  /\ UNCHANGED <<left, error, readBuff, result, open, child, pipe, failed>>

Select(t) ==
  /\ left[t] = 0 => To(t, "w") \notin open
  /\ Go(t, "loop", "io")
  /\ ready' = [ready EXCEPT ![t] =
       (IF left[t] > 0 /\ Writable(t) THEN {"to"} ELSE {})
         \cup (IF Readable(t) THEN {"from"} ELSE {})]
  /\ ready'[t] # {}
  /\ UNCHANGED <<left, error, readBuff, result, open, child, pipe, failed>>

\* What follows select: one portion is written, then some of what there is is
\* read.  An error of the first leaves out the second; it or the end of the
\* output ends the loop.  (What select found ready stays so until then.)
MutantTransfer(t) ==   \* the loop ends when everything is written
  LET broken == "to" \in ready[t] /\ ~Holds(To(t, "r"))
      sent == IF "to" \in ready[t] /\ ~broken THEN 1 ELSE 0
      there == IF "from" \in ready[t] /\ ~broken THEN pipe[<<t, "from">>] ELSE 0 IN
  /\ Go(t, "io", IF broken \/ left[t] = 0 THEN "cleanup" ELSE "loop")
  /\ pipe' = [pipe EXCEPT ![<<t, "to">>] = @ + sent, ![<<t, "from">>] = @ - there]
  /\ readBuff' = [readBuff EXCEPT ![t] = appendStringBuf(@, there)]
  /\ left' = [left EXCEPT ![t] = @ - sent]
  /\ error' = [error EXCEPT ![t] = @ \/ broken]
  /\ ready' = [ready EXCEPT ![t] = {}]
  /\ UNCHANGED <<result, open, child, failed>>

Transfer(t) ==
  LET broken == "to" \in ready[t] /\ ~Holds(To(t, "r"))
      sent == IF "to" \in ready[t] /\ ~broken THEN 1 ELSE 0
      there == IF "from" \in ready[t] /\ ~broken THEN pipe[<<t, "from">>] ELSE 0
      ends == broken \/ ("from" \in ready[t] /\ there = 0) IN
  /\ Go(t, "io", IF ends THEN "cleanup" ELSE "loop")
  /\ \E n \in IF there = 0 THEN {0} ELSE 1..there :
       /\ pipe' = [pipe EXCEPT ![<<t, "to">>] = @ + sent, ![<<t, "from">>] = @ - n]
       /\ readBuff' = [readBuff EXCEPT ![t] = IF n = 0 THEN @ ELSE appendStringBuf(@, n)]
  /\ left' = [left EXCEPT ![t] = @ - sent]
  /\ error' = [error EXCEPT ![t] = @ \/ broken]
  /\ ready' = [ready EXCEPT ![t] = {}]
  /\ UNCHANGED <<result, open, child, failed>>

\* waitpid.  A helper's exit status is no error, the only caller says.
Wait(t) ==
  /\ pc[t] = "wait" /\ helper[t] = "exited"
  /\ helper' = [helper EXCEPT ![t] = "reaped"]
  /\ Return(t, IF left[t] > 0 \/ error[t] THEN "null" ELSE "text")
  /\ UNCHANGED <<exchange, open, fds, eof, printed, pipe, failed>>

Parent(t) ==
  \/ NoHelper(t) \/ runCmd(t)
  \/ OpenPipe(t, "to", {To(t, "r"), To(t, "w")}, "from")
  \/ OpenPipe(t, "from", {From(t, "r"), From(t, "w")}, "fork")
  \/ Fork(t)
  \/ Close(t, "closeToR", {To(t, "r")}, "closeFromW")
  \/ Close(t, "closeFromW", {From(t, "w")}, "loop")
  \/ CloseInput(t) \/ Select(t) \/ Transfer(t)
  \/ Close(t, "cleanup", {To(t, "w"), From(t, "r")}, "wait")
  \/ Wait(t)

-----------------------------------------------------------------------------
(* The helper.                                                             *)

caller == <<pc, left, ready, error, readBuff, result, open, failed>>

\* What it does next is up to the helper, within what is left to do; what it
\* has begun it goes through with.
Turns(t, e, n) ==
  \E s \in {"leaving"} \cup (IF e THEN {} ELSE {"reading"})
                          \cup (IF n < MaxOutput THEN {"writing"} ELSE {}) :
    helper' = [helper EXCEPT ![t] = s]

\* It closes the ends of its own pipes that are not its own.
Start(t) ==
  /\ helper[t] = "born" /\ Turns(t, FALSE, 0)
  /\ fds' = [fds EXCEPT ![t] = @ \ {To(t, "w"), From(t, "r")}]
  /\ UNCHANGED <<eof, printed, pipe, caller>>

Read(t) ==
  /\ helper[t] = "reading" /\ pipe[<<t, "to">>] > 0 /\ Turns(t, FALSE, printed[t])
  /\ pipe' = [pipe EXCEPT ![<<t, "to">>] = @ - 1]
  /\ UNCHANGED <<fds, eof, printed, caller>>

MeetEof(t) ==
  /\ helper[t] = "reading" /\ pipe[<<t, "to">>] = 0 /\ ~Holds(To(t, "w"))
  /\ Turns(t, TRUE, printed[t])
  /\ eof' = [eof EXCEPT ![t] = TRUE]
  /\ UNCHANGED <<fds, printed, pipe, caller>>

PrintOut(t) ==
  /\ helper[t] = "writing" /\ Holds(From(t, "r")) /\ pipe[<<t, "from">>] < PipeSize
  /\ Turns(t, eof[t], printed[t] + 1)
  /\ pipe' = [pipe EXCEPT ![<<t, "from">>] = @ + 1]
  /\ printed' = [printed EXCEPT ![t] = @ + 1]
  /\ UNCHANGED <<fds, eof, caller>>

\* It leaves, or is killed by SIGPIPE.
Exit(t) ==
  /\ helper[t] = "leaving" \/ (helper[t] = "writing" /\ ~Holds(From(t, "r")))
  /\ helper' = [helper EXCEPT ![t] = "exited"]
  /\ fds' = [fds EXCEPT ![t] = {}]
  /\ UNCHANGED <<eof, printed, pipe, caller>>

HelperStep(t) == Start(t) \/ Read(t) \/ MeetEof(t) \/ PrintOut(t) \/ Exit(t)

Next == \E t \in Thread : Parent(t) \/ HelperStep(t)

Spec == Init /\ [][Next]_vars

\* Calls go on and need no failure for it; helpers go on and do not run for ever.
Fairness ==
  \A t \in Thread :
    /\ WF_vars(pc[t] # "idle" /\ Parent(t) /\ UNCHANGED failed)
    /\ WF_vars(HelperStep(t))

FairSpec == Spec /\ Fairness

-----------------------------------------------------------------------------
TypeOK ==
  /\ pc \in [Thread -> PC]
  /\ left \in [Thread -> 0..(NameLength + 1)]
  /\ ready \in [Thread -> SUBSET {"to", "from"}]
  /\ error \in [Thread -> BOOLEAN]
  /\ readBuff \in [Thread -> StringBuf]
  /\ result \in [Thread -> {"none", "null", "text"}]
  /\ open \in SUBSET End
  /\ helper \in [Thread -> {"unborn", "born", "reading", "writing", "leaving", "exited", "reaped"}]
  /\ fds \in [Thread -> SUBSET End]
  /\ eof \in [Thread -> BOOLEAN]
  /\ printed \in [Thread -> 0..MaxOutput]
  /\ pipe \in [Pipe -> 0..PipeSize]
  /\ failed \in SUBSET Thread

\* What is appended to a buffer lies within it, with the NUL behind it.
BuffersHold == \A t \in Thread : Sound(readBuff[t])

\* A text that is returned is all the helper has printed, to the last unit,
\* whatever else holds the pipe and however the reads fell.
TextIsComplete ==
  \A t \in Thread : result[t] = "text" => strlen(readBuff[t]) = printed[t]

\* When the call is over its helper has been waited for and its pipes are
\* closed, except after a call of pipe or fork that failed: then those opened
\* before it stay open for good.
NothingLeftOpen ==
  \A t \in Thread : pc[t] = "done" =>
    /\ helper[t] \in {"unborn", "reaped"}
    /\ t \notin failed => \A p \in {<<t, "to">>, <<t, "from">>}, e \in {"r", "w"} : <<p, e>> \notin open

\* Helpers that each wait for an end of input another one of them holds.
Crossed ==
  \E S \in (SUBSET Thread) \ {{}} :
    \A t \in S : \E u \in S \ {t} : To(t, "w") \in fds[u]

\* A call returns, whatever its helper does with its input and output, unless
\* helpers were forked crosswise, each between pipe and close of the other.
ReturnsUnlessCrossed ==
  (\A t \in Thread : pc[t] = "to" ~> pc[t] = "done") \/ <>Crossed
=============================================================================
