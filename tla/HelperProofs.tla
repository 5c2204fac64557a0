---------------------------- MODULE HelperProofs ----------------------------
(***************************************************************************)
(* What getOutputFrom guarantees for any number of threads, whatever their *)
(* helpers do and whichever calls fail: its buffers hold their text, a     *)
(* text it returns is complete, and nothing is left open.                  *)
(***************************************************************************)
EXTENDS Helper, TLAPS

-----------------------------------------------------------------------------
(* The string buffers.                                                     *)

\* Rounding up to whole chunks gives enough of them.
LEMMA RoundedUp ==
  ASSUME NEW B \in Nat \ {0}, NEW d \in Nat \ {0}
  PROVE  /\ (d + B - 1) \div B \in Nat
         /\ B * ((d + B - 1) \div B) \in Nat
         /\ B * ((d + B - 1) \div B) >= d
<1> DEFINE q == (d + B - 1) \div B  r == (d + B - 1) % B
<1>1. q \in Int /\ r \in 0..(B - 1) /\ d + B - 1 = B * q + r
  BY SMTT(20)
<1>2. QED BY <1>1, SMTT(20)

\* appendStringBufAux keeps a buffer sound and makes its text longer by what
\* is appended.
LEMMA AppendSound ==
  ASSUME NEW sb \in StringBuf, Sound(sb), NEW l \in Nat, NEW nl \in 0..1
  PROVE  /\ appendStringBufAux(sb, l, nl) \in StringBuf
         /\ Sound(appendStringBufAux(sb, l, nl))
         /\ strlen(appendStringBufAux(sb, l, nl)) = strlen(sb) + l + nl
<1> DEFINE grown == BUF_CHUNK * Chunks(sb, l, nl)
<1>1. sb.allocated \in Nat /\ sb.free \in Int /\ sb.free >= 1 /\ sb.free <= sb.allocated
  BY DEF StringBuf, Sound
<1>2. grown \in Nat /\ sb.free + grown >= l + nl + 1
  <2>1. CASE l + nl + 1 > sb.free
    <3> DEFINE d == l + nl + 1 - sb.free
    <3>1. d \in Nat \ {0} /\ l + nl + 1 - sb.free + BUF_CHUNK - 1 = d + BUF_CHUNK - 1
      BY <1>1, <2>1, StringBufAssumption
    <3>2. Chunks(sb, l, nl) = (d + BUF_CHUNK - 1) \div BUF_CHUNK
      BY <2>1, <3>1 DEF Chunks
    <3>3. grown \in Nat /\ grown >= d
      BY <3>1, <3>2, RoundedUp, StringBufAssumption
    <3> QED BY <1>1, <3>1, <3>3
  <2>2. CASE ~(l + nl + 1 > sb.free)
    <3>1. Chunks(sb, l, nl) = 0
      BY <2>2 DEF Chunks
    <3> QED BY <1>1, <2>2, <3>1, StringBufAssumption
  <2> QED BY <2>1, <2>2
<1> HIDE DEF grown
<1>3. appendStringBufAux(sb, l, nl) = [allocated |-> sb.allocated + grown, free |-> sb.free + grown - l - nl]
  BY DEF appendStringBufAux, grown
<1> QED BY <1>1, <1>2, <1>3 DEF StringBuf, Sound, strlen

\* The buffer a call starts with, and the name the helper is given.
LEMMA EmptySound ==
  /\ newStringBuf \in StringBuf /\ Sound(newStringBuf) /\ strlen(newStringBuf) = 0
  /\ strlen(Name) = NameLength + 1
<1>1. newStringBuf \in StringBuf /\ Sound(newStringBuf) /\ strlen(newStringBuf) = 0
  BY StringBufAssumption DEF newStringBuf, StringBuf, Sound, strlen
<1> QED BY <1>1, AppendSound, HelperAssumption DEF Name, appendLineStringBuf

-----------------------------------------------------------------------------
(* The invariant of one call and its helper.                               *)

Ends(v) == {To(v, "r"), To(v, "w"), From(v, "r"), From(v, "w")}

Closed(v) == \A e \in Ends(v) : e \notin open

\* Which ends the call has open where it is.
Stage(v) ==
  /\ pc[v] \in {"idle", "to"} => Closed(v)
  /\ pc[v] = "fork" => From(v, "w") \in open
  /\ pc[v] \in {"closeFromW", "loop", "io", "cleanup"} => To(v, "r") \notin open
  /\ pc[v] \in {"loop", "io", "cleanup"} => From(v, "w") \notin open
  /\ pc[v] = "wait" \/ (pc[v] = "done" /\ v \notin failed) => Closed(v)

\* What its helper may be doing, and with what.
Attended(v) ==
  /\ pc[v] \in {"idle", "to", "from", "fork"} => helper[v] = "unborn"
  /\ pc[v] = "done" => helper[v] \in {"unborn", "reaped"}
  /\ helper[v] \in {"born", "reading", "writing", "leaving"} => From(v, "w") \in fds[v]
  /\ helper[v] \in {"unborn", "born"} => printed[v] = 0
  /\ helper[v] = "writing" => printed[v] < MaxOutput

\* What select found stays so until the transfer.
Promised(v) ==
  /\ pc[v] # "io" => ready[v] = {}
  /\ "to" \in ready[v] => left[v] > 0 /\ (pipe[<<v, "to">>] < PipeSize \/ ~Holds(To(v, "r")))
  /\ "from" \in ready[v] => pipe[<<v, "from">>] > 0 \/ ~Holds(From(v, "w"))

\* What the helper has printed is in the buffer or in the pipe; when the loop
\* has ended well, nothing is in the pipe and nobody can write to it.
Collected(v) ==
  /\ Sound(readBuff[v])
  /\ strlen(readBuff[v]) + pipe[<<v, "from">>] = printed[v]
  /\ (pc[v] \in {"cleanup", "wait"} /\ ~error[v]) \/ result[v] = "text" =>
       pipe[<<v, "from">>] = 0 /\ ~Holds(From(v, "w"))
  /\ result[v] # "none" => pc[v] = "done"

CallInv(v) == Stage(v) /\ Attended(v) /\ Promised(v) /\ Collected(v)

HelperInv == TypeOK /\ \A v \in Thread : CallInv(v)

\* The ends are ends, and no two of them are the same.
LEMMA EndsDiffer ==
  ASSUME NEW v \in Thread
  PROVE  /\ Ends(v) \subseteq End
         /\ <<v, "to">> \in Pipe /\ <<v, "from">> \in Pipe
         /\ To(v, "r") # To(v, "w") /\ To(v, "r") # From(v, "r") /\ To(v, "r") # From(v, "w")
         /\ To(v, "w") # From(v, "r") /\ To(v, "w") # From(v, "w") /\ From(v, "r") # From(v, "w")
         /\ <<v, "to">> # <<v, "from">>
         /\ \A u \in Thread \ {v} : Ends(u) \cap Ends(v) = {}
         /\ \A u \in Thread \ {v} : <<u, "to">> # <<v, "to">> /\ <<u, "to">> # <<v, "from">>
                                      /\ <<u, "from">> # <<v, "to">> /\ <<u, "from">> # <<v, "from">>
BY DEF Ends, End, Pipe, To, From

\* A step that leaves all of this call alone, but may close ends others hold.
Same(v) ==
  /\ pc'[v] = pc[v] /\ left'[v] = left[v] /\ ready'[v] = ready[v] /\ error'[v] = error[v]
  /\ readBuff'[v] = readBuff[v] /\ result'[v] = result[v] /\ helper'[v] = helper[v]
  /\ fds'[v] = fds[v] /\ printed'[v] = printed[v] /\ (v \in failed' <=> v \in failed)
  /\ pipe'[<<v, "to">>] = pipe[<<v, "to">>] /\ pipe'[<<v, "from">>] = pipe[<<v, "from">>]
  /\ \A e \in Ends(v) : e \in open' <=> e \in open
  /\ \A e \in Ends(v) : Holds(e)' => Holds(e)

\* Such a step keeps what is true of the call.
LEMMA SameKeeps ==
  ASSUME NEW v \in Thread, Same(v), CallInv(v)
  PROVE  CallInv(v)'
<1>1. /\ To(v, "r") \in Ends(v) /\ To(v, "w") \in Ends(v)
      /\ From(v, "r") \in Ends(v) /\ From(v, "w") \in Ends(v)
  BY DEF Ends
<1>2. Stage(v)'
  BY <1>1 DEF Same, CallInv, Stage, Closed
<1>3. Attended(v)'
  BY <1>1 DEF Same, CallInv, Attended
<1>4. Promised(v)'
  BY <1>1 DEF Same, CallInv, Promised
<1>5. Collected(v)'
  BY <1>1 DEF Same, CallInv, Collected
<1> QED BY <1>2, <1>3, <1>4, <1>5 DEF CallInv

-----------------------------------------------------------------------------
(* A step of another thread or helper.                                     *)

\* A step of one call leaves the others alone.
LEMMA OthersParent ==
  ASSUME TypeOK, NEW u \in Thread, NEW v \in Thread \ {u}, Parent(u)
  PROVE  Same(v)
<1> DEFINE ends(S) == \A e \in Ends(v) : e \notin S
<1>1. /\ ends({To(u, "r"), To(u, "w")}) /\ ends({From(u, "r"), From(u, "w")})
      /\ ends({To(u, "r")}) /\ ends({From(u, "w")}) /\ ends({To(u, "w"), From(u, "r")}) /\ ends({To(u, "w")})
      /\ <<u, "to">> # <<v, "to">> /\ <<u, "to">> # <<v, "from">>
      /\ <<u, "from">> # <<v, "to">> /\ <<u, "from">> # <<v, "from">>
  BY EndsDiffer DEF Ends
<1> USE DEF exchange, child, Go
<1>2. CASE NoHelper(u)
  BY <1>2 DEF NoHelper, Return, Same, TypeOK, Holds
<1>3. CASE runCmd(u)
  BY <1>3 DEF runCmd, Same, TypeOK, Holds
<1>4. ASSUME NEW here \in PC, NEW there \in PC, NEW ends_, ends(ends_), OpenPipe(u, here, ends_, there)
      PROVE  Same(v)
  BY <1>4 DEF OpenPipe, Fails, Return, Same, TypeOK, Holds
<1>5. CASE Fork(u)
  BY <1>5 DEF Fork, Fails, Return, Same, TypeOK, Holds
<1>6. ASSUME NEW here \in PC, NEW there \in PC, NEW ends_, ends(ends_), Close(u, here, ends_, there)
      PROVE  Same(v)
  BY <1>6 DEF Close, Same, TypeOK, Holds
<1>7. CASE CloseInput(u)
  BY <1>1, <1>7 DEF CloseInput, Same, TypeOK, Holds
<1>8. CASE Select(u)
  BY <1>8 DEF Select, Same, TypeOK, Holds
<1>9. CASE Transfer(u)
  <2>1. /\ pipe'[<<v, "to">>] = pipe[<<v, "to">>] /\ pipe'[<<v, "from">>] = pipe[<<v, "from">>]
        /\ readBuff'[v] = readBuff[v]
    BY <1>1, <1>9, EndsDiffer DEF Transfer, TypeOK
  <2> QED BY <2>1, <1>9 DEF Transfer, Same, TypeOK, Holds
<1>10. CASE Wait(u)
  BY <1>10 DEF Wait, Return, Same, TypeOK, Holds
<1> HIDE DEF ends
<1> QED
  BY <1>1, <1>2, <1>3, <1>4, <1>5, <1>6, <1>7, <1>8, <1>9, <1>10 DEF Parent, PC

\* So does a step of its helper, which has pipes of its own.
LEMMA OthersHelper ==
  ASSUME TypeOK, NEW u \in Thread, NEW v \in Thread \ {u}, HelperStep(u)
  PROVE  Same(v)
<1>1. /\ <<u, "to">> # <<v, "to">> /\ <<u, "to">> # <<v, "from">>
      /\ <<u, "from">> # <<v, "to">> /\ <<u, "from">> # <<v, "from">>
  BY EndsDiffer
<1> USE <1>1 DEF caller, Turns, Same, TypeOK, Holds
<1>2. CASE Start(u)
  BY <1>2 DEF Start
<1>3. CASE Read(u)
  BY <1>3 DEF Read
<1>4. CASE MeetEof(u)
  BY <1>4 DEF MeetEof
<1>5. CASE PrintOut(u)
  BY <1>5 DEF PrintOut
<1>6. CASE Exit(u)
  BY <1>6 DEF Exit
<1> QED BY <1>2, <1>3, <1>4, <1>5, <1>6 DEF HelperStep

-----------------------------------------------------------------------------
(* The steps of a call.                                                    *)

CallKept(t) == TypeOK' /\ CallInv(t)'

\* A call that finds nothing to run returns with no pipe and no process.
LEMMA NoHelperKeeps ==
  ASSUME HelperInv, NEW t \in Thread, NoHelper(t) PROVE CallKept(t)
<1> USE DEF exchange, child, HelperInv, CallInv
<1>1. TypeOK'
  BY DEF NoHelper, Return, TypeOK, PC
<1>2. Stage(t)' /\ Attended(t)' /\ Promised(t)' /\ Collected(t)'
  BY DEF NoHelper, Return, TypeOK, Stage, Closed, Attended, Promised, Collected, Holds
<1> QED BY <1>1, <1>2 DEF CallKept

\* A call that finds its command goes on with an empty buffer and nothing open.
LEMMA runCmdKeeps ==
  ASSUME HelperInv, NEW t \in Thread, runCmd(t) PROVE CallKept(t)
<1> USE DEF exchange, child, HelperInv, CallInv
<1>1. TypeOK'
  BY DEF runCmd, Go, TypeOK, PC
<1>2. Stage(t)' /\ Attended(t)' /\ Promised(t)' /\ Collected(t)'
  BY DEF runCmd, Go, TypeOK, Stage, Closed, Attended, Promised, Collected, Holds
<1> QED BY <1>1, <1>2 DEF CallKept

\* Nothing is ready while pipes are opened, and no text has been returned.
LEMMA OpenPipeKeeps ==
  ASSUME HelperInv, NEW t \in Thread,
         \/ OpenPipe(t, "to", {To(t, "r"), To(t, "w")}, "from")
         \/ OpenPipe(t, "from", {From(t, "r"), From(t, "w")}, "fork")
  PROVE  CallKept(t)
<1> USE DEF exchange, child, HelperInv, CallInv
<1>1. {To(t, "r"), To(t, "w")} \subseteq End /\ {From(t, "r"), From(t, "w")} \subseteq End
  BY EndsDiffer DEF Ends
<1>2. TypeOK'
  BY <1>1 DEF OpenPipe, Go, Fails, Return, TypeOK, PC
<1>3. Stage(t)' /\ Attended(t)' /\ Promised(t)' /\ Collected(t)'
  BY DEF OpenPipe, Go, Fails, Return, TypeOK, Stage, Closed, Attended, Promised, Collected
<1> QED BY <1>2, <1>3 DEF CallKept

\* The child starts with a copy of what is open, both its pipes included.
LEMMA ForkKeeps ==
  ASSUME HelperInv, NEW t \in Thread, Fork(t) PROVE CallKept(t)
<1> USE DEF exchange, child, HelperInv, CallInv
<1>1. TypeOK'
  BY DEF Fork, Go, Fails, Return, TypeOK, PC
<1>2. Stage(t)' /\ Attended(t)' /\ Promised(t)' /\ Collected(t)'
  BY DEF Fork, Go, Fails, Return, TypeOK, Stage, Closed, Attended, Promised, Collected
<1> QED BY <1>1, <1>2 DEF CallKept

\* The three places where the caller closes ends.
LEMMA CloseKeeps ==
  ASSUME HelperInv, NEW t \in Thread,
         \/ Close(t, "closeToR", {To(t, "r")}, "closeFromW")
         \/ Close(t, "closeFromW", {From(t, "w")}, "loop")
         \/ Close(t, "cleanup", {To(t, "w"), From(t, "r")}, "wait")
  PROVE  CallKept(t)
<1> USE DEF exchange, child, HelperInv, CallInv
<1>1. TypeOK'
  BY DEF Close, Go, TypeOK, PC
<1>2. Stage(t)'
  BY DEF Close, Go, TypeOK, Stage, Closed, Ends
<1>3. Attended(t)' /\ Promised(t)' /\ Collected(t)'
  BY DEF Close, Go, TypeOK, Attended, Promised, Collected, Holds
<1> QED BY <1>1, <1>2, <1>3 DEF CallKept

\* The helper's input is closed once all of it is written.
LEMMA CloseInputKeeps ==
  ASSUME HelperInv, NEW t \in Thread, CloseInput(t) PROVE CallKept(t)
<1> USE DEF exchange, child, HelperInv, CallInv
<1>1. TypeOK'
  BY DEF CloseInput, TypeOK
<1>2. Stage(t)'
  BY DEF CloseInput, TypeOK, Stage, Closed
<1>3. Attended(t)' /\ Promised(t)' /\ Collected(t)'
  BY DEF CloseInput, TypeOK, Attended, Promised, Collected, Holds
<1> QED BY <1>1, <1>2, <1>3 DEF CallKept

\* An end select reports can be used when the transfer comes.
LEMMA SelectKeeps ==
  ASSUME HelperInv, NEW t \in Thread, Select(t) PROVE CallKept(t)
<1> USE DEF exchange, child, HelperInv, CallInv
<1>1. TypeOK'
  BY DEF Select, Go, TypeOK, PC
<1>2. Stage(t)' /\ Attended(t)'
  BY DEF Select, Go, TypeOK, Stage, Closed, Attended
<1>3. Promised(t)'
  BY DEF Select, Go, TypeOK, Promised, Writable, Readable, Holds
<1>4. Collected(t)'
  BY DEF Select, Go, TypeOK, Collected, Holds
<1> QED BY <1>1, <1>2, <1>3, <1>4 DEF CallKept

\* The helper is reaped, and a text that is returned is what it printed.
LEMMA WaitKeeps ==
  ASSUME HelperInv, NEW t \in Thread, Wait(t) PROVE CallKept(t)
<1> USE DEF exchange, child, HelperInv, CallInv
<1>1. TypeOK'
  BY DEF Wait, Return, TypeOK, PC
<1>2. Stage(t)' /\ Attended(t)' /\ Promised(t)'
  BY DEF Wait, Return, TypeOK, Stage, Closed, Attended, Promised, Holds
<1>3. Collected(t)'
  BY DEF Wait, Return, TypeOK, Collected, Holds
<1> QED BY <1>1, <1>2, <1>3 DEF CallKept

\* A transfer moves what the pipes hold and can hold, and ends the loop only
\* when the helper's end is closed and its pipe empty, or with an error.
LEMMA TransferKeeps ==
  ASSUME HelperInv, NEW t \in Thread, Transfer(t) PROVE CallKept(t)
<1> DEFINE to == <<t, "to">>  from == <<t, "from">>
           broken == "to" \in ready[t] /\ ~Holds(To(t, "r"))
           sent == IF "to" \in ready[t] /\ ~broken THEN 1 ELSE 0
           there == IF "from" \in ready[t] /\ ~broken THEN pipe[from] ELSE 0
           ends == broken \/ ("from" \in ready[t] /\ there = 0)
<1>1. PICK n \in IF there = 0 THEN {0} ELSE 1..there :
        /\ pipe' = [pipe EXCEPT ![to] = @ + sent, ![from] = @ - n]
        /\ readBuff' = [readBuff EXCEPT ![t] = IF n = 0 THEN @ ELSE appendStringBuf(@, n)]
  BY DEF Transfer
<1>2. /\ Go(t, "io", IF ends THEN "cleanup" ELSE "loop")
      /\ left' = [left EXCEPT ![t] = @ - sent]
      /\ error' = [error EXCEPT ![t] = @ \/ broken]
      /\ ready' = [ready EXCEPT ![t] = {}]
      /\ UNCHANGED <<result, open, helper, fds, eof, printed, failed>>
  BY DEF Transfer, child
<1>3. to \in Pipe /\ from \in Pipe /\ to # from
  BY EndsDiffer
<1>4. pipe[to] \in 0..PipeSize /\ pipe[from] \in 0..PipeSize
  BY <1>3 DEF HelperInv, TypeOK
<1>5. there \in Nat /\ there <= pipe[from]
  BY <1>4, HelperAssumption
<1>6. n \in Nat /\ n <= pipe[from]
  BY <1>4, <1>5
<1>7. sent \in 0..1 /\ (sent = 1 => left[t] > 0 /\ pipe[to] < PipeSize)
  BY DEF HelperInv, CallInv, Promised
<1>8. pipe'[to] = pipe[to] + sent /\ pipe'[from] = pipe[from] - n
  BY <1>1, <1>3 DEF HelperInv, TypeOK
<1>9. pipe' \in [Pipe -> 0..PipeSize]
  <2>1. pipe[to] + sent \in 0..PipeSize /\ pipe[from] - n \in 0..PipeSize
    BY <1>4, <1>6, <1>7, HelperAssumption
  <2> QED BY <2>1, <1>1, <1>3 DEF HelperInv, TypeOK
<1>10. /\ readBuff' \in [Thread -> StringBuf] /\ Sound(readBuff'[t])
       /\ strlen(readBuff'[t]) = strlen(readBuff[t]) + n
  <2>1. readBuff[t] \in StringBuf /\ Sound(readBuff[t])
    BY DEF HelperInv, TypeOK, CallInv, Collected
  <2>2. CASE n = 0
    <3>1. readBuff' = readBuff
      BY <1>1, <2>2 DEF HelperInv, TypeOK
    <3> QED BY <2>1, <2>2, <3>1 DEF HelperInv, TypeOK, strlen, StringBuf
  <2>3. CASE n # 0
    <3>1. readBuff' = [readBuff EXCEPT ![t] = appendStringBuf(readBuff[t], n)]
      BY <1>1, <2>3
    <3>2. /\ appendStringBuf(readBuff[t], n) \in StringBuf /\ Sound(appendStringBuf(readBuff[t], n))
          /\ strlen(appendStringBuf(readBuff[t], n)) = strlen(readBuff[t]) + n + 0
      BY <1>6, <2>1, AppendSound DEF appendStringBuf
    <3>3. strlen(readBuff[t]) \in Int
      BY <2>1 DEF strlen, StringBuf
    <3> QED BY <3>1, <3>2, <3>3, <1>6 DEF HelperInv, TypeOK
  <2> QED BY <2>2, <2>3
<1>11. left' \in [Thread -> 0..(NameLength + 1)]
  <2>1. left[t] \in 0..(NameLength + 1) /\ left[t] - sent \in 0..(NameLength + 1)
    BY <1>7, HelperAssumption DEF HelperInv, TypeOK
  <2> QED BY <1>2, <2>1 DEF HelperInv, TypeOK
<1>12. ends /\ ~broken => pipe[from] = 0 /\ ~Holds(From(t, "w"))
  <2> SUFFICES ASSUME ends, ~broken PROVE pipe[from] = 0 /\ ~Holds(From(t, "w"))
    OBVIOUS
  <2>1. "from" \in ready[t] /\ there = pipe[from] /\ there = 0
    OBVIOUS
  <2>2. pipe[from] > 0 \/ ~Holds(From(t, "w"))
    BY <2>1 DEF HelperInv, CallInv, Promised
  <2> QED BY <2>1, <2>2
<1>13. broken => error'[t]
  BY <1>2 DEF HelperInv, TypeOK
<1>14. n # 0 => there # 0
  BY <1>1
<1> HIDE DEF to, from, broken, sent, there, ends
<1>15. TypeOK'
  BY <1>2, <1>9, <1>10, <1>11 DEF Go, HelperInv, TypeOK, PC
<1>16. pc[t] = "io" /\ pc'[t] \in {"cleanup", "loop"} /\ (pc'[t] = "cleanup" => ends)
  BY <1>2 DEF Go, HelperInv, TypeOK
<1>17. Stage(t)' /\ Attended(t)'
  BY <1>2, <1>16 DEF HelperInv, CallInv, Stage, Closed, Attended
<1>18. Promised(t)'
  BY <1>2 DEF HelperInv, TypeOK, Promised
<1>19. Holds(From(t, "w"))' <=> Holds(From(t, "w"))
  BY <1>2 DEF Holds
<1>20. pc'[t] = "cleanup" /\ ~error'[t] => pipe'[from] = 0 /\ ~Holds(From(t, "w"))
  BY <1>4, <1>6, <1>8, <1>12, <1>13, <1>16
<1>21. strlen(readBuff'[t]) + pipe'[from] = printed'[t]
  <2>1. strlen(readBuff[t]) + pipe[from] = printed[t]
    BY DEF HelperInv, CallInv, Collected, from
  <2>2. strlen(readBuff[t]) \in Int
    BY DEF HelperInv, TypeOK, strlen, StringBuf
  <2> QED BY <2>1, <2>2, <1>2, <1>4, <1>6, <1>8, <1>10
<1>22. result'[t] = "none"
  BY <1>2, <1>16 DEF HelperInv, CallInv, Collected
<1>23. Collected(t)'
  BY <1>10, <1>16, <1>19, <1>20, <1>21, <1>22 DEF Collected, from
<1> QED BY <1>15, <1>17, <1>18, <1>23 DEF CallKept, CallInv

-----------------------------------------------------------------------------
(* The steps of its helper.                                                *)

\* A helper fills and empties its pipes within their size, and gives up its
\* end of the output with its last step.
LEMMA HelperStepKeeps ==
  ASSUME HelperInv, NEW t \in Thread, HelperStep(t) PROVE CallKept(t)
<1> USE DEF caller, HelperInv, CallInv
<1>1. /\ <<t, "to">> \in Pipe /\ <<t, "from">> \in Pipe /\ <<t, "to">> # <<t, "from">>
      /\ From(t, "w") # To(t, "w") /\ From(t, "w") # From(t, "r")
  BY EndsDiffer
<1>2. strlen(readBuff[t]) \in Int
  BY DEF TypeOK, strlen, StringBuf
<1>3. CASE Start(t)
  <2>1. TypeOK'
    BY <1>3 DEF Start, Turns, TypeOK
  <2>2. Stage(t)' /\ Attended(t)'
    BY <1>1, <1>3, HelperAssumption DEF Start, Turns, TypeOK, Stage, Closed, Attended
  <2>3. Promised(t)' /\ Collected(t)'
    BY <1>3 DEF Start, Turns, TypeOK, Promised, Collected, Holds
  <2> QED BY <2>1, <2>2, <2>3 DEF CallKept
<1>4. CASE Read(t)
  <2>1. TypeOK'
    BY <1>1, <1>4, HelperAssumption DEF Read, Turns, TypeOK
  <2>2. Stage(t)' /\ Attended(t)'
    BY <1>4 DEF Read, Turns, TypeOK, Stage, Closed, Attended
  <2>3. Promised(t)' /\ Collected(t)'
    BY <1>1, <1>4, HelperAssumption DEF Read, Turns, TypeOK, Promised, Collected, Holds
  <2> QED BY <2>1, <2>2, <2>3 DEF CallKept
<1>5. CASE MeetEof(t)
  <2>1. TypeOK'
    BY <1>5 DEF MeetEof, Turns, TypeOK
  <2>2. Stage(t)' /\ Attended(t)'
    BY <1>5 DEF MeetEof, Turns, TypeOK, Stage, Closed, Attended
  <2>3. Promised(t)' /\ Collected(t)'
    BY <1>5 DEF MeetEof, Turns, TypeOK, Promised, Collected, Holds
  <2> QED BY <2>1, <2>2, <2>3 DEF CallKept
<1>6. CASE PrintOut(t)
  <2>0. From(t, "w") \in fds[t] /\ printed[t] \in Nat /\ printed[t] < MaxOutput
    BY <1>6 DEF PrintOut, TypeOK, Attended
  <2>1. TypeOK'
    BY <1>1, <1>6, <2>0, HelperAssumption DEF PrintOut, Turns, TypeOK
  <2>2. Stage(t)' /\ Attended(t)'
    BY <1>6, <2>0 DEF PrintOut, Turns, TypeOK, Stage, Closed, Attended
  <2>3. Holds(From(t, "w"))
    BY <2>0 DEF Holds
  <2>4. Promised(t)'
    BY <1>1, <1>6, <2>3, HelperAssumption DEF PrintOut, Turns, TypeOK, Promised, Holds
  <2>5. Collected(t)'
    BY <1>1, <1>2, <1>6, <2>0, <2>3, HelperAssumption DEF PrintOut, Turns, TypeOK, Collected, Holds
  <2> QED BY <2>1, <2>2, <2>4, <2>5 DEF CallKept
<1>7. CASE Exit(t)
  <2>1. TypeOK'
    BY <1>7 DEF Exit, TypeOK
  <2>2. Stage(t)' /\ Attended(t)'
    BY <1>7 DEF Exit, TypeOK, Stage, Closed, Attended
  <2>3. Promised(t)' /\ Collected(t)'
    BY <1>7 DEF Exit, TypeOK, Promised, Collected, Holds
  <2> QED BY <2>1, <2>2, <2>3 DEF CallKept
<1> QED BY <1>3, <1>4, <1>5, <1>6, <1>7 DEF HelperStep

-----------------------------------------------------------------------------
(* The invariant holds.                                                    *)

\* Before any call nothing is open and nothing is running.
LEMMA HelperInit == Init => HelperInv
<1> SUFFICES ASSUME Init PROVE HelperInv
  OBVIOUS
<1>1. TypeOK
  BY EmptySound, HelperAssumption DEF Init, TypeOK, PC, End
<1>2. ASSUME NEW v \in Thread PROVE CallInv(v)
  <2>1. <<v, "from">> \in Pipe
    BY EndsDiffer
  <2> QED BY <2>1, EmptySound DEF Init, CallInv, Stage, Closed, Attended, Promised, Collected
<1> QED BY <1>1, <1>2 DEF HelperInv

\* Every step of a call or a helper keeps the invariant of every call.
LEMMA HelperNext == HelperInv /\ [Next]_vars => HelperInv'
<1> SUFFICES ASSUME HelperInv, [Next]_vars PROVE HelperInv'
  OBVIOUS
<1>1. CASE Next
  <2>1. PICK t \in Thread : Parent(t) \/ HelperStep(t)
    BY <1>1 DEF Next
  <2>2. CallKept(t)
    <3>1. CASE Parent(t)
      BY <3>1, NoHelperKeeps, runCmdKeeps, OpenPipeKeeps, ForkKeeps, CloseKeeps, CloseInputKeeps,
         SelectKeeps, TransferKeeps, WaitKeeps DEF Parent
    <3>2. CASE HelperStep(t)
      BY <3>2, HelperStepKeeps
    <3> QED BY <2>1, <3>1, <3>2
  <2>3. \A v \in Thread \ {t} : CallInv(v)'
    BY <2>1, OthersParent, OthersHelper, SameKeeps DEF HelperInv
  <2> QED BY <2>2, <2>3 DEF CallKept, HelperInv
<1>2. CASE UNCHANGED vars
  <2>1. TypeOK'
    BY <1>2 DEF vars, HelperInv, TypeOK
  <2>2. ASSUME NEW v \in Thread PROVE Same(v)
    BY <1>2 DEF vars, Same, Holds
  <2> QED BY <2>1, <2>2, SameKeeps DEF HelperInv
<1> QED BY <1>1, <1>2

\* The invariant holds throughout, for any number of calls.
LEMMA HelperInvariant == Spec => []HelperInv
BY HelperInit, HelperNext, PTL DEF Spec

\* Every variable of getOutputFrom keeps its type: no pipe holds more than its
\* size, and no more is written than there is to write.
THEOREM HelperTypes == Spec => []TypeOK
<1>1. HelperInv => TypeOK
  BY DEF HelperInv
<1> QED BY <1>1, HelperInvariant, PTL

\* appendStringBufAux never writes beyond the end of the buffer getOutputFrom
\* collects into, and leaves room for the NUL.
THEOREM BuffersAlwaysHold == Spec => []BuffersHold
<1>1. HelperInv => BuffersHold
  BY DEF HelperInv, CallInv, Collected, BuffersHold
<1> QED BY <1>1, HelperInvariant, PTL

\* What getOutputFrom returns is all its helper has printed, however many
\* other calls' helpers hold the pipe.
THEOREM TextIsAlwaysComplete == Spec => []TextIsComplete
<1>1. HelperInv => TextIsComplete
  <2> SUFFICES ASSUME HelperInv, NEW t \in Thread, result[t] = "text"
               PROVE  strlen(readBuff[t]) = printed[t]
    BY DEF TextIsComplete
  <2>1. strlen(readBuff[t]) \in Int
    BY DEF HelperInv, TypeOK, strlen, StringBuf
  <2>2. strlen(readBuff[t]) + pipe[<<t, "from">>] = printed[t] /\ pipe[<<t, "from">>] = 0
    BY DEF HelperInv, CallInv, Collected
  <2> QED BY <2>1, <2>2
<1> QED BY <1>1, HelperInvariant, PTL

\* A call of getOutputFrom that is over has waited for its helper and closed
\* its pipes, unless pipe or fork failed.
THEOREM NothingStaysOpen == Spec => []NothingLeftOpen
<1>1. HelperInv => NothingLeftOpen
  <2> SUFFICES ASSUME HelperInv, NEW t \in Thread, pc[t] = "done"
               PROVE  /\ helper[t] \in {"unborn", "reaped"}
                      /\ t \notin failed => \A p \in {<<t, "to">>, <<t, "from">>}, e \in {"r", "w"} :
                                              <<p, e>> \notin open
    BY DEF NothingLeftOpen
  <2>1. \A p \in {<<t, "to">>, <<t, "from">>}, e \in {"r", "w"} : <<p, e>> \in Ends(t)
    BY DEF Ends, To, From
  <2> QED BY <2>1 DEF HelperInv, CallInv, Stage, Closed, Attended
<1> QED BY <1>1, HelperInvariant, PTL
=============================================================================
