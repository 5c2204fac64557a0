------------------------------ MODULE LogFile ------------------------------
(***************************************************************************)
(* The daemon's log (daemon/utils.c): lines go to the current file of the  *)
(* day, which is renamed to the day's next number when it has grown over   *)
(* its limit.                                                              *)
(*                                                                         *)
(* In one daemon only the main thread logs, and g_log_lock keeps others    *)
(* out; another daemon is not kept out.                                    *)
(***************************************************************************)
EXTENDS Integers, FiniteSets, FiniteSetsExt

CONSTANTS
  Proc,                \* the daemon processes
  LOG_MAX_FILE_SIZE,   \* in lines
  MaxId                \* bound: no file gets a higher number

ASSUME LogAssumption == LOG_MAX_FILE_SIZE \in Nat /\ MaxId \in Nat

\* Names of files; tmp_<time>.log is taken to be a new name each time.
Current == 0
Tmp == -1
Name == {Current} \cup (1..MaxId) \cup {Tmp}
NoName == -2
NoFile == -1

VARIABLES
  size,       \* the lines in the current file, NoFile if there is none
  numbered,   \* the names there are besides the current one
  lp,         \* where a process is in do_write_log
  fp,         \* the name of the file it has open, by now
  next,       \* nextlogfile
  lost,       \* a file with lines in it has been replaced or removed
  raced       \* two processes were between get_next_log_file and the end at once

logVars == <<size, numbered, lp, fp, next, lost, raced>>

\* There may be a log of before, at its limit or not.
LogInit ==
  /\ size \in {NoFile, LOG_MAX_FILE_SIZE} /\ numbered = {}
  /\ lp = [p \in Proc |-> "idle"]
  /\ fp = [p \in Proc |-> NoName] /\ next = [p \in Proc |-> NoName]
  /\ lost = FALSE /\ raced = FALSE

At(p, from, to) == lp[p] = from /\ lp' = [lp EXCEPT ![p] = to]

write_log(p) == At(p, "idle", "open") /\ UNCHANGED <<size, numbered, fp, next, lost, raced>>

\* The directory cannot be made, or the file not opened: the line is dropped.
OpenFails(p) == At(p, "open", "idle") /\ UNCHANGED <<size, numbered, fp, next, lost, raced>>

Open(p) ==
  /\ At(p, "open", "write") /\ fp' = [fp EXCEPT ![p] = Current]
  /\ size' = IF size = NoFile THEN 0 ELSE size
  /\ UNCHANGED <<numbered, next, lost, raced>>

\* The line reaches the file, whatever its name is by now; how long a file is
\* that has been renamed since, is taken to be over the limit, as it was then.
Write(p) ==
  LET n == IF fp[p] = Current THEN size + 1 ELSE LOG_MAX_FILE_SIZE + 1 IN
  /\ At(p, "write", IF n > LOG_MAX_FILE_SIZE THEN "number" ELSE "idle")
  /\ size' = IF fp[p] = Current THEN n ELSE size
  /\ lost' = (lost \/ fp[p] = NoName)
  /\ fp' = [fp EXCEPT ![p] = NoName]
  /\ UNCHANGED <<numbered, next, raced>>

MutantNextNumber == Max({Current} \cup numbered \cup {1})   \* the highest number, not the one after it

NextNumber == Max({Current} \cup numbered) + 1

Between(p) == lp[p] \in {"rename", "remove", "again"}

\* The directory may not be readable.
get_next_log_file(p) ==
  /\ At(p, "number", "rename")
  /\ \E n \in {NextNumber, Tmp} \cap Name : next' = [next EXCEPT ![p] = n]
  /\ raced' = (raced \/ \E q \in Proc \ {p} : Between(q))
  /\ UNCHANGED <<size, numbered, fp, lost>>

\* What is open keeps the file, under its new name or without one.
Without(n) == [q \in Proc |-> IF fp[q] = n /\ n # Tmp THEN NoName ELSE fp[q]]
Moved(n) == [q \in Proc |-> IF fp[q] = Current THEN n ELSE Without(n)[q]]

\* rename replaces a file of that name, and fails without a current file.  The
\* result of the second attempt does not matter.
Rename(p) ==
  /\ lp[p] \in {"rename", "again"}
  /\ IF size = NoFile THEN /\ lp' = [lp EXCEPT ![p] = IF @ = "rename" THEN "remove" ELSE "idle"]
                      /\ UNCHANGED <<size, numbered, fp, lost>>
     ELSE /\ lp' = [lp EXCEPT ![p] = "idle"]
          /\ size' = NoFile /\ numbered' = numbered \cup ({next[p]} \ {Tmp})
          /\ lost' = (lost \/ next[p] \in numbered)
          /\ fp' = Moved(next[p])
  /\ next' = [next EXCEPT ![p] = IF lp'[p] = "idle" THEN NoName ELSE @]
  /\ UNCHANGED raced

MutantRemoveFile(p) ==   \* the second attempt is left out
  /\ At(p, "remove", "idle")
  /\ numbered' = numbered \ {next[p]} /\ lost' = (lost \/ next[p] \in numbered)
  /\ fp' = Without(next[p])
  /\ UNCHANGED <<size, next, raced>>

RemoveFile(p) ==
  /\ At(p, "remove", "again")
  /\ numbered' = numbered \ {next[p]} /\ lost' = (lost \/ next[p] \in numbered)
  /\ fp' = Without(next[p])
  /\ UNCHANGED <<size, next, raced>>

LogStep(p) == Open(p) \/ Write(p) \/ get_next_log_file(p) \/ Rename(p) \/ RemoveFile(p)

LogTypeOK ==
  /\ size \in Nat \cup {NoFile} /\ numbered \subseteq 1..MaxId
  /\ lp \in [Proc -> {"idle", "open", "write", "number", "rename", "remove", "again"}]
  /\ fp \in [Proc -> Name \cup {NoName}] /\ next \in [Proc -> Name \cup {NoName}]
  /\ \A p \in Proc : next[p] # NoName <=> Between(p)

\* A line written stays in some file of the directory, unless two daemons
\* rotated the log at the same time: then both may have chosen one number, and
\* the later one replaces the file of the earlier or removes it.
LinesAreKept == lost => raced
=============================================================================
