------------------------------ MODULE FtsWalk ------------------------------
(***************************************************************************)
(* The walk of a directory tree by daemon/fts.c with the options           *)
(* recurseDir gives it: one root, a physical walk (FTS_PHYSICAL), without  *)
(* changing directories (FTS_NOCHDIR), in the order readdir lists.         *)
(*                                                                         *)
(* All nodes share one buffer for their path, fts_path.  It is large       *)
(* enough for every path that can be opened, so it never moves.            *)
(*                                                                         *)
(* A path is a number; the buffer holds the paths of a node's ancestors    *)
(* and its own.                                                            *)
(***************************************************************************)
EXTENDS Integers, Sequences, SequencesExt

CONSTANT Path

\* There are finitely many, hence a last one.
ASSUME PathAssumption == Path \subseteq Nat \ {0} /\ \E m \in Path : \A p \in Path : p <= m

\* struct stat, what readdir lists if it is a directory that opens, and what
\* libmagic makes of the file.
VARIABLE disk

Kind == {"none", "dir", "link", "file", "dev"}
Disks == [Path -> [kind : Kind, ino : Nat, nlink : Nat, size : Nat, children : Seq(Path), opens : BOOLEAN,
                   exec : BOOLEAN, suffix : STRING, magic : STRING]]

NULL == [path |-> 0, info |-> "INIT"]

\* fts_info of path p below the directories in "above".
fts_stat(p, above) ==
  CASE disk[p].kind = "none" -> "NS"
    [] disk[p].kind = "dir"  -> IF \E a \in above : disk[a].ino = disk[p].ino THEN "DC" ELSE "D"
    [] disk[p].kind = "link" -> "SL"
    [] disk[p].kind = "file" -> "F"
    [] OTHER                 -> "DEFAULT"

Node(p, above) == [path |-> p, info |-> fts_stat(p, above)]

\* levels: for each directory on the way the entries not yet left, the one
\* the walk is in first.  In front of the root there is a dummy.
Fts_open(p) ==
  [levels |-> <<<<NULL, Node(p, {})>>>>, fts_path |-> <<>>, stop |-> FALSE, cut |-> FALSE]

cur(w) == Head(Last(w.levels))

\* fts_cur is the first entry of the deepest level; info is changed in place.
Return(w, info) ==
  [w EXCEPT !.levels[Len(w.levels)] = <<[cur(w) EXCEPT !.info = info]>> \o Tail(@)]

Upto(s, n) == SubSeq(s, 1, n)

\* readdir may fail, which looks like the end; so may the allocation of an
\* entry, which stops the walk.
fts_build(w, mayFail) ==
  LET p == cur(w).path
      listed == disk[p].children
      child(n) == [w EXCEPT !.cut = n < Len(listed),
                            !.levels = Append(@, [i \in 1..n |-> Node(listed[i], ToSet(w.fts_path))]),
                            !.fts_path = Append(Upto(@, Len(w.levels)), listed[1])] IN
  IF ~disk[p].opens THEN {Return(w, "DNR")}
  ELSE {IF n = 0 THEN [Return(w, "DP") EXCEPT !.cut = Len(listed) > 0] ELSE child(n) :
          n \in IF mayFail THEN 0..Len(listed) ELSE {Len(listed)}}
       \cup {[Return(w, "ERR") EXCEPT !.stop = TRUE, !.cut = TRUE] : n \in IF mayFail THEN 1..Len(listed) ELSE {}}

\* The next entry of the directory, or the directory again.
MutantLeave(w) ==   \* the name of the entry left stays in the buffer
  LET depth == Len(w.levels) IN
  IF Len(Last(w.levels)) > 1
  THEN LET p == Last(w.levels)[2].path IN
       [w EXCEPT !.levels[depth] = Tail(@), !.fts_path = Append(@, p)]
  ELSE IF depth = 1 THEN [w EXCEPT !.levels = <<>>]
  ELSE Return([w EXCEPT !.levels = Front(@), !.fts_path = Upto(@, depth - 1)], "DP")

Leave(w) ==
  LET depth == Len(w.levels) IN
  IF Len(Last(w.levels)) > 1
  THEN LET p == Last(w.levels)[2].path IN
       [w EXCEPT !.levels[depth] = Tail(@), !.fts_path = Append(Upto(@, depth - 1), p)]
  ELSE IF depth = 1 THEN [w EXCEPT !.levels = <<>>]
  ELSE Return([w EXCEPT !.levels = Front(@), !.fts_path = Upto(@, depth - 1)], "DP")

\* The walk goes on from w; at its end, and when it has stopped, NULL is returned.
Ended(w) == w.levels = <<>> \/ w.stop

Fts_read(w, mayFail) ==
  IF Ended(w) THEN {w} ELSE IF cur(w).info = "D" THEN fts_build(w, mayFail) ELSE {Leave(w)}
=============================================================================
