------------------------------ MODULE DebScan ------------------------------
(***************************************************************************)
(* The first half of extracthalf (daemon/debresolve.c): the search for the *)
(* member to extract among those of an ar archive.  A conversion runs it   *)
(* at least twice on an archive: deb_extract asks for the data member      *)
(* (admininfo = 0), deb_control for the control member (admininfo = 1).    *)
(*                                                                         *)
(* A member is what its name says: "magic" is debian-binary, a "note" has  *)
(* a name that begins with '_', "foreign" is anything else, an illegal     *)
(* header included.  It is good when its contents or its extension are:    *)
(* version 2 with a newline, a compression that is known.                  *)
(***************************************************************************)
EXTENDS Integers, Sequences

CONSTANT MaxMembers    \* bound: members of an archive

ASSUME MembersAssumption == MaxMembers \in Nat

VARIABLES
  archive,    \* its members
  scan        \* the two searches, by admininfo

vars == <<archive, scan>>

Member == [kind : {"magic", "control", "data"}, len : {1}, good : BOOLEAN]
            \cup [kind : {"control"}, len : {0}, good : BOOLEAN]
            \cup [kind : {"note", "foreign"}, len : {1}, good : {TRUE}]

Scan == [pos : Nat, header_done : BOOLEAN, adminmember : -1..1, ctrllennum : 0..1,
         outcome : {"scanning", "found", "failed"}]

Init ==
  /\ archive \in UNION {[1..n -> Member] : n \in 0..MaxMembers}
  /\ scan = [admininfo \in 0..1 |->
       [pos |-> 1, header_done |-> FALSE, adminmember |-> -1, ctrllennum |-> 0,
        outcome |-> "scanning"]]

\* The member a search is at, while it goes on.
At(a, m) ==
  /\ scan[a].outcome = "scanning"
  /\ scan[a].pos <= Len(archive)
  /\ m = archive[scan[a].pos]

Becomes(a, s) ==
  /\ scan' = [scan EXCEPT ![a] = s]
  /\ UNCHANGED archive

Fails(a) == Becomes(a, [scan[a] EXCEPT !.outcome = "failed"])

\* fd_skip, and round the loop.
Skip(a, s) == Becomes(a, [s EXCEPT !.pos = @ + 1])

\* The header of a next member cannot be read.
EndOfFile(a) ==
  /\ scan[a].outcome = "scanning" /\ scan[a].pos > Len(archive)
  /\ Fails(a)

Header(a, m) ==
  /\ At(a, m) /\ ~scan[a].header_done
  /\ IF m.kind = "magic" /\ m.good
     THEN Skip(a, [scan[a] EXCEPT !.header_done = TRUE])
     ELSE Fails(a)

Note(a, m) ==
  /\ At(a, m) /\ scan[a].header_done /\ m.kind = "note"
  /\ Skip(a, scan[a])

MutantControlMember(a, m) ==   \* the lengths are added up, a second one is not refused
  LET s == [scan[a] EXCEPT !.adminmember = 1, !.ctrllennum = @ + m.len] IN
  /\ At(a, m) /\ scan[a].header_done /\ m.kind = "control"
  /\ \/ ~m.good /\ Fails(a)
     \/ /\ m.good
        /\ IF a = 1 THEN Becomes(a, [s EXCEPT !.outcome = "found"]) ELSE Skip(a, s)

\* A control member: ctrllennum tells whether there was one before, and the
\* search for the data goes on behind it.
ControlMember(a, m) ==
  LET s == [scan[a] EXCEPT !.adminmember = 1, !.ctrllennum = m.len] IN
  /\ At(a, m) /\ scan[a].header_done /\ m.kind = "control"
  /\ \/ (~m.good \/ scan[a].ctrllennum # 0) /\ Fails(a)
     \/ /\ m.good /\ scan[a].ctrllennum = 0
        /\ IF a = 1 THEN Becomes(a, [s EXCEPT !.outcome = "found"]) ELSE Skip(a, s)

\* A data member, which must come after a control member; only a search for
\* data sees one there.
DataMember(a, m) ==
  /\ At(a, m) /\ scan[a].header_done /\ m.kind = "data"
  /\ IF m.good /\ scan[a].adminmember = 1
     THEN Becomes(a, [scan[a] EXCEPT !.adminmember = 0, !.outcome = "found"])
     ELSE Fails(a)

ForeignMember(a, m) ==
  /\ At(a, m) /\ scan[a].header_done /\ m.kind \in {"foreign", "magic"}
  /\ Fails(a)

Done == (\A a \in 0..1 : scan[a].outcome # "scanning") /\ UNCHANGED vars

Next ==
  \/ \E a \in 0..1 :
       \/ EndOfFile(a)
       \/ \E m \in Member :
            Header(a, m) \/ Note(a, m) \/ ControlMember(a, m) \/ DataMember(a, m)
              \/ ForeignMember(a, m)
  \/ Done

Spec == Init /\ [][Next]_vars

-----------------------------------------------------------------------------
\* An archive is a sequence of members; a scan knows how far it is and what the
\* control members it met were.
TypeOK ==
  /\ archive \in Seq(Member)
  /\ scan \in [0..1 -> Scan]

\* The format: debian-binary, a control member, a data member, with notes
\* anywhere behind the first.  Only the last control member may have a length
\* other than 0, which is how a second one is told.
IsDeb(wanted, k) ==
  /\ 1 < k /\ k <= Len(archive)
  /\ archive[1].kind = "magic"
  /\ archive[k].kind = wanted
  /\ \A i \in 1..k : archive[i].good
  /\ \A i \in 2..(k - 1) :
       \/ archive[i].kind = "note"
       \/ archive[i].kind = "control" /\ wanted = "data"
  /\ \A i, j \in 2..(k - 1) :
       i < j /\ archive[i].kind = "control" /\ archive[j].kind = "control" => archive[i].len = 0
  /\ wanted = "data" => \E i \in 2..(k - 1) : archive[i].kind = "control"

Wanted(a) == IF a = 1 THEN "control" ELSE "data"

\* The search finds what the format says, and fails only if it is not there.
FindsTheMember ==
  \A a \in 0..1 :
    /\ scan[a].outcome = "found" => IsDeb(Wanted(a), scan[a].pos)
    /\ scan[a].outcome = "failed" => ~\E k \in 1..Len(archive) : IsDeb(Wanted(a), k)
=============================================================================
