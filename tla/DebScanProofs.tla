--------------------------- MODULE DebScanProofs ---------------------------
(***************************************************************************)
(* That the searches of extracthalf are right on archives of any length.   *)
(***************************************************************************)
EXTENDS DebScan, SequenceTheorems, TLAPS

\* The search is at k with the members before it as the format has them, and
\* ctrllennum tells whether one of them is a control member that is not empty.
Passed(a, s) ==
  /\ ~s.header_done => s.pos = 1 /\ s.adminmember # 1 /\ s.ctrllennum = 0
  /\ s.header_done =>
       /\ s.pos > 1 /\ archive[1].kind = "magic" /\ archive[1].good
       /\ \A i \in 2..(s.pos - 1) :
            archive[i].good /\ (archive[i].kind = "note" \/ (archive[i].kind = "control" /\ a = 0))
       /\ s.adminmember = 1 <=> \E i \in 2..(s.pos - 1) : archive[i].kind = "control"
       /\ s.ctrllennum # 0 <=> \E i \in 2..(s.pos - 1) : archive[i].kind = "control" /\ archive[i].len # 0
       /\ \A i, j \in 2..(s.pos - 1) :
            i < j /\ archive[i].kind = "control" /\ archive[j].kind = "control" => archive[i].len = 0

Right(a, s) ==
  /\ s.outcome = "scanning" => s.pos <= Len(archive) + 1 /\ Passed(a, s)
  /\ s.outcome = "found" => IsDeb(Wanted(a), s.pos)
  /\ s.outcome = "failed" => ~\E k \in 1..Len(archive) : IsDeb(Wanted(a), k)

ScanInv == TypeOK /\ \A a \in 0..1 : Right(a, scan[a])

\* Members and scans as records.
LEMMA Typed ==
  ASSUME TypeOK
  PROVE  /\ Len(archive) \in Nat
         /\ \A k \in 1..Len(archive) : archive[k] \in Member
         /\ \A a \in 0..1 : scan[a] \in Scan
         /\ \A m \in Member : /\ m.kind \in {"magic", "control", "data", "note", "foreign"}
                              /\ m.len \in 0..1 /\ m.good \in BOOLEAN
<1>1. Len(archive) \in Nat /\ \A k \in 1..Len(archive) : archive[k] \in Member
  <2> DEFINE S == Member
  <2>1. archive \in Seq(S)
    BY DEF TypeOK
  <2> HIDE DEF S
  <2>2. Len(archive) \in Nat /\ \A k \in 1..Len(archive) : archive[k] \in S
    BY <2>1, ElementOfSeq, LenProperties
  <2> QED BY <2>2 DEF S
<1>2. \A a \in 0..1 : scan[a] \in Scan
  BY DEF TypeOK
<1>3. ASSUME NEW m \in Member
      PROVE  /\ m.kind \in {"magic", "control", "data", "note", "foreign"}
             /\ m.len \in 0..1 /\ m.good \in BOOLEAN
  <2>1. CASE m \in [kind : {"magic", "control", "data"}, len : {1}, good : BOOLEAN]
    BY <2>1
  <2>2. CASE m \in [kind : {"control"}, len : {0}, good : BOOLEAN]
    BY <2>2
  <2>3. CASE m \in [kind : {"note", "foreign"}, len : {1}, good : {TRUE}]
    <3>1. m.kind \in {"note", "foreign"} /\ m.len = 1
      BY <2>3
    <3>2. m.good \in {TRUE}
      BY <2>3, Zenon
    <3>3. m.good \in BOOLEAN
      BY <3>2, Zenon
    <3> QED BY <3>1, <3>3
  <2> QED BY <2>1, <2>2, <2>3 DEF Member
<1>4. \A m \in Member : /\ m.kind \in {"magic", "control", "data", "note", "foreign"}
                       /\ m.len \in 0..1 /\ m.good \in BOOLEAN
  BY <1>3
<1> QED BY <1>1, <1>2, <1>4

\* A note is good.
LEMMA NotesAreGood == \A m \in Member : m.kind = "note" => m.good
<1> SUFFICES ASSUME NEW m \in Member, m.kind = "note" PROVE m.good
  OBVIOUS
<1>1. CASE m \in [kind : {"magic", "control", "data"}, len : {1}, good : BOOLEAN]
  BY <1>1
<1>2. CASE m \in [kind : {"control"}, len : {0}, good : BOOLEAN]
  BY <1>2
<1>3. CASE m \in [kind : {"note", "foreign"}, len : {1}, good : {TRUE}]
  BY <1>3
<1> QED BY <1>1, <1>2, <1>3 DEF Member

\* The values adminmember is set to.
LEMMA Admin == 0 \in -1..1 /\ 1 \in -1..1
  OBVIOUS

\* What the format says of the member it defines and those before it.
LEMMA Format ==
  ASSUME NEW w, NEW k, IsDeb(w, k)
  PROVE  /\ archive[k].kind = w
         /\ \A i \in 1..k : archive[i].good
         /\ \A i \in 2..(k - 1) : archive[i].kind = "note" \/ (archive[i].kind = "control" /\ w = "data")
         /\ \A i, j \in 2..(k - 1) :
              i < j /\ archive[i].kind = "control" /\ archive[j].kind = "control" => archive[i].len = 0
         /\ w = "data" => \E i \in 2..(k - 1) : archive[i].kind = "control"
  BY DEF IsDeb

\* A step to a search that is right keeps the invariant.
LEMMA BecomesRight ==
  ASSUME ScanInv, NEW a \in 0..1, NEW s \in Scan, Becomes(a, s), Right(a, s)
  PROVE  ScanInv'
<1>1. archive' = archive /\ scan' = [scan EXCEPT ![a] = s]
  BY DEF Becomes
<1>2. TypeOK'
  BY <1>1 DEF ScanInv, TypeOK
<1>3. ASSUME NEW b \in 0..1 PROVE Right(b, scan[b])'
  <2>1. Right(b, scan'[b])
    BY <1>1 DEF ScanInv, TypeOK
  <2> QED BY <1>1, <2>1 DEF Right, Passed, IsDeb
<1> QED BY <1>2, <1>3 DEF ScanInv

\* A member the format wants is not among those passed.
LEMMA NotPassed ==
  ASSUME ScanInv, NEW a \in 0..1, scan[a].outcome = "scanning",
         NEW k \in 1..Len(archive), IsDeb(Wanted(a), k)
  PROVE  k >= scan[a].pos
<1>1. scan[a].pos \in Nat /\ Passed(a, scan[a]) /\ k > 1 /\ archive[k].kind = Wanted(a)
  BY Typed DEF ScanInv, Right, Scan, IsDeb
<1>2. CASE scan[a].header_done
  BY <1>1, <1>2 DEF Passed, Wanted
<1>3. CASE ~scan[a].header_done
  BY <1>1, <1>3 DEF Passed
<1> QED BY <1>2, <1>3

\* To fail is right if nothing that is wanted follows.
LEMMA FailsRight ==
  ASSUME ScanInv, NEW a \in 0..1, Fails(a),
         \A k \in 1..Len(archive) : k >= scan[a].pos => ~IsDeb(Wanted(a), k),
         scan[a].outcome = "scanning"
  PROVE  ScanInv'
<1> DEFINE s == [scan[a] EXCEPT !.outcome = "failed"]
<1>1. s \in Scan /\ s.outcome = "failed"
  BY Typed DEF ScanInv, Scan
<1>2. ~\E k \in 1..Len(archive) : IsDeb(Wanted(a), k)
  BY NotPassed
<1>3. Right(a, s)
  BY <1>1, <1>2 DEF Right
<1> QED BY <1>1, <1>3, BecomesRight DEF Fails

\* To pass a member is right if it fits what was passed before.
LEMMA SkipRight ==
  ASSUME ScanInv, NEW a \in 0..1, NEW m, At(a, m), NEW s \in Scan, Skip(a, s),
         s.outcome = "scanning", s.pos = scan[a].pos, Passed(a, [s EXCEPT !.pos = @ + 1])
  PROVE  ScanInv'
<1> DEFINE t == [s EXCEPT !.pos = @ + 1]
<1>1. t \in Scan /\ t.outcome = "scanning" /\ t.pos = scan[a].pos + 1
  BY DEF Scan
<1>2. Right(a, t)
  BY <1>1, Typed DEF At, ScanInv, Right, Scan
<1> QED BY <1>1, <1>2, BecomesRight DEF Skip

\* Every step of a search keeps the invariant.
LEMMA ScanStep ==
  ASSUME ScanInv, NEW a \in 0..1, NEW m \in Member,
         \/ EndOfFile(a) \/ Header(a, m) \/ Note(a, m) \/ ControlMember(a, m)
         \/ DataMember(a, m) \/ ForeignMember(a, m)
  PROVE  ScanInv'
<1> DEFINE s == scan[a]  p == s.pos  w == Wanted(a)
<1>1. s \in Scan /\ p \in Nat /\ Len(archive) \in Nat /\ s.header_done \in BOOLEAN
  BY Typed DEF ScanInv, Scan
<1>2. s.outcome = "scanning" => Passed(a, s) /\ p <= Len(archive) + 1
  BY DEF ScanInv, Right
<1>3. At(a, m) => p \in 1..Len(archive) /\ archive[p] = m /\ s.outcome = "scanning"
  BY <1>1, <1>2 DEF At, Passed
<1>4. CASE EndOfFile(a)
  BY <1>1, <1>4, FailsRight DEF EndOfFile
<1>5. CASE Header(a, m)
  <2>1. At(a, m) /\ ~s.header_done /\ p = 1
    BY <1>2, <1>3, <1>5 DEF Header, Passed
  <2>2. CASE m.kind = "magic" /\ m.good
    <3> DEFINE t == [s EXCEPT !.header_done = TRUE]
    <3>1. t \in Scan /\ t.pos = 1 /\ t.outcome = "scanning"
      BY <1>1, <1>3, <2>1 DEF Scan
    <3> DEFINE u == [t EXCEPT !.pos = @ + 1]
    <3>2. u.pos = 2 /\ u.header_done /\ u.adminmember = s.adminmember /\ u.ctrllennum = s.ctrllennum
      BY <1>1, <2>1 DEF Scan
    <3>3. s.adminmember # 1 /\ s.ctrllennum = 0
      BY <1>2, <1>3, <2>1 DEF Passed
    <3>4. Skip(a, t)
      BY <1>5, <2>1, <2>2 DEF Header
    <3> HIDE DEF t, u
    <3>5. Passed(a, u)
      BY <1>3, <2>1, <2>2, <3>2, <3>3 DEF Passed
    <3> QED BY <1>3, <2>1, <3>1, <3>4, <3>5, SkipRight DEF u
  <2>3. CASE ~(m.kind = "magic" /\ m.good)
    <3>1. \A k \in 1..Len(archive) : ~IsDeb(w, k)
      BY <1>3, <2>1, <2>3 DEF IsDeb
    <3> QED BY <1>3, <1>5, <2>1, <2>3, <3>1, FailsRight DEF Header
  <2> QED BY <2>2, <2>3
<1>6. ASSUME At(a, m), s.header_done
      PROVE  /\ p \in 2..Len(archive) /\ archive[p] = m /\ s.outcome = "scanning" /\ Passed(a, s)
             /\ \A i \in 2..p : i \in 2..(p - 1) \/ i = p
  BY <1>1, <1>2, <1>3, <1>6 DEF Passed
<1>7. CASE Note(a, m)
  <2>1. At(a, m) /\ s.header_done /\ m.kind = "note" /\ Skip(a, s)
    BY <1>7 DEF Note
  <2>2. m.good
    BY <2>1, NotesAreGood
  <2> DEFINE u == [s EXCEPT !.pos = @ + 1]
  <2>4. /\ u.pos = p + 1 /\ u.header_done = s.header_done
        /\ u.adminmember = s.adminmember /\ u.ctrllennum = s.ctrllennum
    BY <1>1 DEF Scan
  <2> HIDE DEF u
  <2>3. Passed(a, u)
    <3>1. \A i \in 2..p : i \in 2..(p - 1) \/ (i = p /\ archive[i].kind = "note" /\ archive[i].good)
      BY <1>6, <2>1, <2>2
    <3>2. \A i \in 2..(p - 1) : i \in 2..p
      BY <1>1
    <3>3. \A i \in 2..p : archive[i].kind = "control" => i \in 2..(p - 1)
      BY <3>1
    <3>4. /\ s.pos > 1 /\ archive[1].kind = "magic" /\ archive[1].good
          /\ \A i \in 2..(p - 1) :
               archive[i].good /\ (archive[i].kind = "note" \/ (archive[i].kind = "control" /\ a = 0))
          /\ s.adminmember = 1 <=> \E i \in 2..(p - 1) : archive[i].kind = "control"
          /\ s.ctrllennum # 0 <=> \E i \in 2..(p - 1) : archive[i].kind = "control" /\ archive[i].len # 0
          /\ \A i, j \in 2..(p - 1) :
               i < j /\ archive[i].kind = "control" /\ archive[j].kind = "control" => archive[i].len = 0
      BY <1>6, <2>1 DEF Passed
    <3>5. u.pos - 1 = p /\ u.pos > 1
      BY <1>1, <1>6, <2>1, <2>4
    <3>6. \A i \in 2..p :
            archive[i].good /\ (archive[i].kind = "note" \/ (archive[i].kind = "control" /\ a = 0))
      BY <3>1, <3>4
    <3>7. u.adminmember = 1 <=> \E i \in 2..p : archive[i].kind = "control"
      BY <2>4, <3>2, <3>3, <3>4
    <3>8. u.ctrllennum # 0 <=> \E i \in 2..p : archive[i].kind = "control" /\ archive[i].len # 0
      BY <2>4, <3>2, <3>3, <3>4
    <3>9. \A i, j \in 2..p :
            i < j /\ archive[i].kind = "control" /\ archive[j].kind = "control" => archive[i].len = 0
      BY <3>3, <3>4
    <3> HIDE DEF s, p
    <3> QED BY <2>1, <2>4, <3>4, <3>5, <3>6, <3>7, <3>8, <3>9 DEF Passed
  <2> QED BY <1>1, <1>6, <2>1, <2>3, SkipRight DEF u
<1>8. CASE ControlMember(a, m)
  <2> DEFINE t == [s EXCEPT !.adminmember = 1, !.ctrllennum = m.len]
  <2>1. At(a, m) /\ s.header_done /\ m.kind = "control" /\ m.len \in 0..1
    BY <1>8, Typed DEF ControlMember, ScanInv
  <2>2. CASE (~m.good \/ s.ctrllennum # 0) /\ Fails(a)
    <3>1. ASSUME NEW k \in 1..Len(archive), k >= p, IsDeb(w, k) PROVE FALSE
      <4>1. /\ archive[k].kind = w
            /\ \A i \in 1..k : archive[i].good
            /\ \A i \in 2..(k - 1) : archive[i].kind = "note" \/ (archive[i].kind = "control" /\ w = "data")
            /\ \A i, j \in 2..(k - 1) :
                 i < j /\ archive[i].kind = "control" /\ archive[j].kind = "control" => archive[i].len = 0
        BY <3>1, Format
      <4>2. m.good
        BY <1>6, <2>1, <3>1, <4>1
      <4>3. PICK i \in 2..(p - 1) : archive[i].kind = "control" /\ archive[i].len # 0
        BY <1>6, <2>1, <2>2, <4>2 DEF Passed
      <4>4. a = 0 /\ w = "data"
        BY <1>6, <2>1, <4>3 DEF Passed, Wanted
      <4>5. p # k
        BY <1>6, <2>1, <4>1, <4>4
      <4>6. i \in 2..(k - 1) /\ p \in 2..(k - 1) /\ i < p
        BY <1>1, <1>6, <2>1, <3>1, <4>5
      <4> QED BY <1>6, <2>1, <4>1, <4>3, <4>6
    <3> QED BY <1>6, <2>1, <2>2, <3>1, FailsRight
  <2>3. CASE m.good /\ s.ctrllennum = 0 /\ a = 1
    <3>1. Becomes(a, [t EXCEPT !.outcome = "found"])
      BY <1>8, <2>1, <2>3 DEF ControlMember
    <3>2. IsDeb(w, p)
      BY <1>1, <1>6, <2>1, <2>3 DEF Passed, IsDeb, Wanted
    <3>3. [t EXCEPT !.outcome = "found"] \in Scan
      BY <1>1, <2>1, Admin DEF Scan
    <3>4. Right(a, [t EXCEPT !.outcome = "found"])
      BY <1>1, <3>2 DEF Right, Scan
    <3> QED BY <3>1, <3>3, <3>4, BecomesRight
  <2>4. CASE m.good /\ s.ctrllennum = 0 /\ a = 0
    <3>1. Skip(a, t)
      BY <1>8, <2>1, <2>4 DEF ControlMember
    <3>2. t \in Scan /\ t.pos = p /\ t.outcome = "scanning" /\ t.header_done /\ t.adminmember = 1
            /\ t.ctrllennum = m.len
      BY <1>1, <1>6, <2>1, Admin DEF Scan
    <3> DEFINE u == [t EXCEPT !.pos = @ + 1]
    <3>3. u.pos = p + 1 /\ u.header_done /\ u.adminmember = 1 /\ u.ctrllennum = m.len
      BY <1>1, <3>2 DEF Scan
    <3> HIDE DEF t, u
    <3>4. Passed(a, u)
      BY <1>1, <1>6, <2>1, <2>4, <3>3 DEF Passed
    <3> QED BY <1>6, <2>1, <3>1, <3>2, <3>4, SkipRight DEF u
  <2> QED BY <1>8, <2>1, <2>2, <2>3, <2>4 DEF ControlMember
<1>9. CASE DataMember(a, m)
  <2>1. At(a, m) /\ s.header_done /\ m.kind = "data"
    BY <1>9 DEF DataMember
  <2>2. CASE m.good /\ s.adminmember = 1
    <3> DEFINE t == [s EXCEPT !.adminmember = 0, !.outcome = "found"]
    <3>1. a = 0
      BY <1>6, <2>1, <2>2 DEF Passed
    <3>2. IsDeb(w, p)
      BY <1>1, <1>6, <2>1, <2>2, <3>1 DEF Passed, IsDeb, Wanted
    <3>3. t \in Scan /\ t.outcome = "found" /\ t.pos = p
      BY <1>1, Admin DEF Scan
    <3>4. Right(a, t)
      BY <3>2, <3>3 DEF Right
    <3> QED BY <1>9, <2>1, <2>2, <3>3, <3>4, BecomesRight DEF DataMember
  <2>3. CASE ~(m.good /\ s.adminmember = 1)
    <3>1. ASSUME NEW k \in 1..Len(archive), k >= p, IsDeb(w, k) PROVE FALSE
      <4>1. /\ archive[k].kind = w
            /\ \A i \in 1..k : archive[i].good
            /\ \A i \in 2..(k - 1) : archive[i].kind = "note" \/ (archive[i].kind = "control" /\ w = "data")
            /\ w = "data" => \E i \in 2..(k - 1) : archive[i].kind = "control"
        BY <3>1, Format
      <4>2. m.good
        BY <1>6, <2>1, <3>1, <4>1
      <4>3. ~(p \in 2..(k - 1))
        BY <1>6, <2>1, <4>1
      <4>4. p = k /\ w = "data"
        BY <1>1, <1>6, <2>1, <3>1, <4>1, <4>3
      <4>5. \E i \in 2..(p - 1) : archive[i].kind = "control"
        BY <4>1, <4>4
      <4>6. s.adminmember = 1
        BY <1>6, <2>1, <4>5 DEF Passed
      <4> QED BY <2>3, <4>2, <4>6
    <3> QED BY <1>6, <1>9, <2>1, <2>3, <3>1, FailsRight DEF DataMember
  <2> QED BY <2>2, <2>3
<1>10. CASE ForeignMember(a, m)
  <2>1. At(a, m) /\ s.header_done /\ m.kind \in {"foreign", "magic"} /\ Fails(a)
    BY <1>10 DEF ForeignMember
  <2>2. \A k \in 1..Len(archive) : k >= p => ~IsDeb(w, k)
    BY <1>1, <1>6, <2>1 DEF IsDeb, Wanted
  <2> QED BY <1>6, <2>1, <2>2, FailsRight
<1> QED BY <1>4, <1>5, <1>7, <1>8, <1>9, <1>10

\* What both searches have passed, and their results, are always right.
LEMMA ScanInvariant == Spec => []ScanInv
<1>1. Init => ScanInv
  <2> SUFFICES ASSUME Init PROVE ScanInv
    OBVIOUS
  <2> DEFINE s0 == [pos |-> 1, header_done |-> FALSE, adminmember |-> -1, ctrllennum |-> 0,
                    outcome |-> "scanning"]
  <2>1. PICK n \in 0..MaxMembers : archive \in [1..n -> Member]
    BY DEF Init
  <2>2. n \in Nat
    BY MembersAssumption
  <2> DEFINE S == Member
  <2>3. archive \in [1..n -> S]
    BY <2>1
  <2> HIDE DEF S
  <2>4. archive \in Seq(S)
    BY <2>2, <2>3, SeqDef
  <2>5. Len(archive) \in Nat
    BY <2>4, LenProperties
  <2>6. s0 \in Scan /\ \A a \in 0..1 : scan[a] = s0
    BY DEF Init, Scan
  <2>7. scan \in [0..1 -> Scan]
    BY <2>6 DEF Init
  <2>8. TypeOK
    BY <2>4, <2>7 DEF TypeOK, S
  <2>9. s0.outcome = "scanning" /\ s0.pos = 1 /\ ~s0.header_done /\ s0.adminmember # 1 /\ s0.ctrllennum = 0
    OBVIOUS
  <2> HIDE DEF s0
  <2> QED BY <2>5, <2>6, <2>8, <2>9 DEF ScanInv, Right, Passed
<1>2. ScanInv /\ [Next]_vars => ScanInv'
  <2> SUFFICES ASSUME ScanInv, [Next]_vars PROVE ScanInv'
    OBVIOUS
  <2>1. CASE UNCHANGED vars
    BY <2>1 DEF vars, ScanInv, TypeOK, Right, Passed, IsDeb
  <2>2. CASE Next
    <3>1. CASE \E a \in 0..1 : EndOfFile(a)
      <4>1. PICK a \in 0..1 : EndOfFile(a)
        BY <3>1
      <4>2. [kind |-> "note", len |-> 1, good |-> TRUE] \in Member
        BY DEF Member
      <4> QED BY <4>1, <4>2, ScanStep
    <3>2. CASE \E a \in 0..1, m \in Member :
                 Header(a, m) \/ Note(a, m) \/ ControlMember(a, m) \/ DataMember(a, m) \/ ForeignMember(a, m)
      BY <3>2, ScanStep
    <3>3. CASE Done
      BY <3>3, <2>1 DEF Done
    <3> QED BY <2>2, <3>1, <3>2, <3>3 DEF Next
  <2> QED BY <2>1, <2>2
<1> QED BY <1>1, <1>2, PTL DEF Spec

\* Positions, flags and lengths of both searches keep their types.
THEOREM ScanTypes == Spec => []TypeOK
<1>1. ScanInv => TypeOK
  BY DEF ScanInv
<1> QED BY <1>1, ScanInvariant, PTL

\* On an archive of any number of members extracthalf finds the member the
\* format defines, and fails only if there is none.
THEOREM FindsIt == Spec => []FindsTheMember
<1>1. ScanInv => FindsTheMember
  BY DEF ScanInv, Right, FindsTheMember
<1> QED BY <1>1, ScanInvariant, PTL
=============================================================================
