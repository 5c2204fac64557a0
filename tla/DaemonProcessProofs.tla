------------------------ MODULE DaemonProcessProofs ------------------------
(***************************************************************************)
(* For any number of daemon processes with any options: no line of the log *)
(* is lost unless two of them rotate it at once, who has calls or routines *)
(* owns the name or is leaving, and nobody waits for the name twice.       *)
(***************************************************************************)
EXTENDS DaemonProcess, WellFoundedInduction, TLAPS

-----------------------------------------------------------------------------
(* Least and greatest elements.                                            *)

\* A set of naturals has a least element.
LEMMA MinOfSome ==
  ASSUME NEW S \in SUBSET Nat, S # {}
  PROVE  Min(S) \in S
<1>1. PICK n \in S : \A m \in S : ~(<<m, n>> \in OpToRel(<, Nat))
  BY NatLessThanWellFounded, WFMin
<1>2. \A m \in S : ~(m < n)
  BY <1>1 DEF OpToRel
<1>3. \A m \in S : n <= m
  BY <1>2
<1> QED BY <1>3 DEF Min

\* A bounded set of naturals has a greatest one, found from the other end.
LEMMA MaxOfSome ==
  ASSUME NEW N \in Nat, NEW S \in SUBSET (0..N), S # {}
  PROVE  Max(S) \in S /\ \A y \in S : Max(S) >= y
<1> DEFINE T == {n \in Nat : N - n \in S}
<1>1. T \subseteq Nat /\ T # {}
  <2>1. PICK x \in S : TRUE
    OBVIOUS
  <2>2. N - x \in T
    BY <2>1
  <2> QED BY <2>2
<1>2. PICK n \in T : \A m \in T : ~(<<m, n>> \in OpToRel(<, Nat))
  BY <1>1, NatLessThanWellFounded, WFMin
<1>3. \A m \in T : ~(m < n)
  BY <1>1, <1>2 DEF OpToRel
<1>4. \A y \in S : N - n >= y
  <2> SUFFICES ASSUME NEW y \in S PROVE N - n >= y
    OBVIOUS
  <2>1. N - y \in T
    OBVIOUS
  <2> QED BY <2>1, <1>3
<1>5. \E x \in S : \A y \in S : x >= y
  BY <1>4
<1> QED BY <1>5 DEF Max

-----------------------------------------------------------------------------
(* The log.                                                                *)

\* As long as no two processes have been choosing a name at once: at most one
\* is, the name it has chosen is new, and who has a line to write has a file.
LogInv ==
  /\ LogTypeOK /\ lost \in BOOLEAN /\ raced \in BOOLEAN
  /\ \A p \in Proc : next[p] # Current
  /\ ~raced =>
       /\ ~lost
       /\ \A p, q \in Proc : Between(p) /\ Between(q) => p = q
       /\ \A p \in Proc : Between(p) => next[p] \notin numbered
       /\ \A p \in Proc : lp[p] = "write" => fp[p] \in numbered \cup {Current, Tmp}

\* The next number is a new one.
LEMMA NextNumberIsNew ==
  ASSUME LogTypeOK
  PROVE  NextNumber \in Nat \ {0} /\ NextNumber \notin numbered
<1> DEFINE S == {Current} \cup numbered
<1>1. S \in SUBSET (0..MaxId) /\ S # {}
  BY LogAssumption DEF LogTypeOK, Current
<1>2. Max(S) \in 0..MaxId /\ \A y \in S : Max(S) >= y
  BY <1>1, MaxOfSome, LogAssumption
<1> QED BY <1>1, <1>2 DEF NextNumber

\* Any step a process makes to the log.
LogAct(p) == write_log(p) \/ OpenFails(p) \/ LogStep(p)

\* What a process does with the log keeps every line, and a number it picks is
\* new, as long as no other process is between the check and the renaming.
LEMMA LogActKeeps ==
  ASSUME LogInv, NEW p \in Proc, LogAct(p)
  PROVE  LogInv'
<1> USE DEF LogInv, LogTypeOK, At, Between, Name, Current, Tmp, NoName, NoFile
<1>1. CASE write_log(p)
  BY <1>1 DEF write_log
<1>2. CASE OpenFails(p)
  BY <1>2 DEF OpenFails
<1>3. CASE Open(p)
  BY <1>3 DEF Open
<1>4. CASE Write(p)
  <2>1. LogTypeOK'
    <3>1. size' \in Nat \cup {NoFile}
      BY <1>4, LogAssumption DEF Write
    <3> QED BY <1>4, <3>1 DEF Write
  <2>2. ~raced => ~lost'
    <3>1. ~raced => fp[p] \in (1..MaxId) \cup {0, -1}
      BY <1>4 DEF Write
    <3>2. lost' = (lost \/ fp[p] = NoName) /\ (~raced => ~lost)
      BY <1>4 DEF Write
    <3> QED BY <3>1, <3>2, LogAssumption
  <2>3. ~raced => \A q \in Proc : lp'[q] = "write" => fp'[q] \in numbered \cup {Current, Tmp}
    BY <1>4 DEF Write
  <2>4. \A q \in Proc : Between(q)' <=> Between(q)
    BY <1>4 DEF Write
  <2> QED BY <1>4, <2>1, <2>2, <2>3, <2>4 DEF Write
<1>5. CASE get_next_log_file(p)
  <2>1. NextNumber \in Nat \ {0} /\ NextNumber \notin numbered
    BY NextNumberIsNew
  <2>2. PICK n \in {NextNumber, Tmp} \cap Name : next' = [next EXCEPT ![p] = n]
    BY <1>5 DEF get_next_log_file
  <2>3. n \notin numbered \cup {Current} /\ n \in Name /\ n # NoName
    BY <2>1, LogAssumption
  <2>4. LogTypeOK'
    BY <1>5, <2>2, <2>3 DEF get_next_log_file
  <2>5. ~raced' => \A q \in Proc \ {p} : ~Between(q)
    BY <1>5 DEF get_next_log_file
  <2> QED BY <1>5, <2>2, <2>3, <2>4, <2>5 DEF get_next_log_file
<1>6. CASE Rename(p)
  <2>1. next[p] \in Name /\ next[p] # Current /\ (~raced => next[p] \notin numbered)
    <3>1. Between(p)
      BY <1>6 DEF Rename
    <3>2. next[p] # NoName /\ next[p] \in Name \cup {NoName}
      BY <3>1
    <3> QED BY <3>1, <3>2
  <2>2. CASE size = NoFile
    <3>1. UNCHANGED <<size, numbered, fp, lost, raced>>
      BY <1>6, <2>2 DEF Rename
    <3>2. CASE lp[p] = "rename"
      <4>1. lp' = [lp EXCEPT ![p] = "remove"] /\ next' = next
        BY <1>6, <2>2, <3>2 DEF Rename
      <4> QED BY <3>1, <3>2, <4>1
    <3>3. CASE lp[p] = "again"
      <4>1. lp' = [lp EXCEPT ![p] = "idle"] /\ next' = [next EXCEPT ![p] = NoName]
        BY <1>6, <2>2, <3>3 DEF Rename
      <4> QED BY <3>1, <3>3, <4>1
    <3> QED BY <1>6, <3>2, <3>3 DEF Rename
  <2>3. CASE size # NoFile
    <3>1. /\ lp' = [lp EXCEPT ![p] = "idle"] /\ next' = [next EXCEPT ![p] = NoName]
          /\ size' = NoFile /\ numbered' = numbered \cup ({next[p]} \ {Tmp})
          /\ lost' = (lost \/ next[p] \in numbered) /\ raced' = raced
          /\ fp' = Moved(next[p])
      BY <1>6, <2>3 DEF Rename
    <3>2. fp' \in [Proc -> Name \cup {NoName}]
      BY <2>1, <3>1 DEF Moved, Without
    <3>3. numbered' \subseteq 1..MaxId
      BY <2>1, <3>1
    <3>4. ~raced => \A q \in Proc : lp[q] = "write" => fp'[q] \in numbered' \cup {Current, Tmp}
      BY <2>1, <3>1 DEF Moved, Without
    <3>5. LogTypeOK'
      BY <2>1, <3>1, <3>2, <3>3
    <3>6. ~raced => ~lost' /\ \A q \in Proc : Between(q)' => FALSE
      <4>1. ~raced => next[p] \notin numbered /\ ~lost
        BY <2>1
      <4>2. ~raced => \A q \in Proc \ {p} : ~Between(q)
        BY <1>6 DEF Rename
      <4> QED BY <3>1, <4>1, <4>2
    <3> QED BY <2>1, <3>1, <3>4, <3>5, <3>6
  <2> QED BY <2>2, <2>3
<1>7. CASE RemoveFile(p)
  BY <1>7 DEF RemoveFile, Without
<1> QED BY <1>1, <1>2, <1>3, <1>4, <1>5, <1>6, <1>7 DEF LogAct, LogStep

\* What any step does to the log.
LEMMA StepOfLog ==
  ASSUME [Next]_vars
  PROVE  (\E p \in Proc : LogAct(p)) \/ UNCHANGED logVars
<1>1. CASE UNCHANGED vars
  BY <1>1 DEF vars
<1>2. ASSUME NEW p \in Proc, Main(p) PROVE LogAct(p) \/ UNCHANGED logVars
  BY <1>2 DEF Main, Start, Options, Warn, EnterLoop, on_bus_acquired, NoBus, on_name_lost,
     Handle, LeaveLoop, Exiting, Out, Exit, Logged, LogAct
<1>3. ASSUME NEW p \in Proc, LogOf(p) PROVE LogAct(p)
  BY <1>3 DEF LogOf, LogAct
<1>4. ASSUME NEW p \in Proc, RequestName(p) \/ on_signal_quit(p) \/ Call(p) \/ RoutineEnds(p)
      PROVE  UNCHANGED logVars
  BY <1>4 DEF RequestName, on_signal_quit, Call, RoutineEnds
<1> QED BY <1>1, <1>2, <1>3, <1>4 DEF Next

\* So it is from the start.
LEMMA LogInvariant == Spec => []LogInv
<1>1. Init => LogInv
  <2> SUFFICES ASSUME LogInit PROVE LogInv
    BY DEF Init
  <2> USE DEF LogInit, Between, NoName
  <2>1. LogTypeOK
    BY LogAssumption DEF LogTypeOK, Name
  <2>2. \A p \in Proc : next[p] # Current /\ ~Between(p) /\ lp[p] # "write"
    BY DEF Current
  <2> QED BY <2>1, <2>2 DEF LogInv
<1>2. LogInv /\ [Next]_vars => LogInv'
  <2> SUFFICES ASSUME LogInv, [Next]_vars PROVE LogInv'
    OBVIOUS
  <2>1. CASE UNCHANGED logVars
    BY <2>1 DEF logVars, LogInv, LogTypeOK, Between
  <2> QED BY <2>1, StepOfLog, LogActKeeps
<1> QED BY <1>1, <1>2, PTL DEF Spec

\* do_write_log loses no line, however many daemons write to the directory,
\* unless two of them were renaming the log at the same time.
THEOREM LinesAreAlwaysKept == Spec => []LinesAreKept
<1>1. LogInv => LinesAreKept
  BY DEF LogInv, LinesAreKept
<1> QED BY <1>1, LogInvariant, PTL

-----------------------------------------------------------------------------
(* The name.                                                               *)

Owner(p) == queue # <<>> /\ Head(queue) = p

NameInv ==
  /\ queue \in Seq(Proc)
  /\ told \in [Proc -> BOOLEAN] /\ quit \in [Proc -> BOOLEAN]
  /\ calls \in [Proc -> Nat] /\ routines \in [Proc -> Nat]
  /\ \A p \in Proc : calls[p] + routines[p] > 0 => Asked(p) \/ Owner(p)

\* The place RemoveFirst takes a process out of.
LEMMA FirstPlace ==
  ASSUME NEW s \in Seq(Proc), NEW p \in Proc, \E i \in 1..Len(s) : s[i] = p
  PROVE  \E k \in 1..Len(s) : s[k] = p /\ RemoveFirst(s, p) = RemoveAt(s, k)
<1> DEFINE I == {i \in 1..Len(s) : s[i] = p}
           k == SelectInSeq(s, LAMBDA v : v = p)
<1>1. k = Min(I)
  BY DEF SelectInSeq
<1>2. Min(I) \in I
  <2>1. I \in SUBSET Nat /\ I # {}
    OBVIOUS
  <2> QED BY <2>1, MinOfSome
<1>3. k \in 1..Len(s) /\ s[k] = p
  BY <1>1, <1>2
<1>4. RemoveFirst(s, p) = RemoveAt(s, k)
  BY DEF RemoveFirst
<1> HIDE DEF k
<1> QED BY <1>3, <1>4

\* When a process leaves the queue, whoever else owns the name keeps it.
LEMMA OthersStay ==
  ASSUME NEW s \in Seq(Proc), NEW p \in Proc
  PROVE  /\ RemoveFirst(s, p) \in Seq(Proc)
         /\ s # <<>> /\ Head(s) # p => RemoveFirst(s, p) # <<>> /\ Head(RemoveFirst(s, p)) = Head(s)
<1>1. CASE ~\E i \in 1..Len(s) : s[i] = p
  BY <1>1 DEF RemoveFirst
<1>2. CASE \E i \in 1..Len(s) : s[i] = p
  <2>1. PICK k \in 1..Len(s) : s[k] = p /\ RemoveFirst(s, p) = RemoveAt(s, k)
    BY <1>2, FirstPlace
  <2>2. RemoveAt(s, k) \in Seq(Proc)
    BY <2>1 DEF RemoveAt
  <2>3. ASSUME s # <<>>, Head(s) # p PROVE RemoveAt(s, k) # <<>> /\ RemoveAt(s, k)[1] = s[1]
    <3>1. k \in 2..Len(s)
      BY <2>1, <2>3
    <3> QED BY <3>1 DEF RemoveAt
  <2> QED BY <2>1, <2>2, <2>3
<1> QED BY <1>1, <1>2

\* To ask for the name leaves it with its owner.
LEMMA RequestNameKeeps ==
  ASSUME NameInv, NEW p \in Proc, RequestName(p)
  PROVE  NameInv'
<1> USE DEF NameInv, Asked, Owner
<1>0. queue # <<>> => Head(queue) \in Proc /\ Len(queue) > 0
  OBVIOUS
<1>1. CASE queue = <<>>
  <2>1. queue' \in Seq(Proc) /\ told' = told /\ UNCHANGED <<quit, calls, routines>>
    <3>1. queue' = <<p>> \o queue /\ UNCHANGED <<quit, calls, routines>>
      BY <1>1 DEF RequestName
    <3>2. told' = told
      BY <1>1 DEF RequestName
    <3> QED BY <1>1, <3>1, <3>2
  <2> QED BY <1>1, <2>1
<1>2. CASE queue # <<>> /\ "replace" \in options[p]
  <2>1. queue' \in Seq(Proc) /\ told' = [told EXCEPT ![Head(queue)] = TRUE] /\ UNCHANGED <<quit, calls, routines>>
    <3>1. queue' = <<p>> \o queue /\ UNCHANGED <<quit, calls, routines>>
      BY <1>2 DEF RequestName
    <3>2. told' = [told EXCEPT ![Head(queue)] = TRUE]
      BY <1>2 DEF RequestName
    <3> QED BY <1>2, <3>1, <3>2
  <2>2. \A q \in Proc : Owner(q) => told'[q]
    BY <1>0, <1>2, <2>1
  <2> QED BY <1>0, <1>2, <2>1, <2>2
<1>3. CASE queue # <<>> /\ "replace" \notin options[p]
  <2>1. /\ queue' \in Seq(Proc) /\ queue' # <<>> /\ Head(queue') = Head(queue)
        /\ told' = [told EXCEPT ![p] = TRUE] /\ UNCHANGED <<quit, calls, routines>>
    <3>1. queue' = Append(queue, p) /\ UNCHANGED <<quit, calls, routines>>
      BY <1>3 DEF RequestName
    <3>2. told' = [told EXCEPT ![p] = TRUE]
      BY <1>3 DEF RequestName
    <3> QED BY <1>0, <1>3, <3>1, <3>2
  <2> QED BY <1>3, <2>1
<1> QED BY <1>1, <1>2, <1>3

\* An exit hands the name to the next in the queue.
LEMMA ExitKeeps ==
  ASSUME NameInv, NEW p \in Proc, Exit(p)
  PROVE  NameInv'
<1>1. /\ queue' \in Seq(Proc)
      /\ \A q \in Proc \ {p} : Owner(q) => Owner(q)'
  BY OthersStay DEF NameInv, Exit, Owner
<1> QED BY <1>1 DEF NameInv, Exit, Asked

\* Nobody serves without the name but one that has been told or has decided to
\* leave.
LEMMA NameInvariant == Spec => []NameInv
<1>1. Init => NameInv
  BY DEF Init, NameInv
<1>2. NameInv /\ [Next]_vars => NameInv'
  <2> SUFFICES ASSUME NameInv, [Next]_vars PROVE NameInv'
    OBVIOUS
  <2> USE DEF NameInv, Asked, Owner
  <2>1. CASE UNCHANGED vars
    BY <2>1 DEF vars, procVars
  <2>2. ASSUME NEW p \in Proc, Main(p) PROVE NameInv'
    <3>1. CASE Start(p) \/ Options(p) \/ Warn(p) \/ EnterLoop(p) \/ LeaveLoop(p) \/ Exiting(p) \/ Out(p)
      BY <3>1 DEF Start, Options, Warn, EnterLoop, LeaveLoop, Exiting, Out
    <3>2. CASE on_bus_acquired(p)
      BY <3>2 DEF on_bus_acquired
    <3>3. CASE NoBus(p)
      BY <3>3 DEF NoBus
    <3>4. CASE on_name_lost(p)
      BY <3>4 DEF on_name_lost
    <3>5. CASE Handle(p)
      BY <3>5 DEF Handle
    <3>6. CASE Exit(p)
      BY <3>6, ExitKeeps
    <3> QED BY <2>2, <3>1, <3>2, <3>3, <3>4, <3>5, <3>6 DEF Main
  <2>3. ASSUME NEW p \in Proc, LogOf(p) PROVE NameInv'
    BY <2>3 DEF LogOf, procVars
  <2>4. ASSUME NEW p \in Proc, RequestName(p) PROVE NameInv'
    BY <2>4, RequestNameKeeps
  <2>5. ASSUME NEW p \in Proc, on_signal_quit(p) PROVE NameInv'
    BY <2>5 DEF on_signal_quit
  <2>6. ASSUME NEW p \in Proc, Call(p) PROVE NameInv'
    BY <2>6 DEF Call
  <2>7. ASSUME NEW p \in Proc, RoutineEnds(p) PROVE NameInv'
    BY <2>7 DEF RoutineEnds
  <2> QED BY <2>1, <2>2, <2>3, <2>4, <2>5, <2>6, <2>7 DEF Next
<1> QED BY <1>1, <1>2, PTL DEF Spec

\* A daemon that has calls to handle or routines under way owns the bus name,
\* or has been told or has decided to leave.
THEOREM AlwaysServesAsOwner == Spec => []ServesAsOwner
<1>1. NameInv => ServesAsOwner
  BY DEF NameInv, Owner, ServesAsOwner
<1> QED BY <1>1, NameInvariant, PTL

-----------------------------------------------------------------------------
(* The queue for the name.                                                 *)

\* Only who has asked for the name is in the queue, and asks once.
QueueInv ==
  /\ pc \in [Proc -> {"new", "options", "warn", "entering", "loop", "exiting", "out", "return",
                      "gone"}]
  /\ bus \in [Proc -> {"no", "none", "open", "asked"}]
  /\ IsInjective(queue)
  /\ \A i \in 1..Len(queue) : bus[queue[i]] = "asked"
  /\ \A p \in Proc : calls[p] + routines[p] <= MaxCalls

\* Two queues one after the other.
LEMMA Joined ==
  ASSUME NEW u \in Seq(Proc), NEW v \in Seq(Proc)
  PROVE  u \o v \in Seq(Proc) /\ Len(u \o v) = Len(u) + Len(v)
OBVIOUS

\* What is left of a queue without repetitions, when a process is taken out.
LEMMA RemovedOnce ==
  ASSUME NEW s \in Seq(Proc), IsInjective(s), NEW p \in Proc
  PROVE  /\ IsInjective(RemoveFirst(s, p))
         /\ \A i \in 1..Len(RemoveFirst(s, p)) :
              RemoveFirst(s, p)[i] # p /\ \E n \in 1..Len(s) : RemoveFirst(s, p)[i] = s[n]
<1>1. CASE ~\E i \in 1..Len(s) : s[i] = p
  BY <1>1 DEF RemoveFirst
<1>2. CASE \E i \in 1..Len(s) : s[i] = p
  <2>1. PICK k \in 1..Len(s) : s[k] = p /\ RemoveFirst(s, p) = RemoveAt(s, k)
    BY <1>2, FirstPlace
  <2> DEFINE r == RemoveAt(s, k)
             before(i) == IF i < k THEN i ELSE i + 1
  <2>2. /\ r \in Seq(Proc) /\ Len(r) = Len(s) - 1
        /\ \A i \in 1..Len(r) : r[i] = s[before(i)]
    <3> DEFINE u == SubSeq(s, 1, k - 1)
               v == SubSeq(s, k + 1, Len(s))
    <3>1. u \in Seq(Proc) /\ Len(u) = k - 1 /\ \A i \in 1..Len(u) : u[i] = s[i]
      OBVIOUS
    <3>2. v \in Seq(Proc) /\ Len(v) = Len(s) - k /\ \A i \in 1..Len(v) : v[i] = s[k + i]
      OBVIOUS
    <3>3. r = u \o v
      BY DEF RemoveAt
    <3> HIDE DEF u, v, r
    <3>4. r \in Seq(Proc) /\ Len(r) = Len(u) + Len(v)
      BY <3>1, <3>2, <3>3, Joined, Zenon
    <3>5. \A i \in 1..Len(r) : r[i] = s[before(i)]
      <4> SUFFICES ASSUME NEW i \in 1..Len(r) PROVE r[i] = s[before(i)]
        OBVIOUS
      <4>1. CASE i < k
        <5>1. i \in 1..Len(u) /\ r[i] = u[i]
          BY <3>1, <3>2, <3>3, <4>1
        <5> QED BY <3>1, <4>1, <5>1
      <4>2. CASE ~(i < k)
        <5>1. i - (k - 1) \in 1..Len(v) /\ r[i] = v[i - Len(u)]
          BY <3>1, <3>2, <3>3, <3>4, <4>2
        <5>2. v[i - (k - 1)] = s[k + (i - (k - 1))] /\ k + (i - (k - 1)) = i + 1
          BY <3>2, <5>1
        <5> QED BY <3>1, <4>2, <5>1, <5>2
      <4> QED BY <4>1, <4>2
    <3> QED BY <3>1, <3>2, <3>4, <3>5
  <2> HIDE DEF r
  <2>3. \A i \in 1..Len(r) : before(i) \in 1..Len(s) /\ before(i) # k
    BY <2>2
  <2>4. \A i, n \in 1..Len(r) : before(i) = before(n) => i = n
    BY <2>2
  <2> HIDE DEF before
  <2>5. DOMAIN r = 1..Len(r) /\ DOMAIN s = 1..Len(s)
    BY <2>2
  <2>6. IsInjective(r)
    BY <2>2, <2>3, <2>4, <2>5 DEF IsInjective
  <2>7. \A i \in 1..Len(r) : r[i] # p /\ \E n \in 1..Len(s) : r[i] = s[n]
    BY <2>1, <2>2, <2>3, <2>5 DEF IsInjective
  <2>8. QED
    BY <2>1, <2>6, <2>7 DEF r
<1> QED BY <1>1, <1>2

\* Who asks for the name is not in the queue yet.
LEMMA RequestNameQueues ==
  ASSUME NameInv, QueueInv, NEW p \in Proc, RequestName(p)
  PROVE  QueueInv'
<1>1. queue \in Seq(Proc) /\ bus[p] = "open" /\ bus \in [Proc -> {"no", "none", "open", "asked"}]
  BY DEF NameInv, QueueInv, RequestName
<1>2. bus' = [bus EXCEPT ![p] = "asked"] /\ UNCHANGED <<pc, calls, routines>>
  BY DEF RequestName
<1>3. \A i \in 1..Len(queue) : queue[i] \in Proc \ {p} /\ bus[queue[i]] = "asked"
  BY <1>1 DEF QueueInv
<1>4. \A i, n \in 1..Len(queue) : queue[i] = queue[n] => i = n
  BY <1>1 DEF QueueInv, IsInjective
<1>5. queue' = <<p>> \o queue \/ queue' = Append(queue, p)
  BY DEF RequestName
<1>6. queue' \in Seq(Proc) /\ DOMAIN queue' = 1..Len(queue')
  <2>1. <<p>> \o queue \in Seq(Proc) /\ Append(queue, p) \in Seq(Proc)
    BY <1>1
  <2>2. queue' \in Seq(Proc)
    BY <1>5, <2>1
  <2> QED BY <2>2
<1>7. CASE queue' = <<p>> \o queue
  <2>1. Len(queue') = Len(queue) + 1 /\ queue'[1] = p
        /\ \A i \in 2..Len(queue') : i - 1 \in 1..Len(queue) /\ queue'[i] = queue[i - 1]
    BY <1>1, <1>7
  <2>2. \A i \in 1..Len(queue') : bus'[queue'[i]] = "asked"
    BY <1>1, <1>2, <1>3, <2>1
  <2>3. \A i, n \in 1..Len(queue') : queue'[i] = queue'[n] => i = n
    BY <1>3, <1>4, <2>1
  <2> QED BY <1>2, <1>6, <2>2, <2>3 DEF QueueInv, IsInjective
<1>8. CASE queue' = Append(queue, p)
  <2>1. Len(queue') = Len(queue) + 1 /\ queue'[Len(queue')] = p
        /\ \A i \in 1..Len(queue) : queue'[i] = queue[i]
    BY <1>1, <1>8
  <2>2. \A i \in 1..Len(queue') : i \in 1..Len(queue) \/ i = Len(queue')
    BY <1>1, <2>1
  <2>3. \A i \in 1..Len(queue') : bus'[queue'[i]] = "asked"
    BY <1>1, <1>2, <1>3, <2>1, <2>2
  <2>4. \A i, n \in 1..Len(queue') : queue'[i] = queue'[n] => i = n
    BY <1>3, <1>4, <2>1, <2>2
  <2> QED BY <1>2, <1>6, <2>3, <2>4 DEF QueueInv, IsInjective
<1> QED BY <1>5, <1>7, <1>8

\* Who exits is taken out of it.
LEMMA ExitLeavesQueue ==
  ASSUME NameInv, QueueInv, NEW p \in Proc, Exit(p)
  PROVE  QueueInv'
<1>1. /\ queue \in Seq(Proc) /\ IsInjective(queue)
      /\ queue' = RemoveFirst(queue, p)
  BY DEF NameInv, QueueInv, Exit
<1>2. /\ IsInjective(queue')
      /\ \A i \in 1..Len(queue') : queue'[i] # p /\ \E n \in 1..Len(queue) : queue'[i] = queue[n]
  BY <1>1, RemovedOnce
<1>3. bus' = [bus EXCEPT ![p] = "no"]
  BY DEF Exit
<1>4. \A i \in 1..Len(queue') : bus'[queue'[i]] = "asked"
  <2> SUFFICES ASSUME NEW i \in 1..Len(queue') PROVE bus'[queue'[i]] = "asked"
    OBVIOUS
  <2>1. PICK n \in 1..Len(queue) : queue'[i] = queue[n] /\ queue[n] # p
    BY <1>2
  <2>2. queue[n] \in Proc /\ bus[queue[n]] = "asked"
    BY <1>1 DEF QueueInv
  <2> QED BY <1>3, <2>1, <2>2 DEF QueueInv
<1>5. pc' \in [Proc -> {"new", "options", "warn", "entering", "loop", "exiting", "out", "return",
                      "gone"}]
      /\ bus' \in [Proc -> {"no", "none", "open", "asked"}]
  BY <1>3 DEF Exit, QueueInv
<1>6. \A q \in Proc : calls'[q] + routines'[q] <= MaxCalls
  BY CallsAssumption DEF Exit, QueueInv, NameInv
<1> QED BY <1>2, <1>4, <1>5, <1>6 DEF QueueInv

\* No step puts a process into the queue a second time.
LEMMA QueueInvariant == Spec => []QueueInv
<1>1. Init => QueueInv
  BY CallsAssumption DEF Init, QueueInv, IsInjective
<1>2. NameInv /\ QueueInv /\ [Next]_vars => QueueInv'
  <2> SUFFICES ASSUME NameInv, QueueInv, [Next]_vars PROVE QueueInv'
    OBVIOUS
  <2> USE DEF QueueInv, NameInv
  <2>1. CASE UNCHANGED vars
    BY <2>1 DEF vars, procVars
  <2>2. ASSUME NEW p \in Proc, Main(p) PROVE QueueInv'
    <3>1. CASE Start(p) \/ Options(p) \/ Warn(p) \/ EnterLoop(p) \/ LeaveLoop(p) \/ Exiting(p) \/ Out(p)
      BY <3>1 DEF Start, Options, Warn, EnterLoop, LeaveLoop, Exiting, Out, Logged
    <3>2. CASE on_bus_acquired(p) \/ NoBus(p)
      <4>1. PICK to \in {"open", "none"} : bus' = [bus EXCEPT ![p] = to]
        BY <3>2 DEF on_bus_acquired, NoBus
      <4>2. bus[p] = "no" /\ UNCHANGED <<pc, queue, calls, routines>>
        BY <3>2 DEF on_bus_acquired, NoBus
      <4>3. \A i \in 1..Len(queue) : bus'[queue[i]] = "asked"
        <5> SUFFICES ASSUME NEW i \in 1..Len(queue) PROVE bus'[queue[i]] = "asked"
          OBVIOUS
        <5>1. queue[i] \in Proc /\ bus[queue[i]] = "asked" /\ queue[i] # p
          BY <4>2
        <5> QED BY <4>1, <5>1
      <4> QED BY <4>1, <4>2, <4>3
    <3>3. CASE on_name_lost(p)
      BY <3>3 DEF on_name_lost
    <3>4. CASE Handle(p)
      <4>1. /\ calls' = [calls EXCEPT ![p] = @ - 1] /\ routines' = [routines EXCEPT ![p] = @ + 1]
            /\ UNCHANGED <<pc, bus, queue>>
        BY <3>4 DEF Handle
      <4>2. \A q \in Proc : calls'[q] + routines'[q] = calls[q] + routines[q]
        BY <4>1
      <4> QED BY <4>1, <4>2
    <3>5. CASE Exit(p)
      BY <3>5, ExitLeavesQueue
    <3> QED BY <2>2, <3>1, <3>2, <3>3, <3>4, <3>5 DEF Main
  <2>3. ASSUME NEW p \in Proc, LogOf(p) PROVE QueueInv'
    BY <2>3 DEF LogOf, procVars
  <2>4. ASSUME NEW p \in Proc, RequestName(p) PROVE QueueInv'
    BY <2>4, RequestNameQueues
  <2>5. ASSUME NEW p \in Proc, on_signal_quit(p) PROVE QueueInv'
    BY <2>5 DEF on_signal_quit
  <2>6. ASSUME NEW p \in Proc, Call(p) PROVE QueueInv'
    BY <2>6, CallsAssumption DEF Call
  <2>7. ASSUME NEW p \in Proc, RoutineEnds(p) PROVE QueueInv'
    BY <2>7, CallsAssumption DEF RoutineEnds
  <2> QED BY <2>1, <2>2, <2>3, <2>4, <2>5, <2>6, <2>7 DEF Next
<1> QED BY <1>1, <1>2, NameInvariant, PTL DEF Spec

\* The log keeps its types, with a name chosen exactly while a process rotates
\* it; no process is in the queue for the bus name twice, so when it exits the
\* name goes to another one.
THEOREM ProcessTypes == Spec => []TypeOK
<1>1. LogInv /\ NameInv /\ QueueInv => TypeOK
  BY DEF LogInv, NameInv, QueueInv, TypeOK
<1> QED BY <1>1, LogInvariant, NameInvariant, QueueInvariant, PTL
=============================================================================
