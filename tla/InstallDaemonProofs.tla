------------------------ MODULE InstallDaemonProofs ------------------------
(***************************************************************************)
(* Proofs about the daemon for every set of files and every bound.  Of     *)
(* InstallDaemon: type correctness, that task_locked keeps installs apart  *)
(* as long as no conversion has handed over its rpm, and that the package  *)
(* list is only damaged when two threads use it at the same time.  Of      *)
(* SerialDaemon, where one thread at a time has to do with the list: that  *)
(* nothing goes wrong with it, and that the daemon implements              *)
(* InstallService.                                                         *)
(***************************************************************************)
EXTENDS SerialDaemon, SequenceTheorems, FiniteSetTheorems, TLAPS


PCs == MainPC \cup DebPC \cup AddPC \cup RpmPC \cup EndPC

\* One thread becomes r; the others stay as they are.
LEMMA BecomesThread ==
  ASSUME thread \in Seq(Thread), NEW t \in DOMAIN thread, NEW r \in Thread,
         Becomes(t, r)
  PROVE  /\ thread' \in Seq(Thread)
         /\ DOMAIN thread' = DOMAIN thread
         /\ \A u \in DOMAIN thread : thread'[u] = IF u = t THEN r ELSE thread[u]
BY ExceptSeq, LenProperties DEF Becomes

\* One thread moves on to pc and a new one joins behind the others.
LEMMA SpawnThread ==
  ASSUME thread \in Seq(Thread), NEW t \in DOMAIN thread, NEW pc \in PCs,
         NEW new \in Thread, Spawn(t, pc, new)
  PROVE  /\ thread' \in Seq(Thread)
         /\ DOMAIN thread' = DOMAIN thread \cup {Len(thread) + 1}
         /\ Len(thread) + 1 \notin DOMAIN thread
         /\ \A u \in DOMAIN thread : thread'[u] =
              IF u = t THEN [thread[t] EXCEPT !.pc = pc] ELSE thread[u]
         /\ thread'[Len(thread) + 1] = new
<1> DEFINE r == [thread[t] EXCEPT !.pc = pc]
           s == [thread EXCEPT ![t] = r]
<1>1. thread[t] \in Thread
  BY ElementOfSeq, LenProperties
<1>2. r \in Thread
  BY <1>1 DEF Thread, PCs
<1>3. /\ s \in Seq(Thread) /\ Len(s) = Len(thread)
      /\ \A u \in 1..Len(thread) : s[u] = IF u = t THEN r ELSE thread[u]
  BY <1>2, ExceptSeq, LenProperties
<1>4. thread' = Append(s, new)
  BY DEF Spawn
<1> HIDE DEF r, s
<1>5. /\ thread' \in Seq(Thread)
      /\ Len(thread') = Len(thread) + 1
      /\ \A i \in 1..Len(s) : thread'[i] = s[i]
      /\ thread'[Len(s) + 1] = new
  BY <1>3, <1>4, AppendProperties
<1>6. DOMAIN thread = 1..Len(thread) /\ DOMAIN thread' = 1..(Len(thread) + 1)
      /\ Len(thread) \in Nat
  BY <1>5, LenProperties
<1>7. /\ DOMAIN thread' = DOMAIN thread \cup {Len(thread) + 1}
      /\ Len(thread) + 1 \notin DOMAIN thread
  BY <1>6
<1>8. ASSUME NEW u \in DOMAIN thread
      PROVE  thread'[u] = IF u = t THEN r ELSE thread[u]
  <2>1. u \in 1..Len(thread) /\ u \in 1..Len(s)
    BY <1>3, <1>6
  <2>2. QED
    BY <1>3, <1>5, <2>1
<1>9. thread'[Len(thread) + 1] = new
  BY <1>3, <1>5
<1>10. QED
  BY <1>5, <1>7, <1>8, <1>9, Zenon DEF r

-----------------------------------------------------------------------------
(* The records a step puts in place of thread[t]. *)

\* r is old with another program counter, and anything else in its locals.
Moved(r, old, pc) ==
  /\ r \in Thread
  /\ r.kind = old.kind
  /\ r.pc = pc

WithPc(r, pc)         == [r EXCEPT !.pc = pc]
WithFile(r, pc, f)    == [r EXCEPT !.pc = pc, !.file = f]
WithList(r, pc, l)    == [r EXCEPT !.pc = pc, !.list = l]
WithLength(r, pc, n)  == [r EXCEPT !.pc = pc, !.n = n]
WithArgs(r, pc, a)    == [r EXCEPT !.pc = pc, !.args = a]
Filled(r, pc, a, n)   == [r EXCEPT !.pc = pc, !.args = a, !.n = n]
Dropped(r, pc, l, n)  == [r EXCEPT !.pc = pc, !.list = l, !.n = n]
Stepped(r, n)         == [r EXCEPT !.n = n]
EnterList(r, l, pc)   == [r EXCEPT !.list = l, !.pc = pc]

\* The fields of a thread after each form of update the actions use.
LEMMA Updates ==
  ASSUME NEW r \in Thread, NEW pc \in PCs
  PROVE  /\ /\ Moved(WithPc(r, pc), r, pc)
            /\ WithPc(r, pc).list = r.list
            /\ WithPc(r, pc).file = r.file
            /\ WithPc(r, pc).n = r.n
         /\ \A f \in File :
              /\ Moved(WithFile(r, pc, f), r, pc)
              /\ WithFile(r, pc, f).list = r.list
              /\ WithFile(r, pc, f).file = f
         /\ \A l \in Nat :
              /\ Moved(WithList(r, pc, l), r, pc)
              /\ WithList(r, pc, l).list = l
              /\ WithList(r, pc, l).file = r.file
         /\ \A n \in Nat :
              /\ Moved(WithLength(r, pc, n), r, pc)
              /\ WithLength(r, pc, n).list = r.list
              /\ WithLength(r, pc, n).file = r.file
              /\ WithLength(r, pc, n).n = n
         /\ \A a \in Seq(Package) :
              /\ Moved(WithArgs(r, pc, a), r, pc)
              /\ WithArgs(r, pc, a).list = r.list
         /\ \A a \in Seq(Package), n \in Nat :
              /\ Moved(Filled(r, pc, a, n), r, pc)
              /\ Filled(r, pc, a, n).list = r.list
         /\ \A l, n \in Nat :
              /\ Moved(Dropped(r, pc, l, n), r, pc)
              /\ Dropped(r, pc, l, n).list = l
              /\ Dropped(r, pc, l, n).file = r.file
         /\ \A n \in Nat :
              /\ Moved(Stepped(r, n), r, r.pc)
              /\ Stepped(r, n).list = r.list
BY DEF Thread, Moved, PCs, WithPc, WithFile, WithList, WithLength, WithArgs,
       Filled, Dropped, Stepped

\* And after an install has read rpm_list.
LEMMA EnterUpdate ==
  ASSUME NEW r \in Thread, NEW pc \in PCs, NEW l \in Nat
  PROVE  /\ Moved(EnterList(r, l, pc), r, pc)
         /\ EnterList(r, l, pc).list = l
BY DEF Thread, Moved, PCs, EnterList

\* Every program counter is one of PCs.
LEMMA PCTypes ==
  /\ MainPC \subseteq PCs /\ DebPC \subseteq PCs /\ AddPC \subseteq PCs
  /\ RpmPC \subseteq PCs /\ EndPC \subseteq PCs
BY DEF PCs

-----------------------------------------------------------------------------
(* Type correctness. *)

ListRecord == [items : Seq(Package), state : ListState]

\* What the type invariant says of the variables other than thread.
OthersOK ==
  /\ rpm_list \in 0..Len(heap)
  /\ deb \in File \cup {NoFile}
  /\ task_locked \in BOOLEAN
  /\ heap \in Seq(ListRecord)
  /\ signal \in Signal \cup {Silence}
  /\ calls \in 0..MaxCalls
  /\ fault \in Faults
  /\ overlapped \in BOOLEAN

\* A step in which one thread becomes a well-formed r keeps WellFormed.
LEMMA BecomesWellFormed ==
  ASSUME WellFormed, OthersOK', NEW t \in DOMAIN thread, NEW r \in Thread,
         Becomes(t, r), r.kind = thread[t].kind, ThreadOK(r, deb),
         deb' = deb, Len(heap') >= Len(heap), r.list \in 0..Len(heap')
  PROVE  WellFormed'
<1>1. /\ thread' \in Seq(Thread)
      /\ DOMAIN thread' = DOMAIN thread
      /\ \A u \in DOMAIN thread : thread'[u] = IF u = t THEN r ELSE thread[u]
  BY BecomesThread DEF WellFormed, TypeOK
<1>2. ASSUME NEW u \in DOMAIN thread'
      PROVE  /\ ThreadOK(thread'[u], deb')
             /\ thread'[u].kind = "main" <=> u = Main
             /\ thread'[u].list \in 0..Len(heap')
  <2>1. CASE u = t
    BY <1>1, <2>1 DEF WellFormed, ThreadOK
  <2>2. CASE u # t
    <3>1. thread'[u] = thread[u] /\ u \in DOMAIN thread
      BY <1>1, <2>2
    <3>2. Len(heap) \in Nat /\ Len(heap') \in Nat
      BY LenProperties DEF WellFormed, TypeOK, OthersOK
    <3>3. QED
      BY <3>1, <3>2 DEF WellFormed, TypeOK, ThreadOK
  <2>3. QED
    BY <2>1, <2>2
<1>3. thread' # <<>>
  BY <1>1, EmptySeq, LenProperties DEF WellFormed, TypeOK
<1>4. TypeOK'
  BY <1>1, <1>2 DEF TypeOK, OthersOK, ListRecord
<1>5. QED
  BY <1>2, <1>3, <1>4 DEF WellFormed

\* So does a step in which one thread moves on and another is started.
LEMMA SpawnWellFormed ==
  ASSUME WellFormed, OthersOK', NEW t \in DOMAIN thread, NEW pc \in PCs,
         NEW new \in Thread, Spawn(t, pc, new),
         ThreadOK([thread[t] EXCEPT !.pc = pc], deb'), ThreadOK(new, deb'),
         new.kind # "main", new.list = 0,
         deb' = deb \/ deb' \in Debs, heap' = heap
  PROVE  WellFormed'
<1>1. /\ thread' \in Seq(Thread)
      /\ DOMAIN thread' = DOMAIN thread \cup {Len(thread) + 1}
      /\ Len(thread) + 1 \notin DOMAIN thread
      /\ \A u \in DOMAIN thread : thread'[u] =
           IF u = t THEN [thread[t] EXCEPT !.pc = pc] ELSE thread[u]
      /\ thread'[Len(thread) + 1] = new
  BY SpawnThread DEF WellFormed, TypeOK
<1>2. thread' # <<>>
  BY <1>1, EmptySeq, LenProperties
<1>3. Len(heap) \in Nat /\ 1 \in DOMAIN thread
  BY LenProperties, EmptySeq DEF WellFormed, TypeOK
<1>4. ASSUME NEW u \in DOMAIN thread'
      PROVE  /\ ThreadOK(thread'[u], deb')
             /\ thread'[u].kind = "main" <=> u = Main
             /\ thread'[u].list \in 0..Len(heap')
  <2>1. CASE u = t
    <3>1. thread[t] \in Thread
      BY ElementOfSeq, LenProperties DEF WellFormed, TypeOK
    <3>2. /\ [thread[t] EXCEPT !.pc = pc].kind = thread[t].kind
          /\ [thread[t] EXCEPT !.pc = pc].list = thread[t].list
      BY <3>1 DEF Thread
    <3>3. QED
      BY <1>1, <2>1, <3>2 DEF WellFormed, TypeOK
  <2>2. CASE u \in DOMAIN thread /\ u # t
    <3>1. thread'[u] = thread[u]
      BY <1>1, <2>2
    <3>2. ThreadOK(thread[u], deb')
      BY <2>2, <3>1 DEF WellFormed, ThreadOK
    <3>3. QED
      BY <2>2, <3>1, <3>2 DEF WellFormed, TypeOK
  <2>3. CASE u = Len(thread) + 1
    BY <1>1, <1>3, <2>3 DEF Main
  <2>4. QED
    BY <1>1, <2>1, <2>2, <2>3
<1>5. TypeOK'
  BY <1>1, <1>4 DEF TypeOK, OthersOK, ListRecord
<1>6. QED
  BY <1>2, <1>4, <1>5 DEF WellFormed

\* And a step that touches no thread.
LEMMA SameWellFormed ==
  ASSUME WellFormed, OthersOK', thread' = thread, deb' = deb, heap' = heap
  PROVE  WellFormed'
BY DEF WellFormed, TypeOK, OthersOK, ListRecord, ThreadOK

\* The daemon starts idle, with no list allocated.
LEMMA InitWellFormed == Init => WellFormed
<1> SUFFICES ASSUME Init PROVE WellFormed
  OBVIOUS
<1> DEFINE m == NewThread("main", "idle")
<1>1. m \in Thread
  BY EmptySeq DEF NewThread, Thread, MainPC
<1>2. /\ m.kind = "main" /\ m.list = 0 /\ ThreadOK(m, deb)
  BY DEF NewThread, ThreadOK, MainPC, AddPC
<1> HIDE DEF m
<1>3. thread = <<m>>
  BY DEF Init, m
<1>4. /\ thread \in Seq(Thread) /\ thread # <<>>
      /\ DOMAIN thread = {1} /\ thread[1] = m
  BY <1>1, <1>3
<1>5. /\ heap \in Seq(ListRecord) /\ Len(heap) = 0
  BY EmptySeq DEF Init
<1>6. rpm_list \in 0..Len(heap) /\ calls \in 0..MaxCalls
  BY <1>5, BoundsAssumption DEF Init
<1>7. \A t \in DOMAIN thread : thread[t].list \in 0..Len(heap)
  BY <1>2, <1>4, <1>5
<1>8. TypeOK
  BY <1>4, <1>5, <1>6, <1>7 DEF TypeOK, Init, Faults, ListRecord
<1>9. QED
  BY <1>2, <1>4, <1>8 DEF WellFormed, Main

\* The signals the daemon emits.
LEMMA SignalTypes ==
  /\ Error("task locked") \in Signal
  /\ Error("src.rpm note") \in Signal
  /\ Error("problem") \in Signal
  /\ Finished \in Signal
  /\ \A s \in Status, f \in File \cup Package \cup {NoFile}, b \in BOOLEAN :
       PercentChanged(s, f, b) \in Signal
BY DEF Signal, Error, Finished, PercentChanged, Status

\* The threads install_async and rpm_install_default_async start are well formed.
LEMMA NewThreadTypes ==
  ASSUME NEW d \in Debs
  PROVE  /\ NewThread("deb", "enter") \in Thread
         /\ NewThread("rpm", "enter") \in Thread
         /\ ThreadOK(NewThread("deb", "enter"), d)
         /\ ThreadOK(NewThread("rpm", "enter"), d)
BY EmptySeq DEF NewThread, Thread, ThreadOK, DebPC, RpmPC, AddPC, EndPC, MainPC

\* What WellFormed gives of the thread that steps.
LEMMA StepperTypes ==
  ASSUME WellFormed, NEW t \in DOMAIN thread
  PROVE  /\ thread[t] \in Thread
         /\ thread[t].list \in 0..Len(heap)
         /\ ThreadOK(thread[t], deb)
         /\ thread[t].kind = "main" <=> t = Main
         /\ Main \in DOMAIN thread
         /\ Len(heap) \in Nat
         /\ \A l \in 1..Len(heap) : heap[l] \in ListRecord
         /\ OthersOK
<1>1. thread \in Seq(Thread) /\ thread # <<>> /\ heap \in Seq(ListRecord)
  BY DEF WellFormed, TypeOK, ListRecord
<1>2. thread[t] \in Thread /\ Main \in DOMAIN thread
  BY <1>1, ElementOfSeq, LenProperties, EmptySeq DEF Main
<1>3. Len(heap) \in Nat /\ \A l \in 1..Len(heap) : heap[l] \in ListRecord
  BY <1>1, ElementOfSeq, LenProperties
<1>4. OthersOK
  BY <1>1 DEF WellFormed, TypeOK, OthersOK
<1>5. QED
  BY <1>2, <1>3, <1>4 DEF WellFormed, TypeOK

\* What Observe records is a Boolean.
LEMMA ObserveType == Observe => overlapped' \in BOOLEAN
BY DEF Observe

\* A call taken from the bus is within the bound.
LEMMA DispatchType ==
  ASSUME calls \in 0..MaxCalls, Dispatch
  PROVE  calls' \in 0..MaxCalls
BY BoundsAssumption DEF Dispatch

\* Accepting the AddInstall call keeps WellFormed.
LEMMA AddInstallWellFormed ==
  ASSUME WellFormed, NEW f \in File, AddInstall(f), Observe
  PROVE  WellFormed'
<1> USE DispatchType, ObserveType DEF At, Quiet, Emit, daemonState
<1>1. Main \in DOMAIN thread /\ OthersOK /\ thread[Main] \in Thread
      /\ thread[Main].kind = "main" /\ ThreadOK(thread[Main], deb)
      /\ thread[Main].list \in 0..Len(heap)
  BY StepperTypes, EmptySeq, LenProperties DEF WellFormed, TypeOK, Main
<1>2. CASE AddRpm(f) \/ AddSrcRpm(f)
  <2> DEFINE r == [thread[Main] EXCEPT !.pc = "read", !.file = f]
  <2>1. r \in Thread /\ r.kind = thread[Main].kind /\ r.list = thread[Main].list
        /\ ThreadOK(r, deb)
    BY <1>1, <1>2 DEF AddRpm, AddSrcRpm, Thread, ThreadOK, AddPC
  <2>2. OthersOK' /\ deb' = deb /\ heap' = heap /\ Becomes(Main, r)
    BY <1>1, <1>2, SignalTypes
       DEF AddRpm, AddSrcRpm, OthersOK, StartAdd
  <2> HIDE DEF r
  <2>3. QED
    BY <1>1, <2>1, <2>2, BecomesWellFormed, LenProperties DEF OthersOK
<1>3. CASE AddDeb(f)
  <2>1. OthersOK' /\ deb' \in Debs /\ heap' = heap
        /\ Spawn(Main, "idle", NewThread("deb", "enter"))
    BY <1>1, <1>3 DEF AddDeb, OthersOK, File
  <2>2. ThreadOK([thread[Main] EXCEPT !.pc = "idle"], deb')
    BY <1>1 DEF Thread, ThreadOK, MainPC, AddPC
  <2>3. NewThread("deb", "enter").kind # "main"
        /\ NewThread("deb", "enter").list = 0
    BY DEF NewThread
  <2>4. "idle" \in PCs
    BY DEF PCs, MainPC
  <2>5. QED
    BY <1>1, <2>1, <2>2, <2>3, <2>4, NewThreadTypes, SpawnWellFormed
<1>4. CASE RefuseDeb(f) \/ IgnoreFile(f)
  <2>1. OthersOK' /\ deb' = deb /\ heap' = heap /\ thread' = thread
    BY <1>1, <1>4, SignalTypes
       DEF RefuseDeb, IgnoreFile, OthersOK
  <2>2. QED
    BY <2>1, SameWellFormed
<1>5. QED
  BY <1>2, <1>3, <1>4 DEF AddInstall

\* So does accepting or refusing Install.
LEMMA InstallWellFormed ==
  ASSUME WellFormed, Install, Observe
  PROVE  WellFormed'
<1> USE DispatchType, ObserveType DEF At, Quiet, Emit, daemonState
<1>1. Main \in DOMAIN thread /\ OthersOK /\ thread[Main] \in Thread
      /\ thread[Main].kind = "main" /\ ThreadOK(thread[Main], deb)
      /\ thread[Main].list \in 0..Len(heap)
  BY StepperTypes, EmptySeq, LenProperties DEF WellFormed, TypeOK, Main
<1>2. CASE RefuseInstall
  BY <1>1, <1>2, SignalTypes, SameWellFormed DEF RefuseInstall, OthersOK
<1>3. CASE AcceptInstall
  <2> DEFINE r == [thread[Main] EXCEPT !.pc = "length"]
  <2>1. r \in Thread /\ r.kind = thread[Main].kind /\ r.list = thread[Main].list
        /\ ThreadOK(r, deb)
    BY <1>1 DEF Thread, ThreadOK, MainPC, AddPC
  <2>2. OthersOK' /\ deb' = deb /\ heap' = heap /\ Becomes(Main, r)
    BY <1>1, <1>3 DEF AcceptInstall, OthersOK, Go
  <2> HIDE DEF r
  <2>3. QED
    BY <1>1, <2>1, <2>2, BecomesWellFormed, LenProperties DEF OthersOK
<1>4. QED
  BY <1>2, <1>3 DEF Install

\* So does the end of Install, which looks at the list and may start a thread.
LEMMA StartInstallWellFormed ==
  ASSUME WellFormed, StartInstall, Observe
  PROVE  WellFormed'
<1> USE ObserveType DEF At, Quiet, daemonState
<1>1. Main \in DOMAIN thread /\ OthersOK /\ thread[Main] \in Thread
      /\ thread[Main].kind = "main" /\ ThreadOK(thread[Main], deb)
      /\ thread[Main].list \in 0..Len(heap)
  BY StepperTypes, EmptySeq, LenProperties DEF WellFormed, TypeOK, Main
<1>2. OthersOK' /\ deb' = deb /\ heap' = heap
  BY <1>1 DEF StartInstall, OthersOK, Fails, Faults
<1> DEFINE r == [thread[Main] EXCEPT !.pc = "idle"]
<1>3. r \in Thread /\ r.kind = thread[Main].kind /\ r.list = thread[Main].list
      /\ ThreadOK(r, deb)
  BY <1>1 DEF Thread, ThreadOK, MainPC, AddPC
<1>4. CASE Go(Main, "idle")
  <2>1. Becomes(Main, r)
    BY <1>4 DEF Go
  <2> HIDE DEF r
  <2>2. QED
    BY <1>1, <1>2, <1>3, <2>1, BecomesWellFormed, LenProperties DEF OthersOK
<1>5. CASE Spawn(Main, "idle", NewThread("rpm", "enter"))
  <2> DEFINE new == NewThread("rpm", "enter")
  <2>1. new \in Thread /\ ThreadOK(new, deb') /\ new.kind # "main" /\ new.list = 0
    BY EmptySeq DEF NewThread, Thread, ThreadOK, RpmPC
  <2>2. "idle" \in PCs
    BY DEF PCs, MainPC
  <2> HIDE DEF new
  <2>3. QED
    BY <1>1, <1>2, <1>3, <1>5, <2>1, <2>2, SpawnWellFormed DEF new
<1>6. CASE thread' = thread
  BY <1>2, <1>6, SameWellFormed
<1>7. QED
  BY <1>4, <1>5, <1>6 DEF StartInstall

\* Changing the items or the state of one list keeps heap a sequence of lists.
LEMMA HeapTypes ==
  ASSUME heap \in Seq(ListRecord), NEW l \in 1..Len(heap), NEW x \in ListRecord
  PROVE  /\ [heap EXCEPT ![l] = x] \in Seq(ListRecord)
         /\ Len([heap EXCEPT ![l] = x]) = Len(heap)
         /\ \A k \in 1..Len(heap) :
              [heap EXCEPT ![l] = x][k] = IF k = l THEN x ELSE heap[k]
BY ExceptSeq

\* So does each step of the append, whichever thread runs it.
LEMMA AppendWellFormed ==
  ASSUME WellFormed, NEW t \in DOMAIN thread, Observe,
         AppendRead(t) \/ AppendFind(t) \/ AppendLink(t) \/ AppendStore(t)
  PROVE  WellFormed'
<1> USE ObserveType DEF At, Quiet, daemonState
<1>1. /\ thread[t] \in Thread /\ thread[t].list \in 0..Len(heap)
      /\ ThreadOK(thread[t], deb) /\ OthersOK /\ Len(heap) \in Nat
      /\ \A l \in 1..Len(heap) : heap[l] \in ListRecord
      /\ thread[t].kind = "main" <=> t = Main
  BY StepperTypes
<1>2. CASE AppendRead(t)
  <2> DEFINE r == WithList(thread[t], "find", rpm_list)
  <2>1. r \in Thread /\ r.kind = thread[t].kind /\ r.list \in 0..Len(heap)
        /\ ThreadOK(r, deb)
    <3>1. thread[t].pc = "read" /\ rpm_list \in 0..Len(heap) /\ rpm_list \in Nat
      BY <1>1, <1>2 DEF AppendRead, OthersOK
    <3>2. Moved(r, thread[t], "find") /\ r.list = rpm_list /\ r.file = thread[t].file
      BY <1>1, <3>1, PCTypes, Updates DEF AddPC
    <3>3. ThreadOK(r, deb)
      BY <1>1, <3>1, <3>2 DEF Moved, ThreadOK, AddPC, MainPC, DebPC, RpmPC, EndPC
    <3>4. QED
      BY <3>1, <3>2, <3>3 DEF Moved
  <2>2. OthersOK' /\ deb' = deb /\ heap' = heap /\ Becomes(t, r)
    BY <1>1, <1>2 DEF AppendRead, OthersOK, WithList
  <2> HIDE DEF r
  <2>3. QED
    BY <1>1, <2>1, <2>2, BecomesWellFormed
<1>3. thread[t].pc \in {"find", "link"} => Appended(t) \in Package
  BY <1>1 DEF Appended, ThreadOK, Package, MainPC, AddPC, RpmPC, EndPC, Thread
<1>4. CASE AppendFind(t)
  <2> DEFINE l == thread[t].list
             x == [items |-> <<Appended(t)>>, state |-> "live"]
             r1 == WithList(thread[t], "store", Len(heap) + 1)
             r2 == WithLength(thread[t], "link", Len(heap[l].items))
  <2>1. CASE l = 0
    <3>1. x \in ListRecord
      <4>1. Appended(t) \in Package
        BY <1>3, <1>4 DEF AppendFind
      <4>2. <<Appended(t)>> \in Seq(Package)
        BY <4>1
      <4>3. QED
        BY <4>2 DEF ListRecord, ListState
    <3>2. heap' = Append(heap, x) /\ Becomes(t, r1)
      <4>1. ~Intact(l) /\ ~Freed(l)
        BY <2>1 DEF Intact, Freed
      <4>2. QED
        BY <1>4, <4>1, Zenon DEF AppendFind, WithList
    <3>3. heap' \in Seq(ListRecord) /\ Len(heap') = Len(heap) + 1
      BY <3>1, <3>2, <1>1, AppendProperties DEF OthersOK
    <3>4. OthersOK' /\ deb' = deb
      BY <1>1, <1>4, <2>1, <3>3 DEF AppendFind, OthersOK, Intact, Freed
    <3>5. r1 \in Thread /\ r1.kind = thread[t].kind /\ r1.list \in 0..Len(heap')
          /\ ThreadOK(r1, deb)
      <4>1. thread[t].pc = "find" /\ Len(heap) + 1 \in Nat
        <5>1. thread[t].pc = "find"
          BY <1>4, Zenon DEF AppendFind
        <5>2. Len(heap) + 1 \in Nat
          BY <1>1
        <5>3. QED
          BY <5>1, <5>2
      <4>2. Moved(r1, thread[t], "store") /\ r1.list = Len(heap) + 1
            /\ r1.file = thread[t].file
        BY <1>1, <4>1, PCTypes, Updates DEF AddPC
      <4>3. ThreadOK(r1, deb)
        BY <1>1, <4>1, <4>2 DEF Moved, ThreadOK, AddPC, MainPC, DebPC, RpmPC, EndPC
      <4>4. QED
        BY <1>1, <3>3, <4>2, <4>3 DEF Moved
    <3> HIDE DEF r1
    <3>6. QED
      BY <1>1, <3>2, <3>3, <3>4, <3>5, BecomesWellFormed
  <2>2. CASE Intact(l)
    <3>1. l \in 1..Len(heap) /\ heap[l].items \in Seq(Package)
      BY <1>1, <2>2 DEF Intact, ListRecord
    <3>2. Len(heap[l].items) \in Nat /\ thread[t].pc = "find" /\ l # 0
      BY <1>4, <2>2, <3>1, LenProperties DEF AppendFind, Intact
    <3>3. r2 \in Thread /\ r2.kind = thread[t].kind /\ r2.list = thread[t].list
          /\ ThreadOK(r2, deb)
      <4>1. Moved(r2, thread[t], "link") /\ r2.list = l /\ r2.file = thread[t].file
        BY <1>1, <3>2, PCTypes, Updates DEF AddPC
      <4>2. QED
        BY <1>1, <3>2, <4>1
           DEF Moved, ThreadOK, AddPC, MainPC, DebPC, RpmPC, EndPC
    <3>4. OthersOK' /\ deb' = deb /\ heap' = heap /\ Becomes(t, r2)
      <4>1. l # 0 /\ ~Freed(l)
        BY <2>2 DEF Intact, Freed
      <4>2. heap' = heap /\ fault' = fault /\ Becomes(t, r2)
        BY <1>4, <4>1, Zenon DEF AppendFind, WithLength
      <4>3. QED
        BY <1>1, <1>4, <4>2 DEF AppendFind, OthersOK
    <3> HIDE DEF r2
    <3>5. QED
      BY <1>1, <3>3, <3>4, BecomesWellFormed
  <2>3. CASE Freed(l)
    BY <1>1, <1>4, <2>3, SameWellFormed
       DEF AppendFind, OthersOK, Intact, Freed, Fails, Faults
  <2>4. QED
    BY <1>4, <2>1, <2>2, <2>3 DEF AppendFind
<1>5. CASE AppendLink(t)
  <2> DEFINE l == thread[t].list
             x == [heap[l] EXCEPT !.items = Append(@, Appended(t))]
             r == [thread[t] EXCEPT !.pc = "store", !.n = 0]
  <2>1. l \in 1..Len(heap)
    <3>1. thread[t].pc = "link"
      BY <1>5 DEF AppendLink
    <3>2. l # 0
      BY <1>1, <3>1 DEF ThreadOK
    <3>3. QED
      BY <1>1, <3>2
  <2>2. CASE Intact(l) /\ Len(heap[l].items) = thread[t].n
    <3>1. x \in ListRecord
      <4>1. heap[l] \in ListRecord /\ Appended(t) \in Package
        BY <1>1, <1>3, <1>5, <2>1 DEF AppendLink
      <4>2. Append(heap[l].items, Appended(t)) \in Seq(Package)
        BY <4>1, AppendProperties DEF ListRecord
      <4>3. QED
        BY <4>1, <4>2 DEF ListRecord
    <3>2. heap' = [heap EXCEPT ![l] = x] /\ Becomes(t, r)
      BY <1>5, <2>2 DEF AppendLink, Intact, Freed
    <3>3. heap' \in Seq(ListRecord) /\ Len(heap') = Len(heap)
      BY <1>1, <2>1, <3>1, <3>2, HeapTypes DEF OthersOK
    <3>4. OthersOK' /\ deb' = deb
      BY <1>1, <1>5, <2>2, <3>3 DEF AppendLink, OthersOK, Intact, Freed
    <3>5. r \in Thread /\ r.kind = thread[t].kind /\ r.list = thread[t].list
          /\ ThreadOK(r, deb)
      BY <1>1, <1>5 DEF AppendLink, Thread, ThreadOK, AddPC, MainPC, DebPC, RpmPC,
                        EndPC
    <3> HIDE DEF r, x
    <3>6. QED
      BY <1>1, <3>2, <3>3, <3>4, <3>5, BecomesWellFormed
  <2>3. CASE thread' = thread /\ heap' = heap
    BY <1>1, <1>5, <2>3, SameWellFormed DEF AppendLink, OthersOK, Fails, Faults
  <2>4. QED
    BY <1>5, <2>2, <2>3 DEF AppendLink
<1>6. CASE AppendStore(t)
  <2>1. OthersOK' /\ deb' = deb /\ heap' = heap
    BY <1>1, <1>6 DEF AppendStore, OthersOK
  <2>2. CASE thread[t].kind = "deb"
    <3> DEFINE new == NewThread("rpm", "enter")
    <3>1. new \in Thread /\ ThreadOK(new, deb') /\ new.kind # "main" /\ new.list = 0
      BY EmptySeq DEF NewThread, Thread, ThreadOK, RpmPC
    <3>2. "unlock" \in PCs
      BY DEF PCs, EndPC
    <3>3. ThreadOK([thread[t] EXCEPT !.pc = "unlock"], deb')
      BY <1>1, <1>6, <2>1, <2>2 DEF AppendStore, Thread, ThreadOK, EndPC
    <3>4. Spawn(t, "unlock", new)
      BY <1>6, <2>2 DEF AppendStore
    <3> HIDE DEF new
    <3>5. QED
      BY <2>1, <3>1, <3>2, <3>3, <3>4, SpawnWellFormed
  <2>3. CASE thread[t].kind # "deb"
    <3> DEFINE r == NewThread("main", "idle")
    <3>1. thread[t].kind = "main"
      BY <1>1, <1>6, <2>3 DEF AppendStore, ThreadOK, RpmPC, EndPC
    <3>2. r \in Thread /\ r.kind = "main" /\ r.list = 0 /\ ThreadOK(r, deb)
      BY EmptySeq DEF NewThread, Thread, ThreadOK, MainPC, AddPC
    <3>3. Becomes(t, r)
      BY <1>6, <2>3 DEF AppendStore
    <3> HIDE DEF r
    <3>4. QED
      BY <1>1, <2>1, <3>1, <3>2, <3>3, BecomesWellFormed
  <2>4. QED
    BY <2>2, <2>3
<1>7. QED
  BY <1>2, <1>4, <1>5, <1>6
\* A conversion step does.
LEMMA DebWellFormed ==
  ASSUME WellFormed, NEW t \in DOMAIN thread, Observe, DebConvert(t)
  PROVE  WellFormed'
<1> USE ObserveType DEF At, Quiet, Emit, daemonState
<1>1. /\ thread[t] \in Thread /\ thread[t].list \in 0..Len(heap)
      /\ ThreadOK(thread[t], deb) /\ OthersOK /\ Len(heap) \in Nat
  BY StepperTypes
<1>2. CASE DebEnter(t)
  <2> DEFINE r == WithFile(thread[t], "extract", deb)
  <2>1. thread[t].pc = "enter" /\ thread[t].kind = "deb" /\ deb \in Debs
    BY <1>1, <1>2 DEF DebEnter, ThreadOK
  <2>2. "extract" \in PCs /\ deb \in File
    BY <2>1, PCTypes DEF DebPC, File
  <2>3. Moved(r, thread[t], "extract") /\ r.list = thread[t].list /\ r.file = deb
    BY <1>1, <2>2, Updates
  <2>4. ThreadOK(r, deb)
    BY <2>1, <2>3 DEF Moved, ThreadOK, DebPC
  <2>5. Becomes(t, r)
    BY <1>2, Zenon DEF DebEnter, WithFile
  <2>6. OthersOK' /\ deb' = deb /\ heap' = heap
    BY <1>1, <1>2 DEF DebEnter, OthersOK
  <2> HIDE DEF r
  <2>7. QED
    BY <1>1, <2>3, <2>4, <2>5, <2>6, BecomesWellFormed DEF Moved
<1>3. ASSUME NEW pc \in DebPC \ {"enter"}, NEW next \in DebPC \cup AddPC \cup EndPC,
             thread[t].pc = pc, Go(t, next), next \notin {"enter", "link"},
             deb' = deb, heap' = heap, OthersOK'
      PROVE  WellFormed'
  <2> DEFINE r == WithPc(thread[t], next)
  <2>1. next \in PCs
    BY <1>3, PCTypes
  <2>2. Moved(r, thread[t], next) /\ r.list = thread[t].list
        /\ r.file = thread[t].file
    BY <1>1, <2>1, Updates
  <2>3. ThreadOK(r, deb)
    BY <1>1, <1>3, <2>2
       DEF Moved, ThreadOK, DebPC, AddPC, EndPC, MainPC, RpmPC
  <2>4. Becomes(t, r)
    BY <1>3, Zenon DEF Go, WithPc
  <2> HIDE DEF r
  <2>5. QED
    BY <1>1, <1>3, <2>2, <2>3, <2>4, BecomesWellFormed DEF Moved
<1>4. CASE DebGivesUp(t)
  <2>1. OthersOK' /\ deb' = deb /\ heap' = heap /\ Go(t, "unlock")
    BY <1>1, <1>4, SignalTypes DEF DebGivesUp, OthersOK
  <2>2. thread[t].pc \in {"extract", "describe"}
    BY <1>4 DEF DebGivesUp
  <2>3. QED
    BY <1>3, <2>1, <2>2 DEF DebPC, EndPC
<1>5. ASSUME NEW pc \in DebPC \ {"enter"}, NEW next \in DebPC \cup AddPC,
             next \notin {"enter", "link"}, NEW full \in BOOLEAN,
             DebReports(t, pc, next, full)
      PROVE  WellFormed'
  <2>1. PercentChanged(0, deb, full) \in Signal
    BY <1>1, SignalTypes DEF OthersOK, Status
  <2>2. OthersOK' /\ deb' = deb /\ heap' = heap /\ Go(t, next)
        /\ thread[t].pc = pc
    BY <1>1, <1>5, <2>1 DEF DebReports, OthersOK
  <2>3. QED
    BY <1>3, <1>5, <2>2
<1>6. QED
  BY <1>2, <1>4, <1>5 DEF DebConvert, DebPC, AddPC

\* The steps of an install that only read the list.
LEMMA RpmReadWellFormed ==
  ASSUME WellFormed, NEW t \in DOMAIN thread, Observe,
         RpmEnter(t) \/ RpmCount(t) \/ RpmFill(t) \/ RpmTransaction(t) \/ RpmProgress(t)
  PROVE  WellFormed'
<1> USE ObserveType DEF At, Quiet, Emit, daemonState
<1>1. /\ thread[t] \in Thread /\ thread[t].list \in 0..Len(heap)
      /\ ThreadOK(thread[t], deb) /\ OthersOK /\ Len(heap) \in Nat
      /\ \A l \in 1..Len(heap) : heap[l] \in ListRecord
  BY StepperTypes
<1>2. thread[t].pc \in RpmPC /\ thread[t].kind = "rpm"
  BY <1>1 DEF RpmEnter, RpmCount, RpmFill, RpmTransaction, RpmProgress,
              RpmPC, ThreadOK, MainPC, AddPC, DebPC, EndPC
\* what is left to show: a thread record of an install
<1>3. ASSUME NEW r, Moved(r, thread[t], r.pc), r.list \in 0..Len(heap),
             r.pc \in RpmPC, r.pc \in {"count", "fill"} => r.list # 0,
             Becomes(t, r), OthersOK', deb' = deb, heap' = heap
      PROVE  WellFormed'
  <2>1. ThreadOK(r, deb)
    BY <1>2, <1>3 DEF Moved, ThreadOK, RpmPC
  <2>2. QED
    BY <1>1, <1>3, <2>1, BecomesWellFormed DEF Moved
<1>4. deb' = deb /\ heap' = heap
  BY DEF RpmEnter, RpmCount, RpmFill, RpmTransaction, RpmProgress
<1>5. ASSUME NEW pc \in RpmPC \ {"count", "fill"}, Go(t, pc), OthersOK'
      PROVE  WellFormed'
  <2> DEFINE r == WithPc(thread[t], pc)
  <2>1. Moved(r, thread[t], pc) /\ r.list = thread[t].list
    BY <1>1, <1>5, PCTypes, Updates
  <2>2. Becomes(t, r)
    BY <1>5, Zenon DEF Go, WithPc
  <2> HIDE DEF r
  <2>3. QED
    BY <1>1, <1>3, <1>4, <1>5, <2>1, <2>2 DEF Moved
<1>6. CASE RpmEnter(t)
  <2> DEFINE pc == IF rpm_list = 0 THEN "free_items" ELSE "count"
             r  == EnterList(thread[t], rpm_list, pc)
  <2>1. pc \in PCs /\ rpm_list \in Nat /\ rpm_list \in 0..Len(heap) /\ pc \in RpmPC
    BY <1>1, PCTypes DEF OthersOK, RpmPC
  <2>2. Moved(r, thread[t], pc) /\ r.list = rpm_list
    BY <1>1, <2>1, EnterUpdate
  <2>3. Becomes(t, r)
    BY <1>6, Zenon DEF RpmEnter, EnterList
  <2>4. OthersOK'
    BY <1>1, <1>6 DEF RpmEnter, OthersOK
  <2>5. r.pc \in {"count", "fill"} => r.list # 0
    BY <2>2 DEF Moved
  <2>6. Moved(r, thread[t], r.pc) /\ r.pc \in RpmPC /\ r.list \in 0..Len(heap)
    BY <2>1, <2>2 DEF Moved
  <2> HIDE DEF r
  <2>7. QED
    BY <1>3, <1>4, <2>3, <2>4, <2>5, <2>6
<1>7. CASE RpmCount(t)
  <2> DEFINE l == thread[t].list
             r == WithLength(thread[t], "fill", Len(heap[l].items))
  <2>1. OthersOK'
    BY <1>1, <1>7, SignalTypes DEF RpmCount, OthersOK, Fails, Faults
  <2>2. CASE Intact(l) /\ Becomes(t, r)
    <3>1. l # 0 /\ l \in 1..Len(heap)
      BY <1>1, <2>2 DEF Intact
    <3>2. Len(heap[l].items) \in Nat /\ "fill" \in PCs
      BY <1>1, <3>1, LenProperties, PCTypes DEF ListRecord, RpmPC
    <3>3. Moved(r, thread[t], "fill") /\ r.list = l
      BY <1>1, <3>2, Updates
    <3>4. "fill" \in RpmPC
      BY DEF RpmPC
    <3>5. Moved(r, thread[t], r.pc) /\ r.pc \in RpmPC /\ r.list # 0
          /\ r.list \in 0..Len(heap)
      BY <1>1, <3>1, <3>3, <3>4 DEF Moved
    <3> HIDE DEF r
    <3>6. QED
      BY <1>3, <1>4, <2>1, <2>2, <3>5
  <2>3. CASE Go(t, "free_items")
    BY <1>5, <2>1, <2>3 DEF RpmPC
  <2>4. CASE thread' = thread
    BY <1>4, <2>1, <2>4, SameWellFormed
  <2>5. QED
    BY <1>7, <2>2, <2>3, <2>4, Zenon DEF RpmCount, WithLength
<1>8. CASE RpmFill(t)
  <2> DEFINE l == thread[t].list
             r == Filled(thread[t], "transaction", heap[l].items, 0)
  <2>1. OthersOK'
    BY <1>1, <1>8 DEF RpmFill, OthersOK, Fails, Faults
  <2>2. thread[t].pc = "fill"
    BY <1>8, Zenon DEF RpmFill
  <2>3. CASE Becomes(t, r)
    <3>1. l \in 1..Len(heap)
      BY <1>1, <2>2 DEF ThreadOK
    <3>2. heap[l].items \in Seq(Package) /\ "transaction" \in PCs
      BY <1>1, <3>1, PCTypes DEF ListRecord, RpmPC
    <3>3. Moved(r, thread[t], "transaction") /\ r.list = l
      BY <1>1, <3>2, Updates
    <3>4. Moved(r, thread[t], r.pc) /\ r.pc \in RpmPC /\ r.pc \notin {"count", "fill"}
          /\ r.list \in 0..Len(heap)
      BY <1>1, <3>3 DEF Moved, RpmPC
    <3> HIDE DEF r
    <3>5. QED
      BY <1>3, <1>4, <2>1, <2>3, <3>4
  <2>4. CASE thread' = thread
    BY <1>4, <2>1, <2>4, SameWellFormed
  <2>5. QED
    BY <1>8, <2>3, <2>4, Zenon DEF RpmFill, Filled
<1>9. CASE RpmTransaction(t)
  <2> DEFINE r == WithArgs(thread[t], "free_items", <<>>)
  <2>1. OthersOK'
    BY <1>1, <1>9, SignalTypes DEF RpmTransaction, OthersOK
  <2>2. CASE Becomes(t, r)
    <3>1. Moved(r, thread[t], "free_items") /\ r.list = thread[t].list
      <4>1. <<>> \in Seq(Package) /\ "free_items" \in PCs
        BY EmptySeq, PCTypes DEF RpmPC
      <4>2. \A a \in Seq(Package) :
              /\ Moved(WithArgs(thread[t], "free_items", a), thread[t], "free_items")
              /\ WithArgs(thread[t], "free_items", a).list = thread[t].list
        BY <1>1, <4>1, Updates
      <4>3. QED
        BY <4>1, <4>2, Zenon
    <3>2. Moved(r, thread[t], r.pc) /\ r.pc \in RpmPC /\ r.pc \notin {"count", "fill"}
          /\ r.list \in 0..Len(heap)
      BY <1>1, <3>1 DEF Moved, RpmPC
    <3> HIDE DEF r
    <3>3. QED
      BY <1>3, <1>4, <2>1, <2>2, <3>2
  <2>3. CASE Go(t, "progress")
    BY <1>5, <2>1, <2>3 DEF RpmPC
  <2>4. QED
    BY <1>9, <2>2, <2>3, Zenon DEF RpmTransaction, WithArgs
<1>10. CASE RpmProgress(t)
  <2> DEFINE i == thread[t].n + 1
             r == Stepped(thread[t], i)
  <2>1. i \in Nat /\ thread[t].args \in Seq(Package)
    BY <1>1 DEF Thread
  <2>2. i <= Len(thread[t].args) => thread[t].args[i] \in Package
    BY <2>1, ElementOfSeq, LenProperties, <1>1 DEF Thread
  <2>3. OthersOK'
    BY <1>1, <1>10, <2>2, SignalTypes DEF RpmProgress, OthersOK, Status
  <2>4. thread[t].pc = "progress"
    BY <1>10, Zenon DEF RpmProgress
  <2>5. CASE Becomes(t, r)
    <3>1. Moved(r, thread[t], "progress") /\ r.list = thread[t].list
      <4>1. "progress" \in PCs
        BY PCTypes DEF RpmPC
      <4>2. Moved(r, thread[t], thread[t].pc) /\ r.list = thread[t].list
        BY <1>1, <2>1, <4>1, Updates
      <4>3. QED
        BY <2>4, <4>2
    <3>2. Moved(r, thread[t], r.pc) /\ r.pc \in RpmPC /\ r.pc \notin {"count", "fill"}
          /\ r.list \in 0..Len(heap)
      BY <1>1, <3>1 DEF Moved, RpmPC
    <3> HIDE DEF r
    <3>3. QED
      BY <1>3, <1>4, <2>3, <2>5, <3>2
  <2>6. CASE Go(t, "free_items")
    BY <1>5, <2>3, <2>6 DEF RpmPC
  <2>7. QED
    BY <1>10, <2>5, <2>6, Zenon DEF RpmProgress, Stepped
<1>11. QED
  BY <1>6, <1>7, <1>8, <1>9, <1>10

\* The steps of an install that dispose of the list.
LEMMA RpmFreeWellFormed ==
  ASSUME WellFormed, NEW t \in DOMAIN thread, Observe,
         RpmFreeItems(t) \/ RpmFreeList(t) \/ RpmReset(t) \/ RpmFinish(t)
  PROVE  WellFormed'
<1> USE ObserveType DEF At, Quiet, Emit, daemonState
<1>1. /\ thread[t] \in Thread /\ thread[t].list \in 0..Len(heap)
      /\ ThreadOK(thread[t], deb) /\ OthersOK /\ Len(heap) \in Nat
      /\ \A l \in 1..Len(heap) : heap[l] \in ListRecord
  BY StepperTypes
<1>2. thread[t].pc \in RpmPC /\ thread[t].kind = "rpm" /\ deb' = deb
  BY <1>1 DEF RpmFreeItems, RpmFreeList, RpmReset, RpmFinish,
              RpmPC, ThreadOK, MainPC, AddPC, DebPC, EndPC
<1>3. ASSUME NEW pc \in {"free_list", "reset", "finish", "unlock"}, Go(t, pc),
             OthersOK', Len(heap') = Len(heap)
      PROVE  WellFormed'
  <2> DEFINE r == WithPc(thread[t], pc)
  <2>1. pc \in PCs /\ pc \in RpmPC \cup EndPC
    BY PCTypes DEF RpmPC, EndPC
  <2>2. Moved(r, thread[t], pc) /\ r.list = thread[t].list
    BY <1>1, <2>1, Updates
  <2>3. Becomes(t, r)
    BY <1>3, Zenon DEF Go, WithPc
  <2>4. ThreadOK(r, deb)
    BY <1>2, <2>1, <2>2 DEF Moved, ThreadOK
  <2> HIDE DEF r
  <2>5. QED
    BY <1>1, <1>2, <1>3, <2>2, <2>3, <2>4, BecomesWellFormed DEF Moved
<1>4. ASSUME NEW state \in ListState, rpm_list # 0,
             heap' = [heap EXCEPT ![rpm_list].state = state]
      PROVE  heap' \in Seq(ListRecord) /\ Len(heap') = Len(heap)
  <2> DEFINE x == [heap[rpm_list] EXCEPT !.state = state]
  <2>1. rpm_list \in 1..Len(heap) /\ heap \in Seq(ListRecord)
    BY <1>1, <1>4 DEF OthersOK
  <2>2. x \in ListRecord
    BY <1>1, <2>1 DEF ListRecord
  <2>3. heap' = [heap EXCEPT ![rpm_list] = x]
    BY <1>4
  <2> HIDE DEF x
  <2>4. QED
    BY <2>1, <2>2, <2>3, HeapTypes
<1>5. CASE RpmFreeItems(t) \/ RpmFreeList(t)
  <2>1. \/ heap' = heap
        \/ /\ rpm_list # 0
           /\ \E state \in ListState : heap' = [heap EXCEPT ![rpm_list].state = state]
    BY <1>5 DEF RpmFreeItems, RpmFreeList, ListState, Intact
  <2>2. heap' \in Seq(ListRecord) /\ Len(heap') = Len(heap)
    BY <1>1, <1>4, <2>1 DEF OthersOK
  <2>3. OthersOK'
    BY <1>1, <1>5, <2>2 DEF RpmFreeItems, RpmFreeList, OthersOK, Fails, Faults
  <2>4. \/ Go(t, "free_list") \/ Go(t, "reset")
        \/ thread' = thread /\ heap' = heap
    BY <1>5 DEF RpmFreeItems, RpmFreeList
  <2>5. QED
    BY <1>2, <1>3, <2>2, <2>3, <2>4, SameWellFormed
<1>6. CASE RpmReset(t)
  <2>1. OthersOK' /\ heap' = heap /\ Go(t, "finish")
    BY <1>1, <1>6 DEF RpmReset, OthersOK
  <2>2. QED
    BY <1>3, <2>1
<1>7. CASE RpmFinish(t)
  <2>1. OthersOK' /\ heap' = heap /\ Go(t, "unlock")
    BY <1>1, <1>7, SignalTypes DEF RpmFinish, OthersOK
  <2>2. QED
    BY <1>3, <2>1
<1>8. QED
  BY <1>5, <1>6, <1>7

\* The end of a routine.
LEMMA UnlockWellFormed ==
  ASSUME WellFormed, NEW t \in DOMAIN thread, Observe, Unlock(t)
  PROVE  WellFormed'
<1> USE ObserveType DEF At, Quiet, daemonState
<1>1. /\ thread[t] \in Thread /\ ThreadOK(thread[t], deb) /\ OthersOK
      /\ Len(heap) \in Nat
  BY StepperTypes
<1> DEFINE r == Dropped(thread[t], "done", 0, 0)
<1>2. "done" \in PCs /\ thread[t].pc = "unlock"
  BY PCTypes DEF EndPC, Unlock
<1>3. Moved(r, thread[t], "done") /\ r.list = 0 /\ r.file = thread[t].file
  BY <1>1, <1>2, Updates
<1>4. ThreadOK(r, deb)
  BY <1>1, <1>2, <1>3 DEF Moved, ThreadOK, EndPC, MainPC, AddPC, RpmPC, DebPC
<1>5. Becomes(t, r)
  BY Zenon DEF Unlock, Dropped
<1>6. OthersOK' /\ deb' = deb /\ heap' = heap
  BY <1>1 DEF Unlock, OthersOK
<1> HIDE DEF r
<1>7. QED
  BY <1>1, <1>3, <1>4, <1>5, <1>6, BecomesWellFormed DEF Moved

-----------------------------------------------------------------------------

\* WellFormed is inductive.
LEMMA NextWellFormed ==
  ASSUME WellFormed, [Next]_vars
  PROVE  WellFormed'
<1>1. Main \in DOMAIN thread
  BY EmptySeq, LenProperties DEF WellFormed, TypeOK, Main
<1>2. CASE Call /\ Observe
  BY <1>2, AddInstallWellFormed, InstallWellFormed DEF Call
<1>3. CASE MainStep /\ Observe
  BY <1>1, <1>3, StartInstallWellFormed, AppendWellFormed DEF MainStep
<1>4. ASSUME NEW t \in Workers, Worker(t), Observe
      PROVE  WellFormed'
  <2>1. t \in DOMAIN thread
    BY DEF Workers
  <2>2. QED
    BY <1>4, <2>1, DebWellFormed, AppendWellFormed, RpmReadWellFormed,
       RpmFreeWellFormed, UnlockWellFormed DEF Worker, RpmInstall
<1>5. CASE Progress /\ Observe
  BY <1>3, <1>4, <1>5 DEF Progress
<1>6. CASE UNCHANGED vars
  BY <1>6 DEF vars, WellFormed, TypeOK, ThreadOK
<1>7. QED
  BY <1>2, <1>5, <1>6 DEF Next, Rest

\* Whatever calls arrive and however the threads interleave, every variable of
\* the daemon keeps its type, every list pointer points to a list that was
\* allocated, and nothing but the main loop, conversions and installs runs.
THEOREM TypeCorrect == Spec => []TypeOK
<1>1. Init => WellFormed
  BY InitWellFormed
<1>2. WellFormed /\ [Next]_vars => WellFormed'
  BY NextWellFormed
<1>3. WellFormed => TypeOK
  BY DEF WellFormed
<1>4. QED
  BY <1>1, <1>2, <1>3, PTL DEF Spec

-----------------------------------------------------------------------------
(* The lock. *)

\* A thread that has taken the lock: the main loop behind Install, or the
\* routine it starts.
Holder(r) == r.pc = "length" \/ (r.kind = "rpm" /\ r.pc # "done")

\* A conversion that has started an install of its own, or has given up.
Ended(r) == r.kind = "deb" /\ r.pc \in EndPC

\* Until a conversion ends the lock has at most one holder, and is set while
\* it has one.
LockInv ==
  (\A t \in DOMAIN thread : ~Ended(thread[t])) =>
    \A t \in DOMAIN thread : Holder(thread[t]) =>
      task_locked /\ \A u \in DOMAIN thread : Holder(thread[u]) => u = t

\* Thread t, the only one to move, neither takes nor releases the lock.
Apart(t) ==
  /\ task_locked' = task_locked
  /\ DOMAIN thread' = DOMAIN thread
  /\ \A u \in DOMAIN thread : u # t => thread'[u] = thread[u]
  /\ Holder(thread'[t]) => Holder(thread[t])
  /\ Ended(thread[t]) => Ended(thread'[t])

\* Such a step keeps the invariant.
LEMMA ApartKeeps ==
  ASSUME LockInv, NEW t \in DOMAIN thread, Apart(t)
  PROVE  LockInv'
<1> SUFFICES ASSUME \A u \in DOMAIN thread' : ~Ended(thread'[u]),
                    NEW v \in DOMAIN thread', Holder(thread'[v])
             PROVE  task_locked' /\ \A u \in DOMAIN thread' : Holder(thread'[u]) => u = v
  BY DEF LockInv, Ended, Holder
<1>1. \A u \in DOMAIN thread : ~Ended(thread[u])
  BY DEF Apart
<1>2. \A u \in DOMAIN thread : Holder(thread'[u]) => Holder(thread[u])
  BY DEF Apart
<1> QED BY <1>1, <1>2 DEF Apart, LockInv

\* Such is a step that puts a record in place of a thread.
LEMMA GoesOn ==
  ASSUME WellFormed, NEW t \in DOMAIN thread, NEW r, Becomes(t, r),
         task_locked' = task_locked,
         Holder(r) => Holder(thread[t]), Ended(thread[t]) => Ended(r)
  PROVE  Apart(t)
<1>1. /\ DOMAIN thread' = DOMAIN thread
      /\ \A u \in DOMAIN thread : thread'[u] = IF u = t THEN r ELSE thread[u]
  BY DEF WellFormed, TypeOK, Becomes
<1> QED BY <1>1 DEF Apart

\* And one in which no thread moves, or the program stops.
LEMMA NobodyMoves ==
  ASSUME NEW t \in DOMAIN thread, thread' = thread, task_locked' = task_locked
  PROVE  Apart(t)
BY DEF Apart

\* r is old with another program counter.
Gone(r, old, pc) == r.pc = pc /\ r.kind = old.kind

\* A step that only sets other fields of a record leaves its kind.
LEMMA KindStays ==
  ASSUME NEW r \in Thread, NEW pc, NEW x, NEW y
  PROVE  /\ Gone(WithPc(r, pc), r, pc)
         /\ Gone(WithFile(r, pc, x), r, pc)
         /\ Gone(WithList(r, pc, x), r, pc)
         /\ Gone(EnterList(r, x, pc), r, pc)
         /\ Gone(WithLength(r, pc, x), r, pc)
         /\ Gone(WithArgs(r, pc, x), r, pc)
         /\ Gone(Filled(r, pc, x, y), r, pc)
         /\ Gone(Dropped(r, pc, x, y), r, pc)
         /\ Gone(Stepped(r, x), r, r.pc)
BY DEF Thread, Gone, WithPc, WithFile, WithList, EnterList, WithLength, WithArgs,
       Filled, Dropped, Stepped

\* What a thread that is at a place is not: the holder of the lock, or ended.
LEMMA Places ==
  ASSUME WellFormed, NEW t \in DOMAIN thread
  PROVE  /\ thread[t] \in Thread
         /\ thread[t].pc \in AddPC \cup DebPC \cup {"idle"} /\ thread[t].kind # "rpm" =>
              ~Ended(thread[t]) /\ ~Holder(thread[t])
         /\ thread[t].pc \in AddPC => thread[t].kind # "rpm"
         /\ thread[t].kind = "rpm" /\ thread[t].pc # "done" => Holder(thread[t])
BY StepperTypes DEF Holder, Ended, AddPC, DebPC, EndPC, RpmPC, MainPC, ThreadOK

\* To read rpm_list, walk the list and link a node.
LEMMA AppendLock ==
  ASSUME WellFormed, NEW t \in DOMAIN thread, AppendRead(t) \/ AppendFind(t) \/ AppendLink(t)
  PROVE  Apart(t)
<1> DEFINE old == thread[t]
<1>1. /\ old \in Thread /\ old.pc \in AddPC /\ old.kind # "rpm" /\ ~Ended(old)
      /\ task_locked' = task_locked
  BY Places DEF AppendRead, AppendFind, AppendLink, At, AddPC, daemonState
<1>2. ASSUME NEW pc \in AddPC, NEW r, Becomes(t, r), Gone(r, old, pc)
      PROVE  Apart(t)
  BY <1>1, <1>2, GoesOn DEF Gone, Holder, AddPC
<1>3. \/ thread' = thread
      \/ Becomes(t, WithList(old, "find", rpm_list))
      \/ Becomes(t, WithList(old, "store", Len(heap) + 1))
      \/ Becomes(t, WithLength(old, "link", Len(heap[old.list].items)))
      \/ Becomes(t, WithLength(old, "store", 0))
  BY Zenon DEF AppendRead, AppendFind, AppendLink, WithList, WithLength
<1>4. {"find", "link", "store"} \subseteq AddPC
  BY DEF AddPC
<1> HIDE DEF old
<1> QED BY <1>1, <1>2, <1>3, <1>4, KindStays, NobodyMoves

\* To convert, up to the append or to a failure.
LEMMA DebLock ==
  ASSUME WellFormed, NEW t \in DOMAIN thread, DebConvert(t)
  PROVE  Apart(t)
<1> DEFINE old == thread[t]  places == DebPC \cup {"unlock", "read"}
<1>1. /\ old \in Thread /\ old.pc \in DebPC /\ old.kind = "deb" /\ ~Ended(old)
      /\ task_locked' = task_locked
  <2>1. old.pc \in DebPC /\ (old.pc = "enter" => old.kind = "deb")
    BY DEF DebConvert, DebEnter, DebGivesUp, DebReports, At, DebPC
  <2> QED
    BY <2>1, StepperTypes DEF DebConvert, DebEnter, DebGivesUp, DebReports, daemonState, Ended,
           DebPC, EndPC, RpmPC, MainPC, AddPC, ThreadOK
<1>2. ASSUME NEW pc \in places, NEW r, Becomes(t, r), Gone(r, old, pc)
      PROVE  Apart(t)
  BY <1>1, <1>2, GoesOn DEF Gone, Holder, DebPC
<1>3. \/ Becomes(t, WithFile(old, "extract", deb))
      \/ \E pc \in places : Becomes(t, WithPc(old, pc))
  <2>1. CASE DebEnter(t)
    BY <2>1, Zenon DEF DebEnter, WithFile
  <2>2. CASE ~DebEnter(t)
    <3>1. \E pc \in places : Go(t, pc)
      BY <2>2 DEF DebConvert, DebGivesUp, DebReports, DebPC
    <3> QED BY <3>1, Zenon DEF Go, WithPc
  <2> QED BY <2>1, <2>2
<1>4. "extract" \in places
  BY DEF DebPC
<1> HIDE DEF old, places
<1> QED BY <1>1, <1>2, <1>3, <1>4, KindStays

\* To install: the routine holds the lock in all it does.
LEMMA RpmLock ==
  ASSUME WellFormed, NEW t \in DOMAIN thread, RpmInstall(t)
  PROVE  Apart(t)
<1> DEFINE old == thread[t]
<1>1. /\ old.kind = "rpm" /\ old.pc \in RpmPC
      /\ task_locked' = task_locked
  <2>1. old.pc \in RpmPC /\ (old.pc = "enter" => old.kind = "rpm")
    BY DEF RpmInstall, RpmEnter, RpmCount, RpmFill, RpmTransaction, RpmProgress, RpmFreeItems,
           RpmFreeList, RpmReset, RpmFinish, At, RpmPC
  <2>2. old.kind = "rpm"
    BY <2>1, StepperTypes DEF DebPC, EndPC, RpmPC, MainPC, AddPC, ThreadOK
  <2>3. task_locked' = task_locked
    BY DEF RpmInstall, RpmEnter, RpmCount, RpmFill, RpmTransaction, RpmProgress, RpmFreeItems,
           RpmFreeList, RpmReset, RpmFinish, daemonState
  <2> QED BY <2>1, <2>2, <2>3
<1>2. Holder(old) /\ ~Ended(old)
  BY <1>1 DEF Holder, Ended, RpmPC
<1>3. thread' = thread \/ \E r : Becomes(t, r)
  BY Zenon DEF RpmInstall, RpmEnter, RpmCount, RpmFill, RpmTransaction, RpmProgress, RpmFreeItems,
         RpmFreeList, RpmReset, RpmFinish, Go
<1> HIDE DEF old
<1>4. ASSUME NEW r, Becomes(t, r) PROVE Apart(t)
  BY <1>1, <1>2, <1>4, GoesOn DEF old
<1> QED BY <1>1, <1>3, <1>4, NobodyMoves

\* An install that ends was the only holder; a conversion that ends has cleared
\* a lock that may be another's, and the invariant no longer speaks of it.
LEMMA UnlockLock ==
  ASSUME WellFormed, LockInv, NEW t \in DOMAIN thread, Unlock(t)
  PROVE  LockInv'
<1> DEFINE r == Dropped(thread[t], "done", 0, 0)
<1>1. thread[t] \in Thread /\ thread[t].pc = "unlock" /\ thread[t].kind \in {"deb", "rpm"}
  BY StepperTypes DEF Unlock, At, ThreadOK, MainPC, AddPC
<1>2. Gone(r, thread[t], "done") /\ Becomes(t, r)
  BY <1>1, KindStays, Zenon DEF Unlock, Dropped
<1> HIDE DEF r
<1>3. /\ DOMAIN thread' = DOMAIN thread
      /\ \A u \in DOMAIN thread : thread'[u] = IF u = t THEN r ELSE thread[u]
  BY <1>2 DEF WellFormed, TypeOK, Becomes
<1>4. CASE thread[t].kind = "deb"
  BY <1>2, <1>3, <1>4 DEF LockInv, Gone, Ended, EndPC
<1>5. CASE thread[t].kind = "rpm"
  <2>1. Holder(thread[t]) /\ ~Holder(r) /\ ~Ended(thread[t])
    BY <1>1, <1>2, <1>5 DEF Holder, Gone, Ended
  <2> QED BY <1>3, <2>1 DEF LockInv
<1> QED BY <1>1, <1>4, <1>5

\* A thread that starts another may hand the lock down to it, or end.
LEMMA SpawnLock ==
  ASSUME WellFormed, LockInv, NEW t \in DOMAIN thread, NEW pc \in PCs, NEW new \in Thread,
         Spawn(t, pc, new), task_locked' = task_locked,
         LET moved == WithPc(thread[t], pc) IN
           \/ Ended(moved)
           \/ /\ ~Holder(moved) /\ ~Ended(thread[t])
              /\ Holder(new) => Holder(thread[t])
  PROVE  LockInv'
<1> DEFINE moved == WithPc(thread[t], pc)
<1>1. /\ DOMAIN thread' = DOMAIN thread \cup {Len(thread) + 1}
      /\ Len(thread) + 1 \notin DOMAIN thread
      /\ \A u \in DOMAIN thread : thread'[u] = IF u = t THEN moved ELSE thread[u]
      /\ thread'[Len(thread) + 1] = new
  BY SpawnThread DEF WellFormed, TypeOK, WithPc
<1> HIDE DEF moved
<1>2. CASE Ended(moved)
  BY <1>1, <1>2 DEF LockInv
<1>3. CASE ~Holder(moved) /\ ~Ended(thread[t]) /\ (Holder(new) => Holder(thread[t]))
  BY <1>1, <1>3 DEF LockInv
<1> QED BY <1>2, <1>3 DEF moved

\* A conversion that has queued its rpm starts an install whoever has the lock.
LEMMA StoreLock ==
  ASSUME WellFormed, LockInv, NEW t \in DOMAIN thread, AppendStore(t)
  PROVE  LockInv'
<1>1. thread[t] \in Thread /\ thread[t].pc = "store" /\ task_locked' = task_locked
      /\ ~Ended(thread[t])
  BY Places DEF AppendStore, At, Ended, EndPC
<1>2. CASE thread[t].kind = "deb"
  <2>1. Spawn(t, "unlock", NewThread("rpm", "enter")) /\ "unlock" \in PCs
        /\ NewThread("rpm", "enter") \in Thread
    BY <1>2, EmptySeq DEF AppendStore, PCs, EndPC, NewThread, Thread, RpmPC
  <2>2. Gone(WithPc(thread[t], "unlock"), thread[t], "unlock")
    BY <1>1, KindStays
  <2>3. Ended(WithPc(thread[t], "unlock"))
    BY <1>2, <2>2 DEF Gone, Ended, EndPC
  <2> QED BY <1>1, <2>1, <2>3, SpawnLock
<1>3. CASE thread[t].kind # "deb"
  <2>1. Becomes(t, NewThread("main", "idle")) /\ ~Holder(NewThread("main", "idle"))
    BY <1>3 DEF AppendStore, NewThread, Holder
  <2> QED BY <1>1, <2>1, GoesOn, ApartKeeps
<1> QED BY <1>2, <1>3

\* Install hands the lock to the routine it starts; if there is nothing to
\* install nobody has it any more.
LEMMA StartLock ==
  ASSUME WellFormed, LockInv, StartInstall
  PROVE  LockInv'
<1>1. /\ Main \in DOMAIN thread /\ thread[Main] \in Thread /\ thread[Main].kind = "main"
      /\ thread[Main].pc = "length" /\ task_locked' = task_locked
  <2>1. Main \in DOMAIN thread
    BY EmptySeq, LenProperties DEF WellFormed, TypeOK, Main
  <2> QED BY <2>1, StepperTypes DEF StartInstall, At, daemonState
<1>2. Holder(thread[Main]) /\ ~Ended(thread[Main])
  BY <1>1 DEF Holder, Ended
<1>3. Gone(WithPc(thread[Main], "idle"), thread[Main], "idle")
  BY <1>1, KindStays
<1>4. ~Holder(WithPc(thread[Main], "idle"))
  BY <1>1, <1>3 DEF Gone, Holder
<1>5. CASE Go(Main, "idle")
  <2>1. Becomes(Main, WithPc(thread[Main], "idle"))
    BY <1>5, Zenon DEF Go, WithPc
  <2> QED BY <1>1, <1>2, <1>4, <2>1, GoesOn, ApartKeeps
<1>6. CASE Spawn(Main, "idle", NewThread("rpm", "enter"))
  <2>1. "idle" \in PCs /\ NewThread("rpm", "enter") \in Thread
    BY EmptySeq DEF PCs, MainPC, NewThread, Thread, RpmPC
  <2> QED BY <1>1, <1>2, <1>4, <1>6, <2>1, SpawnLock
<1>7. CASE thread' = thread
  BY <1>1, <1>7, NobodyMoves, ApartKeeps
<1> QED BY <1>5, <1>6, <1>7 DEF StartInstall

\* A call takes the lock only when it finds it free, that is when nobody has it.
LEMMA CallLock ==
  ASSUME WellFormed, LockInv, Call
  PROVE  LockInv'
<1>1. /\ Main \in DOMAIN thread /\ thread[Main] \in Thread /\ thread[Main].kind = "main"
      /\ thread[Main].pc = "idle"
  <2>1. Main \in DOMAIN thread
    BY EmptySeq, LenProperties DEF WellFormed, TypeOK, Main
  <2> QED BY <2>1, StepperTypes DEF Call, AddInstall, AddRpm, AddSrcRpm, AddDeb, RefuseDeb, IgnoreFile,
                  Install, RefuseInstall, AcceptInstall, Dispatch, At
<1>2. ~Holder(thread[Main]) /\ ~Ended(thread[Main])
  BY <1>1 DEF Holder, Ended
<1>3. ASSUME NEW f \in File, AddRpm(f) \/ AddSrcRpm(f) PROVE LockInv'
  <2>1. Becomes(Main, WithFile(thread[Main], "read", f)) /\ task_locked' = task_locked
    BY <1>3, Zenon DEF AddRpm, AddSrcRpm, StartAdd, WithFile, daemonState
  <2>2. Gone(WithFile(thread[Main], "read", f), thread[Main], "read")
    BY <1>1, KindStays
  <2>3. ~Holder(WithFile(thread[Main], "read", f))
    BY <1>1, <2>2 DEF Gone, Holder
  <2> QED BY <1>1, <1>2, <2>1, <2>3, GoesOn, ApartKeeps
<1>4. ASSUME NEW f \in File, AddDeb(f) PROVE LockInv'
  <2>1. Spawn(Main, "idle", NewThread("deb", "enter")) /\ task_locked' = task_locked
    BY <1>4 DEF AddDeb
  <2>2. "idle" \in PCs /\ NewThread("deb", "enter") \in Thread /\ ~Holder(NewThread("deb", "enter"))
    BY EmptySeq DEF PCs, MainPC, NewThread, Thread, DebPC, Holder
  <2>3. Gone(WithPc(thread[Main], "idle"), thread[Main], "idle")
    BY <1>1, KindStays
  <2>4. ~Holder(WithPc(thread[Main], "idle"))
    BY <1>1, <2>3 DEF Gone, Holder
  <2> QED BY <1>1, <1>2, <2>1, <2>2, <2>4, SpawnLock
<1>5. ASSUME thread' = thread, task_locked' = task_locked PROVE LockInv'
  BY <1>1, <1>5, NobodyMoves, ApartKeeps
<1>6. CASE AcceptInstall
  <2> DEFINE r == WithPc(thread[Main], "length")
  <2>1. Becomes(Main, r) /\ ~task_locked /\ task_locked'
    BY <1>6, Zenon DEF AcceptInstall, Go, WithPc
  <2>2. Gone(r, thread[Main], "length")
    BY <1>1, KindStays
  <2>3. ~Ended(r)
    BY <1>1, <2>2 DEF Gone, Ended
  <2> HIDE DEF r
  <2>4. /\ DOMAIN thread' = DOMAIN thread
        /\ \A u \in DOMAIN thread : thread'[u] = IF u = Main THEN r ELSE thread[u]
    BY <2>1 DEF WellFormed, TypeOK, Becomes
  <2> QED BY <1>2, <2>1, <2>3, <2>4 DEF LockInv
<1> QED
  BY <1>3, <1>4, <1>5, <1>6 DEF Call, AddInstall, RefuseDeb, IgnoreFile, Install, RefuseInstall, daemonState

\* Every step keeps the lock with one holder.
LEMMA NextLock ==
  ASSUME WellFormed, LockInv, [Next]_vars
  PROVE  LockInv'
<1>1. CASE UNCHANGED vars
  BY <1>1 DEF vars, LockInv
<1>2. CASE Call
  BY <1>2, CallLock
<1>3. CASE Progress
  <2>1. Main \in DOMAIN thread
    BY EmptySeq, LenProperties DEF WellFormed, TypeOK, Main
  <2>2. CASE MainStep
    BY <2>1, <2>2, StartLock, AppendLock, StoreLock, ApartKeeps DEF MainStep
  <2>3. ASSUME NEW t \in Workers, Worker(t) PROVE LockInv'
    BY <2>3, AppendLock, StoreLock, DebLock, RpmLock, UnlockLock, ApartKeeps DEF Worker, Workers
  <2> QED BY <1>3, <2>2, <2>3 DEF Progress
<1> QED BY <1>1, <1>2, <1>3 DEF Next, Rest

\* So it has throughout.
LEMMA LockInvariant == Spec => [](WellFormed /\ LockInv)
<1>1. Init => WellFormed /\ LockInv
  <2> SUFFICES ASSUME Init PROVE LockInv
    BY InitWellFormed
  <2>1. thread = <<NewThread("main", "idle")>> /\ ~Holder(NewThread("main", "idle"))
    BY DEF Init, NewThread, Holder
  <2> QED BY <2>1 DEF LockInv
<1>2. WellFormed /\ LockInv /\ [Next]_vars => (WellFormed /\ LockInv)'
  BY NextWellFormed, NextLock
<1> QED BY <1>1, <1>2, PTL DEF Spec

\* Two install routines never run side by side before a conversion has ended:
\* what daemon_install checks, and the places where the lock is set and
\* cleared, are enough for that, with any number of conversions under way.
THEOREM LockKeepsInstallsApart == Spec => []LockExcludesInstalls
<1>1. WellFormed /\ LockInv => LockExcludesInstalls
  <2> SUFFICES ASSUME WellFormed, LockInv,
                      \A t \in Workers : thread[t].kind = "deb" => thread[t].pc \notin EndPC
               PROVE  Cardinality(RpmRoutines) <= 1
    BY DEF LockExcludesInstalls
  <2>1. \A t \in DOMAIN thread : ~Ended(thread[t])
    BY DEF Ended, Workers, WellFormed
  <2>2. \A t, u \in RpmRoutines : t = u
    BY <2>1 DEF LockInv, RpmRoutines, Workers, Holder
  <2>3. CASE RpmRoutines = {}
    BY <2>3, FS_EmptySet
  <2>4. CASE RpmRoutines # {}
    <3>1. PICK t \in RpmRoutines : RpmRoutines = {t}
      BY <2>2, <2>4
    <3> QED BY <3>1, FS_Singleton
  <2> QED BY <2>3, <2>4
<1> QED BY <1>1, LockInvariant, PTL

-----------------------------------------------------------------------------
(* The package list is only damaged when two threads use it at the same    *)
(* time: MemoryInv is inductive relative to WellFormed.                    *)
(*                                                                         *)
(* While no two threads overlap, the one that uses the list (if any) is    *)
(* the only one that changes it, so what it knows of it (Knows) survives   *)
(* the steps of all the others, and a thread that starts to use the list   *)
(* finds it whole because nobody was using it before.                      *)

\* A step of thread t keeps MemoryInv when t leaves the list alone unless it
\* uses it, still knows the list if it still uses it, and leaves a whole list
\* to whoever comes next.  fresh are the threads the step starts.
LEMMA MemoryStep ==
  ASSUME WellFormed, MemoryInv, ~overlapped, ~Overlap', fault' = "none",
         NEW t \in DOMAIN thread, DOMAIN thread \subseteq DOMAIN thread',
         \A u \in DOMAIN thread : u # t => thread'[u] = thread[u],
         UsesList(thread[t]) \/ (heap' = heap /\ rpm_list' = rpm_list),
         (~UsesList(thread[t]) => Whole(rpm_list, heap)) /\ UsesList(thread'[t])
           => Knows(thread'[t], rpm_list', heap'),
         \A u \in DOMAIN thread' \ DOMAIN thread :
           UsesList(thread'[u]) => Knows(thread'[u], rpm_list', heap'),
         \/ ~UsesList(thread[t])
         \/ UsesList(thread'[t])
         \/ Whole(rpm_list', heap')
  PROVE  MemoryInv'
<1>1. /\ ~Overlap
      /\ (\A u \in DOMAIN thread : ~UsesList(thread[u])) => Whole(rpm_list, heap)
      /\ \A u \in DOMAIN thread :
           UsesList(thread[u]) => Knows(thread[u], rpm_list, heap)
  BY DEF MemoryInv, ListUser
<1>2. \A u, v \in DOMAIN thread : u # v => ~(UsesList(thread[u]) /\ UsesList(thread[v]))
  BY <1>1 DEF Overlap, ListUser
<1>3. \A u, v \in DOMAIN thread' :
        u # v => ~(UsesList(thread'[u]) /\ UsesList(thread'[v]))
  BY DEF Overlap, ListUser
\* a thread that joins finds nobody there
<1>4. ASSUME ~UsesList(thread[t]),
             \A u \in DOMAIN thread : u # t => ~UsesList(thread'[u])
      PROVE  Whole(rpm_list, heap)
  BY <1>1, <1>4
<1>5. ASSUME NEW u \in DOMAIN thread', UsesList(thread'[u])
      PROVE  Knows(thread'[u], rpm_list', heap')
  <2>1. CASE u = t
    <3>1. \A v \in DOMAIN thread : v # t => ~UsesList(thread'[v])
      BY <1>3, <1>5, <2>1
    <3>2. ~UsesList(thread[t]) => Whole(rpm_list, heap)
      BY <1>4, <3>1
    <3>3. QED
      BY <1>5, <2>1, <3>2
  <2>2. CASE u \in DOMAIN thread /\ u # t
    <3>1. thread'[u] = thread[u] /\ UsesList(thread[u])
      BY <1>5, <2>2
    <3>2. ~UsesList(thread[t])
      BY <1>2, <2>2, <3>1
    <3>3. heap' = heap /\ rpm_list' = rpm_list
      BY <3>2
    <3>4. QED
      BY <1>1, <2>2, <3>1, <3>3
  <2>3. CASE u \notin DOMAIN thread
    BY <1>5, <2>3
  <2>4. QED
    BY <2>1, <2>2, <2>3
<1>6. ASSUME \A u \in DOMAIN thread' : ~UsesList(thread'[u])
      PROVE  Whole(rpm_list', heap')
  <2>1. CASE UsesList(thread[t])
    BY <1>6, <2>1
  <2>2. CASE ~UsesList(thread[t])
    <3>1. Whole(rpm_list, heap)
      BY <1>4, <1>6, <2>2
    <3>2. QED
      BY <2>2, <3>1
  <2>3. QED
    BY <2>1, <2>2
<1>7. QED
  BY <1>5, <1>6 DEF MemoryInv, ListUser, Whole

\* The same for a step that turns thread[t] into r and starts no thread.
LEMMA BecomesMemory ==
  ASSUME WellFormed, MemoryInv, ~overlapped, ~Overlap', fault' = "none",
         NEW t \in DOMAIN thread, NEW r \in Thread, Becomes(t, r),
         UsesList(thread[t]) \/ (heap' = heap /\ rpm_list' = rpm_list),
         (~UsesList(thread[t]) => Whole(rpm_list, heap)) /\ UsesList(r)
           => Knows(r, rpm_list', heap'),
         ~UsesList(thread[t]) \/ UsesList(r) \/ Whole(rpm_list', heap')
  PROVE  MemoryInv'
<1>1. /\ DOMAIN thread' = DOMAIN thread
      /\ \A u \in DOMAIN thread : thread'[u] = IF u = t THEN r ELSE thread[u]
  BY BecomesThread DEF WellFormed, TypeOK
<1>2. thread'[t] = r /\ \A u \in DOMAIN thread : u # t => thread'[u] = thread[u]
  BY <1>1
<1>3. QED
  BY <1>1, <1>2, MemoryStep

\* And for one that starts a thread.
LEMMA SpawnMemory ==
  ASSUME WellFormed, MemoryInv, ~overlapped, ~Overlap', fault' = "none",
         NEW t \in DOMAIN thread, NEW pc \in PCs, NEW new \in Thread,
         Spawn(t, pc, new), heap' = heap,
         UsesList(thread[t]) \/ rpm_list' = rpm_list,
         ~UsesList(WithPc(thread[t], pc)),
         ~UsesList(thread[t]) \/ Whole(rpm_list', heap'),
         UsesList(new) => Knows(new, rpm_list', heap')
  PROVE  MemoryInv'
<1>1. /\ DOMAIN thread' = DOMAIN thread \cup {Len(thread) + 1}
      /\ Len(thread) + 1 \notin DOMAIN thread
      /\ \A u \in DOMAIN thread :
           thread'[u] = IF u = t THEN WithPc(thread[t], pc) ELSE thread[u]
      /\ thread'[Len(thread) + 1] = new
  BY SpawnThread DEF WellFormed, TypeOK, WithPc
<1>2. /\ thread'[t] = WithPc(thread[t], pc)
      /\ \A u \in DOMAIN thread : u # t => thread'[u] = thread[u]
      /\ \A u \in DOMAIN thread' \ DOMAIN thread : thread'[u] = new
      /\ DOMAIN thread \subseteq DOMAIN thread'
  BY <1>1
<1>3. QED
  BY <1>2, MemoryStep

\* And for one that moves a thread that does not use the list, before or after.
LEMMA AloofMemory ==
  ASSUME WellFormed, MemoryInv, ~overlapped, ~Overlap', fault' = "none",
         NEW t \in DOMAIN thread, NEW r \in Thread, Becomes(t, r),
         heap' = heap, rpm_list' = rpm_list, ~UsesList(r), ~UsesList(thread[t])
  PROVE  MemoryInv'
BY BecomesMemory

-----------------------------------------------------------------------------
(* Every action of the daemon. *)

\* What MemoryInv gives while no threads have overlapped.
LEMMA StepperKnows ==
  ASSUME WellFormed, MemoryInv, ~overlapped, NEW t \in DOMAIN thread
  PROVE  /\ fault = "none"
         /\ UsesList(thread[t]) => Knows(thread[t], rpm_list, heap)
BY DEF MemoryInv, ListUser

\* Nothing is allocated at the start.
LEMMA InitMemory == Init => MemoryInv
<1> SUFFICES ASSUME Init PROVE MemoryInv
  OBVIOUS
<1>1. DOMAIN thread = {1} /\ thread[1].kind = "main" /\ thread[1].pc = "idle"
  BY DEF Init, NewThread
<1>2. ~UsesList(thread[1])
  BY <1>1 DEF UsesList, AddPC
<1>3. QED
  BY <1>1, <1>2 DEF Init, MemoryInv, Overlap, ListUser, Whole

\* A call from the bus leaves the list to whoever has it.
LEMMA CallMemory ==
  ASSUME WellFormed, MemoryInv, ~overlapped, ~Overlap', Call
  PROVE  MemoryInv'
<1> USE DEF At, Dispatch, daemonState
<1>1. Main \in DOMAIN thread
  BY EmptySeq, LenProperties DEF WellFormed, TypeOK, Main
<1>2. thread[Main] \in Thread /\ thread[Main].kind = "main"
  BY <1>1, StepperTypes
<1>3. fault = "none"
  BY <1>1, StepperKnows
<1>4. thread[Main].pc = "idle"
  BY DEF Call, AddInstall, AddRpm, AddSrcRpm, AddDeb, RefuseDeb, IgnoreFile,
         Install, RefuseInstall, AcceptInstall
<1>5. ~UsesList(thread[Main])
  BY <1>2, <1>4 DEF UsesList, AddPC
<1>6. ASSUME NEW f \in File, AddRpm(f) \/ AddSrcRpm(f)
      PROVE  MemoryInv'
  <2> DEFINE r == WithFile(thread[Main], "read", f)
  <2>1. Moved(r, thread[Main], "read")
    BY <1>2, PCTypes, Updates DEF AddPC
  <2>2. Becomes(Main, r) /\ heap' = heap /\ rpm_list' = rpm_list /\ fault' = "none"
    BY <1>3, <1>6 DEF AddRpm, AddSrcRpm, StartAdd, WithFile
  <2> HIDE DEF r
  <2>3. Whole(rpm_list, heap) => Knows(r, rpm_list', heap')
    BY <2>1, <2>2 DEF Moved, Knows
  <2>4. QED
    BY <1>1, <1>5, <2>1, <2>2, <2>3, BecomesMemory DEF Moved
<1>7. ASSUME NEW f \in File, AddDeb(f)
      PROVE  MemoryInv'
  <2> DEFINE new == NewThread("deb", "enter")
  <2>1. /\ Spawn(Main, "idle", new)
        /\ heap' = heap /\ rpm_list' = rpm_list /\ fault' = "none"
    BY <1>3, <1>7 DEF AddDeb
  <2>2. new \in Thread /\ new.kind = "deb" /\ new.pc = "enter"
    BY EmptySeq DEF NewThread, Thread, DebPC
  <2> HIDE DEF new
  <2>3. ~UsesList(new)
    BY <2>2 DEF UsesList, AddPC
  <2>4. "idle" \in PCs
    BY PCTypes DEF MainPC
  <2>5. ~UsesList(WithPc(thread[Main], "idle"))
    BY <1>2, <2>4, Updates DEF Moved, UsesList, AddPC
  <2>6. QED
    BY <1>1, <1>5, <2>1, <2>2, <2>3, <2>4, <2>5, SpawnMemory
<1>8. ASSUME thread' = thread, heap' = heap, rpm_list' = rpm_list, fault' = fault
      PROVE  MemoryInv'
  BY <1>8 DEF MemoryInv, ListUser, Overlap
<1>9. ASSUME NEW f \in File, RefuseDeb(f) \/ IgnoreFile(f)
      PROVE  MemoryInv'
  BY <1>8, <1>9 DEF RefuseDeb, IgnoreFile
<1>10. CASE RefuseInstall
  BY <1>8, <1>10 DEF RefuseInstall
<1>11. CASE AcceptInstall
  <2> DEFINE r == WithPc(thread[Main], "length")
  <2>1. Moved(r, thread[Main], "length")
    BY <1>2, PCTypes, Updates DEF MainPC
  <2>2. Becomes(Main, r) /\ heap' = heap /\ rpm_list' = rpm_list /\ fault' = "none"
    BY <1>3, <1>11 DEF AcceptInstall, Go, WithPc
  <2> HIDE DEF r
  <2>3. Whole(rpm_list, heap) => Knows(r, rpm_list', heap')
    BY <2>1, <2>2 DEF Moved, Knows
  <2>4. QED
    BY <1>1, <1>5, <2>1, <2>2, <2>3, BecomesMemory DEF Moved
<1>12. QED
  BY <1>6, <1>7, <1>9, <1>10, <1>11 DEF Call, AddInstall, Install

\* Install hands the list as it stands to the thread it starts.
LEMMA StartInstallMemory ==
  ASSUME WellFormed, MemoryInv, ~overlapped, ~Overlap', StartInstall
  PROVE  MemoryInv'
<1> USE DEF At, daemonState
<1>1. Main \in DOMAIN thread
  BY EmptySeq, LenProperties DEF WellFormed, TypeOK, Main
<1>2. thread[Main] \in Thread /\ thread[Main].kind = "main"
  BY <1>1, StepperTypes
<1>3. thread[Main].pc = "length"
  BY DEF StartInstall
<1>4. UsesList(thread[Main]) /\ fault = "none" /\ Whole(rpm_list, heap)
  BY <1>1, <1>3, StepperKnows DEF UsesList, Knows
<1>5. ~Freed(rpm_list)
  BY <1>4 DEF Whole, Freed
<1>6. /\ heap' = heap /\ rpm_list' = rpm_list /\ fault' = "none"
      /\ Go(Main, "idle") \/ Spawn(Main, "idle", NewThread("rpm", "enter"))
  BY <1>4, <1>5 DEF StartInstall
<1> DEFINE r == WithPc(thread[Main], "idle")
<1>7. Moved(r, thread[Main], "idle")
  BY <1>2, PCTypes, Updates DEF MainPC
<1>8. ~UsesList(r) /\ "idle" \in PCs
  BY <1>2, <1>7, PCTypes DEF Moved, UsesList, AddPC, MainPC
<1>9. CASE Go(Main, "idle")
  <2>1. Becomes(Main, r)
    BY <1>9, Zenon DEF Go, WithPc
  <2> HIDE DEF r
  <2>2. QED
    BY <1>1, <1>4, <1>6, <1>7, <1>8, <2>1, BecomesMemory DEF Moved
<1>10. CASE Spawn(Main, "idle", NewThread("rpm", "enter"))
  <2> DEFINE new == NewThread("rpm", "enter")
  <2>1. new \in Thread /\ new.pc = "enter"
    BY EmptySeq DEF NewThread, Thread, RpmPC
  <2>2. Spawn(Main, "idle", new)
    BY <1>10
  <2> HIDE DEF new
  <2>3. Knows(new, rpm_list', heap')
    BY <1>4, <1>6, <2>1 DEF Knows
  <2>4. QED
    BY <1>1, <1>4, <1>6, <1>8, <2>1, <2>2, <2>3, SpawnMemory
<1>11. QED
  BY <1>6, <1>9, <1>10

\* The append, whichever thread runs it.
LEMMA AppendMemory ==
  ASSUME WellFormed, MemoryInv, ~overlapped, ~Overlap', NEW t \in DOMAIN thread,
         AppendRead(t) \/ AppendFind(t) \/ AppendLink(t) \/ AppendStore(t)
  PROVE  MemoryInv'
<1> USE DEF At, daemonState
<1> DEFINE l == thread[t].list
<1>1. /\ thread[t] \in Thread /\ l \in 0..Len(heap)
      /\ ThreadOK(thread[t], deb) /\ OthersOK /\ Len(heap) \in Nat
      /\ \A k \in 1..Len(heap) : heap[k] \in ListRecord
      /\ heap \in Seq(ListRecord)
  BY StepperTypes DEF OthersOK
<1>2. thread[t].pc \in AddPC
  BY DEF AppendRead, AppendFind, AppendLink, AppendStore, AddPC
<1>3. UsesList(thread[t]) /\ fault = "none" /\ Knows(thread[t], rpm_list, heap)
  BY <1>2, StepperKnows DEF UsesList
<1>4. CASE AppendRead(t)
  <2> DEFINE r == WithList(thread[t], "find", rpm_list)
  <2>1. /\ thread[t].pc = "read" /\ Becomes(t, r)
        /\ heap' = heap /\ rpm_list' = rpm_list /\ fault' = "none"
    BY <1>3, <1>4, Zenon DEF AppendRead, WithList
  <2>2. Moved(r, thread[t], "find") /\ r.list = rpm_list
    BY <1>1, PCTypes, Updates DEF AddPC, OthersOK
  <2>3. Whole(rpm_list, heap)
    BY <1>3, <2>1 DEF Knows
  <2> HIDE DEF r
  <2>4. Knows(r, rpm_list', heap') /\ UsesList(r)
    BY <2>1, <2>2, <2>3 DEF Moved, Knows, UsesList, AddPC
  <2>5. QED
    BY <1>3, <2>1, <2>2, <2>4, BecomesMemory DEF Moved
<1>5. CASE AppendFind(t)
  <2>1. thread[t].pc = "find"
    BY <1>5, Zenon DEF AppendFind
  <2>2. l = rpm_list /\ Whole(rpm_list, heap)
    BY <1>3, <2>1 DEF Knows
  <2>3. ~Freed(l) /\ rpm_list' = rpm_list
    BY <1>5, <2>2 DEF AppendFind, Freed, Whole
  <2>4. CASE l = 0
    <3> DEFINE x == [items |-> <<Appended(t)>>, state |-> "live"]
               r == WithList(thread[t], "store", Len(heap) + 1)
    <3>1. ~Intact(l)
      BY <2>4 DEF Intact
    <3>2. heap' = Append(heap, x) /\ Becomes(t, r) /\ fault' = fault
      BY <1>5, <2>3, <3>1, Zenon DEF AppendFind, WithList
    <3>3. heap'[Len(heap) + 1] = x
      BY <1>1, <3>2, AppendProperties
    <3>4. Len(heap) + 1 \in Nat /\ "store" \in PCs /\ Len(heap) + 1 # 0
      BY <1>1, PCTypes DEF AddPC
    <3>5. Moved(r, thread[t], "store") /\ r.list = Len(heap) + 1
      BY <1>1, <3>4, Updates
    <3>6. x.state = "live"
      OBVIOUS
    <3> HIDE DEF r, x
    <3>7. Knows(r, rpm_list', heap') /\ UsesList(r)
      BY <2>2, <2>3, <2>4, <3>3, <3>4, <3>5, <3>6
         DEF Moved, Knows, Live, UsesList, AddPC
    <3>8. QED
      BY <1>3, <3>2, <3>5, <3>7, BecomesMemory DEF Moved
  <2>5. CASE l # 0
    <3> DEFINE r == WithLength(thread[t], "link", Len(heap[l].items))
    <3>1. heap' = heap /\ Becomes(t, r) /\ fault' = fault
      BY <1>5, <2>3, <2>5, Zenon DEF AppendFind, WithLength
    <3>2. l \in 1..Len(heap)
      BY <1>1, <2>5
    <3>3. Len(heap[l].items) \in Nat /\ "link" \in PCs
      BY <1>1, <3>2, LenProperties, PCTypes DEF ListRecord, AddPC
    <3>4. Moved(r, thread[t], "link") /\ r.list = l /\ r.n = Len(heap[l].items)
      BY <1>1, <3>3, Updates
    <3> HIDE DEF r
    <3>5. Knows(r, rpm_list', heap') /\ UsesList(r)
      BY <2>2, <2>3, <2>5, <3>1, <3>4
         DEF Moved, Knows, Live, Whole, UsesList, AddPC
    <3>6. QED
      BY <1>3, <3>1, <3>4, <3>5, BecomesMemory DEF Moved
  <2>6. QED
    BY <2>4, <2>5
<1>6. CASE AppendLink(t)
  <2> DEFINE r == WithLength(thread[t], "store", 0)
             x == [heap[l] EXCEPT !.items = Append(@, Appended(t))]
  <2>1. thread[t].pc = "link"
    BY <1>6, Zenon DEF AppendLink
  <2>2. l = rpm_list /\ Live(l, heap) /\ Len(heap[l].items) = thread[t].n
    BY <1>3, <2>1 DEF Knows
  <2>3. ~Freed(l) /\ rpm_list' = rpm_list
    BY <1>6, <2>2 DEF AppendLink, Freed, Live
  <2>4. heap' = [heap EXCEPT ![l] = x] /\ Becomes(t, r) /\ fault' = fault
    <3>1. heap' = [heap EXCEPT ![l] = x] /\ fault' = fault
      BY <1>6, <2>2, <2>3 DEF AppendLink
    <3>2. Becomes(t, r)
      BY <1>6, <2>2, <2>3, Zenon DEF AppendLink, WithLength
    <3>3. QED
      BY <3>1, <3>2
  <2>5. l \in 1..Len(heap) /\ "store" \in PCs
    BY <1>1, <2>2, PCTypes DEF Live, AddPC
  <2>6. x.state = heap[l].state
    BY <1>1, <2>5 DEF ListRecord
  <2> HIDE DEF x
  <2>7. heap'[l] = x
    BY <1>1, <2>4, <2>5
  <2>8. Moved(r, thread[t], "store") /\ r.list = l
    BY <1>1, <2>5, Updates
  <2> HIDE DEF r
  <2>9. Knows(r, rpm_list', heap') /\ UsesList(r)
    BY <2>2, <2>3, <2>6, <2>7, <2>8 DEF Moved, Knows, Live, UsesList, AddPC
  <2>10. QED
    BY <1>3, <2>4, <2>8, <2>9, BecomesMemory DEF Moved
<1>7. CASE AppendStore(t)
  <2>1. thread[t].pc = "store" /\ rpm_list' = l /\ heap' = heap /\ fault' = "none"
    BY <1>3, <1>7 DEF AppendStore
  <2>2. Whole(rpm_list', heap')
    BY <1>3, <2>1 DEF Knows, Live, Whole
  <2>3. CASE thread[t].kind = "deb"
    <3> DEFINE new == NewThread("rpm", "enter")
    <3>1. Spawn(t, "unlock", new)
      BY <1>7, <2>3 DEF AppendStore
    <3>2. new \in Thread /\ new.pc = "enter" /\ "unlock" \in PCs
      BY EmptySeq, PCTypes DEF NewThread, Thread, RpmPC, EndPC
    <3>3. ~UsesList(WithPc(thread[t], "unlock"))
      BY <1>1, <2>3, <3>2, Updates DEF Moved, UsesList, AddPC
    <3> HIDE DEF new
    <3>4. Knows(new, rpm_list', heap')
      BY <2>2, <3>2 DEF Knows
    <3>5. QED
      BY <1>3, <2>1, <2>2, <3>1, <3>2, <3>3, <3>4, SpawnMemory
  <2>4. CASE thread[t].kind # "deb"
    <3> DEFINE r == NewThread("main", "idle")
    <3>1. Becomes(t, r)
      BY <1>7, <2>4 DEF AppendStore
    <3>2. r \in Thread /\ ~UsesList(r)
      BY EmptySeq DEF NewThread, Thread, MainPC, UsesList, AddPC
    <3> HIDE DEF r
    <3>3. QED
      BY <1>3, <2>1, <2>2, <3>1, <3>2, BecomesMemory
  <2>5. QED
    BY <2>3, <2>4
<1>8. QED
  BY <1>4, <1>5, <1>6, <1>7

\* An install frees the strings, the list and the pointer in turn.
LEMMA RpmFreeMemory ==
  ASSUME WellFormed, MemoryInv, ~overlapped, ~Overlap', NEW t \in DOMAIN thread,
         RpmFreeItems(t) \/ RpmFreeList(t) \/ RpmReset(t)
  PROVE  MemoryInv'
<1> USE DEF At, daemonState
<1>1. /\ thread[t] \in Thread /\ ThreadOK(thread[t], deb) /\ OthersOK
      /\ \A k \in 1..Len(heap) : heap[k] \in ListRecord
      /\ heap \in Seq(ListRecord)
  BY StepperTypes DEF OthersOK
<1>2. thread[t].pc \in {"free_items", "free_list", "reset"} /\ thread[t].kind = "rpm"
  BY <1>1 DEF RpmFreeItems, RpmFreeList, RpmReset, ThreadOK, MainPC, AddPC,
              DebPC, EndPC
<1>3. UsesList(thread[t]) /\ fault = "none" /\ Knows(thread[t], rpm_list, heap)
  BY <1>2, StepperKnows DEF UsesList, RpmPC
<1>4. ASSUME NEW pc \in {"free_list", "reset", "finish"}, Go(t, pc), fault' = fault,
             pc = "free_list" => Whole(rpm_list', heap')
                                 \/ heap'[rpm_list'].state = "emptied",
             pc = "finish" => Whole(rpm_list', heap')
      PROVE  MemoryInv'
  <2> DEFINE r == WithPc(thread[t], pc)
  <2>1. Moved(r, thread[t], pc)
    BY <1>1, PCTypes, Updates DEF RpmPC
  <2>2. Becomes(t, r)
    BY <1>4, Zenon DEF Go, WithPc
  <2> HIDE DEF r
  <2>3. Knows(r, rpm_list', heap')
    BY <1>4, <2>1 DEF Moved, Knows
  <2>4. UsesList(r) \/ Whole(rpm_list', heap')
    BY <1>2, <1>4, <2>1 DEF Moved, UsesList, RpmPC
  <2>5. QED
    BY <1>3, <1>4, <2>1, <2>2, <2>3, <2>4, BecomesMemory DEF Moved
<1>5. CASE RpmFreeItems(t)
  <2>1. thread[t].pc = "free_items" /\ rpm_list' = rpm_list
    BY <1>5, Zenon DEF RpmFreeItems
  <2>2. Whole(rpm_list, heap)
    BY <1>3, <2>1 DEF Knows
  <2>3. Go(t, "free_list") /\ fault' = fault
    BY <1>5, <2>2, Zenon DEF RpmFreeItems, Whole
  <2>4. CASE rpm_list = 0
    BY <1>4, <2>1, <2>3, <2>4 DEF Whole
  <2>5. CASE rpm_list # 0
    <3>1. heap' = [heap EXCEPT ![rpm_list].state = "emptied"]
      BY <1>5, <2>2, <2>5 DEF RpmFreeItems, Whole
    <3>2. rpm_list \in 1..Len(heap)
      BY <1>1, <2>5 DEF OthersOK
    <3>3. heap'[rpm_list].state = "emptied"
      BY <1>1, <3>1, <3>2 DEF ListRecord
    <3>4. QED
      BY <1>4, <2>1, <2>3, <3>3
  <2>6. QED
    BY <2>4, <2>5
<1>6. CASE RpmFreeList(t)
  <2>1. thread[t].pc = "free_list"
    BY <1>6, Zenon DEF RpmFreeList
  <2>2. ~Freed(rpm_list)
    BY <1>3, <2>1 DEF Knows, Whole, Freed
  <2>3. Go(t, "reset") /\ fault' = fault
    BY <1>6, <2>2, Zenon DEF RpmFreeList
  <2>4. QED
    BY <1>4, <2>3
<1>7. CASE RpmReset(t)
  <2>1. Go(t, "finish") /\ fault' = fault /\ rpm_list' = 0
    BY <1>7 DEF RpmReset
  <2>2. QED
    BY <1>4, <2>1 DEF Whole
<1>8. QED
  BY <1>5, <1>6, <1>7

\* A conversion does not use the list before it appends to it.
LEMMA DebMemory ==
  ASSUME WellFormed, MemoryInv, ~overlapped, ~Overlap', NEW t \in DOMAIN thread,
         DebConvert(t)
  PROVE  MemoryInv'
<1> USE DEF At, daemonState
<1>1. thread[t] \in Thread /\ ThreadOK(thread[t], deb) /\ fault = "none"
  BY StepperTypes, StepperKnows
<1>2. /\ thread[t].pc \in DebPC /\ thread[t].kind = "deb"
      /\ heap' = heap /\ rpm_list' = rpm_list /\ fault' = "none"
  BY <1>1 DEF DebConvert, DebEnter, DebGivesUp, DebReports, DebPC, ThreadOK,
              MainPC, AddPC, RpmPC, EndPC
<1>3. ~UsesList(thread[t])
  BY <1>2 DEF UsesList, DebPC, AddPC
<1>4. CASE DebEnter(t)
  <2> DEFINE r == WithFile(thread[t], "extract", deb)
  <2>1. deb \in File /\ "extract" \in PCs
    BY <1>1, <1>2, PCTypes DEF ThreadOK, File, DebPC
  <2>2. Moved(r, thread[t], "extract")
    BY <1>1, <2>1, Updates
  <2>3. Becomes(t, r)
    BY <1>4, Zenon DEF DebEnter, WithFile
  <2> HIDE DEF r
  <2>4. ~UsesList(r)
    BY <1>2, <2>2 DEF Moved, UsesList, AddPC
  <2>5. QED
    BY <1>2, <1>3, <2>2, <2>3, <2>4, AloofMemory DEF Moved
<1>5. ASSUME NEW pc \in DebPC \cup {"unlock", "read"}, Go(t, pc)
      PROVE  MemoryInv'
  <2> DEFINE r == WithPc(thread[t], pc)
  <2>1. pc \in PCs
    BY PCTypes DEF EndPC, AddPC
  <2>2. Moved(r, thread[t], pc)
    BY <1>1, <2>1, Updates
  <2>3. Becomes(t, r)
    BY <1>5, Zenon DEF Go, WithPc
  <2> HIDE DEF r
  <2>4. Whole(rpm_list, heap) /\ UsesList(r) => Knows(r, rpm_list', heap')
    BY <1>2, <2>2 DEF Moved, UsesList, Knows, AddPC, DebPC
  <2>5. QED
    BY <1>2, <1>3, <2>2, <2>3, <2>4, BecomesMemory DEF Moved
<1>6. \/ DebEnter(t)
      \/ \E pc \in DebPC \cup {"unlock", "read"} : Go(t, pc)
  BY DEF DebConvert, DebGivesUp, DebReports, DebPC
<1>7. QED
  BY <1>4, <1>5, <1>6

\* An install reads the list while it is whole and disposes of it only once.
LEMMA RpmMemory ==
  ASSUME WellFormed, MemoryInv, ~overlapped, ~Overlap', NEW t \in DOMAIN thread,
         RpmInstall(t), ~RpmFinish(t)
  PROVE  MemoryInv'
<1> USE DEF At, daemonState
<1> DEFINE l == thread[t].list
<1>1. /\ thread[t] \in Thread /\ l \in 0..Len(heap)
      /\ ThreadOK(thread[t], deb) /\ OthersOK /\ Len(heap) \in Nat
      /\ \A k \in 1..Len(heap) : heap[k] \in ListRecord
      /\ heap \in Seq(ListRecord)
  BY StepperTypes DEF OthersOK
<1>2. thread[t].pc \in RpmPC \ {"finish"} /\ thread[t].kind = "rpm"
  BY <1>1 DEF RpmInstall, RpmEnter, RpmCount, RpmFill, RpmTransaction,
              RpmProgress, RpmFreeItems, RpmFreeList, RpmReset,
              RpmPC, ThreadOK, MainPC, AddPC, DebPC, EndPC
<1>3. UsesList(thread[t]) /\ fault = "none" /\ Knows(thread[t], rpm_list, heap)
  BY <1>2, StepperKnows DEF UsesList
\* the obligations of a step that goes on to pc and knows as much there
<1>4. ASSUME NEW r \in Thread, Becomes(t, r), fault' = "none",
             Knows(r, rpm_list', heap'), UsesList(r) \/ Whole(rpm_list', heap')
      PROVE  MemoryInv'
  BY <1>3, <1>4, BecomesMemory
<1>5. ASSUME NEW pc \in {"free_items", "progress"}, Go(t, pc), fault' = "none",
             heap' = heap, rpm_list' = rpm_list, Whole(rpm_list, heap)
      PROVE  MemoryInv'
  <2> DEFINE r == WithPc(thread[t], pc)
  <2>1. Moved(r, thread[t], pc)
    BY <1>1, PCTypes, Updates DEF RpmPC
  <2>2. Becomes(t, r)
    BY <1>5, Zenon DEF Go, WithPc
  <2> HIDE DEF r
  <2>3. Knows(r, rpm_list', heap') /\ Whole(rpm_list', heap')
    BY <1>5, <2>1 DEF Moved, Knows
  <2>4. QED
    BY <1>4, <1>5, <2>1, <2>2, <2>3 DEF Moved
<1>6. CASE RpmEnter(t)
  <2> DEFINE pc == IF rpm_list = 0 THEN "free_items" ELSE "count"
             r  == EnterList(thread[t], rpm_list, pc)
  <2>1. pc \in PCs /\ rpm_list \in Nat
    BY <1>1, PCTypes DEF OthersOK, RpmPC
  <2>2. Moved(r, thread[t], pc) /\ r.list = rpm_list
    BY <1>1, <2>1, EnterUpdate
  <2>3. Becomes(t, r)
    BY <1>6, Zenon DEF RpmEnter, EnterList
  <2>4. heap' = heap /\ rpm_list' = rpm_list /\ fault' = "none"
        /\ thread[t].pc = "enter"
    BY <1>3, <1>6 DEF RpmEnter
  <2>5. Whole(rpm_list, heap)
    BY <1>3, <2>4 DEF Knows
  <2> HIDE DEF r
  <2>6. Knows(r, rpm_list', heap')
    BY <2>2, <2>4, <2>5 DEF Moved, Knows, Live, Whole
  <2>7. QED
    BY <1>4, <2>2, <2>3, <2>4, <2>5, <2>6 DEF Moved
<1>7. CASE RpmCount(t)
  <2> DEFINE r == WithLength(thread[t], "fill", Len(heap[l].items))
  <2>1. thread[t].pc = "count" /\ heap' = heap /\ rpm_list' = rpm_list
    BY <1>7, Zenon DEF RpmCount
  <2>2. l = rpm_list /\ Live(rpm_list, heap) /\ Whole(rpm_list, heap)
    BY <1>3, <2>1 DEF Knows, Live, Whole
  <2>3. ~Freed(l)
    BY <2>2 DEF Live, Freed
  <2>4. fault' = fault /\ (Becomes(t, r) \/ Go(t, "free_items"))
    BY <1>7, <2>3, Zenon DEF RpmCount, WithLength
  <2>5. CASE Becomes(t, r)
    <3>1. l \in 1..Len(heap)
      BY <1>1, <2>2 DEF Live
    <3>2. Len(heap[l].items) \in Nat /\ "fill" \in PCs
      BY <1>1, <3>1, LenProperties, PCTypes DEF ListRecord, RpmPC
    <3>3. Moved(r, thread[t], "fill") /\ r.list = l /\ r.n = Len(heap[l].items)
      BY <1>1, <3>2, Updates
    <3> HIDE DEF r
    <3>4. Knows(r, rpm_list', heap') /\ Whole(rpm_list', heap')
      BY <2>1, <2>2, <3>3 DEF Moved, Knows
    <3>5. QED
      BY <1>3, <1>4, <2>4, <2>5, <3>3, <3>4 DEF Moved
  <2>6. CASE Go(t, "free_items")
    BY <1>3, <1>5, <2>1, <2>2, <2>4, <2>6
  <2>7. QED
    BY <2>4, <2>5, <2>6
<1>8. CASE RpmFill(t)
  <2> DEFINE r == Filled(thread[t], "transaction", heap[l].items, 0)
  <2>1. thread[t].pc = "fill" /\ heap' = heap /\ rpm_list' = rpm_list
    BY <1>8, Zenon DEF RpmFill
  <2>2. l = rpm_list /\ Live(rpm_list, heap) /\ Whole(rpm_list, heap)
        /\ thread[t].n = Len(heap[l].items)
    BY <1>3, <2>1 DEF Knows, Live, Whole
  <2>3. l \in 1..Len(heap)
    BY <1>1, <2>2 DEF Live
  <2>4. heap[l].items \in Seq(Package) /\ Len(heap[l].items) \in Nat
    BY <1>1, <2>3, LenProperties DEF ListRecord
  <2>5. heap[l].state = "live" /\ ~(Len(heap[l].items) > thread[t].n)
    BY <2>2, <2>4 DEF Live
  <2>6. fault' = fault /\ Becomes(t, r)
    BY <1>8, <2>5, Zenon DEF RpmFill, Filled
  <2>7. Moved(r, thread[t], "transaction")
    BY <1>1, <2>4, PCTypes, Updates DEF RpmPC
  <2> HIDE DEF r
  <2>8. Knows(r, rpm_list', heap') /\ Whole(rpm_list', heap')
    BY <2>1, <2>2, <2>7 DEF Moved, Knows
  <2>9. QED
    BY <1>3, <1>4, <2>6, <2>7, <2>8 DEF Moved
<1>9. CASE RpmTransaction(t)
  <2> DEFINE r == WithArgs(thread[t], "free_items", <<>>)
  <2>1. /\ thread[t].pc = "transaction" /\ heap' = heap /\ rpm_list' = rpm_list
        /\ fault' = "none" /\ (Becomes(t, r) \/ Go(t, "progress"))
    BY <1>3, <1>9, Zenon DEF RpmTransaction, WithArgs
  <2>2. Whole(rpm_list, heap)
    BY <1>3, <2>1 DEF Knows
  <2>3. CASE Becomes(t, r)
    <3>1. <<>> \in Seq(Package) /\ "free_items" \in PCs
      BY EmptySeq, PCTypes DEF RpmPC
    <3>2. \A a \in Seq(Package) :
            Moved(WithArgs(thread[t], "free_items", a), thread[t], "free_items")
      BY <1>1, <3>1, Updates
    <3>3. Moved(r, thread[t], "free_items")
      BY <3>1, <3>2, Zenon
    <3> HIDE DEF r
    <3>4. Knows(r, rpm_list', heap') /\ Whole(rpm_list', heap')
      BY <2>1, <2>2, <3>3 DEF Moved, Knows
    <3>5. QED
      BY <1>4, <2>1, <2>3, <3>3, <3>4 DEF Moved
  <2>4. CASE Go(t, "progress")
    BY <1>5, <2>1, <2>2, <2>4
  <2>5. QED
    BY <2>1, <2>3, <2>4
<1>10. CASE RpmProgress(t)
  <2> DEFINE i == thread[t].n + 1
             r == Stepped(thread[t], i)
  <2>1. /\ thread[t].pc = "progress" /\ heap' = heap /\ rpm_list' = rpm_list
        /\ fault' = "none" /\ (Becomes(t, r) \/ Go(t, "free_items"))
    BY <1>3, <1>10, Zenon DEF RpmProgress, Stepped
  <2>2. Whole(rpm_list, heap)
    BY <1>3, <2>1 DEF Knows
  <2>3. CASE Becomes(t, r)
    <3>1. "progress" \in PCs /\ i \in Nat
      BY <1>1, PCTypes DEF RpmPC, Thread
    <3>2. Moved(r, thread[t], thread[t].pc)
      BY <1>1, <3>1, Updates
    <3> HIDE DEF r
    <3>3. Knows(r, rpm_list', heap') /\ Whole(rpm_list', heap')
      BY <2>1, <2>2, <3>2 DEF Moved, Knows
    <3>4. QED
      BY <1>4, <2>1, <2>3, <3>2, <3>3 DEF Moved
  <2>4. CASE Go(t, "free_items")
    BY <1>5, <2>1, <2>2, <2>4
  <2>5. QED
    BY <2>1, <2>3, <2>4
<1>11. CASE RpmFreeItems(t) \/ RpmFreeList(t) \/ RpmReset(t)
  BY <1>11, RpmFreeMemory
<1>12. QED
  BY <1>6, <1>7, <1>8, <1>9, <1>10, <1>11 DEF RpmInstall

\* After the list is given up nothing is left to touch it.
LEMMA EndMemory ==
  ASSUME WellFormed, MemoryInv, ~overlapped, ~Overlap', NEW t \in DOMAIN thread,
         RpmFinish(t) \/ Unlock(t)
  PROVE  MemoryInv'
<1> USE DEF At, daemonState
<1>1. thread[t] \in Thread /\ fault = "none"
  BY StepperTypes, StepperKnows
<1>2. /\ thread[t].pc \in {"finish", "unlock"}
      /\ heap' = heap /\ rpm_list' = rpm_list /\ fault' = "none"
  BY <1>1 DEF RpmFinish, Unlock
<1>3. ~UsesList(thread[t])
  BY <1>2 DEF UsesList, AddPC, RpmPC
<1>4. CASE RpmFinish(t)
  <2> DEFINE r == WithPc(thread[t], "unlock")
  <2>1. Moved(r, thread[t], "unlock")
    BY <1>1, PCTypes, Updates DEF EndPC
  <2>2. Becomes(t, r)
    BY <1>4, Zenon DEF RpmFinish, Go, WithPc
  <2> HIDE DEF r
  <2>3. ~UsesList(r)
    BY <2>1 DEF Moved, UsesList, AddPC, RpmPC
  <2>4. QED
    BY <1>2, <1>3, <2>1, <2>2, <2>3, AloofMemory DEF Moved
<1>5. CASE Unlock(t)
  <2> DEFINE r == Dropped(thread[t], "done", 0, 0)
  <2>1. Moved(r, thread[t], "done")
    BY <1>1, PCTypes, Updates DEF EndPC
  <2>2. Becomes(t, r)
    BY <1>5, Zenon DEF Unlock, Dropped
  <2> HIDE DEF r
  <2>3. ~UsesList(r)
    BY <2>1 DEF Moved, UsesList, AddPC, RpmPC
  <2>4. QED
    BY <1>2, <1>3, <2>1, <2>2, <2>3, AloofMemory DEF Moved
<1>6. QED
  BY <1>4, <1>5

-----------------------------------------------------------------------------

\* MemoryInv is inductive relative to WellFormed.
LEMMA NextMemory ==
  ASSUME WellFormed, MemoryInv, [Next]_vars
  PROVE  MemoryInv'
<1>1. CASE overlapped'
  BY <1>1 DEF MemoryInv
<1>2. CASE ~overlapped' /\ Call /\ Observe
  BY <1>2, CallMemory DEF Observe
<1>3. CASE ~overlapped' /\ Progress /\ Observe
  <2>1. ~overlapped /\ ~Overlap'
    BY <1>3 DEF Observe
  <2>2. Main \in DOMAIN thread
    BY EmptySeq, LenProperties DEF WellFormed, TypeOK, Main
  <2>3. CASE MainStep
    BY <2>1, <2>2, <2>3, StartInstallMemory, AppendMemory DEF MainStep
  <2>4. ASSUME NEW t \in Workers, Worker(t)
        PROVE  MemoryInv'
    <3>1. t \in DOMAIN thread
      BY DEF Workers
    <3>2. CASE RpmInstall(t)
      BY <2>1, <3>1, <3>2, RpmMemory, EndMemory
    <3>3. QED
      BY <2>1, <2>4, <3>1, <3>2, DebMemory, AppendMemory, EndMemory DEF Worker
  <2>5. QED
    BY <1>3, <2>3, <2>4 DEF Progress
<1>4. CASE UNCHANGED vars
  BY <1>4 DEF vars, MemoryInv, Overlap, ListUser
<1>5. QED
  BY <1>1, <1>2, <1>3, <1>4 DEF Next, Rest

\* The two parts of the inductive invariant hold throughout.
LEMMA MemoryInvariant == Spec => [](WellFormed /\ MemoryInv)
<1>1. Init => WellFormed /\ MemoryInv
  BY InitWellFormed, InitMemory
<1>2. WellFormed /\ MemoryInv /\ [Next]_vars => (WellFormed /\ MemoryInv)'
  BY NextWellFormed, NextMemory
<1>3. QED
  BY <1>1, <1>2, PTL DEF Spec

\* No use after free, no double free, no write past argv and no lost package
\* happens in the daemon unless two threads have used rpm_list at the same time:
\* the order in which AddInstall, the conversions and install_rpm_routine read,
\* append to and free the list is right for every one of them that runs alone.
THEOREM FaultsNeedOverlap == Spec => []FaultNeedsOverlap
<1>1. WellFormed /\ MemoryInv => FaultNeedsOverlap
  BY DEF MemoryInv, FaultNeedsOverlap
<1>2. QED
  BY <1>1, MemoryInvariant, PTL

\* As long as no two threads have overlapped, priv->rpm_list is NULL or a list
\* whose nodes and strings are all there whenever no thread is working on it.
THEOREM ListIsWholeAtRest == Spec => []ListWholeAtRest
<1>1. WellFormed /\ MemoryInv => ListWholeAtRest
  BY DEF MemoryInv, ListWholeAtRest, Whole
<1>2. QED
  BY <1>1, MemoryInvariant, PTL

-----------------------------------------------------------------------------
(* Nothing goes wrong with the list.                                       *)

SerialInv == WellFormed /\ MemoryInv /\ ~overlapped /\ Serial

\* Threads that use the list are busy, so they do not overlap.
LEMMA SerialKept == SerialInv /\ [SerialNext]_vars => SerialInv'
<1> SUFFICES ASSUME SerialInv, [SerialNext]_vars PROVE SerialInv'
  OBVIOUS
<1>1. WellFormed' /\ MemoryInv'
  BY NextWellFormed, NextMemory DEF SerialInv, SerialNext
<1>2. CASE UNCHANGED vars
  BY <1>1, <1>2 DEF SerialInv, vars, Serial, Busy, ListUser
<1>3. CASE SerialNext /\ Observe
  <2>1. ~Overlap'
    BY <1>3 DEF SerialNext, Serial, Busy, Overlap
  <2> QED BY <1>1, <1>3, <2>1 DEF SerialInv, SerialNext, Observe
<1> QED BY <1>2, <1>3 DEF SerialNext, Next, Rest

\* The daemon starts with the main loop alone.
LEMMA SerialInit == Init => SerialInv
<1> SUFFICES ASSUME Init PROVE Serial /\ ~overlapped
  BY InitWellFormed, InitMemory DEF SerialInv
<1> QED BY DEF Init, Serial

\* Used by one thread at a time the list is never touched after it is freed,
\* nothing is freed twice, written past argv or lost.
THEOREM SerialNeverFaults == SerialSpec => []NoFault
<1>1. SerialInv => NoFault
  BY DEF SerialInv, MemoryInv, NoFault
<1> QED BY <1>1, SerialInit, SerialKept, PTL DEF SerialSpec

-----------------------------------------------------------------------------
(* What the service shows of the one thread that may be in a phase.        *)

InPhase(r) == r.pc \in InstallingPC \cup FinishingPC

PhaseOf(r) == IF r.pc \in InstallingPC THEN "installing"
              ELSE IF r.pc \in FinishingPC THEN "finishing" ELSE "idle"

QueueOf(r, l, h) == IF PhaseOf(r) # "idle" \/ l = 0 THEN <<>> ELSE h[l].items
BatchOf(r)       == IF PhaseOf(r) = "installing" THEN r.args ELSE <<>>
ReportedOf(r)    == IF PhaseOf(r) = "installing" THEN r.n ELSE 0

\* If nobody else is in a phase it is t's record that the mapping looks at.
LEMMA Looked ==
  ASSUME NEW T, NEW t \in DOMAIN T, \A u \in DOMAIN T : u # t => ~InPhase(T[u]),
         NEW pcs \in {InstallingPC, FinishingPC}
  PROVE  LET R == {u \in DOMAIN T : T[u].pc \in pcs} IN
         /\ R # {} <=> T[t].pc \in pcs
         /\ T[t].pc \in pcs => T[CHOOSE u \in R : TRUE] = T[t]
<1> DEFINE R == {u \in DOMAIN T : T[u].pc \in pcs}
<1>1. \A u \in R : u = t
  BY DEF InPhase
<1>2. t \in R <=> T[t].pc \in pcs
  OBVIOUS
<1>3. T[t].pc \in pcs => (CHOOSE u \in R : TRUE) \in R
  BY <1>2
<1> HIDE DEF R
<1>4. T[t].pc \in pcs => (CHOOSE u \in R : TRUE) = t
  BY <1>1, <1>3
<1>5. R # {} <=> T[t].pc \in pcs
  BY <1>1, <1>2
<1> QED BY <1>4, <1>5 DEF R

\* The mapped state, before a step.
LEMMA View ==
  ASSUME NEW t \in DOMAIN thread, \A u \in DOMAIN thread : u # t => ~InPhase(thread[u])
  PROVE  /\ Phase = PhaseOf(thread[t]) /\ Queue = QueueOf(thread[t], rpm_list, heap)
         /\ Batch = BatchOf(thread[t]) /\ Reported = ReportedOf(thread[t])
<1>1. /\ RoutineIn(InstallingPC) # {} <=> thread[t].pc \in InstallingPC
      /\ RoutineIn(FinishingPC) # {} <=> thread[t].pc \in FinishingPC
      /\ thread[t].pc \in InstallingPC => Routine(InstallingPC) = thread[t]
  BY Looked DEF RoutineIn, Routine
<1>2. Phase = PhaseOf(thread[t])
  BY <1>1 DEF Phase, PhaseOf
<1>3. Phase = "installing" => thread[t].pc \in InstallingPC
  BY <1>2 DEF PhaseOf
<1> QED BY <1>1, <1>2, <1>3 DEF Queue, QueueOf, Batch, BatchOf, Reported, ReportedOf

\* And after it.
LEMMA ViewNext ==
  ASSUME NEW t \in DOMAIN thread', \A u \in DOMAIN thread' : u # t => ~InPhase(thread'[u])
  PROVE  /\ Phase' = PhaseOf(thread'[t]) /\ Queue' = QueueOf(thread'[t], rpm_list', heap')
         /\ Batch' = BatchOf(thread'[t]) /\ Reported' = ReportedOf(thread'[t])
<1>1. /\ RoutineIn(InstallingPC)' # {} <=> thread'[t].pc \in InstallingPC
      /\ RoutineIn(FinishingPC)' # {} <=> thread'[t].pc \in FinishingPC
      /\ thread'[t].pc \in InstallingPC => Routine(InstallingPC)' = thread'[t]
  BY Looked DEF RoutineIn, Routine
<1>2. Phase' = PhaseOf(thread'[t])
  BY <1>1 DEF Phase, PhaseOf
<1>3. Phase' = "installing" => thread'[t].pc \in InstallingPC
  BY <1>2 DEF PhaseOf
<1> QED BY <1>1, <1>2, <1>3 DEF Queue, QueueOf, Batch, BatchOf, Reported, ReportedOf

\* A thread in a phase is an install routine, and busy.
LEMMA PhasesAreBusy ==
  ASSUME WellFormed, NEW t \in DOMAIN thread, InPhase(thread[t])
  PROVE  Busy(t) /\ thread[t].kind = "rpm"
BY StepperTypes DEF InPhase, InstallingPC, FinishingPC, Busy, ListUser, UsesList, ThreadOK,
   MainPC, AddPC, DebPC, EndPC, RpmPC

\* Thread t becomes r; threads that are started are not in a phase.
Turns(t, r) ==
  /\ DOMAIN thread \subseteq DOMAIN thread'
  /\ thread'[t] = r
  /\ \A u \in DOMAIN thread : u # t => thread'[u] = thread[u]
  /\ \A u \in DOMAIN thread' \ DOMAIN thread : ~InPhase(thread'[u])

\* A step of a busy thread, as the service shows it.
LEMMA Seen ==
  ASSUME SerialInv, NEW t \in DOMAIN thread, Busy(t), NEW r, Turns(t, r)
  PROVE  /\ Phase = PhaseOf(thread[t]) /\ Queue = QueueOf(thread[t], rpm_list, heap)
         /\ Batch = BatchOf(thread[t]) /\ Reported = ReportedOf(thread[t])
         /\ Phase' = PhaseOf(r) /\ Queue' = QueueOf(r, rpm_list', heap')
         /\ Batch' = BatchOf(r) /\ Reported' = ReportedOf(r)
<1>1. \A u \in DOMAIN thread : u # t => ~InPhase(thread[u])
  BY PhasesAreBusy DEF SerialInv, Serial
<1>2. /\ t \in DOMAIN thread' /\ thread'[t] = r
      /\ \A u \in DOMAIN thread' : u # t => ~InPhase(thread'[u])
  BY <1>1 DEF Turns
<1> QED BY <1>1, <1>2, View, ViewNext

\* A step the service does not show.
Unseen == UNCHANGED <<Queue, Phase, Batch, Reported>>

\* A step of a thread that is in no phase leaves the service alone.
LEMMA AloofUnseen ==
  ASSUME NEW t \in DOMAIN thread, NEW r, Turns(t, r), ~InPhase(thread[t]), ~InPhase(r),
         rpm_list' = rpm_list, heap' = heap
  PROVE  Unseen
<1>1. RoutineIn(InstallingPC)' = RoutineIn(InstallingPC)
      /\ RoutineIn(FinishingPC)' = RoutineIn(FinishingPC)
  BY DEF RoutineIn, Turns, InPhase
<1>2. RoutineIn(InstallingPC) # {} => Routine(InstallingPC)' = Routine(InstallingPC)
  <2> DEFINE R == RoutineIn(InstallingPC)
  <2>1. R # {} => (CHOOSE u \in R : TRUE) \in R
    OBVIOUS
  <2>2. \A u \in R : thread'[u] = thread[u]
    BY DEF RoutineIn, Turns, InPhase
  <2> HIDE DEF R
  <2>3. R # {} => thread'[CHOOSE u \in R : TRUE] = thread[CHOOSE u \in R : TRUE]
    BY <2>1, <2>2
  <2> QED BY <1>1, <2>3 DEF R, Routine
<1>3. Phase' = Phase /\ (Phase = "installing" => RoutineIn(InstallingPC) # {})
  BY <1>1 DEF Phase
<1> QED BY <1>2, <1>3 DEF Unseen, Queue, Batch, Reported

-----------------------------------------------------------------------------
(* What else the steps rely on.                                            *)

\* No list is ever empty.
ListsFilled == \A l \in 1..Len(heap) : heap[l].items # <<>>

\* What the busy thread r knows beyond Knows, when priv->rpm_list is l and h are
\* the lists: what it has made or found, and how far its reports have come.
Further(r, l, h) ==
  /\ r.pc = "store" /\ r.list # l => \E p \in Package : h[r.list].items = <<p>>
  /\ r.kind = "rpm" =>
       /\ r.pc = "enter" => l # 0
       /\ r.pc = "transaction" => r.n = 0
       /\ r.pc = "progress" => r.n \in 0..Len(r.args)
       /\ r.pc = "finish" => l = 0

ServiceInv ==
  /\ SerialInv
  /\ ListsFilled
  /\ \A t \in DOMAIN thread : Further(thread[t], rpm_list, heap)

\* A step is one of the service's and keeps the invariant.
Implements == ServiceInv' /\ Service!Next

\* Only the busy thread changes the list, and the others have nothing to know.
LEMMA FurtherKept ==
  ASSUME ServiceInv, SerialInv', NEW t \in DOMAIN thread, NEW r, Turns(t, r),
         Busy(t) \/ (rpm_list' = rpm_list /\ heap' = heap),
         ListsFilled', Further(r, rpm_list', heap'),
         \A u \in DOMAIN thread' \ DOMAIN thread : Further(thread'[u], rpm_list', heap')
  PROVE  ServiceInv'
<1> SUFFICES ASSUME NEW u \in DOMAIN thread' PROVE Further(thread'[u], rpm_list', heap')
  BY DEF ServiceInv
<1>1. CASE u = t \/ u \notin DOMAIN thread
  BY <1>1 DEF Turns
<1>2. CASE u # t /\ u \in DOMAIN thread
  <2>1. thread'[u] = thread[u] /\ Further(thread[u], rpm_list, heap)
    BY <1>2 DEF Turns, ServiceInv
  <2>2. CASE Busy(t)
    <3>1. ~Busy(u)
      BY <1>2, <2>2 DEF ServiceInv, SerialInv, Serial
    <3> QED BY <2>1, <3>1 DEF Busy, ListUser, UsesList, AddPC, RpmPC, Further
  <2> QED BY <2>1, <2>2
<1> QED BY <1>1, <1>2

\* A step outside every phase that leaves the list alone shows nothing.
LEMMA Aloof ==
  ASSUME ServiceInv, SerialInv', NEW t \in DOMAIN thread, NEW r, Turns(t, r),
         ~InPhase(thread[t]), ~InPhase(r), rpm_list' = rpm_list, heap' = heap,
         Reply' = Service!Silent, Further(r, rpm_list, heap),
         \A u \in DOMAIN thread' \ DOMAIN thread : Further(thread'[u], rpm_list, heap)
  PROVE  Implements
<1>1. Unseen
  BY AloofUnseen
<1>2. ServiceInv'
  BY FurtherKept DEF ServiceInv, ListsFilled
<1> QED BY <1>1, <1>2 DEF Implements, Unseen, Service!Next, Service!Settle

\* Reports of conversions and errors are no replies.
LEMMA NoReply ==
  ASSUME \/ signal' = Silence
         \/ \E d : signal' = Error(d)
         \/ \E f, b : signal' = PercentChanged(0, f, b)
  PROVE  Reply' = Service!Silent
BY DEF Reply, Silence, Error, PercentChanged, Service!Silent

\* One thread goes on.
LEMMA BecomesTurns ==
  ASSUME WellFormed, NEW t \in DOMAIN thread, NEW r \in Thread, Becomes(t, r)
  PROVE  Turns(t, r) /\ DOMAIN thread' = DOMAIN thread
BY BecomesThread DEF WellFormed, TypeOK, Turns

\* One thread goes on and starts another.
LEMMA SpawnTurns ==
  ASSUME WellFormed, NEW t \in DOMAIN thread, NEW pc \in PCs, NEW new \in Thread,
         Spawn(t, pc, new), ~InPhase(new)
  PROVE  /\ Turns(t, WithPc(thread[t], pc))
         /\ \A u \in DOMAIN thread' \ DOMAIN thread : thread'[u] = new
<1>1. /\ DOMAIN thread' = DOMAIN thread \cup {Len(thread) + 1}
      /\ Len(thread) + 1 \notin DOMAIN thread
      /\ \A u \in DOMAIN thread :
           thread'[u] = IF u = t THEN WithPc(thread[t], pc) ELSE thread[u]
      /\ thread'[Len(thread) + 1] = new
  BY SpawnThread DEF WellFormed, TypeOK, WithPc
<1> QED BY <1>1 DEF Turns

\* The fields of a thread after a step.
LEMMA Fields ==
  ASSUME NEW r \in Thread, NEW pc, NEW x, NEW y
  PROVE  /\ LET q == WithPc(r, pc) IN
            q.pc = pc /\ q.kind = r.kind /\ q.list = r.list /\ q.n = r.n /\ q.args = r.args
         /\ LET q == WithFile(r, pc, x) IN q.pc = pc /\ q.kind = r.kind
         /\ LET q == WithList(r, pc, x) IN q.pc = pc /\ q.kind = r.kind /\ q.list = x
         /\ LET q == EnterList(r, x, pc) IN q.pc = pc /\ q.kind = r.kind
         /\ LET q == WithLength(r, pc, x) IN
            q.pc = pc /\ q.kind = r.kind /\ q.list = r.list /\ q.n = x
         /\ LET q == WithArgs(r, pc, x) IN q.pc = pc /\ q.kind = r.kind /\ q.args = x
         /\ LET q == Filled(r, pc, x, y) IN
            q.pc = pc /\ q.kind = r.kind /\ q.args = x /\ q.n = y
         /\ LET q == Dropped(r, pc, x, y) IN q.pc = pc /\ q.kind = r.kind
         /\ LET q == Stepped(r, x) IN
            q.pc = r.pc /\ q.kind = r.kind /\ q.args = r.args /\ q.n = x
BY DEF Thread, WithPc, WithFile, WithList, EnterList, WithLength, WithArgs, Filled, Dropped,
       Stepped

\* What is known of the thread that steps.
LEMMA ServiceStepper ==
  ASSUME ServiceInv, SerialInv', NEW t \in DOMAIN thread
  PROVE  /\ thread[t] \in Thread /\ thread[t].list \in 0..Len(heap)
         /\ rpm_list \in 0..Len(heap) /\ Len(heap) \in Nat
         /\ \A l \in 1..Len(heap) : heap[l] \in ListRecord /\ heap[l].items # <<>>
         /\ heap \in Seq(ListRecord)
         /\ ThreadOK(thread[t], deb)
         /\ thread[t].kind = "main" <=> t = Main
         /\ WellFormed /\ fault = "none" /\ fault' = "none" /\ ~overlapped /\ MemoryInv
         /\ UsesList(thread[t]) => Busy(t) /\ Knows(thread[t], rpm_list, heap)
         /\ Further(thread[t], rpm_list, heap)
<1>1. fault' = "none"
  BY DEF SerialInv, MemoryInv
<1>2. UsesList(thread[t]) => Busy(t)
  BY DEF Busy, ListUser
<1> QED BY <1>1, <1>2, StepperTypes, StepperKnows DEF ServiceInv, SerialInv, ListsFilled, OthersOK

-----------------------------------------------------------------------------
(* Every action of the daemon.                                             *)

\* Calls, before the list is read, are not shown.
LEMMA CallService ==
  ASSUME ServiceInv, SerialInv', Call
  PROVE  Implements
<1>1. Main \in DOMAIN thread
  BY EmptySeq, LenProperties DEF ServiceInv, SerialInv, WellFormed, TypeOK, Main
<1>2. /\ thread[Main] \in Thread /\ thread[Main].kind = "main" /\ thread[Main].pc = "idle"
      /\ WellFormed
  BY <1>1, ServiceStepper
     DEF Call, AddInstall, AddRpm, AddSrcRpm, AddDeb, RefuseDeb, IgnoreFile, Install,
         RefuseInstall, AcceptInstall, Dispatch, At
<1>3. ~InPhase(thread[Main]) /\ rpm_list' = rpm_list /\ heap' = heap
  BY <1>2 DEF InPhase, InstallingPC, FinishingPC, Call, AddInstall, AddRpm, AddSrcRpm, AddDeb,
              RefuseDeb, IgnoreFile, Install, RefuseInstall, AcceptInstall, daemonState
<1>4. Reply' = Service!Silent
  BY NoReply DEF Call, AddInstall, AddRpm, AddSrcRpm, AddDeb, RefuseDeb, IgnoreFile, Install,
                 RefuseInstall, AcceptInstall, Quiet, Emit
<1>5. ASSUME NEW r \in Thread, Becomes(Main, r), r.kind = "main", r.pc \in {"read", "length", "idle"}
      PROVE  Implements
  <2>1. ~InPhase(r) /\ Further(r, rpm_list, heap)
    BY <1>5 DEF InPhase, InstallingPC, FinishingPC, Further
  <2> QED BY <1>1, <1>2, <1>3, <1>4, <1>5, <2>1, BecomesTurns, Aloof
<1>6. ASSUME NEW f \in File, AddRpm(f) \/ AddSrcRpm(f) PROVE Implements
  <2> DEFINE r == WithFile(thread[Main], "read", f)
  <2>1. Becomes(Main, r)
    BY <1>6, Zenon DEF AddRpm, AddSrcRpm, StartAdd, WithFile
  <2>2. Moved(r, thread[Main], "read")
    BY <1>2, PCTypes, Updates DEF AddPC
  <2> HIDE DEF r
  <2> QED BY <1>2, <1>5, <2>1, <2>2 DEF Moved
<1>7. ASSUME NEW f \in File, AddDeb(f) PROVE Implements
  <2> DEFINE new == NewThread("deb", "enter")
             r   == WithPc(thread[Main], "idle")
  <2>1. Spawn(Main, "idle", new) /\ "idle" \in PCs
    BY <1>7, PCTypes DEF AddDeb, MainPC
  <2>2. new \in Thread /\ ~InPhase(new) /\ Further(new, rpm_list, heap)
    BY EmptySeq DEF NewThread, Thread, DebPC, InPhase, InstallingPC, FinishingPC, Further
  <2>3. ~InPhase(r) /\ Further(r, rpm_list, heap)
    BY <1>2, Fields DEF InPhase, InstallingPC, FinishingPC, Further
  <2> HIDE DEF new
  <2>4. Turns(Main, r) /\ \A u \in DOMAIN thread' \ DOMAIN thread : thread'[u] = new
    BY <1>1, <1>2, <2>1, <2>2, SpawnTurns
  <2> QED BY <1>1, <1>3, <1>4, <2>2, <2>3, <2>4, Aloof
<1>8. CASE AcceptInstall
  <2> DEFINE r == WithPc(thread[Main], "length")
  <2>1. Becomes(Main, r)
    BY <1>8, Zenon DEF AcceptInstall, Go, WithPc
  <2>2. Moved(r, thread[Main], "length")
    BY <1>2, PCTypes, Updates DEF MainPC
  <2> HIDE DEF r
  <2> QED BY <1>2, <1>5, <2>1, <2>2 DEF Moved
<1>9. ASSUME thread' = thread PROVE Implements
  <2>1. Turns(Main, thread[Main]) /\ DOMAIN thread' = DOMAIN thread
    BY <1>9 DEF Turns
  <2>2. Further(thread[Main], rpm_list, heap)
    BY <1>1 DEF ServiceInv
  <2> QED BY <1>1, <1>3, <1>4, <2>1, <2>2, Aloof
<1> QED BY <1>6, <1>7, <1>8, <1>9 DEF Call, AddInstall, RefuseDeb, IgnoreFile, Install, RefuseInstall

\* To hand the list to the routine is not shown.
LEMMA StartService ==
  ASSUME ServiceInv, SerialInv', StartInstall
  PROVE  Implements
<1>1. Main \in DOMAIN thread
  BY EmptySeq, LenProperties DEF ServiceInv, SerialInv, WellFormed, TypeOK, Main
<1>2. /\ thread[Main] \in Thread /\ thread[Main].kind = "main" /\ thread[Main].pc = "length"
      /\ WellFormed /\ fault' = "none"
  BY <1>1, ServiceStepper DEF StartInstall, At
<1>3. /\ ~InPhase(thread[Main]) /\ rpm_list' = rpm_list /\ heap' = heap
      /\ Reply' = Service!Silent
  BY <1>2, NoReply DEF InPhase, InstallingPC, FinishingPC, StartInstall, daemonState, Quiet
<1>4. \/ Go(Main, "idle")
      \/ rpm_list # 0 /\ Spawn(Main, "idle", NewThread("rpm", "enter"))
  BY <1>2, Zenon DEF StartInstall, Intact, Fails
<1> DEFINE r == WithPc(thread[Main], "idle")
<1>5. ~InPhase(r) /\ Further(r, rpm_list, heap) /\ Moved(r, thread[Main], "idle") /\ "idle" \in PCs
  BY <1>2, Fields, PCTypes, Updates DEF InPhase, InstallingPC, FinishingPC, Further, MainPC
<1>6. CASE Go(Main, "idle")
  <2>1. Becomes(Main, r)
    BY <1>6, Zenon DEF Go, WithPc
  <2> HIDE DEF r
  <2>2. Turns(Main, r) /\ DOMAIN thread' = DOMAIN thread
    BY <1>1, <1>2, <1>5, <2>1, BecomesTurns DEF Moved
  <2> QED BY <1>1, <1>3, <1>5, <2>2, Aloof
<1>7. CASE rpm_list # 0 /\ Spawn(Main, "idle", NewThread("rpm", "enter"))
  <2> DEFINE new == NewThread("rpm", "enter")
  <2>1. new \in Thread /\ ~InPhase(new) /\ Further(new, rpm_list, heap)
    BY <1>7, EmptySeq DEF NewThread, Thread, RpmPC, InPhase, InstallingPC, FinishingPC, Further
  <2>2. Spawn(Main, "idle", new)
    BY <1>7
  <2> HIDE DEF new
  <2>3. Turns(Main, r) /\ \A u \in DOMAIN thread' \ DOMAIN thread : thread'[u] = new
    BY <1>1, <1>2, <1>5, <2>1, <2>2, SpawnTurns
  <2> QED BY <1>1, <1>3, <1>5, <2>1, <2>3, Aloof
<1> QED BY <1>4, <1>6, <1>7

\* What a conversion reports is none of the service's business.
LEMMA DebService ==
  ASSUME ServiceInv, SerialInv', NEW t \in DOMAIN thread, DebConvert(t)
  PROVE  Implements
<1> DEFINE old == thread[t]  places == DebPC \cup {"unlock", "read"}
<1>1. old \in Thread /\ WellFormed /\ ThreadOK(old, deb)
  BY ServiceStepper
<1>2. /\ old.pc \in DebPC /\ old.kind = "deb"
      /\ heap' = heap /\ rpm_list' = rpm_list
  BY <1>1 DEF DebConvert, DebEnter, DebGivesUp, DebReports, DebPC, ThreadOK, At, daemonState,
              MainPC, AddPC, RpmPC, EndPC
<1>3. ~InPhase(old)
  BY <1>2 DEF InPhase, InstallingPC, FinishingPC, DebPC
<1>4. Reply' = Service!Silent
  BY NoReply DEF DebConvert, DebEnter, DebGivesUp, DebReports, Quiet, Emit
<1>5. ASSUME NEW pc \in places, NEW r, Becomes(t, r), Moved(r, old, pc)
      PROVE  Implements
  <2>1. ~InPhase(r) /\ Further(r, rpm_list, heap)
    BY <1>2, <1>5 DEF InPhase, InstallingPC, FinishingPC, Further, DebPC, Moved
  <2>2. Turns(t, r) /\ DOMAIN thread' = DOMAIN thread
    BY <1>1, <1>5, BecomesTurns DEF Moved
  <2> QED BY <1>2, <1>3, <1>4, <2>1, <2>2, Aloof
<1>6. \A pc \in places : pc \in PCs
  BY PCTypes DEF AddPC, EndPC
<1>7. CASE DebEnter(t)
  <2> DEFINE r == WithFile(old, "extract", deb)
  <2>1. deb \in File /\ "extract" \in places
    BY <1>1, <1>2 DEF ThreadOK, File, DebPC
  <2>2. Moved(r, old, "extract")
    BY <1>1, <1>6, <2>1, Updates
  <2>3. Becomes(t, r)
    BY <1>7, Zenon DEF DebEnter, WithFile
  <2> HIDE DEF r, places
  <2> QED BY <1>5, <2>1, <2>2, <2>3
<1>8. CASE ~DebEnter(t)
  <2>1. PICK pc \in places : Go(t, pc)
    BY <1>8 DEF DebConvert, DebGivesUp, DebReports, DebPC
  <2> DEFINE r == WithPc(old, pc)
  <2>2. Becomes(t, r)
    BY <2>1, Zenon DEF Go, WithPc
  <2>3. Moved(r, old, pc)
    BY <1>1, <1>6, Updates
  <2> HIDE DEF r, places
  <2> QED BY <1>5, <2>2, <2>3
<1> QED BY <1>7, <1>8

\* Nor is the end of a routine.
LEMMA UnlockService ==
  ASSUME ServiceInv, SerialInv', NEW t \in DOMAIN thread, Unlock(t)
  PROVE  Implements
<1> DEFINE r == Dropped(thread[t], "done", 0, 0)
<1>1. thread[t] \in Thread /\ WellFormed /\ thread[t].pc = "unlock"
  BY ServiceStepper DEF Unlock, At
<1>2. Becomes(t, r)
  BY Zenon DEF Unlock, Dropped
<1>3. Moved(r, thread[t], "done")
  BY <1>1, PCTypes, Updates DEF EndPC
<1>4. ~InPhase(thread[t]) /\ ~InPhase(r) /\ Further(r, rpm_list, heap)
  BY <1>1, <1>3 DEF Moved, InPhase, InstallingPC, FinishingPC, Further
<1> HIDE DEF r
<1>5. Turns(t, r) /\ DOMAIN thread' = DOMAIN thread
  BY <1>1, <1>2, <1>3, BecomesTurns DEF Moved
<1>6. rpm_list' = rpm_list /\ heap' = heap /\ Reply' = Service!Silent
  BY NoReply DEF Unlock, Quiet
<1> QED BY <1>4, <1>5, <1>6, Aloof

\* A package is queued when its node is linked to the list, or, if there was no
\* list, when the new list is stored.
LEMMA AppendService ==
  ASSUME ServiceInv, SerialInv', NEW t \in DOMAIN thread,
         AppendRead(t) \/ AppendFind(t) \/ AppendLink(t) \/ AppendStore(t)
  PROVE  Implements
<1> DEFINE old == thread[t]  l == old.list
<1>1. /\ old \in Thread /\ l \in 0..Len(heap) /\ rpm_list \in 0..Len(heap) /\ Len(heap) \in Nat
      /\ \A k \in 1..Len(heap) : heap[k] \in ListRecord /\ heap[k].items # <<>>
      /\ heap \in Seq(ListRecord) /\ ThreadOK(old, deb) /\ WellFormed /\ fault' = "none"
  BY ServiceStepper
<1>2. old.pc \in AddPC
  BY DEF AppendRead, AppendFind, AppendLink, AppendStore, AddPC, At
<1>3. /\ Busy(t) /\ Knows(old, rpm_list, heap) /\ Further(old, rpm_list, heap)
      /\ old.kind # "rpm" /\ PhaseOf(old) = "idle" /\ ~InPhase(old)
  <2>1. UsesList(old)
    BY <1>2 DEF UsesList
  <2> QED BY <1>1, <1>2, <2>1, ServiceStepper
          DEF ThreadOK, AddPC, RpmPC, EndPC, PhaseOf, InPhase, InstallingPC, FinishingPC
<1>4. Reply' = Service!Silent
  BY NoReply DEF AppendRead, AppendFind, AppendLink, AppendStore, Quiet
<1>5. Appended(t) \in Package
  BY <1>1, <1>2 DEF Appended, Package, ThreadOK, AddPC, RpmPC, EndPC, DebPC, MainPC
<1>6. ASSUME NEW r \in Thread, Becomes(t, r) PROVE Turns(t, r) /\ DOMAIN thread' = DOMAIN thread
  BY <1>1, <1>6, BecomesTurns
\* nothing to see when the thread goes on to append with the list as it was
<1>7. ASSUME NEW r, Becomes(t, r), Moved(r, old, r.pc), r.pc \in {"find", "link"},
             rpm_list' = rpm_list, heap' = heap
      PROVE  Implements
  <2>1. ~InPhase(r) /\ Further(r, rpm_list, heap)
    BY <1>3, <1>7 DEF InPhase, InstallingPC, FinishingPC, Further, Moved
  <2> QED BY <1>3, <1>4, <1>6, <1>7, <2>1, Aloof DEF Moved
<1>8. CASE AppendRead(t)
  <2> DEFINE r == WithList(old, "find", rpm_list)
  <2>1. Becomes(t, r) /\ rpm_list' = rpm_list /\ heap' = heap
    BY <1>8, Zenon DEF AppendRead, WithList, daemonState
  <2>2. Moved(r, old, "find") /\ r.pc = "find"
    BY <1>1, PCTypes, Updates DEF AddPC, Moved
  <2> HIDE DEF r
  <2> QED BY <1>7, <2>1, <2>2
<1>9. CASE AppendFind(t)
  <2>1. l = rpm_list /\ rpm_list' = rpm_list /\ old.pc = "find"
    BY <1>3, <1>9 DEF AppendFind, At, Knows, daemonState
  <2>2. CASE l = 0
    <3> DEFINE x == [items |-> <<Appended(t)>>, state |-> "live"]
               r == WithList(old, "store", Len(heap) + 1)
    <3>1. heap' = Append(heap, x) /\ Becomes(t, r)
      BY <1>1, <1>9, <2>2, Zenon DEF AppendFind, WithList, Intact, Fails, Freed
    <3>2. /\ heap'[Len(heap) + 1] = x /\ Len(heap') = Len(heap) + 1
          /\ \A k \in 1..Len(heap) : heap'[k] = heap[k]
      BY <1>1, <3>1, AppendProperties
    <3>3. Moved(r, old, "store") /\ r.list = Len(heap) + 1
      <4>1. Len(heap) + 1 \in Nat /\ "store" \in PCs
        BY <1>1, PCTypes DEF AddPC
      <4> QED BY <1>1, <4>1, Updates
    <3>4. x.items = <<Appended(t)>> /\ x.items # <<>>
      OBVIOUS
    <3> HIDE DEF r, x
    <3>5. ListsFilled' /\ Further(r, rpm_list', heap')
      <4>1. \A k \in 1..(Len(heap) + 1) : k \in 1..Len(heap) \/ k = Len(heap) + 1
        BY <1>1
      <4>2. ListsFilled'
        BY <1>1, <3>2, <3>4, <4>1 DEF ListsFilled
      <4>3. Further(r, rpm_list', heap')
        BY <1>3, <1>5, <3>2, <3>3, <3>4 DEF Further, Moved
      <4> QED BY <4>2, <4>3
    <3>6. Turns(t, r) /\ DOMAIN thread' = DOMAIN thread
      BY <1>6, <3>1, <3>3 DEF Moved
    <3>7. PhaseOf(r) = "idle"
      BY <3>3 DEF Moved, PhaseOf, InstallingPC, FinishingPC
    <3>8. ServiceInv'
      BY <1>3, <3>5, <3>6, FurtherKept
    <3>9. Unseen
      BY <1>3, <2>1, <2>2, <3>6, <3>7, Seen DEF Unseen, ServiceInv, QueueOf, BatchOf, ReportedOf
    <3> QED BY <1>4, <3>8, <3>9 DEF Implements, Unseen, Service!Next, Service!Settle
  <2>3. CASE l # 0
    <3> DEFINE r == WithLength(old, "link", Len(heap[l].items))
    <3>1. l \in 1..Len(heap) /\ ~Freed(l)
      BY <1>1, <1>3, <2>1, <2>3 DEF Knows, Whole, Freed
    <3>2. heap' = heap /\ Becomes(t, r)
      BY <1>9, <2>3, <3>1, Zenon DEF AppendFind, WithLength
    <3>3. Len(heap[l].items) \in Nat /\ "link" \in PCs
      BY <1>1, <3>1, LenProperties, PCTypes DEF ListRecord, AddPC
    <3>4. Moved(r, old, "link")
      BY <1>1, <3>3, Updates
    <3> HIDE DEF r
    <3> QED BY <1>7, <2>1, <3>2, <3>4 DEF Moved
  <2> QED BY <2>2, <2>3
<1>10. CASE AppendLink(t)
  <2> DEFINE r == WithLength(old, "store", 0)
             x == [heap[l] EXCEPT !.items = Append(@, Appended(t))]
  <2>1. l = rpm_list /\ Live(l, heap) /\ rpm_list' = rpm_list
    BY <1>3, <1>10 DEF AppendLink, At, Knows, daemonState
  <2>2. l \in 1..Len(heap)
    BY <1>1, <2>1 DEF Live
  <2>3. heap' = [heap EXCEPT ![l] = x]
    BY <1>1, <1>10 DEF AppendLink, Fails
  <2>4. Becomes(t, r)
    BY <1>1, <1>10, Zenon DEF AppendLink, Fails, WithLength
  <2>5. x.items = Append(heap[l].items, Appended(t)) /\ heap[l].items \in Seq(Package)
    BY <1>1, <2>2 DEF ListRecord
  <2>6. x.items # <<>>
    <3> DEFINE s == heap[l].items
    <3> HIDE DEF s
    <3>1. ASSUME s \in Seq(Package) PROVE Append(s, Appended(t)) # <<>>
      BY <1>5, <3>1, AppendProperties
    <3> QED BY <2>5, <3>1 DEF s
  <2> HIDE DEF x
  <2>7. heap'[l] = x /\ Len(heap') = Len(heap) /\ \A k \in 1..Len(heap) : k # l => heap'[k] = heap[k]
    BY <1>1, <2>2, <2>3
  <2>8. Moved(r, old, "store") /\ r.list = l
    BY <1>1, PCTypes, Updates DEF AddPC
  <2> HIDE DEF r
  <2>9. ListsFilled' /\ Further(r, rpm_list', heap')
    BY <1>1, <1>3, <2>1, <2>6, <2>7, <2>8 DEF ListsFilled, Further, Moved
  <2>10. Turns(t, r) /\ DOMAIN thread' = DOMAIN thread
    BY <1>6, <2>4, <2>8 DEF Moved
  <2>11. PhaseOf(r) = "idle"
    BY <2>8 DEF Moved, PhaseOf, InstallingPC, FinishingPC
  <2>12. ServiceInv'
    BY <1>3, <2>9, <2>10, FurtherKept
  <2>13. /\ Phase = "idle" /\ Phase' = "idle" /\ Batch' = Batch /\ Reported' = Reported
         /\ Queue = heap[l].items /\ Queue' = x.items
    BY <1>3, <2>1, <2>2, <2>7, <2>10, <2>11, Seen DEF ServiceInv, QueueOf, BatchOf, ReportedOf
  <2> QED BY <1>4, <1>5, <2>5, <2>12, <2>13 DEF Implements, Service!Next, Service!Submit
<1>11. CASE AppendStore(t)
  <2>1. /\ old.pc = "store" /\ rpm_list' = l /\ heap' = heap
        /\ Live(l, heap) /\ rpm_list \in {0, l} /\ l \in 1..Len(heap)
    BY <1>1, <1>3, <1>11 DEF AppendStore, At, Knows, Live
  <2>2. \E r : /\ Turns(t, r) /\ PhaseOf(r) = "idle" /\ Further(r, rpm_list', heap')
               /\ \A u \in DOMAIN thread' \ DOMAIN thread : Further(thread'[u], rpm_list', heap')
    <3>1. CASE old.kind = "deb"
      <4> DEFINE new == NewThread("rpm", "enter")
                 r   == WithPc(old, "unlock")
      <4>1. Spawn(t, "unlock", new) /\ "unlock" \in PCs
        BY <1>11, <3>1, PCTypes DEF AppendStore, EndPC
      <4>2. new \in Thread /\ ~InPhase(new) /\ Further(new, rpm_list', heap')
        BY <2>1, EmptySeq DEF NewThread, Thread, RpmPC, InPhase, InstallingPC, FinishingPC, Further
      <4>3. PhaseOf(r) = "idle" /\ Further(r, rpm_list', heap')
        BY <1>1, Fields DEF PhaseOf, InstallingPC, FinishingPC, Further
      <4> HIDE DEF new
      <4>4. Turns(t, r) /\ \A u \in DOMAIN thread' \ DOMAIN thread : thread'[u] = new
        BY <1>1, <4>1, <4>2, SpawnTurns
      <4> QED BY <4>2, <4>3, <4>4
    <3>2. CASE old.kind # "deb"
      <4> DEFINE r == NewThread("main", "idle")
      <4>1. Becomes(t, r)
        BY <1>11, <3>2 DEF AppendStore
      <4>2. r \in Thread /\ PhaseOf(r) = "idle" /\ Further(r, rpm_list', heap')
        BY EmptySeq DEF NewThread, Thread, MainPC, PhaseOf, InstallingPC, FinishingPC, Further
      <4> HIDE DEF r
      <4> QED BY <1>6, <4>1, <4>2
    <3> QED BY <3>1, <3>2
  <2>3. PICK r : /\ Turns(t, r) /\ PhaseOf(r) = "idle" /\ Further(r, rpm_list', heap')
                 /\ \A u \in DOMAIN thread' \ DOMAIN thread : Further(thread'[u], rpm_list', heap')
    BY <2>2
  <2>4. ServiceInv'
    BY <1>3, <2>1, <2>3, FurtherKept DEF ServiceInv, ListsFilled
  <2>5. /\ Phase = "idle" /\ Phase' = "idle" /\ Batch' = Batch /\ Reported' = Reported
        /\ Queue = (IF rpm_list = 0 THEN <<>> ELSE heap[rpm_list].items) /\ Queue' = heap[l].items
    BY <1>3, <2>1, <2>3, Seen DEF ServiceInv, QueueOf, BatchOf, ReportedOf
  <2>6. CASE rpm_list = l
    BY <1>4, <2>1, <2>4, <2>5, <2>6 DEF Implements, Service!Next, Service!Settle
  <2>7. CASE rpm_list = 0
    <3>1. PICK p \in Package : heap[l].items = <<p>>
      BY <1>3, <2>1, <2>7 DEF Further
    <3>2. Queue' = Append(Queue, p)
      BY <2>5, <2>7, <3>1
    <3> QED BY <1>4, <2>4, <2>5, <3>1, <3>2 DEF Implements, Service!Next, Service!Submit
  <2> QED BY <2>1, <2>6, <2>7
<1> QED BY <1>8, <1>9, <1>10, <1>11

\* An install takes the queue when it has copied the list, drops it when it
\* cannot allocate argv, reports what it took one by one, and is finished with
\* the list when it says so.
LEMMA RpmService ==
  ASSUME ServiceInv, SerialInv', NEW t \in DOMAIN thread, RpmInstall(t)
  PROVE  Implements
<1> DEFINE old == thread[t]  l == old.list
<1>1. /\ old \in Thread /\ l \in 0..Len(heap) /\ rpm_list \in 0..Len(heap) /\ Len(heap) \in Nat
      /\ \A k \in 1..Len(heap) : heap[k] \in ListRecord /\ heap[k].items # <<>>
      /\ heap \in Seq(ListRecord) /\ ThreadOK(old, deb) /\ WellFormed /\ fault' = "none"
  BY ServiceStepper
<1>2. old.pc \in RpmPC /\ old.kind = "rpm"
  BY <1>1 DEF RpmInstall, RpmEnter, RpmCount, RpmFill, RpmTransaction, RpmProgress,
              RpmFreeItems, RpmFreeList, RpmReset, RpmFinish, At,
              RpmPC, ThreadOK, MainPC, AddPC, DebPC, EndPC
<1>3. /\ Busy(t) /\ Further(old, rpm_list, heap)
      /\ old.pc # "finish" => Knows(old, rpm_list, heap)
  BY <1>2, ServiceStepper DEF UsesList, Busy
<1>4. /\ Phase = PhaseOf(old) /\ Queue = QueueOf(old, rpm_list, heap)
      /\ Batch = BatchOf(old) /\ Reported = ReportedOf(old)
  <2>1. \A u \in DOMAIN thread : u # t => ~InPhase(thread[u])
    BY <1>1, <1>3, PhasesAreBusy DEF ServiceInv, SerialInv, Serial
  <2> QED BY <2>1, View
\* what the service shows of a step to r that keeps the lists filled
<1>5. ASSUME NEW r, Becomes(t, r), Moved(r, old, r.pc), ListsFilled', Further(r, rpm_list', heap')
      PROVE  /\ ServiceInv'
             /\ Phase' = PhaseOf(r) /\ Queue' = QueueOf(r, rpm_list', heap')
             /\ Batch' = BatchOf(r) /\ Reported' = ReportedOf(r)
  <2>1. Turns(t, r) /\ DOMAIN thread' = DOMAIN thread
    BY <1>1, <1>5, BecomesTurns DEF Moved
  <2> QED BY <1>3, <1>5, <2>1, FurtherKept, Seen DEF ServiceInv
<1>6. heap' = heap => ListsFilled'
  BY DEF ServiceInv, ListsFilled
<1>7. ASSUME NEW pc \in RpmPC \cup EndPC, Go(t, pc)
      PROVE  LET r == WithPc(old, pc) IN
             /\ Becomes(t, r) /\ Moved(r, old, r.pc)
             /\ r.pc = pc /\ r.kind = "rpm" /\ r.n = old.n /\ r.args = old.args
  <2> DEFINE r == WithPc(old, pc)
  <2>1. Becomes(t, r)
    BY <1>7, Zenon DEF Go, WithPc
  <2>2. Moved(r, old, pc)
    BY <1>1, PCTypes, Updates
  <2>3. r.n = old.n /\ r.args = old.args
    BY <1>1, Fields
  <2> HIDE DEF r
  <2>4. r.pc = pc /\ r.kind = "rpm" /\ Moved(r, old, r.pc)
    BY <1>2, <2>2 DEF Moved
  <2> QED BY <2>1, <2>3, <2>4 DEF r
<1>8. CASE RpmEnter(t)
  <2> DEFINE r == EnterList(old, rpm_list, "count")
  <2>1. old.pc = "enter" /\ rpm_list # 0 /\ rpm_list' = rpm_list /\ heap' = heap /\ Quiet
    BY <1>2, <1>3, <1>8 DEF RpmEnter, At, Further, daemonState
  <2>2. Becomes(t, r)
    BY <1>8, <2>1, Zenon DEF RpmEnter, EnterList
  <2>3. Moved(r, old, "count")
    BY <1>1, PCTypes, EnterUpdate DEF RpmPC
  <2> HIDE DEF r
  <2>4. Further(r, rpm_list', heap') /\ Moved(r, old, r.pc)
    BY <1>2, <2>3 DEF Further, Moved
  <2>5. PhaseOf(r) = "idle" /\ PhaseOf(old) = "idle"
    BY <2>1, <2>3 DEF Moved, PhaseOf, InstallingPC, FinishingPC
  <2>6. ServiceInv' /\ Unseen
    BY <1>4, <1>5, <1>6, <2>1, <2>2, <2>4, <2>5 DEF Unseen, QueueOf, BatchOf, ReportedOf
  <2> QED BY <2>1, <2>6, NoReply DEF Implements, Unseen, Quiet, Service!Next, Service!Settle
<1>9. CASE RpmCount(t)
  <2>1. /\ old.pc = "count" /\ rpm_list' = rpm_list /\ heap' = heap
        /\ l = rpm_list /\ Live(l, heap) /\ l \in 1..Len(heap)
    <3>1. old.pc = "count" /\ rpm_list' = rpm_list /\ heap' = heap
      BY <1>9, Zenon DEF RpmCount, At, daemonState
    <3>2. l = rpm_list /\ Live(l, heap)
      BY <1>3, <3>1 DEF Knows
    <3> QED BY <1>1, <3>1, <3>2 DEF Live
  <2>2. PhaseOf(old) = "idle" /\ Queue = heap[l].items /\ Batch = <<>> /\ Reported = 0
    BY <1>4, <2>1 DEF PhaseOf, InstallingPC, FinishingPC, QueueOf, BatchOf, ReportedOf
  <2>3. \/ Becomes(t, WithLength(old, "fill", Len(heap[l].items))) /\ Quiet
        \/ Go(t, "free_items") /\ Emit(Error("problem"))
    BY <1>1, <1>9, Zenon DEF RpmCount, WithLength, Fails
  <2>4. CASE Becomes(t, WithLength(old, "fill", Len(heap[l].items))) /\ Quiet
    <3> DEFINE r == WithLength(old, "fill", Len(heap[l].items))
    <3>1. Len(heap[l].items) \in Nat /\ "fill" \in PCs
      BY <1>1, <2>1, LenProperties, PCTypes DEF ListRecord, RpmPC
    <3>2. Moved(r, old, "fill")
      BY <1>1, <3>1, Updates
    <3>3. Becomes(t, r)
      BY <2>4
    <3> HIDE DEF r
    <3>4. Further(r, rpm_list', heap') /\ Moved(r, old, r.pc)
      BY <1>2, <3>2 DEF Further, Moved
    <3>5. PhaseOf(r) = "idle"
      BY <3>2 DEF Moved, PhaseOf, InstallingPC, FinishingPC
    <3>6. ServiceInv' /\ Unseen
      BY <1>4, <1>5, <1>6, <2>1, <2>2, <3>3, <3>4, <3>5 DEF Unseen, QueueOf, BatchOf, ReportedOf
    <3> QED BY <2>4, <3>6, NoReply DEF Implements, Unseen, Quiet, Service!Next, Service!Settle
  <2>5. CASE Go(t, "free_items") /\ Emit(Error("problem"))
    <3> DEFINE r == WithPc(old, "free_items")
    <3>1. Becomes(t, r) /\ Moved(r, old, r.pc) /\ r.pc = "free_items"
      BY <1>7, <2>5 DEF RpmPC
    <3> HIDE DEF r
    <3>2. Further(r, rpm_list', heap') /\ PhaseOf(r) = "finishing"
      BY <3>1 DEF Further, PhaseOf, InstallingPC, FinishingPC
    <3>3. ServiceInv' /\ Phase' = "finishing" /\ Queue' = <<>> /\ Batch' = <<>> /\ Reported' = 0
      BY <1>5, <1>6, <2>1, <3>1, <3>2 DEF QueueOf, BatchOf, ReportedOf
    <3>4. Reply' = Service!Silent /\ Phase = "idle" /\ Queue # <<>>
      BY <1>1, <1>4, <2>1, <2>2, <2>5, NoReply DEF Emit
    <3> QED BY <2>2, <3>3, <3>4 DEF Implements, Service!Next, Service!Drop
  <2> QED BY <2>3, <2>4, <2>5
<1>10. CASE RpmFill(t)
  <2> DEFINE r == Filled(old, "transaction", heap[l].items, 0)
  <2>1. /\ old.pc = "fill" /\ rpm_list' = rpm_list /\ heap' = heap /\ Quiet
        /\ l = rpm_list /\ Live(l, heap) /\ l \in 1..Len(heap)
    <3>1. old.pc = "fill" /\ rpm_list' = rpm_list /\ heap' = heap /\ Quiet
      BY <1>10, Zenon DEF RpmFill, At, daemonState
    <3>2. l = rpm_list /\ Live(l, heap)
      BY <1>3, <3>1 DEF Knows
    <3> QED BY <1>1, <3>1, <3>2 DEF Live
  <2>2. Becomes(t, r)
    BY <1>1, <1>10, Zenon DEF RpmFill, Filled, Fails
  <2>3. Moved(r, old, "transaction") /\ r.args = heap[l].items /\ r.n = 0
    <3>1. heap[l].items \in Seq(Package) /\ "transaction" \in PCs
      BY <1>1, <2>1, PCTypes DEF RpmPC, ListRecord
    <3>2. Moved(r, old, "transaction")
      BY <1>1, <3>1, Updates
    <3>3. r.args = heap[l].items /\ r.n = 0
      BY <1>1, Fields
    <3> QED BY <3>2, <3>3
  <2> HIDE DEF r
  <2>4. Further(r, rpm_list', heap') /\ Moved(r, old, r.pc)
    BY <1>2, <2>3 DEF Further, Moved
  <2>5. PhaseOf(r) = "installing" /\ PhaseOf(old) = "idle"
    BY <2>1, <2>3 DEF Moved, PhaseOf, InstallingPC, FinishingPC
  <2>6. /\ ServiceInv' /\ Phase' = "installing" /\ Queue' = <<>> /\ Batch' = heap[l].items
        /\ Reported' = 0
    BY <1>5, <1>6, <2>1, <2>2, <2>3, <2>4, <2>5 DEF QueueOf, BatchOf, ReportedOf
  <2>7. Phase = "idle" /\ Queue = heap[l].items /\ Reported = 0 /\ Queue # <<>>
    BY <1>1, <1>4, <2>1, <2>5 DEF QueueOf, ReportedOf
  <2>8. Reply' = Service!Silent
    BY <2>1, NoReply DEF Quiet
  <2> QED BY <2>6, <2>7, <2>8 DEF Implements, Service!Next, Service!Begin
<1>11. CASE RpmTransaction(t)
  <2>1. /\ old.pc = "transaction" /\ rpm_list' = rpm_list /\ heap' = heap /\ old.n = 0
    BY <1>2, <1>3, <1>11 DEF RpmTransaction, At, Further, daemonState
  <2>2. Phase = "installing" /\ Queue = <<>> /\ Batch = old.args /\ Reported = 0
    BY <1>4, <2>1 DEF PhaseOf, InstallingPC, FinishingPC, QueueOf, BatchOf, ReportedOf
  <2>3. \/ Becomes(t, WithArgs(old, "free_items", <<>>)) /\ Emit(Error("problem"))
        \/ Go(t, "progress") /\ Quiet
    BY <1>11, Zenon DEF RpmTransaction, WithArgs
  <2>4. CASE Becomes(t, WithArgs(old, "free_items", <<>>)) /\ Emit(Error("problem"))
    <3> DEFINE r == WithArgs(old, "free_items", <<>>)
    <3>1. Moved(r, old, "free_items")
      <4>1. <<>> \in Seq(Package) /\ "free_items" \in PCs
        BY EmptySeq, PCTypes DEF RpmPC
      <4>2. \A a \in Seq(Package) : Moved(WithArgs(old, "free_items", a), old, "free_items")
        BY <1>1, <4>1, Updates
      <4> QED BY <4>1, <4>2, Zenon
    <3>2. Becomes(t, r)
      BY <2>4
    <3> HIDE DEF r
    <3>3. /\ Moved(r, old, r.pc) /\ Further(r, rpm_list', heap') /\ PhaseOf(r) = "finishing"
      BY <3>1 DEF Moved, Further, PhaseOf, InstallingPC, FinishingPC
    <3>4. ServiceInv' /\ Phase' = "finishing" /\ Queue' = <<>> /\ Batch' = <<>> /\ Reported' = 0
      BY <1>5, <1>6, <2>1, <3>2, <3>3 DEF QueueOf, BatchOf, ReportedOf
    <3>5. Reply' = Service!Silent
      BY <2>4, NoReply DEF Emit
    <3> QED BY <2>2, <3>4, <3>5 DEF Implements, Service!Next, Service!End
  <2>5. CASE Go(t, "progress") /\ Quiet
    <3> DEFINE r == WithPc(old, "progress")
    <3>1. /\ Becomes(t, r) /\ Moved(r, old, r.pc) /\ r.pc = "progress" /\ r.n = 0
          /\ r.args = old.args
      BY <1>7, <2>1, <2>5 DEF RpmPC
    <3> HIDE DEF r
    <3>2. Further(r, rpm_list', heap') /\ PhaseOf(r) = "installing"
      <4>1. Len(old.args) \in Nat
        BY <1>1, LenProperties DEF Thread
      <4> QED BY <3>1, <4>1 DEF Further, PhaseOf, InstallingPC, FinishingPC
    <3>3. ServiceInv' /\ Unseen
      BY <1>5, <1>6, <2>1, <2>2, <3>1, <3>2 DEF Unseen, QueueOf, BatchOf, ReportedOf
    <3> QED BY <2>5, <3>3, NoReply DEF Implements, Unseen, Quiet, Service!Next, Service!Settle
  <2> QED BY <2>3, <2>4, <2>5
<1>12. CASE RpmProgress(t)
  <2> DEFINE i == old.n + 1
  <2>1. /\ old.pc = "progress" /\ rpm_list' = rpm_list /\ heap' = heap
        /\ old.n \in 0..Len(old.args) /\ Len(old.args) \in Nat
    BY <1>1, <1>2, <1>3, <1>12, LenProperties DEF RpmProgress, At, Further, daemonState, Thread
  <2>2. Phase = "installing" /\ Queue = <<>> /\ Batch = old.args /\ Reported = old.n
    BY <1>4, <2>1 DEF PhaseOf, InstallingPC, FinishingPC, QueueOf, BatchOf, ReportedOf
  <2>3. \/ /\ i <= Len(old.args) /\ Becomes(t, Stepped(old, i))
           /\ Emit(PercentChanged(1, old.args[i], TRUE))
        \/ i > Len(old.args) /\ Go(t, "free_items") /\ Quiet
    BY <1>12, Zenon DEF RpmProgress, Stepped
  <2>4. CASE /\ i <= Len(old.args) /\ Becomes(t, Stepped(old, i))
             /\ Emit(PercentChanged(1, old.args[i], TRUE))
    <3> DEFINE r == Stepped(old, i)
    <3>1. i \in Nat /\ i \in 0..Len(old.args)
      BY <2>1, <2>4
    <3>2. Moved(r, old, old.pc)
      BY <1>1, <2>1, <3>1, PCTypes, Updates DEF RpmPC
    <3>3. r.pc = "progress" /\ r.n = i /\ r.args = old.args
      BY <1>1, <2>1, Fields
    <3>4. Becomes(t, r)
      BY <2>4
    <3> HIDE DEF r, i
    <3>5. /\ Moved(r, old, r.pc) /\ Further(r, rpm_list', heap') /\ PhaseOf(r) = "installing"
      BY <2>1, <3>1, <3>2, <3>3 DEF Further, PhaseOf, InstallingPC, FinishingPC
    <3>6. ServiceInv' /\ Phase' = "installing" /\ Queue' = <<>> /\ Batch' = old.args /\ Reported' = i
      BY <1>5, <1>6, <2>1, <3>3, <3>4, <3>5 DEF QueueOf, BatchOf, ReportedOf
    <3>7. Reply' = Service!Installed(old.args[i])
      BY <2>4 DEF Emit, Reply, PercentChanged, Service!Installed
    <3>8. i = old.n + 1 /\ old.n < Len(old.args)
      BY <2>1, <2>4 DEF i
    <3> QED BY <2>2, <3>6, <3>7, <3>8 DEF Implements, Service!Next, Service!Report
  <2>5. CASE i > Len(old.args) /\ Go(t, "free_items") /\ Quiet
    <3> DEFINE r == WithPc(old, "free_items")
    <3>1. Becomes(t, r) /\ Moved(r, old, r.pc) /\ r.pc = "free_items"
      BY <1>7, <2>5 DEF RpmPC
    <3> HIDE DEF r
    <3>2. Further(r, rpm_list', heap') /\ PhaseOf(r) = "finishing"
      BY <3>1 DEF Further, PhaseOf, InstallingPC, FinishingPC
    <3>3. ServiceInv' /\ Phase' = "finishing" /\ Queue' = <<>> /\ Batch' = <<>> /\ Reported' = 0
      BY <1>5, <1>6, <2>1, <3>1, <3>2 DEF QueueOf, BatchOf, ReportedOf
    <3>4. Reply' = Service!Silent /\ old.n = Len(old.args)
      BY <2>1, <2>5, NoReply DEF Quiet
    <3> QED BY <2>2, <3>3, <3>4 DEF Implements, Service!Next, Service!End
  <2> QED BY <2>3, <2>4, <2>5
<1>13. CASE RpmFreeItems(t) \/ RpmFreeList(t) \/ RpmReset(t)
  <2>1. /\ old.pc \in FinishingPC \ {"finish"} /\ Quiet
        /\ \E pc \in FinishingPC \ {"free_items"} :
             Go(t, pc) /\ (pc = "finish" => rpm_list' = 0)
    BY <1>1, <1>13 DEF RpmFreeItems, RpmFreeList, RpmReset, At, FinishingPC, Fails
  <2>2. PICK pc \in FinishingPC \ {"free_items"} : Go(t, pc) /\ (pc = "finish" => rpm_list' = 0)
    BY <2>1
  <2> DEFINE r == WithPc(old, pc)
  <2>3. Becomes(t, r) /\ Moved(r, old, r.pc) /\ r.pc = pc
    BY <1>7, <2>2 DEF RpmPC, FinishingPC
  <2> HIDE DEF r
  <2>4. Further(r, rpm_list', heap') /\ PhaseOf(r) = "finishing" /\ PhaseOf(old) = "finishing"
    BY <2>1, <2>2, <2>3 DEF Further, PhaseOf, InstallingPC, FinishingPC
  <2>5. ListsFilled'
    <3>1. \/ heap' = heap
          \/ \E s \in ListState : rpm_list # 0 /\ heap' = [heap EXCEPT ![rpm_list].state = s]
      BY <1>1, <1>13 DEF RpmFreeItems, RpmFreeList, RpmReset, Fails, ListState, Intact
    <3>2. ASSUME NEW s \in ListState, rpm_list # 0, heap' = [heap EXCEPT ![rpm_list].state = s]
          PROVE  ListsFilled'
      <4> DEFINE x == [heap[rpm_list] EXCEPT !.state = s]
      <4>1. rpm_list \in 1..Len(heap) /\ x.items = heap[rpm_list].items
        BY <1>1, <3>2 DEF ListRecord
      <4>2. heap' = [heap EXCEPT ![rpm_list] = x]
        BY <3>2
      <4> HIDE DEF x
      <4> QED BY <1>1, <4>1, <4>2 DEF ListsFilled
    <3> QED BY <1>6, <3>1, <3>2
  <2>6. ServiceInv' /\ Unseen
    BY <1>4, <1>5, <2>3, <2>4, <2>5 DEF Unseen, QueueOf, BatchOf, ReportedOf
  <2> QED BY <2>1, <2>6, NoReply DEF Implements, Unseen, Quiet, Service!Next, Service!Settle
<1>14. CASE RpmFinish(t)
  <2> DEFINE r == WithPc(old, "unlock")
  <2>1. /\ old.pc = "finish" /\ rpm_list = 0 /\ rpm_list' = rpm_list /\ heap' = heap
        /\ Go(t, "unlock") /\ Emit(Finished)
    BY <1>2, <1>3, <1>14 DEF RpmFinish, At, Further, daemonState
  <2>2. Becomes(t, r) /\ Moved(r, old, r.pc) /\ r.pc = "unlock"
    BY <1>7, <2>1 DEF EndPC
  <2> HIDE DEF r
  <2>3. Further(r, rpm_list', heap') /\ PhaseOf(r) = "idle" /\ PhaseOf(old) = "finishing"
    BY <2>1, <2>2 DEF Further, PhaseOf, InstallingPC, FinishingPC
  <2>4. ServiceInv' /\ Phase' = "idle" /\ Queue' = <<>> /\ Batch' = <<>> /\ Reported' = 0
    BY <1>5, <1>6, <2>1, <2>2, <2>3 DEF QueueOf, BatchOf, ReportedOf
  <2>5. Phase = "finishing" /\ Queue = <<>> /\ Batch = <<>> /\ Reported = 0
    BY <1>4, <2>3 DEF QueueOf, BatchOf, ReportedOf
  <2>6. Reply' = [kind |-> "Finished"]
    BY <2>1 DEF Emit, Reply, Finished
  <2> QED BY <2>4, <2>5, <2>6 DEF Implements, Service!Next, Service!Finish
<1> QED BY <1>8, <1>9, <1>10, <1>11, <1>12, <1>13, <1>14 DEF RpmInstall

-----------------------------------------------------------------------------

\* The daemon starts with nothing queued and nobody installing.
LEMMA InitService == Init => ServiceInv /\ Service!Init
<1> SUFFICES ASSUME Init PROVE ServiceInv /\ Service!Init
  OBVIOUS
<1> DEFINE m == NewThread("main", "idle")
<1>1. thread = <<m>> /\ heap = <<>> /\ rpm_list = 0 /\ signal = Silence
  BY DEF Init
<1>2. ~InPhase(m) /\ Further(m, rpm_list, heap) /\ PhaseOf(m) = "idle"
  BY DEF NewThread, InPhase, InstallingPC, FinishingPC, Further, PhaseOf
<1> HIDE DEF m
<1>3. DOMAIN thread = {1} /\ thread[1] = m
  BY <1>1
<1>4. ServiceInv
  BY <1>1, <1>2, <1>3, SerialInit DEF ServiceInv, ListsFilled
<1>5. Phase = "idle" /\ Queue = <<>> /\ Batch = <<>> /\ Reported = 0
  BY <1>1, <1>2, <1>3, View DEF QueueOf, BatchOf, ReportedOf
<1>6. Reply = Service!Silent
  BY <1>1 DEF Reply, Silence, Service!Silent
<1> QED BY <1>4, <1>5, <1>6 DEF Service!Init

\* Every step of the daemon is a step of the service, or shows nothing.
LEMMA NextService ==
  ASSUME ServiceInv, [SerialNext]_vars
  PROVE  ServiceInv' /\ [Service!Next]_Service!service
<1>1. SerialInv'
  BY SerialKept DEF ServiceInv
<1>2. Main \in DOMAIN thread
  BY EmptySeq, LenProperties DEF ServiceInv, SerialInv, WellFormed, TypeOK, Main
<1>3. CASE UNCHANGED vars
  <2>1. ServiceInv'
    BY <1>1, <1>3 DEF vars, ServiceInv, ListsFilled
  <2>2. UNCHANGED Service!service
    BY <1>3 DEF vars, Service!service, Queue, Phase, Batch, Reported, Reply, RoutineIn, Routine
  <2> QED BY <2>1, <2>2
<1>4. CASE Call
  BY <1>1, <1>4, CallService DEF Implements
<1>5. CASE MainStep
  BY <1>1, <1>2, <1>5, StartService, AppendService DEF MainStep, Implements
<1>6. ASSUME NEW t \in Workers, Worker(t)
      PROVE  Implements
  BY <1>1, <1>6, DebService, AppendService, RpmService, UnlockService DEF Worker, Workers
<1> QED BY <1>3, <1>4, <1>5, <1>6 DEF SerialNext, Next, Rest, Progress, Implements

\* As long as one thread at a time has to do with the list, an install takes
\* every package queued before it, in order, and reports each once, or none
\* when the transaction is refused, before its one Finished.
THEOREM DaemonImplementsService == SerialSpec => ImplementsService
<1>1. Init => ServiceInv /\ Service!Init
  BY InitService
<1>2. ServiceInv /\ [SerialNext]_vars => ServiceInv' /\ [Service!Next]_Service!service
  BY NextService
<1> QED BY <1>1, <1>2, PTL DEF SerialSpec, ImplementsService, Service!Spec
=============================================================================
