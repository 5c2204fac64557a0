-------------------------- MODULE DebConvertProofs --------------------------
(***************************************************************************)
(* Proofs about DebConvert, for any number of conversions and archives:    *)
(* its types, what a lone conversion can crash on, that it writes its own  *)
(* files and a whole package or none, and that it leaves nothing behind.   *)
(*                                                                         *)
(* The types need a count: tmpbuf is the number of names taken, two by     *)
(* each conversion at most.  The other four rest on one invariant,         *)
(* InOrder, that holds while no two conversions have run at once: by the   *)
(* place a running conversion has reached, Order says what m_apkg points   *)
(* to and whose name it has, what is in the directory the buffer names,    *)
(* and which of its members are there if no extraction failed.  Names that *)
(* have not been returned yet have empty directories, and RpmOrder says    *)
(* what may be at <deb>.rpm.                                               *)
(*                                                                         *)
(* A step is first turned into the fields it gives its thread (Moved and   *)
(* the lemmas named ...Is and ...Effect), so that the steps of the main    *)
(* lemmas deal with fields and not with updates.                           *)
(***************************************************************************)
EXTENDS DebConvert, FiniteSetTheorems, TLAPS

\* What the rpm of an archive ought to hold.
Own(d) == Data(d) \cup {f \in Control(d) : f.path \notin DirtyFiles}

\* Those that have taken a name, and those that have taken both.
Named1 == {c \in Conversion : conv[c].pc # "idle"}
Named2 == {c \in Conversion : conv[c].pc \notin {"idle", "meta"}}
NamesTaken == tmpbuf = Cardinality(Named1) + Cardinality(Named2)

\* No name is used before tmpnam has returned it.
FreshNames ==
  /\ \A n \in Names : n > tmpbuf => disk[n] = {}
  /\ \A c \in Conversion : conv[c].dir <= tmpbuf

IdleKnows == \A c \in Conversion : conv[c].pc = "idle" => conv[c].known = Nobody

OneRuns == \A c, e \in Conversion : Running(conv[c]) /\ Running(conv[e]) => c = e

OneLive == \A p \in DOMAIN heap : heap[p].live => p = m_apkg

\* The places before app_pkg_new and those between it and app_pkg_free.
\* deb_info is called before and after.
Reading == {"info", "fetch", "read"}
Early == {"meta", "extract", "untar", "control", "unpack", "new"}
Late == {"name", "details", "clean", "walk", "add", "write", "create", "payload", "free"}
Before(t) == t.pc \in Early \/ (t.pc \in Reading /\ t.known = Nobody)
Within(t) == t.pc \in Late \/ (t.pc \in Reading /\ t.known # Nobody)

\* The package m_apkg points to while thread t runs alone.
PackageOf(t) ==
  /\ Before(t) => m_apkg = 0
  /\ Within(t) => Live(m_apkg)
  /\ t.pc = "check" => m_apkg = 0 \/ Live(m_apkg)
  /\ t.pc = "null" => m_apkg # 0 /\ ~Live(m_apkg)
  /\ t.pc \in {"create", "payload"} => t.pkg = m_apkg

\* Whose name it has.
NameOf(t) ==
  /\ t.known \in {Nobody, t.deb}
  /\ t.pc \in {"meta", "extract", "untar", "control", "unpack"} => t.known = Nobody
  /\ t.pc \in {"new"} \cup (Late \ {"free"}) => t.known = t.deb
  /\ t.pc = "name" => heap[m_apkg].name = Nobody
  /\ Within(t) /\ t.pc \notin {"name", "free"} => heap[m_apkg].name = t.deb

\* What may be in the directory.
DirectoryOf(t) ==
  /\ t.pc \in {"untar", "unpack", "fetch", "read", "create", "payload"} => t.dir = tmpbuf
  /\ disk[tmpbuf] \subseteq Data(t.deb) \cup Control(t.deb)
  /\ t.pc \in {"meta", "extract"} => disk[tmpbuf] = {}
  /\ t.pc \in {"new", "name"} \cup Reading /\ t.known # Nobody =>
       "control" \in Paths(disk[tmpbuf])
  /\ t.pc \in {"walk", "add", "write", "create", "payload"} =>
       disk[tmpbuf] \subseteq Own(t.deb)

\* What is there and in the lists made from it, if no extraction failed.
WholeOf(t) ==
  t.whole =>
    /\ t.pc \in {"control", "unpack"} => Data(t.deb) \subseteq disk[tmpbuf]
    /\ t.pc \in {"new", "name", "details", "clean"} \cup Reading =>
         Data(t.deb) \cup Control(t.deb) \subseteq disk[tmpbuf]
    /\ t.pc \in {"walk", "add", "write", "create", "payload"} =>
         Own(t.deb) \subseteq disk[tmpbuf]
    /\ t.pc = "add" => Paths(Own(t.deb)) \subseteq t.todo \cup heap[m_apkg].files
    /\ t.pc = "write" => Paths(Own(t.deb)) \subseteq heap[m_apkg].files
    /\ t.pc \in {"create", "payload"} => Paths(Own(t.deb)) \subseteq t.todo

Order(t) == PackageOf(t) /\ NameOf(t) /\ DirectoryOf(t) /\ WholeOf(t)

\* What is at <deb>.rpm while one conversion runs at most.
RpmInv ==
  \A d \in Deb : rpm[d].state # "absent" =>
    /\ rpm[d].name = d
    /\ rpm[d].files \subseteq Own(d)
    /\ rpm[d].writer \in Conversion
    /\ rpm[d].state = "whole" /\ conv[rpm[d].writer].whole => rpm[d].files = Own(d)

PartInv ==
  \A d \in Deb : rpm[d].state \notin {"absent", "whole"} =>
    /\ rpm[d].state = "partial"
    /\ rpm[d].writer \in Conversion
    /\ conv[rpm[d].writer].pc = "payload" /\ conv[rpm[d].writer].deb = d

PayInv ==
  \A c \in Conversion : conv[c].pc = "payload" =>
    rpm[conv[c].deb].state = "partial" /\ rpm[conv[c].deb].writer = c

RpmOrder == RpmInv /\ PartInv /\ PayInv

\* The order, as long as no two conversions have run at once.
InOrder ==
  ~overlapped =>
    /\ OneRuns
    /\ OneLive
    /\ (\A c \in Conversion : ~Running(conv[c])) => m_apkg = 0
    /\ \A c \in Conversion : Running(conv[c]) => Order(conv[c])
    /\ RpmOrder

IInv == TypeOK /\ NamesTaken /\ FreshNames /\ IdleKnows /\ InOrder /\ CrashNeedsOverlap

-----------------------------------------------------------------------------
\* There are finitely many conversions, so their names can be counted.
LEMMA FiniteConversions == IsFiniteSet(Conversion) /\ Cardinality(Conversion) \in Nat
  BY DebAssumption, FS_CardinalityType DEF DebAssumption

\* The domain of a sequence.
LEMMA SeqDomain ==
  ASSUME NEW S, NEW s \in Seq(S)
  PROVE  DOMAIN s = 1..Len(s) /\ Len(s) \in Nat
  OBVIOUS

\* A package appended to the heap comes last and moves no other.
LEMMA SeqAppended ==
  ASSUME NEW S, NEW s \in Seq(S), NEW x
  PROVE  /\ DOMAIN Append(s, x) = 1..(Len(s) + 1)
         /\ Append(s, x)[Len(s) + 1] = x
         /\ \A p \in 1..Len(s) : Append(s, x)[p] = s[p]
  OBVIOUS

\* Becomes puts a thread of the right type in its place.
LEMMA BecomesThread ==
  ASSUME conv \in [Conversion -> Thread], overlapped \in BOOLEAN,
         NEW c \in Conversion, NEW t \in Thread, Becomes(c, t)
  PROVE  /\ conv' \in [Conversion -> Thread]
         /\ conv'[c] = t
         /\ \A e \in Conversion \ {c} : conv'[e] = conv[e]
         /\ overlapped' \in BOOLEAN
  BY Zenon DEF Becomes

\* Go moves one thread to another place and leaves its type.
LEMMA GoThread ==
  ASSUME conv \in [Conversion -> Thread], overlapped \in BOOLEAN,
         NEW c \in Conversion, NEW pc \in PC, Go(c, pc)
  PROVE  /\ conv' \in [Conversion -> Thread]
         /\ conv'[c] = [conv[c] EXCEPT !.pc = pc]
         /\ \A e \in Conversion \ {c} : conv'[e] = conv[e]
         /\ overlapped' \in BOOLEAN
<1>1. [conv[c] EXCEPT !.pc = pc] \in Thread
  BY DEF Thread
<1> QED
  BY <1>1, BecomesThread, Zenon DEF Go

\* The members of the archives, and directories they are put into, are of the right types.
LEMMA MembersType ==
  /\ \A d \in Deb : Data(d) \subseteq File /\ Control(d) \subseteq File
  /\ \A S \in SUBSET File : Paths(S) \subseteq Path
  /\ \A S, new \in SUBSET File : Put(S, new) \subseteq File
<1>1. \A d \in Deb : Data(d) \subseteq File /\ Control(d) \subseteq File
  BY DEF Data, Control, File, Path
<1>2. \A S \in SUBSET File : Paths(S) \subseteq Path
  BY DEF File, Paths
<1>3. \A S, new \in SUBSET File : Put(S, new) \subseteq File
  BY DEF Put
<1> QED
  BY <1>1, <1>2, <1>3


\* The updates of a thread that the actions make keep its type.  First the
\* directory fixed at a fork ...
LEMMA ThreadInDir ==
  ASSUME NEW t \in Thread, NEW pc \in PC, NEW dir \in Names
  PROVE  [t EXCEPT !.pc = pc, !.dir = dir] \in Thread
  BY DEF Thread

\* ... the directory of deb_info, set before the test ...
LEMMA ThreadDirFirst ==
  ASSUME NEW t \in Thread, NEW dir \in Names, NEW pc \in PC
  PROVE  [t EXCEPT !.dir = dir, !.pc = pc] \in Thread
  BY DEF Thread

\* ... the name found in the control file ...
LEMMA ThreadKnows ==
  ASSUME NEW t \in Thread, NEW pc \in PC, NEW dir \in Names, NEW known \in Deb \cup {Nobody}
  PROVE  [t EXCEPT !.pc = pc, !.dir = dir, !.known = known] \in Thread
  BY DEF Thread

\* ... the end of an extraction ...
LEMMA ThreadExtracted ==
  ASSUME NEW t \in Thread, NEW pc \in PC, NEW dir \in Names, NEW whole \in BOOLEAN
  PROVE  [t EXCEPT !.pc = pc, !.dir = dir, !.whole = whole] \in Thread
  BY DEF Thread

\* ... the problem reported ...
LEMMA ThreadSaid ==
  ASSUME NEW t \in Thread, NEW pc \in PC, NEW said \in {"nothing", "problem", "converted"}
  PROVE  [t EXCEPT !.pc = pc, !.said = said] \in Thread
  BY DEF Thread

\* ... the list of the directory ...
LEMMA ThreadLists ==
  ASSUME NEW t \in Thread, NEW pc \in PC, NEW todo \in SUBSET Path
  PROVE  [t EXCEPT !.pc = pc, !.todo = todo] \in Thread
  BY DEF Thread

\* ... the package handed to app_pkg_write ...
LEMMA ThreadTakes ==
  ASSUME NEW t \in Thread, NEW pc \in PC, NEW pkg \in Nat, NEW dir \in Names,
      NEW todo \in SUBSET Path
  PROVE  [t EXCEPT !.pc = pc, !.pkg = pkg, !.dir = dir, !.todo = todo] \in Thread
  BY DEF Thread

\* ... the end of the conversion reported ...
LEMMA ThreadReports ==
  ASSUME NEW t \in Thread, NEW pc \in PC, NEW said \in {"nothing", "problem",
                                                        "converted"},
                                                            NEW todo \in SUBSET Path,
                                                                NEW pkg \in Nat,
                                                                    NEW dir \in Names
  PROVE  [t EXCEPT !.pc = pc, !.said = said, !.todo = todo, !.pkg = pkg,
          !.dir = dir] \in Thread
  BY DEF Thread

\* ... and a file added.
LEMMA ThreadTodo ==
  ASSUME NEW t \in Thread, NEW todo \in SUBSET Path
  PROVE  [t EXCEPT !.todo = todo] \in Thread
  BY DEF Thread

\* A live package is one of the heap, so m_apkg may be followed.
LEMMA LivePackage ==
  ASSUME heap \in Seq(AppPkg), NEW p, Live(p)
  PROVE  /\ p \in 1..Len(heap) /\ p \in Nat
         /\ heap[p] \in AppPkg
         /\ heap[p].name \in Deb \cup {Nobody}
         /\ heap[p].files \in SUBSET Path
<1>1. p \in 1..Len(heap)
  BY DEF Live
<1>2. heap[p] \in AppPkg
  BY <1>1
<1> QED
  BY <1>1, <1>2 DEF AppPkg

\* A package keeps its type when it gets a name or a file.
LEMMA PackageFields ==
  ASSUME NEW a \in AppPkg, NEW name \in Deb \cup {Nobody}, NEW files0 \in SUBSET Path
  PROVE  /\ [a EXCEPT !.name = name] \in AppPkg
         /\ [a EXCEPT !.files = files0] \in AppPkg
  BY DEF AppPkg

\* So does the heap when one package of it changes ...
LEMMA HeapUpdate ==
  ASSUME heap \in Seq(AppPkg), NEW p \in 1..Len(heap), NEW a \in AppPkg,
         heap' = [heap EXCEPT ![p] = a]
  PROVE  heap' \in Seq(AppPkg) /\ Len(heap') = Len(heap)
  OBVIOUS

\* ... and when one is allocated.
LEMMA HeapAppend ==
  ASSUME heap \in Seq(AppPkg), NEW a \in AppPkg, heap' = Append(heap, a)
  PROVE  /\ heap' \in Seq(AppPkg) /\ Len(heap') = Len(heap) + 1
         /\ Len(heap) + 1 \in 1..Len(heap')
  OBVIOUS

\* Names are numbers ...
LEMMA NamesNat == Names \subseteq Nat
  BY DEF Names

\* ... 0 among them.
LEMMA ZeroName == 0 \in Names
<1>1. Cardinality(Conversion) \in Nat
  BY FiniteConversions
<1>2. \A k \in Nat : 0 \in 0..(2 * k)
  OBVIOUS
<1> QED
  BY <1>1, <1>2, Zenon DEF Names

\* Every step keeps the types, given that the buffer can take another name
\* when one is taken.
LEMMA TypeStep ==
  ASSUME TypeOK, NEW c \in Conversion, Step(c), TakeName(c) => tmpbuf + 1 \in Names
  PROVE  TypeOK'
<1> USE DEF TypeOK, statics, files, At
<1>0. conv \in [Conversion -> Thread] /\ conv[c] \in Thread /\ overlapped \in BOOLEAN
  OBVIOUS
<1>p. PC = {"idle", "meta", "extract", "untar", "control", "unpack",
       "info", "fetch", "read", "new", "name", "details", "clean", "walk",
       "add", "write", "create", "payload", "check", "free", "null", "returned"}
  BY DEF PC
<1>n. 0 \in Names
  BY ZeroName
<1> DEFINE Typed == conv' \in [Conversion -> Thread] /\ overlapped' \in BOOLEAN
<1>1. CASE TakeName(c)
  <2>1. Typed
    BY <1>0, <1>p, <1>1, GoThread DEF TakeName
  <2> QED
    BY <1>1, <2>1 DEF TakeName
<1>2. CASE GiveUp(c)
  <2>1. [conv[c] EXCEPT !.pc = "check", !.said = "problem"] \in Thread
    BY <1>0, <1>p, ThreadSaid
  <2>2. Typed
    BY <1>0, <2>1, <1>2, BecomesThread DEF GiveUp
  <2> QED
    BY <1>2, <2>2 DEF GiveUp
<1>3. CASE Extract(c)
  <2>1. ASSUME NEW from, NEW to \in PC, BeginExtract(c, from, to)
        PROVE  TypeOK'
    <3>1. [conv[c] EXCEPT !.pc = to, !.dir = tmpbuf] \in Thread
      BY <1>0, ThreadInDir
    <3>2. Typed
      BY <1>0, <2>1, <3>1, BecomesThread DEF BeginExtract
    <3> QED
      BY <2>1, <3>2 DEF BeginExtract
  <2>2. ASSUME NEW from, NEW members \in SUBSET File, NEW to \in PC, EndExtract(c, from,
                                                                                members, to)
        PROVE  TypeOK'
    <3>1. PICK got \in {members, {}} :
       /\ disk' = [disk EXCEPT ![conv[c].dir] = Put(@, got)]
       /\ Becomes(c, [conv[c] EXCEPT !.pc = to, !.dir = 0, !.whole = @ /\ got = members])
      BY <2>2 DEF EndExtract
    <3>2. [conv[c] EXCEPT !.pc = to, !.dir = 0, !.whole = @ /\ got = members] \in Thread
      <4>1. (conv[c].whole /\ got = members) \in BOOLEAN
        OBVIOUS
      <4> QED
        BY <4>1, <1>0, <1>n, ThreadExtracted
    <3>3. Typed
      BY <1>0, <3>1, <3>2, BecomesThread
    <3>4. \A n \in Names : Put(disk[n], got) \in SUBSET File
      BY MembersType
    <3> QED
      BY <2>2, <3>1, <3>3, <3>4 DEF EndExtract
  <2>3. Data(conv[c].deb) \in SUBSET File /\ Control(conv[c].deb) \in SUBSET File
    BY <1>0, MembersType DEF Thread
  <2> QED
    BY <1>3, <2>1, <2>2, <2>3, <1>p DEF Extract
<1>4. CASE InfoTest(c)
  <2>1. ASSUME NEW pc \in PC
        PROVE  [conv[c] EXCEPT !.dir = tmpbuf, !.pc = pc] \in Thread
    BY <1>0, ThreadDirFirst
  <2>2. Typed
    BY <1>0, <1>p, <2>1, <1>4, BecomesThread DEF InfoTest
  <2> QED
    BY <1>4, <2>2 DEF InfoTest
<1>5. CASE Refetch(c)
  <2>1. Typed
    BY <1>0, <1>p, <1>5, GoThread DEF Refetch
  <2>2. \A got \in {Control(conv[c].deb), {}} : Put(disk[tmpbuf], got) \in SUBSET File
    BY <1>0, MembersType DEF Thread
  <2>3. disk' \in [Names -> SUBSET File]
    BY <1>5, <2>2 DEF Refetch
  <2> QED
    BY <1>5, <2>1, <2>3 DEF Refetch
<1>6. CASE ReadIdentity(c)
  <2>1. ASSUME NEW f \in Found(c)
        PROVE  [conv[c] EXCEPT !.pc = "new", !.dir = 0, !.known = f.owner] \in Thread
    <3>1. f.owner \in Deb \cup {Nobody}
      <4>1. conv[c].dir \in Names
        BY <1>0 DEF Thread
      <4>2. f \in File
        BY <4>1 DEF Found
      <4> QED
        BY <4>2 DEF File
    <3> QED
      BY <1>0, <1>n, <1>p, <3>1, ThreadKnows
  <2>2. [conv[c] EXCEPT !.pc = "check", !.dir = 0] \in Thread
    BY <1>0, <1>n, <1>p, ThreadInDir
  <2>3. Typed
    BY <1>0, <2>1, <2>2, <1>6, BecomesThread DEF ReadIdentity
  <2> QED
    BY <1>6, <2>3 DEF ReadIdentity
<1>7. CASE ReadDescription(c)
  <2>1. [conv[c] EXCEPT !.pc = "details", !.dir = 0] \in Thread
    BY <1>0, <1>n, <1>p, ThreadInDir
  <2>2. CASE Becomes(c, [conv[c] EXCEPT !.pc = "details",
                         !.dir = 0]) /\ UNCHANGED <<statics, files, fault>>
    <3>1. Typed
      BY <1>0, <2>1, <2>2, BecomesThread
    <3> QED
      BY <2>2, <3>1
  <2>3. CASE Fails("no description")
    BY <2>3 DEF Fails
  <2> QED
    BY <1>7, <2>2, <2>3 DEF ReadDescription
<1>8. CASE NewPackage(c)
  <2>1. Typed
    BY <1>0, <1>p, <1>8, GoThread DEF NewPackage
  <2>2. [name |-> Nobody, files |-> {}, live |-> TRUE] \in AppPkg
    BY DEF AppPkg
  <2> QED
    BY <1>8, <2>1, <2>2 DEF NewPackage
<1>9. CASE SetName(c)
  <2>1. CASE SetName(c) /\ Fails("package gone")
    BY <2>1 DEF Fails
  <2>2. CASE Live(m_apkg) /\ Go(c, "info") /\ UNCHANGED <<tmpbuf, m_apkg, files, fault>>
           /\ heap' = [heap EXCEPT ![m_apkg].name = IF @ = Nobody THEN conv[c].known ELSE @]
    <3>1. Typed
      BY <1>0, <1>p, <2>2, GoThread
    <3>2. m_apkg \in 1..Len(heap) /\ heap[m_apkg] \in AppPkg /\ conv[c].known \in Deb \cup {Nobody}
      BY <1>0, <2>2, LivePackage DEF Thread
    <3>3. [heap[m_apkg] EXCEPT !.name = IF @ = Nobody THEN conv[c].known ELSE @] \in AppPkg
      <4>1. \A n \in Deb \cup {Nobody} : [heap[m_apkg] EXCEPT !.name = n] \in AppPkg
        BY <3>2, PackageFields
      <4>2. (IF heap[m_apkg].name = Nobody THEN conv[c].known ELSE heap[m_apkg].name) \in Deb \cup {Nobody}
        BY <2>2, <3>2, LivePackage
      <4> QED
        BY <4>1, <4>2, Zenon
    <3>4. heap' \in Seq(AppPkg) /\ Len(heap') = Len(heap)
      BY <2>2, <3>2, <3>3, HeapUpdate
    <3> QED
      BY <2>2, <3>1, <3>4
  <2> QED
    BY <1>9, <2>1, <2>2 DEF SetName
<1>10. CASE SetDetails(c)
  <2>1. CASE Go(c, "clean") /\ UNCHANGED <<statics, files, fault>>
    <3>1. Typed
      BY <1>0, <1>p, <2>1, GoThread
    <3> QED
      BY <2>1, <3>1
  <2>2. CASE Fails("package gone")
    BY <2>2 DEF Fails
  <2> QED
    BY <1>10, <2>1, <2>2 DEF SetDetails
<1>11. CASE CleanControl(c)
  <2>1. Typed
    BY <1>0, <1>p, <1>11, GoThread DEF CleanControl
  <2>2. {f \in disk[tmpbuf] : f.path \notin DirtyFiles} \in SUBSET File
    OBVIOUS
  <2> QED
    BY <1>11, <2>1, <2>2 DEF CleanControl
<1>12. CASE Walk(c)
  <2>1. CASE Becomes(c, [conv[c] EXCEPT !.pc = "add", !.todo = Paths(disk[tmpbuf])])
             /\ UNCHANGED <<statics, files, fault>>
    <3>1. Paths(disk[tmpbuf]) \subseteq Path
      BY MembersType
    <3>2. [conv[c] EXCEPT !.pc = "add", !.todo = Paths(disk[tmpbuf])] \in Thread
      BY <1>0, <1>p, <3>1, ThreadLists
    <3>3. Typed
      BY <1>0, <2>1, <3>2, BecomesThread
    <3> QED
      BY <2>1, <3>3
  <2>2. ASSUME NEW p \in conv[c].todo, Live(m_apkg),
               heap' = [heap EXCEPT ![m_apkg].files = @ \cup {p}],
               Becomes(c, [conv[c] EXCEPT !.todo = @ \ {p}]),
               UNCHANGED <<tmpbuf, m_apkg, files, fault>>
        PROVE  TypeOK'
    <3>1. m_apkg \in 1..Len(heap) /\ heap[m_apkg] \in AppPkg /\ p \in Path
      BY <1>0, <2>2, LivePackage DEF Thread
    <3>2. [heap[m_apkg] EXCEPT !.files = @ \cup {p}] \in AppPkg
      BY <2>2, <3>1, LivePackage, PackageFields
    <3>3. heap' \in Seq(AppPkg) /\ Len(heap') = Len(heap)
      BY <2>2, <3>1, <3>2, HeapUpdate
    <3>4. [conv[c] EXCEPT !.todo = @ \ {p}] \in Thread
      <4>1. conv[c].todo \in SUBSET Path
        BY <1>0 DEF Thread
      <4>2. \A S \in SUBSET Path : [conv[c] EXCEPT !.todo = S] \in Thread
        BY <1>0, ThreadTodo
      <4>3. conv[c].todo \ {p} \in SUBSET Path
        BY <4>1, Zenon
      <4> QED
        BY <4>2, <4>3, Zenon
    <3>5. Typed
      BY <1>0, <2>2, <3>4, BecomesThread
    <3> QED
      BY <2>2, <3>3, <3>5
  <2>3. CASE Fails("package gone")
    BY <2>3 DEF Fails
  <2>4. CASE Go(c, "write") /\ UNCHANGED <<statics, files, fault>>
    <3>1. Typed
      BY <1>0, <1>p, <2>4, GoThread
    <3> QED
      BY <2>4, <3>1
  <2> QED
    BY <1>12, <2>1, <2>2, <2>3, <2>4 DEF Walk
<1>r. Reported(c) => Typed
  <2>1. [conv[c] EXCEPT !.pc = "check", !.said = "converted", !.todo = {}, !.pkg = 0,
         !.dir = 0] \in Thread
    BY <1>0, <1>n, <1>p, ThreadReports
  <2> QED
    BY <1>0, <2>1, BecomesThread DEF Reported
<1>13. CASE CheckFiles(c)
  <2>1. CASE /\ Live(m_apkg)
             /\ Becomes(c, [conv[c] EXCEPT !.pc = "create", !.pkg = m_apkg, !.dir = tmpbuf,
                                           !.todo = heap[m_apkg].files])
             /\ UNCHANGED <<statics, files, fault>>
    <3>1. m_apkg \in Nat /\ heap[m_apkg].files \in SUBSET Path
      BY <2>1, LivePackage
    <3>2. [conv[c] EXCEPT !.pc = "create", !.pkg = m_apkg, !.dir = tmpbuf,
                          !.todo = heap[m_apkg].files] \in Thread
      BY <1>0, <1>p, <3>1, ThreadTakes
    <3>3. Typed
      BY <1>0, <2>1, <3>2, BecomesThread
    <3> QED
      BY <2>1, <3>3
  <2>2. CASE Reported(c) /\ UNCHANGED <<statics, files, fault>>
    BY <2>2, <1>r
  <2>3. CASE Fails("package gone")
    BY <2>3 DEF Fails
  <2> QED
    BY <1>13, <2>1, <2>2, <2>3 DEF CheckFiles
<1>14. CASE Create(c)
  <2>1. CASE /\ Live(conv[c].pkg)
        /\ rpm' = [rpm EXCEPT ![conv[c].deb] = [state |-> "partial", writer |-> c,
                      name |-> heap[conv[c].pkg].name, files |-> {}]]
        /\ Go(c, "payload")
        /\ UNCHANGED <<statics, disk, fault>>
    <3>1. Typed
      BY <1>0, <1>p, <2>1, GoThread
    <3>2. heap[conv[c].pkg].name \in Deb \cup {Nobody}
      BY <2>1, LivePackage
    <3>3. [state |-> "partial", writer |-> c, name |-> heap[conv[c].pkg].name,
           files |-> {}] \in Rpm
      BY <3>2 DEF Rpm
    <3> QED
      BY <2>1, <3>1, <3>3
  <2>2. CASE Fails("package gone")
    BY <2>2 DEF Fails
  <2> QED
    BY <1>14, <2>1, <2>2 DEF Create
<1>15. CASE Payload(c)
  <2> DEFINE r == rpm[conv[c].deb]
             cpio == {f \in disk[conv[c].dir] : f.path \in conv[c].todo}
             new == IF r.state = "partial" /\ r.writer = c
                    THEN [r EXCEPT !.state = "whole", !.files = cpio]
                    ELSE [r EXCEPT !.state = IF @ = "absent" THEN @ ELSE "garbled"]
  <2>1. CASE rpm' = [rpm EXCEPT ![conv[c].deb] = new] /\ Reported(c) /\ UNCHANGED <<statics, disk, fault>>
    <3>1. r \in Rpm /\ cpio \in SUBSET File
      BY DEF Thread
    <3>2. new \in Rpm
      <4> HIDE DEF r, cpio
      <4> QED
        BY <3>1 DEF Rpm
    <3> QED
      BY <2>1, <3>2, <1>r
  <2>2. CASE Fails("package gone")
    BY <2>2 DEF Fails
  <2> QED
    BY <1>15, <2>1, <2>2 DEF Payload
<1>16. CASE WriteFails(c)
  <2>1. conv[c].deb \in Deb
    BY <1>0 DEF Thread
  <2>2. \A q \in Rpm : [q EXCEPT !.state = "absent"] \in Rpm
    BY DEF Rpm
  <2> QED
    BY <1>16, <2>1, <2>2, <1>r DEF WriteFails
<1>17. CASE Check(c)
  <2>1. Typed
    BY <1>0, <1>p, <1>17, GoThread DEF Check
  <2> QED
    BY <1>17, <2>1 DEF Check
<1>18. CASE Free(c)
  <2>1. CASE Fails("freed again")
    BY <2>1 DEF Fails
  <2>2. CASE Live(m_apkg) /\ Go(c, "null") /\ UNCHANGED <<tmpbuf, m_apkg, files, fault>>
           /\ heap' = [heap EXCEPT ![m_apkg] = [name |-> Nobody, files |-> {},
                                                live |-> FALSE]]
    <3>1. Typed
      BY <1>0, <1>p, <2>2, GoThread
    <3>2. m_apkg \in 1..Len(heap) /\ [name |-> Nobody, files |-> {},
                                      live |-> FALSE] \in AppPkg
      BY <2>2, LivePackage DEF AppPkg
    <3>3. heap' \in Seq(AppPkg) /\ Len(heap') = Len(heap)
      BY <2>2, <3>2, HeapUpdate
    <3> QED
      BY <2>2, <3>1, <3>3
  <2> QED
    BY <1>18, <2>1, <2>2 DEF Free
<1>19. CASE Null(c)
  <2>1. Typed
    BY <1>0, <1>p, <1>19, GoThread DEF Null
  <2> QED
    BY <1>19, <2>1 DEF Null
<1> QED
  BY <1>1, <1>2, <1>3, <1>4, <1>5, <1>6, <1>7, <1>8, <1>9, <1>10, <1>11,
     <1>12, <1>13, <1>14, <1>15, <1>16, <1>17, <1>18, <1>19 DEF Step

\* What Becomes does to the threads and to the history.
LEMMA BecomesIs ==
  ASSUME conv \in [Conversion -> Thread], NEW c \in Conversion, NEW t, Becomes(c, t)
  PROVE  /\ conv'[c] = t
         /\ \A e \in Conversion \ {c} : conv'[e] = conv[e]
         /\ overlapped' = (overlapped \/ (Running(t) /\ \E e \in Conversion \ {c} : Running(conv[e])))
  BY Zenon DEF Becomes

\* The fields thread c has after a step; the others stay as they are.
Moved(c, pc, dir, known, todo, pkg, whole, said) ==
  /\ conv'[c].pc = pc /\ conv'[c].deb = conv[c].deb /\ conv'[c].dir = dir
  /\ conv'[c].known = known /\ conv'[c].todo = todo /\ conv'[c].pkg = pkg
  /\ conv'[c].whole = whole /\ conv'[c].said = said
  /\ \A e \in Conversion \ {c} : conv'[e] = conv[e]
  /\ overlapped' = (overlapped \/ (Running(conv'[c]) /\ \E e \in Conversion \ {c} : Running(conv[e])))

\* Becomes and Go, field by field, for each of the updates above.
LEMMA GoIs ==
  ASSUME conv \in [Conversion -> Thread], NEW c \in Conversion, NEW pc,
         Go(c, pc)
  PROVE  Moved(c, pc, conv[c].dir, conv[c].known, conv[c].todo, conv[c].pkg,
               conv[c].whole, conv[c].said)
<1> DEFINE t == [conv[c] EXCEPT !.pc = pc]
<1>1. /\ conv'[c] = t
      /\ \A e \in Conversion \ {c} : conv'[e] = conv[e]
      /\ overlapped' = (overlapped \/ (Running(t) /\ \E e \in Conversion \ {c} : Running(conv[e])))
  BY BecomesIs, Zenon DEF Go
<1>2. conv[c] \in Thread
  OBVIOUS
<1>3. t.pc = pc /\ t.dir = conv[c].dir /\ t.known = conv[c].known /\ t.todo = conv[c].todo /\ t.pkg = conv[c].pkg /\ t.whole = conv[c].whole /\ t.said = conv[c].said /\ t.deb = conv[c].deb
  BY <1>2 DEF Thread
<1> HIDE DEF t
<1> QED
  BY <1>1, <1>3, Zenon DEF Moved

\* The same, when the directory is fixed.
LEMMA InDirIs ==
  ASSUME conv \in [Conversion -> Thread], NEW c \in Conversion, NEW pc, NEW dir,
         Becomes(c, [conv[c] EXCEPT !.pc = pc, !.dir = dir])
  PROVE  Moved(c, pc, dir, conv[c].known, conv[c].todo, conv[c].pkg, conv[c].whole,
               conv[c].said)
<1> DEFINE t == [conv[c] EXCEPT !.pc = pc, !.dir = dir]
<1>1. /\ conv'[c] = t
      /\ \A e \in Conversion \ {c} : conv'[e] = conv[e]
      /\ overlapped' = (overlapped \/ (Running(t) /\ \E e \in Conversion \ {c} : Running(conv[e])))
  BY BecomesIs, Zenon
<1>2. conv[c] \in Thread
  OBVIOUS
<1>3. t.pc = pc /\ t.dir = dir /\ t.known = conv[c].known /\ t.todo = conv[c].todo /\ t.pkg = conv[c].pkg /\ t.whole = conv[c].whole /\ t.said = conv[c].said /\ t.deb = conv[c].deb
  BY <1>2 DEF Thread
<1> HIDE DEF t
<1> QED
  BY <1>1, <1>3, Zenon DEF Moved

\* The same, in deb_info.
LEMMA DirFirstIs ==
  ASSUME conv \in [Conversion -> Thread], NEW c \in Conversion, NEW dir, NEW pc,
         Becomes(c, [conv[c] EXCEPT !.dir = dir, !.pc = pc])
  PROVE  Moved(c, pc, dir, conv[c].known, conv[c].todo, conv[c].pkg, conv[c].whole,
               conv[c].said)
<1> DEFINE t == [conv[c] EXCEPT !.dir = dir, !.pc = pc]
<1>1. /\ conv'[c] = t
      /\ \A e \in Conversion \ {c} : conv'[e] = conv[e]
      /\ overlapped' = (overlapped \/ (Running(t) /\ \E e \in Conversion \ {c} : Running(conv[e])))
  BY BecomesIs, Zenon
<1>2. conv[c] \in Thread
  OBVIOUS
<1>3. t.pc = pc /\ t.dir = dir /\ t.known = conv[c].known /\ t.todo = conv[c].todo /\ t.pkg = conv[c].pkg /\ t.whole = conv[c].whole /\ t.said = conv[c].said /\ t.deb = conv[c].deb
  BY <1>2 DEF Thread
<1> HIDE DEF t
<1> QED
  BY <1>1, <1>3, Zenon DEF Moved

\* The same, when the name is found.
LEMMA KnowsIs ==
  ASSUME conv \in [Conversion -> Thread], NEW c \in Conversion, NEW pc, NEW dir, NEW known,
         Becomes(c, [conv[c] EXCEPT !.pc = pc, !.dir = dir, !.known = known])
  PROVE  Moved(c, pc, dir, known, conv[c].todo, conv[c].pkg, conv[c].whole, conv[c].said)
<1> DEFINE t == [conv[c] EXCEPT !.pc = pc, !.dir = dir, !.known = known]
<1>1. /\ conv'[c] = t
      /\ \A e \in Conversion \ {c} : conv'[e] = conv[e]
      /\ overlapped' = (overlapped \/ (Running(t) /\ \E e \in Conversion \ {c} : Running(conv[e])))
  BY BecomesIs, Zenon
<1>2. conv[c] \in Thread
  OBVIOUS
<1>3. t.pc = pc /\ t.dir = dir /\ t.known = known /\ t.todo = conv[c].todo /\ t.pkg = conv[c].pkg /\ t.whole = conv[c].whole /\ t.said = conv[c].said /\ t.deb = conv[c].deb
  BY <1>2 DEF Thread
<1> HIDE DEF t
<1> QED
  BY <1>1, <1>3, Zenon DEF Moved

\* The same, at the end of an extraction.
LEMMA ExtractedIs ==
  ASSUME conv \in [Conversion -> Thread], NEW c \in Conversion, NEW pc, NEW dir, NEW whole,
         Becomes(c, [conv[c] EXCEPT !.pc = pc, !.dir = dir, !.whole = whole])
  PROVE  Moved(c, pc, dir, conv[c].known, conv[c].todo, conv[c].pkg, whole, conv[c].said)
<1> DEFINE t == [conv[c] EXCEPT !.pc = pc, !.dir = dir, !.whole = whole]
<1>1. /\ conv'[c] = t
      /\ \A e \in Conversion \ {c} : conv'[e] = conv[e]
      /\ overlapped' = (overlapped \/ (Running(t) /\ \E e \in Conversion \ {c} : Running(conv[e])))
  BY BecomesIs, Zenon
<1>2. conv[c] \in Thread
  OBVIOUS
<1>3. t.pc = pc /\ t.dir = dir /\ t.known = conv[c].known /\ t.todo = conv[c].todo /\ t.pkg = conv[c].pkg /\ t.whole = whole /\ t.said = conv[c].said /\ t.deb = conv[c].deb
  BY <1>2 DEF Thread
<1> HIDE DEF t
<1> QED
  BY <1>1, <1>3, Zenon DEF Moved

\* The same, when the problem is reported.
LEMMA SaidIs ==
  ASSUME conv \in [Conversion -> Thread], NEW c \in Conversion, NEW pc, NEW said,
         Becomes(c, [conv[c] EXCEPT !.pc = pc, !.said = said])
  PROVE  Moved(c, pc, conv[c].dir, conv[c].known, conv[c].todo, conv[c].pkg,
               conv[c].whole, said)
<1> DEFINE t == [conv[c] EXCEPT !.pc = pc, !.said = said]
<1>1. /\ conv'[c] = t
      /\ \A e \in Conversion \ {c} : conv'[e] = conv[e]
      /\ overlapped' = (overlapped \/ (Running(t) /\ \E e \in Conversion \ {c} : Running(conv[e])))
  BY BecomesIs, Zenon
<1>2. conv[c] \in Thread
  OBVIOUS
<1>3. t.pc = pc /\ t.dir = conv[c].dir /\ t.known = conv[c].known /\ t.todo = conv[c].todo /\ t.pkg = conv[c].pkg /\ t.whole = conv[c].whole /\ t.said = said /\ t.deb = conv[c].deb
  BY <1>2 DEF Thread
<1> HIDE DEF t
<1> QED
  BY <1>1, <1>3, Zenon DEF Moved

\* The same, when the directory is listed.
LEMMA ListsIs ==
  ASSUME conv \in [Conversion -> Thread], NEW c \in Conversion, NEW pc, NEW todo,
         Becomes(c, [conv[c] EXCEPT !.pc = pc, !.todo = todo])
  PROVE  Moved(c, pc, conv[c].dir, conv[c].known, todo, conv[c].pkg, conv[c].whole,
               conv[c].said)
<1> DEFINE t == [conv[c] EXCEPT !.pc = pc, !.todo = todo]
<1>1. /\ conv'[c] = t
      /\ \A e \in Conversion \ {c} : conv'[e] = conv[e]
      /\ overlapped' = (overlapped \/ (Running(t) /\ \E e \in Conversion \ {c} : Running(conv[e])))
  BY BecomesIs, Zenon
<1>2. conv[c] \in Thread
  OBVIOUS
<1>3. t.pc = pc /\ t.dir = conv[c].dir /\ t.known = conv[c].known /\ t.todo = todo /\ t.pkg = conv[c].pkg /\ t.whole = conv[c].whole /\ t.said = conv[c].said /\ t.deb = conv[c].deb
  BY <1>2 DEF Thread
<1> HIDE DEF t
<1> QED
  BY <1>1, <1>3, Zenon DEF Moved

\* The same, when a file is added.
LEMMA TodoIs ==
  ASSUME conv \in [Conversion -> Thread], NEW c \in Conversion, NEW todo,
         Becomes(c, [conv[c] EXCEPT !.todo = todo])
  PROVE  Moved(c, conv[c].pc, conv[c].dir, conv[c].known, todo, conv[c].pkg,
               conv[c].whole, conv[c].said)
<1> DEFINE t == [conv[c] EXCEPT !.todo = todo]
<1>1. /\ conv'[c] = t
      /\ \A e \in Conversion \ {c} : conv'[e] = conv[e]
      /\ overlapped' = (overlapped \/ (Running(t) /\ \E e \in Conversion \ {c} : Running(conv[e])))
  BY BecomesIs, Zenon
<1>2. conv[c] \in Thread
  OBVIOUS
<1>3. t.pc = conv[c].pc /\ t.dir = conv[c].dir /\ t.known = conv[c].known /\ t.todo = todo /\ t.pkg = conv[c].pkg /\ t.whole = conv[c].whole /\ t.said = conv[c].said /\ t.deb = conv[c].deb
  BY <1>2 DEF Thread
<1> HIDE DEF t
<1> QED
  BY <1>1, <1>3, Zenon DEF Moved

\* The same, when the package is handed over.
LEMMA TakesIs ==
  ASSUME conv \in [Conversion -> Thread], NEW c \in Conversion, NEW pc, NEW pkg, NEW dir,
      NEW todo,
         Becomes(c, [conv[c] EXCEPT !.pc = pc, !.pkg = pkg, !.dir = dir, !.todo = todo])
  PROVE  Moved(c, pc, dir, conv[c].known, todo, pkg, conv[c].whole, conv[c].said)
<1> DEFINE t == [conv[c] EXCEPT !.pc = pc, !.pkg = pkg, !.dir = dir, !.todo = todo]
<1>1. /\ conv'[c] = t
      /\ \A e \in Conversion \ {c} : conv'[e] = conv[e]
      /\ overlapped' = (overlapped \/ (Running(t) /\ \E e \in Conversion \ {c} : Running(conv[e])))
  BY BecomesIs, Zenon
<1>2. conv[c] \in Thread
  OBVIOUS
<1>3. t.pc = pc /\ t.dir = dir /\ t.known = conv[c].known /\ t.todo = todo /\ t.pkg = pkg /\ t.whole = conv[c].whole /\ t.said = conv[c].said /\ t.deb = conv[c].deb
  BY <1>2 DEF Thread
<1> HIDE DEF t
<1> QED
  BY <1>1, <1>3, Zenon DEF Moved

\* The same, when the end is reported.
LEMMA ReportsIs ==
  ASSUME conv \in [Conversion -> Thread], NEW c \in Conversion, NEW pc, NEW said,
      NEW todo, NEW pkg, NEW dir,
         Becomes(c, [conv[c] EXCEPT !.pc = pc, !.said = said, !.todo = todo, !.pkg = pkg,
                     !.dir = dir])
  PROVE  Moved(c, pc, dir, conv[c].known, todo, pkg, conv[c].whole, said)
<1> DEFINE t == [conv[c] EXCEPT !.pc = pc, !.said = said, !.todo = todo, !.pkg = pkg,
                 !.dir = dir]
<1>1. /\ conv'[c] = t
      /\ \A e \in Conversion \ {c} : conv'[e] = conv[e]
      /\ overlapped' = (overlapped \/ (Running(t) /\ \E e \in Conversion \ {c} : Running(conv[e])))
  BY BecomesIs, Zenon
<1>2. conv[c] \in Thread
  OBVIOUS
<1>3. t.pc = pc /\ t.dir = dir /\ t.known = conv[c].known /\ t.todo = todo /\ t.pkg = pkg /\ t.whole = conv[c].whole /\ t.said = said /\ t.deb = conv[c].deb
  BY <1>2 DEF Thread
<1> HIDE DEF t
<1> QED
  BY <1>1, <1>3, Zenon DEF Moved

\* What each action does to its thread, field by field.  tmpnam is called twice.
LEMMA TakeNameEffect ==
  ASSUME conv \in [Conversion -> Thread], NEW c \in Conversion, TakeName(c)
  PROVE  \/ conv[c].pc = "idle" /\ Moved(c, "meta", conv[c].dir, conv[c].known,
                                         conv[c].todo, conv[c].pkg, conv[c].whole,
                                             conv[c].said)
         \/ conv[c].pc = "meta" /\ Moved(c, "extract", conv[c].dir, conv[c].known,
                                         conv[c].todo, conv[c].pkg, conv[c].whole,
                                             conv[c].said)
<1>1. (conv[c].pc = "idle" /\ Go(c, "meta")) \/ (conv[c].pc = "meta" /\ Go(c, "extract"))
  BY Zenon DEF TakeName, At
<1> QED
  BY <1>1, GoIs, Zenon

\* A conversion that gives up goes to its exit.
LEMMA GiveUpEffect ==
  ASSUME conv \in [Conversion -> Thread], NEW c \in Conversion, GiveUp(c)
  PROVE  Moved(c, "check", conv[c].dir, conv[c].known, conv[c].todo, conv[c].pkg,
               conv[c].whole, "problem")
  BY SaidIs, Zenon DEF GiveUp

\* An extraction that starts remembers the directory.
LEMMA BeginExtractEffect ==
  ASSUME conv \in [Conversion -> Thread], NEW c \in Conversion, NEW from, NEW to,
      BeginExtract(c, from, to)
  PROVE  Moved(c, to, tmpbuf, conv[c].known, conv[c].todo, conv[c].pkg, conv[c].whole,
               conv[c].said)
  BY InDirIs, Zenon DEF BeginExtract

\* One that ends has put its members there, or none.
LEMMA EndExtractEffect ==
  ASSUME conv \in [Conversion -> Thread], NEW c \in Conversion, NEW from, NEW to,
      NEW members,
         EndExtract(c, from, members, to)
  PROVE  \E got \in {members, {}} :
           /\ disk' = [disk EXCEPT ![conv[c].dir] = Put(@, got)]
           /\ Moved(c, to, 0, conv[c].known, conv[c].todo, conv[c].pkg,
                    (conv[c].whole /\ got = members), conv[c].said)
  BY ExtractedIs, Zenon DEF EndExtract

\* deb_info goes on according to the control file it finds.
LEMMA InfoTestEffect ==
  ASSUME conv \in [Conversion -> Thread], NEW c \in Conversion, InfoTest(c)
  PROVE  Moved(c, (IF "control" \in Paths(disk[tmpbuf]) THEN "read" ELSE "fetch"),
               tmpbuf, conv[c].known, conv[c].todo, conv[c].pkg, conv[c].whole,
                   conv[c].said)
  BY DirFirstIs, Zenon DEF InfoTest

\* A second extraction of the control members moves on to reading them.
LEMMA RefetchEffect ==
  ASSUME conv \in [Conversion -> Thread], NEW c \in Conversion, Refetch(c)
  PROVE  Moved(c, "read", conv[c].dir, conv[c].known, conv[c].todo, conv[c].pkg,
               conv[c].whole, conv[c].said)
  BY GoIs, Zenon DEF Refetch

\* Without a control file a conversion goes to its exit, else it knows a name.
LEMMA ReadIdentityEffect ==
  ASSUME conv \in [Conversion -> Thread], NEW c \in Conversion, ReadIdentity(c)
  PROVE  \/ Moved(c, "check", 0, conv[c].known, conv[c].todo, conv[c].pkg, conv[c].whole,
                  conv[c].said)
         \/ \E f \in Found(c) : Moved(c, "new", 0, f.owner, conv[c].todo, conv[c].pkg,
                                      conv[c].whole, conv[c].said)
  BY InDirIs, KnowsIs, Zenon DEF ReadIdentity

\* The second call of deb_info ends or crashes.
LEMMA ReadDescriptionEffect ==
  ASSUME conv \in [Conversion -> Thread], NEW c \in Conversion, ReadDescription(c)
  PROVE  \/ Moved(c, "details", 0, conv[c].known, conv[c].todo, conv[c].pkg,
                  conv[c].whole, conv[c].said) /\ UNCHANGED <<statics, files, fault>>
         \/ (\A f \in Found(c) : f.owner \in Undescribed) /\ Fails("no description")
  BY InDirIs, Zenon DEF ReadDescription

\* app_pkg_new is followed by app_pkg_set_name.
LEMMA NewPackageEffect ==
  ASSUME conv \in [Conversion -> Thread], NEW c \in Conversion, NewPackage(c)
  PROVE  Moved(c, "name", conv[c].dir, conv[c].known, conv[c].todo, conv[c].pkg,
               conv[c].whole, conv[c].said)
  BY GoIs, Zenon DEF NewPackage

\* Which names the package m_apkg points to, or crashes.
LEMMA SetNameEffect ==
  ASSUME conv \in [Conversion -> Thread], NEW c \in Conversion, SetName(c)
  PROVE  \/ /\ Live(m_apkg)
            /\ heap' = [heap EXCEPT ![m_apkg].name = IF @ = Nobody THEN conv[c].known ELSE @]
            /\ Moved(c, "info", conv[c].dir, conv[c].known, conv[c].todo, conv[c].pkg,
                     conv[c].whole, conv[c].said)
            /\ UNCHANGED <<tmpbuf, m_apkg, files, fault>>
         \/ ~Live(m_apkg) /\ Fails("package gone")
  BY GoIs, Zenon DEF SetName

\* The other setters need a live package too.
LEMMA SetDetailsEffect ==
  ASSUME conv \in [Conversion -> Thread], NEW c \in Conversion, SetDetails(c)
  PROVE  \/ Live(m_apkg) /\ Moved(c, "clean", conv[c].dir, conv[c].known, conv[c].todo,
                                  conv[c].pkg, conv[c].whole,
                                      conv[c].said) /\ UNCHANGED <<statics, files, fault>>
         \/ ~Live(m_apkg) /\ Fails("package gone")
  BY GoIs, Zenon DEF SetDetails

\* m_dirtyfiles are removed before the walk.
LEMMA CleanControlEffect ==
  ASSUME conv \in [Conversion -> Thread], NEW c \in Conversion, CleanControl(c)
  PROVE  Moved(c, "walk", conv[c].dir, conv[c].known, conv[c].todo, conv[c].pkg,
               conv[c].whole, conv[c].said)
  BY GoIs, Zenon DEF CleanControl

\* traverse_directory lists, adds and ends.
LEMMA WalkEffect ==
  ASSUME conv \in [Conversion -> Thread], NEW c \in Conversion, Walk(c)
  PROVE  \/ /\ conv[c].pc = "walk"
            /\ Moved(c, "add", conv[c].dir, conv[c].known, Paths(disk[tmpbuf]),
                     conv[c].pkg, conv[c].whole, conv[c].said)
            /\ UNCHANGED <<statics, files, fault>>
         \/ /\ conv[c].pc = "add" /\ Live(m_apkg)
            /\ \E p \in conv[c].todo :
                 /\ heap' = [heap EXCEPT ![m_apkg].files = @ \cup {p}]
                 /\ Moved(c, conv[c].pc, conv[c].dir, conv[c].known,
                          (conv[c].todo \ {p}), conv[c].pkg, conv[c].whole, conv[c].said)
            /\ UNCHANGED <<tmpbuf, m_apkg, files, fault>>
         \/ conv[c].pc = "add" /\ ~Live(m_apkg) /\ Fails("package gone")
         \/ /\ conv[c].pc = "add" /\ conv[c].todo = {}
            /\ Moved(c, "write", conv[c].dir, conv[c].known, conv[c].todo, conv[c].pkg,
                     conv[c].whole, conv[c].said)
            /\ UNCHANGED <<statics, files, fault>>
  BY GoIs, ListsIs, TodoIs, Zenon DEF Walk, At

\* converted(1.0) is followed by the exit.
LEMMA ReportedEffect ==
  ASSUME conv \in [Conversion -> Thread], NEW c \in Conversion, Reported(c)
  PROVE  Moved(c, "check", 0, conv[c].known, {}, 0, conv[c].whole, "converted")
  BY ReportsIs, Zenon DEF Reported

\* app_pkg_write takes the package, fails or crashes.
LEMMA CheckFilesEffect ==
  ASSUME conv \in [Conversion -> Thread], NEW c \in Conversion, CheckFiles(c)
  PROVE  \/ /\ Live(m_apkg) /\ heap[m_apkg].files \subseteq Paths(disk[tmpbuf])
            /\ Moved(c, "create", tmpbuf, conv[c].known, heap[m_apkg].files, m_apkg,
                     conv[c].whole, conv[c].said)
            /\ UNCHANGED <<statics, files, fault>>
         \/ Moved(c, "check", 0, conv[c].known, {}, 0, conv[c].whole,
                  "converted") /\ UNCHANGED <<statics, files, fault>>
         \/ ~Live(m_apkg) /\ Fails("package gone")
  BY TakesIs, ReportedEffect, Zenon DEF CheckFiles

\* writeRPM opens its file, or crashes.
LEMMA CreateEffect ==
  ASSUME conv \in [Conversion -> Thread], NEW c \in Conversion, Create(c)
  PROVE  \/ /\ Live(conv[c].pkg)
            /\ rpm' = [rpm EXCEPT ![conv[c].deb] = [state |-> "partial", writer |-> c,
                         name |-> heap[conv[c].pkg].name, files |-> {}]]
            /\ Moved(c, "payload", conv[c].dir, conv[c].known, conv[c].todo, conv[c].pkg,
                     conv[c].whole, conv[c].said)
            /\ UNCHANGED <<statics, disk, fault>>
         \/ ~Live(conv[c].pkg) /\ Fails("package gone")
  BY GoIs, Zenon DEF Create

\* The exit frees a package if there is one.
LEMMA CheckEffect ==
  ASSUME conv \in [Conversion -> Thread], NEW c \in Conversion, Check(c)
  PROVE  Moved(c, (IF m_apkg = 0 THEN "returned" ELSE "free"), conv[c].dir,
               conv[c].known, conv[c].todo, conv[c].pkg, conv[c].whole, conv[c].said)
  BY GoIs, Zenon DEF Check

\* app_pkg_free frees it, or crashes.
LEMMA FreeEffect ==
  ASSUME conv \in [Conversion -> Thread], NEW c \in Conversion, Free(c)
  PROVE  \/ /\ Live(m_apkg)
            /\ heap' = [heap EXCEPT ![m_apkg] = [name |-> Nobody, files |-> {},
                                                 live |-> FALSE]]
            /\ Moved(c, "null", conv[c].dir, conv[c].known, conv[c].todo, conv[c].pkg,
                     conv[c].whole, conv[c].said)
            /\ UNCHANGED <<tmpbuf, m_apkg, files, fault>>
         \/ ~Live(m_apkg) /\ Fails("freed again")
  BY GoIs, Zenon DEF Free

\* And m_apkg is reset.
LEMMA NullEffect ==
  ASSUME conv \in [Conversion -> Thread], NEW c \in Conversion, Null(c)
  PROVE  Moved(c, "returned", conv[c].dir, conv[c].known, conv[c].todo, conv[c].pkg,
               conv[c].whole, conv[c].said)
  BY GoIs, Zenon DEF Null

\* What a step that takes no name leaves alone.
Kept(c) ==
  /\ tmpbuf' = tmpbuf
  /\ conv[c].pc \notin {"idle", "meta"} /\ conv'[c].pc \notin {"idle", "meta"}
  /\ conv'[c].deb = conv[c].deb
  /\ conv'[c].dir \in {0, tmpbuf, conv[c].dir}
  /\ conv'[c].whole => conv[c].whole
  /\ Running(conv[c]) /\ (overlapped => overlapped')
  /\ conv[c].pc \notin {"create", "payload"} => conv'[c].pc # "payload" /\ rpm' = rpm
  /\ \A e \in Conversion \ {c} : conv'[e] = conv[e]
  /\ \A n \in Names \ {tmpbuf, conv[c].dir} : disk'[n] = disk[n]

\* Every step but tmpnam's keeps the buffer, its archive and all directories but two.
LEMMA StepKeeps ==
  ASSUME TypeOK, NEW c \in Conversion, Step(c), ~TakeName(c)
  PROVE  Kept(c)
<1> USE DEF statics, files, At, Moved, Kept, Running
<1>0. conv \in [Conversion -> Thread] /\ disk \in [Names -> SUBSET File] /\ conv[c] \in Thread
  BY DEF TypeOK
<1>f. ASSUME NEW what, Fails(what), conv[c].pc \notin {"idle", "meta", "returned"}
      PROVE  Kept(c)
  BY <1>0, <1>f DEF Fails
<1>1. CASE GiveUp(c)
  BY <1>0, <1>1, GiveUpEffect DEF GiveUp
<1>2. CASE InfoTest(c)
  BY <1>0, <1>2, InfoTestEffect DEF InfoTest
<1>3. CASE Refetch(c)
  BY <1>0, <1>3, RefetchEffect DEF Refetch
<1>4. CASE NewPackage(c)
  BY <1>0, <1>4, NewPackageEffect DEF NewPackage
<1>5. CASE CleanControl(c)
  BY <1>0, <1>5, CleanControlEffect DEF CleanControl
<1>6. CASE Check(c)
  BY <1>0, <1>6, CheckEffect DEF Check
<1>7. CASE Null(c)
  BY <1>0, <1>7, NullEffect DEF Null
<1>8. CASE ReadIdentity(c)
  BY <1>0, <1>f, <1>8, ReadIdentityEffect DEF ReadIdentity
<1>9. CASE ReadDescription(c)
  BY <1>0, <1>f, <1>9, ReadDescriptionEffect DEF ReadDescription
<1>10. CASE SetName(c)
  BY <1>0, <1>f, <1>10, SetNameEffect DEF SetName
<1>11. CASE SetDetails(c)
  BY <1>0, <1>f, <1>11, SetDetailsEffect DEF SetDetails
<1>12. CASE Walk(c)
  BY <1>0, <1>f, <1>12, WalkEffect DEF Walk
<1>13. CASE CheckFiles(c)
  BY <1>0, <1>f, <1>13, CheckFilesEffect DEF CheckFiles
<1>14. CASE Create(c)
  BY <1>0, <1>f, <1>14, CreateEffect DEF Create
<1>15. CASE Free(c)
  BY <1>0, <1>f, <1>15, FreeEffect DEF Free
<1>16. CASE Extract(c)
  <2>1. ASSUME NEW from, NEW to, BeginExtract(c, from, to), from \notin {"idle", "meta",
                                                                         "returned",
                                                                             "create",
                                                                                 "payload"},
               to \notin {"idle", "meta", "payload"}
        PROVE  Kept(c)
    <3>1. Moved(c, to, tmpbuf, conv[c].known, conv[c].todo, conv[c].pkg, conv[c].whole,
                conv[c].said)
      BY <1>0, <2>1, BeginExtractEffect
    <3>2. /\ tmpbuf' = tmpbuf /\ rpm' = rpm /\ disk' = disk /\ conv[c].pc = from
      BY <2>1 DEF BeginExtract
    <3> QED
      BY <2>1, <3>1, <3>2
  <2>2. ASSUME NEW from, NEW members, NEW to, EndExtract(c, from, members, to),
               from \notin {"idle", "meta", "returned", "create", "payload"},
               to \notin {"idle", "meta", "payload"}
        PROVE  Kept(c)
    <3>1. PICK got \in {members, {}} :
           /\ disk' = [disk EXCEPT ![conv[c].dir] = Put(@, got)]
           /\ Moved(c, to, 0, conv[c].known, conv[c].todo, conv[c].pkg,
                    (conv[c].whole /\ got = members), conv[c].said)
      BY <1>0, <2>2, EndExtractEffect, Zenon
    <3>2. tmpbuf' = tmpbuf /\ rpm' = rpm /\ conv[c].pc = from
      BY <2>2 DEF EndExtract
    <3> QED
      BY <1>0, <2>2, <3>1, <3>2
  <2> QED
    <3>1. \/ BeginExtract(c, "extract", "untar")
          \/ EndExtract(c, "untar", Data(conv[c].deb), "control")
          \/ BeginExtract(c, "control", "unpack")
          \/ EndExtract(c, "unpack", Control(conv[c].deb), "info")
      BY <1>16, Zenon DEF Extract
    <3> QED
      BY <2>1, <2>2, <3>1
<1>17. CASE Payload(c)
  BY <1>0, <1>f, <1>17, ReportedEffect DEF Payload
<1>18. CASE WriteFails(c)
  BY <1>0, <1>18, ReportedEffect DEF WriteFails
<1> QED
  BY <1>1, <1>2, <1>3, <1>4, <1>5, <1>6, <1>7, <1>8, <1>9, <1>10, <1>11, <1>12, <1>13,
     <1>14, <1>15, <1>16, <1>17, <1>18 DEF Step

\* The two sets counted are finite.
LEMMA FiniteNamed ==
  /\ IsFiniteSet(Named1) /\ Cardinality(Named1) \in Nat
  /\ IsFiniteSet(Named2) /\ Cardinality(Named2) \in Nat
<1>1. Named1 \in SUBSET Conversion /\ Named2 \in SUBSET Conversion
  BY DEF Named1, Named2
<1> QED
  BY <1>1, FS_Subset, FS_CardinalityType, FiniteConversions

\* A name is taken at most twice by each conversion, so the next one is there.
LEMMA NameLeft ==
  ASSUME TypeOK, NamesTaken, NEW c \in Conversion, conv[c].pc \in {"idle", "meta"}
  PROVE  tmpbuf + 1 \in Names
<1>1. Named1 \in SUBSET Conversion /\ Named2 \in SUBSET Conversion /\ Named2 # Conversion
  BY DEF Named1, Named2
<1>2. /\ Cardinality(Conversion) \in Nat /\ Cardinality(Named1) \in Nat /\ Cardinality(Named2) \in Nat
      /\ Cardinality(Named1) <= Cardinality(Conversion)
      /\ Cardinality(Named2) <= Cardinality(Conversion)
      /\ Cardinality(Named2) # Cardinality(Conversion)
  BY <1>1, FS_Subset, FiniteConversions, FiniteNamed
<1>3. ASSUME NEW n \in Nat, NEW a \in Nat, NEW b \in Nat, a <= n, b <= n, b # n
      PROVE  a + b + 1 \in 0..(2 * n)
  BY <1>3
<1> QED
  BY <1>2, <1>3, Zenon DEF NamesTaken, Names

\* The count of the names is kept ...
LEMMA NamesStep ==
  ASSUME TypeOK, NamesTaken, NEW c \in Conversion, Step(c)
  PROVE  NamesTaken'
<1>0. conv \in [Conversion -> Thread]
  BY DEF TypeOK
<1>1. CASE TakeName(c)
  <2>1. tmpbuf' = tmpbuf + 1
    BY <1>1 DEF TakeName
  <2>2. CASE conv[c].pc = "idle" /\ conv'[c].pc = "meta" /\ \A e \in Conversion \ {c} : conv'[e] = conv[e]
    <3>1. Named1' = Named1 \cup {c} /\ c \notin Named1 /\ Named2' = Named2
      BY <2>2 DEF Named1, Named2
    <3>2. Cardinality(Named1') = Cardinality(Named1) + 1
      BY <3>1, FiniteNamed, FS_AddElement
    <3> QED
      BY <2>1, <3>1, <3>2, FiniteNamed DEF NamesTaken
  <2>3. CASE conv[c].pc = "meta" /\ conv'[c].pc = "extract" /\ \A e \in Conversion \ {c} : conv'[e] = conv[e]
    <3>1. Named2' = Named2 \cup {c} /\ c \notin Named2 /\ Named1' = Named1
      BY <2>3 DEF Named1, Named2
    <3>2. Cardinality(Named2') = Cardinality(Named2) + 1
      BY <3>1, FiniteNamed, FS_AddElement
    <3> QED
      BY <2>1, <3>1, <3>2, FiniteNamed DEF NamesTaken
  <2> QED
    BY <1>0, <1>1, <2>2, <2>3, TakeNameEffect DEF Moved
<1>2. CASE ~TakeName(c)
  <2>1. Kept(c)
    BY <1>2, StepKeeps
  <2>2. Named1' = Named1 /\ Named2' = Named2
    BY <2>1 DEF Kept, Named1, Named2
  <2> QED
    BY <2>1, <2>2 DEF Kept, NamesTaken
<1> QED
  BY <1>1, <1>2

\* ... and so are the empty directories of those not taken.
LEMMA FreshStep ==
  ASSUME TypeOK, TypeOK', FreshNames, NEW c \in Conversion, Step(c)
  PROVE  FreshNames'
<1>0. /\ conv \in [Conversion -> Thread] /\ conv' \in [Conversion -> Thread]
      /\ disk \in [Names -> SUBSET File] /\ tmpbuf \in Names /\ Names \subseteq Nat
  <2>1. Names \subseteq Nat
    BY DEF Names
  <2> QED
    BY <2>1 DEF TypeOK
<1>1. \A e \in Conversion : conv[e].dir \in Nat
  BY <1>0 DEF Thread
<1>2. CASE TakeName(c)
  <2>1. tmpbuf' = tmpbuf + 1 /\ disk' = disk
    BY <1>2 DEF TakeName, files
  <2>2. \A e \in Conversion : conv'[e].dir = conv[e].dir
    BY <1>0, <1>2, TakeNameEffect DEF Moved
  <2> QED
    BY <1>0, <1>1, <2>1, <2>2 DEF FreshNames
<1>3. CASE ~TakeName(c)
  <2>1. Kept(c)
    BY <1>3, StepKeeps
  <2> QED
    BY <1>0, <1>1, <2>1 DEF Kept, FreshNames
<1> QED
  BY <1>2, <1>3

-----------------------------------------------------------------------------
\* What the archive of d holds, file by file: no data file has the path of a control member.
LEMMA OwnMembers ==
  ASSUME NEW d \in Deb
  PROVE  /\ Data(d) = {[path |-> d, owner |-> d]}
         /\ Control(d) = {[path |-> "control", owner |-> d], [path |-> "triggers",
                                                              owner |-> d]}
         /\ Own(d) = {[path |-> d, owner |-> d], [path |-> "triggers", owner |-> d]}
         /\ d \notin {"control", "triggers", Nobody}
<1>1. d \notin {"control", "triggers", Nobody}
  BY DebAssumption DEF DebAssumption, Nobody
<1>2. Control(d) = {[path |-> "control", owner |-> d], [path |-> "triggers", owner |-> d]}
  BY DEF Control
<1>3. {f \in Control(d) : f.path \notin DirtyFiles} = {[path |-> "triggers", owner |-> d]}
  BY <1>2 DEF DirtyFiles
<1> QED
  BY <1>1, <1>2, <1>3 DEF Data, Own

\* A failed extraction leaves its directory as it was.
LEMMA PutNothing ==
  ASSUME NEW S
  PROVE  Put(S, {}) = S
  BY DEF Put, Paths

\* One that succeeds puts its members there and nothing of another archive.
LEMMA PutMembers ==
  ASSUME NEW d \in Deb, NEW S \in SUBSET (Data(d) \cup Control(d)),
         NEW members \in {Data(d), Control(d)}
  PROVE  /\ Put(S, members) \subseteq Data(d) \cup Control(d)
         /\ members \subseteq Put(S, members)
  BY DEF Put

\* The control members are put beside the data, not over it.
LEMMA PutControl ==
  ASSUME NEW d \in Deb, NEW S, Data(d) \subseteq S
  PROVE  Data(d) \cup Control(d) \subseteq Put(S, Control(d))
<1>1. d \notin Paths(Control(d))
  BY OwnMembers DEF Paths
<1>2. Data(d) = {[path |-> d, owner |-> d]}
  BY DEF Data
<1> QED
  BY <1>1, <1>2 DEF Put

\* The control file is among them.
LEMMA ControlIn ==
  ASSUME NEW d \in Deb, NEW S, Control(d) \subseteq S
  PROVE  "control" \in Paths(S)
<1>1. [path |-> "control", owner |-> d] \in S
  BY OwnMembers
<1>2. [path |-> "control", owner |-> d].path = "control"
  OBVIOUS
<1> QED
  BY <1>1, <1>2 DEF Paths

\* A larger directory has more paths.
LEMMA PathsKept ==
  ASSUME NEW S, NEW T, S \subseteq T
  PROVE  Paths(S) \subseteq Paths(T)
  BY DEF Paths

\* What holds before a step of a thread that runs alone and does not crash.
Ready(c) ==
  /\ TypeOK /\ FreshNames
  /\ TakeName(c) => tmpbuf + 1 \in Names
  /\ OneLive
  /\ conv[c].pc = "idle" => conv[c].known = Nobody
  /\ Running(conv[c]) => Order(conv[c])
  /\ ~Running(conv[c]) => m_apkg = 0
  /\ \A what : ~Fails(what)

\* A step of a conversion that runs alone keeps Order, action by action.
LEMMA OrderStep ==
  ASSUME NEW c \in Conversion, Step(c), Ready(c)
  PROVE  /\ OneLive'
         /\ Running(conv'[c]) => Order(conv[c])'
         /\ ~Running(conv'[c]) => m_apkg' = 0
<1> USE DEF statics, files, At, Moved
<1>0. /\ conv \in [Conversion -> Thread] /\ disk \in [Names -> SUBSET File] /\ conv[c] \in Thread
      /\ conv[c].deb \in Deb /\ heap \in Seq(AppPkg) /\ m_apkg \in 0..Len(heap) /\ tmpbuf \in Names
  <2>1. conv \in [Conversion -> Thread] /\ conv[c] \in Thread
    BY DEF Ready, TypeOK
  <2>2. conv[c].deb \in Deb
    BY <2>1 DEF Thread
  <2> QED
    BY <2>1, <2>2 DEF Ready, TypeOK
<1>r. /\ OneLive /\ \A what : ~Fails(what)
      /\ conv[c].pc = "idle" => conv[c].known = Nobody
      /\ Running(conv[c]) => Order(conv[c])
      /\ ~Running(conv[c]) => m_apkg = 0
  BY DEF Ready
<1>d. DOMAIN heap = 1..Len(heap) /\ Len(heap) \in Nat
  BY <1>0, SeqDomain
<1>h. Live(m_apkg) <=> (m_apkg \in 1..Len(heap) /\ heap[m_apkg].live)
  BY <1>d DEF Live
<1>n. conv[c].deb # Nobody
  BY <1>0, OwnMembers
<1>1. CASE GiveUp(c)
  <2>1. Moved(c, "check", conv[c].dir, conv[c].known, conv[c].todo, conv[c].pkg,
              conv[c].whole, "problem") /\ UNCHANGED <<heap, m_apkg, tmpbuf, disk>>
    BY <1>0, <1>r, <1>1, GiveUpEffect DEF GiveUp
  <2>2. OneLive'
    BY <1>r, <2>1 DEF OneLive
  <2>3. Running(conv[c]) /\ Running(conv'[c])
    BY <1>1, <2>1 DEF GiveUp, Running
  <2>4. PackageOf(conv[c])'
    BY <1>1, <1>0, <1>r, <1>h, <1>n, <2>1, <2>3 DEF GiveUp, Order, Running, PackageOf,
       Before, Within, Early, Late, Reading, Live
  <2>5. NameOf(conv[c])'
    BY <1>1, <1>0, <1>r, <1>h, <1>n, <2>1, <2>3 DEF GiveUp, Order, Running, NameOf,
       Within, Late, Reading
  <2>6. DirectoryOf(conv[c])'
    BY <1>1, <1>0, <1>r, <1>h, <1>n, <2>1, <2>3 DEF GiveUp, Order, Running, DirectoryOf,
       Reading
  <2>7. WholeOf(conv[c])'
    BY <1>1, <1>0, <1>r, <1>h, <1>n, <2>1, <2>3 DEF GiveUp, Order, Running, WholeOf, Reading
  <2> QED
    BY <2>2, <2>3, <2>4, <2>5, <2>6, <2>7 DEF Order
<1>2. CASE InfoTest(c)
  <2>1. Moved(c, (IF "control" \in Paths(disk[tmpbuf]) THEN "read" ELSE "fetch"), tmpbuf,
              conv[c].known, conv[c].todo, conv[c].pkg, conv[c].whole,
                  conv[c].said) /\ UNCHANGED <<heap, m_apkg, tmpbuf, disk>>
    BY <1>0, <1>r, <1>2, InfoTestEffect DEF InfoTest
  <2>2. OneLive'
    BY <1>r, <2>1 DEF OneLive
  <2>3. Running(conv[c]) /\ Running(conv'[c])
    BY <1>2, <2>1 DEF InfoTest, Running
  <2>4. PackageOf(conv[c])'
    BY <1>2, <1>0, <1>r, <1>h, <1>n, <2>1, <2>3 DEF InfoTest, Order, Running, PackageOf,
       Before, Within, Early, Late, Reading, Live
  <2>5. NameOf(conv[c])'
    BY <1>2, <1>0, <1>r, <1>h, <1>n, <2>1, <2>3 DEF InfoTest, Order, Running, NameOf,
       Within, Late, Reading
  <2>6. DirectoryOf(conv[c])'
    BY <1>2, <1>0, <1>r, <1>h, <1>n, <2>1, <2>3 DEF InfoTest, Order, Running,
       DirectoryOf, Reading
  <2>7. WholeOf(conv[c])'
    BY <1>2, <1>0, <1>r, <1>h, <1>n, <2>1, <2>3 DEF InfoTest, Order, Running, WholeOf,
       Reading
  <2> QED
    BY <2>2, <2>3, <2>4, <2>5, <2>6, <2>7 DEF Order
<1>3. CASE Refetch(c)
  <2>1. Moved(c, "read", conv[c].dir, conv[c].known, conv[c].todo, conv[c].pkg,
              conv[c].whole, conv[c].said) /\ UNCHANGED <<heap, m_apkg, tmpbuf>>
    BY <1>0, <1>r, <1>h, <1>3, RefetchEffect DEF Refetch
  <2>2. OneLive'
    BY <1>0, <1>r, <1>h, <2>1 DEF OneLive, Live
  <2>3. Running(conv[c]) /\ Running(conv'[c])
    BY <1>3, <2>1 DEF Refetch, Running
  <2>4. PackageOf(conv[c])'
    BY <1>3, <1>0, <1>r, <1>h, <1>n, <2>1, <2>3 DEF Refetch, Order, Running, PackageOf,
       Before, Within, Early, Late, Reading, Live
  <2>5. NameOf(conv[c])'
    BY <1>3, <1>0, <1>r, <1>h, <1>n, <2>1, <2>3 DEF Refetch, Order, Running, NameOf,
       Within, Late, Reading
  <2>6. DirectoryOf(conv[c])'
    <3>0. Running(conv[c]) /\ conv[c].pc = "fetch"
      BY <1>3, <2>3 DEF Refetch
    <3>1. /\ disk[tmpbuf] \in SUBSET (Data(conv[c].deb) \cup Control(conv[c].deb))
          /\ conv[c].known # Nobody => "control" \in Paths(disk[tmpbuf])
          /\ conv[c].dir = tmpbuf
      BY <1>r, <3>0 DEF Order, DirectoryOf, Reading
    <3>2. PICK got \in {Control(conv[c].deb), {}} : disk'[tmpbuf] = Put(disk[tmpbuf], got)
      BY <1>3, <1>0 DEF Refetch
    <3> DEFINE Part == /\ disk'[tmpbuf] \subseteq Data(conv[c].deb) \cup Control(conv[c].deb)
                       /\ conv[c].known # Nobody => "control" \in Paths(disk'[tmpbuf])
    <3>3. ASSUME got = {} PROVE Part
      <4>1. disk'[tmpbuf] = disk[tmpbuf]
        BY <3>2, <3>3, PutNothing
      <4> QED
        BY <3>1, <4>1
    <3>4. ASSUME got = Control(conv[c].deb) PROVE Part
      <4>1. disk'[tmpbuf] = Put(disk[tmpbuf], Control(conv[c].deb))
        BY <3>2, <3>4
      <4>2. /\ disk'[tmpbuf] \subseteq Data(conv[c].deb) \cup Control(conv[c].deb)
            /\ Control(conv[c].deb) \subseteq disk'[tmpbuf]
        BY <1>0, <3>1, <4>1, PutMembers
      <4> QED
        BY <1>0, <4>2, ControlIn
    <3>5. Part
      BY <3>2, <3>3, <3>4
    <3> QED
      BY <2>1, <3>1, <3>5 DEF DirectoryOf, Reading
  <2>7. WholeOf(conv[c])'
    <3>0. Running(conv[c]) /\ conv[c].pc = "fetch"
      BY <1>3, <2>3 DEF Refetch
    <3>1. conv[c].whole => Data(conv[c].deb) \cup Control(conv[c].deb) \subseteq disk[tmpbuf]
      BY <1>r, <3>0 DEF Order, WholeOf, Reading
    <3>2. PICK got \in {Control(conv[c].deb), {}} : disk'[tmpbuf] = Put(disk[tmpbuf], got)
      BY <1>3, <1>0 DEF Refetch
    <3> DEFINE Part == conv[c].whole => Data(conv[c].deb) \cup Control(conv[c].deb) \subseteq disk'[tmpbuf]
    <3>3. ASSUME got = {} PROVE Part
      <4>1. disk'[tmpbuf] = disk[tmpbuf]
        BY <3>2, <3>3, PutNothing
      <4> QED
        BY <3>1, <4>1
    <3>4. ASSUME got = Control(conv[c].deb) PROVE Part
      <4>1. disk'[tmpbuf] = Put(disk[tmpbuf], Control(conv[c].deb))
        BY <3>2, <3>4
      <4>2. conv[c].whole => Data(conv[c].deb) \subseteq disk[tmpbuf]
        BY <3>1
      <4> QED
        BY <1>0, <4>1, <4>2, PutControl
    <3>5. Part
      BY <3>2, <3>3, <3>4
    <3> QED
      BY <2>1, <3>5 DEF WholeOf, Reading
  <2> QED
    BY <2>2, <2>3, <2>4, <2>5, <2>6, <2>7 DEF Order
<1>4. CASE NewPackage(c)
  <2>1. /\ Moved(c, "name", conv[c].dir, conv[c].known, conv[c].todo, conv[c].pkg,
                 conv[c].whole, conv[c].said)
        /\ UNCHANGED <<disk, tmpbuf>> /\ conv[c].pc = "new"
    BY <1>0, <1>4, NewPackageEffect DEF NewPackage
  <2>2. /\ Running(conv[c]) /\ Running(conv'[c])
        /\ m_apkg = 0
    BY <1>r, <2>1 DEF Running, Order, PackageOf, Before, Early
  <2>3. /\ m_apkg' = Len(heap) + 1 /\ DOMAIN heap' = 1..(Len(heap) + 1)
        /\ heap'[Len(heap) + 1] = [name |-> Nobody, files |-> {}, live |-> TRUE]
        /\ \A p \in 1..Len(heap) : heap'[p] = heap[p]
    <3>1. m_apkg' = Len(heap) + 1 /\ heap' = Append(heap, [name |-> Nobody, files |-> {},
                                                           live |-> TRUE])
      BY <1>4 DEF NewPackage
    <3> QED
      BY <1>0, <3>1, SeqAppended
  <2>4. \A p \in 1..Len(heap) : ~heap[p].live
    <3>1. \A p \in 1..Len(heap) : p # 0
      BY <1>d
    <3> QED
      BY <1>d, <1>r, <2>2, <3>1, Zenon DEF OneLive
  <2>5. OneLive' /\ Live(m_apkg)' /\ m_apkg' # 0 /\ heap'[m_apkg'].name = Nobody
    <3>1. /\ Len(heap) + 1 \in 1..(Len(heap) + 1) /\ Len(heap) + 1 # 0
          /\ \A p \in 1..(Len(heap) + 1) : p = Len(heap) + 1 \/ p \in 1..Len(heap)
      BY <1>d
    <3>2. heap'[Len(heap) + 1].live /\ heap'[Len(heap) + 1].name = Nobody
      BY <2>3
    <3> QED
      BY <1>r, <2>3, <2>4, <3>1, <3>2, Zenon DEF OneLive, Live
  <2>6. PackageOf(conv[c])'
    BY <2>1, <2>2, <2>5 DEF Running, PackageOf, Before, Within, Early, Late, Reading
  <2>7. NameOf(conv[c])'
    BY <1>n, <1>r, <2>1, <2>2, <2>5 DEF Order, Running, NameOf, Within, Late, Reading
  <2>8. DirectoryOf(conv[c])'
    BY <1>n, <1>r, <2>1, <2>2 DEF Order, Running, DirectoryOf, Reading
  <2>9. WholeOf(conv[c])'
    BY <1>n, <1>r, <2>1, <2>2 DEF Order, Running, WholeOf, Reading
  <2> QED
    BY <2>2, <2>5, <2>6, <2>7, <2>8, <2>9 DEF Order
<1>5. CASE SetDetails(c)
  <2>1. Moved(c, "clean", conv[c].dir, conv[c].known, conv[c].todo, conv[c].pkg,
              conv[c].whole, conv[c].said) /\ UNCHANGED <<heap, m_apkg, tmpbuf, disk>>
    BY <1>0, <1>r, <1>5, SetDetailsEffect DEF SetDetails
  <2>2. OneLive'
    BY <1>r, <2>1 DEF OneLive
  <2>3. Running(conv[c]) /\ Running(conv'[c])
    BY <1>5, <2>1 DEF SetDetails, Running
  <2>4. PackageOf(conv[c])'
    BY <1>5, <1>0, <1>r, <1>h, <1>n, <2>1, <2>3 DEF SetDetails, Order, Running,
       PackageOf, Before, Within, Early, Late, Reading, Live
  <2>5. NameOf(conv[c])'
    BY <1>5, <1>0, <1>r, <1>h, <1>n, <2>1, <2>3 DEF SetDetails, Order, Running, NameOf,
       Within, Late, Reading
  <2>6. DirectoryOf(conv[c])'
    BY <1>5, <1>0, <1>r, <1>h, <1>n, <2>1, <2>3 DEF SetDetails, Order, Running,
       DirectoryOf, Reading
  <2>7. WholeOf(conv[c])'
    BY <1>5, <1>0, <1>r, <1>h, <1>n, <2>1, <2>3 DEF SetDetails, Order, Running, WholeOf,
       Reading
  <2> QED
    BY <2>2, <2>3, <2>4, <2>5, <2>6, <2>7 DEF Order
<1>6. CASE Check(c)
  <2>1. /\ Moved(c, (IF m_apkg = 0 THEN "returned" ELSE "free"), conv[c].dir,
                 conv[c].known, conv[c].todo, conv[c].pkg, conv[c].whole, conv[c].said)
        /\ UNCHANGED <<heap, m_apkg, disk, tmpbuf>> /\ conv[c].pc = "check"
    BY <1>0, <1>6, CheckEffect DEF Check
  <2>2. OneLive'
    BY <1>r, <2>1 DEF OneLive
  <2>3. Running(conv[c]) /\ (Running(conv'[c]) => m_apkg # 0) /\ (~Running(conv'[c]) => m_apkg' = 0)
    BY <2>1 DEF Running
  <2>4. Running(conv'[c]) => PackageOf(conv[c])'
    BY <1>h, <1>n, <1>r, <2>1, <2>3 DEF Order, Running, PackageOf, Before, Within, Early,
       Late, Reading, Live
  <2>5. Running(conv'[c]) => NameOf(conv[c])'
    BY <1>h, <1>n, <1>r, <2>1, <2>3 DEF Order, Running, NameOf, Within, Late, Reading
  <2>6. Running(conv'[c]) => DirectoryOf(conv[c])'
    BY <1>h, <1>n, <1>r, <2>1, <2>3 DEF Order, Running, DirectoryOf, Reading
  <2>7. Running(conv'[c]) => WholeOf(conv[c])'
    BY <1>h, <1>n, <1>r, <2>1, <2>3 DEF Order, Running, WholeOf, Reading
  <2> QED
    BY <2>2, <2>3, <2>4, <2>5, <2>6, <2>7 DEF Order
<1>7. CASE TakeName(c)
  <2>1. tmpbuf' = tmpbuf + 1 /\ tmpbuf + 1 \in Names /\ UNCHANGED <<heap, m_apkg, disk>>
    BY <1>7 DEF TakeName, Ready
  <2>2. \/ conv[c].pc = "idle" /\ Moved(c, "meta", conv[c].dir, conv[c].known,
                                        conv[c].todo, conv[c].pkg, conv[c].whole,
                                            conv[c].said)
        \/ conv[c].pc = "meta" /\ Moved(c, "extract", conv[c].dir, conv[c].known,
                                        conv[c].todo, conv[c].pkg, conv[c].whole,
                                            conv[c].said)
    BY <1>0, <1>7, TakeNameEffect
  <2>3. disk'[tmpbuf'] = {}
    <3>1. tmpbuf \in Nat
      BY <1>0, NamesNat
    <3> QED
      BY <2>1, <3>1 DEF Ready, FreshNames
  <2>4. /\ Running(conv'[c]) /\ m_apkg' = 0 /\ conv'[c].known = Nobody
        /\ conv'[c].pc \in {"meta", "extract"}
    BY <1>r, <2>1, <2>2 DEF Running, Order, PackageOf, NameOf, Before, Early
  <2>5. OneLive'
    BY <1>r, <2>1 DEF OneLive
  <2>6. PackageOf(conv[c])'
    BY <1>n, <2>1, <2>3, <2>4 DEF Running, PackageOf, Before, Within, Early, Late, Reading
  <2>7. NameOf(conv[c])'
    BY <1>n, <2>1, <2>3, <2>4 DEF Running, NameOf, Within, Late, Reading
  <2>8. DirectoryOf(conv[c])'
    BY <1>n, <2>1, <2>3, <2>4 DEF Running, DirectoryOf, Reading
  <2>9. WholeOf(conv[c])'
    BY <1>n, <2>1, <2>3, <2>4 DEF Running, WholeOf, Reading
  <2> QED
    BY <2>4, <2>5, <2>6, <2>7, <2>8, <2>9 DEF Order
<1>8. CASE Extract(c)
  <2> HIDE DEF Moved
  <2>1. ASSUME NEW from, NEW to, BeginExtract(c, from, to),
               (from = "extract" /\ to = "untar") \/ (from = "control" /\ to = "unpack")
        PROVE  OneLive' /\ Running(conv'[c]) /\ Order(conv[c])'
    <3>1. /\ Moved(c, to, tmpbuf, conv[c].known, conv[c].todo, conv[c].pkg,
                   conv[c].whole, conv[c].said)
          /\ UNCHANGED <<heap, m_apkg, tmpbuf, disk>> /\ conv[c].pc = from
      BY <1>0, <2>1, BeginExtractEffect DEF BeginExtract
    <3>2. OneLive' /\ Running(conv[c]) /\ Running(conv'[c])
      BY <1>r, <2>1, <3>1 DEF Moved, OneLive, Running
    <3>3. PackageOf(conv[c])'
      BY <1>0, <1>r, <1>h, <1>n, <2>1, <3>1, <3>2 DEF Moved, Order, Running, PackageOf,
         Before, Within, Early, Late, Reading, Live
    <3>4. NameOf(conv[c])'
      BY <1>0, <1>r, <1>h, <1>n, <2>1, <3>1, <3>2 DEF Moved, Order, Running, NameOf,
         Within, Late, Reading
    <3>5. DirectoryOf(conv[c])'
      BY <1>0, <1>r, <1>h, <1>n, <2>1, <3>1, <3>2 DEF Moved, Order, Running, DirectoryOf,
         Reading
    <3>6. WholeOf(conv[c])'
      BY <1>0, <1>r, <1>h, <1>n, <2>1, <3>1, <3>2 DEF Moved, Order, Running, WholeOf,
         Reading
    <3> QED
      BY <3>2, <3>3, <3>4, <3>5, <3>6 DEF Order
  <2>2. ASSUME NEW members, EndExtract(c, "untar", members, "control"),
      members = Data(conv[c].deb)
        PROVE  OneLive' /\ Running(conv'[c]) /\ Order(conv[c])'
    <3>1. PICK got \in {members, {}} :
             /\ disk' = [disk EXCEPT ![conv[c].dir] = Put(@, got)]
             /\ Moved(c, "control", 0, conv[c].known, conv[c].todo, conv[c].pkg,
                      (conv[c].whole /\ got = members), conv[c].said)
      <4>1. EndExtract(c, "untar", members, "control") /\ conv \in [Conversion -> Thread]
        BY <1>0, <2>2
      <4> QED
        BY <4>1, EndExtractEffect, Zenon
    <3>2. UNCHANGED <<heap, m_apkg, tmpbuf>> /\ conv[c].pc = "untar"
      BY <2>2 DEF EndExtract
    <3>3. /\ OneLive' /\ Running(conv[c]) /\ Running(conv'[c]) /\ conv[c].dir = tmpbuf
          /\ disk[tmpbuf] \in SUBSET (Data(conv[c].deb) \cup Control(conv[c].deb))
      BY <1>r, <3>1, <3>2 DEF Moved, OneLive, Running, Order, DirectoryOf
    <3>4. disk'[tmpbuf] = Put(disk[tmpbuf], got)
      BY <1>0, <3>1, <3>3
    <3>5. got = {} => disk'[tmpbuf] = disk[tmpbuf]
      BY <3>4, PutNothing
    <3>6. got = members => disk'[tmpbuf] \subseteq Data(conv[c].deb) \cup Control(conv[c].deb)
                           /\ members \subseteq disk'[tmpbuf]
      BY <1>0, <2>2, <3>3, <3>4, PutMembers
    <3>7. /\ disk'[tmpbuf] \subseteq Data(conv[c].deb) \cup Control(conv[c].deb)
          /\ conv'[c].whole => Data(conv[c].deb) \subseteq disk'[tmpbuf]
      BY <1>0, <2>2, <3>1, <3>3, <3>5, <3>6 DEF Moved
    <3>8. PackageOf(conv[c])'
      BY <1>0, <1>r, <1>h, <1>n, <3>1, <3>2, <3>3, <3>7 DEF Moved, Order, Running,
         PackageOf, Before, Within, Early, Late, Reading, Live
    <3>9. NameOf(conv[c])'
      BY <1>0, <1>r, <1>h, <1>n, <3>1, <3>2, <3>3, <3>7 DEF Moved, Order, Running,
         NameOf, Within, Late, Reading
    <3>10. DirectoryOf(conv[c])'
      BY <1>0, <1>r, <1>h, <1>n, <3>1, <3>2, <3>3, <3>7 DEF Moved, Order, Running,
         DirectoryOf, Reading
    <3>11. WholeOf(conv[c])'
      BY <1>0, <1>r, <1>h, <1>n, <3>1, <3>2, <3>3, <3>7 DEF Moved, Order, Running,
         WholeOf, Reading
    <3> QED
      BY <3>3, <3>8, <3>9, <3>10, <3>11 DEF Order
  <2>3. ASSUME NEW members, EndExtract(c, "unpack", members, "info"),
      members = Control(conv[c].deb)
        PROVE  OneLive' /\ Running(conv'[c]) /\ Order(conv[c])'
    <3>1. PICK got \in {members, {}} :
             /\ disk' = [disk EXCEPT ![conv[c].dir] = Put(@, got)]
             /\ Moved(c, "info", 0, conv[c].known, conv[c].todo, conv[c].pkg,
                      (conv[c].whole /\ got = members), conv[c].said)
      <4>1. EndExtract(c, "unpack", members, "info") /\ conv \in [Conversion -> Thread]
        BY <1>0, <2>3
      <4> QED
        BY <4>1, EndExtractEffect, Zenon
    <3>2. UNCHANGED <<heap, m_apkg, tmpbuf>> /\ conv[c].pc = "unpack"
      BY <2>3 DEF EndExtract
    <3>3. /\ OneLive' /\ Running(conv[c]) /\ Running(conv'[c]) /\ conv[c].dir = tmpbuf
          /\ disk[tmpbuf] \in SUBSET (Data(conv[c].deb) \cup Control(conv[c].deb))
          /\ conv[c].known = Nobody
          /\ conv[c].whole => Data(conv[c].deb) \subseteq disk[tmpbuf]
      BY <1>r, <3>1, <3>2 DEF Moved, OneLive, Running, Order, DirectoryOf, NameOf, WholeOf
    <3>4. disk'[tmpbuf] = Put(disk[tmpbuf], got)
      BY <1>0, <3>1, <3>3
    <3>5. got = {} => disk'[tmpbuf] = disk[tmpbuf]
      BY <3>4, PutNothing
    <3>6. got = members => disk'[tmpbuf] \subseteq Data(conv[c].deb) \cup Control(conv[c].deb)
      BY <1>0, <2>3, <3>3, <3>4, PutMembers
    <3>7. disk'[tmpbuf] \subseteq Data(conv[c].deb) \cup Control(conv[c].deb)
      BY <3>1, <3>3, <3>5, <3>6
    <3>8. conv'[c].whole => Data(conv[c].deb) \cup Control(conv[c].deb) \subseteq disk'[tmpbuf]
      <4>1. SUFFICES ASSUME conv[c].whole, got = members
                     PROVE  Data(conv[c].deb) \cup Control(conv[c].deb) \subseteq disk'[tmpbuf]
        BY <3>1 DEF Moved
      <4>2. disk'[tmpbuf] = Put(disk[tmpbuf], Control(conv[c].deb))
        BY <2>3, <3>4, <4>1
      <4>3. Data(conv[c].deb) \subseteq disk[tmpbuf]
        BY <3>3, <4>1
      <4> QED
        BY <1>0, <4>2, <4>3, PutControl
    <3>9. PackageOf(conv[c])'
      BY <1>0, <1>r, <1>h, <1>n, <3>1, <3>2, <3>3, <3>7, <3>8 DEF Moved, Order, Running,
         PackageOf, Before, Within, Early, Late, Reading, Live
    <3>10. NameOf(conv[c])'
      BY <1>0, <1>r, <1>h, <1>n, <3>1, <3>2, <3>3, <3>7, <3>8 DEF Moved, Order, Running,
         NameOf, Within, Late, Reading
    <3>11. DirectoryOf(conv[c])'
      BY <1>0, <1>r, <1>h, <1>n, <3>1, <3>2, <3>3, <3>7, <3>8 DEF Moved, Order, Running,
         DirectoryOf, Reading
    <3>12. WholeOf(conv[c])'
      BY <1>0, <1>r, <1>h, <1>n, <3>1, <3>2, <3>3, <3>7, <3>8 DEF Moved, Order, Running,
         WholeOf, Reading
    <3> QED
      BY <3>3, <3>9, <3>10, <3>11, <3>12 DEF Order
  <2>4. \/ BeginExtract(c, "extract", "untar")
        \/ EndExtract(c, "untar", Data(conv[c].deb), "control")
        \/ BeginExtract(c, "control", "unpack")
        \/ EndExtract(c, "unpack", Control(conv[c].deb), "info")
    BY <1>8, Zenon DEF Extract
  <2> QED
    BY <2>1, <2>2, <2>3, <2>4
<1>9. CASE ReadIdentity(c)
  <2>1. conv[c].pc = "read" /\ conv[c].known = Nobody /\ UNCHANGED <<heap, m_apkg,
      tmpbuf, disk>> /\ Running(conv[c])
    BY <1>9 DEF ReadIdentity, Running
  <2>2. /\ conv[c].dir = tmpbuf /\ m_apkg = 0
        /\ disk[tmpbuf] \subseteq Data(conv[c].deb) \cup Control(conv[c].deb)
    BY <1>r, <2>1 DEF Order, PackageOf, DirectoryOf, Before, Reading
  <2>3. OneLive'
    BY <1>r, <2>1 DEF OneLive
  <2>4. CASE Moved(c, "check", 0, conv[c].known, conv[c].todo, conv[c].pkg,
                   conv[c].whole, conv[c].said)
    <3>1. Running(conv'[c])
      BY <2>4 DEF Running
    <3>2. PackageOf(conv[c])'
      BY <1>0, <1>r, <1>h, <1>n, <2>1, <2>2, <2>4 DEF Order, Running, PackageOf, Before,
         Within, Early, Late, Reading, Live
    <3>3. NameOf(conv[c])'
      BY <1>0, <1>r, <1>h, <1>n, <2>1, <2>2, <2>4 DEF Order, Running, NameOf, Within,
         Late, Reading
    <3>4. DirectoryOf(conv[c])'
      BY <1>0, <1>r, <1>h, <1>n, <2>1, <2>2, <2>4 DEF Order, Running, DirectoryOf, Reading
    <3>5. WholeOf(conv[c])'
      BY <1>0, <1>r, <1>h, <1>n, <2>1, <2>2, <2>4 DEF Order, Running, WholeOf, Reading
    <3> QED
      BY <2>3, <3>1, <3>2, <3>3, <3>4, <3>5 DEF Order
  <2>5. ASSUME NEW f \in Found(c), Moved(c, "new", 0, f.owner, conv[c].todo, conv[c].pkg,
                                         conv[c].whole, conv[c].said)
        PROVE  OneLive' /\ Running(conv'[c]) /\ Order(conv[c])'
    <3>1. f \in disk[tmpbuf] /\ f.path = "control"
      BY <2>2 DEF Found
    <3>2. f.owner = conv[c].deb
      BY <1>0, <2>2, <3>1, OwnMembers
    <3>3. "control" \in Paths(disk[tmpbuf])
      BY <3>1 DEF Paths
    <3>4. Running(conv'[c])
      BY <2>5 DEF Running
    <3>5. PackageOf(conv[c])'
      BY <1>0, <1>r, <1>h, <1>n, <2>1, <2>2, <2>5, <3>2, <3>3 DEF Order, Running,
         PackageOf, Before, Within, Early, Late, Reading, Live
    <3>6. NameOf(conv[c])'
      BY <1>0, <1>r, <1>h, <1>n, <2>1, <2>2, <2>5, <3>2, <3>3 DEF Order, Running, NameOf,
         Within, Late, Reading
    <3>7. DirectoryOf(conv[c])'
      BY <1>0, <1>r, <1>h, <1>n, <2>1, <2>2, <2>5, <3>2, <3>3 DEF Order, Running,
         DirectoryOf, Reading
    <3>8. WholeOf(conv[c])'
      BY <1>0, <1>r, <1>h, <1>n, <2>1, <2>2, <2>5, <3>2, <3>3 DEF Order, Running,
         WholeOf, Reading
    <3> QED
      BY <2>3, <3>4, <3>5, <3>6, <3>7, <3>8 DEF Order
  <2> QED
    BY <1>0, <1>9, <2>3, <2>4, <2>5, ReadIdentityEffect
<1>10. CASE ReadDescription(c)
  <2>1. /\ Moved(c, "details", 0, conv[c].known, conv[c].todo, conv[c].pkg,
                 conv[c].whole, conv[c].said)
        /\ UNCHANGED <<heap, m_apkg, tmpbuf,
            disk>> /\ conv[c].pc = "read" /\ conv[c].known # Nobody
    BY <1>0, <1>r, <1>10, ReadDescriptionEffect DEF ReadDescription
  <2>2. OneLive' /\ Running(conv[c]) /\ Running(conv'[c])
    BY <1>r, <2>1 DEF OneLive, Running
  <2>3. PackageOf(conv[c])'
    BY <1>0, <1>r, <1>h, <1>n, <2>1, <2>2 DEF Order, Running, PackageOf, Before, Within,
       Early, Late, Reading, Live
  <2>4. NameOf(conv[c])'
    BY <1>0, <1>r, <1>h, <1>n, <2>1, <2>2 DEF Order, Running, NameOf, Within, Late, Reading
  <2>5. DirectoryOf(conv[c])'
    BY <1>0, <1>r, <1>h, <1>n, <2>1, <2>2 DEF Order, Running, DirectoryOf, Reading
  <2>6. WholeOf(conv[c])'
    BY <1>0, <1>r, <1>h, <1>n, <2>1, <2>2 DEF Order, Running, WholeOf, Reading
  <2> QED
    BY <2>2, <2>3, <2>4, <2>5, <2>6 DEF Order
<1>11. CASE SetName(c)
  <2>1. /\ Live(m_apkg)
        /\ heap' = [heap EXCEPT ![m_apkg].name = IF @ = Nobody THEN conv[c].known ELSE @]
        /\ Moved(c, "info", conv[c].dir, conv[c].known, conv[c].todo, conv[c].pkg,
                 conv[c].whole, conv[c].said)
        /\ UNCHANGED <<tmpbuf, m_apkg, disk>> /\ conv[c].pc = "name"
    BY <1>0, <1>r, <1>11, SetNameEffect DEF SetName
  <2>2. /\ Running(conv[c]) /\ Running(conv'[c])
        /\ heap[m_apkg].name = Nobody /\ conv[c].known = conv[c].deb
    BY <1>r, <2>1 DEF Running, Order, NameOf, Late
  <2>3. /\ DOMAIN heap' = DOMAIN heap
        /\ heap'[m_apkg].name = conv[c].deb /\ heap'[m_apkg].live = heap[m_apkg].live
        /\ \A p \in DOMAIN heap \ {m_apkg} : heap'[p] = heap[p]
    <3>1. m_apkg \in DOMAIN heap /\ heap[m_apkg] \in AppPkg
      BY <1>0, <1>d, <2>1, LivePackage
    <3>2. heap' = [heap EXCEPT ![m_apkg] = [heap[m_apkg] EXCEPT !.name = conv[c].deb]]
      BY <2>1, <2>2
    <3>3. [heap[m_apkg] EXCEPT !.name = conv[c].deb].name = conv[c].deb
          /\ [heap[m_apkg] EXCEPT !.name = conv[c].deb].live = heap[m_apkg].live
      BY <3>1 DEF AppPkg
    <3> QED
      BY <3>1, <3>2, <3>3
  <2>4. OneLive' /\ Live(m_apkg)'
    BY <1>r, <2>1, <2>3 DEF OneLive, Live
  <2>5. PackageOf(conv[c])'
    BY <1>0, <1>r, <1>n, <2>1, <2>2, <2>3, <2>4 DEF Order, Running, PackageOf, Before,
       Within, Early, Late, Reading, Live
  <2>6. NameOf(conv[c])'
    BY <1>0, <1>r, <1>n, <2>1, <2>2, <2>3, <2>4 DEF Order, Running, NameOf, Within, Late,
       Reading
  <2>7. DirectoryOf(conv[c])'
    BY <1>0, <1>r, <1>n, <2>1, <2>2, <2>3, <2>4 DEF Order, Running, DirectoryOf, Reading
  <2>8. WholeOf(conv[c])'
    BY <1>0, <1>r, <1>n, <2>1, <2>2, <2>3, <2>4 DEF Order, Running, WholeOf, Reading
  <2> QED
    BY <2>2, <2>4, <2>5, <2>6, <2>7, <2>8 DEF Order
<1>12. CASE CleanControl(c)
  <2>1. /\ Moved(c, "walk", conv[c].dir, conv[c].known, conv[c].todo, conv[c].pkg,
                 conv[c].whole, conv[c].said)
        /\ UNCHANGED <<heap, m_apkg, tmpbuf>> /\ conv[c].pc = "clean"
    BY <1>0, <1>12, CleanControlEffect DEF CleanControl
  <2>2. OneLive' /\ Running(conv[c]) /\ Running(conv'[c])
    BY <1>r, <2>1 DEF OneLive, Running
  <2>3. disk'[tmpbuf] = {f \in disk[tmpbuf] : f.path \notin DirtyFiles}
    BY <1>0, <1>12 DEF CleanControl
  <2>4. /\ disk[tmpbuf] \subseteq Data(conv[c].deb) \cup Control(conv[c].deb)
        /\ conv[c].whole => Data(conv[c].deb) \cup Control(conv[c].deb) \subseteq disk[tmpbuf]
    BY <1>r, <2>1, <2>2 DEF Order, DirectoryOf, WholeOf
  <2>5. \A f \in Data(conv[c].deb) : f.path \notin DirtyFiles
    BY <1>0, OwnMembers DEF DirtyFiles
  <2>6. /\ disk'[tmpbuf] \subseteq Own(conv[c].deb)
        /\ conv[c].whole => Own(conv[c].deb) \subseteq disk'[tmpbuf]
    BY <2>3, <2>4, <2>5 DEF Own
  <2>0. Own(conv[c].deb) \subseteq Data(conv[c].deb) \cup Control(conv[c].deb)
    BY DEF Own
  <2>7. PackageOf(conv[c])'
    BY <1>0, <1>r, <1>h, <1>n, <2>1, <2>2, <2>6, <2>0 DEF Order, Running, PackageOf,
       Before, Within, Early, Late, Reading, Live
  <2>8. NameOf(conv[c])'
    BY <1>0, <1>r, <1>h, <1>n, <2>1, <2>2, <2>6, <2>0 DEF Order, Running, NameOf, Within,
       Late, Reading
  <2>9. DirectoryOf(conv[c])'
    BY <1>0, <1>r, <1>h, <1>n, <2>1, <2>2, <2>6, <2>0 DEF Order, Running, DirectoryOf,
       Reading
  <2>10. WholeOf(conv[c])'
    BY <1>0, <1>r, <1>h, <1>n, <2>1, <2>2, <2>6, <2>0 DEF Order, Running, WholeOf, Reading
  <2> QED
    BY <2>2, <2>7, <2>8, <2>9, <2>10 DEF Order
<1>13. CASE Walk(c)
  <2>1. CASE /\ conv[c].pc = "walk"
             /\ Moved(c, "add", conv[c].dir, conv[c].known, Paths(disk[tmpbuf]),
                      conv[c].pkg, conv[c].whole, conv[c].said)
             /\ UNCHANGED <<statics, files, fault>>
    <3>1. /\ OneLive' /\ Running(conv[c]) /\ Running(conv'[c])
          /\ UNCHANGED <<heap, m_apkg, tmpbuf, disk>>
      BY <1>r, <2>1 DEF OneLive, Running
    <3>2. conv[c].whole => Own(conv[c].deb) \subseteq disk[tmpbuf]
      BY <1>r, <2>1, <3>1 DEF Order, WholeOf
    <3>3. conv[c].whole => Paths(Own(conv[c].deb)) \subseteq Paths(disk[tmpbuf])
      BY <3>2, PathsKept
    <3>4. PackageOf(conv[c])'
      BY <1>0, <1>r, <1>h, <1>n, <2>1, <3>1, <3>3 DEF Order, Running, PackageOf, Before,
         Within, Early, Late, Reading, Live
    <3>5. NameOf(conv[c])'
      BY <1>0, <1>r, <1>h, <1>n, <2>1, <3>1, <3>3 DEF Order, Running, NameOf, Within,
         Late, Reading
    <3>6. DirectoryOf(conv[c])'
      BY <1>0, <1>r, <1>h, <1>n, <2>1, <3>1, <3>3 DEF Order, Running, DirectoryOf, Reading
    <3>7. WholeOf(conv[c])'
      BY <1>0, <1>r, <1>h, <1>n, <2>1, <3>1, <3>3 DEF Order, Running, WholeOf, Reading
    <3> QED
      BY <3>1, <3>4, <3>5, <3>6, <3>7 DEF Order
  <2>2. ASSUME conv[c].pc = "add", Live(m_apkg), NEW p \in conv[c].todo,
               heap' = [heap EXCEPT ![m_apkg].files = @ \cup {p}],
               Moved(c, conv[c].pc, conv[c].dir, conv[c].known, (conv[c].todo \ {p}),
                     conv[c].pkg, conv[c].whole, conv[c].said),
               UNCHANGED <<tmpbuf, m_apkg, files, fault>>
        PROVE  OneLive' /\ Running(conv'[c]) /\ Order(conv[c])'
    <3>1. /\ DOMAIN heap' = DOMAIN heap
          /\ heap'[m_apkg].name = heap[m_apkg].name /\ heap'[m_apkg].live = heap[m_apkg].live
          /\ heap'[m_apkg].files = heap[m_apkg].files \cup {p}
          /\ \A q \in DOMAIN heap \ {m_apkg} : heap'[q] = heap[q]
      <4>1. m_apkg \in DOMAIN heap /\ heap[m_apkg] \in AppPkg
        BY <1>0, <1>d, <2>2, LivePackage
      <4> DEFINE new == [heap[m_apkg] EXCEPT !.files = @ \cup {p}]
      <4>2. heap' = [heap EXCEPT ![m_apkg] = new]
        BY <2>2
      <4>3. /\ new.name = heap[m_apkg].name /\ new.live = heap[m_apkg].live
            /\ new.files = heap[m_apkg].files \cup {p}
        BY <4>1 DEF AppPkg
      <4> HIDE DEF new
      <4> QED
        BY <4>1, <4>2, <4>3
    <3>2. OneLive' /\ Live(m_apkg)' /\ Running(conv[c]) /\ Running(conv'[c])
      BY <1>r, <2>2, <3>1 DEF OneLive, Live, Running
    <3>3. conv[c].whole => Paths(Own(conv[c].deb)) \subseteq (conv[c].todo \ {p}) \cup heap'[m_apkg].files
      <4>1. conv[c].whole => Paths(Own(conv[c].deb)) \subseteq conv[c].todo \cup heap[m_apkg].files
        BY <1>r, <2>2, <3>2 DEF Order, WholeOf
      <4> QED
        BY <3>1, <4>1
    <3>0. disk' = disk /\ tmpbuf' = tmpbuf /\ m_apkg' = m_apkg
      BY <2>2
    <3>4. PackageOf(conv[c])'
      BY <1>r, <1>n, <2>2, <3>0, <3>1, <3>2, <3>3 DEF Order, Running, PackageOf, Before,
         Within, Early, Late, Reading, Live
    <3>5. NameOf(conv[c])'
      BY <1>r, <1>n, <2>2, <3>0, <3>1, <3>2, <3>3 DEF Order, Running, NameOf, Within,
         Late, Reading
    <3>6. DirectoryOf(conv[c])'
      BY <1>r, <1>n, <2>2, <3>0, <3>1, <3>2, <3>3 DEF Order, Running, DirectoryOf, Reading
    <3>7. WholeOf(conv[c])'
      BY <1>r, <1>n, <2>2, <3>0, <3>1, <3>2, <3>3 DEF Order, Running, WholeOf, Reading
    <3> QED
      BY <3>2, <3>4, <3>5, <3>6, <3>7 DEF Order
  <2>3. CASE /\ conv[c].pc = "add" /\ conv[c].todo = {}
             /\ Moved(c, "write", conv[c].dir, conv[c].known, conv[c].todo, conv[c].pkg,
                      conv[c].whole, conv[c].said)
             /\ UNCHANGED <<statics, files, fault>>
    <3>1. /\ OneLive' /\ Running(conv[c]) /\ Running(conv'[c])
          /\ UNCHANGED <<heap, m_apkg, tmpbuf, disk>>
      BY <1>r, <2>3 DEF OneLive, Running
    <3>2. conv[c].whole => Paths(Own(conv[c].deb)) \subseteq heap[m_apkg].files
      BY <1>r, <2>3, <3>1 DEF Order, WholeOf
    <3>3. PackageOf(conv[c])'
      BY <1>0, <1>r, <1>h, <1>n, <2>3, <3>1, <3>2 DEF Order, Running, PackageOf, Before,
         Within, Early, Late, Reading, Live
    <3>4. NameOf(conv[c])'
      BY <1>0, <1>r, <1>h, <1>n, <2>3, <3>1, <3>2 DEF Order, Running, NameOf, Within,
         Late, Reading
    <3>5. DirectoryOf(conv[c])'
      BY <1>0, <1>r, <1>h, <1>n, <2>3, <3>1, <3>2 DEF Order, Running, DirectoryOf, Reading
    <3>6. WholeOf(conv[c])'
      BY <1>0, <1>r, <1>h, <1>n, <2>3, <3>1, <3>2 DEF Order, Running, WholeOf, Reading
    <3> QED
      BY <3>1, <3>3, <3>4, <3>5, <3>6 DEF Order
  <2> QED
    BY <1>0, <1>r, <1>13, <2>1, <2>2, <2>3, WalkEffect
<1>14. CASE CheckFiles(c)
  <2>0. conv[c].pc = "write"
    BY <1>14 DEF CheckFiles
  <2>1. CASE Moved(c, "create", tmpbuf, conv[c].known, heap[m_apkg].files, m_apkg,
                   conv[c].whole, conv[c].said) /\ UNCHANGED <<heap, m_apkg, tmpbuf, disk>>
    <3>1. OneLive' /\ Running(conv[c]) /\ Running(conv'[c])
      BY <1>r, <2>0, <2>1 DEF OneLive, Running
    <3>2. PackageOf(conv[c])'
      BY <1>0, <1>r, <1>h, <1>n, <2>0, <2>1, <3>1 DEF Order, Running, PackageOf, Before,
         Within, Early, Late, Reading, Live
    <3>3. NameOf(conv[c])'
      BY <1>0, <1>r, <1>h, <1>n, <2>0, <2>1, <3>1 DEF Order, Running, NameOf, Within,
         Late, Reading
    <3>4. DirectoryOf(conv[c])'
      BY <1>0, <1>r, <1>h, <1>n, <2>0, <2>1, <3>1 DEF Order, Running, DirectoryOf, Reading
    <3>5. WholeOf(conv[c])'
      BY <1>0, <1>r, <1>h, <1>n, <2>0, <2>1, <3>1 DEF Order, Running, WholeOf, Reading
    <3> QED
      BY <3>1, <3>2, <3>3, <3>4, <3>5 DEF Order
  <2>2. CASE Moved(c, "check", 0, conv[c].known, {}, 0, conv[c].whole,
                   "converted") /\ UNCHANGED <<heap, m_apkg, tmpbuf, disk>>
    <3>1. /\ OneLive' /\ Running(conv[c]) /\ Running(conv'[c])
          /\ Within(conv[c])
      BY <1>r, <2>0, <2>2 DEF OneLive, Running, Within, Late
    <3>2. PackageOf(conv[c])'
      BY <1>0, <1>r, <1>h, <1>n, <2>0, <2>2, <3>1 DEF Order, Running, PackageOf, Before,
         Within, Early, Late, Reading, Live
    <3>3. NameOf(conv[c])'
      BY <1>0, <1>r, <1>h, <1>n, <2>0, <2>2, <3>1 DEF Order, Running, NameOf, Within,
         Late, Reading
    <3>4. DirectoryOf(conv[c])'
      BY <1>0, <1>r, <1>h, <1>n, <2>0, <2>2, <3>1 DEF Order, Running, DirectoryOf, Reading
    <3>5. WholeOf(conv[c])'
      BY <1>0, <1>r, <1>h, <1>n, <2>0, <2>2, <3>1 DEF Order, Running, WholeOf, Reading
    <3> QED
      BY <3>1, <3>2, <3>3, <3>4, <3>5 DEF Order
  <2> QED
    BY <1>0, <1>r, <1>14, <2>1, <2>2, CheckFilesEffect
<1>15. CASE Create(c)
  <2>1. /\ Moved(c, "payload", conv[c].dir, conv[c].known, conv[c].todo, conv[c].pkg,
                 conv[c].whole, conv[c].said)
        /\ UNCHANGED <<heap, m_apkg, tmpbuf, disk>> /\ conv[c].pc = "create"
    BY <1>0, <1>r, <1>15, CreateEffect DEF Create
  <2>2. OneLive' /\ Running(conv[c]) /\ Running(conv'[c])
    BY <1>r, <2>1 DEF OneLive, Running
  <2>3. PackageOf(conv[c])'
    BY <1>0, <1>r, <1>h, <1>n, <2>1, <2>2 DEF Order, Running, PackageOf, Before, Within,
       Early, Late, Reading, Live
  <2>4. NameOf(conv[c])'
    BY <1>0, <1>r, <1>h, <1>n, <2>1, <2>2 DEF Order, Running, NameOf, Within, Late, Reading
  <2>5. DirectoryOf(conv[c])'
    BY <1>0, <1>r, <1>h, <1>n, <2>1, <2>2 DEF Order, Running, DirectoryOf, Reading
  <2>6. WholeOf(conv[c])'
    BY <1>0, <1>r, <1>h, <1>n, <2>1, <2>2 DEF Order, Running, WholeOf, Reading
  <2> QED
    BY <2>2, <2>3, <2>4, <2>5, <2>6 DEF Order
<1>16. CASE Payload(c)
  <2>0. conv[c].pc \in {"create", "payload"}
    BY <1>16 DEF Payload
  <2>1. CASE Moved(c, "check", 0, conv[c].known, {}, 0, conv[c].whole,
                   "converted") /\ UNCHANGED <<heap, m_apkg, tmpbuf, disk>>
    <3>1. /\ OneLive' /\ Running(conv[c]) /\ Running(conv'[c])
          /\ Within(conv[c])
      BY <1>r, <2>0, <2>1 DEF OneLive, Running, Within, Late
    <3>2. PackageOf(conv[c])'
      BY <1>0, <1>r, <1>h, <1>n, <2>0, <2>1, <3>1 DEF Order, Running, PackageOf, Before,
         Within, Early, Late, Reading, Live
    <3>3. NameOf(conv[c])'
      BY <1>0, <1>r, <1>h, <1>n, <2>0, <2>1, <3>1 DEF Order, Running, NameOf, Within,
         Late, Reading
    <3>4. DirectoryOf(conv[c])'
      BY <1>0, <1>r, <1>h, <1>n, <2>0, <2>1, <3>1 DEF Order, Running, DirectoryOf, Reading
    <3>5. WholeOf(conv[c])'
      BY <1>0, <1>r, <1>h, <1>n, <2>0, <2>1, <3>1 DEF Order, Running, WholeOf, Reading
    <3> QED
      BY <3>1, <3>2, <3>3, <3>4, <3>5 DEF Order
  <2>2. Reported(c) /\ UNCHANGED <<heap, m_apkg, tmpbuf, disk>>
    BY <1>r, <1>16 DEF Payload
  <2> QED
    BY <1>0, <2>1, <2>2, ReportedEffect
<1>17. CASE WriteFails(c)
  <2>0. conv[c].pc \in {"create", "payload"}
    BY <1>17 DEF WriteFails
  <2>1. CASE Moved(c, "check", 0, conv[c].known, {}, 0, conv[c].whole,
                   "converted") /\ UNCHANGED <<heap, m_apkg, tmpbuf, disk>>
    <3>1. /\ OneLive' /\ Running(conv[c]) /\ Running(conv'[c])
          /\ Within(conv[c])
      BY <1>r, <2>0, <2>1 DEF OneLive, Running, Within, Late
    <3>2. PackageOf(conv[c])'
      BY <1>0, <1>r, <1>h, <1>n, <2>0, <2>1, <3>1 DEF Order, Running, PackageOf, Before,
         Within, Early, Late, Reading, Live
    <3>3. NameOf(conv[c])'
      BY <1>0, <1>r, <1>h, <1>n, <2>0, <2>1, <3>1 DEF Order, Running, NameOf, Within,
         Late, Reading
    <3>4. DirectoryOf(conv[c])'
      BY <1>0, <1>r, <1>h, <1>n, <2>0, <2>1, <3>1 DEF Order, Running, DirectoryOf, Reading
    <3>5. WholeOf(conv[c])'
      BY <1>0, <1>r, <1>h, <1>n, <2>0, <2>1, <3>1 DEF Order, Running, WholeOf, Reading
    <3> QED
      BY <3>1, <3>2, <3>3, <3>4, <3>5 DEF Order
  <2>2. Reported(c) /\ UNCHANGED <<heap, m_apkg, tmpbuf, disk>>
    BY <1>r, <1>17 DEF WriteFails
  <2> QED
    BY <1>0, <2>1, <2>2, ReportedEffect
<1>18. CASE Free(c)
  <2>1. /\ Live(m_apkg)
        /\ heap' = [heap EXCEPT ![m_apkg] = [name |-> Nobody, files |-> {}, live |-> FALSE]]
        /\ Moved(c, "null", conv[c].dir, conv[c].known, conv[c].todo, conv[c].pkg,
                 conv[c].whole, conv[c].said)
        /\ UNCHANGED <<tmpbuf, m_apkg, disk>> /\ conv[c].pc = "free"
    BY <1>0, <1>r, <1>18, FreeEffect DEF Free
  <2>2. Running(conv[c]) /\ Running(conv'[c])
    BY <2>1 DEF Running
  <2>3. /\ m_apkg \in DOMAIN heap /\ m_apkg # 0
        /\ DOMAIN heap' = DOMAIN heap /\ ~heap'[m_apkg].live
        /\ \A q \in DOMAIN heap \ {m_apkg} : heap'[q] = heap[q]
    BY <1>0, <1>d, <2>1 DEF Live
  <2>4. OneLive' /\ ~Live(m_apkg)'
    BY <1>r, <2>1, <2>3 DEF OneLive, Live
  <2>5. PackageOf(conv[c])'
    BY <1>r, <1>n, <2>1, <2>2, <2>3, <2>4 DEF Order, Running, PackageOf, Before, Within,
       Early, Late, Reading, Live
  <2>6. NameOf(conv[c])'
    BY <1>r, <1>n, <2>1, <2>2, <2>3, <2>4 DEF Order, Running, NameOf, Within, Late, Reading
  <2>7. DirectoryOf(conv[c])'
    BY <1>r, <1>n, <2>1, <2>2, <2>3, <2>4 DEF Order, Running, DirectoryOf, Reading
  <2>8. WholeOf(conv[c])'
    BY <1>r, <1>n, <2>1, <2>2, <2>3, <2>4 DEF Order, Running, WholeOf, Reading
  <2> QED
    BY <2>2, <2>4, <2>5, <2>6, <2>7, <2>8 DEF Order
<1>19. CASE Null(c)
  <2>1. /\ Moved(c, "returned", conv[c].dir, conv[c].known, conv[c].todo, conv[c].pkg,
                 conv[c].whole, conv[c].said)
        /\ heap' = heap /\ m_apkg' = 0 /\ conv[c].pc = "null"
    BY <1>0, <1>19, NullEffect DEF Null
  <2>2. Running(conv[c]) /\ ~Running(conv'[c])
    BY <2>1 DEF Running
  <2>3. ~Live(m_apkg)
    BY <1>r, <2>1, <2>2 DEF Order, PackageOf
  <2>4. OneLive'
    BY <1>r, <2>1, <2>3 DEF OneLive, Live
  <2> QED
    BY <2>1, <2>2, <2>4
<1> QED
  BY <1>1, <1>2, <1>3, <1>4, <1>5, <1>6, <1>7, <1>8, <1>9, <1>10, <1>11, <1>12, <1>13,
     <1>14, <1>15, <1>16, <1>17, <1>18, <1>19 DEF Step

-----------------------------------------------------------------------------
\* Only a control file without Description stops a conversion that keeps to
\* the order, its own.
LEMMA CrashStep ==
  ASSUME TypeOK, NEW c \in Conversion, Step(c), Running(conv[c]) => Order(conv[c])
  PROVE  fault' = "none" \/ (fault' = "no description" /\ conv' = conv /\ conv[c].deb \in Undescribed)
<1> USE DEF statics, files, At, Running, Order, PackageOf, Within, Late, Reading
<1>0. conv \in [Conversion -> Thread] /\ conv[c].deb \in Deb
  <2>1. conv \in [Conversion -> Thread] /\ conv[c] \in Thread
    BY DEF TypeOK
  <2> QED
    BY <2>1 DEF Thread
<1>1. CASE TakeName(c)
  BY <1>1 DEF TakeName
<1>2. CASE GiveUp(c)
  BY <1>2 DEF GiveUp
<1>3. CASE InfoTest(c)
  BY <1>3 DEF InfoTest
<1>4. CASE Refetch(c)
  BY <1>4 DEF Refetch
<1>5. CASE ReadIdentity(c)
  BY <1>5 DEF ReadIdentity
<1>6. CASE NewPackage(c)
  BY <1>6 DEF NewPackage
<1>7. CASE CleanControl(c)
  BY <1>7 DEF CleanControl
<1>8. CASE WriteFails(c)
  BY <1>8 DEF WriteFails
<1>9. CASE Check(c)
  BY <1>9 DEF Check
<1>10. CASE Null(c)
  BY <1>10 DEF Null
<1>11. CASE Extract(c)
  BY <1>11 DEF Extract, BeginExtract, EndExtract
<1>12. CASE SetName(c)
  BY <1>12 DEF SetName, Fails
<1>13. CASE SetDetails(c)
  BY <1>13 DEF SetDetails, Fails
<1>14. CASE Walk(c)
  BY <1>14 DEF Walk, Fails
<1>15. CASE CheckFiles(c)
  BY <1>15 DEF CheckFiles, Fails
<1>16. CASE Create(c)
  BY <1>16 DEF Create, Fails
<1>17. CASE Payload(c)
  BY <1>17 DEF Payload, Fails
<1>18. CASE Free(c)
  BY <1>18 DEF Free, Fails
<1>19. CASE ReadDescription(c)
  <2>1. /\ conv[c].pc = "read" /\ conv[c].known # Nobody /\ fault = "none"
        /\ fault' = fault \/ (Fails("no description") /\ \A f \in Found(c) : f.owner \in Undescribed)
    BY <1>19 DEF ReadDescription
  <2>2. /\ conv[c].dir = tmpbuf /\ "control" \in Paths(disk[tmpbuf])
        /\ disk[tmpbuf] \subseteq Data(conv[c].deb) \cup Control(conv[c].deb)
    BY <2>1 DEF DirectoryOf
  <2>3. PICK f \in disk[tmpbuf] : f.path = "control"
    BY <2>2 DEF Paths
  <2>4. f \in Found(c)
    BY <2>2, <2>3 DEF Found
  <2>5. f.owner = conv[c].deb
    BY <1>0, <2>2, <2>3, OwnMembers
  <2> QED
    BY <2>1, <2>4, <2>5 DEF Fails
<1> QED
  BY <1>1, <1>2, <1>3, <1>4, <1>5, <1>6, <1>7, <1>8, <1>9, <1>10, <1>11, <1>12, <1>13,
     <1>14, <1>15, <1>16, <1>17, <1>18, <1>19 DEF Step

\* RpmOrder does not depend on the other variables.
LEMMA RpmKept ==
  ASSUME NEW c \in Conversion, rpm' = rpm, RpmOrder,
         \A e \in Conversion \ {c} : conv'[e] = conv[e],
         conv'[c].whole => conv[c].whole,
         conv'[c] = conv[c] \/ (conv[c].pc # "payload" /\ conv'[c].pc # "payload")
  PROVE  RpmOrder'
<1>1. RpmInv'
  BY DEF RpmOrder, RpmInv
<1>2. PartInv'
  BY DEF RpmOrder, PartInv
<1>3. PayInv'
  BY DEF RpmOrder, PayInv
<1> QED
  BY <1>1, <1>2, <1>3 DEF RpmOrder

\* A step of a conversion that runs alone keeps RpmOrder.
LEMMA RpmStep ==
  ASSUME TypeOK, NEW c \in Conversion, Step(c), Running(conv[c]) => Order(conv[c]),
         \A e \in Conversion \ {c} : ~Running(conv[e]),
         RpmOrder
  PROVE  RpmOrder'
<1> USE DEF statics, files, At
<1>0. /\ conv \in [Conversion -> Thread] /\ rpm \in [Deb -> Rpm]
      /\ conv[c] \in Thread /\ conv[c].deb \in Deb
  <2>1. conv \in [Conversion -> Thread] /\ conv[c] \in Thread
    BY DEF TypeOK
  <2>2. conv[c].deb \in Deb
    BY <2>1 DEF Thread
  <2> QED
    BY <2>1, <2>2 DEF TypeOK
<1>1. CASE TakeName(c)
  BY <1>0, <1>1, TakeNameEffect, RpmKept DEF TakeName, Moved
<1>2. CASE ~TakeName(c) /\ conv[c].pc \notin {"create", "payload"}
  BY <1>2, StepKeeps, RpmKept DEF Kept
<1>3. ASSUME NEW what, Fails(what)
      PROVE  RpmOrder'
  BY <1>3, RpmKept DEF Fails
<1>a. ASSUME NEW d \in Deb, rpm[d].state \notin {"absent", "whole"}
      PROVE  conv[c].pc = "payload" /\ d = conv[c].deb
  BY <1>a DEF RpmOrder, PartInv, Running
<1>b. conv[c].pc \in {"create", "payload"} => Running(conv[c]) /\ Order(conv[c])
  BY DEF Running
<1>4. CASE Create(c)
  <2>0. SUFFICES ASSUME ~Fails("package gone")
                 PROVE  RpmOrder'
    BY <1>3
  <2>1. /\ conv[c].pc = "create"
        /\ rpm' = [rpm EXCEPT ![conv[c].deb] = [state |-> "partial", writer |-> c,
                         name |-> heap[conv[c].pkg].name, files |-> {}]]
        /\ Moved(c, "payload", conv[c].dir, conv[c].known, conv[c].todo, conv[c].pkg,
                 conv[c].whole, conv[c].said)
    BY <1>0, <1>4, <2>0, CreateEffect DEF Create
  <2>2. heap[conv[c].pkg].name = conv[c].deb
    BY <1>b, <2>1 DEF Order, PackageOf, NameOf, Within, Late
  <2> DEFINE new == [state |-> "partial", writer |-> c, name |-> conv[c].deb, files |-> {}]
  <2>3. /\ rpm'[conv[c].deb] = new
        /\ \A d \in Deb \ {conv[c].deb} : rpm'[d] = rpm[d]
    BY <1>0, <2>1, <2>2
  <2>4. new.state = "partial" /\ new.writer = c /\ new.name = conv[c].deb /\ new.files = {}
    OBVIOUS
  <2> HIDE DEF new
  <2>5. RpmInv'
    BY <2>1, <2>3, <2>4 DEF RpmOrder, RpmInv, Moved
  <2>6. PartInv'
    BY <1>a, <2>1, <2>3, <2>4 DEF PartInv, Moved
  <2>7. PayInv'
    BY <2>1, <2>3, <2>4 DEF PayInv, Moved, Running
  <2> QED
    BY <2>5, <2>6, <2>7 DEF RpmOrder
<1>5. CASE Payload(c)
  <2>0. SUFFICES ASSUME ~Fails("package gone")
                 PROVE  RpmOrder'
    BY <1>3
  <2> DEFINE r == rpm[conv[c].deb]
             cpio == {f \in disk[conv[c].dir] : f.path \in conv[c].todo}
             new == [r EXCEPT !.state = "whole", !.files = cpio]
  <2>1. conv[c].pc = "payload" /\ Reported(c)
        /\ rpm' = [rpm EXCEPT ![conv[c].deb] =
                     IF r.state = "partial" /\ r.writer = c THEN new
                     ELSE [r EXCEPT !.state = IF @ = "absent" THEN @ ELSE "garbled"]]
    BY <1>5, <2>0 DEF Payload
  <2>2. r.state = "partial" /\ r.writer = c /\ r \in Rpm
    BY <1>0, <2>1 DEF RpmOrder, PayInv
  <2>3. Moved(c, "check", 0, conv[c].known, {}, 0, conv[c].whole, "converted")
    BY <1>0, <2>1, ReportedEffect
  <2>4. /\ rpm'[conv[c].deb] = new
        /\ \A d \in Deb \ {conv[c].deb} : rpm'[d] = rpm[d]
    BY <1>0, <2>1, <2>2
  <2>5. r.name = conv[c].deb
    BY <1>0, <2>2 DEF RpmOrder, RpmInv
  <2>6. /\ conv[c].dir = tmpbuf /\ disk[tmpbuf] \subseteq Own(conv[c].deb)
        /\ conv[c].whole => /\ Own(conv[c].deb) \subseteq disk[tmpbuf]
                            /\ Paths(Own(conv[c].deb)) \subseteq conv[c].todo
    BY <1>b, <2>1 DEF Order, DirectoryOf, WholeOf
  <2>7. cpio \subseteq Own(conv[c].deb) /\ (conv[c].whole => cpio = Own(conv[c].deb))
    BY <2>6 DEF Paths
  <2> HIDE DEF cpio, r
  <2>8. new.state = "whole" /\ new.writer = c /\ new.name = conv[c].deb /\ new.files = cpio
    BY <2>2, <2>5 DEF Rpm
  <2> HIDE DEF new
  <2>9. RpmInv'
    BY <2>3, <2>4, <2>7, <2>8 DEF RpmOrder, RpmInv, Moved
  <2>10. PartInv'
    BY <1>a, <2>3, <2>4, <2>8 DEF PartInv, Moved
  <2>11. PayInv'
    BY <2>3 DEF PayInv, Moved, Running
  <2> QED
    BY <2>9, <2>10, <2>11 DEF RpmOrder
<1>6. CASE WriteFails(c)
  <2>1. Reported(c) /\ rpm' = [rpm EXCEPT ![conv[c].deb].state = "absent"]
    BY <1>6 DEF WriteFails
  <2>2. Moved(c, "check", 0, conv[c].known, {}, 0, conv[c].whole, "converted")
    BY <1>0, <2>1, ReportedEffect
  <2>3. /\ rpm'[conv[c].deb].state = "absent"
        /\ \A d \in Deb \ {conv[c].deb} : rpm'[d] = rpm[d]
    <3>1. \A q \in Rpm : [q EXCEPT !.state = "absent"].state = "absent"
      BY DEF Rpm
    <3> QED
      BY <1>0, <2>1, <3>1
  <2>4. RpmInv'
    BY <2>2, <2>3 DEF RpmOrder, RpmInv, Moved
  <2>5. PartInv'
    BY <1>a, <2>2, <2>3 DEF PartInv, Moved
  <2>6. PayInv'
    BY <2>2 DEF PayInv, Moved, Running
  <2> QED
    BY <2>4, <2>5, <2>6 DEF RpmOrder
<1>7. CASE ~TakeName(c) /\ conv[c].pc \in {"create", "payload"}
  <2>1. Create(c) \/ Payload(c) \/ WriteFails(c)
    BY <1>7 DEF Step, GiveUp, Extract, BeginExtract, EndExtract, InfoTest, Refetch,
       ReadIdentity,
         ReadDescription, NewPackage, SetName, SetDetails, CleanControl, Walk,
             CheckFiles, Check, Free, Null
  <2> QED
    BY <1>4, <1>5, <1>6, <2>1
<1> QED
  BY <1>1, <1>2, <1>7

-----------------------------------------------------------------------------
\* The invariant holds at the start.
LEMMA InitIInv == Init => IInv
<1> SUFFICES ASSUME Init PROVE IInv
  OBVIOUS
<1>1. \A c \in Conversion : /\ conv[c].pc = "idle" /\ conv[c].dir = 0 /\ conv[c].known = Nobody
  BY DEF Init
<1>2. TypeOK
  <2>1. conv \in [Conversion -> Thread]
    <3>1. ASSUME NEW d \in Deb
          PROVE  [pc |-> "idle", deb |-> d, dir |-> 0, known |-> Nobody, todo |-> {},
                  pkg |-> 0, whole |-> TRUE, said |-> "nothing"] \in Thread
      BY ZeroName DEF Thread, PC
    <3> QED
      BY <3>1 DEF Init
  <2>2. rpm \in [Deb -> Rpm]
    BY DEF Init, Rpm
  <2>3. heap \in Seq(AppPkg) /\ m_apkg \in 0..Len(heap)
    BY DEF Init
  <2>4. /\ tmpbuf \in Names /\ fault = "none" /\ overlapped \in BOOLEAN
        /\ disk \in [Names -> SUBSET File]
    BY ZeroName DEF Init
  <2> QED
    BY <2>1, <2>2, <2>3, <2>4 DEF TypeOK
<1>3. NamesTaken
  <2>1. Named1 = {} /\ Named2 = {}
    BY <1>1 DEF Named1, Named2
  <2>2. tmpbuf = 0 /\ 0 = 0 + 0
    BY DEF Init
  <2> QED
    BY <2>1, <2>2, FS_EmptySet DEF NamesTaken
<1>4. FreshNames
  <2>1. tmpbuf = 0 /\ \A n \in Names : disk[n] = {}
    BY DEF Init
  <2> QED
    BY <1>1, <2>1 DEF FreshNames
<1>5. \A c \in Conversion : ~Running(conv[c])
  BY <1>1 DEF Running
<1>6. RpmOrder
  <2>1. \A d \in Deb : rpm[d].state = "absent"
    BY DEF Init
  <2> QED
    BY <1>1, <2>1 DEF RpmOrder, RpmInv, PartInv, PayInv
<1>7. OneLive /\ m_apkg = 0
  BY DEF Init, OneLive
<1> QED
  BY <1>1, <1>2, <1>3, <1>4, <1>5, <1>6, <1>7 DEF IInv, InOrder, OneRuns, IdleKnows,
     CrashNeedsOverlap, Init

\* A step after which still no two have run at once keeps the order.
LEMMA StepInOrder ==
  ASSUME IInv, NEW c \in Conversion, Step(c), ~overlapped'
  PROVE  /\ InOrder'
         /\ CrashNeedsOverlap'
<1>0. /\ TypeOK /\ FreshNames /\ NamesTaken /\ IdleKnows
      /\ conv \in [Conversion -> Thread]
  BY DEF IInv, TypeOK
<1>1. ~overlapped /\ \A e \in Conversion \ {c} : ~Running(conv[e])
  <2>1. CASE TakeName(c)
    <3>1. ~overlapped /\ ~\E e \in Conversion \ {c} : Running(conv[e])
      BY <1>0, <2>1, TakeNameEffect DEF Moved, Running
    <3> QED
      BY <3>1
  <2>2. CASE ~TakeName(c)
    <3>1. Running(conv[c]) /\ ~overlapped
      BY <1>0, <2>2, StepKeeps DEF Kept
    <3> QED
      BY <3>1 DEF IInv, InOrder, OneRuns
  <2> QED
    BY <2>1, <2>2
<1>2. /\ OneLive /\ RpmOrder
      /\ Running(conv[c]) => Order(conv[c])
      /\ ~Running(conv[c]) => m_apkg = 0
  <2>1. ~Running(conv[c]) => \A e \in Conversion : ~Running(conv[e])
    BY <1>1
  <2> QED
    BY <1>1, <2>1 DEF IInv, InOrder
<1>3. \A e \in Conversion \ {c} : conv'[e] = conv[e]
  <2>1. CASE TakeName(c)
    BY <1>0, <2>1, TakeNameEffect DEF Moved
  <2>2. CASE ~TakeName(c)
    BY <1>0, <2>2, StepKeeps DEF Kept
  <2> QED
    BY <2>1, <2>2
<1>4. /\ OneLive'
      /\ Running(conv'[c]) => Order(conv[c])'
      /\ ~Running(conv'[c]) => m_apkg' = 0
  <2>1. ASSUME NEW what, Fails(what)
        PROVE  /\ OneLive'
               /\ Running(conv'[c]) => Order(conv[c])'
               /\ ~Running(conv'[c]) => m_apkg' = 0
    <3>1. UNCHANGED <<tmpbuf, m_apkg, heap, disk, rpm, conv>>
      BY <2>1 DEF Fails, statics, files
    <3>2. OneLive'
      BY <1>2, <3>1 DEF OneLive
    <3>3. Running(conv[c]) => Order(conv[c])'
      BY <1>2, <3>1 DEF Order, PackageOf, NameOf, DirectoryOf, WholeOf, Live
    <3> QED
      BY <1>2, <3>1, <3>2, <3>3
  <2>2. CASE \A what : ~Fails(what)
    <3>1. TakeName(c) => tmpbuf + 1 \in Names
      <4>1. TakeName(c) => conv[c].pc \in {"idle", "meta"}
        BY DEF TakeName, At
      <4> QED
        BY <1>0, <4>1, NameLeft
    <3>2. Ready(c)
      BY <1>0, <1>2, <2>2, <3>1 DEF Ready, IdleKnows
    <3> QED
      BY <3>2, OrderStep
  <2> QED
    BY <2>1, <2>2
<1>5. RpmOrder'
  BY <1>0, <1>1, <1>2, RpmStep
<1>6. InOrder'
  <2>1. OneRuns'
    BY <1>1, <1>3 DEF OneRuns
  <2>2. (\A e \in Conversion : ~Running(conv'[e])) => m_apkg' = 0
    BY <1>4
  <2>3. \A e \in Conversion : Running(conv'[e]) => (e = c)
    BY <1>1, <1>3
  <2>4. \A e \in Conversion : Running(conv'[e]) => Order(conv[e])'
    BY <1>4, <2>3
  <2> QED
    BY <1>4, <1>5, <2>1, <2>2, <2>4 DEF InOrder
<1>7. CrashNeedsOverlap'
  BY <1>0, <1>2, CrashStep DEF CrashNeedsOverlap
<1> QED
  BY <1>6, <1>7

\* Every step keeps the invariant ...
LEMMA StepIInv ==
  ASSUME IInv, NEW c \in Conversion, Step(c)
  PROVE  IInv'
<1>0. TypeOK /\ NamesTaken /\ FreshNames /\ IdleKnows /\ conv \in [Conversion -> Thread]
  BY DEF IInv, TypeOK
<1>1. TypeOK'
  <2>1. TakeName(c) => conv[c].pc \in {"idle", "meta"}
    BY DEF TakeName, At
  <2>2. TakeName(c) => tmpbuf + 1 \in Names
    BY <1>0, <2>1, NameLeft
  <2> QED
    BY <1>0, <2>2, TypeStep
<1>2. NamesTaken'
  BY <1>0, NamesStep
<1>3. FreshNames'
  BY <1>0, <1>1, FreshStep
<1>4. IdleKnows'
  <2>1. CASE TakeName(c)
    BY <1>0, <2>1, TakeNameEffect DEF Moved, IdleKnows
  <2>2. CASE ~TakeName(c)
    BY <1>0, <2>2, StepKeeps DEF Kept, IdleKnows
  <2> QED
    BY <2>1, <2>2
<1>5. CASE ~overlapped'
  BY <1>1, <1>2, <1>3, <1>4, <1>5, StepInOrder DEF IInv
<1>6. CASE overlapped'
  BY <1>1, <1>2, <1>3, <1>4, <1>6 DEF IInv, InOrder, CrashNeedsOverlap
<1> QED
  BY <1>5, <1>6

\* ... and so does a step that changes nothing.
LEMMA StutterIInv ==
  ASSUME IInv, UNCHANGED vars
  PROVE  IInv'
<1> USE DEF vars
<1>1. TypeOK'
  BY DEF IInv, TypeOK
<1>2. NamesTaken' /\ FreshNames' /\ IdleKnows' /\ CrashNeedsOverlap'
  BY DEF IInv, NamesTaken, Named1, Named2, FreshNames, IdleKnows, CrashNeedsOverlap
<1>3. RpmOrder <=> RpmOrder'
  BY DEF RpmOrder, RpmInv, PartInv, PayInv
<1>4. OneRuns' <=> OneRuns
  BY DEF OneRuns
<1>5. OneLive' <=> OneLive
  BY DEF OneLive
<1>6. \A c \in Conversion : Order(conv[c])' <=> Order(conv[c])
  BY DEF Order, PackageOf, NameOf, DirectoryOf, WholeOf, Live
<1>7. InOrder'
  BY <1>3, <1>4, <1>5, <1>6 DEF IInv, InOrder
<1> QED
  BY <1>1, <1>2, <1>7 DEF IInv

\* So it holds in every behaviour.
LEMMA Invariance == Spec => []IInv
<1>1. IInv /\ [Next]_vars => IInv'
  <2>1. ASSUME IInv, Next PROVE IInv'
    BY <2>1, StepIInv, StutterIInv DEF Next, Rest
  <2> QED
    BY <2>1, StutterIInv
<1> QED
  BY <1>1, InitIInv, PTL DEF Spec

\* The types, for any number of conversions: the pointer all threads share
\* stays within what was allocated, and tmpnam's names do not run out.
THEOREM ConversionTypes == Spec => []TypeOK
<1>1. IInv => TypeOK
  BY DEF IInv
<1> QED
  BY <1>1, Invariance, PTL

\* install_deb called by one thread after the other meets no package that is
\* not its own or is gone: the one crash left is a missing Description.
THEOREM CrashOnlyOnOverlap == Spec => []CrashNeedsOverlap
<1>1. IInv => CrashNeedsOverlap
  BY DEF IInv
<1> QED
  BY <1>1, Invariance, PTL

\* Called so, it writes what its own archive holds under its own name, and
\* all of that unless an extraction failed.
THEOREM WritesOwnFiles == Spec => []OwnFilesOnly
<1>1. IInv => OwnFilesOnly
  BY DEF IInv, InOrder, RpmOrder, RpmInv, OwnFilesOnly, Own
<1> QED
  BY <1>1, Invariance, PTL

\* Called so, it leaves a whole package at <deb>.rpm or none.
THEOREM ReportsWhole == Spec => []ReportedWhole
<1>1. IInv => ReportedWhole
  <2>1. SUFFICES ASSUME IInv, ~overlapped, NEW c \in Conversion,
                        \A e \in Conversion : ~Running(conv[e])
                 PROVE  rpm[conv[c].deb].state \in {"absent", "whole"}
    BY DEF ReportedWhole
  <2>2. conv[c].deb \in Deb
    <3>1. conv \in [Conversion -> Thread]
      BY <2>1 DEF IInv, TypeOK
    <3> QED
      BY <3>1 DEF Thread
  <2> QED
    BY <2>1, <2>2 DEF IInv, InOrder, RpmOrder, PartInv, Running
<1> QED
  BY <1>1, Invariance, PTL

\* Called so, it frees its package and resets m_apkg on every exit.
THEOREM LeavesNothing == Spec => []NothingLeft
<1>1. IInv => NothingLeft
  <2>1. SUFFICES ASSUME IInv, ~overlapped, \A c \in Conversion : ~Running(conv[c])
                 PROVE  m_apkg = 0 /\ \A p \in DOMAIN heap : ~heap[p].live
    BY DEF NothingLeft
  <2>2. m_apkg = 0 /\ OneLive
    BY <2>1 DEF IInv, InOrder
  <2>3. DOMAIN heap = 1..Len(heap) /\ Len(heap) \in Nat
    BY SeqDomain DEF IInv, TypeOK
  <2>4. \A p \in DOMAIN heap : p # 0
    BY <2>3
  <2> QED
    BY <2>2, <2>4 DEF OneLive
<1> QED
  BY <1>1, Invariance, PTL

=============================================================================
