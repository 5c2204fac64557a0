----------------------------- MODULE DebConvert -----------------------------
(***************************************************************************)
(* install_deb (daemon/deb-helper.c): the conversion of a Debian archive   *)
(* into an rpm, run by any number of threads at once.  The threads share   *)
(* the file's static variables: the package under construction (m_apkg)    *)
(* and m_buildroot, which, as meta does, points at the one static buffer   *)
(* of tmpnam.  So both name the same directory, whatever name the last     *)
(* call of tmpnam left in the buffer.                                      *)
(*                                                                         *)
(* An extraction (extracthalf, see DebPipeline) has its directory fixed    *)
(* when tar is forked and its files there when tar has exited; that it     *)
(* failed is never looked at.                                              *)
(***************************************************************************)
EXTENDS Naturals, Sequences, FiniteSets

CONSTANTS
  Conversion,     \* the threads
  Deb,            \* the archives
  Undescribed     \* those whose control file has no Description

ASSUME DebAssumption ==
  /\ IsFiniteSet(Conversion)
  /\ Undescribed \subseteq Deb
  /\ {"control", "triggers", "nobody"} \cap Deb = {}

VARIABLES
  tmpbuf,        \* the number of the name in tmpnam's buffer, 0 at the start
  m_apkg,        \* the package under construction, 0 for NULL
  heap,          \* every AppPkg allocated
  disk,          \* the files in each temporary directory
  rpm,           \* what is at <deb>.rpm
  conv,          \* the threads
  fault,         \* the undefined behaviour met, or "none"
  overlapped     \* history: two conversions have run at the same time

statics == <<tmpbuf, m_apkg, heap>>
files == <<disk, rpm>>
vars == <<tmpbuf, m_apkg, heap, disk, rpm, conv, fault, overlapped>>

Nobody == "nobody"

\* A member of an archive.  A data file's path is its archive's own; every
\* archive has a control file, and one that m_dirtyfiles does not list.
Data(d) == {[path |-> d, owner |-> d]}
Control(d) == {[path |-> p, owner |-> d] : p \in {"control", "triggers"}}
DirtyFiles == {"control"}
Path == Deb \cup {"control", "triggers"}
File == [path : Path, owner : Deb]

Paths(S) == {f.path : f \in S}

\* Files written over those already there.
Put(S, new) == {f \in S : f.path \notin Paths(new)} \cup new

Names == 0..(2 * Cardinality(Conversion))

PC == {"idle", "meta", "extract", "untar", "control", "unpack",
       "info", "fetch", "read", "new", "name", "details", "clean", "walk",
       "add", "write", "create", "payload", "check", "free", "null", "returned"}

Thread == [pc : PC, deb : Deb, dir : Names, known : Deb \cup {Nobody},
           todo : SUBSET Path, pkg : Nat, whole : BOOLEAN,
           said : {"nothing", "problem", "converted"}]

AppPkg == [name : Deb \cup {Nobody}, files : SUBSET Path, live : BOOLEAN]

Rpm == [state : {"absent", "partial", "garbled", "whole"},
        writer : Conversion \cup {Nobody}, name : Deb \cup {Nobody}, files : SUBSET File]

-----------------------------------------------------------------------------
Running(t) == t.pc \notin {"idle", "returned"}

\* Thread c is about to do pc; after undefined behaviour nobody is.
At(c, pc) == conv[c].pc = pc /\ fault = "none"

Becomes(c, t) ==
  /\ conv' = [conv EXCEPT ![c] = t]
  /\ overlapped' = (overlapped \/ (Running(t) /\ \E e \in Conversion \ {c} : Running(conv[e])))

Go(c, pc) == Becomes(c, [conv[c] EXCEPT !.pc = pc])

Live(p) == p \in DOMAIN heap /\ heap[p].live

\* An access through a pointer to no package or to a freed one.
Fails(what) ==
  /\ fault' = what
  /\ UNCHANGED <<statics, files, conv, overlapped>>

Init ==
  /\ tmpbuf = 0 /\ m_apkg = 0 /\ heap = <<>> /\ fault = "none"
  /\ disk = [n \in Names |-> {}]
  /\ rpm = [d \in Deb |-> [state |-> "absent", writer |-> Nobody, name |-> Nobody, files |-> {}]]
  /\ conv \in [Conversion ->
       {[pc |-> "idle", deb |-> d, dir |-> 0, known |-> Nobody, todo |-> {},
         pkg |-> 0, whole |-> TRUE, said |-> "nothing"] : d \in Deb}]
  /\ overlapped = FALSE

MutantTakeName(c) ==   \* the name may be that of an existing directory
  /\ \/ At(c, "idle") /\ Go(c, "meta")
     \/ At(c, "meta") /\ Go(c, "extract")
  /\ tmpbuf' = 1
  /\ UNCHANGED <<m_apkg, heap, files, fault>>

\* m_buildroot = tmpnam(NULL), meta = tmpnam(NULL): a name no file has.
TakeName(c) ==
  /\ \/ At(c, "idle") /\ Go(c, "meta")
     \/ At(c, "meta") /\ Go(c, "extract")
  /\ tmpbuf' = tmpbuf + 1
  /\ UNCHANGED <<m_apkg, heap, files, fault>>

\* tmpnam or, later, malloc returns NULL: the problem is reported.
GiveUp(c) ==
  /\ At(c, "extract") \/ (At(c, "info") /\ conv[c].known = Nobody)
  /\ Becomes(c, [conv[c] EXCEPT !.pc = "check", !.said = "problem"])
  /\ UNCHANGED <<statics, files, fault>>

\* An extraction starts in the directory the buffer names now.
BeginExtract(c, from, to) ==
  /\ At(c, from)
  /\ Becomes(c, [conv[c] EXCEPT !.pc = to, !.dir = tmpbuf])
  /\ UNCHANGED <<statics, files, fault>>

\* It ends with its files there or, having failed, with none of them.
EndExtract(c, from, members, to) ==
  /\ At(c, from)
  /\ \E got \in {members, {}} :
       /\ disk' = [disk EXCEPT ![conv[c].dir] = Put(@, got)]
       /\ Becomes(c, [conv[c] EXCEPT !.pc = to, !.dir = 0, !.whole = @ /\ got = members])
  /\ UNCHANGED <<statics, rpm, fault>>

Extract(c) ==
  \/ BeginExtract(c, "extract", "untar")
  \/ EndExtract(c, "untar", Data(conv[c].deb), "control")
  \/ BeginExtract(c, "control", "unpack")
  \/ EndExtract(c, "unpack", Control(conv[c].deb), "info")

\* deb_info: the control members are extracted again if there is no control
\* file in the directory.
InfoTest(c) ==
  /\ At(c, "info")
  /\ Becomes(c, [conv[c] EXCEPT !.dir = tmpbuf,
                   !.pc = IF "control" \in Paths(disk[tmpbuf]) THEN "read" ELSE "fetch"])
  /\ UNCHANGED <<statics, files, fault>>

MutantRefetch(c) ==   \* into a new directory
  /\ At(c, "fetch")
  /\ tmpbuf' = tmpbuf + 1
  /\ \E got \in {Control(conv[c].deb), {}} : disk' = [disk EXCEPT ![tmpbuf] = Put(@, got)]
  /\ Go(c, "read")
  /\ UNCHANGED <<m_apkg, heap, rpm, fault>>

Refetch(c) ==
  /\ At(c, "fetch")
  /\ \E got \in {Control(conv[c].deb), {}} : disk' = [disk EXCEPT ![tmpbuf] = Put(@, got)]
  /\ Go(c, "read")
  /\ UNCHANGED <<statics, rpm, fault>>

\* Whose control file it is that the path built before the test names now.
Found(c) == {f \in disk[conv[c].dir] : f.path = "control"}

\* Package, Version and Architecture, read in one step: without a control file
\* the conversion ends and nobody is told.
ReadIdentity(c) ==
  /\ At(c, "read") /\ conv[c].known = Nobody
  /\ \/ /\ Found(c) = {}
        /\ Becomes(c, [conv[c] EXCEPT !.pc = "check", !.dir = 0])
     \/ \E f \in Found(c) :
          Becomes(c, [conv[c] EXCEPT !.pc = "new", !.dir = 0, !.known = f.owner])
  /\ UNCHANGED <<statics, files, fault>>

\* Homepage, Section, Description: the line of v1 is cut at its first newline,
\* which a Description that is not there does not have.  Without a control
\* file v1 is an earlier field.
ReadDescription(c) ==
  /\ At(c, "read") /\ conv[c].known # Nobody
  /\ \/ /\ \A f \in Found(c) : f.owner \notin Undescribed
        /\ Becomes(c, [conv[c] EXCEPT !.pc = "details", !.dir = 0])
        /\ UNCHANGED <<statics, files, fault>>
     \/ /\ \A f \in Found(c) : f.owner \in Undescribed
        /\ Fails("no description")

\* m_apkg = app_pkg_new().
NewPackage(c) ==
  /\ At(c, "new")
  /\ heap' = Append(heap, [name |-> Nobody, files |-> {}, live |-> TRUE])
  /\ m_apkg' = Len(heap) + 1
  /\ Go(c, "name")
  /\ UNCHANGED <<tmpbuf, files, fault>>

\* app_pkg_set_name, ..., app_pkg_set_arch.  A tag that is in the header
\* already stays as it is.
SetName(c) ==
  /\ At(c, "name")
  /\ \/ /\ Live(m_apkg)
        /\ heap' = [heap EXCEPT ![m_apkg].name = IF @ = Nobody THEN conv[c].known ELSE @]
        /\ Go(c, "info")
        /\ UNCHANGED <<tmpbuf, m_apkg, files, fault>>
     \/ ~Live(m_apkg) /\ Fails("package gone")

\* app_pkg_set_url, ..., app_pkg_set_packager.
SetDetails(c) ==
  /\ At(c, "details")
  /\ \/ Live(m_apkg) /\ Go(c, "clean") /\ UNCHANGED <<statics, files, fault>>
     \/ ~Live(m_apkg) /\ Fails("package gone")

CleanControl(c) ==
  /\ At(c, "clean")
  /\ disk' = [disk EXCEPT ![tmpbuf] = {f \in @ : f.path \notin DirtyFiles}]
  /\ Go(c, "walk")
  /\ UNCHANGED <<statics, rpm, fault>>

\* traverse_directory lists the directory, then adds file by file to the
\* package m_apkg points to at that time.
Walk(c) ==
  \/ /\ At(c, "walk")
     /\ Becomes(c, [conv[c] EXCEPT !.pc = "add", !.todo = Paths(disk[tmpbuf])])
     /\ UNCHANGED <<statics, files, fault>>
  \/ \E p \in conv[c].todo :
       /\ At(c, "add")
       /\ \/ /\ Live(m_apkg)
             /\ heap' = [heap EXCEPT ![m_apkg].files = @ \cup {p}]
             /\ Becomes(c, [conv[c] EXCEPT !.todo = @ \ {p}])
             /\ UNCHANGED <<tmpbuf, m_apkg, files, fault>>
          \/ ~Live(m_apkg) /\ Fails("package gone")
  \/ /\ At(c, "add") /\ conv[c].todo = {}
     /\ Go(c, "write")
     /\ UNCHANGED <<statics, files, fault>>

\* converted(1.0, <deb>.rpm), whatever app_pkg_write returned.
Reported(c) ==
  Becomes(c, [conv[c] EXCEPT !.pc = "check", !.said = "converted",
                             !.todo = {}, !.pkg = 0, !.dir = 0])

\* app_pkg_write(m_apkg, m_buildroot, <deb>.rpm): processPackageFiles fails
\* for a file that is not there, or for other reasons, and so does the search
\* for dependencies.  install_deb goes on all the same.
CheckFiles(c) ==
  /\ At(c, "write")
  /\ \/ /\ Live(m_apkg) /\ heap[m_apkg].files \subseteq Paths(disk[tmpbuf])
        /\ Becomes(c, [conv[c] EXCEPT !.pc = "create", !.pkg = m_apkg, !.dir = tmpbuf,
                                      !.todo = heap[m_apkg].files])
        /\ UNCHANGED <<statics, files, fault>>
     \/ Live(m_apkg) /\ Reported(c) /\ UNCHANGED <<statics, files, fault>>
     \/ ~Live(m_apkg) /\ Fails("package gone")

\* writeRPM opens its file with w+ ...
Create(c) ==
  /\ At(c, "create")
  /\ \/ /\ Live(conv[c].pkg)
        /\ rpm' = [rpm EXCEPT ![conv[c].deb] = [state |-> "partial", writer |-> c,
                      name |-> heap[conv[c].pkg].name, files |-> {}]]
        /\ Go(c, "payload")
        /\ UNCHANGED <<statics, disk, fault>>
     \/ ~Live(conv[c].pkg) /\ Fails("package gone")

\* ... writes the lead, the header and the payload, and the signature last.
\* What two threads write at once to one file is garbled; a file that was
\* unlinked meanwhile is written to no avail.
Payload(c) ==
  LET r == rpm[conv[c].deb]
      cpio == {f \in disk[conv[c].dir] : f.path \in conv[c].todo} IN
  /\ At(c, "payload")
  /\ \/ /\ Live(conv[c].pkg)
        /\ conv[c].todo \subseteq Paths(disk[conv[c].dir])
        /\ rpm' = [rpm EXCEPT ![conv[c].deb] =
                     IF r.state = "partial" /\ r.writer = c
                     THEN [r EXCEPT !.state = "whole", !.files = cpio]
                     ELSE [r EXCEPT !.state = IF @ = "absent" THEN @ ELSE "garbled"]]
        /\ Reported(c)
        /\ UNCHANGED <<statics, disk, fault>>
     \/ ~Live(conv[c].pkg) /\ Fails("package gone")

MutantWriteFails(c) ==   \* the file stays
  /\ At(c, "create") \/ At(c, "payload")
  /\ Reported(c)
  /\ UNCHANGED <<statics, files, fault>>

\* After any error of writeRPM, those before the file is opened included, the
\* file is unlinked.
WriteFails(c) ==
  /\ At(c, "create") \/ At(c, "payload")
  /\ rpm' = [rpm EXCEPT ![conv[c].deb].state = "absent"]
  /\ Reported(c)
  /\ UNCHANGED <<statics, disk, fault>>

MutantCheck(c) ==   \* return in place of goto exit
  /\ At(c, "check")
  /\ Go(c, "returned")
  /\ UNCHANGED <<statics, files, fault>>

\* exit: if (m_apkg) { app_pkg_free(m_apkg); m_apkg = NULL; }
Check(c) ==
  /\ At(c, "check")
  /\ Go(c, IF m_apkg = 0 THEN "returned" ELSE "free")
  /\ UNCHANGED <<statics, files, fault>>

Free(c) ==
  /\ At(c, "free")
  /\ \/ /\ Live(m_apkg)
        /\ heap' = [heap EXCEPT ![m_apkg] = [name |-> Nobody, files |-> {}, live |-> FALSE]]
        /\ Go(c, "null")
        /\ UNCHANGED <<tmpbuf, m_apkg, files, fault>>
     \/ ~Live(m_apkg) /\ Fails("freed again")

MutantNull(c) ==   \* m_apkg is not reset
  /\ At(c, "null")
  /\ Go(c, "returned")
  /\ UNCHANGED <<statics, files, fault>>

Null(c) ==
  /\ At(c, "null")
  /\ m_apkg' = 0
  /\ Go(c, "returned")
  /\ UNCHANGED <<tmpbuf, heap, files, fault>>

Rest ==
  /\ fault # "none" \/ \A c \in Conversion : conv[c].pc = "returned"
  /\ UNCHANGED vars

Step(c) ==
  \/ TakeName(c) \/ GiveUp(c) \/ Extract(c)
  \/ InfoTest(c) \/ Refetch(c) \/ ReadIdentity(c) \/ ReadDescription(c)
  \/ NewPackage(c) \/ SetName(c) \/ SetDetails(c)
  \/ CleanControl(c) \/ Walk(c) \/ CheckFiles(c)
  \/ Create(c) \/ Payload(c) \/ WriteFails(c)
  \/ Check(c) \/ Free(c) \/ Null(c)

Next == (\E c \in Conversion : Step(c)) \/ Rest

Spec == Init /\ [][Next]_vars

-----------------------------------------------------------------------------
\* The types, and the shared pointer stays within what was allocated.
TypeOK ==
  /\ tmpbuf \in Names
  /\ heap \in Seq(AppPkg)
  /\ m_apkg \in 0..Len(heap)
  /\ disk \in [Names -> SUBSET File]
  /\ rpm \in [Deb -> Rpm]
  /\ conv \in [Conversion -> Thread]
  /\ fault \in {"none", "no description", "package gone", "freed again"}
  /\ overlapped \in BOOLEAN

\* The statics of install_deb serve one conversion after the other: while no
\* two have run at once, a conversion never meets a package that is not its
\* own or is gone.  The one crash left is a control file without Description.
CrashNeedsOverlap ==
  fault # "none" /\ ~overlapped =>
    /\ fault = "no description"
    /\ \E c \in Conversion : conv[c].deb \in Undescribed

\* And what it writes is what its own archive holds, the control members
\* that m_dirtyfiles does not name included, under its own name; an
\* extraction that failed shows in what is missing only.
OwnFilesOnly ==
  ~overlapped =>
    \A d \in Deb : rpm[d].state # "absent" =>
      LET own == Data(d) \cup {f \in Control(d) : f.path \notin DirtyFiles} IN
      /\ rpm[d].name = d
      /\ rpm[d].files \subseteq own
      /\ rpm[d].state = "whole" /\ conv[rpm[d].writer].whole => rpm[d].files = own

\* A conversion that has run alone leaves at <deb>.rpm a whole package or,
\* having failed, none, before it reports it; never a part of one.
ReportedWhole ==
  ~overlapped =>
    \A c \in Conversion :
      conv[c].said = "converted" /\ (\A e \in Conversion : ~Running(conv[e])) =>
        rpm[conv[c].deb].state \in {"absent", "whole"}

\* Whatever exit a conversion takes, it frees its package and leaves m_apkg
\* NULL for the next one.
NothingLeft ==
  ~overlapped /\ fault = "none" /\ (\A c \in Conversion : ~Running(conv[c])) =>
    m_apkg = 0 /\ \A p \in DOMAIN heap : ~heap[p].live
=============================================================================
